----------------------------- MODULE EventScan -----------------------------
(***************************************************************************)
(* scan_events: one scan of one wallet, by the scanner of its chain.  A    *)
(* wallet of any other chain has no events and no scan.                    *)
(***************************************************************************)
EXTENDS EvmScan, SolanaScan

VARIABLE kind  \* the wallet's chain

vars == <<kind, evmVars, solVars>>

Init == kind \in {"evm", "solana"} /\ EvmInit /\ SolInit

ScanEvmEvents    == kind = "evm" /\ EvmNext /\ UNCHANGED <<kind, solVars>>
ScanSolanaEvents == kind = "solana" /\ SolNext /\ UNCHANGED <<kind, evmVars>>

Next == ScanEvmEvents \/ ScanSolanaEvents

Spec == Init /\ [][Next]_vars
-----------------------------------------------------------------------------
(* The properties of one scanner are in its module.                        *)

\* Type invariant.
TypeOK == EvmTypeOK /\ SolTypeOK
=============================================================================
