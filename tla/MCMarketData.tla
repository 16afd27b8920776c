---------------------------- MODULE MCMarketData ----------------------------
(* Instance of MarketData for TLC: a MetaMorpho vault on one chain, and on  *)
(* another a market whose figures no run can take in.                       *)
EXTENDS MarketData, TLC

CONSTANTS v1, m1, a1, a2

MCChainOf    == (v1 :> "ethereum") @@ (m1 :> "base")
MCEventLabel == (v1 :> "erc4626") @@ (m1 :> "erc4626")
MCPast       == {<<a1, 1>>, <<a2, 1>>, <<a2, 2>>}
=============================================================================
