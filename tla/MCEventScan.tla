---------------------------- MODULE MCEventScan ----------------------------
(* Instance of EventScan for TLC: one kind of log per outcome of the parser *)
(* that the properties tell apart.                                          *)
EXTENDS EventScan

MCLog ==
  {[topic |-> "transfer", sender |-> TRUE, receiver |-> FALSE],
   [topic |-> "transfer", sender |-> FALSE, receiver |-> FALSE]}
=============================================================================
