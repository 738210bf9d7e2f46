---------------------------- MODULE MCAirtightNet ----------------------------
(***************************************************************************)
(* A TLC instance of AirtightNet: a HI flow from node 3 to node 1, which   *)
(* the sink forwards, and a LO flow of the sink's own to node 1; each with *)
(* the priority such flows have in node0.nc and node3.nc, and the HI       *)
(* priorities of priocrit0.nc, priocrit1.nc and priocrit3.nc.              *)
(***************************************************************************)
EXTENDS AirtightNet

CONSTANTS relayed, own

FlowSrc == [fl \in Flow |-> IF fl = relayed THEN 3 ELSE 0]
FlowDst == [fl \in Flow |-> 1]
FlowCrit == [fl \in Flow |-> IF fl = relayed THEN "HI" ELSE "LO"]
FlowPriority == [fl \in Flow |-> IF fl = relayed THEN 2 ELSE 1]
FlowMaxSeq == [fl \in Flow |-> IF fl = relayed THEN 2 ELSE 1]
HiPriorities == [n \in Node |-> CASE n = 0 -> {2, 3} [] n = 3 -> {2} [] OTHER -> {}]
==============================================================================
