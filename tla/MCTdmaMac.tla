------------------------------ MODULE MCTdmaMac ------------------------------
(***************************************************************************)
(* TLC instances of TdmaMac.  Packets are the flows of the committed node  *)
(* files: flow5-flow7 are node0.nc's (the sink), flow8-flow10 node3.nc's;  *)
(* fwd is a LO packet passing through, bad one whose priority no queue     *)
(* has.                                                                    *)
(***************************************************************************)
EXTENDS TdmaMac, TLC

CONSTANTS flow5, flow6, flow7, flow8, flow9, flow10, fwd, bad

Pointers == (0 .. QUEUE_SIZE) \X (1 .. 3)

FlowPriority == [p \in Packet |-> CASE p \in {flow6, flow8, fwd} -> 1
                                    [] p \in {flow7, flow9} -> 2
                                    [] p \in {flow5, flow10} -> 3
                                    [] p = bad -> 4]
FlowCrit == [p \in Packet |-> IF p \in {flow5, flow7, flow9} THEN "HI" ELSE "LO"]
FlowC == [p \in Packet |-> CASE p = flow5 -> 3 [] p = flow10 -> 2 [] OTHER -> 1]

\* The hypothesis of the theorems on HI packets holds in every instance.
ASSUME MCPrioritiesSeparate == PrioritiesSeparate

\* No action reads the history variables: two states that differ in nothing
\* else behave alike.
WithoutHistory == <<queueVars, modeVars, statusVars, phyLock, selfDataPkt, radio,
                    taskVars, discarded, slot, crashed>>
==============================================================================
