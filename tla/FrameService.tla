----------------------------- MODULE FrameService -----------------------------
(***************************************************************************)
(* What the radio stack promises the MAC, from RadioSend.nc, BareSend.nc   *)
(* and PacketAcknowledgements.nc: an accepted send is answered exactly     *)
(* once; with SUCCESS if the frame went on the air, once, and the answer   *)
(* then tells whether an acknowledgement arrived; with EBUSY if it never   *)
(* went on the air.  Nothing is promised of the acknowledgement flag of a  *)
(* frame that was not sent.                                                *)
(***************************************************************************)
EXTENDS Naturals

VARIABLES
  busy,      \* a send was accepted and has not been answered
  airings,   \* how often its frame has been transmitted
  answered,  \* an acknowledgement of it has arrived
  report     \* the last answer: error code and wasAcked()

vars == <<busy, airings, answered, report>>

Reports == [error : {"SUCCESS", "EBUSY"}, acked : BOOLEAN]

Init == ~ busy /\ airings = 0 /\ ~ answered /\ report \in Reports

Send == /\ ~ busy
        /\ busy' = TRUE /\ airings' = 0 /\ answered' = FALSE
        /\ UNCHANGED report

GoOnAir == /\ busy /\ airings = 0
           /\ airings' = 1
           /\ UNCHANGED <<busy, answered, report>>

AckArrives == /\ busy /\ airings = 1 /\ ~ answered
              /\ answered' = TRUE
              /\ UNCHANGED <<busy, airings, report>>

Sent == /\ busy /\ airings = 1
        /\ report' = [error |-> "SUCCESS", acked |-> answered]

GaveUp == /\ busy /\ airings = 0
          /\ report' \in {r \in Reports : r.error = "EBUSY"}

SendDone == /\ Sent \/ GaveUp
            /\ busy' = FALSE
            /\ UNCHANGED <<airings, answered>>

Next == Send \/ GoOnAir \/ AckArrives \/ SendDone

SafeSpec == Init /\ [][Next]_vars
=============================================================================
