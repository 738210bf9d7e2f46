------------------------------ MODULE CritMode ------------------------------
(***************************************************************************)
(* The criticality protocol AirTight is about, with no queue, slot, task   *)
(* or radio in it: a node in LO mode sends frames of either criticality;   *)
(* the second missed acknowledgement puts it in HI mode, where it sends    *)
(* only HI frames; the fourth sends it back to LO mode with a clean count, *)
(* and so does having no HI frame left.                                    *)
(***************************************************************************)
EXTENDS Naturals

VARIABLES mode,   \* "LO" or "HI"
          fails,  \* acknowledgements missed since the count was last reset
          onAir   \* the criticality of the frame being sent, or "none"

Init == mode = "LO" /\ fails = 0 /\ onAir = "none"

\* A frame may be sent in the mode the node is in, or after falling back to
\* LO mode because no HI frame is left.
Transmit(c) ==
  /\ onAir = "none"
  /\ onAir' = c
  /\ \/ (mode = "HI" => c = "HI") /\ UNCHANGED <<mode, fails>>
     \/ mode = "HI" /\ mode' = "LO" /\ fails' = 0

\* Nothing (more) to send: the count starts again, in LO mode.
Restart ==
  /\ onAir = "none"
  /\ mode' = "LO" /\ fails' = 0
  /\ UNCHANGED onAir

Acknowledged ==
  /\ onAir # "none" /\ onAir' = "none"
  /\ UNCHANGED <<mode, fails>>

Missed ==
  /\ onAir # "none" /\ onAir' = "none"
  /\ \/ fails = 0 /\ fails' = 1 /\ UNCHANGED mode
     \/ fails \in {1, 2} /\ fails' = fails + 1 /\ mode' = "HI"
     \/ fails = 3 /\ fails' = 0 /\ mode' = "LO"

vars == <<mode, fails, onAir>>
Next == \/ \E c \in {"LO", "HI"} : Transmit(c)
        \/ Restart \/ Acknowledged \/ Missed

Spec == Init /\ [][Next]_vars
=============================================================================
