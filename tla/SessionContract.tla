--------------------------- MODULE SessionContract ---------------------------
(***************************************************************************)
(* What a session promises to the engine that runs it and to the readers   *)
(* of its closing record, whatever the pumps, stoppers and peers do: one   *)
(* reason is chosen, once, by whoever ended the session; the record is     *)
(* written only when there is a reason and the ssh channel is down.  A     *)
(* session may be lost without a record, but only after a stop.            *)
(***************************************************************************)
CONSTANT Blames       \* the reasons a session may end with

VARIABLES life,       \* "open", "recorded" or "lost"
          reason,     \* "" until chosen
          channel     \* "up" while the ssh process lives, then "down"

vars == <<life, reason, channel>>

Init ==
    /\ life = "open"
    /\ reason = ""
    /\ channel \in {"up", "down"}

\* Whoever ends the session may take the channel down in the same step.
Blame ==
    /\ reason = ""
    /\ reason' \in Blames
    /\ channel' \in {channel, "down"}
    /\ UNCHANGED life

Drop ==
    /\ channel = "up"
    /\ channel' = "down"
    /\ UNCHANGED <<life, reason>>

Record ==
    /\ life = "open" /\ channel = "down" /\ reason # ""
    /\ life' = "recorded"
    /\ UNCHANGED <<reason, channel>>

Lose ==
    /\ life = "open" /\ reason # ""
    /\ life' = "lost"
    /\ UNCHANGED <<reason, channel>>

Next == Blame \/ Drop \/ Record \/ Lose

Spec == Init /\ [][Next]_vars
=============================================================================
