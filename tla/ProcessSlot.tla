---------------------------- MODULE ProcessSlot ----------------------------
(***************************************************************************)
(* What a terminal tab promises about the process it runs, whatever the    *)
(* user, the agent and the timers do: a tab has one slot, a process is     *)
(* only asked for when the slot is empty, and a process that ended is      *)
(* collected before the next one is asked for.                             *)
(*                                                                         *)
(*   idle --> starting --> live --> zombie --> idle                        *)
(*               |                    |                                    *)
(*               +--> idle            +--> starting (automatic restart)    *)
(***************************************************************************)
CONSTANT Tabs

VARIABLE slot

Phases == {"idle", "starting", "live", "zombie"}

Init == slot = [t \in Tabs |-> "idle"]

Move(t, from, to) ==
    /\ slot[t] = from
    /\ slot' = [slot EXCEPT ![t] = to]

Launch(t)  == Move(t, "idle", "starting")
GiveUp(t)  == Move(t, "starting", "idle")
Started(t) == Move(t, "starting", "live")
Ended(t)   == Move(t, "live", "zombie")
Collect(t) == Move(t, "zombie", "idle")
Restart(t) == Move(t, "zombie", "starting")

Next ==
    \E t \in Tabs :
        \/ Launch(t)
        \/ GiveUp(t)
        \/ Started(t)
        \/ Ended(t)
        \/ Collect(t)
        \/ Restart(t)

(* A launch is answered, and a process that ended is collected.            *)
Fairness ==
    \A t \in Tabs :
        /\ WF_slot(GiveUp(t) \/ Started(t))
        /\ WF_slot(Collect(t) \/ Restart(t))

Safety == Init /\ [][Next]_slot

Spec == Safety /\ Fairness
=============================================================================
