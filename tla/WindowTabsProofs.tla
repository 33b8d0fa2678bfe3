--------------------------- MODULE WindowTabsProofs ---------------------------
(***************************************************************************)
(* A window and its tabs, for any number of tabs and any depth of nested   *)
(* main loops: every begun close of a page has exactly one party that      *)
(* finishes it, a tab is in one place and never lost, no shown tab is      *)
(* force-quit unasked, and each tab behaves as in TabProcess.              *)
(***************************************************************************)
EXTENDS WindowTabs, SequenceTheorems, FiniteSetTheorems, TLAPS

(***************************************************************************)
(* One tab.  The inductive invariant ties self->state, self->process, the  *)
(* outstanding callbacks and the process itself together; none of the      *)
(* three parts is inductive alone (that a spawn callback finds its tab     *)
(* SPAWNING depends on no wait being outstanding then, and the other way   *)
(* round).                                                                 *)
(***************************************************************************)

IInv == TypeOK /\ CallbacksMatchState /\ ProcessMatchesState

(* The three outcomes of ptyxis_tab_respawn's caller share this: only t    *)
(* changes, to SPAWNING with one more spawn outstanding or to FAILED.      *)
LEMMA RespawnEffect ==
    ASSUME TypeOK, NEW t \in Tabs, NEW launched \in Launches,
           NEW said \in Labels, Respawn(t, launched, said)
    PROVE  /\ state' \in [Tabs -> States]
           /\ label' \in [Tabs -> Labels]
           /\ bannerVisible' \in [Tabs -> BOOLEAN]
           /\ spawnCalls' \in [Tabs -> Nat]
           /\ \A u \in Tabs \ {t} : /\ state'[u] = state[u]
                                    /\ label'[u] = label[u]
                                    /\ bannerVisible'[u] = bannerVisible[u]
                                    /\ spawnCalls'[u] = spawnCalls[u]
           /\ \/ /\ state'[t] = "SPAWNING"
                 /\ spawnCalls'[t] = spawnCalls[t] + 1
              \/ /\ state'[t] = "FAILED"
                 /\ spawnCalls'[t] = spawnCalls[t]
                 /\ label'[t] = "failed"
                 /\ bannerVisible'[t] = TRUE
<1>1. CASE launched
  <2>1. /\ state' = [state EXCEPT ![t] = "SPAWNING"]
        /\ label' = [label EXCEPT ![t] = said]
        /\ bannerVisible' = [bannerVisible EXCEPT ![t] = FALSE]
        /\ spawnCalls' = [spawnCalls EXCEPT ![t] = @ + 1]
    BY <1>1 DEF Respawn
  <2> QED
    BY <2>1 DEF TypeOK, States
<1>2. CASE ~launched
  <2>1. /\ state' = [state EXCEPT ![t] = "FAILED"]
        /\ label' = [label EXCEPT ![t] = "failed"]
        /\ bannerVisible' = [bannerVisible EXCEPT ![t] = TRUE]
        /\ spawnCalls' = spawnCalls
    BY <1>2 DEF Respawn
  <2> QED
    BY <2>1 DEF TypeOK, States, Labels
<1> QED
  BY <1>1, <1>2

(* Every way a wait can end frees the tab's slot: the process is let go,   *)
(* its wait is no longer outstanding and nothing else of the slot moves,   *)
(* except that a restart takes the slot at once.                           *)
LEMMA WaitEffect ==
    ASSUME IInv, NEW t \in Tabs, WaitDone(t)
    PROVE  /\ state[t] = "RUNNING"
           /\ child[t] \in Statuses
           /\ TypeOK'
           /\ process' = [process EXCEPT ![t] = FALSE]
           /\ child' = [child EXCEPT ![t] = "none"]
           /\ waitCalls' = [waitCalls EXCEPT ![t] = 0]
           /\ \A u \in Tabs \ {t} : /\ state'[u] = state[u]
                                    /\ spawnCalls'[u] = spawnCalls[u]
           /\ \/ state'[t] \in {"EXITED", "FAILED"} /\ spawnCalls'[t] = 0
              \/ state'[t] = "SPAWNING" /\ spawnCalls'[t] = 1
<1> USE DEF IInv
<1>1. Reap(t)
  BY DEF WaitDone, WaitForced, WaitSignaled, WaitRestart, WaitClose, WaitShow
<1>2. state[t] = "RUNNING" /\ waitCalls[t] = 1 /\ spawnCalls[t] = 0
  BY <1>1 DEF Reap, CallbacksMatchState, TypeOK
<1>3. /\ child[t] \in Statuses
      /\ process' = [process EXCEPT ![t] = FALSE]
      /\ child' = [child EXCEPT ![t] = "none"]
      /\ waitCalls' = [waitCalls EXCEPT ![t] = 0]
      /\ UNCHANGED << forcedExit, killArmed >>
  BY <1>1, <1>2 DEF Reap, TypeOK
<1>4. /\ process' \in [Tabs -> BOOLEAN]
      /\ child' \in [Tabs -> Children]
      /\ waitCalls' \in [Tabs -> Nat]
      /\ forcedExit' \in [Tabs -> BOOLEAN]
      /\ killArmed' \in [Tabs -> BOOLEAN]
  BY <1>3 DEF TypeOK, Children
<1>5. CASE WaitRestart(t)
  <2>1. PICK launched \in Launches : Respawn(t, launched, "restart")
    BY <1>5 DEF WaitRestart
  <2>2. "restart" \in Labels
    BY DEF Labels
  <2>3. /\ state' \in [Tabs -> States]
        /\ label' \in [Tabs -> Labels]
        /\ bannerVisible' \in [Tabs -> BOOLEAN]
        /\ spawnCalls' \in [Tabs -> Nat]
        /\ \A u \in Tabs \ {t} : /\ state'[u] = state[u]
                                 /\ spawnCalls'[u] = spawnCalls[u]
        /\ \/ state'[t] = "SPAWNING" /\ spawnCalls'[t] = spawnCalls[t] + 1
           \/ state'[t] = "FAILED" /\ spawnCalls'[t] = spawnCalls[t]
    BY <2>1, <2>2, RespawnEffect
  <2> QED
    BY <1>2, <1>3, <1>4, <2>3 DEF TypeOK
<1>6. CASE WaitForced(t) \/ WaitSignaled(t) \/ WaitClose(t) \/ WaitShow(t)
  <2>1. EndState(t) \in {"EXITED", "FAILED"}
    BY DEF EndState
  <2>2. state' = [state EXCEPT ![t] = EndState(t)] /\ spawnCalls' = spawnCalls
    BY <1>6 DEF WaitForced, WaitSignaled, WaitClose, WaitShow, EndWithBanner
  <2>3. label' \in [Tabs -> Labels] /\ bannerVisible' \in [Tabs -> BOOLEAN]
    BY <1>6 DEF WaitForced, WaitSignaled, WaitClose, WaitShow, EndWithBanner,
                TypeOK, Labels
  <2> QED
    BY <1>2, <1>3, <1>4, <2>1, <2>2, <2>3 DEF TypeOK, States
<1> QED
  BY <1>5, <1>6 DEF WaitDone

LEMMA InitInvariant == TabInit => IInv
  BY DEF TabInit, IInv, TypeOK, States, Labels, Children, Statuses,
         CallbacksMatchState, ProcessMatchesState

LEMMA NextInvariant == IInv /\ [TabNext]_tabVars => IInv'
<1> SUFFICES ASSUME IInv, [TabNext]_tabVars PROVE IInv'
  OBVIOUS
<1> USE DEF IInv, CallbacksMatchState, ProcessMatchesState
<1>1. ASSUME NEW t \in Tabs, Map(t) PROVE IInv'
  <2>1. PICK launched \in Launches : Respawn(t, launched, label[t])
    BY <1>1 DEF Map
  <2>2. label[t] \in Labels
    BY DEF TypeOK
  <2>3. UNCHANGED << process, forcedExit, child, waitCalls, killArmed >>
        /\ state[t] = "INITIAL"
    BY <1>1 DEF Map
  <2>4. /\ state' \in [Tabs -> States]
        /\ label' \in [Tabs -> Labels]
        /\ bannerVisible' \in [Tabs -> BOOLEAN]
        /\ spawnCalls' \in [Tabs -> Nat]
        /\ \A u \in Tabs \ {t} : /\ state'[u] = state[u]
                                 /\ spawnCalls'[u] = spawnCalls[u]
        /\ \/ state'[t] = "SPAWNING" /\ spawnCalls'[t] = spawnCalls[t] + 1
           \/ state'[t] = "FAILED" /\ spawnCalls'[t] = spawnCalls[t]
    BY <2>1, <2>2, RespawnEffect
  <2> QED
    BY <2>3, <2>4 DEF TypeOK
<1>2. ASSUME NEW t \in Tabs, RespawnAction(t) PROVE IInv'
  <2>1. PICK launched \in Launches : Respawn(t, launched, label[t])
    BY <1>2 DEF RespawnAction
  <2>2. label[t] \in Labels
    BY DEF TypeOK
  <2>3. UNCHANGED << process, forcedExit, child, waitCalls, killArmed >>
        /\ state[t] \in {"FAILED", "EXITED"}
    BY <1>2 DEF RespawnAction
  <2>4. /\ state' \in [Tabs -> States]
        /\ label' \in [Tabs -> Labels]
        /\ bannerVisible' \in [Tabs -> BOOLEAN]
        /\ spawnCalls' \in [Tabs -> Nat]
        /\ \A u \in Tabs \ {t} : /\ state'[u] = state[u]
                                 /\ spawnCalls'[u] = spawnCalls[u]
        /\ \/ state'[t] = "SPAWNING" /\ spawnCalls'[t] = spawnCalls[t] + 1
           \/ state'[t] = "FAILED" /\ spawnCalls'[t] = spawnCalls[t]
    BY <2>1, <2>2, RespawnEffect
  <2> QED
    BY <2>3, <2>4 DEF TypeOK
<1>3. ASSUME NEW t \in Tabs, SpawnDone(t) PROVE IInv'
  <2>1. state[t] = "SPAWNING" /\ spawnCalls[t] = 1 /\ waitCalls[t] = 0
    BY <1>3 DEF SpawnDone, TypeOK
  <2> QED
    BY <1>3, <2>1 DEF SpawnDone, TypeOK, States, Children
<1>4. ASSUME NEW t \in Tabs, SpawnFailed(t) PROVE IInv'
  <2>1. state[t] = "SPAWNING" /\ spawnCalls[t] = 1 /\ waitCalls[t] = 0
    BY <1>4 DEF SpawnFailed, TypeOK
  <2> QED
    BY <1>4, <2>1 DEF SpawnFailed, TypeOK, States, Labels
<1>5. ASSUME NEW t \in Tabs, Exit(t) PROVE IInv'
  BY <1>5, TabAssumption DEF Exit, TypeOK, Children, Statuses
<1>6. ASSUME NEW t \in Tabs, WaitDone(t) PROVE IInv'
  BY <1>6, WaitEffect DEF TypeOK
<1>7. ASSUME NEW t \in Tabs, KillTimer(t) PROVE IInv'
  BY <1>7 DEF KillTimer, TypeOK, Children
<1>8. ASSUME NEW t \in Tabs, ShowBanner(t) PROVE IInv'
  BY <1>8 DEF ShowBanner, TypeOK
<1>9. ASSUME NEW S \in SUBSET Tabs, ForceQuit(S) PROVE IInv'
  BY <1>9 DEF ForceQuit, TypeOK
<1>10. CASE UNCHANGED tabVars
  BY <1>10 DEF tabVars, TypeOK
<1> QED
  BY <1>1, <1>2, <1>3, <1>4, <1>5, <1>6, <1>7, <1>8, <1>9, <1>10
     DEF TabNext, TabStep

(* Every variable of a tab keeps its type.                                 *)
THEOREM TypeCorrect == TabSafety => []TypeOK
  BY InitInvariant, NextInvariant, PTL DEF TabSafety, IInv

(* The assertions of the spawn callback, the wait callback and respawn     *)
(* never fire, for any number of tabs in any interleaving.                 *)
THEOREM AssertionsHold == TabSafety => []CallbacksMatchState
  BY InitInvariant, NextInvariant, PTL DEF TabSafety, IInv

(* self->process is set exactly while the tab runs an uncollected process. *)
THEOREM ProcessNeverStale == TabSafety => []ProcessMatchesState
  BY InitInvariant, NextInvariant, PTL DEF TabSafety, IInv

-----------------------------------------------------------------------------
(* The banner *)

LEMMA InitBanner == TabInit => BannerTellsTheEnd
  BY DEF TabInit, BannerTellsTheEnd

LEMMA NextBanner ==
    IInv /\ BannerTellsTheEnd /\ [TabNext]_tabVars => BannerTellsTheEnd'
<1> SUFFICES ASSUME IInv, BannerTellsTheEnd, [TabNext]_tabVars,
                    NEW u \in Tabs,
                    state'[u] \in {"EXITED", "FAILED"}, ~forcedExit'[u]
             PROVE  label'[u] # "blank" /\ (label'[u] = "failed" => bannerVisible'[u])
  BY DEF BannerTellsTheEnd
<1> DEFINE Told == label'[u] # "blank" /\ (label'[u] = "failed" => bannerVisible'[u])
<1>1. TypeOK
  BY DEF IInv
<1>2. ASSUME state'[u] = state[u], label'[u] = label[u], ~forcedExit[u],
             bannerVisible'[u] = bannerVisible[u] \/ bannerVisible'[u] = TRUE
      PROVE  Told
  BY <1>2 DEF BannerTellsTheEnd
<1>3. ASSUME NEW t \in Tabs, NEW launched \in Launches, NEW said \in Labels,
             Respawn(t, launched, said), forcedExit' = forcedExit
      PROVE  Told
  <2>1. /\ u # t => /\ state'[u] = state[u]
                    /\ label'[u] = label[u]
                    /\ bannerVisible'[u] = bannerVisible[u]
        /\ \/ state'[t] = "SPAWNING"
           \/ label'[t] = "failed" /\ bannerVisible'[t] = TRUE
    BY <1>1, <1>3, RespawnEffect
  <2>2. CASE u = t
    BY <2>1, <2>2
  <2>3. CASE u # t
    BY <1>2, <1>3, <2>1, <2>3
  <2> QED
    BY <2>2, <2>3
<1>4. ASSUME NEW t \in Tabs, Map(t) \/ RespawnAction(t) PROVE Told
  <2>1. PICK launched \in Launches : Respawn(t, launched, label[t])
    BY <1>4 DEF Map, RespawnAction
  <2>2. label[t] \in Labels /\ forcedExit' = forcedExit
    BY <1>1, <1>4 DEF Map, RespawnAction, TypeOK
  <2> QED
    BY <1>3, <2>1, <2>2
<1>5. ASSUME NEW t \in Tabs, SpawnDone(t) PROVE Told
  <2>1. u # t
    BY <1>1, <1>5 DEF SpawnDone, TypeOK
  <2> QED
    BY <1>1, <1>2, <1>5, <2>1 DEF SpawnDone, TypeOK
<1>6. ASSUME NEW t \in Tabs, SpawnFailed(t) PROVE Told
  <2>1. CASE u = t
    BY <1>1, <1>6, <2>1 DEF SpawnFailed, TypeOK
  <2>2. CASE u # t
    BY <1>1, <1>2, <1>6, <2>2 DEF SpawnFailed, TypeOK
  <2> QED
    BY <2>1, <2>2
<1>7. ASSUME NEW t \in Tabs, WaitForced(t) PROVE Told
  <2>1. u # t /\ forcedExit' = forcedExit
    BY <1>7 DEF WaitForced, Reap
  <2>2. state'[u] = state[u] /\ label' = label /\ bannerVisible' = bannerVisible
    BY <1>1, <1>7, <2>1 DEF WaitForced, TypeOK
  <2> QED
    BY <1>2, <2>1, <2>2
<1>8. ASSUME NEW t \in Tabs, WaitRestart(t) PROVE Told
  <2>1. PICK launched \in Launches : Respawn(t, launched, "restart")
    BY <1>8 DEF WaitRestart
  <2>2. "restart" \in Labels /\ forcedExit' = forcedExit
    BY <1>8 DEF WaitRestart, Reap, Labels
  <2> QED
    BY <1>3, <2>1, <2>2
<1>9. ASSUME NEW t \in Tabs, WaitSignaled(t) \/ WaitClose(t) \/ WaitShow(t)
      PROVE  Told
  <2>1. PICK shown \in BOOLEAN : EndWithBanner(t, shown)
    BY <1>9 DEF WaitSignaled, WaitClose, WaitShow
  <2>2. forcedExit' = forcedExit
    BY <1>9 DEF WaitSignaled, WaitClose, WaitShow, Reap
  <2>3. CASE u = t
    BY <1>1, <2>1, <2>3 DEF EndWithBanner, TypeOK
  <2>4. CASE u # t
    BY <1>1, <1>2, <2>1, <2>2, <2>4 DEF EndWithBanner, TypeOK
  <2> QED
    BY <2>3, <2>4
<1>10. ASSUME NEW t \in Tabs, Exit(t) \/ KillTimer(t) \/ ShowBanner(t) PROVE Told
  <2>1. state' = state /\ label' = label /\ forcedExit' = forcedExit
    BY <1>10 DEF Exit, KillTimer, ShowBanner
  <2>2. bannerVisible'[u] = bannerVisible[u] \/ bannerVisible'[u] = TRUE
    BY <1>1, <1>10 DEF Exit, KillTimer, ShowBanner, TypeOK
  <2> QED
    BY <1>2, <2>1, <2>2
<1>11. ASSUME NEW S \in SUBSET Tabs, ForceQuit(S) PROVE Told
  <2>1. ~forcedExit[u] /\ state' = state /\ label' = label
        /\ bannerVisible' = bannerVisible
    BY <1>11 DEF ForceQuit
  <2> QED
    BY <1>2, <2>1
<1>12. CASE UNCHANGED tabVars
  BY <1>2, <1>12 DEF tabVars
<1> QED
  BY <1>4, <1>5, <1>6, <1>7, <1>8, <1>9, <1>10, <1>11, <1>12
     DEF TabNext, TabStep, WaitDone

(* A tab that ended without being force-quit has a banner that says why,   *)
(* and a failed launch is never left without a visible one.                *)
THEOREM BannerNeverSilent == TabSafety => []BannerTellsTheEnd
  BY InitInvariant, NextInvariant, InitBanner, NextBanner, PTL DEF TabSafety

(* The end of a force-quit tab's process neither restarts the tab nor      *)
(* raises its banner.                                                      *)
THEOREM ForcedNeverRestarts == TabSafety => ForcedStaysDown
<1> DEFINE Down == \A t \in Tabs :
                     forcedExit[t] /\ waitCalls[t] > 0 /\ waitCalls'[t] # waitCalls[t] =>
                        /\ state'[t] \in {"EXITED", "FAILED"}
                        /\ bannerVisible'[t] = bannerVisible[t]
<1>1. IInv /\ [TabNext]_tabVars => [Down]_tabVars
  <2> SUFFICES ASSUME IInv, TabNext, NEW u \in Tabs,
                      forcedExit[u], waitCalls[u] > 0, waitCalls'[u] # waitCalls[u]
               PROVE  /\ state'[u] \in {"EXITED", "FAILED"}
                      /\ bannerVisible'[u] = bannerVisible[u]
    OBVIOUS
  <2>1. TypeOK
    BY DEF IInv
  <2>2. ASSUME NEW t \in Tabs, WaitDone(t)
        PROVE  WaitForced(u)
    <3>1. Reap(t)
      BY <2>2 DEF WaitDone, WaitForced, WaitSignaled, WaitRestart, WaitClose, WaitShow
    <3>2. u = t
      BY <2>1, <3>1 DEF Reap, TypeOK
    <3> QED
      BY <2>2, <3>2 DEF WaitDone, WaitSignaled, WaitRestart, WaitClose, WaitShow
  <2>3. ASSUME NEW t \in Tabs, SpawnDone(t) PROVE FALSE
    BY <2>1, <2>3 DEF IInv, SpawnDone, CallbacksMatchState, TypeOK
  <2>4. WaitForced(u)
    BY <2>2, <2>3 DEF TabNext, TabStep, Map, RespawnAction, SpawnFailed, Exit,
                      KillTimer, ShowBanner, ForceQuit
  <2> QED
    BY <2>1, <2>4 DEF WaitForced, EndState, TypeOK
<1> QED
  BY <1>1, InitInvariant, NextInvariant, PTL DEF TabSafety, ForcedStaysDown

-----------------------------------------------------------------------------
(* The abstract slot *)

slots == [t \in Tabs |-> Slot(t)]

(* The moves ProcessSlot allows a slot to make.                            *)
SlotMoves == { << "idle", "starting" >>, << "starting", "idle" >>,
               << "starting", "live" >>, << "live", "zombie" >>,
               << "zombie", "idle" >>, << "zombie", "starting" >> }

LEMMA InitSlot == TabInit => PS!Init
  BY DEF TabInit, PS!Init, Slot

(* A step that moves one slot as ProcessSlot allows, or none, is one of    *)
(* its steps.                                                              *)
LEMMA SlotStep ==
    ASSUME NEW t \in Tabs,
           \A u \in Tabs \ {t} : Slot(u)' = Slot(u),
           Slot(t)' = Slot(t) \/ << Slot(t), Slot(t)' >> \in SlotMoves
    PROVE  [PS!Next]_slots
<1>1. CASE Slot(t)' = Slot(t)
  BY <1>1 DEF slots
<1>2. CASE << Slot(t), Slot(t)' >> \in SlotMoves
  <2>1. slots' = [slots EXCEPT ![t] = Slot(t)']
    BY DEF slots
  <2>2. slots[t] = Slot(t)
    BY DEF slots
  <2>3. \/ Slot(t) = "idle" /\ Slot(t)' = "starting"
        \/ Slot(t) = "starting" /\ Slot(t)' = "idle"
        \/ Slot(t) = "starting" /\ Slot(t)' = "live"
        \/ Slot(t) = "live" /\ Slot(t)' = "zombie"
        \/ Slot(t) = "zombie" /\ Slot(t)' = "idle"
        \/ Slot(t) = "zombie" /\ Slot(t)' = "starting"
    BY <1>2 DEF SlotMoves
  <2> QED
    BY <2>1, <2>2, <2>3
       DEF slots, PS!Next, PS!Launch, PS!GiveUp, PS!Started, PS!Ended,
           PS!Collect, PS!Restart, PS!Move
<1> QED
  BY <1>1, <1>2

LEMMA NextSlot == IInv /\ [TabNext]_tabVars => [PS!Next]_slots
<1> SUFFICES ASSUME IInv, [TabNext]_tabVars PROVE [PS!Next]_slots
  OBVIOUS
<1>1. TypeOK
  BY DEF IInv
<1>2. ASSUME NEW t \in Tabs, NEW launched \in Launches, NEW said \in Labels,
             Respawn(t, launched, said), child' = child,
             spawnCalls[t] = 0, child[t] = "none"
      PROVE  [PS!Next]_slots
  <2>1. /\ \A u \in Tabs \ {t} : spawnCalls'[u] = spawnCalls[u]
        /\ \/ spawnCalls'[t] = spawnCalls[t] + 1
           \/ spawnCalls'[t] = spawnCalls[t]
    BY <1>1, <1>2, RespawnEffect
  <2> QED
    BY <1>2, <2>1, SlotStep DEF Slot, SlotMoves
<1>3. ASSUME NEW t \in Tabs, Map(t) \/ RespawnAction(t) PROVE [PS!Next]_slots
  <2>1. PICK launched \in Launches : Respawn(t, launched, label[t])
    BY <1>3 DEF Map, RespawnAction
  <2>2. label[t] \in Labels /\ child' = child
    BY <1>1, <1>3 DEF Map, RespawnAction, TypeOK
  <2>3. spawnCalls[t] = 0 /\ child[t] = "none"
    BY <1>3 DEF Map, RespawnAction, IInv, CallbacksMatchState, ProcessMatchesState
  <2> QED
    BY <1>2, <2>1, <2>2, <2>3
<1>4. ASSUME NEW t \in Tabs, SpawnDone(t) PROVE [PS!Next]_slots
  <2>1. spawnCalls[t] = 1
    BY <1>4 DEF SpawnDone, IInv, CallbacksMatchState
  <2>2. /\ spawnCalls' = [spawnCalls EXCEPT ![t] = 0]
        /\ child' = [child EXCEPT ![t] = "alive"]
    BY <1>4, <2>1 DEF SpawnDone
  <2> QED
    BY <1>1, <2>1, <2>2, SlotStep DEF Slot, SlotMoves, TypeOK
<1>5. ASSUME NEW t \in Tabs, SpawnFailed(t) PROVE [PS!Next]_slots
  <2>1. spawnCalls[t] = 1 /\ child[t] = "none"
    BY <1>5 DEF SpawnFailed, IInv, CallbacksMatchState, ProcessMatchesState
  <2>2. spawnCalls' = [spawnCalls EXCEPT ![t] = 0] /\ child' = child
    BY <1>5, <2>1 DEF SpawnFailed
  <2> QED
    BY <1>1, <2>1, <2>2, SlotStep DEF Slot, SlotMoves, TypeOK
<1>6. ASSUME NEW t \in Tabs, Exit(t) PROVE [PS!Next]_slots
  <2>1. spawnCalls[t] = 0 /\ spawnCalls' = spawnCalls
    BY <1>6 DEF Exit, IInv, CallbacksMatchState, ProcessMatchesState
  <2>2. PICK s \in Statuses : child' = [child EXCEPT ![t] = s]
    BY <1>6, TabAssumption DEF Exit, Statuses
  <2>3. child[t] \in {"alive", "doomed"}
    BY <1>6 DEF Exit
  <2> QED
    BY <1>1, <2>1, <2>2, <2>3, SlotStep DEF Slot, SlotMoves, TypeOK, Statuses
<1>7. ASSUME NEW t \in Tabs, WaitDone(t) PROVE [PS!Next]_slots
  <2>1. /\ child[t] \in Statuses
        /\ child' = [child EXCEPT ![t] = "none"]
        /\ \A u \in Tabs \ {t} : spawnCalls'[u] = spawnCalls[u]
        /\ spawnCalls'[t] = 0 \/ spawnCalls'[t] = 1
        /\ state[t] = "RUNNING"
    BY <1>7, WaitEffect
  <2>2. spawnCalls[t] = 0
    BY <2>1 DEF IInv, CallbacksMatchState
  <2> QED
    BY <1>1, <2>1, <2>2, SlotStep DEF Slot, SlotMoves, TypeOK, Statuses
<1>8. ASSUME NEW t \in Tabs, KillTimer(t) PROVE [PS!Next]_slots
  <2>1. spawnCalls' = spawnCalls
    BY <1>8 DEF KillTimer
  <2>2. \/ child' = child
        \/ child[t] = "alive" /\ child' = [child EXCEPT ![t] = "doomed"]
    BY <1>8 DEF KillTimer
  <2> QED
    BY <1>1, <2>1, <2>2, SlotStep DEF Slot, TypeOK
<1>9. ASSUME child' = child, spawnCalls' = spawnCalls PROVE [PS!Next]_slots
  BY <1>9 DEF slots, Slot
<1>10. CASE \E t \in Tabs : ShowBanner(t)
  BY <1>9, <1>10 DEF ShowBanner
<1>11. CASE \E S \in SUBSET Tabs : ForceQuit(S)
  BY <1>9, <1>11 DEF ForceQuit
<1>12. CASE UNCHANGED tabVars
  BY <1>9, <1>12 DEF tabVars
<1> QED
  BY <1>3, <1>4, <1>5, <1>6, <1>7, <1>8, <1>10, <1>11, <1>12
     DEF TabNext, TabStep

(* A tab runs at most one process, and collects each one before the next   *)
(* launch: TabProcess implements the safety of ProcessSlot.                *)
THEOREM SlotRefinement == TabSafety => PS!Safety
<1>1. TabInit => PS!Init
  BY InitSlot
<1>2. IInv /\ [TabNext]_tabVars => [PS!Next]_slots
  BY NextSlot
<1> QED
  BY <1>1, <1>2, InitInvariant, NextInvariant, PTL DEF TabSafety, PS!Safety, slots

(***************************************************************************)
(* The window and its tabs.                                                *)
(***************************************************************************)

-----------------------------------------------------------------------------
(* Sequences *)

(* A tab is at most once in s.                                             *)
Once(s, t) == \A j, k \in DOMAIN s : s[j] = t /\ s[k] = t => j = k

(* The elements of a sequence.                                             *)
LEMMA SeqFacts ==
    ASSUME NEW S, NEW s \in Seq(S)
    PROVE  /\ Len(s) \in Nat /\ DOMAIN s = 1 .. Len(s)
           /\ \A k \in 1 .. Len(s) : s[k] \in S
           /\ \A t : t \in ToSet(s) <=> \E k \in 1 .. Len(s) : s[k] = t
           /\ ToSet(s) \subseteq S
BY LenProperties DEF ToSet

(* A part of a sequence.                                                   *)
LEMMA Part ==
    ASSUME NEW S, NEW s \in Seq(S), NEW m \in 1 .. Len(s) + 1, NEW n \in m - 1 .. Len(s)
    PROVE  /\ SubSeq(s, m, n) \in Seq(S)
           /\ Len(SubSeq(s, m, n)) = n - m + 1
           /\ \A k \in 1 .. n - m + 1 : SubSeq(s, m, n)[k] = s[m + k - 1]
<1>1. Len(s) \in Nat /\ \A k \in 1 .. Len(s) : s[k] \in S
  BY SeqFacts
<1>2. m \in Int /\ n \in Int /\ \A k \in m .. n : s[k] \in S
  BY <1>1
<1>3. /\ SubSeq(s, m, n) \in Seq(S)
      /\ Len(SubSeq(s, m, n)) = IF m <= n THEN n - m + 1 ELSE 0
      /\ \A k \in 1 .. n - m + 1 : SubSeq(s, m, n)[k] = s[m + k - 1]
  BY <1>2, SubSeqProperties
<1> QED
  BY <1>1, <1>2, <1>3

(* InsertAt and RemoveAt, place by place.                                  *)
LEMMA InsertEffect ==
    ASSUME NEW S, NEW s \in Seq(S), NEW p \in 1 .. Len(s) + 1, NEW e \in S
    PROVE  /\ InsertAt(s, p, e) \in Seq(S)
           /\ Len(InsertAt(s, p, e)) = Len(s) + 1
           /\ \A k \in 1 .. Len(s) + 1 :
                 InsertAt(s, p, e)[k] = IF k < p THEN s[k] ELSE IF k = p THEN e ELSE s[k - 1]
<1>1. Len(s) \in Nat
  BY SeqFacts
<1> DEFINE low == SubSeq(s, 1, p - 1)
           high == SubSeq(s, p, Len(s))
           mid == low \o << e >>
<1>2. /\ low \in Seq(S) /\ Len(low) = p - 1
      /\ \A k \in 1 .. p - 1 : low[k] = s[k]
  <2>1. 1 \in 1 .. Len(s) + 1 /\ p - 1 \in 1 - 1 .. Len(s)
    BY <1>1
  <2>2. /\ low \in Seq(S) /\ Len(low) = p - 1 - 1 + 1
        /\ \A k \in 1 .. p - 1 - 1 + 1 : low[k] = s[1 + k - 1]
    BY <2>1, Part
  <2> HIDE DEF low
  <2> QED
    BY <1>1, <2>2
<1>3. /\ high \in Seq(S) /\ Len(high) = Len(s) - p + 1
      /\ \A k \in 1 .. Len(s) - p + 1 : high[k] = s[p + k - 1]
  <2>1. Len(s) \in p - 1 .. Len(s)
    BY <1>1
  <2> QED
    BY <2>1, Part
<1>4. << e >> \in Seq(S) /\ Len(<< e >>) = 1 /\ << e >>[1] = e
  OBVIOUS
<1> HIDE DEF low, high
<1>5. /\ mid \in Seq(S) /\ Len(mid) = p
      /\ \A k \in 1 .. p : mid[k] = IF k < p THEN s[k] ELSE e
  <2>1. /\ low \o << e >> \in Seq(S)
        /\ Len(low \o << e >>) = Len(low) + Len(<< e >>)
        /\ \A i \in 1 .. Len(low) + Len(<< e >>) :
              (low \o << e >>)[i] = IF i <= Len(low) THEN low[i] ELSE << e >>[i - Len(low)]
    BY <1>2, <1>4, ConcatProperties
  <2> QED
    BY <1>1, <1>2, <1>4, <2>1
<1> HIDE DEF mid
<1>6. /\ mid \o high \in Seq(S)
      /\ Len(mid \o high) = Len(mid) + Len(high)
      /\ \A i \in 1 .. Len(mid) + Len(high) :
            (mid \o high)[i] = IF i <= Len(mid) THEN mid[i] ELSE high[i - Len(mid)]
  BY <1>3, <1>5, ConcatProperties
<1>7. InsertAt(s, p, e) = mid \o high
  BY DEF InsertAt, mid, low, high
<1> QED
  BY <1>1, <1>3, <1>5, <1>6, <1>7

LEMMA RemoveEffect ==
    ASSUME NEW S, NEW s \in Seq(S), NEW p \in 1 .. Len(s)
    PROVE  /\ RemoveAt(s, p) \in Seq(S)
           /\ Len(RemoveAt(s, p)) = Len(s) - 1
           /\ \A k \in 1 .. Len(s) - 1 : RemoveAt(s, p)[k] = IF k < p THEN s[k] ELSE s[k + 1]
<1>1. Len(s) \in Nat
  BY SeqFacts
<1> DEFINE low == SubSeq(s, 1, p - 1)
           high == SubSeq(s, p + 1, Len(s))
           both == low \o high
<1>2. /\ low \in Seq(S) /\ Len(low) = p - 1
      /\ \A k \in 1 .. p - 1 : low[k] = s[k]
  <2>1. 1 \in 1 .. Len(s) + 1 /\ p - 1 \in 1 - 1 .. Len(s)
    BY <1>1
  <2>2. /\ low \in Seq(S) /\ Len(low) = p - 1 - 1 + 1
        /\ \A k \in 1 .. p - 1 - 1 + 1 : low[k] = s[1 + k - 1]
    BY <2>1, Part
  <2> HIDE DEF low
  <2> QED
    BY <1>1, <2>2
<1>3. /\ high \in Seq(S) /\ Len(high) = Len(s) - p
      /\ \A k \in 1 .. Len(s) - p : high[k] = s[p + k]
  <2>1. p + 1 \in 1 .. Len(s) + 1 /\ Len(s) \in p + 1 - 1 .. Len(s)
    BY <1>1
  <2>2. /\ high \in Seq(S) /\ Len(high) = Len(s) - (p + 1) + 1
        /\ \A k \in 1 .. Len(s) - (p + 1) + 1 : high[k] = s[p + 1 + k - 1]
    BY <2>1, Part
  <2> HIDE DEF high
  <2> QED
    BY <1>1, <2>2
<1> HIDE DEF low, high
<1>4. /\ low \o high \in Seq(S)
      /\ Len(low \o high) = Len(low) + Len(high)
      /\ \A i \in 1 .. Len(low) + Len(high) :
            (low \o high)[i] = IF i <= Len(low) THEN low[i] ELSE high[i - Len(low)]
  BY <1>2, <1>3, ConcatProperties
<1>5. RemoveAt(s, p) = both
  BY DEF RemoveAt, both, low, high
<1> HIDE DEF both
<1>6. both \in Seq(S) /\ Len(both) = Len(s) - 1
  BY <1>1, <1>2, <1>3, <1>4 DEF both
<1>7. ASSUME NEW k \in 1 .. Len(s) - 1
      PROVE  both[k] = IF k < p THEN s[k] ELSE s[k + 1]
  <2>1. both[k] = IF k <= p - 1 THEN low[k] ELSE high[k - (p - 1)]
    BY <1>1, <1>2, <1>3, <1>4 DEF both
  <2>2. CASE k < p
    BY <1>1, <1>2, <2>1, <2>2
  <2>3. CASE ~(k < p)
    <3>1. k - (p - 1) \in 1 .. Len(s) - p /\ p + (k - (p - 1)) = k + 1
      BY <1>1, <2>3
    <3>2. high[k - (p - 1)] = s[k + 1]
      BY <1>3, <3>1
    <3> QED
      BY <1>1, <2>1, <2>3, <3>2
  <2> QED
    BY <2>2, <2>3
<1> QED
  BY <1>5, <1>6, <1>7

(* Where things are once one was added or taken out.                       *)
LEMMA Inserted ==
    ASSUME NEW S, NEW s \in Seq(S), NEW p \in 1 .. Len(s) + 1, NEW e \in S
    PROVE  /\ InsertAt(s, p, e) \in Seq(S)
           /\ ToSet(InsertAt(s, p, e)) = ToSet(s) \cup {e}
           /\ \A t : Once(s, t) /\ (t = e => t \notin ToSet(s)) => Once(InsertAt(s, p, e), t)
<1> DEFINE a == InsertAt(s, p, e)
<1>1. /\ a \in Seq(S) /\ Len(a) = Len(s) + 1
      /\ \A k \in 1 .. Len(s) + 1 :
            a[k] = IF k < p THEN s[k] ELSE IF k = p THEN e ELSE s[k - 1]
  BY InsertEffect
<1> HIDE DEF a
<1>2. /\ Len(s) \in Nat /\ DOMAIN s = 1 .. Len(s) /\ DOMAIN a = 1 .. Len(s) + 1
      /\ \A t : t \in ToSet(s) <=> \E k \in 1 .. Len(s) : s[k] = t
      /\ \A t : t \in ToSet(a) <=> \E k \in 1 .. Len(s) + 1 : a[k] = t
  BY <1>1, SeqFacts
<1>3. ASSUME NEW t PROVE t \in ToSet(a) <=> t \in ToSet(s) \cup {e}
  <2>1. ASSUME t \in ToSet(a) PROVE t \in ToSet(s) \cup {e}
    <3>1. PICK k \in 1 .. Len(s) + 1 : a[k] = t
      BY <1>2, <2>1
    <3>2. k = p \/ (k \in 1 .. Len(s) /\ k < p) \/ (k - 1 \in 1 .. Len(s) /\ k > p)
      BY <1>2
    <3> QED
      BY <1>1, <1>2, <3>1, <3>2
  <2>2. ASSUME t \in ToSet(s) PROVE t \in ToSet(a)
    <3>1. PICK k \in 1 .. Len(s) : s[k] = t
      BY <1>2, <2>2
    <3>2. CASE k < p
      <4>1. k \in 1 .. Len(s) + 1 /\ a[k] = t
        BY <1>1, <1>2, <3>1, <3>2
      <4> QED
        BY <1>2, <4>1
    <3>3. CASE ~(k < p)
      <4>1. k + 1 \in 1 .. Len(s) + 1 /\ a[k + 1] = s[k + 1 - 1] /\ k + 1 - 1 = k
        BY <1>1, <1>2, <3>3
      <4> QED
        BY <1>2, <3>1, <4>1
    <3> QED
      BY <3>2, <3>3
  <2>3. e \in ToSet(a)
    <3>1. p \in 1 .. Len(s) + 1 /\ a[p] = e
      BY <1>1, <1>2
    <3> QED
      BY <1>2, <3>1
  <2> QED
    BY <2>1, <2>2, <2>3
<1>4. ASSUME NEW t, Once(s, t), t = e => t \notin ToSet(s), NEW j \in 1 .. Len(s) + 1,
             NEW k \in 1 .. Len(s) + 1, a[j] = t, a[k] = t
      PROVE  j = k
  <2> DEFINE Old(i) == IF i < p THEN i ELSE i - 1
  <2>1. \A i \in 1 .. Len(s) + 1 : i # p => Old(i) \in 1 .. Len(s) /\ a[i] = s[Old(i)]
    BY <1>1, <1>2
  <2>2. a[p] = e
    BY <1>1, <1>2
  <2>3. CASE j = p \/ k = p
    <3>1. t \notin ToSet(s)
      BY <1>4, <2>2, <2>3
    <3>2. j = p /\ k = p
      BY <1>2, <1>4, <2>1, <3>1
    <3> QED
      BY <3>2
  <2>4. CASE j # p /\ k # p
    <3>1. Old(j) = Old(k)
      <4> HIDE DEF Old
      <4> QED
        BY <1>2, <1>4, <2>1, <2>4 DEF Once
    <3> QED
      BY <1>2, <2>4, <3>1
  <2> QED
    BY <2>3, <2>4
<1>5. \A t : Once(s, t) /\ (t = e => t \notin ToSet(s)) => Once(a, t)
  BY <1>2, <1>4 DEF Once
<1>6. ToSet(a) = ToSet(s) \cup {e}
  BY <1>3
<1> QED
  BY <1>1, <1>5, <1>6 DEF a

LEMMA Removed ==
    ASSUME NEW S, NEW s \in Seq(S), NEW p \in 1 .. Len(s)
    PROVE  /\ RemoveAt(s, p) \in Seq(S)
           /\ ToSet(RemoveAt(s, p)) \subseteq ToSet(s)
           /\ \A t : t # s[p] => (t \in ToSet(RemoveAt(s, p)) <=> t \in ToSet(s))
           /\ Once(s, s[p]) => s[p] \notin ToSet(RemoveAt(s, p))
           /\ \A t : Once(s, t) => Once(RemoveAt(s, p), t)
<1> DEFINE a == RemoveAt(s, p)
           Old(k) == IF k < p THEN k ELSE k + 1
<1>1. /\ a \in Seq(S) /\ Len(a) = Len(s) - 1
      /\ \A k \in 1 .. Len(s) - 1 : a[k] = IF k < p THEN s[k] ELSE s[k + 1]
  BY RemoveEffect
<1> HIDE DEF a
<1>2. /\ Len(s) \in Nat /\ DOMAIN s = 1 .. Len(s) /\ DOMAIN a = 1 .. Len(s) - 1
      /\ \A t : t \in ToSet(s) <=> \E k \in 1 .. Len(s) : s[k] = t
      /\ \A t : t \in ToSet(a) <=> \E k \in 1 .. Len(s) - 1 : a[k] = t
  BY <1>1, SeqFacts
<1>3. \A k \in 1 .. Len(s) - 1 : Old(k) \in 1 .. Len(s) /\ Old(k) # p /\ a[k] = s[Old(k)]
  BY <1>1, <1>2
<1>4. \A j, k \in 1 .. Len(s) - 1 : Old(j) = Old(k) => j = k
  BY <1>2
<1>5. \A i \in 1 .. Len(s) : i # p => \E k \in 1 .. Len(s) - 1 : Old(k) = i
  <2>1. \A i \in 1 .. Len(s) : i < p => i \in 1 .. Len(s) - 1 /\ Old(i) = i
    BY <1>2
  <2>2. \A i \in 1 .. Len(s) : i > p => i - 1 \in 1 .. Len(s) - 1 /\ Old(i - 1) = i
    BY <1>2
  <2> HIDE DEF Old
  <2> QED
    BY <1>2, <2>1, <2>2
<1> HIDE DEF Old
<1>6. ToSet(a) \subseteq ToSet(s)
  BY <1>2, <1>3
<1>7. ASSUME NEW t, t # s[p], t \in ToSet(s) PROVE t \in ToSet(a)
  BY <1>2, <1>3, <1>5, <1>7
<1>8. ASSUME Once(s, s[p]) PROVE s[p] \notin ToSet(a)
  BY <1>2, <1>3, <1>8 DEF Once
<1>9. ASSUME NEW t, Once(s, t) PROVE Once(a, t)
  BY <1>2, <1>3, <1>4, <1>9 DEF Once
<1> QED
  BY <1>1, <1>6, <1>7, <1>8, <1>9 DEF a

LEMMA Appended ==
    ASSUME NEW S, NEW s \in Seq(S), NEW e \in S
    PROVE  /\ Append(s, e) \in Seq(S)
           /\ ToSet(Append(s, e)) = ToSet(s) \cup {e}
           /\ \A t : Once(s, t) /\ (t = e => t \notin ToSet(s)) => Once(Append(s, e), t)
<1> DEFINE a == Append(s, e)
<1>1. /\ a \in Seq(S) /\ Len(a) = Len(s) + 1
      /\ \A k \in 1 .. Len(s) : a[k] = s[k]
      /\ a[Len(s) + 1] = e
  BY AppendProperties
<1> HIDE DEF a
<1>2. /\ Len(s) \in Nat /\ DOMAIN s = 1 .. Len(s) /\ DOMAIN a = 1 .. Len(s) + 1
      /\ \A t : t \in ToSet(s) <=> \E k \in 1 .. Len(s) : s[k] = t
      /\ \A t : t \in ToSet(a) <=> \E k \in 1 .. Len(s) + 1 : a[k] = t
  BY <1>1, SeqFacts
<1>3. \A k \in 1 .. Len(s) + 1 : k = Len(s) + 1 \/ k \in 1 .. Len(s)
  BY <1>2
<1>4. \A k \in 1 .. Len(s) : k \in 1 .. Len(s) + 1
  BY <1>2
<1>5. Len(s) + 1 \in 1 .. Len(s) + 1
  BY <1>2
<1>6. \A t : t \in ToSet(a) <=> t \in ToSet(s) \cup {e}
  BY <1>1, <1>2, <1>3, <1>4, <1>5
<1>7. ASSUME NEW t, Once(s, t), t = e => t \notin ToSet(s) PROVE Once(a, t)
  BY <1>1, <1>2, <1>3, <1>7 DEF Once
<1> QED
  BY <1>1, <1>6, <1>7 DEF a

LEMMA Popped ==
    ASSUME NEW S, NEW s \in Seq(S), s # << >>
    PROVE  /\ Head(s) \in ToSet(s) /\ Tail(s) \in Seq(S)
           /\ ToSet(Tail(s)) \subseteq ToSet(s)
           /\ \A t : t # Head(s) => (t \in ToSet(Tail(s)) <=> t \in ToSet(s))
           /\ Once(s, Head(s)) => Head(s) \notin ToSet(Tail(s))
           /\ \A t : Once(s, t) => Once(Tail(s), t)
<1> DEFINE a == Tail(s)
<1>1. /\ Len(s) \in Nat \ {0} /\ DOMAIN s = 1 .. Len(s)
      /\ \A t : t \in ToSet(s) <=> \E k \in 1 .. Len(s) : s[k] = t
  BY SeqFacts, EmptySeq
<1>2. /\ Head(s) = s[1] /\ a \in Seq(S) /\ Len(a) = Len(s) - 1
      /\ \A k \in 1 .. Len(s) - 1 : a[k] = s[k + 1]
  BY <1>1, HeadTailProperties
<1> HIDE DEF a
<1>3. /\ DOMAIN a = 1 .. Len(s) - 1
      /\ \A t : t \in ToSet(a) <=> \E k \in 1 .. Len(s) - 1 : a[k] = t
  BY <1>2, SeqFacts
<1>4. /\ \A k \in 1 .. Len(s) - 1 : k + 1 \in 1 .. Len(s) /\ k + 1 # 1
      /\ \A i \in 1 .. Len(s) : i = 1 \/ \E k \in 1 .. Len(s) - 1 : i = k + 1
      /\ \A j, k \in 1 .. Len(s) - 1 : j + 1 = k + 1 => j = k
      /\ 1 \in 1 .. Len(s)
  <2>1. \A i \in 1 .. Len(s) : i = 1 \/ (i - 1 \in 1 .. Len(s) - 1 /\ i = (i - 1) + 1)
    BY <1>1
  <2> QED
    BY <1>1, <2>1
<1>5. Head(s) \in ToSet(s) /\ ToSet(a) \subseteq ToSet(s)
  BY <1>1, <1>2, <1>3, <1>4
<1>6. ASSUME NEW t, t # Head(s), t \in ToSet(s) PROVE t \in ToSet(a)
  <2>1. PICK i \in 1 .. Len(s) : s[i] = t
    BY <1>1, <1>6
  <2>2. PICK k \in 1 .. Len(s) - 1 : i = k + 1
    BY <1>2, <1>4, <1>6, <2>1
  <2> QED
    BY <1>2, <1>3, <2>1, <2>2
<1>7. ASSUME Once(s, Head(s)) PROVE Head(s) \notin ToSet(a)
  BY <1>1, <1>2, <1>3, <1>4, <1>7 DEF Once
<1>8. ASSUME NEW t, Once(s, t) PROVE Once(a, t)
  BY <1>1, <1>2, <1>3, <1>4, <1>8 DEF Once
<1> QED
  BY <1>2, <1>5, <1>6, <1>7, <1>8 DEF a

-----------------------------------------------------------------------------
(* Who finishes a close *)

(* A sequence, of whatever.                                                *)
IsSeq(s) == s \in Seq({ s[k] : k \in DOMAIN s })

(* A close-request loop has the fields of one, within and between rounds.  *)
WellFormed(f) ==
    /\ f.op = "winclose" =>
          f = [op |-> f.op, tab |-> f.tab, busy |-> f.busy, live |-> f.live,
               left |-> f.left, asked |-> f.asked]
    /\ f.op = "look" => f = [op |-> f.op, left |-> f.left, asked |-> f.asked]

FramesOK(s) == IsSeq(s) /\ \A k \in DOMAIN s : WellFormed(s[k])

(* The suspended close_page_cb of t's page in the stack s.                 *)
Closes(s, t) == { k \in DOMAIN s : s[k].op = "close" /\ s[k].tab = t }

(* A closing page has a suspended handler or a dialog, no other page has.  *)
OneParty(t) ==
    IF t \in closing
    THEN \/ t \in pageDialogs /\ Closes(frames, t) = {}
         \/ t \notin pageDialogs /\ \E k : Closes(frames, t) = {k}
    ELSE t \notin pageDialogs /\ Closes(frames, t) = {}

CloseInv == FramesOK(frames) /\ \A t \in Tabs : OneParty(t)

-----------------------------------------------------------------------------
(* The stack of suspended handlers *)

(* Every sequence is one of its own elements.                              *)
LEMMA SeqOfOwn ==
    ASSUME NEW S, NEW s \in Seq(S)
    PROVE  IsSeq(s)
<1>1. Len(s) \in Nat /\ DOMAIN s = 1 .. Len(s) /\ s \in [1 .. Len(s) -> S]
  BY LenProperties
<1>2. s \in [1 .. Len(s) -> { s[k] : k \in DOMAIN s }]
  BY <1>1
<1> QED
  BY <1>1, <1>2 DEF IsSeq

(* The indices of a sequence, of whatever.                                 *)
LEMMA IsSeqFacts ==
    ASSUME NEW s, IsSeq(s)
    PROVE  Len(s) \in Nat /\ DOMAIN s = 1 .. Len(s)
BY LenProperties DEF IsSeq

(* A handler is suspended.                                                 *)
LEMMA PushEffect ==
    ASSUME NEW s, FramesOK(s), NEW f, WellFormed(f)
    PROVE  /\ FramesOK(Append(s, f))
           /\ Len(s) + 1 \notin DOMAIN s
           /\ \A t : IF f.op = "close" /\ f.tab = t
                   THEN Closes(Append(s, f), t) = Closes(s, t) \cup {Len(s) + 1}
                   ELSE Closes(Append(s, f), t) = Closes(s, t)
<1> DEFINE S == { s[k] : k \in DOMAIN s } \cup {f}
           a == Append(s, f)
<1>1. s \in Seq(S) /\ f \in S
  BY SeqMonotonic DEF FramesOK, IsSeq
<1>2. Len(s) \in Nat /\ DOMAIN s = 1 .. Len(s)
  BY IsSeqFacts DEF FramesOK
<1>3. /\ a \in Seq(S)
      /\ Len(a) = Len(s) + 1
      /\ \A i \in 1 .. Len(s) : a[i] = s[i]
      /\ a[Len(s) + 1] = f
  BY <1>1, AppendProperties
<1>4. DOMAIN a = 1 .. Len(s) + 1
  BY <1>3, LenProperties
<1>5. IsSeq(a)
  BY <1>3, SeqOfOwn
<1>6. ASSUME NEW t
      PROVE  IF f.op = "close" /\ f.tab = t
             THEN Closes(a, t) = Closes(s, t) \cup {Len(s) + 1}
             ELSE Closes(a, t) = Closes(s, t)
  BY <1>2, <1>3, <1>4 DEF Closes
<1> HIDE DEF a
<1>7. FramesOK(a)
  BY <1>2, <1>3, <1>4, <1>5 DEF FramesOK
<1> QED
  BY <1>2, <1>6, <1>7 DEF a

(* The innermost handler is over.                                          *)
LEMMA PopEffect ==
    ASSUME NEW s, FramesOK(s), s # << >>
    PROVE  /\ FramesOK(Front(s))
           /\ Len(s) \in DOMAIN s /\ s[Len(s)] = Last(s)
           /\ \A t : Closes(Front(s), t) = Closes(s, t) \ {Len(s)}
<1> DEFINE S == { s[k] : k \in DOMAIN s }
           a == Front(s)
<1>1. s \in Seq(S) /\ IsSeq(s)
  BY DEF FramesOK, IsSeq
<1>2. Len(s) \in Nat \ {0} /\ DOMAIN s = 1 .. Len(s)
  BY <1>1, EmptySeq, IsSeqFacts
<1>3. \A i \in 1 .. Len(s) - 1 : s[i] \in S
  BY <1>2
<1>4. a = SubSeq(s, 1, Len(s) - 1)
  BY DEF Front
<1>5. /\ a \in Seq(S)
      /\ Len(a) = Len(s) - 1
      /\ \A i \in 1 .. Len(s) - 1 : a[i] = s[i]
  <2>1. /\ SubSeq(s, 1, Len(s) - 1) \in Seq(S)
        /\ Len(SubSeq(s, 1, Len(s) - 1)) = IF 1 <= Len(s) - 1 THEN (Len(s) - 1) - 1 + 1 ELSE 0
        /\ \A i \in 1 .. (Len(s) - 1) - 1 + 1 : SubSeq(s, 1, Len(s) - 1)[i] = s[1 + i - 1]
    <3> HIDE DEF S
    <3> QED
      BY <1>2, <1>3, SubSeqProperties
  <2> QED
    BY <1>2, <1>4, <2>1
<1>6. DOMAIN a = 1 .. Len(s) - 1
  BY <1>5, LenProperties
<1>7. IsSeq(a)
  BY <1>5, SeqOfOwn
<1> HIDE DEF a
<1>8. FramesOK(a)
  BY <1>2, <1>5, <1>6, <1>7 DEF FramesOK
<1>9. ASSUME NEW t PROVE Closes(a, t) = Closes(s, t) \ {Len(s)}
  BY <1>2, <1>5, <1>6 DEF Closes
<1> QED
  BY <1>2, <1>8, <1>9 DEF a, Last

(* Marking a dead page concerns no close.                                  *)
LEMMA ForgetEffect ==
    ASSUME NEW s, FramesOK(s), NEW u
    PROVE  /\ FramesOK(ForgetPage(s, u))
           /\ \A t : Closes(ForgetPage(s, u), t) = Closes(s, t)
<1> DEFINE a == ForgetPage(s, u)
<1>1. IsSeq(s) /\ Len(s) \in Nat /\ DOMAIN s = 1 .. Len(s)
  BY IsSeqFacts DEF FramesOK
<1>2. DOMAIN a = 1 .. Len(s)
  BY <1>1 DEF ForgetPage
<1>3. a = [k \in 1 .. Len(s) |-> a[k]]
  BY <1>1 DEF ForgetPage
<1>4. IsSeq(a)
  <2> HIDE DEF a
  <2> DEFINE R == { a[k] : k \in DOMAIN a }
  <2>1. \A k \in 1 .. Len(s) : a[k] \in R
    BY <1>2
  <2>2. a \in Seq(R)
    <3> HIDE DEF R
    <3>1. a \in [1 .. Len(s) -> R]
      BY <1>3, <2>1
    <3> QED
      BY <1>1, <3>1
  <2> QED
    BY <2>2 DEF IsSeq
<1>5. ASSUME NEW k \in DOMAIN s
      PROVE  /\ a[k].op = s[k].op
             /\ WellFormed(a[k])
             /\ a[k].op = "close" => a[k] = s[k]
  <2>1. CASE s[k].op = "winclose" /\ s[k].tab = u
    <3>1. a[k] = [s[k] EXCEPT !.live = FALSE]
      BY <2>1, <1>5 DEF ForgetPage
    <3>2. s[k] = [op |-> s[k].op, tab |-> s[k].tab, busy |-> s[k].busy, live |-> s[k].live,
                  left |-> s[k].left, asked |-> s[k].asked]
      BY <2>1 DEF FramesOK, WellFormed
    <3>3. a[k] = [op |-> s[k].op, tab |-> s[k].tab, busy |-> s[k].busy, live |-> FALSE,
                  left |-> s[k].left, asked |-> s[k].asked]
      BY <3>1, <3>2
    <3> QED
      BY <2>1, <3>3 DEF WellFormed
  <2>2. CASE ~(s[k].op = "winclose" /\ s[k].tab = u)
    <3>1. a[k] = s[k]
      BY <2>2, <1>5 DEF ForgetPage
    <3> QED
      BY <3>1 DEF FramesOK
  <2> QED
    BY <2>1, <2>2
<1> HIDE DEF a
<1>6. FramesOK(a)
  BY <1>1, <1>2, <1>4, <1>5 DEF FramesOK
<1>7. ASSUME NEW t PROVE Closes(a, t) = Closes(s, t)
  BY <1>1, <1>2, <1>5 DEF Closes
<1> QED
  BY <1>6, <1>7 DEF a

(* The innermost handler goes on, and leaves the stack.                    *)
LEMMA ResumeEffect ==
    ASSUME CloseInv, frames # << >>
    PROVE  /\ FramesOK(Front(frames))
           /\ Last(frames).op = "close" =>
                 \A t \in Tabs :
                    IF t = Last(frames).tab
                    THEN /\ t \in closing /\ t \notin pageDialogs
                         /\ Closes(Front(frames), t) = {}
                    ELSE Closes(Front(frames), t) = Closes(frames, t)
           /\ Last(frames).op # "close" =>
                 \A t \in Tabs : Closes(Front(frames), t) = Closes(frames, t)
<1>1. /\ FramesOK(Front(frames))
      /\ Len(frames) \in DOMAIN frames /\ frames[Len(frames)] = Last(frames)
      /\ \A t : Closes(Front(frames), t) = Closes(frames, t) \ {Len(frames)}
  BY PopEffect DEF CloseInv
<1>2. \A t : Len(frames) \in Closes(frames, t) <=> Last(frames).op = "close" /\ Last(frames).tab = t
  BY <1>1 DEF Closes
<1>3. ASSUME NEW t \in Tabs, Last(frames).op = "close", t = Last(frames).tab
      PROVE  t \in closing /\ t \notin pageDialogs /\ Closes(Front(frames), t) = {}
  <2>1. Len(frames) \in Closes(frames, t)
    BY <1>2, <1>3
  <2> QED
    BY <1>1, <2>1 DEF CloseInv, OneParty
<1>4. ASSUME NEW t \in Tabs, ~(Last(frames).op = "close" /\ t = Last(frames).tab)
      PROVE  Closes(Front(frames), t) = Closes(frames, t)
  <2>1. Len(frames) \notin Closes(frames, t)
    BY <1>2, <1>4
  <2> QED
    BY <1>1, <2>1
<1> QED
  BY <1>1, <1>3, <1>4

(* Nobody's close begins or ends.                                          *)
LEMMA CloseKept ==
    ASSUME CloseInv, FramesOK(frames'), closing' = closing, pageDialogs' = pageDialogs,
           \A t \in Tabs : Closes(frames', t) = Closes(frames, t)
    PROVE  CloseInv'
BY DEF CloseInv, OneParty

(* Without suspended handlers no close is under way.                       *)
LEMMA NoFrames == FramesOK(<< >>) /\ \A t : Closes(<< >>, t) = {}
<1>1. << >> \in Seq({}) /\ Len(<< >>) = 0
  BY EmptySeq
<1>2. IsSeq(<< >>)
  BY <1>1, SeqOfOwn
<1>3. DOMAIN << >> = {}
  BY <1>1, LenProperties
<1> QED
  BY <1>2, <1>3 DEF FramesOK, Closes

(* With the window all its closes are over.                                *)
LEMMA DestroyedEffect ==
    ASSUME Destroyed
    PROVE  CloseInv'
BY NoFrames DEF Destroyed, CloseInv, OneParty

(* The page of u leaves the view, and with it the one party to its close.  *)
LEMMA DetachEffect ==
    ASSUME CloseInv, NEW u, NEW quit, NEW stack, DetachParked(u, stack, quit), FramesOK(stack),
           \A t \in Tabs : Closes(stack, t) = IF t = u THEN {} ELSE Closes(frames, t)
    PROVE  CloseInv'
<1>1. CASE Shown = {u}
  BY <1>1, DestroyedEffect DEF DetachParked
<1>2. CASE Shown # {u}
  <2>1. /\ closing' = closing \ {u} /\ pageDialogs' = pageDialogs \ {u}
        /\ frames' = ForgetPage(stack, u)
    BY <1>2 DEF DetachParked
  <2>2. FramesOK(frames') /\ \A t : Closes(frames', t) = Closes(stack, t)
    BY <2>1, ForgetEffect
  <2> QED
    BY <2>1, <2>2 DEF CloseInv, OneParty
<1> QED
  BY <1>1, <1>2

(* A close of u's page begins, with a handler that is suspended.           *)
LEMMA BeginEffect ==
    ASSUME CloseInv, NEW u \in Tabs, u \notin closing, NEW f, f.op = "close", f.tab = u, WellFormed(f),
           NEW stack, FramesOK(stack), \A t \in Tabs : Closes(stack, t) = Closes(frames, t),
           frames' = Append(stack, f), closing' = closing \cup {u}, pageDialogs' = pageDialogs
    PROVE  CloseInv'
<1>1. /\ FramesOK(frames')
      /\ \A t \in Tabs : IF t = u THEN Closes(frames', t) = Closes(frames, t) \cup {Len(stack) + 1}
                                 ELSE Closes(frames', t) = Closes(frames, t)
  BY PushEffect
<1>2. Closes(frames', u) = {Len(stack) + 1} /\ u \notin pageDialogs
  BY <1>1 DEF CloseInv, OneParty
<1> QED
  BY <1>1, <1>2 DEF CloseInv, OneParty

(* The end of a process closes the page of its tab, unless that is being   *)
(* done already.                                                           *)
LEMMA WaitClosesEffect ==
    ASSUME CloseInv, NEW t \in Tabs, WaitClosesPage(t)
    PROVE  CloseInv'
<1>1. pageDialogs' = pageDialogs /\ closing' = closing \cup {t}
  BY DEF WaitClosesPage
<1>2. CASE t \in closing
  BY <1>1, <1>2, CloseKept DEF WaitClosesPage, CloseInv
<1>3. CASE t \notin closing
  <2> DEFINE f == [op |-> "close", tab |-> t, busy |-> FALSE]
  <2>1. frames' = Append(frames, f) /\ f.op = "close" /\ f.tab = t /\ WellFormed(f)
    BY <1>3 DEF WaitClosesPage, WellFormed
  <2> HIDE DEF f
  <2>2. FramesOK(frames)
    BY DEF CloseInv
  <2> QED
    BY <1>1, <1>3, <2>1, <2>2, BeginEffect
<1> QED
  BY <1>2, <1>3

-----------------------------------------------------------------------------
(* The steps *)

(* A new window has nothing to finish.                                     *)
LEMMA CloseInit == Init => CloseInv
BY NoFrames DEF Init, CloseInv, OneParty

(* What the user does.                                                     *)
LEMMA UserKeepsClose == CloseInv /\ UserStep => CloseInv'
<1> SUFFICES ASSUME CloseInv, UserStep PROVE CloseInv'
  OBVIOUS
<1>0. FramesOK(frames)
  BY DEF CloseInv
<1>1. ASSUME frames' = frames, closing' = closing, pageDialogs' = pageDialogs PROVE CloseInv'
  BY <1>0, <1>1, CloseKept
<1>2. ASSUME NEW t \in Tabs, NewTab(t) \/ MapTab(t) \/ Pin(t) \/ Unpin(t) \/ RestartTab(t)
      PROVE  CloseInv'
  BY <1>1, <1>2 DEF NewTab, MapTab, Pin, Unpin, RestartTab, windowVars
<1>3. ASSUME NEW t \in Tabs, CloseTab(t) PROVE CloseInv'
  <2> DEFINE f == Poll("close", t)
  <2>1. /\ frames' = Append(frames, f) /\ f.op = "close" /\ f.tab = t /\ WellFormed(f)
        /\ t \notin closing /\ closing' = closing \cup {t} /\ pageDialogs' = pageDialogs
    BY <1>3 DEF CloseTab, Poll, WellFormed
  <2> HIDE DEF f
  <2> QED
    BY <1>0, <2>1, BeginEffect
<1>4. ASSUME NEW t \in Tabs, DialogDiscard(t) PROVE CloseInv'
  <2>1. t \in pageDialogs /\ DetachParked(t, frames, {t})
    BY <1>4 DEF DialogDiscard
  <2>2. Closes(frames, t) = {}
    BY <2>1 DEF CloseInv, OneParty
  <2> QED
    BY <1>0, <2>1, <2>2, DetachEffect
<1>5. ASSUME NEW t \in Tabs, DialogCancel(t) PROVE CloseInv'
  <2>1. /\ t \in pageDialogs /\ frames' = frames
        /\ pageDialogs' = pageDialogs \ {t} /\ closing' = closing \ {t}
    BY <1>5 DEF DialogCancel
  <2> QED
    BY <2>1 DEF CloseInv, OneParty
<1>6. ASSUME NEW f, f.op # "close", WellFormed(f), frames' = Append(frames, f),
             closing' = closing, pageDialogs' = pageDialogs
      PROVE  CloseInv'
  <2>1. FramesOK(frames') /\ \A t : Closes(frames', t) = Closes(frames, t)
    BY <1>0, <1>6, PushEffect
  <2> QED
    BY <1>6, <2>1, CloseKept
<1>7. ASSUME UndoClose PROVE CloseInv'
  <2> DEFINE f == Poll("undo", Head(lot))
  <2>1. /\ frames' = Append(frames, f) /\ f.op = "undo" /\ WellFormed(f)
        /\ closing' = closing /\ pageDialogs' = pageDialogs
    BY <1>7 DEF UndoClose, Poll, WellFormed
  <2> HIDE DEF f
  <2> QED
    BY <1>6, <2>1
<1>8. ASSUME WinClose PROVE CloseInv'
  <2>1. CASE Destroyed
    BY <2>1, DestroyedEffect
  <2>2. CASE ~Destroyed
    <3> DEFINE f == [op |-> "look", left |-> Len(pages), asked |-> {}]
    <3>1. /\ frames' = Append(frames, f) /\ f.op = "look" /\ WellFormed(f)
          /\ closing' = closing /\ pageDialogs' = pageDialogs
      BY <1>8, <2>2 DEF WinClose, WellFormed
    <3> HIDE DEF f
    <3> QED
      BY <1>6, <3>1
  <2> QED
    BY <2>1, <2>2
<1>9. ASSUME WinDialogDiscard PROVE CloseInv'
  BY <1>9, DestroyedEffect DEF WinDialogDiscard
<1>10. ASSUME WinDialogCancel PROVE CloseInv'
  BY <1>1, <1>10 DEF WinDialogCancel
<1> QED
  BY <1>2, <1>3, <1>4, <1>5, <1>7, <1>8, <1>9, <1>10 DEF UserStep

(* What the main loop does.                                                *)
LEMMA LoopKeepsClose == CloseInv /\ LoopStep => CloseInv'
<1> SUFFICES ASSUME CloseInv, LoopStep PROVE CloseInv'
  OBVIOUS
<1>0. FramesOK(frames)
  BY DEF CloseInv
<1>1. ASSUME On("close")
      PROVE  /\ FramesOK(Front(frames))
             /\ \A t \in Tabs :
                   IF t = Last(frames).tab
                   THEN t \in closing /\ t \notin pageDialogs /\ Closes(Front(frames), t) = {}
                   ELSE Closes(Front(frames), t) = Closes(frames, t)
  BY <1>1, ResumeEffect DEF On
<1>2. ASSUME frames # << >>, Last(frames).op # "close"
      PROVE  /\ FramesOK(Front(frames))
             /\ \A t \in Tabs : Closes(Front(frames), t) = Closes(frames, t)
  BY <1>2, ResumeEffect
<1>3. CASE CloseAsks
  <2>1. /\ pageDialogs' = pageDialogs \cup {Last(frames).tab}
        /\ frames' = Front(frames) /\ closing' = closing
    BY <1>3 DEF CloseAsks
  <2> QED
    BY <1>1, <1>3, <2>1 DEF CloseAsks, CloseInv, OneParty
<1>4. CASE CloseParks
  <2> DEFINE t == Last(frames).tab
  <2>1. On("close")
    BY <1>4 DEF CloseParks
  <2>2. CASE DetachParked(t, Front(frames), {})
    <3> HIDE DEF t
    <3>1. \A u \in Tabs : Closes(Front(frames), u) = IF u = t THEN {} ELSE Closes(frames, u)
      BY <1>1, <2>1 DEF t
    <3> QED
      BY <1>1, <2>1, <2>2, <3>1, DetachEffect
  <2>3. CASE ~DetachParked(t, Front(frames), {})
    <3>1. closing' = closing \ {t} /\ frames' = Front(frames) /\ pageDialogs' = pageDialogs
      BY <1>4, <2>3 DEF CloseParks
    <3> QED
      BY <1>1, <2>1, <3>1 DEF CloseInv, OneParty
  <2> QED
    BY <2>2, <2>3
<1>5. CASE UndoShows
  <2>1. /\ frames # << >> /\ Last(frames).op = "undo" /\ frames' = Front(frames)
        /\ closing' = closing /\ pageDialogs' = pageDialogs
    BY <1>5 DEF UndoShows, On
  <2> QED
    BY <1>2, <2>1, CloseKept
(* The close-request loop: one handler makes room for another.             *)
<1>6. ASSUME NEW f, f.op # "close", WellFormed(f),
             frames # << >>, Last(frames).op # "close"
      PROVE  /\ FramesOK(Append(Front(frames), f))
             /\ \A t \in Tabs : Closes(Append(Front(frames), f), t) = Closes(frames, t)
  BY <1>2, <1>6, PushEffect
<1>7. CASE WinCloseKeeps
  <2> DEFINE f == Looked(Last(frames), {Last(frames).tab})
  <2>1. /\ frames # << >> /\ Last(frames).op = "winclose" /\ f.op = "look" /\ WellFormed(f)
        /\ frames' = Append(Front(frames), f) /\ closing' = closing /\ pageDialogs' = pageDialogs
    BY <1>7 DEF WinCloseKeeps, On, Looked, WellFormed
  <2> HIDE DEF f
  <2> QED
    BY <1>6, <2>1, CloseKept
<1>8. CASE WinCloseCloses
  <2> DEFINE f     == Looked(Last(frames), {})
             u     == Last(frames).tab
             emits == Last(frames).live /\ u \notin closing
             stack == Append(Front(frames), f)
             g     == Poll("close", u)
  <2>1. /\ frames # << >> /\ Last(frames).op = "winclose" /\ f.op = "look" /\ WellFormed(f)
        /\ closing' = (IF emits THEN closing \cup {u} ELSE closing)
        /\ frames' = stack \o (IF emits THEN << g >> ELSE << >>)
        /\ pageDialogs' = pageDialogs
    BY <1>8 DEF WinCloseCloses, On, Looked, WellFormed
  <2>2. g.op = "close" /\ g.tab = u /\ WellFormed(g)
    BY DEF Poll, WellFormed
  <2> HIDE DEF f, g
  <2>3. FramesOK(stack) /\ \A t \in Tabs : Closes(stack, t) = Closes(frames, t)
    BY <1>6, <2>1
  <2> HIDE DEF stack
  <2>4. CASE ~emits
    <3>1. frames' = stack
      BY <2>1, <2>3, <2>4, ConcatEmptySeq DEF FramesOK, IsSeq
    <3> QED
      BY <2>1, <2>3, <2>4, <3>1, CloseKept
  <2>5. CASE emits
    <3> DEFINE S == { stack[k] : k \in DOMAIN stack } \cup {g}
    <3>1. stack \in Seq(S) /\ g \in S
      BY <2>3, SeqMonotonic DEF FramesOK, IsSeq
    <3>2. frames' = Append(stack, g)
      BY <2>1, <2>5, <3>1, AppendIsConcat
    <3>3. CASE u \in Tabs
      BY <2>1, <2>2, <2>3, <2>5, <3>2, <3>3, BeginEffect
    <3>4. CASE u \notin Tabs
      <4>1. FramesOK(frames') /\ \A t \in Tabs : Closes(frames', t) = Closes(frames, t)
        BY <2>2, <2>3, <3>2, <3>4, PushEffect
      <4> QED
        BY <2>1, <2>5, <3>4, <4>1 DEF CloseInv, OneParty
    <3> QED
      BY <3>3, <3>4
  <2> QED
    BY <2>4, <2>5
<1>9. CASE LookAtPage
  <2> DEFINE l == Last(frames)
             f == IF l.left <= Len(pages)
                  THEN [op |-> "winclose", tab |-> pages[l.left], busy |-> process[pages[l.left]],
                        live |-> TRUE, left |-> l.left - 1, asked |-> l.asked]
                  ELSE [l EXCEPT !.left = @ - 1]
  <2>1. /\ frames # << >> /\ l.op = "look"
        /\ frames' = Append(Front(frames), f) /\ closing' = closing /\ pageDialogs' = pageDialogs
    BY <1>9 DEF LookAtPage, Looking, On
  <2>2. l = [op |-> "look", left |-> l.left, asked |-> l.asked]
    <3>1. WellFormed(frames[Len(frames)]) /\ frames[Len(frames)] = l
      BY <1>0, <2>1, PopEffect DEF FramesOK
    <3> QED
      BY <2>1, <3>1 DEF WellFormed
  <2>3. f.op # "close" /\ WellFormed(f)
    <3>1. CASE l.left <= Len(pages)
      BY <3>1 DEF WellFormed
    <3>2. CASE ~(l.left <= Len(pages))
      <4>1. f = [op |-> "look", left |-> l.left - 1, asked |-> l.asked]
        BY <2>2, <3>2
      <4> QED
        BY <4>1 DEF WellFormed
    <3> QED
      BY <3>1, <3>2
  <2> HIDE DEF f
  <2> QED
    BY <1>6, <2>1, <2>3, CloseKept
<1>10. CASE LookIsOver
  <2>1. CASE Destroyed
    BY <2>1, DestroyedEffect
  <2>2. CASE ~Destroyed
    <3>1. /\ frames # << >> /\ Last(frames).op = "look" /\ frames' = Front(frames)
          /\ closing' = closing /\ pageDialogs' = pageDialogs
      BY <1>10, <2>2 DEF LookIsOver, Looking, On
    <3> QED
      BY <1>2, <3>1, CloseKept
  <2> QED
    BY <2>1, <2>2
<1>11. CASE ParkTimeout
  <2>1. frames' = frames /\ closing' = closing /\ pageDialogs' = pageDialogs
    BY <1>11 DEF ParkTimeout
  <2> QED
    BY <1>0, <2>1, CloseKept
<1> QED
  BY <1>3, <1>4, <1>5, <1>7, <1>8, <1>9, <1>10, <1>11 DEF LoopStep, Resume

(* What the tabs' own callbacks do.                                        *)
LEMMA ProcessKeepsClose == CloseInv /\ ProcessStep => CloseInv'
<1> SUFFICES ASSUME CloseInv, NEW t \in Tabs,
                    TabSpawned(t) \/ TabExits(t) \/ TabWaited(t) \/ TabKillTimer(t)
             PROVE  CloseInv'
  BY DEF ProcessStep
<1>1. CASE WaitClosesPage(t)
  BY <1>1, WaitClosesEffect
<1>2. CASE ~WaitClosesPage(t)
  <2>1. UNCHANGED windowVars
    BY <1>2 DEF TabSpawned, TabExits, TabWaited, TabKillTimer
  <2> QED
    BY <2>1, CloseKept DEF windowVars, CloseInv
<1> QED
  BY <1>1, <1>2

(* One party each, in numbers.                                             *)
LEMMA PartiesCounted == CloseInv => ClosesAccountedFor
<1> SUFFICES ASSUME CloseInv, NEW t \in Tabs
             PROVE  Cardinality(Awaiting("close", t)) + (IF t \in pageDialogs THEN 1 ELSE 0)
                       = IF t \in closing THEN 1 ELSE 0
  BY DEF ClosesAccountedFor
<1>1. Awaiting("close", t) = Closes(frames, t)
  BY DEF Awaiting, Closes
<1>2. CASE Closes(frames, t) = {}
  <2>1. Cardinality(Awaiting("close", t)) = 0
    BY <1>1, <1>2, FS_EmptySet
  <2> QED
    BY <1>2, <2>1 DEF CloseInv, OneParty
<1>3. CASE Closes(frames, t) # {}
  <2>1. PICK k : Closes(frames, t) = {k}
    BY <1>3 DEF CloseInv, OneParty
  <2>2. Cardinality(Awaiting("close", t)) = 1
    BY <1>1, <2>1, FS_Singleton
  <2> QED
    BY <1>3, <2>2 DEF CloseInv, OneParty
<1> QED
  BY <1>2, <1>3

-----------------------------------------------------------------------------
(* Where the tabs are *)

(* An undo of t's close is suspended in the stack s.                       *)
Undoes(s, t) == { k \in DOMAIN s : s[k].op = "undo" /\ s[k].tab = t }

(* The pages in the view that the close-request loops of s will close.     *)
Faces(s) == { s[k].tab : k \in { i \in DOMAIN s : s[i].op = "winclose" /\ s[i].live } }

(* A close-request loop leaves room for the close_page_cb it calls.        *)
StackOK(s) ==
    /\ s \in Seq(Frames) /\ Len(s) <= MaxFrames
    /\ \A k \in DOMAIN s : s[k].op \in {"winclose", "look"} => k < MaxFrames

ViewOK ==
    /\ open \in BOOLEAN
    /\ pages \in Seq(Tabs) /\ \A t \in Tabs : Once(pages, t)
    /\ lot \in Seq(Tabs)
    /\ pinned \subseteq Shown \cap Pinnable /\ closing \subseteq Shown
    /\ pageDialogs \subseteq Tabs /\ winDialog \subseteq Tabs
    /\ Faces(frames) \subseteq Shown

(* At most one entry of one of the three places.                           *)
Apart(t) ==
    /\ Once(lot, t)
    /\ \A j, k \in Undoes(frames, t) : j = k
    /\ t \in Shown => t \notin Parked /\ Undoes(frames, t) = {}
    /\ t \in Parked => Undoes(frames, t) = {}

Live(t)   == state[t] \in {"SPAWNING", "RUNNING"} /\ ~forcedExit[t]
Placed(t) == t \in Shown \cup Parked \/ Undoes(frames, t) # {}
OnePin    == \A s, t \in Pinnable : s = t

Whereabouts ==
    /\ ViewOK /\ StackOK(frames)
    /\ \A t \in Tabs \ Pinnable : Apart(t)
    /\ OnePin /\ open => \A t \in Tabs : Live(t) => Placed(t)

(* A process is only launched for a tab in the view.                       *)
Quiet == \A t \in Tabs : Live(t)' => Live(t) \/ (t \in Shown /\ pages' = pages)

(* A handler is suspended: what it may undo or close.                      *)
LEMMA StackPush ==
    ASSUME NEW s, StackOK(s), NEW f \in Frames, Len(s) + 1 <= MaxFrames,
           f.op \in {"winclose", "look"} => Len(s) + 1 < MaxFrames
    PROVE  /\ StackOK(Append(s, f)) /\ Len(Append(s, f)) = Len(s) + 1
           /\ \A t : Undoes(Append(s, f), t) =
                        IF f.op = "undo" /\ f.tab = t THEN Undoes(s, t) \cup {Len(s) + 1}
                                                      ELSE Undoes(s, t)
           /\ Faces(Append(s, f)) \subseteq
                 Faces(s) \cup { t \in {f.tab} : f.op = "winclose" /\ f.live }
<1> DEFINE a == Append(s, f)
<1>1. s \in Seq(Frames) /\ Len(s) \in Nat /\ DOMAIN s = 1 .. Len(s)
  BY SeqFacts DEF StackOK
<1>2. /\ a \in Seq(Frames) /\ Len(a) = Len(s) + 1
      /\ \A k \in 1 .. Len(s) : a[k] = s[k]
      /\ a[Len(s) + 1] = f
  BY <1>1, AppendProperties
<1> HIDE DEF a
<1>3. DOMAIN a = 1 .. Len(s) + 1
  BY <1>2, SeqFacts
<1>4. StackOK(a)
  BY <1>1, <1>2, <1>3 DEF StackOK
<1>5. ASSUME NEW t
      PROVE  Undoes(a, t) = IF f.op = "undo" /\ f.tab = t THEN Undoes(s, t) \cup {Len(s) + 1}
                                                          ELSE Undoes(s, t)
  BY <1>1, <1>2, <1>3 DEF Undoes
<1>6. Faces(a) \subseteq Faces(s) \cup { t \in {f.tab} : f.op = "winclose" /\ f.live }
  BY <1>1, <1>2, <1>3 DEF Faces
<1> QED
  BY <1>2, <1>4, <1>5, <1>6 DEF a

(* The innermost handler is over.                                          *)
LEMMA StackPop ==
    ASSUME NEW s, StackOK(s), s # << >>
    PROVE  /\ StackOK(Front(s)) /\ Len(Front(s)) = Len(s) - 1
           /\ Len(s) \in DOMAIN s /\ s[Len(s)] = Last(s) /\ Last(s) \in Frames
           /\ Last(s).op \in {"winclose", "look"} => Len(s) < MaxFrames
           /\ \A t : Undoes(Front(s), t) = Undoes(s, t) \ {Len(s)}
           /\ Faces(Front(s)) \subseteq Faces(s)
           /\ Last(s).op = "winclose" /\ Last(s).live => Last(s).tab \in Faces(s)
<1> DEFINE a == Front(s)
<1>1. s \in Seq(Frames) /\ Len(s) \in Nat \ {0} /\ DOMAIN s = 1 .. Len(s)
  BY SeqFacts, EmptySeq DEF StackOK
<1>2. /\ a \in Seq(Frames) /\ Len(a) = Len(s) - 1
      /\ \A k \in 1 .. Len(s) - 1 : a[k] = s[k]
  <2>1. 1 \in 1 .. Len(s) + 1 /\ Len(s) - 1 \in 1 - 1 .. Len(s)
    BY <1>1
  <2>2. /\ a \in Seq(Frames) /\ Len(a) = Len(s) - 1 - 1 + 1
        /\ \A k \in 1 .. Len(s) - 1 - 1 + 1 : a[k] = s[1 + k - 1]
    BY <1>1, <2>1, Part DEF Front
  <2> HIDE DEF a
  <2> QED
    BY <1>1, <2>2
<1> HIDE DEF a
<1>3. DOMAIN a = 1 .. Len(s) - 1
  BY <1>2, SeqFacts
<1>4. StackOK(a)
  BY <1>1, <1>2, <1>3, WindowAssumption DEF StackOK
<1>5. ASSUME NEW t PROVE Undoes(a, t) = Undoes(s, t) \ {Len(s)}
  BY <1>1, <1>2, <1>3 DEF Undoes
<1>6. Len(s) \in DOMAIN s /\ s[Len(s)] = Last(s) /\ Last(s) \in Frames
  BY <1>1, SeqFacts DEF Last
<1>7. Last(s).op \in {"winclose", "look"} => Len(s) < MaxFrames
  BY <1>6 DEF StackOK
<1>8. Faces(a) \subseteq Faces(s)
  BY <1>1, <1>2, <1>3 DEF Faces
<1>9. Last(s).op = "winclose" /\ Last(s).live => Last(s).tab \in Faces(s)
  BY <1>6 DEF Faces
<1> QED
  BY <1>2, <1>4, <1>5, <1>6, <1>7, <1>8, <1>9 DEF a

(* The page of u is dead to the close-request loops.                       *)
LEMMA StackForget ==
    ASSUME NEW s, StackOK(s), NEW u
    PROVE  /\ StackOK(ForgetPage(s, u))
           /\ \A t : Undoes(ForgetPage(s, u), t) = Undoes(s, t)
           /\ Faces(ForgetPage(s, u)) \subseteq Faces(s) \ {u}
<1> DEFINE a == ForgetPage(s, u)
<1>1. /\ s \in Seq(Frames) /\ Len(s) \in Nat /\ DOMAIN s = 1 .. Len(s)
      /\ \A k \in 1 .. Len(s) : s[k] \in Frames
  BY SeqFacts DEF StackOK
<1>2. DOMAIN a = 1 .. Len(s) /\ a = [k \in 1 .. Len(s) |-> a[k]]
  BY <1>1 DEF ForgetPage
<1>3. ASSUME NEW k \in 1 .. Len(s)
      PROVE  /\ a[k] \in Frames /\ a[k].op = s[k].op
             /\ a[k].op = "undo" => a[k] = s[k]
             /\ a[k].op = "winclose" /\ a[k].live => a[k] = s[k] /\ a[k].tab # u
  <2>1. s[k] \in Frames
    BY <1>1
  <2>2. CASE s[k].op = "winclose" /\ s[k].tab = u
    <3>1. a[k] = [s[k] EXCEPT !.live = FALSE]
      BY <1>1, <2>2 DEF ForgetPage
    <3>2. s[k] \in [op : {"winclose"}, tab : Tabs, busy : BOOLEAN, live : BOOLEAN,
                    left : Nat, asked : SUBSET Tabs]
      BY <2>1, <2>2 DEF Frames
    <3>3. /\ a[k] \in [op : {"winclose"}, tab : Tabs, busy : BOOLEAN, live : BOOLEAN,
                       left : Nat, asked : SUBSET Tabs]
          /\ a[k].op = "winclose" /\ ~a[k].live
      BY <3>1, <3>2
    <3> QED
      BY <2>2, <3>3 DEF Frames
  <2>3. CASE ~(s[k].op = "winclose" /\ s[k].tab = u)
    <3>1. a[k] = s[k]
      BY <1>1, <2>3 DEF ForgetPage
    <3> QED
      BY <2>1, <2>3, <3>1
  <2> QED
    BY <2>2, <2>3
<1> HIDE DEF a
<1>4. a \in Seq(Frames) /\ Len(a) = Len(s)
  <2>1. a \in [1 .. Len(s) -> Frames]
    BY <1>2, <1>3
  <2> QED
    BY <1>1, <1>2, <2>1, SeqFacts, LenProperties
<1>5. StackOK(a)
  BY <1>1, <1>2, <1>3, <1>4 DEF StackOK
<1>6. ASSUME NEW t PROVE Undoes(a, t) = Undoes(s, t)
  BY <1>1, <1>2, <1>3 DEF Undoes
<1>7. Faces(a) \subseteq Faces(s) \ {u}
  BY <1>1, <1>2, <1>3 DEF Faces
<1> QED
  BY <1>5, <1>6, <1>7 DEF a

(* The page of t is taken out.                                             *)
LEMMA WithoutEffect ==
    ASSUME ViewOK, NEW t \in Shown
    PROVE  /\ Without(t) \in Seq(Tabs) /\ Len(Without(t)) = Len(pages) - 1
           /\ ToSet(Without(t)) = Shown \ {t}
           /\ \A u \in Tabs : Once(Without(t), u)
<1> DEFINE p == CHOOSE k \in DOMAIN pages : pages[k] = t
<1>1. /\ pages \in Seq(Tabs) /\ DOMAIN pages = 1 .. Len(pages)
      /\ \E k \in 1 .. Len(pages) : pages[k] = t
      /\ t \in Tabs /\ Once(pages, t)
  BY SeqFacts DEF ViewOK, Shown
<1>2. p \in 1 .. Len(pages) /\ pages[p] = t
  BY <1>1
<1>3. Without(t) = RemoveAt(pages, p)
  BY DEF Without
<1> HIDE DEF p
<1>4. Without(t) \in Seq(Tabs) /\ Len(Without(t)) = Len(pages) - 1
  BY <1>1, <1>2, <1>3, RemoveEffect
<1>5. ToSet(Without(t)) = Shown \ {t} /\ \A u \in Tabs : Once(Without(t), u)
  BY <1>1, <1>2, <1>3, Removed DEF ViewOK, Shown
<1> QED
  BY <1>4, <1>5

(* The page of t is put at another place.                                  *)
LEMMA MoveEffect ==
    ASSUME ViewOK, NEW t \in Shown, NEW q \in 1 .. Len(pages)
    PROVE  /\ InsertAt(Without(t), q, t) \in Seq(Tabs)
           /\ ToSet(InsertAt(Without(t), q, t)) = Shown
           /\ \A u \in Tabs : Once(InsertAt(Without(t), q, t), u)
<1>1. pages \in Seq(Tabs) /\ Len(pages) \in Nat /\ t \in Tabs
  BY SeqFacts DEF ViewOK, Shown
<1>2. /\ Without(t) \in Seq(Tabs) /\ Len(Without(t)) = Len(pages) - 1
      /\ ToSet(Without(t)) = Shown \ {t}
      /\ \A u \in Tabs : Once(Without(t), u)
  BY WithoutEffect
<1>3. q \in 1 .. Len(Without(t)) + 1
  BY <1>1, <1>2
<1>4. /\ InsertAt(Without(t), q, t) \in Seq(Tabs)
      /\ ToSet(InsertAt(Without(t), q, t)) = ToSet(Without(t)) \cup {t}
      /\ \A u : Once(Without(t), u) /\ (u = t => u \notin ToSet(Without(t)))
                => Once(InsertAt(Without(t), q, t), u)
  BY <1>1, <1>2, <1>3, Inserted
<1> QED
  BY <1>2, <1>4

(* The pinned section is a part of the view.                               *)
LEMMA PinnedFit ==
    ASSUME ViewOK
    PROVE  /\ NPinned \in Nat /\ NPinned <= Len(pages)
           /\ \A t \in Shown \ pinned : NPinned + 1 <= Len(pages)
           /\ \A t \in pinned : NPinned >= 1
           /\ OnePin => NPinned <= 1
<1>1. pages \in Seq(Tabs) /\ Len(pages) \in Nat /\ DOMAIN pages = 1 .. Len(pages)
  BY SeqFacts DEF ViewOK
<1>2. IsFiniteSet(Shown) /\ Cardinality(Shown) <= Len(pages)
  <2> DEFINE f == [k \in 1 .. Len(pages) |-> pages[k]]
  <2>1. IsFiniteSet(1 .. Len(pages)) /\ Cardinality(1 .. Len(pages)) = Len(pages)
    BY <1>1, FS_Interval
  <2>2. Shown = { pages[k] : k \in 1 .. Len(pages) }
    BY <1>1 DEF Shown, ToSet
  <2>3. f \in Surjection(1 .. Len(pages), Shown)
    BY <2>2 DEF Surjection
  <2> QED
    BY <2>1, <2>3, FS_Surjection
<1>3. pinned \subseteq Shown /\ pinned \subseteq Pinnable
  BY DEF ViewOK
<1>4. IsFiniteSet(pinned) /\ NPinned \in Nat /\ NPinned <= Cardinality(Shown) /\ Cardinality(Shown) \in Nat
  BY <1>2, <1>3, FS_Subset, FS_CardinalityType DEF NPinned
<1>5. ASSUME NEW t \in Shown \ pinned PROVE NPinned + 1 <= Cardinality(Shown)
  <2>1. pinned \cup {t} \subseteq Shown
    BY <1>3
  <2>2. Cardinality(pinned \cup {t}) = NPinned + 1
    BY <1>4, FS_AddElement DEF NPinned
  <2> QED
    BY <1>2, <2>1, <2>2, FS_Subset
<1>6. ASSUME NEW t \in pinned PROVE NPinned >= 1
  BY <1>4, FS_EmptySet DEF NPinned
<1>7. ASSUME OnePin PROVE NPinned <= 1
  <2>1. CASE pinned = {}
    BY <2>1, FS_EmptySet DEF NPinned
  <2>2. CASE pinned # {}
    <3>1. PICK t : pinned = {t}
      BY <1>3, <1>7, <2>2 DEF OnePin
    <3> QED
      BY <3>1, FS_Singleton DEF NPinned
  <2> QED
    BY <2>1, <2>2
<1> QED
  BY <1>1, <1>2, <1>4, <1>5, <1>6, <1>7

(* A tab is offered to the view, which takes it or, where it would come    *)
(* before a pinned page, does not.                                         *)
LEMMA AddEffect ==
    ASSUME ViewOK, NEW t \in Tabs, AddTab(t)
    PROVE  /\ pages' \in Seq(Tabs) /\ \A u \in Tabs : Once(pages', u)
           /\ Shown \subseteq Shown' /\ Shown' \subseteq Shown \cup {t}
           /\ OnePin => t \in Shown'
<1>1. pages \in Seq(Tabs) /\ Len(pages) \in Nat
  BY SeqFacts DEF ViewOK
<1>2. PICK p \in IF pages = << >> THEN {0} ELSE 1 .. Len(pages) : InsertPage(t, p)
  BY DEF AddTab
<1>3. p \in 0 .. Len(pages) /\ p + 1 \in 1 .. Len(pages) + 1
  BY <1>1, <1>2, EmptySeq
<1>4. NPinned \in Nat /\ NPinned <= Len(pages) /\ (OnePin => NPinned <= 1)
  BY PinnedFit
<1>5. CASE p < NPinned \/ t \in Shown
  <2>1. pages' = pages
    BY <1>2, <1>5 DEF InsertPage
  <2>2. ASSUME OnePin PROVE t \in Shown
    <3>1. CASE pages = << >>
      BY <1>1, <1>2, <1>3, <1>4, <1>5, <3>1, EmptySeq
    <3>2. CASE pages # << >>
      BY <1>2, <1>4, <1>5, <2>2, <3>2
    <3> QED
      BY <3>1, <3>2
  <2> QED
    BY <2>1, <2>2 DEF ViewOK, Shown
<1>6. CASE ~(p < NPinned \/ t \in Shown)
  <2>1. pages' = InsertAt(pages, p + 1, t)
    BY <1>2, <1>6 DEF InsertPage
  <2>2. /\ pages' \in Seq(Tabs) /\ ToSet(pages') = Shown \cup {t}
        /\ \A u \in Tabs : Once(pages', u)
    <3>1. /\ InsertAt(pages, p + 1, t) \in Seq(Tabs)
          /\ ToSet(InsertAt(pages, p + 1, t)) = ToSet(pages) \cup {t}
          /\ \A u : Once(pages, u) /\ (u = t => u \notin ToSet(pages))
                    => Once(InsertAt(pages, p + 1, t), u)
      BY <1>1, <1>3, Inserted
    <3> QED
      BY <1>6, <2>1, <3>1 DEF ViewOK, Shown
  <2> QED
    BY <2>2 DEF Shown
<1> QED
  BY <1>5, <1>6

-----------------------------------------------------------------------------
(* The tabs' part of a step *)

(* A force-quit of tabs, of the window or not, is one of its own tabs.     *)
LEMMA ForceOwn ==
    ASSUME NEW S, ForceQuit(S)
    PROVE  TabNext
<1>1. S \cap Tabs \in SUBSET Tabs /\ ForceQuit(S \cap Tabs)
  BY DEF ForceQuit
<1> QED
  BY <1>1 DEF TabNext

(* What a step may do to the tabs it owns.                                 *)
LEMMA WindowOnTabs ==
    ASSUME StackOK(frames), Next
    PROVE  \/ UNCHANGED tabVars
           \/ \E S : ForceQuit(S)
           \/ \E t \in Tabs : /\ \/ ShowBanner(t) \/ SpawnDone(t) \/ SpawnFailed(t)
                                 \/ Exit(t) \/ WaitDone(t) \/ KillTimer(t)
                                 \/ (Map(t) \/ RespawnAction(t)) /\ t \in Shown /\ pages' = pages
<1> DEFINE Goal == \/ UNCHANGED tabVars
                   \/ \E S : ForceQuit(S)
                   \/ \E t \in Tabs :
                         /\ \/ ShowBanner(t) \/ SpawnDone(t) \/ SpawnFailed(t)
                            \/ Exit(t) \/ WaitDone(t) \/ KillTimer(t)
                            \/ (Map(t) \/ RespawnAction(t)) /\ t \in Shown /\ pages' = pages
<1>1. ASSUME NEW u, NEW stack, NEW quit, DetachParked(u, stack, quit) PROVE Goal
  BY <1>1 DEF DetachParked
<1>2. CASE UserStep
  <2>1. ASSUME NEW t \in Tabs, NewTab(t) \/ Pin(t) \/ Unpin(t) \/ CloseTab(t) \/ DialogCancel(t)
        PROVE  Goal
    BY <2>1 DEF NewTab, Pin, Unpin, CloseTab, DialogCancel, tabVars
  <2>2. ASSUME NEW t \in Tabs, MapTab(t) \/ RestartTab(t) PROVE Goal
    BY <2>2 DEF MapTab, RestartTab, windowVars
  <2>3. ASSUME NEW t \in Tabs, DialogDiscard(t) PROVE Goal
    BY <1>1, <2>3 DEF DialogDiscard
  <2>4. CASE UndoClose \/ WinDialogCancel
    BY <2>4 DEF UndoClose, WinDialogCancel, tabVars
  <2>5. CASE WinClose \/ WinDialogDiscard
    BY <2>5 DEF WinClose, WinDialogDiscard, tabVars
  <2> QED
    BY <1>2, <2>1, <2>2, <2>3, <2>4, <2>5 DEF UserStep
<1>3. CASE LoopStep
  <2>1. CASE CloseAsks \/ WinCloseKeeps \/ WinCloseCloses \/ LookAtPage
    BY <2>1 DEF CloseAsks, WinCloseKeeps, WinCloseCloses, LookAtPage, tabVars
  <2>2. CASE CloseParks
    BY <1>1, <2>2 DEF CloseParks, tabVars
  <2>3. CASE UndoShows
    <3>1. frames # << >> /\ Last(frames).op = "undo"
      BY <2>3 DEF UndoShows, On
    <3>2. Last(frames) \in Frames
      BY <3>1, StackPop
    <3>3. Last(frames).tab \in Tabs
      BY <3>1, <3>2 DEF Frames
    <3> QED
      BY <2>3, <3>3 DEF UndoShows, tabVars
  <2>4. CASE LookIsOver \/ ParkTimeout
    BY <2>4 DEF LookIsOver, ParkTimeout, tabVars
  <2> QED
    BY <1>3, <2>1, <2>2, <2>3, <2>4 DEF LoopStep, Resume
<1>4. CASE ProcessStep
  <2>1. PICK t \in Tabs : TabSpawned(t) \/ TabExits(t) \/ TabWaited(t) \/ TabKillTimer(t)
    BY <1>4 DEF ProcessStep
  <2>2. SpawnDone(t) \/ SpawnFailed(t) \/ Exit(t) \/ WaitDone(t) \/ KillTimer(t)
    BY <2>1 DEF TabSpawned, TabExits, TabWaited, TabKillTimer, WaitClosesPage, WaitDone
  <2> QED
    BY <2>2
<1> QED
  BY <1>2, <1>3, <1>4 DEF Next

(* Every step of the window is a step of TabProcess, or none.              *)
LEMMA TabsMove ==
    ASSUME StackOK(frames), [Next]_vars
    PROVE  [TabNext]_tabVars
<1>1. CASE UNCHANGED vars
  BY <1>1 DEF vars
<1>2. CASE Next
  <2>1. ASSUME NEW t \in Tabs, TabStep(t) PROVE TabNext
    BY <2>1 DEF TabNext
  <2> QED
    BY <1>2, <2>1, WindowOnTabs, ForceOwn DEF TabStep
<1> QED
  BY <1>1, <1>2

(* Only Map and the Restart button launch a process where there was none,  *)
(* both of a page in the view.                                             *)
LEMMA QuietSteps ==
    ASSUME StackOK(frames), IInv, [Next]_vars
    PROVE  Quiet
<1> SUFFICES ASSUME NEW u \in Tabs, Live(u)' PROVE Live(u) \/ (u \in Shown /\ pages' = pages)
  BY DEF Quiet
<1>0. TypeOK
  BY DEF IInv
<1>1. CASE UNCHANGED tabVars
  BY <1>1 DEF Live, tabVars
<1>2. ASSUME NEW S, ForceQuit(S) PROVE Live(u)
  BY <1>2 DEF ForceQuit, Live
<1>3. ASSUME NEW t \in Tabs, ShowBanner(t) \/ Exit(t) \/ KillTimer(t) PROVE Live(u)
  BY <1>3 DEF ShowBanner, Exit, KillTimer, Live
<1>4. ASSUME NEW t \in Tabs, SpawnDone(t) \/ SpawnFailed(t) PROVE Live(u)
  <2>1. state[t] = "SPAWNING"
    <3>1. spawnCalls[t] > 0
      BY <1>4 DEF SpawnDone, SpawnFailed
    <3>2. spawnCalls[t] = IF state[t] = "SPAWNING" THEN 1 ELSE 0
      BY DEF IInv, CallbacksMatchState
    <3> QED
      BY <3>1, <3>2
  <2> QED
    BY <1>0, <1>4, <2>1 DEF SpawnDone, SpawnFailed, Live, TypeOK
<1>5. ASSUME NEW t \in Tabs, WaitDone(t) PROVE Live(u)
  <2>1. state[t] = "RUNNING" /\ (u # t => state'[u] = state[u])
    BY <1>5, WaitEffect
  <2>2. forcedExit' = forcedExit
    BY <1>5 DEF WaitDone, WaitForced, WaitSignaled, WaitRestart, WaitClose, WaitShow, Reap
  <2> QED
    BY <2>1, <2>2 DEF Live
<1>6. ASSUME NEW t \in Tabs, Map(t) \/ RespawnAction(t), t \in Shown, pages' = pages
      PROVE  Live(u) \/ (u \in Shown /\ pages' = pages)
  <2>1. CASE u = t
    BY <1>6, <2>1
  <2>2. CASE u # t
    <3>1. PICK launched \in Launches : Respawn(t, launched, label[t])
      BY <1>6 DEF Map, RespawnAction
    <3>2. state'[u] = state[u] /\ forcedExit' = forcedExit
      BY <1>0, <1>6, <2>2, <3>1 DEF Respawn, Map, RespawnAction, TypeOK
    <3> QED
      BY <3>2 DEF Live
  <2> QED
    BY <2>1, <2>2
<1>7. CASE UNCHANGED vars
  BY <1>1, <1>7 DEF vars
<1> QED
  BY <1>1, <1>2, <1>3, <1>4, <1>5, <1>6, <1>7, WindowOnTabs

-----------------------------------------------------------------------------
(* The moves of a tab *)

(* No tab moves, though its page may.                                      *)
LEMMA Stays ==
    ASSUME Whereabouts, Quiet,
           pages' \in Seq(Tabs), \A u \in Tabs : Once(pages', u), ToSet(pages') = Shown,
           pinned' \subseteq Shown \cap Pinnable, closing' \subseteq Shown,
           pageDialogs' \subseteq Tabs, winDialog' \subseteq Tabs,
           open' = open, lot' = lot,
           StackOK(frames'), \A t \in Tabs : Undoes(frames', t) = Undoes(frames, t),
           Faces(frames') \subseteq Shown
    PROVE  Whereabouts'
<1>1. ViewOK' /\ Shown' = Shown /\ Parked' = Parked
  BY DEF Whereabouts, ViewOK, Shown, Parked
<1>2. ASSUME NEW t \in Tabs \ Pinnable PROVE Apart(t)'
  BY <1>1, <1>2 DEF Whereabouts, Apart
<1>3. ASSUME OnePin, open', NEW t \in Tabs, Live(t)' PROVE Placed(t)'
  BY <1>1, <1>3 DEF Whereabouts, Placed, Quiet
<1> QED
  BY <1>1, <1>2, <1>3 DEF Whereabouts, OnePin

(* An empty parking lot, or tab view.                                      *)
LEMMA NothingParked == << >> \in Seq(Tabs) /\ ToSet(<< >>) = {} /\ \A t : Once(<< >>, t)
<1>1. << >> \in Seq(Tabs) /\ Len(<< >>) = 0
  BY EmptySeq
<1>2. DOMAIN << >> = {} /\ ToSet(<< >>) = {}
  BY <1>1, SeqFacts DEF ToSet
<1> QED
  BY <1>1, <1>2 DEF Once

(* No handler is suspended.                                                *)
LEMMA NoHandlers == StackOK(<< >>) /\ Faces(<< >>) = {} /\ \A t : Undoes(<< >>, t) = {}
<1>1. << >> \in Seq(Frames) /\ Len(<< >>) = 0
  BY EmptySeq
<1>2. DOMAIN << >> = {}
  BY <1>1, SeqFacts
<1> QED
  BY <1>1, <1>2, WindowAssumption DEF StackOK, Undoes, Faces

(* With the window its tabs are nowhere, which is no loss.                 *)
LEMMA Goes ==
    ASSUME Destroyed
    PROVE  Whereabouts'
<1>1. ViewOK' /\ StackOK(frames') /\ ~open' /\ Shown' = {} /\ Parked' = {}
  BY NothingParked, NoHandlers DEF Destroyed, ViewOK, Shown, Parked
<1>2. ASSUME NEW t PROVE Apart(t)'
  BY <1>1, NothingParked, NoHandlers DEF Apart, Destroyed
<1> QED
  BY <1>1, <1>2 DEF Whereabouts

(* From the view into the parking lot.                                     *)
LEMMA Parks ==
    ASSUME Whereabouts, Quiet, NEW u \in Shown, NEW stack, NEW quit,
           DetachParked(u, stack, quit),
           StackOK(stack), \A t \in Tabs : Undoes(stack, t) = Undoes(frames, t),
           Faces(stack) \subseteq Shown
    PROVE  Whereabouts'
<1>1. CASE Shown = {u}
  BY <1>1, Goes DEF DetachParked
<1>2. CASE Shown # {u}
  <2>1. /\ pages' = Without(u) /\ lot' = Append(lot, u) /\ open' = open
        /\ pinned' = pinned \ {u} /\ closing' = closing \ {u}
        /\ pageDialogs' = pageDialogs \ {u} /\ winDialog' = winDialog
        /\ frames' = ForgetPage(stack, u)
    BY <1>2 DEF DetachParked
  <2>2. /\ StackOK(frames') /\ Faces(frames') \subseteq Shown \ {u}
        /\ \A t \in Tabs : Undoes(frames', t) = Undoes(frames, t)
    BY <2>1, StackForget
  <2>3. ViewOK /\ u \in Tabs
    BY SeqFacts DEF Whereabouts, ViewOK, Shown
  <2>4. /\ pages' \in Seq(Tabs) /\ Shown' = Shown \ {u}
        /\ \A t \in Tabs : Once(pages', t)
    BY <2>1, <2>3, WithoutEffect DEF Shown
  <2>5. /\ lot' \in Seq(Tabs) /\ Parked' = Parked \cup {u}
        /\ \A t : Once(lot, t) /\ (t = u => t \notin Parked) => Once(lot', t)
    BY <2>1, <2>3, Appended DEF ViewOK, Parked
  <2>6. ViewOK'
    BY <2>1, <2>2, <2>3, <2>4, <2>5 DEF ViewOK
  <2>7. ASSUME NEW t \in Tabs \ Pinnable PROVE Apart(t)'
    <3>1. Apart(t)
      BY <2>7 DEF Whereabouts
    <3> QED
      BY <2>2, <2>4, <2>5, <3>1 DEF Apart
  <2>8. ASSUME OnePin, open', NEW t \in Tabs, Live(t)' PROVE Placed(t)'
    <3>1. t \in Shown \/ Placed(t)
      BY <2>1, <2>8 DEF Whereabouts, Quiet
    <3> QED
      BY <2>2, <2>4, <2>5, <3>1 DEF Placed
  <2> QED
    BY <2>2, <2>6, <2>7, <2>8 DEF Whereabouts, OnePin
<1> QED
  BY <1>1, <1>2

(* Out of the parking lot.  It is force-quit or its undo is suspended.     *)
LEMMA Leaves ==
    ASSUME Whereabouts, Quiet, lot # << >>, NEW h, h = Head(lot), lot' = Tail(lot), StackOK(frames'), Faces(frames') \subseteq Shown,
           UNCHANGED << open, pages, pinned, closing, pageDialogs, winDialog >>,
           \A t \in Tabs : t # h => Undoes(frames', t) = Undoes(frames, t),
           \/ ~Live(h)' /\ Undoes(frames', h) = Undoes(frames, h)
           \/ \E k : Undoes(frames', h) = Undoes(frames, h) \cup {k}
    PROVE  Whereabouts'
<1>1. ViewOK
  BY DEF Whereabouts
<1>2. /\ h \in Parked /\ h \in Tabs /\ lot' \in Seq(Tabs) /\ Parked' \subseteq Parked
      /\ \A t : t # h => (t \in Parked' <=> t \in Parked)
      /\ Once(lot, h) => h \notin Parked'
      /\ \A t : Once(lot, t) => Once(lot', t)
  BY <1>1, Popped, SeqFacts DEF ViewOK, Parked
<1>3. ViewOK' /\ Shown' = Shown
  BY <1>1, <1>2 DEF ViewOK, Shown
<1>4. ASSUME NEW t \in Tabs \ Pinnable PROVE Apart(t)'
  <2>1. Apart(t)
    BY <1>4 DEF Whereabouts
  <2>2. CASE t # h
    <3>1. Undoes(frames', t) = Undoes(frames, t)
      BY <1>4, <2>2
    <3> QED
      BY <1>2, <1>3, <2>1, <2>2, <3>1 DEF Apart
  <2>3. CASE t = h
    <3>1. t \in Parked /\ t \notin Parked' /\ t \notin Shown /\ Undoes(frames, t) = {} /\ Once(lot', t)
      BY <1>2, <2>1, <2>3 DEF Apart
    <3>2. \A j, k \in Undoes(frames', t) : j = k
      BY <2>3, <3>1
    <3> QED
      BY <1>3, <3>1, <3>2 DEF Apart
  <2> QED
    BY <2>2, <2>3
<1>5. ASSUME OnePin, open', NEW t \in Tabs, Live(t)' PROVE Placed(t)'
  <2>1. t \in Shown \/ Placed(t)
    BY <1>5 DEF Whereabouts, Quiet
  <2>2. CASE t # h
    <3>1. Undoes(frames', t) = Undoes(frames, t)
      BY <1>5, <2>2
    <3> QED
      BY <1>2, <1>3, <2>1, <2>2, <3>1 DEF Placed
  <2>3. CASE t = h
    BY <1>5, <2>3 DEF Placed
  <2> QED
    BY <2>2, <2>3
<1> QED
  BY <1>3, <1>4, <1>5 DEF Whereabouts, OnePin

(* Into the view, by nobody's or by the innermost handler's hand.          *)
LEMMA Enters ==
    ASSUME Whereabouts, Quiet, NEW u \in Tabs, AddTab(u), StackOK(frames'),
           Faces(frames') \subseteq Shown,
           UNCHANGED << open, pinned, closing, pageDialogs, winDialog, lot >>,
           \A t \in Tabs : t # u => Undoes(frames', t) = Undoes(frames, t),
           Undoes(frames', u) \subseteq Undoes(frames, u),
           u \notin Pinnable => u \notin Parked /\ Undoes(frames', u) = {}
    PROVE  Whereabouts'
<1>1. ViewOK
  BY DEF Whereabouts
<1>2. /\ pages' \in Seq(Tabs) /\ \A t \in Tabs : Once(pages', t)
      /\ Shown \subseteq Shown' /\ Shown' \subseteq Shown \cup {u}
      /\ OnePin => u \in Shown'
  BY <1>1, AddEffect
<1>3. ViewOK' /\ Parked' = Parked
  BY <1>1, <1>2 DEF ViewOK, Parked
<1>4. ASSUME NEW t \in Tabs \ Pinnable PROVE Apart(t)'
  <2>1. Apart(t)
    BY <1>4 DEF Whereabouts
  <2>2. CASE t # u
    <3>1. Undoes(frames', t) = Undoes(frames, t)
      BY <1>4, <2>2
    <3> QED
      BY <1>2, <1>3, <2>1, <2>2, <3>1 DEF Apart
  <2>3. CASE t = u
    <3>1. t \notin Parked /\ Undoes(frames', t) = {}
      BY <1>4, <2>3
    <3> QED
      BY <1>3, <2>1, <3>1 DEF Apart
  <2> QED
    BY <2>2, <2>3
<1>5. ASSUME OnePin, open', NEW t \in Tabs, Live(t)' PROVE Placed(t)'
  <2>1. t \in Shown \/ Placed(t)
    BY <1>5 DEF Whereabouts, Quiet
  <2>2. CASE t # u
    <3>1. Undoes(frames', t) = Undoes(frames, t)
      BY <1>5, <2>2
    <3> QED
      BY <1>2, <1>3, <2>1, <3>1 DEF Placed
  <2>3. CASE t = u
    BY <1>2, <1>5, <2>3 DEF Placed
  <2> QED
    BY <2>2, <2>3
<1> QED
  BY <1>3, <1>4, <1>5 DEF Whereabouts, OnePin

(* A pinned tab is parked while it stays in the view.                      *)
LEMMA ParksPinned ==
    ASSUME Whereabouts, Quiet, NEW u \in Pinnable, lot' = Append(lot, u), StackOK(frames'),
           Faces(frames') \subseteq Shown,
           UNCHANGED << open, pages, pinned, pageDialogs, winDialog >>, closing' \subseteq closing,
           \A t \in Tabs : Undoes(frames', t) = Undoes(frames, t)
    PROVE  Whereabouts'
<1>1. ViewOK /\ u \in Tabs
  BY WindowAssumption DEF Whereabouts
<1>2. /\ lot' \in Seq(Tabs) /\ Parked' = Parked \cup {u}
      /\ \A t : Once(lot, t) /\ (t = u => t \notin Parked) => Once(lot', t)
  BY <1>1, Appended DEF ViewOK, Parked
<1>3. ViewOK' /\ Shown' = Shown
  BY <1>1, <1>2 DEF ViewOK, Shown
<1>4. ASSUME NEW t \in Tabs \ Pinnable PROVE Apart(t)'
  <2>1. Apart(t) /\ t # u /\ Undoes(frames', t) = Undoes(frames, t)
    BY <1>4 DEF Whereabouts
  <2> QED
    BY <1>2, <1>3, <2>1 DEF Apart
<1>5. ASSUME OnePin, open', NEW t \in Tabs, Live(t)' PROVE Placed(t)'
  <2>1. t \in Shown \/ Placed(t)
    BY <1>5 DEF Whereabouts, Quiet
  <2> QED
    BY <1>2, <1>3, <1>5, <2>1 DEF Placed
<1> QED
  BY <1>3, <1>4, <1>5 DEF Whereabouts, OnePin

-----------------------------------------------------------------------------
(* The steps keep the tabs apart and in sight *)

(* The inductive invariant.                                                *)
WindowInv == IInv /\ CloseInv /\ Whereabouts

(* The first tab is in the view.                                           *)
LEMMA WindowInit == Init => WindowInv
<1> SUFFICES ASSUME Init PROVE WindowInv
  OBVIOUS
<1>1. IInv /\ CloseInv
  BY InitInvariant, CloseInit DEF Init
<1>2. PICK t \in Tabs : pages = << t >>
  BY DEF Init
<1>3. /\ << t >> \in Seq(Tabs) /\ Len(<< t >>) = 1 /\ << t >>[1] = t
  OBVIOUS
<1>4. Shown = {t} /\ \A u : Once(pages, u)
  <2>1. DOMAIN pages = {1} /\ pages[1] = t
    BY <1>2, <1>3, SeqFacts
  <2> QED
    BY <2>1 DEF Shown, ToSet, Once
<1>5. ViewOK
  BY <1>2, <1>3, <1>4, NothingParked, NoHandlers DEF Init, ViewOK
<1>6. /\ StackOK(frames) /\ \A u : Undoes(frames, u) = {}
      /\ Parked = {} /\ \A u : Once(lot, u)
  BY NoHandlers, NothingParked DEF Init, Parked
<1>7. \A u \in Tabs : Apart(u)
  BY <1>6 DEF Apart
<1>8. \A u \in Tabs : ~Live(u)
  BY DEF Init, TabInit, Live
<1> QED
  BY <1>1, <1>5, <1>6, <1>7, <1>8 DEF WindowInv, Whereabouts

(* No page moves at all.                                                   *)
LEMMA Rests ==
    ASSUME Whereabouts, Quiet, UNCHANGED << open, pages, lot >>,
           pinned' \subseteq pinned, closing' \subseteq Shown,
           pageDialogs' \subseteq Tabs, winDialog' \subseteq Tabs,
           StackOK(frames'), \A t \in Tabs : Undoes(frames', t) = Undoes(frames, t),
           Faces(frames') \subseteq Shown
    PROVE  Whereabouts'
<1>1. ViewOK
  BY DEF Whereabouts
<1>2. /\ pages' \in Seq(Tabs) /\ \A u \in Tabs : Once(pages', u)
      /\ ToSet(pages') = Shown /\ pinned' \subseteq Shown \cap Pinnable
  BY <1>1 DEF ViewOK, Shown
<1> QED
  BY <1>2, Stays

(* What the user does.                                                     *)
LEMMA UserKeepsPlaces ==
    ASSUME WindowInv, Quiet, UserStep
    PROVE  Whereabouts'
<1>0. /\ Whereabouts /\ ViewOK /\ StackOK(frames)
      /\ pages \in Seq(Tabs) /\ Len(pages) \in Nat /\ Shown \subseteq Tabs
  BY SeqFacts DEF WindowInv, Whereabouts, ViewOK, Shown
<1>1. ASSUME NEW t \in Tabs, NewTab(t) PROVE Whereabouts'
  <2>1. /\ t \notin Parked /\ AddTab(t) /\ frames' = frames
        /\ \A k \in DOMAIN frames : frames[k].op = "undo" => frames[k].tab # t
        /\ UNCHANGED << open, pinned, closing, pageDialogs, winDialog, lot >>
    BY <1>1 DEF NewTab
  <2>2. Undoes(frames, t) = {}
    BY <2>1 DEF Undoes
  <2> QED
    BY <1>0, <2>1, <2>2, Enters DEF ViewOK
<1>2. ASSUME NEW t \in Tabs, MapTab(t) \/ RestartTab(t) PROVE Whereabouts'
  <2>1. UNCHANGED windowVars
    BY <1>2 DEF MapTab, RestartTab
  <2> QED
    BY <1>0, <2>1, Rests DEF windowVars, ViewOK
<1>3. ASSUME NEW t \in Tabs, Pin(t) PROVE Whereabouts'
  <2>1. /\ t \in Shown /\ t \in Pinnable /\ t \notin pinned
        /\ pages' = InsertAt(Without(t), NPinned + 1, t) /\ pinned' = pinned \cup {t}
        /\ UNCHANGED << open, closing, pageDialogs, winDialog, lot, frames >>
    BY <1>3 DEF Pin
  <2>2. NPinned + 1 \in 1 .. Len(pages)
    BY <1>0, <2>1, PinnedFit
  <2>3. /\ pages' \in Seq(Tabs) /\ ToSet(pages') = Shown
        /\ \A u \in Tabs : Once(pages', u)
    BY <1>0, <2>1, <2>2, MoveEffect
  <2> QED
    BY <1>0, <2>1, <2>3, Stays DEF ViewOK
<1>4. ASSUME NEW t \in Tabs, Unpin(t) PROVE Whereabouts'
  <2>1. /\ t \in pinned /\ pages' = InsertAt(Without(t), NPinned, t) /\ pinned' = pinned \ {t}
        /\ UNCHANGED << open, closing, pageDialogs, winDialog, lot, frames >>
    BY <1>4 DEF Unpin, Unpinned
  <2>2. NPinned \in 1 .. Len(pages) /\ t \in Shown
    BY <1>0, <2>1, PinnedFit DEF ViewOK
  <2>3. /\ pages' \in Seq(Tabs) /\ ToSet(pages') = Shown
        /\ \A u \in Tabs : Once(pages', u)
    BY <1>0, <2>1, <2>2, MoveEffect
  <2> QED
    BY <1>0, <2>1, <2>3, Stays DEF ViewOK
<1>5. ASSUME NEW t \in Tabs, CloseTab(t) PROVE Whereabouts'
  <2> DEFINE f == Poll("close", t)
  <2>1. /\ t \in Shown /\ Len(frames) + 1 <= MaxFrames
        /\ frames' = Append(frames, f) /\ closing' = closing \cup {t}
        /\ UNCHANGED << open, pages, pinned, pageDialogs, winDialog, lot >>
    BY <1>5 DEF CloseTab, Room
  <2>2. process[t] \in BOOLEAN
    BY DEF WindowInv, IInv, TypeOK
  <2>3. f \in Frames /\ f.op = "close"
    BY <2>2 DEF Poll, Frames
  <2> HIDE DEF f
  <2>4. /\ StackOK(frames') /\ Faces(frames') \subseteq Shown
        /\ \A u \in Tabs : Undoes(frames', u) = Undoes(frames, u)
    BY <1>0, <2>1, <2>3, StackPush DEF ViewOK
  <2> QED
    BY <1>0, <2>1, <2>4, Rests DEF ViewOK
<1>6. ASSUME NEW t \in Tabs, DialogDiscard(t) PROVE Whereabouts'
  <2>1. t \in pageDialogs /\ DetachParked(t, frames, {t})
    BY <1>6 DEF DialogDiscard
  <2>2. t \in Shown
    BY <1>0, <2>1 DEF WindowInv, CloseInv, OneParty, ViewOK
  <2> QED
    BY <1>0, <2>1, <2>2, Parks DEF ViewOK
<1>7. ASSUME NEW t \in Tabs, DialogCancel(t) PROVE Whereabouts'
  <2>1. /\ pageDialogs' = pageDialogs \ {t} /\ closing' = closing \ {t}
        /\ UNCHANGED << open, pages, pinned, winDialog, lot, frames >>
    BY <1>7 DEF DialogCancel
  <2> QED
    BY <1>0, <2>1, Rests DEF ViewOK
<1>8. ASSUME UndoClose PROVE Whereabouts'
  <2>0. PICK h : h = Head(lot)
    OBVIOUS
  <2> DEFINE f == Poll("undo", h)
  <2>1. /\ lot # << >> /\ Len(frames) + 1 <= MaxFrames
        /\ lot' = Tail(lot) /\ frames' = Append(frames, f)
        /\ UNCHANGED << open, pages, pinned, closing, pageDialogs, winDialog >>
    BY <1>8, <2>0 DEF UndoClose, Room
  <2>2. h \in Tabs
    BY <1>0, <2>0, <2>1, Popped, SeqFacts DEF ViewOK
  <2>3. process[h] \in BOOLEAN
    BY <2>2 DEF WindowInv, IInv, TypeOK
  <2>4. f \in Frames /\ f.op = "undo" /\ f.tab = h
    BY <2>2, <2>3 DEF Poll, Frames
  <2> HIDE DEF f
  <2>5. /\ StackOK(frames') /\ Faces(frames') \subseteq Shown
        /\ \A u \in Tabs : u # h => Undoes(frames', u) = Undoes(frames, u)
        /\ Undoes(frames', h) = Undoes(frames, h) \cup {Len(frames) + 1}
    BY <1>0, <2>1, <2>4, StackPush DEF ViewOK
  <2> QED
    BY <1>0, <2>0, <2>1, <2>2, <2>5, Leaves DEF ViewOK
<1>9. ASSUME WinClose PROVE Whereabouts'
  <2>1. CASE Destroyed
    BY <2>1, Goes
  <2>2. CASE ~Destroyed
    <3> DEFINE f == [op |-> "look", left |-> Len(pages), asked |-> {}]
    <3>1. /\ Len(frames) + 2 <= MaxFrames /\ frames' = Append(frames, f)
          /\ UNCHANGED << open, pages, pinned, closing, pageDialogs, winDialog, lot >>
      BY <1>9, <2>2 DEF WinClose, Room
    <3>2. f \in Frames /\ f.op = "look"
      BY <1>0 DEF Frames
    <3> HIDE DEF f
    <3>3. Len(frames) \in Nat /\ MaxFrames \in Nat
      BY <1>0, SeqFacts, WindowAssumption DEF StackOK
    <3>4. /\ StackOK(frames') /\ Faces(frames') \subseteq Shown
          /\ \A u \in Tabs : Undoes(frames', u) = Undoes(frames, u)
      BY <1>0, <3>1, <3>2, <3>3, StackPush DEF ViewOK
    <3> QED
      BY <1>0, <3>1, <3>4, Rests DEF ViewOK
  <2> QED
    BY <2>1, <2>2
<1>10. ASSUME WinDialogDiscard PROVE Whereabouts'
  BY <1>10, Goes DEF WinDialogDiscard
<1>11. ASSUME WinDialogCancel PROVE Whereabouts'
  <2>1. /\ winDialog' = {}
        /\ UNCHANGED << open, pages, pinned, closing, pageDialogs, lot, frames >>
    BY <1>11 DEF WinDialogCancel
  <2> QED
    BY <1>0, <2>1, Rests DEF ViewOK
<1> QED
  BY <1>1, <1>2, <1>3, <1>4, <1>5, <1>6, <1>7, <1>8, <1>9, <1>10, <1>11 DEF UserStep

(* The innermost handler that is a round of the close-request loop makes   *)
(* room for another.                                                       *)
LEMMA LoopsOn ==
    ASSUME StackOK(frames), frames # << >>, Last(frames).op \in {"winclose", "look"},
           NEW f \in Frames, f.op \in {"winclose", "look"}
    PROVE  /\ StackOK(Append(Front(frames), f))
           /\ Len(Append(Front(frames), f)) = Len(frames) /\ Len(frames) \in Nat
           /\ Len(frames) < MaxFrames
           /\ \A t : Undoes(Append(Front(frames), f), t) = Undoes(frames, t)
           /\ Faces(Append(Front(frames), f)) \subseteq
                 Faces(frames) \cup { t \in {f.tab} : f.op = "winclose" }
<1>1. Len(frames) \in Nat /\ MaxFrames \in Nat
  BY SeqFacts, WindowAssumption DEF StackOK
<1>2. /\ StackOK(Front(frames)) /\ Len(Front(frames)) = Len(frames) - 1
      /\ Len(frames) < MaxFrames /\ frames[Len(frames)] = Last(frames)
      /\ \A t : Undoes(Front(frames), t) = Undoes(frames, t) \ {Len(frames)}
      /\ Faces(Front(frames)) \subseteq Faces(frames)
  BY StackPop
<1>3. /\ StackOK(Append(Front(frames), f))
      /\ Len(Append(Front(frames), f)) = Len(Front(frames)) + 1
      /\ \A t : Undoes(Append(Front(frames), f), t) = Undoes(Front(frames), t)
      /\ Faces(Append(Front(frames), f)) \subseteq
            Faces(Front(frames)) \cup { t \in {f.tab} : f.op = "winclose" /\ f.live }
  BY <1>1, <1>2, StackPush
<1>4. \A t : Len(frames) \notin Undoes(frames, t)
  BY <1>2 DEF Undoes
<1> QED
  BY <1>1, <1>2, <1>3, <1>4

(* What the main loop does.                                                *)
LEMMA LoopKeepsPlaces ==
    ASSUME WindowInv, Quiet, LoopStep
    PROVE  Whereabouts'
<1>0. /\ Whereabouts /\ ViewOK /\ StackOK(frames) /\ CloseInv
      /\ pages \in Seq(Tabs) /\ Len(pages) \in Nat /\ Shown \subseteq Tabs
  BY SeqFacts DEF WindowInv, Whereabouts, ViewOK, Shown
<1> DEFINE l == Last(frames)
<1>1. ASSUME frames # << >>
      PROVE  /\ l \in Frames /\ StackOK(Front(frames))
             /\ Len(frames) \in DOMAIN frames /\ frames[Len(frames)] = l
             /\ \A t : Undoes(Front(frames), t) = Undoes(frames, t) \ {Len(frames)}
             /\ Faces(Front(frames)) \subseteq Shown
             /\ l.op = "winclose" /\ l.live => l.tab \in Shown
  BY <1>0, <1>1, StackPop DEF ViewOK
<1>2. ASSUME frames # << >>, l.op # "undo", NEW t
      PROVE  Undoes(Front(frames), t) = Undoes(frames, t)
  <2>1. Len(frames) \notin Undoes(frames, t)
    BY <1>1, <1>2 DEF Undoes
  <2> QED
    BY <1>1, <1>2, <2>1
<1>3. ASSUME On("close")
      PROVE  frames # << >> /\ l.op = "close" /\ l.tab \in closing /\ l.tab \in Shown
  <2>1. frames # << >> /\ l.op = "close"
    BY <1>3 DEF On
  <2>2. l \in Frames
    BY <1>1, <2>1
  <2>3. l.tab \in Tabs
    BY <2>1, <2>2 DEF Frames
  <2> QED
    BY <1>0, <2>1, <2>3, ResumeEffect DEF ViewOK
<1>4. CASE CloseAsks
  <2>1. /\ On("close") /\ pageDialogs' = pageDialogs \cup {l.tab} /\ frames' = Front(frames)
        /\ UNCHANGED << open, pages, pinned, closing, winDialog, lot >>
    BY <1>4 DEF CloseAsks
  <2>2. frames # << >> /\ l.op = "close" /\ l.tab \in Tabs
    BY <1>0, <1>3, <2>1
  <2> HIDE DEF l
  <2>3. /\ StackOK(frames') /\ Faces(frames') \subseteq Shown
        /\ \A t \in Tabs : Undoes(frames', t) = Undoes(frames, t)
    BY <1>1, <1>2, <2>1, <2>2
  <2> QED
    BY <1>0, <2>1, <2>2, <2>3, Rests DEF ViewOK
<1>5. CASE CloseParks
  <2>1. On("close")
    BY <1>5 DEF CloseParks
  <2>2. frames # << >> /\ l.op = "close" /\ l.tab \in Shown
    BY <1>3, <2>1
  <2>3. /\ StackOK(Front(frames)) /\ Faces(Front(frames)) \subseteq Shown
        /\ \A t \in Tabs : Undoes(Front(frames), t) = Undoes(frames, t)
    BY <1>1, <1>2, <2>2
  <2>4. CASE DetachParked(l.tab, Front(frames), {})
    <3> HIDE DEF l
    <3> QED
      BY <1>0, <2>2, <2>3, <2>4, Parks
  <2>5. CASE ~DetachParked(l.tab, Front(frames), {})
    <3>1. /\ l.tab \in pinned /\ lot' = Append(lot, l.tab) /\ closing' = closing \ {l.tab}
          /\ frames' = Front(frames)
          /\ UNCHANGED << open, pages, pinned, pageDialogs, winDialog >>
      BY <1>5, <2>5 DEF CloseParks
    <3> HIDE DEF l
    <3>2. l.tab \in Pinnable
      BY <1>0, <3>1 DEF ViewOK
    <3> QED
      BY <1>0, <2>3, <3>1, <3>2, ParksPinned
  <2> QED
    BY <2>4, <2>5
<1>6. CASE UndoShows
  <2>1. /\ frames # << >> /\ l.op = "undo" /\ AddTab(l.tab) /\ frames' = Front(frames)
        /\ UNCHANGED << open, pinned, closing, pageDialogs, winDialog, lot >>
    BY <1>6 DEF UndoShows, On
  <2>2. /\ l.tab \in Tabs /\ StackOK(frames') /\ Len(frames) \in Undoes(frames, l.tab)
        /\ \A t : Undoes(frames', t) = Undoes(frames, t) \ {Len(frames)}
        /\ Faces(frames') \subseteq Shown
    <3>1. l \in Frames
      BY <1>1, <2>1
    <3>2. l.tab \in Tabs
      BY <2>1, <3>1 DEF Frames
    <3> QED
      BY <1>1, <2>1, <3>2 DEF Undoes
  <2>3. ASSUME NEW t, t # l.tab PROVE Undoes(frames', t) = Undoes(frames, t)
    <3>1. Len(frames) \notin Undoes(frames, t)
      BY <1>1, <2>1, <2>3 DEF Undoes
    <3> QED
      BY <2>2, <3>1
  <2> DEFINE u == l.tab
  <2> HIDE DEF l, u
  <2>4. ASSUME u \notin Pinnable PROVE u \notin Parked /\ Undoes(frames', u) = {}
    <3>1. Apart(u)
      BY <1>0, <2>2, <2>4 DEF Whereabouts, u
    <3> QED
      BY <2>2, <3>1 DEF Apart, u
  <2> QED
    BY <1>0, <2>1, <2>2, <2>3, <2>4, Enters DEF u
<1>7. CASE WinCloseKeeps
  <2> DEFINE f == Looked(l, {l.tab})
  <2>1. /\ frames # << >> /\ l.op = "winclose" /\ frames' = Append(Front(frames), f)
        /\ UNCHANGED << open, pages, pinned, closing, pageDialogs, winDialog, lot >>
    BY <1>7 DEF WinCloseKeeps, On
  <2>2. l \in Frames
    BY <1>1, <2>1
  <2>3. f \in Frames /\ f.op = "look"
    BY <2>1, <2>2 DEF Looked, Frames
  <2> HIDE DEF f
  <2>4. /\ StackOK(frames') /\ Faces(frames') \subseteq Shown
        /\ \A t \in Tabs : Undoes(frames', t) = Undoes(frames, t)
    BY <1>0, <2>1, <2>3, LoopsOn DEF ViewOK
  <2> QED
    BY <1>0, <2>1, <2>4, Rests DEF ViewOK
<1>8. CASE WinCloseCloses
  <2> DEFINE f     == Looked(l, {})
             emits == l.live /\ l.tab \notin closing
             g     == Poll("close", l.tab)
             stack == Append(Front(frames), f)
  <2>1. /\ frames # << >> /\ l.op = "winclose"
        /\ closing' = (IF emits THEN closing \cup {l.tab} ELSE closing)
        /\ frames' = stack \o (IF emits THEN << g >> ELSE << >>)
        /\ UNCHANGED << open, pages, pinned, pageDialogs, winDialog, lot >>
    BY <1>8 DEF WinCloseCloses, On
  <2>2. l \in Frames
    BY <1>1, <2>1
  <2>3. f \in Frames /\ f.op = "look" /\ l.tab \in Tabs
    BY <2>1, <2>2 DEF Looked, Frames
  <2>4. process[l.tab] \in BOOLEAN
    BY <2>3 DEF WindowInv, IInv, TypeOK
  <2>5. g \in Frames /\ g.op = "close"
    BY <2>3, <2>4 DEF Poll, Frames
  <2> HIDE DEF f, g
  <2>6. /\ StackOK(stack) /\ Len(stack) + 1 <= MaxFrames
        /\ \A t : Undoes(stack, t) = Undoes(frames, t)
        /\ Faces(stack) \subseteq Shown
    <3>1. MaxFrames \in Nat
      BY WindowAssumption
    <3> QED
      BY <1>0, <2>1, <2>3, <3>1, LoopsOn DEF ViewOK
  <2> HIDE DEF stack
  <2>7. CASE ~emits
    <3>1. frames' = stack
      BY <2>1, <2>6, <2>7, ConcatEmptySeq DEF StackOK
    <3> QED
      BY <1>0, <2>1, <2>6, <2>7, <3>1, Rests DEF ViewOK
  <2>8. CASE emits
    <3>1. frames' = Append(stack, g)
      BY <2>1, <2>5, <2>6, <2>8, AppendIsConcat DEF StackOK
    <3>2. /\ StackOK(frames') /\ Faces(frames') \subseteq Shown
          /\ \A t \in Tabs : Undoes(frames', t) = Undoes(frames, t)
      BY <2>5, <2>6, <3>1, StackPush
    <3>3. l.tab \in Shown
      BY <1>1, <2>1, <2>8
    <3> QED
      BY <1>0, <2>1, <2>8, <3>2, <3>3, Rests DEF ViewOK
  <2> QED
    BY <2>7, <2>8
<1>9. CASE LookAtPage
  <2> DEFINE f == IF l.left <= Len(pages)
                  THEN [op |-> "winclose", tab |-> pages[l.left], busy |-> process[pages[l.left]],
                        live |-> TRUE, left |-> l.left - 1, asked |-> l.asked]
                  ELSE [l EXCEPT !.left = @ - 1]
  <2>1. /\ frames # << >> /\ l.op = "look" /\ l.left > 0 /\ frames' = Append(Front(frames), f)
        /\ UNCHANGED << open, pages, pinned, closing, pageDialogs, winDialog, lot >>
    BY <1>9 DEF LookAtPage, Looking, On
  <2>2. l \in Frames
    BY <1>1, <2>1
  <2>3. l \in [op : {"look"}, left : Nat, asked : SUBSET Tabs]
    BY <2>1, <2>2 DEF Frames
  <2>4. l.left - 1 \in Nat
    BY <2>1, <2>3
  <2>5. f \in Frames /\ f.op \in {"winclose", "look"} /\ (f.op = "winclose" => f.tab \in Shown)
    <3>1. CASE l.left <= Len(pages)
      <4>1. l.left \in 1 .. Len(pages)
        BY <1>0, <2>1, <2>3, <3>1
      <4>2. pages[l.left] \in Tabs /\ pages[l.left] \in Shown
        BY <1>0, <4>1, SeqFacts DEF Shown
      <4>3. process[pages[l.left]] \in BOOLEAN
        BY <4>2 DEF WindowInv, IInv, TypeOK
      <4>4. f = [op |-> "winclose", tab |-> pages[l.left], busy |-> process[pages[l.left]],
                 live |-> TRUE, left |-> l.left - 1, asked |-> l.asked]
        BY <3>1
      <4>5. l.asked \in SUBSET Tabs
        BY <2>3
      <4> HIDE DEF f, l
      <4> QED
        BY <2>4, <4>2, <4>3, <4>4, <4>5 DEF Frames
    <3>2. CASE ~(l.left <= Len(pages))
      <4>1. f = [op |-> "look", left |-> l.left - 1, asked |-> l.asked]
        BY <2>3, <3>2
      <4> QED
        BY <2>3, <2>4, <4>1 DEF Frames
    <3> QED
      BY <3>1, <3>2
  <2> HIDE DEF f
  <2>6. /\ StackOK(frames') /\ Faces(frames') \subseteq Shown
        /\ \A t \in Tabs : Undoes(frames', t) = Undoes(frames, t)
    BY <1>0, <2>1, <2>5, LoopsOn DEF ViewOK
  <2> QED
    BY <1>0, <2>1, <2>6, Rests DEF ViewOK
<1>10. CASE LookIsOver
  <2>1. CASE Destroyed
    BY <2>1, Goes
  <2>2. CASE ~Destroyed
    <3>1. /\ frames # << >> /\ l.op = "look" /\ winDialog' = l.asked /\ frames' = Front(frames)
          /\ UNCHANGED << open, pages, pinned, closing, pageDialogs, lot >>
      BY <1>10, <2>2 DEF LookIsOver, Looking, On
    <3>2. l \in Frames
      BY <1>1, <3>1
    <3>3. l.asked \subseteq Tabs
      BY <3>1, <3>2 DEF Frames
    <3> HIDE DEF l
    <3>4. /\ StackOK(frames') /\ Faces(frames') \subseteq Shown
          /\ \A t \in Tabs : Undoes(frames', t) = Undoes(frames, t)
      BY <1>1, <1>2, <3>1
    <3> QED
      BY <1>0, <3>1, <3>3, <3>4, Rests DEF ViewOK
  <2> QED
    BY <2>1, <2>2
<1>11. CASE ParkTimeout
  <2>0. PICK h : h = Head(lot)
    OBVIOUS
  <2>1. /\ lot # << >> /\ lot' = Tail(lot) /\ ForceQuit({h})
        /\ UNCHANGED << open, pages, pinned, closing, pageDialogs, winDialog, frames >>
    BY <1>11, <2>0 DEF ParkTimeout
  <2>2. h \in Tabs
    BY <1>0, <2>0, <2>1, Popped, SeqFacts DEF ViewOK
  <2>3. ~Live(h)'
    BY <2>1, <2>2 DEF ForceQuit, Live
  <2> QED
    BY <1>0, <2>0, <2>1, <2>2, <2>3, Leaves DEF ViewOK
<1> QED
  BY <1>4, <1>5, <1>6, <1>7, <1>8, <1>9, <1>10, <1>11 DEF LoopStep, Resume

(* What the tabs' own callbacks do.                                        *)
LEMMA ProcessKeepsPlaces ==
    ASSUME WindowInv, Quiet, ProcessStep
    PROVE  Whereabouts'
<1>0. /\ Whereabouts /\ ViewOK /\ StackOK(frames)
  BY DEF WindowInv, Whereabouts
<1>1. PICK t \in Tabs : TabSpawned(t) \/ TabExits(t) \/ TabWaited(t) \/ TabKillTimer(t)
  BY DEF ProcessStep
<1>2. CASE WaitClosesPage(t)
  <2> DEFINE f == [op |-> "close", tab |-> t, busy |-> FALSE]
  <2>1. /\ t \in Shown /\ Len(frames) + 1 <= MaxFrames
        /\ closing' = closing \cup {t} /\ pinned' = pinned \ {t}
        /\ frames' = IF t \in closing THEN frames ELSE Append(frames, f)
        /\ pages' = (IF t \in pinned THEN InsertAt(Without(t), NPinned, t) ELSE pages)
        /\ UNCHANGED << open, pageDialogs, winDialog, lot >>
    BY <1>2 DEF WaitClosesPage, Unpinned, Room
  <2>2. f \in Frames /\ f.op = "close"
    BY DEF Frames
  <2> HIDE DEF f
  <2>3. /\ StackOK(frames') /\ Faces(frames') \subseteq Shown
        /\ \A u \in Tabs : Undoes(frames', u) = Undoes(frames, u)
    BY <1>0, <2>1, <2>2, StackPush DEF ViewOK
  <2>4. /\ pages' \in Seq(Tabs) /\ ToSet(pages') = Shown
        /\ \A u \in Tabs : Once(pages', u)
    <3>1. CASE t \in pinned
      <4>1. NPinned \in 1 .. Len(pages)
        BY <1>0, <3>1, PinnedFit
      <4> QED
        BY <1>0, <2>1, <3>1, <4>1, MoveEffect
    <3>2. CASE t \notin pinned
      BY <1>0, <2>1, <3>2 DEF ViewOK, Shown
    <3> QED
      BY <3>1, <3>2
  <2> QED
    BY <1>0, <2>1, <2>3, <2>4, Stays DEF ViewOK
<1>3. CASE ~WaitClosesPage(t)
  <2>1. UNCHANGED windowVars
    BY <1>1, <1>3 DEF TabSpawned, TabExits, TabWaited, TabKillTimer
  <2> QED
    BY <1>0, <2>1, Rests DEF windowVars, ViewOK
<1> QED
  BY <1>2, <1>3

(* The three parts of the invariant, step by step.                         *)
LEMMA WindowNext == WindowInv /\ [Next]_vars => WindowInv'
<1> SUFFICES ASSUME WindowInv, [Next]_vars PROVE WindowInv'
  OBVIOUS
<1>1. IInv /\ CloseInv /\ Whereabouts /\ StackOK(frames)
  BY DEF WindowInv, Whereabouts
<1>2. IInv'
  BY <1>1, TabsMove, NextInvariant
<1>3. Quiet
  BY <1>1, QuietSteps
<1>4. CASE UNCHANGED vars
  <2>1. CloseInv'
    BY <1>1, <1>4, CloseKept DEF vars, windowVars, CloseInv
  <2>2. Whereabouts'
    BY <1>1, <1>3, <1>4, Rests DEF vars, windowVars, Whereabouts, ViewOK
  <2> QED
    BY <1>2, <2>1, <2>2 DEF WindowInv
<1>5. CASE Next
  <2>1. CloseInv'
    BY <1>1, <1>5, UserKeepsClose, LoopKeepsClose, ProcessKeepsClose DEF Next
  <2>2. Whereabouts'
    BY <1>3, <1>5, UserKeepsPlaces, LoopKeepsPlaces, ProcessKeepsPlaces DEF Next
  <2> QED
    BY <1>2, <2>1, <2>2 DEF WindowInv
<1> QED
  BY <1>4, <1>5

(* Apart and placed, in numbers.                                           *)
LEMMA PlacesCounted == WindowInv => OnePlace
<1> SUFFICES ASSUME WindowInv PROVE OnePlace
  OBVIOUS
<1>0. ViewOK /\ Whereabouts
  BY DEF WindowInv, Whereabouts
<1> DEFINE InPages(t) == { k \in DOMAIN pages : pages[k] = t }
           InLot(t)   == { k \in DOMAIN lot : lot[k] = t }
           Some(S)    == IF S = {} THEN 0 ELSE 1
<1>1. /\ \A t : t \in Shown <=> InPages(t) # {}
      /\ \A t : t \in Parked <=> InLot(t) # {}
      /\ \A t : Awaiting("undo", t) = Undoes(frames, t)
  BY <1>0, SeqFacts DEF ViewOK, Shown, Parked, ToSet, Awaiting, Undoes
<1>2. ASSUME NEW S, \A j, k \in S : j = k PROVE Cardinality(S) = Some(S)
  <2>1. CASE S = {}
    BY <2>1, FS_EmptySet
  <2>2. CASE S # {}
    <3>1. PICK k : S = {k}
      BY <1>2, <2>2
    <3> QED
      BY <2>2, <3>1, FS_Singleton
  <2> QED
    BY <2>1, <2>2
<1>3. /\ \A t : IsFiniteSet(InPages(t)) /\ IsFiniteSet(InLot(t)) /\ IsFiniteSet(Undoes(frames, t))
  <2>1. ASSUME NEW S, NEW s \in Seq(S) PROVE IsFiniteSet(DOMAIN s)
    BY SeqFacts, FS_Interval
  <2>2. IsFiniteSet(DOMAIN pages) /\ IsFiniteSet(DOMAIN lot) /\ IsFiniteSet(DOMAIN frames)
    BY <1>0, <2>1 DEF ViewOK, Whereabouts, StackOK
  <2> QED
    BY <2>2, FS_Subset DEF Undoes
<1>4. ASSUME NEW t \in Tabs \ Pinnable PROVE Places(t) <= 1
  <2>1. Apart(t) /\ Once(pages, t)
    BY <1>0, <1>4 DEF Whereabouts, ViewOK
  <2>2. /\ Cardinality(InPages(t)) = Some(InPages(t))
        /\ Cardinality(InLot(t)) = Some(InLot(t))
        /\ Cardinality(Undoes(frames, t)) = Some(Undoes(frames, t))
    BY <1>2, <2>1 DEF Apart, Once
  <2>3. Places(t) = Some(InPages(t)) + Some(InLot(t)) + Some(Undoes(frames, t))
    BY <1>1, <2>2 DEF Places
  <2> QED
    BY <1>1, <2>1, <2>3 DEF Apart
<1>5. ASSUME OnePin, open, NEW t \in Tabs, Live(t) PROVE Places(t) >= 1
  <2>1. InPages(t) # {} \/ InLot(t) # {} \/ Undoes(frames, t) # {}
    BY <1>0, <1>1, <1>5 DEF Whereabouts, Placed
  <2>2. /\ Cardinality(InPages(t)) \in Nat /\ (InPages(t) # {} => Cardinality(InPages(t)) # 0)
        /\ Cardinality(InLot(t)) \in Nat /\ (InLot(t) # {} => Cardinality(InLot(t)) # 0)
        /\ Cardinality(Undoes(frames, t)) \in Nat
        /\ (Undoes(frames, t) # {} => Cardinality(Undoes(frames, t)) # 0)
    BY <1>3, FS_CardinalityType, FS_EmptySet
  <2>3. Places(t) = Cardinality(InPages(t)) + Cardinality(InLot(t)) + Cardinality(Undoes(frames, t))
    BY <1>1 DEF Places
  <2>4. \A i, j, k \in Nat : i # 0 \/ j # 0 \/ k # 0 => i + j + k >= 1
    OBVIOUS
  <2> HIDE DEF InPages, InLot
  <2>5. Cardinality(InPages(t)) # 0 \/ Cardinality(InLot(t)) # 0 \/ Cardinality(Undoes(frames, t)) # 0
    BY <2>1, <2>2
  <2> QED
    BY <2>2, <2>3, <2>4, <2>5
<1> QED
  BY <1>4, <1>5 DEF OnePlace, OnePin, Live

-----------------------------------------------------------------------------
(* Theorems *)

(* The inductive invariant: a page whose close-page signal awaits its      *)
(* finish has one suspended ptyxis_window_close_page_cb or one close       *)
(* dialog, and no other page has either.                                   *)
THEOREM CloseInvariant == Spec => []CloseInv
<1>1. CloseInv /\ [Next]_vars => CloseInv'
  <2> SUFFICES ASSUME CloseInv, [Next]_vars PROVE CloseInv'
    OBVIOUS
  <2>1. CASE UNCHANGED vars
    BY <2>1, CloseKept DEF vars, windowVars, CloseInv
  <2> QED
    BY <2>1, UserKeepsClose, LoopKeepsClose, ProcessKeepsClose DEF Next
<1> QED
  BY CloseInit, <1>1, PTL DEF Spec, Safety

(* No close of a page is left without a party, which would make its tab    *)
(* impossible to close, or has two, for any number of tabs and dialogs and *)
(* however deep the main loops that is_running starts are nested.          *)
THEOREM ClosesAlwaysAccountedFor == Spec => []ClosesAccountedFor
BY CloseInvariant, PartiesCounted, PTL

(* The inductive invariant of a window with its tabs: those of its tabs    *)
(* and of its closes, and where each tab is.                               *)
THEOREM WindowInvariant == Spec => []WindowInv
  BY WindowInit, WindowNext, PTL DEF Spec, Safety

(* A tab the user cannot pin is in the view, in the parking lot or in a    *)
(* suspended undo, and in one of them only, so the parking timer never     *)
(* ends a tab that is shown; and while the window is there no launched or  *)
(* running tab is lost between them, as long as no more than one tab can   *)
(* be pinned.                                                              *)
THEOREM NoTabLost == Spec => []OnePlace
  BY WindowInvariant, PlacesCounted, PTL

(* The pinned and the closing pages are in the view, and the nested main   *)
(* loops stay within their bound.                                          *)
THEOREM WindowTypeCorrect == Spec => []WindowTypeOK
<1>1. WindowInv => WindowTypeOK
  BY DEF WindowInv, IInv, Whereabouts, ViewOK, StackOK, WindowTypeOK
<1> QED
  BY <1>1, WindowInvariant, PTL

(* The refinement: whatever the window does to its tabs, through all its   *)
(* nested loops, is what TabProcess lets happen to them.                   *)
THEOREM TabsRefined == Spec => TabsBehave
<1>1. Init => TabInit
  BY DEF Init
<1>2. WindowInv /\ [Next]_vars => [TabNext]_tabVars
  BY TabsMove DEF WindowInv, Whereabouts
<1> QED
  BY <1>1, <1>2, WindowInvariant, PTL DEF Spec, Safety, TabsBehave, TabSafety

(* So the callbacks' assertions, the truth of self->process and the        *)
(* banners, established above for tabs on their own, hold for the tabs of  *)
(* any window, and their processes come one after the other.               *)
THEOREM TabsSoundInWindow ==
    Spec => /\ [](CallbacksMatchState /\ ProcessMatchesState /\ BannerTellsTheEnd)
            /\ ForcedStaysDown
            /\ PS!Safety
BY TabsRefined, AssertionsHold, ProcessNeverStale, BannerNeverSilent,
   ForcedNeverRestarts, SlotRefinement, PTL DEF TabsBehave

(* A shown tab is force-quit only when the user confirmed a dialog that    *)
(* asked about it, or closes it as the last one.                           *)
THEOREM AskedBeforeQuit == Spec => ShownTabsAskedFirst
<1> DEFINE Asked == \A t \in Tabs \ Pinnable :
                      t \in Shown /\ ~forcedExit[t] /\ forcedExit'[t] =>
                          \/ t \in pageDialogs \cup winDialog
                          \/ ~open' /\ Shown = {t} /\ On("close")
<1>1. WindowInv /\ [Next]_vars => [Asked]_vars
  <2> SUFFICES ASSUME WindowInv, Next, NEW t \in Tabs \ Pinnable,
                      t \in Shown, ~forcedExit[t], forcedExit'[t]
               PROVE  \/ t \in pageDialogs \cup winDialog
                      \/ ~open' /\ Shown = {t} /\ On("close")
    OBVIOUS
  <2>0. ViewOK /\ StackOK(frames) /\ IInv /\ Apart(t)
    BY DEF WindowInv, Whereabouts
  <2>1. t \notin Parked
    BY <2>0 DEF Apart
  <2>2. ASSUME NEW S, ForceQuit(S) PROVE t \in S
    BY <2>2 DEF ForceQuit
  <2>3. ASSUME forcedExit' = forcedExit PROVE FALSE
    BY <2>3
  <2>4. ASSUME NEW u, NEW stack, NEW quit, DetachParked(u, stack, quit), t \notin quit
        PROVE  ~open' /\ Shown = {t} /\ t = u
    <3>1. CASE Shown = {u}
      <4>1. Destroyed
        BY <2>4, <3>1 DEF DetachParked
      <4> QED
        BY <3>1, <4>1 DEF Destroyed
    <3>2. CASE Shown # {u}
      BY <2>2, <2>4, <3>2 DEF DetachParked
    <3> QED
      BY <3>1, <3>2
  <2>5. CASE UserStep
    <3>1. ASSUME NEW u \in Tabs, \/ NewTab(u) \/ MapTab(u) \/ Pin(u) \/ Unpin(u)
                                 \/ CloseTab(u) \/ DialogCancel(u) \/ RestartTab(u)
          PROVE  FALSE
      BY <2>3, <3>1 DEF NewTab, MapTab, Map, Pin, Unpin, CloseTab, DialogCancel,
                        RestartTab, RespawnAction, tabVars
    <3>2. ASSUME NEW u \in Tabs, DialogDiscard(u) PROVE t \in pageDialogs
      <4>1. u \in pageDialogs /\ DetachParked(u, frames, {u})
        BY <3>2 DEF DialogDiscard
      <4> QED
        BY <2>4, <4>1
    <3>3. CASE UndoClose \/ WinDialogCancel
      BY <2>3, <3>3 DEF UndoClose, WinDialogCancel, tabVars
    <3>4. CASE WinClose
      BY <2>1, <2>2, <2>3, <3>4 DEF WinClose, tabVars
    <3>5. CASE WinDialogDiscard
      BY <2>1, <2>2, <3>5 DEF WinDialogDiscard
    <3> QED
      BY <2>5, <3>1, <3>2, <3>3, <3>4, <3>5 DEF UserStep
  <2>6. CASE LoopStep
    <3>1. CASE CloseAsks \/ WinCloseKeeps \/ WinCloseCloses \/ LookAtPage
      BY <2>3, <3>1 DEF CloseAsks, WinCloseKeeps, WinCloseCloses, LookAtPage, tabVars
    <3>2. CASE CloseParks
      <4>1. On("close") /\ (DetachParked(Last(frames).tab, Front(frames), {}) \/ UNCHANGED tabVars)
        BY <3>2 DEF CloseParks
      <4> QED
        BY <2>3, <2>4, <4>1 DEF tabVars
    <3>3. CASE UndoShows
      BY <2>3, <3>3 DEF UndoShows, ShowBanner, tabVars
    <3>4. CASE LookIsOver
      BY <2>1, <2>2, <2>3, <3>4 DEF LookIsOver, tabVars
    <3>5. CASE ParkTimeout
      <4>1. lot # << >> /\ ForceQuit({Head(lot)})
        BY <3>5 DEF ParkTimeout
      <4>2. Head(lot) \in Parked
        BY <2>0, <4>1, Popped DEF ViewOK, Parked
      <4> QED
        BY <2>1, <2>2, <4>1, <4>2
    <3> QED
      BY <2>6, <3>1, <3>2, <3>3, <3>4, <3>5 DEF LoopStep, Resume
  <2>7. CASE ProcessStep
    <3>1. PICK u \in Tabs : TabSpawned(u) \/ TabExits(u) \/ TabWaited(u) \/ TabKillTimer(u)
      BY <2>7 DEF ProcessStep
    <3>2. SpawnDone(u) \/ SpawnFailed(u) \/ Exit(u) \/ WaitDone(u) \/ KillTimer(u)
      BY <3>1 DEF TabSpawned, TabExits, TabWaited, TabKillTimer, WaitClosesPage, WaitDone
    <3>3. forcedExit' = forcedExit
      BY <3>2 DEF SpawnDone, SpawnFailed, Exit, WaitDone, WaitForced, WaitSignaled,
                  WaitRestart, WaitClose, WaitShow, Reap, KillTimer
    <3> QED
      BY <2>3, <3>3
  <2> QED
    BY <2>5, <2>6, <2>7 DEF Next
<1> QED
  BY <1>1, WindowInvariant, PTL DEF Spec, Safety, ShownTabsAskedFirst
=============================================================================
