----------------------------- MODULE TabProcess -----------------------------
(***************************************************************************)
(* The process of a terminal tab (src/src/ptyxis-tab.c): launched when the *)
(* tab is first mapped, waited for, restarted from the banner or by the    *)
(* profile's exit action, and force-quit with SIGHUP followed by a SIGKILL *)
(* timer.  Every action is one dispatch of the UI's main loop, so it runs  *)
(* without interruption; what interleaves is the order of the dispatches.  *)
(*                                                                         *)
(* The tab's window (ptyxis-window.c, modelled in WindowTabs) calls        *)
(* ForceQuit and ShowBanner and decides whether the Restart button can be  *)
(* pressed; here it may do so at any time.                                 *)
(***************************************************************************)
EXTENDS Naturals

CONSTANTS
    Tabs,           \* the tabs of the application
    CommandTabs,    \* those created to run one command (self->command)
    Launches,       \* whether a launch may succeed (TRUE) and may fail (FALSE)
    Outcomes        \* how a process may end by itself

(* "error" stands for a non-zero exit code and for a lost one.             *)
Statuses == {"ok", "error", "signal"}

ASSUME TabAssumption ==
    /\ CommandTabs \subseteq Tabs
    /\ Launches \subseteq BOOLEAN
    /\ Outcomes \subseteq Statuses

VARIABLES
    state,          \* self->state
    process,        \* self->process is not NULL
    forcedExit,     \* self->forced_exit
    label,          \* what the banner was last prepared to say
    bannerVisible,  \* the banner is visible
    child,          \* the operating system's process, as the agent knows it
    spawnCalls,     \* spawns this tab waits to hear of (ptyxis_tab_spawn_cb)
    waitCalls,      \* waits this tab waits to hear of (ptyxis_tab_wait_cb)
    killArmed       \* a force_quit_in_idle timer of this tab is pending

tabVars == << state, process, forcedExit, label, bannerVisible, child,
              spawnCalls, waitCalls, killArmed >>

States == {"INITIAL", "SPAWNING", "RUNNING", "EXITED", "FAILED"}

(* A doomed process was sent SIGKILL: it can only end by that signal.      *)
Children == {"none", "alive", "doomed"} \cup Statuses

(* "blank" is the banner of the template, "restart" names the exit or the  *)
(* signal and offers Restart, "failed" names a launch failure.             *)
Labels   == {"blank", "restart", "failed"}

TypeOK ==
    /\ state \in [Tabs -> States]
    /\ process \in [Tabs -> BOOLEAN]
    /\ forcedExit \in [Tabs -> BOOLEAN]
    /\ label \in [Tabs -> Labels]
    /\ bannerVisible \in [Tabs -> BOOLEAN]
    /\ child \in [Tabs -> Children]
    /\ spawnCalls \in [Tabs -> Nat]
    /\ waitCalls \in [Tabs -> Nat]
    /\ killArmed \in [Tabs -> BOOLEAN]

TabInit ==
    /\ state = [t \in Tabs |-> "INITIAL"]
    /\ process = [t \in Tabs |-> FALSE]
    /\ forcedExit = [t \in Tabs |-> FALSE]
    /\ label = [t \in Tabs |-> "blank"]
    /\ bannerVisible = [t \in Tabs |-> FALSE]
    /\ child = [t \in Tabs |-> "none"]
    /\ spawnCalls = [t \in Tabs |-> 0]
    /\ waitCalls = [t \in Tabs |-> 0]
    /\ killArmed = [t \in Tabs |-> FALSE]

-----------------------------------------------------------------------------
(* Launching *)

(* ptyxis_tab_respawn.  Without a container or a PTY the launch fails at   *)
(* once; otherwise a spawn is under way.  said is what the banner said     *)
(* when respawn was called, the banner being hidden either way first.      *)
Respawn(t, launched, said) ==
    IF launched
    THEN /\ state' = [state EXCEPT ![t] = "SPAWNING"]
         /\ label' = [label EXCEPT ![t] = said]
         /\ bannerVisible' = [bannerVisible EXCEPT ![t] = FALSE]
         /\ spawnCalls' = [spawnCalls EXCEPT ![t] = @ + 1]
    ELSE /\ state' = [state EXCEPT ![t] = "FAILED"]
         /\ label' = [label EXCEPT ![t] = "failed"]
         /\ bannerVisible' = [bannerVisible EXCEPT ![t] = TRUE]
         /\ UNCHANGED spawnCalls

(* Wrong variants such as this one, named for their mistake, are no part   *)
(* of the model: they show that a property notices it.                     *)
MapsAnew(t) ==
    /\ \E launched \in Launches : Respawn(t, launched, label[t])
    /\ UNCHANGED << process, forcedExit, child, waitCalls, killArmed >>

(* ptyxis_tab_map: only the first map launches.                            *)
Map(t) ==
    /\ state[t] = "INITIAL"
    /\ \E launched \in Launches : Respawn(t, launched, label[t])
    /\ UNCHANGED << process, forcedExit, child, waitCalls, killArmed >>

RespawnsAnyState(t) ==
    /\ bannerVisible[t] /\ label[t] = "restart"
    /\ \E launched \in Launches : Respawn(t, launched, label[t])
    /\ UNCHANGED << process, forcedExit, child, waitCalls, killArmed >>

(* ptyxis_tab_respawn_action, reached through the banner's Restart button. *)
RespawnAction(t) ==
    /\ bannerVisible[t] /\ label[t] = "restart"
    /\ state[t] \in {"FAILED", "EXITED"}
    /\ \E launched \in Launches : Respawn(t, launched, label[t])
    /\ UNCHANGED << process, forcedExit, child, waitCalls, killArmed >>

(* ptyxis_tab_spawn_cb with a process: the tab now waits for it.           *)
SpawnDone(t) ==
    /\ spawnCalls[t] > 0 /\ TRUE \in Launches
    /\ spawnCalls' = [spawnCalls EXCEPT ![t] = @ - 1]
    /\ state' = [state EXCEPT ![t] = "RUNNING"]
    /\ process' = [process EXCEPT ![t] = TRUE]
    /\ child' = [child EXCEPT ![t] = "alive"]
    /\ waitCalls' = [waitCalls EXCEPT ![t] = @ + 1]
    /\ UNCHANGED << forcedExit, label, bannerVisible, killArmed >>

FailsWithoutCall(t) ==
    /\ FALSE \in Launches
    /\ spawnCalls' = [spawnCalls EXCEPT ![t] = @ - 1]
    /\ state' = [state EXCEPT ![t] = "FAILED"]
    /\ label' = [label EXCEPT ![t] = "failed"]
    /\ bannerVisible' = [bannerVisible EXCEPT ![t] = TRUE]
    /\ UNCHANGED << process, forcedExit, child, waitCalls, killArmed >>

(* ptyxis_tab_spawn_cb with an error.                                      *)
SpawnFailed(t) ==
    /\ spawnCalls[t] > 0 /\ FALSE \in Launches
    /\ spawnCalls' = [spawnCalls EXCEPT ![t] = @ - 1]
    /\ state' = [state EXCEPT ![t] = "FAILED"]
    /\ label' = [label EXCEPT ![t] = "failed"]
    /\ bannerVisible' = [bannerVisible EXCEPT ![t] = TRUE]
    /\ UNCHANGED << process, forcedExit, child, waitCalls, killArmed >>

-----------------------------------------------------------------------------
(* Ending *)

(* The process ends by itself, by SIGHUP or by SIGKILL (outside the UI).   *)
Exit(t) ==
    /\ \/ child[t] = "alive" /\ \E s \in Outcomes : child' = [child EXCEPT ![t] = s]
       \/ child[t] = "doomed" /\ child' = [child EXCEPT ![t] = "signal"]
    /\ UNCHANGED << state, process, forcedExit, label, bannerVisible,
                    spawnCalls, waitCalls, killArmed >>

ReapKeepsProcess(t) ==
    /\ waitCalls[t] > 0
    /\ child[t] \in Statuses
    /\ waitCalls' = [waitCalls EXCEPT ![t] = @ - 1]
    /\ child' = [child EXCEPT ![t] = "none"]
    /\ UNCHANGED << process, forcedExit, killArmed >>

(* What every run of ptyxis_tab_wait_cb does first.                        *)
Reap(t) ==
    /\ waitCalls[t] > 0
    /\ child[t] \in Statuses
    /\ waitCalls' = [waitCalls EXCEPT ![t] = @ - 1]
    /\ process' = [process EXCEPT ![t] = FALSE]
    /\ child' = [child EXCEPT ![t] = "none"]
    /\ UNCHANGED << forcedExit, killArmed >>

EndState(t) == IF child[t] = "ok" THEN "EXITED" ELSE "FAILED"

EndPreparesOnlyShown(t, shown) ==
    /\ state' = [state EXCEPT ![t] = EndState(t)]
    /\ label' = IF shown THEN [label EXCEPT ![t] = "restart"] ELSE label
    /\ bannerVisible' = [bannerVisible EXCEPT ![t] = @ \/ shown]
    /\ UNCHANGED spawnCalls

(* Ends the tab's run with a banner that is prepared, and perhaps shown.   *)
EndWithBanner(t, shown) ==
    /\ state' = [state EXCEPT ![t] = EndState(t)]
    /\ label' = [label EXCEPT ![t] = "restart"]
    /\ bannerVisible' = [bannerVisible EXCEPT ![t] = @ \/ shown]
    /\ UNCHANGED spawnCalls

(* A force-quit tab returns from ptyxis_tab_wait_cb before the banner.     *)
WaitForced(t) ==
    /\ forcedExit[t]
    /\ Reap(t)
    /\ state' = [state EXCEPT ![t] = EndState(t)]
    /\ UNCHANGED << label, bannerVisible, spawnCalls >>

(* A process that died of a signal: no exit action, the banner is shown.   *)
WaitSignaled(t) ==
    /\ ~forcedExit[t] /\ child[t] = "signal"
    /\ Reap(t)
    /\ EndWithBanner(t, TRUE)

RestartsForced(t) ==
    /\ child[t] # "signal" /\ t \notin CommandTabs
    /\ Reap(t)
    /\ \E launched \in Launches : Respawn(t, launched, "restart")

(* exit_action is RESTART, which a tab with a command overrides.           *)
WaitRestart(t) ==
    /\ ~forcedExit[t] /\ child[t] # "signal" /\ t \notin CommandTabs
    /\ Reap(t)
    /\ \E launched \in Launches : Respawn(t, launched, "restart")

(* exit_action is CLOSE: the banner is prepared, the page is closed (which *)
(* is the window's part).                                                  *)
WaitClose(t) ==
    /\ ~forcedExit[t] /\ child[t] # "signal"
    /\ Reap(t)
    /\ EndWithBanner(t, FALSE)

(* exit_action is NONE, or the process ended so soon that it is taken for  *)
(* a failed launch; a command that ended well is never held back.          *)
WaitShow(t) ==
    /\ ~forcedExit[t] /\ child[t] # "signal"
    /\ t \notin CommandTabs \/ child[t] = "error"
    /\ Reap(t)
    /\ EndWithBanner(t, TRUE)

WaitDone(t) ==
    \/ WaitForced(t)
    \/ WaitSignaled(t)
    \/ WaitRestart(t)
    \/ WaitClose(t)
    \/ WaitShow(t)

-----------------------------------------------------------------------------
(* What the window does to its tabs *)

(* ptyxis_tab_force_quit of every tab of S.  SIGHUP may be handled or      *)
(* ignored, so its only sure effect is the flag and, where there is a      *)
(* process, the timer.                                                     *)
ForceQuit(S) ==
    /\ forcedExit' = [t \in Tabs |-> forcedExit[t] \/ t \in S]
    /\ killArmed' = [t \in Tabs |-> killArmed[t] \/ (t \in S /\ process[t])]
    /\ UNCHANGED << state, process, label, bannerVisible, child,
                    spawnCalls, waitCalls >>

TimerSparesProcess(t) ==
    /\ killArmed[t]
    /\ killArmed' = [killArmed EXCEPT ![t] = FALSE]
    /\ UNCHANGED << state, process, forcedExit, label, bannerVisible, child,
                    spawnCalls, waitCalls >>

(* ptyxis_tab_force_quit_in_idle: the timer sends SIGKILL to the process   *)
(* the tab has now, if it has one.                                         *)
KillTimer(t) ==
    /\ killArmed[t]
    /\ killArmed' = [killArmed EXCEPT ![t] = FALSE]
    /\ child' = IF process[t] /\ child[t] = "alive"
                THEN [child EXCEPT ![t] = "doomed"] ELSE child
    /\ UNCHANGED << state, process, forcedExit, label, bannerVisible,
                    spawnCalls, waitCalls >>

(* ptyxis_tab_show_banner, called when a close is undone.                  *)
ShowBanner(t) ==
    /\ bannerVisible' = [bannerVisible EXCEPT ![t] = TRUE]
    /\ UNCHANGED << state, process, forcedExit, label, child,
                    spawnCalls, waitCalls, killArmed >>

-----------------------------------------------------------------------------
TabStep(t) ==
    \/ Map(t)
    \/ RespawnAction(t)
    \/ SpawnDone(t)
    \/ SpawnFailed(t)
    \/ Exit(t)
    \/ WaitDone(t)
    \/ KillTimer(t)
    \/ ShowBanner(t)

TabNext ==
    \/ \E t \in Tabs : TabStep(t)
    \/ \E S \in SUBSET Tabs : ForceQuit(S)

(* The agent answers a spawn and reports an exit, GLib dispatches a timer  *)
(* that is due, and the kernel ends a process that was sent SIGKILL.       *)
(* Nothing makes a process end by itself, a tab map or a user press.       *)
TabFairness ==
    \A t \in Tabs :
        /\ WF_tabVars(SpawnDone(t) \/ SpawnFailed(t))
        /\ WF_tabVars(WaitDone(t))
        /\ WF_tabVars(KillTimer(t))
        /\ WF_tabVars(child[t] = "doomed" /\ Exit(t))

TabSafety == TabInit /\ [][TabNext]_tabVars

TabSpec == TabSafety /\ TabFairness

-----------------------------------------------------------------------------
(* Properties *)

(* The spawn and wait callbacks assert the state they find: a spawn is     *)
(* outstanding exactly while the tab is SPAWNING and a wait exactly while  *)
(* it is RUNNING, one of each, so no order of map, restart, exit and       *)
(* force-quit trips the assertions of spawn_cb, wait_cb and respawn.       *)
CallbacksMatchState ==
    \A t \in Tabs :
        /\ spawnCalls[t] = IF state[t] = "SPAWNING" THEN 1 ELSE 0
        /\ waitCalls[t] = IF state[t] = "RUNNING" THEN 1 ELSE 0

(* self->process, which force_quit and is_running test for "is there a     *)
(* process", is set exactly while the tab is RUNNING and there is one that *)
(* nobody collected yet: it is never stale, and no process goes unwatched. *)
ProcessMatchesState ==
    \A t \in Tabs :
        /\ process[t] <=> state[t] = "RUNNING"
        /\ process[t] <=> child[t] # "none"

(* A tab that ended without being force-quit has a banner that says why,   *)
(* and a failed launch is never left without a visible banner: neither a   *)
(* restart, automatic or asked for, nor a race with an exit hides it.      *)
BannerTellsTheEnd ==
    \A t \in Tabs :
        state[t] \in {"EXITED", "FAILED"} /\ ~forcedExit[t] =>
            /\ label[t] # "blank"
            /\ label[t] = "failed" => bannerVisible[t]

(* Once a tab was force-quit, the end of its process neither restarts it,  *)
(* whatever the profile's exit action, nor raises a banner on it.          *)
ForcedStaysDown ==
    [][\A t \in Tabs :
          forcedExit[t] /\ waitCalls[t] > 0 /\ waitCalls'[t] # waitCalls[t] =>
              /\ state'[t] \in {"EXITED", "FAILED"}
              /\ bannerVisible'[t] = bannerVisible[t]]_tabVars

(* A tab whose SIGKILL timer was armed does not stay RUNNING: the timer    *)
(* kills, or comes too late for, the process it was armed for.             *)
KillTimerReaps ==
    \A t \in Tabs : killArmed[t] ~> state[t] # "RUNNING"

(* The slot of a tab, told from what it waits for and from the process     *)
(* itself, not from self->state.                                           *)
Slot(t) ==
    IF spawnCalls[t] > 0 THEN "starting"
    ELSE IF child[t] = "none" THEN "idle"
    ELSE IF child[t] \in {"alive", "doomed"} THEN "live"
    ELSE "zombie"

PS == INSTANCE ProcessSlot WITH slot <- [t \in Tabs |-> Slot(t)]

(* A tab runs at most one process and collects each one before the next    *)
(* launch; a launch is always answered and an end always collected.        *)
ImplementsProcessSlot == PS!Spec
=============================================================================
