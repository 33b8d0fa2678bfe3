-------------------------------- MODULE Launch --------------------------------
(***************************************************************************)
(* How a tab's process is launched: the chain of calls that the UI makes   *)
(* (ptyxis_application_spawn_async, ptyxis_client_spawn_async) and what    *)
(* the agent's containers do with them (ptyxis-session-container.c,        *)
(* ptyxis-podman-container.c, ptyxis-distrobox-container.c).               *)
(*                                                                         *)
(* The tab gets a terminal, and the UI asks for the preferred shell, looks *)
(* for it in the container, and asks the container to spawn.  A podman     *)
(* container is started by the first call that needs it; calls of several  *)
(* tabs meet there.                                                        *)
(***************************************************************************)
EXTENDS Naturals, FiniteSets

CONSTANTS
    Tabs,
    InSandbox,      \* what the program's own sandbox has installed: SUBSET Shells
    Containers,
    Kind,           \* Containers -> {"session", "podman", "toolbox", "distrobox"}
    Installed,      \* what its processes find there: Containers -> SUBSET Shells
    AtFirst,        \* what a container may be at first: Containers -> SUBSET {"stopped", "running"}
    Profiles,       \* what a tab may ask for (see Profile)
    MayUse,         \* bound: the containers a tab is launched in (Tabs -> SUBSET Containers)
    MaxLaunches,    \* bound: launches of a tab (Tabs -> Nat)
    MaxTimeouts     \* bound: questions that the UI gives up (a D-Bus call ends after 25 s)

Kinds  == {"session", "podman", "toolbox", "distrobox"}

(* The user's own shell, /bin/sh when that is none that runs, and what is  *)
(* looked for when nothing is known.                                       *)
Shells == {"preferred", "sh", "bash"}

(* A tab's directory may have come from another container: it exists in    *)
(* the agent's sandbox and on the host, or in one of them only, or nowhere.*)
Directories == {"both", "sandbox", "host", "gone"}
OnHost      == {"both", "host"}

(* A command of the tab's own, or the profile's (which may not parse), or  *)
(* none; a login shell; which directory is kept, and where that is.        *)
Profile == [command : {"own", "custom", "broken", "none"}, login : BOOLEAN,
            preserve : {"never", "safe", "always"}, dir : Directories \cup {"unknown"}]

ASSUME LaunchAssumption ==
    /\ InSandbox \subseteq Shells
    /\ Kind \in [Containers -> Kinds]
    /\ Installed \in [Containers -> SUBSET Shells]
    /\ AtFirst \in [Containers -> SUBSET {"stopped", "running"}]
    /\ \E c \in Containers : Kind[c] = "session"
    /\ Profiles \subseteq Profile
    /\ MayUse \in [Tabs -> SUBSET Containers]
    /\ MaxLaunches \in [Tabs -> Nat] /\ MaxTimeouts \in Nat

VARIABLES
    step,       \* UI: how far the launch of a tab is
    nth,        \* UI: which launch of the tab it is
    where,      \* UI: its container
    sandboxed,  \* agent: it runs in that sandbox, and the session's processes on the host
    calls,      \* D-Bus calls to containers that are not over
    hasStarted, \* agent: has_started of a podman container
    pod,        \* podman: the state of a container
    starter,    \* podman: the call that runs "podman start", << >> if none ever did
    processes,  \* the processes made
    timeouts

(* What the UI changes and what happens to containers.  Neither moves the  *)
(* agent: ptyxis_application_startup puts it in the sandbox or not.        *)
uiVars    == << step, nth, where, sandboxed >>
podVars   == << hasStarted, pod, starter, sandboxed >>
vars == << uiVars, calls, podVars, processes, timeouts >>

Steps == {"idle", "shell", "find", "spawn", "proxy", "running", "failed"}

(* A call to the agent or a container.  at says how far that is with it.   *)
Calls ==
    [tab : Tabs, nth : Nat, op : {"shell", "find", "spawn"}, on : Containers,
     program : Shells \cup {"own", "custom", "fallback"}, login : BOOLEAN,
     dir : Directories \cup {"none"},
     at : {"sent", "starting", "ready", "refused", "running", "answered"},
     found : BOOLEAN]

Processes ==
    [tab : Tabs, nth : Nat, on : Containers, program : Shells \cup {"own", "custom", "fallback"},
     login : BOOLEAN, dir : Directories \cup {"home", "default"}, podAt : {"stopped", "starting", "running"}]

TypeOK ==
    /\ step \in [Tabs -> Steps]
    /\ nth \in [Tabs -> Nat] /\ \A t \in Tabs : nth[t] <= MaxLaunches[t]
    /\ where \in [Tabs -> Containers] /\ sandboxed \in BOOLEAN
    /\ calls \subseteq Calls
    /\ hasStarted \in [Containers -> BOOLEAN]
    /\ pod \in [Containers -> {"stopped", "starting", "running"}]
    /\ starter \in [Containers -> {<< >>} \cup (Tabs \X (Nat \ {0}))]
    /\ processes \subseteq Processes
    /\ timeouts \in 0 .. MaxTimeouts

Session == CHOOSE c \in Containers : Kind[c] = "session"

Init ==
    /\ step = [t \in Tabs |-> "idle"]
    /\ nth = [t \in Tabs |-> 0]
    /\ where = [t \in Tabs |-> Session]
    /\ sandboxed \in BOOLEAN
    /\ calls = {}
    /\ hasStarted = [c \in Containers |-> FALSE]
    /\ pod \in { p \in [Containers -> {"stopped", "running"}] :
                   \A c \in Containers : p[c] \in AtFirst[c] }
    /\ starter = [c \in Containers |-> << >>]
    /\ processes = {}
    /\ timeouts = 0

-----------------------------------------------------------------------------
(* The UI *)

Ours(k, t) == k.tab = t /\ k.nth = nth[t]

Call(t, op, c, program) ==
    [tab |-> t, nth |-> nth[t], op |-> op, on |-> c, program |-> program,
     login |-> FALSE, dir |-> "none", at |-> "sent", found |-> FALSE]

(* ptyxis_client_discover_shell_async; the answer is not known yet.        *)
ShellCall(t) == [Call(t, "shell", Session, "bash") EXCEPT !.nth = @ + 1]

(* ptyxis_tab_respawn, of a new tab or one that starts again, up to        *)
(* ptyxis_application_spawn_async.                                         *)
Launch(t, c) ==
    /\ step[t] \in {"idle", "running", "failed"} /\ nth[t] < MaxLaunches[t]
    /\ step' = [step EXCEPT ![t] = "shell"]
    /\ nth' = [nth EXCEPT ![t] = @ + 1]
    /\ where' = [where EXCEPT ![t] = c]
    /\ calls' = calls \cup {ShellCall(t)}
    /\ processes' = { p \in processes : p.tab # t }
    /\ UNCHANGED << podVars, timeouts >>

(* ... or not so far: there is no such container (it was removed), or the  *)
(* tab's first terminal gets no PTY from the agent.                        *)
LaunchFails(t) ==
    /\ step[t] \in {"idle", "running", "failed"}
    /\ step' = [step EXCEPT ![t] = "failed"]
    /\ processes' = { p \in processes : p.tab # t }
    /\ UNCHANGED << nth, where, calls, podVars, timeouts >>

FindCall(t, shell) == Call(t, "find", where[t], shell)

(* Wrong: looks for the shell in the session.                              *)
LooksForInSession(t, shell, others) ==
    /\ step' = [step EXCEPT ![t] = "find"]
    /\ calls' = others \cup {[FindCall(t, shell) EXCEPT !.on = Session]}

(* ptyxis_application_get_preferred_shell_cb looks for it in the container.*)
LooksFor(t, shell, others) ==
    /\ step' = [step EXCEPT ![t] = "find"]
    /\ calls' = others \cup {FindCall(t, shell)}

(* ptyxis_client_discover_shell_cb; no shell means bash.                   *)
GotShell(t) ==
    \E k \in calls :
       /\ step[t] = "shell" /\ Ours(k, t) /\ k.op = "shell" /\ k.at = "answered"
       /\ LooksFor(t, IF k.found THEN k.program ELSE "bash", calls \ {k})
       /\ UNCHANGED << nth, where, podVars, processes, timeouts >>

(* The host takes too long to say: an error as well.                       *)
GivesUpShell(t) ==
    \E k \in calls :
       /\ step[t] = "shell" /\ Ours(k, t) /\ k.op = "shell" /\ k.at = "running"
       /\ timeouts < MaxTimeouts /\ timeouts' = timeouts + 1
       /\ LooksFor(t, "bash", calls)
       /\ UNCHANGED << nth, where, podVars, processes >>

(* What ptyxis_client_spawn_async puts into the call.                      *)
Program(p, shell) == IF p.command = "none" THEN shell ELSE p.command

Login(p, program) == p.login /\ program \in Shells

KeepsDirectory(p, program) ==
    \/ p.command = "own"
    \/ p.preserve = "always"
    \/ p.preserve = "safe" /\ program \in Shells

Directory(p, program) ==
    IF KeepsDirectory(p, program) /\ p.dir # "unknown" THEN p.dir ELSE "none"

SpawnCall(t, p, shell) ==
    LET program == Program(p, shell) IN
    [Call(t, "spawn", where[t], program) EXCEPT !.login = Login(p, program), !.dir = Directory(p, program)]

(* ptyxis_client_create_pty_producer, asked while the UI waits, fails.     *)
NoProducer(t, others) ==
    /\ step' = [step EXCEPT ![t] = "failed"]
    /\ calls' = others

(* ptyxis_client_spawn_async; a command that does not parse ends the launch*)
(* as well.                                                                *)
ClientSpawn(t, shell, others) ==
    \/ NoProducer(t, others)
    \/ \E p \in Profiles :
          IF p.command = "broken"
          THEN step' = [step EXCEPT ![t] = "failed"] /\ calls' = others
          ELSE /\ step' = [step EXCEPT ![t] = "spawn"]
               /\ calls' = others \cup {SpawnCall(t, p, shell)}

(* ptyxis_application_check_shell_cb; every error means no shell.          *)
GotProgram(t) ==
    \E k \in calls :
       /\ step[t] = "find" /\ Ours(k, t) /\ k.op = "find" /\ k.at = "answered"
       /\ ClientSpawn(t, IF k.found THEN k.program ELSE "fallback", calls \ {k})
       /\ UNCHANGED << nth, where, podVars, processes, timeouts >>

(* The search takes too long: an error as well.                            *)
GivesUpSearch(t) ==
    \E k \in calls :
       /\ step[t] = "find" /\ Ours(k, t) /\ k.op = "find" /\ k.at \in {"starting", "running"}
       /\ timeouts < MaxTimeouts /\ timeouts' = timeouts + 1
       /\ ClientSpawn(t, "fallback", calls)
       /\ UNCHANGED << nth, where, podVars, processes >>

(* ... and its answer is dropped when it comes.                            *)
DropsLateAnswer ==
    \E k \in calls :
       /\ k.op \in {"shell", "find"} /\ k.at = "answered"
       /\ k.nth # nth[k.tab] \/ step[k.tab] # k.op
       /\ calls' = calls \ {k}
       /\ UNCHANGED << uiVars, podVars, processes, timeouts >>

(* ptyxis_client_spawn_cb: the process's object, or an error.              *)
GotSpawned(t) ==
    \E k \in calls :
       /\ step[t] = "spawn" /\ Ours(k, t) /\ k.op = "spawn" /\ k.at = "answered"
       /\ step' = [step EXCEPT ![t] = IF k.found THEN "proxy" ELSE "failed"]
       /\ calls' = calls \ {k}
       /\ UNCHANGED << nth, where, podVars, processes, timeouts >>

(* ptyxis_client_new_process_cb, which the tab's task passes on.           *)
GotProxy(t) ==
    /\ step[t] = "proxy"
    /\ step' = [step EXCEPT ![t] = "running"]
    /\ UNCHANGED << nth, where, calls, podVars, processes, timeouts >>

-----------------------------------------------------------------------------
(* The agent *)

Advance(k, at)      == calls' = (calls \ {k}) \cup {[k EXCEPT !.at = at]}
Answer(k, found)    == calls' = (calls \ {k}) \cup {[k EXCEPT !.at = "answered", !.found = found]}

(* The user's shell in the password database, when it can be run.          *)
AnswersPasswd(k) ==
    \E shell \in {"preferred", "sh"} :
       calls' = (calls \ {k}) \cup {[k EXCEPT !.at = "answered", !.found = TRUE, !.program = shell]}

(* ptyxis_agent_impl_handle_get_preferred_shell: in a sandbox the host's   *)
(* getent is run, if it can be.                                            *)
GetPreferredShell(k) ==
    /\ k.op = "shell" /\ k.at = "sent"
    /\ \/ sandboxed /\ Advance(k, "running")
       \/ AnswersPasswd(k)
    /\ UNCHANGED << uiVars, podVars, processes, timeouts >>

(* ptyxis_agent_impl_get_preferred_shell_cb: what getent printed, which    *)
(* may be nothing, or else the sandbox's own.                              *)
GetentDone(k) ==
    /\ k.op = "shell" /\ k.at = "running"
    /\ \/ calls' = (calls \ {k}) \cup {[k EXCEPT !.at = "answered", !.found = TRUE, !.program = "preferred"]}
       \/ Answer(k, FALSE)
       \/ AnswersPasswd(k)
    /\ UNCHANGED << uiVars, podVars, processes, timeouts >>

(* The session's container looks where the agent is, and its processes run *)
(* on the host (ptyxis_run_context_push_host).                             *)
LooksElsewhere(c) == sandboxed /\ Kind[c] = "session"
FoundInPath(c)    == IF LooksElsewhere(c) THEN InSandbox ELSE Installed[c]
AgentSees         == IF sandboxed THEN {"both", "sandbox"} ELSE OnHost

SessionDirectory(dir) == IF dir \in AgentSees THEN dir ELSE "home"

(* Where the process starts: ptyxis_agent_push_spawn and the run context   *)
(* handlers of the containers.                                             *)
StartDirectory(kind, dir) ==
    CASE kind = "podman"                      -> "default"
      [] kind = "session"                     -> SessionDirectory(dir)
      [] kind \notin {"podman", "session"}    -> IF dir = "none" THEN "home" ELSE dir

Process(k) ==
    [tab |-> k.tab, nth |-> k.nth, on |-> k.on, program |-> k.program, login |-> k.login,
     dir |-> StartDirectory(Kind[k.on], k.dir), podAt |-> pod[k.on]]

(* The session's own container answers at once.                            *)
SessionFinds(k) ==
    /\ k.op = "find" /\ k.at = "sent" /\ Kind[k.on] = "session"
    /\ Answer(k, k.program \in FoundInPath(k.on))
    /\ UNCHANGED << uiVars, podVars, processes, timeouts >>

SessionSpawns(k) ==
    /\ k.op = "spawn" /\ k.at = "sent" /\ Kind[k.on] = "session"
    /\ \/ Answer(k, TRUE) /\ processes' = processes \cup {Process(k)}
       \/ Answer(k, FALSE) /\ UNCHANGED processes
    /\ UNCHANGED << uiVars, podVars, timeouts >>

(* Runs "podman start", or fails to.                                       *)
StartsPod(k) ==
    \/ /\ Advance(k, "starting")
       /\ pod' = [pod EXCEPT ![k.on] = IF @ = "running" THEN @ ELSE "starting"]
       /\ starter' = [starter EXCEPT ![k.on] = << k.tab, k.nth >>]
    \/ /\ Advance(k, "refused")
       /\ UNCHANGED << pod, starter >>

(* Wrong: does not wait for the start.                                     *)
MaybeStartDoesNotWait(k) ==
    /\ hasStarted' = [hasStarted EXCEPT ![k.on] = TRUE]
    /\ Advance(k, "ready")
    /\ IF hasStarted[k.on] \/ Kind[k.on] = "distrobox"
       THEN UNCHANGED << pod, starter >>
       ELSE /\ pod' = [pod EXCEPT ![k.on] = IF @ = "running" THEN @ ELSE "starting"]
            /\ starter' = [starter EXCEPT ![k.on] = << k.tab, k.nth >>]
    /\ UNCHANGED << uiVars, processes, timeouts >>

(* maybe_start; its callback comes later.                                  *)
MaybeStart(k) ==
    /\ hasStarted' = [hasStarted EXCEPT ![k.on] = TRUE]
    /\ IF hasStarted[k.on] \/ Kind[k.on] = "distrobox"
       THEN Advance(k, "ready") /\ UNCHANGED << pod, starter >>
       ELSE StartsPod(k)
    /\ UNCHANGED << uiVars, processes, timeouts >>

(* ptyxis_podman_container_handle_find_program_in_path and _handle_spawn.  *)
PodmanAskedToFind(k)  == k.op = "find" /\ k.at = "sent" /\ Kind[k.on] # "session" /\ MaybeStart(k)
PodmanAskedToSpawn(k) == k.op = "spawn" /\ k.at = "sent" /\ Kind[k.on] # "session" /\ MaybeStart(k)

(* "podman start" ends, and maybe_start_cb with it.                        *)
PodStarted(k) ==
    /\ k.at = "starting"
    /\ \/ Advance(k, "ready") /\ pod' = [pod EXCEPT ![k.on] = "running"]
       \/ Advance(k, "refused") /\ pod' = [pod EXCEPT ![k.on] = IF @ = "starting" THEN "stopped" ELSE @]
    /\ UNCHANGED << uiVars, hasStarted, starter, processes, timeouts >>

(* Wrong: the error is not passed on.                                      *)
RefusedStays(k) ==
    /\ k.at = "refused"
    /\ UNCHANGED vars

(* Both callbacks of maybe_start pass its error on.                        *)
Refused(k) ==
    /\ k.at = "refused"
    /\ Answer(k, FALSE)
    /\ UNCHANGED << uiVars, podVars, processes, timeouts >>

(* ptyxis_podman_container_find_program_in_path_start_cb: "podman exec" of *)
(* "which", and ptyxis_podman_container_which_cb with what it printed.     *)
PodmanFinds(k) ==
    /\ k.op = "find" /\ k.at = "ready"
    /\ Advance(k, "running") \/ Answer(k, FALSE)
    /\ UNCHANGED << uiVars, podVars, processes, timeouts >>

PodmanFound(k) ==
    /\ k.op = "find" /\ k.at = "running"
    /\ Answer(k, pod[k.on] = "running" /\ k.program \in Installed[k.on])
    /\ UNCHANGED << uiVars, podVars, processes, timeouts >>

(* ptyxis_podman_container_handle_spawn_cb; distrobox starts its container.*)
PodmanSpawns(k) ==
    /\ k.op = "spawn" /\ k.at = "ready"
    /\ \/ /\ Answer(k, TRUE)
          /\ processes' = processes \cup {Process(k)}
          /\ pod' = [pod EXCEPT ![k.on] = IF Kind[k.on] = "distrobox" THEN "running" ELSE @]
       \/ Answer(k, FALSE) /\ UNCHANGED << processes, pod >>
    /\ UNCHANGED << uiVars, hasStarted, starter, timeouts >>

-----------------------------------------------------------------------------
UIStep(t) == GotShell(t) \/ GotProgram(t) \/ GotSpawned(t) \/ GotProxy(t)

AgentStep ==
    \E k \in calls : \/ GetPreferredShell(k) \/ SessionFinds(k) \/ SessionSpawns(k)
                     \/ PodmanAskedToFind(k) \/ PodmanAskedToSpawn(k)
                     \/ Refused(k) \/ PodmanFinds(k) \/ PodmanSpawns(k)

HostStep == \E k \in calls : GetentDone(k) \/ PodStarted(k) \/ PodmanFound(k)

Next ==
    \/ \E t \in Tabs : UIStep(t) \/ GivesUpShell(t) \/ GivesUpSearch(t) \/ LaunchFails(t)
                     \/ \E c \in MayUse[t] : Launch(t, c)
    \/ DropsLateAnswer
    \/ AgentStep \/ HostStep

Safety == Init /\ [][Next]_vars

(* Both main loops go on and what the agent runs on the host ends.  Nobody *)
(* has to launch or give up anything.                                      *)
Spec ==
    /\ Safety
    /\ \A t \in Tabs : WF_vars(UIStep(t))
    /\ WF_vars(AgentStep) /\ WF_vars(HostStep)

-----------------------------------------------------------------------------
(* Properties *)

(* The launch that starts a container does not run anything in it before   *)
(* the start is over, unless the UI lost patience with the search that     *)
(* started it.                                                             *)
FirstWaits ==
    \A p \in processes :
        starter[p.on] = << p.tab, p.nth >> /\ timeouts = 0 => p.podAt # "starting"

(* A shell that is run by its path was found in the very container it runs *)
(* in, and a process of the session starts in a directory that exists,     *)
(* wherever the tab's directory came from, however the questions and late  *)
(* answers of several launches meet.  The session of a sandboxed agent is  *)
(* left out: the agent does not look where its processes run.              *)
RunsWhatIsThere ==
    \A p \in processes :
        ~LooksElsewhere(p.on) =>
            /\ p.program \in Shells => p.program \in Installed[p.on]
            /\ Kind[p.on] = "session" => p.dir \in OnHost \cup {"home"}

(* Every launch ends: the tab runs or says that it failed.                 *)
LaunchEnds == \A t \in Tabs : step[t] \in {"shell", "find", "spawn", "proxy"} ~> step[t] \in {"running", "failed"}
=============================================================================
