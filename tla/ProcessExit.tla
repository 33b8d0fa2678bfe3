----------------------------- MODULE ProcessExit -----------------------------
(***************************************************************************)
(* How the UI learns that a process of the agent ended                     *)
(* (src/src/ptyxis-application.c, ptyxis-client.c and                      *)
(* src/agent/ptyxis-process-impl.c).                                       *)
(*                                                                         *)
(* The two programs share one private D-Bus connection, which keeps the    *)
(* messages of each direction in order.  The agent announces an end twice, *)
(* with ProcessExited on the agent object and with Exited or Signaled on   *)
(* the process object, and then removes the process object.  The UI starts *)
(* listening to the process object only once it has a proxy for it, which  *)
(* takes a round trip; so it keeps what ProcessExited said in a table, and *)
(* pings the object to find out whether it came too late.                  *)
(***************************************************************************)
EXTENDS Naturals, Sequences

CONSTANTS
    Procs,      \* processes, each spawned at most once
    Outcomes,   \* how a process may end (a wait status)
    SlowPings   \* the processes whose ping may run into the call's time limit

ASSUME ExitAssumption ==
    /\ {"none", "unknown"} \cap Outcomes = {}
    /\ SlowPings \subseteq Procs

VARIABLES
    toAgent,    \* messages on their way to the agent, oldest first
    toUI,       \* messages on their way to the UI, oldest first
    object,     \* agent: the process object, before, while and after it is exported
    status,     \* how the subprocess ended, "none" while it has not
    phase,      \* UI: how far the launch and the wait for a process are
    exited,     \* UI: the table self->exited, "none" where it has no entry
    result,     \* UI: what the wait returned
    returns     \* UI: how often it returned

vars == << toAgent, toUI, object, status, phase, exited, result, returns >>

Calls   == [kind : {"spawn", "getAll", "ping"}, proc : Procs]
Replies == [kind : {"spawned", "props", "pong", "noObject"}, proc : Procs]
Signals == [kind : {"processExited", "ended"}, proc : Procs, status : Outcomes]
Known   == Outcomes \cup {"none"}

TypeOK ==
    /\ toAgent \in Seq(Calls)
    /\ toUI \in Seq(Replies \cup Signals)
    /\ object \in [Procs -> {"absent", "exported", "removed"}]
    /\ status \in [Procs -> Known]
    /\ phase \in [Procs -> {"idle", "spawning", "proxying", "proxied", "waiting"}]
    /\ exited \in [Procs -> Known]
    /\ result \in [Procs -> Known \cup {"unknown"}]
    /\ returns \in [Procs -> Nat]

Init ==
    /\ toAgent = << >> /\ toUI = << >>
    /\ object = [p \in Procs |-> "absent"]
    /\ status = [p \in Procs |-> "none"]
    /\ phase = [p \in Procs |-> "idle"]
    /\ exited = [p \in Procs |-> "none"]
    /\ result = [p \in Procs |-> "none"]
    /\ returns = [p \in Procs |-> 0]

Call(kind, p)  == toAgent' = Append(toAgent, [kind |-> kind, proc |-> p])
Reply(kind, p) == toUI' = Append(toUI, [kind |-> kind, proc |-> p])

-----------------------------------------------------------------------------
(* The agent *)

Handles(kind, p) ==
    /\ toAgent # << >> /\ Head(toAgent) = [kind |-> kind, proc |-> p]
    /\ toAgent' = Tail(toAgent)

AgentUnchanged == UNCHANGED << phase, exited, result, returns >>

(* A container's Spawn: the subprocess runs and ptyxis_process_impl_new    *)
(* exports its object before the reply.                                    *)
AgentSpawns(p) ==
    /\ Handles("spawn", p)
    /\ object' = [object EXCEPT ![p] = "exported"]
    /\ Reply("spawned", p)
    /\ AgentUnchanged /\ UNCHANGED status

(* GetAll, for the proxy: GDBusProxy takes an error for no properties.     *)
AgentListsProperties(p) ==
    /\ Handles("getAll", p)
    /\ Reply("props", p)
    /\ AgentUnchanged /\ UNCHANGED << object, status >>

(* HasForegroundProcess without a PTY.                                     *)
AgentAnswersPing(p) ==
    /\ Handles("ping", p)
    /\ Reply(IF object[p] = "exported" THEN "pong" ELSE "noObject", p)
    /\ AgentUnchanged /\ UNCHANGED << object, status >>

(* The subprocess ends (outside the agent).                                *)
Ends(p) ==
    /\ object[p] = "exported" /\ status[p] = "none"
    /\ \E s \in Outcomes : status' = [status EXCEPT ![p] = s]
    /\ UNCHANGED << toAgent, toUI, object >> /\ AgentUnchanged

(* ptyxis_process_impl_wait_cb.                                            *)
AgentAnnounces(p) ==
    /\ object[p] = "exported" /\ status[p] # "none"
    /\ toUI' = toUI \o << [kind |-> "processExited", proc |-> p, status |-> status[p]],
                          [kind |-> "ended", proc |-> p, status |-> status[p]] >>
    /\ object' = [object EXCEPT ![p] = "removed"]
    /\ UNCHANGED << toAgent, status >> /\ AgentUnchanged

-----------------------------------------------------------------------------
(* The UI *)

Receives(kind, p) ==
    /\ toUI # << >> /\ Head(toUI).kind = kind /\ Head(toUI).proc = p
    /\ toUI' = Tail(toUI)
    /\ UNCHANGED << object, status >>

(* wait_complete: only the first call returns the task.                    *)
Complete(p, value) ==
    IF returns[p] > 0
    THEN UNCHANGED << result, returns >>
    ELSE /\ result' = [result EXCEPT ![p] = value]
         /\ returns' = [returns EXCEPT ![p] = @ + 1]

Forget(p) == exited' = [exited EXCEPT ![p] = "none"]

Waiting(p) == phase[p] = "waiting"

Spawn(p) ==
    /\ phase[p] = "idle"
    /\ phase' = [phase EXCEPT ![p] = "spawning"]
    /\ Call("spawn", p)
    /\ UNCHANGED << toUI, object, status, exited, result, returns >>

(* ptyxis_client_spawn_cb: make a proxy for the object.                    *)
GotSpawned(p) ==
    /\ Receives("spawned", p)
    /\ phase' = [phase EXCEPT ![p] = "proxying"]
    /\ Call("getAll", p)
    /\ UNCHANGED << exited, result, returns >>

(* ptyxis_client_new_process_cb: the launch's tasks return one by one.     *)
GotProxy(p) ==
    /\ Receives("props", p)
    /\ phase' = [phase EXCEPT ![p] = "proxied"]
    /\ UNCHANGED << toAgent, exited, result, returns >>

(* ptyxis_application_wait_async.                                          *)
Wait(p) ==
    /\ phase[p] = "proxied"
    /\ phase' = [phase EXCEPT ![p] = "waiting"]
    /\ Call("ping", p)
    /\ UNCHANGED << toUI, object, status, exited, result, returns >>

(* Wrong: an exit that nobody waits for yet is forgotten.                 *)
ExitNotKept(p) ==
    /\ Receives("processExited", p)
    /\ UNCHANGED << toAgent, phase, exited, result, returns >>

(* ptyxis_application_client_process_exited_cb.                            *)
GotProcessExited(p) ==
    /\ Receives("processExited", p)
    /\ exited' = [exited EXCEPT ![p] = Head(toUI).status]
    /\ UNCHANGED << toAgent, phase, result, returns >>

(* ptyxis_application_process_exited_cb and _signaled_cb, once connected;  *)
(* before that nobody listens.                                             *)
GotEnded(p) ==
    /\ Receives("ended", p)
    /\ \/ Waiting(p) /\ Forget(p) /\ Complete(p, Head(toUI).status)
       \/ ~Waiting(p) /\ UNCHANGED << exited, result, returns >>
    /\ UNCHANGED << toAgent, phase >>

(* ptyxis_application_has_foreground_process_cb, with an answer.           *)
GotPong(p) ==
    /\ Receives("pong", p)
    /\ UNCHANGED << toAgent, phase, exited, result, returns >>

(* The same with an error: the table knows how the process ended, or else  *)
(* the wait fails.                                                         *)
PingFailed(p) ==
    \/ /\ exited[p] # "none"
       /\ Forget(p)
       /\ Complete(p, exited[p])
    \/ /\ exited[p] = "none"
       /\ UNCHANGED exited
       /\ Complete(p, "unknown")

(* Wrong: the error of a process that is gone is not looked at.           *)
NoObjectIgnored(p) ==
    /\ Receives("noObject", p)
    /\ UNCHANGED << toAgent, phase, exited, result, returns >>

GotNoObject(p) ==
    /\ Receives("noObject", p)
    /\ PingFailed(p)
    /\ UNCHANGED << toAgent, phase >>

(* The call's time limit passes before the agent gets to it.               *)
PingTimesOut(p) ==
    /\ p \in SlowPings /\ Waiting(p)
    /\ \E k \in DOMAIN toAgent : toAgent[k] = [kind |-> "ping", proc |-> p]
    /\ PingFailed(p)
    /\ UNCHANGED << toAgent, toUI, object, status, phase >>

-----------------------------------------------------------------------------
Agent(p) ==
    \/ AgentSpawns(p)
    \/ AgentListsProperties(p)
    \/ AgentAnswersPing(p)
    \/ AgentAnnounces(p)

UI(p) ==
    \/ GotSpawned(p)
    \/ GotProxy(p)
    \/ Wait(p)
    \/ GotProcessExited(p)
    \/ GotEnded(p)
    \/ GotPong(p)
    \/ GotNoObject(p)

Next == \E p \in Procs : Spawn(p) \/ Ends(p) \/ Agent(p) \/ UI(p) \/ PingTimesOut(p)

Safety == Init /\ [][Next]_vars

(* Both main loops run; nothing makes a process start or end, or a call    *)
(* time out.                                                               *)
Spec ==
    /\ Safety
    /\ \A p \in Procs : WF_vars(Agent(p)) /\ WF_vars(Wait(p))
    /\ WF_vars(\E p \in Procs : UI(p))

-----------------------------------------------------------------------------
(* Properties *)

(* A wait returns once (DID_COMPLETE), although the exit and the failed    *)
(* ping may both report an end, and says how the process ended, wherever   *)
(* in the launch it ended: never while it still runs, never another's      *)
(* status, and "unknown" only when a ping can time out.                    *)
RightStatus ==
    \A p \in Procs :
        /\ returns[p] <= 1
        /\ result[p] # "none" =>
            \/ result[p] = status[p]
            \/ result[p] = "unknown" /\ p \in SlowPings

(* A process that ended is reported to the tab that waits for it, however  *)
(* early it ended.                                                         *)
EndIsReported ==
    \A p \in Procs : status[p] # "none" ~> result[p] # "none"
=============================================================================
