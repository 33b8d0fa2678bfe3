--------------------------- MODULE ProcessExitProofs ---------------------------
(***************************************************************************)
(* A wait returns the right status for any number of processes, outcomes   *)
(* and messages under way.  The argument is about what the connection      *)
(* keeps in order: the agent sends ProcessExited before it removes the     *)
(* process object, so an answer that there is no such object is always     *)
(* behind the message that says how the process ended.                     *)
(***************************************************************************)
EXTENDS ProcessExit, SequenceTheorems, TLAPS

Messages == Replies \cup Signals
Tells(m) == m.kind \in {"processExited", "ended"}

(* A process is spawned by one call, and its object is there for all that  *)
(* follows.                                                                *)
ExportedOnce ==
    /\ \A k \in DOMAIN toAgent :
          /\ object[toAgent[k].proc] = "absent" <=> toAgent[k].kind = "spawn"
          /\ phase[toAgent[k].proc] # "idle"
    /\ \A j, k \in DOMAIN toAgent :
          /\ toAgent[j].kind = "spawn" /\ toAgent[k].kind = "spawn"
          /\ toAgent[j].proc = toAgent[k].proc
          => j = k
    /\ \A k \in DOMAIN toUI : object[toUI[k].proc] # "absent"
    /\ \A p \in Procs :
          /\ phase[p] = "idle" => object[p] = "absent"
          /\ phase[p] \in {"proxying", "proxied", "waiting"} => object[p] # "absent"

(* What the UI is told, and what it keeps, is how the process ended.       *)
StatusKept ==
    /\ \A k \in DOMAIN toUI :
          Tells(toUI[k]) =>
             /\ status[toUI[k].proc] # "none"
             /\ toUI[k].status = status[toUI[k].proc]
    /\ \A p \in Procs : exited[p] \in {"none", status[p]}

(* The UI knows how p ended, or its wait is over.                          *)
Told(p)      == exited[p] # "none" \/ returns[p] > 0
IsExit(m, p) == m.kind = "processExited" /\ m.proc = p

(* Once the object is gone the UI is told, or about to be; and when an     *)
(* answer says that the object is gone, the UI is told before it.          *)
ToldFirst ==
    \A p \in Procs :
       /\ object[p] = "removed" => Told(p) \/ \E j \in DOMAIN toUI : IsExit(toUI[j], p)
       /\ \A k \in DOMAIN toUI :
             toUI[k].kind = "noObject" /\ toUI[k].proc = p =>
                Told(p) \/ \E j \in DOMAIN toUI : j < k /\ IsExit(toUI[j], p)

IInv == TypeOK /\ ExportedOnce /\ StatusKept /\ ToldFirst /\ RightStatus

-----------------------------------------------------------------------------
(* What the operations on the two queues do *)

LEMMA AboutProcs ==
    ASSUME TypeOK
    PROVE  /\ \A k \in DOMAIN toAgent : toAgent[k].proc \in Procs
           /\ \A k \in DOMAIN toUI : toUI[k].proc \in Procs
<1>1. toAgent \in Seq(Calls) /\ toUI \in Seq(Messages)
  BY DEF TypeOK, Messages
<1>2. ASSUME NEW k \in DOMAIN toAgent PROVE toAgent[k] \in Calls
  BY <1>1
<1>3. ASSUME NEW k \in DOMAIN toUI PROVE toUI[k] \in Messages
  BY <1>1
<1> QED
  BY <1>2, <1>3 DEF Calls, Messages, Replies, Signals

LEMMA HandlesEffect ==
    ASSUME TypeOK, NEW kind, NEW p, Handles(kind, p)
    PROVE  /\ toAgent' \in Seq(Calls)
           /\ 1 \in DOMAIN toAgent /\ toAgent[1].kind = kind /\ toAgent[1].proc = p
           /\ \A k \in DOMAIN toAgent' :
                 k \in Nat /\ k + 1 \in DOMAIN toAgent /\ k + 1 # 1 /\ toAgent'[k] = toAgent[k + 1]
<1>1. toAgent \in Seq(Calls) /\ toAgent # << >> /\ toAgent' = Tail(toAgent)
  BY DEF TypeOK, Handles
<1>2. Len(toAgent) \in Nat \ {0} /\ DOMAIN toAgent = 1 .. Len(toAgent)
  BY <1>1, EmptySeq, LenProperties
<1>3. toAgent[1].kind = kind /\ toAgent[1].proc = p
  BY <1>1 DEF Handles
<1>4. /\ toAgent' \in Seq(Calls)
      /\ Len(toAgent') = Len(toAgent) - 1
      /\ \A i \in 1 .. Len(toAgent') : toAgent'[i] = toAgent[i + 1]
  BY <1>1, HeadTailProperties
<1>5. DOMAIN toAgent' = 1 .. Len(toAgent) - 1
  BY <1>4, LenProperties
<1> QED
  BY <1>2, <1>3, <1>4, <1>5

LEMMA ReceivesEffect ==
    ASSUME TypeOK, NEW kind, NEW p, Receives(kind, p)
    PROVE  /\ toUI' \in Seq(Messages)
           /\ 1 \in DOMAIN toUI /\ toUI[1].kind = kind /\ toUI[1].proc = p
           /\ Head(toUI) = toUI[1]
           /\ \A k \in DOMAIN toUI' :
                 k \in Nat /\ k + 1 \in DOMAIN toUI /\ k + 1 # 1 /\ toUI'[k] = toUI[k + 1]
           /\ \A k \in DOMAIN toUI :
                 k = 1 \/ (k - 1 \in DOMAIN toUI' /\ toUI'[k - 1] = toUI[k])
<1>1. toUI \in Seq(Messages) /\ toUI # << >> /\ toUI' = Tail(toUI)
  BY DEF TypeOK, Receives, Messages
<1>2. Len(toUI) \in Nat \ {0} /\ DOMAIN toUI = 1 .. Len(toUI)
  BY <1>1, EmptySeq, LenProperties
<1>3. toUI[1].kind = kind /\ toUI[1].proc = p /\ Head(toUI) = toUI[1]
  BY <1>1 DEF Receives
<1>4. /\ toUI' \in Seq(Messages)
      /\ Len(toUI') = Len(toUI) - 1
      /\ \A i \in 1 .. Len(toUI') : toUI'[i] = toUI[i + 1]
  BY <1>1, HeadTailProperties
<1>5. DOMAIN toUI' = 1 .. Len(toUI) - 1
  BY <1>4, LenProperties
<1>6. ASSUME NEW k \in DOMAIN toUI, k # 1
      PROVE  k - 1 \in DOMAIN toUI' /\ toUI'[k - 1] = toUI[k]
  <2>1. k - 1 \in 1 .. Len(toUI) - 1 /\ (k - 1) + 1 = k
    BY <1>2, <1>6
  <2> QED
    BY <1>4, <1>5, <2>1
<1> QED
  BY <1>2, <1>3, <1>4, <1>5, <1>6

LEMMA CallEffect ==
    ASSUME TypeOK, NEW kind \in {"spawn", "getAll", "ping"}, NEW p \in Procs, Call(kind, p)
    PROVE  /\ toAgent' \in Seq(Calls)
           /\ \A k \in DOMAIN toAgent' :
                 \/ k \in DOMAIN toAgent /\ toAgent'[k] = toAgent[k]
                 \/ k = Len(toAgent) + 1 /\ toAgent'[k].kind = kind /\ toAgent'[k].proc = p
<1> DEFINE m == [kind |-> kind, proc |-> p]
<1>1. toAgent \in Seq(Calls) /\ m \in Calls /\ toAgent' = Append(toAgent, m)
  BY DEF TypeOK, Call, Calls
<1>2. m.kind = kind /\ m.proc = p
  OBVIOUS
<1> HIDE DEF m
<1>3. /\ toAgent' \in Seq(Calls)
      /\ Len(toAgent) \in Nat /\ Len(toAgent') = Len(toAgent) + 1
      /\ \A i \in 1 .. Len(toAgent) : toAgent'[i] = toAgent[i]
      /\ toAgent'[Len(toAgent) + 1] = m
  BY <1>1, AppendProperties, LenProperties
<1>4. DOMAIN toAgent' = 1 .. Len(toAgent) + 1 /\ DOMAIN toAgent = 1 .. Len(toAgent)
  BY <1>1, <1>3, LenProperties
<1> QED
  BY <1>2, <1>3, <1>4

LEMMA ReplyEffect ==
    ASSUME TypeOK, NEW m \in Messages, toUI' = Append(toUI, m)
    PROVE  /\ toUI' \in Seq(Messages)
           /\ \A k \in DOMAIN toUI : k \in DOMAIN toUI' /\ toUI'[k] = toUI[k]
           /\ \A k \in DOMAIN toUI' :
                 \/ k \in DOMAIN toUI /\ toUI'[k] = toUI[k]
                 \/ toUI'[k] = m /\ \A j \in DOMAIN toUI : j < k
<1>1. toUI \in Seq(Messages)
  BY DEF TypeOK, Messages
<1>2. /\ toUI' \in Seq(Messages)
      /\ Len(toUI) \in Nat /\ Len(toUI') = Len(toUI) + 1
      /\ \A i \in 1 .. Len(toUI) : toUI'[i] = toUI[i]
      /\ toUI'[Len(toUI) + 1] = m
  BY <1>1, AppendProperties, LenProperties
<1>3. DOMAIN toUI' = 1 .. Len(toUI) + 1 /\ DOMAIN toUI = 1 .. Len(toUI)
  BY <1>1, <1>2, LenProperties
<1> QED
  BY <1>2, <1>3

LEMMA AnnouncesEffect ==
    ASSUME TypeOK, NEW p \in Procs, AgentAnnounces(p)
    PROVE  /\ toUI' \in Seq(Messages)
           /\ \A k \in DOMAIN toUI : k \in DOMAIN toUI' /\ toUI'[k] = toUI[k]
           /\ \E k \in DOMAIN toUI' : IsExit(toUI'[k], p)
           /\ \A k \in DOMAIN toUI' :
                 \/ k \in DOMAIN toUI /\ toUI'[k] = toUI[k]
                 \/ Tells(toUI'[k]) /\ toUI'[k].proc = p /\ toUI'[k].status = status[p]
<1> DEFINE a == [kind |-> "processExited", proc |-> p, status |-> status[p]]
           b == [kind |-> "ended", proc |-> p, status |-> status[p]]
<1>1. status[p] \in Outcomes
  BY DEF TypeOK, Known, AgentAnnounces
<1>2. a \in Messages /\ b \in Messages
  BY <1>1 DEF Messages, Signals
<1>3. IsExit(a, p) /\ Tells(a) /\ Tells(b)
  BY DEF IsExit, Tells
<1>4. /\ a.proc = p /\ a.status = status[p]
      /\ b.proc = p /\ b.status = status[p]
  OBVIOUS
<1>5. toUI' = toUI \o << a, b >>
  BY DEF AgentAnnounces
<1> HIDE DEF a, b
<1>6. toUI \in Seq(Messages) /\ << a, b >> \in Seq(Messages)
  BY <1>2 DEF TypeOK, Messages
<1>7. Len(<< a, b >>) = 2 /\ << a, b >>[1] = a /\ << a, b >>[2] = b
  OBVIOUS
<1> DEFINE n == Len(toUI)
<1>8. /\ toUI' \in Seq(Messages)
      /\ Len(toUI') = n + 2
      /\ \A i \in 1 .. n + 2 : toUI'[i] = IF i <= n THEN toUI[i] ELSE << a, b >>[i - n]
  BY <1>5, <1>6, <1>7, ConcatProperties
<1>9. n \in Nat /\ DOMAIN toUI = 1 .. n /\ DOMAIN toUI' = 1 .. n + 2
  BY <1>6, <1>8, LenProperties
<1>10. toUI'[n + 1] = a /\ toUI'[n + 2] = b
  BY <1>7, <1>8, <1>9
<1>11. \A k \in DOMAIN toUI' : k \in DOMAIN toUI \/ k = n + 1 \/ k = n + 2
  BY <1>9
<1>12. n + 1 \in DOMAIN toUI'
  BY <1>9
<1>13. \A k \in DOMAIN toUI : k \in DOMAIN toUI' /\ toUI'[k] = toUI[k]
  BY <1>8, <1>9
<1> QED
  BY <1>3, <1>4, <1>8, <1>10, <1>11, <1>12, <1>13

(* Replies are not mistaken for news of an end.                            *)
LEMMA ReplyIsMessage ==
    ASSUME NEW kind \in {"spawned", "props", "pong", "noObject"}, NEW p \in Procs, Reply(kind, p)
    PROVE  \E m \in Messages :
              m.kind = kind /\ m.proc = p /\ ~Tells(m) /\ toUI' = Append(toUI, m)
<1> DEFINE m == [kind |-> kind, proc |-> p]
<1>1. m \in Messages
  BY DEF Messages, Replies
<1>2. m.kind = kind /\ m.proc = p /\ ~Tells(m) /\ toUI' = Append(toUI, m)
  BY DEF Reply, Tells
<1> QED
  BY <1>1, <1>2

-----------------------------------------------------------------------------
(* The invariant *)

LEMMA InvInit == Init => IInv
<1> SUFFICES ASSUME Init PROVE IInv
  OBVIOUS
<1> USE ExitAssumption DEF Init
<1>1. toAgent \in Seq(Calls) /\ toUI \in Seq(Replies \cup Signals)
  BY EmptySeq
<1>2. DOMAIN toAgent = {} /\ DOMAIN toUI = {}
  BY EmptySeq, LenProperties
<1>3. TypeOK
  BY <1>1 DEF TypeOK, Known
<1>4. ExportedOnce
  BY <1>2 DEF ExportedOnce
<1>5. StatusKept
  BY <1>2 DEF StatusKept
<1>6. ToldFirst
  BY <1>2 DEF ToldFirst
<1>7. ASSUME NEW p \in Procs PROVE returns[p] <= 1 /\ result[p] = "none"
  BY DEF RightStatus
<1> QED
  BY <1>3, <1>4, <1>5, <1>6, <1>7 DEF IInv, RightStatus

(* The type of every queue is the effects' part; the rest is by action.    *)
LEMMA TypeStep == TypeOK /\ [Next]_vars => TypeOK'
<1> SUFFICES ASSUME TypeOK, [Next]_vars PROVE TypeOK'
  OBVIOUS
<1> USE DEF Messages
<1>1. ASSUME NEW p \in Procs, Spawn(p) PROVE TypeOK'
  <2>1. toAgent' \in Seq(Calls)
    BY <1>1, CallEffect DEF Spawn
  <2> QED
    BY <1>1, <2>1 DEF Spawn, TypeOK
<1>2. ASSUME NEW p \in Procs, Ends(p) PROVE TypeOK'
  BY <1>2 DEF Ends, AgentUnchanged, TypeOK, Known
<1>3. ASSUME NEW p \in Procs, AgentSpawns(p) PROVE TypeOK'
  <2>1. toAgent' \in Seq(Calls) /\ toUI' \in Seq(Replies \cup Signals)
    BY <1>3, HandlesEffect, ReplyIsMessage, ReplyEffect DEF AgentSpawns
  <2> QED
    BY <1>3, <2>1 DEF AgentSpawns, AgentUnchanged, TypeOK
<1>4. ASSUME NEW p \in Procs, AgentListsProperties(p) PROVE TypeOK'
  <2>1. toAgent' \in Seq(Calls) /\ toUI' \in Seq(Replies \cup Signals)
    BY <1>4, HandlesEffect, ReplyIsMessage, ReplyEffect DEF AgentListsProperties
  <2> QED
    BY <1>4, <2>1 DEF AgentListsProperties, AgentUnchanged, TypeOK
<1>5. ASSUME NEW p \in Procs, AgentAnswersPing(p) PROVE TypeOK'
  <2>1. toAgent' \in Seq(Calls) /\ toUI' \in Seq(Replies \cup Signals)
    BY <1>5, HandlesEffect, ReplyIsMessage, ReplyEffect DEF AgentAnswersPing
  <2> QED
    BY <1>5, <2>1 DEF AgentAnswersPing, AgentUnchanged, TypeOK
<1>6. ASSUME NEW p \in Procs, AgentAnnounces(p) PROVE TypeOK'
  <2>1. toUI' \in Seq(Replies \cup Signals)
    BY <1>6, AnnouncesEffect
  <2> QED
    BY <1>6, <2>1 DEF AgentAnnounces, AgentUnchanged, TypeOK
<1>7. ASSUME NEW p \in Procs, GotSpawned(p) PROVE TypeOK'
  <2>1. toAgent' \in Seq(Calls) /\ toUI' \in Seq(Replies \cup Signals)
    BY <1>7, CallEffect, ReceivesEffect DEF GotSpawned
  <2> QED
    BY <1>7, <2>1 DEF GotSpawned, Receives, TypeOK
<1>8. ASSUME NEW p \in Procs, GotProxy(p) PROVE TypeOK'
  <2>1. toUI' \in Seq(Replies \cup Signals)
    BY <1>8, ReceivesEffect DEF GotProxy
  <2> QED
    BY <1>8, <2>1 DEF GotProxy, Receives, TypeOK
<1>9. ASSUME NEW p \in Procs, Wait(p) PROVE TypeOK'
  <2>1. toAgent' \in Seq(Calls)
    BY <1>9, CallEffect DEF Wait
  <2> QED
    BY <1>9, <2>1 DEF Wait, TypeOK
<1>10. ASSUME NEW p \in Procs, NEW v \in Known \cup {"unknown"}, Complete(p, v)
       PROVE  result' \in [Procs -> Known \cup {"unknown"}] /\ returns' \in [Procs -> Nat]
  <2>1. CASE returns[p] > 0
    BY <1>10, <2>1 DEF Complete, TypeOK
  <2>2. CASE ~(returns[p] > 0)
    <3>1. /\ result' = [result EXCEPT ![p] = v]
          /\ returns' = [returns EXCEPT ![p] = @ + 1]
      BY <1>10, <2>2 DEF Complete
    <3> QED
      BY <3>1 DEF TypeOK
  <2> QED
    BY <2>1, <2>2
<1>11. ASSUME NEW p \in Procs, Forget(p) PROVE exited' \in [Procs -> Known]
  BY <1>11 DEF Forget, TypeOK, Known
<1>12. ASSUME NEW p \in Procs, NEW kind \in {"processExited", "ended"}, Receives(kind, p)
       PROVE  Head(toUI).status \in Known \cup {"unknown"} /\ Head(toUI).status \in Known
  <2>1. Head(toUI) \in Messages /\ Head(toUI).kind = kind
    BY <1>12, HeadTailProperties DEF Receives, TypeOK
  <2>2. Head(toUI) \in Signals
    BY <2>1 DEF Replies
  <2> QED
    BY <2>2 DEF Signals, Known
<1>13. ASSUME NEW p \in Procs, PingFailed(p)
       PROVE  /\ result' \in [Procs -> Known \cup {"unknown"}]
              /\ returns' \in [Procs -> Nat]
              /\ exited' \in [Procs -> Known]
  <2>1. exited[p] \in Known /\ exited \in [Procs -> Known]
    BY DEF TypeOK
  <2> QED
    BY <1>10, <1>11, <1>13, <2>1 DEF PingFailed
<1>14. ASSUME NEW p \in Procs, GotProcessExited(p) PROVE TypeOK'
  <2>1. toUI' \in Seq(Replies \cup Signals)
    BY <1>14, ReceivesEffect DEF GotProcessExited
  <2>2. Head(toUI).status \in Known
    BY <1>12, <1>14 DEF GotProcessExited
  <2> QED
    BY <1>14, <2>1, <2>2 DEF GotProcessExited, Receives, TypeOK
<1>15. ASSUME NEW p \in Procs, GotEnded(p) PROVE TypeOK'
  <2>1. toUI' \in Seq(Replies \cup Signals)
    BY <1>15, ReceivesEffect DEF GotEnded
  <2>2. /\ result' \in [Procs -> Known \cup {"unknown"}]
        /\ returns' \in [Procs -> Nat]
        /\ exited' \in [Procs -> Known]
    BY <1>10, <1>11, <1>12, <1>15 DEF GotEnded, TypeOK
  <2> QED
    BY <1>15, <2>1, <2>2 DEF GotEnded, Receives, TypeOK
<1>16. ASSUME NEW p \in Procs, GotPong(p) PROVE TypeOK'
  <2>1. toUI' \in Seq(Replies \cup Signals)
    BY <1>16, ReceivesEffect DEF GotPong
  <2> QED
    BY <1>16, <2>1 DEF GotPong, Receives, TypeOK
<1>17. ASSUME NEW p \in Procs, GotNoObject(p) PROVE TypeOK'
  <2>1. toUI' \in Seq(Replies \cup Signals)
    BY <1>17, ReceivesEffect DEF GotNoObject
  <2> QED
    BY <1>13, <1>17, <2>1 DEF GotNoObject, Receives, TypeOK
<1>18. ASSUME NEW p \in Procs, PingTimesOut(p) PROVE TypeOK'
  BY <1>13, <1>18 DEF PingTimesOut, TypeOK
<1>19. CASE UNCHANGED vars
  BY <1>19 DEF vars, TypeOK
<1> QED
  BY <1>1, <1>2, <1>3, <1>4, <1>5, <1>6, <1>7, <1>8, <1>9, <1>14, <1>15, <1>16, <1>17, <1>18, <1>19
  DEF Next, Agent, UI

(* Receiving a message never makes a process start again.                  *)
LEMMA ExportedWhenReceived ==
    ASSUME IInv, NEW p \in Procs, NEW kind, Receives(kind, p), toAgent' = toAgent,
           phase' = phase \/ phase' = [phase EXCEPT ![p] = "proxied"]
    PROVE  ExportedOnce'
<1>1. TypeOK /\ ExportedOnce /\ object' = object
  BY DEF IInv, Receives
<1>2. object[p] # "absent"
  BY <1>1, ReceivesEffect DEF ExportedOnce
<1>3. \A q \in Procs : phase'[q] = phase[q] \/ (q = p /\ phase'[q] = "proxied")
  BY <1>1 DEF TypeOK
<1>4. \A k \in DOMAIN toAgent : toAgent[k].proc \in Procs
  BY <1>1, AboutProcs
<1>5. \A k \in DOMAIN toUI' : object'[toUI'[k].proc] # "absent"
  BY <1>1, ReceivesEffect DEF ExportedOnce
<1> QED
  BY <1>1, <1>2, <1>3, <1>4, <1>5 DEF ExportedOnce

LEMMA ExportedStep == IInv /\ [Next]_vars => ExportedOnce'
<1> SUFFICES ASSUME IInv, [Next]_vars PROVE ExportedOnce'
  OBVIOUS
<1>0. TypeOK /\ ExportedOnce
  BY DEF IInv
<1>t. /\ object \in [Procs -> {"absent", "exported", "removed"}]
      /\ phase \in [Procs -> {"idle", "spawning", "proxying", "proxied", "waiting"}]
      /\ toAgent \in Seq(Calls)
      /\ Len(toAgent) \in Nat
      /\ DOMAIN toAgent = 1 .. Len(toAgent)
  BY <1>0, LenProperties DEF TypeOK
<1>p. \A k \in DOMAIN toAgent : toAgent[k].proc \in Procs
  BY <1>0, AboutProcs
<1>u. ASSUME NEW p \in Procs, NEW m \in Messages, m.proc = p, toUI' = Append(toUI, m),
             object'[p] # "absent",
             \A q \in Procs : object[q] # "absent" => object'[q] # "absent"
      PROVE  \A k \in DOMAIN toUI' : object'[toUI'[k].proc] # "absent"
  <2>1. \A k \in DOMAIN toUI : toUI[k].proc \in Procs
    BY <1>0, AboutProcs
  <2> QED
    BY <1>0, <1>u, <2>1, ReplyEffect DEF ExportedOnce
<1>1. ASSUME NEW p \in Procs, Spawn(p) PROVE ExportedOnce'
  <2>1. /\ phase[p] = "idle" /\ object[p] = "absent" /\ object' = object /\ toUI' = toUI
        /\ phase' = [phase EXCEPT ![p] = "spawning"]
    BY <1>0, <1>1 DEF Spawn, ExportedOnce
  <2>2. \A k \in DOMAIN toAgent : toAgent[k].proc # p
    BY <1>0, <2>1 DEF ExportedOnce
  <2>3. \A k \in DOMAIN toAgent' :
           \/ k \in DOMAIN toAgent /\ toAgent'[k] = toAgent[k]
           \/ k = Len(toAgent) + 1 /\ toAgent'[k].kind = "spawn" /\ toAgent'[k].proc = p
    BY <1>0, <1>1, CallEffect DEF Spawn
  <2> QED
    BY <1>0, <1>t, <1>p, <2>1, <2>2, <2>3 DEF ExportedOnce
<1>2. ASSUME NEW p \in Procs, Ends(p) PROVE ExportedOnce'
  BY <1>0, <1>2 DEF Ends, AgentUnchanged, ExportedOnce
<1>3. ASSUME NEW p \in Procs, AgentSpawns(p) PROVE ExportedOnce'
  <2>1. /\ 1 \in DOMAIN toAgent /\ toAgent[1].kind = "spawn" /\ toAgent[1].proc = p
        /\ \A k \in DOMAIN toAgent' :
              k \in Nat /\ k + 1 \in DOMAIN toAgent /\ k + 1 # 1 /\ toAgent'[k] = toAgent[k + 1]
    BY <1>0, <1>3, HandlesEffect DEF AgentSpawns
  <2>2. object[p] = "absent" /\ phase[p] # "idle"
    BY <1>0, <2>1 DEF ExportedOnce
  <2>3. object' = [object EXCEPT ![p] = "exported"] /\ phase' = phase
    BY <1>3 DEF AgentSpawns, AgentUnchanged
  <2>4. \A k \in DOMAIN toAgent : k # 1 => toAgent[k].proc # p
    BY <1>0, <2>1, <2>2 DEF ExportedOnce
  <2>5. \A k \in DOMAIN toUI' : object'[toUI'[k].proc] # "absent"
    BY <1>t, <1>u, <1>3, <2>3, ReplyIsMessage DEF AgentSpawns
  <2>6. \A k \in DOMAIN toAgent' :
           /\ object'[toAgent'[k].proc] = "absent" <=> toAgent'[k].kind = "spawn"
           /\ phase'[toAgent'[k].proc] # "idle"
    BY <1>0, <1>t, <1>p, <2>1, <2>3, <2>4 DEF ExportedOnce
  <2>7. \A j, k \in DOMAIN toAgent' :
           toAgent'[j].kind = "spawn" /\ toAgent'[k].kind = "spawn" /\ toAgent'[j].proc = toAgent'[k].proc
              => j = k
    BY <1>0, <2>1 DEF ExportedOnce
  <2>8. \A q \in Procs :
           /\ phase'[q] = "idle" => object'[q] = "absent"
           /\ phase'[q] \in {"proxying", "proxied", "waiting"} => object'[q] # "absent"
    BY <1>0, <1>t, <2>2, <2>3 DEF ExportedOnce
  <2> QED
    BY <2>5, <2>6, <2>7, <2>8 DEF ExportedOnce
<1>4. ASSUME NEW p \in Procs, NEW kind, kind # "spawn", Handles(kind, p),
             NEW m \in Messages, m.proc = p, toUI' = Append(toUI, m),
             object' = object, phase' = phase
      PROVE  ExportedOnce'
  <2>1. /\ 1 \in DOMAIN toAgent /\ toAgent[1].kind = kind /\ toAgent[1].proc = p
        /\ \A k \in DOMAIN toAgent' :
              k \in Nat /\ k + 1 \in DOMAIN toAgent /\ k + 1 # 1 /\ toAgent'[k] = toAgent[k + 1]
    BY <1>0, <1>4, HandlesEffect
  <2>2. object[p] # "absent"
    BY <1>0, <1>4, <2>1 DEF ExportedOnce
  <2>3. \A k \in DOMAIN toUI' : object'[toUI'[k].proc] # "absent"
    BY <1>u, <1>4, <2>2
  <2>4. \A j, k \in DOMAIN toAgent' :
           toAgent'[j].kind = "spawn" /\ toAgent'[k].kind = "spawn" /\ toAgent'[j].proc = toAgent'[k].proc
              => j = k
    BY <1>0, <2>1 DEF ExportedOnce
  <2> QED
    BY <1>0, <1>4, <2>1, <2>3, <2>4 DEF ExportedOnce
<1>5. ASSUME NEW p \in Procs, AgentListsProperties(p) PROVE ExportedOnce'
  BY <1>4, <1>5, ReplyIsMessage DEF AgentListsProperties, AgentUnchanged
<1>6. ASSUME NEW p \in Procs, AgentAnswersPing(p) PROVE ExportedOnce'
  BY <1>4, <1>6, ReplyIsMessage DEF AgentAnswersPing, AgentUnchanged
<1>7. ASSUME NEW p \in Procs, AgentAnnounces(p) PROVE ExportedOnce'
  <2>1. /\ object[p] = "exported" /\ object' = [object EXCEPT ![p] = "removed"]
        /\ toAgent' = toAgent /\ phase' = phase
    BY <1>7 DEF AgentAnnounces, AgentUnchanged
  <2>2. \A q \in Procs : object'[q] = "absent" <=> object[q] = "absent"
    BY <1>t, <2>1
  <2>3. \A k \in DOMAIN toUI : toUI[k].proc \in Procs
    BY <1>0, AboutProcs
  <2>4. \A k \in DOMAIN toUI' : object'[toUI'[k].proc] # "absent"
    BY <1>0, <1>7, <2>1, <2>2, <2>3, AnnouncesEffect DEF ExportedOnce
  <2> QED
    BY <1>0, <1>p, <2>1, <2>2, <2>4 DEF ExportedOnce
<1>8. ASSUME NEW p \in Procs, GotSpawned(p) PROVE ExportedOnce'
  <2>1. /\ object' = object /\ phase' = [phase EXCEPT ![p] = "proxying"]
        /\ Receives("spawned", p) /\ Call("getAll", p)
    BY <1>8 DEF GotSpawned, Receives
  <2>2. object[p] # "absent"
    BY <1>0, <2>1, ReceivesEffect DEF ExportedOnce
  <2>3. \A k \in DOMAIN toUI' : object'[toUI'[k].proc] # "absent"
    BY <1>0, <2>1, ReceivesEffect DEF ExportedOnce
  <2>4. \A k \in DOMAIN toAgent' :
           \/ k \in DOMAIN toAgent /\ toAgent'[k] = toAgent[k]
           \/ toAgent'[k].kind = "getAll" /\ toAgent'[k].proc = p
    BY <1>0, <2>1, CallEffect
  <2> QED
    BY <1>0, <1>t, <1>p, <2>1, <2>2, <2>3, <2>4 DEF ExportedOnce
<1>9. ASSUME NEW p \in Procs, Wait(p) PROVE ExportedOnce'
  <2>1. /\ object' = object /\ toUI' = toUI /\ Call("ping", p)
        /\ phase[p] = "proxied" /\ phase' = [phase EXCEPT ![p] = "waiting"]
    BY <1>9 DEF Wait
  <2>2. object[p] # "absent"
    BY <1>0, <2>1 DEF ExportedOnce
  <2>3. \A k \in DOMAIN toAgent' :
           \/ k \in DOMAIN toAgent /\ toAgent'[k] = toAgent[k]
           \/ toAgent'[k].kind = "ping" /\ toAgent'[k].proc = p
    BY <1>0, <2>1, CallEffect
  <2> QED
    BY <1>0, <1>t, <1>p, <2>1, <2>2, <2>3 DEF ExportedOnce
<1>10. ASSUME NEW p \in Procs,
              GotProxy(p) \/ GotProcessExited(p) \/ GotEnded(p) \/ GotPong(p) \/ GotNoObject(p)
       PROVE  ExportedOnce'
  BY <1>10, ExportedWhenReceived DEF GotProxy, GotProcessExited, GotEnded, GotPong, GotNoObject
<1>11. ASSUME NEW p \in Procs, PingTimesOut(p) PROVE ExportedOnce'
  BY <1>0, <1>11 DEF PingTimesOut, ExportedOnce
<1>12. CASE UNCHANGED vars
  BY <1>0, <1>12 DEF vars, ExportedOnce
<1> QED
  BY <1>1, <1>2, <1>3, <1>5, <1>6, <1>7, <1>8, <1>9, <1>10, <1>11, <1>12 DEF Next, Agent, UI

(* How the UI's knowledge of one process changes.                          *)
LEMMA CompleteEffect ==
    ASSUME TypeOK, NEW p \in Procs, NEW v, Complete(p, v)
    PROVE  /\ returns'[p] > 0
           /\ \A q \in Procs : returns[q] > 0 => returns'[q] > 0
           /\ \A q \in Procs : returns[q] <= 1 => returns'[q] <= 1
           /\ \A q \in Procs : q # p \/ returns[q] > 0 => result'[q] = result[q]
           /\ result'[p] = result[p] \/ result'[p] = v
<1>1. returns \in [Procs -> Nat] /\ result \in [Procs -> Known \cup {"unknown"}]
  BY DEF TypeOK
<1>2. CASE returns[p] > 0
  BY <1>1, <1>2 DEF Complete
<1>3. CASE ~(returns[p] > 0)
  <2>1. /\ result' = [result EXCEPT ![p] = v]
        /\ returns' = [returns EXCEPT ![p] = @ + 1]
        /\ returns[p] = 0
    BY <1>1, <1>3 DEF Complete
  <2> QED
    BY <1>1, <2>1
<1> QED
  BY <1>2, <1>3

LEMMA ForgetEffect ==
    ASSUME TypeOK, NEW p \in Procs, Forget(p)
    PROVE  exited'[p] = "none" /\ \A q \in Procs : q # p => exited'[q] = exited[q]
BY DEF TypeOK, Forget

LEMMA PingFailedEffect ==
    ASSUME TypeOK, NEW p \in Procs, PingFailed(p)
    PROVE  /\ Complete(p, exited[p]) \/ (exited[p] = "none" /\ Complete(p, "unknown"))
           /\ exited'[p] = "none"
           /\ \A q \in Procs : q # p => exited'[q] = exited[q]
BY ForgetEffect DEF PingFailed

LEMMA GotExitEffect ==
    ASSUME IInv, NEW p \in Procs, GotProcessExited(p)
    PROVE  /\ exited'[p] = status[p] /\ status[p] # "none"
           /\ \A q \in Procs : q # p => exited'[q] = exited[q]
<1>1. TypeOK /\ StatusKept
  BY DEF IInv
<1>2. /\ 1 \in DOMAIN toUI /\ Head(toUI) = toUI[1]
      /\ toUI[1].kind = "processExited" /\ toUI[1].proc = p
  BY <1>1, ReceivesEffect DEF GotProcessExited
<1>3. toUI[1].status = status[p] /\ status[p] # "none"
  BY <1>1, <1>2 DEF StatusKept, Tells
<1> QED
  BY <1>1, <1>2, <1>3 DEF GotProcessExited, TypeOK

-----------------------------------------------------------------------------
LEMMA StatusStep == IInv /\ [Next]_vars => StatusKept'
<1> SUFFICES ASSUME IInv, [Next]_vars PROVE StatusKept'
  OBVIOUS
<1>0. TypeOK /\ StatusKept
  BY DEF IInv
<1>t. status \in [Procs -> Known]
  BY <1>0 DEF TypeOK
<1>p. \A k \in DOMAIN toUI : toUI[k].proc \in Procs
  BY <1>0, AboutProcs
<1>1. ASSUME NEW p \in Procs, NEW m \in Messages, ~Tells(m), toUI' = Append(toUI, m),
             status' = status, exited' = exited
      PROVE  StatusKept'
  BY <1>0, <1>1, ReplyEffect DEF StatusKept
<1>2. ASSUME NEW p \in Procs, Spawn(p) \/ Wait(p) PROVE StatusKept'
  BY <1>0, <1>2 DEF Spawn, Wait, StatusKept
<1>3. ASSUME NEW p \in Procs, Ends(p) PROVE StatusKept'
  <2>1. PICK v \in Outcomes : status' = [status EXCEPT ![p] = v]
    BY <1>3 DEF Ends
  <2>2. status[p] = "none" /\ toUI' = toUI /\ exited' = exited
    BY <1>3 DEF Ends, AgentUnchanged
  <2>3. \A q \in Procs : q # p => status'[q] = status[q]
    BY <1>t, <2>1
  <2>4. \A k \in DOMAIN toUI : Tells(toUI[k]) => toUI[k].proc # p
    BY <1>0, <2>2 DEF StatusKept
  <2> QED
    BY <1>0, <1>p, <2>2, <2>3, <2>4 DEF StatusKept
<1>4. ASSUME NEW p \in Procs, AgentSpawns(p) \/ AgentListsProperties(p) \/ AgentAnswersPing(p)
      PROVE  StatusKept'
  BY <1>1, <1>4, ReplyIsMessage DEF AgentSpawns, AgentListsProperties, AgentAnswersPing, AgentUnchanged
<1>5. ASSUME NEW p \in Procs, AgentAnnounces(p) PROVE StatusKept'
  <2>1. status' = status /\ exited' = exited /\ status[p] # "none"
    BY <1>5 DEF AgentAnnounces, AgentUnchanged
  <2> QED
    BY <1>0, <1>5, <2>1, AnnouncesEffect DEF StatusKept
<1>6. ASSUME NEW p \in Procs, NEW kind, Receives(kind, p),
             \A q \in Procs : exited'[q] \in {exited[q], "none", status[q]}
      PROVE  StatusKept'
  <2>1. status' = status
    BY <1>6 DEF Receives
  <2>2. \A k \in DOMAIN toUI' : k + 1 \in DOMAIN toUI /\ toUI'[k] = toUI[k + 1]
    BY <1>0, <1>6, ReceivesEffect
  <2> QED
    BY <1>0, <1>6, <2>1, <2>2 DEF StatusKept
<1>7. ASSUME NEW p \in Procs, GotSpawned(p) \/ GotProxy(p) \/ GotPong(p) PROVE StatusKept'
  BY <1>6, <1>7 DEF GotSpawned, GotProxy, GotPong
<1>8. ASSUME NEW p \in Procs, GotProcessExited(p) PROVE StatusKept'
  BY <1>6, <1>8, GotExitEffect DEF GotProcessExited
<1>9. ASSUME NEW p \in Procs, GotEnded(p) PROVE StatusKept'
  BY <1>0, <1>6, <1>9, ForgetEffect DEF GotEnded
<1>10. ASSUME NEW p \in Procs, GotNoObject(p) PROVE StatusKept'
  BY <1>0, <1>6, <1>10, PingFailedEffect DEF GotNoObject
<1>11. ASSUME NEW p \in Procs, PingTimesOut(p) PROVE StatusKept'
  <2>1. toUI' = toUI /\ status' = status /\ PingFailed(p)
    BY <1>11 DEF PingTimesOut
  <2> QED
    BY <1>0, <2>1, PingFailedEffect DEF StatusKept
<1>12. CASE UNCHANGED vars
  BY <1>0, <1>12 DEF vars, StatusKept
<1> QED
  BY <1>2, <1>3, <1>4, <1>5, <1>7, <1>8, <1>9, <1>10, <1>11, <1>12 DEF Next, Agent, UI

-----------------------------------------------------------------------------
(* What the UI was told it is not made to forget before its wait is over.  *)
LEMMA StaysTold ==
    ASSUME IInv, [Next]_vars, NEW q \in Procs, Told(q)
    PROVE  Told(q)'
<1>0. TypeOK
  BY DEF IInv
<1>1. ASSUME exited' = exited, returns' = returns PROVE Told(q)'
  BY <1>1 DEF Told
<1>2. ASSUME NEW p \in Procs, NEW v, Forget(p), Complete(p, v) PROVE Told(q)'
  BY <1>0, <1>2, CompleteEffect, ForgetEffect DEF Told
<1>3. ASSUME NEW p \in Procs, PingFailed(p) PROVE Told(q)'
  <2>1. PICK v : Complete(p, v)
    BY <1>0, <1>3, PingFailedEffect
  <2> QED
    BY <1>0, <1>3, <2>1, CompleteEffect, PingFailedEffect DEF Told
<1>4. ASSUME NEW p \in Procs, GotProcessExited(p) PROVE Told(q)'
  BY <1>4, GotExitEffect DEF GotProcessExited, Told
<1>5. ASSUME NEW p \in Procs, GotEnded(p) PROVE Told(q)'
  BY <1>1, <1>2, <1>5 DEF GotEnded
<1>6. ASSUME NEW p \in Procs, GotNoObject(p) \/ PingTimesOut(p) PROVE Told(q)'
  BY <1>3, <1>6 DEF GotNoObject, PingTimesOut
<1>7. ASSUME NEW p \in Procs,
             \/ Spawn(p) \/ Ends(p) \/ Agent(p) \/ GotSpawned(p) \/ GotProxy(p) \/ Wait(p) \/ GotPong(p)
      PROVE  Told(q)'
  BY <1>1, <1>7 DEF Spawn, Ends, Agent, AgentSpawns, AgentListsProperties, AgentAnswersPing,
                    AgentAnnounces, AgentUnchanged, GotSpawned, GotProxy, Wait, GotPong
<1>8. CASE UNCHANGED vars
  BY <1>1, <1>8 DEF vars
<1> QED
  BY <1>4, <1>5, <1>6, <1>7, <1>8 DEF Next, UI

LEMMA ToldStep == IInv /\ [Next]_vars => ToldFirst'
<1> SUFFICES ASSUME IInv, [Next]_vars PROVE ToldFirst'
  OBVIOUS
<1>0. TypeOK /\ ExportedOnce /\ ToldFirst
  BY DEF IInv
<1>t. object \in [Procs -> {"absent", "exported", "removed"}]
  BY <1>0 DEF TypeOK
<1>1. \A q \in Procs : Told(q) => Told(q)'
  BY StaysTold
(* Nothing is sent, received or removed.                                   *)
<1>2. ASSUME toUI' = toUI, object' = object PROVE ToldFirst'
  BY <1>0, <1>1, <1>2 DEF ToldFirst
(* A message is sent that is no news of a missing object, or is true.      *)
<1>3. ASSUME NEW m \in Messages, toUI' = Append(toUI, m),
             \A q \in Procs : object'[q] = "removed" => object[q] = "removed",
             m.kind = "noObject" => object[m.proc] = "removed"
      PROVE  ToldFirst'
  <2>1. /\ \A k \in DOMAIN toUI : k \in DOMAIN toUI' /\ toUI'[k] = toUI[k]
        /\ \A k \in DOMAIN toUI' :
              \/ k \in DOMAIN toUI /\ toUI'[k] = toUI[k]
              \/ toUI'[k] = m /\ \A j \in DOMAIN toUI : j < k
    BY <1>0, <1>3, ReplyEffect
  <2>2. ASSUME NEW q \in Procs, object'[q] = "removed"
        PROVE  Told(q)' \/ \E j \in DOMAIN toUI' : IsExit(toUI'[j], q)
    BY <1>0, <1>1, <1>3, <2>1, <2>2 DEF ToldFirst
  <2>3. ASSUME NEW q \in Procs, NEW k \in DOMAIN toUI', toUI'[k].kind = "noObject", toUI'[k].proc = q
        PROVE  Told(q)' \/ \E j \in DOMAIN toUI' : j < k /\ IsExit(toUI'[j], q)
    <3>1. CASE k \in DOMAIN toUI
      BY <1>0, <1>1, <2>1, <2>3, <3>1 DEF ToldFirst
    <3>2. CASE toUI'[k] = m /\ \A j \in DOMAIN toUI : j < k
      <4>1. Told(q) \/ \E j \in DOMAIN toUI : IsExit(toUI[j], q)
        BY <1>0, <1>3, <2>3, <3>2 DEF ToldFirst
      <4> QED
        BY <1>1, <2>1, <3>2, <4>1
    <3> QED
      BY <2>1, <3>1, <3>2
  <2> QED
    BY <2>2, <2>3 DEF ToldFirst
(* The first message is received.                                          *)
<1>4. ASSUME NEW p \in Procs, NEW kind, Receives(kind, p),
             kind = "processExited" => Told(p)'
      PROVE  ToldFirst'
  <2>1. /\ 1 \in DOMAIN toUI /\ toUI[1].kind = kind /\ toUI[1].proc = p
        /\ \A k \in DOMAIN toUI' :
              k \in Nat /\ k + 1 \in DOMAIN toUI /\ k + 1 # 1 /\ toUI'[k] = toUI[k + 1]
        /\ \A k \in DOMAIN toUI :
              k = 1 \/ (k - 1 \in DOMAIN toUI' /\ toUI'[k - 1] = toUI[k])
    BY <1>0, <1>4, ReceivesEffect
  <2>2. DOMAIN toUI \subseteq Nat
    BY <1>0, LenProperties DEF TypeOK
  <2>3. object' = object
    BY <1>4 DEF Receives
  <2>4. ASSUME NEW q \in Procs, NEW j \in DOMAIN toUI, IsExit(toUI[j], q), ~Told(q)'
        PROVE  j - 1 \in DOMAIN toUI' /\ IsExit(toUI'[j - 1], q)
    BY <1>4, <2>1, <2>4 DEF IsExit
  <2>5. ASSUME NEW q \in Procs, object'[q] = "removed", ~Told(q)'
        PROVE  \E j \in DOMAIN toUI' : IsExit(toUI'[j], q)
    BY <1>0, <1>1, <2>3, <2>4, <2>5 DEF ToldFirst
  <2>6. ASSUME NEW q \in Procs, NEW k \in DOMAIN toUI', toUI'[k].kind = "noObject", toUI'[k].proc = q,
               ~Told(q)'
        PROVE  \E j \in DOMAIN toUI' : j < k /\ IsExit(toUI'[j], q)
    <3>1. k \in Nat /\ k + 1 \in DOMAIN toUI /\ toUI'[k] = toUI[k + 1]
      BY <2>1
    <3>2. PICK j \in DOMAIN toUI : j < k + 1 /\ IsExit(toUI[j], q)
      BY <1>0, <1>1, <2>6, <3>1 DEF ToldFirst
    <3>3. j - 1 \in DOMAIN toUI' /\ IsExit(toUI'[j - 1], q)
      BY <2>4, <2>6, <3>2
    <3>4. j - 1 < k
      BY <2>2, <3>1, <3>2
    <3> QED
      BY <3>3, <3>4
  <2> QED
    BY <2>5, <2>6 DEF ToldFirst
<1>5. ASSUME NEW p \in Procs, Spawn(p) \/ Ends(p) \/ Wait(p) \/ PingTimesOut(p) PROVE ToldFirst'
  BY <1>2, <1>5 DEF Spawn, Ends, Wait, PingTimesOut
<1>6. ASSUME NEW p \in Procs, AgentSpawns(p) PROVE ToldFirst'
  <2>1. PICK m \in Messages : m.kind = "spawned" /\ toUI' = Append(toUI, m)
    BY <1>6, ReplyIsMessage DEF AgentSpawns
  <2>2. \A q \in Procs : object'[q] = "removed" => object[q] = "removed"
    BY <1>t, <1>6 DEF AgentSpawns
  <2> QED
    BY <1>3, <2>1, <2>2
<1>7. ASSUME NEW p \in Procs, AgentListsProperties(p) PROVE ToldFirst'
  <2>1. PICK m \in Messages : m.kind = "props" /\ toUI' = Append(toUI, m)
    BY <1>7, ReplyIsMessage DEF AgentListsProperties
  <2> QED
    BY <1>3, <1>7, <2>1 DEF AgentListsProperties
<1>8. ASSUME NEW p \in Procs, AgentAnswersPing(p) PROVE ToldFirst'
  <2>1. PICK m \in Messages :
           /\ m.kind = IF object[p] = "exported" THEN "pong" ELSE "noObject"
           /\ m.proc = p /\ toUI' = Append(toUI, m)
    BY <1>8, ReplyIsMessage DEF AgentAnswersPing
  <2>2. object[p] # "absent"
    BY <1>0, <1>8, HandlesEffect DEF AgentAnswersPing, ExportedOnce
  <2>3. m.kind = "noObject" => object[m.proc] = "removed"
    BY <1>t, <2>1, <2>2
  <2> QED
    BY <1>3, <1>8, <2>1, <2>3 DEF AgentAnswersPing
<1>9. ASSUME NEW p \in Procs, AgentAnnounces(p) PROVE ToldFirst'
  <2>1. /\ \A k \in DOMAIN toUI : k \in DOMAIN toUI' /\ toUI'[k] = toUI[k]
        /\ \E k \in DOMAIN toUI' : IsExit(toUI'[k], p)
        /\ \A k \in DOMAIN toUI' :
              \/ k \in DOMAIN toUI /\ toUI'[k] = toUI[k]
              \/ Tells(toUI'[k])
    BY <1>0, <1>9, AnnouncesEffect
  <2>2. \A q \in Procs : q # p => object'[q] = object[q]
    BY <1>t, <1>9 DEF AgentAnnounces
  <2>3. \A k \in DOMAIN toUI' : toUI'[k].kind = "noObject" => k \in DOMAIN toUI /\ toUI'[k] = toUI[k]
    BY <2>1 DEF Tells
  <2>4. ASSUME NEW q \in Procs, object'[q] = "removed"
        PROVE  Told(q)' \/ \E j \in DOMAIN toUI' : IsExit(toUI'[j], q)
    BY <1>0, <1>1, <2>1, <2>2, <2>4 DEF ToldFirst
  <2>5. ASSUME NEW q \in Procs, NEW k \in DOMAIN toUI', toUI'[k].kind = "noObject", toUI'[k].proc = q
        PROVE  Told(q)' \/ \E j \in DOMAIN toUI' : j < k /\ IsExit(toUI'[j], q)
    BY <1>0, <1>1, <2>1, <2>3, <2>5 DEF ToldFirst
  <2> QED
    BY <2>4, <2>5 DEF ToldFirst
<1>10. ASSUME NEW p \in Procs,
              GotSpawned(p) \/ GotProxy(p) \/ GotEnded(p) \/ GotPong(p) \/ GotNoObject(p)
       PROVE  ToldFirst'
  BY <1>4, <1>10 DEF GotSpawned, GotProxy, GotEnded, GotPong, GotNoObject
<1>11. ASSUME NEW p \in Procs, GotProcessExited(p) PROVE ToldFirst'
  <2>1. Told(p)'
    BY <1>11, GotExitEffect DEF Told
  <2> QED
    BY <1>4, <1>11, <2>1 DEF GotProcessExited
<1>12. CASE UNCHANGED vars
  BY <1>2, <1>12 DEF vars
<1> QED
  BY <1>5, <1>6, <1>7, <1>8, <1>9, <1>10, <1>11, <1>12 DEF Next, Agent, UI

-----------------------------------------------------------------------------
LEMMA ResultStep == IInv /\ [Next]_vars => RightStatus'
<1> SUFFICES ASSUME IInv, [Next]_vars PROVE RightStatus'
  OBVIOUS
<1>0. TypeOK /\ StatusKept /\ ToldFirst /\ RightStatus
  BY DEF IInv
<1>1. ASSUME result' = result, returns' = returns, status' = status PROVE RightStatus'
  BY <1>0, <1>1 DEF RightStatus
<1>2. ASSUME NEW p \in Procs, NEW v, Complete(p, v), status' = status,
             returns[p] > 0 \/ v \in {"none", status[p]} \/ (v = "unknown" /\ p \in SlowPings)
      PROVE  RightStatus'
  BY <1>0, <1>2, CompleteEffect DEF RightStatus
<1>3. ASSUME NEW p \in Procs, Ends(p) PROVE RightStatus'
  <2>1. status[p] = "none" /\ result' = result /\ returns' = returns
    BY <1>3 DEF Ends, AgentUnchanged
  <2>2. \A q \in Procs : q # p => status'[q] = status[q]
    BY <1>0, <1>3 DEF Ends, TypeOK
  <2> QED
    BY <1>0, <2>1, <2>2 DEF RightStatus
<1>4. ASSUME NEW p \in Procs, GotEnded(p) PROVE RightStatus'
  <2>1. status' = status
    BY <1>4 DEF GotEnded, Receives
  <2>2. Head(toUI).status = status[p]
    BY <1>0, <1>4, ReceivesEffect DEF GotEnded, StatusKept, Tells
  <2> QED
    BY <1>1, <1>2, <1>4, <2>1, <2>2 DEF GotEnded
(* No such object: the UI was told, and does not have to guess.            *)
<1>5. ASSUME NEW p \in Procs, GotNoObject(p) PROVE RightStatus'
  <2>1. status' = status /\ PingFailed(p)
    BY <1>5 DEF GotNoObject, Receives
  <2>2. 1 \in DOMAIN toUI /\ toUI[1].kind = "noObject" /\ toUI[1].proc = p
    BY <1>0, <1>5, ReceivesEffect DEF GotNoObject
  <2>3. \A j \in DOMAIN toUI : ~(j < 1)
    BY <1>0, LenProperties DEF TypeOK
  <2>4. Told(p)
    BY <1>0, <2>2, <2>3 DEF ToldFirst
  <2>5. exited[p] \in {"none", status[p]}
    BY <1>0 DEF StatusKept
  <2>6. CASE Complete(p, exited[p])
    BY <1>2, <2>1, <2>5, <2>6
  <2>7. CASE exited[p] = "none" /\ Complete(p, "unknown")
    BY <1>2, <2>1, <2>4, <2>7 DEF Told
  <2> QED
    BY <1>0, <2>1, <2>6, <2>7, PingFailedEffect
<1>6. ASSUME NEW p \in Procs, PingTimesOut(p) PROVE RightStatus'
  <2>1. p \in SlowPings /\ status' = status /\ PingFailed(p)
    BY <1>6 DEF PingTimesOut
  <2>2. exited[p] \in {"none", status[p]}
    BY <1>0 DEF StatusKept
  <2> QED
    BY <1>0, <1>2, <2>1, <2>2, PingFailedEffect
<1>7. ASSUME NEW p \in Procs,
             \/ Spawn(p) \/ Agent(p) \/ GotSpawned(p) \/ GotProxy(p) \/ Wait(p)
             \/ GotProcessExited(p) \/ GotPong(p)
      PROVE  RightStatus'
  BY <1>1, <1>7 DEF Spawn, Agent, AgentSpawns, AgentListsProperties, AgentAnswersPing,
                    AgentAnnounces, AgentUnchanged, Receives, GotSpawned, GotProxy, Wait,
                    GotProcessExited, GotPong
<1>8. CASE UNCHANGED vars
  BY <1>1, <1>8 DEF vars
<1> QED
  BY <1>3, <1>4, <1>5, <1>6, <1>7, <1>8 DEF Next, UI

-----------------------------------------------------------------------------
(* Theorems *)

(* However messages, ends and waits interleave: the types, one launch per  *)
(* process, what the UI keeps is how the process ended, and it is told of  *)
(* an end before it hears that the object is gone (the order in which      *)
(* ptyxis_process_impl_wait_cb does it).                                   *)
THEOREM ExitInvariant == Spec => []IInv
<1>1. IInv /\ [Next]_vars => IInv'
  BY TypeStep, ExportedStep, StatusStep, ToldStep, ResultStep DEF IInv
<1> QED
  BY InvInit, <1>1, PTL DEF Spec, Safety

(* A wait returns at most once, with the status of its own process, and    *)
(* with "unknown" only when the ping of that process may time out          *)
(* (ptyxis_application_wait_async and the callbacks that complete it).     *)
THEOREM WaitsAreRight == Spec => []RightStatus
<1>1. IInv => RightStatus
  BY DEF IInv
<1> QED
  BY ExitInvariant, <1>1, PTL
=============================================================================
