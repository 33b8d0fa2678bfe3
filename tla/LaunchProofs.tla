---------------------------- MODULE LaunchProofs ----------------------------
(***************************************************************************)
(* Launches wait for the container they start, and run what is there, for  *)
(* any number of tabs, containers and launches, however they interleave.   *)
(***************************************************************************)
EXTENDS Launch, TLAPS

(* A container has a shell, or its search does not tell.                   *)
Has(c, program) == LooksElsewhere(c) \/ program \in Installed[c]

(* What a call may find when it goes on: its launch is not ahead of its    *)
(* tab, a search is made where the tab is launched and finds what is       *)
(* there, a spawn names a shell that was found, and whoever waits for      *)
(* "podman start" runs it.                                                 *)
CallOK(k) ==
    /\ 1 <= k.nth /\ k.nth <= nth[k.tab]
    /\ k.op # "spawn" => k.program \in Shells
    /\ k.op = "find" /\ k.nth = nth[k.tab] => k.on = where[k.tab]
    /\ k.op = "find" /\ k.at = "answered" /\ k.found => Has(k.on, k.program)
    /\ k.op = "spawn" /\ k.program \in Shells => Has(k.on, k.program)
    /\ k.at = "starting" => hasStarted[k.on] /\ starter[k.on] = << k.tab, k.nth >>

Starts(k, c) == k.on = c /\ k.at = "starting" /\ starter[c] = << k.tab, k.nth >>

(* A container that is starting was asked to by the first call, which      *)
(* waits for it.                                                           *)
PodOK(c) == pod[c] = "starting" => hasStarted[c] /\ \E k \in calls : Starts(k, c)

(* Unless a question is given up, a launch has one call at a time.         *)
OneCall == timeouts = 0 => \A k, l \in calls : k.tab = l.tab /\ k.nth = l.nth => k = l

ProcessOK(p) ==
    /\ p.podAt = "starting" => hasStarted[p.on]
    /\ starter[p.on] = << p.tab, p.nth >> /\ timeouts = 0 => p.podAt # "starting"
    /\ p.program \in Shells => Has(p.on, p.program)
    /\ Kind[p.on] = "session" /\ ~LooksElsewhere(p.on) => p.dir \in OnHost \cup {"home"}

LaunchInv ==
    /\ TypeOK
    /\ \A k \in calls : CallOK(k)
    /\ \A c \in Containers : PodOK(c)
    /\ OneCall
    /\ \A p \in processes : ProcessOK(p)

-----------------------------------------------------------------------------
(* Types *)

(* There is a session container.                                            *)
LEMMA SessionThere == Session \in Containers
BY LaunchAssumption DEF Session

(* What the UI sends is a call.                                             *)
LEMMA CallType ==
    ASSUME TypeOK, NEW t \in Tabs, NEW op \in {"shell", "find", "spawn"}, NEW c \in Containers,
           NEW program \in Shells \cup {"own", "custom", "fallback"}
    PROVE  Call(t, op, c, program) \in Calls
BY LaunchAssumption DEF Call, Calls, TypeOK

(* What a spawn makes is a process.                                         *)
LEMMA ProcessType ==
    ASSUME TypeOK, NEW k \in Calls
    PROVE  Process(k) \in Processes
<1>1. Kind[k.on] \in Kinds /\ pod[k.on] \in {"stopped", "starting", "running"}
  BY LaunchAssumption DEF Calls, TypeOK
<1>2. StartDirectory(Kind[k.on], k.dir) \in Directories \cup {"home", "default"}
  <2>1. k.dir \in Directories \cup {"none"}
    BY DEF Calls
  <2>2. SessionDirectory(k.dir) \in Directories \cup {"home"}
    BY <2>1 DEF SessionDirectory, AgentSees, OnHost, Directories
  <2> QED
    BY <1>1, <2>1, <2>2 DEF StartDirectory, Kinds
<1> QED
  BY <1>1, <1>2 DEF Process, Processes, Calls

(* The spawn that a UI asks for, and what may be in it.                    *)
LEMMA SpawnCallType ==
    ASSUME TypeOK, NEW t \in Tabs, NEW p \in Profiles, p.command # "broken",
           NEW shell \in Shells \cup {"fallback"}
    PROVE  /\ SpawnCall(t, p, shell) \in Calls
           /\ SpawnCall(t, p, shell).tab = t /\ SpawnCall(t, p, shell).nth = nth[t]
           /\ SpawnCall(t, p, shell).op = "spawn" /\ SpawnCall(t, p, shell).at = "sent"
           /\ SpawnCall(t, p, shell).on = where[t]
           /\ SpawnCall(t, p, shell).program \in Shells => SpawnCall(t, p, shell).program = shell
<1> DEFINE program == Program(p, shell)
           c == Call(t, "spawn", where[t], program)
<1>1. /\ p.command \in {"own", "custom", "none"} /\ p.login \in BOOLEAN
      /\ p.dir \in Directories \cup {"unknown"}
  BY LaunchAssumption DEF Profile
<1>2. /\ program \in Shells \cup {"own", "custom", "fallback"}
      /\ program \in Shells => program = shell
  BY <1>1 DEF Program, Shells
<1>3. where[t] \in Containers
  BY DEF TypeOK
<1>4. Login(p, program) \in BOOLEAN /\ Directory(p, program) \in Directories \cup {"none"}
  BY <1>1 DEF Login, Directory
<1> HIDE DEF program
<1>5. c \in Calls
  BY <1>2, <1>3, CallType
<1>6. SpawnCall(t, p, shell) = [c EXCEPT !.login = Login(p, program), !.dir = Directory(p, program)]
  BY DEF SpawnCall, program
<1>7. c.tab = t /\ c.nth = nth[t] /\ c.op = "spawn" /\ c.at = "sent" /\ c.on = where[t] /\ c.program = program
  BY DEF Call
<1> HIDE DEF c
<1> QED
  BY <1>2, <1>4, <1>5, <1>6, <1>7 DEF Calls

-----------------------------------------------------------------------------
(* What a step does to the calls *)

(* Calls end, and perhaps another is made, with none left of its launch    *)
(* unless one was given up; nothing happens to a container.                *)
LEMMA Asks ==
    ASSUME LaunchInv, UNCHANGED << nth, where, podVars, processes >>,
           timeouts' \in 0 .. MaxTimeouts, timeouts' = 0 => timeouts = 0,
           step' \in [Tabs -> Steps],
           NEW gone \in SUBSET calls, \A k \in gone : k.at # "starting",
           NEW new \in SUBSET Calls, calls' = (calls \ gone) \cup new,
           \A k \in new : k.at = "sent" /\ CallOK(k),
           timeouts' = 0 => \A k \in new, l \in calls' : k.tab = l.tab /\ k.nth = l.nth => k = l
    PROVE  LaunchInv'
<1>1. TypeOK'
  BY DEF LaunchInv, TypeOK, podVars
<1>2. \A k \in calls' : CallOK(k)'
  BY DEF LaunchInv, CallOK, podVars, Has, LooksElsewhere
<1>3. ASSUME NEW c \in Containers PROVE PodOK(c)'
  <2>1. PodOK(c)
    BY DEF LaunchInv
  <2>2. ASSUME NEW k \in calls, Starts(k, c) PROVE k \in calls' /\ Starts(k, c)'
    BY <2>2 DEF Starts, podVars
  <2> QED
    BY <2>1, <2>2 DEF PodOK, podVars
<1>4. OneCall'
  BY DEF LaunchInv, OneCall
<1>5. \A p \in processes' : ProcessOK(p)'
  BY DEF LaunchInv, ProcessOK, podVars, Has, LooksElsewhere
<1> QED
  BY <1>1, <1>2, <1>3, <1>4, <1>5 DEF LaunchInv

(* A call goes on, by itself.                                              *)
LEMMA GoesOn ==
    ASSUME LaunchInv, UNCHANGED << uiVars, timeouts >>,
           NEW k \in calls, NEW l \in Calls,
           l.tab = k.tab, l.nth = k.nth, l.op = k.op, l.on = k.on,
           calls' = (calls \ {k}) \cup {l}, CallOK(l)',
           pod' \in [Containers -> {"stopped", "starting", "running"}],
           starter' \in [Containers -> {<< >>} \cup (Tabs \X (Nat \ {0}))],
           hasStarted' \in [Containers -> BOOLEAN],
           \A c \in Containers : hasStarted[c] => hasStarted'[c] /\ starter'[c] = starter[c],
           \A c \in Containers : \/ starter'[c] = starter[c]
                                 \/ starter'[c] = << k.tab, k.nth >>,
           \A c \in Containers : pod'[c] = "starting" =>
              \/ c = k.on /\ hasStarted'[c] /\ Starts(l, c)'
              \/ pod[c] = "starting" /\ ~(c = k.on /\ k.at = "starting"),
           NEW q, q = Process(k),
           processes' = processes \/ (processes' = processes \cup {q} /\ ProcessOK(q)')
    PROVE  LaunchInv'
<1>0. k \in Calls /\ TypeOK /\ CallOK(k) /\ \A m \in calls : m \in Calls /\ CallOK(m)
  BY DEF LaunchInv, TypeOK
<1>1. /\ k.tab \in Tabs /\ k.nth \in Nat /\ k.on \in Containers
  BY <1>0 DEF Calls
<1>2. TypeOK'
  <2>1. processes' \subseteq Processes
    BY <1>0, ProcessType DEF TypeOK
  <2> QED
    BY <1>0, <2>1 DEF TypeOK, uiVars
<1>3. ASSUME NEW m \in calls' PROVE CallOK(m)'
  <2>1. CASE m = l
    BY <2>1
  <2>2. CASE m # l
    <3>1. CallOK(m) /\ m.on \in Containers
      BY <1>0, <2>2 DEF Calls
    <3> QED
      BY <3>1 DEF CallOK, uiVars, Has, LooksElsewhere
  <2> QED
    BY <2>1, <2>2
<1>4. ASSUME NEW c \in Containers PROVE PodOK(c)'
  <2>1. CASE c = k.on /\ hasStarted'[c] /\ Starts(l, c)'
    BY <2>1 DEF PodOK
  <2>2. CASE pod[c] = "starting" /\ ~(c = k.on /\ k.at = "starting")
    <3>1. PICK m \in calls : Starts(m, c) /\ hasStarted[c]
      BY <2>2 DEF LaunchInv, PodOK
    <3>2. m # k
      BY <2>2, <3>1 DEF Starts
    <3>3. m \in calls' /\ Starts(m, c)' /\ hasStarted'[c]
      BY <3>1, <3>2 DEF Starts
    <3> QED
      BY <3>3 DEF PodOK
  <2> QED
    BY <2>1, <2>2 DEF PodOK
<1>5. OneCall'
  BY DEF LaunchInv, OneCall
<1>6. ASSUME NEW p \in processes' PROVE ProcessOK(p)'
  <2>1. CASE p \in processes
    <3>1. ProcessOK(p) /\ p.on \in Containers
      BY <2>1 DEF LaunchInv, TypeOK, Processes
    <3>2. CASE hasStarted[p.on]
      <4>1. hasStarted'[p.on] /\ starter'[p.on] = starter[p.on]
        BY <3>1, <3>2
      <4> QED
        BY <3>1, <4>1 DEF ProcessOK, Has, LooksElsewhere, uiVars
    <3>3. CASE ~hasStarted[p.on]
      BY <3>1, <3>3 DEF ProcessOK, Has, LooksElsewhere, uiVars
    <3> QED
      BY <3>2, <3>3
  <2>2. CASE p \notin processes
    BY <2>2
  <2> QED
    BY <2>1, <2>2
<1> QED
  BY <1>2, <1>3, <1>4, <1>5, <1>6 DEF LaunchInv

(* ... and nothing happens to a container.                                 *)
LEMMA Simple ==
    ASSUME LaunchInv, UNCHANGED << uiVars, podVars, timeouts >>,
           NEW k \in calls, k.at # "starting",  NEW l \in Calls,
           l.tab = k.tab, l.nth = k.nth, l.op = k.op, l.on = k.on, l.at # "starting",
           calls' = (calls \ {k}) \cup {l}, CallOK(l),
           NEW q, q = Process(k),
           processes' = processes \/ (processes' = processes \cup {q} /\ ProcessOK(q))
    PROVE  LaunchInv'
<1>1. CallOK(l)'
  BY DEF CallOK, uiVars, podVars, Has, LooksElsewhere
<1>2. processes' = processes \/ (processes' = processes \cup {q} /\ ProcessOK(q)')
  BY DEF ProcessOK, podVars, Has, LooksElsewhere
<1>3. /\ pod' \in [Containers -> {"stopped", "starting", "running"}]
      /\ hasStarted' \in [Containers -> BOOLEAN]
      /\ starter' \in [Containers -> {<< >>} \cup (Tabs \X (Nat \ {0}))]
      /\ pod' = pod /\ hasStarted' = hasStarted /\ starter' = starter
  BY DEF LaunchInv, TypeOK, podVars
<1> QED
  BY <1>1, <1>2, <1>3, GoesOn

(* The two ways a call goes on.                                            *)
Moves(k, l, at, found) ==
    /\ l \in Calls /\ l.tab = k.tab /\ l.nth = k.nth /\ l.op = k.op /\ l.on = k.on
    /\ l.program = k.program /\ l.at = at /\ l.found = found

LEMMA Moved ==
    ASSUME NEW k \in Calls, NEW at \in {"sent", "starting", "ready", "refused", "running", "answered"},
           NEW found \in BOOLEAN
    PROVE  /\ Moves(k, [k EXCEPT !.at = at], at, k.found)
           /\ Moves(k, [k EXCEPT !.at = at, !.found = found], at, found)
<1>1. Moves(k, [k EXCEPT !.at = at], at, k.found)
  <2>1. [k EXCEPT !.at = at] \in Calls
    BY DEF Calls
  <2> QED
    BY <2>1 DEF Moves, Calls
<1>2. Moves(k, [k EXCEPT !.at = at, !.found = found], at, found)
  <2>1. [k EXCEPT !.at = at, !.found = found] \in Calls
    BY DEF Calls
  <2> QED
    BY <2>1 DEF Moves, Calls
<1> QED
  BY <1>1, <1>2

(* A call that neither starts a container nor is answered yet goes on.      *)
LEMMA Advances ==
    ASSUME LaunchInv, UNCHANGED << uiVars, podVars, timeouts, processes >>,
           NEW k \in calls, k.at # "starting", k.at # "answered",
           NEW at \in {"ready", "refused", "running"}, Advance(k, at)
    PROVE  LaunchInv'
<1> DEFINE l == [k EXCEPT !.at = at]
<1>1. k \in Calls /\ CallOK(k)
  BY DEF LaunchInv, TypeOK
<1>2. Moves(k, l, at, k.found)
  BY <1>1, Moved
<1>3. calls' = (calls \ {k}) \cup {l}
  BY DEF Advance
<1> HIDE DEF l
<1>4. /\ l \in Calls /\ l.tab = k.tab /\ l.nth = k.nth /\ l.op = k.op /\ l.on = k.on /\ l.at = at
      /\ l.program = k.program /\ l.found = k.found
  BY <1>2 DEF Moves
<1>5. at # "answered" /\ at # "starting"
  OBVIOUS
<1>6. CallOK(l)
  BY <1>1, <1>4, <1>5 DEF CallOK
<1> QED
  BY <1>2, <1>3, <1>4, <1>5, <1>6, Simple

(* An answer, of a search one that is true.                                *)
LEMMA AnswerKeeps ==
    ASSUME LaunchInv, UNCHANGED << uiVars, podVars, timeouts >>,
           NEW k \in calls, k.at # "starting", NEW found \in BOOLEAN, Answer(k, found),
           k.op = "find" /\ found => Has(k.on, k.program),
           NEW q, q = Process(k),
           processes' = processes \/ (processes' = processes \cup {q} /\ ProcessOK(q))
    PROVE  LaunchInv'
<1> DEFINE l == [k EXCEPT !.at = "answered", !.found = found]
<1>1. k \in Calls /\ CallOK(k)
  BY DEF LaunchInv, TypeOK
<1>2. Moves(k, l, "answered", found)
  BY <1>1, Moved
<1>3. calls' = (calls \ {k}) \cup {l}
  BY DEF Answer
<1> HIDE DEF l
<1>4. /\ l \in Calls /\ l.tab = k.tab /\ l.nth = k.nth /\ l.op = k.op /\ l.on = k.on /\ l.at = "answered"
      /\ l.program = k.program /\ l.found = found
  BY <1>2 DEF Moves
<1>5. CallOK(l)
  BY <1>1, <1>4 DEF CallOK
<1> QED
  BY <1>2, <1>3, <1>4, <1>5, Simple

(* What a spawn of a container that is not being started by the same       *)
(* launch runs.                                                            *)
LEMMA Spawned ==
    ASSUME LaunchInv, NEW k \in calls, k.op = "spawn", k.at # "starting"
    PROVE  ProcessOK(Process(k))
<1>1. k \in Calls /\ CallOK(k) /\ PodOK(k.on) /\ k.on \in Containers /\ OneCall
  BY DEF LaunchInv, TypeOK, Calls
<1> DEFINE p == Process(k)
<1>2. /\ p.tab = k.tab /\ p.nth = k.nth /\ p.on = k.on /\ p.program = k.program
      /\ p.dir = StartDirectory(Kind[k.on], k.dir) /\ p.podAt = pod[k.on]
  BY DEF Process
<1> HIDE DEF p
<1>3. p.podAt = "starting" => hasStarted[p.on]
  BY <1>1, <1>2 DEF PodOK
<1>4. ASSUME starter[p.on] = << p.tab, p.nth >>, timeouts = 0, p.podAt = "starting" PROVE FALSE
  <2>1. PICK l \in calls : l.at = "starting" /\ starter[k.on] = << l.tab, l.nth >>
    BY <1>1, <1>2, <1>4 DEF PodOK, Starts
  <2>2. l.tab = k.tab /\ l.nth = k.nth
    BY <1>2, <1>4, <2>1
  <2> QED
    BY <1>1, <1>4, <2>1, <2>2 DEF OneCall
<1>5. Kind[k.on] = "session" /\ ~LooksElsewhere(k.on)
      => StartDirectory(Kind[k.on], k.dir) \in OnHost \cup {"home"}
  BY DEF StartDirectory, SessionDirectory, AgentSees, LooksElsewhere
<1> QED
  BY <1>1, <1>2, <1>3, <1>4, <1>5 DEF ProcessOK, CallOK, p

-----------------------------------------------------------------------------
(* The steps of the UI *)

(* Nothing was asked at first.                                              *)
LEMMA InitOK == Init => LaunchInv
<1> SUFFICES ASSUME Init PROVE LaunchInv
  OBVIOUS
<1>1. TypeOK
  <2>1. Session \in Containers /\ \A t \in Tabs : MaxLaunches[t] \in Nat
    BY SessionThere, LaunchAssumption
  <2>2. pod \in [Containers -> {"stopped", "starting", "running"}] /\ MaxTimeouts \in Nat
    BY LaunchAssumption DEF Init
  <2> QED
    BY <2>1, <2>2 DEF Init, TypeOK, Steps
<1>2. \A c \in Containers : pod[c] # "starting"
  BY LaunchAssumption DEF Init
<1> QED
  BY <1>1, <1>2 DEF Init, LaunchInv, PodOK, OneCall

(* A launch begins: what is left of earlier ones is older.                 *)
LEMMA LaunchKeeps ==
    ASSUME LaunchInv, NEW t \in Tabs, NEW c \in MayUse[t], Launch(t, c)
    PROVE  LaunchInv'
<1>0. TypeOK /\ c \in Containers /\ nth[t] \in Nat /\ (\A s \in Tabs : MaxLaunches[s] \in Nat)
  BY LaunchAssumption DEF LaunchInv, TypeOK
<1>1. PICK k : k = ShellCall(t)
  OBVIOUS
<1>2. /\ k \in Calls /\ k.tab = t /\ k.nth = nth[t] + 1 /\ k.op = "shell" /\ k.at = "sent"
      /\ k.program \in Shells
  <2> DEFINE b == Call(t, "shell", Session, "bash")
  <2>1. b \in Calls
    BY <1>0, SessionThere, CallType DEF Shells
  <2>2. b.tab = t /\ b.nth = nth[t] /\ b.op = "shell" /\ b.at = "sent" /\ b.program = "bash"
    BY DEF Call
  <2>3. k = [b EXCEPT !.nth = @ + 1]
    BY <1>1 DEF ShellCall
  <2> HIDE DEF b
  <2> QED
    BY <1>0, <2>1, <2>2, <2>3 DEF Calls, Shells
<1>3. /\ nth' = [nth EXCEPT ![t] = @ + 1] /\ where' = [where EXCEPT ![t] = c]
      /\ calls' = calls \cup {k} /\ processes' \subseteq processes
      /\ hasStarted' = hasStarted /\ pod' = pod /\ starter' = starter /\ timeouts' = timeouts
      /\ sandboxed' = sandboxed /\ nth[t] < MaxLaunches[t] /\ step' = [step EXCEPT ![t] = "shell"]
  BY <1>1 DEF Launch, podVars
<1>4. /\ \A s \in Tabs : nth'[s] = (IF s = t THEN nth[t] + 1 ELSE nth[s])
      /\ \A s \in Tabs : where'[s] = (IF s = t THEN c ELSE where[s])
  BY <1>0, <1>3 DEF TypeOK
<1>5. TypeOK'
  BY <1>0, <1>2, <1>3 DEF TypeOK, Steps
<1>6. \A l \in calls : l \in Calls /\ CallOK(l)
  BY DEF LaunchInv, TypeOK
<1>7. ASSUME NEW l \in calls PROVE CallOK(l)' /\ l.nth \in Nat /\ l.nth <= nth[l.tab]
  BY <1>0, <1>3, <1>4, <1>6 DEF CallOK, Calls, TypeOK, Has, LooksElsewhere
<1>8. CallOK(k)'
  BY <1>0, <1>2, <1>4 DEF CallOK, Has, LooksElsewhere
<1>9. \A l \in calls' : CallOK(l)'
  BY <1>3, <1>7, <1>8
<1>10. \A d \in Containers : PodOK(d)'
  BY <1>3 DEF LaunchInv, PodOK, Starts
<1>11. OneCall'
  <2>1. \A l \in calls : ~(l.tab = k.tab /\ l.nth = k.nth)
    BY <1>0, <1>2, <1>7
  <2> QED
    BY <1>3, <2>1 DEF LaunchInv, OneCall
<1>12. \A p \in processes' : ProcessOK(p)'
  BY <1>3 DEF LaunchInv, ProcessOK, Has, LooksElsewhere
<1> QED
  BY <1>5, <1>9, <1>10, <1>11, <1>12 DEF LaunchInv

(* A launch that fails before it asks anything ends the old process.        *)
LEMMA LaunchFailsKeeps ==
    ASSUME LaunchInv, NEW t \in Tabs, LaunchFails(t)
    PROVE  LaunchInv'
<1>1. /\ step' = [step EXCEPT ![t] = "failed"] /\ processes' \subseteq processes
      /\ UNCHANGED << nth, where, calls, podVars, timeouts >>
  BY DEF LaunchFails
<1>2. TypeOK'
  BY <1>1 DEF LaunchInv, TypeOK, podVars, Steps
<1>3. \A k \in calls' : CallOK(k)'
  BY <1>1 DEF LaunchInv, CallOK, podVars, Has, LooksElsewhere
<1>4. \A c \in Containers : PodOK(c)'
  BY <1>1 DEF LaunchInv, PodOK, Starts, podVars
<1>5. OneCall'
  BY <1>1 DEF LaunchInv, OneCall
<1>6. \A p \in processes' : ProcessOK(p)'
  BY <1>1 DEF LaunchInv, ProcessOK, podVars, Has, LooksElsewhere
<1> QED
  BY <1>2, <1>3, <1>4, <1>5, <1>6 DEF LaunchInv

(* A call that the UI makes in place of another one, which is over or given*)
(* up.                                                                     *)
LEMMA InPlaceOf ==
    ASSUME LaunchInv, UNCHANGED << nth, where, podVars, processes >>,
           step' \in [Tabs -> Steps], timeouts' \in 0 .. MaxTimeouts,
           NEW t \in Tabs, NEW k \in calls, Ours(k, t),
           NEW gone \in SUBSET calls,
           \/ gone = {k} /\ k.at = "answered" /\ timeouts' = timeouts
           \/ gone = {} /\ timeouts' # 0,
           NEW new \in SUBSET Calls, calls' = (calls \ gone) \cup new,
           \A l \in new : l.at = "sent" /\ CallOK(l) /\ l.tab = t /\ l.nth = nth[t],
           \A l, m \in new : l = m
    PROVE  LaunchInv'
<1>1. timeouts' = 0 => timeouts = 0
  BY DEF LaunchInv, TypeOK
<1>2. timeouts' = 0 => \A l \in new, m \in calls' : l.tab = m.tab /\ l.nth = m.nth => l = m
  <2> SUFFICES ASSUME timeouts' = 0, NEW l \in new, NEW m \in calls \ gone, l.tab = m.tab, l.nth = m.nth
               PROVE  FALSE
    OBVIOUS
  <2>1. gone = {k} /\ timeouts = 0
    BY <1>1
  <2> QED
    BY <2>1 DEF LaunchInv, OneCall, Ours
<1>3. (\A l \in gone : l.at # "starting") /\ (\A l \in new : l.at = "sent" /\ CallOK(l))
  OBVIOUS
<1> QED
  BY <1>1, <1>2, <1>3, Asks

(* The question for the shell is followed by the search.                    *)
LEMMA LooksForKeeps ==
    ASSUME LaunchInv, UNCHANGED << nth, where, podVars, processes >>,
           timeouts' \in 0 .. MaxTimeouts,
           NEW t \in Tabs, NEW k \in calls, Ours(k, t),
           NEW shell \in Shells,
           NEW gone \in SUBSET calls,
           \/ gone = {k} /\ k.at = "answered" /\ timeouts' = timeouts
           \/ gone = {} /\ timeouts' # 0,
           LooksFor(t, shell, calls \ gone)
    PROVE  LaunchInv'
<1>1. PICK l : l = FindCall(t, shell)
  OBVIOUS
<1>2. k \in Calls /\ CallOK(k) /\ where[t] \in Containers /\ step \in [Tabs -> Steps] /\ TypeOK
  BY DEF LaunchInv, TypeOK
<1>3. l \in Calls
  BY <1>1, <1>2, CallType DEF FindCall
<1>4. /\ l.at = "sent" /\ l.op = "find" /\ l.tab = t /\ l.nth = nth[t] /\ l.on = where[t]
      /\ l.program = shell
  BY <1>1 DEF FindCall, Call
<1>5. CallOK(l)
  BY <1>2, <1>4 DEF CallOK, Ours
<1>6. step' \in [Tabs -> Steps] /\ calls' = (calls \ gone) \cup {l}
  BY <1>1, <1>2 DEF LooksFor, Steps
<1>7. {l} \in SUBSET Calls /\ \A x, y \in {l} : x = y
  BY <1>3
<1>8. \A x \in {l} : x.at = "sent" /\ CallOK(x) /\ x.tab = t /\ x.nth = nth[t]
  BY <1>4, <1>5
<1> HIDE DEF Ours
<1> QED
  BY <1>6, <1>7, <1>8, InPlaceOf

(* ... when it is answered, and when it is given up.                        *)
LEMMA GotShellKeeps ==
    ASSUME LaunchInv, NEW t \in Tabs, GotShell(t) \/ GivesUpShell(t)
    PROVE  LaunchInv'
<1>0. timeouts \in 0 .. MaxTimeouts /\ MaxTimeouts \in Nat /\ \A k \in calls : k \in Calls /\ CallOK(k)
  BY LaunchAssumption DEF LaunchInv, TypeOK
<1>1. CASE GotShell(t)
  <2>1. PICK k \in calls : /\ Ours(k, t) /\ k.op = "shell" /\ k.at = "answered"
                           /\ LooksFor(t, IF k.found THEN k.program ELSE "bash", calls \ {k})
                           /\ UNCHANGED << nth, where, podVars, processes, timeouts >>
    BY <1>1 DEF GotShell
  <2>2. PICK shell : shell = IF k.found THEN k.program ELSE "bash"
    OBVIOUS
  <2>3. shell \in Shells
    BY <1>0, <2>1, <2>2 DEF CallOK, Shells
  <2>4. LooksFor(t, shell, calls \ {k}) /\ {k} \in SUBSET calls /\ timeouts' \in 0 .. MaxTimeouts
    BY <1>0, <2>1, <2>2
  <2> QED
    BY <2>1, <2>3, <2>4, LooksForKeeps
<1>2. CASE GivesUpShell(t)
  <2>1. PICK k \in calls : /\ Ours(k, t) /\ timeouts < MaxTimeouts /\ timeouts' = timeouts + 1
                           /\ LooksFor(t, "bash", calls)
                           /\ UNCHANGED << nth, where, podVars, processes >>
    BY <1>2 DEF GivesUpShell
  <2>2. LooksFor(t, "bash", calls \ {}) /\ "bash" \in Shells
    <3>1. calls \ {} = calls
      OBVIOUS
    <3> QED
      BY <2>1, <3>1 DEF Shells
  <2>3. timeouts' \in 0 .. MaxTimeouts /\ timeouts' # 0
    BY <1>0, <2>1
  <2> QED
    BY <2>1, <2>2, <2>3, LooksForKeeps
<1> QED
  BY <1>1, <1>2

(* The search is followed by the spawn, of a shell that was found there.    *)
LEMMA ClientSpawnKeeps ==
    ASSUME LaunchInv, UNCHANGED << nth, where, podVars, processes >>,
           timeouts' \in 0 .. MaxTimeouts,
           NEW t \in Tabs, NEW k \in calls, Ours(k, t),
           NEW shell \in Shells \cup {"fallback"}, shell \in Shells => Has(where[t], shell),
           NEW gone \in SUBSET calls,
           \/ gone = {k} /\ k.at = "answered" /\ timeouts' = timeouts
           \/ gone = {} /\ timeouts' # 0,
           ClientSpawn(t, shell, calls \ gone)
    PROVE  LaunchInv'
<1>1. k \in Calls /\ CallOK(k) /\ step \in [Tabs -> Steps] /\ TypeOK
  BY DEF LaunchInv, TypeOK
<1>2. CASE calls' = calls \ gone /\ step' = [step EXCEPT ![t] = "failed"]
  <2>1. step' \in [Tabs -> Steps] /\ calls' = (calls \ gone) \cup {} /\ {} \in SUBSET Calls
    BY <1>1, <1>2 DEF Steps
  <2> HIDE DEF Ours
  <2>2. (\A x \in {} : x.at = "sent" /\ CallOK(x) /\ x.tab = t /\ x.nth = nth[t]) /\ (\A x, y \in {} : x = y)
    OBVIOUS
  <2> QED
    BY <2>1, <2>2, InPlaceOf
<1>3. CASE \E p \in Profiles : /\ p.command # "broken"
                               /\ step' = [step EXCEPT ![t] = "spawn"]
                               /\ calls' = (calls \ gone) \cup {SpawnCall(t, p, shell)}
  <2>1. PICK p \in Profiles : /\ p.command # "broken"
                              /\ step' = [step EXCEPT ![t] = "spawn"]
                              /\ calls' = (calls \ gone) \cup {SpawnCall(t, p, shell)}
    BY <1>3
  <2>2. PICK l : l = SpawnCall(t, p, shell)
    OBVIOUS
  <2>3. /\ l \in Calls /\ l.tab = t /\ l.nth = nth[t] /\ l.op = "spawn" /\ l.at = "sent"
        /\ l.on = where[t] /\ (l.program \in Shells => l.program = shell)
    BY <1>1, <2>1, <2>2, SpawnCallType
  <2>4. CallOK(l)
    BY <1>1, <2>3 DEF CallOK, Ours
  <2>5. step' \in [Tabs -> Steps] /\ calls' = (calls \ gone) \cup {l} /\ {l} \in SUBSET Calls
    BY <1>1, <2>1, <2>2, <2>3 DEF Steps
  <2>6. (\A x \in {l} : x.at = "sent" /\ CallOK(x) /\ x.tab = t /\ x.nth = nth[t]) /\ (\A x, y \in {l} : x = y)
    BY <2>3, <2>4
  <2> QED
    BY <2>5, <2>6, InPlaceOf
<1> QED
  BY <1>2, <1>3 DEF ClientSpawn, NoProducer

(* ... when it is answered, and when it is given up.                        *)
LEMMA GotProgramKeeps ==
    ASSUME LaunchInv, NEW t \in Tabs, GotProgram(t) \/ GivesUpSearch(t)
    PROVE  LaunchInv'
<1>0. /\ timeouts \in 0 .. MaxTimeouts /\ MaxTimeouts \in Nat /\ (\A k \in calls : k \in Calls /\ CallOK(k))
      /\ where[t] \in Containers
  BY LaunchAssumption DEF LaunchInv, TypeOK
<1>1. CASE GotProgram(t)
  <2>1. PICK k \in calls : /\ Ours(k, t) /\ k.op = "find" /\ k.at = "answered"
                           /\ ClientSpawn(t, IF k.found THEN k.program ELSE "fallback", calls \ {k})
                           /\ UNCHANGED << nth, where, podVars, processes, timeouts >>
    BY <1>1 DEF GotProgram
  <2>2. PICK shell : shell = IF k.found THEN k.program ELSE "fallback"
    OBVIOUS
  <2>3. k.found => Has(where[t], k.program) /\ k.program \in Shells
    BY <1>0, <2>1 DEF CallOK, Ours
  <2>4. shell \in Shells \cup {"fallback"} /\ (shell \in Shells => Has(where[t], shell))
    BY <2>2, <2>3 DEF Shells
  <2>5. ClientSpawn(t, shell, calls \ {k}) /\ {k} \in SUBSET calls /\ timeouts' \in 0 .. MaxTimeouts
    BY <1>0, <2>1, <2>2
  <2> QED
    BY <2>1, <2>4, <2>5, ClientSpawnKeeps
<1>2. CASE GivesUpSearch(t)
  <2>1. PICK k \in calls : /\ Ours(k, t) /\ timeouts < MaxTimeouts /\ timeouts' = timeouts + 1
                           /\ ClientSpawn(t, "fallback", calls)
                           /\ UNCHANGED << nth, where, podVars, processes >>
    BY <1>2 DEF GivesUpSearch
  <2>2. /\ ClientSpawn(t, "fallback", calls \ {}) /\ "fallback" \in Shells \cup {"fallback"}
        /\ "fallback" \notin Shells
    <3>1. calls \ {} = calls
      OBVIOUS
    <3> QED
      BY <2>1, <3>1 DEF Shells
  <2>3. timeouts' \in 0 .. MaxTimeouts /\ timeouts' # 0
    BY <1>0, <2>1
  <2> QED
    BY <2>1, <2>2, <2>3, ClientSpawnKeeps
<1> QED
  BY <1>1, <1>2

(* The steps of the UI that end a call, or the launch.                     *)
LEMMA Ends ==
    ASSUME LaunchInv, UNCHANGED << nth, where, podVars, processes, timeouts >>,
           step' \in [Tabs -> Steps],
           NEW gone \in SUBSET calls, \A k \in gone : k.at = "answered", calls' = calls \ gone
    PROVE  LaunchInv'
<1>1. timeouts' \in 0 .. MaxTimeouts /\ (timeouts' = 0 => timeouts = 0)
  BY DEF LaunchInv, TypeOK
<1>2. (\A k \in gone : k.at # "starting") /\ {} \in SUBSET Calls /\ calls' = (calls \ gone) \cup {}
  OBVIOUS
<1>3. /\ \A k \in {} : k.at = "sent" /\ CallOK(k)
      /\ timeouts' = 0 => \A k \in {}, l \in calls' : k.tab = l.tab /\ k.nth = l.nth => k = l
  OBVIOUS
<1> QED
  BY <1>1, <1>2, <1>3, Asks

(* ... one by one.                                                          *)
LEMMA EndsKeeps ==
    ASSUME LaunchInv, \/ DropsLateAnswer
                      \/ \E t \in Tabs : GotSpawned(t) \/ GotProxy(t)
    PROVE  LaunchInv'
<1>0. step \in [Tabs -> Steps]
  BY DEF LaunchInv, TypeOK
<1>1. CASE DropsLateAnswer
  <2>1. PICK k \in calls : k.at = "answered" /\ calls' = calls \ {k} /\ step' = step
                           /\ UNCHANGED << nth, where, podVars, processes, timeouts >>
    BY <1>1 DEF DropsLateAnswer, uiVars
  <2>2. step' \in [Tabs -> Steps] /\ {k} \in SUBSET calls /\ \A l \in {k} : l.at = "answered"
    BY <1>0, <2>1
  <2> QED
    BY <2>1, <2>2, Ends
<1>2. ASSUME NEW t \in Tabs, GotSpawned(t) PROVE LaunchInv'
  <2>1. PICK k \in calls : k.at = "answered" /\ calls' = calls \ {k}
                           /\ step' = [step EXCEPT ![t] = IF k.found THEN "proxy" ELSE "failed"]
                           /\ UNCHANGED << nth, where, podVars, processes, timeouts >>
    BY <1>2 DEF GotSpawned
  <2>2. step' \in [Tabs -> Steps]
    BY <1>0, <2>1 DEF Steps
  <2>3. {k} \in SUBSET calls /\ \A l \in {k} : l.at = "answered"
    BY <2>1
  <2> QED
    BY <2>1, <2>2, <2>3, Ends
<1>3. ASSUME NEW t \in Tabs, GotProxy(t) PROVE LaunchInv'
  <2>1. /\ step' = [step EXCEPT ![t] = "running"] /\ calls' = calls
        /\ UNCHANGED << nth, where, podVars, processes, timeouts >>
    BY <1>3 DEF GotProxy
  <2>2. step' \in [Tabs -> Steps]
    BY <1>0, <2>1 DEF Steps
  <2>3. {} \in SUBSET calls /\ calls' = calls \ {} /\ \A l \in {} : l.at = "answered"
    BY <2>1
  <2> QED
    BY <2>1, <2>2, <2>3, Ends
<1> QED
  BY <1>1, <1>2, <1>3

-----------------------------------------------------------------------------
(* The steps of the agent *)

(* The search for the preferred shell, in the sandbox or on the host.       *)
LEMMA ShellKeeps ==
    ASSUME LaunchInv, NEW k \in calls, GetPreferredShell(k) \/ GetentDone(k)
    PROVE  LaunchInv'
<1>0. k.op = "shell" /\ k.at \in {"sent", "running"} /\ UNCHANGED << uiVars, podVars, processes, timeouts >>
  BY DEF GetPreferredShell, GetentDone
<1>1. PICK q : q = Process(k)
  OBVIOUS
<1>2. k \in Calls /\ CallOK(k)
  BY DEF LaunchInv, TypeOK
<1>3. CASE Advance(k, "running")
  BY <1>0, <1>3, Advances
<1>4. CASE Answer(k, FALSE)
  BY <1>0, <1>1, <1>4, AnswerKeeps
<1>5. ASSUME NEW shell \in Shells,
             calls' = (calls \ {k}) \cup {[k EXCEPT !.at = "answered", !.found = TRUE, !.program = shell]}
      PROVE  LaunchInv'
  <2> DEFINE l == [k EXCEPT !.at = "answered", !.found = TRUE, !.program = shell]
  <2>1. l \in Calls
    BY <1>2 DEF Calls
  <2>2. l.tab = k.tab /\ l.nth = k.nth /\ l.op = k.op /\ l.on = k.on /\ l.at = "answered" /\ l.program = shell
    BY <1>2 DEF Calls
  <2>3. calls' = (calls \ {k}) \cup {l}
    BY <1>5
  <2> HIDE DEF l
  <2>4. CallOK(l)
    BY <1>0, <1>2, <1>5, <2>2 DEF CallOK
  <2> QED
    BY <1>0, <1>1, <2>1, <2>2, <2>3, <2>4, Simple
<1>6. "preferred" \in Shells /\ "sh" \in Shells
  BY DEF Shells
<1> QED
  BY <1>3, <1>4, <1>5, <1>6 DEF GetPreferredShell, GetentDone, AnswersPasswd

(* Answers to a search, and refusals of whatever waited for a start.        *)
LEMMA AnswersKeep ==
    ASSUME LaunchInv, NEW k \in calls, SessionFinds(k) \/ Refused(k) \/ PodmanFinds(k) \/ PodmanFound(k)
    PROVE  LaunchInv'
<1>0. PICK q : q = Process(k)
  OBVIOUS
<1>1. k.at # "starting" /\ k.at # "answered" /\ UNCHANGED << uiVars, podVars, processes, timeouts >>
  BY DEF SessionFinds, Refused, PodmanFinds, PodmanFound
<1>2. CASE Advance(k, "running")
  BY <1>1, <1>2, Advances
<1>3. ASSUME NEW found \in BOOLEAN, Answer(k, found), found => Has(k.on, k.program)
      PROVE  LaunchInv'
  BY <1>0, <1>1, <1>3, AnswerKeeps
<1>4. CASE SessionFinds(k)
  <2> DEFINE found == k.program \in FoundInPath(k.on)
  <2>1. found \in BOOLEAN /\ Answer(k, found)
    BY <1>4 DEF SessionFinds
  <2>2. found => Has(k.on, k.program)
    BY DEF FoundInPath, Has
  <2> HIDE DEF found
  <2> QED
    BY <1>3, <2>1, <2>2
<1>5. CASE PodmanFound(k)
  <2> DEFINE found == pod[k.on] = "running" /\ k.program \in Installed[k.on]
  <2>1. found \in BOOLEAN /\ Answer(k, found)
    BY <1>5 DEF PodmanFound
  <2>2. found => Has(k.on, k.program)
    BY DEF Has
  <2> HIDE DEF found
  <2> QED
    BY <1>3, <2>1, <2>2
<1> QED
  BY <1>2, <1>3, <1>4, <1>5 DEF Refused, PodmanFinds

(* The session spawns, or fails to.                                         *)
LEMMA SessionSpawnsKeeps ==
    ASSUME LaunchInv, NEW k \in calls, SessionSpawns(k)
    PROVE  LaunchInv'
<1>0. PICK q : q = Process(k)
  OBVIOUS
<1>1. k.op = "spawn" /\ k.at = "sent" /\ UNCHANGED << uiVars, podVars, timeouts >>
  BY DEF SessionSpawns
<1>2. ProcessOK(q)
  BY <1>0, <1>1, Spawned
<1>3. PICK found \in BOOLEAN : Answer(k, found) /\ (processes' = processes \/ processes' = processes \cup {q})
  BY <1>0 DEF SessionSpawns
<1> QED
  BY <1>0, <1>1, <1>2, <1>3, AnswerKeeps

(* maybe_start: only the call that finds has_started unset becomes the     *)
(* starter, and it waits.                                                  *)
LEMMA MaybeStartKeeps ==
    ASSUME LaunchInv, NEW k \in calls, k.at = "sent", MaybeStart(k)
    PROVE  LaunchInv'
<1>0. PICK q : q = Process(k)
  OBVIOUS
<1>1. /\ k \in Calls /\ CallOK(k) /\ k.on \in Containers /\ TypeOK
      /\ << k.tab, k.nth >> \in Tabs \X (Nat \ {0})
  BY DEF LaunchInv, TypeOK, Calls, CallOK
<1>2. /\ hasStarted' = [hasStarted EXCEPT ![k.on] = TRUE] /\ processes' = processes
      /\ UNCHANGED << uiVars, timeouts >>
      /\ hasStarted' \in [Containers -> BOOLEAN]
      /\ \A c \in Containers : hasStarted'[c] = (hasStarted[c] \/ c = k.on)
  BY <1>1 DEF MaybeStart, TypeOK
<1>3. ASSUME NEW at \in {"ready", "refused"}, Advance(k, at), UNCHANGED << pod, starter >>
      PROVE  LaunchInv'
  <2> DEFINE l == [k EXCEPT !.at = at]
  <2>1. Moves(k, l, at, k.found)
    BY <1>1, Moved
  <2>2. calls' = (calls \ {k}) \cup {l}
    BY <1>3 DEF Advance
  <2> HIDE DEF l
  <2>3. /\ l \in Calls /\ l.tab = k.tab /\ l.nth = k.nth /\ l.op = k.op /\ l.on = k.on
        /\ l.program = k.program /\ l.at # "starting" /\ l.at # "answered"
    BY <2>1 DEF Moves
  <2>4. CallOK(l)'
    BY <1>1, <1>2, <2>3 DEF CallOK, uiVars, Has, LooksElsewhere
  <2>5. /\ pod' \in [Containers -> {"stopped", "starting", "running"}]
        /\ starter' \in [Containers -> {<< >>} \cup (Tabs \X (Nat \ {0}))]
    BY <1>1, <1>3 DEF TypeOK
  <2>6. /\ \A c \in Containers : hasStarted[c] => hasStarted'[c] /\ starter'[c] = starter[c]
        /\ \A c \in Containers : starter'[c] = starter[c] \/ starter'[c] = << k.tab, k.nth >>
        /\ \A c \in Containers : pod'[c] = "starting" =>
              \/ c = k.on /\ hasStarted'[c] /\ Starts(l, c)'
              \/ pod[c] = "starting" /\ ~(c = k.on /\ k.at = "starting")
    BY <1>2, <1>3
  <2> QED
    BY <1>0, <1>2, <2>2, <2>3, <2>4, <2>5, <2>6, GoesOn
<1>4. ASSUME ~hasStarted[k.on], Advance(k, "starting"),
             pod' = [pod EXCEPT ![k.on] = IF @ = "running" THEN @ ELSE "starting"],
             starter' = [starter EXCEPT ![k.on] = << k.tab, k.nth >>]
      PROVE  LaunchInv'
  <2> DEFINE l == [k EXCEPT !.at = "starting"]
  <2>1. Moves(k, l, "starting", k.found)
    BY <1>1, Moved
  <2>2. calls' = (calls \ {k}) \cup {l}
    BY <1>4 DEF Advance
  <2> HIDE DEF l
  <2>3. /\ l \in Calls /\ l.tab = k.tab /\ l.nth = k.nth /\ l.op = k.op /\ l.on = k.on
        /\ l.program = k.program /\ l.at = "starting"
    BY <2>1 DEF Moves
  <2>4. /\ pod' \in [Containers -> {"stopped", "starting", "running"}]
        /\ starter' \in [Containers -> {<< >>} \cup (Tabs \X (Nat \ {0}))]
        /\ starter'[k.on] = << k.tab, k.nth >>
        /\ \A c \in Containers : c # k.on => pod'[c] = pod[c] /\ starter'[c] = starter[c]
    BY <1>1, <1>4 DEF TypeOK
  <2>5. CallOK(l)'
    BY <1>1, <1>2, <2>3, <2>4 DEF CallOK, uiVars, Has, LooksElsewhere
  <2>6. Starts(l, k.on)'
    BY <2>3, <2>4 DEF Starts
  <2>7. /\ \A c \in Containers : hasStarted[c] => hasStarted'[c] /\ starter'[c] = starter[c]
        /\ \A c \in Containers : starter'[c] = starter[c] \/ starter'[c] = << k.tab, k.nth >>
    BY <1>2, <1>4, <2>4
  <2>8. ASSUME NEW c \in Containers, pod'[c] = "starting"
        PROVE  \/ c = k.on /\ hasStarted'[c] /\ Starts(l, c)'
               \/ pod[c] = "starting" /\ ~(c = k.on /\ k.at = "starting")
    BY <1>2, <2>4, <2>6, <2>8
  <2> QED
    BY <1>0, <1>2, <2>2, <2>3, <2>4, <2>5, <2>7, <2>8, GoesOn
<1> QED
  BY <1>3, <1>4 DEF MaybeStart, StartsPod

(* "podman start" ends, and whoever ran it no longer waits.                 *)
LEMMA PodStartedKeeps ==
    ASSUME LaunchInv, NEW k \in calls, PodStarted(k)
    PROVE  LaunchInv'
<1>0. PICK q : q = Process(k)
  OBVIOUS
<1>1. k \in Calls /\ CallOK(k) /\ k.on \in Containers /\ TypeOK
  BY DEF LaunchInv, TypeOK, Calls
<1>2. /\ UNCHANGED << uiVars, timeouts >> /\ hasStarted' = hasStarted /\ starter' = starter /\ processes' = processes
  BY DEF PodStarted
<1>3. PICK at \in {"ready", "refused"}, p \in {"running", "stopped", pod[k.on]} :
         /\ Advance(k, at) /\ p # "starting"
         /\ pod' = [pod EXCEPT ![k.on] = p]
  BY <1>1 DEF PodStarted, TypeOK
<1> DEFINE l == [k EXCEPT !.at = at]
<1>4. Moves(k, l, at, k.found)
  BY <1>1, Moved
<1>5. calls' = (calls \ {k}) \cup {l}
  BY <1>3 DEF Advance
<1> HIDE DEF l
<1>6. /\ l \in Calls /\ l.tab = k.tab /\ l.nth = k.nth /\ l.op = k.op /\ l.on = k.on
      /\ l.program = k.program /\ l.at # "starting" /\ l.at # "answered"
  BY <1>4 DEF Moves
<1>7. CallOK(l)'
  BY <1>1, <1>2, <1>6 DEF CallOK, uiVars, Has, LooksElsewhere
<1>8. /\ pod' \in [Containers -> {"stopped", "starting", "running"}]
      /\ starter' \in [Containers -> {<< >>} \cup (Tabs \X (Nat \ {0}))]
      /\ hasStarted' \in [Containers -> BOOLEAN]
      /\ pod'[k.on] # "starting" /\ \A c \in Containers : c # k.on => pod'[c] = pod[c]
  BY <1>1, <1>2, <1>3 DEF TypeOK
<1>9. /\ \A c \in Containers : hasStarted[c] => hasStarted'[c] /\ starter'[c] = starter[c]
      /\ \A c \in Containers : starter'[c] = starter[c] \/ starter'[c] = << k.tab, k.nth >>
      /\ \A c \in Containers : pod'[c] = "starting" =>
            \/ c = k.on /\ hasStarted'[c] /\ Starts(l, c)'
            \/ pod[c] = "starting" /\ ~(c = k.on /\ k.at = "starting")
  BY <1>2, <1>8
<1> QED
  BY <1>0, <1>2, <1>5, <1>6, <1>7, <1>8, <1>9, GoesOn

(* A container spawns, or fails to; distrobox starts it.                    *)
LEMMA PodmanSpawnsKeeps ==
    ASSUME LaunchInv, NEW k \in calls, PodmanSpawns(k)
    PROVE  LaunchInv'
<1>0. PICK q : q = Process(k)
  OBVIOUS
<1>1. k \in Calls /\ CallOK(k) /\ k.on \in Containers /\ TypeOK
  BY DEF LaunchInv, TypeOK, Calls
<1>2. /\ UNCHANGED << uiVars, timeouts >> /\ hasStarted' = hasStarted /\ starter' = starter
      /\ k.op = "spawn" /\ k.at = "ready"
  BY DEF PodmanSpawns
<1>3. PICK found \in BOOLEAN :
         /\ Answer(k, found)
         /\ processes' = processes \/ processes' = processes \cup {q}
         /\ pod' = pod \/ pod' = [pod EXCEPT ![k.on] = IF Kind[k.on] = "distrobox" THEN "running" ELSE @]
  BY <1>0 DEF PodmanSpawns
<1> DEFINE l == [k EXCEPT !.at = "answered", !.found = found]
<1>4. Moves(k, l, "answered", found)
  BY <1>1, Moved
<1>5. calls' = (calls \ {k}) \cup {l}
  BY <1>3 DEF Answer
<1> HIDE DEF l
<1>6. /\ l \in Calls /\ l.tab = k.tab /\ l.nth = k.nth /\ l.op = k.op /\ l.on = k.on
      /\ l.program = k.program /\ l.at = "answered"
  BY <1>4 DEF Moves
<1>7. CallOK(l)'
  BY <1>1, <1>2, <1>6 DEF CallOK, uiVars, Has, LooksElsewhere
<1>8. /\ pod' \in [Containers -> {"stopped", "starting", "running"}]
      /\ starter' \in [Containers -> {<< >>} \cup (Tabs \X (Nat \ {0}))]
      /\ hasStarted' \in [Containers -> BOOLEAN]
      /\ \A c \in Containers : pod'[c] = pod[c] \/ pod'[c] = "running"
  BY <1>1, <1>2, <1>3 DEF TypeOK
<1>9. /\ \A c \in Containers : hasStarted[c] => hasStarted'[c] /\ starter'[c] = starter[c]
      /\ \A c \in Containers : starter'[c] = starter[c] \/ starter'[c] = << k.tab, k.nth >>
      /\ \A c \in Containers : pod'[c] = "starting" =>
            \/ c = k.on /\ hasStarted'[c] /\ Starts(l, c)'
            \/ pod[c] = "starting" /\ ~(c = k.on /\ k.at = "starting")
  BY <1>2, <1>8
<1>10. ProcessOK(q)
  BY <1>0, <1>2, Spawned
<1>11. ProcessOK(q)'
  BY <1>2, <1>10 DEF ProcessOK, Has, LooksElsewhere, uiVars
<1> QED
  BY <1>0, <1>2, <1>3, <1>5, <1>6, <1>7, <1>8, <1>9, <1>11, GoesOn

-----------------------------------------------------------------------------
(* The theorems *)

(* Every step keeps LaunchInv.                                              *)
LEMMA StepOK == LaunchInv /\ [Next]_vars => LaunchInv'
<1> SUFFICES ASSUME LaunchInv, [Next]_vars PROVE LaunchInv'
  OBVIOUS
<1>1. CASE UNCHANGED vars
  <2>1. UNCHANGED << step, nth, where, calls, podVars, processes, timeouts >>
    BY <1>1 DEF vars, uiVars
  <2>2. {} \in SUBSET calls /\ calls' = calls \ {} /\ (\A k \in {} : k.at = "answered")
    BY <2>1
  <2>3. step' \in [Tabs -> Steps]
    BY <2>1 DEF LaunchInv, TypeOK
  <2> QED
    BY <2>1, <2>2, <2>3, Ends
<1>2. ASSUME NEW t \in Tabs, UIStep(t) \/ GivesUpShell(t) \/ GivesUpSearch(t) \/ LaunchFails(t)
      PROVE  LaunchInv'
  BY <1>2, GotShellKeeps, GotProgramKeeps, EndsKeeps, LaunchFailsKeeps DEF UIStep
<1>3. ASSUME NEW t \in Tabs, NEW c \in MayUse[t], Launch(t, c) PROVE LaunchInv'
  BY <1>3, LaunchKeeps
<1>4. CASE DropsLateAnswer
  BY <1>4, EndsKeeps
<1>6. CASE AgentStep
  <2>1. PICK k \in calls : \/ GetPreferredShell(k) \/ SessionFinds(k) \/ SessionSpawns(k)
                           \/ PodmanAskedToFind(k) \/ PodmanAskedToSpawn(k)
                           \/ Refused(k) \/ PodmanFinds(k) \/ PodmanSpawns(k)
    BY <1>6 DEF AgentStep
  <2>2. CASE PodmanAskedToFind(k) \/ PodmanAskedToSpawn(k)
    BY <2>2, MaybeStartKeeps DEF PodmanAskedToFind, PodmanAskedToSpawn
  <2> QED
    BY <2>1, <2>2, ShellKeeps, AnswersKeep, SessionSpawnsKeeps, PodmanSpawnsKeeps
<1>7. CASE HostStep
  BY <1>7, ShellKeeps, PodStartedKeeps, AnswersKeep DEF HostStep
<1> QED
  BY <1>1, <1>2, <1>3, <1>4, <1>6, <1>7 DEF Next

(* Whatever is launched, refused, started or given up, and in whichever    *)
(* order: calls and processes keep what LaunchInv says of them.            *)
THEOREM LaunchInvariant == Spec => []LaunchInv
<1>1. Init => LaunchInv
  BY InitOK
<1>2. LaunchInv /\ [Next]_vars => LaunchInv'
  BY StepOK
<1> QED
  BY <1>1, <1>2, PTL DEF Spec, Safety

(* maybe_start (ptyxis-podman-container.c): the launch that starts a       *)
(* container runs nothing in it before "podman start" is over.             *)
THEOREM StarterWaits == Spec => []FirstWaits
<1>1. LaunchInv => FirstWaits
  BY DEF LaunchInv, ProcessOK, FirstWaits
<1> QED
  BY <1>1, LaunchInvariant, PTL

(* ptyxis_application_get_preferred_shell_cb and _check_shell_cb: a shell  *)
(* is run where it was found, and a session's process starts in a          *)
(* directory that exists, unless the session is that of a sandboxed agent. *)
THEOREM OnlyWhatIsThere == Spec => []RunsWhatIsThere
<1>1. LaunchInv => RunsWhatIsThere
  BY DEF LaunchInv, ProcessOK, RunsWhatIsThere, Has
<1> QED
  BY <1>1, LaunchInvariant, PTL
=============================================================================
