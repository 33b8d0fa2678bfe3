--------------------------- MODULE TabWatchProofs ----------------------------
(***************************************************************************)
(* A command is notified at most once, for any number of processes and     *)
(* commands and however late the answers about them are: every question of *)
(* the notifier is one of a command that began, and is used up by the      *)
(* notification that it leads to.                                          *)
(***************************************************************************)
EXTENDS TabWatch, FiniteSetTheorems, SequenceTheorems, TLAPS

(* The questions of the notifier among those of a queue.                   *)
OfNotifier(s) == {i \in DOMAIN s : s[i].who = "notify"}
Count(s)      == Cardinality(OfNotifier(s))
One(P)        == IF P THEN 1 ELSE 0

LEMMA OfNotifierFinite ==
    ASSUME NEW S, NEW s \in Seq(S)
    PROVE  IsFiniteSet(OfNotifier(s)) /\ Count(s) \in Nat
<1>1. DOMAIN s = 1 .. Len(s) /\ Len(s) \in Nat
  BY LenProperties
<1>2. IsFiniteSet(DOMAIN s)
  BY <1>1, FS_Interval
<1>3. OfNotifier(s) \in SUBSET DOMAIN s
  BY DEF OfNotifier
<1>4. IsFiniteSet(OfNotifier(s))
  BY <1>2, <1>3, FS_Subset
<1> QED
  BY <1>4, FS_CardinalityType DEF Count

LEMMA CountOfNone == Count(<< >>) = 0
<1>1. OfNotifier(<< >>) = {}
  BY DEF OfNotifier
<1> QED
  BY <1>1, FS_EmptySet DEF Count

LEMMA CountAppend ==
    ASSUME NEW S, NEW s \in Seq(S), NEW q \in S
    PROVE  Count(Append(s, q)) = Count(s) + One(q.who = "notify")
<1> DEFINE a == Append(s, q)
<1>1. /\ a \in Seq(S) /\ Len(a) = Len(s) + 1
      /\ \A i \in 1 .. Len(s) : a[i] = s[i]
      /\ a[Len(s) + 1] = q
  BY AppendProperties
<1>2. DOMAIN s = 1 .. Len(s) /\ Len(s) \in Nat /\ DOMAIN a = 1 .. Len(s) + 1
  BY <1>1, LenProperties
<1> HIDE DEF a
<1>3. Len(s) + 1 \notin OfNotifier(s)
  BY <1>2 DEF OfNotifier
<1>4. CASE q.who = "notify"
  <2>1. OfNotifier(a) = OfNotifier(s) \cup {Len(s) + 1}
    BY <1>1, <1>2, <1>4 DEF OfNotifier
  <2> QED
    BY <2>1, <1>3, <1>4, OfNotifierFinite, FS_AddElement DEF Count, One, a
<1>5. CASE q.who # "notify"
  <2>1. OfNotifier(a) = OfNotifier(s)
    BY <1>1, <1>2, <1>5 DEF OfNotifier
  <2> QED
    BY <2>1, <1>5, OfNotifierFinite DEF Count, One, a
<1> QED
  BY <1>4, <1>5

LEMMA CountTail ==
    ASSUME NEW S, NEW s \in Seq(S), s # << >>
    PROVE  Count(s) = Count(Tail(s)) + One(Head(s).who = "notify")
<1> DEFINE t == Tail(s)
           rest == OfNotifier(s) \ {1}
           f == [i \in rest |-> i - 1]
<1>1. /\ t \in Seq(S) /\ Len(t) = Len(s) - 1
      /\ \A i \in 1 .. Len(t) : t[i] = s[i + 1]
      /\ Head(s) = s[1]
  BY HeadTailProperties
<1>2. DOMAIN s = 1 .. Len(s) /\ Len(s) \in Nat /\ Len(s) > 0 /\ DOMAIN t = 1 .. Len(t)
  BY <1>1, LenProperties, EmptySeq
<1> HIDE DEF t
<1>3. rest = {i \in 2 .. Len(s) : s[i].who = "notify"}
  BY <1>2 DEF OfNotifier
<1>4. OfNotifier(t) = {i \in 1 .. Len(s) - 1 : s[i + 1].who = "notify"}
  BY <1>1, <1>2 DEF OfNotifier
<1> HIDE DEF rest
<1>5. f \in [rest -> OfNotifier(t)] /\ \A i, j \in rest : f[i] = f[j] => i = j
  BY <1>2, <1>3, <1>4
<1>6. \A j \in OfNotifier(t) : j + 1 \in rest /\ f[j + 1] = j
  BY <1>2, <1>3, <1>4
<1>7. f \in Bijection(rest, OfNotifier(t))
  BY <1>5, <1>6 DEF Bijection, Injection, Surjection, IsInjective
<1>8. IsFiniteSet(rest)
      /\ Cardinality(rest) = IF 1 \in OfNotifier(s) THEN Count(s) - 1 ELSE Count(s)
  BY OfNotifierFinite, FS_RemoveElement DEF Count, rest
<1>9. Cardinality(OfNotifier(t)) = Cardinality(rest)
  BY <1>7, <1>8, FS_Bijection DEF ExistsBijection
<1>10. 1 \in OfNotifier(s) <=> Head(s).who = "notify"
  BY <1>1, <1>2 DEF OfNotifier
<1> QED
  BY <1>8, <1>9, <1>10, OfNotifierFinite DEF Count, One, t

-----------------------------------------------------------------------------
(* The invariant *)

Question == [who : Who, gen : Nat, of : Nat]
Answer   == [who : Who, of : Nat, has : BOOLEAN, pid : Int, line : Lines]

WatchTypeOK ==
    /\ gen \in Nat /\ process \in Nat /\ ran \in Nat
    /\ fg \in [line : Commands \cup {Shell}, pid : Int]
    /\ calls \in Seq(Question) /\ replies \in Seq(Answer) /\ idle \in Seq(Nat)
    /\ command_line \in Lines /\ current_cmdline \in [line : Lines, of : Nat]
    /\ commands \in Nat /\ sent \in Nat

(* What can still lead to a notification: a question of the notifier on    *)
(* its way, its answer, or the command line that it left.                  *)
Asked == Count(calls) + Count(replies) + Len(idle) + One(current_cmdline.line # NoLine)

WatchInv ==
    /\ WatchTypeOK
    /\ sent + Asked <= commands

(* Arithmetic, for what is not expanded.                                   *)
LEMMA StaysBelow ==
    ASSUME NEW n \in Nat, NEW a \in Nat, NEW b \in Nat, NEW c \in Nat, n + a <= c, b <= a
    PROVE  n + b <= c
OBVIOUS

LEMMA OneMore ==
    ASSUME NEW n \in Nat, NEW a \in Nat, NEW b \in Nat, NEW c \in Nat, n + a <= c, b <= a + 1
    PROVE  n + b <= c + 1
OBVIOUS

LEMMA UsedUp ==
    ASSUME NEW n \in Nat, NEW m \in Nat, NEW a \in Nat, NEW b \in Nat, NEW c \in Nat,
           NEW d \in Nat, n + a <= c, m <= n + d, b + d = a
    PROVE  m + b <= c
OBVIOUS

LEMMA CountsTyped ==
    ASSUME WatchTypeOK
    PROVE  Count(calls) \in Nat /\ Count(replies) \in Nat /\ Len(idle) \in Nat
BY OfNotifierFinite, LenProperties DEF WatchTypeOK

LEMMA WatchInit == Init => WatchInv
<1> SUFFICES ASSUME Init PROVE WatchInv
  OBVIOUS
<1> USE DEF Init
<1>1. calls \in Seq(Question) /\ replies \in Seq(Answer) /\ idle \in Seq(Nat) /\ Len(idle) = 0
  OBVIOUS
<1>2. current_cmdline \in [line : Lines, of : Nat] /\ command_line \in Lines
  BY DEF NoCommand, Lines
<1>3. WatchTypeOK
  BY <1>1, <1>2 DEF WatchTypeOK
<1>4. Count(calls) = 0 /\ Count(replies) = 0 /\ current_cmdline.line = NoLine
  BY CountOfNone DEF NoCommand
<1>5. Asked = 0
  BY <1>1, <1>4 DEF Asked, One
<1> QED
  BY <1>3, <1>5 DEF WatchInv

(* A question for who, about the command of, if it is about one.           *)
LEMMA AskCounts ==
    ASSUME WatchTypeOK, NEW who \in Who, NEW of \in Nat, Ask(who, of)
    PROVE  /\ calls' \in Seq(Question) /\ replies' \in Seq(Answer) /\ idle' \in Seq(Nat)
           /\ command_line' \in Lines
           /\ Count(calls') + Count(replies') + Len(idle')
                = Count(calls) + Count(replies) + Len(idle) + One(who = "notify")
<1> USE DEF WatchTypeOK
<1>1. CASE process = 0
  <2>1. calls' = calls /\ replies' = replies /\ command_line' \in Lines
    BY <1>1 DEF Ask, Lines
  <2>2. CASE who = "notify"
    <3>1. idle' = Append(idle, of)
      BY <1>1, <2>2 DEF Ask
    <3>2. idle' \in Seq(Nat) /\ Len(idle') = Len(idle) + 1
      BY <3>1, AppendProperties
    <3> QED
      BY <2>1, <2>2, <3>2, CountsTyped DEF One
  <2>3. CASE who # "notify"
    <3>1. idle' = idle
      BY <1>1, <2>3 DEF Ask
    <3> QED
      BY <2>1, <2>3, <3>1, CountsTyped DEF One
  <2> QED
    BY <2>2, <2>3
<1>2. CASE process # 0
  <2> DEFINE q == [who |-> who, gen |-> process, of |-> of]
  <2>1. calls' = Append(calls, q) /\ replies' = replies /\ idle' = idle
        /\ command_line' = command_line
    BY <1>2 DEF Ask, polled
  <2>2. q \in Question /\ q.who = who
    BY DEF Question
  <2> HIDE DEF q
  <2>3. calls' \in Seq(Question)
    BY <2>1, <2>2, AppendProperties
  <2>4. Count(calls') = Count(calls) + One(who = "notify")
    BY <2>1, <2>2, CountAppend
  <2> QED
    BY <2>1, <2>3, <2>4, CountsTyped DEF One
<1> QED
  BY <1>1, <1>2

LEMMA AnswersTyped ==
    ASSUME WatchTypeOK, NEW q \in Question, NEW a \in Answered(q)
    PROVE  a \in Answer /\ a.who = q.who
<1> USE DEF Question
<1>1. CASE q.gen = gen /\ agent = "running"
  <2>1. a = [who |-> q.who, of |-> q.of, has |-> fg.pid # gen, pid |-> fg.pid, line |-> fg.line]
    BY <1>1 DEF Answered
  <2>2. fg.pid \in Int /\ fg.line \in Lines
    BY DEF WatchTypeOK, Lines
  <2>3. (fg.pid # gen) \in BOOLEAN
    OBVIOUS
  <2> QED
    BY <2>1, <2>2, <2>3, Zenon DEF Answer
<1>2. CASE ~(q.gen = gen /\ agent = "running") /\ q.gen = gen /\ agent = "exited"
  <2>1. a = [who |-> q.who, of |-> q.of, has |-> TRUE, pid |-> 0, line |-> Empty]
    BY <1>2 DEF Answered
  <2> QED
    BY <2>1 DEF Answer, Lines
<1>3. CASE ~(q.gen = gen /\ agent = "running") /\ ~(q.gen = gen /\ agent = "exited")
  BY <1>3 DEF Answered, Answer, Question, Lines, GarbagePid
<1> QED
  BY <1>1, <1>2, <1>3

-----------------------------------------------------------------------------
(* Each step keeps it *)

LEMMA AgentAnswersKeeps == ASSUME WatchInv, AgentAnswers PROVE WatchInv'
<1> USE DEF AgentAnswers, truth, polled, signs, notify
<1>1. WatchTypeOK /\ calls \in Seq(Question) /\ calls # << >> /\ replies \in Seq(Answer)
  BY DEF WatchInv, WatchTypeOK
<1>2. PICK a \in Answered(Head(calls)) : replies' = Append(replies, a)
  OBVIOUS
<1>3. Head(calls) \in Question /\ calls' \in Seq(Question)
  BY <1>1, HeadTailProperties
<1>4. a \in Answer /\ a.who = Head(calls).who
  BY <1>1, <1>3, AnswersTyped
<1>5. Count(calls) = Count(calls') + One(Head(calls).who = "notify")
  BY <1>1, CountTail
<1>6. replies' \in Seq(Answer) /\ Count(replies') = Count(replies) + One(a.who = "notify")
  BY <1>1, <1>2, <1>4, AppendProperties, CountAppend
<1>7. WatchTypeOK'
  BY <1>3, <1>6 DEF WatchInv, WatchTypeOK
<1>8. /\ Count(calls) \in Nat /\ Count(calls') \in Nat /\ Count(replies) \in Nat
      /\ Count(replies') \in Nat /\ Len(idle) \in Nat
  BY <1>1, <1>3, <1>6, OfNotifierFinite, CountsTyped
<1>9. Count(calls') + Count(replies') = Count(calls) + Count(replies)
  BY <1>4, <1>5, <1>6, <1>8 DEF One
<1>10. Asked' = Asked
  BY <1>8, <1>9 DEF Asked
<1> QED
  BY <1>7, <1>10 DEF WatchInv

(* The answer to a notifier becomes the command line, or nothing.          *)
LEMMA ReplyKeeps == ASSUME WatchInv, Reply PROVE WatchInv'
<1> DEFINE a == Head(replies)
<1>1. WatchTypeOK /\ replies \in Seq(Answer) /\ replies # << >>
  BY DEF WatchInv, WatchTypeOK, Reply
<1>2. a \in Answer /\ replies' \in Seq(Answer)
  BY <1>1, HeadTailProperties DEF Reply
<1>3. Count(replies) = Count(replies') + One(a.who = "notify")
  BY <1>1, CountTail DEF Reply
<1> DEFINE left  == One(current_cmdline.line # NoLine)
           left2 == One(current_cmdline'.line # NoLine)
<1>6. /\ Count(calls) \in Nat /\ Count(replies) \in Nat /\ Count(replies') \in Nat
      /\ Len(idle) \in Nat /\ left \in 0 .. 1 /\ left2 \in 0 .. 1
  BY <1>1, <1>2, OfNotifierFinite, CountsTyped DEF One
<1>7. /\ Asked = Count(calls) + Count(replies) + Len(idle) + left
      /\ Asked' = Count(calls) + Count(replies') + Len(idle) + left2
  BY DEF Asked, Reply
<1>8. sent' = sent /\ commands' = commands /\ sent \in Nat /\ commands \in Nat
      /\ sent + Asked <= commands
  BY DEF Reply, WatchInv, WatchTypeOK
<1> HIDE DEF left, left2
<1>4. CASE a.who = "notify"
  <2>1. current_cmdline' = [line |-> a.line, of |-> a.of]
    BY <1>4 DEF Reply, Delivered
  <2>2. current_cmdline' \in [line : Lines, of : Nat]
    BY <1>2, <2>1 DEF Answer
  <2>3. WatchTypeOK'
    BY <1>1, <1>2, <2>2 DEF WatchTypeOK, Reply, truth, signs, Answer
  <2>4. Count(replies) = Count(replies') + 1
    BY <1>3, <1>4 DEF One
  <2>5. Count(calls) + Count(replies') + Len(idle) + left2
           <= Count(calls) + Count(replies) + Len(idle) + left
    BY <1>6, <2>4
  <2>6. Count(calls) + Count(replies') + Len(idle) + left2 \in Nat
        /\ Count(calls) + Count(replies) + Len(idle) + left \in Nat
    BY <1>6
  <2>7. Asked' <= Asked /\ Asked' \in Nat /\ Asked \in Nat
    BY <1>7, <2>5, <2>6, Zenon
  <2>8. sent + Asked' <= commands
    BY <2>7, <1>8, StaysBelow
  <2> QED
    BY <2>3, <2>8, <1>8 DEF WatchInv
<1>5. CASE a.who # "notify"
  <2>1. current_cmdline' = current_cmdline
    BY <1>5 DEF Reply, Delivered, monitor
  <2>2. WatchTypeOK'
    BY <1>1, <1>2, <2>1 DEF WatchTypeOK, Reply, truth, signs, Answer
  <2>3. Count(replies) = Count(replies') /\ left = left2
    BY <1>3, <1>5, <1>6, <2>1 DEF One, left, left2
  <2>4. Asked' = Asked
    BY <1>7, <2>3
  <2> QED
    BY <2>2, <2>4, <1>8 DEF WatchInv
<1> QED
  BY <1>4, <1>5

LEMMA ReplyAtOnceKeeps == ASSUME WatchInv, ReplyAtOnce PROVE WatchInv'
<1> USE DEF ReplyAtOnce
<1>1. WatchTypeOK /\ idle \in Seq(Nat) /\ idle # << >>
  BY DEF WatchInv, WatchTypeOK
<1>2. Head(idle) \in Nat /\ idle' \in Seq(Nat) /\ Len(idle') = Len(idle) - 1
  BY <1>1, HeadTailProperties
<1>3. current_cmdline' \in [line : Lines, of : Nat]
  BY <1>1, <1>2 DEF WatchTypeOK
<1>4. WatchTypeOK'
  BY <1>1, <1>2, <1>3 DEF WatchTypeOK, truth, polled, signs
<1>5. Asked' <= Asked /\ Asked \in Nat /\ Asked' \in Nat
  BY <1>1, <1>2, <1>4, CountsTyped, LenProperties DEF Asked, One
<1>6. sent' = sent /\ commands' = commands /\ sent \in Nat /\ commands \in Nat
      /\ sent + Asked <= commands
  BY DEF WatchInv, WatchTypeOK, signs
<1>8. sent + Asked' <= commands
  BY <1>5, <1>6, StaysBelow
<1>7. sent' + Asked' <= commands'
  BY <1>6, <1>8
<1> QED
  BY <1>4, <1>7 DEF WatchInv

(* A command begins: what was left of the one before it is forgotten.      *)
LEMMA PreexecKeeps == ASSUME WatchInv, Preexec PROVE WatchInv'
<1> USE DEF Preexec
<1>1. WatchTypeOK /\ commands' = commands + 1 /\ commands' \in Nat
  BY DEF WatchInv, WatchTypeOK
<1>2. Ask("notify", commands')
  OBVIOUS
<1>3. /\ calls' \in Seq(Question) /\ replies' \in Seq(Answer) /\ idle' \in Seq(Nat)
      /\ command_line' \in Lines
      /\ Count(calls') + Count(replies') + Len(idle')
           = Count(calls) + Count(replies) + Len(idle) + 1
  BY <1>1, <1>2, AskCounts DEF Who, One
<1>4. current_cmdline' \in [line : Lines, of : Nat] /\ current_cmdline'.line = NoLine
  BY DEF NoCommand, Lines
<1>5. WatchTypeOK'
  BY <1>1, <1>3, <1>4 DEF WatchTypeOK, signs
<1>6. Asked' <= Asked + 1 /\ Asked \in Nat /\ Asked' \in Nat
  BY <1>1, <1>3, <1>4, <1>5, CountsTyped, OfNotifierFinite, LenProperties DEF Asked, One
<1>7. sent' = sent /\ sent \in Nat /\ commands \in Nat /\ sent + Asked <= commands
  BY DEF WatchInv, WatchTypeOK, signs
<1>9. sent + Asked' <= commands + 1
  BY <1>6, <1>7, OneMore
<1>8. sent' + Asked' <= commands'
  BY <1>1, <1>7, <1>9
<1> QED
  BY <1>5, <1>8 DEF WatchInv

(* A command ends: its command line is notified, if at all, and forgotten. *)
LEMMA PrecmdKeepsInv == ASSUME WatchInv, Precmd PROVE WatchInv'
<1> USE DEF Precmd
<1>1. WatchTypeOK
  BY DEF WatchInv
<1>2. current_cmdline' \in [line : Lines, of : Nat] /\ current_cmdline'.line = NoLine
  BY DEF NoCommand, Lines
<1>3. sent' \in Nat /\ sent' <= sent + One(current_cmdline.line # NoLine)
  BY <1>1 DEF ShowNotification, WatchTypeOK, signs, One
<1>4. WatchTypeOK'
  BY <1>1, <1>2, <1>3 DEF WatchTypeOK, wire, polled
<1>5. Asked' + One(current_cmdline.line # NoLine) = Asked
  BY <1>1, <1>2, CountsTyped DEF Asked, One, wire
<1>6. Asked' \in Nat /\ Asked \in Nat
  BY <1>1, <1>2, CountsTyped DEF Asked, One, wire
<1>7. commands' = commands /\ commands \in Nat /\ sent \in Nat /\ sent + Asked <= commands
  BY DEF WatchInv, WatchTypeOK
<1>8. One(current_cmdline.line # NoLine) \in Nat
  BY DEF One
<1>10. sent' + Asked' <= commands
  BY <1>3, <1>5, <1>6, <1>7, <1>8, UsedUp
<1>9. sent' + Asked' <= commands'
  BY <1>7, <1>10
<1> QED
  BY <1>4, <1>9 DEF WatchInv

(* A question of the monitor or of a dialog is none of the notifier.       *)
LEMMA OtherAskKeeps ==
    ASSUME WatchInv, NEW who \in {"monitor", "dialog"}, Ask(who, 0),
           UNCHANGED << truth, process, signs, notify >>
    PROVE  WatchInv'
<1> USE DEF truth, signs, notify
<1>1. WatchTypeOK /\ who \in Who
  BY DEF WatchInv, Who
<1>2. /\ calls' \in Seq(Question) /\ replies' \in Seq(Answer) /\ idle' \in Seq(Nat)
      /\ command_line' \in Lines
      /\ Count(calls') + Count(replies') + Len(idle') = Count(calls) + Count(replies) + Len(idle)
  BY <1>1, AskCounts, CountsTyped DEF One
<1>3. WatchTypeOK'
  BY <1>1, <1>2 DEF WatchTypeOK
<1>4. Asked' = Asked
  BY <1>2 DEF Asked
<1> QED
  BY <1>3, <1>4 DEF WatchInv

(* Nothing else touches what may lead to a notification.                   *)
LEMMA ElsewhereKeeps ==
    ASSUME WatchInv, WatchTypeOK', UNCHANGED << wire, current_cmdline, commands, sent >>
    PROVE  WatchInv'
BY DEF WatchInv, Asked, wire

LEMMA TerminalKeeps ==
    ASSUME WatchInv,
           \/ Spawned \/ Announces \/ Prompts \/ PromptsAgain \/ Exits \/ Unexported
           \/ \E c \in Commands : Executes(c)
    PROVE  WatchInv'
<1> USE WatchAssumption DEF WatchInv, WatchTypeOK, wire, polled, signs, notify, ShellActs
<1>1. CASE Spawned
  BY <1>1, ElsewhereKeeps DEF Spawned
<1>2. CASE Announces
  BY <1>2, ElsewhereKeeps DEF Announces
<1>3. CASE Prompts
  BY <1>3, ElsewhereKeeps DEF Prompts
<1>4. CASE PromptsAgain
  BY <1>4, ElsewhereKeeps DEF PromptsAgain
<1>5. CASE Exits \/ Unexported
  BY <1>5, ElsewhereKeeps DEF Exits, Unexported
<1>6. CASE \E c \in Commands : Executes(c)
  BY <1>6, ElsewhereKeeps DEF Executes
<1> QED
  BY <1>1, <1>2, <1>3, <1>4, <1>5, <1>6

LEMMA UserKeeps ==
    ASSUME WatchInv,
           \/ WaitCb \/ SetSetting \/ Unroot \/ Root \/ ContentsChanged \/ KeyPressed
           \/ \E f \in {"tab", "sibling", "away", "hidden"} : FocusMoves(f)
           \/ UNCHANGED vars
    PROVE  WatchInv'
<1> USE DEF WatchInv, WatchTypeOK, truth, wire, polled, signs, notify
<1>1. CASE WaitCb
  BY <1>1, ElsewhereKeeps DEF WaitCb
<1>2. CASE SetSetting \/ Unroot \/ Root
  BY <1>2, ElsewhereKeeps DEF SetSetting, Unroot, Root
<1>3. CASE ContentsChanged \/ KeyPressed
  BY <1>3, ElsewhereKeeps DEF ContentsChanged, KeyPressed
<1>4. CASE \E f \in {"tab", "sibling", "away", "hidden"} : FocusMoves(f)
  BY <1>4, ElsewhereKeeps DEF FocusMoves
<1>5. CASE UNCHANGED vars
  BY <1>5, ElsewhereKeeps DEF vars
<1> QED
  BY <1>1, <1>2, <1>3, <1>4, <1>5

LEMMA UpdateSourceKeeps == ASSUME WatchInv, UpdateSource PROVE WatchInv'
<1>1. CASE Ask("monitor", 0)
  BY <1>1, OtherAskKeeps DEF UpdateSource
<1>2. CASE UNCHANGED << wire, polled >>
  BY <1>2, ElsewhereKeeps DEF UpdateSource, WatchInv, WatchTypeOK, truth, wire, polled, signs, notify
<1> QED
  BY <1>1, <1>2 DEF UpdateSource

LEMMA WatchNext == WatchInv /\ [Next]_vars => WatchInv'
<1> SUFFICES ASSUME WatchInv, [Next]_vars PROVE WatchInv'
  OBVIOUS
<1>1. CASE DialogAsks
  BY <1>1, OtherAskKeeps DEF DialogAsks
<1>2. CASE AgentAnswers \/ Reply \/ ReplyAtOnce
  BY <1>2, AgentAnswersKeeps, ReplyKeeps, ReplyAtOnceKeeps
<1>3. CASE Preexec \/ Precmd \/ UpdateSource
  BY <1>3, PreexecKeeps, PrecmdKeepsInv, UpdateSourceKeeps
<1> QED
  BY <1>1, <1>2, <1>3, TerminalKeeps, UserKeeps DEF Next

-----------------------------------------------------------------------------
(* Theorems *)

(* However late the answers of the agent are, for any number of processes  *)
(* and commands, the notifications sent and those that may still come are  *)
(* no more than the commands that began.                                   *)
THEOREM WatchInvariant == Spec => []WatchInv
BY WatchInit, WatchNext, PTL DEF Spec

(* A command is notified at most once: each answer of the agent to the     *)
(* notifier is forgotten with the notification made from it                *)
(* (ptyxis_tab_notify_shell_precmd_cb).                                    *)
THEOREM NotifiedAtMostOnce == Spec => []AtMostOnePerCommand
<1>1. WatchInv => AtMostOnePerCommand
  <2> SUFFICES ASSUME WatchInv PROVE AtMostOnePerCommand
    OBVIOUS
  <2>1. WatchTypeOK /\ sent + Asked <= commands
    BY DEF WatchInv
  <2>2. Asked \in Nat
    BY <2>1, CountsTyped DEF Asked, One
  <2> QED
    BY <2>1, <2>2 DEF AtMostOnePerCommand, WatchTypeOK
<1> QED
  BY <1>1, WatchInvariant, PTL
=============================================================================
