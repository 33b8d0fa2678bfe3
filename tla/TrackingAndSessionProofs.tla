---------------------- MODULE TrackingAndSessionProofs ----------------------
(***************************************************************************)
(* The UI's list of containers follows the agent's, and the agent's the    *)
(* provider's, for any containers and however often podman is asked.       *)
(*                                                                         *)
(* The model is built from folds, so the proofs are about traces: a fold   *)
(* of the community modules is where a trace ends (IterationThere,         *)
(* IterationIsTrace and a lemma for each operator that is folded), and     *)
(* what holds along a trace is shown by the least index that it would not  *)
(* hold at.  Two facts carry the invariant.  Messages compose: to change a *)
(* list by p \o q is to change it by p, then by q (MoreChanged), so that   *)
(* what a merge sends turns the agent's old list into its new one, and     *)
(* the UI's with it.  Order decides: two parts of a list that have the     *)
(* same ids are the same (SameOrder), so that removals in any order leave  *)
(* the agent what the provider keeps.                                      *)
(*                                                                         *)
(* The other list that is taken apart and put together again is that of    *)
(* the windows: what was saved of them comes back, and with one instance   *)
(* at a time no pinned tab is lost.  Only is a fold as well, and draws the *)
(* tabs that come back from those there are (OnlyDraws).  Where pinned     *)
(* tabs come first and none twice (Tidy), these are a prefix (OnlyComing), *)
(* so that saving and restoring lose none of them.  The invariant then     *)
(* follows the kept tabs: while there are windows they are shown there,    *)
(* and when the last has gone they are in what is written last (Keeps).    *)
(***************************************************************************)
EXTENDS ContainerTracking, AppSession, SequenceTheorems, FiniteSetTheorems, WellFoundedInduction, TLAPS

-----------------------------------------------------------------------------
(* Folds *)

(* Every set of numbers has a least one.                                   *)
LEMMA NatMin ==
    ASSUME NEW T, T \subseteq Nat, T # {}
    PROVE  \E x \in T : \A y \in T : x <= y
<1> DEFINE R == OpToRel(<, Nat)
<1>1. IsWellFoundedOn(R, Nat)
  BY NatLessThanWellFounded
<1>2. \A y, x \in Nat : y < x => << y, x >> \in R
  BY DEF OpToRel
<1> HIDE DEF R
<1>3. PICK x \in T : \A y \in T : ~(<< y, x >> \in R)
  BY <1>1, WFMin
<1>4. \A y \in T : ~(y < x)
  BY <1>2, <1>3
<1>5. \A y \in T : x <= y
  BY <1>4
<1> QED
  BY <1>5

(* A set of numbers that is bounded has a largest one.                     *)
LEMMA MaxOf ==
    ASSUME NEW m \in Nat, NEW S, S \subseteq 1 .. m, S # {}
    PROVE  Max(S) \in S /\ \A y \in S : y <= Max(S)
<1> DEFINE T == { k \in Nat : \E x \in S : k = m - x }
<1>1. T \subseteq Nat /\ T # {}
  <2>1. PICK x \in S : TRUE
    OBVIOUS
  <2>2. x \in Int /\ m - x \in Nat
    BY <2>1
  <2> QED
    BY <2>1, <2>2
<1>2. PICK k \in T : \A l \in T : k <= l
  BY <1>1, NatMin
<1>3. PICK x \in S : k = m - x
  BY <1>2
<1>4. \A y \in S : y <= x
  <2> SUFFICES ASSUME NEW y \in S PROVE y <= x
    OBVIOUS
  <2>1. x \in 1 .. m /\ y \in 1 .. m
    OBVIOUS
  <2>2. m - y \in T
    BY <2>1
  <2>3. k <= m - y
    BY <1>2, <2>2
  <2> QED
    BY <1>3, <2>1, <2>3
<1> HIDE DEF T
<1>5. \A y \in S : x >= y
  BY <1>3, <1>4
<1>6. Max(S) = CHOOSE z \in S : \A y \in S : z >= y
  BY DEF Max
<1>7. Max(S) \in S /\ \A y \in S : Max(S) >= y
  BY <1>3, <1>5, <1>6
<1>8. \A y \in S : Max(S) >= y => y <= Max(S)
  BY <1>7
<1> QED
  BY <1>7, <1>8

(* The values that f takes from b on along q.                              *)
Trace(f, b, q, tr) ==
    /\ DOMAIN tr = 0 .. Len(q)
    /\ tr[0] = b
    /\ \A i \in 1 .. Len(q) : tr[i] = f[tr[i - 1]][q[i]]

(* ... all of S and, at last, v.                                           *)
Leads(S, f, b, q, v) == \E tr \in [0 .. Len(q) -> S] : Trace(f, b, q, tr) /\ tr[Len(q)] = v

(* What the fold of the community modules iterates, on the indices up to n.*)
Iterated(f, b, q, n, it) ==
    it = [s \in SUBSET (1 .. n) |->
             IF s = {} THEN b ELSE f[it[s \ {Max(s)}]][q[Max(s)]]]

(* There is such an iteration, of values, by induction on n.               *)
LEMMA IterationThere ==
    ASSUME NEW S, NEW T, NEW f \in [S -> [T -> S]], NEW b \in S, NEW q \in Seq(T)
    PROVE  \E it \in [SUBSET (1 .. Len(q)) -> S] : Iterated(f, b, q, Len(q), it)
<1> DEFINE n == Len(q)
           Good(m) == \E it \in [SUBSET (1 .. m) -> S] : Iterated(f, b, q, m, it)
           U == { m \in 0 .. n : ~Good(m) }
<1>0. n \in Nat /\ \A k \in 1 .. n : q[k] \in T
  BY ElementOfSeq, LenProperties
<1>1. SUFFICES ASSUME U # {} PROVE FALSE
  <2>1. n \in 0 .. n
    BY <1>0
  <2> QED
    BY <2>1
<1> HIDE DEF n
<1>2. PICK m \in U : \A l \in U : m <= l
  <2>1. U \subseteq Nat
    BY <1>0
  <2> QED
    BY <1>1, <2>1, NatMin
<1>3. m # 0
  <2> DEFINE it == [s \in SUBSET (1 .. 0) |-> b]
  <2>1. 1 .. 0 = {}
    OBVIOUS
  <2>2. Iterated(f, b, q, 0, it)
    BY <2>1 DEF Iterated
  <2>3. Good(0)
    BY <2>2
  <2> QED
    BY <1>2, <2>3
<1>4. m \in 1 .. n /\ m \in Nat /\ m - 1 \in 0 .. n /\ m - 1 \in Nat /\ ~(m <= m - 1)
  BY <1>0, <1>2, <1>3
<1>5. PICK it \in [SUBSET (1 .. m - 1) -> S] : Iterated(f, b, q, m - 1, it)
  BY <1>2, <1>4
<1> DEFINE low == SUBSET (1 .. m - 1)
           g == [s \in SUBSET (1 .. m) |-> IF s \in low THEN it[s] ELSE f[it[s \ {m}]][q[m]]]
<1>6. ASSUME NEW s \in SUBSET (1 .. m)
      PROVE  g[s] = IF s = {} THEN b ELSE f[g[s \ {Max(s)}]][q[Max(s)]]
  <2>1. CASE s = {}
    BY <1>5, <2>1 DEF Iterated
  <2>2. CASE s # {} /\ s \in low
    <3>1. Max(s) \in s
      BY <1>4, <2>2, MaxOf
    <3>2. s \ {Max(s)} \in low /\ s \ {Max(s)} \in SUBSET (1 .. m)
      BY <2>2
    <3>3. g[s] = it[s] /\ g[s \ {Max(s)}] = it[s \ {Max(s)}]
      BY <2>2, <3>2
    <3>4. it[s] = f[it[s \ {Max(s)}]][q[Max(s)]]
      BY <1>5, <2>2 DEF Iterated
    <3> QED
      BY <2>2, <3>3, <3>4
  <2>3. CASE s \notin low
    <3>1. m \in s /\ s # {}
      BY <1>4, <2>3
    <3>2. Max(s) = m
      <4>1. Max(s) \in s /\ m <= Max(s)
        BY <1>4, <3>1, MaxOf
      <4>2. Max(s) \in 1 .. m
        BY <4>1
      <4> QED
        BY <1>4, <4>1, <4>2
    <3>3. s \ {m} \in low /\ s \ {m} \in SUBSET (1 .. m)
      BY <1>4
    <3>4. g[s \ {m}] = it[s \ {m}] /\ g[s] = f[it[s \ {m}]][q[m]]
      BY <2>3, <3>3
    <3> QED
      BY <3>1, <3>2, <3>4
  <2> QED
    BY <2>1, <2>2, <2>3
<1>7. Iterated(f, b, q, m, g)
  <2>1. g = [s \in SUBSET (1 .. m) |-> g[s]]
    OBVIOUS
  <2> HIDE DEF g
  <2>2. g = [s \in SUBSET (1 .. m) |-> IF s = {} THEN b ELSE f[g[s \ {Max(s)}]][q[Max(s)]]]
    BY <1>6, <2>1
  <2> QED
    BY <2>2 DEF Iterated
<1>8. g \in [SUBSET (1 .. m) -> S]
  <2>1. ASSUME NEW s \in SUBSET (1 .. m) PROVE g[s] \in S
    <3>1. CASE s \in low
      BY <3>1
    <3>2. CASE s \notin low
      <4>1. s \ {m} \in low
        BY <1>4
      <4>2. it[s \ {m}] \in S /\ q[m] \in T
        BY <1>0, <1>4, <4>1
      <4> QED
        BY <3>2, <4>2
    <3> QED
      BY <3>1, <3>2
  <2> QED
    BY <2>1
<1> HIDE DEF g
<1>9. Good(m)
  BY <1>7, <1>8
<1> QED
  BY <1>2, <1>9

(* What any such iteration satisfies, as far as its values are of S.       *)
Iterates(S, f, b, q, it) ==
    /\ it[{}] = b
    /\ \A s \in SUBSET (1 .. Len(q)) :
          s # {} /\ it[s \ {Max(s)}] \in S => it[s] = f[it[s \ {Max(s)}]][q[Max(s)]]

(* An iteration along q is a trace, and one of values if f leaves them.    *)
LEMMA IterationIsTrace ==
    ASSUME NEW S, NEW T, NEW f \in [S -> [T -> S]], NEW b \in S, NEW q \in Seq(T),
           NEW it, Iterates(S, f, b, q, it)
    PROVE  Leads(S, f, b, q, it[1 .. Len(q)])
<1> DEFINE n == Len(q)
           tr == [i \in 0 .. n |-> it[1 .. i]]
<1>1. n \in Nat /\ DOMAIN q = 1 .. n /\ \A i \in 1 .. n : q[i] \in T
  BY ElementOfSeq, LenProperties
<1> HIDE DEF n
<1>2. tr[0] = b
  <2>1. 1 .. 0 = {} /\ 0 \in 0 .. n
    BY <1>1
  <2> QED
    BY <2>1 DEF Iterates
<1>3. ASSUME NEW i \in 1 .. n, tr[i - 1] \in S
      PROVE  tr[i] = f[tr[i - 1]][q[i]] /\ tr[i] \in S
  <2>0. i \in Nat /\ i >= 1 /\ i <= n /\ i - 1 \in 0 .. n /\ i \in 0 .. n /\ i \in 1 .. i
    BY <1>1
  <2>1. 1 .. i \in SUBSET (1 .. n) /\ 1 .. i # {}
    <3>1. \A k \in 1 .. i : k \in 1 .. n
      BY <1>1, <2>0
    <3> QED
      BY <2>0, <3>1
  <2>2. Max(1 .. i) = i
    <3>0. 1 .. i \subseteq 1 .. i
      OBVIOUS
    <3>1. Max(1 .. i) \in 1 .. i /\ i <= Max(1 .. i)
      BY <2>0, <2>1, <3>0, MaxOf
    <3> QED
      BY <2>0, <3>1
  <2>3. (1 .. i) \ {i} = 1 .. (i - 1)
    BY <2>0
  <2>4. tr[i - 1] = it[1 .. (i - 1)] /\ tr[i] = it[1 .. i]
    BY <2>0
  <2> HIDE DEF tr
  <2>5. it[(1 .. i) \ {Max(1 .. i)}] \in S
    BY <1>3, <2>2, <2>3, <2>4
  <2>6. it[1 .. i] = f[it[(1 .. i) \ {Max(1 .. i)}]][q[Max(1 .. i)]]
    BY <2>1, <2>5 DEF n, Iterates
  <2>7. tr[i] = f[tr[i - 1]][q[i]]
    BY <2>2, <2>3, <2>4, <2>6
  <2>8. q[i] \in T
    BY <1>1
  <2> QED
    BY <1>3, <2>7, <2>8
<1>4. \A i \in 0 .. n : tr[i] \in S
  <2> DEFINE U == { i \in 0 .. n : tr[i] \notin S }
  <2>1. SUFFICES ASSUME U # {} PROVE FALSE
    OBVIOUS
  <2>2. U \subseteq Nat
    BY <1>1
  <2>3. PICK i \in U : \A j \in U : i <= j
    BY <2>1, <2>2, NatMin
  <2>4. i \in 0 .. n /\ tr[i] \notin S
    BY <2>3
  <2> HIDE DEF tr
  <2>5. i # 0
    BY <1>2, <2>4
  <2>6. i \in 1 .. n /\ i - 1 \in 0 .. n /\ ~(i <= i - 1)
    BY <1>1, <2>4, <2>5
  <2>7. tr[i - 1] \in S
    BY <2>3, <2>6
  <2> QED
    BY <1>3, <2>4, <2>6, <2>7
<1>5. tr[n] = it[1 .. n]
  BY <1>1
<1>6. tr \in [0 .. n -> S] /\ DOMAIN tr = 0 .. n
  BY <1>4
<1> HIDE DEF tr
<1>7. \A i \in 1 .. n : i - 1 \in 0 .. n
  BY <1>1
<1>8. Trace(f, b, q, tr)
  BY <1>2, <1>3, <1>4, <1>6, <1>7 DEF Trace, n
<1> QED
  BY <1>5, <1>6, <1>8 DEF n, Leads

(* A trace is determined by where it begins.                               *)
LEMMA OneTrace ==
    ASSUME NEW f, NEW b, NEW n \in Nat, NEW q, Len(q) = n,
           NEW tr, NEW ur, Trace(f, b, q, tr), Trace(f, b, q, ur)
    PROVE  \A i \in 0 .. n : tr[i] = ur[i]
<1> DEFINE U == { i \in 0 .. n : tr[i] # ur[i] }
<1>1. SUFFICES ASSUME U # {} PROVE FALSE
  OBVIOUS
<1>2. U \subseteq Nat
  OBVIOUS
<1>3. PICK i \in U : \A j \in U : i <= j
  BY <1>1, <1>2, NatMin
<1>4. i # 0
  BY <1>3 DEF Trace
<1>5. i \in 1 .. n /\ i - 1 \in 0 .. n /\ ~(i <= i - 1)
  BY <1>3, <1>4
<1>6. tr[i - 1] = ur[i - 1]
  BY <1>3, <1>5
<1>7. tr[i] = f[tr[i - 1]][q[i]] /\ ur[i] = f[ur[i - 1]][q[i]]
  BY <1>5 DEF Trace
<1> QED
  BY <1>3, <1>6, <1>7

Lists == Seq(Containers)

ChangedFn == [list \in Lists |-> [m \in Messages |-> Changed(list, m)]]

(* The UI's list stays one of containers.                                  *)
LEMMA ChangedType ==
    ASSUME NEW list \in Lists, NEW m \in Messages
    PROVE  Changed(list, m) \in Lists
<1>1. Len(list) \in Nat /\ DOMAIN list = 1 .. Len(list) /\ \A k \in 1 .. Len(list) : list[k] \in Containers
  BY LenProperties, ElementOfSeq DEF Lists
<1>2. m.pos \in Nat /\ m.removed \in {0, 1} /\ m.added \in Lists
  BY DEF Messages, Lists
<1>3. CASE m.pos + m.removed > Len(list)
  BY <1>3 DEF Changed
<1>4. CASE ~(m.pos + m.removed > Len(list))
  <2>1. SubSeq(list, 1, m.pos) \in Seq(Containers)
    BY <1>1, <1>2, <1>4, SubSeqProperties
  <2>2. SubSeq(list, m.pos + m.removed + 1, Len(list)) \in Seq(Containers)
    BY <1>1, <1>2, <1>4, SubSeqProperties
  <2>3. SubSeq(list, 1, m.pos) \o m.added \in Seq(Containers)
    BY <1>2, <2>1, ConcatProperties DEF Lists
  <2>4. SubSeq(list, 1, m.pos) \o m.added \o SubSeq(list, m.pos + m.removed + 1, Len(list)) \in Seq(Containers)
    BY <2>2, <2>3, ConcatProperties
  <2> QED
    BY <1>4, <2>4 DEF Changed, Lists
<1> QED
  BY <1>3, <1>4

(* The fold over the messages is where their trace ends.                   *)
LEMMA ChangedFold ==
    ASSUME NEW b \in Lists, NEW q \in Seq(Messages)
    PROVE  Leads(Lists, ChangedFn, b, q, FoldLeft(Changed, b, q))
<1> DEFINE n == Len(q)
           Chosen(it) == it = [s \in SUBSET (1 .. n) |->
                                 IF s = {} THEN b ELSE Changed(it[s \ {Max(s)}], q[Max(s)])]
           it == CHOOSE i : Chosen(i)
<1>1. n \in Nat /\ DOMAIN q = 1 .. n /\ \A i \in 1 .. n : q[i] \in Messages
  BY ElementOfSeq, LenProperties
<1>2. ChangedFn \in [Lists -> [Messages -> Lists]]
  BY ChangedType DEF ChangedFn
<1>3. FoldLeft(Changed, b, q) = it[1 .. n]
  BY <1>1 DEF FoldLeft, MapThenFoldSet
<1> HIDE DEF n
<1>4. \A l \in Lists, e \in Messages : ChangedFn[l][e] = Changed(l, e)
  BY DEF ChangedFn
<1>5. \A s \in SUBSET (1 .. n) : s # {} => q[Max(s)] \in Messages /\ s \ {Max(s)} \in SUBSET (1 .. n)
  BY <1>1, MaxOf
<1>6. Chosen(it)
  <2>1. PICK g \in [SUBSET (1 .. n) -> Lists] : Iterated(ChangedFn, b, q, n, g)
    BY <1>2, IterationThere DEF n
  <2>2. \A s \in SUBSET (1 .. n) :
           g[s] = IF s = {} THEN b ELSE Changed(g[s \ {Max(s)}], q[Max(s)])
    BY <1>4, <1>5, <2>1 DEF Iterated
  <2>3. Chosen(g)
    BY <2>1, <2>2
  <2> QED
    BY <2>3
<1> HIDE DEF it
<1>7. it[{}] = b
  BY <1>6
<1>8. \A s \in SUBSET (1 .. n) :
         s # {} /\ it[s \ {Max(s)}] \in Lists => it[s] = ChangedFn[it[s \ {Max(s)}]][q[Max(s)]]
  BY <1>4, <1>5, <1>6
<1>9. Iterates(Lists, ChangedFn, b, q, it)
  BY <1>7, <1>8 DEF n, Iterates
<1>10. Leads(Lists, ChangedFn, b, q, it[1 .. Len(q)])
  BY <1>2, <1>9, IterationIsTrace
<1> QED
  BY <1>3, <1>10 DEF n

(* A message that is appended to a list.                                   *)
LEMMA MessageType ==
    ASSUME NEW p \in Nat, NEW r \in {0, 1}, NEW list \in Lists
    PROVE  Change(p, r, list) \in Messages
BY DEF Change, Messages, Lists

(* The agent's list and what it sent.                                      *)
Sendings == [agent : Lists, sent : Seq(Messages)]

AddedFn   == [to \in Sendings |-> [c \in Containers |-> Added(to, c)]]
RemovedFn == [to \in Sendings |-> [c \in Containers |-> Removed(to, c)]]

KeepIn(ids, list, c) == IF c.id \in ids THEN Append(list, c) ELSE list
KeptFn(ids) == [list \in Lists |-> [c \in Containers |-> KeepIn(ids, list, c)]]

(* Adding leaves a list of containers and messages.                        *)
LEMMA AddedType ==
    ASSUME NEW to \in Sendings, NEW c \in Containers
    PROVE  Added(to, c) \in Sendings
<1>1. to.agent \in Seq(Containers) /\ to.sent \in Seq(Messages)
  BY DEF Sendings, Lists
<1>2. Append(to.agent, c) \in Lists
  BY <1>1, AppendProperties DEF Lists
<1>3. Len(to.agent) \in Nat /\ << c >> \in Lists
  BY <1>1, LenProperties DEF Lists
<1>4. Change(Len(to.agent), 0, << c >>) \in Messages
  BY <1>3, MessageType
<1>5. Append(to.sent, Change(Len(to.agent), 0, << c >>)) \in Seq(Messages)
  BY <1>1, <1>4, AppendProperties
<1> QED
  BY <1>2, <1>5 DEF Added, Sendings

(* Where a container is.                                                   *)
LEMMA PositionThere ==
    ASSUME NEW list \in Lists, NEW i \in IdSet(list)
    PROVE  Position(i, list) \in 1 .. Len(list) /\ list[Position(i, list)].id = i
<1>1. DOMAIN list = 1 .. Len(list)
  BY LenProperties DEF Lists
<1>2. \E k \in DOMAIN list : list[k].id = i
  BY DEF IdSet
<1> QED
  BY <1>1, <1>2 DEF Position

(* A list without the element at k.                                        *)
LEMMA RemoveAtProperties ==
    ASSUME NEW S, NEW s \in Seq(S), NEW k \in 1 .. Len(s)
    PROVE  /\ RemoveAt(s, k) \in Seq(S)
           /\ Len(RemoveAt(s, k)) = Len(s) - 1
           /\ \A j \in 1 .. Len(s) - 1 : RemoveAt(s, k)[j] = s[IF j < k THEN j ELSE j + 1]
<1> DEFINE a == SubSeq(s, 1, k - 1)
           b == SubSeq(s, k + 1, Len(s))
<1>1. Len(s) \in Nat /\ k \in Nat /\ 1 <= k /\ k <= Len(s) /\ \A j \in 1 .. Len(s) : s[j] \in S
  BY LenProperties, ElementOfSeq
<1>2. a \in Seq(S) /\ Len(a) = k - 1 /\ \A j \in 1 .. k - 1 : a[j] = s[j]
  <2>1. \A j \in 1 .. k - 1 : s[j] \in S
    BY <1>1
  <2> QED
    BY <1>1, <2>1, SubSeqProperties
<1>3. b \in Seq(S) /\ Len(b) = Len(s) - k /\ \A j \in 1 .. Len(s) - k : b[j] = s[k + j]
  <2>1. \A j \in k + 1 .. Len(s) : s[j] \in S
    BY <1>1
  <2>2. /\ SubSeq(s, k + 1, Len(s)) \in Seq(S)
        /\ Len(SubSeq(s, k + 1, Len(s))) = IF k + 1 <= Len(s) THEN Len(s) - (k + 1) + 1 ELSE 0
        /\ \A i \in 1 .. Len(s) - (k + 1) + 1 : SubSeq(s, k + 1, Len(s))[i] = s[k + 1 + i - 1]
    BY <1>1, <2>1, SubSeqProperties
  <2>3. \A j \in 1 .. Len(s) - k : k + 1 + j - 1 = k + j /\ j \in 1 .. Len(s) - (k + 1) + 1
    BY <1>1
  <2> QED
    BY <1>1, <2>2, <2>3
<1>4. RemoveAt(s, k) = a \o b
  BY DEF RemoveAt
<1> HIDE DEF a, b
<1>5. /\ a \o b \in Seq(S) /\ Len(a \o b) = Len(a) + Len(b)
      /\ \A i \in 1 .. Len(a) + Len(b) : (a \o b)[i] = IF i <= Len(a) THEN a[i] ELSE b[i - Len(a)]
  BY <1>2, <1>3, ConcatProperties
<1>6. ASSUME NEW j \in 1 .. Len(s) - 1
      PROVE  (a \o b)[j] = s[IF j < k THEN j ELSE j + 1]
  <2>1. CASE j < k
    BY <1>1, <1>2, <1>3, <1>5, <2>1
  <2>2. CASE ~(j < k)
    <3>1. j - (k - 1) \in 1 .. Len(s) - k /\ k + (j - (k - 1)) = j + 1
      BY <1>1, <2>2
    <3>2. (a \o b)[j] = b[j - (k - 1)]
      BY <1>1, <1>2, <1>3, <1>5, <2>2
    <3> QED
      BY <1>3, <2>2, <3>1, <3>2
  <2> QED
    BY <2>1, <2>2
<1> QED
  BY <1>1, <1>2, <1>3, <1>4, <1>5, <1>6

(* So does removing.                                                       *)
LEMMA RemovedType ==
    ASSUME NEW to \in Sendings, NEW c \in Containers
    PROVE  Removed(to, c) \in Sendings
<1>1. to.agent \in Lists /\ to.sent \in Seq(Messages)
  BY DEF Sendings
<1>2. CASE c.id \notin IdSet(to.agent)
  BY <1>2 DEF Removed
<1>3. CASE c.id \in IdSet(to.agent)
  <2> DEFINE k == Position(c.id, to.agent)
  <2>1. k \in 1 .. Len(to.agent)
    BY <1>1, <1>3, PositionThere
  <2>2. RemoveAt(to.agent, k) \in Lists
    BY <1>1, <2>1, RemoveAtProperties DEF Lists
  <2>3. k - 1 \in Nat /\ << >> \in Lists
    BY <2>1 DEF Lists
  <2>4. Change(k - 1, 1, << >>) \in Messages
    BY <2>3, MessageType
  <2>5. Append(to.sent, Change(k - 1, 1, << >>)) \in Seq(Messages)
    BY <1>1, <2>4, AppendProperties
  <2> QED
    BY <1>3, <2>2, <2>5 DEF Removed, Sendings
<1> QED
  BY <1>2, <1>3

(* And so does keeping some.                                               *)
LEMMA KeptType ==
    ASSUME NEW ids, NEW list \in Lists, NEW c \in Containers
    PROVE  KeepIn(ids, list, c) \in Lists
BY AppendProperties DEF KeepIn, Lists

(* What the agent has and sent, once a list is added ...                   *)
LEMMA AddedFold ==
    ASSUME NEW b \in Sendings, NEW q \in Seq(Containers)
    PROVE  Leads(Sendings, AddedFn, b, q, FoldLeft(Added, b, q))
<1> DEFINE n == Len(q)
           Chosen(it) == it = [s \in SUBSET (1 .. n) |->
                                 IF s = {} THEN b ELSE Added(it[s \ {Max(s)}], q[Max(s)])]
           it == CHOOSE i : Chosen(i)
<1>1. n \in Nat /\ DOMAIN q = 1 .. n /\ \A i \in 1 .. n : q[i] \in Containers
  BY ElementOfSeq, LenProperties
<1>2. AddedFn \in [Sendings -> [Containers -> Sendings]]
  BY AddedType DEF AddedFn
<1>3. FoldLeft(Added, b, q) = it[1 .. n]
  BY <1>1 DEF FoldLeft, MapThenFoldSet
<1> HIDE DEF n
<1>4. \A l \in Sendings, e \in Containers : AddedFn[l][e] = Added(l, e)
  BY DEF AddedFn
<1>5. \A s \in SUBSET (1 .. n) : s # {} => q[Max(s)] \in Containers /\ s \ {Max(s)} \in SUBSET (1 .. n)
  BY <1>1, MaxOf
<1>6. Chosen(it)
  <2>1. PICK g \in [SUBSET (1 .. n) -> Sendings] : Iterated(AddedFn, b, q, n, g)
    BY <1>2, IterationThere DEF n
  <2>2. \A s \in SUBSET (1 .. n) :
           g[s] = IF s = {} THEN b ELSE Added(g[s \ {Max(s)}], q[Max(s)])
    BY <1>4, <1>5, <2>1 DEF Iterated
  <2>3. Chosen(g)
    BY <2>1, <2>2
  <2> QED
    BY <2>3
<1> HIDE DEF it
<1>7. it[{}] = b
  BY <1>6
<1>8. \A s \in SUBSET (1 .. n) :
         s # {} /\ it[s \ {Max(s)}] \in Sendings => it[s] = AddedFn[it[s \ {Max(s)}]][q[Max(s)]]
  BY <1>4, <1>5, <1>6
<1>9. Iterates(Sendings, AddedFn, b, q, it)
  BY <1>7, <1>8 DEF n, Iterates
<1>10. Leads(Sendings, AddedFn, b, q, it[1 .. Len(q)])
  BY <1>2, <1>9, IterationIsTrace
<1> QED
  BY <1>3, <1>10 DEF n

(* ... or removed, is where a trace ends.                                  *)
LEMMA RemovedFold ==
    ASSUME NEW b \in Sendings, NEW q \in Seq(Containers)
    PROVE  Leads(Sendings, RemovedFn, b, q, FoldLeft(Removed, b, q))
<1> DEFINE n == Len(q)
           Chosen(it) == it = [s \in SUBSET (1 .. n) |->
                                 IF s = {} THEN b ELSE Removed(it[s \ {Max(s)}], q[Max(s)])]
           it == CHOOSE i : Chosen(i)
<1>1. n \in Nat /\ DOMAIN q = 1 .. n /\ \A i \in 1 .. n : q[i] \in Containers
  BY ElementOfSeq, LenProperties
<1>2. RemovedFn \in [Sendings -> [Containers -> Sendings]]
  BY RemovedType DEF RemovedFn
<1>3. FoldLeft(Removed, b, q) = it[1 .. n]
  BY <1>1 DEF FoldLeft, MapThenFoldSet
<1> HIDE DEF n
<1>4. \A l \in Sendings, e \in Containers : RemovedFn[l][e] = Removed(l, e)
  BY DEF RemovedFn
<1>5. \A s \in SUBSET (1 .. n) : s # {} => q[Max(s)] \in Containers /\ s \ {Max(s)} \in SUBSET (1 .. n)
  BY <1>1, MaxOf
<1>6. Chosen(it)
  <2>1. PICK g \in [SUBSET (1 .. n) -> Sendings] : Iterated(RemovedFn, b, q, n, g)
    BY <1>2, IterationThere DEF n
  <2>2. \A s \in SUBSET (1 .. n) :
           g[s] = IF s = {} THEN b ELSE Removed(g[s \ {Max(s)}], q[Max(s)])
    BY <1>4, <1>5, <2>1 DEF Iterated
  <2>3. Chosen(g)
    BY <2>1, <2>2
  <2> QED
    BY <2>3
<1> HIDE DEF it
<1>7. it[{}] = b
  BY <1>6
<1>8. \A s \in SUBSET (1 .. n) :
         s # {} /\ it[s \ {Max(s)}] \in Sendings => it[s] = RemovedFn[it[s \ {Max(s)}]][q[Max(s)]]
  BY <1>4, <1>5, <1>6
<1>9. Iterates(Sendings, RemovedFn, b, q, it)
  BY <1>7, <1>8 DEF n, Iterates
<1>10. Leads(Sendings, RemovedFn, b, q, it[1 .. Len(q)])
  BY <1>2, <1>9, IterationIsTrace
<1> QED
  BY <1>3, <1>10 DEF n

(* The containers of a list that have one of some ids.                     *)
LEMMA KeptFold ==
    ASSUME NEW ids, NEW q \in Seq(Containers)
    PROVE  Leads(Lists, KeptFn(ids), << >>, q, WithIds(q, ids))
<1> DEFINE b == << >>
           n == Len(q)
           Chosen(it) == it = [s \in SUBSET (1 .. n) |->
                                 IF s = {} THEN b ELSE KeepIn(ids, it[s \ {Max(s)}], q[Max(s)])]
           it == CHOOSE i : Chosen(i)
<1>1. n \in Nat /\ DOMAIN q = 1 .. n /\ \A i \in 1 .. n : q[i] \in Containers
  BY ElementOfSeq, LenProperties
<1>2. KeptFn(ids) \in [Lists -> [Containers -> Lists]]
  BY KeptType DEF KeptFn
<1>3. WithIds(q, ids) = it[1 .. n]
  BY <1>1 DEF WithIds, KeepIn, FoldLeft, MapThenFoldSet
<1> HIDE DEF n
<1>11. b \in Lists
  BY DEF Lists
<1> HIDE DEF b
<1>4. \A l \in Lists, e \in Containers : KeptFn(ids)[l][e] = KeepIn(ids, l, e)
  BY DEF KeptFn
<1>5. \A s \in SUBSET (1 .. n) : s # {} => q[Max(s)] \in Containers /\ s \ {Max(s)} \in SUBSET (1 .. n)
  BY <1>1, MaxOf
<1>6. Chosen(it)
  <2>1. PICK g \in [SUBSET (1 .. n) -> Lists] : Iterated(KeptFn(ids), b, q, n, g)
    BY <1>2, <1>11, IterationThere DEF n
  <2>2. \A s \in SUBSET (1 .. n) :
           g[s] = IF s = {} THEN b ELSE KeepIn(ids, g[s \ {Max(s)}], q[Max(s)])
    BY <1>4, <1>5, <2>1 DEF Iterated
  <2>3. Chosen(g)
    BY <2>1, <2>2
  <2> QED
    BY <2>3
<1> HIDE DEF it
<1>7. it[{}] = b
  BY <1>6
<1>8. \A s \in SUBSET (1 .. n) :
         s # {} /\ it[s \ {Max(s)}] \in Lists => it[s] = KeptFn(ids)[it[s \ {Max(s)}]][q[Max(s)]]
  BY <1>4, <1>5, <1>6
<1>9. Iterates(Lists, KeptFn(ids), b, q, it)
  BY <1>7, <1>8 DEF n, Iterates
<1>10. Leads(Lists, KeptFn(ids), b, q, it[1 .. Len(q)])
  BY <1>2, <1>9, <1>11, IterationIsTrace
<1> QED
  BY <1>3, <1>10 DEF n, b

(* Where f leads is determined.                                            *)
LEMMA OneLead ==
    ASSUME NEW S, NEW T, NEW f, NEW b, NEW q \in Seq(T), NEW v, NEW w,
           Leads(S, f, b, q, v), Leads(S, f, b, q, w)
    PROVE  v = w
<1>1. PICK tr : Trace(f, b, q, tr) /\ tr[Len(q)] = v
  BY DEF Leads
<1>2. PICK ur : Trace(f, b, q, ur) /\ ur[Len(q)] = w
  BY DEF Leads
<1>3. Len(q) \in Nat /\ Len(q) \in 0 .. Len(q)
  BY LenProperties
<1>4. \A i \in 0 .. Len(q) : tr[i] = ur[i]
  BY <1>1, <1>2, <1>3, OneTrace
<1> QED
  BY <1>1, <1>2, <1>3, <1>4

(* Along two sequences in a row.                                           *)
LEMMA LeadsOn ==
    ASSUME NEW S, NEW T, NEW f, NEW b, NEW p \in Seq(T), NEW q \in Seq(T), NEW u, NEW v,
           Leads(S, f, b, p, u), Leads(S, f, u, q, v)
    PROVE  Leads(S, f, b, p \o q, v)
<1>1. PICK tr \in [0 .. Len(p) -> S] : Trace(f, b, p, tr) /\ tr[Len(p)] = u
  BY DEF Leads
<1>2. PICK ur \in [0 .. Len(q) -> S] : Trace(f, u, q, ur) /\ ur[Len(q)] = v
  BY DEF Leads
<1>3. /\ Len(p) \in Nat /\ Len(q) \in Nat /\ Len(p \o q) = Len(p) + Len(q)
      /\ \A i \in 1 .. Len(p) + Len(q) : (p \o q)[i] = IF i <= Len(p) THEN p[i] ELSE q[i - Len(p)]
  BY LenProperties, ConcatProperties
<1> DEFINE m == Len(p)
           n == Len(q)
           wr == [i \in 0 .. m + n |-> IF i <= m THEN tr[i] ELSE ur[i - m]]
<1>4. \A i \in 0 .. m + n : IF i <= m THEN i \in 0 .. m ELSE i - m \in 0 .. n
  BY <1>3
<1>5. wr \in [0 .. m + n -> S]
  BY <1>1, <1>2, <1>4
<1>6. wr[0] = b
  BY <1>1, <1>3 DEF Trace
<1>7. wr[m + n] = v
  <2>1. CASE n = 0
    BY <1>1, <1>2, <1>3, <2>1 DEF Trace
  <2>2. CASE n # 0
    <3>1. ~(m + n <= m) /\ m + n - m = n /\ m + n \in 0 .. m + n
      BY <1>3, <2>2
    <3> QED
      BY <1>2, <3>1
  <2> QED
    BY <2>1, <2>2
<1>8. ASSUME NEW i \in 1 .. m + n PROVE wr[i] = f[wr[i - 1]][(p \o q)[i]]
  <2>0. i \in 0 .. m + n /\ i - 1 \in 0 .. m + n
    BY <1>3
  <2>1. CASE i <= m
    <3>1. i \in 1 .. m /\ i - 1 <= m
      BY <1>3, <2>1
    <3>2. wr[i] = tr[i] /\ wr[i - 1] = tr[i - 1] /\ (p \o q)[i] = p[i]
      BY <1>3, <2>0, <2>1, <3>1
    <3> QED
      BY <1>1, <3>1, <3>2 DEF Trace
  <2>2. CASE ~(i <= m)
    <3>1. i - m \in 1 .. n /\ (i - m) - 1 = (i - 1) - m
      BY <1>3, <2>2
    <3>2. wr[i] = ur[i - m] /\ (p \o q)[i] = q[i - m]
      BY <1>3, <2>0, <2>2
    <3>3. wr[i - 1] = ur[(i - 1) - m]
      <4>1. CASE i - 1 <= m
        <5>1. i - 1 = m /\ (i - 1) - m = 0
          BY <1>3, <2>2, <4>1
        <5>2. wr[i - 1] = tr[m]
          BY <2>0, <4>1, <5>1
        <5> QED
          BY <1>1, <1>2, <5>1, <5>2 DEF Trace
      <4>2. CASE ~(i - 1 <= m)
        BY <2>0, <4>2
      <4> QED
        BY <4>1, <4>2
    <3>4. ur[i - m] = f[ur[(i - m) - 1]][q[i - m]]
      BY <1>2, <3>1 DEF Trace
    <3> QED
      BY <3>1, <3>2, <3>3, <3>4
  <2> QED
    BY <2>1, <2>2
<1>9. DOMAIN wr = 0 .. Len(p \o q)
  BY <1>3
<1> HIDE DEF wr
<1>10. Trace(f, b, p \o q, wr)
  BY <1>3, <1>6, <1>8, <1>9 DEF Trace
<1> QED
  BY <1>3, <1>5, <1>7, <1>10 DEF Leads

(* Along a single element.                                                 *)
LEMMA LeadsOnce ==
    ASSUME NEW S, NEW T, NEW f \in [S -> [T -> S]], NEW b \in S, NEW m \in T
    PROVE  Leads(S, f, b, << m >>, f[b][m])
<1> DEFINE tr == [i \in 0 .. 1 |-> IF i = 0 THEN b ELSE f[b][m]]
<1>1. Len(<< m >>) = 1 /\ << m >>[1] = m
  OBVIOUS
<1>2. tr \in [0 .. 1 -> S] /\ tr[0] = b /\ tr[1] = f[b][m] /\ DOMAIN tr = 0 .. 1
  OBVIOUS
<1> HIDE DEF tr
<1>3. Trace(f, b, << m >>, tr)
  BY <1>1, <1>2 DEF Trace
<1> QED
  BY <1>1, <1>2, <1>3 DEF Leads

-----------------------------------------------------------------------------
(* What the UI's list becomes *)

(* The values it passes through are lists.                                 *)
LEMMA FoldChangedType ==
    ASSUME NEW b \in Lists, NEW q \in Seq(Messages)
    PROVE  FoldLeft(Changed, b, q) \in Lists
<1>1. PICK tr \in [0 .. Len(q) -> Lists] : tr[Len(q)] = FoldLeft(Changed, b, q)
  BY ChangedFold DEF Leads
<1>2. Len(q) \in 0 .. Len(q)
  BY LenProperties
<1> QED
  BY <1>1, <1>2

(* No message changes nothing.                                             *)
LEMMA NoneChanged ==
    ASSUME NEW b \in Lists
    PROVE  FoldLeft(Changed, b, << >>) = b
<1>1. << >> \in Seq(Messages) /\ Len(<< >>) = 0
  OBVIOUS
<1>2. Leads(Lists, ChangedFn, b, << >>, FoldLeft(Changed, b, << >>))
  BY <1>1, ChangedFold
<1> QED
  BY <1>1, <1>2 DEF Leads, Trace

(* One message changes what it says.                                       *)
LEMMA OneChanged ==
    ASSUME NEW b \in Lists, NEW m \in Messages
    PROVE  FoldLeft(Changed, b, << m >>) = Changed(b, m)
<1>1. << m >> \in Seq(Messages)
  OBVIOUS
<1>2. ChangedFn \in [Lists -> [Messages -> Lists]] /\ ChangedFn[b][m] = Changed(b, m)
  BY ChangedType DEF ChangedFn
<1>3. Leads(Lists, ChangedFn, b, << m >>, Changed(b, m))
  BY <1>2, LeadsOnce
<1>4. Leads(Lists, ChangedFn, b, << m >>, FoldLeft(Changed, b, << m >>))
  BY <1>1, ChangedFold
<1> QED
  BY <1>1, <1>3, <1>4, OneLead

(* Messages on top of messages.                                            *)
LEMMA MoreChanged ==
    ASSUME NEW b \in Lists, NEW p \in Seq(Messages), NEW q \in Seq(Messages)
    PROVE  FoldLeft(Changed, b, p \o q) = FoldLeft(Changed, FoldLeft(Changed, b, p), q)
<1> DEFINE u == FoldLeft(Changed, b, p)
           v == FoldLeft(Changed, u, q)
           w == FoldLeft(Changed, b, p \o q)
<1>1. Leads(Lists, ChangedFn, b, p, u)
  BY ChangedFold
<1>2. u \in Lists
  BY FoldChangedType
<1> HIDE DEF u
<1>3. Leads(Lists, ChangedFn, u, q, v)
  BY <1>2, ChangedFold
<1>4. p \o q \in Seq(Messages)
  BY ConcatProperties
<1>5. Leads(Lists, ChangedFn, b, p \o q, w)
  BY <1>4, ChangedFold
<1> HIDE DEF v, w
<1>6. Leads(Lists, ChangedFn, b, p \o q, v)
  BY <1>1, <1>3, LeadsOn
<1>7. v = w
  BY <1>4, <1>5, <1>6, OneLead
<1> QED
  BY <1>7 DEF u, v, w

(* Lists in the same order: what s has, t has in that order too.           *)
InOrder(s, t) ==
    \A i, j \in 1 .. Len(s) : i < j =>
       \E k, l \in 1 .. Len(t) : k < l /\ t[k].id = s[i].id /\ t[l].id = s[j].id

(* No id is in a list twice.                                               *)
Distinct(s) == \A k, l \in 1 .. Len(s) : s[k].id = s[l].id => k = l

LEMMA ListFacts ==
    ASSUME NEW s \in Lists
    PROVE  /\ Len(s) \in Nat /\ DOMAIN s = 1 .. Len(s)
           /\ \A k \in 1 .. Len(s) : s[k] \in Containers
           /\ \A i : i \in IdSet(s) <=> \E k \in 1 .. Len(s) : s[k].id = i
           /\ DOMAIN IdSeq(s) = 1 .. Len(s)
           /\ \A k \in 1 .. Len(s) : IdSeq(s)[k] = s[k].id
           /\ Distinct(s) <=> IsInjective(IdSeq(s))
<1>1. Len(s) \in Nat /\ DOMAIN s = 1 .. Len(s) /\ \A k \in 1 .. Len(s) : s[k] \in Containers
  BY LenProperties, ElementOfSeq DEF Lists
<1>2. DOMAIN IdSeq(s) = 1 .. Len(s) /\ \A k \in 1 .. Len(s) : IdSeq(s)[k] = s[k].id
  BY <1>1 DEF IdSeq
<1>3. \A i : i \in IdSet(s) <=> \E k \in 1 .. Len(s) : s[k].id = i
  BY <1>1 DEF IdSet
<1>4. Distinct(s) <=> IsInjective(IdSeq(s))
  BY <1>2 DEF Distinct, IsInjective
<1> QED
  BY <1>1, <1>2, <1>3, <1>4

(* A part in order of a list without doubles has none.                     *)
LEMMA PartDistinct ==
    ASSUME NEW s \in Lists, NEW t \in Lists, InOrder(s, t), Distinct(t)
    PROVE  Distinct(s)
<1> SUFFICES ASSUME NEW i \in 1 .. Len(s), NEW j \in 1 .. Len(s), i < j, s[i].id = s[j].id
             PROVE  FALSE
  <2>1. Len(s) \in Nat
    BY ListFacts
  <2>2. ASSUME NEW i \in 1 .. Len(s), NEW j \in 1 .. Len(s), s[i].id = s[j].id, i # j
        PROVE  \E k, l \in 1 .. Len(s) : k < l /\ s[k].id = s[l].id
    BY <2>1, <2>2
  <2> QED
    BY <2>2 DEF Distinct
<1>1. PICK k, l \in 1 .. Len(t) : k < l /\ t[k].id = s[i].id /\ t[l].id = s[j].id
  BY DEF InOrder
<1>2. k = l
  BY <1>1 DEF Distinct
<1>3. Len(t) \in Nat
  BY ListFacts
<1> QED
  BY <1>1, <1>2, <1>3

(* Two parts of a list that have the same ids have them at the same places.*)
LEMMA SamePlaces ==
    ASSUME NEW s \in Lists, NEW u \in Lists, NEW t \in Lists, Distinct(t),
           InOrder(s, t), InOrder(u, t), IdSet(s) = IdSet(u)
    PROVE  \A i \in 1 .. Len(s) : i <= Len(u) /\ u[i].id = s[i].id
<1> DEFINE U == { i \in 1 .. Len(s) : ~(i <= Len(u) /\ u[i].id = s[i].id) }
<1>1. SUFFICES ASSUME U # {} PROVE FALSE
  OBVIOUS
<1>2. Len(s) \in Nat /\ Len(u) \in Nat /\ Len(t) \in Nat /\ Distinct(s) /\ Distinct(u)
  BY ListFacts, PartDistinct
<1>3. U \subseteq Nat
  BY <1>2
<1>4. PICK i \in U : \A j \in U : i <= j
  BY <1>1, <1>3, NatMin
<1>5. i \in 1 .. Len(s) /\ ~(i <= Len(u) /\ u[i].id = s[i].id) /\ i \in Nat
  BY <1>2, <1>4
<1>6. \A j \in 1 .. Len(s) : j < i => j <= Len(u) /\ u[j].id = s[j].id
  BY <1>2, <1>4, <1>5
<1> HIDE DEF U
<1>7. PICK j \in 1 .. Len(u) : u[j].id = s[i].id
  BY <1>5, ListFacts
<1>8. i < j
  <2>1. CASE j < i
    <3>1. j \in 1 .. Len(s)
      BY <1>2, <1>5, <2>1
    <3>2. s[j].id = s[i].id
      BY <1>6, <1>7, <2>1, <3>1
    <3>3. j = i
      BY <1>2, <1>5, <3>1, <3>2 DEF Distinct
    <3> QED
      BY <1>5, <2>1, <3>3
  <2>2. j # i
    BY <1>2, <1>5, <1>7
  <2> QED
    BY <1>2, <1>5, <2>1, <2>2
<1>9. i \in 1 .. Len(u)
  BY <1>2, <1>5, <1>8
<1>10. PICK k \in 1 .. Len(s) : s[k].id = u[i].id
  BY <1>9, ListFacts
<1>11. i < k
  <2>1. CASE k < i
    <3>1. k \in 1 .. Len(u)
      BY <1>2, <1>9, <2>1
    <3>2. u[k].id = u[i].id
      BY <1>6, <1>10, <2>1
    <3>3. k = i
      BY <1>2, <1>9, <3>1, <3>2 DEF Distinct
    <3> QED
      BY <1>5, <2>1, <3>3
  <2>2. k # i
    BY <1>2, <1>5, <1>9, <1>10
  <2> QED
    BY <1>2, <1>5, <2>1, <2>2
<1>12. PICK a, b \in 1 .. Len(t) : a < b /\ t[a].id = s[i].id /\ t[b].id = s[k].id
  BY <1>5, <1>11 DEF InOrder
<1>13. PICK c, d \in 1 .. Len(t) : c < d /\ t[c].id = u[i].id /\ t[d].id = u[j].id
  BY <1>8, <1>9 DEF InOrder
<1>14. a = d
  BY <1>7, <1>12, <1>13 DEF Distinct
<1>15. b = c
  BY <1>10, <1>12, <1>13 DEF Distinct
<1> QED
  BY <1>2, <1>12, <1>13, <1>14, <1>15

(* ... so these are the same ids.                                          *)
LEMMA SameOrder ==
    ASSUME NEW s \in Lists, NEW u \in Lists, NEW t \in Lists, Distinct(t),
           InOrder(s, t), InOrder(u, t), IdSet(s) = IdSet(u)
    PROVE  IdSeq(s) = IdSeq(u)
<1>1. \A i \in 1 .. Len(s) : i <= Len(u) /\ u[i].id = s[i].id
  BY SamePlaces
<1>2. \A i \in 1 .. Len(u) : i <= Len(s) /\ s[i].id = u[i].id
  BY SamePlaces
<1>3. /\ Len(s) \in Nat /\ DOMAIN s = 1 .. Len(s)
      /\ Len(u) \in Nat /\ DOMAIN u = 1 .. Len(u)
  BY ListFacts
<1>4. Len(s) = Len(u)
  <2>1. Len(s) = 0 \/ Len(s) <= Len(u)
    BY <1>1, <1>3
  <2>2. Len(u) = 0 \/ Len(u) <= Len(s)
    BY <1>2, <1>3
  <2>3. \A m, n \in Nat : (m = 0 \/ m <= n) /\ (n = 0 \/ n <= m) => m = n
    OBVIOUS
  <2> QED
    BY <1>3, <2>1, <2>2, <2>3
<1> QED
  BY <1>1, <1>3, <1>4 DEF IdSeq

-----------------------------------------------------------------------------
(* Removals and additions *)

(* What was sent turns the list a into what the agent has now.             *)
SentRight(a, to) ==
    /\ \A k \in 1 .. Len(to.sent) : to.sent[k].kind = "changed"
    /\ FoldLeft(Changed, a, to.sent) = to.agent

(* One more message that says what is done keeps that.                     *)
LEMMA SendsRight ==
    ASSUME NEW a \in Lists, NEW to \in Sendings, SentRight(a, to),
           NEW m \in Messages, m.kind = "changed",
           NEW after, after = Changed(to.agent, m)
    PROVE  /\ SentRight(a, [agent |-> after, sent |-> Append(to.sent, m)])
           /\ [agent |-> after, sent |-> Append(to.sent, m)] \in Sendings
<1>1. to.agent \in Lists /\ to.sent \in Seq(Messages)
  BY DEF Sendings
<1>2. after \in Lists
  BY <1>1, ChangedType
<1>3. Append(to.sent, m) = to.sent \o << m >> /\ << m >> \in Seq(Messages)
  BY <1>1, AppendIsConcat
<1>4. FoldLeft(Changed, a, to.sent \o << m >>) = FoldLeft(Changed, FoldLeft(Changed, a, to.sent), << m >>)
  BY <1>1, <1>3, MoreChanged
<1>5. FoldLeft(Changed, a, Append(to.sent, m)) = after
  BY <1>1, <1>3, <1>4, OneChanged DEF SentRight
<1>6. /\ Append(to.sent, m) \in Seq(Messages) /\ Len(Append(to.sent, m)) = Len(to.sent) + 1
      /\ \A k \in 1 .. Len(to.sent) : Append(to.sent, m)[k] = to.sent[k]
      /\ Append(to.sent, m)[Len(to.sent) + 1] = m
  BY <1>1, AppendProperties
<1>7. \A k \in 1 .. Len(Append(to.sent, m)) : Append(to.sent, m)[k].kind = "changed"
  <2>1. Len(to.sent) \in Nat
    BY <1>1, LenProperties
  <2>2. \A k \in 1 .. Len(to.sent) + 1 : k \in 1 .. Len(to.sent) \/ k = Len(to.sent) + 1
    BY <2>1
  <2> QED
    BY <1>6, <2>2 DEF SentRight
<1> QED
  BY <1>2, <1>5, <1>6, <1>7 DEF SentRight, Sendings

(* A removal that is sent.                                                 *)
LEMMA ChangedRemoves ==
    ASSUME NEW s \in Lists, NEW k \in 1 .. Len(s)
    PROVE  Changed(s, Change(k - 1, 1, << >>)) = RemoveAt(s, k)
<1>1. Len(s) \in Nat /\ k \in Nat /\ k >= 1 /\ k <= Len(s)
  BY ListFacts
<1>2. ~((k - 1) + 1 > Len(s)) /\ (k - 1) + 1 + 1 = k + 1
  BY <1>1
<1> DEFINE x == SubSeq(s, 1, k - 1)
           y == SubSeq(s, k + 1, Len(s))
<1>3. Changed(s, Change(k - 1, 1, << >>)) = (x \o << >>) \o y
  BY <1>2 DEF Changed, Change
<1>4. \A j \in 1 .. k - 1 : s[j] \in Containers
  BY <1>1, ListFacts
<1>5. x \in Seq(Containers)
  BY <1>1, <1>4, SubSeqProperties
<1> HIDE DEF x
<1>6. x \o << >> = x
  BY <1>5, ConcatEmptySeq
<1> QED
  BY <1>3, <1>6 DEF RemoveAt, x

(* An addition that is sent.                                               *)
LEMMA ChangedAdds ==
    ASSUME NEW s \in Lists, NEW c \in Containers
    PROVE  Changed(s, Change(Len(s), 0, << c >>)) = Append(s, c)
<1>1. Len(s) \in Nat /\ s \in Seq(Containers)
  BY ListFacts DEF Lists
<1>2. ~(Len(s) + 0 > Len(s)) /\ Len(s) + 0 + 1 = Len(s) + 1
  BY <1>1
<1>3. SubSeq(s, 1, Len(s)) = s
  BY <1>1, SubSeqFull
<1>4. SubSeq(s, Len(s) + 1, Len(s)) = << >>
  BY <1>1, SubSeqEmpty
<1>5. Changed(s, Change(Len(s), 0, << c >>)) = (s \o << c >>) \o << >>
  BY <1>2, <1>3, <1>4 DEF Changed, Change
<1>6. s \o << c >> = Append(s, c)
  BY <1>1, AppendIsConcat
<1>7. Append(s, c) \in Seq(Containers)
  BY <1>1, AppendProperties
<1>8. Append(s, c) \o << >> = Append(s, c)
  BY <1>7, ConcatEmptySeq
<1> QED
  BY <1>5, <1>6, <1>8

(* A list without one of its elements.                                     *)
LEMMA WithoutOne ==
    ASSUME NEW s \in Lists, NEW t \in Lists, InOrder(s, t), Distinct(t),
           NEW k \in 1 .. Len(s), NEW r, r = RemoveAt(s, k)
    PROVE  /\ InOrder(r, t)
           /\ \A x : x \in IdSet(r) <=> x \in IdSet(s) /\ x # s[k].id
<1>1. Len(s) \in Nat /\ Distinct(s) /\ k \in Nat /\ 1 <= k /\ k <= Len(s)
  BY ListFacts, PartDistinct
<1>2. /\ r \in Lists /\ Len(r) = Len(s) - 1
      /\ \A j \in 1 .. Len(s) - 1 : r[j] = s[IF j < k THEN j ELSE j + 1]
  BY RemoveAtProperties DEF Lists
<1> DEFINE at(j) == IF j < k THEN j ELSE j + 1
<1>3. \A j \in 1 .. Len(r) : at(j) \in 1 .. Len(s) /\ at(j) # k /\ r[j] = s[at(j)]
  BY <1>1, <1>2
<1>4. \A i, j \in 1 .. Len(r) : i < j => at(i) < at(j)
  BY <1>1, <1>2
<1>5. \A l \in 1 .. Len(s) : l # k => \E j \in 1 .. Len(r) : at(j) = l
  <2> SUFFICES ASSUME NEW l \in 1 .. Len(s), l # k PROVE \E j \in 1 .. Len(r) : at(j) = l
    OBVIOUS
  <2>1. CASE l < k
    <3>1. l \in 1 .. Len(r) /\ at(l) = l
      BY <1>1, <1>2, <2>1
    <3> QED
      BY <3>1
  <2>2. CASE k < l
    <3>1. l - 1 \in 1 .. Len(r) /\ at(l - 1) = l
      BY <1>1, <1>2, <2>2
    <3> QED
      BY <3>1
  <2> QED
    BY <1>1, <2>1, <2>2
<1> HIDE DEF at
<1>6. InOrder(r, t)
  <2> SUFFICES ASSUME NEW i \in 1 .. Len(r), NEW j \in 1 .. Len(r), i < j
               PROVE  \E m, l \in 1 .. Len(t) : m < l /\ t[m].id = r[i].id /\ t[l].id = r[j].id
    BY DEF InOrder
  <2>1. at(i) \in 1 .. Len(s) /\ at(j) \in 1 .. Len(s) /\ at(i) < at(j)
    BY <1>3, <1>4
  <2>2. \E m, l \in 1 .. Len(t) : m < l /\ t[m].id = s[at(i)].id /\ t[l].id = s[at(j)].id
    BY <2>1 DEF InOrder
  <2> QED
    BY <1>3, <2>2
<1>7. ASSUME NEW x PROVE x \in IdSet(r) <=> x \in IdSet(s) /\ x # s[k].id
  <2>1. ASSUME x \in IdSet(r) PROVE x \in IdSet(s) /\ x # s[k].id
    <3>1. PICK j \in 1 .. Len(r) : r[j].id = x
      BY <1>2, <2>1, ListFacts
    <3>2. at(j) \in 1 .. Len(s) /\ at(j) # k /\ s[at(j)].id = x
      BY <1>3, <3>1
    <3>3. x # s[k].id
      BY <1>1, <3>2 DEF Distinct
    <3> QED
      BY <3>2, <3>3, ListFacts
  <2>2. ASSUME x \in IdSet(s), x # s[k].id PROVE x \in IdSet(r)
    <3>1. PICK l \in 1 .. Len(s) : s[l].id = x
      BY <2>2, ListFacts
    <3>2. PICK j \in 1 .. Len(r) : at(j) = l
      BY <1>5, <2>2, <3>1
    <3>3. r[j].id = x
      BY <1>3, <3>1, <3>2
    <3> QED
      BY <1>2, <3>3, ListFacts
  <2> QED
    BY <2>1, <2>2
<1> QED
  BY <1>6, <1>7

(* What is left of a once the first n of q are removed from it.            *)
LeftOf(a, q, n, to) ==
    /\ SentRight(a, to)
    /\ InOrder(to.agent, a)
    /\ \A x : x \in IdSet(to.agent) <=> x \in IdSet(a) /\ \A k \in 1 .. n : q[k].id # x

(* One more.                                                               *)
LEMMA OneMoreRemoved ==
    ASSUME NEW a \in Lists, Distinct(a), NEW q \in Seq(Containers), NEW n \in 1 .. Len(q),
           NEW to \in Sendings, LeftOf(a, q, n - 1, to)
    PROVE  LeftOf(a, q, n, Removed(to, q[n]))
<1> DEFINE c == q[n]
<1>1. c \in Containers /\ n \in Nat /\ n >= 1
  BY ElementOfSeq, LenProperties
<1>2. to.agent \in Lists /\ to.sent \in Seq(Messages)
  BY DEF Sendings
<1>3. SentRight(a, to) /\ InOrder(to.agent, a)
  BY DEF LeftOf
<1>4. \A x : (\A k \in 1 .. n : q[k].id # x) <=> (\A k \in 1 .. n - 1 : q[k].id # x) /\ x # c.id
  <2>1. \A k \in 1 .. n : k \in 1 .. n - 1 \/ k = n
    BY <1>1
  <2>2. n \in 1 .. n /\ \A k \in 1 .. n - 1 : k \in 1 .. n
    BY <1>1
  <2> QED
    BY <2>1, <2>2
<1> HIDE DEF c
<1>5. CASE c.id \notin IdSet(to.agent)
  <2>1. Removed(to, c) = to
    BY <1>5 DEF Removed
  <2>2. \A x : x \in IdSet(to.agent) <=> x \in IdSet(a) /\ \A k \in 1 .. n : q[k].id # x
    BY <1>4, <1>5 DEF LeftOf
  <2> QED
    BY <1>3, <2>1, <2>2 DEF LeftOf, c
<1>6. CASE c.id \in IdSet(to.agent)
  <2> DEFINE k == Position(c.id, to.agent)
             left == RemoveAt(to.agent, k)
             m == Change(k - 1, 1, << >>)
             r == [agent |-> left, sent |-> Append(to.sent, m)]
  <2>1. k \in 1 .. Len(to.agent) /\ to.agent[k].id = c.id
    BY <1>2, <1>6, PositionThere
  <2>2. Removed(to, c) = r
    BY <1>6 DEF Removed
  <2> HIDE DEF k
  <2>3. k - 1 \in Nat /\ << >> \in Lists
    BY <2>1 DEF Lists
  <2>4. m \in Messages /\ m.kind = "changed"
    BY <2>3, MessageType DEF Change
  <2>5. left = Changed(to.agent, m)
    BY <1>2, <2>1, ChangedRemoves
  <2>6. /\ InOrder(left, a)
        /\ \A x : x \in IdSet(left) <=> x \in IdSet(to.agent) /\ x # c.id
    BY <1>2, <1>3, <2>1, WithoutOne
  <2> HIDE DEF left, m
  <2>7. SentRight(a, r)
    BY <1>3, <2>4, <2>5, SendsRight
  <2>8. r.agent = left
    OBVIOUS
  <2> HIDE DEF r
  <2>9. \A x : x \in IdSet(r.agent) <=> x \in IdSet(a) /\ \A l \in 1 .. n : q[l].id # x
    BY <1>4, <2>6, <2>8 DEF LeftOf
  <2> QED
    BY <2>2, <2>6, <2>7, <2>8, <2>9 DEF LeftOf, c
<1> QED
  BY <1>5, <1>6

(* Nothing is sent yet.                                                    *)
LEMMA NothingSent ==
    ASSUME NEW a \in Lists
    PROVE  /\ [agent |-> a, sent |-> << >>] \in Sendings
           /\ SentRight(a, [agent |-> a, sent |-> << >>])
BY NoneChanged DEF Sendings, SentRight

(* All of q removed.                                                       *)
LEMMA AllRemoved ==
    ASSUME NEW a \in Lists, Distinct(a), NEW q \in Seq(Containers),
           NEW r, r = FoldLeft(Removed, [agent |-> a, sent |-> << >>], q)
    PROVE  r \in Sendings /\ LeftOf(a, q, Len(q), r)
<1> DEFINE b == [agent |-> a, sent |-> << >>]
           n == Len(q)
<1>1. b \in Sendings /\ SentRight(a, b) /\ b.agent = a
  BY NothingSent
<1>2. LeftOf(a, q, 0, b)
  <2>1. InOrder(a, a)
    BY DEF InOrder
  <2>2. 1 .. 0 = {}
    OBVIOUS
  <2> QED
    BY <1>1, <2>1, <2>2 DEF LeftOf
<1>3. r = FoldLeft(Removed, b, q)
  OBVIOUS
<1> HIDE DEF b
<1>4. PICK tr \in [0 .. n -> Sendings] : Trace(RemovedFn, b, q, tr) /\ tr[n] = r
  BY <1>1, <1>3, RemovedFold DEF Leads
<1>5. n \in Nat /\ \A i \in 1 .. n : q[i] \in Containers
  BY LenProperties, ElementOfSeq
<1> DEFINE U == { i \in 0 .. n : ~LeftOf(a, q, i, tr[i]) }
<1>6. U = {}
  <2> SUFFICES ASSUME U # {} PROVE FALSE
    OBVIOUS
  <2>1. U \subseteq Nat
    BY <1>5
  <2>2. PICK i \in U : \A j \in U : i <= j
    BY <2>1, NatMin
  <2>3. i # 0
    BY <1>2, <1>4, <2>2 DEF Trace
  <2>4. i \in 1 .. n /\ i - 1 \in 0 .. n /\ ~(i <= i - 1)
    BY <1>5, <2>2, <2>3
  <2>5. LeftOf(a, q, i - 1, tr[i - 1]) /\ tr[i - 1] \in Sendings
    BY <2>2, <2>4
  <2>6. LeftOf(a, q, i, Removed(tr[i - 1], q[i]))
    BY <2>4, <2>5, OneMoreRemoved
  <2>7. tr[i] = RemovedFn[tr[i - 1]][q[i]]
    BY <1>4, <2>4 DEF Trace
  <2>8. tr[i] = Removed(tr[i - 1], q[i])
    BY <1>5, <2>4, <2>5, <2>7 DEF RemovedFn
  <2> QED
    BY <2>2, <2>6, <2>8
<1>7. n \in 0 .. n
  BY <1>5
<1>8. LeftOf(a, q, n, tr[n])
  BY <1>6, <1>7
<1>9. tr[n] \in Sendings
  BY <1>7
<1> QED
  BY <1>4, <1>8, <1>9

(* The list s with the first n of q behind it.                             *)
Longer(s, q, n, r) ==
    /\ Len(r) = Len(s) + n
    /\ \A k \in 1 .. Len(s) : r[k] = s[k]
    /\ \A k \in 1 .. n : r[Len(s) + k] = q[k]

(* ... which is their concatenation in the end.                            *)
LEMMA AllLonger ==
    ASSUME NEW s \in Lists, NEW q \in Lists, NEW r \in Lists, Longer(s, q, Len(q), r)
    PROVE  r = s \o q
<1>1. Len(s) \in Nat /\ Len(q) \in Nat /\ s \in Seq(Containers) /\ q \in Seq(Containers) /\ r \in Seq(Containers)
  BY ListFacts DEF Lists
<1>2. /\ s \o q \in Seq(Containers) /\ Len(s \o q) = Len(s) + Len(q)
      /\ \A i \in 1 .. Len(s) + Len(q) : (s \o q)[i] = IF i <= Len(s) THEN s[i] ELSE q[i - Len(s)]
  BY <1>1, ConcatProperties
<1>3. ASSUME NEW i \in 1 .. Len(r) PROVE r[i] = (s \o q)[i]
  <2>1. CASE i <= Len(s)
    BY <1>1, <1>2, <2>1 DEF Longer
  <2>2. CASE ~(i <= Len(s))
    <3>1. i - Len(s) \in 1 .. Len(q) /\ Len(s) + (i - Len(s)) = i
      BY <1>1, <2>2 DEF Longer
    <3>2. r[i] = q[i - Len(s)]
      BY <3>1 DEF Longer
    <3> QED
      BY <1>1, <1>2, <2>2, <3>2 DEF Longer
  <2> QED
    BY <2>1, <2>2
<1> QED
  BY <1>1, <1>2, <1>3, SeqEqual DEF Longer

(* What the agent has and sent once the first n of q were added to s.      *)
Grown(a, s, q, n, to) == SentRight(a, to) /\ Longer(s, q, n, to.agent)

(* One more.                                                               *)
LEMMA OneMoreAdded ==
    ASSUME NEW a \in Lists, NEW s \in Lists, NEW q \in Seq(Containers), NEW n \in 1 .. Len(q),
           NEW to \in Sendings, Grown(a, s, q, n - 1, to)
    PROVE  Grown(a, s, q, n, Added(to, q[n]))
<1> DEFINE c == q[n]
           m == Change(Len(to.agent), 0, << c >>)
           after == Append(to.agent, c)
<1>1. c \in Containers /\ n \in Nat /\ n >= 1
  BY ElementOfSeq, LenProperties
<1>2. to.agent \in Lists /\ to.agent \in Seq(Containers) /\ to.sent \in Seq(Messages)
  BY DEF Sendings, Lists
<1>3. Len(to.agent) \in Nat /\ Len(s) \in Nat /\ << c >> \in Lists
  BY <1>1, <1>2, ListFacts DEF Lists
<1>4. m \in Messages /\ m.kind = "changed"
  BY <1>3, MessageType DEF Change
<1>5. after = Changed(to.agent, m)
  BY <1>1, <1>2, ChangedAdds
<1>6. Added(to, c) = [agent |-> after, sent |-> Append(to.sent, m)]
  BY DEF Added
<1>7. /\ Len(after) = Len(to.agent) + 1
      /\ \A i \in 1 .. Len(to.agent) : after[i] = to.agent[i]
      /\ after[Len(to.agent) + 1] = c
  BY <1>1, <1>2, AppendProperties
<1> HIDE DEF after, m
<1>8. SentRight(a, Added(to, c))
  BY <1>4, <1>5, <1>6, SendsRight DEF Grown
<1>9. Added(to, c).agent = after
  BY <1>6
<1>10. /\ Len(to.agent) = Len(s) + (n - 1)
       /\ \A k \in 1 .. Len(s) : to.agent[k] = s[k]
       /\ \A k \in 1 .. n - 1 : to.agent[Len(s) + k] = q[k]
  BY DEF Grown, Longer
<1>11. Len(after) = Len(s) + n
  BY <1>1, <1>3, <1>7, <1>10
<1>12. \A k \in 1 .. Len(s) : after[k] = s[k]
  BY <1>1, <1>3, <1>7, <1>10
<1>13. ASSUME NEW k \in 1 .. n PROVE after[Len(s) + k] = q[k]
  <2>1. CASE k = n
    <3>1. Len(s) + k = Len(to.agent) + 1
      BY <1>1, <1>3, <1>10, <2>1
    <3> QED
      BY <1>7, <2>1, <3>1
  <2>2. CASE k # n
    <3>1. k \in 1 .. n - 1 /\ Len(s) + k \in 1 .. Len(to.agent)
      BY <1>1, <1>3, <1>10, <2>2
    <3> QED
      BY <1>7, <1>10, <3>1
  <2> QED
    BY <2>1, <2>2
<1> QED
  BY <1>8, <1>9, <1>11, <1>12, <1>13 DEF Grown, Longer

(* All of q added.                                                         *)
LEMMA AllAdded ==
    ASSUME NEW a \in Lists, NEW b \in Sendings, SentRight(a, b), NEW q \in Lists,
           NEW r, r = FoldLeft(Added, b, q)
    PROVE  r \in Sendings /\ SentRight(a, r) /\ r.agent = b.agent \o q
<1> DEFINE n == Len(q)
           s == b.agent
<1>0. q \in Seq(Containers) /\ s \in Lists
  BY DEF Lists, Sendings
<1>1. n \in Nat /\ (\A i \in 1 .. n : q[i] \in Containers) /\ Len(s) \in Nat
  BY <1>0, ListFacts
<1>2. Grown(a, s, q, 0, b)
  <2>1. 1 .. 0 = {} /\ Len(s) + 0 = Len(s)
    BY <1>1
  <2> QED
    BY <2>1 DEF Grown, Longer
<1>4. PICK tr \in [0 .. n -> Sendings] : Trace(AddedFn, b, q, tr) /\ tr[n] = r
  BY <1>0, AddedFold DEF Leads
<1> HIDE DEF s
<1> DEFINE U == { i \in 0 .. n : ~Grown(a, s, q, i, tr[i]) }
<1>6. U = {}
  <2> SUFFICES ASSUME U # {} PROVE FALSE
    OBVIOUS
  <2>1. U \subseteq Nat
    BY <1>1
  <2>2. PICK i \in U : \A j \in U : i <= j
    BY <2>1, NatMin
  <2>3. i # 0
    BY <1>2, <1>4, <2>2 DEF Trace
  <2>4. i \in 1 .. n /\ i - 1 \in 0 .. n /\ ~(i <= i - 1)
    BY <1>1, <2>2, <2>3
  <2>5. Grown(a, s, q, i - 1, tr[i - 1]) /\ tr[i - 1] \in Sendings
    BY <2>2, <2>4
  <2>6. Grown(a, s, q, i, Added(tr[i - 1], q[i]))
    BY <1>0, <2>4, <2>5, OneMoreAdded
  <2>7. tr[i] = AddedFn[tr[i - 1]][q[i]]
    BY <1>4, <2>4 DEF Trace
  <2>8. tr[i] = Added(tr[i - 1], q[i])
    BY <1>1, <2>4, <2>5, <2>7 DEF AddedFn
  <2> QED
    BY <2>2, <2>6, <2>8
<1>7. n \in 0 .. n
  BY <1>1
<1>8. Grown(a, s, q, n, tr[n])
  BY <1>6, <1>7
<1>9. tr[n] \in Sendings
  BY <1>7
<1>10. r \in Sendings /\ Grown(a, s, q, n, r)
  BY <1>4, <1>8, <1>9
<1>11. r.agent \in Lists
  BY <1>10 DEF Sendings
<1>12. r.agent = s \o q
  BY <1>0, <1>10, <1>11, AllLonger DEF Grown
<1> QED
  BY <1>10, <1>12 DEF Grown, s

-----------------------------------------------------------------------------
(* What stays of a list *)

(* The containers among the first n of q that have one of ids, in order.   *)
Picked(q, ids, n, r) ==
    /\ \A i \in 1 .. Len(r) : r[i].id \in ids /\ \E k \in 1 .. n : q[k] = r[i]
    /\ \A i, j \in 1 .. Len(r) : i < j => \E k, l \in 1 .. n : k < l /\ q[k] = r[i] /\ q[l] = r[j]
    /\ \A k \in 1 .. n : q[k].id \in ids => \E i \in 1 .. Len(r) : r[i] = q[k]

(* One more.                                                               *)
LEMMA OneMorePicked ==
    ASSUME NEW ids, NEW q \in Seq(Containers), NEW n \in 1 .. Len(q),
           NEW r \in Lists, Picked(q, ids, n - 1, r)
    PROVE  Picked(q, ids, n, KeepIn(ids, r, q[n]))
<1> DEFINE c == q[n]
<1>1. c \in Containers /\ n \in Nat /\ n >= 1 /\ r \in Seq(Containers) /\ Len(r) \in Nat
  BY ElementOfSeq, LenProperties DEF Lists
<1>2. n \in 1 .. n /\ \A k \in 1 .. n : (k \in 1 .. n - 1 /\ k < n) \/ k = n
  BY <1>1
<1>3. \A k \in 1 .. n - 1 : k \in 1 .. n /\ k < n
  BY <1>1
<1>4. /\ \A i \in 1 .. Len(r) : r[i].id \in ids /\ \E k \in 1 .. n - 1 : q[k] = r[i]
      /\ \A i, j \in 1 .. Len(r) : i < j => \E k, l \in 1 .. n - 1 : k < l /\ q[k] = r[i] /\ q[l] = r[j]
      /\ \A k \in 1 .. n - 1 : q[k].id \in ids => \E i \in 1 .. Len(r) : r[i] = q[k]
  BY DEF Picked
<1>5. CASE c.id \notin ids
  <2>1. KeepIn(ids, r, c) = r
    BY <1>5 DEF KeepIn
  <2>2. \A i \in 1 .. Len(r) : r[i].id \in ids /\ \E k \in 1 .. n : q[k] = r[i]
    BY <1>3, <1>4
  <2>3. ASSUME NEW i \in 1 .. Len(r), NEW j \in 1 .. Len(r), i < j
        PROVE  \E k, l \in 1 .. n : k < l /\ q[k] = r[i] /\ q[l] = r[j]
    <3>1. PICK k, l \in 1 .. n - 1 : k < l /\ q[k] = r[i] /\ q[l] = r[j]
      BY <1>4, <2>3
    <3>2. k \in 1 .. n /\ l \in 1 .. n
      BY <1>3
    <3> QED
      BY <3>1, <3>2
  <2>4. \A k \in 1 .. n : q[k].id \in ids => \E i \in 1 .. Len(r) : r[i] = q[k]
    BY <1>2, <1>4, <1>5
  <2> QED
    BY <2>1, <2>2, <2>3, <2>4 DEF Picked
<1>6. CASE c.id \in ids
  <2> DEFINE u == Append(r, c)
  <2>1. KeepIn(ids, r, c) = u
    BY <1>6 DEF KeepIn
  <2>2. Len(u) = Len(r) + 1 /\ (\A i \in 1 .. Len(r) : u[i] = r[i]) /\ u[Len(r) + 1] = c
    BY <1>1, AppendProperties
  <2> HIDE DEF u
  <2>3. \A i \in 1 .. Len(u) : (i \in 1 .. Len(r) /\ u[i] = r[i]) \/ (i = Len(r) + 1 /\ u[i] = c)
    BY <1>1, <2>2
  <2>4. \A i \in 1 .. Len(r) : i \in 1 .. Len(u) /\ i < Len(r) + 1 /\ ~(Len(r) + 1 < i)
    BY <1>1, <2>2
  <2>5. Len(r) + 1 \in 1 .. Len(u) /\ ~(Len(r) + 1 < Len(r) + 1)
    BY <1>1, <2>2
  <2>6. ASSUME NEW i \in 1 .. Len(u) PROVE u[i].id \in ids /\ \E k \in 1 .. n : q[k] = u[i]
    <3>1. CASE i \in 1 .. Len(r) /\ u[i] = r[i]
      <4>1. PICK k \in 1 .. n - 1 : q[k] = r[i]
        BY <1>4, <3>1
      <4>2. k \in 1 .. n
        BY <1>3
      <4> QED
        BY <1>4, <3>1, <4>1, <4>2
    <3>2. CASE i = Len(r) + 1 /\ u[i] = c
      BY <1>2, <1>6, <3>2
    <3> QED
      BY <2>3, <3>1, <3>2
  <2>7. ASSUME NEW i \in 1 .. Len(u), NEW j \in 1 .. Len(u), i < j
        PROVE  \E k, l \in 1 .. n : k < l /\ q[k] = u[i] /\ q[l] = u[j]
    <3>1. i \in 1 .. Len(r) /\ u[i] = r[i]
      BY <1>1, <2>2, <2>3, <2>7
    <3>2. CASE j \in 1 .. Len(r) /\ u[j] = r[j]
      <4>1. PICK k, l \in 1 .. n - 1 : k < l /\ q[k] = r[i] /\ q[l] = r[j]
        BY <1>4, <2>7, <3>1, <3>2
      <4>2. k \in 1 .. n /\ l \in 1 .. n
        BY <1>3
      <4> QED
        BY <3>1, <3>2, <4>1, <4>2
    <3>3. CASE j = Len(r) + 1 /\ u[j] = c
      <4>1. PICK k \in 1 .. n - 1 : q[k] = r[i]
        BY <1>4, <3>1
      <4>2. k \in 1 .. n /\ k < n
        BY <1>3
      <4> QED
        BY <1>2, <3>1, <3>3, <4>1, <4>2
    <3> QED
      BY <2>3, <3>2, <3>3
  <2>8. ASSUME NEW k \in 1 .. n, q[k].id \in ids PROVE \E i \in 1 .. Len(u) : u[i] = q[k]
    <3>1. CASE k \in 1 .. n - 1
      <4>1. PICK i \in 1 .. Len(r) : r[i] = q[k]
        BY <1>4, <2>8, <3>1
      <4> QED
        BY <2>2, <2>4, <4>1
    <3>2. CASE k = n
      BY <2>2, <2>5, <3>2
    <3> QED
      BY <1>2, <3>1, <3>2
  <2> QED
    BY <2>1, <2>6, <2>7, <2>8 DEF Picked
<1> QED
  BY <1>5, <1>6

(* All of them.                                                            *)
LEMMA AllPicked ==
    ASSUME NEW ids, NEW q \in Lists, NEW r, r = WithIds(q, ids)
    PROVE  r \in Lists /\ Picked(q, ids, Len(q), r)
<1> DEFINE n == Len(q)
<1>0. q \in Seq(Containers) /\ << >> \in Lists
  BY DEF Lists
<1>1. n \in Nat /\ (\A i \in 1 .. n : q[i] \in Containers)
  BY <1>0, ListFacts
<1>2. Picked(q, ids, 0, << >>)
  <2>1. 1 .. 0 = {} /\ Len(<< >>) = 0
    OBVIOUS
  <2> QED
    BY <2>1 DEF Picked
<1>4. PICK tr \in [0 .. n -> Lists] : Trace(KeptFn(ids), << >>, q, tr) /\ tr[n] = r
  BY <1>0, KeptFold DEF Leads
<1> DEFINE U == { i \in 0 .. n : ~Picked(q, ids, i, tr[i]) }
<1>6. U = {}
  <2> SUFFICES ASSUME U # {} PROVE FALSE
    OBVIOUS
  <2>1. U \subseteq Nat
    BY <1>1
  <2>2. PICK i \in U : \A j \in U : i <= j
    BY <2>1, NatMin
  <2>3. i # 0
    BY <1>2, <1>4, <2>2 DEF Trace
  <2>4. i \in 1 .. n /\ i - 1 \in 0 .. n /\ ~(i <= i - 1)
    BY <1>1, <2>2, <2>3
  <2>5. Picked(q, ids, i - 1, tr[i - 1]) /\ tr[i - 1] \in Lists
    BY <2>2, <2>4
  <2>6. Picked(q, ids, i, KeepIn(ids, tr[i - 1], q[i]))
    BY <1>0, <2>4, <2>5, OneMorePicked
  <2>7. tr[i] = KeptFn(ids)[tr[i - 1]][q[i]]
    BY <1>4, <2>4 DEF Trace
  <2>8. tr[i] = KeepIn(ids, tr[i - 1], q[i])
    BY <1>1, <2>4, <2>5, <2>7 DEF KeptFn
  <2> QED
    BY <2>2, <2>6, <2>8
<1>7. n \in 0 .. n
  BY <1>1
<1>8. Picked(q, ids, n, tr[n])
  BY <1>6, <1>7
<1>9. tr[n] \in Lists
  BY <1>7
<1> QED
  BY <1>4, <1>8, <1>9

(* The picked containers are some of the list, in its order.               *)
LEMMA WithIdsProperties ==
    ASSUME NEW ids, NEW q \in Lists, NEW r, r = WithIds(q, ids)
    PROVE  /\ r \in Lists
           /\ InOrder(r, q)
           /\ \A x : x \in IdSet(r) <=> x \in IdSet(q) /\ x \in ids
<1>1. r \in Lists /\ Picked(q, ids, Len(q), r)
  BY AllPicked
<1>2. InOrder(r, q)
  <2> SUFFICES ASSUME NEW i \in 1 .. Len(r), NEW j \in 1 .. Len(r), i < j
               PROVE  \E k, l \in 1 .. Len(q) : k < l /\ q[k].id = r[i].id /\ q[l].id = r[j].id
    BY DEF InOrder
  <2>1. PICK k, l \in 1 .. Len(q) : k < l /\ q[k] = r[i] /\ q[l] = r[j]
    BY <1>1 DEF Picked
  <2> QED
    BY <2>1
<1>3. ASSUME NEW x PROVE x \in IdSet(r) <=> x \in IdSet(q) /\ x \in ids
  <2>1. ASSUME x \in IdSet(r) PROVE x \in IdSet(q) /\ x \in ids
    <3>1. PICK i \in 1 .. Len(r) : r[i].id = x
      BY <1>1, <2>1, ListFacts
    <3>2. PICK k \in 1 .. Len(q) : q[k] = r[i]
      BY <1>1 DEF Picked
    <3>3. r[i].id \in ids
      BY <1>1 DEF Picked
    <3> QED
      BY <3>1, <3>2, <3>3, ListFacts
  <2>2. ASSUME x \in IdSet(q), x \in ids PROVE x \in IdSet(r)
    <3>1. PICK k \in 1 .. Len(q) : q[k].id = x
      BY <2>2, ListFacts
    <3>2. PICK i \in 1 .. Len(r) : r[i] = q[k]
      BY <1>1, <2>2, <3>1 DEF Picked
    <3> QED
      BY <1>1, <3>1, <3>2, ListFacts
  <2> QED
    BY <2>1, <2>2
<1> QED
  BY <1>1, <1>2, <1>3

(* Two lists in a row.                                                     *)
LEMMA TwoLists ==
    ASSUME NEW s \in Lists, NEW t \in Lists, NEW r, r = s \o t
    PROVE  /\ r \in Lists /\ Len(r) = Len(s) + Len(t)
           /\ \A k \in 1 .. Len(r) : (k \in 1 .. Len(s) /\ r[k] = s[k])
                                     \/ (k - Len(s) \in 1 .. Len(t) /\ ~(k <= Len(s)) /\ r[k] = t[k - Len(s)])
           /\ \A k \in 1 .. Len(s) : k \in 1 .. Len(r) /\ r[k] = s[k]
           /\ \A k \in 1 .. Len(t) : Len(s) + k \in 1 .. Len(r) /\ r[Len(s) + k] = t[k]
           /\ \A x : x \in IdSet(r) <=> x \in IdSet(s) \/ x \in IdSet(t)
           /\ IdSeq(r) = IdSeq(s) \o IdSeq(t)
<1>1. s \in Seq(Containers) /\ t \in Seq(Containers) /\ Len(s) \in Nat /\ Len(t) \in Nat
  BY ListFacts DEF Lists
<1>2. /\ r \in Seq(Containers) /\ Len(r) = Len(s) + Len(t)
      /\ \A i \in 1 .. Len(s) + Len(t) : r[i] = IF i <= Len(s) THEN s[i] ELSE t[i - Len(s)]
  BY <1>1, ConcatProperties
<1>3. \A k \in 1 .. Len(r) : (k \in 1 .. Len(s) /\ r[k] = s[k])
                             \/ (k - Len(s) \in 1 .. Len(t) /\ ~(k <= Len(s)) /\ r[k] = t[k - Len(s)])
  BY <1>1, <1>2
<1>4. \A k \in 1 .. Len(s) : k \in 1 .. Len(r) /\ r[k] = s[k]
  BY <1>1, <1>2
<1>5. ASSUME NEW k \in 1 .. Len(t) PROVE Len(s) + k \in 1 .. Len(r) /\ r[Len(s) + k] = t[k]
  <2>1. Len(s) + k \in 1 .. Len(s) + Len(t) /\ ~(Len(s) + k <= Len(s)) /\ (Len(s) + k) - Len(s) = k
    BY <1>1
  <2> QED
    BY <1>2, <2>1
<1>6. r \in Lists
  BY <1>2 DEF Lists
<1>7. ASSUME NEW x PROVE x \in IdSet(r) <=> x \in IdSet(s) \/ x \in IdSet(t)
  <2>1. ASSUME x \in IdSet(r) PROVE x \in IdSet(s) \/ x \in IdSet(t)
    <3>1. PICK k \in 1 .. Len(r) : r[k].id = x
      BY <1>6, <2>1, ListFacts
    <3> QED
      BY <1>3, <3>1, ListFacts
  <2>2. ASSUME x \in IdSet(s) PROVE x \in IdSet(r)
    <3>1. PICK k \in 1 .. Len(s) : s[k].id = x
      BY <2>2, ListFacts
    <3>2. k \in 1 .. Len(r) /\ r[k].id = x
      BY <1>4, <3>1
    <3> QED
      BY <1>6, <3>2, ListFacts
  <2>3. ASSUME x \in IdSet(t) PROVE x \in IdSet(r)
    <3>1. PICK k \in 1 .. Len(t) : t[k].id = x
      BY <2>3, ListFacts
    <3>2. Len(s) + k \in 1 .. Len(r) /\ r[Len(s) + k].id = x
      BY <1>5, <3>1
    <3> QED
      BY <1>6, <3>2, ListFacts
  <2> QED
    BY <2>1, <2>2, <2>3
<1>8. IdSeq(r) = IdSeq(s) \o IdSeq(t)
  <2> DEFINE I == { c.id : c \in Containers }
  <2>1. \A u \in Lists : IdSeq(u) \in Seq(I) /\ Len(IdSeq(u)) = Len(u)
    <3> SUFFICES ASSUME NEW u \in Lists PROVE IdSeq(u) \in Seq(I) /\ Len(IdSeq(u)) = Len(u)
      OBVIOUS
    <3>1. DOMAIN u = 1 .. Len(u) /\ Len(u) \in Nat /\ \A k \in 1 .. Len(u) : u[k].id \in I
      BY ListFacts
    <3> HIDE DEF I
    <3> QED
      BY <3>1 DEF IdSeq
  <2> HIDE DEF I
  <2>2. /\ IdSeq(s) \o IdSeq(t) \in Seq(I) /\ Len(IdSeq(s) \o IdSeq(t)) = Len(s) + Len(t)
        /\ \A i \in 1 .. Len(s) + Len(t) :
              (IdSeq(s) \o IdSeq(t))[i] = IF i <= Len(s) THEN IdSeq(s)[i] ELSE IdSeq(t)[i - Len(s)]
    <3> DEFINE a == IdSeq(s)
               b == IdSeq(t)
    <3>1. a \in Seq(I) /\ b \in Seq(I) /\ Len(a) = Len(s) /\ Len(b) = Len(t)
      BY <2>1
    <3> HIDE DEF a, b
    <3>2. /\ a \o b \in Seq(I) /\ Len(a \o b) = Len(a) + Len(b)
          /\ \A i \in 1 .. Len(a) + Len(b) : (a \o b)[i] = IF i <= Len(a) THEN a[i] ELSE b[i - Len(a)]
      BY <3>1, ConcatProperties
    <3>3. /\ a \o b \in Seq(I) /\ Len(a \o b) = Len(s) + Len(t)
          /\ \A i \in 1 .. Len(s) + Len(t) : (a \o b)[i] = IF i <= Len(s) THEN a[i] ELSE b[i - Len(s)]
      BY <3>1, <3>2
    <3> QED
      BY <3>3 DEF a, b
  <2>3. ASSUME NEW i \in 1 .. Len(r) PROVE IdSeq(r)[i] = (IdSeq(s) \o IdSeq(t))[i]
    <3>1. IdSeq(r)[i] = r[i].id
      BY <1>6, ListFacts
    <3>2. CASE i \in 1 .. Len(s) /\ r[i] = s[i]
      BY <1>1, <1>2, <2>2, <3>1, <3>2, ListFacts
    <3>3. CASE i - Len(s) \in 1 .. Len(t) /\ ~(i <= Len(s)) /\ r[i] = t[i - Len(s)]
      BY <1>1, <1>2, <2>2, <3>1, <3>3, ListFacts
    <3> QED
      BY <1>3, <3>2, <3>3
  <2>4. IdSeq(r) \in Seq(I) /\ Len(IdSeq(r)) = Len(r)
    BY <1>6, <2>1
  <2> QED
    BY <1>2, <2>2, <2>3, <2>4, SeqEqual
<1> QED
  BY <1>2, <1>3, <1>4, <1>5, <1>6, <1>7, <1>8

(* Lists without doubles and without a common id have none together.       *)
LEMMA TwoDistinct ==
    ASSUME NEW s \in Lists, NEW t \in Lists, Distinct(s), Distinct(t),
           \A x : ~(x \in IdSet(s) /\ x \in IdSet(t))
    PROVE  Distinct(s \o t)
<1> DEFINE r == s \o t
<1>1. \A k \in 1 .. Len(r) : (k \in 1 .. Len(s) /\ r[k] = s[k])
                             \/ (k - Len(s) \in 1 .. Len(t) /\ ~(k <= Len(s)) /\ r[k] = t[k - Len(s)])
  BY TwoLists
<1>2. Len(s) \in Nat /\ Len(t) \in Nat /\ Len(r) = Len(s) + Len(t)
  BY ListFacts, TwoLists
<1>3. \A k \in 1 .. Len(s), l \in 1 .. Len(t) : s[k].id # t[l].id
  BY ListFacts
<1> HIDE DEF r
<1>4. ASSUME NEW k \in 1 .. Len(r), NEW l \in 1 .. Len(r), r[k].id = r[l].id PROVE k = l
  <2>1. CASE k \in 1 .. Len(s) /\ l \in 1 .. Len(s) /\ r[k] = s[k] /\ r[l] = s[l]
    BY <1>4, <2>1 DEF Distinct
  <2>2. CASE /\ k - Len(s) \in 1 .. Len(t) /\ l - Len(s) \in 1 .. Len(t)
             /\ r[k] = t[k - Len(s)] /\ r[l] = t[l - Len(s)]
    <3>1. k - Len(s) = l - Len(s)
      BY <1>4, <2>2 DEF Distinct
    <3> QED
      BY <1>2, <3>1
  <2>3. CASE k \in 1 .. Len(s) /\ r[k] = s[k] /\ l - Len(s) \in 1 .. Len(t) /\ r[l] = t[l - Len(s)]
    BY <1>3, <1>4, <2>3
  <2>4. CASE l \in 1 .. Len(s) /\ r[l] = s[l] /\ k - Len(s) \in 1 .. Len(t) /\ r[k] = t[k - Len(s)]
    BY <1>3, <1>4, <2>4
  <2> QED
    BY <1>1, <2>1, <2>2, <2>3, <2>4
<1> QED
  BY <1>4 DEF Distinct, r

(* A part of the second of two lists, behind the first, is a part of both. *)
LEMMA PartBehind ==
    ASSUME NEW s \in Lists, NEW t \in Lists, NEW u \in Lists, InOrder(u, t),
           \A x : x \in IdSet(u) => x \in IdSet(t)
    PROVE  InOrder(s \o u, s \o t)
<1> DEFINE r == s \o u
           w == s \o t
<1>1. \A k \in 1 .. Len(r) : (k \in 1 .. Len(s) /\ r[k] = s[k])
                             \/ (k - Len(s) \in 1 .. Len(u) /\ ~(k <= Len(s)) /\ r[k] = u[k - Len(s)])
  BY TwoLists
<1>2. /\ \A k \in 1 .. Len(s) : k \in 1 .. Len(w) /\ w[k] = s[k]
      /\ \A k \in 1 .. Len(t) : Len(s) + k \in 1 .. Len(w) /\ w[Len(s) + k] = t[k]
  BY TwoLists
<1>3. Len(s) \in Nat /\ Len(t) \in Nat /\ Len(u) \in Nat /\ Len(r) = Len(s) + Len(u)
  BY ListFacts, TwoLists
<1>4. \A k \in 1 .. Len(u) : \E l \in 1 .. Len(t) : t[l].id = u[k].id
  BY ListFacts
<1> HIDE DEF r, w
<1>5. ASSUME NEW i \in 1 .. Len(r), NEW j \in 1 .. Len(r), i < j
      PROVE  \E k, l \in 1 .. Len(w) : k < l /\ w[k].id = r[i].id /\ w[l].id = r[j].id
  <2>1. CASE i \in 1 .. Len(s) /\ j \in 1 .. Len(s) /\ r[i] = s[i] /\ r[j] = s[j]
    BY <1>2, <1>5, <2>1
  <2>2. CASE /\ i - Len(s) \in 1 .. Len(u) /\ j - Len(s) \in 1 .. Len(u)
             /\ r[i] = u[i - Len(s)] /\ r[j] = u[j - Len(s)]
    <3>1. i - Len(s) < j - Len(s)
      BY <1>3, <1>5
    <3>2. PICK k, l \in 1 .. Len(t) : k < l /\ t[k].id = u[i - Len(s)].id /\ t[l].id = u[j - Len(s)].id
      BY <2>2, <3>1 DEF InOrder
    <3>3. Len(s) + k < Len(s) + l
      BY <1>3, <3>2
    <3> QED
      BY <1>2, <2>2, <3>2, <3>3
  <2>3. CASE i \in 1 .. Len(s) /\ r[i] = s[i] /\ j - Len(s) \in 1 .. Len(u) /\ r[j] = u[j - Len(s)]
    <3>1. PICK l \in 1 .. Len(t) : t[l].id = u[j - Len(s)].id
      BY <1>4, <2>3
    <3>2. i < Len(s) + l
      BY <1>3, <2>3
    <3> QED
      BY <1>2, <2>3, <3>1, <3>2
  <2>4. CASE j \in 1 .. Len(s) /\ ~(i <= Len(s))
    BY <1>3, <1>5, <2>4
  <2> QED
    BY <1>1, <2>1, <2>2, <2>3, <2>4
<1> QED
  BY <1>5 DEF InOrder, r, w
(* What is known of the two together.                                      *)
LEMMA Together ==
    ASSUME NEW s \in Lists, NEW t \in Lists
    PROVE  /\ s \o t \in Lists
           /\ IdSet(s \o t) = IdSet(s) \cup IdSet(t)
           /\ IdSeq(s \o t) = IdSeq(s) \o IdSeq(t)
<1> DEFINE r == s \o t
<1>1. /\ r \in Lists
      /\ \A x : x \in IdSet(r) <=> x \in IdSet(s) \/ x \in IdSet(t)
      /\ IdSeq(r) = IdSeq(s) \o IdSeq(t)
  BY TwoLists
<1> HIDE DEF r
<1>2. IdSet(r) = IdSet(s) \cup IdSet(t)
  BY <1>1
<1> QED
  BY <1>1, <1>2 DEF r

(* A list of podman's containers: each has an id of podman's, once.        *)
Known(s) == Distinct(s) /\ IdSet(s) \subseteq Ids

(* The agent's own containers are not podman's.                            *)
LEMMA OwnFacts ==
    /\ OwnContainers \in Lists
    /\ Distinct(OwnContainers)
    /\ \A x \in Ids : x \notin IdSet(OwnContainers)
<1> DEFINE s == Container("session", 1, "session")
           j == Container("jhbuild", 1, "session")
<1>1. s \in Containers /\ j \in Containers /\ s.id = "session" /\ j.id = "jhbuild"
  BY TrackingAssumption DEF Container, Containers
<1> HIDE DEF s, j
<1>2. CASE HasJhbuildrc
  <2>1. OwnContainers = << s >> \o << j >>
    BY <1>2 DEF OwnContainers, s, j
  <2>2. << s >> \in Lists /\ Len(<< s >>) = 1 /\ << s >>[1] = s
    BY <1>1 DEF Lists
  <2>3. << j >> \in Lists /\ Len(<< j >>) = 1 /\ << j >>[1] = j
    BY <1>1 DEF Lists
  <2>4. Distinct(<< s >>) /\ Distinct(<< j >>)
    BY <2>2, <2>3 DEF Distinct
  <2>5. IdSet(<< s >>) = {"session"} /\ IdSet(<< j >>) = {"jhbuild"}
    <3>1. DOMAIN << s >> = {1} /\ DOMAIN << j >> = {1}
      BY <2>2, <2>3
    <3> QED
      BY <1>1, <2>2, <2>3, <3>1 DEF IdSet
  <2> DEFINE a == << s >>
             b == << j >>
  <2>6. a \in Lists /\ b \in Lists /\ Distinct(a) /\ Distinct(b) /\ IdSet(a) = {"session"} /\ IdSet(b) = {"jhbuild"}
    BY <2>2, <2>3, <2>4, <2>5
  <2> HIDE DEF a, b
  <2>7. \A x : ~(x \in IdSet(a) /\ x \in IdSet(b))
    BY <2>6
  <2>8. a \o b \in Lists /\ IdSet(a \o b) = {"session", "jhbuild"}
    <3>1. a \o b \in Lists /\ IdSet(a \o b) = IdSet(a) \cup IdSet(b)
      BY <2>6, Together
    <3> QED
      BY <2>6, <3>1
  <2>9. Distinct(a \o b)
    BY <2>6, <2>7, TwoDistinct
  <2>10. \A x \in Ids : x \notin {"session", "jhbuild"}
    BY TrackingAssumption
  <2> QED
    BY <2>1, <2>8, <2>9, <2>10 DEF a, b
<1>3. CASE ~HasJhbuildrc
  <2>1. OwnContainers = << s >> \o << >>
    BY <1>3 DEF OwnContainers, s
  <2>2. << s >> \o << >> = << s >>
    BY <1>1
  <2>3. << s >> \in Lists /\ Len(<< s >>) = 1 /\ << s >>[1] = s
    BY <1>1 DEF Lists
  <2>4. Distinct(<< s >>)
    BY <2>3 DEF Distinct
  <2>5. \A x : x \in IdSet(<< s >>) => x = "session"
    BY <1>1, <2>3 DEF IdSet
  <2>6. \A x \in Ids : x # "session"
    BY TrackingAssumption
  <2> QED
    BY <2>1, <2>2, <2>3, <2>4, <2>5, <2>6
<1> QED
  BY <1>2, <1>3

(* The other way round, a list has the same containers.                    *)
LEMMA ReverseFacts ==
    ASSUME NEW s \in Lists
    PROVE  /\ Reverse(s) \in Lists
           /\ \A x : (\A k \in 1 .. Len(Reverse(s)) : Reverse(s)[k].id # x) <=> x \notin IdSet(s)
<1>1. Len(s) \in Nat /\ \A k \in 1 .. Len(s) : s[k] \in Containers
  BY ListFacts
<1>2. \A k \in 1 .. Len(s) : (Len(s) - k) + 1 \in 1 .. Len(s) /\ (Len(s) - ((Len(s) - k) + 1)) + 1 = k
  BY <1>1
<1> DEFINE r == [k \in 1 .. Len(s) |-> s[(Len(s) - k) + 1]]
<1>3. r \in [1 .. Len(s) -> Containers]
  BY <1>1, <1>2
<1>4. r \in Seq(Containers) /\ Len(r) = Len(s)
  BY <1>1, <1>3
<1>5. Reverse(s) = r
  BY DEF Reverse
<1>6. \A k \in 1 .. Len(s) : r[k] = s[(Len(s) - k) + 1]
  OBVIOUS
<1> HIDE DEF r
<1>7. ASSUME NEW x PROVE (\A k \in 1 .. Len(r) : r[k].id # x) <=> x \notin IdSet(s)
  <2>1. ASSUME x \in IdSet(s) PROVE \E k \in 1 .. Len(r) : r[k].id = x
    <3>1. PICK k \in 1 .. Len(s) : s[k].id = x
      BY <2>1, ListFacts
    <3>2. r[(Len(s) - k) + 1] = s[k]
      BY <1>2, <1>6
    <3> QED
      BY <1>2, <1>4, <3>1, <3>2
  <2>2. ASSUME NEW k \in 1 .. Len(r), r[k].id = x PROVE x \in IdSet(s)
    <3>1. (Len(s) - k) + 1 \in 1 .. Len(s) /\ s[(Len(s) - k) + 1].id = x
      BY <1>2, <1>4, <1>6, <2>2
    <3> QED
      BY <3>1, ListFacts
  <2> QED
    BY <2>1, <2>2
<1> QED
  BY <1>4, <1>5, <1>7 DEF Lists

(* A list whose containers are replaced by ones with the same ids.         *)
LEMMA SameIds ==
    ASSUME NEW s \in Lists, NEW r \in Lists, Len(r) = Len(s), \A k \in 1 .. Len(s) : r[k].id = s[k].id
    PROVE  IdSeq(r) = IdSeq(s) /\ IdSet(r) = IdSet(s) /\ (Distinct(s) => Distinct(r))
<1>1. DOMAIN r = 1 .. Len(s) /\ DOMAIN s = 1 .. Len(s)
  BY ListFacts
<1>2. IdSeq(r) = IdSeq(s)
  BY <1>1 DEF IdSeq
<1>3. IdSet(r) = IdSet(s)
  BY <1>1 DEF IdSet
<1>4. Distinct(s) => Distinct(r)
  BY DEF Distinct
<1> QED
  BY <1>2, <1>3, <1>4

MergedList(new) ==
    LET stay == Kept(new) IN [k \in DOMAIN stay |-> Newer(new, stay[k])] \o Fresh(new)

(* A merge: what the provider has then, the agent has behind its own, and  *)
(* what it announces says so.                                              *)
LEMMA MergeAgrees ==
    ASSUME agent \in Lists, provider \in Lists, Known(provider),
           IdSeq(agent) = IdSeq(OwnContainers) \o IdSeq(provider),
           NEW new \in Lists, Known(new)
    PROVE  /\ MergedList(new) \in Lists /\ Known(MergedList(new))
           /\ Announced(new) \in Sendings /\ SentRight(agent, Announced(new))
           /\ IdSeq(Announced(new).agent) = IdSeq(OwnContainers) \o IdSeq(MergedList(new))
<1> DEFINE own   == OwnContainers
           stay  == Kept(new)
           gone  == Gone(new)
           fresh == Fresh(new)
           newer == [k \in DOMAIN stay |-> Newer(new, stay[k])]
           rest  == FoldLeft(Removed, [agent |-> agent, sent |-> << >>], Reverse(gone))
<1>1. own \in Lists /\ Distinct(own) /\ \A x \in Ids : x \notin IdSet(own)
  BY OwnFacts
<1>2. stay \in Lists /\ InOrder(stay, provider) /\ \A x : x \in IdSet(stay) <=> x \in IdSet(provider) /\ x \in IdSet(new)
  BY WithIdsProperties DEF Kept
<1>3. gone \in Lists /\ \A x : x \in IdSet(gone) <=> x \in IdSet(provider) /\ x \notin IdSet(new)
  BY WithIdsProperties DEF Gone
<1>4. fresh \in Lists /\ InOrder(fresh, new) /\ \A x : x \in IdSet(fresh) <=> x \in IdSet(new) /\ x \notin IdSet(provider)
  BY WithIdsProperties DEF Fresh
<1>5. Announced(new) = FoldLeft(Added, rest, fresh)
  BY DEF Announced
<1>6. MergedList(new) = newer \o fresh
  BY DEF MergedList
<1> HIDE DEF own, gone, fresh, stay
<1>7. Distinct(stay) /\ Distinct(fresh)
  BY <1>2, <1>4, PartDistinct DEF Known
<1>8. newer \in Lists /\ Len(newer) = Len(stay) /\ \A k \in 1 .. Len(stay) : newer[k].id = stay[k].id
  <2>1. DOMAIN stay = 1 .. Len(stay) /\ Len(stay) \in Nat
    BY <1>2, ListFacts
  <2>2. ASSUME NEW k \in 1 .. Len(stay) PROVE Newer(new, stay[k]) \in Containers /\ Newer(new, stay[k]).id = stay[k].id
    <3>1. stay[k].id \in IdSet(new)
      BY <1>2, ListFacts
    <3>2. Position(stay[k].id, new) \in 1 .. Len(new) /\ new[Position(stay[k].id, new)].id = stay[k].id
      BY <3>1, PositionThere
    <3> QED
      BY <3>2, ListFacts DEF Newer
  <2>3. newer \in [1 .. Len(stay) -> Containers]
    BY <2>1, <2>2
  <2> QED
    BY <2>1, <2>2, <2>3 DEF Lists
<1> HIDE DEF newer
<1>9. IdSeq(newer) = IdSeq(stay) /\ IdSet(newer) = IdSet(stay) /\ Distinct(newer)
  BY <1>2, <1>7, <1>8, SameIds
<1>10. /\ MergedList(new) \in Lists
       /\ IdSet(MergedList(new)) = IdSet(newer) \cup IdSet(fresh)
       /\ IdSeq(MergedList(new)) = IdSeq(newer) \o IdSeq(fresh)
  <2>1. newer \in Lists /\ fresh \in Lists
    BY <1>4, <1>8
  <2>2. /\ newer \o fresh \in Lists
        /\ IdSet(newer \o fresh) = IdSet(newer) \cup IdSet(fresh)
        /\ IdSeq(newer \o fresh) = IdSeq(newer) \o IdSeq(fresh)
    BY <2>1, Together
  <2> QED
    BY <1>6, <2>2
<1>11. Distinct(MergedList(new))
  <2>1. \A x : ~(x \in IdSet(newer) /\ x \in IdSet(fresh))
    BY <1>2, <1>4, <1>9
  <2> QED
    BY <1>4, <1>6, <1>7, <1>8, <1>9, <2>1, TwoDistinct
<1>12. IdSet(MergedList(new)) \subseteq Ids
  BY <1>2, <1>4, <1>9, <1>10 DEF Known
<1> DEFINE both == own \o provider
           mine == own \o stay
<1>13. /\ both \in Lists /\ IdSeq(both) = IdSeq(own) \o IdSeq(provider)
       /\ IdSet(both) = IdSet(own) \cup IdSet(provider)
  BY <1>1, Together
<1>14. /\ mine \in Lists /\ IdSeq(mine) = IdSeq(own) \o IdSeq(stay)
       /\ IdSet(mine) = IdSet(own) \cup IdSet(stay)
  BY <1>1, <1>2, Together
<1>15. InOrder(mine, both)
  BY <1>1, <1>2, PartBehind
<1>16. Distinct(both)
  <2>1. \A x : ~(x \in IdSet(own) /\ x \in IdSet(provider))
    BY <1>1 DEF Known
  <2> QED
    BY <1>1, <2>1, TwoDistinct DEF Known
<1> HIDE DEF both, mine
<1>17. IdSeq(agent) = IdSeq(both)
  BY <1>13 DEF own
<1>18. /\ Len(agent) = Len(both) /\ \A k \in 1 .. Len(both) : agent[k].id = both[k].id
       /\ \A k \in 1 .. Len(both) : both[k].id = agent[k].id
  <2>1. 1 .. Len(agent) = 1 .. Len(both) /\ Len(agent) \in Nat /\ Len(both) \in Nat
    BY <1>13, <1>17, ListFacts
  <2>2. Len(agent) = Len(both)
    <3>1. \A m, n \in Nat : 1 .. m = 1 .. n => m <= n
      <4> SUFFICES ASSUME NEW m \in Nat, NEW n \in Nat, 1 .. m = 1 .. n, ~(m <= n) PROVE FALSE
        OBVIOUS
      <4>1. m \in 1 .. m /\ m \notin 1 .. n
        OBVIOUS
      <4> QED
        BY <4>1
    <3> QED
      BY <2>1, <3>1
  <2>3. \A k \in 1 .. Len(both) : IdSeq(agent)[k] = agent[k].id /\ IdSeq(both)[k] = both[k].id
    BY <1>13, <2>2, ListFacts
  <2> QED
    BY <1>17, <2>2, <2>3
<1>19. IdSet(agent) = IdSet(both) /\ Distinct(agent)
  BY <1>13, <1>16, <1>18, SameIds
<1>20. /\ Reverse(gone) \in Lists
       /\ \A x : (\A k \in 1 .. Len(Reverse(gone)) : Reverse(gone)[k].id # x) <=> x \notin IdSet(gone)
  BY <1>3, ReverseFacts
<1>21. rest \in Sendings /\ LeftOf(agent, Reverse(gone), Len(Reverse(gone)), rest)
  BY <1>19, <1>20, AllRemoved DEF Lists
<1> HIDE DEF rest
<1>22. /\ rest.agent \in Lists /\ SentRight(agent, rest) /\ InOrder(rest.agent, agent)
       /\ \A x : x \in IdSet(rest.agent) <=> x \in IdSet(agent) /\ x \notin IdSet(gone)
  BY <1>20, <1>21 DEF LeftOf, Sendings
<1>23. IdSeq(rest.agent) = IdSeq(own) \o IdSeq(stay)
  <2>1. InOrder(rest.agent, both)
    BY <1>18, <1>22 DEF InOrder
  <2>2. ASSUME NEW x PROVE x \in IdSet(rest.agent) <=> x \in IdSet(mine)
    <3>1. x \in IdSet(own) => x \notin IdSet(gone)
      BY <1>1, <1>3 DEF Known
    <3> QED
      BY <1>2, <1>3, <1>13, <1>14, <1>19, <1>22, <3>1
  <2>3. IdSet(rest.agent) = IdSet(mine)
    BY <2>2
  <2>4. IdSeq(rest.agent) = IdSeq(mine)
    BY <1>13, <1>14, <1>15, <1>16, <1>22, <2>1, <2>3, SameOrder
  <2> QED
    BY <1>14, <2>4
<1>24. /\ Announced(new) \in Sendings /\ SentRight(agent, Announced(new))
       /\ Announced(new).agent = rest.agent \o fresh
  <2>1. rest \in Sendings /\ SentRight(agent, rest) /\ fresh \in Lists
    BY <1>4, <1>21, <1>22
  <2>3. agent \in Lists
    OBVIOUS
  <2> DEFINE r == FoldLeft(Added, rest, fresh)
  <2>4. r = FoldLeft(Added, rest, fresh)
    OBVIOUS
  <2> HIDE DEF r
  <2>2. r \in Sendings /\ SentRight(agent, r) /\ r.agent = rest.agent \o fresh
    BY ONLY <2>3, <2>4, <2>1, AllAdded
  <2> QED
    BY <1>5, <2>4, <2>2
<1>25. IdSeq(Announced(new).agent) = (IdSeq(own) \o IdSeq(stay)) \o IdSeq(fresh)
  <2>1. rest.agent \in Lists /\ fresh \in Lists
    BY <1>4, <1>22
  <2>2. IdSeq(rest.agent \o fresh) = IdSeq(rest.agent) \o IdSeq(fresh)
    BY <2>1, Together
  <2> QED
    BY <1>23, <1>24, <2>2
<1>26. (IdSeq(own) \o IdSeq(stay)) \o IdSeq(fresh) = IdSeq(own) \o (IdSeq(stay) \o IdSeq(fresh))
  <2> DEFINE I == { c.id : c \in Containers }
  <2>1. \A u \in Lists : IdSeq(u) \in Seq(I)
    <3> SUFFICES ASSUME NEW u \in Lists PROVE IdSeq(u) \in Seq(I)
      OBVIOUS
    <3>1. DOMAIN u = 1 .. Len(u) /\ Len(u) \in Nat /\ \A k \in 1 .. Len(u) : u[k].id \in I
      BY ListFacts
    <3> HIDE DEF I
    <3> QED
      BY <3>1 DEF IdSeq
  <2> HIDE DEF I
  <2>2. IdSeq(own) \in Seq(I) /\ IdSeq(stay) \in Seq(I) /\ IdSeq(fresh) \in Seq(I)
    BY <1>1, <1>2, <1>4, <2>1
  <2> QED
    BY <2>2, ConcatAssociative
<1> QED
  BY <1>9, <1>10, <1>11, <1>12, <1>24, <1>25, <1>26 DEF Known, own

(* The kind of container that each is.                                     *)
LEMMA TypeOfType == TypeOf \in [Ids -> {"podman", "distrobox", "toolbox", "session"}]
<1> SUFFICES ASSUME NEW i \in Ids
             PROVE  TypeOf[i] \in {"podman", "distrobox", "toolbox", "session"}
  BY DEF TypeOf
<1> DEFINE matching == { k \in DOMAIN LabelToType : LabelToType[k][1] \in Labels[i] }
<1>1. DOMAIN LabelToType = 1 .. 3
  BY DEF LabelToType
<1>2. LabelToType[1][2] = "distrobox" /\ LabelToType[2][2] = "distrobox" /\ LabelToType[3][2] = "toolbox"
  BY DEF LabelToType
<1>3. TypeOf[i] = IF matching = {} THEN "podman" ELSE LabelToType[Min(matching)][2]
  BY DEF TypeOf
<1>4. matching \subseteq Nat /\ matching \subseteq 1 .. 3
  BY <1>1
<1> HIDE DEF matching
<1>5. CASE matching # {}
  <2>1. \E x \in matching : \A y \in matching : x <= y
    BY <1>4, <1>5, NatMin
  <2>2. Min(matching) \in matching
    BY <2>1 DEF Min
  <2>3. Min(matching) \in {1, 2, 3}
    <3>1. Min(matching) \in 1 .. 3
      BY <1>4, <2>2
    <3>2. \A k \in 1 .. 3 : k \in {1, 2, 3}
      OBVIOUS
    <3> QED
      BY <3>1, <3>2
  <2> QED
    BY <1>2, <1>3, <1>5, <2>3
<1>6. CASE matching = {}
  BY <1>3, <1>6
<1> QED
  BY <1>5, <1>6

(* What podman prints is a list of its containers, each once.              *)
LEMMA PrintoutsKnown ==
    ASSUME disk \in [Ids -> 0 .. MaxVersion + 1], NEW s \in Printouts
    PROVE  s \in Lists /\ Known(s)
<1> DEFINE there == { i \in Ids : Exists(i) }
<1>1. PICK q \in SetToSeqs(there) : s = [k \in DOMAIN q |-> Container(q[k], disk[q[k]], TypeOf[q[k]])]
  BY DEF Printouts
<1>2. IsFiniteSet(there) /\ Cardinality(there) \in Nat
  BY TrackingAssumption, FS_Subset, FS_CardinalityType
<1> DEFINE n == Cardinality(there)
<1>3. q \in [1 .. n -> there] /\ \A i, j \in 1 .. n : i # j => q[i] # q[j]
  BY <1>1 DEF SetToSeqs
<1>4. \A i \in there : Container(i, disk[i], TypeOf[i]) \in Containers /\ Container(i, disk[i], TypeOf[i]).id = i
  BY TypeOfType DEF Container, Containers, Exists
<1> HIDE DEF there, n
<1>5. s \in [1 .. n -> Containers] /\ \A k \in 1 .. n : s[k].id = q[k]
  BY <1>1, <1>3, <1>4
<1>6. s \in Lists /\ Len(s) = n
  BY <1>2, <1>5 DEF Lists, n
<1>7. Distinct(s)
  BY <1>3, <1>5, <1>6 DEF Distinct
<1>8. IdSet(s) \subseteq Ids
  <2> SUFFICES ASSUME NEW x \in IdSet(s) PROVE x \in Ids
    OBVIOUS
  <2>1. PICK k \in 1 .. Len(s) : s[k].id = x
    BY <1>6, ListFacts
  <2>2. x \in there
    BY <1>3, <1>5, <1>6, <2>1
  <2> QED
    BY <2>2 DEF there
<1> QED
  BY <1>6, <1>7, <1>8 DEF Known

(* No list is one of podman's, each once.                                  *)
LEMMA NoneKnown == << >> \in Lists /\ Known(<< >>)
<1>1. << >> \in Lists /\ Len(<< >>) = 0 /\ 1 .. 0 = {}
  BY DEF Lists
<1> QED
  BY <1>1 DEF Known, Distinct, IdSet

-----------------------------------------------------------------------------
(* The inductive invariant *)

(* The answer to the UI's call comes first: before it there is no signal,  *)
(* and once the UI has it there is no other.                               *)
ListingFirst ==
    /\ ~listed => toUI = << >>
    /\ client # "up" => mirror = << >>
    /\ \A k \in 1 .. Len(toUI) : toUI[k].kind = "list" =>
          k = 1 /\ client = "listing" /\ toUI[k].pos = 0 /\ toUI[k].removed = 0

TrackingInv ==
    /\ TypeOK
    /\ Known(provider) /\ Known(output)
    /\ ListingFirst
    /\ ListsAgree

(* What an agent has whose provider's list is behind its own, is each once.*)
LEMMA AgentDistinct ==
    ASSUME NEW s \in Lists, NEW p \in Lists, Known(p), IdSeq(s) = IdSeq(OwnContainers) \o IdSeq(p)
    PROVE  IsInjective(IdSeq(s))
<1> DEFINE own == OwnContainers
           both == own \o p
<1>1. own \in Lists /\ Distinct(own) /\ \A x \in Ids : x \notin IdSet(own)
  BY OwnFacts
<1> HIDE DEF own
<1>2. both \in Lists /\ IdSeq(both) = IdSeq(own) \o IdSeq(p)
  BY <1>1, Together
<1>3. Distinct(both)
  <2>1. \A x : ~(x \in IdSet(own) /\ x \in IdSet(p))
    BY <1>1 DEF Known
  <2> QED
    BY <1>1, <2>1, TwoDistinct DEF Known
<1> HIDE DEF both
<1>4. IsInjective(IdSeq(both))
  BY <1>2, <1>3, ListFacts
<1> QED
  BY <1>2, <1>4 DEF own

LEMMA TrackingInit == Init => TrackingInv
<1> SUFFICES ASSUME Init PROVE TrackingInv
  OBVIOUS
<1>1. disk \in [Ids -> 0 .. MaxVersion + 1]
  <2>1. \A v \in 0 .. 1 : v \in 0 .. MaxVersion + 1
    BY TrackingAssumption
  <2>2. disk \in [Ids -> 0 .. 1]
    BY DEF Init
  <2> QED
    BY <2>1, <2>2
<1>2. provider \in Lists /\ Known(provider)
  BY <1>1, NoneKnown, PrintoutsKnown DEF Init
<1>3. output = << >> /\ toUI = << >> /\ mirror = << >> /\ listed = FALSE /\ client = "starting"
  BY DEF Init
<1> DEFINE own == OwnContainers
           b == [agent |-> own, sent |-> << >>]
           r == FoldLeft(Added, b, provider)
<1>4. own \in Lists
  BY OwnFacts
<1>5. agent = r.agent
  BY DEF Init, AddProvider
<1>6. b \in Sendings /\ SentRight(own, b) /\ b.agent = own
  BY <1>4, NothingSent
<1>7. r = FoldLeft(Added, b, provider)
  OBVIOUS
<1> HIDE DEF own, b, r
<1>8. r \in Sendings /\ r.agent = own \o provider
  <2>1. r \in Sendings /\ SentRight(own, r) /\ r.agent = b.agent \o provider
    <3>1. own \in Lists /\ b \in Sendings /\ SentRight(own, b) /\ provider \in Lists
      BY <1>2, <1>4, <1>6
    <3> QED
      BY ONLY <1>7, <3>1, AllAdded
  <2> QED
    BY <1>6, <2>1
<1>9. agent \in Lists /\ IdSeq(agent) = IdSeq(own) \o IdSeq(provider)
  <2>1. own \o provider \in Lists /\ IdSeq(own \o provider) = IdSeq(own) \o IdSeq(provider)
    BY <1>2, <1>4, Together
  <2> QED
    BY <1>5, <1>8, <2>1
<1>10. IsInjective(IdSeq(agent))
  BY <1>2, <1>9, AgentDistinct DEF own
<1>11. ListsAgree
  BY <1>3, <1>9, <1>10 DEF ListsAgree, own
<1>12. TypeOK
  <2>1. failures \in 0 .. MaxFailures
    BY TrackingAssumption DEF Init
  <2>2. notified \subseteq {"containers.json", "db.sql"} /\ queued \in BOOLEAN /\ ps \in {"off", "started", "printed"}
    BY DEF Init
  <2>3. << >> \in Seq(Containers) /\ << >> \in Seq(Messages)
    OBVIOUS
  <2> QED
    BY <1>1, <1>2, <1>3, <1>9, <2>1, <2>2, <2>3 DEF TypeOK, Lists
<1>13. ListingFirst
  <2>1. Len(<< >>) = 0 /\ 1 .. 0 = {}
    OBVIOUS
  <2> QED
    BY <1>3, <2>1 DEF ListingFirst
<1> QED
  BY <1>2, <1>3, <1>11, <1>12, <1>13, NoneKnown DEF TrackingInv

(* What is on its way to the UI, behind which more is sent.                *)
LEMMA SentBehind ==
    ASSUME NEW p \in Seq(Messages), NEW q \in Seq(Messages)
    PROVE  /\ p \o q \in Seq(Messages)
           /\ \A k \in 1 .. Len(p \o q) : (k \in 1 .. Len(p) /\ (p \o q)[k] = p[k])
                                          \/ \E l \in 1 .. Len(q) : (p \o q)[k] = q[l]
<1>1. Len(p) \in Nat /\ Len(q) \in Nat
  BY LenProperties
<1>2. /\ p \o q \in Seq(Messages) /\ Len(p \o q) = Len(p) + Len(q)
      /\ \A i \in 1 .. Len(p) + Len(q) : (p \o q)[i] = IF i <= Len(p) THEN p[i] ELSE q[i - Len(p)]
  BY ConcatProperties
<1>3. ASSUME NEW k \in 1 .. Len(p \o q)
      PROVE  (k \in 1 .. Len(p) /\ (p \o q)[k] = p[k]) \/ \E l \in 1 .. Len(q) : (p \o q)[k] = q[l]
  <2>1. CASE k <= Len(p)
    BY <1>1, <1>2, <2>1
  <2>2. CASE ~(k <= Len(p))
    <3>1. k - Len(p) \in 1 .. Len(q) /\ (p \o q)[k] = q[k - Len(p)]
      BY <1>1, <1>2, <2>2
    <3> QED
      BY <3>1
  <2> QED
    BY <2>1, <2>2
<1> QED
  BY <1>2, <1>3

(* An update's output is merged.                                           *)
LEMMA TrackingMerge ==
    ASSUME TrackingInv, Merge(output), UNCHANGED << listed, uiVars >>
    PROVE  /\ provider' \in Lists /\ Known(provider)' /\ agent' \in Lists /\ toUI' \in Seq(Messages)
           /\ ListingFirst' /\ ListsAgree'
<1> DEFINE r == Announced(output)
<1>1. /\ agent \in Lists /\ provider \in Lists /\ output \in Lists /\ mirror \in Lists
      /\ toUI \in Seq(Messages) /\ listed \in BOOLEAN
  BY DEF TrackingInv, TypeOK, Lists
<1>2. Known(provider) /\ Known(output) /\ IdSeq(agent) = IdSeq(OwnContainers) \o IdSeq(provider)
  BY DEF TrackingInv, ListsAgree
<1>3. /\ MergedList(output) \in Lists /\ Known(MergedList(output))
      /\ r \in Sendings /\ SentRight(agent, r)
      /\ IdSeq(r.agent) = IdSeq(OwnContainers) \o IdSeq(MergedList(output))
  BY <1>1, <1>2, MergeAgrees
<1>4. provider' = MergedList(output) /\ agent' = r.agent /\ toUI' = IF listed THEN toUI \o r.sent ELSE toUI
  BY DEF Merge, MergedList
<1> HIDE DEF r
<1>5. r.agent \in Lists /\ r.sent \in Seq(Messages)
  BY <1>3 DEF Sendings
<1>6. provider' \in Lists /\ Known(provider') /\ agent' \in Lists
  BY <1>3, <1>4, <1>5
<1>7. Known(provider)'
  BY <1>6 DEF Known, Distinct, IdSet
<1>8. toUI' \in Seq(Messages)
  BY <1>1, <1>4, <1>5, SentBehind
<1>9. IdSeq(agent') = IdSeq(OwnContainers) \o IdSeq(provider')
  BY <1>3, <1>4
<1>10. IsInjective(IdSeq(agent'))
  BY <1>6, <1>9, AgentDistinct
<1>11. ASSUME listed PROVE FoldLeft(Changed, mirror, toUI') = agent'
  <2>1. FoldLeft(Changed, mirror, toUI) = agent
    BY <1>11 DEF TrackingInv, ListsAgree
  <2>2. FoldLeft(Changed, mirror, toUI \o r.sent) = FoldLeft(Changed, FoldLeft(Changed, mirror, toUI), r.sent)
    BY <1>1, <1>5, MoreChanged
  <2>3. FoldLeft(Changed, agent, r.sent) = r.agent
    BY <1>3 DEF SentRight
  <2> QED
    BY <1>4, <1>11, <2>1, <2>2, <2>3
<1>12. mirror' = mirror /\ listed' = listed /\ client' = client
  BY DEF uiVars
<1>13. ListsAgree'
  BY <1>9, <1>10, <1>11, <1>12 DEF ListsAgree
<1>14. ListingFirst'
  <2>1. ListingFirst
    BY DEF TrackingInv
  <2>2. CASE listed
    <3>1. toUI' = toUI \o r.sent
      BY <1>4, <2>2
    <3>2. ASSUME NEW k \in 1 .. Len(toUI'), toUI'[k].kind = "list"
          PROVE  k = 1 /\ client = "listing" /\ toUI'[k].pos = 0 /\ toUI'[k].removed = 0
      <4>1. CASE k \in 1 .. Len(toUI) /\ toUI'[k] = toUI[k]
        BY <2>1, <3>2, <4>1 DEF ListingFirst
      <4>2. CASE \E l \in 1 .. Len(r.sent) : toUI'[k] = r.sent[l]
        BY <1>3, <3>2, <4>2 DEF SentRight
      <4> QED
        BY <1>1, <1>5, <3>1, <4>1, <4>2, SentBehind
    <3> QED
      BY <1>12, <2>1, <2>2, <3>2 DEF ListingFirst
  <2>3. CASE ~listed
    <3>1. toUI' = toUI
      BY <1>4, <2>3
    <3> QED
      BY <1>12, <2>1, <3>1 DEF ListingFirst
  <2> QED
    BY <2>2, <2>3
<1> QED
  BY <1>6, <1>7, <1>8, <1>13, <1>14

(* A listing turns no list into the one it lists.                          *)
LEMMA ListingIsAll ==
    ASSUME NEW m \in Messages, m.pos = 0, m.removed = 0
    PROVE  Changed(<< >>, m) = m.added
<1>1. m.added \in Seq(Containers)
  BY DEF Messages
<1>2. ~(0 + 0 > Len(<< >>)) /\ 0 + 0 + 1 = 1 /\ Len(<< >>) = 0
  OBVIOUS
<1>3. SubSeq(<< >>, 1, 0) = << >>
  BY SubSeqEmpty
<1>4. Changed(<< >>, m) = SubSeq(<< >>, 1, 0) \o m.added \o SubSeq(<< >>, 1, 0)
  BY <1>2 DEF Changed
<1>5. << >> \o m.added = m.added /\ m.added \o << >> = m.added
  BY <1>1, ConcatEmptySeq
<1> QED
  BY <1>3, <1>4, <1>5

(* The agent answers with its list.                                        *)
LEMMA TrackingListed == TrackingInv /\ AgentListsContainers => TrackingInv'
<1> SUFFICES ASSUME TrackingInv, AgentListsContainers PROVE TrackingInv'
  OBVIOUS
<1>1. TypeOK /\ ListingFirst /\ ListsAgree /\ Known(provider) /\ Known(output)
  BY DEF TrackingInv
<1>2. /\ client = "listing" /\ ~listed /\ listed' = TRUE /\ toUI' = Append(toUI, Listing(agent))
      /\ UNCHANGED << disk, notified, failures, queued, ps, output, provider, agent, client, mirror >>
  BY DEF AgentListsContainers, podmanVars, updateVars, uiVars
<1>3. toUI = << >> /\ mirror = << >>
  BY <1>1, <1>2 DEF ListingFirst
<1> DEFINE m == Listing(agent)
<1>4. agent \in Lists /\ agent \in Seq(Containers)
  BY <1>1 DEF TypeOK, Lists
<1>5. m \in Messages /\ m.kind = "list" /\ m.pos = 0 /\ m.removed = 0 /\ m.added = agent
  BY <1>4 DEF Listing, Messages
<1>6. toUI' = << m >>
  BY <1>2, <1>3
<1> HIDE DEF m
<1>7. toUI' \in Seq(Messages) /\ Len(toUI') = 1 /\ toUI'[1] = m
  BY <1>5, <1>6
<1>8. Changed(<< >>, m) = agent
  BY <1>4, <1>5, ListingIsAll
<1>9. FoldLeft(Changed, mirror', toUI') = agent'
  <2>1. << >> \in Lists
    BY DEF Lists
  <2>2. FoldLeft(Changed, << >>, << m >>) = Changed(<< >>, m)
    BY <1>5, <2>1, OneChanged
  <2> QED
    BY <1>2, <1>3, <1>6, <1>8, <2>2
<1>10. ListsAgree'
  BY <1>1, <1>2, <1>9 DEF ListsAgree
<1>11. ListingFirst'
  <2>1. \A k \in 1 .. 1 : k = 1
    OBVIOUS
  <2> QED
    BY <1>2, <1>3, <1>5, <1>7, <2>1 DEF ListingFirst
<1>12. TypeOK'
  BY <1>1, <1>2, <1>7 DEF TypeOK
<1>13. Known(provider)' /\ Known(output)'
  BY <1>1, <1>2 DEF Known, Distinct, IdSet
<1> QED
  BY <1>10, <1>11, <1>12, <1>13 DEF TrackingInv

(* The rest of a sequence of messages, of which the first has been taken.  *)
LEMMA FirstTaken ==
    ASSUME NEW b \in Lists, NEW q \in Seq(Messages), q # << >>
    PROVE  /\ q[1] \in Messages /\ Head(q) = q[1] /\ Tail(q) \in Seq(Messages) /\ RemoveAt(q, 1) = Tail(q)
           /\ Len(q) \in Nat /\ Len(Tail(q)) = Len(q) - 1
           /\ \A k \in 1 .. Len(q) - 1 : k + 1 \in 1 .. Len(q) /\ Tail(q)[k] = q[k + 1]
           /\ Changed(b, q[1]) \in Lists
           /\ FoldLeft(Changed, Changed(b, q[1]), Tail(q)) = FoldLeft(Changed, b, q)
<1>1. Len(q) \in Nat \ {0}
  BY EmptySeq
<1>2. 1 \in 1 .. Len(q) /\ q[1] \in Messages
  BY <1>1, ElementOfSeq
<1>3. Head(q) = q[1]
  OBVIOUS
<1>4. /\ Tail(q) \in Seq(Messages) /\ Len(Tail(q)) = Len(q) - 1
      /\ \A k \in 1 .. Len(q) - 1 : k + 1 \in 1 .. Len(q) /\ Tail(q)[k] = q[k + 1]
  BY <1>1, HeadTailProperties
<1>5. RemoveAt(q, 1) = Tail(q)
  <2>1. /\ RemoveAt(q, 1) \in Seq(Messages) /\ Len(RemoveAt(q, 1)) = Len(q) - 1
        /\ \A j \in 1 .. Len(q) - 1 : RemoveAt(q, 1)[j] = q[IF j < 1 THEN j ELSE j + 1]
    BY <1>2, RemoveAtProperties
  <2>2. \A j \in 1 .. Len(q) - 1 : ~(j < 1)
    BY <1>1
  <2>3. \A j \in 1 .. Len(RemoveAt(q, 1)) : RemoveAt(q, 1)[j] = Tail(q)[j]
    BY <1>4, <2>1, <2>2
  <2> QED
    BY <1>4, <2>1, <2>3, SeqEqual
<1>6. q = << q[1] >> \o Tail(q)
  <2>1. Len(q) \in 1 .. Len(q) /\ 1 + 1 = 2
    BY <1>1
  <2>2. SubSeq(q, 1, Len(q)) = << q[1] >> \o SubSeq(q, 1 + 1, Len(q))
    BY <1>2, <2>1, SubSeqRecursiveFirst
  <2>3. SubSeq(q, 1, Len(q)) = q
    BY SubSeqFull
  <2>4. Tail(q) = SubSeq(q, 2, Len(q))
    BY TailIsSubSeq
  <2> QED
    BY <2>1, <2>2, <2>3, <2>4
<1>7. Changed(b, q[1]) \in Lists
  BY <1>2, ChangedType
<1>8. FoldLeft(Changed, b, << q[1] >> \o Tail(q)) = FoldLeft(Changed, FoldLeft(Changed, b, << q[1] >>), Tail(q))
  <2>1. << q[1] >> \in Seq(Messages)
    BY <1>2
  <2> QED
    BY <1>4, <2>1, MoreChanged
<1>9. FoldLeft(Changed, b, << q[1] >>) = Changed(b, q[1])
  BY <1>2, OneChanged
<1> QED
  BY <1>1, <1>2, <1>3, <1>4, <1>5, <1>6, <1>7, <1>8, <1>9

(* The UI takes the answer, which is the first of what is on its way.      *)
LEMMA TrackingGotListing == TrackingInv /\ GotListing => TrackingInv'
<1> SUFFICES ASSUME TrackingInv, GotListing PROVE TrackingInv'
  OBVIOUS
<1>1. TypeOK /\ ListingFirst /\ ListsAgree /\ Known(provider) /\ Known(output)
  BY DEF TrackingInv
<1>2. /\ client = "listing" /\ client' = "up"
      /\ UNCHANGED << disk, notified, failures, queued, ps, output, provider, agent, listed >>
  BY DEF GotListing, podmanVars, updateVars
<1>3. toUI \in Seq(Messages) /\ mirror = << >> /\ << >> \in Lists
  BY <1>1, <1>2 DEF TypeOK, ListingFirst, Lists
<1>4. Len(toUI) \in Nat /\ DOMAIN toUI = 1 .. Len(toUI)
  BY <1>3, LenProperties
<1>5. PICK k \in 1 .. Len(toUI) :
         toUI[k].kind = "list" /\ mirror' = mirror \o toUI[k].added /\ toUI' = RemoveAt(toUI, k)
  BY <1>4 DEF GotListing
<1>6. k = 1 /\ toUI[1].pos = 0 /\ toUI[1].removed = 0
  BY <1>1, <1>5 DEF ListingFirst
<1>7. toUI # << >>
  <2>1. Len(<< >>) = 0 /\ 1 .. 0 = {}
    OBVIOUS
  <2> QED
    BY <1>5, <2>1
<1>8. /\ toUI[1] \in Messages /\ RemoveAt(toUI, 1) = Tail(toUI) /\ Tail(toUI) \in Seq(Messages)
      /\ Len(Tail(toUI)) = Len(toUI) - 1
      /\ \A l \in 1 .. Len(toUI) - 1 : l + 1 \in 1 .. Len(toUI) /\ Tail(toUI)[l] = toUI[l + 1]
      /\ Changed(<< >>, toUI[1]) \in Lists
      /\ FoldLeft(Changed, Changed(<< >>, toUI[1]), Tail(toUI)) = FoldLeft(Changed, << >>, toUI)
  BY <1>3, <1>7, FirstTaken
<1>9. mirror' = Changed(<< >>, toUI[1]) /\ toUI' = Tail(toUI)
  <2>1. Changed(<< >>, toUI[1]) = toUI[1].added
    BY <1>6, <1>8, ListingIsAll
  <2>2. toUI[1].added \in Seq(Containers)
    BY <1>8 DEF Messages
  <2>3. << >> \o toUI[1].added = toUI[1].added
    BY <2>2, ConcatEmptySeq
  <2> QED
    BY <1>3, <1>5, <1>6, <1>8, <2>1, <2>3
<1>10. listed
  BY <1>1, <1>7 DEF ListingFirst
<1>11. ListsAgree'
  BY <1>1, <1>2, <1>3, <1>8, <1>9, <1>10 DEF ListsAgree
<1>12. ListingFirst'
  <2>1. ASSUME NEW l \in 1 .. Len(toUI'), toUI'[l].kind = "list" PROVE FALSE
    <3>1. l + 1 \in 1 .. Len(toUI) /\ toUI[l + 1].kind = "list" /\ l \in Nat /\ l >= 1
      BY <1>4, <1>8, <1>9, <2>1
    <3>2. l + 1 = 1
      BY <1>1, <3>1 DEF ListingFirst
    <3> QED
      BY <3>1, <3>2
  <2> QED
    BY <1>2, <1>10, <2>1 DEF ListingFirst
<1>13. TypeOK'
  BY <1>1, <1>2, <1>8, <1>9 DEF TypeOK, Lists
<1>14. Known(provider)' /\ Known(output)'
  BY <1>1, <1>2 DEF Known, Distinct, IdSet
<1> QED
  BY <1>11, <1>12, <1>13, <1>14 DEF TrackingInv

(* The UI takes a change.                                                  *)
LEMMA TrackingGotChange == TrackingInv /\ GotChange => TrackingInv'
<1> SUFFICES ASSUME TrackingInv, GotChange PROVE TrackingInv'
  OBVIOUS
<1>1. TypeOK /\ ListingFirst /\ ListsAgree /\ Known(provider) /\ Known(output)
  BY DEF TrackingInv
<1>2. /\ client = "up" /\ client' = "up" /\ toUI # << >>
      /\ mirror' = Changed(mirror, Head(toUI)) /\ toUI' = Tail(toUI)
      /\ UNCHANGED << disk, notified, failures, queued, ps, output, provider, agent, listed >>
  BY DEF GotChange, podmanVars, updateVars
<1>3. toUI \in Seq(Messages) /\ mirror \in Lists
  BY <1>1 DEF TypeOK, Lists
<1>4. /\ Head(toUI) = toUI[1] /\ Tail(toUI) \in Seq(Messages) /\ Len(toUI) \in Nat
      /\ Len(Tail(toUI)) = Len(toUI) - 1
      /\ \A l \in 1 .. Len(toUI) - 1 : l + 1 \in 1 .. Len(toUI) /\ Tail(toUI)[l] = toUI[l + 1]
      /\ Changed(mirror, toUI[1]) \in Lists
      /\ FoldLeft(Changed, Changed(mirror, toUI[1]), Tail(toUI)) = FoldLeft(Changed, mirror, toUI)
  BY <1>2, <1>3, FirstTaken
<1>5. listed
  BY <1>1, <1>2 DEF ListingFirst
<1>6. ListsAgree'
  BY <1>1, <1>2, <1>4, <1>5 DEF ListsAgree
<1>7. ListingFirst'
  <2>1. ASSUME NEW l \in 1 .. Len(toUI'), toUI'[l].kind = "list" PROVE FALSE
    <3>1. l + 1 \in 1 .. Len(toUI) /\ toUI[l + 1].kind = "list"
      BY <1>2, <1>4, <2>1
    <3>2. client = "listing"
      BY <1>1, <3>1 DEF ListingFirst
    <3> QED
      BY <1>2, <3>2
  <2> QED
    BY <1>2, <1>5, <2>1 DEF ListingFirst
<1>8. TypeOK'
  BY <1>1, <1>2, <1>4 DEF TypeOK, Lists
<1>9. Known(provider)' /\ Known(output)'
  BY <1>1, <1>2 DEF Known, Distinct, IdSet
<1> QED
  BY <1>6, <1>7, <1>8, <1>9 DEF TrackingInv

(* The lists do not change when none of them does.                         *)
LEMMA ListsKept ==
    ASSUME TrackingInv, UNCHANGED << provider, agent, listed, toUI, mirror >>,
           client' = client \/ (client = "starting" /\ client' = "listing")
    PROVE  ListsAgree' /\ ListingFirst' /\ Known(provider)'
<1>1. ListingFirst /\ ListsAgree /\ Known(provider)
  BY DEF TrackingInv
<1>2. ListsAgree'
  BY <1>1 DEF ListsAgree
<1>3. ListingFirst'
  BY <1>1 DEF ListingFirst
<1>4. Known(provider)'
  BY <1>1 DEF Known, Distinct, IdSet
<1> QED
  BY <1>2, <1>3, <1>4

LEMMA TrackingNext == TrackingInv /\ [Next]_vars => TrackingInv'
<1> SUFFICES ASSUME TrackingInv, [Next]_vars PROVE TrackingInv'
  OBVIOUS
<1>0. TypeOK /\ Known(output)
  BY DEF TrackingInv
<1>1. ASSUME NEW i \in Ids, PodmanChanges(i) PROVE TrackingInv'
  <2>1. PICK v \in {disk[i] + 1, MaxVersion + 1} : disk[i] <= MaxVersion /\ disk' = [disk EXCEPT ![i] = v]
    BY <1>1 DEF PodmanChanges
  <2>2. disk' \in [Ids -> 0 .. MaxVersion + 1]
    <3>1. disk \in [Ids -> 0 .. MaxVersion + 1] /\ MaxVersion \in Nat
      BY <1>0, TrackingAssumption DEF TypeOK
    <3>2. v \in 0 .. MaxVersion + 1
      BY <2>1, <3>1
    <3> QED
      BY <2>1, <3>1, <3>2
  <2>3. PICK touched \in {"containers.json", "db.sql"} : notified' = notified \cup {touched}
    BY <1>1 DEF PodmanChanges
  <2>4. UNCHANGED << failures, queued, ps, output, provider, agent, listed, toUI, client, mirror >>
    BY <1>1 DEF PodmanChanges, updateVars, uiVars
  <2>5. ListsAgree' /\ ListingFirst' /\ Known(provider)'
    BY <2>4, ListsKept
  <2>6. TypeOK'
    BY <1>0, <2>2, <2>3, <2>4 DEF TypeOK
  <2>7. Known(output)'
    BY <1>0, <2>4 DEF Known, Distinct, IdSet
  <2> QED
    BY <2>5, <2>6, <2>7 DEF TrackingInv
<1>2. ASSUME MonitorFires PROVE TrackingInv'
  <2>1. /\ notified' \subseteq notified /\ queued' = (queued \/ ~IsUpdating)
        /\ UNCHANGED << disk, failures, ps, output, provider, agent, listed, toUI, client, mirror >>
    BY <1>2 DEF MonitorFires, ContainersJsonChanged, StorageDirChanged, QueueUpdate, uiVars
  <2>2. ListsAgree' /\ ListingFirst' /\ Known(provider)'
    BY <2>1, ListsKept
  <2>3. queued' \in BOOLEAN
    BY <2>1
  <2>4. TypeOK'
    BY <1>0, <2>1, <2>3 DEF TypeOK
  <2>5. Known(output)'
    BY <1>0, <2>1 DEF Known, Distinct, IdSet
  <2> QED
    BY <2>2, <2>4, <2>5 DEF TrackingInv
<1>3. ASSUME UpdateStarts PROVE TrackingInv'
  <2>1. UNCHANGED << disk, notified, output, provider, agent, listed, toUI, client, mirror >>
    BY <1>3 DEF UpdateStarts, uiVars
  <2>2. queued' = FALSE /\ ps' \in {"off", "started", "printed"} /\ failures' \in 0 .. MaxFailures
    BY <1>0, <1>3, TrackingAssumption DEF UpdateStarts, Fails, TypeOK
  <2>3. ListsAgree' /\ ListingFirst' /\ Known(provider)'
    BY <2>1, ListsKept
  <2>4. TypeOK'
    BY <1>0, <2>1, <2>2 DEF TypeOK
  <2>5. Known(output)'
    BY <1>0, <2>1 DEF Known, Distinct, IdSet
  <2> QED
    BY <2>3, <2>4, <2>5 DEF TrackingInv
<1>4. ASSUME PodmanPrints PROVE TrackingInv'
  <2>1. /\ ps' = "printed" /\ output' \in Printouts
        /\ UNCHANGED << disk, notified, failures, queued, provider, agent, listed, toUI, client, mirror >>
    BY <1>4 DEF PodmanPrints, podmanVars, uiVars
  <2>2. output' \in Lists /\ Known(output')
    BY <1>0, <2>1, PrintoutsKnown DEF TypeOK
  <2>3. ListsAgree' /\ ListingFirst' /\ Known(provider)'
    BY <2>1, ListsKept
  <2>4. TypeOK'
    BY <1>0, <2>1, <2>2 DEF TypeOK, Lists
  <2>5. Known(output)'
    BY <2>2 DEF Known, Distinct, IdSet
  <2> QED
    BY <2>3, <2>4, <2>5 DEF TrackingInv
<1>5. ASSUME UpdateDone PROVE TrackingInv'
  <2>1. /\ ps' = "off" /\ output' = << >>
        /\ UNCHANGED << disk, notified, queued, listed, client, mirror >>
    BY <1>5 DEF UpdateDone, uiVars
  <2>2. output' \in Lists /\ Known(output)'
    BY <2>1, NoneKnown DEF Known, Distinct, IdSet
  <2>3. CASE Merge(output) /\ UNCHANGED failures
    <3>1. UNCHANGED << listed, uiVars >>
      BY <2>1 DEF uiVars
    <3>2. /\ provider' \in Lists /\ Known(provider)' /\ agent' \in Lists /\ toUI' \in Seq(Messages)
          /\ ListingFirst' /\ ListsAgree'
      BY <2>3, <3>1, TrackingMerge
    <3>3. TypeOK'
      BY <1>0, <2>1, <2>2, <2>3, <3>2 DEF TypeOK, Lists
    <3> QED
      BY <2>2, <3>2, <3>3 DEF TrackingInv
  <2>4. CASE Fails /\ UNCHANGED << provider, agent, toUI >>
    <3>1. ListsAgree' /\ ListingFirst' /\ Known(provider)'
      BY <2>1, <2>4, ListsKept
    <3>2. failures' \in 0 .. MaxFailures
      BY <1>0, <2>4, TrackingAssumption DEF Fails, TypeOK
    <3>3. TypeOK'
      BY <1>0, <2>1, <2>2, <2>4, <3>2 DEF TypeOK, Lists
    <3> QED
      BY <2>2, <3>1, <3>3 DEF TrackingInv
  <2> QED
    BY <1>5, <2>3, <2>4 DEF UpdateDone
<1>6. ASSUME Connect PROVE TrackingInv'
  <2>1. /\ client = "starting" /\ client' = "listing"
        /\ UNCHANGED << disk, notified, failures, queued, ps, output, provider, agent, listed, toUI, mirror >>
    BY <1>6 DEF Connect, podmanVars, updateVars
  <2>2. ListsAgree' /\ ListingFirst' /\ Known(provider)'
    BY <2>1, ListsKept
  <2>3. TypeOK'
    BY <1>0, <2>1 DEF TypeOK
  <2>4. Known(output)'
    BY <1>0, <2>1 DEF Known, Distinct, IdSet
  <2> QED
    BY <2>2, <2>3, <2>4 DEF TrackingInv
<1>7. CASE UNCHANGED vars
  <2>1. UNCHANGED << disk, notified, failures, queued, ps, output, provider, agent, listed, toUI, client, mirror >>
    BY <1>7 DEF vars, podmanVars, updateVars, uiVars
  <2>2. ListsAgree' /\ ListingFirst' /\ Known(provider)'
    BY <2>1, ListsKept
  <2>3. TypeOK'
    BY <1>0, <2>1 DEF TypeOK
  <2>4. Known(output)'
    BY <1>0, <2>1 DEF Known, Distinct, IdSet
  <2> QED
    BY <2>2, <2>3, <2>4 DEF TrackingInv
<1> QED
  BY <1>1, <1>2, <1>3, <1>4, <1>5, <1>6, <1>7, TrackingListed, TrackingGotListing, TrackingGotChange
     DEF Next, AgentStep, UIStep

(* In every state the four lists are accounted for.                        *)
THEOREM TrackingInvariant == Spec => []TrackingInv
<1> QED
  BY TrackingInit, TrackingNext, PTL DEF Spec, Safety

(* Whatever podman's containers are called and however often they come,    *)
(* are renamed and go: the UI's copy, changed by every message on its way, *)
(* is the agent's list, and the agent's is the provider's behind its own,  *)
(* in order, each once.                                                    *)
THEOREM MirrorFollows == Spec => []ListsAgree
<1> QED
  BY TrackingInvariant, PTL DEF TrackingInv

-----------------------------------------------------------------------------
(* What is left of a list *)

OnlyIn(set, list, x) == IF x \in set THEN Append(list, x) ELSE list
OnlyFn(S, set) == [list \in Seq(S) |-> [x \in S |-> OnlyIn(set, list, x)]]

LEMMA OnlyType ==
    ASSUME NEW S, NEW set
    PROVE  OnlyFn(S, set) \in [Seq(S) -> [S -> Seq(S)]]
<1>1. \A list \in Seq(S), x \in S : OnlyIn(set, list, x) \in Seq(S)
  BY AppendProperties DEF OnlyIn
<1> QED
  BY <1>1 DEF OnlyFn

(* Only is where the fold of a list leads.                                 *)
LEMMA OnlyFold ==
    ASSUME NEW S, NEW set, NEW q \in Seq(S)
    PROVE  Leads(Seq(S), OnlyFn(S, set), << >>, q, Only(q, set))
<1> DEFINE b == << >>
           n == Len(q)
           Chosen(it) == it = [s \in SUBSET (1 .. n) |->
                                 IF s = {} THEN b ELSE OnlyIn(set, it[s \ {Max(s)}], q[Max(s)])]
           it == CHOOSE i : Chosen(i)
<1>1. n \in Nat /\ DOMAIN q = 1 .. n /\ \A i \in 1 .. n : q[i] \in S
  BY ElementOfSeq, LenProperties
<1>2. OnlyFn(S, set) \in [Seq(S) -> [S -> Seq(S)]]
  BY OnlyType
<1>3. Only(q, set) = it[1 .. n]
  BY <1>1 DEF Only, OnlyIn, FoldLeft, MapThenFoldSet
<1> HIDE DEF n
<1>11. b \in Seq(S)
  BY EmptySeq
<1> HIDE DEF b
<1>4. \A l \in Seq(S), e \in S : OnlyFn(S, set)[l][e] = OnlyIn(set, l, e)
  BY DEF OnlyFn
<1>5. \A s \in SUBSET (1 .. n) : s # {} => q[Max(s)] \in S /\ s \ {Max(s)} \in SUBSET (1 .. n)
  BY <1>1, MaxOf
<1>6. Chosen(it)
  <2>1. PICK g \in [SUBSET (1 .. n) -> Seq(S)] : Iterated(OnlyFn(S, set), b, q, n, g)
    BY <1>2, <1>11, IterationThere DEF n
  <2>2. \A s \in SUBSET (1 .. n) :
           g[s] = IF s = {} THEN b ELSE OnlyIn(set, g[s \ {Max(s)}], q[Max(s)])
    BY <1>4, <1>5, <2>1 DEF Iterated
  <2>3. Chosen(g)
    BY <2>1, <2>2
  <2> QED
    BY <2>3
<1> HIDE DEF it
<1>7. it[{}] = b
  BY <1>6
<1>8. \A s \in SUBSET (1 .. n) :
         s # {} /\ it[s \ {Max(s)}] \in Seq(S)
         => it[s] = OnlyFn(S, set)[it[s \ {Max(s)}]][q[Max(s)]]
  BY <1>4, <1>5, <1>6
<1>9. Iterates(Seq(S), OnlyFn(S, set), b, q, it)
  BY <1>7, <1>8 DEF n, Iterates
<1>10. Leads(Seq(S), OnlyFn(S, set), b, q, it[1 .. Len(q)])
  BY <1>2, <1>9, <1>11, IterationIsTrace
<1> QED
  BY <1>3, <1>10 DEF n, b

(* r is what the first n elements of q have in set, at the places e gives. *)
Draws(q, set, n, r, e) ==
    /\ e \in [1 .. Len(r) -> 1 .. n]
    /\ \A i \in 1 .. Len(r) : r[i] = q[e[i]] /\ r[i] \in set
    /\ \A i, j \in 1 .. Len(r) : i < j => e[i] < e[j]
    /\ \A k \in 1 .. n : q[k] \in set => \E i \in 1 .. Len(r) : e[i] = k

(* One more.                                                               *)
LEMMA OneMoreDrawn ==
    ASSUME NEW S, NEW set, NEW q \in Seq(S), NEW n \in 1 .. Len(q),
           NEW r \in Seq(S), NEW e, Draws(q, set, n - 1, r, e)
    PROVE  \E d : Draws(q, set, n, OnlyIn(set, r, q[n]), d)
<1> DEFINE m == Len(r)
           x == q[n]
<1>1. x \in S /\ n \in Nat /\ n >= 1 /\ m \in Nat
  BY ElementOfSeq, LenProperties
<1>2. n \in 1 .. n /\ \A k \in 1 .. n : (k \in 1 .. n - 1 /\ k < n) \/ k = n
  BY <1>1
<1>3. \A k \in 1 .. n - 1 : k \in 1 .. n /\ k < n
  BY <1>1
<1>4. /\ e \in [1 .. m -> 1 .. n - 1]
      /\ \A i \in 1 .. m : r[i] = q[e[i]] /\ r[i] \in set
      /\ \A i, j \in 1 .. m : i < j => e[i] < e[j]
      /\ \A k \in 1 .. n - 1 : q[k] \in set => \E i \in 1 .. m : e[i] = k
  BY DEF Draws
<1>5. CASE x \notin set
  <2>1. OnlyIn(set, r, x) = r
    BY <1>5 DEF OnlyIn
  <2>2. e \in [1 .. m -> 1 .. n]
    BY <1>3, <1>4
  <2>3. \A k \in 1 .. n : q[k] \in set => \E i \in 1 .. m : e[i] = k
    BY <1>2, <1>4, <1>5
  <2> QED
    BY <1>4, <2>1, <2>2, <2>3 DEF Draws
<1>6. CASE x \in set
  <2> DEFINE u == Append(r, x)
             d == [i \in 1 .. m + 1 |-> IF i <= m THEN e[i] ELSE n]
  <2>1. OnlyIn(set, r, x) = u
    BY <1>6 DEF OnlyIn
  <2>2. Len(u) = m + 1 /\ (\A i \in 1 .. m : u[i] = r[i]) /\ u[m + 1] = x
    BY <1>1, AppendProperties
  <2> HIDE DEF u, m
  <2>3. \A i \in 1 .. m + 1 : (i \in 1 .. m /\ i <= m) \/ (i = m + 1 /\ ~(i <= m))
    BY <1>1
  <2>4. \A i \in 1 .. m : i \in 1 .. m + 1 /\ i <= m /\ ~(m + 1 < i)
    BY <1>1
  <2>5. \A i \in 1 .. m : d[i] = e[i] /\ d[i] \in 1 .. n - 1
    BY <1>4, <2>4
  <2>6. m + 1 \in 1 .. m + 1 /\ d[m + 1] = n /\ ~(m + 1 < m + 1)
    BY <1>1
  <2>7. d \in [1 .. m + 1 -> 1 .. n]
    BY <1>2, <1>3, <1>4, <2>3
  <2> HIDE DEF d, x
  <2>8. \A i \in 1 .. m + 1 : u[i] = q[d[i]] /\ u[i] \in set
    BY <1>4, <1>6, <2>2, <2>3, <2>5, <2>6 DEF x
  <2>9. ASSUME NEW i \in 1 .. m + 1, NEW j \in 1 .. m + 1, i < j PROVE d[i] < d[j]
    <3>1. i \in 1 .. m
      BY <1>1, <2>9
    <3>2. CASE j \in 1 .. m
      BY <1>4, <2>5, <2>9, <3>1, <3>2
    <3>3. CASE j = m + 1
      BY <1>3, <2>5, <2>6, <3>1, <3>3
    <3> QED
      BY <2>3, <3>2, <3>3
  <2>10. ASSUME NEW k \in 1 .. n, q[k] \in set PROVE \E i \in 1 .. m + 1 : d[i] = k
    <3>1. CASE k \in 1 .. n - 1
      BY <1>4, <2>4, <2>5, <2>10, <3>1
    <3>2. CASE k = n
      BY <2>6, <3>2
    <3> QED
      BY <1>2, <3>1, <3>2
  <2> QED
    <3>1. Draws(q, set, n, u, d)
      BY <2>2, <2>7, <2>8, <2>9, <2>10 DEF Draws
    <3>2. OnlyIn(set, r, q[n]) = u
      BY <2>1 DEF x
    <3> QED
      BY <3>1, <3>2
<1> QED
  BY <1>5, <1>6

(* All of them.                                                            *)
LEMMA OnlyDraws ==
    ASSUME NEW S, NEW set, NEW q \in Seq(S), NEW r, r = Only(q, set)
    PROVE  r \in Seq(S) /\ \E e : Draws(q, set, Len(q), r, e)
<1> DEFINE n == Len(q)
           b == << >>
           Drawn(i, l) == \E e : Draws(q, set, i, l, e)
<1>1. n \in Nat /\ b \in Seq(S) /\ (\A i \in 1 .. n : q[i] \in S)
  BY ElementOfSeq, LenProperties, EmptySeq
<1>2. Drawn(0, b)
  <2> DEFINE e == [i \in 1 .. 0 |-> 0]
  <2>1. 1 .. 0 = {} /\ Len(<< >>) = 0
    OBVIOUS
  <2>2. Draws(q, set, 0, << >>, e)
    BY <2>1 DEF Draws
  <2> QED
    BY <2>2
<1>4. PICK tr \in [0 .. n -> Seq(S)] : Trace(OnlyFn(S, set), b, q, tr) /\ tr[n] = r
  BY OnlyFold DEF Leads
<1> DEFINE U == { i \in 0 .. n : ~Drawn(i, tr[i]) }
<1>5. ASSUME NEW i \in 1 .. n, NEW l \in Seq(S), Drawn(i - 1, l)
      PROVE  Drawn(i, OnlyIn(set, l, q[i]))
  <2>1. PICK e : Draws(q, set, i - 1, l, e)
    BY <1>5
  <2> QED
    BY <2>1, OneMoreDrawn
<1> HIDE DEF b, Drawn
<1>6. U = {}
  <2> SUFFICES ASSUME U # {} PROVE FALSE
    OBVIOUS
  <2>1. U \subseteq Nat
    BY <1>1
  <2>2. PICK i \in U : \A j \in U : i <= j
    BY <2>1, NatMin
  <2>3. i # 0
    BY <1>2, <1>4, <2>2 DEF Trace
  <2>4. i \in 1 .. n /\ i - 1 \in 0 .. n /\ ~(i <= i - 1)
    BY <1>1, <2>2, <2>3
  <2>5. Drawn(i - 1, tr[i - 1]) /\ tr[i - 1] \in Seq(S)
    BY <2>2, <2>4
  <2>6. Drawn(i, OnlyIn(set, tr[i - 1], q[i]))
    BY <1>5, <2>4, <2>5
  <2>7. tr[i] = OnlyFn(S, set)[tr[i - 1]][q[i]]
    BY <1>4, <2>4 DEF Trace
  <2>8. tr[i] = OnlyIn(set, tr[i - 1], q[i])
    BY <1>1, <2>4, <2>5, <2>7 DEF OnlyFn
  <2> QED
    BY <2>2, <2>6, <2>8
<1>7. n \in 0 .. n
  BY <1>1
<1>8. Drawn(n, tr[n]) /\ tr[n] \in Seq(S)
  BY <1>6, <1>7
<1> QED
  BY <1>4, <1>8 DEF Drawn

(* e numbers m numbers up to c in their order.                             *)
Rises(e, m, c) == e \in [1 .. m -> 1 .. c] /\ \A i, j \in 1 .. m : i < j => e[i] < e[j]

(* The values of e are among those of d.                                   *)
Among(e, m, d, n) == \A i \in 1 .. m : \E j \in 1 .. n : d[j] = e[i]

(* Increasing numbers are determined by which they are.                    *)
LEMMA SameSteps ==
    ASSUME NEW m \in Nat, NEW n \in Nat, NEW c \in Nat, NEW e, NEW d,
           Rises(e, m, c), Rises(d, n, c), Among(e, m, d, n), Among(d, n, e, m)
    PROVE  \A i \in 1 .. m : i <= n /\ e[i] = d[i]
<1>0. /\ e \in [1 .. m -> 1 .. c] /\ d \in [1 .. n -> 1 .. c]
      /\ \A i, j \in 1 .. m : i < j => e[i] < e[j]
      /\ \A i, j \in 1 .. n : i < j => d[i] < d[j]
      /\ \A i \in 1 .. m : \E j \in 1 .. n : d[j] = e[i]
      /\ \A j \in 1 .. n : \E i \in 1 .. m : e[i] = d[j]
  BY DEF Rises, Among
<1> DEFINE U == { i \in 1 .. m : ~(i <= n /\ e[i] = d[i]) }
<1>1. SUFFICES ASSUME U # {} PROVE FALSE
  OBVIOUS
<1>2. U \subseteq Nat
  OBVIOUS
<1>3. PICK i \in U : \A j \in U : i <= j
  BY <1>1, <1>2, NatMin
<1>4. i \in 1 .. m /\ ~(i <= n /\ e[i] = d[i]) /\ i \in Nat
  BY <1>3
<1>5. ASSUME NEW j \in 1 .. m, j < i PROVE j <= n /\ e[j] = d[j]
  <2>1. j \notin U
    BY <1>3, <1>4, <1>5
  <2> QED
    BY <2>1
<1> HIDE DEF U
<1>6. PICK j \in 1 .. n : d[j] = e[i]
  BY <1>0, <1>4
<1>7. \A k \in 1 .. m : e[k] \in Nat
  BY <1>0
<1>8. \A k \in 1 .. n : d[k] \in Nat
  BY <1>0
<1>9. i < j
  <2>1. CASE j < i
    <3>1. j \in 1 .. m /\ e[j] = d[j]
      BY <1>4, <1>5, <2>1
    <3>2. e[j] < e[i]
      BY <1>0, <1>4, <2>1, <3>1
    <3> QED
      BY <1>4, <1>6, <1>7, <3>1, <3>2
  <2>2. j # i
    BY <1>4, <1>6
  <2> QED
    BY <1>4, <2>1, <2>2
<1>10. i \in 1 .. n
  BY <1>4, <1>9
<1>11. PICK k \in 1 .. m : e[k] = d[i]
  BY <1>0, <1>10
<1>12. i < k
  <2>1. CASE k < i
    <3>1. k \in 1 .. n /\ e[k] = d[k]
      BY <1>4, <1>5, <1>10, <2>1
    <3>2. d[k] < d[i]
      BY <1>0, <1>10, <2>1, <3>1
    <3> QED
      BY <1>8, <1>10, <1>11, <3>1, <3>2
  <2>2. k # i
    BY <1>4, <1>10, <1>11
  <2> QED
    BY <1>4, <2>1, <2>2
<1>13. d[i] < d[j] /\ e[i] < e[k]
  BY <1>0, <1>4, <1>9, <1>10, <1>12
<1> QED
  BY <1>4, <1>6, <1>7, <1>8, <1>10, <1>11, <1>13

LEMMA SameEnumeration ==
    ASSUME NEW m \in Nat, NEW n \in Nat, NEW c \in Nat, NEW e, NEW d,
           Rises(e, m, c), Rises(d, n, c), Among(e, m, d, n), Among(d, n, e, m)
    PROVE  m = n /\ \A i \in 1 .. m : e[i] = d[i]
<1>1. \A i \in 1 .. m : i <= n /\ e[i] = d[i]
  BY SameSteps
<1>2. \A i \in 1 .. n : i <= m /\ d[i] = e[i]
  BY SameSteps
<1>3. m = 0 \/ m <= n
  BY <1>1
<1>4. n = 0 \/ n <= m
  BY <1>2
<1>5. \A a, b \in Nat : (a = 0 \/ a <= b) /\ (b = 0 \/ b <= a) => a = b
  OBVIOUS
<1>6. m = n
  BY <1>3, <1>4, <1>5
<1> QED
  BY <1>1, <1>6

(* A list whose first p elements, and no other, are in a set.              *)
LEMMA OnlyFirst ==
    ASSUME NEW S, NEW set, NEW q \in Seq(S), NEW r, r = Only(q, set),
           NEW p \in 0 .. Len(q), \A k \in 1 .. Len(q) : q[k] \in set <=> k <= p
    PROVE  r = SubSeq(q, 1, p)
<1>1. PICK e : r \in Seq(S) /\ Draws(q, set, Len(q), r, e)
  BY OnlyDraws
<1> DEFINE c == Len(q)
           m == Len(r)
           d == [i \in 1 .. p |-> i]
<1>2. c \in Nat /\ m \in Nat /\ p \in Nat /\ p <= c /\ (\A k \in 1 .. c : q[k] \in S)
  BY <1>1, LenProperties, ElementOfSeq
<1>3. /\ e \in [1 .. m -> 1 .. c]
      /\ \A i \in 1 .. m : r[i] = q[e[i]] /\ r[i] \in set
      /\ \A i, j \in 1 .. m : i < j => e[i] < e[j]
      /\ \A k \in 1 .. c : q[k] \in set => \E i \in 1 .. m : e[i] = k
  BY <1>1 DEF Draws
<1>4. \A k \in 1 .. c : q[k] \in set <=> k <= p
  OBVIOUS
<1>9. /\ SubSeq(q, 1, p) \in Seq(S)
      /\ Len(SubSeq(q, 1, p)) = p
      /\ \A i \in 1 .. p : SubSeq(q, 1, p)[i] = q[i]
  <2>1. \A i \in 1 .. p : q[i] \in S
    BY <1>2
  <2> QED
    BY <1>2, <2>1, SubSeqProperties
<1> HIDE DEF c, m
<1>5. d \in [1 .. p -> 1 .. c] /\ \A i \in 1 .. p : d[i] = i
  BY <1>2
<1> HIDE DEF d
<1>6. \A i \in 1 .. m : \E j \in 1 .. p : d[j] = e[i]
  <2> SUFFICES ASSUME NEW i \in 1 .. m PROVE \E j \in 1 .. p : d[j] = e[i]
    OBVIOUS
  <2>1. e[i] \in 1 .. c /\ e[i] <= p
    BY <1>3, <1>4
  <2>2. e[i] \in 1 .. p
    BY <1>2, <2>1
  <2> QED
    BY <1>5, <2>2
<1>7. \A j \in 1 .. p : \E i \in 1 .. m : e[i] = d[j]
  <2> SUFFICES ASSUME NEW j \in 1 .. p PROVE \E i \in 1 .. m : e[i] = j
    BY <1>5
  <2>1. j \in 1 .. c /\ j <= p
    BY <1>2
  <2> QED
    BY <1>3, <1>4, <2>1
<1>8. m = p /\ \A i \in 1 .. m : e[i] = d[i]
  <2>1. \A i, j \in 1 .. p : i < j => d[i] < d[j]
    BY <1>5
  <2>2. Rises(e, m, c) /\ Rises(d, p, c)
    BY <1>3, <1>5, <2>1 DEF Rises
  <2>3. Among(e, m, d, p) /\ Among(d, p, e, m)
    BY <1>6, <1>7 DEF Among
  <2> QED
    BY <1>2, <2>2, <2>3, SameEnumeration
<1>10. \A i \in 1 .. p : r[i] = q[i]
  BY <1>3, <1>5, <1>8
<1> DEFINE t == SubSeq(q, 1, p)
<1>11. t \in Seq(S) /\ Len(t) = p /\ \A i \in 1 .. p : r[i] = t[i]
  BY <1>9, <1>10
<1>12. r \in Seq(S) /\ Len(r) = p
  BY <1>1, <1>8 DEF m
<1> HIDE DEF t
<1>13. r = t
  BY ONLY <1>11, <1>12, SeqEqual
<1> QED
  BY <1>13 DEF t

(* ... all of its elements.                                                *)
LEMMA OnlyAll ==
    ASSUME NEW S, NEW set, NEW q \in Seq(S), \A k \in 1 .. Len(q) : q[k] \in set
    PROVE  Only(q, set) = q
<1>1. Len(q) \in Nat /\ Len(q) \in 0 .. Len(q) /\ \A k \in 1 .. Len(q) : k <= Len(q)
  BY LenProperties
<1>2. Only(q, set) = SubSeq(q, 1, Len(q))
  BY <1>1, OnlyFirst
<1> QED
  BY <1>2, SubSeqFull

-----------------------------------------------------------------------------
(* The tabs of a window *)

(* Pinned tabs come first, none of them twice.                             *)
Tidy == { tabs \in PinnedFirst :
            \A j, k \in 1 .. Len(tabs) : tabs[j] = tabs[k] /\ tabs[j] # Plain => j = k }

LEMMA PlainTab == Plain \in Tab /\ Plain \notin Pinnable /\ \A x \in Tab : x \in Pinnable <=> x # Plain
BY SessionAssumption DEF Tab

LEMMA TabsFacts ==
    ASSUME NEW tabs \in Seq(Tab)
    PROVE  /\ Len(tabs) \in Nat /\ DOMAIN tabs = 1 .. Len(tabs)
           /\ \A k \in 1 .. Len(tabs) : tabs[k] \in Tab
           /\ \A x : x \in IdsIn(tabs) <=> x # Plain /\ \E k \in 1 .. Len(tabs) : tabs[k] = x
           /\ tabs # << >> => Len(tabs) # 0
<1>1. Len(tabs) \in Nat /\ DOMAIN tabs = 1 .. Len(tabs) /\ \A k \in 1 .. Len(tabs) : tabs[k] \in Tab
  BY LenProperties, ElementOfSeq
<1>2. tabs # << >> => Len(tabs) # 0
  BY EmptySeq
<1>3. ASSUME NEW x PROVE x \in IdsIn(tabs) <=> x # Plain /\ \E k \in 1 .. Len(tabs) : tabs[k] = x
  BY <1>1, PlainTab DEF IdsIn, ToSet
<1> QED
  BY <1>1, <1>2, <1>3

LEMMA TidyFacts ==
    ASSUME NEW tabs \in Tidy
    PROVE  /\ tabs \in Seq(Tab) /\ tabs \in PinnedFirst
           /\ \A k \in 2 .. Len(tabs) : tabs[k] # Plain => tabs[k - 1] # Plain
           /\ \A j, k \in 1 .. Len(tabs) : tabs[j] = tabs[k] /\ tabs[j] # Plain => j = k
BY DEF Tidy, PinnedFirst

(* Before a pinned tab all are pinned.                                     *)
LEMMA PinnedBefore ==
    ASSUME NEW tabs \in Tidy
    PROVE  \A j, k \in 1 .. Len(tabs) : j <= k /\ tabs[k] # Plain => tabs[j] # Plain
<1> SUFFICES ASSUME NEW j \in 1 .. Len(tabs), tabs[j] = Plain
             PROVE  \A k \in 1 .. Len(tabs) : j <= k => tabs[k] = Plain
  OBVIOUS
<1>1. Len(tabs) \in Nat
  BY TidyFacts, TabsFacts
<1>2. \A k \in 2 .. Len(tabs) : tabs[k] # Plain => tabs[k - 1] # Plain
  BY TidyFacts
<1> DEFINE U == { k \in 1 .. Len(tabs) : j <= k /\ tabs[k] # Plain }
<1>3. SUFFICES ASSUME U # {} PROVE FALSE
  OBVIOUS
<1>4. U \subseteq Nat
  BY <1>1
<1>5. PICK k \in U : \A l \in U : k <= l
  BY <1>3, <1>4, NatMin
<1>6. k \in 2 .. Len(tabs) /\ k - 1 \in 1 .. Len(tabs) /\ j <= k - 1 /\ ~(k <= k - 1)
  BY <1>1, <1>5
<1>7. tabs[k - 1] # Plain
  BY <1>2, <1>5, <1>6
<1>8. k - 1 \in U
  BY <1>6, <1>7
<1> QED
  BY <1>5, <1>6, <1>8

(* The first of them are pinned: as many as have an id.                    *)
LEMMA PinnedPrefix ==
    ASSUME NEW tabs \in Tidy, NEW p, p = Cardinality(IdsIn(tabs))
    PROVE  /\ p \in 0 .. Len(tabs)
           /\ \A k \in 1 .. Len(tabs) : tabs[k] # Plain <=> k <= p
           /\ IsFiniteSet(IdsIn(tabs))
<1> DEFINE n == Len(tabs)
           P == { k \in 1 .. n : tabs[k] # Plain }
<1>1. /\ n \in Nat /\ tabs \in Seq(Tab)
      /\ \A x : x \in IdsIn(tabs) <=> x # Plain /\ \E k \in 1 .. n : tabs[k] = x
      /\ \A j, k \in 1 .. n : tabs[j] = tabs[k] /\ tabs[j] # Plain => j = k
      /\ \A j, k \in 1 .. n : j <= k /\ tabs[k] # Plain => tabs[j] # Plain
  BY TidyFacts, TabsFacts, PinnedBefore
<1>2. PICK m \in 0 .. n : \A k \in 1 .. n : tabs[k] # Plain <=> k <= m
  <2>1. CASE P = {}
    <3>1. 0 \in 0 .. n /\ \A k \in 1 .. n : ~(k <= 0) /\ tabs[k] = Plain
      BY <1>1, <2>1
    <3> QED
      BY <3>1
  <2>2. CASE P # {}
    <3>1. P \subseteq 1 .. n
      OBVIOUS
    <3>2. Max(P) \in P /\ \A y \in P : y <= Max(P)
      BY <1>1, <2>2, <3>1, MaxOf
    <3> DEFINE m == Max(P)
    <3>3. m \in 1 .. n /\ tabs[m] # Plain /\ m \in 0 .. n
      BY <1>1, <3>2
    <3>4. \A k \in 1 .. n : tabs[k] # Plain => k <= m
      BY <3>2
    <3> HIDE DEF m
    <3>5. \A k \in 1 .. n : k <= m => tabs[k] # Plain
      BY <1>1, <3>3
    <3> QED
      BY <3>3, <3>4, <3>5
  <2> QED
    BY <2>1, <2>2
<1> HIDE DEF n, P
<1>3. ExistsBijection(1 .. m, IdsIn(tabs))
  <2> DEFINE f == [k \in 1 .. m |-> tabs[k]]
  <2>1. \A k \in 1 .. m : k \in 1 .. n /\ k <= m
    BY <1>1, <1>2
  <2>2. f \in [1 .. m -> IdsIn(tabs)]
    BY <1>1, <1>2, <2>1
  <2>3. ASSUME NEW x \in IdsIn(tabs) PROVE \E k \in 1 .. m : f[k] = x
    <3>1. PICK k \in 1 .. n : tabs[k] = x
      BY <1>1
    <3>2. k <= m
      BY <1>1, <1>2, <3>1
    <3>3. k \in 1 .. m
      BY <1>1, <3>2
    <3> QED
      BY <3>1, <3>3
  <2>4. ASSUME NEW j \in 1 .. m, NEW k \in 1 .. m, f[j] = f[k] PROVE j = k
    BY <1>1, <1>2, <2>1, <2>4
  <2> HIDE DEF f
  <2>5. f \in Bijection(1 .. m, IdsIn(tabs))
    BY <2>2, <2>3, <2>4 DEF Bijection, Injection, Surjection, IsInjective
  <2> QED
    BY <2>5 DEF ExistsBijection
<1>4. m \in Nat
  BY <1>1, <1>2
<1>5. Cardinality(IdsIn(tabs)) = m /\ IsFiniteSet(IdsIn(tabs))
  BY <1>3, <1>4, FS_CountingElements, FS_NatBijection
<1> QED
  BY <1>2, <1>5 DEF n

(* The first tabs of a window are tidy, and so are these and a plain one.  *)
LEMMA TidyPrefix ==
    ASSUME NEW tabs \in Tidy, NEW p \in 0 .. Len(tabs), NEW r, r = SubSeq(tabs, 1, p)
    PROVE  /\ r \in Tidy /\ Len(r) = p
           /\ \A k \in 1 .. p : k \in 1 .. Len(tabs) /\ r[k] = tabs[k]
<1>1. /\ tabs \in Seq(Tab)
      /\ \A k \in 2 .. Len(tabs) : tabs[k] # Plain => tabs[k - 1] # Plain
      /\ \A j, k \in 1 .. Len(tabs) : tabs[j] = tabs[k] /\ tabs[j] # Plain => j = k
  BY TidyFacts
<1>2. Len(tabs) \in Nat /\ \A k \in 1 .. Len(tabs) : tabs[k] \in Tab
  BY <1>1, TabsFacts
<1>3. p \in Nat /\ \A k \in 1 .. p : k \in 1 .. Len(tabs)
  BY <1>2
<1>4. r \in Seq(Tab) /\ Len(r) = p /\ \A k \in 1 .. p : r[k] = tabs[k]
  <2>1. \A k \in 1 .. p : tabs[k] \in Tab
    BY <1>2, <1>3
  <2>2. /\ SubSeq(tabs, 1, p) \in Seq(Tab)
        /\ Len(SubSeq(tabs, 1, p)) = IF 1 <= p THEN p - 1 + 1 ELSE 0
        /\ \A i \in 1 .. p - 1 + 1 : SubSeq(tabs, 1, p)[i] = tabs[1 + i - 1]
    BY <1>3, <2>1, SubSeqProperties
  <2>3. p - 1 + 1 = p /\ \A i \in 1 .. p : 1 + i - 1 = i
    BY <1>3
  <2> QED
    BY <1>3, <2>2, <2>3
<1>5. \A k \in 2 .. p : k \in 2 .. Len(tabs) /\ k \in 1 .. p /\ k - 1 \in 1 .. p
  BY <1>2, <1>3
<1>6. \A k \in 2 .. p : r[k] # Plain => r[k - 1] # Plain
  BY <1>1, <1>4, <1>5
<1>7. \A j, k \in 1 .. p : r[j] = r[k] /\ r[j] # Plain => j = k
  BY <1>1, <1>3, <1>4
<1>8. r \in PinnedFirst
  BY <1>4, <1>6 DEF PinnedFirst
<1> QED
  BY <1>3, <1>4, <1>7, <1>8 DEF Tidy

LEMMA TidyAppend ==
    ASSUME NEW tabs \in Tidy, NEW r, r = Append(tabs, Plain)
    PROVE  r \in Tidy /\ IdsIn(r) = IdsIn(tabs) /\ r # << >>
<1>1. /\ tabs \in Seq(Tab)
      /\ \A k \in 2 .. Len(tabs) : tabs[k] # Plain => tabs[k - 1] # Plain
      /\ \A j, k \in 1 .. Len(tabs) : tabs[j] = tabs[k] /\ tabs[j] # Plain => j = k
  BY TidyFacts
<1>2. Len(tabs) \in Nat
  BY <1>1, TabsFacts
<1>3. /\ r \in Seq(Tab) /\ Len(r) = Len(tabs) + 1 /\ r # << >>
      /\ \A k \in 1 .. Len(tabs) : r[k] = tabs[k]
      /\ r[Len(tabs) + 1] = Plain
  BY <1>1, PlainTab, AppendProperties
<1>4. \A k \in 1 .. Len(r) : (k \in 1 .. Len(tabs) /\ r[k] = tabs[k]) \/ (k = Len(tabs) + 1 /\ r[k] = Plain)
  BY <1>2, <1>3
<1>5. \A k \in 2 .. Len(r) : r[k] # Plain => r[k - 1] # Plain
  <2> SUFFICES ASSUME NEW k \in 2 .. Len(r), r[k] # Plain PROVE r[k - 1] # Plain
    OBVIOUS
  <2>1. k \in 1 .. Len(r)
    BY <1>2, <1>3
  <2>2. k \in 1 .. Len(tabs) /\ r[k] = tabs[k]
    BY <1>4, <2>1
  <2>3. k \in 2 .. Len(tabs) /\ k - 1 \in 1 .. Len(tabs)
    BY <1>2, <2>2
  <2> QED
    BY <1>1, <1>3, <2>2, <2>3
<1>6. \A j, k \in 1 .. Len(r) : r[j] = r[k] /\ r[j] # Plain => j = k
  BY <1>1, <1>4
<1>7. r \in Tidy
  BY <1>3, <1>5, <1>6 DEF Tidy, PinnedFirst
<1>8. \A x : x \in IdsIn(r) <=> x \in IdsIn(tabs)
  <2> SUFFICES ASSUME NEW x PROVE x \in IdsIn(r) <=> x \in IdsIn(tabs)
    OBVIOUS
  <2>1. x \in IdsIn(r) <=> x # Plain /\ \E k \in 1 .. Len(r) : r[k] = x
    BY <1>3, TabsFacts
  <2>2. x \in IdsIn(tabs) <=> x # Plain /\ \E k \in 1 .. Len(tabs) : tabs[k] = x
    BY <1>1, TabsFacts
  <2>3. \A k \in 1 .. Len(tabs) : k \in 1 .. Len(r)
    BY <1>2, <1>3
  <2> QED
    BY <1>3, <1>4, <2>1, <2>2, <2>3
<1> QED
  BY <1>3, <1>7, <1>8

LEMMA TidyPlain == << >> \in Tidy /\ << Plain >> \in Tidy /\ IdsIn(<< >>) = {} /\ IdsIn(<< Plain >>) = {}
<1>1. << >> \in Seq(Tab) /\ Len(<< >>) = 0
  BY EmptySeq
<1>2. << >> \in Tidy
  BY <1>1 DEF Tidy, PinnedFirst
<1>3. ASSUME NEW x, x \in IdsIn(<< >>) PROVE FALSE
  <2> DEFINE e == << >>
  <2>1. \E k \in 1 .. Len(e) : e[k] = x
    <3>1. e \in Seq(Tab) /\ x \in IdsIn(e)
      BY <1>1, <1>3
    <3> HIDE DEF e
    <3> QED
      BY <3>1, TabsFacts
  <2> QED
    BY <1>1, <2>1
<1>4. << Plain >> = Append(<< >>, Plain)
  OBVIOUS
<1>5. << Plain >> \in Tidy /\ IdsIn(<< Plain >>) = IdsIn(<< >>)
  BY <1>2, <1>4, TidyAppend
<1> QED
  BY <1>2, <1>3, <1>5

(* What comes back of a window.                                            *)
Coming(tabs, whole) == IF whole THEN tabs ELSE SubSeq(tabs, 1, Cardinality(IdsIn(tabs)))

LEMMA OnlyComing ==
    ASSUME NEW tabs \in Tidy, NEW whole \in BOOLEAN
    PROVE  /\ Only(tabs, Worth(whole)) = Coming(tabs, whole)
           /\ Coming(tabs, whole) \in Tidy
           /\ IdsIn(Coming(tabs, whole)) = IdsIn(tabs)
<1> DEFINE p == Cardinality(IdsIn(tabs))
           r == SubSeq(tabs, 1, p)
<1>1. tabs \in Seq(Tab) /\ Len(tabs) \in Nat /\ \A k \in 1 .. Len(tabs) : tabs[k] \in Tab
  BY TidyFacts, TabsFacts
<1>2. CASE whole
  <2>1. Worth(whole) = Tab
    BY <1>2 DEF Worth
  <2>2. Only(tabs, Tab) = tabs
    BY <1>1, OnlyAll
  <2> QED
    BY <1>2, <2>1, <2>2 DEF Coming
<1>3. CASE ~whole
  <2>1. Worth(whole) = Pinnable
    BY <1>3 DEF Worth
  <2>2. p \in 0 .. Len(tabs) /\ \A k \in 1 .. Len(tabs) : tabs[k] # Plain <=> k <= p
    BY PinnedPrefix
  <2> HIDE DEF p
  <2>3. \A k \in 1 .. Len(tabs) : tabs[k] \in Pinnable <=> k <= p
    BY <1>1, <2>2, PlainTab
  <2>4. Only(tabs, Pinnable) = r
    BY <1>1, <2>2, <2>3, OnlyFirst
  <2>5. r \in Tidy /\ Len(r) = p /\ \A k \in 1 .. p : k \in 1 .. Len(tabs) /\ r[k] = tabs[k]
    BY <2>2, TidyPrefix
  <2>6. Coming(tabs, whole) = r
    BY <1>3 DEF Coming, p
  <2> HIDE DEF r
  <2>7. ASSUME NEW x PROVE x \in IdsIn(r) <=> x \in IdsIn(tabs)
    <3>1. x \in IdsIn(r) <=> x # Plain /\ \E k \in 1 .. p : r[k] = x
      BY <2>5, TidyFacts, TabsFacts
    <3>2. x \in IdsIn(tabs) <=> x # Plain /\ \E k \in 1 .. Len(tabs) : tabs[k] = x
      BY <1>1, TabsFacts
    <3>3. \A k \in 1 .. Len(tabs) : k <= p => k \in 1 .. p
      BY <1>1, <2>2
    <3> QED
      BY <2>2, <2>5, <3>1, <3>2, <3>3
  <2> QED
    BY <2>1, <2>4, <2>5, <2>6, <2>7
<1> QED
  BY <1>2, <1>3

(* ... is all that comes back when it comes back once more.                *)
LEMMA ComingTwice ==
    ASSUME NEW tabs \in Tidy, NEW then \in BOOLEAN, NEW now \in BOOLEAN
    PROVE  Coming(Coming(tabs, then), now) = Coming(tabs, then /\ now)
<1> DEFINE p == Cardinality(IdsIn(tabs))
           r == SubSeq(tabs, 1, p)
<1>1. CASE then
  BY <1>1 DEF Coming
<1>2. CASE ~then /\ now
  BY <1>2 DEF Coming
<1>3. CASE ~then /\ ~now
  <2>1. Coming(tabs, FALSE) = r
    BY DEF Coming
  <2>2. r \in Tidy /\ IdsIn(r) = IdsIn(tabs)
    BY <2>1, OnlyComing
  <2>3. p \in 0 .. Len(tabs)
    BY PinnedPrefix
  <2>4. Len(r) = p
    BY <2>3, TidyPrefix
  <2>5. SubSeq(r, 1, p) = r
    BY <2>2, <2>4, TidyFacts, SubSeqFull
  <2>6. Coming(r, FALSE) = SubSeq(r, 1, p)
    BY <2>2 DEF Coming
  <2> QED
    BY <1>3, <2>1, <2>5, <2>6
<1> QED
  BY <1>1, <1>2, <1>3

-----------------------------------------------------------------------------
(* Sessions *)

TidyList(s) == s \in Seq(SavedWindow) /\ \A w \in 1 .. Len(s) : s[w] \in Tidy

LEMMA TidyListFacts ==
    ASSUME NEW s, TidyList(s)
    PROVE  /\ Len(s) \in Nat /\ DOMAIN s = 1 .. Len(s)
           /\ \A w \in 1 .. Len(s) : s[w] \in Tidy /\ s[w] \in Seq(Tab)
           /\ s # NoSession => \A x : x \in Recorded(s) <=> \E w \in 1 .. Len(s) : x \in IdsIn(s[w])
<1>1. Len(s) \in Nat /\ DOMAIN s = 1 .. Len(s)
  BY LenProperties DEF TidyList
<1>2. \A w \in 1 .. Len(s) : s[w] \in Tidy /\ s[w] \in Seq(Tab)
  BY TidyFacts DEF TidyList
<1>3. s # NoSession => \A x : x \in Recorded(s) <=> \E w \in 1 .. Len(s) : x \in IdsIn(s[w])
  BY <1>1 DEF Recorded
<1> QED
  BY <1>1, <1>2, <1>3

(* A list that a function gives.                                           *)
LEMMA ListOf ==
    ASSUME NEW S, NEW n \in Nat, NEW f \in [1 .. n -> S]
    PROVE  f \in Seq(S) /\ Len(f) = n
<1>1. f \in Seq(S)
  BY SeqDef
<1>2. Len(f) \in Nat /\ DOMAIN f = 1 .. Len(f) /\ DOMAIN f = 1 .. n
  BY <1>1, LenProperties
<1>3. \A a, b \in Nat : 1 .. a = 1 .. b => a = b
  <2> SUFFICES ASSUME NEW a \in Nat, NEW b \in Nat, 1 .. a = 1 .. b PROVE a = b
    OBVIOUS
  <2>1. (a = 0 \/ a \in 1 .. b) /\ (b = 0 \/ b \in 1 .. a)
    <3>1. a = 0 \/ a \in 1 .. a
      OBVIOUS
    <3>2. b = 0 \/ b \in 1 .. b
      OBVIOUS
    <3> QED
      BY <3>1, <3>2
  <2> QED
    BY <2>1
<1> QED
  BY <1>1, <1>2, <1>3

(* The windows with any tabs, at the places e gives.                       *)
LEMMA NonemptyDraws ==
    ASSUME NEW s, TidyList(s), NEW r, r = Nonempty(s)
    PROVE  /\ TidyList(r)
           /\ \E e : /\ Rises(e, Len(r), Len(s))
                     /\ \A i \in 1 .. Len(r) : r[i] = s[e[i]] /\ r[i] # << >>
                     /\ \A k \in 1 .. Len(s) : s[k] # << >> => \E i \in 1 .. Len(r) : e[i] = k
<1> DEFINE set == Seq(Tab) \ {<< >>}
<1>1. s \in Seq(SavedWindow) /\ Len(s) \in Nat /\ \A w \in 1 .. Len(s) : s[w] \in Tidy /\ s[w] \in Seq(Tab)
  BY TidyListFacts DEF TidyList
<1>2. r = Only(s, set)
  BY DEF Nonempty
<1>3. \A w \in 1 .. Len(s) : s[w] \in set <=> s[w] # << >>
  BY <1>1
<1>4. \A x \in set : x # << >>
  OBVIOUS
<1> HIDE DEF set
<1>5. r \in Seq(SavedWindow) /\ \E e : Draws(s, set, Len(s), r, e)
  BY <1>1, <1>2, OnlyDraws
<1>6. PICK e : Draws(s, set, Len(s), r, e)
  BY <1>5
<1>7. /\ e \in [1 .. Len(r) -> 1 .. Len(s)]
      /\ \A i \in 1 .. Len(r) : r[i] = s[e[i]] /\ r[i] \in set
      /\ \A i, j \in 1 .. Len(r) : i < j => e[i] < e[j]
      /\ \A k \in 1 .. Len(s) : s[k] \in set => \E i \in 1 .. Len(r) : e[i] = k
  BY <1>6 DEF Draws
<1>8. Rises(e, Len(r), Len(s))
  BY <1>7 DEF Rises
<1>9. \A i \in 1 .. Len(r) : r[i] = s[e[i]] /\ r[i] # << >> /\ r[i] \in Tidy
  BY <1>1, <1>4, <1>7
<1>10. \A k \in 1 .. Len(s) : s[k] # << >> => \E i \in 1 .. Len(r) : e[i] = k
  BY <1>3, <1>7
<1>11. TidyList(r)
  BY <1>5, <1>9 DEF TidyList
<1> QED
  BY <1>8, <1>9, <1>10, <1>11

(* r is what comes back of the windows of s, at the places e gives.        *)
Brings(s, whole, r, e) ==
    /\ Rises(e, Len(r), Len(s))
    /\ \A i \in 1 .. Len(r) : r[i] = Coming(s[e[i]], whole) /\ r[i] # << >>
    /\ \A k \in 1 .. Len(s) : Coming(s[k], whole) # << >> => \E i \in 1 .. Len(r) : e[i] = k

LEMMA ReturningDraws ==
    ASSUME NEW s, TidyList(s), NEW whole \in BOOLEAN, NEW r, r = Returning(s, whole)
    PROVE  TidyList(r) /\ \E e : Brings(s, whole, r, e)
<1> DEFINE u == [w \in 1 .. Len(s) |-> Only(s[w], Worth(whole))]
<1>1. Len(s) \in Nat /\ DOMAIN s = 1 .. Len(s) /\ \A w \in 1 .. Len(s) : s[w] \in Tidy
  BY TidyListFacts
<1>2. r = Nonempty(u)
  BY <1>1 DEF Returning
<1>3. \A w \in 1 .. Len(s) : u[w] = Coming(s[w], whole) /\ u[w] \in Tidy /\ u[w] \in SavedWindow
  <2> SUFFICES ASSUME NEW w \in 1 .. Len(s)
               PROVE  u[w] = Coming(s[w], whole) /\ u[w] \in Tidy /\ u[w] \in SavedWindow
    OBVIOUS
  <2>1. u[w] = Only(s[w], Worth(whole)) /\ s[w] \in Tidy
    BY <1>1
  <2> HIDE DEF u
  <2>2. u[w] = Coming(s[w], whole) /\ u[w] \in Tidy
    BY <2>1, OnlyComing
  <2> QED
    BY <2>2, TidyFacts DEF SavedWindow
<1>4. u \in [1 .. Len(s) -> SavedWindow]
  BY <1>3
<1> HIDE DEF u
<1>5. u \in Seq(SavedWindow) /\ Len(u) = Len(s)
  BY <1>1, <1>4, ListOf
<1>6. TidyList(u)
  BY <1>3, <1>5 DEF TidyList
<1>7. /\ TidyList(r)
      /\ \E e : /\ Rises(e, Len(r), Len(u))
                /\ \A i \in 1 .. Len(r) : r[i] = u[e[i]] /\ r[i] # << >>
                /\ \A k \in 1 .. Len(u) : u[k] # << >> => \E i \in 1 .. Len(r) : e[i] = k
  BY <1>2, <1>6, NonemptyDraws
<1>8. PICK e : /\ Rises(e, Len(r), Len(s))
               /\ \A i \in 1 .. Len(r) : r[i] = u[e[i]] /\ r[i] # << >>
               /\ \A k \in 1 .. Len(s) : u[k] # << >> => \E i \in 1 .. Len(r) : e[i] = k
  BY <1>5, <1>7
<1>9. \A i \in 1 .. Len(r) : r[i] = Coming(s[e[i]], whole)
  BY <1>3, <1>8 DEF Rises
<1>10. \A k \in 1 .. Len(s) : Coming(s[k], whole) # << >> => \E i \in 1 .. Len(r) : e[i] = k
  BY <1>3, <1>8
<1>11. Brings(s, whole, r, e)
  BY <1>8, <1>9, <1>10 DEF Brings
<1> QED
  BY <1>7, <1>11

(* No pinned tab is left out.                                              *)
LEMMA ReturningRecords ==
    ASSUME NEW s, TidyList(s), NEW whole \in BOOLEAN, NEW r, r = Returning(s, whole)
    PROVE  \A x : (\E w \in 1 .. Len(r) : x \in IdsIn(r[w])) <=> (\E w \in 1 .. Len(s) : x \in IdsIn(s[w]))
<1> SUFFICES ASSUME NEW x
             PROVE  (\E w \in 1 .. Len(r) : x \in IdsIn(r[w])) <=> (\E w \in 1 .. Len(s) : x \in IdsIn(s[w]))
  OBVIOUS
<1>0. PICK e : Brings(s, whole, r, e)
  BY ReturningDraws
<1>1. /\ Rises(e, Len(r), Len(s))
      /\ \A i \in 1 .. Len(r) : r[i] = Coming(s[e[i]], whole) /\ r[i] # << >>
      /\ \A k \in 1 .. Len(s) : Coming(s[k], whole) # << >> => \E i \in 1 .. Len(r) : e[i] = k
  BY <1>0 DEF Brings
<1>2. \A w \in 1 .. Len(s) : s[w] \in Tidy
  BY TidyListFacts
<1>3. \A w \in 1 .. Len(s) : IdsIn(Coming(s[w], whole)) = IdsIn(s[w])
  BY <1>2, OnlyComing
<1>4. \A i \in 1 .. Len(r) : e[i] \in 1 .. Len(s)
  BY <1>1 DEF Rises
<1>5. ASSUME NEW w \in 1 .. Len(r), x \in IdsIn(r[w]) PROVE \E v \in 1 .. Len(s) : x \in IdsIn(s[v])
  BY <1>1, <1>3, <1>4, <1>5
<1>6. ASSUME NEW w \in 1 .. Len(s), x \in IdsIn(s[w]) PROVE \E v \in 1 .. Len(r) : x \in IdsIn(r[v])
  <2>1. x \in IdsIn(Coming(s[w], whole))
    BY <1>3, <1>6
  <2>2. Coming(s[w], whole) # << >>
    BY <2>1, TidyPlain
  <2>3. PICK i \in 1 .. Len(r) : e[i] = w
    BY <1>1, <2>2
  <2>4. r[i] = Coming(s[w], whole)
    BY <1>1, <2>3
  <2> QED
    BY <2>1, <2>4
<1> QED
  BY <1>5, <1>6

-----------------------------------------------------------------------------
(* The invariant *)

OpenWindows(ws) ==
    /\ ws \in Seq(Window)
    /\ \A w \in 1 .. Len(ws) : ws[w].tabs \in Tidy /\ (ws[w].single => IdsIn(ws[w].tabs) = {})

Stored(s) == s = NoSession \/ TidyList(s)

(* What the file holds when all writes have landed.                        *)
LastSaved(f, q) == IF q = << >> THEN f ELSE q[Len(q)]

ListsTidy ==
    /\ Stored(file)
    /\ \A i \in Instances :
          /\ Stored(session[i])
          /\ OpenWindows(windows[i])
          /\ \A k \in 1 .. Len(writes[i]) : TidyList(writes[i][k])

Orderly == SessionTypeOK /\ ListsTidy

Alone == \A i, j \in Instances : phase[i] # "off" /\ phase[j] # "off" => i = j

(* An instance that serves nothing yet.                                    *)
Untouched ==
    \A i \in Instances :
       /\ phase[i] # "running" => windows[i] = << >> /\ writes[i] = << >> /\ ~has_restored_session[i]
       /\ phase[i] = "off" => session[i] = NoSession
       /\ phase[i] = "started" => session[i] = file

(* A session that is not restored yet is the one in the file.              *)
Unread ==
    \A i \in Instances :
       session[i] # NoSession =>
          /\ ~has_restored_session[i]
          /\ excused \/ (windows[i] = << >> /\ writes[i] = << >> /\ session[i] = file)

(* Where the pinned tabs are: in windows, as long as there are any.        *)
Keeps(i) ==
    kept \subseteq IF windows[i] = << >> THEN Recorded(LastSaved(file, writes[i])) ELSE Shown(windows[i])

KeptThere ==
    ~excused => \A i \in Instances : (\A j \in Instances \ {i} : phase[j] = "off") => Keeps(i)

(* A window that asked when it was the last is in the session as it is.    *)
AskedSaved ==
    \A i \in Instances : \A w \in 1 .. Len(windows[i]) :
       windows[i][w].asking = "saved"
       => IdsIn(windows[i][w].tabs) \subseteq Recorded(LastSaved(file, writes[i]))

SessionInv ==
    Orderly /\ Alone /\ Untouched /\ Unread /\ KeptThere /\ AskedSaved

(* The tabs that some file has had since they were pinned are in every session *)
(* from then on: in the file and in all that is written to it, where what one *)
(* write brings the next ones do not take away.                            *)
Landed ==
    ~excused =>
       /\ kept \ unsaved \subseteq Recorded(file)
       /\ \A i \in Instances : \A n \in 1 .. Len(writes[i]) :
             /\ kept \ unsaved \subseteq Recorded(writes[i][n])
             /\ \A m \in 1 .. n : kept \cap Recorded(writes[i][m]) \subseteq Recorded(writes[i][n])

LEMMA StoredFacts ==
    ASSUME NEW s, TidyList(s)
    PROVE  s # NoSession /\ s \in Seq(SavedWindow)
BY SessionAssumption DEF TidyList

(* What an instance is in, its tabs being kept where they are, unless x.   *)
Fine(ph, s, h, ws, q, f, k, x) ==
    /\ ph \in {"off", "started", "running"}
    /\ Stored(s) /\ h \in BOOLEAN /\ OpenWindows(ws)
    /\ q \in Seq(Seq(SavedWindow)) /\ \A n \in 1 .. Len(q) : TidyList(q[n])
    /\ ph # "running" => ws = << >> /\ q = << >> /\ ~h
    /\ ph = "off" => s = NoSession
    /\ ph = "started" => s = f
    /\ s # NoSession => ~h /\ (x \/ (ws = << >> /\ q = << >> /\ s = f))
    /\ ~x => k \subseteq IF ws = << >> THEN Recorded(LastSaved(f, q)) ELSE Shown(ws)
    /\ \A w \in 1 .. Len(ws) :
          ws[w].asking = "saved" => IdsIn(ws[w].tabs) \subseteq Recorded(LastSaved(f, q))

Others(i) == \A j \in Instances \ {i} : phase[j] = "off"

(* An instance that runs is the only one.                                  *)
LEMMA RunsAlone ==
    ASSUME SessionInv, NEW i \in Instances, phase[i] # "off"
    PROVE  /\ Others(i)
           /\ Fine(phase[i], session[i], has_restored_session[i], windows[i], writes[i],
                   file, kept, excused)
           /\ \A j \in Instances \ {i} :
                 /\ phase[j] = "off" /\ windows[j] = << >> /\ writes[j] = << >>
                 /\ session[j] = NoSession /\ ~has_restored_session[j]
<1>1. Others(i)
  BY DEF SessionInv, Alone, Others
<1>2. \A j \in Instances \ {i} :
         /\ phase[j] = "off" /\ windows[j] = << >> /\ writes[j] = << >>
         /\ session[j] = NoSession /\ ~has_restored_session[j]
  BY <1>1 DEF SessionInv, Untouched, Others
<1>3. /\ phase[i] \in {"off", "started", "running"}
      /\ has_restored_session[i] \in BOOLEAN
      /\ writes[i] \in Seq(Seq(SavedWindow))
  BY DEF SessionInv, Orderly, SessionTypeOK
<1>4. /\ Stored(session[i]) /\ OpenWindows(windows[i])
      /\ \A n \in 1 .. Len(writes[i]) : TidyList(writes[i][n])
  BY DEF SessionInv, Orderly, ListsTidy
<1>5. /\ phase[i] # "running" => windows[i] = << >> /\ writes[i] = << >> /\ ~has_restored_session[i]
      /\ phase[i] = "off" => session[i] = NoSession
      /\ phase[i] = "started" => session[i] = file
      /\ session[i] # NoSession =>
            /\ ~has_restored_session[i]
            /\ excused \/ (windows[i] = << >> /\ writes[i] = << >> /\ session[i] = file)
  BY DEF SessionInv, Untouched, Unread
<1>6. ~excused =>
         kept \subseteq IF windows[i] = << >> THEN Recorded(LastSaved(file, writes[i])) ELSE Shown(windows[i])
  BY <1>1 DEF SessionInv, KeptThere, Keeps, Others
<1>7. \A w \in 1 .. Len(windows[i]) :
         windows[i][w].asking = "saved"
         => IdsIn(windows[i][w].tabs) \subseteq Recorded(LastSaved(file, writes[i]))
  BY DEF SessionInv, AskedSaved
<1>8. Fine(phase[i], session[i], has_restored_session[i], windows[i], writes[i],
           file, kept, excused)
  BY <1>3, <1>4, <1>5, <1>6, <1>7 DEF Fine
<1> QED
  BY <1>1, <1>2, <1>8

LEMMA NoWindows == OpenWindows(<< >>) /\ Shown(<< >>) = {}
<1>1. << >> \in Seq(Window) /\ Len(<< >>) = 0 /\ DOMAIN << >> = 1 .. 0 /\ 1 .. 0 = {}
  BY EmptySeq, LenProperties
<1> DEFINE e == << >>
<1>2. OpenWindows(e)
  BY <1>1 DEF OpenWindows
<1>3. Shown(e) = {}
  <2>1. DOMAIN e = {}
    BY <1>1
  <2> HIDE DEF e
  <2> QED
    BY <2>1 DEF Shown
<1> QED
  BY <1>2, <1>3

(* The instance i has become what it is now.                               *)
Becomes(i, ph, s, h, ws, q) ==
    /\ phase' = [phase EXCEPT ![i] = ph]
    /\ session' = [session EXCEPT ![i] = s]
    /\ has_restored_session' = [has_restored_session EXCEPT ![i] = h]
    /\ windows' = [windows EXCEPT ![i] = ws]
    /\ writes' = [writes EXCEPT ![i] = q]

(* If that is in order, all is.                                            *)
LEMMA OneOrderly ==
    ASSUME Orderly, unsaved' \subseteq kept',
           NEW i \in Instances, NEW ph, NEW s, NEW h, NEW ws, NEW q,
           Becomes(i, ph, s, h, ws, q),
           ph \in {"off", "started", "running"}, Stored(s), h \in BOOLEAN, OpenWindows(ws),
           q \in Seq(Seq(SavedWindow)), \A n \in 1 .. Len(q) : TidyList(q[n]),
           Stored(file'), restore_session' \in BOOLEAN, excused' \in BOOLEAN,
           kept' \subseteq Pinnable, preferences' \in [Instances -> BOOLEAN]
    PROVE  Orderly'
<1>1. /\ phase \in [Instances -> {"off", "started", "running"}]
      /\ session \in [Instances -> {NoSession} \cup Seq(SavedWindow)]
      /\ has_restored_session \in [Instances -> BOOLEAN]
      /\ windows \in [Instances -> Seq(Window)]
      /\ writes \in [Instances -> Seq(Seq(SavedWindow))]
  BY DEF Orderly, SessionTypeOK
<1>2. SessionTypeOK'
  <2>1. s \in {NoSession} \cup Seq(SavedWindow) /\ file' \in {NoSession} \cup Seq(SavedWindow)
    BY StoredFacts DEF Stored
  <2>2. ws \in Seq(Window)
    BY DEF OpenWindows
  <2>3. phase' \in [Instances -> {"off", "started", "running"}]
    BY <1>1 DEF Becomes
  <2>4. session' \in [Instances -> {NoSession} \cup Seq(SavedWindow)]
    BY <1>1, <2>1 DEF Becomes
  <2>5. has_restored_session' \in [Instances -> BOOLEAN]
    BY <1>1 DEF Becomes
  <2>6. windows' \in [Instances -> Seq(Window)]
    BY <1>1, <2>2 DEF Becomes
  <2>7. writes' \in [Instances -> Seq(Seq(SavedWindow))]
    BY <1>1 DEF Becomes
  <2> QED
    BY <2>1, <2>3, <2>4, <2>5, <2>6, <2>7 DEF SessionTypeOK
<1>3. ListsTidy'
  <2>1. ASSUME NEW j \in Instances
        PROVE  /\ Stored(session'[j]) /\ OpenWindows(windows'[j])
               /\ \A k \in 1 .. Len(writes'[j]) : TidyList(writes'[j][k])
    <3>1. CASE j = i
      <4>1. session'[j] = s /\ windows'[j] = ws /\ writes'[j] = q
        BY <1>1, <3>1 DEF Becomes
      <4> QED
        BY <4>1
    <3>2. CASE j # i
      <4>1. session'[j] = session[j] /\ windows'[j] = windows[j] /\ writes'[j] = writes[j]
        BY <1>1, <3>2 DEF Becomes
      <4> QED
        BY <4>1 DEF Orderly, ListsTidy
    <3> QED
      BY <3>1, <3>2
  <2> QED
    BY <2>1 DEF ListsTidy
<1> QED
  BY <1>2, <1>3 DEF Orderly

(* If that is fine too, all is, as the others are off.                     *)
LEMMA OneBecomes ==
    ASSUME SessionInv, unsaved' \subseteq kept',
           NEW i \in Instances, Others(i), NEW ph, NEW s, NEW h, NEW ws, NEW q,
           Becomes(i, ph, s, h, ws, q),
           Fine(ph, s, h, ws, q, file', kept', excused'),
           Stored(file'), restore_session' \in BOOLEAN, excused' \in BOOLEAN,
           kept' \subseteq Pinnable, preferences' \in [Instances -> BOOLEAN]
    PROVE  SessionInv'
<1>1. /\ phase \in [Instances -> {"off", "started", "running"}]
      /\ session \in [Instances -> {NoSession} \cup Seq(SavedWindow)]
      /\ has_restored_session \in [Instances -> BOOLEAN]
      /\ windows \in [Instances -> Seq(Window)]
      /\ writes \in [Instances -> Seq(Seq(SavedWindow))]
  BY DEF SessionInv, Orderly, SessionTypeOK
<1>2. /\ phase'[i] = ph /\ session'[i] = s /\ has_restored_session'[i] = h
      /\ windows'[i] = ws /\ writes'[i] = q
  BY <1>1 DEF Becomes
<1>3. \A j \in Instances \ {i} :
         /\ phase'[j] = "off" /\ windows'[j] = << >> /\ writes'[j] = << >>
         /\ session'[j] = NoSession /\ ~has_restored_session'[j]
  <2>1. \A j \in Instances \ {i} :
           /\ phase'[j] = phase[j] /\ windows'[j] = windows[j] /\ writes'[j] = writes[j]
           /\ session'[j] = session[j] /\ has_restored_session'[j] = has_restored_session[j]
    BY <1>1 DEF Becomes
  <2>2. \A j \in Instances \ {i} :
           /\ phase[j] = "off" /\ windows[j] = << >> /\ writes[j] = << >>
           /\ session[j] = NoSession /\ ~has_restored_session[j]
    BY DEF SessionInv, Untouched, Others
  <2> QED
    BY <2>1, <2>2
<1>4. /\ ph \in {"off", "started", "running"}
      /\ Stored(s) /\ h \in BOOLEAN /\ OpenWindows(ws)
      /\ q \in Seq(Seq(SavedWindow)) /\ \A n \in 1 .. Len(q) : TidyList(q[n])
      /\ ph # "running" => ws = << >> /\ q = << >> /\ ~h
      /\ ph = "off" => s = NoSession
      /\ ph = "started" => s = file'
      /\ s # NoSession => ~h /\ (excused' \/ (ws = << >> /\ q = << >> /\ s = file'))
      /\ ~excused' => kept' \subseteq IF ws = << >> THEN Recorded(LastSaved(file', q)) ELSE Shown(ws)
      /\ \A w \in 1 .. Len(ws) :
            ws[w].asking = "saved" => IdsIn(ws[w].tabs) \subseteq Recorded(LastSaved(file', q))
  BY DEF Fine
<1>5. Orderly'
  <2>1. Orderly
    BY DEF SessionInv
  <2> QED
    BY <1>4, <2>1, OneOrderly
<1>6. Len(<< >>) = 0 /\ 1 .. 0 = {}
  OBVIOUS
<1>7. Alone'
  BY <1>3 DEF Alone
<1>8. Untouched'
  <2>1. ASSUME NEW j \in Instances
        PROVE  /\ phase'[j] # "running" =>
                     windows'[j] = << >> /\ writes'[j] = << >> /\ ~has_restored_session'[j]
               /\ phase'[j] = "off" => session'[j] = NoSession
               /\ phase'[j] = "started" => session'[j] = file'
    <3>1. CASE j = i
      BY <1>2, <1>4, <3>1
    <3>2. CASE j # i
      BY <1>3, <3>2
    <3> QED
      BY <3>1, <3>2
  <2> QED
    BY <2>1 DEF Untouched
<1>9. Unread'
  <2>1. ASSUME NEW j \in Instances, session'[j] # NoSession
        PROVE  /\ ~has_restored_session'[j]
               /\ excused' \/ (windows'[j] = << >> /\ writes'[j] = << >> /\ session'[j] = file')
    <3>1. j = i
      BY <1>3, <2>1
    <3> QED
      BY <1>2, <1>4, <2>1, <3>1
  <2> QED
    BY <2>1 DEF Unread
<1>10. KeptThere'
  <2>1. ASSUME ~excused', NEW j \in Instances, \A l \in Instances \ {j} : phase'[l] = "off"
        PROVE  Keeps(j)'
    <3>1. CASE j = i
      BY <1>2, <1>4, <2>1, <3>1 DEF Keeps
    <3>2. CASE j # i
      <4>1. ph = "off"
        BY <1>2, <2>1, <3>2
      <4>2. ws = << >> /\ q = << >>
        BY <1>4, <4>1
      <4>3. kept' \subseteq Recorded(LastSaved(file', << >>))
        BY <1>4, <2>1, <4>2
      <4>4. windows'[j] = << >> /\ writes'[j] = << >>
        BY <1>3, <3>2
      <4> QED
        BY <4>3, <4>4 DEF Keeps
    <3> QED
      BY <3>1, <3>2
  <2> QED
    BY <2>1 DEF KeptThere
<1>11. AskedSaved'
  <2>1. ASSUME NEW j \in Instances, NEW w \in 1 .. Len(windows'[j]), windows'[j][w].asking = "saved"
        PROVE  IdsIn(windows'[j][w].tabs) \subseteq Recorded(LastSaved(file', writes'[j]))
    <3>1. CASE j = i
      BY <1>2, <1>4, <2>1, <3>1
    <3>2. CASE j # i
      BY <1>3, <1>6, <2>1, <3>2
    <3> QED
      BY <3>1, <3>2
  <2> QED
    BY <2>1 DEF AskedSaved
<1> QED
  BY <1>5, <1>7, <1>8, <1>9, <1>10, <1>11 DEF SessionInv

-----------------------------------------------------------------------------
(* Windows *)

LEMMA WindowFacts ==
    ASSUME NEW ws, OpenWindows(ws)
    PROVE  /\ Len(ws) \in Nat /\ DOMAIN ws = 1 .. Len(ws) /\ ws \in Seq(Window)
           /\ \A w \in 1 .. Len(ws) :
                 ws[w] \in Window /\ ws[w].tabs \in Tidy /\ (ws[w].single => IdsIn(ws[w].tabs) = {})
           /\ \A x : x \in Shown(ws) <=> \E w \in 1 .. Len(ws) : x \in IdsIn(ws[w].tabs)
           /\ ws # << >> => Len(ws) # 0
           /\ Len(ws) # 0 => ws # << >>
<1>1. ws \in Seq(Window)
  BY DEF OpenWindows
<1>2. Len(ws) \in Nat /\ DOMAIN ws = 1 .. Len(ws) /\ \A w \in 1 .. Len(ws) : ws[w] \in Window
  BY <1>1, LenProperties, ElementOfSeq
<1>3. \A w \in 1 .. Len(ws) : ws[w].tabs \in Tidy /\ (ws[w].single => IdsIn(ws[w].tabs) = {})
  BY DEF OpenWindows
<1>4. \A x : x \in Shown(ws) <=> \E w \in 1 .. Len(ws) : x \in IdsIn(ws[w].tabs)
  BY <1>2 DEF Shown
<1>5. ws # << >> => Len(ws) # 0
  BY <1>1, EmptySeq
<1>6. Len(ws) # 0 => ws # << >>
  BY EmptySeq
<1> QED
  BY <1>1, <1>2, <1>3, <1>4, <1>5, <1>6

(* A window with other tabs.                                               *)
LEMMA OtherTabs ==
    ASSUME NEW v \in Window, NEW tabs \in Tidy, NEW u, u = [v EXCEPT !.tabs = tabs]
    PROVE  u \in Window /\ u.tabs = tabs /\ u.single = v.single /\ u.asking = v.asking
<1>1. tabs \in PinnedFirst
  BY TidyFacts
<1> QED
  BY <1>1 DEF Window

LEMMA NewWindowFacts ==
    ASSUME NEW tabs \in Tidy
    PROVE  /\ WindowOf(tabs) \in Window /\ WindowOf(tabs).tabs = tabs
           /\ ~WindowOf(tabs).single /\ WindowOf(tabs).asking = "no"
<1>1. tabs \in PinnedFirst
  BY TidyFacts
<1> QED
  BY <1>1 DEF Window, WindowOf

(* Every window that asks did so before, and shows no more now.            *)
AsksAsBefore(vs, ws) ==
    \A w \in 1 .. Len(vs) : vs[w].asking = "saved" =>
       \E l \in 1 .. Len(ws) : ws[l].asking = "saved" /\ IdsIn(vs[w].tabs) \subseteq IdsIn(ws[l].tabs)

FitWindow(v) == v \in Window /\ v.tabs \in Tidy /\ (v.single => IdsIn(v.tabs) = {})

(* The windows ws with v at w.                                             *)
WithWindow(ws, w, v, vs) ==
    /\ OpenWindows(vs) /\ Len(vs) = Len(ws) /\ vs # << >>
    /\ \A j \in 1 .. Len(ws) : vs[j] = IF j = w THEN v ELSE ws[j]
    /\ \A x : x \in Shown(vs) <=>
          x \in IdsIn(v.tabs) \/ \E j \in 1 .. Len(ws) : j # w /\ x \in IdsIn(ws[j].tabs)

(* One window changes.                                                     *)
LEMMA OneWindow ==
    ASSUME NEW ws, OpenWindows(ws), NEW w \in 1 .. Len(ws), NEW v, FitWindow(v),
           NEW vs, vs = [ws EXCEPT ![w] = v]
    PROVE  /\ WithWindow(ws, w, v, vs)
           /\ v.asking # "saved" => AsksAsBefore(vs, ws)
           /\ ws[w].asking = v.asking /\ IdsIn(v.tabs) \subseteq IdsIn(ws[w].tabs)
              => AsksAsBefore(vs, ws)
<1>0. v \in Window /\ v.tabs \in Tidy /\ (v.single => IdsIn(v.tabs) = {})
  BY DEF FitWindow
<1>1. /\ Len(ws) \in Nat /\ ws \in Seq(Window)
      /\ \A j \in 1 .. Len(ws) :
            ws[j] \in Window /\ ws[j].tabs \in Tidy /\ (ws[j].single => IdsIn(ws[j].tabs) = {})
  BY WindowFacts
<1>2. /\ vs \in Seq(Window) /\ Len(vs) = Len(ws)
      /\ \A j \in 1 .. Len(ws) : vs[j] = IF j = w THEN v ELSE ws[j]
  BY <1>0, <1>1, ExceptSeq
<1>3. OpenWindows(vs)
  BY <1>0, <1>1, <1>2 DEF OpenWindows
<1>4. \A x : x \in Shown(vs) <=> \E j \in 1 .. Len(ws) : x \in IdsIn(vs[j].tabs)
  BY <1>2, <1>3, WindowFacts
<1>5. vs # << >>
  BY <1>1, <1>2, <1>3, WindowFacts
<1>6. ASSUME NEW x
      PROVE  x \in Shown(vs) <=>
                x \in IdsIn(v.tabs) \/ \E j \in 1 .. Len(ws) : j # w /\ x \in IdsIn(ws[j].tabs)
  BY <1>2, <1>4
<1>7. ASSUME v.asking # "saved" \/ (ws[w].asking = v.asking /\ IdsIn(v.tabs) \subseteq IdsIn(ws[w].tabs))
      PROVE  AsksAsBefore(vs, ws)
  <2> SUFFICES ASSUME NEW j \in 1 .. Len(vs), vs[j].asking = "saved"
               PROVE  \E l \in 1 .. Len(ws) :
                         ws[l].asking = "saved" /\ IdsIn(vs[j].tabs) \subseteq IdsIn(ws[l].tabs)
    BY DEF AsksAsBefore
  <2>1. j \in 1 .. Len(ws)
    BY <1>2
  <2>2. CASE j = w
    BY <1>2, <1>7, <2>1, <2>2
  <2>3. CASE j # w
    BY <1>2, <2>1, <2>3
  <2> QED
    BY <2>2, <2>3
<1>8. WithWindow(ws, w, v, vs)
  BY <1>2, <1>3, <1>5, <1>6 DEF WithWindow
<1> QED
  BY <1>7, <1>8

(* One goes.                                                               *)
LEMMA WithoutWindow ==
    ASSUME NEW ws, OpenWindows(ws), NEW w \in 1 .. Len(ws), NEW vs, vs = RemoveAt(ws, w)
    PROVE  /\ OpenWindows(vs) /\ Len(vs) = Len(ws) - 1
           /\ \A x : x \in Shown(vs) <=> \E j \in 1 .. Len(ws) : j # w /\ x \in IdsIn(ws[j].tabs)
           /\ AsksAsBefore(vs, ws)
<1>1. /\ Len(ws) \in Nat /\ ws \in Seq(Window)
      /\ \A j \in 1 .. Len(ws) :
            ws[j] \in Window /\ ws[j].tabs \in Tidy /\ (ws[j].single => IdsIn(ws[j].tabs) = {})
  BY WindowFacts
<1>2. /\ vs \in Seq(Window) /\ Len(vs) = Len(ws) - 1
      /\ \A j \in 1 .. Len(ws) - 1 : vs[j] = ws[IF j < w THEN j ELSE j + 1]
  BY <1>1, RemoveAtProperties
<1>3. \A j \in 1 .. Len(vs) : \E l \in 1 .. Len(ws) : l # w /\ vs[j] = ws[l]
  <2> SUFFICES ASSUME NEW j \in 1 .. Len(vs) PROVE \E l \in 1 .. Len(ws) : l # w /\ vs[j] = ws[l]
    OBVIOUS
  <2> DEFINE l == IF j < w THEN j ELSE j + 1
  <2>1. l \in 1 .. Len(ws) /\ l # w /\ j \in 1 .. Len(ws) - 1
    BY <1>1, <1>2
  <2>2. vs[j] = ws[l]
    BY <1>2, <2>1
  <2> QED
    BY <2>1, <2>2
<1>4. \A l \in 1 .. Len(ws) : l # w => \E j \in 1 .. Len(vs) : vs[j] = ws[l]
  <2> SUFFICES ASSUME NEW l \in 1 .. Len(ws), l # w PROVE \E j \in 1 .. Len(vs) : vs[j] = ws[l]
    OBVIOUS
  <2> DEFINE j == IF l < w THEN l ELSE l - 1
  <2>1. j \in 1 .. Len(vs) /\ (IF j < w THEN j ELSE j + 1) = l /\ j \in 1 .. Len(ws) - 1
    BY <1>1, <1>2
  <2>2. vs[j] = ws[l]
    BY <1>2, <2>1
  <2> QED
    BY <2>1, <2>2
<1>5. OpenWindows(vs)
  BY <1>1, <1>2, <1>3 DEF OpenWindows
<1>6. \A x : x \in Shown(vs) <=> \E j \in 1 .. Len(vs) : x \in IdsIn(vs[j].tabs)
  BY <1>5, WindowFacts
<1>7. ASSUME NEW x
      PROVE  x \in Shown(vs) <=> \E j \in 1 .. Len(ws) : j # w /\ x \in IdsIn(ws[j].tabs)
  <2>1. ASSUME x \in Shown(vs) PROVE \E j \in 1 .. Len(ws) : j # w /\ x \in IdsIn(ws[j].tabs)
    <3>1. PICK j \in 1 .. Len(vs) : x \in IdsIn(vs[j].tabs)
      BY <1>6, <2>1
    <3>2. PICK l \in 1 .. Len(ws) : l # w /\ vs[j] = ws[l]
      BY <1>3
    <3> QED
      BY <3>1, <3>2
  <2>2. ASSUME NEW l \in 1 .. Len(ws), l # w, x \in IdsIn(ws[l].tabs) PROVE x \in Shown(vs)
    <3>1. PICK j \in 1 .. Len(vs) : vs[j] = ws[l]
      BY <1>4, <2>2
    <3>2. x \in IdsIn(vs[j].tabs)
      BY <2>2, <3>1
    <3> QED
      BY <1>6, <3>2
  <2> QED
    BY <2>1, <2>2
<1>8. AsksAsBefore(vs, ws)
  <2> SUFFICES ASSUME NEW j \in 1 .. Len(vs), vs[j].asking = "saved"
               PROVE  \E l \in 1 .. Len(ws) :
                         ws[l].asking = "saved" /\ IdsIn(vs[j].tabs) \subseteq IdsIn(ws[l].tabs)
    BY DEF AsksAsBefore
  <2> QED
    BY <1>3
<1> QED
  BY <1>2, <1>5, <1>7, <1>8

(* Some more follow, none of which asks.                                   *)
LEMMA MoreWindows ==
    ASSUME NEW ws, OpenWindows(ws), NEW us, OpenWindows(us),
           \A w \in 1 .. Len(us) : us[w].asking = "no", NEW vs, vs = ws \o us
    PROVE  /\ OpenWindows(vs) /\ Len(vs) = Len(ws) + Len(us)
           /\ \A x : x \in Shown(vs) <=> x \in Shown(ws) \/ x \in Shown(us)
           /\ AsksAsBefore(vs, ws)
<1>1. /\ Len(ws) \in Nat /\ ws \in Seq(Window)
      /\ \A j \in 1 .. Len(ws) :
            ws[j] \in Window /\ ws[j].tabs \in Tidy /\ (ws[j].single => IdsIn(ws[j].tabs) = {})
      /\ \A x : x \in Shown(ws) <=> \E w \in 1 .. Len(ws) : x \in IdsIn(ws[w].tabs)
  BY WindowFacts
<1>2. /\ Len(us) \in Nat /\ us \in Seq(Window)
      /\ \A j \in 1 .. Len(us) :
            us[j] \in Window /\ us[j].tabs \in Tidy /\ (us[j].single => IdsIn(us[j].tabs) = {})
      /\ \A x : x \in Shown(us) <=> \E w \in 1 .. Len(us) : x \in IdsIn(us[w].tabs)
  BY WindowFacts
<1>3. /\ vs \in Seq(Window) /\ Len(vs) = Len(ws) + Len(us)
      /\ \A i \in 1 .. Len(ws) + Len(us) : vs[i] = IF i <= Len(ws) THEN ws[i] ELSE us[i - Len(ws)]
  BY <1>1, <1>2, ConcatProperties
<1>4. \A k \in 1 .. Len(vs) : (k \in 1 .. Len(ws) /\ vs[k] = ws[k])
                              \/ (k - Len(ws) \in 1 .. Len(us) /\ vs[k] = us[k - Len(ws)])
  BY <1>1, <1>2, <1>3
<1>5. \A k \in 1 .. Len(ws) : k \in 1 .. Len(vs) /\ vs[k] = ws[k]
  BY <1>1, <1>2, <1>3
<1>6. ASSUME NEW k \in 1 .. Len(us) PROVE Len(ws) + k \in 1 .. Len(vs) /\ vs[Len(ws) + k] = us[k]
  <2>1. Len(ws) + k \in 1 .. Len(ws) + Len(us) /\ ~(Len(ws) + k <= Len(ws)) /\ (Len(ws) + k) - Len(ws) = k
    BY <1>1, <1>2
  <2> QED
    BY <1>3, <2>1
<1>7. OpenWindows(vs)
  BY <1>1, <1>2, <1>3, <1>4 DEF OpenWindows
<1>8. \A x : x \in Shown(vs) <=> \E j \in 1 .. Len(vs) : x \in IdsIn(vs[j].tabs)
  BY <1>7, WindowFacts
<1>9. ASSUME NEW x PROVE x \in Shown(vs) <=> x \in Shown(ws) \/ x \in Shown(us)
  <2>1. ASSUME x \in Shown(vs) PROVE x \in Shown(ws) \/ x \in Shown(us)
    <3>1. PICK j \in 1 .. Len(vs) : x \in IdsIn(vs[j].tabs)
      BY <1>8, <2>1
    <3>2. CASE j \in 1 .. Len(ws) /\ vs[j] = ws[j]
      BY <1>1, <3>1, <3>2
    <3>3. CASE j - Len(ws) \in 1 .. Len(us) /\ vs[j] = us[j - Len(ws)]
      BY <1>2, <3>1, <3>3
    <3> QED
      BY <1>4, <3>2, <3>3
  <2>2. ASSUME x \in Shown(ws) PROVE x \in Shown(vs)
    <3>1. PICK j \in 1 .. Len(ws) : x \in IdsIn(ws[j].tabs)
      BY <1>1, <2>2
    <3>2. j \in 1 .. Len(vs) /\ x \in IdsIn(vs[j].tabs)
      BY <1>5, <3>1
    <3> QED
      BY <1>8, <3>2
  <2>3. ASSUME x \in Shown(us) PROVE x \in Shown(vs)
    <3>1. PICK j \in 1 .. Len(us) : x \in IdsIn(us[j].tabs)
      BY <1>2, <2>3
    <3>2. Len(ws) + j \in 1 .. Len(vs) /\ x \in IdsIn(vs[Len(ws) + j].tabs)
      BY <1>6, <3>1
    <3> QED
      BY <1>8, <3>2
  <2> QED
    BY <2>1, <2>2, <2>3
<1>10. AsksAsBefore(vs, ws)
  <2> SUFFICES ASSUME NEW j \in 1 .. Len(vs), vs[j].asking = "saved"
               PROVE  \E l \in 1 .. Len(ws) :
                         ws[l].asking = "saved" /\ IdsIn(vs[j].tabs) \subseteq IdsIn(ws[l].tabs)
    BY DEF AsksAsBefore
  <2>1. j \in 1 .. Len(ws) /\ vs[j] = ws[j]
    BY <1>4
  <2> QED
    BY <2>1
<1> QED
  BY <1>3, <1>7, <1>9, <1>10

LEMMA OneMoreWindow ==
    ASSUME NEW ws, OpenWindows(ws), NEW v \in Window, v.tabs \in Tidy,
           v.single => IdsIn(v.tabs) = {}, v.asking = "no", NEW vs, vs = Append(ws, v)
    PROVE  /\ OpenWindows(vs) /\ Len(vs) = Len(ws) + 1 /\ vs # << >>
           /\ \A x : x \in Shown(vs) <=> x \in Shown(ws) \/ x \in IdsIn(v.tabs)
           /\ AsksAsBefore(vs, ws)
<1> DEFINE us == << v >>
<1>1. us \in Seq(Window) /\ Len(us) = 1 /\ us[1] = v
  OBVIOUS
<1>2. ws \in Seq(Window) /\ Len(ws) \in Nat
  BY WindowFacts
<1>3. vs = ws \o us
  BY <1>2, AppendIsConcat
<1> HIDE DEF us
<1>4. \A w \in 1 .. Len(us) : us[w] = v
  BY <1>1
<1>5. OpenWindows(us) /\ \A w \in 1 .. Len(us) : us[w].asking = "no"
  BY <1>1, <1>4 DEF OpenWindows
<1>6. /\ OpenWindows(vs) /\ Len(vs) = Len(ws) + 1
      /\ \A x : x \in Shown(vs) <=> x \in Shown(ws) \/ x \in Shown(us)
      /\ AsksAsBefore(vs, ws)
  BY <1>1, <1>3, <1>5, MoreWindows
<1>7. \A x : x \in Shown(us) <=> x \in IdsIn(v.tabs)
  <2>1. \A x : x \in Shown(us) <=> \E w \in 1 .. Len(us) : x \in IdsIn(us[w].tabs)
    BY <1>5, WindowFacts
  <2>2. 1 \in 1 .. Len(us)
    BY <1>1
  <2> QED
    BY <1>1, <1>4, <2>1, <2>2
<1>8. vs # << >>
  BY <1>2, <1>6, WindowFacts
<1> QED
  BY <1>6, <1>7, <1>8

(* What is saved of windows records all that they show.                    *)
LEMMA TabsOfWindows ==
    ASSUME NEW ws, OpenWindows(ws), NEW s, s = [w \in DOMAIN ws |-> ws[w].tabs]
    PROVE  /\ TidyList(s) /\ Len(s) = Len(ws)
           /\ \A w \in 1 .. Len(ws) : s[w] = ws[w].tabs
<1>1. /\ Len(ws) \in Nat /\ DOMAIN ws = 1 .. Len(ws)
      /\ \A w \in 1 .. Len(ws) : ws[w].tabs \in Tidy
  BY WindowFacts
<1>2. \A w \in 1 .. Len(ws) : s[w] = ws[w].tabs
  BY <1>1
<1>3. \A w \in 1 .. Len(ws) : ws[w].tabs \in SavedWindow
  BY <1>1, TidyFacts DEF SavedWindow
<1>4. s \in [1 .. Len(ws) -> SavedWindow]
  BY <1>1, <1>3
<1>5. s \in Seq(SavedWindow) /\ Len(s) = Len(ws)
  BY <1>1, <1>4, ListOf
<1> QED
  BY <1>1, <1>2, <1>5 DEF TidyList

LEMMA SavedFacts ==
    ASSUME NEW ws, OpenWindows(ws), NEW whole \in BOOLEAN
    PROVE  TidyList(Saved(ws, whole)) /\ Recorded(Saved(ws, whole)) = Shown(ws)
<1> DEFINE s == [w \in DOMAIN ws |-> ws[w].tabs]
           r == Saved(ws, whole)
<1>1. TidyList(s) /\ Len(s) = Len(ws) /\ \A w \in 1 .. Len(ws) : s[w] = ws[w].tabs
  BY TabsOfWindows
<1>2. r = Returning(s, whole)
  BY DEF Saved
<1> HIDE DEF s, r
<1>3. TidyList(r)
  BY <1>1, <1>2, ReturningDraws
<1>4. \A x : x \in Recorded(r) <=> \E w \in 1 .. Len(r) : x \in IdsIn(r[w])
  BY <1>3, TidyListFacts, StoredFacts
<1>5. \A x : (\E w \in 1 .. Len(r) : x \in IdsIn(r[w])) <=> (\E w \in 1 .. Len(s) : x \in IdsIn(s[w]))
  BY <1>1, <1>2, ReturningRecords
<1>6. \A x : x \in Shown(ws) <=> \E w \in 1 .. Len(ws) : x \in IdsIn(ws[w].tabs)
  BY WindowFacts
<1>7. \A x : x \in Recorded(r) <=> x \in Shown(ws)
  BY <1>1, <1>4, <1>5, <1>6
<1>8. Recorded(r) = Shown(ws)
  BY <1>7
<1> QED
  BY <1>3, <1>8 DEF r

(* What is restored shows all that is recorded.                            *)
LEMMA RestoredFacts ==
    ASSUME NEW s, TidyList(s), NEW whole \in BOOLEAN, NEW ws, ws = Restored(s, whole)
    PROVE  /\ OpenWindows(ws) /\ Shown(ws) = Recorded(s)
           /\ \A w \in 1 .. Len(ws) : ws[w].asking = "no"
           /\ LET back == Returning(s, whole)
              IN  /\ Len(ws) = Len(back)
                  /\ \A w \in 1 .. Len(ws) :
                        ws[w].tabs = IF whole THEN back[w] ELSE Append(back[w], Plain)
<1> DEFINE back == Returning(s, whole)
           n == Len(back)
<1>1. TidyList(back)
  BY ReturningDraws
<1>2. \A x : (\E w \in 1 .. Len(back) : x \in IdsIn(back[w])) <=> (\E w \in 1 .. Len(s) : x \in IdsIn(s[w]))
  BY ReturningRecords
<1>3. ws = [w \in DOMAIN back |-> Opened(back[w], whole)]
  BY DEF Restored
<1> HIDE DEF back
<1>4. n \in Nat /\ DOMAIN back = 1 .. n /\ \A w \in 1 .. n : back[w] \in Tidy
  BY <1>1, TidyListFacts
<1> DEFINE tabs(w) == IF whole THEN back[w] ELSE Append(back[w], Plain)
<1>5. \A w \in 1 .. n : tabs(w) \in Tidy /\ IdsIn(tabs(w)) = IdsIn(back[w])
  BY <1>4, TidyAppend
<1>6. \A w \in 1 .. n : ws[w] = WindowOf(tabs(w))
  BY <1>3, <1>4 DEF Opened
<1> HIDE DEF tabs
<1>7. \A w \in 1 .. n :
         /\ ws[w] \in Window /\ ws[w].tabs = tabs(w)
         /\ ~ws[w].single /\ ws[w].asking = "no"
  BY <1>5, <1>6, NewWindowFacts
<1>8. DOMAIN ws = 1 .. n
  BY <1>3, <1>4
<1>9. ws \in [1 .. n -> Window]
  <2>1. ws = [w \in 1 .. n |-> ws[w]]
    BY <1>3, <1>4
  <2> QED
    BY <1>7, <2>1
<1>10. ws \in Seq(Window) /\ Len(ws) = n
  BY <1>4, <1>9, ListOf
<1>11. OpenWindows(ws)
  BY <1>5, <1>7, <1>10 DEF OpenWindows
<1>12. \A x : x \in Shown(ws) <=> \E w \in 1 .. n : x \in IdsIn(ws[w].tabs)
  BY <1>10, <1>11, WindowFacts
<1>13. \A x : x \in Recorded(s) <=> \E w \in 1 .. Len(s) : x \in IdsIn(s[w])
  BY TidyListFacts, StoredFacts
<1>17. \A w \in 1 .. n : IdsIn(ws[w].tabs) = IdsIn(back[w])
  BY <1>5, <1>7
<1>14. ASSUME NEW x PROVE x \in Shown(ws) <=> x \in Recorded(s)
  <2>1. x \in Shown(ws) <=> \E w \in 1 .. n : x \in IdsIn(ws[w].tabs)
    BY <1>12
  <2>2. (\E w \in 1 .. n : x \in IdsIn(ws[w].tabs)) <=> \E w \in 1 .. n : x \in IdsIn(back[w])
    BY <1>17
  <2>3. (\E w \in 1 .. n : x \in IdsIn(back[w])) <=> \E w \in 1 .. Len(s) : x \in IdsIn(s[w])
    BY <1>2
  <2> QED
    BY <1>13, <2>1, <2>2, <2>3
<1>15. Shown(ws) = Recorded(s)
  BY <1>14
<1>16. \A w \in 1 .. n : ws[w].tabs = IF whole THEN back[w] ELSE Append(back[w], Plain)
  BY <1>7 DEF tabs
<1> QED
  BY <1>7, <1>10, <1>11, <1>15, <1>16 DEF back

(* What is restored of what was saved: both leave windows out, but in the  *)
(* end the ones that have nothing to bring back.                           *)
LEMMA ReturningTwice ==
    ASSUME NEW s, TidyList(s), NEW then \in BOOLEAN, NEW now \in BOOLEAN,
           NEW y, TidyList(y), Len(y) = Len(s),
           \A w \in 1 .. Len(s) : y[w] = Coming(s[w], then /\ now)
    PROVE  Returning(Returning(s, then), now) = Nonempty(y)
<1> DEFINE a == Returning(s, then)
           b == Returning(a, now)
           r == Nonempty(y)
           n == Len(s)
<1>1. TidyList(a) /\ \E e : Brings(s, then, a, e)
  BY ReturningDraws
<1> HIDE DEF a
<1>3. TidyList(b) /\ \E d : Brings(a, now, b, d)
  BY <1>1, ReturningDraws
<1> HIDE DEF b
<1>20. PICK e : Brings(s, then, a, e)
  BY <1>1
<1>2. /\ Rises(e, Len(a), n)
      /\ \A i \in 1 .. Len(a) : a[i] = Coming(s[e[i]], then) /\ a[i] # << >>
      /\ \A k \in 1 .. n : Coming(s[k], then) # << >> => \E i \in 1 .. Len(a) : e[i] = k
  BY <1>20 DEF Brings
<1>40. PICK d : Brings(a, now, b, d)
  BY <1>3
<1>4. /\ Rises(d, Len(b), Len(a))
      /\ \A i \in 1 .. Len(b) : b[i] = Coming(a[d[i]], now) /\ b[i] # << >>
      /\ \A k \in 1 .. Len(a) : Coming(a[k], now) # << >> => \E i \in 1 .. Len(b) : d[i] = k
  BY <1>40 DEF Brings
<1>5. TidyList(r)
  BY NonemptyDraws
<1>6. PICK g : /\ Rises(g, Len(r), n)
               /\ \A i \in 1 .. Len(r) : r[i] = y[g[i]] /\ r[i] # << >>
               /\ \A k \in 1 .. n : y[k] # << >> => \E i \in 1 .. Len(r) : g[i] = k
  BY NonemptyDraws
<1> HIDE DEF r, n
<1> DEFINE f == [i \in 1 .. Len(b) |-> e[d[i]]]
<1>7. /\ n \in Nat /\ Len(a) \in Nat /\ Len(b) \in Nat /\ Len(r) \in Nat
      /\ \A w \in 1 .. n : s[w] \in Tidy
  BY <1>1, <1>3, <1>5, TidyListFacts DEF n
<1>8. \A w \in 1 .. n : Coming(Coming(s[w], then), now) = y[w]
  BY <1>7, ComingTwice DEF n
<1>9. \A i \in 1 .. Len(b) : d[i] \in 1 .. Len(a) /\ e[d[i]] \in 1 .. n
  BY <1>2, <1>4 DEF Rises
<1>10. Rises(f, Len(b), n)
  <2>1. f \in [1 .. Len(b) -> 1 .. n]
    BY <1>9
  <2>2. ASSUME NEW i \in 1 .. Len(b), NEW j \in 1 .. Len(b), i < j PROVE f[i] < f[j]
    <3>1. d[i] < d[j]
      BY <1>4, <2>2 DEF Rises
    <3>2. e[d[i]] < e[d[j]]
      BY <1>2, <1>9, <3>1 DEF Rises
    <3> QED
      BY <3>2
  <2> QED
    BY <2>1, <2>2 DEF Rises
<1>11. \A i \in 1 .. Len(b) : f[i] = e[d[i]] /\ f[i] \in 1 .. n
  BY <1>9
<1> HIDE DEF f
<1>12. ASSUME NEW i \in 1 .. Len(b) PROVE b[i] = y[f[i]] /\ b[i] # << >>
  <2>1. b[i] = Coming(a[d[i]], now) /\ b[i] # << >> /\ d[i] \in 1 .. Len(a) /\ e[d[i]] \in 1 .. n
    BY <1>4, <1>9
  <2>2. a[d[i]] = Coming(s[e[d[i]]], then)
    BY <1>2, <2>1
  <2>3. Coming(Coming(s[e[d[i]]], then), now) = y[e[d[i]]]
    BY <1>8, <2>1
  <2>4. f[i] = e[d[i]]
    BY <1>11
  <2> QED
    BY <2>1, <2>2, <2>3, <2>4
<1>13. Among(f, Len(b), g, Len(r))
  BY <1>6, <1>11, <1>12 DEF Among
<1>14. Among(g, Len(r), f, Len(b))
  <2> SUFFICES ASSUME NEW i \in 1 .. Len(r) PROVE \E j \in 1 .. Len(b) : f[j] = g[i]
    BY DEF Among
  <2>1. g[i] \in 1 .. n /\ y[g[i]] # << >>
    BY <1>6 DEF Rises
  <2>2. Coming(s[g[i]], then) # << >>
    <3>1. SUFFICES ASSUME Coming(s[g[i]], then) = << >> PROVE FALSE
      OBVIOUS
    <3>2. y[g[i]] = Coming(<< >>, now)
      BY <1>8, <2>1, <3>1
    <3>3. Coming(<< >>, now) = << >>
      <4>1. Cardinality({}) = 0
        BY FS_EmptySet
      <4>2. SubSeq(<< >>, 1, 0) = << >>
        BY SubSeqEmpty
      <4> QED
        BY <4>1, <4>2, TidyPlain DEF Coming
    <3> QED
      BY <2>1, <3>2, <3>3
  <2>3. PICK k \in 1 .. Len(a) : e[k] = g[i]
    BY <1>2, <2>1, <2>2
  <2>4. Coming(a[k], now) = y[g[i]]
    BY <1>2, <1>8, <2>1, <2>3
  <2>5. PICK j \in 1 .. Len(b) : d[j] = k
    BY <1>4, <2>1, <2>4
  <2> QED
    BY <1>11, <2>3, <2>5
<1>15. Len(b) = Len(r) /\ \A i \in 1 .. Len(b) : f[i] = g[i]
  BY <1>6, <1>7, <1>10, <1>13, <1>14, SameEnumeration
<1>16. \A i \in 1 .. Len(b) : b[i] = r[i]
  BY <1>6, <1>12, <1>15
<1>17. b \in Seq(SavedWindow) /\ r \in Seq(SavedWindow)
  BY <1>3, <1>5 DEF TidyList
<1>18. b = r
  BY <1>15, <1>16, <1>17, SeqEqual
<1> QED
  BY <1>18 DEF a, b, r

LEMMA RoundTripOfWindows == ListsTidy => RoundTrip
<1> SUFFICES ASSUME ListsTidy, NEW i \in Instances, NEW then \in BOOLEAN, NEW now \in BOOLEAN
             PROVE  LET all == [w \in DOMAIN windows[i] |-> windows[i][w].tabs]
                        pinned == [w \in DOMAIN all |-> SubSeq(all[w], 1, Cardinality(IdsIn(all[w])))]
                        worth == Nonempty(IF then /\ now THEN all ELSE pinned)
                        back == Restored(Saved(windows[i], then), now)
                    IN  /\ Len(back) = Len(worth)
                        /\ \A w \in DOMAIN back :
                             back[w].tabs = IF now THEN worth[w] ELSE Append(worth[w], Plain)
  BY DEF RoundTrip
<1> DEFINE all == [w \in DOMAIN windows[i] |-> windows[i][w].tabs]
           pinned == [w \in DOMAIN all |-> SubSeq(all[w], 1, Cardinality(IdsIn(all[w])))]
           y == IF then /\ now THEN all ELSE pinned
           back == Restored(Saved(windows[i], then), now)
<1>1. OpenWindows(windows[i])
  BY DEF ListsTidy
<1>2. TidyList(all)
  BY <1>1, TabsOfWindows
<1>3. Saved(windows[i], then) = Returning(all, then)
  BY DEF Saved
<1> HIDE DEF all
<1>4. Len(all) \in Nat /\ DOMAIN all = 1 .. Len(all) /\ \A w \in 1 .. Len(all) : all[w] \in Tidy
  BY <1>2, TidyListFacts
<1>5. \A w \in 1 .. Len(all) : y[w] = Coming(all[w], then /\ now)
  BY <1>4 DEF Coming
<1>6. y = [w \in 1 .. Len(all) |-> y[w]]
  <2>1. CASE then /\ now
    <3>1. y = all
      BY <2>1
    <3>2. all \in [1 .. Len(all) -> SavedWindow]
      BY <1>2, LenProperties DEF TidyList
    <3> QED
      BY <3>1, <3>2
  <2>2. CASE ~(then /\ now)
    BY <1>4, <2>2
  <2> QED
    BY <2>1, <2>2
<1> HIDE DEF y
<1>7. \A w \in 1 .. Len(all) : y[w] \in Tidy /\ y[w] \in SavedWindow
  <2> SUFFICES ASSUME NEW w \in 1 .. Len(all) PROVE y[w] \in Tidy /\ y[w] \in SavedWindow
    OBVIOUS
  <2>1. all[w] \in Tidy /\ (then /\ now) \in BOOLEAN /\ y[w] = Coming(all[w], then /\ now)
    BY <1>4, <1>5
  <2>2. y[w] \in Tidy
    BY <2>1, OnlyComing
  <2> QED
    BY <2>2, TidyFacts DEF SavedWindow
<1>8. y \in [1 .. Len(all) -> SavedWindow]
  BY <1>6, <1>7
<1>9. y \in Seq(SavedWindow) /\ Len(y) = Len(all)
  BY <1>4, <1>8, ListOf
<1>10. TidyList(y)
  BY <1>7, <1>9 DEF TidyList
<1>11. Returning(Returning(all, then), now) = Nonempty(y)
  BY <1>2, <1>5, <1>9, <1>10, ReturningTwice
<1> DEFINE a == Returning(all, then)
<1>12. TidyList(a)
  BY <1>2, ReturningDraws
<1>13. back = Restored(a, now)
  BY <1>3
<1>14. Returning(a, now) = Nonempty(y)
  BY <1>11
<1> HIDE DEF a, back
<1>15. /\ OpenWindows(back) /\ Len(back) = Len(Nonempty(y))
       /\ \A w \in 1 .. Len(back) :
             back[w].tabs = IF now THEN Nonempty(y)[w] ELSE Append(Nonempty(y)[w], Plain)
  BY <1>12, <1>13, <1>14, RestoredFacts
<1>16. DOMAIN back = 1 .. Len(back)
  BY <1>15, WindowFacts
<1> QED
  BY <1>15, <1>16 DEF all, y, back

(* Some of the tabs of a window in their order are tidy.                   *)
LEMMA TidyPart ==
    ASSUME NEW tabs \in Tidy, NEW r \in Seq(Tab), NEW e, Rises(e, Len(r), Len(tabs)),
           \A i \in 1 .. Len(r) : r[i] = tabs[e[i]]
    PROVE  r \in Tidy /\ IdsIn(r) \subseteq IdsIn(tabs)
<1> DEFINE m == Len(r)
           n == Len(tabs)
<1>1. /\ tabs \in Seq(Tab)
      /\ \A j, k \in 1 .. n : tabs[j] = tabs[k] /\ tabs[j] # Plain => j = k
      /\ \A j, k \in 1 .. n : j <= k /\ tabs[k] # Plain => tabs[j] # Plain
  BY TidyFacts, PinnedBefore
<1>2. m \in Nat /\ n \in Nat
  BY <1>1, TabsFacts
<1>3. /\ \A i \in 1 .. m : e[i] \in 1 .. n /\ r[i] = tabs[e[i]]
      /\ \A i, j \in 1 .. m : i < j => e[i] < e[j]
  BY DEF Rises
<1> HIDE DEF m, n
<1>4. ASSUME NEW k \in 2 .. m, r[k] # Plain PROVE r[k - 1] # Plain
  <2>1. k \in 1 .. m /\ k - 1 \in 1 .. m /\ k - 1 < k
    BY <1>2
  <2>2. e[k - 1] < e[k] /\ e[k - 1] \in 1 .. n /\ e[k] \in 1 .. n /\ tabs[e[k]] # Plain
    BY <1>3, <1>4, <2>1
  <2>3. e[k - 1] <= e[k]
    BY <1>2, <2>2
  <2> QED
    BY <1>1, <1>3, <2>1, <2>2, <2>3
<1>5. ASSUME NEW j \in 1 .. m, NEW k \in 1 .. m, r[j] = r[k], r[j] # Plain PROVE j = k
  <2>1. e[j] = e[k]
    BY <1>1, <1>3, <1>5
  <2>2. ~(j < k) /\ ~(k < j)
    BY <1>2, <1>3, <2>1
  <2> QED
    BY <1>2, <2>2
<1>6. r \in Tidy
  BY <1>4, <1>5 DEF Tidy, PinnedFirst, m
<1>7. \A x : x \in IdsIn(r) <=> x # Plain /\ \E k \in 1 .. m : r[k] = x
  BY TabsFacts DEF m
<1>8. \A x : x \in IdsIn(tabs) <=> x # Plain /\ \E k \in 1 .. n : tabs[k] = x
  BY <1>1, TabsFacts DEF n
<1>9. IdsIn(r) \subseteq IdsIn(tabs)
  BY <1>3, <1>7, <1>8
<1> QED
  BY <1>6, <1>9

LEMMA TidyOnly ==
    ASSUME NEW tabs \in Tidy, NEW set, NEW r, r = Only(tabs, set)
    PROVE  /\ r \in Tidy /\ IdsIn(r) \subseteq IdsIn(tabs)
           /\ \A x \in IdsIn(tabs) : x \in set => x \in IdsIn(r)
<1>1. tabs \in Seq(Tab)
  BY TidyFacts
<1>2. r \in Seq(Tab) /\ \E e : Draws(tabs, set, Len(tabs), r, e)
  BY <1>1, OnlyDraws
<1>3. PICK e : Draws(tabs, set, Len(tabs), r, e)
  BY <1>2
<1>4. /\ Rises(e, Len(r), Len(tabs))
      /\ \A i \in 1 .. Len(r) : r[i] = tabs[e[i]]
      /\ \A k \in 1 .. Len(tabs) : tabs[k] \in set => \E i \in 1 .. Len(r) : e[i] = k
  BY <1>3 DEF Draws, Rises
<1>5. r \in Tidy /\ IdsIn(r) \subseteq IdsIn(tabs)
  BY <1>2, <1>4, TidyPart
<1>6. ASSUME NEW x \in IdsIn(tabs), x \in set PROVE x \in IdsIn(r)
  <2>1. PICK k \in 1 .. Len(tabs) : tabs[k] = x
    BY <1>1, TabsFacts
  <2>2. x # Plain
    BY <1>1, TabsFacts
  <2>3. PICK l \in 1 .. Len(r) : e[l] = k
    BY <1>4, <1>6, <2>1
  <2>4. r[l] = x
    BY <1>4, <2>1, <2>3
  <2> QED
    BY <1>2, <2>2, <2>4, TabsFacts
<1> QED
  BY <1>5, <1>6

LEMMA TidyRemove ==
    ASSUME NEW tabs \in Tidy, NEW k \in 1 .. Len(tabs), NEW r, r = RemoveAt(tabs, k)
    PROVE  /\ r \in Tidy /\ IdsIn(r) \subseteq IdsIn(tabs)
           /\ IdsIn(tabs) \ {tabs[k]} \subseteq IdsIn(r)
<1> DEFINE n == Len(tabs)
           e == [j \in 1 .. n - 1 |-> IF j < k THEN j ELSE j + 1]
<1>1. tabs \in Seq(Tab) /\ n \in Nat
  BY TidyFacts, TabsFacts
<1>2. r \in Seq(Tab) /\ Len(r) = n - 1 /\ \A j \in 1 .. n - 1 : r[j] = tabs[IF j < k THEN j ELSE j + 1]
  BY <1>1, RemoveAtProperties
<1> HIDE DEF n
<1>3. \A j \in 1 .. n - 1 : e[j] \in 1 .. n /\ r[j] = tabs[e[j]]
  BY <1>1, <1>2 DEF n
<1>4. Rises(e, n - 1, n)
  <2>1. e \in [1 .. n - 1 -> 1 .. n]
    BY <1>3
  <2>2. \A i, j \in 1 .. n - 1 : i < j => e[i] < e[j]
    BY <1>1
  <2> QED
    BY <2>1, <2>2 DEF Rises
<1>5. ASSUME NEW l \in 1 .. n, l # k PROVE \E j \in 1 .. n - 1 : e[j] = l
  <2> DEFINE j == IF l < k THEN l ELSE l - 1
  <2>1. j \in 1 .. n - 1 /\ (IF j < k THEN j ELSE j + 1) = l
    BY <1>1, <1>5 DEF n
  <2> QED
    BY <2>1
<1> HIDE DEF e
<1>6. r \in Tidy /\ IdsIn(r) \subseteq IdsIn(tabs)
  BY <1>2, <1>3, <1>4, TidyPart DEF n
<1>7. ASSUME NEW x \in IdsIn(tabs), x # tabs[k] PROVE x \in IdsIn(r)
  <2>1. PICK l \in 1 .. n : tabs[l] = x
    BY <1>1, TabsFacts DEF n
  <2>2. x # Plain
    BY <1>1, TabsFacts
  <2>3. PICK j \in 1 .. n - 1 : e[j] = l
    BY <1>5, <1>7, <2>1
  <2>4. j \in 1 .. Len(r) /\ r[j] = x
    BY <1>2, <1>3, <2>1, <2>3
  <2> QED
    BY <1>2, <2>2, <2>4, TabsFacts
<1> QED
  BY <1>6, <1>7

(* The first plain tab gets pinned.                                        *)
LEMMA TidyPin ==
    ASSUME NEW tabs \in Tidy, NEW id \in Pinnable, id \notin IdsIn(tabs), Plain \in ToSet(tabs),
           NEW r, r = ReplaceAt(tabs, Cardinality(IdsIn(tabs)) + 1, id)
    PROVE  r \in Tidy /\ IdsIn(r) = IdsIn(tabs) \cup {id}
<1> DEFINE n == Len(tabs)
           p == Cardinality(IdsIn(tabs))
           q == p + 1
<1>1. /\ tabs \in Seq(Tab) /\ n \in Nat /\ DOMAIN tabs = 1 .. n
      /\ \A x : x \in IdsIn(tabs) <=> x # Plain /\ \E k \in 1 .. n : tabs[k] = x
      /\ \A j, k \in 1 .. n : tabs[j] = tabs[k] /\ tabs[j] # Plain => j = k
  BY TidyFacts, TabsFacts
<1>2. p \in 0 .. n /\ \A k \in 1 .. n : tabs[k] # Plain <=> k <= p
  BY PinnedPrefix
<1>3. r = [tabs EXCEPT ![q] = id]
  BY DEF ReplaceAt
<1>4. id \in Tab /\ id # Plain
  BY PlainTab DEF Tab
<1>5. PICK l \in 1 .. n : tabs[l] = Plain
  BY <1>1 DEF ToSet
<1> HIDE DEF n, p
<1>6. p \in Nat /\ q \in 1 .. n /\ tabs[q] = Plain
  <2>1. ~(l <= p)
    BY <1>2, <1>5
  <2>2. p \in Nat /\ q \in 1 .. n /\ ~(q <= p)
    BY <1>1, <1>2, <2>1
  <2> QED
    BY <1>2, <2>2
<1> HIDE DEF q
<1>7. r \in Seq(Tab) /\ Len(r) = n /\ \A k \in 1 .. n : r[k] = IF k = q THEN id ELSE tabs[k]
  BY <1>1, <1>3, <1>4, <1>6, ExceptSeq DEF n
<1>8. ASSUME NEW k \in 2 .. n, r[k] # Plain PROVE r[k - 1] # Plain
  <2>1. k \in 1 .. n /\ k - 1 \in 1 .. n
    BY <1>1
  <2>2. k = q \/ k <= p
    BY <1>2, <1>7, <1>8, <2>1
  <2>3. k - 1 <= p
    BY <1>6, <2>1, <2>2 DEF q
  <2>4. tabs[k - 1] # Plain
    BY <1>2, <2>1, <2>3
  <2> QED
    BY <1>4, <1>7, <2>1, <2>4
<1>9. ASSUME NEW k \in 1 .. n, k # q PROVE r[k] = tabs[k] /\ tabs[k] # id
  BY <1>1, <1>4, <1>7, <1>9
<1>10. r[q] = id
  BY <1>6, <1>7
<1>11. ASSUME NEW j \in 1 .. n, NEW k \in 1 .. n, r[j] = r[k], r[j] # Plain PROVE j = k
  <2>1. CASE j = q \/ k = q
    BY <1>9, <1>10, <1>11, <2>1
  <2>2. CASE j # q /\ k # q
    BY <1>1, <1>9, <1>11, <2>2
  <2> QED
    BY <2>1, <2>2
<1>12. r \in Tidy
  BY <1>7, <1>8, <1>11 DEF Tidy, PinnedFirst
<1>13. \A x : x \in IdsIn(r) <=> x # Plain /\ \E k \in 1 .. n : r[k] = x
  BY <1>7, TabsFacts
<1>14. ASSUME NEW x PROVE x \in IdsIn(r) <=> x \in IdsIn(tabs) \cup {id}
  <2>1. ASSUME x \in IdsIn(r) PROVE x \in IdsIn(tabs) \cup {id}
    <3>1. PICK k \in 1 .. n : r[k] = x
      BY <1>13, <2>1
    <3>2. CASE k = q
      BY <1>10, <3>1, <3>2
    <3>3. CASE k # q
      BY <1>1, <1>9, <1>13, <2>1, <3>1, <3>3
    <3> QED
      BY <3>2, <3>3
  <2>2. ASSUME x \in IdsIn(tabs) PROVE x \in IdsIn(r)
    <3>1. PICK k \in 1 .. n : tabs[k] = x
      BY <1>1, <2>2
    <3>2. x # Plain
      BY <1>1, <2>2
    <3>3. k # q
      BY <1>6, <3>1, <3>2
    <3> QED
      BY <1>9, <1>13, <3>1, <3>2, <3>3
  <2>3. id \in IdsIn(r)
    BY <1>4, <1>6, <1>10, <1>13
  <2> QED
    BY <2>1, <2>2, <2>3
<1> QED
  BY <1>12, <1>14

-----------------------------------------------------------------------------
(* Steps in a window *)

LEMMA TypeFacts ==
    ASSUME Orderly
    PROVE  /\ Stored(file)
           /\ restore_session \in BOOLEAN /\ excused \in BOOLEAN
           /\ phase \in [Instances -> {"off", "started", "running"}]
           /\ session \in [Instances -> {NoSession} \cup Seq(SavedWindow)]
           /\ has_restored_session \in [Instances -> BOOLEAN]
           /\ windows \in [Instances -> Seq(Window)]
           /\ preferences \in [Instances -> BOOLEAN]
           /\ writes \in [Instances -> Seq(Seq(SavedWindow))]
           /\ kept \subseteq Pinnable
           /\ \A i \in Instances : OpenWindows(windows[i])
           /\ \A i \in Instances : DOMAIN windows[i] = 1 .. Len(windows[i])
<1>1. \A i \in Instances : OpenWindows(windows[i])
  BY DEF Orderly, ListsTidy
<1>2. \A i \in Instances : DOMAIN windows[i] = 1 .. Len(windows[i])
  BY <1>1, WindowFacts
<1>3. SessionTypeOK /\ ListsTidy
  BY DEF Orderly
<1>4. Stored(file)
  BY <1>3 DEF ListsTidy
<1> QED
  BY <1>1, <1>2, <1>3, <1>4 DEF SessionTypeOK

LEMMA WindowHere ==
    ASSUME Orderly, NEW i \in Instances, NEW w \in DOMAIN windows[i]
    PROVE  /\ OpenWindows(windows[i]) /\ w \in 1 .. Len(windows[i]) /\ windows[i] # << >>
           /\ windows[i][w] \in Window /\ windows[i][w].tabs \in Tidy
           /\ windows[i][w].single => IdsIn(windows[i][w].tabs) = {}
           /\ \A x : x \in Shown(windows[i]) <=>
                 \E j \in 1 .. Len(windows[i]) : x \in IdsIn(windows[i][j].tabs)
<1>1. OpenWindows(windows[i]) /\ w \in 1 .. Len(windows[i])
  BY TypeFacts
<1>2. /\ Len(windows[i]) \in Nat
      /\ windows[i][w] \in Window /\ windows[i][w].tabs \in Tidy
      /\ windows[i][w].single => IdsIn(windows[i][w].tabs) = {}
      /\ \A x : x \in Shown(windows[i]) <=>
            \E j \in 1 .. Len(windows[i]) : x \in IdsIn(windows[i][j].tabs)
  BY <1>1, WindowFacts
<1>3. windows[i] # << >>
  BY <1>1, <1>2, WindowFacts
<1> QED
  BY <1>1, <1>2, <1>3

(* The windows us are saved, and cover what stays.                         *)
LEMMA SaveFacts ==
    ASSUME Orderly, NEW i \in Instances, NEW us, OpenWindows(us), Save(i, us)
    PROVE  \E q : /\ writes' = [writes EXCEPT ![i] = q]
                  /\ q \in Seq(Seq(SavedWindow)) /\ \A n \in 1 .. Len(q) : TidyList(q[n])
                  /\ Recorded(LastSaved(file, q)) = Shown(us)
<1> DEFINE s == Saved(us, restore_session)
           p == writes[i]
           q == Append(p, s)
<1>1. p \in Seq(Seq(SavedWindow)) /\ restore_session \in BOOLEAN
  BY TypeFacts
<1>2. \A n \in 1 .. Len(p) : TidyList(p[n])
  BY DEF Orderly, ListsTidy
<1>3. TidyList(s) /\ Recorded(s) = Shown(us)
  BY <1>1, SavedFacts
<1>4. s \in Seq(SavedWindow)
  BY <1>3 DEF TidyList
<1>5. writes' = [writes EXCEPT ![i] = q]
  BY DEF Save
<1> HIDE DEF s, p
<1>6. /\ q \in Seq(Seq(SavedWindow)) /\ q # << >> /\ Len(q) = Len(p) + 1
      /\ \A n \in 1 .. Len(p) : q[n] = p[n]
      /\ q[Len(p) + 1] = s
  BY <1>1, <1>4, AppendProperties
<1> HIDE DEF q
<1>7. Len(p) \in Nat
  BY <1>1, LenProperties
<1>8. \A n \in 1 .. Len(q) : TidyList(q[n])
  <2>1. \A n \in 1 .. Len(q) : n \in 1 .. Len(p) \/ n = Len(p) + 1
    BY <1>6, <1>7
  <2> QED
    BY <1>2, <1>3, <1>6, <2>1
<1>9. LastSaved(file, q) = s
  BY <1>6 DEF LastSaved
<1> QED
  BY <1>3, <1>5, <1>6, <1>8, <1>9

LEMMA OneMoreFacts ==
    ASSUME NEW ws, OpenWindows(ws), NEW vs, vs = OneMore(ws)
    PROVE  OpenWindows(vs) /\ vs # << >> /\ Shown(vs) = Shown(ws) /\ AsksAsBefore(vs, ws)
<1> DEFINE v == WindowOf(<< Plain >>)
<1>1. v \in Window /\ v.tabs \in Tidy /\ IdsIn(v.tabs) = {} /\ v.asking = "no"
  BY TidyPlain, NewWindowFacts
<1>2. vs = Append(ws, v)
  BY DEF OneMore
<1> HIDE DEF v
<1> QED
  BY <1>1, <1>2, OneMoreWindow

(* ---- What the steps of a window do to the windows ------------------------ *)

(* The windows of i become vs, in which all kept tabs stay that were shown.  *)
KeepsIn(i, vs) ==
    /\ OpenWindows(vs) /\ vs # << >> /\ AsksAsBefore(vs, windows[i])
    /\ windows' = [windows EXCEPT ![i] = vs] /\ UNCHANGED writes /\ KeepsTheRest(i)
    /\ kept' \subseteq Pinnable
    /\ kept \subseteq Shown(windows[i]) => kept' \subseteq Shown(vs)

LEMMA NewWindowKeeps ==
    ASSUME Orderly, NEW i \in Instances, NEW w \in DOMAIN windows[i], NewWindow(i, w)
    PROVE  \E vs : KeepsIn(i, vs)
<1> DEFINE vs == OneMore(windows[i])
<1>1. OpenWindows(windows[i])
  BY WindowHere
<1>2. windows' = [windows EXCEPT ![i] = vs] /\ UNCHANGED writes /\ kept' = kept /\ KeepsTheRest(i)
  BY DEF NewWindow
<1>3. OpenWindows(vs) /\ vs # << >> /\ Shown(vs) = Shown(windows[i]) /\ AsksAsBefore(vs, windows[i])
  BY <1>1, OneMoreFacts
<1> HIDE DEF vs
<1>4. kept' \subseteq Pinnable
  BY <1>2, TypeFacts
<1>5. KeepsIn(i, vs)
  BY <1>2, <1>3, <1>4 DEF KeepsIn
<1> QED
  BY <1>5

(* The windows ws with the tabs t in w.                                    *)
WithTabs(ws, w, t, vs) ==
    /\ OpenWindows(vs) /\ vs # << >> /\ Len(vs) = Len(ws)
    /\ vs[w].tabs = t /\ vs[w].asking = ws[w].asking
    /\ \A j \in 1 .. Len(ws) : j # w => vs[j] = ws[j]
    /\ \A x : x \in Shown(vs) <=>
          x \in IdsIn(t) \/ \E j \in 1 .. Len(ws) : j # w /\ x \in IdsIn(ws[j].tabs)

LEMMA ChangeTabs ==
    ASSUME NEW ws, OpenWindows(ws), NEW w \in 1 .. Len(ws), NEW t \in Tidy,
           ws[w].single => IdsIn(t) = {},
           NEW vs, vs = [ws EXCEPT ![w] = [ws[w] EXCEPT !.tabs = t]]
    PROVE  /\ WithTabs(ws, w, t, vs)
           /\ IdsIn(t) \subseteq IdsIn(ws[w].tabs) \/ ws[w].asking # "saved" => AsksAsBefore(vs, ws)
<1> DEFINE v == [ws[w] EXCEPT !.tabs = t]
<1>1. ws[w] \in Window
  BY WindowFacts
<1>2. v \in Window /\ v.tabs = t /\ v.single = ws[w].single /\ v.asking = ws[w].asking
  BY <1>1, OtherTabs
<1>3. vs = [ws EXCEPT ![w] = v]
  OBVIOUS
<1> HIDE DEF v
<1>4. FitWindow(v)
  BY <1>2 DEF FitWindow
<1>5. /\ WithWindow(ws, w, v, vs)
      /\ v.asking # "saved" => AsksAsBefore(vs, ws)
      /\ ws[w].asking = v.asking /\ IdsIn(v.tabs) \subseteq IdsIn(ws[w].tabs) => AsksAsBefore(vs, ws)
  BY <1>3, <1>4, OneWindow
<1>6. WithTabs(ws, w, t, vs)
  BY <1>2, <1>5 DEF WithWindow, WithTabs
<1> QED
  BY <1>2, <1>5, <1>6

LEMMA NewTabKeeps ==
    ASSUME Orderly, NEW i \in Instances, NEW w \in DOMAIN windows[i], NewTab(i, w)
    PROVE  \E vs : KeepsIn(i, vs)
<1> DEFINE ws == windows[i]
           t == Append(ws[w].tabs, Plain)
           vs == [ws EXCEPT ![w] = [ws[w] EXCEPT !.tabs = t]]
<1>1. /\ OpenWindows(ws) /\ w \in 1 .. Len(ws) /\ ws # << >>
      /\ ws[w].tabs \in Tidy
      /\ ws[w].single => IdsIn(ws[w].tabs) = {}
      /\ \A x : x \in Shown(ws) <=> \E j \in 1 .. Len(ws) : x \in IdsIn(ws[j].tabs)
  BY WindowHere
<1>2. windows' = [windows EXCEPT ![i] = vs] /\ UNCHANGED writes /\ kept' = kept /\ KeepsTheRest(i)
  BY DEF NewTab
<1>3. t \in Tidy /\ IdsIn(t) = IdsIn(ws[w].tabs)
  BY <1>1, TidyAppend
<1> HIDE DEF t, ws
<1>4. WithTabs(ws, w, t, vs) /\ AsksAsBefore(vs, ws)
  BY <1>1, <1>3, ChangeTabs
<1> HIDE DEF vs
<1>5. OpenWindows(vs) /\ vs # << >> /\ Shown(ws) \subseteq Shown(vs)
  BY <1>1, <1>3, <1>4 DEF WithTabs
<1>6. kept' \subseteq Pinnable
  BY <1>2, TypeFacts
<1>7. KeepsIn(i, vs)
  BY <1>2, <1>4, <1>5, <1>6 DEF KeepsIn, ws
<1> QED
  BY <1>7

LEMMA PinKeeps ==
    ASSUME Orderly, NEW i \in Instances, NEW w \in DOMAIN windows[i], Pin(i, w)
    PROVE  \E vs : KeepsIn(i, vs)
<1> DEFINE ws == windows[i]
<1>1. PICK id \in Unused :
         /\ Plain \in ToSet(windows[i][w].tabs)
         /\ windows' = [windows EXCEPT ![i][w].tabs =
                           ReplaceAt(windows[i][w].tabs, Cardinality(IdsIn(windows[i][w].tabs)) + 1, id)]
         /\ kept' = kept \cup {id}
  BY DEF Pin
<1>2. UNCHANGED writes /\ KeepsTheRest(i) /\ ws[w].asking = "no" /\ ~ws[w].single
  BY DEF Pin
<1> DEFINE t == ReplaceAt(ws[w].tabs, Cardinality(IdsIn(ws[w].tabs)) + 1, id)
           vs == [ws EXCEPT ![w] = [ws[w] EXCEPT !.tabs = t]]
<1>3. /\ OpenWindows(ws) /\ w \in 1 .. Len(ws) /\ ws # << >>
      /\ ws[w].tabs \in Tidy
      /\ \A x : x \in Shown(ws) <=> \E j \in 1 .. Len(ws) : x \in IdsIn(ws[j].tabs)
  BY WindowHere
<1>4. id \in Pinnable /\ id \notin Shown(ws)
  <2>1. id \in Pinnable
    BY DEF Unused
  <2>2. id \notin UNION {Shown(windows[j]) \cup Recorded(session[j]) : j \in Instances}
    BY DEF Unused
  <2>3. id \notin Shown(windows[i]) \cup Recorded(session[i])
    BY <2>2
  <2> QED
    BY <2>1, <2>3
<1>5. windows' = [windows EXCEPT ![i] = vs]
  BY <1>1
<1>6. Plain \in ToSet(ws[w].tabs)
  BY <1>1
<1> HIDE DEF ws
<1>7. t \in Tidy /\ IdsIn(t) = IdsIn(ws[w].tabs) \cup {id}
  BY <1>3, <1>4, <1>6, TidyPin
<1> HIDE DEF t
<1>8. WithTabs(ws, w, t, vs) /\ AsksAsBefore(vs, ws)
  BY <1>2, <1>3, <1>7, ChangeTabs
<1> HIDE DEF vs
<1>9. OpenWindows(vs) /\ vs # << >> /\ Shown(ws) \cup {id} \subseteq Shown(vs)
  BY <1>3, <1>7, <1>8 DEF WithTabs
<1>10. kept' \subseteq Pinnable
  BY <1>1, <1>4, TypeFacts
<1>11. kept \subseteq Shown(ws) => kept' \subseteq Shown(vs)
  BY <1>1, <1>3, <1>9
<1>12. KeepsIn(i, vs)
  BY <1>2, <1>5, <1>8, <1>9, <1>10, <1>11 DEF KeepsIn, ws
<1> QED
  BY <1>12

LEMMA UnpinKeeps ==
    ASSUME Orderly, NEW i \in Instances, NEW w \in DOMAIN windows[i], Unpin(i, w)
    PROVE  \E vs : KeepsIn(i, vs)
<1> DEFINE ws == windows[i]
<1>1. PICK id \in IdsIn(windows[i][w].tabs) :
         /\ windows' = [windows EXCEPT ![i][w].tabs = Append(Only(@, Tab \ {id}), Plain)]
         /\ kept' = kept \ {id}
  BY DEF Unpin, Forgets
<1>2. UNCHANGED writes /\ KeepsTheRest(i)
  BY DEF Unpin, Forgets
<1> DEFINE o == Only(ws[w].tabs, Tab \ {id})
           t == Append(o, Plain)
           vs == [ws EXCEPT ![w] = [ws[w] EXCEPT !.tabs = t]]
<1>3. /\ OpenWindows(ws) /\ w \in 1 .. Len(ws) /\ ws # << >>
      /\ ws[w].tabs \in Tidy
      /\ ws[w].single => IdsIn(ws[w].tabs) = {}
      /\ \A x : x \in Shown(ws) <=> \E j \in 1 .. Len(ws) : x \in IdsIn(ws[j].tabs)
  BY WindowHere
<1>5. windows' = [windows EXCEPT ![i] = vs]
  BY <1>1
<1> HIDE DEF ws
<1>6. /\ o \in Tidy /\ IdsIn(o) \subseteq IdsIn(ws[w].tabs)
      /\ \A x \in IdsIn(ws[w].tabs) : x \in Tab \ {id} => x \in IdsIn(o)
  BY <1>3, TidyOnly
<1> HIDE DEF o
<1>7. t \in Tidy /\ IdsIn(t) = IdsIn(o)
  BY <1>6, TidyAppend
<1> HIDE DEF t
<1>8. WithTabs(ws, w, t, vs) /\ AsksAsBefore(vs, ws)
  <2>1. ws[w].single => IdsIn(t) = {}
    BY <1>3, <1>6, <1>7
  <2> QED
    BY <1>3, <1>6, <1>7, <2>1, ChangeTabs
<1> HIDE DEF vs
<1>9. OpenWindows(vs) /\ vs # << >>
  BY <1>8 DEF WithTabs
<1>10. kept' \subseteq Pinnable /\ \A x \in kept : x \in Tab
  BY <1>1, TypeFacts DEF Tab
<1>11. ASSUME kept \subseteq Shown(ws), NEW x \in kept, x # id PROVE x \in Shown(vs)
  <2>1. PICK j \in 1 .. Len(ws) : x \in IdsIn(ws[j].tabs)
    BY <1>3, <1>11
  <2>2. CASE j = w
    BY <1>6, <1>7, <1>8, <1>10, <1>11, <2>1, <2>2 DEF WithTabs
  <2>3. CASE j # w
    BY <1>8, <2>1, <2>3 DEF WithTabs
  <2> QED
    BY <2>2, <2>3
<1>12. kept \subseteq Shown(ws) => kept' \subseteq Shown(vs)
  BY <1>1, <1>11
<1>13. KeepsIn(i, vs)
  BY <1>2, <1>5, <1>8, <1>9, <1>10, <1>12 DEF KeepsIn, ws
<1> QED
  BY <1>13

(* The windows left, of which the empty one may go, leave vs; they are saved   *)
(* or not.                                                                 *)
LeavesIn(i, left, vs) ==
    /\ OpenWindows(left) /\ OpenWindows(vs) /\ AsksAsBefore(vs, windows[i])
    /\ Shown(vs) = Shown(left)
    /\ windows' = [windows EXCEPT ![i] = vs] /\ KeepsTheRest(i)
    /\ Save(i, left) \/ UNCHANGED writes
    /\ kept' \subseteq Pinnable
    /\ kept \subseteq Shown(windows[i]) => kept' \subseteq Shown(left)

LEMMA TabGoneLeaves ==
    ASSUME Orderly, NEW i \in Instances, NEW w \in DOMAIN windows[i], TabGone(i, w)
    PROVE  \E left, vs : LeavesIn(i, left, vs)
<1> DEFINE ws == windows[i]
<1>1. PICK k \in DOMAIN windows[i][w].tabs :
         LET left == [windows[i] EXCEPT ![w].tabs = RemoveAt(@, k)]
             last == left[w].tabs = <<>>
         IN  /\ windows' = [windows EXCEPT ![i] = IF last THEN RemoveAt(left, w) ELSE left]
             /\ IF last /\ left[w].asking = "no" THEN Save(i, left) ELSE UNCHANGED writes
             /\ kept' = kept \ {windows[i][w].tabs[k]}
             /\ KeepsTheRest(i)
  BY DEF TabGone, Forgets
<1> DEFINE t == RemoveAt(ws[w].tabs, k)
           left == [ws EXCEPT ![w] = [ws[w] EXCEPT !.tabs = t]]
           last == left[w].tabs = <<>>
           vs == IF last THEN RemoveAt(left, w) ELSE left
<1>2. /\ windows' = [windows EXCEPT ![i] = vs]
      /\ IF last /\ left[w].asking = "no" THEN Save(i, left) ELSE UNCHANGED writes
      /\ kept' = kept \ {ws[w].tabs[k]}
      /\ KeepsTheRest(i)
  BY <1>1
<1>3. /\ OpenWindows(ws) /\ w \in 1 .. Len(ws) /\ ws # << >>
      /\ ws[w].tabs \in Tidy
      /\ ws[w].single => IdsIn(ws[w].tabs) = {}
      /\ \A x : x \in Shown(ws) <=> \E j \in 1 .. Len(ws) : x \in IdsIn(ws[j].tabs)
  BY WindowHere
<1>4. k \in 1 .. Len(ws[w].tabs)
  <2>1. k \in DOMAIN ws[w].tabs
    OBVIOUS
  <2> HIDE DEF ws
  <2> QED
    BY <1>3, <2>1, TidyFacts, TabsFacts
<1> HIDE DEF ws
<1>5. /\ t \in Tidy /\ IdsIn(t) \subseteq IdsIn(ws[w].tabs)
      /\ IdsIn(ws[w].tabs) \ {ws[w].tabs[k]} \subseteq IdsIn(t)
  BY <1>3, <1>4, TidyRemove
<1> HIDE DEF t
<1>6. WithTabs(ws, w, t, left) /\ AsksAsBefore(left, ws)
  <2>1. ws[w].single => IdsIn(t) = {}
    BY <1>3, <1>5
  <2> QED
    BY <1>3, <1>5, <2>1, ChangeTabs
<1> HIDE DEF left
<1>7. /\ OpenWindows(left) /\ left # << >> /\ Len(left) = Len(ws)
      /\ left[w].tabs = t /\ left[w].asking = ws[w].asking
      /\ \A x : x \in Shown(left) <=>
            x \in IdsIn(t) \/ \E j \in 1 .. Len(ws) : j # w /\ x \in IdsIn(ws[j].tabs)
  BY <1>6 DEF WithTabs
<1>8. kept \subseteq Shown(ws) => kept' \subseteq Shown(left)
  <2> SUFFICES ASSUME kept \subseteq Shown(ws), NEW x \in kept, x # ws[w].tabs[k] PROVE x \in Shown(left)
    BY <1>2
  <2>1. PICK j \in 1 .. Len(ws) : x \in IdsIn(ws[j].tabs)
    BY <1>3
  <2>2. CASE j = w
    BY <1>5, <1>7, <2>1, <2>2
  <2>3. CASE j # w
    BY <1>7, <2>1, <2>3
  <2> QED
    BY <2>2, <2>3
<1>9. kept' \subseteq Pinnable
  BY <1>2, TypeFacts
<1>10. CASE ~last
  <2>1. vs = left /\ UNCHANGED writes
    BY <1>2, <1>10
  <2> HIDE DEF vs, last
  <2>2. LeavesIn(i, left, vs)
    BY <1>2, <1>6, <1>7, <1>8, <1>9, <2>1 DEF LeavesIn, ws
  <2> QED
    BY <2>2
<1>11. CASE last
  <2>1. vs = RemoveAt(left, w)
    BY <1>11
  <2>2. IdsIn(t) = {}
    BY <1>7, <1>11, TidyPlain
  <2>3. left[w].asking = "no" => Save(i, left)
    BY <1>2, <1>11
  <2>4. left[w].asking # "no" => UNCHANGED writes
    BY <1>2
  <2> HIDE DEF vs, last
  <2>5. /\ OpenWindows(vs) /\ Len(vs) = Len(left) - 1 /\ AsksAsBefore(vs, left)
        /\ \A x : x \in Shown(vs) <=> \E j \in 1 .. Len(left) : j # w /\ x \in IdsIn(left[j].tabs)
    BY <1>3, <1>7, <2>1, WithoutWindow
  <2>6. Shown(vs) = Shown(left)
    <3>1. \A x : x \in Shown(left) <=> \E j \in 1 .. Len(left) : x \in IdsIn(left[j].tabs)
      BY <1>7, WindowFacts
    <3>2. \A x : x \in Shown(vs) <=> x \in Shown(left)
      BY <1>3, <1>7, <2>2, <2>5, <3>1
    <3> QED
      BY <3>2
  <2>7. AsksAsBefore(vs, ws)
    <3> SUFFICES ASSUME NEW j \in 1 .. Len(vs), vs[j].asking = "saved"
                 PROVE  \E l \in 1 .. Len(ws) :
                           ws[l].asking = "saved" /\ IdsIn(vs[j].tabs) \subseteq IdsIn(ws[l].tabs)
      BY DEF AsksAsBefore
    <3>1. PICK l \in 1 .. Len(left) : left[l].asking = "saved" /\ IdsIn(vs[j].tabs) \subseteq IdsIn(left[l].tabs)
      BY <2>5 DEF AsksAsBefore
    <3>2. PICK h \in 1 .. Len(ws) : ws[h].asking = "saved" /\ IdsIn(left[l].tabs) \subseteq IdsIn(ws[h].tabs)
      BY <1>6, <3>1 DEF AsksAsBefore
    <3> QED
      BY <3>1, <3>2
  <2>8. Save(i, left) \/ UNCHANGED writes
    BY <2>3, <2>4
  <2>9. LeavesIn(i, left, vs)
    BY <1>2, <1>7, <1>8, <1>9, <2>5, <2>6, <2>7, <2>8 DEF LeavesIn, ws
  <2> QED
    BY <2>9
<1> QED
  BY <1>10, <1>11

(* What is left of a window that goes, and of the tabs that are kept.      *)
LEMMA LeavesOthers ==
    ASSUME Orderly, NEW i \in Instances, NEW w \in DOMAIN windows[i],
           NEW vs, vs = RemoveAt(windows[i], w), kept' = kept \ Forgotten(i, w)
    PROVE  /\ OpenWindows(vs) /\ AsksAsBefore(vs, windows[i]) /\ kept' \subseteq Pinnable
           /\ kept' \subseteq kept
           /\ \A x \in Shown(vs) : x \in Shown(windows[i])
           /\ vs # << >> /\ kept \subseteq Shown(windows[i]) => kept' \subseteq Shown(vs)
           /\ vs = << >> => Len(windows[i]) = 1 /\ w = 1
<1> DEFINE ws == windows[i]
<1>1. /\ OpenWindows(ws) /\ w \in 1 .. Len(ws)
      /\ \A x : x \in Shown(ws) <=> \E j \in 1 .. Len(ws) : x \in IdsIn(ws[j].tabs)
  BY WindowHere
<1>2. kept' \subseteq kept /\ kept' \subseteq Pinnable
  BY TypeFacts
<1>3. Len(ws) > 1 => kept' = kept \ IdsIn(ws[w].tabs)
  BY DEF Forgotten
<1>4. vs = RemoveAt(ws, w)
  OBVIOUS
<1> HIDE DEF ws
<1>5. /\ OpenWindows(vs) /\ Len(vs) = Len(ws) - 1
      /\ \A x : x \in Shown(vs) <=> \E j \in 1 .. Len(ws) : j # w /\ x \in IdsIn(ws[j].tabs)
      /\ AsksAsBefore(vs, ws)
  BY <1>1, <1>4, WithoutWindow
<1>6. Len(ws) \in Nat
  BY <1>1, WindowFacts
<1>7. vs = << >> => Len(vs) = 0
  BY EmptySeq
<1>8. vs # << >> => Len(vs) # 0
  BY <1>5, WindowFacts
<1>9. vs # << >> => Len(ws) > 1
  BY <1>1, <1>5, <1>6, <1>8
<1>10. ASSUME vs # << >>, kept \subseteq Shown(ws), NEW x \in kept' PROVE x \in Shown(vs)
  <2>1. x \in kept /\ x \notin IdsIn(ws[w].tabs)
    BY <1>3, <1>9, <1>10
  <2>2. PICK j \in 1 .. Len(ws) : x \in IdsIn(ws[j].tabs)
    BY <1>1, <1>10, <2>1
  <2> QED
    BY <1>5, <2>1, <2>2
<1>11. ASSUME vs = << >> PROVE Len(ws) = 1 /\ w = 1
  <2> DEFINE n == Len(ws)
  <2>1. n \in Nat /\ n - 1 = 0 /\ w \in 1 .. n
    BY <1>1, <1>5, <1>6, <1>7, <1>11
  <2> HIDE DEF n
  <2>2. n = 1 /\ w = 1
    BY ONLY <2>1
  <2> QED
    BY ONLY <2>2 DEF n
<1>12. \A x \in Shown(vs) : x \in Shown(ws)
  BY <1>1, <1>5
<1> QED
  BY <1>2, <1>5, <1>10, <1>11, <1>12 DEF ws

(* The windows of i become vs, one of which asks; all tabs that can be kept    *)
(* stay.                                                                   *)
AsksIn(i, w, vs) ==
    /\ OpenWindows(vs) /\ vs # << >> /\ Shown(vs) = Shown(windows[i])
    /\ ~RequestSaves(i, w) => AsksAsBefore(vs, windows[i])
    /\ windows' = [windows EXCEPT ![i] = vs] /\ SavesOnRequest(i, w) /\ KeepsTheRest(i)
    /\ kept' = kept /\ kept' \subseteq Pinnable

LEMMA AskToCloseAsks ==
    ASSUME Orderly, NEW i \in Instances, NEW w \in DOMAIN windows[i], AskToClose(i, w)
    PROVE  \E vs : AsksIn(i, w, vs)
<1> DEFINE ws == windows[i]
<1>1. PICK plain \in 0 .. Len(windows[i][w].tabs) :
         /\ plain \in Cardinality(IdsIn(windows[i][w].tabs)) .. Len(windows[i][w].tabs)
         /\ windows' = [windows EXCEPT ![i][w] =
               [@ EXCEPT !.tabs = SubSeq(windows[i][w].tabs, 1, plain),
                         !.asking = IF RequestSaves(i, w) THEN "saved" ELSE "unsaved"]]
  BY DEF AskToClose
<1>2. SavesOnRequest(i, w) /\ KeepsTheRest(i) /\ kept' = kept
  BY DEF AskToClose
<1> DEFINE a == IF RequestSaves(i, w) THEN "saved" ELSE "unsaved"
           t == SubSeq(ws[w].tabs, 1, plain)
           v == [ws[w] EXCEPT !.tabs = t, !.asking = a]
           vs == [ws EXCEPT ![w] = v]
<1>3. windows' = [windows EXCEPT ![i] = vs]
  BY <1>1
<1>4. /\ OpenWindows(ws) /\ w \in 1 .. Len(ws) /\ ws # << >>
      /\ ws[w] \in Window /\ ws[w].tabs \in Tidy
      /\ ws[w].single => IdsIn(ws[w].tabs) = {}
      /\ \A x : x \in Shown(ws) <=> \E j \in 1 .. Len(ws) : x \in IdsIn(ws[j].tabs)
  BY WindowHere
<1>5. a \in {"no", "saved", "unsaved"} /\ (a = "saved" <=> RequestSaves(i, w))
  OBVIOUS
<1>6. plain \in 0 .. Len(ws[w].tabs) /\ Cardinality(IdsIn(ws[w].tabs)) <= plain
  BY <1>1
<1> HIDE DEF ws, a
<1>7. t \in Tidy /\ IdsIn(t) = IdsIn(ws[w].tabs)
  <2> DEFINE p == Cardinality(IdsIn(ws[w].tabs))
  <2>1. t \in Tidy /\ Len(t) = plain /\ \A k \in 1 .. plain : k \in 1 .. Len(ws[w].tabs) /\ t[k] = ws[w].tabs[k]
    BY <1>4, <1>6, TidyPrefix
  <2>2. p \in 0 .. Len(ws[w].tabs) /\ \A k \in 1 .. Len(ws[w].tabs) : ws[w].tabs[k] # Plain <=> k <= p
    BY <1>4, PinnedPrefix
  <2>3. \A x : x \in IdsIn(ws[w].tabs) <=> x # Plain /\ \E k \in 1 .. Len(ws[w].tabs) : ws[w].tabs[k] = x
    BY <1>4, TidyFacts, TabsFacts
  <2>4. \A x : x \in IdsIn(t) <=> x # Plain /\ \E k \in 1 .. Len(t) : t[k] = x
    BY <2>1, TidyFacts, TabsFacts
  <2>5. p <= plain
    BY <1>6
  <2> HIDE DEF p, t
  <2>6. \A x \in IdsIn(t) : x \in IdsIn(ws[w].tabs)
    BY <2>1, <2>3, <2>4
  <2>7. ASSUME NEW x \in IdsIn(ws[w].tabs) PROVE x \in IdsIn(t)
    <3>1. PICK k \in 1 .. Len(ws[w].tabs) : ws[w].tabs[k] = x
      BY <2>3, <2>7
    <3>2. x # Plain
      BY <2>3, <2>7
    <3>3. k \in 1 .. plain
      BY <1>6, <2>2, <2>5, <3>1, <3>2
    <3> QED
      BY <2>1, <2>4, <3>1, <3>2, <3>3
  <2> QED
    BY <2>1, <2>6, <2>7
<1> HIDE DEF t
<1>8. v \in Window /\ v.tabs = t /\ v.single = ws[w].single /\ v.asking = a
  <2>1. t \in PinnedFirst
    BY <1>7, TidyFacts
  <2> QED
    BY <1>4, <1>5, <2>1 DEF Window
<1> HIDE DEF v
<1>9. FitWindow(v)
  BY <1>4, <1>7, <1>8 DEF FitWindow
<1>10. /\ WithWindow(ws, w, v, vs)
       /\ v.asking # "saved" => AsksAsBefore(vs, ws)
  BY <1>4, <1>9, OneWindow
<1> HIDE DEF vs
<1>11. OpenWindows(vs) /\ vs # << >>
  BY <1>10 DEF WithWindow
<1>12. Shown(vs) = Shown(ws)
  <2>1. \A x : x \in Shown(vs) <=>
           x \in IdsIn(v.tabs) \/ \E j \in 1 .. Len(ws) : j # w /\ x \in IdsIn(ws[j].tabs)
    BY <1>10 DEF WithWindow
  <2>2. \A x : x \in Shown(vs) <=> x \in Shown(ws)
    BY <1>4, <1>7, <1>8, <2>1
  <2> QED
    BY <2>2
<1>13. kept' \subseteq Pinnable
  BY <1>2, TypeFacts
<1>14. ~RequestSaves(i, w) => AsksAsBefore(vs, ws)
  BY <1>5, <1>8, <1>10
<1>15. AsksIn(i, w, vs)
  BY <1>2, <1>3, <1>11, <1>12, <1>13, <1>14 DEF AsksIn, ws
<1> QED
  BY <1>15

(* The user does not close the window after all.                           *)
LEMMA CancelKeeps ==
    ASSUME Orderly, NEW i \in Instances, NEW w \in DOMAIN windows[i], CloseAnswered(i, w),
           windows' = [windows EXCEPT ![i][w].asking = "no"], UNCHANGED <<kept, excused>>
    PROVE  \E vs : KeepsIn(i, vs)
<1> DEFINE ws == windows[i]
           v == [ws[w] EXCEPT !.asking = "no"]
           vs == [ws EXCEPT ![w] = v]
<1>1. /\ OpenWindows(ws) /\ w \in 1 .. Len(ws)
      /\ ws[w] \in Window /\ ws[w].tabs \in Tidy
      /\ ws[w].single => IdsIn(ws[w].tabs) = {}
      /\ \A x : x \in Shown(ws) <=> \E j \in 1 .. Len(ws) : x \in IdsIn(ws[j].tabs)
  BY WindowHere
<1>2. windows' = [windows EXCEPT ![i] = vs]
  OBVIOUS
<1>3. UNCHANGED writes /\ KeepsTheRest(i) /\ kept' = kept
  BY DEF CloseAnswered, KeepsTheRest
<1> HIDE DEF ws
<1>4. v \in Window /\ v.tabs = ws[w].tabs /\ v.single = ws[w].single /\ v.asking = "no"
  BY <1>1 DEF Window
<1> HIDE DEF v
<1>5. FitWindow(v)
  BY <1>1, <1>4 DEF FitWindow
<1>6. WithWindow(ws, w, v, vs) /\ AsksAsBefore(vs, ws)
  BY <1>1, <1>4, <1>5, OneWindow
<1> HIDE DEF vs
<1>7. /\ OpenWindows(vs) /\ vs # << >>
      /\ \A x : x \in Shown(vs) <=>
            x \in IdsIn(v.tabs) \/ \E j \in 1 .. Len(ws) : j # w /\ x \in IdsIn(ws[j].tabs)
  BY <1>6 DEF WithWindow
<1>8. \A x \in Shown(ws) : x \in Shown(vs)
  BY <1>1, <1>4, <1>7
<1>9. kept' \subseteq Pinnable
  BY <1>3, TypeFacts
<1>10. KeepsIn(i, vs)
  BY <1>2, <1>3, <1>6, <1>7, <1>8, <1>9 DEF KeepsIn, ws
<1> QED
  BY <1>10

-----------------------------------------------------------------------------
(* The order in those steps *)

LEMMA WindowsOrderly ==
    ASSUME Orderly, unsaved' \subseteq kept', NEW i \in Instances, NEW vs, OpenWindows(vs),
           windows' = [windows EXCEPT ![i] = vs],
           UNCHANGED writes \/ \E us : OpenWindows(us) /\ Save(i, us),
           UNCHANGED <<file, restore_session, phase, session, has_restored_session, preferences>>,
           excused' \in BOOLEAN, kept' \subseteq Pinnable
    PROVE  Orderly'
<1>1. \E q : /\ writes' = [writes EXCEPT ![i] = q]
              /\ q \in Seq(Seq(SavedWindow)) /\ \A n \in 1 .. Len(q) : TidyList(q[n])
  <2>1. CASE UNCHANGED writes
    <3>1. /\ writes' = [writes EXCEPT ![i] = writes[i]]
          /\ writes[i] \in Seq(Seq(SavedWindow)) /\ \A n \in 1 .. Len(writes[i]) : TidyList(writes[i][n])
      BY <2>1, TypeFacts DEF Orderly, ListsTidy
    <3> QED
      BY <3>1
  <2>2. CASE \E us : OpenWindows(us) /\ Save(i, us)
    BY <2>2, SaveFacts
  <2> QED
    BY <2>1, <2>2
<1>2. PICK q : /\ writes' = [writes EXCEPT ![i] = q]
               /\ q \in Seq(Seq(SavedWindow)) /\ \A n \in 1 .. Len(q) : TidyList(q[n])
  BY <1>1
<1>3. Becomes(i, phase[i], session[i], has_restored_session[i], vs, q)
  BY <1>2, TypeFacts DEF Becomes
<1>4. /\ phase[i] \in {"off", "started", "running"} /\ has_restored_session[i] \in BOOLEAN
      /\ Stored(file') /\ restore_session' \in BOOLEAN /\ preferences' \in [Instances -> BOOLEAN]
  BY TypeFacts
<1>5. Stored(session[i])
  BY DEF Orderly, ListsTidy
<1> QED
  BY <1>2, <1>3, <1>4, <1>5, OneOrderly

LEMMA KeepsOrderly ==
    ASSUME Orderly, unsaved' \subseteq kept',
           NEW i \in Instances, \E vs : KeepsIn(i, vs) PROVE Orderly'
BY TypeFacts, WindowsOrderly DEF KeepsIn, KeepsTheRest

LEMMA LeavesOrderly ==
    ASSUME Orderly, unsaved' \subseteq kept',
           NEW i \in Instances, \E left, vs : LeavesIn(i, left, vs) PROVE Orderly'
<1>1. PICK left, vs : LeavesIn(i, left, vs)
  OBVIOUS
<1>2. UNCHANGED writes \/ \E us : OpenWindows(us) /\ Save(i, us)
  BY <1>1 DEF LeavesIn
<1> QED
  BY <1>1, <1>2, TypeFacts, WindowsOrderly DEF LeavesIn, KeepsTheRest

LEMMA RequestOrderly ==
    ASSUME Orderly, NEW i \in Instances, NEW w \in DOMAIN windows[i], SavesOnRequest(i, w)
    PROVE  UNCHANGED writes \/ \E us : OpenWindows(us) /\ Save(i, us)
BY TypeFacts DEF SavesOnRequest

LEMMA CloseWindowOrderly ==
    ASSUME Orderly, unsaved' \subseteq kept',
           NEW i \in Instances, NEW w \in DOMAIN windows[i], CloseWindow(i, w)
    PROVE  Orderly'
<1> DEFINE vs == RemoveAt(windows[i], w)
<1>1. /\ windows' = [windows EXCEPT ![i] = vs] /\ KeepsTheRest(i)
      /\ kept' = kept \ Forgotten(i, w) /\ SavesOnRequest(i, w)
  BY DEF CloseWindow, Forgets
<1>2. OpenWindows(vs) /\ kept' \subseteq Pinnable
  BY <1>1, LeavesOthers
<1> HIDE DEF vs
<1> QED
  BY <1>1, <1>2, RequestOrderly, TypeFacts, WindowsOrderly DEF KeepsTheRest

LEMMA AskToCloseOrderly ==
    ASSUME Orderly, unsaved' \subseteq kept',
           NEW i \in Instances, NEW w \in DOMAIN windows[i], AskToClose(i, w)
    PROVE  Orderly'
<1>1. PICK vs : AsksIn(i, w, vs)
  BY AskToCloseAsks
<1> QED
  BY <1>1, RequestOrderly, TypeFacts, WindowsOrderly DEF AsksIn, KeepsTheRest

LEMMA CloseAnsweredOrderly ==
    ASSUME Orderly, unsaved' \subseteq kept',
           NEW i \in Instances, NEW w \in DOMAIN windows[i], CloseAnswered(i, w)
    PROVE  Orderly'
<1>1. CASE windows' = [windows EXCEPT ![i][w].asking = "no"] /\ UNCHANGED <<kept, excused>>
  BY <1>1, CancelKeeps, KeepsOrderly
<1>2. CASE /\ windows' = [windows EXCEPT ![i] = RemoveAt(windows[i], w)]
           /\ kept' = kept \ Forgotten(i, w)
           /\ excused' = (excused \/ (Len(windows[i]) = 1 /\ windows[i][w].asking = "unsaved"))
  <2> DEFINE vs == RemoveAt(windows[i], w)
  <2>1. OpenWindows(vs) /\ kept' \subseteq Pinnable
    BY <1>2, LeavesOthers
  <2>2. windows' = [windows EXCEPT ![i] = vs]
    BY <1>2
  <2> HIDE DEF vs
  <2>3. excused' \in BOOLEAN
    BY <1>2, TypeFacts
  <2>4. UNCHANGED <<file, restore_session, phase, session, has_restored_session, preferences, writes>>
    BY DEF CloseAnswered
  <2> QED
    BY <2>1, <2>2, <2>3, <2>4, WindowsOrderly
<1> QED
  BY <1>1, <1>2 DEF CloseAnswered, Forgets

-----------------------------------------------------------------------------
(* The invariant in those steps *)

(* An instance with windows.                                               *)
LEMMA HasWindows ==
    ASSUME SessionInv, NEW i \in Instances, windows[i] # << >>
    PROVE  /\ phase[i] = "running"
           /\ ~excused => session[i] = NoSession /\ kept \subseteq Shown(windows[i])
<1>1. phase[i] = "running"
  BY DEF SessionInv, Untouched
<1>2. Fine(phase[i], session[i], has_restored_session[i], windows[i], writes[i], file, kept, excused)
  BY <1>1, RunsAlone
<1> QED
  BY <1>1, <1>2 DEF Fine

(* What changes in every step of this kind, and what may not.              *)
ChangesWindows(i, vs, q) ==
    /\ windows' = [windows EXCEPT ![i] = vs]
    /\ writes' = [writes EXCEPT ![i] = q]
    /\ UNCHANGED <<file, restore_session, phase, session, has_restored_session, preferences>>
    /\ excused' \in BOOLEAN /\ (excused => excused')
    /\ kept' \subseteq Pinnable

LEMMA WindowsBecome ==
    ASSUME SessionInv, unsaved' \subseteq kept',
           NEW i \in Instances, windows[i] # << >>, NEW vs, NEW q,
           ChangesWindows(i, vs, q), OpenWindows(vs),
           q \in Seq(Seq(SavedWindow)), \A n \in 1 .. Len(q) : TidyList(q[n]),
           ~excused' => kept' \subseteq IF vs = << >> THEN Recorded(LastSaved(file, q)) ELSE Shown(vs),
           \A w \in 1 .. Len(vs) :
              vs[w].asking = "saved" => IdsIn(vs[w].tabs) \subseteq Recorded(LastSaved(file, q))
    PROVE  SessionInv'
<1>0. Orderly
  BY DEF SessionInv
<1>1. phase[i] = "running" /\ (~excused => session[i] = NoSession)
  BY HasWindows
<1>2. Others(i)
  BY <1>1, RunsAlone
<1>3. Fine(phase[i], session[i], has_restored_session[i], windows[i], writes[i], file, kept, excused)
  BY <1>1, RunsAlone
<1>4. file' = file /\ excused' \in BOOLEAN /\ (excused => excused')
  BY DEF ChangesWindows
<1>5. Stored(session[i]) /\ has_restored_session[i] \in BOOLEAN /\ (session[i] # NoSession => ~has_restored_session[i])
  BY <1>3 DEF Fine
<1>6. session[i] # NoSession => ~has_restored_session[i] /\ excused'
  BY <1>0, <1>1, <1>4, <1>5, TypeFacts
<1>7. Fine(phase[i], session[i], has_restored_session[i], vs, q, file', kept', excused')
  BY <1>1, <1>4, <1>5, <1>6 DEF Fine
<1>8. Becomes(i, phase[i], session[i], has_restored_session[i], vs, q)
  BY <1>0, TypeFacts DEF ChangesWindows, Becomes
<1>9. /\ Stored(file') /\ restore_session' \in BOOLEAN /\ kept' \subseteq Pinnable
      /\ preferences' \in [Instances -> BOOLEAN]
  BY <1>0, TypeFacts DEF ChangesWindows
<1> QED
  BY <1>2, <1>4, <1>7, <1>8, <1>9, OneBecomes

(* Nothing is saved: no window with pinned tabs may ask that did not.      *)
LEMMA WindowsChange ==
    ASSUME SessionInv, unsaved' \subseteq kept', NEW i \in Instances, windows[i] # << >>, NEW vs,
           ChangesWindows(i, vs, writes[i]), OpenWindows(vs), AsksAsBefore(vs, windows[i]),
           ~excused' => kept' \subseteq IF vs = << >> THEN Recorded(LastSaved(file, writes[i])) ELSE Shown(vs)
    PROVE  SessionInv'
<1>1. Fine(phase[i], session[i], has_restored_session[i], windows[i], writes[i], file, kept, excused)
  BY HasWindows, RunsAlone
<1>2. writes[i] \in Seq(Seq(SavedWindow)) /\ \A n \in 1 .. Len(writes[i]) : TidyList(writes[i][n])
  BY <1>1 DEF Fine
<1>3. \A w \in 1 .. Len(windows[i]) :
         windows[i][w].asking = "saved" => IdsIn(windows[i][w].tabs) \subseteq Recorded(LastSaved(file, writes[i]))
  BY <1>1 DEF Fine
<1>4. ASSUME NEW w \in 1 .. Len(vs), vs[w].asking = "saved"
      PROVE  IdsIn(vs[w].tabs) \subseteq Recorded(LastSaved(file, writes[i]))
  <2>1. PICK l \in 1 .. Len(windows[i]) :
           windows[i][l].asking = "saved" /\ IdsIn(vs[w].tabs) \subseteq IdsIn(windows[i][l].tabs)
    BY <1>4 DEF AsksAsBefore
  <2> QED
    BY <1>3, <2>1
<1> QED
  BY <1>2, <1>4, WindowsBecome

LEMMA WindowsSaved ==
    ASSUME SessionInv, unsaved' \subseteq kept',
           NEW i \in Instances, windows[i] # << >>, NEW vs, NEW us,
           OpenWindows(vs), OpenWindows(us), Save(i, us),
           windows' = [windows EXCEPT ![i] = vs], KeepsTheRest(i), kept' \subseteq Pinnable,
           ~excused => kept' \subseteq IF vs = << >> THEN Shown(us) ELSE Shown(vs),
           \A w \in 1 .. Len(vs) : vs[w].asking = "saved" => IdsIn(vs[w].tabs) \subseteq Shown(us)
    PROVE  SessionInv'
<1>0. Orderly
  BY DEF SessionInv
<1>1. PICK q : /\ writes' = [writes EXCEPT ![i] = q]
               /\ q \in Seq(Seq(SavedWindow)) /\ \A n \in 1 .. Len(q) : TidyList(q[n])
               /\ Recorded(LastSaved(file, q)) = Shown(us)
  BY <1>0, SaveFacts
<1>2. ChangesWindows(i, vs, q)
  BY <1>0, <1>1, TypeFacts DEF ChangesWindows, KeepsTheRest
<1>3. excused' = excused
  BY DEF KeepsTheRest
<1> QED
  BY <1>1, <1>2, <1>3, WindowsBecome

(* Without a save.                                                         *)
LEMMA WindowsStay ==
    ASSUME SessionInv, unsaved' \subseteq kept', NEW i \in Instances, windows[i] # << >>, NEW vs,
           OpenWindows(vs), AsksAsBefore(vs, windows[i]), UNCHANGED writes,
           windows' = [windows EXCEPT ![i] = vs], KeepsTheRest(i), kept' \subseteq Pinnable,
           ~excused => kept' \subseteq IF vs = << >> THEN {} ELSE Shown(vs)
    PROVE  SessionInv'
<1>0. Orderly
  BY DEF SessionInv
<1>1. ChangesWindows(i, vs, writes[i])
  BY <1>0, TypeFacts DEF ChangesWindows, KeepsTheRest
<1>2. excused' = excused
  BY DEF KeepsTheRest
<1> QED
  BY <1>1, <1>2, WindowsChange

LEMMA KeepsInv ==
    ASSUME SessionInv, unsaved' \subseteq kept',
           NEW i \in Instances, windows[i] # << >>, \E vs : KeepsIn(i, vs)
    PROVE  SessionInv'
<1>1. PICK vs : KeepsIn(i, vs)
  OBVIOUS
<1>2. ~excused => kept \subseteq Shown(windows[i])
  BY HasWindows
<1>3. /\ OpenWindows(vs) /\ vs # << >> /\ AsksAsBefore(vs, windows[i])
      /\ windows' = [windows EXCEPT ![i] = vs] /\ UNCHANGED writes /\ KeepsTheRest(i)
      /\ kept' \subseteq Pinnable
      /\ kept \subseteq Shown(windows[i]) => kept' \subseteq Shown(vs)
  BY <1>1 DEF KeepsIn
<1> QED
  BY <1>2, <1>3, WindowsStay

LEMMA LeavesInv ==
    ASSUME SessionInv, unsaved' \subseteq kept',
           NEW i \in Instances, windows[i] # << >>, \E left, vs : LeavesIn(i, left, vs)
    PROVE  SessionInv'
<1>1. PICK left, vs : LeavesIn(i, left, vs)
  OBVIOUS
<1>2. ~excused => kept \subseteq Shown(windows[i])
  BY HasWindows
<1>3. /\ OpenWindows(left) /\ OpenWindows(vs) /\ AsksAsBefore(vs, windows[i])
      /\ Shown(vs) = Shown(left)
      /\ windows' = [windows EXCEPT ![i] = vs] /\ KeepsTheRest(i)
      /\ Save(i, left) \/ UNCHANGED writes
      /\ kept' \subseteq Pinnable
      /\ kept \subseteq Shown(windows[i]) => kept' \subseteq Shown(left)
  BY <1>1 DEF LeavesIn
<1>4. CASE Save(i, left)
  <2>1. \A j \in 1 .. Len(vs) : vs[j].asking = "saved" => IdsIn(vs[j].tabs) \subseteq Shown(left)
    <3>1. \A j \in 1 .. Len(vs) : IdsIn(vs[j].tabs) \subseteq Shown(vs)
      BY <1>3, WindowFacts
    <3> QED
      BY <1>3, <3>1
  <2>2. ~excused => kept' \subseteq IF vs = << >> THEN Shown(left) ELSE Shown(vs)
    BY <1>2, <1>3
  <2> QED
    BY <1>3, <1>4, <2>1, <2>2, WindowsSaved
<1>5. CASE UNCHANGED writes
  <2>1. vs = << >> => Shown(left) = {}
    BY <1>3, NoWindows
  <2>2. ~excused => kept' \subseteq IF vs = << >> THEN {} ELSE Shown(vs)
    BY <1>2, <1>3, <2>1
  <2> QED
    BY <1>3, <1>5, <2>2, WindowsStay
<1> QED
  BY <1>3, <1>4, <1>5

(* What SavesOnRequest amounts to.                                         *)
LEMMA RequestFacts ==
    ASSUME NEW i \in Instances, NEW w \in DOMAIN windows[i], SavesOnRequest(i, w)
    PROVE  \/ RequestSaves(i, w) /\ Save(i, windows[i])
           \/ ~RequestSaves(i, w) /\ UNCHANGED writes
BY DEF SavesOnRequest

LEMMA CloseWindowInv ==
    ASSUME SessionInv, unsaved' \subseteq kept',
           NEW i \in Instances, NEW w \in DOMAIN windows[i], CloseWindow(i, w)
    PROVE  SessionInv'
<1> DEFINE vs == RemoveAt(windows[i], w)
<1>0. Orderly
  BY DEF SessionInv
<1>1. /\ windows' = [windows EXCEPT ![i] = vs] /\ KeepsTheRest(i)
      /\ kept' = kept \ Forgotten(i, w) /\ SavesOnRequest(i, w)
  BY DEF CloseWindow, Forgets
<1>2. /\ OpenWindows(vs) /\ AsksAsBefore(vs, windows[i]) /\ kept' \subseteq Pinnable
      /\ kept' \subseteq kept
      /\ \A x \in Shown(vs) : x \in Shown(windows[i])
      /\ vs # << >> /\ kept \subseteq Shown(windows[i]) => kept' \subseteq Shown(vs)
      /\ vs = << >> => Len(windows[i]) = 1 /\ w = 1
  BY <1>0, <1>1, LeavesOthers
<1> HIDE DEF vs
<1>3. /\ OpenWindows(windows[i]) /\ windows[i] # << >> /\ w \in 1 .. Len(windows[i])
      /\ windows[i][w].single => IdsIn(windows[i][w].tabs) = {}
      /\ \A x : x \in Shown(windows[i]) <=>
            \E j \in 1 .. Len(windows[i]) : x \in IdsIn(windows[i][j].tabs)
      /\ ~excused => kept \subseteq Shown(windows[i])
  BY <1>0, WindowHere, HasWindows
<1>4. CASE RequestSaves(i, w) /\ Save(i, windows[i])
  <2>1. ~excused => kept' \subseteq IF vs = << >> THEN Shown(windows[i]) ELSE Shown(vs)
    BY <1>2, <1>3
  <2>2. \A j \in 1 .. Len(vs) : vs[j].asking = "saved" => IdsIn(vs[j].tabs) \subseteq Shown(windows[i])
    <3>1. \A j \in 1 .. Len(vs) : IdsIn(vs[j].tabs) \subseteq Shown(vs)
      BY <1>2, WindowFacts
    <3> QED
      BY <1>2, <3>1
  <2> QED
    BY <1>1, <1>2, <1>3, <1>4, <2>1, <2>2, WindowsSaved
<1>5. CASE ~RequestSaves(i, w) /\ UNCHANGED writes
  <2>1. ~excused /\ vs = << >> => kept' = {}
    <3> SUFFICES ASSUME ~excused, vs = << >>, NEW x \in kept' PROVE FALSE
      OBVIOUS
    <3>1. Len(windows[i]) = 1 /\ w = 1
      BY <1>2
    <3>2. windows[i][w].single
      BY <1>5, <3>1 DEF RequestSaves
    <3>3. x \in Shown(windows[i])
      BY <1>2, <1>3
    <3>4. PICK j \in 1 .. Len(windows[i]) : x \in IdsIn(windows[i][j].tabs)
      BY <1>3, <3>3
    <3>5. j = w
      BY <3>1
    <3> QED
      BY <1>3, <3>2, <3>4, <3>5
  <2>2. ~excused => kept' \subseteq IF vs = << >> THEN {} ELSE Shown(vs)
    BY <1>2, <1>3, <2>1
  <2> QED
    BY <1>1, <1>2, <1>3, <1>5, <2>2, WindowsStay
<1> QED
  BY <1>1, <1>4, <1>5, RequestFacts

LEMMA AskToCloseInv ==
    ASSUME SessionInv, unsaved' \subseteq kept',
           NEW i \in Instances, NEW w \in DOMAIN windows[i], AskToClose(i, w)
    PROVE  SessionInv'
<1>0. Orderly
  BY DEF SessionInv
<1>1. PICK vs : AsksIn(i, w, vs)
  BY <1>0, AskToCloseAsks
<1>2. /\ OpenWindows(vs) /\ vs # << >> /\ Shown(vs) = Shown(windows[i])
      /\ ~RequestSaves(i, w) => AsksAsBefore(vs, windows[i])
      /\ windows' = [windows EXCEPT ![i] = vs] /\ SavesOnRequest(i, w) /\ KeepsTheRest(i)
      /\ kept' = kept /\ kept' \subseteq Pinnable
  BY <1>1 DEF AsksIn
<1>3. OpenWindows(windows[i]) /\ windows[i] # << >> /\ (~excused => kept \subseteq Shown(windows[i]))
  BY <1>0, WindowHere, HasWindows
<1>4. CASE RequestSaves(i, w) /\ Save(i, windows[i])
  <2>1. \A j \in 1 .. Len(vs) : vs[j].asking = "saved" => IdsIn(vs[j].tabs) \subseteq Shown(windows[i])
    <3>1. \A j \in 1 .. Len(vs) : IdsIn(vs[j].tabs) \subseteq Shown(vs)
      BY <1>2, WindowFacts
    <3> QED
      BY <1>2, <3>1
  <2>2. ~excused => kept' \subseteq IF vs = << >> THEN Shown(windows[i]) ELSE Shown(vs)
    BY <1>2, <1>3
  <2> QED
    BY <1>2, <1>3, <1>4, <2>1, <2>2, WindowsSaved
<1>5. CASE ~RequestSaves(i, w) /\ UNCHANGED writes
  <2>1. ~excused => kept' \subseteq IF vs = << >> THEN {} ELSE Shown(vs)
    BY <1>2, <1>3
  <2> QED
    BY <1>2, <1>3, <1>5, <2>1, WindowsStay
<1> QED
  BY <1>2, <1>4, <1>5, RequestFacts

LEMMA CloseAnsweredInv ==
    ASSUME SessionInv, unsaved' \subseteq kept',
           NEW i \in Instances, NEW w \in DOMAIN windows[i], CloseAnswered(i, w)
    PROVE  SessionInv'
<1> DEFINE ws == windows[i]
<1>0. Orderly
  BY DEF SessionInv
<1>1. /\ OpenWindows(ws) /\ w \in 1 .. Len(ws) /\ windows[i] # << >>
      /\ ws[w] \in Window /\ ws[w].tabs \in Tidy
      /\ ws[w].single => IdsIn(ws[w].tabs) = {}
      /\ \A x : x \in Shown(ws) <=> \E j \in 1 .. Len(ws) : x \in IdsIn(ws[j].tabs)
      /\ ~excused => kept \subseteq Shown(ws)
  BY <1>0, WindowHere, HasWindows
<1>2. /\ UNCHANGED <<file, restore_session, phase, session, has_restored_session, preferences, writes>>
      /\ ws[w].asking # "no"
  BY DEF CloseAnswered
<1>3. writes' = [writes EXCEPT ![i] = writes[i]] /\ excused \in BOOLEAN
  BY <1>0, <1>2, TypeFacts
<1>4. CASE /\ windows' = [windows EXCEPT ![i] = RemoveAt(ws, w)]
           /\ kept' = kept \ Forgotten(i, w)
           /\ excused' = (excused \/ (Len(ws) = 1 /\ ws[w].asking = "unsaved"))
  <2> DEFINE vs == RemoveAt(ws, w)
  <2>1. /\ OpenWindows(vs) /\ AsksAsBefore(vs, ws) /\ kept' \subseteq Pinnable
        /\ kept' \subseteq kept
        /\ vs # << >> /\ kept \subseteq Shown(ws) => kept' \subseteq Shown(vs)
        /\ vs = << >> => Len(ws) = 1 /\ w = 1
    BY <1>0, <1>4, LeavesOthers
  <2>2. windows' = [windows EXCEPT ![i] = vs]
    BY <1>4
  <2>3. excused' \in BOOLEAN /\ (excused => excused')
    BY <1>3, <1>4
  <2>4. ~excused' => ~excused /\ (Len(ws) = 1 => ws[w].asking # "unsaved")
    BY <1>4
  <2> HIDE DEF vs
  <2>5. ChangesWindows(i, vs, writes[i])
    BY <1>2, <1>3, <2>1, <2>2, <2>3 DEF ChangesWindows
  <2>6. ASSUME ~excused', vs = << >> PROVE kept' \subseteq Recorded(LastSaved(file, writes[i]))
    <3>1. Len(ws) = 1 /\ w = 1 /\ ~excused
      BY <2>1, <2>4, <2>6
    <3>2. ws[w].asking = "saved"
      BY <1>1, <1>2, <2>4, <2>6, <3>1 DEF Window
    <3>3. IdsIn(ws[w].tabs) \subseteq Recorded(LastSaved(file, writes[i]))
      BY <1>1, <3>2 DEF SessionInv, AskedSaved
    <3>4. \A x \in kept' : x \in IdsIn(ws[w].tabs)
      <4> SUFFICES ASSUME NEW x \in kept' PROVE x \in IdsIn(ws[w].tabs)
        OBVIOUS
      <4>1. x \in Shown(ws)
        BY <1>1, <2>1, <3>1
      <4>2. PICK j \in 1 .. Len(ws) : x \in IdsIn(ws[j].tabs)
        BY <1>1, <4>1
      <4>3. j = w
        BY <3>1
      <4> QED
        BY <4>2, <4>3
    <3> QED
      BY <3>3, <3>4
  <2>7. ~excused' => kept' \subseteq IF vs = << >> THEN Recorded(LastSaved(file, writes[i])) ELSE Shown(vs)
    BY <1>1, <2>1, <2>4, <2>6
  <2> QED
    BY <1>1, <2>1, <2>5, <2>7, WindowsChange
<1>5. CASE windows' = [windows EXCEPT ![i][w].asking = "no"] /\ UNCHANGED <<kept, excused>>
  BY <1>0, <1>1, <1>5, CancelKeeps, KeepsInv
<1> QED
  BY <1>4, <1>5 DEF CloseAnswered, Forgets

-----------------------------------------------------------------------------
(* ---- What the requests open ---------------------------------------------- *)

(* What a restore brings back.                                             *)
LEMMA RestoringFacts ==
    ASSUME Orderly, NEW i \in Instances, NEW us, us = Restoring(i)
    PROVE  /\ OpenWindows(us) /\ \A w \in 1 .. Len(us) : us[w].asking = "no"
           /\ CanRestore(i) => Shown(us) = Recorded(session[i])
<1>1. CanRestore(i) => session[i] # NoSession
  BY DEF CanRestore
<1>2. CASE CanRestore(i)
  <2>1. TidyList(session[i]) /\ restore_session \in BOOLEAN
    BY <1>1, <1>2, TypeFacts DEF Orderly, ListsTidy, Stored
  <2>2. us = Restored(session[i], restore_session)
    BY <1>2 DEF Restoring
  <2> QED
    BY <1>1, <2>1, <2>2, RestoredFacts
<1>3. CASE ~CanRestore(i)
  <2>1. us = << >>
    BY <1>3 DEF Restoring
  <2>2. Len(us) = 0 /\ 1 .. 0 = {}
    BY <2>1, EmptySeq
  <2> QED
    BY <1>1, <1>3, <2>1, <2>2, NoWindows
<1> QED
  BY <1>2, <1>3

(* The windows ws, in place of those of i, show all that these showed.     *)
Follows(i, ws) ==
    /\ OpenWindows(ws) /\ AsksAsBefore(ws, windows[i])
    /\ \A x \in Shown(windows[i]) : x \in Shown(ws)

(* More windows, or tabs in them.                                          *)
LEMMA WithTabFacts ==
    ASSUME NEW us, OpenWindows(us), NEW ws \in WithTab(us)
    PROVE  /\ OpenWindows(ws) /\ AsksAsBefore(ws, us) /\ ws # << >>
           /\ \A x \in Shown(us) : x \in Shown(ws)
<1>1. CASE us = << >>
  <2>1. ws = OneMore(us)
    BY <1>1 DEF WithTab
  <2> QED
    BY <2>1, OneMoreFacts
<1>2. CASE us # << >>
  <2>1. PICK w \in DOMAIN us : ws = [us EXCEPT ![w].tabs = Append(@, Plain)]
    BY <1>2 DEF WithTab
  <2> DEFINE t == Append(us[w].tabs, Plain)
  <2>2. ws = [us EXCEPT ![w] = [us[w] EXCEPT !.tabs = t]]
    BY <2>1
  <2>3. w \in 1 .. Len(us) /\ us[w].tabs \in Tidy /\ (us[w].single => IdsIn(us[w].tabs) = {})
    BY WindowFacts
  <2>4. t \in Tidy /\ IdsIn(t) = IdsIn(us[w].tabs)
    BY <2>3, TidyAppend
  <2> HIDE DEF t
  <2>5. WithTabs(us, w, t, ws) /\ AsksAsBefore(ws, us)
    BY <2>2, <2>3, <2>4, ChangeTabs
  <2>6. /\ OpenWindows(ws) /\ ws # << >>
        /\ \A x : x \in Shown(ws) <=>
              x \in IdsIn(t) \/ \E j \in 1 .. Len(us) : j # w /\ x \in IdsIn(us[j].tabs)
    BY <2>5 DEF WithTabs
  <2>7. \A x : x \in Shown(us) <=> \E j \in 1 .. Len(us) : x \in IdsIn(us[j].tabs)
    BY WindowFacts
  <2>8. \A x \in Shown(us) : x \in Shown(ws)
    BY <2>4, <2>6, <2>7
  <2> QED
    BY <2>5, <2>6, <2>8
<1> QED
  BY <1>1, <1>2

(* The windows of an instance and those of its session.                    *)
LEMMA TogetherFacts ==
    ASSUME Orderly, NEW i \in Instances, NEW us, us = windows[i] \o Restoring(i)
    PROVE  Follows(i, us) /\ \A x \in Shown(Restoring(i)) : x \in Shown(us)
<1> DEFINE rs == Restoring(i)
<1>1. OpenWindows(rs) /\ \A w \in 1 .. Len(rs) : rs[w].asking = "no"
  BY RestoringFacts
<1>2. OpenWindows(windows[i]) /\ us = windows[i] \o rs
  BY TypeFacts
<1> HIDE DEF rs
<1>3. /\ OpenWindows(us) /\ AsksAsBefore(us, windows[i])
      /\ \A x : x \in Shown(us) <=> x \in Shown(windows[i]) \/ x \in Shown(rs)
  BY <1>1, <1>2, MoreWindows
<1> QED
  BY <1>3 DEF Follows, rs

LEMMA FollowsOn ==
    ASSUME Orderly, NEW i \in Instances, NEW us, Follows(i, us), NEW ws,
           OpenWindows(ws), AsksAsBefore(ws, us), \A x \in Shown(us) : x \in Shown(ws)
    PROVE  Follows(i, ws)
<1>1. /\ OpenWindows(us) /\ AsksAsBefore(us, windows[i])
      /\ \A x \in Shown(windows[i]) : x \in Shown(us)
  BY DEF Follows
<1>2. AsksAsBefore(ws, windows[i])
  <2> SUFFICES ASSUME NEW j \in 1 .. Len(ws), ws[j].asking = "saved"
               PROVE  \E l \in 1 .. Len(windows[i]) :
                         /\ windows[i][l].asking = "saved"
                         /\ IdsIn(ws[j].tabs) \subseteq IdsIn(windows[i][l].tabs)
    BY DEF AsksAsBefore
  <2>1. PICK k \in 1 .. Len(us) : us[k].asking = "saved" /\ IdsIn(ws[j].tabs) \subseteq IdsIn(us[k].tabs)
    BY DEF AsksAsBefore
  <2>2. PICK l \in 1 .. Len(windows[i]) :
           windows[i][l].asking = "saved" /\ IdsIn(us[k].tabs) \subseteq IdsIn(windows[i][l].tabs)
    BY <1>1, <2>1 DEF AsksAsBefore
  <2> QED
    BY <2>1, <2>2
<1> QED
  BY <1>1, <1>2 DEF Follows

LEMMA FollowsItself == ASSUME Orderly, NEW i \in Instances PROVE Follows(i, windows[i])
<1>1. OpenWindows(windows[i])
  BY TypeFacts
<1>2. AsksAsBefore(windows[i], windows[i])
  BY DEF AsksAsBefore
<1> QED
  BY <1>1, <1>2 DEF Follows

(* The instance i is asked, and answers with ws, all that the session records  *)
(* among them if it is taken from it.                                      *)
AnswersWith(i, ws) ==
    /\ Asks(i) /\ Serves(i, ws) /\ Follows(i, ws) /\ preferences' \in [Instances -> BOOLEAN]
    /\ LeavesSession \/ (MarksRestored(i) /\ \A x \in Shown(Restoring(i)) : x \in Shown(ws))

Answers(i) == \E ws : AnswersWith(i, ws)

(* The session stays where it is.                                          *)
LEMMA AnswersAsItIs ==
    ASSUME NEW i \in Instances, NEW ws, Asks(i), Follows(i, ws), Serves(i, ws),
           LeavesSession, preferences' \in [Instances -> BOOLEAN]
    PROVE  Answers(i)
BY DEF AnswersWith, Answers

(* It is restored.                                                         *)
LEMMA AnswersRestored ==
    ASSUME NEW i \in Instances, NEW ws, Asks(i), Follows(i, ws), Serves(i, ws),
           \A x \in Shown(Restoring(i)) : x \in Shown(ws),
           MarksRestored(i), preferences' \in [Instances -> BOOLEAN]
    PROVE  Answers(i)
BY DEF AnswersWith, Answers

(* A command line, whose instance restores first if it is the unique one.  *)
LEMMA AnswersInTurn ==
    ASSUME Orderly, NEW i \in Instances, NEW ws, Asks(i), Serves(i, ws), RestoresFirst(i),
           OpenWindows(ws), AsksAsBefore(ws, Present(i)), \A x \in Shown(Present(i)) : x \in Shown(ws),
           preferences' \in [Instances -> BOOLEAN]
    PROVE  Answers(i)
<1> DEFINE us == Present(i)
<1>1. CASE i = "main"
  <2>1. us = windows[i] \o Restoring(i) /\ MarksRestored(i)
    BY <1>1 DEF Present, RestoresFirst
  <2> HIDE DEF us
  <2>2. Follows(i, us) /\ \A x \in Shown(Restoring(i)) : x \in Shown(us)
    BY <2>1, TogetherFacts
  <2>3. AsksAsBefore(ws, us) /\ \A x \in Shown(us) : x \in Shown(ws)
    BY DEF us
  <2>4. Follows(i, ws) /\ \A x \in Shown(Restoring(i)) : x \in Shown(ws)
    BY <2>2, <2>3, FollowsOn
  <2> QED
    BY <2>1, <2>4, AnswersRestored
<1>2. CASE i # "main"
  <2>1. us = windows[i] \o << >> /\ LeavesSession
    BY <1>2 DEF Present, RestoresFirst
  <2>2. us = windows[i]
    BY <2>1, TypeFacts
  <2> HIDE DEF us
  <2>3. Follows(i, us)
    BY <2>2, FollowsItself
  <2>4. AsksAsBefore(ws, us) /\ \A x \in Shown(us) : x \in Shown(ws)
    BY DEF us
  <2>5. Follows(i, ws)
    BY <2>3, <2>4, FollowsOn
  <2> QED
    BY <2>1, <2>5, AnswersAsItIs
<1> QED
  BY <1>1, <1>2

LEMMA PresentFacts ==
    ASSUME Orderly, NEW i \in Instances
    PROVE  OpenWindows(Present(i)) /\ AsksAsBefore(Present(i), Present(i))
<1>1. OpenWindows(windows[i] \o Restoring(i))
  BY TogetherFacts DEF Follows
<1>2. OpenWindows(windows[i]) /\ windows[i] \o << >> = windows[i]
  BY TypeFacts
<1>3. OpenWindows(Present(i))
  BY <1>1, <1>2 DEF Present
<1>4. AsksAsBefore(Present(i), Present(i))
  BY DEF AsksAsBefore
<1> QED
  BY <1>3, <1>4

LEMMA RefusedAnswers == ASSUME Orderly, NEW i \in Instances, Refused(i) PROVE Answers(i)
<1>1. preferences' \in [Instances -> BOOLEAN] /\ Asks(i) /\ LeavesSession /\ Serves(i, windows[i])
  BY TypeFacts DEF Refused
<1> QED
  BY <1>1, FollowsItself, AnswersAsItIs

LEMMA OpensNoTabAnswers == ASSUME Orderly, NEW i \in Instances, OpensNoTab(i) PROVE Answers(i)
<1>1. Asks(i) /\ RestoresFirst(i) /\ Serves(i, Present(i))
  BY DEF OpensNoTab
<1>2. preferences' \in [Instances -> BOOLEAN]
  BY TypeFacts DEF OpensNoTab
<1> QED
  BY <1>1, <1>2, PresentFacts, AnswersInTurn

LEMMA OpenTabAnswers == ASSUME Orderly, NEW i \in Instances, OpenTab(i) PROVE Answers(i)
<1>1. PICK ws \in WithTab(Present(i)) : Serves(i, ws)
  BY DEF OpenTab
<1>2. Asks(i) /\ RestoresFirst(i) /\ preferences' \in [Instances -> BOOLEAN]
  BY TypeFacts DEF OpenTab
<1>3. /\ OpenWindows(ws) /\ AsksAsBefore(ws, Present(i))
      /\ \A x \in Shown(Present(i)) : x \in Shown(ws)
  BY PresentFacts, WithTabFacts
<1> QED
  BY <1>1, <1>2, <1>3, AnswersInTurn

LEMMA OpenWindowAnswers == ASSUME Orderly, NEW i \in Instances, OpenWindow(i) PROVE Answers(i)
<1>1. Asks(i) /\ RestoresFirst(i) /\ preferences' \in [Instances -> BOOLEAN]
  BY TypeFacts DEF OpenWindow
<1>2. CASE Serves(i, OneMore(Present(i)))
  <2> DEFINE ws == OneMore(Present(i))
  <2>1. /\ OpenWindows(ws) /\ AsksAsBefore(ws, Present(i))
        /\ \A x \in Shown(Present(i)) : x \in Shown(ws)
    BY PresentFacts, OneMoreFacts
  <2>2. Serves(i, ws)
    BY <1>2
  <2> HIDE DEF ws
  <2> QED
    BY <1>1, <2>1, <2>2, AnswersInTurn
<1>3. CASE \E ws \in WithTab(Present(i)) : Serves(i, ws)
  <2>1. PICK ws \in WithTab(Present(i)) : Serves(i, ws)
    BY <1>3
  <2>2. /\ OpenWindows(ws) /\ AsksAsBefore(ws, Present(i))
        /\ \A x \in Shown(Present(i)) : x \in Shown(ws)
    BY PresentFacts, WithTabFacts
  <2> QED
    BY <1>1, <2>1, <2>2, AnswersInTurn
<1>4. CASE Serves(i, Present(i))
  BY <1>1, <1>4, PresentFacts, AnswersInTurn
<1> QED
  BY <1>2, <1>3, <1>4 DEF OpenWindow

(* The windows of a command alone.                                         *)
LEMMA OpenCommandFacts ==
    ASSUME Orderly, OpenCommand
    PROVE  /\ "solo" \in Instances /\ phase["solo"] = "started"
           /\ Asks("solo") /\ LeavesSession /\ preferences' \in [Instances -> BOOLEAN]
           /\ \E ws : Serves("solo", ws) /\ OpenWindows(ws) /\ AsksAsBefore(ws, << >>)
<1> DEFINE v == [tabs |-> <<Plain>>, single |-> TRUE, asking |-> "no"]
           ws == << v >>
<1>1. /\ Asks("solo") /\ LeavesSession /\ Serves("solo", ws)
      /\ preferences' \in [Instances -> BOOLEAN]
  BY TypeFacts DEF OpenCommand
<1>2. v.tabs = << Plain >> /\ v.single = TRUE /\ v.asking = "no"
  OBVIOUS
<1>3. << Plain >> \in Tidy /\ IdsIn(<< Plain >>) = {}
  BY TidyPlain
<1>4. v \in Window
  BY <1>3, TidyFacts DEF Window
<1> HIDE DEF v
<1>5. << >> \in Seq(Window) /\ ws = Append(<< >>, v)
  BY <1>4
<1> HIDE DEF ws
<1>6. OpenWindows(ws) /\ AsksAsBefore(ws, << >>)
  BY <1>2, <1>3, <1>4, <1>5, NoWindows, OneMoreWindow
<1>7. "solo" \in Instances /\ phase["solo"] = "started"
  BY <1>1 DEF Asks, Instances
<1> QED
  BY <1>1, <1>6, <1>7

LEMMA ActivateAnswers == ASSUME Orderly, NEW i \in Instances, Activate(i) PROVE Answers(i)
<1>1. Asks(i) /\ preferences' \in [Instances -> BOOLEAN]
  BY TypeFacts DEF Activate
<1>2. CASE RestoresFirst(i) /\ Serves(i, Present(i))
  BY <1>1, <1>2, PresentFacts, AnswersInTurn
<1>3. CASE LeavesSession /\ Serves(i, windows[i])
  BY <1>1, <1>3, FollowsItself, AnswersAsItIs
<1>4. CASE windows[i] = << >> /\ MarksRestored(i) /\ Serves(i, AtLeastOne(Restoring(i)))
  <2> DEFINE rs == Restoring(i)
             ws == AtLeastOne(rs)
  <2>1. OpenWindows(rs) /\ \A w \in 1 .. Len(rs) : rs[w].asking = "no"
    BY RestoringFacts
  <2>2. ws = rs \/ ws = OneMore(rs)
    BY DEF AtLeastOne
  <2>3. Serves(i, ws)
    BY <1>4
  <2> HIDE DEF rs, ws
  <2>4. AsksAsBefore(rs, << >>)
    BY <2>1 DEF AsksAsBefore
  <2>5. \A w \in 1 .. Len(OneMore(rs)) : OneMore(rs)[w].asking # "saved"
    <3>1. AsksAsBefore(OneMore(rs), rs)
      BY <2>1, OneMoreFacts
    <3> QED
      BY <2>1, <3>1 DEF AsksAsBefore
  <2>6. OpenWindows(ws) /\ AsksAsBefore(ws, << >>) /\ \A x \in Shown(rs) : x \in Shown(ws)
    BY <2>1, <2>2, <2>4, <2>5, OneMoreFacts DEF AsksAsBefore
  <2>7. Follows(i, ws)
    BY <1>4, <2>6, NoWindows DEF Follows
  <2>8. \A x \in Shown(Restoring(i)) : x \in Shown(ws)
    BY <2>6 DEF rs
  <2> QED
    BY <1>1, <1>4, <2>3, <2>7, <2>8, AnswersRestored
<1> QED
  BY <1>2, <1>3, <1>4 DEF Activate

LEMMA OpenAnswers == ASSUME Orderly, NEW valid \in BOOLEAN, Open(valid) PROVE Answers("main")
<1> DEFINE i == "main"
           us == windows[i] \o Restoring(i)
<1>1. i \in Instances
  BY DEF Instances
<1>2. Asks(i) /\ MarksRestored(i) /\ preferences' \in [Instances -> BOOLEAN]
  BY TypeFacts DEF Open
<1>3. Follows(i, us) /\ \A x \in Shown(Restoring(i)) : x \in Shown(us)
  BY <1>1, TogetherFacts
<1>4. OpenWindows(us)
  BY <1>3 DEF Follows
<1> DEFINE t == IF valid THEN <<Plain>> ELSE <<>>
           v == WindowOf(t)
<1>5. t \in Tidy /\ IdsIn(t) = {}
  BY TidyPlain
<1>6. v \in Window /\ v.tabs = t /\ ~v.single /\ v.asking = "no"
  BY <1>5, NewWindowFacts
<1>7. \E ws : Serves(i, ws) /\ (ws \in WithTab(us) \/ ws = us \/ ws = Append(us, v))
  <2>1. CASE Restoring(i) # << >> /\ valid
    BY <2>1 DEF Open
  <2>2. CASE Restoring(i) # << >> /\ ~valid
    BY <2>2 DEF Open
  <2>3. CASE ~(Restoring(i) # << >>)
    BY <2>3 DEF Open
  <2> QED
    BY <2>1, <2>2, <2>3
<1> HIDE DEF v, t, us, i
<1>8. PICK ws : Serves(i, ws) /\ (ws \in WithTab(us) \/ ws = us \/ ws = Append(us, v))
  BY <1>7
<1>9. OpenWindows(ws) /\ AsksAsBefore(ws, us) /\ \A x \in Shown(us) : x \in Shown(ws)
  <2>1. CASE ws \in WithTab(us)
    BY <1>4, <2>1, WithTabFacts
  <2>2. CASE ws = us
    BY <1>4, <2>2 DEF AsksAsBefore
  <2>3. CASE ws = Append(us, v)
    BY <1>4, <1>5, <1>6, <2>3, OneMoreWindow
  <2> QED
    BY <1>8, <2>1, <2>2, <2>3
<1>10. Follows(i, ws) /\ \A x \in Shown(Restoring(i)) : x \in Shown(ws)
  BY <1>1, <1>3, <1>9, FollowsOn
<1> QED
  BY <1>1, <1>2, <1>8, <1>10, AnswersRestored DEF i

LEMMA AppActionAnswers == ASSUME Orderly, AppAction PROVE Answers("main")
<1> DEFINE i == "main"
<1>1. i \in Instances /\ OpenWindows(windows[i])
  BY TypeFacts DEF Instances
<1>2. Asks(i) /\ LeavesSession /\ preferences' \in [Instances -> BOOLEAN]
  BY TypeFacts DEF AppAction
<1>3. \E ws : Serves(i, ws) /\ (ws \in WithTab(windows[i]) \/ ws = OneMore(windows[i]) \/ ws = windows[i])
  BY DEF AppAction
<1> HIDE DEF i
<1>4. PICK ws : Serves(i, ws) /\ (ws \in WithTab(windows[i]) \/ ws = OneMore(windows[i]) \/ ws = windows[i])
  BY <1>3
<1>5. Follows(i, ws)
  <2>1. CASE ws \in WithTab(windows[i])
    BY <1>1, <2>1, WithTabFacts DEF Follows
  <2>2. CASE ws = OneMore(windows[i])
    BY <1>1, <2>2, OneMoreFacts DEF Follows
  <2>3. CASE ws = windows[i]
    BY <1>1, <2>3, FollowsItself
  <2> QED
    BY <1>4, <2>1, <2>2, <2>3
<1> QED
  BY <1>1, <1>2, <1>4, <1>5, AnswersAsItIs DEF i

(* ---- The order, and what the instance does ------------------------------- *)

LEMMA ServesOrderly ==
    ASSUME Orderly, unsaved' \subseteq kept',
           NEW i \in Instances, NEW ws, OpenWindows(ws), Serves(i, ws),
           LeavesSession \/ MarksRestored(i), preferences' \in [Instances -> BOOLEAN]
    PROVE  Orderly'
<1>1. /\ phase' = [phase EXCEPT ![i] = "running"]
      /\ windows' = [windows EXCEPT ![i] = ws]
      /\ UNCHANGED <<file, restore_session, writes, kept>>
      /\ excused' \in BOOLEAN
  BY TypeFacts DEF Serves
<1>2. /\ Stored(session[i]) /\ Stored(NoSession) /\ has_restored_session[i] \in BOOLEAN
      /\ writes[i] \in Seq(Seq(SavedWindow)) /\ \A n \in 1 .. Len(writes[i]) : TidyList(writes[i][n])
  BY TypeFacts DEF Orderly, ListsTidy, Stored
<1>3. /\ Stored(file') /\ restore_session' \in BOOLEAN /\ kept' \subseteq Pinnable
  BY <1>1, TypeFacts
<1>4. CASE LeavesSession
  <2>1. Becomes(i, "running", session[i], has_restored_session[i], ws, writes[i])
    BY <1>1, <1>4, TypeFacts DEF LeavesSession, Becomes
  <2> QED
    BY <1>1, <1>2, <1>3, <2>1, OneOrderly
<1>5. CASE MarksRestored(i)
  <2> DEFINE h == has_restored_session[i] \/ CanRestore(i)
  <2>1. h \in BOOLEAN
    BY <1>2 DEF CanRestore
  <2>2. Becomes(i, "running", NoSession, h, ws, writes[i])
    BY <1>1, <1>5, TypeFacts DEF MarksRestored, Becomes
  <2> HIDE DEF h
  <2> QED
    BY <1>1, <1>2, <1>3, <2>1, <2>2, OneOrderly
<1> QED
  BY <1>4, <1>5

LEMMA AnswersOrderly ==
    ASSUME Orderly, unsaved' \subseteq kept', NEW i \in Instances, Answers(i) PROVE Orderly'
<1>1. PICK ws : AnswersWith(i, ws)
  BY DEF Answers
<1>2. OpenWindows(ws)
  BY <1>1 DEF AnswersWith, Follows
<1> QED
  BY <1>1, <1>2, ServesOrderly DEF AnswersWith

LEMMA StartOrderly ==
    ASSUME Orderly, unsaved' \subseteq kept', NEW i \in Instances, Start(i)
    PROVE  Orderly'
<1>1. /\ phase' = [phase EXCEPT ![i] = "started"]
      /\ session' = [session EXCEPT ![i] = file]
      /\ UNCHANGED <<file, restore_session, has_restored_session, windows, preferences,
                     writes, kept, excused>>
  BY DEF Start
<1>2. Becomes(i, "started", file, has_restored_session[i], windows[i], writes[i])
  BY <1>1, TypeFacts DEF Becomes
<1>3. /\ has_restored_session[i] \in BOOLEAN /\ OpenWindows(windows[i])
      /\ writes[i] \in Seq(Seq(SavedWindow)) /\ \A n \in 1 .. Len(writes[i]) : TidyList(writes[i][n])
  BY TypeFacts DEF Orderly, ListsTidy
<1>4. /\ Stored(file) /\ Stored(file') /\ restore_session' \in BOOLEAN /\ excused' \in BOOLEAN
      /\ kept' \subseteq Pinnable /\ preferences' \in [Instances -> BOOLEAN]
  BY <1>1, TypeFacts
<1> QED
  BY <1>2, <1>3, <1>4, OneOrderly

(* The first of the writes is the file now, the others are to come.        *)
LEMMA WriteLandsFacts ==
    ASSUME Orderly, NEW i \in Instances, WriteLands(i)
    PROVE  \E q : /\ writes' = [writes EXCEPT ![i] = q]
                  /\ q \in Seq(Seq(SavedWindow)) /\ \A n \in 1 .. Len(q) : TidyList(q[n])
                  /\ LastSaved(file', q) = LastSaved(file, writes[i])
                  /\ Stored(file')
<1> DEFINE p == writes[i]
           q == Tail(p)
           s == Head(p)
<1>1. /\ p # << >> /\ file' = s
      /\ writes' = [writes EXCEPT ![i] = q]
  BY DEF WriteLands
<1>2. p \in Seq(Seq(SavedWindow)) /\ \A n \in 1 .. Len(p) : TidyList(p[n])
  BY TypeFacts DEF Orderly, ListsTidy
<1> HIDE DEF p
<1>3. /\ q \in Seq(Seq(SavedWindow)) /\ s = p[1] /\ Len(p) \in Nat /\ Len(p) # 0
      /\ Len(q) = Len(p) - 1 /\ \A n \in 1 .. Len(p) - 1 : q[n] = p[n + 1]
  <2>1. q \in Seq(Seq(SavedWindow)) /\ Len(q) = Len(p) - 1 /\ \A n \in 1 .. Len(q) : q[n] = p[n + 1]
    BY <1>1, <1>2, HeadTailProperties
  <2>2. s = p[1] /\ Len(p) \in Nat /\ Len(p) # 0
    BY <1>1, <1>2, EmptySeq, LenProperties
  <2> QED
    BY <2>1, <2>2
<1>4. TidyList(s)
  BY <1>2, <1>3
<1> HIDE DEF s, q
<1>5. \A n \in 1 .. Len(q) : TidyList(q[n])
  <2> SUFFICES ASSUME NEW n \in 1 .. Len(q) PROVE TidyList(q[n])
    OBVIOUS
  <2>1. n + 1 \in 1 .. Len(p) /\ n \in 1 .. Len(p) - 1
    BY <1>3
  <2> QED
    BY <1>2, <1>3, <2>1
<1>6. LastSaved(file', q) = LastSaved(file, p)
  <2>1. CASE q = << >>
    <3>1. Len(q) = 0
      BY <2>1, EmptySeq
    <3>2. Len(p) = 1
      BY <1>3, <3>1
    <3> QED
      BY <1>1, <1>3, <2>1, <3>2 DEF LastSaved
  <2>2. CASE q # << >>
    <3>1. Len(q) # 0
      BY <1>3, <2>2, EmptySeq
    <3>2. Len(q) \in 1 .. Len(p) - 1 /\ Len(q) + 1 = Len(p)
      BY <1>3, <3>1
    <3>3. q[Len(q)] = p[Len(p)]
      BY <1>3, <3>2
    <3> QED
      BY <1>1, <2>2, <3>3 DEF LastSaved
  <2> QED
    BY <2>1, <2>2
<1> QED
  BY <1>1, <1>3, <1>4, <1>5, <1>6 DEF p, Stored

LEMMA WriteLandsOrderly ==
    ASSUME Orderly, unsaved' \subseteq kept', NEW i \in Instances, WriteLands(i)
    PROVE  Orderly'
<1>1. PICK q : /\ writes' = [writes EXCEPT ![i] = q]
               /\ q \in Seq(Seq(SavedWindow)) /\ \A n \in 1 .. Len(q) : TidyList(q[n])
               /\ Stored(file')
  BY WriteLandsFacts
<1>2. UNCHANGED <<restore_session, phase, session, has_restored_session, windows, preferences,
                  kept, excused>>
  BY DEF WriteLands
<1>3. Becomes(i, phase[i], session[i], has_restored_session[i], windows[i], q)
  BY <1>1, <1>2, TypeFacts DEF Becomes
<1>4. /\ phase[i] \in {"off", "started", "running"} /\ has_restored_session[i] \in BOOLEAN
      /\ Stored(session[i]) /\ OpenWindows(windows[i])
  BY TypeFacts DEF Orderly, ListsTidy
<1>5. /\ restore_session' \in BOOLEAN /\ excused' \in BOOLEAN
      /\ kept' \subseteq Pinnable /\ preferences' \in [Instances -> BOOLEAN]
  BY <1>2, TypeFacts
<1> QED
  BY <1>1, <1>3, <1>4, <1>5, OneOrderly

LEMMA EndsOrderly ==
    ASSUME Orderly, unsaved' \subseteq kept',
           NEW i \in Instances, Ends(i), kept' \subseteq kept PROVE Orderly'
<1> DEFINE e == << >>
<1>1. Becomes(i, "off", NoSession, FALSE, e, e)
  BY DEF Ends, Becomes
<1>2. UNCHANGED <<file, restore_session, excused>> /\ preferences' = [preferences EXCEPT ![i] = FALSE]
  BY DEF Ends
<1>3. /\ Stored(NoSession) /\ OpenWindows(e) /\ e \in Seq(Seq(SavedWindow)) /\ 1 .. Len(e) = {}
  BY NoWindows DEF Stored
<1>4. /\ Stored(file') /\ restore_session' \in BOOLEAN /\ excused' \in BOOLEAN
      /\ kept' \subseteq Pinnable /\ preferences' \in [Instances -> BOOLEAN]
  BY <1>2, TypeFacts
<1> HIDE DEF e
<1> QED
  BY <1>1, <1>3, <1>4, OneOrderly

LEMMA RestOrderly ==
    ASSUME Orderly, unsaved' \subseteq kept',
           restore_session' \in BOOLEAN, preferences' \in [Instances -> BOOLEAN],
           UNCHANGED <<file, phase, session, has_restored_session, windows, writes, kept, excused>>
    PROVE  Orderly'
<1>1. SessionTypeOK'
  BY DEF Orderly, SessionTypeOK
<1>2. ListsTidy'
  BY DEF Orderly, ListsTidy
<1> QED
  BY <1>1, <1>2 DEF Orderly

(* ---- The invariant in those steps ---------------------------------------- *)

LEMMA CanRestoreFacts ==
    ASSUME SessionInv, NEW i \in Instances PROVE CanRestore(i) <=> session[i] # NoSession
BY DEF CanRestore, SessionInv, Unread

(* A request that leaves the session as it is: it is read by now, or else    *)
(* the instance excuses itself when it opens a window.                     *)
LEMMA ServedAsItIs ==
    ASSUME SessionInv, unsaved' \subseteq kept',
           NEW i \in Instances, NEW ws, Asks(i), Follows(i, ws), Serves(i, ws),
           LeavesSession, preferences' \in [Instances -> BOOLEAN]
    PROVE  SessionInv'
<1>0. Orderly
  BY DEF SessionInv
<1>1. phase[i] # "off" /\ phase[i] \in {"started", "running"}
  BY DEF Asks
<1>2. /\ Others(i)
      /\ Fine(phase[i], session[i], has_restored_session[i], windows[i], writes[i], file, kept, excused)
  BY <1>1, RunsAlone
<1>3. /\ phase' = [phase EXCEPT ![i] = "running"]
      /\ windows' = [windows EXCEPT ![i] = ws]
      /\ file' = file /\ restore_session' = restore_session /\ writes' = writes /\ kept' = kept
      /\ excused' = (excused \/
          /\ ws # <<>>
          /\ \/ session'[i] # NoSession
             \/ windows[i] = <<>> /\ phase[i] = "running" /\ ~CanRestore(i))
  BY DEF Serves
<1>4. session' = session /\ has_restored_session' = has_restored_session
  BY DEF LeavesSession
<1>5. Becomes(i, "running", session[i], has_restored_session[i], ws, writes[i])
  BY <1>3, <1>4, <1>0, TypeFacts DEF Becomes
<1>6. excused' \in BOOLEAN /\ (excused => excused')
  BY <1>3, <1>0, TypeFacts
<1>7. CanRestore(i) <=> session[i] # NoSession
  BY CanRestoreFacts
<1>8. /\ Stored(session[i]) /\ has_restored_session[i] \in BOOLEAN
      /\ writes[i] \in Seq(Seq(SavedWindow)) /\ \A n \in 1 .. Len(writes[i]) : TidyList(writes[i][n])
      /\ phase[i] # "running" => windows[i] = << >> /\ writes[i] = << >> /\ ~has_restored_session[i]
      /\ phase[i] = "started" => session[i] = file
      /\ session[i] # NoSession =>
            /\ ~has_restored_session[i]
            /\ excused \/ (windows[i] = << >> /\ writes[i] = << >> /\ session[i] = file)
      /\ ~excused =>
            kept \subseteq IF windows[i] = << >> THEN Recorded(LastSaved(file, writes[i])) ELSE Shown(windows[i])
      /\ \A w \in 1 .. Len(windows[i]) :
            windows[i][w].asking = "saved"
            => IdsIn(windows[i][w].tabs) \subseteq Recorded(LastSaved(file, writes[i]))
  BY <1>2 DEF Fine
<1>9. OpenWindows(ws) /\ AsksAsBefore(ws, windows[i]) /\ \A x \in Shown(windows[i]) : x \in Shown(ws)
  BY DEF Follows
<1>10. ASSUME NEW w \in 1 .. Len(ws), ws[w].asking = "saved"
       PROVE  IdsIn(ws[w].tabs) \subseteq Recorded(LastSaved(file, writes[i]))
  <2>1. PICK l \in 1 .. Len(windows[i]) :
           windows[i][l].asking = "saved" /\ IdsIn(ws[w].tabs) \subseteq IdsIn(windows[i][l].tabs)
    BY <1>9, <1>10 DEF AsksAsBefore
  <2> QED
    BY <1>8, <2>1
<1>11. windows[i] # << >> => phase[i] = "running"
  BY HasWindows
<1>12. session[i] # NoSession => excused' \/ (ws = << >> /\ writes[i] = << >> /\ session[i] = file)
  BY <1>3, <1>4, <1>6, <1>8
<1>13. ~excused' => kept \subseteq IF ws = << >> THEN Recorded(LastSaved(file, writes[i])) ELSE Shown(ws)
  <2> SUFFICES ASSUME ~excused'
               PROVE  kept \subseteq IF ws = << >> THEN Recorded(LastSaved(file, writes[i])) ELSE Shown(ws)
    OBVIOUS
  <2>1. ~excused
    BY <1>6
  <2>2. CASE windows[i] # << >>
    <3>1. \A x \in kept : x \in Shown(ws)
      BY <1>8, <1>9, <2>1, <2>2
    <3>2. ws = << >> => kept = {}
      BY <3>1, NoWindows
    <3> QED
      BY <3>1, <3>2
  <2>3. CASE windows[i] = << >> /\ ws = << >>
    BY <1>8, <2>1, <2>3
  <2>4. CASE windows[i] = << >> /\ ws # << >>
    <3>1. session[i] = NoSession
      BY <1>3, <1>4, <2>4
    <3>2. phase[i] = "started"
      BY <1>1, <1>3, <1>7, <2>4, <3>1
    <3>3. file = NoSession /\ writes[i] = << >>
      BY <1>8, <3>1, <3>2
    <3>4. kept = {}
      BY <1>8, <2>1, <2>4, <3>3 DEF LastSaved, Recorded
    <3> QED
      BY <3>4
  <2> QED
    BY <2>2, <2>3, <2>4
<1>14. Fine("running", session[i], has_restored_session[i], ws, writes[i], file', kept', excused')
  BY <1>3, <1>8, <1>9, <1>10, <1>12, <1>13 DEF Fine
<1>15. Stored(file') /\ restore_session' \in BOOLEAN /\ kept' \subseteq Pinnable
  BY <1>3, <1>0, TypeFacts
<1> QED
  BY <1>2, <1>5, <1>6, <1>14, <1>15, OneBecomes

(* A request that restores first: all that the session records comes back.  *)
LEMMA ServedRestored ==
    ASSUME SessionInv, unsaved' \subseteq kept',
           NEW i \in Instances, NEW ws, Asks(i), Follows(i, ws), Serves(i, ws),
           \A x \in Shown(Restoring(i)) : x \in Shown(ws),
           MarksRestored(i), preferences' \in [Instances -> BOOLEAN]
    PROVE  SessionInv'
<1>0. Orderly
  BY DEF SessionInv
<1>1. phase[i] # "off" /\ phase[i] \in {"started", "running"}
  BY DEF Asks
<1>2. /\ Others(i)
      /\ Fine(phase[i], session[i], has_restored_session[i], windows[i], writes[i], file, kept, excused)
  BY <1>1, RunsAlone
<1>3. /\ phase' = [phase EXCEPT ![i] = "running"]
      /\ windows' = [windows EXCEPT ![i] = ws]
      /\ file' = file /\ restore_session' = restore_session /\ writes' = writes /\ kept' = kept
      /\ excused' = (excused \/
          /\ ws # <<>>
          /\ \/ session'[i] # NoSession
             \/ windows[i] = <<>> /\ phase[i] = "running" /\ ~CanRestore(i))
  BY DEF Serves
<1> DEFINE h == has_restored_session[i] \/ CanRestore(i)
<1>4. /\ session' = [session EXCEPT ![i] = NoSession]
      /\ has_restored_session' = [has_restored_session EXCEPT ![i] = h]
  BY DEF MarksRestored
<1>5. Becomes(i, "running", NoSession, h, ws, writes[i])
  BY <1>3, <1>4, <1>0, TypeFacts DEF Becomes
<1>6. excused' \in BOOLEAN /\ (excused => excused')
  BY <1>3, <1>0, TypeFacts
<1>7. /\ CanRestore(i) <=> session[i] # NoSession
      /\ CanRestore(i) => Shown(Restoring(i)) = Recorded(session[i])
  BY <1>0, CanRestoreFacts, RestoringFacts
<1>8. /\ Stored(session[i]) /\ has_restored_session[i] \in BOOLEAN
      /\ writes[i] \in Seq(Seq(SavedWindow)) /\ \A n \in 1 .. Len(writes[i]) : TidyList(writes[i][n])
      /\ phase[i] # "running" => windows[i] = << >> /\ writes[i] = << >> /\ ~has_restored_session[i]
      /\ phase[i] = "started" => session[i] = file
      /\ session[i] # NoSession =>
            /\ ~has_restored_session[i]
            /\ excused \/ (windows[i] = << >> /\ writes[i] = << >> /\ session[i] = file)
      /\ ~excused =>
            kept \subseteq IF windows[i] = << >> THEN Recorded(LastSaved(file, writes[i])) ELSE Shown(windows[i])
      /\ \A w \in 1 .. Len(windows[i]) :
            windows[i][w].asking = "saved"
            => IdsIn(windows[i][w].tabs) \subseteq Recorded(LastSaved(file, writes[i]))
  BY <1>2 DEF Fine
<1>9. OpenWindows(ws) /\ AsksAsBefore(ws, windows[i]) /\ \A x \in Shown(windows[i]) : x \in Shown(ws)
  BY DEF Follows
<1>10. ASSUME NEW w \in 1 .. Len(ws), ws[w].asking = "saved"
       PROVE  IdsIn(ws[w].tabs) \subseteq Recorded(LastSaved(file, writes[i]))
  <2>1. PICK l \in 1 .. Len(windows[i]) :
           windows[i][l].asking = "saved" /\ IdsIn(ws[w].tabs) \subseteq IdsIn(windows[i][l].tabs)
    BY <1>9, <1>10 DEF AsksAsBefore
  <2> QED
    BY <1>8, <2>1
<1>11. h \in BOOLEAN
  BY <1>8 DEF CanRestore
<1>12. ~excused' => kept \subseteq IF ws = << >> THEN Recorded(LastSaved(file, writes[i])) ELSE Shown(ws)
  <2> SUFFICES ASSUME ~excused'
               PROVE  kept \subseteq IF ws = << >> THEN Recorded(LastSaved(file, writes[i])) ELSE Shown(ws)
    OBVIOUS
  <2>1. ~excused
    BY <1>6
  <2>2. CASE windows[i] # << >>
    <3>1. \A x \in kept : x \in Shown(ws)
      BY <1>8, <1>9, <2>1, <2>2
    <3>2. ws = << >> => kept = {}
      BY <3>1, NoWindows
    <3> QED
      BY <3>1, <3>2
  <2>3. CASE windows[i] = << >> /\ ws = << >>
    BY <1>8, <2>1, <2>3
  <2>4. CASE windows[i] = << >> /\ ws # << >>
    <3>1. CASE CanRestore(i)
      <4>1. session[i] = file /\ writes[i] = << >>
        BY <1>7, <1>8, <2>1, <3>1
      <4>2. kept \subseteq Recorded(session[i])
        BY <1>8, <2>1, <2>4, <4>1 DEF LastSaved
      <4>3. \A x \in kept : x \in Shown(ws)
        BY <1>7, <3>1, <4>2
      <4> QED
        BY <2>4, <4>3
    <3>2. CASE ~CanRestore(i)
      <4>1. phase[i] = "started"
        BY <1>1, <1>3, <2>4, <3>2
      <4>2. file = NoSession /\ writes[i] = << >>
        BY <1>7, <1>8, <3>2, <4>1
      <4>3. kept = {}
        BY <1>8, <2>1, <2>4, <4>2 DEF LastSaved, Recorded
      <4> QED
        BY <4>3
    <3> QED
      BY <3>1, <3>2
  <2> QED
    BY <2>2, <2>3, <2>4
<1> HIDE DEF h
<1>13. Stored(NoSession)
  BY DEF Stored
<1>14. Fine("running", NoSession, h, ws, writes[i], file', kept', excused')
  BY <1>3, <1>8, <1>9, <1>10, <1>11, <1>12, <1>13 DEF Fine
<1>15. Stored(file') /\ restore_session' \in BOOLEAN /\ kept' \subseteq Pinnable
  BY <1>3, <1>0, TypeFacts
<1> QED
  BY <1>2, <1>5, <1>6, <1>14, <1>15, OneBecomes

LEMMA AnswersInv ==
    ASSUME SessionInv, unsaved' \subseteq kept', NEW i \in Instances, Answers(i) PROVE SessionInv'
<1>1. PICK ws : AnswersWith(i, ws)
  BY DEF Answers
<1> QED
  BY <1>1, ServedAsItIs, ServedRestored DEF AnswersWith

LEMMA OpenCommandInv == ASSUME SessionInv, unsaved' \subseteq kept', OpenCommand PROVE SessionInv'
<1>0. Orderly
  BY DEF SessionInv
<1>1. /\ "solo" \in Instances /\ phase["solo"] = "started"
      /\ Asks("solo") /\ LeavesSession /\ preferences' \in [Instances -> BOOLEAN]
  BY <1>0, OpenCommandFacts
<1>2. PICK ws : Serves("solo", ws) /\ OpenWindows(ws) /\ AsksAsBefore(ws, << >>)
  BY <1>0, OpenCommandFacts
<1>3. windows["solo"] = << >>
  BY <1>1 DEF SessionInv, Untouched
<1>4. Follows("solo", ws)
  BY <1>2, <1>3, NoWindows DEF Follows
<1> QED
  BY <1>1, <1>2, <1>4, ServedAsItIs

(* The instance reads the file when no other does anything.                *)
LEMMA StartInv ==
    ASSUME SessionInv, unsaved' \subseteq kept',
           MaxInstances = 1, NEW i \in Instances, Start(i) PROVE SessionInv'
<1>0. Orderly
  BY DEF SessionInv
<1> DEFINE on == { j \in Instances : phase[j] # "off" }
<1>1. Cardinality(on) < MaxInstances
  BY DEF Start
<1>2. IsFiniteSet(on)
  <2>1. IsFiniteSet(Instances)
    <3>1. IsFiniteSet({"main"}) /\ IsFiniteSet({"solo"})
      BY FS_Singleton
    <3>2. Instances = {"main"} \cup {"solo"}
      BY DEF Instances
    <3> QED
      BY <3>1, <3>2, FS_Union
  <2> QED
    BY <2>1, FS_Subset
<1>3. on = {}
  <2>1. Cardinality(on) \in Nat
    BY <1>2, FS_CardinalityType
  <2>2. Cardinality(on) = 0
    BY <1>1, <2>1
  <2> QED
    BY <1>2, <2>2, FS_EmptySet
<1>4. \A j \in Instances : phase[j] = "off"
  BY <1>3
<1> HIDE DEF on
<1>5. Others(i)
  BY <1>4 DEF Others
<1>6. windows[i] = << >> /\ writes[i] = << >> /\ ~has_restored_session[i]
  BY <1>4 DEF SessionInv, Untouched
<1>7. /\ phase' = [phase EXCEPT ![i] = "started"]
      /\ session' = [session EXCEPT ![i] = file]
      /\ UNCHANGED <<file, restore_session, has_restored_session, windows, preferences,
                     writes, kept, excused>>
  BY DEF Start
<1>8. Becomes(i, "started", file, has_restored_session[i], windows[i], writes[i])
  BY <1>7, <1>0, TypeFacts DEF Becomes
<1>9. ~excused => kept \subseteq Recorded(LastSaved(file, writes[i]))
  BY <1>4, <1>6 DEF SessionInv, KeptThere, Keeps
<1>10. Stored(file) /\ has_restored_session[i] \in BOOLEAN /\ writes[i] \in Seq(Seq(SavedWindow))
  BY <1>0, TypeFacts
<1>11. OpenWindows(windows[i]) /\ Len(windows[i]) = 0 /\ Len(writes[i]) = 0 /\ 1 .. 0 = {}
  BY <1>6, NoWindows
<1>12. Fine("started", file, has_restored_session[i], windows[i], writes[i], file', kept', excused')
  BY <1>6, <1>7, <1>9, <1>10, <1>11 DEF Fine
<1>13. /\ Stored(file') /\ restore_session' \in BOOLEAN /\ excused' \in BOOLEAN
       /\ kept' \subseteq Pinnable /\ preferences' \in [Instances -> BOOLEAN]
  BY <1>7, <1>0, TypeFacts
<1> QED
  BY <1>5, <1>8, <1>12, <1>13, OneBecomes

(* The file is then what was to be the last, or will be.                   *)
LEMMA WriteLandsInv ==
    ASSUME SessionInv, unsaved' \subseteq kept', NEW i \in Instances, WriteLands(i)
    PROVE  SessionInv'
<1>0. Orderly
  BY DEF SessionInv
<1> DEFINE p == writes[i]
<1>1. /\ p # << >>
      /\ UNCHANGED <<restore_session, phase, session, has_restored_session, windows, preferences,
                     kept, excused>>
  BY DEF WriteLands
<1>2. phase[i] = "running"
  BY <1>1 DEF SessionInv, Untouched
<1>3. /\ Others(i)
      /\ Fine(phase[i], session[i], has_restored_session[i], windows[i], p, file, kept, excused)
  BY <1>2, RunsAlone
<1>4. PICK q : /\ writes' = [writes EXCEPT ![i] = q]
               /\ q \in Seq(Seq(SavedWindow)) /\ \A n \in 1 .. Len(q) : TidyList(q[n])
               /\ LastSaved(file', q) = LastSaved(file, p)
               /\ Stored(file')
  BY <1>0, WriteLandsFacts
<1> HIDE DEF p
<1>5. Becomes(i, phase[i], session[i], has_restored_session[i], windows[i], q)
  BY <1>0, <1>1, <1>4, TypeFacts DEF Becomes
<1>6. /\ Stored(session[i]) /\ has_restored_session[i] \in BOOLEAN /\ OpenWindows(windows[i])
      /\ session[i] # NoSession => ~has_restored_session[i] /\ excused
      /\ ~excused =>
            kept \subseteq IF windows[i] = << >> THEN Recorded(LastSaved(file, p)) ELSE Shown(windows[i])
      /\ \A w \in 1 .. Len(windows[i]) :
            windows[i][w].asking = "saved"
            => IdsIn(windows[i][w].tabs) \subseteq Recorded(LastSaved(file, p))
  BY <1>1, <1>3 DEF Fine
<1>7. Fine(phase[i], session[i], has_restored_session[i], windows[i], q, file', kept', excused')
  BY <1>1, <1>2, <1>4, <1>6 DEF Fine
<1>8. /\ restore_session' \in BOOLEAN /\ excused' \in BOOLEAN
      /\ kept' \subseteq Pinnable /\ preferences' \in [Instances -> BOOLEAN]
  BY <1>0, <1>1, TypeFacts
<1> QED
  BY <1>3, <1>4, <1>5, <1>7, <1>8, OneBecomes

LEMMA EndsInv ==
    ASSUME SessionInv, unsaved' \subseteq kept',
           NEW i \in Instances, phase[i] # "off", Ends(i), kept' \subseteq kept,
           ~excused => kept' \subseteq Recorded(file)
    PROVE  SessionInv'
<1>0. Orderly
  BY DEF SessionInv
<1>1. Others(i)
  BY RunsAlone
<1>2. Becomes(i, "off", NoSession, FALSE, << >>, << >>)
  BY DEF Ends, Becomes
<1>3. UNCHANGED <<file, restore_session, excused>> /\ preferences' = [preferences EXCEPT ![i] = FALSE]
  BY DEF Ends
<1>4. Stored(NoSession) /\ LastSaved(file, << >>) = file
  BY DEF Stored, LastSaved
<1>5. << >> \in Seq(Seq(SavedWindow)) /\ Len(<< >>) = 0 /\ 1 .. 0 = {}
  OBVIOUS
<1>6. Fine("off", NoSession, FALSE, << >>, << >>, file', kept', excused')
  <2> DEFINE e == << >>
  <2>1. e \in Seq(Seq(SavedWindow)) /\ 1 .. Len(e) = {} /\ LastSaved(file, e) = file /\ e = << >>
    BY <1>4, <1>5
  <2>2. OpenWindows(e)
    BY NoWindows
  <2>3. Fine("off", NoSession, FALSE, e, e, file', kept', excused')
    <3> HIDE DEF e
    <3> QED
      BY <1>3, <1>4, <2>1, <2>2 DEF Fine
  <2> QED
    BY <2>3
<1>7. /\ Stored(file') /\ restore_session' \in BOOLEAN /\ excused' \in BOOLEAN
      /\ kept' \subseteq Pinnable /\ preferences' \in [Instances -> BOOLEAN]
  BY <1>0, <1>3, TypeFacts
<1> QED
  BY <1>1, <1>2, <1>6, <1>7, OneBecomes

LEMMA QuitInv ==
    ASSUME SessionInv, unsaved' \subseteq kept', NEW i \in Instances, Quit(i)
    PROVE  SessionInv'
<1>1. phase[i] # "off" /\ windows[i] = << >> /\ writes[i] = << >> /\ Ends(i) /\ kept' = kept
  BY DEF Quit
<1>2. Fine(phase[i], session[i], has_restored_session[i], windows[i], writes[i], file, kept, excused)
  BY <1>1, RunsAlone
<1>3. ~excused => kept \subseteq Recorded(LastSaved(file, writes[i]))
  BY <1>1, <1>2 DEF Fine
<1>4. ~excused => kept \subseteq Recorded(file)
  BY <1>1, <1>3 DEF LastSaved
<1> QED
  BY <1>1, <1>4, EndsInv

LEMMA DiesInv ==
    ASSUME SessionInv, Landed, unsaved' \subseteq kept', NEW i \in Instances, Dies(i)
    PROVE  SessionInv'
<1>1. phase[i] # "off" /\ Ends(i) /\ kept' = kept \ unsaved
  BY DEF Dies, Forgets
<1>2. ~excused => kept' \subseteq Recorded(file)
  BY <1>1 DEF Landed
<1> QED
  BY <1>1, <1>2, EndsInv

(* Nothing but the setting or the preferences windows changes.             *)
LEMMA RestInv ==
    ASSUME SessionInv, unsaved' \subseteq kept',
           restore_session' \in BOOLEAN, preferences' \in [Instances -> BOOLEAN],
           UNCHANGED <<file, phase, session, has_restored_session, windows, writes, kept, excused>>
    PROVE  SessionInv'
<1>1. Orderly
  BY DEF SessionInv
<1>2. Orderly'
  BY <1>1, RestOrderly
<1>3. Alone' /\ Untouched' /\ Unread'
  BY DEF SessionInv, Alone, Untouched, Unread
<1>4. KeptThere'
  BY DEF SessionInv, KeptThere, Keeps
<1>5. AskedSaved'
  BY DEF SessionInv, AskedSaved
<1> QED
  BY <1>2, <1>3, <1>4, <1>5 DEF SessionInv

-----------------------------------------------------------------------------
(* What a crash cannot take *)

(* No step but a save and the landing of a write disturbs this.            *)
Calm ==
    /\ file' = file /\ writes' = writes /\ (excused => excused')
    /\ kept' \subseteq kept /\ kept' \ unsaved' \subseteq kept \ unsaved

LEMMA CalmLanded == ASSUME Landed, Calm PROVE Landed'
<1>1. CASE excused'
  BY <1>1 DEF Landed
<1>2. CASE ~excused'
  <2>1. /\ kept \ unsaved \subseteq Recorded(file)
        /\ \A i \in Instances : \A n \in 1 .. Len(writes[i]) :
              /\ kept \ unsaved \subseteq Recorded(writes[i][n])
              /\ \A m \in 1 .. n : kept \cap Recorded(writes[i][m]) \subseteq Recorded(writes[i][n])
    BY <1>2 DEF Landed, Calm
  <2>2. kept' \ unsaved' \subseteq Recorded(file')
    BY <2>1 DEF Calm
  <2>3. ASSUME NEW i \in Instances, NEW n \in 1 .. Len(writes'[i])
        PROVE  /\ kept' \ unsaved' \subseteq Recorded(writes'[i][n])
               /\ \A m \in 1 .. n : kept' \cap Recorded(writes'[i][m]) \subseteq Recorded(writes'[i][n])
    BY <2>1 DEF Calm
  <2> QED
    BY <2>2, <2>3 DEF Landed
<1> QED
  BY <1>1, <1>2

(* A save has all kept tabs that the windows show.                         *)
LEMMA SaveLanded ==
    ASSUME Orderly, Landed, NEW i \in Instances, NEW us, OpenWindows(us), Save(i, us),
           file' = file, excused' = excused, kept' \subseteq kept,
           kept' \ unsaved' \subseteq kept \ unsaved, ~excused => kept' \subseteq Shown(us)
    PROVE  Landed'
<1>1. PICK s : /\ writes' = [writes EXCEPT ![i] = Append(writes[i], s)]
               /\ TidyList(s) /\ Recorded(s) = Shown(us)
  BY TypeFacts, SavedFacts DEF Save
<1> SUFFICES ASSUME ~excused PROVE Landed'
  BY DEF Landed
<1>2. /\ kept \ unsaved \subseteq Recorded(file)
      /\ \A j \in Instances : \A n \in 1 .. Len(writes[j]) :
            /\ kept \ unsaved \subseteq Recorded(writes[j][n])
            /\ \A m \in 1 .. n : kept \cap Recorded(writes[j][m]) \subseteq Recorded(writes[j][n])
  BY DEF Landed
<1>3. kept' \ unsaved' \subseteq Recorded(file')
  BY <1>2
<1> DEFINE p == writes[i]
           q == Append(p, s)
<1>4. writes'[i] = q /\ \A j \in Instances : j # i => writes'[j] = writes[j]
  BY <1>1, TypeFacts
<1>5. p \in Seq(Seq(SavedWindow)) /\ s \in Seq(SavedWindow) /\ kept' \subseteq Recorded(s)
  BY <1>1, TypeFacts DEF TidyList
<1>6. \A n \in 1 .. Len(p) :
         /\ kept \ unsaved \subseteq Recorded(p[n])
         /\ \A m \in 1 .. n : kept \cap Recorded(p[m]) \subseteq Recorded(p[n])
  BY <1>2
<1> HIDE DEF p
<1>7. Len(p) \in Nat /\ Len(q) = Len(p) + 1 /\ q[Len(p) + 1] = s /\ \A n \in 1 .. Len(p) : q[n] = p[n]
  BY <1>5, AppendProperties
<1> HIDE DEF q
<1>8. ASSUME NEW n \in 1 .. Len(q)
      PROVE  /\ kept' \ unsaved' \subseteq Recorded(q[n])
             /\ \A m \in 1 .. n : kept' \cap Recorded(q[m]) \subseteq Recorded(q[n])
  <2>1. CASE n = Len(p) + 1
    BY <1>5, <1>7, <2>1
  <2>2. CASE n \in 1 .. Len(p)
    <3>1. q[n] = p[n] /\ \A m \in 1 .. n : m \in 1 .. Len(p) /\ q[m] = p[m]
      BY <1>7, <2>2
    <3> QED
      BY <1>6, <2>2, <3>1
  <2> QED
    BY <1>7, <2>1, <2>2
<1>9. ASSUME NEW j \in Instances, NEW n \in 1 .. Len(writes'[j])
      PROVE  /\ kept' \ unsaved' \subseteq Recorded(writes'[j][n])
             /\ \A m \in 1 .. n : kept' \cap Recorded(writes'[j][m]) \subseteq Recorded(writes'[j][n])
  <2>1. CASE j = i
    BY <1>4, <1>8, <2>1
  <2>2. CASE j # i
    <3>1. writes'[j] = writes[j]
      BY <1>4, <2>2
    <3>2. /\ kept \ unsaved \subseteq Recorded(writes[j][n])
          /\ \A m \in 1 .. n : kept \cap Recorded(writes[j][m]) \subseteq Recorded(writes[j][n])
      BY <1>2, <3>1
    <3> QED
      BY <3>1, <3>2
  <2> QED
    BY <2>1, <2>2
<1> QED
  BY <1>3, <1>9 DEF Landed

(* A tab that gets pinned is in no session yet.                            *)
LEMMA PinLanded ==
    ASSUME Landed, NEW i \in Instances, NEW w \in DOMAIN windows[i], Pin(i, w),
           writes \in [Instances -> Seq(Seq(SavedWindow))]
    PROVE  Landed'
<1>1. PICK id \in Unused : kept' = kept \cup {id} /\ unsaved' = unsaved \cup {id}
  BY DEF Pin
<1>2. file' = file /\ writes' = writes /\ excused' = excused
  BY DEF Pin, KeepsTheRest
<1>3. ASSUME NEW j \in Instances, NEW n \in 1 .. Len(writes[j]) PROVE id \notin Recorded(writes[j][n])
  <2>1. writes[j] \in Seq(Seq(SavedWindow))
    OBVIOUS
  <2>2. writes[j][n] \in ToSet(writes[j])
    <3> DEFINE q == writes[j]
    <3>1. DOMAIN q = 1 .. Len(q) /\ n \in 1 .. Len(q)
      BY <2>1, LenProperties
    <3> HIDE DEF q
    <3>2. q[n] \in ToSet(q)
      BY <3>1 DEF ToSet
    <3> QED
      BY <3>2 DEF q
  <2>3. id \notin UNION {UNION {Recorded(s) : s \in ToSet(writes[k])} : k \in Instances}
    BY DEF Unused
  <2>4. id \notin UNION {Recorded(s) : s \in ToSet(writes[j])}
    BY <2>3
  <2> QED
    BY <2>2, <2>4
<1> SUFFICES ASSUME ~excused PROVE Landed'
  BY <1>2 DEF Landed
<1>4. /\ kept \ unsaved \subseteq Recorded(file)
      /\ \A j \in Instances : \A n \in 1 .. Len(writes[j]) :
            /\ kept \ unsaved \subseteq Recorded(writes[j][n])
            /\ \A m \in 1 .. n : kept \cap Recorded(writes[j][m]) \subseteq Recorded(writes[j][n])
  BY DEF Landed
<1>5. kept' \ unsaved' \subseteq kept \ unsaved
  BY <1>1
<1>6. kept' \ unsaved' \subseteq Recorded(file')
  BY <1>2, <1>4, <1>5
<1>7. ASSUME NEW j \in Instances, NEW n \in 1 .. Len(writes[j])
      PROVE  /\ kept' \ unsaved' \subseteq Recorded(writes[j][n])
             /\ \A m \in 1 .. n : kept' \cap Recorded(writes[j][m]) \subseteq Recorded(writes[j][n])
  <2>1. kept' \ unsaved' \subseteq Recorded(writes[j][n])
    BY <1>4, <1>5
  <2>2. ASSUME NEW m \in 1 .. n PROVE kept' \cap Recorded(writes[j][m]) \subseteq Recorded(writes[j][n])
    <3>1. m \in 1 .. Len(writes[j])
      BY LenProperties
    <3>2. id \notin Recorded(writes[j][m])
      BY <1>3, <3>1
    <3>3. kept \cap Recorded(writes[j][m]) \subseteq Recorded(writes[j][n])
      BY <1>4
    <3> QED
      BY <1>1, <3>2, <3>3
  <2> QED
    BY <2>1, <2>2
<1> QED
  BY <1>2, <1>6, <1>7 DEF Landed

(* The write that lands brings its tabs for good.                          *)
LEMMA WriteLandsLanded ==
    ASSUME SessionInv, Landed, NEW i \in Instances, WriteLands(i) PROVE Landed'
<1> DEFINE p == writes[i]
           q == Tail(p)
<1>1. /\ p # << >> /\ file' = Head(p) /\ writes' = [writes EXCEPT ![i] = q]
      /\ unsaved' = unsaved \ Recorded(file') /\ kept' = kept /\ excused' = excused
  BY DEF WriteLands
<1>2. p \in Seq(Seq(SavedWindow)) /\ writes \in [Instances -> Seq(Seq(SavedWindow))]
  BY TypeFacts DEF SessionInv
<1>3. \A j \in Instances \ {i} : writes[j] = << >>
  <2>1. phase[i] # "off"
    BY <1>1 DEF SessionInv, Untouched
  <2> QED
    BY <2>1, RunsAlone
<1> SUFFICES ASSUME ~excused PROVE Landed'
  BY <1>1 DEF Landed
<1>4. \A n \in 1 .. Len(p) :
         /\ kept \ unsaved \subseteq Recorded(p[n])
         /\ \A m \in 1 .. n : kept \cap Recorded(p[m]) \subseteq Recorded(p[n])
  BY DEF Landed
<1>5. writes'[i] = q /\ \A j \in Instances \ {i} : writes'[j] = << >>
  BY <1>1, <1>2, <1>3
<1> HIDE DEF p
<1>6. /\ Len(p) \in Nat /\ 1 \in 1 .. Len(p) /\ Head(p) = p[1] /\ Len(q) = Len(p) - 1
      /\ \A n \in 1 .. Len(q) : n + 1 \in 1 .. Len(p) /\ q[n] = p[n + 1]
  <2>1. Len(p) \in Nat /\ Len(p) # 0
    BY <1>1, <1>2, EmptySeq, LenProperties
  <2>2. Len(q) = Len(p) - 1 /\ \A n \in 1 .. Len(q) : q[n] = p[n + 1]
    BY <1>1, <1>2, HeadTailProperties
  <2>3. Head(p) = p[1]
    BY <1>1, <1>2, HeadTailProperties
  <2> HIDE DEF q
  <2> QED
    BY <2>1, <2>2, <2>3
<1> HIDE DEF q
<1>7. kept' \ unsaved' \subseteq (kept \ unsaved) \cup (kept \cap Recorded(p[1]))
  BY <1>1, <1>6
<1>8. kept' \ unsaved' \subseteq Recorded(file')
  BY <1>1, <1>4, <1>6, <1>7
<1>9. ASSUME NEW n \in 1 .. Len(q)
      PROVE  /\ kept' \ unsaved' \subseteq Recorded(q[n])
             /\ \A m \in 1 .. n : kept' \cap Recorded(q[m]) \subseteq Recorded(q[n])
  <2>1. n + 1 \in 1 .. Len(p) /\ q[n] = p[n + 1] /\ 1 \in 1 .. n + 1
    BY <1>6
  <2>2. /\ kept \ unsaved \subseteq Recorded(p[n + 1])
        /\ \A m \in 1 .. n + 1 : kept \cap Recorded(p[m]) \subseteq Recorded(p[n + 1])
    BY <1>4, <2>1
  <2>3. ASSUME NEW m \in 1 .. n PROVE kept' \cap Recorded(q[m]) \subseteq Recorded(q[n])
    <3>1. m \in 1 .. Len(q) /\ m + 1 \in 1 .. n + 1
      BY <1>6
    <3>2. q[m] = p[m + 1]
      BY <1>6, <3>1
    <3> QED
      BY <1>1, <2>1, <2>2, <3>1, <3>2
  <2> QED
    BY <1>7, <2>1, <2>2, <2>3
<1>10. ASSUME NEW j \in Instances, NEW n \in 1 .. Len(writes'[j])
       PROVE  /\ kept' \ unsaved' \subseteq Recorded(writes'[j][n])
              /\ \A m \in 1 .. n : kept' \cap Recorded(writes'[j][m]) \subseteq Recorded(writes'[j][n])
  <2>1. CASE j = i
    BY <1>5, <1>9, <2>1
  <2>2. CASE j # i
    <3>1. n \in 1 .. Len(<< >>)
      BY <1>5, <2>2
    <3> QED
      BY <3>1
  <2> QED
    BY <2>1, <2>2
<1> QED
  BY <1>8, <1>10 DEF Landed

(* What the program was to write goes with it.                             *)
LEMMA EndsLanded ==
    ASSUME Orderly, Landed, NEW i \in Instances, Ends(i), kept' \subseteq kept,
           kept' \ unsaved' \subseteq kept \ unsaved
    PROVE  Landed'
<1>1. file' = file /\ excused' = excused /\ writes' = [writes EXCEPT ![i] = << >>]
  BY DEF Ends
<1>2. writes'[i] = << >> /\ \A j \in Instances : j # i => writes'[j] = writes[j]
  BY <1>1, TypeFacts
<1> SUFFICES ASSUME ~excused PROVE Landed'
  BY <1>1 DEF Landed
<1>3. /\ kept \ unsaved \subseteq Recorded(file)
      /\ \A j \in Instances : \A n \in 1 .. Len(writes[j]) :
            /\ kept \ unsaved \subseteq Recorded(writes[j][n])
            /\ \A m \in 1 .. n : kept \cap Recorded(writes[j][m]) \subseteq Recorded(writes[j][n])
  BY DEF Landed
<1>4. kept' \ unsaved' \subseteq Recorded(file')
  BY <1>1, <1>3
<1>5. ASSUME NEW j \in Instances, NEW n \in 1 .. Len(writes'[j])
      PROVE  /\ kept' \ unsaved' \subseteq Recorded(writes'[j][n])
             /\ \A m \in 1 .. n : kept' \cap Recorded(writes'[j][m]) \subseteq Recorded(writes'[j][n])
  <2>1. CASE j = i
    <3>1. n \in 1 .. Len(<< >>)
      BY <1>2, <2>1
    <3> QED
      BY <3>1
  <2>2. CASE j # i
    <3>1. writes'[j] = writes[j]
      BY <1>2, <2>2
    <3>2. /\ kept \ unsaved \subseteq Recorded(writes[j][n])
          /\ \A m \in 1 .. n : kept \cap Recorded(writes[j][m]) \subseteq Recorded(writes[j][n])
      BY <1>3, <3>1
    <3> QED
      BY <3>1, <3>2
  <2> QED
    BY <2>1, <2>2
<1> QED
  BY <1>4, <1>5 DEF Landed

(* The user closes or unpins tabs.                                         *)
LEMMA ForgetsFacts ==
    ASSUME NEW ids, Forgets(ids)
    PROVE  kept' \subseteq kept /\ kept' \ unsaved' \subseteq kept \ unsaved
BY DEF Forgets

LEMMA ServesCalm == ASSUME NEW i \in Instances, NEW ws, Serves(i, ws) PROVE Calm
BY DEF Serves, Calm

LEMMA RequestsServe ==
    ASSUME NEW i \in Instances,
           \/ Refused(i) \/ OpensNoTab(i) \/ OpenTab(i) \/ OpenWindow(i) \/ Activate(i)
           \/ OpenCommand \/ AppAction \/ \E valid \in BOOLEAN : Open(valid)
    PROVE  \E j \in Instances : \E ws : Serves(j, ws)
<1>1. CASE Refused(i)
  BY <1>1 DEF Refused
<1>2. CASE OpensNoTab(i)
  BY <1>2 DEF OpensNoTab
<1>3. CASE OpenTab(i)
  BY <1>3 DEF OpenTab
<1>4. CASE OpenWindow(i)
  BY <1>4 DEF OpenWindow
<1>5. CASE Activate(i)
  BY <1>5 DEF Activate
<1>6. CASE OpenCommand
  BY <1>6 DEF OpenCommand, Instances
<1>7. CASE AppAction
  BY <1>7 DEF AppAction, Instances
<1>8. CASE \E valid \in BOOLEAN : Open(valid)
  <2>1. "main" \in Instances
    BY DEF Instances
  <2>2. PICK valid \in BOOLEAN : Open(valid)
    BY <1>8
  <2>3. CASE Restoring("main") # << >> /\ valid
    BY <2>1, <2>2, <2>3 DEF Open
  <2>4. CASE Restoring("main") # << >> /\ ~valid
    BY <2>1, <2>2, <2>4 DEF Open
  <2>5. CASE Restoring("main") = << >>
    BY <2>1, <2>2, <2>5 DEF Open
  <2> QED
    BY <2>3, <2>4, <2>5
<1> QED
  BY <1>1, <1>2, <1>3, <1>4, <1>5, <1>6, <1>7, <1>8

LEMMA RequestsCalm ==
    ASSUME NEW i \in Instances,
           \/ Refused(i) \/ OpensNoTab(i) \/ OpenTab(i) \/ OpenWindow(i) \/ Activate(i)
           \/ OpenCommand \/ AppAction \/ \E valid \in BOOLEAN : Open(valid)
    PROVE  Calm
BY RequestsServe, ServesCalm

LEMMA OthersCalm ==
    ASSUME \/ \E i \in Instances :
                 \/ Start(i) \/ ClosePreferences(i)
                 \/ \E w \in DOMAIN windows[i] :
                      NewTab(i, w) \/ NewWindow(i, w) \/ OpenPreferences(i, w) \/ Unpin(i, w)
                      \/ CloseAnswered(i, w)
           \/ ChangeSetting \/ UNCHANGED sessionVars
    PROVE  Calm
<1>1. CASE ChangeSetting \/ UNCHANGED sessionVars
  BY <1>1 DEF ChangeSetting, sessionVars, Calm
<1>2. ASSUME NEW i \in Instances, Start(i) \/ ClosePreferences(i) PROVE Calm
  BY <1>2 DEF Start, ClosePreferences, Calm
<1>3. ASSUME NEW i \in Instances, NEW w \in DOMAIN windows[i],
             NewTab(i, w) \/ NewWindow(i, w) \/ OpenPreferences(i, w)
      PROVE  Calm
  BY <1>3 DEF NewTab, NewWindow, OpenPreferences, KeepsTheRest, Calm
<1>4. ASSUME NEW i \in Instances, NEW w \in DOMAIN windows[i], Unpin(i, w) PROVE Calm
  <2>1. \E ids : Forgets(ids)
    BY <1>4 DEF Unpin
  <2> QED
    BY <1>4, <2>1, ForgetsFacts DEF Unpin, KeepsTheRest, Calm
<1>5. ASSUME NEW i \in Instances, NEW w \in DOMAIN windows[i], CloseAnswered(i, w) PROVE Calm
  <2>1. file' = file /\ writes' = writes
    BY <1>5 DEF CloseAnswered
  <2>2. excused => excused'
    BY <1>5, Zenon DEF CloseAnswered
  <2>3. (\E ids : Forgets(ids)) \/ UNCHANGED <<kept, unsaved>>
    BY <1>5 DEF CloseAnswered
  <2> QED
    BY <2>1, <2>2, <2>3, ForgetsFacts DEF Calm
<1> QED
  BY <1>1, <1>2, <1>3, <1>4, <1>5

(* The tabs that a window shows when it saves.                             *)
LEMMA WindowsLanded ==
    ASSUME SessionInv, Landed, NEW i \in Instances, NEW w \in DOMAIN windows[i],
           TabGone(i, w) \/ CloseWindow(i, w) \/ AskToClose(i, w)
    PROVE  Landed'
<1>0. Orderly
  BY DEF SessionInv
<1>1. OpenWindows(windows[i]) /\ (~excused => kept \subseteq Shown(windows[i]))
  BY <1>0, WindowHere, HasWindows
<1>2. KeepsTheRest(i) /\ kept' \subseteq kept /\ kept' \ unsaved' \subseteq kept \ unsaved
  <2>1. CASE TabGone(i, w)
    <3>1. KeepsTheRest(i) /\ \E ids : Forgets(ids)
      BY <2>1 DEF TabGone
    <3> QED
      BY <3>1, ForgetsFacts
  <2>2. CASE CloseWindow(i, w)
    BY <2>2, ForgetsFacts DEF CloseWindow
  <2>3. CASE AskToClose(i, w)
    BY <2>3 DEF AskToClose
  <2> QED
    BY <2>1, <2>2, <2>3
<1>3. file' = file /\ excused' = excused
  BY <1>2 DEF KeepsTheRest
<1>4. \/ UNCHANGED writes
      \/ \E us : OpenWindows(us) /\ Save(i, us) /\ (~excused => kept' \subseteq Shown(us))
  <2>1. CASE TabGone(i, w)
    <3>1. PICK left, vs : LeavesIn(i, left, vs)
      BY <1>0, <2>1, TabGoneLeaves
    <3> QED
      BY <1>1, <3>1 DEF LeavesIn
  <2>2. CASE CloseWindow(i, w) \/ AskToClose(i, w)
    <3>1. SavesOnRequest(i, w)
      BY <2>2 DEF CloseWindow, AskToClose
    <3> QED
      BY <1>1, <1>2, <3>1, RequestFacts
  <2> QED
    BY <2>1, <2>2
<1>5. CASE UNCHANGED writes
  BY <1>2, <1>3, <1>5, CalmLanded DEF Calm
<1>6. CASE \E us : OpenWindows(us) /\ Save(i, us) /\ (~excused => kept' \subseteq Shown(us))
  BY <1>0, <1>2, <1>3, <1>6, SaveLanded
<1> QED
  BY <1>4, <1>5, <1>6

LEMMA NextLanded ==
    ASSUME SessionInv, Landed, [SessionNext]_sessionVars PROVE Landed'
<1>0. Orderly
  BY DEF SessionInv
<1>1. CASE \/ OpenCommand \/ AppAction \/ \E valid \in BOOLEAN : Open(valid)
           \/ \E i \in Instances : \/ Refused(i) \/ OpensNoTab(i) \/ OpenTab(i) \/ OpenWindow(i)
                                   \/ Activate(i)
  <2>1. "main" \in Instances
    BY DEF Instances
  <2> QED
    BY <1>1, <2>1, RequestsCalm, CalmLanded
<1>2. CASE \/ \E i \in Instances :
                 \/ Start(i) \/ ClosePreferences(i)
                 \/ \E w \in DOMAIN windows[i] :
                      NewTab(i, w) \/ NewWindow(i, w) \/ OpenPreferences(i, w) \/ Unpin(i, w)
                      \/ CloseAnswered(i, w)
           \/ ChangeSetting \/ UNCHANGED sessionVars
  BY <1>2, OthersCalm, CalmLanded
<1>3. ASSUME NEW i \in Instances, WriteLands(i) PROVE Landed'
  BY <1>3, WriteLandsLanded
<1>4. ASSUME NEW i \in Instances, Quit(i) PROVE Landed'
  BY <1>0, <1>4, EndsLanded DEF Quit
<1>5. ASSUME NEW i \in Instances, Dies(i) PROVE Landed'
  BY <1>0, <1>5, EndsLanded, ForgetsFacts DEF Dies
<1>6. ASSUME NEW i \in Instances, NEW w \in DOMAIN windows[i], Pin(i, w) PROVE Landed'
  BY <1>0, <1>6, PinLanded, TypeFacts
<1>7. ASSUME NEW i \in Instances, NEW w \in DOMAIN windows[i],
             TabGone(i, w) \/ CloseWindow(i, w) \/ AskToClose(i, w)
      PROVE  Landed'
  BY <1>7, WindowsLanded
<1> QED
  BY <1>1, <1>2, <1>3, <1>4, <1>5, <1>6, <1>7 DEF SessionNext

(* No step makes a tab unsaved that is not kept.                           *)
LEMMA UnsavedKept ==
    ASSUME unsaved \subseteq kept, [SessionNext]_sessionVars PROVE unsaved' \subseteq kept'
<1>1. CASE \/ OpenCommand \/ AppAction \/ \E valid \in BOOLEAN : Open(valid)
           \/ \E i \in Instances : \/ Refused(i) \/ OpensNoTab(i) \/ OpenTab(i) \/ OpenWindow(i)
                                   \/ Activate(i)
  <2>1. "main" \in Instances
    BY DEF Instances
  <2>2. UNCHANGED <<kept, unsaved>>
    BY <1>1, <2>1, RequestsServe DEF Serves
  <2> QED
    BY <2>2
<1>2. CASE \E i \in Instances : Start(i) \/ WriteLands(i) \/ Quit(i) \/ Dies(i) \/ ClosePreferences(i)
  BY <1>2 DEF Start, WriteLands, Quit, Dies, ClosePreferences, Forgets
<1>3. CASE \E i \in Instances : \E w \in DOMAIN windows[i] :
              NewTab(i, w) \/ NewWindow(i, w) \/ OpenPreferences(i, w) \/ Pin(i, w) \/ Unpin(i, w)
  BY <1>3 DEF NewTab, NewWindow, OpenPreferences, Pin, Unpin, Forgets
<1>4. CASE \E i \in Instances : \E w \in DOMAIN windows[i] :
              TabGone(i, w) \/ CloseWindow(i, w) \/ AskToClose(i, w) \/ CloseAnswered(i, w)
  <2>1. PICK i \in Instances : \E w \in DOMAIN windows[i] :
              TabGone(i, w) \/ CloseWindow(i, w) \/ AskToClose(i, w) \/ CloseAnswered(i, w)
    BY <1>4
  <2>2. PICK w \in DOMAIN windows[i] :
              TabGone(i, w) \/ CloseWindow(i, w) \/ AskToClose(i, w) \/ CloseAnswered(i, w)
    BY <2>1
  <2>3. CASE TabGone(i, w)
    BY <2>3 DEF TabGone, Forgets
  <2>4. CASE CloseWindow(i, w)
    BY <2>4 DEF CloseWindow, Forgets
  <2>5. CASE AskToClose(i, w)
    BY <2>5 DEF AskToClose
  <2>6. CASE CloseAnswered(i, w)
    BY <2>6 DEF CloseAnswered, Forgets
  <2> QED
    BY <2>2, <2>3, <2>4, <2>5, <2>6
<1>5. CASE ChangeSetting \/ UNCHANGED sessionVars
  BY <1>5 DEF ChangeSetting, sessionVars
<1> QED
  BY <1>1, <1>2, <1>3, <1>4, <1>5 DEF SessionNext

(* ---- Theorems ----------------------------------------------------------- *)

LEMMA InitInv == ASSUME SessionInit PROVE SessionInv /\ Landed
<1>1. /\ file = NoSession /\ restore_session \in BOOLEAN /\ kept = {} /\ unsaved = {} /\ excused = FALSE
      /\ \A i \in Instances :
            /\ phase[i] = "off" /\ session[i] = NoSession /\ has_restored_session[i] = FALSE
            /\ windows[i] = << >> /\ preferences[i] = FALSE /\ writes[i] = << >>
  BY DEF SessionInit
<1>2. << >> \in Seq(Window) /\ << >> \in Seq(Seq(SavedWindow)) /\ Len(<< >>) = 0 /\ 1 .. 0 = {}
  OBVIOUS
<1>3. SessionTypeOK
  <2> DEFINE e == << >>
  <2>1. e \in Seq(Window) /\ e \in Seq(Seq(SavedWindow)) /\ windows = [i \in Instances |-> e]
        /\ writes = [i \in Instances |-> e]
    BY <1>2 DEF SessionInit
  <2> HIDE DEF e
  <2>2. windows \in [Instances -> Seq(Window)] /\ writes \in [Instances -> Seq(Seq(SavedWindow))]
    BY <2>1
  <2>3. /\ phase \in [Instances -> {"off", "started", "running"}]
        /\ session \in [Instances -> {NoSession} \cup Seq(SavedWindow)]
        /\ has_restored_session \in [Instances -> BOOLEAN]
        /\ preferences \in [Instances -> BOOLEAN]
    BY DEF SessionInit
  <2> QED
    BY <1>1, <2>2, <2>3 DEF SessionTypeOK
<1>4. ListsTidy
  BY <1>1, <1>2, NoWindows DEF ListsTidy, Stored
<1>5. Alone /\ Untouched /\ Unread
  BY <1>1 DEF Alone, Untouched, Unread
<1>6. KeptThere
  <2>1. \A i \in Instances : Keeps(i)
    BY <1>1 DEF Keeps
  <2> QED
    BY <2>1 DEF KeptThere
<1>7. AskedSaved
  BY <1>1, <1>2 DEF AskedSaved
<1>8. Landed
  BY <1>1, <1>2 DEF Landed
<1> QED
  BY <1>3, <1>4, <1>5, <1>6, <1>7, <1>8 DEF SessionInv, Orderly

LEMMA NextOrderly ==
    ASSUME Orderly, [SessionNext]_sessionVars PROVE Orderly'
<1>0. unsaved' \subseteq kept'
  BY UnsavedKept DEF Orderly, SessionTypeOK
<1>1. ASSUME NEW i \in Instances,
             \/ Start(i) \/ Refused(i) \/ OpensNoTab(i) \/ OpenTab(i) \/ OpenWindow(i)
             \/ Activate(i)
             \/ WriteLands(i) \/ Quit(i) \/ Dies(i) \/ ClosePreferences(i)
      PROVE  Orderly'
  <2>1. CASE Start(i)
    BY <1>0, <2>1, StartOrderly
  <2>2. CASE Refused(i)
    BY <1>0, <2>2, RefusedAnswers, AnswersOrderly
  <2>3. CASE OpensNoTab(i)
    BY <1>0, <2>3, OpensNoTabAnswers, AnswersOrderly
  <2>4. CASE OpenTab(i)
    BY <1>0, <2>4, OpenTabAnswers, AnswersOrderly
  <2>5. CASE OpenWindow(i)
    BY <1>0, <2>5, OpenWindowAnswers, AnswersOrderly
  <2>6. CASE Activate(i)
    BY <1>0, <2>6, ActivateAnswers, AnswersOrderly
  <2>7. CASE WriteLands(i)
    BY <1>0, <2>7, WriteLandsOrderly
  <2>8. CASE Quit(i)
    BY <1>0, <2>8, EndsOrderly DEF Quit
  <2>9. CASE Dies(i)
    BY <1>0, <2>9, EndsOrderly DEF Dies, Forgets
  <2>10. CASE ClosePreferences(i)
    BY <1>0, <2>10, RestOrderly, TypeFacts DEF ClosePreferences
  <2> QED
    BY <1>1, <2>1, <2>2, <2>3, <2>4, <2>5, <2>6, <2>7, <2>8, <2>9, <2>10
<1>2. ASSUME NEW i \in Instances, NEW w \in DOMAIN windows[i],
             \/ NewTab(i, w) \/ NewWindow(i, w) \/ OpenPreferences(i, w)
             \/ Pin(i, w) \/ Unpin(i, w) \/ TabGone(i, w)
             \/ CloseWindow(i, w) \/ AskToClose(i, w) \/ CloseAnswered(i, w)
      PROVE  Orderly'
  <2>1. CASE NewTab(i, w)
    BY <1>0, <2>1, NewTabKeeps, KeepsOrderly
  <2>2. CASE NewWindow(i, w)
    BY <1>0, <2>2, NewWindowKeeps, KeepsOrderly
  <2>3. CASE OpenPreferences(i, w)
    BY <1>0, <2>3, RestOrderly, TypeFacts DEF OpenPreferences
  <2>4. CASE Pin(i, w)
    BY <1>0, <2>4, PinKeeps, KeepsOrderly
  <2>5. CASE Unpin(i, w)
    BY <1>0, <2>5, UnpinKeeps, KeepsOrderly
  <2>6. CASE TabGone(i, w)
    BY <1>0, <2>6, TabGoneLeaves, LeavesOrderly
  <2>7. CASE CloseWindow(i, w)
    BY <1>0, <2>7, CloseWindowOrderly
  <2>8. CASE AskToClose(i, w)
    BY <1>0, <2>8, AskToCloseOrderly
  <2>9. CASE CloseAnswered(i, w)
    BY <1>0, <2>9, CloseAnsweredOrderly
  <2> QED
    BY <1>2, <2>1, <2>2, <2>3, <2>4, <2>5, <2>6, <2>7, <2>8, <2>9
<1>3. CASE OpenCommand
  BY <1>0, <1>3, OpenCommandFacts, ServesOrderly
<1>4. CASE AppAction
  BY <1>0, <1>4, AppActionAnswers, AnswersOrderly DEF Instances
<1>5. CASE ChangeSetting
  BY <1>0, <1>5, RestOrderly, TypeFacts DEF ChangeSetting
<1>6. CASE \E valid \in BOOLEAN : Open(valid)
  BY <1>0, <1>6, OpenAnswers, AnswersOrderly DEF Instances
<1>7. CASE UNCHANGED sessionVars
  BY <1>0, <1>7, RestOrderly, TypeFacts DEF sessionVars
<1> QED
  BY <1>1, <1>2, <1>3, <1>4, <1>5, <1>6, <1>7 DEF SessionNext

(* However many instances run at a time, every variable has the values the     *)
(* code can give it.                                                       *)
THEOREM SessionTypeCorrect == SessionSpec => []SessionTypeOK
<1>1. SessionInit => Orderly
  BY InitInv DEF SessionInv
<1>2. Orderly /\ [SessionNext]_sessionVars => Orderly'
  BY NextOrderly
<1>3. Orderly => SessionTypeOK
  BY DEF Orderly
<1> QED
  BY <1>1, <1>2, <1>3, PTL DEF SessionSpec

(* The windows that come back are those that were saved, with their tabs in     *)
(* order, whatever the setting was then and is now.                        *)
THEOREM SavedWindowsComeBack == SessionSpec => []RoundTrip
<1>1. SessionInit => Orderly
  BY InitInv DEF SessionInv
<1>2. Orderly /\ [SessionNext]_sessionVars => Orderly'
  BY NextOrderly
<1>3. Orderly => RoundTrip
  BY RoundTripOfWindows DEF Orderly
<1> QED
  BY <1>1, <1>2, <1>3, PTL DEF SessionSpec

LEMMA NextInv ==
    ASSUME SessionInv, Landed, MaxInstances = 1, [SessionNext]_sessionVars PROVE SessionInv'
<1>0. Orderly /\ unsaved' \subseteq kept'
  <2>1. Orderly
    BY DEF SessionInv
  <2> QED
    BY <2>1, UnsavedKept DEF Orderly, SessionTypeOK
<1>1. ASSUME NEW i \in Instances,
             \/ Start(i) \/ Refused(i) \/ OpensNoTab(i) \/ OpenTab(i) \/ OpenWindow(i)
             \/ Activate(i)
             \/ WriteLands(i) \/ Quit(i) \/ Dies(i) \/ ClosePreferences(i)
      PROVE  SessionInv'
  <2>1. CASE Start(i)
    BY <1>0, <2>1, StartInv
  <2>2. CASE Refused(i)
    BY <1>0, <2>2, RefusedAnswers, AnswersInv
  <2>3. CASE OpensNoTab(i)
    BY <1>0, <2>3, OpensNoTabAnswers, AnswersInv
  <2>4. CASE OpenTab(i)
    BY <1>0, <2>4, OpenTabAnswers, AnswersInv
  <2>5. CASE OpenWindow(i)
    BY <1>0, <2>5, OpenWindowAnswers, AnswersInv
  <2>6. CASE Activate(i)
    BY <1>0, <2>6, ActivateAnswers, AnswersInv
  <2>7. CASE WriteLands(i)
    BY <1>0, <2>7, WriteLandsInv
  <2>8. CASE Quit(i)
    BY <1>0, <2>8, QuitInv
  <2>9. CASE Dies(i)
    BY <1>0, <2>9, DiesInv
  <2>10. CASE ClosePreferences(i)
    BY <1>0, <2>10, RestInv, TypeFacts DEF ClosePreferences
  <2> QED
    BY <1>1, <2>1, <2>2, <2>3, <2>4, <2>5, <2>6, <2>7, <2>8, <2>9, <2>10
<1>2. ASSUME NEW i \in Instances, NEW w \in DOMAIN windows[i],
             \/ NewTab(i, w) \/ NewWindow(i, w) \/ OpenPreferences(i, w)
             \/ Pin(i, w) \/ Unpin(i, w) \/ TabGone(i, w)
             \/ CloseWindow(i, w) \/ AskToClose(i, w) \/ CloseAnswered(i, w)
      PROVE  SessionInv'
  <2>0. windows[i] # << >>
    BY <1>0, WindowHere
  <2>1. CASE NewTab(i, w)
    BY <1>0, <2>0, <2>1, NewTabKeeps, KeepsInv
  <2>2. CASE NewWindow(i, w)
    BY <1>0, <2>0, <2>2, NewWindowKeeps, KeepsInv
  <2>3. CASE OpenPreferences(i, w)
    BY <1>0, <2>3, RestInv, TypeFacts DEF OpenPreferences
  <2>4. CASE Pin(i, w)
    BY <1>0, <2>0, <2>4, PinKeeps, KeepsInv
  <2>5. CASE Unpin(i, w)
    BY <1>0, <2>0, <2>5, UnpinKeeps, KeepsInv
  <2>6. CASE TabGone(i, w)
    BY <1>0, <2>0, <2>6, TabGoneLeaves, LeavesInv
  <2>7. CASE CloseWindow(i, w)
    BY <1>0, <2>7, CloseWindowInv
  <2>8. CASE AskToClose(i, w)
    BY <1>0, <2>8, AskToCloseInv
  <2>9. CASE CloseAnswered(i, w)
    BY <1>0, <2>9, CloseAnsweredInv
  <2> QED
    BY <1>2, <2>1, <2>2, <2>3, <2>4, <2>5, <2>6, <2>7, <2>8, <2>9
<1>3. CASE OpenCommand
  BY <1>0, <1>3, OpenCommandInv
<1>4. CASE AppAction
  BY <1>0, <1>4, AppActionAnswers, AnswersInv DEF Instances
<1>5. CASE ChangeSetting
  BY <1>0, <1>5, RestInv, TypeFacts DEF ChangeSetting
<1>6. CASE \E valid \in BOOLEAN : Open(valid)
  BY <1>0, <1>6, OpenAnswers, AnswersInv DEF Instances
<1>7. CASE UNCHANGED sessionVars
  BY <1>0, <1>7, RestInv, TypeFacts DEF sessionVars
<1> QED
  BY <1>1, <1>2, <1>3, <1>4, <1>5, <1>6, <1>7 DEF SessionNext

(* One instance at a time keeps the session, its windows and the file in    *)
(* step, in every order of requests, closes, writes, ends and crashes; and    *)
(* what the file has had of the kept tabs it will have after any crash.    *)
THEOREM SessionInvariant ==
    ASSUME MaxInstances = 1 PROVE SessionSpec => [](SessionInv /\ Landed)
<1>1. SessionInit => SessionInv /\ Landed
  BY InitInv
<1>2. SessionInv /\ Landed /\ [SessionNext]_sessionVars => (SessionInv /\ Landed)'
  BY NextInv, NextLanded
<1> QED
  BY <1>1, <1>2, PTL DEF SessionSpec

(* Then a tab that the user pinned and did not close is shown, or in the     *)
(* session to be brought back. It is lost in three ways only: a crash before *)
(* a save with it reached the file (Dies), and the two that are excused.    *)
THEOREM PinnedTabsComeBack ==
    ASSUME MaxInstances = 1 PROVE SessionSpec => []PinnedNeverLost
<1>1. ASSUME SessionInv PROVE PinnedNeverLost
  <2> SUFFICES ASSUME ~excused, NEW id \in kept PROVE Safe(id)
    BY DEF PinnedNeverLost
  <2>1. \E i \in Instances : \A j \in Instances \ {i} : phase[j] = "off"
    BY <1>1 DEF SessionInv, Alone, Instances
  <2>2. PICK i \in Instances : \A j \in Instances \ {i} : phase[j] = "off"
    BY <2>1
  <2>3. id \in IF windows[i] = << >> THEN Recorded(LastSaved(file, writes[i])) ELSE Shown(windows[i])
    BY <1>1, <2>2 DEF SessionInv, KeptThere, Keeps
  <2>4. CASE windows[i] # << >>
    BY <2>3, <2>4 DEF Safe
  <2>5. CASE windows[i] = << >> /\ writes[i] = << >>
    BY <2>3, <2>5 DEF Safe, LastSaved
  <2>6. CASE windows[i] = << >> /\ writes[i] # << >>
    <3> DEFINE q == writes[i]
    <3>1. q \in Seq(Seq(SavedWindow)) /\ q # << >>
      BY <1>1, <2>6, TypeFacts DEF SessionInv
    <3>2. id \in Recorded(q[Len(q)])
      BY <2>3, <2>6 DEF LastSaved
    <3>3. q[Len(q)] \in ToSet(q)
      <4> HIDE DEF q
      <4>1. Len(q) \in 1 .. Len(q) /\ DOMAIN q = 1 .. Len(q)
        <5>1. Len(q) \in Nat /\ Len(q) # 0 /\ DOMAIN q = 1 .. Len(q)
          BY <3>1, EmptySeq, LenProperties
        <5> QED
          BY <5>1
      <4> QED
        BY <4>1 DEF ToSet
    <3> QED
      BY <3>2, <3>3 DEF Safe
  <2> QED
    BY <2>4, <2>5, <2>6
<1> QED
  BY <1>1, SessionInvariant, PTL
=============================================================================
