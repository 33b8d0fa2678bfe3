--------------------------- MODULE WindowViewProofs ---------------------------
(***************************************************************************)
(* What a window shows of its tabs, for any windows, tabs and profiles:    *)
(* its chip, actions, style and find bar are those of the shown tab, a     *)
(* session that changed asks for attention, and the bars of a full-screen  *)
(* window are shown exactly while something keeps them.                    *)
(***************************************************************************)
EXTENDS WindowView, SequenceTheorems, FiniteSetTheorems, TLAPS


-----------------------------------------------------------------------------
(* Sequences *)

(* A tab is at most once in s.                                             *)
Once(s, t) == \A j, k \in DOMAIN s : s[j] = t /\ s[k] = t => j = k

(* The elements of a sequence.                                             *)
LEMMA SeqFacts ==
    ASSUME NEW S, NEW s \in Seq(S)
    PROVE  /\ Len(s) \in Nat /\ DOMAIN s = 1 .. Len(s)
           /\ \A k \in 1 .. Len(s) : s[k] \in S
           /\ \A t : t \in ToSet(s) <=> \E k \in 1 .. Len(s) : s[k] = t
           /\ ToSet(s) \subseteq S
BY LenProperties DEF ToSet

(* A part of a sequence.                                                   *)
LEMMA Part ==
    ASSUME NEW S, NEW s \in Seq(S), NEW m \in 1 .. Len(s) + 1, NEW n \in m - 1 .. Len(s)
    PROVE  /\ SubSeq(s, m, n) \in Seq(S)
           /\ Len(SubSeq(s, m, n)) = n - m + 1
           /\ \A k \in 1 .. n - m + 1 : SubSeq(s, m, n)[k] = s[m + k - 1]
<1>1. Len(s) \in Nat /\ \A k \in 1 .. Len(s) : s[k] \in S
  BY SeqFacts
<1>2. m \in Int /\ n \in Int /\ \A k \in m .. n : s[k] \in S
  BY <1>1
<1>3. /\ SubSeq(s, m, n) \in Seq(S)
      /\ Len(SubSeq(s, m, n)) = IF m <= n THEN n - m + 1 ELSE 0
      /\ \A k \in 1 .. n - m + 1 : SubSeq(s, m, n)[k] = s[m + k - 1]
  BY <1>2, SubSeqProperties
<1> QED
  BY <1>1, <1>2, <1>3

(* InsertAt and RemoveAt, place by place.                                  *)
LEMMA InsertEffect ==
    ASSUME NEW S, NEW s \in Seq(S), NEW p \in 1 .. Len(s) + 1, NEW e \in S
    PROVE  /\ InsertAt(s, p, e) \in Seq(S)
           /\ Len(InsertAt(s, p, e)) = Len(s) + 1
           /\ \A k \in 1 .. Len(s) + 1 :
                 InsertAt(s, p, e)[k] = IF k < p THEN s[k] ELSE IF k = p THEN e ELSE s[k - 1]
<1>1. Len(s) \in Nat
  BY SeqFacts
<1> DEFINE low == SubSeq(s, 1, p - 1)
           high == SubSeq(s, p, Len(s))
           mid == low \o << e >>
<1>2. /\ low \in Seq(S) /\ Len(low) = p - 1
      /\ \A k \in 1 .. p - 1 : low[k] = s[k]
  <2>1. 1 \in 1 .. Len(s) + 1 /\ p - 1 \in 1 - 1 .. Len(s)
    BY <1>1
  <2>2. /\ low \in Seq(S) /\ Len(low) = p - 1 - 1 + 1
        /\ \A k \in 1 .. p - 1 - 1 + 1 : low[k] = s[1 + k - 1]
    BY <2>1, Part
  <2> HIDE DEF low
  <2> QED
    BY <1>1, <2>2
<1>3. /\ high \in Seq(S) /\ Len(high) = Len(s) - p + 1
      /\ \A k \in 1 .. Len(s) - p + 1 : high[k] = s[p + k - 1]
  <2>1. Len(s) \in p - 1 .. Len(s)
    BY <1>1
  <2> QED
    BY <2>1, Part
<1>4. << e >> \in Seq(S) /\ Len(<< e >>) = 1 /\ << e >>[1] = e
  OBVIOUS
<1> HIDE DEF low, high
<1>5. /\ mid \in Seq(S) /\ Len(mid) = p
      /\ \A k \in 1 .. p : mid[k] = IF k < p THEN s[k] ELSE e
  <2>1. /\ low \o << e >> \in Seq(S)
        /\ Len(low \o << e >>) = Len(low) + Len(<< e >>)
        /\ \A i \in 1 .. Len(low) + Len(<< e >>) :
              (low \o << e >>)[i] = IF i <= Len(low) THEN low[i] ELSE << e >>[i - Len(low)]
    BY <1>2, <1>4, ConcatProperties
  <2> QED
    BY <1>1, <1>2, <1>4, <2>1
<1> HIDE DEF mid
<1>6. /\ mid \o high \in Seq(S)
      /\ Len(mid \o high) = Len(mid) + Len(high)
      /\ \A i \in 1 .. Len(mid) + Len(high) :
            (mid \o high)[i] = IF i <= Len(mid) THEN mid[i] ELSE high[i - Len(mid)]
  BY <1>3, <1>5, ConcatProperties
<1>7. InsertAt(s, p, e) = mid \o high
  BY DEF InsertAt, mid, low, high
<1> QED
  BY <1>1, <1>3, <1>5, <1>6, <1>7

LEMMA RemoveEffect ==
    ASSUME NEW S, NEW s \in Seq(S), NEW p \in 1 .. Len(s)
    PROVE  /\ RemoveAt(s, p) \in Seq(S)
           /\ Len(RemoveAt(s, p)) = Len(s) - 1
           /\ \A k \in 1 .. Len(s) - 1 : RemoveAt(s, p)[k] = IF k < p THEN s[k] ELSE s[k + 1]
<1>1. Len(s) \in Nat
  BY SeqFacts
<1> DEFINE low == SubSeq(s, 1, p - 1)
           high == SubSeq(s, p + 1, Len(s))
           both == low \o high
<1>2. /\ low \in Seq(S) /\ Len(low) = p - 1
      /\ \A k \in 1 .. p - 1 : low[k] = s[k]
  <2>1. 1 \in 1 .. Len(s) + 1 /\ p - 1 \in 1 - 1 .. Len(s)
    BY <1>1
  <2>2. /\ low \in Seq(S) /\ Len(low) = p - 1 - 1 + 1
        /\ \A k \in 1 .. p - 1 - 1 + 1 : low[k] = s[1 + k - 1]
    BY <2>1, Part
  <2> HIDE DEF low
  <2> QED
    BY <1>1, <2>2
<1>3. /\ high \in Seq(S) /\ Len(high) = Len(s) - p
      /\ \A k \in 1 .. Len(s) - p : high[k] = s[p + k]
  <2>1. p + 1 \in 1 .. Len(s) + 1 /\ Len(s) \in p + 1 - 1 .. Len(s)
    BY <1>1
  <2>2. /\ high \in Seq(S) /\ Len(high) = Len(s) - (p + 1) + 1
        /\ \A k \in 1 .. Len(s) - (p + 1) + 1 : high[k] = s[p + 1 + k - 1]
    BY <2>1, Part
  <2> HIDE DEF high
  <2> QED
    BY <1>1, <2>2
<1> HIDE DEF low, high
<1>4. /\ low \o high \in Seq(S)
      /\ Len(low \o high) = Len(low) + Len(high)
      /\ \A i \in 1 .. Len(low) + Len(high) :
            (low \o high)[i] = IF i <= Len(low) THEN low[i] ELSE high[i - Len(low)]
  BY <1>2, <1>3, ConcatProperties
<1>5. RemoveAt(s, p) = both
  BY DEF RemoveAt, both, low, high
<1> HIDE DEF both
<1>6. both \in Seq(S) /\ Len(both) = Len(s) - 1
  BY <1>1, <1>2, <1>3, <1>4 DEF both
<1>7. ASSUME NEW k \in 1 .. Len(s) - 1
      PROVE  both[k] = IF k < p THEN s[k] ELSE s[k + 1]
  <2>1. both[k] = IF k <= p - 1 THEN low[k] ELSE high[k - (p - 1)]
    BY <1>1, <1>2, <1>3, <1>4 DEF both
  <2>2. CASE k < p
    BY <1>1, <1>2, <2>1, <2>2
  <2>3. CASE ~(k < p)
    <3>1. k - (p - 1) \in 1 .. Len(s) - p /\ p + (k - (p - 1)) = k + 1
      BY <1>1, <2>3
    <3>2. high[k - (p - 1)] = s[k + 1]
      BY <1>3, <3>1
    <3> QED
      BY <1>1, <2>1, <2>3, <3>2
  <2> QED
    BY <2>2, <2>3
<1> QED
  BY <1>5, <1>6, <1>7

(* Where things are once one was added or taken out.                       *)
LEMMA Inserted ==
    ASSUME NEW S, NEW s \in Seq(S), NEW p \in 1 .. Len(s) + 1, NEW e \in S
    PROVE  /\ InsertAt(s, p, e) \in Seq(S)
           /\ ToSet(InsertAt(s, p, e)) = ToSet(s) \cup {e}
           /\ \A t : Once(s, t) /\ (t = e => t \notin ToSet(s)) => Once(InsertAt(s, p, e), t)
<1> DEFINE a == InsertAt(s, p, e)
<1>1. /\ a \in Seq(S) /\ Len(a) = Len(s) + 1
      /\ \A k \in 1 .. Len(s) + 1 :
            a[k] = IF k < p THEN s[k] ELSE IF k = p THEN e ELSE s[k - 1]
  BY InsertEffect
<1> HIDE DEF a
<1>2. /\ Len(s) \in Nat /\ DOMAIN s = 1 .. Len(s) /\ DOMAIN a = 1 .. Len(s) + 1
      /\ \A t : t \in ToSet(s) <=> \E k \in 1 .. Len(s) : s[k] = t
      /\ \A t : t \in ToSet(a) <=> \E k \in 1 .. Len(s) + 1 : a[k] = t
  BY <1>1, SeqFacts
<1>3. ASSUME NEW t PROVE t \in ToSet(a) <=> t \in ToSet(s) \cup {e}
  <2>1. ASSUME t \in ToSet(a) PROVE t \in ToSet(s) \cup {e}
    <3>1. PICK k \in 1 .. Len(s) + 1 : a[k] = t
      BY <1>2, <2>1
    <3>2. k = p \/ (k \in 1 .. Len(s) /\ k < p) \/ (k - 1 \in 1 .. Len(s) /\ k > p)
      BY <1>2
    <3> QED
      BY <1>1, <1>2, <3>1, <3>2
  <2>2. ASSUME t \in ToSet(s) PROVE t \in ToSet(a)
    <3>1. PICK k \in 1 .. Len(s) : s[k] = t
      BY <1>2, <2>2
    <3>2. CASE k < p
      <4>1. k \in 1 .. Len(s) + 1 /\ a[k] = t
        BY <1>1, <1>2, <3>1, <3>2
      <4> QED
        BY <1>2, <4>1
    <3>3. CASE ~(k < p)
      <4>1. k + 1 \in 1 .. Len(s) + 1 /\ a[k + 1] = s[k + 1 - 1] /\ k + 1 - 1 = k
        BY <1>1, <1>2, <3>3
      <4> QED
        BY <1>2, <3>1, <4>1
    <3> QED
      BY <3>2, <3>3
  <2>3. e \in ToSet(a)
    <3>1. p \in 1 .. Len(s) + 1 /\ a[p] = e
      BY <1>1, <1>2
    <3> QED
      BY <1>2, <3>1
  <2> QED
    BY <2>1, <2>2, <2>3
<1>4. ASSUME NEW t, Once(s, t), t = e => t \notin ToSet(s), NEW j \in 1 .. Len(s) + 1,
             NEW k \in 1 .. Len(s) + 1, a[j] = t, a[k] = t
      PROVE  j = k
  <2> DEFINE Old(i) == IF i < p THEN i ELSE i - 1
  <2>1. \A i \in 1 .. Len(s) + 1 : i # p => Old(i) \in 1 .. Len(s) /\ a[i] = s[Old(i)]
    BY <1>1, <1>2
  <2>2. a[p] = e
    BY <1>1, <1>2
  <2>3. CASE j = p \/ k = p
    <3>1. t \notin ToSet(s)
      BY <1>4, <2>2, <2>3
    <3>2. j = p /\ k = p
      BY <1>2, <1>4, <2>1, <3>1
    <3> QED
      BY <3>2
  <2>4. CASE j # p /\ k # p
    <3>1. Old(j) = Old(k)
      <4> HIDE DEF Old
      <4> QED
        BY <1>2, <1>4, <2>1, <2>4 DEF Once
    <3> QED
      BY <1>2, <2>4, <3>1
  <2> QED
    BY <2>3, <2>4
<1>5. \A t : Once(s, t) /\ (t = e => t \notin ToSet(s)) => Once(a, t)
  BY <1>2, <1>4 DEF Once
<1>6. ToSet(a) = ToSet(s) \cup {e}
  BY <1>3
<1> QED
  BY <1>1, <1>5, <1>6 DEF a

LEMMA Removed ==
    ASSUME NEW S, NEW s \in Seq(S), NEW p \in 1 .. Len(s)
    PROVE  /\ RemoveAt(s, p) \in Seq(S)
           /\ ToSet(RemoveAt(s, p)) \subseteq ToSet(s)
           /\ \A t : t # s[p] => (t \in ToSet(RemoveAt(s, p)) <=> t \in ToSet(s))
           /\ Once(s, s[p]) => s[p] \notin ToSet(RemoveAt(s, p))
           /\ \A t : Once(s, t) => Once(RemoveAt(s, p), t)
<1> DEFINE a == RemoveAt(s, p)
           Old(k) == IF k < p THEN k ELSE k + 1
<1>1. /\ a \in Seq(S) /\ Len(a) = Len(s) - 1
      /\ \A k \in 1 .. Len(s) - 1 : a[k] = IF k < p THEN s[k] ELSE s[k + 1]
  BY RemoveEffect
<1> HIDE DEF a
<1>2. /\ Len(s) \in Nat /\ DOMAIN s = 1 .. Len(s) /\ DOMAIN a = 1 .. Len(s) - 1
      /\ \A t : t \in ToSet(s) <=> \E k \in 1 .. Len(s) : s[k] = t
      /\ \A t : t \in ToSet(a) <=> \E k \in 1 .. Len(s) - 1 : a[k] = t
  BY <1>1, SeqFacts
<1>3. \A k \in 1 .. Len(s) - 1 : Old(k) \in 1 .. Len(s) /\ Old(k) # p /\ a[k] = s[Old(k)]
  BY <1>1, <1>2
<1>4. \A j, k \in 1 .. Len(s) - 1 : Old(j) = Old(k) => j = k
  BY <1>2
<1>5. \A i \in 1 .. Len(s) : i # p => \E k \in 1 .. Len(s) - 1 : Old(k) = i
  <2>1. \A i \in 1 .. Len(s) : i < p => i \in 1 .. Len(s) - 1 /\ Old(i) = i
    BY <1>2
  <2>2. \A i \in 1 .. Len(s) : i > p => i - 1 \in 1 .. Len(s) - 1 /\ Old(i - 1) = i
    BY <1>2
  <2> HIDE DEF Old
  <2> QED
    BY <1>2, <2>1, <2>2
<1> HIDE DEF Old
<1>6. ToSet(a) \subseteq ToSet(s)
  BY <1>2, <1>3
<1>7. ASSUME NEW t, t # s[p], t \in ToSet(s) PROVE t \in ToSet(a)
  BY <1>2, <1>3, <1>5, <1>7
<1>8. ASSUME Once(s, s[p]) PROVE s[p] \notin ToSet(a)
  BY <1>2, <1>3, <1>8 DEF Once
<1>9. ASSUME NEW t, Once(s, t) PROVE Once(a, t)
  BY <1>2, <1>3, <1>4, <1>9 DEF Once
<1> QED
  BY <1>1, <1>6, <1>7, <1>8, <1>9 DEF a

LEMMA Appended ==
    ASSUME NEW S, NEW s \in Seq(S), NEW e \in S
    PROVE  /\ Append(s, e) \in Seq(S)
           /\ ToSet(Append(s, e)) = ToSet(s) \cup {e}
           /\ \A t : Once(s, t) /\ (t = e => t \notin ToSet(s)) => Once(Append(s, e), t)
<1> DEFINE a == Append(s, e)
<1>1. /\ a \in Seq(S) /\ Len(a) = Len(s) + 1
      /\ \A k \in 1 .. Len(s) : a[k] = s[k]
      /\ a[Len(s) + 1] = e
  BY AppendProperties
<1> HIDE DEF a
<1>2. /\ Len(s) \in Nat /\ DOMAIN s = 1 .. Len(s) /\ DOMAIN a = 1 .. Len(s) + 1
      /\ \A t : t \in ToSet(s) <=> \E k \in 1 .. Len(s) : s[k] = t
      /\ \A t : t \in ToSet(a) <=> \E k \in 1 .. Len(s) + 1 : a[k] = t
  BY <1>1, SeqFacts
<1>3. \A k \in 1 .. Len(s) + 1 : k = Len(s) + 1 \/ k \in 1 .. Len(s)
  BY <1>2
<1>4. \A k \in 1 .. Len(s) : k \in 1 .. Len(s) + 1
  BY <1>2
<1>5. Len(s) + 1 \in 1 .. Len(s) + 1
  BY <1>2
<1>6. \A t : t \in ToSet(a) <=> t \in ToSet(s) \cup {e}
  BY <1>1, <1>2, <1>3, <1>4, <1>5
<1>7. ASSUME NEW t, Once(s, t), t = e => t \notin ToSet(s) PROVE Once(a, t)
  BY <1>1, <1>2, <1>3, <1>7 DEF Once
<1> QED
  BY <1>1, <1>6, <1>7 DEF a

-----------------------------------------------------------------------------
(* The pages *)

Distinct(s) == \A t : Once(s, t)

(* Who holds what: pg are the pages of each window, sel the shown tab of   *)
(* each, pin the pinned tabs and on the open windows.                      *)
PagesFit(pg, sel, pin, on) ==
  /\ pg \in [Windows -> Seq(Tabs)] /\ sel \in [Windows -> Tabs \cup {NoTab}]
  /\ \A w \in Windows : Distinct(pg[w])
  /\ \A w, o \in Windows : \A t : t \in ToSet(pg[w]) /\ t \in ToSet(pg[o]) => w = o
  /\ \A t \in pin : \E w \in Windows : t \in ToSet(pg[w])
  /\ \A w \in Windows : w \in on => sel[w] \in ToSet(pg[w])
  /\ \A w \in Windows : w \notin on => pg[w] = <<>> /\ sel[w] = NoTab

(* One window gets other pages, none of them from another window.          *)
LEMMA PagesPut ==
  ASSUME NEW pg, NEW sel, NEW pin, NEW on, PagesFit(pg, sel, pin, on),
         NEW w \in Windows, NEW s \in Seq(Tabs), Distinct(s),
         \A o \in Windows \ {w} : \A t \in ToSet(s) : t \notin ToSet(pg[o]),
         NEW pin2, \A t \in pin2 : (t \in pin /\ t \notin ToSet(pg[w])) \/ t \in ToSet(s),
         NEW t \in Tabs \cup {NoTab}, NEW on2 \in SUBSET Windows,
         \A o \in Windows \ {w} : o \in on2 <=> o \in on,
         IF w \in on2 THEN t \in ToSet(s) ELSE s = <<>> /\ t = NoTab
  PROVE  PagesFit([pg EXCEPT ![w] = s], [sel EXCEPT ![w] = t], pin2, on2)
<1> DEFINE pg2 == [pg EXCEPT ![w] = s]
           sel2 == [sel EXCEPT ![w] = t]
<1>1. /\ pg2 \in [Windows -> Seq(Tabs)] /\ sel2 \in [Windows -> Tabs \cup {NoTab}]
      /\ pg2[w] = s /\ sel2[w] = t
      /\ \A o \in Windows \ {w} : pg2[o] = pg[o] /\ sel2[o] = sel[o]
  BY DEF PagesFit
<1> HIDE DEF pg2, sel2
<1>2. \A o \in Windows : Distinct(pg2[o])
  BY <1>1 DEF PagesFit
<1>3. ASSUME NEW o \in Windows, NEW q \in Windows, NEW u, u \in ToSet(pg2[o]), u \in ToSet(pg2[q])
      PROVE  o = q
  BY <1>1, <1>3 DEF PagesFit
<1>4. ASSUME NEW u \in pin2 PROVE \E o \in Windows : u \in ToSet(pg2[o])
  <2>1. CASE u \in ToSet(s)
    BY <1>1, <2>1
  <2>2. CASE u \notin ToSet(s)
    <3>1. PICK o \in Windows : u \in ToSet(pg[o])
      BY <1>4, <2>2 DEF PagesFit
    <3>2. o # w
      BY <2>2, <3>1
    <3> QED
      BY <1>1, <3>1, <3>2
  <2> QED
    BY <2>1, <2>2
<1>5. \A o \in Windows : IF o \in on2 THEN sel2[o] \in ToSet(pg2[o]) ELSE pg2[o] = <<>> /\ sel2[o] = NoTab
  BY <1>1 DEF PagesFit
<1> QED
  BY <1>1, <1>2, <1>3, <1>4, <1>5 DEF PagesFit, pg2, sel2

(* The state of the pages: of the variables.                               *)
On == {w \in Windows : win[w].open}
PagesOK == PagesFit(pages, selected, pinned, On)

LEMMA Place ==
  ASSUME PagesOK, NEW w \in Windows, NEW t \in ToSet(pages[w])
  PROVE  /\ IndexIn(w, t) \in 1 .. Len(pages[w]) /\ pages[w][IndexIn(w, t)] = t
         /\ t \in Tabs /\ w \in On
<1>1. pages[w] \in Seq(Tabs)
  BY DEF PagesOK, PagesFit
<1>2. t \in Tabs /\ DOMAIN pages[w] = 1 .. Len(pages[w]) /\ \E k \in 1 .. Len(pages[w]) : pages[w][k] = t
  BY <1>1, SeqFacts
<1>3. w \in On
  <2>1. Len(<<>>) = 0 /\ 1 .. 0 = {}
    OBVIOUS
  <2> QED
    BY <1>2, <2>1 DEF PagesOK, PagesFit
<1> QED
  BY <1>2, <1>3 DEF IndexIn

LEMMA WithoutEffect ==
  ASSUME PagesOK, NEW w \in Windows, NEW t \in ToSet(pages[w])
  PROVE  /\ Without(w, t) \in Seq(Tabs) /\ Len(Without(w, t)) = Len(pages[w]) - 1
         /\ ToSet(Without(w, t)) = ToSet(pages[w]) \ {t} /\ Distinct(Without(w, t))
<1>1. pages[w] \in Seq(Tabs) /\ Distinct(pages[w])
  BY DEF PagesOK, PagesFit
<1>2. PICK p : p = IndexIn(w, t)
  OBVIOUS
<1>3. p \in 1 .. Len(pages[w]) /\ pages[w][p] = t
  BY <1>2, Place
<1>4. Without(w, t) = RemoveAt(pages[w], p)
  BY <1>2 DEF Without
<1>5. Without(w, t) \in Seq(Tabs) /\ Len(Without(w, t)) = Len(pages[w]) - 1
  BY <1>1, <1>3, <1>4, RemoveEffect
<1>6. /\ ToSet(Without(w, t)) \subseteq ToSet(pages[w])
      /\ \A u : u # t => (u \in ToSet(Without(w, t)) <=> u \in ToSet(pages[w]))
      /\ Once(pages[w], t) => t \notin ToSet(Without(w, t))
      /\ \A u : Once(pages[w], u) => Once(Without(w, t), u)
  BY <1>1, <1>3, <1>4, Removed
<1> QED
  BY <1>1, <1>5, <1>6 DEF Distinct

(* Another page of the window is shown.                                    *)
LEMMA PageThere ==
  ASSUME PagesOK, NEW w \in Windows, NEW i \in 1 .. Len(pages[w])
  PROVE  PageAt(w, i) \in ToSet(pages[w]) /\ PageAt(w, i) \in Tabs
<1>1. pages[w] \in Seq(Tabs)
  BY DEF PagesOK, PagesFit
<1> QED
  BY <1>1, SeqFacts DEF PageAt

LEMMA NeighbourThere ==
  ASSUME PagesOK, NEW w \in Windows, NEW t \in ToSet(pages[w]), Len(pages[w]) > 1
  PROVE  Neighbour(w, t) \in ToSet(pages[w]) /\ Neighbour(w, t) # t
<1>1. /\ pages[w] \in Seq(Tabs) /\ Once(pages[w], t)
      /\ Len(pages[w]) \in Nat /\ DOMAIN pages[w] = 1 .. Len(pages[w])
  BY SeqFacts DEF PagesOK, PagesFit, Distinct
<1>2. PICK p : p = IndexIn(w, t)
  OBVIOUS
<1>3. p \in 1 .. Len(pages[w]) /\ pages[w][p] = t
  BY <1>2, Place
<1>4. PICK q \in 1 .. Len(pages[w]) : q # p /\ Neighbour(w, t) = PageAt(w, q)
  <2>1. CASE p < Len(pages[w])
    <3>1. p + 1 \in 1 .. Len(pages[w]) /\ p + 1 # p
      BY <1>1, <1>3, <2>1
    <3> QED
      BY <1>2, <2>1, <3>1 DEF Neighbour
  <2>2. CASE ~(p < Len(pages[w]))
    <3>1. p - 1 \in 1 .. Len(pages[w]) /\ p - 1 # p
      BY <1>1, <1>3, <2>2
    <3> QED
      BY <1>2, <2>2, <3>1 DEF Neighbour
  <2> QED
    BY <2>1, <2>2
<1> QED
  BY <1>1, <1>3, <1>4, PageThere DEF PageAt, Once

(* There is a place for the border of the pinned pages.                    *)
LEMMA PinnedFit ==
  ASSUME PagesOK, NEW w \in Windows
  PROVE  /\ NPinned(w) \in Nat /\ NPinned(w) <= Len(pages[w])
         /\ \A t \in ToSet(pages[w]) \ pinned : NPinned(w) + 1 <= Len(pages[w])
         /\ \A t \in ToSet(pages[w]) \cap pinned : NPinned(w) >= 1
<1>1. pages[w] \in Seq(Tabs)
  BY DEF PagesOK, PagesFit
<1>2. /\ Len(pages[w]) \in Nat /\ DOMAIN pages[w] = 1 .. Len(pages[w])
      /\ \A t : t \in ToSet(pages[w]) <=> Contains(pages[w], t)
  BY <1>1, SeqFacts DEF Contains
<1> DEFINE S == ToSet(pages[w])
           P == {t \in pinned : Contains(pages[w], t)}
<1>3. IsFiniteSet(S) /\ Cardinality(S) <= Len(pages[w])
  <2> DEFINE f == [k \in 1 .. Len(pages[w]) |-> pages[w][k]]
  <2>1. IsFiniteSet(1 .. Len(pages[w])) /\ Cardinality(1 .. Len(pages[w])) = Len(pages[w])
    BY <1>2, FS_Interval
  <2>2. S = { pages[w][k] : k \in 1 .. Len(pages[w]) }
    BY <1>2 DEF ToSet
  <2>3. f \in Surjection(1 .. Len(pages[w]), S)
    BY <2>2 DEF Surjection
  <2> QED
    BY <2>1, <2>3, FS_Surjection
<1>4. P = S \cap pinned
  BY <1>2
<1>5. NPinned(w) = Cardinality(P)
  BY DEF NPinned
<1> HIDE DEF S, P
<1>6. IsFiniteSet(P) /\ Cardinality(P) \in Nat /\ Cardinality(P) <= Cardinality(S) /\ Cardinality(S) \in Nat
  BY <1>3, <1>4, FS_Subset, FS_CardinalityType
<1>7. ASSUME NEW t \in S \ pinned PROVE Cardinality(P) + 1 <= Cardinality(S)
  <2>1. P \cup {t} \subseteq S /\ t \notin P
    BY <1>4
  <2>2. Cardinality(P \cup {t}) = Cardinality(P) + 1
    BY <1>6, <2>1, FS_AddElement
  <2> QED
    BY <1>3, <2>1, <2>2, FS_Subset
<1>8. ASSUME NEW t \in S \cap pinned PROVE Cardinality(P) >= 1
  <2>1. Cardinality(P) # 0
    BY <1>4, <1>6, FS_EmptySet
  <2> QED
    BY <1>6, <2>1
<1> QED
  BY <1>2, <1>3, <1>5, <1>6, <1>7, <1>8 DEF S

(* Where tabs are placed, before a step and after it.                      *)
LEMMA PlacedOf ==
  ASSUME NEW pg \in [Windows -> Seq(Tabs)], NEW t
  PROVE  t \in {u \in Tabs : {w \in Windows : Contains(pg[w], u)} # {}}
           <=> \E w \in Windows : t \in ToSet(pg[w])
<1>1. ASSUME NEW w \in Windows
      PROVE  /\ t \in ToSet(pg[w]) <=> Contains(pg[w], t)
             /\ t \in ToSet(pg[w]) => t \in Tabs
  <2>1. pg[w] \in Seq(Tabs)
    OBVIOUS
  <2>2. Len(pg[w]) \in Nat /\ ToSet(pg[w]) \subseteq Tabs
    BY <2>1, SeqFacts
  <2>3. t \in ToSet(pg[w]) <=> \E k \in 1 .. Len(pg[w]) : pg[w][k] = t
    BY <2>1, SeqFacts
  <2> QED
    BY <2>2, <2>3 DEF Contains
<1>2. ASSUME t \in {u \in Tabs : {w \in Windows : Contains(pg[w], u)} # {}}
      PROVE  \E w \in Windows : t \in ToSet(pg[w])
  <2>1. PICK w \in Windows : Contains(pg[w], t)
    BY <1>2
  <2> QED
    BY <1>1, <2>1
<1>3. ASSUME NEW w \in Windows, t \in ToSet(pg[w])
      PROVE  t \in {u \in Tabs : {o \in Windows : Contains(pg[o], u)} # {}}
  <2>1. t \in Tabs /\ Contains(pg[w], t)
    BY <1>1, <1>3
  <2> QED
    BY <2>1
<1> QED
  BY <1>2, <1>3

LEMMA PlacedIn ==
  ASSUME PagesOK
  PROVE  \A t : t \in Placed <=> \E w \in Windows : t \in ToSet(pages[w])
BY PlacedOf DEF Placed, Holder, PagesOK, PagesFit

LEMMA PlacedNext ==
  ASSUME PagesOK'
  PROVE  \A t : t \in Placed' <=> \E w \in Windows : t \in ToSet(pages'[w])
BY PlacedOf DEF Placed, Holder, PagesOK, PagesFit
-----------------------------------------------------------------------------
(* The full-screen box *)

(* A box whose bars are shown while something keeps them.                  *)
BarsOK(b) ==
  /\ b \in Boxes
  /\ Held(b) => b.revealed
  /\ b.revealed => Held(b) \/ b.lastY = "bar"

(* update() decides it anew, whatever a box it was given, if only the bars *)
(* were shown out of full screen and while they are forced.                *)
LEMMA UpdateKeeps ==
  ASSUME NEW b \in Boxes, ~b.fullscreen \/ b.forced => b.revealed
  PROVE  BarsOK(Update(b, TRUE))
BY DEF Boxes, Heights, Focuses, BarsOK, Held, Update, ShowUi, HideUi, IsFocusingTitlebar

LEMMA BoxKeeps ==
  ASSUME NEW b, BarsOK(b), NEW y \in Heights, NEW f \in Focuses
  PROVE  /\ BarsOK(SetFocus(b, f)) /\ BarsOK(Motion(b, y)) /\ BarsOK(Press(b, y))
         /\ BarsOK(Reveal(b)) /\ BarsOK(Unreveal(b)) /\ BarsOK(RevealFor(b))
         /\ b.forced => BarsOK(ClearForcedTimeout(b))
<1>1. /\ b \in Boxes
      /\ ~b.fullscreen \/ b.forced => b.revealed
      /\ b.lastFocus = "bar" \/ (b.lastY = "bar" /\ ~b.isTouch) => b.revealed
      /\ b.revealed => Held(b) \/ b.lastY = "bar"
  BY DEF BarsOK, Held
<1>2. BarsOK(SetFocus(b, f)) /\ BarsOK(SetFocus(b, "tab"))
  <2>1. ASSUME NEW g \in Focuses PROVE BarsOK(SetFocus(b, g))
    <3>1. /\ [b EXCEPT !.lastFocus = g] \in Boxes
          /\ [b EXCEPT !.lastFocus = g].fullscreen = b.fullscreen
          /\ [b EXCEPT !.lastFocus = g].forced = b.forced
          /\ [b EXCEPT !.lastFocus = g].revealed = b.revealed
      BY <1>1 DEF Boxes
    <3> QED
      BY <1>1, <3>1, UpdateKeeps DEF SetFocus
  <2> QED
    BY <2>1 DEF Focuses
<1>3. BarsOK(Motion(b, y))
  <2> DEFINE c == [b EXCEPT !.isTouch = FALSE, !.lastY = y]
  <2>1. c \in Boxes /\ c.fullscreen = b.fullscreen /\ c.forced = b.forced /\ c.revealed = b.revealed
    BY <1>1 DEF Boxes
  <2> QED
    BY <1>1, <2>1, UpdateKeeps DEF Motion
<1>4. BarsOK(Press(b, y))
  <2> DEFINE c == [b EXCEPT !.isTouch = TRUE]
  <2>1. /\ c \in Boxes /\ c.fullscreen = b.fullscreen /\ c.forced = b.forced /\ c.revealed = b.revealed
        /\ c.lastFocus = b.lastFocus /\ c.lastY = b.lastY /\ c.isTouch = TRUE
    BY <1>1 DEF Boxes
  <2>2. BarsOK(c)
    BY <1>1, <2>1 DEF BarsOK, Held
  <2>3. BarsOK(Update(c, TRUE))
    BY <1>1, <2>1, UpdateKeeps
  <2> QED
    BY <2>2, <2>3 DEF Press
<1>5. ASSUME NEW c \in Boxes PROVE BarsOK(Reveal(c))
  BY <1>5 DEF Reveal, ShowUi, BarsOK, Held, Boxes, Heights
<1>6. ASSUME b.forced PROVE BarsOK(ClearForcedTimeout(b))
  BY <1>1, UpdateKeeps DEF ClearForcedTimeout, Boxes
<1>7. BarsOK(Unreveal(b))
  BY <1>6 DEF Unreveal, ClearForcedTimeout
<1>8. BarsOK(RevealFor(b))
  BY <1>2, <1>5 DEF RevealFor, BarsOK
<1> QED
  BY <1>1, <1>2, <1>3, <1>4, <1>5, <1>6, <1>7, <1>8

LEMMA FullscreenKeeps ==
  ASSUME NEW b, BarsOK(b), NEW full \in BOOLEAN
  PROVE  BarsOK(IF full THEN Reveal(SetFullscreen(b, full)) ELSE SetFullscreen(b, full))
BY DEF BarsOK, Held, Boxes, Heights, Focuses, SetFullscreen, Reveal, ShowUi, Update, HideUi,
       StartHideTimeout, IsFocusingTitlebar

(* Hiding the bars moves the focus away from none of them.                 *)
LEMMA FocusKeeps ==
  ASSUME NEW b, BarsOK(b)
  PROVE  /\ \A f \in Focuses : \A c \in FocusChanges(b, f) : BarsOK(c)
         /\ TookFocus(b) => BarsOK([b EXCEPT !.lastFocus = "tab"])
<1>1. ASSUME NEW c, BarsOK(c), TookFocus(c) PROVE BarsOK([c EXCEPT !.lastFocus = "tab"])
  BY <1>1 DEF BarsOK, Held, Boxes, Focuses, TookFocus
<1>2. \A f \in Focuses : BarsOK(SetFocus(b, f))
  BY BoxKeeps DEF Heights
<1> QED
  BY <1>1, <1>2 DEF FocusChanges

LEMMA NewBoxOK ==
  /\ BarsOK(NewBox) /\ BarsOK(RevealFor(NewBox))
  /\ BarsOK([RevealFor(NewBox) EXCEPT !.forced = FALSE])
<1>1. BarsOK(NewBox)
  BY DEF BarsOK, Held, Boxes, NewBox, Heights, Focuses
<1>2. BarsOK(RevealFor(NewBox))
  BY <1>1, BoxKeeps DEF Heights, Focuses
<1>3. ~RevealFor(NewBox).fullscreen
  BY DEF RevealFor, Reveal, ShowUi, SetFocus, Update, NewBox
<1>4. BarsOK([RevealFor(NewBox) EXCEPT !.forced = FALSE])
  BY <1>2, <1>3 DEF BarsOK, Held, Boxes
<1> QED
  BY <1>1, <1>2, <1>4

(* Every window has such a box, whatever the step.                         *)
BoxInv == box \in [Windows -> Boxes] /\ \A w \in Windows : BarsOK(box[w])

LEMMA BoxPut ==
  ASSUME BoxInv, NEW w \in Windows, NEW b, BarsOK(b), box' = [box EXCEPT ![w] = b]
  PROVE  BoxInv'
BY DEF BoxInv, BarsOK

LEMMA FocusPut ==
  ASSUME BoxInv, NEW w \in Windows, NEW f \in Focuses, GrabFocus(w, f)
  PROVE  BoxInv'
<1>1. PICK c \in FocusChanges(box[w], f) : box' = [box EXCEPT ![w] = c]
  BY DEF GrabFocus
<1>2. BarsOK(box[w])
  BY DEF BoxInv
<1>3. BarsOK(c)
  BY <1>2, FocusKeeps
<1> QED
  BY <1>1, <1>3, BoxPut

LEMMA HidPut ==
  ASSUME BoxInv, NEW w \in Windows, NEW b, BarsOK(b), BoxBecomes(w, b)
  PROVE  BoxInv'
<1>1. PICK f \in {b.lastFocus} \cup IF TookFocus(b) THEN {"tab"} ELSE {} :
         box' = [box EXCEPT ![w] = [b EXCEPT !.lastFocus = f]]
  BY DEF BoxBecomes
<1>2. CASE f = b.lastFocus
  <2>1. [b EXCEPT !.lastFocus = f] = b
    BY <1>2 DEF BarsOK, Boxes
  <2> QED
    BY <1>1, <2>1, BoxPut
<1>3. CASE TookFocus(b) /\ f = "tab"
  BY <1>1, <1>3, FocusKeeps, BoxPut
<1> QED
  BY <1>1, <1>2, <1>3

LEMMA BoxInit == Init => BoxInv
<1> SUFFICES ASSUME Init PROVE BoxInv
  OBVIOUS
<1>1. PICK w : box = [o \in Windows |-> IF o = w THEN [RevealFor(NewBox) EXCEPT !.forced = FALSE] ELSE NewBox]
  BY DEF Init
<1>2. \A b : BarsOK(b) => b \in Boxes
  BY DEF BarsOK
<1> QED
  BY <1>1, <1>2, NewBoxOK DEF BoxInv

LEMMA BoxPage == BoxInv /\ PageStep => BoxInv'
<1> SUFFICES ASSUME BoxInv, PageStep PROVE BoxInv'
  OBVIOUS
<1>1. \A w \in Windows : BarsOK(box[w]) /\ BarsOK(RevealFor(box[w]))
  BY BoxKeeps DEF BoxInv, Heights, Focuses
<1>2. "tab" \in Focuses
  BY DEF Focuses
<1>3. ASSUME NEW w \in Windows, box' = [box EXCEPT ![w] = RevealFor(box[w])] PROVE BoxInv'
  BY <1>1, <1>3, BoxPut
<1>4. ASSUME NEW w \in Windows, NEW t \in Tabs, NEW p \in Profiles, OpenWindow(w, t, p)
      PROVE  BoxInv'
  BY <1>4, NewBoxOK, BoxPut DEF OpenWindow
<1>5. ASSUME NEW w \in Windows, NEW t \in Tabs, OpenTab(w, t) PROVE BoxInv'
  BY <1>3, <1>5 DEF OpenTab, ShowPage
<1>6. ASSUME NEW w \in Windows, NEW t \in Tabs, AddTabAtEnd(w, t) PROVE BoxInv'
  BY <1>6 DEF AddTabAtEnd, BoxInv
<1>7. ASSUME NEW w \in Windows, NEW t \in Tabs, ClosePage(w, t) PROVE BoxInv'
  <2>1. \/ box' = [box EXCEPT ![w] = NewBox] \/ box' = [box EXCEPT ![w] = RevealFor(box[w])] \/ box' = box
    BY <1>7 DEF ClosePage, ShowPage
  <2>2. CASE box' = [box EXCEPT ![w] = NewBox]
    BY <2>2, NewBoxOK, BoxPut
  <2>3. CASE box' = box
    BY <2>3 DEF BoxInv
  <2> QED
    BY <1>3, <2>1, <2>2, <2>3
<1>8. ASSUME NEW w \in Windows, NEW o \in Windows, Detach(w, o) PROVE BoxInv'
  <2>1. box' = [box EXCEPT ![w] = RevealFor(box[w]), ![o] = RevealFor(NewBox)]
    BY <1>8 DEF Detach
  <2>2. \A b : BarsOK(b) => b \in Boxes
    BY DEF BarsOK
  <2> QED
    BY <1>1, <2>1, <2>2, NewBoxOK DEF BoxInv
<1>9. ASSUME NEW w \in Windows, NEW t, SelectPage(w, t) PROVE BoxInv'
  BY <1>3, <1>9 DEF SelectPage, ShowPage
<1>10. ASSUME NEW w \in Windows, NEW on \in BOOLEAN, SetPinned(w, on) PROVE BoxInv'
  BY <1>10 DEF SetPinned, BoxInv
<1>11. ASSUME NEW w \in Windows, MoveLeft(w) \/ MoveRight(w) PROVE BoxInv'
  BY <1>2, <1>11, FocusPut DEF MoveLeft, MoveRight, MovePage
<1>12. ASSUME NEW w \in Windows, PageNext(w) \/ PagePrevious(w) \/ \E n \in 1 .. Cardinality(Tabs) : TabFocus(w, n)
       PROVE  BoxInv'
  <2>1. \E t : SelectPage(w, t)
    BY <1>12 DEF PageNext, PagePrevious, TabFocus
  <2> QED
    BY <1>9, <2>1
<1> QED
  BY <1>4, <1>5, <1>6, <1>7, <1>8, <1>10, <1>11, <1>12 DEF PageStep

LEMMA BoxTab == BoxInv /\ TabStep => BoxInv'
BY DEF TabStep, ZoomIn, ZoomOut, ZoomOne, SetZoom, InTab, BackInTab, KindForgotten, LeaderKindChanges,
       ApplyProfile, Output, EditProfile, BoxInv

LEMMA BoxWindow == BoxInv /\ WindowStep => BoxInv'
<1> SUFFICES ASSUME BoxInv, NEW w \in Windows,
                    \/ Search(w) \/ Dismiss(w) \/ FocusHeader(w) \/ ToplevelStateChanges(w)
                    \/ Commit(w) \/ ToggleOverview(w)
                    \/ \E text \in Texts : Type(w, text)
                    \/ \E y \in Heights : PointerMoves(w, y) \/ Touch(w, y)
             PROVE  BoxInv'
  BY DEF WindowStep
<1>1. BarsOK(box[w]) /\ BarsOK(Unreveal(box[w]))
  BY BoxKeeps DEF BoxInv, Heights, Focuses
<1>2. {"tab", "find", "bar"} \subseteq Focuses
  BY DEF Focuses
<1>3. ASSUME Search(w) \/ Dismiss(w) \/ FocusHeader(w) PROVE BoxInv'
  BY <1>2, <1>3, FocusPut DEF Search, Dismiss, FocusHeader
<1>4. ASSUME ToplevelStateChanges(w) PROVE BoxInv'
  <2>1. PICK full \in BOOLEAN :
           box' = [box EXCEPT ![w] = IF full THEN Reveal(SetFullscreen(box[w], full)) ELSE SetFullscreen(box[w], full)]
    <3>1. (~box[w].fullscreen) \in BOOLEAN
      OBVIOUS
    <3> QED
      BY <1>4, <3>1 DEF ToplevelStateChanges
  <2>2. BarsOK(IF full THEN Reveal(SetFullscreen(box[w], full)) ELSE SetFullscreen(box[w], full))
    BY <1>1, FullscreenKeeps
  <2> QED
    BY <2>1, <2>2, BoxPut
<1>5. ASSUME Commit(w) PROVE BoxInv'
  BY <1>1, <1>5, BoxPut DEF Commit
<1>6. ASSUME ToggleOverview(w) PROVE BoxInv'
  <2>1. box' = box \/ GrabFocus(w, "tab")
    BY <1>6 DEF ToggleOverview
  <2> QED
    BY <1>2, <2>1, FocusPut DEF BoxInv
<1>7. ASSUME NEW text \in Texts, Type(w, text) PROVE BoxInv'
  BY <1>7 DEF Type, BoxInv
<1>8. ASSUME NEW y \in Heights, PointerMoves(w, y) \/ Touch(w, y) PROVE BoxInv'
  <2>1. BarsOK(Motion(box[w], y)) /\ BarsOK(Press(box[w], y))
    BY <1>1, <1>2, BoxKeeps
  <2> QED
    BY <1>8, <2>1, HidPut, BoxPut DEF PointerMoves, Touch
<1> QED
  BY <1>3, <1>4, <1>5, <1>6, <1>7, <1>8

LEMMA BoxLoop == BoxInv /\ LoopStep => BoxInv'
<1> SUFFICES ASSUME BoxInv, LoopStep PROVE BoxInv'
  OBVIOUS
<1>1. ASSUME NEW w \in Windows, ForcedRevealEnds(w) PROVE BoxInv'
  <2>1. box[w].forced /\ BarsOK(box[w]) /\ BoxBecomes(w, ClearForcedTimeout(box[w]))
    BY <1>1 DEF ForcedRevealEnds, BoxInv
  <2>2. BarsOK(ClearForcedTimeout(box[w]))
    BY <2>1, BoxKeeps DEF Heights, Focuses
  <2> QED
    BY <2>1, <2>2, HidPut
<1>2. ASSUME NEW w \in Windows, FocusActiveTab(w) PROVE BoxInv'
  BY <1>2, FocusPut DEF FocusActiveTab, Focuses
<1>3. ASSUME NEW w \in Windows, LoadStyle(w) PROVE BoxInv'
  BY <1>3 DEF LoadStyle, BoxInv
<1>4. ASSUME NEW t \in Tabs, SizeAllocate(t) \/ Snapshot(t) PROVE BoxInv'
  BY <1>4 DEF SizeAllocate, Snapshot, BoxInv
<1> QED
  BY <1>1, <1>2, <1>3, <1>4 DEF LoopStep

(* A window has its bars while something keeps them, and no longer         *)
(* (BarsShownWhileHeld), whatever its pages, tabs and focus do.            *)
THEOREM BarsRight == Spec => []BarsShownWhileHeld
<1>1. BoxInv /\ [Next]_vars => BoxInv'
  <2>1. BoxInv /\ UNCHANGED vars => BoxInv'
    BY DEF vars, BoxInv
  <2> QED
    BY <2>1, BoxPage, BoxTab, BoxWindow, BoxLoop DEF Next
<1>2. BoxInv => BarsShownWhileHeld
  BY DEF BoxInv, BarsShownWhileHeld, BarsOK
<1> QED
  BY <1>1, <1>2, BoxInit, PTL DEF Spec
-----------------------------------------------------------------------------
(* What a window says of a tab *)

TabStates ==
  [profile : Profiles, signals : Profiles, applied : Looks \cup {"none"},
   zoom : ZoomLevels, kind : Kinds, seen : Kinds, attention : BOOLEAN,
   regex : Texts, left : BOOLEAN, texture : BOOLEAN, behind : BOOLEAN, dirty : BOOLEAN,
   resize : BOOLEAN]

WinStates ==
  [open : BOOLEAN, enabled : SUBSET Actions,
   page : Tabs \cup {NoTab}, follows : Tabs \cup {NoTab},
   bound : Tabs \cup {NoTab}, chipTab : Tabs \cup {NoTab},
   css : Kinds, chip : Kinds,
   palette : Looks \cup {"none"}, loaded : Looks \cup {"none"}, queued : BOOLEAN,
   searching : BOOLEAN, terminal : Tabs \cup {NoTab}, text : Texts,
   overview : BOOLEAN, animating : BOOLEAN, focusTimer : BOOLEAN]

\* The style sheet of the window is the one of its palette, or about to be.
StyleOK(r) == r.queued \/ r.loaded = r.palette

\* Every handler of the window listens to t.
Listens(r, t) ==
  r.page = t /\ r.follows = t /\ r.bound = t /\ r.chipTab = t /\ r.terminal = t

PinActions(isPinned) == IF isPinned THEN {"unpin"} ELSE {"pin"}
RegexOf(text) == IF text = "valid" THEN text ELSE ""

(* A window in state r shows t, whose state is tt.                         *)
Shows(r, t, tt, isPinned, lk) ==
  /\ r.open /\ Listens(r, t) /\ StyleOK(r)
  /\ r.css = tt.kind /\ r.chip = tt.kind
  /\ r.enabled \cap ZoomGroup = ZoomActions(tt.zoom)
  /\ r.enabled \cap PinGroup = PinActions(isPinned)
  /\ r.palette = lk[tt.profile]
  /\ tt.regex = RegexOf(r.text) \/ (r.text = "" /\ tt.left)
  /\ ~tt.attention

(* What holds of a tab in a view, shown or not.                            *)
Sound(tt, lk) ==
  /\ tt.signals = tt.profile /\ tt.applied = lk[tt.profile]
  /\ tt.kind # tt.seen => tt.attention

LEMMA StatesTyped ==
  ASSUME look \in [Profiles -> Looks]
  PROVE  /\ NewWindow \in WinStates /\ ~NewWindow.open /\ StyleOK(NewWindow)
         /\ NewWindow.text = "" /\ NewWindow.terminal = NoTab
         /\ \A p \in Profiles : /\ NewTab(p) \in TabStates /\ Sound(NewTab(p), look)
                                /\ NewTab(p).profile = p /\ ~NewTab(p).attention /\ NewTab(p).regex = ""
         /\ NoPage \in TabStates
<1>1. MaxZoom \in Nat /\ ZoomDefault \in ZoomLevels /\ "unknown" \in Kinds /\ Profiles # {}
  BY ViewAssumption DEF ZoomDefault, ZoomLevels
<1>2. NewWindow \in WinStates /\ ~NewWindow.open /\ StyleOK(NewWindow) /\ NewWindow.text = "" /\ NewWindow.terminal = NoTab
  BY <1>1 DEF NewWindow, WinStates, StyleOK, Actions, ZoomGroup, PinGroup, FullGroup, Texts
<1>3. ASSUME NEW p \in Profiles
      PROVE /\ NewTab(p) \in TabStates /\ Sound(NewTab(p), look)
            /\ NewTab(p).profile = p /\ ~NewTab(p).attention /\ NewTab(p).regex = ""
  BY <1>1 DEF NewTab, TabStates, Sound, Texts, Looks
<1>4. [NewTab(CHOOSE p \in Profiles : TRUE) EXCEPT !.applied = "none"] \in TabStates
  <2>1. ASSUME NEW p \in Profiles PROVE [NewTab(p) EXCEPT !.applied = "none"] \in TabStates
    <3>1. PICK n : n = NewTab(p)
      OBVIOUS
    <3>2. n \in TabStates
      BY <1>3, <3>1
    <3>3. [n EXCEPT !.applied = "none"] \in TabStates
      BY <3>2 DEF TabStates
    <3> QED
      BY <3>1, <3>3
  <2> QED
    BY <1>1, <2>1
<1> QED
  BY <1>2, <1>3, <1>4 DEF NoPage

LEMMA ZoomShown ==
  ASSUME NEW r \in WinStates, NEW zoom
  PROVE  LET n == NotifyZoom(r, zoom)
         IN  /\ n \in WinStates /\ n = [r EXCEPT !.enabled = n.enabled]
             /\ n.enabled \cap ZoomGroup = ZoomActions(zoom)
             /\ n.enabled \ ZoomGroup = r.enabled \ ZoomGroup
<1>1. /\ ZoomActions(zoom) \subseteq ZoomGroup /\ ZoomGroup \subseteq Actions
      /\ r.enabled \subseteq Actions
  BY DEF ZoomActions, Actions, WinStates
<1>2. PICK e : e = (r.enabled \ ZoomGroup) \cup ZoomActions(zoom)
  OBVIOUS
<1>3. e \subseteq Actions /\ e \cap ZoomGroup = ZoomActions(zoom) /\ e \ ZoomGroup = r.enabled \ ZoomGroup
  BY <1>1, <1>2
<1>4. NotifyZoom(r, zoom) = [r EXCEPT !.enabled = e]
  BY <1>2 DEF NotifyZoom, SetEnabled
<1>5. [r EXCEPT !.enabled = e] \in WinStates /\ [r EXCEPT !.enabled = e].enabled = e
  BY <1>3 DEF WinStates
<1> QED
  BY <1>3, <1>4, <1>5

LEMMA PinShown ==
  ASSUME NEW r \in WinStates, NEW isPinned \in BOOLEAN
  PROVE  LET n == NotifyPinned(r, isPinned)
         IN  /\ n \in WinStates /\ n = [r EXCEPT !.enabled = n.enabled]
             /\ n.enabled \cap PinGroup = PinActions(isPinned)
             /\ n.enabled \ PinGroup = r.enabled \ PinGroup
<1>1. /\ PinActions(isPinned) \subseteq PinGroup /\ PinGroup \subseteq Actions
      /\ r.enabled \subseteq Actions
  BY DEF PinActions, PinGroup, Actions, WinStates
<1>2. PICK e : e = (r.enabled \ PinGroup) \cup PinActions(isPinned)
  OBVIOUS
<1>3. e \subseteq Actions /\ e \cap PinGroup = PinActions(isPinned) /\ e \ PinGroup = r.enabled \ PinGroup
  BY <1>1, <1>2
<1>4. NotifyPinned(r, isPinned) = [r EXCEPT !.enabled = e]
  BY <1>2 DEF NotifyPinned, SetEnabled, PinActions
<1>5. [r EXCEPT !.enabled = e] \in WinStates /\ [r EXCEPT !.enabled = e].enabled = e
  BY <1>3 DEF WinStates
<1> QED
  BY <1>3, <1>4, <1>5

LEMMA GroupsApart ==
  /\ ZoomGroup \cap PinGroup = {} /\ ZoomGroup \cap FullGroup = {} /\ PinGroup \cap FullGroup = {}
  /\ "search" \notin ZoomGroup \cup PinGroup /\ "search" \in Actions
  /\ FullGroup \subseteq Actions
BY DEF ZoomGroup, PinGroup, FullGroup, Actions

(* A window in state n tells of t, having been in state r.                 *)
Tells(n, r, t, tt, isPinned, lk) ==
  /\ n \in WinStates /\ n.open = r.open /\ Listens(n, t) /\ StyleOK(n)
  /\ n.css = tt.kind /\ n.chip = tt.kind
  /\ n.enabled \cap ZoomGroup = ZoomActions(tt.zoom)
  /\ n.enabled \cap PinGroup = PinActions(isPinned)
  /\ n.palette = lk[tt.profile]
  /\ n.text = IF t = r.terminal THEN r.text ELSE ""

(* Whatever the window said before, it tells of the tab it shows now.  What *)
(* was typed for another terminal is gone.                                 *)
LEMMA NotifyShows ==
  ASSUME look \in [Profiles -> Looks], NEW r \in WinStates, StyleOK(r),
         NEW t \in Tabs, NEW tt \in TabStates, NEW isPinned \in BOOLEAN,
         NEW n, n = NotifySelectedPage(r, t, tt, isPinned)
  PROVE  Tells(n, r, t, tt, isPinned, look)
<1>1. PICK a : a = NotifyPinned(r, isPinned)
  OBVIOUS
<1>2. PICK b : b = [a EXCEPT !.page = t, !.follows = t]
  OBVIOUS
<1>3. PICK c : c = [b EXCEPT !.css = tt.kind]
  OBVIOUS
<1>4. PICK d : d = NotifyZoom(c, tt.zoom)
  OBVIOUS
<1>5. PICK e : e = FindBarSetTerminal(d, t)
  OBVIOUS
<1>6. PICK f : f = [[e EXCEPT !.enabled = @ \cup {"search"}] EXCEPT !.bound = t]
  OBVIOUS
<1>7. PICK g : g = SetPalette(f, look[tt.profile])
  OBVIOUS
<1>8. n = [g EXCEPT !.chipTab = t, !.chip = tt.kind]
  BY <1>1, <1>2, <1>3, <1>4, <1>5, <1>6, <1>7
     DEF NotifySelectedPage, ActiveTabBind, NotifyLeaderKind, UpdateSessionContext
<1>9. tt.kind \in Kinds /\ look[tt.profile] \in Looks
  BY DEF TabStates
<1>10. /\ a \in WinStates /\ a = [r EXCEPT !.enabled = a.enabled]
       /\ a.enabled \cap PinGroup = PinActions(isPinned)
  BY <1>1, PinShown
<1>11. /\ a.open = r.open /\ a.queued = r.queued /\ a.loaded = r.loaded /\ a.palette = r.palette
       /\ a.terminal = r.terminal /\ a.text = r.text
  BY <1>10 DEF WinStates
<1>12. /\ b \in WinStates /\ b.page = t /\ b.follows = t /\ b.enabled = a.enabled
       /\ b.open = r.open /\ b.queued = r.queued /\ b.loaded = r.loaded /\ b.palette = r.palette
       /\ b.terminal = r.terminal /\ b.text = r.text
  BY <1>2, <1>10, <1>11 DEF WinStates
<1>13. /\ c \in WinStates /\ c.page = t /\ c.follows = t /\ c.css = tt.kind /\ c.enabled = a.enabled
       /\ c.open = r.open /\ c.queued = r.queued /\ c.loaded = r.loaded /\ c.palette = r.palette
       /\ c.terminal = r.terminal /\ c.text = r.text
  BY <1>3, <1>9, <1>12 DEF WinStates
<1>14. /\ d \in WinStates /\ d = [c EXCEPT !.enabled = d.enabled]
       /\ d.enabled \cap ZoomGroup = ZoomActions(tt.zoom)
       /\ d.enabled \ ZoomGroup = c.enabled \ ZoomGroup
  BY <1>4, <1>13, ZoomShown
<1>15. /\ d.page = t /\ d.follows = t /\ d.css = tt.kind
       /\ d.open = r.open /\ d.queued = r.queued /\ d.loaded = r.loaded /\ d.palette = r.palette
       /\ d.terminal = r.terminal /\ d.text = r.text
  BY <1>13, <1>14 DEF WinStates
<1>16. d.enabled \cap PinGroup = PinActions(isPinned)
  BY <1>10, <1>13, <1>14, GroupsApart
<1>17. /\ e \in WinStates /\ e.page = t /\ e.follows = t /\ e.css = tt.kind /\ e.enabled = d.enabled
       /\ e.open = r.open /\ e.queued = r.queued /\ e.loaded = r.loaded /\ e.palette = r.palette
       /\ e.terminal = t /\ e.text = IF t = r.terminal THEN r.text ELSE ""
  <2>1. PICK x \in Texts : x = IF t = r.terminal THEN r.text ELSE ""
    BY DEF WinStates, Texts
  <2>2. e = [d EXCEPT !.terminal = t, !.text = x]
    BY <1>5, <1>15, <2>1 DEF FindBarSetTerminal
  <2> QED
    BY <1>14, <1>15, <2>1, <2>2 DEF WinStates
<1>18. /\ f \in WinStates /\ f.page = t /\ f.follows = t /\ f.css = tt.kind
       /\ f.enabled = d.enabled \cup {"search"} /\ f.bound = t
       /\ f.open = r.open /\ f.queued = r.queued /\ f.loaded = r.loaded /\ f.palette = r.palette
       /\ f.terminal = t /\ f.text = e.text
  <2>1. e.enabled \cup {"search"} \in SUBSET Actions
    BY <1>17, GroupsApart DEF WinStates
  <2> QED
    BY <1>6, <1>17, <2>1 DEF WinStates
<1>19. /\ g \in WinStates /\ g.page = t /\ g.follows = t /\ g.css = tt.kind
       /\ g.enabled = f.enabled /\ g.bound = t /\ g.open = r.open
       /\ g.terminal = t /\ g.text = e.text
       /\ g.palette = look[tt.profile] /\ StyleOK(g)
  <2>1. PICK p \in Looks, q \in BOOLEAN : p = look[tt.profile] /\ q = (f.queued \/ p # f.palette)
    BY <1>9
  <2>2. g = [f EXCEPT !.palette = p, !.queued = q]
    BY <1>7, <2>1 DEF SetPalette
  <2>3. /\ g \in WinStates /\ g.page = t /\ g.follows = t /\ g.css = tt.kind
        /\ g.enabled = f.enabled /\ g.bound = t /\ g.open = r.open
        /\ g.terminal = t /\ g.text = e.text
        /\ g.palette = p /\ g.queued = q /\ g.loaded = f.loaded
    BY <1>18, <2>2 DEF WinStates
  <2>4. f.queued \/ f.loaded = f.palette
    BY <1>12, <1>18 DEF StyleOK
  <2>5. StyleOK(g)
    BY <2>1, <2>3, <2>4 DEF StyleOK
  <2> QED
    BY <2>1, <2>3, <2>5
<1>20. f.enabled \cap ZoomGroup = ZoomActions(tt.zoom) /\ f.enabled \cap PinGroup = PinActions(isPinned)
  BY <1>14, <1>16, <1>18, GroupsApart
<1>21. /\ n \in WinStates /\ n.open = r.open /\ n.chip = tt.kind /\ n.chipTab = t
       /\ n.page = t /\ n.follows = t /\ n.bound = t /\ n.terminal = t
       /\ n.css = tt.kind /\ n.enabled = f.enabled /\ n.palette = g.palette /\ n.text = e.text
       /\ n.queued = g.queued /\ n.loaded = g.loaded
  BY <1>8, <1>9, <1>19 DEF WinStates
<1> QED
  BY <1>17, <1>19, <1>20, <1>21 DEF Tells, Listens, StyleOK

(* A tab in state s is seen, having been in state tt.                      *)
Seen(s, tt, lk) ==
  /\ s \in TabStates /\ ~s.attention /\ s.kind = tt.kind
  /\ s.profile = tt.profile /\ s.zoom = tt.zoom
  /\ s.regex = "" \/ s.left
  /\ Sound(tt, lk) => Sound(s, lk)

(* The tab that is shown now.  An erased text erases its search, and else   *)
(* it has the one it was left with.                                        *)
LEMMA ShowEffect ==
  ASSUME NEW r \in WinStates, NEW t \in Tabs, NEW tt \in TabStates, NEW lk
  PROVE  Seen(ShowTab(r, t, tt), tt, lk)
BY DEF Seen, ShowTab, EntryChanged, TabStates, Texts, Sound

(* Showing t brings a window and the tab together.                         *)
LEMMA ShowsNow ==
  ASSUME look \in [Profiles -> Looks], NEW r \in WinStates, StyleOK(r),
         NEW t \in Tabs, t # r.terminal, NEW tt \in TabStates, NEW isPinned \in BOOLEAN,
         NEW n, n = NotifySelectedPage(r, t, tt, isPinned), NEW s, s = ShowTab(r, t, tt)
  PROVE  /\ n \in WinStates /\ s \in TabStates
         /\ r.open => Shows(n, t, s, isPinned, look)
         /\ Sound(tt, look) => Sound(s, look)
<1>3. /\ n \in WinStates /\ n.open = r.open /\ Listens(n, t) /\ StyleOK(n)
      /\ n.css = tt.kind /\ n.chip = tt.kind
      /\ n.enabled \cap ZoomGroup = ZoomActions(tt.zoom)
      /\ n.enabled \cap PinGroup = PinActions(isPinned)
      /\ n.palette = look[tt.profile] /\ n.text = ""
  <2>1. Tells(n, r, t, tt, isPinned, look)
    BY NotifyShows
  <2> QED
    BY <2>1 DEF Tells
<1>4. /\ s \in TabStates /\ ~s.attention /\ s.kind = tt.kind
      /\ s.profile = tt.profile /\ s.zoom = tt.zoom /\ (s.regex = "" \/ s.left)
      /\ Sound(tt, look) => Sound(s, look)
  <2>1. Seen(s, tt, look)
    BY ShowEffect
  <2> QED
    BY <2>1 DEF Seen
<1>5. ASSUME r.open PROVE Shows(n, t, s, isPinned, look)
  <2>1. n.open
    BY <1>3, <1>5
  <2>2. /\ n.css = s.kind /\ n.chip = s.kind
        /\ n.enabled \cap ZoomGroup = ZoomActions(s.zoom)
        /\ n.palette = look[s.profile] /\ n.text = ""
    BY <1>3, <1>4
  <2>3. s.regex = RegexOf(n.text) \/ (n.text = "" /\ s.left)
    BY <1>4, <2>2 DEF RegexOf
  <2> QED
    BY <1>3, <1>4, <2>1, <2>2, <2>3 DEF Shows
<1> QED
  BY <1>3, <1>4, <1>5
-----------------------------------------------------------------------------
(* The invariant *)

\* An open window shows its selected tab; what is left of a closed one is what
\* a new one starts with.
Told(w) ==
  IF win[w].open
  THEN Shows(win[w], selected[w], tab[selected[w]], selected[w] \in pinned, look)
  ELSE win[w] = NewWindow

Typed ==
  /\ tab \in [Tabs -> TabStates] /\ win \in [Windows -> WinStates]
  /\ look \in [Profiles -> Looks]

(* Tabs are in one view at most and every open window shows one of its own; *)
(* what the window says is what that tab is; each tab in a view is sound.   *)
ViewInv ==
  /\ Typed
  /\ PagesOK
  /\ \A w \in Windows : Told(w)
  /\ \A t \in Placed : Sound(tab[t], look)

LEMMA TypesAre ==
  ASSUME Typed
  PROVE  /\ \A w \in Windows : win[w] \in WinStates
         /\ \A t \in Tabs : tab[t] \in TabStates
BY DEF Typed

(* A shown tab is in the view of its window, and nowhere else.             *)
LEMMA ShownThere ==
  ASSUME ViewInv, NEW w \in Windows
  PROVE  /\ win[w] \in WinStates /\ StyleOK(win[w]) /\ NoTab \notin Tabs
         /\ win[w].open => /\ selected[w] \in ToSet(pages[w]) /\ selected[w] \in Tabs
                           /\ selected[w] \in Placed
                           /\ Listens(win[w], selected[w])
                           /\ tab[selected[w]] \in TabStates
                           /\ look[tab[selected[w]].profile] \in Looks
         /\ ~win[w].open => /\ win[w] = NewWindow /\ pages[w] = <<>> /\ selected[w] = NoTab
                            /\ Listens(win[w], NoTab)
         /\ \A t \in Tabs : Shown(t) => \E o \in Windows : win[o].open /\ selected[o] = t
<1>1. win[w] \in WinStates /\ (win[w].open <=> w \in On)
  BY TypesAre DEF ViewInv, On
<1>2. win[w].open => selected[w] \in ToSet(pages[w])
  BY <1>1 DEF ViewInv, PagesOK, PagesFit
<1>3. ~win[w].open => pages[w] = <<>> /\ selected[w] = NoTab /\ win[w] = NewWindow
  BY <1>1 DEF ViewInv, PagesOK, PagesFit, Told
<1>4. Listens(NewWindow, NoTab) /\ StyleOK(NewWindow)
  BY DEF Listens, NewWindow, StyleOK
<1>5. win[w].open => Shows(win[w], selected[w], tab[selected[w]], selected[w] \in pinned, look)
  BY DEF ViewInv, Told
<1>6. win[w].open => Listens(win[w], selected[w]) /\ StyleOK(win[w])
  BY <1>5 DEF Shows
<1>7. selected[w] \in ToSet(pages[w]) => selected[w] \in Tabs /\ selected[w] \in Placed
  BY Place, PlacedIn DEF ViewInv
<1>8. selected[w] \in Tabs => tab[selected[w]] \in TabStates /\ look[tab[selected[w]].profile] \in Looks
  <2>1. \A t \in Tabs : tab[t] \in TabStates
    BY TypesAre DEF ViewInv
  <2>2. look \in [Profiles -> Looks]
    BY DEF ViewInv, Typed
  <2>3. \A tt \in TabStates : tt.profile \in Profiles
    BY DEF TabStates
  <2> QED
    BY <2>1, <2>2, <2>3
<1>9. NoTab \notin Tabs
  BY ViewAssumption
<1>10. ASSUME NEW t \in Tabs, Shown(t) PROVE \E o \in Windows : win[o].open /\ selected[o] = t
  <2>1. PICK o \in Windows : selected[o] = t
    BY <1>10 DEF Shown
  <2>2. o \notin On => selected[o] = NoTab
    BY DEF ViewInv, PagesOK, PagesFit
  <2> QED
    BY <1>9, <1>10, <2>1, <2>2 DEF On
<1> QED
  BY <1>1, <1>2, <1>3, <1>4, <1>6, <1>7, <1>8, <1>9, <1>10

(* A step that touches the windows of W and the tabs in them only.         *)
LEMMA Elsewhere ==
  ASSUME ViewInv, NEW W \in SUBSET Windows, Typed', PagesOK',
         \A w \in W : Told(w)', look' = look,
         \A o \in Windows \ W : win'[o] = win[o] /\ selected'[o] = selected[o],
         \A u \in Placed : (\A w \in W : u \notin ToSet(pages[w]))
                           => tab'[u] = tab[u] /\ (u \in pinned' <=> u \in pinned),
         \A u \in Placed' : Sound(tab'[u], look) \/ (u \in Placed /\ tab'[u] = tab[u])
  PROVE  ViewInv'
<1>1. ASSUME NEW o \in Windows \ W PROVE Told(o)'
  <2>1. CASE ~win[o].open
    <3>1. win'[o] = NewWindow /\ ~win'[o].open
      BY <1>1, <2>1, ShownThere
    <3> QED
      BY <1>1, <3>1 DEF Told, ViewInv
  <2>2. CASE win[o].open
    <3>1. selected[o] \in Placed /\ \A w \in W : selected[o] \notin ToSet(pages[w])
      BY <1>1, <2>2, ShownThere DEF ViewInv, PagesOK, PagesFit
    <3>2. /\ win'[o] = win[o] /\ selected'[o] = selected[o]
          /\ tab'[selected[o]] = tab[selected[o]] /\ (selected[o] \in pinned' <=> selected[o] \in pinned)
      BY <1>1, <3>1
    <3>3. Shows(win[o], selected[o], tab[selected[o]], selected[o] \in pinned, look)
      BY <1>1, <2>2 DEF ViewInv, Told
    <3>4. Shows(win'[o], selected'[o], tab'[selected'[o]], selected'[o] \in pinned', look')
      BY <3>2, <3>3 DEF Shows, PinActions
    <3> QED
      BY <1>1, <2>2, <3>2, <3>4 DEF Told, ViewInv
  <2> QED
    BY <2>1, <2>2
<1>2. \A w \in Windows : Told(w)'
  BY <1>1
<1>3. \A u \in Placed' : Sound(tab'[u], look')
  BY DEF ViewInv
<1> QED
  BY <1>2, <1>3 DEF ViewInv

LEMMA ElsewhereOne ==
  ASSUME ViewInv, NEW w \in Windows, Typed', PagesOK', Told(w)', look' = look,
         \A o \in Windows \ {w} : win'[o] = win[o] /\ selected'[o] = selected[o],
         \A u \in Placed : u \notin ToSet(pages[w])
                           => tab'[u] = tab[u] /\ (u \in pinned' <=> u \in pinned),
         \A u \in Placed' : Sound(tab'[u], look) \/ (u \in Placed /\ tab'[u] = tab[u])
  PROVE  ViewInv'
<1>1. PICK W \in SUBSET Windows : W = {w}
  OBVIOUS
<1>2. /\ \A o \in W : Told(o)'
      /\ \A o \in Windows \ W : win'[o] = win[o] /\ selected'[o] = selected[o]
      /\ \A u \in Placed : (\A o \in W : u \notin ToSet(pages[o]))
                         => tab'[u] = tab[u] /\ (u \in pinned' <=> u \in pinned)
  BY <1>1
<1> QED
  BY <1>2, Elsewhere

(* A window that opens with t.                                             *)
LEMMA OpenedShows ==
  ASSUME look \in [Profiles -> Looks], NEW p \in Profiles, NEW t \in Tabs,
         NEW r, r = Opened(NewTab(p), t)
  PROVE  r \in WinStates /\ Shows(r, t, NewTab(p), FALSE, look)
<1>1. PICK n : n = [NewWindow EXCEPT !.open = TRUE]
  OBVIOUS
<1>2. NewWindow \in WinStates /\ StyleOK(NewWindow) /\ NewWindow.text = ""
  BY StatesTyped
<1>3. n \in WinStates /\ StyleOK(n) /\ n.open = TRUE /\ n.text = ""
  BY <1>1, <1>2 DEF WinStates, StyleOK
<1>4. NewTab(p) \in TabStates /\ ~NewTab(p).attention /\ NewTab(p).regex = ""
  BY StatesTyped
<1>5. r = NotifySelectedPage(n, t, NewTab(p), FALSE)
  BY <1>1 DEF Opened
<1>6. Tells(r, n, t, NewTab(p), FALSE, look)
  BY <1>3, <1>4, <1>5, NotifyShows
<1>7. r.open /\ r.text = ""
  BY <1>3, <1>6 DEF Tells
<1>8. NewTab(p).regex = RegexOf(r.text)
  BY <1>4, <1>7 DEF RegexOf
<1> QED
  BY <1>4, <1>6, <1>7, <1>8 DEF Tells, Shows

LEMMA PagesRest ==
  ASSUME PagesOK, pages' = pages, selected' = selected, pinned' = pinned,
         \A w \in Windows : win'[w].open <=> win[w].open
  PROVE  PagesOK' /\ Placed' = Placed
<1>1. On' = On
  BY DEF On
<1>2. Placed' = Placed
  BY DEF Placed, Holder
<1> QED
  BY <1>1, <1>2 DEF PagesOK

LEMMA PutOn ==
  ASSUME NEW S, NEW s, NEW t \in S, s = <<t>>
  PROVE  s \in Seq(S) /\ s # <<>> /\ ToSet(s) = {t} /\ Distinct(s)
<1>1. s \in Seq(S) /\ Len(s) = 1 /\ s[1] = t
  OBVIOUS
<1>2. DOMAIN s = {1}
  BY <1>1, SeqFacts
<1>3. ToSet(s) = {t}
  BY <1>1, <1>2 DEF ToSet
<1>4. Distinct(s)
  BY <1>2 DEF Distinct, Once
<1>5. s # <<>>
  OBVIOUS
<1> QED
  BY <1>1, <1>3, <1>4, <1>5

LEMMA NoPages == <<>> \in Seq(Tabs) /\ ToSet(<<>>) = {} /\ Distinct(<<>>)
<1>1. <<>> \in Seq(Tabs) /\ Len(<<>>) = 0
  OBVIOUS
<1>2. DOMAIN <<>> = {}
  OBVIOUS
<1>3. ToSet(<<>>) = {}
  BY <1>2 DEF ToSet
<1>4. Distinct(<<>>)
  BY <1>2 DEF Distinct, Once
<1> QED
  BY <1>1, <1>3, <1>4

LEMMA ViewInit == Init => ViewInv
<1> SUFFICES ASSUME Init PROVE ViewInv
  OBVIOUS
<1>1. PICK w, p :
         /\ w = CHOOSE o \in Big : TRUE
         /\ p = CHOOSE q \in Profiles : TRUE
  OBVIOUS
<1>2. PICK r, s : r = Opened(NewTab(p), Head(First)) /\ s = Settled(r)
  OBVIOUS
<1>3. w \in Windows /\ p \in Profiles /\ NoTab \notin Tabs
  BY <1>1, ViewAssumption
<1>4. First \in Seq(Tabs) /\ Head(First) \in ToSet(First) /\ Head(First) \in Tabs /\ Distinct(First)
  <2>1. First \in Seq(Tabs) /\ First # <<>> /\ IsInjective(First)
    BY ViewAssumption
  <2>2. Len(First) \in Nat /\ 1 \in 1 .. Len(First) /\ Head(First) = First[1]
    BY <2>1
  <2>3. DOMAIN First = 1 .. Len(First)
    BY <2>1, SeqFacts
  <2>4. Head(First) \in ToSet(First) /\ Head(First) \in Tabs
    BY <2>1, <2>2, <2>3, SeqFacts DEF ToSet
  <2> QED
    BY <2>1, <2>4 DEF Distinct, Once, IsInjective
<1>5. /\ look = [q \in Profiles |-> "before"]
      /\ pages = [o \in Windows |-> IF o = w THEN First ELSE <<>>]
      /\ selected = [o \in Windows |-> IF o = w THEN Head(First) ELSE NoTab]
      /\ pinned = {}
      /\ tab = [t \in Tabs |-> IF t \in ToSet(First) THEN NewTab(p) ELSE NoPage]
      /\ win = [o \in Windows |-> IF o = w THEN s ELSE NewWindow]
  BY <1>1, <1>2 DEF Init
<1>6. look \in [Profiles -> Looks]
  BY <1>5 DEF Looks
<1>7. r \in WinStates /\ Shows(r, Head(First), NewTab(p), FALSE, look)
  BY <1>2, <1>3, <1>4, <1>6, OpenedShows
<1>8. s \in WinStates /\ s.open /\ Shows(s, Head(First), NewTab(p), FALSE, look)
  <2>1. s = [r EXCEPT !.queued = FALSE, !.loaded = r.palette]
    BY <1>2 DEF Settled
  <2>2. /\ s \in WinStates /\ s.open = r.open /\ s.enabled = r.enabled /\ s.page = r.page
        /\ s.follows = r.follows /\ s.bound = r.bound /\ s.chipTab = r.chipTab
        /\ s.css = r.css /\ s.chip = r.chip /\ s.palette = r.palette /\ s.loaded = r.palette
        /\ s.terminal = r.terminal /\ s.text = r.text
    BY <1>7, <2>1 DEF WinStates
  <2>3. StyleOK(s)
    BY <2>2 DEF StyleOK
  <2>4. Listens(s, Head(First))
    BY <1>7, <2>2 DEF Listens, Shows
  <2> QED
    BY <1>7, <2>2, <2>3, <2>4 DEF Shows
<1>9. /\ NewWindow \in WinStates /\ ~NewWindow.open
      /\ NewTab(p) \in TabStates /\ Sound(NewTab(p), look) /\ NoPage \in TabStates
  BY <1>3, <1>6, StatesTyped
<1>10. Typed
  BY <1>5, <1>6, <1>8, <1>9 DEF Typed
<1>11. On = {w}
  BY <1>3, <1>5, <1>8, <1>9 DEF On
<1>12. PagesOK
  <2>1. PICK pg, sel : /\ pg = [o \in Windows |-> <<>>]
                       /\ sel = [o \in Windows |-> NoTab]
    OBVIOUS
  <2>2. PagesFit(pg, sel, {}, {})
    BY <2>1, NoPages DEF PagesFit
  <2>3. pages = [pg EXCEPT ![w] = First] /\ selected = [sel EXCEPT ![w] = Head(First)]
    BY <1>5, <2>1
  <2>4. \A o \in Windows : ToSet(pg[o]) = {}
    BY <2>1, NoPages
  <2>5. PagesFit([pg EXCEPT ![w] = First], [sel EXCEPT ![w] = Head(First)], {}, {w})
    BY <1>3, <1>4, <2>2, <2>4, PagesPut
  <2> QED
    BY <1>5, <1>11, <2>3, <2>5 DEF PagesOK
<1>13. ASSUME NEW o \in Windows PROVE Told(o)
  <2>1. CASE o = w
    <3>1. win[o] = s /\ selected[o] = Head(First) /\ tab[Head(First)] = NewTab(p)
      BY <1>4, <1>5, <2>1
    <3>2. Shows(win[o], selected[o], tab[selected[o]], selected[o] \in pinned, look)
      BY <1>5, <1>8, <3>1 DEF Shows, PinActions
    <3> QED
      BY <1>8, <3>1, <3>2 DEF Told
  <2>2. CASE o # w
    BY <1>5, <1>9, <2>2 DEF Told
  <2> QED
    BY <2>1, <2>2
<1>14. ASSUME NEW t \in Placed PROVE Sound(tab[t], look)
  <2>1. PICK o \in Windows : t \in ToSet(pages[o])
    BY <1>12, PlacedIn
  <2>2. t \in ToSet(First) /\ t \in Tabs
    BY <1>5, <1>12, <2>1, NoPages, Place
  <2> QED
    BY <1>5, <1>9, <2>2
<1> QED
  BY <1>10, <1>12, <1>13, <1>14 DEF ViewInv

-----------------------------------------------------------------------------
(* What happens in tabs *)

LEMMA Steady ==
  ASSUME ViewInv, UNCHANGED <<pages, selected, pinned>>, Typed',
         \A w \in Windows : (win'[w].open <=> win[w].open) /\ Told(w)',
         \A t \in Placed : Sound(tab'[t], look')
  PROVE  ViewInv'
BY PagesRest DEF ViewInv

\* What a window shows of a tab is the same in both its states.
Alike(tt, uu) ==
  /\ uu.kind = tt.kind /\ uu.zoom = tt.zoom /\ uu.profile = tt.profile
  /\ uu.regex = tt.regex /\ uu.left = tt.left /\ uu.attention = tt.attention

LEMMA ToldOfSame ==
  ASSUME ViewInv, NEW w \in Windows, selected' = selected, pinned' = pinned, look' = look,
         win'[w] = win[w], win[w].open => Alike(tab[selected[w]], tab'[selected[w]])
  PROVE  Told(w)'
<1>1. CASE win[w].open
  <2>1. Shows(win[w], selected[w], tab[selected[w]], selected[w] \in pinned, look)
    BY <1>1 DEF ViewInv, Told
  <2>2. Shows(win'[w], selected'[w], tab'[selected'[w]], selected'[w] \in pinned', look')
    BY <1>1, <2>1 DEF Shows, Alike
  <2> QED
    BY <1>1, <2>2 DEF Told
<1>2. CASE ~win[w].open
  BY <1>2 DEF ViewInv, Told
<1> QED
  BY <1>1, <1>2

LEMMA ZoomKeeps ==
  ASSUME ViewInv, NEW w \in Windows, NEW zoom, SetZoom(w, zoom)
  PROVE  ViewInv'
<1>1. PICK t : t = selected[w]
  OBVIOUS
<1>2. /\ UNCHANGED <<pages, selected, pinned, look>> /\ win[w].open
      /\ zoom \in ZoomLevels /\ tab' = [tab EXCEPT ![t].zoom = zoom]
      /\ win' = [o \in Windows |->
                   IF win[o].follows = t THEN NotifyZoom(win[o], zoom) ELSE win[o]]
  BY <1>1 DEF SetZoom, InTab, BackInTab
<1>3. t \in Tabs /\ t # NoTab
  BY <1>1, <1>2, ShownThere
<1>4. /\ tab \in [Tabs -> TabStates] /\ win \in [Windows -> WinStates]
      /\ look \in [Profiles -> Looks]
  BY DEF ViewInv, Typed
<1>5. PICK s : s = [tab[t] EXCEPT !.zoom = zoom]
  OBVIOUS
<1>6. /\ s \in TabStates /\ s.zoom = zoom /\ s.kind = tab[t].kind /\ s.profile = tab[t].profile
      /\ s.regex = tab[t].regex /\ s.left = tab[t].left
      /\ s.attention = tab[t].attention /\ s.signals = tab[t].signals
      /\ s.applied = tab[t].applied /\ s.seen = tab[t].seen
  BY <1>2, <1>3, <1>4, <1>5 DEF TabStates
<1>7. tab' \in [Tabs -> TabStates] /\ tab'[t] = s /\ \A u \in Tabs \ {t} : tab'[u] = tab[u]
  BY <1>2, <1>3, <1>4, <1>5, <1>6
<1>8. ASSUME NEW o \in Windows
      PROVE  win'[o] \in WinStates /\ (win'[o].open <=> win[o].open) /\ Told(o)'
  <2>1. CASE win[o].open /\ selected[o] = t
    <3>1. win'[o] = NotifyZoom(win[o], zoom) /\ win[o] \in WinStates
      BY <1>2, <1>4, <2>1, ShownThere DEF Listens
    <3>2. PICK n : n = NotifyZoom(win[o], zoom)
      OBVIOUS
    <3>3. /\ n \in WinStates /\ n = [win[o] EXCEPT !.enabled = n.enabled]
          /\ n.enabled \cap ZoomGroup = ZoomActions(zoom)
          /\ n.enabled \ ZoomGroup = win[o].enabled \ ZoomGroup
      BY <3>1, <3>2, ZoomShown
    <3>4. /\ n.open = win[o].open /\ n.page = win[o].page
          /\ n.follows = win[o].follows /\ n.bound = win[o].bound /\ n.chipTab = win[o].chipTab
          /\ n.css = win[o].css /\ n.chip = win[o].chip /\ n.palette = win[o].palette
          /\ n.loaded = win[o].loaded /\ n.queued = win[o].queued
          /\ n.terminal = win[o].terminal /\ n.text = win[o].text
      BY <3>1, <3>3 DEF WinStates
    <3>5. n.enabled \cap PinGroup = win[o].enabled \cap PinGroup
      BY <3>3, GroupsApart
    <3>6. Shows(win[o], t, tab[t], t \in pinned, look)
      BY <2>1 DEF ViewInv, Told
    <3>7. Listens(n, t) /\ StyleOK(n)
      BY <3>4, <3>6 DEF Shows, Listens, StyleOK
    <3>8. Shows(n, t, s, t \in pinned, look)
      BY <1>6, <3>3, <3>4, <3>5, <3>6, <3>7 DEF Shows
    <3>9. win'[o] = n /\ selected'[o] = t /\ pinned' = pinned /\ look' = look
      BY <1>2, <2>1, <3>1, <3>2
    <3>10. Shows(win'[o], selected'[o], tab'[selected'[o]], selected'[o] \in pinned', look')
      BY <1>7, <3>8, <3>9
    <3> QED
      BY <2>1, <3>3, <3>4, <3>9, <3>10 DEF Told
  <2>2. CASE ~(win[o].open /\ selected[o] = t)
    <3>1. win[o].follows # t
      BY <1>3, <2>2, ShownThere DEF Listens
    <3>2. win'[o] = win[o] /\ win[o] \in WinStates
      BY <1>2, <1>4, <3>1
    <3>3. win[o].open => selected[o] \in Tabs \ {t}
      BY <2>2, ShownThere
    <3>4. win[o].open => Alike(tab[selected[o]], tab'[selected[o]])
      BY <1>7, <3>3 DEF Alike
    <3> QED
      BY <1>2, <3>2, <3>4, ToldOfSame
  <2> QED
    BY <2>1, <2>2
<1>9. Typed'
  BY <1>2, <1>4, <1>7, <1>8 DEF Typed
<1>10. ASSUME NEW u \in Placed PROVE Sound(tab'[u], look')
  <2>1. Sound(tab[u], look) /\ u \in Tabs
    BY DEF ViewInv, Placed
  <2> QED
    BY <1>2, <1>6, <1>7, <2>1 DEF Sound
<1> QED
  BY <1>2, <1>8, <1>9, <1>10, Steady

(* What a window makes of another leader of its tab.                       *)
LEMMA KindTold ==
  ASSUME ViewInv, NEW t \in Tabs, NEW kind \in Kinds, NotifyKind(t, kind),
         selected' = selected, pinned' = pinned, look' = look,
         NEW s \in TabStates, tab' = [tab EXCEPT ![t] = s],
         s.kind = kind, s.zoom = tab[t].zoom, s.profile = tab[t].profile, s.regex = tab[t].regex,
         s.left = tab[t].left,
         Shown(t) => ~s.attention
  PROVE  /\ win' \in [Windows -> WinStates]
         /\ \A w \in Windows : (win'[w].open <=> win[w].open) /\ Told(w)'
<1>1. t # NoTab /\ tab \in [Tabs -> TabStates] /\ win \in [Windows -> WinStates]
  BY ViewAssumption DEF ViewInv, Typed
<1>2. tab'[t] = s /\ \A u \in Tabs \ {t} : tab'[u] = tab[u]
  BY <1>1
<1> DEFINE css(r) == IF r.follows = t THEN NotifyLeaderKind(r, kind) ELSE r
           chip(r, w) == IF r.chipTab = t
                         THEN UpdateSessionContext(r, selected[w], tab'[selected[w]].kind)
                         ELSE r
<1>3. win' = [w \in Windows |-> chip(css(win[w]), w)]
  BY DEF NotifyKind
<1>4. ASSUME NEW o \in Windows
      PROVE  win'[o] \in WinStates /\ (win'[o].open <=> win[o].open) /\ Told(o)'
  <2>1. CASE win[o].open /\ selected[o] = t
    <3>1. win[o] \in WinStates /\ Shows(win[o], t, tab[t], t \in pinned, look) /\ Listens(win[o], t)
      BY <1>1, <2>1 DEF ViewInv, Told, Shows
    <3>2. PICK n : n = [win[o] EXCEPT !.css = kind]
      OBVIOUS
    <3>3. /\ n \in WinStates /\ n.open = win[o].open /\ n.enabled = win[o].enabled /\ n.page = win[o].page
          /\ n.follows = win[o].follows /\ n.bound = win[o].bound /\ n.chipTab = win[o].chipTab
          /\ n.css = kind /\ n.palette = win[o].palette
          /\ n.loaded = win[o].loaded /\ n.queued = win[o].queued
          /\ n.terminal = win[o].terminal /\ n.text = win[o].text
      BY <3>1, <3>2 DEF WinStates
    <3>4. css(win[o]) = n
      BY <3>1, <3>2 DEF Listens, NotifyLeaderKind
    <3>5. chip(n, o) = [n EXCEPT !.chipTab = t, !.chip = kind]
      BY <1>2, <2>1, <3>1, <3>3 DEF Listens, UpdateSessionContext
    <3>6. PICK m : m = [n EXCEPT !.chipTab = t, !.chip = kind]
      OBVIOUS
    <3>7. /\ m \in WinStates /\ m.open = win[o].open /\ m.enabled = win[o].enabled /\ m.page = win[o].page
          /\ m.follows = win[o].follows /\ m.bound = win[o].bound /\ m.chipTab = t
          /\ m.css = kind /\ m.chip = kind /\ m.palette = win[o].palette
          /\ m.loaded = win[o].loaded /\ m.queued = win[o].queued
          /\ m.terminal = win[o].terminal /\ m.text = win[o].text
      BY <3>3, <3>6 DEF WinStates
    <3>8. win'[o] = m
      BY <1>3, <3>4, <3>5, <3>6
    <3>9. Listens(m, t) /\ StyleOK(m)
      BY <3>1, <3>7 DEF Shows, Listens, StyleOK
    <3>10. ~s.attention
      BY <2>1 DEF Shown
    <3>11. Shows(m, t, s, t \in pinned, look)
      BY <3>1, <3>7, <3>9, <3>10 DEF Shows
    <3>12. Shows(win'[o], selected'[o], tab'[selected'[o]], selected'[o] \in pinned', look')
      BY <1>2, <2>1, <3>8, <3>11
    <3> QED
      BY <2>1, <3>7, <3>8, <3>12 DEF Told
  <2>2. CASE ~(win[o].open /\ selected[o] = t)
    <3>1. win[o].follows # t /\ win[o].chipTab # t
      BY <1>1, <2>2, ShownThere DEF Listens
    <3>2. win'[o] = win[o] /\ win[o] \in WinStates
      BY <1>1, <1>3, <3>1
    <3>3. win[o].open => selected[o] \in Tabs \ {t}
      BY <2>2, ShownThere
    <3>4. win[o].open => Alike(tab[selected[o]], tab'[selected[o]])
      BY <1>2, <3>3 DEF Alike
    <3> QED
      BY <3>2, <3>4, ToldOfSame
  <2> QED
    BY <2>1, <2>2
<1> HIDE DEF css, chip
<1>5. win' \in [Windows -> WinStates]
  <2>1. \A o \in Windows : win'[o] \in WinStates
    BY <1>4
  <2>2. win' = [o \in Windows |-> win'[o]]
    BY <1>3
  <2> QED
    BY <2>1, <2>2
<1> QED
  BY <1>4, <1>5

LEMMA KindKeeps ==
  ASSUME ViewInv, NEW t \in Tabs, NEW kind \in Kinds,
         LeaderKindChanges(t, kind) \/ (kind = "unknown" /\ KindForgotten(t))
  PROVE  ViewInv'
<1>1. /\ UNCHANGED <<pages, selected, pinned, look>> /\ NotifyKind(t, kind) /\ t \in Placed
  BY DEF LeaderKindChanges, KindForgotten, InTab, BackInTab
<1>2. tab \in [Tabs -> TabStates] /\ tab[t] \in TabStates /\ look \in [Profiles -> Looks]
  BY DEF ViewInv, Typed
<1>3. Shown(t) => ~tab[t].attention
  <2>1. ASSUME Shown(t) PROVE ~tab[t].attention
    <3>1. PICK w \in Windows : selected[w] = t
      BY <2>1 DEF Shown
    <3>2. PICK o \in Windows : win[o].open /\ selected[o] = t
      BY <2>1, <3>1, ShownThere
    <3> QED
      BY <3>2 DEF ViewInv, Told, Shows
  <2> QED
    BY <2>1
<1>4. Sound(tab[t], look)
  BY <1>1 DEF ViewInv
<1>5. PICK seen \in Kinds, attention \in BOOLEAN :
         /\ tab' = [tab EXCEPT ![t] = [tab[t] EXCEPT !.kind = kind, !.attention = attention, !.seen = seen]]
         /\ Shown(t) => ~attention
         /\ kind # seen => attention
  <2>1. CASE LeaderKindChanges(t, kind)
    <3>1. PICK seen \in Kinds, attention \in BOOLEAN :
             /\ seen = IF Shown(t) THEN kind ELSE tab[t].seen
             /\ attention = (tab[t].attention \/ ~Shown(t))
      BY <1>2 DEF TabStates
    <3>2. tab' = [tab EXCEPT ![t] = [tab[t] EXCEPT !.kind = kind, !.attention = attention, !.seen = seen]]
      BY <2>1, <3>1 DEF LeaderKindChanges
    <3> QED
      BY <1>3, <3>1, <3>2
  <2>2. CASE kind = "unknown" /\ KindForgotten(t)
    <3>1. PICK attention \in BOOLEAN : attention = tab[t].attention
      BY <1>2 DEF TabStates
    <3>2. [tab[t] EXCEPT !.kind = kind, !.seen = kind] =
             [tab[t] EXCEPT !.kind = kind, !.attention = attention, !.seen = kind]
      BY <1>2, <3>1 DEF TabStates
    <3>3. tab' = [tab EXCEPT ![t] = [tab[t] EXCEPT !.kind = kind, !.seen = kind]]
      BY <1>2, <2>2 DEF KindForgotten
    <3>4. tab' = [tab EXCEPT ![t] = [tab[t] EXCEPT !.kind = kind, !.attention = attention, !.seen = kind]]
      BY <3>2, <3>3
    <3> QED
      BY <1>3, <3>1, <3>4
  <2> QED
    BY <2>1, <2>2
<1>6. PICK s : s = [tab[t] EXCEPT !.kind = kind, !.attention = attention, !.seen = seen]
  OBVIOUS
<1>7. /\ s \in TabStates /\ s.kind = kind /\ s.zoom = tab[t].zoom /\ s.profile = tab[t].profile
      /\ s.regex = tab[t].regex /\ s.left = tab[t].left
      /\ s.attention = attention /\ s.seen = seen
      /\ s.signals = tab[t].signals /\ s.applied = tab[t].applied
  BY <1>2, <1>6 DEF TabStates
<1>8. tab' = [tab EXCEPT ![t] = s] /\ (Shown(t) => ~s.attention)
  BY <1>5, <1>6, <1>7
<1>9. /\ win' \in [Windows -> WinStates]
      /\ \A w \in Windows : (win'[w].open <=> win[w].open) /\ Told(w)'
  BY <1>1, <1>7, <1>8, KindTold
<1>10. Typed'
  BY <1>1, <1>2, <1>7, <1>8, <1>9 DEF Typed
<1>11. ASSUME NEW u \in Placed PROVE Sound(tab'[u], look')
  <2>1. CASE u = t
    <3>1. tab'[u] = s /\ look' = look
      BY <1>1, <1>2, <1>8, <2>1
    <3>2. s.kind # s.seen => s.attention
      BY <1>5, <1>7
    <3> QED
      BY <1>4, <1>7, <3>1, <3>2 DEF Sound
  <2>2. CASE u # t
    <3>1. tab'[u] = tab[u] /\ look' = look
      BY <1>1, <1>2, <1>8, <2>2 DEF Placed
    <3> QED
      BY <3>1 DEF ViewInv
  <2> QED
    BY <2>1, <2>2
<1> QED
  BY <1>1, <1>9, <1>10, <1>11, Steady

\* A window in state n has palette p, and is else as in state r.
Dressed(n, r, p) ==
  /\ n \in WinStates /\ n.palette = p /\ StyleOK(n)
  /\ n.open = r.open /\ n.enabled = r.enabled /\ n.page = r.page
  /\ n.follows = r.follows /\ n.bound = r.bound /\ n.chipTab = r.chipTab
  /\ n.css = r.css /\ n.chip = r.chip /\ n.terminal = r.terminal /\ n.text = r.text

LEMMA PaletteEffect ==
  ASSUME NEW r \in WinStates, StyleOK(r), NEW p \in Looks, NEW n, n = SetPalette(r, p)
  PROVE  Dressed(n, r, p)
<1>1. PICK q \in BOOLEAN : q = (r.queued \/ p # r.palette)
  OBVIOUS
<1>2. n = [r EXCEPT !.palette = p, !.queued = q]
  BY <1>1 DEF SetPalette
<1>3. /\ n \in WinStates /\ n.palette = p /\ n.queued = q /\ n.loaded = r.loaded
      /\ n.open = r.open /\ n.enabled = r.enabled /\ n.page = r.page
      /\ n.follows = r.follows /\ n.bound = r.bound /\ n.chipTab = r.chipTab
      /\ n.css = r.css /\ n.chip = r.chip /\ n.terminal = r.terminal /\ n.text = r.text
  BY <1>2 DEF WinStates
<1>4. StyleOK(n)
  BY <1>1, <1>3 DEF StyleOK
<1> QED
  BY <1>3, <1>4 DEF Dressed

\* A tab in state s has other colours or settings than in state tt.
Redrawn(s, tt, p, l) ==
  /\ s \in TabStates /\ s.profile = p /\ s.signals = p /\ s.applied = l
  /\ s.kind = tt.kind /\ s.seen = tt.seen /\ s.zoom = tt.zoom /\ s.regex = tt.regex
  /\ s.left = tt.left /\ s.attention = tt.attention

(* A window is given the palette of its tab's new profile, or of the       *)
(* changed one.                                                            *)
LEMMA DressedTold ==
  ASSUME ViewInv, NEW w \in Windows, win[w].open, selected' = selected, pinned' = pinned,
         NEW p \in Profiles, NEW l \in Looks, look'[p] = l, Dressed(win'[w], win[w], l),
         Redrawn(tab'[selected[w]], tab[selected[w]], p, l)
  PROVE  Told(w)'
<1>1. Shows(win[w], selected[w], tab[selected[w]], selected[w] \in pinned, look)
  BY DEF ViewInv, Told
<1>2. Listens(win'[w], selected[w]) /\ StyleOK(win'[w])
  BY <1>1 DEF Shows, Dressed, Listens
<1>3. win'[w].open
  BY DEF Dressed
<1>4. Shows(win'[w], selected'[w], tab'[selected'[w]], selected'[w] \in pinned', look')
  BY <1>1, <1>2, <1>3 DEF Shows, Dressed, Redrawn
<1> QED
  BY <1>3, <1>4 DEF Told

LEMMA ApplyKeeps ==
  ASSUME ViewInv, NEW t \in Tabs, NEW p \in Profiles, ApplyProfile(t, p)
  PROVE  ViewInv'
<1>1. /\ UNCHANGED <<pages, selected, pinned, look>> /\ t \in Placed
      /\ tab' = [tab EXCEPT ![t] = Recolour([tab[t] EXCEPT !.profile = p, !.signals = p, !.applied = look[p]])]
      /\ win' = [w \in Windows |->
                   IF win[w].bound = t THEN SetPalette(win[w], look[p]) ELSE win[w]]
  BY DEF ApplyProfile, InTab, ViewInv, Typed
<1>2. /\ tab \in [Tabs -> TabStates] /\ win \in [Windows -> WinStates]
      /\ look \in [Profiles -> Looks] /\ t # NoTab /\ look[p] \in Looks
  BY ViewAssumption DEF ViewInv, Typed
<1>3. PICK s : s = Recolour([tab[t] EXCEPT !.profile = p, !.signals = p, !.applied = look[p]])
  OBVIOUS
<1>4. Redrawn(s, tab[t], p, look[p])
  BY <1>2, <1>3 DEF Recolour, TabStates, Redrawn
<1>5. s \in TabStates
  BY <1>4 DEF Redrawn
<1>6. tab' \in [Tabs -> TabStates] /\ tab'[t] = s /\ \A u \in Tabs \ {t} : tab'[u] = tab[u]
  BY <1>1, <1>2, <1>3, <1>5
<1>7. ASSUME NEW o \in Windows
      PROVE  win'[o] \in WinStates /\ (win'[o].open <=> win[o].open) /\ Told(o)'
  <2>1. CASE win[o].open /\ selected[o] = t
    <3>1. win'[o] = SetPalette(win[o], look[p]) /\ win[o] \in WinStates /\ StyleOK(win[o])
      BY <1>1, <1>2, <2>1, ShownThere DEF Listens
    <3>2. Dressed(win'[o], win[o], look[p])
      BY <1>2, <3>1, PaletteEffect
    <3>3. Redrawn(tab'[selected[o]], tab[selected[o]], p, look[p])
      BY <1>4, <1>6, <2>1
    <3>4. Told(o)'
      BY <1>1, <1>2, <2>1, <3>2, <3>3, DressedTold
    <3> QED
      BY <3>2, <3>4 DEF Dressed
  <2>2. CASE ~(win[o].open /\ selected[o] = t)
    <3>1. win[o].bound # t
      BY <1>2, <2>2, ShownThere DEF Listens
    <3>2. win'[o] = win[o] /\ win[o] \in WinStates
      BY <1>1, <1>2, <3>1
    <3>3. win[o].open => selected[o] \in Tabs \ {t}
      BY <2>2, ShownThere
    <3>4. win[o].open => Alike(tab[selected[o]], tab'[selected[o]])
      BY <1>6, <3>3 DEF Alike
    <3> QED
      BY <1>1, <3>2, <3>4, ToldOfSame
  <2> QED
    BY <2>1, <2>2
<1>8. Typed'
  BY <1>1, <1>2, <1>6, <1>7 DEF Typed
<1>9. ASSUME NEW u \in Placed PROVE Sound(tab'[u], look')
  <2>1. Sound(tab[u], look) /\ u \in Tabs
    BY DEF ViewInv, Placed
  <2>2. CASE u = t
    BY <1>1, <1>4, <1>6, <2>1, <2>2 DEF Sound, Redrawn
  <2>3. CASE u # t
    BY <1>1, <1>6, <2>1, <2>3
  <2> QED
    BY <2>2, <2>3
<1> QED
  BY <1>1, <1>7, <1>8, <1>9, Steady

LEMMA EditKeeps ==
  ASSUME ViewInv, NEW p \in Profiles, EditProfile(p)
  PROVE  ViewInv'
<1>1. /\ tab \in [Tabs -> TabStates] /\ win \in [Windows -> WinStates]
      /\ look \in [Profiles -> Looks] /\ NoTab \notin Tabs
  BY ViewAssumption DEF ViewInv, Typed
<1>2. PICK l \in Looks : look' = [look EXCEPT ![p] = l]
  BY DEF EditProfile
<1>3. look' \in [Profiles -> Looks] /\ look'[p] = l /\ \A q \in Profiles \ {p} : look'[q] = look[q]
  BY <1>1, <1>2
<1>4. /\ UNCHANGED <<pages, selected, pinned>>
      /\ win' = [w \in Windows |->
           IF win[w].bound # NoTab /\ tab[win[w].bound].profile = p
           THEN SetPalette(win[w], look'[p]) ELSE win[w]]
      /\ tab' = [t \in Tabs |->
           LET scrolled == IF t \in Placed /\ tab[t].signals = p
                           THEN [tab[t] EXCEPT !.applied = look'[p]] ELSE tab[t]
           IN  IF t \in Placed /\ tab[t].profile = p THEN Recolour(scrolled)
               ELSE scrolled]
  BY DEF EditProfile
<1>5. ASSUME NEW t \in Placed
      PROVE  /\ tab[t].profile = p => Redrawn(tab'[t], tab[t], p, l)
             /\ tab[t].profile # p => tab'[t] = tab[t]
             /\ tab'[t] \in TabStates /\ Sound(tab'[t], look')
  <2>1. t \in Tabs /\ tab[t] \in TabStates /\ Sound(tab[t], look)
    BY <1>1 DEF ViewInv, Placed
  <2>2. CASE tab[t].profile = p
    <3>1. tab[t].signals = p
      BY <2>1, <2>2 DEF Sound
    <3>2. tab'[t] = Recolour([tab[t] EXCEPT !.applied = l])
      BY <1>3, <1>4, <2>1, <2>2, <3>1
    <3>3. Redrawn(Recolour([tab[t] EXCEPT !.applied = l]), tab[t], p, l)
      BY <2>1, <2>2, <3>1 DEF Recolour, TabStates, Redrawn
    <3>4. Redrawn(tab'[t], tab[t], p, l)
      BY <3>2, <3>3
    <3>5. Sound(tab'[t], look')
      BY <1>3, <2>1, <3>4 DEF Sound, Redrawn
    <3> QED
      BY <2>2, <3>4, <3>5 DEF Redrawn
  <2>3. CASE tab[t].profile # p
    <3>1. tab[t].signals # p /\ tab[t].profile \in Profiles
      BY <2>1, <2>3 DEF Sound, TabStates
    <3>2. tab'[t] = tab[t]
      BY <1>4, <2>1, <2>3, <3>1
    <3>3. look'[tab[t].profile] = look[tab[t].profile]
      BY <1>3, <2>3, <3>1
    <3> QED
      BY <2>1, <2>3, <3>2, <3>3 DEF Sound
  <2> QED
    BY <2>2, <2>3
<1>6. ASSUME NEW t \in Tabs \ Placed PROVE tab'[t] = tab[t]
  BY <1>4
<1>7. tab' \in [Tabs -> TabStates]
  <2>1. \A t \in Tabs : tab'[t] \in TabStates
    BY <1>1, <1>5, <1>6
  <2>2. tab' = [t \in Tabs |-> tab'[t]]
    BY <1>4
  <2> QED
    BY <2>1, <2>2
<1>8. ASSUME NEW o \in Windows
      PROVE  win'[o] \in WinStates /\ (win'[o].open <=> win[o].open) /\ Told(o)'
  <2>1. CASE win[o].open /\ tab[selected[o]].profile = p
    <3>1. /\ win'[o] = SetPalette(win[o], l) /\ win[o] \in WinStates /\ StyleOK(win[o])
          /\ selected[o] \in Placed
      BY <1>1, <1>3, <1>4, <2>1, ShownThere DEF Listens
    <3>2. Dressed(win'[o], win[o], l)
      BY <3>1, PaletteEffect
    <3>3. Redrawn(tab'[selected[o]], tab[selected[o]], p, l)
      BY <1>5, <2>1, <3>1
    <3>4. Told(o)'
      BY <1>3, <1>4, <2>1, <3>2, <3>3, DressedTold
    <3> QED
      BY <3>2, <3>4 DEF Dressed
  <2>2. CASE win[o].open /\ tab[selected[o]].profile # p
    <3>1. /\ win'[o] = win[o] /\ win[o] \in WinStates /\ selected[o] \in Placed
          /\ tab[selected[o]] \in TabStates
      BY <1>1, <1>4, <2>2, ShownThere DEF Listens
    <3>2. tab'[selected[o]] = tab[selected[o]]
      BY <1>5, <2>2, <3>1
    <3>3. look'[tab[selected[o]].profile] = look[tab[selected[o]].profile]
      BY <1>3, <2>2, <3>1 DEF TabStates
    <3>4. Shows(win[o], selected[o], tab[selected[o]], selected[o] \in pinned, look)
      BY <2>2 DEF ViewInv, Told
    <3>5. Shows(win'[o], selected'[o], tab'[selected'[o]], selected'[o] \in pinned', look')
      BY <1>4, <3>1, <3>2, <3>3, <3>4 DEF Shows
    <3> QED
      BY <2>2, <3>1, <3>5 DEF Told
  <2>3. CASE ~win[o].open
    <3>1. win'[o] = win[o] /\ win[o] = NewWindow /\ win[o] \in WinStates
      BY <1>1, <1>4, <2>3, ShownThere DEF Listens
    <3> QED
      BY <2>3, <3>1 DEF Told
  <2> QED
    BY <2>1, <2>2, <2>3
<1>9. win' \in [Windows -> WinStates]
  <2>1. win' = [o \in Windows |-> win'[o]]
    BY <1>4
  <2> QED
    BY <1>8, <2>1
<1>10. Typed'
  BY <1>3, <1>7, <1>9 DEF Typed
<1> QED
  BY <1>4, <1>5, <1>8, <1>10, Steady

-----------------------------------------------------------------------------
(* What a window does by itself, drawing and layout *)

\* A tab in state s differs from state tt in its drawing only.
Calm(s, tt) ==
  /\ s \in TabStates /\ Alike(tt, s)
  /\ s.signals = tt.signals /\ s.applied = tt.applied /\ s.seen = tt.seen

\* A window in state n says of its tab what it says in state r.
SaysSame(n, r) ==
  /\ n \in WinStates /\ n.open = r.open /\ StyleOK(n)
  /\ n.enabled \cap ZoomGroup = r.enabled \cap ZoomGroup
  /\ n.enabled \cap PinGroup = r.enabled \cap PinGroup
  /\ n.page = r.page /\ n.follows = r.follows /\ n.bound = r.bound /\ n.chipTab = r.chipTab
  /\ n.css = r.css /\ n.chip = r.chip /\ n.palette = r.palette
  /\ n.terminal = r.terminal /\ n.text = r.text

LEMMA QuietKeeps ==
  ASSUME ViewInv, UNCHANGED <<pages, selected, pinned, look>>,
         tab' \in [Tabs -> TabStates], \A t \in Tabs : Calm(tab'[t], tab[t]),
         win' \in [Windows -> WinStates],
         \A w \in Windows : win'[w] = win[w] \/ (win[w].open /\ SaysSame(win'[w], win[w]))
  PROVE  ViewInv'
<1>1. Typed'
  BY DEF ViewInv, Typed
<1>2. ASSUME NEW o \in Windows PROVE (win'[o].open <=> win[o].open) /\ Told(o)'
  <2>1. win[o].open => Alike(tab[selected[o]], tab'[selected[o]])
    BY ShownThere DEF Calm
  <2>2. CASE win'[o] = win[o]
    BY <2>1, <2>2, ToldOfSame
  <2>3. CASE win[o].open /\ SaysSame(win'[o], win[o])
    <3>1. Shows(win[o], selected[o], tab[selected[o]], selected[o] \in pinned, look)
      BY <2>3 DEF ViewInv, Told
    <3>2. Listens(win'[o], selected[o]) /\ StyleOK(win'[o]) /\ win'[o].open
      BY <2>3, <3>1 DEF Shows, SaysSame, Listens
    <3>3. Shows(win'[o], selected'[o], tab'[selected'[o]], selected'[o] \in pinned', look')
      BY <2>1, <2>3, <3>1, <3>2 DEF Shows, SaysSame, Alike
    <3> QED
      BY <2>3, <3>2, <3>3 DEF Told
  <2> QED
    BY <2>2, <2>3
<1>3. ASSUME NEW u \in Placed PROVE Sound(tab'[u], look')
  <2>1. Sound(tab[u], look) /\ Calm(tab'[u], tab[u])
    BY DEF ViewInv, Placed
  <2> QED
    BY <2>1 DEF Sound, Calm, Alike
<1> QED
  BY <1>1, <1>2, <1>3, Steady

LEMMA Same ==
  ASSUME ViewInv
  PROVE  /\ tab \in [Tabs -> TabStates] /\ \A t \in Tabs : Calm(tab[t], tab[t])
         /\ win \in [Windows -> WinStates]
BY DEF ViewInv, Typed, Calm, Alike

\* Only the drawing of one tab changes.
LEMMA DrawKeeps ==
  ASSUME ViewInv, UNCHANGED <<pages, selected, pinned, look, win>>, NEW t \in Tabs,
         NEW s, Calm(s, tab[t]), tab' = [tab EXCEPT ![t] = s]
  PROVE  ViewInv'
<1>1. tab' \in [Tabs -> TabStates] /\ \A u \in Tabs : Calm(tab'[u], tab[u])
  BY Same DEF Calm
<1> QED
  BY <1>1, Same, QuietKeeps

LEMMA DrawingSteps ==
  ASSUME ViewInv, NEW t \in Tabs, Output(t) \/ SizeAllocate(t) \/ Snapshot(t)
  PROVE  ViewInv'
<1>1. tab \in [Tabs -> TabStates] /\ tab[t] \in TabStates
  BY Same
<1>2. ASSUME Output(t) PROVE ViewInv'
  <2>1. PICK s : s = [tab[t] EXCEPT !.behind = TRUE, !.dirty = TRUE]
    OBVIOUS
  <2>2. Calm(s, tab[t])
    BY <1>1, <2>1 DEF Calm, Alike, TabStates
  <2>3. UNCHANGED <<pages, selected, pinned, look, win>> /\ tab' = [tab EXCEPT ![t] = s]
    BY <1>1, <1>2, <2>1 DEF Output, InTab
  <2> QED
    BY <2>2, <2>3, DrawKeeps
<1>3. ASSUME SizeAllocate(t) PROVE ViewInv'
  <2>1. PICK s : s = [tab[t] EXCEPT !.resize = FALSE, !.texture = FALSE, !.dirty = TRUE]
    OBVIOUS
  <2>2. Calm(s, tab[t])
    BY <1>1, <2>1 DEF Calm, Alike, TabStates
  <2>3. UNCHANGED <<pages, selected, pinned, look, win>> /\ tab' = [tab EXCEPT ![t] = s]
    BY <1>1, <1>3, <2>1 DEF SizeAllocate
  <2> QED
    BY <2>2, <2>3, DrawKeeps
<1>4. ASSUME Snapshot(t) PROVE ViewInv'
  <2>1. PICK w \in Windows :
           LET cached == win[w].animating /\ tab[t].texture
           IN  tab' = [tab EXCEPT ![t].dirty = FALSE,
                                  ![t].texture = win[w].animating,
                                  ![t].behind = @ /\ cached]
    BY <1>4 DEF Snapshot
  <2>2. PICK a \in BOOLEAN, b \in BOOLEAN :
           a = win[w].animating /\ b = (tab[t].behind /\ (win[w].animating /\ tab[t].texture))
    BY <1>1, Same DEF WinStates, TabStates
  <2>3. PICK s : s = [tab[t] EXCEPT !.dirty = FALSE, !.texture = a, !.behind = b]
    OBVIOUS
  <2>4. Calm(s, tab[t])
    BY <1>1, <2>2, <2>3 DEF Calm, Alike, TabStates
  <2>5. UNCHANGED <<pages, selected, pinned, look, win>> /\ tab' = [tab EXCEPT ![t] = s]
    BY <1>1, <1>4, <2>1, <2>2, <2>3 DEF Snapshot
  <2> QED
    BY <2>4, <2>5, DrawKeeps
<1> QED
  BY <1>2, <1>3, <1>4

\* One window changes in what it does not say of its tab.
LEMMA OwnKeeps ==
  ASSUME ViewInv, UNCHANGED <<pages, selected, pinned, look>>,
         tab' \in [Tabs -> TabStates], \A t \in Tabs : Calm(tab'[t], tab[t]),
         NEW w \in Windows, win[w].open, NEW n, SaysSame(n, win[w]), win' = [win EXCEPT ![w] = n]
  PROVE  ViewInv'
<1>1. /\ win' \in [Windows -> WinStates]
      /\ \A o \in Windows : win'[o] = win[o] \/ (win[o].open /\ SaysSame(win'[o], win[o]))
  BY Same DEF SaysSame
<1> QED
  BY <1>1, QuietKeeps

\* A closed window neither searches nor waits for its overview.
LEMMA BusyOpen ==
  ASSUME ViewInv, NEW w \in Windows, win[w].searching \/ win[w].focusTimer
  PROVE  win[w].open
<1>1. ~NewWindow.searching /\ ~NewWindow.focusTimer
  BY DEF NewWindow
<1>2. ~win[w].open => win[w] = NewWindow
  BY ShownThere
<1>3. win[w] # NewWindow
  BY <1>1
<1> QED
  BY <1>2, <1>3

LEMMA OwnSteps ==
  ASSUME ViewInv, NEW w \in Windows,
         \/ Search(w) \/ Dismiss(w) \/ ToplevelStateChanges(w)
         \/ ToggleOverview(w) \/ FocusActiveTab(w) \/ LoadStyle(w)
  PROVE  ViewInv'
<1>1. /\ win \in [Windows -> WinStates] /\ win[w] \in WinStates /\ StyleOK(win[w])
      /\ tab \in [Tabs -> TabStates]
  BY Same, ShownThere
<1>2. win[w].searching \/ win[w].focusTimer => win[w].open
  BY BusyOpen
<1>3. ASSUME tab' = tab PROVE tab' \in [Tabs -> TabStates] /\ \A t \in Tabs : Calm(tab'[t], tab[t])
  BY <1>3, Same
<1>4. ASSUME Search(w) PROVE ViewInv'
  <2>1. PICK n : n = [win[w] EXCEPT !.searching = TRUE]
    OBVIOUS
  <2>2. SaysSame(n, win[w])
    BY <1>1, <2>1 DEF SaysSame, WinStates, StyleOK
  <2>3. UNCHANGED <<pages, selected, pinned, look, tab>> /\ win[w].open /\ win' = [win EXCEPT ![w] = n]
    BY <1>1, <1>4, <2>1 DEF Search, InWindow
  <2> QED
    BY <1>3, <2>2, <2>3, OwnKeeps
<1>5. ASSUME Dismiss(w) PROVE ViewInv'
  <2>1. PICK n : n = [win[w] EXCEPT !.searching = FALSE]
    OBVIOUS
  <2>2. SaysSame(n, win[w])
    BY <1>1, <2>1 DEF SaysSame, WinStates, StyleOK
  <2>3. UNCHANGED <<pages, selected, pinned, look, tab>> /\ win[w].searching /\ win' = [win EXCEPT ![w] = n]
    BY <1>1, <1>5, <2>1 DEF Dismiss, InWindow
  <2> QED
    BY <1>2, <1>3, <2>2, <2>3, OwnKeeps
<1>6. ASSUME ToplevelStateChanges(w) PROVE ViewInv'
  <2>1. PICK on \in SUBSET FullGroup :
           win' = [win EXCEPT ![w] = [win[w] EXCEPT !.enabled = SetEnabled(win[w].enabled, FullGroup, on)]]
    <3>1. PICK full : full = ~box[w].fullscreen
      OBVIOUS
    <3>2. win' = [win EXCEPT ![w] = [win[w] EXCEPT !.enabled =
                     SetEnabled(win[w].enabled, FullGroup, {IF full THEN "unfullscreen" ELSE "fullscreen"})]]
      BY <1>1, <1>6, <3>1 DEF ToplevelStateChanges
    <3>3. {IF full THEN "unfullscreen" ELSE "fullscreen"} \in SUBSET FullGroup
      BY DEF FullGroup
    <3> QED
      BY <3>2, <3>3
  <2>2. PICK e : e = SetEnabled(win[w].enabled, FullGroup, on)
    OBVIOUS
  <2>3. /\ e \subseteq Actions /\ e \cap ZoomGroup = win[w].enabled \cap ZoomGroup
        /\ e \cap PinGroup = win[w].enabled \cap PinGroup
    <3>1. e = (win[w].enabled \ FullGroup) \cup on /\ win[w].enabled \subseteq Actions
      BY <1>1, <2>2 DEF SetEnabled, WinStates
    <3> QED
      BY <3>1, GroupsApart
  <2>4. PICK n : n = [win[w] EXCEPT !.enabled = e]
    OBVIOUS
  <2>5. SaysSame(n, win[w])
    BY <1>1, <2>3, <2>4 DEF SaysSame, WinStates, StyleOK
  <2>6. UNCHANGED <<pages, selected, pinned, look, tab>> /\ win[w].open /\ win' = [win EXCEPT ![w] = n]
    BY <1>6, <2>1, <2>2, <2>4 DEF ToplevelStateChanges, InWindow
  <2> QED
    BY <1>3, <2>5, <2>6, OwnKeeps
<1>7. ASSUME ToggleOverview(w) PROVE ViewInv'
  <2>1. PICK opens \in BOOLEAN : opens = ~win[w].overview
    OBVIOUS
  <2>2. PICK timer \in BOOLEAN : timer = ~opens
    OBVIOUS
  <2>3. PICK n : n = [win[w] EXCEPT !.overview = opens, !.animating = TRUE, !.focusTimer = timer]
    OBVIOUS
  <2>4. SaysSame(n, win[w])
    <3>1. /\ n \in WinStates /\ n.open = win[w].open /\ n.enabled = win[w].enabled
          /\ n.page = win[w].page /\ n.follows = win[w].follows /\ n.bound = win[w].bound
          /\ n.chipTab = win[w].chipTab /\ n.css = win[w].css /\ n.chip = win[w].chip
          /\ n.palette = win[w].palette /\ n.loaded = win[w].loaded /\ n.queued = win[w].queued
          /\ n.terminal = win[w].terminal /\ n.text = win[w].text
      BY <1>1, <2>3 DEF WinStates
    <3> QED
      BY <1>1, <3>1 DEF SaysSame, StyleOK
  <2>5. UNCHANGED <<pages, selected, pinned, look, tab>> /\ win[w].open /\ win' = [win EXCEPT ![w] = n]
    BY <1>1, <1>7, <2>1, <2>2, <2>3 DEF ToggleOverview, InWindow
  <2> QED
    BY <1>3, <2>4, <2>5, OwnKeeps
<1>8. ASSUME FocusActiveTab(w) PROVE ViewInv'
  <2>1. PICK n : n = [win[w] EXCEPT !.focusTimer = FALSE, !.animating = FALSE]
    OBVIOUS
  <2>2. SaysSame(n, win[w])
    BY <1>1, <2>1 DEF SaysSame, WinStates, StyleOK
  <2>3. /\ UNCHANGED <<pages, selected, pinned, look>> /\ win[w].focusTimer /\ win' = [win EXCEPT ![w] = n]
        /\ tab' = [tab EXCEPT ![selected[w]] = [tab[selected[w]] EXCEPT !.resize = TRUE]]
    BY <1>1, <1>2, <1>8, <2>1, ShownThere DEF FocusActiveTab
  <2>4. PICK t \in Tabs : t = selected[w]
    BY <1>2, <2>3, ShownThere
  <2>5. PICK s : s = [tab[t] EXCEPT !.resize = TRUE]
    OBVIOUS
  <2>6. Calm(s, tab[t])
    BY <1>1, <2>5 DEF Calm, Alike, TabStates
  <2>7. tab' \in [Tabs -> TabStates] /\ \A u \in Tabs : Calm(tab'[u], tab[u])
    BY <1>1, <2>3, <2>4, <2>5, <2>6, Same DEF Calm
  <2> QED
    BY <1>2, <2>2, <2>3, <2>7, OwnKeeps
<1>9. ASSUME LoadStyle(w) PROVE ViewInv'
  <2>1. PICK n : n = [win[w] EXCEPT !.queued = FALSE, !.loaded = win[w].palette]
    OBVIOUS
  <2>2. SaysSame(n, win[w])
    BY <1>1, <2>1 DEF SaysSame, WinStates, StyleOK
  <2>3. UNCHANGED <<pages, selected, pinned, look, tab>> /\ win[w].open /\ win' = [win EXCEPT ![w] = n]
    BY <1>1, <1>9, <2>1 DEF LoadStyle
  <2> QED
    BY <1>3, <2>2, <2>3, OwnKeeps
<1> QED
  BY <1>4, <1>5, <1>6, <1>7, <1>8, <1>9

(* The text that is typed searches the shown tab.                          *)
LEMMA TypeKeeps ==
  ASSUME ViewInv, NEW w \in Windows, NEW text \in Texts, Type(w, text)
  PROVE  ViewInv'
<1>1. /\ win \in [Windows -> WinStates] /\ win[w] \in WinStates
      /\ tab \in [Tabs -> TabStates] /\ look \in [Profiles -> Looks]
  BY Same DEF ViewInv, Typed
<1>2. UNCHANGED <<pages, selected, pinned, look>> /\ win[w].searching
  BY DEF Type, InWindow
<1>3. win[w].open
  BY <1>2, BusyOpen
<1>4. PICK t \in Tabs : t = selected[w] /\ t = win[w].terminal /\ t \in ToSet(pages[w])
  BY <1>3, ShownThere DEF Listens
<1>5. PICK n, s : n = [win[w] EXCEPT !.text = text] /\ s = [tab[t] EXCEPT !.regex = RegexOf(text), !.left = FALSE]
  OBVIOUS
<1>6. win' = [win EXCEPT ![w] = n] /\ tab' = [tab EXCEPT ![t] = s]
  BY <1>1, <1>4, <1>5 DEF Type, EntryChanged, RegexOf
<1>7. Shows(win[w], t, tab[t], t \in pinned, look)
  BY <1>3, <1>4 DEF ViewInv, Told
<1>8. /\ n \in WinStates /\ n.open = win[w].open /\ n.enabled = win[w].enabled /\ n.page = win[w].page
      /\ n.follows = win[w].follows /\ n.bound = win[w].bound /\ n.chipTab = win[w].chipTab
      /\ n.css = win[w].css /\ n.chip = win[w].chip /\ n.palette = win[w].palette
      /\ n.loaded = win[w].loaded /\ n.queued = win[w].queued
      /\ n.terminal = win[w].terminal /\ n.text = text
  BY <1>1, <1>5 DEF WinStates
<1>9. /\ s \in TabStates /\ s.regex = RegexOf(text) /\ s.kind = tab[t].kind /\ s.seen = tab[t].seen
      /\ s.zoom = tab[t].zoom /\ s.profile = tab[t].profile /\ s.signals = tab[t].signals
      /\ s.applied = tab[t].applied /\ s.attention = tab[t].attention
  BY <1>1, <1>5 DEF TabStates, RegexOf, Texts
<1>10. Listens(n, t) /\ StyleOK(n)
  BY <1>7, <1>8 DEF Shows, Listens, StyleOK
<1>11. Shows(n, t, s, t \in pinned, look)
  BY <1>3, <1>7, <1>8, <1>9, <1>10 DEF Shows
<1>12. tab'[t] = s /\ win'[w] = n /\ \A u \in Tabs \ {t} : tab'[u] = tab[u]
  BY <1>1, <1>6
<1>13. Typed'
  BY <1>1, <1>2, <1>6, <1>8, <1>9 DEF Typed
<1>14. ASSUME NEW o \in Windows PROVE (win'[o].open <=> win[o].open) /\ Told(o)'
  <2>1. CASE o = w
    <3>1. Shows(win'[o], selected'[o], tab'[selected'[o]], selected'[o] \in pinned', look')
      BY <1>2, <1>4, <1>11, <1>12, <2>1
    <3>2. win'[o].open
      BY <1>3, <1>8, <1>12, <2>1
    <3> QED
      BY <1>3, <2>1, <3>1, <3>2 DEF Told
  <2>2. CASE o # w
    <3>1. win'[o] = win[o]
      BY <1>1, <1>6, <2>2
    <3>2. win[o].open => selected[o] \in Tabs \ {t}
      BY <1>4, <2>2, ShownThere DEF ViewInv, PagesOK, PagesFit
    <3>3. win[o].open => Alike(tab[selected[o]], tab'[selected[o]])
      BY <1>12, <3>2 DEF Alike
    <3> QED
      BY <1>2, <3>1, <3>3, ToldOfSame
  <2> QED
    BY <2>1, <2>2
<1>15. ASSUME NEW u \in Placed PROVE Sound(tab'[u], look')
  <2>1. Sound(tab[u], look) /\ u \in Tabs
    BY DEF ViewInv, Placed
  <2>2. CASE u = t
    BY <1>2, <1>9, <1>12, <2>1, <2>2 DEF Sound
  <2>3. CASE u # t
    BY <1>2, <1>12, <2>1, <2>3
  <2> QED
    BY <2>2, <2>3
<1> QED
  BY <1>2, <1>13, <1>14, <1>15, Steady

-----------------------------------------------------------------------------
(* What happens to pages *)

\* A tab that was not shown in w is: the window and the tab come together.
LEMMA ShowTold ==
  ASSUME ViewInv, NEW w \in Windows, win[w].open, NEW t \in Tabs, t # selected[w],
         NEW ts \in [Tabs -> TabStates], ShowPage(w, t, ts),
         look' = look, t \in pinned' <=> t \in pinned
  PROVE  /\ selected' = [selected EXCEPT ![w] = t]
         /\ win' \in [Windows -> WinStates] /\ \A o \in Windows \ {w} : win'[o] = win[o]
         /\ win'[w].open /\ Told(w)'
         /\ tab' \in [Tabs -> TabStates] /\ \A u \in Tabs \ {t} : tab'[u] = ts[u]
         /\ Sound(ts[t], look) => Sound(tab'[t], look)
<1>1. /\ win \in [Windows -> WinStates] /\ win[w] \in WinStates /\ StyleOK(win[w])
      /\ look \in [Profiles -> Looks] /\ ts[t] \in TabStates
      /\ selected \in [Windows -> Tabs \cup {NoTab}]
  BY ShownThere DEF ViewInv, Typed, PagesOK, PagesFit
<1>2. t # win[w].terminal
  BY ShownThere DEF Listens
<1>3. PICK b \in BOOLEAN : b <=> t \in pinned
  OBVIOUS
<1>4. PICK n, s : n = NotifySelectedPage(win[w], t, ts[t], b) /\ s = ShowTab(win[w], t, ts[t])
  OBVIOUS
<1>5. /\ n \in WinStates /\ s \in TabStates
      /\ win[w].open => Shows(n, t, s, b, look)
      /\ Sound(ts[t], look) => Sound(s, look)
  BY <1>1, <1>2, <1>4, ShowsNow
<1>6. win' = [win EXCEPT ![w] = n] /\ tab' = [ts EXCEPT ![t] = s]
      /\ selected' = [selected EXCEPT ![w] = t]
  <2>1. win' = [win EXCEPT ![w] = NotifySelectedPage(win[w], t, ts[t], t \in pinned)]
    BY DEF ShowPage
  <2>2. win' = [win EXCEPT ![w] = n]
    BY <1>3, <1>4, <2>1
  <2> QED
    BY <1>4, <2>2 DEF ShowPage
<1>7. win'[w] = n /\ tab'[t] = s /\ selected'[w] = t /\ \A u \in Tabs \ {t} : tab'[u] = ts[u]
  BY <1>1, <1>6
<1>8. Shows(n, t, s, b, look)
  BY <1>5
<1>9. n.open
  BY <1>8 DEF Shows
<1>10. Shows(win'[w], selected'[w], tab'[selected'[w]], selected'[w] \in pinned', look')
  BY <1>3, <1>7, <1>8 DEF Shows, PinActions
<1>11. Told(w)' /\ win'[w].open
  BY <1>7, <1>9, <1>10 DEF Told
<1>12. win' \in [Windows -> WinStates] /\ tab' \in [Tabs -> TabStates]
       /\ \A o \in Windows \ {w} : win'[o] = win[o]
  BY <1>1, <1>5, <1>6
<1> QED
  BY <1>5, <1>6, <1>7, <1>11, <1>12

\* What opens and closes.
LEMMA OnAfter ==
  ASSUME NEW w \in Windows, \A o \in Windows \ {w} : win'[o] = win[o]
  PROVE  /\ win'[w].open => On' = On \cup {w}
         /\ ~win'[w].open => On' = On \ {w}
BY DEF On

LEMMA OpenWindowKeeps ==
  ASSUME ViewInv, NEW w \in Windows, NEW t \in Tabs, NEW p \in Profiles, OpenWindow(w, t, p)
  PROVE  ViewInv'
<1>1. /\ tab \in [Tabs -> TabStates] /\ win \in [Windows -> WinStates]
      /\ look \in [Profiles -> Looks] /\ PagesOK
  BY DEF ViewInv, Typed
<1>2. PICK s : s = <<t>>
  OBVIOUS
<1>3. PICK n : n = Opened(NewTab(p), t)
  OBVIOUS
<1>4. /\ ~win[w].open /\ t \notin Placed /\ UNCHANGED <<pinned, look>>
      /\ pages' = [pages EXCEPT ![w] = s] /\ selected' = [selected EXCEPT ![w] = t]
      /\ tab' = [tab EXCEPT ![t] = NewTab(p)] /\ win' = [win EXCEPT ![w] = n]
  BY <1>2, <1>3 DEF OpenWindow
<1>5. n \in WinStates /\ Shows(n, t, NewTab(p), FALSE, look)
  BY <1>1, <1>3, OpenedShows
<1>6. NewTab(p) \in TabStates /\ Sound(NewTab(p), look)
  BY <1>1, StatesTyped
<1>7. s \in Seq(Tabs) /\ ToSet(s) = {t} /\ Distinct(s)
  BY <1>2, PutOn
<1>8. /\ win'[w] = n /\ tab'[t] = NewTab(p) /\ \A u \in Tabs \ {t} : tab'[u] = tab[u]
      /\ \A o \in Windows \ {w} : win'[o] = win[o] /\ selected'[o] = selected[o]
      /\ selected'[w] = t
  BY <1>1, <1>4 DEF PagesOK, PagesFit
<1>9. n.open
  BY <1>5 DEF Shows
<1>10. On' = On \cup {w} /\ On' \subseteq Windows
  BY <1>8, <1>9, OnAfter DEF On
<1>11. \A o \in Windows : t \notin ToSet(pages[o])
  BY <1>1, <1>4, PlacedIn
<1>12. t \notin pinned /\ ToSet(pages[w]) = {}
  <2>1. pages[w] = <<>>
    BY <1>4, ShownThere
  <2> QED
    BY <1>1, <1>11, <2>1, NoPages DEF PagesOK, PagesFit
<1>13. PagesOK'
  <2>1. PagesFit([pages EXCEPT ![w] = s], [selected EXCEPT ![w] = t], pinned, On')
    <3>1. \A o \in Windows \ {w} : o \in On' <=> o \in On
      BY <1>10
    <3>2. w \in On' /\ On' \in SUBSET Windows
      BY <1>10
    <3>3. \A u \in pinned : (u \in pinned /\ u \notin ToSet(pages[w])) \/ u \in ToSet(s)
      BY <1>12
    <3>4. \A o \in Windows \ {w} : \A u \in ToSet(s) : u \notin ToSet(pages[o])
      BY <1>7, <1>11
    <3>5. PagesFit(pages, selected, pinned, On)
      BY <1>1 DEF PagesOK
    <3>6. IF w \in On' THEN t \in ToSet(s) ELSE s = <<>> /\ t = NoTab
      BY <1>7, <3>2
    <3> QED
      BY <1>7, <3>1, <3>2, <3>3, <3>4, <3>5, <3>6, PagesPut
  <2> QED
    BY <1>4, <2>1 DEF PagesOK
<1>14. Typed'
  BY <1>1, <1>4, <1>5, <1>6 DEF Typed
<1>15. Told(w)'
  <2>1. Shows(win'[w], selected'[w], tab'[selected'[w]], selected'[w] \in pinned', look')
    <3>1. Shows(n, t, NewTab(p), t \in pinned, look)
      BY <1>5, <1>12 DEF Shows, PinActions
    <3> QED
      BY <1>4, <1>8, <3>1
  <2> QED
    BY <1>8, <1>9, <2>1 DEF Told
<1>16. \A u \in Placed' : Sound(tab'[u], look) \/ (u \in Placed /\ tab'[u] = tab[u])
  <2>1. ASSUME NEW u \in Placed', u # t PROVE u \in Placed /\ tab'[u] = tab[u]
    <3>1. PICK o \in Windows : u \in ToSet(pages'[o])
      BY <1>13, <2>1, PlacedNext
    <3>2. u \in ToSet(pages[o])
      BY <1>1, <1>4, <1>7, <2>1, <3>1 DEF PagesOK, PagesFit
    <3> QED
      BY <1>1, <1>8, <2>1, <3>2, PlacedIn DEF Placed
  <2> QED
    BY <1>6, <1>8, <2>1
<1>17. \A u \in Placed : u # t /\ u \in Tabs
  BY <1>4 DEF Placed
<1> QED
  BY <1>4, <1>8, <1>13, <1>14, <1>15, <1>16, <1>17, ElsewhereOne

-----------------------------------------------------------------------------
(* Pages that come, go and move: the pages of one open window become others *)

\* The pages of an open window become s, of which it shows u.
LEMMA OnePut ==
  ASSUME PagesOK, NEW w \in Windows, w \in On, NEW s \in Seq(Tabs), Distinct(s),
         NEW u, u \in ToSet(s),
         pages' = [pages EXCEPT ![w] = s], selected' = [selected EXCEPT ![w] = u],
         \A t \in ToSet(s) : t \in ToSet(pages[w]) \/ t \notin Placed,
         \A t \in pinned' : \/ t \in pinned /\ (t \in ToSet(pages[w]) => t \in ToSet(s))
                            \/ t \in ToSet(s),
         \A o \in Windows : win'[o].open <=> win[o].open
  PROVE  /\ PagesOK' /\ selected'[w] = u /\ \A o \in Windows \ {w} : selected'[o] = selected[o]
         /\ \A t : t \in Placed' <=> t \in ToSet(s) \/ (t \in Placed /\ t \notin ToSet(pages[w]))
<1>1. /\ pages \in [Windows -> Seq(Tabs)] /\ selected \in [Windows -> Tabs \cup {NoTab}]
      /\ PagesFit(pages, selected, pinned, On)
  BY DEF PagesOK, PagesFit
<1>2. On' = On /\ On \in SUBSET Windows
  BY DEF On
<1>3. \A o \in Windows \ {w} : \A t \in ToSet(s) : t \notin ToSet(pages[o])
  <2>1. ASSUME NEW o \in Windows \ {w}, NEW t \in ToSet(s), t \in ToSet(pages[o]) PROVE FALSE
    <3>1. t \in Placed
      BY <2>1, PlacedIn
    <3>2. t \in ToSet(pages[w])
      BY <2>1, <3>1
    <3> QED
      BY <1>1, <2>1, <3>2 DEF PagesFit
  <2> QED
    BY <2>1
<1>4. u \in Tabs \cup {NoTab}
  BY SeqFacts
<1>5. \A t \in pinned' : (t \in pinned /\ t \notin ToSet(pages[w])) \/ t \in ToSet(s)
  OBVIOUS
<1>6. IF w \in On THEN u \in ToSet(s) ELSE s = <<>> /\ u = NoTab
  OBVIOUS
<1>7. PagesFit([pages EXCEPT ![w] = s], [selected EXCEPT ![w] = u], pinned', On)
  BY <1>1, <1>2, <1>3, <1>4, <1>5, <1>6, PagesPut
<1>8. PagesOK'
  BY <1>2, <1>7 DEF PagesOK
<1>9. /\ pages'[w] = s /\ \A o \in Windows \ {w} : pages'[o] = pages[o]
      /\ selected'[w] = u /\ \A o \in Windows \ {w} : selected'[o] = selected[o]
  BY <1>1
<1>10. ASSUME NEW t, t \in Placed'
       PROVE  t \in ToSet(s) \/ (t \in Placed /\ t \notin ToSet(pages[w]))
  <2>1. PICK o \in Windows : t \in ToSet(pages'[o])
    BY <1>8, <1>10, PlacedNext
  <2>2. CASE o = w
    BY <1>9, <2>1, <2>2
  <2>3. CASE o # w
    <3>1. t \in ToSet(pages[o]) /\ t \in Placed
      BY <1>9, <2>1, <2>3, PlacedIn
    <3>2. t \notin ToSet(pages[w])
      BY <1>1, <2>3, <3>1 DEF PagesFit
    <3> QED
      BY <3>1, <3>2
  <2> QED
    BY <2>2, <2>3
<1>11. ASSUME NEW t, t \in ToSet(s) \/ (t \in Placed /\ t \notin ToSet(pages[w]))
       PROVE  t \in Placed'
  <2>1. CASE t \in ToSet(s)
    BY <1>8, <1>9, <2>1, PlacedNext
  <2>2. CASE t \in Placed /\ t \notin ToSet(pages[w])
    <3>1. PICK o \in Windows : t \in ToSet(pages[o])
      BY <2>2, PlacedIn
    <3>2. pages'[o] = pages[o]
      BY <1>9, <2>2, <3>1
    <3> QED
      BY <1>8, <3>1, <3>2, PlacedNext
  <2> QED
    BY <1>11, <2>1, <2>2
<1> QED
  BY <1>8, <1>9, <1>10, <1>11

\* An open window shows another of its pages than before.
LEMMA ShowKeeps ==
  ASSUME ViewInv, NEW w \in Windows, win[w].open, NEW s \in Seq(Tabs), Distinct(s),
         NEW u, u \in ToSet(s), u # selected[w], pages' = [pages EXCEPT ![w] = s], look' = look,
         NEW ts \in [Tabs -> TabStates], ShowPage(w, u, ts),
         \A t \in ToSet(s) : t \in ToSet(pages[w]) \/ t \notin Placed,
         \A t \in pinned' : t \in pinned /\ (t \in ToSet(pages[w]) => t \in ToSet(s)),
         \A t \in Placed : t \notin ToSet(pages[w])
                           => ts[t] = tab[t] /\ (t \in pinned' <=> t \in pinned),
         u \in pinned' <=> u \in pinned,
         \A t \in ToSet(s) : Sound(ts[t], look)
  PROVE  ViewInv'
<1>1. u \in Tabs /\ PagesOK /\ look \in [Profiles -> Looks] /\ w \in On /\ ToSet(s) \subseteq Tabs
  BY SeqFacts DEF ViewInv, Typed, On
<1>2. /\ selected' = [selected EXCEPT ![w] = u]
      /\ win' \in [Windows -> WinStates] /\ \A o \in Windows \ {w} : win'[o] = win[o]
      /\ win'[w].open /\ Told(w)'
      /\ tab' \in [Tabs -> TabStates] /\ \A t \in Tabs \ {u} : tab'[t] = ts[t]
      /\ Sound(ts[u], look) => Sound(tab'[u], look)
  BY <1>1, ShowTold
<1>3. \A o \in Windows : win'[o].open <=> win[o].open
  BY <1>2
<1>4. /\ PagesOK' /\ \A o \in Windows \ {w} : selected'[o] = selected[o]
      /\ \A t : t \in Placed' <=> t \in ToSet(s) \/ (t \in Placed /\ t \notin ToSet(pages[w]))
  <2>1. \A t \in pinned' : \/ t \in pinned /\ (t \in ToSet(pages[w]) => t \in ToSet(s))
                           \/ t \in ToSet(s)
    OBVIOUS
  <2> QED
    BY <1>1, <1>2, <1>3, <2>1, OnePut
<1>5. Typed'
  BY <1>1, <1>2 DEF Typed
<1>6. ASSUME NEW t \in Placed, t \notin ToSet(pages[w])
      PROVE  tab'[t] = tab[t] /\ (t \in pinned' <=> t \in pinned)
  <2>1. t # u /\ t \in Tabs
    BY <1>6 DEF Placed
  <2> QED
    BY <1>2, <1>6, <2>1
<1>7. ASSUME NEW t \in Placed' PROVE Sound(tab'[t], look) \/ (t \in Placed /\ tab'[t] = tab[t])
  <2>1. CASE t \in ToSet(s)
    BY <1>1, <1>2, <2>1
  <2>2. CASE t \notin ToSet(s)
    BY <1>4, <1>6, <2>2
  <2> QED
    BY <2>1, <2>2
<1> QED
  BY <1>2, <1>4, <1>5, <1>6, <1>7, ElsewhereOne

\* An open window gets other pages and goes on showing the same.
LEMMA RestKeeps ==
  ASSUME ViewInv, NEW w \in Windows, win[w].open, NEW s \in Seq(Tabs), Distinct(s),
         selected[w] \in ToSet(s), pages' = [pages EXCEPT ![w] = s],
         UNCHANGED <<selected, win, look>>, tab' \in [Tabs -> TabStates],
         \A t \in ToSet(s) : t \in ToSet(pages[w]) \/ t \notin Placed,
         \A t \in pinned' : t \in pinned /\ (t \in ToSet(pages[w]) => t \in ToSet(s)),
         \A t \in Placed : t \notin ToSet(pages[w]) \/ t = selected[w]
                           => tab'[t] = tab[t] /\ (t \in pinned' <=> t \in pinned),
         \A t \in ToSet(s) : Sound(tab'[t], look)
  PROVE  ViewInv'
<1>1. PagesOK /\ w \in On /\ win \in [Windows -> WinStates] /\ look \in [Profiles -> Looks]
  BY DEF ViewInv, Typed, On
<1>2. selected' = [selected EXCEPT ![w] = selected[w]]
  BY <1>1 DEF PagesOK, PagesFit
<1>3. /\ PagesOK'
      /\ \A t : t \in Placed' <=> t \in ToSet(s) \/ (t \in Placed /\ t \notin ToSet(pages[w]))
  <2>1. \A t \in pinned' : \/ t \in pinned /\ (t \in ToSet(pages[w]) => t \in ToSet(s))
                           \/ t \in ToSet(s)
    OBVIOUS
  <2> QED
    BY <1>1, <1>2, <2>1, OnePut
<1>4. Typed'
  BY <1>1 DEF Typed
<1>5. selected[w] \in Placed
  BY ShownThere
<1>6. Told(w)'
  <2>1. Shows(win[w], selected[w], tab[selected[w]], selected[w] \in pinned, look)
    BY DEF ViewInv, Told
  <2>2. tab'[selected[w]] = tab[selected[w]] /\ (selected[w] \in pinned' <=> selected[w] \in pinned)
    BY <1>5
  <2>3. Shows(win'[w], selected'[w], tab'[selected'[w]], selected'[w] \in pinned', look')
    BY <2>1, <2>2 DEF Shows, PinActions
  <2> QED
    BY <2>3 DEF Told
<1>7. \A t \in Placed' : Sound(tab'[t], look) \/ (t \in Placed /\ tab'[t] = tab[t])
  BY <1>3
<1> QED
  BY <1>3, <1>4, <1>6, <1>7, ElsewhereOne

LEMMA OpenTabKeeps ==
  ASSUME ViewInv, NEW w \in Windows, NEW t \in Tabs, OpenTab(w, t)
  PROVE  ViewInv'
<1>1. /\ tab \in [Tabs -> TabStates] /\ look \in [Profiles -> Looks]
      /\ PagesOK /\ pages[w] \in Seq(Tabs) /\ Distinct(pages[w])
  BY DEF ViewInv, Typed, PagesOK, PagesFit
<1>2. PICK new : new = [NewTab(tab[selected[w]].profile) EXCEPT !.zoom = tab[selected[w]].zoom]
  OBVIOUS
<1>3. PICK ts : ts = [tab EXCEPT ![t] = new]
  OBVIOUS
<1>4. /\ win[w].open /\ t \notin Placed /\ UNCHANGED <<pinned, look>> /\ ShowPage(w, t, ts)
      /\ \E i \in InsertPositions(w) : pages' = [pages EXCEPT ![w] = InsertAt(pages[w], i, t)]
  BY <1>1, <1>2, <1>3 DEF OpenTab, PagesOK, PagesFit
<1>5. PICK i \in InsertPositions(w) : pages' = [pages EXCEPT ![w] = InsertAt(pages[w], i, t)]
  BY <1>4
<1>6. /\ selected[w] \in ToSet(pages[w]) /\ tab[selected[w]] \in TabStates
      /\ selected[w] \in Placed
  BY <1>4, ShownThere
<1>7. i \in 1 .. Len(pages[w]) + 1
  <2>1. IndexIn(w, selected[w]) \in 1 .. Len(pages[w]) /\ Len(pages[w]) \in Nat
    BY <1>1, <1>6, Place, SeqFacts
  <2>2. i = IndexIn(w, selected[w]) + 1 \/ i = Len(pages[w]) + 1
    BY DEF InsertPositions
  <2> QED
    BY <2>1, <2>2
<1>8. t \notin ToSet(pages[w])
  BY <1>1, <1>4, PlacedIn
<1>9. PICK s : s = InsertAt(pages[w], i, t)
  OBVIOUS
<1>10. s \in Seq(Tabs) /\ ToSet(s) = ToSet(pages[w]) \cup {t} /\ Distinct(s)
  BY <1>1, <1>7, <1>8, <1>9, Inserted DEF Distinct
<1>11. new \in TabStates /\ Sound(new, look)
  <2>1. PICK p \in Profiles, z \in ZoomLevels : p = tab[selected[w]].profile /\ z = tab[selected[w]].zoom
    BY <1>6 DEF TabStates
  <2>2. NewTab(p) \in TabStates /\ Sound(NewTab(p), look)
    BY <1>1, StatesTyped
  <2>3. new = [NewTab(p) EXCEPT !.zoom = z]
    BY <1>2, <2>1
  <2>4. new \in TabStates
    BY <2>2, <2>3 DEF TabStates
  <2>5. /\ new.signals = NewTab(p).signals /\ new.profile = NewTab(p).profile
        /\ new.applied = NewTab(p).applied /\ new.kind = NewTab(p).kind
        /\ new.seen = NewTab(p).seen /\ new.attention = NewTab(p).attention
    BY <2>2, <2>3 DEF TabStates
  <2> QED
    BY <2>2, <2>4, <2>5 DEF Sound
<1>12. ts \in [Tabs -> TabStates] /\ ts[t] = new /\ \A u \in Tabs \ {t} : ts[u] = tab[u]
  BY <1>1, <1>3, <1>11
<1>13. \A u \in ToSet(s) : Sound(ts[u], look)
  <2>1. ASSUME NEW u \in ToSet(pages[w]) PROVE Sound(ts[u], look)
    <3>1. u \in Placed /\ u \in Tabs /\ u # t
      BY <1>1, <1>8, <2>1, PlacedIn, Place
    <3> QED
      BY <1>12, <3>1 DEF ViewInv
  <2> QED
    BY <1>10, <1>11, <1>12, <2>1
<1>14. /\ t \in ToSet(s) /\ t # selected[w] /\ pages' = [pages EXCEPT ![w] = s] /\ look' = look
       /\ \A u \in ToSet(s) : u \in ToSet(pages[w]) \/ u \notin Placed
       /\ t \in pinned' <=> t \in pinned
  BY <1>4, <1>5, <1>6, <1>9, <1>10
<1>15. \A u \in Placed : u \notin ToSet(pages[w]) => ts[u] = tab[u] /\ (u \in pinned' <=> u \in pinned)
  BY <1>4, <1>12 DEF Placed
<1>16. \A u \in pinned' : u \in pinned /\ (u \in ToSet(pages[w]) => u \in ToSet(s))
  BY <1>4, <1>10
<1> QED
  BY <1>4, <1>10, <1>12, <1>13, <1>14, <1>15, <1>16, ShowKeeps

LEMMA AddTabAtEndKeeps ==
  ASSUME ViewInv, NEW w \in Windows, NEW t \in Tabs, AddTabAtEnd(w, t)
  PROVE  ViewInv'
<1>1. /\ tab \in [Tabs -> TabStates] /\ look \in [Profiles -> Looks]
      /\ PagesOK /\ pages[w] \in Seq(Tabs) /\ Distinct(pages[w])
  BY DEF ViewInv, Typed, PagesOK, PagesFit
<1>2. PICK s : s = Append(pages[w], t)
  OBVIOUS
<1>3. /\ win[w].open /\ t \notin Placed /\ UNCHANGED <<selected, pinned, win, look>>
      /\ pages' = [pages EXCEPT ![w] = s]
      /\ tab' = [tab EXCEPT ![t] = NewTab(tab[selected[w]].profile)]
  BY <1>1, <1>2 DEF AddTabAtEnd, PagesOK, PagesFit
<1>4. selected[w] \in ToSet(pages[w]) /\ tab[selected[w]] \in TabStates /\ selected[w] \in Placed
  BY <1>3, ShownThere
<1>5. PICK p \in Profiles : p = tab[selected[w]].profile
  BY <1>4 DEF TabStates
<1>6. NewTab(p) \in TabStates /\ Sound(NewTab(p), look)
  BY <1>1, StatesTyped
<1>7. tab' \in [Tabs -> TabStates] /\ tab'[t] = NewTab(p) /\ \A u \in Tabs \ {t} : tab'[u] = tab[u]
  BY <1>1, <1>3, <1>5, <1>6
<1>8. t \notin ToSet(pages[w])
  BY <1>1, <1>3, PlacedIn
<1>9. s \in Seq(Tabs) /\ ToSet(s) = ToSet(pages[w]) \cup {t} /\ Distinct(s)
  BY <1>1, <1>2, <1>8, Appended DEF Distinct
<1>10. \A u \in ToSet(s) : Sound(tab'[u], look)
  <2>1. ASSUME NEW u \in ToSet(pages[w]) PROVE Sound(tab'[u], look)
    <3>1. u \in Placed /\ u \in Tabs /\ u # t
      BY <1>1, <1>8, <2>1, PlacedIn, Place
    <3> QED
      BY <1>7, <3>1 DEF ViewInv
  <2> QED
    BY <1>6, <1>7, <1>9, <2>1
<1>11. \A u \in Placed : u \notin ToSet(pages[w]) \/ u = selected[w]
                         => tab'[u] = tab[u] /\ (u \in pinned' <=> u \in pinned)
  BY <1>3, <1>7 DEF Placed
<1>12. /\ \A u \in ToSet(s) : u \in ToSet(pages[w]) \/ u \notin Placed
       /\ \A u \in pinned' : u \in pinned /\ (u \in ToSet(pages[w]) => u \in ToSet(s))
       /\ selected[w] \in ToSet(s)
  BY <1>3, <1>4, <1>9
<1> QED
  BY <1>3, <1>7, <1>9, <1>10, <1>11, <1>12, RestKeeps

\* Another page is shown and nothing else happens.
LEMMA SelectKeeps ==
  ASSUME ViewInv, NEW w \in Windows, win[w].open, NEW t \in ToSet(pages[w]), SelectPage(w, t)
  PROVE  ViewInv'
<1>1. /\ tab \in [Tabs -> TabStates] /\ PagesOK /\ pages[w] \in Seq(Tabs) /\ Distinct(pages[w])
      /\ pages = [pages EXCEPT ![w] = pages[w]]
  BY DEF ViewInv, Typed, PagesOK, PagesFit
<1>2. /\ t # selected[w] /\ ShowPage(w, t, tab) /\ UNCHANGED <<pages, pinned, look>>
  BY DEF SelectPage
<1>3. \A u \in ToSet(pages[w]) : Sound(tab[u], look)
  BY <1>1, PlacedIn DEF ViewInv
<1>4. pages' = [pages EXCEPT ![w] = pages[w]]
  BY <1>1, <1>2
<1> QED
  BY <1>1, <1>2, <1>3, <1>4, ShowKeeps

LEMMA PageSelectionKeeps ==
  ASSUME ViewInv, NEW w \in Windows,
         \/ PageNext(w) \/ PagePrevious(w)
         \/ \E position \in 1 .. Cardinality(Tabs) : TabFocus(w, position)
  PROVE  ViewInv'
<1>1. win[w].open /\ PagesOK
  BY DEF PageNext, PagePrevious, TabFocus, ViewInv
<1>2. selected[w] \in ToSet(pages[w]) /\ pages[w] \in Seq(Tabs)
  BY <1>1, ShownThere DEF PagesOK, PagesFit
<1>3. PICK n, k : n = Len(pages[w]) /\ k = IndexIn(w, selected[w])
  OBVIOUS
<1>4. n \in Nat /\ k \in 1 .. n
  BY <1>1, <1>2, <1>3, Place, SeqFacts
<1>5. \E i \in 1 .. n : SelectPage(w, PageAt(w, i))
  <2>1. CASE PageNext(w)
    <3>1. (k % n) + 1 \in 1 .. n
      BY <1>4
    <3> QED
      BY <1>3, <2>1, <3>1 DEF PageNext
  <2>2. CASE PagePrevious(w)
    <3>1. ((k + n - 2) % n) + 1 \in 1 .. n
      BY <1>4
    <3> QED
      BY <1>3, <2>2, <3>1 DEF PagePrevious
  <2>3. CASE \E position \in 1 .. Cardinality(Tabs) : TabFocus(w, position)
    <3>1. PICK position : TabFocus(w, position)
      BY <2>3
    <3>2. PICK i : i = IF position \in 1 .. n THEN position ELSE n
      OBVIOUS
    <3>3. i \in 1 .. n
      BY <1>4, <3>2
    <3> QED
      BY <1>3, <3>1, <3>2, <3>3 DEF TabFocus
  <2> QED
    BY <2>1, <2>2, <2>3
<1>6. PICK i \in 1 .. n : SelectPage(w, PageAt(w, i))
  BY <1>5
<1>7. PageAt(w, i) \in ToSet(pages[w])
  BY <1>1, <1>3, <1>6, PageThere
<1> QED
  BY <1>1, <1>6, <1>7, SelectKeeps

LEMMA ClosePageKeeps ==
  ASSUME ViewInv, NEW w \in Windows, NEW t \in Tabs, ClosePage(w, t)
  PROVE  ViewInv'
<1>1. /\ tab \in [Tabs -> TabStates] /\ look \in [Profiles -> Looks]
      /\ win \in [Windows -> WinStates]
      /\ PagesOK /\ pages[w] \in Seq(Tabs) /\ Distinct(pages[w])
      /\ pages \in [Windows -> Seq(Tabs)] /\ selected \in [Windows -> Tabs \cup {NoTab}]
  BY DEF ViewInv, Typed, PagesOK, PagesFit
<1>2. PICK gone : gone = [tab EXCEPT ![t] = NoPage]
  OBVIOUS
<1>3. PICK s : s = Without(w, t)
  OBVIOUS
<1>4. /\ t \in ToSet(pages[w]) /\ pages' = [pages EXCEPT ![w] = s]
      /\ pinned' = pinned \ {t} /\ look' = look
  BY <1>1, <1>3 DEF ClosePage
<1>5. /\ s \in Seq(Tabs) /\ Len(s) = Len(pages[w]) - 1
      /\ ToSet(s) = ToSet(pages[w]) \ {t} /\ Distinct(s)
  BY <1>1, <1>3, <1>4, WithoutEffect
<1>6. w \in On /\ win[w].open
  BY <1>1, <1>4, Place DEF On
<1>7. /\ NoPage \in TabStates /\ NewWindow \in WinStates /\ ~NewWindow.open
      /\ gone \in [Tabs -> TabStates] /\ \A u \in Tabs \ {t} : gone[u] = tab[u]
  BY <1>1, <1>2, StatesTyped
<1>8. ASSUME NEW u \in ToSet(s) PROVE u \in Placed /\ u \in Tabs \ {t} /\ Sound(gone[u], look)
  <2>1. u \in ToSet(pages[w]) /\ u # t
    BY <1>5
  <2>2. u \in Placed /\ u \in Tabs
    BY <1>1, <2>1, PlacedIn, Place
  <2> QED
    BY <1>7, <2>1, <2>2 DEF ViewInv
<1>9. ASSUME NEW u \in Placed, u \notin ToSet(pages[w]) \/ u # t
      PROVE  gone[u] = tab[u] /\ (u \in pinned' <=> u \in pinned)
  <2>1. u \in Tabs \ {t}
    BY <1>4, <1>9 DEF Placed
  <2> QED
    BY <1>4, <1>7, <2>1
<1>10. /\ \A u \in ToSet(s) : u \in ToSet(pages[w]) \/ u \notin Placed
       /\ \A u \in pinned' : u \in pinned /\ (u \in ToSet(pages[w]) => u \in ToSet(s))
  BY <1>4, <1>5
<1>11. ASSUME pages[w] = <<t>>, selected' = [selected EXCEPT ![w] = NoTab],
              win' = [win EXCEPT ![w] = NewWindow], tab' = gone
       PROVE  ViewInv'
  <2>1. s = <<>>
    <3>1. Len(pages[w]) = 1
      BY <1>11
    <3>2. Len(s) = 0
      BY <1>5, <3>1
    <3> QED
      BY <1>5, <3>2
  <2>2. /\ win'[w] = NewWindow
        /\ \A o \in Windows \ {w} : win'[o] = win[o] /\ selected'[o] = selected[o]
    BY <1>1, <1>11
  <2>3. ~win'[w].open
    BY <1>7, <2>2
  <2>4. On' = On \ {w}
    BY <2>2, <2>3, OnAfter
  <2>5. PagesOK'
    <3>1. IF w \in On' THEN NoTab \in ToSet(s) ELSE s = <<>> /\ NoTab = NoTab
      BY <2>1, <2>4
    <3>2. \A u \in pinned' : (u \in pinned /\ u \notin ToSet(pages[w])) \/ u \in ToSet(s)
      BY <1>10
    <3>3. \A o \in Windows \ {w} : \A u \in ToSet(s) : u \notin ToSet(pages[o])
      BY <2>1, NoPages
    <3>4. On' \in SUBSET Windows /\ \A o \in Windows \ {w} : o \in On' <=> o \in On
      BY <2>4 DEF On
    <3>5. PagesFit([pages EXCEPT ![w] = s], [selected EXCEPT ![w] = NoTab], pinned', On')
      <4>1. PagesFit(pages, selected, pinned, On) /\ NoTab \in Tabs \cup {NoTab}
        BY <1>1 DEF PagesOK
      <4>2. PICK none : none = NoTab
        OBVIOUS
      <4> QED
        BY <1>5, <3>1, <3>2, <3>3, <3>4, <4>1, <4>2, PagesPut
    <3> QED
      BY <1>4, <1>11, <3>5 DEF PagesOK
  <2>6. Typed'
    BY <1>1, <1>4, <1>7, <1>11 DEF Typed
  <2>7. Told(w)'
    BY <2>2, <2>3 DEF Told
  <2>8. ASSUME NEW u \in Placed' PROVE u \in Placed /\ tab'[u] = tab[u]
    <3>1. PICK o \in Windows : u \in ToSet(pages'[o])
      BY <2>5, PlacedNext
    <3>2. o # w
      BY <1>1, <1>4, <2>1, <3>1, NoPages
    <3>3. pages'[o] = pages[o]
      BY <1>1, <1>4, <3>2
    <3>4. u \in Placed /\ u \notin ToSet(pages[w])
      BY <1>1, <3>1, <3>2, <3>3, PlacedIn DEF PagesOK, PagesFit
    <3> QED
      BY <1>9, <1>11, <3>4
  <2> QED
    BY <1>4, <1>9, <1>11, <2>2, <2>5, <2>6, <2>7, <2>8, ElsewhereOne
<1>12. ASSUME Len(pages[w]) > 1, t = selected[w], ShowPage(w, Neighbour(w, t), gone)
       PROVE  ViewInv'
  <2>1. PICK u : u = Neighbour(w, t)
    OBVIOUS
  <2>2. u \in ToSet(s) /\ u # t
    BY <1>1, <1>4, <1>5, <1>12, <2>1, NeighbourThere
  <2>3. u \in pinned' <=> u \in pinned
    BY <1>4, <2>2
  <2>4. u # selected[w] /\ ShowPage(w, u, gone)
    BY <1>12, <2>1, <2>2
  <2> QED
    BY <1>4, <1>5, <1>6, <1>7, <1>8, <1>9, <1>10, <2>2, <2>3, <2>4, ShowKeeps
<1>13. ASSUME t # selected[w], tab' = gone, UNCHANGED <<selected, win, box>>
       PROVE  ViewInv'
  <2>1. selected[w] \in ToSet(s)
    BY <1>5, <1>6, <1>13, ShownThere
  <2>2. \A u \in Placed : u \notin ToSet(pages[w]) \/ u = selected[w]
                          => tab'[u] = tab[u] /\ (u \in pinned' <=> u \in pinned)
    BY <1>9, <1>13
  <2>3. \A u \in ToSet(s) : Sound(tab'[u], look)
    BY <1>8, <1>13
  <2> QED
    BY <1>4, <1>5, <1>6, <1>7, <1>10, <1>13, <2>1, <2>2, <2>3, RestKeeps
<1> QED
  BY <1>2, <1>11, <1>12, <1>13 DEF ClosePage

\* Two pages change places.
LEMMA Swapped ==
  ASSUME NEW s \in Seq(Tabs), Distinct(s), NEW i \in 1 .. Len(s), NEW j \in 1 .. Len(s), i # j,
         NEW a, a = [s EXCEPT ![i] = s[j], ![j] = s[i]]
  PROVE  a \in Seq(Tabs) /\ ToSet(a) = ToSet(s) /\ Distinct(a)
<1>1. Len(s) \in Nat /\ DOMAIN s = 1 .. Len(s) /\ \A k \in 1 .. Len(s) : s[k] \in Tabs
  BY SeqFacts
<1>2. /\ a \in Seq(Tabs) /\ Len(a) = Len(s) /\ DOMAIN a = 1 .. Len(s)
      /\ a[i] = s[j] /\ a[j] = s[i] /\ \A k \in 1 .. Len(s) : k # i /\ k # j => a[k] = s[k]
  BY <1>1
<1>3. \A t : t \in ToSet(a) <=> \E k \in 1 .. Len(s) : a[k] = t
  BY <1>2 DEF ToSet
<1>4. \A t : t \in ToSet(s) <=> \E k \in 1 .. Len(s) : s[k] = t
  BY <1>1 DEF ToSet
<1>5. ToSet(a) = ToSet(s)
  BY <1>2, <1>3, <1>4
<1>6. ASSUME NEW k \in 1 .. Len(s), NEW l \in 1 .. Len(s) PROVE a[k] = a[l] => k = l
  <2> DEFINE Old(m) == IF m = i THEN j ELSE IF m = j THEN i ELSE m
  <2>1. \A m \in 1 .. Len(s) : Old(m) \in 1 .. Len(s) /\ s[Old(m)] = a[m]
    BY <1>2
  <2>2. Old(k) = Old(l) => k = l
    OBVIOUS
  <2> HIDE DEF Old
  <2>3. a[k] = a[l] => Old(k) = Old(l)
    BY <1>1, <2>1 DEF Distinct, Once
  <2> QED
    BY <2>2, <2>3
<1>7. Distinct(a)
  BY <1>2, <1>6 DEF Distinct, Once
<1> QED
  BY <1>2, <1>5, <1>7

LEMMA MovePageKeeps ==
  ASSUME ViewInv, NEW w \in Windows, MoveLeft(w) \/ MoveRight(w)
  PROVE  ViewInv'
<1>1. PICK i, j : i \in DOMAIN pages[w] /\ j # i /\ MovePage(w, i, j)
  <2>1. PICK i \in DOMAIN pages[w] : MovePage(w, i, i - 1) \/ MovePage(w, i, i + 1)
    BY DEF MoveLeft, MoveRight
  <2>2. i \in Nat
    BY SeqFacts DEF ViewInv, PagesOK, PagesFit
  <2>3. i - 1 # i /\ i + 1 # i
    BY <2>2
  <2> QED
    BY <2>1, <2>3
<1>2. /\ pages \in [Windows -> Seq(Tabs)] /\ pages[w] \in Seq(Tabs) /\ Distinct(pages[w]) /\ PagesOK
      /\ DOMAIN pages[w] = 1 .. Len(pages[w]) /\ Len(pages[w]) \in Nat
  BY SeqFacts DEF ViewInv, PagesOK, PagesFit
<1>3. win[w].open /\ UNCHANGED <<selected, pinned, tab, win, look>>
  BY <1>1 DEF MovePage
<1>4. PICK s \in Seq(Tabs) :
         pages' = [pages EXCEPT ![w] = s] /\ ToSet(s) = ToSet(pages[w]) /\ Distinct(s)
  <2>1. CASE pages' = pages
    BY <1>2, <2>1
  <2>2. CASE pages' # pages
    <3>1. i \in DOMAIN pages[w] /\ j \in DOMAIN pages[w] /\ i # j
      BY <1>1, <1>2, <2>2 DEF MovePage
    <3>2. PICK a : a = [pages[w] EXCEPT ![i] = pages[w][j], ![j] = pages[w][i]]
      OBVIOUS
    <3>3. a \in Seq(Tabs) /\ ToSet(a) = ToSet(pages[w]) /\ Distinct(a)
      BY <1>2, <3>1, <3>2, Swapped
    <3>4. pages' = [pages EXCEPT ![w] = a]
      <4>1. pages' = [pages EXCEPT ![w] = [@ EXCEPT ![i] = pages[w][j], ![j] = pages[w][i]]]
        BY <1>1, <2>2 DEF MovePage, PageAt
      <4> QED
        BY <1>2, <3>2, <4>1
    <3> QED
      BY <3>3, <3>4
  <2> QED
    BY <2>1, <2>2
<1>5. selected[w] \in ToSet(s)
  BY <1>3, <1>4, ShownThere
<1>6. \A u \in ToSet(s) : Sound(tab'[u], look)
  BY <1>2, <1>3, <1>4, PlacedIn DEF ViewInv
<1>7. tab' \in [Tabs -> TabStates]
  BY <1>3, Same
<1> QED
  BY <1>3, <1>4, <1>5, <1>6, <1>7, RestKeeps

LEMMA SetPinnedKeeps ==
  ASSUME ViewInv, NEW w \in Windows, NEW on \in BOOLEAN, SetPinned(w, on)
  PROVE  ViewInv'
<1>1. /\ tab \in [Tabs -> TabStates] /\ win \in [Windows -> WinStates]
      /\ look \in [Profiles -> Looks]
      /\ PagesOK /\ pages[w] \in Seq(Tabs) /\ Distinct(pages[w])
      /\ pages \in [Windows -> Seq(Tabs)] /\ selected \in [Windows -> Tabs \cup {NoTab}]
  BY DEF ViewInv, Typed, PagesOK, PagesFit
<1>2. PICK t : t = selected[w]
  OBVIOUS
<1>3. PICK border : border = IF on THEN NPinned(w) + 1 ELSE NPinned(w)
  OBVIOUS
<1>4. PICK rest, s : rest = Without(w, t) /\ s = InsertAt(rest, border, t)
  OBVIOUS
<1>5. /\ win[w].open /\ UNCHANGED <<selected, tab, look>> /\ on = (t \notin pinned)
      /\ pinned' = IF on THEN pinned \cup {t} ELSE pinned \ {t}
      /\ pages' = [pages EXCEPT ![w] = s]
      /\ win' = [o \in Windows |-> IF win[o].page = t THEN NotifyPinned(win[o], on) ELSE win[o]]
  BY <1>2, <1>3, <1>4 DEF SetPinned
<1>6. t \in ToSet(pages[w]) /\ t \in Tabs /\ w \in On /\ t # NoTab
  BY <1>2, <1>5, ShownThere DEF On
<1>7. /\ rest \in Seq(Tabs) /\ Len(rest) = Len(pages[w]) - 1
      /\ ToSet(rest) = ToSet(pages[w]) \ {t} /\ Distinct(rest)
  BY <1>1, <1>4, <1>6, WithoutEffect
<1>8. border \in 1 .. Len(rest) + 1
  <2>1. /\ NPinned(w) \in Nat /\ NPinned(w) <= Len(pages[w]) /\ Len(pages[w]) \in Nat
        /\ t \notin pinned => NPinned(w) + 1 <= Len(pages[w])
        /\ t \in pinned => NPinned(w) >= 1
    BY <1>1, <1>6, PinnedFit, SeqFacts
  <2>2. CASE on
    <3>1. border = NPinned(w) + 1 /\ t \notin pinned
      BY <1>3, <1>5, <2>2
    <3> QED
      BY <1>7, <2>1, <3>1
  <2>3. CASE ~on
    <3>1. border = NPinned(w) /\ t \in pinned
      BY <1>3, <1>5, <2>3
    <3> QED
      BY <1>7, <2>1, <3>1
  <2> QED
    BY <2>2, <2>3
<1>9. s \in Seq(Tabs) /\ ToSet(s) = ToSet(pages[w]) /\ Distinct(s)
  <2>1. s \in Seq(Tabs) /\ ToSet(s) = ToSet(rest) \cup {t} /\ \A u : Once(rest, u) => Once(s, u)
    BY <1>4, <1>6, <1>7, <1>8, Inserted
  <2> QED
    BY <1>6, <1>7, <2>1 DEF Distinct
<1>10. ASSUME NEW o \in Windows \ {w} PROVE win'[o] = win[o]
  <2>1. win[o].page # t
    <3>1. win[o].open => selected[o] # t
      BY <1>1, <1>6, ShownThere DEF PagesOK, PagesFit
    <3> QED
      BY <1>6, <3>1, ShownThere DEF Listens
  <2> QED
    BY <1>5, <2>1
<1>11. PICK n : n = NotifyPinned(win[w], on)
  OBVIOUS
<1>12. win'[w] = n /\ Shows(win[w], t, tab[t], t \in pinned, look)
  BY <1>2, <1>5, <1>11, ShownThere DEF Listens, ViewInv, Told
<1>13. /\ n \in WinStates /\ n = [win[w] EXCEPT !.enabled = n.enabled]
       /\ n.enabled \cap PinGroup = PinActions(on)
       /\ n.enabled \ PinGroup = win[w].enabled \ PinGroup
  BY <1>1, <1>11, PinShown
<1>14. /\ n.open = win[w].open /\ n.page = win[w].page
       /\ n.follows = win[w].follows /\ n.bound = win[w].bound /\ n.chipTab = win[w].chipTab
       /\ n.css = win[w].css /\ n.chip = win[w].chip /\ n.palette = win[w].palette
       /\ n.loaded = win[w].loaded /\ n.queued = win[w].queued
       /\ n.terminal = win[w].terminal /\ n.text = win[w].text
  BY <1>1, <1>13 DEF WinStates
<1>15. n.enabled \cap ZoomGroup = win[w].enabled \cap ZoomGroup
  BY <1>13, GroupsApart
<1>16. Listens(n, t) /\ StyleOK(n) /\ n.open
  BY <1>12, <1>14 DEF Shows, Listens, StyleOK
<1>17. Shows(n, t, tab[t], on, look)
  BY <1>12, <1>13, <1>14, <1>15, <1>16 DEF Shows
<1>18. on <=> t \in pinned'
  BY <1>5
<1>19. Told(w)'
  <2>1. Shows(win'[w], selected'[w], tab'[selected'[w]], selected'[w] \in pinned', look')
    BY <1>2, <1>5, <1>12, <1>17, <1>18 DEF Shows, PinActions
  <2> QED
    BY <1>12, <1>16, <2>1 DEF Told
<1>20. Typed'
  <2>1. win' \in [Windows -> WinStates]
    <3>1. \A o \in Windows : win'[o] \in WinStates
      BY <1>1, <1>10, <1>12, <1>13
    <3>2. win' = [o \in Windows |-> win'[o]]
      BY <1>5
    <3> QED
      BY <3>1, <3>2
  <2> QED
    BY <1>1, <1>5, <2>1 DEF Typed
<1>21. /\ PagesOK'
       /\ \A u : u \in Placed' <=> u \in ToSet(s) \/ (u \in Placed /\ u \notin ToSet(pages[w]))
  <2>1. \A o \in Windows : win'[o].open <=> win[o].open
    BY <1>10, <1>12, <1>14
  <2>2. selected' = [selected EXCEPT ![w] = t]
    BY <1>1, <1>2, <1>5
  <2>3. \A u \in pinned' : \/ u \in pinned /\ (u \in ToSet(pages[w]) => u \in ToSet(s))
                           \/ u \in ToSet(s)
    BY <1>5, <1>6, <1>9
  <2> QED
    BY <1>1, <1>5, <1>6, <1>9, <2>1, <2>2, <2>3, OnePut
<1>22. ASSUME NEW u \in Placed' PROVE u \in Placed /\ tab'[u] = tab[u]
  BY <1>1, <1>5, <1>9, <1>21, PlacedIn
<1>23. ASSUME NEW u \in Placed, u \notin ToSet(pages[w])
       PROVE  tab'[u] = tab[u] /\ (u \in pinned' <=> u \in pinned)
  BY <1>5, <1>6, <1>23
<1> QED
  BY <1>5, <1>10, <1>19, <1>20, <1>21, <1>22, <1>23, ElsewhereOne

LEMMA DetachKeeps ==
  ASSUME ViewInv, NEW w \in Windows, NEW o \in Windows, Detach(w, o)
  PROVE  ViewInv'
<1>1. /\ tab \in [Tabs -> TabStates] /\ win \in [Windows -> WinStates]
      /\ look \in [Profiles -> Looks]
      /\ PagesOK /\ pages[w] \in Seq(Tabs) /\ Distinct(pages[w])
      /\ pages \in [Windows -> Seq(Tabs)] /\ selected \in [Windows -> Tabs \cup {NoTab}]
  BY DEF ViewInv, Typed, PagesOK, PagesFit
<1>2. PICK t, n : t = selected[w] /\ n = Neighbour(w, t)
  OBVIOUS
<1>3. PICK s, one : s = Without(w, t) /\ one = <<t>>
  OBVIOUS
<1>4. PICK q : q = [win[o] EXCEPT !.open = TRUE]
  OBVIOUS
<1>5. PICK bn \in BOOLEAN : bn <=> n \in pinned
  OBVIOUS
<1>6. PICK bt \in BOOLEAN : bt <=> t \in pinned
  OBVIOUS
<1>7. PICK x, y : /\ x = NotifySelectedPage(win[w], n, tab[n], bn)
                  /\ y = NotifySelectedPage(q, t, tab[t], bt)
  OBVIOUS
<1>8. PICK a, b : a = ShowTab(win[w], n, tab[n]) /\ b = ShowTab(q, t, tab[t])
  OBVIOUS
<1>9. /\ win[w].open /\ ~win[o].open /\ Len(pages[w]) > 1 /\ UNCHANGED <<pinned, look>>
      /\ pages' = [pages EXCEPT ![w] = s, ![o] = one]
      /\ selected' = [selected EXCEPT ![w] = n, ![o] = t]
  BY <1>2, <1>3 DEF Detach
<1>10. o # w /\ t \in ToSet(pages[w]) /\ t \in Tabs /\ t \in Placed
  BY <1>2, <1>9, ShownThere
<1>11. n \in ToSet(pages[w]) /\ n # t /\ n \in Tabs
  BY <1>1, <1>2, <1>9, <1>10, NeighbourThere, Place
<1>12. win' = [win EXCEPT ![w] = x, ![o] = y]
  <2>1. win' = [win EXCEPT ![w] = NotifySelectedPage(@, n, tab[n], n \in pinned),
                           ![o] = NotifySelectedPage([@ EXCEPT !.open = TRUE],
                                                     t, tab[t], t \in pinned)]
    BY <1>2 DEF Detach
  <2>2. (n \in pinned) = bn /\ (t \in pinned) = bt
    BY <1>5, <1>6
  <2>3. win' = [win EXCEPT ![w] = NotifySelectedPage(win[w], n, tab[n], n \in pinned),
                           ![o] = NotifySelectedPage([win[o] EXCEPT !.open = TRUE],
                                                     t, tab[t], t \in pinned)]
    BY <1>1, <1>10, <2>1
  <2> QED
    BY <1>4, <1>7, <2>2, <2>3
<1>13. tab' = [tab EXCEPT ![n] = a, ![t] = b]
  <2>1. tab' = [tab EXCEPT ![n] = ShowTab(win[w], n, @), ![t] = ShowTab(win[o], t, @)]
    BY <1>2 DEF Detach
  <2>2. q.terminal = win[o].terminal /\ q.text = win[o].text
    BY <1>1, <1>4 DEF WinStates
  <2>3. ShowTab(win[o], t, tab[t]) = b
    BY <1>8, <2>2 DEF ShowTab
  <2> QED
    BY <1>1, <1>8, <1>10, <1>11, <2>1, <2>3
<1>14. /\ win'[w] = x /\ win'[o] = y /\ selected'[w] = n /\ selected'[o] = t
       /\ tab'[n] = a /\ tab'[t] = b /\ \A u \in Tabs \ {n, t} : tab'[u] = tab[u]
       /\ pages'[w] = s /\ pages'[o] = one
       /\ \A r \in Windows \ {w, o} :
             win'[r] = win[r] /\ selected'[r] = selected[r] /\ pages'[r] = pages[r]
  BY <1>1, <1>9, <1>10, <1>11, <1>12, <1>13
<1>15. /\ s \in Seq(Tabs) /\ ToSet(s) = ToSet(pages[w]) \ {t} /\ Distinct(s)
       /\ one \in Seq(Tabs) /\ ToSet(one) = {t} /\ Distinct(one)
  BY <1>1, <1>3, <1>10, WithoutEffect, PutOn
<1>16. /\ x \in WinStates /\ a \in TabStates /\ Shows(x, n, a, bn, look)
       /\ Sound(tab[n], look) => Sound(a, look)
  <2>1. win[w] \in WinStates /\ StyleOK(win[w]) /\ n # win[w].terminal /\ tab[n] \in TabStates
    BY <1>1, <1>2, <1>9, <1>11, ShownThere DEF Listens
  <2> QED
    BY <1>1, <1>7, <1>8, <1>9, <1>11, <2>1, ShowsNow
<1>17. /\ y \in WinStates /\ b \in TabStates /\ Shows(y, t, b, bt, look)
       /\ Sound(tab[t], look) => Sound(b, look)
  <2>1. /\ win[o] \in WinStates /\ StyleOK(win[o]) /\ win[o].terminal = NoTab /\ NoTab \notin Tabs
        /\ tab[t] \in TabStates
    BY <1>1, <1>9, <1>10, ShownThere DEF Listens
  <2>2. q \in WinStates /\ StyleOK(q) /\ q.open /\ q.terminal = NoTab
    BY <1>4, <2>1 DEF WinStates, StyleOK
  <2>3. t # q.terminal
    BY <1>10, <2>1, <2>2
  <2> QED
    BY <1>1, <1>7, <1>8, <1>10, <2>1, <2>2, <2>3, ShowsNow
<1>18. x.open /\ y.open
  BY <1>16, <1>17 DEF Shows
<1>19. On' = On \cup {o} /\ w \in On /\ o \notin On /\ On \subseteq Windows
  BY <1>9, <1>14, <1>18 DEF On
<1>20. pages[o] = <<>> /\ ToSet(pages[o]) = {}
  BY <1>9, ShownThere, NoPages
<1>21. PagesOK'
  <2>1. PICK pg, sel, pin : /\ pg = [pages EXCEPT ![w] = s] /\ sel = [selected EXCEPT ![w] = n]
                            /\ pin = pinned \ {t}
    OBVIOUS
  <2>2. PagesFit(pg, sel, pin, On)
    <3>1. \A r \in Windows \ {w} : \A u \in ToSet(s) : u \notin ToSet(pages[r])
      BY <1>1, <1>15 DEF PagesOK, PagesFit
    <3>2. \A u \in pin : (u \in pinned /\ u \notin ToSet(pages[w])) \/ u \in ToSet(s)
      BY <1>15, <2>1
    <3>3. IF w \in On THEN n \in ToSet(s) ELSE s = <<>> /\ n = NoTab
      BY <1>11, <1>15, <1>19
    <3>4. PagesFit(pages, selected, pinned, On) /\ On \in SUBSET Windows /\ n \in Tabs \cup {NoTab}
      BY <1>1, <1>11, <1>19 DEF PagesOK
    <3>5. PagesFit([pages EXCEPT ![w] = s], [selected EXCEPT ![w] = n], pin, On)
      BY <1>15, <3>1, <3>2, <3>3, <3>4, PagesPut
    <3> QED
      BY <2>1, <3>5
  <2>3. pg[w] = s /\ \A r \in Windows \ {w} : pg[r] = pages[r]
    BY <1>1, <2>1
  <2>4. PagesFit([pg EXCEPT ![o] = one], [sel EXCEPT ![o] = t], pinned, On')
    <3>1. \A r \in Windows \ {o} : \A u \in ToSet(one) : u \notin ToSet(pg[r])
      BY <1>1, <1>10, <1>15, <2>3 DEF PagesOK, PagesFit
    <3>2. \A u \in pinned : (u \in pin /\ u \notin ToSet(pg[o])) \/ u \in ToSet(one)
      BY <1>10, <1>15, <1>20, <2>1, <2>3
    <3>3. IF o \in On' THEN t \in ToSet(one) ELSE one = <<>> /\ t = NoTab
      BY <1>15, <1>19
    <3>4. /\ On' \in SUBSET Windows /\ t \in Tabs \cup {NoTab}
          /\ \A r \in Windows \ {o} : r \in On' <=> r \in On
      BY <1>10, <1>19
    <3> QED
      BY <1>15, <2>2, <3>1, <3>2, <3>3, <3>4, PagesPut
  <2>5. pages' = [pg EXCEPT ![o] = one] /\ selected' = [sel EXCEPT ![o] = t]
    BY <1>9, <2>1
  <2> QED
    BY <1>9, <2>4, <2>5 DEF PagesOK
<1>22. Typed'
  BY <1>1, <1>9, <1>12, <1>13, <1>16, <1>17 DEF Typed
<1>23. Told(w)'
  <2>1. Shows(win'[w], selected'[w], tab'[selected'[w]], selected'[w] \in pinned', look')
    BY <1>5, <1>9, <1>14, <1>16 DEF Shows, PinActions
  <2> QED
    BY <1>14, <1>18, <2>1 DEF Told
<1>24. Told(o)'
  <2>1. Shows(win'[o], selected'[o], tab'[selected'[o]], selected'[o] \in pinned', look')
    BY <1>6, <1>9, <1>14, <1>17 DEF Shows, PinActions
  <2> QED
    BY <1>14, <1>18, <2>1 DEF Told
<1>25. n \in Placed /\ Sound(tab[n], look) /\ Sound(tab[t], look)
  BY <1>1, <1>10, <1>11, PlacedIn DEF ViewInv
<1>26. ASSUME NEW u \in Placed' PROVE Sound(tab'[u], look) \/ (u \in Placed /\ tab'[u] = tab[u])
  <2>1. CASE u \in {n, t}
    BY <1>14, <1>16, <1>17, <1>25, <2>1
  <2>2. CASE u \notin {n, t}
    <3>1. PICK r \in Windows : u \in ToSet(pages'[r])
      BY <1>21, PlacedNext
    <3>2. u \in ToSet(pages[r])
      BY <1>14, <1>15, <2>2, <3>1
    <3>3. u \in Placed
      BY <1>1, <3>2, PlacedIn
    <3> QED
      BY <1>14, <2>2, <3>3 DEF Placed
  <2> QED
    BY <2>1, <2>2
<1>27. PICK W \in SUBSET Windows : W = {w, o}
  OBVIOUS
<1>28. \A u \in Placed : (\A r \in W : u \notin ToSet(pages[r]))
                         => tab'[u] = tab[u] /\ (u \in pinned' <=> u \in pinned)
  BY <1>9, <1>10, <1>11, <1>14, <1>27 DEF Placed
<1>29. /\ \A r \in W : Told(r)'
       /\ \A r \in Windows \ W : win'[r] = win[r] /\ selected'[r] = selected[r]
  BY <1>14, <1>23, <1>24, <1>27
<1> QED
  BY <1>9, <1>21, <1>22, <1>26, <1>28, <1>29, Elsewhere

-----------------------------------------------------------------------------
(* Every step *)

\* Only the box of a window changes, or nothing that a window says.
LEMMA BoxOnlyKeeps ==
  ASSUME ViewInv, UNCHANGED <<pages, selected, pinned, tab, win, look>>
  PROVE  ViewInv'
<1>1. /\ tab' \in [Tabs -> TabStates] /\ \A t \in Tabs : Calm(tab'[t], tab[t])
      /\ win' \in [Windows -> WinStates]
  BY Same
<1> QED
  BY <1>1, QuietKeeps

LEMMA BoxSteps ==
  ASSUME ViewInv, NEW w \in Windows,
         \/ FocusHeader(w) \/ Commit(w) \/ ForcedRevealEnds(w)
         \/ \E y \in Heights : PointerMoves(w, y) \/ Touch(w, y)
  PROVE  ViewInv'
BY BoxOnlyKeeps
   DEF FocusHeader, Commit, ForcedRevealEnds, PointerMoves, Touch, BoxEvent, InWindow

LEMMA PageStepKeeps == ViewInv /\ PageStep => ViewInv'
<1> SUFFICES ASSUME ViewInv, PageStep PROVE ViewInv'
  OBVIOUS
<1>1. CASE \E w \in Windows, t \in Tabs : \E p \in Profiles : OpenWindow(w, t, p)
  BY <1>1, OpenWindowKeeps
<1>2. CASE \E w \in Windows, t \in Tabs : OpenTab(w, t)
  BY <1>2, OpenTabKeeps
<1>3. CASE \E w \in Windows, t \in Tabs : AddTabAtEnd(w, t)
  BY <1>3, AddTabAtEndKeeps
<1>4. CASE \E w \in Windows, t \in Tabs : ClosePage(w, t)
  BY <1>4, ClosePageKeeps
<1>5. CASE \E w, o \in Windows : Detach(w, o)
  BY <1>5, DetachKeeps
<1>6. CASE \E w \in Windows : \/ PageNext(w) \/ PagePrevious(w)
                              \/ \E position \in 1 .. Cardinality(Tabs) : TabFocus(w, position)
  BY <1>6, PageSelectionKeeps
<1>7. CASE \E w \in Windows : \E on \in BOOLEAN : SetPinned(w, on)
  BY <1>7, SetPinnedKeeps
<1>8. CASE \E w \in Windows : MoveLeft(w) \/ MoveRight(w)
  BY <1>8, MovePageKeeps
<1> QED
  BY <1>1, <1>2, <1>3, <1>4, <1>5, <1>6, <1>7, <1>8 DEF PageStep

LEMMA TabStepKeeps == ViewInv /\ TabStep => ViewInv'
<1> SUFFICES ASSUME ViewInv, TabStep PROVE ViewInv'
  OBVIOUS
<1>1. CASE \E w \in Windows : ZoomIn(w) \/ ZoomOut(w) \/ ZoomOne(w)
  BY <1>1, ZoomKeeps DEF ZoomIn, ZoomOut, ZoomOne
<1>2. CASE \E t \in Tabs : KindForgotten(t)
  <2>1. "unknown" \in Kinds
    BY ViewAssumption
  <2> QED
    BY <1>2, <2>1, KindKeeps
<1>3. CASE \E t \in Tabs : \E kind \in Kinds : LeaderKindChanges(t, kind)
  BY <1>3, KindKeeps
<1>4. CASE \E t \in Tabs : \E p \in Profiles : ApplyProfile(t, p)
  BY <1>4, ApplyKeeps
<1>5. CASE \E t \in Tabs : Output(t)
  BY <1>5, DrawingSteps
<1>6. CASE \E p \in Profiles : EditProfile(p)
  BY <1>6, EditKeeps
<1> QED
  BY <1>1, <1>2, <1>3, <1>4, <1>5, <1>6 DEF TabStep

LEMMA WindowStepKeeps == ViewInv /\ WindowStep => ViewInv'
<1> SUFFICES ASSUME ViewInv, WindowStep PROVE ViewInv'
  OBVIOUS
<1>1. PICK w \in Windows :
         \/ Search(w) \/ \E text \in Texts : Type(w, text)
         \/ Dismiss(w) \/ FocusHeader(w)
         \/ \E y \in Heights : PointerMoves(w, y) \/ Touch(w, y)
         \/ ToplevelStateChanges(w) \/ Commit(w) \/ ToggleOverview(w)
  BY DEF WindowStep
<1>2. CASE Search(w) \/ Dismiss(w) \/ ToplevelStateChanges(w) \/ ToggleOverview(w)
  BY <1>2, OwnSteps
<1>3. CASE \E text \in Texts : Type(w, text)
  BY <1>3, TypeKeeps
<1>4. CASE \/ FocusHeader(w) \/ Commit(w)
           \/ \E y \in Heights : PointerMoves(w, y) \/ Touch(w, y)
  BY <1>4, BoxSteps
<1> QED
  BY <1>1, <1>2, <1>3, <1>4

LEMMA LoopStepKeeps == ViewInv /\ LoopStep => ViewInv'
<1> SUFFICES ASSUME ViewInv, LoopStep PROVE ViewInv'
  OBVIOUS
<1>1. CASE \E w \in Windows : ForcedRevealEnds(w)
  BY <1>1, BoxSteps
<1>2. CASE \E w \in Windows : FocusActiveTab(w) \/ LoadStyle(w)
  BY <1>2, OwnSteps
<1>3. CASE \E t \in Tabs : SizeAllocate(t) \/ Snapshot(t)
  BY <1>3, DrawingSteps
<1> QED
  BY <1>1, <1>2, <1>3 DEF LoopStep

(* What windows show is kept by every step.                                *)
LEMMA ViewNext == ViewInv /\ [Next]_vars => ViewInv'
<1> SUFFICES ASSUME ViewInv, [Next]_vars PROVE ViewInv'
  OBVIOUS
<1>1. CASE PageStep
  BY <1>1, PageStepKeeps
<1>2. CASE TabStep
  BY <1>2, TabStepKeeps
<1>3. CASE WindowStep
  BY <1>3, WindowStepKeeps
<1>4. CASE LoopStep
  BY <1>4, LoopStepKeeps
<1>5. CASE UNCHANGED vars
  BY <1>5, BoxOnlyKeeps DEF vars
<1> QED
  BY <1>1, <1>2, <1>3, <1>4, <1>5 DEF Next

-----------------------------------------------------------------------------
(* The properties *)

\* The pages of the windows of one application are apart, every open window
\* shows one of its own pages and listens to that tab alone, and what it keeps
\* of it is what the tab is (ptyxis-window.c, ptyxis_window_notify_selected_page_cb
\* and the handlers it connects).
THEOREM ViewInvariant == Spec => []ViewInv
<1>1. Init => ViewInv
  BY ViewInit
<1>2. ViewInv /\ [Next]_vars => ViewInv'
  BY ViewNext
<1> QED
  BY <1>1, <1>2, PTL DEF Spec

\* The chip, the CSS class, the actions and the style of a window are those of
\* the tab it shows, and every tab has the settings of its own profile.
THEOREM FollowsShownTab == Spec => []WindowFollowsShownTab
<1>1. ASSUME ViewInv PROVE WindowFollowsShownTab
  <2>1. ASSUME NEW w \in OpenWindows, NEW t, t = selected[w]
        PROVE  /\ win[w].chip = tab[t].kind /\ win[w].css = tab[t].kind
               /\ win[w].enabled \cap ZoomGroup = ZoomActions(tab[t].zoom)
               /\ win[w].enabled \cap PinGroup = IF t \in pinned THEN {"unpin"} ELSE {"pin"}
               /\ win[w].palette = look[tab[t].profile]
               /\ win[w].queued \/ win[w].loaded = win[w].palette
    <3>1. Shows(win[w], t, tab[t], t \in pinned, look)
      BY <1>1, <2>1 DEF OpenWindows, ViewInv, Told
    <3> QED
      BY <3>1 DEF Shows, StyleOK, PinActions
  <2>2. \A t \in Placed : tab[t].applied = look[tab[t].profile]
    BY <1>1 DEF ViewInv, Sound
  <2> QED
    BY <2>1, <2>2 DEF WindowFollowsShownTab
<1> QED
  BY <1>1, ViewInvariant, PTL

\* A session that changed its leader while another tab was shown asks for
\* attention until it is shown, and a shown one does not ask.
THEOREM ChangesAsk == Spec => []ChangedSessionsAsk
<1>1. ASSUME ViewInv PROVE ChangedSessionsAsk
  <2>1. ASSUME NEW t \in Placed, Shown(t) PROVE ~tab[t].attention
    <3>1. t \in Tabs
      BY <2>1 DEF Placed
    <3>2. PICK v \in Windows : selected[v] = t
      BY <2>1 DEF Shown
    <3>3. PICK w \in Windows : win[w].open /\ selected[w] = t
      BY <1>1, <2>1, <3>1, <3>2, ShownThere
    <3> QED
      BY <1>1, <3>3 DEF ViewInv, Told, Shows
  <2>2. \A t \in Placed : tab[t].kind # tab[t].seen => tab[t].attention
    BY <1>1 DEF ViewInv, Sound
  <2> QED
    BY <2>1, <2>2 DEF ChangedSessionsAsk
<1> QED
  BY <1>1, ViewInvariant, PTL

\* What the find bar of a window says is what its buttons search, in the tab
\* that the window shows.  Only a tab that is shown again under an empty bar
\* may have a search: the one it was left with.
THEOREM FindBarSearches == Spec => []FindBarSearchesWhatItSays
<1>1. ASSUME ViewInv PROVE FindBarSearchesWhatItSays
  <2>1. ASSUME NEW w \in OpenWindows
        PROVE  /\ win[w].terminal = selected[w]
               /\ \/ tab[selected[w]].regex = EntryChanged(tab[selected[w]], win[w].text).regex
                  \/ win[w].text = "" /\ tab[selected[w]].left
    <3>1. w \in Windows /\ win[w].open
      BY DEF OpenWindows
    <3>2. Shows(win[w], selected[w], tab[selected[w]], selected[w] \in pinned, look)
      BY <1>1, <3>1 DEF ViewInv, Told
    <3>3. tab[selected[w]] \in TabStates
      BY <1>1, <3>1, ShownThere
    <3>4. EntryChanged(tab[selected[w]], win[w].text).regex = RegexOf(win[w].text)
      BY <3>3 DEF EntryChanged, TabStates, RegexOf
    <3> QED
      BY <3>2, <3>4 DEF Shows, Listens
  <2> QED
    BY <2>1 DEF FindBarSearchesWhatItSays
<1> QED
  BY <1>1, ViewInvariant, PTL
=============================================================================
