---------------------------- MODULE SettingsProofs ----------------------------
(***************************************************************************)
(* The settings. For any number of profiles, links, tabs, files and        *)
(* changes: the profiles and the preferences window that shows them, the   *)
(* shortcuts, and what a terminal offers and answers. And their migration: *)
(* wherever the script is killed or fails, and whatever the programs write *)
(* meanwhile, what it copied can be taken back, and no settings are mixed. *)
(***************************************************************************)
EXTENDS Preferences, SettingsMigration, SequenceTheorems, FiniteSetTheorems, WellFoundedInduction, TLAPS

-----------------------------------------------------------------------------
(* Lists *)

(* Every set of numbers has a least one.                                     *)
LEMMA NatMin ==
    ASSUME NEW T, T \subseteq Nat, T # {}
    PROVE  \E x \in T : \A y \in T : x <= y
<1> DEFINE R == OpToRel(<, Nat)
<1>1. IsWellFoundedOn(R, Nat)
  BY NatLessThanWellFounded
<1>2. \A y, x \in Nat : y < x => << y, x >> \in R
  BY DEF OpToRel
<1> HIDE DEF R
<1>3. PICK x \in T : \A y \in T : ~(<< y, x >> \in R)
  BY <1>1, WFMin
<1>4. \A y \in T : ~(y < x)
  BY <1>2, <1>3
<1>5. \A y \in T : x <= y
  BY <1>4
<1> QED
  BY <1>5

(* Where the first of a list's elements that are e is.                        *)
FirstPlace(s, e) == SelectInSeq(s, LAMBDA x : x = e)

LEMMA PlaceThere ==
    ASSUME NEW S, NEW s \in Seq(S), NEW e, \E i \in 1 .. Len(s) : s[i] = e
    PROVE  FirstPlace(s, e) \in 1 .. Len(s) /\ s[FirstPlace(s, e)] = e
<1> DEFINE I == { i \in 1 .. Len(s) : s[i] = e }
<1>1. I \subseteq Nat /\ I # {}
  OBVIOUS
<1>2. PICK i \in I : \A j \in I : i <= j
  BY <1>1, NatMin
<1>3. Min(I) \in I
  BY <1>2 DEF Min
<1>4. FirstPlace(s, e) = Min(I)
  BY <1>1 DEF FirstPlace, SelectInSeq
<1> QED
  BY <1>3, <1>4

(* What is left of a list without the element at one place.                   *)
LEMMA RemoveAtProperties ==
    ASSUME NEW S, NEW s \in Seq(S), NEW k \in 1 .. Len(s)
    PROVE  /\ RemoveAt(s, k) \in Seq(S)
           /\ Len(RemoveAt(s, k)) = Len(s) - 1
           /\ \A j \in 1 .. Len(s) - 1 : RemoveAt(s, k)[j] = s[IF j < k THEN j ELSE j + 1]
<1> DEFINE a == SubSeq(s, 1, k - 1)
           b == SubSeq(s, k + 1, Len(s))
<1>1. Len(s) \in Nat /\ k \in Nat /\ 1 <= k /\ k <= Len(s) /\ \A j \in 1 .. Len(s) : s[j] \in S
  BY LenProperties, ElementOfSeq
<1>2. a \in Seq(S) /\ Len(a) = k - 1 /\ \A j \in 1 .. k - 1 : a[j] = s[j]
  <2>1. \A j \in 1 .. k - 1 : s[j] \in S
    BY <1>1
  <2> QED
    BY <1>1, <2>1, SubSeqProperties
<1>3. b \in Seq(S) /\ Len(b) = Len(s) - k /\ \A j \in 1 .. Len(s) - k : b[j] = s[k + j]
  <2>1. \A j \in k + 1 .. Len(s) : s[j] \in S
    BY <1>1
  <2>2. /\ SubSeq(s, k + 1, Len(s)) \in Seq(S)
        /\ Len(SubSeq(s, k + 1, Len(s))) = IF k + 1 <= Len(s) THEN Len(s) - (k + 1) + 1 ELSE 0
        /\ \A i \in 1 .. Len(s) - (k + 1) + 1 : SubSeq(s, k + 1, Len(s))[i] = s[k + 1 + i - 1]
    BY <1>1, <2>1, SubSeqProperties
  <2>3. \A j \in 1 .. Len(s) - k : k + 1 + j - 1 = k + j /\ j \in 1 .. Len(s) - (k + 1) + 1
    BY <1>1
  <2> QED
    BY <1>1, <2>2, <2>3
<1>4. RemoveAt(s, k) = a \o b
  BY DEF RemoveAt
<1> HIDE DEF a, b
<1>5. /\ a \o b \in Seq(S) /\ Len(a \o b) = Len(a) + Len(b)
      /\ \A i \in 1 .. Len(a) + Len(b) : (a \o b)[i] = IF i <= Len(a) THEN a[i] ELSE b[i - Len(a)]
  BY <1>2, <1>3, ConcatProperties
<1>6. ASSUME NEW j \in 1 .. Len(s) - 1
      PROVE  (a \o b)[j] = s[IF j < k THEN j ELSE j + 1]
  <2>1. CASE j < k
    BY <1>1, <1>2, <1>3, <1>5, <2>1
  <2>2. CASE ~(j < k)
    <3>1. j - (k - 1) \in 1 .. Len(s) - k /\ k + (j - (k - 1)) = j + 1
      BY <1>1, <2>2
    <3>2. (a \o b)[j] = b[j - (k - 1)]
      BY <1>1, <1>2, <1>3, <1>5, <2>2
    <3> QED
      BY <1>3, <2>2, <3>1, <3>2
  <2> QED
    BY <2>1, <2>2
<1> QED
  BY <1>1, <1>2, <1>3, <1>4, <1>5, <1>6

(* ... and of one with another element put before that place.                 *)
LEMMA InsertAtProperties ==
    ASSUME NEW S, NEW s \in Seq(S), NEW x \in S, NEW k \in 1 .. Len(s) + 1
    PROVE  /\ InsertAt(s, k, x) \in Seq(S)
           /\ Len(InsertAt(s, k, x)) = Len(s) + 1
           /\ \A j \in 1 .. Len(s) : InsertAt(s, k, x)[IF j < k THEN j ELSE j + 1] = s[j]
           /\ \A j \in 1 .. Len(s) + 1 : InsertAt(s, k, x)[j] =
                 IF j < k THEN s[j] ELSE IF j = k THEN x ELSE s[j - 1]
<1> DEFINE a == SubSeq(s, 1, k - 1)
           b == SubSeq(s, k, Len(s))
<1>1. Len(s) \in Nat /\ k \in Nat /\ k >= 1 /\ \A j \in 1 .. Len(s) : s[j] \in S
  BY LenProperties, ElementOfSeq
<1>2. a \in Seq(S) /\ Len(a) = k - 1 /\ \A j \in 1 .. k - 1 : a[j] = s[j]
  <2>1. \A j \in 1 .. k - 1 : s[j] \in S
    BY <1>1
  <2> QED
    BY <1>1, <2>1, SubSeqProperties
<1>3. b \in Seq(S) /\ Len(b) = Len(s) - k + 1 /\ \A j \in 1 .. Len(s) - k + 1 : b[j] = s[k + j - 1]
  <2>1. \A j \in k .. Len(s) : s[j] \in S
    BY <1>1
  <2> QED
    BY <1>1, <2>1, SubSeqProperties
<1>4. InsertAt(s, k, x) = a \o << x >> \o b
  BY DEF InsertAt
<1> DEFINE c == << x >>
           r == InsertAt(s, k, x)
<1>5. c \in Seq(S) /\ Len(c) = 1 /\ c[1] = x
  OBVIOUS
<1>6. r = a \o c \o b
  BY <1>4
<1> HIDE DEF a, b, c, r
<1> DEFINE d == a \o c
<1>7. /\ d \in Seq(S) /\ Len(d) = Len(a) + Len(c)
      /\ \A i \in 1 .. Len(a) + Len(c) : d[i] = IF i <= Len(a) THEN a[i] ELSE c[i - Len(a)]
  BY <1>2, <1>5, ConcatProperties
<1> HIDE DEF d
<1>8. /\ d \o b \in Seq(S) /\ Len(d \o b) = Len(d) + Len(b)
      /\ \A i \in 1 .. Len(d) + Len(b) : (d \o b)[i] = IF i <= Len(d) THEN d[i] ELSE b[i - Len(d)]
  <2>1. d \in Seq(S) /\ b \in Seq(S)
    BY <1>3, <1>7
  <2> QED
    BY ONLY <2>1, ConcatProperties
<1>9. r = d \o b
  BY <1>6 DEF d
<1>10. /\ r \in Seq(S) /\ Len(r) = Len(s) + 1
       /\ \A i \in 1 .. Len(s) + 1 : r[i] = IF i <= k THEN d[i] ELSE b[i - k]
  BY <1>1, <1>2, <1>3, <1>5, <1>7, <1>8, <1>9
<1>11. ASSUME NEW j \in 1 .. Len(s) + 1
      PROVE  r[j] = IF j < k THEN s[j] ELSE IF j = k THEN x ELSE s[j - 1]
  <2>1. CASE j < k
    <3>1. j \in 1 .. k - 1 /\ j \in 1 .. Len(a) + Len(c) /\ j <= Len(a) /\ j <= k
      BY <1>1, <1>2, <1>5, <2>1
    <3>2. r[j] = d[j] /\ d[j] = a[j] /\ a[j] = s[j]
      BY <1>2, <1>7, <1>10, <3>1
    <3> QED
      BY <2>1, <3>2
  <2>2. CASE j = k
    <3>1. k - (k - 1) = 1 /\ ~(k <= k - 1)
      BY <1>1
    <3> QED
      BY <1>1, <1>2, <1>5, <1>7, <1>10, <2>2, <3>1
  <2>3. CASE j > k
    <3>1. j - k \in 1 .. Len(s) - k + 1 /\ k + (j - k) - 1 = j - 1 /\ ~(j <= k) /\ ~(j < k) /\ j # k
      BY <1>1, <2>3
    <3> QED
      BY <1>3, <1>10, <3>1
  <2> QED
    BY <1>1, <2>1, <2>2, <2>3
<1>12. \A j \in 1 .. Len(s) : r[IF j < k THEN j ELSE j + 1] = s[j]
  BY <1>1, <1>11
<1> QED
  BY <1>10, <1>11, <1>12 DEF r

(* A list of different elements without one of them.                          *)
LEMMA RemoveFirstProperties ==
    ASSUME NEW S, NEW s \in Seq(S), IsInjective(s), NEW e
    PROVE  /\ RemoveFirst(s, e) \in Seq(S) /\ IsInjective(RemoveFirst(s, e))
           /\ ToSet(RemoveFirst(s, e)) = ToSet(s) \ {e}
<1> DEFINE k == FirstPlace(s, e)
           r == RemoveFirst(s, e)
<1>1. Len(s) \in Nat /\ DOMAIN s = 1 .. Len(s)
  BY LenProperties
<1>2. CASE \E i \in 1 .. Len(s) : s[i] = e
  <2>1. k \in 1 .. Len(s) /\ s[k] = e
    BY <1>2, PlaceThere
  <2>2. r = RemoveAt(s, k)
    BY <1>2 DEF RemoveFirst, FirstPlace
  <2> HIDE DEF k, r
  <2>3. /\ r \in Seq(S) /\ Len(r) = Len(s) - 1 /\ DOMAIN r = 1 .. Len(s) - 1
        /\ \A j \in 1 .. Len(s) - 1 : r[j] = s[IF j < k THEN j ELSE j + 1]
    BY <2>1, <2>2, RemoveAtProperties, LenProperties
  <2>4. IsInjective(r)
    BY <1>1, <2>1, <2>3 DEF IsInjective
  <2>5. ASSUME NEW x \in ToSet(r) PROVE x \in ToSet(s) \ {e}
    <3>1. PICK j \in 1 .. Len(s) - 1 : x = r[j]
      BY <2>3, <2>5 DEF ToSet
    <3> DEFINE i == IF j < k THEN j ELSE j + 1
    <3>2. i \in 1 .. Len(s) /\ i # k /\ x = s[i]
      BY <1>1, <2>1, <2>3, <3>1
    <3> QED
      BY <1>1, <2>1, <3>2 DEF ToSet, IsInjective
  <2>6. ASSUME NEW x \in ToSet(s) \ {e} PROVE x \in ToSet(r)
    <3>1. PICK i \in 1 .. Len(s) : x = s[i]
      BY <1>1, <2>6 DEF ToSet
    <3>2. i # k
      BY <2>1, <2>6, <3>1
    <3> DEFINE j == IF i < k THEN i ELSE i - 1
    <3>3. j \in 1 .. Len(s) - 1 /\ (IF j < k THEN j ELSE j + 1) = i
      BY <1>1, <2>1, <3>1, <3>2
    <3>4. r[j] = x
      BY <2>3, <3>1, <3>3
    <3> QED
      BY <2>3, <3>3, <3>4 DEF ToSet
  <2> QED
    BY <2>3, <2>4, <2>5, <2>6 DEF r
<1>3. CASE ~\E i \in 1 .. Len(s) : s[i] = e
  BY <1>1, <1>3 DEF RemoveFirst, ToSet
<1> QED
  BY <1>2, <1>3

(* As many different objects as are asked for can be had, if there are as many. *)
LEMMA InjectionThere ==
    ASSUME NEW n \in Nat, NEW S, IsFiniteSet(S), Cardinality(S) >= n
    PROVE  Injection(1 .. n, S) # {}
<1>1. PICK m \in Nat : ExistsBijection(1 .. m, S)
  BY FS_NatBijection
<1>2. Cardinality(S) = m
  BY <1>1, FS_CountingElements
<1>3. PICK f \in Bijection(1 .. m, S) : TRUE
  BY <1>1 DEF ExistsBijection
<1> DEFINE g == [i \in 1 .. n |-> f[i]]
<1>4. f \in [1 .. m -> S] /\ IsInjective(f)
  BY <1>3 DEF Bijection, Injection
<1>5. g \in [1 .. n -> S] /\ IsInjective(g)
  BY <1>2, <1>4 DEF IsInjective
<1> QED
  BY <1>5 DEF Injection

-----------------------------------------------------------------------------
(* Shortcuts *)

(* The dialog shows what its keys asked for; menus and rows show what is      *)
(* stored.                                                                 *)
ShortcutsInv ==
    /\ accels = [n \in Names |-> accels[n]]
    /\ menus = accels /\ rows = accels
    /\ dialog # NoDialog =>
          /\ dialog = [name |-> dialog.name, accel |-> dialog.accel, first |-> dialog.first,
                       editing |-> dialog.editing, asked |-> dialog.asked]
          /\ dialog.name \in Names /\ dialog.editing \in BOOLEAN
          /\ dialog.accel = dialog.asked

(* What ptyxis_shortcut_accel_dialog_key_pressed makes of a key is what is     *)
(* meant by it.                                                            *)
LEMMA PressedIsMeant ==
    ASSUME NEW key \in Keys, NEW mods \in SUBSET Modifiers
    PROVE  PressedAccel(key, mods) = Meant(key, mods)
<1> USE DEF PressedAccel, Meant, Keyval, Shifted, ToLower, ShouldDropShift,
            SanitizeModifierMask, Accel, LosesShift, Modifiers
<1>1. key \in {"letter", "digit", "function", "arrow", "tab", "Escape", "BackSpace"}
  BY ShortcutsAssumption
<1>2. CASE key = "letter"
  <2>1. CASE "Shift" \in mods /\ "Lock" \in mods
    BY <1>2, <2>1
  <2>2. CASE "Shift" \in mods /\ "Lock" \notin mods
    BY <1>2, <2>2
  <2>3. CASE "Shift" \notin mods /\ "Lock" \in mods
    BY <1>2, <2>3
  <2>4. CASE "Shift" \notin mods /\ "Lock" \notin mods
    BY <1>2, <2>4
  <2> QED
    BY <2>1, <2>2, <2>3, <2>4
<1>3. CASE key = "digit"
  <2>1. CASE "Shift" \in mods
    BY <1>3, <2>1
  <2>2. CASE "Shift" \notin mods
    BY <1>3, <2>2
  <2> QED
    BY <2>1, <2>2
<1>4. CASE key = "tab"
  <2>1. CASE "Shift" \in mods
    BY <1>4, <2>1
  <2>2. CASE "Shift" \notin mods
    BY <1>4, <2>2
  <2> QED
    BY <2>1, <2>2
<1>5. CASE key = "arrow"
  BY <1>5
<1>6. CASE key \in {"function", "Escape", "BackSpace"}
  BY <1>6
<1> QED
  BY <1>1, <1>2, <1>3, <1>4, <1>5, <1>6

(* A value of the property's step: see StoresWhatWasPressed.                *)
Pressed ==
    /\ menus' = accels' /\ rows' = accels'
    /\ (dialog # NoDialog /\ accels' # accels /\ dialog' = NoDialog) =>
         LET n == dialog.name IN
         IF dialog.editing THEN accels'[n] \in {DefaultAccel[n], Disabled}
         ELSE accels'[n] = dialog.asked

LEMMA ShortcutsStart == ShortcutsInit => ShortcutsInv
BY ShortcutsAssumption DEF ShortcutsInit, ShortcutsInv

(* Storing one shortcut changes it everywhere.                              *)
LEMMA StoreEffect ==
    ASSUME ShortcutsInv, NEW n \in Names, NEW accel, Store(n, accel)
    PROVE  /\ accels' = [m \in Names |-> accels'[m]]
           /\ menus' = accels' /\ rows' = accels'
           /\ accels'[n] = accel
BY DEF ShortcutsInv, Store, UpdateMenu, SetAccelerator

LEMMA DialogMoves ==
    ASSUME ShortcutsInv, ShortcutsStep
    PROVE  ShortcutsInv' /\ Pressed
<1> USE DEF ShortcutsInv, Pressed
<1>1. ASSUME NEW m, PressModifier(m)
      PROVE  ShortcutsInv' /\ Pressed
  BY <1>1 DEF PressModifier, Editing
<1>2. ASSUME NEW m, Release(m)
      PROVE  ShortcutsInv' /\ Pressed
  BY <1>2 DEF Release, Editing
<1>3. CASE CloseDialog
  BY <1>3 DEF CloseDialog
<1>4. ASSUME NEW mods, PressEscape(mods)
      PROVE  ShortcutsInv' /\ Pressed
  BY <1>3, <1>4 DEF PressEscape
<1>5. ASSUME NEW mods, PressBackSpace(mods)
      PROVE  ShortcutsInv' /\ Pressed
  <2>1. dialog # NoDialog /\ dialog.editing
    BY <1>5 DEF PressBackSpace, Editing
  <2>2. CASE Store(dialog.name, Disabled) /\ dialog' = NoDialog
    <3>1. /\ accels' = [m \in Names |-> accels'[m]]
          /\ menus' = accels' /\ rows' = accels'
          /\ accels'[dialog.name] = Disabled
      BY <2>1, <2>2, StoreEffect
    <3> QED
      BY <2>1, <2>2, <3>1
  <2>3. CASE /\ dialog' = [dialog EXCEPT !.accel = Disabled, !.asked = Disabled]
             /\ UNCHANGED << accels, menus, rows >>
    BY <2>1, <2>3
  <2> QED
    BY <1>5, <2>2, <2>3 DEF PressBackSpace
<1>6. ASSUME NEW mods \in SUBSET Modifiers, NEW key \in Keys, Press(key, mods)
      PROVE  ShortcutsInv' /\ Pressed
  <2>1. PressedAccel(key, mods) = Meant(key, mods)
    BY PressedIsMeant
  <2> QED
    BY <1>6, <2>1 DEF Press, Editing
<1>7. CASE Accept
  <2>1. /\ accels' = [m \in Names |-> accels'[m]]
        /\ menus' = accels' /\ rows' = accels'
        /\ accels'[dialog.name] = dialog.accel
    BY <1>7, StoreEffect DEF Accept
  <2> QED
    BY <1>7, <2>1 DEF Accept
<1>8. CASE Reset
  <2>1. /\ accels' = [m \in Names |-> accels'[m]]
        /\ menus' = accels' /\ rows' = accels'
        /\ accels'[dialog.name] = DefaultAccel[dialog.name]
    BY <1>8, StoreEffect DEF Reset, CanReset, Editing
  <2> QED
    BY <1>8, <2>1 DEF Reset, CanReset, Editing
<1> QED
  BY <1>1, <1>2, <1>3, <1>4, <1>5, <1>6, <1>7, <1>8 DEF ShortcutsStep

(* Whatever is done: the other parts leave the shortcuts alone.               *)
LEMMA ShortcutsMove ==
    ASSUME ShortcutsInv, [Next]_vars
    PROVE  ShortcutsInv' /\ [Pressed]_shortcutVars
<1>1. CASE UNCHANGED shortcutVars
  BY <1>1 DEF ShortcutsInv, shortcutVars
<1>2. CASE ShortcutsStep
  BY <1>2, DialogMoves
<1>3. ASSUME NEW n \in Names, SelectShortcut(n)
      PROVE  ShortcutsInv' /\ Pressed
  BY <1>3 DEF ShortcutsInv, Pressed, SelectShortcut
<1>4. ASSUME NEW n \in Names, NEW accel, StoredElsewhere(n, accel)
      PROVE  ShortcutsInv' /\ Pressed
  <2>1. Store(n, accel) /\ UNCHANGED dialog
    BY <1>4 DEF StoredElsewhere
  <2>2. accels' = [m \in Names |-> accels'[m]] /\ menus' = accels' /\ rows' = accels'
    BY <2>1, StoreEffect
  <2> QED
    BY <2>1, <2>2 DEF ShortcutsInv, Pressed
<1>5. CASE KeysStep
  BY <1>2, <1>3, <1>4, <1>5 DEF KeysStep
<1> QED
  BY <1>1, <1>5 DEF Next, vars

-----------------------------------------------------------------------------
(* Terminals *)

Pointed == Links \cup {Nothing}
TermStates == [selected : BOOLEAN, writable : BOOLEAN, menu : BOOLEAN, under : Pointed, url : Pointed,
               copy : BOOLEAN, paste : BOOLEAN, link : BOOLEAN, apt : BOOLEAN]

(* What a terminal m offers, with c on the clipboard.                         *)
Offering(m, c) ==
    /\ m \in TermStates
    /\ m.copy = m.selected
    /\ m.paste = HoldsText(c)
    /\ m.link <=> m.menu /\ m.under # Nothing
    /\ m.link => m.url = m.under

TermInv ==
    /\ term \in [Tabs -> TermStates]
    /\ \A t \in Tabs : Offering(term[t], clipboard)

LEMMA NewOffers == ASSUME NEW c PROVE Offering(NewTerminal(c), c)
BY DEF Offering, NewTerminal, ClipboardActions, TermStates, Pointed, HoldsText

LEMMA TermStart == TerminalInit => TermInv
BY NewOffers DEF TerminalInit, TermInv, Offering

(* Every terminal hears of a new text on the clipboard.                       *)
LEMMA ClipsKeep ==
    ASSUME TermInv, NEW c, Clips(c)
    PROVE  TermInv'
<1>1. \A t \in Tabs : Offering(ClipboardActions(term[t], c), c)
  BY DEF TermInv, Offering, ClipboardActions, TermStates, HoldsText
<1>2. \A t \in Tabs : Offering(term'[t], c)
  BY <1>1, NewOffers DEF Clips
<1>3. term' \in [Tabs -> TermStates]
  BY <1>2 DEF Clips, Offering
<1> QED
  BY <1>2, <1>3 DEF TermInv, Clips

(* One terminal changes, and offers what it should.                           *)
LEMMA OneOffers ==
    ASSUME TermInv, NEW t \in Tabs, NEW m, Offering(m, clipboard),
           term' = [term EXCEPT ![t] = m], UNCHANGED clipboard
    PROVE  TermInv'
BY DEF TermInv, Offering

LEMMA TerminalOffers ==
    ASSUME TermInv, TerminalStep
    PROVE  TermInv'
<1>1. CASE UNCHANGED << term, clipboard >>
  BY <1>1 DEF TermInv
<1>2. ASSUME NEW d, NEW o, Drop(d, o) PROVE UNCHANGED << term, clipboard >>
  BY <1>2 DEF Drop
<1>3. ASSUME NEW d, DropGoesOn(d) PROVE UNCHANGED << term, clipboard >>
  BY <1>3 DEF DropGoesOn, FileListCb, UriListCb, MozUrlCb, LineCb, StringCb, DropFileList, Moves,
              Refuses, ReadsLines
<1>4. ASSUME NEW c, ClipboardChanges(c) PROVE TermInv'
  BY <1>4, ClipsKeep DEF ClipboardChanges
<1>5. ASSUME NEW t \in Tabs, SelectionChanged(t) PROVE TermInv'
  <2> DEFINE m == ClipboardActions([term[t] EXCEPT !.selected = ~term[t].selected], clipboard)
  <2>1. Offering(m, clipboard)
    BY DEF TermInv, Offering, ClipboardActions, TermStates, HoldsText
  <2>2. term' = [term EXCEPT ![t] = m]
    BY <1>5 DEF SelectionChanged
  <2>3. UNCHANGED clipboard
    BY <1>5 DEF SelectionChanged
  <2> HIDE DEF m
  <2> QED
    BY <2>1, <2>2, <2>3, OneOffers
<1>6. ASSUME NEW t \in Tabs, CopyClipboard(t) \/ CopyAllClipboard(t) \/ CopyLinkAddress(t) PROVE TermInv'
  BY <1>6, ClipsKeep DEF CopyClipboard, CopyAllClipboard, CopyLinkAddress
<1>7. ASSUME NEW t \in Tabs, SetReadOnly(t) PROVE TermInv'
  <2>1. Offering([term[t] EXCEPT !.writable = ~@], clipboard)
    BY DEF TermInv, Offering, TermStates
  <2> QED
    BY <1>7, <2>1, OneOffers DEF SetReadOnly, TermInv, TermStates
<1>8. ASSUME NEW t \in Tabs, ContextMenuGoes(t) PROVE TermInv'
  <2>1. Offering([term[t] EXCEPT !.link = FALSE, !.menu = FALSE, !.under = Nothing], clipboard)
    BY DEF TermInv, Offering, TermStates, Pointed
  <2> QED
    BY <1>8, <2>1, OneOffers DEF ContextMenuGoes, TermInv, TermStates
<1>9. ASSUME NEW t \in Tabs, OpenLink(t) \/ RunAptUpdate(t) PROVE UNCHANGED << term, clipboard >>
  BY <1>9 DEF OpenLink, RunAptUpdate
<1>10. ASSUME NEW t \in Tabs, NEW x \in Pointed, SetupContextMenu(t, x) PROVE TermInv'
  <2> DEFINE m == UrlActions([ClipboardActions(term[t], clipboard) EXCEPT
                                !.apt = term[t].writable, !.menu = TRUE, !.under = x], x)
  <2> DEFINE n == ClipboardActions(term[t], clipboard)
             l == [n EXCEPT !.apt = term[t].writable, !.menu = TRUE, !.under = x]
  <2>1. Offering(n, clipboard) /\ n \in TermStates /\ term[t] \in TermStates
    BY DEF TermInv, Offering, ClipboardActions, TermStates, HoldsText
  <2> HIDE DEF n
  <2>2. /\ l \in TermStates /\ l.copy = n.copy /\ l.paste = n.paste /\ l.selected = n.selected
        /\ l.menu = TRUE /\ l.under = x
    BY <2>1 DEF TermStates
  <2> HIDE DEF l
  <2>3. Offering(UrlActions(l, x), clipboard)
    <3> DEFINE a == UrlActions(l, x)
               is == x # Nothing
    <3>1. a = [l EXCEPT !.link = is, !.url = x] /\ is \in BOOLEAN
      BY DEF UrlActions
    <3> HIDE DEF a, is
    <3>2. /\ a \in TermStates /\ a.link = is /\ a.url = x
          /\ a.copy = l.copy /\ a.paste = l.paste /\ a.selected = l.selected /\ a.menu = l.menu
          /\ a.under = l.under
      BY <2>2, <3>1 DEF TermStates, Pointed
    <3>3. a.copy = a.selected /\ a.paste = HoldsText(clipboard)
      BY <2>1, <2>2, <3>2 DEF Offering
    <3> QED
      BY <2>2, <3>2, <3>3 DEF Offering, a, is
  <2>4. Offering(m, clipboard)
    BY <2>3 DEF l, n
  <2> QED
    BY <1>10, <2>4, OneOffers DEF SetupContextMenu
<1>11. ASSUME NEW t, NEW x, ClickLink(t, x) \/ ClickCustomLink(t, x) PROVE UNCHANGED << term, clipboard >>
  BY <1>11 DEF ClickLink, ClickCustomLink
<1> QED
  BY <1>1, <1>2, <1>3, <1>4, <1>5, <1>6, <1>7, <1>8, <1>9, <1>10, <1>11 DEF TerminalStep, Pointed

LEMMA TermMove == TermInv /\ [Next]_vars => TermInv'
<1> SUFFICES ASSUME TermInv, [Next]_vars PROVE TermInv'
  OBVIOUS
<1>1. CASE UNCHANGED terminalVars
  BY <1>1 DEF terminalVars, TermInv
<1>2. CASE TerminalsFollow
  BY <1>2, NewOffers DEF TerminalsFollow, TermInv, Offering
<1> QED
  BY <1>1, <1>2, TerminalOffers DEF Next, vars

-----------------------------------------------------------------------------
(* Drops *)

Reading == {"files", "uris", "moz", "line", "text"}

(* What has been read of a list of files, and what is left, is the list.       *)
DropOK(x) ==
    /\ DOMAIN x = {"offer", "at", "left", "got", "pasted"}
    /\ x.at \in Reading => x.offer \in Offers
    /\ x.at # "line" => x.got = << >>
    /\ x.at \in {"files", "uris"} => x.offer.sort = "files"
    /\ x.at = "moz" => x.offer.sort = "moz"
    /\ x.at = "text" => x.offer.sort = "text"
    /\ x.at = "line" =>
          /\ x.offer.sort \in {"files", "moz"}
          /\ x.left \in Seq(Lines) /\ x.got \in Seq(Lines)
          /\ x.got \o x.left = x.offer.lines
          /\ x.offer.sort = "moz" => x.got = << >>

DropInv == drops = [d \in Drops |-> drops[d]] /\ \A d \in Drops : DropOK(drops[d])

LEMMA OfferTypes ==
    ASSUME NEW o \in Offers
    PROVE  /\ o.sort \in {"files", "moz", "text"} /\ o.lines \in Seq(Lines) /\ o # Nothing
BY TerminalAssumption

LEMMA DropStart == TerminalInit => DropInv /\ DA!Init
<1> SUFFICES ASSUME TerminalInit PROVE DropInv /\ DA!Init
  OBVIOUS
<1>1. DropOK(NoDrop)
  BY DEF DropOK, NoDrop, Reading
<1>2. DropInv
  BY <1>1 DEF TerminalInit, DropInv
<1>3. DA!Init
  BY DEF TerminalInit, DA!Init, NoDrop
<1> QED
  BY <1>2, <1>3

(* One drop changes, and its change is one of DropAnswer's.                    *)
LEMMA OneDrop ==
    ASSUME DropInv, NEW d \in Drops, NEW x, DropOK(x), drops' = [drops EXCEPT ![d] = x]
    PROVE  DropInv'
BY DEF DropInv

Taken(dd) == [d \in Drops |-> dd[d].offer]
Answer(dd) == [d \in Drops |-> IF dd[d].at \in {"copied", "refused"} THEN dd[d].at ELSE "none"]
Pasted(dd) == [d \in Drops |-> dd[d].pasted]

(* A drop is pasted whole.                                                   *)
LEMMA Copied ==
    ASSUME DropInv, NEW d \in Drops, NEW x, drops' = [drops EXCEPT ![d] = x], DropOK(x),
           drops[d].at \in Reading, x.offer = drops[d].offer, x.at = "copied",
           x.pasted \in WholeOffer(drops[d].offer)
    PROVE  DropInv' /\ DA!Copy(d)
<1>1. DropInv'
  BY OneDrop
<1>2. drops[d].offer # Nothing /\ drops[d].at \notin {"copied", "refused"}
  BY OfferTypes DEF DropInv, DropOK, Reading
<1>3. /\ \A e \in Drops : e # d => drops'[e] = drops[e]
      /\ drops'[d] = x
  BY DEF DropInv
<1>8. \A e \in Drops : /\ drops'[e].offer = drops[e].offer
                       /\ e # d => drops'[e].pasted = drops[e].pasted
  BY <1>3
<1>4. Taken(drops') = Taken(drops)
  BY <1>8 DEF Taken
<1>9. drops'[d].pasted = x.pasted
  BY <1>3
<1>10. Pasted(drops') = [Pasted(drops) EXCEPT ![d] = x.pasted]
  BY <1>8, <1>9 DEF Pasted
<1>6. \A e \in Drops : /\ e # d => drops'[e].at = drops[e].at
                       /\ drops'[d].at = "copied"
  BY <1>3
<1>7. Answer(drops') = [Answer(drops) EXCEPT ![d] = "copied"]
  BY <1>6 DEF Answer
<1>5. Answer(drops)[d] = "none" /\ Taken(drops)[d] = drops[d].offer
  BY <1>2 DEF Answer, Taken
<1> QED
  BY <1>1, <1>2, <1>4, <1>5, <1>7, <1>10 DEF DA!Copy, DA!Waits, Taken, Answer, Pasted

(* A list is pasted: of what it says, some way to name each file.              *)
LEMMA ListDropped ==
    ASSUME DropInv, NEW d \in Drops, NEW lines, drops[d].at \in Reading,
           DropFileList(d, lines), PastedAs(lines) = WholeOffer(drops[d].offer)
    PROVE  DropInv' /\ DA!Copy(d)
<1>1. PICK p \in PastedAs(lines) :
         drops' = [drops EXCEPT ![d].at = "copied", ![d].left = << >>, ![d].got = << >>, ![d].pasted = p]
  BY DEF DropFileList
<1> DEFINE x == [drops[d] EXCEPT !.at = "copied", !.left = << >>, !.got = << >>, !.pasted = p]
<1>2. drops' = [drops EXCEPT ![d] = x]
  BY <1>1 DEF DropInv
<1>3. /\ DOMAIN x = {"offer", "at", "left", "got", "pasted"} /\ x.got = << >>
      /\ x.at = "copied" /\ x.offer = drops[d].offer /\ x.pasted = p
  BY DEF DropInv, DropOK
<1> HIDE DEF x
<1>4. DropOK(x)
  BY <1>3 DEF DropOK, Reading
<1> QED
  BY <1>2, <1>3, <1>4, Copied

(* A drop goes on to another question, or is refused.                         *)
LEMMA DropMoves ==
    ASSUME DropInv, NEW d \in Drops, NEW x, drops' = [drops EXCEPT ![d] = x], DropOK(x),
           drops[d].at \in Reading, x.offer = drops[d].offer, x.pasted = drops[d].pasted,
           x.at \in Reading \cup {"refused"}
    PROVE  DropInv' /\ (DA!Refuse(d) \/ UNCHANGED DA!vars)
<1>1. DropInv'
  BY OneDrop
<1>2. /\ \A e \in Drops : drops'[e].offer = drops[e].offer /\ drops'[e].pasted = drops[e].pasted
      /\ \A e \in Drops \ {d} : drops'[e] = drops[e]
      /\ drops'[d] = x
  BY DEF DropInv
<1>3. drops[d].offer # Nothing /\ drops[d].at \notin {"copied", "refused"}
  BY OfferTypes DEF DropInv, DropOK, Reading
<1>4. \A e \in Drops : /\ e # d => drops'[e].at = drops[e].at
                       /\ drops'[d].at = x.at
  BY <1>2
<1>5. Taken(drops') = Taken(drops) /\ Pasted(drops') = Pasted(drops)
  BY <1>2 DEF Taken, Pasted
<1>6. CASE x.at = "refused"
  <2>1. Answer(drops') = [Answer(drops) EXCEPT ![d] = "refused"]
    BY <1>4, <1>6 DEF Answer
  <2>2. Answer(drops)[d] = "none" /\ Taken(drops)[d] # Nothing
    BY <1>3 DEF Answer, Taken
  <2> QED
    BY <1>1, <1>5, <2>1, <2>2 DEF DA!Refuse, DA!Waits, Taken, Answer, Pasted
<1>7. CASE x.at \in Reading
  <2>1. Answer(drops') = Answer(drops)
    BY <1>4, <1>3, <1>7 DEF Answer, Reading
  <2> QED
    BY <1>1, <1>5, <2>1 DEF DA!vars, Taken, Answer, Pasted
<1> QED
  BY <1>1, <1>6, <1>7

LEMMA DropRefused ==
    ASSUME DropInv, NEW d \in Drops, drops[d].at \in Reading, Refuses(d)
    PROVE  DropInv' /\ (DA!Refuse(d) \/ UNCHANGED DA!vars)
<1> DEFINE x == [drops[d] EXCEPT !.at = "refused", !.left = << >>, !.got = << >>]
<1>1. drops' = [drops EXCEPT ![d] = x]
  BY DEF Refuses, DropInv
<1>3. /\ DOMAIN x = {"offer", "at", "left", "got", "pasted"} /\ x.got = << >>
      /\ x.offer = drops[d].offer /\ x.pasted = drops[d].pasted /\ x.at = "refused"
  BY DEF DropInv, DropOK
<1> HIDE DEF x
<1>2. DropOK(x)
  BY <1>3 DEF DropOK, Reading
<1> QED
  BY <1>1, <1>2, <1>3, DropMoves

(* Its lines are asked for.                                                  *)
LEMMA DropRead ==
    ASSUME DropInv, NEW d \in Drops, drops[d].at \in {"uris", "moz"}, ReadsLines(d)
    PROVE  DropInv' /\ (DA!Refuse(d) \/ UNCHANGED DA!vars)
<1> DEFINE x == [drops[d] EXCEPT !.at = "line", !.left = drops[d].offer.lines]
<1>1. CASE Refuses(d)
  BY <1>1, DropRefused DEF Reading
<1>2. ASSUME drops' = [drops EXCEPT ![d].at = "line", ![d].left = drops[d].offer.lines]
      PROVE  drops' = [drops EXCEPT ![d] = x]
  BY <1>2 DEF DropInv
<1>3. DropOK(drops[d]) /\ drops[d].offer \in Offers
  BY DEF DropInv, DropOK, Reading
<1>4. /\ DOMAIN x = {"offer", "at", "left", "got", "pasted"} /\ x.got = drops[d].got
      /\ x.offer = drops[d].offer /\ x.pasted = drops[d].pasted
      /\ x.at = "line" /\ x.left = drops[d].offer.lines
  BY <1>3 DEF DropOK
<1> HIDE DEF x
<1>5. DropOK(x)
  <2>1. drops[d].offer.lines \in Seq(Lines) /\ << >> \o drops[d].offer.lines = drops[d].offer.lines
    BY <1>3, OfferTypes
  <2>2. drops[d].got = << >> /\ drops[d].offer.sort \in {"files", "moz"} /\ << >> \in Seq(Lines)
    BY <1>3 DEF DropOK
  <2> QED
    BY <1>3, <1>4, <2>1, <2>2 DEF DropOK, Reading
<1> QED
  BY <1>1, <1>2, <1>4, <1>5, DropMoves DEF ReadsLines, Reading

LEMMA OfferIsWhole ==
    ASSUME NEW o \in Offers
    PROVE  /\ o.sort = "files" => WholeOffer(o) = PastedAs(o.lines)
           /\ o.sort = "moz" => WholeOffer(o) = PastedAs(UpToOne(o.lines))
           /\ o.sort = "text" => WholeOffer(o) = {o.lines}
BY DEF WholeOffer

(* What is read of a line at a time is the list.                              *)
LEMMA LineGoesOn ==
    ASSUME DropInv, NEW d \in Drops, LineCb(d)
    PROVE  DropInv' /\ (DA!Copy(d) \/ DA!Refuse(d) \/ UNCHANGED DA!vars)
<1> DEFINE lines == drops[d].got \o UpToOne(drops[d].left)
<1>1. drops[d].at = "line" /\ drops[d].at \in Reading
  BY DEF LineCb, Reading
<1>2. DropOK(drops[d]) /\ drops[d].offer \in Offers
  BY <1>1 DEF DropInv, DropOK
<1>3. /\ drops[d].left \in Seq(Lines) /\ drops[d].got \in Seq(Lines)
      /\ drops[d].offer.sort \in {"files", "moz"} /\ drops[d].got \o drops[d].left = drops[d].offer.lines
      /\ drops[d].offer.sort = "moz" => drops[d].got = << >>
  BY <1>1, <1>2 DEF DropOK
<1>4. CASE Refuses(d)
  BY <1>1, <1>4, DropRefused
<1>5. CASE (drops[d].left = << >> \/ drops[d].offer.sort = "moz") /\ DropFileList(d, lines)
  <2>1. CASE drops[d].offer.sort = "moz"
    <3>1. drops[d].got = << >> /\ drops[d].left = drops[d].offer.lines
      BY <1>3, <2>1, ConcatEmptySeq
    <3>3. UpToOne(drops[d].left) \in Seq(Lines)
      BY <1>3 DEF UpToOne
    <3>2. lines = UpToOne(drops[d].offer.lines)
      BY <3>1, <3>3
    <3> QED
      BY <1>1, <1>2, <1>5, <2>1, <3>2, ListDropped, OfferIsWhole
  <2>2. CASE drops[d].offer.sort = "files" /\ drops[d].left = << >>
    <3>1. lines = drops[d].offer.lines
      BY <1>3, <2>2 DEF UpToOne
    <3> QED
      BY <1>1, <1>2, <1>5, <2>2, <3>1, ListDropped, OfferIsWhole
  <2> QED
    BY <1>3, <1>5, <2>1, <2>2
<1>6. CASE /\ drops[d].left # << >> /\ drops[d].offer.sort # "moz"
           /\ drops' = [drops EXCEPT ![d].left = Tail(@), ![d].got = lines]
  <2> DEFINE x == [drops[d] EXCEPT !.left = Tail(drops[d].left), !.got = lines]
  <2>1. drops' = [drops EXCEPT ![d] = x]
    BY <1>6 DEF DropInv
  <2>2. /\ DOMAIN x = {"offer", "at", "left", "got", "pasted"} /\ x.got = lines
        /\ x.offer = drops[d].offer /\ x.pasted = drops[d].pasted
        /\ x.at = "line" /\ x.left = Tail(drops[d].left)
    BY <1>1, <1>2 DEF DropOK
  <2> HIDE DEF x
  <2>3. lines = drops[d].got \o << Head(drops[d].left) >>
    BY <1>6 DEF UpToOne
  <2> DEFINE h == << Head(drops[d].left) >>
             t == Tail(drops[d].left)
  <2>6. h \in Seq(Lines) /\ t \in Seq(Lines) /\ h \o t = drops[d].left
    BY <1>3, <1>6
  <2> HIDE DEF h, t
  <2>7. (drops[d].got \o h) \o t = drops[d].got \o (h \o t)
    <3>1. drops[d].got \in Seq(Lines) /\ h \in Seq(Lines) /\ t \in Seq(Lines)
      BY <1>3, <2>6
    <3> DEFINE g == drops[d].got
    <3> HIDE DEF g
    <3>2. g \in Seq(Lines) => (g \o h) \o t = g \o (h \o t)
      BY ONLY <3>1, ConcatAssociative
    <3> QED
      BY <3>1, <3>2 DEF g
  <2>8. lines = drops[d].got \o h /\ lines \in Seq(Lines)
    BY <1>3, <2>3, <2>6 DEF h
  <2>4. lines \in Seq(Lines) /\ t \in Seq(Lines) /\ lines \o t = drops[d].offer.lines
    BY <1>3, <2>6, <2>7, <2>8
  <2> USE DEF h, t
  <2>5. DropOK(x)
    BY <1>2, <1>3, <1>6, <2>2, <2>4 DEF DropOK, Reading
  <2> QED
    BY <1>1, <2>1, <2>2, <2>5, DropMoves
<1> QED
  BY <1>4, <1>5, <1>6 DEF LineCb

(* Each answer from the other side is one of these.                           *)
LEMMA DropAnswered ==
    ASSUME DropInv, NEW d \in Drops, DropGoesOn(d)
    PROVE  DropInv' /\ (DA!Copy(d) \/ DA!Refuse(d) \/ UNCHANGED DA!vars)
<1>1. CASE FileListCb(d)
  <2>1. drops[d].at = "files" /\ drops[d].at \in Reading
    BY <1>1 DEF FileListCb, Reading
  <2>2. DropOK(drops[d]) /\ drops[d].offer \in Offers /\ drops[d].offer.sort = "files"
    BY <2>1 DEF DropInv, DropOK
  <2>3. CASE DropFileList(d, drops[d].offer.lines)
    BY <2>1, <2>2, <2>3, ListDropped, OfferIsWhole
  <2>4. CASE Moves(d, "uris")
    <3> DEFINE x == [drops[d] EXCEPT !.at = "uris"]
    <3>1. drops' = [drops EXCEPT ![d] = x]
      BY <2>4 DEF DropInv, Moves
    <3>2. /\ DOMAIN x = {"offer", "at", "left", "got", "pasted"} /\ x.got = drops[d].got
          /\ x.offer = drops[d].offer /\ x.pasted = drops[d].pasted /\ x.at = "uris"
      BY <2>2 DEF DropOK
    <3> HIDE DEF x
    <3>3. DropOK(x)
      BY <2>1, <2>2, <3>2 DEF DropOK, Reading
    <3> QED
      BY <2>1, <3>1, <3>2, <3>3, DropMoves DEF Reading
  <2> QED
    BY <1>1, <2>1, <2>3, <2>4, DropRefused DEF FileListCb
<1>2. CASE UriListCb(d) \/ MozUrlCb(d)
  BY <1>2, DropRead DEF UriListCb, MozUrlCb
<1>3. CASE LineCb(d)
  BY <1>3, LineGoesOn
<1>4. CASE StringCb(d)
  <2>1. drops[d].at = "text" /\ drops[d].at \in Reading
    BY <1>4 DEF StringCb, Reading
  <2>2. DropOK(drops[d]) /\ drops[d].offer \in Offers /\ drops[d].offer.sort = "text"
    BY <2>1 DEF DropInv, DropOK
  <2>3. CASE drops' = [drops EXCEPT ![d].at = "copied", ![d].pasted = drops[d].offer.lines]
    <3> DEFINE x == [drops[d] EXCEPT !.at = "copied", !.pasted = drops[d].offer.lines]
    <3>1. drops' = [drops EXCEPT ![d] = x]
      BY <2>3 DEF DropInv
    <3>2. /\ DOMAIN x = {"offer", "at", "left", "got", "pasted"} /\ x.got = drops[d].got
          /\ x.offer = drops[d].offer /\ x.pasted = drops[d].offer.lines /\ x.at = "copied"
      BY <2>2 DEF DropOK
    <3> HIDE DEF x
    <3>3. DropOK(x)
      BY <2>1, <2>2, <3>2 DEF DropOK, Reading
    <3> QED
      BY <2>1, <2>2, <3>1, <3>2, <3>3, OfferIsWhole, Copied
  <2> QED
    BY <1>4, <2>1, <2>3, DropRefused DEF StringCb
<1> QED
  BY <1>1, <1>2, <1>3, <1>4 DEF DropGoesOn

(* A drop is taken on.                                                       *)
LEMMA DropTaken ==
    ASSUME DropInv, NEW d \in Drops, NEW o \in Offers, Drop(d, o)
    PROVE  DropInv' /\ DA!TakeOn(d)
<1> DEFINE x == [drops[d] EXCEPT !.offer = o, !.at = o.sort]
<1>1. drops' = [drops EXCEPT ![d] = x] /\ drops[d] = NoDrop
  BY DEF DropInv, Drop
<1>2. DOMAIN drops[d] = {"offer", "at", "left", "got", "pasted"}
  BY DEF DropInv, DropOK
<1>3. /\ DOMAIN x = {"offer", "at", "left", "got", "pasted"} /\ x.got = << >>
      /\ x.offer = o /\ x.pasted = drops[d].pasted /\ x.at = o.sort
  BY <1>1, <1>2 DEF NoDrop
<1>4. drops[d].offer = Nothing /\ drops[d].at = "idle"
  BY <1>1 DEF NoDrop
<1> HIDE DEF x
<1>5. DropOK(x)
  BY <1>3, OfferTypes DEF DropOK, Reading
<1>6. DropInv'
  BY <1>1, <1>5, OneDrop
<1>7. /\ \A e \in Drops : e # d => drops'[e] = drops[e]
      /\ drops'[d] = x
  BY <1>1 DEF DropInv
<1>8. Taken(drops') = [Taken(drops) EXCEPT ![d] = o] /\ Pasted(drops') = Pasted(drops)
  BY <1>3, <1>7 DEF Taken, Pasted
<1>9. x.at \notin {"copied", "refused"}
  BY <1>3, OfferTypes
<1>10. Answer(drops') = Answer(drops)
  BY <1>4, <1>7, <1>9 DEF Answer
<1>11. Taken(drops)[d] = Nothing
  BY <1>4 DEF Taken
<1> QED
  BY <1>6, <1>8, <1>10, <1>11 DEF DA!TakeOn, Taken, Answer, Pasted

LEMMA DropsMove == DropInv /\ [Next]_vars => DropInv' /\ [DA!Next]_(DA!vars)
<1> SUFFICES ASSUME DropInv, [Next]_vars PROVE DropInv' /\ [DA!Next]_(DA!vars)
  OBVIOUS
<1>1. CASE UNCHANGED drops
  BY <1>1 DEF DropInv, DA!vars
<1>2. CASE TerminalStep
  <2>1. ASSUME NEW d \in Drops, NEW o \in Offers, Drop(d, o)
        PROVE  DropInv' /\ DA!Next
    BY <2>1, DropTaken DEF DA!Next
  <2>2. ASSUME NEW d \in Drops, DropGoesOn(d)
        PROVE  DropInv' /\ [DA!Next]_(DA!vars)
    BY <2>2, DropAnswered DEF DA!Next
  <2>3. ASSUME NEW t, NEW x, \/ SelectionChanged(t) \/ CopyClipboard(t) \/ CopyAllClipboard(t) \/ SetReadOnly(t)
                             \/ ContextMenuGoes(t) \/ OpenLink(t) \/ CopyLinkAddress(t) \/ RunAptUpdate(t)
                             \/ SetupContextMenu(t, x) \/ ClickLink(t, x) \/ ClickCustomLink(t, x)
                             \/ ClipboardChanges(x)
        PROVE  UNCHANGED drops
    BY <2>3 DEF SelectionChanged, CopyClipboard, CopyAllClipboard, SetReadOnly, ContextMenuGoes, OpenLink,
                CopyLinkAddress, RunAptUpdate, SetupContextMenu, ClickLink, ClickCustomLink, ClipboardChanges, Clips
  <2> QED
    BY <1>1, <1>2, <2>1, <2>2, <2>3 DEF TerminalStep
<1> QED
  BY <1>1, <1>2 DEF Next, vars, terminalVars, TerminalsFollow

-----------------------------------------------------------------------------
(* Profiles *)

LinkLists == Seq(Contents)
ProfileObjects == [uuid : Uuids, links : LinkLists]
Views == [shows : Nat, rows : Seq(Nat)]
Editors == [profile : Nat, of : Nat, at : Nat, unsaved : BOOLEAN]
Toasts == [profile : Nat, index : Nat, content : Contents]
TabStates == [profile : Nat, links : LinkLists]

Typed(all) == DOMAIN all \subseteq Nat \ {0} /\ all \in [DOMAIN all -> ProfileObjects]

(* Who holds a profile object holds one that is there, and a view has a row   *)
(* for each link of its object.                                             *)
ViewFits(v, all) ==
    /\ v \in Views /\ ToSet(v.rows) \subseteq DOMAIN all
    /\ v.shows = 0 => v = None
    /\ v.shows # 0 => v.shows \in DOMAIN all /\ Len(v.rows) = Len(all[v.shows].links)
EditorFits(e, all) ==
    /\ e \in Editors
    /\ e = NoEditor \/ ({e.profile, e.of} \subseteq DOMAIN all /\ e.at <= Len(all[e.of].links))
ToastsFit(ts, all) == ts \subseteq Toasts /\ \A x \in ts : x.profile \in DOMAIN all
TabsFit(tt, all) == tt \in [Tabs -> TabStates] /\ \A t \in Tabs : tt[t] = NoTab \/ tt[t].profile \in DOMAIN all

Fits(all, list, tt, p, g, e, ts) ==
    /\ ToSet(list) \subseteq DOMAIN all
    /\ TabsFit(tt, all) /\ ViewFits(p, all) /\ ViewFits(g, all) /\ EditorFits(e, all) /\ ToastsFit(ts, all)

(* The list of profiles has an object for each, and the default is in it.      *)
ListFits(ids, list, dflt, all) ==
    /\ ids \in Seq(Uuids) /\ list \in Seq(Nat)
    /\ Len(list) = Len(ids) /\ IsInjective(ids) /\ dflt \in ToSet(ids)
    /\ \A i \in 1 .. Len(ids) : list[i] \in DOMAIN all /\ all[list[i]].uuid = ids[i]

(* Every object of a profile has the links that are stored, but for those that *)
(* the user gave up.                                                        *)
HaveLinks(all, st, gone) ==
    \A o \in DOMAIN all : ToSet(st[all[o].uuid]) \ ToSet(all[o].links) \subseteq gone[all[o].uuid]

SettingsTyped ==
    /\ used \subseteq Uuids /\ ToSet(uuids) \subseteq used
    /\ stored \in [Uuids -> LinkLists] /\ givenUp \in [Uuids -> SUBSET Contents]
    /\ \A u \in Uuids \ used : stored[u] = << >>

ProfilesInv ==
    /\ SettingsTyped
    /\ Typed(objects) /\ \A o \in DOMAIN objects : objects[o].uuid \in used
    /\ ListFits(uuids, current, default, objects)
    /\ Fits(objects, current, tabs, prefs, page, editor, toasts)
    /\ prefs.shows # 0 => objects[prefs.shows].uuid = default
    /\ HaveLinks(objects, stored, givenUp)

(* What a step does: no link is lost, a save reaches all, objects and those who *)
(* hold them stay, and the main page shows the default.                      *)
NoneLost == \A u \in Uuids : ToSet(stored[u]) \ ToSet(stored'[u]) \subseteq givenUp'[u]
ReachesAll ==
    \A u \in Uuids : stored'[u] # stored[u] =>
        /\ \A o \in DOMAIN objects' : objects'[o].uuid = u => objects'[o].links = stored'[u]
        /\ \A t \in Tabs : (tabs'[t] # NoTab /\ objects'[tabs'[t].profile].uuid = u)
                              => tabs'[t].links = stored'[u]
SameObjects == \A o \in DOMAIN objects' \cap DOMAIN objects : objects'[o].uuid = objects[o].uuid
TabsStay == \A t \in Tabs : tabs[t] # NoTab /\ tabs'[t] # NoTab => tabs'[t].profile = tabs[t].profile
PageShows ==
    \/ prefs'.shows = 0
    \/ default' = default /\ prefs'.shows = (IF prefs.shows = 0 THEN D ELSE prefs.shows)
    \/ default' # default /\ prefs # None /\ prefs'.shows = Default(uuids', default', current')

ProfilesAct == NoneLost /\ ReachesAll /\ SameObjects /\ TabsStay /\ PageShows

(* The default is the object of the uuid that is the default.                 *)
LEMMA DefaultThere ==
    ASSUME NEW ids, NEW list, NEW dflt, NEW all, ListFits(ids, list, dflt, all)
    PROVE  /\ Default(ids, dflt, list) \in DOMAIN all
           /\ all[Default(ids, dflt, list)].uuid = dflt
<1>1. \E i \in 1 .. Len(ids) : ids[i] = dflt
  BY LenProperties DEF ListFits, ToSet
<1>2. Contains(ids, dflt)
  BY <1>1 DEF Contains
<1>3. FirstPlace(ids, dflt) \in 1 .. Len(ids) /\ ids[FirstPlace(ids, dflt)] = dflt
  BY <1>1, PlaceThere DEF ListFits
<1>4. Default(ids, dflt, list) = list[FirstPlace(ids, dflt)]
  BY <1>2 DEF Default, FirstPlace
<1> QED
  BY <1>3, <1>4 DEF ListFits

(* Objects that somebody holds are kept.                                     *)
Part(some, all) == DOMAIN some \subseteq DOMAIN all /\ some = [o \in DOMAIN some |-> all[o]]

LEMMA KeepFits ==
    ASSUME NEW all, Typed(all), Fits(all, current', tabs', prefs', page', editor', toasts'), Keep(all)
    PROVE  /\ Typed(objects') /\ Part(objects', all)
           /\ Fits(objects', current', tabs', prefs', page', editor', toasts')
<1> DEFINE H == Held(current', tabs', prefs', page', editor', toasts')
<1>1. DOMAIN objects' = DOMAIN all \cap H /\ objects' = [o \in DOMAIN all \cap H |-> all[o]]
  BY DEF Keep, Restrict
<1>2. /\ ToSet(current') \subseteq H /\ \A t \in Tabs : tabs'[t].profile \in H
      /\ {prefs'.shows, page'.shows, editor'.profile, editor'.of} \subseteq H
      /\ ToSet(prefs'.rows) \subseteq H /\ ToSet(page'.rows) \subseteq H
      /\ \A x \in toasts' : x.profile \in H
  BY DEF Held
<1> HIDE DEF H
<1>3. Part(objects', all)
  BY <1>1 DEF Part
<1>4. Typed(objects')
  BY <1>1 DEF Typed
<1>5. \A o \in DOMAIN objects' : objects'[o] = all[o]
  BY <1>1
<1>6. ViewFits(prefs', objects') /\ ViewFits(page', objects')
  BY <1>1, <1>2, <1>5 DEF Fits, ViewFits
<1>7. EditorFits(editor', objects') /\ ToastsFit(toasts', objects') /\ TabsFit(tabs', objects')
  BY <1>1, <1>2 DEF Fits, EditorFits, ToastsFit, TabsFit
<1>8. ToSet(current') \subseteq DOMAIN objects'
  BY <1>1, <1>2 DEF Fits
<1> QED
  BY <1>3, <1>4, <1>6, <1>7, <1>8 DEF Fits

(* What is left to say of a step that leaves the list of profiles alone.       *)
LEMMA Settled ==
    ASSUME ProfilesInv, NEW all, Typed(all),
           UNCHANGED << uuids, default, used, current >>,
           SettingsTyped', NoneLost, ReachesAll, TabsStay, HaveLinks(all, stored', givenUp'),
           DOMAIN all = DOMAIN objects, \A o \in DOMAIN all : all[o].uuid = objects[o].uuid,
           Typed(objects'), Part(objects', all),
           Fits(objects', current', tabs', prefs', page', editor', toasts'),
           prefs'.shows = 0 \/ prefs'.shows = (IF prefs.shows = 0 THEN D ELSE prefs.shows)
    PROVE  ProfilesInv' /\ ProfilesAct
<1>1. \A o \in DOMAIN objects' : objects'[o] = all[o] /\ o \in DOMAIN objects
  BY DEF Part
<1>2. \A o \in DOMAIN objects' : objects'[o].uuid = objects[o].uuid
  BY <1>1
<1>3. ListFits(uuids', current', default', objects')
  <2>1. ToSet(current') \subseteq DOMAIN objects'
    BY DEF Fits
  <2>2. \A i \in 1 .. Len(uuids) : current[i] \in DOMAIN objects'
    BY <2>1, LenProperties DEF ProfilesInv, ListFits, ToSet
  <2> QED
    BY <1>2, <2>2 DEF ProfilesInv, ListFits
<1>4. HaveLinks(objects', stored', givenUp')
  BY <1>1 DEF HaveLinks
<1>5. prefs'.shows # 0 => objects'[prefs'.shows].uuid = default'
  <2>1. objects[D].uuid = default
    BY DefaultThere DEF ProfilesInv, D
  <2>2. prefs'.shows # 0 => prefs'.shows \in DOMAIN objects'
    BY DEF Fits, ViewFits
  <2> QED
    BY <1>2, <2>1, <2>2 DEF ProfilesInv
<1>6. \A o \in DOMAIN objects' : objects'[o].uuid \in used'
  BY <1>1, <1>2 DEF ProfilesInv
<1>7. ProfilesInv'
  BY <1>3, <1>4, <1>5, <1>6 DEF ProfilesInv
<1>8. SameObjects
  BY <1>2 DEF SameObjects
<1>9. PageShows
  BY DEF PageShows
<1> QED
  BY <1>7, <1>8, <1>9 DEF ProfilesAct

(* ... and stores nothing, too.                                              *)
LEMMA Unsaved ==
    ASSUME ProfilesInv, NEW all, Typed(all),
           UNCHANGED << uuids, default, used, current, stored >>,
           givenUp' \in [Uuids -> SUBSET Contents], TabsStay, HaveLinks(all, stored, givenUp'),
           DOMAIN all = DOMAIN objects, \A o \in DOMAIN all : all[o].uuid = objects[o].uuid,
           Typed(objects'), Part(objects', all),
           Fits(objects', current', tabs', prefs', page', editor', toasts'),
           prefs'.shows = 0 \/ prefs'.shows = (IF prefs.shows = 0 THEN D ELSE prefs.shows)
    PROVE  ProfilesInv' /\ ProfilesAct
<1>1. SettingsTyped'
  BY DEF ProfilesInv, SettingsTyped
<1>2. NoneLost /\ ReachesAll
  BY DEF NoneLost, ReachesAll
<1> QED
  BY <1>1, <1>2, Settled

LEMMA ViewIsFit ==
    ASSUME NEW all, Typed(all), NEW o \in DOMAIN all, NEW d \in DOMAIN all
    PROVE  ViewFits(View(o, d, all), all) /\ View(o, d, all).shows = o /\ View(o, d, all) # None
<1> DEFINE r == [k \in DOMAIN all[o].links |-> d]
<1>1. all[o].links \in LinkLists /\ o \in Nat \ {0} /\ d \in Nat
  BY DEF Typed, ProfileObjects
<1>2. DOMAIN all[o].links = 1 .. Len(all[o].links) /\ Len(all[o].links) \in Nat
  BY <1>1, LenProperties DEF LinkLists
<1>3. r \in Seq(Nat) /\ Len(r) = Len(all[o].links)
  BY <1>1, <1>2
<1>4. ToSet(r) \subseteq {d}
  BY DEF ToSet
<1> HIDE DEF r
<1>5. View(o, d, all) = [shows |-> o, rows |-> r]
  BY DEF View, RowsOf, r
<1> QED
  BY <1>1, <1>3, <1>4, <1>5 DEF ViewFits, Views, None

(* A save of the list of o, once it is as in all.                             *)
LEMMA Saved ==
    ASSUME ProfilesInv, NEW o \in DOMAIN objects, NEW all, Typed(all),
           DOMAIN all = DOMAIN objects, \A x \in DOMAIN all : all[x].uuid = objects[x].uuid,
           NEW v, NEW g, NEW e, ViewFits(v, all), ViewFits(g, all), EditorFits(e, all),
           ToastsFit(toasts', all), v.shows \in {0, prefs.shows},
           UNCHANGED << uuids, default, used, current >>,
           givenUp' \in [Uuids -> SUBSET Contents], HaveLinks(all, stored, givenUp'),
           Save(o, all, v, g, e)
    PROVE  ProfilesInv' /\ ProfilesAct
<1> DEFINE u == all[o].uuid
           new == all[o].links
           reads == { x \in DOMAIN all : all[x].uuid = u /\ Differs(all[x].links, new) }
           read == [x \in DOMAIN all |-> IF x \in reads THEN [all[x] EXCEPT !.links = new] ELSE all[x]]
           Fresh(view) == IF view.shows \in reads THEN View(view.shows, D, read) ELSE view
<1>1. /\ stored' = [stored EXCEPT ![u] = new]
      /\ \/ /\ tabs' = [t \in Tabs |-> Matches(all, tabs[t], u)]
            /\ prefs' = Fresh(v) /\ page' = Fresh(g)
            /\ editor' = IF e.of \in reads THEN [e EXCEPT !.at = 0] ELSE e
            /\ Keep(read)
         \/ /\ stored[u] = new
            /\ tabs' = tabs /\ prefs' = v /\ page' = g /\ editor' = e
            /\ Keep(all)
  BY DEF Save
<1>2. /\ u \in used /\ u \in Uuids /\ new \in LinkLists
      /\ \A x \in DOMAIN all : all[x] \in ProfileObjects
  BY DEF ProfilesInv, SettingsTyped, Typed, ProfileObjects
<1>3. /\ \A x \in DOMAIN all : read[x] \in ProfileObjects /\ read[x].uuid = all[x].uuid
      /\ \A x \in DOMAIN all : all[x].uuid = u => read[x].links = new
      /\ \A x \in DOMAIN all \ reads : read[x] = all[x]
      /\ DOMAIN read = DOMAIN all /\ read = [x \in DOMAIN all |-> read[x]]
  BY <1>2 DEF ProfileObjects, Differs
<1>4. D \in DOMAIN all
  BY DefaultThere DEF D, ProfilesInv
<1>5. reads \subseteq DOMAIN all
  OBVIOUS
<1>6. stored' \in [Uuids -> LinkLists] /\ stored'[u] = new /\ \A w \in Uuids : w # u => stored'[w] = stored[w]
  BY <1>1, <1>2 DEF ProfilesInv, SettingsTyped
<1> HIDE DEF read, reads, new
<1>7. Typed(read)
  BY <1>3 DEF Typed
<1>8. SettingsTyped'
  BY <1>2, <1>6 DEF ProfilesInv, SettingsTyped
<1>9. NoneLost
  BY <1>2, <1>6 DEF NoneLost, HaveLinks, new
<1>10. ToSet(current') \subseteq DOMAIN all
  BY DEF ProfilesInv, Fits
<1>11. TabsFit(tabs, objects)
  BY DEF ProfilesInv, Fits
<1>12. CASE /\ tabs' = [t \in Tabs |-> Matches(all, tabs[t], u)]
            /\ prefs' = Fresh(v) /\ page' = Fresh(g)
            /\ editor' = IF e.of \in reads THEN [e EXCEPT !.at = 0] ELSE e
            /\ Keep(read)
  <2>1. ASSUME NEW view, ViewFits(view, all)
        PROVE  ViewFits(Fresh(view), read) /\ Fresh(view).shows = view.shows
    <3>1. CASE view.shows \in reads
      BY <1>3, <1>4, <1>5, <1>7, <3>1, ViewIsFit
    <3>2. CASE view.shows \notin reads
      BY <1>3, <2>1, <3>2 DEF ViewFits
    <3> QED
      BY <3>1, <3>2
  <2>2. EditorFits(editor', read)
    <3>1. e \in Editors /\ NoEditor.of = 0 /\ 0 \notin reads
      BY <1>5 DEF EditorFits, NoEditor, Typed
    <3>2. CASE e.of \in reads
      <4>1. e # NoEditor /\ {e.profile, e.of} \subseteq DOMAIN all
        BY <3>1, <3>2 DEF EditorFits
      <4>2. /\ editor' \in Editors /\ editor'.profile = e.profile /\ editor'.of = e.of
        BY <1>12, <3>1, <3>2 DEF Editors
      <4>3. editor'.at = 0 /\ Len(read[e.of].links) \in Nat
        BY <1>2, <1>3, <1>12, <3>1, <3>2, <4>1, LenProperties DEF Editors, ProfileObjects, LinkLists
      <4> QED
        BY <1>3, <4>1, <4>2, <4>3 DEF EditorFits
    <3>3. CASE e.of \notin reads
      BY <1>3, <1>12, <3>3 DEF EditorFits
    <3> QED
      BY <3>2, <3>3
  <2>3. ToastsFit(toasts', read)
    BY <1>3 DEF ToastsFit
  <2>4. \A t \in Tabs : /\ tabs'[t] \in TabStates
                        /\ tabs'[t].profile = tabs[t].profile
                        /\ tabs[t] = NoTab => tabs'[t] = NoTab
                        /\ tabs[t] # NoTab /\ all[tabs[t].profile].uuid = u => tabs'[t].links = new
    <3> SUFFICES ASSUME NEW t \in Tabs
                 PROVE  /\ tabs'[t] \in TabStates
                        /\ tabs'[t].profile = tabs[t].profile
                        /\ tabs[t] = NoTab => tabs'[t] = NoTab
                        /\ tabs[t] # NoTab /\ all[tabs[t].profile].uuid = u => tabs'[t].links = new
      OBVIOUS
    <3>1. tabs'[t] = Matches(all, tabs[t], u)
      BY <1>12
    <3>2. tabs[t] \in TabStates /\ (tabs[t] = NoTab \/ tabs[t].profile \in DOMAIN objects)
      BY <1>11 DEF TabsFit
    <3>3. tabs[t] # NoTab => tabs[t].profile # 0
      BY <3>2 DEF Typed
    <3>4. NoTab.profile = 0
      BY DEF NoTab
    <3>5. CASE tabs[t].profile # 0 /\ all[tabs[t].profile].uuid = u
      <4>1. tabs'[t] = [tabs[t] EXCEPT !.links = new]
        BY <1>6, <3>1, <3>5 DEF Matches
      <4> QED
        BY <1>2, <3>2, <3>4, <3>5, <4>1 DEF TabStates
    <3>6. CASE ~(tabs[t].profile # 0 /\ all[tabs[t].profile].uuid = u)
      <4>1. tabs'[t] = tabs[t]
        BY <3>1, <3>6 DEF Matches
      <4> QED
        BY <3>2, <3>3, <3>6, <4>1
    <3> QED
      BY <3>5, <3>6
  <2>5. TabsFit(tabs', read) /\ TabsStay
    <3>1. tabs' \in [Tabs -> TabStates]
      BY <1>12, <2>4
    <3> QED
      BY <1>3, <1>11, <2>4, <3>1 DEF TabsFit, TabsStay
  <2>6. Fits(read, current', tabs', prefs', page', editor', toasts')
    BY <1>3, <1>10, <1>12, <2>1, <2>2, <2>3, <2>5 DEF Fits
  <2>7. /\ Typed(objects') /\ Part(objects', read)
        /\ Fits(objects', current', tabs', prefs', page', editor', toasts')
    BY <1>7, <1>12, <2>6, KeepFits
  <2>8. HaveLinks(read, stored', givenUp')
    <3> SUFFICES ASSUME NEW x \in DOMAIN read
                 PROVE  ToSet(stored'[read[x].uuid]) \ ToSet(read[x].links) \subseteq givenUp'[read[x].uuid]
      BY DEF HaveLinks
    <3>1. CASE all[x].uuid = u
      BY <1>3, <1>6, <3>1
    <3>2. CASE all[x].uuid # u
      <4>1. read[x] = all[x] /\ stored'[all[x].uuid] = stored[all[x].uuid]
        BY <1>2, <1>3, <1>6, <3>2 DEF reads, ProfileObjects
      <4> QED
        BY <1>3, <4>1 DEF HaveLinks
    <3> QED
      BY <3>1, <3>2
  <2>9. ReachesAll
    <3>1. \A x \in DOMAIN objects' : x \in DOMAIN read /\ objects'[x] = read[x]
      BY <2>7 DEF Part
    <3>2. \A x \in DOMAIN objects' : objects'[x].uuid = u => objects'[x].links = new
      BY <1>3, <3>1
    <3>3. ASSUME NEW t \in Tabs, tabs'[t] # NoTab, objects'[tabs'[t].profile].uuid = u
          PROVE  tabs'[t].links = new
      <4>1. tabs[t] # NoTab
        BY <2>4, <3>3
      <4>2. tabs'[t].profile \in DOMAIN objects'
        BY <2>7, <3>3 DEF Fits, TabsFit
      <4>3. tabs'[t].profile = tabs[t].profile /\ tabs[t].profile \in DOMAIN read
        BY <2>4, <3>1, <4>2
      <4>4. objects'[tabs'[t].profile].uuid = all[tabs[t].profile].uuid
        BY <1>3, <3>1, <4>2, <4>3
      <4> QED
        BY <2>4, <3>3, <4>1, <4>4
    <3>4. \A w \in Uuids : stored'[w] # stored[w] => w = u
      BY <1>6
    <3> QED
      BY <1>6, <3>2, <3>3, <3>4 DEF ReachesAll
  <2>10. prefs'.shows = 0 \/ prefs'.shows = (IF prefs.shows = 0 THEN D ELSE prefs.shows)
    BY <1>12, <2>1
  <2> QED
    BY <1>3, <1>7, <1>8, <1>9, <2>5, <2>7, <2>8, <2>9, <2>10, Settled
<1>13. CASE /\ stored[u] = new
            /\ tabs' = tabs /\ prefs' = v /\ page' = g /\ editor' = e
            /\ Keep(all)
  <2>1. UNCHANGED stored
    <3>1. \A w \in Uuids : stored'[w] = stored[w]
      BY <1>6, <1>13
    <3> QED
      BY <1>6, <3>1 DEF ProfilesInv, SettingsTyped
  <2>2. TabsFit(tabs', all) /\ TabsStay
    BY <1>11, <1>13 DEF TabsFit, TabsStay
  <2>3. Fits(all, current', tabs', prefs', page', editor', toasts')
    BY <1>10, <1>13, <2>2 DEF Fits
  <2>4. /\ Typed(objects') /\ Part(objects', all)
        /\ Fits(objects', current', tabs', prefs', page', editor', toasts')
    BY <1>13, <2>3, KeepFits
  <2>5. prefs'.shows = 0 \/ prefs'.shows = (IF prefs.shows = 0 THEN D ELSE prefs.shows)
    BY <1>13
  <2> QED
    BY <2>1, <2>2, <2>4, <2>5, Unsaved
<1> QED
  BY <1>1, <1>12, <1>13

(* The objects that a new list of profiles is made of are new.                *)
LEMMA RemadeFacts ==
    ASSUME ProfilesInv, NEW ids \in Seq(Uuids), Remade(ids), stored' \in [Uuids -> LinkLists]
    PROVE  /\ uuids' = ids /\ current' \in Seq(Nat) /\ Len(current') = Len(ids)
           /\ ToSet(current') \cap DOMAIN objects = {}
           /\ ToSet(current') \subseteq Nat \ {0}
           /\ DOMAIN Made = ToSet(current')
           /\ \A i \in 1 .. Len(ids) : Made[current'[i]].uuid = ids[i]
           /\ \A o \in DOMAIN Made :
                 /\ Made[o] \in ProfileObjects /\ Made[o].uuid \in ToSet(ids)
                 /\ Made[o].links = stored'[Made[o].uuid]
<1> DEFINE free == Objects \ DOMAIN objects
           n == Len(ids)
<1>1. /\ Cardinality(free) >= Len(ids) /\ uuids' = ids
      /\ current' = CHOOSE list \in Injection(DOMAIN ids, free) : TRUE
  BY DEF Remade
<1>2. n \in Nat /\ DOMAIN ids = 1 .. n
  BY LenProperties
<1>3. IsFiniteSet(free) /\ free \subseteq Nat \ {0}
  <2>1. IsFiniteSet(Objects) /\ Objects \subseteq Nat \ {0}
    BY ProfilesAssumption, FS_Interval DEF Objects
  <2> QED
    BY <2>1, FS_Subset
<1>4. Injection(1 .. n, free) # {}
  BY <1>1, <1>2, <1>3, InjectionThere
<1>5. current' \in Injection(1 .. n, free)
  BY <1>1, <1>2, <1>4
<1>6. current' \in [1 .. n -> free] /\ IsInjective(current')
  BY <1>5 DEF Injection
<1> HIDE DEF n, free
<1>7. current' \in Seq(Nat) /\ Len(current') = n /\ DOMAIN current' = 1 .. n
  <2>1. \A x \in free : x \in Nat
    BY <1>3
  <2>2. current' \in [1 .. n -> Nat]
    BY <1>6, <2>1
  <2> QED
    BY <1>2, <2>2
<1>8. \A i \in 1 .. n : current'[i] \in free
  BY <1>6
<1>9. ToSet(current') \subseteq free
  BY <1>7, <1>8 DEF ToSet
<1>10. \A i \in 1 .. n : FirstPlace(current', current'[i]) = i
  <2> SUFFICES ASSUME NEW i \in 1 .. n PROVE FirstPlace(current', current'[i]) = i
    OBVIOUS
  <2> DEFINE k == FirstPlace(current', current'[i])
  <2>1. k \in 1 .. n /\ current'[k] = current'[i]
    BY <1>7, PlaceThere
  <2> QED
    BY <1>6, <1>7, <2>1 DEF IsInjective
<1>11. DOMAIN Made = ToSet(current')
  BY DEF Made
<1>12. \A i \in 1 .. n : Made[current'[i]] = [uuid |-> ids[i], links |-> stored'[ids[i]]]
  <2> SUFFICES ASSUME NEW i \in 1 .. n
               PROVE  Made[current'[i]] = [uuid |-> ids[i], links |-> stored'[ids[i]]]
    OBVIOUS
  <2>1. current'[i] \in ToSet(current')
    BY <1>7 DEF ToSet
  <2>2. Made[current'[i]] = LET u == uuids'[FirstPlace(current', current'[i])]
                            IN  [uuid |-> u, links |-> stored'[u]]
    BY <2>1 DEF Made, FirstPlace
  <2> QED
    BY <1>1, <1>10, <2>2
<1>13. \A i \in 1 .. n : ids[i] \in Uuids /\ ids[i] \in ToSet(ids)
  BY <1>2, ElementOfSeq DEF ToSet
<1>14. ASSUME NEW o \in DOMAIN Made
       PROVE  /\ Made[o] \in ProfileObjects /\ Made[o].uuid \in ToSet(ids)
              /\ Made[o].links = stored'[Made[o].uuid]
  <2>1. PICK i \in 1 .. n : o = current'[i]
    BY <1>7, <1>11 DEF ToSet
  <2>2. Made[o] = [uuid |-> ids[i], links |-> stored'[ids[i]]]
    BY <1>12, <2>1
  <2>3. ids[i] \in Uuids /\ stored'[ids[i]] \in LinkLists /\ ids[i] \in ToSet(ids)
    BY <1>13
  <2> QED
    BY <2>2, <2>3 DEF ProfileObjects
<1>15. ASSUME NEW i \in 1 .. n PROVE Made[current'[i]].uuid = ids[i]
  <2>1. Made[current'[i]] = [uuid |-> ids[i], links |-> stored'[ids[i]]]
    BY <1>12
  <2> QED
    BY ONLY <2>1
<1>16. ToSet(current') \cap DOMAIN objects = {} /\ ToSet(current') \subseteq Nat \ {0}
  BY <1>3, <1>9 DEF free
<1> QED
  BY <1>1, <1>7, <1>11, <1>14, <1>15, <1>16 DEF n

LEMMA ListRemade ==
    ASSUME ProfilesInv, NEW ids \in Seq(Uuids), IsInjective(ids), Remade(ids),
           used \subseteq used', used' \subseteq Uuids, ToSet(ids) \subseteq used', default' \in ToSet(ids),
           stored' \in [Uuids -> LinkLists], UNCHANGED << tabs, editor, givenUp >>,
           \A u \in used : stored'[u] = stored[u], \A u \in Uuids \ used' : stored'[u] = << >>,
           ViewFits(page', objects), ToastsFit(toasts', objects),
           Rebound(WithMade), Keep(WithMade)
    PROVE  ProfilesInv' /\ ProfilesAct
<1> DEFINE all == WithMade
<1>1. /\ uuids' = ids /\ current' \in Seq(Nat) /\ Len(current') = Len(ids)
      /\ ToSet(current') \cap DOMAIN objects = {}
      /\ ToSet(current') \subseteq Nat \ {0}
      /\ DOMAIN Made = ToSet(current')
      /\ \A i \in 1 .. Len(ids) : Made[current'[i]].uuid = ids[i]
      /\ \A o \in DOMAIN Made :
            /\ Made[o] \in ProfileObjects /\ Made[o].uuid \in ToSet(ids)
            /\ Made[o].links = stored'[Made[o].uuid]
  BY RemadeFacts
<1>2. /\ DOMAIN all = ToSet(current') \cup DOMAIN objects
      /\ all = [o \in DOMAIN all |-> all[o]]
      /\ \A o \in DOMAIN objects : all[o] = objects[o]
      /\ \A o \in ToSet(current') : all[o] = Made[o]
  BY <1>1 DEF WithMade
<1>3. /\ DOMAIN objects \subseteq Nat \ {0} /\ \A o \in DOMAIN objects : objects[o] \in ProfileObjects
      /\ \A o \in DOMAIN objects : objects[o].uuid \in used
  BY DEF ProfilesInv, Typed
<1> HIDE DEF all
<1>4. Typed(all)
  <2>1. \A o \in DOMAIN all : all[o] \in ProfileObjects
    BY <1>1, <1>2, <1>3
  <2> QED
    BY <1>1, <1>2, <1>3, <2>1 DEF Typed
<1>5. Len(ids) \in Nat /\ \A i \in 1 .. Len(ids) : current'[i] \in ToSet(current')
  BY <1>1, LenProperties DEF ToSet
<1>6. ListFits(uuids', current', default', all)
  BY <1>1, <1>2, <1>5 DEF ListFits
<1>7. /\ Default(uuids', default', current') \in DOMAIN all
      /\ all[Default(uuids', default', current')].uuid = default'
  BY <1>6, DefaultThere
<1>8. ASSUME NEW view, ViewFits(view, objects)
      PROVE  ViewFits(view, all)
  BY <1>2, <1>8 DEF ViewFits
<1>9. /\ ViewFits(prefs', all) /\ (prefs'.shows # 0 => all[prefs'.shows].uuid = default')
      /\ PageShows
  <2> DEFINE d == Default(uuids', default', current')
  <2>1. ViewFits(prefs, objects) /\ (prefs.shows # 0 => objects[prefs.shows].uuid = default)
    BY DEF ProfilesInv, Fits
  <2>2. CASE default' # default /\ prefs # None
    <3>1. prefs' = View(d, d, all)
      BY <2>2 DEF Rebound, all
    <3>2. ViewFits(prefs', all) /\ prefs'.shows = d
      BY <1>4, <1>7, <3>1, ViewIsFit
    <3> QED
      BY <1>7, <2>2, <3>2 DEF PageShows
  <2>3. CASE default' # default /\ prefs = None
    <3>1. prefs' = None
      BY <2>3 DEF Rebound
    <3>2. prefs'.shows = 0
      BY <3>1 DEF None
    <3> QED
      BY <1>8, <2>1, <2>3, <3>1, <3>2 DEF PageShows
  <2>4. CASE default' = default
    <3>1. prefs' = prefs
      BY <2>4 DEF Rebound
    <3>2. prefs.shows # 0 => prefs.shows \in DOMAIN objects
      BY <2>1 DEF ViewFits
    <3> QED
      BY <1>2, <1>8, <2>1, <2>4, <3>1, <3>2 DEF PageShows
  <2> QED
    BY <2>2, <2>3, <2>4
<1>10. Fits(all, current', tabs', prefs', page', editor', toasts')
  <2>1. TabsFit(tabs', all)
    BY <1>2 DEF ProfilesInv, Fits, TabsFit
  <2>2. EditorFits(editor', all)
    BY <1>2 DEF ProfilesInv, Fits, EditorFits
  <2>3. ToastsFit(toasts', all)
    BY <1>2 DEF ToastsFit
  <2> QED
    BY <1>2, <1>8, <1>9, <2>1, <2>2, <2>3 DEF Fits
<1>11. /\ Typed(objects') /\ Part(objects', all)
       /\ Fits(objects', current', tabs', prefs', page', editor', toasts')
  BY <1>4, <1>10, KeepFits DEF all
<1>12. \A o \in DOMAIN objects' : o \in DOMAIN all /\ objects'[o] = all[o]
  BY <1>11 DEF Part
<1>13. ListFits(uuids', current', default', objects')
  <2>1. \A i \in 1 .. Len(ids) : current'[i] \in DOMAIN objects'
    BY <1>5, <1>11 DEF Fits
  <2> QED
    BY <1>1, <1>6, <1>12, <2>1 DEF ListFits
<1>14. \A o \in DOMAIN objects' : objects'[o].uuid \in used'
  BY <1>1, <1>2, <1>3, <1>12
<1>15. HaveLinks(objects', stored', givenUp')
  <2> SUFFICES ASSUME NEW o \in DOMAIN objects'
               PROVE  ToSet(stored'[objects'[o].uuid]) \ ToSet(objects'[o].links)
                         \subseteq givenUp'[objects'[o].uuid]
    BY DEF HaveLinks
  <2>1. CASE o \in ToSet(current')
    BY <1>1, <1>2, <1>12, <2>1
  <2>2. CASE o \in DOMAIN objects
    <3>1. objects'[o] = objects[o] /\ stored'[objects[o].uuid] = stored[objects[o].uuid]
      BY <1>2, <1>3, <1>12, <2>2
    <3> QED
      BY <2>2, <3>1 DEF ProfilesInv, HaveLinks
  <2> QED
    BY <1>2, <1>12, <2>1, <2>2
<1>16. SettingsTyped'
  BY <1>1 DEF ProfilesInv, SettingsTyped
<1>17. prefs'.shows # 0 => objects'[prefs'.shows].uuid = default'
  BY <1>9, <1>11, <1>12 DEF Fits, ViewFits
<1>18. ProfilesInv'
  BY <1>11, <1>13, <1>14, <1>15, <1>16, <1>17 DEF ProfilesInv
<1>19. NoneLost
  <2> SUFFICES ASSUME NEW u \in Uuids
               PROVE  ToSet(stored[u]) \ ToSet(stored'[u]) \subseteq givenUp'[u]
    BY DEF NoneLost
  <2>1. CASE u \in used
    BY <2>1
  <2>2. CASE u \notin used
    <3>1. stored[u] = << >>
      BY <2>2 DEF ProfilesInv, SettingsTyped
    <3> QED
      BY <3>1 DEF ToSet
  <2> QED
    BY <2>1, <2>2
<1>20. ReachesAll
  <2> SUFFICES ASSUME NEW u \in Uuids, stored'[u] # stored[u]
               PROVE  /\ \A o \in DOMAIN objects' : objects'[o].uuid = u => objects'[o].links = stored'[u]
                      /\ \A t \in Tabs : ~(tabs'[t] # NoTab /\ objects'[tabs'[t].profile].uuid = u)
    BY DEF ReachesAll
  <2>1. u \notin used
    OBVIOUS
  <2>2. \A o \in DOMAIN objects' : objects'[o].uuid = u => objects'[o].links = stored'[u]
    BY <1>1, <1>2, <1>3, <1>12, <2>1
  <2>3. ASSUME NEW t \in Tabs, tabs'[t] # NoTab PROVE objects'[tabs'[t].profile].uuid \in used
    <3>1. tabs[t].profile \in DOMAIN objects /\ tabs'[t].profile \in DOMAIN objects'
      BY <1>11, <2>3 DEF ProfilesInv, Fits, TabsFit
    <3> QED
      BY <1>2, <1>3, <1>12, <3>1
  <2> QED
    BY <2>1, <2>2, <2>3
<1>21. SameObjects /\ TabsStay
  BY <1>2, <1>12 DEF SameObjects, TabsStay
<1> QED
  BY <1>9, <1>18, <1>19, <1>20, <1>21 DEF ProfilesAct

(* A step that changes who holds what and nothing else.                       *)
LEMMA Held1 ==
    ASSUME ProfilesInv, UNCHANGED << settings, current, givenUp >>,
           Keep(objects) \/ UNCHANGED objects, TabsStay,
           TabsFit(tabs', objects), ViewFits(prefs', objects), ViewFits(page', objects),
           EditorFits(editor', objects), ToastsFit(toasts', objects),
           prefs'.shows = 0 \/ prefs'.shows = (IF prefs.shows = 0 THEN D ELSE prefs.shows)
    PROVE  ProfilesInv' /\ ProfilesAct
<1>1. /\ UNCHANGED << uuids, default, used, current, stored >>
      /\ Typed(objects) /\ HaveLinks(objects, stored, givenUp')
      /\ givenUp' \in [Uuids -> SUBSET Contents]
  BY DEF settings, ProfilesInv, SettingsTyped
<1>2. Fits(objects, current', tabs', prefs', page', editor', toasts')
  BY <1>1 DEF ProfilesInv, Fits
<1>3. /\ Typed(objects') /\ Part(objects', objects)
      /\ Fits(objects', current', tabs', prefs', page', editor', toasts')
  <2>1. CASE Keep(objects)
    BY <1>1, <1>2, <2>1, KeepFits
  <2>2. CASE UNCHANGED objects
    BY <1>1, <1>2, <2>2 DEF Part, Typed
  <2> QED
    BY <2>1, <2>2
<1> QED
  BY <1>1, <1>3, Unsaved

(* What there is before a step.                                              *)
LEMMA Before ==
    ASSUME ProfilesInv
    PROVE  /\ TabsFit(tabs, objects) /\ ViewFits(prefs, objects) /\ ViewFits(page, objects)
           /\ EditorFits(editor, objects) /\ ToastsFit(toasts, objects)
           /\ Typed(objects) /\ \A o \in DOMAIN objects : objects[o] \in ProfileObjects /\ objects[o].uuid \in Uuids
           /\ \A o \in DOMAIN objects : objects[o].links \in LinkLists /\ o \in Nat \ {0}
           /\ D \in DOMAIN objects
           /\ \A t \in Tabs : tabs[t] # NoTab => tabs[t].profile \in DOMAIN objects
           /\ ViewFits(None, objects) /\ EditorFits(NoEditor, objects) /\ ToastsFit({}, objects)
           /\ NoTab \in TabStates /\ None.shows = 0
<1>1. D \in DOMAIN objects
  BY DefaultThere DEF D, ProfilesInv
<1>2. NoTab \in TabStates
  BY DEF NoTab, TabStates, LinkLists
<1>3. ViewFits(None, objects) /\ None.shows = 0
  <2>1. ToSet(<< >>) = {}
    BY DEF ToSet
  <2> QED
    BY <2>1 DEF None, ViewFits, Views
<1>4. EditorFits(NoEditor, objects) /\ ToastsFit({}, objects)
  BY DEF NoEditor, EditorFits, Editors, ToastsFit
<1>5. TabsFit(tabs, objects) /\ ViewFits(prefs, objects) /\ ViewFits(page, objects)
      /\ EditorFits(editor, objects) /\ ToastsFit(toasts, objects) /\ Typed(objects)
  BY DEF ProfilesInv, Fits
<1>6. \A o \in DOMAIN objects : objects[o] \in ProfileObjects /\ o \in Nat \ {0}
  BY <1>5 DEF Typed
<1>7. \A o \in DOMAIN objects : objects[o].uuid \in Uuids /\ objects[o].links \in LinkLists
  BY <1>6 DEF ProfileObjects
<1>8. \A t \in Tabs : tabs[t] # NoTab => tabs[t].profile \in DOMAIN objects
  BY <1>5 DEF TabsFit
<1> QED
  BY <1>1, <1>2, <1>3, <1>4, <1>5, <1>6, <1>7, <1>8

LEMMA ProfilesStart == ProfilesInit => ProfilesInv
<1> SUFFICES ASSUME ProfilesInit PROVE ProfilesInv
  OBVIOUS
<1>1. /\ uuids = << First >> /\ default = First /\ used = {First}
      /\ stored = [u \in Uuids |-> IF u = First THEN AtFirst ELSE << >>]
      /\ objects = [o \in {1} |-> [uuid |-> First, links |-> AtFirst]]
      /\ current = << 1 >> /\ tabs = [t \in Tabs |-> NoTab]
      /\ prefs = None /\ page = None /\ editor = NoEditor /\ toasts = {}
      /\ givenUp = [u \in Uuids |-> {}]
  BY DEF ProfilesInit
<1>2. First \in Uuids /\ AtFirst \in LinkLists
  BY ProfilesAssumption DEF LinkLists
<1>3. DOMAIN objects = {1} /\ objects[1].uuid = First /\ objects[1].links = AtFirst
      /\ objects[1] \in ProfileObjects
  BY <1>1, <1>2 DEF ProfileObjects
<1>4. Typed(objects)
  BY <1>1, <1>2 DEF Typed, ProfileObjects
<1>5. ToSet(uuids) = {First} /\ ToSet(current) = {1} /\ uuids \in Seq(Uuids) /\ current \in Seq(Nat)
      /\ Len(uuids) = 1 /\ Len(current) = 1 /\ IsInjective(uuids) /\ uuids[1] = First /\ current[1] = 1
  BY <1>1, <1>2 DEF ToSet, IsInjective
<1>6. SettingsTyped
  <2>1. << >> \in LinkLists
    BY DEF LinkLists
  <2> QED
    BY <1>1, <1>2, <1>5, <2>1 DEF SettingsTyped
<1>7. ListFits(uuids, current, default, objects)
  BY <1>1, <1>3, <1>5 DEF ListFits
<1>8. Fits(objects, current, tabs, prefs, page, editor, toasts) /\ prefs.shows = 0
  <2>1. ToSet(<< >>) = {}
    BY DEF ToSet
  <2>2. ViewFits(None, objects) /\ None.shows = 0
    BY <2>1 DEF None, ViewFits, Views
  <2>3. EditorFits(NoEditor, objects) /\ ToastsFit({}, objects)
    BY DEF NoEditor, EditorFits, Editors, ToastsFit
  <2>4. TabsFit(tabs, objects)
    BY <1>1 DEF TabsFit, NoTab, TabStates, LinkLists
  <2> QED
    BY <1>1, <1>3, <1>5, <2>2, <2>3, <2>4 DEF Fits
<1>9. HaveLinks(objects, stored, givenUp)
  BY <1>1, <1>2, <1>3 DEF HaveLinks
<1> QED
  BY <1>1, <1>3, <1>4, <1>6, <1>7, <1>8, <1>9 DEF ProfilesInv

-----------------------------------------------------------------------------
(* Pages, toasts and tabs *)

LEMMA TabActions ==
    ASSUME ProfilesInv, NEW t \in Tabs, OpenTab(t) \/ CloseTab(t)
    PROVE  ProfilesInv' /\ ProfilesAct
<1>1. CASE OpenTab(t)
  <2>1. [profile |-> D, links |-> objects[D].links] \in TabStates /\ D # 0
    BY Before DEF TabStates
  <2>2. TabsFit(tabs', objects) /\ TabsStay
    BY <1>1, <2>1, Before DEF OpenTab, TabsFit, TabsStay, NoTab
  <2> QED
    BY <1>1, <2>2, Before, Held1 DEF OpenTab, history
<1>2. CASE CloseTab(t)
  <2>1. TabsFit(tabs', objects) /\ TabsStay
    BY <1>2, Before DEF CloseTab, TabsFit, TabsStay
  <2> QED
    BY <1>2, <2>1, Before, Held1 DEF CloseTab, history
<1> QED
  BY <1>1, <1>2

LEMMA PageActions ==
    ASSUME ProfilesInv, OpenPreferences \/ Back \/ (\E i \in DOMAIN uuids : EditProfile(i))
                          \/ (\E x \in toasts : ToastGoes(x))
    PROVE  ProfilesInv' /\ ProfilesAct
<1>1. TabsStay /\ TabsFit(tabs', objects) /\ UNCHANGED << settings, current, givenUp, editor >>
  BY Before DEF OpenPreferences, Back, EditProfile, ToastGoes, TabsStay, history
<1>2. CASE OpenPreferences
  <2>1. ViewFits(prefs', objects) /\ prefs'.shows = D /\ prefs.shows = 0
    BY <1>2, Before, ViewIsFit DEF OpenPreferences
  <2> QED
    BY <1>1, <1>2, <2>1, Before, Held1 DEF OpenPreferences
<1>3. CASE Back
  BY <1>1, <1>3, Before, Held1 DEF Back
<1>4. ASSUME NEW i \in DOMAIN uuids, EditProfile(i) PROVE ProfilesInv' /\ ProfilesAct
  <2>1. current[i] \in DOMAIN objects
    BY <1>4, LenProperties DEF ProfilesInv, ListFits
  <2>2. ViewFits(page', objects)
    BY <1>4, <2>1, Before, ViewIsFit DEF EditProfile
  <2> QED
    BY <1>1, <1>4, <2>2, Before, Held1 DEF EditProfile
<1>5. ASSUME NEW x \in toasts, ToastGoes(x) PROVE ProfilesInv' /\ ProfilesAct
  <2>1. ToastsFit(toasts', objects)
    BY <1>5, Before DEF ToastGoes, ToastsFit
  <2> QED
    BY <1>1, <1>5, <2>1, Before, Held1 DEF ToastGoes
<1> QED
  BY <1>2, <1>3, <1>4, <1>5

-----------------------------------------------------------------------------
(* Custom links *)

(* One object gets another list.                                             *)
WithLinks(o, list) == [objects EXCEPT ![o].links = list]

LEMMA WithLinksFits ==
    ASSUME ProfilesInv, NEW o \in DOMAIN objects, NEW list \in LinkLists
    PROVE  /\ Typed(WithLinks(o, list)) /\ DOMAIN WithLinks(o, list) = DOMAIN objects
           /\ \A x \in DOMAIN objects : WithLinks(o, list)[x].uuid = objects[x].uuid
           /\ WithLinks(o, list)[o].links = list
           /\ \A x \in DOMAIN objects : x # o => WithLinks(o, list)[x] = objects[x]
<1> DEFINE all == WithLinks(o, list)
<1>1. DOMAIN all = DOMAIN objects /\ all = [x \in DOMAIN all |-> all[x]]
  BY DEF WithLinks
<1>2. \A x \in DOMAIN objects : objects[x] \in ProfileObjects
  BY Before
<1>3. all[o] = [objects[o] EXCEPT !.links = list]
  BY DEF WithLinks
<1>4. all[o] \in ProfileObjects /\ all[o].uuid = objects[o].uuid /\ all[o].links = list
  BY <1>2, <1>3 DEF ProfileObjects
<1>5. \A x \in DOMAIN objects : x # o => all[x] = objects[x]
  BY DEF WithLinks
<1>6. DOMAIN objects \subseteq Nat \ {0}
  BY DEF ProfilesInv, Typed
<1> HIDE DEF all
<1>7. \A x \in DOMAIN all : all[x] \in ProfileObjects
  BY <1>1, <1>2, <1>4, <1>5
<1>8. Typed(all)
  BY <1>1, <1>6, <1>7 DEF Typed
<1> QED
  BY <1>1, <1>4, <1>5, <1>8 DEF all

LEMMA RowPut ==
    ASSUME NEW s \in Seq(Nat), NEW d \in Nat, NEW k \in 1 .. Len(s) + 1
    PROVE  /\ InsertAt(s, k, d) \in Seq(Nat) /\ Len(InsertAt(s, k, d)) = Len(s) + 1
           /\ \A j \in 1 .. Len(s) + 1 :
                 InsertAt(s, k, d)[j] = IF j < k THEN s[j] ELSE IF j = k THEN d ELSE s[j - 1]
<1> DEFINE N == Nat
<1>1. s \in Seq(N) /\ d \in N /\ k \in 1 .. Len(s) + 1
  OBVIOUS
<1> HIDE DEF N
<1>2. /\ InsertAt(s, k, d) \in Seq(N) /\ Len(InsertAt(s, k, d)) = Len(s) + 1
      /\ \A j \in 1 .. Len(s) + 1 :
            InsertAt(s, k, d)[j] = IF j < k THEN s[j] ELSE IF j = k THEN d ELSE s[j - 1]
  BY ONLY <1>1, InsertAtProperties
<1> QED
  BY <1>2 DEF N

(* ... and views get or lose a row with it.                                   *)
LEMMA ViewChanged ==
    ASSUME ProfilesInv, NEW o \in DOMAIN objects, NEW list \in LinkLists, NEW v, ViewFits(v, objects)
    PROVE  /\ Len(list) = Len(objects[o].links) => ViewFits(v, WithLinks(o, list))
           /\ \A k \in 1 .. Len(objects[o].links) + 1 : Len(list) = Len(objects[o].links) + 1 =>
                 ViewFits(Inserted(v, o, k), WithLinks(o, list)) /\ Inserted(v, o, k).shows = v.shows
           /\ \A k \in 1 .. Len(objects[o].links) : Len(list) = Len(objects[o].links) - 1 =>
                 ViewFits(Dropped(v, o, k), WithLinks(o, list)) /\ Dropped(v, o, k).shows = v.shows
<1> DEFINE all == WithLinks(o, list)
<1>1. /\ DOMAIN all = DOMAIN objects /\ all[o].links = list
      /\ \A x \in DOMAIN objects : x # o => all[x] = objects[x]
  BY WithLinksFits
<1> HIDE DEF all
<1>2. o # 0 /\ D \in DOMAIN objects /\ D \in Nat
  BY Before
<1>3. v.rows \in Seq(Nat) /\ DOMAIN v.rows = 1 .. Len(v.rows) /\ Len(v.rows) \in Nat
  BY LenProperties DEF ViewFits, Views
<1>4. CASE v.shows # o
  <2>1. ViewFits(v, all)
    BY <1>1, <1>4 DEF ViewFits
  <2> QED
    BY <1>4, <2>1 DEF Inserted, Dropped, all
<1>5. CASE v.shows = o
  <2>1. Len(v.rows) = Len(objects[o].links)
    BY <1>2, <1>5 DEF ViewFits
  <2>2. Len(list) = Len(objects[o].links) => ViewFits(v, all)
    BY <1>1, <1>5, <2>1 DEF ViewFits
  <2>3. ASSUME NEW k \in 1 .. Len(objects[o].links) + 1, Len(list) = Len(objects[o].links) + 1
        PROVE  ViewFits(Inserted(v, o, k), all) /\ Inserted(v, o, k).shows = v.shows
    <3> DEFINE r == InsertAt(v.rows, k, D)
    <3>1. /\ r \in Seq(Nat) /\ Len(r) = Len(v.rows) + 1
          /\ \A j \in 1 .. Len(v.rows) + 1 : r[j] = IF j < k THEN v.rows[j] ELSE IF j = k THEN D ELSE v.rows[j - 1]
      <4> DEFINE w == v.rows
                 d == D
      <4>1. w \in Seq(Nat) /\ d \in Nat /\ k \in 1 .. Len(w) + 1
        BY <1>2, <1>3, <2>1, <2>3
      <4> HIDE DEF w, d
      <4>2. /\ InsertAt(w, k, d) \in Seq(Nat) /\ Len(InsertAt(w, k, d)) = Len(w) + 1
            /\ \A j \in 1 .. Len(w) + 1 :
                  InsertAt(w, k, d)[j] = IF j < k THEN w[j] ELSE IF j = k THEN d ELSE w[j - 1]
        BY ONLY <4>1, RowPut
      <4> QED
        BY ONLY <4>2 DEF w, d
    <3>2. Inserted(v, o, k) = [v EXCEPT !.rows = r]
      BY <1>5 DEF Inserted
    <3> HIDE DEF r
    <3>3. ASSUME NEW j \in 1 .. Len(v.rows) + 1 PROVE r[j] \in DOMAIN objects
      <4>1. \A i \in 1 .. Len(v.rows) : v.rows[i] \in DOMAIN objects
        BY <1>3 DEF ViewFits, ToSet
      <4>2. j < k => j \in 1 .. Len(v.rows)
        BY <1>3, <2>1, <2>3
      <4>3. ~(j < k) /\ j # k => j - 1 \in 1 .. Len(v.rows)
        BY <1>3, <2>1, <2>3
      <4> QED
        BY <1>2, <3>1, <4>1, <4>2, <4>3
    <3>4. ToSet(r) \subseteq DOMAIN objects
      <4>1. DOMAIN r = 1 .. Len(r)
        BY <3>1, LenProperties
      <4> QED
        BY <3>1, <3>3, <4>1 DEF ToSet
    <3>5. /\ Inserted(v, o, k).rows = r /\ Inserted(v, o, k).shows = o
          /\ Inserted(v, o, k) \in Views
      BY <1>5, <3>1, <3>2 DEF ViewFits, Views
    <3> QED
      BY <1>1, <1>2, <1>5, <2>1, <2>3, <3>1, <3>4, <3>5 DEF ViewFits
  <2>4. ASSUME NEW k \in 1 .. Len(objects[o].links), Len(list) = Len(objects[o].links) - 1
        PROVE  ViewFits(Dropped(v, o, k), all) /\ Dropped(v, o, k).shows = v.shows
    <3> DEFINE r == RemoveAt(v.rows, k)
    <3>1. /\ r \in Seq(Nat) /\ Len(r) = Len(v.rows) - 1
          /\ \A j \in 1 .. Len(v.rows) - 1 : r[j] = v.rows[IF j < k THEN j ELSE j + 1]
      <4> DEFINE w == v.rows
      <4>1. w \in Seq(Nat) /\ k \in 1 .. Len(w)
        BY <1>3, <2>1, <2>4
      <4> HIDE DEF w
      <4>2. /\ RemoveAt(w, k) \in Seq(Nat) /\ Len(RemoveAt(w, k)) = Len(w) - 1
            /\ \A j \in 1 .. Len(w) - 1 : RemoveAt(w, k)[j] = w[IF j < k THEN j ELSE j + 1]
        BY ONLY <4>1, RemoveAtProperties
      <4> QED
        BY ONLY <4>2 DEF w
    <3>2. Dropped(v, o, k) = [v EXCEPT !.rows = r]
      BY <1>5 DEF Dropped
    <3> HIDE DEF r
    <3>3. ASSUME NEW j \in 1 .. Len(v.rows) - 1 PROVE r[j] \in DOMAIN objects
      <4>1. \A i \in 1 .. Len(v.rows) : v.rows[i] \in DOMAIN objects
        BY <1>3 DEF ViewFits, ToSet
      <4>2. (IF j < k THEN j ELSE j + 1) \in 1 .. Len(v.rows)
        BY <1>3
      <4> QED
        BY <3>1, <4>1, <4>2
    <3>4. ToSet(r) \subseteq DOMAIN objects
      <4>1. DOMAIN r = 1 .. Len(r)
        BY <3>1, LenProperties
      <4> QED
        BY <3>1, <3>3, <4>1 DEF ToSet
    <3>5. /\ Dropped(v, o, k).rows = r /\ Dropped(v, o, k).shows = o
          /\ Dropped(v, o, k) \in Views
      BY <1>5, <3>1, <3>2 DEF ViewFits, Views
    <3> QED
      BY <1>1, <1>2, <1>5, <2>1, <2>4, <3>1, <3>4, <3>5 DEF ViewFits
  <2> QED
    BY <2>2, <2>3, <2>4 DEF all
<1> QED
  BY <1>4, <1>5

(* Those who hold objects do not care for lists.                              *)
LEMMA OthersFit ==
    ASSUME NEW all, DOMAIN all = DOMAIN objects, Typed(all), Typed(objects)
    PROVE  /\ \A e : EditorFits(e, objects) /\ (e = NoEditor \/ Len(all[e.of].links) >= Len(objects[e.of].links))
                      => EditorFits(e, all)
           /\ \A ts : ToastsFit(ts, objects) => ToastsFit(ts, all)
           /\ \A tt : TabsFit(tt, objects) => TabsFit(tt, all)
<1>1. \A o \in DOMAIN objects : Len(all[o].links) \in Nat /\ Len(objects[o].links) \in Nat
  BY LenProperties DEF Typed, ProfileObjects, LinkLists
<1>2. ASSUME NEW e, EditorFits(e, objects), e = NoEditor \/ Len(all[e.of].links) >= Len(objects[e.of].links)
      PROVE  EditorFits(e, all)
  <2>1. CASE e = NoEditor
    BY <1>2, <2>1 DEF EditorFits
  <2>2. CASE e # NoEditor
    <3>1. /\ {e.profile, e.of} \subseteq DOMAIN all /\ e.at <= Len(objects[e.of].links)
          /\ e.at \in Nat /\ e \in Editors
      BY <1>2, <2>2 DEF EditorFits, Editors
    <3>2. e.at <= Len(all[e.of].links)
      BY <1>1, <1>2, <2>2, <3>1
    <3> QED
      BY <3>1, <3>2 DEF EditorFits
  <2> QED
    BY <2>1, <2>2
<1> QED
  BY <1>2 DEF ToastsFit, TabsFit

(* The links that an object has left, and the one it lost.                     *)
LEMMA LinksLeft ==
    ASSUME NEW s \in LinkLists, NEW k \in 1 .. Len(s)
    PROVE  /\ RemoveAt(s, k) \in LinkLists /\ Len(RemoveAt(s, k)) = Len(s) - 1
           /\ s[k] \in Contents
           /\ ToSet(s) \ ToSet(RemoveAt(s, k)) \subseteq {s[k]}
<1>1. Len(s) \in Nat /\ DOMAIN s = 1 .. Len(s) /\ s \in Seq(Contents)
  BY LenProperties DEF LinkLists
<1> DEFINE r == RemoveAt(s, k)
<1>2. /\ r \in Seq(Contents) /\ Len(r) = Len(s) - 1 /\ DOMAIN r = 1 .. Len(s) - 1
      /\ \A j \in 1 .. Len(s) - 1 : r[j] = s[IF j < k THEN j ELSE j + 1]
  BY <1>1, RemoveAtProperties, LenProperties
<1> HIDE DEF r
<1>3. ASSUME NEW x \in ToSet(s), x # s[k] PROVE x \in ToSet(r)
  <2>1. PICK i \in 1 .. Len(s) : x = s[i]
    BY <1>1 DEF ToSet
  <2> DEFINE j == IF i < k THEN i ELSE i - 1
  <2>2. j \in 1 .. Len(s) - 1 /\ (IF j < k THEN j ELSE j + 1) = i
    BY <1>1, <1>3, <2>1
  <2>3. r[j] = x
    BY <1>2, <2>1, <2>2
  <2> QED
    BY <1>2, <2>2, <2>3 DEF ToSet
<1>4. s[k] \in Contents
  BY <1>1, ElementOfSeq
<1> QED
  BY <1>2, <1>3, <1>4 DEF r, LinkLists

LEMMA LinksPut ==
    ASSUME NEW s \in LinkLists, NEW c \in Contents, NEW k \in 1 .. Len(s) + 1
    PROVE  /\ InsertAt(s, k, c) \in LinkLists /\ Len(InsertAt(s, k, c)) = Len(s) + 1
           /\ ToSet(s) \subseteq ToSet(InsertAt(s, k, c))
<1>1. Len(s) \in Nat /\ DOMAIN s = 1 .. Len(s) /\ s \in Seq(Contents)
  BY LenProperties DEF LinkLists
<1> DEFINE r == InsertAt(s, k, c)
<1>2. /\ r \in Seq(Contents) /\ Len(r) = Len(s) + 1 /\ DOMAIN r = 1 .. Len(s) + 1
      /\ \A j \in 1 .. Len(s) : r[IF j < k THEN j ELSE j + 1] = s[j]
  BY <1>1, InsertAtProperties, LenProperties
<1> HIDE DEF r
<1>3. ASSUME NEW x \in ToSet(s) PROVE x \in ToSet(r)
  <2>1. PICK i \in 1 .. Len(s) : x = s[i]
    BY <1>1 DEF ToSet
  <2>2. (IF i < k THEN i ELSE i + 1) \in 1 .. Len(s) + 1
    BY <1>1
  <2>3. r[IF i < k THEN i ELSE i + 1] = x
    BY <1>2, <2>1
  <2> QED
    BY <1>2, <2>2, <2>3 DEF ToSet
<1> QED
  BY <1>2, <1>3 DEF r, LinkLists

LEMMA TopFits ==
    ASSUME ProfilesInv, OnRows
    PROVE  /\ editor = NoEditor /\ prefs # None /\ Top \in {page, prefs}
           /\ ViewFits(Top, objects) /\ Top.shows \in DOMAIN objects
           /\ DOMAIN Top.rows = 1 .. Len(objects[Top.shows].links)
           /\ Len(objects[Top.shows].links) \in Nat
           /\ \A k \in DOMAIN Top.rows : Top.rows[k] \in DOMAIN objects
           /\ page # None => page.shows \in DOMAIN objects
<1>1. editor = NoEditor /\ prefs # None /\ Top = IF page # None THEN page ELSE prefs
  BY DEF OnRows, Top
<1>2. ViewFits(prefs, objects) /\ ViewFits(page, objects)
  BY Before
<1>3. Top # None /\ ViewFits(Top, objects) /\ Top \in {page, prefs}
  BY <1>1, <1>2
<1>4. Top.shows \in DOMAIN objects /\ Len(Top.rows) = Len(objects[Top.shows].links) /\ Top.rows \in Seq(Nat)
  BY <1>3 DEF ViewFits, Views
<1>5. DOMAIN Top.rows = 1 .. Len(Top.rows) /\ Len(Top.rows) \in Nat
  BY <1>4, LenProperties
<1>6. \A k \in DOMAIN Top.rows : Top.rows[k] \in DOMAIN objects
  BY <1>3 DEF ViewFits, ToSet
<1>7. page # None => page.shows \in DOMAIN objects
  BY <1>2 DEF ViewFits
<1> QED
  BY <1>1, <1>3, <1>4, <1>5, <1>6, <1>7

(* Links that an object has lost are given up.                                *)
LEMMA Lacking ==
    ASSUME ProfilesInv, NEW o \in DOMAIN objects, NEW list \in LinkLists,
           \A w \in Uuids : givenUp[w] \subseteq givenUp'[w],
           ToSet(objects[o].links) \ ToSet(list) \subseteq givenUp'[objects[o].uuid]
    PROVE  HaveLinks(WithLinks(o, list), stored, givenUp')
<1> DEFINE all == WithLinks(o, list)
<1>1. /\ DOMAIN all = DOMAIN objects
      /\ \A x \in DOMAIN objects : all[x].uuid = objects[x].uuid
      /\ all[o].links = list
      /\ \A x \in DOMAIN objects : x # o => all[x] = objects[x]
  BY WithLinksFits
<1> HIDE DEF all
<1>2. ASSUME NEW x \in DOMAIN objects
      PROVE  ToSet(stored[objects[x].uuid]) \ ToSet(all[x].links) \subseteq givenUp'[objects[x].uuid]
  <2>1. /\ ToSet(stored[objects[x].uuid]) \ ToSet(objects[x].links) \subseteq givenUp[objects[x].uuid]
        /\ givenUp[objects[x].uuid] \subseteq givenUp'[objects[x].uuid]
    BY Before DEF ProfilesInv, HaveLinks
  <2>2. CASE x = o
    BY <1>1, <2>1, <2>2
  <2>3. CASE x # o
    BY <1>1, <2>1, <2>3
  <2> QED
    BY <2>2, <2>3
<1>3. HaveLinks(all, stored, givenUp')
  BY <1>1, <1>2 DEF HaveLinks
<1> QED
  BY <1>3 DEF all

LEMMA AddLinkStep == ASSUME ProfilesInv, AddLink PROVE ProfilesInv' /\ ProfilesAct
<1> DEFINE o == IF page # None THEN page.shows ELSE D
           n == Len(objects[o].links) + 1
           list == Append(objects[o].links, Blank)
           all == WithLinks(o, list)
<1>1. /\ OnRows
      /\ prefs' = Inserted(prefs, o, n) /\ page' = Inserted(page, o, n)
      /\ editor' = [profile |-> o, of |-> o, at |-> n, unsaved |-> FALSE]
      /\ UNCHANGED << settings, current, tabs, toasts, givenUp >>
      /\ Keep([objects EXCEPT ![o].links = Append(@, Blank)])
  BY DEF AddLink
<1>2. o \in DOMAIN objects /\ prefs # None /\ ViewFits(prefs, objects) /\ ViewFits(page, objects)
  BY <1>1, TopFits, Before
<1>3. objects[o].links \in Seq(Contents) /\ Len(objects[o].links) \in Nat /\ Blank \in Contents
  BY <1>2, Before, LenProperties, ProfilesAssumption DEF LinkLists
<1>4. /\ list \in LinkLists /\ Len(list) = n
      /\ ToSet(objects[o].links) \subseteq ToSet(list)
  BY <1>3 DEF LinkLists, ToSet
<1>5. Keep(all)
  BY <1>1 DEF WithLinks
<1> HIDE DEF o, list
<1>6. /\ Typed(all) /\ DOMAIN all = DOMAIN objects
      /\ \A x \in DOMAIN objects : all[x].uuid = objects[x].uuid
      /\ all[o].links = list
      /\ \A x \in DOMAIN objects : x # o => all[x] = objects[x]
  BY <1>2, <1>4, WithLinksFits
<1>7. n \in 1 .. Len(objects[o].links) + 1
  BY <1>3
<1>8. /\ ViewFits(prefs', all) /\ ViewFits(page', all) /\ prefs'.shows = prefs.shows
  BY <1>1, <1>2, <1>4, <1>7, ViewChanged
<1>9. EditorFits(editor', all)
  BY <1>1, <1>2, <1>3, <1>4, <1>6, Before DEF EditorFits, Editors
<1>10. ToastsFit(toasts', all) /\ TabsFit(tabs', all)
  BY <1>1, <1>6, Before, OthersFit
<1>11. HaveLinks(all, stored, givenUp)
  BY <1>4, <1>6 DEF ProfilesInv, HaveLinks
<1>12. /\ UNCHANGED << uuids, default, used, current, stored, givenUp >>
       /\ givenUp' \in [Uuids -> SUBSET Contents] /\ TabsStay
  BY <1>1 DEF settings, ProfilesInv, SettingsTyped, TabsStay
<1>13. Fits(all, current', tabs', prefs', page', editor', toasts')
  BY <1>6, <1>8, <1>9, <1>10, <1>12 DEF Fits, ProfilesInv
<1>14. /\ Typed(objects') /\ Part(objects', all)
       /\ Fits(objects', current', tabs', prefs', page', editor', toasts')
  BY <1>5, <1>6, <1>13, KeepFits
<1>15. prefs'.shows = 0 \/ prefs'.shows = (IF prefs.shows = 0 THEN D ELSE prefs.shows)
  BY <1>2, <1>8 DEF ViewFits
<1> HIDE DEF all
<1> QED
  BY <1>6, <1>11, <1>12, <1>14, <1>15, Unsaved

LEMMA EditLinkStep ==
    ASSUME ProfilesInv, NEW k, EditLink(k) PROVE ProfilesInv' /\ ProfilesAct
<1>1. /\ OnRows /\ k \in DOMAIN Top.rows
      /\ editor' = [profile |-> Top.rows[k], of |-> Top.shows, at |-> k, unsaved |-> FALSE]
      /\ UNCHANGED << settings, objects, current, tabs, prefs, page, toasts, history >>
  BY DEF EditLink
<1>2. EditorFits(editor', objects)
  BY <1>1, TopFits, Before DEF EditorFits, Editors
<1>3. TabsStay /\ TabsFit(tabs', objects) /\ givenUp' = givenUp
  BY <1>1, Before DEF TabsStay, history
<1> QED
  BY <1>1, <1>2, <1>3, TopFits, Before, Held1 DEF ViewFits

LEMMA TypeStep ==
    ASSUME ProfilesInv, NEW c \in Contents, Type(c) PROVE ProfilesInv' /\ ProfilesAct
<1>1. /\ editor # NoEditor /\ editor' = [editor EXCEPT !.unsaved = TRUE]
      /\ UNCHANGED << settings, current, tabs, prefs, page, toasts >>
  BY DEF Type
<1>2. /\ editor \in Editors /\ {editor.profile, editor.of} \subseteq DOMAIN objects
      /\ editor.at <= Len(objects[editor.of].links)
  BY <1>1, Before DEF EditorFits
<1>3. /\ editor' \in Editors /\ editor'.profile = editor.profile /\ editor'.of = editor.of /\ editor'.at = editor.at
  BY <1>1, <1>2 DEF Editors
<1>4. TabsStay /\ UNCHANGED << uuids, default, used, current, stored >>
  BY <1>1 DEF TabsStay, settings
<1>5. prefs'.shows = 0 \/ prefs'.shows = (IF prefs.shows = 0 THEN D ELSE prefs.shows)
  BY <1>1
<1>6. CASE editor.at = 0
  <2>1. UNCHANGED << objects, givenUp >>
    BY <1>6 DEF Type
  <2>2. EditorFits(editor', objects)
    BY <1>2, <1>3 DEF EditorFits
  <2> QED
    BY <1>1, <1>4, <1>5, <2>1, <2>2, Before, Held1
<1>7. CASE editor.at # 0
  <2> DEFINE o == editor.of
             i == editor.at
             old == objects[o].links[i]
             list == [objects[o].links EXCEPT ![i] = c]
             all == WithLinks(o, list)
             u == objects[o].uuid
  <2>1. /\ objects' = [objects EXCEPT ![o].links[i] = c]
        /\ givenUp' = [givenUp EXCEPT ![u] = @ \cup {old}]
    BY <1>7 DEF Type
  <2>2. objects' = all
    BY <2>1 DEF WithLinks
  <2>3. /\ objects[o].links \in Seq(Contents) /\ Len(objects[o].links) \in Nat
        /\ DOMAIN objects[o].links = 1 .. Len(objects[o].links)
        /\ i \in 1 .. Len(objects[o].links) /\ u \in Uuids /\ o \in DOMAIN objects
    BY <1>2, <1>7, Before, LenProperties DEF LinkLists, Editors
  <2>4. /\ list \in Seq(Contents) /\ Len(list) = Len(objects[o].links)
        /\ ToSet(objects[o].links) \ ToSet(list) \subseteq {old} /\ old \in Contents
    <3> DEFINE s == objects[o].links
    <3>1. s \in Seq(Contents) /\ i \in 1 .. Len(s) /\ DOMAIN s = 1 .. Len(s) /\ Len(s) \in Nat
      BY <2>3
    <3> HIDE DEF s, i
    <3>2. [s EXCEPT ![i] = c] \in Seq(Contents) /\ Len([s EXCEPT ![i] = c]) = Len(s)
      BY ONLY <3>1, c \in Contents
    <3>3. s[i] \in Contents
      BY <3>1, ElementOfSeq
    <3>4. ASSUME NEW x \in ToSet(s), x # s[i] PROVE x \in ToSet([s EXCEPT ![i] = c])
      BY <3>1, <3>4 DEF ToSet
    <3> QED
      BY <3>2, <3>3, <3>4 DEF s
  <2>5. list \in LinkLists
    BY <2>4 DEF LinkLists
  <2>6. givenUp' \in [Uuids -> SUBSET Contents] /\ givenUp'[u] = givenUp[u] \cup {old}
        /\ \A w \in Uuids : w # u => givenUp'[w] = givenUp[w]
    BY <2>1, <2>3, <2>4 DEF ProfilesInv, SettingsTyped
  <2> HIDE DEF list, old
  <2>7. /\ Typed(all) /\ DOMAIN all = DOMAIN objects
        /\ \A x \in DOMAIN objects : all[x].uuid = objects[x].uuid
        /\ all[o].links = list
        /\ \A x \in DOMAIN objects : x # o => all[x] = objects[x]
    BY <2>3, <2>5, WithLinksFits
  <2>8. ViewFits(prefs', all) /\ ViewFits(page', all)
    BY <1>1, <2>3, <2>4, <2>5, Before, ViewChanged
  <2>9. EditorFits(editor', all)
    BY <1>2, <1>3, <2>4, <2>7 DEF EditorFits
  <2>10. ToastsFit(toasts', all) /\ TabsFit(tabs', all)
    BY <1>1, <2>7, Before, OthersFit
  <2>11. HaveLinks(all, stored, givenUp')
    <3>1. \A w \in Uuids : givenUp[w] \subseteq givenUp'[w]
      BY <2>6
    <3>2. ToSet(objects[o].links) \ ToSet(list) \subseteq givenUp'[objects[o].uuid]
      BY <2>4, <2>6
    <3> QED
      BY <2>3, <2>5, <3>1, <3>2, Lacking
  <2>12. Fits(all, current', tabs', prefs', page', editor', toasts')
    BY <1>4, <2>7, <2>8, <2>9, <2>10 DEF Fits, ProfilesInv
  <2>13. Typed(objects') /\ Part(objects', all)
         /\ Fits(objects', current', tabs', prefs', page', editor', toasts')
    BY <2>2, <2>7, <2>12 DEF Typed, Part
  <2> HIDE DEF all
  <2> QED
    BY <1>4, <1>5, <2>6, <2>7, <2>11, <2>13, Unsaved
<1> QED
  BY <1>6, <1>7

LEMMA CloseEditorStep ==
    ASSUME ProfilesInv, CloseEditor \/ ClosePreferences PROVE ProfilesInv' /\ ProfilesAct
<1> DEFINE v == IF CloseEditor THEN prefs ELSE None
           g == IF CloseEditor THEN page ELSE None
<1>1. /\ UNCHANGED << uuids, default, used, current, history >>
      /\ toasts' = toasts \/ toasts' = {}
      /\ IF editor.unsaved
         THEN \/ Save(editor.profile, objects, prefs, page, NoEditor)
              \/ Save(editor.profile, objects, None, None, NoEditor)
         ELSE /\ editor' = NoEditor /\ UNCHANGED << stored, tabs >>
              /\ prefs' \in {prefs, None} /\ page' \in {page, None}
              /\ Keep(objects)
  BY DEF CloseEditor, ClosePreferences
<1>2. /\ ToastsFit(toasts', objects) /\ givenUp' \in [Uuids -> SUBSET Contents] /\ givenUp' = givenUp
      /\ HaveLinks(objects, stored, givenUp')
  BY <1>1, Before DEF history, ProfilesInv, SettingsTyped
<1>3. CASE editor.unsaved
  <2>1. editor.profile \in DOMAIN objects
    BY <1>3, Before DEF EditorFits, NoEditor
  <2> QED
    BY <1>1, <1>2, <1>3, <2>1, Before, Saved
<1>4. CASE ~editor.unsaved
  <2>1. TabsStay /\ TabsFit(tabs', objects) /\ ViewFits(prefs', objects) /\ ViewFits(page', objects)
        /\ EditorFits(editor', objects) /\ prefs'.shows \in {0, prefs.shows}
    BY <1>1, <1>4, Before DEF TabsStay
  <2>2. UNCHANGED << settings, current, givenUp >>
    BY <1>1, <1>2, <1>4 DEF settings
  <2> QED
    BY <1>1, <1>2, <1>4, <2>1, <2>2, Before, Held1
<1> QED
  BY <1>3, <1>4

LEMMA RemoveLinkStep ==
    ASSUME ProfilesInv, NEW k, RemoveLink(k) PROVE ProfilesInv' /\ ProfilesAct
<1> DEFINE o == Top.shows
           list == RemoveAt(objects[o].links, k)
           all == WithLinks(o, list)
           u == objects[o].uuid
           old == objects[o].links[k]
<1>1. /\ OnRows /\ k \in DOMAIN Top.rows /\ Top.rows[k] = o
      /\ toasts' = toasts \cup {[profile |-> o, index |-> k, content |-> old]}
      /\ givenUp' = [givenUp EXCEPT ![u] = @ \cup {old}]
      /\ UNCHANGED << uuids, default, used, current >>
      /\ Save(o, [objects EXCEPT ![o].links = RemoveAt(@, k)], Dropped(prefs, o, k), Dropped(page, o, k), editor)
  BY DEF RemoveLink, Removes
<1>2. /\ editor = NoEditor /\ prefs # None /\ o \in DOMAIN objects /\ k \in 1 .. Len(objects[o].links)
      /\ k \in Nat
  BY <1>1, TopFits
<1>3. objects[o].links \in LinkLists /\ u \in Uuids /\ o \in Nat
      /\ ViewFits(prefs, objects) /\ ViewFits(page, objects)
  BY <1>2, Before
<1>4. /\ list \in LinkLists /\ Len(list) = Len(objects[o].links) - 1
      /\ old \in Contents /\ ToSet(objects[o].links) \ ToSet(list) \subseteq {old}
  BY <1>2, <1>3, LinksLeft
<1>5. Save(o, all, Dropped(prefs, o, k), Dropped(page, o, k), editor)
  BY <1>1 DEF WithLinks
<1>6. givenUp' \in [Uuids -> SUBSET Contents] /\ givenUp'[u] = givenUp[u] \cup {old}
      /\ \A w \in Uuids : w # u => givenUp'[w] = givenUp[w]
  BY <1>1, <1>3, <1>4 DEF ProfilesInv, SettingsTyped
<1> HIDE DEF o, list, old
<1>7. HaveLinks(all, stored, givenUp')
  <2>1. \A w \in Uuids : givenUp[w] \subseteq givenUp'[w]
    BY <1>6
  <2>2. ToSet(objects[o].links) \ ToSet(list) \subseteq givenUp'[objects[o].uuid]
    BY <1>4, <1>6
  <2> QED
    BY <1>2, <1>4, <2>1, <2>2, Lacking
<1>8. /\ Typed(all) /\ DOMAIN all = DOMAIN objects
      /\ \A x \in DOMAIN objects : all[x].uuid = objects[x].uuid
  BY <1>2, <1>4, WithLinksFits
<1>9. /\ ViewFits(Dropped(prefs, o, k), all) /\ ViewFits(Dropped(page, o, k), all)
      /\ Dropped(prefs, o, k).shows = prefs.shows
  BY <1>2, <1>3, <1>4, ViewChanged
<1>10. EditorFits(editor, all)
  BY <1>2, Before DEF EditorFits
<1>11. ToastsFit(toasts', all)
  <2>1. [profile |-> o, index |-> k, content |-> old] \in Toasts
    BY <1>2, <1>3, <1>4 DEF Toasts
  <2> QED
    BY <1>1, <1>2, <1>8, <2>1, Before DEF ToastsFit
<1> HIDE DEF all
<1> QED
  BY <1>1, <1>2, <1>5, <1>6, <1>7, <1>8, <1>9, <1>10, <1>11, Saved

LEMMA UndoRemoveLinkStep ==
    ASSUME ProfilesInv, NEW x, UndoRemoveLink(x) PROVE ProfilesInv' /\ ProfilesAct
<1> DEFINE o == x.profile
           n == Len(objects[o].links)
           k == IF x.index - 1 <= n THEN x.index ELSE n + 1
           list == InsertAt(objects[o].links, k, x.content)
           all == WithLinks(o, list)
           e == IF editor.of = o /\ editor.at >= k THEN [editor EXCEPT !.at = @ + 1] ELSE editor
<1>1. /\ x \in toasts /\ x.index # 0 /\ toasts' = toasts \ {x}
      /\ UNCHANGED << uuids, default, used, current, history >>
      /\ Save(o, [objects EXCEPT ![o].links = InsertAt(@, k, x.content)],
              Inserted(prefs, o, k), Inserted(page, o, k), e)
  BY DEF UndoRemoveLink
<1>2. x \in Toasts /\ o \in DOMAIN objects
  BY <1>1, Before DEF ToastsFit
<1>3. /\ objects[o].links \in LinkLists /\ n \in Nat /\ o # 0
      /\ ViewFits(prefs, objects) /\ ViewFits(page, objects)
  BY <1>2, Before, LenProperties DEF LinkLists
<1>4. k \in 1 .. n + 1 /\ x.content \in Contents
  BY <1>1, <1>2, <1>3 DEF Toasts
<1>5. Save(o, all, Inserted(prefs, o, k), Inserted(page, o, k), e)
  BY <1>1 DEF WithLinks
<1> HIDE DEF o, k
<1>6. /\ list \in LinkLists /\ Len(list) = Len(objects[o].links) + 1
      /\ ToSet(objects[o].links) \subseteq ToSet(list)
  BY <1>3, <1>4, LinksPut
<1>7. givenUp' = givenUp /\ givenUp' \in [Uuids -> SUBSET Contents]
  BY <1>1 DEF history, ProfilesInv, SettingsTyped
<1> HIDE DEF list
<1>8. HaveLinks(all, stored, givenUp')
  <2>1. ToSet(objects[o].links) \ ToSet(list) \subseteq givenUp'[objects[o].uuid]
    BY <1>6
  <2>2. \A w \in Uuids : givenUp[w] \subseteq givenUp'[w]
    BY <1>7
  <2> QED
    BY <1>2, <1>6, <2>1, <2>2, Lacking
<1>9. /\ Typed(all) /\ DOMAIN all = DOMAIN objects
      /\ \A y \in DOMAIN objects : all[y].uuid = objects[y].uuid
      /\ all[o].links = list
      /\ \A y \in DOMAIN objects : y # o => all[y] = objects[y]
  BY <1>2, <1>6, WithLinksFits
<1>10. /\ ViewFits(Inserted(prefs, o, k), all) /\ ViewFits(Inserted(page, o, k), all)
       /\ Inserted(prefs, o, k).shows = prefs.shows
  BY <1>2, <1>3, <1>4, <1>6, ViewChanged
<1>11. EditorFits(e, all)
  <2>1. EditorFits(editor, objects) /\ NoEditor.of = 0
    BY Before DEF NoEditor
  <2>2. CASE editor.of = o
    <3>1. editor # NoEditor /\ editor.at <= n /\ editor \in Editors
          /\ {editor.profile, editor.of} \subseteq DOMAIN objects
      BY <1>3, <2>1, <2>2 DEF EditorFits
    <3>2. e \in Editors /\ e.profile = editor.profile /\ e.of = editor.of /\ e.at <= n + 1
      BY <1>3, <2>2, <3>1 DEF Editors
    <3> QED
      BY <1>6, <1>9, <2>2, <3>1, <3>2 DEF EditorFits
  <2>3. CASE editor.of # o
    BY <1>9, <2>1, <2>3 DEF EditorFits
  <2> QED
    BY <2>2, <2>3
<1>12. ToastsFit(toasts', all)
  BY <1>1, <1>9, Before DEF ToastsFit
<1> HIDE DEF all, e
<1>13. Inserted(prefs, o, k).shows \in {0, prefs.shows}
  BY <1>10
<1> QED
  BY <1>1, <1>2, <1>5, <1>7, <1>8, <1>9, <1>10, <1>11, <1>12, <1>13, Saved

-----------------------------------------------------------------------------
(* The list of profiles *)

(* A profile that comes into the list is a new one there.                     *)
LEMMA Joined ==
    ASSUME ProfilesInv, NEW u \in Uuids, ~Contains(uuids, u)
    PROVE  /\ Append(uuids, u) \in Seq(Uuids) /\ IsInjective(Append(uuids, u))
           /\ ToSet(Append(uuids, u)) = ToSet(uuids) \cup {u}
<1>1. /\ uuids \in Seq(Uuids) /\ IsInjective(uuids) /\ DOMAIN uuids = 1 .. Len(uuids) /\ Len(uuids) \in Nat
      /\ \A i \in 1 .. Len(uuids) : uuids[i] # u
  BY LenProperties DEF ProfilesInv, ListFits, Contains
<1> DEFINE s == Append(uuids, u)
<1>2. /\ s \in Seq(Uuids) /\ DOMAIN s = 1 .. Len(uuids) + 1
      /\ \A i \in 1 .. Len(uuids) : s[i] = uuids[i]
      /\ s[Len(uuids) + 1] = u
  BY <1>1
<1> HIDE DEF s
<1>3. IsInjective(s)
  BY <1>1, <1>2 DEF IsInjective
<1>4. ToSet(s) = ToSet(uuids) \cup {u}
  BY <1>1, <1>2 DEF ToSet
<1> QED
  BY <1>2, <1>3, <1>4 DEF s

(* Add, once u is used and its links are what is stored.                       *)
LEMMA Added ==
    ASSUME ProfilesInv, NEW u \in Uuids, Add(u), used' = used \cup {u},
           stored' \in [Uuids -> LinkLists], \A w \in Uuids : w # u => stored'[w] = stored[w],
           u \in used => stored' = stored,
           UNCHANGED << tabs, page, editor, givenUp >>, toasts' \subseteq toasts
    PROVE  ProfilesInv' /\ ProfilesAct
<1>1. ToastsFit(toasts', objects)
  BY Before DEF ToastsFit
<1>2. used \subseteq Uuids /\ ToSet(uuids) \subseteq used /\ default \in ToSet(uuids)
      /\ \A w \in Uuids \ used : stored[w] = << >>
  BY DEF ProfilesInv, SettingsTyped, ListFits
<1>3. CASE Contains(uuids, u)
  <2>1. u \in used
    BY <1>2, <1>3 DEF Contains, ToSet
  <2>2. UNCHANGED << settings, current, givenUp, prefs >> /\ Keep(objects)
    BY <1>2, <1>3, <2>1 DEF Add, settings
  <2> QED
    BY <1>1, <2>2, Before, Held1 DEF TabsStay
<1>4. CASE ~Contains(uuids, u)
  <2>1. /\ Remade(Append(uuids, u)) /\ default' = default /\ prefs' = prefs /\ Keep(WithMade)
    BY <1>4 DEF Add
  <2>2. Rebound(WithMade)
    BY <2>1 DEF Rebound
  <2>3. /\ Append(uuids, u) \in Seq(Uuids) /\ IsInjective(Append(uuids, u))
        /\ ToSet(Append(uuids, u)) = ToSet(uuids) \cup {u}
    BY <1>4, Joined
  <2>4. /\ \A w \in used : stored'[w] = stored[w]
        /\ \A w \in Uuids \ used' : stored'[w] = << >>
    BY <1>2
  <2>5. /\ used \subseteq used' /\ used' \subseteq Uuids /\ ToSet(Append(uuids, u)) \subseteq used'
        /\ default' \in ToSet(Append(uuids, u)) /\ UNCHANGED << tabs, editor, givenUp >>
        /\ ViewFits(page', objects)
    BY <1>2, <2>1, <2>3, Before
  <2> QED
    BY <1>1, <2>1, <2>2, <2>3, <2>4, <2>5, ListRemade
<1> QED
  BY <1>3, <1>4

LEMMA AddActions ==
    ASSUME ProfilesInv,
           \/ \E u \in Uuids : AddProfile(u)
           \/ \E u \in Uuids, i \in DOMAIN uuids : Duplicate(i, u)
           \/ \E x \in toasts : UndoRemoveProfile(x)
    PROVE  ProfilesInv' /\ ProfilesAct
<1>1. stored \in [Uuids -> LinkLists] /\ used \subseteq Uuids
  BY DEF ProfilesInv, SettingsTyped
<1>2. ASSUME NEW u \in Uuids, AddProfile(u) PROVE ProfilesInv' /\ ProfilesAct
  BY <1>1, <1>2, Added DEF AddProfile
<1>3. ASSUME NEW u \in Uuids, NEW i \in DOMAIN uuids, Duplicate(i, u) PROVE ProfilesInv' /\ ProfilesAct
  <2>1. uuids[i] \in Uuids
    BY LenProperties, ElementOfSeq DEF ProfilesInv, ListFits
  <2>2. stored' \in [Uuids -> LinkLists] /\ \A w \in Uuids : w # u => stored'[w] = stored[w]
    BY <1>1, <1>3, <2>1 DEF Duplicate
  <2> QED
    BY <1>3, <2>2, Added DEF Duplicate
<1>4. ASSUME NEW x \in toasts, UndoRemoveProfile(x) PROVE ProfilesInv' /\ ProfilesAct
  <2> DEFINE u == objects[x.profile].uuid
  <2>1. u \in used
    BY Before DEF ToastsFit, ProfilesInv
  <2>2. /\ toasts' \subseteq toasts /\ UNCHANGED << stored, used, tabs, page, editor, givenUp >> /\ Add(u)
    BY <1>4 DEF UndoRemoveProfile, history
  <2>3. used' = used \cup {u} /\ u \in Uuids /\ stored' \in [Uuids -> LinkLists]
    BY <1>1, <2>1, <2>2
  <2> HIDE DEF u
  <2> QED
    BY <2>2, <2>3, Added
<1> QED
  BY <1>2, <1>3, <1>4

LEMMA RemoveProfileStep ==
    ASSUME ProfilesInv, NEW i \in DOMAIN uuids, NEW fresh \in Uuids, RemoveProfile(i, fresh)
    PROVE  ProfilesInv' /\ ProfilesAct
<1> DEFINE o == IF page # None THEN page.shows ELSE current[i]
           u == objects[o].uuid
           left == RemoveFirst(uuids, u)
           ids == IF left = << >> THEN << fresh >> ELSE left
           x == [profile |-> o, index |-> 0, content |-> Blank]
<1>1. /\ OnRows /\ fresh \notin used
      /\ toasts' = toasts \cup {x} /\ page' = None
      /\ UNCHANGED << stored, tabs, editor, givenUp >>
      /\ RemoveUuid(u, fresh) /\ Keep(WithMade)
  BY DEF RemoveProfile
<1>2. o \in DOMAIN objects
  BY <1>1, TopFits, LenProperties DEF ProfilesInv, ListFits
<1>3. ToastsFit(toasts', objects)
  <2>1. x \in Toasts
    BY <1>2, Before, ProfilesAssumption DEF Toasts
  <2> QED
    BY <1>1, <1>2, <2>1, Before DEF ToastsFit
<1>4. /\ uuids \in Seq(Uuids) /\ IsInjective(uuids) /\ default \in ToSet(uuids)
      /\ used \subseteq Uuids /\ ToSet(uuids) \subseteq used
      /\ stored \in [Uuids -> LinkLists] /\ \A w \in Uuids \ used : stored[w] = << >>
  BY DEF ProfilesInv, ListFits, SettingsTyped
<1>5. /\ Remade(ids) /\ default' = (IF u = default THEN uuids'[1] ELSE default)
      /\ used' = used \cup ToSet(uuids') /\ Rebound(WithMade)
  BY <1>1 DEF RemoveUuid
<1>6. uuids' = ids
  BY <1>5 DEF Remade
<1> HIDE DEF u
<1>7. left \in Seq(Uuids) /\ IsInjective(left) /\ ToSet(left) = ToSet(uuids) \ {u}
  BY <1>4, RemoveFirstProperties
<1> HIDE DEF left
<1>8. << fresh >> \in Seq(Uuids) /\ IsInjective(<< fresh >>) /\ ToSet(<< fresh >>) = {fresh}
  BY DEF IsInjective, ToSet
<1>9. ids \in Seq(Uuids) /\ IsInjective(ids) /\ ToSet(ids) \subseteq Uuids /\ ids # << >>
  <2>1. ToSet(ids) \subseteq Uuids
    BY <1>4, <1>7, <1>8
  <2>2. << fresh >> # << >>
    OBVIOUS
  <2> QED
    BY <1>7, <1>8, <2>1, <2>2
<1>10. default' \in ToSet(ids)
  <2>1. CASE u = default
    <3>1. 1 \in DOMAIN ids
      BY <1>9, EmptySeq, LenProperties
    <3> QED
      BY <1>5, <1>6, <2>1, <3>1 DEF ToSet
  <2>2. CASE u # default
    <3>1. default \in ToSet(left)
      BY <1>4, <1>7, <2>2
    <3>2. left # << >>
      BY <3>1 DEF ToSet
    <3> QED
      BY <1>5, <2>2, <3>1, <3>2
  <2> QED
    BY <2>1, <2>2
<1>11. /\ used \subseteq used' /\ used' \subseteq Uuids /\ ToSet(ids) \subseteq used'
       /\ stored' \in [Uuids -> LinkLists]
       /\ \A w \in used : stored'[w] = stored[w]
       /\ \A w \in Uuids \ used' : stored'[w] = << >>
       /\ ViewFits(page', objects)
  BY <1>1, <1>4, <1>5, <1>6, <1>9, Before
<1> HIDE DEF ids
<1> QED
  BY <1>1, <1>3, <1>5, <1>9, <1>10, <1>11, ListRemade

LEMMA MakeDefaultStep ==
    ASSUME ProfilesInv, NEW i \in DOMAIN uuids, MakeDefault(i) PROVE ProfilesInv' /\ ProfilesAct
<1> DEFINE d == Default(uuids, default', current)
<1>1. /\ prefs # None /\ uuids[i] # default /\ default' = uuids[i]
      /\ UNCHANGED << uuids, stored, used, current, tabs, page, editor, toasts, givenUp >>
      /\ prefs' = View(d, d, objects) /\ Keep(objects)
  BY DEF MakeDefault, AtRoot, OnRows, Rebound, history
<1>2. ListFits(uuids', current', default', objects)
  BY <1>1 DEF ProfilesInv, ListFits, ToSet
<1>3. d \in DOMAIN objects /\ objects[d].uuid = default'
  BY <1>1, <1>2, DefaultThere
<1>4. ViewFits(prefs', objects) /\ prefs'.shows = d
  BY <1>1, <1>3, Before, ViewIsFit
<1>5. Fits(objects, current', tabs', prefs', page', editor', toasts')
  BY <1>1, <1>4 DEF ProfilesInv, Fits
<1>6. /\ Typed(objects') /\ Part(objects', objects)
      /\ Fits(objects', current', tabs', prefs', page', editor', toasts')
  BY <1>1, <1>5, KeepFits, Before
<1>7. \A o \in DOMAIN objects' : o \in DOMAIN objects /\ objects'[o] = objects[o]
  BY <1>6 DEF Part
<1>8. ListFits(uuids', current', default', objects')
  <2>1. \A j \in 1 .. Len(uuids) : current'[j] \in DOMAIN objects'
    BY <1>1, <1>6, LenProperties DEF Fits, ProfilesInv, ListFits, ToSet
  <2> QED
    BY <1>1, <1>2, <1>7, <2>1 DEF ListFits
<1>9. prefs'.shows # 0 => objects'[prefs'.shows].uuid = default'
  BY <1>3, <1>4, <1>6, <1>7 DEF Fits, ViewFits
<1>10. SettingsTyped' /\ HaveLinks(objects', stored', givenUp')
       /\ \A o \in DOMAIN objects' : objects'[o].uuid \in used'
  BY <1>1, <1>7 DEF ProfilesInv, SettingsTyped, HaveLinks
<1>11. ProfilesInv'
  BY <1>6, <1>8, <1>9, <1>10 DEF ProfilesInv
<1>12. NoneLost /\ ReachesAll /\ SameObjects /\ TabsStay /\ PageShows
  BY <1>1, <1>4, <1>7 DEF NoneLost, ReachesAll, SameObjects, TabsStay, PageShows
<1> QED
  BY <1>11, <1>12 DEF ProfilesAct

(* Whoever does something else leaves the profiles as they are.               *)
LEMMA ProfilesAlone ==
    ASSUME ProfilesInv, UNCHANGED profilesBut PROVE ProfilesInv' /\ ProfilesAct
<1>1. /\ UNCHANGED << uuids, default, stored, used >>
      /\ UNCHANGED << objects, current, tabs, prefs, page, editor, toasts, givenUp >>
  BY DEF profilesBut, settings
<1>2. SettingsTyped'
  BY <1>1 DEF ProfilesInv, SettingsTyped
<1>3. ProfilesInv'
  BY <1>1, <1>2 DEF ProfilesInv, Typed, ListFits, Fits, TabsFit, ViewFits, EditorFits, ToastsFit, HaveLinks
<1>4. NoneLost /\ ReachesAll /\ SameObjects /\ TabsStay /\ PageShows
  BY <1>1 DEF NoneLost, ReachesAll, SameObjects, TabsStay, PageShows
<1> QED
  BY <1>3, <1>4 DEF ProfilesAct

LEMMA ElsewhereSteps == ASSUME ProfilesInv, Elsewhere PROVE ProfilesInv' /\ ProfilesAct
BY PageActions, TabActions DEF Elsewhere

LEMMA InPreferencesSteps == ASSUME ProfilesInv, InPreferences PROVE ProfilesInv' /\ ProfilesAct
<1>1. CASE AddLink \/ CloseEditor
  BY <1>1, AddLinkStep, CloseEditorStep
<1>2. CASE \E k \in 1 .. MaxLinks : EditLink(k) \/ RemoveLink(k)
  BY <1>2, EditLinkStep, RemoveLinkStep
<1>3. CASE \E c \in Contents : Type(c)
  BY <1>3, TypeStep
<1>4. CASE \E x \in toasts : UndoRemoveLink(x) \/ UndoRemoveProfile(x)
  BY <1>4, UndoRemoveLinkStep, AddActions
<1>5. CASE \E u \in Uuids : AddProfile(u) \/ \E i \in DOMAIN uuids : RemoveProfile(i, u)
  BY <1>5, AddActions, RemoveProfileStep
<1>6. CASE \E i \in DOMAIN uuids : MakeDefault(i) \/ EditProfile(i)
  BY <1>6, MakeDefaultStep, PageActions
<1>7. CASE Back \/ ClosePreferences
  BY <1>7, PageActions, CloseEditorStep
<1> QED
  BY <1>1, <1>2, <1>3, <1>4, <1>5, <1>6, <1>7 DEF InPreferences

LEMMA PageStepLeaves == PageStep => UNCHANGED profilesBut
<1>1. ASSUME NEW u, NEW k, NEW v, KeyChanges(u, k, v) PROVE UNCHANGED profilesBut
  BY <1>1 DEF KeyChanges, Changed
<1>2. ASSUME NEW u, NEW id, PaletteChanges(u, id) PROVE UNCHANGED profilesBut
  BY <1>2 DEF PaletteChanges
<1>3. ASSUME NEW k, NEW v, SetWidget(k, v) PROVE UNCHANGED profilesBut
  BY <1>3 DEF SetWidget
<1>4. ShowAll => UNCHANGED profilesBut
  BY DEF ShowAll, profileVars, profilesBut, history
<1>5. ASSUME NEW id, ActivatePalette(id) PROVE UNCHANGED profilesBut
  BY <1>2, <1>5 DEF ActivatePalette
<1>6. ASSUME NEW u, WrittenElsewhere(u) PROVE UNCHANGED profilesBut
  BY <1>1, <1>2, <1>6 DEF WrittenElsewhere
<1>7. EditorWrites => UNCHANGED profilesBut
  BY <1>1, <1>2 DEF EditorWrites
<1> QED
  BY <1>3, <1>4, <1>5, <1>6, <1>7 DEF PageStep

LEMMA ProfilesKept == ProfilesInv /\ [Next]_vars => ProfilesInv' /\ ProfilesAct
<1> SUFFICES ASSUME ProfilesInv, [Next]_vars PROVE ProfilesInv' /\ ProfilesAct
  OBVIOUS
<1>1. CASE ProfilesStep
  <2>1. ASSUME NEW i \in DOMAIN uuids, NEW u \in Uuids, Duplicate(i, u) PROVE ProfilesInv' /\ ProfilesAct
    BY <2>1, AddActions
  <2> QED
    BY <1>1, <2>1, ElsewhereSteps, InPreferencesSteps DEF ProfilesStep
<1>2. CASE PageStep
  BY <1>2, PageStepLeaves, ProfilesAlone
<1>3. CASE SettingsStep \/ FilesStep \/ KeysStep
  BY <1>3, ProfilesAlone DEF SettingsStep, FilesStep, KeysStep
<1>4. CASE UNCHANGED profilesBut
  BY <1>4, ProfilesAlone
<1>5. CASE UNCHANGED vars
  BY <1>5, ProfilesAlone DEF vars, profileVars, profilesBut, history
<1> QED
  BY <1>1, <1>2, <1>3, <1>4, <1>5 DEF Next

-----------------------------------------------------------------------------
(* The main page and the tabs *)

Sorts == {"bound", "silent", "mapped", "palette"}
HasSorts(r) == r = [k \in Sorts |-> r[k]]

(* A tab goes by values that are those of its profile, for want of a palette    *)
(* the one there always is.                                                 *)
GoesBy(a, now) ==
    HasSorts(a) /\ a.bound = now.bound /\ a.mapped = now.mapped /\ a.palette \in {now.palette, Gnome}
TabsGoBy(vals, ap) ==
    /\ vals \in [Uuids -> {vals[u] : u \in Uuids}] /\ \A u \in Uuids : HasSorts(vals[u])
    /\ \A t \in Tabs : tabs[t] # NoTab => GoesBy(ap[t], vals[objects[tabs[t].profile].uuid])

(* The widgets show what is stored for the default, and are bound to what the  *)
(* list of links shows.                                                     *)
PageShown ==
    /\ bound \subseteq DOMAIN objects
    /\ prefs # None =>
          /\ prefs.shows \in bound /\ HasSorts(widget)
          /\ widget.bound = values[default].bound /\ widget.mapped = values[default].mapped
          /\ filter = values[default].palette

GeneralShown ==
    /\ general = [k \in {"plain", "family", "system"} |-> general[k]]
    /\ prefs # None => pane = general
    /\ \A t \in Tabs : tabs[t] # NoTab =>
          /\ looks[t] = [k \in {"plain", "font"} |-> looks[t][k]]
          /\ looks[t].plain = general.plain
          /\ ~general.system /\ general.family # NoFont => looks[t].font = general.family

PageInv == TabsGoBy(values, applied) /\ PageShown /\ GeneralShown

(* Whatever is stored, tabs follow.                                          *)
LEMMA LooksLike ==
    ASSUME NEW r, HasSorts(r)
    PROVE  GoesBy(Looked(r), r)
<1> DEFINE p == IF Lookup(r.palette) THEN r.palette ELSE Gnome
           l == Looked(r)
<1>1. l = [r EXCEPT !.palette = p]
  BY DEF Looked
<1>2. DOMAIN r = Sorts
  BY DEF HasSorts
<1> HIDE DEF p
<1>3. /\ DOMAIN l = Sorts /\ l = [k \in DOMAIN l |-> l[k]]
      /\ l.palette = p /\ l.bound = r.bound /\ l.mapped = r.mapped
  BY <1>1, <1>2 DEF Sorts
<1> HIDE DEF l
<1> QED
  BY <1>3 DEF GoesBy, HasSorts, p, l

LEMMA Stored1 ==
    ASSUME ProfilesInv, ProfilesInv', ProfilesAct, TabsGoBy(values, applied), NEW new,
           new \in [Uuids -> {new[u] : u \in Uuids}], \A u \in Uuids : HasSorts(new[u]), Stores(new)
    PROVE  TabsGoBy(values, applied)' /\ values' = new
<1>1. values' = new /\ applied' = [t \in Tabs |-> Applied(t, new)]
  BY DEF Stores
<1>2. ASSUME NEW t \in Tabs, tabs'[t] # NoTab
      PROVE  GoesBy(applied'[t], new[objects'[tabs'[t].profile].uuid])
  <2> DEFINE u == objects'[tabs'[t].profile].uuid
             a == applied'[t]
  <2>1. tabs'[t].profile \in DOMAIN objects' /\ u \in Uuids
    BY <1>2 DEF ProfilesInv, Fits, TabsFit, Typed, ProfileObjects
  <2>2. HasSorts(new[u])
    BY <2>1
  <2>3. GoesBy(Looked(new[u]), new[u])
    BY <2>2, LooksLike
  <2>4. CASE tabs[t] = NoTab
    <3>1. a = Looked(new[u])
      BY <1>1, <1>2, <2>4 DEF Applied
    <3> QED
      BY <2>3, <3>1
  <2>5. CASE tabs[t] # NoTab
    <3>1. /\ tabs'[t].profile = tabs[t].profile
          /\ tabs[t].profile \in DOMAIN objects
      BY <1>2, <2>5, Before DEF ProfilesAct, TabsStay
    <3>2. objects[tabs[t].profile].uuid = u
      BY <2>1, <3>1 DEF ProfilesAct, SameObjects
    <3>3. GoesBy(applied[t], values[u])
      BY <2>5, <3>2 DEF TabsGoBy
    <3>4. a = [k \in DOMAIN Unset |->
                 IF k # "silent" /\ new[u][k] # values[u][k] THEN Looked(new[u])[k] ELSE applied[t][k]]
      BY <1>1, <1>2, <2>5 DEF Applied
    <3>5. DOMAIN Unset = Sorts
      BY DEF Unset, Sorts
    <3> HIDE DEF u, a
    <3>6. /\ HasSorts(a)
          /\ a.bound = (IF new[u].bound # values[u].bound THEN Looked(new[u]).bound ELSE applied[t].bound)
          /\ a.mapped = (IF new[u].mapped # values[u].mapped THEN Looked(new[u]).mapped ELSE applied[t].mapped)
          /\ a.palette = (IF new[u].palette # values[u].palette THEN Looked(new[u]).palette ELSE applied[t].palette)
      BY <3>4, <3>5 DEF HasSorts, Sorts
    <3> QED
      BY <2>3, <3>3, <3>6 DEF GoesBy, a, u
  <2> QED
    BY <2>4, <2>5
<1> QED
  BY <1>1, <1>2 DEF TabsGoBy

(* Nothing of the page and the tabs changes if nothing they look at does.      *)
LEMMA PageAlone ==
    ASSUME PageInv, UNCHANGED profilesBut, UNCHANGED << values, widget, bound, filter, applied >>
    PROVE  TabsGoBy(values, applied)' /\ PageShown'
BY DEF PageInv, TabsGoBy, PageShown, profilesBut, settings

LEMMA GeneralAlone ==
    ASSUME PageInv, UNCHANGED profilesBut, UNCHANGED generalVars
    PROVE  GeneralShown'
BY DEF PageInv, GeneralShown, profilesBut, settings, generalVars

-----------------------------------------------------------------------------
(* General settings *)

LEMMA IsSet ==
    ASSUME PageInv, UNCHANGED profilesBut, NEW key \in {"plain", "family", "system"}, NEW v, Set(key, v)
    PROVE  GeneralShown'
<1>1. /\ general' = [general EXCEPT ![key] = v]
      /\ pane' = IF prefs = None THEN pane ELSE general'
  BY DEF Set
<1>2. UNCHANGED << objects, tabs, prefs >>
  BY DEF profilesBut
<1>3. DOMAIN general = {"plain", "family", "system"}
  BY DEF PageInv, GeneralShown
<1>4. /\ general' = [k \in {"plain", "family", "system"} |-> general'[k]]
      /\ general'[key] = v /\ \A k \in {"plain", "family", "system"} : k # key => general'[k] = general[k]
  BY <1>1, <1>3
<1>5. ASSUME NEW t \in Tabs, tabs[t] # NoTab
      PROVE  /\ looks'[t] = [k \in {"plain", "font"} |-> looks'[t][k]]
             /\ looks'[t].plain = general'.plain
             /\ ~general'.system /\ general'.family # NoFont => looks'[t].font = general'.family
  <2>1. /\ looks[t] = [k \in {"plain", "font"} |-> looks[t][k]]
        /\ looks[t].plain = general.plain
        /\ ~general.system /\ general.family # NoFont => looks[t].font = general.family
    BY <1>5 DEF PageInv, GeneralShown
  <2>2. DOMAIN looks[t] = {"plain", "font"}
    BY <2>1
  <2>3. CASE key = "plain"
    <3>1. looks'[t] = [looks[t] EXCEPT !.plain = v]
      BY <1>5, <2>3 DEF Set
    <3>2. /\ looks'[t] = [k \in {"plain", "font"} |-> looks'[t][k]]
          /\ looks'[t].plain = v /\ looks'[t].font = looks[t].font
      BY <2>2, <3>1
    <3>3. general'.plain = v /\ general'.system = general.system /\ general'.family = general.family
      BY <1>4, <2>3
    <3> QED
      BY <2>1, <3>2, <3>3
  <2>4. CASE key # "plain"
    <3>1. looks'[t] = [looks[t] EXCEPT !.font = FontDesc(general')]
      BY <1>1, <1>5, <2>4 DEF Set
    <3>2. /\ looks'[t] = [k \in {"plain", "font"} |-> looks'[t][k]]
          /\ looks'[t].font = FontDesc(general') /\ looks'[t].plain = looks[t].plain
      BY <2>2, <3>1
    <3>3. general'.plain = general.plain
      BY <1>4, <2>4
    <3>4. ~general'.system /\ general'.family # NoFont => FontDesc(general') = general'.family
      BY DEF FontDesc
    <3> QED
      BY <2>1, <3>2, <3>3, <3>4
  <2> QED
    BY <2>3, <2>4
<1> QED
  BY <1>1, <1>2, <1>4, <1>5 DEF GeneralShown, PageInv

LEMMA SettingsSteps ==
    ASSUME PageInv, SettingsStep
    PROVE  GeneralShown'
<1>1. UNCHANGED profilesBut
  BY DEF SettingsStep
<1>2. ASSUME NEW key \in {"plain", "family", "system"}, NEW v, Set(key, v) PROVE GeneralShown'
  BY <1>1, <1>2, IsSet
<1>3. ASSUME UNCHANGED << general, pane, looks >> PROVE GeneralShown'
  BY <1>1, <1>3 DEF PageInv, GeneralShown, profilesBut
<1> QED
  BY <1>2, <1>3 DEF SettingsStep, SetPlain, SetUseSystemFont, FontChosen, SystemFontChanges, SelectCustomFont,
                    FontCancelled

LEMMA GeneralGoesOn ==
    ASSUME PageInv, GeneralFollows
    PROVE  GeneralShown'
<1>1. general' = general /\ systemFont' = systemFont
      /\ pane' = CASE prefs' = None -> NoPane
                   [] prefs' # None /\ prefs = None -> Stored
                   [] prefs' # None /\ prefs # None -> pane
  BY DEF GeneralFollows
<1>2. prefs' # None => pane' = general'
  BY <1>1 DEF PageInv, GeneralShown, Stored
<1>3. ASSUME NEW t \in Tabs, tabs'[t] # NoTab
      PROVE  /\ looks'[t] = [k \in {"plain", "font"} |-> looks'[t][k]]
             /\ looks'[t].plain = general.plain
             /\ ~general.system /\ general.family # NoFont => looks'[t].font = general.family
  <2>1. CASE tabs[t] = NoTab
    <3>1. looks'[t] = [plain |-> general.plain, font |-> FontDesc(general)]
      BY <1>3, <2>1 DEF GeneralFollows, Look, Stored
    <3> QED
      BY <3>1 DEF FontDesc
  <2>2. CASE tabs[t] # NoTab
    <3>1. looks'[t] = looks[t]
      BY <1>3, <2>2 DEF GeneralFollows
    <3> QED
      BY <2>2, <3>1 DEF PageInv, GeneralShown
  <2> QED
    BY <2>1, <2>2
<1> QED
  BY <1>1, <1>2, <1>3 DEF GeneralShown, PageInv

LEMMA DefaultHere ==
    ASSUME ProfilesInv
    PROVE  /\ default \in Uuids /\ default \in used /\ D \in DOMAIN objects /\ objects[D].uuid = default
           /\ prefs # None => prefs.shows \in DOMAIN objects /\ objects[prefs.shows].uuid = default
<1>1. D \in DOMAIN objects /\ objects[D].uuid = default
  BY DefaultThere DEF ProfilesInv, D
<1>2. ViewFits(prefs, objects)
  BY Before
<1> QED
  BY <1>1, <1>2 DEF ProfilesInv, SettingsTyped, ListFits, ViewFits

(* One key of one profile or more.                                           *)
LEMMA WithKey ==
    ASSUME TabsGoBy(values, applied), NEW us, NEW k \in Sorts, NEW v
    PROVE  /\ With(us, k, v) \in [Uuids -> {With(us, k, v)[u] : u \in Uuids}]
           /\ \A u \in Uuids : HasSorts(With(us, k, v)[u])
           /\ \A u \in Uuids : \A j \in Sorts :
                 With(us, k, v)[u][j] = IF u \in us /\ j = k THEN v ELSE values[u][j]
<1> DEFINE new == With(us, k, v)
<1>1. new = [u \in Uuids |-> IF u \in us THEN [values[u] EXCEPT ![k] = v] ELSE values[u]]
  BY DEF With
<1> HIDE DEF new
<1>2. ASSUME NEW u \in Uuids
      PROVE  HasSorts(new[u]) /\ \A j \in Sorts : new[u][j] = IF u \in us /\ j = k THEN v ELSE values[u][j]
  <2>1. HasSorts(values[u]) /\ DOMAIN values[u] = Sorts
    BY DEF TabsGoBy, HasSorts
  <2>2. CASE u \in us
    <3>1. new[u] = [values[u] EXCEPT ![k] = v]
      BY <1>1, <2>2
    <3> QED
      BY <2>1, <2>2, <3>1 DEF HasSorts
  <2>3. CASE u \notin us
    <3>1. new[u] = values[u]
      BY <1>1, <2>3
    <3> QED
      BY <2>1, <2>3, <3>1
  <2> QED
    BY <2>2, <2>3
<1>3. new \in [Uuids -> {new[u] : u \in Uuids}]
  BY <1>1
<1> QED
  BY <1>2, <1>3 DEF new

(* What a step stores that leaves the profiles alone.                         *)
LEMMA Stored2 ==
    ASSUME ProfilesInv, PageInv, UNCHANGED profilesBut, NEW us, NEW k \in Sorts, NEW v, Stores(With(us, k, v))
    PROVE  /\ TabsGoBy(values, applied)'
           /\ \A u \in Uuids : \A j \in Sorts : values'[u][j] = IF u \in us /\ j = k THEN v ELSE values[u][j]
<1>1. ProfilesInv' /\ ProfilesAct
  BY ProfilesAlone
<1>2. TabsGoBy(values, applied)
  BY DEF PageInv
<1> DEFINE new == With(us, k, v)
<1>3. /\ new \in [Uuids -> {new[u] : u \in Uuids}] /\ \A u \in Uuids : HasSorts(new[u])
      /\ \A u \in Uuids : \A j \in Sorts : new[u][j] = IF u \in us /\ j = k THEN v ELSE values[u][j]
  BY <1>2, WithKey
<1>4. Stores(new)
  OBVIOUS
<1> HIDE DEF new
<1>5. TabsGoBy(values, applied)' /\ values' = new
  BY <1>1, <1>2, <1>3, <1>4, Stored1
<1> QED
  BY <1>3, <1>5

LEMMA SetWidgetStep ==
    ASSUME ProfilesInv, PageInv, NEW k \in Kinds, NEW v, SetWidget(k, v)
    PROVE  TabsGoBy(values, applied)' /\ PageShown'
<1>1. /\ UNCHANGED << default, objects, prefs, bound, filter >> /\ prefs # None
      /\ widget' = [widget EXCEPT ![k] = v]
      /\ Stores(With(Bound(k), k, v)) /\ UNCHANGED profilesBut
  BY DEF SetWidget, profilesBut, settings, AtRoot, OnRows
<1>2. k \in Sorts
  BY DEF Kinds, Sorts
<1>3. /\ TabsGoBy(values, applied)'
      /\ \A u \in Uuids : \A j \in Sorts : values'[u][j] = IF u \in Bound(k) /\ j = k THEN v ELSE values[u][j]
  BY <1>1, <1>2, Stored2
<1>4. default \in Bound(k)
  BY <1>1, DefaultHere DEF PageInv, PageShown, Bound, Of
<1>5. default \in Uuids
  BY DefaultHere
<1>6. \A j \in Sorts : values'[default][j] = IF j = k THEN v ELSE values[default][j]
  BY <1>3, <1>4, <1>5
<1>7. HasSorts(widget') /\ \A j \in Sorts : widget'[j] = IF j = k THEN v ELSE widget[j]
  <2>1. HasSorts(widget) /\ DOMAIN widget = Sorts
    BY <1>1 DEF PageInv, PageShown, HasSorts
  <2> QED
    BY <1>1, <1>2, <2>1 DEF HasSorts
<1>8. k # "palette"
  BY DEF Kinds
<1>9. /\ widget'.bound = values'[default].bound /\ widget'.mapped = values'[default].mapped
      /\ filter' = values'[default].palette
  <2>1. /\ widget.bound = values[default].bound /\ widget.mapped = values[default].mapped
        /\ filter = values[default].palette
    BY <1>1 DEF PageInv, PageShown
  <2> QED
    BY <1>1, <1>6, <1>7, <1>8, <2>1 DEF Sorts
<1> QED
  BY <1>1, <1>3, <1>7, <1>9 DEF PageShown, PageInv

LEMMA KeyChangesStep ==
    ASSUME ProfilesInv, PageInv, NEW u \in Uuids, NEW k \in Kinds, NEW v, KeyChanges(u, k, v)
    PROVE  TabsGoBy(values, applied)' /\ PageShown'
<1> DEFINE heard == k # "silent" /\ u \in Bound(k)
           us == IF heard /\ k = "bound" THEN Bound(k) ELSE {u}
<1>1. /\ UNCHANGED << default, objects, prefs, bound, filter >>
      /\ widget' = (IF heard THEN [widget EXCEPT ![k] = v] ELSE widget)
      /\ Stores(With(us, k, v)) /\ UNCHANGED profilesBut
  BY DEF KeyChanges, Changed, profilesBut, settings
<1>2. k \in Sorts
  BY DEF Kinds, Sorts
<1> HIDE DEF us
<1>3. /\ TabsGoBy(values, applied)'
      /\ \A w \in Uuids : \A j \in Sorts : values'[w][j] = IF w \in us /\ j = k THEN v ELSE values[w][j]
  BY <1>1, <1>2, Stored2
<1>4. ASSUME prefs # None
      PROVE  /\ HasSorts(widget')
             /\ widget'.bound = values'[default].bound /\ widget'.mapped = values'[default].mapped
             /\ filter' = values'[default].palette
  <2>1. /\ HasSorts(widget) /\ DOMAIN widget = Sorts
        /\ widget.bound = values[default].bound /\ widget.mapped = values[default].mapped
        /\ filter = values[default].palette
    BY <1>4 DEF PageInv, PageShown, HasSorts
  <2>2. default \in Uuids /\ default \in Of(bound) /\ Of({prefs.shows}) = {default}
    BY <1>4, DefaultHere DEF Of, PageInv, PageShown
  <2>3. \A j \in Sorts : values'[default][j] = IF default \in us /\ j = k THEN v ELSE values[default][j]
    BY <1>3, <2>2
  <2>4. HasSorts(widget') /\ \A j \in Sorts : widget'[j] = IF heard /\ j = k THEN v ELSE widget[j]
    <3>1. CASE heard
      <4>1. widget' = [widget EXCEPT ![k] = v]
        BY <1>1, <3>1
      <4> QED
        BY <1>2, <2>1, <3>1, <4>1 DEF HasSorts
    <3>2. CASE ~heard
      BY <1>1, <2>1, <3>2
    <3> QED
      BY <3>1, <3>2
  <2>5. CASE k = "bound"
    <3>1. Bound(k) = Of(bound)
      BY <1>4, <2>5 DEF Bound
    <3>2. heard <=> default \in us
      BY <2>2, <2>5, <3>1 DEF us
    <3> QED
      BY <1>1, <2>1, <2>3, <2>4, <2>5, <3>2 DEF Sorts
  <2>6. CASE k = "mapped"
    <3>1. Bound(k) = {default}
      BY <1>4, <2>2, <2>6 DEF Bound
    <3>2. heard <=> default \in us
      BY <2>6, <3>1 DEF us
    <3> QED
      BY <1>1, <2>1, <2>3, <2>4, <2>6, <3>2 DEF Sorts
  <2>7. CASE k = "silent"
    BY <1>1, <2>1, <2>3, <2>4, <2>7 DEF Sorts
  <2> QED
    BY <2>4, <2>5, <2>6, <2>7 DEF Kinds
<1> QED
  BY <1>1, <1>3, <1>4 DEF PageShown, PageInv

LEMMA PaletteChangesStep ==
    ASSUME ProfilesInv, PageInv, NEW u \in Uuids, NEW id, PaletteChanges(u, id)
    PROVE  TabsGoBy(values, applied)' /\ PageShown'
<1>1. /\ UNCHANGED << default, objects, prefs, bound, widget >>
      /\ filter' = (IF u \in Of(bound) THEN values'[objects[D].uuid].palette ELSE filter)
      /\ Stores(With({u}, "palette", id)) /\ UNCHANGED profilesBut
  BY DEF PaletteChanges, profilesBut, settings
<1>2. /\ TabsGoBy(values, applied)'
      /\ \A w \in Uuids : \A j \in Sorts :
            values'[w][j] = IF w \in {u} /\ j = "palette" THEN id ELSE values[w][j]
  <2> DEFINE us == {u}
             k == "palette"
  <2>1. k \in Sorts /\ Stores(With(us, k, id))
    BY <1>1 DEF Sorts
  <2> HIDE DEF us, k
  <2>2. /\ TabsGoBy(values, applied)'
        /\ \A w \in Uuids : \A j \in Sorts : values'[w][j] = IF w \in us /\ j = k THEN id ELSE values[w][j]
    BY <1>1, <2>1, Stored2
  <2> QED
    BY <2>2 DEF us, k
<1>3. default \in Uuids /\ objects[D].uuid = default
  BY DefaultHere
<1>4. /\ values'[default].bound = values[default].bound /\ values'[default].mapped = values[default].mapped
      /\ u # default => values'[default].palette = values[default].palette
  BY <1>2, <1>3 DEF Sorts
<1>5. prefs # None => default \in Of(bound)
  BY DefaultHere DEF Of, PageInv, PageShown
<1> QED
  BY <1>1, <1>2, <1>3, <1>4, <1>5 DEF PageShown, PageInv

LEMMA PageSteps ==
    ASSUME ProfilesInv, PageInv, PageStep
    PROVE  TabsGoBy(values, applied)' /\ PageShown'
<1>1. ASSUME NEW k \in Kinds, NEW v, SetWidget(k, v) PROVE TabsGoBy(values, applied)' /\ PageShown'
  BY <1>1, SetWidgetStep
<1>2. ASSUME NEW u \in used, WrittenElsewhere(u) PROVE TabsGoBy(values, applied)' /\ PageShown'
  <2>1. u \in Uuids
    BY DEF ProfilesInv, SettingsTyped
  <2> QED
    BY <1>2, <2>1, KeyChangesStep, PaletteChangesStep DEF WrittenElsewhere
<1>3. CASE EditorWrites
  <2>1. objects[page.shows].uuid \in Uuids
    BY <1>3, TopFits, Before DEF EditorWrites
  <2> QED
    BY <1>3, <2>1, KeyChangesStep, PaletteChangesStep DEF EditorWrites
<1>4. CASE ShowAll
  <2>1. UNCHANGED profilesBut /\ UNCHANGED << values, widget, bound, filter, applied >>
    BY <1>4 DEF ShowAll, profileVars, profilesBut, history
  <2> QED
    BY <2>1, PageAlone
<1>5. ASSUME NEW id, ActivatePalette(id) PROVE TabsGoBy(values, applied)' /\ PageShown'
  <2>1. objects[prefs.shows].uuid \in Uuids
    BY <1>5, DefaultHere DEF ActivatePalette, AtRoot, OnRows
  <2> QED
    BY <1>5, <2>1, PaletteChangesStep DEF ActivatePalette
<1> QED
  BY <1>1, <1>2, <1>3, <1>4, <1>5 DEF PageStep

(* The widgets are bound to another default.                                  *)
LEMMA RebindsStep ==
    ASSUME ProfilesInv, ProfilesInv', ProfilesAct, PageInv, Rebinds, prefs # None, prefs' # None,
           default' # default
    PROVE  TabsGoBy(values, applied)' /\ PageShown'
<1> DEFINE d == Default(uuids', default', current')
           new == values[objects'[d].uuid]
           alive == bound \cap (DOMAIN objects' \cup ToSet(prefs.rows))
           Passed(u, k) == IF u \in Of(alive) /\ new[k] # widget[k] THEN new[k] ELSE values[u][k]
           Next1(both) == [u \in Uuids |->
                  [values[u] EXCEPT
                      !.bound = Passed(u, "bound"), !.silent = Passed(u, "silent"),
                      !.mapped = IF both /\ u \in Bound("mapped") THEN new.mapped ELSE @]]
<1>1. /\ bound' = (bound \cap DOMAIN objects') \cup {d} /\ widget' = new /\ filter' = new.palette
      /\ \E both \in BOOLEAN : Stores(Next1(both))
  BY DEF Rebinds
<1>2. PICK both \in BOOLEAN : Stores(Next1(both))
  BY <1>1
<1>3. /\ default' \in Uuids /\ d \in DOMAIN objects' /\ objects'[d].uuid = default'
  BY DefaultThere DEF ProfilesInv, ListFits, SettingsTyped
<1>4. TabsGoBy(values, applied) /\ HasSorts(new) /\ new = values[default']
  BY <1>3 DEF PageInv, TabsGoBy
<1> DEFINE nv == Next1(both)
<1>5. ASSUME NEW u \in Uuids
      PROVE  /\ HasSorts(nv[u]) /\ nv[u].bound = Passed(u, "bound")
             /\ nv[u].mapped = (IF both /\ u \in Bound("mapped") THEN new.mapped ELSE values[u].mapped)
             /\ nv[u].palette = values[u].palette
  <2> DEFINE b == Passed(u, "bound")
             s == Passed(u, "silent")
             mp == IF both /\ u \in Bound("mapped") THEN new.mapped ELSE values[u].mapped
  <2>1. nv[u] = [values[u] EXCEPT !.bound = b, !.silent = s, !.mapped = mp]
    OBVIOUS
  <2>2. DOMAIN values[u] = Sorts
    BY <1>4 DEF TabsGoBy, HasSorts
  <2> HIDE DEF b, s, mp, nv
  <2>3. HasSorts(nv[u]) /\ nv[u].bound = b /\ nv[u].mapped = mp /\ nv[u].palette = values[u].palette
    BY <2>1, <2>2 DEF Sorts, HasSorts
  <2> QED
    BY <2>3 DEF b, mp
<1>6. nv \in [Uuids -> {nv[u] : u \in Uuids}]
  OBVIOUS
<1> HIDE DEF nv
<1>7. Stores(nv)
  BY <1>2 DEF nv
<1>8. TabsGoBy(values, applied)' /\ values' = nv
  BY <1>4, <1>5, <1>6, <1>7, Stored1
<1>9. /\ values'[default'].bound = new.bound /\ values'[default'].mapped = new.mapped
      /\ values'[default'].palette = new.palette
  BY <1>3, <1>4, <1>5, <1>8
<1>10. prefs'.shows = d
  <2>1. ViewFits(prefs', objects')
    BY DEF ProfilesInv, Fits
  <2>2. prefs'.shows # 0
    BY <2>1 DEF ViewFits
  <2> QED
    BY <2>2 DEF ProfilesAct, PageShows
<1> HIDE DEF new, d
<1>11. bound' \subseteq DOMAIN objects' /\ prefs'.shows \in bound'
  BY <1>1, <1>3, <1>10
<1> QED
  BY <1>1, <1>4, <1>8, <1>9, <1>11 DEF PageShown

LEMMA PageGoesOn ==
    ASSUME ProfilesInv, ProfilesInv', ProfilesAct, PageInv, PageFollows
    PROVE  TabsGoBy(values, applied)' /\ PageShown'
<1>1. CASE prefs # None /\ prefs' # None /\ default' # default
  BY <1>1, RebindsStep DEF PageFollows
<1>2. CASE ~(prefs # None /\ prefs' # None /\ default' # default)
  <2>1. /\ Stores(values)
        /\ bound' = CASE prefs' = None -> {}
                       [] prefs' # None /\ prefs = None -> {D}
                       [] prefs' # None /\ prefs # None -> bound \cap DOMAIN objects'
        /\ IF prefs # None /\ prefs' # None THEN UNCHANGED << widget, filter, showAll >>
           ELSE /\ widget' = IF prefs' = None THEN Unset ELSE values[objects[D].uuid]
                /\ filter' = widget'.palette /\ showAll' = FALSE
    BY <1>2 DEF PageFollows
  <2>2. TabsGoBy(values, applied)
    BY DEF PageInv
  <2>3. TabsGoBy(values, applied)' /\ values' = values
    <3>1. /\ values \in [Uuids -> {values[u] : u \in Uuids}] /\ \A u \in Uuids : HasSorts(values[u])
      BY <2>2 DEF TabsGoBy
    <3> QED
      BY <2>1, <2>2, <3>1, Stored1
  <2>4. ViewFits(prefs', objects') /\ ViewFits(prefs, objects)
    BY DEF ProfilesInv, Fits
  <2>5. /\ prefs # None <=> prefs.shows # 0
        /\ prefs' # None <=> prefs'.shows # 0
        /\ prefs' # None => prefs'.shows \in DOMAIN objects'
    BY <2>4 DEF ViewFits, None
  <2>6. CASE prefs' = None
    BY <2>1, <2>3, <2>6 DEF PageShown
  <2>7. CASE prefs' # None /\ prefs = None
    <3>1. default' = default /\ prefs'.shows = D
      BY <2>5, <2>7 DEF ProfilesAct, PageShows
    <3>2. bound' = {D} /\ widget' = values[default] /\ filter' = widget'.palette
      BY <2>1, <2>7, DefaultHere
    <3>3. HasSorts(values[default])
      BY <2>2, DefaultHere DEF TabsGoBy
    <3> QED
      BY <2>3, <2>5, <2>7, <3>1, <3>2, <3>3 DEF PageShown
  <2>8. CASE prefs' # None /\ prefs # None
    <3>1. default' = default /\ prefs'.shows = prefs.shows
      BY <1>2, <2>5, <2>8 DEF ProfilesAct, PageShows
    <3>2. bound' = bound \cap DOMAIN objects' /\ UNCHANGED << widget, filter >>
      BY <2>1, <2>8
    <3> QED
      BY <2>3, <2>5, <2>8, <3>1, <3>2 DEF PageShown, PageInv
  <2> QED
    BY <2>6, <2>7, <2>8
<1> QED
  BY <1>1, <1>2

LEMMA DuplicateStep ==
    ASSUME ProfilesInv, ProfilesInv', ProfilesAct, PageInv, NEW i \in DOMAIN uuids, NEW u \in Uuids,
           Duplicate(i, u), Stores([values EXCEPT ![u] = values[uuids[i]]]),
           bound' = bound \cap DOMAIN objects', UNCHANGED << widget, filter >>
    PROVE  TabsGoBy(values, applied)' /\ PageShown'
<1> DEFINE new == [values EXCEPT ![u] = values[uuids[i]]]
<1>1. TabsGoBy(values, applied)
  BY DEF PageInv
<1>2. uuids[i] \in Uuids
  BY LenProperties, ElementOfSeq DEF ProfilesInv, ListFits
<1>3. /\ new \in [Uuids -> {new[w] : w \in Uuids}] /\ \A w \in Uuids : HasSorts(new[w])
      /\ \A w \in Uuids : w # u => new[w] = values[w]
  BY <1>1, <1>2 DEF TabsGoBy
<1>4. Stores(new)
  OBVIOUS
<1> HIDE DEF new
<1>5. TabsGoBy(values, applied)' /\ values' = new
  BY <1>1, <1>3, <1>4, Stored1
<1>6. default \in used /\ default \in Uuids /\ u \notin used
  BY DefaultHere DEF Duplicate
<1>7. default' = default /\ prefs' = prefs
  BY DEF Duplicate, Add
<1>8. values'[default] = values[default]
  BY <1>3, <1>5, <1>6
<1>9. prefs' # None => prefs'.shows \in DOMAIN objects'
  BY DEF ProfilesInv, Fits, ViewFits
<1> QED
  BY <1>5, <1>7, <1>8, <1>9 DEF PageShown, PageInv

LEMMA PageStart == Init => PageInv
<1> SUFFICES ASSUME Init PROVE PageInv
  OBVIOUS
<1>1. /\ values = [u \in Uuids |-> IF u = First THEN AtFirstSet ELSE Schema]
      /\ bound = {} /\ prefs = None /\ \A t \in Tabs : tabs[t] = NoTab
      /\ general = [plain |-> 0, family |-> NoFont, system |-> TRUE]
  BY DEF Init, PageInit, ProfilesInit, GeneralInit
<1>2. HasSorts(AtFirstSet) /\ HasSorts(Schema)
  BY PreferencesAssumption DEF HasSorts, Sorts
<1>3. TabsGoBy(values, applied)
  BY <1>1, <1>2 DEF TabsGoBy
<1> QED
  BY <1>1, <1>3 DEF PageInv, PageShown, GeneralShown

LEMMA PageKept ==
    ASSUME ProfilesInv, ProfilesInv', ProfilesAct, PageInv, [Next]_vars
    PROVE  PageInv'
<1>1. CASE ProfilesStep /\ GeneralFollows
  <2>1. GeneralShown'
    BY <1>1, GeneralGoesOn
  <2>2. CASE PageFollows
    BY <2>1, <2>2, PageGoesOn DEF PageInv
  <2>3. CASE ~PageFollows
    <3>1. PICK i \in DOMAIN uuids, u \in Uuids :
             /\ Duplicate(i, u) /\ Stores([values EXCEPT ![u] = values[uuids[i]]])
             /\ bound' = bound \cap DOMAIN objects' /\ UNCHANGED << widget, filter >>
      BY <1>1, <2>3 DEF ProfilesStep
    <3> QED
      BY <2>1, <3>1, DuplicateStep DEF PageInv
  <2> QED
    BY <2>2, <2>3
<1>2. CASE PageStep /\ UNCHANGED generalVars
  BY <1>2, PageSteps, PageStepLeaves, GeneralAlone DEF PageInv
<1>3. CASE SettingsStep /\ UNCHANGED pageVars
  <2>1. UNCHANGED profilesBut /\ UNCHANGED << values, widget, bound, filter, applied >>
    BY <1>3 DEF SettingsStep, pageVars
  <2> QED
    BY <1>3, <2>1, SettingsSteps, PageAlone DEF PageInv
<1>4. CASE UNCHANGED profilesBut /\ UNCHANGED generalVars /\ UNCHANGED pageVars
  <2>1. UNCHANGED << values, widget, bound, filter, applied >>
    BY <1>4 DEF pageVars
  <2> QED
    BY <1>4, <2>1, GeneralAlone, PageAlone DEF PageInv
<1>5. (FilesStep \/ KeysStep) => UNCHANGED profilesBut
  BY DEF FilesStep, KeysStep
<1>6. UNCHANGED profileVars => UNCHANGED profilesBut
  BY DEF profileVars, profilesBut, history
<1> QED
  BY <1>1, <1>2, <1>3, <1>4, <1>5, <1>6 DEF Next, vars

LEMMA ShownIsStored == ProfilesInv /\ PageInv => ShownAsStored
<1> SUFFICES ASSUME ProfilesInv, PageInv PROVE ShownAsStored
  OBVIOUS
<1>1. objects[D].uuid = default
  BY DefaultHere
<1> QED
  BY <1>1 DEF PageInv, PageShown, GeneralShown, TabsGoBy, GoesBy, ShownAsStored

-----------------------------------------------------------------------------
(* What the specification of the preferences has                             *)

(* For any profiles, objects and changes: the objects of the application are    *)
(* those of the list of profiles, in its order and with its uuids, the default  *)
(* is one of them, whoever holds an object holds one that is there, and none    *)
(* lacks a stored link but those the user gave up.                            *)
THEOREM ProfilesHold == Spec => []ProfilesInv
<1>1. Init => ProfilesInv
  BY ProfilesStart DEF Init
<1>2. ProfilesInv /\ [Next]_vars => ProfilesInv'
  BY ProfilesKept
<1> QED
  BY <1>1, <1>2, PTL DEF Spec

(* For any number of objects of a profile and however long they are held: none  *)
(* saves an older list over a link that is stored.                            *)
THEOREM NoLinkIsLost == Spec => LinksNeverLost
<1>1. ProfilesInv /\ [Next]_vars
        => [\A u \in Uuids : ToSet(stored[u]) \ ToSet(stored'[u]) \subseteq givenUp'[u]]_profileVars
  BY ProfilesKept DEF ProfilesAct, NoneLost
<1> QED
  BY <1>1, ProfilesHold, PTL DEF Spec, LinksNeverLost

(* For any number of objects and tabs of a profile: what one saves all have.    *)
THEOREM EverySaveReachesAll == Spec => SavesReachAll
<1>1. ProfilesInv /\ [Next]_vars
        => [\A u \in Uuids : stored'[u] # stored[u] =>
              /\ \A o \in DOMAIN objects' : objects'[o].uuid = u => objects'[o].links = stored'[u]
              /\ \A t \in Tabs :
                   (tabs'[t] # NoTab /\ objects'[tabs'[t].profile].uuid = u)
                   => tabs'[t].links = stored'[u]]_profileVars
  BY ProfilesKept DEF ProfilesAct, ReachesAll
<1> QED
  BY <1>1, ProfilesHold, PTL DEF Spec, SavesReachAll

(* For any values of keys, palettes and fonts, and any number of tabs: what is  *)
(* shown and gone by is what is stored.                                      *)
THEOREM AlwaysShownAsStored == Spec => []ShownAsStored
<1>1. Init => ProfilesInv /\ PageInv
  BY ProfilesStart, PageStart DEF Init
<1>2. ProfilesInv /\ PageInv /\ [Next]_vars => ProfilesInv' /\ PageInv'
  BY ProfilesKept, PageKept
<1>3. ProfilesInv /\ PageInv => ShownAsStored
  BY ShownIsStored
<1> QED
  BY <1>1, <1>2, <1>3, PTL DEF Spec

(* For any shortcuts and keys: a dialog stores what was last asked of it, and   *)
(* menus and rows show what is stored.                                       *)
THEOREM AlwaysStoresWhatWasPressed == Spec => StoresWhatWasPressed
<1>1. Init => ShortcutsInv
  BY ShortcutsStart DEF Init
<1>2. ShortcutsInv /\ [Next]_vars => ShortcutsInv' /\ [Pressed]_shortcutVars
  BY ShortcutsMove
<1> QED
  BY <1>1, <1>2, PTL DEF Spec, StoresWhatWasPressed, Pressed

(* For any terminals, links and texts on the clipboard: what a terminal offers  *)
(* works.                                                                   *)
THEOREM AlwaysOffersWhatWorks == Spec => []OffersWhatWorks
<1>1. Init => TermInv
  BY TermStart DEF Init
<1>2. TermInv /\ [Next]_vars => TermInv'
  BY TermMove
<1>3. TermInv => OffersWhatWorks
  BY DEF TermInv, Offering, OffersWhatWorks
<1> QED
  BY <1>1, <1>2, <1>3, PTL DEF Spec

(* For any number of drops, whatever is dropped and whenever reading it fails:  *)
(* each step of a drop is one that DropAnswer allows.                         *)
THEOREM DropsAreAnswered == Spec => DA!Safety
<1>1. Init => DropInv /\ DA!Init
  BY DropStart DEF Init
<1>2. DropInv /\ [Next]_vars => DropInv' /\ [DA!Next]_(DA!vars)
  BY DropsMove
<1> QED
  BY <1>1, <1>2, PTL DEF Spec, DA!Safety

-----------------------------------------------------------------------------
(* Migration of the settings                                                 *)

Dumps(target) == [Under(target) -> Settings]
AllDumps == UNION {Dumps(target) : target \in Targets}
Jobs == [operation : {"none", "migrate", "rollback"}, target : Targets, state : 0..MaxRuns]
States == [operation : {"migrate", "rollback"}, target : Targets,
           before : AllDumps \cup {NoDump}, result : {"none", "success", "restored"}]
FilesShape == [source |-> files.source, before |-> files.before, after |-> files.after]

Early     == {"idle", "dump-source", "dump-target"}
Compared  == {"make-state", "copy-before", "load"}  \* the target was dumped, not written
Recorded  == {"copy-before", "load", "dump-after", "validate", "reset", "restore-reset",
              "restore-load", "verify", "check-source"}
Steps     == Early \cup {"make-state"} \cup Recorded

MigrationTypeOK ==
    /\ dconf \in [Namespaces -> Settings]
    /\ states \in Seq(States)
    /\ step \in Steps
    /\ job \in Jobs
    /\ files = FilesShape
    /\ disturbed \in BOOLEAN
    /\ migrated \subseteq Targets
    /\ step # "idle" => job.operation # "none"

(* The last state directory is the one of the run that goes on.            *)
OwnState ==
    step \in Recorded =>
        /\ states # << >>
        /\ states[Len(states)].operation = job.operation
        /\ states[Len(states)].target = job.target

(* What was dumped is kept until it is needed.                             *)
DumpKept ==
    /\ step \in {"dump-target"} \cup Compared => files.source \in Settings
    /\ step \in {"make-state", "copy-before", "load"} =>
         /\ files.before \in Dumps(job.target)
         /\ job.operation = "migrate" => Empty(files.before)
    /\ step = "restore-load" => files.before \in Dumps(job.target)
    /\ step \in {"restore-reset", "verify"} /\ job.operation = "rollback"
          => files.before \in Dumps(job.target)
    /\ step \in {"reset", "check-source"} => files.before \in Dumps(job.target)

(* The target is only written once its copy is in the state directory.     *)
CopiedFirst ==
    step = "load" =>
        /\ job.operation = "migrate"
        /\ states[Len(states)].before = files.before

(* Only a migration loads and compares, only a rollback looks at the source again. *)
Copying ==
    /\ step \in {"dump-after", "validate"} => job.operation = "migrate"
    /\ step \in {"reset", "check-source"} => job.operation = "rollback"

(* Until then it is what was dumped, unless another program wrote.         *)
StillDumped ==
    step \in Compared /\ ~disturbed => Dump(job.target) = files.before

MigrationInv ==
    /\ MigrationTypeOK
    /\ OwnState
    /\ DumpKept
    /\ CopiedFirst
    /\ Copying
    /\ StillDumped
    /\ CanRollBack
    /\ NeverMerges

-----------------------------------------------------------------------------
(* Functions of given *)

LEMMA OverNothing ==
    ASSUME NEW new \in Settings, NEW old, old = NoSettings
    PROVE  Over(new, old) = new
BY DEF Over, NoSettings, Settings

LEMMA OverTyped ==
    ASSUME NEW new \in Settings, NEW old \in Settings
    PROVE  Over(new, old) \in Settings
<1>1. PICK K \in SUBSET SettingKeys : new \in [K -> Vals]
  BY DEF Settings
<1>2. PICK L \in SUBSET SettingKeys : old \in [L -> Vals]
  BY DEF Settings
<1>3. Over(new, old) \in [K \cup L -> Vals]
  BY <1>1, <1>2 DEF Over
<1>4. K \cup L \in SUBSET SettingKeys
  OBVIOUS
<1> QED
  BY <1>3, <1>4 DEF Settings

LEMMA NoSettingsTyped == NoSettings \in Settings
<1>1. NoSettings \in [{} -> Vals]
  BY DEF NoSettings
<1> QED
  BY <1>1 DEF Settings

LEMMA UnderNamespaces ==
    ASSUME NEW target \in Targets
    PROVE  Under(target) \subseteq Targets /\ Under(target) \subseteq Namespaces
           /\ target \in Under(target)
BY DEF Under, Targets, Namespaces

LEMMA DumpTyped ==
    ASSUME dconf \in [Namespaces -> Settings], NEW target \in Targets
    PROVE  Dump(target) \in Dumps(target)
BY UnderNamespaces DEF Dump, Dumps

LEMMA LoadedTyped ==
    ASSUME dconf \in [Namespaces -> Settings], NEW target \in Targets, NEW dump \in Dumps(target)
    PROVE  Loaded(dump) \in [Namespaces -> Settings]
<1>1. DOMAIN dump = Under(target) /\ \A n \in Under(target) : dump[n] \in Settings
  BY DEF Dumps
<1>2. ASSUME NEW n \in Namespaces
      PROVE  (IF n \in DOMAIN dump THEN Over(dump[n], dconf[n]) ELSE dconf[n]) \in Settings
  BY <1>1, OverTyped
<1> QED
  BY <1>2 DEF Loaded

LEMMA RelativeTyped ==
    ASSUME NEW target \in Targets, NEW given \in Settings
    PROVE  Relative(given, target) \in Dumps(target)
BY NoSettingsTyped DEF Relative, Dumps

(* dconf load into an empty target makes it what is loaded.                *)
LEMMA LoadIntoEmpty ==
    ASSUME dconf \in [Namespaces -> Settings], NEW target \in Targets, NEW given \in Settings,
           Empty(Dump(target)), dconf' = Loaded(Relative(given, target))
    PROVE  Dump(target)' = Relative(given, target)
<1> DEFINE loaded == Relative(given, target)
<1>1. DOMAIN loaded = Under(target) /\ \A n \in Under(target) : loaded[n] \in Settings
  BY NoSettingsTyped DEF Relative
<1>2. \A n \in Under(target) : dconf[n] = NoSettings
  BY DEF Empty, Dump
<1>3. ASSUME NEW n \in Under(target) PROVE dconf'[n] = loaded[n]
  <2>1. dconf'[n] = Over(loaded[n], dconf[n])
    BY <1>1, UnderNamespaces DEF Loaded
  <2> QED
    BY <2>1, <1>1, <1>2, OverNothing
<1>4. Dump(target)' = [n \in Under(target) |-> loaded[n]]
  BY <1>3 DEF Dump
<1> QED
  BY <1>4 DEF Relative

-----------------------------------------------------------------------------
(* State directories *)

(* What a rollback of target asks for is in state directory s.             *)
Restores(s, target) ==
    /\ states[s].operation = "migrate" /\ states[s].target = target
    /\ states[s].before # NoDump /\ Empty(states[s].before)

LEMMA RollBackKept ==
    ASSUME CanRollBack, migrated' \subseteq migrated, DOMAIN states \subseteq DOMAIN states',
           \A s \in DOMAIN states, target \in migrated : Restores(s, target) => Restores(s, target)'
    PROVE  CanRollBack'
BY DEF CanRollBack, Restores

LEMMA StatesUnchanged ==
    ASSUME MigrationInv, states' = states, migrated' \subseteq migrated
    PROVE  states' \in Seq(States) /\ CanRollBack'
<1>1. \A s \in DOMAIN states, target \in migrated : Restores(s, target) => Restores(s, target)'
  BY DEF Restores, Empty
<1> QED
  BY <1>1, RollBackKept DEF MigrationInv, MigrationTypeOK

(* A result is written into the last state directory.                      *)
LEMMA ResultWritten ==
    ASSUME MigrationInv, states # << >>, NEW r \in {"none", "success", "restored"},
           states' = [states EXCEPT ![Len(states)].result = r], migrated' \subseteq migrated
    PROVE  states' \in Seq(States) /\ CanRollBack'
<1>1. states \in Seq(States)
  BY DEF MigrationInv, MigrationTypeOK
<1>2. Len(states) \in DOMAIN states /\ DOMAIN states = 1 .. Len(states)
  BY <1>1, LenProperties, EmptySeq
<1>3. states[Len(states)] \in States
  BY <1>1, <1>2, ElementOfSeq
<1> DEFINE written == [states[Len(states)] EXCEPT !.result = r]
<1>4. /\ written \in States
      /\ written.operation = states[Len(states)].operation
      /\ written.target = states[Len(states)].target
      /\ written.before = states[Len(states)].before
  BY <1>3 DEF States
<1>5. states' = [states EXCEPT ![Len(states)] = written]
  OBVIOUS
<1> HIDE DEF written
<1>6. states' \in Seq(States) /\ DOMAIN states' = DOMAIN states
  BY <1>1, <1>2, <1>4, <1>5, ExceptSeq
<1>7. \A s \in DOMAIN states : states'[s] = IF s = Len(states) THEN written ELSE states[s]
  BY <1>5
<1>8. \A s \in DOMAIN states, target \in migrated : Restores(s, target) => Restores(s, target)'
  BY <1>7, <1>4 DEF Restores, Empty
<1> QED
  BY <1>6, <1>8, RollBackKept DEF MigrationInv

(* However the script ends, nothing of what a later run needs is lost.     *)
LEMMA EndKeeps ==
    ASSUME MigrationInv, step' = "idle", job' = Idle, files' = NoDumps,
           migrated' \subseteq migrated,
           dconf' \in [Namespaces -> Settings], disturbed' \in BOOLEAN,
           states' \in Seq(States), CanRollBack'
    PROVE  MigrationInv'
<1>1. MigrationTypeOK'
  BY MigrationAssumption DEF MigrationInv, MigrationTypeOK, Idle, NoDumps, FilesShape, Jobs, Targets, Steps, Early
<1>2. OwnState' /\ DumpKept' /\ CopiedFirst' /\ Copying' /\ StillDumped' /\ NeverMerges'
  BY DEF OwnState, DumpKept, CopiedFirst, Copying, StillDumped, NeverMerges, Recorded, Compared
<1> QED
  BY <1>1, <1>2 DEF MigrationInv

LEMMA InvInit == MigrationInit => MigrationInv
<1> SUFFICES ASSUME MigrationInit PROVE MigrationInv
  OBVIOUS
<1> USE DEF MigrationInit
<1>0. states \in Seq(States) /\ dconf \in [Namespaces -> Settings]
  BY NoSettingsTyped
<1>1. job \in Jobs /\ files = FilesShape
  BY MigrationAssumption DEF Idle, NoDumps, FilesShape, Jobs, Targets
<1>3. MigrationTypeOK
  BY <1>0, <1>1 DEF MigrationTypeOK, Targets, Steps, Early
<1>2. OwnState /\ DumpKept /\ CopiedFirst /\ Copying /\ StillDumped /\ NeverMerges /\ CanRollBack
  BY DEF OwnState, DumpKept, CopiedFirst, Copying, StillDumped, NeverMerges, CanRollBack, Recorded, Compared
<1> QED
  BY <1>2, <1>3 DEF MigrationInv

-----------------------------------------------------------------------------
(* Each step keeps the invariant *)

LEMMA RunKeeps ==
    ASSUME MigrationInv, NEW operation \in {"migrate", "rollback"}, NEW target \in Targets,
           NEW state \in 0 .. MaxRuns, Run(operation, target, state)
    PROVE  MigrationInv'
<1> USE DEF Run
<1>1. MigrationTypeOK'
  BY DEF MigrationInv, MigrationTypeOK, FilesShape, Jobs, Steps, Early
<1>2. OwnState' /\ DumpKept' /\ CopiedFirst' /\ Copying' /\ StillDumped' /\ NeverMerges'
  BY DEF OwnState, DumpKept, CopiedFirst, Copying, StillDumped, NeverMerges, Recorded, Compared
<1> QED
  BY <1>1, <1>2, StatesUnchanged DEF MigrationInv

LEMMA DumpsSourceKeeps == ASSUME MigrationInv, DumpsSource PROVE MigrationInv'
<1> USE DEF DumpsSource, Goes, KeepsDconf
<1>1. MigrationTypeOK'
  BY DEF MigrationInv, MigrationTypeOK, FilesShape, Steps, Early
<1>2. files'.source \in Settings
  BY DEF MigrationInv, MigrationTypeOK, FilesShape, Namespaces
<1>3. OwnState' /\ DumpKept' /\ CopiedFirst' /\ Copying' /\ StillDumped' /\ NeverMerges'
  BY <1>2 DEF OwnState, DumpKept, CopiedFirst, Copying, StillDumped, NeverMerges, Recorded, Compared
<1> QED
  BY <1>1, <1>3, StatesUnchanged DEF MigrationInv

LEMMA DumpsTargetKeeps == ASSUME MigrationInv, DumpsTarget PROVE MigrationInv'
<1> DEFINE before == Dump(job.target)
<1>1. states' \in Seq(States) /\ CanRollBack'
  BY StatesUnchanged DEF DumpsTarget, Exits, Goes
<1>2. job.target \in Targets
  BY DEF MigrationInv, MigrationTypeOK, Jobs
<1>3. CASE Exits
  BY <1>1, <1>3, EndKeeps DEF DumpsTarget, Exits, KeepsDconf, MigrationInv, MigrationTypeOK
<1>4. CASE /\ files' = [files EXCEPT !.before = before] /\ Goes("make-state")
           /\ job.operation = "migrate" => Empty(before)
  <2>1. files' = [source |-> files.source, before |-> before, after |-> files.after]
    BY <1>4 DEF MigrationInv, MigrationTypeOK, FilesShape
  <2>2. MigrationTypeOK'
    BY <1>1, <1>4, <2>1 DEF DumpsTarget, Goes, KeepsDconf, MigrationInv, MigrationTypeOK, FilesShape, Steps
  <2>3. before \in Dumps(job.target)
    BY <1>2, DumpTyped DEF MigrationInv, MigrationTypeOK
  <2>4. Dump(job.target)' = before
    BY <1>4 DEF DumpsTarget, KeepsDconf, Goes, Dump
  <2>5. Empty(before) => Empty(before)'
    BY <1>4 DEF DumpsTarget, KeepsDconf, Empty, Dump, Goes
  <2>6. DumpKept'
    BY <1>4, <2>1, <2>3, <2>5 DEF DumpsTarget, Goes, DumpKept, MigrationInv, Compared, Empty
  <2>7. OwnState' /\ CopiedFirst' /\ Copying' /\ StillDumped' /\ NeverMerges'
    BY <1>4, <2>1, <2>4 DEF Goes, OwnState, CopiedFirst, Copying, StillDumped, NeverMerges, Recorded, Compared
  <2> QED
    BY <1>1, <2>2, <2>6, <2>7 DEF MigrationInv
<1> QED
  BY <1>3, <1>4 DEF DumpsTarget

LEMMA MakesStateKeeps == ASSUME MigrationInv, MakesState PROVE MigrationInv'
<1> DEFINE new == [operation |-> job.operation, target |-> job.target,
                   before |-> NoDump, result |-> "none"]
<1> USE DEF MakesState, Goes, KeepsDconf
<1>1. new \in States
  BY DEF MigrationInv, MigrationTypeOK, Jobs, States
<1>2. states \in Seq(States)
  BY DEF MigrationInv, MigrationTypeOK
<1>3. states' = Append(states, new)
  OBVIOUS
<1> HIDE DEF new
<1>4. /\ states' \in Seq(States) /\ Len(states') = Len(states) + 1
      /\ \A s \in 1 .. Len(states) : states'[s] = states[s]
      /\ states'[Len(states) + 1] = new
  BY <1>1, <1>2, <1>3, AppendProperties
<1>5. /\ DOMAIN states = 1 .. Len(states) /\ Len(states) \in Nat
      /\ DOMAIN states' = 1 .. Len(states) + 1
  BY <1>2, <1>4, LenProperties
<1>6. \A s \in DOMAIN states, target \in migrated : Restores(s, target) => Restores(s, target)'
  BY <1>4, <1>5 DEF Restores, Empty
<1>7. CanRollBack'
  BY <1>5, <1>6, RollBackKept DEF MigrationInv
<1>8. states' # << >> /\ states'[Len(states')] = new
  BY <1>4, <1>5
<1>9. MigrationTypeOK'
  BY <1>4 DEF MigrationInv, MigrationTypeOK, FilesShape, Steps, Recorded
<1>10. OwnState'
  BY <1>8 DEF OwnState, new
<1>11. Dump(job.target)' = Dump(job.target) /\ (Empty(files.before) => Empty(files.before)')
  BY DEF Dump, Empty
<1>12. DumpKept' /\ CopiedFirst' /\ Copying' /\ StillDumped' /\ NeverMerges'
  BY <1>11 DEF MigrationInv, DumpKept, CopiedFirst, Copying, StillDumped, NeverMerges, Compared
<1> QED
  BY <1>7, <1>9, <1>10, <1>12 DEF MigrationInv

LEMMA CopiesBeforeKeeps == ASSUME MigrationInv, CopiesBefore PROVE MigrationInv'
<1> USE DEF CopiesBefore, Goes, KeepsDconf
<1>1. states \in Seq(States) /\ states # << >> /\ job.target \in Targets
  BY DEF MigrationInv, MigrationTypeOK, OwnState, Recorded, Jobs
<1>2. Len(states) \in DOMAIN states /\ DOMAIN states = 1 .. Len(states)
  BY <1>1, LenProperties, EmptySeq
<1>3. states[Len(states)] \in States
  BY <1>1, <1>2, ElementOfSeq
<1>4. files.before \in Dumps(job.target)
  BY DEF MigrationInv, DumpKept
<1>5. files.before \in AllDumps /\ files.before # NoDump
  BY <1>1, <1>4, SnapshotAssumption DEF AllDumps, Dumps
<1> DEFINE written == [states[Len(states)] EXCEPT !.before = files.before]
<1>6. /\ written \in States
      /\ written.operation = states[Len(states)].operation
      /\ written.target = states[Len(states)].target
      /\ written.before = files.before
  BY <1>3, <1>5 DEF States
<1>7. states' = [states EXCEPT ![Len(states)] = written]
  OBVIOUS
<1> HIDE DEF written
<1>8. states' \in Seq(States) /\ DOMAIN states' = DOMAIN states /\ Len(states') = Len(states)
  BY <1>1, <1>2, <1>6, <1>7, ExceptSeq
<1>9. \A s \in DOMAIN states : states'[s] = IF s = Len(states) THEN written ELSE states[s]
  BY <1>7
<1>10. /\ states[Len(states)].operation = job.operation
       /\ states[Len(states)].target = job.target
       /\ job.operation = "migrate" => Empty(files.before)
  BY DEF MigrationInv, OwnState, DumpKept, Recorded
<1>11. ASSUME NEW s \in DOMAIN states, NEW target \in migrated, Restores(s, target)
       PROVE  Restores(s, target)'
  <2>1. CASE s = Len(states)
    <3>1. states'[s] = written /\ job.operation = "migrate" /\ job.target = target
      BY <2>1, <1>9, <1>10, <1>11 DEF Restores
    <3>2. Empty(files.before)
      BY <3>1, <1>10
    <3> QED
      BY <3>1, <3>2, <1>5, <1>6, <1>10, <2>1 DEF Restores, Empty
  <2>2. CASE s # Len(states)
    BY <2>2, <1>9, <1>11 DEF Restores, Empty
  <2> QED
    BY <2>1, <2>2
<1>12. CanRollBack'
  BY <1>8, <1>11, RollBackKept DEF MigrationInv
<1>13. states'[Len(states')] = written
  BY <1>2, <1>8, <1>9
<1>14. MigrationTypeOK'
  BY <1>8 DEF MigrationInv, MigrationTypeOK, FilesShape, Steps, Recorded
<1>15. OwnState'
  BY <1>1, <1>2, <1>6, <1>8, <1>10, <1>13 DEF OwnState
<1>16. Dump(job.target)' = Dump(job.target) /\ (Empty(files.before) => Empty(files.before)')
  BY DEF Dump, Empty
<1>17. job.operation \in {"migrate", "rollback"}
  BY DEF MigrationInv, MigrationTypeOK, Jobs
<1>19. DumpKept' /\ Copying' /\ StillDumped' /\ NeverMerges'
  BY <1>4, <1>16, <1>17 DEF MigrationInv, DumpKept, Copying, StillDumped, NeverMerges, Compared
<1>18. CopiedFirst'
  BY <1>6, <1>13 DEF CopiedFirst
<1> QED
  BY <1>12, <1>14, <1>15, <1>18, <1>19 DEF MigrationInv

(* The copy is in the state directory: it can be taken back from here on,  *)
(* and goes into a target that was empty unless another program wrote.     *)
LEMMA LoadsKeeps == ASSUME MigrationInv, Loads PROVE MigrationInv'
<1> USE DEF Loads
<1>1. /\ job.target \in Targets /\ files.source \in Settings
      /\ dconf \in [Namespaces -> Settings] /\ job.operation = "migrate"
  BY DEF MigrationInv, MigrationTypeOK, Jobs, DumpKept, CopiedFirst, Compared
<1>2. dconf' \in [Namespaces -> Settings]
  BY <1>1, LoadedTyped, RelativeTyped
<1>3. MigrationTypeOK'
  BY <1>1, <1>2 DEF MigrationInv, MigrationTypeOK, FilesShape, Steps, Recorded
<1>4. OwnState' /\ DumpKept' /\ CopiedFirst' /\ Copying' /\ StillDumped'
  BY <1>1 DEF MigrationInv, OwnState, DumpKept, CopiedFirst, Copying, StillDumped, Recorded, Compared
<1>5. NeverMerges'
  <2>1. SUFFICES ASSUME ~disturbed
                 PROVE  Dump(job.target)' = Relative(files.source, job.target)
    BY DEF NeverMerges, Relative
  <2>2. Empty(Dump(job.target))
    BY <2>1, <1>1 DEF MigrationInv, StillDumped, DumpKept, Compared
  <2>3. \A target \in Targets : target = job.target => Dump(target)' = Relative(files.source, target)
    BY <2>2, <1>1, LoadIntoEmpty
  <2> QED
    BY <2>3, <1>1 DEF Dump
<1>6. Len(states) \in DOMAIN states /\ Restores(Len(states), job.target)
  <2>1. states \in Seq(States) /\ states # << >>
    BY DEF MigrationInv, MigrationTypeOK, OwnState, Recorded
  <2>2. files.before # NoDump
    BY <1>1, SnapshotAssumption DEF MigrationInv, DumpKept, Dumps
  <2>3. Len(states) \in DOMAIN states
    BY <2>1, LenProperties, EmptySeq
  <2> QED
    BY <2>2, <2>3, <1>1 DEF MigrationInv, OwnState, DumpKept, CopiedFirst, Restores, Recorded
<1>7. CanRollBack'
  BY <1>6 DEF CanRollBack, Restores, MigrationInv, Empty
<1> QED
  BY <1>3, <1>4, <1>5, <1>7 DEF MigrationInv

(* The steps that leave the given and the state directories alone.      *)
LEMMA LoadFailsKeeps == ASSUME MigrationInv, LoadFails PROVE MigrationInv'
<1> USE DEF LoadFails, Goes, KeepsDconf
<1>1. MigrationTypeOK'
  BY DEF MigrationInv, MigrationTypeOK, FilesShape, Steps, Recorded
<1>2. OwnState' /\ DumpKept' /\ CopiedFirst' /\ Copying' /\ StillDumped' /\ NeverMerges'
  BY DEF MigrationInv, OwnState, DumpKept, CopiedFirst, Copying, StillDumped, NeverMerges, Recorded, Compared
<1> QED
  BY <1>1, <1>2, StatesUnchanged DEF MigrationInv

LEMMA DumpsAfterKeeps == ASSUME MigrationInv, DumpsAfter PROVE MigrationInv'
<1> USE DEF DumpsAfter, Goes, KeepsDconf
<1>1. files' = [source |-> files.source, before |-> files.before, after |-> Dump(job.target)]
  BY DEF MigrationInv, MigrationTypeOK, FilesShape
<1>2. MigrationTypeOK'
  BY <1>1 DEF MigrationInv, MigrationTypeOK, FilesShape, Steps, Recorded
<1>3. NeverMerges'
  BY <1>1 DEF MigrationInv, NeverMerges, Dump, Relative
<1>4. OwnState' /\ DumpKept' /\ CopiedFirst' /\ Copying' /\ StillDumped'
  BY DEF MigrationInv, OwnState, DumpKept, CopiedFirst, Copying, StillDumped, Recorded, Compared
<1> QED
  BY <1>2, <1>3, <1>4, StatesUnchanged DEF MigrationInv

LEMMA ValidatesKeeps == ASSUME MigrationInv, Validates PROVE MigrationInv'
<1> USE DEF Validates, KeepsDconf
<1>1. CASE states' = [states EXCEPT ![Len(states)].result = "success"] /\ Exits
  <2>1. states # << >>
    BY DEF MigrationInv, OwnState, Recorded
  <2> QED
    BY <1>1, <2>1, ResultWritten, EndKeeps DEF Exits, MigrationInv, MigrationTypeOK
<1>2. CASE Goes("restore-reset") /\ UNCHANGED <<states, files>> /\ job.operation = "migrate"
  <2>1. MigrationTypeOK'
    BY <1>2 DEF Goes, MigrationInv, MigrationTypeOK, FilesShape, Steps, Recorded
  <2>2. OwnState' /\ DumpKept' /\ CopiedFirst' /\ Copying' /\ StillDumped' /\ NeverMerges'
    BY <1>2 DEF Goes, MigrationInv, OwnState, DumpKept, CopiedFirst, Copying, StillDumped, NeverMerges, Recorded, Compared
  <2> QED
    BY <1>2, <2>1, <2>2, StatesUnchanged DEF MigrationInv, Goes
<1> QED
  BY <1>1, <1>2 DEF MigrationInv, Copying

LEMMA ResetsKeeps == ASSUME MigrationInv, Resets PROVE MigrationInv'
<1> USE DEF Resets
<1>1. dconf' \in [Namespaces -> Settings] /\ migrated' \subseteq migrated
  BY NoSettingsTyped DEF Cleared, MigrationInv, MigrationTypeOK
<1>2. states' \in Seq(States) /\ CanRollBack'
  BY <1>1, StatesUnchanged
<1>3. CASE step' = "verify" /\ UNCHANGED << job, files >>
  <2>1. MigrationTypeOK'
    BY <1>1, <1>2, <1>3 DEF MigrationInv, MigrationTypeOK, FilesShape, Steps, Recorded
  <2>2. OwnState' /\ DumpKept' /\ CopiedFirst' /\ Copying' /\ StillDumped' /\ NeverMerges'
    BY <1>3 DEF MigrationInv, OwnState, DumpKept, CopiedFirst, Copying, StillDumped, NeverMerges, Recorded, Compared
  <2> QED
    BY <1>2, <2>1, <2>2 DEF MigrationInv
<1>4. CASE step' = "idle" /\ job' = Idle /\ files' = NoDumps
  BY <1>1, <1>2, <1>4, EndKeeps DEF MigrationInv, MigrationTypeOK
<1>5. CASE step' = "restore-load" /\ UNCHANGED << job, files >> /\ step = "restore-reset"
           /\ job.operation = "rollback"
  <2>1. MigrationTypeOK'
    BY <1>1, <1>2, <1>5 DEF MigrationInv, MigrationTypeOK, FilesShape, Steps, Recorded
  <2>2. OwnState' /\ DumpKept' /\ CopiedFirst' /\ Copying' /\ StillDumped' /\ NeverMerges'
    BY <1>5 DEF MigrationInv, OwnState, DumpKept, CopiedFirst, Copying, StillDumped, NeverMerges, Recorded, Compared
  <2> QED
    BY <1>2, <2>1, <2>2 DEF MigrationInv
<1>6. step = "restore-reset" /\ job.operation # "migrate" => job.operation = "rollback"
  BY DEF MigrationInv, MigrationTypeOK, Jobs
<1> QED
  BY <1>3, <1>4, <1>5, <1>6

LEMMA RestoresBeforeKeeps == ASSUME MigrationInv, RestoresBefore PROVE MigrationInv'
<1>1. dconf \in [Namespaces -> Settings] /\ job.target \in Targets /\ files.before \in Dumps(job.target)
  BY DEF RestoresBefore, MigrationInv, MigrationTypeOK, Jobs, DumpKept
<1>2. dconf' \in [Namespaces -> Settings]
  BY <1>1, LoadedTyped DEF RestoresBefore
<1> QED
  BY <1>2, StatesUnchanged, EndKeeps DEF RestoresBefore, Exits, MigrationInv, MigrationTypeOK

LEMMA VerifiesKeeps == ASSUME MigrationInv, Verifies PROVE MigrationInv'
<1> USE DEF Verifies, KeepsDconf
<1>1. states # << >>
  BY DEF MigrationInv, OwnState, Recorded
<1>2. CASE Exits /\ states' = [states EXCEPT ![Len(states)].result = "restored"]
  BY <1>1, <1>2, ResultWritten, EndKeeps DEF Exits, MigrationInv, MigrationTypeOK
<1>3. CASE Exits /\ states' = states
  BY <1>3, StatesUnchanged, EndKeeps DEF Exits, MigrationInv, MigrationTypeOK
<1>4. CASE /\ job.operation # "migrate" /\ UNCHANGED <<files, states>>
           /\ Goes("check-source") \/ Goes("restore-reset")
  <2>1. job.operation = "rollback"
    BY <1>4 DEF MigrationInv, MigrationTypeOK, Jobs
  <2>2. MigrationTypeOK'
    BY <1>4 DEF Goes, MigrationInv, MigrationTypeOK, FilesShape, Steps, Recorded
  <2>3. OwnState' /\ DumpKept' /\ CopiedFirst' /\ Copying' /\ StillDumped' /\ NeverMerges'
    BY <1>4, <2>1 DEF Goes, MigrationInv, OwnState, DumpKept, CopiedFirst, Copying, StillDumped, NeverMerges, Recorded, Compared
  <2> QED
    BY <1>4, <2>2, <2>3, StatesUnchanged DEF MigrationInv, Goes
<1> QED
  BY <1>2, <1>3, <1>4

LEMMA ChecksSourceKeeps == ASSUME MigrationInv, ChecksSource PROVE MigrationInv'
<1> USE DEF ChecksSource, KeepsDconf
<1>1. states # << >>
  BY DEF MigrationInv, OwnState, Recorded
<1>2. states' \in Seq(States) /\ CanRollBack'
  BY <1>1, ResultWritten, StatesUnchanged DEF Exits
<1> QED
  BY <1>2, EndKeeps DEF Exits, MigrationInv, MigrationTypeOK

LEMMA EndsEarlyKeeps == ASSUME MigrationInv, CommandFails \/ Killed PROVE MigrationInv'
BY StatesUnchanged, EndKeeps DEF CommandFails, Killed, Exits, KeepsDconf, MigrationInv, MigrationTypeOK

LEMMA ProgramWritesKeeps ==
    ASSUME MigrationInv, NEW n \in Namespaces, NEW given \in Settings, ProgramWrites(n, given)
    PROVE  MigrationInv'
<1> USE DEF ProgramWrites
<1>1. MigrationTypeOK'
  BY DEF MigrationInv, MigrationTypeOK, FilesShape
<1>2. NeverMerges' /\ StillDumped'
  BY DEF NeverMerges, StillDumped, Compared
<1>3. Empty(files.before) => Empty(files.before)'
  BY DEF Empty
<1>4. OwnState' /\ DumpKept' /\ CopiedFirst' /\ Copying'
  BY <1>3 DEF MigrationInv, OwnState, DumpKept, CopiedFirst, Copying
<1> QED
  BY <1>1, <1>2, <1>4, StatesUnchanged DEF MigrationInv

LEMMA StutterKeeps == ASSUME MigrationInv, UNCHANGED migrationVars PROVE MigrationInv'
<1> USE DEF migrationVars
<1>1. MigrationTypeOK'
  BY DEF MigrationInv, MigrationTypeOK, FilesShape
<1>2. Dump(job.target)' = Dump(job.target) /\ (Empty(files.before) => Empty(files.before)')
  BY DEF Dump, Empty
<1>3. NeverMerges' /\ StillDumped'
  BY <1>2 DEF MigrationInv, NeverMerges, StillDumped, Relative
<1>4. OwnState' /\ DumpKept' /\ CopiedFirst' /\ Copying'
  BY <1>2 DEF MigrationInv, OwnState, DumpKept, CopiedFirst, Copying
<1> QED
  BY <1>1, <1>3, <1>4, StatesUnchanged DEF MigrationInv

LEMMA InvNext == MigrationInv /\ [MigrationNext]_migrationVars => MigrationInv'
<1> SUFFICES ASSUME MigrationInv, [MigrationNext]_migrationVars PROVE MigrationInv'
  OBVIOUS
<1>1. CASE \E operation \in {"migrate", "rollback"}, target \in Targets, state \in 0..MaxRuns :
              Run(operation, target, state)
  BY <1>1, RunKeeps
<1>2. CASE DumpsSource \/ DumpsTarget \/ MakesState \/ CopiesBefore
  BY <1>2, DumpsSourceKeeps, DumpsTargetKeeps, MakesStateKeeps, CopiesBeforeKeeps
<1>3. CASE Loads \/ LoadFails \/ DumpsAfter \/ Validates
  BY <1>3, LoadsKeeps, LoadFailsKeeps, DumpsAfterKeeps, ValidatesKeeps
<1>4. CASE Resets \/ RestoresBefore \/ Verifies \/ ChecksSource
  BY <1>4, ResetsKeeps, RestoresBeforeKeeps, VerifiesKeeps, ChecksSourceKeeps
<1>5. CASE CommandFails \/ Killed
  BY <1>5, EndsEarlyKeeps
<1>6. CASE \E n \in Namespaces, given \in Settings : ProgramWrites(n, given)
  BY <1>6, ProgramWritesKeeps
<1>7. CASE UNCHANGED migrationVars
  BY <1>7, StutterKeeps
<1> QED
  BY <1>1, <1>2, <1>3, <1>4, <1>5, <1>6, <1>7 DEF MigrationNext

-----------------------------------------------------------------------------
(* Theorems *)

(* However the script goes and wherever it ends, its copy of the target is *)
(* in the state directory before the target is written, and what it read   *)
(* is what it goes on with.                                                *)
THEOREM MigrationInvariant == MigrationSpec => []MigrationInv
BY InvInit, InvNext, PTL DEF MigrationSpec

(* For any number of runs, changes and failures, what a migration wrote    *)
(* can be taken back: its state directory has what rollback asks for.      *)
THEOREM AlwaysCanRollBack == MigrationSpec => []CanRollBack
<1>1. MigrationInv => CanRollBack
  BY DEF MigrationInv
<1> QED
  BY <1>1, MigrationInvariant, PTL

(* For any given, a migration that no other program disturbs leaves in  *)
(* the target what it read of the source, and nothing else.                *)
THEOREM MigrationNeverMerges == MigrationSpec => []NeverMerges
<1>1. MigrationInv => NeverMerges
  BY DEF MigrationInv
<1> QED
  BY <1>1, MigrationInvariant, PTL
=============================================================================
