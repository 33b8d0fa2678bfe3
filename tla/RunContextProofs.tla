--------------------------- MODULE RunContextProofs ---------------------------
(***************************************************************************)
(* Descriptors are conserved, and the program sees what its layer asked    *)
(* for, for every number of layers, descriptors and calls.                 *)
(*                                                                         *)
(* The first part is about fds, closes, taken, top and phase alone: what a *)
(* handler writes into the layer below is arbitrary there.  The second one *)
(* is about what a command does with the environment, the directory and    *)
(* the descriptors it is run with.                                         *)
(***************************************************************************)
EXTENDS RunContext, SequenceTheorems, WellFoundedInduction, TLAPS

FdTypeOK ==
    /\ phase \in Phases
    /\ top \in Levels
    /\ fds \in [Levels -> FdMap]
    /\ closes \in [Fds -> Nat]
    /\ taken \subseteq Fds

(* InBooks alone is inductive: that nothing is held any more once the      *)
(* context is gone makes the rest of Conserved follow from it.             *)
FdInv ==
    /\ FdTypeOK
    /\ InBooks
    /\ phase = "disposed" => \A l \in Levels, d \in Dests : fds[l][d] = NoFd

(* No descriptor was handed over at first.                                *)
LEMMA FdInvInit == Init => FdInv
<1> SUFFICES ASSUME Init PROVE FdInv
  OBVIOUS
<1> USE ContextAssumption DEF Init
<1>1. FdTypeOK
  BY DEF FdTypeOK, Phases, Levels, FdMap, NoFds
<1>2. \A f \in Fds : ~IsHeld(f)
  BY DEF IsHeld, NoFds
<1>3. InBooks
  BY <1>2 DEF InBooks, NoFds
<1> QED
  BY <1>1, <1>3 DEF FdInv

(* What is closed while nobody holds it any more keeps the books.  Every   *)
(* step that closes does so in this way, so each only has to show where    *)
(* its descriptors went: those in S, which were held, are held no more,    *)
(* and nothing else changed hands.                                         *)
LEMMA ClosingConserves ==
    ASSUME FdInv, NEW S, Closed(S), S \subseteq Fds,
           fds' \in [Levels -> FdMap], taken' = taken,
           \A f \in S : IsHeld(f) /\ ~IsHeld(f)',
           \A f \in Fds \ S : IsHeld(f)' <=> IsHeld(f),
           \A l, m \in Levels, d, e \in Dests :
              fds'[l][d] = fds'[m][e] => fds'[l][d] = NoFd \/ (l = m /\ d = e)
    PROVE  InBooks' /\ closes' \in [Fds -> Nat]
<1>1. closes' = [f \in Fds |-> IF f \in S THEN closes[f] + 1 ELSE closes[f]]
  BY DEF Closed
<1>2. closes' \in [Fds -> Nat]
  BY <1>1 DEF FdInv, FdTypeOK
<1>3. \A f \in Fds : IsHeld(f)' => f \in taken'
  BY DEF FdInv, InBooks
<1>4. ASSUME NEW f \in Fds
      PROVE  closes'[f] = IF f \in taken' /\ ~IsHeld(f)' THEN 1 ELSE 0
  <2>1. CASE f \in S
    <3>1. f \in taken /\ closes[f] = 0
      BY <2>1 DEF FdInv, InBooks
    <3> QED
      BY <1>1, <2>1, <3>1
  <2>2. CASE f \notin S
    BY <1>1, <2>2 DEF FdInv, InBooks
  <2> QED
    BY <2>1, <2>2
<1> QED
  BY <1>2, <1>3, <1>4 DEF InBooks

(* A step that moves nothing and closes nothing.                           *)
LEMMA IdleConserves ==
    ASSUME FdInv, UNCHANGED << fds, closes, taken >>
    PROVE  InBooks'
BY DEF FdInv, InBooks, IsHeld

(* Moving what is at D from the top layer into free places below: what was *)
(* held at the top at other numbers is held no more.                       *)
LEMMA MovedEffect ==
    ASSUME FdInv, top > 1, NEW D \in SUBSET Free(fds[top], fds[top - 1]),
           fds' = Moved(D)
    PROVE  /\ fds' \in [Levels -> FdMap]
           /\ \A d \in Dests : fds'[top][d] = NoFd
           /\ \A d \in Dests : fds'[top - 1][d] = IF d \in D THEN fds[top][d] ELSE fds[top - 1][d]
           /\ \A l \in Levels \ {top, top - 1} : fds'[l] = fds[l]
<1>1. top \in Levels /\ top - 1 \in Levels /\ top # top - 1
  BY ContextAssumption DEF FdInv, FdTypeOK, Levels
<1>2. fds' = [fds EXCEPT ![top - 1] = [d \in Dests |-> IF d \in D THEN fds[top][d] ELSE fds[top - 1][d]],
                         ![top] = NoFds]
  BY DEF Moved
<1>3. fds \in [Levels -> [Dests -> Fds \cup {NoFd}]]
  BY DEF FdInv, FdTypeOK, FdMap
<1>4. NoFds \in FdMap /\ [d \in Dests |-> IF d \in D THEN fds[top][d] ELSE fds[top - 1][d]] \in FdMap
  BY <1>1, <1>3 DEF NoFds, FdMap
<1>5. /\ fds'[top] = NoFds
      /\ fds'[top - 1] = [d \in Dests |-> IF d \in D THEN fds[top][d] ELSE fds[top - 1][d]]
      /\ \A l \in Levels \ {top, top - 1} : fds'[l] = fds[l]
  BY <1>1, <1>2, <1>3
<1>6. fds' \in [Levels -> FdMap]
  BY <1>1, <1>2, <1>3, <1>4 DEF FdMap
<1> QED
  BY <1>5, <1>6 DEF NoFds

(* ... so moving some and closing the rest keeps the books.                *)
LEMMA MovedConserves ==
    ASSUME FdInv, top > 1, NEW D \in SUBSET Free(fds[top], fds[top - 1]),
           fds' = Moved(D), taken' = taken,
           Closed({ fds[top][d] : d \in Dests \ D } \ {NoFd})
    PROVE  InBooks' /\ fds' \in [Levels -> FdMap] /\ closes' \in [Fds -> Nat]
<1> DEFINE S == { fds[top][d] : d \in Dests \ D } \ {NoFd}
<1>1. top \in Levels /\ top - 1 \in Levels /\ top # top - 1
  BY ContextAssumption DEF FdInv, FdTypeOK, Levels
<1>2. fds \in [Levels -> [Dests -> Fds \cup {NoFd}]]
  BY DEF FdInv, FdTypeOK, FdMap
<1>3. \A l, m \in Levels, d, e \in Dests :
         fds[l][d] = fds[m][e] => fds[l][d] = NoFd \/ (l = m /\ d = e)
  BY DEF FdInv, InBooks
<1>4. /\ fds' \in [Levels -> FdMap]
      /\ \A d \in Dests : fds'[top][d] = NoFd
      /\ \A d \in Dests : fds'[top - 1][d] = IF d \in D THEN fds[top][d] ELSE fds[top - 1][d]
      /\ \A l \in Levels \ {top, top - 1} : fds'[l] = fds[l]
  BY MovedEffect
<1>5. D \subseteq Dests /\ \A d \in D : fds[top][d] # NoFd /\ fds[top - 1][d] = NoFd
  BY DEF Free
<1>6. NoFd \notin Fds
  BY ContextAssumption
<1>7. S \subseteq Fds
  BY <1>1, <1>2
<1>8. ASSUME NEW f \in S PROVE IsHeld(f) /\ ~IsHeld(f)'
  <2>1. PICK d \in Dests \ D : fds[top][d] = f
    OBVIOUS
  <2>2. f # NoFd
    OBVIOUS
  <2>3. IsHeld(f)
    BY <1>1, <2>1 DEF IsHeld
  <2>4. ASSUME NEW l \in Levels, NEW e \in Dests PROVE fds'[l][e] # f
    <3>1. CASE l = top
      BY <1>4, <2>2, <3>1
    <3>2. CASE l = top - 1 /\ e \in D
      BY <1>1, <1>3, <1>4, <1>5, <2>1, <2>2, <3>2
    <3>3. CASE l = top - 1 /\ e \notin D
      BY <1>1, <1>3, <1>4, <2>1, <2>2, <3>3
    <3>4. CASE l \notin {top, top - 1}
      BY <1>1, <1>3, <1>4, <2>1, <2>2, <3>4
    <3> QED
      BY <3>1, <3>2, <3>3, <3>4
  <2> QED
    BY <2>3, <2>4 DEF IsHeld
<1>9. ASSUME NEW f \in Fds \ S PROVE IsHeld(f)' <=> IsHeld(f)
  <2>1. ASSUME IsHeld(f) PROVE IsHeld(f)'
    <3>1. PICK l \in Levels, e \in Dests : fds[l][e] = f
      BY <2>1 DEF IsHeld
    <3>2. CASE l = top
      <4>1. e \in D
        BY <1>6, <3>1, <3>2
      <4>2. fds'[top - 1][e] = f
        BY <1>4, <3>1, <3>2, <4>1
      <4> QED
        BY <1>1, <4>2 DEF IsHeld
    <3>3. CASE l = top - 1
      <4>1. e \notin D
        BY <1>5, <1>6, <3>1, <3>3
      <4>2. fds'[top - 1][e] = f
        BY <1>4, <3>1, <3>3, <4>1
      <4> QED
        BY <1>1, <4>2 DEF IsHeld
    <3>4. CASE l \notin {top, top - 1}
      BY <1>4, <3>1, <3>4 DEF IsHeld
    <3> QED
      BY <3>2, <3>3, <3>4
  <2>2. ASSUME IsHeld(f)' PROVE IsHeld(f)
    <3>1. PICK l \in Levels, e \in Dests : fds'[l][e] = f
      BY <2>2 DEF IsHeld
    <3>2. l # top
      BY <1>4, <1>6, <3>1
    <3>3. CASE l = top - 1
      BY <1>1, <1>4, <3>1, <3>3 DEF IsHeld
    <3>4. CASE l # top - 1
      BY <1>4, <3>1, <3>2, <3>4 DEF IsHeld
    <3> QED
      BY <3>3, <3>4
  <2> QED
    BY <2>1, <2>2
<1>10. ASSUME NEW l \in Levels, NEW m \in Levels, NEW d \in Dests, NEW e \in Dests,
              fds'[l][d] = fds'[m][e], fds'[l][d] # NoFd
       PROVE  l = m /\ d = e
  <2>1. l # top /\ m # top
    BY <1>4, <1>10
  <2> DEFINE from(n, c) == IF n = top - 1 /\ c \in D THEN top ELSE n
  <2>2. from(l, d) \in Levels /\ from(m, e) \in Levels
    BY <1>1
  <2>3. fds'[l][d] = fds[from(l, d)][d]
    BY <1>4, <2>1
  <2>4. fds'[m][e] = fds[from(m, e)][e]
    BY <1>4, <2>1
  <2>5. fds[from(l, d)][d] = fds[from(m, e)][e] /\ fds[from(l, d)][d] # NoFd
    BY <1>10, <2>3, <2>4
  <2>6. from(l, d) = from(m, e) /\ d = e
    <3> HIDE DEF from
    <3> QED
      BY <1>3, <2>2, <2>5
  <2> QED
    BY <2>1, <2>6
<1>11. Closed(S)
  OBVIOUS
<1> HIDE DEF S
<1>12. InBooks' /\ closes' \in [Fds -> Nat]
  BY <1>4, <1>7, <1>8, <1>9, <1>10, <1>11, ClosingConserves
<1> QED
  BY <1>4, <1>12

(* One step per action: what each does with the descriptors.               *)
LEMMA FdInvNext == FdInv /\ [Next]_vars => FdInv'
<1> SUFFICES ASSUME FdInv, [Next]_vars PROVE FdInv'
  OBVIOUS
<1> USE ContextAssumption
<1> DEFINE Idle == UNCHANGED << fds, closes, taken >>
<1>1. FdTypeOK /\ InBooks
  BY DEF FdInv
<1>2. fds \in [Levels -> [Dests -> Fds \cup {NoFd}]]
  BY <1>1 DEF FdTypeOK, FdMap
<1>3. \A l, m \in Levels, d, e \in Dests :
         fds[l][d] = fds[m][e] => fds[l][d] = NoFd \/ (l = m /\ d = e)
  BY <1>1 DEF InBooks
<1>4. ASSUME Idle, top' \in Levels, phase' \in Phases, phase' # "disposed" \/ phase' = phase
      PROVE  FdInv'
  <2>1. InBooks'
    BY <1>4, IdleConserves
  <2>2. FdTypeOK'
    BY <1>1, <1>4 DEF FdTypeOK
  <2> QED
    BY <1>4, <2>1, <2>2 DEF FdInv
<1>5. ASSUME NEW kind \in Kinds \ {"root"}, Push(kind) PROVE FdInv'
  BY <1>1, <1>4, <1>5 DEF Push, fdVars, FdTypeOK, Levels, Phases
<1>6. ASSUME NEW new, Edit(new) PROVE FdInv'
  BY <1>1, <1>4, <1>6 DEF Edit, fdVars, FdTypeOK, Levels, Phases
<1>7. ASSUME NEW f \in Fds, NEW d \in Dests, TakeFd(f, d) PROVE FdInv'
  <2>1. /\ f \notin taken /\ taken' = taken \cup {f}
        /\ fds' = [fds EXCEPT ![top][d] = f]
        /\ closes' = [g \in Fds |-> IF g \in {fds[top][d]} \ {NoFd} THEN closes[g] + 1 ELSE closes[g]]
        /\ phase' = "building" /\ top' = top
    BY <1>7 DEF TakeFd, Closed
  <2>2. top \in Levels
    BY <1>1 DEF FdTypeOK
  <2>3. FdTypeOK'
    BY <1>1, <1>2, <2>1, <2>2 DEF FdTypeOK, FdMap, Phases
  <2>4. /\ fds'[top][d] = f
        /\ \A l \in Levels, e \in Dests : l # top \/ e # d => fds'[l][e] = fds[l][e]
    BY <1>2, <2>1, <2>2
  <2>5. ~IsHeld(f)
    BY <1>1, <2>1 DEF InBooks
  <2>6. ASSUME NEW l \in Levels, NEW m \in Levels, NEW c \in Dests, NEW e \in Dests,
               fds'[l][c] = fds'[m][e]
        PROVE  fds'[l][c] = NoFd \/ (l = m /\ c = e)
    <3>1. \A n \in Levels, b \in Dests : fds[n][b] # f
      BY <2>5 DEF IsHeld
    <3>2. CASE l = top /\ c = d
      BY <2>4, <2>6, <3>1, <3>2
    <3>3. CASE m = top /\ e = d
      BY <2>4, <2>6, <3>1, <3>3
    <3>4. CASE (l # top \/ c # d) /\ (m # top \/ e # d)
      BY <1>3, <2>4, <2>6, <3>4
    <3> QED
      BY <3>2, <3>3, <3>4
  <2>7. ASSUME NEW g \in Fds
        PROVE  IsHeld(g)' <=> g = f \/ (IsHeld(g) /\ g # fds[top][d])
    <3>1. g = f => IsHeld(g)'
      BY <2>2, <2>4 DEF IsHeld
    <3>2. ASSUME IsHeld(g), g # fds[top][d] PROVE IsHeld(g)'
      BY <2>4, <3>2 DEF IsHeld
    <3>3. ASSUME IsHeld(g)', g # f PROVE IsHeld(g) /\ g # fds[top][d]
      <4>1. PICK l \in Levels, e \in Dests : fds'[l][e] = g
        BY <3>3 DEF IsHeld
      <4>2. l # top \/ e # d
        BY <2>4, <3>3, <4>1
      <4>3. fds[l][e] = g
        BY <2>4, <4>1, <4>2
      <4> QED
        BY <1>3, <2>2, <4>2, <4>3 DEF IsHeld
    <3> QED
      BY <3>1, <3>2, <3>3
  <2>8. ASSUME NEW g \in Fds PROVE /\ IsHeld(g)' => g \in taken'
                                   /\ closes'[g] = IF g \in taken' /\ ~IsHeld(g)' THEN 1 ELSE 0
    <3>1. /\ IsHeld(g) => g \in taken
          /\ closes[g] = IF g \in taken /\ ~IsHeld(g) THEN 1 ELSE 0
      BY <1>1 DEF InBooks
    <3>2. fds[top][d] = g => IsHeld(g)
      BY <2>2 DEF IsHeld
    <3>3. closes'[g] = IF fds[top][d] = g THEN closes[g] + 1 ELSE closes[g]
      BY <2>1
    <3> QED
      BY <2>1, <2>5, <2>7, <3>1, <3>2, <3>3
  <2>9. InBooks'
    BY <2>6, <2>8 DEF InBooks
  <2> QED
    BY <2>1, <2>3, <2>9 DEF FdInv
<1>8. ASSUME Spawn PROVE FdInv'
  BY <1>1, <1>4, <1>8 DEF Spawn, fdVars, FdTypeOK, Phases
<1>9. ASSUME Unwind PROVE FdInv'
  <2> DEFINE D == Free(fds[top], fds[top - 1])
  <2>1. /\ top > 1 /\ fds' = Moved(D) /\ closes' = closes /\ taken' = taken
        /\ top' = top - 1 /\ phase' = "unwinding"
        /\ ~Collides(fds[top], fds[top - 1])
    BY <1>9 DEF Unwind
  <2>2. { fds[top][d] : d \in Dests \ D } \ {NoFd} = {}
    BY <2>1 DEF Free, Collides
  <2>3. closes \in [Fds -> Nat]
    BY <1>1 DEF FdTypeOK
  <2>4. Closed({ fds[top][d] : d \in Dests \ D } \ {NoFd})
    BY <2>1, <2>2, <2>3 DEF Closed
  <2>5. InBooks' /\ fds' \in [Levels -> FdMap] /\ closes' \in [Fds -> Nat]
    BY <2>1, <2>4, MovedConserves
  <2>6. FdTypeOK'
    BY <1>1, <2>1, <2>5 DEF FdTypeOK, Levels, Phases
  <2> QED
    BY <2>1, <2>5, <2>6 DEF FdInv
<1>10. ASSUME UnwindFails PROVE FdInv'
  <2>1. PICK D \in SUBSET Free(fds[top], fds[top - 1]) :
           /\ fds' = Moved(D)
           /\ Closed({ fds[top][d] : d \in Dests \ D } \ {NoFd})
    BY <1>10 DEF UnwindFails
  <2>2. top > 1 /\ taken' = taken /\ top' = top - 1 /\ phase' = "failed"
    BY <1>10 DEF UnwindFails
  <2>3. InBooks' /\ fds' \in [Levels -> FdMap] /\ closes' \in [Fds -> Nat]
    BY <2>1, <2>2, MovedConserves
  <2>4. FdTypeOK'
    BY <1>1, <2>2, <2>3 DEF FdTypeOK, Levels, Phases
  <2> QED
    BY <2>2, <2>3, <2>4 DEF FdInv
<1>11. ASSUME Fork PROVE FdInv'
  <2>1. /\ fds' = [fds EXCEPT ![1] = NoFds] /\ Closed(Held(1)) /\ taken' = taken
        /\ top' = top /\ phase' \in {"spawned", "failed"}
    BY <1>11 DEF Fork
  <2>2. 1 \in Levels
    BY DEF Levels
  <2>3. Held(1) \subseteq Fds
    BY <1>2, <2>2 DEF Held
  <2>4. /\ \A d \in Dests : fds'[1][d] = NoFd
        /\ \A l \in Levels \ {1} : fds'[l] = fds[l]
        /\ fds' \in [Levels -> FdMap]
    BY <1>2, <2>1, <2>2 DEF NoFds, FdMap
  <2>5. \A f \in Held(1) : IsHeld(f) /\ ~IsHeld(f)'
    BY <1>3, <2>2, <2>4 DEF Held, IsHeld
  <2>6. \A f \in Fds \ Held(1) : IsHeld(f)' <=> IsHeld(f)
    BY <2>2, <2>4 DEF Held, IsHeld
  <2>7. \A l, m \in Levels, d, e \in Dests :
           fds'[l][d] = fds'[m][e] => fds'[l][d] = NoFd \/ (l = m /\ d = e)
    BY <1>3, <2>4
  <2>8. InBooks' /\ closes' \in [Fds -> Nat]
    BY <2>1, <2>3, <2>4, <2>5, <2>6, <2>7, ClosingConserves
  <2>9. FdTypeOK'
    BY <1>1, <2>1, <2>4, <2>8 DEF FdTypeOK, Phases
  <2> QED
    BY <2>1, <2>8, <2>9 DEF FdInv
<1>12. ASSUME Dispose PROVE FdInv'
  <2> DEFINE S == UNION { Held(l) : l \in Levels }
  <2>1. /\ fds' = [l \in Levels |-> NoFds] /\ Closed(S) /\ taken' = taken
        /\ top' = top /\ phase' = "disposed"
    BY <1>12 DEF Dispose
  <2>2. S \subseteq Fds
    BY <1>2 DEF Held
  <2>3. /\ \A l \in Levels, d \in Dests : fds'[l][d] = NoFd
        /\ fds' \in [Levels -> FdMap]
    BY <2>1 DEF NoFds, FdMap
  <2>4. \A f \in S : IsHeld(f) /\ ~IsHeld(f)'
    BY <2>3 DEF Held, IsHeld
  <2>5. \A f \in Fds \ S : IsHeld(f)' <=> IsHeld(f)
    BY <2>3 DEF Held, IsHeld
  <2>6. \A l, m \in Levels, d, e \in Dests :
           fds'[l][d] = fds'[m][e] => fds'[l][d] = NoFd \/ (l = m /\ d = e)
    BY <2>3
  <2> HIDE DEF S
  <2>7. InBooks' /\ closes' \in [Fds -> Nat]
    BY <2>1, <2>2, <2>3, <2>4, <2>5, <2>6, ClosingConserves
  <2>8. FdTypeOK'
    BY <1>1, <2>1, <2>3, <2>7 DEF FdTypeOK, Phases
  <2> QED
    BY <2>3, <2>7, <2>8 DEF FdInv
<1>13. CASE UNCHANGED vars
  BY <1>1, <1>4, <1>13 DEF vars, fdVars, FdTypeOK
<1> QED
  BY <1>5, <1>6, <1>7, <1>8, <1>9, <1>10, <1>11, <1>12, <1>13
     DEF Next, Setenv, SetCwd, AppendProgram

(* The descriptors keep their books in every state.                        *)
THEOREM FdInvAlways == Spec => []FdInv
<1> QED
  BY FdInvInit, FdInvNext, PTL DEF Spec

(* However the layers are stacked and wherever the spawn fails, no         *)
(* descriptor is closed twice, none is in two maps, none is lost from both *)
(* (take, steal, fork and disposal hand it on or close it), and a context  *)
(* that is disposed of has closed each that it was given.                  *)
THEOREM DescriptorsConserved == Spec => []Conserved
<1>1. FdInv => Conserved
  <2> SUFFICES ASSUME FdInv, phase = "disposed", NEW f \in taken PROVE closes[f] = 1
    BY DEF FdInv, Conserved
  <2>1. f \in Fds /\ f # NoFd
    BY ContextAssumption DEF FdInv, FdTypeOK
  <2>2. ~IsHeld(f)
    BY <2>1 DEF FdInv, IsHeld
  <2> QED
    BY <2>1, <2>2 DEF FdInv, InBooks
<1> QED
  BY <1>1, FdInvAlways, PTL

-----------------------------------------------------------------------------
(* A fold over a command is the end of a trace.                            *)

(* Every set of numbers has a least one.                                    *)
LEMMA NatMin ==
  ASSUME NEW T, T \subseteq Nat, T # {}
  PROVE \E x \in T : \A y \in T : x <= y
<1> DEFINE R == OpToRel(<, Nat)
<1>1. IsWellFoundedOn(R, Nat) BY NatLessThanWellFounded
<1>3. \A y, x \in Nat : y < x => <<y,x>> \in R  BY DEF OpToRel
<1> HIDE DEF R
<1>2. PICK x \in T : \A y \in T : ~ (<<y, x>> \in R)  BY <1>1, WFMin
<1>4. \A y \in T : ~(y < x)  BY <1>2, <1>3
<1>5. \A y \in T : x <= y  BY <1>4
<1> QED BY <1>5

(* A set of numbers that is bounded has a largest one.                     *)
LEMMA MaxOf ==
    ASSUME NEW m \in Nat, NEW S, S \subseteq 1 .. m, S # {}
    PROVE  Max(S) \in S /\ \A y \in S : y <= Max(S)
<1> DEFINE T == { k \in Nat : \E x \in S : k = m - x }
<1>1. T \subseteq Nat /\ T # {}
  <2>1. PICK x \in S : TRUE
    OBVIOUS
  <2>2. x \in Int /\ m - x \in Nat
    BY <2>1
  <2> QED
    BY <2>1, <2>2
<1>2. PICK k \in T : \A l \in T : k <= l
  BY <1>1, NatMin
<1>3. PICK x \in S : k = m - x
  BY <1>2
<1>4. \A y \in S : y <= x
  <2> SUFFICES ASSUME NEW y \in S PROVE y <= x
    OBVIOUS
  <2>1. x \in 1 .. m /\ y \in 1 .. m
    OBVIOUS
  <2>2. m - y \in T
    BY <2>1
  <2>3. k <= m - y
    BY <1>2, <2>2
  <2> QED
    BY <1>3, <2>1, <2>3
<1> HIDE DEF T
<1>5. \A y \in S : x >= y
  BY <1>3, <1>4
<1>6. Max(S) = CHOOSE z \in S : \A y \in S : z >= y
  BY DEF Max
<1>7. Max(S) \in S /\ \A y \in S : Max(S) >= y
  BY <1>3, <1>5, <1>6
<1>8. \A y \in S : Max(S) >= y => y <= Max(S)
  BY <1>7
<1> QED
  BY <1>7, <1>8

Views == [env : Env, cwd : Dirs \cup {NoDir}, fds : SUBSET Dests]

(* The views of a program that words are applied to one after another.     *)
Trace(tr, q) ==
    /\ tr \in [0 .. Len(q) -> Views]
    /\ \A i \in 1 .. Len(q) : tr[i] = Step(tr[i - 1], q[i])

(* A variable over another is an environment.                               *)
LEMMA OverlayType == ASSUME NEW e \in Env, NEW f \in Env PROVE Overlay(e, f) \in Env
BY DEF Overlay, Env

(* A word leaves a view.                                                    *)
LEMMA StepType ==
    ASSUME NEW s \in Views, NEW w \in Words
    PROVE  Step(s, w) \in Views
<1>1. w.env \in Env /\ w.cwd \in Dirs \cup {NoDir} /\ w.passes \in SUBSET Dests
  BY DEF Words
<1>2. s.env \in Env /\ s.cwd \in Dirs \cup {NoDir} /\ s.fds \in SUBSET Dests
  BY DEF Views
<1>3. NoEnv \in Env
  BY DEF NoEnv, Env
<1>4. Overlay(NoEnv, w.env) \in Env /\ Overlay(s.env, w.env) \in Env
  BY <1>1, <1>2, <1>3, OverlayType
<1>5. [s EXCEPT !.env = Overlay(@, w.env)] \in Views
  BY <1>2, <1>4 DEF Views
<1>6. \A p \in {s.cwd, w.cwd} : [env |-> Overlay(NoEnv, w.env), cwd |-> p, fds |-> s.fds \cap w.passes] \in Views
  BY <1>1, <1>2, <1>4 DEF Views
<1> QED
  BY <1>5, <1>6 DEF Step

(* What the fold of the community modules chooses.                         *)
Folded(it, b, q, m) ==
    it = [s \in SUBSET (1 .. m) |->
             IF s = {} THEN b ELSE Step(it[s \ {Max(s)}], q[Max(s)])]

(* There is such a function, by induction on the length of the command.     *)
LEMMA FoldedThere ==
    ASSUME NEW q, NEW b, NEW n \in Nat
    PROVE  \E it : Folded(it, b, q, n)
<1> DEFINE T == { m \in Nat : ~ \E it : Folded(it, b, q, m) }
<1>1. SUFFICES ASSUME T # {} PROVE FALSE
  OBVIOUS
<1>2. PICK m \in T : \A l \in T : m <= l
  BY <1>1, NatMin
<1>3. m # 0
  <2> DEFINE it == [s \in SUBSET (1 .. 0) |-> b]
  <2>1. 1 .. 0 = {}
    OBVIOUS
  <2>2. Folded(it, b, q, 0)
    BY <2>1 DEF Folded
  <2> QED
    BY <2>2
<1>4. m - 1 \in Nat /\ m - 1 \notin T
  BY <1>2, <1>3
<1>5. PICK it : Folded(it, b, q, m - 1)
  BY <1>4
<1> DEFINE low == SUBSET (1 .. m - 1)
           g == [s \in SUBSET (1 .. m) |-> IF s \in low THEN it[s] ELSE Step(it[s \ {m}], q[m])]
<1>6. ASSUME NEW s \in SUBSET (1 .. m)
      PROVE  g[s] = IF s = {} THEN b ELSE Step(g[s \ {Max(s)}], q[Max(s)])
  <2>1. CASE s = {}
    BY <1>5, <2>1 DEF Folded
  <2>2. CASE s # {} /\ s \in low
    <3>1. Max(s) \in s
      BY <1>4, <2>2, MaxOf
    <3>2. s \ {Max(s)} \in low /\ s \ {Max(s)} \in SUBSET (1 .. m)
      BY <2>2
    <3>3. g[s] = it[s] /\ g[s \ {Max(s)}] = it[s \ {Max(s)}]
      BY <2>2, <3>2
    <3>4. it[s] = Step(it[s \ {Max(s)}], q[Max(s)])
      BY <1>5, <2>2 DEF Folded
    <3> QED
      BY <2>2, <3>3, <3>4
  <2>3. CASE s \notin low
    <3>1. m \in s /\ s # {}
      BY <1>2, <2>3
    <3>2. Max(s) = m
      <4>1. Max(s) \in s /\ m <= Max(s)
        BY <1>2, <3>1, MaxOf
      <4>2. Max(s) \in 1 .. m
        BY <4>1
      <4> QED
        BY <1>2, <4>1, <4>2
    <3>3. s \ {m} \in low /\ s \ {m} \in SUBSET (1 .. m)
      BY <1>2
    <3>4. g[s \ {m}] = it[s \ {m}] /\ g[s] = Step(it[s \ {m}], q[m])
      BY <2>3, <3>3
    <3> QED
      BY <3>1, <3>2, <3>4
  <2> QED
    BY <2>1, <2>2, <2>3
<1>7. Folded(g, b, q, m)
  <2>1. g = [s \in SUBSET (1 .. m) |-> g[s]]
    OBVIOUS
  <2> HIDE DEF g
  <2>2. g = [s \in SUBSET (1 .. m) |-> IF s = {} THEN b ELSE Step(g[s \ {Max(s)}], q[Max(s)])]
    BY <1>6, <2>1
  <2> QED
    BY <2>2 DEF Folded
<1> QED
  BY <1>2, <1>7

(* So the fold over a command is where a trace of it ends.                  *)
LEMMA FoldIsTrace ==
    ASSUME NEW q \in Seq(Words), NEW b \in Views
    PROVE  \E tr : Trace(tr, q) /\ tr[0] = b /\ tr[Len(q)] = FoldLeft(Step, b, q)
<1> DEFINE n == Len(q)
           it == CHOOSE i : Folded(i, b, q, n)
<1>1. n \in Nat /\ DOMAIN q = 1 .. n /\ \A i \in 1 .. n : q[i] \in Words
  OBVIOUS
<1>2. Folded(it, b, q, n)
  BY <1>1, FoldedThere
<1>3. FoldLeft(Step, b, q) = it[1 .. n]
  BY <1>1 DEF FoldLeft, MapThenFoldSet, Folded
<1> HIDE DEF it
<1> DEFINE tr == [i \in 0 .. n |-> it[1 .. i]]
<1>4. tr[0] = b
  <2>1. 1 .. 0 = {} /\ {} \in SUBSET (1 .. n) /\ 0 \in 0 .. n
    BY <1>1
  <2>2. it[{}] = b
    BY <1>2, <2>1 DEF Folded
  <2> QED
    BY <2>1, <2>2
<1>5. ASSUME NEW i \in 1 .. n PROVE tr[i] = Step(tr[i - 1], q[i])
  <2> HIDE DEF n, tr
  <2>0. i \in Nat /\ i >= 1 /\ i <= n /\ i - 1 \in 0 .. n /\ i \in 0 .. n /\ i \in 1 .. i
    BY <1>1
  <2>1. 1 .. i \in SUBSET (1 .. n) /\ 1 .. i # {}
    BY <1>1, <2>0
  <2>2. Max(1 .. i) = i
    <3>0. 1 .. i \subseteq 1 .. i
      OBVIOUS
    <3>1. Max(1 .. i) \in 1 .. i /\ i <= Max(1 .. i)
      BY <2>0, <2>1, <3>0, MaxOf
    <3> QED
      BY <2>0, <3>1
  <2>3. (1 .. i) \ {i} = 1 .. (i - 1)
    BY <2>0
  <2>4. it[1 .. i] = Step(it[(1 .. i) \ {Max(1 .. i)}], q[Max(1 .. i)])
    BY <1>2, <2>1 DEF Folded
  <2> QED
    BY <2>0, <2>2, <2>3, <2>4 DEF tr
<1>6. \A i \in 0 .. n : tr[i] \in Views
  <2> DEFINE T == { i \in 0 .. n : tr[i] \notin Views }
  <2>1. SUFFICES ASSUME T # {} PROVE FALSE
    OBVIOUS
  <2>2. T \subseteq Nat
    BY <1>1
  <2>3. PICK i \in T : \A j \in T : i <= j
    BY <2>1, <2>2, NatMin
  <2>4. i \in 0 .. n /\ tr[i] \notin Views
    BY <2>3
  <2> HIDE DEF tr
  <2>5. i # 0
    BY <1>4, <2>4
  <2>6. i \in 1 .. n /\ i - 1 \in 0 .. n /\ ~(i <= i - 1)
    BY <1>1, <2>4, <2>5
  <2>7. tr[i - 1] \in Views
    BY <2>3, <2>6
  <2>8. Step(tr[i - 1], q[i]) \in Views
    BY <1>1, <2>6, <2>7, StepType
  <2> QED
    BY <1>5, <2>4, <2>6, <2>8
<1>7. tr \in [0 .. n -> Views] /\ n \in 0 .. n
  BY <1>1, <1>6
<1>8. tr[n] = it[1 .. n]
  BY <1>7
<1>9. Trace(tr, q)
  BY <1>5, <1>7 DEF Trace
<1> QED
  BY <1>3, <1>4, <1>8, <1>9

(* Two commands in a row.                                                  *)
LEMMA Joined ==
    ASSUME NEW a \in Seq(Words), NEW b \in Seq(Words), NEW c, c = a \o b
    PROVE  /\ c \in Seq(Words) /\ Len(c) = Len(a) + Len(b) /\ DOMAIN c = 1 .. Len(c)
           /\ \A i \in 1 .. Len(a) : c[i] = a[i]
           /\ \A i \in 1 .. Len(b) : c[Len(a) + i] = b[i]
<1>1. a \o b \in Seq(Words)
  BY ConcatProperties
<1>2. /\ Len(a \o b) = Len(a) + Len(b)
      /\ \A i \in 1 .. Len(a) : (a \o b)[i] = a[i]
      /\ \A i \in 1 .. Len(b) : (a \o b)[Len(a) + i] = b[i]
  BY ConcatProperties
<1> QED
  BY <1>1, <1>2

(* The trace of a command that a wrapper runs.                             *)
LEMMA TraceAfter ==
    ASSUME NEW p \in Seq(Words), NEW q \in Seq(Words), NEW tr, Trace(tr, p \o q)
    PROVE  /\ Trace([i \in 0 .. Len(p) |-> tr[i]], p)
           /\ Trace([i \in 0 .. Len(q) |-> tr[Len(p) + i]], q)
           /\ Len(p \o q) = Len(p) + Len(q) /\ Len(p) \in Nat /\ Len(q) \in Nat
<1>1. /\ Len(p) \in Nat /\ Len(q) \in Nat /\ Len(p \o q) = Len(p) + Len(q)
      /\ \A i \in 1 .. Len(p) : (p \o q)[i] = p[i]
      /\ \A i \in 1 .. Len(q) : (p \o q)[Len(p) + i] = q[i]
  BY ConcatProperties
<1>2. /\ \A i \in 0 .. Len(p) + Len(q) : tr[i] \in Views
      /\ \A i \in 1 .. Len(p) + Len(q) : tr[i] = Step(tr[i - 1], (p \o q)[i])
  BY <1>1 DEF Trace
<1> DEFINE lo == [i \in 0 .. Len(p) |-> tr[i]]
           hi == [i \in 0 .. Len(q) |-> tr[Len(p) + i]]
<1>3. Trace(lo, p)
  <2>1. lo \in [0 .. Len(p) -> Views]
    BY <1>1, <1>2
  <2>2. ASSUME NEW i \in 1 .. Len(p) PROVE lo[i] = Step(lo[i - 1], p[i])
    <3>1. i \in 0 .. Len(p) /\ i - 1 \in 0 .. Len(p) /\ i \in 1 .. Len(p) + Len(q)
      BY <1>1
    <3>2. lo[i] = tr[i] /\ lo[i - 1] = tr[i - 1]
      BY <3>1
    <3> QED
      BY <1>1, <1>2, <3>1, <3>2
  <2> QED
    BY <2>1, <2>2 DEF Trace
<1>4. Trace(hi, q)
  <2>1. hi \in [0 .. Len(q) -> Views]
    BY <1>1, <1>2
  <2>2. ASSUME NEW i \in 1 .. Len(q) PROVE hi[i] = Step(hi[i - 1], q[i])
    <3>1. /\ i \in 0 .. Len(q) /\ i - 1 \in 0 .. Len(q) /\ Len(p) + i \in 1 .. Len(p) + Len(q)
          /\ Len(p) + i - 1 = Len(p) + (i - 1)
      BY <1>1
    <3>2. hi[i] = tr[Len(p) + i] /\ hi[i - 1] = tr[Len(p) + (i - 1)]
      BY <3>1
    <3>3. tr[Len(p) + i] = Step(tr[Len(p) + i - 1], (p \o q)[Len(p) + i])
      BY <1>2, <3>1
    <3> QED
      BY <1>1, <3>1, <3>2, <3>3
  <2> QED
    BY <2>1, <2>2 DEF Trace
<1> QED
  BY <1>1, <1>3, <1>4

(* Programs change nothing.                                                *)
Plain(q) == \A i \in 1 .. Len(q) : q[i].cmd = "program"

(* ... so a trace of programs ends where it began.                          *)
LEMMA PlainTrace ==
    ASSUME NEW q \in Seq(Words), Plain(q), NEW tr, Trace(tr, q)
    PROVE  tr[Len(q)] = tr[0]
<1>1. Len(q) \in Nat /\ \A i \in 1 .. Len(q) : tr[i] = tr[i - 1]
  <2>1. Len(q) \in Nat
    OBVIOUS
  <2>2. ASSUME NEW i \in 1 .. Len(q) PROVE tr[i] = tr[i - 1]
    BY <2>2 DEF Trace, Plain, Step
  <2> QED
    BY <2>1, <2>2
<1> DEFINE T == { i \in 0 .. Len(q) : tr[i] # tr[0] }
<1>2. SUFFICES ASSUME T # {} PROVE FALSE
  BY <1>1
<1>3. T \subseteq Nat
  BY <1>1
<1>4. PICK i \in T : \A j \in T : i <= j
  BY <1>2, <1>3, NatMin
<1>5. i \in 1 .. Len(q) /\ tr[i] # tr[0] /\ i - 1 \in 0 .. Len(q) /\ ~(i <= i - 1)
  BY <1>1, <1>4
<1>6. tr[i - 1] = tr[0]
  BY <1>4, <1>5
<1> QED
  BY <1>1, <1>5, <1>6

-----------------------------------------------------------------------------
Layers == [kind : Kinds, env : Env, cwd : Dirs \cup {NoDir}, argv : Seq(Words)]

EnvOf(v, l) == \A k \in Keys : l.env[k] # Unset => v.env[k] = l.env[k]
CwdOf(v, l) == l.cwd # NoDir => v.cwd = l.cwd
FdsOf(v, m) == \A d \in Dests : m[d] # NoFd => d \in v.fds

(* What new, the layer below when it has taken up's wishes, runs: its own  *)
(* words, at most one wrapper, and up's words, which see what up asks for  *)
(* if the whole command sees what new asks for.                            *)
Wraps(up, low, map, new, ws) ==
    /\ new \in Layers /\ new.kind = low.kind /\ ws \in Seq(Words) /\ Len(ws) \in {0, 1}
    /\ new.argv = low.argv \o (ws \o up.argv)
    /\ \A v \in Views :
          LET w == IF Len(ws) = 0 THEN v ELSE Step(v, ws[1]) IN
          /\ EnvOf(v, new) => EnvOf(w, up)
          /\ CwdOf(v, new) => CwdOf(w, up) \/ (Len(ws) = 1 /\ ws[1].cmd = "podman")
          /\ FdsOf(v, map) => FdsOf(w, map)

(* The words that a handler adds.                                          *)
LEMMA Ran ==
    ASSUME NEW l \in Layers, NEW q \in Seq(Words), NEW n, n = Runs(l, q)
    PROVE  n \in Layers /\ n.kind = l.kind /\ n.cwd = l.cwd /\ n.env = l.env /\ n.argv = l.argv \o q
<1> DEFINE c == l.argv \o q
<1>1. c \in Seq(Words)
  BY ConcatProperties DEF Layers
<1>2. n = [l EXCEPT !.argv = c]
  BY DEF Runs
<1> HIDE DEF c
<1>3. n \in Layers
  BY <1>1, <1>2 DEF Layers
<1>4. n.kind = l.kind /\ n.cwd = l.cwd /\ n.env = l.env /\ n.argv = c
  BY <1>2 DEF Layers
<1> QED
  BY <1>3, <1>4 DEF c

(* One wrapper before up's words.                                          *)
LEMMA WrapsOne ==
    ASSUME NEW up \in Layers, NEW low \in Layers, NEW map, NEW base \in Layers,
           base.argv = low.argv, base.kind = low.kind,
           NEW w \in Words,
           \A v \in Views :
              /\ EnvOf(v, base) => EnvOf(Step(v, w), up)
              /\ CwdOf(v, base) => CwdOf(Step(v, w), up) \/ w.cmd = "podman"
              /\ FdsOf(v, map) => FdsOf(Step(v, w), map)
    PROVE  Wraps(up, low, map, Runs(base, << w >> \o up.argv), << w >>)
<1>1. up.argv \in Seq(Words) /\ << w >> \in Seq(Words) /\ Len(<< w >>) = 1 /\ << w >>[1] = w
  BY DEF Layers
<1>2. << w >> \o up.argv \in Seq(Words)
  BY <1>1, ConcatProperties
<1> DEFINE new == Runs(base, << w >> \o up.argv)
<1>3. /\ new \in Layers /\ new.kind = base.kind /\ new.cwd = base.cwd /\ new.env = base.env
      /\ new.argv = base.argv \o (<< w >> \o up.argv)
  BY <1>2, Ran
<1> HIDE DEF new
<1>4. ASSUME NEW v \in Views
      PROVE  /\ EnvOf(v, new) => EnvOf(Step(v, w), up)
             /\ CwdOf(v, new) => CwdOf(Step(v, w), up) \/ w.cmd = "podman"
             /\ FdsOf(v, map) => FdsOf(Step(v, w), map)
  BY <1>3 DEF EnvOf, CwdOf
<1>5. Wraps(up, low, map, new, << w >>)
  BY <1>1, <1>3, <1>4 DEF Wraps
<1> QED
  BY <1>5 DEF new

(* What a variable is worth when others are laid over it.                   *)
LEMMA OverlayOf ==
    ASSUME NEW e \in Env, NEW f \in Env, NEW k \in Keys
    PROVE  Overlay(e, f)[k] = IF f[k] = Unset THEN e[k] ELSE f[k]
BY DEF Overlay

(* A command that adds variables: the "env" of the default handler, the    *)
(* shell and the scope.                                                    *)
LEMMA AddsEnv ==
    ASSUME NEW v \in Views, NEW w \in Words, w.cmd \in {"env", "shell", "scope"}
    PROVE  /\ Step(v, w).cwd = v.cwd /\ Step(v, w).fds = v.fds
           /\ \A k \in Keys : Step(v, w).env[k] = IF w.env[k] = Unset THEN v.env[k] ELSE w.env[k]
<1>1. Step(v, w) = [v EXCEPT !.env = Overlay(v.env, w.env)]
  BY DEF Step
<1>2. v.env \in Env /\ w.env \in Env
  BY DEF Views, Words
<1>3. Step(v, w).cwd = v.cwd /\ Step(v, w).fds = v.fds /\ Step(v, w).env = Overlay(v.env, w.env)
  BY <1>1 DEF Views
<1> QED
  BY <1>2, <1>3, OverlayOf

(* A command that starts over, on the host or in a container.              *)
LEMMA StartsOver ==
    ASSUME NEW v \in Views, NEW w \in Words, w.cmd \in {"host", "podman", "toolbox", "distrobox"}
    PROVE  /\ Step(v, w).cwd = IF w.cmd = "distrobox" THEN v.cwd ELSE w.cwd
           /\ Step(v, w).fds = v.fds \cap w.passes
           /\ \A k \in Keys : w.env[k] # Unset => Step(v, w).env[k] = w.env[k]
<1>1. /\ Step(v, w).cwd = IF w.cmd = "distrobox" THEN v.cwd ELSE w.cwd
      /\ Step(v, w).fds = v.fds \cap w.passes
      /\ Step(v, w).env = Overlay(NoEnv, w.env)
  BY DEF Step
<1>2. NoEnv \in Env /\ w.env \in Env
  BY DEF NoEnv, Env, Words
<1> QED
  BY <1>1, <1>2, OverlayOf

(* Every handler that does not refuse wraps what up runs.                  *)
LEMMA HandlersWrap ==
    ASSUME NEW up \in Layers, NEW low \in Layers, NEW map \in FdMap,
           up.kind # "root", up.kind # "error"
    PROVE  \E ws : Wraps(up, low, map, Handled(up, low, map), ws)
<1>0. /\ up.kind \in Kinds /\ up.env \in Env /\ up.cwd \in Dirs \cup {NoDir} /\ up.argv \in Seq(Words)
      /\ low.env \in Env /\ low.cwd \in Dirs \cup {NoDir} /\ low.argv \in Seq(Words)
      /\ NoEnv \in Env /\ NoDir \in Dirs \cup {NoDir} /\ Dests \in SUBSET Dests
  BY DEF Layers, NoEnv, Env
<1> DEFINE placed == [low EXCEPT !.cwd = IF up.cwd # NoDir THEN up.cwd ELSE @]
<1>1. /\ placed \in Layers /\ placed.env = low.env /\ placed.argv = low.argv /\ placed.kind = low.kind
      /\ placed.cwd = IF up.cwd # NoDir THEN up.cwd ELSE low.cwd
  BY <1>0 DEF Layers
<1>2. \A v : CwdOf(v, placed) => CwdOf(v, up)
  BY <1>1 DEF CwdOf
<1> HIDE DEF placed
<1>3. CASE up.kind = "default"
  <2>1. Handled(up, low, map) = Default(up, low)
    BY <1>3 DEF Handled
  <2>2. << >> \in Seq(Words) /\ Len(<< >>) = 0 /\ << >> \o up.argv = up.argv /\ low.argv \o << >> = low.argv
    BY <1>0, ConcatProperties
  <2>3. CASE up.argv = << >>
    <3> DEFINE new == [placed EXCEPT !.env = Overlay(placed.env, up.env)]
    <3>1. Handled(up, low, map) = new
      BY <2>1, <2>3 DEF Default, placed
    <3>2. Overlay(placed.env, up.env) \in Env
      BY <1>0, <1>1, OverlayType
    <3>3. /\ new \in Layers /\ new.argv = low.argv /\ new.cwd = placed.cwd /\ new.kind = low.kind
          /\ new.env = Overlay(placed.env, up.env)
      BY <1>1, <3>2 DEF Layers
    <3> HIDE DEF new
    <3>4. \A k \in Keys : up.env[k] # Unset => new.env[k] = up.env[k]
      BY <1>0, <1>1, <3>3, OverlayOf
    <3>5. \A v \in Views : (EnvOf(v, new) => EnvOf(v, up)) /\ (CwdOf(v, new) => CwdOf(v, up))
      BY <1>2, <3>3, <3>4 DEF EnvOf, CwdOf
    <3>6. new.argv = low.argv \o (<< >> \o up.argv)
      BY <2>2, <2>3, <3>3
    <3> QED
      BY <2>2, <3>1, <3>3, <3>5, <3>6 DEF Wraps
  <2>4. CASE up.argv # << >> /\ up.env = NoEnv
    <3>1. PICK new : new = Runs(placed, up.argv)
      OBVIOUS
    <3>2. Handled(up, low, map) = new
      BY <2>1, <2>4, <3>1 DEF Default, placed
    <3>3. /\ new \in Layers /\ new.argv = low.argv \o up.argv /\ new.cwd = placed.cwd /\ new.kind = low.kind
      <4>1. up.argv \in Seq(Words) /\ placed \in Layers
        BY <1>0, <1>1
      <4>2. new \in Layers /\ new.kind = placed.kind /\ new.cwd = placed.cwd /\ new.argv = placed.argv \o up.argv
        BY <3>1, <4>1, Ran
      <4> QED
        BY <1>1, <4>2
    <3>4. \A v \in Views : EnvOf(v, up) /\ (CwdOf(v, new) => CwdOf(v, up))
      BY <1>2, <2>4, <3>3 DEF EnvOf, CwdOf, NoEnv
    <3>5. new.argv = low.argv \o (<< >> \o up.argv)
      BY <2>2, <3>3
    <3> QED
      BY <2>2, <3>2, <3>3, <3>4, <3>5 DEF Wraps
  <2>5. CASE up.argv # << >> /\ up.env # NoEnv
    <3>0. PICK w : w = Word("env", up.env, NoDir, Dests)
      OBVIOUS
    <3>1. Handled(up, low, map) = Runs(placed, << w >> \o up.argv)
      BY <2>1, <2>5, <3>0 DEF Default, placed
    <3>2. w \in Words /\ w.cmd = "env" /\ w.env = up.env
      BY <1>0, <3>0 DEF Kinds, Word, Words
    <3>3. ASSUME NEW v \in Views
          PROVE  /\ EnvOf(v, placed) => EnvOf(Step(v, w), up)
                 /\ CwdOf(v, placed) => CwdOf(Step(v, w), up) \/ w.cmd = "podman"
                 /\ FdsOf(v, map) => FdsOf(Step(v, w), map)
      BY <1>2, <3>2, AddsEnv DEF EnvOf, CwdOf, FdsOf
    <3> QED
      BY <1>1, <3>1, <3>2, <3>3, WrapsOne
  <2> QED
    BY <2>3, <2>4, <2>5
<1>4. CASE up.kind = "shell"
  <2>0. PICK w : w = Word("shell", up.env, NoDir, Dests)
    OBVIOUS
  <2>1. Handled(up, low, map) = Runs(placed, << w >> \o up.argv)
    BY <1>4, <2>0 DEF Handled, Shell, placed
  <2>2. w \in Words /\ w.cmd = "shell" /\ w.env = up.env
    BY <1>0, <2>0 DEF Kinds, Word, Words
  <2>3. ASSUME NEW v \in Views
        PROVE  /\ EnvOf(v, placed) => EnvOf(Step(v, w), up)
               /\ CwdOf(v, placed) => CwdOf(Step(v, w), up) \/ w.cmd = "podman"
               /\ FdsOf(v, map) => FdsOf(Step(v, w), map)
    BY <1>2, <2>2, AddsEnv DEF EnvOf, CwdOf, FdsOf
  <2> QED
    BY <1>1, <2>1, <2>2, <2>3, WrapsOne
<1>5. CASE up.kind = "scope"
  <2>0. PICK w : w = Word("scope", NoEnv, NoDir, Dests)
    OBVIOUS
  <2> DEFINE base == [low EXCEPT !.cwd = up.cwd, !.env = up.env]
  <2>1. Handled(up, low, map) = Runs(base, << w >> \o up.argv)
    BY <1>5, <2>0 DEF Handled, Scope
  <2>2. w \in Words /\ w.cmd = "scope" /\ w.env = NoEnv
    BY <1>0, <2>0 DEF Kinds, Word, Words
  <2>3. base \in Layers /\ base.cwd = up.cwd /\ base.env = up.env /\ base.argv = low.argv /\ base.kind = low.kind
    BY <1>0 DEF Layers
  <2> HIDE DEF base
  <2>4. ASSUME NEW v \in Views
        PROVE  /\ EnvOf(v, base) => EnvOf(Step(v, w), up)
               /\ CwdOf(v, base) => CwdOf(Step(v, w), up) \/ w.cmd = "podman"
               /\ FdsOf(v, map) => FdsOf(Step(v, w), map)
    BY <2>2, <2>3, AddsEnv DEF EnvOf, CwdOf, FdsOf, NoEnv
  <2> QED
    BY <2>1, <2>2, <2>3, <2>4, WrapsOne
<1>6. CASE up.kind = "host"
  <2> DEFINE D == (Dests \cap {0, 1}) \cup Forwarded(map)
  <2>0. PICK w : w = Word("host", up.env, up.cwd, D)
    OBVIOUS
  <2>1. Handled(up, low, map) = Runs(low, << w >> \o up.argv)
    BY <1>6, <2>0 DEF Handled, Host
  <2>2. D \in SUBSET Dests /\ \A d \in Dests : map[d] # NoFd => d \in D
    BY ContextAssumption DEF Forwarded
  <2> HIDE DEF D
  <2>3. w \in Words /\ w.cmd = "host" /\ w.env = up.env /\ w.cwd = up.cwd /\ w.passes = D
    BY <1>0, <2>0, <2>2 DEF Kinds, Word, Words
  <2>4. ASSUME NEW v \in Views
        PROVE  /\ EnvOf(v, low) => EnvOf(Step(v, w), up)
               /\ CwdOf(v, low) => CwdOf(Step(v, w), up) \/ w.cmd = "podman"
               /\ FdsOf(v, map) => FdsOf(Step(v, w), map)
    BY <2>2, <2>3, StartsOver DEF EnvOf, CwdOf, FdsOf
  <2> QED
    BY <2>1, <2>3, <2>4, WrapsOne
<1>7. \A d \in Dests : map[d] # NoFd => d \in Preserved(map)
  BY ContextAssumption DEF Preserved
<1>8. Preserved(map) \in SUBSET Dests
  BY DEF Preserved
<1>9. CASE up.kind \in {"podman", "toolbox"}
  <2>0. PICK w : w = Word(up.kind, up.env, IF up.kind = "toolbox" THEN up.cwd ELSE NoDir, Preserved(map))
    OBVIOUS
  <2>1. Handled(up, low, map) = Runs(low, << w >> \o up.argv)
    BY <1>9, <2>0 DEF Handled, Podman
  <2>5. (IF up.kind = "toolbox" THEN up.cwd ELSE NoDir) \in Dirs \cup {NoDir} /\ up.kind \in Kinds \cup {"program", "env"}
    BY <1>0
  <2>2. /\ w \in Words /\ w.cmd = up.kind /\ w.env = up.env /\ w.passes = Preserved(map)
        /\ w.cwd = IF up.kind = "toolbox" THEN up.cwd ELSE NoDir
    BY <1>0, <1>8, <2>0, <2>5 DEF Word, Words
  <2>3. ASSUME NEW v \in Views
        PROVE  /\ EnvOf(v, low) => EnvOf(Step(v, w), up)
               /\ CwdOf(v, low) => CwdOf(Step(v, w), up) \/ w.cmd = "podman"
               /\ FdsOf(v, map) => FdsOf(Step(v, w), map)
    BY <1>7, <1>9, <2>2, StartsOver DEF EnvOf, CwdOf, FdsOf
  <2> QED
    BY <2>1, <2>2, <2>3, WrapsOne
<1>10. CASE up.kind = "distrobox"
  <2>0. PICK w : w = Word("distrobox", up.env, NoDir, Preserved(map))
    OBVIOUS
  <2>1. Handled(up, low, map) = Runs(placed, << w >> \o up.argv)
    BY <1>10, <2>0 DEF Handled, Distrobox, placed
  <2>2. w \in Words /\ w.cmd = "distrobox" /\ w.env = up.env /\ w.passes = Preserved(map)
    BY <1>0, <1>8, <2>0 DEF Kinds, Word, Words
  <2>3. ASSUME NEW v \in Views
        PROVE  /\ EnvOf(v, placed) => EnvOf(Step(v, w), up)
               /\ CwdOf(v, placed) => CwdOf(Step(v, w), up) \/ w.cmd = "podman"
               /\ FdsOf(v, map) => FdsOf(Step(v, w), map)
    BY <1>2, <1>7, <2>2, StartsOver DEF EnvOf, CwdOf, FdsOf
  <2> QED
    BY <1>1, <2>1, <2>2, <2>3, WrapsOne
<1> QED
  BY <1>0, <1>3, <1>4, <1>5, <1>6, <1>9, <1>10 DEF Kinds

-----------------------------------------------------------------------------
InPodman(q) == \E i \in DOMAIN q : q[i].cmd = "podman"

(* The command of l delivers what was asked for, if it is run as l asks.   *)
Delivers(l, m) ==
    \A tr : Trace(tr, l.argv) =>
       /\ EnvOf(tr[0], l) => EnvOf(tr[Len(l.argv)], asked)
       /\ CwdOf(tr[0], l) => CwdOf(tr[Len(l.argv)], asked) \/ InPodman(l.argv)
       /\ FdsOf(tr[0], m) => FdsOf(tr[Len(l.argv)], asked.fds)

(* If what up runs delivers what was asked for, so does the layer below.    *)
LEMMA WrapDelivers ==
    ASSUME NEW up \in Layers, NEW low \in Layers, NEW map, NEW below, NEW new, NEW ws,
           Wraps(up, low, map, new, ws), Plain(low.argv), Delivers(up, map),
           \A d \in Dests : map[d] # NoFd => below[d] # NoFd
    PROVE  Delivers(new, below)
<1> DEFINE p == low.argv
           r == ws \o up.argv
<1>1. /\ p \in Seq(Words) /\ ws \in Seq(Words) /\ up.argv \in Seq(Words) /\ new.argv = p \o r
      /\ Len(ws) \in {0, 1}
  BY DEF Layers, Wraps
<1>2. /\ r \in Seq(Words) /\ Len(r) = Len(ws) + Len(up.argv) /\ DOMAIN r = 1 .. Len(r)
      /\ \A i \in 1 .. Len(ws) : r[i] = ws[i]
      /\ \A i \in 1 .. Len(up.argv) : r[Len(ws) + i] = up.argv[i]
  BY <1>1, ConcatProperties
<1>3. /\ new.argv \in Seq(Words) /\ Len(new.argv) = Len(p) + Len(r) /\ DOMAIN new.argv = 1 .. Len(new.argv)
      /\ \A i \in 1 .. Len(r) : new.argv[Len(p) + i] = r[i]
  <2> HIDE DEF r, p
  <2>1. p \in Seq(Words) /\ r \in Seq(Words) /\ new.argv = p \o r
    BY <1>1, <1>2
  <2> QED
    BY <2>1, Joined
<1>4. Len(p) \in Nat /\ Len(ws) \in Nat /\ Len(up.argv) \in Nat
  BY <1>1
<1> HIDE DEF p
<1>5. ASSUME NEW tr, Trace(tr, new.argv)
      PROVE  \E v \in Views : \E w \in Views : \E hi :
                /\ v = tr[0] /\ w = IF Len(ws) = 0 THEN v ELSE Step(v, ws[1])
                /\ Trace(hi, up.argv) /\ hi[0] = w /\ hi[Len(up.argv)] = tr[Len(new.argv)]
  <2> DEFINE lo == [i \in 0 .. Len(p) |-> tr[i]]
             mid == [i \in 0 .. Len(r) |-> tr[Len(p) + i]]
             hi == [i \in 0 .. Len(up.argv) |-> mid[Len(ws) + i]]
  <2>1. Trace(tr, p \o r)
    BY <1>1, <1>5
  <2>2. Trace(lo, p) /\ Trace(mid, r)
    <3> HIDE DEF r
    <3> QED
      BY <1>1, <1>2, <2>1, TraceAfter
  <2>3. lo[Len(p)] = lo[0]
    <3>1. Plain(p)
      BY DEF p
    <3> HIDE DEF lo
    <3> QED
      BY <1>1, <2>2, <3>1, PlainTrace
  <2>4. tr[Len(p)] = tr[0] /\ mid[0] = tr[0] /\ mid[Len(r)] = tr[Len(new.argv)]
    BY <1>2, <1>3, <1>4, <2>3
  <2> HIDE DEF mid, lo
  <2>5. Trace(hi, up.argv)
    BY <1>1, <2>2, TraceAfter
  <2>6. hi[0] = mid[Len(ws)] /\ hi[Len(up.argv)] = mid[Len(r)]
    BY <1>2, <1>4
  <2>7. mid[0] \in Views /\ mid[Len(ws)] \in Views
    <3>1. 0 \in 0 .. Len(r) /\ Len(ws) \in 0 .. Len(r)
      BY <1>2, <1>4
    <3> QED
      BY <2>2, <3>1 DEF Trace
  <2>8. mid[Len(ws)] = IF Len(ws) = 0 THEN mid[0] ELSE Step(mid[0], ws[1])
    <3>1. CASE Len(ws) = 0
      BY <3>1
    <3>2. CASE Len(ws) = 1
      <4>1. 1 \in 1 .. Len(r) /\ r[1] = ws[1] /\ 1 - 1 = 0
        BY <1>2, <1>4, <3>2
      <4> QED
        BY <2>2, <3>2, <4>1 DEF Trace
    <3> QED
      BY <1>1, <3>1, <3>2
  <2> HIDE DEF hi
  <2> QED
    BY <2>4, <2>5, <2>6, <2>7, <2>8
<1>6. ASSUME Len(ws) = 1 /\ ws[1].cmd = "podman" PROVE InPodman(new.argv)
  <2>1. 1 \in 1 .. Len(r) /\ r[1] = ws[1]
    BY <1>2, <1>4, <1>6
  <2> HIDE DEF r
  <2>2. Len(p) + 1 \in DOMAIN new.argv /\ new.argv[Len(p) + 1].cmd = "podman"
    BY <1>2, <1>3, <1>4, <1>6, <2>1
  <2> QED
    BY <2>2 DEF InPodman
<1>7. ASSUME InPodman(up.argv) PROVE InPodman(new.argv)
  <2>1. PICK i \in 1 .. Len(up.argv) : up.argv[i].cmd = "podman"
    BY <1>1, <1>7 DEF InPodman
  <2>2. Len(ws) + i \in 1 .. Len(r) /\ r[Len(ws) + i].cmd = "podman"
    BY <1>2, <1>4, <2>1
  <2> HIDE DEF r
  <2>3. Len(p) + (Len(ws) + i) \in DOMAIN new.argv /\ new.argv[Len(p) + (Len(ws) + i)].cmd = "podman"
    BY <1>2, <1>3, <1>4, <2>2
  <2> QED
    BY <2>3 DEF InPodman
<1> HIDE DEF r
<1>8. ASSUME NEW tr, Trace(tr, new.argv)
      PROVE  /\ EnvOf(tr[0], new) => EnvOf(tr[Len(new.argv)], asked)
             /\ CwdOf(tr[0], new) => CwdOf(tr[Len(new.argv)], asked) \/ InPodman(new.argv)
             /\ FdsOf(tr[0], below) => FdsOf(tr[Len(new.argv)], asked.fds)
  <2>1. PICK v, w, hi :
           /\ v \in Views /\ w \in Views
           /\ v = tr[0] /\ w = IF Len(ws) = 0 THEN v ELSE Step(v, ws[1])
           /\ Trace(hi, up.argv) /\ hi[0] = w /\ hi[Len(up.argv)] = tr[Len(new.argv)]
    BY <1>5, <1>8
  <2>2. /\ EnvOf(v, new) => EnvOf(w, up)
        /\ CwdOf(v, new) => CwdOf(w, up) \/ (Len(ws) = 1 /\ ws[1].cmd = "podman")
        /\ FdsOf(v, map) => FdsOf(w, map)
    BY <2>1 DEF Wraps
  <2>3. FdsOf(v, below) => FdsOf(v, map)
    BY DEF FdsOf
  <2>4. /\ EnvOf(w, up) => EnvOf(tr[Len(new.argv)], asked)
        /\ CwdOf(w, up) => CwdOf(tr[Len(new.argv)], asked) \/ InPodman(up.argv)
        /\ FdsOf(w, map) => FdsOf(tr[Len(new.argv)], asked.fds)
    BY <2>1 DEF Delivers
  <2> QED
    BY <1>6, <1>7, <2>1, <2>2, <2>3, <2>4
<1> QED
  BY <1>8 DEF Delivers

-----------------------------------------------------------------------------
(* What is asked for is delivered by the layer that is being unwound; the  *)
(* layers below it run nothing but programs yet, those above it hold no    *)
(* descriptor any more.                                                    *)
SeenInv ==
    /\ FdInv
    /\ layer \in [Levels -> Layers] /\ child \in FdMap
    /\ \A l \in Levels : 1 < l /\ l <= top => layer[l].kind # "root"
    /\ \A l \in Levels, d \in Dests : l > top => fds[l][d] = NoFd
    /\ phase = "building" => \A l \in Levels : Plain(layer[l].argv)
    /\ phase = "unwinding" =>
          /\ \A l \in Levels : l < top => Plain(layer[l].argv)
          /\ Delivers(layer[top], fds[top])
          /\ \A d \in Dests : asked.all[d] = { fds[l][d] : l \in Levels } \ {NoFd}
    /\ ProgramSeesItsLayer

(* A layer that was just pushed runs nothing.                               *)
LEMMA FreshLayer ==
    ASSUME NEW kind \in Kinds
    PROVE  Layer(kind) \in Layers /\ Plain(Layer(kind).argv) /\ Layer(kind).kind = kind
<1>1. << >> \in Seq(Words) /\ Len(<< >>) = 0
  OBVIOUS
<1>2. NoEnv \in Env
  BY DEF NoEnv, Env
<1> QED
  BY <1>1, <1>2 DEF Layer, Layers, Plain

(* Nothing was asked for at first.                                          *)
LEMMA SeenInit == Init => SeenInv
<1> SUFFICES ASSUME Init PROVE SeenInv
  OBVIOUS
<1>1. FdInv
  BY FdInvInit
<1>2. RootEnv \in Env /\ NoEnv \in Env
  BY ContextAssumption DEF Env, NoEnv
<1>3. "root" \in Kinds
  BY DEF Kinds
<1>4. \A e \in Env : LET n == [Layer("root") EXCEPT !.env = e] IN
                     n \in Layers /\ n.argv = Layer("root").argv
  <2>1. Layer("root") \in Layers
    BY <1>3, FreshLayer
  <2> QED
    BY <2>1 DEF Layers
<1>5. layer \in [Levels -> Layers] /\ \A l \in Levels : layer[l].argv = Layer("root").argv
  <2>1. layer = [l \in Levels |-> [Layer("root") EXCEPT !.env = IF l = 1 THEN RootEnv ELSE NoEnv]]
    BY DEF Init
  <2> QED
    BY <1>2, <1>4, <2>1
<1>6. \A l \in Levels : Plain(layer[l].argv)
  BY <1>3, <1>5, FreshLayer
<1>7. child \in FdMap /\ (\A l \in Levels, d \in Dests : fds[l][d] = NoFd) /\ top = 1 /\ phase = "building"
  BY DEF Init, FdMap, NoFds
<1>8. \A l \in Levels : ~(1 < l /\ l <= top)
  BY <1>7, ContextAssumption DEF Levels
<1> QED
  BY <1>1, <1>5, <1>6, <1>7, <1>8 DEF SeenInv, ProgramSeesItsLayer

(* A step after which nothing is unwound and no program runs.              *)
LEMMA Elsewhere ==
    ASSUME SeenInv, FdInv', phase' \notin {"building", "unwinding", "spawned"},
           layer' \in [Levels -> Layers], child' \in FdMap,
           \A l \in Levels : 1 < l /\ l <= top' => layer'[l].kind # "root",
           \A l \in Levels, d \in Dests : l > top' => fds'[l][d] = NoFd
    PROVE  SeenInv'
BY DEF SeenInv, ProgramSeesItsLayer

(* A layer is pushed.                                                       *)
LEMMA PushSeen ==
    ASSUME SeenInv, FdInv', NEW kind \in Kinds \ {"root"}, Push(kind)
    PROVE  SeenInv'
<1>0. top \in Levels /\ MaxLayers \in Nat /\ layer \in [Levels -> Layers] /\ phase = "building"
  BY ContextAssumption DEF SeenInv, FdInv, FdTypeOK, Push
<1>1. /\ top' = top + 1 /\ top + 1 \in Levels /\ layer' = [layer EXCEPT ![top + 1] = Layer(kind)]
      /\ phase' = "building" /\ fds' = fds /\ child' = child
  BY <1>0 DEF Push, fdVars, Levels
<1>2. PICK n : n = Layer(kind) /\ n \in Layers /\ Plain(n.argv) /\ n.kind # "root"
  BY FreshLayer
<1>3. /\ layer' \in [Levels -> Layers]
      /\ \A l \in Levels : layer'[l] = IF l = top + 1 THEN n ELSE layer[l]
  BY <1>0, <1>1, <1>2
<1>4. \A l \in Levels : 1 < l /\ l <= top' => layer'[l].kind # "root"
  BY <1>0, <1>1, <1>2, <1>3 DEF SeenInv, Levels
<1>5. \A l \in Levels : Plain(layer'[l].argv)
  BY <1>0, <1>2, <1>3 DEF SeenInv
<1>6. \A l \in Levels, d \in Dests : l > top' => fds'[l][d] = NoFd
  BY <1>0, <1>1 DEF SeenInv, Levels
<1> QED
  BY <1>1, <1>3, <1>4, <1>5, <1>6 DEF SeenInv, ProgramSeesItsLayer

(* An edit writes a layer that runs programs only, and leaves its kind.    *)
LEMMA EditSeen ==
    ASSUME SeenInv, FdInv', NEW new \in Layers, Edit(new), new.kind = layer[top].kind, Plain(new.argv)
    PROVE  SeenInv'
<1>0. top \in Levels /\ layer \in [Levels -> Layers] /\ phase = "building"
  BY DEF SeenInv, FdInv, FdTypeOK, Edit
<1>1. /\ top' = top /\ layer' = [layer EXCEPT ![top] = new]
      /\ phase' = "building" /\ fds' = fds /\ child' = child
  BY <1>0 DEF Edit, fdVars
<1>2. /\ layer' \in [Levels -> Layers]
      /\ \A l \in Levels : layer'[l] = IF l = top THEN new ELSE layer[l]
  BY <1>0, <1>1
<1>3. /\ \A l \in Levels : 1 < l /\ l <= top' => layer'[l].kind # "root"
      /\ \A l \in Levels : Plain(layer'[l].argv)
  BY <1>0, <1>1, <1>2 DEF SeenInv
<1> QED
  BY <1>1, <1>2, <1>3 DEF SeenInv, ProgramSeesItsLayer

(* ... as each of the calls that describe the command does.                 *)
LEMMA EditsSeen ==
    ASSUME SeenInv, FdInv',
           \/ \E k \in Keys, v \in Vals \cup {Unset} : Setenv(k, v)
           \/ \E dir \in Dirs : SetCwd(dir)
           \/ AppendProgram
    PROVE  SeenInv'
<1>0. layer[top] \in Layers
  BY DEF SeenInv, FdInv, FdTypeOK
<1>1. Plain(layer[top].argv)
  BY DEF SeenInv, FdInv, FdTypeOK, Setenv, SetCwd, AppendProgram, Edit
<1>2. ASSUME NEW k \in Keys, NEW v \in Vals \cup {Unset}, Setenv(k, v) PROVE SeenInv'
  <2> DEFINE e == [layer[top].env EXCEPT ![k] = v]
             new == [layer[top] EXCEPT !.env[k] = v]
  <2>1. e \in Env
    BY <1>0 DEF Layers, Env
  <2>2. new = [layer[top] EXCEPT !.env = e]
    BY <1>0 DEF Layers
  <2> HIDE DEF e
  <2>3. new \in Layers /\ new.kind = layer[top].kind /\ new.argv = layer[top].argv
    <3> HIDE DEF new
    <3> QED
      BY <1>0, <2>1, <2>2 DEF Layers
  <2>4. Edit(new)
    BY <1>2 DEF Setenv
  <2> HIDE DEF new
  <2> QED
    BY <1>1, <2>3, <2>4, EditSeen
<1>3. ASSUME NEW dir \in Dirs, SetCwd(dir) PROVE SeenInv'
  <2> DEFINE new == [layer[top] EXCEPT !.cwd = dir]
  <2>1. new \in Layers /\ new.kind = layer[top].kind /\ new.argv = layer[top].argv
    BY <1>0 DEF Layers
  <2>2. Edit(new)
    BY <1>3 DEF SetCwd
  <2> HIDE DEF new
  <2> QED
    BY <1>1, <2>1, <2>2, EditSeen
<1>4. ASSUME AppendProgram PROVE SeenInv'
  <2>0. PICK w : w = Word("program", NoEnv, NoDir, {})
    OBVIOUS
  <2>1. w \in Words /\ w.cmd = "program"
    BY <2>0 DEF Word, Words, NoEnv, Env
  <2> DEFINE q == Append(layer[top].argv, w)
             new == [layer[top] EXCEPT !.argv = q]
  <2>2. q \in Seq(Words) /\ Plain(q)
    <3>1. layer[top].argv \in Seq(Words)
      BY <1>0 DEF Layers
    <3>2. /\ q \in Seq(Words) /\ Len(q) = Len(layer[top].argv) + 1
          /\ \A i \in 1 .. Len(layer[top].argv) : q[i] = layer[top].argv[i]
          /\ q[Len(layer[top].argv) + 1] = w
      BY <2>1, <3>1, AppendProperties
    <3>3. Len(layer[top].argv) \in Nat
      BY <3>1
    <3> HIDE DEF q
    <3> QED
      BY <1>1, <2>1, <3>2, <3>3 DEF Plain
  <2> HIDE DEF q
  <2>3. new \in Layers /\ new.kind = layer[top].kind /\ new.argv = q
    BY <1>0, <2>2 DEF Layers
  <2>4. Edit(new)
    BY <1>4, <2>0 DEF AppendProgram, q
  <2> HIDE DEF new
  <2> QED
    BY <2>2, <2>3, <2>4, EditSeen
<1> QED
  BY <1>2, <1>3, <1>4

(* A descriptor is put into the map of the current layer.                   *)
LEMMA TakeFdSeen ==
    ASSUME SeenInv, FdInv', NEW f \in Fds, NEW d \in Dests, TakeFd(f, d)
    PROVE  SeenInv'
<1>1. /\ top \in Levels /\ fds \in [Levels -> FdMap] /\ phase = "building"
      /\ phase' = "building" /\ top' = top /\ layer' = layer /\ child' = child
      /\ fds' = [fds EXCEPT ![top][d] = f]
  BY DEF SeenInv, FdInv, FdTypeOK, TakeFd
<1>2. \A l \in Levels, e \in Dests : l > top => fds'[l][e] = NoFd
  <2>1. \A l \in Levels : l # top => fds'[l] = fds[l]
    BY <1>1
  <2>2. \A l \in Levels : l > top => l # top
    BY <1>1 DEF Levels
  <2> QED
    BY <2>1, <2>2 DEF SeenInv
<1> QED
  BY <1>1, <1>2 DEF SeenInv, ProgramSeesItsLayer

(* The top layer asks: its programs change nothing, so they deliver.        *)
LEMMA SpawnSeen ==
    ASSUME SeenInv, FdInv', Spawn
    PROVE  SeenInv'
<1>1. /\ top \in Levels /\ phase = "building" /\ phase' = "unwinding" /\ layer \in [Levels -> Layers]
      /\ top' = top /\ layer' = layer /\ fds' = fds /\ child' = child
  BY DEF SeenInv, FdInv, FdTypeOK, Spawn, fdVars
<1>2. PICK l : l = layer[top] /\ l \in Layers /\ Plain(l.argv)
  BY <1>1 DEF SeenInv
<1>3. asked'.env = l.env /\ asked'.cwd = l.cwd /\ asked'.fds = fds[top]
  BY <1>2 DEF Spawn
<1>4. \A d \in Dests : asked'.all[d] = { fds'[m][d] : m \in Levels } \ {NoFd}
  BY <1>1 DEF Spawn
<1>5. PICK m : m = fds[top]
  OBVIOUS
<1>6. Delivers(l, m)'
  <2>1. ASSUME NEW tr, Trace(tr, l.argv) PROVE tr[Len(l.argv)] = tr[0]
    BY <1>2, <2>1, PlainTrace DEF Layers
  <2> QED
    BY <1>3, <1>5, <2>1 DEF Delivers, EnvOf, CwdOf, FdsOf
<1>7. Delivers(layer[top], fds[top])'
  BY <1>1, <1>2, <1>5, <1>6
<1> QED
  BY <1>1, <1>4, <1>7 DEF SeenInv, ProgramSeesItsLayer

(* A layer is taken up by the one below.                                    *)
LEMMA UnwindSeen ==
    ASSUME SeenInv, FdInv', Unwind
    PROVE  SeenInv'
<1> DEFINE D == Free(fds[top], fds[top - 1])
<1>0. /\ FdInv /\ phase = "unwinding" /\ top > 1 /\ top \in Levels /\ top - 1 \in Levels
      /\ layer \in [Levels -> Layers] /\ fds \in [Levels -> FdMap]
  BY ContextAssumption DEF SeenInv, FdInv, FdTypeOK, Unwind, Levels
<1>1. /\ top' = top - 1 /\ phase' = "unwinding" /\ asked' = asked /\ child' = child
      /\ layer' = [layer EXCEPT ![top - 1] = Handled(layer[top], layer[top - 1], fds[top]), ![top] = Layer("root")]
      /\ fds' = Moved(D) /\ ~Refuses(layer[top], layer[top - 1]) /\ ~Collides(fds[top], fds[top - 1])
  BY <1>0 DEF Unwind
<1>2. /\ fds' \in [Levels -> FdMap]
      /\ \A d \in Dests : fds'[top][d] = NoFd
      /\ \A d \in Dests : fds'[top - 1][d] = IF d \in D THEN fds[top][d] ELSE fds[top - 1][d]
      /\ \A l \in Levels \ {top, top - 1} : fds'[l] = fds[l]
  BY <1>0, <1>1, MovedEffect
<1>3. \A d \in Dests : /\ d \in D <=> fds[top][d] # NoFd
                       /\ fds[top][d] # NoFd => fds[top - 1][d] = NoFd
  BY <1>1 DEF Free, Collides
<1> HIDE DEF D
<1>4. PICK up, low, map, new, below :
         /\ up = layer[top] /\ low = layer[top - 1] /\ map = fds[top] /\ below = fds'[top - 1]
         /\ new = Handled(up, low, map)
  OBVIOUS
<1>5. /\ up \in Layers /\ low \in Layers /\ map \in FdMap /\ Plain(low.argv) /\ Delivers(up, map)
      /\ up.kind # "root" /\ up.kind # "error"
  BY <1>0, <1>1, <1>4 DEF SeenInv, Refuses, Levels
<1>6. PICK ws : Wraps(up, low, map, new, ws)
  BY <1>4, <1>5, HandlersWrap
<1>7. \A d \in Dests : map[d] # NoFd => below[d] # NoFd
  BY <1>2, <1>3, <1>4
<1>8. Delivers(new, below)
  BY <1>5, <1>6, <1>7, WrapDelivers
<1>9. Delivers(new, below)'
  BY <1>1, <1>8 DEF Delivers
<1>10. new \in Layers
  BY <1>6 DEF Wraps
<1>11. PICK root : root = Layer("root") /\ root \in Layers
  BY FreshLayer DEF Kinds
<1>12. layer' = [layer EXCEPT ![top - 1] = new, ![top] = root]
  BY <1>1, <1>4, <1>11
<1>13. /\ layer' \in [Levels -> Layers] /\ layer'[top - 1] = new
       /\ \A l \in Levels : l < top - 1 => layer'[l] = layer[l]
  <2>1. \A l \in Levels : l < top - 1 => l # top - 1 /\ l # top
    BY <1>0 DEF Levels
  <2>2. top # top - 1
    BY <1>0 DEF Levels
  <2> QED
    BY <1>0, <1>10, <1>11, <1>12, <2>1, <2>2
<1>14. Delivers(layer[top], fds[top])'
  BY <1>1, <1>4, <1>9, <1>13
<1>15. \A l \in Levels : 1 < l /\ l <= top' => layer'[l].kind # "root"
  <2> SUFFICES ASSUME NEW l \in Levels, 1 < l, l <= top - 1 PROVE layer'[l].kind # "root"
    BY <1>1
  <2>2. CASE l < top - 1
    BY <1>0, <1>13, <2>2 DEF SeenInv, Levels
  <2>3. CASE l = top - 1
    <3>1. new.kind = low.kind
      BY <1>6 DEF Wraps
    <3> QED
      BY <1>0, <1>4, <1>13, <2>3, <3>1 DEF SeenInv, Levels
  <2> QED
    BY <1>0, <2>2, <2>3 DEF Levels
<1>16. \A l \in Levels, d \in Dests : l > top' => fds'[l][d] = NoFd
  <2>1. \A l \in Levels : l > top - 1 => l = top \/ (l > top /\ l \notin {top, top - 1})
    BY <1>0 DEF Levels
  <2> QED
    BY <1>1, <1>2, <2>1 DEF SeenInv
<1>17. \A l \in Levels : l < top' => Plain(layer'[l].argv)
  BY <1>0, <1>1, <1>13 DEF SeenInv, Levels
<1>18. ASSUME NEW d \in Dests
       PROVE  { fds'[l][d] : l \in Levels } \ {NoFd} = { fds[l][d] : l \in Levels } \ {NoFd}
  <2>1. ASSUME NEW f, f # NoFd, NEW l \in Levels, fds'[l][d] = f
        PROVE  \E m \in Levels : fds[m][d] = f
    BY <1>0, <1>2, <2>1
  <2>2. ASSUME NEW f, f # NoFd, NEW l \in Levels, fds[l][d] = f
        PROVE  \E m \in Levels : fds'[m][d] = f
    BY <1>0, <1>2, <1>3, <2>2
  <2> QED
    BY <2>1, <2>2
<1>19. \A d \in Dests : asked'.all[d] = { fds'[l][d] : l \in Levels } \ {NoFd}
  BY <1>0, <1>1, <1>18 DEF SeenInv
<1>20. child' \in FdMap
  BY <1>1 DEF SeenInv
<1> QED
  BY <1>1, <1>13, <1>14, <1>15, <1>16, <1>17, <1>19, <1>20 DEF SeenInv, ProgramSeesItsLayer

(* A handler fails, and no program will run.                                *)
LEMMA UnwindFailsSeen ==
    ASSUME SeenInv, FdInv', UnwindFails
    PROVE  SeenInv'
<1>0. /\ FdInv /\ top > 1 /\ top \in Levels /\ top - 1 \in Levels
      /\ layer \in [Levels -> Layers] /\ fds \in [Levels -> FdMap]
  BY ContextAssumption DEF SeenInv, FdInv, FdTypeOK, UnwindFails, Levels
<1>1. PICK D \in SUBSET Free(fds[top], fds[top - 1]) : fds' = Moved(D)
  BY DEF UnwindFails
<1>2. /\ top' = top - 1 /\ phase' = "failed" /\ child' = child
      /\ layer' = [layer EXCEPT ![top] = Layer("root")]
  BY DEF UnwindFails
<1>3. /\ \A d \in Dests : fds'[top][d] = NoFd
      /\ \A l \in Levels \ {top, top - 1} : fds'[l] = fds[l]
  BY <1>0, <1>1, MovedEffect
<1>4. PICK root : root = Layer("root") /\ root \in Layers
  BY FreshLayer DEF Kinds
<1>5. layer' \in [Levels -> Layers] /\ \A l \in Levels : l # top => layer'[l] = layer[l]
  BY <1>0, <1>2, <1>4
<1>6. \A l \in Levels : 1 < l /\ l <= top' => layer'[l].kind # "root"
  BY <1>0, <1>2, <1>5 DEF SeenInv, Levels
<1>7. \A l \in Levels, d \in Dests : l > top' => fds'[l][d] = NoFd
  <2>1. \A l \in Levels : l > top - 1 => l = top \/ (l > top /\ l \notin {top, top - 1})
    BY <1>0 DEF Levels
  <2> QED
    BY <1>2, <1>3, <2>1 DEF SeenInv
<1>8. child' \in FdMap
  BY <1>2 DEF SeenInv
<1> QED
  BY <1>2, <1>5, <1>6, <1>7, <1>8, Elsewhere

(* The context goes away.                                                   *)
LEMMA DisposeSeen ==
    ASSUME SeenInv, FdInv', Dispose
    PROVE  SeenInv'
<1>1. /\ phase' = "disposed" /\ top' = top /\ layer' = layer /\ child' = child
      /\ fds' = [l \in Levels |-> NoFds]
  BY DEF Dispose
<1>2. \A l \in Levels, d \in Dests : fds'[l][d] = NoFd
  BY <1>1 DEF NoFds
<1>3. /\ layer' \in [Levels -> Layers] /\ child' \in FdMap
      /\ \A l \in Levels : 1 < l /\ l <= top' => layer'[l].kind # "root"
  BY <1>1 DEF SeenInv
<1> QED
  BY <1>1, <1>2, <1>3, Elsewhere

(* The root becomes the child: what its command delivers is what was asked *)
(* for, and all descriptors are the child's.                               *)
LEMMA ForkSeen ==
    ASSUME SeenInv, FdInv', Fork
    PROVE  SeenInv'
<1>0. /\ FdInv /\ phase = "unwinding" /\ top = 1 /\ 1 \in Levels
      /\ layer \in [Levels -> Layers] /\ fds \in [Levels -> FdMap] /\ child \in FdMap
  BY ContextAssumption DEF SeenInv, FdInv, FdTypeOK, Fork, Levels
<1>1. /\ top' = top /\ layer' = layer /\ asked' = asked /\ fds' = [fds EXCEPT ![1] = NoFds]
      /\ \/ phase' = "spawned" /\ child' = fds[1]
         \/ phase' = "failed" /\ child' = child
  BY DEF Fork
<1>2. /\ \A l \in Levels, d \in Dests : l > 1 => fds[l][d] = NoFd
      /\ \A l \in Levels, d \in Dests : l > top' => fds'[l][d] = NoFd
  <2>1. \A l \in Levels : l > 1 => fds'[l] = fds[l]
    BY <1>0, <1>1 DEF Levels
  <2> QED
    BY <1>0, <1>1, <2>1 DEF SeenInv
<1>3. child' \in FdMap /\ layer' \in [Levels -> Layers]
  BY <1>0, <1>1
<1>4. \A l \in Levels : 1 < l /\ l <= top' => layer'[l].kind # "root"
  BY <1>1 DEF SeenInv
<1>5. CASE phase' = "failed"
  BY <1>2, <1>3, <1>4, <1>5, Elsewhere
<1>6. CASE phase' = "spawned" /\ child' = fds[1]
  <2>1. PICK l, m : l = layer[1] /\ m = fds[1] /\ l \in Layers /\ Delivers(l, m)
    BY <1>0 DEF SeenInv
  <2>2. PICK v : v = [env |-> l.env, cwd |-> l.cwd, fds |-> { d \in Dests : m[d] # NoFd }]
    OBVIOUS
  <2>3. v \in Views
    BY <2>1, <2>2 DEF Views, Layers
  <2>4. EnvOf(v, l) /\ CwdOf(v, l) /\ FdsOf(v, m)
    BY <2>2 DEF EnvOf, CwdOf, FdsOf
  <2>5. PICK tr : Trace(tr, l.argv) /\ tr[0] = v /\ tr[Len(l.argv)] = FoldLeft(Step, v, l.argv)
    <3>1. l.argv \in Seq(Words)
      BY <2>1 DEF Layers
    <3> QED
      BY <2>3, <3>1, FoldIsTrace
  <2>6. PICK f : f = FoldLeft(Step, v, l.argv)
    OBVIOUS
  <2>7. EnvOf(f, asked) /\ (CwdOf(f, asked) \/ InPodman(l.argv)) /\ FdsOf(f, asked.fds)
    BY <2>1, <2>4, <2>5, <2>6 DEF Delivers
  <2>8. Seen' = f
    BY <1>1, <1>6, <2>1, <2>2, <2>6 DEF Seen
  <2>9. ASSUME NEW d \in Dests PROVE asked.all[d] = {m[d]} \ {NoFd}
    <3>1. asked.all[d] = { fds[n][d] : n \in Levels } \ {NoFd}
      BY <1>0 DEF SeenInv
    <3>2. \A n \in Levels : n # 1 => fds[n][d] = NoFd
      BY <1>2 DEF Levels
    <3> QED
      BY <1>0, <2>1, <3>1, <3>2
  <2>10. ProgramSeesItsLayer'
    <3>1. \A k \in Keys : asked'.env[k] # Unset => f.env[k] = asked'.env[k]
      BY <1>1, <2>7 DEF EnvOf
    <3>2. asked'.cwd # NoDir => \/ f.cwd = asked'.cwd
                                \/ \E i \in DOMAIN layer'[1].argv : layer'[1].argv[i].cmd = "podman"
      BY <1>1, <2>1, <2>7 DEF CwdOf, InPodman
    <3>3. \A d \in Dests : /\ asked'.fds[d] # NoFd => d \in f.fds
                           /\ asked'.all[d] = {child'[d]} \ {NoFd}
      BY <1>1, <1>6, <2>1, <2>7, <2>9 DEF FdsOf
    <3> QED
      BY <2>8, <3>1, <3>2, <3>3 DEF ProgramSeesItsLayer
  <2> QED
    BY <1>2, <1>3, <1>4, <1>6, <2>10 DEF SeenInv
<1> QED
  BY <1>1, <1>5, <1>6

(* One step per action.                                                     *)
LEMMA SeenNext == SeenInv /\ [Next]_vars => SeenInv'
<1> SUFFICES ASSUME SeenInv, [Next]_vars PROVE SeenInv'
  OBVIOUS
<1>1. FdInv'
  BY FdInvNext DEF SeenInv
<1>2. CASE UNCHANGED vars
  <2>1. /\ layer' = layer /\ child' = child /\ top' = top /\ fds' = fds /\ phase' = phase /\ asked' = asked
    BY <1>2 DEF vars, describeVars, fdVars
  <2>2. Delivers(layer[top], fds[top]) => Delivers(layer[top], fds[top])'
    BY <2>1 DEF Delivers
  <2>3. ProgramSeesItsLayer'
    <3>1. ProgramSeesItsLayer
      BY DEF SeenInv
    <3> QED
      BY <2>1, <3>1 DEF ProgramSeesItsLayer, Seen
  <2> QED
    BY <1>1, <2>1, <2>2, <2>3 DEF SeenInv
<1>3. CASE Next
  BY <1>1, <1>3, PushSeen, EditsSeen, TakeFdSeen, SpawnSeen, UnwindSeen, UnwindFailsSeen, ForkSeen, DisposeSeen
     DEF Next
<1> QED
  BY <1>2, <1>3

(* However the layers are stacked, described and unwound (the callbacks of *)
(* ptyxis_run_context_callback_layer): SeenInv.                            *)
THEOREM SeenInvAlways == Spec => []SeenInv
BY SeenInit, SeenNext, PTL DEF Spec

(* The handlers of ptyxis-run-context.c and of the containers: past all of *)
(* them, the program sees each variable, the directory and each descriptor *)
(* that its own layer asked for, and the child has those of all layers.    *)
THEOREM ProgramSeesWhatWasAsked == Spec => []ProgramSeesItsLayer
<1>1. SeenInv => ProgramSeesItsLayer
  BY DEF SeenInv
<1> QED
  BY <1>1, SeenInvAlways, PTL
=============================================================================
