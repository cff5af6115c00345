---------------------------- MODULE WgetArgsProofs ----------------------------
(***************************************************************************)
(* Proofs about the line editor and wget65's dialogue, for every buffer    *)
(* size, length of the history, keyboard, command line and history file:   *)
(* DialogueInv is inductive, the editor implements LineEditor, and what    *)
(* linenoiseHistoryLoad reads is what the file holds.                      *)
(*                                                                         *)
(* linenoiseHistoryLoad and the derived name are folds; the first section  *)
(* shows what a fold is: the last of a sequence of values, each made of    *)
(* the one before (AddedFold, WriteFold, NameFold).                        *)
(***************************************************************************)
EXTENDS WgetArgs, SequenceTheorems, FiniteSetTheorems, WellFoundedInduction, TLAPS

----------------------------------------------------------------------------
(* Folds.                                                                  *)

\* What does not hold of all numbers fails first at one of them.
LEMMA FirstExists ==
  ASSUME NEW S \in SUBSET Nat, S # {}
  PROVE  \E i \in S : \A j \in S : i <= j
<1>1. IsWellFoundedOn(OpToRel(<, Nat), Nat)
  BY NatLessThanWellFounded
<1>2. PICK i \in S : \A j \in S : ~(<<j, i>> \in OpToRel(<, Nat))
  BY <1>1, WFMin
<1>3. \A j \in S : ~(j < i)
  BY <1>2 DEF OpToRel
<1> QED BY <1>3

\* Induction, over a set.
LEMMA Induction ==
  ASSUME NEW S, 0 \in S, \A n \in Nat : n \in S => n + 1 \in S
  PROVE  Nat \subseteq S
<1> SUFFICES ASSUME Nat \ S # {} PROVE FALSE
  OBVIOUS
<1>1. PICK n \in Nat \ S : \A m \in Nat \ S : n <= m
  BY FirstExists
<1>2. n - 1 \in Nat /\ n - 1 \in S /\ (n - 1) + 1 = n
  <2>1. n # 0
    OBVIOUS
  <2>2. n - 1 \in Nat /\ ~ (n <= n - 1)
    BY <2>1
  <2> QED BY <1>1, <2>2
<1> QED BY <1>2

\* A number that is in a set of numbers up to it is their greatest.
LEMMA MaxIs ==
  ASSUME NEW n \in Nat, NEW s \in SUBSET (1 .. n), n \in s
  PROVE  Max(s) = n
<1>1. \A y \in s : n >= y
  OBVIOUS
<1>2. \A x \in s : (\A y \in s : x >= y) => x = n
  OBVIOUS
<1> QED
  BY <1>1, <1>2 DEF Max

\* A nonempty set of numbers up to n has a greatest.
LEMMA MaxIn ==
  ASSUME NEW n \in Nat, NEW s \in SUBSET (0 .. n), s # {}
  PROVE  Max(s) \in s
<1> DEFINE T == {n - x : x \in s}
<1>1. T \in SUBSET Nat /\ T # {}
  <2>1. \A x \in s : x \in 0 .. n
    OBVIOUS
  <2>2. \A x \in 0 .. n : n - x \in Nat
    OBVIOUS
  <2>3. PICK x \in s : TRUE
    OBVIOUS
  <2>4. n - x \in T
    OBVIOUS
  <2> QED BY <2>1, <2>2, <2>4
<1>2. PICK i \in T : \A j \in T : i <= j
  <2> HIDE DEF T
  <2> QED BY <1>1, FirstExists
<1>3. PICK x \in s : i = n - x
  OBVIOUS
<1>4. \A y \in s : x >= y
  <2> TAKE y \in s
  <2>1. n - x <= n - y
    BY <1>2, <1>3
  <2> QED BY <2>1
<1> QED
  BY <1>4 DEF Max

\* The recursion of MapThenFoldSet: G takes what the smaller elements give, and an element.
Folds(f, base, G, N) ==
  \A s \in SUBSET (1 .. N) :
    f[s] = IF s = {} THEN base ELSE G[<<f[s \ {Max(s)}], Max(s)>>]

\* Such a function exists.
LEMMA FoldExists ==
  ASSUME NEW V, NEW N \in Nat, NEW base \in V, NEW G \in [V \X (1 .. N) -> V]
  PROVE  \E f \in [SUBSET (1 .. N) -> V] : Folds(f, base, G, N)
<1> DEFINE Fits(n, f) == f \in [SUBSET (1 .. n) -> V] /\ Folds(f, base, G, n)
           Upto == {n \in Nat : n <= N => \E f : Fits(n, f)}
<1>1. 0 \in Upto
  <2>1. \A s \in SUBSET (1 .. 0) : s = {}
    OBVIOUS
  <2>2. Fits(0, [s \in SUBSET (1 .. 0) |-> base])
    BY <2>1 DEF Folds
  <2> HIDE DEF Fits
  <2> QED BY <2>2
<1>2. ASSUME NEW n \in Nat, n \in Upto PROVE n + 1 \in Upto
  <2> HIDE DEF Fits
  <2> SUFFICES ASSUME n + 1 <= N PROVE \E f : Fits(n + 1, f)
    OBVIOUS
  <2>1. PICK f : Fits(n, f)
    BY <1>2
  <2>2. f \in [SUBSET (1 .. n) -> V] /\ Folds(f, base, G, n)
    BY <2>1 DEF Fits
  <2> DEFINE g == [s \in SUBSET (1 .. n + 1) |->
                     IF n + 1 \in s THEN G[<<f[s \ {n + 1}], n + 1>>] ELSE f[s]]
  <2>3. \A s \in SUBSET (1 .. n + 1) : s \ {n + 1} \in SUBSET (1 .. n)
    OBVIOUS
  <2>4. g \in [SUBSET (1 .. n + 1) -> V]
    <3>1. \A s \in SUBSET (1 .. n + 1) : f[s \ {n + 1}] \in V
      BY <2>2, <2>3
    <3>2. n + 1 \in 1 .. N
      OBVIOUS
    <3>3. \A s \in SUBSET (1 .. n + 1) : G[<<f[s \ {n + 1}], n + 1>>] \in V
      BY <3>1, <3>2
    <3>4. \A s \in SUBSET (1 .. n + 1) : n + 1 \notin s => s \ {n + 1} = s
      OBVIOUS
    <3>5. \A s \in SUBSET (1 .. n + 1) : n + 1 \notin s => f[s] \in V
      BY <3>1, <3>4
    <3> QED BY <3>3, <3>5
  <2>5. \A s \in SUBSET (1 .. n) : g[s] = f[s]
    <3> TAKE s \in SUBSET (1 .. n)
    <3>1. s \in SUBSET (1 .. n + 1) /\ n + 1 \notin s
      OBVIOUS
    <3> QED BY <3>1
  <2>6. ASSUME NEW s \in SUBSET (1 .. n + 1)
        PROVE  g[s] = IF s = {} THEN base ELSE G[<<g[s \ {Max(s)}], Max(s)>>]
    <3>1. CASE n + 1 \in s
      <4>1. Max(s) = n + 1
        BY <3>1, MaxIs
      <4>2. g[s] = G[<<f[s \ {n + 1}], n + 1>>]
        BY <3>1
      <4>3. g[s \ {n + 1}] = f[s \ {n + 1}]
        BY <2>3, <2>5
      <4> HIDE DEF g
      <4> QED BY <3>1, <4>1, <4>2, <4>3
    <3>2. CASE n + 1 \notin s
      <4>1. s \in SUBSET (1 .. n)
        BY <2>3, <3>2
      <4>2. g[s] = f[s] /\ g[s \ {Max(s)}] = f[s \ {Max(s)}]
        <5>1. s \ {Max(s)} \in SUBSET (1 .. n)
          BY <4>1
        <5> HIDE DEF g
        <5> QED BY <4>1, <5>1, <2>5
      <4> HIDE DEF g
      <4> QED BY <2>2, <4>1, <4>2 DEF Folds
    <3> QED BY <3>1, <3>2
  <2>7. Fits(n + 1, g)
    <3> HIDE DEF g
    <3> QED BY <2>4, <2>6 DEF Fits, Folds
  <2> QED BY <2>7
<1>3. N \in Upto
  <2> HIDE DEF Upto
  <2> QED BY <1>1, <1>2, Induction
<1>4. PICK f : Fits(N, f)
  <2> HIDE DEF Fits
  <2> QED BY <1>3
<1> QED BY <1>4

\* Its values on the first numbers: each is made of the one before.
LEMMA FoldSteps ==
  ASSUME NEW k \in Nat
  PROVE  /\ Max(1 .. k + 1) = k + 1
         /\ (1 .. k + 1) \ {k + 1} = 1 .. k
         /\ 1 .. k + 1 # {} /\ 1 .. 0 = {}
<1>1. k + 1 \in Nat /\ k + 1 \in 1 .. k + 1 /\ 1 .. 0 = {}
  OBVIOUS
<1>2. Max(1 .. k + 1) = k + 1
  BY <1>1, MaxIs
<1>3. \A i \in Int : i \in 1 .. k <=> i \in 1 .. k + 1 /\ i # k + 1
  OBVIOUS
<1>4. (1 .. k + 1) \ {k + 1} = 1 .. k
  BY <1>3
<1> QED BY <1>1, <1>2, <1>4

\* What each value has if the one before has it, all have.
LEMMA ChainType ==
  ASSUME NEW V, NEW N \in Nat, NEW g, g[0] \in V,
         \A k \in 0 .. N - 1 : g[k] \in V => g[k + 1] \in V
  PROVE  \A k \in 0 .. N : g[k] \in V
<1> DEFINE Upto == {k \in Nat : k <= N => g[k] \in V}
<1>1. 0 \in Upto
  OBVIOUS
<1>2. ASSUME NEW k \in Nat, k \in Upto PROVE k + 1 \in Upto
  <2> SUFFICES ASSUME k + 1 <= N PROVE g[k + 1] \in V
    OBVIOUS
  <2>1. g[k] \in V /\ k \in 0 .. N - 1
    BY <1>2
  <2> QED BY <2>1
<1>3. Nat \subseteq Upto
  <2> HIDE DEF Upto
  <2> QED BY <1>1, <1>2, Induction
<1>4. \A k \in 0 .. N : k \in Nat /\ k <= N
  OBVIOUS
<1> QED BY <1>3, <1>4

\* linenoiseHistoryAdd over the lines, and its values.
AddedAll(h, lines) == FoldLeft(Added, h, lines)
AddedIter(f, h, lines) ==
  f = [s \in SUBSET DOMAIN lines |->
         IF s = {} THEN h ELSE Added(f[s \ {Max(s)}], lines[Max(s)])]

\* A chain of histories, each the one before with the next line added.
Chain(g, V, h, lines) ==
  /\ g \in [0 .. Len(lines) -> V] /\ g[0] = h /\ AddedAll(h, lines) = g[Len(lines)]
  /\ \A k \in 0 .. Len(lines) - 1 : g[k + 1] = Added(g[k], lines[k + 1])

\* Added over a sequence is the last of one.
LEMMA AddedFold ==
  ASSUME NEW V, NEW L, NEW h \in V, NEW lines \in Seq(L),
         \A v \in V, x \in L : Added(v, x) \in V
  PROVE  \E g : Chain(g, V, h, lines)
<1> DEFINE N == Len(lines)
           G == [p \in V \X (1 .. N) |-> Added(p[1], lines[p[2]])]
<1>1. N \in Nat /\ DOMAIN lines = 1 .. N /\ \A i \in 1 .. N : lines[i] \in L
  BY LenProperties, ElementOfSeq
<1>2. G \in [V \X (1 .. N) -> V]
  <2>1. \A p \in V \X (1 .. N) : p[1] \in V /\ lines[p[2]] \in L
    BY <1>1
  <2> QED BY <2>1
<1>3. PICK f \in [SUBSET (1 .. N) -> V] : Folds(f, h, G, N)
  <2> HIDE DEF G
  <2> QED BY <1>1, <1>2, FoldExists
<1>4. AddedIter(f, h, lines)
  <2>1. \A v \in V, i \in 1 .. N : G[<<v, i>>] = Added(v, lines[i])
    OBVIOUS
  <2> HIDE DEF G
  <2>2. ASSUME NEW s \in SUBSET (1 .. N)
        PROVE  f[s] = IF s = {} THEN h ELSE Added(f[s \ {Max(s)}], lines[Max(s)])
    <3>1. s # {} => Max(s) \in 1 .. N
      <4>1. s \in SUBSET (0 .. N)
        OBVIOUS
      <4> QED BY <1>1, <4>1, MaxIn
    <3>2. f[s \ {Max(s)}] \in V
      OBVIOUS
    <3> QED BY <1>3, <2>1, <3>1, <3>2 DEF Folds
  <2> QED BY <1>1, <2>2 DEF AddedIter
<1> DEFINE iter == CHOOSE f_1 : AddedIter(f_1, h, lines)
           g == [k \in 0 .. N |-> iter[1 .. k]]
<1>5. AddedIter(iter, h, lines)
  BY <1>4
<1>6. AddedAll(h, lines) = iter[DOMAIN lines]
  BY Zenon DEF AddedAll, FoldLeft, MapThenFoldSet, AddedIter
<1> HIDE DEF iter
<1>7. iter[1 .. 0] = h
  BY <1>1, <1>5, FoldSteps DEF AddedIter
<1>8. ASSUME NEW k \in 0 .. N - 1
      PROVE  iter[1 .. k + 1] = Added(iter[1 .. k], lines[k + 1])
  <2>1. 1 .. k + 1 \in SUBSET DOMAIN lines /\ k \in Nat
    BY <1>1
  <2>2. iter[1 .. k + 1] =
          Added(iter[(1 .. k + 1) \ {Max(1 .. k + 1)}], lines[Max(1 .. k + 1)])
    BY <1>5, <2>1, FoldSteps DEF AddedIter
  <2> QED BY <2>1, <2>2, FoldSteps
<1>9. g[0] = h /\ AddedAll(h, lines) = g[N]
  BY <1>1, <1>6, <1>7
<1>10. \A k \in 0 .. N - 1 : g[k + 1] = Added(g[k], lines[k + 1])
  BY <1>1, <1>8
<1>11. \A k \in 0 .. N : g[k] \in V
  <2>1. ASSUME NEW k \in 0 .. N - 1, g[k] \in V PROVE g[k + 1] \in V
    <3>1. k + 1 \in 1 .. N
      BY <1>1
    <3> HIDE DEF g
    <3> QED BY <1>1, <1>10, <2>1, <3>1
  <2>2. g[0] \in V
    BY <1>9
  <2> HIDE DEF g
  <2> QED BY <1>1, <2>1, <2>2, ChainType
<1>12. g \in [0 .. N -> V]
  BY <1>11
<1> HIDE DEF g
<1>13. Chain(g, V, h, lines)
  BY <1>9, <1>10, <1>12 DEF Chain
<1> QED BY <1>13

\* fgets over the lines, and its values.
WriteAll(h, lines) == FoldLeft(Write, h, lines)
WriteIter(f, h, lines) ==
  f = [s \in SUBSET DOMAIN lines |->
         IF s = {} THEN h ELSE Write(f[s \ {Max(s)}], lines[Max(s)])]

\* So is Write, of a chain of buffers.
LEMMA WriteFold ==
  ASSUME NEW V, NEW L, NEW h \in V, NEW lines \in Seq(L),
         \A v \in V, x \in L : Write(v, x) \in V
  PROVE  \E g : /\ g \in [0 .. Len(lines) -> V]
                /\ g[0] = h /\ WriteAll(h, lines) = g[Len(lines)]
                /\ \A k \in 0 .. Len(lines) - 1 : g[k + 1] = Write(g[k], lines[k + 1])
<1> DEFINE N == Len(lines)
           G == [p \in V \X (1 .. N) |-> Write(p[1], lines[p[2]])]
<1>1. N \in Nat /\ DOMAIN lines = 1 .. N /\ \A i \in 1 .. N : lines[i] \in L
  BY LenProperties, ElementOfSeq
<1>2. G \in [V \X (1 .. N) -> V]
  <2>1. \A p \in V \X (1 .. N) : p[1] \in V /\ lines[p[2]] \in L
    BY <1>1
  <2> QED BY <2>1
<1>3. PICK f \in [SUBSET (1 .. N) -> V] : Folds(f, h, G, N)
  <2> HIDE DEF G
  <2> QED BY <1>1, <1>2, FoldExists
<1>4. WriteIter(f, h, lines)
  <2>1. \A v \in V, i \in 1 .. N : G[<<v, i>>] = Write(v, lines[i])
    OBVIOUS
  <2> HIDE DEF G
  <2>2. ASSUME NEW s \in SUBSET (1 .. N)
        PROVE  f[s] = IF s = {} THEN h ELSE Write(f[s \ {Max(s)}], lines[Max(s)])
    <3>1. s # {} => Max(s) \in 1 .. N
      <4>1. s \in SUBSET (0 .. N)
        OBVIOUS
      <4> QED BY <1>1, <4>1, MaxIn
    <3>2. f[s \ {Max(s)}] \in V
      OBVIOUS
    <3> QED BY <1>3, <2>1, <3>1, <3>2 DEF Folds
  <2> QED BY <1>1, <2>2 DEF WriteIter
<1> DEFINE iter == CHOOSE f_1 : WriteIter(f_1, h, lines)
           g == [k \in 0 .. N |-> iter[1 .. k]]
<1>5. WriteIter(iter, h, lines)
  BY <1>4
<1>6. WriteAll(h, lines) = iter[DOMAIN lines]
  BY Zenon DEF WriteAll, FoldLeft, MapThenFoldSet, WriteIter
<1> HIDE DEF iter
<1>7. iter[1 .. 0] = h
  BY <1>1, <1>5, FoldSteps DEF WriteIter
<1>8. ASSUME NEW k \in 0 .. N - 1
      PROVE  iter[1 .. k + 1] = Write(iter[1 .. k], lines[k + 1])
  <2>1. 1 .. k + 1 \in SUBSET DOMAIN lines /\ k \in Nat
    BY <1>1
  <2>2. iter[1 .. k + 1] =
          Write(iter[(1 .. k + 1) \ {Max(1 .. k + 1)}], lines[Max(1 .. k + 1)])
    BY <1>5, <2>1, FoldSteps DEF WriteIter
  <2> QED BY <2>1, <2>2, FoldSteps
<1>9. g[0] = h /\ WriteAll(h, lines) = g[N]
  BY <1>1, <1>6, <1>7
<1>10. \A k \in 0 .. N - 1 : g[k + 1] = Write(g[k], lines[k + 1])
  BY <1>1, <1>8
<1>11. \A k \in 0 .. N : g[k] \in V
  <2>1. ASSUME NEW k \in 0 .. N - 1, g[k] \in V PROVE g[k + 1] \in V
    <3>1. k + 1 \in 1 .. N
      BY <1>1
    <3> HIDE DEF g
    <3> QED BY <1>1, <1>10, <2>1, <3>1
  <2>2. g[0] \in V
    BY <1>9
  <2> HIDE DEF g
  <2> QED BY <1>1, <2>1, <2>2, ChainType
<1>12. g \in [0 .. N -> V]
  BY <1>11
<1> HIDE DEF g
<1> QED BY <1>9, <1>10, <1>12

\* One round of the loop that derives the name.
NameStep(state, c) == [NextOfName(state, c) EXCEPT !.left = @ - 1]

\* The loop, and its values.
NameStepAll(start, segment) == FoldLeft(NameStep, start, segment)
NameIter(f, start, segment) ==
  f = [s \in SUBSET DOMAIN segment |->
         IF s = {} THEN start ELSE NameStep(f[s \ {Max(s)}], segment[Max(s)])]

\* So is the derived name's loop, of a chain of its states.
LEMMA NameFold ==
  ASSUME NEW V, NEW L, NEW start \in V, NEW segment \in Seq(L),
         \A v \in V, x \in L : NameStep(v, x) \in V
  PROVE  \E g : /\ g \in [0 .. Len(segment) -> V]
                /\ g[0] = start /\ NameStepAll(start, segment) = g[Len(segment)]
                /\ \A k \in 0 .. Len(segment) - 1 : g[k + 1] = NameStep(g[k], segment[k + 1])
<1> DEFINE N == Len(segment)
           G == [p \in V \X (1 .. N) |-> NameStep(p[1], segment[p[2]])]
<1>1. N \in Nat /\ DOMAIN segment = 1 .. N /\ \A i \in 1 .. N : segment[i] \in L
  BY LenProperties, ElementOfSeq
<1>2. G \in [V \X (1 .. N) -> V]
  <2>1. \A p \in V \X (1 .. N) : p[1] \in V /\ segment[p[2]] \in L
    BY <1>1
  <2> QED BY <2>1
<1>3. PICK f \in [SUBSET (1 .. N) -> V] : Folds(f, start, G, N)
  <2> HIDE DEF G
  <2> QED BY <1>1, <1>2, FoldExists
<1>4. NameIter(f, start, segment)
  <2>1. \A v \in V, i \in 1 .. N : G[<<v, i>>] = NameStep(v, segment[i])
    OBVIOUS
  <2> HIDE DEF G
  <2>2. ASSUME NEW s \in SUBSET (1 .. N)
        PROVE  f[s] = IF s = {} THEN start ELSE NameStep(f[s \ {Max(s)}], segment[Max(s)])
    <3>1. s # {} => Max(s) \in 1 .. N
      <4>1. s \in SUBSET (0 .. N)
        OBVIOUS
      <4> QED BY <1>1, <4>1, MaxIn
    <3>2. f[s \ {Max(s)}] \in V
      OBVIOUS
    <3> QED BY <1>3, <2>1, <3>1, <3>2 DEF Folds
  <2> QED BY <1>1, <2>2 DEF NameIter
<1> DEFINE iter == CHOOSE f_1 : NameIter(f_1, start, segment)
           g == [k \in 0 .. N |-> iter[1 .. k]]
<1>5. NameIter(iter, start, segment)
  BY <1>4
<1>6. NameStepAll(start, segment) = iter[DOMAIN segment]
  BY Zenon DEF NameStepAll, FoldLeft, MapThenFoldSet, NameIter
<1> HIDE DEF iter
<1>7. iter[1 .. 0] = start
  BY <1>1, <1>5, FoldSteps DEF NameIter
<1>8. ASSUME NEW k \in 0 .. N - 1
      PROVE  iter[1 .. k + 1] = NameStep(iter[1 .. k], segment[k + 1])
  <2>1. 1 .. k + 1 \in SUBSET DOMAIN segment /\ k \in Nat
    BY <1>1
  <2>2. iter[1 .. k + 1] =
          NameStep(iter[(1 .. k + 1) \ {Max(1 .. k + 1)}], segment[Max(1 .. k + 1)])
    BY <1>5, <2>1, FoldSteps DEF NameIter
  <2> QED BY <2>1, <2>2, FoldSteps
<1>9. g[0] = start /\ NameStepAll(start, segment) = g[N]
  BY <1>1, <1>6, <1>7
<1>10. \A k \in 0 .. N - 1 : g[k + 1] = NameStep(g[k], segment[k + 1])
  BY <1>1, <1>8
<1>11. \A k \in 0 .. N : g[k] \in V
  <2>1. ASSUME NEW k \in 0 .. N - 1, g[k] \in V PROVE g[k + 1] \in V
    <3>1. k + 1 \in 1 .. N
      BY <1>1
    <3> HIDE DEF g
    <3> QED BY <1>1, <1>10, <2>1, <3>1
  <2>2. g[0] \in V
    BY <1>9
  <2> HIDE DEF g
  <2> QED BY <1>1, <2>1, <2>2, ChainType
<1>12. g \in [0 .. N -> V]
  BY <1>11
<1> HIDE DEF g
<1> QED BY <1>9, <1>10, <1>12

\* The recursion of FlattenSeq.
Flat(f, seqs) ==
  f = [i \in 1 .. Len(seqs) |-> IF i = 1 THEN seqs[i] ELSE f[i - 1] \o seqs[i]]

\* The concatenations of the first elements exist.
LEMMA FlatExists ==
  ASSUME NEW S, NEW seqs \in Seq(Seq(S))
  PROVE  \E f : Flat(f, seqs)
<1> DEFINE Step(f, i) == IF i = 1 THEN seqs[i] ELSE f[i - 1] \o seqs[i]
           Fits(n, f) == f \in [1 .. n -> Seq(S)] /\ \A i \in 1 .. n : f[i] = Step(f, i)
           Upto == {n \in Nat : n <= Len(seqs) => \E f : Fits(n, f)}
<1>1. Len(seqs) \in Nat /\ \A i \in 1 .. Len(seqs) : seqs[i] \in Seq(S)
  BY LenProperties, ElementOfSeq
<1>2. 0 \in Upto
  <2>1. [i \in 1 .. 0 |-> <<>>] \in [1 .. 0 -> Seq(S)]
    OBVIOUS
  <2>2. Fits(0, [i \in 1 .. 0 |-> <<>>])
    BY <2>1
  <2> HIDE DEF Fits
  <2> QED BY <2>2
<1>3. ASSUME NEW n \in Nat, n \in Upto PROVE n + 1 \in Upto
  <2> HIDE DEF Fits
  <2> SUFFICES ASSUME n + 1 <= Len(seqs) PROVE \E f : Fits(n + 1, f)
    OBVIOUS
  <2> USE DEF Fits
  <2>1. PICK f : Fits(n, f)
    <3> HIDE DEF Fits
    <3> QED BY <1>1, <1>3
  <2>2. Step(f, n + 1) \in Seq(S)
    <3>1. seqs[n + 1] \in Seq(S)
      BY <1>1
    <3>2. n # 0 => f[n] \in Seq(S)
      BY <2>1
    <3> QED BY <3>1, <3>2, ConcatProperties
  <2> DEFINE g == [i \in 1 .. n + 1 |-> IF i = n + 1 THEN Step(f, n + 1) ELSE f[i]]
  <2>3. \A i \in 1 .. n + 1 : i = n + 1 \/ i \in 1 .. n
    OBVIOUS
  <2>4. g \in [1 .. n + 1 -> Seq(S)]
    <3> HIDE DEF Step
    <3> QED BY <2>1, <2>2, <2>3
  <2>5. \A i \in 1 .. n + 1 : g[i] = Step(g, i)
    <3> TAKE i \in 1 .. n + 1
    <3>1. i # 1 => i - 1 \in 1 .. n + 1 /\ i - 1 # n + 1
      OBVIOUS
    <3>2. i # 1 => g[i - 1] = f[i - 1]
      <4> HIDE DEF Step
      <4> QED BY <3>1
    <3>3. Step(g, i) = Step(f, i)
      BY <3>2
    <3>4. g[i] = Step(f, i)
      <4>1. i \in 1 .. n => f[i] = Step(f, i)
        BY <2>1
      <4> HIDE DEF Step
      <4> QED BY <2>3, <4>1
    <3> QED BY <3>3, <3>4
  <2>6. Fits(n + 1, g)
    BY <2>4, <2>5
  <2> HIDE DEF Fits
  <2> QED BY <2>6
<1>4. Len(seqs) \in Upto
  <2> HIDE DEF Upto
  <2> QED BY <1>1, <1>2, <1>3, Induction
<1>5. PICK f : Fits(Len(seqs), f)
  <2> HIDE DEF Fits
  <2> QED BY <1>1, <1>4
<1>6. f = [i \in 1 .. Len(seqs) |-> Step(f, i)]
  BY <1>5
<1> QED BY <1>6 DEF Flat

\* FlattenSeq is the last of them.
LEMMA FlattenIs ==
  ASSUME NEW S, NEW seqs \in Seq(Seq(S)), seqs # <<>>
  PROVE  \E f : Flat(f, seqs) /\ FlattenSeq(seqs) = f[Len(seqs)]
<1>1. Len(seqs) # 0
  BY EmptySeq
<1>2. FlattenSeq(seqs) = (CHOOSE f : Flat(f, seqs))[Len(seqs)]
  BY <1>1, Zenon DEF FlattenSeq, Flat
<1> QED BY <1>2, FlatExists

\* What has been put together of the first elements is a sequence.
LEMMA FlatType ==
  ASSUME NEW S, NEW seqs \in Seq(Seq(S)), NEW f, Flat(f, seqs)
  PROVE  \A i \in 1 .. Len(seqs) : f[i] \in Seq(S)
<1> DEFINE Upto == {n \in Nat : n \in 1 .. Len(seqs) => f[n] \in Seq(S)}
<1>1. Len(seqs) \in Nat /\ \A i \in 1 .. Len(seqs) : seqs[i] \in Seq(S)
  BY LenProperties, ElementOfSeq
<1>2. 0 \in Upto
  OBVIOUS
<1>3. ASSUME NEW n \in Nat, n \in Upto PROVE n + 1 \in Upto
  <2> SUFFICES ASSUME n + 1 \in 1 .. Len(seqs) PROVE f[n + 1] \in Seq(S)
    OBVIOUS
  <2>1. f[n + 1] = IF n + 1 = 1 THEN seqs[n + 1] ELSE f[(n + 1) - 1] \o seqs[n + 1]
    BY DEF Flat
  <2>2. (n + 1 = 1 <=> n = 0) /\ (n + 1) - 1 = n /\ (n # 0 => n \in 1 .. Len(seqs))
    BY <1>1
  <2>3. seqs[n + 1] \in Seq(S) /\ (n # 0 => f[n] \in Seq(S))
    BY <1>1, <1>3, <2>2
  <2> QED BY <2>1, <2>2, <2>3, ConcatProperties
<1>4. Nat \subseteq Upto
  <2> HIDE DEF Upto
  <2> QED BY <1>2, <1>3, Induction
<1> QED BY <1>1, <1>4

\* Flattening gives elements of the elements.
LEMMA FlattenType ==
  ASSUME NEW S, NEW seqs \in Seq(Seq(S))
  PROVE  FlattenSeq(seqs) \in Seq(S)
<1>1. CASE seqs = <<>>
  BY <1>1, EmptySeq DEF FlattenSeq
<1>2. CASE seqs # <<>>
  <2>1. PICK f : Flat(f, seqs) /\ FlattenSeq(seqs) = f[Len(seqs)]
    BY <1>2, FlattenIs
  <2>2. Len(seqs) \in 1 .. Len(seqs)
    BY <1>2, EmptySeq
  <2> QED BY <2>1, <2>2, FlatType
<1> QED BY <1>1, <1>2

----------------------------------------------------------------------------
(* Strings and arrays.                                                     *)

\* An array that holds a string.
Array(b) == b \in [0 .. buflen -> Char \cup {NUL}] /\ \E n \in 0 .. buflen : b[n] = NUL

\* In array b the string ends at n.
Ends(b, n) == n \in 0 .. buflen /\ b[n] = NUL /\ \A i \in 0 .. n - 1 : b[i] # NUL

\* What the history holds.
Histories == {h \in Seq(Line) : Len(h) <= LINENOISE_HISTORY_MAX_LEN}

\* The buffer has room for a character and its NUL.
LEMMA BuflenType == buflen \in Nat /\ buflen > 1
BY LineAssumption DEF buflen

\* In an array that holds a string it ends somewhere.
LEMMA EndExists ==
  ASSUME NEW b, Array(b)
  PROVE  \E n : Ends(b, n)
<1> DEFINE S == {n \in 0 .. buflen : b[n] = NUL}
<1>1. S \in SUBSET Nat /\ S # {} /\ S \subseteq 0 .. buflen
  BY BuflenType DEF Array
<1>2. PICK n \in S : \A j \in S : n <= j
  <2> HIDE DEF S
  <2> QED BY <1>1, FirstExists
<1>3. ASSUME NEW i \in 0 .. n - 1 PROVE b[i] # NUL
  <2>1. i \in 0 .. buflen /\ ~ (n <= i)
    BY <1>1, BuflenType
  <2> QED BY <1>2, <2>1
<1>4. Ends(b, n)
  BY <1>1, <1>3 DEF Ends
<1> QED BY <1>4

\* There is one such place, and the string is what is before it.
LEMMA StringIs ==
  ASSUME NEW b, b \in [0 .. buflen -> Char \cup {NUL}], NEW n, Ends(b, n)
  PROVE  /\ CString(b) = [i \in 1 .. n |-> b[i - 1]]
         /\ CString(b) \in Line /\ Len(CString(b)) = n /\ n \in Nat
<1>1. n \in Nat /\ n <= buflen /\ b[n] = NUL /\ \A i \in 0 .. n - 1 : b[i] # NUL
  BY BuflenType DEF Ends
<1>2. DOMAIN b = 0 .. buflen /\ n \in 0 .. buflen
  BY DEF Ends
<1>3. \A m \in 0 .. buflen : b[m] = NUL /\ (\A i \in 0 .. m - 1 : b[i] # NUL) => m = n
  <2> SUFFICES ASSUME NEW m \in 0 .. buflen, b[m] = NUL, \A i \in 0 .. m - 1 : b[i] # NUL
               PROVE  m = n
    OBVIOUS
  <2>1. m \in Int /\ m >= 0
    BY BuflenType
  <2>2. ~ (m < n)
    BY <1>1, <2>1
  <2>3. ~ (n < m)
    BY <1>1, <2>1
  <2> QED BY <1>1, <2>1, <2>2, <2>3
<1>4. (CHOOSE m \in DOMAIN b : b[m] = NUL /\ \A i \in 0 .. m - 1 : b[i] # NUL) = n
  BY <1>1, <1>2, <1>3
<1>5. CString(b) = [i \in 1 .. n |-> b[i - 1]]
  BY <1>4 DEF CString
<1>6. \A i \in 1 .. n : b[i - 1] \in Char
  <2> TAKE i \in 1 .. n
  <2>1. i - 1 \in 0 .. n - 1 /\ i - 1 \in 0 .. buflen
    BY <1>1, BuflenType
  <2> QED BY <1>1, <2>1
<1>7. [i \in 1 .. n |-> b[i - 1]] \in Seq(Char)
  BY <1>1, <1>6, IsASeq
<1>8. Len([i \in 1 .. n |-> b[i - 1]]) = n
  BY <1>1
<1> QED BY <1>1, <1>5, <1>7, <1>8 DEF Line, String

\* It is a string of the buffer's length at most.
LEMMA StringType ==
  ASSUME NEW b, Array(b)
  PROVE  CString(b) \in Line
BY EndExists, StringIs DEF Array

\* A string has its characters and no NUL.
LEMMA LineIs ==
  ASSUME NEW s \in Line
  PROVE  /\ s \in Seq(Char) /\ Len(s) \in Nat /\ Len(s) <= buflen /\ DOMAIN s = 1 .. Len(s)
         /\ \A i \in 1 .. Len(s) : s[i] \in Char /\ s[i] # NUL
<1>1. s \in Seq(Char) /\ Len(s) <= buflen
  BY DEF Line, String
<1> QED BY <1>1, LenProperties, ElementOfSeq, CharAssumption

\* The empty string.
LEMMA EmptyIsLine == <<>> \in Line /\ Len(<<>>) = 0
BY EmptySeq, BuflenType DEF Line, String

\* What is written can be read.
LEMMA Written ==
  ASSUME NEW b, b \in [0 .. buflen -> Char \cup {NUL}], NEW s \in Line
  PROVE  Array(Write(b, s)) /\ Ends(Write(b, s), Len(s)) /\ CString(Write(b, s)) = s
<1> DEFINE w == Write(b, s)
<1>1. /\ s \in Seq(Char) /\ Len(s) \in Nat /\ Len(s) <= buflen
      /\ \A i \in 1 .. Len(s) : s[i] \in Char /\ s[i] # NUL
  BY LineIs
<1>2. w = [i \in 0 .. buflen |-> IF i < Len(s) THEN s[i + 1] ELSE IF i = Len(s) THEN NUL ELSE b[i]]
  BY DEF Write
<1> HIDE DEF w
<1>3. \A i \in 0 .. buflen : i < Len(s) => i + 1 \in 1 .. Len(s)
  BY <1>1, BuflenType
<1>4. w \in [0 .. buflen -> Char \cup {NUL}]
  BY <1>1, <1>2, <1>3
<1>5. Len(s) \in 0 .. buflen /\ w[Len(s)] = NUL
  BY <1>1, <1>2, BuflenType
<1>6. \A i \in 0 .. Len(s) - 1 : w[i] = s[i + 1] /\ w[i] # NUL
  <2> TAKE i \in 0 .. Len(s) - 1
  <2>1. i \in 0 .. buflen /\ i < Len(s) /\ i + 1 \in 1 .. Len(s)
    BY <1>1, BuflenType
  <2>2. w[i] = s[i + 1]
    BY <1>2, <2>1
  <2> QED BY <1>1, <2>1, <2>2
<1>7. Ends(w, Len(s))
  BY <1>5, <1>6 DEF Ends
<1>8. CString(w) = [i \in 1 .. Len(s) |-> w[i - 1]] /\ CString(w) \in Seq(Char) /\ Len(CString(w)) = Len(s)
  BY <1>4, <1>7, StringIs DEF Line, String
<1>9. \A i \in 1 .. Len(s) : CString(w)[i] = s[i]
  <2> TAKE i \in 1 .. Len(s)
  <2>1. i - 1 \in 0 .. Len(s) - 1 /\ (i - 1) + 1 = i
    BY <1>1
  <2>2. CString(w)[i] = w[i - 1]
    BY <1>8
  <2> QED BY <1>6, <2>1, <2>2
<1>10. CString(w) = s
  BY <1>1, <1>8, <1>9, SeqEqual
<1> QED
  BY <1>4, <1>5, <1>7, <1>10 DEF w, Array

----------------------------------------------------------------------------
(* The history.                                                            *)

\* linenoiseHistoryAdd leaves the line last, one entry of it.
LEMMA AddedIs ==
  ASSUME NEW h \in Histories, NEW line \in Line
  PROVE  /\ Added(h, line) \in Histories
         /\ Added(h, line) # <<>> /\ Last(Added(h, line)) = line
<1>1. h \in Seq(Line) /\ Len(h) \in Nat /\ Len(h) <= LINENOISE_HISTORY_MAX_LEN
  BY LenProperties DEF Histories
<1>2. CASE h # <<>> /\ Last(h) = line
  BY <1>2 DEF Added
<1>3. CASE ~ (h # <<>> /\ Last(h) = line)
  <2> DEFINE x == IF Len(h) = LINENOISE_HISTORY_MAX_LEN THEN Tail(h) ELSE h
  <2>1. Added(h, line) = Append(x, line)
    BY <1>3, Zenon DEF Added
  <2>2. x \in Seq(Line) /\ Len(x) \in Nat /\ Len(x) < LINENOISE_HISTORY_MAX_LEN
    <3>1. CASE Len(h) = LINENOISE_HISTORY_MAX_LEN
      <4>1. h # <<>>
        BY <3>1, HistoryAssumption, EmptySeq
      <4>2. Tail(h) \in Seq(Line) /\ Len(Tail(h)) = Len(h) - 1 /\ Len(h) # 0
        BY <1>1, <4>1, HeadTailProperties, EmptySeq
      <4> QED BY <1>1, <3>1, <4>2
    <3>2. CASE Len(h) # LINENOISE_HISTORY_MAX_LEN
      BY <1>1, <3>2, HistoryAssumption
    <3> QED BY <3>1, <3>2
  <2> HIDE DEF x
  <2>3. /\ Append(x, line) \in Seq(Line) /\ Append(x, line) # <<>>
        /\ Len(Append(x, line)) = Len(x) + 1 /\ Append(x, line)[Len(x) + 1] = line
    BY <2>2, AppendProperties
  <2>4. Len(x) + 1 <= LINENOISE_HISTORY_MAX_LEN
    BY <2>2, HistoryAssumption
  <2> QED
    BY <2>1, <2>3, <2>4 DEF Histories, Last
<1> QED BY <1>2, <1>3

\* fgets reads strings.
LEMMA ReadType ==
  ASSUME NEW lines \in Seq(Line)
  PROVE  Read(lines) \in Seq(Line)
<1>1. Len(lines) \in Nat /\ DOMAIN lines = 1 .. Len(lines) /\ \A i \in 1 .. Len(lines) : lines[i] \in Line
  BY LenProperties, ElementOfSeq
<1>2. \A x \in Line : Chunks(x) \in Seq(Line)
  BY EmptyIsLine DEF Chunks
<1>3. [i \in 1 .. Len(lines) |-> Chunks(lines[i])] \in Seq(Seq(Line))
  BY <1>1, <1>2, IsASeq
<1> QED
  BY <1>1, <1>3, FlattenType DEF Read

\* linenoiseHistoryLoad leaves a history, and an array with a string.
LEMMA LoadType ==
  ASSUME NEW lines \in Seq(Line), Array(buf), HistoryLoad(lines)
  PROVE  history' \in Histories /\ Array(buf)'
<1>1. Read(lines) \in Seq(Line) /\ Len(Read(lines)) \in Nat
  BY ReadType, LenProperties
<1>0. history' = AddedAll(<<>>, Read(lines)) /\ buf' = WriteAll(buf, Read(lines))
  BY Zenon DEF HistoryLoad, AddedAll, WriteAll
<1>2. history' \in Histories
  <2>1. <<>> \in Histories
    BY EmptySeq, HistoryAssumption DEF Histories
  <2>2. \A h \in Histories, x \in Line : Added(h, x) \in Histories
    BY AddedIs
  <2>3. PICK g : Chain(g, Histories, <<>>, Read(lines))
    BY <1>1, <2>1, <2>2, AddedFold
  <2> QED
    BY <1>0, <1>1, <2>3 DEF Chain
<1>3. Array(buf')
  <2> DEFINE V == {b \in [0 .. buflen -> Char \cup {NUL}] : Array(b)}
  <2>1. buf \in V
    BY DEF Array
  <2>2. \A b \in V, x \in Line : Write(b, x) \in V
    BY Written DEF Array
  <2> HIDE DEF V
  <2>3. PICK g \in [0 .. Len(Read(lines)) -> V] :
               WriteAll(buf, Read(lines)) = g[Len(Read(lines))]
    BY <1>1, <2>1, <2>2, WriteFold
  <2>4. buf' \in V
    BY <1>0, <1>1, <2>3
  <2> QED BY <2>4 DEF V
<1> QED
  BY <1>2, <1>3 DEF Array

----------------------------------------------------------------------------
(* The keys.                                                               *)

\* While a line is edited the cursor is in it or behind it, the history has the entry that is
\* shown, and unless a completion was too long the string in buf ends at len.
Editing ==
  /\ len \in Nat /\ pos \in 0 .. len /\ history_index \in 0 .. Len(history) - 1
  /\ fits => Ends(buf, len)

LineInv ==
  /\ Array(buf) /\ history \in Histories
  /\ editing \in BOOLEAN /\ cancelled \in BOOLEAN /\ fits \in BOOLEAN
  /\ editing => Editing

\* The numbers of a line that is edited ...
LEMMA EditingTypes ==
  ASSUME LineInv, editing
  PROVE  /\ len \in Nat /\ pos \in Nat /\ pos <= len
         /\ buf \in [0 .. buflen -> Char \cup {NUL}]
         /\ history \in Seq(Line) /\ Len(history) \in Nat /\ history_index \in Nat
         /\ history_index < Len(history) /\ Len(history) <= LINENOISE_HISTORY_MAX_LEN
<1>1. len \in Nat /\ pos \in 0 .. len /\ history_index \in 0 .. Len(history) - 1
  BY DEF LineInv, Editing
<1>2. history \in Seq(Line) /\ Len(history) \in Nat /\ Len(history) <= LINENOISE_HISTORY_MAX_LEN
  BY LenProperties DEF LineInv, Histories
<1>3. buf \in [0 .. buflen -> Char \cup {NUL}]
  BY DEF LineInv, Array
<1> QED BY <1>1, <1>2, <1>3

\* ... and its characters, as long as the completions fit.
LEMMA ShownTypes ==
  ASSUME LineInv, Shown
  PROVE  /\ Array(buf) /\ Ends(buf, len) /\ pos \in 0 .. len /\ editing = TRUE /\ Shown = TRUE
         /\ len <= buflen /\ buf[len] = NUL
         /\ \A i \in 0 .. len - 1 : buf[i] \in Char /\ buf[i] # NUL
<1>1. Ends(buf, len) /\ Array(buf) /\ pos \in 0 .. len /\ editing = TRUE /\ Shown = TRUE
  BY DEF LineInv, Editing, Shown
<1>2. /\ len \in 0 .. buflen /\ len \in Nat /\ len <= buflen /\ buf[len] = NUL
      /\ \A i \in 0 .. len - 1 : buf[i] # NUL /\ i \in 0 .. buflen
  BY <1>1, BuflenType DEF Ends
<1>3. \A i \in 0 .. len - 1 : buf[i] \in Char
  BY <1>1, <1>2 DEF Array
<1> QED BY <1>1, <1>2, <1>3

\* A buffer whose characters and NUL are in their places is one that is edited.
LEMMA EditedArray ==
  ASSUME NEW b, b \in [0 .. buflen -> Char \cup {NUL}], NEW n \in 0 .. buflen, b[n] = NUL,
         \A i \in 0 .. n - 1 : b[i] # NUL
  PROVE  Array(b) /\ Ends(b, n)
BY DEF Array, Ends

\* linenoiseEditInsert
LEMMA InsertIs ==
  ASSUME LineInv, Shown, NEW c \in Char, EditInsert(c)
  PROVE  /\ Array(buf') /\ Ends(buf', len + 1)
         /\ \A i \in 0 .. len : buf'[i] = IF i < pos THEN buf[i] ELSE IF i = pos THEN c ELSE buf[i - 1]
<1>1. editing /\ len < buflen
  BY DEF EditInsert
<1>2. /\ len \in Nat /\ pos \in Nat /\ pos <= len /\ buf \in [0 .. buflen -> Char \cup {NUL}]
      /\ \A i \in 0 .. len - 1 : buf[i] \in Char /\ buf[i] # NUL
  BY <1>1, EditingTypes, ShownTypes
<1>3. c # NUL
  BY CharAssumption
<1>4. buf' = [i \in 0 .. buflen |->
               IF i = len + 1 THEN NUL ELSE IF i = pos THEN c
               ELSE IF i \in pos + 1 .. pos + 1 + (len - pos) - 1 THEN buf[i - (pos + 1) + pos] ELSE buf[i]]
  <2>1. MemMove(buf, pos + 1, pos, len - pos) =
          [i \in 0 .. buflen |->
            IF i \in pos + 1 .. pos + 1 + (len - pos) - 1 THEN buf[i - (pos + 1) + pos] ELSE buf[i]]
    BY <1>2 DEF MemMove
  <2>2. pos \in 0 .. buflen /\ len + 1 \in 0 .. buflen /\ pos # len + 1
    BY <1>1, <1>2, BuflenType
  <2>3. buf' = [MemMove(buf, pos + 1, pos, len - pos) EXCEPT ![pos] = c, ![len + 1] = NUL]
    BY DEF EditInsert
  <2> QED BY <2>1, <2>2, <2>3
<1>5. \A i \in 0 .. len : buf'[i] = IF i < pos THEN buf[i] ELSE IF i = pos THEN c ELSE buf[i - 1]
  <2> TAKE i \in 0 .. len
  <2>1. /\ i \in 0 .. buflen /\ i # len + 1 /\ (i - (pos + 1)) + pos = i - 1
        /\ i \in pos + 1 .. pos + 1 + (len - pos) - 1 <=> i > pos
    BY <1>1, <1>2, BuflenType
  <2> QED BY <1>2, <1>4, <2>1
<1>6. len + 1 \in 0 .. buflen /\ buf'[len + 1] = NUL
  BY <1>1, <1>2, <1>4, BuflenType
<1>7. \A i \in 0 .. len : buf'[i] \in Char /\ buf'[i] # NUL
  <2> TAKE i \in 0 .. len
  <2>1. (i < pos => i \in 0 .. len - 1) /\ (~ (i < pos) /\ i # pos => i - 1 \in 0 .. len - 1)
    BY <1>2
  <2> QED BY <1>2, <1>3, <1>5, <2>1
<1>8. buf' \in [0 .. buflen -> Char \cup {NUL}]
  <2>1. ASSUME NEW i \in 0 .. buflen PROVE buf'[i] \in Char \cup {NUL}
    <3>1. CASE i \in 0 .. len
      BY <1>7, <3>1
    <3>2. CASE i \notin 0 .. len
      <4>1. i \notin pos + 1 .. pos + 1 + (len - pos) - 1 /\ i # pos
        BY <1>2, <3>2, BuflenType
      <4>2. buf'[i] = IF i = len + 1 THEN NUL ELSE buf[i]
        BY <1>4, <4>1
      <4> QED BY <1>2, <4>2
    <3> QED BY <3>1, <3>2
  <2> QED BY <1>4, <2>1
<1>9. (len + 1) - 1 = len
  BY <1>2
<1> QED
  BY <1>5, <1>6, <1>7, <1>8, <1>9, EditedArray

\* memmove of what is behind a character, over it.
LEMMA RemovedIs ==
  ASSUME LineInv, Shown, NEW at \in 0 .. len - 1, NEW b,
         b = [MemMove(buf, at, at + 1, len - at - 1) EXCEPT ![len - 1] = NUL]
  PROVE  /\ Array(b) /\ Ends(b, len - 1)
         /\ \A i \in 0 .. len - 2 : b[i] = IF i < at THEN buf[i] ELSE buf[i + 1]
<1>1. /\ len \in Nat /\ len <= buflen /\ buf \in [0 .. buflen -> Char \cup {NUL}] /\ at \in Nat
      /\ \A i \in 0 .. len - 1 : buf[i] \in Char /\ buf[i] # NUL
  BY EditingTypes, ShownTypes DEF Shown
<1>2. b = [i \in 0 .. buflen |->
             IF i = len - 1 THEN NUL
             ELSE IF i \in at .. at + (len - at - 1) - 1 THEN buf[i - at + (at + 1)] ELSE buf[i]]
  <2>1. MemMove(buf, at, at + 1, len - at - 1) =
          [i \in 0 .. buflen |->
            IF i \in at .. at + (len - at - 1) - 1 THEN buf[i - at + (at + 1)] ELSE buf[i]]
    BY <1>1 DEF MemMove
  <2>2. len - 1 \in 0 .. buflen
    BY <1>1, BuflenType
  <2> QED BY <2>1, <2>2
<1>3. \A i \in 0 .. len - 2 : b[i] = IF i < at THEN buf[i] ELSE buf[i + 1]
  <2> TAKE i \in 0 .. len - 2
  <2>1. /\ i \in 0 .. buflen /\ i # len - 1 /\ (i - at) + (at + 1) = i + 1
        /\ i \in at .. at + (len - at - 1) - 1 <=> ~ (i < at)
    BY <1>1, BuflenType
  <2> QED BY <1>2, <2>1
<1>4. len - 1 \in 0 .. buflen /\ b[len - 1] = NUL
  BY <1>1, <1>2, BuflenType
<1>5. \A i \in 0 .. len - 2 : b[i] \in Char /\ b[i] # NUL
  <2> TAKE i \in 0 .. len - 2
  <2>1. i \in 0 .. len - 1 /\ i + 1 \in 0 .. len - 1
    BY <1>1
  <2> QED BY <1>1, <1>3, <2>1
<1>6. b \in [0 .. buflen -> Char \cup {NUL}]
  <2>1. ASSUME NEW i \in 0 .. buflen PROVE b[i] \in Char \cup {NUL}
    <3>1. CASE i \in 0 .. len - 2
      BY <1>5, <3>1
    <3>2. CASE i \notin 0 .. len - 2
      <4>1. i \notin at .. at + (len - at - 1) - 1
        BY <1>1, <3>2, BuflenType
      <4>2. b[i] = IF i = len - 1 THEN NUL ELSE buf[i]
        BY <1>2, <4>1
      <4> QED BY <1>1, <4>2
    <3> QED BY <3>1, <3>2
  <2> QED BY <1>2, <2>1
<1>7. (len - 1) - 1 = len - 2
  BY <1>1
<1> QED
  BY <1>3, <1>4, <1>5, <1>6, <1>7, EditedArray

\* Behind a completion that was too long a key leaves the array one that holds a string.
LEMMA InsertArray ==
  ASSUME LineInv, NEW c \in Char, EditInsert(c)
  PROVE  Array(buf')
<1> DEFINE moved == MemMove(buf, pos + 1, pos, len - pos)
<1>1. editing /\ len < buflen /\ buf' = [moved EXCEPT ![pos] = c, ![len + 1] = NUL]
  BY DEF EditInsert
<1>2. len \in Nat /\ pos \in Nat /\ pos <= len /\ buf \in [0 .. buflen -> Char \cup {NUL}]
  BY <1>1, EditingTypes
<1>3. moved \in [0 .. buflen -> Char \cup {NUL}]
  <2>1. moved = [i \in 0 .. buflen |->
          IF i \in pos + 1 .. pos + 1 + (len - pos) - 1 THEN buf[i - (pos + 1) + pos] ELSE buf[i]]
    BY <1>2 DEF MemMove
  <2>2. ASSUME NEW i \in 0 .. buflen, i \in pos + 1 .. pos + 1 + (len - pos) - 1
        PROVE  i - (pos + 1) + pos \in 0 .. buflen
    BY <1>1, <1>2, <2>2, BuflenType
  <2> HIDE DEF moved
  <2> QED BY <1>2, <2>1, <2>2
<1> HIDE DEF moved
<1>4. len + 1 \in 0 .. buflen
  BY <1>1, <1>2, BuflenType
<1>5. buf' \in [0 .. buflen -> Char \cup {NUL}] /\ buf'[len + 1] = NUL
  BY <1>1, <1>3, <1>4
<1> QED BY <1>4, <1>5 DEF Array

LEMMA RemovedArray ==
  ASSUME LineInv, editing, InArray, NEW at \in 0 .. len - 1, NEW b,
         b = [MemMove(buf, at, at + 1, len - at - 1) EXCEPT ![len - 1] = NUL]
  PROVE  Array(b)
<1> DEFINE moved == MemMove(buf, at, at + 1, len - at - 1)
<1>1. /\ len \in Nat /\ at \in Nat /\ buf \in [0 .. buflen -> Char \cup {NUL}]
      /\ len <= buflen + 1 /\ at <= len - 1
  BY EditingTypes, LineAssumption DEF InArray, buflen
<1>2. moved \in [0 .. buflen -> Char \cup {NUL}]
  <2>1. moved = [i \in 0 .. buflen |->
          IF i \in at .. at + (len - at - 1) - 1 THEN buf[i - at + (at + 1)] ELSE buf[i]]
    BY <1>1 DEF MemMove
  <2>2. ASSUME NEW i \in 0 .. buflen, i \in at .. at + (len - at - 1) - 1
        PROVE  i - at + (at + 1) \in 0 .. buflen
    BY <1>1, <2>2, BuflenType
  <2> HIDE DEF moved
  <2> QED BY <1>1, <2>1, <2>2
<1> HIDE DEF moved
<1>3. len - 1 \in 0 .. buflen
  BY <1>1, BuflenType
<1>4. b \in [0 .. buflen -> Char \cup {NUL}] /\ b[len - 1] = NUL
  BY <1>2, <1>3 DEF moved
<1> QED BY <1>3, <1>4 DEF Array

\* strncpy of a line of the history, without its last character if it fills the buffer.
Copy(b, s) == [StrNCopy(b, s, buflen) EXCEPT ![buflen - 1] = NUL]
Kept(s) == IF Len(s) < buflen THEN Len(s) ELSE buflen - 1

\* A string of that length, the same characters.
LEMMA CopiedIs ==
  ASSUME NEW b, b \in [0 .. buflen -> Char \cup {NUL}], NEW s \in Line
  PROVE  /\ Array(Copy(b, s)) /\ Ends(Copy(b, s), Kept(s)) /\ Kept(s) \in Nat
         /\ Len(CString(Copy(b, s))) = Kept(s)
         /\ \A i \in 0 .. Kept(s) - 1 : Copy(b, s)[i] = s[i + 1]
<1> DEFINE copy == Copy(b, s)
           n == Kept(s)
<1>1. /\ Len(s) \in Nat /\ Len(s) <= buflen
      /\ \A i \in 1 .. Len(s) : s[i] \in Char /\ s[i] # NUL
  BY LineIs
<1>2. buflen \in Nat /\ buflen > 1 /\ n \in Nat /\ n <= Len(s) /\ n <= buflen - 1
  BY <1>1, BuflenType DEF Kept
<1>3. copy = [i \in 0 .. buflen |->
                IF i = buflen - 1 THEN NUL
                ELSE IF i >= buflen THEN b[i] ELSE IF i < Len(s) THEN s[i + 1] ELSE NUL]
  <2>1. StrNCopy(b, s, buflen) =
          [i \in 0 .. buflen |-> IF i >= buflen THEN b[i] ELSE IF i < Len(s) THEN s[i + 1] ELSE NUL]
    BY DEF StrNCopy
  <2>2. buflen - 1 \in 0 .. buflen
    BY <1>2
  <2> QED BY <2>1, <2>2 DEF Copy
<1> HIDE DEF copy
<1>4. ASSUME NEW i \in 0 .. n - 1
      PROVE  copy[i] = s[i + 1] /\ i + 1 \in 1 .. Len(s)
  <2>1. i \in 0 .. buflen /\ i # buflen - 1 /\ ~ (i >= buflen) /\ i < Len(s) /\ i + 1 \in 1 .. Len(s)
    BY <1>1, <1>2
  <2> QED BY <1>3, <2>1
<1>5. n \in 0 .. buflen /\ copy[n] = NUL
  <2>1. n \in 0 .. buflen /\ (n = buflen - 1 \/ (~ (n >= buflen) /\ ~ (n < Len(s))))
    BY <1>1, <1>2 DEF Kept
  <2> QED BY <1>3, <2>1
<1> HIDE DEF n
<1>6. copy \in [0 .. buflen -> Char \cup {NUL}]
  <2>1. ASSUME NEW i \in 0 .. buflen PROVE copy[i] \in Char \cup {NUL}
    <3>1. i < Len(s) => i + 1 \in 1 .. Len(s)
      BY <1>1, <1>2
    <3>2. i < Len(s) => s[i + 1] \in Char
      BY <1>1, <3>1
    <3> QED BY <1>3, <3>2
  <2> QED BY <1>3, <2>1
<1>7. Array(copy) /\ Ends(copy, n)
  <2>1. \A i \in 0 .. n - 1 : copy[i] # NUL
    BY <1>1, <1>4
  <2> QED BY <1>5, <1>6, <2>1, EditedArray
<1>8. Len(CString(copy)) = n
  BY <1>6, <1>7, StringIs
<1> QED BY <1>2, <1>4, <1>7, <1>8 DEF copy, n

\* The entry shown, and what becomes of it.
LEMMA SavedIs ==
  ASSUME LineInv, editing
  PROVE  /\ Entry(history_index) \in 1 .. Len(history)
         /\ Saved \in Histories /\ Len(Saved) = Len(history)
         /\ \A i \in 1 .. Len(history) :
              Saved[i] = IF i = Entry(history_index) THEN CString(buf) ELSE history[i]
<1>1. /\ history \in Seq(Line) /\ Len(history) \in Nat /\ history_index \in Nat
      /\ history_index < Len(history) /\ Len(history) <= LINENOISE_HISTORY_MAX_LEN
  BY EditingTypes
<1>2. Entry(history_index) \in 1 .. Len(history)
  BY <1>1 DEF Entry
<1>3. CString(buf) \in Line
  BY StringType DEF LineInv
<1>4. /\ Saved \in Seq(Line) /\ Len(Saved) = Len(history)
      /\ \A i \in 1 .. Len(history) :
           Saved[i] = IF i = Entry(history_index) THEN CString(buf) ELSE history[i]
  BY <1>1, <1>2, <1>3, ExceptSeq DEF Saved
<1> QED BY <1>1, <1>2, <1>4 DEF Histories

\* A line is begun.
LEMMA StartKeeps ==
  ASSUME LineInv, EditStart
  PROVE  LineInv' /\ editing'
<1>1. /\ buf' = [buf EXCEPT ![0] = NUL] /\ pos' = 0 /\ len' = 0 /\ history_index' = 0
      /\ history' = Added(history, <<>>) /\ editing' = TRUE /\ cancelled' = cancelled /\ fits' = TRUE
  BY DEF EditStart, HistoryAdd
<1>2. 0 \in 0 .. buflen
  BY BuflenType
<1>3. Array(buf') /\ Ends(buf', 0)
  <2>1. buf' \in [0 .. buflen -> Char \cup {NUL}] /\ buf'[0] = NUL
    BY <1>1, <1>2 DEF LineInv, Array
  <2>2. \A i \in 0 .. 0 - 1 : buf'[i] # NUL
    OBVIOUS
  <2> QED BY <1>2, <2>1, <2>2, EditedArray
<1>4. history' \in Histories /\ history' # <<>>
  BY <1>1, AddedIs, EmptyIsLine DEF LineInv
<1>5. Len(history') \in Nat \ {0}
  BY <1>4, EmptySeq DEF Histories
<1>6. 0 \in 0 .. 0 /\ 0 \in 0 .. Len(history') - 1
  BY <1>5
<1>7. Editing'
  BY <1>1, <1>3, <1>6 DEF Editing, Ends
<1> QED
  BY <1>1, <1>3, <1>4, <1>7 DEF LineInv, Array

\* What a key leaves: an array, the cursor in the line, and the history.
LEMMA KeyLeaves ==
  ASSUME LineInv, editing, UNCHANGED <<history_index, history, editing, cancelled>>,
         Array(buf'), len' \in Nat, pos' \in 0 .. len', fits' \in BOOLEAN, fits' => Ends(buf', len')
  PROVE  LineInv'
<1>1. Editing'
  BY DEF LineInv, Editing, Ends
<1> QED BY <1>1 DEF LineInv, Array

\* A key edits the line, or ends it.
LEMMA KeyKeeps ==
  ASSUME LineInv, Key
  PROVE  LineInv'
<1>1. editing
  BY DEF Key, EditInsert, EditMove, EditDelete, EditBackspace, EditEnter, EditCancel, EditHistoryNext
<1>2. /\ len \in Nat /\ pos \in Nat /\ pos <= len
      /\ history \in Seq(Line) /\ Len(history) \in Nat /\ history_index \in Nat
      /\ history_index < Len(history) /\ Len(history) <= LINENOISE_HISTORY_MAX_LEN
  BY <1>1, EditingTypes
<1>3. Array(buf) /\ fits \in BOOLEAN /\ (fits => Shown /\ Ends(buf, len))
  BY <1>1 DEF LineInv, Editing, Shown
<1>4. CASE \E c \in Keyboard : EditInsert(c)
  <2>1. PICK c \in Keyboard : EditInsert(c)
    BY <1>4
  <2>2. Array(buf') /\ (fits => Ends(buf', len + 1))
    BY <1>3, <2>1, CharAssumption, InsertArray, InsertIs
  <2>3. len' = len + 1 /\ pos' = pos + 1 /\ UNCHANGED <<history_index, history, editing, cancelled, fits>>
    BY <2>1 DEF EditInsert
  <2>4. len' \in Nat /\ pos' \in 0 .. len'
    BY <1>2, <2>3
  <2> QED BY <1>1, <1>3, <2>2, <2>3, <2>4, KeyLeaves
<1>5. CASE \E to \in 0 .. len : EditMove(to)
  <2>1. /\ buf' = buf /\ len' = len /\ pos' \in 0 .. len'
        /\ UNCHANGED <<history_index, history, editing, cancelled, fits>>
    BY <1>5 DEF EditMove
  <2> QED BY <1>1, <1>2, <1>3, <2>1, KeyLeaves
<1>6. CASE EditDelete
  <2>1. /\ buf' = [MemMove(buf, pos, pos + 1, len - pos - 1) EXCEPT ![len - 1] = NUL]
        /\ len' = len - 1 /\ pos' = pos /\ pos < len /\ InArray
        /\ UNCHANGED <<history_index, history, editing, cancelled, fits>>
    BY <1>6 DEF EditDelete
  <2>2. pos \in 0 .. len - 1 /\ pos' \in 0 .. len' /\ len' \in Nat
    BY <1>2, <2>1
  <2>3. Array(buf') /\ (fits => Ends(buf', len - 1))
    BY <1>1, <1>3, <2>1, <2>2, RemovedArray, RemovedIs
  <2> QED BY <1>1, <1>3, <2>1, <2>2, <2>3, KeyLeaves
<1>7. CASE EditBackspace
  <2>1. /\ buf' = [MemMove(buf, pos - 1, pos, len - pos) EXCEPT ![len - 1] = NUL]
        /\ len' = len - 1 /\ pos' = pos - 1 /\ pos > 0 /\ InArray
        /\ UNCHANGED <<history_index, history, editing, cancelled, fits>>
    BY <1>7 DEF EditBackspace
  <2>2. /\ pos - 1 \in 0 .. len - 1 /\ pos' \in 0 .. len' /\ len' \in Nat
        /\ (pos - 1) + 1 = pos /\ (len - (pos - 1)) - 1 = len - pos
    BY <1>2, <2>1
  <2>3. Array(buf') /\ (fits => Ends(buf', len - 1))
    BY <1>1, <1>3, <2>1, <2>2, RemovedArray, RemovedIs
  <2> QED BY <1>1, <1>3, <2>1, <2>2, <2>3, KeyLeaves
<1>8. CASE EditEnter
  <2>1. /\ editing' = FALSE /\ history' = Front(history) /\ cancelled' = FALSE /\ buf' = buf
        /\ fits' = fits
    BY <1>8 DEF EditEnter
  <2>2. Front(history) = SubSeq(history, 1, Len(history) - 1)
    BY DEF Front
  <2>3. \A i \in 1 .. Len(history) - 1 : history[i] \in Line
    BY <1>2, ElementOfSeq
  <2>4. /\ Front(history) \in Seq(Line)
        /\ Len(Front(history)) = IF 1 <= Len(history) - 1 THEN (Len(history) - 1) - 1 + 1 ELSE 0
    BY <1>2, <2>2, <2>3, SubSeqProperties
  <2>5. Len(Front(history)) <= LINENOISE_HISTORY_MAX_LEN
    <3>1. \A n \in Nat : (n - 1) - 1 + 1 = n - 1
      OBVIOUS
    <3>2. (Len(history) - 1) - 1 + 1 = Len(history) - 1
      BY <1>2, <3>1
    <3>3. Len(Front(history)) = Len(history) - 1 \/ Len(Front(history)) = 0
      BY <2>4, <3>2, Zenon
    <3>4. \A n, m \in Nat : n <= m => n - 1 <= m /\ 0 <= m
      OBVIOUS
    <3>5. Len(history) - 1 <= LINENOISE_HISTORY_MAX_LEN /\ 0 <= LINENOISE_HISTORY_MAX_LEN
      BY <1>2, <3>4, HistoryAssumption
    <3> QED BY <3>3, <3>5, Zenon
  <2> QED BY <1>3, <2>1, <2>4, <2>5 DEF LineInv, Array, Histories
<1>9. CASE EditCancel
  BY <1>9 DEF EditCancel, LineInv, Array
<1>10. CASE EditHistoryNext(1) \/ EditHistoryNext(-1)
  <2>1. PICK step \in {1, -1} : EditHistoryNext(step)
    BY <1>10
  <2> DEFINE next == history_index + step
             s == history[Entry(next)]
  <2>2. history' = Saved /\ UNCHANGED <<editing, cancelled, fits>>
    BY <2>1 DEF EditHistoryNext
  <2>3. Saved \in Histories /\ Len(Saved) = Len(history)
    BY <1>1, SavedIs
  <2>4. CASE /\ next \in 0 .. Len(history) - 1 /\ history_index' = next
             /\ buf' = Copy(buf, s) /\ len' = Len(CString(Copy(buf, s))) /\ pos' = len'
    <3>1. Entry(next) \in 1 .. Len(history)
      BY <1>2, <2>4 DEF Entry
    <3>2. buf \in [0 .. buflen -> Char \cup {NUL}] /\ s \in Line
      BY <1>2, <1>3, <3>1, ElementOfSeq DEF Array
    <3> HIDE DEF s
    <3>3. /\ Array(Copy(buf, s)) /\ Ends(Copy(buf, s), Kept(s)) /\ Kept(s) \in Nat
          /\ Len(CString(Copy(buf, s))) = Kept(s)
      BY <3>2, CopiedIs
    <3>4. Array(buf') /\ Ends(buf', len') /\ len' \in Nat /\ pos' \in 0 .. len'
      BY <2>4, <3>3
    <3>5. Editing'
      BY <2>2, <2>3, <2>4, <3>4 DEF Editing, Ends
    <3> QED BY <1>3, <2>2, <2>3, <3>4, <3>5 DEF LineInv, Array
  <2>5. CASE UNCHANGED <<buf, pos, len, history_index>>
    <3>1. Editing'
      BY <1>1, <2>2, <2>3, <2>5 DEF LineInv, Editing, Ends
    <3> QED BY <2>2, <2>3, <2>5, <3>1 DEF LineInv, Array
  <2> QED BY <2>1, <2>4, <2>5 DEF EditHistoryNext, Copy
<1> QED
  BY <1>4, <1>5, <1>6, <1>7, <1>8, <1>9, <1>10 DEF Key

\* snprintf makes a line of it.
LEMMA CutType ==
  ASSUME NEW candidate \in Seq(Char)
  PROVE  Cut(candidate) \in Line /\ (Len(candidate) < buflen => Cut(candidate) = candidate)
<1> DEFINE n == IF Len(candidate) < buflen THEN Len(candidate) ELSE buflen - 1
<1>1. Len(candidate) \in Nat /\ n \in Nat /\ n <= Len(candidate) /\ n <= buflen
  BY LenProperties, BuflenType
<1>2. Cut(candidate) = SubSeq(candidate, 1, n)
  BY DEF Cut
<1>3. Len(candidate) < buflen => n = Len(candidate)
  OBVIOUS
<1> HIDE DEF n
<1>4. /\ SubSeq(candidate, 1, n) \in Seq(Char) /\ Len(SubSeq(candidate, 1, n)) = n
      /\ \A i \in 1 .. n : SubSeq(candidate, 1, n)[i] = candidate[i]
  <2>1. \A i \in 1 .. n : candidate[i] \in Char
    BY <1>1, ElementOfSeq
  <2>2. /\ SubSeq(candidate, 1, n) \in Seq(Char)
        /\ Len(SubSeq(candidate, 1, n)) = IF 1 <= n THEN n - 1 + 1 ELSE 0
        /\ \A i \in 1 .. n - 1 + 1 : SubSeq(candidate, 1, n)[i] = candidate[1 + i - 1]
    BY <1>1, <2>1, SubSeqProperties
  <2> QED BY <1>1, <2>2
<1>5. n = Len(candidate) => SubSeq(candidate, 1, n) = candidate
  BY <1>4, SeqEqual
<1> QED BY <1>1, <1>2, <1>3, <1>4, <1>5 DEF Line, String

\* A completion takes the place of the line, as much of it as fits.
LEMMA CompleteKeeps ==
  ASSUME LineInv, NEW candidate \in String, EditComplete(candidate)
  PROVE  /\ LineInv'
         /\ Len(candidate) < buflen =>
              /\ candidate \in Line /\ Len(candidate) = len'
              /\ \A i \in 1 .. len' : buf'[i - 1] = candidate[i]
<1>1. /\ editing /\ buf' = Write(buf, Cut(candidate))
      /\ len' = Len(candidate) /\ pos' = len' /\ fits' = (fits /\ Len(candidate) < buflen)
      /\ UNCHANGED <<history_index, history, editing, cancelled>>
  BY DEF EditComplete
<1>2. candidate \in Seq(Char) /\ Len(candidate) \in Nat
  BY LenProperties DEF String
<1>3. Cut(candidate) \in Line /\ (Len(candidate) < buflen => Cut(candidate) = candidate)
  BY <1>2, CutType
<1>4. /\ Array(buf') /\ Ends(buf', Len(Cut(candidate))) /\ CString(buf') = Cut(candidate)
  BY <1>1, <1>3, Written DEF LineInv, Array
<1>5. pos' \in 0 .. len' /\ len' \in Nat /\ fits' \in BOOLEAN
  BY <1>1, <1>2
<1>6. CASE Len(candidate) < buflen
  <2>1. candidate \in Line /\ Ends(buf', len') /\ CString(buf') = candidate
    BY <1>1, <1>3, <1>4, <1>6
  <2>2. CString(buf') = [i \in 1 .. len' |-> buf'[i - 1]]
    BY <1>4, <2>1, StringIs DEF Array
  <2> QED BY <1>1, <1>4, <1>5, <2>1, <2>2, KeyLeaves
<1>7. CASE ~ (Len(candidate) < buflen)
  BY <1>1, <1>4, <1>5, <1>7, KeyLeaves
<1> QED BY <1>6, <1>7

----------------------------------------------------------------------------
(* The name.                                                               *)

\* The lesser of two numbers.
LEMMA MinIs ==
  ASSUME NEW a \in Int, NEW b \in Int
  PROVE  Min({a, b}) = IF a <= b THEN a ELSE b
<1> DEFINE m == IF a <= b THEN a ELSE b
<1>1. m \in {a, b} /\ \A y \in {a, b} : m <= y
  OBVIOUS
<1>2. \A x \in {a, b} : (\A y \in {a, b} : x <= y) => x = m
  OBVIOUS
<1> QED
  BY <1>1, <1>2 DEF Min

\* The part of a path before its last slash ends in it.
LEMMA LastSlashType ==
  ASSUME NEW line \in String
  PROVE  LastSlash(line) \in 0 .. Len(line) /\ Len(line) \in Nat
<1>1. Len(line) \in Nat /\ DOMAIN line = 1 .. Len(line)
  BY LenProperties DEF String
<1> DEFINE S == {0} \cup {i \in DOMAIN line : line[i] = SLASH}
<1>2. S \in SUBSET (0 .. Len(line)) /\ S # {}
  BY <1>1
<1> HIDE DEF S
<1>3. Max(S) \in S
  BY <1>1, <1>2, MaxIn
<1>4. LastSlash(line) = Max(S)
  BY Zenon DEF LastSlash, S
<1> QED BY <1>1, <1>2, <1>3, <1>4

\* Parts of strings are strings.
LEMMA PartType ==
  ASSUME NEW s \in String, NEW m \in Nat, NEW n \in Nat, m >= 1, n <= Len(s)
  PROVE  /\ SubSeq(s, m, n) \in String
         /\ Len(SubSeq(s, m, n)) = IF m <= n THEN n - m + 1 ELSE 0
         /\ \A i \in 1 .. n - m + 1 : SubSeq(s, m, n)[i] = s[m + i - 1]
<1>1. Len(s) \in Nat /\ \A i \in 1 .. Len(s) : s[i] \in Char
  BY LenProperties, ElementOfSeq DEF String
<1>2. \A i \in m .. n : s[i] \in Char
  BY <1>1
<1> QED BY <1>2, SubSeqProperties DEF String

\* What a ProDOS name is made of.
NameChars == Letters \cup Digits \cup {DOT}
IsName(n) == (n # <<>> => n[1] \in Letters) /\ \A i \in 1 .. Len(n) : n[i] \in NameChars

\* The states of the loop that derives it: a name, and where its extension begins.
NameStates ==
  {v \in [name : String, dot : Nat, skip : Nat, left : Int] : IsName(v.name) /\ v.dot <= Len(v.name)}

\* A character that may be in the name is added.
LEMMA NameGrows ==
  ASSUME NEW n \in String, IsName(n), NEW c \in NameChars, n = <<>> => c \in Letters
  PROVE  /\ Append(n, c) \in String /\ IsName(Append(n, c))
         /\ Len(Append(n, c)) = Len(n) + 1 /\ Len(n) \in Nat
<1>1. NameChars \subseteq Char
  BY ClassAssumption DEF NameChars
<1>2. /\ Append(n, c) \in Seq(Char) /\ Len(Append(n, c)) = Len(n) + 1 /\ Len(n) \in Nat
      /\ \A i \in 1 .. Len(n) : Append(n, c)[i] = n[i]
      /\ Append(n, c)[Len(n) + 1] = c
  BY <1>1, AppendProperties, LenProperties DEF String
<1>3. \A i \in 1 .. Len(n) + 1 : Append(n, c)[i] \in NameChars
  <2> TAKE i \in 1 .. Len(n) + 1
  <2>1. i \in 1 .. Len(n) \/ i = Len(n) + 1
    BY <1>2
  <2> QED BY <1>2, <2>1 DEF IsName
<1>4. Append(n, c)[1] \in Letters
  <2>1. CASE n = <<>>
    <3>1. Len(n) = 0
      BY <2>1, EmptySeq
    <3> QED BY <1>2, <2>1, <3>1
  <2>2. CASE n # <<>>
    <3>1. 1 \in 1 .. Len(n)
      BY <2>2, EmptySeq DEF String
    <3> QED BY <1>2, <2>2, <3>1 DEF IsName
  <2> QED BY <2>1, <2>2
<1> QED BY <1>2, <1>3, <1>4 DEF IsName, String

\* The loop keeps to such names.
LEMMA NameStepType ==
  ASSUME NEW v \in NameStates, NEW c \in Char
  PROVE  NameStep(v, c) \in NameStates
<1>1. /\ v \in [name : String, dot : Nat, skip : Nat, left : Int]
      /\ IsName(v.name) /\ v.dot <= Len(v.name) /\ Len(v.name) \in Nat
      /\ v.name \in String /\ v.dot \in Nat /\ v.skip \in Nat /\ v.left \in Int
  BY LenProperties DEF NameStates, String
<1> DEFINE w == NextOfName(v, c)
<1>2. w \in NameStates
  <2>1. CASE v.skip > 0
    <3>1. w = [v EXCEPT !.skip = @ - 1]
      BY <2>1, Zenon DEF NextOfName
    <3>2. v.skip - 1 \in Nat
      BY <1>1, <2>1
    <3> QED BY <1>1, <3>1, <3>2 DEF NameStates
  <2>2. CASE ~ (v.skip > 0) /\ Skipped(v, c)
    BY <2>2 DEF NextOfName
  <2>3. CASE ~ (v.skip > 0) /\ ~ Skipped(v, c) /\ c \in Letters \cup Digits
    <3>1. w = [v EXCEPT !.name = Append(@, Upper[c])]
      BY <2>3 DEF NextOfName
    <3>2. Upper[c] \in NameChars /\ (v.name = <<>> => Upper[c] \in Letters)
      BY <2>3, UpperAssumption DEF NameChars, Skipped
    <3>3. /\ Append(v.name, Upper[c]) \in String /\ IsName(Append(v.name, Upper[c]))
          /\ v.dot <= Len(Append(v.name, Upper[c]))
      BY <1>1, <3>2, NameGrows
    <3> QED BY <1>1, <3>1, <3>3 DEF NameStates
  <2>4. CASE /\ ~ (v.skip > 0) /\ ~ Skipped(v, c) /\ c \notin Letters \cup Digits
    <3>1. v.name # <<>> /\ DOT \in NameChars
      BY <2>4 DEF Skipped, NameChars
    <3>2. /\ Append(v.name, DOT) \in String /\ IsName(Append(v.name, DOT))
          /\ Len(Append(v.name, DOT)) = Len(v.name) + 1
      BY <1>1, <3>1, NameGrows
    <3>3. \/ \E k \in Nat : w = [v EXCEPT !.name = Append(@, DOT), !.skip = k]
          \/ w = [v EXCEPT !.name = Append(@, DOT), !.dot = Len(v.name) + 1]
          \/ w = v
      BY <2>4 DEF NextOfName
    <3> DEFINE n == Append(v.name, DOT)
    <3>6. n \in String /\ IsName(n) /\ v.dot <= Len(n) /\ Len(v.name) + 1 <= Len(n) /\ Len(v.name) + 1 \in Nat
      BY <1>1, <3>2
    <3> HIDE DEF w, n
    <3>4. CASE \E k \in Nat : w = [v EXCEPT !.name = n, !.skip = k]
      <4>1. PICK k \in Nat : w = [v EXCEPT !.name = n, !.skip = k]
        BY <3>4
      <4>2. /\ w \in [name : String, dot : Nat, skip : Nat, left : Int]
            /\ w.name = n /\ w.dot = v.dot
        BY <1>1, <3>6, <4>1
      <4> QED BY <3>6, <4>2 DEF NameStates
    <3>5. CASE w = [v EXCEPT !.name = n, !.dot = Len(v.name) + 1]
      <4>1. /\ w \in [name : String, dot : Nat, skip : Nat, left : Int]
            /\ w.name = n /\ w.dot = Len(v.name) + 1
        BY <1>1, <3>5, <3>6
      <4> QED BY <3>6, <4>1 DEF NameStates
    <3>7. \/ \E k \in Nat : w = [v EXCEPT !.name = n, !.skip = k]
          \/ w = [v EXCEPT !.name = n, !.dot = Len(v.name) + 1]
          \/ w = v
      BY <3>3 DEF n
    <3> QED BY <3>4, <3>5, <3>7
  <2> QED BY <2>1, <2>2, <2>3, <2>4
<1>3. NameStep(v, c) = [w EXCEPT !.left = @ - 1]
  BY Zenon DEF NameStep
<1> HIDE DEF w
<1> QED BY <1>2, <1>3 DEF NameStates

\* What the loop leaves, and the name that is made of it.
Whole(url) ==
  NameStepAll([name |-> <<>>, dot |-> 0, skip |-> 0, left |-> Len(Segment(url))], Segment(url))

\* So does the whole loop.
LEMMA WholeType ==
  ASSUME NEW url \in String
  PROVE  Whole(url) \in NameStates
<1>1. Segment(url) \in Seq(Char)
  <2>1. LastSlash(url) \in 0 .. Len(url) /\ Len(url) \in Nat
    BY LastSlashType
  <2>2. LastSlash(url) + 1 \in Nat /\ LastSlash(url) + 1 >= 1
    BY <2>1
  <2>3. SubSeq(url, LastSlash(url) + 1, Len(url)) \in String
    BY <2>1, <2>2, PartType
  <2> QED BY <2>3, EmptySeq DEF Segment, String
<1> DEFINE start == [name |-> <<>>, dot |-> 0, skip |-> 0, left |-> Len(Segment(url))]
<1>2. Len(Segment(url)) \in Nat
  BY <1>1, LenProperties
<1>3. <<>> \in String /\ Len(<<>>) = 0 /\ IsName(<<>>)
  BY EmptySeq DEF String, IsName
<1>4. start \in NameStates
  BY <1>2, <1>3 DEF NameStates
<1>5. \A v \in NameStates, c \in Char : NameStep(v, c) \in NameStates
  BY NameStepType
<1>6. Whole(url) = NameStepAll(start, Segment(url))
  BY Zenon DEF Whole
<1> HIDE DEF start
<1>7. PICK g \in [0 .. Len(Segment(url)) -> NameStates] :
             NameStepAll(start, Segment(url)) = g[Len(Segment(url))]
  BY <1>1, <1>4, <1>5, NameFold
<1> QED BY <1>2, <1>6, <1>7

\* The name is cut where it is too long, or before its extension.
Shortened(full, dot) ==
  LET cut == SubSeq(full, 1, Min({Len(full), NameLen}))
      ext == SubSeq(full, dot, Min({Len(full), dot + NameLen - 2}))
  IN  IF Len(full) > NameLen /\ dot > 0 THEN SubSeq(cut, 1, NameLen - Len(ext)) \o ext ELSE cut

\* The name is what the loop leaves, shortened.
LEMMA DerivedIs ==
  ASSUME NEW url
  PROVE  DerivedName(url) = Shortened(Whole(url).name, Whole(url).dot)
BY Zenon DEF DerivedName, Shortened, Whole, NameStepAll, NameStep, FoldLeft, MapThenFoldSet

\* It stays a name, and at least one letter of its beginning is kept.
LEMMA ShortenedIsName ==
  ASSUME NEW full \in String, IsName(full), NEW dot \in Nat, dot <= Len(full)
  PROVE  /\ Shortened(full, dot) \in String /\ IsName(Shortened(full, dot))
         /\ Len(Shortened(full, dot)) <= NameLen
<1>1. Len(full) \in Nat /\ NameLen \in Nat /\ NameLen > 1
  BY LenProperties, ArgsAssumption DEF String
<1> DEFINE m == Min({Len(full), NameLen})
           cut == SubSeq(full, 1, m)
           e == Min({Len(full), dot + NameLen - 2})
           ext == SubSeq(full, dot, e)
<1>2. m \in Nat /\ m <= Len(full) /\ m <= NameLen /\ (Len(full) > NameLen => m = NameLen)
  BY <1>1, MinIs
<1>3. e \in Int /\ e <= Len(full) /\ e <= dot + NameLen - 2 /\ (dot > 0 => e \in Nat /\ e >= dot)
  BY <1>1, MinIs
<1> HIDE DEF m, e
<1>4. cut \in String /\ Len(cut) = m /\ \A i \in 1 .. m : cut[i] = full[i]
  <2>1. m - 1 + 1 = m /\ \A i \in 1 .. m : 1 + i - 1 = i
    BY <1>2
  <2> QED BY <1>1, <1>2, <2>1, PartType
<1>5. IsName(cut)
  <2>1. \A i \in 1 .. m : i \in 1 .. Len(full)
    BY <1>1, <1>2
  <2>2. cut # <<>> => 1 \in 1 .. m
    BY <1>4, EmptySeq DEF String
  <2>3. \A i \in 1 .. Len(full) : full # <<>>
    BY EmptySeq
  <2> HIDE DEF cut
  <2> QED BY <1>4, <2>1, <2>2, <2>3 DEF IsName
<1>6. CASE ~ (Len(full) > NameLen /\ dot > 0)
  <2>1. Shortened(full, dot) = cut
    BY <1>6, Zenon DEF Shortened, cut, m
  <2> QED BY <1>2, <1>4, <1>5, <2>1
<1>7. CASE Len(full) > NameLen /\ dot > 0
  <2>1. Shortened(full, dot) = SubSeq(cut, 1, NameLen - Len(ext)) \o ext
    BY <1>7, Zenon DEF Shortened, cut, ext, m, e
  <2>2. /\ ext \in String /\ Len(ext) = e - dot + 1
        /\ \A i \in 1 .. e - dot + 1 : ext[i] = full[dot + i - 1]
    BY <1>1, <1>3, <1>7, PartType
  <2> DEFINE k == NameLen - Len(ext)
             stem == SubSeq(cut, 1, k)
  <2>3. k \in Nat /\ k >= 1 /\ k <= m /\ Len(ext) \in Nat /\ Len(ext) <= NameLen
    BY <1>1, <1>2, <1>3, <1>7, <2>2
  <2> HIDE DEF k, cut, ext
  <2>4. stem \in String /\ Len(stem) = k /\ \A i \in 1 .. k : stem[i] = cut[i]
    <3>1. k - 1 + 1 = k /\ \A i \in 1 .. k : 1 + i - 1 = i
      BY <2>3
    <3> QED BY <1>4, <2>3, <3>1, PartType
  <2> HIDE DEF stem
  <2>5. /\ stem \o ext \in Seq(Char) /\ Len(stem \o ext) = k + Len(ext)
        /\ \A i \in 1 .. k + Len(ext) : (stem \o ext)[i] = IF i <= k THEN stem[i] ELSE ext[i - k]
    <3>1. stem \in Seq(Char) /\ ext \in Seq(Char)
      BY <2>2, <2>4 DEF String
    <3>2. /\ stem \o ext \in Seq(Char) /\ Len(stem \o ext) = Len(stem) + Len(ext)
          /\ \A i \in 1 .. Len(stem) + Len(ext) :
               (stem \o ext)[i] = IF i <= Len(stem) THEN stem[i] ELSE ext[i - Len(stem)]
      BY <3>1, ConcatProperties, Zenon
    <3>3. Len(stem) = k
      BY <2>4
    <3> QED BY <3>2, <3>3
  <2>6. k + Len(ext) = NameLen
    BY <1>1, <2>3 DEF k
  <2>7. \A i \in 1 .. k + Len(ext) : (stem \o ext)[i] \in NameChars
    <3> TAKE i \in 1 .. k + Len(ext)
    <3>1. CASE i <= k
      <4>1. i \in 1 .. k /\ i \in 1 .. m
        BY <1>2, <2>3, <3>1
      <4> QED BY <1>4, <1>5, <2>4, <2>5, <3>1, <4>1 DEF IsName
    <3>2. CASE ~ (i <= k)
      <4>1. i - k \in 1 .. Len(ext) /\ i - k \in 1 .. e - dot + 1
        BY <2>2, <2>3, <3>2
      <4>2. dot + (i - k) - 1 \in 1 .. Len(full)
        BY <1>1, <1>3, <1>7, <2>2, <4>1
      <4>3. ext[i - k] = full[dot + (i - k) - 1]
        BY <2>2, <4>1
      <4> QED BY <2>5, <3>2, <4>2, <4>3 DEF IsName
    <3> QED BY <3>1, <3>2
  <2>8. (stem \o ext)[1] \in Letters
    <3>1. 1 \in 1 .. k + Len(ext) /\ 1 <= k /\ 1 \in 1 .. k /\ 1 \in 1 .. m /\ Len(cut) # 0
      BY <1>2, <1>4, <2>3
    <3>2. cut # <<>>
      BY <3>1, EmptySeq
    <3>3. (stem \o ext)[1] = cut[1]
      BY <2>4, <2>5, <3>1
    <3> QED BY <1>5, <3>2, <3>3 DEF IsName
  <2>9. Shortened(full, dot) = stem \o ext
    BY <2>1 DEF stem, k
  <2> QED BY <1>1, <2>5, <2>6, <2>7, <2>8, <2>9 DEF IsName, String
<1> QED BY <1>6, <1>7

\* The name that is proposed is one.
LEMMA DerivedType ==
  ASSUME NEW url \in String
  PROVE  DerivedName(url) \in String /\ IsName(DerivedName(url)) /\ Len(DerivedName(url)) <= NameLen
<1>1. /\ Whole(url).name \in String /\ IsName(Whole(url).name) /\ Whole(url).dot \in Nat
      /\ Whole(url).dot <= Len(Whole(url).name)
  BY WholeType DEF NameStates
<1> QED BY <1>1, DerivedIs, ShortenedIsName

----------------------------------------------------------------------------
(* The dialogue.                                                           *)

ArgTypes ==
  /\ kind \in Kinds /\ typed \in BOOLEAN
  /\ name \in String /\ IsName(name) /\ Len(name) <= NameLen
  /\ argv \in [Kinds -> Line \cup {None}] /\ accepted \in [Kinds -> Line]
  /\ disk \in [Kinds -> Seq(Line)]

\* arg points at the buffer after an edit, and at an argument there is without one.
ArgOK ==
  /\ pc = "edit" => typed
  /\ pc \in {"got", "save", "derive", "open"} /\ ~typed => argv[kind] # None

\* The inductive invariant.
DialogueInv ==
  LineInv /\ (editing => pc = "edit") /\ ArgTypes /\ ArgOK /\ ArgIntact

\* arg is a string.
LEMMA ArgType ==
  ASSUME LineInv, ArgTypes, typed \/ argv[kind] # None
  PROVE  Arg \in Line
<1>1. CString(buf) \in Line
  BY StringType DEF LineInv
<1>2. argv[kind] \in Line \cup {None} /\ typed \in BOOLEAN
  BY DEF ArgTypes
<1> QED BY <1>1, <1>2 DEF Arg

\* So is a completion.
LEMMA CandidateType ==
  ASSUME LineInv, ArgTypes, NEW line \in Candidates(CString(buf))
  PROVE  line \in String
<1> DEFINE shown == CString(buf)
           cut == LastSlash(shown)
           stem == SubSeq(shown, 1, cut)
           rest == SubSeq(shown, cut + 1, Len(shown))
           names == ({name} \ {<<>>}) \cup Listing(Front(stem))
<1>1. shown \in String
  BY StringType DEF LineInv, Line
<1>2. stem \in String
  <2> HIDE DEF shown
  <2>1. cut \in Nat /\ cut <= Len(shown)
    BY <1>1, LastSlashType
  <2> HIDE DEF cut
  <2> QED BY <1>1, <2>1, PartType
<1>3. names \subseteq String
  BY CompletionAssumption DEF Listing, ArgTypes
<1>4. \A n \in names : stem \o n \in String
  <2> HIDE DEF stem, names
  <2> QED BY <1>2, <1>3, ConcatProperties DEF String
<1>5. \/ line \in Matching(shown, UrlChoices) \cup Matching(shown, DriveSpecs) \cup Matching(shown, Volumes)
      \/ \E n \in Matching(rest, names) : line = stem \o n
  BY Zenon DEF Candidates, FileCandidates, Completed
<1>6. \A filter, S : Matching(filter, S) \subseteq S
  BY DEF Matching
<1> HIDE DEF shown, stem, rest, names
<1>7. CASE line \in Matching(shown, UrlChoices) \cup Matching(shown, DriveSpecs) \cup Matching(shown, Volumes)
  BY <1>6, <1>7, CompletionAssumption
<1>8. CASE \E n \in Matching(rest, names) : line = stem \o n
  BY <1>4, <1>6, <1>8
<1> QED BY <1>5, <1>7, <1>8

\* When the program starts.
LEMMA DialogueInit == ArgsInit => DialogueInv
<1> SUFFICES ASSUME ArgsInit PROVE DialogueInv
  OBVIOUS
<1>1. LineInv
  <2>1. /\ buf = [i \in 0 .. buflen |-> NUL] /\ history = <<>> /\ editing = FALSE
        /\ cancelled = FALSE /\ fits = TRUE
    BY DEF ArgsInit, LineInit
  <2>2. buf \in [0 .. buflen -> Char \cup {NUL}] /\ 0 \in 0 .. buflen
    BY <2>1, BuflenType
  <2>3. buf[0] = NUL
    BY <2>1, <2>2
  <2>4. history \in Histories
    BY <2>1, EmptySeq, HistoryAssumption DEF Histories
  <2> QED BY <2>1, <2>2, <2>3, <2>4 DEF LineInv, Array
<1>2. pc = "load" /\ editing = FALSE
  BY DEF ArgsInit, LineInit
<1>3. ArgTypes
  <2>1. kind = "urls" /\ typed = FALSE /\ name = <<>> /\ accepted = [k \in Kinds |-> <<>>]
    BY DEF ArgsInit
  <2>2. argv \in [Kinds -> Line \cup {None}] /\ disk \in [Kinds -> Seq(Line)]
    BY StartAssumption DEF ArgsInit
  <2>3. <<>> \in String /\ IsName(<<>>) /\ Len(<<>>) <= NameLen
    BY EmptySeq, ArgsAssumption DEF String, IsName
  <2> QED BY <2>1, <2>2, <2>3, EmptyIsLine DEF ArgTypes, Kinds
<1> QED
  BY <1>1, <1>2, <1>3 DEF DialogueInv, ArgOK, ArgIntact

\* Steps that leave the line editor alone.
LEMMA LineRests ==
  ASSUME LineInv, UNCHANGED lineVars
  PROVE  LineInv'
BY DEF LineInv, lineVars, Array, Editing, Ends

\* Every step keeps it: the line editor's part.
LEMMA LineNext ==
  ASSUME DialogueInv, [Next]_vars
  PROVE  LineInv' /\ (editing' => pc' = "edit")
<1> USE DEF DialogueInv
<1>0. CASE editing' = FALSE /\ UNCHANGED <<cancelled, fits>> /\ Array(buf)' /\ history' \in Histories
  BY <1>0 DEF LineInv
<1>1. CASE LoadArgument
  <2>1. HistoryLoad(disk[kind]) /\ pc = "load" /\ UNCHANGED <<editing, cancelled, fits>>
    BY <1>1 DEF LoadArgument
  <2>2. disk[kind] \in Seq(Line) /\ Array(buf) /\ editing = FALSE
    BY <2>1 DEF ArgTypes, LineInv
  <2>3. history' \in Histories /\ Array(buf)'
    BY <2>1, <2>2, LoadType
  <2> QED BY <1>0, <2>1, <2>2, <2>3
<1>2. CASE GetArgument
  <2>1. pc = "ask" /\ editing = FALSE
    BY <1>2 DEF GetArgument, LineInv
  <2>2. CASE UNCHANGED lineVars
    BY <2>1, <2>2, LineRests DEF lineVars
  <2>3. CASE EditStart /\ pc' = "edit"
    BY <2>3, StartKeeps
  <2> QED BY <1>2, <2>2, <2>3 DEF GetArgument
<1>3. CASE PressKey
  <2>1. pc' = "edit"
    BY <1>3 DEF PressKey
  <2>2. CASE Key
    BY <2>1, <2>2, KeyKeeps
  <2>3. CASE \E line \in Candidates(CString(buf)) : EditComplete(line)
    BY <2>1, <2>3, CandidateType, CompleteKeeps
  <2> QED BY <1>3, <2>2, <2>3 DEF PressKey
<1>4. CASE Look
  <2>1. /\ pc = "got" /\ history' = Added(history, Arg)
        /\ UNCHANGED <<buf, editing, cancelled, fits>>
    BY <1>4 DEF Look, HistoryAdd
  <2>2. editing = FALSE /\ history \in Histories /\ Array(buf)
    BY <2>1 DEF LineInv
  <2>3. Arg \in Line
    BY <2>1, ArgType DEF ArgOK
  <2>4. history' \in Histories
    BY <2>1, <2>2, <2>3, AddedIs
  <2> QED BY <1>0, <2>1, <2>2, <2>4 DEF Array
<1>5. CASE Edited \/ SaveArgument \/ DeriveName \/ End \/ UNCHANGED vars
  <2>1. UNCHANGED lineVars /\ (editing => pc' = "edit")
    BY <1>5 DEF Edited, SaveArgument, DeriveName, End, vars, argsVars
  <2> QED BY <2>1, LineRests DEF lineVars
<1>6. CASE Restart
  <2>1. /\ buf' = [i \in DOMAIN buf |-> NUL] /\ history' = <<>> /\ editing' = FALSE
        /\ cancelled' = FALSE /\ fits' = TRUE
    BY <1>6 DEF Restart
  <2>2. buf' = [i \in 0 .. buflen |-> NUL] /\ 0 \in 0 .. buflen
    BY <2>1, BuflenType DEF LineInv, Array
  <2>3. buf' \in [0 .. buflen -> Char \cup {NUL}] /\ buf'[0] = NUL
    BY <2>2
  <2>4. history' \in Histories
    BY <2>1, EmptySeq, HistoryAssumption DEF Histories
  <2> QED BY <2>1, <2>2, <2>3, <2>4 DEF LineInv, Array
<1> QED
  BY <1>1, <1>2, <1>3, <1>4, <1>5, <1>6 DEF Next

\* The dialogue's own part.
LEMMA ArgNext ==
  ASSUME DialogueInv, [Next]_vars
  PROVE  ArgTypes' /\ ArgOK' /\ ArgIntact'
<1> USE DEF DialogueInv
<1>1. CASE LoadArgument \/ GetArgument \/ PressKey \/ Edited
  <2>1. /\ UNCHANGED <<kind, argv, accepted, name, disk>>
        /\ typed' \in BOOLEAN /\ pc' \in {"ask", "got", "edit", "end"}
        /\ pc' = "edit" => typed'
        /\ pc' = "got" /\ ~typed' => argv[kind] # None
    BY <1>1 DEF LoadArgument, GetArgument, PressKey, Edited, ArgTypes, ArgOK
  <2> QED BY <2>1 DEF ArgTypes, ArgOK, ArgIntact
<1>2. CASE Look
  <2>1. /\ UNCHANGED <<buf, kind, argv, typed, name, disk>> /\ pc = "got"
        /\ \/ pc' = "ask" /\ accepted' = accepted
           \/ pc' = "save" /\ accepted' = [accepted EXCEPT ![kind] = Arg]
    BY <1>2 DEF Look
  <2>2. Arg \in Line
    BY <2>1, ArgType DEF ArgOK
  <2>3. ArgTypes'
    BY <2>1, <2>2 DEF ArgTypes
  <2>4. Arg' = Arg
    BY <2>1 DEF Arg
  <2>5. ArgIntact'
    BY <2>1, <2>4 DEF ArgTypes, ArgIntact
  <2> QED BY <2>1, <2>3, <2>5 DEF ArgOK
<1>3. CASE SaveArgument
  <2>1. /\ UNCHANGED <<buf, kind, argv, typed, accepted, name>> /\ pc = "save"
        /\ pc' \in {"derive", "open"}
        /\ disk' \in {disk, [disk EXCEPT ![kind] = history]}
    BY <1>3 DEF SaveArgument, lineVars
  <2>2. history \in Seq(Line)
    BY DEF LineInv, Histories
  <2>3. disk' \in [Kinds -> Seq(Line)]
    BY <2>1, <2>2 DEF ArgTypes
  <2>4. Arg' = Arg
    BY <2>1 DEF Arg
  <2> QED BY <2>1, <2>3, <2>4 DEF ArgTypes, ArgOK, ArgIntact
<1>4. CASE DeriveName
  <2>1. /\ UNCHANGED <<argv, typed, accepted, disk>> /\ kind' = "files" /\ pc = "derive"
        /\ pc' = "load" /\ name' = DerivedName(Arg)
    BY <1>4 DEF DeriveName
  <2>2. Arg \in String
    BY <2>1, ArgType DEF ArgOK, Line
  <2>3. name' \in String /\ IsName(name') /\ Len(name') <= NameLen
    BY <2>1, <2>2, DerivedType
  <2> QED BY <2>1, <2>3 DEF ArgTypes, ArgOK, ArgIntact, Kinds, IsName
<1>5. CASE End \/ UNCHANGED vars
  <2>1. /\ UNCHANGED <<buf, kind, argv, typed, accepted, name, disk>>
        /\ pc' = "end" \/ pc' = pc
    BY <1>5 DEF End, vars, lineVars, argsVars
  <2>2. Arg' = Arg
    BY <2>1 DEF Arg
  <2> QED BY <2>1, <2>2 DEF ArgTypes, ArgOK, ArgIntact
<1>6. CASE Restart
  <2>1. /\ pc' = "load" /\ kind' = "urls" /\ typed' = FALSE /\ name' = <<>>
        /\ accepted' = [k \in Kinds |-> <<>>] /\ argv' = [k \in Kinds |-> None] /\ disk' = disk
    BY <1>6 DEF Restart
  <2>2. <<>> \in String /\ IsName(<<>>) /\ Len(<<>>) <= NameLen
    BY EmptySeq, ArgsAssumption DEF String, IsName
  <2> QED BY <2>1, <2>2, EmptyIsLine DEF ArgTypes, ArgOK, ArgIntact, Kinds, IsName
<1> QED
  BY <1>1, <1>2, <1>3, <1>4, <1>5, <1>6 DEF Next

\* What the editor, the history, arg and the name know of each other holds at all times
\* (linenoiseEdit; main).
THEOREM DialogueInvariant == ArgsSpec => []DialogueInv
<1>1. DialogueInv /\ [Next]_vars => DialogueInv'
  BY LineNext, ArgNext DEF DialogueInv
<1> QED
  BY <1>1, DialogueInit, PTL DEF ArgsSpec

\* While a line is edited the NUL in the buffer is where len says until a completion is too long
\* for it, and the cursor is inside len and the entry shown one of the history whatever is
\* completed, for every sequence of keys and however long the lines of the history are
\* (linenoiseEditInsert, linenoiseEditHistoryNext, completeLine).
THEOREM EditedIsString == ArgsSpec => []LineIsString
<1>1. DialogueInv => LineIsString
  <2> SUFFICES ASSUME DialogueInv, editing PROVE LineIsString
    BY DEF LineIsString
  <2>1. LineInv
    BY DEF DialogueInv
  <2>2. ASSUME fits PROVE Len(CString(buf)) = len /\ len <= buflen
    <3>1. Ends(buf, len) /\ buf \in [0 .. buflen -> Char \cup {NUL}] /\ len <= buflen
      BY <2>1, <2>2, ShownTypes, EditingTypes DEF Shown
    <3> QED BY <3>1, StringIs
  <2> QED BY <2>1, <2>2, EditingTypes DEF LineIsString
<1> QED
  BY <1>1, DialogueInvariant, PTL

\* The line that was found good is still behind arg when it is saved, when the name is derived
\* from it and when the file is opened (main).
THEOREM ArgumentIsIntact == ArgsSpec => []ArgIntact
<1>1. DialogueInv => ArgIntact
  BY DEF DialogueInv
<1> QED
  BY <1>1, DialogueInvariant, PTL

\* The file name proposed is a ProDOS file name for every URL and every length of names (main).
THEOREM NameIsProdos == ArgsSpec => []NameIsValid
<1>1. DialogueInv => NameIsValid
  <2> SUFFICES ASSUME DialogueInv PROVE NameIsValid
    OBVIOUS
  <2>1. name \in String /\ IsName(name) /\ Len(name) <= NameLen
    BY DEF DialogueInv, ArgTypes
  <2>2. DOMAIN name = 1 .. Len(name)
    BY <2>1, LenProperties DEF String
  <2> QED BY <2>1, <2>2 DEF NameIsValid, IsName, NameChars
<1> QED
  BY <1>1, DialogueInvariant, PTL

----------------------------------------------------------------------------
(* The line editor implements LineEditor.                                  *)

\* The text before and after position p in an array whose string ends at n.
Before(b, p) == [i \in 1 .. p |-> b[i - 1]]
After(b, p, n) == [i \in 1 .. n - p |-> b[p + i - 1]]

\* The text before a position is a sequence of the characters there.
LEMMA BeforeType ==
  ASSUME NEW b, NEW n \in Nat, \A i \in 1 .. n : b[i - 1] \in Char
  PROVE  Before(b, n) \in Seq(Char) /\ Len(Before(b, n)) = n
BY IsASeq DEF Before

\* Both are strings, and put together the whole.
LEMMA TextIs ==
  ASSUME NEW b, Array(b), NEW n, Ends(b, n), NEW p \in 0 .. n
  PROVE  /\ n \in Nat /\ p \in Nat /\ p <= n /\ n <= buflen
         /\ Before(b, p) \in Seq(Char) /\ Len(Before(b, p)) = p
         /\ After(b, p, n) \in Seq(Char) /\ Len(After(b, p, n)) = n - p
         /\ Before(b, p) \o After(b, p, n) = Before(b, n)
         /\ Before(b, n) \in Seq(Char) /\ Len(Before(b, n)) = n /\ CString(b) = Before(b, n)
<1>1. /\ n \in Nat /\ p \in Nat /\ p <= n /\ n - p \in Nat /\ n <= buflen
      /\ b \in [0 .. buflen -> Char \cup {NUL}] /\ \A i \in 0 .. n - 1 : b[i] # NUL
  BY BuflenType DEF Ends, Array
<1>2. \A i \in 0 .. n - 1 : b[i] \in Char
  BY <1>1, BuflenType
<1>3. \A i \in 1 .. n : b[i - 1] \in Char
  <2>1. \A i \in 1 .. n : i - 1 \in 0 .. n - 1
    BY <1>1
  <2> QED BY <1>2, <2>1
<1>4. Before(b, n) \in Seq(Char) /\ Len(Before(b, n)) = n
  BY <1>1, <1>3, BeforeType
<1>5. Before(b, p) \in Seq(Char) /\ Len(Before(b, p)) = p
  <2>1. \A i \in 1 .. p : b[i - 1] \in Char
    BY <1>1, <1>3
  <2> QED BY <1>1, <2>1, BeforeType
<1>6. After(b, p, n) \in Seq(Char) /\ Len(After(b, p, n)) = n - p
  <2>1. \A i \in 1 .. n - p : p + i \in 1 .. n /\ (p + i) - 1 = p + i - 1
    BY <1>1
  <2>2. \A i \in 1 .. n - p : b[p + i - 1] \in Char
    BY <1>3, <2>1
  <2> QED BY <1>1, <2>2, IsASeq DEF After
<1>7. Before(b, p) \o After(b, p, n) = Before(b, n)
  <2>0. /\ Before(b, p) \o After(b, p, n) \in Seq(Char)
        /\ Len(Before(b, p) \o After(b, p, n)) = Len(Before(b, p)) + Len(After(b, p, n))
        /\ \A i \in 1 .. Len(Before(b, p)) + Len(After(b, p, n)) :
             (Before(b, p) \o After(b, p, n))[i] =
               IF i <= Len(Before(b, p)) THEN Before(b, p)[i] ELSE After(b, p, n)[i - Len(Before(b, p))]
    BY <1>5, <1>6, ConcatProperties, Zenon
  <2>1. /\ Before(b, p) \o After(b, p, n) \in Seq(Char)
        /\ Len(Before(b, p) \o After(b, p, n)) = p + (n - p)
        /\ \A i \in 1 .. p + (n - p) : (Before(b, p) \o After(b, p, n))[i] =
             IF i <= p THEN Before(b, p)[i] ELSE After(b, p, n)[i - p]
    BY <1>5, <1>6, <2>0
  <2>2. p + (n - p) = n
    BY <1>1
  <2>3. \A i \in 1 .. n : (Before(b, p) \o After(b, p, n))[i] = Before(b, n)[i]
    <3> TAKE i \in 1 .. n
    <3>1. Before(b, n)[i] = b[i - 1]
      BY DEF Before
    <3>2. i <= p => i \in 1 .. p
      BY <1>1
    <3>3. ~ (i <= p) => i - p \in 1 .. n - p /\ p + (i - p) - 1 = i - 1
      BY <1>1
    <3>4. i <= p => Before(b, p)[i] = b[i - 1]
      BY <3>2 DEF Before
    <3>5. ~ (i <= p) => After(b, p, n)[i - p] = b[i - 1]
      BY <3>3 DEF After
    <3> QED BY <2>1, <2>2, <3>1, <3>4, <3>5
  <2> QED BY <1>4, <2>1, <2>2, <2>3, SeqEqual
<1>8. CString(b) = Before(b, n)
  BY <1>1, StringIs DEF Before
<1> QED BY <1>1, <1>4, <1>5, <1>6, <1>7, <1>8

\* The history without its last line, and that line.
LEMMA FrontIs ==
  ASSUME NEW h \in Seq(Line), h # <<>>
  PROVE  /\ Front(h) \in Seq(Line) /\ Len(Front(h)) = Len(h) - 1 /\ Len(h) \in Nat \ {0}
         /\ \A i \in 1 .. Len(h) - 1 : Front(h)[i] = h[i]
         /\ Last(h) = h[Len(h)] /\ Last(h) \in Line /\ h = Append(Front(h), Last(h))
<1>1. Len(h) \in Nat \ {0} /\ \A i \in 1 .. Len(h) : h[i] \in Line
  BY LenProperties, ElementOfSeq, EmptySeq
<1>2. Front(h) = SubSeq(h, 1, Len(h) - 1) /\ Last(h) = h[Len(h)]
  BY DEF Front, Last
<1>3. /\ Front(h) \in Seq(Line) /\ Len(Front(h)) = Len(h) - 1
      /\ \A i \in 1 .. Len(h) - 1 : Front(h)[i] = h[i]
  <2>1. \A i \in 1 .. Len(h) - 1 : h[i] \in Line
    BY <1>1
  <2>2. /\ Len(h) - 1 \in Int /\ (Len(h) - 1) - 1 + 1 = Len(h) - 1
        /\ \A i \in 1 .. (Len(h) - 1) - 1 + 1 : 1 + i - 1 = i
        /\ (~ (1 <= Len(h) - 1) => Len(h) - 1 = 0)
    <3>1. \A n \in Nat \ {0} : n - 1 \in Int /\ (n - 1) - 1 + 1 = n - 1 /\ (~ (1 <= n - 1) => n - 1 = 0)
      OBVIOUS
    <3>2. \A n \in Nat : \A i \in 1 .. (n - 1) - 1 + 1 : 1 + i - 1 = i
      OBVIOUS
    <3> QED BY <1>1, <3>1, <3>2, Zenon
  <2>3. /\ SubSeq(h, 1, Len(h) - 1) \in Seq(Line)
        /\ Len(SubSeq(h, 1, Len(h) - 1)) = IF 1 <= Len(h) - 1 THEN (Len(h) - 1) - 1 + 1 ELSE 0
        /\ \A i \in 1 .. (Len(h) - 1) - 1 + 1 : SubSeq(h, 1, Len(h) - 1)[i] = h[1 + i - 1]
    BY <2>1, <2>2, SubSeqProperties
  <2> QED BY <1>2, <2>2, <2>3
<1>4. Last(h) \in Line
  BY <1>1, <1>2
<1>5. h = Append(Front(h), Last(h))
  <2>1. /\ Append(Front(h), Last(h)) \in Seq(Line)
        /\ Len(Append(Front(h), Last(h))) = (Len(h) - 1) + 1
        /\ \A i \in 1 .. Len(h) - 1 : Append(Front(h), Last(h))[i] = Front(h)[i]
        /\ Append(Front(h), Last(h))[(Len(h) - 1) + 1] = Last(h)
    BY <1>3, <1>4, AppendProperties
  <2>2. (Len(h) - 1) + 1 = Len(h) /\ \A i \in 1 .. Len(h) : i \in 1 .. Len(h) - 1 \/ i = Len(h)
    BY <1>1
  <2>3. ASSUME NEW i \in 1 .. Len(h) PROVE Append(Front(h), Last(h))[i] = h[i]
    <3>1. CASE i \in 1 .. Len(h) - 1
      BY <1>3, <2>1, <3>1, Zenon
    <3>2. CASE i = Len(h)
      BY <1>2, <2>1, <2>2, <3>2, Zenon
    <3> QED BY <2>2, <3>1, <3>2, Zenon
  <2> QED BY <2>1, <2>2, <2>3, SeqEqual
<1> QED BY <1>1, <1>2, <1>3, <1>4, <1>5

\* What is shown while a line is edited.
LEMMA EditingShown ==
  ASSUME Shown = TRUE
  PROVE  /\ LineBefore = Before(buf, pos) /\ LineAfter = After(buf, pos, len)
         /\ ShownIndex = history_index
         /\ OlderLines = Front(history) /\ NewLine = Last(history)
BY DEF LineBefore, LineAfter, ShownIndex, OlderLines, NewLine, Before, After

\* What is shown while none is.
LEMMA IdleShown ==
  ASSUME Shown = FALSE
  PROVE  /\ LineBefore = <<>> /\ LineAfter = <<>> /\ ShownIndex = 0
         /\ OlderLines = history /\ NewLine = <<>>
BY DEF LineBefore, LineAfter, ShownIndex, OlderLines, NewLine

\* What is shown of a line that is edited after a step.
LEMMA EditingShownNext ==
  ASSUME Shown' = TRUE
  PROVE  /\ LineBefore' = Before(buf', pos') /\ LineAfter' = After(buf', pos', len')
         /\ ShownIndex' = history_index'
         /\ OlderLines' = Front(history') /\ NewLine' = Last(history')
BY DEF LineBefore, LineAfter, ShownIndex, OlderLines, NewLine, Before, After

\* What is shown if none is edited after a step.
LEMMA IdleShownNext ==
  ASSUME Shown' = FALSE
  PROVE  /\ LineBefore' = <<>> /\ LineAfter' = <<>> /\ ShownIndex' = 0
         /\ OlderLines' = history' /\ NewLine' = <<>>
BY DEF LineBefore, LineAfter, ShownIndex, OlderLines, NewLine

\* What is shown of a line that is edited.
LEMMA ShownText ==
  ASSUME LineInv, Shown
  PROVE  /\ LineBefore = Before(buf, pos) /\ LineAfter = After(buf, pos, len)
         /\ ShownIndex = history_index
         /\ OlderLines = Front(history) /\ NewLine = Last(history)
         /\ Editor!text = Before(buf, len) /\ Editor!text = CString(buf)
         /\ Len(Editor!text) = len /\ Editor!text \in Seq(Char)
<1>1. Array(buf) /\ Ends(buf, len) /\ pos \in 0 .. len /\ Shown = TRUE
  BY ShownTypes
<1>2. /\ LineBefore = Before(buf, pos) /\ LineAfter = After(buf, pos, len)
      /\ ShownIndex = history_index
      /\ OlderLines = Front(history) /\ NewLine = Last(history)
  BY <1>1, EditingShown
<1>3. Editor!text = Before(buf, pos) \o After(buf, pos, len)
  BY <1>2 DEF Editor!text
<1>4. /\ Before(buf, pos) \o After(buf, pos, len) = Before(buf, len)
      /\ Before(buf, len) \in Seq(Char) /\ Len(Before(buf, len)) = len /\ CString(buf) = Before(buf, len)
  BY <1>1, TextIs
<1> QED BY <1>2, <1>3, <1>4

\* A line is begun: the list gives up an empty last line, or its oldest one if it is full.
LEMMA StartBegins ==
  ASSUME LineInv, EditStart
  PROVE  Editor!Begin
<1>1. /\ Shown = FALSE /\ Shown' = TRUE /\ pos' = 0 /\ len' = 0 /\ history_index' = 0
      /\ history' = Added(history, <<>>)
  BY DEF EditStart, HistoryAdd, LineInv, Shown
<1>2. LineBefore' = <<>> /\ LineAfter' = <<>> /\ ShownIndex' = 0
  <2>1. Before(buf', 0) = <<>> /\ After(buf', 0, 0) = <<>>
    BY DEF Before, After
  <2> QED BY <1>1, <2>1, EditingShownNext
<1>3. OlderLines = history /\ OlderLines' = Front(history') /\ NewLine' = Last(history')
  BY <1>1, IdleShown, EditingShownNext
<1>4. /\ history \in Seq(Line) /\ Len(history) \in Nat /\ Len(history) <= LINENOISE_HISTORY_MAX_LEN
      /\ history \in Histories
  BY LenProperties DEF LineInv, Histories
<1>5. NewLine' = <<>>
  BY <1>1, <1>3, <1>4, AddedIs, EmptyIsLine
<1>6. OlderLines' = IF OlderLines # <<>> /\ OlderLines[Len(OlderLines)] = <<>>
                    THEN SubSeq(OlderLines, 1, Len(OlderLines) - 1)
                    ELSE IF Len(OlderLines) = LINENOISE_HISTORY_MAX_LEN THEN Tail(OlderLines) ELSE OlderLines
  <2>1. CASE history # <<>> /\ history[Len(history)] = <<>>
    <3>1. Last(history) = <<>>
      BY <2>1 DEF Last
    <3>2. history' = history
      BY <1>1, <2>1, <3>1 DEF Added
    <3> QED BY <1>3, <2>1, <3>2 DEF Front
  <2>2. CASE ~ (history # <<>> /\ history[Len(history)] = <<>>)
    <3> DEFINE x == IF Len(history) = LINENOISE_HISTORY_MAX_LEN THEN Tail(history) ELSE history
    <3>1. history' = Append(x, <<>>)
      BY <1>1, <2>2 DEF Added, Last
    <3>2. x \in Seq(Line)
      <4>1. Len(history) = LINENOISE_HISTORY_MAX_LEN => history # <<>>
        BY HistoryAssumption, EmptySeq
      <4>2. history # <<>> => Tail(history) \in Seq(Line)
        BY <1>4, HeadTailProperties
      <4> QED BY <1>4, <4>1, <4>2
    <3> HIDE DEF x
    <3>3. history' \in Seq(Line) /\ history' # <<>>
      BY <3>1, <3>2, AppendProperties, EmptyIsLine
    <3>4. /\ Front(history') \in Seq(Line) /\ Last(history') \in Line
          /\ history' = Append(Front(history'), Last(history'))
      BY <3>3, FrontIs
    <3>5. Front(history') = x
      BY <3>1, <3>2, <3>4, EmptyIsLine, AppendInjective
    <3> QED BY <1>3, <2>2, <3>5 DEF x
  <2> QED BY <2>1, <2>2
<1> QED
  BY <1>1, <1>2, <1>5, <1>6 DEF Editor!Begin

\* A key that leaves index, history and the line's being shown alone leaves the list alone.
LEMMA ListRests ==
  ASSUME Shown = TRUE, UNCHANGED <<history_index, history, Shown>>
  PROVE  UNCHANGED <<Shown, ShownIndex, OlderLines, NewLine>>
BY EditingShown, EditingShownNext

\* A character is typed.
LEMMA InsertTypes ==
  ASSUME LineInv, Shown, NEW c \in Char, EditInsert(c)
  PROVE  Editor!Type
<1>1. /\ len < buflen /\ pos' = pos + 1 /\ len' = len + 1
      /\ UNCHANGED <<history_index, history, Shown>>
  BY DEF EditInsert, Shown
<1>2. Array(buf) /\ Ends(buf, len) /\ pos \in 0 .. len /\ Shown = TRUE
  BY ShownTypes
<1>3. /\ Array(buf') /\ Ends(buf', len + 1)
      /\ \A i \in 0 .. len : buf'[i] = IF i < pos THEN buf[i] ELSE IF i = pos THEN c ELSE buf[i - 1]
  BY InsertIs
<1>4. /\ len \in Nat /\ pos \in Nat /\ pos <= len
      /\ Before(buf, pos) \in Seq(Char) /\ Len(Before(buf, pos)) = pos
      /\ After(buf, pos, len) \in Seq(Char) /\ Len(After(buf, pos, len)) = len - pos
  BY <1>2, TextIs
<1>5. pos + 1 \in 0 .. len + 1 /\ (len + 1) - (pos + 1) = len - pos
  BY <1>4
<1>6. /\ Before(buf', pos + 1) \in Seq(Char) /\ Len(Before(buf', pos + 1)) = pos + 1
      /\ After(buf', pos + 1, len + 1) \in Seq(Char)
      /\ Len(After(buf', pos + 1, len + 1)) = len - pos
  BY <1>3, <1>5, TextIs
<1>7. Before(buf', pos + 1) = Append(Before(buf, pos), c)
  <2>1. /\ Append(Before(buf, pos), c) \in Seq(Char) /\ Len(Append(Before(buf, pos), c)) = pos + 1
        /\ \A i \in 1 .. pos : Append(Before(buf, pos), c)[i] = Before(buf, pos)[i]
        /\ Append(Before(buf, pos), c)[pos + 1] = c
    BY <1>4, AppendProperties
  <2>2. \A i \in 1 .. pos + 1 : Before(buf', pos + 1)[i] = Append(Before(buf, pos), c)[i]
    <3> TAKE i \in 1 .. pos + 1
    <3>1. Before(buf', pos + 1)[i] = buf'[i - 1] /\ i - 1 \in 0 .. len
      BY <1>4 DEF Before
    <3>2. CASE i = pos + 1
      <4>1. buf'[i - 1] = c
        BY <1>3, <1>4, <3>1, <3>2
      <4> QED BY <2>1, <3>1, <3>2, <4>1
    <3>3. CASE i # pos + 1
      <4>1. i \in 1 .. pos /\ i - 1 < pos
        BY <1>4, <3>3
      <4>2. Before(buf, pos)[i] = buf[i - 1]
        BY <4>1 DEF Before
      <4> QED BY <1>3, <2>1, <3>1, <4>1, <4>2
    <3> QED BY <3>2, <3>3
  <2> QED BY <1>6, <2>1, <2>2, SeqEqual
<1>8. After(buf', pos + 1, len + 1) = After(buf, pos, len)
  <2>1. ASSUME NEW i \in 1 .. len - pos
        PROVE  After(buf', pos + 1, len + 1)[i] = After(buf, pos, len)[i]
    <3>1. /\ (pos + 1) + i - 1 = pos + i /\ pos + i \in 0 .. len /\ ~ (pos + i < pos)
          /\ pos + i # pos
      BY <1>4
    <3>2. After(buf', pos + 1, len + 1)[i] = buf'[pos + i]
      BY <1>5, <3>1 DEF After
    <3>3. After(buf, pos, len)[i] = buf[pos + i - 1]
      BY DEF After
    <3>4. buf'[pos + i] = buf[(pos + i) - 1] /\ (pos + i) - 1 = pos + i - 1
      BY <1>3, <1>4, <3>1
    <3> QED BY <3>2, <3>3, <3>4
  <2> QED BY <1>4, <1>6, <2>1, SeqEqual
<1>9. LineBefore' = Append(LineBefore, c) /\ LineAfter' = LineAfter
  <2>1. LineBefore' = Before(buf', pos + 1) /\ LineAfter' = After(buf', pos + 1, len + 1)
    BY <1>1, <1>2, EditingShownNext
  <2> QED BY <1>2, <1>7, <1>8, <2>1, EditingShown
<1>10. Len(Editor!text) < buflen
  BY <1>1, ShownText
<1>11. UNCHANGED <<Shown, ShownIndex, OlderLines, NewLine>>
  BY <1>1, <1>2, ListRests
<1> QED
  BY <1>9, <1>10, <1>11 DEF Editor!Type

\* The cursor moves.
LEMMA MoveMoves ==
  ASSUME LineInv, Shown, NEW to, EditMove(to)
  PROVE  Editor!Move
<1>1. /\ to \in 0 .. len /\ pos' = to
      /\ UNCHANGED <<buf, len, history_index, history, Shown>>
  BY DEF EditMove, Shown
<1>2. Array(buf) /\ Ends(buf, len) /\ Shown = TRUE
  BY ShownTypes
<1>3. /\ len \in Nat /\ to \in Nat /\ to <= len
      /\ Before(buf, to) \in Seq(Char) /\ Len(Before(buf, to)) = to
      /\ After(buf, to, len) \in Seq(Char) /\ Len(After(buf, to, len)) = len - to
      /\ Before(buf, to) \o After(buf, to, len) = Before(buf, len)
      /\ Before(buf, len) \in Seq(Char) /\ Len(Before(buf, len)) = len
  BY <1>1, <1>2, TextIs
<1> DEFINE text == Before(buf, len)
<1>4. SubSeq(text, 1, to) = Before(buf, to)
  <2>1. /\ SubSeq(text, 1, to) \in Seq(Char) /\ Len(SubSeq(text, 1, to)) = to
        /\ \A i \in 1 .. to : SubSeq(text, 1, to)[i] = text[i]
    <3>1. \A i \in 1 .. to : text[i] \in Char
      BY <1>3, ElementOfSeq
    <3>2. to - 1 + 1 = to /\ \A i \in 1 .. to : 1 + i - 1 = i
      BY <1>3
    <3> HIDE DEF text
    <3>3. /\ SubSeq(text, 1, to) \in Seq(Char)
          /\ Len(SubSeq(text, 1, to)) = IF 1 <= to THEN to - 1 + 1 ELSE 0
          /\ \A i \in 1 .. to - 1 + 1 : SubSeq(text, 1, to)[i] = text[1 + i - 1]
      BY <1>3, <3>1, SubSeqProperties
    <3> QED BY <1>3, <3>2, <3>3
  <2>2. \A i \in 1 .. to : text[i] = Before(buf, to)[i]
    BY <1>3 DEF Before
  <2> QED BY <1>3, <2>1, <2>2, SeqEqual
<1>5. SubSeq(text, to + 1, len) = After(buf, to, len)
  <2>1. /\ SubSeq(text, to + 1, len) \in Seq(Char) /\ Len(SubSeq(text, to + 1, len)) = len - to
        /\ \A i \in 1 .. len - to : SubSeq(text, to + 1, len)[i] = text[to + i]
    <3>1. \A i \in to + 1 .. len : text[i] \in Char
      BY <1>3, ElementOfSeq
    <3>2. len - (to + 1) + 1 = len - to /\ \A i \in 1 .. len - to : (to + 1) + i - 1 = to + i
      BY <1>3
    <3> HIDE DEF text
    <3>3. /\ SubSeq(text, to + 1, len) \in Seq(Char)
          /\ Len(SubSeq(text, to + 1, len)) = IF to + 1 <= len THEN len - (to + 1) + 1 ELSE 0
          /\ \A i \in 1 .. len - (to + 1) + 1 : SubSeq(text, to + 1, len)[i] = text[(to + 1) + i - 1]
      BY <1>3, <3>1, SubSeqProperties
    <3> QED BY <1>3, <3>2, <3>3
  <2>2. \A i \in 1 .. len - to : text[to + i] = After(buf, to, len)[i]
    <3> TAKE i \in 1 .. len - to
    <3>1. to + i \in 1 .. len /\ (to + i) - 1 = to + i - 1
      BY <1>3
    <3>2. text[to + i] = buf[(to + i) - 1]
      BY <3>1 DEF Before
    <3>3. After(buf, to, len)[i] = buf[to + i - 1]
      BY DEF After
    <3> QED BY <3>1, <3>2, <3>3
  <2> QED BY <1>3, <2>1, <2>2, SeqEqual
<1>6. Editor!text = text /\ Len(Editor!text) = len
  BY <1>2, ShownText
<1> HIDE DEF text
<1>7. LineBefore' = SubSeq(text, 1, to) /\ LineAfter' = SubSeq(text, to + 1, len)
  BY <1>1, <1>2, <1>4, <1>5, EditingShownNext
<1>8. UNCHANGED <<Shown, ShownIndex, OlderLines, NewLine>>
  BY <1>1, <1>2, ListRests
<1> QED
  BY <1>1, <1>6, <1>7, <1>8 DEF Editor!Move

\* What is left when the character at a place is removed.
LEMMA RemovedShown ==
  ASSUME LineInv, Shown, NEW at \in 0 .. len - 1, NEW b,
         b = [MemMove(buf, at, at + 1, len - at - 1) EXCEPT ![len - 1] = NUL]
  PROVE  /\ Before(b, at) = Before(buf, at)
         /\ After(b, at, len - 1) = After(buf, at + 1, len)
<1>1. /\ Array(b) /\ Ends(b, len - 1)
      /\ \A i \in 0 .. len - 2 : b[i] = IF i < at THEN buf[i] ELSE buf[i + 1]
  BY RemovedIs
<1>2. Array(buf) /\ Ends(buf, len) /\ editing
  BY ShownTypes
<1>3. len \in Nat /\ at \in Nat
  BY <1>2, EditingTypes
<1>4. at \in 0 .. len /\ at + 1 \in 0 .. len /\ at \in 0 .. len - 1 /\ (len - 1) - at = len - (at + 1)
  BY <1>3
<1>5. /\ Before(b, at) \in Seq(Char) /\ Len(Before(b, at)) = at
      /\ After(b, at, len - 1) \in Seq(Char) /\ Len(After(b, at, len - 1)) = len - (at + 1)
  BY <1>1, <1>4, TextIs
<1>6. /\ Before(buf, at) \in Seq(Char) /\ Len(Before(buf, at)) = at
  BY <1>2, <1>4, TextIs
<1>7. After(buf, at + 1, len) \in Seq(Char) /\ Len(After(buf, at + 1, len)) = len - (at + 1)
  BY <1>2, <1>4, TextIs
<1>8. Before(b, at) = Before(buf, at)
  <2>1. ASSUME NEW i \in 1 .. at PROVE Before(b, at)[i] = Before(buf, at)[i]
    <3>1. i - 1 \in 0 .. len - 2 /\ i - 1 < at
      BY <1>3
    <3>2. b[i - 1] = buf[i - 1]
      BY <1>1, <3>1
    <3> QED BY <3>2 DEF Before
  <2> QED BY <1>5, <1>6, <2>1, SeqEqual
<1>9. After(b, at, len - 1) = After(buf, at + 1, len)
  <2>1. ASSUME NEW i \in 1 .. len - (at + 1)
        PROVE  After(b, at, len - 1)[i] = After(buf, at + 1, len)[i]
    <3>1. /\ at + i - 1 \in 0 .. len - 2 /\ ~ (at + i - 1 < at)
          /\ (at + i - 1) + 1 = (at + 1) + i - 1 /\ i \in 1 .. (len - 1) - at
      BY <1>3
    <3>2. b[at + i - 1] = buf[(at + i - 1) + 1]
      BY <1>1, <3>1
    <3>3. After(b, at, len - 1)[i] = b[at + i - 1]
      BY <3>1 DEF After
    <3>4. After(buf, at + 1, len)[i] = buf[(at + 1) + i - 1]
      BY DEF After
    <3> QED BY <3>1, <3>2, <3>3, <3>4
  <2> QED BY <1>5, <1>7, <2>1, SeqEqual
<1> QED BY <1>8, <1>9

\* The character under the cursor is deleted.
LEMMA DeleteDeletes ==
  ASSUME LineInv, Shown, EditDelete
  PROVE  Editor!DeleteRight
<1>1. /\ editing /\ pos < len /\ pos' = pos /\ len' = len - 1
      /\ buf' = [MemMove(buf, pos, pos + 1, len - pos - 1) EXCEPT ![len - 1] = NUL]
      /\ UNCHANGED <<history_index, history, Shown>>
  BY DEF EditDelete, Shown
<1>2. /\ Array(buf) /\ Ends(buf, len) /\ Shown = TRUE /\ len \in Nat /\ pos \in Nat
  BY <1>1, EditingTypes, ShownTypes
<1>3. pos \in 0 .. len - 1 /\ pos \in 0 .. len /\ pos + 1 \in 0 .. len
  BY <1>1, <1>2
<1>0. Array(buf) /\ Ends(buf, len)
  BY <1>2
<1>4. Before(buf', pos) = Before(buf, pos) /\ After(buf', pos, len - 1) = After(buf, pos + 1, len)
  BY <1>1, <1>3, RemovedShown
<1>5. After(buf, pos, len) \in Seq(Char) /\ Len(After(buf, pos, len)) = len - pos
  BY <1>0, <1>3, TextIs
<1>6. After(buf, pos + 1, len) \in Seq(Char) /\ Len(After(buf, pos + 1, len)) = len - (pos + 1)
  BY <1>0, <1>3, TextIs
<1>7. After(buf, pos, len) # <<>> /\ After(buf, pos + 1, len) = Tail(After(buf, pos, len))
  <2>1. After(buf, pos, len) # <<>>
    <3>1. len - pos # 0
      BY <1>1, <1>2
    <3> QED BY <1>5, <3>1, EmptySeq
  <2>2. /\ Tail(After(buf, pos, len)) \in Seq(Char)
        /\ Len(Tail(After(buf, pos, len))) = (len - pos) - 1
        /\ \A i \in 1 .. (len - pos) - 1 : Tail(After(buf, pos, len))[i] = After(buf, pos, len)[i + 1]
    BY <1>5, <2>1, HeadTailProperties
  <2>3. (len - pos) - 1 = len - (pos + 1)
    BY <1>2
  <2>4. ASSUME NEW i \in 1 .. len - (pos + 1)
        PROVE  After(buf, pos + 1, len)[i] = Tail(After(buf, pos, len))[i]
    <3>1. i + 1 \in 1 .. len - pos /\ pos + (i + 1) - 1 = (pos + 1) + i - 1
      BY <1>2
    <3>2. After(buf, pos, len)[i + 1] = buf[pos + (i + 1) - 1]
      BY <3>1 DEF After
    <3>3. After(buf, pos + 1, len)[i] = buf[(pos + 1) + i - 1]
      BY DEF After
    <3> QED BY <2>2, <2>3, <3>1, <3>2, <3>3
  <2> QED BY <1>6, <2>1, <2>2, <2>3, <2>4, SeqEqual
<1>8. LineAfter # <<>> /\ LineAfter' = Tail(LineAfter) /\ LineBefore' = LineBefore
  <2>1. LineBefore' = Before(buf', pos) /\ LineAfter' = After(buf', pos, len - 1)
    BY <1>1, <1>2, EditingShownNext
  <2> QED BY <1>2, <1>4, <1>7, <2>1, EditingShown
<1>9. UNCHANGED <<Shown, ShownIndex, OlderLines, NewLine>>
  BY <1>1, <1>2, ListRests
<1> QED
  BY <1>8, <1>9 DEF Editor!DeleteRight

\* The character before the cursor is deleted.
LEMMA BackspaceDeletes ==
  ASSUME LineInv, Shown, EditBackspace
  PROVE  Editor!DeleteLeft
<1>1. /\ editing /\ pos > 0 /\ pos' = pos - 1 /\ len' = len - 1
      /\ buf' = [MemMove(buf, pos - 1, pos, len - pos) EXCEPT ![len - 1] = NUL]
      /\ UNCHANGED <<history_index, history, Shown>>
  BY DEF EditBackspace, Shown
<1>2. /\ Array(buf) /\ Ends(buf, len) /\ Shown = TRUE /\ len \in Nat /\ pos \in Nat /\ pos <= len
  BY <1>1, EditingTypes, ShownTypes
<1>3. /\ pos - 1 \in 0 .. len - 1 /\ pos - 1 \in 0 .. len /\ pos \in 0 .. len
      /\ (pos - 1) + 1 = pos /\ (len - (pos - 1)) - 1 = len - pos
  BY <1>1, <1>2
<1>4. Before(buf', pos - 1) = Before(buf, pos - 1) /\ After(buf', pos - 1, len - 1) = After(buf, pos, len)
  <2>1. buf' = [MemMove(buf, pos - 1, (pos - 1) + 1, len - (pos - 1) - 1) EXCEPT ![len - 1] = NUL]
    BY <1>1, <1>3
  <2> QED BY <1>1, <1>3, <2>1, RemovedShown
<1>5. Before(buf, pos) \in Seq(Char) /\ Len(Before(buf, pos)) = pos
  BY <1>2, <1>3, TextIs
<1>6. Before(buf, pos - 1) \in Seq(Char) /\ Len(Before(buf, pos - 1)) = pos - 1
  BY <1>2, <1>3, TextIs
<1>7. Before(buf, pos) # <<>>
  BY <1>1, <1>2, <1>5, EmptySeq
<1>8. Before(buf, pos - 1) = SubSeq(Before(buf, pos), 1, pos - 1)
  <2>1. \A i \in 1 .. pos - 1 : Before(buf, pos)[i] \in Char
    BY <1>2, <1>5, ElementOfSeq
  <2>2. /\ (pos - 1) - 1 + 1 = pos - 1 /\ \A i \in 1 .. pos - 1 : 1 + i - 1 = i
        /\ (~ (1 <= pos - 1) => pos - 1 = 0) /\ pos - 1 \in Int
    BY <1>1, <1>2
  <2>3. /\ SubSeq(Before(buf, pos), 1, pos - 1) \in Seq(Char)
        /\ Len(SubSeq(Before(buf, pos), 1, pos - 1)) = IF 1 <= pos - 1 THEN (pos - 1) - 1 + 1 ELSE 0
        /\ \A i \in 1 .. (pos - 1) - 1 + 1 : SubSeq(Before(buf, pos), 1, pos - 1)[i] = Before(buf, pos)[1 + i - 1]
    BY <2>1, <2>2, SubSeqProperties
  <2>4. /\ Len(SubSeq(Before(buf, pos), 1, pos - 1)) = pos - 1
        /\ \A i \in 1 .. pos - 1 : SubSeq(Before(buf, pos), 1, pos - 1)[i] = Before(buf, pos)[i]
    BY <2>2, <2>3
  <2>5. \A i \in 1 .. pos - 1 : Before(buf, pos - 1)[i] = Before(buf, pos)[i]
    BY <1>2 DEF Before
  <2> QED BY <1>6, <2>3, <2>4, <2>5, SeqEqual
<1>9. /\ LineBefore # <<>> /\ LineBefore' = SubSeq(LineBefore, 1, Len(LineBefore) - 1)
      /\ LineAfter' = LineAfter
  <2>1. LineBefore' = Before(buf', pos - 1) /\ LineAfter' = After(buf', pos - 1, len - 1)
    BY <1>1, <1>2, EditingShownNext
  <2>2. LineBefore = Before(buf, pos) /\ LineAfter = After(buf, pos, len)
    BY <1>2, EditingShown
  <2> QED BY <1>4, <1>5, <1>7, <1>8, <2>1, <2>2
<1>10. UNCHANGED <<Shown, ShownIndex, OlderLines, NewLine>>
  BY <1>1, <1>2, ListRests
<1> QED
  BY <1>9, <1>10 DEF Editor!DeleteLeft

\* A completion that fits takes the place of the line.
LEMMA CompleteReplaces ==
  ASSUME LineInv, Shown, NEW candidate \in String, Len(candidate) < buflen, EditComplete(candidate)
  PROVE  Editor!Replace
<1>1. /\ editing /\ pos' = len' /\ len' = Len(candidate)
      /\ UNCHANGED <<history_index, history, editing, Shown>>
  BY DEF EditComplete, Shown
<1>2. Shown = TRUE /\ Shown' = TRUE
  BY <1>1, ShownTypes
<1>3. /\ candidate \in Seq(Char) /\ len' \in Nat /\ len' <= buflen
      /\ \A i \in 1 .. len' : buf'[i - 1] = candidate[i]
  BY <1>1, CompleteKeeps, BuflenType, LenProperties DEF String
<1>5. Before(buf', len') = candidate
  <2>1. \A i \in 1 .. len' : candidate[i] \in Char
    BY <1>1, <1>3, ElementOfSeq
  <2>2. \A i \in 1 .. len' : buf'[i - 1] \in Char
    BY <1>3, <2>1
  <2>3. Before(buf', len') \in Seq(Char) /\ Len(Before(buf', len')) = len'
    BY <1>3, <2>2, BeforeType
  <2>4. \A i \in 1 .. len' : Before(buf', len')[i] = candidate[i]
    BY <1>3 DEF Before
  <2> QED BY <1>1, <1>3, <2>3, <2>4, SeqEqual
<1>6. After(buf', len', len') = <<>>
  <2>1. \A n \in Nat : n - n = 0
    OBVIOUS
  <2>2. len' - len' = 0
    BY <1>3, <2>1
  <2> QED BY <2>2 DEF After
<1>7. LineBefore' = candidate /\ LineAfter' = <<>>
  BY <1>1, <1>2, <1>5, <1>6, EditingShownNext
<1>8. UNCHANGED <<Shown, ShownIndex, OlderLines, NewLine>>
  BY <1>1, <1>2, ListRests
<1> QED
  BY <1>1, <1>3, <1>7, <1>8 DEF Editor!Replace, Editor!IsLine

\* The line is entered.
LEMMA EnterFinishes ==
  ASSUME LineInv, Shown, EditEnter
  PROVE  Editor!Finish
<1>1. Shown = TRUE /\ Shown' = FALSE /\ history' = Front(history)
  BY ShownTypes DEF EditEnter, Shown
<1> QED
  BY <1>1, EditingShown, IdleShownNext DEF Editor!Finish

\* The line is given up.
LEMMA LineGivenUp ==
  ASSUME LineInv, Shown, Shown' = FALSE, history' = history
  PROVE  Editor!Cancel
<1>1. Shown = TRUE /\ editing
  BY ShownTypes
<1>2. history \in Seq(Line) /\ history # <<>>
  BY <1>1, EditingTypes, EmptySeq
<1>3. history = Append(Front(history), Last(history))
  BY <1>2, FrontIs
<1> QED
  BY <1>1, <1>3, EditingShown, IdleShownNext DEF Editor!Cancel

\* So it is by the key for it, ...
LEMMA CancelCancels ==
  ASSUME LineInv, Shown, EditCancel
  PROVE  Editor!Cancel
<1>1. Shown' = FALSE /\ history' = history
  BY DEF EditCancel, Shown
<1> QED BY <1>1, LineGivenUp

\* ... and by a completion that is too long.
LEMMA LongCancels ==
  ASSUME LineInv, Shown, NEW candidate \in String, ~ (Len(candidate) < buflen), EditComplete(candidate)
  PROVE  Editor!Cancel
<1>1. Shown' = FALSE /\ history' = history
  BY DEF EditComplete, Shown
<1> QED BY <1>1, LineGivenUp

\* What is shown of a line of the history that comes back.
LEMMA CopyShown ==
  ASSUME NEW b, Array(b), NEW s \in Line
  PROVE  /\ Before(Copy(b, s), Kept(s)) = SubSeq(s, 1, Kept(s))
         /\ After(Copy(b, s), Kept(s), Kept(s)) = <<>>
<1>1. /\ Kept(s) \in Nat /\ Array(Copy(b, s)) /\ Ends(Copy(b, s), Kept(s))
      /\ \A i \in 0 .. Kept(s) - 1 : Copy(b, s)[i] = s[i + 1]
  BY CopiedIs DEF Array
<1>2. s \in Seq(Char) /\ Len(s) \in Nat /\ Kept(s) <= Len(s)
  BY LineIs, BuflenType DEF Kept
<1>3. Kept(s) \in 0 .. Kept(s)
  BY <1>1
<1>4. /\ Before(Copy(b, s), Kept(s)) \in Seq(Char) /\ Len(Before(Copy(b, s), Kept(s))) = Kept(s)
  BY <1>1, <1>3, TextIs
<1>5. \A i \in 1 .. Kept(s) : Before(Copy(b, s), Kept(s))[i] = s[i]
  <2> TAKE i \in 1 .. Kept(s)
  <2>1. i - 1 \in 0 .. Kept(s) - 1 /\ (i - 1) + 1 = i
    BY <1>1
  <2>2. Copy(b, s)[i - 1] = s[i]
    BY <1>1, <2>1
  <2> QED BY <2>2 DEF Before
<1>6. /\ SubSeq(s, 1, Kept(s)) \in Seq(Char) /\ Len(SubSeq(s, 1, Kept(s))) = Kept(s)
      /\ \A i \in 1 .. Kept(s) : SubSeq(s, 1, Kept(s))[i] = s[i]
  <2>1. \A i \in 1 .. Kept(s) : s[i] \in Char
    BY <1>1, <1>2, ElementOfSeq
  <2>2. /\ Kept(s) - 1 + 1 = Kept(s) /\ \A i \in 1 .. Kept(s) : 1 + i - 1 = i
        /\ (~ (1 <= Kept(s)) => Kept(s) = 0) /\ Kept(s) \in Int
    BY <1>1
  <2>3. /\ SubSeq(s, 1, Kept(s)) \in Seq(Char)
        /\ Len(SubSeq(s, 1, Kept(s))) = IF 1 <= Kept(s) THEN Kept(s) - 1 + 1 ELSE 0
        /\ \A i \in 1 .. Kept(s) - 1 + 1 : SubSeq(s, 1, Kept(s))[i] = s[1 + i - 1]
    BY <2>1, <2>2, SubSeqProperties
  <2> QED BY <2>2, <2>3
<1>7. After(Copy(b, s), Kept(s), Kept(s)) = <<>>
  <2>1. Kept(s) - Kept(s) = 0
    BY <1>1
  <2> QED BY <2>1 DEF After
<1> QED BY <1>4, <1>5, <1>6, <1>7, SeqEqual

\* The line that is left for another is kept: the new one apart, an older one in the list.
LEMMA SavedShown ==
  ASSUME LineInv, editing
  PROVE  /\ history_index = 0 => Front(Saved) = Front(history) /\ Last(Saved) = CString(buf)
         /\ history_index # 0 =>
              /\ Front(Saved) =
                   [Front(history) EXCEPT ![Len(Front(history)) + 1 - history_index] = CString(buf)]
              /\ Last(Saved) = Last(history)
<1>1. /\ history \in Seq(Line) /\ Len(history) \in Nat /\ history_index \in Nat
      /\ history_index < Len(history)
  BY EditingTypes
<1>2. /\ Saved \in Seq(Line) /\ Len(Saved) = Len(history) /\ Entry(history_index) \in 1 .. Len(history)
      /\ \A i \in 1 .. Len(history) :
           Saved[i] = IF i = Entry(history_index) THEN CString(buf) ELSE history[i]
  BY SavedIs DEF Histories
<1>3. Entry(history_index) = Len(history) - history_index
  BY DEF Entry
<1>4. history # <<>> /\ Saved # <<>>
  BY <1>1, <1>2, EmptySeq
<1>5. /\ Front(history) \in Seq(Line) /\ Len(Front(history)) = Len(history) - 1
      /\ \A i \in 1 .. Len(history) - 1 : Front(history)[i] = history[i]
      /\ Last(history) = history[Len(history)]
  BY <1>1, <1>4, FrontIs
<1>6. /\ Front(Saved) \in Seq(Line) /\ Len(Front(Saved)) = Len(history) - 1
      /\ \A i \in 1 .. Len(history) - 1 : Front(Saved)[i] = Saved[i]
      /\ Last(Saved) = Saved[Len(history)]
  <2>1. /\ Front(Saved) \in Seq(Line) /\ Len(Front(Saved)) = Len(Saved) - 1
        /\ \A i \in 1 .. Len(Saved) - 1 : Front(Saved)[i] = Saved[i]
        /\ Last(Saved) = Saved[Len(Saved)]
    BY <1>2, <1>4, FrontIs
  <2> QED BY <1>2, <2>1
<1>7. Len(history) \in 1 .. Len(history) /\ \A i \in 1 .. Len(history) - 1 : i \in 1 .. Len(history) /\ i # Len(history)
  BY <1>1
<1>8. ASSUME history_index = 0
      PROVE  Front(Saved) = Front(history) /\ Last(Saved) = CString(buf)
  <2>1. Entry(history_index) = Len(history)
    BY <1>1, <1>3, <1>8
  <2>2. Last(Saved) = CString(buf)
    BY <1>2, <1>6, <1>7, <2>1
  <2>3. \A i \in 1 .. Len(history) - 1 : Front(Saved)[i] = Front(history)[i]
    BY <1>2, <1>5, <1>6, <1>7, <2>1
  <2> QED BY <1>5, <1>6, <2>2, <2>3, SeqEqual
<1>9. ASSUME history_index # 0
      PROVE  /\ Front(Saved) =
                  [Front(history) EXCEPT ![Len(Front(history)) + 1 - history_index] = CString(buf)]
             /\ Last(Saved) = Last(history)
  <2>1. /\ Entry(history_index) \in 1 .. Len(history) - 1 /\ Entry(history_index) # Len(history)
        /\ Len(Front(history)) + 1 - history_index = Entry(history_index)
    BY <1>1, <1>3, <1>5, <1>9
  <2>2. Last(Saved) = Last(history)
    BY <1>2, <1>5, <1>6, <1>7, <2>1
  <2>3. CString(buf) \in Line /\ Entry(history_index) \in 1 .. Len(Front(history))
    BY <1>5, <2>1, StringType DEF LineInv
  <2> DEFINE changed == [Front(history) EXCEPT ![Entry(history_index)] = CString(buf)]
  <2>4. /\ changed \in Seq(Line) /\ Len(changed) = Len(history) - 1
        /\ \A i \in 1 .. Len(history) - 1 :
             changed[i] = IF i = Entry(history_index) THEN CString(buf) ELSE Front(history)[i]
    <3>1. /\ changed \in Seq(Line) /\ Len(changed) = Len(Front(history))
          /\ \A i \in 1 .. Len(Front(history)) :
               changed[i] = IF i = Entry(history_index) THEN CString(buf) ELSE Front(history)[i]
      BY <1>5, <2>3, ExceptSeq
    <3> QED BY <1>5, <3>1
  <2> HIDE DEF changed
  <2>5. \A i \in 1 .. Len(history) - 1 : Front(Saved)[i] = changed[i]
    BY <1>2, <1>5, <1>6, <1>7, <2>4
  <2>6. Front(Saved) = changed
    BY <1>6, <2>4, <2>5, SeqEqual
  <2> QED BY <2>1, <2>2, <2>6 DEF changed
<1> QED BY <1>8, <1>9

\* An older or a newer line is asked for.
LEMMA HistoryRecalls ==
  ASSUME LineInv, Shown, NEW step \in {1, -1}, EditHistoryNext(step)
  PROVE  Editor!Recall
<1> DEFINE next == history_index + step
           s == history[Entry(next)]
<1>1. editing /\ Shown = TRUE /\ Shown' = TRUE /\ history' = Saved
  BY ShownTypes DEF EditHistoryNext, Shown
<1>2. /\ history \in Seq(Line) /\ Len(history) \in Nat /\ history_index \in Nat
      /\ history_index < Len(history)
  BY <1>1, EditingTypes
<1>3. Array(buf) /\ history # <<>>
  BY <1>2, EmptySeq DEF LineInv
<1>4. /\ Front(history) \in Seq(Line) /\ Len(Front(history)) = Len(history) - 1
      /\ \A i \in 1 .. Len(history) - 1 : Front(history)[i] = history[i]
      /\ Last(history) = history[Len(history)]
  BY <1>2, <1>3, FrontIs
<1>5. /\ LineBefore = Before(buf, pos) /\ LineAfter = After(buf, pos, len)
      /\ ShownIndex = history_index /\ OlderLines = Front(history) /\ NewLine = Last(history)
      /\ Editor!text = CString(buf)
  BY <1>1, ShownText
<1>6. /\ LineBefore' = Before(buf', pos') /\ LineAfter' = After(buf', pos', len')
      /\ ShownIndex' = history_index' /\ OlderLines' = Front(Saved) /\ NewLine' = Last(Saved)
  BY <1>1, EditingShownNext
<1>7. Editor!Keep
  BY <1>1, <1>5, <1>6, SavedShown DEF Editor!Keep
<1>8. CASE /\ next \in 0 .. Len(history) - 1 /\ history_index' = next
           /\ buf' = Copy(buf, s) /\ len' = Len(CString(Copy(buf, s))) /\ pos' = len'
  <2>1. /\ Entry(next) \in 1 .. Len(history) /\ Entry(next) = Len(history) - next
        /\ next \in {history_index - 1, history_index + 1} /\ next \in 0 .. Len(Front(history))
    BY <1>2, <1>4, <1>8 DEF Entry
  <2>2. s \in Line
    BY <1>2, <2>1, ElementOfSeq
  <2>3. Editor!Shown(next) = s
    <3>1. CASE next = 0
      <4>1. Entry(next) = Len(history)
        BY <1>2, <2>1, <3>1
      <4> QED BY <1>4, <1>5, <3>1, <4>1 DEF Editor!Shown
    <3>2. CASE next # 0
      <4>1. /\ Len(Front(history)) + 1 - next = Entry(next) /\ Entry(next) \in 1 .. Len(history) - 1
        BY <1>2, <1>4, <1>8, <2>1, <3>2
      <4>2. Front(history)[Entry(next)] = s
        BY <1>4, <4>1
      <4>3. Editor!Shown(next) = OlderLines[Len(OlderLines) + 1 - next]
        BY <3>2 DEF Editor!Shown
      <4> QED BY <1>5, <4>1, <4>2, <4>3
    <3> QED BY <3>1, <3>2
  <2> HIDE DEF s
  <2>4. Editor!Recalled(next) = SubSeq(s, 1, Kept(s))
    BY <2>3 DEF Editor!Recalled, Kept
  <2>5. Len(CString(Copy(buf, s))) = Kept(s)
    BY <1>3, <2>2, CopiedIs DEF Array
  <2>6. LineBefore' = Editor!Recalled(next) /\ LineAfter' = <<>>
    BY <1>3, <1>6, <1>8, <2>2, <2>4, <2>5, CopyShown
  <2>7. ShownIndex' = next /\ next \in {ShownIndex - 1, ShownIndex + 1} \cap (0 .. Len(OlderLines))
    BY <1>5, <1>6, <1>8, <2>1
  <2> HIDE DEF next
  <2> QED BY <1>1, <1>7, <2>6, <2>7 DEF Editor!Recall
<1>9. CASE UNCHANGED <<buf, pos, len, history_index>>
  <2>1. UNCHANGED <<ShownIndex, LineBefore, LineAfter>>
    BY <1>5, <1>6, <1>9
  <2> QED BY <1>1, <1>7, <2>1 DEF Editor!Recall
<1>10. \/ /\ next \in 0 .. Len(history) - 1 /\ history_index' = next
          /\ buf' = Copy(buf, s) /\ len' = Len(CString(Copy(buf, s))) /\ pos' = len'
       \/ UNCHANGED <<buf, pos, len, history_index>>
  BY DEF EditHistoryNext, Copy
<1> QED BY <1>8, <1>9, <1>10

\* Between two lines the list is whatever the program makes it.
LEMMA IdleLists ==
  ASSUME Shown = FALSE, Shown' = FALSE, history' \in Histories
  PROVE  Editor!List
<1>1. /\ LineBefore = <<>> /\ LineAfter = <<>> /\ ShownIndex = 0 /\ NewLine = <<>>
      /\ LineBefore' = <<>> /\ LineAfter' = <<>> /\ ShownIndex' = 0 /\ NewLine' = <<>>
      /\ OlderLines' = history'
  BY IdleShown, IdleShownNext
<1>2. Len(history') <= LINENOISE_HISTORY_MAX_LEN /\ \A i \in DOMAIN history' : Editor!IsLine(history'[i])
  <2>1. /\ history' \in Seq(Line) /\ Len(history') <= LINENOISE_HISTORY_MAX_LEN
        /\ DOMAIN history' = 1 .. Len(history')
    BY LenProperties DEF Histories
  <2>2. ASSUME NEW i \in DOMAIN history' PROVE Editor!IsLine(history'[i])
    <3>1. history'[i] \in Line
      BY <2>1, ElementOfSeq
    <3> QED BY <3>1, LineIs DEF Editor!IsLine
  <2> QED BY <2>1, <2>2
<1> QED BY <1>1, <1>2 DEF Editor!List

\* A key is an edit of the line that is shown.
LEMMA KeyEdits ==
  ASSUME LineInv, ArgTypes, Shown, Key \/ \E line \in Candidates(CString(buf)) : EditComplete(line)
  PROVE  Editor!Edit
<1>1. Shown = TRUE
  BY ShownTypes
<1>2. CASE \E c \in Keyboard : EditInsert(c)
  BY <1>1, <1>2, CharAssumption, InsertTypes DEF Editor!Edit
<1>3. CASE \E to \in 0 .. len : EditMove(to)
  BY <1>1, <1>3, MoveMoves DEF Editor!Edit
<1>4. CASE EditDelete
  BY <1>1, <1>4, DeleteDeletes DEF Editor!Edit
<1>5. CASE EditBackspace
  BY <1>1, <1>5, BackspaceDeletes DEF Editor!Edit
<1>6. CASE EditEnter
  BY <1>1, <1>6, EnterFinishes DEF Editor!Edit
<1>7. CASE EditCancel
  BY <1>1, <1>7, CancelCancels DEF Editor!Edit
<1>8. CASE EditHistoryNext(1) \/ EditHistoryNext(-1)
  BY <1>1, <1>8, HistoryRecalls DEF Editor!Edit
<1>9. CASE \E line \in Candidates(CString(buf)) : EditComplete(line)
  <2>1. PICK line \in Candidates(CString(buf)) : EditComplete(line)
    BY <1>9
  <2>2. line \in String
    BY CandidateType
  <2>3. CASE Len(line) < buflen
    BY <1>1, <2>1, <2>2, <2>3, CompleteReplaces DEF Editor!Edit
  <2>4. CASE ~ (Len(line) < buflen)
    BY <1>1, <2>1, <2>2, <2>4, LongCancels DEF Editor!Edit
  <2> QED BY <2>3, <2>4
<1> QED
  BY <1>2, <1>3, <1>4, <1>5, <1>6, <1>7, <1>8, <1>9 DEF Key

\* No key makes a line fit again.
LEMMA KeyHides ==
  ASSUME LineInv, ~ Shown, Key \/ \E line \in Candidates(CString(buf)) : EditComplete(line)
  PROVE  Shown = FALSE /\ Shown' = FALSE
<1>1. /\ Shown = FALSE /\ (editing => fits = FALSE) /\ editing
  BY DEF LineInv, Shown, Key, EditInsert, EditMove, EditDelete, EditBackspace, EditEnter, EditCancel,
         EditHistoryNext, EditComplete
<1>2. fits' = FALSE
  BY <1>1 DEF Key, EditInsert, EditMove, EditDelete, EditBackspace, EditEnter, EditCancel,
              EditHistoryNext, EditComplete
<1> QED BY <1>1, <1>2 DEF Shown

\* What is shown rests with the line editor.
LEMMA ShownRests ==
  ASSUME UNCHANGED lineVars
  PROVE  UNCHANGED Editor!vars
BY DEF lineVars, Editor!vars, LineBefore, LineAfter, ShownIndex, OlderLines, NewLine, Shown

\* Every step of the dialogue is one of LineEditor, or changes nothing of the line.
LEMMA EditorNext ==
  ASSUME DialogueInv, [Next]_vars
  PROVE  [Editor!Next]_(Editor!vars)
<1>1. LineInv /\ ArgTypes /\ LineInv' /\ editing \in BOOLEAN /\ (editing => pc = "edit")
  BY LineNext DEF DialogueInv, LineInv
<1>2. history' \in Histories
  BY <1>1 DEF LineInv
<1>3. CASE LoadArgument \/ Look \/ Restart
  <2>1. Shown = FALSE /\ Shown' = FALSE
    BY <1>1, <1>3 DEF LoadArgument, Look, Restart, Shown
  <2> QED BY <1>2, <2>1, IdleLists DEF Editor!Next
<1>5. CASE GetArgument
  <2>1. EditStart \/ UNCHANGED lineVars
    BY <1>5 DEF GetArgument
  <2> QED BY <1>1, <2>1, StartBegins, ShownRests DEF Editor!Next
<1>6. CASE PressKey
  <2>1. Key \/ \E line \in Candidates(CString(buf)) : EditComplete(line)
    BY <1>6 DEF PressKey
  <2>2. CASE Shown
    BY <1>1, <2>1, <2>2, KeyEdits DEF Editor!Next
  <2>3. CASE ~ Shown
    BY <1>1, <1>2, <2>1, <2>3, KeyHides, IdleLists DEF Editor!Next
  <2> QED BY <2>2, <2>3
<1>7. CASE Edited \/ SaveArgument \/ DeriveName \/ End \/ UNCHANGED vars
  <2>1. UNCHANGED lineVars
    BY <1>7 DEF Edited, SaveArgument, DeriveName, End, vars
  <2> QED BY <2>1, ShownRests
<1> QED
  BY <1>3, <1>5, <1>6, <1>7 DEF Next

\* The buffer, its length and the cursor, and the history whose last entry is the line under
\* edit, are at every step of the dialogue an editor with a line, a cursor and a list of older
\* lines beside it (linenoiseEdit, linenoiseHistoryAdd, linenoiseHistoryLoad); one whose line is
\* given up when a completion is too long for the buffer (completeLine).
THEOREM EditorIsImplemented ==
  ArgsSpec => ImplementsLineEditor
<1>1. ArgsInit => Editor!Init
  <2> SUFFICES ASSUME ArgsInit PROVE Editor!Init
    OBVIOUS
  <2>1. Shown = FALSE /\ history = <<>>
    BY DEF ArgsInit, LineInit, Shown
  <2> QED BY <2>1, IdleShown DEF Editor!Init
<1>2. DialogueInv /\ [Next]_vars => [Editor!Next]_(Editor!vars)
  BY EditorNext
<1>3. ArgsSpec => []DialogueInv
  BY DialogueInvariant
<1> QED
  BY <1>1, <1>2, <1>3, PTL DEF ArgsSpec, ImplementsLineEditor, Editor!Spec

----------------------------------------------------------------------------
(* What a history file gives.                                              *)

\* Lines that do not fill the buffer are read as they are.
LEMMA ShortRead ==
  ASSUME NEW lines \in Seq(Line), \A i \in DOMAIN lines : Len(lines[i]) < buflen
  PROVE  Read(lines) = lines
<1> DEFINE seqs == [i \in 1 .. Len(lines) |-> <<lines[i]>>]
<1>1. Len(lines) \in Nat /\ DOMAIN lines = 1 .. Len(lines) /\ \A i \in 1 .. Len(lines) : lines[i] \in Line
  BY LenProperties, ElementOfSeq
<1>2. Read(lines) = FlattenSeq(seqs)
  <2>1. [i \in DOMAIN lines |-> Chunks(lines[i])] = seqs
    BY <1>1 DEF Chunks
  <2> HIDE DEF seqs
  <2> QED BY <2>1 DEF Read
<1>3. seqs \in Seq(Seq(Line)) /\ Len(seqs) = Len(lines) /\ \A i \in 1 .. Len(lines) : seqs[i] = <<lines[i]>>
  <2>1. \A i \in 1 .. Len(lines) : <<lines[i]>> \in Seq(Line)
    BY <1>1
  <2> QED BY <1>1, <2>1, IsASeq
<1> HIDE DEF seqs
<1>4. CASE lines = <<>>
  BY <1>2, <1>3, <1>4, EmptySeq DEF FlattenSeq
<1>5. CASE lines # <<>>
  <2>1. Len(lines) # 0 /\ seqs # <<>>
    BY <1>3, <1>5, EmptySeq
  <2>2. PICK f : Flat(f, seqs) /\ FlattenSeq(seqs) = f[Len(lines)]
    BY <1>3, <2>1, FlattenIs
  <2> DEFINE Upto == {n \in Nat : n \in 1 .. Len(lines) => f[n] = SubSeq(lines, 1, n)}
  <2>3. 0 \in Upto
    OBVIOUS
  <2>4. ASSUME NEW n \in Nat, n \in Upto PROVE n + 1 \in Upto
    <3> SUFFICES ASSUME n + 1 \in 1 .. Len(lines) PROVE f[n + 1] = SubSeq(lines, 1, n + 1)
      OBVIOUS
    <3>1. f[n + 1] = IF n + 1 = 1 THEN <<lines[n + 1]>> ELSE f[(n + 1) - 1] \o <<lines[n + 1]>>
      BY <1>3, <2>2 DEF Flat
    <3>2. /\ (n + 1 = 1 <=> n = 0) /\ (n + 1) - 1 = n /\ (n # 0 => n \in 1 .. Len(lines))
          /\ 1 \in 1 .. Len(lines) /\ n + 1 \in 1 .. Len(lines)
      BY <1>1
    <3>3. SubSeq(lines, 1, n + 1) = SubSeq(lines, 1, n) \o <<lines[n + 1]>>
      BY <3>2, SubSeqRecursiveSecond
    <3>4. CASE n = 0
      <4>1. SubSeq(lines, 1, 0) = <<>>
        BY SubSeqEmpty
      <4>2. <<lines[n + 1]>> \in Seq(Line)
        BY <1>1, <3>2
      <4>3. SubSeq(lines, 1, n) \o <<lines[n + 1]>> = <<lines[n + 1]>>
        BY <3>4, <4>1, <4>2, ConcatEmptySeq
      <4> QED BY <3>1, <3>2, <3>3, <3>4, <4>3
    <3>5. CASE n # 0
      BY <2>4, <3>1, <3>2, <3>3, <3>5
    <3> QED BY <3>4, <3>5
  <2>5. Nat \subseteq Upto
    <3> HIDE DEF Upto
    <3> QED BY <2>3, <2>4, Induction
  <2>6. f[Len(lines)] = SubSeq(lines, 1, Len(lines))
    BY <1>1, <2>1, <2>5
  <2> QED BY <1>2, <2>2, <2>6, SubSeqFull
<1> QED BY <1>4, <1>5

\* The lines that are not the line before, and how many of them are among the first k.
Fresh(lines) == {i \in DOMAIN lines : i = 1 \/ lines[i] # lines[i - 1]}
Count(lines, k) == Cardinality(Fresh(lines) \cap (1 .. k))

\* One more if the next line is one.
LEMMA CountSteps ==
  ASSUME NEW lines \in Seq(Line)
  PROVE  /\ Count(lines, 0) = 0
         /\ \A k \in Nat : /\ Count(lines, k) \in Nat
                           /\ Count(lines, k + 1) =
                                Count(lines, k) + (IF k + 1 \in Fresh(lines) THEN 1 ELSE 0)
                           /\ \A j \in 0 .. k : Count(lines, j) <= Count(lines, k)
         /\ Count(lines, Len(lines)) = Cardinality(Fresh(lines))
<1>1. \A k \in Int : IsFiniteSet(Fresh(lines) \cap (1 .. k))
  <2> TAKE k \in Int
  <2>1. IsFiniteSet(1 .. k)
    BY FS_Interval
  <2> QED BY <2>1, FS_Subset
<1>2. Count(lines, 0) = 0
  <2>1. Fresh(lines) \cap (1 .. 0) = {}
    OBVIOUS
  <2> QED BY <2>1, FS_EmptySet DEF Count
<1>3. ASSUME NEW k \in Nat
      PROVE  /\ Count(lines, k) \in Nat
             /\ Count(lines, k + 1) = Count(lines, k) + (IF k + 1 \in Fresh(lines) THEN 1 ELSE 0)
             /\ \A j \in 0 .. k : Count(lines, j) <= Count(lines, k)
  <2>1. Count(lines, k) \in Nat
    BY <1>1, FS_CardinalityType DEF Count
  <2>2. ASSUME k + 1 \in Fresh(lines) PROVE Count(lines, k + 1) = Count(lines, k) + 1
    <3>1. /\ Fresh(lines) \cap (1 .. k + 1) = (Fresh(lines) \cap (1 .. k)) \cup {k + 1}
          /\ k + 1 \notin Fresh(lines) \cap (1 .. k)
      BY <2>2
    <3>2. \A S : IsFiniteSet(S) /\ k + 1 \notin S => Cardinality(S \cup {k + 1}) = Cardinality(S) + 1
      BY FS_AddElement
    <3>3. Cardinality((Fresh(lines) \cap (1 .. k)) \cup {k + 1}) = Cardinality(Fresh(lines) \cap (1 .. k)) + 1
      BY <1>1, <3>1, <3>2
    <3> QED BY <3>1, <3>3 DEF Count
  <2>3. ASSUME k + 1 \notin Fresh(lines) PROVE Count(lines, k + 1) = Count(lines, k)
    <3>1. Fresh(lines) \cap (1 .. k + 1) = Fresh(lines) \cap (1 .. k)
      BY <2>3
    <3> QED BY <3>1 DEF Count
  <2>4. ASSUME NEW j \in 0 .. k PROVE Count(lines, j) <= Count(lines, k)
    <3>1. Fresh(lines) \cap (1 .. j) \in SUBSET (Fresh(lines) \cap (1 .. k))
      OBVIOUS
    <3> QED BY <1>1, <3>1, FS_Subset DEF Count
  <2>5. Count(lines, k + 1) = Count(lines, k) + (IF k + 1 \in Fresh(lines) THEN 1 ELSE 0)
    <3>1. k + 1 \in Fresh(lines) => Count(lines, k + 1) = Count(lines, k) + 1
      BY <2>2
    <3>2. k + 1 \notin Fresh(lines) => Count(lines, k + 1) = Count(lines, k) + 0
      BY <2>1, <2>3
    <3> QED BY <3>1, <3>2
  <2> QED BY <2>1, <2>4, <2>5
<1>4. Count(lines, Len(lines)) = Cardinality(Fresh(lines))
  <2>1. Fresh(lines) \cap (1 .. Len(lines)) = Fresh(lines)
    BY LenProperties DEF Fresh
  <2> QED BY <2>1 DEF Count
<1> QED BY <1>2, <1>3, <1>4

\* Such a line is found by its number.
LEMMA DistinctIs ==
  ASSUME NEW lines \in Seq(Line)
  PROVE  /\ Distinct(lines) = [i \in 1 .. Count(lines, Len(lines)) |-> Distinct(lines)[i]]
         /\ \A k \in Fresh(lines) : Distinct(lines)[Count(lines, k)] = lines[k]
<1>1. Len(lines) \in Nat /\ DOMAIN lines = 1 .. Len(lines)
  BY LenProperties
<1>2. Fresh(lines) \subseteq 1 .. Len(lines)
  BY <1>1 DEF Fresh
<1>3. Distinct(lines) =
        [i \in 1 .. Cardinality(Fresh(lines)) |->
          lines[Min({j \in Fresh(lines) : Count(lines, j) = i})]]
  BY Zenon DEF Distinct, Fresh, Count
<1>4. ASSUME NEW k \in Fresh(lines) PROVE Distinct(lines)[Count(lines, k)] = lines[k]
  <2>1. \A j \in Fresh(lines) : Count(lines, j) = Count(lines, k) => j = k
    <3>1. \A a, b \in Fresh(lines) : a < b => Count(lines, a) < Count(lines, b)
      <4> SUFFICES ASSUME NEW a \in Fresh(lines), NEW b \in Fresh(lines), a < b
                   PROVE  Count(lines, a) < Count(lines, b)
        OBVIOUS
      <4>1. b - 1 \in Nat /\ (b - 1) + 1 = b /\ a \in 0 .. b - 1 /\ a \in Nat
        BY <1>1, <1>2
      <4>2. Count(lines, a) <= Count(lines, b - 1) /\ Count(lines, b - 1) \in Nat /\ Count(lines, a) \in Nat
        BY <4>1, CountSteps
      <4>3. Count(lines, (b - 1) + 1) = Count(lines, b - 1) + 1
        BY <4>1, CountSteps
      <4> QED BY <4>1, <4>2, <4>3
    <3>2. \A j \in Fresh(lines) : j \in Nat
      BY <1>1, <1>2
    <3>3. \A j \in Fresh(lines) : Count(lines, j) \in Nat
      BY <3>2, CountSteps
    <3> QED BY <3>1, <3>2, <3>3
  <2>2. {j \in Fresh(lines) : Count(lines, j) = Count(lines, k)} = {k}
    BY <2>1
  <2>3. Min({k}) = k
    <3>1. k \in Int /\ k <= k
      BY <1>1, <1>2
    <3> QED BY <3>1 DEF Min
  <2>4. Count(lines, k) \in 1 .. Cardinality(Fresh(lines))
    <3>1. /\ k \in 0 .. Len(lines) /\ k - 1 \in Nat /\ (k - 1) + 1 = k
      BY <1>1, <1>2
    <3>2. Count(lines, k) <= Count(lines, Len(lines)) /\ Count(lines, Len(lines)) = Cardinality(Fresh(lines))
      BY <1>1, <3>1, CountSteps
    <3>3. Count(lines, (k - 1) + 1) = Count(lines, k - 1) + 1 /\ Count(lines, k - 1) \in Nat
      BY <3>1, CountSteps
    <3>4. Cardinality(Fresh(lines)) \in Nat
      BY <1>1, <3>2, CountSteps
    <3> QED BY <3>1, <3>2, <3>3, <3>4
  <2> QED BY <1>3, <2>2, <2>3, <2>4
<1>5. Distinct(lines) = [i \in 1 .. Count(lines, Len(lines)) |-> Distinct(lines)[i]]
  BY <1>3, CountSteps
<1> QED BY <1>4, <1>5

\* Each line is the last of the distinct ones so far.
LEMMA DistinctLast ==
  ASSUME NEW lines \in Seq(Line)
  PROVE  \A k \in 1 .. Len(lines) :
           Count(lines, k) \in Nat \ {0} /\ Distinct(lines)[Count(lines, k)] = lines[k]
<1>1. Len(lines) \in Nat /\ DOMAIN lines = 1 .. Len(lines)
  BY LenProperties
<1> DEFINE Upto == {n \in Nat : n \in 1 .. Len(lines) =>
                      Count(lines, n) \in Nat \ {0} /\ Distinct(lines)[Count(lines, n)] = lines[n]}
<1>2. 0 \in Upto
  OBVIOUS
<1>3. ASSUME NEW n \in Nat, n \in Upto PROVE n + 1 \in Upto
  <2> SUFFICES ASSUME n + 1 \in 1 .. Len(lines)
               PROVE  /\ Count(lines, n + 1) \in Nat \ {0}
                      /\ Distinct(lines)[Count(lines, n + 1)] = lines[n + 1]
    OBVIOUS
  <2>1. /\ Count(lines, n) \in Nat
        /\ Count(lines, n + 1) = Count(lines, n) + (IF n + 1 \in Fresh(lines) THEN 1 ELSE 0)
    BY CountSteps
  <2>2. CASE n + 1 \in Fresh(lines)
    BY <2>1, <2>2, DistinctIs
  <2>3. CASE n + 1 \notin Fresh(lines)
    <3>1. n + 1 # 1 /\ lines[n + 1] = lines[(n + 1) - 1]
      BY <1>1, <2>3 DEF Fresh
    <3>2. n \in 1 .. Len(lines) /\ (n + 1) - 1 = n
      BY <1>1, <3>1
    <3>3. Count(lines, n + 1) = Count(lines, n)
      BY <2>1, <2>3
    <3> QED BY <1>3, <3>1, <3>2, <3>3
  <2> QED BY <2>2, <2>3
<1>4. Nat \subseteq Upto
  <2> HIDE DEF Upto
  <2> QED BY <1>2, <1>3, Induction
<1> QED BY <1>1, <1>4

\* The distinct lines are lines.
LEMMA DistinctType ==
  ASSUME NEW lines \in Seq(Line)
  PROVE  /\ \A i \in 1 .. Count(lines, Len(lines)) : Distinct(lines)[i] \in Line
         /\ Len(Distinct(lines)) = Count(lines, Len(lines))
<1>1. Len(lines) \in Nat /\ \A i \in 1 .. Len(lines) : lines[i] \in Line
  BY LenProperties, ElementOfSeq
<1> DEFINE Upto == {n \in Nat : n <= Len(lines) =>
                      \A i \in 1 .. Count(lines, n) : Distinct(lines)[i] \in Line}
<1>2. 0 \in Upto
  BY CountSteps
<1>3. ASSUME NEW n \in Nat, n \in Upto PROVE n + 1 \in Upto
  <2> SUFFICES ASSUME n + 1 <= Len(lines), NEW i \in 1 .. Count(lines, n + 1)
               PROVE  Distinct(lines)[i] \in Line
    OBVIOUS
  <2>1. /\ Count(lines, n) \in Nat
        /\ Count(lines, n + 1) = Count(lines, n) + (IF n + 1 \in Fresh(lines) THEN 1 ELSE 0)
    BY CountSteps
  <2>2. n <= Len(lines) /\ n + 1 \in 1 .. Len(lines)
    BY <1>1
  <2>3. CASE i \in 1 .. Count(lines, n)
    BY <1>3, <2>2, <2>3
  <2>4. CASE i \notin 1 .. Count(lines, n)
    <3>1. i = Count(lines, n + 1)
      BY <2>1, <2>4
    <3> QED BY <1>1, <2>2, <3>1, DistinctLast
  <2> QED BY <2>3, <2>4
<1>4. Nat \subseteq Upto
  <2> HIDE DEF Upto
  <2> QED BY <1>2, <1>3, Induction
<1>5. \A i \in 1 .. Count(lines, Len(lines)) : Distinct(lines)[i] \in Line
  <2>1. Len(lines) <= Len(lines)
    BY <1>1
  <2> QED BY <1>1, <1>4, <2>1
<1>6. Len(Distinct(lines)) = Count(lines, Len(lines))
  <2>1. Count(lines, Len(lines)) \in Nat
    BY <1>1, CountSteps
  <2>2. /\ Distinct(lines) \in Seq(Line)
        /\ DOMAIN Distinct(lines) = 1 .. Count(lines, Len(lines))
    BY <1>5, <2>1, DistinctIs, IsASeq
  <2>3. Len(Distinct(lines)) \in Nat /\ 1 .. Len(Distinct(lines)) = 1 .. Count(lines, Len(lines))
    BY <2>2, LenProperties
  <2> QED BY <2>1, <2>3
<1> QED BY <1>5, <1>6

\* The history after k lines of a file: the latest of the distinct lines so far.
Held(lines, k) ==
  IF Count(lines, k) <= LINENOISE_HISTORY_MAX_LEN THEN Count(lines, k) ELSE LINENOISE_HISTORY_MAX_LEN
Holds(h, lines, k) ==
  /\ h \in Seq(Line) /\ Len(h) = Held(lines, k)
  /\ \A m \in 1 .. Len(h) : h[m] = Distinct(lines)[(Count(lines, k) - Len(h)) + m]

\* The next line is added to it.
LEMMA AddedHolds ==
  ASSUME NEW lines \in Seq(Line), NEW k \in 0 .. Len(lines) - 1, NEW h, Holds(h, lines, k)
  PROVE  Holds(Added(h, lines[k + 1]), lines, k + 1)
<1> DEFINE line == lines[k + 1]
           M == LINENOISE_HISTORY_MAX_LEN
           C == Count(lines, k)
           D == Distinct(lines)
<1>1. /\ Len(lines) \in Nat /\ DOMAIN lines = 1 .. Len(lines) /\ k \in Nat /\ k + 1 \in 1 .. Len(lines)
      /\ M \in Nat \ {0}
  BY LenProperties, HistoryAssumption
<1>2. /\ C \in Nat
      /\ Count(lines, k + 1) = C + (IF k + 1 \in Fresh(lines) THEN 1 ELSE 0)
  BY <1>1, CountSteps
<1>3. line \in Line /\ D[Count(lines, k + 1)] = line /\ Count(lines, k + 1) # 0
  BY <1>1, ElementOfSeq, DistinctLast
<1>4. /\ h \in Seq(Line) /\ Len(h) \in Nat /\ Len(h) <= M /\ Len(h) <= C
      /\ Len(h) = IF C <= M THEN C ELSE M
  BY <1>1, <1>2 DEF Holds, Held
<1>5. \A m \in 1 .. Len(h) : h[m] = D[(C - Len(h)) + m]
  BY DEF Holds
<1>6. ASSUME k # 0 PROVE h # <<>> /\ Last(h) = lines[k]
  <2>1. k \in 1 .. Len(lines)
    BY <1>1, <1>6
  <2>2. C \in Nat \ {0} /\ D[C] = lines[k]
    BY <2>1, DistinctLast
  <2>3. Len(h) # 0 /\ Len(h) \in 1 .. Len(h) /\ (C - Len(h)) + Len(h) = C
    BY <1>1, <1>4, <2>2
  <2>4. h[Len(h)] = lines[k]
    BY <1>5, <2>2, <2>3
  <2> QED BY <1>4, <2>3, <2>4, EmptySeq DEF Last
<1>7. k + 1 \in Fresh(lines) <=> ~ (h # <<>> /\ Last(h) = line)
  <2>1. CASE k = 0
    <3>1. Len(h) = 0
      BY <1>1, <1>4, <2>1, CountSteps
    <3>2. k + 1 \in Fresh(lines)
      BY <1>1, <2>1 DEF Fresh
    <3> QED BY <1>4, <3>1, <3>2, EmptySeq
  <2>2. CASE k # 0
    <3>1. (k + 1) - 1 = k /\ k + 1 # 1
      BY <1>1, <2>2
    <3>2. k + 1 \in Fresh(lines) <=> line # lines[k]
      BY <1>1, <3>1 DEF Fresh
    <3> QED BY <1>6, <2>2, <3>2
  <2> QED BY <2>1, <2>2
<1> HIDE DEF line, M, C, D
<1>8. CASE k + 1 \notin Fresh(lines)
  <2>1. Added(h, line) = h /\ Count(lines, k + 1) = C
    BY <1>2, <1>7, <1>8 DEF Added
  <2> QED BY <1>1, <2>1 DEF Holds, Held, C, line
<1>9. CASE k + 1 \in Fresh(lines)
  <2> DEFINE x == IF Len(h) = M THEN Tail(h) ELSE h
             c == C + 1
  <2>1. Added(h, line) = Append(x, line) /\ Count(lines, k + 1) = c
    BY <1>2, <1>7, <1>9 DEF Added, M
  <2>2. /\ x \in Seq(Line) /\ Len(x) \in Nat
        /\ Len(x) + 1 = IF c <= M THEN c ELSE M
        /\ \A m \in 1 .. Len(x) : x[m] = D[(c - (Len(x) + 1)) + m]
    <3>1. CASE Len(h) = M
      <4>1. h # <<>> /\ x = Tail(h) /\ C >= M
        BY <1>1, <1>2, <1>4, <3>1, EmptySeq
      <4>2. x \in Seq(Line) /\ Len(x) = Len(h) - 1 /\ \A m \in 1 .. Len(x) : x[m] = h[m + 1]
        BY <1>4, <4>1, HeadTailProperties
      <4> HIDE DEF x
      <4>3. ASSUME NEW m \in 1 .. Len(x) PROVE x[m] = D[(c - (Len(x) + 1)) + m]
        <5>1. /\ m + 1 \in 1 .. Len(h)
              /\ (C - Len(h)) + (m + 1) = (c - (Len(x) + 1)) + m
          BY <1>1, <1>2, <3>1, <4>2
        <5>2. h[m + 1] = D[(C - Len(h)) + (m + 1)]
          BY <1>5, <5>1
        <5> QED BY <4>2, <5>1, <5>2
      <4>4. Len(x) \in Nat /\ Len(x) + 1 = IF c <= M THEN c ELSE M
        BY <1>1, <1>2, <3>1, <4>1, <4>2
      <4> QED BY <4>2, <4>3, <4>4
    <3>2. CASE Len(h) # M
      <4>1. x = h /\ Len(h) = C /\ C < M
        BY <1>1, <1>2, <1>4, <3>2
      <4>2. (c - (Len(h) + 1)) = (C - Len(h)) /\ Len(h) + 1 = IF c <= M THEN c ELSE M
        BY <1>1, <1>2, <4>1
      <4> QED BY <1>4, <1>5, <4>1, <4>2
    <3> QED BY <3>1, <3>2
  <2> HIDE DEF x, c
  <2>3. /\ Append(x, line) \in Seq(Line) /\ Len(Append(x, line)) = Len(x) + 1
        /\ \A m \in 1 .. Len(x) : Append(x, line)[m] = x[m]
        /\ Append(x, line)[Len(x) + 1] = line
    BY <1>3, <2>2, AppendProperties DEF line
  <2>4. c \in Nat /\ D[c] = line
    BY <1>2, <1>3, <2>1 DEF c
  <2>5. \A m \in 1 .. Len(x) + 1 : Append(x, line)[m] = D[(c - (Len(x) + 1)) + m]
    <3> TAKE m \in 1 .. Len(x) + 1
    <3>1. CASE m \in 1 .. Len(x)
      BY <2>2, <2>3, <3>1
    <3>2. CASE m \notin 1 .. Len(x)
      <4>1. m = Len(x) + 1 /\ (c - (Len(x) + 1)) + (Len(x) + 1) = c
        BY <2>2, <2>4, <3>2
      <4> QED BY <2>3, <2>4, <4>1
    <3> QED BY <3>1, <3>2
  <2>6. Held(lines, k + 1) = IF c <= M THEN c ELSE M
    BY <2>1 DEF Held, M
  <2> QED BY <2>1, <2>2, <2>3, <2>5, <2>6 DEF Holds, D, line
<1> QED BY <1>8, <1>9

\* The greater of two numbers.
LEMMA GreaterIs ==
  ASSUME NEW a \in Int, NEW b \in Int
  PROVE  Max({a, b}) = IF a >= b THEN a ELSE b
<1> DEFINE m == IF a >= b THEN a ELSE b
<1>1. m \in {a, b} /\ \A y \in {a, b} : m >= y
  OBVIOUS
<1>2. \A x \in {a, b} : (\A y \in {a, b} : x >= y) => x = m
  OBVIOUS
<1> QED
  BY <1>1, <1>2 DEF Max

\* What a file's lines leave in the history: the latest of the distinct ones.
LEMMA LoadedIs ==
  ASSUME NEW lines \in Seq(Line)
  PROVE  AddedAll(<<>>, lines) = Latest(Distinct(lines))
<1> DEFINE M == LINENOISE_HISTORY_MAX_LEN
           C == Count(lines, Len(lines))
           D == Distinct(lines)
<1>1. Len(lines) \in Nat /\ M \in Nat \ {0} /\ C \in Nat
  BY LenProperties, HistoryAssumption, CountSteps
<1>2. \A v \in Histories, x \in Line : Added(v, x) \in Histories
  BY AddedIs
<1>0. <<>> \in Histories
  BY EmptySeq, HistoryAssumption DEF Histories
<1>3. PICK g : Chain(g, Histories, <<>>, lines)
  BY <1>0, <1>2, AddedFold
<1> DEFINE Upto == {n \in Nat : n <= Len(lines) => Holds(g[n], lines, n)}
<1>4. 0 \in Upto
  <2>1. Held(lines, 0) = 0
    BY HistoryAssumption, CountSteps DEF Held
  <2>2. Holds(<<>>, lines, 0)
    BY <2>1, EmptySeq DEF Holds
  <2> QED BY <1>3, <2>2 DEF Chain
<1>5. ASSUME NEW n \in Nat, n \in Upto PROVE n + 1 \in Upto
  <2> SUFFICES ASSUME n + 1 <= Len(lines) PROVE Holds(g[n + 1], lines, n + 1)
    OBVIOUS
  <2>1. n \in 0 .. Len(lines) - 1 /\ n <= Len(lines)
    BY <1>1
  <2>2. Holds(g[n], lines, n) /\ g[n + 1] = Added(g[n], lines[n + 1])
    BY <1>3, <1>5, <2>1 DEF Chain
  <2> QED BY <2>1, <2>2, AddedHolds
<1>6. Nat \subseteq Upto
  <2> HIDE DEF Upto
  <2> QED BY <1>4, <1>5, Induction
<1> DEFINE h == AddedAll(<<>>, lines)
<1>7. Holds(h, lines, Len(lines))
  <2>1. Len(lines) <= Len(lines)
    BY <1>1
  <2> QED BY <1>1, <1>3, <1>6, <2>1 DEF Chain
<1>8. (\A i \in 1 .. C : D[i] \in Line) /\ Len(D) = C
  BY DistinctType
<1> HIDE DEF h, M, C, D
<1>9. /\ h \in Seq(Line) /\ Len(h) = (IF C <= M THEN C ELSE M)
      /\ \A m \in 1 .. Len(h) : h[m] = D[(C - Len(h)) + m]
  BY <1>7 DEF Holds, Held, C, D, M
<1> DEFINE first == IF C - M + 1 > 1 THEN C - M + 1 ELSE 1
<1>10. Latest(D) = SubSeq(D, first, C)
  <2>1. Max({1, C - M + 1}) = IF 1 >= C - M + 1 THEN 1 ELSE C - M + 1
    BY <1>1, GreaterIs
  <2>2. Max({1, C - M + 1}) = first
    BY <1>1, <2>1
  <2> HIDE DEF first
  <2> QED BY <1>8, <2>2 DEF Latest, M
<1>11. first \in Int /\ first >= 1 /\ C - first + 1 = Len(h) /\ first - 1 = C - Len(h)
  BY <1>1, <1>9
<1> HIDE DEF first
<1>12. /\ SubSeq(D, first, C) \in Seq(Line)
       /\ Len(SubSeq(D, first, C)) = IF first <= C THEN C - first + 1 ELSE 0
       /\ \A i \in 1 .. C - first + 1 : SubSeq(D, first, C)[i] = D[first + i - 1]
  <2>1. \A i \in first .. C : D[i] \in Line
    BY <1>1, <1>8, <1>11
  <2> QED BY <1>1, <1>11, <2>1, SubSeqProperties
<1>13. Len(SubSeq(D, first, C)) = Len(h)
  <2>1. Len(h) \in Nat /\ (~ (first <= C) => Len(h) = 0)
    BY <1>1, <1>9, <1>11
  <2> QED BY <1>11, <1>12, <2>1
<1>14. \A i \in 1 .. Len(h) : SubSeq(D, first, C)[i] = h[i]
  <2> TAKE i \in 1 .. Len(h)
  <2>1. first + i - 1 = (C - Len(h)) + i
    BY <1>1, <1>9, <1>11
  <2> QED BY <1>9, <1>11, <1>12, <2>1
<1>15. h = SubSeq(D, first, C)
  BY <1>9, <1>12, <1>13, <1>14, SeqEqual
<1> QED BY <1>10, <1>15 DEF h, D

\* A history file comes back in order, as much of it as the history holds, whatever the lines
\* are and however many (linenoiseHistorySave, linenoiseHistoryLoad, linenoiseHistoryAdd).
THEOREM HistoryIsLoaded == ArgsSpec => HistoryComesBack
<1>1. ASSUME DialogueInv, [Next]_vars, pc = "load", pc' = "ask",
             \A i \in DOMAIN disk[kind] : Len(disk[kind][i]) < buflen
      PROVE  history' = Latest(Distinct(disk[kind]))
  <2>1. LoadArgument
    BY <1>1 DEF Next, GetArgument, PressKey, Edited, Look, SaveArgument, DeriveName, End, Restart,
                vars, argsVars
  <2>2. disk[kind] \in Seq(Line)
    BY <1>1 DEF DialogueInv, ArgTypes
  <2>3. history' = AddedAll(<<>>, Read(disk[kind]))
    BY <2>1, Zenon DEF LoadArgument, HistoryLoad, AddedAll
  <2> QED BY <1>1, <2>2, <2>3, ShortRead, LoadedIs
<1>2. ASSUME DialogueInv, [Next]_vars
      PROVE  [pc = "load" /\ pc' = "ask" /\ (\A i \in DOMAIN disk[kind] : Len(disk[kind][i]) < buflen)
               => history' = Latest(Distinct(disk[kind]))]_vars
  BY <1>1, <1>2
<1>3. ArgsSpec => []DialogueInv
  BY DialogueInvariant
<1> QED
  BY <1>2, <1>3, PTL DEF ArgsSpec, HistoryComesBack
=============================================================================
