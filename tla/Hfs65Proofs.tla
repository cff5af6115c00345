---------------------------- MODULE Hfs65Proofs ----------------------------
(***************************************************************************)
(* Proofs about the file server: that HfsInv is invariant, and with it     *)
(* every safety property of Hfs65, for all requests, drives, directories,  *)
(* files, texts and sizes of the buffers, whatever the clients do.         *)
(***************************************************************************)
EXTENDS Hfs65Invariant, SequenceTheorems, WellFoundedInduction, TLAPS

----------------------------------------------------------------------------
(* Sequences.                                                              *)

\* What does not hold of all numbers fails first at one of them.
LEMMA FirstExists ==
  ASSUME NEW S \in SUBSET Nat, S # {}
  PROVE  \E i \in S : \A j \in S : i <= j
<1>1. IsWellFoundedOn(OpToRel(<, Nat), Nat)
  BY NatLessThanWellFounded
<1>2. PICK i \in S : \A j \in S : ~(<<j, i>> \in OpToRel(<, Nat))
  BY <1>1, WFMin
<1>3. \A j \in S : ~(j < i)
  BY <1>2 DEF OpToRel
<1> QED BY <1>3

\* Induction, over a set.
LEMMA Induction ==
  ASSUME NEW S, 0 \in S, \A n \in Nat : n \in S => n + 1 \in S
  PROVE  Nat \subseteq S
<1> SUFFICES ASSUME Nat \ S # {} PROVE FALSE
  OBVIOUS
<1>1. PICK n \in Nat \ S : \A m \in Nat \ S : n <= m
  BY FirstExists
<1>2. n - 1 \in Nat /\ n - 1 \in S /\ (n - 1) + 1 = n
  <2>1. n # 0
    OBVIOUS
  <2>2. n - 1 \in Nat /\ ~ (n <= n - 1)
    BY <2>1
  <2> QED BY <1>1, <2>2
<1> QED BY <1>2

\* A prefix is what something can be added to.
LEMMA PrefixIsConcat ==
  ASSUME NEW S, NEW s \in Seq(S), NEW t \in Seq(S)
  PROVE  IsPrefix(s, s \o t)
<1>1. Len(s \o t) = Len(s) + Len(t) /\ Len(s) \in Nat /\ Len(t) \in Nat
  BY ConcatProperties, LenProperties
<1>2. CASE s = <<>>
  <2>1. SubSeq(s, 1, Len(s)) = <<>> /\ SubSeq(s \o t, 1, Len(s)) = <<>>
    BY <1>2, SubSeqEmpty, EmptySeq
  <2> QED
    BY <1>1, <2>1 DEF IsPrefix
<1>3. CASE s # <<>>
  <2>1. Len(s) \in 1 .. Len(s)
    BY <1>1, <1>3, EmptySeq
  <2>2. 1 \in 1 .. Len(s)
    BY <2>1
  <2>3. SubSeq(s \o t, 1, Len(s)) = SubSeq(s, 1, Len(s))
    BY <2>1, <2>2, SubSeqOfConcat1
  <2> QED
    BY <1>1, <2>3 DEF IsPrefix
<1> QED BY <1>2, <1>3

\* The recursion of FlattenSeq.
Flat(f, seqs) ==
  f = [i \in 1 .. Len(seqs) |-> IF i = 1 THEN seqs[i] ELSE f[i - 1] \o seqs[i]]

\* The concatenations of the first elements exist.
LEMMA FlatExists ==
  ASSUME NEW S, NEW seqs \in Seq(Seq(S))
  PROVE  \E f : Flat(f, seqs)
<1> DEFINE Step(f, i) == IF i = 1 THEN seqs[i] ELSE f[i - 1] \o seqs[i]
           Good(n, f) == f \in [1 .. n -> Seq(S)] /\ \A i \in 1 .. n : f[i] = Step(f, i)
           Upto == {n \in Nat : n <= Len(seqs) => \E f : Good(n, f)}
<1>1. Len(seqs) \in Nat /\ \A i \in 1 .. Len(seqs) : seqs[i] \in Seq(S)
  BY LenProperties, ElementOfSeq
<1>2. 0 \in Upto
  <2>1. [i \in 1 .. 0 |-> <<>>] \in [1 .. 0 -> Seq(S)]
    OBVIOUS
  <2>2. Good(0, [i \in 1 .. 0 |-> <<>>])
    BY <2>1
  <2> HIDE DEF Good
  <2> QED BY <2>2
<1>3. ASSUME NEW n \in Nat, n \in Upto PROVE n + 1 \in Upto
  <2> HIDE DEF Good
  <2> SUFFICES ASSUME n + 1 <= Len(seqs) PROVE \E f : Good(n + 1, f)
    OBVIOUS
  <2> USE DEF Good
  <2>1. PICK f : Good(n, f)
    <3> HIDE DEF Good
    <3> QED BY <1>1, <1>3
  <2>2. Step(f, n + 1) \in Seq(S)
    <3>1. seqs[n + 1] \in Seq(S)
      BY <1>1
    <3>2. n # 0 => f[n] \in Seq(S)
      BY <2>1
    <3> QED BY <3>1, <3>2, ConcatProperties
  <2> DEFINE g == [i \in 1 .. n + 1 |-> IF i = n + 1 THEN Step(f, n + 1) ELSE f[i]]
  <2>3. \A i \in 1 .. n + 1 : i = n + 1 \/ i \in 1 .. n
    OBVIOUS
  <2>4. g \in [1 .. n + 1 -> Seq(S)]
    <3> HIDE DEF Step
    <3> QED BY <2>1, <2>2, <2>3
  <2>5. \A i \in 1 .. n + 1 : g[i] = Step(g, i)
    <3> TAKE i \in 1 .. n + 1
    <3>1. i # 1 => i - 1 \in 1 .. n + 1 /\ i - 1 # n + 1
      OBVIOUS
    <3>2. i # 1 => g[i - 1] = f[i - 1]
      <4> HIDE DEF Step
      <4> QED BY <3>1
    <3>3. Step(g, i) = Step(f, i)
      BY <3>2
    <3>4. g[i] = Step(f, i)
      <4>1. i \in 1 .. n => f[i] = Step(f, i)
        BY <2>1
      <4> HIDE DEF Step
      <4> QED BY <2>3, <4>1
    <3> QED BY <3>3, <3>4
  <2>6. Good(n + 1, g)
    BY <2>4, <2>5
  <2> HIDE DEF Good
  <2> QED BY <2>6
<1>4. Len(seqs) \in Upto
  <2> HIDE DEF Upto
  <2> QED BY <1>1, <1>2, <1>3, Induction
<1>5. PICK f : Good(Len(seqs), f)
  <2> HIDE DEF Good
  <2> QED BY <1>1, <1>4
<1>6. f = [i \in 1 .. Len(seqs) |-> Step(f, i)]
  BY <1>5
<1> QED BY <1>6 DEF Flat

\* FlattenSeq is the last of them.
LEMMA FlattenIs ==
  ASSUME NEW S, NEW seqs \in Seq(Seq(S)), seqs # <<>>
  PROVE  \E f : Flat(f, seqs) /\ FlattenSeq(seqs) = f[Len(seqs)]
<1>1. Len(seqs) # 0
  BY EmptySeq
<1>2. FlattenSeq(seqs) = (CHOOSE f : Flat(f, seqs))[Len(seqs)]
  BY <1>1, Zenon DEF FlattenSeq, Flat
<1> QED BY <1>2, FlatExists

\* What has been put together of the first elements is a sequence.
LEMMA FlatType ==
  ASSUME NEW S, NEW seqs \in Seq(Seq(S)), NEW f, Flat(f, seqs)
  PROVE  \A i \in 1 .. Len(seqs) : f[i] \in Seq(S)
<1> DEFINE Upto == {n \in Nat : n \in 1 .. Len(seqs) => f[n] \in Seq(S)}
<1>1. Len(seqs) \in Nat /\ \A i \in 1 .. Len(seqs) : seqs[i] \in Seq(S)
  BY LenProperties, ElementOfSeq
<1>2. 0 \in Upto
  OBVIOUS
<1>3. ASSUME NEW n \in Nat, n \in Upto PROVE n + 1 \in Upto
  <2> SUFFICES ASSUME n + 1 \in 1 .. Len(seqs) PROVE f[n + 1] \in Seq(S)
    OBVIOUS
  <2>1. f[n + 1] = IF n + 1 = 1 THEN seqs[n + 1] ELSE f[(n + 1) - 1] \o seqs[n + 1]
    BY DEF Flat
  <2>2. (n + 1 = 1 <=> n = 0) /\ (n + 1) - 1 = n /\ (n # 0 => n \in 1 .. Len(seqs))
    BY <1>1
  <2>3. seqs[n + 1] \in Seq(S) /\ (n # 0 => f[n] \in Seq(S))
    BY <1>1, <1>3, <2>2
  <2> QED BY <2>1, <2>2, <2>3, ConcatProperties
<1>4. Nat \subseteq Upto
  <2> HIDE DEF Upto
  <2> QED BY <1>2, <1>3, Induction
<1> QED BY <1>1, <1>4

\* Flattening gives elements of the elements.
LEMMA FlattenType ==
  ASSUME NEW S, NEW seqs \in Seq(Seq(S))
  PROVE  FlattenSeq(seqs) \in Seq(S)
<1>1. CASE seqs = <<>>
  BY <1>1, EmptySeq DEF FlattenSeq
<1>2. CASE seqs # <<>>
  <2>1. PICK f : Flat(f, seqs) /\ FlattenSeq(seqs) = f[Len(seqs)]
    BY <1>2, FlattenIs
  <2>2. Len(seqs) \in 1 .. Len(seqs)
    BY <1>2, EmptySeq
  <2> QED BY <2>1, <2>2, FlatType
<1> QED BY <1>1, <1>2

\* Nothing is flattened to nothing.
LEMMA FlattenEmpty == FlattenSeq(<<>>) = <<>>
BY EmptySeq DEF FlattenSeq

\* The first element comes first.
LEMMA FlattenHead ==
  ASSUME NEW S
  PROVE  \A seqs \in Seq(Seq(S)) :
           seqs # <<>> => FlattenSeq(seqs) = Head(seqs) \o FlattenSeq(Tail(seqs))
<1>1. \A a, b, c \in Seq(S) : (a \o b) \o c = a \o (b \o c)
  BY ConcatAssociative
<1> SUFFICES ASSUME NEW seqs \in Seq(Seq(S)), seqs # <<>>
             PROVE  FlattenSeq(seqs) = Head(seqs) \o FlattenSeq(Tail(seqs))
  OBVIOUS
<1> DEFINE x == Head(seqs)
           rest == Tail(seqs)
<1>2. /\ x \in Seq(S) /\ rest \in Seq(Seq(S)) /\ x = seqs[1]
      /\ Len(seqs) \in Nat /\ Len(seqs) # 0 /\ Len(rest) = Len(seqs) - 1
      /\ \A i \in 1 .. Len(rest) : rest[i] = seqs[i + 1]
  BY HeadTailProperties, EmptySeq
<1> HIDE DEF x, rest
<1>3. PICK f : Flat(f, seqs) /\ FlattenSeq(seqs) = f[Len(seqs)]
  BY FlattenIs
<1>4. f[1] = x /\ \A i \in 1 .. Len(rest) : f[i + 1] = f[i] \o rest[i]
  <2>1. f[1] = x
    BY <1>2, <1>3 DEF Flat
  <2>2. ASSUME NEW i \in 1 .. Len(rest) PROVE f[i + 1] = f[i] \o rest[i]
    <3>1. i + 1 \in 1 .. Len(seqs) /\ i + 1 # 1 /\ (i + 1) - 1 = i
      BY <1>2
    <3> QED BY <1>2, <1>3, <3>1 DEF Flat
  <2> QED BY <2>1, <2>2
<1>5. CASE rest = <<>>
  <2>1. Len(seqs) = 1
    BY <1>2, <1>5, EmptySeq
  <2>2. FlattenSeq(seqs) = x \o <<>>
    BY <1>2, <1>3, <1>4, <2>1, ConcatEmptySeq
  <2> QED BY <1>5, <2>2, FlattenEmpty DEF x, rest
<1>6. CASE rest # <<>>
  <2>1. PICK h : Flat(h, rest) /\ FlattenSeq(rest) = h[Len(rest)]
    BY <1>2, <1>6, FlattenIs
  <2>2. \A i \in 1 .. Len(rest) : h[i] \in Seq(S) /\ rest[i] \in Seq(S)
    BY <1>2, <2>1, FlatType, ElementOfSeq
  <2> DEFINE Upto == {n \in Nat : n \in 1 .. Len(rest) => f[n + 1] = x \o h[n]}
  <2>3. 0 \in Upto
    OBVIOUS
  <2>4. ASSUME NEW n \in Nat, n \in Upto PROVE n + 1 \in Upto
    <3> SUFFICES ASSUME n + 1 \in 1 .. Len(rest) PROVE f[(n + 1) + 1] = x \o h[n + 1]
      OBVIOUS
    <3>1. f[(n + 1) + 1] = f[n + 1] \o rest[n + 1]
      BY <1>4
    <3>2. CASE n = 0
      <4>1. h[n + 1] = rest[n + 1]
        BY <2>1, <3>2 DEF Flat
      <4>2. f[n + 1] = x
        BY <1>4, <3>2
      <4> QED BY <3>1, <4>1, <4>2
    <3>3. CASE n # 0
      <4>1. n \in 1 .. Len(rest) /\ n + 1 # 1 /\ (n + 1) - 1 = n
        BY <1>2, <3>3
      <4>2. h[n + 1] = h[n] \o rest[n + 1]
        BY <2>1, <4>1 DEF Flat
      <4>3. f[n + 1] = x \o h[n]
        BY <2>4, <4>1
      <4>4. h[n] \in Seq(S) /\ rest[n + 1] \in Seq(S)
        BY <2>2, <4>1
      <4> DEFINE a == h[n]
                 b == rest[n + 1]
      <4>5. x \in Seq(S) /\ a \in Seq(S) /\ b \in Seq(S)
        BY <1>2, <4>4
      <4> HIDE DEF a, b
      <4>6. (x \o a) \o b = x \o (a \o b)
        BY <1>1, <4>5, Zenon
      <4> QED BY <3>1, <4>2, <4>3, <4>6 DEF a, b
    <3> QED BY <3>2, <3>3
  <2>5. Nat \subseteq Upto
    <3> HIDE DEF Upto
    <3> QED BY <2>3, <2>4, Induction
  <2>6. Len(rest) \in Nat /\ Len(rest) \in 1 .. Len(rest) /\ Len(rest) + 1 = Len(seqs)
    BY <1>2, <1>6, EmptySeq
  <2>7. f[Len(rest) + 1] = x \o h[Len(rest)]
    BY <2>5, <2>6
  <2> QED BY <1>3, <2>1, <2>6, <2>7 DEF x, rest
<1> QED BY <1>5, <1>6

\* The number of pieces: all but the last are full.
LEMMA PieceCount ==
  ASSUME NEW len \in Nat, NEW size \in Nat \ {0}
  PROVE  LET n == (len + size - 1) \div size
         IN  /\ n \in Nat /\ len <= n * size /\ n * size < len + size
             /\ n = 0 <=> len = 0
<1> DEFINE all == len + size - 1
           n == all \div size
<1>1. all \in Nat
  OBVIOUS
<1>2. n \in Int /\ n * size <= all /\ all < n * size + size
  BY <1>1
<1> HIDE DEF n
<1>3. len <= n * size /\ n * size < len + size
  BY <1>2
<1>4. n >= 0
  <2>1. n < 0 => n * size <= (-1) * size
    BY <1>2
  <2> QED BY <1>2, <1>3, <2>1
<1>5. n # 0 => n * size >= size
  BY <1>2, <1>4
<1>6. n = 0 => n * size = 0
  OBVIOUS
<1>7. n = 0 <=> len = 0
  BY <1>2, <1>3, <1>5, <1>6
<1> QED BY <1>2, <1>3, <1>4, <1>7 DEF n

\* The pieces of a file make up the file.
LEMMA FlattenPieces ==
  ASSUME NEW S, NEW data \in Seq(S), BufSize \in Nat \ {0}
  PROVE  /\ Pieces(data) \in Seq(Seq(S)) /\ FlattenSeq(Pieces(data)) = data
         /\ Pieces(data) = <<>> <=> data = <<>>
<1> DEFINE len == Len(data)
           count == (len + BufSize - 1) \div BufSize
           upto(k) == IF k * BufSize < len THEN k * BufSize ELSE len
<1>1. len \in Nat /\ \A i \in 1 .. len : data[i] \in S
  BY LenProperties, ElementOfSeq
<1>2. count \in Nat /\ len <= count * BufSize /\ count * BufSize < len + BufSize /\ (count = 0 <=> len = 0)
  BY <1>1, PieceCount
<1>3. Pieces(data) = [k \in 1 .. count |-> SubSeq(data, (k - 1) * BufSize + 1, upto(k))]
  BY DEF Pieces
<1> HIDE DEF len, count
<1>4. ASSUME NEW k \in 0 .. count
      PROVE  /\ k * BufSize \in Nat /\ upto(k) \in 0 .. len
             /\ k < count => k * BufSize < len /\ k * BufSize <= upto(k + 1)
  <2>1. k * BufSize \in Nat /\ (k + 1) * BufSize = k * BufSize + BufSize
    BY <1>2
  <2>2. ASSUME k < count PROVE k * BufSize < len
    <3>1. PICK d \in Nat : count = k + 1 + d
      <4>1. count - k - 1 \in Nat /\ count = k + 1 + (count - k - 1)
        BY <1>2, <2>2
      <4> QED BY <4>1
    <3>2. count * BufSize = k * BufSize + BufSize + d * BufSize /\ d * BufSize >= 0
      BY <3>1
    <3> QED BY <1>1, <1>2, <2>1, <3>2
  <2> QED BY <1>1, <2>1, <2>2
<1>5. \A k \in 1 .. count : SubSeq(data, (k - 1) * BufSize + 1, upto(k)) \in Seq(S)
  <2> TAKE k \in 1 .. count
  <2>1. k - 1 \in 0 .. count /\ k \in 0 .. count
    BY <1>2
  <2>2. (k - 1) * BufSize \in Nat /\ upto(k) \in 0 .. len
    BY <1>4, <2>1
  <2> DEFINE from == (k - 1) * BufSize + 1
             to == upto(k)
  <2>3. from \in Int /\ from >= 1 /\ to \in Int /\ to <= len
    BY <1>1, <2>2
  <2> HIDE DEF from, to
  <2>4. \A i \in from .. to : data[i] \in S
    BY <1>1, <2>3
  <2>5. SubSeq(data, from, to) \in Seq(S)
    BY <2>3, <2>4, SubSeqProperties
  <2> QED BY <2>5 DEF from, to
<1>6. Pieces(data) \in Seq(Seq(S)) /\ Len(Pieces(data)) = count
  <2> DEFINE piece(k) == SubSeq(data, (k - 1) * BufSize + 1, upto(k))
  <2> HIDE DEF piece
  <2>1. \A k \in 1 .. count : piece(k) \in Seq(S)
    BY <1>5 DEF piece
  <2>2. Pieces(data) = [k \in 1 .. count |-> piece(k)]
    BY <1>3 DEF piece
  <2> QED BY <1>2, <2>1, <2>2
<1>7. Pieces(data) = <<>> <=> data = <<>>
  <2>1. Pieces(data) = <<>> <=> count = 0
    BY <1>6, EmptySeq
  <2>2. data = <<>> <=> len = 0
    BY EmptySeq DEF len
  <2> QED BY <1>2, <2>1, <2>2
<1>8. ASSUME Pieces(data) # <<>> PROVE FlattenSeq(Pieces(data)) = data
  <2>1. PICK f : Flat(f, Pieces(data)) /\ FlattenSeq(Pieces(data)) = f[count]
    BY <1>6, <1>8, FlattenIs
  <2>2. \A k \in 1 .. count :
          f[k] = IF k = 1 THEN SubSeq(data, (k - 1) * BufSize + 1, upto(k))
                 ELSE f[k - 1] \o SubSeq(data, (k - 1) * BufSize + 1, upto(k))
    BY <1>3, <1>6, <2>1 DEF Flat
  <2> DEFINE Upto == {n \in Nat : n \in 1 .. count => f[n] = SubSeq(data, 1, upto(n))}
  <2>3. 0 \in Upto
    OBVIOUS
  <2>4. ASSUME NEW n \in Nat, n \in Upto PROVE n + 1 \in Upto
    <3> HIDE DEF upto
    <3> SUFFICES ASSUME n + 1 \in 1 .. count PROVE f[n + 1] = SubSeq(data, 1, upto(n + 1))
      OBVIOUS
    <3>1. (n + 1) - 1 = n /\ (n + 1 = 1 <=> n = 0) /\ n \in 0 .. count /\ n < count /\ n + 1 \in 0 .. count
      BY <1>2
    <3>2. n * BufSize < len /\ n * BufSize <= upto(n + 1) /\ n * BufSize \in Nat /\ upto(n + 1) \in 0 .. len
      BY <1>4, <3>1
    <3>3. CASE n = 0
      <4>1. n * BufSize + 1 = 1
        BY <3>3
      <4> QED BY <2>2, <3>1, <3>3, <4>1
    <3>4. CASE n # 0
      <4>1. n \in 1 .. count
        BY <3>1, <3>4
      <4>2. f[n] = SubSeq(data, 1, n * BufSize)
        <5>1. upto(n) = n * BufSize
          BY <3>2 DEF upto
        <5> QED BY <2>4, <4>1, <5>1
      <4>3. f[n + 1] = SubSeq(data, 1, n * BufSize) \o SubSeq(data, n * BufSize + 1, upto(n + 1))
        BY <2>2, <3>1, <3>4, <4>2
      <4> DEFINE k == n * BufSize
                 m == upto(n + 1)
      <4>4. k \in 0 .. len /\ m \in k .. len /\ 1 \in 1 .. len + 1 /\ k \in 1 - 1 .. len
        BY <1>1, <3>2
      <4> HIDE DEF k, m
      <4>5. SubSeq(data, 1, k) \o SubSeq(data, k + 1, m) = SubSeq(data, 1, m)
        BY <4>4, ConcatAdjacentSubSeq DEF len
      <4> QED BY <4>3, <4>5 DEF k, m
    <3> QED BY <3>3, <3>4
  <2>5. Nat \subseteq Upto
    <3> HIDE DEF Upto
    <3> QED BY <2>3, <2>4, Induction
  <2>6. count \in 1 .. count
    BY <1>2, <1>6, <1>8, EmptySeq
  <2>7. f[count] = SubSeq(data, 1, upto(count))
    BY <2>5, <2>6
  <2>8. upto(count) = len
    BY <1>1, <1>2
  <2>9. SubSeq(data, 1, len) = data
    BY SubSeqFull DEF len
  <2> QED BY <2>1, <2>7, <2>8, <2>9
<1>9. ASSUME Pieces(data) = <<>> PROVE FlattenSeq(Pieces(data)) = data
  BY <1>7, <1>9, FlattenEmpty
<1> QED BY <1>6, <1>7, <1>8, <1>9
\* strrchr finds the last such word, if there is one.
LEMMA LastOfIs ==
  ASSUME NEW S, NEW s \in Seq(S), NEW word
  PROVE  \/ LastOf(word, s) = 0 /\ \A j \in 1 .. Len(s) : s[j] # word
         \/ /\ LastOf(word, s) \in 1 .. Len(s) /\ s[LastOf(word, s)] = word
            /\ \A j \in LastOf(word, s) + 1 .. Len(s) : s[j] # word
<1>1. Len(s) \in Nat /\ DOMAIN s = 1 .. Len(s)
  BY LenProperties
<1>2. CASE \A j \in 1 .. Len(s) : s[j] # word
  BY <1>1, <1>2 DEF LastOf
<1>3. CASE \E j \in 1 .. Len(s) : s[j] = word
  <2> DEFINE Behind == {k \in Nat : k < Len(s) /\ s[Len(s) - k] = word}
             Is(i) == s[i] = word /\ \A j \in i + 1 .. Len(s) : s[j] # word
  <2>1. PICK j \in 1 .. Len(s) : s[j] = word
    BY <1>3
  <2>2. Len(s) - j \in Behind
    <3>1. Len(s) - j \in Nat /\ Len(s) - j < Len(s) /\ Len(s) - (Len(s) - j) = j
      BY <1>1
    <3> QED BY <2>1, <3>1
  <2>3. PICK k \in Behind : \A m \in Behind : k <= m
    BY <2>2, FirstExists
  <2>4. Len(s) - k \in 1 .. Len(s)
    BY <1>1, <2>3
  <2>5. Is(Len(s) - k)
    <3> SUFFICES ASSUME NEW i \in (Len(s) - k) + 1 .. Len(s), s[i] = word PROVE FALSE
      BY <2>3
    <3>1. Len(s) - i \in Nat /\ Len(s) - i < Len(s) /\ Len(s) - (Len(s) - i) = i /\ Len(s) - i < k
      BY <1>1, <2>3
    <3>2. Len(s) - i \in Behind
      BY <3>1
    <3> QED BY <2>3, <3>1, <3>2
  <2>6. LastOf(word, s) = CHOOSE i \in 1 .. Len(s) : Is(i)
    BY <1>1, <1>3 DEF LastOf
  <2>7. LastOf(word, s) \in 1 .. Len(s) /\ Is(LastOf(word, s))
    <3> HIDE DEF Is
    <3> QED BY <2>4, <2>5, <2>6
  <2> QED BY <2>7
<1> QED BY <1>2, <1>3

\* What is behind a place in a sequence.
LEMMA RangeBehind ==
  ASSUME NEW S, NEW s \in Seq(S), NEW i \in 0 .. Len(s), NEW word
  PROVE  word \in Range(SubSeq(s, i + 1, Len(s))) <=> \E j \in i + 1 .. Len(s) : s[j] = word
<1> DEFINE t == SubSeq(s, i + 1, Len(s))
<1>1. Len(s) \in Nat /\ \A j \in 1 .. Len(s) : s[j] \in S
  BY LenProperties, ElementOfSeq
<1>2. \A j \in i + 1 .. Len(s) : s[j] \in S
  <2> TAKE j \in i + 1 .. Len(s)
  <2>1. j \in 1 .. Len(s)
    BY <1>1
  <2> QED BY <1>1, <2>1
<1>3. /\ t \in Seq(S) /\ Len(t) = Len(s) - i
      /\ \A j \in 1 .. Len(s) - i : t[j] = s[i + j]
  <2> DEFINE m == i + 1
             n == Len(s)
  <2>1. m \in Int /\ n \in Int /\ \A j \in m .. n : s[j] \in S
    BY <1>1, <1>2
  <2>2. n - m + 1 = Len(s) - i /\ (m <= n <=> Len(s) - i > 0) /\ n - i >= 0
    BY <1>1
  <2>3. \A j \in 1 .. Len(s) - i : m + j - 1 = i + j
    BY <1>1
  <2> HIDE DEF m, n
  <2>4. /\ SubSeq(s, m, n) \in Seq(S) /\ Len(SubSeq(s, m, n)) = IF m <= n THEN n - m + 1 ELSE 0
        /\ \A j \in 1 .. n - m + 1 : SubSeq(s, m, n)[j] = s[m + j - 1]
    BY <2>1, SubSeqProperties
  <2>5. Len(SubSeq(s, m, n)) = Len(s) - i
    BY <1>1, <2>2, <2>4
  <2>6. \A j \in 1 .. Len(s) - i : SubSeq(s, m, n)[j] = s[i + j]
    BY <2>2, <2>3, <2>4, Zenon
  <2> QED BY <2>4, <2>5, <2>6, Zenon DEF m, n
<1> HIDE DEF t
<1>4. Range(t) = {t[j] : j \in 1 .. Len(t)}
  BY <1>3, RangeEquality
<1>5. ASSUME NEW j \in i + 1 .. Len(s) PROVE s[j] \in Range(t)
  <2>1. j - i \in 1 .. Len(s) - i /\ i + (j - i) = j
    BY <1>1
  <2> QED BY <1>3, <1>4, <2>1
<1>6. ASSUME word \in Range(t) PROVE \E j \in i + 1 .. Len(s) : s[j] = word
  <2>1. PICK j \in 1 .. Len(s) - i : word = t[j]
    BY <1>3, <1>4, <1>6
  <2>2. i + j \in i + 1 .. Len(s)
    BY <1>1
  <2> QED BY <1>3, <2>1, <2>2
<1> QED BY <1>5, <1>6 DEF t

\* A path is in one place alone, what is before the last such word.
LEMMA InIs ==
  ASSUME NEW S, NEW p \in Seq(S), NEW word, NEW dir
  PROVE  In(p, dir, word) <=>
           LastOf(word, p) # 0 /\ dir = SubSeq(p, 1, LastOf(word, p) - 1)
<1> DEFINE cut == LastOf(word, p)
           Free(i) == word \notin Range(SubSeq(p, i + 1, Len(p)))
<1>1. Len(p) \in Nat /\ DOMAIN p = 1 .. Len(p)
  BY LenProperties
<1>2. \A i \in 1 .. Len(p) : Free(i) <=> \A j \in i + 1 .. Len(p) : p[j] # word
  <2> TAKE i \in 1 .. Len(p)
  <2>1. i \in 0 .. Len(p)
    OBVIOUS
  <2> QED BY <2>1, RangeBehind
<1>3. \/ cut = 0 /\ \A j \in 1 .. Len(p) : p[j] # word
      \/ cut \in 1 .. Len(p) /\ p[cut] = word /\ \A j \in cut + 1 .. Len(p) : p[j] # word
  BY LastOfIs
<1>4. In(p, dir, word) <=> \E i \in 1 .. Len(p) : dir = SubSeq(p, 1, i - 1) /\ p[i] = word /\ Free(i)
  BY <1>1 DEF In
<1> HIDE DEF cut, Free
<1>5. ASSUME NEW i \in 1 .. Len(p), p[i] = word, Free(i) PROVE i = cut
  <2>1. cut # 0
    BY <1>3, <1>5
  <2>2. ~ (i < cut)
    <3>1. i < cut => cut \in i + 1 .. Len(p)
      BY <1>1, <1>3
    <3> QED BY <1>2, <1>3, <1>5, <2>1, <3>1
  <2>3. ~ (cut < i)
    <3>1. cut < i => i \in cut + 1 .. Len(p)
      BY <1>1, <1>3
    <3> QED BY <1>3, <1>5, <2>1, <3>1
  <2> QED BY <1>1, <1>3, <2>2, <2>3
<1>6. cut # 0 => cut \in 1 .. Len(p) /\ p[cut] = word /\ Free(cut)
  BY <1>2, <1>3
<1>7. cut = 0 => \A i \in 1 .. Len(p) : p[i] # word
  BY <1>1, <1>3
<1>8. In(p, dir, word) <=> cut # 0 /\ dir = SubSeq(p, 1, cut - 1)
  BY <1>1, <1>4, <1>5, <1>6, <1>7
<1> QED BY <1>8 DEF cut

\* The name of a file is what chdir took off the path.
LEMMA Rejoined ==
  ASSUME NEW S, NEW p \in Seq(S), NEW i \in 1 .. Len(p)
  PROVE  Append(SubSeq(p, 1, i - 1), p[i]) \o SubSeq(p, i + 1, Len(p)) = p
<1>1. Len(p) \in Nat /\ \A j \in 1 .. Len(p) : p[j] \in S
  BY LenProperties, ElementOfSeq
<1>2. SubSeq(p, 1, i) = SubSeq(p, 1, i - 1) \o <<p[i]>>
  <2>1. 1 \in 1 .. Len(p) /\ i \in 1 .. Len(p)
    BY <1>1
  <2> QED BY <2>1, SubSeqRecursiveSecond
<1>3. SubSeq(p, 1, i - 1) \in Seq(S)
  <2> DEFINE n == i - 1
  <2>1. n \in Int /\ \A j \in 1 .. n : p[j] \in S
    BY <1>1
  <2> HIDE DEF n
  <2>2. SubSeq(p, 1, n) \in Seq(S)
    BY <2>1, SubSeqProperties
  <2> QED BY <2>2 DEF n
<1>4. Append(SubSeq(p, 1, i - 1), p[i]) = SubSeq(p, 1, i)
  BY <1>1, <1>2, <1>3, AppendIsConcat
<1>5. SubSeq(p, 1, i) \o SubSeq(p, i + 1, Len(p)) = SubSeq(p, 1, Len(p))
  <2>1. 1 \in 1 .. Len(p) + 1 /\ i \in 1 - 1 .. Len(p) /\ Len(p) \in i .. Len(p)
    BY <1>1
  <2> QED BY <2>1, ConcatAdjacentSubSeq
<1> QED BY <1>4, <1>5, SubSeqFull
----------------------------------------------------------------------------
(* Texts and answers.                                                      *)

\* Texts that fit in the last quarter of the buffer.
TextSet == {t \in Seq(Word) : Len(t) < BufSize \div 4}

\* The buffer of send() has a last quarter, ...
LEMMA Sizes == BufSize \in Nat \ {0} /\ BufSize \div 4 \in Nat /\ BufSize \div 4 <= BufSize
<1>1. TextSize["head"] \in Nat /\ TextSize["head"] < BufSize \div 4 /\ BufSize \in Nat
  BY TextAssumption DEF Kinds
<1> QED BY <1>1

\* ... with something in it.
LEMMA Positive == BufSize \div 4 > 0
<1>1. TextSize["head"] \in Nat /\ TextSize["head"] < BufSize \div 4
  BY TextAssumption DEF Kinds
<1> QED BY <1>1, Sizes

\* Texts fit in that quarter.
LEMMA TextType ==
  ASSUME NEW kind \in Kinds, NEW about \in Seq(STRING)
  PROVE  Text(kind, about) \in TextSet
<1>1. TextSize[kind] \in Nat /\ TextSize[kind] < BufSize \div 4
  BY TextAssumption
<1>2. \A i \in 1 .. TextSize[kind] : <<kind, about, i>> \in Word
  BY <1>1 DEF Word
<1> DEFINE word(i) == <<kind, about, i>>
<1>3. Text(kind, about) = [i \in 1 .. TextSize[kind] |-> word(i)] /\ \A i \in 1 .. TextSize[kind] : word(i) \in Word
  BY <1>2 DEF Text
<1> HIDE DEF word
<1>4. Text(kind, about) \in Seq(Word) /\ Len(Text(kind, about)) = TextSize[kind]
  BY <1>1, <1>3
<1> QED BY <1>1, <1>4 DEF TextSet

\* One thing makes a sequence.
LEMMA OneIsSeq ==
  ASSUME NEW S, NEW x \in S
  PROVE  <<x>> \in Seq(S) /\ Len(<<x>>) = 1 /\ <<x>> # <<>>
OBVIOUS

\* The page of the drives.
LEMMA RootTextsType == RootTexts \in Seq(TextSet) /\ RootTexts # <<>>
<1> DEFINE Of(d) == <<Text("disk", d.dir)>> \o (IF ~clock /\ d.image THEN <<Text("image", d.dir)>> ELSE <<>>)
           lists == [i \in DOMAIN Disks |-> Of(Disks[i])]
<1>1. Len(Disks) \in Nat /\ DOMAIN Disks = 1 .. Len(Disks)
      /\ \A i \in 1 .. Len(Disks) : Disks[i] \in [dir : Seq(STRING), image : BOOLEAN]
  BY DriveAssumption, LenProperties, ElementOfSeq
<1>2. ASSUME NEW d \in [dir : Seq(STRING), image : BOOLEAN] PROVE Of(d) \in Seq(TextSet)
  <2>1. Text("disk", d.dir) \in TextSet /\ Text("image", d.dir) \in TextSet
    BY <1>2, TextType DEF Kinds
  <2>2. <<Text("disk", d.dir)>> \in Seq(TextSet) /\ <<Text("image", d.dir)>> \in Seq(TextSet)
        /\ <<>> \in Seq(TextSet)
    BY <2>1, OneIsSeq, EmptySeq
  <2> QED BY <2>2, ConcatProperties
<1>3. lists \in Seq(Seq(TextSet))
  <2>1. \A i \in 1 .. Len(Disks) : Of(Disks[i]) \in Seq(TextSet)
    BY <1>1, <1>2
  <2> HIDE DEF Of
  <2> QED BY <1>1, <2>1
<1>4. FlattenSeq(lists) \in Seq(TextSet)
  BY <1>3, FlattenType
<1>5. RootTexts = (<<Text("head", <<>>)>> \o FlattenSeq(lists)) \o <<Text("foot", <<>>)>>
  BY DEF RootTexts
<1>6. <<Text("head", <<>>)>> \in Seq(TextSet) /\ <<Text("foot", <<>>)>> \in Seq(TextSet)
      /\ <<Text("foot", <<>>)>> # <<>>
  BY TextType, EmptySeq, OneIsSeq DEF Kinds
<1> HIDE DEF lists
<1>7. <<Text("head", <<>>)>> \o FlattenSeq(lists) \in Seq(TextSet)
  BY <1>4, <1>6, ConcatProperties
<1> QED BY <1>5, <1>6, <1>7, ConcatProperties, ConcatEqualIffEmpty

\* The page of a directory.
LEMMA DirTextsType ==
  ASSUME NEW p \in DOMAIN Entries, p \in Seq(STRING)
  PROVE  DirTexts(p) \in Seq(TextSet) /\ DirTexts(p) # <<>>
<1> DEFINE cut   == LastOf(SLASH, p)
           up    == IF cut > 1 THEN SubSeq(p, 1, cut - 1) ELSE <<SLASH>>
           Of(e) == IF e.kind \in {"file", "dir"} THEN <<Text(e.kind, Append(p, e.name))>> ELSE <<>>
           lists == [i \in DOMAIN Entries[p] |-> Of(Entries[p][i])]
<1>1. /\ Len(Entries[p]) \in Nat /\ DOMAIN Entries[p] = 1 .. Len(Entries[p])
      /\ \A i \in 1 .. Len(Entries[p]) : Entries[p][i] \in [name : STRING, kind : STRING]
  <2>1. Entries[p] \in Seq([name : STRING, kind : STRING])
    BY DriveAssumption
  <2> QED BY <2>1, LenProperties, ElementOfSeq
<1>2. ASSUME NEW e \in [name : STRING, kind : STRING] PROVE Of(e) \in Seq(TextSet)
  <2>1. CASE e.kind \in {"file", "dir"}
    <3>1. Append(p, e.name) \in Seq(STRING)
      BY AppendProperties
    <3>2. Text(e.kind, Append(p, e.name)) \in TextSet
      BY <2>1, <3>1, TextType DEF Kinds
    <3> QED BY <2>1, <3>2, OneIsSeq
  <2>2. CASE e.kind \notin {"file", "dir"}
    BY <2>2, EmptySeq
  <2> QED BY <2>1, <2>2
<1>3. lists \in Seq(Seq(TextSet))
  <2>1. \A i \in 1 .. Len(Entries[p]) : Of(Entries[p][i]) \in Seq(TextSet)
    BY <1>1, <1>2
  <2> HIDE DEF Of
  <2> QED BY <1>1, <2>1
<1>4. FlattenSeq(lists) \in Seq(TextSet)
  BY <1>3, FlattenType
<1>5. up \in Seq(STRING)
  <2>1. cut = 0 \/ cut \in 1 .. Len(p)
    BY LastOfIs
  <2>2. Len(p) \in Nat /\ \A j \in 1 .. Len(p) : p[j] \in STRING
    BY LenProperties, ElementOfSeq
  <2> DEFINE n == cut - 1
  <2>3. n \in Int /\ \A j \in 1 .. n : p[j] \in STRING
    BY <2>1, <2>2
  <2>4. SubSeq(p, 1, n) \in Seq(STRING)
    <3> HIDE DEF n
    <3> QED BY <2>3, SubSeqProperties
  <2>5. <<SLASH>> \in Seq(STRING)
    BY RequestAssumption, OneIsSeq
  <2> QED BY <2>4, <2>5
<1>6. DirTexts(p) = (<<Text("head", p), Text("up", up)>> \o FlattenSeq(lists)) \o <<Text("foot", <<>>)>>
  BY DEF DirTexts
<1> HIDE DEF up, lists
<1>7. Text("head", p) \in TextSet /\ Text("up", up) \in TextSet /\ Text("foot", <<>>) \in TextSet
  BY <1>5, TextType, EmptySeq DEF Kinds
<1>8. <<Text("head", p), Text("up", up)>> \in Seq(TextSet)
  BY <1>7
<1>9. <<Text("foot", <<>>)>> \in Seq(TextSet) /\ <<Text("foot", <<>>)>> # <<>>
  BY <1>7, OneIsSeq
<1>10. <<Text("head", p), Text("up", up)>> \o FlattenSeq(lists) \in Seq(TextSet)
  BY <1>4, <1>8, ConcatProperties
<1> QED BY <1>6, <1>9, <1>10, ConcatProperties, ConcatEqualIffEmpty

\* Texts are sequences of words.
LEMMA TextsAreSeqs ==
  ASSUME NEW texts \in Seq(TextSet)
  PROVE  /\ texts \in Seq(Seq(Word)) /\ FlattenSeq(texts) \in Seq(Word)
         /\ \A i \in DOMAIN texts : Len(texts[i]) < BufSize \div 4
<1>1. TextSet \subseteq Seq(Word)
  BY DEF TextSet
<1>2. texts \in Seq(Seq(Word))
  BY <1>1, SeqMonotonic
<1>3. \A i \in DOMAIN texts : texts[i] \in TextSet
  BY LenProperties, ElementOfSeq
<1> QED BY <1>2, <1>3, FlattenType DEF TextSet

\* A header is one word.
LEMMA HeaderType ==
  ASSUME NEW type \in Types
  PROVE  <<<<"header", type>>>> \in Seq(Word) /\ HeaderOf(type) \in Seq(Word) /\ Len(HeaderOf(type)) <= 1
<1>1. <<"header", type>> \in Word
  BY DEF Word
<1>2. <<<<"header", type>>>> \in Seq(Word) /\ Len(<<<<"header", type>>>>) = 1
  BY <1>1, OneIsSeq
<1> QED BY <1>2, EmptySeq DEF HeaderOf

\* What can be read is made of words.
LEMMA DataType ==
  ASSUME NEW p \in DOMAIN Data
  PROVE  Data[p] \in Seq(Word)
<1>1. Range(Data[p]) \subseteq Word
  BY DEF Word
<1> QED BY <1>1, DriveAssumption, SeqMonotonic
----------------------------------------------------------------------------
(* The request.                                                            *)

\* A beginning of a sequence, and the rest of it.
LEMMA CutType ==
  ASSUME NEW S, NEW s \in Seq(S), NEW m \in 1 .. Len(s) + 1, NEW n \in 0 .. Len(s), m <= n + 1
  PROVE  /\ SubSeq(s, m, n) \in Seq(S) /\ Len(SubSeq(s, m, n)) = n - m + 1
         /\ \A i \in 1 .. n - m + 1 : SubSeq(s, m, n)[i] = s[m + i - 1]
<1>1. Len(s) \in Nat /\ \A j \in 1 .. Len(s) : s[j] \in S
  BY LenProperties, ElementOfSeq
<1>2. m \in Int /\ n \in Int /\ \A j \in m .. n : s[j] \in S
  BY <1>1
<1>3. m > n => n - m + 1 = 0
  BY <1>2
<1> QED BY <1>2, <1>3, SubSeqProperties

\* Both parts are texts.
LEMMA SplitsType ==
  ASSUME NEW text \in Seq(STRING), NEW got, NEW rest, Splits(text, got, rest)
  PROVE  got \in Seq(STRING) /\ rest \in Seq(STRING) /\ Len(got) <= Len(text) /\ Len(rest) <= Len(text)
<1>1. PICK k \in 0 .. Len(text) : got = SubSeq(text, 1, k) /\ rest = SubSeq(text, k + 1, Len(text))
  BY DEF Splits
<1> DEFINE len == Len(text)
           from == k + 1
<1>2. len \in Nat /\ k \in Nat /\ k <= len
  BY <1>1, LenProperties
<1>3. /\ 1 \in 1 .. len + 1 /\ k \in 0 .. len /\ 1 <= k + 1 /\ k - 1 + 1 = k
      /\ from \in 1 .. len + 1 /\ len \in 0 .. len /\ from <= len + 1 /\ len - from + 1 = len - k
      /\ len - k <= len
  BY <1>2
<1>4. got \in Seq(STRING) /\ Len(got) = k
  BY <1>1, <1>3, CutType
<1>5. rest \in Seq(STRING) /\ Len(rest) = len - k
  <2> HIDE DEF from
  <2>1. rest = SubSeq(text, from, len)
    BY <1>1 DEF from
  <2> QED BY <1>3, <2>1, CutType
<1> QED BY <1>2, <1>3, <1>4, <1>5

\* A piece more has arrived.
LEMMA SplitsMove ==
  ASSUME NEW text \in Seq(STRING), NEW got, NEW rest, Splits(text, got, rest), NEW n \in 1 .. Len(rest)
  PROVE  Splits(text, got \o SubSeq(rest, 1, n), SubSeq(rest, n + 1, Len(rest)))
<1>8. PICK k \in 0 .. Len(text) : got = SubSeq(text, 1, k) /\ rest = SubSeq(text, k + 1, Len(text))
  BY Zenon DEF Splits
<1> DEFINE len == Len(text)
<1>1. len \in Nat
  BY LenProperties
<1>2. rest \in Seq(STRING) /\ Len(rest) = len - k
  <2>1. k + 1 \in 1 .. len + 1 /\ len \in 0 .. len /\ k + 1 <= len + 1 /\ len - (k + 1) + 1 = len - k
    BY <1>1
  <2> QED BY <1>8, <2>1, CutType
<1>3. n \in 1 .. len - k
  BY <1>2
<1>4. k + n \in 0 .. len
  BY <1>1, <1>3
<1>5. SubSeq(rest, 1, n) = SubSeq(text, k + 1, k + n)
  <2> DEFINE i == k + 1
  <2>1. i \in 1 .. len /\ len \in 1 .. len /\ 1 \in 1 .. len - i + 1 /\ n \in 1 .. len - i + 1
    BY <1>1, <1>3
  <2>2. SubSeq(SubSeq(text, i, len), 1, n) = SubSeq(text, i + 1 - 1, i + n - 1)
    <3> HIDE DEF i
    <3> QED BY <2>1, SubSeqOfSubSeq
  <2>3. i + 1 - 1 = k + 1 /\ i + n - 1 = k + n
    BY <1>1, <1>3
  <2> QED BY <1>8, <2>2, <2>3
<1>6. SubSeq(text, 1, k) \o SubSeq(text, k + 1, k + n) = SubSeq(text, 1, k + n)
  <2> DEFINE m == k + n
  <2>1. 1 \in 1 .. len + 1 /\ k \in 1 - 1 .. len /\ m \in k .. len
    BY <1>1, <1>3
  <2> HIDE DEF m
  <2>2. SubSeq(text, 1, k) \o SubSeq(text, k + 1, m) = SubSeq(text, 1, m)
    BY <2>1, ConcatAdjacentSubSeq
  <2> QED BY <2>2 DEF m
<1>7. SubSeq(rest, n + 1, Len(rest)) = SubSeq(text, (k + n) + 1, len)
  <2>1. CASE n = len - k
    <3>1. SubSeq(rest, n + 1, Len(rest)) = <<>>
      <4>1. n + 1 \in Int /\ Len(rest) \in Int /\ Len(rest) < n + 1
        BY <1>1, <1>2, <1>3, <2>1
      <4> QED BY <4>1, SubSeqEmpty
    <3>2. SubSeq(text, (k + n) + 1, len) = <<>>
      <4>1. (k + n) + 1 \in Int /\ len \in Int /\ len < (k + n) + 1
        BY <1>1, <2>1
      <4> QED BY <4>1, SubSeqEmpty
    <3> QED BY <3>1, <3>2
  <2>2. CASE n # len - k
    <3> DEFINE i == k + 1
               m == n + 1
               l == len - k
    <3>1. i \in 1 .. len /\ len \in 1 .. len /\ m \in 1 .. len - i + 1 /\ l \in 1 .. len - i + 1
      BY <1>1, <1>3, <2>2
    <3>2. SubSeq(SubSeq(text, i, len), m, l) = SubSeq(text, i + m - 1, i + l - 1)
      <4> HIDE DEF i, m, l
      <4> QED BY <3>1, SubSeqOfSubSeq
    <3>3. i + m - 1 = (k + n) + 1 /\ i + l - 1 = len
      <4>1. k \in Int /\ n \in Int /\ len \in Int
        BY <1>1, <1>3
      <4> HIDE DEF len
      <4> QED BY <4>1
    <3>4. SubSeq(SubSeq(text, i, len), m, l) = SubSeq(rest, n + 1, Len(rest))
      BY <1>2, <1>8
    <3> QED BY <3>2, <3>3, <3>4
  <2> QED BY <2>1, <2>2
<1> QED BY <1>4, <1>5, <1>6, <1>7, <1>8 DEF Splits

\* What has not arrived is at the end.
LEMMA SplitsSuffix ==
  ASSUME NEW text \in Seq(STRING), NEW got, NEW rest, Splits(text, got, rest)
  PROVE  IsSuffix(rest, text)
<1>1. PICK k \in 0 .. Len(text) : rest = SubSeq(text, k + 1, Len(text))
  BY DEF Splits
<1> DEFINE len == Len(text)
           from == k + 1
           l == len - k
           r == Reverse(rest)
           u == Reverse(text)
<1>2. len \in Nat /\ k \in Nat /\ k <= len
  BY <1>1, LenProperties
<1>3. /\ from \in 1 .. len + 1 /\ len \in 0 .. len /\ from <= len + 1 /\ len - from + 1 = l
      /\ l \in 0 .. len /\ \A i \in 1 .. l : l - i + 1 \in 1 .. l /\ from + (l - i + 1) - 1 = len - i + 1
  BY <1>2
<1>4. Len(rest) = l /\ \A i \in 1 .. l : rest[i] = text[from + i - 1]
  <2> HIDE DEF from, l
  <2>1. rest = SubSeq(text, from, len)
    BY <1>1 DEF from
  <2> QED BY <1>3, <2>1, CutType
<1>5. r \in Seq(STRING) /\ Len(r) = l /\ \A i \in 1 .. l : r[i] = rest[l - i + 1]
  <2>1. \A i \in 1 .. l : rest[l - i + 1] \in STRING
    BY SplitsType, <1>2, <1>4, ElementOfSeq
  <2>2. r = [i \in 1 .. l |-> rest[l - i + 1]]
    BY <1>4 DEF Reverse
  <2> HIDE DEF l
  <2> QED BY <1>3, <2>1, <2>2, SeqDef
<1>6. u \in Seq(STRING) /\ Len(u) = len /\ \A i \in 1 .. len : u[i] = text[len - i + 1]
  <2>1. \A i \in 1 .. len : text[len - i + 1] \in STRING
    BY <1>2, ElementOfSeq
  <2>2. u = [i \in 1 .. len |-> text[len - i + 1]]
    BY DEF Reverse
  <2> HIDE DEF len
  <2> QED BY <1>2, <2>1, <2>2
<1>7. \A i \in 1 .. l : r[i] = u[i]
  <2> TAKE i \in 1 .. l
  <2>1. r[i] = rest[l - i + 1] /\ rest[l - i + 1] = text[from + (l - i + 1) - 1]
    BY <1>3, <1>4, <1>5
  <2>2. u[i] = text[len - i + 1]
    BY <1>2, <1>3, <1>6
  <2> QED BY <1>3, <2>1, <2>2
<1>8. SubSeq(r, 1, l) = SubSeq(u, 1, l)
  <2> HIDE DEF r, u, l
  <2>1. SubSeq(r, 1, l) = [i \in 1 .. l |-> r[i]] /\ SubSeq(u, 1, l) = [i \in 1 .. l |-> u[i]]
    BY <1>3, <1>5, <1>6
  <2> QED BY <1>7, <2>1
<1> QED
  <2> HIDE DEF r, u, l, len
  <2> QED BY <1>3, <1>5, <1>6, <1>8 DEF IsPrefix, IsSuffix, r, u

\* The parser finds such a word where it is first, ...
LEMMA FirstOfIs ==
  ASSUME NEW S, NEW s \in Seq(S), NEW words, NEW i \in Nat, NEW j \in i .. Len(s), s[j] \in words,
         \A k \in i .. j - 1 : s[k] \notin words
  PROVE  FirstOf(words, s, i) = j
<1> DEFINE Is(m) == (m > Len(s) \/ s[m] \in words) /\ \A k \in i .. m - 1 : s[k] \notin words
<1>1. Len(s) \in Nat
  BY LenProperties
<1>2. Max({i, Len(s) + 1}) = Len(s) + 1
  BY <1>1 DEF Max
<1>3. j \in i .. Len(s) + 1 /\ Is(j)
  BY <1>1
<1>4. ASSUME NEW m \in i .. Len(s) + 1, Is(m) PROVE m = j
  <2>1. ~ (m < j)
    <3>1. m < j => m \in i .. j - 1 /\ ~ (m > Len(s))
      BY <1>1
    <3> QED BY <1>4, <3>1
  <2>2. ~ (j < m)
    <3>1. j < m => j \in i .. m - 1
      BY <1>1
    <3> QED BY <1>4, <3>1
  <2> QED BY <1>1, <2>1, <2>2
<1>5. FirstOf(words, s, i) = CHOOSE m \in i .. Len(s) + 1 : Is(m)
  BY <1>2 DEF FirstOf
<1> HIDE DEF Is
<1> QED BY <1>3, <1>4, <1>5

\* ... or the NUL.
LEMMA FirstOfType ==
  ASSUME NEW S, NEW s \in Seq(S), NEW words, NEW i \in 1 .. Len(s) + 1
  PROVE  LET found == FirstOf(words, s, i)
         IN  /\ found \in i .. Len(s) + 1 /\ (found > Len(s) \/ s[found] \in words)
             /\ \A k \in i .. found - 1 : s[k] \notin words
<1> DEFINE Ends == {j \in Nat : j \in i .. Len(s) + 1 /\ (j > Len(s) \/ s[j] \in words)}
           Is(m) == (m > Len(s) \/ s[m] \in words) /\ \A k \in i .. m - 1 : s[k] \notin words
<1>1. Len(s) \in Nat
  BY LenProperties
<1>2. Max({i, Len(s) + 1}) = Len(s) + 1
  BY <1>1 DEF Max
<1>3. Len(s) + 1 \in Ends
  BY <1>1
<1>4. PICK j \in Ends : \A m \in Ends : j <= m
  BY <1>3, FirstExists
<1>5. \A k \in i .. j - 1 : s[k] \notin words
  <2> SUFFICES ASSUME NEW k \in i .. j - 1, s[k] \in words PROVE FALSE
    OBVIOUS
  <2>1. k \in Ends /\ k < j
    BY <1>1, <1>4
  <2> QED BY <1>4, <2>1
<1>6. j \in i .. Len(s) + 1 /\ Is(j)
  BY <1>4, <1>5
<1>7. FirstOf(words, s, i) = CHOOSE m \in i .. Len(s) + 1 : Is(m)
  BY <1>2 DEF FirstOf
<1>8. FirstOf(words, s, i) \in i .. Len(s) + 1 /\ Is(FirstOf(words, s, i))
  <2> HIDE DEF Is
  <2> QED BY <1>6, <1>7
<1> QED BY <1>8

\* In a beginning of a text it finds that word or an end before it.
LEMMA FirstOfPrefix ==
  ASSUME NEW text \in Seq(STRING), NEW k \in 0 .. Len(text), NEW words, NEW i \in 1 .. k + 1
  PROVE  /\ FirstOf(words, SubSeq(text, 1, k), i) \in Nat /\ FirstOf(words, text, i) \in Nat
         /\ FirstOf(words, SubSeq(text, 1, k), i) <= FirstOf(words, text, i)
<1> DEFINE s == SubSeq(text, 1, k)
           a == FirstOf(words, s, i)
           b == FirstOf(words, text, i)
<1>1. Len(text) \in Nat
  BY LenProperties
<1>2. s \in Seq(STRING) /\ Len(s) = k /\ \A j \in 1 .. k : s[j] = text[j]
  <2>1. 1 \in 1 .. Len(text) + 1 /\ 1 <= k + 1 /\ k - 1 + 1 = k /\ \A j \in 1 .. k : 1 + j - 1 = j
    BY <1>1
  <2> QED BY <2>1, CutType
<1> HIDE DEF s
<1>3. a \in i .. k + 1 /\ \A j \in i .. a - 1 : s[j] \notin words
  BY <1>2, FirstOfType
<1>4. b \in i .. Len(text) + 1 /\ (b > Len(text) \/ text[b] \in words)
  <2>1. i \in 1 .. Len(text) + 1
    BY <1>1
  <2> QED BY <2>1, FirstOfType
<1> HIDE DEF a, b
<1>5. ~ (b < a)
  <2> SUFFICES ASSUME b < a PROVE FALSE
    OBVIOUS
  <2>1. b \in i .. a - 1 /\ b \in 1 .. k /\ ~ (b > Len(text))
    BY <1>1, <1>3, <1>4
  <2> QED BY <1>2, <1>3, <1>4, <2>1
<1>6. a \in Nat /\ b \in Nat /\ a <= b
  BY <1>1, <1>3, <1>4, <1>5
<1> QED BY <1>6 DEF a, b, s

\* What is found in a text with a line end is a method and a path.
LEMMA ParsedType ==
  ASSUME NEW s \in Seq(STRING), EOL \in Range(s)
  PROVE  MethodOf(s) \in Seq(STRING) /\ PathOf(s) \in Seq(STRING)
<1>1. /\ Len(s) \in Nat /\ DOMAIN s = 1 .. Len(s)
      /\ <<>> \in Seq(STRING) /\ <<SLASH>> \in Seq(STRING)
  BY LenProperties, EmptySeq, OneIsSeq, RequestAssumption
<1>2. PICK e \in 1 .. Len(s) : s[e] = EOL
  BY <1>1 DEF Range
<1>3. ASSUME NEW m \in 1 .. Len(s) + 1, NEW n \in m .. Len(s) + 1
      PROVE  SubSeq(s, m, n - 1) \in Seq(STRING)
  <2> DEFINE to == n - 1
  <2>1. to \in 0 .. Len(s) /\ m <= to + 1
    BY <1>1
  <2> HIDE DEF to
  <2>2. SubSeq(s, m, to) \in Seq(STRING)
    BY <2>1, CutType
  <2> QED BY <2>2 DEF to
<1>4. MethodEnd(s) \in 1 .. Len(s)
  <2>1. 1 \in 1 .. Len(s) + 1
    BY <1>1
  <2>2. MethodEnd(s) \in 1 .. Len(s) + 1 /\ \A k \in 1 .. MethodEnd(s) - 1 : s[k] \notin {SPACE, EOL}
    BY <2>1, FirstOfType DEF MethodEnd
  <2>3. MethodEnd(s) = Len(s) + 1 => e \in 1 .. MethodEnd(s) - 1
    BY <1>1
  <2> QED BY <1>1, <1>2, <2>2, <2>3
<1>5. MethodOf(s) \in Seq(STRING)
  <2>1. 1 \in 1 .. Len(s) + 1 /\ MethodEnd(s) \in 1 .. Len(s) + 1
    BY <1>1, <1>4
  <2> QED BY <1>1, <1>3, <2>1 DEF MethodOf
<1> DEFINE from == IF NoMethod(s) THEN 2 ELSE MethodEnd(s) + 1
           end == FirstOf({SPACE, EOL, QUERY}, s, from)
<1>6. PathOf(s) = IF NoPath(s) THEN <<>>
                  ELSE (IF NoMethod(s) THEN <<SLASH>> ELSE <<>>) \o SubSeq(s, from, end - 1)
  BY DEF PathOf
<1>7. from \in 1 .. Len(s) + 1
  BY <1>1, <1>2, <1>4
<1> HIDE DEF from
<1>8. end \in from .. Len(s) + 1
  BY <1>7, FirstOfType
<1> HIDE DEF end
<1>9. SubSeq(s, from, end - 1) \in Seq(STRING)
  BY <1>3, <1>7, <1>8
<1> QED BY <1>1, <1>5, <1>6, <1>9, ConcatProperties

\* The method ends at a space that has arrived when the line end has.
LEMMA MethodEndIs ==
  ASSUME NEW r \in Requests, NEW k \in 0 .. Len(r.text), EOL \in Range(SubSeq(r.text, 1, k)),
         r.text[1] \notin {SLASH, SPACE, EOL}
  PROVE  LET m == Len(r.method)
         IN  m + 1 \in 1 .. k - 1 /\ r.text[m + 1] = SPACE /\ MethodEnd(SubSeq(r.text, 1, k)) = m + 1
<1> DEFINE text == r.text
           s == SubSeq(text, 1, k)
           m == Len(r.method)
<1>1. text \in Seq(STRING) /\ r.method \in Seq(STRING) /\ SPACE # EOL
  BY RequestAssumption
<1>2. Len(text) \in Nat /\ m \in Nat /\ DOMAIN r.method = 1 .. m
  BY <1>1, LenProperties
<1>3. k \in Nat /\ s \in Seq(STRING) /\ Len(s) = k /\ \A i \in 1 .. k : s[i] = text[i]
  <2>1. 1 \in 1 .. Len(text) + 1 /\ k \in 0 .. Len(text) /\ 1 <= k + 1 /\ k - 1 + 1 = k
        /\ \A i \in 1 .. k : 1 + i - 1 = i
    BY <1>2
  <2> QED BY <1>1, <2>1, CutType
<1>4. PICK e \in 1 .. k : text[e] = EOL
  <2>1. DOMAIN s = 1 .. Len(s)
    BY <1>3, LenProperties
  <2>2. EOL \in Range(s)
    OBVIOUS
  <2> HIDE DEF s
  <2>3. PICK e \in 1 .. Len(s) : EOL = s[e]
    BY <2>1, <2>2 DEF Range
  <2> QED BY <1>3, <2>3
<1>5. /\ text[m + 1] = SPACE
      /\ \A i \in 1 .. m : text[i] \notin {SPACE, EOL}
  <2>1. /\ text[Len(r.method) + 1] = SPACE
        /\ \A i \in DOMAIN r.method : r.method[i] = text[i] /\ r.method[i] \notin {SPACE, EOL}
    BY RequestAssumption
  <2> QED BY <1>2, <2>1
<1> HIDE DEF s, m
<1>6. m + 1 \in 1 .. k - 1
  <2>1. ~ (e <= m) /\ e # m + 1
    BY <1>1, <1>2, <1>4, <1>5
  <2> QED BY <1>2, <1>3, <2>1
<1>7. FirstOf({SPACE, EOL}, s, 1) = m + 1
  <2>1. m + 1 \in 1 .. Len(s) /\ s[m + 1] \in {SPACE, EOL}
    BY <1>3, <1>5, <1>6
  <2>2. \A i \in 1 .. (m + 1) - 1 : s[i] \notin {SPACE, EOL}
    <3>1. \A i \in 1 .. (m + 1) - 1 : i \in 1 .. m /\ i \in 1 .. k
      BY <1>2, <1>3, <1>6
    <3> QED BY <1>3, <1>5, <3>1
  <2> QED BY <1>3, <2>1, <2>2, FirstOfIs
<1> QED BY <1>5, <1>6, <1>7 DEF MethodEnd, s, m

\* What the parser writes for what has arrived of a request is no more than for all of it.
LEMMA VarFits ==
  ASSUME NEW r \in Requests, NEW k \in 0 .. Len(r.text), EOL \in Range(SubSeq(r.text, 1, k))
  PROVE  VarSpace(SubSeq(r.text, 1, k)) <= VarSize
<1> DEFINE text == r.text
           s == SubSeq(text, 1, k)
           len == Len(text)
<1>1. text \in Seq(STRING) /\ len \in 1 .. IoSize - 1 /\ EOL \in Range(text)
  BY RequestAssumption
<1>2. len \in Nat /\ SubSeq(text, 1, len) = text /\ DOMAIN text = 1 .. len
  BY <1>1, LenProperties, SubSeqFull
<1>3. s \in Seq(STRING) /\ Len(s) = k /\ \A i \in 1 .. k : s[i] = text[i]
  <2>1. 1 \in 1 .. len + 1 /\ k \in 0 .. len /\ 1 <= k + 1 /\ k - 1 + 1 = k
        /\ \A i \in 1 .. k : 1 + i - 1 = i
    BY <1>2
  <2> QED BY <1>1, <2>1, CutType
<1>4. k # 0
  <2>1. DOMAIN s = 1 .. k
    BY <1>3, LenProperties
  <2>2. EOL \in Range(s)
    OBVIOUS
  <2> HIDE DEF s
  <2>3. PICK e \in 1 .. k : EOL = s[e]
    BY <2>1, <2>2 DEF Range
  <2> QED BY <2>3
<1>5. 2 \in 1 .. k + 1 /\ s[1] = text[1]
  BY <1>2, <1>3, <1>4
<1>6. NoMethod(s) <=> NoMethod(text)
  BY <1>5 DEF NoMethod
<1>7. VarSize \in Nat /\ VarSpace(text) <= VarSize
  BY VarAssumption
<1>8. ASSUME NEW i \in 1 .. k + 1, NEW d \in Nat
      PROVE  /\ FirstOf({SPACE, EOL}, s, i) + d <= FirstOf({SPACE, EOL}, text, i) + d
             /\ FirstOf({SPACE, EOL}, s, i) + d \in Nat /\ FirstOf({SPACE, EOL}, text, i) + d \in Nat
  <2> DEFINE a == FirstOf({SPACE, EOL}, s, i)
             b == FirstOf({SPACE, EOL}, text, i)
  <2>1. a \in Nat /\ b \in Nat /\ a <= b
    BY <1>1, FirstOfPrefix
  <2> HIDE DEF a, b
  <2>2. a + d <= b + d /\ a + d \in Nat /\ b + d \in Nat
    BY <2>1
  <2> QED BY <2>2 DEF a, b
<1> HIDE DEF s
<1>9. CASE NoMethod(text)
  <2>1. VarSpace(s) = FirstOf({SPACE, EOL}, s, 2) + 4 /\ VarSpace(text) = FirstOf({SPACE, EOL}, text, 2) + 4
    BY <1>6, <1>9 DEF VarSpace
  <2>2. VarSpace(s) <= VarSpace(text) /\ VarSpace(s) \in Nat /\ VarSpace(text) \in Nat
    BY <1>5, <1>8, <2>1
  <2> QED BY <1>7, <2>2 DEF s
<1>10. CASE ~NoMethod(text)
  <2> DEFINE m == Len(r.method)
             i == m + 1 + 1
  <2>1. text[1] \notin {SLASH, SPACE, EOL}
    BY <1>10 DEF NoMethod
  <2>2. m + 1 \in 1 .. k - 1 /\ MethodEnd(s) = m + 1
    BY <2>1, MethodEndIs DEF s
  <2>3. MethodEnd(text) = m + 1
    <3>1. len \in 0 .. Len(r.text)
      BY <1>2
    <3>2. EOL \in Range(SubSeq(r.text, 1, len))
      BY <1>1, <1>2, Zenon
    <3>3. MethodEnd(SubSeq(r.text, 1, len)) = m + 1
      BY <2>1, <3>1, <3>2, MethodEndIs
    <3> QED BY <1>2, <3>3
  <2> HIDE DEF m
  <2>4. i \in 1 .. k + 1
    BY <1>2, <2>2
  <2>5. VarSpace(s) = FirstOf({SPACE, EOL}, s, i) + 3 /\ VarSpace(text) = FirstOf({SPACE, EOL}, text, i) + 3
    BY <1>6, <1>10, <2>2, <2>3 DEF VarSpace
  <2> HIDE DEF i
  <2>6. VarSpace(s) <= VarSpace(text) /\ VarSpace(s) \in Nat /\ VarSpace(text) \in Nat
    BY <1>8, <2>4, <2>5
  <2> QED BY <1>7, <2>6 DEF s
<1> QED BY <1>9, <1>10

\* Whatever of a request has arrived when its first line is there, the parser finds the
\* method and the path that are meant.
LEMMA ParsedIsMeant ==
  ASSUME NEW r \in Requests, NEW k \in 0 .. Len(r.text), EOL \in Range(SubSeq(r.text, 1, k))
  PROVE  LET s == SubSeq(r.text, 1, k)
         IN  /\ MethodOf(s) \in Seq(STRING) /\ PathOf(s) \in Seq(STRING)
             /\ r.text[1] = EOL => MethodOf(s) = <<>>
             /\ r.text[1] # EOL => MethodOf(s) = r.method /\ PathOf(s) = r.path
<1> DEFINE text == r.text
           s == SubSeq(text, 1, k)
<1>1. /\ text \in Seq(STRING) /\ r.method \in Seq(STRING) /\ r.path \in Seq(STRING)
      /\ SLASH \in STRING /\ SLASH # EOL /\ SPACE # EOL
  BY RequestAssumption
<1>2. Len(text) \in Nat /\ Len(r.method) \in Nat /\ Len(r.path) \in Nat
      /\ DOMAIN r.method = 1 .. Len(r.method) /\ DOMAIN r.path = 1 .. Len(r.path)
  BY <1>1, LenProperties
<1>3. k \in 0 .. Len(text) /\ s \in Seq(STRING) /\ Len(s) = k /\ \A i \in 1 .. k : s[i] = text[i]
  <2>1. 1 \in 1 .. Len(text) + 1 /\ k \in 0 .. Len(text) /\ 1 <= k + 1 /\ k - 1 + 1 = k
        /\ \A i \in 1 .. k : 1 + i - 1 = i
    BY <1>2
  <2> QED BY <1>1, <2>1, CutType
<1>4. PICK e \in 1 .. k : text[e] = EOL
  <2>1. DOMAIN s = 1 .. Len(s)
    BY <1>3, LenProperties
  <2>2. EOL \in Range(s)
    OBVIOUS
  <2> HIDE DEF s
  <2>3. PICK e \in 1 .. Len(s) : EOL = s[e]
    BY <2>1, <2>2 DEF Range
  <2> QED BY <1>3, <2>3
<1> HIDE DEF s
<1>5. 1 \in 1 .. k /\ s[1] = text[1] /\ s # <<>>
  BY <1>2, <1>3, <1>4, EmptySeq
<1>6. NoMethod(s) <=> text[1] \in {SLASH, SPACE, EOL}
  BY <1>5 DEF NoMethod
<1>7. ASSUME ~ NoMethod(s)
      PROVE  MethodOf(s) = r.method /\ PathOf(s) = r.path
  <2>1. /\ text[Len(r.method) + 1] = SPACE /\ PathFrom(r, r.path, Len(r.method) + 2)
        /\ \A i \in 1 .. Len(r.method) : r.method[i] = text[i] /\ r.method[i] \notin {SPACE, EOL}
    BY <1>2, <1>6, <1>7, RequestAssumption
  <2> DEFINE m == Len(r.method)
             n == Len(r.path)
             end == m + 2 + n
  <2>2. /\ end <= Len(text) /\ text[end] \in {SPACE, EOL, QUERY}
        /\ \A i \in 1 .. n : r.path[i] = text[m + 2 + i - 1] /\ r.path[i] \notin {SPACE, EOL, QUERY}
    BY <1>2, <2>1 DEF PathFrom
  <2> HIDE DEF m, n
  <2>3. m \in Nat /\ n \in Nat
    BY <1>2 DEF m, n
  <2>4. \A i \in 1 .. end - 1 : text[i] # EOL
    <3> SUFFICES ASSUME NEW i \in 1 .. end - 1 PROVE text[i] # EOL
      OBVIOUS
    <3>1. CASE i <= m
      BY <2>1, <2>3, <3>1 DEF m
    <3>2. CASE i = m + 1
      BY <1>1, <2>1, <3>2 DEF m
    <3>3. CASE i > m + 1
      <4>1. i - m - 1 \in 1 .. n /\ m + 2 + (i - m - 1) - 1 = i
        BY <2>3, <3>3
      <4> QED BY <2>2, <4>1
    <3> QED BY <2>3, <3>1, <3>2, <3>3
  <2>5. end <= k
    BY <1>2, <1>3, <1>4, <2>3, <2>4
  <2>6. MethodEnd(s) = m + 1 /\ s[m + 1] = SPACE /\ ~NoPath(s)
    <3>1. text[1] \notin {SLASH, SPACE, EOL} /\ EOL \in Range(SubSeq(r.text, 1, k))
      BY <1>6, <1>7 DEF s
    <3>2. m + 1 \in 1 .. k - 1 /\ text[m + 1] = SPACE /\ MethodEnd(s) = m + 1
      BY <3>1, MethodEndIs DEF s, m
    <3>3. s[m + 1] = SPACE
      <4>1. m + 1 \in 1 .. k
        BY <1>2, <1>3, <3>2
      <4> QED BY <1>3, <3>2, <4>1
    <3> QED BY <1>1, <3>2, <3>3 DEF NoPath
  <2>7. FirstOf({SPACE, EOL, QUERY}, s, m + 2) = end
    <3>1. end \in m + 2 .. Len(s) /\ s[end] \in {SPACE, EOL, QUERY} /\ m + 2 \in Nat
      BY <1>3, <2>2, <2>3, <2>5
    <3>2. \A i \in m + 2 .. end - 1 : s[i] \notin {SPACE, EOL, QUERY}
      <4> SUFFICES ASSUME NEW i \in m + 2 .. end - 1 PROVE s[i] \notin {SPACE, EOL, QUERY}
        OBVIOUS
      <4>1. i - m - 1 \in 1 .. n /\ m + 2 + (i - m - 1) - 1 = i /\ i \in 1 .. k
        BY <1>3, <2>3, <2>5
      <4> QED BY <1>3, <2>2, <4>1
    <3> HIDE DEF end
    <3> QED BY <1>3, <3>1, <3>2, FirstOfIs
  <2>8. MethodOf(s) = r.method
    <3>1. MethodOf(s) = SubSeq(s, 1, m)
      <4>1. (m + 1) - 1 = m
        BY <2>3
      <4> QED BY <1>7, <2>6, <4>1 DEF MethodOf
    <3>2. /\ SubSeq(s, 1, m) \in Seq(STRING) /\ Len(SubSeq(s, 1, m)) = m
          /\ \A i \in 1 .. m : SubSeq(s, 1, m)[i] = s[i]
      <4>1. 1 \in 1 .. Len(s) + 1 /\ m \in 0 .. Len(s) /\ 1 <= m + 1 /\ m - 1 + 1 = m
            /\ \A i \in 1 .. m : 1 + i - 1 = i
        BY <1>3, <2>3, <2>5
      <4> QED BY <1>3, <4>1, CutType
    <3>3. \A i \in 1 .. m : s[i] = r.method[i]
      BY <1>3, <2>1, <2>3, <2>5 DEF m
    <3> QED BY <1>1, <3>1, <3>2, <3>3, SeqEqual DEF m
  <2>9. PathOf(s) = r.path
    <3> DEFINE from == m + 2
               to == end - 1
               path_1 == SubSeq(s, from, to)
    <3>1. PathOf(s) = <<>> \o path_1
      <4>1. m + 1 + 1 = m + 2
        BY <2>3
      <4> HIDE DEF end
      <4> QED BY <1>7, <2>6, <2>7, <4>1 DEF PathOf
    <3>2. from \in 1 .. Len(s) + 1 /\ to \in 0 .. Len(s) /\ from <= to + 1 /\ to - from + 1 = n
      <4>1. Len(s) = k /\ k \in Nat
        BY <1>3
      <4>2. from \in 1 .. k + 1 /\ to \in 0 .. k /\ from <= to + 1 /\ to - from + 1 = n
        BY <2>3, <2>5, <4>1
      <4> QED BY <4>1, <4>2
    <3>3. path_1 \in Seq(STRING) /\ Len(path_1) = n /\ \A i \in 1 .. n : path_1[i] = s[from + i - 1]
      <4> HIDE DEF from, to
      <4> QED BY <1>3, <3>2, CutType
    <3>4. \A i \in 1 .. n : s[from + i - 1] = r.path[i]
      <4> TAKE i \in 1 .. n
      <4>1. from + i - 1 = m + 2 + i - 1 /\ from + i - 1 \in 1 .. k
        BY <1>3, <2>3, <2>5
      <4> QED BY <1>3, <2>2, <4>1
    <3>5. path_1 = r.path
      <4> HIDE DEF path_1
      <4> QED BY <1>1, <3>3, <3>4, SeqEqual DEF n
    <3> QED BY <3>1, <3>3, <3>5, ConcatEmptySeq
  <2> QED BY <2>8, <2>9
<1>8. ASSUME NoMethod(s)
      PROVE  MethodOf(s) = <<>> /\ PathOf(s) \in Seq(STRING)
  <2>1. MethodOf(s) = <<>>
    BY <1>8 DEF MethodOf
  <2> DEFINE end == FirstOf({SPACE, EOL, QUERY}, s, 2)
  <2>2. 2 \in 1 .. Len(s) + 1
    BY <1>3, <1>5
  <2>3. end \in 2 .. Len(s) + 1
    BY <1>3, <2>2, FirstOfType
  <2>4. PathOf(s) = <<SLASH>> \o SubSeq(s, 2, end - 1)
    BY <1>8 DEF PathOf, NoPath
  <2> HIDE DEF end
  <2> DEFINE to == end - 1
  <2>5. to \in 0 .. Len(s) /\ 2 <= to + 1
    BY <1>3, <2>3
  <2>6. SubSeq(s, 2, to) \in Seq(STRING)
    <3> HIDE DEF to
    <3> QED BY <1>3, <2>2, <2>5, CutType
  <2>7. <<SLASH>> \in Seq(STRING)
    BY <1>1, OneIsSeq
  <2> QED BY <2>1, <2>4, <2>6, <2>7, ConcatProperties
<1>9. ASSUME NoMethod(s), text[1] # EOL
      PROVE  r.method = <<>> /\ PathOf(s) = r.path
  <2>1. /\ text[1] \in {SLASH, SPACE} /\ r.method = <<>>
        /\ r.path # <<>> /\ r.path[1] = SLASH /\ PathFrom(r, Tail(r.path), 2)
    BY <1>6, <1>9, RequestAssumption
  <2> DEFINE q == Tail(r.path)
             n == Len(q)
             end == 2 + n
  <2>2. /\ q \in Seq(STRING) /\ n = Len(r.path) - 1 /\ \A i \in 1 .. n : q[i] = r.path[i + 1]
        /\ n \in Nat /\ DOMAIN q = 1 .. n /\ Len(r.path) = n + 1
    <3>1. /\ q \in Seq(STRING) /\ n = Len(r.path) - 1 /\ \A i \in 1 .. n : q[i] = r.path[i + 1]
      BY <1>1, <2>1, HeadTailProperties
    <3> QED BY <1>2, <3>1, LenProperties
  <2>3. /\ end <= Len(text) /\ text[end] \in {SPACE, EOL, QUERY}
        /\ \A i \in 1 .. n : q[i] = text[2 + i - 1] /\ q[i] \notin {SPACE, EOL, QUERY}
    BY <2>1, <2>2 DEF PathFrom
  <2> HIDE DEF q, n
  <2>4. \A i \in 1 .. end - 1 : text[i] # EOL
    <3> SUFFICES ASSUME NEW i \in 1 .. end - 1 PROVE text[i] # EOL
      OBVIOUS
    <3>1. CASE i = 1
      BY <1>9, <3>1
    <3>2. CASE i # 1
      <4>1. i - 1 \in 1 .. n /\ 2 + (i - 1) - 1 = i
        BY <2>2, <3>2
      <4> QED BY <2>3, <4>1
    <3> QED BY <3>1, <3>2
  <2>5. end <= k
    BY <1>2, <1>3, <1>4, <2>2, <2>4
  <2>6. FirstOf({SPACE, EOL, QUERY}, s, 2) = end
    <3>1. end \in 2 .. Len(s) /\ s[end] \in {SPACE, EOL, QUERY}
      BY <1>3, <2>2, <2>3, <2>5
    <3>2. \A i \in 2 .. end - 1 : s[i] \notin {SPACE, EOL, QUERY}
      <4> SUFFICES ASSUME NEW i \in 2 .. end - 1 PROVE s[i] \notin {SPACE, EOL, QUERY}
        OBVIOUS
      <4>1. i - 1 \in 1 .. n /\ 2 + (i - 1) - 1 = i /\ i \in 1 .. k
        BY <1>3, <2>2, <2>5
      <4> QED BY <1>3, <2>3, <4>1
    <3> HIDE DEF end
    <3> QED BY <1>3, <3>1, <3>2, FirstOfIs
  <2> DEFINE to == end - 1
             tail == SubSeq(s, 2, to)
  <2>7. PathOf(s) = <<SLASH>> \o tail
    <3> HIDE DEF end
    <3> QED BY <1>9, <2>6 DEF PathOf, NoPath
  <2>8. 2 \in 1 .. Len(s) + 1 /\ to \in 0 .. Len(s) /\ 2 <= to + 1 /\ to - 2 + 1 = n
    BY <1>3, <1>5, <2>2, <2>5
  <2>9. tail \in Seq(STRING) /\ Len(tail) = n /\ \A i \in 1 .. n : tail[i] = s[2 + i - 1]
    <3> HIDE DEF to
    <3> QED BY <1>3, <2>8, CutType
  <2>10. \A i \in 1 .. n : tail[i] = q[i]
    <3> TAKE i \in 1 .. n
    <3>1. 2 + i - 1 \in 1 .. k
      BY <1>3, <2>2, <2>5
    <3>2. s[2 + i - 1] = text[2 + i - 1]
      BY <1>3, <3>1
    <3>3. tail[i] = s[2 + i - 1] /\ q[i] = text[2 + i - 1]
      BY <2>3, <2>9
    <3> QED BY <3>2, <3>3
  <2>11. tail = q
    <3> HIDE DEF tail
    <3> QED BY <2>2, <2>9, <2>10, SeqEqual DEF n
  <2>12. r.path = <<SLASH>> \o q
    <3>1. SubSeq(r.path, 1, Len(r.path)) = <<r.path[1]>> \o SubSeq(r.path, 1 + 1, Len(r.path))
      <4>1. 1 \in 1 .. Len(r.path) /\ Len(r.path) \in 1 .. Len(r.path)
        BY <2>2
      <4> QED BY <1>1, <4>1, SubSeqRecursiveFirst
    <3>2. q = SubSeq(r.path, 2, Len(r.path))
      BY <1>1, <2>1, TailIsSubSeq DEF q
    <3> QED BY <1>1, <2>1, <3>1, <3>2, SubSeqFull
  <2> QED BY <2>1, <2>7, <2>11, <2>12
<1>10. NoMethod(s) => MethodOf(s) = <<>> /\ PathOf(s) \in Seq(STRING) /\ <<>> \in Seq(STRING)
  BY <1>8, EmptySeq
<1>11. ~ NoMethod(s) => text[1] # EOL
  BY <1>6
<1> QED BY <1>1, <1>7, <1>9, <1>10, <1>11 DEF s
----------------------------------------------------------------------------
(* The steps.                                                              *)

LoopMove ==
  \/ TcpClose \/ Poll \/ ParseRequest \/ Emit \/ TcpSendClosed \/ TcpSendReturns
  \/ TcpListen \/ ListenHears \/ ListenReturnsClosed \/ ListenAborted
  \/ PollAborted \/ TcpSendPolls \/ TcpSendFails

\* The kinds of steps.
LEMMA Moves ==
  ASSUME Next
  PROVE  \/ HttpServer \/ Send \/ SendPiece \/ ReturnFromHandler
         \/ LoopMove /\ UNCHANGED hfsVars
         \/ UNCHANGED vars
BY DEF Next, Handler, Loop, LoopMove

\* What a step of the handler leaves alone, and where it goes.
LEMMA HandlerShape ==
  ASSUME HttpServer \/ Send \/ SendPiece
  PROVE  /\ pc = "handler" /\ pc' \in {"handler", "emit"} /\ at' \in {"page", "raw", "return"}
         /\ UNCHANGED <<found_eol, connection_closed, timeout, method, path, now, clock, clientVars>>
<1>1. CASE HttpServer
  <2>1. at' \in {"page", "raw", "return"} /\ pc' \in {"handler", "emit"}
    BY <1>1 DEF HttpServer, Handling, ServePath, Page, Raw, Reply, SendResponse
  <2> QED BY <1>1, <2>1 DEF HttpServer, Handling
<1>2. CASE Send
  BY <1>2 DEF Send, Handling, SendResponse
<1>3. CASE SendPiece
  BY <1>3 DEF SendPiece, Handling, SendResponse
<1> QED BY <1>1, <1>2, <1>3

\* So with tcp_send.
LEMMA SentShape ==
  ASSUME TcpSendClosed \/ TcpSendReturns \/ TcpSendFails
  PROVE  /\ Sending /\ Sent
         /\ pc' = IF pc = "send" THEN "emit" ELSE "handler"
         /\ io_buf' = <<>>
         /\ open' => open
         /\ UNCHANGED <<found_eol, connection_closed, timeout, method, path, response, now, clock,
                        request, coming, late>>
<1>1. Sending /\ Sent /\ (open' => open)
  BY DEF TcpSendClosed, TcpSendReturns, TcpSendFails
<1> QED BY <1>1 DEF Sent

----------------------------------------------------------------------------
(* The request.                                                            *)

\* No client sends nothing.
LEMMA NoRequestIsNone == NoRequest \notin Requests /\ NoRequest.text = <<>> /\ Len(<<>>) = 0
<1>1. \A r \in Requests : Len(r.text) \in 1 .. IoSize - 1
  BY RequestAssumption
<1> QED BY <1>1 DEF NoRequest

\* The parts of the request after it has been parsed: what has arrived no longer matters.
LEMMA SplitsSome ==
  ASSUME NEW text, NEW got, NEW rest, Splits(text, got, rest)
  PROVE  \E k \in 0 .. Len(text) : Splits(text, SubSeq(text, 1, k), rest)
BY DEF Splits

\* A piece of what is to come is added to what has come.
LEMMA ArrivesStep ==
  ASSUME request.text \in Seq(STRING), NEW got, Splits(request.text, got, coming), Arrives
  PROVE  \E n \in 1 .. Len(coming) :
           /\ HttpCallback(SubSeq(coming, 1, n)) /\ SubSeq(coming, 1, n) \in Seq(STRING)
           /\ Splits(request.text, got \o SubSeq(coming, 1, n), coming')
<1>1. PICK n \in DOMAIN coming :
         HttpCallback(SubSeq(coming, 1, n)) /\ coming' = SubSeq(coming, n + 1, Len(coming))
  BY DEF Arrives
<1>2. coming \in Seq(STRING)
  BY SplitsType
<1>3. n \in 1 .. Len(coming)
  BY <1>1, <1>2, LenProperties
<1>4. Splits(request.text, got \o SubSeq(coming, 1, n), coming')
  BY <1>1, <1>3, SplitsMove
<1>5. SubSeq(coming, 1, n) \in Seq(STRING)
  <2>1. 1 \in 1 .. Len(coming) + 1 /\ n \in 0 .. Len(coming) /\ 1 <= n + 1
    BY <1>2, <1>3, LenProperties
  <2> QED BY <1>2, <2>1, CutType
<1> QED BY <1>1, <1>3, <1>4, <1>5

\* What is to come stays the end of the request, and what io_buf gets is text.
LEMMA ArrivesType ==
  ASSUME request.text \in Seq(STRING), io_buf \in Seq(STRING), found_eol \in BOOLEAN, Arrives,
         NEW k \in 0 .. Len(request.text), Splits(request.text, SubSeq(request.text, 1, k), coming)
  PROVE  /\ \E j \in 0 .. Len(request.text) : Splits(request.text, SubSeq(request.text, 1, j), coming')
         /\ io_buf' \in Seq(STRING) /\ found_eol' \in BOOLEAN
         /\ found_eol => io_buf' = io_buf /\ found_eol'
         /\ ~found_eol => (found_eol' => EOL \in Range(io_buf'))
<1> DEFINE got == SubSeq(request.text, 1, k)
<1>1. Splits(request.text, got, coming)
  OBVIOUS
<1> HIDE DEF got
<1>2. PICK n \in 1 .. Len(coming) :
        /\ HttpCallback(SubSeq(coming, 1, n)) /\ SubSeq(coming, 1, n) \in Seq(STRING)
        /\ Splits(request.text, got \o SubSeq(coming, 1, n), coming')
  BY <1>1, ArrivesStep
<1>3. \E j \in 0 .. Len(request.text) : Splits(request.text, SubSeq(request.text, 1, j), coming')
  BY <1>2, SplitsSome
<1>4. CASE found_eol
  BY <1>2, <1>3, <1>4 DEF HttpCallback
<1>5. CASE ~found_eol
  <2>1. /\ io_buf' = io_buf \o SubSeq(coming, 1, n)
        /\ found_eol' = \E i \in DOMAIN io_buf' : io_buf'[i] = EOL
    BY <1>2, <1>5 DEF HttpCallback
  <2>2. io_buf' \in Seq(STRING)
    BY <1>2, <2>1, ConcatProperties
  <2>3. found_eol' \in BOOLEAN /\ (found_eol' => EOL \in Range(io_buf'))
    BY <2>1 DEF Range
  <2> QED BY <1>3, <1>5, <2>2, <2>3
<1> QED BY <1>4, <1>5

\* ip65_process adds to the request what it takes from what is to come.
LEMMA ProcessStep ==
  ASSUME RequestInv, found_eol \in BOOLEAN, Ip65Process, pc = "poll"
  PROVE  /\ ~late => Splits(request.text, io_buf', coming')
         /\ \E k \in 0 .. Len(request.text) : Splits(request.text, SubSeq(request.text, 1, k), coming')
         /\ io_buf' \in Seq(STRING) /\ found_eol' \in BOOLEAN
         /\ found_eol' => EOL \in Range(io_buf')
<1>1. /\ request \in Requests /\ ~found_eol /\ io_buf \in Seq(STRING)
      /\ ~late => Splits(request.text, io_buf, coming)
  BY DEF RequestInv, ComingInv, EolInv
<1>2. request.text \in Seq(STRING)
  BY <1>1, RequestAssumption
<1>3. PICK k \in 0 .. Len(request.text) : Splits(request.text, SubSeq(request.text, 1, k), coming)
  <2>1. CASE late
    BY <2>1 DEF RequestInv, ComingInv
  <2>2. CASE ~late
    BY <1>1, <2>2, SplitsSome
  <2> QED BY <2>1, <2>2
<1>4. CASE ClientSends
  <2>1. Arrives /\ found_eol \in BOOLEAN
    BY <1>1, <1>4 DEF ClientSends
  <2>2. /\ \E j \in 0 .. Len(request.text) : Splits(request.text, SubSeq(request.text, 1, j), coming')
        /\ io_buf' \in Seq(STRING) /\ found_eol' \in BOOLEAN
        /\ found_eol' => EOL \in Range(io_buf')
    BY <1>1, <1>2, <1>3, <2>1, ArrivesType
  <2>3. ASSUME ~late PROVE Splits(request.text, io_buf', coming')
    <3>1. PICK n \in 1 .. Len(coming) :
            /\ HttpCallback(SubSeq(coming, 1, n))
            /\ Splits(request.text, io_buf \o SubSeq(coming, 1, n), coming')
      BY <1>1, <1>2, <2>1, <2>3, ArrivesStep
    <3> QED BY <1>1, <3>1 DEF HttpCallback
  <2> QED BY <2>2, <2>3
<1>5. CASE ClientCloses
  BY <1>1, <1>3, <1>5 DEF ClientCloses
<1>6. CASE UNCHANGED <<io_buf, found_eol, connection_closed, open, coming>>
  BY <1>1, <1>3, <1>6
<1> QED BY <1>4, <1>5, <1>6 DEF Ip65Process

\* Only a client that is there sends.
LEMMA ProcessOpens ==
  ASSUME Ip65Process
  PROVE  (open' => open) /\ UNCHANGED <<request, received, late>>
BY DEF Ip65Process, ClientSends, ClientCloses

\* Before anything has arrived.
LEMMA SplitsWhole ==
  ASSUME NEW text \in Seq(STRING)
  PROVE  Splits(text, <<>>, text)
<1>1. 0 \in 0 .. Len(text) /\ 0 + 1 = 1
  BY LenProperties
<1>2. SubSeq(text, 1, 0) = <<>>
  BY SubSeqEmpty
<1>3. SubSeq(text, 1, Len(text)) = text
  BY SubSeqFull
<1> QED BY <1>1, <1>2, <1>3 DEF Splits

\* RequestInv is invariant.
LEMMA RequestStep ==
  ASSUME HfsInv, [Next]_vars
  PROVE  RequestInv'
<1> USE DEF Emitting, Handling
<1>1. /\ RequestInv /\ BatchInv /\ request \in Requests \cup {NoRequest}
      /\ found_eol \in BOOLEAN /\ late \in BOOLEAN
  BY DEF HfsInv, HfsTypeOK, HttpdTypeOK
<1>2. \/ HttpServer \/ Send \/ SendPiece \/ ReturnFromHandler
      \/ LoopMove /\ UNCHANGED hfsVars
      \/ UNCHANGED vars
  BY Moves
<1>3. /\ \A r \in Requests : r.text \in Seq(STRING)
      /\ request.text \in Seq(STRING)
  BY <1>1, RequestAssumption, NoRequestIsNone, EmptySeq
<1>4. \E k \in 0 .. Len(request.text) : Splits(request.text, SubSeq(request.text, 1, k), coming)
  <2>1. CASE pc \in {"poll", "parse"} /\ ~late
    BY <1>1, <2>1, SplitsSome DEF RequestInv, ComingInv
  <2>2. CASE ~ (pc \in {"poll", "parse"} /\ ~late)
    BY <1>1, <2>2 DEF RequestInv, ComingInv
  <2> QED BY <2>1, <2>2
<1>5. CASE HttpServer \/ Send \/ SendPiece
  <2>1. /\ pc = "handler" /\ pc' \in {"handler", "emit"} /\ at' \in {"page", "raw", "return"}
        /\ UNCHANGED <<found_eol, open, request, coming, late>>
    BY <1>5, HandlerShape DEF clientVars
  <2>2. ComingInv'
    BY <1>1, <1>4, <2>1 DEF RequestInv, ComingInv
  <2>3. EolInv' /\ HeardInv'
    BY <1>1, <2>1 DEF RequestInv, EolInv, HeardInv
  <2> QED BY <2>2, <2>3 DEF RequestInv
<1>6. CASE ReturnFromHandler
  <2>1. pc = "handler" /\ pc' = "close" /\ UNCHANGED <<found_eol, open, request, coming, late>>
    BY <1>6 DEF ReturnFromHandler, loopVars, clientVars
  <2>2. ComingInv'
    BY <1>1, <1>4, <2>1 DEF RequestInv, ComingInv
  <2> QED BY <2>1, <2>2 DEF RequestInv, EolInv, HeardInv
<1>7. CASE LoopMove /\ UNCHANGED hfsVars
  <2> USE DEF hfsVars
  <2>1. CASE TcpClose
    <3>1. pc' = "listen" /\ io_buf' = <<>> /\ open' = FALSE /\ <<>> \in Seq(STRING)
      BY <2>1, EmptySeq DEF TcpClose
    <3>2. CASE ClientLeaves
      <4>1. Splits(<<>>, <<>>, <<>>)
        BY SplitsWhole, EmptySeq
      <4>2. \E k \in 0 .. Len(<<>>) : Splits(<<>>, SubSeq(<<>>, 1, k), <<>>)
        BY <4>1, SplitsSome
      <4>3. request' = NoRequest /\ coming' = <<>>
        BY <3>2 DEF ClientLeaves
      <4> QED BY <3>1, <4>2, <4>3, NoRequestIsNone DEF RequestInv, ComingInv, EolInv, HeardInv
    <3>3. CASE ClientLingers
      <4>1. PICK k \in 0 .. Len(request.text) : Splits(request.text, SubSeq(request.text, 1, k), coming)
        BY <1>4
      <4> DEFINE got == SubSeq(request.text, 1, k)
      <4>2. Splits(request.text, got, coming)
        BY <4>1
      <4> HIDE DEF got
      <4>3. PICK n \in 0 .. Len(coming) : coming' = SubSeq(coming, n + 1, Len(coming))
        BY <3>3 DEF ClientLingers
      <4>4. coming \in Seq(STRING)
        BY <1>3, <4>2, SplitsType
      <4>5. \E j \in 0 .. Len(request.text) : Splits(request.text, SubSeq(request.text, 1, j), coming')
        <5>1. CASE n = 0
          <6>1. coming' = coming
            BY <4>3, <4>4, <5>1, SubSeqFull
          <6> QED BY <4>2, <6>1, SplitsSome
        <5>2. CASE n # 0
          <6>1. n \in 1 .. Len(coming)
            BY <4>3, <4>4, <5>2, LenProperties
          <6>2. Splits(request.text, got \o SubSeq(coming, 1, n), coming')
            BY <1>3, <4>2, <4>3, <6>1, SplitsMove
          <6> QED BY <6>2, SplitsSome
        <5> QED BY <5>1, <5>2
      <4>6. request' = request
        BY <3>3 DEF ClientLingers
      <4> QED BY <3>1, <4>5, <4>6 DEF RequestInv, ComingInv, EolInv, HeardInv
    <3> QED BY <2>1, <3>2, <3>3 DEF TcpClose
  <2>2. CASE TcpListen
    <3>1. /\ pc = "listen" /\ pc' = "poll" /\ io_buf' = io_buf /\ found_eol' = FALSE
          /\ request' \in Requests /\ coming' = request'.text /\ late' = late
          /\ io_buf \in Seq(STRING) /\ (~late => io_buf = <<>>)
      BY <1>1, <2>2 DEF TcpListen, Listened, RequestInv, ComingInv
    <3>2. Splits(request'.text, <<>>, coming')
      BY <1>3, <3>1, SplitsWhole
    <3>3. \E k \in 0 .. Len(request'.text) : Splits(request'.text, SubSeq(request'.text, 1, k), coming')
      BY <3>2, SplitsSome
    <3>4. ComingInv'
      BY <1>1, <3>1, <3>2, <3>3, NoRequestIsNone DEF ComingInv
    <3> QED BY <3>1, <3>4 DEF RequestInv, EolInv, HeardInv
  <2>3. CASE ListenHears
    <3>1. /\ pc = "listen" /\ pc' = pc /\ Arrives /\ UNCHANGED <<open, request>>
          /\ late' = (late \/ ~found_eol)
          /\ io_buf \in Seq(STRING) /\ (~late => io_buf = <<>>)
      BY <1>1, <2>3 DEF ListenHears, RequestInv, ComingInv
    <3>2. PICK k \in 0 .. Len(request.text) : Splits(request.text, SubSeq(request.text, 1, k), coming)
      BY <1>4
    <3>3. /\ \E j \in 0 .. Len(request.text) : Splits(request.text, SubSeq(request.text, 1, j), coming')
          /\ io_buf' \in Seq(STRING) /\ (found_eol => io_buf' = io_buf)
      BY <1>1, <1>3, <3>1, <3>2, ArrivesType
    <3>4. ComingInv'
      <4>1. request' = NoRequest => ~open'
        BY <1>1, <3>1 DEF RequestInv, ComingInv
      <4>2. ~late' => io_buf' = <<>>
        BY <3>1, <3>3
      <4> QED BY <3>1, <3>3, <4>1, <4>2 DEF ComingInv
    <3> QED BY <3>1, <3>4 DEF RequestInv, EolInv, HeardInv
  <2>4. CASE ListenReturnsClosed
    <3>1. /\ pc = "listen" /\ pc' = "poll" /\ io_buf' = io_buf /\ found_eol' = FALSE /\ late' = TRUE
          /\ request # NoRequest /\ UNCHANGED <<open, request, coming>>
          /\ io_buf \in Seq(STRING)
      BY <1>1, <2>4 DEF ListenReturnsClosed, Listened, RequestInv, ComingInv
    <3>2. ComingInv'
      BY <1>1, <1>4, <3>1 DEF RequestInv, ComingInv
    <3> QED BY <3>1, <3>2 DEF RequestInv, EolInv, HeardInv
  <2>5. CASE Poll \/ PollAborted
    <3>1. /\ pc = "poll" /\ Ip65Process /\ UNCHANGED <<method, path>>
          /\ pc' \in {"poll", "parse", "close", "end"}
          /\ pc' = "poll" => ~found_eol'
          /\ pc' = "parse" => found_eol'
      BY <2>5 DEF Poll, MainPollingLoop, Polled, PollAborted
    <3>2. /\ ~late => Splits(request.text, io_buf', coming')
          /\ \E k \in 0 .. Len(request.text) : Splits(request.text, SubSeq(request.text, 1, k), coming')
          /\ io_buf' \in Seq(STRING) /\ (found_eol' => EOL \in Range(io_buf'))
      BY <1>1, <3>1, ProcessStep
    <3>4. request' = request /\ request \in Requests /\ late' = late
      BY <1>1, <3>1, ProcessOpens DEF RequestInv, ComingInv
    <3>5. ComingInv'
      BY <3>1, <3>2, <3>4, NoRequestIsNone DEF ComingInv
    <3> QED BY <3>1, <3>2, <3>5 DEF RequestInv, EolInv, HeardInv
  <2>6. CASE ParseRequest
    <3>1. /\ pc = "parse" /\ pc' = "handler" /\ method' = MethodOf(io_buf) /\ path' = PathOf(io_buf)
          /\ UNCHANGED <<found_eol, open, request, coming, late>>
      BY <2>6 DEF ParseRequest, loopVars, clientVars
    <3>2. /\ request \in Requests /\ found_eol /\ EOL \in Range(io_buf)
          /\ ~late => Splits(request.text, io_buf, coming)
      BY <1>1, <3>1 DEF RequestInv, ComingInv, EolInv
    <3>3. ComingInv'
      BY <1>1, <1>4, <3>1, <3>2 DEF RequestInv, ComingInv
    <3>4. ASSUME ~late
          PROVE  IF request.text[1] = EOL THEN MethodOf(io_buf) = <<>>
                 ELSE MethodOf(io_buf) = request.method /\ PathOf(io_buf) = request.path
      <4>1. PICK k \in 0 .. Len(request.text) : io_buf = SubSeq(request.text, 1, k)
        BY <3>2, <3>4 DEF Splits
      <4> QED BY <3>2, <4>1, ParsedIsMeant
    <3>5. HeardInv'
      BY <3>1, <3>4 DEF HeardInv
    <3> QED BY <3>1, <3>2, <3>3, <3>5 DEF RequestInv, EolInv
  <2>7. CASE Emit \/ TcpSendClosed \/ TcpSendReturns \/ TcpSendFails
    <3>1. /\ Emitting /\ pc' \in {"emit", "send", "send_last", "handler"}
          /\ open' => open
          /\ UNCHANGED <<found_eol, request, coming, late>>
      BY <2>7, SentShape DEF Emit, clientVars, Sending
    <3>2. found_eol /\ at' # "start"
      BY <1>1, <1>7, <3>1 DEF RequestInv, EolInv, BatchInv
    <3>3. ComingInv'
      BY <1>1, <1>4, <3>1 DEF RequestInv, ComingInv
    <3> QED BY <3>1, <3>2, <3>3 DEF RequestInv, EolInv, HeardInv
  <2>8. CASE TcpSendPolls
    <3>1. /\ Emitting /\ open /\ Arrives /\ UNCHANGED <<open, pc, request, late>>
      BY <2>8 DEF TcpSendPolls, ClientSends
    <3>2. found_eol /\ found_eol' = found_eol /\ request \in Requests
      BY <1>1, <3>1 DEF RequestInv, EolInv, ComingInv, Arrives, HttpCallback
    <3>3. PICK k \in 0 .. Len(request.text) : Splits(request.text, SubSeq(request.text, 1, k), coming)
      BY <1>4
    <3> DEFINE got == SubSeq(request.text, 1, k)
    <3>4. Splits(request.text, got, coming)
      BY <3>3
    <3> HIDE DEF got
    <3>5. \E n : Splits(request.text, got \o SubSeq(coming, 1, n), coming')
      BY <1>3, <3>1, <3>4, ArrivesStep
    <3>6. \E j \in 0 .. Len(request.text) : Splits(request.text, SubSeq(request.text, 1, j), coming')
      BY <3>5, SplitsSome
    <3>7. ComingInv'
      BY <1>1, <3>1, <3>2, <3>6 DEF RequestInv, ComingInv
    <3> QED BY <3>1, <3>2, <3>7 DEF RequestInv, EolInv, HeardInv
  <2>9. CASE ListenAborted
    <3>1. pc = "listen" /\ pc' = "end" /\ UNCHANGED <<found_eol, open, request, coming, late>>
      BY <2>9 DEF ListenAborted, loopVars, clientVars
    <3>2. ComingInv'
      BY <1>1, <1>4, <3>1 DEF RequestInv, ComingInv
    <3> QED BY <3>1, <3>2 DEF RequestInv, EolInv, HeardInv
  <2> QED BY <1>7, <2>1, <2>2, <2>3, <2>4, <2>5, <2>6, <2>7, <2>8, <2>9 DEF LoopMove
<1>8. CASE UNCHANGED vars
  BY <1>1, <1>8 DEF vars, hfsVars, httpdVars, loopVars, clientVars, RequestInv, ComingInv, EolInv, HeardInv
<1> QED BY <1>2, <1>5, <1>6, <1>7, <1>8

----------------------------------------------------------------------------
(* The types.                                                              *)

\* httpd_send_response starts with the header in io_buf, if that.
LEMMA SendResponseShape ==
  ASSUME NEW type \in Types, NEW data, SendResponse(type, data)
  PROVE  /\ pc' = "emit" /\ io_buf' = HeaderOf(type) /\ io_buf' \in Seq(Word) /\ Len(io_buf') <= 1
         /\ response' = IF type \in {HTTPD_RESPONSE_404, HTTPD_RESPONSE_500} THEN <<>> ELSE data
<1>1. HeaderOf(type) \in Seq(Word) /\ Len(HeaderOf(type)) <= 1
  BY HeaderType
<1> QED BY <1>1 DEF SendResponse, HeaderOf

\* The handler sends nothing else.
LEMMA HandlerSends ==
  ASSUME HfsTypeOK, HttpServer \/ Send \/ SendPiece
  PROVE  \/ pc' = "handler" /\ io_buf' = io_buf
         \/ pc' = "emit" /\ io_buf' \in Seq(Word) /\ Len(io_buf') <= 1
<1>1. send_type \in Types /\ BatchType \in Types
  BY DEF HfsTypeOK, BatchType, Types
<1>2. CASE HttpServer
  <2>1. \/ pc' = "handler" /\ io_buf' = io_buf
        \/ SendResponse(HTTPD_RESPONSE_500, <<>>) \/ SendResponse(HTTPD_RESPONSE_404, <<>>)
    BY <1>2 DEF HttpServer, Handling, ServePath, Page, Raw, Reply
  <2>2. HTTPD_RESPONSE_500 \in Types /\ HTTPD_RESPONSE_404 \in Types
    BY DEF Types
  <2> QED BY <2>1, <2>2, SendResponseShape
<1>3. CASE Send
  <2>1. (pc' = "handler" /\ io_buf' = io_buf) \/ SendResponse(BatchType, Batch)
    BY <1>3 DEF Send, Handling
  <2> QED BY <1>1, <2>1, SendResponseShape
<1>4. CASE SendPiece
  <2>1. SendResponse(send_type, Head(todo))
    BY <1>4 DEF SendPiece
  <2> QED BY <1>1, <2>1, SendResponseShape
<1> QED BY <1>2, <1>3, <1>4

\* ConcatAssociative, for words, as an opaque fact.
Associate(s, t, u) == (s \o t) \o u = s \o (t \o u)

\* It is one.
LEMMA WordsAssociate ==
  ASSUME NEW s \in Seq(Word), NEW t \in Seq(Word), NEW u \in Seq(Word)
  PROVE  Associate(s, t, u)
BY ConcatAssociative DEF Associate

\* As much of the response as there is room for goes to io_buf.
LEMMA EmitShape ==
  ASSUME BufferInv, Emit
  PROVE  /\ pc = "emit" /\ pc' \in {"send", "send_last"}
         /\ io_buf' \in Seq(Word) /\ Len(io_buf') <= OutSize
         /\ response' \in Seq(Word) /\ io_buf' \o response' = io_buf \o response
         /\ pc' = "send_last" => response' = <<>>
         /\ UNCHANGED <<found_eol, connection_closed, timeout, method, path, now, clock, clientVars>>
<1> DEFINE n == Room
           len == Len(response)
<1>1. pc = "emit" /\ io_buf \in Seq(Word) /\ response \in Seq(Word) /\ Len(io_buf) <= 1
  BY DEF Emit, BufferInv, Emitting
<1>2. Len(io_buf) \in Nat /\ len \in Nat
  BY <1>1, LenProperties
<1>3. n \in Nat /\ n >= 1 /\ Len(io_buf) + n = OutSize
  BY <1>1, <1>2, SizeAssumption DEF Room
<1>4. UNCHANGED <<found_eol, connection_closed, timeout, method, path, now, clock, clientVars>>
  BY PTL DEF Emit
<1>5. CASE len >= n
  <2> DEFINE piece == SubSeq(response, 1, n)
             from == n + 1
             rest == SubSeq(response, from, len)
  <2>1. io_buf' = io_buf \o piece /\ response' = rest /\ pc' = "send"
    BY <1>5 DEF Emit
  <2>2. /\ 1 \in 1 .. len + 1 /\ n \in 0 .. len /\ 1 <= n + 1 /\ n - 1 + 1 = n
        /\ from \in 1 .. len + 1 /\ len \in 0 .. len /\ from <= len + 1
        /\ n \in 1 - 1 .. len /\ len \in n .. len
    BY <1>2, <1>3, <1>5
  <2>3. piece \in Seq(Word) /\ Len(piece) = n
    <3> HIDE DEF n
    <3> QED BY <1>1, <2>2, CutType
  <2>4. rest \in Seq(Word)
    <3> HIDE DEF from
    <3> QED BY <1>1, <2>2, CutType
  <2>5. piece \o rest = SubSeq(response, 1, len)
    <3> HIDE DEF n, len
    <3> QED BY <1>1, <2>2, ConcatAdjacentSubSeq DEF len
  <2>6. SubSeq(response, 1, len) = response
    BY <1>1, SubSeqFull
  <2> HIDE DEF piece, rest
  <2>7. /\ io_buf \o piece \in Seq(Word) /\ Len(io_buf \o piece) = OutSize
        /\ (io_buf \o piece) \o rest = io_buf \o (piece \o rest)
    <3>1. io_buf \o piece \in Seq(Word) /\ Len(io_buf \o piece) = Len(io_buf) + n
      BY <1>1, <2>3, ConcatProperties
    <3>2. (io_buf \o piece) \o rest = io_buf \o (piece \o rest)
      <4>1. Associate(io_buf, piece, rest)
        BY <1>1, <2>3, <2>4, WordsAssociate
      <4> QED BY <4>1, Zenon DEF Associate
    <3>3. Len(io_buf \o piece) = OutSize
      BY <1>3, <3>1, Zenon
    <3> QED BY <3>1, <3>2, <3>3, Zenon
  <2>8. OutSize <= OutSize
    BY SizeAssumption
  <2> QED BY <1>1, <1>4, <2>1, <2>4, <2>5, <2>6, <2>7, <2>8, Zenon
<1>6. CASE ~ (len >= n)
  <2>1. io_buf' = io_buf \o response /\ response' = <<>> /\ pc' = "send_last"
    BY <1>6 DEF Emit
  <2>2. io_buf \o response \in Seq(Word) /\ Len(io_buf \o response) = Len(io_buf) + len
    BY <1>1, ConcatProperties
  <2>3. Len(io_buf) + len <= OutSize
    BY <1>2, <1>3, <1>6
  <2>4. (io_buf \o response) \o <<>> = io_buf \o response /\ <<>> \in Seq(Word)
    BY <2>2, ConcatEmptySeq, EmptySeq
  <2> QED BY <1>1, <1>4, <2>1, <2>2, <2>3, <2>4
<1> QED BY <1>5, <1>6

\* io_buf does not overflow, if nothing of the client has come too early.
BufOK ==
  IF pc \in {"emit", "send", "send_last"} THEN Len(io_buf) <= OutSize ELSE late \/ Len(io_buf) < IoSize

\* ... whatever the step.
LEMMA BufferSizeStep ==
  ASSUME HfsInv, [Next]_vars
  PROVE  BufOK'
<1> USE DEF BufOK
<1>1. HfsTypeOK /\ HttpdTypeOK /\ BufOK /\ RequestInv /\ BufferInv /\ found_eol \in BOOLEAN
  BY DEF HfsInv, HfsTypeOK, HttpdTypeOK
<1>2. /\ OutSize \in Nat /\ IoSize \in Nat /\ 1 <= OutSize /\ OutSize <= IoSize /\ Len(<<>>) = 0
      /\ 0 <= OutSize /\ 0 < IoSize
  BY SizeAssumption
<1>3. \/ HttpServer \/ Send \/ SendPiece \/ ReturnFromHandler
      \/ LoopMove /\ UNCHANGED hfsVars
      \/ UNCHANGED vars
  BY Moves
<1>4. CASE HttpServer \/ Send \/ SendPiece
  <2>1. \/ pc' = "handler" /\ io_buf' = io_buf
        \/ pc' = "emit" /\ io_buf' \in Seq(Word) /\ Len(io_buf') <= 1
    BY <1>1, <1>4, HandlerSends
  <2>2. pc = "handler" /\ late' = late
    BY <1>4, HandlerShape DEF clientVars
  <2>3. CASE pc' = "handler" /\ io_buf' = io_buf
    BY <1>1, <2>2, <2>3
  <2>4. CASE pc' = "emit" /\ io_buf' \in Seq(Word) /\ Len(io_buf') <= 1
    <3>1. Len(io_buf') \in Nat
      BY <2>4, LenProperties
    <3> QED BY <1>2, <2>4, <3>1
  <2> QED BY <2>1, <2>3, <2>4
<1>5. CASE ReturnFromHandler
  <2>1. pc = "handler" /\ pc' = "close" /\ io_buf' = io_buf /\ late' = late
    BY <1>5 DEF ReturnFromHandler, loopVars, clientVars
  <2> QED BY <1>1, <2>1
<1>6. CASE LoopMove /\ UNCHANGED hfsVars
  <2>1. CASE TcpClose
    BY <1>2, <2>1 DEF TcpClose
  <2>2. CASE TcpListen \/ ListenReturnsClosed \/ ListenAborted
    <3>1. io_buf' = io_buf /\ pc = "listen" /\ pc' \in {"poll", "end"} /\ (late' = late \/ late')
      BY <2>2 DEF TcpListen, ListenReturnsClosed, Listened, ListenAborted, loopVars, clientVars
    <3> QED BY <1>1, <3>1
  <2>3. CASE ListenHears
    <3>1. pc = "listen" /\ pc' = "listen" /\ late' = (late \/ ~found_eol) /\ Arrives
      BY <2>3 DEF ListenHears
    <3>2. found_eol => io_buf' = io_buf
      BY <3>1 DEF Arrives, HttpCallback
    <3> QED BY <1>1, <3>1, <3>2
  <2>4. CASE Poll \/ PollAborted
    <3>1. pc = "poll" /\ Ip65Process /\ pc' \in {"poll", "parse", "close", "end"}
      BY <2>4 DEF Poll, MainPollingLoop, Polled, PollAborted
    <3>2. /\ ~late => Splits(request.text, io_buf', coming')
          /\ request \in Requests /\ late' = late
      BY <1>1, <3>1, ProcessStep, ProcessOpens DEF RequestInv, ComingInv
    <3>3. ASSUME ~late PROVE Len(io_buf') < IoSize
      <4>1. request.text \in Seq(STRING) /\ Len(request.text) \in 1 .. IoSize - 1
        BY <3>2, RequestAssumption
      <4>2. io_buf' \in Seq(STRING) /\ Len(io_buf') <= Len(request.text)
        BY <3>2, <3>3, <4>1, SplitsType
      <4>3. Len(io_buf') \in Nat
        BY <4>2, LenProperties
      <4> QED BY <1>2, <4>1, <4>2, <4>3
    <3> QED BY <3>1, <3>2, <3>3
  <2>5. CASE ParseRequest
    <3>1. io_buf' = io_buf /\ pc = "parse" /\ pc' = "handler" /\ late' = late
      BY <2>5 DEF ParseRequest, loopVars, clientVars
    <3> QED BY <1>1, <3>1
  <2>6. CASE Emit
    BY <1>1, <2>6, EmitShape
  <2>7. CASE TcpSendClosed \/ TcpSendReturns \/ TcpSendFails
    BY <1>2, <2>7, SentShape
  <2>8. CASE TcpSendPolls
    <3>1. found_eol
      BY <1>1, <2>8 DEF TcpSendPolls, RequestInv, EolInv, Emitting
    <3>2. io_buf' = io_buf /\ pc' = pc /\ late' = late
      BY <2>8, <3>1 DEF TcpSendPolls, ClientSends, Arrives, HttpCallback
    <3> QED BY <1>1, <3>2
  <2> QED BY <1>6, <2>1, <2>2, <2>3, <2>4, <2>5, <2>6, <2>7, <2>8 DEF LoopMove
<1>7. CASE UNCHANGED vars
  BY <1>1, <1>7 DEF vars, httpdVars, loopVars, clientVars
<1> QED BY <1>3, <1>4, <1>5, <1>6, <1>7

\* Times are within the minute.
LEMMA OnTheClock ==
  ASSUME NEW m \in Nat, NEW n \in Nat
  PROVE  (m + n) % Seconds \in 0 .. Seconds - 1
<1>1. Seconds \in Nat /\ Seconds > 0 /\ m + n \in Nat
  BY TimeAssumption
<1> QED BY <1>1

\* The rest of what the library keeps.
LoopTypes ==
  /\ pc \in {"close", "listen", "poll", "parse", "handler", "emit", "send", "send_last", "end"}
  /\ found_eol \in BOOLEAN /\ connection_closed \in BOOLEAN
  /\ timeout \in 0 .. Seconds - 1 /\ now \in 0 .. Seconds - 1 /\ (clock \/ now = 0)
  /\ method \in Seq(STRING) /\ path \in Seq(STRING)
  /\ open \in BOOLEAN /\ late \in BOOLEAN /\ request \in Requests \cup {NoRequest}

\* It stays so.
LEMMA LoopTypesStep ==
  ASSUME HfsInv, [Next]_vars
  PROVE  LoopTypes'
<1>1. HfsTypeOK /\ LoopTypes /\ RequestInv /\ BufferInv
  BY DEF HfsInv, HfsTypeOK, HttpdTypeOK, LoopTypes
<1>2. \/ HttpServer \/ Send \/ SendPiece \/ ReturnFromHandler
      \/ LoopMove /\ UNCHANGED hfsVars
      \/ UNCHANGED vars
  BY Moves
<1> DEFINE Clock == timeout \in 0 .. Seconds - 1 /\ now \in 0 .. Seconds - 1 /\ (clock \/ now = 0)
           Client == open \in BOOLEAN /\ late \in BOOLEAN /\ request \in Requests \cup {NoRequest}
           Found == found_eol \in BOOLEAN /\ connection_closed \in BOOLEAN
<1>3. Clock /\ Client /\ Found
  BY <1>1 DEF LoopTypes
<1>4. CASE HttpServer \/ Send \/ SendPiece
  <2>1. /\ pc' \in {"handler", "emit"}
        /\ UNCHANGED <<found_eol, connection_closed, timeout, method, path, now, clock, clientVars>>
    BY <1>4, HandlerShape
  <2> QED BY <1>1, <2>1 DEF LoopTypes, clientVars
<1>5. CASE ReturnFromHandler
  BY <1>1, <1>5 DEF ReturnFromHandler, LoopTypes, loopVars, clientVars
<1>6. CASE LoopMove /\ UNCHANGED hfsVars
  <2>1. CASE TcpClose
    <3>1. pc' = "listen" /\ method' = <<>> /\ path' = <<>>
      BY <2>1 DEF TcpClose
    <3>2. Clock'
      <4>1. timeout' = 0 /\ now' = 0
        BY <2>1 DEF TcpClose
      <4> QED BY <4>1, TimeAssumption
    <3>3. Found' /\ Client'
      BY <1>3, <2>1 DEF TcpClose, ClientLeaves, ClientLingers
    <3> QED BY <3>1, <3>2, <3>3, EmptySeq DEF LoopTypes
  <2>2. CASE TcpListen \/ ListenReturnsClosed
    <3>1. pc' = "poll" /\ Client' /\ Found' /\ UNCHANGED <<method, path>>
      BY <1>3, <2>2 DEF TcpListen, ListenReturnsClosed, Listened
    <3>2. Clock'
      <4>1. /\ now' \in IF clock THEN 0 .. Seconds - 1 ELSE {now}
            /\ timeout' = (now' + HTTPD_TIMEOUT_SECONDS) % Seconds /\ clock' = clock
        BY <2>2 DEF TcpListen, ListenReturnsClosed, Listened
      <4>2. now' \in 0 .. Seconds - 1 /\ (clock' \/ now' = 0)
        BY <1>3, <4>1
      <4>3. timeout' \in 0 .. Seconds - 1
        <5>1. Seconds \in Nat /\ Seconds > 0 /\ HTTPD_TIMEOUT_SECONDS \in Nat /\ now' \in Nat
          BY <4>2, TimeAssumption
        <5>2. (now' + HTTPD_TIMEOUT_SECONDS) % Seconds \in 0 .. Seconds - 1
          BY <5>1, OnTheClock
        <5> QED BY <4>1, <5>2
      <4> QED BY <4>2, <4>3
    <3> QED BY <1>1, <3>1, <3>2 DEF LoopTypes
  <2>3. CASE ListenHears
    <3>1. /\ Arrives /\ late' = (late \/ ~found_eol)
          /\ UNCHANGED <<pc, connection_closed, timeout, method, path, now, clock, open, request>>
      BY <2>3 DEF ListenHears
    <3>2. found_eol' \in BOOLEAN
      BY <1>3, <3>1 DEF Arrives, HttpCallback
    <3> QED BY <1>1, <3>1, <3>2 DEF LoopTypes
  <2>4. CASE Poll \/ PollAborted
    <3>1. /\ pc = "poll" /\ Ip65Process /\ UNCHANGED <<timeout, method, path, clock>>
          /\ pc' \in {"poll", "parse", "close", "end"}
      BY <2>4 DEF Poll, MainPollingLoop, Polled, PollAborted
    <3>2. now' = now \/ \E later \in IF clock THEN 0 .. 1 ELSE {0} : now' = (now + later) % Seconds
      BY <2>4 DEF Poll, MainPollingLoop, PollAborted
    <3>3. Clock'
      <4>1. CASE now' = now
        BY <1>3, <3>1, <4>1
      <4>2. ASSUME NEW later \in IF clock THEN 0 .. 1 ELSE {0}, now' = (now + later) % Seconds
            PROVE  now' \in 0 .. Seconds - 1 /\ (clock' \/ now' = 0)
        <5>1. later \in Nat /\ now \in Nat /\ Seconds \in Nat /\ Seconds > 0
          BY <1>3, TimeAssumption
        <5>2. now' \in 0 .. Seconds - 1
          BY <4>2, <5>1
        <5>3. ~ clock => now' = 0
          <6>1. ~ clock => now + later = 0 /\ 0 % Seconds = 0
            BY <1>3, <5>1
          <6> QED BY <4>2, <6>1
        <5> QED BY <3>1, <5>2, <5>3
      <4> QED BY <1>3, <3>1, <3>2, <4>1, <4>2
    <3>4. Client'
      <4>1. request' = request /\ late' = late
        BY <3>1, ProcessOpens
      <4>2. open' \in BOOLEAN
        BY <1>3, <3>1 DEF Ip65Process, ClientSends, ClientCloses
      <4> QED BY <1>3, <4>1, <4>2
    <3>5. Found'
      <4>1. CASE ClientSends
        <5>1. connection_closed' = connection_closed /\ \E data : HttpCallback(data)
          BY <4>1 DEF ClientSends, Arrives
        <5>2. found_eol' \in BOOLEAN
          BY <1>3, <5>1 DEF HttpCallback
        <5> QED BY <1>3, <5>1, <5>2
      <4>2. CASE ClientCloses
        BY <1>3, <4>2 DEF ClientCloses
      <4> QED BY <1>3, <3>1, <4>1, <4>2 DEF Ip65Process
    <3> QED BY <1>1, <3>1, <3>3, <3>4, <3>5 DEF LoopTypes
  <2>5. CASE ParseRequest
    <3>1. /\ pc = "parse" /\ pc' = "handler" /\ method' = MethodOf(io_buf) /\ path' = PathOf(io_buf)
          /\ UNCHANGED <<found_eol, connection_closed, timeout, now, clock, open, request, late>>
      BY <2>5 DEF ParseRequest, loopVars, clientVars
    <3>2. io_buf \in Seq(STRING) /\ EOL \in Range(io_buf)
      BY <1>1, <3>1 DEF RequestInv, ComingInv, EolInv
    <3>3. MethodOf(io_buf) \in Seq(STRING) /\ PathOf(io_buf) \in Seq(STRING)
      BY <3>2, ParsedType
    <3> QED BY <1>1, <3>1, <3>3 DEF LoopTypes
  <2>6. CASE Emit
    <3>1. /\ pc' \in {"send", "send_last"}
          /\ UNCHANGED <<found_eol, connection_closed, timeout, method, path, now, clock, clientVars>>
      BY <2>6 DEF Emit
    <3> QED BY <1>1, <3>1 DEF LoopTypes, clientVars
  <2>7. CASE TcpSendClosed \/ TcpSendReturns \/ TcpSendFails
    <3>1. pc' \in {"emit", "handler"}
          /\ UNCHANGED <<found_eol, connection_closed, timeout, method, path, now, clock, request, late>>
      BY <2>7, SentShape
    <3>2. open' \in BOOLEAN
      BY <1>3, <2>7 DEF TcpSendClosed, TcpSendReturns, TcpSendFails
    <3> QED BY <1>1, <3>1, <3>2 DEF LoopTypes
  <2>8. CASE TcpSendPolls
    <3>1. found_eol
      BY <1>1, <2>8 DEF TcpSendPolls, RequestInv, EolInv, Emitting
    <3>2. UNCHANGED <<pc, found_eol, connection_closed, timeout, method, path, now, clock,
                      open, request, late>>
      BY <2>8, <3>1 DEF TcpSendPolls, ClientSends, Arrives, HttpCallback
    <3> QED BY <1>1, <3>2 DEF LoopTypes
  <2>9. CASE ListenAborted
    BY <1>1, <2>9 DEF ListenAborted, LoopTypes, loopVars, clientVars
  <2> QED BY <1>6, <2>1, <2>2, <2>3, <2>4, <2>5, <2>6, <2>7, <2>8, <2>9 DEF LoopMove
<1>7. CASE UNCHANGED vars
  BY <1>1, <1>7 DEF vars, httpdVars, LoopTypes, loopVars, clientVars
<1> QED BY <1>2, <1>4, <1>5, <1>6, <1>7

\* HfsTypeOK is invariant.
LEMMA TypeStep ==
  ASSUME HfsInv, [Next]_vars
  PROVE  HfsTypeOK'
<1>1. LoopTypes' /\ BufOK'
  BY LoopTypesStep, BufferSizeStep
<1>2. IsSuffix(coming, request.text)'
  <2>1. RequestInv'
    BY RequestStep
  <2>2. request' \in Requests \cup {NoRequest}
    BY <1>1 DEF LoopTypes
  <2>3. request'.text \in Seq(STRING)
    BY <2>2, RequestAssumption, NoRequestIsNone, EmptySeq
  <2>4. PICK got : Splits(request'.text, got, coming')
    BY <2>1 DEF RequestInv, ComingInv
  <2> QED BY <2>3, <2>4, SplitsSuffix
<1>3. /\ at' \in {"start", "page", "raw", "return"}
      /\ cwd' \in Dirs \cup {<<>>}
      /\ send_type' \in {HTTPD_RESPONSE_NOHEADER, HTTPD_RESPONSE_200_HTML, HTTPD_RESPONSE_200_DATA}
  <2>1. HfsTypeOK
    BY DEF HfsInv
  <2>2. CASE HttpServer
    BY <2>1, <2>2 DEF HfsTypeOK, HttpServer, ServePath, Page, Raw, Reply
  <2>3. CASE Send
    BY <2>1, <2>3 DEF HfsTypeOK, Send, BatchType
  <2>4. CASE SendPiece
    BY <2>1, <2>4 DEF HfsTypeOK, SendPiece
  <2>5. CASE ReturnFromHandler
    BY <2>1, <2>5 DEF HfsTypeOK, ReturnFromHandler
  <2>6. CASE UNCHANGED hfsVars
    BY <2>1, <2>6 DEF HfsTypeOK, hfsVars
  <2> QED BY Moves, <2>2, <2>3, <2>4, <2>5, <2>6 DEF vars
<1> QED BY <1>1, <1>2, <1>3 DEF HfsTypeOK, HttpdTypeOK, LoopTypes, BufOK

----------------------------------------------------------------------------
(* The batches.                                                            *)

\* What is read from the drives, and what is said about them, are words.
LEMMA RawType ==
  ASSUME NEW p \in DOMAIN Data
  PROVE  /\ Pieces(Data[p]) \in Seq(Seq(Word)) /\ FlattenSeq(Pieces(Data[p])) = Data[p]
         /\ Pieces(Data[p]) = <<>> <=> Data[p] = <<>>
BY DataType, FlattenPieces, Sizes

\* Where http_server goes.
LEMMA ServerGoes ==
  ASSUME HfsTypeOK, HttpServer
  PROVE  /\ Handling("start") /\ UNCHANGED send_buffer
         /\ \/ \E texts \in Seq(TextSet) : texts # <<>> /\ Page(texts)
            \/ \E p \in DOMAIN Data : Raw(p)
            \/ \E type \in {HTTPD_RESPONSE_404, HTTPD_RESPONSE_500} : Reply(type)
<1>1. Handling("start")
  BY DEF HttpServer
<1> DEFINE Goes == \/ \E texts \in Seq(TextSet) : texts # <<>> /\ Page(texts)
                   \/ \E p \in DOMAIN Data : Raw(p)
                   \/ \E type \in {HTTPD_RESPONSE_404, HTTPD_RESPONSE_500} : Reply(type)
<1>2. Reply(HTTPD_RESPONSE_500) => Goes
  OBVIOUS
<1>3. Page(RootTexts) => Goes
  BY RootTextsType
<1>4. ASSUME NEW p \in Dirs, ServePath(p) PROVE Goes
  <2>2. IF p \in DOMAIN Entries THEN Page(DirTexts(p)) ELSE Reply(HTTPD_RESPONSE_500)
    BY <1>4 DEF ServePath
  <2>3. p \in Seq(STRING)
    BY DriveAssumption
  <2>4. p \in DOMAIN Entries => DirTexts(p) \in Seq(TextSet) /\ DirTexts(p) # <<>>
    BY <2>3, DirTextsType
  <2> QED BY <2>2, <2>4
<1>5. ASSUME NEW p, p \notin Dirs, ServePath(p) PROVE Goes
  <2>2. (\E q \in DOMAIN Data : Raw(q)) \/ Reply(HTTPD_RESPONSE_404) \/ Reply(HTTPD_RESPONSE_500)
    BY <1>5 DEF ServePath
  <2> QED BY <2>2
<1>6. \/ Reply(HTTPD_RESPONSE_500) \/ Page(RootTexts) \/ \E p : ServePath(p)
  BY DEF HttpServer
<1>7. Goes
  BY <1>2, <1>3, <1>4, <1>5, <1>6
<1>8. UNCHANGED send_buffer
  BY <1>7 DEF Page, Raw, Reply
<1> QED BY <1>1, <1>7, <1>8

\* send() adds a text.
LEMMA BatchParts ==
  ASSUME BatchInv, Handling("page"), todo # <<>>
  PROVE  /\ Batch \in Seq(Word) /\ Head(todo) \in Seq(Word) /\ Tail(todo) \in Seq(Seq(Word))
         /\ Batch = send_buffer \o Head(todo)
         /\ FlattenSeq(todo) = Head(todo) \o FlattenSeq(Tail(todo))
<1>1. send_buffer \in Seq(Word) /\ todo \in Seq(Seq(Word)) /\ (first => send_buffer = <<>>)
  BY DEF BatchInv
<1>2. Head(todo) \in Seq(Word) /\ Tail(todo) \in Seq(Seq(Word))
  BY <1>1, HeadTailProperties
<1>3. Batch = send_buffer \o Head(todo)
  BY <1>1 DEF Batch
<1>4. FlattenSeq(todo) = Head(todo) \o FlattenSeq(Tail(todo))
  BY <1>1, FlattenHead
<1> QED BY <1>1, <1>2, <1>3, <1>4, ConcatProperties

\* BatchInv is invariant.
LEMMA BatchStep ==
  ASSUME HfsInv, [Next]_vars
  PROVE  BatchInv'
<1>1. HfsTypeOK /\ BatchInv
  BY DEF HfsInv
<1>2. CASE HttpServer
  <2>1. /\ pc = "handler" /\ at = "start" /\ send_buffer = <<>> /\ send_buffer' = <<>>
        /\ pc' \in {"handler", "emit"} /\ at' \in {"page", "raw", "return"}
    BY <1>1, <1>2, ServerGoes, HandlerShape DEF BatchInv, Handling
  <2>2. todo \in Seq(Seq(Word)) /\ first \in BOOLEAN /\ <<>> \in Seq(Word)
    BY <1>1, EmptySeq DEF BatchInv
  <2>3. ASSUME NEW texts \in Seq(TextSet), texts # <<>>, Page(texts) PROVE BatchInv'
    <3>1. at' = "page" /\ todo' = texts /\ first' = TRUE /\ pc' = "handler"
      BY <2>1, <2>3 DEF Page
    <3>2. texts \in Seq(Seq(Word)) /\ \A i \in DOMAIN texts : Len(texts[i]) < BufSize \div 4
      BY <2>3, TextsAreSeqs
    <3>3. Len(<<>>) <= BufSize - BufSize \div 4
      BY Sizes
    <3> QED BY <2>1, <2>2, <2>3, <3>1, <3>2, <3>3 DEF BatchInv, Answering, Emitting
  <2>4. ASSUME NEW p \in DOMAIN Data, Raw(p) PROVE BatchInv'
    <3>1. at' = "raw" /\ todo' = Pieces(Data[p]) /\ first' = first /\ pc' = "handler"
      BY <2>1, <2>4 DEF Raw
    <3> QED BY <2>1, <2>2, <3>1, RawType DEF BatchInv, Answering, Emitting
  <2>5. ASSUME NEW type, Reply(type) PROVE BatchInv'
    <3>1. at' = "return" /\ todo' = todo /\ first' = first /\ pc' = "emit"
      BY <2>5 DEF Reply, SendResponse
    <3> QED BY <2>1, <2>2, <3>1 DEF BatchInv, Answering, Emitting
  <2> QED BY <1>1, <1>2, <2>3, <2>4, <2>5, ServerGoes
<1>3. CASE Send
  <2>1. /\ Handling("page") /\ todo # <<>> /\ at = "page" /\ at' = "page" /\ todo' = Tail(todo) /\ first' = FALSE
        /\ pc' \in {"handler", "emit"}
    BY <1>3, HandlerShape DEF Send, Handling
  <2>2. Batch \in Seq(Word) /\ Tail(todo) \in Seq(Seq(Word)) /\ <<>> \in Seq(Word)
    BY <1>1, <2>1, BatchParts, EmptySeq
  <2>3. \A i \in DOMAIN todo' : Len(todo'[i]) < BufSize \div 4
    <3>1. todo \in Seq(Seq(Word)) /\ \A i \in DOMAIN todo : Len(todo[i]) < BufSize \div 4
      BY <1>1, <2>1 DEF BatchInv
    <3>2. Len(Tail(todo)) = Len(todo) - 1 /\ \A i \in 1 .. Len(Tail(todo)) : Tail(todo)[i] = todo[i + 1]
      BY <2>1, <3>1, HeadTailProperties
    <3>3. Len(todo) \in Nat /\ DOMAIN todo = 1 .. Len(todo) /\ DOMAIN Tail(todo) = 1 .. Len(Tail(todo))
      BY <2>2, <3>1, LenProperties
    <3>4. \A i \in 1 .. Len(todo) - 1 : i + 1 \in 1 .. Len(todo)
      BY <3>3
    <3> QED BY <2>1, <3>1, <3>2, <3>3, <3>4
  <2>4. CASE Len(todo) = 1 \/ Full(Len(Batch))
    <3>1. send_buffer' = <<>> /\ send_type' = HTTPD_RESPONSE_NOHEADER /\ pc' = "emit"
      BY <1>3, <2>4 DEF Send, SendResponse
    <3>2. Len(<<>>) <= BufSize - BufSize \div 4
      BY Sizes
    <3> QED BY <2>1, <2>2, <2>3, <3>1, <3>2 DEF BatchInv, Answering, Emitting
  <2>5. CASE ~ (Len(todo) = 1 \/ Full(Len(Batch)))
    <3>1. send_buffer' = Batch /\ pc' = "handler"
      BY <1>3, <2>1, <2>5 DEF Send, Handling
    <3>2. Len(Batch) <= BufSize - BufSize \div 4
      <4>1. Len(Batch) \in Nat
        BY <2>2, LenProperties
      <4>2. ~ (BufSize - Len(Batch) < BufSize \div 4)
        BY <2>5 DEF Full
      <4> QED BY <4>1, <4>2, Sizes
    <3>3. Tail(todo) # <<>>
      <4>1. todo \in Seq(Seq(Word)) /\ Len(todo) # 1
        BY <1>1, <2>5 DEF BatchInv
      <4>2. Len(Tail(todo)) = Len(todo) - 1 /\ Len(todo) \in Nat
        BY <2>1, <4>1, HeadTailProperties
      <4>3. Len(Tail(todo)) # 0
        BY <4>1, <4>2
      <4> QED BY <4>3, EmptySeq
    <3> QED BY <2>1, <2>2, <2>3, <3>1, <3>2, <3>3 DEF BatchInv, Answering, Emitting
  <2> QED BY <2>4, <2>5
<1>4. CASE SendPiece
  <2>1. /\ at = "raw" /\ at' = "raw" /\ todo # <<>> /\ todo' = Tail(todo) /\ UNCHANGED <<send_buffer, first>>
        /\ pc' = "emit"
    BY <1>4 DEF SendPiece, Handling, SendResponse
  <2>2. todo \in Seq(Seq(Word))
    BY <1>1 DEF BatchInv
  <2>3. Tail(todo) \in Seq(Seq(Word))
    BY <2>1, <2>2, HeadTailProperties
  <2> QED BY <1>1, <2>1, <2>3 DEF BatchInv, Answering, Emitting
<1>5. CASE ReturnFromHandler
  <2>1. /\ at' = "start" /\ pc' = "close" /\ UNCHANGED <<send_buffer, todo, first>>
        /\ at = "page" => todo = <<>>
    BY <1>5 DEF ReturnFromHandler
  <2> QED BY <1>1, <2>1 DEF BatchInv, Answering, Emitting
<1>6. CASE LoopMove /\ UNCHANGED hfsVars
  <2>1. UNCHANGED <<at, send_buffer, send_type, todo, first>>
    BY <1>6 DEF hfsVars
  <2>2. CASE \/ TcpClose \/ TcpListen \/ ListenHears \/ ListenReturnsClosed \/ ListenAborted
           \/ Poll \/ PollAborted \/ ParseRequest
    <3>1. pc \in {"close", "listen", "poll", "parse"}
      BY <2>2 DEF TcpClose, TcpListen, ListenHears, ListenReturnsClosed, Listened, ListenAborted,
         Poll, MainPollingLoop, PollAborted, ParseRequest
    <3>2. pc' \in {"close", "listen", "poll", "parse", "handler", "end"}
      BY <2>2 DEF TcpClose, TcpListen, ListenHears, ListenReturnsClosed, Listened, ListenAborted,
         Poll, MainPollingLoop, Polled, PollAborted, ParseRequest
    <3>3. at = "start"
      BY <1>1, <3>1 DEF BatchInv, Answering, Emitting
    <3> QED BY <1>1, <2>1, <3>2, <3>3 DEF BatchInv, Answering, Emitting
  <2>3. CASE Emit \/ TcpSendClosed \/ TcpSendReturns \/ TcpSendFails \/ TcpSendPolls
    <3>1. pc \in {"emit", "send", "send_last"}
      BY <2>3, SentShape DEF Emit, Sending, TcpSendPolls
    <3>2. pc' \in {"emit", "send", "send_last", "handler"}
      BY <2>3, <3>1, SentShape DEF Emit, TcpSendPolls
    <3>3. at # "start"
      BY <1>1, <3>1 DEF BatchInv, Emitting
    <3> QED BY <1>1, <2>1, <3>2, <3>3 DEF BatchInv, Answering, Emitting
  <2> QED BY <1>6, <2>2, <2>3 DEF LoopMove
<1>7. CASE UNCHANGED vars
  BY <1>1, <1>7 DEF vars, httpdVars, hfsVars, BatchInv, Answering, Emitting
<1> QED BY Moves, <1>2, <1>3, <1>4, <1>5, <1>6, <1>7

\* BufferInv is invariant.
LEMMA BufferStep ==
  ASSUME HfsInv, [Next]_vars
  PROVE  BufferInv'
<1> USE DEF Emitting
<1>1. HfsTypeOK /\ BatchInv /\ BufferInv /\ RequestInv
  BY DEF HfsInv
<1>2. <<>> \in Seq(Word) /\ Len(<<>>) <= 1
  BY EmptySeq
<1>3. CASE HttpServer \/ Send \/ SendPiece
  <2>1. CASE pc' = "handler"
    BY <2>1 DEF BufferInv
  <2>2. CASE pc' # "handler"
    <3>1. pc' = "emit" /\ io_buf' \in Seq(Word) /\ Len(io_buf') <= 1
      BY <1>1, <1>3, <2>2, HandlerSends
    <3>2. response' \in Seq(Word)
      <4>1. CASE HttpServer
        <5>1. response' = <<>>
          BY <1>1, <2>2, <4>1, ServerGoes DEF Page, Raw, Reply, SendResponse, Handling
        <5> QED BY <1>2, <5>1
      <4>2. CASE Send
        <5>1. Handling("page") /\ todo # <<>> /\ response' \in {<<>>, Batch}
          BY <2>2, <4>2 DEF Send, SendResponse, Handling
        <5> QED BY <1>1, <1>2, <5>1, BatchParts
      <4>3. CASE SendPiece
        <5>1. response' \in {<<>>, Head(todo)} /\ todo # <<>>
          BY <4>3 DEF SendPiece, SendResponse
        <5>2. todo \in Seq(Seq(Word))
          BY <1>1 DEF BatchInv
        <5>3. Head(todo) \in Seq(Word)
          BY <5>1, <5>2, HeadTailProperties
        <5> QED BY <1>2, <5>1, <5>3
      <4> QED BY <1>3, <4>1, <4>2, <4>3
    <3> QED BY <3>1, <3>2 DEF BufferInv
  <2> QED BY <2>1, <2>2
<1>4. CASE ReturnFromHandler
  BY <1>4 DEF ReturnFromHandler, BufferInv
<1>5. CASE LoopMove /\ UNCHANGED hfsVars
  <2>1. CASE \/ TcpClose \/ TcpListen \/ ListenHears \/ ListenReturnsClosed \/ ListenAborted
           \/ Poll \/ PollAborted \/ ParseRequest
    <3>1. pc' \in {"close", "listen", "poll", "parse", "handler", "end"}
      BY <2>1 DEF TcpClose, TcpListen, ListenHears, ListenReturnsClosed, Listened, ListenAborted,
         Poll, MainPollingLoop, Polled, PollAborted, ParseRequest
    <3> QED BY <3>1 DEF BufferInv
  <2>2. CASE Emit
    <3>1. /\ pc' \in {"send", "send_last"} /\ io_buf' \in Seq(Word) /\ response' \in Seq(Word)
          /\ pc' = "send_last" => response' = <<>>
      BY <1>1, <2>2, EmitShape
    <3> QED BY <3>1 DEF BufferInv
  <2>3. CASE TcpSendClosed \/ TcpSendReturns \/ TcpSendFails
    <3>1. Sending /\ pc' \in {"emit", "handler"} /\ io_buf' = <<>> /\ response' = response
      BY <2>3, SentShape
    <3>2. response \in Seq(Word)
      BY <1>1, <3>1 DEF BufferInv, Sending
    <3> QED BY <1>2, <3>1, <3>2 DEF BufferInv
  <2>4. CASE TcpSendPolls
    <3>1. found_eol
      BY <1>1, <2>4 DEF TcpSendPolls, RequestInv, EolInv
    <3>2. UNCHANGED <<pc, io_buf, response>>
      BY <2>4, <3>1 DEF TcpSendPolls, ClientSends, Arrives, HttpCallback
    <3> QED BY <1>1, <3>2 DEF BufferInv
  <2> QED BY <1>5, <2>1, <2>2, <2>3, <2>4 DEF LoopMove
<1>6. CASE UNCHANGED vars
  BY <1>1, <1>6 DEF vars, httpdVars, loopVars, BufferInv
<1> QED BY Moves, <1>3, <1>4, <1>5, <1>6

----------------------------------------------------------------------------
(* The answer.                                                             *)

Header(type) == <<<<"header", type>>>>
Content(data) == IF data = <<>> THEN <<>> ELSE Header("data") \o data

\* The headers that are sent.
LEMMA HeadersType ==
  /\ Header("html") \in Seq(Word) /\ Header("data") \in Seq(Word)
  /\ Header("404") \in Seq(Word) /\ Header("500") \in Seq(Word)
<1>1. "html" \in Types /\ "data" \in Types /\ "404" \in Types /\ "500" \in Types
  BY DEF Types, HTTPD_RESPONSE_200_HTML, HTTPD_RESPONSE_200_DATA, HTTPD_RESPONSE_404, HTTPD_RESPONSE_500
<1>2. \A type \in Types : Header(type) \in Seq(Word)
  BY HeaderType DEF Header
<1> QED BY <1>1, <1>2

\* What is sent of a file is words.
LEMMA ContentType ==
  ASSUME NEW p \in DOMAIN Data
  PROVE  Content(Data[p]) \in Seq(Word)
BY DataType, HeadersType, EmptySeq, ConcatProperties DEF Content

\* There is a slash behind the first word where the last one is not the first word.
LEMMA NestedIs ==
  ASSUME NEW p \in Seq(STRING), p # <<>>
  PROVE  SLASH \in Range(Tail(p)) <=> LastOf(SLASH, p) > 1
<1> DEFINE cut == LastOf(SLASH, p)
<1>1. Len(p) \in Nat /\ Len(p) >= 1
  BY EmptySeq, LenProperties
<1>2. Tail(p) = SubSeq(p, 2, Len(p))
  BY TailIsSubSeq
<1>3. SLASH \in Range(SubSeq(p, 2, Len(p))) <=> \E j \in 2 .. Len(p) : p[j] = SLASH
  <2>1. 1 \in 0 .. Len(p) /\ 1 + 1 = 2
    BY <1>1
  <2> QED BY <2>1, RangeBehind
<1>4. \/ cut = 0 /\ \A j \in 1 .. Len(p) : p[j] # SLASH
      \/ /\ cut \in 1 .. Len(p) /\ p[cut] = SLASH
         /\ \A j \in cut + 1 .. Len(p) : p[j] # SLASH
  BY LastOfIs
<1> HIDE DEF cut
<1>5. (\E j \in 2 .. Len(p) : p[j] = SLASH) <=> cut > 1
  BY <1>1, <1>4
<1> QED BY <1>2, <1>3, <1>5 DEF cut

\* The files that are asked for are where the last slash is, ...
LEMMA FileIs ==
  ASSUME NEW p \in Seq(STRING), LastOf(SLASH, p) > 1
  PROVE  LET cut == LastOf(SLASH, p)
             dir == SubSeq(p, 1, cut - 1)
         IN  /\ Append(dir, SLASH) \o SubSeq(p, cut + 1, Len(p)) = p
             /\ (\E d \in Dirs : In(p, d, SLASH)) <=> dir \in Dirs
<1> DEFINE cut == LastOf(SLASH, p)
           dir == SubSeq(p, 1, cut - 1)
<1>1. cut \in 1 .. Len(p) /\ p[cut] = SLASH
  BY LastOfIs
<1>2. Append(SubSeq(p, 1, cut - 1), p[cut]) \o SubSeq(p, cut + 1, Len(p)) = p
  <2> HIDE DEF cut
  <2> QED BY <1>1, Rejoined
<1>3. \A d : In(p, d, SLASH) <=> cut # 0 /\ d = dir
  BY InIs
<1>4. cut # 0
  BY <1>1
<1> QED BY <1>1, <1>2, <1>3, <1>4

\* ... and the images where the last dot is.
LEMMA ImageIs ==
  ASSUME NEW p \in Seq(STRING)
  PROVE  LET dot  == LastOf(DOT, p)
             disk == SubSeq(p, 1, dot - 1)
         IN  {dir \in Dirs : ~clock /\ In(p, dir, DOT)}
               = IF ~clock /\ dot > 0 /\ disk \in Dirs THEN {disk} ELSE {}
<1> DEFINE dot  == LastOf(DOT, p)
           disk == SubSeq(p, 1, dot - 1)
<1>1. dot = 0 \/ dot \in 1 .. Len(p)
  BY LastOfIs
<1>2. \A d : In(p, d, DOT) <=> dot # 0 /\ d = disk
  BY InIs
<1>3. dot # 0 <=> dot > 0
  BY <1>1, LenProperties
<1> HIDE DEF dot, disk
<1>4. {dir \in Dirs : ~clock /\ In(p, dir, DOT)}
        = IF ~clock /\ dot > 0 /\ disk \in Dirs THEN {disk} ELSE {}
  BY <1>2, <1>3
<1> QED BY <1>4 DEF dot, disk

\* What the drives hold.
LEMMA HoldsIs ==
  ASSUME NEW p \in Seq(STRING), p # <<>>
  PROVE  LET cut   == LastOf(SLASH, p)
             dot   == LastOf(DOT, p)
             dir   == SubSeq(p, 1, cut - 1)
             disk  == SubSeq(p, 1, dot - 1)
             image == ~clock /\ dot > 0 /\ disk \in Dirs
         IN  /\ p \in Dirs => Holds(p) = IF p \in DOMAIN Entries
                                         THEN Header("html") \o FlattenSeq(DirTexts(p)) ELSE Header("500")
             /\ p \notin Dirs /\ cut > 1 =>
                  Holds(p) = IF dir \in Dirs /\ p \in DOMAIN Data THEN Content(Data[p]) ELSE Header("404")
             /\ p \notin Dirs /\ cut <= 1 =>
                  Holds(p) = IF ~image THEN Header("404")
                             ELSE IF disk \in DOMAIN Data THEN Content(Data[disk]) ELSE Header("500")
<1> DEFINE cut    == LastOf(SLASH, p)
           dot    == LastOf(DOT, p)
           dir    == SubSeq(p, 1, cut - 1)
           disk   == SubSeq(p, 1, dot - 1)
           is     == ~clock /\ dot > 0 /\ disk \in Dirs
           nested == SLASH \in Range(Tail(p))
           file   == p \in DOMAIN Data /\ \E d \in Dirs : In(p, d, SLASH)
           image  == {d \in Dirs : ~clock /\ In(p, d, DOT)}
<1>1. Holds(p) =
        IF p \in Dirs
        THEN IF p \in DOMAIN Entries THEN Header("html") \o FlattenSeq(DirTexts(p)) ELSE Header("500")
        ELSE IF nested THEN IF file THEN Content(Data[p]) ELSE Header("404")
        ELSE IF image = {} THEN Header("404")
        ELSE LET d == CHOOSE d \in image : TRUE
             IN  IF d \in DOMAIN Data THEN Content(Data[d]) ELSE Header("500")
  BY DEF Holds, Header, Content
<1>2. nested <=> cut > 1
  BY NestedIs
<1>3. cut > 1 => (file <=> dir \in Dirs /\ p \in DOMAIN Data)
  BY FileIs
<1>4. image = IF is THEN {disk} ELSE {}
  BY ImageIs
<1>5. cut <= 1 <=> ~ (cut > 1)
  <2>1. cut = 0 \/ cut \in 1 .. Len(p)
    BY LastOfIs
  <2>2. cut \in Nat
    BY <2>1, LenProperties
  <2> HIDE DEF cut
  <2> QED BY <2>2
<1>6. is => (CHOOSE d \in image : TRUE) = disk /\ image # {}
  <2> HIDE DEF is, disk, image
  <2>1. is => image = {disk}
    BY <1>4
  <2>2. (CHOOSE d \in {disk} : TRUE) \in {disk}
    OBVIOUS
  <2> QED BY <2>1, <2>2
<1> HIDE DEF cut, dot, dir, disk, is, nested, file, image
<1>7. p \in Dirs => Holds(p) = IF p \in DOMAIN Entries
                               THEN Header("html") \o FlattenSeq(DirTexts(p)) ELSE Header("500")
  BY <1>1
<1>8. p \notin Dirs /\ cut > 1 =>
        Holds(p) = IF dir \in Dirs /\ p \in DOMAIN Data THEN Content(Data[p]) ELSE Header("404")
  BY <1>1, <1>2, <1>3
<1>9. p \notin Dirs /\ cut <= 1 =>
        Holds(p) = IF ~is THEN Header("404")
                   ELSE IF disk \in DOMAIN Data THEN Content(Data[disk]) ELSE Header("500")
  BY <1>1, <1>2, <1>4, <1>5, <1>6
<1> QED BY <1>7, <1>8, <1>9 DEF cut, dot, dir, disk, is

\* Whatever the drives hold is words.
LEMMA HoldsType ==
  ASSUME NEW p \in Seq(STRING), p # <<>>
  PROVE  Holds(p) \in Seq(Word)
<1>1. /\ Header("html") \in Seq(Word) /\ Header("404") \in Seq(Word) /\ Header("500") \in Seq(Word)
      /\ \A q \in DOMAIN Data : Content(Data[q]) \in Seq(Word)
  BY HeadersType, ContentType
<1>2. p \in DOMAIN Entries => Header("html") \o FlattenSeq(DirTexts(p)) \in Seq(Word)
  BY <1>1, DirTextsType, TextsAreSeqs, ConcatProperties
<1>3. LastOf(SLASH, p) > 1 \/ LastOf(SLASH, p) <= 1
  <2>1. LastOf(SLASH, p) = 0 \/ LastOf(SLASH, p) \in 1 .. Len(p)
    BY LastOfIs
  <2>2. LastOf(SLASH, p) \in Nat
    BY <2>1, LenProperties
  <2> QED BY <2>2
<1> QED BY <1>1, <1>2, <1>3, HoldsIs

\* The path, as chdir gets it.
LEMMA PathType ==
  ASSUME NEW s \in Seq(STRING), Len(s) > 1
  PROVE  (IF clock THEN Tail(s) ELSE s) \in Seq(STRING) /\ (IF clock THEN Tail(s) ELSE s) # <<>>
<1>1. s # <<>> /\ Len(s) \in Nat
  BY EmptySeq, LenProperties
<1>2. Tail(s) \in Seq(STRING) /\ Len(Tail(s)) = Len(s) - 1
  BY <1>1, HeadTailProperties
<1>3. Tail(s) # <<>>
  <2>1. Len(Tail(s)) # 0
    BY <1>1, <1>2
  <2> QED BY <2>1, EmptySeq
<1> QED BY <1>1, <1>2, <1>3

\* A path that begins with a slash is that, or longer.
LEMMA LongerPath ==
  ASSUME NEW p \in Seq(STRING), p # <<>>, p[1] = SLASH, p # <<SLASH>>
  PROVE  Len(p) > 1
<1>1. Len(p) \in Nat /\ Len(p) >= 1
  BY EmptySeq, LenProperties
<1>2. Len(p) # 1
  <2>1. <<SLASH>> \in Seq(STRING) /\ Len(<<SLASH>>) = 1 /\ <<SLASH>>[1] = SLASH
    BY RequestAssumption, OneIsSeq
  <2>2. Len(p) = 1 => \A i \in 1 .. Len(p) : p[i] = <<SLASH>>[i]
    BY <2>1
  <2>3. Len(p) = 1 => p = <<SLASH>>
    BY <2>1, <2>2, SeqEqual
  <2> QED BY <2>3
<1> DEFINE len == Len(p)
<1>3. len \in Nat /\ len >= 1 /\ len # 1
  BY <1>1, <1>2
<1> HIDE DEF len
<1>4. len > 1
  BY <1>3
<1> QED BY <1>4 DEF len

\* So is the answer, ...
LEMMA AnswerType == request \in Requests => Answer \in Seq(Word)
<1> SUFFICES ASSUME request \in Requests PROVE Answer \in Seq(Word)
  OBVIOUS
<1> DEFINE p == request.path
<1>1. p \in Seq(STRING)
  BY RequestAssumption
<1>2. Header("html") \o FlattenSeq(RootTexts) \in Seq(Word) /\ Header("500") \in Seq(Word)
  BY HeadersType, RootTextsType, TextsAreSeqs, ConcatProperties
<1> HIDE DEF p
<1>3. p # <<>> /\ p[1] = SLASH /\ p # <<SLASH>> => Holds(IF clock THEN Tail(p) ELSE p) \in Seq(Word)
  BY <1>1, LongerPath, PathType, HoldsType
<1> QED BY <1>2, <1>3 DEF Answer, Header, p

\* ... also after a step.
LEMMA AnswerTypeNext == (request \in Requests => Answer \in Seq(Word))'
BY AnswerType, PTL

\* ServePath goes where the answer comes from.
LEMMA PathAnswers ==
  ASSUME HfsTypeOK, NEW p \in Seq(STRING), p # <<>>, ServePath(p)
  PROVE  \/ \E texts \in Seq(TextSet) :
              texts # <<>> /\ Page(texts) /\ Holds(p) = Header("html") \o FlattenSeq(texts)
         \/ \E q \in DOMAIN Data : Raw(q) /\ Holds(p) = Content(Data[q])
         \/ \E type \in {HTTPD_RESPONSE_404, HTTPD_RESPONSE_500} : Reply(type) /\ Holds(p) = Header(type)
<1> DEFINE cut   == LastOf(SLASH, p)
           dot   == LastOf(DOT, p)
           dir   == SubSeq(p, 1, cut - 1)
           disk  == SubSeq(p, 1, dot - 1)
           image == ~clock /\ dot > 0 /\ disk \in Dirs
           Goes  == \/ \E texts \in Seq(TextSet) :
                         texts # <<>> /\ Page(texts) /\ Holds(p) = Header("html") \o FlattenSeq(texts)
                    \/ \E q \in DOMAIN Data : Raw(q) /\ Holds(p) = Content(Data[q])
                    \/ \E type \in {HTTPD_RESPONSE_404, HTTPD_RESPONSE_500} :
                         Reply(type) /\ Holds(p) = Header(type)
<1>1. /\ p \in Dirs => Holds(p) = IF p \in DOMAIN Entries
                                  THEN Header("html") \o FlattenSeq(DirTexts(p)) ELSE Header("500")
      /\ p \notin Dirs /\ cut > 1 =>
           Holds(p) = IF dir \in Dirs /\ p \in DOMAIN Data THEN Content(Data[p]) ELSE Header("404")
      /\ p \notin Dirs /\ cut <= 1 =>
           Holds(p) = IF ~image THEN Header("404")
                      ELSE IF disk \in DOMAIN Data THEN Content(Data[disk]) ELSE Header("500")
  BY HoldsIs
<1>2. \/ /\ p \in Dirs
         /\ IF p \in DOMAIN Entries THEN Page(DirTexts(p)) ELSE Reply(HTTPD_RESPONSE_500)
      \/ /\ p \notin Dirs /\ cut > 1
         /\ cwd' = IF dir \in Dirs THEN dir ELSE cwd
         /\ LET name == Append(cwd', SLASH) \o SubSeq(p, cut + 1, Len(p))
            IN  IF dir \in Dirs /\ name \in DOMAIN Data THEN Raw(name) ELSE Reply(HTTPD_RESPONSE_404)
      \/ /\ p \notin Dirs /\ cut <= 1
         /\ IF ~image THEN Reply(HTTPD_RESPONSE_404)
            ELSE IF disk \in DOMAIN Data THEN Raw(disk)
            ELSE Reply(HTTPD_RESPONSE_500)
  BY DEF ServePath
<1>3. Header(HTTPD_RESPONSE_404) = Header("404") /\ Header(HTTPD_RESPONSE_500) = Header("500")
  BY DEF HTTPD_RESPONSE_404, HTTPD_RESPONSE_500
<1>4. ASSUME p \in Dirs PROVE Goes
  <2>1. p \in DOMAIN Entries => DirTexts(p) \in Seq(TextSet) /\ DirTexts(p) # <<>>
    BY DirTextsType
  <2> HIDE DEF cut, dot, dir, disk
  <2>2. CASE p \in DOMAIN Entries
    <3>1. Page(DirTexts(p)) /\ Holds(p) = Header("html") \o FlattenSeq(DirTexts(p))
      BY <1>1, <1>2, <1>4, <2>2
    <3> QED BY <2>1, <2>2, <3>1
  <2>3. CASE p \notin DOMAIN Entries
    <3>1. Reply(HTTPD_RESPONSE_500) /\ Holds(p) = Header("500")
      BY <1>1, <1>2, <1>4, <2>3
    <3> QED BY <1>3, <3>1
  <2> QED BY <2>2, <2>3
<1>5. ASSUME p \notin Dirs, cut > 1, ~ (cut <= 1) PROVE Goes
  <2>1. Append(dir, SLASH) \o SubSeq(p, cut + 1, Len(p)) = p
    BY <1>5, FileIs
  <2> DEFINE name == Append(cwd', SLASH) \o SubSeq(p, cut + 1, Len(p))
  <2>2. cwd' = IF dir \in Dirs THEN dir ELSE cwd
    BY <1>2, <1>5
  <2>3. IF dir \in Dirs /\ name \in DOMAIN Data THEN Raw(name) ELSE Reply(HTTPD_RESPONSE_404)
    BY <1>2, <1>5
  <2>4. dir \in Dirs => name = p
    BY <2>1, <2>2
  <2>5. Holds(p) = IF dir \in Dirs /\ p \in DOMAIN Data THEN Content(Data[p]) ELSE Header("404")
    BY <1>1, <1>5
  <2> HIDE DEF cut, dot, dir, disk, name
  <2>6. IF dir \in Dirs /\ p \in DOMAIN Data THEN Raw(p) ELSE Reply(HTTPD_RESPONSE_404)
    BY <2>3, <2>4
  <2>7. CASE dir \in Dirs /\ p \in DOMAIN Data
    BY <2>5, <2>6, <2>7
  <2>8. CASE ~ (dir \in Dirs /\ p \in DOMAIN Data)
    <3>1. Reply(HTTPD_RESPONSE_404) /\ Holds(p) = Header("404")
      BY <2>5, <2>6, <2>8
    <3> QED BY <1>3, <3>1
  <2> QED BY <2>7, <2>8
<1>6. ASSUME p \notin Dirs, cut <= 1, ~ (cut > 1) PROVE Goes
  <2>1. Holds(p) = IF ~image THEN Header("404")
                   ELSE IF disk \in DOMAIN Data THEN Content(Data[disk]) ELSE Header("500")
    BY <1>1, <1>6
  <2>2. IF ~image THEN Reply(HTTPD_RESPONSE_404)
        ELSE IF disk \in DOMAIN Data THEN Raw(disk)
        ELSE Reply(HTTPD_RESPONSE_500)
    BY <1>2, <1>6
  <2> HIDE DEF cut, dot, dir, disk, image
  <2>3. CASE ~image
    BY <1>3, <2>1, <2>2, <2>3
  <2>4. CASE image /\ disk \in DOMAIN Data
    BY <2>1, <2>2, <2>4
  <2>5. CASE image /\ disk \notin DOMAIN Data
    BY <1>3, <2>1, <2>2, <2>5
  <2> QED BY <2>3, <2>4, <2>5
<1>7. cut > 1 <=> ~ (cut <= 1)
  <2>1. cut = 0 \/ cut \in 1 .. Len(p)
    BY LastOfIs
  <2>2. cut \in Nat
    BY <2>1, LenProperties
  <2> HIDE DEF cut
  <2> QED BY <2>2
<1>8. Goes
  <2> HIDE DEF cut, dot, dir, disk, image, Goes
  <2> QED BY <1>4, <1>5, <1>6, <1>7
<1> QED BY <1>8

\* http_server goes where the answer comes from, if the request is the client's.
LEMMA ServerAnswers ==
  ASSUME HfsInv, HttpServer, ~late
  PROVE  \/ \E texts \in Seq(TextSet) :
              texts # <<>> /\ Page(texts) /\ Answer = Header("html") \o FlattenSeq(texts)
         \/ \E q \in DOMAIN Data : Raw(q) /\ Answer = Content(Data[q])
         \/ \E type \in {HTTPD_RESPONSE_404, HTTPD_RESPONSE_500} : Reply(type) /\ Answer = Header(type)
<1> DEFINE Goes == \/ \E texts \in Seq(TextSet) :
                        texts # <<>> /\ Page(texts) /\ Answer = Header("html") \o FlattenSeq(texts)
                   \/ \E q \in DOMAIN Data : Raw(q) /\ Answer = Content(Data[q])
                   \/ \E type \in {HTTPD_RESPONSE_404, HTTPD_RESPONSE_500} :
                        Reply(type) /\ Answer = Header(type)
           p == request.path
<1>1. HfsTypeOK /\ RequestInv /\ Handling("start")
  BY DEF HfsInv, HttpServer
<1>2. request \in Requests
  BY <1>1 DEF RequestInv, ComingInv, Handling
<1>3. IF request.text[1] = EOL THEN method = <<>> ELSE method = request.method /\ path = p
  BY <1>1 DEF RequestInv, HeardInv
<1>4. method = request.method /\ (method # <<>> => path = p) /\ p \in Seq(STRING)
  <2>1. request.text[1] = EOL => request.method = <<>>
    BY <1>2, RequestAssumption
  <2> QED BY <1>2, <1>3, <2>1, RequestAssumption
<1>5. <<GET>> # <<>>
  OBVIOUS
<1>6. Header(HTTPD_RESPONSE_500) = Header("500")
  BY DEF HTTPD_RESPONSE_500
<1>7. CASE ~ (method = <<GET>> /\ path # <<>> /\ path[1] = SLASH)
  <2>1. Reply(HTTPD_RESPONSE_500)
    <3>1. SLASH = <<SLASH>>[1] /\ <<SLASH>> # <<>>
      OBVIOUS
    <3>2. CASE method # <<GET>>
      BY <3>2 DEF HttpServer
    <3>3. CASE path = <<>> \/ path[1] # SLASH
      <4>1. path # <<SLASH>> /\ ~ (Len(path) > 1 /\ path[1] = SLASH)
        BY <3>1, <3>3
      <4> QED BY <4>1 DEF HttpServer
    <3> QED BY <1>7, <3>2, <3>3
  <2>2. Answer = Header("500")
    BY <1>4, <1>5, <1>7 DEF Answer, Header
  <2> QED BY <1>6, <2>1, <2>2
<1>8. CASE method = <<GET>> /\ path # <<>> /\ path[1] = SLASH
  <2>1. path = p /\ request.method = <<GET>>
    BY <1>4, <1>5, <1>8
  <2>2. CASE path = <<SLASH>>
    <3>1. Page(RootTexts)
      <4>1. Len(<<SLASH>>) = 1
        OBVIOUS
      <4>2. ~ (Len(path) > 1)
        BY <2>2, <4>1
      <4> QED BY <1>8, <4>2 DEF HttpServer
    <3>2. Answer = Header("html") \o FlattenSeq(RootTexts)
      BY <1>8, <2>1, <2>2 DEF Answer, Header
    <3> QED BY <3>1, <3>2, RootTextsType
  <2>3. CASE path # <<SLASH>>
    <3> DEFINE q == IF clock THEN Tail(path) ELSE path
    <3>1. ServePath(q)
      BY <1>8, <2>3 DEF HttpServer
    <3>2. Answer = Holds(q)
      BY <1>8, <2>1, <2>3 DEF Answer
    <3>3. q \in Seq(STRING) /\ q # <<>>
      BY <1>4, <1>8, <2>1, <2>3, LongerPath, PathType
    <3> HIDE DEF q
    <3> QED BY <1>1, <3>1, <3>2, <3>3, PathAnswers
  <2> QED BY <2>2, <2>3
<1> QED BY <1>7, <1>8

\* The answer belongs to the request.
LEMMA SameAnswer ==
  ASSUME UNCHANGED <<request, clock>>
  PROVE  Answer' = Answer
BY DEF Answer, Holds, RootTexts, In

\* All of the answer is ahead when the handler has begun.
LEMMA ServerBegins ==
  ASSUME HfsInv, HttpServer, ~late
  PROVE  Buffered' \o Left' = Answer
<1>1. HfsTypeOK /\ BatchInv /\ AnswerInv
  BY DEF HfsInv
<1>2. pc = "handler" /\ send_buffer' = <<>>
  BY <1>1, ServerGoes DEF Handling, BatchInv
<1>3. <<>> \in Seq(Word)
  BY EmptySeq
<1>4. ASSUME NEW texts \in Seq(TextSet), texts # <<>>, Page(texts),
             Answer = Header("html") \o FlattenSeq(texts)
      PROVE  Buffered' \o Left' = Answer
  <2>1. at' = "page" /\ todo' = texts /\ first' = TRUE /\ pc' = "handler"
    BY <1>2, <1>4 DEF Page
  <2>2. HeaderOf(BatchType') = Header("html")
    BY <2>1 DEF BatchType, HeaderOf, Header, HTTPD_RESPONSE_200_HTML, HTTPD_RESPONSE_NOHEADER
  <2>3. Left' = Header("html") \o (<<>> \o FlattenSeq(texts))
    BY <1>2, <2>1, <2>2 DEF Left
  <2>4. Buffered' = <<>>
    BY <2>1 DEF Buffered, Emitting
  <2>5. FlattenSeq(texts) \in Seq(Word) /\ Header("html") \in Seq(Word)
    BY TextsAreSeqs, HeadersType
  <2>6. <<>> \o FlattenSeq(texts) = FlattenSeq(texts)
    BY <2>5, ConcatEmptySeq
  <2>7. Header("html") \o FlattenSeq(texts) \in Seq(Word)
    BY <2>5, ConcatProperties
  <2>8. <<>> \o (Header("html") \o FlattenSeq(texts)) = Header("html") \o FlattenSeq(texts)
    BY <2>7, ConcatEmptySeq
  <2> QED BY <1>4, <2>3, <2>4, <2>6, <2>8
<1>5. ASSUME NEW q \in DOMAIN Data, Raw(q), Answer = Content(Data[q])
      PROVE  Buffered' \o Left' = Answer
  <2>1. at' = "raw" /\ todo' = Pieces(Data[q]) /\ send_type' = HTTPD_RESPONSE_200_DATA /\ pc' = "handler"
    BY <1>2, <1>5 DEF Raw
  <2>2. Buffered' = <<>>
    BY <2>1 DEF Buffered, Emitting
  <2>3. HeaderOf(send_type') = Header("data")
    BY <2>1 DEF HeaderOf, Header, HTTPD_RESPONSE_200_DATA, HTTPD_RESPONSE_NOHEADER
  <2>4. Left' = IF todo' # <<>> THEN Header("data") \o FlattenSeq(todo') ELSE <<>>
    BY <2>1, <2>3 DEF Left
  <2>5. Left' = Content(Data[q])
    BY <2>1, <2>4, RawType DEF Content
  <2>6. <<>> \o Content(Data[q]) = Content(Data[q])
    BY ContentType, ConcatEmptySeq
  <2> QED BY <1>5, <2>2, <2>5, <2>6
<1>6. ASSUME NEW type \in {HTTPD_RESPONSE_404, HTTPD_RESPONSE_500}, Reply(type), Answer = Header(type)
      PROVE  Buffered' \o Left' = Answer
  <2>1. SendResponse(type, <<>>) /\ at' = "return"
    BY <1>6 DEF Reply
  <2>2. type # HTTPD_RESPONSE_NOHEADER
    BY DEF HTTPD_RESPONSE_404, HTTPD_RESPONSE_500, HTTPD_RESPONSE_NOHEADER
  <2>3. io_buf' = Header(type) /\ response' = <<>> /\ pc' = "emit"
    BY <2>1, <2>2 DEF SendResponse, Header
  <2>4. Buffered' = Header(type) \o <<>> /\ Left' = <<>>
    BY <2>1, <2>3 DEF Buffered, Emitting, Left
  <2>5. Header(type) \in Seq(Word)
    BY HeaderType DEF Header, Types
  <2>6. Header(type) \o <<>> = Header(type)
    BY <2>5, ConcatEmptySeq
  <2> QED BY <1>6, <2>4, <2>6
<1> QED BY <1>2, <1>4, <1>5, <1>6, ServerAnswers

\* What send() takes from the texts it adds to its buffer, or hands over with it.
LEMMA SendMoves ==
  ASSUME HfsInv, Send
  PROVE  Buffered' \o Left' = Buffered \o Left
<1>1. HfsTypeOK /\ BatchInv
  BY DEF HfsInv
<1>2. /\ pc = "handler" /\ at = "page" /\ todo # <<>> /\ at' = "page" /\ todo' = Tail(todo) /\ first' = FALSE
  BY DEF Send, Handling
<1>3. /\ Batch \in Seq(Word) /\ Head(todo) \in Seq(Word) /\ Tail(todo) \in Seq(Seq(Word))
      /\ Batch = send_buffer \o Head(todo)
      /\ FlattenSeq(todo) = Head(todo) \o FlattenSeq(Tail(todo))
  BY <1>1, <1>2, BatchParts DEF Handling
<1> DEFINE head == HeaderOf(BatchType)
           rest == FlattenSeq(Tail(todo))
<1>4. BatchType \in Types /\ BatchType \notin {HTTPD_RESPONSE_404, HTTPD_RESPONSE_500}
  BY <1>1 DEF HfsTypeOK, BatchType, Types, HTTPD_RESPONSE_NOHEADER, HTTPD_RESPONSE_200_HTML,
     HTTPD_RESPONSE_200_DATA, HTTPD_RESPONSE_404, HTTPD_RESPONSE_500
<1>5. head \in Seq(Word) /\ rest \in Seq(Word) /\ send_buffer \in Seq(Word) /\ <<>> \in Seq(Word)
  BY <1>1, <1>3, <1>4, HeaderType, FlattenType, EmptySeq DEF BatchInv
<1>6. Buffered = <<>> /\ Left = head \o (send_buffer \o (Head(todo) \o rest))
  BY <1>2, <1>3 DEF Buffered, Emitting, Left
<1>7. Left = head \o (Batch \o rest)
  <2>1. send_buffer \o (Head(todo) \o rest) = (send_buffer \o Head(todo)) \o rest
    <3> HIDE DEF rest
    <3>1. send_buffer \in Seq(Word) /\ Head(todo) \in Seq(Word) /\ rest \in Seq(Word)
      BY <1>3, <1>5
    <3>2. Associate(send_buffer, Head(todo), rest)
      BY <3>1, WordsAssociate
    <3> QED BY <3>2, Zenon DEF Associate
  <2> QED BY <1>3, <1>6, <2>1
<1>8. CASE Len(todo) = 1 \/ Full(Len(Batch))
  <2>1. /\ SendResponse(BatchType, Batch) /\ send_buffer' = <<>>
        /\ send_type' = HTTPD_RESPONSE_NOHEADER
    BY <1>8 DEF Send
  <2>2. pc' = "emit" /\ io_buf' = head /\ response' = Batch
    BY <1>4, <2>1, SendResponseShape
  <2>3. Buffered' = head \o Batch
    BY <2>2 DEF Buffered, Emitting
  <2>4. HeaderOf(BatchType') = <<>>
    BY <1>2, <2>1 DEF BatchType, HeaderOf
  <2>5. Left' = <<>> \o (<<>> \o rest)
    BY <1>2, <2>1, <2>4 DEF Left
  <2> HIDE DEF head, rest
  <2>6. <<>> \o rest = rest
    BY <1>5, ConcatEmptySeq
  <2>7. (head \o Batch) \o rest = head \o (Batch \o rest)
    <3>1. head \in Seq(Word) /\ Batch \in Seq(Word) /\ rest \in Seq(Word)
      BY <1>3, <1>5
    <3>2. Associate(head, Batch, rest)
      BY <3>1, WordsAssociate
    <3> QED BY <3>2, Zenon DEF Associate
  <2>8. Batch \o rest \in Seq(Word)
    BY <1>3, <1>5, ConcatProperties
  <2>9. head \o (Batch \o rest) \in Seq(Word)
    BY <1>5, <2>8, ConcatProperties
  <2>10. <<>> \o (head \o (Batch \o rest)) = head \o (Batch \o rest)
    BY <2>9, ConcatEmptySeq
  <2> QED BY <1>6, <1>7, <2>3, <2>5, <2>6, <2>7, <2>10
<1>9. CASE ~ (Len(todo) = 1 \/ Full(Len(Batch)))
  <2>1. send_buffer' = Batch /\ send_type' = BatchType /\ pc' = pc
    BY <1>9 DEF Send
  <2>2. BatchType' = BatchType
    BY <1>2, <2>1 DEF BatchType
  <2>3. Buffered' = <<>> /\ Left' = head \o (Batch \o rest)
    BY <1>2, <2>1, <2>2 DEF Buffered, Emitting, Left
  <2> QED BY <1>6, <1>7, <2>3
<1> QED BY <1>8, <1>9

\* So with a piece of a file.
LEMMA SendPieceMoves ==
  ASSUME HfsInv, SendPiece
  PROVE  Buffered' \o Left' = Buffered \o Left
<1>1. HfsTypeOK /\ BatchInv
  BY DEF HfsInv
<1>2. /\ pc = "handler" /\ at = "raw" /\ todo # <<>> /\ at' = "raw" /\ todo' = Tail(todo)
      /\ SendResponse(send_type, Head(todo)) /\ send_type' = HTTPD_RESPONSE_NOHEADER
  BY DEF SendPiece, Handling
<1>3. todo \in Seq(Seq(Word))
  BY <1>1 DEF BatchInv
<1> DEFINE head  == HeaderOf(send_type)
           piece == Head(todo)
           rest  == FlattenSeq(Tail(todo))
<1>4. send_type \in Types /\ send_type \notin {HTTPD_RESPONSE_404, HTTPD_RESPONSE_500}
  BY <1>1 DEF HfsTypeOK, Types, HTTPD_RESPONSE_NOHEADER, HTTPD_RESPONSE_200_HTML,
     HTTPD_RESPONSE_200_DATA, HTTPD_RESPONSE_404, HTTPD_RESPONSE_500
<1>5. head \in Seq(Word) /\ piece \in Seq(Word) /\ rest \in Seq(Word) /\ <<>> \in Seq(Word)
  <2>1. piece \in Seq(Word) /\ Tail(todo) \in Seq(Seq(Word))
    BY <1>2, <1>3, HeadTailProperties
  <2> QED BY <1>4, <2>1, HeaderType, FlattenType, EmptySeq
<1>6. Buffered = <<>> /\ Left = head \o (piece \o rest)
  <2>1. FlattenSeq(todo) = piece \o rest
    BY <1>2, <1>3, FlattenHead
  <2> QED BY <1>2, <2>1 DEF Buffered, Emitting, Left
<1>7. Buffered' = head \o piece
  <2>1. pc' = "emit" /\ io_buf' = head /\ response' = piece
    BY <1>2, <1>4, SendResponseShape
  <2> QED BY <2>1 DEF Buffered, Emitting
<1>8. Left' = rest
  <2>1. HeaderOf(send_type') = <<>>
    BY <1>2 DEF HeaderOf
  <2>2. CASE Tail(todo) = <<>>
    <3>1. Left' = <<>>
      BY <1>2, <2>2 DEF Left
    <3> QED BY <2>2, <3>1, FlattenEmpty
  <2>3. CASE Tail(todo) # <<>>
    <3>1. Left' = <<>> \o rest
      BY <1>2, <2>1, <2>3 DEF Left
    <3> HIDE DEF rest
    <3> QED BY <1>5, <3>1, ConcatEmptySeq
  <2> QED BY <2>2, <2>3
<1> HIDE DEF head, piece, rest
<1>9. (head \o piece) \o rest = head \o (piece \o rest)
  BY <1>5, ConcatAssociative
<1>10. piece \o rest \in Seq(Word)
  BY <1>5, ConcatProperties
<1>11. head \o (piece \o rest) \in Seq(Word)
  BY <1>5, <1>10, ConcatProperties
<1>12. <<>> \o (head \o (piece \o rest)) = head \o (piece \o rest)
  BY <1>11, ConcatEmptySeq
<1> QED BY <1>6, <1>7, <1>8, <1>9, <1>12

\* What is ahead is words, too.
LEMMA AheadType ==
  ASSUME HfsInv
  PROVE  Buffered \in Seq(Word) /\ Left \in Seq(Word) /\ Buffered \o Left \in Seq(Word)
<1>1. HfsTypeOK /\ BatchInv /\ BufferInv
  BY DEF HfsInv
<1>2. Buffered \in Seq(Word)
  BY <1>1, EmptySeq, ConcatProperties DEF Buffered, BufferInv
<1>3. BatchType \in Types /\ send_type \in Types
  BY <1>1 DEF HfsTypeOK, BatchType, Types
<1>4. /\ HeaderOf(BatchType) \in Seq(Word) /\ HeaderOf(send_type) \in Seq(Word)
      /\ send_buffer \in Seq(Word) /\ FlattenSeq(todo) \in Seq(Word) /\ <<>> \in Seq(Word)
  BY <1>1, <1>3, HeaderType, FlattenType, EmptySeq DEF BatchInv
<1>5. /\ HeaderOf(BatchType) \o (send_buffer \o FlattenSeq(todo)) \in Seq(Word)
      /\ HeaderOf(send_type) \o FlattenSeq(todo) \in Seq(Word)
  BY <1>4, ConcatProperties
<1>6. Left \in Seq(Word)
  BY <1>4, <1>5 DEF Left
<1> QED BY <1>2, <1>6, ConcatProperties

\* The empty text begins every answer.
LEMMA EmptyIsPrefix ==
  ASSUME NEW s \in Seq(Word)
  PROVE  IsPrefix(<<>>, s)
<1>1. <<>> \in Seq(Word) /\ <<>> \o s = s
  BY EmptySeq, ConcatEmptySeq
<1>2. IsPrefix(<<>>, <<>> \o s)
  BY <1>1, PrefixIsConcat
<1> QED BY <1>1, <1>2

\* Those who wait for a request have got nothing.
Waiting == pc \in {"listen", "poll", "parse"} \/ Handling("start") \/ request = NoRequest

\* AnswerInv is invariant.
LEMMA AnswerStep ==
  ASSUME HfsInv, [Next]_vars
  PROVE  AnswerInv'
<1> USE DEF Emitting
<1>1. HfsTypeOK /\ RequestInv /\ BatchInv /\ BufferInv /\ AnswerInv /\ late \in BOOLEAN
  BY DEF HfsInv, HfsTypeOK, HttpdTypeOK
<1>2. /\ received \in Seq(Word) /\ (Waiting => received = <<>>)
      /\ request # NoRequest /\ ~late => IsPrefix(received, Answer)
      /\ Answering /\ open /\ ~late => received \o (Buffered \o Left) = Answer
      /\ pc = "close" /\ found_eol /\ open /\ ~late => received = Answer
  BY <1>1 DEF AnswerInv, AnswerIsPrefix, AnswerIsWhole, Waiting
<1>3. ASSUME /\ received' \in Seq(Word) /\ (Waiting' => received' = <<>>)
             /\ request' # NoRequest /\ ~late' => IsPrefix(received', Answer')
             /\ Answering' /\ open' /\ ~late' => received' \o (Buffered' \o Left') = Answer'
             /\ pc' = "close" /\ found_eol' /\ open' /\ ~late' => received' = Answer'
      PROVE  AnswerInv'
  BY <1>3 DEF AnswerInv, AnswerIsPrefix, AnswerIsWhole, Waiting
<1>4. Buffered \in Seq(Word) /\ Left \in Seq(Word) /\ Buffered \o Left \in Seq(Word)
  BY AheadType
<1>5. <<>> \in Seq(Word)
  BY EmptySeq
<1>6. CASE HttpServer
  <2>1. /\ pc' \in {"handler", "emit"} /\ at' # "start" /\ UNCHANGED <<request, open, clock>>
        /\ request \in Requests /\ late' = late /\ received' = received /\ received = <<>>
    BY <1>1, <1>2, <1>6, HandlerShape, ServerGoes DEF clientVars, RequestInv, ComingInv, Waiting
  <2>2. Answer' = Answer /\ Answer \in Seq(Word)
    BY <2>1, SameAnswer, AnswerType
  <2>3. ~late => Buffered' \o Left' = Answer
    BY <1>6, ServerBegins
  <2>4. <<>> \o Answer = Answer /\ IsPrefix(<<>>, Answer)
    BY <2>2, ConcatEmptySeq, EmptyIsPrefix
  <2> QED BY <1>3, <1>5, <2>1, <2>2, <2>3, <2>4
<1>7. CASE Send \/ SendPiece
  <2>1. /\ pc = "handler" /\ pc' \in {"handler", "emit"} /\ at # "start" /\ at' # "start"
        /\ UNCHANGED <<request, open, clock, received, late>>
    BY <1>7, HandlerShape DEF clientVars, Send, SendPiece, Handling
  <2>2. Buffered' \o Left' = Buffered \o Left /\ Answer' = Answer
    BY <1>7, <2>1, SendMoves, SendPieceMoves, SameAnswer
  <2>3. (Waiting' => Waiting) /\ (Answering' => Answering)
    BY <2>1 DEF Waiting, Answering, Handling
  <2> QED BY <1>2, <1>3, <2>1, <2>2, <2>3
<1>8. CASE ReturnFromHandler
  <2>1. /\ pc = "handler" /\ pc' = "close" /\ UNCHANGED <<request, open, clock, received, late>>
        /\ at = "return" \/ (at \in {"page", "raw"} /\ todo = <<>>)
    BY <1>8 DEF ReturnFromHandler, clientVars
  <2>2. Answer' = Answer
    BY <2>1, SameAnswer
  <2>3. Buffered \o Left = <<>>
    <3>1. Buffered = <<>>
      BY <2>1 DEF Buffered
    <3>2. CASE at # "page"
      <4>1. Left = <<>>
        BY <2>1, <3>2 DEF Left
      <4> QED BY <1>5, <3>1, <4>1, ConcatEmptySeq
    <3>3. CASE at = "page"
      <4>1. send_buffer = <<>> /\ send_type = HTTPD_RESPONSE_NOHEADER /\ ~first /\ todo = <<>>
        BY <1>1, <2>1, <3>3 DEF BatchInv
      <4>2. HeaderOf(BatchType) = <<>>
        BY <4>1 DEF BatchType, HeaderOf
      <4>3. FlattenSeq(todo) = <<>>
        BY <4>1, FlattenEmpty
      <4>4. Left = <<>> \o (<<>> \o <<>>)
        BY <3>3, <4>1, <4>2, <4>3 DEF Left
      <4> QED BY <1>5, <3>1, <4>4, ConcatEmptySeq
    <3> QED BY <3>2, <3>3
  <2>4. open /\ ~late => received = Answer
    <3>1. received \o <<>> = received
      BY <1>2, ConcatEmptySeq
    <3>2. Answering
      BY <2>1 DEF Answering
    <3> QED BY <1>2, <2>3, <3>1, <3>2
  <2>5. (Waiting' => Waiting) /\ ~Answering'
    BY <2>1 DEF Waiting, Answering, Handling
  <2> QED BY <1>2, <1>3, <2>1, <2>2, <2>4, <2>5
<1>9. CASE LoopMove /\ UNCHANGED hfsVars
  <2>1. UNCHANGED <<at, send_buffer, send_type, todo, first>>
    BY <1>9 DEF hfsVars
  <2>2. Left' = Left
    BY <2>1 DEF Left, BatchType
  <2>3. CASE TcpClose
    <3>1. pc' = "listen" /\ request' \in Requests \cup {NoRequest} /\ received' = <<>> /\ clock' = clock
      BY <1>1, <2>3 DEF TcpClose, ClientLeaves, ClientLingers, HfsTypeOK, HttpdTypeOK
    <3>2. request' # NoRequest => IsPrefix(<<>>, Answer')
      BY <3>1, AnswerTypeNext, EmptyIsPrefix
    <3> QED BY <1>3, <1>5, <3>1, <3>2 DEF Answering
  <2>4. CASE TcpListen \/ ListenHears \/ ListenReturnsClosed
    <3>1. /\ pc = "listen" /\ pc' \in {"listen", "poll"} /\ received' = received
          /\ request' \in Requests \cup {NoRequest}
      BY <1>1, <2>4 DEF TcpListen, ListenHears, ListenReturnsClosed, Listened, HfsTypeOK, HttpdTypeOK
    <3>2. received = <<>>
      BY <1>2, <3>1 DEF Waiting
    <3>3. request' # NoRequest => IsPrefix(<<>>, Answer')
      BY <3>1, AnswerTypeNext, EmptyIsPrefix
    <3> QED BY <1>3, <1>5, <3>1, <3>2, <3>3 DEF Answering
  <2>5. CASE Poll \/ PollAborted
    <3>1. /\ pc = "poll" /\ Ip65Process /\ clock' = clock /\ pc' \in {"poll", "parse", "close", "end"}
          /\ pc' = "close" => ~found_eol'
      BY <2>5 DEF Poll, MainPollingLoop, Polled, PollAborted
    <3>2. UNCHANGED <<request, received, late>> /\ received = <<>> /\ request \in Requests
      BY <1>1, <1>2, <3>1, ProcessOpens DEF Waiting, RequestInv, ComingInv
    <3>3. Answer' = Answer /\ request # NoRequest
      BY <3>1, <3>2, SameAnswer, NoRequestIsNone
    <3>4. ~Answering'
      BY <3>1 DEF Answering
    <3> QED BY <1>2, <1>3, <1>5, <3>1, <3>2, <3>3, <3>4
  <2>6. CASE ParseRequest
    <3>1. pc = "parse" /\ pc' = "handler" /\ UNCHANGED <<request, received, clock, late>>
      BY <2>6 DEF ParseRequest, clientVars
    <3>2. received = <<>> /\ Answer' = Answer
      BY <1>2, <3>1, SameAnswer DEF Waiting
    <3>3. ~Answering'
      <4>1. at = "start"
        BY <1>1, <3>1 DEF BatchInv, Answering
      <4> QED BY <2>1, <3>1, <4>1 DEF Answering
    <3> QED BY <1>2, <1>3, <1>5, <3>1, <3>2, <3>3
  <2>7. CASE Emit
    <3>1. /\ pc = "emit" /\ pc' \in {"send", "send_last"} /\ io_buf' \o response' = io_buf \o response
          /\ UNCHANGED <<request, received, clock, open, late>>
      BY <1>1, <2>7, EmitShape DEF clientVars
    <3>2. Buffered' = Buffered /\ Answer' = Answer
      BY <3>1, SameAnswer DEF Buffered
    <3>3. Answering /\ Answering' /\ (Waiting' => Waiting)
      BY <3>1 DEF Answering, Waiting, Handling
    <3> QED BY <1>2, <1>3, <2>2, <3>1, <3>2, <3>3
  <2>8. CASE TcpSendClosed \/ TcpSendReturns \/ TcpSendFails
    <3>1. /\ pc \in {"send", "send_last"} /\ pc' = IF pc = "send" THEN "emit" ELSE "handler"
          /\ io_buf' = <<>> /\ UNCHANGED <<request, clock, response, late>>
      BY <2>8, SentShape DEF Sending
    <3>2. /\ io_buf \in Seq(Word) /\ response \in Seq(Word) /\ (pc = "send_last" => response = <<>>)
          /\ at # "start" /\ Answering
      BY <1>1, <3>1 DEF BufferInv, BatchInv, Answering
    <3>3. /\ ~open' \/ (open /\ received' = received \o io_buf)
          /\ received' = received \/ (open /\ received' = received \o io_buf)
      BY <2>8 DEF TcpSendClosed, TcpSendReturns, TcpSendFails
    <3>4. Answer' = Answer
      BY <3>1, SameAnswer
    <3>5. Buffered' = response
      <4>1. CASE pc = "send"
        <5>1. Buffered' = <<>> \o response
          BY <3>1, <4>1 DEF Buffered
        <5> QED BY <3>2, <5>1, ConcatEmptySeq
      <4>2. CASE pc = "send_last"
        BY <3>1, <3>2, <4>2 DEF Buffered
      <4> QED BY <3>1, <4>1, <4>2
    <3>6. open /\ ~late => (received \o io_buf) \o (response \o Left) = Answer
      <4>1. Buffered = io_buf \o response
        BY <3>1 DEF Buffered
      <4>2. received \in Seq(Word) /\ io_buf \in Seq(Word) /\ response \in Seq(Word) /\ Left \in Seq(Word)
        BY <1>2, <1>4, <3>2
      <4>3. response \o Left \in Seq(Word)
        BY <4>2, ConcatProperties
      <4>4. (io_buf \o response) \o Left = io_buf \o (response \o Left)
        <5>1. Associate(io_buf, response, Left)
          BY <4>2, WordsAssociate
        <5> QED BY <5>1, Zenon DEF Associate
      <4>5. (received \o io_buf) \o (response \o Left) = received \o (io_buf \o (response \o Left))
        <5> DEFINE rest == response \o Left
        <5> HIDE DEF rest
        <5>1. rest \in Seq(Word)
          BY <4>3 DEF rest
        <5>2. Associate(received, io_buf, rest)
          BY <4>2, <5>1, WordsAssociate
        <5> QED BY <5>2, Zenon DEF Associate, rest
      <4> QED BY <1>2, <3>2, <4>1, <4>4, <4>5
    <3>7. received \o io_buf \in Seq(Word)
      BY <1>2, <3>2, ConcatProperties
    <3>8. open /\ ~late => IsPrefix(received \o io_buf, Answer)
      <4>1. response \o Left \in Seq(Word)
        BY <1>4, <3>2, ConcatProperties
      <4>2. IsPrefix(received \o io_buf, (received \o io_buf) \o (response \o Left))
        BY <3>7, <4>1, PrefixIsConcat
      <4> QED BY <3>6, <4>2
    <3>9. ~Waiting' \/ request' = NoRequest
      BY <2>1, <3>1, <3>2 DEF Waiting, Handling
    <3>10. request # NoRequest
      BY <1>1, <3>1, NoRequestIsNone DEF RequestInv, ComingInv
    <3>11. pc' # "close"
      BY <3>1
    <3> QED BY <1>2, <1>3, <2>2, <3>1, <3>3, <3>4, <3>5, <3>6, <3>7, <3>8, <3>9, <3>10, <3>11
  <2>9. CASE TcpSendPolls
    <3>1. /\ pc \in {"send", "send_last"} /\ found_eol
          /\ UNCHANGED <<pc, response, request, received, open, clock, late>>
      BY <1>1, <2>9 DEF TcpSendPolls, RequestInv, EolInv, ClientSends
    <3>2. io_buf' = io_buf
      BY <2>9, <3>1 DEF TcpSendPolls, ClientSends, Arrives, HttpCallback
    <3>3. Buffered' = Buffered /\ Answer' = Answer
      BY <3>1, <3>2, SameAnswer DEF Buffered
    <3>4. (Answering' => Answering) /\ (Waiting' => Waiting)
      BY <3>1 DEF Answering, Waiting, Handling
    <3> QED BY <1>2, <1>3, <2>2, <3>1, <3>3, <3>4
  <2>10. CASE ListenAborted
    <3>1. pc = "listen" /\ pc' = "end" /\ UNCHANGED <<request, received, clock, late>>
      BY <2>10 DEF ListenAborted, clientVars
    <3>2. Answer' = Answer /\ received = <<>> /\ ~Answering'
      BY <1>2, <3>1, SameAnswer DEF Answering, Waiting
    <3> QED BY <1>2, <1>3, <1>5, <3>1, <3>2
  <2> QED BY <1>9, <2>3, <2>4, <2>5, <2>6, <2>7, <2>8, <2>9, <2>10 DEF LoopMove
<1>10. CASE UNCHANGED vars
  <2>1. UNCHANGED <<at, send_buffer, send_type, todo, first, pc, io_buf, response, request, received, open,
                    clock, found_eol, late>>
    BY <1>10 DEF vars, httpdVars, hfsVars, loopVars, clientVars
  <2>2. Left' = Left /\ Buffered' = Buffered /\ Answer' = Answer
    BY <2>1, SameAnswer DEF Left, BatchType, Buffered
  <2>3. (Answering' => Answering) /\ (Waiting' => Waiting)
    BY <2>1 DEF Answering, Waiting, Handling
  <2> QED BY <1>2, <1>3, <2>1, <2>2, <2>3
<1> QED BY Moves, <1>6, <1>7, <1>8, <1>9, <1>10

----------------------------------------------------------------------------
(* The theorems.                                                           *)

\* HfsInv holds at the start.
LEMMA InitInv ==
  ASSUME HfsInit
  PROVE  HfsInv
<1>1. /\ pc = "close" /\ io_buf = <<>> /\ found_eol = FALSE /\ connection_closed = FALSE
      /\ timeout = 0 /\ method = <<>> /\ path = <<>> /\ response = <<>>
      /\ now = 0 /\ clock \in Clocks
      /\ open = FALSE /\ request = NoRequest /\ coming = <<>> /\ received = <<>> /\ late = FALSE
      /\ at = "start" /\ cwd = <<>> /\ send_buffer = <<>>
      /\ send_type = HTTPD_RESPONSE_NOHEADER /\ todo = <<>> /\ first = FALSE
  BY DEF HfsInit, HttpdInit
<1>2. \E k \in 0 .. Len(<<>>) : Splits(<<>>, SubSeq(<<>>, 1, k), <<>>)
  <2>1. Splits(<<>>, <<>>, <<>>)
    BY SplitsWhole, EmptySeq
  <2> QED BY <2>1, SplitsSome
<1>3. RequestInv
  BY <1>1, <1>2, NoRequestIsNone DEF RequestInv, ComingInv, EolInv, HeardInv, Handling, Emitting
<1>4. HfsTypeOK
  <2>1. request \in Requests \cup {NoRequest} /\ IsSuffix(coming, request.text)
    <3>1. <<>> \in Seq(STRING) /\ Splits(<<>>, <<>>, <<>>)
      BY SplitsWhole, EmptySeq
    <3>2. IsSuffix(<<>>, <<>>)
      BY <3>1, SplitsSuffix
    <3> QED BY <1>1, <3>2, NoRequestIsNone
  <2>2. timeout \in 0 .. Seconds - 1 /\ now \in 0 .. Seconds - 1
    BY <1>1, TimeAssumption
  <2>3. Len(io_buf) < IoSize
    <3>1. IoSize \in Nat /\ IoSize > 0
      BY SizeAssumption
    <3> QED BY <1>1, <3>1, EmptySeq
  <2> QED BY <1>1, <2>1, <2>2, <2>3, EmptySeq DEF HfsTypeOK, HttpdTypeOK
<1>5. BatchInv
  BY <1>1, EmptySeq DEF BatchInv, Answering, Emitting
<1>6. BufferInv
  BY <1>1 DEF BufferInv, Emitting
<1>7. AnswerInv
  BY <1>1, EmptySeq DEF AnswerInv, AnswerIsPrefix, AnswerIsWhole, Answering, Emitting
<1> QED BY <1>3, <1>4, <1>5, <1>6, <1>7 DEF HfsInv

\* The inductive invariant of the file server: what has arrived, what the handler has heard,
\* the batches of send(), and that what the client has got, what is in the buffers and what
\* is still to be read are always the answer.
THEOREM HfsInvariant == HfsSpec => []HfsInv
<1>1. HfsInv /\ [Next]_vars => HfsInv'
  BY RequestStep, TypeStep, BatchStep, BufferStep, AnswerStep DEF HfsInv
<1>2. HfsInit => HfsInv
  BY InitInv
<1> QED BY <1>1, <1>2, PTL DEF HfsSpec

\* Of the server's state: io_buf overflows neither with a request (http_callback), as long as
\* tcp_listen has taken nothing of its client before, nor with a response (httpd_send_response).
THEOREM HfsTypes == HfsSpec => []HfsTypeOK
<1>1. HfsInv => HfsTypeOK
  BY DEF HfsInv
<1> QED BY <1>1, HfsInvariant, PTL

\* Clients whose connection has lasted have got the whole answer to what they have asked
\* for, for all requests, drives and sizes of the buffers (http_server, send, file, image;
\* httpd_send_response).
THEOREM AnswersAreWhole == HfsSpec => []AnswerIsWhole
<1>1. HfsInv => AnswerIsWhole
  BY DEF HfsInv, AnswerInv
<1> QED BY <1>1, HfsInvariant, PTL

\* The others have got the beginning of it (send; http_callback).
THEOREM AnswersArePrefixes == HfsSpec => []AnswerIsPrefix
<1>1. HfsInv => AnswerIsPrefix
  BY DEF HfsInv, AnswerInv
<1> QED BY <1>1, HfsInvariant, PTL

\* The next text always fits in the buffer of send(), if texts are shorter than its last
\* quarter.
THEOREM BatchesFit == HfsSpec => []BatchFits
<1>1. HfsInv => BatchFits
  <2> SUFFICES ASSUME HfsInv PROVE BatchFits
    OBVIOUS
  <2>1. BatchInv /\ HfsTypeOK
    BY DEF HfsInv
  <2>2. send_buffer \in Seq(Word) /\ Len(send_buffer) \in Nat
    BY <2>1, LenProperties DEF BatchInv
  <2>3. BufSize \div 4 > 0
    BY Positive
  <2>4. CASE at # "page"
    <3>1. Len(send_buffer) = 0
      BY <2>1, <2>4, EmptySeq DEF BatchInv
    <3> QED BY <2>4, <3>1, Sizes DEF BatchFits, Handling
  <2>5. CASE at = "page"
    <3>1. Len(send_buffer) <= BufSize - BufSize \div 4
      BY <2>1, <2>5 DEF BatchInv
    <3>2. todo # <<>> => Len(Head(todo)) \in Nat /\ Len(Head(todo)) < BufSize \div 4
      <4> SUFFICES ASSUME todo # <<>>
                   PROVE  Len(Head(todo)) \in Nat /\ Len(Head(todo)) < BufSize \div 4
        OBVIOUS
      <4>1. todo \in Seq(Seq(Word)) /\ \A i \in DOMAIN todo : Len(todo[i]) < BufSize \div 4
        BY <2>1, <2>5 DEF BatchInv
      <4>2. Head(todo) = todo[1] /\ Head(todo) \in Seq(Word) /\ 1 \in DOMAIN todo
        BY <4>1, HeadTailProperties, EmptySeq, LenProperties
      <4>3. Len(Head(todo)) \in Nat
        BY <4>2, LenProperties
      <4> QED BY <4>1, <4>2, <4>3
    <3> DEFINE more == IF Handling("page") /\ todo # <<>> THEN Len(Head(todo)) ELSE 0
    <3>3. more \in Nat /\ more < BufSize \div 4
      BY <2>3, <3>2, Sizes
    <3> HIDE DEF more
    <3>4. Len(send_buffer) + more < BufSize
      BY <2>2, <3>1, <3>3, Sizes
    <3> QED BY <3>4 DEF BatchFits, more
  <2> QED BY <2>4, <2>5
<1> QED BY <1>1, HfsInvariant, PTL

\* The handler is told the method and path that the client has sent, whatever the pieces, and
\* what the parser writes stays in var_buf: for every request whose first line is one that the
\* parser has room for (VarAssumption), and of which tcp_listen has taken nothing before
\* (http_callback, http_parse_request).
THEOREM RequestsAreHeard == HfsSpec => []RequestIsHeard
<1>1. HfsInv => RequestIsHeard
  <2> SUFFICES ASSUME HfsInv, ~late PROVE RequestIsHeard
    BY DEF RequestIsHeard
  <2>1. ComingInv /\ EolInv /\ HeardInv
    BY DEF HfsInv, RequestInv
  <2>2. ASSUME pc = "parse" PROVE VarSpace(io_buf) <= VarSize
    <3>1. request \in Requests /\ EOL \in Range(io_buf) /\ Splits(request.text, io_buf, coming)
      BY <2>1, <2>2 DEF ComingInv, EolInv
    <3>2. PICK k \in 0 .. Len(request.text) : io_buf = SubSeq(request.text, 1, k)
      BY <3>1 DEF Splits
    <3> QED BY <3>1, <3>2, VarFits
  <2> QED BY <2>1, <2>2 DEF HeardInv, RequestIsHeard
<1> QED BY <1>1, HfsInvariant, PTL
=============================================================================
