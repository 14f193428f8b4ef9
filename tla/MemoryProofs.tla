---------------------------- MODULE MemoryProofs ----------------------------
(***************************************************************************)
(* Proofs about the images of the linear memory, for every memory, every   *)
(* number of pages and every size of a page: that what is read from the    *)
(* files is a memory, and which memory it is after a checkpoint.           *)
(***************************************************************************)
EXTENDS MemoryCheckpoint, SequenceTheorems, Induction

-----------------------------------------------------------------------------
(* The positions that are read, RecordsOf, without its recursion           *)

ReadAt(F, file, format, capacity, p) ==
    IF p = Len(file) + 1 THEN {}
    ELSE {p} \cup IF Good(file, format, capacity, p)
                  THEN F[After(file, format, p)] ELSE {}

ReadFrom(F, file, format, capacity, q) ==
    F = [p \in q..Len(file) + 1 |-> ReadAt(F, file, format, capacity, p)]

\* A good record ends behind its beginning, and within the file.
LEMMA GoodEnds ==
    ASSUME NEW file, NEW format, NEW capacity, Len(file) \in Nat, NEW p \in Nat,
           Good(file, format, capacity, p)
    PROVE  /\ After(file, format, p) \in p + 1..Len(file) + 1
           /\ Count(file, format, p) \in Nat \ {0}
           /\ Header(format) \in 1..2
           /\ After(file, format, p) = p + Header(format) + Count(file, format, p)
<1> DEFINE c == Count(file, format, p)
           h == Header(format)
<1>1. h \in 1..2
  BY DEF Header
<1>2. c \in 1..Len(file) + 1 - p - h
  BY DEF Good
<1>3. After(file, format, p) = p + h + c
  BY DEF After
<1> HIDE DEF c, h
<1>4. c \in Nat \ {0} /\ p + h + c \in p + 1..Len(file) + 1
  BY <1>1, <1>2
<1> QED BY <1>1, <1>3, <1>4 DEF c, h

LEMMA ReadExists ==
    ASSUME NEW file, NEW format, NEW capacity, Len(file) \in Nat
    PROVE  \E F : ReadFrom(F, file, format, capacity, 1)
<1> DEFINE L == Len(file)
           S == {d \in Nat : d <= L => \E F : ReadFrom(F, file, format, capacity, L + 1 - d)}
<1>1. 0 \in S
  <2> DEFINE F == [p \in L + 1..L + 1 |-> {}]
  <2>1. F = [p \in L + 1..L + 1 |-> ReadAt(F, file, format, capacity, p)]
    BY DEF ReadAt
  <2>2. ReadFrom(F, file, format, capacity, L + 1)
    BY <2>1, Zenon DEF ReadFrom
  <2> HIDE DEF F
  <2> QED BY <2>2
<1>2. ASSUME NEW d \in Nat, d \in S PROVE d + 1 \in S
  <2> SUFFICES ASSUME d + 1 <= L
               PROVE  \E G : ReadFrom(G, file, format, capacity, L + 1 - (d + 1))
    OBVIOUS
  <2> DEFINE q == L + 1 - (d + 1)
  <2>1. q \in 1..L /\ q + 1 = L + 1 - d
    OBVIOUS
  <2>2. PICK F : ReadFrom(F, file, format, capacity, q + 1)
    BY <1>2, <2>1
  <2> DEFINE G == [p \in q..L + 1 |-> IF p = q THEN ReadAt(F, file, format, capacity, q) ELSE F[p]]
  <2>3. \A p \in q + 1..L + 1 : G[p] = F[p] /\ F[p] = ReadAt(F, file, format, capacity, p)
    <3>1. F = [p \in q + 1..L + 1 |-> ReadAt(F, file, format, capacity, p)]
      BY <2>2 DEF ReadFrom
    <3>2. ASSUME NEW p \in q + 1..L + 1
          PROVE  p \in q..L + 1 /\ p # q
      BY <2>1
    <3>3. \A p \in q + 1..L + 1 : F[p] = ReadAt(F, file, format, capacity, p)
      BY <3>1, Zenon
    <3> QED BY <3>2, <3>3, Zenon
  <2>4. G[q] = ReadAt(F, file, format, capacity, q)
    BY <2>1
  <2>5. DOMAIN G = q..L + 1 /\ G = [p \in q..L + 1 |-> G[p]]
    OBVIOUS
  <2> HIDE DEF G
  <2>6. ASSUME NEW p \in q..L + 1 PROVE ReadAt(G, file, format, capacity, p) = ReadAt(F, file, format, capacity, p)
    <3>1. CASE Good(file, format, capacity, p)
      <4>1. After(file, format, p) \in p + 1..L + 1
        BY <3>1, <2>1, GoodEnds
      <4>2. G[After(file, format, p)] = F[After(file, format, p)]
        BY <4>1, <2>1, <2>3
      <4> QED BY <4>2, Zenon DEF ReadAt
    <3>2. CASE ~Good(file, format, capacity, p)
      BY <3>2 DEF ReadAt
    <3> QED BY <3>1, <3>2
  <2>7. \A p \in q..L + 1 : G[p] = ReadAt(G, file, format, capacity, p)
    BY <2>1, <2>3, <2>4, <2>6
  <2>8. ReadFrom(G, file, format, capacity, q)
    BY <2>5, <2>7 DEF ReadFrom
  <2> QED BY <2>8
<1> HIDE DEF S
<1>3. L \in S
  BY <1>1, <1>2, SetInduction
<1> QED BY <1>3 DEF S

LEMMA RecordsRead ==
    ASSUME NEW file, NEW format, NEW capacity, Len(file) \in Nat
    PROVE  \E F : /\ ReadFrom(F, file, format, capacity, 1)
                  /\ RecordsOf(file, format, capacity) = F[1]
<1> DEFINE R == CHOOSE F : ReadFrom(F, file, format, capacity, 1)
<1>1. RecordsOf(file, format, capacity) = R[1]
  BY Zenon DEF RecordsOf, ReadFrom, ReadAt
<1>2. ReadFrom(R, file, format, capacity, 1)
  BY ReadExists
<1> QED BY <1>1, <1>2

\* What ReadFrom says of each position.
LEMMA ReadEach ==
    ASSUME NEW F, NEW file, NEW format, NEW capacity, Len(file) \in Nat,
           ReadFrom(F, file, format, capacity, 1)
    PROVE  /\ F[Len(file) + 1] = {}
           /\ \A p \in 1..Len(file) : Good(file, format, capacity, p)
                 => F[p] = {p} \cup F[After(file, format, p)]
           /\ \A p \in 1..Len(file) : ~Good(file, format, capacity, p) => F[p] = {p}
<1>1. \A p \in 1..Len(file) + 1 : F[p] = ReadAt(F, file, format, capacity, p)
  BY Zenon DEF ReadFrom
<1>2. Len(file) + 1 \in 1..Len(file) + 1
  OBVIOUS
<1>3. F[Len(file) + 1] = {}
  BY <1>1, <1>2 DEF ReadAt
<1>4. ASSUME NEW p \in 1..Len(file)
      PROVE  F[p] = ReadAt(F, file, format, capacity, p) /\ p # Len(file) + 1
  BY <1>1
<1> QED BY <1>3, <1>4 DEF ReadAt

\* A set that no good record leads out of holds all that are read.
Leads(S, file, format, capacity) ==
    \A p \in S : p <= Len(file) /\ Good(file, format, capacity, p)
                    => After(file, format, p) \in S

LEMMA RecordsWithin ==
    ASSUME NEW file, NEW format, NEW capacity, Len(file) \in Nat,
           NEW S, 1 \in S, Leads(S, file, format, capacity)
    PROVE  RecordsOf(file, format, capacity) \subseteq S \cap 1..Len(file)
<1> DEFINE L == Len(file)
<1>1. PICK F : ReadFrom(F, file, format, capacity, 1) /\ RecordsOf(file, format, capacity) = F[1]
  BY RecordsRead
<1> DEFINE T == {d \in Nat : \A p \in S \cap 1..L + 1 : p >= L + 1 - d => F[p] \subseteq S \cap 1..L}
<1>2. 0 \in T
  <2>1. \A p \in S \cap 1..L + 1 : p >= L + 1 - 0 => p = L + 1
    OBVIOUS
  <2>2. F[L + 1] = {}
    BY <1>1, ReadEach
  <2> QED BY <2>1, <2>2
<1>3. ASSUME NEW d \in Nat, d \in T PROVE d + 1 \in T
  <2> SUFFICES ASSUME NEW p \in S \cap 1..L + 1, p >= L + 1 - (d + 1)
               PROVE  F[p] \subseteq S \cap 1..L
    OBVIOUS
  <2>1. CASE p = L + 1
    BY <2>1, <1>1, ReadEach
  <2>2. CASE p # L + 1 /\ Good(file, format, capacity, p)
    <3>1. p \in 1..L /\ After(file, format, p) \in p + 1..L + 1
      BY <2>2, GoodEnds
    <3>2. After(file, format, p) \in S \cap 1..L + 1 /\ After(file, format, p) >= L + 1 - d
      BY <2>2, <3>1 DEF Leads
    <3>3. F[After(file, format, p)] \subseteq S \cap 1..L
      BY <1>3, <3>2
    <3>4. F[p] = {p} \cup F[After(file, format, p)]
      BY <1>1, <2>2, <3>1, ReadEach
    <3> QED BY <3>1, <3>3, <3>4
  <2>3. CASE p # L + 1 /\ ~Good(file, format, capacity, p)
    <3>1. p \in 1..L
      BY <2>3
    <3>2. F[p] = {p}
      BY <1>1, <2>3, <3>1, ReadEach
    <3> QED BY <3>1, <3>2
  <2> QED BY <2>1, <2>2, <2>3
<1>4. L \in T
  <2> HIDE DEF T
  <2> QED BY <1>2, <1>3, SetInduction
<1>5. 1 \in S \cap 1..L + 1 /\ 1 >= L + 1 - L
  OBVIOUS
<1> QED BY <1>1, <1>4, <1>5

\* Every good record that is read leads to another one, or to the end.
Chained(R, file, format, capacity) ==
    \A p \in R : /\ p \in 1..Len(file)
                 /\ Good(file, format, capacity, p) /\ After(file, format, p) <= Len(file)
                       => After(file, format, p) \in R

LEMMA RecordsChained ==
    ASSUME NEW file, NEW format, NEW capacity, Len(file) \in Nat
    PROVE  /\ Chained(RecordsOf(file, format, capacity), file, format, capacity)
           /\ Len(file) # 0 => 1 \in RecordsOf(file, format, capacity)
<1> DEFINE L == Len(file)
           A(p) == After(file, format, p)
<1>1. PICK F : ReadFrom(F, file, format, capacity, 1) /\ RecordsOf(file, format, capacity) = F[1]
  BY RecordsRead
<1>2. \A p \in 1..L : p \in F[p]
  BY <1>1, ReadEach
<1> DEFINE T == {d \in Nat : \A p \in 1..L + 1 : p >= L + 1 - d => Chained(F[p], file, format, capacity)}
<1>3. 0 \in T
  <2>1. \A p \in 1..L + 1 : p >= L + 1 - 0 => p = L + 1
    OBVIOUS
  <2>2. F[L + 1] = {}
    BY <1>1, ReadEach
  <2>3. Chained(F[L + 1], file, format, capacity)
    BY <2>2 DEF Chained
  <2> QED BY <2>1, <2>3
<1>4. ASSUME NEW d \in Nat, d \in T PROVE d + 1 \in T
  <2> SUFFICES ASSUME NEW p \in 1..L + 1, p >= L + 1 - (d + 1)
               PROVE  Chained(F[p], file, format, capacity)
    OBVIOUS
  <2>1. CASE p = L + 1
    BY <2>1, <1>1, ReadEach DEF Chained
  <2>2. CASE p # L + 1 /\ Good(file, format, capacity, p)
    <3>1. p \in 1..L /\ A(p) \in p + 1..L + 1 /\ A(p) >= L + 1 - d
      BY <2>2, GoodEnds
    <3>2. Chained(F[A(p)], file, format, capacity)
      BY <1>4, <3>1
    <3>3. F[p] = {p} \cup F[A(p)]
      BY <1>1, <2>2, <3>1, ReadEach
    <3>4. A(p) <= L => A(p) \in F[p]
      BY <1>2, <3>1, <3>3
    <3> QED BY <3>1, <3>2, <3>3, <3>4, Zenon DEF Chained
  <2>3. CASE p # L + 1 /\ ~Good(file, format, capacity, p)
    <3>1. p \in 1..L
      BY <2>3
    <3>2. F[p] = {p}
      BY <1>1, <2>3, <3>1, ReadEach
    <3> QED BY <2>3, <3>1, <3>2 DEF Chained
  <2> QED BY <2>1, <2>2, <2>3
<1>5. L \in T
  <2> HIDE DEF T
  <2> QED BY <1>3, <1>4, SetInduction
<1>6. 1 \in 1..L + 1 /\ 1 >= L + 1 - L
  OBVIOUS
<1>7. Chained(F[1], file, format, capacity)
  BY <1>5, <1>6
<1>8. L # 0 => 1 \in F[1]
  BY <1>2
<1> QED BY <1>1, <1>7, <1>8

-----------------------------------------------------------------------------
(* What the files hold *)

\* A set of numbers below a bound has a greatest one.
LEMMA GreatestNat ==
    ASSUME NEW n \in Nat, NEW T \in SUBSET (0..n), T # {}
    PROVE  \E x \in T : \A y \in T : y <= x
<1> DEFINE D == {n - y : y \in T}
<1>1. D \in SUBSET Nat /\ D # {}
  <2>1. \A y \in T : n - y \in Nat
    OBVIOUS
  <2>2. PICK y \in T : TRUE
    OBVIOUS
  <2>3. n - y \in D
    OBVIOUS
  <2> QED BY <2>1, <2>3
<1>2. PICK z \in D : \A d \in D : z <= d
  BY <1>1, LeastNat
<1>3. PICK x \in T : z = n - x
  OBVIOUS
<1>4. \A y \in T : y <= x
  <2> TAKE y \in T
  <2>1. z <= n - y
    BY <1>2
  <2>2. x \in 0..n /\ y \in 0..n
    OBVIOUS
  <2> QED BY <2>1, <2>2, <1>3
<1> QED BY <1>4

LEMMA SetterExists ==
    ASSUME NEW file, NEW format, NEW n \in Nat, NEW R \in SUBSET (0..n), NEW i,
           \E p \in R : i \in Sets(file, format, p)
    PROVE  /\ Setter(file, format, R, i) \in R
           /\ i \in Sets(file, format, Setter(file, format, R, i))
           /\ \A q \in R : i \in Sets(file, format, q) => q <= Setter(file, format, R, i)
<1> DEFINE T == {p \in R : i \in Sets(file, format, p)}
<1>1. PICK x \in T : \A y \in T : y <= x
  BY GreatestNat
<1>2. \E p \in R : /\ i \in Sets(file, format, p)
                   /\ \A q \in R : i \in Sets(file, format, q) => q <= p
  BY <1>1
<1> QED BY <1>2, Zenon DEF Setter

\* The records of a file, good or not, begin within S, and the good ones hold
\* chunks where chunks are read.
Laid(file, format, capacity, S) ==
    /\ 1 \in S /\ Leads(S, file, format, capacity)
    /\ \A p \in S : Good(file, format, capacity, p) => file[p] \in Nat
    /\ \A p \in S : \A k \in 0..Count(file, format, p) - 1 :
          Good(file, format, capacity, p) => file[p + Header(format) + k] \in Value

\* A file whose size is not a number of bytes that overflows.
LEMMA SetsWithin ==
    ASSUME NEW file, NEW format, NEW capacity \in Nat, NEW p \in Nat, Len(file) \in Nat,
           Good(file, format, capacity, p), file[p] \in Nat
    PROVE  \A i \in Sets(file, format, p) :
              i \in 0..capacity - 1 /\ i - file[p] \in 0..Count(file, format, p) - 1
<1> DEFINE c == Count(file, format, p)
<1>1. c \in Nat \ {0}
  BY GoodEnds
<1>2. c % SizeLimit \in 0..c
  <2> HIDE DEF c
  <2> QED BY <1>1, ImageAssumption
<1>3. file[p] + c <= capacity
  BY DEF Good
<1>4. Sets(file, format, p) = file[p]..file[p] + (c % SizeLimit) - 1
  BY DEF Sets
<1> HIDE DEF c
<1>5. \A i \in file[p]..file[p] + (c % SizeLimit) - 1 : i \in 0..capacity - 1 /\ i - file[p] \in 0..c - 1
  BY <1>1, <1>2, <1>3
<1> QED BY <1>4, <1>5 DEF c

Chunks(capacity) == UNION {[D -> Value] : D \in SUBSET (0..capacity - 1)}

LEMMA SparseType ==
    ASSUME NEW file, NEW format, NEW capacity \in Nat, Len(file) \in Nat,
           NEW S, Laid(file, format, capacity, S)
    PROVE  SparseChunks(file, format, capacity) \in Chunks(capacity) \cup {None}
<1> DEFINE R == RecordsOf(file, format, capacity)
           D == UNION {Sets(file, format, p) : p \in R}
           P(i) == Setter(file, format, R, i)
           C == SparseChunks(file, format, capacity)
<1>1. R \subseteq S \cap 1..Len(file)
  BY RecordsWithin DEF Laid
<1> SUFFICES ASSUME \A p \in R : Good(file, format, capacity, p)
             PROVE  C \in Chunks(capacity)
  BY DEF SparseChunks
<1>2. C = [i \in D |-> file[P(i) + Header(format) + i - file[P(i)]]]
  BY DEF SparseChunks
<1> HIDE DEF C
<1>3. ASSUME NEW p \in R
      PROVE  /\ p \in Nat /\ file[p] \in Nat
             /\ \A i \in Sets(file, format, p) :
                   /\ i \in 0..capacity - 1
                   /\ i - file[p] \in 0..Count(file, format, p) - 1
  <2>1. p \in S /\ p \in Nat /\ Good(file, format, capacity, p)
    BY <1>1
  <2>2. file[p] \in Nat
    BY <2>1 DEF Laid
  <2> QED BY <2>1, <2>2, SetsWithin
<1>4. D \in SUBSET (0..capacity - 1)
  BY <1>3
<1>5. ASSUME NEW i \in D PROVE file[P(i) + Header(format) + i - file[P(i)]] \in Value
  <2>1. R \in SUBSET (0..Len(file))
    BY <1>1
  <2>2. P(i) \in R /\ i \in Sets(file, format, P(i))
    BY <1>5, <2>1, SetterExists
  <2>3. i \in Nat /\ P(i) \in Nat /\ file[P(i)] \in Nat /\ Header(format) \in Nat
        /\ i - file[P(i)] \in 0..Count(file, format, P(i)) - 1
    BY <1>3, <1>4, <2>2 DEF Header
  <2>4. file[P(i) + Header(format) + (i - file[P(i)])] \in Value
    BY <1>1, <2>2, <2>3 DEF Laid
  <2>5. P(i) + Header(format) + i - file[P(i)] = P(i) + Header(format) + (i - file[P(i)])
    BY <2>3
  <2> QED BY <2>4, <2>5
<1> HIDE DEF D, P
<1>6. C \in [D -> Value]
  BY <1>2, <1>5
<1> QED BY <1>4, <1>6 DEF Chunks

\* Chunks are counted in natural numbers, and a number of pages is a count.
Capacity(p) == p * ChunksPerPage

LEMMA CapacityNat ==
    ASSUME NEW p \in 0..MaxPages
    PROVE  Capacity(p) \in 0..Capacity(MaxPages) /\ Capacity(p) \in Nat
<1>1. ChunksPerPage \in Nat /\ MaxPages \in Nat /\ p \in Nat /\ p <= MaxPages
  BY ImageAssumption
<1> QED BY <1>1, Z3 DEF Capacity

\* Chunks that are in the image, and zeros.
Filled(chunks, capacity) ==
    [i \in 1..capacity |-> IF i - 1 \in DOMAIN chunks THEN chunks[i - 1] ELSE Zero]

LEMMA ChunksNotNone ==
    ASSUME NEW p \in 0..MaxPages, NEW chunks \in Chunks(Capacity(p))
    PROVE  chunks # None /\ Filled(chunks, Capacity(p)) \in [1..Capacity(p) -> Value]
           /\ Filled(chunks, Capacity(p)) # None
<1>1. PICK D \in SUBSET (0..Capacity(p) - 1) : chunks \in [D -> Value]
  BY DEF Chunks
<1>2. Capacity(p) \in 0..Capacity(MaxPages)
  BY CapacityNat
<1>3. Capacity(MaxPages) \in Nat
  BY CapacityNat, ImageAssumption
<1>4. \A E \in SUBSET (0..Capacity(MaxPages)) : None \notin [E -> Value]
  BY NoneAssumption DEF Capacity
<1>5. D \in SUBSET (0..Capacity(MaxPages)) /\ 1..Capacity(p) \in SUBSET (0..Capacity(MaxPages))
  BY <1>2, <1>3
<1>6. Zero \in Value
  BY ImageAssumption
<1>7. Filled(chunks, Capacity(p)) \in [1..Capacity(p) -> Value]
  BY <1>1, <1>6 DEF Filled
<1> QED BY <1>1, <1>4, <1>5, <1>7

\* What an image restores to, by the chunks that are visited.
LEMMA ContentsOf ==
    ASSUME NEW p \in 0..MaxPages, NEW f \in Nat, NEW file, NEW meta,
           Info(meta) = [format |-> f, pages |-> p],
           VisitedChunks(file, Info(meta)) \in Chunks(Capacity(p)) \cup {None}
    PROVE  /\ Info(meta) # None
           /\ VisitedChunks(file, Info(meta)) = None => Contents(file, meta) = None
           /\ VisitedChunks(file, Info(meta)) # None =>
                 /\ Contents(file, meta) = Filled(VisitedChunks(file, Info(meta)), Capacity(p))
                 /\ Contents(file, meta) \in [1..Capacity(p) -> Value]
                 /\ Contents(file, meta) # None
<1> DEFINE chunks == VisitedChunks(file, Info(meta))
           n == Capacity(p)
<1>1. p \in Nat
  BY ImageAssumption
<1>2. Info(meta) # None
  <2>1. Info(meta) \in [format : Nat, pages : Nat]
    BY <1>1
  <2> QED BY <2>1, NoneAssumption
<1>3. chunks = None => Contents(file, meta) = None
  BY <1>2, Zenon DEF Contents
<1>4. ASSUME chunks # None PROVE Contents(file, meta) = Filled(chunks, n)
  <2>1. Info(meta).pages * ChunksPerPage = n
    BY DEF Capacity
  <2>2. Contents(file, meta) = RestoredInto(Zeros(n), file, meta)
    BY <1>2, <1>4, <2>1, Zenon DEF Contents
  <2>3. n \in Nat
    BY CapacityNat
  <2>4. Zeros(n) \in Seq({Zero}) /\ Len(Zeros(n)) = n /\ DOMAIN Zeros(n) = 1..n
        /\ \A i \in 1..n : Zeros(n)[i] = Zero
    BY <2>3 DEF Zeros
  <2>5. ~(Len(Zeros(n)) < n)
    BY <2>3, <2>4
  <2>6. RestoredInto(Zeros(n), file, meta) =
           [i \in DOMAIN Zeros(n) |-> IF i - 1 \in DOMAIN chunks THEN chunks[i - 1] ELSE Zeros(n)[i]]
    BY <1>4, <2>1, <2>5, Zenon DEF RestoredInto
  <2> HIDE DEF n, chunks
  <2> QED BY <2>2, <2>4, <2>6 DEF Filled
<1>5. chunks # None => chunks \in Chunks(n)
  OBVIOUS
<1> HIDE DEF chunks
<1> QED BY <1>2, <1>3, <1>4, <1>5, ChunksNotNone DEF chunks

\* The metadata that are not refused.
LEMMA InfoCases ==
    ASSUME NEW p \in 0..MaxPages
    PROVE  /\ Info(<<p>>) = [format |-> 0, pages |-> p]
           /\ \A f \in {V1, V2} : Info(<<f, p>>) = [format |-> f, pages |-> p]
           /\ Info(<<V1>>) = [format |-> 0, pages |-> V1]
           /\ Info(<<>>) = None /\ Info(None) = None
<1>1. <<p>> # None /\ <<V1>> # None /\ <<V1, p>> # None /\ <<V2, p>> # None
  <2>1. p \in Nat /\ V1 \in Nat /\ V2 \in Nat
    BY ImageAssumption, MarkerAssumption
  <2>2. <<p>> \in Seq(Value \cup Nat) /\ <<V1>> \in Seq(Value \cup Nat)
        /\ <<V1, p>> \in Seq(Value \cup Nat) /\ <<V2, p>> \in Seq(Value \cup Nat)
    BY <2>1
  <2> QED BY <2>2, NoneAssumption
<1> QED BY <1>1 DEF Info

LEMMA DenseContents ==
    ASSUME NEW p \in 0..MaxPages, NEW n \in Nat, NEW file \in [1..n -> Value], file # None
    PROVE  /\ n # Capacity(p) => Contents(file, <<p>>) = None
           /\ n = Capacity(p) => Contents(file, <<p>>) = file
<1> DEFINE chunks == VisitedChunks(file, Info(<<p>>))
<1>1. Info(<<p>>) = [format |-> 0, pages |-> p]
  BY InfoCases
<1>2. Info(<<p>>) # None
  <2>1. Info(<<p>>) \in [format : Nat, pages : Nat]
    BY <1>1, ImageAssumption
  <2> QED BY <2>1, NoneAssumption
<1>3. chunks = DenseChunks(file, Capacity(p))
  BY <1>1, <1>2 DEF VisitedChunks, Capacity
<1>4. Len(file) = n
  OBVIOUS
<1>5. n # Capacity(p) => chunks = None
  BY <1>3, <1>4 DEF DenseChunks
<1>6. ASSUME n = Capacity(p)
      PROVE  chunks = [i \in 0..n - 1 |-> file[i + 1]]
  BY <1>3, <1>4, <1>6 DEF DenseChunks
<1>7. ASSUME n = Capacity(p)
      PROVE  chunks \in Chunks(Capacity(p))
  <2>1. chunks \in [0..n - 1 -> Value]
    BY <1>6, <1>7
  <2> QED BY <1>7, <2>1 DEF Chunks
<1> HIDE DEF chunks
<1>8. chunks \in Chunks(Capacity(p)) \cup {None}
  BY <1>5, <1>7
<1>9. ASSUME n = Capacity(p) PROVE Contents(file, <<p>>) = file
  <2>1. chunks # None
    BY <1>7, <1>9, ChunksNotNone
  <2>2. Contents(file, <<p>>) = Filled(chunks, n)
    BY <1>1, <1>8, <1>9, <2>1, ContentsOf DEF chunks
  <2>3. Filled(chunks, n) = [i \in 1..n |-> file[i]]
    BY <1>6, <1>9 DEF Filled
  <2> QED BY <2>2, <2>3
<1> QED BY <1>1, <1>5, <1>8, <1>9, ContentsOf DEF chunks

-----------------------------------------------------------------------------
(* Files of V1 records *)

Odd == {p \in Nat : p % 2 = 1}

\* Records with growing indices below n, each with the chunk of m and none of
\* them zero; the last record may lack its chunk.
Records(F, m, n) ==
    /\ F \in Seq(Value \cup Nat)
    /\ Len(F) <= 2 * n
    /\ \A j \in Odd : j <= Len(F) => F[j] \in 0..n - 1
    /\ \A j \in Odd : j < Len(F) => F[j + 1] = m[F[j] + 1] /\ F[j + 1] # Zero
    /\ \A i, j \in Odd : i < j /\ j <= Len(F) => F[i] < F[j]

\* No chunk of m below n is missing, and there is none above.
Complete(F, m, n) ==
    /\ \A k \in 0..n - 1 : m[k + 1] # Zero => \E j \in Odd : j < Len(F) /\ F[j] = k
    /\ \A j \in Odd : j < Len(F) => F[j] < n

\* m up to chunk n, and zeros.
UpTo(m, n) == [i \in DOMAIN m |-> IF i <= n THEN m[i] ELSE Zero]

LEMMA OddSteps ==
    /\ 1 \in Odd /\ 0 \notin Odd
    /\ \A j \in Odd : j \in Nat /\ j >= 1 /\ j + 2 \in Odd /\ j + 1 \notin Odd
    /\ \A j \in Nat : j \notin Odd => j + 1 \in Odd
  BY DEF Odd

\* What holds of 1, and of j + 2 when it holds of j, holds of odd numbers.
LEMMA OddInduction ==
    ASSUME NEW T, 1 \in T, \A j \in Odd : j \in T => j + 2 \in T
    PROVE  Odd \subseteq T
<1> DEFINE S == {r \in Nat : 2 * r + 1 \in T}
<1>1. 0 \in S
  OBVIOUS
<1>2. ASSUME NEW r \in Nat, r \in S PROVE r + 1 \in S
  <2>1. 2 * r + 1 \in Odd /\ 2 * r + 1 + 2 = 2 * (r + 1) + 1
    BY DEF Odd
  <2>2. 2 * r + 1 + 2 \in T
    BY <1>2, <2>1
  <2> QED BY <2>1, <2>2
<1>3. Nat \subseteq S
  <2> HIDE DEF S
  <2> QED BY <1>1, <1>2, SetInduction
<1>4. ASSUME NEW p \in Odd PROVE p \in T
  <2>1. PICK r \in Nat : p = 2 * r + 1
    BY DEF Odd
  <2>2. 2 * r + 1 \in T
    BY <1>3
  <2> QED BY <2>1, <2>2
<1> QED BY <1>4

LEMMA RecordGood ==
    ASSUME NEW capacity \in Nat, NEW n \in 0..capacity, NEW m \in [1..capacity -> Value],
           NEW F, Records(F, m, n), NEW p \in Odd
    PROVE  /\ Count(F, V1, p) = 1 /\ Header(V1) = 1 /\ After(F, V1, p) = p + 2
           /\ Good(F, V1, capacity, p) <=> p < Len(F)
           /\ p < Len(F) => Sets(F, V1, p) = {F[p]} /\ F[p] \in 0..n - 1
<1>1. p \in Nat /\ Len(F) \in Nat /\ n \in Nat
  BY OddSteps, LenProperties DEF Records
<1>2. Count(F, V1, p) = 1 /\ Header(V1) = 1 /\ After(F, V1, p) = p + 2
  BY <1>1 DEF Count, Header, After
<1>3. p < Len(F) => F[p] \in 0..n - 1
  BY <1>1 DEF Records
<1>4. Good(F, V1, capacity, p) <=> p < Len(F)
  <2>1. Good(F, V1, capacity, p) <=> 1 \in 1..Len(F) + 1 - p - 1 /\ F[p] + 1 <= capacity
    BY <1>2 DEF Good
  <2>2. 1 \in 1..Len(F) + 1 - p - 1 <=> p < Len(F)
    BY <1>1
  <2> QED BY <1>1, <1>3, <2>1, <2>2
<1>5. ASSUME p < Len(F) PROVE Sets(F, V1, p) = {F[p]}
  <2>1. 1 % SizeLimit = 1
    BY ImageAssumption
  <2>2. Sets(F, V1, p) = F[p]..F[p] + 1 - 1
    BY <1>2, <2>1 DEF Sets
  <2> QED BY <1>3, <1>5, <2>2
<1> QED BY <1>2, <1>3, <1>4, <1>5

LEMMA RecordsLaid ==
    ASSUME NEW capacity \in Nat, NEW n \in 0..capacity, NEW m \in [1..capacity -> Value],
           NEW F, Records(F, m, n)
    PROVE  Laid(F, V1, capacity, Odd)
<1>1. Len(F) \in Nat /\ n \in Nat
  BY LenProperties DEF Records
<1>2. Leads(Odd, F, V1, capacity)
  BY RecordGood, OddSteps DEF Leads
<1>3. ASSUME NEW p \in Odd, Good(F, V1, capacity, p)
      PROVE  F[p] \in Nat /\ F[p + 1] \in Value
  <2>1. p < Len(F) /\ F[p] \in 0..n - 1
    BY <1>3, RecordGood
  <2>2. F[p + 1] = m[F[p] + 1] /\ F[p] + 1 \in 1..capacity
    BY <1>1, <2>1 DEF Records
  <2> QED BY <2>1, <2>2
<1>4. ASSUME NEW p \in Odd, Good(F, V1, capacity, p), NEW k \in 0..Count(F, V1, p) - 1
      PROVE  F[p + Header(V1) + k] \in Value
  <2>1. k = 0 /\ Header(V1) = 1 /\ p \in Nat
    BY <1>4, RecordGood, OddSteps
  <2> QED BY <1>3, <1>4, <2>1
<1> QED BY <1>2, <1>3, <1>4, OddSteps DEF Laid

\* All records are read, and they bring the chunks of m back.
LEMMA RecordsAllRead ==
    ASSUME NEW capacity \in Nat, NEW n \in 0..capacity, NEW m \in [1..capacity -> Value],
           NEW F, Records(F, m, n)
    PROVE  RecordsOf(F, V1, capacity) = {p \in Odd : p <= Len(F)}
<1> DEFINE R == RecordsOf(F, V1, capacity)
<1>1. Len(F) \in Nat
  BY LenProperties DEF Records
<1>2. R \subseteq Odd \cap 1..Len(F)
  BY <1>1, RecordsLaid, RecordsWithin DEF Laid
<1>3. Chained(R, F, V1, capacity) /\ (Len(F) # 0 => 1 \in R)
  BY <1>1, RecordsChained
<1> DEFINE T == {p \in Odd : p <= Len(F) => p \in R}
<1>4. 1 \in T
  BY <1>1, <1>3, OddSteps
<1>5. ASSUME NEW p \in Odd, p \in T PROVE p + 2 \in T
  <2> SUFFICES ASSUME p + 2 <= Len(F) PROVE p + 2 \in R
    BY OddSteps
  <2>1. p \in Nat /\ p < Len(F) /\ p \in R
    BY <1>1, <1>5, OddSteps
  <2>2. Good(F, V1, capacity, p) /\ After(F, V1, p) = p + 2
    BY <2>1, RecordGood
  <2> QED BY <1>3, <2>1, <2>2 DEF Chained
<1>6. Odd \subseteq T
  <2> HIDE DEF T
  <2> QED BY <1>4, <1>5, OddInduction
<1> QED BY <1>2, <1>6

\* The indices of its complete records.
Indices(F) == {F[p] : p \in {q \in Odd : q < Len(F)}}

LEMMA RecordsChunks ==
    ASSUME NEW capacity \in Nat, NEW n \in 0..capacity, NEW m \in [1..capacity -> Value],
           NEW F, Records(F, m, n)
    PROVE  /\ Len(F) \in Odd => SparseChunks(F, V1, capacity) = None
           /\ Len(F) \notin Odd =>
                 SparseChunks(F, V1, capacity) =
                    [i \in Indices(F) |-> m[i + 1]]
<1> DEFINE R == RecordsOf(F, V1, capacity)
           D == Indices(F)
           P(i) == Setter(F, V1, R, i)
<1>1. Len(F) \in Nat /\ n \in Nat
  BY LenProperties DEF Records
<1>2. R = {p \in Odd : p <= Len(F)}
  BY RecordsAllRead
<1>3. ASSUME Len(F) \in Odd PROVE SparseChunks(F, V1, capacity) = None
  <2>1. Len(F) \in R /\ ~Good(F, V1, capacity, Len(F))
    BY <1>1, <1>2, <1>3, RecordGood
  <2> QED BY <2>1, Zenon DEF SparseChunks
<1>4. ASSUME Len(F) \notin Odd
      PROVE  SparseChunks(F, V1, capacity) = [i \in D |-> m[i + 1]]
  <2>1. R = {p \in Odd : p < Len(F)}
    BY <1>1, <1>2, <1>4 DEF Odd
  <2>2. \A p \in R : Good(F, V1, capacity, p) /\ Sets(F, V1, p) = {F[p]} /\ F[p] \in 0..n - 1
    BY <2>1, RecordGood
  <2>3. UNION {Sets(F, V1, p) : p \in R} = D
    <3>1. \A p \in R : Sets(F, V1, p) = {F[p]}
      BY <2>2
    <3>2. D = {F[p] : p \in R}
      BY <2>1 DEF Indices
    <3> HIDE DEF D, R
    <3> QED BY <3>1, <3>2
  <2>4. ASSUME NEW i \in D PROVE F[P(i) + Header(V1) + i - F[P(i)]] = m[i + 1]
    <3>1. R \in SUBSET (0..Len(F)) /\ \E p \in R : i \in Sets(F, V1, p)
      <4>1. R \in SUBSET (0..Len(F))
        <5>1. \A p \in Odd : p < Len(F) => p \in 0..Len(F)
          BY <1>1 DEF Odd
        <5> QED BY <2>1, <5>1
      <4>2. PICK p \in R : i = F[p]
        BY <2>1 DEF Indices
      <4> QED BY <2>2, <4>1, <4>2
    <3>2. P(i) \in R /\ i \in Sets(F, V1, P(i))
      BY <1>1, <3>1, SetterExists
    <3>3. P(i) \in Odd /\ P(i) < Len(F) /\ i = F[P(i)] /\ i \in 0..n - 1
      BY <2>1, <2>2, <3>2
    <3>4. F[P(i) + 1] = m[i + 1]
      BY <3>3 DEF Records
    <3> HIDE DEF P
    <3>5. Header(V1) = 1
      BY <3>3, RecordGood
    <3>6. P(i) + 1 + i - F[P(i)] = P(i) + 1
      BY <3>3, OddSteps
    <3> QED BY <3>4, <3>5, <3>6
  <2>5. SparseChunks(F, V1, capacity) = [i \in D |-> F[P(i) + Header(V1) + i - F[P(i)]]]
    <3>1. \A p \in R : Good(F, V1, capacity, p)
      BY <2>2
    <3> QED BY <2>3, <3>1, Zenon DEF SparseChunks
  <2> HIDE DEF D, P
  <2> QED BY <2>4, <2>5, Zenon
<1> QED BY <1>3, <1>4

\* An image of V1 records restores to m up to the chunk where they are
\* complete, unless it ends inside a record.
LEMMA RecordsContents ==
    ASSUME NEW p \in 0..MaxPages, NEW m \in [1..Capacity(p) -> Value],
           NEW n \in 0..Capacity(p), NEW F, Records(F, m, n)
    PROVE  /\ Len(F) \in Odd => Contents(F, <<V1, p>>) = None
           /\ Len(F) \notin Odd =>
                 \A k \in 0..Capacity(p) : Complete(F, m, k) =>
                    Contents(F, <<V1, p>>) = UpTo(m, k)
<1> DEFINE D == Indices(F)
           chunks == VisitedChunks(F, Info(<<V1, p>>))
<1>1. Capacity(p) \in Nat /\ Len(F) \in Nat /\ n \in Nat
  BY CapacityNat, LenProperties DEF Records
<1>2. F # None
  BY NoneAssumption DEF Records
<1>3. Info(<<V1, p>>) = [format |-> V1, pages |-> p] /\ Info(<<V1, p>>) # None
  <2>1. Info(<<V1, p>>) = [format |-> V1, pages |-> p]
    BY InfoCases
  <2>2. [format |-> V1, pages |-> p] \in [format : Nat, pages : Nat]
    BY ImageAssumption, MarkerAssumption
  <2> QED BY <2>1, <2>2, NoneAssumption
<1>4. chunks = SparseChunks(F, V1, Capacity(p))
  <2>1. V1 # 0
    BY MarkerAssumption, ImageAssumption
  <2> QED BY <1>2, <1>3, <2>1 DEF VisitedChunks, Capacity
<1>5. chunks \in Chunks(Capacity(p)) \cup {None}
  BY <1>1, <1>4, RecordsLaid, SparseType
<1>r. /\ Len(F) \in Odd => chunks = None
      /\ Len(F) \notin Odd => chunks = [i \in D |-> m[i + 1]]
  <2>1. m \in [1..Capacity(p) -> Value] /\ n \in 0..Capacity(p)
    OBVIOUS
  <2> HIDE DEF D, chunks
  <2>2. /\ Len(F) \in Odd => SparseChunks(F, V1, Capacity(p)) = None
        /\ Len(F) \notin Odd => SparseChunks(F, V1, Capacity(p)) = [i \in D |-> m[i + 1]]
    BY <1>1, <2>1, RecordsChunks DEF D
  <2> QED BY <1>4, <2>2
<1> HIDE DEF chunks
<1>6. Len(F) \in Odd => Contents(F, <<V1, p>>) = None
  <2>1. V1 \in Nat
    BY MarkerAssumption
  <2> QED BY <1>3, <1>5, <1>r, <2>1, ContentsOf DEF chunks
<1>7. ASSUME Len(F) \notin Odd, NEW k \in 0..Capacity(p), Complete(F, m, k)
      PROVE  Contents(F, <<V1, p>>) = UpTo(m, k)
  <2>1. chunks = [i \in D |-> m[i + 1]]
    BY <1>7, <1>r
  <2>2. ASSUME NEW q \in Odd, q < Len(F) PROVE F[q] \in 0..n - 1 /\ F[q] \in 0..Capacity(p) - 1 /\ F[q] < k
    BY <1>1, <1>7, <2>2, OddSteps DEF Records, Complete
  <2>3. D \in SUBSET (0..Capacity(p) - 1) /\ chunks # None
    <3>1. D \in SUBSET (0..Capacity(p) - 1)
      BY <2>2 DEF Indices
    <3>2. \A i \in 0..Capacity(p) - 1 : i + 1 \in 1..Capacity(p)
      BY <1>1
    <3>3. chunks \in [D -> Value]
      BY <2>1, <3>1, <3>2
    <3> HIDE DEF D
    <3>4. chunks \in Chunks(Capacity(p))
      BY <3>1, <3>3 DEF Chunks
    <3> QED BY <3>1, <3>4, ChunksNotNone
  <2>4. Contents(F, <<V1, p>>) = Filled(chunks, Capacity(p))
    BY <1>3, <1>5, <2>3, ContentsOf, MarkerAssumption DEF chunks
  <2>5. ASSUME NEW i \in 1..Capacity(p)
        PROVE  (IF i - 1 \in DOMAIN chunks THEN chunks[i - 1] ELSE Zero) = (IF i <= k THEN m[i] ELSE Zero)
    <3>1. CASE i - 1 \in D
      <4>1. i - 1 < k
        BY <2>2, <3>1 DEF Indices
      <4>2. i <= k /\ i - 1 + 1 = i
        BY <1>7, <4>1
      <4> HIDE DEF D
      <4> QED BY <2>1, <3>1, <4>2
    <3>2. CASE i - 1 \notin D /\ i <= k
      <4>1. i - 1 \in 0..k - 1 /\ i - 1 + 1 = i
        BY <3>2, <1>7
      <4>2. m[i] = Zero
        BY <1>7, <3>2, <4>1 DEF Complete, Indices
      <4> HIDE DEF D
      <4> QED BY <2>1, <3>2, <4>2
    <3>3. CASE i - 1 \notin D /\ ~(i <= k)
      <4> HIDE DEF D
      <4> QED BY <2>1, <3>3
    <3> QED BY <3>1, <3>2, <3>3
  <2> HIDE DEF D
  <2>6. Filled(chunks, Capacity(p)) = UpTo(m, k)
    <3>1. DOMAIN m = 1..Capacity(p)
      OBVIOUS
    <3> QED BY <2>5, <3>1 DEF Filled, UpTo
  <2> QED BY <2>4, <2>6
<1> QED BY <1>6, <1>7

-----------------------------------------------------------------------------
(* Files of V2 records *)

\* No record that is read is refused.
Whole(file, format, capacity, S) ==
    \A p \in S : p <= Len(file) => Good(file, format, capacity, p)

LEMMA WholeRead ==
    ASSUME NEW p \in 0..MaxPages, NEW file, NEW format, Len(file) \in Nat,
           NEW S, Laid(file, format, Capacity(p), S), Whole(file, format, Capacity(p), S)
    PROVE  SparseChunks(file, format, Capacity(p)) # None
<1> DEFINE R == RecordsOf(file, format, Capacity(p))
           D == UNION {Sets(file, format, q) : q \in R}
           Q(i) == Setter(file, format, R, i)
           C == SparseChunks(file, format, Capacity(p))
<1>1. R \subseteq S \cap 1..Len(file)
  BY RecordsWithin DEF Laid
<1>2. \A q \in R : Good(file, format, Capacity(p), q)
  BY <1>1 DEF Whole
<1>3. C = [i \in D |-> file[Q(i) + Header(format) + i - file[Q(i)]]]
  BY <1>2, Zenon DEF SparseChunks
<1>4. D \in SUBSET (0..Capacity(p) - 1)
  <2>1. \A q \in R : Sets(file, format, q) \subseteq 0..Capacity(p) - 1
    <3> TAKE q \in R
    <3>1. q \in S /\ q \in Nat /\ Good(file, format, Capacity(p), q)
      BY <1>1, <1>2
    <3>2. file[q] \in Nat
      BY <3>1 DEF Laid
    <3> QED BY <3>1, <3>2, SetsWithin, CapacityNat
  <2> QED BY <2>1
<1>5. C \in Chunks(Capacity(p)) \cup {None}
  BY SparseType, CapacityNat
<1> SUFFICES ASSUME C = None PROVE FALSE
  OBVIOUS
<1>6. \A i \in D : C[i] \in Value
  <2> TAKE i \in D
  <2>1. R \in SUBSET (0..Len(file))
    BY <1>1
  <2>2. Q(i) \in R /\ i \in Sets(file, format, Q(i))
    BY <2>1, SetterExists
  <2>3. Q(i) \in S /\ Q(i) \in Nat /\ Good(file, format, Capacity(p), Q(i))
    BY <1>1, <1>2, <2>2
  <2>4. file[Q(i)] \in Nat
    BY <2>3 DEF Laid
  <2>5. i \in Nat /\ i - file[Q(i)] \in 0..Count(file, format, Q(i)) - 1 /\ Header(format) \in Nat
    BY <1>4, <2>2, <2>3, <2>4, SetsWithin, CapacityNat DEF Header
  <2>6. file[Q(i) + Header(format) + (i - file[Q(i)])] \in Value
    BY <2>3, <2>5 DEF Laid
  <2>7. Q(i) + Header(format) + i - file[Q(i)] = Q(i) + Header(format) + (i - file[Q(i)])
    BY <2>3, <2>4, <2>5
  <2> HIDE DEF D, Q, C
  <2> QED BY <1>3, <2>6, <2>7
<1> HIDE DEF D, Q, C
<1>7. C \in [D -> Value]
  BY <1>3, <1>6
<1>8. C \in Chunks(Capacity(p))
  BY <1>4, <1>7 DEF Chunks
<1> QED BY <1>8, ChunksNotNone

Third == {p \in Nat : p % 3 = 1}

\* Records of one chunk each.
Singles(F, n) ==
    /\ F \in Seq(Value \cup Nat) /\ Len(F) % 3 = 0
    /\ \A j \in Third : j <= Len(F) => F[j] \in 0..n - 1 /\ F[j + 1] = 1 /\ F[j + 2] \in Value

LEMMA SinglesLaid ==
    ASSUME NEW capacity \in Nat, NEW F, Singles(F, capacity)
    PROVE  Laid(F, V2, capacity, Third) /\ Whole(F, V2, capacity, Third)
<1>1. Len(F) \in Nat
  BY LenProperties DEF Singles
<1>2. Header(V2) = 2
  BY MarkerAssumption DEF Header
<1>3. ASSUME NEW p \in Third
      PROVE  p \in Nat /\ p + 3 \in Third /\ (p <= Len(F) => p + 2 <= Len(F))
  <2>1. PICK l \in Nat : l = Len(F)
    BY <1>1
  <2>2. p \in Nat /\ p % 3 = 1 /\ l % 3 = 0
    BY <2>1 DEF Third, Singles
  <2>3. p + 3 \in Nat /\ (p + 3) % 3 = 1 /\ (p <= l => p + 2 <= l)
    BY <2>2
  <2> QED BY <2>1, <2>2, <2>3 DEF Third
<1>4. ASSUME NEW p \in Third, p <= Len(F)
      PROVE  /\ F[p] \in 0..capacity - 1 /\ F[p + 2] \in Value
             /\ Count(F, V2, p) = 1 /\ After(F, V2, p) = p + 3
             /\ Good(F, V2, capacity, p)
  <2>1. F[p] \in 0..capacity - 1 /\ F[p + 1] = 1 /\ F[p + 2] \in Value
    BY <1>4 DEF Singles
  <2>2. Count(F, V2, p) = 1
    BY <1>1, <1>3, <1>4, <2>1, MarkerAssumption DEF Count
  <2>3. After(F, V2, p) = p + 3
    BY <1>2, <1>3, <2>2 DEF After
  <2>4. 1 \in 1..Len(F) + 1 - p - 2
    <3>1. p \in Nat /\ p + 2 <= Len(F)
      BY <1>3, <1>4
    <3> QED BY <1>1, <3>1
  <2>5. F[p] + 1 <= capacity
    BY <2>1
  <2> QED BY <1>2, <2>1, <2>2, <2>3, <2>4, <2>5 DEF Good
<1>5. ASSUME NEW p \in Third, Good(F, V2, capacity, p) PROVE p <= Len(F)
  <2>1. p \in Nat
    BY <1>3
  <2> QED BY <1>1, <1>5, <2>1, GoodEnds
<1>6. Whole(F, V2, capacity, Third)
  BY <1>4 DEF Whole
<1>7. Leads(Third, F, V2, capacity)
  BY <1>3, <1>4 DEF Leads
<1>8. ASSUME NEW p \in Third, Good(F, V2, capacity, p), NEW k \in 0..Count(F, V2, p) - 1
      PROVE  F[p + Header(V2) + k] \in Value
  <2>1. p <= Len(F)
    BY <1>5, <1>8
  <2>2. p \in Nat
    BY <1>3
  <2>3. k = 0 /\ F[p + 2] \in Value
    BY <1>4, <2>1
  <2>4. p + Header(V2) + k = p + 2
    BY <1>2, <2>2, <2>3
  <2> QED BY <2>3, <2>4
<1>9. \A p \in Third : Good(F, V2, capacity, p) => F[p] \in Nat
  BY <1>4, <1>5
<1>10. 1 \in Third
  BY DEF Third
<1> QED BY <1>6, <1>7, <1>8, <1>9, <1>10 DEF Laid

LEMMA ExtentLaid ==
    ASSUME NEW capacity \in Nat, NEW m \in [1..capacity -> Value]
    PROVE  LET F == Extent(m)
           IN  /\ F \in Seq(Value \cup Nat)
               /\ \E S : Laid(F, V2, capacity, S) /\ Whole(F, V2, capacity, S)
<1> DEFINE F == Extent(m)
<1>1. m \in Seq(Value) /\ Len(m) = capacity /\ (m = <<>> <=> capacity = 0)
  BY EmptySeq
<1>2. Header(V2) = 2 /\ V2 # V1
  BY MarkerAssumption DEF Header
<1>3. CASE capacity = 0
  <2>1. F = <<>>
    BY <1>1, <1>3 DEF Extent
  <2>2. Len(F) = 0 /\ F \in Seq(Value \cup Nat)
    BY <2>1
  <2>3. Count(F, V2, 1) = 0
    BY <1>2, <2>2 DEF Count
  <2> HIDE DEF F
  <2>4. ~Good(F, V2, capacity, 1)
    BY <2>3 DEF Good
  <2>5. Laid(F, V2, capacity, {1}) /\ Whole(F, V2, capacity, {1})
    BY <2>2, <2>4 DEF Laid, Leads, Whole
  <2> QED BY <2>2, <2>5 DEF F
<1>4. CASE capacity # 0
  <2>1. F = <<0, capacity>> \o m
    BY <1>1, <1>4 DEF Extent
  <2>2. /\ F \in Seq(Value \cup Nat) /\ Len(F) = capacity + 2
        /\ F[1] = 0 /\ F[2] = capacity
        /\ \A k \in 0..capacity - 1 : F[3 + k] = m[k + 1]
    <3>1. <<0, capacity>> \in Seq(Value \cup Nat) /\ m \in Seq(Value \cup Nat) /\ Len(<<0, capacity>>) = 2
      BY <1>1
    <3>2. F \in Seq(Value \cup Nat) /\ Len(F) = 2 + capacity
          /\ \A i \in 1..2 + capacity : F[i] = IF i <= 2 THEN <<0, capacity>>[i] ELSE m[i - 2]
      BY <1>1, <2>1, <3>1, ConcatProperties
    <3> HIDE DEF F
    <3>3. \A k \in 0..capacity - 1 : 3 + k \in 1..2 + capacity /\ ~(3 + k <= 2) /\ 3 + k - 2 = k + 1
      OBVIOUS
    <3>4. F[1] = 0 /\ F[2] = capacity
      BY <3>2
    <3> QED BY <3>2, <3>3, <3>4
  <2> HIDE DEF F
  <2> DEFINE S == {1, capacity + 3}
  <2>3. Count(F, V2, 1) = capacity /\ After(F, V2, 1) = capacity + 3
    BY <1>2, <2>2 DEF Count, After
  <2>4. Good(F, V2, capacity, 1)
    <3>1. capacity \in 1..Len(F) + 1 - 1 - 2 /\ F[1] + capacity <= capacity
      BY <1>4, <2>2
    <3> QED BY <1>2, <2>3, <3>1 DEF Good
  <2>5. ~Good(F, V2, capacity, capacity + 3)
    <3>1. Count(F, V2, capacity + 3) = 0
      BY <1>2, <2>2 DEF Count
    <3> QED BY <3>1 DEF Good
  <2>6. \A k \in 0..capacity - 1 : 1 + 2 + k = 3 + k /\ m[k + 1] \in Value
    OBVIOUS
  <2>7. Laid(F, V2, capacity, S)
    <3>1. Leads(S, F, V2, capacity)
      BY <2>3, <2>5 DEF Leads
    <3>2. \A p \in S : Good(F, V2, capacity, p) => p = 1
      BY <2>5
    <3>3. F[1] \in Nat
      BY <2>2
    <3>4. \A k \in 0..Count(F, V2, 1) - 1 : F[1 + Header(V2) + k] \in Value
      BY <1>2, <2>2, <2>3, <2>6
    <3> QED BY <3>1, <3>2, <3>3, <3>4 DEF Laid
  <2>8. Whole(F, V2, capacity, S)
    BY <2>2, <2>4 DEF Whole
  <2> QED BY <2>2, <2>7, <2>8 DEF F
<1> QED BY <1>3, <1>4

\* The images of V2Chunks, chunk by chunk.
NextRecord(G, m, i) ==
    IF i = 0 THEN <<>>
    ELSE G[i - 1] \o IF m[i] = Zero THEN <<>> ELSE <<i - 1, 1, m[i]>>

Upto(G, m, n) == G = [i \in 0..n |-> NextRecord(G, m, i)]

LEMMA NextCases ==
    ASSUME NEW G, NEW m, NEW i, i # 0
    PROVE  /\ m[i] = Zero => NextRecord(G, m, i) = G[i - 1] \o <<>>
           /\ m[i] # Zero => NextRecord(G, m, i) = G[i - 1] \o <<i - 1, 1, m[i]>>
<1>1. CASE m[i] = Zero
  BY <1>1 DEF NextRecord
<1>2. CASE m[i] # Zero
  BY <1>2 DEF NextRecord
<1> QED BY <1>1, <1>2

LEMMA UptoExists ==
    ASSUME NEW m
    PROVE  \A n \in Nat : \E G : Upto(G, m, n)
<1> DEFINE S == {n \in Nat : \E G : Upto(G, m, n)}
<1>1. 0 \in S
  <2> DEFINE G == [i \in 0..0 |-> <<>>]
  <2>1. Upto(G, m, 0)
    BY DEF Upto, NextRecord
  <2> QED BY <2>1
<1>2. ASSUME NEW n \in Nat, n \in S PROVE n + 1 \in S
  <2>1. PICK F : Upto(F, m, n)
    BY <1>2
  <2>2. \A i \in 0..n : F[i] = NextRecord(F, m, i)
    BY <2>1, Zenon DEF Upto
  <2> DEFINE G == [i \in 0..n + 1 |-> NextRecord(F, m, i)]
  <2>3. \A i \in 0..n : G[i] = F[i]
    BY <2>2
  <2>4. \A i \in 0..n + 1 : G[i] = NextRecord(G, m, i)
    <3> TAKE i \in 0..n + 1
    <3>1. CASE i = 0
      BY <3>1 DEF NextRecord
    <3>2. CASE i # 0
      <4>1. i - 1 \in 0..n
        BY <3>2
      <4>2. G[i - 1] = F[i - 1] /\ G[i] = NextRecord(F, m, i)
        BY <2>3, <4>1
      <4> HIDE DEF G
      <4> QED BY <3>2, <4>2 DEF NextRecord
    <3> QED BY <3>1, <3>2
  <2>5. G = [i \in 0..n + 1 |-> G[i]]
    OBVIOUS
  <2>6. Upto(G, m, n + 1)
    <3> HIDE DEF G
    <3> QED BY <2>4, <2>5 DEF Upto
  <2> QED BY <2>6
<1>3. Nat \subseteq S
  <2> HIDE DEF S
  <2> QED BY <1>1, <1>2, SetInduction
<1> QED BY <1>3

\* One more record of a chunk.
LEMMA SinglesGrow ==
    ASSUME NEW F, NEW n \in Nat, Singles(F, n), NEW v \in Value
    PROVE  Singles(F, n + 1) /\ Singles(F \o <<n, 1, v>>, n + 1)
<1>1. F \in Seq(Value \cup Nat) /\ <<n, 1, v>> \in Seq(Value \cup Nat) /\ Len(<<n, 1, v>>) = 3
      /\ Len(F) \in Nat /\ Len(F) % 3 = 0
  BY LenProperties DEF Singles
<1>2. Singles(F, n + 1)
  BY <1>1 DEF Singles
<1> DEFINE H == F \o <<n, 1, v>>
<1>3. H \in Seq(Value \cup Nat) /\ Len(H) = Len(F) + 3
      /\ \A i \in 1..Len(F) + 3 : H[i] = IF i <= Len(F) THEN F[i] ELSE <<n, 1, v>>[i - Len(F)]
  BY <1>1, ConcatProperties
<1>4. (Len(F) + 3) % 3 = 0
  BY <1>1
<1> HIDE DEF H
<1>5. ASSUME NEW j \in Third, j <= Len(H)
      PROVE  H[j] \in 0..n + 1 - 1 /\ H[j + 1] = 1 /\ H[j + 2] \in Value
  <2>1. PICK l \in Nat : l = Len(F)
    BY <1>1
  <2>2. j \in Nat /\ j % 3 = 1 /\ l % 3 = 0 /\ j <= l + 3
    BY <1>1, <1>3, <1>5, <2>1 DEF Third
  <2>3. j + 2 <= l \/ j = l + 1
    BY <2>2
  <2>4. CASE j + 2 <= l
    <3>1. H[j] = F[j] /\ H[j + 1] = F[j + 1] /\ H[j + 2] = F[j + 2] /\ j <= Len(F)
      <4>1. j \in 1..l + 3 /\ j + 1 \in 1..l + 3 /\ j + 2 \in 1..l + 3 /\ j <= l /\ j + 1 <= l
        BY <2>2, <2>4
      <4> QED BY <1>3, <2>1, <2>4, <4>1
    <3> QED BY <3>1 DEF Singles
  <2>5. CASE j = l + 1
    <3>1. j \in 1..l + 3 /\ j + 1 \in 1..l + 3 /\ j + 2 \in 1..l + 3
          /\ ~(j <= l) /\ ~(j + 1 <= l) /\ ~(j + 2 <= l)
          /\ j - l = 1 /\ j + 1 - l = 2 /\ j + 2 - l = 3
      BY <2>5
    <3>2. H[j] = <<n, 1, v>>[1] /\ H[j + 1] = <<n, 1, v>>[2] /\ H[j + 2] = <<n, 1, v>>[3]
      BY <1>3, <2>1, <3>1
    <3> QED BY <3>2
  <2> QED BY <2>3, <2>4, <2>5
<1>6. Singles(H, n + 1)
  BY <1>3, <1>4, <1>5 DEF Singles
<1> QED BY <1>2, <1>6 DEF H

LEMMA V2ChunksSingles ==
    ASSUME NEW n \in Nat, NEW m \in [1..n -> Value]
    PROVE  Singles(V2Chunks(m), n)
<1> DEFINE G == CHOOSE F : Upto(F, m, n)
<1>1. Len(m) = n
  OBVIOUS
<1>2. V2Chunks(m) = G[n]
  BY <1>1, Zenon DEF V2Chunks, Upto, NextRecord
<1>3. Upto(G, m, n)
  BY UptoExists
<1> HIDE DEF G
<1>4. \A i \in 0..n : G[i] = NextRecord(G, m, i)
  BY <1>3, Zenon DEF Upto
<1> DEFINE S == {d \in Nat : d <= n => Singles(G[d], d)}
<1>5. 0 \in S
  <2>1. G[0] = <<>>
    <3>1. 0 \in 0..n
      OBVIOUS
    <3> QED BY <1>4, <3>1 DEF NextRecord
  <2>2. Singles(<<>>, 0)
    BY DEF Singles, Third
  <2> QED BY <2>1, <2>2
<1>6. ASSUME NEW d \in Nat, d \in S PROVE d + 1 \in S
  <2> SUFFICES ASSUME d + 1 <= n PROVE Singles(G[d + 1], d + 1)
    OBVIOUS
  <2>1. Singles(G[d], d) /\ d + 1 \in 1..n
    BY <1>6
  <2>2. m[d + 1] \in Value
    BY <2>1
  <2>3. /\ m[d + 1] = Zero => G[d + 1] = G[d] \o <<>>
        /\ m[d + 1] # Zero => G[d + 1] = G[d] \o <<d, 1, m[d + 1]>>
    <3>1. PICK i \in 0..n : i = d + 1
      BY <2>1
    <3>2. i # 0 /\ i - 1 = d
      BY <3>1
    <3>3. G[i] = NextRecord(G, m, i)
      BY <1>4
    <3>4. /\ m[i] = Zero => G[i] = G[i - 1] \o <<>>
          /\ m[i] # Zero => G[i] = G[i - 1] \o <<i - 1, 1, m[i]>>
      BY <3>2, <3>3, NextCases, Zenon
    <3> QED BY <3>1, <3>2, <3>4, Zenon
  <2>4. CASE m[d + 1] = Zero
    <3>1. G[d] \in Seq(Value \cup Nat)
      BY <2>1 DEF Singles
    <3>2. G[d + 1] = G[d]
      BY <2>3, <2>4, <3>1, ConcatEmptySeq
    <3> QED BY <2>1, <2>2, <3>2, SinglesGrow
  <2>5. CASE m[d + 1] # Zero
    <3>1. G[d + 1] = G[d] \o <<d, 1, m[d + 1]>>
      BY <2>3, <2>5
    <3> QED BY <2>1, <2>2, <3>1, SinglesGrow
  <2> QED BY <2>4, <2>5
<1>7. Nat \subseteq S
  <2> HIDE DEF S
  <2> QED BY <1>5, <1>6, SetInduction
<1> QED BY <1>2, <1>7

-----------------------------------------------------------------------------
(* Pages and chunks *)

\* Below a bound that is a number of pages, a remainder is one too.
LEMMA PagesRemain ==
    ASSUME NEW p \in 0..MaxPages
    PROVE  \E q \in 0..p : Capacity(p) % SizeLimit = Capacity(q)
<1> DEFINE S == {d \in Nat : \E q \in 0..d : (d * ChunksPerPage) % SizeLimit = q * ChunksPerPage}
           C == ChunksPerPage
<1>1. C \in Nat \ {0} /\ SizeLimit \in Nat \ {0} /\ SizeLimit % C = 0 /\ p \in Nat
  BY ImageAssumption
<1>2. PICK k \in Nat : SizeLimit = k * C /\ k # 0
  <2>1. SizeLimit = C * (SizeLimit \div C) + (SizeLimit % C) /\ SizeLimit \div C \in Nat
    BY <1>1, Z3
  <2>2. SizeLimit = (SizeLimit \div C) * C
    BY <1>1, <2>1, Z3
  <2>3. SizeLimit \div C # 0
    BY <1>1, <2>2, Z3
  <2> QED BY <2>1, <2>2, <2>3
<1> HIDE DEF C
<1>3. p = k * (p \div k) + (p % k) /\ p % k \in 0..k - 1 /\ p \div k \in Nat /\ p % k \in 0..p
  BY <1>1, <1>2, Z3
<1>4. PICK d \in Nat, q \in 0..p : p = k * d + q /\ q < k
  <2>1. p % k < k
    BY <1>2, <1>3
  <2> QED BY <1>3, <2>1, Zenon
<1>5. p * C = SizeLimit * d + q * C
  BY <1>1, <1>2, <1>4, Z3
<1>6. q * C \in Nat /\ q * C < SizeLimit
  <2>1. q \in Nat /\ q + 1 <= k /\ C \in Nat
    BY <1>1, <1>2, <1>4
  <2>2. q * C \in Nat /\ (q + 1) * C <= k * C
    BY <1>2, <2>1, Z3
  <2>3. (q + 1) * C = q * C + C
    BY <2>1, Z3
  <2> QED BY <1>1, <1>2, <2>2, <2>3
<1>7. (SizeLimit * d + q * C) % SizeLimit = q * C
  <2>1. \A r \in Nat : r < SizeLimit => (SizeLimit * d + r) % SizeLimit = r
    BY <1>1, Z3
  <2> QED BY <1>6, <2>1
<1> QED BY <1>4, <1>5, <1>7 DEF Capacity, C

LEMMA PagesOf ==
    ASSUME NEW p \in 0..MaxPages
    PROVE  Capacity(p) \div ChunksPerPage = p
<1>1. p \in Nat /\ ChunksPerPage \in Nat \ {0}
  BY ImageAssumption
<1> QED BY <1>1, Z3 DEF Capacity

LEMMA MemoriesSized ==
    /\ \A m \in Memories : \E p \in 0..MaxPages : m \in [1..Capacity(p) -> Value]
    /\ \A p \in 0..MaxPages : [1..Capacity(p) -> Value] \subseteq Memories
  BY DEF Memories, Capacity

\* No file of V1 records is as long as a dense image of that many pages.
LEMMA MarkerTooLarge == V1 * ChunksPerPage \in Nat /\ 2 * Capacity(MaxPages) < V1 * ChunksPerPage
<1>1. V1 \in Nat /\ V1 >= 2 * MaxPages + 1 /\ ChunksPerPage \in Nat \ {0} /\ MaxPages \in Nat
  BY MarkerAssumption, ImageAssumption
<1>2. (2 * MaxPages + 1) * ChunksPerPage <= V1 * ChunksPerPage
  BY <1>1, Z3
<1>3. (2 * MaxPages + 1) * ChunksPerPage = 2 * (MaxPages * ChunksPerPage) + ChunksPerPage
  BY <1>1, Z3
<1> QED BY <1>1, <1>2, <1>3, Z3 DEF Capacity

-----------------------------------------------------------------------------
(* Beginnings of sequences *)

LEMMA PrefixProperties ==
    ASSUME NEW T, NEW s \in Seq(T), NEW r \in Prefix(s)
    PROVE  r \in Seq(T) /\ Len(r) \in 0..Len(s) /\ \A i \in 1..Len(r) : r[i] = s[i]
<1>1. PICK n \in 0..Len(s) : r = SubSeq(s, 1, n)
  BY DEF Prefix
<1>2. Len(s) \in Nat
  BY LenProperties
<1> QED BY <1>1, <1>2, SubSeqProperties

LEMMA PrefixOfTwo ==
    ASSUME NEW a, NEW b
    PROVE  Prefix(<<a, b>>) = {<<>>, <<a>>, <<a, b>>}
<1>1. SubSeq(<<a, b>>, 1, 0) = <<>> /\ SubSeq(<<a, b>>, 1, 1) = <<a>> /\ SubSeq(<<a, b>>, 1, 2) = <<a, b>>
  <2> DEFINE s == <<a, b>>
             T == {a, b}
  <2>1. s \in Seq(T) /\ Len(s) = 2 /\ s[1] = a /\ s[2] = b
    OBVIOUS
  <2> HIDE DEF s, T
  <2>2. \A n \in 0..2 : /\ SubSeq(s, 1, n) \in Seq(T) /\ Len(SubSeq(s, 1, n)) = n
                        /\ \A i \in 1..n : SubSeq(s, 1, n)[i] = s[i]
    BY <2>1, SubSeqProperties
  <2>3. \A q \in Seq(T) : /\ Len(q) = 0 => q = <<>>
                          /\ Len(q) = 1 /\ q[1] = a => q = <<a>>
                          /\ Len(q) = 2 /\ q[1] = a /\ q[2] = b => q = <<a, b>>
    OBVIOUS
  <2>4. SubSeq(s, 1, 0) = <<>> /\ SubSeq(s, 1, 1) = <<a>> /\ SubSeq(s, 1, 2) = <<a, b>>
    <3>1. SubSeq(s, 1, 0) \in Seq(T) /\ Len(SubSeq(s, 1, 0)) = 0
      BY <2>2
    <3>2. /\ SubSeq(s, 1, 1) \in Seq(T) /\ Len(SubSeq(s, 1, 1)) = 1
          /\ SubSeq(s, 1, 1)[1] = a
      BY <2>1, <2>2
    <3>3. /\ SubSeq(s, 1, 2) \in Seq(T) /\ Len(SubSeq(s, 1, 2)) = 2
          /\ SubSeq(s, 1, 2)[1] = a /\ SubSeq(s, 1, 2)[2] = b
      BY <2>1, <2>2
    <3>4. PICK q0, q1, q2 :
             q0 = SubSeq(s, 1, 0) /\ q1 = SubSeq(s, 1, 1) /\ q2 = SubSeq(s, 1, 2)
      OBVIOUS
    <3>5. /\ q0 \in Seq(T) /\ Len(q0) = 0
          /\ q1 \in Seq(T) /\ Len(q1) = 1 /\ q1[1] = a
          /\ q2 \in Seq(T) /\ Len(q2) = 2 /\ q2[1] = a /\ q2[2] = b
      BY <3>1, <3>2, <3>3, <3>4, Zenon
    <3>6. q0 = <<>> /\ q1 = <<a>> /\ q2 = <<a, b>>
      BY <2>3, <3>5
    <3> QED BY <3>4, <3>6, Zenon
  <2> QED BY <2>4 DEF s
<1>2. Len(<<a, b>>) = 2 /\ 0..2 = {0, 1, 2}
  OBVIOUS
<1> QED BY <1>1, <1>2 DEF Prefix

\* A file, and the beginning of what is in the buffer.
LEMMA WrittenPrefix ==
    ASSUME NEW T, NEW file \in Seq(T), NEW words \in Seq(T), NEW part \in Prefix(words)
    PROVE  /\ file \o part \in Seq(T)
           /\ Len(file \o part) \in 0..Len(file \o words)
           /\ \A i \in 1..Len(file \o part) : (file \o part)[i] = (file \o words)[i]
<1>1. part \in Seq(T) /\ Len(part) \in 0..Len(words) /\ \A i \in 1..Len(part) : part[i] = words[i]
  BY PrefixProperties
<1>2. Len(file) \in Nat /\ Len(words) \in Nat
  BY LenProperties
<1> QED BY <1>1, <1>2, ConcatProperties

-----------------------------------------------------------------------------
(* The records that wasmig_checkpoint_memory writes *)

\* The records of the chunks of m below n, each of them whole.
Dumped(F, m, n) == Records(F, m, n) /\ Complete(F, m, n) /\ Len(F) \notin Odd

LEMMA DumpedNothing ==
    ASSUME NEW m
    PROVE  Dumped(<<>>, m, 0)
<1>1. <<>> \in Seq(Value \cup Nat) /\ Len(<<>>) = 0
  OBVIOUS
<1>2. \A j \in Odd : j \in Nat /\ j >= 1 /\ 0 \notin Odd
  BY OddSteps
<1> QED BY <1>1, <1>2 DEF Dumped, Records, Complete

LEMMA DumpedZero ==
    ASSUME NEW n \in Nat, NEW m, NEW F, Dumped(F, m, n), m[n + 1] = Zero
    PROVE  Dumped(F, m, n + 1)
<1>1. Len(F) \in Nat
  BY LenProperties DEF Dumped, Records
<1>2. Records(F, m, n + 1)
  <2>1. \A j \in Odd : j <= Len(F) => F[j] \in 0..n + 1 - 1
    BY DEF Dumped, Records
  <2> QED BY <1>1, <2>1 DEF Dumped, Records
<1>3. Complete(F, m, n + 1)
  <2>1. \A j \in Odd : j < Len(F) => F[j] < n + 1
    <3>1. \A j \in Odd : j < Len(F) => F[j] \in 0..n - 1
      BY <1>1, OddSteps DEF Dumped, Records
    <3> QED BY <3>1
  <2>2. ASSUME NEW k \in 0..n + 1 - 1, m[k + 1] # Zero
        PROVE  \E j \in Odd : j < Len(F) /\ F[j] = k
    <3>1. k \in 0..n - 1
      BY <2>2
    <3> QED BY <2>2, <3>1 DEF Dumped, Complete
  <2> QED BY <2>1, <2>2 DEF Complete
<1> QED BY <1>2, <1>3 DEF Dumped

LEMMA DumpedRecord ==
    ASSUME NEW n \in Nat, NEW m, NEW F, Dumped(F, m, n),
           m[n + 1] \in Value, m[n + 1] # Zero
    PROVE  Dumped(F \o <<n, m[n + 1]>>, m, n + 1)
<1> DEFINE R == <<n, m[n + 1]>>
           H == F \o R
<1>1. PICK l \in Nat : Len(F) = l /\ l \notin Odd /\ l <= 2 * n
  BY LenProperties DEF Dumped, Records
<1>2. F \in Seq(Value \cup Nat)
  BY DEF Dumped, Records
<1>3. R \in Seq(Value \cup Nat) /\ Len(R) = 2 /\ R[1] = n /\ R[2] = m[n + 1]
  OBVIOUS
<1> HIDE DEF R
<1>4. H \in Seq(Value \cup Nat) /\ Len(H) = l + 2
      /\ \A i \in 1..l + 2 : H[i] = IF i <= l THEN F[i] ELSE R[i - l]
  <2>1. Len(F) = l /\ l \in Nat
    BY <1>1
  <2>2. H \in Seq(Value \cup Nat) /\ Len(H) = Len(F) + Len(R)
        /\ \A i \in 1..Len(F) + Len(R) : H[i] = IF i <= Len(F) THEN F[i] ELSE R[i - Len(F)]
    BY <1>2, <1>3, ConcatProperties
  <2> HIDE DEF H
  <2> QED BY <1>3, <2>1, <2>2
<1> HIDE DEF H
<1>5. /\ \A i \in 1..l : H[i] = F[i]
      /\ H[l + 1] = n /\ H[l + 2] = m[n + 1]
  <2>1. l + 1 \in 1..l + 2 /\ l + 2 \in 1..l + 2 /\ ~(l + 1 <= l) /\ ~(l + 2 <= l)
        /\ l + 1 - l = 1 /\ l + 2 - l = 2 /\ 1..l \subseteq 1..l + 2
    OBVIOUS
  <2> QED BY <1>3, <1>4, <2>1
<1>6. /\ l + 1 \in Odd /\ l + 2 \notin Odd
      /\ \A j \in Odd : j \in 1..l + 2 => j \in 1..l - 1 \/ j = l + 1
  BY <1>1 DEF Odd
<1>7. \A j \in Odd : j \in 1..l - 1 =>
         /\ j <= Len(F) /\ j < Len(F) /\ j + 1 \in 1..l /\ j \in 1..l
         /\ F[j] \in 0..n - 1 /\ F[j + 1] = m[F[j] + 1] /\ F[j + 1] # Zero
  BY <1>1 DEF Dumped, Records
<1>8. \A j \in Odd : j \in Nat /\ j >= 1
  BY OddSteps
<1>9. Records(H, m, n + 1)
  <2>1. \A j \in Odd : j <= Len(H) => H[j] \in 0..n + 1 - 1
    <3> SUFFICES ASSUME NEW j \in Odd, j <= Len(H) PROVE H[j] \in 0..n
      OBVIOUS
    <3>1. j \in 1..l - 1 \/ j = l + 1
      BY <1>4, <1>6, <1>8
    <3> QED BY <1>5, <1>7, <3>1
  <2>2. \A j \in Odd : j < Len(H) => H[j + 1] = m[H[j] + 1] /\ H[j + 1] # Zero
    <3> SUFFICES ASSUME NEW j \in Odd, j < Len(H)
                 PROVE  H[j + 1] = m[H[j] + 1] /\ H[j + 1] # Zero
      OBVIOUS
    <3>1. j \in 1..l - 1 \/ j = l + 1
      BY <1>4, <1>6, <1>8
    <3>2. CASE j \in 1..l - 1
      BY <1>5, <1>7, <3>2
    <3>3. CASE j = l + 1
      BY <1>1, <1>5, <3>3
    <3> QED BY <3>1, <3>2, <3>3
  <2>3. \A i, j \in Odd : i < j /\ j <= Len(H) => H[i] < H[j]
    <3> SUFFICES ASSUME NEW i \in Odd, NEW j \in Odd, i < j, j <= Len(H)
                 PROVE  H[i] < H[j]
      OBVIOUS
    <3>1. i \in 1..l - 1 /\ i < Len(F)
      BY <1>1, <1>4, <1>6, <1>8
    <3>2. H[i] = F[i] /\ F[i] \in 0..n - 1
      BY <1>5, <1>7, <3>1
    <3>3. j \in 1..l - 1 \/ j = l + 1
      BY <1>4, <1>6, <1>8
    <3>4. CASE j \in 1..l - 1
      <4>1. H[j] = F[j] /\ j <= Len(F)
        BY <1>1, <1>5, <1>7, <3>4
      <4> QED BY <3>2, <4>1 DEF Dumped, Records
    <3>5. CASE j = l + 1
      BY <1>5, <3>2, <3>5
    <3> QED BY <3>3, <3>4, <3>5
  <2> QED BY <1>1, <1>4, <2>1, <2>2, <2>3 DEF Records
<1>10. Complete(H, m, n + 1)
  <2>1. ASSUME NEW k \in 0..n + 1 - 1, m[k + 1] # Zero
        PROVE  \E j \in Odd : j < Len(H) /\ H[j] = k
    <3>1. CASE k = n
      BY <1>4, <1>5, <1>6, <3>1
    <3>2. CASE k # n
      <4>1. PICK j \in Odd : j < Len(F) /\ F[j] = k
        BY <2>1, <3>2 DEF Dumped, Complete
      <4>2. j \in 1..l /\ j < Len(H)
        BY <1>1, <1>4, <1>8, <4>1
      <4> QED BY <1>5, <4>1, <4>2
    <3> QED BY <3>1, <3>2
  <2>2. \A j \in Odd : j < Len(H) => H[j] < n + 1
    <3>1. \A j \in Odd : j < Len(H) => H[j] \in 0..n + 1 - 1
      BY <1>4, <1>8, <1>9 DEF Records
    <3> QED BY <3>1
  <2> QED BY <2>1, <2>2 DEF Complete
<1> QED BY <1>4, <1>6, <1>9, <1>10 DEF Dumped, H, R

\* What is left of the records when their end is lost: the memory up to some
\* chunk, or a file that ends inside a record.
Cut(W, m) ==
    /\ Records(W, m, Len(m))
    /\ Len(W) \in Odd \/ \E k \in 0..Len(m) : Complete(W, m, k)

LEMMA DumpedCut ==
    ASSUME NEW m, Len(m) \in Nat, NEW F, Dumped(F, m, Len(m)),
           NEW W \in Seq(Value \cup Nat), Len(W) \in 0..Len(F),
           \A i \in 1..Len(W) : W[i] = F[i]
    PROVE  Cut(W, m)
<1>1. PICK l \in Nat : l = Len(W) /\ l <= Len(F)
  BY LenProperties DEF Dumped, Records
<1>2. Len(F) \in Nat /\ Len(F) <= 2 * Len(m)
  BY LenProperties DEF Dumped, Records
<1>3. \A j \in Odd : j \in Nat /\ j >= 1
  BY OddSteps
<1>4. \A j \in Odd : j <= l => W[j] = F[j] /\ F[j] \in 0..Len(m) - 1
  BY <1>1, <1>2, <1>3 DEF Dumped, Records
<1>5. \A j \in Odd : j < l => W[j + 1] = F[j + 1] /\ F[j + 1] = m[F[j] + 1] /\ F[j + 1] # Zero
  BY <1>1, <1>2, <1>3 DEF Dumped, Records
<1>6. \A i, j \in Odd : i < j /\ j <= Len(F) => F[i] < F[j]
  BY DEF Dumped, Records
<1>7. Records(W, m, Len(m))
  <2>1. \A i, j \in Odd : i < j /\ j <= l => W[i] < W[j]
    BY <1>1, <1>2, <1>3, <1>4, <1>6
  <2>2. \A j \in Odd : j <= l => W[j] \in 0..Len(m) - 1
    BY <1>4
  <2>3. \A j \in Odd : j < l => W[j + 1] = m[W[j] + 1] /\ W[j + 1] # Zero
    BY <1>3, <1>1, <1>4, <1>5
  <2>4. l <= 2 * Len(m)
    BY <1>1, <1>2
  <2> QED BY <1>1, <2>1, <2>2, <2>3, <2>4 DEF Records
<1>8. ASSUME l \notin Odd PROVE \E k \in 0..Len(m) : Complete(W, m, k)
  <2>1. CASE l = 0
    <3>1. Complete(W, m, 0)
      BY <1>1, <1>3, <2>1 DEF Complete
    <3> QED BY <3>1
  <2>2. CASE l # 0
    <3> DEFINE e == l - 1
               k == F[e] + 1
    <3>1. e \in Odd /\ e < l /\ \A j \in Odd : j < l => j <= e
      BY <1>8, <2>2 DEF Odd
    <3>2. k \in 0..Len(m) /\ F[e] \in Nat /\ W[e] = F[e]
      BY <1>1, <1>2, <1>4, <3>1
    <3>3. \A j \in Odd : j < l => W[j] < k
      <4> TAKE j \in Odd
      <4> HAVE j < l
      <4>1. W[j] = F[j] /\ F[j] \in Nat /\ j <= e
        BY <1>1, <1>2, <1>3, <1>4, <3>1
      <4>2. j = e \/ F[j] < F[e]
        BY <1>1, <1>2, <1>3, <1>6, <3>1, <4>1
      <4> QED BY <3>2, <4>1, <4>2
    <3>4. ASSUME NEW c \in 0..k - 1, m[c + 1] # Zero
          PROVE  \E j \in Odd : j < l /\ W[j] = c
      <4>1. c \in 0..Len(m) - 1
        BY <1>1, <1>2, <1>4, <3>1, <3>2
      <4>2. PICK j \in Odd : j < Len(F) /\ F[j] = c
        BY <3>4, <4>1 DEF Dumped, Complete
      <4>3. j <= e
        <5> SUFFICES ASSUME e < j PROVE FALSE
          BY <1>1, <1>3, <3>1
        <5>1. F[e] < F[j]
          <6> HIDE DEF e
          <6>1. j <= Len(F)
            BY <1>2, <1>3, <4>2
          <6> QED BY <1>6, <3>1, <6>1
        <5> QED BY <3>2, <3>4, <4>2, <5>1
      <4>4. j < l /\ W[j] = F[j]
        BY <1>1, <1>3, <1>4, <3>1, <4>3
      <4> QED BY <4>2, <4>4
    <3>5. Complete(W, m, k)
      BY <1>1, <3>3, <3>4 DEF Complete
    <3> QED BY <3>2, <3>5
  <2> QED BY <2>1, <2>2
<1> QED BY <1>1, <1>7, <1>8 DEF Cut

-----------------------------------------------------------------------------
(* Images that are sound, whichever writer left them and whatever of them  *)
(* was lost                                                                *)

FileWord == Value \cup 0..MaxPages * ChunksPerPage

InRecords(file, f, p, cut) ==
    \E S : /\ Laid(file, f, Capacity(p), S)
           /\ cut \/ Whole(file, f, Capacity(p), S)

Sound(file, meta, cut) ==
    \/ meta \in {None, <<>>}
    \/ meta = <<V1>> /\ file # None /\ Len(file) <= 2 * Capacity(MaxPages)
    \/ \E p \in 0..MaxPages :
          meta = <<p>> /\ (file = <<>> \/ file \in [1..Capacity(p) -> Value])
    \/ \E p \in 0..MaxPages, f \in {V1, V2} :
          meta = <<f, p>> /\ file # None /\ InRecords(file, f, p, cut)

FileTyped(file) == file = None \/ file \in Seq(FileWord)

LEMMA FileWords ==
    ASSUME NEW file \in Seq(FileWord)
    PROVE  file \in Seq(Value \cup Nat) /\ file # None /\ Len(file) \in Nat
<1>1. FileWord \subseteq Value \cup Nat
  BY ImageAssumption DEF FileWord
<1>2. file \in Seq(Value \cup Nat)
  BY <1>1
<1> QED BY <1>2, NoneAssumption, LenProperties

\* The image says how many pages, and its chunks lie in them.
Readable(file, meta, p) ==
    /\ p \in 0..MaxPages /\ \E f \in Nat : Info(meta) = [format |-> f, pages |-> p]
    /\ VisitedChunks(file, Info(meta)) \in Chunks(Capacity(p))

LEMMA SoundVisited ==
    ASSUME NEW file, NEW meta, NEW cut, Sound(file, meta, cut), FileTyped(file)
    PROVE  VisitedChunks(file, Info(meta)) = None \/ \E p : Readable(file, meta, p)
<1>1. CASE meta \in {None, <<>>}
  <2>1. Info(meta) = None
    <3>1. 0 \in 0..MaxPages
      BY ImageAssumption
    <3> QED BY <1>1, <3>1, InfoCases
  <2> QED BY <2>1 DEF VisitedChunks
<1>2. CASE meta = <<V1>> /\ file # None /\ Len(file) <= 2 * Capacity(MaxPages)
  <2>1. Len(file) \in Nat
    BY <1>2, FileWords DEF FileTyped
  <2>2. Info(meta) = [format |-> 0, pages |-> V1]
    <3>1. 0 \in 0..MaxPages
      BY ImageAssumption
    <3> QED BY <1>2, <3>1, InfoCases
  <2>3. Len(file) # V1 * ChunksPerPage
    <3>1. Capacity(MaxPages) \in Nat
      BY ImageAssumption, CapacityNat
    <3> QED BY <1>2, <2>1, <3>1, MarkerTooLarge
  <2>4. Info(meta) # None
    <3>1. Info(meta) \in [format : Nat, pages : Nat]
      BY <2>2, MarkerAssumption
    <3> QED BY <3>1, NoneAssumption
  <2>5. VisitedChunks(file, Info(meta)) = DenseChunks(file, V1 * ChunksPerPage)
    BY <1>2, <2>2, <2>4 DEF VisitedChunks
  <2> QED BY <2>3, <2>5 DEF DenseChunks
<1>3. ASSUME NEW p \in 0..MaxPages, NEW f \in Nat, Info(meta) = [format |-> f, pages |-> p],
             VisitedChunks(file, Info(meta)) \in Chunks(Capacity(p)) \cup {None}
      PROVE  VisitedChunks(file, Info(meta)) = None \/ \E q : Readable(file, meta, q)
  BY <1>3 DEF Readable
<1>4. ASSUME NEW p \in 0..MaxPages, meta = <<p>>, file = <<>> \/ file \in [1..Capacity(p) -> Value]
      PROVE  VisitedChunks(file, Info(meta)) = None \/ \E q : Readable(file, meta, q)
  <2>1. Capacity(p) \in Nat
    BY CapacityNat
  <2>2. PICK n \in Nat : file \in [1..n -> Value]
    <3>1. CASE file = <<>>
      <4>1. file \in [1..0 -> Value]
        BY <3>1
      <4> QED BY <4>1
    <3>2. CASE file \in [1..Capacity(p) -> Value]
      BY <2>1, <3>2
    <3> QED BY <1>4, <3>1, <3>2
  <2>3. Info(meta) = [format |-> 0, pages |-> p]
    BY <1>4, InfoCases
  <2>4. Info(meta) # None
    <3>1. Info(meta) \in [format : Nat, pages : Nat]
      BY <2>3, ImageAssumption
    <3> QED BY <3>1, NoneAssumption
  <2>5. VisitedChunks(file, Info(meta)) = None \/ VisitedChunks(file, Info(meta)) = DenseChunks(file, Capacity(p))
    BY <2>3, <2>4 DEF VisitedChunks, Capacity
  <2>6. DenseChunks(file, Capacity(p)) = None \/ DenseChunks(file, Capacity(p)) \in Chunks(Capacity(p))
    <3>1. CASE n = Capacity(p)
      <4>1. DenseChunks(file, Capacity(p)) \in [0..n - 1 -> Value] \cup {None}
        BY <2>2 , <3>1 DEF DenseChunks
      <4> QED BY <3>1, <4>1 DEF Chunks
    <3>2. CASE n # Capacity(p)
      BY <2>2, <3>2 DEF DenseChunks
    <3> QED BY <3>1, <3>2
  <2> QED BY <1>3, <2>3, <2>5, <2>6
<1>5. ASSUME NEW p \in 0..MaxPages, NEW f \in {V1, V2}, meta = <<f, p>>, file # None,
             InRecords(file, f, p, cut)
      PROVE  VisitedChunks(file, Info(meta)) = None \/ \E q : Readable(file, meta, q)
  <2>1. f \in Nat /\ f # 0 /\ Capacity(p) \in Nat /\ Len(file) \in Nat
    BY <1>5, MarkerAssumption, ImageAssumption, CapacityNat, FileWords DEF FileTyped
  <2>2. Info(meta) = [format |-> f, pages |-> p]
    BY <1>5, InfoCases
  <2>3. Info(meta) # None
    <3>1. Info(meta) \in [format : Nat, pages : Nat]
      BY <2>1, <2>2, ImageAssumption
    <3> QED BY <3>1, NoneAssumption
  <2>4. VisitedChunks(file, Info(meta)) = SparseChunks(file, f, Capacity(p))
    BY <1>5, <2>1, <2>2, <2>3 DEF VisitedChunks, Capacity
  <2>5. SparseChunks(file, f, Capacity(p)) \in Chunks(Capacity(p)) \cup {None}
    BY <1>5, <2>1, SparseType DEF InRecords
  <2> QED BY <1>3, <2>1, <2>2, <2>4, <2>5
<1> QED BY <1>1, <1>2, <1>4, <1>5 DEF Sound

\* What a restore returns is a memory of the pages that the image says.
LEMMA SoundContents ==
    ASSUME NEW file, NEW meta, NEW cut, Sound(file, meta, cut), FileTyped(file)
    PROVE  \/ Contents(file, meta) = None /\ VisitedChunks(file, Info(meta)) = None
           \/ \E p \in 0..MaxPages :
                 /\ Readable(file, meta, p)
                 /\ Info(meta).pages = p /\ Info(meta) # None
                 /\ Contents(file, meta) = Filled(VisitedChunks(file, Info(meta)), Capacity(p))
                 /\ Contents(file, meta) \in [1..Capacity(p) -> Value]
                 /\ Contents(file, meta) # None
<1>1. CASE VisitedChunks(file, Info(meta)) = None
  BY <1>1 DEF Contents
<1>2. ASSUME NEW p, Readable(file, meta, p)
      PROVE  /\ p \in 0..MaxPages
             /\ Info(meta).pages = p /\ Info(meta) # None
             /\ Contents(file, meta) = Filled(VisitedChunks(file, Info(meta)), Capacity(p))
             /\ Contents(file, meta) \in [1..Capacity(p) -> Value]
             /\ Contents(file, meta) # None
  <2>1. PICK f \in Nat : Info(meta) = [format |-> f, pages |-> p]
    BY <1>2 DEF Readable
  <2>2. p \in 0..MaxPages /\ VisitedChunks(file, Info(meta)) \in Chunks(Capacity(p))
    BY <1>2 DEF Readable
  <2>3. VisitedChunks(file, Info(meta)) # None
    BY <2>2, ChunksNotNone
  <2> QED BY <2>1, <2>2, <2>3, ContentsOf
<1> QED BY <1>1, <1>2, SoundVisited

LEMMA SoundMemory ==
    ASSUME NEW file, NEW meta, NEW cut, Sound(file, meta, cut), FileTyped(file)
    PROVE  Contents(file, meta) \in Memories \cup {None}
  BY SoundContents, MemoriesSized

\* A restore into a buffer that is large enough brings the same memory.
LEMMA SoundInto ==
    ASSUME NEW file, NEW meta, NEW cut, Sound(file, meta, cut), FileTyped(file), NEW n \in Nat,
           RestoredInto(Zeros(n), file, meta) # None
    PROVE  /\ Contents(file, meta) # None
           /\ SubSeq(RestoredInto(Zeros(n), file, meta), 1, Info(meta).pages * ChunksPerPage)
                 = Contents(file, meta)
<1> DEFINE chunks == VisitedChunks(file, Info(meta))
           dst == RestoredInto(Zeros(n), file, meta)
<1>1. chunks # None /\ ~(Len(Zeros(n)) < Info(meta).pages * ChunksPerPage)
      /\ dst = [i \in DOMAIN Zeros(n) |-> IF i - 1 \in DOMAIN chunks THEN chunks[i - 1] ELSE Zeros(n)[i]]
  BY Zenon DEF RestoredInto
<1>2. PICK p \in 0..MaxPages :
         /\ Info(meta).pages = p
         /\ Contents(file, meta) = Filled(chunks, Capacity(p)) /\ Contents(file, meta) # None
  BY <1>1, SoundContents
<1>3. DOMAIN Zeros(n) = 1..n /\ Len(Zeros(n)) = n /\ \A i \in 1..n : Zeros(n)[i] = Zero
  BY DEF Zeros
<1>4. Info(meta).pages * ChunksPerPage = Capacity(p) /\ Capacity(p) \in Nat
  BY <1>2, CapacityNat DEF Capacity
<1>5. Capacity(p) <= n
  BY <1>1, <1>3, <1>4
<1> HIDE DEF chunks, dst
<1>6. dst = [i \in 1..n |-> IF i - 1 \in DOMAIN chunks THEN chunks[i - 1] ELSE Zero]
  BY <1>1, <1>3
<1>7. SubSeq(dst, 1, Capacity(p)) = [i \in 1..Capacity(p) |-> dst[i]]
  BY <1>4
<1>8. SubSeq(dst, 1, Capacity(p)) = Filled(chunks, Capacity(p))
  BY <1>4, <1>5, <1>6, <1>7 DEF Filled
<1> QED BY <1>2, <1>4, <1>8 DEF chunks, dst

-----------------------------------------------------------------------------
(* The invariant                                                           *)

Dumps ==
    /\ memory # None /\ sizeImg = <<>> /\ ~lost
    /\ memImg \in Seq(FileWord) /\ buffer \in Seq(FileWord)
    /\ Dumped(memImg \o buffer, memory, offset)

\* What wasmig_checkpoint_memory has done, at each point of it.
Phase ==
    \/ step = "idle" /\ buffer = <<>> /\ offset = 0
    \/ /\ step = "opened" /\ memory # None /\ buffer = <<>> /\ offset = 0
       /\ opened => memImg = <<>> /\ ~lost
    \/ step = "dump" /\ Dumps /\ offset \in 0..Len(memory)
    \/ step = "close" /\ Dumps /\ offset = Len(memory)
    \/ /\ step = "closeSize" /\ memory # None /\ sizeImg = <<>> /\ offset = Len(memory)
       /\ memImg \in Seq(FileWord) /\ Cut(memImg, memory)
       /\ ~lost => Dumped(memImg, memory, Len(memory))

Typed ==
    /\ memory \in Memories \cup {None}
    /\ FileTyped(memImg)
    /\ sizeImg = None \/ sizeImg \in Seq({V1, V2} \cup (0..MaxPages))
    /\ opened \in BOOLEAN /\ lost \in BOOLEAN
    /\ result \in {None, 0, -1}

MInv == Typed /\ Phase /\ Sound(memImg, sizeImg, lost)

LEMMA MemoryFacts ==
    ASSUME NEW m \in Memories
    PROVE  /\ m # None /\ m \in Seq(Value) /\ Len(m) \in Nat
           /\ \E p \in 0..MaxPages :
                 /\ m \in [1..Capacity(p) -> Value] /\ Len(m) = Capacity(p)
                 /\ Len(m) \div ChunksPerPage = p
                 /\ Len(m) <= Capacity(MaxPages) /\ Capacity(MaxPages) \in Nat
<1>1. PICK p \in 0..MaxPages : m \in [1..Capacity(p) -> Value]
  BY MemoriesSized
<1>2. Capacity(p) \in 0..Capacity(MaxPages) /\ Capacity(p) \in Nat /\ Capacity(MaxPages) \in Nat
  BY CapacityNat, ImageAssumption
<1>3. 1..Capacity(p) \in SUBSET (0..Capacity(MaxPages))
  BY <1>2
<1>4. m # None
  BY <1>1, <1>3, NoneAssumption DEF Capacity
<1>5. m \in Seq(Value) /\ Len(m) = Capacity(p)
  BY <1>1, <1>2
<1> QED BY <1>1, <1>2, <1>4, <1>5, PagesOf

LEMMA MType == MInv => TypeOK
<1> SUFFICES ASSUME MInv PROVE TypeOK
  OBVIOUS
<1>1. memImg = None \/ \A i \in DOMAIN memImg :
         memImg[i] \in Value \cup (0..MaxPages * ChunksPerPage)
  <2>1. memImg = None \/ memImg \in Seq(Value \cup (0..MaxPages * ChunksPerPage))
    BY DEF MInv, Typed, FileTyped, FileWord
  <2> QED BY <2>1, ElementOfSeq
<1>2. ASSUME memory # None PROVE Len(memory) \in Nat
  BY <1>2, MemoryFacts DEF MInv, Typed
<1>3. IF step = "idle" THEN buffer = <<>> /\ offset = 0
                       ELSE memory # None /\ offset \in 0..Len(memory)
  <2>1. CASE step = "idle"
    BY <2>1 DEF MInv, Phase
  <2>2. CASE step # "idle"
    <3>1. memory # None
      BY <2>2 DEF MInv, Phase, Dumps
    <3> QED BY <1>2, <2>2, <3>1 DEF MInv, Phase, Dumps
  <2> QED BY <2>1, <2>2
<1>4. step \in {"idle", "opened", "dump", "close", "closeSize"}
  BY DEF MInv, Phase
<1> QED BY <1>1, <1>3, <1>4 DEF MInv, Typed, TypeOK

\* Every image that other writers leave is sound.
LEMMA OtherImagesSound ==
    ASSUME NEW m \in Memories, NEW image \in OtherImages(m)
    PROVE  /\ FileTyped(image.file) /\ image.meta \in Seq({V1, V2} \cup (0..MaxPages))
           /\ Sound(image.file, image.meta, FALSE)
<1>1. PICK p \in 0..MaxPages :
         /\ m \in [1..Capacity(p) -> Value] /\ Len(m) = Capacity(p)
         /\ Len(m) \div ChunksPerPage = p
         /\ Len(m) <= Capacity(MaxPages) /\ Capacity(MaxPages) \in Nat
  BY MemoryFacts
<1>2. Capacity(p) \in Nat /\ m \in Seq(Value) /\ m # None
  BY CapacityNat, MemoryFacts
<1>3. Capacity(MaxPages) = MaxPages * ChunksPerPage
  BY DEF Capacity
<1>4. 0..Capacity(p) \subseteq FileWord /\ Value \subseteq FileWord
  BY <1>1, <1>2, <1>3 DEF FileWord
<1>5. image \in {[file |-> m, meta |-> <<p>>],
                 [file |-> V2Chunks(m), meta |-> <<V2, p>>],
                 [file |-> Extent(m), meta |-> <<V2, p>>]}
  BY <1>1 DEF OtherImages
<1>6. CASE image = [file |-> m, meta |-> <<p>>]
  <2>1. image.file = m /\ image.meta = <<p>>
    BY <1>6
  <2>2. m \in Seq(FileWord)
    BY <1>2, <1>4
  <2>3. image.meta \in Seq({V1, V2} \cup (0..MaxPages))
    BY <2>1
  <2> QED BY <1>1, <2>1, <2>2, <2>3 DEF FileTyped, Sound
<1>7. CASE image = [file |-> V2Chunks(m), meta |-> <<V2, p>>]
  <2>1. image.file = V2Chunks(m) /\ image.meta = <<V2, p>>
    BY <1>7
  <2>2. Singles(V2Chunks(m), Capacity(p))
    BY <1>1, <1>2, V2ChunksSingles
  <2>3. V2Chunks(m) \in Seq(FileWord)
    <3> DEFINE F == V2Chunks(m)
    <3>1. F \in Seq(Value \cup Nat)
      BY <2>2 DEF Singles
    <3> HIDE DEF F
    <3>2. PICK l \in Nat : Len(F) = l /\ l % 3 = 0
      BY <2>2, <3>1, LenProperties DEF Singles, F
    <3>3. ASSUME NEW i \in 1..l PROVE F[i] \in FileWord
      <4>1. \A j \in Third : j <= l => F[j] \in 0..Capacity(p) - 1 /\ F[j + 1] = 1 /\ F[j + 2] \in Value
        BY <2>2, <3>2 DEF Singles, F
      <4>2. i \in Third \/ (i - 1 \in Third /\ i - 1 <= l) \/ (i - 2 \in Third /\ i - 2 <= l)
        BY DEF Third
      <4>3. CASE i \in Third
        <5>1. F[i] \in 0..Capacity(p)
          BY <1>2, <4>1, <4>3
        <5> QED BY <1>4, <5>1
      <4>4. CASE i - 1 \in Third /\ i - 1 <= l
        <5>1. F[i - 1] \in 0..Capacity(p) - 1 /\ F[i - 1 + 1] = 1 /\ i - 1 + 1 = i
          BY <4>1, <4>4
        <5>2. 1 \in 0..Capacity(p) /\ F[i] = 1
          BY <1>2, <5>1
        <5> QED BY <1>4, <5>2
      <4>5. CASE i - 2 \in Third /\ i - 2 <= l
        <5>1. F[i - 2 + 2] \in Value /\ i - 2 + 2 = i
          BY <4>1, <4>5
        <5> QED BY <1>4, <5>1
      <4> QED BY <4>2, <4>3, <4>4, <4>5
    <3>4. F \in [1..l -> FileWord]
      BY <3>1, <3>2, <3>3
    <3> QED BY <3>4 DEF F
  <2>4. InRecords(V2Chunks(m), V2, p, FALSE)
    BY <1>2, <2>2, SinglesLaid DEF InRecords
  <2>5. image.meta \in Seq({V1, V2} \cup (0..MaxPages))
    BY <2>1
  <2>6. V2Chunks(m) # None
    BY <2>3, FileWords
  <2> QED BY <2>1, <2>3, <2>4, <2>5, <2>6 DEF FileTyped, Sound
<1>8. CASE image = [file |-> Extent(m), meta |-> <<V2, p>>]
  <2>1. image.file = Extent(m) /\ image.meta = <<V2, p>>
    BY <1>8
  <2>2. \E S : Laid(Extent(m), V2, Capacity(p), S) /\ Whole(Extent(m), V2, Capacity(p), S)
    BY <1>1, <1>2, ExtentLaid
  <2>3. Extent(m) \in Seq(FileWord)
    <3>1. CASE m = <<>>
      BY <3>1 DEF Extent
    <3>2. CASE m # <<>>
      <4>1. Extent(m) = <<0, Capacity(p)>> \o m
        BY <1>1, <3>2 DEF Extent
      <4>2. <<0, Capacity(p)>> \in Seq(FileWord) /\ m \in Seq(FileWord)
        <5>1. 0 \in FileWord /\ Capacity(p) \in FileWord
          BY <1>2, <1>4
        <5> QED BY <1>2, <1>4, <5>1
      <4> QED BY <4>1, <4>2, ConcatProperties
    <3> QED BY <3>1, <3>2
  <2>4. InRecords(Extent(m), V2, p, FALSE)
    BY <2>2 DEF InRecords
  <2>5. image.meta \in Seq({V1, V2} \cup (0..MaxPages))
    BY <2>1
  <2>6. Extent(m) # None
    BY <2>3, FileWords
  <2> QED BY <2>1, <2>3, <2>4, <2>5, <2>6 DEF FileTyped, Sound
<1> QED BY <1>5, <1>6, <1>7, <1>8

LEMMA MInit == Init => MInv
<1> SUFFICES ASSUME Init PROVE MInv
  OBVIOUS
<1>1. /\ FileTyped(memImg) /\ (sizeImg = None \/ sizeImg \in Seq({V1, V2} \cup (0..MaxPages)))
      /\ Sound(memImg, sizeImg, FALSE)
  <2>1. CASE memImg = None /\ sizeImg = None
    BY <2>1 DEF FileTyped, Sound
  <2>2. CASE \E m \in Memories : \E image \in OtherImages(m) :
                memImg = image.file /\ sizeImg = image.meta
    BY <2>2, OtherImagesSound
  <2> QED BY <2>1, <2>2 DEF Init
<1> QED BY <1>1 DEF Init, MInv, Typed, Phase

-----------------------------------------------------------------------------
(* Steps of the process *)

\* Between checkpoints only the memory matters.
LEMMA IdleStep ==
    ASSUME MInv, UNCHANGED <<files, running, lost>>, memory' \in Memories \cup {None},
           step = "idle", result' \in {None, 0, -1}
    PROVE  MInv'
<1> USE DEF files, running
<1>1. Typed'
  BY DEF MInv, Typed
<1>2. Phase'
  BY DEF MInv, Phase
<1>3. Sound(memImg, sizeImg, lost)'
  BY DEF MInv
<1> QED BY <1>1, <1>2, <1>3 DEF MInv

LEMMA ZerosMemory ==
    /\ \A p \in 0..MaxPages : Zeros(p * ChunksPerPage) \in Memories
    /\ Zeros(ChunksPerPage) \in Seq(Value) /\ Len(Zeros(ChunksPerPage)) = ChunksPerPage
<1>1. ASSUME NEW p \in 0..MaxPages PROVE Zeros(p * ChunksPerPage) \in Memories
  <2>1. Zeros(Capacity(p)) \in [1..Capacity(p) -> Value]
    BY ImageAssumption DEF Zeros
  <2> QED BY <2>1, MemoriesSized DEF Capacity
<1>2. Zeros(ChunksPerPage) \in Seq(Value) /\ Len(Zeros(ChunksPerPage)) = ChunksPerPage
  BY ImageAssumption DEF Zeros
<1> QED BY <1>1, <1>2

\* The memory that wasmig_restore_memory returns is a memory, however much
\* of it a uint32_t can count.
LEMMA RestoredType ==
    ASSUME NEW file, NEW meta, Contents(file, meta) \in Memories \cup {None}
    PROVE  RestoredMemory(file, meta) \in Memories \cup {None}
<1> DEFINE c == Contents(file, meta)
<1>1. CASE c = None
  BY <1>1 DEF RestoredMemory
<1>2. CASE c # None
  <2>1. RestoredMemory(file, meta) = SubSeq(c, 1, Len(c) % SizeLimit)
    BY <1>2 DEF RestoredMemory
  <2>2. PICK p \in 0..MaxPages : c \in [1..Capacity(p) -> Value] /\ Len(c) = Capacity(p)
    BY <1>2, MemoryFacts
  <2>3. PICK q \in 0..p : Capacity(p) % SizeLimit = Capacity(q)
    BY PagesRemain
  <2>4. q \in 0..MaxPages
    BY ImageAssumption
  <2> HIDE DEF c
  <2>5. Capacity(q) \in Nat /\ Capacity(p) \in Nat /\ Capacity(q) <= Capacity(p)
    <3>1. Capacity(p) \in Nat /\ Capacity(q) \in Nat
      BY <2>4, CapacityNat
    <3>2. SizeLimit \in Nat \ {0}
      BY ImageAssumption
    <3>3. \A a, b \in Nat : b # 0 => a % b <= a
      BY Z3
    <3> QED BY <2>3, <3>1, <3>2, <3>3
  <2>6. SubSeq(c, 1, Capacity(q)) = [i \in 1..Capacity(q) |-> c[i]]
    BY <2>5
  <2>7. SubSeq(c, 1, Capacity(q)) \in [1..Capacity(q) -> Value]
    <3>1. \A i \in 1..Capacity(q) : i \in 1..Capacity(p)
      BY <2>5
    <3>2. \A i \in 1..Capacity(q) : c[i] \in Value
      BY <2>2, <3>1
    <3> QED BY <2>6, <3>2
  <2> QED BY <2>1, <2>2, <2>3, <2>4, <2>7, MemoriesSized
<1> QED BY <1>1, <1>2

LEMMA NoProcess == MInv /\ memory = None => step = "idle"
  BY DEF MInv, Phase, Dumps

LEMMA ProcessStep ==
    ASSUME MInv,
           \/ \E n \in 0..MaxPages : Boot(n)
           \/ Restore
           \/ \E n \in 0..MaxPages * ChunksPerPage : RestoreInto(n)
           \/ \E i \in 1..MaxPages * ChunksPerPage, v \in Value : Store(i, v)
           \/ Grow \/ Die
    PROVE  MInv'
<1>c. Contents(memImg, sizeImg) \in Memories \cup {None}
  BY SoundMemory DEF MInv, Typed
<1>1. ASSUME NEW n \in 0..MaxPages, Boot(n) PROVE MInv'
  BY <1>1, NoProcess, ZerosMemory, IdleStep DEF Boot
<1>2. CASE Restore
  <2>1. memory' \in Memories \cup {None}
    BY <1>2, <1>c, RestoredType DEF Restore
  <2>2. result' \in {None, 0, -1}
    BY <1>2 DEF Restore
  <2> QED BY <1>2, <2>1, <2>2, NoProcess, IdleStep DEF Restore
<1>3. ASSUME NEW n \in 0..MaxPages * ChunksPerPage, RestoreInto(n) PROVE MInv'
  <2>1. n \in Nat
    BY ImageAssumption
  <2>2. memory' \in Memories \cup {None} /\ result' \in {None, 0, -1}
    <3>1. CASE RestoredInto(Zeros(n), memImg, sizeImg) = None
      BY <1>3, <3>1 DEF RestoreInto
    <3>2. CASE RestoredInto(Zeros(n), memImg, sizeImg) # None
      <4>1. SubSeq(RestoredInto(Zeros(n), memImg, sizeImg), 1, Info(sizeImg).pages * ChunksPerPage)
              = Contents(memImg, sizeImg)
        BY <2>1, <3>2, SoundInto DEF MInv, Typed
      <4> QED BY <1>3, <1>c, <3>2, <4>1 DEF RestoreInto
    <3> QED BY <3>1, <3>2
  <2> QED BY <1>3, <2>2, NoProcess, IdleStep DEF RestoreInto
<1>4. ASSUME NEW i, NEW v \in Value, Store(i, v) PROVE MInv'
  <2>1. PICK p \in 0..MaxPages : memory \in [1..Capacity(p) -> Value]
    BY <1>4, MemoriesSized DEF Store, MInv, Typed
  <2>2. memory' \in [1..Capacity(p) -> Value]
    BY <1>4, <2>1 DEF Store
  <2>3. memory' \in Memories
    BY <2>2, MemoriesSized
  <2> QED BY <1>4, <2>3, IdleStep DEF Store
<1>5. CASE Grow
  <2>1. memory \in Memories
    BY <1>5 DEF Grow, MInv, Typed
  <2>2. PICK p \in 0..MaxPages :
           /\ memory \in [1..Capacity(p) -> Value] /\ Len(memory) = Capacity(p)
           /\ Len(memory) \div ChunksPerPage = p
    BY <2>1, MemoryFacts
  <2>3. p + 1 \in 0..MaxPages /\ Capacity(p + 1) = Capacity(p) + ChunksPerPage
    <3>1. p < MaxPages
      BY <1>5, <2>2 DEF Grow, Pages
    <3>2. p \in Nat /\ MaxPages \in Nat /\ ChunksPerPage \in Nat
      BY ImageAssumption
    <3>3. (p + 1) * ChunksPerPage = p * ChunksPerPage + ChunksPerPage
      BY <3>2, Z3
    <3> QED BY <3>1, <3>2, <3>3 DEF Capacity
  <2>4. memory \in Seq(Value)
    BY <2>1, MemoryFacts
  <2>5. memory' \in Seq(Value) /\ Len(memory') = Capacity(p) + ChunksPerPage
    BY <1>5, <2>2, <2>4, ZerosMemory, ConcatProperties DEF Grow
  <2>6. memory' \in [1..Capacity(p + 1) -> Value]
    BY <2>3, <2>5
  <2>7. memory' \in Memories
    BY <2>3, <2>6, MemoriesSized
  <2> QED BY <1>5, <2>7, IdleStep DEF Grow
<1>6. CASE Die
  <2> USE <1>6 DEF Die, files
  <2>1. Typed'
    BY DEF MInv, Typed
  <2>2. Phase'
    BY DEF Phase
  <2>3. Sound(memImg, sizeImg, lost)'
    BY DEF MInv
  <2> QED BY <2>1, <2>2, <2>3 DEF MInv
<1> QED BY <1>1, <1>2, <1>3, <1>4, <1>5, <1>6

-----------------------------------------------------------------------------
(* Steps of wasmig_checkpoint_memory                                       *)

\* What is flushed moves from the buffer to the file.
LEMMA FlushKeeps ==
    ASSUME NEW T, NEW file \in Seq(T), NEW words \in Seq(T), NEW n \in 1..Len(words)
    PROVE  /\ file \o SubSeq(words, 1, n) \in Seq(T)
           /\ SubSeq(words, n + 1, Len(words)) \in Seq(T)
           /\ (file \o SubSeq(words, 1, n)) \o SubSeq(words, n + 1, Len(words)) = file \o words
<1> DEFINE a == SubSeq(words, 1, n)
           b == SubSeq(words, n + 1, Len(words))
<1>1. PICK l \in Nat, k \in Nat : l = Len(words) /\ k = Len(file)
  BY LenProperties
<1>2. a \in Seq(T) /\ Len(a) = n /\ \A i \in 1..n : a[i] = words[i]
  BY <1>1, SubSeqProperties
<1>3. b \in Seq(T) /\ Len(b) = l - n /\ \A i \in 1..l - n : b[i] = words[n + i]
  <2>1. b \in Seq(T)
    BY <1>1, SubSeqProperties
  <2>2. b = [i \in 1..(1 + l - (n + 1)) |-> words[i + (n + 1) - 1]]
    BY <1>1
  <2>3. 1 + l - (n + 1) = l - n /\ \A i \in 1..l - n : i + (n + 1) - 1 = n + i
    BY <1>1
  <2> HIDE DEF b
  <2>4. b = [i \in 1..l - n |-> words[i + (n + 1) - 1]]
    BY <2>2, <2>3
  <2>5. \A i \in 1..l - n : b[i] = words[n + i]
    BY <2>3, <2>4
  <2>6. Len(b) = l - n
    BY <1>1, <2>4
  <2> QED BY <2>1, <2>5, <2>6
<1> HIDE DEF a, b
<1> DEFINE fa == file \o a
           fw == file \o words
           fab == fa \o b
<1>4. fa \in Seq(T) /\ Len(fa) = k + n
      /\ \A i \in 1..k + n : fa[i] = IF i <= k THEN file[i] ELSE a[i - k]
  BY <1>1, <1>2, ConcatProperties
<1>5. fw \in Seq(T) /\ Len(fw) = k + l
      /\ \A i \in 1..k + l : fw[i] = IF i <= k THEN file[i] ELSE words[i - k]
  BY <1>1, ConcatProperties
<1> HIDE DEF fa, fw
<1>6. fab \in Seq(T) /\ Len(fab) = k + n + (l - n)
      /\ \A i \in 1..k + n + (l - n) : fab[i] = IF i <= k + n THEN fa[i] ELSE b[i - (k + n)]
  <2>1. Len(fa) = k + n /\ Len(b) = l - n
    BY <1>3, <1>4
  <2>2. fab \in Seq(T) /\ Len(fab) = Len(fa) + Len(b)
        /\ \A i \in 1..Len(fa) + Len(b) : fab[i] = IF i <= Len(fa) THEN fa[i] ELSE b[i - Len(fa)]
    BY <1>3, <1>4, ConcatProperties
  <2> HIDE DEF fab
  <2> QED BY <2>1, <2>2
<1> HIDE DEF fab
<1>7. k + n + (l - n) = k + l
  BY <1>1
<1>8. ASSUME NEW i \in 1..k + l PROVE fab[i] = fw[i]
  <2>0. /\ fab[i] = IF i <= k + n THEN fa[i] ELSE b[i - (k + n)]
        /\ fw[i] = IF i <= k THEN file[i] ELSE words[i - k]
        /\ i <= k + n => fa[i] = IF i <= k THEN file[i] ELSE a[i - k]
    <3>1. i \in 1..k + n + (l - n) /\ (i <= k + n => i \in 1..k + n)
      BY <1>1, <1>7
    <3> QED BY <1>4, <1>5, <1>6, <3>1, Zenon
  <2>1. CASE i <= k
    <3>1. i <= k + n
      BY <1>1, <2>1
    <3> QED BY <2>0, <2>1, <3>1
  <2>2. CASE ~(i <= k) /\ i <= k + n
    <3>1. i - k \in 1..n
      BY <1>1, <2>2
    <3> QED BY <1>2, <2>0, <2>2, <3>1
  <2>3. CASE ~(i <= k + n)
    <3>1. i - (k + n) \in 1..l - n /\ n + (i - (k + n)) = i - k /\ ~(i <= k)
      BY <1>1, <2>3
    <3> QED BY <1>3, <2>0, <2>3, <3>1
  <2> QED BY <2>1, <2>2, <2>3
<1>9. fab = fw
  BY <1>5, <1>6, <1>7, <1>8, SeqEqual
<1> QED BY <1>3, <1>4, <1>9 DEF a, b, fa, fw, fab

\* A truncated memory.img goes with every page count.
LEMMA EmptySound ==
    ASSUME NEW file, NEW meta, NEW cut, Sound(file, meta, cut)
    PROVE  Sound(<<>>, meta, FALSE)
<1>1. <<>> # None /\ Len(<<>>) = 0
  <2>1. <<>> \in Seq(Value \cup Nat)
    OBVIOUS
  <2> QED BY <2>1, NoneAssumption
<1>2. ASSUME NEW p \in 0..MaxPages, NEW f \in {V1, V2} PROVE InRecords(<<>>, f, p, FALSE)
  <2>1. ~Good(<<>>, f, Capacity(p), 1)
    <3>1. Header(f) \in 1..2
      BY DEF Header
    <3>2. 1..Len(<<>>) + 1 - 1 - Header(f) = {}
      BY <1>1, <3>1
    <3> QED BY <3>2 DEF Good
  <2>2. Laid(<<>>, f, Capacity(p), {1}) /\ Whole(<<>>, f, Capacity(p), {1})
    BY <1>1, <2>1 DEF Laid, Leads, Whole
  <2> QED BY <2>2 DEF InRecords
<1>3. Capacity(MaxPages) \in Nat
  BY CapacityNat, ImageAssumption
<1>4. CASE meta \in {None, <<>>} \/ meta = <<V1>>
  <2>1. Len(<<>>) <= 2 * Capacity(MaxPages)
    BY <1>1, <1>3
  <2> QED BY <1>1, <1>4, <2>1, Zenon DEF Sound
<1>5. CASE \E p \in 0..MaxPages : meta = <<p>>
  BY <1>5 DEF Sound
<1>6. CASE \E p \in 0..MaxPages, f \in {V1, V2} : meta = <<f, p>>
  <2>1. PICK p \in 0..MaxPages, f \in {V1, V2} : meta = <<f, p>>
    BY <1>6
  <2>2. InRecords(<<>>, f, p, FALSE)
    BY <1>2
  <2> QED BY <1>1, <2>1, <2>2, Zenon DEF Sound
<1> QED BY <1>4, <1>5, <1>6 DEF Sound

LEMMA OpenStep ==
    ASSUME MInv, OpenMemory \/ OpenSize
    PROVE  MInv'
<1>e. <<>> \in Seq(FileWord) /\ <<>> \in Seq({V1, V2} \cup (0..MaxPages))
  OBVIOUS
<1>1. CASE OpenMemory
  <2> USE <1>1 DEF OpenMemory
  <2>0. buffer = <<>> /\ offset = 0
    BY DEF MInv, Phase
  <2>1. CASE opened' = TRUE /\ memImg' = <<>>
    <3>1. Sound(<<>>, sizeImg, FALSE)
      BY EmptySound DEF MInv
    <3>2. lost' = FALSE
      BY <2>1
    <3>3. Typed'
      BY <1>e, <2>1, <3>2 DEF MInv, Typed, FileTyped
    <3>4. Phase'
      BY <2>0, <2>1, <3>2 DEF Phase
    <3> QED BY <2>1, <3>1, <3>2, <3>3, <3>4 DEF MInv
  <2>2. CASE opened' = FALSE /\ UNCHANGED memImg
    <3>1. lost' = lost
      BY <2>2 DEF MInv, Typed
    <3>2. Typed'
      BY <2>2, <3>1 DEF MInv, Typed, FileTyped
    <3>3. Phase'
      BY <2>0, <2>2 DEF Phase
    <3> QED BY <2>2, <3>1, <3>2, <3>3 DEF MInv
  <2> QED BY <2>1, <2>2
<1>2. CASE OpenSize
  <2> USE <1>2 DEF OpenSize
  <2>0. buffer = <<>> /\ offset = 0 /\ memory # None /\ (opened => memImg = <<>> /\ ~lost)
    BY DEF MInv, Phase
  <2>1. Sound(memImg, sizeImg, lost)'
    BY DEF MInv, Sound
  <2>2. CASE Return(-1)
    <3>1. Typed'
      BY <1>e, <2>2 DEF MInv, Typed, FileTyped, Return
    <3>2. Phase'
      BY <2>2 DEF Phase, Return
    <3> QED BY <2>1, <3>1, <3>2 DEF MInv
  <2>3. CASE /\ opened /\ sizeImg' = <<>> /\ step' = "dump"
             /\ UNCHANGED <<opened, offset, buffer, result>>
    <3>1. Typed'
      BY <1>e, <2>3 DEF MInv, Typed, FileTyped
    <3>2. Dumped(memImg \o buffer, memory, offset)
      <4>1. memImg \o buffer = <<>>
        BY <2>0, <2>3
      <4> QED BY <2>0, <4>1, DumpedNothing
    <3>3. offset' \in 0..Len(memory)
      <4>1. Len(memory) \in Nat
        BY <2>0, MemoryFacts DEF MInv, Typed
      <4> QED BY <2>0, <2>3, <4>1
    <3>4. Phase'
      BY <1>e, <2>0, <2>3, <3>2, <3>3 DEF Phase, Dumps
    <3> QED BY <2>1, <3>1, <3>4 DEF MInv
  <2> QED BY <2>2, <2>3 DEF MInv, Typed
<1> QED BY <1>1, <1>2

\* While chunks are dumped every file is sound: the page count is empty.
LEMMA DumpingSound ==
    ASSUME sizeImg' = <<>>
    PROVE  Sound(memImg, sizeImg, lost)'
  BY DEF Sound

LEMMA DumpingFacts ==
    ASSUME MInv, step \in {"dump", "close"}
    PROVE  /\ Dumps /\ memory \in Memories /\ memory # None /\ Len(memory) \in Nat
           /\ offset \in 0..Len(memory) /\ Len(memory) <= Capacity(MaxPages)
           /\ \A i \in 1..Len(memory) : memory[i] \in Value
<1>1. Dumps /\ memory \in Memories /\ memory # None
  BY DEF MInv, Phase, Dumps, Typed
<1>2. memory \in Seq(Value) /\ Len(memory) \in Nat /\ Len(memory) <= Capacity(MaxPages)
  BY <1>1, MemoryFacts
<1>3. offset \in 0..Len(memory)
  BY <1>2 DEF MInv, Phase
<1>4. \A i \in 1..Len(memory) : memory[i] \in Value
  BY <1>2, ElementOfSeq
<1> QED BY <1>1, <1>2, <1>3, <1>4

LEMMA DumpStep ==
    ASSUME MInv, Dump \/ Flush \/ WriteSize
    PROVE  MInv'
<1>0. step = "dump"
  BY DEF Dump, Dumping, Flush, WriteSize
<1>f. /\ Dumps /\ memory \in Memories /\ memory # None /\ Len(memory) \in Nat
      /\ offset \in 0..Len(memory) /\ Len(memory) <= Capacity(MaxPages)
      /\ \A i \in 1..Len(memory) : memory[i] \in Value
  BY <1>0, DumpingFacts
<1>s. Sound(memImg, sizeImg, lost)'
  <2>1. sizeImg' = <<>>
    BY <1>f DEF Dumps, Dump, Flush, WriteSize, files
  <2> QED BY <2>1, DumpingSound
<1>1. CASE Dump
  <2>1. offset < Len(memory) /\ offset + 1 \in 1..Len(memory) /\ offset \in Nat
    BY <1>1, <1>f DEF Dump, Dumping
  <2>2. Chunk \in Value /\ offset \in FileWord /\ Chunk \in FileWord
    <3>1. offset <= MaxPages * ChunksPerPage
      BY <1>f, <2>1, CapacityNat, ImageAssumption DEF Capacity
    <3>2. MaxPages * ChunksPerPage \in Nat
      BY CapacityNat, ImageAssumption DEF Capacity
    <3> QED BY <1>f, <2>1, <3>1, <3>2 DEF Chunk, FileWord
  <2>3. Dumped(memImg \o buffer', memory, offset + 1) /\ buffer' \in Seq(FileWord)
    <3>1. memImg \in Seq(FileWord) /\ buffer \in Seq(FileWord)
          /\ Dumped(memImg \o buffer, memory, offset)
      BY <1>f DEF Dumps
    <3>2. CASE Chunk = Zero
      <4>1. buffer' = buffer
        BY <1>1, <3>2 DEF Dump
      <4> QED BY <2>1, <3>1, <3>2, <4>1, DumpedZero DEF Chunk
    <3>3. CASE Chunk # Zero
      <4>1. buffer' = buffer \o Record
        BY <1>1, <3>3 DEF Dump
      <4>2. Record \in Seq(FileWord)
        BY <2>2 DEF Record
      <4>3. memImg \o buffer' = (memImg \o buffer) \o Record
        BY <3>1, <4>1, <4>2, ConcatAssociative
      <4>4. Dumped((memImg \o buffer) \o Record, memory, offset + 1)
        BY <2>1, <2>2, <3>1, <3>3, DumpedRecord DEF Record, Chunk
      <4>5. buffer' \in Seq(FileWord)
        BY <3>1, <4>1, <4>2, ConcatProperties
      <4> QED BY <4>3, <4>4, <4>5
    <3> QED BY <3>2, <3>3
  <2>4. Typed'
    BY <1>1 DEF MInv, Typed, Dump, files
  <2>5. Phase'
    <3>1. Dumps'
      BY <1>1, <1>f, <2>3 DEF Dump, Dumps, files
    <3>2. step' = "dump" /\ offset' \in 0..Len(memory')
      BY <1>0, <1>1, <1>f, <2>1 DEF Dump
    <3> QED BY <3>1, <3>2 DEF Phase
  <2> QED BY <1>s, <2>4, <2>5 DEF MInv
<1>2. CASE Flush
  <2>1. PICK n \in 1..Len(buffer) :
           /\ memImg' = memImg \o SubSeq(buffer, 1, n)
           /\ buffer' = SubSeq(buffer, n + 1, Len(buffer))
    BY <1>2 DEF Flush
  <2>2. memImg \in Seq(FileWord) /\ buffer \in Seq(FileWord)
    BY <1>f DEF Dumps
  <2>3. memImg' \in Seq(FileWord) /\ buffer' \in Seq(FileWord) /\ memImg' \o buffer' = memImg \o buffer
    BY <2>1, <2>2, FlushKeeps
  <2>4. Typed'
    BY <1>2, <2>3 DEF MInv, Typed, Flush, FileTyped
  <2>5. Dumps'
    <3>1. Dumped(memImg' \o buffer', memory', offset')
      BY <1>2, <1>f, <2>3 DEF Flush, Dumps
    <3> QED BY <1>2, <1>f, <2>3, <3>1 DEF Flush, Dumps
  <2>6. Phase'
    BY <1>0, <1>2, <1>f, <2>5 DEF Phase, Flush
  <2> QED BY <1>s, <2>4, <2>6 DEF MInv
<1>3. CASE WriteSize
  <2>1. Typed'
    BY <1>3 DEF MInv, Typed, WriteSize, files
  <2>2. Dumps'
    BY <1>3, <1>f DEF WriteSize, files, Dumps
  <2>3. Phase'
    BY <1>3, <2>2 DEF Phase, WriteSize
  <2> QED BY <1>s, <2>1, <2>3 DEF MInv
<1> QED BY <1>1, <1>2, <1>3

LEMMA FailStep ==
    ASSUME MInv, DumpFails \/ WriteSizeFails
    PROVE  MInv'
<1>0. step = "dump"
  BY DEF DumpFails, Dumping, WriteSizeFails
<1>f. /\ Dumps /\ memory \in Memories /\ memory # None /\ Len(memory) \in Nat
      /\ offset \in 0..Len(memory) /\ Len(memory) <= Capacity(MaxPages)
      /\ \A i \in 1..Len(memory) : memory[i] \in Value
  BY <1>0, DumpingFacts
<1>b. memImg \in Seq(FileWord) /\ buffer \in Seq(FileWord) /\ sizeImg = <<>>
      /\ Dumped(memImg \o buffer, memory, offset)
  BY <1>f DEF Dumps
<1>p. Phase'
  BY DEF DumpFails, WriteSizeFails, Return, Phase
<1>1. CASE DumpFails
  <2>1. Record \in Seq(FileWord)
    <3>1. offset < Len(memory) /\ offset \in Nat /\ MaxPages * ChunksPerPage \in Nat
          /\ offset <= MaxPages * ChunksPerPage
      BY <1>1, <1>f, CapacityNat, ImageAssumption DEF DumpFails, Dumping, Capacity
    <3>2. offset \in FileWord /\ Chunk \in FileWord
      BY <1>f, <3>1 DEF Chunk, FileWord
    <3> QED BY <3>2 DEF Record
  <2>2. buffer \o Record \in Seq(FileWord)
    BY <1>b, <2>1, ConcatProperties
  <2>3. PICK part \in Prefix(buffer \o Record) : memImg' = memImg \o part
    BY <1>1 DEF DumpFails
  <2>4. memImg' \in Seq(FileWord)
    BY <1>b, <2>2, <2>3, WrittenPrefix
  <2>5. Typed'
    BY <1>1, <2>4 DEF MInv, Typed, DumpFails, Return, FileTyped
  <2>6. Sound(memImg, sizeImg, lost)'
    BY <1>1, <1>b, DumpingSound DEF DumpFails
  <2> QED BY <1>p, <2>5, <2>6 DEF MInv
<1>2. CASE WriteSizeFails
  <2>1. PICK part \in Prefix(buffer) : memImg' = memImg \o part
    BY <1>2 DEF WriteSizeFails
  <2>2. memImg' \in Seq(FileWord) /\ Len(memImg') \in 0..Len(memImg \o buffer)
    BY <1>b, <2>1, WrittenPrefix
  <2>3. sizeImg' \in {<<>>, <<V1>>} /\ <<>> \in Seq({V1, V2} \cup (0..MaxPages))
        /\ <<V1>> \in Seq({V1, V2} \cup (0..MaxPages))
    BY <1>2 DEF WriteSizeFails
  <2>4. Typed'
    BY <1>2, <2>2, <2>3 DEF MInv, Typed, WriteSizeFails, Return, FileTyped
  <2>5. Len(memImg') <= 2 * Capacity(MaxPages)
    <3>1. Len(memImg \o buffer) <= 2 * offset /\ Len(memImg \o buffer) \in Nat
      BY <1>b, LenProperties DEF Dumped, Records
    <3>2. Capacity(MaxPages) \in Nat /\ offset \in Nat /\ offset <= Capacity(MaxPages)
      BY <1>f, CapacityNat, ImageAssumption
    <3> QED BY <2>2, <3>1, <3>2
  <2>6. memImg' # None
    BY <2>2, FileWords
  <2>7. Sound(memImg, sizeImg, lost)'
    BY <2>3, <2>5, <2>6 DEF Sound
  <2> QED BY <1>p, <2>4, <2>7 DEF MInv
<1> QED BY <1>1, <1>2

\* When memory.img is closed, and the page count is not written yet.
LEMMA CloseMemoryStep ==
    ASSUME MInv, CloseMemory
    PROVE  MInv'
<1>0. step = "close"
  BY DEF CloseMemory
<1>f. /\ Dumps /\ memory \in Memories /\ memory # None /\ Len(memory) \in Nat
      /\ offset = Len(memory)
  BY <1>0, DumpingFacts DEF MInv, Phase
<1>b. memImg \in Seq(FileWord) /\ buffer \in Seq(FileWord) /\ sizeImg = <<>> /\ ~lost
      /\ Dumped(memImg \o buffer, memory, Len(memory))
  BY <1>f DEF Dumps
<1>1. PICK words \in Prefix(buffer) : Closed(words, buffer) /\ memImg' = memImg \o words
  BY DEF CloseMemory
<1>2. /\ memImg' \in Seq(FileWord) /\ Len(memImg') \in 0..Len(memImg \o buffer)
      /\ \A i \in 1..Len(memImg') : memImg'[i] = (memImg \o buffer)[i]
  BY <1>b, <1>1, WrittenPrefix
<1>3. Cut(memImg', memory)
  <2>1. memImg' \in Seq(Value \cup Nat)
    BY <1>2, FileWords
  <2> QED BY <1>b, <1>f, <1>2, <2>1, DumpedCut
<1>4. ~lost' => Dumped(memImg', memory, Len(memory))
  <2>1. ~lost' => words = buffer
    BY <1>1 DEF Closed
  <2> QED BY <1>b, <1>1, <2>1
<1>5. lost' \in BOOLEAN
  BY <1>1, <1>b DEF Closed
<1>6. Typed'
  BY <1>2, <1>5 DEF MInv, Typed, CloseMemory, FileTyped
<1>7. Phase'
  BY <1>b, <1>f, <1>2, <1>3, <1>4 DEF Phase, CloseMemory
<1>8. Sound(memImg, sizeImg, lost)'
  BY <1>b, DumpingSound DEF CloseMemory
<1> QED BY <1>6, <1>7, <1>8 DEF MInv

\* The page count makes the image valid.
LEMMA CloseSizeStep ==
    ASSUME MInv, CloseSize
    PROVE  /\ MInv'
           /\ \/ sizeImg' \in {<<>>, <<V1>>} /\ lost'
              \/ \E p \in 0..MaxPages :
                    /\ sizeImg' = <<V1, p>> /\ memory \in [1..Capacity(p) -> Value]
                    /\ Len(memory) = Capacity(p)
<1>f. /\ step = "closeSize" /\ memory \in Memories /\ memory # None /\ sizeImg = <<>>
      /\ memImg \in Seq(FileWord) /\ Cut(memImg, memory)
      /\ ~lost => Dumped(memImg, memory, Len(memory))
  BY DEF MInv, Phase, CloseSize, Typed, Dumps
<1>1. PICK p \in 0..MaxPages :
         /\ memory \in [1..Capacity(p) -> Value] /\ Len(memory) = Capacity(p)
         /\ Len(memory) \div ChunksPerPage = p
         /\ Len(memory) <= Capacity(MaxPages) /\ Capacity(MaxPages) \in Nat
  BY <1>f, MemoryFacts
<1>2. sizeImg' \in {<<>>, <<V1>>, <<V1, p>>} /\ (lost' <=> lost \/ sizeImg' # <<V1, p>>)
  <2>1. sizeImg' \in Prefix(<<V1, p>>) /\ (lost' <=> lost \/ sizeImg' # <<V1, p>>)
    BY <1>1 DEF CloseSize, Pages, Closed
  <2> QED BY <2>1, PrefixOfTwo
<1>3. lost' \in BOOLEAN
  BY DEF CloseSize, Closed, MInv, Typed
<1>4. Typed'
  <2>1. /\ <<>> \in Seq({V1, V2} \cup (0..MaxPages))
        /\ <<V1>> \in Seq({V1, V2} \cup (0..MaxPages))
        /\ <<V1, p>> \in Seq({V1, V2} \cup (0..MaxPages))
    OBVIOUS
  <2>2. sizeImg' \in Seq({V1, V2} \cup (0..MaxPages))
    BY <1>2, <2>1
  <2> QED BY <1>3, <2>2 DEF MInv, Typed, CloseSize, Return, FileTyped
<1>5. Phase'
  BY DEF Phase, CloseSize, Return
<1>6. Capacity(p) \in Nat /\ memImg # None /\ Len(memImg) \in Nat /\ memImg' = memImg
      /\ Records(memImg, memory, Capacity(p))
  <2>1. memImg' = memImg
    BY DEF CloseSize
  <2> QED BY <1>f, <1>1, <2>1, CapacityNat, FileWords DEF Cut
<1>7. CASE sizeImg' \in {<<>>, <<V1>>}
  <2>1. Len(memImg) <= 2 * Capacity(MaxPages)
    BY <1>1, <1>6 DEF Records
  <2>2. Sound(memImg, sizeImg, lost)'
    BY <1>6, <1>7, <2>1 DEF Sound
  <2>3. lost'
    <3>1. sizeImg' # <<V1, p>>
      BY <1>7
    <3> QED BY <1>2, <3>1
  <2> QED BY <1>4, <1>5, <1>7, <2>2, <2>3 DEF MInv
<1>8. CASE sizeImg' = <<V1, p>>
  <2>1. Laid(memImg, V1, Capacity(p), Odd)
    BY <1>1, <1>6, RecordsLaid
  <2>2. ASSUME ~lost' PROVE Whole(memImg, V1, Capacity(p), Odd)
    <3>1. Len(memImg) \notin Odd
      BY <1>2, <1>f, <2>2 DEF Dumped
    <3>2. \A q \in Odd : q <= Len(memImg) => q < Len(memImg)
      BY <1>6, <3>1 DEF Odd
    <3> QED BY <1>1, <1>6, <3>2, RecordGood DEF Whole
  <2>3. InRecords(memImg, V1, p, lost')
    BY <1>3, <2>1, <2>2 DEF InRecords
  <2>4. Sound(memImg, sizeImg, lost)'
    BY <1>6, <1>8, <2>3 DEF Sound
  <2> QED BY <1>1, <1>4, <1>5, <1>8, <2>4 DEF MInv
<1> QED BY <1>2, <1>7, <1>8

LEMMA MStep == MInv /\ [Next]_vars => MInv'
<1> SUFFICES ASSUME MInv, [Next]_vars PROVE MInv'
  OBVIOUS
<1>1. CASE UNCHANGED vars
  BY <1>1 DEF MInv, Typed, Phase, Dumps, vars, files, running
<1>2. CASE Next
  BY <1>2, ProcessStep, OpenStep, DumpStep, FailStep, CloseMemoryStep, CloseSizeStep, Zenon DEF Next
<1> QED BY <1>1, <1>2

LEMMA MInvariant == Spec => []MInv
  BY MInit, MStep, PTL DEF Spec

\* In every state the variables have their types: what is restored is a
\* memory, of whole pages, whatever the files hold.
THEOREM MemoryTypeCorrect == Spec => []TypeOK
  BY MInvariant, MType, PTL

-----------------------------------------------------------------------------
(* What a completed checkpoint left                                        *)

LEMMA CompletesCloses ==
    ASSUME MInv, Next, Completes
    PROVE  CloseSize
<1> USE DEF Completes
<1>1. memory # None
  BY DEF MInv, Phase, Dumps
<1>2. result' # None
  BY ResultAssumption
<1> QED BY <1>1, <1>2 DEF Next, Boot, Restore, RestoreInto, Store, Grow, Die, OpenMemory, OpenSize,
           Dump, Dumping, Flush, DumpFails, WriteSize, WriteSizeFails, CloseMemory

\* An image with a marker and no page count, or with nothing, is refused.
LEMMA Refused ==
    ASSUME NEW file, NEW meta \in {None, <<>>, <<V1>>}, NEW cut, Sound(file, meta, cut), FileTyped(file)
    PROVE  Contents(file, meta) = None
<1>1. 0 \in 0..MaxPages
  BY ImageAssumption
<1>2. Info(meta) = None \/ Info(meta).pages = V1
  <2>0. Info(<<>>) = None /\ Info(None) = None /\ Info(<<V1>>) = [format |-> 0, pages |-> V1]
    BY <1>1, InfoCases
  <2>1. Info(<<>>) = None /\ Info(None) = None /\ Info(<<V1>>).pages = V1
    BY <2>0, SMT
  <2> QED BY <2>1
<1>3. V1 \notin 0..MaxPages
  BY MarkerAssumption, ImageAssumption
<1> QED BY <1>2, <1>3, SoundContents

LEMMA UpToAll ==
    ASSUME NEW n \in Nat, NEW m \in [1..n -> Value]
    PROVE  UpTo(m, n) = m
  BY DEF UpTo

LEMMA UpToZeros ==
    ASSUME NEW n \in Nat, NEW m \in [1..n -> Value], NEW k \in 0..n
    PROVE  UpTo(m, k) = SubSeq(m, 1, k) \o Zeros(n - k)
<1> DEFINE a == SubSeq(m, 1, k)
           z == Zeros(n - k)
           az == a \o z
           T == Value \cup {Zero}
<1>1. a \in Seq(T) /\ Len(a) = k /\ \A i \in 1..k : a[i] = m[i]
  <2>1. m \in Seq(T) /\ Len(m) = n
    OBVIOUS
  <2> QED BY <2>1, SubSeqProperties
<1>2. z \in Seq(T) /\ Len(z) = n - k /\ \A i \in 1..n - k : z[i] = Zero
  BY DEF Zeros
<1> HIDE DEF a, z
<1>3. az \in Seq(T) /\ Len(az) = n /\ \A i \in 1..n : az[i] = IF i <= k THEN a[i] ELSE z[i - k]
  <2>1. az \in Seq(T) /\ Len(az) = Len(a) + Len(z)
        /\ \A i \in 1..Len(a) + Len(z) : az[i] = IF i <= Len(a) THEN a[i] ELSE z[i - Len(a)]
    BY <1>1, <1>2, ConcatProperties
  <2>2. Len(a) = k /\ Len(a) + Len(z) = n
    BY <1>1, <1>2
  <2> HIDE DEF az
  <2> QED BY <2>1, <2>2
<1> HIDE DEF az
<1>4. ASSUME NEW i \in 1..n PROVE az[i] = IF i <= k THEN m[i] ELSE Zero
  <2>1. CASE i <= k
    BY <1>1, <1>3, <2>1
  <2>2. CASE ~(i <= k)
    <3>1. i - k \in 1..n - k
      BY <2>2
    <3> QED BY <1>2, <1>3, <2>2, <3>1
  <2> QED BY <2>1, <2>2
<1>5. az = [i \in 1..n |-> az[i]]
  BY <1>3
<1>6. UpTo(m, k) = [i \in 1..n |-> IF i <= k THEN m[i] ELSE Zero]
  BY DEF UpTo
<1>7. az = UpTo(m, k)
  BY <1>4, <1>5, <1>6
<1> QED BY <1>7 DEF az, a, z

\* What CloseSize leaves.
LEMMA ClosedImage ==
    ASSUME MInv, CloseSize
    PROVE  /\ ~lost' => Image' = memory
           /\ Image' = None \/ \E k \in 0..Len(memory) : Image' = UpTo(memory, k)
           /\ Len(memory) \in Nat /\ memory \in [1..Len(memory) -> Value]
<1>f. /\ memory \in Memories /\ memory # None
      /\ memImg \in Seq(FileWord) /\ memImg' = memImg /\ Cut(memImg, memory)
      /\ ~lost => Dumped(memImg, memory, Len(memory))
  BY DEF MInv, Phase, CloseSize, Typed, Dumps
<1>1. PICK q \in 0..MaxPages :
         memory \in [1..Capacity(q) -> Value] /\ Len(memory) = Capacity(q)
  BY <1>f, MemoryFacts
<1>2. Len(memory) \in Nat /\ memory \in [1..Len(memory) -> Value]
  BY <1>1, CapacityNat
<1>3. MInv'
  BY CloseSizeStep
<1>4. Image' = Contents(memImg, sizeImg')
  BY <1>f DEF Image
<1>5. CASE sizeImg' \in {<<>>, <<V1>>} /\ lost'
  <2>1. Sound(memImg, sizeImg', lost') /\ FileTyped(memImg)
    BY <1>3, <1>f DEF MInv, Typed
  <2>2. Image' = None
    BY <1>4, <1>5, <2>1, Refused
  <2> QED BY <1>2, <1>5, <2>2
<1>6. CASE \E p \in 0..MaxPages :
              /\ sizeImg' = <<V1, p>> /\ memory \in [1..Capacity(p) -> Value]
              /\ Len(memory) = Capacity(p)
  <2>1. PICK p \in 0..MaxPages :
           /\ sizeImg' = <<V1, p>> /\ memory \in [1..Capacity(p) -> Value]
           /\ Len(memory) = Capacity(p)
    BY <1>6
  <2>2. Capacity(p) \in Nat /\ Capacity(p) \in 0..Capacity(p)
    BY CapacityNat
  <2>3. Records(memImg, memory, Capacity(p))
    BY <1>f, <2>1 DEF Cut
  <2>4. /\ Len(memImg) \in Odd => Image' = None
        /\ Len(memImg) \notin Odd =>
              \A k \in 0..Capacity(p) : Complete(memImg, memory, k) => Image' = UpTo(memory, k)
    BY <1>4, <2>1, <2>2, <2>3, RecordsContents
  <2>5. Image' = None \/ \E k \in 0..Len(memory) : Image' = UpTo(memory, k)
    BY <1>f, <2>1, <2>4 DEF Cut
  <2>6. ASSUME ~lost' PROVE Image' = memory
    <3>1. ~lost
      BY <2>6 DEF CloseSize, Closed
    <3>2. Complete(memImg, memory, Capacity(p)) /\ Len(memImg) \notin Odd
      BY <1>f, <2>1, <3>1 DEF Dumped
    <3> QED BY <2>1, <2>2, <2>4, <3>2, UpToAll
  <2> QED BY <1>2, <2>5, <2>6
<1> QED BY <1>5, <1>6, CloseSizeStep

\* A checkpoint that returned 0, with no failed fclose, restores to the memory,
\* for every memory, every number of pages and every earlier image.
THEOREM CompletedIsDurable == Spec => CheckpointDurable
<1>1. MInv /\ [Next]_vars => [Completes /\ ~lost' => Image' = memory]_vars
  <2> SUFFICES ASSUME MInv, Next, Completes, ~lost' PROVE Image' = memory
    BY DEF vars
  <2> QED BY CompletesCloses, ClosedImage
<1> QED BY <1>1, MInvariant, PTL DEF Spec, CheckpointDurable

\* Even when an fclose lost what it was to write, the image is refused or is
\* the memory up to some chunk.
THEOREM LossIsATail == Spec => LostTailOnly
<1>1. MInv /\ [Next]_vars =>
         [Completes =>
             \/ Image' = None
             \/ \E n \in 0..Len(memory) :
                   Image' = SubSeq(memory, 1, n) \o Zeros(Len(memory) - n)]_vars
  <2> SUFFICES ASSUME MInv, Next, Completes
               PROVE  \/ Image' = None
                      \/ \E n \in 0..Len(memory) :
                            Image' = SubSeq(memory, 1, n) \o Zeros(Len(memory) - n)
    BY DEF vars
  <2> QED BY CompletesCloses, ClosedImage, UpToZeros
<1> QED BY <1>1, MInvariant, PTL DEF Spec, LostTailOnly

-----------------------------------------------------------------------------
(* The store of images that the files implement                            *)

\* As long as a uint32_t can count the bytes of every memory, a restore
\* returns all of the image.
Countable == MaxPages * ChunksPerPage < SizeLimit

LEMMA RestoredWhole ==
    ASSUME Countable, NEW file, NEW meta, Contents(file, meta) \in Memories \cup {None}
    PROVE  RestoredMemory(file, meta) = Contents(file, meta)
<1> DEFINE c == Contents(file, meta)
<1>1. CASE c = None
  BY <1>1 DEF RestoredMemory
<1>2. CASE c # None
  <2>1. RestoredMemory(file, meta) = SubSeq(c, 1, Len(c) % SizeLimit)
    BY <1>2 DEF RestoredMemory
  <2>2. c \in Seq(Value) /\ Len(c) \in Nat /\ Len(c) <= Capacity(MaxPages)
        /\ Capacity(MaxPages) \in Nat
    BY <1>2, MemoryFacts
  <2> HIDE DEF c
  <2>3. Len(c) % SizeLimit = Len(c)
    <3>1. Len(c) < SizeLimit /\ SizeLimit \in Nat
      BY <2>2, ImageAssumption DEF Countable, Capacity
    <3> QED BY <2>2, <3>1
  <2>4. SubSeq(c, 1, Len(c)) = c
    BY <2>2
  <2> QED BY <2>1, <2>3, <2>4 DEF c
<1> QED BY <1>1, <1>2

\* What a truncated memory.img restores to.
LEMMA TruncatedImage ==
    ASSUME MInv, Contents(<<>>, sizeImg) # None
    PROVE  \E p \in 0..MaxPages :
              /\ Contents(<<>>, sizeImg) = Zeros(Capacity(p))
              /\ lost \/ (Image \in [1..Capacity(p) -> Value] /\ Image # None)
              /\ Image # None => Image \in [1..Capacity(p) -> Value]
<1>s. Sound(memImg, sizeImg, lost) /\ FileTyped(memImg) /\ lost \in BOOLEAN
  BY DEF MInv, Typed
<1>e. Sound(<<>>, sizeImg, FALSE) /\ FileTyped(<<>>)
  <2>1. <<>> \in Seq(FileWord)
    OBVIOUS
  <2> QED BY <1>s, <2>1, EmptySound DEF FileTyped
<1>i. Image = Contents(memImg, sizeImg)
  BY DEF Image
<1>1. PICK p \in 0..MaxPages :
         /\ Info(sizeImg).pages = p /\ Info(sizeImg) # None
         /\ Contents(<<>>, sizeImg) = Filled(VisitedChunks(<<>>, Info(sizeImg)), Capacity(p))
         /\ VisitedChunks(<<>>, Info(sizeImg)) \in Chunks(Capacity(p))
  BY <1>e, SoundContents DEF Readable
<1>2. Capacity(p) \in Nat
  BY CapacityNat
<1>3. Image # None => Image \in [1..Capacity(p) -> Value]
  BY <1>s, <1>i, <1>1, SoundContents
<1>4. sizeImg \notin {None, <<>>, <<V1>>}
  BY <1>e, Refused
<1>5. CASE \E q \in 0..MaxPages :
              sizeImg = <<q>> /\ (memImg = <<>> \/ memImg \in [1..Capacity(q) -> Value])
  <2>1. PICK q \in 0..MaxPages :
           sizeImg = <<q>> /\ (memImg = <<>> \/ memImg \in [1..Capacity(q) -> Value])
    BY <1>5
  <2>2. Info(sizeImg) = [format |-> 0, pages |-> q] /\ q = p
    <3>1. Info(sizeImg) = [format |-> 0, pages |-> q]
      BY <2>1, InfoCases
    <3>2. Info(sizeImg).pages = q
      BY <3>1, SMT
    <3> QED BY <1>1, <3>1, <3>2
  <2>3. <<>> \in [1..0 -> Value] /\ <<>> # None
    <3>1. <<>> \in [1..0 -> Value] /\ <<>> \in Seq(Value \cup Nat)
      OBVIOUS
    <3> QED BY <3>1, NoneAssumption
  <2>4. Capacity(p) = 0 /\ Contents(<<>>, sizeImg) = <<>>
    BY <2>1, <2>2, <2>3, DenseContents
  <2>5. memImg = <<>>
    <3>1. \A f \in [1..0 -> Value] : f = <<>>
      OBVIOUS
    <3> QED BY <2>1, <2>2, <2>4, <3>1
  <2>6. Zeros(0) = <<>>
    BY DEF Zeros
  <2>7. Image = <<>>
    BY <1>i, <2>4, <2>5
  <2> QED BY <1>3, <2>3, <2>4, <2>6, <2>7
<1>6. CASE \E q \in 0..MaxPages, f \in {V1, V2} :
              sizeImg = <<f, q>> /\ memImg # None /\ InRecords(memImg, f, q, lost)
  <2>1. PICK q \in 0..MaxPages, f \in {V1, V2} :
           sizeImg = <<f, q>> /\ memImg # None /\ InRecords(memImg, f, q, lost)
    BY <1>6
  <2>2. Info(sizeImg) = [format |-> f, pages |-> q] /\ q = p /\ f # 0
    <3>1. Info(sizeImg) = [format |-> f, pages |-> q]
      BY <2>1, InfoCases
    <3>2. Info(sizeImg).pages = q
      BY <3>1, SMT
    <3> QED BY <1>1, <3>1, <3>2, MarkerAssumption, ImageAssumption
  <2>3. \A file : file # None =>
           VisitedChunks(file, Info(sizeImg)) = SparseChunks(file, f, Capacity(p))
    BY <1>1, <2>2 DEF VisitedChunks, Capacity
  <2>4. <<>> # None /\ Len(<<>>) = 0
    <3>1. <<>> \in Seq(Value \cup Nat) /\ Len(<<>>) = 0
      OBVIOUS
    <3> QED BY <3>1, NoneAssumption
  <2>5. VisitedChunks(<<>>, Info(sizeImg)) = SparseChunks(<<>>, f, Capacity(p))
    BY <2>3, <2>4
  <2>6. DOMAIN VisitedChunks(<<>>, Info(sizeImg)) = {}
    <3> DEFINE R == RecordsOf(<<>>, f, Capacity(p))
    <3>1. R = {}
      <4>1. \A q1 \in R : q1 \in 1..0
        BY <2>4, RecordsChained DEF Chained
      <4> QED BY <4>1
    <3>2. UNION {Sets(<<>>, f, r) : r \in R} = {}
      BY <3>1
    <3>3. SparseChunks(<<>>, f, Capacity(p)) =
             [i \in UNION {Sets(<<>>, f, r) : r \in R} |->
                 LET r == Setter(<<>>, f, R, i) IN <<>>[r + Header(f) + i - <<>>[r]]]
      BY <3>1, Zenon DEF SparseChunks
    <3> HIDE DEF R
    <3> QED BY <2>5, <3>2, <3>3
  <2>7. Contents(<<>>, sizeImg) = Zeros(Capacity(p))
    BY <1>1, <2>6 DEF Filled, Zeros
  <2>8. ASSUME ~lost PROVE Image # None
    <3>1. PICK S : Laid(memImg, f, Capacity(p), S) /\ Whole(memImg, f, Capacity(p), S)
      BY <2>1, <2>2, <2>8 DEF InRecords
    <3>2. Len(memImg) \in Nat
      BY <1>s, <2>1, FileWords DEF FileTyped
    <3>3. SparseChunks(memImg, f, Capacity(p)) # None
      BY <3>1, <3>2, WholeRead
    <3>4. VisitedChunks(memImg, Info(sizeImg)) # None
      BY <2>1, <2>3, <3>3
    <3> QED BY <1>s, <1>i, <3>4, SoundContents
  <2> QED BY <1>3, <2>7, <2>8
<1> QED BY <1>s, <1>4, <1>5, <1>6 DEF Sound

LEMMA ImageFacts ==
    ASSUME MInv
    PROVE  /\ Image \in Memories \cup {None} /\ lost \in BOOLEAN
           /\ memory \in Memories \cup {None}
           /\ sizeImg \in {None, <<>>, <<V1>>} => Image = None
  BY SoundMemory, Refused DEF MInv, Typed, Image

\* A step that leaves the files alone leaves the image alone.
LEMMA SameImage == UNCHANGED files => UNCHANGED Image
  BY DEF files, Image

LEMMA ProcessRefines ==
    ASSUME Countable, MInv,
           \/ \E n \in 0..MaxPages : Boot(n)
           \/ Restore
           \/ \E n \in 0..MaxPages * ChunksPerPage : RestoreInto(n)
           \/ \E i \in 1..MaxPages * ChunksPerPage, v \in Value : Store(i, v)
           \/ Grow \/ Die
    PROVE  Abstract!Next \/ UNCHANGED Abstract!vars
<1>1. UNCHANGED Image /\ UNCHANGED lost /\ Image \in Memories \cup {None}
  BY SameImage, ImageFacts DEF Boot, Restore, RestoreInto, Store, Grow, Die
<1>2. MInv'
  BY ProcessStep
<1>3. memory' \in Memories \cup {None}
  BY <1>2 DEF MInv, Typed
<1>4. ASSUME NEW n \in 0..MaxPages, Boot(n) PROVE Abstract!Start
  <2>1. memory = None /\ memory' = Zeros(n * ChunksPerPage) /\ memory' \in Memories
    BY <1>4, ZerosMemory DEF Boot
  <2>2. \A i \in DOMAIN memory' : memory'[i] = Zero
    BY <2>1 DEF Zeros
  <2> QED BY <1>1, <2>1, <2>2 DEF Abstract!Start, Abstract!Blank
<1>5. CASE Restore
  <2>1. memory = None /\ memory' = Image
    BY <1>1, <1>5, RestoredWhole DEF Restore, Image
  <2> QED BY <1>1, <2>1 DEF Abstract!Next, Abstract!Start, Abstract!vars
<1>6. ASSUME NEW n \in 0..MaxPages * ChunksPerPage, RestoreInto(n)
      PROVE  Abstract!Start \/ UNCHANGED Abstract!vars
  <2>1. n \in Nat
    BY ImageAssumption
  <2>2. memory = None
    BY <1>6 DEF RestoreInto
  <2>3. CASE RestoredInto(Zeros(n), memImg, sizeImg) = None
    BY <1>1, <1>6, <2>2, <2>3 DEF RestoreInto, Abstract!vars
  <2>4. CASE RestoredInto(Zeros(n), memImg, sizeImg) # None
    <3>1. /\ Image # None
          /\ SubSeq(RestoredInto(Zeros(n), memImg, sizeImg), 1, Info(sizeImg).pages * ChunksPerPage) = Image
      BY <2>1, <2>4, SoundInto DEF MInv, Typed, Image
    <3>2. memory' = Image
      BY <1>6, <2>4, <3>1 DEF RestoreInto
    <3> QED BY <1>1, <2>2, <3>1, <3>2 DEF Abstract!Start
  <2> QED BY <2>3, <2>4
<1>7. ASSUME NEW i, NEW v \in Value, Store(i, v) PROVE Abstract!Run
  <2>1. memory # None /\ step' = step /\ step = "idle"
    BY <1>7 DEF Store, running
  <2>2. PICK p \in 0..MaxPages : memory \in [1..Capacity(p) -> Value]
    BY <1>7, MemoriesSized DEF Store, MInv, Typed
  <2>3. memory' \in [1..Capacity(p) -> Value]
    BY <1>7, <2>2 DEF Store
  <2> QED BY <1>1, <2>1, <2>3, MemoriesSized DEF Abstract!Run
<1>8. CASE Grow
  <2>1. memory # None /\ memory' # None
    <3>1. memory \in Memories /\ memory' = memory \o Zeros(ChunksPerPage)
      BY <1>8 DEF Grow, MInv, Typed
    <3>2. memory' \in Seq(Value)
      BY <3>1, MemoryFacts, ZerosMemory, ConcatProperties
    <3>3. Seq(Value) \subseteq Seq(Value \cup Nat)
      OBVIOUS
    <3> QED BY <3>1, <3>2, <3>3, MemoryFacts, NoneAssumption
  <2>2. Abstract!Run
    BY <1>1, <1>3, <2>1 DEF Abstract!Run
  <2> QED BY <2>2, Zenon DEF Abstract!Next
<1>9. ASSUME Die PROVE Abstract!Die
  <2>1. memory # None /\ memory' = None
    BY <1>9 DEF Die
  <2> QED BY <1>1, <2>1 DEF Abstract!Die
<1>10. Abstract!Start \/ Abstract!Run \/ Abstract!Die => Abstract!Next
  BY Zenon DEF Abstract!Next
<1>11. CASE Die
  BY <1>9, <1>10, <1>11, Zenon
<1>12. CASE \E n \in 0..MaxPages : Boot(n)
  BY <1>4, <1>10, <1>12, Zenon
<1>13. CASE \E n \in 0..MaxPages * ChunksPerPage : RestoreInto(n)
  BY <1>6, <1>10, <1>13, Zenon
<1>14. CASE \E i \in 1..MaxPages * ChunksPerPage, v \in Value : Store(i, v)
  BY <1>7, <1>10, <1>14, Zenon
<1> QED BY <1>5, <1>8, <1>10, <1>11, <1>12, <1>13, <1>14, Zenon

LEMMA OpenRefines ==
    ASSUME MInv, OpenMemory \/ OpenSize
    PROVE  Abstract!Next \/ UNCHANGED Abstract!vars
<1>f. Image \in Memories \cup {None} /\ lost \in BOOLEAN
  BY ImageFacts
<1>1. CASE OpenMemory
  <2>1. memory # None /\ UNCHANGED memory
    BY <1>1 DEF OpenMemory
  <2>2. CASE opened' = FALSE /\ UNCHANGED memImg
    <3>1. UNCHANGED Image /\ UNCHANGED lost
      BY <1>1, <1>f, <2>2 DEF OpenMemory, Image
    <3> QED BY <2>1, <3>1 DEF Abstract!vars
  <2>3. CASE opened' = TRUE /\ memImg' = <<>>
    <3>1. lost' = FALSE /\ Image' = Contents(<<>>, sizeImg)
      BY <1>1, <2>3 DEF OpenMemory, Image
    <3>2. CASE Image' = None
      BY <2>1, <3>1, <3>2 DEF Abstract!Next, Abstract!Forget
    <3>3. CASE Image' # None
      <4>1. PICK p \in 0..MaxPages :
               /\ Contents(<<>>, sizeImg) = Zeros(Capacity(p))
               /\ lost \/ (Image \in [1..Capacity(p) -> Value] /\ Image # None)
               /\ Image # None => Image \in [1..Capacity(p) -> Value]
        BY <3>1, <3>3, TruncatedImage
      <4>2. Image' = [i \in 1..Capacity(p) |-> Zero]
        BY <3>1, <4>1 DEF Zeros
      <4>3. CASE Image # None
        <5>1. Image' = [i \in DOMAIN Image |-> Zero]
          BY <4>1, <4>2, <4>3
        <5> QED BY <2>1, <3>1, <4>3, <5>1 DEF Abstract!Next, Abstract!Clear
      <4>4. CASE Image = None
        <5>1. lost
          BY <4>1, <4>4
        <5>2. Image' \in [1..Capacity(p) -> Value] /\ \A i \in DOMAIN Image' : Image'[i] = Zero
          BY <4>2, ImageAssumption
        <5>3. Image' \in Memories
          BY <5>2, MemoriesSized
        <5> QED BY <2>1, <3>1, <5>1, <5>2, <5>3 DEF Abstract!Next, Abstract!Clear, Abstract!Blank
      <4> QED BY <4>3, <4>4
    <3> QED BY <3>2, <3>3
  <2> QED BY <1>1, <2>2, <2>3 DEF OpenMemory
<1>2. CASE OpenSize
  <2>1. memory # None /\ UNCHANGED <<memory, memImg, lost>>
    BY <1>2 DEF OpenSize, MInv, Phase, Dumps
  <2>2. CASE sizeImg' = sizeImg
    <3>1. UNCHANGED Image
      BY <2>1, <2>2 DEF Image
    <3> QED BY <2>1, <3>1 DEF Abstract!vars
  <2>3. CASE sizeImg' = <<>>
    <3>1. MInv'
      BY <1>2, OpenStep
    <3>2. Image' = None
      <4>1. Sound(memImg', sizeImg', lost') /\ FileTyped(memImg')
        BY <3>1 DEF MInv, Typed
      <4> QED BY <2>3, <4>1, Refused DEF Image
    <3> QED BY <2>1, <3>2 DEF Abstract!Next, Abstract!Forget
  <2> QED BY <1>2, <2>2, <2>3 DEF OpenSize
<1> QED BY <1>1, <1>2

\* While chunks are dumped there is no image.
LEMMA DumpRefines ==
    ASSUME MInv, Dump \/ Flush \/ WriteSize \/ DumpFails \/ WriteSizeFails
    PROVE  UNCHANGED Abstract!vars
<1>1. MInv'
  BY DumpStep, FailStep
<1>2. sizeImg = <<>> /\ sizeImg' \in {<<>>, <<V1>>}
  <2>1. Dumps
    BY DumpingFacts DEF Dump, Dumping, Flush, WriteSize, DumpFails, WriteSizeFails
  <2> QED BY <2>1 DEF Dumps, Dump, Flush, WriteSize, DumpFails, WriteSizeFails, files
<1>3. Image = None
  BY <1>2, ImageFacts
<1>4. Image' = None
  <2>1. Sound(memImg', sizeImg', lost') /\ FileTyped(memImg')
    BY <1>1 DEF MInv, Typed
  <2> QED BY <1>2, <2>1, Refused DEF Image
<1>5. UNCHANGED <<memory, lost>>
  BY DEF Dump, Flush, WriteSize, DumpFails, WriteSizeFails
<1> QED BY <1>3, <1>4, <1>5 DEF Abstract!vars

LEMMA CloseRefines ==
    ASSUME MInv, CloseMemory \/ CloseSize
    PROVE  Abstract!Next \/ UNCHANGED Abstract!vars
<1>1. memory # None /\ sizeImg = <<>> /\ UNCHANGED memory /\ lost \in BOOLEAN
  BY DEF MInv, Phase, Dumps, Typed, CloseMemory, CloseSize
<1>2. Image = None
  BY <1>1, ImageFacts
<1>3. CASE CloseMemory
  <2>1. MInv'
    BY <1>3, CloseMemoryStep
  <2>2. Image' = None
    <3>1. Sound(memImg', sizeImg', lost') /\ FileTyped(memImg') /\ sizeImg' = <<>>
      BY <1>1, <1>3, <2>1 DEF MInv, Typed, CloseMemory
    <3> QED BY <3>1, Refused DEF Image
  <2>3. lost' \in BOOLEAN
    BY <2>1 DEF MInv, Typed
  <2>4. CASE lost' = lost
    BY <1>1, <1>2, <2>2, <2>4 DEF Abstract!vars
  <2>5. CASE lost' = TRUE
    BY <1>1, <1>2, <2>2, <2>5 DEF Abstract!Next, Abstract!Lose
  <2>6. lost => lost'
    BY <1>3 DEF CloseMemory, Closed
  <2> QED BY <1>1, <2>3, <2>4, <2>5, <2>6
<1>4. CASE CloseSize
  <2>1. /\ ~lost' => Image' = memory
        /\ Image' = None \/ \E k \in 0..Len(memory) : Image' = UpTo(memory, k)
    BY <1>4, ClosedImage
  <2>2. MInv' /\ (lost => lost')
    BY <1>4, CloseSizeStep DEF CloseSize, Closed
  <2>3. lost' \in BOOLEAN
    BY <2>2 DEF MInv, Typed
  <2>4. CASE ~lost'
    <3>1. ~lost /\ lost' = lost
      BY <1>1, <2>2, <2>3, <2>4
    <3> QED BY <1>1, <1>2, <2>1, <2>4, <3>1 DEF Abstract!Next, Abstract!Commit
  <2>5. CASE lost'
    <3>1. lost' = TRUE
      BY <2>3, <2>5
    <3> QED BY <1>1, <1>2, <2>1, <3>1 DEF Abstract!Next, Abstract!Lose, UpTo
  <2> QED BY <2>4, <2>5
<1> QED BY <1>3, <1>4

\* Whatever dies or fails, and at whichever step, a restore brings back the
\* memory of the last completed checkpoint or fails, with the two exceptions
\* that the store of images has: for every memory whose size a uint32_t holds.
THEOREM FilesImplementStore == ASSUME Countable PROVE Spec => ImplementsImageStore
<1>1. MInv /\ Init => Abstract!Init
  BY ImageFacts DEF Init, Abstract!Init
<1>2. MInv /\ [Next]_vars => [Abstract!Next]_(Abstract!vars)
  <2> SUFFICES ASSUME MInv, [Next]_vars PROVE Abstract!Next \/ UNCHANGED Abstract!vars
    OBVIOUS
  <2>1. CASE UNCHANGED vars
    BY <2>1, SameImage DEF vars, Abstract!vars
  <2>2. CASE Next
    BY <2>2, ProcessRefines, OpenRefines, DumpRefines, CloseRefines, Zenon DEF Next
  <2> QED BY <2>1, <2>2
<1> QED BY <1>1, <1>2, MInvariant, MInit, PTL DEF Spec, Abstract!Spec, ImplementsImageStore

=============================================================================
