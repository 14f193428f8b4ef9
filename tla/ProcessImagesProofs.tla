------------------------ MODULE ProcessImagesProofs ------------------------
(***************************************************************************)
(* Proofs about ProcessImages: whatever dies or fails in between, what is  *)
(* in the three files, and what a restore makes of them.                   *)
(***************************************************************************)
EXTENDS ProcessImages, SequenceTheorems, FiniteSetTheorems, Induction

IsSeq(s) == \E S : s \in Seq(S)

\* The first n words, and what follows them.
First(words, n) == SubSeq(words, 1, n)
After(words, n) == SubSeq(words, n + 1, Len(words))

-----------------------------------------------------------------------------
(* Sequences *)

LEMMA SeqFacts ==
    ASSUME NEW s, IsSeq(s)
    PROVE  Len(s) \in Nat /\ DOMAIN s = 1..Len(s)
BY LenProperties DEF IsSeq

LEMMA SameSeq ==
    ASSUME NEW s, NEW t, IsSeq(s), IsSeq(t), Len(s) = Len(t),
           \A i \in 1..Len(s) : s[i] = t[i]
    PROVE  s = t
<1>1. PICK S : s \in Seq(S)
  BY DEF IsSeq
<1>2. PICK T : t \in Seq(T)
  BY DEF IsSeq
<1>3. s \in Seq(S \cup T) /\ t \in Seq(S \cup T)
  BY <1>1, <1>2, SeqMonotonic
<1> QED BY <1>3, SeqEqual

LEMMA ConcatSeq ==
    ASSUME NEW s, NEW t, IsSeq(s), IsSeq(t)
    PROVE  /\ IsSeq(s \o t)
           /\ Len(s \o t) = Len(s) + Len(t)
           /\ \A i \in 1..Len(s) + Len(t) :
                 (s \o t)[i] = IF i <= Len(s) THEN s[i] ELSE t[i - Len(s)]
<1>1. PICK S : s \in Seq(S)
  BY DEF IsSeq
<1>2. PICK T : t \in Seq(T)
  BY DEF IsSeq
<1>3. s \in Seq(S \cup T) /\ t \in Seq(S \cup T)
  BY <1>1, <1>2, SeqMonotonic
<1>4. s \o t \in Seq(S \cup T)
  BY <1>3, ConcatProperties
<1> QED BY <1>3, <1>4, ConcatProperties DEF IsSeq

LEMMA CutSeq ==
    ASSUME NEW s, IsSeq(s), NEW m \in Nat \ {0}, NEW n \in 0..Len(s)
    PROVE  /\ IsSeq(SubSeq(s, m, n))
           /\ Len(SubSeq(s, m, n)) = IF m <= n THEN n - m + 1 ELSE 0
           /\ \A i \in 1..n - m + 1 : SubSeq(s, m, n)[i] = s[m + i - 1]
<1>1. PICK S : s \in Seq(S)
  BY DEF IsSeq
<1>2. \A i \in m..n : s[i] \in S
  BY <1>1, ElementOfSeq
<1>3. m \in Int /\ n \in Int
  BY SeqFacts
<1>4. SubSeq(s, m, n) \in Seq(S)
  BY <1>2, <1>3, SubSeqProperties
<1> QED BY <1>2, <1>3, <1>4, SubSeqProperties DEF IsSeq

LEMMA FirstFacts ==
    ASSUME NEW words, IsSeq(words), NEW n \in 0..Len(words)
    PROVE  /\ IsSeq(First(words, n)) /\ Len(First(words, n)) = n
           /\ \A i \in 1..n : First(words, n)[i] = words[i]
           /\ IsSeq(After(words, n)) /\ Len(After(words, n)) = Len(words) - n
           /\ \A i \in 1..Len(words) - n : After(words, n)[i] = words[n + i]
<1> Len(words) \in Nat
  BY SeqFacts
<1> QED BY CutSeq DEF First, After

LEMMA WholeSeq ==
    ASSUME NEW words, IsSeq(words)
    PROVE  /\ First(words, 0) = <<>> /\ First(words, Len(words)) = words
           /\ After(words, 0) = words /\ After(words, Len(words)) = <<>>
           /\ IsSeq(<<>>) /\ Len(<<>>) = 0
<1>1. PICK S : words \in Seq(S)
  BY DEF IsSeq
<1>2. Len(words) \in Nat
  BY <1>1
<1>3. First(words, 0) = <<>> /\ After(words, Len(words)) = <<>>
  BY <1>2, SubSeqEmpty DEF First, After
<1>4. First(words, Len(words)) = words /\ After(words, 0) = words
  BY <1>1, SubSeqFull DEF First, After
<1>5. IsSeq(<<>>) /\ Len(<<>>) = 0
  BY EmptySeq DEF IsSeq
<1> QED BY <1>3, <1>4, <1>5

\* What is written goes behind what was written already.
LEMMA WrittenBehind ==
    ASSUME NEW words, IsSeq(words), NEW n \in 0..Len(words), NEW k \in 0..Len(words) - n
    PROVE  /\ SubSeq(First(words, n), 1, n) \o SubSeq(After(words, n), 1, k)
                 \o SubSeq(First(words, n), n + k + 1, Len(First(words, n)))
              = First(words, n + k)
           /\ SubSeq(After(words, n), k + 1, Len(After(words, n))) = After(words, n + k)
           /\ Len(SubSeq(After(words, n), 1, k)) = k
<1> DEFINE f == First(words, n)
           a == After(words, n)
           x == SubSeq(f, 1, n)
           y == SubSeq(a, 1, k)
           z == SubSeq(f, n + k + 1, n)
<1>1. Len(words) \in Nat /\ n \in Nat /\ k \in Nat
  BY SeqFacts
<1>2. /\ IsSeq(f) /\ Len(f) = n /\ \A i \in 1..n : f[i] = words[i]
      /\ IsSeq(a) /\ Len(a) = Len(words) - n /\ \A i \in 1..Len(words) - n : a[i] = words[n + i]
  BY FirstFacts
<1>3. IsSeq(x) /\ Len(x) = n /\ \A i \in 1..n : x[i] = words[i]
  <2>1. x = f
    BY <1>2, WholeSeq DEF First
  <2> QED BY <1>2, <2>1
<1>4. IsSeq(y) /\ Len(y) = k /\ \A i \in 1..k : y[i] = words[n + i]
  <2>1. y = First(a, k)
    BY DEF First
  <2>2. k \in 0..Len(a)
    BY <1>1, <1>2
  <2> HIDE DEF a, y
  <2>3. IsSeq(y) /\ Len(y) = k /\ \A i \in 1..k : y[i] = a[i]
    BY <1>2, <2>1, <2>2, FirstFacts
  <2>4. ASSUME NEW i \in 1..k PROVE y[i] = words[n + i]
    <3>1. i \in 1..Len(words) - n
      BY <1>1
    <3>2. y[i] = a[i]
      BY <2>3
    <3> QED BY <1>2, <3>1, <3>2
  <2> QED BY <2>3, <2>4
<1>5. z = <<>>
  BY <1>1, SubSeqEmpty
<1>6. x \o y \o z = x \o y
  <2> HIDE DEF x, y, z
  <2>1. PICK S : x \o y \in Seq(S)
    BY <1>3, <1>4, ConcatSeq DEF IsSeq
  <2> QED BY <1>5, <2>1, ConcatEmptySeq
<1>7. IsSeq(x \o y) /\ Len(x \o y) = n + k
      /\ \A i \in 1..n + k : (x \o y)[i] = words[i]
  <2> HIDE DEF x, y
  <2>1. /\ IsSeq(x \o y) /\ Len(x \o y) = Len(x) + Len(y)
        /\ \A i \in 1..Len(x) + Len(y) : (x \o y)[i] = IF i <= Len(x) THEN x[i] ELSE y[i - Len(x)]
    BY <1>3, <1>4, ConcatSeq
  <2>2. ASSUME NEW i \in 1..n + k PROVE (x \o y)[i] = words[i]
    <3>1. CASE i <= n
      <4>1. i \in 1..n /\ i \in 1..n + k
        BY <1>1, <3>1
      <4>2. (x \o y)[i] = x[i]
        BY <1>3, <1>4, <2>1, <3>1, <4>1
      <4> QED BY <1>3, <4>1, <4>2
    <3>2. CASE i > n
      <4>1. i - n \in 1..k /\ n + (i - n) = i
        BY <1>1, <3>2
      <4>2. (x \o y)[i] = y[i - n]
        BY <1>1, <1>3, <1>4, <2>1, <3>2
      <4>3. y[i - n] = words[n + (i - n)]
        BY <1>4, <4>1
      <4>4. words[n + (i - n)] = words[i]
        BY <4>1
      <4> QED BY <4>2, <4>3, <4>4, Zenon
    <3>3. i <= n \/ i > n
      BY <1>1
    <3> QED BY <3>1, <3>2, <3>3, Zenon
  <2> QED BY <1>3, <1>4, <2>1, <2>2
<1>8. IsSeq(First(words, n + k)) /\ Len(First(words, n + k)) = n + k
      /\ \A i \in 1..n + k : First(words, n + k)[i] = words[i]
  BY <1>1, FirstFacts
<1>9. x \o y = First(words, n + k)
  <2> HIDE DEF x, y
  <2>1. \A i \in 1..n + k : (x \o y)[i] = First(words, n + k)[i]
    BY <1>7, <1>8
  <2>2. Len(x \o y) = Len(First(words, n + k)) /\ Len(x \o y) = n + k
    BY <1>7, <1>8
  <2> QED BY <1>7, <1>8, <2>1, <2>2, SameSeq
<1>10. SubSeq(a, k + 1, Len(a)) = After(words, n + k)
  <2> DEFINE r == After(a, k)
  <2>1. k \in 0..Len(a)
    BY <1>1, <1>2
  <2> HIDE DEF a
  <2>2. IsSeq(r) /\ Len(r) = Len(a) - k /\ \A i \in 1..Len(a) - k : r[i] = a[k + i]
    BY <1>2, <2>1, FirstFacts
  <2>3. /\ IsSeq(After(words, n + k)) /\ Len(After(words, n + k)) = Len(words) - (n + k)
        /\ \A i \in 1..Len(words) - (n + k) : After(words, n + k)[i] = words[n + k + i]
    BY <1>1, FirstFacts
  <2> HIDE DEF r
  <2>4. ASSUME NEW i \in 1..Len(words) - (n + k) PROVE r[i] = After(words, n + k)[i]
    <3>1. k + i \in 1..Len(words) - n /\ i \in 1..Len(a) - k /\ n + (k + i) = n + k + i
      BY <1>1, <1>2
    <3> QED BY <1>2, <2>2, <2>3, <3>1
  <2>5. Len(r) = Len(words) - (n + k)
    BY <1>1, <1>2, <2>2
  <2>6. r = After(words, n + k)
    BY <2>2, <2>3, <2>4, <2>5, SameSeq
  <2> QED BY <2>6 DEF r, After
<1> QED BY <1>2, <1>4, <1>6, <1>9, <1>10

-----------------------------------------------------------------------------
(* Call stacks and messages *)

LEMMA FunctionIsSeq ==
    ASSUME NEW f, NEW n \in Nat, f = [i \in 1..n |-> f[i]]
    PROVE  IsSeq(f) /\ Len(f) = n
<1>1. f \in [1..n -> {f[i] : i \in 1..n}]
  OBVIOUS
<1>2. f \in Seq({f[i] : i \in 1..n})
  BY <1>1, SeqDef
<1>3. DOMAIN f = 1..n
  BY <1>1
<1> QED BY <1>2, <1>3, LenProperties DEF IsSeq

LEMMA SerializedFacts ==
    ASSUME NEW cs, IsSeq(cs)
    PROVE  /\ IsSeq(Serialized(cs)) /\ Len(Serialized(cs)) = 2 * Len(cs)
           /\ \A i \in 1..2 * Len(cs) :
                 Serialized(cs)[i] = IF i % 2 = 1 THEN "entry" ELSE FromEntry(cs[i \div 2])
<1> DEFINE m == FromCallStack(cs)
<1>1. Len(cs) \in Nat /\ DOMAIN cs = 1..Len(cs)
  BY SeqFacts
<1>2. Len(m) = Len(cs)
  <2>1. m = [i \in 1..Len(cs) |-> m[i]]
    BY <1>1 DEF FromCallStack
  <2> HIDE DEF m
  <2> QED BY <1>1, <2>1, FunctionIsSeq
<1>3. Serialized(cs) = [i \in 1..2 * Len(cs) |-> IF i % 2 = 1 THEN "entry" ELSE m[i \div 2]]
  BY <1>2 DEF Serialized
<1>4. \A i \in 1..2 * Len(cs) : i % 2 # 1 => i \div 2 \in 1..Len(cs)
  BY <1>1
<1>5. \A i \in 1..Len(cs) : m[i] = FromEntry(cs[i])
  BY <1>1 DEF FromCallStack
<1>6. 2 * Len(cs) \in Nat
  BY <1>1
<1> HIDE DEF m
<1>7. Serialized(cs) = [i \in 1..2 * Len(cs) |-> Serialized(cs)[i]]
  BY <1>3
<1>8. IsSeq(Serialized(cs)) /\ Len(Serialized(cs)) = 2 * Len(cs)
  BY <1>6, <1>7, FunctionIsSeq
<1>9. ASSUME NEW i \in 1..2 * Len(cs)
      PROVE  Serialized(cs)[i] = IF i % 2 = 1 THEN "entry" ELSE FromEntry(cs[i \div 2])
  BY <1>3, <1>4, <1>5
<1> QED BY <1>8, <1>9

\* What a message is read as has an entry for every two words.
LEMMA DeserializedFacts ==
    ASSUME NEW words, IsSeq(words), NEW cs \in Deserialized(words)
    PROVE  /\ IsSeq(cs) /\ 2 * Len(cs) = Len(words)
           /\ \A i \in 1..Len(cs) : cs[i] = ToEntry(words[2 * i])
<1> DEFINE n == Len(words) \div 2
           m == [i \in 1..n |-> words[2 * i]]
<1>1. Len(words) \in Nat /\ Len(words) % 2 # 1 /\ cs = ToCallStack(m)
  BY SeqFacts DEF Deserialized
<1>2. n \in Nat /\ 2 * n = Len(words)
  BY <1>1
<1>3. cs = [i \in 1..n |-> ToEntry(words[2 * i])]
  BY <1>1 DEF ToCallStack
<1> HIDE DEF n
<1>4. cs = [i \in 1..n |-> cs[i]]
  BY <1>3
<1>5. IsSeq(cs) /\ Len(cs) = n
  BY <1>2, <1>4, FunctionIsSeq
<1> QED BY <1>2, <1>3, <1>5

TypedMessages == [types: Seq(Int), values: Seq(Int)]
Messages == [pc: Nat \X Nat, locals: TypedMessages, value_stack: TypedMessages,
             label_stack: [LabelField -> Seq(Int)]]

LEMMA CopyFacts ==
    ASSUME NEW s \in Seq(Int), NEW n \in Nat
    PROVE  Copy(s, n) \in Seq(Int) /\ Len(Copy(s, n)) = n /\ (n = Len(s) => Copy(s, n) = s)
<1>1. Copy(s, n) \in [1..n -> Int]
  BY LenProperties DEF Copy, Junk
<1>2. Copy(s, n) \in Seq(Int)
  BY <1>1, SeqDef
<1>3. Len(Copy(s, n)) = n
  BY <1>1, <1>2, LenProperties
<1>4. ASSUME n = Len(s) PROVE Copy(s, n) = s
  <2>1. Copy(s, n) = [i \in 1..n |-> s[i]]
    BY <1>4, LenProperties DEF Copy
  <2> QED BY <1>4, <2>1, LenProperties
<1> QED BY <1>2, <1>3, <1>4

LEMMA ArrayMessage ==
    ASSUME NEW a \in Arrays
    PROVE  FromArray(a) \in Seq(Int) /\ (a.size = Len(a.contents) => ToArray(FromArray(a)) = a)
<1>1. PICK n \in Nat, s \in Seq(Int) : a = [size |-> n, contents |-> s]
  BY DEF Arrays
<1>2. FromArray(a) = Copy(s, n) /\ a.size = n /\ a.contents = s
  BY <1>1 DEF FromArray
<1> QED BY <1>1, <1>2, CopyFacts DEF ToArray, Array

LEMMA TypedMessage ==
    ASSUME NEW a \in TypedArrays
    PROVE  /\ FromTyped(a) \in TypedMessages
           /\ a.types.size = Len(a.types.contents) /\ a.values.size = Len(a.values.contents)
              => ToTyped(FromTyped(a)) = a
<1>1. PICK y \in Arrays, v \in Arrays : a = [types |-> y, values |-> v]
  BY DEF TypedArrays
<1>2. a.types = y /\ a.values = v
  BY <1>1
<1>3. FromTyped(a) = [types |-> FromArray(y), values |-> FromArray(v)]
  BY <1>2 DEF FromTyped
<1>4. ToTyped(FromTyped(a)) = [types |-> ToArray(FromArray(y)), values |-> ToArray(FromArray(v))]
  BY <1>3 DEF ToTyped
<1> QED BY <1>1, <1>2, <1>3, <1>4, ArrayMessage DEF TypedMessages

LEMMA LabelsMessage ==
    ASSUME NEW l \in LabelStacks
    PROVE  /\ FromLabels(l) \in [LabelField -> Seq(Int)]
           /\ (\A k \in LabelField : Len(l[k]) = l.size) => ToLabels(FromLabels(l)) = l
<1> DEFINE m == FromLabels(l)
<1>1. l.size \in Nat /\ \A k \in LabelField : l[k] \in Seq(Int)
  BY DEF LabelStacks, LabelField
<1>2. \A k \in LabelField : m[k] = Copy(l[k], l.size)
  BY DEF FromLabels
<1>3. m \in [LabelField -> Seq(Int)]
  BY <1>1, CopyFacts DEF FromLabels
<1>4. ASSUME \A k \in LabelField : Len(l[k]) = l.size PROVE ToLabels(m) = l
  <2>1. \A k \in LabelField : m[k] = l[k] /\ Copy(l[k], l.size) = l[k]
    BY <1>1, <1>2, <1>4, CopyFacts
  <2>2. Len(m.begins) = l.size
    BY <1>4, <2>1 DEF LabelField
  <2> HIDE DEF m
  <2>3. ToLabels(m) = [k \in LabelField \cup {"size"} |-> l[k]]
    BY <2>1, <2>2 DEF ToLabels
  <2>4. l = [k \in LabelField \cup {"size"} |-> l[k]]
    BY DEF LabelStacks, LabelField
  <2> QED BY <2>3, <2>4
<1> QED BY <1>3, <1>4

LEMMA EntryMessage ==
    ASSUME NEW f \in Frames
    PROVE  FromEntry(f) \in Messages /\ (Sized(f) => ToEntry(FromEntry(f)) = f)
<1>1. PICK p \in Nat \X Nat, o \in TypedArrays, v \in TypedArrays, l \in LabelStacks :
         f = [pc |-> p, locals |-> o, value_stack |-> v, label_stack |-> l]
  BY DEF Frames
<1>2. f.pc = p /\ f.locals = o /\ f.value_stack = v /\ f.label_stack = l
  BY <1>1
<1>3. FromEntry(f) = [pc |-> p, locals |-> FromTyped(o), value_stack |-> FromTyped(v),
                      label_stack |-> FromLabels(l)]
  BY <1>2 DEF FromEntry
<1>4. ToEntry(FromEntry(f)) = [pc |-> p, locals |-> ToTyped(FromTyped(o)),
          value_stack |-> ToTyped(FromTyped(v)), label_stack |-> ToLabels(FromLabels(l))]
  BY <1>3 DEF ToEntry
<1>5. FromEntry(f) \in Messages
  BY <1>3, TypedMessage, LabelsMessage DEF Messages
<1>6. ASSUME Sized(f) PROVE ToEntry(FromEntry(f)) = f
  <2>1. /\ \A a \in {o.types, o.values, v.types, v.values} : a.size = Len(a.contents)
        /\ \A k \in LabelField : Len(l[k]) = l.size
    BY <1>2, <1>6 DEF Sized
  <2> QED BY <1>1, <1>4, <2>1, TypedMessage, LabelsMessage
<1> QED BY <1>5, <1>6

LEMMA MessageEntry ==
    ASSUME NEW m \in Messages
    PROVE  ToEntry(m) \in Frames
<1>1. \A s \in Seq(Int) : ToArray(s) \in Arrays
  BY LenProperties DEF ToArray, Array, Arrays
<1>2. \A t \in TypedMessages : ToTyped(t) \in TypedArrays
  BY <1>1 DEF ToTyped, TypedMessages, TypedArrays
<1>3. \A l \in [LabelField -> Seq(Int)] : ToLabels(l) \in LabelStacks
  <2> SUFFICES ASSUME NEW l \in [LabelField -> Seq(Int)] PROVE ToLabels(l) \in LabelStacks
    OBVIOUS
  <2>1. PICK n \in Nat : n = Len(l.begins)
    BY LenProperties DEF LabelField
  <2>2. \A k \in LabelField : Copy(l[k], n) \in Seq(Int)
    BY CopyFacts
  <2>3. ToLabels(l) = [k \in LabelField \cup {"size"} |-> IF k = "size" THEN n ELSE Copy(l[k], n)]
    BY <2>1 DEF ToLabels
  <2> DEFINE r == ToLabels(l)
  <2>4. /\ r = [size |-> r.size, begins |-> r.begins, targets |-> r.targets,
                stack_pointers |-> r.stack_pointers, cell_nums |-> r.cell_nums]
        /\ r.size = n /\ \A k \in LabelField : r[k] = Copy(l[k], n)
    BY <2>3 DEF LabelField
  <2> HIDE DEF r
  <2>5. r \in LabelStacks
    BY <2>2, <2>4 DEF LabelStacks, LabelField
  <2> QED BY <2>5 DEF r
<1> QED BY <1>2, <1>3 DEF ToEntry, Messages, Frames

\* What was serialized is what comes back.
LEMMA StackRoundTrip ==
    ASSUME NEW cs, IsSeq(cs), \A i \in 1..Len(cs) : Sized(cs[i])
    PROVE  Deserialized(Serialized(cs)) = {cs}
<1> DEFINE w == Serialized(cs)
<1>1. IsSeq(w) /\ Len(w) = 2 * Len(cs) /\ Len(cs) \in Nat
      /\ \A i \in 1..2 * Len(cs) : w[i] = IF i % 2 = 1 THEN "entry" ELSE FromEntry(cs[i \div 2])
  BY SerializedFacts, SeqFacts
<1> HIDE DEF w
<1>2. PICK r : Deserialized(w) = {r}
  <2>1. Len(w) % 2 # 1
    BY <1>1
  <2> QED BY <2>1 DEF Deserialized
<1>3. IsSeq(r) /\ 2 * Len(r) = Len(w) /\ \A i \in 1..Len(r) : r[i] = ToEntry(w[2 * i])
  BY <1>1, <1>2, DeserializedFacts
<1>4. Len(r) = Len(cs)
  BY <1>1, <1>3, SeqFacts
<1>5. ASSUME NEW i \in 1..Len(cs) PROVE r[i] = cs[i]
  <2>1. 2 * i \in 1..2 * Len(cs) /\ (2 * i) % 2 # 1 /\ (2 * i) \div 2 = i
    BY <1>1
  <2>2. w[2 * i] = FromEntry(cs[i])
    BY <1>1, <2>1
  <2> QED BY <1>3, <1>4, <2>2, EntryMessage DEF Sized
<1>6. r = cs
  BY <1>3, <1>4, <1>5, SameSeq
<1> QED BY <1>2, <1>6 DEF w

-----------------------------------------------------------------------------
(* Typed frames *)

\* What the recursion of Sum says of the sums of the first sizes.
SumNext(F, sizes, i) == IF i = 0 THEN 0 ELSE F[i - 1] + sizes[i]
SumsUpto(F, sizes, n) == F = [i \in 0..n |-> SumNext(F, sizes, i)]

LEMMA SumsExist ==
    ASSUME NEW sizes, NEW n \in Nat
    PROVE  \E F : SumsUpto(F, sizes, n)
<1> DEFINE S == {d \in Nat : \E F : SumsUpto(F, sizes, d)}
<1>1. 0 \in S
  <2>1. SumsUpto([i \in 0..0 |-> 0], sizes, 0)
    BY DEF SumsUpto, SumNext
  <2> QED BY <2>1
<1>2. ASSUME NEW d \in Nat, d \in S PROVE d + 1 \in S
  <2>1. PICK F : SumsUpto(F, sizes, d)
    BY <1>2
  <2>2. \A i \in 0..d : F[i] = SumNext(F, sizes, i)
    BY <2>1, Zenon DEF SumsUpto
  <2> DEFINE G == [i \in 0..d + 1 |-> IF i = d + 1 THEN F[d] + sizes[d + 1] ELSE F[i]]
  <2>3. \A i \in 0..d : G[i] = F[i]
    OBVIOUS
  <2>4. G[d + 1] = F[d] + sizes[d + 1]
    OBVIOUS
  <2>5. G = [i \in 0..d + 1 |-> G[i]]
    OBVIOUS
  <2> HIDE DEF G
  <2>6. ASSUME NEW i \in 0..d + 1 PROVE G[i] = SumNext(G, sizes, i)
    <3>1. CASE i = 0
      BY <2>2, <2>3, <3>1 DEF SumNext
    <3>2. CASE i \in 1..d
      <4>1. i \in 0..d /\ i - 1 \in 0..d /\ i # 0
        BY <3>2
      <4> QED BY <2>2, <2>3, <4>1 DEF SumNext
    <3>3. CASE i = d + 1
      <4>1. d \in 0..d /\ i # 0 /\ i - 1 = d
        BY <3>3
      <4> QED BY <2>3, <2>4, <3>3, <4>1 DEF SumNext
    <3> QED BY <3>1, <3>2, <3>3
  <2>7. SumsUpto(G, sizes, d + 1)
    BY <2>5, <2>6, Zenon DEF SumsUpto
  <2> QED BY <2>7
<1>3. Nat \subseteq S
  <2> HIDE DEF S
  <2> QED BY <1>1, <1>2, SetInduction
<1> QED BY <1>3

LEMMA SumUnfolds ==
    ASSUME NEW sizes, Len(sizes) \in Nat
    PROVE  \E G : /\ Sum(sizes) = G[Len(sizes)]
                  /\ \A i \in 0..Len(sizes) : G[i] = SumNext(G, sizes, i)
<1> DEFINE G == CHOOSE F : SumsUpto(F, sizes, Len(sizes))
<1>1. Sum(sizes) = G[Len(sizes)]
  BY Zenon DEF Sum, SumsUpto, SumNext
<1>2. SumsUpto(G, sizes, Len(sizes))
  BY SumsExist
<1> HIDE DEF G
<1>3. \A i \in 0..Len(sizes) : G[i] = SumNext(G, sizes, i)
  BY <1>2, Zenon DEF SumsUpto
<1> QED BY <1>1, <1>3

LEMMA SumIsNat ==
    ASSUME NEW sizes \in Seq(Nat)
    PROVE  Sum(sizes) \in Nat
<1>1. Len(sizes) \in Nat /\ \A i \in 1..Len(sizes) : sizes[i] \in Nat
  BY LenProperties, ElementOfSeq
<1>2. PICK G : /\ Sum(sizes) = G[Len(sizes)]
               /\ \A i \in 0..Len(sizes) : G[i] = SumNext(G, sizes, i)
  BY <1>1, SumUnfolds
<1>4. \A i \in 0..Len(sizes) : G[i] = SumNext(G, sizes, i)
  BY <1>2
<1> DEFINE S == {d \in Nat : d <= Len(sizes) => G[d] \in Nat}
<1>5. 0 \in S
  BY <1>1, <1>4 DEF SumNext
<1>6. ASSUME NEW d \in Nat, d \in S PROVE d + 1 \in S
  <2> SUFFICES ASSUME d + 1 <= Len(sizes) PROVE G[d + 1] \in Nat
    OBVIOUS
  <2>1. PICK i \in 0..Len(sizes) : i = d + 1
    BY <1>1
  <2>2. i # 0 /\ i - 1 = d /\ i \in 1..Len(sizes) /\ G[d] \in Nat
    BY <1>1, <1>6, <2>1
  <2>3. G[i] = G[d] + sizes[i]
    BY <1>4, <2>2 DEF SumNext
  <2> QED BY <1>1, <2>1, <2>2, <2>3
<1>7. Nat \subseteq S
  <2> HIDE DEF S
  <2> QED BY <1>5, <1>6, SetInduction
<1> QED BY <1>1, <1>2, <1>7

LEMMA ArrayTyped ==
    ASSUME NEW n \in Nat, NEW s \in Seq(Int)
    PROVE  Array(n, s) \in Arrays
BY DEF Array, Arrays

\* A frame keeps its pc, labels and buffers, whatever types it is given.
LEMMA WithTypesShape ==
    ASSUME NEW t \in Tables, NEW f \in Frames, NEW pc, Known(t, pc[1], pc[2])
    PROVE  \E p \in Nat \X Nat, l \in LabelStacks, y \in Seq(Width), z \in Seq(Width),
              o \in Seq(Int), v \in Seq(Int) :
              WithTypes(t, f, pc) =
                 [pc |-> p,
                  locals |-> [types |-> Array(Len(y), y), values |-> Array(Sum(y), o)],
                  value_stack |-> [types |-> Array(Len(z), z), values |-> Array(Sum(z), v)],
                  label_stack |-> l]
<1>1. PICK p \in Nat \X Nat, o \in TypedArrays, v \in TypedArrays, l \in LabelStacks :
         f = [pc |-> p, locals |-> o, value_stack |-> v, label_stack |-> l]
  BY DEF Frames
<1>2. f.locals = o /\ f.value_stack = v
  BY <1>1
<1>3. o.values.contents \in Seq(Int) /\ v.values.contents \in Seq(Int)
  BY DEF TypedArrays, Arrays
<1> DEFINE locals == LocalTypes(t, pc[1])
           stack == StackTable(t, pc[1], pc[2])
           types == TypeStack(stack)
           to == [types |-> Array(Len(locals), locals),
                  values |-> Array(Sum(locals), o.values.contents)]
           tv == [types |-> Array(Len(types), types),
                  values |-> Array(Sum(types), v.values.contents)]
<1>4. locals \in Seq(Width) /\ stack \in Seq(Entry)
  BY TablesAssumption DEF Known, LocalTypes, StackTable
<1>5. types \in Seq(Width)
  <2> HIDE DEF stack
  <2>1. DOMAIN stack = 1..Len(stack) /\ Len(stack) \in Nat
    BY <1>4, LenProperties
  <2>2. \A i \in 1..Len(stack) : stack[i].ty \in Width
    <3>1. \A e \in Entry : e.ty \in Width
      BY DEF Entry
    <3>2. \A i \in 1..Len(stack) : stack[i] \in Entry
      BY <1>4, ElementOfSeq
    <3> QED BY <3>1, <3>2, Zenon
  <2>3. types \in [1..Len(stack) -> Width]
    BY <2>1, <2>2 DEF TypeStack
  <2> HIDE DEF types
  <2> QED BY <2>1, <2>3, SeqDef
<1>6. WithTypes(t, f, pc) = [f EXCEPT !.locals = to, !.value_stack = tv]
  BY <1>2, Zenon DEF WithTypes
<1>7. WithTypes(t, f, pc) = [pc |-> p, locals |-> to, value_stack |-> tv, label_stack |-> l]
  <2> HIDE DEF to, tv
  <2> QED BY <1>1, <1>6
<1> HIDE DEF locals, stack, types
<1> QED BY <1>3, <1>4, <1>5, <1>7

LEMMA WithTypesTyped ==
    ASSUME NEW t \in Tables, NEW f \in Frames, NEW pc, Known(t, pc[1], pc[2])
    PROVE  WithTypes(t, f, pc) \in Frames
<1>1. PICK p \in Nat \X Nat, l \in LabelStacks, y \in Seq(Width), z \in Seq(Width),
           o \in Seq(Int), v \in Seq(Int) :
         WithTypes(t, f, pc) =
            [pc |-> p,
             locals |-> [types |-> Array(Len(y), y), values |-> Array(Sum(y), o)],
             value_stack |-> [types |-> Array(Len(z), z), values |-> Array(Sum(z), v)],
             label_stack |-> l]
  BY WithTypesShape
<1>2. ASSUME NEW w \in Seq(Width)
      PROVE  w \in Seq(Int) /\ Len(w) \in Nat /\ Sum(w) \in Nat
  <2>1. Width \subseteq Nat /\ Width \subseteq Int
    BY DEF Width
  <2>2. w \in Seq(Nat) /\ w \in Seq(Int)
    BY <2>1, SeqMonotonic
  <2> QED BY <2>2, SumIsNat, LenProperties
<1>3. ASSUME NEW w \in Seq(Width), NEW s \in Seq(Int)
      PROVE  [types |-> Array(Len(w), w), values |-> Array(Sum(w), s)] \in TypedArrays
  BY <1>2, ArrayTyped DEF TypedArrays
<1> QED BY <1>1, <1>3 DEF Frames

-----------------------------------------------------------------------------
(* The inductive invariant *)

PcFiles == UNION {[1..n -> 0..Word - 1] : n \in 0..2}

\* The words of the first k frames of the program, typed by the table t.
TypedWords(t, k) ==
    [i \in 1..2 * k |-> IF i % 2 = 1 THEN "entry" ELSE FromEntry(TypedFrame(t, i \div 2))]

\* The first k frames are typed, all of them by the table in the cache.
TypedSoFar(k) ==
    /\ call.words = TypedWords(cache, k)
    /\ k \in 0..Len(program.stack) /\ (k > 0 => cache \in Tables)
    /\ \A i \in 1..k : Known(cache, TypedAt(i)[1], TypedAt(i)[2])

\* What a running call is to write, and where.
Source ==
    \/ call.image = "global" /\ call.via = "fresh" /\ call.words = Words("global")
    \/ /\ call.image \in Cached /\ call.via \in {"open", "gone"}
       /\ call.via = stream[call.image] /\ call.words = Words(call.image)
    \/ call.image = "stack" /\ call.via = "fresh" /\ TypedSoFar(Len(program.stack))

\* n words have left the buffer, and are the file so far.  Those of a pc leave
\* it all at once.
WrittenSoFar(n) ==
    /\ call.rest = After(call.words, n)
    /\ call.image = "pc" => n = 0
    /\ call.via # "gone" /\ call.image # "pc" => disk[call.image] = First(call.words, n)

\* The image of a call stack has a message in every second word.
Framed(words) ==
    IsSeq(words) /\ Len(words) <= 2 * MaxDepth
    /\ \A i \in 1..Len(words) : i % 2 # 1 => words[i] \in Messages

\* What a file may hold.
StackFile(file)  == file # None => \E n \in 0..Len(asked) : file = First(asked, n)
GlobalFile(file) ==
    file # None => \E g \in Global \cup {None}, n \in 0..2 : file = First(<<"globals", g>>, n)

\* What was saved is in the file.
Kept(n) ==
    \/ n \in Cached /\ stream[n] = "gone"
    \/ n = "stack" /\ WrongTable
    \/ disk[n] = Words(n)

CallOK ==
    call # None =>
        /\ call = [image |-> call.image, words |-> call.words, rest |-> call.rest, via |-> call.via]
        /\ call.image \notin saved
TypingOK == Typing => call.image = "stack" /\ \E k \in Nat : TypedSoFar(k)
WritingOK ==
    Writing =>
        /\ Source /\ IsSeq(call.words)
        /\ \E n \in 0..Len(call.words) : WrittenSoFar(n)
        /\ call.via # "gone" /\ call.image = "stack" => asked = call.words
FilesOK ==
    /\ disk = [n \in Image |-> disk[n]]
    /\ stream["pc"] = "open" => disk["pc"] \in PcFiles
    /\ Framed(asked) /\ StackFile(disk["stack"]) /\ GlobalFile(disk["global"])
SavedOK ==
    /\ program = None => saved = {}
    /\ \A n \in saved \ lost : Kept(n)

PInv == TypeOK /\ CallOK /\ TypingOK /\ WritingOK /\ FilesOK /\ SavedOK

LEMMA EmptyFacts == IsSeq(<<>>) /\ Len(<<>>) = 0 /\ Framed(<<>>)
<1>1. IsSeq(<<>>) /\ Len(<<>>) = 0
  BY EmptySeq DEF IsSeq
<1>2. 1..0 = {}
  OBVIOUS
<1> QED BY <1>1, <1>2, ImagesAssumption DEF Framed

LEMMA InitInv == Init => PInv
<1> SUFFICES ASSUME Init PROVE PInv
  OBVIOUS
<1>1. TypeOK
  BY ImagesAssumption DEF Init, TypeOK, Image, Cached
<1>2. CallOK /\ TypingOK /\ WritingOK
  BY DEF Init, CallOK, TypingOK, WritingOK, Typing, Writing
<1>3. FilesOK
  BY EmptyFacts DEF Init, FilesOK, Image, StackFile, GlobalFile, Cached
<1>4. SavedOK
  BY DEF Init, SavedOK
<1> QED BY <1>1, <1>2, <1>3, <1>4 DEF PInv

-----------------------------------------------------------------------------
(* What is written *)

LEMMA ProgramFacts ==
    ASSUME TypeOK, program # None
    PROVE  /\ program.pc \in (0..Word - 1) \X (0..2 * Word - 1)
           /\ program.global \in Global \cup {None}
           /\ program.stack \in Seq(Frames) /\ IsSeq(program.stack)
           /\ Len(program.stack) \in Nat /\ Len(program.stack) <= MaxDepth
<1>1. program \in Programs /\ Len(program.stack) <= MaxDepth
  BY DEF TypeOK
<1>2. program.stack \in Seq(Frames)
  BY <1>1 DEF Programs
<1> QED BY <1>1, <1>2, LenProperties DEF Programs, IsSeq

\* A word is less than Word.
LEMMA LowerHalf ==
    ASSUME NEW n \in Nat
    PROVE  n % Word \in 0..Word - 1
BY TablesAssumption

LEMMA PairSeq ==
    ASSUME NEW S, NEW a \in S, NEW b \in S
    PROVE  <<a, b>> \in Seq(S) /\ Len(<<a, b>>) = 2
OBVIOUS

LEMMA WordsFacts ==
    ASSUME TypeOK, program # None
    PROVE  /\ Words("pc") \in [1..2 -> 0..Word - 1] /\ Len(Words("pc")) = 2
           /\ Words("global") = <<"globals", program.global>> /\ Len(Words("global")) = 2
           /\ Words("stack") = Serialized(program.stack) /\ Framed(Words("stack"))
           /\ \A n \in Image : IsSeq(Words(n))
<1>1. /\ program.pc[1] \in 0..Word - 1 /\ program.pc[2] % Word \in 0..Word - 1
  <2>1. program.pc[1] \in 0..Word - 1 /\ program.pc[2] \in Nat
    BY ProgramFacts
  <2> QED BY <2>1, LowerHalf
<1>2. Words("pc") = <<program.pc[1], program.pc[2] % Word>>
  BY DEF Words
<1>3. Words("pc") \in [1..2 -> 0..Word - 1] /\ Len(Words("pc")) = 2 /\ IsSeq(Words("pc"))
  <2>1. Words("pc") \in Seq(0..Word - 1) /\ Len(Words("pc")) = 2
    BY <1>1, <1>2, PairSeq
  <2> QED BY <2>1, LenProperties DEF IsSeq
<1>4. Words("global") = <<"globals", program.global>>
  BY DEF Words
<1>5. Len(Words("global")) = 2 /\ IsSeq(Words("global"))
  <2>1. Words("global") \in Seq({"globals", program.global})
    BY <1>4, PairSeq
  <2> QED BY <1>4, <2>1 DEF IsSeq
<1>6. Words("stack") = Serialized(program.stack)
  BY DEF Words
<1>7. Framed(Words("stack"))
  <2> DEFINE s == program.stack
             w == Serialized(s)
  <2>1. s \in Seq(Frames) /\ IsSeq(s) /\ Len(s) \in Nat /\ Len(s) <= MaxDepth
    BY ProgramFacts
  <2> HIDE DEF s
  <2>2. IsSeq(w) /\ Len(w) = 2 * Len(s)
        /\ \A i \in 1..2 * Len(s) : w[i] = IF i % 2 = 1 THEN "entry" ELSE FromEntry(s[i \div 2])
    BY <2>1, SerializedFacts
  <2> HIDE DEF w
  <2>3. ASSUME NEW i \in 1..Len(w), i % 2 # 1 PROVE w[i] \in Messages
    <3>1. i \div 2 \in 1..Len(s) /\ i \in 1..2 * Len(s)
      BY <2>1, <2>2, <2>3
    <3>2. s[i \div 2] \in Frames
      BY <2>1, <3>1, ElementOfSeq
    <3> QED BY <2>2, <2>3, <3>1, <3>2, EntryMessage
  <2>4. Len(w) <= 2 * MaxDepth
    BY <2>1, <2>2, ImagesAssumption
  <2>5. Framed(w)
    BY <2>2, <2>3, <2>4 DEF Framed
  <2> QED BY <1>6, <2>5 DEF w, s
<1> QED BY <1>3, <1>4, <1>5, <1>6, <1>7 DEF Image, Framed

\* So are the frames that were typed.
LEMMA TypedFacts ==
    ASSUME TypeOK, program # None, NEW k \in Nat, TypedSoFar(k)
    PROVE  /\ Framed(call.words) /\ Len(call.words) = 2 * k
           /\ \A i \in 1..2 * k :
                 call.words[i] = IF i % 2 = 1 THEN "entry" ELSE FromEntry(TypedFrame(cache, i \div 2))
<1> DEFINE w == call.words
<1>1. w = [i \in 1..2 * k |-> IF i % 2 = 1 THEN "entry" ELSE FromEntry(TypedFrame(cache, i \div 2))]
      /\ k \in 0..Len(program.stack)
  BY DEF TypedSoFar, TypedWords
<1> HIDE DEF w
<1>2. w = [i \in 1..2 * k |-> w[i]]
  BY <1>1
<1>3. 2 * k \in Nat
  OBVIOUS
<1>4. IsSeq(w) /\ Len(w) = 2 * k
  BY <1>2, <1>3, FunctionIsSeq
<1>5. \A i \in 1..2 * k : w[i] = IF i % 2 = 1 THEN "entry" ELSE FromEntry(TypedFrame(cache, i \div 2))
  BY <1>1
<1>6. ASSUME NEW i \in 1..2 * k, i % 2 # 1 PROVE w[i] \in Messages
  <2>1. PICK j \in 1..k : j = i \div 2
    BY <1>6
  <2>2. cache \in Tables /\ Known(cache, TypedAt(j)[1], TypedAt(j)[2])
    BY <2>1 DEF TypedSoFar
  <2>3. program.stack[j] \in Frames
    <3>1. j \in 1..Len(program.stack)
      BY <1>1, <2>1, ProgramFacts
    <3> QED BY <3>1, ProgramFacts, ElementOfSeq
  <2>4. TypedFrame(cache, j) \in Frames
    BY <2>2, <2>3, WithTypesTyped DEF TypedFrame
  <2>5. w[i] = FromEntry(TypedFrame(cache, j))
    BY <1>5, <1>6, <2>1
  <2> QED BY <2>4, <2>5, EntryMessage
<1>7. Len(w) <= 2 * MaxDepth
  BY <1>1, <1>4, ProgramFacts, ImagesAssumption
<1>8. Framed(w)
  BY <1>4, <1>6, <1>7 DEF Framed
<1> QED BY <1>4, <1>5, <1>8 DEF w

-----------------------------------------------------------------------------
(* The steps of the process and of its host *)

LEMMA KeptStays ==
    ASSUME NEW n, Kept(n), UNCHANGED program, disk'[n] = disk[n],
           n \in Cached /\ stream[n] = "gone" => stream'[n] = "gone",
           cache' = cache \/ cache = None
    PROVE  Kept(n)'
<1>1. CASE n \in Cached /\ stream[n] = "gone"
  BY <1>1 DEF Kept
<1>2. CASE n = "stack" /\ WrongTable
  BY <1>2 DEF Kept, WrongTable
<1>3. CASE disk[n] = Words(n)
  <2>1. Words(n)' = Words(n)
    BY DEF Words
  <2> QED BY <1>3, <2>1 DEF Kept
<1> QED BY <1>1, <1>2, <1>3 DEF Kept

\* The call stacks of the program.
LEMMA StacksFacts ==
    ASSUME NEW s \in Stacks
    PROVE  /\ s \in Seq(Frames) /\ Len(s) <= MaxDepth
           /\ \A i \in 1..Len(s) : s[i] \in IF i = Len(s) THEN Tops ELSE Callers
<1>1. Callers \subseteq Frames /\ Tops \subseteq Frames
  <2>1. \A top \in BOOLEAN : \A f \in IF top THEN Tops ELSE Callers : Sized(f)
    BY FramesAssumption
  <2>2. (\A f \in Tops : Sized(f)) /\ \A f \in Callers : Sized(f)
    BY <2>1
  <2> QED BY <2>2 DEF Sized
<1>2. CASE s = <<>>
  BY <1>2, ImagesAssumption
<1>3. ASSUME NEW n \in 0..MaxDepth - 1, NEW callers \in [1..n -> Callers], NEW top \in Tops,
             s = Append(callers, top)
      PROVE  /\ s \in Seq(Frames) /\ Len(s) <= MaxDepth
             /\ \A i \in 1..Len(s) : s[i] \in IF i = Len(s) THEN Tops ELSE Callers
  <2>1. n \in Nat
    BY ImagesAssumption
  <2>2. callers \in Seq(Callers)
    BY <2>1, SeqDef
  <2>3. callers \in Seq(Frames) /\ top \in Frames
    BY <1>1, <2>2, SeqMonotonic
  <2>4. Len(callers) = n
    BY <2>1, <2>2, LenProperties
  <2>5. /\ s \in Seq(Frames) /\ Len(s) = n + 1 /\ s[n + 1] = top
        /\ \A i \in 1..n : s[i] = callers[i]
    BY <1>3, <2>3, <2>4, AppendProperties
  <2>6. \A i \in 1..n : callers[i] \in Callers
    OBVIOUS
  <2> QED BY <2>1, <2>5, <2>6, ImagesAssumption
<1> QED BY <1>2, <1>3 DEF Stacks

\* What a restore may bring back is a state of a program.
LEMMA RestoredTyped ==
    ASSUME TypeOK, FilesOK,
           NEW p \in [pc: RestoredPc(disk["pc"]), global: RestoredGlobals(disk["global"]),
                      stack: RestoredStack(disk["stack"])]
    PROVE  p \in Programs /\ Len(p.stack) <= MaxDepth
<1>1. p.pc \in (0..Word - 1) \X (0..2 * Word - 1)
  <2>1. p.pc \in RestoredPc(disk["pc"])
    OBVIOUS
  <2>2. CASE disk["pc"] = None
    BY <2>1, <2>2, TablesAssumption DEF RestoredPc
  <2>3. CASE disk["pc"] # None
    <3> DEFINE file == disk["pc"]
               Read(i) == IF i <= Len(file) THEN {file[i]} ELSE 0..Word - 1
    <3>1. PICK n \in 0..2 : file \in [1..n -> 0..Word - 1]
      BY <2>3 DEF TypeOK
    <3>2. Len(file) = n
      BY <3>1
    <3>3. Read(1) \subseteq 0..Word - 1 /\ Read(2) \subseteq 0..Word - 1
      BY <3>1, <3>2
    <3>4. p.pc \in {<<f, o + Word * high>> : f \in Read(1), o \in Read(2), high \in 0..1}
      BY <2>1, <2>3 DEF RestoredPc
    <3> HIDE DEF Read
    <3>5. PICK f \in Read(1), o \in Read(2), high \in 0..1 : p.pc = <<f, o + Word * high>>
      BY <3>4
    <3>6. Word * high = 0 \/ Word * high = Word
      BY TablesAssumption
    <3>7. o + Word * high \in 0..2 * Word - 1
      BY <3>3, <3>6, TablesAssumption
    <3> QED BY <3>3, <3>5, <3>7
  <2> QED BY <2>2, <2>3
<1>2. p.global \in Global \cup {None}
  <2>1. p.global \in RestoredGlobals(disk["global"])
    OBVIOUS
  <2>2. CASE disk["global"] = None
    BY <2>1, <2>2 DEF RestoredGlobals
  <2>3. CASE disk["global"] # None
    <3>1. PICK g \in Global \cup {None}, n \in 0..2 : disk["global"] = First(<<"globals", g>>, n)
      BY <2>3 DEF FilesOK, GlobalFile
    <3> DEFINE words == <<"globals", g>>
    <3>2. IsSeq(words) /\ Len(words) = 2 /\ words[2] = g
      <4>1. words \in Seq({"globals", g})
        BY PairSeq
      <4> QED BY <4>1 DEF IsSeq
    <3>6. disk["global"] = First(words, n)
      BY <3>1
    <3> HIDE DEF words
    <3>3. Len(disk["global"]) = n /\ \A i \in 1..n : disk["global"][i] = words[i]
      <4>1. n \in 0..Len(words)
        BY <3>2
      <4>2. Len(First(words, n)) = n /\ \A i \in 1..n : First(words, n)[i] = words[i]
        BY <3>2, <4>1, FirstFacts
      <4> QED BY <3>6, <4>2
    <3>4. CASE n < 2
      BY <2>1, <2>3, <3>3, <3>4 DEF RestoredGlobals
    <3>5. CASE n = 2
      BY <2>1, <2>3, <3>2, <3>3, <3>5 DEF RestoredGlobals
    <3> QED BY <3>4, <3>5
  <2> QED BY <2>2, <2>3
<1>3. p.stack \in Seq(Frames) /\ Len(p.stack) <= MaxDepth
  <2> DEFINE s == p.stack
  <2>1. s \in RestoredStack(disk["stack"])
    OBVIOUS
  <2> HIDE DEF s
  <2>2. CASE disk["stack"] = None
    <3>1. s = <<>>
      BY <2>1, <2>2 DEF RestoredStack
    <3> QED BY <3>1, ImagesAssumption DEF s
  <2>3. CASE disk["stack"] # None
    <3> DEFINE words == disk["stack"]
    <3>1. Framed(asked) /\ IsSeq(asked) /\ Len(asked) \in Nat
      BY SeqFacts DEF FilesOK, Framed
    <3>2. PICK n \in 0..Len(asked) : words = First(asked, n)
      BY <2>3 DEF FilesOK, StackFile
    <3>3. IsSeq(words) /\ Len(words) = n /\ \A i \in 1..n : words[i] = asked[i]
      BY <3>1, <3>2, FirstFacts
    <3>4. s \in Deserialized(words)
      BY <2>1, <2>3 DEF RestoredStack
    <3> HIDE DEF words
    <3>5. IsSeq(s) /\ 2 * Len(s) = n /\ \A i \in 1..Len(s) : s[i] = ToEntry(words[2 * i])
      BY <3>3, <3>4, DeserializedFacts
    <3>6. Len(s) \in Nat /\ DOMAIN s = 1..Len(s)
      BY <3>5, SeqFacts
    <3>7. ASSUME NEW i \in 1..Len(s) PROVE s[i] \in Frames
      <4>1. 2 * i \in 1..n /\ 2 * i \in 1..Len(asked) /\ (2 * i) % 2 # 1
        BY <3>1, <3>5, <3>6
      <4>2. words[2 * i] \in Messages
        BY <3>1, <3>3, <4>1 DEF Framed
      <4> QED BY <3>5, <4>2, MessageEntry
    <3>8. s \in Seq(Frames)
      <4>1. PICK S : s \in Seq(S)
        BY <3>5 DEF IsSeq
      <4>2. s \in [1..Len(s) -> S]
        BY <4>1, LenProperties
      <4>3. s \in [1..Len(s) -> Frames]
        BY <3>7, <4>2
      <4> QED BY <3>6, <4>3, SeqDef
    <3>9. Len(s) <= MaxDepth
      BY <3>1, <3>5, <3>6, ImagesAssumption DEF Framed
    <3> QED BY <3>8, <3>9 DEF s
  <2> QED BY <2>2, <2>3
<1> QED BY <1>1, <1>2, <1>3 DEF Programs

LEMMA BootStep == ASSUME PInv, Boot \/ Resume PROVE PInv'
<1>1. /\ program = None /\ call = None /\ cache = None /\ saved = {}
      /\ UNCHANGED <<disk, stream, call, tables, saved, lost, asked>>
  BY DEF PInv, TypeOK, SavedOK, Boot, Resume
<1>2. program' \in Programs /\ Len(program'.stack) <= MaxDepth
  <2>1. CASE Boot
    <3>1. <<0, 0>> \in (0..Word - 1) \X (0..2 * Word - 1)
      BY TablesAssumption
    <3>2. PICK g \in Global : program' = [pc |-> <<0, 0>>, global |-> g, stack |-> <<>>]
      BY <2>1 DEF Boot
    <3>3. <<>> \in Seq(Frames) /\ Len(<<>>) <= MaxDepth
      BY ImagesAssumption
    <3> QED BY <3>1, <3>2, <3>3 DEF Programs
  <2>2. CASE Resume
    BY <2>2, RestoredTyped DEF Resume, PInv
  <2> QED BY <2>1, <2>2
<1>3. TypeOK'
  BY <1>1, <1>2 DEF PInv, TypeOK, tables
<1>4. CallOK' /\ TypingOK' /\ WritingOK'
  BY <1>1 DEF CallOK, TypingOK, WritingOK, Typing, Writing
<1>5. FilesOK'
  BY <1>1 DEF PInv, FilesOK, StackFile, GlobalFile
<1>6. SavedOK'
  BY <1>1 DEF SavedOK
<1> QED BY <1>3, <1>4, <1>5, <1>6 DEF PInv

LEMMA RunStep == ASSUME PInv, Run PROVE PInv'
<1>1. /\ program # None /\ call = None /\ saved' = {}
      /\ UNCHANGED <<disk, stream, call, tables, lost, asked>>
  BY DEF Run, Idle
<1>2. program' \in Programs /\ Len(program'.stack) <= MaxDepth
  <2> DEFINE New(n) == IF n \in host THEN Values[n] ELSE {program[n]}
  <2>1. program' \in [pc: New("pc"), global: New("global"), stack: New("stack")]
    BY DEF Run
  <2>2. /\ New("pc") \subseteq (0..Word - 1) \X (0..2 * Word - 1)
        /\ New("global") \subseteq Global \cup {None}
        /\ \A s \in New("stack") : s \in Seq(Frames) /\ Len(s) <= MaxDepth
    <3>1. Values["pc"] \subseteq (0..Word - 1) \X (0..2 * Word - 1)
      BY TablesAssumption DEF Values
    <3>2. Values["global"] = Global /\ Values["stack"] = Stacks
      BY DEF Values
    <3>3. TypeOK
      BY DEF PInv
    <3> QED BY <1>1, <3>1, <3>2, <3>3, ProgramFacts, StacksFacts
  <2> HIDE DEF New
  <2> QED BY <2>1, <2>2 DEF Programs
<1>3. program' # None
  BY <1>2, NoneAssumption
<1>4. TypeOK'
  BY <1>1, <1>2, <1>3 DEF PInv, TypeOK, tables
<1>5. CallOK' /\ TypingOK' /\ WritingOK'
  BY <1>1 DEF CallOK, TypingOK, WritingOK, Typing, Writing
<1>6. FilesOK'
  BY <1>1 DEF PInv, FilesOK, StackFile, GlobalFile
<1>7. SavedOK'
  BY <1>1 DEF SavedOK
<1> QED BY <1>4, <1>5, <1>6, <1>7 DEF PInv

LEMMA HostStep == ASSUME PInv, Die \/ TakeAway PROVE PInv'
<1>1. call' = None /\ saved' = {} /\ UNCHANGED <<tableFile, host, asked>>
  <2>1. TakeAway => call = None /\ call' = call
    BY DEF PInv, TypeOK, TakeAway, Idle
  <2> QED BY <2>1 DEF Die, TakeAway, tables
<1>2. TypeOK'
  <2>1. CASE Die
    BY <1>1, <2>1 DEF PInv, TypeOK, Die, Cached
  <2>2. CASE TakeAway
    <3>1. /\ disk' = [n \in Image |-> None] /\ UNCHANGED <<program, cache>> /\ lost' = {}
          /\ stream' = [n \in Cached |-> IF stream[n] = "open" THEN "gone" ELSE stream[n]]
      BY <2>2 DEF TakeAway, tables
    <3>2. \A n \in Image : disk'[n] = None
      BY <3>1
    <3>3. stream' \in [Cached -> {"closed", "open", "gone"}]
      BY <3>1 DEF PInv, TypeOK
    <3>4. program' = None => stream' = [n \in Cached |-> "closed"] /\ cache' = None
      BY <3>1 DEF PInv, TypeOK
    <3> QED BY <1>1, <3>1, <3>2, <3>3, <3>4 DEF PInv, TypeOK, Image
  <2> QED BY <2>1, <2>2
<1>3. CallOK' /\ TypingOK' /\ WritingOK'
  BY <1>1 DEF CallOK, TypingOK, WritingOK, Typing, Writing
<1>4. FilesOK'
  <2>1. stream'["pc"] # "open"
    BY DEF Die, TakeAway, Cached
  <2>2. Framed(asked)'
    BY <1>1 DEF PInv, FilesOK, Framed
  <2>3. CASE Die
    BY <1>1, <2>1, <2>2, <2>3 DEF PInv, FilesOK, StackFile, GlobalFile, Die
  <2>4. CASE TakeAway
    BY <1>1, <2>1, <2>2, <2>4 DEF PInv, FilesOK, StackFile, GlobalFile, TakeAway, Image
  <2> QED BY <2>3, <2>4
<1>5. SavedOK'
  BY <1>1 DEF SavedOK
<1> QED BY <1>2, <1>3, <1>4, <1>5 DEF PInv

\* The table that a call uses is one that a compiler wrote.
LEMMA TableFacts == ASSUME TypeOK, Table # None PROVE Table \in Tables
BY DEF TypeOK, Table

LEMMA TableStep == ASSUME PInv, Recompile \/ LoadTables PROVE PInv'
<1>1. /\ UNCHANGED <<program, disk, stream, call, host, saved, lost, asked>>
      /\ LoadTables => call = None /\ program # None
      /\ cache' = cache \/ cache = None
      /\ Recompile => cache' = cache
  BY DEF Recompile, LoadTables, Idle, Table
<1>2. TypeOK'
  <2>1. tableFile' \in Tables \cup {None} /\ cache' \in Tables \cup {None}
    <3>1. CASE Recompile
      BY <3>1 DEF Recompile, PInv, TypeOK
    <3>2. CASE LoadTables
      BY <3>2, TableFacts DEF LoadTables, PInv, TypeOK
    <3> QED BY <3>1, <3>2
  <2>2. program = None => cache' = None
    BY <1>1 DEF PInv, TypeOK
  <2> QED BY <1>1, <2>1, <2>2 DEF PInv, TypeOK
<1>3. CallOK'
  BY <1>1 DEF PInv, CallOK
<1>4. TypingOK' /\ WritingOK'
  <2>1. CASE LoadTables
    BY <1>1, <2>1 DEF TypingOK, WritingOK, Typing, Writing
  <2>2. CASE Recompile
    <3>1. /\ Typing' = Typing /\ Writing' = Writing /\ Source' = Source
          /\ \A k \in Nat : TypedSoFar(k)' = TypedSoFar(k)
          /\ \A n : WrittenSoFar(n)' = WrittenSoFar(n)
      BY <1>1, <2>2 DEF Typing, Writing, Source, TypedSoFar, WrittenSoFar, TypedWords, TypedFrame, TypedAt, Words
    <3> QED BY <1>1, <3>1 DEF PInv, TypingOK, WritingOK
  <2> QED BY <2>1, <2>2
<1>5. FilesOK'
  BY <1>1 DEF PInv, FilesOK, StackFile, GlobalFile
<1>6. SavedOK'
  <2>1. \A n \in saved \ lost : Kept(n)'
    BY <1>1, KeptStays DEF PInv, SavedOK
  <2> QED BY <1>1, <2>1 DEF PInv, SavedOK
<1> QED BY <1>2, <1>3, <1>4, <1>5, <1>6 DEF PInv

-----------------------------------------------------------------------------
(* The steps that begin to write *)

\* A file is emptied and a call begins to write into it; or a call rewinds
\* the file of a pc, or writes where nobody reads.
LEMMA Begun ==
    ASSUME PInv, program # None, NEW n \in Image, NEW via \in {"fresh", "open", "gone"}, NEW w,
           IsSeq(w), n = "stack" => Framed(w),
           \/ call' = [image |-> n, words |-> w, rest |-> w, via |-> via] /\ Source'
           \/ call' = None,
           saved' = saved \ {n}, UNCHANGED <<program, tables>>,
           stream' \in [Cached -> {"closed", "open", "gone"}],
           \A m \in Cached \ {n} : stream'[m] = stream[m],
           \/ Emptied(n, w)
           \/ /\ UNCHANGED <<disk, stream, lost, asked>>
              /\ n = "pc" \/ via = "gone"
    PROVE  PInv'
<1>1. /\ UNCHANGED <<tableFile, cache, host>> /\ disk' = [m \in Image |-> disk'[m]]
      /\ disk = [m \in Image |-> disk[m]]
      /\ \A m \in Image \ {n} : disk'[m] = disk[m]
      /\ disk'[n] = <<>> \/ (disk' = disk /\ stream' = stream)
  <2>1. disk = [m \in Image |-> disk[m]] /\ UNCHANGED <<tableFile, cache, host>>
    BY DEF PInv, FilesOK, tables
  <2>2. CASE Emptied(n, w)
    BY <2>1, <2>2 DEF Emptied
  <2>3. CASE UNCHANGED <<disk, stream>>
    BY <2>1, <2>3
  <2> QED BY <2>1, <2>2, <2>3
<1>2. <<>> \in PcFiles /\ First(w, 0) = <<>> /\ After(w, 0) = w /\ Len(w) \in Nat
  <2>1. <<>> \in [1..0 -> 0..Word - 1]
    OBVIOUS
  <2> QED BY <2>1, WholeSeq, SeqFacts DEF PcFiles
<1>3. lost' \subseteq Image /\ saved' \subseteq Image /\ \A m \in saved' \ lost' : m \in saved \ lost /\ m # n
  BY DEF PInv, TypeOK, Emptied
<1>4. TypeOK'
  <2>1. disk'["pc"] = None \/ disk'["pc"] \in PcFiles
    BY <1>1, <1>2 DEF PInv, TypeOK, PcFiles, Image
  <2>2. \A m \in {"global", "stack"} : disk'[m] = None \/ Len(disk'[m]) \in 0..2 * MaxDepth + 2
    <3>1. Len(<<>>) \in 0..2 * MaxDepth + 2
      BY ImagesAssumption
    <3>2. \A m \in {"global", "stack"} : m \in Image
      BY DEF Image
    <3> QED BY <1>1, <3>1, <3>2 DEF PInv, TypeOK
  <2>3. call' = None
        \/ (call'.image \in Image /\ call'.via \in {"fresh", "open", "gone", "typing"})
    OBVIOUS
  <2> QED BY <1>1, <1>3, <2>1, <2>2, <2>3 DEF PInv, TypeOK, PcFiles
<1>5. CallOK'
  BY DEF CallOK
<1>6. TypingOK'
  BY DEF TypingOK, Typing
<1>7. WritingOK'
  <2> SUFFICES ASSUME call' # None PROVE WritingOK'
    BY DEF WritingOK, Writing
  <2>1. call'.via # "gone" /\ n # "pc" => Emptied(n, w)
    OBVIOUS
  <2>2. WrittenSoFar(0)'
    <3>1. call'.via # "gone" /\ n # "pc" => disk'[n] = <<>>
      BY <1>1, <2>1 DEF Emptied
    <3> QED BY <1>2, <3>1 DEF WrittenSoFar
  <2>3. call'.via # "gone" /\ n = "stack" => asked' = w
    BY <2>1 DEF Emptied
  <2>4. 0 \in 0..Len(w)
    BY <1>2
  <2> QED BY <2>2, <2>3, <2>4 DEF WritingOK
<1>8. FilesOK'
  <2>1. stream'["pc"] = "open" => disk'["pc"] \in PcFiles
    <3>1. CASE n = "pc"
      BY <1>1, <1>2, <3>1 DEF PInv, FilesOK
    <3>2. CASE n # "pc"
      <4>1. "pc" \in Image \ {n} /\ "pc" \in Cached \ {n}
        BY <3>2 DEF Image, Cached
      <4>2. disk'["pc"] = disk["pc"] /\ stream'["pc"] = stream["pc"]
        BY <1>1, <4>1
      <4> QED BY <4>2 DEF PInv, FilesOK
    <3> QED BY <3>1, <3>2
  <2>2. Framed(asked)' /\ StackFile(disk["stack"])'
    <3>1. CASE UNCHANGED <<disk["stack"], asked>>
      BY <3>1 DEF PInv, FilesOK, StackFile
    <3>2. CASE n = "stack" /\ Emptied(n, w)
      <4>1. asked' = w /\ disk'["stack"] = <<>>
        BY <1>1, <3>2 DEF Emptied, Image
      <4>2. \E m \in 0..Len(w) : disk'["stack"] = First(w, m)
        <5>1. 0 \in 0..Len(w)
          BY <1>2
        <5> QED BY <1>2, <4>1, <5>1
      <4> QED BY <3>2, <4>1, <4>2 DEF StackFile
    <3>3. n # "stack" => UNCHANGED <<disk["stack"], asked>>
      BY <1>1 DEF Emptied, Image
    <3> QED BY <3>1, <3>2, <3>3
  <2>3. GlobalFile(disk["global"])'
    <3>1. CASE disk'["global"] = disk["global"]
      BY <3>1 DEF PInv, FilesOK, GlobalFile
    <3>2. CASE disk'["global"] = <<>>
      <4>1. First(<<"globals", None>>, 0) = <<>>
        BY SubSeqEmpty DEF First
      <4>2. 0 \in 0..2 /\ None \in Global \cup {None} /\ disk'["global"] = First(<<"globals", None>>, 0)
        BY <3>2, <4>1
      <4>3. \E g \in Global \cup {None}, m \in 0..2 : disk'["global"] = First(<<"globals", g>>, m)
        BY <4>2, Zenon
      <4> QED BY <4>3, Zenon DEF GlobalFile
    <3>3. "global" \in Image
      BY DEF Image
    <3> QED BY <1>1, <3>1, <3>2, <3>3
  <2> QED BY <1>1, <2>1, <2>2, <2>3 DEF FilesOK
<1>9. SavedOK'
  <2>1. ASSUME NEW m \in saved' \ lost' PROVE Kept(m)'
    <3>1. m \in Image \ {n} /\ Kept(m)
      BY <1>3 DEF PInv, SavedOK, TypeOK
    <3>2. m \in Cached => stream'[m] = stream[m]
      BY <3>1
    <3> QED BY <1>1, <3>1, <3>2, KeptStays
  <2> QED BY <2>1 DEF SavedOK
<1> QED BY <1>4, <1>5, <1>6, <1>7, <1>8, <1>9 DEF PInv

LEMMA SameWords == UNCHANGED program => \A n \in Image : Words(n)' = Words(n)
BY DEF Words

LEMMA StartGlobalStep == ASSUME PInv, StartGlobal PROVE PInv'
<1>1. program # None /\ UNCHANGED <<program, stream, tables>> /\ "global" \in Image
  BY DEF StartGlobal, Idle, Image
<1>2. TypeOK
  BY DEF PInv
<1>3. IsSeq(Words("global"))
  BY <1>1, <1>2, WordsFacts
<1> DEFINE w == Words("global")
<1>4. call' = [image |-> "global", words |-> w, rest |-> w, via |-> "fresh"]
      /\ saved' = saved \ {"global"} /\ Emptied("global", w)
  BY DEF StartGlobal, Begin
<1>5. Source'
  BY <1>1, <1>4, SameWords DEF Source
<1> HIDE DEF w
<1>6. stream' \in [Cached -> {"closed", "open", "gone"}]
  BY <1>1, <1>2 DEF TypeOK
<1> QED BY <1>1, <1>3, <1>4, <1>5, <1>6, Begun DEF w

LEMMA StartCachedStep == ASSUME PInv, NEW n \in Cached, StartCached(n) PROVE PInv'
<1>1. program # None /\ call = None /\ UNCHANGED <<program, tables>> /\ n \in Image
  BY DEF StartCached, Idle, Image, Cached
<1>2. TypeOK
  BY DEF PInv
<1> DEFINE w == Words(n)
<1>3. IsSeq(w) /\ (n = "stack" => Framed(w))
  BY <1>1, <1>2, WordsFacts
<1>4. /\ call' = [image |-> n, words |-> w, rest |-> w, via |-> "open"] \/ call' = None
      /\ saved' = saved \ {n} /\ Emptied(n, w)
      /\ stream' = [stream EXCEPT ![n] = "open"]
  BY <1>1 DEF StartCached, Begin
<1>5. stream' \in [Cached -> {"closed", "open", "gone"}] /\ stream'[n] = "open"
      /\ \A m \in Cached \ {n} : stream'[m] = stream[m]
  BY <1>2, <1>4 DEF TypeOK
<1>6. ASSUME call' = [image |-> n, words |-> w, rest |-> w, via |-> "open"]
      PROVE  Source'
  BY <1>1, <1>5, <1>6, SameWords DEF Source
<1> HIDE DEF w
<1> QED BY <1>1, <1>3, <1>4, <1>5, <1>6, Begun

LEMMA RewindStep == ASSUME PInv, RewindPc \/ TruncateStack PROVE PInv'
<1>1. program # None /\ UNCHANGED <<program, stream, tables>>
  BY DEF RewindPc, TruncateStack, Idle
<1>2. TypeOK /\ stream \in [Cached -> {"closed", "open", "gone"}]
  BY DEF PInv, TypeOK
<1>3. ASSUME NEW n \in Cached, NEW via, via = stream[n], via # "closed", Begin(n, via),
             Emptied(n, Words(n))
             \/ (UNCHANGED <<disk, lost, asked>> /\ (n = "pc" \/ via = "gone"))
      PROVE  PInv'
  <2> DEFINE w == Words(n)
  <2>1. n \in Image /\ via \in {"fresh", "open", "gone"} /\ via \in {"open", "gone"}
    BY <1>2, <1>3 DEF Cached, Image
  <2>2. IsSeq(w) /\ (n = "stack" => Framed(w))
    BY <1>1, <1>2, <2>1, WordsFacts
  <2>3. call' = [image |-> n, words |-> w, rest |-> w, via |-> via] /\ saved' = saved \ {n}
    BY <1>3 DEF Begin
  <2>4. Source'
    BY <1>1, <1>3, <2>1, <2>3, SameWords DEF Source
  <2>5. Emptied(n, w) \/ (UNCHANGED <<disk, stream, lost, asked>> /\ (n = "pc" \/ via = "gone"))
    BY <1>1, <1>3
  <2> HIDE DEF w
  <2> QED BY <1>1, <1>2, <2>1, <2>2, <2>3, <2>4, <2>5, Begun
<1>4. CASE RewindPc
  <2>1. "pc" \in Cached
    BY DEF Cached
  <2> QED BY <1>3, <1>4, <2>1 DEF RewindPc
<1>5. CASE TruncateStack
  <2>1. "stack" \in Cached
    BY DEF Cached
  <2>2. stream["stack"] # "open" => stream["stack"] = "gone"
    BY <1>2, <1>5, <2>1 DEF TruncateStack
  <2> QED BY <1>3, <1>5, <2>1, <2>2 DEF TruncateStack
<1> QED BY <1>4, <1>5

LEMMA StartFailsStep == ASSUME PInv, NEW n \in Image, StartFails(n) PROVE PInv'
<1>1. /\ program # None /\ call = None /\ saved' = saved \ {n}
      /\ UNCHANGED <<program, disk, stream, call, tables, lost, asked>>
  BY DEF StartFails, Idle
<1>2. TypeOK'
  BY <1>1 DEF PInv, TypeOK, tables
<1>3. CallOK' /\ TypingOK' /\ WritingOK'
  BY <1>1 DEF CallOK, TypingOK, WritingOK, Typing, Writing
<1>4. FilesOK'
  BY <1>1 DEF PInv, FilesOK, StackFile, GlobalFile
<1>5. SavedOK'
  <2>1. \A m \in saved \ lost : Kept(m)'
    BY <1>1, KeptStays DEF PInv, SavedOK, tables
  <2> QED BY <1>1, <2>1 DEF PInv, SavedOK
<1> QED BY <1>2, <1>3, <1>4, <1>5 DEF PInv

-----------------------------------------------------------------------------
(* The steps that look up types *)

LEMMA StartTypingStep == ASSUME PInv, StartTyping PROVE PInv'
<1>1. /\ program # None /\ call = None /\ saved' = saved \ {"stack"}
      /\ call' = [image |-> "stack", words |-> <<>>, rest |-> <<>>, via |-> "typing"]
      /\ UNCHANGED <<program, disk, stream, tables, lost, asked>>
  BY DEF StartTyping, Idle
<1>2. TypeOK'
  <2>1. call'.image \in Image /\ call'.via \in {"fresh", "open", "gone", "typing"}
    BY <1>1 DEF Image
  <2>2. program' # None
    BY <1>1
  <2> QED BY <1>1, <2>1, <2>2 DEF PInv, TypeOK, tables
<1>3. CallOK'
  BY <1>1 DEF CallOK
<1>4. TypingOK'
  <2>1. TypedWords(cache, 0)' = <<>>
    <3>1. 1..2 * 0 = {}
      OBVIOUS
    <3> QED BY <3>1 DEF TypedWords
  <2>2. 0 \in 0..Len(program.stack) /\ program' = program
    BY <1>1, ProgramFacts DEF PInv
  <2>3. TypedSoFar(0)'
    BY <1>1, <2>1, <2>2 DEF TypedSoFar
  <2> QED BY <1>1, <2>3 DEF TypingOK
<1>5. WritingOK'
  BY <1>1 DEF WritingOK, Writing, Typing
<1>6. FilesOK'
  BY <1>1 DEF PInv, FilesOK, StackFile, GlobalFile
<1>7. SavedOK'
  <2>1. \A m \in saved \ lost : Kept(m)'
    BY <1>1, KeptStays DEF PInv, SavedOK, tables
  <2> QED BY <1>1, <2>1 DEF PInv, SavedOK
<1> QED BY <1>2, <1>3, <1>4, <1>5, <1>6, <1>7 DEF PInv

\* The number of the frames that are typed.
LEMMA TypedCount ==
    ASSUME PInv, Typing
    PROVE  /\ TypedSoFar(Typed) /\ Len(call.words) = 2 * Typed /\ Typed \in Nat
           /\ program # None /\ call.image = "stack" /\ "stack" \notin saved
           /\ call = [image |-> call.image, words |-> call.words, rest |-> call.rest, via |-> call.via]
           /\ Framed(call.words)
<1>1. program # None /\ call # None
  BY DEF PInv, TypeOK, Typing
<1>2. PICK k \in Nat : TypedSoFar(k)
  BY DEF PInv, TypingOK
<1>3. Framed(call.words) /\ Len(call.words) = 2 * k
  BY <1>1, <1>2, TypedFacts DEF PInv
<1>4. Typed = k
  BY <1>3 DEF Typed
<1> QED BY <1>1, <1>2, <1>3, <1>4 DEF PInv, TypingOK, CallOK

LEMMA TypeFrameStep == ASSUME PInv, TypeFrame PROVE PInv'
<1>0. PICK k \in Nat : k = Typed
  BY TypedCount DEF TypeFrame
<1> DEFINE f == TypedFrame(Table, k + 1)
<1>1. /\ Typing /\ k < Len(program.stack)
      /\ Table # None /\ Known(Table, TypedAt(k + 1)[1], TypedAt(k + 1)[2])
      /\ cache' = Table /\ call' = [call EXCEPT !.words = @ \o Serialized(<<f>>)]
      /\ UNCHANGED <<program, disk, stream, tableFile, host, saved, lost, asked>>
  BY <1>0 DEF TypeFrame
<1>2. /\ TypedSoFar(k) /\ Len(call.words) = 2 * k /\ k \in Nat
      /\ program # None /\ call.image = "stack" /\ "stack" \notin saved
      /\ call = [image |-> call.image, words |-> call.words, rest |-> call.rest, via |-> call.via]
      /\ IsSeq(call.words)
  BY <1>0, <1>1, TypedCount DEF Framed
<1>3. Table \in Tables /\ (k > 0 => Table = cache) /\ (cache' = cache \/ cache = None)
  <2>1. Table \in Tables
    BY <1>1, TableFacts DEF PInv
  <2>2. k > 0 => cache # None
    BY <1>2, NoneAssumption DEF TypedSoFar
  <2> QED BY <1>1, <2>1, <2>2 DEF Table
<1> HIDE DEF f
<1>4. /\ call'.image = "stack" /\ call'.via = "typing" /\ call'.rest = call.rest
      /\ call'.words = call.words \o Serialized(<<f>>)
      /\ call' = [image |-> call'.image, words |-> call'.words, rest |-> call'.rest, via |-> call'.via]
  <2> DEFINE x == call.words \o Serialized(<<f>>)
  <2>1. call.via = "typing" /\ call' = [call EXCEPT !.words = x] /\ call # None
    BY <1>1 DEF Typing
  <2> HIDE DEF x
  <2>2. call' = [image |-> "stack", words |-> x, rest |-> call.rest, via |-> "typing"]
    BY <1>2, <2>1
  <2>3. call'.image = "stack" /\ call'.via = "typing" /\ call'.rest = call.rest /\ call'.words = x
    BY <2>2
  <2> QED BY <2>2, <2>3 DEF x
<1>5. TypeOK'
  <2>1. call'.image \in Image /\ call'.via \in {"fresh", "open", "gone", "typing"}
    BY <1>4 DEF Image
  <2> QED BY <1>1, <1>2, <1>3, <2>1 DEF PInv, TypeOK
<1>6. CallOK'
  BY <1>1, <1>2, <1>4 DEF CallOK
<1>7. TypingOK'
  <2> DEFINE x == call'.words
  <2>1. f \in Frames
    <3>1. k + 1 \in 1..Len(program.stack) /\ program.stack \in Seq(Frames)
      BY <1>1, <1>2, ProgramFacts DEF PInv
    <3>2. program.stack[k + 1] \in Frames
      BY <3>1, ElementOfSeq
    <3> QED BY <1>1, <1>3, <3>2, WithTypesTyped DEF TypedFrame, f
  <2>2. /\ IsSeq(Serialized(<<f>>)) /\ Len(Serialized(<<f>>)) = 2
        /\ Serialized(<<f>>)[1] = "entry" /\ Serialized(<<f>>)[2] = FromEntry(f)
    <3> DEFINE one == <<f>>
               s == Serialized(one)
    <3>1. one \in Seq({f}) /\ Len(one) = 1 /\ one[1] = f
      OBVIOUS
    <3>2. IsSeq(one)
      BY <3>1, Zenon DEF IsSeq
    <3>3. 2 \div 2 = 1 /\ 2 % 2 = 0 /\ 1 % 2 = 1 /\ 2 * 1 = 2 /\ 1 \in 1..2 /\ 2 \in 1..2
      OBVIOUS
    <3> HIDE DEF one
    <3>4. IsSeq(s) /\ Len(s) = 2 * Len(one)
          /\ \A i \in 1..2 * Len(one) : s[i] = IF i % 2 = 1 THEN "entry" ELSE FromEntry(one[i \div 2])
      BY <3>2, SerializedFacts
    <3> HIDE DEF s
    <3>5. IsSeq(s) /\ Len(s) = 2 /\ s[1] = "entry" /\ s[2] = FromEntry(f)
      BY <3>1, <3>3, <3>4
    <3> QED BY <3>5 DEF s, one
  <2>3. /\ IsSeq(x) /\ Len(x) = 2 * (k + 1)
        /\ \A i \in 1..2 * k : x[i] = call.words[i]
        /\ x[2 * k + 1] = "entry" /\ x[2 * k + 2] = FromEntry(f)
    <3> DEFINE s == Serialized(<<f>>)
    <3>1. /\ IsSeq(x) /\ Len(x) = Len(call.words) + Len(s)
          /\ \A i \in 1..Len(call.words) + Len(s) :
                x[i] = IF i <= Len(call.words) THEN call.words[i] ELSE s[i - Len(call.words)]
      <4> HIDE DEF s
      <4>1. x = call.words \o s
        BY <1>4 DEF s
      <4>2. IsSeq(call.words) /\ IsSeq(s)
        BY <1>2, <2>2 DEF s
      <4> HIDE DEF x
      <4> QED BY <4>1, <4>2, ConcatSeq
    <3> HIDE DEF x, s
    <3>2. IsSeq(x) /\ \A i \in 1..2 * k + 2 :
                x[i] = IF i <= 2 * k THEN call.words[i] ELSE s[i - 2 * k]
      BY <1>2, <2>2, <3>1 DEF s
    <3>3. Len(x) = 2 * (k + 1)
      <4>1. Len(s) = 2 /\ Len(call.words) = 2 * k
        BY <1>2, <2>2 DEF s
      <4> QED BY <3>1, <4>1
    <3>4. x[2 * k + 1] = s[1] /\ x[2 * k + 2] = s[2]
      <4>1. /\ 2 * k + 1 \in 1..2 * k + 2 /\ ~(2 * k + 1 <= 2 * k) /\ 2 * k + 1 - 2 * k = 1
            /\ 2 * k + 2 \in 1..2 * k + 2 /\ ~(2 * k + 2 <= 2 * k) /\ 2 * k + 2 - 2 * k = 2
        OBVIOUS
      <4> QED BY <3>2, <4>1
    <3>5. \A i \in 1..2 * k : x[i] = call.words[i]
      BY <1>2, <3>2
    <3> QED BY <2>2, <3>2, <3>3, <3>4, <3>5 DEF s
  <2>4. /\ x = [i \in 1..2 * (k + 1) |-> x[i]]
    <3>1. PICK S : x \in Seq(S)
      BY <2>3 DEF IsSeq
    <3> HIDE DEF x
    <3> QED BY <2>3, <3>1, <1>2
  <2>5. \A i \in 1..2 * k :
           call.words[i] = IF i % 2 = 1 THEN "entry" ELSE FromEntry(TypedFrame(cache, i \div 2))
    BY <1>2, TypedFacts DEF PInv
  <2> HIDE DEF x
  <2>6. \A i \in 1..2 * (k + 1) :
           x[i] = IF i % 2 = 1 THEN "entry" ELSE FromEntry(TypedFrame(Table, i \div 2))
    <3> SUFFICES ASSUME NEW i \in 1..2 * (k + 1)
                 PROVE  x[i] = IF i % 2 = 1 THEN "entry" ELSE FromEntry(TypedFrame(Table, i \div 2))
      OBVIOUS
    <3>1. CASE i \in 1..2 * k
      <4>1. Table = cache
        BY <1>2, <1>3, <3>1
      <4> QED BY <2>3, <2>5, <3>1, <4>1
    <3>2. CASE i = 2 * k + 1
      <4>1. i % 2 = 1
        BY <1>2, <3>2
      <4> QED BY <2>3, <3>2, <4>1
    <3>3. CASE i = 2 * k + 2
      <4>1. i % 2 = 0 /\ i \div 2 = k + 1
        BY <1>2, <3>3
      <4> QED BY <2>3, <3>3, <4>1 DEF f
    <3>4. i \in 1..2 * k \/ i = 2 * k + 1 \/ i = 2 * k + 2
      <4>1. i \in Nat /\ 1 <= i /\ i <= 2 * k + 2 /\ 2 * k \in Nat
        BY <1>2
      <4> QED BY <4>1
    <3> QED BY <3>1, <3>2, <3>3, <3>4
  <2>7. x = [i \in 1..2 * (k + 1) |-> IF i % 2 = 1 THEN "entry" ELSE FromEntry(TypedFrame(Table, i \div 2))]
    BY <2>4, <2>6
  <2>8. TypedWords(cache, k + 1)' = x
    <3>1. cache' = Table /\ program' = program
      BY <1>1
    <3> QED BY <2>7, <3>1 DEF TypedWords, TypedFrame, TypedAt
  <2>9. \A i \in 1..k + 1 : Known(cache, TypedAt(i)[1], TypedAt(i)[2])'
    <3> SUFFICES ASSUME NEW i \in 1..k + 1
                 PROVE  Known(Table, TypedAt(i)[1], TypedAt(i)[2])
      BY <1>1 DEF Known, TypedAt
    <3>1. CASE i \in 1..k
      <4>1. Table = cache
        BY <1>2, <1>3, <3>1
      <4> QED BY <1>2, <3>1, <4>1 DEF TypedSoFar
    <3>2. CASE i = k + 1
      BY <1>1, <3>2
    <3> QED BY <1>2, <3>1, <3>2
  <2>10. TypedSoFar(k + 1)'
    <3>1. k + 1 \in 0..Len(program.stack) /\ program' = program /\ cache' \in Tables
      BY <1>1, <1>2, <1>3, ProgramFacts DEF PInv
    <3>2. call'.words = TypedWords(cache, k + 1)'
      BY <2>8 DEF x
    <3> QED BY <2>9, <3>1, <3>2 DEF TypedSoFar
  <2>11. k + 1 \in Nat
    BY <1>2
  <2> QED BY <1>4, <2>10, <2>11 DEF TypingOK
<1>8. WritingOK'
  BY <1>4 DEF WritingOK, Writing, Typing
<1>9. FilesOK'
  BY <1>1 DEF PInv, FilesOK, StackFile, GlobalFile
<1>10. SavedOK'
  <2>1. \A m \in saved \ lost : Kept(m)'
    BY <1>1, <1>3, KeptStays DEF PInv, SavedOK
  <2> QED BY <1>1, <2>1 DEF PInv, SavedOK
<1> QED BY <1>5, <1>6, <1>7, <1>8, <1>9, <1>10 DEF PInv

LEMMA OpenTypedStep == ASSUME PInv, OpenTyped PROVE PInv'
<1> DEFINE w == call.words
<1>1. /\ Typing /\ Typed = Len(program.stack) /\ UNCHANGED <<program, stream, tables, saved>>
      /\ \/ Emptied("stack", w) /\ call' = [call EXCEPT !.rest = w, !.via = "fresh"]
         \/ call' = None /\ UNCHANGED <<disk, lost, asked>>
  BY DEF OpenTyped
<1>2. /\ TypedSoFar(Typed) /\ Framed(w) /\ program # None
      /\ call.image = "stack" /\ "stack" \notin saved
      /\ call = [image |-> call.image, words |-> w, rest |-> call.rest, via |-> call.via]
  BY <1>1, TypedCount
<1>3. IsSeq(w) /\ saved' = saved \ {"stack"} /\ "stack" \in Image
      /\ stream' \in [Cached -> {"closed", "open", "gone"}]
      /\ \A m \in Cached \ {"stack"} : stream'[m] = stream[m]
  BY <1>1, <1>2 DEF Framed, Image, PInv, TypeOK
<1>4. CASE Emptied("stack", w) /\ call' = [call EXCEPT !.rest = w, !.via = "fresh"]
  <2> HIDE DEF w
  <2>1. call' = [image |-> "stack", words |-> w, rest |-> w, via |-> "fresh"]
    <3>1. w = call.words
      BY DEF w
    <3> QED BY <1>2, <1>4, <3>1
  <2>2. TypedSoFar(Len(program.stack))'
    <3>1. UNCHANGED <<program, cache>> /\ call'.words = call.words
      BY <1>1, <2>1 DEF tables, w
    <3>2. TypedSoFar(Len(program.stack))
      BY <1>1, <1>2
    <3> QED BY <3>1, <3>2 DEF TypedSoFar, TypedWords, TypedFrame, TypedAt
  <2>3. Source'
    BY <2>1, <2>2 DEF Source
  <2> QED BY <1>1, <1>2, <1>3, <1>4, <2>1, <2>3, Begun
<1>5. CASE call' = None /\ UNCHANGED <<disk, lost, asked>>
  <2> HIDE DEF w
  <2>1. "gone" \in {"fresh", "open", "gone"} /\ UNCHANGED <<disk, stream, lost, asked>>
    BY <1>1, <1>5
  <2> QED BY <1>1, <1>2, <1>3, <1>5, <2>1, Begun
<1> QED BY <1>1, <1>4, <1>5

-----------------------------------------------------------------------------
(* The steps that write *)

\* The two words of a pc are written over those that are there.
Over(old, words, k) == SubSeq(old, 1, 0) \o SubSeq(words, 1, k) \o SubSeq(old, k + 1, Len(old))

LEMMA PcOver ==
    ASSUME NEW old \in PcFiles, NEW words \in [1..2 -> 0..Word - 1], Len(words) = 2,
           NEW k \in 0..2
    PROVE  /\ Over(old, words, k) \in PcFiles
           /\ k = 2 => Over(old, words, k) = words
           /\ k = 0 => Over(old, words, k) = old
<1> DEFINE S == 0..Word - 1
           x == SubSeq(old, 1, 0)
           y == SubSeq(words, 1, k)
           z == SubSeq(old, k + 1, Len(old))
           new == x \o y \o z
<1>1. old \in Seq(S) /\ Len(old) \in 0..2
  <2>1. PICK n \in 0..2 : old \in [1..n -> S]
    BY DEF PcFiles
  <2>2. n \in Nat /\ old \in Seq(S)
    <3> HIDE DEF S
    <3> QED BY <2>1, SeqDef
  <2>3. Len(old) = n
    <3> HIDE DEF S
    <3>1. DOMAIN old = 1..n
      BY <2>1
    <3> QED BY <2>2, <3>1, LenProperties
  <2> QED BY <2>2, <2>3
<1>2. words \in Seq(S)
  BY SeqDef
<1> HIDE DEF S
<1>3. x = <<>>
  BY SubSeqEmpty
<1>4. y \in Seq(S) /\ Len(y) = k /\ \A i \in 1..k : y[i] = words[i]
  <2>1. IsSeq(words) /\ k \in 0..Len(words) /\ 1 \in Nat \ {0}
    BY <1>2 DEF IsSeq
  <2>2. Len(y) = k /\ \A i \in 1..k : y[i] = words[i]
    BY <2>1, CutSeq
  <2>3. \A i \in 1..k : words[i] \in S
    <3>1. \A i \in 1..k : i \in 1..Len(words)
      OBVIOUS
    <3> QED BY <1>2, <3>1, ElementOfSeq
  <2> QED BY <2>2, <2>3, SubSeqProperties
<1>5. z \in Seq(S) /\ Len(z) = IF k + 1 <= Len(old) THEN Len(old) - k ELSE 0
  <2>1. \A i \in k + 1..Len(old) : old[i] \in S
    BY <1>1, ElementOfSeq
  <2>2. k + 1 \in Int /\ Len(old) \in Int
    BY <1>1
  <2> QED BY <2>1, <2>2, SubSeqProperties
<1>6. x \o y = y
  BY <1>3, <1>4, ConcatEmptySeq
<1> HIDE DEF x, y, z
<1>7. new \in Seq(S) /\ Len(new) \in 0..2
  <2>1. new = y \o z
    BY <1>6
  <2> HIDE DEF new
  <2>2. new \in Seq(S) /\ Len(new) = Len(y) + Len(z)
    BY <1>4, <1>5, <2>1, ConcatProperties
  <2> QED BY <1>1, <1>4, <1>5, <2>2
<1>8. new \in PcFiles
  <2> HIDE DEF new
  <2>1. new \in [1..Len(new) -> S]
    BY <1>7, LenProperties
  <2> QED BY <1>7, <2>1 DEF PcFiles, S
<1>9. ASSUME k = 2 PROVE new = words
  <2>1. z = <<>>
    <3>1. Len(z) = 0
      BY <1>1, <1>5, <1>9
    <3> QED BY <1>5, <3>1, EmptySeq
  <2>2. y = words
    BY <1>2, <1>4, <1>9, SeqEqual
  <2> QED BY <1>4, <1>6, <2>1, <2>2, ConcatEmptySeq
<1>10. ASSUME k = 0 PROVE new = old
  <2>1. y = <<>>
    BY <1>4, <1>10, EmptySeq
  <2>2. z = old
    BY <1>1, <1>10, SubSeqFull DEF z
  <2> QED BY <1>1, <1>6, <2>1, <2>2, ConcatEmptySeq
<1> QED BY <1>8, <1>9, <1>10 DEF Over, x, y, z

\* What a running call has written.
LEMMA WritingFacts ==
    ASSUME PInv, Writing
    PROVE  /\ program # None /\ call.image \in Image \ saved /\ Source /\ IsSeq(call.words)
           /\ call = [image |-> call.image, words |-> call.words, rest |-> call.rest, via |-> call.via]
           /\ \E n \in 0..Len(call.words) : WrittenSoFar(n)
           /\ call.via # "gone" /\ call.image = "stack" => asked = call.words
           /\ call.via # "gone" /\ call.image = "pc" =>
                 disk["pc"] \in PcFiles /\ call.words = Words("pc")
           /\ call.via = "gone" => call.image \in Cached /\ stream[call.image] = "gone"
<1>1. program # None /\ call # None
  BY DEF PInv, TypeOK, Writing
<1>2. call.image \in Image
  BY <1>1 DEF PInv, TypeOK
<1>3. Source /\ IsSeq(call.words) /\ \E n \in 0..Len(call.words) : WrittenSoFar(n)
  BY DEF PInv, WritingOK
<1>4. call.via # "gone" /\ call.image = "stack" => asked = call.words
  BY DEF PInv, WritingOK
<1>5. call.image \notin saved
      /\ call = [image |-> call.image, words |-> call.words, rest |-> call.rest, via |-> call.via]
  BY <1>1 DEF PInv, CallOK
<1>6. call.via = "gone" => call.image \in Cached /\ stream[call.image] = "gone"
  BY <1>3 DEF Source
<1>7. call.via # "gone" /\ call.image = "pc" => stream["pc"] = "open" /\ call.words = Words("pc")
  BY <1>3 DEF Source, Cached
<1> QED BY <1>1, <1>2, <1>3, <1>4, <1>5, <1>6, <1>7 DEF PInv, FilesOK

\* The next k words reach the file.
LEMMA Reached ==
    ASSUME PInv, Writing, NEW n \in 0..Len(call.words), WrittenSoFar(n),
           NEW k \in 0..Len(call.rest), Reach(SubSeq(call.rest, 1, k))
    PROVE  /\ disk' = [m \in Image |-> disk'[m]]
           /\ \A m \in Image \ {call.image} : disk'[m] = disk[m]
           /\ n + k \in 0..Len(call.words) /\ Len(call.rest) = Len(call.words) - n
           /\ SubSeq(call.rest, k + 1, Len(call.rest)) = After(call.words, n + k)
           /\ call.via = "gone" => disk' = disk
           /\ call.via # "gone" /\ call.image # "pc" =>
                 disk'[call.image] = First(call.words, n + k)
           /\ call.via # "gone" /\ call.image = "pc" =>
                 /\ disk'["pc"] \in PcFiles
                 /\ k = Len(call.rest) => disk'["pc"] = call.words
                 /\ k = 0 => disk'["pc"] = disk["pc"]
<1> DEFINE w == call.words
           im == call.image
           old == disk[im]
           part == SubSeq(call.rest, 1, k)
           new == SubSeq(old, 1, n) \o part \o SubSeq(old, n + Len(part) + 1, Len(old))
<1>1. IsSeq(w) /\ Len(w) \in Nat /\ im \in Image /\ n \in Nat
  BY WritingFacts, SeqFacts
<1>2. call.rest = After(w, n) /\ Len(call.rest) = Len(w) - n
  <2>1. call.rest = After(w, n)
    BY DEF WrittenSoFar
  <2>2. Len(After(w, n)) = Len(w) - n
    BY <1>1, FirstFacts
  <2> QED BY <2>1, <2>2
<1>3. k \in Nat /\ n + k \in 0..Len(w) /\ k \in 0..Len(w) - n
  BY <1>1, <1>2
<1>4. disk = [m \in Image |-> disk[m]]
  BY DEF PInv, FilesOK
<1>5. disk' = IF call.via = "gone" THEN disk ELSE [disk EXCEPT ![im] = new]
  <2>1. Len(w) - Len(call.rest) = n
    BY <1>1, <1>2
  <2> QED BY <2>1 DEF Reach
<1>6. SubSeq(call.rest, k + 1, Len(call.rest)) = After(w, n + k) /\ Len(part) = k
      /\ SubSeq(First(w, n), 1, n) \o part
            \o SubSeq(First(w, n), n + k + 1, Len(First(w, n))) = First(w, n + k)
  <2> HIDE DEF w
  <2>1. /\ SubSeq(First(w, n), 1, n) \o SubSeq(After(w, n), 1, k)
              \o SubSeq(First(w, n), n + k + 1, Len(First(w, n))) = First(w, n + k)
        /\ SubSeq(After(w, n), k + 1, Len(After(w, n))) = After(w, n + k)
        /\ Len(SubSeq(After(w, n), 1, k)) = k
    <3>1. n \in 0..Len(w)
      BY DEF w
    <3> QED BY <1>1, <1>3, <3>1, WrittenBehind
  <2> QED BY <1>2, <2>1
<1> HIDE DEF w, im, part, new
<1>7. /\ disk' = [m \in Image |-> disk'[m]]
      /\ \A m \in Image \ {im} : disk'[m] = disk[m]
      /\ call.via # "gone" => disk'[im] = new
  BY <1>1, <1>4, <1>5
<1>8. ASSUME call.via # "gone", im # "pc" PROVE disk'[im] = First(w, n + k)
  <2>1. old = First(w, n)
    BY <1>8 DEF WrittenSoFar, w, im
  <2> QED BY <1>6, <1>7, <1>8, <2>1 DEF new
<1>9. ASSUME call.via # "gone", im = "pc"
      PROVE  /\ disk'["pc"] \in PcFiles /\ (k = Len(call.rest) => disk'["pc"] = w)
             /\ k = 0 => disk'["pc"] = disk["pc"]
  <2>1. n = 0
    BY <1>9 DEF WrittenSoFar, im
  <2>2. disk["pc"] \in PcFiles /\ w = Words("pc")
    BY <1>9, WritingFacts DEF w, im
  <2>3. w \in [1..2 -> 0..Word - 1] /\ Len(w) = 2
    BY <2>2, WordsFacts, WritingFacts DEF PInv
  <2>4. call.rest = w /\ k \in 0..2
    BY <1>1, <1>2, <1>3, <2>1, <2>3, WholeSeq
  <2>5. new = Over(disk["pc"], w, k)
    <3>1. n + Len(part) + 1 = k + 1
      BY <1>3, <1>6, <2>1
    <3> QED BY <1>9, <2>1, <2>4, <3>1 DEF new, part, Over
  <2>6. new \in PcFiles /\ (k = 2 => new = w) /\ (k = 0 => new = disk["pc"])
    BY <2>2, <2>3, <2>4, <2>5, PcOver
  <2> QED BY <1>7, <1>9, <2>3, <2>4, <2>6
<1> QED BY <1>2, <1>3, <1>5, <1>6, <1>7, <1>8, <1>9 DEF w, im, part

\* A frame that is typed by the table of the program is that of the program.
LEMMA RightlyTyped ==
    ASSUME TypeOK, program # None, ~WrongTable,
           NEW k \in Nat, TypedSoFar(k), NEW i \in 1..k
    PROVE  TypedFrame(cache, i) = program.stack[i] /\ Sized(program.stack[i])
<1> DEFINE s == program.stack
           n == Len(s)
           f == s[i]
           pc == Position(f, i = n)
<1>1. n \in Nat /\ i \in 1..n
  BY ProgramFacts DEF TypedSoFar
<1>2. cache = Right
  BY NoneAssumption DEF TypedSoFar, WrongTable
<1>3. TypedAt(i) = pc /\ TypedFrame(cache, i) = WithTypes(Right, f, pc)
  BY <1>2 DEF TypedAt, TypedFrame
<1>4. Known(Right, pc[1], pc[2])
  BY <1>2, <1>3 DEF TypedSoFar
<1>5. s \in Stacks
  BY DEF WrongTable
<1> HIDE DEF s, n
<1>6. (i = n) \in BOOLEAN /\ f \in IF i = n THEN Tops ELSE Callers
  BY <1>1, <1>5, StacksFacts DEF n
<1>7. Sized(f) /\ (Known(Right, pc[1], pc[2]) => WithTypes(Right, f, pc) = f)
  BY <1>6, FramesAssumption
<1> QED BY <1>3, <1>4, <1>7 DEF s

\* Frames that are typed by the table of the program are those of the program.
LEMMA WordsOfSource ==
    ASSUME TypeOK, program # None, Source
    PROVE  call.words = Words(call.image) \/ (call.image = "stack" /\ WrongTable)
<1>1. SUFFICES ASSUME call.image = "stack", TypedSoFar(Len(program.stack)), ~WrongTable
               PROVE  call.words = Words(call.image)
  BY DEF Source
<1> DEFINE s == program.stack
           n == Len(s)
<1>2. s \in Seq(Frames) /\ IsSeq(s) /\ n \in Nat
  BY ProgramFacts
<1> HIDE DEF s, n
<1>5. ASSUME NEW i \in 1..n PROVE TypedFrame(cache, i) = s[i]
  BY <1>1, <1>2, RightlyTyped DEF s, n
<1>6. /\ IsSeq(call.words) /\ Len(call.words) = 2 * n
      /\ \A i \in 1..2 * n :
            call.words[i] = IF i % 2 = 1 THEN "entry" ELSE FromEntry(TypedFrame(cache, i \div 2))
  BY <1>1, <1>2, TypedFacts DEF Framed, s, n
<1>7. /\ IsSeq(Serialized(s)) /\ Len(Serialized(s)) = 2 * n
      /\ \A i \in 1..2 * n :
            Serialized(s)[i] = IF i % 2 = 1 THEN "entry" ELSE FromEntry(s[i \div 2])
  BY <1>2, SerializedFacts DEF n
<1>8. \A i \in 1..2 * n : call.words[i] = Serialized(s)[i]
  <2>1. \A i \in 1..2 * n : i % 2 # 1 => i \div 2 \in 1..n
    BY <1>2
  <2> QED BY <1>5, <1>6, <1>7, <2>1
<1>9. call.words = Serialized(s)
  BY <1>6, <1>7, <1>8, SameSeq
<1> QED BY <1>1, <1>9 DEF Words, s

\* The next k words reach the file, and the call goes on or ends.
LEMMA Pushed ==
    ASSUME PInv, Writing, NEW k \in 0..Len(call.rest), Reach(SubSeq(call.rest, 1, k)),
           UNCHANGED <<program, stream, tables, asked>>,
           \/ call' = None
           \/ /\ call.image # "pc" /\ saved' = saved
              /\ call' = [call EXCEPT !.rest = SubSeq(@, k + 1, Len(@))],
           saved' \in {saved, saved \cup {call.image}}, lost' \subseteq Image,
           \A m \in saved' \ lost' :
              \/ m \in saved \ lost
              \/ m = call.image /\ (k = Len(call.rest) \/ call.via = "gone")
    PROVE  PInv'
<1> DEFINE w == call.words
           im == call.image
<1>1. /\ program # None /\ im \in Image /\ im \notin saved /\ Source /\ IsSeq(w)
      /\ call = [image |-> im, words |-> w, rest |-> call.rest, via |-> call.via]
      /\ call.via # "gone" /\ im = "stack" => asked = w
      /\ call.via = "gone" => im \in Cached /\ stream[im] = "gone"
  BY WritingFacts
<1>2. PICK n \in 0..Len(w) : WrittenSoFar(n)
  BY WritingFacts
<1>3. /\ disk' = [m \in Image |-> disk'[m]]
      /\ \A m \in Image \ {im} : disk'[m] = disk[m]
      /\ n + k \in 0..Len(w) /\ Len(call.rest) = Len(w) - n
      /\ SubSeq(call.rest, k + 1, Len(call.rest)) = After(w, n + k)
      /\ call.via = "gone" => disk' = disk
      /\ call.via # "gone" /\ im # "pc" => disk'[im] = First(w, n + k)
      /\ call.via # "gone" /\ im = "pc" =>
            disk'["pc"] \in PcFiles /\ (k = Len(call.rest) => disk'["pc"] = w)
  BY <1>2, Reached
<1>4. Len(w) \in Nat /\ n + k \in Nat /\ n \in Nat
  <2>1. Len(w) \in Nat
    BY <1>1, SeqFacts
  <2> QED BY <1>3, <2>1
<1>5. /\ "pc" \in Image /\ "global" \in Image /\ "stack" \in Image
  BY DEF Image
<1>6. im = "global" => w = <<"globals", program.global>> /\ Len(w) = 2 /\ program.global \in Global \cup {None}
  <2>1. im = "global" => w = Words("global")
    BY <1>1 DEF Source, Cached
  <2> QED BY <1>1, <2>1, WordsFacts, ProgramFacts DEF PInv
<1>7. call.via # "gone" => \/ im = "pc" /\ disk'["pc"] \in PcFiles
                           \/ im # "pc" /\ disk'[im] = First(w, n + k)
  BY <1>3
<1>8. call' = None
      \/ /\ im # "pc" /\ saved' = saved
         /\ call' = [image |-> im, words |-> w, rest |-> After(w, n + k), via |-> call.via]
  <2> DEFINE r == SubSeq(call.rest, k + 1, Len(call.rest))
  <2>1. call' = None \/ (im # "pc" /\ saved' = saved /\ call' = [call EXCEPT !.rest = r])
    OBVIOUS
  <2> HIDE DEF r
  <2>2. call = [image |-> call.image, words |-> call.words, rest |-> call.rest, via |-> call.via]
    BY <1>1
  <2>3. call' = [call EXCEPT !.rest = r] =>
           call' = [image |-> call.image, words |-> call.words, rest |-> r, via |-> call.via]
    BY <2>2
  <2>4. r = After(w, n + k)
    BY <1>3 DEF r
  <2> QED BY <2>1, <2>3, <2>4
<1> HIDE DEF w, im
<1>9. FilesOK'
  <2>1. stream'["pc"] = "open" => disk'["pc"] \in PcFiles
    <3>1. stream' = stream /\ (stream["pc"] = "open" => disk["pc"] \in PcFiles)
      BY DEF PInv, FilesOK
    <3>2. disk'["pc"] = disk["pc"] \/ disk'["pc"] \in PcFiles
      BY <1>3, <1>5
    <3> QED BY <3>1, <3>2
  <2>2. StackFile(disk["stack"])'
    <3>1. CASE disk'["stack"] = disk["stack"]
      BY <3>1 DEF PInv, FilesOK, StackFile
    <3>2. CASE im = "stack" /\ call.via # "gone"
      <4>1. disk'["stack"] = First(asked, n + k) /\ n + k \in 0..Len(asked)
        BY <1>1, <1>3, <3>2
      <4> QED BY <4>1 DEF StackFile
    <3> QED BY <1>3, <1>5, <3>1, <3>2
  <2>3. GlobalFile(disk["global"])'
    <3>1. CASE disk'["global"] = disk["global"]
      BY <3>1 DEF PInv, FilesOK, GlobalFile
    <3>2. CASE im = "global" /\ call.via # "gone"
      <4>1. disk'["global"] = First(<<"globals", program.global>>, n + k)
            /\ n + k \in 0..2 /\ program.global \in Global \cup {None}
        BY <1>3, <1>6, <3>2
      <4>2. \E g \in Global \cup {None}, m \in 0..2 : disk'["global"] = First(<<"globals", g>>, m)
        BY <4>1, Zenon
      <4> QED BY <4>2, Zenon DEF GlobalFile
    <3> QED BY <1>3, <1>5, <3>1, <3>2
  <2> QED BY <1>3, <2>1, <2>2, <2>3 DEF PInv, FilesOK
<1>10. TypeOK'
  <2>1. disk'["pc"] = None \/ disk'["pc"] \in PcFiles
    BY <1>3, <1>5 DEF PInv, TypeOK, PcFiles
  <2>2. \A m \in {"global", "stack"} : disk'[m] = None \/ Len(disk'[m]) \in 0..2 * MaxDepth + 2
    <3> SUFFICES ASSUME NEW m \in {"global", "stack"}
                 PROVE  disk'[m] = None \/ Len(disk'[m]) \in 0..2 * MaxDepth + 2
      OBVIOUS
    <3>1. CASE disk'[m] = disk[m]
      BY <3>1 DEF PInv, TypeOK
    <3>2. CASE im = m /\ call.via # "gone"
      <4>1. Len(disk'[m]) = n + k
        BY <1>1, <1>3, <1>7, <3>2, FirstFacts
      <4>2. Len(w) <= 2 * MaxDepth + 2 /\ MaxDepth \in Nat
        <5>1. im = "stack" => Len(w) <= 2 * MaxDepth
          <6>1. Framed(asked)
            BY DEF PInv, FilesOK
          <6> QED BY <1>1, <3>2, <6>1 DEF Framed
        <5>2. im = "global" => Len(w) = 2
          BY <1>6
        <5>3. im = "global" \/ im = "stack"
          BY <3>2
        <5>4. MaxDepth \in Nat
          BY ImagesAssumption
        <5>5. Len(w) <= 2 * MaxDepth \/ Len(w) = 2
          BY <5>1, <5>2, <5>3
        <5>6. \A a, b \in Nat : a <= 2 * b \/ a = 2 => a <= 2 * b + 2
          OBVIOUS
        <5> HIDE DEF w
        <5>7. Len(w) \in Nat
          BY <1>4
        <5> QED BY <5>4, <5>5, <5>6, <5>7
      <4> QED BY <1>3, <1>4, <4>1, <4>2
    <3> QED BY <1>3, <1>5, <3>1, <3>2
  <2>3. call' = None \/ (call'.image \in Image /\ call'.via \in {"fresh", "open", "gone", "typing"})
    <3>1. call.via \in {"fresh", "open", "gone", "typing"}
      BY DEF PInv, TypeOK, Writing
    <3> QED BY <1>1, <1>8, <3>1
  <2>4. saved' \subseteq Image
    BY <1>1 DEF PInv, TypeOK, im
  <2> QED BY <1>1, <2>1, <2>2, <2>3, <2>4 DEF PInv, TypeOK, PcFiles, tables
<1>11. CallOK'
  BY <1>1, <1>8 DEF CallOK
<1>12. TypingOK'
  <2>1. call' # None => call'.via # "typing"
    <3>1. call.via # "typing"
      BY DEF Writing, Typing
    <3> QED BY <1>8, <3>1
  <2> QED BY <2>1 DEF TypingOK, Typing
<1>13. WritingOK'
  <2> SUFFICES ASSUME call' # None PROVE WritingOK'
    BY DEF WritingOK, Writing
  <2>1. /\ im # "pc" /\ call'.image = im /\ call'.words = w /\ call'.rest = After(w, n + k)
        /\ call'.via = call.via
    BY <1>8
  <2>2. Source'
    <3>1. \A m : Words(m)' = Words(m)
      BY DEF Words
    <3>2. TypedSoFar(Len(program.stack)) => TypedSoFar(Len(program.stack))'
      BY <2>1 DEF TypedSoFar, TypedWords, TypedFrame, TypedAt, tables, w
    <3> QED BY <1>1, <2>1, <3>1, <3>2 DEF Source, w, im
  <2>3. WrittenSoFar(n + k)'
    BY <1>3, <2>1 DEF WrittenSoFar
  <2> QED BY <1>1, <1>3, <2>1, <2>2, <2>3 DEF WritingOK
<1>14. SavedOK'
  <2>1. ASSUME NEW m \in saved' \ lost' PROVE Kept(m)'
    <3>1. CASE m \in saved \ lost
      <4>1. m \in Image \ {im} /\ Kept(m)
        BY <1>1, <3>1 DEF PInv, SavedOK, TypeOK
      <4> QED BY <1>3, <4>1, KeptStays DEF tables
    <3>2. CASE m = im /\ call.via = "gone"
      BY <1>1, <3>2 DEF Kept
    <3>3. CASE m = im /\ call.via # "gone" /\ k = Len(call.rest)
      <4>1. disk'[im] = w
        <5>1. n + k = Len(w)
          BY <1>3, <1>4, <3>3
        <5>2. First(w, Len(w)) = w
          BY <1>1, WholeSeq
        <5> QED BY <1>3, <3>3, <5>1, <5>2
      <4>2. w = Words(im) \/ (im = "stack" /\ WrongTable)
        BY <1>1, WordsOfSource DEF PInv, w, im
      <4>3. Words(m)' = Words(m) /\ WrongTable' = WrongTable
        BY DEF Words, WrongTable, tables
      <4>4. disk'[m] = Words(m)' \/ (m = "stack" /\ WrongTable')
        BY <3>3, <4>1, <4>2, <4>3
      <4> QED BY <4>4 DEF Kept
    <3>4. m = im => call.via # "gone" \/ call.via = "gone"
      OBVIOUS
    <3> QED BY <2>1, <3>1, <3>2, <3>3 DEF im
  <2> QED BY <1>1, <2>1 DEF SavedOK
<1> QED BY <1>9, <1>10, <1>11, <1>12, <1>13, <1>14 DEF PInv

\* All that a call has still to write.
LEMMA RestFacts ==
    ASSUME PInv, Writing
    PROVE  /\ IsSeq(call.rest) /\ Len(call.rest) \in 0..Len(call.rest)
           /\ First(call.rest, Len(call.rest)) = call.rest
<1>1. PICK n \in 0..Len(call.words) : WrittenSoFar(n)
  BY WritingFacts
<1>2. IsSeq(call.rest)
  BY <1>1, WritingFacts, FirstFacts DEF WrittenSoFar
<1>3. Len(call.rest) \in Nat
  BY <1>2, SeqFacts
<1> QED BY <1>2, <1>3, WholeSeq

LEMMA WriteStep == ASSUME PInv, Spill \/ Finish \/ FinishShort \/ FillFails PROVE PInv'
<1>1. /\ Writing /\ UNCHANGED <<program, stream, tables, asked>>
      /\ (Spill \/ FillFails) => saved' = saved /\ lost' = lost
      /\ (Finish \/ FinishShort) => saved' = saved \cup {call.image}
  BY DEF Spill, Finish, FinishShort, FillFails
<1>2. call.image \in Image \ saved /\ lost \subseteq Image
  BY <1>1, WritingFacts DEF PInv, TypeOK
<1>3. First(call.rest, Len(call.rest)) = call.rest /\ Len(call.rest) \in 0..Len(call.rest)
  BY <1>1, RestFacts
<1>4. CASE Spill
  <2>1. PICK k \in 1..Len(call.rest) :
           /\ Reach(SubSeq(call.rest, 1, k))
           /\ call' = [call EXCEPT !.rest = SubSeq(@, k + 1, Len(@))]
    BY <1>4 DEF Spill
  <2>2. k \in 0..Len(call.rest) /\ call.image # "pc"
    BY <1>3, <1>4 DEF Spill
  <2> QED BY <1>1, <1>2, <1>4, <2>1, <2>2, Pushed
<1>5. CASE Finish
  <2> DEFINE k == Len(call.rest)
  <2>1. Reach(SubSeq(call.rest, 1, k)) /\ k \in 0..Len(call.rest)
    BY <1>3, <1>5 DEF Finish, First
  <2>2. lost' \subseteq Image /\ call' = None
        /\ \A m \in saved' \ lost' : m \in saved \ lost \/ m = call.image
    BY <1>1, <1>2, <1>5 DEF Finish
  <2>3. PICK d : d = k
    OBVIOUS
  <2>4. Reach(SubSeq(call.rest, 1, d)) /\ d \in 0..Len(call.rest) /\ d = Len(call.rest)
    BY <2>1, <2>3
  <2> HIDE DEF k
  <2> QED BY <1>1, <1>2, <1>5, <2>2, <2>4, Pushed
<1>6. CASE FinishShort
  <2>1. PICK k \in 0..Len(call.rest) : Reach(SubSeq(call.rest, 1, k))
    BY <1>6 DEF FinishShort, Prefix
  <2>2. lost' \subseteq Image /\ call' = None
        /\ \A m \in saved' \ lost' : m \in saved \ lost \/ (m = call.image /\ call.via = "gone")
    BY <1>1, <1>2, <1>6 DEF FinishShort
  <2> QED BY <1>1, <1>2, <1>6, <2>1, <2>2, Pushed
<1>7. CASE FillFails
  <2>1. PICK k \in 0..Len(call.rest) : Reach(SubSeq(call.rest, 1, k))
    BY <1>7 DEF FillFails, Prefix
  <2>2. lost' \subseteq Image /\ call' = None
        /\ \A m \in saved' \ lost' : m \in saved \ lost
    BY <1>1, <1>2, <1>7 DEF FillFails
  <2> QED BY <1>1, <1>2, <1>7, <2>1, <2>2, Pushed
<1> QED BY <1>4, <1>5, <1>6, <1>7

LEMMA StutterStep == ASSUME PInv, UNCHANGED vars PROVE PInv'
<1>1. UNCHANGED <<program, disk, stream, call, tables, saved, lost, asked>>
  BY DEF vars
<1>2. TypeOK'
  BY <1>1 DEF PInv, TypeOK, tables
<1>3. CallOK'
  BY <1>1 DEF PInv, CallOK
<1>4. TypingOK' /\ WritingOK'
  <2>1. /\ Typing' = Typing /\ Writing' = Writing /\ Source' = Source
        /\ \A k \in Nat : TypedSoFar(k)' = TypedSoFar(k)
        /\ \A n : WrittenSoFar(n)' = WrittenSoFar(n)
    BY <1>1 DEF Typing, Writing, Source, TypedSoFar, WrittenSoFar, TypedWords, TypedFrame, TypedAt, Words, tables
  <2> QED BY <1>1, <2>1 DEF PInv, TypingOK, WritingOK
<1>5. FilesOK'
  BY <1>1 DEF PInv, FilesOK, StackFile, GlobalFile
<1>6. SavedOK'
  <2>1. \A m \in saved \ lost : Kept(m)'
    BY <1>1, KeptStays DEF PInv, SavedOK, tables
  <2> QED BY <1>1, <2>1 DEF PInv, SavedOK
<1> QED BY <1>2, <1>3, <1>4, <1>5, <1>6 DEF PInv

LEMMA StepInv == PInv /\ [Next]_vars => PInv'
<1> SUFFICES ASSUME PInv, [Next]_vars PROVE PInv'
  OBVIOUS
<1>1. CASE Boot \/ Resume
  BY <1>1, BootStep
<1>2. CASE Run
  BY <1>2, RunStep
<1>3. CASE Die \/ TakeAway
  BY <1>3, HostStep
<1>4. CASE Recompile \/ LoadTables
  BY <1>4, TableStep
<1>5. CASE StartGlobal
  BY <1>5, StartGlobalStep
<1>6. CASE StartTyping
  BY <1>6, StartTypingStep
<1>7. CASE TypeFrame
  BY <1>7, TypeFrameStep
<1>8. CASE OpenTyped
  BY <1>8, OpenTypedStep
<1>9. CASE \E n \in Cached : StartCached(n)
  BY <1>9, StartCachedStep
<1>10. CASE RewindPc \/ TruncateStack
  BY <1>10, RewindStep
<1>11. CASE \E n \in Image : StartFails(n)
  BY <1>11, StartFailsStep
<1>12. CASE Spill \/ Finish \/ FinishShort \/ FillFails
  BY <1>12, WriteStep
<1>13. CASE UNCHANGED vars
  BY <1>13, StutterStep
<1> QED BY <1>1, <1>2, <1>3, <1>4, <1>5, <1>6, <1>7, <1>8, <1>9, <1>10, <1>11, <1>12, <1>13 DEF Next

LEMMA Invariant == Spec => []PInv
BY InitInv, StepInv, PTL DEF Spec

-----------------------------------------------------------------------------
(* Theorems *)

\* The type invariant: the images have the shapes that their writers give
\* them, and what a restore makes of any of them is a program state.
THEOREM TypeCorrect == Spec => []TypeOK
<1>1. PInv => TypeOK
  BY DEF PInv
<1> QED BY <1>1, Invariant, PTL

\* Wherever a process dies and whatever fails, call_stack.img is the beginning
\* of what one call of wasmig_checkpoint_stack_v3 or _v4 was to write.
THEOREM OneCall == Spec => []StackOfOneCall
<1>1. PInv => StackOfOneCall
  BY DEF PInv, FilesOK, StackFile, StackOfOneCall, Prefix, First
<1> QED BY <1>1, Invariant, PTL

\* wasmig_checkpoint_stack_v3 types all frames of a call by the one table that
\* the process has cached, however often the file is replaced meanwhile.
THEOREM OneTable == Spec => []TypedByOneTable
<1>1. PInv => TypedByOneTable
  <2> SUFFICES ASSUME PInv, Typing PROVE TypedByOneTable
    BY DEF TypedByOneTable
  <2>1. PICK k \in Nat : k = Typed
    BY TypedCount
  <2>2. TypedSoFar(k) /\ program # None
    BY <2>1, TypedCount
  <2>3. \A i \in 1..k : call.words[2 * i] = FromEntry(TypedFrame(cache, i))
    <3>1. \A i \in 1..2 * k :
             call.words[i] = IF i % 2 = 1 THEN "entry" ELSE FromEntry(TypedFrame(cache, i \div 2))
      BY <2>2, TypedFacts DEF PInv
    <3>2. \A i \in 1..k : 2 * i \in 1..2 * k /\ (2 * i) % 2 = 0 /\ (2 * i) \div 2 = i
      OBVIOUS
    <3> QED BY <3>1, <3>2
  <2>4. \E t \in Tables : k > 0 => t = cache
    BY <2>2, ImagesAssumption DEF TypedSoFar
  <2>5. PICK t \in Tables : k > 0 => t = cache
    BY <2>4
  <2>6. \A i \in 1..k : /\ Known(t, TypedAt(i)[1], TypedAt(i)[2])
                        /\ call.words[2 * i] = FromEntry(TypedFrame(t, i))
    <3>1. \A i \in 1..k : t = cache
      BY <2>5
    <3> QED BY <2>2, <2>3, <3>1 DEF TypedSoFar
  <2> QED BY <2>1, <2>5, <2>6 DEF TypedByOneTable
<1> QED BY <1>1, Invariant, PTL

\* A call that cannot type one of its frames has not touched call_stack.img.
THEOREM TypingKeeps == Spec => TypingKeepsImage
<1>1. PInv /\ [Next]_vars => (Typing /\ Typed < Len(program.stack) => disk' = disk)
  <2> SUFFICES ASSUME PInv, Typing, Typed < Len(program.stack), [Next]_vars PROVE disk' = disk
    OBVIOUS
  <2>1. program # None /\ call # None /\ ~Idle /\ ~Writing
    BY DEF PInv, TypeOK, Typing, Idle, Writing
  <2>2. Typed # Len(program.stack)
    BY <2>1, TypedCount, ProgramFacts DEF PInv
  <2>3. CASE Next
    <3>1. ~Boot /\ ~Resume /\ ~Run /\ ~TakeAway /\ ~LoadTables
      BY <2>1 DEF Boot, Resume, Run, TakeAway, LoadTables
    <3>2. ~StartGlobal /\ ~StartTyping /\ ~OpenTyped /\ ~RewindPc /\ ~TruncateStack
      BY <2>1, <2>2 DEF StartGlobal, StartTyping, OpenTyped, RewindPc, TruncateStack
    <3>3. ~Spill /\ ~Finish /\ ~FinishShort /\ ~FillFails
      BY <2>1 DEF Spill, Finish, FinishShort, FillFails
    <3>4. (\A n \in Cached : ~StartCached(n)) /\ \A n \in Image : ~StartFails(n)
      BY <2>1 DEF StartCached, StartFails
    <3>5. Die \/ Recompile \/ TypeFrame
      BY <2>3, <3>1, <3>2, <3>3, <3>4 DEF Next
    <3> QED BY <3>5 DEF Die, Recompile, TypeFrame
  <2>4. CASE UNCHANGED vars
    BY <2>4 DEF vars
  <2> QED BY <2>3, <2>4
<1> QED BY <1>1, Invariant, PTL DEF Spec, TypingKeepsImage

\* Once a process has written a program counter, the image is replaced as a
\* whole by wasmig_checkpoint_pc.
THEOREM PcWhole == Spec => PcReplacedWhole
<1> DEFINE Whole ==
        stream["pc"] = "open" /\ disk["pc"] # <<>> /\ "pc" \notin lost \cup lost'
        => disk'["pc"] \in {disk["pc"], None, Words("pc")}
<1>1. PInv /\ [Next]_vars => Whole
  <2> SUFFICES ASSUME PInv, [Next]_vars, stream["pc"] = "open", "pc" \notin lost'
               PROVE  disk'["pc"] \in {disk["pc"], None, Words("pc")}
    OBVIOUS
  <2>1. "pc" \in Image /\ "pc" # "stack" /\ "pc" # "global" /\ disk = [m \in Image |-> disk[m]]
    BY DEF Image, PInv, FilesOK
  <2>2. ASSUME NEW n \in Image \ {"pc"}, NEW w, Emptied(n, w) PROVE disk'["pc"] = disk["pc"]
    BY <2>1, <2>2 DEF Emptied
  <2>3. "stack" \in Image \ {"pc"} /\ "global" \in Image \ {"pc"}
    BY DEF Image
  <2>4. CASE TakeAway
    BY <2>1, <2>4 DEF TakeAway
  <2>5. CASE UNCHANGED disk
    BY <2>5
  <2>6. CASE StartGlobal \/ OpenTyped \/ TruncateStack
    BY <2>2, <2>3, <2>6 DEF StartGlobal, OpenTyped, TruncateStack
  <2>7. ASSUME NEW n \in Cached, StartCached(n) PROVE disk'["pc"] = disk["pc"]
    <3>1. n # "pc" /\ n \in Image
      BY <2>7 DEF StartCached, Cached, Image
    <3> QED BY <2>2, <2>7, <3>1 DEF StartCached
  <2>8. ASSUME Writing, NEW k \in 0..Len(call.rest), Reach(SubSeq(call.rest, 1, k)),
               call.image = "pc" /\ call.via # "gone" => k = 0 \/ k = Len(call.rest)
        PROVE  disk'["pc"] \in {disk["pc"], Words("pc")}
    <3>1. PICK n \in 0..Len(call.words) : WrittenSoFar(n)
      BY <2>8, WritingFacts
    <3>2. /\ \A m \in Image \ {call.image} : disk'[m] = disk[m]
          /\ call.via = "gone" => disk' = disk
          /\ call.via # "gone" /\ call.image = "pc" =>
                /\ k = Len(call.rest) => disk'["pc"] = call.words
                /\ k = 0 => disk'["pc"] = disk["pc"]
      BY <2>8, <3>1, Reached
    <3>3. call.via # "gone" /\ call.image = "pc" => call.words = Words("pc")
      BY <2>8, WritingFacts
    <3> QED BY <2>1, <2>8, <3>2, <3>3
  <2>9. Writing => IsSeq(call.rest) /\ Len(call.rest) \in 0..Len(call.rest)
                   /\ First(call.rest, Len(call.rest)) = call.rest
    BY RestFacts
  <2>10. CASE Spill
    <3>1. PICK k \in 0..Len(call.rest) : Reach(SubSeq(call.rest, 1, k))
      <4>1. PICK k \in 1..Len(call.rest) : Reach(SubSeq(call.rest, 1, k))
        BY <2>10 DEF Spill
      <4>2. k \in 0..Len(call.rest)
        BY <2>9, <2>10 DEF Spill
      <4> QED BY <4>1, <4>2
    <3> QED BY <2>8, <2>10, <3>1 DEF Spill
  <2>11. CASE Finish
    <3> DEFINE k == Len(call.rest)
    <3>0. First(call.rest, Len(call.rest)) = call.rest /\ Len(call.rest) \in 0..Len(call.rest)
      BY <2>9, <2>11 DEF Finish
    <3>1. Reach(SubSeq(call.rest, 1, k)) /\ k \in 0..Len(call.rest)
      BY <2>11, <3>0 DEF Finish, First
    <3>2. PICK d : d = k
      OBVIOUS
    <3>3. Reach(SubSeq(call.rest, 1, d)) /\ d \in 0..Len(call.rest) /\ d = Len(call.rest)
      BY <3>1, <3>2
    <3> HIDE DEF k
    <3> QED BY <2>8, <2>11, <3>3 DEF Finish
  <2>12. CASE FinishShort
    <3>1. PICK k \in 0..Len(call.rest) : Reach(SubSeq(call.rest, 1, k))
      BY <2>12 DEF FinishShort, Prefix
    <3>2. call.image = "pc" => call.via = "gone"
      BY <2>12 DEF FinishShort
    <3> QED BY <2>8, <2>12, <3>1, <3>2 DEF FinishShort
  <2>13. CASE FillFails
    <3>1. PICK k \in 0..Len(call.rest) :
             /\ Reach(SubSeq(call.rest, 1, k))
             /\ call.image = "pc" => SubSeq(call.rest, 1, k) = <<>>
      BY <2>13 DEF FillFails, Prefix
    <3>2. call.image = "pc" => k = 0
      <4>1. Len(First(call.rest, k)) = k /\ Len(<<>>) = 0
        BY <2>9, <2>13, FirstFacts, WholeSeq DEF FillFails
      <4> QED BY <3>1, <4>1 DEF First
    <3> QED BY <2>8, <2>13, <3>1, <3>2 DEF FillFails
  <2>14. CASE Boot \/ Resume \/ Run \/ Die \/ Recompile \/ LoadTables \/ StartTyping \/ TypeFrame
              \/ RewindPc \/ (\E n \in Image : StartFails(n)) \/ UNCHANGED vars
    <3>1. UNCHANGED disk
      BY <2>14 DEF Boot, Resume, Run, Die, Recompile, LoadTables, StartTyping, TypeFrame,
                   RewindPc, StartFails, vars
    <3> QED BY <3>1
  <2> QED BY <2>4, <2>6, <2>7, <2>10, <2>11, <2>12, <2>13, <2>14 DEF Next
<1> QED BY <1>1, Invariant, PTL DEF Spec, PcReplacedWhole

\* The offset without the upper half that wasmig_restore_pc leaves undefined.
LEMMA UpperHalf ==
    ASSUME NEW o \in 0..Word - 1, NEW high \in 0..1
    PROVE  (o + Word * high) % Word = o
<1>1. high = 0 \/ high = 1
  OBVIOUS
<1>2. o % Word = o
  BY TablesAssumption
<1>3. (o + Word) % Word = o
  BY TablesAssumption
<1> QED BY <1>1, <1>2, <1>3, TablesAssumption

\* What a checkpoint returned 0 for is what a restore brings back.
THEOREM SavedIsRestored == Spec => []SavedRestores
<1>1. PInv => SavedRestores
  <2> SUFFICES ASSUME PInv, NEW n \in saved \ lost,
                      ~(n \in Cached /\ stream[n] = "gone"), ~(n = "stack" /\ WrongTable)
               PROVE  Restores(n)
    BY DEF SavedRestores
  <2>1. program # None /\ n \in Image /\ TypeOK /\ disk[n] = Words(n)
    BY DEF PInv, SavedOK, TypeOK, Kept
  <2>2. CASE n = "pc"
    <3> DEFINE w == Words("pc")
               o == program.pc[2] % Word
    <3>1. w = <<program.pc[1], o>>
      BY DEF Words
    <3>2. w \in [1..2 -> 0..Word - 1] /\ Len(w) = 2
      BY <2>1, WordsFacts
    <3>3. w # None
      <4>1. w \in Seq(0..Word - 1)
        BY <3>2, SeqDef
      <4> QED BY <4>1, NoneAssumption
    <3>4. o \in 0..Word - 1
      BY <2>1, ProgramFacts, LowerHalf
    <3>5. w[1] = program.pc[1] /\ w[2] = o
      BY <3>1
    <3> HIDE DEF w, o
    <3>6. RestoredPc(w) = {<<f, u + Word * high>> : f \in {w[1]}, u \in {w[2]}, high \in 0..1}
      BY <3>2, <3>3 DEF RestoredPc
    <3>7. ASSUME NEW p \in RestoredPc(w) PROVE p[1] = program.pc[1] /\ p[2] % Word = o
      <4>1. PICK high \in 0..1 : p = <<w[1], w[2] + Word * high>>
        BY <3>6
      <4>2. (o + Word * high) % Word = o
        BY <3>4, UpperHalf
      <4> QED BY <3>5, <4>1, <4>2
    <3> QED BY <2>1, <2>2, <3>7 DEF Restores, w, o
  <2>3. CASE n = "global"
    <3> DEFINE w == Words("global")
    <3>1. w = <<"globals", program.global>> /\ Len(w) = 2
      BY <2>1, WordsFacts
    <3>2. w # None
      <4> DEFINE S == {"globals"} \cup Global \cup {None}
      <4>1. "globals" \in S /\ program.global \in S
        BY <2>1, ProgramFacts
      <4>2. None \notin Seq(S)
        BY NoneAssumption
      <4> HIDE DEF S, w
      <4>3. w \in Seq(S)
        BY <3>1, <4>1, PairSeq
      <4> QED BY <4>2, <4>3
    <3>3. w[2] = program.global
      BY <3>1
    <3> HIDE DEF w
    <3>4. RestoredGlobals(w) = {program.global}
      BY <3>1, <3>2, <3>3 DEF RestoredGlobals
    <3> QED BY <2>1, <2>3, <3>4 DEF Restores, w
  <2>4. CASE n = "stack"
    <3> DEFINE s == program.stack
    <3>1. s \in Stacks
      BY <2>4 DEF WrongTable
    <3>2. disk["stack"] = Serialized(s)
      BY <2>1, <2>4 DEF Words
    <3>3. Serialized(s) # None
      BY <3>1, NoneAssumption
    <3>4. \A i \in 1..Len(s) : Sized(s[i])
      <4>1. \A top \in BOOLEAN : \A f \in IF top THEN Tops ELSE Callers : Sized(f)
        BY FramesAssumption
      <4> QED BY <3>1, <4>1, StacksFacts
    <3> HIDE DEF s
    <3>5. Deserialized(Serialized(s)) = {s}
      <4>1. IsSeq(s)
        BY <3>1, StacksFacts DEF IsSeq
      <4> QED BY <3>4, <4>1, StackRoundTrip
    <3>6. RestoredStack(disk["stack"]) = {s}
      BY <3>2, <3>3, <3>5 DEF RestoredStack
    <3> QED BY <2>4, <3>6 DEF Restores, s
  <2> QED BY <2>1, <2>2, <2>3, <2>4 DEF Image
<1> QED BY <1>1, Invariant, PTL

-----------------------------------------------------------------------------
(* Slots *)

\* The slots of the first n entries, and those of the calls on top of them.
Slots(stack, n)   == {s \in (1..n) \X (1..4) : s[2] <= stack[s[1]].ty}
Results(stack, n) == {s \in Slots(stack, n) : \A i \in s[1]..n : stack[i].opcode = "Call"}

LEMMA AddSlots ==
    ASSUME NEW n \in Nat, NEW R \in SUBSET ((1..n) \X (1..4)), IsFiniteSet(R), NEW w \in Width
    PROVE  /\ IsFiniteSet(R \cup ({n + 1} \X (1..w)))
           /\ Cardinality(R \cup ({n + 1} \X (1..w))) = Cardinality(R) + w
<1> DEFINE Slot(j) == <<n + 1, j>>
           R1 == R \cup {Slot(1)}
           R2 == R1 \cup {Slot(2)}
           R3 == R2 \cup {Slot(3)}
           R4 == R3 \cup {Slot(4)}
<1>1. Slot(1) \notin R /\ Slot(2) \notin R1 /\ Slot(3) \notin R2 /\ Slot(4) \notin R3
  BY SMT
<1>2. Cardinality(R) \in Nat
  BY FS_CardinalityType
<1>3. R \cup ({n + 1} \X (1..w)) = IF w = 1 THEN R1 ELSE IF w = 2 THEN R2 ELSE R4
  BY SMT DEF Width
<1> HIDE DEF Slot
<1>4. IsFiniteSet(R1) /\ Cardinality(R1) = Cardinality(R) + 1
  BY <1>1, FS_AddElement
<1> HIDE DEF R1
<1>5. IsFiniteSet(R2) /\ Cardinality(R2) = Cardinality(R) + 2
  BY <1>1, <1>2, <1>4, FS_AddElement
<1> HIDE DEF R2
<1>6. IsFiniteSet(R3) /\ Cardinality(R3) = Cardinality(R) + 3
  BY <1>1, <1>2, <1>5, FS_AddElement
<1> HIDE DEF R3
<1>7. IsFiniteSet(R4) /\ Cardinality(R4) = Cardinality(R) + 4
  BY <1>1, <1>2, <1>6, FS_AddElement
<1> HIDE DEF R4
<1>8. w = 1 \/ w = 2 \/ w = 4
  BY DEF Width
<1> QED BY <1>3, <1>4, <1>5, <1>7, <1>8

LEMMA EntryFacts ==
    ASSUME NEW stack \in Seq(Entry)
    PROVE  /\ Len(stack) \in Nat /\ DOMAIN stack = 1..Len(stack)
           /\ \A i \in 1..Len(stack) : stack[i].ty \in Width
           /\ Len(TypeStack(stack)) = Len(stack)
           /\ \A i \in 1..Len(stack) : TypeStack(stack)[i] = stack[i].ty
<1>1. Len(stack) \in Nat /\ DOMAIN stack = 1..Len(stack)
  BY LenProperties
<1>2. \A i \in 1..Len(stack) : stack[i].ty \in Width
  <2>1. \A e \in Entry : e.ty \in Width
    BY DEF Entry
  <2>2. \A i \in 1..Len(stack) : stack[i] \in Entry
    BY ElementOfSeq
  <2> QED BY <2>1, <2>2, Zenon
<1>3. TypeStack(stack) = [i \in 1..Len(stack) |-> stack[i].ty]
  BY <1>1 DEF TypeStack
<1>4. Len(TypeStack(stack)) = Len(stack)
  <2>1. TypeStack(stack) \in [1..Len(stack) -> Width]
    BY <1>2, <1>3
  <2>2. TypeStack(stack) \in Seq(Width)
    BY <1>1, <2>1, SeqDef
  <2>3. DOMAIN TypeStack(stack) = 1..Len(stack)
    BY <1>3
  <2> QED BY <1>1, <2>2, <2>3, LenProperties
<1> QED BY <1>1, <1>2, <1>3, <1>4

\* The slots of one more entry.
LEMMA SlotsNext ==
    ASSUME NEW stack \in Seq(Entry), NEW n \in Nat, n + 1 <= Len(stack)
    PROVE  Slots(stack, n + 1) = Slots(stack, n) \cup ({n + 1} \X (1..stack[n + 1].ty))
<1>1. stack[n + 1].ty \in Width
  BY EntryFacts
<1>2. \A j \in 1..4 : j <= stack[n + 1].ty <=> j \in 1..stack[n + 1].ty
  BY <1>1 DEF Width
<1>3. 1..stack[n + 1].ty \subseteq 1..4
  BY <1>1 DEF Width
<1>4. (1..n + 1) = (1..n) \cup {n + 1} /\ n + 1 \notin 1..n
  OBVIOUS
<1> QED BY <1>2, <1>3, <1>4, Zenon DEF Slots

LEMMA StackSizeExact ==
    ASSUME NEW stack \in Seq(Entry)
    PROVE  StackSize(stack) = Cardinality(Slots(stack, Len(stack)))
<1> DEFINE types == TypeStack(stack)
           n == Len(stack)
<1>1. n \in Nat /\ Len(types) = n /\ \A i \in 1..n : types[i] = stack[i].ty /\ stack[i].ty \in Width
  BY EntryFacts
<1> HIDE DEF types
<1>2. PICK G : Sum(types) = G[n] /\ \A i \in 0..n : G[i] = SumNext(G, types, i)
  BY <1>1, SumUnfolds
<1> DEFINE S == {d \in Nat : d <= n => IsFiniteSet(Slots(stack, d)) /\ Cardinality(Slots(stack, d)) = G[d]}
<1>3. 0 \in S
  <2>1. Slots(stack, 0) = {}
    BY DEF Slots
  <2>2. G[0] = 0
    BY <1>1, <1>2 DEF SumNext
  <2> QED BY <2>1, <2>2, FS_EmptySet
<1>4. ASSUME NEW d \in Nat, d \in S PROVE d + 1 \in S
  <2> SUFFICES ASSUME d + 1 <= n
               PROVE  IsFiniteSet(Slots(stack, d + 1)) /\ Cardinality(Slots(stack, d + 1)) = G[d + 1]
    OBVIOUS
  <2>1. IsFiniteSet(Slots(stack, d)) /\ Cardinality(Slots(stack, d)) = G[d]
    BY <1>1, <1>4
  <2>2. d + 1 \in 1..n /\ d + 1 \in 0..n /\ d + 1 # 0 /\ d + 1 - 1 = d
    BY <1>1
  <2>3. G[d + 1] = G[d] + stack[d + 1].ty /\ stack[d + 1].ty \in Width
    BY <1>1, <1>2, <2>2 DEF SumNext
  <2>4. Slots(stack, d) \in SUBSET ((1..d) \X (1..4))
    BY DEF Slots
  <2>5. Slots(stack, d + 1) = Slots(stack, d) \cup ({d + 1} \X (1..stack[d + 1].ty))
    BY SlotsNext
  <2> QED BY <2>1, <2>3, <2>4, <2>5, AddSlots
<1>5. Nat \subseteq S
  <2> HIDE DEF S
  <2> QED BY <1>3, <1>4, SetInduction
<1>6. StackSize(stack) = G[n]
  BY <1>2 DEF StackSize, types
<1> QED BY <1>1, <1>5, <1>6

\* What the recursion of ResultSize says of the first entries.
ResultNext(F, stack, i) ==
    IF i = 0 \/ stack[i].opcode # "Call" THEN 0 ELSE stack[i].ty + F[i - 1]
ResultsUpto(F, stack, n) == F = [i \in 0..n |-> ResultNext(F, stack, i)]

LEMMA ResultsExist ==
    ASSUME NEW stack, NEW n \in Nat
    PROVE  \E F : ResultsUpto(F, stack, n)
<1> DEFINE S == {d \in Nat : \E F : ResultsUpto(F, stack, d)}
<1>1. 0 \in S
  <2>1. ResultsUpto([i \in 0..0 |-> 0], stack, 0)
    BY DEF ResultsUpto, ResultNext
  <2> QED BY <2>1
<1>2. ASSUME NEW d \in Nat, d \in S PROVE d + 1 \in S
  <2>1. PICK F : ResultsUpto(F, stack, d)
    BY <1>2
  <2>2. \A i \in 0..d : F[i] = ResultNext(F, stack, i)
    BY <2>1, Zenon DEF ResultsUpto
  <2> DEFINE G == [i \in 0..d + 1 |-> IF i = d + 1 THEN ResultNext(F, stack, d + 1) ELSE F[i]]
  <2>3. \A i \in 0..d : G[i] = F[i]
    OBVIOUS
  <2>4. G[d + 1] = ResultNext(F, stack, d + 1)
    OBVIOUS
  <2>5. G = [i \in 0..d + 1 |-> G[i]]
    OBVIOUS
  <2> HIDE DEF G
  <2>6. ASSUME NEW i \in 0..d + 1 PROVE G[i] = ResultNext(G, stack, i)
    <3>1. CASE i = 0
      BY <2>2, <2>3, <3>1 DEF ResultNext
    <3>2. CASE i \in 1..d
      <4>1. i \in 0..d /\ i - 1 \in 0..d /\ i # 0
        BY <3>2
      <4> QED BY <2>2, <2>3, <4>1 DEF ResultNext
    <3>3. CASE i = d + 1
      <4>1. d \in 0..d /\ i # 0 /\ i - 1 = d
        BY <3>3
      <4> QED BY <2>3, <2>4, <3>3, <4>1 DEF ResultNext
    <3> QED BY <3>1, <3>2, <3>3
  <2>7. ResultsUpto(G, stack, d + 1)
    BY <2>5, <2>6, Zenon DEF ResultsUpto
  <2> QED BY <2>7
<1>3. Nat \subseteq S
  <2> HIDE DEF S
  <2> QED BY <1>1, <1>2, SetInduction
<1> QED BY <1>3

LEMMA ResultSizeExact ==
    ASSUME NEW stack \in Seq(Entry)
    PROVE  ResultSize(stack) = Cardinality(Results(stack, Len(stack)))
<1> DEFINE n == Len(stack)
           G == CHOOSE F : ResultsUpto(F, stack, n)
<1>1. n \in Nat /\ \A i \in 1..n : stack[i].ty \in Width
  BY EntryFacts
<1>2. ResultSize(stack) = G[n]
  BY Zenon DEF ResultSize, ResultsUpto, ResultNext
<1>3. ResultsUpto(G, stack, n)
  BY <1>1, ResultsExist
<1> HIDE DEF G
<1>4. \A i \in 0..n : G[i] = ResultNext(G, stack, i)
  BY <1>3, Zenon DEF ResultsUpto
<1> DEFINE S == {d \in Nat : d <= n => /\ IsFiniteSet(Results(stack, d))
                                        /\ Cardinality(Results(stack, d)) = G[d]}
<1>5. 0 \in S
  <2>1. Results(stack, 0) = {}
    BY DEF Results, Slots
  <2>2. G[0] = 0
    BY <1>1, <1>4 DEF ResultNext
  <2> QED BY <2>1, <2>2, FS_EmptySet
<1>6. ASSUME NEW d \in Nat, d \in S PROVE d + 1 \in S
  <2> DEFINE R == Results(stack, d)
             new == {d + 1} \X (1..stack[d + 1].ty)
  <2> SUFFICES ASSUME d + 1 <= n
               PROVE  /\ IsFiniteSet(Results(stack, d + 1))
                      /\ Cardinality(Results(stack, d + 1)) = G[d + 1]
    OBVIOUS
  <2>1. IsFiniteSet(R) /\ Cardinality(R) = G[d] /\ R \in SUBSET ((1..d) \X (1..4))
    BY <1>1, <1>6 DEF Results, Slots
  <2>2. d + 1 \in 0..n /\ d + 1 # 0 /\ d + 1 - 1 = d /\ stack[d + 1].ty \in Width
    BY <1>1
  <2>3. Slots(stack, d + 1) = Slots(stack, d) \cup new
    BY SlotsNext
  <2>4. \A s \in Slots(stack, d) : s[1] \in 1..d
    BY DEF Slots
  <2>5. \A s \in new : s[1] = d + 1
    OBVIOUS
  <2> HIDE DEF new
  <2>6. CASE stack[d + 1].opcode # "Call"
    <3>1. G[d + 1] = 0
      BY <1>4, <2>2, <2>6 DEF ResultNext
    <3>2. \A s \in Slots(stack, d + 1) : d + 1 \in s[1]..d + 1
      BY <2>3, <2>4, <2>5
    <3>3. Results(stack, d + 1) = {}
      BY <2>6, <3>2 DEF Results
    <3> QED BY <3>1, <3>3, FS_EmptySet
  <2>7. CASE stack[d + 1].opcode = "Call"
    <3>1. G[d + 1] = G[d] + stack[d + 1].ty
      <4>1. G[d + 1] = stack[d + 1].ty + G[d]
        BY <1>4, <2>2, <2>7 DEF ResultNext
      <4>2. G[d] \in Nat /\ stack[d + 1].ty \in Nat
        BY <2>1, <2>2, FS_CardinalityType DEF Width
      <4> QED BY <4>1, <4>2
    <3>2. \A s \in Slots(stack, d) : s[1]..d + 1 = (s[1]..d) \cup {d + 1}
      BY <2>4
    <3>3. \A s \in new : s[1]..d + 1 = {d + 1}
      BY <2>5
    <3>4. Results(stack, d + 1) = R \cup new
      <4> DEFINE Calls(s, m) == \A i \in s[1]..m : stack[i].opcode = "Call"
      <4>1. \A s \in Slots(stack, d) : Calls(s, d + 1) <=> Calls(s, d)
        BY <2>7, <3>2
      <4>2. \A s \in new : Calls(s, d + 1)
        BY <2>7, <3>3
      <4>3. /\ R = {s \in Slots(stack, d) : Calls(s, d)}
            /\ Results(stack, d + 1) = {s \in Slots(stack, d) \cup new : Calls(s, d + 1)}
        BY <2>3 DEF Results
      <4> HIDE DEF Calls, R
      <4> QED BY <4>1, <4>2, <4>3
    <3>5. /\ IsFiniteSet(R \cup new)
          /\ Cardinality(R \cup new) = Cardinality(R) + stack[d + 1].ty
      <4> HIDE DEF R
      <4> QED BY <2>1, <2>2, AddSlots DEF new
    <3> QED BY <2>1, <3>1, <3>4, <3>5
  <2> QED BY <2>6, <2>7
<1>7. Nat \subseteq S
  <2> HIDE DEF S
  <2> QED BY <1>5, <1>6, SetInduction
<1> QED BY <1>1, <1>2, <1>7

\* get_stack_size and get_result_size count slots, at every position of any
\* table that a compiler may write.
THEOREM SlotsAreCounted == Spec => []SlotsCounted
<1>1. TypeOK => SlotsCounted
  <2> SUFFICES ASSUME TypeOK, cache # None, NEW f \in DOMAIN cache, NEW o \in DOMAIN cache[f].at
               PROVE  LET stack   == StackTable(cache, f, o)
                          slots   == {s \in (DOMAIN stack) \X (1..4) : s[2] <= stack[s[1]].ty}
                          results == {s \in slots : \A i \in s[1]..Len(stack) : stack[i].opcode = "Call"}
                      IN  /\ StackSize(stack) = Cardinality(slots)
                          /\ ResultSize(stack) = Cardinality(results)
    BY Zenon DEF SlotsCounted
  <2> DEFINE stack == StackTable(cache, f, o)
  <2>1. stack \in Seq(Entry)
    <3>1. cache \in Tables
      BY DEF TypeOK
    <3>2. o \in 0..Word - 1 /\ cache[f].at[o] \in Seq(Entry)
      BY <3>1, TablesAssumption
    <3>3. o % Word = o
      BY <3>2, TablesAssumption
    <3> QED BY <3>2, <3>3 DEF StackTable
  <2> HIDE DEF stack
  <2>2. DOMAIN stack = 1..Len(stack)
    BY <2>1, EntryFacts
  <2>3. StackSize(stack) = Cardinality(Slots(stack, Len(stack)))
        /\ ResultSize(stack) = Cardinality(Results(stack, Len(stack)))
    BY <2>1, StackSizeExact, ResultSizeExact
  <2> QED BY <2>2, <2>3, Zenon DEF stack, Slots, Results
<1> QED BY <1>1, TypeCorrect, PTL

-----------------------------------------------------------------------------
(* Positions *)

Ascending(s, n) == \A i \in 1..n : \A j \in 1..i - 1 : s[j] < s[i]

LEMMA AscendingExists ==
    ASSUME NEW S \in SUBSET Nat, IsFiniteSet(S)
    PROVE  \E s \in [1..Cardinality(S) -> S] : Ascending(s, Cardinality(S))
<1> DEFINE K == {k \in Nat : \A T \in SUBSET Nat :
                    IsFiniteSet(T) /\ Cardinality(T) = k => \E s \in [1..k -> T] : Ascending(s, k)}
<1>1. 0 \in K
  <2> SUFFICES ASSUME NEW T \in SUBSET Nat PROVE \E s \in [1..0 -> T] : Ascending(s, 0)
    OBVIOUS
  <2>1. 1..0 = {}
    OBVIOUS
  <2>2. <<>> \in [1..0 -> T]
    OBVIOUS
  <2>3. Ascending(<<>>, 0)
    BY <2>1 DEF Ascending
  <2> QED BY <2>2, <2>3
<1>2. ASSUME NEW k \in Nat, k \in K PROVE k + 1 \in K
  <2> SUFFICES ASSUME NEW T \in SUBSET Nat, IsFiniteSet(T), Cardinality(T) = k + 1
               PROVE  \E s \in [1..k + 1 -> T] : Ascending(s, k + 1)
    OBVIOUS
  <2>1. T # {}
    BY FS_EmptySet
  <2>2. PICK m \in T : \A y \in T : m <= y
    BY <2>1, LeastNat
  <2> DEFINE U == T \ {m}
  <2>3. IsFiniteSet(U) /\ Cardinality(U) = k /\ U \in SUBSET Nat
    BY FS_RemoveElement
  <2>4. \A y \in U : m < y /\ y \in T
    BY <2>2
  <2> HIDE DEF U
  <2>5. PICK s \in [1..k -> U] : Ascending(s, k)
    BY <1>2, <2>3
  <2> DEFINE r == [i \in 1..k + 1 |-> IF i = 1 THEN m ELSE s[i - 1]]
  <2>6. \A i \in 1..k : s[i] \in U
    OBVIOUS
  <2>7. r \in [1..k + 1 -> T]
    BY <2>4, <2>6
  <2>8. r[1] = m /\ \A i \in 2..k + 1 : r[i] = s[i - 1]
    OBVIOUS
  <2> HIDE DEF r
  <2>9. ASSUME NEW i \in 1..k + 1, NEW j \in 1..i - 1 PROVE r[j] < r[i]
    <3>1. i \in 2..k + 1 /\ i - 1 \in 1..k
      OBVIOUS
    <3>2. CASE j = 1
      BY <2>4, <2>6, <2>8, <3>1, <3>2
    <3>3. CASE j # 1
      <4>1. j \in 2..k + 1 /\ j - 1 \in 1..(i - 1) - 1
        BY <3>3
      <4>2. s[j - 1] < s[i - 1]
        BY <2>5, <3>1, <4>1 DEF Ascending
      <4> QED BY <2>8, <3>1, <4>1, <4>2
    <3> QED BY <3>2, <3>3
  <2> QED BY <2>7, <2>9 DEF Ascending
<1>3. Nat \subseteq K
  <2> HIDE DEF K
  <2> QED BY <1>1, <1>2, SetInduction
<1>4. Cardinality(S) \in K
  BY <1>3, FS_CardinalityType
<1> QED BY <1>4

\* The offset list of a function: the offsets of its table, from the first to
\* the last.
LEMMA OffsetFacts ==
    ASSUME NEW t \in Tables, NEW f \in DOMAIN t
    PROVE  LET D == DOMAIN t[f].at
               s == OffsetList(t, f)
           IN  /\ D \subseteq Nat /\ Len(s) \in Nat /\ DOMAIN s = 1..Len(s)
               /\ \A i \in 1..Len(s) : s[i] \in D /\ \A j \in 1..i - 1 : s[j] < s[i]
               /\ \A d \in D : \E i \in 1..Len(s) : s[i] = d
<1> DEFINE D == DOMAIN t[f].at
           n == Cardinality(D)
           s == OffsetList(t, f)
<1>1. D \in SUBSET (0..Word - 1) /\ Word \in Nat
  BY TablesAssumption
<1>2. IsFiniteSet(D) /\ D \in SUBSET Nat
  <2> HIDE DEF D
  <2>1. IsFiniteSet(0..Word - 1)
    <3>1. 0 \in Int /\ Word - 1 \in Int
      BY <1>1
    <3> QED BY <3>1, FS_Interval
  <2>2. IsFiniteSet(D)
    BY <1>1, <2>1, FS_Subset
  <2> QED BY <1>1, <2>2
<1>3. s = CHOOSE r \in [1..n -> D] : Ascending(r, n)
  BY Zenon DEF OffsetList, Ascending
<1> HIDE DEF s, D
<1>4. \E r \in [1..n -> D] : Ascending(r, n)
  BY <1>2, AscendingExists
<1>5. s \in [1..n -> D] /\ Ascending(s, n)
  BY <1>3, <1>4, Zenon
<1>6. n \in Nat
  BY <1>2, FS_CardinalityType
<1> HIDE DEF n
<1>7. s \in Seq(D) /\ Len(s) = n /\ DOMAIN s = 1..n
  <2>1. s \in Seq(D)
    BY <1>5, <1>6, SeqDef
  <2>2. DOMAIN s = 1..n
    BY <1>5
  <2> QED BY <1>6, <2>1, <2>2, LenProperties
<1>8. \A i \in 1..n : s[i] \in D /\ \A j \in 1..i - 1 : s[j] < s[i]
  BY <1>5 DEF Ascending
<1>9. \A i, j \in 1..n : s[i] = s[j] => i = j
  <2> SUFFICES ASSUME NEW i \in 1..n, NEW j \in 1..n, s[i] = s[j] PROVE i = j
    OBVIOUS
  <2>1. s[i] \in Nat /\ s[j] \in Nat
    BY <1>2, <1>8
  <2>2. i \in 1..j - 1 => s[i] < s[j]
    BY <1>8
  <2>3. j \in 1..i - 1 => s[j] < s[i]
    BY <1>8
  <2> QED BY <1>6, <2>1, <2>2, <2>3
<1>10. s \in Injection(1..n, D)
  BY <1>5, <1>9, <1>7 DEF Injection, IsInjective
<1>11. Cardinality(1..n) = Cardinality(D) /\ IsFiniteSet(1..n)
  <2>1. IsFiniteSet(1..n) /\ Cardinality(1..n) = n
    <3>1. Cardinality(1..n) = IF 1 > n THEN 0 ELSE n - 1 + 1
      BY <1>6, FS_Interval
    <3>2. IsFiniteSet(1..n)
      BY <1>6, FS_Interval
    <3> QED BY <1>6, <3>1, <3>2
  <2> QED BY <2>1 DEF n
<1>12. s \in Surjection(1..n, D)
  BY <1>2, <1>10, <1>11, FS_Injection
<1>13. \A d \in D : \E i \in 1..n : s[i] = d
  BY <1>12 DEF Surjection
<1> QED BY <1>2, <1>6, <1>7, <1>8, <1>13 DEF s, D

\* The greatest and the least of a set of offsets, if it has one.
LEMMA MaxIs ==
    ASSUME NEW S \in SUBSET Nat, NEW m \in S, \A y \in S : y <= m
    PROVE  Sets!Max(S) = m
<1>1. \A x \in S : (\A y \in S : x >= y) => x = m
  OBVIOUS
<1>2. \A y \in S : m >= y
  OBVIOUS
<1>3. Sets!Max(S) = CHOOSE x \in S : \A y \in S : x >= y
  BY DEF Sets!Max
<1>4. Sets!Max(S) \in S /\ \A y \in S : Sets!Max(S) >= y
  BY <1>2, <1>3, Zenon
<1> QED BY <1>1, <1>4

LEMMA MinIs ==
    ASSUME NEW S \in SUBSET Nat, NEW m \in S, \A y \in S : m <= y
    PROVE  Sets!Min(S) = m
<1>1. \A x \in S : (\A y \in S : x <= y) => x = m
  OBVIOUS
<1>2. \A y \in S : m <= y
  OBVIOUS
<1>3. Sets!Min(S) = CHOOSE x \in S : \A y \in S : x <= y
  BY DEF Sets!Min
<1>4. Sets!Min(S) \in S /\ \A y \in S : Sets!Min(S) <= y
  BY <1>2, <1>3, Zenon
<1> QED BY <1>1, <1>4

\* prev_pc and next_pc step to the neighbouring offset, whatever table a
\* compiler wrote and whatever offset a restore brought back.
THEOREM NeighboursFound == Spec => []StepsToNeighbour
<1>1. TypeOK => StepsToNeighbour
  <2> SUFFICES ASSUME TypeOK, cache # None, NEW f \in DOMAIN cache, NEW o \in 0..2 * Word - 1
               PROVE  LET offsets == DOMAIN cache[f].at
                          below   == {p \in offsets : p < o}
                          above   == {p \in offsets : p > o}
                      IN  /\ PrevPc(cache, <<f, o>>) =
                                {<<f, IF o \in offsets /\ below # {} THEN Sets!Max(below) ELSE o>>}
                          /\ \/ o \in offsets /\ below # {} /\ above = {}
                             \/ NextPc(cache, <<f, o>>) =
                                   {<<f, IF o \in offsets /\ below # {} THEN Sets!Min(above) ELSE o>>}
    BY Zenon DEF StepsToNeighbour
  <2> DEFINE offsets == DOMAIN cache[f].at
             below == {p \in offsets : p < o}
             above == {p \in offsets : p > o}
             offs == OffsetList(cache, f)
             prev == [i \in DOMAIN offs |-> {offs[IF i > 1 THEN i - 1 ELSE i]}]
             next == [i \in DOMAIN offs |-> IF i = 1 THEN {offs[1]}
                                             ELSE IF i < Len(offs) THEN {offs[i + 1]} ELSE 0..Word - 1]
             pc == <<f, o>>
  <2>1. cache \in Tables
    BY DEF TypeOK
  <2>2. /\ offsets \subseteq Nat /\ Len(offs) \in Nat /\ DOMAIN offs = 1..Len(offs)
        /\ \A i \in 1..Len(offs) : offs[i] \in offsets /\ \A j \in 1..i - 1 : offs[j] < offs[i]
        /\ \A d \in offsets : \E i \in 1..Len(offs) : offs[i] = d
    BY <2>1, OffsetFacts
  <2>3. pc[1] = f /\ pc[2] = o
    OBVIOUS
  <2>4. PrevPc(cache, pc) = Found(offs, pc, prev) /\ NextPc(cache, pc) = Found(offs, pc, next)
    BY DEF PrevPc, NextPc
  <2>5. (\A i \in 1..Len(offs) : prev[i] = {offs[IF i > 1 THEN i - 1 ELSE i]})
        /\ \A i \in 1..Len(offs) : next[i] = IF i = 1 THEN {offs[1]}
                                     ELSE IF i < Len(offs) THEN {offs[i + 1]} ELSE 0..Word - 1
    BY <2>2
  <2> HIDE DEF offs, offsets, prev, next, pc
  <2>6. CASE o \notin offsets
    <3>1. {i \in DOMAIN offs : offs[i] = pc[2]} = {}
      BY <2>2, <2>3, <2>6
    <3>2. Found(offs, pc, prev) = {pc} /\ Found(offs, pc, next) = {pc}
      BY <3>1 DEF Found
    <3> QED BY <2>4, <2>6, <3>2 DEF pc, offsets
  <2>7. CASE o \in offsets
    <3>1. PICK k \in 1..Len(offs) : offs[k] = o
      BY <2>2, <2>7
    <3>2. \A i \in 1..Len(offs) : offs[i] \in Nat /\ offs[i] \in offsets
      BY <2>2
    <3>3. ASSUME NEW i \in 1..Len(offs)
          PROVE  (i < k <=> offs[i] < o) /\ (i > k <=> offs[i] > o)
      <4>1. i < k => offs[i] < offs[k]
        <5>1. i < k => i \in 1..k - 1
          BY <2>2
        <5> QED BY <2>2, <5>1
      <4>2. i > k => offs[k] < offs[i]
        <5>1. i > k => k \in 1..i - 1
          BY <2>2
        <5> QED BY <2>2, <5>1
      <4>3. i = k => offs[i] = o
        BY <3>1
      <4>4. i \in Nat /\ k \in Nat /\ offs[i] \in Nat /\ o \in Nat
        BY <2>2, <3>1, <3>2
      <4> QED BY <3>1, <4>1, <4>2, <4>3, <4>4
    <3>4. {i \in DOMAIN offs : offs[i] = pc[2]} = {k}
      <4>1. \A i \in 1..Len(offs) : offs[i] = o => i = k
        BY <2>2, <3>2, <3>3
      <4> QED BY <2>2, <2>3, <3>1, <4>1
    <3>5. ASSUME NEW at PROVE Found(offs, pc, at) = {<<f, p>> : p \in at[k]}
      BY <2>3, <3>4 DEF Found
    <3>6. PrevPc(cache, pc) = {<<f, p>> : p \in {offs[IF k > 1 THEN k - 1 ELSE k]}}
      BY <2>4, <2>5, <3>5
    <3>7. CASE k = 1
      <4>1. below = {}
        <5>1. \A p \in offsets : ~(p < o)
          BY <2>2, <3>2, <3>3, <3>7
        <5> QED BY <5>1
      <4>2. prev[k] = {offs[k]} /\ next[k] = {offs[k]}
        <5>1. (IF k > 1 THEN k - 1 ELSE k) = k
          BY <3>7
        <5>2. prev[k] = {offs[IF k > 1 THEN k - 1 ELSE k]}
          BY <2>5
        <5>3. next[k] = IF k = 1 THEN {offs[1]}
                        ELSE IF k < Len(offs) THEN {offs[k + 1]} ELSE 0..Word - 1
          BY <2>5
        <5> QED BY <3>7, <5>1, <5>2, <5>3
      <4>3. Found(offs, pc, prev) = {<<f, o>>} /\ Found(offs, pc, next) = {<<f, o>>}
        BY <3>1, <3>5, <4>2
      <4> QED BY <2>4, <4>1, <4>3 DEF pc, offsets
    <3>8. CASE k > 1
      <4>1. k - 1 \in 1..Len(offs) /\ k - 1 < k
        BY <2>2, <3>8
      <4> DEFINE b == offs[k - 1]
      <4>2. b \in below
        BY <3>2, <3>3, <4>1
      <4>3. \A p \in below : p <= b
        <5> SUFFICES ASSUME NEW i \in 1..Len(offs), offs[i] < o PROVE offs[i] <= b
          BY <2>2
        <5>1. i < k
          BY <3>3
        <5>2. i = k - 1 \/ i \in 1..(k - 1) - 1
          BY <2>2, <5>1
        <5>3. i \in 1..(k - 1) - 1 => offs[i] < b
          BY <2>2, <4>1
        <5> QED BY <3>2, <4>1, <5>2, <5>3
      <4>4. below \in SUBSET Nat /\ above \in SUBSET Nat
        BY <2>2
      <4>5. Sets!Max(below) = b
        <5> HIDE DEF below, b
        <5> QED BY <4>2, <4>3, <4>4, MaxIs
      <4>6. PrevPc(cache, pc) = {<<f, Sets!Max(below)>>}
        BY <3>6, <3>8, <4>5
      <4>7. CASE k < Len(offs)
        <5>1. k + 1 \in 1..Len(offs) /\ k + 1 > k
          BY <2>2, <4>7
        <5> DEFINE a == offs[k + 1]
        <5>2. a \in above
          BY <3>2, <3>3, <5>1
        <5>3. \A p \in above : a <= p
          <6> SUFFICES ASSUME NEW i \in 1..Len(offs), offs[i] > o PROVE a <= offs[i]
            BY <2>2
          <6>1. i > k
            BY <3>3
          <6>2. i = k + 1 \/ k + 1 \in 1..i - 1
            BY <2>2, <6>1
          <6>3. k + 1 \in 1..i - 1 => a < offs[i]
            BY <2>2
          <6> QED BY <3>2, <5>1, <6>2, <6>3
        <5>4. Sets!Min(above) = a
          <6> HIDE DEF above, a
          <6> QED BY <4>4, <5>2, <5>3, MinIs
        <5>5. next[k] = {a}
          <6>1. k # 1
            BY <3>8
          <6>2. next[k] = IF k = 1 THEN {offs[1]}
                          ELSE IF k < Len(offs) THEN {offs[k + 1]} ELSE 0..Word - 1
            BY <2>5
          <6> QED BY <4>7, <6>1, <6>2
        <5>6. NextPc(cache, pc) = {<<f, Sets!Min(above)>>}
          BY <2>4, <3>5, <5>4, <5>5
        <5>7. below # {}
          BY <4>2
        <5>8. PrevPc(cache, pc) =
                 {<<f, IF o \in offsets /\ below # {} THEN Sets!Max(below) ELSE o>>}
          BY <2>7, <4>6, <5>7, Zenon
        <5>9. NextPc(cache, pc) =
                 {<<f, IF o \in offsets /\ below # {} THEN Sets!Min(above) ELSE o>>}
          BY <2>7, <5>6, <5>7, Zenon
        <5> QED BY <5>8, <5>9, Zenon DEF pc, offsets
      <4>8. CASE ~(k < Len(offs))
        <5>1. above = {}
          <6>1. \A i \in 1..Len(offs) : ~(i > k)
            BY <2>2, <4>8
          <6>2. \A p \in offsets : ~(p > o)
            BY <2>2, <3>3, <6>1
          <6> QED BY <6>2
        <5> QED BY <2>7, <4>2, <4>6, <5>1 DEF pc, offsets
      <4> QED BY <4>7, <4>8
    <3>9. k = 1 \/ k > 1
      BY <2>2
    <3> QED BY <3>7, <3>8, <3>9, Zenon
  <2> QED BY <2>6, <2>7
<1> QED BY <1>1, TypeCorrect, PTL

-----------------------------------------------------------------------------
(* What the printers read *)

\* Every value takes a slot, and one that is not of 32 bits takes more.
LEMMA SumGrows ==
    ASSUME NEW sizes \in Seq(Width)
    PROVE  /\ Sum(sizes) \in Nat /\ Len(sizes) <= Sum(sizes)
           /\ \A i \in 1..Len(sizes) : sizes[i] # 1 => Len(sizes) < Sum(sizes)
<1>1. Len(sizes) \in Nat /\ \A i \in 1..Len(sizes) : sizes[i] \in {1, 2, 4}
  BY LenProperties, ElementOfSeq DEF Width
<1>2. PICK G : /\ Sum(sizes) = G[Len(sizes)]
               /\ \A i \in 0..Len(sizes) : G[i] = SumNext(G, sizes, i)
  BY <1>1, SumUnfolds
<1> DEFINE L == Len(sizes)
           S == {d \in Nat : d <= L => /\ G[d] \in Nat /\ d <= G[d]
                                       /\ \A i \in 1..d : sizes[i] # 1 => d < G[d]}
<1>3. 0 \in S
  BY <1>1, <1>2 DEF SumNext
<1>4. ASSUME NEW d \in Nat, d \in S PROVE d + 1 \in S
  <2> SUFFICES ASSUME d + 1 <= L
               PROVE  /\ G[d + 1] \in Nat /\ d + 1 <= G[d + 1]
                      /\ \A i \in 1..d + 1 : sizes[i] # 1 => d + 1 < G[d + 1]
    OBVIOUS
  <2>1. d + 1 \in 0..L /\ d + 1 # 0 /\ d + 1 \in 1..L /\ (d + 1) - 1 = d
    BY <1>1
  <2>2. G[d + 1] = SumNext(G, sizes, d + 1)
    BY <1>2, <2>1
  <2>3. G[d + 1] = G[d] + sizes[d + 1]
    BY <2>1, <2>2 DEF SumNext
  <2>4. /\ G[d] \in Nat /\ d <= G[d] /\ sizes[d + 1] \in {1, 2, 4}
        /\ \A i \in 1..d : sizes[i] # 1 => d < G[d]
    BY <1>1, <1>4, <2>1
  <2>5. G[d + 1] \in Nat /\ d + 1 <= G[d + 1]
    BY <2>3, <2>4
  <2>6. ASSUME NEW i \in 1..d + 1, sizes[i] # 1 PROVE d + 1 < G[d + 1]
    <3>1. CASE i \in 1..d
      BY <2>3, <2>4, <2>6, <3>1
    <3>2. CASE i = d + 1
      BY <2>3, <2>4, <2>6, <3>2
    <3> QED BY <3>1, <3>2
  <2> QED BY <2>5, <2>6
<1>5. Nat \subseteq S
  <2> HIDE DEF S
  <2> QED BY <1>3, <1>4, SetInduction
<1>6. L \in S
  BY <1>1, <1>5
<1> QED BY <1>1, <1>2, <1>6

\* The pointer of array32_to_string counts the values if all are of 32 bits.
LEMMA OnesPassed ==
    ASSUME NEW n \in Nat, NEW sizes, \A i \in 1..n : sizes[i] = 1,
           NEW F, SumsUpto(F, sizes, n)
    PROVE  F[n] = n
<1>1. \A i \in 0..n : F[i] = SumNext(F, sizes, i)
  BY Zenon DEF SumsUpto
<1> DEFINE S == {d \in Nat : d <= n => F[d] = d}
<1>2. 0 \in S
  BY <1>1 DEF SumNext
<1>3. ASSUME NEW d \in Nat, d \in S PROVE d + 1 \in S
  <2> SUFFICES ASSUME d + 1 <= n PROVE F[d + 1] = d + 1
    OBVIOUS
  <2>1. d + 1 \in 0..n /\ d + 1 # 0 /\ d + 1 \in 1..n /\ (d + 1) - 1 = d
    OBVIOUS
  <2>2. F[d + 1] = F[d] + sizes[d + 1]
    BY <1>1, <2>1 DEF SumNext
  <2>3. F[d] = d /\ sizes[d + 1] = 1
    BY <1>3, <2>1
  <2> QED BY <2>2, <2>3
<1>4. Nat \subseteq S
  <2> HIDE DEF S
  <2> QED BY <1>2, <1>3, SetInduction
<1> QED BY <1>4

\* What the second loop of print_typed_array reads from the index j on.
ReadsNext(F, types, n, j) ==
    IF j >= n THEN {}
    ELSE CASE types[j + 1] = 1 -> {<<"values", j>>} \cup F[j + 1]
           [] types[j + 1] = 2 -> {<<"values", j>>, <<"values", j + 1>>} \cup F[j + 2]
           [] OTHER -> F[j + 1]
ReadsFrom(F, types, n, q) == F = [j \in q..n + 1 |-> ReadsNext(F, types, n, j)]

LEMMA ReadsExist ==
    ASSUME NEW types, NEW n \in Nat
    PROVE  \E F : ReadsFrom(F, types, n, 0)
<1> DEFINE S == {d \in Nat : d <= n + 1 => \E F : ReadsFrom(F, types, n, n + 1 - d)}
<1>1. 0 \in S
  <2> DEFINE F == [j \in n + 1..n + 1 |-> {}]
  <2>1. \A j \in n + 1..n + 1 : ReadsNext(F, types, n, j) = {}
    BY DEF ReadsNext
  <2>2. F = [j \in n + 1..n + 1 |-> ReadsNext(F, types, n, j)]
    BY <2>1
  <2>3. n + 1 - 0 = n + 1
    OBVIOUS
  <2>4. ReadsFrom(F, types, n, n + 1 - 0)
    BY <2>2, <2>3 DEF ReadsFrom
  <2> HIDE DEF F
  <2> QED BY <2>4
<1>2. ASSUME NEW d \in Nat, d \in S PROVE d + 1 \in S
  <2> SUFFICES ASSUME d + 1 <= n + 1
               PROVE  \E G : ReadsFrom(G, types, n, n + 1 - (d + 1))
    OBVIOUS
  <2> DEFINE q == n + 1 - (d + 1)
  <2>1. q \in 0..n /\ q + 1 = n + 1 - d
    OBVIOUS
  <2>2. PICK F : ReadsFrom(F, types, n, q + 1)
    BY <1>2, <2>1
  <2> DEFINE G == [j \in q..n + 1 |-> IF j = q THEN ReadsNext(F, types, n, q) ELSE F[j]]
  <2> HIDE DEF q
  <2>3. \A j \in q + 1..n + 1 : F[j] = ReadsNext(F, types, n, j)
    BY <2>2, Zenon DEF ReadsFrom
  <2>4. \A j \in q + 1..n + 1 : G[j] = F[j]
    BY <2>1
  <2>5. G[q] = ReadsNext(F, types, n, q)
    BY <2>1
  <2>6. G = [j \in q..n + 1 |-> G[j]]
    OBVIOUS
  <2> HIDE DEF G
  <2>7. ASSUME NEW j \in q..n + 1 PROVE ReadsNext(G, types, n, j) = ReadsNext(F, types, n, j)
    <3>1. CASE j >= n
      BY <3>1 DEF ReadsNext
    <3>2. CASE j < n
      <4>1. j + 1 \in q + 1..n + 1 /\ j + 2 \in q + 1..n + 1
        BY <2>1, <3>2
      <4>2. G[j + 1] = F[j + 1] /\ G[j + 2] = F[j + 2]
        BY <2>4, <4>1
      <4>3. ~(j >= n)
        BY <2>1, <3>2
      <4> QED BY <4>2, <4>3 DEF ReadsNext
    <3> QED BY <2>1, <3>1, <3>2
  <2>8. \A j \in q..n + 1 : G[j] = ReadsNext(G, types, n, j)
    <3>1. \A j \in q..n + 1 : j = q \/ j \in q + 1..n + 1
      BY <2>1
    <3> QED BY <2>3, <2>4, <2>5, <2>7, <3>1, Zenon
  <2>9. ReadsFrom(G, types, n, q)
    BY <2>6, <2>8, Zenon DEF ReadsFrom
  <2> QED BY <2>9 DEF q
<1>3. Nat \subseteq S
  <2> HIDE DEF S
  <2> QED BY <1>1, <1>2, SetInduction
<1>4. n + 1 \in S /\ n + 1 - (n + 1) = 0
  BY <1>3
<1> QED BY <1>4

\* The indices that are read lie below m, if those of the slots do.
LEMMA ReadsWithin ==
    ASSUME NEW types, NEW n \in Nat, NEW m \in Nat, n <= m,
           \A j \in 0..n - 1 : types[j + 1] = 2 => j + 1 < m,
           NEW F, ReadsFrom(F, types, n, 0)
    PROVE  F[0] \subseteq {"values"} \X (0..m - 1)
<1> DEFINE V == {"values"} \X (0..m - 1)
           S == {d \in Nat : \A j \in 0..n + 1 : j >= n + 1 - d => F[j] \subseteq V}
<1>1. \A j \in 0..n + 1 : F[j] = ReadsNext(F, types, n, j)
  BY Zenon DEF ReadsFrom
<1>2. 0 \in S
  <2>1. ASSUME NEW j \in 0..n + 1, j >= n + 1 - 0 PROVE F[j] = {}
    <3>1. j >= n
      BY <2>1
    <3> QED BY <1>1, <3>1 DEF ReadsNext
  <2> QED BY <2>1
<1>3. ASSUME NEW d \in Nat, d \in S PROVE d + 1 \in S
  <2> SUFFICES ASSUME NEW j \in 0..n + 1, j >= n + 1 - (d + 1) PROVE F[j] \subseteq V
    OBVIOUS
  <2>1. F[j] = ReadsNext(F, types, n, j)
    BY <1>1
  <2>2. CASE j >= n
    BY <2>1, <2>2 DEF ReadsNext
  <2>3. CASE j < n
    <3>1. j + 1 \in 0..n + 1 /\ j + 2 \in 0..n + 1 /\ j + 1 >= n + 1 - d /\ j + 2 >= n + 1 - d
      BY <2>3
    <3>2. F[j + 1] \subseteq V /\ F[j + 2] \subseteq V
      BY <1>3, <3>1
    <3>3. <<"values", j>> \in V /\ (types[j + 1] = 2 => <<"values", j + 1>> \in V)
      BY <2>3
    <3> HIDE DEF V
    <3>4. ~(j >= n)
      BY <2>3
    <3>5. CASE types[j + 1] = 1
      <4>1. F[j] = {<<"values", j>>} \cup F[j + 1]
        BY <2>1, <3>4, <3>5 DEF ReadsNext
      <4> QED BY <3>2, <3>3, <4>1
    <3>6. CASE types[j + 1] = 2
      <4>1. F[j] = {<<"values", j>>, <<"values", j + 1>>} \cup F[j + 2]
        BY <2>1, <3>4, <3>6 DEF ReadsNext
      <4> QED BY <3>2, <3>3, <3>6, <4>1
    <3>7. CASE types[j + 1] # 1 /\ types[j + 1] # 2
      <4>1. F[j] = F[j + 1]
        BY <2>1, <3>4, <3>7 DEF ReadsNext
      <4> QED BY <3>2, <4>1
    <3> QED BY <3>5, <3>6, <3>7
  <2> QED BY <2>2, <2>3
<1>4. Nat \subseteq S
  <2> HIDE DEF S
  <2> QED BY <1>2, <1>3, SetInduction
<1>5. \A j \in 0..n + 1 : j >= n + 1 - (n + 1) => F[j] \subseteq V
  <2>1. n + 1 \in S
    <3> HIDE DEF S
    <3> QED BY <1>4
  <2> QED BY <2>1
<1>6. 0 \in 0..n + 1 /\ 0 >= n + 1 - (n + 1)
  OBVIOUS
<1> HIDE DEF V, S
<1>7. F[0] \subseteq V
  BY <1>5, <1>6
<1> QED BY <1>7 DEF V

\* Both printers stay within buffers that have a slot for every 32 bits of the types.
LEMMA PrintedWithin ==
    ASSUME NEW y \in Seq(Width), NEW values \in Seq(Int), Sum(y) <= Len(values),
           NEW a, a = [types |-> Array(Len(y), y), values |-> Array(Sum(y), values)]
    PROVE  InBounds(a, PrintedTypedArray(a)) /\ InBounds(a, PrintedArray32(a))
<1> DEFINE n == Len(y)
           m == Sum(y)
<1>1. /\ a.types.size = n /\ a.types.contents = y
      /\ a.values.size = m /\ a.values.contents = values
  BY DEF Array
<1>2. n \in Nat /\ m \in Nat /\ n <= m /\ \A i \in 1..n : y[i] # 1 => n < m
  BY SumGrows, LenProperties
<1> HIDE DEF n, m
<1> DEFINE TypesRead == {"types"} \X (0..n - 1)
           ValuesRead == {"values"} \X (0..m - 1)
<1>3. ASSUME NEW reads, reads \subseteq TypesRead \cup ValuesRead PROVE InBounds(a, reads)
  <2>1. ASSUME NEW r \in reads
        PROVE  r[2] < Len((IF r[1] = "types" THEN a.types ELSE a.values).contents)
    <3>1. CASE r \in TypesRead
      <4>1. r[1] = "types" /\ r[2] < n
        BY <1>2, <3>1
      <4> QED BY <1>1, <4>1 DEF n
    <3>2. CASE r \in ValuesRead
      <4>1. r[1] # "types" /\ r[2] < m /\ r[2] \in Int
        BY <1>2, <3>2
      <4>2. m <= Len(values) /\ Len(values) \in Nat
        BY LenProperties DEF m
      <4>3. r[2] < Len(values)
        BY <1>2, <4>1, <4>2
      <4> QED BY <1>1, <4>1, <4>3
    <3> QED BY <1>3, <3>1, <3>2
  <2> QED BY <2>1, Zenon DEF InBounds
<1>4. PrintedTypedArray(a) \subseteq TypesRead \cup ValuesRead
  <2> DEFINE F == CHOOSE G : ReadsFrom(G, y, n, 0)
  <2>1. PrintedTypedArray(a) = {<<"types", j>> : j \in 0..n - 1} \cup F[0]
    <3>1. PrintedTypedArray(a) =
             {<<"types", j>> : j \in 0..a.types.size - 1}
             \cup (CHOOSE G : ReadsFrom(G, a.types.contents, a.types.size, 0))[0]
      BY Zenon DEF PrintedTypedArray, ReadsFrom, ReadsNext
    <3> QED BY <1>1, <3>1
  <2>2. ReadsFrom(F, y, n, 0)
    BY <1>2, ReadsExist
  <2> HIDE DEF F
  <2>3. \A j \in 0..n - 1 : y[j + 1] = 2 => j + 1 < m
    <3>1. \A j \in 0..n - 1 : j + 1 \in 1..n
      BY <1>2
    <3>2. ASSUME NEW j \in 0..n - 1, y[j + 1] = 2 PROVE j + 1 < m
      <4>1. n < m
        BY <1>2, <3>1, <3>2
      <4> QED BY <1>2, <4>1
    <3> QED BY <3>2
  <2>4. F[0] \subseteq ValuesRead
    BY <1>2, <2>2, <2>3, ReadsWithin
  <2>5. {<<"types", j>> : j \in 0..n - 1} \subseteq TypesRead
    OBVIOUS
  <2> HIDE DEF TypesRead, ValuesRead
  <2> QED BY <2>1, <2>4, <2>5
<1>5. PrintedArray32(a) \subseteq TypesRead \cup ValuesRead
  <2> DEFINE passed == [i \in 1..m |-> IF y[i] \in {1, 2} THEN y[i] ELSE 0]
             sp == CHOOSE G : SumsUpto(G, passed, m)
  <2>1. PrintedArray32(a) = IF n < m THEN {}
           ELSE {<<"types", i>> : i \in 0..m - 1} \cup {<<"values", v>> : v \in 0..sp[m] - 1}
    <3> DEFINE k == a.values.size
               Type(i) == a.types.contents[i]
               ps == [i \in 1..k |-> IF Type(i) \in {1, 2} THEN Type(i) ELSE 0]
    <3>1. PrintedArray32(a) = IF a.types.size < k THEN {}
             ELSE {<<"types", i>> : i \in 0..k - 1}
                  \cup {<<"values", v>> : v \in 0..(CHOOSE G : SumsUpto(G, ps, k))[k] - 1}
      BY Zenon DEF PrintedArray32, SumsUpto, SumNext
    <3> QED BY <1>1, <3>1
  <2>2. CASE n = m
    <3>1. \A i \in 1..m : passed[i] = 1
      BY <1>2, <2>2
    <3>2. SumsUpto(sp, passed, m)
      BY <1>2, SumsExist
    <3>3. sp[m] = m
      <4> HIDE DEF passed, sp
      <4> QED BY <1>2, <3>1, <3>2, OnesPassed
    <3> HIDE DEF sp, passed
    <3> QED BY <1>2, <2>1, <2>2, <3>3
  <2>3. CASE n # m
    <3>1. n < m
      BY <1>2, <2>3
    <3> HIDE DEF sp, passed
    <3> QED BY <2>1, <3>1
  <2> QED BY <2>2, <2>3
<1> QED BY <1>3, <1>4, <1>5

\* For every table and every frame: wasmig_checkpoint_stack_v3 prints the
\* frames that it has typed within the buffers of the host, and the printers of
\* debug.cpp would, unless the process has a wrong table, or call stack, and a
\* buffer that is shorter than the table says.
THEOREM PrintedInBounds == Spec => []PrintersInBounds
<1>1. PInv => PrintersInBounds
  <2> SUFFICES ASSUME PInv, Typing, NEW i \in 1..Typed
               PROVE  LET f == TypedFrame(cache, i)
                      IN  \A a \in {f.locals, f.value_stack} :
                             \/ WrongTable /\ Short(a)
                             \/ InBounds(a, PrintedTypedArray(a)) /\ InBounds(a, PrintedArray32(a))
    BY Zenon DEF PrintersInBounds
  <2>1. TypedSoFar(Typed) /\ program # None /\ Typed \in Nat
    BY TypedCount
  <2>2. /\ cache \in Tables /\ Known(cache, TypedAt(i)[1], TypedAt(i)[2])
        /\ i \in 1..Len(program.stack)
    BY <2>1, ProgramFacts DEF TypedSoFar, PInv
  <2>3. program.stack[i] \in Frames
    BY <2>1, <2>2, ProgramFacts, ElementOfSeq DEF PInv
  <2> DEFINE f == TypedFrame(cache, i)
  <2>4. PICK p \in Nat \X Nat, l \in LabelStacks, y \in Seq(Width), z \in Seq(Width),
             o \in Seq(Int), v \in Seq(Int) :
           f = [pc |-> p,
                locals |-> [types |-> Array(Len(y), y), values |-> Array(Sum(y), o)],
                value_stack |-> [types |-> Array(Len(z), z), values |-> Array(Sum(z), v)],
                label_stack |-> l]
    BY <2>2, <2>3, WithTypesShape DEF TypedFrame
  <2>5. ASSUME ~WrongTable
        PROVE  /\ f.locals.values.size = Len(f.locals.values.contents)
               /\ f.value_stack.values.size = Len(f.value_stack.values.contents)
    <3>1. Sized(f)
      BY <2>1, <2>5, RightlyTyped DEF PInv
    <3> HIDE DEF f
    <3> QED BY <3>1 DEF Sized
  <2>6. ASSUME NEW w \in Seq(Width), NEW s \in Seq(Int),
               NEW a, a = [types |-> Array(Len(w), w), values |-> Array(Sum(w), s)],
               ~WrongTable => a.values.size = Len(a.values.contents)
        PROVE  \/ WrongTable /\ Short(a)
               \/ InBounds(a, PrintedTypedArray(a)) /\ InBounds(a, PrintedArray32(a))
    <3>1. a.values.size = Sum(w) /\ a.values.contents = s
      BY <2>6 DEF Array
    <3>2. Len(s) \in Nat /\ Sum(w) \in Nat
      BY SumGrows, LenProperties
    <3>3. CASE WrongTable /\ Len(s) < Sum(w)
      BY <3>1, <3>3 DEF Short
    <3>4. CASE ~(WrongTable /\ Len(s) < Sum(w))
      <4>1. Sum(w) <= Len(s)
        BY <2>6, <3>1, <3>2, <3>4
      <4> QED BY <2>6, <4>1, PrintedWithin
    <3> QED BY <3>3, <3>4
  <2> DEFINE locals == [types |-> Array(Len(y), y), values |-> Array(Sum(y), o)]
             stack == [types |-> Array(Len(z), z), values |-> Array(Sum(z), v)]
  <2>7. f.locals = locals /\ f.value_stack = stack
    BY <2>4
  <2> HIDE DEF f, locals, stack
  <2>8. ASSUME NEW a \in {f.locals, f.value_stack}
        PROVE  \/ WrongTable /\ Short(a)
               \/ InBounds(a, PrintedTypedArray(a)) /\ InBounds(a, PrintedArray32(a))
    <3>1. CASE a = f.locals
      BY <2>5, <2>6, <2>7, <3>1 DEF locals
    <3>2. CASE a = f.value_stack
      BY <2>5, <2>6, <2>7, <3>2 DEF stack
    <3> QED BY <3>1, <3>2
  <2> QED BY <2>8 DEF f
<1> QED BY <1>1, Invariant, PTL

=============================================================================
