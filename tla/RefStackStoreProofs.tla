------------------------- MODULE RefStackStoreProofs -------------------------
(***************************************************************************)
(* The proof that the reference-counted heap of RefStack implements the    *)
(* immutable sequences of StackStore, for any finite heap and any client   *)
(* that does not own a created root twice.                                 *)
(***************************************************************************)
EXTENDS RefStackStore, RefStackProofs, SequenceTheorems, Induction

-----------------------------------------------------------------------------
(* Walks: what Contents is, for any heap *)

\* One more node in front of the walks in f.
Layer(f, d, kd, nx, vl) ==
    [p \in Pointer |->
        IF d = 0 \/ p \notin Node THEN <<>>
        ELSE IF kd[p] # "elem" THEN <<>>
        ELSE <<vl[p]>> \o f[nx[p]]]

Walk(F, n, kd, nx, vl) == F = [d \in 0..n |-> Layer(F[d - 1], d, kd, nx, vl)]

\* The recursion that defines Contents has a solution.
LEMMA WalkExists ==
    ASSUME NEW kd, NEW nx, NEW vl
    PROVE  \A n \in Nat : \E F : Walk(F, n, kd, nx, vl)
<1> DEFINE S == {n \in Nat : \E F : Walk(F, n, kd, nx, vl)}
<1>1. 0 \in S
  <2> DEFINE F == [d \in 0..0 |-> [p \in Pointer |-> <<>>]]
  <2>1. Walk(F, 0, kd, nx, vl)
    BY DEF Walk, Layer
  <2> QED BY <2>1
<1>2. ASSUME NEW n \in Nat, n \in S PROVE n + 1 \in S
  <2>1. PICK F : Walk(F, n, kd, nx, vl)
    BY <1>2
  <2> DEFINE G == [d \in 0..n + 1 |-> Layer(F[d - 1], d, kd, nx, vl)]
  <2>2. \A d \in 0..n : G[d] = F[d]
    BY <2>1 DEF Walk
  <2>3. \A d \in 0..n + 1 : G[d] = Layer(G[d - 1], d, kd, nx, vl)
    <3> TAKE d \in 0..n + 1
    <3>1. CASE d = 0
      BY <3>1 DEF Layer
    <3>2. CASE d # 0
      <4>1. d - 1 \in 0..n
        BY <3>2
      <4> QED BY <2>2, <4>1
    <3> QED BY <3>1, <3>2
  <2>4. Walk(G, n + 1, kd, nx, vl)
    <3>1. DOMAIN G = 0..n + 1 /\ G = [d \in 0..n + 1 |-> G[d]]
      OBVIOUS
    <3> HIDE DEF G
    <3> QED BY <2>3, <3>1 DEF Walk
  <2> QED BY <2>4
<1> HIDE DEF S
<1>3. Nat \subseteq S
  BY <1>1, <1>2, SetInduction
<1> QED BY <1>3 DEF S

\* A walk, node by node.
Steps(F, n, kd, nx, vl) ==
    /\ \A p \in Pointer : F[0][p] = <<>>
    /\ \A d \in 0..n : \A p \in Pointer : p \notin Node \/ kd[p] # "elem" => F[d][p] = <<>>
    /\ \A d \in 0..n - 1 : \A p \in Node :
          kd[p] = "elem" => F[d + 1][p] = <<vl[p]>> \o F[d][nx[p]]

LEMMA WalkStep ==
    ASSUME NEW F, NEW n \in Nat, NEW kd, NEW nx, NEW vl, Walk(F, n, kd, nx, vl)
    PROVE  Steps(F, n, kd, nx, vl)
<1>1. \A d \in 0..n : F[d] = Layer(F[d - 1], d, kd, nx, vl)
  BY DEF Walk
<1>2. \A p \in Pointer : F[0][p] = <<>>
  <2>1. F[0] = Layer(F[0 - 1], 0, kd, nx, vl)
    BY <1>1
  <2> QED BY <2>1 DEF Layer
<1>3. \A d \in 0..n : \A p \in Pointer : p \notin Node \/ kd[p] # "elem" => F[d][p] = <<>>
  BY <1>1 DEF Layer
<1>4. ASSUME NEW d \in 0..n - 1, NEW p \in Node, kd[p] = "elem"
      PROVE  F[d + 1][p] = <<vl[p]>> \o F[d][nx[p]]
  <2>1. d + 1 \in 0..n /\ d + 1 - 1 = d /\ d + 1 # 0 /\ p \in Pointer
    BY DEF Pointer
  <2>2. F[d + 1] = Layer(F[d], d + 1, kd, nx, vl)
    BY <1>1, <2>1
  <2> QED BY <1>4, <2>1, <2>2 DEF Layer
<1> QED BY <1>2, <1>3, <1>4 DEF Steps

\* Values walked over are stacks.
LEMMA WalkType ==
    ASSUME NEW F, NEW n \in Nat, NEW kd, NEW nx \in [Node -> Pointer],
           NEW vl \in [Node -> Value \cup {Zero}], Walk(F, n, kd, nx, vl)
    PROVE  \A d \in 0..n : \A p \in Pointer : F[d][p] \in Stack
<1>s. Steps(F, n, kd, nx, vl)
  BY WalkStep
<1> DEFINE S == {d \in Nat : d <= n => \A p \in Pointer : F[d][p] \in Stack}
<1>1. 0 \in S
  <2>1. \A p \in Pointer : F[0][p] = <<>>
    BY <1>s DEF Steps
  <2> QED BY <2>1, EmptySeq DEF Stack
<1>2. ASSUME NEW d \in Nat, d \in S PROVE d + 1 \in S
  <2> SUFFICES ASSUME d + 1 <= n, NEW p \in Pointer PROVE F[d + 1][p] \in Stack
    OBVIOUS
  <2>1. \A q \in Pointer : F[d][q] \in Stack
    BY <1>2
  <2>2. CASE p \notin Node \/ kd[p] # "elem"
    <3>1. F[d + 1][p] = <<>>
      BY <2>2, <1>s DEF Steps
    <3> QED BY <3>1, EmptySeq DEF Stack
  <2>3. CASE p \in Node /\ kd[p] = "elem"
    <3>1. d + 1 \in 0..n /\ d \in 0..n - 1
      OBVIOUS
    <3>2. F[d + 1][p] = <<vl[p]>> \o F[d][nx[p]]
      BY <2>3, <3>1, <1>s DEF Steps
    <3>3. <<vl[p]>> \in Seq(Value \cup {Zero})
      BY <2>3
    <3>4. F[d][nx[p]] \in Seq(Value \cup {Zero})
      BY <2>1, <2>3 DEF Stack
    <3> QED BY <3>2, <3>3, <3>4, ConcatProperties DEF Stack
  <2> QED BY <2>2, <2>3
<1> HIDE DEF S
<1>3. Nat \subseteq S
  BY <1>1, <1>2, SetInduction
<1> QED BY <1>3 DEF S

\* next does not leave C.
Closed(C, nx) == \A m \in C : nx[m] \in Node => nx[m] \in C

\* Two heaps that agree on a set of nodes that next does not leave give the
\* same walks from there.
Agree(S, kd, nx, vl, kd2, nx2, vl2) ==
    \A m \in S : kd2[m] = kd[m] /\ nx2[m] = nx[m] /\ vl2[m] = vl[m]

LEMMA WalkAgree ==
    ASSUME NEW n \in Nat, NEW S \in SUBSET Node,
           NEW F, NEW kd, NEW nx \in [Node -> Pointer], NEW vl, Walk(F, n, kd, nx, vl),
           NEW G, NEW kd2, NEW nx2, NEW vl2, Walk(G, n, kd2, nx2, vl2),
           Agree(S, kd, nx, vl, kd2, nx2, vl2), Closed(S, nx)
    PROVE  \A d \in 0..n : \A p \in Pointer : (p \in Node => p \in S) => G[d][p] = F[d][p]
<1> USE DEF Agree, Closed
<1>s. Steps(F, n, kd, nx, vl) /\ Steps(G, n, kd2, nx2, vl2)
  BY WalkStep
<1> DEFINE T == {d \in Nat : d <= n =>
                    \A p \in Pointer : (p \in Node => p \in S) => G[d][p] = F[d][p]}
<1>1. 0 \in T
  <2>1. \A p \in Pointer : F[0][p] = <<>> /\ G[0][p] = <<>>
    BY <1>s DEF Steps
  <2> QED BY <2>1
<1>2. ASSUME NEW d \in Nat, d \in T PROVE d + 1 \in T
  <2> SUFFICES ASSUME d + 1 <= n, NEW p \in Pointer, p \in Node => p \in S
               PROVE  G[d + 1][p] = F[d + 1][p]
    OBVIOUS
  <2>1. \A q \in Pointer : (q \in Node => q \in S) => G[d][q] = F[d][q]
    BY <1>2
  <2>2. d + 1 \in 0..n /\ d \in 0..n - 1
    OBVIOUS
  <2>3. CASE p \notin Node \/ kd[p] # "elem"
    <3>1. F[d + 1][p] = <<>> /\ G[d + 1][p] = <<>>
      BY <2>2, <2>3, <1>s DEF Steps
    <3> QED BY <3>1
  <2>4. CASE p \in Node /\ kd[p] = "elem"
    <3>1. F[d + 1][p] = <<vl[p]>> \o F[d][nx[p]]
      BY <2>2, <2>4, <1>s DEF Steps
    <3>0. G[d + 1][p] = <<vl2[p]>> \o G[d][nx2[p]]
      <4>1. p \in S /\ kd2[p] = "elem"
        BY <2>4
      <4>2. Steps(G, n, kd2, nx2, vl2)
        BY <1>s
      <4> QED BY <2>2, <2>4, <4>1, <4>2 DEF Steps
    <3>2. G[d][nx[p]] = F[d][nx[p]]
      BY <2>1, <2>4
    <3> QED BY <2>4, <3>0, <3>1, <3>2
  <2> QED BY <2>3, <2>4
<1> HIDE DEF T
<1>3. Nat \subseteq T
  BY <1>1, <1>2, SetInduction
<1> QED BY <1>3 DEF T

NoCycle(nx) == \A S \in SUBSET Node : S # {} => \E m \in S : \A x \in S : nx[x] # m

\* Walks from C that have taken more steps than C has nodes find nothing more.
Settled(F, n, nx) ==
    \A C \in SUBSET Node : Closed(C, nx) =>
        \A d \in Cardinality(C)..n - 1 : \A p \in Pointer :
            (p \in Node => p \in C) => F[d + 1][p] = F[d][p]

\* If no chain closes, one node of a set is pointed to by none of the others;
\* without it the set is smaller and next still does not leave it.
LEMMA WalkStable ==
    ASSUME NEW n \in Nat, NEW F, NEW kd, NEW nx \in [Node -> Pointer], NEW vl,
           Walk(F, n, kd, nx, vl), NoCycle(nx)
    PROVE  Settled(F, n, nx)
<1>s. Steps(F, n, kd, nx, vl)
  BY WalkStep
<1> DEFINE Stable(C, d) == \A p \in Pointer : (p \in Node => p \in C) => F[d + 1][p] = F[d][p]
           T == {c \in Nat : \A C \in SUBSET Node :
                    Closed(C, nx) /\ Cardinality(C) <= c => \A d \in c..n - 1 : Stable(C, d)}
<1>0. \A C \in SUBSET Node : IsFiniteSet(C) /\ Cardinality(C) \in Nat
  BY HeapAssumption, FS_Subset, FS_CardinalityType
<1>1. 0 \in T
  <2> SUFFICES ASSUME NEW C \in SUBSET Node, Cardinality(C) <= 0, NEW d \in 0..n - 1,
                      NEW p \in Pointer, p \in Node => p \in C
               PROVE  F[d + 1][p] = F[d][p]
    OBVIOUS
  <2>1. C = {}
    BY <1>0, FS_EmptySet
  <2>2. d + 1 \in 0..n /\ d \in 0..n
    OBVIOUS
  <2>3. F[d + 1][p] = <<>> /\ F[d][p] = <<>>
    BY <2>1, <2>2, <1>s DEF Steps
  <2> QED BY <2>3
<1>2. ASSUME NEW c \in Nat, c \in T PROVE c + 1 \in T
  <2> SUFFICES ASSUME NEW C \in SUBSET Node, Closed(C, nx), Cardinality(C) <= c + 1,
                      NEW d \in c + 1..n - 1, NEW p \in Pointer, p \in Node => p \in C
               PROVE  F[d + 1][p] = F[d][p]
    OBVIOUS
  <2>1. /\ d \in 0..n /\ d + 1 \in 0..n /\ d \in 0..n - 1
        /\ d - 1 \in c..n - 1 /\ d - 1 \in 0..n - 1 /\ d - 1 + 1 = d
    OBVIOUS
  <2>2. CASE p \notin Node \/ kd[p] # "elem"
    <3>1. F[d + 1][p] = <<>> /\ F[d][p] = <<>>
      BY <2>1, <2>2, <1>s DEF Steps
    <3> QED BY <3>1
  <2>3. CASE p \in Node /\ kd[p] = "elem"
    <3>1. PICK m \in C : \A x \in C : nx[x] # m
      BY <2>3 DEF NoCycle
    <3>2. Closed(C \ {m}, nx) /\ C \ {m} \in SUBSET Node
      BY <3>1 DEF Closed
    <3>3. Cardinality(C \ {m}) = Cardinality(C) - 1
      BY <1>0, <3>1, FS_RemoveElement
    <3>4. Cardinality(C \ {m}) <= c
      BY <1>0, <3>3
    <3>5. Stable(C \ {m}, d - 1)
      BY <1>2, <2>1, <3>2, <3>4
    <3>6. nx[p] \in Pointer /\ (nx[p] \in Node => nx[p] \in C \ {m})
      BY <2>3, <3>1 DEF Closed
    <3>7. F[d][nx[p]] = F[d - 1][nx[p]]
      BY <2>1, <3>5, <3>6
    <3>8. F[d + 1][p] = <<vl[p]>> \o F[d][nx[p]]
      BY <2>1, <2>3, <1>s DEF Steps
    <3>9. F[d][p] = <<vl[p]>> \o F[d - 1][nx[p]]
      <4>1. F[d - 1 + 1][p] = <<vl[p]>> \o F[d - 1][nx[p]]
        BY <2>1, <2>3, <1>s DEF Steps
      <4> QED BY <2>1, <4>1
    <3> QED BY <3>7, <3>8, <3>9
  <2> QED BY <2>2, <2>3
<1> HIDE DEF T
<1>3. Nat \subseteq T
  BY <1>1, <1>2, SetInduction
<1>4. \A C \in SUBSET Node : Closed(C, nx) => \A d \in Cardinality(C)..n - 1 : Stable(C, d)
  BY <1>0, <1>3 DEF T
<1> QED BY <1>4 DEF Settled

-----------------------------------------------------------------------------
(* Contents *)

LEMMA DepthNat == Depth \in Nat /\ Depth - 1 = Cardinality(Node) /\ Cardinality(Node) \in Nat
BY HeapAssumption, FS_CardinalityType DEF Depth

\* What a stack holds: a root and a pointer that is none hold nothing, an
\* element its value on top of the rest.
Shape(C, kd, nx, vl) ==
    /\ \A p \in Pointer : C[p] \in Stack
    /\ \A p \in Pointer : p \notin Node \/ kd[p] # "elem" => C[p] = <<>>
    /\ \A p \in Node : kd[p] = "elem" => C[p] = <<vl[p]>> \o C[nx[p]]

LEMMA WalkShape ==
    ASSUME NEW F, NEW kd, NEW nx \in [Node -> Pointer], NEW vl \in [Node -> Value \cup {Zero}],
           Walk(F, Depth, kd, nx, vl),
           NoCycle(nx)
    PROVE  Shape(F[Depth], kd, nx, vl)
<1>1. Depth \in 0..Depth /\ Depth - 1 \in 0..Depth - 1 /\ Depth - 1 + 1 = Depth
  BY DepthNat
<1>2. Steps(F, Depth, kd, nx, vl)
  BY DepthNat, WalkStep
<1>3. \A p \in Pointer : F[Depth][p] \in Stack
  BY <1>1, DepthNat, WalkType
<1>4. \A p \in Pointer : F[Depth - 1 + 1][p] = F[Depth - 1][p]
  <2>1. Node \in SUBSET Node /\ Depth - 1 \in Cardinality(Node)..Depth - 1
    BY DepthNat
  <2>2. Settled(F, Depth, nx)
    BY DepthNat, WalkStable
  <2>3. Closed(Node, nx)
    BY DEF Closed
  <2> QED BY <2>1, <2>2, <2>3 DEF Settled
<1>5. ASSUME NEW p \in Node, kd[p] = "elem"
      PROVE  F[Depth][p] = <<vl[p]>> \o F[Depth][nx[p]]
  <2>1. F[Depth - 1 + 1][p] = <<vl[p]>> \o F[Depth - 1][nx[p]]
    BY <1>1, <1>2, <1>5 DEF Steps
  <2>2. F[Depth][nx[p]] = F[Depth - 1][nx[p]]
    BY <1>1, <1>4
  <2> QED BY <1>1, <2>1, <2>2
<1> QED BY <1>1, <1>2, <1>3, <1>5 DEF Steps, Shape

LEMMA ContentsWalk == Walk(Contents, Depth, kind, next, value)
<1>1. Contents = CHOOSE F : Walk(F, Depth, kind, next, value)
  BY Zenon DEF Contents, Walk, Layer
<1> QED BY <1>1, WalkExists, DepthNat, Zenon

LEMMA ContentsWalkNext == Walk(Contents', Depth, kind', next', value')
<1>1. Contents' = CHOOSE F : Walk(F, Depth, kind', next', value')
  BY Zenon DEF Contents, Walk, Layer, Depth, Pointer
<1> QED BY <1>1, WalkExists, DepthNat, Zenon

LEMMA ContentShape ==
    ASSUME Typed, Acyclic PROVE Shape(Content, kind, next, value)
<1>1. Shape(Contents[Depth], kind, next, value)
  BY ContentsWalk, WalkShape DEF Typed, TypeOK, Acyclic, NoCycle
<1> QED BY <1>1 DEF Content

LEMMA ContentShapeNext ==
    ASSUME Typed', Acyclic' PROVE Shape(Content', kind', next', value')
<1>1. Shape(Contents'[Depth], kind', next', value')
  BY ContentsWalkNext, WalkShape DEF Typed, TypeOK, Acyclic, NoCycle
<1>2. Content' = Contents'[Depth]
  BY DEF Content, Depth
<1> QED BY <1>1, <1>2

\* A stack none of whose nodes change keeps its contents.
LEMMA ContentKept ==
    ASSUME Typed, NEW S \in SUBSET Node,
           Agree(S, kind, next, value, kind', next', value'), Closed(S, next)
    PROVE  \A p \in Pointer : (p \in Node => p \in S) => Content'[p] = Content[p]
<1>1. \A p \in Pointer : (p \in Node => p \in S) => Contents'[Depth][p] = Contents[Depth][p]
  <2>1. Depth \in 0..Depth /\ Depth \in Nat
    BY DepthNat
  <2>2. next \in [Node -> Pointer]
    BY DEF Typed, TypeOK
  <2>3. \A d \in 0..Depth : \A p \in Pointer :
           (p \in Node => p \in S) => Contents'[d][p] = Contents[d][p]
    BY <2>1, <2>2, ContentsWalk, ContentsWalkNext, WalkAgree
  <2> QED BY <2>1, <2>3
<1>2. Content' = Contents'[Depth] /\ Content = Contents[Depth]
  BY DEF Content, Depth
<1> QED BY <1>1, <1>2

-----------------------------------------------------------------------------
(* What a step leaves as it was *)

\* A slot that waits for its release belongs to the running call, and a
\* remove has a key.
CallKeys ==
    /\ \A s \in due : s[1] \in call.keys
    /\ call.op = "remove" => call.keys # {}

LEMMA CallKeysStep == Typed /\ CallKeys /\ [Next]_vars => CallKeys'
<1> SUFFICES ASSUME Typed, CallKeys, [Next]_vars PROVE CallKeys'
  OBVIOUS
<1>1. ASSUME due' \subseteq due, call' = call PROVE CallKeys'
  BY <1>1 DEF CallKeys
<1>2. ASSUME due' = {}, call' = NoCall PROVE CallKeys'
  BY <1>2 DEF CallKeys, NoCall
<1>3. ASSUME NEW op, NEW keys \in SUBSET Key, NEW a, NEW t, Start(op, keys, a, t),
             op = "remove" => keys # {}
      PROVE  CallKeys'
  <2>1. due' = (keys \cap present) \X Side /\ call'.keys = keys /\ call'.op = op
    BY <1>3 DEF Start
  <2> QED BY <1>3, <2>1 DEF CallKeys
<1>4. ASSUME NEW h \in Handle, Create(h) \/ TakeEmpty(h) \/ AllocFails(h) \/ Destroy(h)
      PROVE  CallKeys'
  BY <1>1, <1>4 DEF Create, TakeEmpty, AllocFails, Destroy, running
<1>5. ASSUME NEW h \in Handle, NEW g \in Handle,
             (\E v \in Value : Push(h, g, v)) \/ PopElem(h, g) \/ PopEmpty(h, g)
               \/ \E k \in Key : LoadPair(k, h, g)
      PROVE  CallKeys'
  BY <1>1, <1>5 DEF Push, PopElem, PopEmpty, LoadPair, running
<1>6. ASSUME NEW i \in Iter, IterNext(i) \/ IterDestroy(i) \/ \E g \in Handle : IterCreate(i, g)
      PROVE  CallKeys'
  BY <1>1, <1>6 DEF IterNext, IterDestroy, IterCreate, running
<1>7. ASSUME NEW k \in Key, NEW a \in Handle, NEW t \in Handle, SavePair(k, a, t)
      PROVE  CallKeys'
  BY <1>3, <1>7 DEF SavePair
<1>8. ASSUME MapDestroy \/ \E k \in Key : Remove(k) PROVE CallKeys'
  BY <1>3, <1>8 DEF MapDestroy, Remove
<1>9. ASSUME MapCreate \/ ReleaseStep \/ ReleaseSlot PROVE CallKeys'
  BY <1>1, <1>9 DEF MapCreate, ReleaseStep, ReleaseSlot, running
<1>10. ASSUME FinishSave \/ SaveThrows \/ FinishRemove \/ FinishDestroy PROVE CallKeys'
  BY <1>2, <1>10 DEF FinishSave, SaveThrows, FinishRemove, FinishDestroy, Releasing
<1>11. CASE UNCHANGED vars
  BY <1>1, <1>11 DEF vars, running
<1> QED BY <1>4, <1>5, <1>6, <1>7, <1>8, <1>9, <1>10, <1>11 DEF Next, Returning

StoreInv == Typed /\ Owned /\ Acyclic /\ CallKeys

LEMMA StoreInvInit == Init => StoreInv
<1>1. Init => Acyclic /\ CallKeys
  BY SentinelAssumption DEF Init, Acyclic, CallKeys, NoCall
<1> QED BY <1>1, TypedInit, OwnedInit DEF StoreInv

LEMMA StoreInvStep == ASSUME ~AliasRoots PROVE StoreInv /\ [Next]_vars => StoreInv'
BY TypedStep, OwnedStep, AcyclicStep, CallKeysStep DEF StoreInv

\* A pointer to no freed node.
Usable(p) == p \in Node => kind[p] # "free"

Held ==
    /\ \A h \in Handle : Usable(handle[h])
    /\ \A i \in Iter : Usable(iter[i])
    /\ \A s \in Slot : Usable(slot[s])
    /\ \A n \in Node : Usable(next[n])

LEMMA HeldUsable == Typed /\ Owned => Held
<1> SUFFICES ASSUME Typed, Owned PROVE Held
  OBVIOUS
<1>1. ASSUME NEW n \in Node, kind[n] = "free"
      PROVE  /\ \A h \in Handle : handle[h] # n
             /\ \A i \in Iter : iter[i] # n
             /\ \A s \in Slot : slot[s] # n
             /\ \A m \in Node : next[m] # n
  <2>1. ref[n] = 0 /\ RefsMatch
    BY <1>1 DEF Owned, FreeUnused
  <2> QED BY <2>1, ZeroUnheld
<1> QED BY <1>1 DEF Held, Usable

LEMMA HeldUsableNext == Typed' /\ Owned' => Held'
BY HeldUsable, PTL

\* A node that is in use before and after a step is not written.
LEMMA NodesKept ==
    ASSUME Typed, [Next]_vars
    PROVE  \A n \in Node : kind[n] # "free" /\ kind'[n] # "free" =>
               kind'[n] = kind[n] /\ next'[n] = next[n] /\ value'[n] = value[n]
<1> USE DEF Typed, TypeOK
<1> DEFINE Kept == \A n \in Node : kind[n] # "free" /\ kind'[n] # "free" =>
                      kind'[n] = kind[n] /\ next'[n] = next[n] /\ value'[n] = value[n]
<1>1. ASSUME NEW h \in Handle, Create(h) PROVE Kept
  BY <1>1 DEF Create, Malloc
<1>2. ASSUME NEW h \in Handle, NEW g \in Handle, NEW v \in Value, Push(h, g, v) PROVE Kept
  BY <1>2 DEF Push, Malloc
<1>3. CASE ReleaseStep
  BY <1>3 DEF ReleaseStep
<1>4. ASSUME UNCHANGED <<kind, next, value>> PROVE Kept
  BY <1>4
<1>5. ASSUME NEW h \in Handle, TakeEmpty(h) \/ AllocFails(h) \/ Destroy(h) PROVE Kept
  BY <1>4, <1>5 DEF TakeEmpty, AllocFails, Destroy, heap
<1>6. ASSUME NEW h \in Handle, NEW g \in Handle, PopElem(h, g) \/ PopEmpty(h, g) PROVE Kept
  BY <1>4, <1>6 DEF PopElem, PopEmpty, heap
<1>7. ASSUME NEW k \in Key, NEW h \in Handle, NEW g \in Handle,
             LoadPair(k, h, g) \/ SavePair(k, h, g)
      PROVE  Kept
  BY <1>4, <1>7 DEF LoadPair, SavePair, Start, heap
<1>8. ASSUME NEW i \in Iter, IterNext(i) \/ IterDestroy(i) \/ \E g \in Handle : IterCreate(i, g)
      PROVE  Kept
  BY <1>4, <1>8 DEF IterNext, IterDestroy, IterCreate, heap
<1>9. ASSUME MapCreate \/ MapDestroy \/ \E k \in Key : Remove(k) PROVE Kept
  BY <1>4, <1>9 DEF MapCreate, MapDestroy, Remove, Start, heap
<1>10. ASSUME ReleaseSlot \/ FinishSave \/ SaveThrows \/ FinishRemove \/ FinishDestroy PROVE Kept
  BY <1>4, <1>10 DEF ReleaseSlot, FinishSave, SaveThrows, FinishRemove, FinishDestroy, heap
<1>11. CASE UNCHANGED vars
  BY <1>4, <1>11 DEF vars, heap
<1> QED
  BY <1>1, <1>2, <1>3, <1>5, <1>6, <1>7, <1>8, <1>9, <1>10, <1>11 DEF Next, Returning

\* The contents of a stack that is in use before and after a step do not
\* change.
LEMMA ContentSteady ==
    ASSUME StoreInv, StoreInv', [Next]_vars, NEW p \in Pointer, Usable(p),
           p \in Node => kind'[p] # "free"
    PROVE  Content'[p] = Content[p]
<1> DEFINE S == {n \in Node : kind[n] # "free" /\ kind'[n] # "free"}
<1>1. Typed /\ Held /\ Held'
  BY HeldUsable, HeldUsableNext DEF StoreInv
<1>2. Agree(S, kind, next, value, kind', next', value')
  BY <1>1, NodesKept DEF Agree
<1>3. Closed(S, next)
  <2> SUFFICES ASSUME NEW n \in S, next[n] \in Node PROVE next[n] \in S
    BY DEF Closed
  <2>1. next'[n] = next[n]
    BY <1>1, NodesKept
  <2>2. kind[next[n]] # "free" /\ kind'[next'[n]] # "free"
    BY <1>1, <2>1 DEF Held, Usable
  <2> QED BY <2>1, <2>2
<1>4. S \in SUBSET Node /\ (p \in Node => p \in S)
  BY DEF Usable
<1> HIDE DEF S
<1> QED BY <1>1, <1>2, <1>3, <1>4, ContentKept

-----------------------------------------------------------------------------
(* What the client sees *)

\* A step of the heap, with the invariant on both sides.
Stepped == StoreInv /\ StoreInv' /\ [Next]_vars

\* What a step leaves alone denotes what it denoted.
LEMMA ViewSteady ==
    ASSUME Stepped
    PROVE  /\ \A h \in Handle : Content'[handle[h]] = Content[handle[h]] \/ handle'[h] # handle[h]
           /\ \A i \in Iter : Content'[iter[i]] = Content[iter[i]] \/ iter'[i] # iter[i]
           /\ \A s \in Slot : Content'[slot[s]] = Content[slot[s]] \/ slot'[s] # slot[s]
<1>1. Held /\ Held' /\ Typed
  BY HeldUsable, HeldUsableNext DEF Stepped, StoreInv
<1>2. ASSUME NEW p \in Pointer, Usable(p), p \in Node => kind'[p] # "free"
      PROVE  Content'[p] = Content[p]
  BY <1>2, ContentSteady DEF Stepped
<1>3. ASSUME NEW h \in Handle, handle'[h] = handle[h] PROVE Content'[handle[h]] = Content[handle[h]]
  <2>1. handle[h] \in Pointer /\ Usable(handle[h]) /\ (handle[h] \in Node => kind'[handle[h]] # "free")
    BY <1>1, <1>3 DEF Held, Usable, Typed, TypeOK
  <2> QED BY <1>2, <2>1
<1>4. ASSUME NEW i \in Iter, iter'[i] = iter[i] PROVE Content'[iter[i]] = Content[iter[i]]
  <2>1. iter[i] \in Pointer /\ Usable(iter[i]) /\ (iter[i] \in Node => kind'[iter[i]] # "free")
    BY <1>1, <1>4 DEF Held, Usable, Typed, TypeOK
  <2> QED BY <1>2, <2>1
<1>5. ASSUME NEW s \in Slot, slot'[s] = slot[s] PROVE Content'[slot[s]] = Content[slot[s]]
  <2>1. slot[s] \in Pointer /\ Usable(slot[s]) /\ (slot[s] \in Node => kind'[slot[s]] # "free")
    BY <1>1, <1>5 DEF Held, Usable, Typed, TypeOK
  <2> QED BY <1>2, <2>1
<1> QED BY <1>3, <1>4, <1>5

LEMMA StacksSame == ASSUME Stepped, handle' = handle PROVE Stacks' = Stacks
<1>1. \A h \in Handle : Content'[handle'[h]] = Content[handle[h]]
  BY ViewSteady
<1> QED BY <1>1 DEF Stacks

\* One handle gets the contents c.
LEMMA StacksPut ==
    ASSUME Stepped, NEW h \in Handle, NEW c, Content'[handle'[h]] = c,
           \A g \in Handle : g # h => handle'[g] = handle[g]
    PROVE  Stacks' = [Stacks EXCEPT ![h] = c]
<1>1. \A g \in Handle : g # h => Content'[handle'[g]] = Content[handle[g]]
  BY ViewSteady
<1>2. Stacks' = [g \in Handle |-> Content'[handle'[g]]]
  BY DEF Stacks
<1> QED BY <1>1, <1>2 DEF Stacks

LEMMA RestsSame == ASSUME Stepped, iter' = iter PROVE Rests' = Rests
<1>1. \A i \in Iter : Content'[iter'[i]] = Content[iter[i]]
  BY ViewSteady
<1> QED BY <1>1 DEF Rests

\* One iterator gets the rest c.
LEMMA RestsPut ==
    ASSUME Stepped, NEW i \in Iter, NEW c,
           c = IF iter'[i] = Null THEN Null ELSE Content'[iter'[i]],
           \A j \in Iter : j # i => iter'[j] = iter[j]
    PROVE  Rests' = [Rests EXCEPT ![i] = c]
<1>1. \A j \in Iter : j # i => Content'[iter'[j]] = Content[iter[j]] /\ iter'[j] = iter[j]
  BY ViewSteady
<1>2. Rests' = [j \in Iter |-> IF iter'[j] = Null THEN Null ELSE Content'[iter'[j]]]
  BY DEF Rests
<1> QED BY <1>1, <1>2 DEF Rests

\* The pair of a key whose slots the step leaves alone.
LEMMA PairSame ==
    ASSUME Stepped, NEW k \in Key, slot'[<<k, "addr">>] = slot[<<k, "addr">>],
           slot'[<<k, "type">>] = slot[<<k, "type">>],
           (k \notin present \/ k \in call.keys) <=> (k \notin present' \/ k \in call'.keys)
    PROVE  StoredPair(k)' = StoredPair(k)
<1>1. <<k, "addr">> \in Slot /\ <<k, "type">> \in Slot
  BY DEF Slot, Side
<1>2. /\ Content'[slot'[<<k, "addr">>]] = Content[slot[<<k, "addr">>]]
      /\ Content'[slot'[<<k, "type">>]] = Content[slot[<<k, "type">>]]
  BY <1>1, ViewSteady
<1> QED BY <1>2 DEF StoredPair, Pair

LEMMA PairsSame ==
    ASSUME Stepped, UNCHANGED <<slot, present>>, call'.keys = call.keys
    PROVE  Pairs' = Pairs
<1>1. \A k \in Key : StoredPair(k)' = StoredPair(k)
  BY PairSame
<1> QED BY <1>1 DEF Pairs

LEMMA AskedIdle == (call = NoCall => Asked = Null) /\ (call' = NoCall => Asked' = Null)
BY DEF Asked, NoCall

\* While a call runs, what it was asked does not change.
LEMMA AskedSame ==
    ASSUME Stepped, UNCHANGED <<call, handle>>,
           call.keys \cap present' = {} <=> call.keys \cap present = {}
    PROVE  Asked' = Asked
<1>1. CASE call.op \notin {"save", "remove"}
  BY <1>1 DEF Asked
<1>2. CASE call.op = "remove"
  BY <1>2 DEF Asked
<1>3. CASE call.op = "save"
  <2>1. call.addr \in Handle /\ call.type \in Handle
    BY <1>3 DEF Stepped, StoreInv, Typed, CallShape
  <2>2. /\ Content'[handle'[call.addr]] = Content[handle[call.addr]]
        /\ Content'[handle'[call.type]] = Content[handle[call.type]]
    BY <2>1, ViewSteady
  <2>3. Pair(handle[call.addr], handle[call.type])' = Pair(handle[call.addr], handle[call.type])
    BY <2>2 DEF Pair
  <2>4. (call.keys \cap present' = {}) = (call.keys \cap present = {})
    OBVIOUS
  <2> QED BY <1>3, <2>3, <2>4 DEF Asked
<1> QED BY <1>1, <1>2, <1>3

-----------------------------------------------------------------------------
(* One lemma per action: its step of StackStore *)

Unseen == Stacks' = Stacks /\ Rests' = Rests /\ Opened' = Opened /\ Pairs' = Pairs
          /\ Asked' = Asked

\* A call that writes handles shows nowhere else.
LEMMA HandlesOnly ==
    ASSUME Stepped, Idle, UNCHANGED <<iter, map, call>>
    PROVE  Rests' = Rests /\ Opened' = Opened /\ Pairs' = Pairs /\ Asked' = Asked
<1>1. call = NoCall /\ call' = NoCall /\ iter' = iter /\ slot' = slot /\ present' = present
      /\ up' = up
  BY DEF Idle, map
<1>2. Opened' = Opened
  BY <1>1 DEF Opened
<1> QED BY <1>1, <1>2, RestsSame, PairsSame, AskedIdle

\* The contents of what pop, load_pair and the iterators hand out.
LEMMA EmptyContent ==
    ASSUME Stepped
    PROVE  /\ Content[Null] = <<>> /\ Content[Empty] = <<>>
           /\ Content'[Null] = <<>> /\ Content'[Empty] = <<>>
           /\ \A p \in Pointer : Content'[OrEmpty(p)] = Content'[p]
<1>1. Shape(Content, kind, next, value) /\ Shape(Content', kind', next', value')
  BY ContentShape, ContentShapeNext DEF Stepped, StoreInv
<1>2. Null \in Pointer /\ Empty \in Pointer
  BY DEF Pointer
<1> QED BY <1>1, <1>2, SentinelAssumption DEF Shape, OrEmpty

LEMMA StoreClears ==
    ASSUME Stepped, NEW h \in Handle, NEW p, Idle, Store(h, p), UNCHANGED <<iter, map, call>>,
           Content'[p] = <<>>
    PROVE  Abstract!Clear(h)
<1>1. handle'[h] = p /\ \A g \in Handle : g # h => handle'[g] = handle[g]
  BY DEF Store, Stepped, StoreInv, Typed, TypeOK
<1>2. Stacks' = [Stacks EXCEPT ![h] = <<>>]
  BY <1>1, StacksPut
<1> QED BY <1>2, HandlesOnly DEF Abstract!Clear

LEMMA CreateClears ==
    ASSUME Stepped, NEW h \in Handle, Create(h) PROVE Abstract!Clear(h)
<1>1. PICK n \in Node : Malloc(n, "root", Null, Zero) /\ Store(h, n)
  BY DEF Create
<1>2. kind'[n] = "root" /\ n \in Pointer
  BY <1>1 DEF Malloc, Pointer, Stepped, StoreInv, Typed, TypeOK
<1>3. Content'[n] = <<>>
  BY <1>2, ContentShapeNext DEF Stepped, StoreInv, Shape
<1> QED BY <1>1, <1>3, StoreClears DEF Create, running

LEMMA SentinelClears ==
    ASSUME Stepped, NEW h \in Handle, TakeEmpty(h) \/ AllocFails(h) PROVE Abstract!Clear(h)
<1>1. Idle /\ (Store(h, Empty) \/ Store(h, Null)) /\ UNCHANGED <<iter, map, call>>
  BY DEF TakeEmpty, AllocFails, running
<1> QED BY <1>1, EmptyContent, StoreClears

LEMMA DestroyClears ==
    ASSUME Stepped, NEW h \in Handle, Destroy(h) PROVE Abstract!Clear(h)
<1>1. handle'[h] = Null /\ \A g \in Handle : g # h => handle'[g] = handle[g]
  BY DEF Destroy, Stepped, StoreInv, Typed, TypeOK
<1>2. Stacks' = [Stacks EXCEPT ![h] = <<>>]
  BY <1>1, EmptyContent, StacksPut
<1> QED BY <1>2, HandlesOnly DEF Abstract!Clear, Destroy

LEMMA PushPushes ==
    ASSUME Stepped, NEW h \in Handle, NEW g \in Handle, NEW v \in Value, Push(h, g, v)
    PROVE  Abstract!Push(h, g, v)
<1> USE DEF Stepped, StoreInv
<1>1. PICK n \in Node : Malloc(n, "elem", handle[g], v) /\ Store(h, n)
  BY DEF Push
<1>2. /\ kind[n] = "free" /\ kind'[n] = "elem" /\ next'[n] = handle[g] /\ value'[n] = v
      /\ \A m \in Node : m # n => kind'[m] = kind[m]
  BY <1>1 DEF Malloc, Typed, TypeOK
<1>3. Content'[n] = <<v>> \o Content'[handle[g]]
  BY <1>2, ContentShapeNext DEF Shape
<1>4. Content'[handle[g]] = Content[handle[g]]
  <2>1. handle[g] \in Pointer /\ Usable(handle[g])
    BY HeldUsable DEF Held, Typed, TypeOK
  <2>2. handle[g] \in Node => kind'[handle[g]] # "free"
    BY <1>2, <2>1 DEF Usable
  <2> QED BY <2>1, <2>2, ContentSteady
<1>5. handle'[h] = n /\ \A x \in Handle : x # h => handle'[x] = handle[x]
  BY <1>1 DEF Store, Typed, TypeOK
<1>6. Stacks' = [Stacks EXCEPT ![h] = <<v>> \o Content[handle[g]]]
  BY <1>3, <1>4, <1>5, StacksPut
<1>7. Stacks[g] = Content[handle[g]]
  BY DEF Stacks
<1>8. Idle /\ UNCHANGED <<iter, map, call>>
  BY DEF Push, running
<1> QED BY <1>6, <1>7, <1>8, HandlesOnly DEF Abstract!Push

\* What is below the top of a stack.
LEMMA RestContent ==
    ASSUME Stepped, UNCHANGED <<kind, next, value>>,
           NEW p \in Node, kind[p] = "elem"
    PROVE  /\ Content[p] # <<>> /\ Content[p] # Null
           /\ Content'[OrEmpty(next[p])] = Tail(Content[p])
<1> USE DEF Stepped, StoreInv
<1>1. next[p] \in Pointer /\ p \in Pointer /\ value[p] \in Value \cup {Zero}
  BY DEF Typed, TypeOK, Pointer
<1>2. Shape(Content, kind, next, value) /\ Shape(Content', kind', next', value')
  BY ContentShape, ContentShapeNext
<1>3. Content[p] = <<value[p]>> \o Content[next[p]] /\ Content[next[p]] \in Stack /\ Content[p] \in Stack
  BY <1>1, <1>2 DEF Shape
<1>4. Content[p] # <<>> /\ Tail(Content[p]) = Content[next[p]]
  <2> DEFINE s == Content[next[p]]
             t == <<value[p]>> \o s
  <2>1. s \in Seq(Value \cup {Zero}) /\ <<value[p]>> \in Seq(Value \cup {Zero})
        /\ Len(<<value[p]>>) = 1
    BY <1>1, <1>3 DEF Stack
  <2>2. /\ t \in Seq(Value \cup {Zero}) /\ Len(t) = 1 + Len(s)
        /\ \A i \in 1..1 + Len(s) : t[i] = IF i <= 1 THEN <<value[p]>>[i] ELSE s[i - 1]
    BY <2>1, ConcatProperties
  <2>3. Len(s) \in Nat
    BY <2>1, LenProperties
  <2> HIDE DEF s, t
  <2>4. t # <<>>
    BY <2>2, <2>3, EmptySeq
  <2>5. /\ Tail(t) \in Seq(Value \cup {Zero}) /\ Len(Tail(t)) = Len(t) - 1
        /\ \A i \in 1..Len(t) - 1 : Tail(t)[i] = t[i + 1]
    BY <2>2, <2>4, HeadTailProperties
  <2>6. \A i \in 1..Len(s) : t[i + 1] = s[i]
    BY <2>2, <2>3
  <2>7. Tail(t) = s
    BY <2>1, <2>2, <2>3, <2>5, <2>6, SeqEqual
  <2> QED BY <1>3, <2>4, <2>7 DEF s, t
<1>5. Content'[next[p]] = Content[next[p]]
  <2>1. Usable(next[p]) /\ (next[p] \in Node => kind'[next[p]] # "free")
    BY HeldUsable DEF Held, Usable
  <2> QED BY <1>1, <2>1, ContentSteady
<1>6. Content'[OrEmpty(next[p])] = Content'[next[p]]
  BY <1>1, EmptyContent
<1> QED BY <1>3, <1>4, <1>5, <1>6, NullAssumption

LEMMA PopPops ==
    ASSUME Stepped, NEW h \in Handle, NEW g \in Handle, PopElem(h, g)
    PROVE  Abstract!Pop(h, g)
<1>1. /\ handle[g] \in Node /\ kind[handle[g]] = "elem" /\ UNCHANGED <<kind, next, value>>
      /\ Store(h, OrEmpty(next[handle[g]])) /\ Idle /\ UNCHANGED <<iter, map, call>>
  BY DEF PopElem, running
<1>2. handle'[h] = OrEmpty(next[handle[g]]) /\ \A x \in Handle : x # h => handle'[x] = handle[x]
  BY <1>1 DEF Store, Stepped, StoreInv, Typed, TypeOK
<1>3. Content[handle[g]] # <<>> /\ Content'[handle'[h]] = Tail(Content[handle[g]])
  BY <1>1, <1>2, RestContent
<1>4. Stacks' = [Stacks EXCEPT ![h] = Tail(Content[handle[g]])]
  BY <1>2, <1>3, StacksPut
<1>5. Stacks[g] = Content[handle[g]]
  BY DEF Stacks
<1> QED BY <1>1, <1>3, <1>4, <1>5, HandlesOnly DEF Abstract!Pop, Abstract!Rest

LEMMA PopEmptyClears ==
    ASSUME ~AliasRoots, Stepped, NEW h \in Handle, NEW g \in Handle, PopEmpty(h, g)
    PROVE  Abstract!Clear(h)
<1>1. Idle /\ Store(h, Empty) /\ UNCHANGED <<iter, map, call>>
  BY DEF PopEmpty, running
<1> QED BY <1>1, EmptyContent, StoreClears

\* A pair of contents is a pair, not NULL.
LEMMA PairTyped ==
    ASSUME Stepped, NEW p \in Pointer, NEW q \in Pointer
    PROVE  Pair(p, q) \in Stack \X Stack /\ Pair(p, q) # Null
<1>1. Content[p] \in Stack /\ Content[q] \in Stack
  BY ContentShape DEF Stepped, StoreInv, Shape
<1> QED BY <1>1, NullAssumption DEF Pair

\* What a client that looks between calls finds for a key.
LEMMA PairOfKey ==
    ASSUME Stepped, call = NoCall, NEW k \in Key
    PROVE  /\ Pairs[k] = Null <=> k \notin present
           /\ k \in present => Pairs[k] = <<Content[slot[<<k, "addr">>]], Content[slot[<<k, "type">>]]>>
<1>1. <<k, "addr">> \in Slot /\ <<k, "type">> \in Slot
  BY DEF Slot, Side
<1>2. slot[<<k, "addr">>] \in Pointer /\ slot[<<k, "type">>] \in Pointer
  BY <1>1 DEF Stepped, StoreInv, Typed, TypeOK
<1>3. k \notin call.keys /\ Pairs[k] = StoredPair(k)
  BY DEF NoCall, Pairs
<1> QED BY <1>2, <1>3, PairTyped DEF StoredPair, Pair

LEMMA LoadLoads ==
    ASSUME Stepped, NEW k \in Key, NEW h \in Handle, NEW g \in Handle, LoadPair(k, h, g)
    PROVE  Abstract!Load(k, h, g)
<1> DEFINE a == slot[<<k, "addr">>]
           t == slot[<<k, "type">>]
<1>1. /\ Idle /\ call = NoCall /\ up /\ k \in present /\ h # g
      /\ Store2(h, OrEmpty(a), g, OrEmpty(t)) /\ UNCHANGED <<iter, map, call>>
  BY DEF LoadPair, running, Idle
<1>2. <<k, "addr">> \in Slot /\ <<k, "type">> \in Slot /\ slot' = slot
  BY <1>1 DEF Slot, Side, map
<1>3. a \in Pointer /\ t \in Pointer /\ Content'[a] = Content[a] /\ Content'[t] = Content[t]
  BY <1>2, ViewSteady DEF Stepped, StoreInv, Typed, TypeOK
<1>4. Content'[OrEmpty(a)] = Content[a] /\ Content'[OrEmpty(t)] = Content[t]
  BY <1>3, EmptyContent
<1>5. /\ handle'[h] = OrEmpty(a) /\ handle'[g] = OrEmpty(t)
      /\ \A x \in Handle : x # h /\ x # g => handle'[x] = handle[x]
  BY <1>1 DEF Store2, Stepped, StoreInv, Typed, TypeOK
<1> HIDE DEF a, t
<1>6. Stacks' = [Stacks EXCEPT ![h] = Content[a], ![g] = Content[t]]
  <2>1. \A x \in Handle : x # h /\ x # g => Content'[handle'[x]] = Content[handle[x]]
    BY <1>5, ViewSteady
  <2>2. Stacks' = [x \in Handle |-> Content'[handle'[x]]]
    BY DEF Stacks
  <2> QED BY <1>1, <1>4, <1>5, <2>1, <2>2 DEF Stacks
<1>7. Pairs[k] # Null /\ Pairs[k] = <<Content[a], Content[t]>>
  BY <1>1, PairOfKey DEF a, t
<1>8. Opened
  BY <1>1 DEF Opened, NoCall
<1> QED BY <1>1, <1>6, <1>7, <1>8, HandlesOnly DEF Abstract!Load

\* Iterators.
LEMMA IteratorsOnly ==
    ASSUME Stepped, Idle, UNCHANGED <<handle, map, call>>
    PROVE  Stacks' = Stacks /\ Opened' = Opened /\ Pairs' = Pairs /\ Asked' = Asked
<1>1. call = NoCall /\ call' = NoCall /\ slot' = slot /\ present' = present /\ up' = up
  BY DEF Idle, map
<1>2. Opened' = Opened
  BY <1>1 DEF Opened
<1> QED BY <1>1, <1>2, StacksSame, PairsSame, AskedIdle

LEMMA CreateIterates ==
    ASSUME Stepped, NEW i \in Iter, NEW g \in Handle, IterCreate(i, g)
    PROVE  Abstract!Iterate(i, g)
<1>1. /\ iter[i] = Null /\ Idle /\ UNCHANGED <<handle, map, call>>
      /\ iter' = [iter EXCEPT ![i] = OrEmpty(handle[g])]
  BY DEF IterCreate, running
<1>2. iter'[i] = OrEmpty(handle[g]) /\ \A j \in Iter : j # i => iter'[j] = iter[j]
  BY <1>1 DEF Stepped, StoreInv, Typed, TypeOK
<1>3. handle[g] \in Pointer /\ OrEmpty(handle[g]) # Null
  BY SentinelAssumption DEF OrEmpty, Stepped, StoreInv, Typed, TypeOK
<1>4. Content'[OrEmpty(handle[g])] = Content[handle[g]]
  BY <1>1, <1>3, EmptyContent, ViewSteady
<1>5. Rests' = [Rests EXCEPT ![i] = Content[handle[g]]]
  BY <1>2, <1>3, <1>4, RestsPut
<1>6. Rests[i] = Null /\ Stacks[g] = Content[handle[g]]
  BY <1>1 DEF Rests, Stacks
<1> QED BY <1>1, <1>5, <1>6, IteratorsOnly DEF Abstract!Iterate

LEMMA NextAdvances ==
    ASSUME Stepped, NEW i \in Iter, IterNext(i) PROVE Abstract!Advance(i)
<1>1. /\ iter[i] \in Node /\ kind[iter[i]] = "elem" /\ Idle /\ UNCHANGED <<handle, map, call>>
      /\ iter' = [iter EXCEPT ![i] = OrEmpty(next[iter[i]])] /\ UNCHANGED <<kind, next, value>>
  BY DEF IterNext
<1>2. iter'[i] = OrEmpty(next[iter[i]]) /\ \A j \in Iter : j # i => iter'[j] = iter[j]
  BY <1>1 DEF Stepped, StoreInv, Typed, TypeOK
<1>3. iter'[i] # Null /\ iter[i] # Null
  BY <1>1, <1>2, SentinelAssumption DEF OrEmpty
<1>4. /\ Content[iter[i]] # <<>> /\ Content[iter[i]] # Null
      /\ Content'[iter'[i]] = Tail(Content[iter[i]])
  BY <1>1, <1>2, RestContent
<1>5. Rests' = [Rests EXCEPT ![i] = Tail(Content[iter[i]])]
  BY <1>2, <1>3, <1>4, RestsPut
<1>6. Rests[i] = Content[iter[i]]
  BY <1>3 DEF Rests
<1> QED BY <1>1, <1>4, <1>5, <1>6, IteratorsOnly DEF Abstract!Advance

LEMMA DestroyStops ==
    ASSUME Stepped, NEW i \in Iter, IterDestroy(i) PROVE Abstract!Stop(i)
<1>1. iter' = [iter EXCEPT ![i] = Null] /\ Idle /\ UNCHANGED <<handle, map, call>>
  BY DEF IterDestroy
<1>2. iter'[i] = Null /\ \A j \in Iter : j # i => iter'[j] = iter[j]
  BY <1>1 DEF Stepped, StoreInv, Typed, TypeOK
<1>3. Rests' = [Rests EXCEPT ![i] = Null]
  BY <1>2, RestsPut
<1> QED BY <1>1, <1>3, IteratorsOnly DEF Abstract!Stop

-----------------------------------------------------------------------------
(* Map operations *)

\* An operation on the map leaves what the client owns.
LEMMA ClientSame ==
    ASSUME Stepped, UNCHANGED <<handle, iter>> PROVE Stacks' = Stacks /\ Rests' = Rests
BY StacksSame, RestsSame

LEMMA CreateOpens ==
    ASSUME Stepped, MapCreate PROVE Abstract!Open
<1>1. /\ call = NoCall /\ call' = NoCall /\ ~up /\ up' = TRUE
      /\ UNCHANGED <<handle, iter, slot, present>>
  BY DEF MapCreate, Idle, running, client
<1>2. ~Opened /\ Opened' = TRUE
  BY <1>1 DEF Opened, NoCall
<1> QED BY <1>1, <1>2, ClientSame, PairsSame, AskedIdle DEF Abstract!Open

\* From the start of an operation its keys count as absent.
Hidden(op, keys, a, t) ==
    /\ call = NoCall /\ up /\ up' = up /\ Opened /\ Asked = Null
    /\ call' = [op |-> op, keys |-> keys, addr |-> a, type |-> t]
    /\ Stacks' = Stacks /\ Rests' = Rests
    /\ \A k \in Key : k \in keys => StoredPair(k)' = Null
    /\ \A k \in Key : k \notin keys => StoredPair(k)' = StoredPair(k)
    /\ handle' = handle /\ present' = present

LEMMA StartHides ==
    ASSUME Stepped, NEW op, NEW keys \in SUBSET Key, NEW a, NEW t, Start(op, keys, a, t)
    PROVE  Hidden(op, keys, a, t)
<1>1. /\ call = NoCall /\ up /\ call' = [op |-> op, keys |-> keys, addr |-> a, type |-> t]
      /\ UNCHANGED <<handle, iter, up, slot, present>>
  BY DEF Start, Idle, client, map
<1>2. Opened
  BY <1>1 DEF Opened, NoCall
<1>3. \A k \in Key : k \in keys => StoredPair(k)' = Null
  BY <1>1 DEF StoredPair
<1>4. ASSUME NEW k \in Key, k \notin keys PROVE StoredPair(k)' = StoredPair(k)
  <2>1. (k \notin present \/ k \in call.keys) <=> (k \notin present' \/ k \in call'.keys)
    BY <1>1, <1>4 DEF NoCall
  <2> QED BY <1>1, <2>1, PairSame
<1> QED BY <1>1, <1>2, <1>3, <1>4, ClientSame, AskedIdle DEF Hidden

LEMMA DestroyCloses ==
    ASSUME Stepped, MapDestroy PROVE Abstract!Close
<1>1. Hidden("destroy", Key, Null, Null)
  BY StartHides DEF MapDestroy
<1>2. Opened' = FALSE
  BY <1>1 DEF Opened, Hidden
<1>3. Asked' = Null
  BY <1>1 DEF Asked, Hidden
<1>4. Pairs' = [k \in Key |-> Null]
  BY <1>1 DEF Pairs, Hidden
<1> QED BY <1>1, <1>2, <1>3, <1>4 DEF Abstract!Close, Hidden

LEMMA RemoveRemoves ==
    ASSUME Stepped, NEW k \in Key, Remove(k) PROVE Abstract!Remove(k)
<1>1. k \in present /\ Start("remove", {k}, Null, Null)
  BY DEF Remove
<1>2. /\ call = NoCall /\ up' = up /\ Opened /\ Asked = Null
      /\ call' = [op |-> "remove", keys |-> {k}, addr |-> Null, type |-> Null]
      /\ Stacks' = Stacks /\ Rests' = Rests
      /\ StoredPair(k)' = Null
      /\ \A j \in Key : j # k => StoredPair(j)' = StoredPair(j)
  <2>1. Hidden("remove", {k}, Null, Null)
    BY <1>1, StartHides
  <2> QED BY <2>1 DEF Hidden
<1>3. Pairs[k] # Null
  BY <1>1, <1>2, PairOfKey
<1>4. Pairs' = [Pairs EXCEPT ![k] = Null]
  BY <1>2 DEF Pairs
<1>5. Opened' = Opened
  BY <1>2 DEF Opened, NoCall
<1>6. Asked' = [key |-> k, pair |-> Null, new |-> FALSE]
  BY <1>2 DEF Asked
<1> QED BY <1>2, <1>3, <1>4, <1>5, <1>6 DEF Abstract!Remove

LEMMA SaveSaves ==
    ASSUME Stepped, NEW k \in Key, NEW h \in Handle, NEW g \in Handle, SavePair(k, h, g)
    PROVE  Abstract!Save(k, h, g)
<1>1. Start("save", {k}, h, g)
  BY DEF SavePair
<1>2. /\ call = NoCall /\ up' = up /\ Opened /\ Asked = Null
      /\ call' = [op |-> "save", keys |-> {k}, addr |-> h, type |-> g]
      /\ Stacks' = Stacks /\ Rests' = Rests
      /\ StoredPair(k)' = Null
      /\ \A j \in Key : j # k => StoredPair(j)' = StoredPair(j)
      /\ handle' = handle /\ present' = present
  <2>1. Hidden("save", {k}, h, g)
    BY <1>1, StartHides
  <2> QED BY <2>1 DEF Hidden
<1>3. Pairs[k] = Null <=> k \notin present
  BY <1>2, PairOfKey
<1>4. Pairs' = [Pairs EXCEPT ![k] = Null]
  BY <1>2 DEF Pairs
<1>5. Opened' = Opened
  BY <1>2 DEF Opened, NoCall
<1>6. Pair(handle[h], handle[g])' = <<Stacks[h], Stacks[g]>>
  <2>1. Content'[handle'[h]] = Content[handle[h]] /\ Content'[handle'[g]] = Content[handle[g]]
    BY <1>2, ViewSteady
  <2> QED BY <2>1 DEF Pair, Stacks
<1>7. Asked' = [key |-> k, pair |-> <<Stacks[h], Stacks[g]>>, new |-> Pairs[k] = Null]
  <2>1. (CHOOSE j \in {k} : TRUE) = k
    OBVIOUS
  <2>2. Asked' = [key |-> k, pair |-> Pair(handle[h], handle[g])',
                  new |-> {k} \cap present = {}]
    BY <1>2, <2>1 DEF Asked, Pair
  <2>3. ({k} \cap present = {}) = (Pairs[k] = Null)
    BY <1>3
  <2> QED BY <1>6, <2>2, <2>3
<1> QED BY <1>2, <1>4, <1>5, <1>7 DEF Abstract!Save

\* Releases are not seen: the keys they empty are those of the call.
LEMMA ReleaseUnseen ==
    ASSUME Stepped, ReleaseStep \/ ReleaseSlot PROVE Unseen
<1>1. UNCHANGED <<handle, iter, up, present, call>>
  BY DEF ReleaseStep, ReleaseSlot, client, map
<1>2. Asked' = Asked /\ Opened' = Opened
  BY <1>1, AskedSame DEF Opened
<1>3. ASSUME NEW k \in Key PROVE StoredPair(k)' = StoredPair(k)
  <2>1. CASE ReleaseStep
    BY <1>1, <2>1, PairSame DEF ReleaseStep, map
  <2>2. CASE ReleaseSlot
    <3>1. PICK s \in NextDue : slot' = [slot EXCEPT ![s] = Null]
      BY <2>2 DEF ReleaseSlot
    <3>2. s \in due /\ s[1] \in call.keys
      BY DEF NextDue, Stepped, StoreInv, CallKeys
    <3>3. CASE k \in call.keys
      BY <1>1, <3>3 DEF StoredPair
    <3>4. CASE k \notin call.keys
      <4>1. s # <<k, "addr">> /\ s # <<k, "type">> /\ <<k, "addr">> \in Slot /\ <<k, "type">> \in Slot
        BY <3>2, <3>4 DEF Slot, Side
      <4>2. slot'[<<k, "addr">>] = slot[<<k, "addr">>] /\ slot'[<<k, "type">>] = slot[<<k, "type">>]
        BY <3>1, <4>1 DEF Stepped, StoreInv, Typed, TypeOK
      <4> QED BY <1>1, <4>2, PairSame
    <3> QED BY <3>3, <3>4
  <2> QED BY <2>1, <2>2 DEF Stepped
<1>4. Pairs' = Pairs
  BY <1>3 DEF Pairs
<1> QED BY <1>1, <1>2, <1>4, ClientSame DEF Unseen

\* The pair of the call's key is in the map when save_pair returns.
LEMMA FinishSaves ==
    ASSUME Stepped, FinishSave PROVE Abstract!Saved
<1> USE DEF Stepped, StoreInv
<1>1. /\ call.op = "save" /\ call' = NoCall /\ present' = present \cup call.keys
      /\ UNCHANGED <<kind, next, value, handle, iter, up>>
      /\ slot' = Entries(handle[call.addr], handle[call.type])
  BY DEF FinishSave, Releasing, client
<1>2. PICK k \in Key : call.keys = {k}
  BY <1>1 DEF Typed, CallShape
<1>3. call.addr \in Handle /\ call.type \in Handle
  BY <1>1 DEF Typed, CallShape
<1> DEFINE p == Pair(handle[call.addr], handle[call.type])
<1>4. p # Null
  BY <1>3, PairTyped DEF Typed, TypeOK
<1>5. Asked = [key |-> k, pair |-> p, new |-> {k} \cap present = {}]
  <2>1. (CHOOSE j \in {k} : TRUE) = k
    OBVIOUS
  <2> QED BY <1>1, <1>2, <2>1 DEF Asked
<1>6. Asked # Null
  <2>1. p \in Stack \X Stack
    BY <1>3, PairTyped DEF Typed, TypeOK
  <2>2. Asked \in [key: Key, pair: (Stack \X Stack) \cup {Null}, new: BOOLEAN]
    <3> HIDE DEF p
    <3> QED BY <1>5, <2>1
  <2> QED BY <2>2, NullAssumption
<1>7. Asked' = Null
  BY <1>1, AskedIdle
<1>8. <<k, "addr">> \in Slot /\ <<k, "type">> \in Slot
  BY DEF Slot, Side
<1>9. StoredPair(k)' = p
  <2>1. slot'[<<k, "addr">>] = handle[call.addr] /\ slot'[<<k, "type">>] = handle[call.type]
    BY <1>1, <1>2, <1>8 DEF Entries
  <2>2. k \in present' /\ k \notin call'.keys
    BY <1>1, <1>2 DEF NoCall
  <2>3. /\ Content'[handle[call.addr]] = Content[handle[call.addr]]
        /\ Content'[handle[call.type]] = Content[handle[call.type]]
    BY <1>1, <1>3, ViewSteady
  <2> QED BY <2>1, <2>2, <2>3 DEF StoredPair, Pair
<1>10. ASSUME NEW j \in Key, j # k PROVE StoredPair(j)' = StoredPair(j)
  <2>1. <<j, "addr">> \in Slot /\ <<j, "type">> \in Slot
    BY DEF Slot, Side
  <2>2. slot'[<<j, "addr">>] = slot[<<j, "addr">>] /\ slot'[<<j, "type">>] = slot[<<j, "type">>]
    BY <1>1, <1>2, <1>10, <2>1 DEF Entries
  <2>3. (j \notin present \/ j \in call.keys) <=> (j \notin present' \/ j \in call'.keys)
    BY <1>1, <1>2, <1>10 DEF NoCall
  <2> QED BY <2>2, <2>3, PairSame
<1>11. Pairs' = [Pairs EXCEPT ![k] = p]
  BY <1>9, <1>10 DEF Pairs
<1>12. Opened' = Opened
  BY <1>1 DEF Opened, NoCall
<1> HIDE DEF p
<1> QED BY <1>1, <1>4, <1>5, <1>6, <1>7, <1>11, <1>12, ClientSame DEF Abstract!Saved

\* A request is none.
LEMMA AskedSomething ==
    ASSUME Stepped, call.op \in {"save", "remove"}, call.keys # {}, call.keys \subseteq Key
    PROVE  Asked # Null /\ (Asked.pair = Null <=> call.op = "remove")
           /\ Asked.new = (call.op = "save" /\ call.keys \cap present = {})
<1> DEFINE k == CHOOSE j \in call.keys : TRUE
           p == IF call.op = "remove" THEN Null
                ELSE Pair(handle[call.addr], handle[call.type])
           n == call.op = "save" /\ call.keys \cap present = {}
<1>1. k \in Key
  OBVIOUS
<1>2. p \in (Stack \X Stack) \cup {Null} /\ (p = Null <=> call.op = "remove")
  <2>1. CASE call.op = "remove"
    BY <2>1
  <2>2. CASE call.op = "save"
    <3>1. handle[call.addr] \in Pointer /\ handle[call.type] \in Pointer
      BY <2>2 DEF Stepped, StoreInv, Typed, TypeOK, CallShape
    <3> QED BY <2>2, <3>1, PairTyped
  <2> QED BY <2>1, <2>2
<1>3. Asked = [key |-> k, pair |-> p, new |-> n]
  BY DEF Asked
<1>4. n \in BOOLEAN
  OBVIOUS
<1>5. Asked \in [key: Key, pair: (Stack \X Stack) \cup {Null}, new: BOOLEAN]
  <2> HIDE DEF k, p, n
  <2> QED BY <1>1, <1>2, <1>3, <1>4
<1>6. Asked # Null
  BY <1>5, NullAssumption
<1>7. Asked.pair = p /\ Asked.new = n
  BY <1>3
<1> QED BY <1>2, <1>6, <1>7

LEMMA ThrowFails ==
    ASSUME Stepped, SaveThrows PROVE Abstract!SaveFails
<1> USE DEF Stepped, StoreInv
<1>1. /\ call.op = "save" /\ call' = NoCall /\ call.keys \cap present = {}
      /\ UNCHANGED <<handle, iter, up, present, slot>>
  BY DEF SaveThrows, Releasing, map
<1>2. PICK k \in Key : call.keys = {k}
  BY <1>1 DEF Typed, CallShape
<1>3. Asked # Null /\ Asked.pair # Null /\ Asked.new
  BY <1>1, <1>2, AskedSomething
<1>4. Asked' = Null /\ Opened' = Opened
  BY <1>1, AskedIdle DEF Opened, NoCall
<1>5. \A j \in Key : (j \notin present \/ j \in call.keys) <=> (j \notin present' \/ j \in call'.keys)
  BY <1>1 DEF NoCall
<1>6. \A j \in Key : StoredPair(j)' = StoredPair(j)
  BY <1>1, <1>5, PairSame
<1>7. Pairs' = Pairs
  BY <1>6 DEF Pairs
<1> QED BY <1>1, <1>3, <1>4, <1>7, ClientSame DEF Abstract!SaveFails

\* Erasing the entries of the call's keys is not seen.
LEMMA EraseUnseen ==
    ASSUME Stepped, slot' = Entries(Null, Null), present' = present \ call.keys, call' = NoCall
    PROVE  Pairs' = Pairs
<1>1. ASSUME NEW k \in Key PROVE StoredPair(k)' = StoredPair(k)
  <2>1. (k \notin present \/ k \in call.keys) <=> (k \notin present' \/ k \in call'.keys)
    BY DEF NoCall
  <2>2. CASE k \in call.keys
    BY <2>1, <2>2 DEF StoredPair
  <2>3. CASE k \notin call.keys
    <3>1. <<k, "addr">> \in Slot /\ <<k, "type">> \in Slot
      BY DEF Slot, Side
    <3>2. slot'[<<k, "addr">>] = slot[<<k, "addr">>] /\ slot'[<<k, "type">>] = slot[<<k, "type">>]
      BY <2>3, <3>1 DEF Entries
    <3> QED BY <2>1, <3>2, PairSame
  <2> QED BY <2>2, <2>3
<1> QED BY <1>1 DEF Pairs

LEMMA FinishRemoves ==
    ASSUME Stepped, FinishRemove PROVE Abstract!Removed
<1>1. /\ call.op = "remove" /\ call' = NoCall /\ UNCHANGED <<handle, iter, up>>
      /\ slot' = Entries(Null, Null) /\ present' = present \ call.keys
  BY DEF FinishRemove, Releasing, client
<1>2. call.keys # {} /\ call.keys \subseteq Key
  BY <1>1 DEF Stepped, StoreInv, CallKeys, Typed, TypeOK, Call
<1>3. Asked # Null /\ Asked.pair = Null
  BY <1>1, <1>2, AskedSomething
<1>4. Asked' = Null /\ Opened' = Opened
  BY <1>1, AskedIdle DEF Opened, NoCall
<1> QED BY <1>1, <1>3, <1>4, ClientSame, EraseUnseen DEF Abstract!Removed

\* The map was closed for the client when its destruction started.
LEMMA FinishDestroyUnseen ==
    ASSUME Stepped, FinishDestroy PROVE Unseen
<1>1. /\ call.op = "destroy" /\ call' = NoCall /\ UNCHANGED <<handle, iter>> /\ up' = FALSE
      /\ slot' = Entries(Null, Null) /\ present' = present \ call.keys
  BY DEF FinishDestroy, Releasing, client
<1>2. Asked = Null /\ Asked' = Null
  BY <1>1, AskedIdle DEF Asked
<1>3. Opened = FALSE /\ Opened' = FALSE
  BY <1>1 DEF Opened
<1> QED BY <1>1, <1>2, <1>3, ClientSame, EraseUnseen DEF Unseen

-----------------------------------------------------------------------------
(* The refinement *)

LEMMA InitStore == Init => Abstract!Init
<1> SUFFICES ASSUME Init PROVE Abstract!Init
  OBVIOUS
<1>1. StoreInv
  BY StoreInvInit
<1>2. Content[Null] = <<>>
  BY <1>1, ContentShape, SentinelAssumption DEF StoreInv, Shape, Pointer
<1>3. Stacks = [h \in Handle |-> <<>>] /\ Rests = [i \in Iter |-> Null]
  BY <1>2 DEF Init, Stacks, Rests
<1>4. Opened = FALSE /\ Asked = Null
  BY AskedIdle DEF Init, Opened
<1>5. Pairs = [k \in Key |-> Null]
  BY DEF Init, Pairs, StoredPair
<1> QED BY <1>3, <1>4, <1>5 DEF Abstract!Init

LEMMA UnseenStutters == Unseen => UNCHANGED Abstract!vars
BY DEF Unseen, Abstract!vars

LEMMA StoreStep ==
    ASSUME ~AliasRoots, Stepped PROVE [Abstract!Next]_(Abstract!vars)
<1> USE DEF Abstract!Next
<1>1. ASSUME NEW h \in Handle, Create(h) \/ TakeEmpty(h) \/ AllocFails(h) \/ Destroy(h)
      PROVE  Abstract!Next
  BY <1>1, CreateClears, SentinelClears, DestroyClears
<1>2. ASSUME NEW h \in Handle, NEW g \in Handle, NEW v \in Value, Push(h, g, v)
      PROVE  Abstract!Next
  BY <1>2, PushPushes
<1>3. ASSUME NEW h \in Handle, NEW g \in Handle, PopElem(h, g) \/ PopEmpty(h, g)
      PROVE  Abstract!Next
  BY <1>3, PopPops, PopEmptyClears
<1>4. ASSUME NEW h \in Handle, NEW g \in Handle, NEW k \in Key,
             LoadPair(k, h, g) \/ SavePair(k, h, g)
      PROVE  Abstract!Next
  BY <1>4, LoadLoads, SaveSaves
<1>5. ASSUME NEW i \in Iter, IterNext(i) \/ IterDestroy(i) \/ \E g \in Handle : IterCreate(i, g)
      PROVE  Abstract!Next
  BY <1>5, NextAdvances, DestroyStops, CreateIterates
<1>6. ASSUME MapCreate \/ MapDestroy PROVE Abstract!Next
  BY <1>6, CreateOpens, DestroyCloses
<1>7. ASSUME NEW k \in Key, Remove(k) PROVE Abstract!Next
  BY <1>7, RemoveRemoves
<1>8. ASSUME FinishSave \/ SaveThrows \/ FinishRemove PROVE Abstract!Next
  BY <1>8, FinishSaves, ThrowFails, FinishRemoves
<1>9. ASSUME ReleaseStep \/ ReleaseSlot \/ FinishDestroy PROVE UNCHANGED Abstract!vars
  BY <1>9, ReleaseUnseen, FinishDestroyUnseen, UnseenStutters
<1>10. CASE UNCHANGED vars
  <2>1. UNCHANGED <<handle, iter, slot, present, up, call>>
    BY <1>10 DEF vars, client, map, running
  <2>2. Opened' = Opened /\ Asked' = Asked
    BY <2>1, AskedSame DEF Opened
  <2> QED BY <2>1, <2>2, ClientSame, PairsSame DEF Abstract!vars
<1> HIDE DEF Abstract!Next
<1> QED BY <1>1, <1>2, <1>3, <1>4, <1>5, <1>6, <1>7, <1>8, <1>9, <1>10
        DEF Stepped, Next, Returning

\* stack.h: stacks are immutable and shared.  For every heap and every client
\* that does not own a created root twice: releases, frees and reuse of
\* addresses never change what a handle, an iterator or a map entry denotes,
\* and load_pair returns what save_pair was given.
THEOREM HeapImplementsStore == ASSUME ~AliasRoots PROVE Spec => ImplementsStore
<1>1. StoreInv /\ [Next]_vars => StoreInv'
  BY StoreInvStep
<1>2. StoreInv /\ StoreInv' /\ [Next]_vars => [Abstract!Next]_(Abstract!vars)
  BY StoreStep DEF Stepped
<1> QED BY <1>1, <1>2, StoreInvInit, InitStore, PTL DEF Spec, ImplementsStore, Abstract!Spec

=============================================================================
