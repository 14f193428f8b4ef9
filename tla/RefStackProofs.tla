--------------------------- MODULE RefStackProofs ---------------------------
(***************************************************************************)
(* Theorems about RefStack, for any finite heap and any number of handles, *)
(* iterators and keys: types, exact reference counts, no dangling pointer. *)
(***************************************************************************)
EXTENDS RefStack, FiniteSetTheorems, TLAPS

-----------------------------------------------------------------------------
(* Counting the cells of a function that hold a pointer *)

\* The number of cells of f that hold p is a natural number, positive if
\* some cell holds p.
LEMMA CountNat ==
    ASSUME NEW D, IsFiniteSet(D), NEW f, NEW p
    PROVE  /\ Count(f, D, p) \in Nat
           /\ \A d \in D : f[d] = p => Count(f, D, p) > 0
<1> DEFINE S == {d \in D : f[d] = p}
<1>1. IsFiniteSet(S)
  BY FS_Subset
<1>2. Cardinality(S) \in Nat
  BY <1>1, FS_CardinalityType
<1>3. ASSUME NEW d \in D, f[d] = p PROVE Cardinality(S) > 0
  <2>1. d \in S
    BY <1>3
  <2>2. Cardinality(S) # 0
    BY <1>1, <2>1, FS_EmptySet
  <2> QED BY <1>2, <2>2
<1> QED BY <1>2, <1>3 DEF Count

\* Writing one cell adds one to the count of the new pointer and takes one
\* from the count of the old one.
LEMMA CountUpdate ==
    \A D, f, g, d, p :
        IsFiniteSet(D) /\ d \in D /\ (\A e \in D : e # d => g[e] = f[e])
        => Count(g, D, p) = Count(f, D, p) + One(g[d] = p) - One(f[d] = p)
<1> TAKE D, f, g, d, p
<1> HAVE IsFiniteSet(D) /\ d \in D /\ (\A e \in D : e # d => g[e] = f[e])
<1> DEFINE R == {e \in D \ {d} : f[e] = p}
<1>1. IsFiniteSet(R) /\ Cardinality(R) \in Nat
  BY FS_Subset, FS_CardinalityType
<1>2. d \notin R
  OBVIOUS
<1>3. Cardinality(R \cup {d}) = Cardinality(R) + 1
  BY <1>1, <1>2, FS_AddElement
<1>4. Count(f, D, p) = Cardinality(R) + One(f[d] = p)
  <2>1. CASE f[d] = p
    <3>1. {e \in D : f[e] = p} = R \cup {d}
      BY <2>1
    <3>2. One(f[d] = p) = 1
      BY <2>1 DEF One
    <3>3. Count(f, D, p) = Cardinality(R \cup {d})
      BY <3>1 DEF Count
    <3> QED BY <1>3, <3>2, <3>3
  <2>2. CASE f[d] # p
    <3>1. {e \in D : f[e] = p} = R
      BY <2>2
    <3>2. One(f[d] = p) = 0
      BY <2>2 DEF One
    <3>3. Count(f, D, p) = Cardinality(R)
      BY <3>1 DEF Count
    <3> HIDE DEF R
    <3> QED BY <1>1, <3>2, <3>3
  <2> QED BY <2>1, <2>2
<1>5. Count(g, D, p) = Cardinality(R) + One(g[d] = p)
  <2>1. CASE g[d] = p
    <3>1. {e \in D : g[e] = p} = R \cup {d}
      BY <2>1
    <3>2. One(g[d] = p) = 1
      BY <2>1 DEF One
    <3>3. Count(g, D, p) = Cardinality(R \cup {d})
      BY <3>1 DEF Count
    <3> QED BY <1>3, <3>2, <3>3
  <2>2. CASE g[d] # p
    <3>1. {e \in D : g[e] = p} = R
      BY <2>2
    <3>2. One(g[d] = p) = 0
      BY <2>2 DEF One
    <3>3. Count(g, D, p) = Cardinality(R)
      BY <3>1 DEF Count
    <3> HIDE DEF R
    <3> QED BY <1>1, <3>2, <3>3
  <2> QED BY <2>1, <2>2
<1> QED BY <1>1, <1>4, <1>5 DEF One

\* The same for a write to two cells.
LEMMA CountUpdate2 ==
    \A D, f, g, c, d, p :
        /\ IsFiniteSet(D) /\ c \in D /\ d \in D /\ c # d
        /\ \A e \in D : e # c /\ e # d => g[e] = f[e]
        => Count(g, D, p) = Count(f, D, p) + One(g[c] = p) - One(f[c] = p)
                                           + One(g[d] = p) - One(f[d] = p)
<1> TAKE D, f, g, c, d, p
<1> HAVE /\ IsFiniteSet(D) /\ c \in D /\ d \in D /\ c # d
         /\ \A e \in D : e # c /\ e # d => g[e] = f[e]
<1> DEFINE m == [e \in D |-> IF e = c THEN g[e] ELSE f[e]]
<1>1. Count(m, D, p) = Count(f, D, p) + One(g[c] = p) - One(f[c] = p)
  <2>1. \A e \in D : e # c => m[e] = f[e]
    OBVIOUS
  <2>2. m[c] = g[c]
    OBVIOUS
  <2> HIDE DEF m
  <2>3. Count(m, D, p) = Count(f, D, p) + One(m[c] = p) - One(f[c] = p)
    BY <2>1, CountUpdate DEF One
  <2> QED BY <2>2, <2>3
<1>2. Count(g, D, p) = Count(m, D, p) + One(g[d] = p) - One(f[d] = p)
  <2>1. \A e \in D : e # d => g[e] = m[e]
    OBVIOUS
  <2>2. m[d] = f[d]
    OBVIOUS
  <2> HIDE DEF m
  <2> QED BY <2>1, <2>2, CountUpdate DEF One
<1>3. Count(f, D, p) \in Nat
  BY CountNat
<1> HIDE DEF m
<1> QED BY <1>1, <1>2, <1>3 DEF One

\* All the sets whose cells hold references are finite.
LEMMA FiniteDomains ==
    IsFiniteSet(Node) /\ IsFiniteSet(Handle) /\ IsFiniteSet(Iter) /\ IsFiniteSet(Slot)
<1>1. IsFiniteSet(Side)
  <2>1. IsFiniteSet({"addr"})
    BY FS_Singleton
  <2>2. IsFiniteSet({"addr"} \cup {"type"})
    BY <2>1, FS_AddElement
  <2>3. Side = {"addr"} \cup {"type"}
    BY DEF Side
  <2> QED BY <2>2, <2>3
<1>2. IsFiniteSet(Key \X Side)
  BY <1>1, HeapAssumption, FS_Product
<1> QED BY <1>2, HeapAssumption DEF Slot

-----------------------------------------------------------------------------
(* Types *)

Typed == TypeOK /\ CallShape

\* Every step keeps the variables in their types, and save_pair's arguments
\* are handles while it runs.
LEMMA TypedStep == Typed /\ [Next]_vars => Typed'
<1> SUFFICES ASSUME Typed, [Next]_vars PROVE Typed'
  OBVIOUS
<1> USE DEF Typed, TypeOK, CallShape, Pointer, Call, vars, heap, client, map, running,
            Idle, NoCall, Store, Malloc, Retained, Released, OrEmpty, One
<1>1. ASSUME NEW h \in Handle, Create(h) PROVE Typed'
  BY <1>1 DEF Create
<1>2. ASSUME NEW h \in Handle, TakeEmpty(h) PROVE Typed'
  BY <1>2 DEF TakeEmpty
<1>3. ASSUME NEW h \in Handle, AllocFails(h) PROVE Typed'
  BY <1>3 DEF AllocFails
<1>4. ASSUME NEW h \in Handle, Destroy(h) PROVE Typed'
  BY <1>4 DEF Destroy
<1>5. ASSUME NEW h \in Handle, NEW g \in Handle, NEW v \in Value, Push(h, g, v) PROVE Typed'
  BY <1>5 DEF Push
<1>6. ASSUME NEW h \in Handle, NEW g \in Handle, PopElem(h, g) PROVE Typed'
  BY <1>6 DEF PopElem
<1>7. ASSUME NEW h \in Handle, NEW g \in Handle, PopEmpty(h, g) PROVE Typed'
  BY <1>7 DEF PopEmpty
<1>8. ASSUME NEW k \in Key, NEW h \in Handle, NEW g \in Handle, LoadPair(k, h, g) PROVE Typed'
  BY <1>8 DEF LoadPair, Store2, Retained2, Slot, Side
<1>9. ASSUME NEW k \in Key, NEW h \in Handle, NEW g \in Handle, SavePair(k, h, g) PROVE Typed'
  BY <1>9 DEF SavePair, Start, Slot
<1>10. ASSUME NEW i \in Iter, IterNext(i) PROVE Typed'
  BY <1>10 DEF IterNext
<1>11. ASSUME NEW i \in Iter, IterDestroy(i) PROVE Typed'
  BY <1>11 DEF IterDestroy
<1>12. ASSUME NEW i \in Iter, NEW g \in Handle, IterCreate(i, g) PROVE Typed'
  BY <1>12 DEF IterCreate
<1>13. CASE MapCreate
  BY <1>13 DEF MapCreate
<1>14. CASE MapDestroy
  BY <1>14 DEF MapDestroy, Start, Slot
<1>15. ASSUME NEW k \in Key, Remove(k) PROVE Typed'
  BY <1>15 DEF Remove, Start, Slot
<1>16. CASE ReleaseStep
  BY <1>16 DEF ReleaseStep
<1>17. CASE ReleaseSlot
  BY <1>17 DEF ReleaseSlot, NextDue, Slot
<1>18. CASE FinishSave
  BY <1>18 DEF FinishSave, Releasing, Entries, Retained2, Slot
<1>19. CASE SaveThrows
  BY <1>19 DEF SaveThrows, Releasing, Retained2
<1>20. CASE FinishRemove
  BY <1>20 DEF FinishRemove, Releasing, Entries
<1>21. CASE FinishDestroy
  BY <1>21 DEF FinishDestroy, Releasing, Entries
<1>22. CASE UNCHANGED vars
  BY <1>22
<1> QED
  BY <1>1, <1>2, <1>3, <1>4, <1>5, <1>6, <1>7, <1>8, <1>9, <1>10, <1>11, <1>12, <1>13, <1>14, <1>15, <1>16, <1>17, <1>18, <1>19, <1>20, <1>21, <1>22 DEF Next, Returning

\* The initial state has the types.
LEMMA TypedInit == Init => Typed
<1> SUFFICES ASSUME Init PROVE Typed
  OBVIOUS
<1>1. call \in Call
  BY DEF Init, NoCall, Call
<1>2. CallShape
  BY DEF Init, NoCall, CallShape
<1> QED BY <1>1, <1>2 DEF Init, Typed, TypeOK, Pointer

\* Type correctness: every variable of RefStack always has its type.
THEOREM TypeCorrect == Spec => []TypeOK
<1>1. Spec => []Typed
  BY TypedInit, TypedStep, PTL DEF Spec
<1>2. Typed => TypeOK
  BY DEF Typed
<1> QED BY <1>1, <1>2, PTL

-----------------------------------------------------------------------------
(* Reference counts *)

Owned == FreeUnused /\ SlotsOwned /\ RefsMatch

\* Every term of Refs(n) is a natural number.
LEMMA CountsNat ==
    ASSUME Typed, NEW n \in Node
    PROVE  /\ Count(handle, Handle, n) \in Nat
           /\ Count(iter, Iter, n) \in Nat
           /\ Count(slot, Slot, n) \in Nat
           /\ Count(next, Node, n) \in Nat
           /\ lost[n] \in Nat /\ ref[n] \in Nat
BY CountNat, FiniteDomains DEF Typed, TypeOK

\* A node whose count is zero is in nobody's hands.
LEMMA ZeroUnheld ==
    ASSUME Typed, RefsMatch, NEW n \in Node, ref[n] = 0
    PROVE  /\ \A h \in Handle : handle[h] # n
           /\ \A i \in Iter : iter[i] # n
           /\ \A s \in Slot : slot[s] # n
           /\ \A m \in Node : next[m] # n
           /\ rel # n /\ lost[n] = 0
<1>1. Refs(n) = 0
  BY DEF RefsMatch
<1>2. /\ Count(handle, Handle, n) = 0 /\ Count(iter, Iter, n) = 0
      /\ Count(slot, Slot, n) = 0 /\ Count(next, Node, n) = 0
      /\ One(rel = n) = 0 /\ lost[n] = 0
  BY <1>1, CountsNat DEF Refs, One
<1>3. rel # n
  BY <1>2 DEF One
<1> QED BY <1>2, <1>3, CountNat, FiniteDomains

\* Storing a pointer in a handle adds one reference to its target: the
\* reference the handle had is either gone with it or counted as lost.
LEMMA StoreRefs ==
    ASSUME Typed, NEW h \in Handle, NEW p, Store(h, p), NEW n \in Node
    PROVE  /\ Count(handle', Handle, n) \in Nat /\ lost'[n] \in Nat
           /\ Count(handle', Handle, n) + lost'[n]
                = Count(handle, Handle, n) + lost[n] + One(n = p)
<1>1. \A e \in Handle : e # h => handle'[e] = handle[e]
  BY DEF Store, Typed, TypeOK
<1>2. handle'[h] = p
  BY DEF Store, Typed, TypeOK
<1>3. Count(handle', Handle, n)
        = Count(handle, Handle, n) + One(handle'[h] = n) - One(handle[h] = n)
  BY <1>1, CountUpdate, FiniteDomains DEF One
<1>4. lost'[n] = lost[n] + One(n = handle[h])
  BY DEF Store
<1>5. One(handle'[h] = n) = One(n = p) /\ One(handle[h] = n) = One(n = handle[h])
  BY <1>2 DEF One
<1>6. Count(handle', Handle, n) \in Nat
  BY CountNat, FiniteDomains
<1> QED BY <1>3, <1>4, <1>5, <1>6, CountsNat DEF One

\* The same for the two out parameters of load_pair.
LEMMA Store2Refs ==
    ASSUME Typed, NEW h \in Handle, NEW g \in Handle, h # g, NEW p, NEW q,
           Store2(h, p, g, q), NEW n \in Node
    PROVE  /\ Count(handle', Handle, n) \in Nat /\ lost'[n] \in Nat
           /\ Count(handle', Handle, n) + lost'[n]
                = Count(handle, Handle, n) + lost[n] + One(n = p) + One(n = q)
<1>1. \A e \in Handle : e # h /\ e # g => handle'[e] = handle[e]
  BY DEF Store2, Typed, TypeOK
<1>2. handle'[h] = p /\ handle'[g] = q
  BY DEF Store2, Typed, TypeOK
<1>3. Count(handle', Handle, n)
        = Count(handle, Handle, n) + One(handle'[h] = n) - One(handle[h] = n)
                                   + One(handle'[g] = n) - One(handle[g] = n)
  BY <1>1, CountUpdate2, FiniteDomains DEF One
<1>4. lost'[n] = lost[n] + One(n = handle[h]) + One(n = handle[g])
  BY DEF Store2
<1>5. /\ One(handle'[h] = n) = One(n = p) /\ One(handle[h] = n) = One(n = handle[h])
      /\ One(handle'[g] = n) = One(n = q) /\ One(handle[g] = n) = One(n = handle[g])
  BY <1>2 DEF One
<1>6. Count(handle', Handle, n) \in Nat
  BY CountNat, FiniteDomains
<1> QED BY <1>3, <1>4, <1>5, <1>6, CountsNat DEF One

\* SlotsOwned speaks of the map only.
LEMMA SlotsFrame ==
    ASSUME SlotsOwned, UNCHANGED <<slot, present, due, call>>
    PROVE  SlotsOwned'
BY DEF SlotsOwned

-----------------------------------------------------------------------------
(* One lemma per action: the counts stay exact *)

\* A new root has one reference, its handle.
LEMMA CreateOwned ==
    ASSUME Typed, Owned, NEW h \in Handle, Create(h) PROVE Owned'
<1> USE DEF Owned
<1>1. PICK m \in Node : /\ Malloc(m, "root", Null, Zero)
                        /\ ref' = [ref EXCEPT ![m] = 1]
                        /\ Store(h, m)
  BY DEF Create
<1>2. ref[m] = 0 /\ next[m] = Null
  <2>1. kind[m] = "free"
    BY <1>1 DEF Malloc, Typed, TypeOK
  <2> QED BY <2>1 DEF FreeUnused
<1>3. next' = next
  BY <1>1, <1>2 DEF Malloc, Typed, TypeOK
<1>4. RefsMatch'
  <2> SUFFICES ASSUME NEW n \in Node PROVE ref'[n] = Refs(n)'
    BY DEF RefsMatch
  <2>1. ref'[n] = ref[n] + One(n = m)
    BY <1>1, <1>2 DEF One, Typed, TypeOK
  <2>2. Refs(n)' = Refs(n) + One(n = m)
    <3>1. iter' = iter /\ slot' = slot /\ rel' = rel
      BY DEF Create, map, running
    <3>2. /\ Count(handle', Handle, n) \in Nat /\ lost'[n] \in Nat
          /\ Count(handle', Handle, n) + lost'[n]
               = Count(handle, Handle, n) + lost[n] + One(n = m)
      BY <1>1, StoreRefs
    <3> QED BY <1>3, <3>1, <3>2, CountsNat, SMTT(60) DEF Refs, One
  <2> QED BY <2>1, <2>2 DEF RefsMatch
<1>5. FreeUnused'
  BY <1>1, <1>2 DEF FreeUnused, Malloc, Typed, TypeOK
<1>6. SlotsOwned'
  BY SlotsFrame DEF Create, map, running
<1> QED BY <1>4, <1>5, <1>6

\* A handle given NULL or the singleton refers to no node.
LEMMA ClearOwned ==
    ASSUME Typed, Owned, NEW h \in Handle, NEW p \in {Null, Empty}, Store(h, p),
           UNCHANGED <<heap, iter, map, running>>
    PROVE  Owned'
<1> USE DEF Owned
<1>1. RefsMatch'
  <2> SUFFICES ASSUME NEW n \in Node PROVE ref'[n] = Refs(n)'
    BY DEF RefsMatch
  <2>1. n # p
    BY SentinelAssumption
  <2>2. Refs(n)' = Refs(n)
    <3>1. next' = next /\ iter' = iter /\ slot' = slot /\ rel' = rel
      BY DEF heap, map, running
    <3>2. /\ Count(handle', Handle, n) \in Nat /\ lost'[n] \in Nat
          /\ Count(handle', Handle, n) + lost'[n]
               = Count(handle, Handle, n) + lost[n] + One(n = p)
      BY StoreRefs
    <3>3. One(n = p) = 0
      BY <2>1 DEF One
    <3> QED BY <3>1, <3>2, <3>3, CountsNat DEF Refs, One
  <2> QED BY <2>2 DEF RefsMatch, heap
<1>2. FreeUnused'
  BY DEF FreeUnused, heap
<1>3. SlotsOwned'
  BY SlotsFrame DEF map, running
<1> QED BY <1>1, <1>2, <1>3

\* Push adds a node with one reference, its handle, and refers to the node
\* below, which is retained.
LEMMA PushOwned ==
    ASSUME Typed, Owned, NEW h \in Handle, NEW g \in Handle, NEW v \in Value,
           Push(h, g, v)
    PROVE  Owned'
<1> USE DEF Owned
<1>1. PICK m \in Node : /\ Malloc(m, "elem", handle[g], v)
                        /\ ref' = [Retained(handle[g]) EXCEPT ![m] = 1]
                        /\ Store(h, m)
  BY DEF Push
<1>2. ref[m] = 0 /\ next[m] = Null
  <2>1. kind[m] = "free"
    BY <1>1 DEF Malloc, Typed, TypeOK
  <2> QED BY <2>1 DEF FreeUnused
<1>3. handle[g] # m
  BY <1>2, ZeroUnheld
<1>4. \A n \in Node : ref'[n] = ref[n] + One(n = m) + One(n = handle[g])
  BY <1>1, <1>2, <1>3 DEF Retained, One, Typed, TypeOK
<1>5. RefsMatch'
  <2> SUFFICES ASSUME NEW n \in Node PROVE ref'[n] = Refs(n)'
    BY DEF RefsMatch
  <2>1. \A e \in Node : e # m => next'[e] = next[e]
    BY <1>1 DEF Malloc, Typed, TypeOK
  <2>2. Count(next', Node, n)
          = Count(next, Node, n) + One(next'[m] = n) - One(next[m] = n)
    <3> QED BY <2>1, CountUpdate, FiniteDomains DEF One
  <2>3. next'[m] = handle[g]
    BY <1>1 DEF Malloc, Typed, TypeOK
  <2>4. One(next'[m] = n) = One(n = handle[g]) /\ One(next[m] = n) = 0
    BY <1>2, <2>3, SentinelAssumption DEF One
  <2>5. Refs(n)' = Refs(n) + One(n = m) + One(n = handle[g])
    <3>1. iter' = iter /\ slot' = slot /\ rel' = rel
      BY DEF Push, map, running
    <3>2. /\ Count(handle', Handle, n) \in Nat /\ lost'[n] \in Nat
          /\ Count(handle', Handle, n) + lost'[n]
               = Count(handle, Handle, n) + lost[n] + One(n = m)
      BY <1>1, StoreRefs
    <3> QED BY <2>2, <2>4, <3>1, <3>2, CountsNat DEF Refs, One
  <2> QED BY <1>4, <2>5 DEF RefsMatch
<1>6. FreeUnused'
  <2>1. \A n \in Node : n = handle[g] => ref[n] # 0
    BY ZeroUnheld
  <2> QED BY <1>1, <1>4, <2>1 DEF FreeUnused, Malloc, Typed, TypeOK, One
<1>7. SlotsOwned'
  BY SlotsFrame DEF Push, map, running
<1> QED BY <1>5, <1>6, <1>7

\* Pop of an element retains the node it returns.
LEMMA PopElemOwned ==
    ASSUME Typed, Owned, NEW h \in Handle, NEW g \in Handle, PopElem(h, g)
    PROVE  Owned'
<1> USE DEF Owned
<1> DEFINE p == next[handle[g]]
<1>1. handle[g] \in Node /\ p \in Pointer
  BY DEF PopElem, Typed, TypeOK
<1>2. \A n \in Node : ref'[n] = ref[n] + One(n = p)
  BY DEF PopElem, Retained, Typed, TypeOK
<1>3. RefsMatch'
  <2> SUFFICES ASSUME NEW n \in Node PROVE ref'[n] = Refs(n)'
    BY DEF RefsMatch
  <2>1. One(n = OrEmpty(p)) = One(n = p)
    BY SentinelAssumption DEF OrEmpty, One
  <2>2. Refs(n)' = Refs(n) + One(n = p)
    <3>1. next' = next /\ iter' = iter /\ slot' = slot /\ rel' = rel
      BY DEF PopElem, map, running
    <3>2. /\ Count(handle', Handle, n) \in Nat /\ lost'[n] \in Nat
          /\ Count(handle', Handle, n) + lost'[n]
               = Count(handle, Handle, n) + lost[n] + One(n = OrEmpty(p))
      BY StoreRefs DEF PopElem
    <3> QED BY <2>1, <3>1, <3>2, CountsNat DEF Refs, One
  <2> QED BY <1>2, <2>2 DEF RefsMatch
<1>4. FreeUnused'
  <2>1. \A n \in Node : n = p => ref[n] # 0
    BY <1>1, ZeroUnheld
  <2> QED BY <1>2, <2>1 DEF FreeUnused, PopElem, One, Typed, TypeOK
<1>5. SlotsOwned'
  BY SlotsFrame DEF PopElem, map, running
<1> QED BY <1>3, <1>4, <1>5

\* Destroy moves the reference of the handle to the running release.
LEMMA DestroyOwned ==
    ASSUME Typed, Owned, NEW h \in Handle, Destroy(h) PROVE Owned'
<1> USE DEF Owned
<1>1. RefsMatch'
  <2> SUFFICES ASSUME NEW n \in Node PROVE ref'[n] = Refs(n)'
    BY DEF RefsMatch
  <2>1. Count(handle', Handle, n)
          = Count(handle, Handle, n) + One(handle'[h] = n) - One(handle[h] = n)
    <3>1. \A e \in Handle : e # h => handle'[e] = handle[e]
      BY DEF Destroy, Typed, TypeOK
    <3> QED BY <3>1, CountUpdate, FiniteDomains DEF One
  <2>2. One(handle'[h] = n) = 0 /\ One(rel = n) = 0
    BY SentinelAssumption DEF Destroy, Idle, One, Typed, TypeOK
  <2>3. One(rel' = n) = One(handle[h] = n)
    BY SentinelAssumption DEF Destroy, Released, One, Typed, TypeOK
  <2>4. Refs(n)' = Refs(n)
    BY <2>1, <2>2, <2>3, CountsNat DEF Refs, Destroy, heap, map, One
  <2> QED BY <2>4 DEF RefsMatch, Destroy, heap
<1>2. FreeUnused'
  BY DEF FreeUnused, Destroy, heap
<1>3. SlotsOwned'
  BY SlotsFrame DEF Destroy, map
<1> QED BY <1>1, <1>2, <1>3

\* An iterator retains the node it starts at.
LEMMA IterCreateOwned ==
    ASSUME Typed, Owned, NEW i \in Iter, NEW g \in Handle, IterCreate(i, g)
    PROVE  Owned'
<1> USE DEF Owned
<1>1. \A n \in Node : ref'[n] = ref[n] + One(n = handle[g])
  BY DEF IterCreate, Retained, Typed, TypeOK
<1>2. RefsMatch'
  <2> SUFFICES ASSUME NEW n \in Node PROVE ref'[n] = Refs(n)'
    BY DEF RefsMatch
  <2>1. \A e \in Iter : e # i => iter'[e] = iter[e]
    BY DEF IterCreate, Typed, TypeOK
  <2>2. Count(iter', Iter, n) = Count(iter, Iter, n) + One(iter'[i] = n) - One(iter[i] = n)
    BY <2>1, CountUpdate, FiniteDomains
  <2>3. One(iter'[i] = n) = One(n = handle[g]) /\ One(iter[i] = n) = 0
    BY SentinelAssumption DEF IterCreate, OrEmpty, One, Typed, TypeOK
  <2>4. handle' = handle /\ slot' = slot /\ next' = next /\ rel' = rel /\ lost' = lost
    BY DEF IterCreate, map, running
  <2>5. Refs(n)' = Refs(n) + One(n = handle[g])
    BY <2>2, <2>3, <2>4, CountsNat DEF Refs, One
  <2> QED BY <1>1, <2>5 DEF RefsMatch
<1>3. FreeUnused'
  <2>1. \A n \in Node : n = handle[g] => ref[n] # 0
    BY ZeroUnheld
  <2> QED BY <1>1, <2>1 DEF FreeUnused, IterCreate, One, Typed, TypeOK
<1>4. SlotsOwned'
  BY SlotsFrame DEF IterCreate, map, running
<1> QED BY <1>2, <1>3, <1>4

\* Advancing retains the next node; the reference to the current one moves
\* to the running release.
LEMMA IterNextOwned ==
    ASSUME Typed, Owned, NEW i \in Iter, IterNext(i) PROVE Owned'
<1> USE DEF Owned
<1> DEFINE p == next[iter[i]]
<1>1. \A n \in Node : ref'[n] = ref[n] + One(n = p)
  BY DEF IterNext, Retained, Typed, TypeOK
<1>2. RefsMatch'
  <2> SUFFICES ASSUME NEW n \in Node PROVE ref'[n] = Refs(n)'
    BY DEF RefsMatch
  <2>1. \A e \in Iter : e # i => iter'[e] = iter[e]
    BY DEF IterNext, Typed, TypeOK
  <2>2. Count(iter', Iter, n) = Count(iter, Iter, n) + One(iter'[i] = n) - One(iter[i] = n)
    BY <2>1, CountUpdate, FiniteDomains DEF One
  <2>3. One(iter'[i] = n) = One(n = p) /\ One(rel = n) = 0
    BY SentinelAssumption DEF IterNext, Idle, OrEmpty, One, Typed, TypeOK
  <2>4. One(rel' = n) = One(iter[i] = n)
    BY DEF IterNext, One
  <2>5. handle' = handle /\ slot' = slot /\ next' = next /\ lost' = lost
    BY DEF IterNext, map
  <2>6. Refs(n)' = Refs(n) + One(n = p)
    BY <2>2, <2>3, <2>4, <2>5, CountsNat DEF Refs, One
  <2> QED BY <1>1, <2>6 DEF RefsMatch
<1>3. FreeUnused'
  <2>1. \A n \in Node : n = p => ref[n] # 0
    BY ZeroUnheld DEF IterNext
  <2> QED BY <1>1, <2>1 DEF FreeUnused, IterNext, One, Typed, TypeOK
<1>4. SlotsOwned'
  BY SlotsFrame DEF IterNext, map
<1> QED BY <1>2, <1>3, <1>4

\* Destroying an iterator moves its reference to the running release.
LEMMA IterDestroyOwned ==
    ASSUME Typed, Owned, NEW i \in Iter, IterDestroy(i) PROVE Owned'
<1> USE DEF Owned
<1>1. RefsMatch'
  <2> SUFFICES ASSUME NEW n \in Node PROVE ref'[n] = Refs(n)'
    BY DEF RefsMatch
  <2>1. \A e \in Iter : e # i => iter'[e] = iter[e]
    BY DEF IterDestroy, Typed, TypeOK
  <2>2. Count(iter', Iter, n) = Count(iter, Iter, n) + One(iter'[i] = n) - One(iter[i] = n)
    BY <2>1, CountUpdate, FiniteDomains DEF One
  <2>3. One(iter'[i] = n) = 0 /\ One(rel = n) = 0
    BY SentinelAssumption DEF IterDestroy, Idle, One, Typed, TypeOK
  <2>4. One(rel' = n) = One(iter[i] = n)
    BY SentinelAssumption DEF IterDestroy, Released, One, Typed, TypeOK
  <2>5. /\ handle' = handle /\ slot' = slot /\ next' = next /\ lost' = lost
        /\ ref' = ref
    BY DEF IterDestroy, map, heap
  <2>6. Refs(n)' = Refs(n)
    BY <2>2, <2>3, <2>4, <2>5, CountsNat DEF Refs, One
  <2> QED BY <2>5, <2>6 DEF RefsMatch
<1>2. FreeUnused'
  BY DEF FreeUnused, IterDestroy, heap
<1>3. SlotsOwned'
  BY SlotsFrame DEF IterDestroy, map
<1> QED BY <1>1, <1>2, <1>3

\* A release gives up one reference; the last one frees the node, whose
\* reference to the next node moves to the recursive release.
LEMMA ReleaseStepOwned ==
    ASSUME Typed, Owned, ReleaseStep PROVE Owned'
<1> USE DEF Owned
<1>1. /\ handle' = handle /\ iter' = iter /\ slot' = slot /\ lost' = lost
      /\ present' = present /\ due' = due /\ call' = call
  BY DEF ReleaseStep, client, map
<1>2. rel \in Node /\ ref[rel] \in Nat /\ ref[rel] # 0
  <2>1. rel \in Node
    BY DEF ReleaseStep
  <2>2. ref[rel] # 0
    BY <2>1, ZeroUnheld
  <2> QED BY <2>1, <2>2, CountsNat
<1>3. SlotsOwned'
  BY <1>1, SlotsFrame
<1>4. CASE ref[rel] <= 1
  <2> DEFINE p == next[rel]
  <2>1. /\ kind' = [kind EXCEPT ![rel] = "free"] /\ next' = [next EXCEPT ![rel] = Null]
        /\ ref' = [ref EXCEPT ![rel] = 0] /\ rel' = Released(p)
    BY <1>4 DEF ReleaseStep
  <2>2. ref[rel] = 1
    BY <1>2, <1>4
  <2>3. RefsMatch'
    <3> SUFFICES ASSUME NEW n \in Node PROVE ref'[n] = Refs(n)'
      BY DEF RefsMatch
    <3>1. ref'[n] = ref[n] - One(rel = n)
      BY <1>2, <2>1, <2>2, CountsNat DEF One, Typed, TypeOK
    <3>2. \A e \in Node : e # rel => next'[e] = next[e]
      BY <2>1 DEF Typed, TypeOK
    <3>3. Count(next', Node, n)
            = Count(next, Node, n) + One(next'[rel] = n) - One(p = n)
      BY <1>2, <3>2, CountUpdate, FiniteDomains DEF One
    <3>4. One(next'[rel] = n) = 0
      BY <1>2, <2>1, SentinelAssumption DEF One, Typed, TypeOK
    <3>5. One(rel' = n) = One(p = n)
      BY <2>1, SentinelAssumption DEF Released, One
    <3>6. Refs(n)' = Refs(n) - One(rel = n)
      BY <1>1, <3>3, <3>4, <3>5, CountsNat DEF Refs, One
    <3> QED BY <3>1, <3>6 DEF RefsMatch
  <2>4. FreeUnused'
    BY <1>2, <2>1 DEF FreeUnused, Typed, TypeOK
  <2> QED BY <1>3, <2>3, <2>4
<1>5. CASE ~(ref[rel] <= 1)
  <2>1. /\ ref' = [ref EXCEPT ![rel] = ref[rel] - 1] /\ rel' = Null
        /\ kind' = kind /\ next' = next
    BY <1>5 DEF ReleaseStep
  <2>2. RefsMatch'
    <3> SUFFICES ASSUME NEW n \in Node PROVE ref'[n] = Refs(n)'
      BY DEF RefsMatch
    <3>1. ref'[n] = ref[n] - One(rel = n)
      BY <1>2, <2>1, CountsNat DEF One, Typed, TypeOK
    <3>2. One(rel' = n) = 0
      BY <2>1, SentinelAssumption DEF One
    <3>3. Refs(n)' = Refs(n) - One(rel = n)
      BY <1>1, <2>1, <3>2, CountsNat DEF Refs, One
    <3> QED BY <3>1, <3>3 DEF RefsMatch
  <2>3. FreeUnused'
    BY <1>2, <1>5, <2>1 DEF FreeUnused, Typed, TypeOK
  <2> QED BY <1>3, <2>2, <2>3
<1> QED BY <1>4, <1>5

\* Creating the map touches no reference.
LEMMA MapCreateOwned ==
    ASSUME Typed, Owned, MapCreate PROVE Owned'
<1> USE DEF Owned
<1>1. UNCHANGED <<heap, client, slot, present, running>>
  BY DEF MapCreate
<1>2. RefsMatch'
  BY <1>1 DEF RefsMatch, Refs, heap, client, running
<1>3. FreeUnused'
  BY <1>1 DEF FreeUnused, heap
<1>4. SlotsOwned'
  BY <1>1, SlotsFrame DEF running
<1> QED BY <1>2, <1>3, <1>4

\* A map operation takes charge of the slots of its keys.
LEMMA StartOwned ==
    ASSUME Typed, Owned, NEW op, NEW keys \in SUBSET Key, NEW a, NEW t,
           Start(op, keys, a, t)
    PROVE  Owned'
<1> USE DEF Owned
<1>1. UNCHANGED <<kind, next, ref, handle, iter, lost, slot, present, rel>>
  BY DEF Start, heap, client, map
<1>2. RefsMatch'
  BY <1>1 DEF RefsMatch, Refs
<1>3. FreeUnused'
  BY <1>1 DEF FreeUnused
<1>4. SlotsOwned'
  <2> SUFFICES ASSUME NEW s \in Slot, slot[s] \in Node
               PROVE  s \in due' \/ (s[1] \in present /\ s[1] \notin call'.keys)
    BY <1>1 DEF SlotsOwned
  <2>1. s[1] \in present
    BY DEF SlotsOwned, Start, Idle
  <2>2. s[1] \in Key /\ s[2] \in Side /\ s = <<s[1], s[2]>>
    BY DEF Slot
  <2>3. due' = (keys \cap present) \X Side /\ call'.keys = keys
    BY DEF Start
  <2> QED BY <2>1, <2>2, <2>3
<1> QED BY <1>2, <1>3, <1>4

\* The reference of the slot moves to the running release.
LEMMA ReleaseSlotOwned ==
    ASSUME Typed, Owned, ReleaseSlot PROVE Owned'
<1> USE DEF Owned
<1>1. PICK s \in NextDue : /\ due' = due \ {s}
                           /\ slot' = [slot EXCEPT ![s] = Null]
                           /\ rel' = Released(slot[s])
  BY DEF ReleaseSlot
<1>2. s \in Slot
  BY DEF NextDue, Slot, Side
<1>3. rel = Null /\ UNCHANGED <<kind, next, ref, handle, iter, lost, present, call>>
  BY DEF ReleaseSlot, heap, client
<1>4. \A e \in Slot : e # s => slot'[e] = slot[e]
  BY <1>1, <1>2 DEF Typed, TypeOK
<1>5. slot'[s] = Null
  BY <1>1, <1>2 DEF Typed, TypeOK
<1>6. RefsMatch'
  <2> SUFFICES ASSUME NEW n \in Node PROVE ref'[n] = Refs(n)'
    BY DEF RefsMatch
  <2>1. Count(slot', Slot, n) = Count(slot, Slot, n) + One(slot'[s] = n) - One(slot[s] = n)
    BY <1>2, <1>4, CountUpdate, FiniteDomains
  <2>2. One(slot'[s] = n) = 0 /\ One(rel = n) = 0
    BY <1>3, <1>5, SentinelAssumption DEF One
  <2>3. One(rel' = n) = One(slot[s] = n)
    BY <1>1, SentinelAssumption DEF Released, One
  <2>4. Refs(n)' = Refs(n)
    BY <1>3, <2>1, <2>2, <2>3, CountsNat DEF Refs, One
  <2> QED BY <1>3, <2>4 DEF RefsMatch
<1>7. FreeUnused'
  BY <1>3 DEF FreeUnused
<1>8. SlotsOwned'
  BY <1>1, <1>3, <1>4, <1>5, SentinelAssumption DEF SlotsOwned
<1> QED BY <1>6, <1>7, <1>8

\* When a call has released all its slots, the slots of its keys are empty.
LEMMA SlotsEmptied ==
    ASSUME SlotsOwned, due = {}, NEW s \in Slot, s[1] \in call.keys
    PROVE  slot[s] \notin Node
BY DEF SlotsOwned

\* Erasing the entries of a finished call drops no reference.
LEMMA EraseOwned ==
    ASSUME Typed, Owned, due = {}, due' = {},
           UNCHANGED <<kind, next, ref, handle, iter, lost, rel>>,
           present' = present \ call.keys, call' = NoCall,
           slot' = Entries(Null, Null)
    PROVE  Owned'
<1> USE DEF Owned
<1>1. \A s \in Slot : /\ s[1] \notin call.keys => slot'[s] = slot[s]
                      /\ s[1] \in call.keys => slot'[s] = Null
  BY DEF Entries
<1>2. \A s \in Slot, n \in Node : slot'[s] = n <=> slot[s] = n
  BY <1>1, SlotsEmptied, SentinelAssumption
<1>3. RefsMatch'
  <2> SUFFICES ASSUME NEW n \in Node PROVE ref'[n] = Refs(n)'
    BY DEF RefsMatch
  <2>1. {s \in Slot : slot'[s] = n} = {s \in Slot : slot[s] = n}
    BY <1>2
  <2>2. Count(slot', Slot, n) = Count(slot, Slot, n)
    BY <2>1 DEF Count
  <2>3. Refs(n)' = Refs(n)
    BY <2>2 DEF Refs
  <2> QED BY <2>3 DEF RefsMatch
<1>4. FreeUnused'
  BY DEF FreeUnused
<1>5. SlotsOwned'
  BY <1>1, SentinelAssumption DEF SlotsOwned, NoCall
<1> QED BY <1>3, <1>4, <1>5

\* save_pair retains its two arguments for the two slots, which are empty.
LEMMA FinishSaveOwned ==
    ASSUME Typed, Owned, FinishSave PROVE Owned'
<1> USE DEF Owned
<1> DEFINE p == handle[call.addr]
           q == handle[call.type]
<1>1. PICK k \in Key : call.keys = {k}
  BY DEF FinishSave, Releasing, Typed, CallShape
<1>2. call.addr \in Handle /\ call.type \in Handle
  BY DEF FinishSave, Releasing, Typed, CallShape
<1>3. due = {} /\ UNCHANGED <<kind, next, handle, iter, lost, rel, due>>
  BY DEF FinishSave, Releasing, client
<1>4. \A n \in Node : ref'[n] = ref[n] + One(n = p) + One(n = q)
  BY DEF FinishSave, Retained2
<1> DEFINE c == <<k, "addr">>
           d == <<k, "type">>
<1>5. c \in Slot /\ d \in Slot /\ c # d
  BY DEF Slot, Side
<1>6. \A s \in Slot : s # c /\ s # d => s[1] # k
  BY DEF Slot, Side
<1>7. \A s \in Slot : s # c /\ s # d => slot'[s] = slot[s]
  BY <1>1, <1>6 DEF FinishSave, Entries
<1>8. slot'[c] = p /\ slot'[d] = q
  BY <1>1, <1>5 DEF FinishSave, Entries
<1>9. slot[c] \notin Node /\ slot[d] \notin Node
  BY <1>1, <1>3, <1>5, SlotsEmptied
<1>10. RefsMatch'
  <2> SUFFICES ASSUME NEW n \in Node PROVE ref'[n] = Refs(n)'
    BY DEF RefsMatch
  <2>1. Count(slot', Slot, n) = Count(slot, Slot, n) + One(slot'[c] = n) - One(slot[c] = n)
                                                     + One(slot'[d] = n) - One(slot[d] = n)
    <3> HIDE DEF c, d
    <3> QED BY <1>5, <1>7, CountUpdate2, FiniteDomains
  <2>2. One(slot'[c] = n) = One(n = p) /\ One(slot'[d] = n) = One(n = q)
    BY <1>8 DEF One
  <2>3. One(slot[c] = n) = 0 /\ One(slot[d] = n) = 0
    BY <1>9 DEF One
  <2>4. Refs(n)' = Refs(n) + One(n = p) + One(n = q)
    BY <1>3, <2>1, <2>2, <2>3, CountsNat DEF Refs, One
  <2> QED BY <1>4, <2>4, CountsNat DEF RefsMatch, One
<1>11. FreeUnused'
  <2>1. \A n \in Node : n = p \/ n = q => ref[n] # 0
    BY <1>2, ZeroUnheld
  <2>2. \A n \in Node : ref'[n] = 0 <=> ref[n] = 0
    BY <1>4, <2>1, CountsNat DEF One
  <2> QED BY <1>3, <2>2 DEF FreeUnused
<1>12. SlotsOwned'
  <2>1. call' = NoCall /\ present' = present \cup {k} /\ due' = {}
    BY <1>1, <1>3 DEF FinishSave
  <2>2. \A s \in Slot : slot'[s] \in Node => s[1] \in present'
    BY <1>3, <1>5, <1>7, <2>1 DEF SlotsOwned
  <2>3. call'.keys = {}
    BY <2>1 DEF NoCall
  <2> QED BY <2>2, <2>3 DEF SlotsOwned
<1> QED BY <1>10, <1>11, <1>12

\* A save that throws has retained its arguments for nobody: those
\* references are lost.
LEMMA SaveThrowsOwned ==
    ASSUME Typed, Owned, SaveThrows PROVE Owned'
<1> USE DEF Owned
<1> DEFINE p == handle[call.addr]
           q == handle[call.type]
<1>1. call.addr \in Handle /\ call.type \in Handle
  BY DEF SaveThrows, Releasing, Typed, CallShape
<1>2. /\ due = {} /\ call' = NoCall /\ call.keys \cap present = {}
      /\ UNCHANGED <<kind, next, handle, iter, slot, present, rel, due>>
  BY DEF SaveThrows, Releasing, map
<1>3. \A n \in Node : /\ ref'[n] = ref[n] + One(n = p) + One(n = q)
                      /\ lost'[n] = lost[n] + One(n = p) + One(n = q)
  <2>1. \A n \in Node : One(n = handle[call.addr]) = One(n = p)
    OBVIOUS
  <2> QED BY <2>1 DEF SaveThrows, Retained2, One
<1>4. RefsMatch'
  <2> SUFFICES ASSUME NEW n \in Node PROVE ref'[n] = Refs(n)'
    BY DEF RefsMatch
  <2>1. Refs(n)' = Refs(n) + One(n = p) + One(n = q)
    BY <1>2, <1>3, CountsNat DEF Refs, One
  <2> QED BY <1>3, <2>1, CountsNat DEF RefsMatch, One
<1>5. FreeUnused'
  <2>1. \A n \in Node : n = p \/ n = q => ref[n] # 0
    BY <1>1, ZeroUnheld
  <2>2. \A n \in Node : ref'[n] = 0 <=> ref[n] = 0
    BY <1>3, <2>1, CountsNat DEF One
  <2> QED BY <1>2, <2>2 DEF FreeUnused
<1>6. SlotsOwned'
  BY <1>2 DEF SlotsOwned, NoCall
<1> QED BY <1>4, <1>5, <1>6

\* load_pair retains both stacks for the two handles it writes.
LEMMA LoadPairOwned ==
    ASSUME Typed, Owned, NEW k \in Key, NEW h \in Handle, NEW g \in Handle,
           LoadPair(k, h, g)
    PROVE  Owned'
<1> USE DEF Owned
<1> DEFINE p == slot[<<k, "addr">>]
           q == slot[<<k, "type">>]
<1>1. <<k, "addr">> \in Slot /\ <<k, "type">> \in Slot
  BY DEF Slot, Side
<1>2. UNCHANGED <<kind, next, iter, slot, present, rel, due, call>>
  BY DEF LoadPair, map, running
<1>3. \A n \in Node : ref'[n] = ref[n] + One(n = p) + One(n = q)
  BY DEF LoadPair, Retained2
<1>4. RefsMatch'
  <2> SUFFICES ASSUME NEW n \in Node PROVE ref'[n] = Refs(n)'
    BY DEF RefsMatch
  <2>1. /\ Count(handle', Handle, n) \in Nat /\ lost'[n] \in Nat
        /\ Count(handle', Handle, n) + lost'[n]
             = Count(handle, Handle, n) + lost[n] + One(n = OrEmpty(p))
                                                  + One(n = OrEmpty(q))
    BY Store2Refs DEF LoadPair
  <2>2. One(n = OrEmpty(p)) = One(n = p) /\ One(n = OrEmpty(q)) = One(n = q)
    BY SentinelAssumption DEF OrEmpty, One
  <2>3. Refs(n)' = Refs(n) + One(n = p) + One(n = q)
    BY <1>2, <2>1, <2>2, CountsNat DEF Refs, One
  <2> QED BY <1>3, <2>3, CountsNat DEF RefsMatch, One
<1>5. FreeUnused'
  <2>1. \A n \in Node : n = p \/ n = q => ref[n] # 0
    BY <1>1, ZeroUnheld
  <2>2. \A n \in Node : ref'[n] = 0 <=> ref[n] = 0
    BY <1>3, <2>1, CountsNat DEF One
  <2> QED BY <1>2, <2>2 DEF FreeUnused
<1>6. SlotsOwned'
  BY <1>2, SlotsFrame
<1> QED BY <1>4, <1>5, <1>6

-----------------------------------------------------------------------------
(* All actions *)

\* Nothing is counted before the first call.
LEMMA OwnedInit == Init => Owned
<1> SUFFICES ASSUME Init PROVE Owned
  OBVIOUS
<1>1. FreeUnused /\ SlotsOwned
  BY SentinelAssumption DEF Init, FreeUnused, SlotsOwned
<1>2. RefsMatch
  <2> SUFFICES ASSUME NEW n \in Node PROVE ref[n] = Refs(n)
    BY DEF RefsMatch
  <2>1. /\ {h \in Handle : handle[h] = n} = {} /\ {i \in Iter : iter[i] = n} = {}
        /\ {s \in Slot : slot[s] = n} = {} /\ {m \in Node : next[m] = n} = {}
    BY SentinelAssumption DEF Init
  <2>2. /\ Count(handle, Handle, n) = 0 /\ Count(iter, Iter, n) = 0
        /\ Count(slot, Slot, n) = 0 /\ Count(next, Node, n) = 0
    BY <2>1, FS_EmptySet DEF Count
  <2>3. One(rel = n) = 0 /\ lost[n] = 0 /\ ref[n] = 0
    BY SentinelAssumption DEF Init, One
  <2> QED BY <2>2, <2>3 DEF Refs
<1> QED BY <1>1, <1>2 DEF Owned

\* Every step keeps the counts exact, if the client does not take the
\* unretained result of popping a created root for a reference of its own.
LEMMA OwnedStep ==
    ASSUME ~AliasRoots, Typed, Owned, [Next]_vars PROVE Owned'
<1>1. ASSUME NEW h \in Handle, Create(h) PROVE Owned'
  BY <1>1, CreateOwned
<1>2. ASSUME NEW h \in Handle, TakeEmpty(h) PROVE Owned'
  BY <1>2, ClearOwned DEF TakeEmpty
<1>3. ASSUME NEW h \in Handle, AllocFails(h) PROVE Owned'
  BY <1>3, ClearOwned DEF AllocFails
<1>4. ASSUME NEW h \in Handle, Destroy(h) PROVE Owned'
  BY <1>4, DestroyOwned
<1>5. ASSUME NEW h \in Handle, NEW g \in Handle, NEW v \in Value, Push(h, g, v)
      PROVE Owned'
  BY <1>5, PushOwned
<1>6. ASSUME NEW h \in Handle, NEW g \in Handle, PopElem(h, g) PROVE Owned'
  BY <1>6, PopElemOwned
<1>7. ASSUME NEW h \in Handle, NEW g \in Handle, PopEmpty(h, g) PROVE Owned'
  <2>1. Store(h, Empty) /\ UNCHANGED <<heap, iter, map, running>>
    BY <1>7 DEF PopEmpty
  <2> QED BY <2>1, ClearOwned
<1>8. ASSUME NEW k \in Key, NEW h \in Handle, NEW g \in Handle, LoadPair(k, h, g)
      PROVE Owned'
  BY <1>8, LoadPairOwned
<1>9. ASSUME NEW k \in Key, NEW a \in Handle, NEW t \in Handle, SavePair(k, a, t)
      PROVE Owned'
  BY <1>9, StartOwned DEF SavePair
<1>10. ASSUME NEW i \in Iter, IterNext(i) PROVE Owned'
  BY <1>10, IterNextOwned
<1>11. ASSUME NEW i \in Iter, IterDestroy(i) PROVE Owned'
  BY <1>11, IterDestroyOwned
<1>12. ASSUME NEW i \in Iter, NEW g \in Handle, IterCreate(i, g) PROVE Owned'
  BY <1>12, IterCreateOwned
<1>13. CASE MapCreate
  BY <1>13, MapCreateOwned
<1>14. CASE MapDestroy
  BY <1>14, StartOwned DEF MapDestroy
<1>15. ASSUME NEW k \in Key, Remove(k) PROVE Owned'
  BY <1>15, StartOwned DEF Remove
<1>16. CASE ReleaseStep
  BY <1>16, ReleaseStepOwned
<1>17. CASE ReleaseSlot
  BY <1>17, ReleaseSlotOwned
<1>18. CASE FinishSave
  BY <1>18, FinishSaveOwned
<1>19. CASE SaveThrows
  BY <1>19, SaveThrowsOwned
<1>20. CASE FinishRemove
  BY <1>20, EraseOwned DEF FinishRemove, Releasing, heap, client
<1>21. CASE FinishDestroy
  BY <1>21, EraseOwned DEF FinishDestroy, Releasing, heap, client
<1>22. CASE UNCHANGED vars
  BY <1>22 DEF Owned, FreeUnused, SlotsOwned, RefsMatch, Refs, vars, heap, client,
               map, running
<1> QED
  BY <1>1, <1>2, <1>3, <1>4, <1>5, <1>6, <1>7, <1>8, <1>9, <1>10, <1>11, <1>12,
     <1>13, <1>14, <1>15, <1>16, <1>17, <1>18, <1>19, <1>20, <1>21, <1>22
     DEF Next, Returning

-----------------------------------------------------------------------------
(* Chains *)

\* Only a push points a node somewhere, and nobody points to a new node.
LEMMA PushAcyclic ==
    ASSUME Typed, Owned, Acyclic,
           NEW h \in Handle, NEW g \in Handle, NEW v \in Value, Push(h, g, v)
    PROVE  Acyclic'
<1>1. PICK m \in Node : Malloc(m, "elem", handle[g], v)
  BY DEF Push
<1>2. next' = [next EXCEPT ![m] = handle[g]] /\ ref[m] = 0
  BY <1>1 DEF Malloc, Owned, FreeUnused
<1>3. handle[g] # m /\ \A n \in Node : next[n] # m
  BY <1>2, ZeroUnheld DEF Owned
<1>4. \A n \in Node : n # m => next'[n] = next[n]
  BY <1>2 DEF Typed, TypeOK
<1>5. \A n \in Node : next'[n] # m
  BY <1>2, <1>3 DEF Typed, TypeOK
<1> SUFFICES ASSUME NEW S \in SUBSET Node, S # {}
             PROVE  \E n \in S : \A x \in S : next'[x] # n
  BY DEF Acyclic
<1>6. CASE m \in S
  BY <1>5, <1>6
<1>7. CASE m \notin S
  BY <1>4, <1>7 DEF Acyclic
<1> QED BY <1>6, <1>7

\* No other action does.
LEMMA CutAcyclic ==
    ASSUME Acyclic, \A n \in Node : next'[n] = next[n] \/ next'[n] = Null
    PROVE  Acyclic'
<1> SUFFICES ASSUME NEW S \in SUBSET Node, S # {}
             PROVE  \E n \in S : \A x \in S : next'[x] # n
  BY DEF Acyclic
<1> QED BY SentinelAssumption DEF Acyclic

LEMMA AcyclicStep == Typed /\ Owned /\ Acyclic /\ [Next]_vars => Acyclic'
<1> SUFFICES ASSUME Typed, Owned, Acyclic, [Next]_vars PROVE Acyclic'
  OBVIOUS
<1>1. ASSUME NEW h \in Handle, NEW g \in Handle, NEW v \in Value, Push(h, g, v)
      PROVE  Acyclic'
  BY <1>1, PushAcyclic
<1>2. ASSUME NEW h \in Handle, Create(h) PROVE Acyclic'
  BY <1>2, CutAcyclic DEF Create, Malloc, Typed, TypeOK
<1>3. CASE ReleaseStep
  BY <1>3, CutAcyclic DEF ReleaseStep, Typed, TypeOK
<1>4. ASSUME next' = next PROVE Acyclic'
  BY <1>4, CutAcyclic
<1>5. ASSUME NEW h \in Handle, TakeEmpty(h) \/ AllocFails(h) \/ Destroy(h) PROVE next' = next
  BY <1>5 DEF TakeEmpty, AllocFails, Destroy, heap
<1>6. ASSUME NEW h \in Handle, NEW g \in Handle, PopElem(h, g) \/ PopEmpty(h, g)
      PROVE  next' = next
  BY <1>6 DEF PopElem, PopEmpty, heap
<1>7. ASSUME NEW k \in Key, NEW h \in Handle, NEW g \in Handle,
             LoadPair(k, h, g) \/ SavePair(k, h, g)
      PROVE  next' = next
  BY <1>7 DEF LoadPair, SavePair, Start, heap
<1>8. ASSUME NEW i \in Iter, IterNext(i) \/ IterDestroy(i) PROVE next' = next
  BY <1>8 DEF IterNext, IterDestroy, heap
<1>9. ASSUME NEW i \in Iter, NEW g \in Handle, IterCreate(i, g) PROVE next' = next
  BY <1>9 DEF IterCreate
<1>10. ASSUME MapCreate \/ MapDestroy \/ \E k \in Key : Remove(k) PROVE next' = next
  BY <1>10 DEF MapCreate, MapDestroy, Remove, Start, heap
<1>11. ASSUME ReleaseSlot \/ FinishSave \/ SaveThrows \/ FinishRemove \/ FinishDestroy
       PROVE  next' = next
  BY <1>11 DEF ReleaseSlot, FinishSave, SaveThrows, FinishRemove, FinishDestroy, heap
<1>12. CASE UNCHANGED vars
  BY <1>4, <1>12 DEF vars, heap
<1> QED
  BY <1>1, <1>2, <1>3, <1>4, <1>5, <1>6, <1>7, <1>8, <1>9, <1>10, <1>11, <1>12
     DEF Next, Returning

-----------------------------------------------------------------------------
(* The invariant *)

\* The inductive invariant holds in every reachable state.
THEOREM CountsInvariant == ASSUME ~AliasRoots PROVE Spec => []IInv
<1>1. Init => Typed /\ Owned
  BY TypedInit, OwnedInit
<1>2. Init => Acyclic
  BY SentinelAssumption DEF Init, Acyclic
<1>3. Typed /\ Owned /\ Acyclic /\ [Next]_vars => Typed' /\ Owned' /\ Acyclic'
  BY TypedStep, OwnedStep, AcyclicStep
<1>4. Typed /\ Owned /\ Acyclic => IInv
  BY DEF IInv, Typed, Owned
<1> QED BY <1>1, <1>2, <1>3, <1>4, PTL DEF Spec

\* For every heap and every client: the reference count of a node in use is
\* the number of references to it.
THEOREM ReferenceCountsExact == ASSUME ~AliasRoots PROVE Spec => []RefCountExact
<1>1. IInv => RefCountExact
  BY DEF IInv, RefsMatch, RefCountExact
<1> QED BY <1>1, CountsInvariant, PTL

\* For every heap and every client: no handle, iterator, map entry, next
\* pointer or running release points to a freed node.
THEOREM NoDanglingPointer == ASSUME ~AliasRoots PROVE Spec => []NoDangling
<1>1. IInv => NoDangling
  <2> SUFFICES ASSUME IInv, NEW n \in Node, kind[n] = "free"
               PROVE  /\ \A h \in Handle : handle[h] # n
                      /\ \A i \in Iter : iter[i] # n
                      /\ \A s \in Slot : slot[s] # n
                      /\ \A m \in Node : next[m] # n
                      /\ rel # n
    BY DEF NoDangling
  <2>1. ref[n] = 0 /\ Typed /\ RefsMatch
    BY DEF IInv, FreeUnused, Typed
  <2> QED BY <2>1, ZeroUnheld
<1> QED BY <1>1, CountsInvariant, PTL

\* A node whose count is not zero is in somebody's hands.
LEMMA CountedHeld ==
    ASSUME Typed, RefsMatch, NEW n \in Node, ref[n] # 0
    PROVE  n \in Roots \/ \E m \in Node : next[m] = n
<1> SUFFICES ASSUME n \notin Roots, \A m \in Node : next[m] # n PROVE ref[n] = 0
  OBVIOUS
<1>1. /\ {h \in Handle : handle[h] = n} = {} /\ {i \in Iter : iter[i] = n} = {}
      /\ {s \in Slot : slot[s] = n} = {} /\ {m \in Node : next[m] = n} = {}
      /\ rel # n /\ ~(lost[n] > 0)
  BY DEF Roots
<1>2. /\ Count(handle, Handle, n) = 0 /\ Count(iter, Iter, n) = 0
      /\ Count(slot, Slot, n) = 0 /\ Count(next, Node, n) = 0
  BY <1>1, FS_EmptySet DEF Count
<1>3. One(rel = n) = 0 /\ lost[n] = 0
  BY <1>1, CountsNat DEF One
<1> QED BY <1>2, <1>3 DEF Refs, RefsMatch

\* For every heap and every client: a node in use can be reached from a
\* handle, an iterator, a map entry, the release in progress, or a reference
\* that the client dropped.  The nodes in use that cannot be reached would
\* have one that none of them points to, which nobody could have counted.
THEOREM NothingLeaks == ASSUME ~AliasRoots PROVE Spec => []Reclaimed
<1>1. IInv => Reclaimed
  <2> SUFFICES ASSUME IInv, NEW S \in SUBSET Node, Roots \cap Node \subseteq S,
                      \A n \in S : next[n] \in Node => next[n] \in S
               PROVE  \A n \in Node : kind[n] # "free" => n \in S
    BY DEF Reclaimed
  <2> DEFINE U == {n \in Node : kind[n] # "free" /\ n \notin S}
  <2> SUFFICES ASSUME U # {} PROVE FALSE
    OBVIOUS
  <2>1. PICK n \in U : \A m \in U : next[m] # n
    BY DEF IInv, Acyclic
  <2>2. n \in Node /\ ref[n] # 0 /\ n \notin S /\ Typed /\ RefsMatch
    BY DEF IInv, FreeUnused, Typed
  <2>3. PICK m \in Node : next[m] = n
    BY <2>2, CountedHeld
  <2>4. kind[m] # "free"
    BY <2>2, <2>3, SentinelAssumption DEF IInv, FreeUnused
  <2>5. m \in S
    BY <2>1, <2>3, <2>4
  <2> QED BY <2>2, <2>3, <2>5
<1> QED BY <1>1, CountsInvariant, PTL

=============================================================================
