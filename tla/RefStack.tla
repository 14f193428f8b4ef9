------------------------------ MODULE RefStack ------------------------------
(***************************************************************************)
(* The persistent stack of src/stack.cpp: nodes shared between stacks and  *)
(* kept alive by reference counts, iterators that hold a reference of      *)
(* their own, and one StackStateMap that holds two references per key.     *)
(*                                                                         *)
(* An API call that only retains is one step.  A call that releases takes  *)
(* one step per activation of stack_release, so a state in the middle of a *)
(* recursive release, or between the releases and the retains of           *)
(* save_pair, is a state of the model.  The library has no locks and is    *)
(* called by one thread: a call starts only when the last one returned.    *)
(*                                                                         *)
(* A pointer that a call is about to release is moved: the variable that   *)
(* owned it becomes Null in the step that hands the reference to rel.      *)
(***************************************************************************)
EXTENDS Integers, FiniteSets

CONSTANTS
    Node,       \* heap addresses malloc can return for a stack_node
    Handle,     \* the client's variables of type Stack
    Iter,       \* the client's variables of type StackIterator
    Key,        \* keys of the StackStateMap
    Value,      \* values pushed
    Zero,       \* the value of a new root, and of a node that is not in use
    Null,       \* NULL
    Empty,      \* &empty_stack_singleton, which is never counted nor freed
    MaxLost,    \* bound: references to one node that the client may drop
                \*   (by overwriting a handle) without destroying them
    AliasRoots  \* TRUE if the client pops a created, still empty stack into
                \*   a second handle and then owns both

ASSUME HeapAssumption ==
    /\ IsFiniteSet(Node) /\ IsFiniteSet(Handle)
    /\ IsFiniteSet(Iter) /\ IsFiniteSet(Key)
ASSUME SentinelAssumption ==
    Null \notin Node /\ Empty \notin Node /\ Null # Empty
ASSUME BoundAssumption == MaxLost \in Nat /\ AliasRoots \in BOOLEAN

VARIABLES
    kind,     \* node -> "free", "root" (is_terminal) or "elem"
    next,     \* node -> its next pointer
    value,    \* node -> its value
    ref,      \* node -> ref_count
    handle,   \* what each Stack variable of the client points to
    iter,     \* it->current of each iterator; Null: no iterator
    up,       \* the StackStateMap exists
    present,  \* keys of the map
    slot,     \* the pair of each key: <<key, side>> -> pointer
    rel,      \* argument of the running stack_release, Null if none
    due,      \* slots whose stack_release the running call still has to make
    call,     \* the map operation in progress
    lost      \* node -> references the client dropped (no code reads it)

heap    == <<kind, next, value, ref>>
client  == <<handle, iter, lost>>
map     == <<up, present, slot>>
running == <<rel, due, call>>
vars    == <<heap, client, map, running>>

Side    == {"addr", "type"}
Slot    == Key \X Side
Pointer == Node \cup {Null, Empty}

NoCall  == [op |-> "none", keys |-> {}, addr |-> Null, type |-> Null]
Call    == [op: {"none", "save", "remove", "destroy"}, keys: SUBSET Key,
            addr: Handle \cup {Null}, type: Handle \cup {Null}]

TypeOK ==
    /\ kind \in [Node -> {"free", "root", "elem"}]
    /\ next \in [Node -> Pointer]
    /\ value \in [Node -> Value \cup {Zero}]
    /\ ref \in [Node -> Nat]
    /\ handle \in [Handle -> Pointer]
    /\ iter \in [Iter -> Pointer]
    /\ up \in BOOLEAN
    /\ present \subseteq Key
    /\ slot \in [Slot -> Pointer]
    /\ rel \in Node \cup {Null}
    /\ due \subseteq Slot
    /\ call \in Call
    /\ lost \in [Node -> Nat]

Init ==
    /\ kind = [n \in Node |-> "free"]
    /\ next = [n \in Node |-> Null]
    /\ value = [n \in Node |-> Zero]
    /\ ref = [n \in Node |-> 0]
    /\ handle = [h \in Handle |-> Null]
    /\ iter = [i \in Iter |-> Null]
    /\ up = FALSE
    /\ present = {}
    /\ slot = [s \in Slot |-> Null]
    /\ rel = Null
    /\ due = {}
    /\ call = NoCall
    /\ lost = [n \in Node |-> 0]

Idle == rel = Null /\ due = {} /\ call = NoCall

-----------------------------------------------------------------------------
(* Helpers *)

One(b) == IF b THEN 1 ELSE 0

OrEmpty(p) == IF p = Null THEN Empty ELSE p

\* stack_retain(p), and stack_retain(p); stack_retain(q): NULL and the
\* singleton are not counted.
Retained(p)     == [n \in Node |-> ref[n] + One(n = p)]
Retained2(p, q) == [n \in Node |-> ref[n] + One(n = p) + One(n = q)]

\* Mutant: stack_release does not stop at the singleton.
ReleasedEmptyToo(p) == p

\* stack_release(p) is called: it returns at once for NULL and the singleton.
Released(p) == IF p \in Node THEN p ELSE Null

\* The client stores p in handle h.  A reference that h still owned is lost.
Store(h, p) ==
    /\ handle' = [handle EXCEPT ![h] = p]
    /\ lost' = [n \in Node |-> lost[n] + One(n = handle[h])]
    /\ \A n \in Node : lost'[n] <= MaxLost

\* As Store, for the two out parameters of load_pair.
Store2(h, p, g, q) ==
    /\ handle' = [handle EXCEPT ![h] = p, ![g] = q]
    /\ lost' = [n \in Node |-> lost[n] + One(n = handle[h]) + One(n = handle[g])]
    /\ \A n \in Node : lost'[n] <= MaxLost

\* malloc returns n: any address not in use, reused ones included.
Malloc(n, k, p, v) ==
    /\ kind[n] = "free"
    /\ kind' = [kind EXCEPT ![n] = k]
    /\ next' = [next EXCEPT ![n] = p]
    /\ value' = [value EXCEPT ![n] = v]

-----------------------------------------------------------------------------
(* Stacks *)

\* wasmig_stack_create: a root of its own, owned by the caller.
Create(h) ==
    /\ Idle
    /\ \E n \in Node :
         /\ Malloc(n, "root", Null, Zero)
         /\ ref' = [ref EXCEPT ![n] = 1]
         /\ Store(h, n)
    /\ UNCHANGED <<iter, map, running>>

\* wasmig_stack_empty
TakeEmpty(h) ==
    /\ Idle
    /\ Store(h, Empty)
    /\ UNCHANGED <<heap, iter, map, running>>

\* wasmig_stack_push on the stack in g (NULL allowed), the result stored in h.
Push(h, g, v) ==
    /\ Idle
    /\ \E n \in Node :
         /\ Malloc(n, "elem", handle[g], v)
         /\ ref' = [Retained(handle[g]) EXCEPT ![n] = 1]
         /\ Store(h, n)
    /\ UNCHANGED <<iter, map, running>>

\* malloc fails in create or push: the caller gets NULL.
AllocFails(h) ==
    /\ Idle
    /\ Store(h, Null)
    /\ UNCHANGED <<heap, iter, map, running>>

\* Mutant: pop hands out the rest without a retain.
PopElemBorrowed(h, g) ==
    /\ Idle
    /\ handle[g] \in Node /\ kind[handle[g]] = "elem"
    /\ Store(h, OrEmpty(next[handle[g]]))
    /\ UNCHANGED <<heap, iter, map, running>>

\* wasmig_stack_pop of an element: the caller owns the rest; the popped
\* node keeps the reference of g.
PopElem(h, g) ==
    /\ Idle
    /\ handle[g] \in Node /\ kind[handle[g]] = "elem"
    /\ ref' = Retained(next[handle[g]])
    /\ Store(h, OrEmpty(next[handle[g]]))
    /\ UNCHANGED <<kind, next, value, iter, map, running>>

\* wasmig_stack_pop of an empty stack returns its argument without a retain.
\* Storing a created root over itself changes nothing.
PopEmpty(h, g) ==
    /\ Idle
    /\ IF handle[g] \in Node
       THEN /\ kind[handle[g]] = "root"
            /\ h # g /\ AliasRoots
            /\ Store(h, handle[g])
       ELSE Store(h, Empty)
    /\ UNCHANGED <<heap, iter, map, running>>

\* wasmig_stack_destroy: the client gives up handle h.
Destroy(h) ==
    /\ Idle
    /\ handle[h] # Null
    /\ handle' = [handle EXCEPT ![h] = Null]
    /\ rel' = Released(handle[h])
    /\ UNCHANGED <<heap, iter, lost, map, due, call>>

\* Mutant: stack_release frees a node and forgets the ones below.
ReleaseStepShallow ==
    /\ rel \in Node
    /\ ref' = [ref EXCEPT ![rel] = @ - 1]
    /\ rel' = Null
    /\ IF ref[rel] <= 1
       THEN /\ kind' = [kind EXCEPT ![rel] = "free"]
            /\ next' = [next EXCEPT ![rel] = Null]
            /\ value' = [value EXCEPT ![rel] = Zero]
       ELSE UNCHANGED <<kind, next, value>>
    /\ UNCHANGED <<client, map, due, call>>

\* One activation of stack_release.  A node whose count drops to zero is
\* freed and the recursion goes on with its next.
ReleaseStep ==
    /\ rel \in Node
    /\ IF ref[rel] <= 1
       THEN /\ kind' = [kind EXCEPT ![rel] = "free"]
            /\ next' = [next EXCEPT ![rel] = Null]
            /\ value' = [value EXCEPT ![rel] = Zero]
            /\ ref' = [ref EXCEPT ![rel] = 0]
            /\ rel' = Released(next[rel])
       ELSE /\ ref' = [ref EXCEPT ![rel] = @ - 1]
            /\ rel' = Null
            /\ UNCHANGED <<kind, next, value>>
    /\ UNCHANGED <<client, map, due, call>>

-----------------------------------------------------------------------------
(* Iterators; foreach and count_stack_entries are create, next ..., destroy *)

\* wasmig_stack_iterator_create
IterCreate(i, g) ==
    /\ Idle
    /\ iter[i] = Null
    /\ iter' = [iter EXCEPT ![i] = OrEmpty(handle[g])]
    /\ ref' = Retained(handle[g])
    /\ UNCHANGED <<kind, next, value, handle, lost, map, running>>

\* Mutant: next is not retained before the current node is released.
IterNextBorrowed(i) ==
    /\ Idle
    /\ iter[i] \in Node /\ kind[iter[i]] = "elem"
    /\ iter' = [iter EXCEPT ![i] = OrEmpty(next[iter[i]])]
    /\ rel' = iter[i]
    /\ UNCHANGED <<heap, handle, lost, map, due, call>>

\* wasmig_stack_iterator_next: retain the next node, release the current one.
IterNext(i) ==
    /\ Idle
    /\ iter[i] \in Node /\ kind[iter[i]] = "elem"
    /\ ref' = Retained(next[iter[i]])
    /\ iter' = [iter EXCEPT ![i] = OrEmpty(next[iter[i]])]
    /\ rel' = iter[i]
    /\ UNCHANGED <<kind, next, value, handle, lost, map, due, call>>

\* wasmig_stack_iterator_destroy
IterDestroy(i) ==
    /\ Idle
    /\ iter[i] # Null
    /\ iter' = [iter EXCEPT ![i] = Null]
    /\ rel' = Released(iter[i])
    /\ UNCHANGED <<heap, handle, lost, map, due, call>>

-----------------------------------------------------------------------------
(* The StackStateMap *)

\* wasmig_stack_state_map_create
MapCreate ==
    /\ Idle
    /\ ~up
    /\ up' = TRUE
    /\ UNCHANGED <<heap, client, present, slot, running>>

\* Mutant: the type stacks are never released.
StartAddrOnly(op, keys, a, t) ==
    /\ Idle
    /\ up
    /\ call' = [op |-> op, keys |-> keys, addr |-> a, type |-> t]
    /\ due' = (keys \cap present) \X {"addr"}
    /\ UNCHANGED <<heap, client, map, rel>>

\* A map operation starts: it will release every slot the given keys have.
Start(op, keys, a, t) ==
    /\ Idle
    /\ up
    /\ call' = [op |-> op, keys |-> keys, addr |-> a, type |-> t]
    /\ due' = (keys \cap present) \X Side
    /\ UNCHANGED <<heap, client, map, rel>>

SavePair(k, a, t) == Start("save", {k}, a, t)     \* ..._state_save_pair
Remove(k)         == k \in present /\ Start("remove", {k}, Null, Null)
MapDestroy        == Start("destroy", Key, Null, Null)

\* Key by key in the order of the hash map, the address stack first.
NextDue ==
    LET opened == {k \in Key : <<k, "type">> \in due /\ <<k, "addr">> \notin due}
    IN  IF opened # {} THEN opened \X {"type"}
                       ELSE due \cap (Key \X {"addr"})

\* Mutant: the loop over the map does not advance.
ReleaseSlotAgain ==
    /\ rel = Null
    /\ \E s \in NextDue :
         /\ slot' = [slot EXCEPT ![s] = Null]
         /\ rel' = Released(slot[s])
    /\ UNCHANGED <<heap, client, up, present, due, call>>

\* The call releases the next slot.
ReleaseSlot ==
    /\ rel = Null
    /\ \E s \in NextDue :
         /\ due' = due \ {s}
         /\ slot' = [slot EXCEPT ![s] = Null]
         /\ rel' = Released(slot[s])
    /\ UNCHANGED <<heap, client, up, present, call>>

Releasing(op) == call.op = op /\ rel = Null /\ due = {}

\* The pair <<p, q>> for the keys of the call; other entries stay.
Entries(p, q) == [s \in Slot |-> IF s[1] \notin call.keys THEN slot[s]
                                 ELSE IF s[2] = "addr" THEN p ELSE q]

\* Mutant: the pair is stored the wrong way round.
FinishSaveSwapped ==
    /\ Releasing("save")
    /\ ref' = Retained2(handle[call.addr], handle[call.type])
    /\ slot' = Entries(handle[call.type], handle[call.addr])
    /\ present' = present \cup call.keys
    /\ call' = NoCall
    /\ UNCHANGED <<kind, next, value, client, up, rel, due>>

\* save_pair retains its arguments, after it released the old pair, and
\* writes the entry.
FinishSave ==
    /\ Releasing("save")
    /\ ref' = Retained2(handle[call.addr], handle[call.type])
    /\ slot' = Entries(handle[call.addr], handle[call.type])
    /\ present' = present \cup call.keys
    /\ call' = NoCall
    /\ UNCHANGED <<kind, next, value, client, up, rel, due>>

\* Inserting a new key throws: save_pair has retained, and returns false.
SaveThrows ==
    /\ Releasing("save")
    /\ call.keys \cap present = {}
    /\ ref' = Retained2(handle[call.addr], handle[call.type])
    /\ lost' = [n \in Node |-> lost[n] + One(n = handle[call.addr])
                                       + One(n = handle[call.type])]
    /\ \A n \in Node : lost'[n] <= MaxLost
    /\ call' = NoCall
    /\ UNCHANGED <<kind, next, value, handle, iter, map, rel, due>>

\* Mutant: remove erases the whole map.
FinishRemoveAll ==
    /\ Releasing("remove")
    /\ present' = {}
    /\ slot' = [s \in Slot |-> Null]
    /\ call' = NoCall
    /\ UNCHANGED <<heap, client, up, rel, due>>

FinishRemove ==
    /\ Releasing("remove")
    /\ present' = present \ call.keys
    /\ slot' = Entries(Null, Null)
    /\ call' = NoCall
    /\ UNCHANGED <<heap, client, up, rel, due>>

FinishDestroy ==
    /\ Releasing("destroy")
    /\ up' = FALSE
    /\ present' = present \ call.keys
    /\ slot' = Entries(Null, Null)
    /\ call' = NoCall
    /\ UNCHANGED <<heap, client, rel, due>>

\* Mutant: load_pair does not retain what it returns.
LoadPairBorrowed(k, h, g) ==
    /\ Idle
    /\ up /\ k \in present
    /\ h # g
    /\ Store2(h, OrEmpty(slot[<<k, "addr">>]), g, OrEmpty(slot[<<k, "type">>]))
    /\ UNCHANGED <<heap, iter, map, running>>

\* wasmig_stack_state_load_pair into two handles, each with a retain.
LoadPair(k, h, g) ==
    /\ Idle
    /\ up /\ k \in present
    /\ h # g
    /\ ref' = Retained2(slot[<<k, "addr">>], slot[<<k, "type">>])
    /\ Store2(h, OrEmpty(slot[<<k, "addr">>]), g, OrEmpty(slot[<<k, "type">>]))
    /\ UNCHANGED <<kind, next, value, iter, map, running>>

-----------------------------------------------------------------------------
Returning == ReleaseStep \/ ReleaseSlot \/ FinishSave \/ SaveThrows
             \/ FinishRemove \/ FinishDestroy

Next ==
    \/ \E h \in Handle : Create(h) \/ TakeEmpty(h) \/ AllocFails(h) \/ Destroy(h)
    \/ \E h, g \in Handle :
         \/ \E v \in Value : Push(h, g, v)
         \/ PopElem(h, g)
         \/ PopEmpty(h, g)
         \/ \E k \in Key : LoadPair(k, h, g) \/ SavePair(k, h, g)
    \/ \E i \in Iter : IterNext(i) \/ IterDestroy(i)
                       \/ \E g \in Handle : IterCreate(i, g)
    \/ MapCreate
    \/ MapDestroy
    \/ \E k \in Key : Remove(k)
    \/ Returning

Spec == Init /\ [][Next]_vars

\* A running call is ordinary sequential code: it keeps taking steps.
FairSpec == Spec /\ WF_vars(Returning)

-----------------------------------------------------------------------------
(* Properties *)

Count(f, D, p) == Cardinality({d \in D : f[d] = p})

\* References to node n: from handles, iterators, map slots, other nodes,
\* the release in progress, and those the client dropped.
Refs(n) == Count(handle, Handle, n) + Count(iter, Iter, n)
           + Count(slot, Slot, n) + Count(next, Node, n)
           + One(rel = n) + lost[n]

\* The count of every node in use is exactly the number of references to it,
\* in every state, those in the middle of a release included: retains and
\* releases balance on every path of stack.cpp.
RefCountExact == \A n \in Node : kind[n] # "free" => ref[n] = Refs(n)

\* Nothing the client or the library will dereference points to a freed
\* node: handles, iterators (stack.h: "the caller needn't worry about the
\* stack being released elsewhere during iteration"), map entries that have
\* not been given up, next pointers, and the pointer being released.
NoDangling ==
    LET held == {handle[h] : h \in Handle} \cup {iter[i] : i \in Iter}
                \cup {slot[s] : s \in Slot} \cup {rel}
                \cup {next[n] : n \in Node}
    IN  \A n \in Node : kind[n] = "free" => n \notin held

Roots == {handle[h] : h \in Handle} \cup {iter[i] : i \in Iter}
         \cup {slot[s] : s \in Slot} \cup {rel}
         \cup {n \in Node : lost[n] > 0}

\* Releases reclaim everything: a node in use can be reached from a handle,
\* an iterator, a map entry, the release in progress, or a reference that
\* the client dropped, that is, it is in every set that holds these and
\* follows next; with none of those the heap is empty.
Reclaimed ==
    \A S \in SUBSET Node :
        Roots \cap Node \subseteq S /\ (\A n \in S : next[n] \in Node => next[n] \in S)
        => \A n \in Node : kind[n] # "free" => n \in S

\* What makes the counts inductive.  A free node holds no pointer and is
\* counted by nobody; between calls a slot holds a pointer only if its key is
\* present; a running call accounts for the slots of its keys through due.
FreeUnused ==
    \A n \in Node :
        /\ kind[n] = "free" <=> ref[n] = 0
        /\ kind[n] = "free" => next[n] = Null

SlotsOwned ==
    \A s \in Slot : slot[s] \in Node =>
        s \in due \/ (s[1] \in present /\ s[1] \notin call.keys)

CallShape ==
    call.op = "save" => /\ call.addr \in Handle /\ call.type \in Handle
                        /\ \E k \in Key : call.keys = {k}

RefsMatch == \A n \in Node : ref[n] = Refs(n)

\* No chain of next pointers closes: every set of nodes has one that none of
\* them points to.
Acyclic ==
    \A S \in SUBSET Node : S # {} => \E n \in S : \A m \in S : next[m] # n

IInv == TypeOK /\ CallShape /\ FreeUnused /\ SlotsOwned /\ RefsMatch /\ Acyclic

\* stack.h: an iterator "holds internal retains/releases so the caller needn't
\* worry about the stack being released elsewhere during iteration": while an
\* iterator stands on a node no call frees that node.
IteratorKeepsNode ==
    [][\A i \in Iter : iter[i] \in Node /\ kind[iter[i]] # "free"
          /\ iter'[i] = iter[i] => kind'[iter[i]] # "free"]_vars

=============================================================================
