----------------------------- MODULE AddressMap -----------------------------
(***************************************************************************)
(* The address map of src/table_v3.cpp: two hash maps, kv from a packed    *)
(* (fidx, offset) to a native address and vk back.  set_bidirect and       *)
(* remove keep them in step, set_forward and set_backward write one of     *)
(* them.  An insertion may throw bad_alloc between the two writes.         *)
(***************************************************************************)
EXTENDS Integers

CONSTANTS
    Word,      \* 2^32 in the code: fidx and offset are below Word
    Address,   \* native addresses
    None       \* no entry

ASSUME WordAssumption == Word \in Nat /\ Word > 0

VARIABLES
    kv,        \* packed key -> address
    vk,        \* address -> packed key
    loose,     \* keys once given to a one-way setter, and
    spoiled    \* addresses given to a key while another one had them, or
               \*   by a call that threw (no code reads these two)

vars == <<kv, vk, loose, spoiled>>

Index == 0..(Word - 1)

\* pack_fidx_offset
Pack(f, o) == f * Word + o

\* Mutant: the halves are taken the wrong way round.
UnpackSwapped(p) == <<p % Word, p \div Word>>

\* unpack_fidx_offset
Unpack(p) == <<p \div Word, p % Word>>

Packed == {Pack(i[1], i[2]) : i \in Index \X Index}

TypeOK ==
    /\ kv \in [Packed -> Address \cup {None}]
    /\ vk \in [Address -> Packed \cup {None}]
    /\ loose \subseteq Packed
    /\ spoiled \subseteq Address

ASSUME NoneAssumption == None \notin Address /\ None \notin Packed

Init ==
    /\ kv = [p \in Packed |-> None]
    /\ vk = [a \in Address |-> None]
    /\ loose = {} /\ spoiled = {}

\* vk->erase(kv[p]): the entry goes even if another key has taken it over.
Unlinked(p) == [a \in Address |-> IF a = kv[p] THEN None ELSE vk[a]]

\* Key p is given address a.
Give(p, a) ==
    spoiled' = IF \E q \in Packed : kv[q] = a /\ q # p
               THEN spoiled \cup {a} ELSE spoiled

\* Mutant: the old address of the key keeps its entry.
SetBidirectKeepsOld(f, o, a) ==
    LET p == Pack(f, o) IN
    /\ kv' = [kv EXCEPT ![p] = a]
    /\ vk' = [vk EXCEPT ![a] = p]
    /\ Give(p, a) /\ UNCHANGED loose

\* wasmig_address_map_set_bidirect
SetBidirect(f, o, a) ==
    LET p == Pack(f, o) IN
    /\ kv' = [kv EXCEPT ![p] = a]
    /\ vk' = [Unlinked(p) EXCEPT ![a] = p]
    /\ Give(p, a) /\ UNCHANGED loose

\* set_bidirect throws when it inserts a new address into vk: the forward
\* entry is already written and the old address already unlinked.  (When the
\* insertion of a new key into kv throws, nothing has changed.)
SetBidirectThrows(f, o, a) ==
    LET p == Pack(f, o) IN
    /\ Unlinked(p)[a] = None
    /\ kv' = [kv EXCEPT ![p] = a]
    /\ vk' = Unlinked(p)
    /\ spoiled' = spoiled \cup {a} /\ UNCHANGED loose

\* wasmig_address_map_set_forward
SetForward(f, o, a) ==
    LET p == Pack(f, o) IN
    /\ kv' = [kv EXCEPT ![p] = a]
    /\ loose' = loose \cup {p}
    /\ Give(p, a)
    /\ UNCHANGED vk

\* Mutant: the function index is shifted too far.
SetBackwardShifted(f, o, a) ==
    LET p == f * Word * Word + o IN
    /\ vk' = [vk EXCEPT ![a] = p]
    /\ loose' = loose \cup {p}
    /\ Give(p, a)
    /\ UNCHANGED kv

\* wasmig_address_map_set_backward
SetBackward(f, o, a) ==
    LET p == Pack(f, o) IN
    /\ vk' = [vk EXCEPT ![a] = p]
    /\ loose' = loose \cup {p}
    /\ Give(p, a)
    /\ UNCHANGED kv

\* wasmig_address_map_remove
Remove(f, o) ==
    LET p == Pack(f, o) IN
    /\ kv[p] # None
    /\ vk' = Unlinked(p)
    /\ kv' = [kv EXCEPT ![p] = None]
    /\ UNCHANGED <<loose, spoiled>>

\* wasmig_address_map_destroy and a new wasmig_address_map_create
Recreate ==
    /\ kv' = [p \in Packed |-> None]
    /\ vk' = [a \in Address |-> None]
    /\ loose' = {} /\ spoiled' = {}

Next ==
    \/ \E f, o \in Index, a \in Address :
         \/ SetBidirect(f, o, a) \/ SetBidirectThrows(f, o, a)
         \/ SetForward(f, o, a) \/ SetBackward(f, o, a)
    \/ \E f, o \in Index : Remove(f, o)
    \/ Recreate

Spec == Init /\ [][Next]_vars

-----------------------------------------------------------------------------
(* Lookups *)

\* wasmig_address_map_get_key, _exist_key
GetKey(a) == Unpack(vk[a])
ExistKey(a) == vk[a] # None

\* wasmig_address_map_get_value, _exist_value
GetValue(f, o) == kv[Pack(f, o)]
ExistValue(f, o) == kv[Pack(f, o)] # None

-----------------------------------------------------------------------------
(* Properties *)

\* A key found for an address maps back to that address: a backward lookup
\* never returns a position that has moved on or was removed, whatever
\* addresses keys share and wherever an insertion throws; only a key that
\* was itself given to a one-way setter is excepted.
BackwardSound ==
    \A a \in Address : ExistKey(a) /\ vk[a] \notin loose =>
        GetValue(GetKey(a)[1], GetKey(a)[2]) = a

\* The address of a key leads back to the key, unless the key was given to
\* a one-way setter or its own address to two keys: what other keys and
\* addresses went through does not matter.
ForwardSound ==
    \A f, o \in Index :
        /\ ExistValue(f, o)
        /\ Pack(f, o) \notin loose /\ GetValue(f, o) \notin spoiled
        => /\ ExistKey(GetValue(f, o))
           /\ GetKey(GetValue(f, o)) = <<f, o>>

=============================================================================
