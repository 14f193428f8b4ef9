------------------------------ MODULE Metadata ------------------------------
(***************************************************************************)
(* What a runtime asks of the registries at a checkpoint: the pair of      *)
(* stacks at an offset of a function (wasmig_load_metadata_stacks of       *)
(* src/stack.cpp), and whether an address is forbidden                     *)
(* (wasmig_forbidden_list_contains of src/table_v3.cpp).  Both go through  *)
(* a pointer in a registry to an object that the compiler fills, destroys  *)
(* and creates again, maybe at the address of another one.                 *)
(***************************************************************************)
EXTENDS Registry

CONSTANTS Key, Pair,  \* offsets, and the pairs of stacks saved for them
          Addr        \* addresses that may be forbidden

ASSUME MetadataAssumption == "map" \notin Single

VARIABLES
    kind,     \* object -> "map", or the singleton that it can be saved as
    content,  \* object -> the entries of its container
    wrote     \* what the client knows it put into the object

contents     == <<kind, content, wrote>>
metadataVars == <<vars, contents>>

Entries == (Key \X Pair) \cup Addr

MetadataTypeOK ==
    /\ kind \in [Object -> {"map"} \cup Single]
    /\ content \in [Object -> SUBSET Entries]
    /\ wrote \in [Object -> SUBSET Entries]
    /\ \A o \in alive : content[o] \subseteq IF kind[o] = "map" THEN Key \X Pair ELSE Addr
    /\ \A o \in alive : kind[o] = "map" =>
          \A k \in Key : \A p, q \in Pair :
             {<<k, p>>, <<k, q>>} \subseteq content[o] => p = q

MetadataInit ==
    /\ Init
    /\ kind = [o \in Object |-> "map"]
    /\ content = [o \in Object |-> {}]
    /\ wrote = [o \in Object |-> {}]

\* wasmig_stack_state_map_create, wasmig_forbidden_list_create,
\* wasmig_address_map_create: a new container is empty.
Create(o) ==
    /\ CreateObject(o)
    /\ \E k \in {"map"} \cup Single : kind' = [kind EXCEPT ![o] = k]
    /\ content' = [content EXCEPT ![o] = {}]
    /\ UNCHANGED wrote

\* The memory keeps what it held.
Destroy(o) ==
    /\ DestroyObject(o)
    /\ wrote' = [wrote EXCEPT ![o] = {}]
    /\ UNCHANGED <<kind, content>>

Entry(k) == {k} \X Pair

\* A call on an object of the client's: the container after it, and what the
\* client takes from its result.
Change(o, container, known) ==
    /\ o \in alive
    /\ content' = [content EXCEPT ![o] = container]
    /\ wrote' = [wrote EXCEPT ![o] = known]
    /\ UNCHANGED <<vars, kind>>

\* Mutant: an entry that exists is kept, as emplace would.
SavePairKeeps(o, k, p) ==
    /\ kind[o] = "map"
    /\ Change(o, IF content[o] \cap Entry(k) = {} THEN content[o] \cup {<<k, p>>} ELSE content[o],
                 (wrote[o] \ Entry(k)) \cup {<<k, p>>})

\* Mutant: an entry that exists stays beside the new one.
SavePairTwice(o, k, p) ==
    /\ kind[o] = "map"
    /\ Change(o, content[o] \cup {<<k, p>>}, (wrote[o] \ Entry(k)) \cup {<<k, p>>})

\* wasmig_stack_state_save_pair that returns true; one that throws changes
\* nothing here.
SavePair(o, k, p) ==
    /\ kind[o] = "map"
    /\ Change(o, (content[o] \ Entry(k)) \cup {<<k, p>>}, (wrote[o] \ Entry(k)) \cup {<<k, p>>})

\* wasmig_stack_state_remove
RemovePair(o, k) ==
    /\ kind[o] = "map"
    /\ Change(o, content[o] \ Entry(k), wrote[o] \ Entry(k))

\* wasmig_forbidden_list_add that returns true, of a new address or an old one.
Forbid(o, a) ==
    /\ kind[o] = "forbiddenList"
    /\ Change(o, content[o] \cup {a}, wrote[o] \cup {a})

\* Mutant: the set is cleared, not one address erased.
AllowAll(o, a) ==
    /\ kind[o] = "forbiddenList"
    /\ Change(o, {}, wrote[o] \ {a})

\* wasmig_forbidden_list_remove
Allow(o, a) ==
    /\ kind[o] = "forbiddenList"
    /\ Change(o, content[o] \ {a}, wrote[o] \ {a})

MetadataNext ==
    \/ \E o \in Object :
         \/ Create(o) \/ Destroy(o)
         \/ kind[o] = "map" /\ (\E id \in Id : RegistrySave(id, o)) /\ UNCHANGED contents
         \/ kind[o] \in Single /\ SingletonSave(kind[o], o) /\ UNCHANGED contents
         \/ \E k \in Key : RemovePair(o, k) \/ \E p \in Pair : SavePair(o, k, p)
         \/ \E a \in Addr : Forbid(o, a) \/ Allow(o, a)
    \/ RegistryClear /\ UNCHANGED contents
    \/ \E s \in Single : SingletonClear(s) /\ UNCHANGED contents

MetadataSpec == MetadataInit /\ [][MetadataNext]_metadataVars

-----------------------------------------------------------------------------
\* wasmig_load_metadata_stacks: the pairs it may return, none if it returns
\* false.  The load of an unregistered function is NULL, which load_pair
\* refuses.
LoadMetadata(f, k) ==
    IF Load(f) = Null THEN {} ELSE {p \in Pair : <<k, p>> \in content[Load(f)]}

\* wasmig_forbidden_list_contains of the registered list; FALSE for NULL.
Contains(a) ==
    Load("forbiddenList") # Null /\ a \in content[Load("forbiddenList")]

\* For a careful client, a function and an offset lead to the pair that was
\* saved there last, in the map that is registered for the function: not to
\* that of another function, of a map that lived at the same address before,
\* or of one whose registration failed.
MetadataIsSaved ==
    \A f \in Id, k \in Key :
        LoadMetadata(f, k) =
            IF saved[f] = Nothing THEN {} ELSE {p \in Pair : <<k, p>> \in wrote[saved[f][1]]}

\* For a careful client, an address is forbidden exactly if the client put it
\* into the list that it registered last, and did not take it out again.
ForbiddenRespected ==
    "forbiddenList" \in Single =>
        \A a \in Addr :
            Contains(a) <=> /\ saved["forbiddenList"] # Nothing
                            /\ a \in wrote[saved["forbiddenList"][1]]

=============================================================================
