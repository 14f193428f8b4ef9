------------------------------ MODULE Registry ------------------------------
(***************************************************************************)
(* The process-wide registries of src/registry.cpp: a StackStateMap for    *)
(* each function id, one AddressMap and one CheckpointForbiddenList.  They *)
(* hold plain pointers: destroying an object does not tell them.  The      *)
(* StackStateMap destructor of src/stack.cpp does erase the map from a     *)
(* registry, but from a static map of its own that nothing ever fills.     *)
(***************************************************************************)
EXTENDS Integers

CONSTANTS
    Id,        \* ids of StackStateMaps (function indices)
    Single,    \* the singletons: the address map and the forbidden list
    Object,    \* addresses of created objects, reused after a destroy
    Null,
    MaxBirths, \* bound: objects created at one address
    Careful    \* TRUE if the client clears a registry before it destroys
               \*   an object it successfully registered there

ASSUME RegistryAssumption ==
    /\ Null \notin Object /\ Id \cap Single = {}
    /\ MaxBirths \in Nat /\ Careful \in BOOLEAN

VARIABLES
    alive,     \* objects that exist
    births,    \* object -> how many have been created at that address
    reg,       \* g_stack_state_map_registry and the two singletons
    own,       \* g_state_map_registry of stack.cpp, pairs <<id, object>>
    saved      \* what the client knows it registered: <<object, birth>>

vars == <<alive, births, reg, own, saved>>

Place == Id \cup Single
Nothing == <<Null, 0>>

TypeOK ==
    /\ alive \subseteq Object
    /\ births \in [Object -> 0..MaxBirths]
    /\ reg \in [Place -> Object \cup {Null}]
    /\ own \subseteq Id \X Object
    /\ saved \in [Place -> (Object \X (1..MaxBirths)) \cup {Nothing}]

Init ==
    /\ alive = {}
    /\ births = [o \in Object |-> 0]
    /\ reg = [p \in Place |-> Null]
    /\ own = {}
    /\ saved = [p \in Place |-> Nothing]

\* new: any address not in use
CreateObject(o) ==
    /\ o \notin alive /\ births[o] < MaxBirths
    /\ alive' = alive \cup {o}
    /\ births' = [births EXCEPT ![o] = @ + 1]
    /\ UNCHANGED <<reg, own, saved>>

\* wasmig_stack_state_map_destroy, wasmig_address_map_destroy and
\* wasmig_forbidden_list_destroy.
DestroyObject(o) ==
    /\ o \in alive
    /\ Careful => \A p \in Place : saved[p][1] # o
    /\ alive' = alive \ {o}
    /\ own' = {e \in own : e[2] # o}
    /\ UNCHANGED <<births, reg, saved>>

\* Mutant: the test for a NULL map is missing.
RegistrySaveUnchecked(id, o) ==
    /\ reg[id] = Null
    /\ reg' = [reg EXCEPT ![id] = o]
    /\ saved' = [saved EXCEPT ![id] = <<o, births[o]>>]
    /\ UNCHANGED <<alive, births, own>>

\* wasmig_stack_state_map_registry_save: emplace keeps an existing entry and
\* returns false, so the client knows that its map was not registered.
RegistrySave(id, o) ==
    /\ o \in alive
    /\ reg[id] = Null
    /\ reg' = [reg EXCEPT ![id] = o]
    /\ saved' = [saved EXCEPT ![id] = <<o, births[o]>>]
    /\ UNCHANGED <<alive, births, own>>

\* Mutant: clear forgets the object but keeps the pointer.
RegistryClearKeeps ==
    /\ saved' = [p \in Place |-> IF p \in Id THEN Nothing ELSE saved[p]]
    /\ UNCHANGED <<alive, births, reg, own>>

\* wasmig_stack_state_map_registry_clear
RegistryClear ==
    /\ reg' = [p \in Place |-> IF p \in Id THEN Null ELSE reg[p]]
    /\ saved' = [p \in Place |-> IF p \in Id THEN Nothing ELSE saved[p]]
    /\ UNCHANGED <<alive, births, own>>

\* wasmig_address_map_save, wasmig_forbidden_list_save: the last one wins.
SingletonSave(s, o) ==
    /\ o \in alive
    /\ reg' = [reg EXCEPT ![s] = o]
    /\ saved' = [saved EXCEPT ![s] = <<o, births[o]>>]
    /\ UNCHANGED <<alive, births, own>>

\* wasmig_address_map_clear, wasmig_forbidden_list_clear
SingletonClear(s) ==
    /\ reg' = [reg EXCEPT ![s] = Null]
    /\ saved' = [saved EXCEPT ![s] = Nothing]
    /\ UNCHANGED <<alive, births, own>>

Next ==
    \/ \E o \in Object :
         \/ CreateObject(o) \/ DestroyObject(o)
         \/ \E id \in Id : RegistrySave(id, o)
         \/ \E s \in Single : SingletonSave(s, o)
    \/ RegistryClear
    \/ \E s \in Single : SingletonClear(s)

Spec == Init /\ [][Next]_vars

-----------------------------------------------------------------------------
(* ..._load and ..._exists; wasmig_load_metadata_stacks dereferences the   *)
(* result of the first.                                                    *)
Load(p) == reg[p]
Exists(p) == reg[p] # Null

\* For a careful client a load returns the very object that it saved, alive,
\* and not another one created later at the same address; and nothing when
\* it saved nothing.
LoadIsSaved ==
    \A p \in Place :
        IF Exists(p) THEN Load(p) \in alive /\ saved[p] = <<Load(p), births[Load(p)]>>
                     ELSE saved[p] = Nothing

\* tests/test_stack_registry.cpp: "Destroy the map; it should unregister
\* itself".  No id is bound to a destroyed map.
Unregistered == \A id \in Id : Exists(id) => Load(id) \in alive

=============================================================================
