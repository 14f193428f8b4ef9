---------------------------- MODULE RegistryProofs ----------------------------
(***************************************************************************)
(* Proofs about Registry and Metadata.  The types hold for every client;   *)
(* what a load returns needs a careful one.  Metadata is a registry with   *)
(* contents, so what is proved of Registry holds; and what a load finds in *)
(* the object is what the client put there.                                *)
(***************************************************************************)
EXTENDS Metadata, TLAPS

-----------------------------------------------------------------------------
(* Registry *)

\* An object that exists was created.
Born == \A o \in alive : births[o] > 0

\* Every step keeps the types.
LEMMA TypeStep == TypeOK /\ Born /\ [Next]_vars => TypeOK' /\ Born'
<1> SUFFICES ASSUME TypeOK, Born, [Next]_vars PROVE TypeOK' /\ Born'
  OBVIOUS
<1> USE RegistryAssumption DEF TypeOK, Born, Place, Nothing
<1>1. ASSUME NEW o \in Object, CreateObject(o) PROVE TypeOK' /\ Born'
  BY <1>1 DEF CreateObject
<1>2. ASSUME NEW o \in Object, DestroyObject(o) PROVE TypeOK' /\ Born'
  BY <1>2 DEF DestroyObject
<1>3. ASSUME NEW o \in Object, NEW id \in Id, RegistrySave(id, o) PROVE TypeOK' /\ Born'
  <2>1. births[o] \in 1..MaxBirths
    BY <1>3 DEF RegistrySave
  <2> QED BY <1>3, <2>1 DEF RegistrySave
<1>4. ASSUME NEW o \in Object, NEW s \in Single, SingletonSave(s, o) PROVE TypeOK' /\ Born'
  <2>1. births[o] \in 1..MaxBirths
    BY <1>4 DEF SingletonSave
  <2> QED BY <1>4, <2>1 DEF SingletonSave
<1>5. CASE RegistryClear
  BY <1>5 DEF RegistryClear
<1>6. ASSUME NEW s \in Single, SingletonClear(s) PROVE TypeOK' /\ Born'
  BY <1>6 DEF SingletonClear
<1>7. CASE UNCHANGED vars
  BY <1>7 DEF vars
<1> QED BY <1>1, <1>2, <1>3, <1>4, <1>5, <1>6, <1>7 DEF Next

\* Type correctness of the registries.
THEOREM TypeCorrect == Spec => []TypeOK
<1>1. Init => TypeOK /\ Born
  BY RegistryAssumption DEF Init, TypeOK, Born, Place, Nothing
<1> QED BY <1>1, TypeStep, PTL DEF Spec

-----------------------------------------------------------------------------
\* No step binds a place to anything but what the client registered there:
\* an address is reused only after its object was destroyed, and a careful
\* client has cleared the place before that.
LEMMA LoadStep ==
    ASSUME Careful, TypeOK, LoadIsSaved, [Next]_vars
    PROVE  LoadIsSaved'
<1> USE RegistryAssumption DEF TypeOK, LoadIsSaved, Load, Exists, Place, Nothing
<1>1. ASSUME NEW o \in Object, CreateObject(o) PROVE LoadIsSaved'
  <2>1. \A p \in Place : reg[p] # o
    BY <1>1 DEF CreateObject
  <2> QED BY <1>1, <2>1 DEF CreateObject
<1>2. ASSUME NEW o \in Object, DestroyObject(o) PROVE LoadIsSaved'
  <2>1. \A p \in Place : reg[p] # o
    BY <1>2 DEF DestroyObject
  <2> QED BY <1>2, <2>1 DEF DestroyObject
<1>3. ASSUME NEW o \in Object, NEW id \in Id, RegistrySave(id, o) PROVE LoadIsSaved'
  BY <1>3 DEF RegistrySave
<1>4. ASSUME NEW o \in Object, NEW s \in Single, SingletonSave(s, o) PROVE LoadIsSaved'
  BY <1>4 DEF SingletonSave
<1>5. CASE RegistryClear
  BY <1>5 DEF RegistryClear
<1>6. ASSUME NEW s \in Single, SingletonClear(s) PROVE LoadIsSaved'
  BY <1>6 DEF SingletonClear
<1>7. CASE UNCHANGED vars
  BY <1>7 DEF vars
<1> QED BY <1>1, <1>2, <1>3, <1>4, <1>5, <1>6, <1>7 DEF Next

\* For a careful client a load never returns a destroyed object, nor one
\* created later at the same address, nor nothing after a save.
THEOREM LoadsAreSaved == ASSUME Careful PROVE Spec => []LoadIsSaved
<1>1. Init => TypeOK /\ Born /\ LoadIsSaved
  BY RegistryAssumption DEF Init, TypeOK, Born, LoadIsSaved, Load, Exists, Place, Nothing
<1>2. TypeOK /\ Born /\ LoadIsSaved /\ [Next]_vars => TypeOK' /\ Born' /\ LoadIsSaved'
  BY TypeStep, LoadStep
<1> QED BY <1>1, <1>2, PTL DEF Spec

-----------------------------------------------------------------------------
(* Metadata *)

\* A step of Metadata is one of Registry, or does not concern it.
LEMMA RegistryStep == [MetadataNext]_metadataVars => [Next]_vars
<1> SUFFICES ASSUME [MetadataNext]_metadataVars PROVE [Next]_vars
  OBVIOUS
<1>1. ASSUME NEW o \in Object, Create(o) PROVE Next
  BY <1>1 DEF Create, Next
<1>2. ASSUME NEW o \in Object, Destroy(o) PROVE Next
  BY <1>2 DEF Destroy, Next
<1>3. ASSUME NEW o \in Object, NEW id \in Id, RegistrySave(id, o) PROVE Next
  BY <1>3 DEF Next
<1>4. ASSUME NEW o \in Object, kind[o] \in Single, SingletonSave(kind[o], o) PROVE Next
  BY <1>4 DEF Next
<1>5. ASSUME NEW o \in Object, NEW k \in Key, RemovePair(o, k) PROVE UNCHANGED vars
  BY <1>5 DEF RemovePair, Change
<1>6. ASSUME NEW o \in Object, NEW k \in Key, NEW p \in Pair, SavePair(o, k, p)
      PROVE  UNCHANGED vars
  BY <1>6 DEF SavePair, Change
<1>7. ASSUME NEW o \in Object, NEW a \in Addr, Forbid(o, a) \/ Allow(o, a) PROVE UNCHANGED vars
  BY <1>7 DEF Forbid, Allow, Change
<1>8. ASSUME RegistryClear \/ \E s \in Single : SingletonClear(s) PROVE Next
  BY <1>8 DEF Next
<1>9. CASE UNCHANGED metadataVars
  BY <1>9 DEF metadataVars
<1> QED BY <1>1, <1>2, <1>3, <1>4, <1>5, <1>6, <1>7, <1>8, <1>9 DEF MetadataNext

\* Metadata implements Registry: filling, changing and destroying containers
\* does nothing to the registries that Registry does not allow.
THEOREM ImplementsRegistry == MetadataSpec => Spec
<1>1. MetadataInit => Init
  BY DEF MetadataInit
<1> QED BY <1>1, RegistryStep, PTL DEF MetadataSpec, Spec

-----------------------------------------------------------------------------
\* An object that exists holds what the client put into it; nobody relies on
\* what is left of another one.
ContentKnown ==
    /\ content \in [Object -> SUBSET Entries] /\ wrote \in [Object -> SUBSET Entries]
    /\ \A o \in Object : wrote[o] = IF o \in alive THEN content[o] ELSE {}

\* Every operation changes container and knowledge alike; a new object at an
\* old address starts empty, whatever the memory held.
LEMMA ContentStep == ContentKnown /\ [MetadataNext]_metadataVars => ContentKnown'
<1> SUFFICES ASSUME ContentKnown, [MetadataNext]_metadataVars PROVE ContentKnown'
  OBVIOUS
<1> USE DEF ContentKnown
<1>1. ASSUME NEW o \in Object, Create(o) PROVE ContentKnown'
  BY <1>1 DEF Create, CreateObject
<1>2. ASSUME NEW o \in Object, Destroy(o) PROVE ContentKnown'
  BY <1>2 DEF Destroy, DestroyObject
<1>3. ASSUME NEW o \in Object, NEW c \in SUBSET Entries, Change(o, c, c) PROVE ContentKnown'
  BY <1>3 DEF Change, vars
<1>4. ASSUME NEW o \in Object, NEW k \in Key, RemovePair(o, k) PROVE ContentKnown'
  <2>1. wrote[o] = content[o] /\ content[o] \ Entry(k) \in SUBSET Entries
    BY <1>4 DEF RemovePair, Change
  <2> QED BY <1>3, <1>4, <2>1 DEF RemovePair
<1>5. ASSUME NEW o \in Object, NEW k \in Key, NEW p \in Pair, SavePair(o, k, p)
      PROVE  ContentKnown'
  <2>1. wrote[o] = content[o]
    BY <1>5 DEF SavePair, Change
  <2>2. (content[o] \ Entry(k)) \cup {<<k, p>>} \in SUBSET Entries
    BY DEF Entries
  <2> QED BY <1>3, <1>5, <2>1, <2>2 DEF SavePair
<1>6. ASSUME NEW o \in Object, NEW a \in Addr, Forbid(o, a) \/ Allow(o, a)
      PROVE  ContentKnown'
  <2>1. wrote[o] = content[o]
    BY <1>6 DEF Forbid, Allow, Change
  <2>2. content[o] \cup {a} \in SUBSET Entries /\ content[o] \ {a} \in SUBSET Entries
    BY DEF Entries
  <2> QED BY <1>3, <1>6, <2>1, <2>2 DEF Forbid, Allow
<1>7. ASSUME UNCHANGED <<contents, alive>> PROVE ContentKnown'
  BY <1>7 DEF contents
<1>8. ASSUME NEW o \in Object, NEW id \in Id, RegistrySave(id, o), UNCHANGED contents
      PROVE  ContentKnown'
  BY <1>7, <1>8 DEF RegistrySave
<1>9. ASSUME NEW o \in Object, SingletonSave(kind[o], o), UNCHANGED contents
      PROVE  ContentKnown'
  BY <1>7, <1>9 DEF SingletonSave
<1>10. ASSUME RegistryClear \/ \E s \in Single : SingletonClear(s), UNCHANGED contents
       PROVE  ContentKnown'
  BY <1>7, <1>10 DEF RegistryClear, SingletonClear
<1>11. CASE UNCHANGED metadataVars
  BY <1>7, <1>11 DEF metadataVars, vars
<1> QED BY <1>1, <1>2, <1>4, <1>5, <1>6, <1>8, <1>9, <1>10, <1>11 DEF MetadataNext

\* What is in an object: a map holds one pair per offset, a list addresses.
Filled(o) ==
    /\ kind[o] = "map" => content[o] \subseteq Key \X Pair
    /\ kind[o] # "map" => content[o] \subseteq Addr
    /\ kind[o] = "map" => \A k \in Key : \A p, q \in Pair :
                            {<<k, p>>, <<k, q>>} \subseteq content[o] => p = q

ObjectsFilled ==
    /\ alive \subseteq Object
    /\ kind \in [Object -> {"map"} \cup Single]
    /\ content \in [Object -> SUBSET Entries]
    /\ \A o \in alive : Filled(o)

\* One container changes: the others stay as they were.
LEMMA ChangeFilled ==
    ASSUME ObjectsFilled, NEW o \in Object, NEW c \in SUBSET Entries, NEW w, Change(o, c, w),
           kind[o] = "map" => c \subseteq Key \X Pair,
           kind[o] # "map" => c \subseteq Addr,
           kind[o] = "map" => \A k \in Key : \A p, q \in Pair :
                                {<<k, p>>, <<k, q>>} \subseteq c => p = q
    PROVE  ObjectsFilled'
<1>1. content' = [content EXCEPT ![o] = c] /\ UNCHANGED <<kind, alive>>
  BY DEF Change, vars
<1>2. content' \in [Object -> SUBSET Entries] /\ content'[o] = c
      /\ \A x \in Object \ {o} : content'[x] = content[x]
  BY <1>1 DEF ObjectsFilled
<1>3. ASSUME NEW x \in alive' PROVE Filled(x)'
  <2>1. CASE x = o
    BY <1>1, <1>2, <2>1 DEF Filled
  <2>2. CASE x # o
    BY <1>1, <1>2, <2>2 DEF Filled, ObjectsFilled
  <2> QED BY <2>1, <2>2
<1> QED BY <1>1, <1>2, <1>3 DEF ObjectsFilled

\* Steps that leave the containers of the objects alone.
LEMMA SameFilled ==
    ASSUME ObjectsFilled, UNCHANGED <<kind, content>>, alive' \subseteq alive
    PROVE  ObjectsFilled'
BY DEF ObjectsFilled, Filled

LEMMA FilledStep == ObjectsFilled /\ [MetadataNext]_metadataVars => ObjectsFilled'
<1> SUFFICES ASSUME ObjectsFilled, [MetadataNext]_metadataVars PROVE ObjectsFilled'
  OBVIOUS
<1>1. ASSUME NEW o \in Object, Create(o) PROVE ObjectsFilled'
  <2>1. o \notin alive /\ alive' = alive \cup {o} /\ content' = [content EXCEPT ![o] = {}]
    BY <1>1 DEF Create, CreateObject
  <2>2. PICK k \in {"map"} \cup Single : kind' = [kind EXCEPT ![o] = k]
    BY <1>1 DEF Create
  <2>3. /\ content' \in [Object -> SUBSET Entries] /\ content'[o] = {}
        /\ kind' \in [Object -> {"map"} \cup Single]
        /\ \A x \in Object \ {o} : content'[x] = content[x] /\ kind'[x] = kind[x]
    BY <2>1, <2>2 DEF ObjectsFilled
  <2>4. ASSUME NEW x \in alive' PROVE Filled(x)'
    <3>1. CASE x = o
      BY <2>3, <3>1 DEF Filled
    <3>2. CASE x # o
      BY <2>1, <2>3, <3>2 DEF Filled, ObjectsFilled
    <3> QED BY <3>1, <3>2
  <2> QED BY <2>1, <2>3, <2>4 DEF ObjectsFilled
<1>2. ASSUME NEW o \in Object, Destroy(o) PROVE ObjectsFilled'
  <2>1. alive' \subseteq alive /\ UNCHANGED <<kind, content>>
    BY <1>2 DEF Destroy, DestroyObject
  <2> QED BY <2>1, SameFilled
<1>3. ASSUME NEW o \in Object, NEW k \in Key, RemovePair(o, k) PROVE ObjectsFilled'
  <2>1. o \in alive /\ kind[o] = "map" /\ content[o] \in SUBSET Entries /\ Filled(o)
    BY <1>3 DEF RemovePair, Change, ObjectsFilled
  <2> DEFINE c == content[o] \ Entry(k)
  <2>2. c \in SUBSET Entries /\ c \subseteq content[o]
    BY <2>1
  <2>3. Change(o, c, wrote[o] \ Entry(k))
    BY <1>3 DEF RemovePair
  <2> HIDE DEF c
  <2> QED BY <2>1, <2>2, <2>3, ChangeFilled DEF Filled
<1>4. ASSUME NEW o \in Object, NEW k \in Key, NEW p \in Pair, SavePair(o, k, p)
      PROVE  ObjectsFilled'
  <2>1. o \in alive /\ kind[o] = "map" /\ content[o] \in SUBSET Entries /\ Filled(o)
    BY <1>4 DEF SavePair, Change, ObjectsFilled
  <2> DEFINE c == (content[o] \ Entry(k)) \cup {<<k, p>>}
  <2>2. c \in SUBSET Entries /\ c \subseteq Key \X Pair
    BY <2>1 DEF Filled, Entries
  <2>3. ASSUME NEW j \in Key, NEW q \in Pair, NEW r \in Pair, {<<j, q>>, <<j, r>>} \subseteq c
        PROVE  q = r
    <3>1. CASE j = k
      <4>1. \A x \in Pair : <<k, x>> \in c => x = p
        BY DEF Entry
      <4> QED BY <2>3, <3>1, <4>1
    <3>2. CASE j # k
      <4>1. {<<j, q>>, <<j, r>>} \subseteq content[o]
        BY <2>3, <3>2
      <4> QED BY <2>1, <4>1 DEF Filled
    <3> QED BY <3>1, <3>2
  <2>4. Change(o, c, (wrote[o] \ Entry(k)) \cup {<<k, p>>})
    BY <1>4 DEF SavePair
  <2> HIDE DEF c
  <2> QED BY <2>1, <2>2, <2>3, <2>4, ChangeFilled
<1>5. ASSUME NEW o \in Object, NEW a \in Addr, Forbid(o, a) PROVE ObjectsFilled'
  <2>1. o \in alive /\ kind[o] # "map" /\ content[o] \in SUBSET Entries /\ Filled(o)
    BY <1>5 DEF Forbid, Change, ObjectsFilled
  <2>2. content[o] \cup {a} \in SUBSET Entries /\ content[o] \cup {a} \subseteq Addr
    BY <2>1 DEF Filled, Entries
  <2> QED BY <1>5, <2>1, <2>2, ChangeFilled DEF Forbid
<1>6. ASSUME NEW o \in Object, NEW a \in Addr, Allow(o, a) PROVE ObjectsFilled'
  <2>1. o \in alive /\ kind[o] # "map" /\ content[o] \in SUBSET Entries /\ Filled(o)
    BY <1>6 DEF Allow, Change, ObjectsFilled
  <2>2. content[o] \ {a} \in SUBSET Entries /\ content[o] \ {a} \subseteq Addr
    BY <2>1 DEF Filled, Entries
  <2> QED BY <1>6, <2>1, <2>2, ChangeFilled DEF Allow
<1>7. ASSUME UNCHANGED <<contents, alive>> PROVE ObjectsFilled'
  BY <1>7, SameFilled DEF contents
<1>8. ASSUME NEW o \in Object, NEW id \in Id, RegistrySave(id, o), UNCHANGED contents
      PROVE  ObjectsFilled'
  BY <1>7, <1>8 DEF RegistrySave
<1>9. ASSUME NEW o \in Object, SingletonSave(kind[o], o), UNCHANGED contents
      PROVE  ObjectsFilled'
  BY <1>7, <1>9 DEF SingletonSave
<1>10. ASSUME RegistryClear \/ \E s \in Single : SingletonClear(s), UNCHANGED contents
       PROVE  ObjectsFilled'
  BY <1>7, <1>10 DEF RegistryClear, SingletonClear
<1>11. CASE UNCHANGED metadataVars
  BY <1>7, <1>11 DEF metadataVars, vars
<1> QED BY <1>1, <1>2, <1>3, <1>4, <1>5, <1>6, <1>8, <1>9, <1>10, <1>11 DEF MetadataNext

\* For every set of objects, offsets and addresses, and for every client,
\* careful or not: a map that exists never holds two pairs for one offset, and
\* a list that exists holds addresses only.
THEOREM ContainersTyped == MetadataSpec => []MetadataTypeOK
<1>1. MetadataInit => ContentKnown /\ ObjectsFilled
  BY RegistryAssumption DEF MetadataInit, Init, ContentKnown, ObjectsFilled
<1>2. ContentKnown /\ ObjectsFilled => MetadataTypeOK
  BY DEF ContentKnown, ObjectsFilled, Filled, MetadataTypeOK
<1> QED BY <1>1, <1>2, ContentStep, FilledStep, PTL DEF MetadataSpec

\* What a registry leads to is what the client knows.
LEMMA KnownIsFound ==
    ASSUME TypeOK, LoadIsSaved, ContentKnown
    PROVE  MetadataIsSaved /\ ForbiddenRespected
<1> USE RegistryAssumption DEF TypeOK, LoadIsSaved, Load, Exists, Place, Nothing
<1>1. ASSUME NEW p \in Place, reg[p] # Null
      PROVE  /\ saved[p] # Nothing /\ saved[p][1] = reg[p]
             /\ wrote[saved[p][1]] = content[reg[p]]
  BY <1>1 DEF ContentKnown
<1>2. ASSUME NEW p \in Place, reg[p] = Null PROVE saved[p] = Nothing
  BY <1>2
<1>3. MetadataIsSaved
  <2> SUFFICES ASSUME NEW f \in Id, NEW k \in Key
               PROVE  LoadMetadata(f, k) = IF saved[f] = Nothing THEN {}
                          ELSE {p \in Pair : <<k, p>> \in wrote[saved[f][1]]}
    BY DEF MetadataIsSaved
  <2>1. CASE reg[f] = Null
    BY <1>2, <2>1 DEF LoadMetadata
  <2>2. CASE reg[f] # Null
    BY <1>1, <2>2 DEF LoadMetadata
  <2> QED BY <2>1, <2>2
<1>4. ForbiddenRespected
  <2> SUFFICES ASSUME "forbiddenList" \in Single, NEW a \in Addr
               PROVE  Contains(a) <=> /\ saved["forbiddenList"] # Nothing
                                      /\ a \in wrote[saved["forbiddenList"][1]]
    BY DEF ForbiddenRespected
  <2>1. CASE reg["forbiddenList"] = Null
    BY <1>2, <2>1 DEF Contains
  <2>2. CASE reg["forbiddenList"] # Null
    BY <1>1, <2>2 DEF Contains
  <2> QED BY <2>1, <2>2
<1> QED BY <1>3, <1>4

\* For a careful client, whatever it creates, fills, registers and destroys:
\* a function and an offset lead to the pair that was saved there last.
THEOREM MetadataFound == ASSUME Careful PROVE MetadataSpec => []MetadataIsSaved
<1>1. MetadataInit => ContentKnown
  BY RegistryAssumption DEF MetadataInit, Init, ContentKnown
<1>2. Spec => []LoadIsSaved
  BY LoadsAreSaved
<1> QED BY <1>1, <1>2, TypeCorrect, ImplementsRegistry, ContentStep, KnownIsFound, PTL
        DEF MetadataSpec

\* For a careful client an address is forbidden exactly if it was put into the
\* list that is registered.
THEOREM ForbiddenFound == ASSUME Careful PROVE MetadataSpec => []ForbiddenRespected
<1>1. MetadataInit => ContentKnown
  BY RegistryAssumption DEF MetadataInit, Init, ContentKnown
<1>2. Spec => []LoadIsSaved
  BY LoadsAreSaved
<1> QED BY <1>1, <1>2, TypeCorrect, ImplementsRegistry, ContentStep, KnownIsFound, PTL
        DEF MetadataSpec

=============================================================================
