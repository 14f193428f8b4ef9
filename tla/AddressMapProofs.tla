-------------------------- MODULE AddressMapProofs --------------------------
(***************************************************************************)
(* Theorems about AddressMap for every word size and every set of          *)
(* addresses.                                                              *)
(***************************************************************************)
EXTENDS AddressMap, TLAPS

\* Packing loses nothing: unpack_fidx_offset undoes pack_fidx_offset.
THEOREM PackingExact == \A f, o \in Index : Unpack(Pack(f, o)) = <<f, o>>
<1> SUFFICES ASSUME NEW f \in Index, NEW o \in Index
             PROVE  Unpack(Pack(f, o)) = <<f, o>>
  OBVIOUS
<1>1. (f * Word + o) \div Word = f /\ (f * Word + o) % Word = o
  BY WordAssumption, Z3 DEF Index
<1> QED BY <1>1 DEF Pack, Unpack

\* So every packed key is the packing of what it unpacks to.
LEMMA UnpackPacked ==
    \A p \in Packed : /\ Unpack(p)[1] \in Index /\ Unpack(p)[2] \in Index
                      /\ Pack(Unpack(p)[1], Unpack(p)[2]) = p
<1> SUFFICES ASSUME NEW p \in Packed
             PROVE  /\ Unpack(p)[1] \in Index /\ Unpack(p)[2] \in Index
                    /\ Pack(Unpack(p)[1], Unpack(p)[2]) = p
  OBVIOUS
<1>1. PICK f \in Index, o \in Index : p = Pack(f, o)
  BY DEF Packed
<1>2. Unpack(p) = <<f, o>>
  BY <1>1, PackingExact
<1> QED BY <1>1, <1>2

\* The setters write packed keys.
LEMMA PackPacked == \A f, o \in Index : Pack(f, o) \in Packed
<1> SUFFICES ASSUME NEW f \in Index, NEW o \in Index PROVE Pack(f, o) \in Packed
  OBVIOUS
<1> DEFINE i == <<f, o>>
<1>1. i \in Index \X Index /\ Pack(i[1], i[2]) = Pack(f, o)
  OBVIOUS
<1> QED BY <1>1 DEF Packed

-----------------------------------------------------------------------------
(* The properties over packed keys *)

Backward == \A a \in Address : vk[a] # None /\ vk[a] \notin loose => kv[vk[a]] = a

Distinct ==
    \A p, q \in Packed : kv[p] # None /\ kv[p] \notin spoiled /\ kv[p] = kv[q] => p = q

Forward ==
    \A p \in Packed : kv[p] # None /\ kv[p] \notin spoiled /\ p \notin loose =>
        vk[kv[p]] = p

\* The packed form of BackwardSound says the same.
LEMMA BackwardForm == TypeOK => (Backward => BackwardSound)
<1> SUFFICES ASSUME TypeOK, Backward, NEW a \in Address, vk[a] # None, vk[a] \notin loose
             PROVE  GetValue(GetKey(a)[1], GetKey(a)[2]) = a
  BY DEF BackwardSound, ExistKey
<1>1. vk[a] \in Packed
  BY DEF TypeOK
<1>2. Pack(GetKey(a)[1], GetKey(a)[2]) = vk[a]
  BY <1>1, UnpackPacked DEF GetKey
<1> QED BY <1>2 DEF Backward, GetValue

\* The packed form of ForwardSound implies it.
LEMMA ForwardForm == TypeOK => (Forward => ForwardSound)
<1> SUFFICES ASSUME TypeOK, Forward, NEW f \in Index, NEW o \in Index,
                    kv[Pack(f, o)] # None, Pack(f, o) \notin loose,
                    kv[Pack(f, o)] \notin spoiled
             PROVE  /\ vk[kv[Pack(f, o)]] # None
                    /\ Unpack(vk[kv[Pack(f, o)]]) = <<f, o>>
  BY DEF ForwardSound, ExistValue, ExistKey, GetValue, GetKey
<1>1. vk[kv[Pack(f, o)]] = Pack(f, o)
  BY PackPacked DEF Forward
<1> QED BY <1>1, PackPacked, PackingExact, NoneAssumption

-----------------------------------------------------------------------------
(* Types *)

\* Every step keeps both maps in their types.
LEMMA TypeStep == TypeOK /\ [Next]_vars => TypeOK'
<1> SUFFICES ASSUME TypeOK, [Next]_vars PROVE TypeOK'
  OBVIOUS
<1> USE PackPacked DEF TypeOK, Unlinked, Give
<1>1. ASSUME NEW f \in Index, NEW o \in Index, NEW a \in Address, SetBidirect(f, o, a)
      PROVE  TypeOK'
  BY <1>1 DEF SetBidirect
<1>2. ASSUME NEW f \in Index, NEW o \in Index, NEW a \in Address, SetBidirectThrows(f, o, a)
      PROVE  TypeOK'
  BY <1>2 DEF SetBidirectThrows
<1>3. ASSUME NEW f \in Index, NEW o \in Index, NEW a \in Address, SetForward(f, o, a)
      PROVE  TypeOK'
  BY <1>3 DEF SetForward
<1>4. ASSUME NEW f \in Index, NEW o \in Index, NEW a \in Address, SetBackward(f, o, a)
      PROVE  TypeOK'
  BY <1>4 DEF SetBackward
<1>5. ASSUME NEW f \in Index, NEW o \in Index, Remove(f, o) PROVE TypeOK'
  BY <1>5 DEF Remove
<1>6. CASE Recreate
  BY <1>6 DEF Recreate
<1>7. CASE UNCHANGED vars
  BY <1>7 DEF vars
<1> QED BY <1>1, <1>2, <1>3, <1>4, <1>5, <1>6, <1>7 DEF Next

\* Type correctness of the address map.
THEOREM TypeCorrect == Spec => []TypeOK
<1>1. Init => TypeOK
  BY DEF Init, TypeOK
<1> QED BY <1>1, TypeStep, PTL DEF Spec

-----------------------------------------------------------------------------
(* Backward lookups *)

\* No step breaks a backward entry without removing it.
LEMMA BackwardStep == TypeOK /\ Backward /\ [Next]_vars => Backward'
<1> SUFFICES ASSUME TypeOK, Backward, [Next]_vars PROVE Backward'
  OBVIOUS
<1> USE PackPacked, NoneAssumption DEF TypeOK, Backward, Unlinked
<1>1. ASSUME NEW f \in Index, NEW o \in Index, NEW a \in Address, SetBidirect(f, o, a)
      PROVE  Backward'
  BY <1>1 DEF SetBidirect
<1>2. ASSUME NEW f \in Index, NEW o \in Index, NEW a \in Address, SetBidirectThrows(f, o, a)
      PROVE  Backward'
  BY <1>2 DEF SetBidirectThrows
<1>3. ASSUME NEW f \in Index, NEW o \in Index, NEW a \in Address, SetForward(f, o, a)
      PROVE  Backward'
  BY <1>3 DEF SetForward
<1>4. ASSUME NEW f \in Index, NEW o \in Index, NEW a \in Address, SetBackward(f, o, a)
      PROVE  Backward'
  BY <1>4 DEF SetBackward
<1>5. ASSUME NEW f \in Index, NEW o \in Index, Remove(f, o) PROVE Backward'
  BY <1>5 DEF Remove
<1>6. CASE Recreate
  BY <1>6 DEF Recreate
<1>7. CASE UNCHANGED vars
  BY <1>7 DEF vars
<1> QED BY <1>1, <1>2, <1>3, <1>4, <1>5, <1>6, <1>7 DEF Next

\* A backward lookup of a two-way key is never stale, even when keys share
\* addresses and insertions throw half way.
THEOREM BackwardNeverStale == Spec => []BackwardSound
<1>1. Init => TypeOK /\ Backward
  BY DEF Init, TypeOK, Backward
<1>2. TypeOK /\ Backward /\ [Next]_vars => TypeOK' /\ Backward'
  BY TypeStep, BackwardStep
<1>3. TypeOK /\ Backward => BackwardSound
  BY BackwardForm
<1> QED BY <1>1, <1>2, <1>3, PTL DEF Spec

-----------------------------------------------------------------------------
(* Forward lookups *)

\* Only one key has an address that is not spoiled, so unlinking the old
\* address of a key takes the entry of no other key.
LEMMA ForwardStep == TypeOK /\ Distinct /\ Forward /\ [Next]_vars => Distinct' /\ Forward'
<1> SUFFICES ASSUME TypeOK, Distinct, Forward, [Next]_vars PROVE Distinct' /\ Forward'
  OBVIOUS
<1> USE PackPacked, NoneAssumption DEF TypeOK, Distinct, Forward, Unlinked, Give
<1>1. ASSUME NEW f \in Index, NEW o \in Index, NEW a \in Address, SetBidirect(f, o, a)
      PROVE  Distinct' /\ Forward'
  BY <1>1 DEF SetBidirect
<1>2. ASSUME NEW f \in Index, NEW o \in Index, NEW a \in Address, SetBidirectThrows(f, o, a)
      PROVE  Distinct' /\ Forward'
  BY <1>2 DEF SetBidirectThrows
<1>3. ASSUME NEW f \in Index, NEW o \in Index, NEW a \in Address, SetForward(f, o, a)
      PROVE  Distinct' /\ Forward'
  BY <1>3 DEF SetForward
<1>4. ASSUME NEW f \in Index, NEW o \in Index, NEW a \in Address, SetBackward(f, o, a)
      PROVE  Distinct' /\ Forward'
  BY <1>4 DEF SetBackward
<1>5. ASSUME NEW f \in Index, NEW o \in Index, Remove(f, o) PROVE Distinct' /\ Forward'
  BY <1>5 DEF Remove
<1>6. CASE Recreate
  BY <1>6 DEF Recreate
<1>7. CASE UNCHANGED vars
  BY <1>7 DEF vars
<1> QED BY <1>1, <1>2, <1>3, <1>4, <1>5, <1>6, <1>7 DEF Next

\* Where addresses are not shared the map is the bijection its name promises.
THEOREM ForwardNeverLost == Spec => []ForwardSound
<1>1. Init => TypeOK /\ Distinct /\ Forward
  BY DEF Init, TypeOK, Distinct, Forward
<1>2. TypeOK /\ Distinct /\ Forward /\ [Next]_vars => TypeOK' /\ Distinct' /\ Forward'
  BY TypeStep, ForwardStep
<1>3. TypeOK /\ Forward => ForwardSound
  BY ForwardForm
<1> QED BY <1>1, <1>2, <1>3, PTL DEF Spec

=============================================================================
