--------------------------- MODULE StateQueueProofs ---------------------------
(***************************************************************************)
(* Proofs about StateQueue, for every set of positions and every bound:    *)
(* its types, the result of a confirmation, and that the queue that is     *)
(* rotated through a second one implements Fifo.                           *)
(***************************************************************************)
EXTENDS StateQueue, SequenceTheorems, TLAPS

\* temp_queue is empty between calls.
QInv == TypeOK /\ (pending = None => temp = <<>>)

LEMMA QInit == Init => QInv
<1>1. <<>> \in Seq(Entries) /\ Len(<<>>) = 0
  BY EmptySeq
<1>2. ASSUME Init PROVE Len(impl) + Len(temp) <= MaxLength
  BY <1>1, <1>2, QueueAssumption DEF Init
<1>3. ASSUME Init PROVE result \in Position \cup BOOLEAN \cup {None}
  BY <1>3 DEF Init
<1>4. ASSUME Init
      PROVE  call \in [op: {"none", "enqueue", "dequeue", "confirm"},
                       pos: Position \cup {None}, threw: BOOLEAN]
  BY <1>4 DEF Init, Call
<1> QED BY <1>1, <1>2, <1>3, <1>4 DEF Init, QInv, TypeOK

\* The head of the queue with its mark is an entry, in a queue of its own.
LEMMA MarkedHeadType ==
    ASSUME QInv, impl # <<>>
    PROVE  /\ MarkedHead \in Entries /\ MarkedHead.pos = Head(impl).pos
           /\ MarkedHead.confirmed = (Head(impl).confirmed \/ Head(impl).pos = pending)
           /\ Head(impl) \in Entries /\ Head(impl) = impl[1]
           /\ Tail(impl) \in Seq(Entries) /\ Len(impl) \in Nat \ {0}
           /\ Len(Tail(impl)) = Len(impl) - 1
           /\ \A i \in 1..Len(impl) - 1 : Tail(impl)[i] = impl[i + 1]
<1>1. impl \in Seq(Entries)
  BY DEF QInv, TypeOK
<1>2. Head(impl) \in Entries
  BY <1>1, HeadTailProperties
<1>3. Head(impl) = impl[1] /\ Tail(impl) \in Seq(Entries) /\ Len(impl) \in Nat \ {0}
      /\ Len(Tail(impl)) = Len(impl) - 1
      /\ \A i \in 1..Len(impl) - 1 : Tail(impl)[i] = impl[i + 1]
  BY <1>1, HeadTailProperties, EmptySeq, LenProperties
<1> QED BY <1>2, <1>3 DEF MarkedHead, Entries

LEMMA QStep == QInv /\ [Next]_vars => QInv'
<1> SUFFICES ASSUME QInv, [Next]_vars PROVE QInv'
  OBVIOUS
<1> USE QueueAssumption DEF QInv, TypeOK
<1>1. Len(impl) \in Nat /\ Len(temp) \in Nat /\ <<>> \in Seq(Entries) /\ Len(<<>>) = 0
  BY EmptySeq, LenProperties
<1> DEFINE Calls == [op: {"none", "enqueue", "dequeue", "confirm"},
                     pos: Position \cup {None}, threw: BOOLEAN]
<1>2. /\ \A p \in Position \cup {None}, t \in BOOLEAN :
            /\ Call("enqueue", p, t) \in Calls
            /\ Call("dequeue", p, t) \in Calls
            /\ Call("confirm", p, t) \in Calls
      /\ [call EXCEPT !.threw = TRUE] \in Calls
  BY DEF Call
<1> HIDE DEF Calls
<1>3. ASSUME NEW p \in Position, Enqueue(p) PROVE QInv'
  <2>1. [pos |-> p, confirmed |-> FALSE] \in Entries
    BY DEF Entries
  <2>2. impl' \in Seq(Entries) /\ Len(impl') = Len(impl) + 1
    BY <1>3, <2>1, AppendProperties DEF Enqueue
  <2>3. call' \in Calls
    BY <1>2, <1>3 DEF Enqueue
  <2>4. /\ UNCHANGED <<temp, pending, found, before>> /\ temp = <<>>
        /\ Len(impl) < MaxLength /\ result' = TRUE
    BY <1>3 DEF Enqueue
  <2>5. Len(impl') + Len(temp') <= MaxLength
    BY <1>1, <2>2, <2>4
  <2> QED BY <2>2, <2>3, <2>4, <2>5 DEF Calls
<1>4. ASSUME NEW p \in Position, EnqueueThrows(p) PROVE QInv'
  <2>1. call' \in Calls
    BY <1>2, <1>4 DEF EnqueueThrows
  <2> QED BY <1>4, <2>1 DEF EnqueueThrows, Calls
<1>5. ASSUME NEW p \in Position, Confirm(p) PROVE QInv'
  <2>1. call' \in Calls
    BY <1>2, <1>5 DEF Confirm
  <2> QED BY <1>1, <1>5, <2>1 DEF Confirm, Calls
<1>6. CASE Dequeue
  <2>1. call' \in Calls
    BY <1>2, <1>6 DEF Dequeue
  <2>2. CASE impl = <<>>
    BY <1>6, <2>1, <2>2 DEF Dequeue, Calls
  <2>3. CASE impl # <<>>
    <3>1. Head(impl).pos \in Position
      BY <2>3, MarkedHeadType DEF Entries
    <3>2. result' = Head(impl).pos /\ impl' = Tail(impl) /\ UNCHANGED <<temp, pending, found, before>>
      BY <1>6, <2>3 DEF Dequeue
    <3>3. impl' \in Seq(Entries) /\ Len(impl') = Len(impl) - 1
      BY <2>3, <3>2, MarkedHeadType
    <3> QED BY <1>1, <2>1, <3>1, <3>2, <3>3 DEF Calls
  <2> QED BY <2>2, <2>3
<1>7. CASE Move
  <2>1. impl # <<>> /\ temp' = Append(temp, MarkedHead) /\ impl' = Tail(impl)
    BY <1>7 DEF Move
  <2>2. temp' \in Seq(Entries) /\ Len(temp') = Len(temp) + 1
    BY <2>1, MarkedHeadType, AppendProperties
  <2>3. impl' \in Seq(Entries) /\ Len(impl') = Len(impl) - 1
    BY <2>1, MarkedHeadType
  <2>4. found' \in BOOLEAN
    BY <1>7 DEF Move
  <2> QED BY <1>1, <1>7, <2>2, <2>3, <2>4 DEF Move
<1>8. CASE CopyBack
  BY <1>1, <1>8 DEF CopyBack
<1>9. CASE ConfirmThrows
  <2>1. impl' \in Seq(Entries) /\ Len(impl') <= Len(impl)
    <3>1. CASE impl # <<>> /\ impl' = Tail(impl)
      BY <1>1, <3>1, MarkedHeadType
    <3>2. CASE impl' = impl
      BY <1>1, <3>2
    <3> QED BY <1>9, <3>1, <3>2 DEF ConfirmThrows
  <2>2. temp' \in Seq(Entries) /\ Len(impl') + Len(temp') <= MaxLength
    BY <1>1, <1>9, <2>1 DEF ConfirmThrows
  <2>3. call' \in Calls
    BY <1>2, <1>9 DEF ConfirmThrows
  <2> QED BY <1>1, <1>9, <2>1, <2>2, <2>3 DEF ConfirmThrows, Calls
<1>10. CASE UNCHANGED vars
  BY <1>10 DEF vars
<1> QED BY <1>3, <1>4, <1>5, <1>6, <1>7, <1>8, <1>9, <1>10 DEF Next

\* The queues hold entries, and no more of them than were put in.
THEOREM TypeCorrect == Spec => []TypeOK
<1>1. QInv => TypeOK
  BY DEF QInv
<1> QED BY <1>1, QInit, QStep, PTL DEF Spec

-----------------------------------------------------------------------------
(* The result of a confirmation *)

\* In the middle of a confirmation: found says whether the position is among
\* the entries that were moved, and those for it are marked.
FoundSoFar ==
    pending # None =>
        /\ found <=> \E i \in 1..Len(temp) : temp[i].pos = pending
        /\ \A i \in 1..Len(temp) : temp[i].pos = pending => temp[i].confirmed

LEMMA FoundStep == QInv /\ FoundSoFar /\ [Next]_vars => FoundSoFar'
<1> SUFFICES ASSUME QInv, FoundSoFar, [Next]_vars, pending' # None
             PROVE  /\ found' <=> \E i \in 1..Len(temp') : temp'[i].pos = pending'
                    /\ \A i \in 1..Len(temp') : temp'[i].pos = pending' => temp'[i].confirmed
  BY DEF FoundSoFar
<1>1. CASE \E p \in Position : Confirm(p)
  BY <1>1, EmptySeq DEF Confirm
<1>2. CASE Move
  <2>1. /\ impl # <<>> /\ pending # None /\ pending' = pending
        /\ temp' = Append(temp, MarkedHead)
        /\ found' = (found \/ Head(impl).pos = pending)
    BY <1>2 DEF Move
  <2>2. temp \in Seq(Entries) /\ found \in BOOLEAN /\ Len(temp) \in Nat
    BY LenProperties DEF QInv, TypeOK
  <2>3. /\ Len(temp') = Len(temp) + 1 /\ temp'[Len(temp) + 1] = MarkedHead
        /\ \A i \in 1..Len(temp) : temp'[i] = temp[i]
    BY <2>1, <2>2, MarkedHeadType, AppendProperties
  <2>4. /\ found <=> \E i \in 1..Len(temp) : temp[i].pos = pending
        /\ \A i \in 1..Len(temp) : temp[i].pos = pending => temp[i].confirmed
    BY <2>1 DEF FoundSoFar
  <2>5. /\ MarkedHead.pos = Head(impl).pos
        /\ MarkedHead.confirmed = (Head(impl).confirmed \/ Head(impl).pos = pending)
    BY <2>1, MarkedHeadType
  <2>6. 1..Len(temp') = 1..Len(temp) \cup {Len(temp) + 1}
    BY <2>2, <2>3
  <2>7. \A i \in 1..Len(temp') : temp'[i].pos = pending' => temp'[i].confirmed
    BY <2>1, <2>3, <2>4, <2>5, <2>6
  <2>8. found' <=> \E i \in 1..Len(temp') : temp'[i].pos = pending'
    <3>1. CASE Head(impl).pos = pending
      BY <2>1, <2>3, <2>5, <2>6, <3>1
    <3>2. CASE Head(impl).pos # pending
      BY <2>1, <2>2, <2>3, <2>4, <2>5, <2>6, <3>2
    <3> QED BY <3>1, <3>2
  <2> QED BY <2>7, <2>8
<1>3. CASE UNCHANGED vars
  <2>1. temp' = temp /\ pending' = pending /\ found' = found
    BY <1>3 DEF vars
  <2> QED BY <2>1 DEF FoundSoFar
<1>4. /\ ~CopyBack /\ ~ConfirmThrows /\ ~Dequeue
      /\ \A p \in Position : ~Enqueue(p) /\ ~EnqueueThrows(p)
  BY DEF CopyBack, ConfirmThrows, Dequeue, Enqueue, EnqueueThrows
<1> QED BY <1>1, <1>2, <1>3, <1>4 DEF Next

\* For every queue: confirm_pending returns true exactly if it leaves a
\* confirmed entry for the position.
THEOREM ConfirmResultTrue == Spec => ConfirmTruthful
<1>1. Init => FoundSoFar
  BY DEF Init, FoundSoFar
<1>2. QInv /\ FoundSoFar /\ [Next]_vars =>
        [CopyBack => (result' = TRUE <=>
            \E i \in DOMAIN impl' : impl'[i].pos = pending /\ impl'[i].confirmed)]_vars
  <2> SUFFICES ASSUME QInv, FoundSoFar, CopyBack
               PROVE  result' = TRUE <=>
                        \E i \in DOMAIN impl' : impl'[i].pos = pending /\ impl'[i].confirmed
    OBVIOUS
  <2>1. pending # None /\ impl' = temp /\ result' = found /\ found \in BOOLEAN
    BY DEF CopyBack, QInv, TypeOK
  <2>2. DOMAIN temp = 1..Len(temp)
    BY LenProperties DEF QInv, TypeOK
  <2> QED BY <2>1, <2>2 DEF FoundSoFar
<1> QED BY <1>1, <1>2, QInit, QStep, FoundStep, PTL DEF Spec, ConfirmTruthful

-----------------------------------------------------------------------------
(* The refinement of Fifo *)

\* What confirm_pending found when it was called is what it has moved, marked
\* as it was to be, followed by what it has not reached.
Split ==
    pending # None =>
        /\ Len(before) = Len(temp) + Len(impl)
        /\ \A i \in 1..Len(temp) :
              /\ temp[i].pos = before[i].pos
              /\ temp[i].confirmed = (before[i].confirmed \/ before[i].pos = pending)
        /\ \A i \in 1..Len(impl) : impl[i] = before[Len(temp) + i]

LEMMA SplitStep == QInv /\ Split /\ [Next]_vars => Split'
<1> SUFFICES ASSUME QInv, Split, [Next]_vars, pending' # None
             PROVE  /\ Len(before') = Len(temp') + Len(impl')
                    /\ \A i \in 1..Len(temp') :
                          /\ temp'[i].pos = before'[i].pos
                          /\ temp'[i].confirmed
                                = (before'[i].confirmed \/ before'[i].pos = pending')
                    /\ \A i \in 1..Len(impl') : impl'[i] = before'[Len(temp') + i]
  BY DEF Split
<1>0. /\ impl \in Seq(Entries) /\ temp \in Seq(Entries)
      /\ Len(impl) \in Nat /\ Len(temp) \in Nat
  BY LenProperties DEF QInv, TypeOK
<1>1. CASE \E p \in Position : Confirm(p)
  <2>1. temp' = <<>> /\ before' = impl /\ impl' = impl
    BY <1>1 DEF Confirm
  <2>2. Len(temp') = 0
    BY <2>1, EmptySeq
  <2> QED BY <1>0, <2>1, <2>2
<1>2. CASE Move
  <2>1. /\ impl # <<>> /\ pending # None /\ pending' = pending /\ before' = before
        /\ temp' = Append(temp, MarkedHead) /\ impl' = Tail(impl)
    BY <1>2 DEF Move
  <2>2. /\ Len(before) = Len(temp) + Len(impl)
        /\ \A i \in 1..Len(temp) :
              /\ temp[i].pos = before[i].pos
              /\ temp[i].confirmed = (before[i].confirmed \/ before[i].pos = pending)
        /\ \A i \in 1..Len(impl) : impl[i] = before[Len(temp) + i]
    BY <2>1 DEF Split
  <2>3. /\ Len(temp') = Len(temp) + 1 /\ temp'[Len(temp) + 1] = MarkedHead
        /\ \A i \in 1..Len(temp) : temp'[i] = temp[i]
    BY <1>0, <2>1, MarkedHeadType, AppendProperties
  <2>4. /\ Len(impl) \in Nat \ {0} /\ Len(impl') = Len(impl) - 1
        /\ \A i \in 1..Len(impl) - 1 : impl'[i] = impl[i + 1]
        /\ MarkedHead.pos = impl[1].pos
        /\ MarkedHead.confirmed = (impl[1].confirmed \/ impl[1].pos = pending)
    BY <2>1, MarkedHeadType
  <2>5. impl[1] = before[Len(temp) + 1]
    BY <2>2, <2>4
  <2>6. ASSUME NEW i \in 1..Len(temp')
        PROVE  /\ temp'[i].pos = before'[i].pos
               /\ temp'[i].confirmed = (before'[i].confirmed \/ before'[i].pos = pending')
    <3>1. CASE i \in 1..Len(temp)
      BY <2>1, <2>2, <2>3, <3>1
    <3>2. CASE i = Len(temp) + 1
      BY <2>1, <2>3, <2>4, <2>5, <3>2
    <3> QED BY <1>0, <2>3, <3>1, <3>2
  <2>7. ASSUME NEW i \in 1..Len(impl') PROVE impl'[i] = before'[Len(temp') + i]
    <3>1. i \in 1..Len(impl) - 1 /\ i + 1 \in 1..Len(impl)
      BY <2>4
    <3>2. Len(temp) + (i + 1) = Len(temp') + i
      BY <1>0, <2>3
    <3> QED BY <2>1, <2>2, <2>4, <3>1, <3>2
  <2>8. Len(before') = Len(temp') + Len(impl')
    BY <1>0, <2>1, <2>2, <2>3, <2>4
  <2> QED BY <2>6, <2>7, <2>8
<1>3. CASE UNCHANGED vars
  <2>1. temp' = temp /\ pending' = pending /\ before' = before /\ impl' = impl
    BY <1>3 DEF vars
  <2> QED BY <2>1 DEF Split
<1>4. /\ ~CopyBack /\ ~ConfirmThrows /\ ~Dequeue
      /\ \A p \in Position : ~Enqueue(p) /\ ~EnqueueThrows(p)
  BY DEF CopyBack, ConfirmThrows, Dequeue, Enqueue, EnqueueThrows
<1> QED BY <1>1, <1>2, <1>3, <1>4 DEF Next

\* A queue without its first k entries.
LEMMA RestShape ==
    ASSUME NEW s \in Seq(Entries), NEW k \in 0..Len(s)
    PROVE  /\ SubSeq(s, k + 1, Len(s)) \in Seq(Entries)
           /\ Len(SubSeq(s, k + 1, Len(s))) = Len(s) - k
           /\ \A i \in 1..Len(s) - k : SubSeq(s, k + 1, Len(s))[i] = s[k + i]
<1> DEFINE r == SubSeq(s, k + 1, Len(s))
<1>1. Len(s) \in Nat /\ k \in Nat /\ k <= Len(s) /\ DOMAIN s = 1..Len(s)
  BY LenProperties
<1>2. \A i \in 1..Len(s) : s[i] \in Entries
  BY ElementOfSeq
<1>3. r = [i \in 1..(1 + Len(s) - (k + 1)) |-> s[i + (k + 1) - 1]]
  OBVIOUS
<1> HIDE DEF r
<1>4. r = [i \in 1..Len(s) - k |-> s[k + i]]
  <2>1. /\ 1 + Len(s) - (k + 1) = Len(s) - k
        /\ \A i \in 1..Len(s) - k : i + (k + 1) - 1 = k + i
    BY <1>1
  <2> QED BY <1>3, <2>1
<1>5. Len(s) - k \in Nat /\ r \in [1..Len(s) - k -> Entries]
  BY <1>1, <1>2, <1>4
<1>6. r \in Seq(Entries) /\ Len(r) = Len(s) - k
  <2>1. r \in Seq(Entries)
    BY <1>5, SeqDef
  <2> QED BY <1>5, <2>1, LenProperties
<1> QED BY <1>4, <1>6 DEF r

\* A confirmation that comes to its end has marked what was there when it
\* was called, and answers whether the position was among it.
LEMMA CopyBackReturns ==
    ASSUME QInv, Split, FoundSoFar, CopyBack PROVE Abstract!Return
<1>1. /\ pending # None /\ impl = <<>> /\ impl' = temp /\ pending' = None
      /\ result' = found /\ call' = call
  BY DEF CopyBack
<1>2. /\ temp \in Seq(Entries) /\ before \in Seq(Entries) /\ Len(temp) \in Nat
      /\ DOMAIN before = 1..Len(before) /\ DOMAIN temp = 1..Len(temp)
      /\ temp = [i \in 1..Len(temp) |-> temp[i]]
      /\ \A i \in 1..Len(temp) : temp[i] \in Entries
  BY LenProperties, ElementOfSeq, SeqDef DEF QInv, TypeOK
<1>3. Len(impl) = 0
  BY <1>1, EmptySeq
<1>4. /\ Len(before) = Len(temp)
      /\ \A i \in 1..Len(temp) :
            /\ temp[i].pos = before[i].pos
            /\ temp[i].confirmed = (before[i].confirmed \/ before[i].pos = pending)
  BY <1>1, <1>2, <1>3 DEF Split
<1>5. ASSUME NEW i \in 1..Len(temp)
      PROVE  temp[i] = [pos |-> before[i].pos,
                        confirmed |-> before[i].confirmed \/ before[i].pos = pending]
  <2>1. temp[i] = [pos |-> temp[i].pos, confirmed |-> temp[i].confirmed]
    BY <1>2 DEF Entries
  <2> QED BY <1>4, <2>1
<1>6. temp = Abstract!Marked(before, pending)
  BY <1>2, <1>4, <1>5 DEF Abstract!Marked, Abstract!Entry
<1>7. found <=> \E i \in DOMAIN before : before[i].pos = pending
  <2>1. found <=> \E i \in 1..Len(temp) : temp[i].pos = pending
    BY <1>1 DEF FoundSoFar
  <2> QED BY <1>2, <1>4, <2>1
<1>8. result' = (\E i \in DOMAIN before : before[i].pos = pending)
  BY <1>1, <1>7 DEF QInv, TypeOK
<1> QED BY <1>1, <1>6, <1>8 DEF Abstract!Return

\* One that fails leaves the youngest entries as they were.
LEMMA ConfirmFails ==
    ASSUME QInv, Split, ConfirmThrows PROVE Abstract!ConfirmThrows
<1>1. /\ Throws /\ pending # None /\ pending' = None
      /\ result' = FALSE /\ call' = [call EXCEPT !.threw = TRUE]
      /\ \/ impl # <<>> /\ impl' = Tail(impl)
         \/ (temp = <<>> \/ impl = <<>>) /\ impl' = impl
  BY DEF ConfirmThrows
<1>2. /\ impl \in Seq(Entries) /\ before \in Seq(Entries)
      /\ Len(impl) \in Nat /\ Len(temp) \in Nat /\ Len(before) \in Nat
  BY LenProperties DEF QInv, TypeOK
<1>3. /\ Len(before) = Len(temp) + Len(impl)
      /\ \A i \in 1..Len(impl) : impl[i] = before[Len(temp) + i]
  BY <1>1 DEF Split
<1>4. PICK n \in 0..Len(before) :
         /\ impl' \in Seq(Entries) /\ Len(impl') = Len(before) - n
         /\ \A i \in 1..Len(before) - n : impl'[i] = before[n + i]
  <2>1. CASE impl # <<>> /\ impl' = Tail(impl)
    <3>1. /\ impl' \in Seq(Entries) /\ Len(impl) \in Nat \ {0} /\ Len(impl') = Len(impl) - 1
          /\ \A i \in 1..Len(impl) - 1 : impl'[i] = impl[i + 1]
      BY <2>1, MarkedHeadType
    <3>2. /\ Len(temp) + 1 \in 0..Len(before)
          /\ Len(impl') = Len(before) - (Len(temp) + 1)
      BY <1>2, <1>3, <3>1
    <3>3. ASSUME NEW i \in 1..Len(before) - (Len(temp) + 1)
          PROVE  impl'[i] = before[(Len(temp) + 1) + i]
      <4>1. /\ i \in 1..Len(impl) - 1 /\ i + 1 \in 1..Len(impl)
            /\ Len(temp) + (i + 1) = (Len(temp) + 1) + i
        BY <1>2, <1>3
      <4> QED BY <1>3, <3>1, <4>1
    <3> QED BY <3>1, <3>2, <3>3
  <2>2. CASE impl' = impl
    <3>1. /\ Len(temp) \in 0..Len(before) /\ Len(impl') = Len(before) - Len(temp)
      BY <1>2, <1>3, <2>2
    <3>2. \A i \in 1..Len(before) - Len(temp) : impl'[i] = before[Len(temp) + i]
      BY <1>2, <1>3, <2>2
    <3> QED BY <1>2, <2>2, <3>1, <3>2
  <2> QED BY <1>1, <2>1, <2>2
<1> DEFINE rest == SubSeq(before, n + 1, Len(before))
<1>5. /\ rest \in Seq(Entries) /\ Len(rest) = Len(before) - n
      /\ \A i \in 1..Len(before) - n : rest[i] = before[n + i]
  BY <1>2, RestShape
<1> HIDE DEF rest
<1>6. impl' = rest
  <2>1. \A i \in 1..Len(impl') : impl'[i] = rest[i]
    BY <1>4, <1>5
  <2> QED BY <1>4, <1>5, <2>1, SeqEqual
<1> QED BY <1>1, <1>6 DEF Abstract!ConfirmThrows, rest

\* docs/table_v3_README.md: the queue keeps undecided positions in FIFO
\* order.  For every set of positions and every length, confirm_pending is one
\* step of Fifo: every entry that was waiting when it was called is in its
\* place when it returns, with the marks it had and those it was to get.  Only
\* one that has thrown has dropped entries, the oldest, and then it has
\* changed no other.  A dequeue returns the position that came first.
THEOREM QueueImplementsFifo == Spec => ImplementsFifo
<1> DEFINE waiting == IF pending = None THEN impl ELSE before
           avars   == <<waiting, pending, call, result>>
<1>1. Init => Abstract!Init /\ Split /\ FoundSoFar
  BY DEF Init, Abstract!Init, Call, Abstract!Call, Split, FoundSoFar
<1>2. QInv /\ Split /\ FoundSoFar /\ [Next]_vars => [Abstract!Next]_avars
  <2> SUFFICES ASSUME QInv, Split, FoundSoFar, [Next]_vars
               PROVE  Abstract!Next \/ UNCHANGED avars
    OBVIOUS
  <2>1. ASSUME NEW p \in Position, Enqueue(p) PROVE Abstract!Enqueue(p)
    BY <2>1 DEF Enqueue, Abstract!Enqueue, Call, Abstract!Call, Abstract!Entry
  <2>2. ASSUME NEW p \in Position, EnqueueThrows(p) PROVE Abstract!EnqueueThrows(p)
    BY <2>2 DEF EnqueueThrows, Abstract!EnqueueThrows, Call, Abstract!Call
  <2>3. ASSUME NEW p \in Position, Confirm(p) PROVE Abstract!Confirm(p)
    BY <2>3, QueueAssumption DEF Confirm, Abstract!Confirm, Call, Abstract!Call
  <2>4. ASSUME Dequeue PROVE Abstract!Dequeue
    BY <2>4 DEF Dequeue, Abstract!Dequeue, Call, Abstract!Call
  <2>5. ASSUME Move PROVE UNCHANGED avars
    BY <2>5 DEF Move
  <2>6. CASE UNCHANGED vars
    BY <2>6 DEF vars
  <2> HIDE DEF avars
  <2> QED BY <2>1, <2>2, <2>3, <2>4, <2>5, <2>6, CopyBackReturns, ConfirmFails
         DEF Next, Abstract!Next
<1>3. Abstract!Spec <=> Abstract!Init /\ [][Abstract!Next]_avars
  BY DEF Abstract!Spec, Abstract!vars
<1> QED BY <1>1, <1>2, <1>3, QInit, QStep, SplitStep, FoundStep, PTL DEF Spec, ImplementsFifo

=============================================================================
