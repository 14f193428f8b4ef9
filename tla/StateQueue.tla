----------------------------- MODULE StateQueue -----------------------------
(***************************************************************************)
(* The state management queue of src/table_v3.cpp.  A std::queue cannot be *)
(* searched, so confirm_pending pops every entry into a second queue and   *)
(* copies that back: one step per entry here.                              *)
(***************************************************************************)
EXTENDS Sequences, Naturals

CONSTANTS
    Position,   \* (fidx, offset) of an instruction
    None,
    MaxLength,  \* bound: entries in the queue
    Throws      \* TRUE if an allocation may fail

ASSUME QueueAssumption ==
    None \notin Position /\ MaxLength \in Nat /\ Throws \in BOOLEAN

VARIABLES
    impl,       \* the queue
    temp,       \* temp_queue of the running confirm_pending
    pending,    \* the position it confirms, None if it is not running
    found,      \* its local found
    result,     \* what the last call returned: a position, a BOOLEAN or None
    before,     \* history: the queue when confirm_pending was called
    call        \* history: the last call, and whether it caught an exception

vars == <<impl, temp, pending, found, result, before, call>>

Entries == [pos: Position, confirmed: BOOLEAN]

Call(op, p, threw) == [op |-> op, pos |-> p, threw |-> threw]

TypeOK ==
    /\ impl \in Seq(Entries) /\ temp \in Seq(Entries) /\ before \in Seq(Entries)
    /\ Len(impl) + Len(temp) <= MaxLength
    /\ pending \in Position \cup {None}
    /\ found \in BOOLEAN
    /\ result \in Position \cup BOOLEAN \cup {None}
    /\ call \in [op: {"none", "enqueue", "dequeue", "confirm"},
                 pos: Position \cup {None}, threw: BOOLEAN]

Init ==
    /\ impl = <<>> /\ temp = <<>> /\ before = <<>>
    /\ pending = None /\ found = FALSE
    /\ result = None /\ call = Call("none", None, FALSE)

\* wasmig_state_queue_enqueue
Enqueue(p) ==
    /\ pending = None
    /\ Len(impl) < MaxLength
    /\ impl' = Append(impl, [pos |-> p, confirmed |-> FALSE])
    /\ result' = TRUE /\ call' = Call("enqueue", p, FALSE)
    /\ UNCHANGED <<temp, pending, found, before>>

\* Its push throws.
EnqueueThrows(p) ==
    /\ Throws
    /\ pending = None
    /\ result' = FALSE /\ call' = Call("enqueue", p, TRUE)
    /\ UNCHANGED <<impl, temp, pending, found, before>>

\* wasmig_state_queue_dequeue: is_confirmed is not handed out.
Dequeue ==
    /\ pending = None
    /\ \/ impl = <<>> /\ result' = FALSE /\ UNCHANGED impl
       \/ impl # <<>> /\ result' = Head(impl).pos /\ impl' = Tail(impl)
    /\ call' = Call("dequeue", None, FALSE)
    /\ UNCHANGED <<temp, pending, found, before>>

\* Mutant: found keeps its value from call to call.
ConfirmStale(p) ==
    /\ pending = None
    /\ pending' = p
    /\ temp' = <<>>
    /\ result' = None /\ call' = Call("confirm", p, FALSE)
    /\ before' = impl
    /\ UNCHANGED <<impl, found>>

\* wasmig_state_queue_confirm_pending is called.
Confirm(p) ==
    /\ pending = None
    /\ pending' = p
    /\ temp' = <<>> /\ found' = FALSE
    /\ result' = None /\ call' = Call("confirm", p, FALSE)
    /\ before' = impl
    /\ UNCHANGED impl

MarkedHead == [Head(impl) EXCEPT !.confirmed = @ \/ Head(impl).pos = pending]

\* Mutant: is_confirmed is assigned the comparison, so that the marks of
\* earlier confirmations are undone.
MoveUnmarks ==
    /\ pending # None /\ impl # <<>>
    /\ temp' = Append(temp, [Head(impl) EXCEPT !.confirmed = Head(impl).pos = pending])
    /\ found' = (found \/ Head(impl).pos = pending)
    /\ impl' = Tail(impl)
    /\ UNCHANGED <<pending, result, before, call>>

\* Mutant: the entry is not popped.
MovePeeks ==
    /\ pending # None /\ impl # <<>>
    /\ temp' = Append(temp, MarkedHead)
    /\ found' = (found \/ Head(impl).pos = pending)
    /\ UNCHANGED <<impl, pending, result, before, call>>

\* Mutant: entries go back to the queue itself.
MoveInPlace ==
    /\ pending # None /\ impl # <<>>
    /\ impl' = Append(Tail(impl), MarkedHead)
    /\ found' = (found \/ Head(impl).pos = pending)
    /\ UNCHANGED <<temp, pending, result, before, call>>

\* One turn of its loop: front, pop, mark, push into temp_queue.
Move ==
    /\ pending # None /\ impl # <<>>
    /\ temp' = Append(temp, MarkedHead)
    /\ found' = (found \/ Head(impl).pos = pending)
    /\ impl' = Tail(impl)
    /\ UNCHANGED <<pending, result, before, call>>

\* *impl = temp_queue; return found
CopyBack ==
    /\ pending # None /\ impl = <<>>
    /\ impl' = temp
    /\ temp' = <<>> /\ pending' = None /\ before' = <<>>
    /\ result' = found
    /\ UNCHANGED <<found, call>>

\* An exception is caught: a push into temp_queue throws, and the entry just
\* popped is gone with those in temp_queue; or temp_queue could not be made,
\* or copied back.  The call returns false.
ConfirmThrows ==
    /\ Throws
    /\ pending # None
    /\ \/ impl # <<>> /\ impl' = Tail(impl)
       \/ (temp = <<>> \/ impl = <<>>) /\ UNCHANGED impl
    /\ temp' = <<>> /\ pending' = None /\ before' = <<>>
    /\ result' = FALSE /\ call' = [call EXCEPT !.threw = TRUE]
    /\ UNCHANGED found

Next ==
    \/ \E p \in Position : Enqueue(p) \/ EnqueueThrows(p) \/ Confirm(p)
    \/ Dequeue \/ Move \/ CopyBack \/ ConfirmThrows

Spec == Init /\ [][Next]_vars

\* confirm_pending keeps running once called.
FairSpec == Spec /\ WF_vars(Move \/ CopyBack)

-----------------------------------------------------------------------------
(* A confirmation takes effect when it returns. *)

Abstract ==
    INSTANCE Fifo WITH waiting    <- IF pending = None THEN impl ELSE before,
                       confirming <- pending

\* docs/table_v3_README.md: the queue holds undecided positions in FIFO
\* order.  A dequeue returns the oldest position; a confirmation that did not
\* throw leaves every entry in its place with the mark it had or was to get,
\* and returns whether there was one for the position; one that threw has
\* dropped the oldest entries at most and marked none of the others.
ImplementsFifo == Abstract!Spec

\* confirm_pending returns true exactly when the position was waiting: a
\* call that returns true leaves a confirmed entry behind, one that returns
\* false leaves none for the position.
ConfirmTruthful ==
    [][CopyBack => (result' = TRUE <=>
          \E i \in DOMAIN impl' : impl'[i].pos = pending /\ impl'[i].confirmed)]_vars

\* confirm_pending returns.
ConfirmReturns == [](pending # None => <>(pending = None))

=============================================================================
