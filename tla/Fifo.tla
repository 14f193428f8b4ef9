-------------------------------- MODULE Fifo --------------------------------
(***************************************************************************)
(* What the state management queue promises its caller: a position that    *)
(* was enqueued is handed out after those enqueued before it; confirming a *)
(* position marks every waiting entry for it, moves and drops none, and    *)
(* answers whether there was one.  Nothing changes outside a call.  Only a *)
(* confirmation that runs out of memory may lose entries: the oldest, the  *)
(* others being left as they were.                                         *)
(***************************************************************************)
EXTENDS Sequences, Naturals

CONSTANTS Position, None, Throws

VARIABLES
    waiting,
    confirming,     \* the position of the running confirmation, or None
    call,           \* the last call, with its argument and whether it threw
    result          \* what it returned, None while it runs

vars == <<waiting, confirming, call, result>>

Call(op, p, threw) == [op |-> op, pos |-> p, threw |-> threw]
Entry(p, c)        == [pos |-> p, confirmed |-> c]

Marked(s, p) ==
    [i \in DOMAIN s |-> Entry(s[i].pos, s[i].confirmed \/ s[i].pos = p)]

Init ==
    /\ waiting = <<>> /\ confirming = None
    /\ call = Call("none", None, FALSE) /\ result = None

Enqueue(p) ==
    /\ confirming = None
    /\ call' = Call("enqueue", p, FALSE) /\ result' = TRUE
    /\ waiting' = Append(waiting, Entry(p, FALSE))
    /\ UNCHANGED confirming

EnqueueThrows(p) ==
    /\ Throws /\ confirming = None
    /\ call' = Call("enqueue", p, TRUE) /\ result' = FALSE
    /\ UNCHANGED <<waiting, confirming>>

Dequeue ==
    /\ confirming = None
    /\ call' = Call("dequeue", None, FALSE)
    /\ \/ /\ waiting # <<>>
          /\ result' = Head(waiting).pos /\ waiting' = Tail(waiting)
       \/ waiting = <<>> /\ result' = FALSE /\ UNCHANGED waiting
    /\ UNCHANGED confirming

Confirm(p) ==
    /\ confirming = None
    /\ call' = Call("confirm", p, FALSE) /\ result' = None
    /\ confirming' = p
    /\ UNCHANGED waiting

Return ==
    /\ confirming # None
    /\ waiting' = Marked(waiting, confirming)
    /\ result' = (\E i \in DOMAIN waiting : waiting[i].pos = confirming)
    /\ confirming' = None
    /\ UNCHANGED call

ConfirmThrows ==
    /\ Throws /\ confirming # None
    /\ \E n \in 0..Len(waiting) : waiting' = SubSeq(waiting, n + 1, Len(waiting))
    /\ call' = [call EXCEPT !.threw = TRUE] /\ result' = FALSE
    /\ confirming' = None

Next ==
    \/ \E p \in Position : Enqueue(p) \/ EnqueueThrows(p) \/ Confirm(p)
    \/ Dequeue \/ Return \/ ConfirmThrows

Spec == Init /\ [][Next]_vars

=============================================================================
