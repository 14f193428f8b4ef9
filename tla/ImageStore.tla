------------------------------ MODULE ImageStore ------------------------------
(***************************************************************************)
(* What wasmig_checkpoint_memory and wasmig_restore_memory promise: a      *)
(* process with a memory, and an image that restores to the memory of the  *)
(* last checkpoint that was completed, or to nothing.                      *)
(***************************************************************************)
EXTENDS Sequences, Naturals

CONSTANTS Memories, Zero, None

VARIABLES
    memory,     \* the linear memory, None if no process runs
    image,      \* what a restore would return, None if it would fail
    cut         \* the end of the image was lost when it was written

vars == <<memory, image, cut>>

Blank(m) == \A i \in DOMAIN m : m[i] = Zero

\* A restore brings back exactly the image; a new program starts from zeros.
Start ==
    /\ memory = None
    /\ \/ memory' = image /\ image # None
       \/ memory' \in Memories /\ Blank(memory')
    /\ UNCHANGED <<image, cut>>

\* The program stores into its memory and grows it.
Run ==
    /\ memory # None /\ memory' \in Memories
    /\ UNCHANGED <<image, cut>>

Die ==
    /\ memory # None /\ memory' = None
    /\ UNCHANGED <<image, cut>>

\* A checkpoint that begins gives up the old image.
Forget ==
    /\ memory # None
    /\ image' = None /\ cut' \in {cut, FALSE}
    /\ UNCHANGED memory

\* It restores to zeros while only memory.img has been truncated, even if it
\* could not be restored any more because its end was lost.
Clear ==
    /\ memory # None
    /\ \/ image # None /\ image' = [i \in DOMAIN image |-> Zero]
       \/ cut /\ image' \in Memories /\ Blank(image')
    /\ cut' = FALSE
    /\ UNCHANGED memory

\* The new image is there in one step, when it is complete ...
Commit ==
    /\ memory # None /\ image = None
    /\ ~cut /\ image' = memory
    /\ UNCHANGED <<memory, cut>>

\* ... or when the last chunks of it have been lost unnoticed.
Lose ==
    /\ memory # None /\ image = None
    /\ \/ image' = None
       \/ \E n \in 0..Len(memory) :
             image' = [i \in DOMAIN memory |-> IF i <= n THEN memory[i] ELSE Zero]
    /\ cut' = TRUE
    /\ UNCHANGED memory

Init == memory = None /\ image \in Memories \cup {None} /\ ~cut
Next == Start \/ Run \/ Die \/ Forget \/ Clear \/ Commit \/ Lose
Spec == Init /\ [][Next]_vars

=============================================================================
