--------------------------- MODULE RefStackStore ----------------------------
(***************************************************************************)
(* The reference-counted heap of RefStack implements the immutable         *)
(* sequences of StackStore.                                                *)
(***************************************************************************)
EXTENDS RefStack, Sequences

Stack == Seq(Value \cup {Zero})

\* NULL is no value of a stack, no pair of them, and no request.
ASSUME NullAssumption ==
    /\ Null \notin Stack /\ Null \notin Stack \X Stack
    /\ Null \notin [key: Key, pair: (Stack \X Stack) \cup {Null}, new: BOOLEAN]

\* Chains are acyclic: no walk takes more steps than this.
Depth == Cardinality(Node) + 1

\* Contents[d][p]: the values a walk of at most d nodes from p meets, as
\* wasmig_stack_size, _print and _foreach walk: until NULL or is_terminal.
Contents[d \in 0..Depth] ==
    [p \in Pointer |->
        IF d = 0 \/ p \notin Node THEN <<>>
        ELSE IF kind[p] # "elem" THEN <<>>
        ELSE <<value[p]>> \o Contents[d - 1][next[p]]]

Content == Contents[Depth]

-----------------------------------------------------------------------------
(* The keys of a running map operation count as absent: nobody can look    *)
(* before it returns.                                                      *)

Pair(p, q) == <<Content[p], Content[q]>>

StoredPair(k) ==
    IF k \notin present \/ k \in call.keys THEN Null
    ELSE Pair(slot[<<k, "addr">>], slot[<<k, "type">>])

Asked ==
    IF call.op \notin {"save", "remove"} THEN Null
    ELSE [key  |-> CHOOSE k \in call.keys : TRUE,
          pair |-> IF call.op = "remove" THEN Null
                   ELSE Pair(handle[call.addr], handle[call.type]),
          new  |-> call.op = "save" /\ call.keys \cap present = {}]

Stacks == [h \in Handle |-> Content[handle[h]]]
Rests  == [i \in Iter |-> IF iter[i] = Null THEN Null ELSE Content[iter[i]]]
Opened == up /\ call.op # "destroy"
Pairs  == [k \in Key |-> StoredPair(k)]

Abstract == INSTANCE StackStore WITH
    None <- Null, stk <- Stacks, cur <- Rests, isUp <- Opened, saved <- Pairs, asked <- Asked

\* Every step of the heap is a step of StackStore or changes nothing a
\* client can see: releases, frees and reuse of addresses never change the
\* value of a stack that some handle, iterator or map entry still denotes,
\* and load_pair returns what save_pair was given.
ImplementsStore == Abstract!Spec

-----------------------------------------------------------------------------
\* Every call returns: a recursive release reaches the end of its chain and
\* map operations run out of slots.
CallsReturn == []<>Idle

=============================================================================
