----------------------------- MODULE StackStore -----------------------------
(***************************************************************************)
(* What the stack API promises, with no heap: a Stack variable denotes an  *)
(* immutable sequence, an iterator the part of a sequence it has not       *)
(* returned yet, and the state map a pair of sequences for each saved key. *)
(* No operation on one variable changes what another one denotes.          *)
(***************************************************************************)
EXTENDS Sequences

CONSTANTS Handle, Iter, Key, Value, None

VARIABLES stk,    \* handle -> sequence, top first
          cur,    \* iterator -> rest of its sequence, None if there is none
          isUp,   \* the state map exists
          saved,  \* key -> <<address stack, type stack>>, None if absent
          asked   \* the save or remove in progress: its key, the pair to
                  \*   store (None: a remove), and whether the key is new

vars == <<stk, cur, isUp, saved, asked>>

Init ==
    /\ stk = [h \in Handle |-> <<>>]
    /\ cur = [i \in Iter |-> None]
    /\ isUp = FALSE
    /\ saved = [k \in Key |-> None]
    /\ asked = None

Rest(s) == IF s = <<>> THEN <<>> ELSE Tail(s)

Clear(h) ==
    /\ stk' = [stk EXCEPT ![h] = <<>>]
    /\ UNCHANGED <<cur, isUp, saved, asked>>

Push(h, g, v) ==
    /\ stk' = [stk EXCEPT ![h] = <<v>> \o stk[g]]
    /\ UNCHANGED <<cur, isUp, saved, asked>>

Pop(h, g) ==
    /\ stk' = [stk EXCEPT ![h] = Rest(stk[g])]
    /\ UNCHANGED <<cur, isUp, saved, asked>>

Iterate(i, g) ==
    /\ cur[i] = None
    /\ cur' = [cur EXCEPT ![i] = stk[g]]
    /\ UNCHANGED <<stk, isUp, saved, asked>>

Advance(i) ==
    /\ cur[i] # None /\ cur[i] # <<>>
    /\ cur' = [cur EXCEPT ![i] = Tail(cur[i])]
    /\ UNCHANGED <<stk, isUp, saved, asked>>

Stop(i) ==
    /\ cur' = [cur EXCEPT ![i] = None]
    /\ UNCHANGED <<stk, isUp, saved, asked>>

Open ==
    /\ ~isUp /\ isUp' = TRUE
    /\ UNCHANGED <<stk, cur, saved, asked>>

Close ==
    /\ isUp /\ isUp' = FALSE
    /\ saved' = [k \in Key |-> None]
    /\ UNCHANGED <<stk, cur, asked>>

\* A save takes the old pair out and later puts the new one in; only the
\* insertion of a new key can fail, and then nothing is stored.  A remove
\* takes the pair of its key out, and nothing else until it returns.
Save(k, h, g) ==
    /\ isUp /\ asked = None
    /\ asked' = [key |-> k, pair |-> <<stk[h], stk[g]>>, new |-> saved[k] = None]
    /\ saved' = [saved EXCEPT ![k] = None]
    /\ UNCHANGED <<stk, cur, isUp>>

Saved ==
    /\ asked # None /\ asked.pair # None
    /\ saved' = [saved EXCEPT ![asked.key] = asked.pair]
    /\ asked' = None
    /\ UNCHANGED <<stk, cur, isUp>>

SaveFails ==
    /\ asked # None /\ asked.pair # None /\ asked.new
    /\ asked' = None
    /\ UNCHANGED <<stk, cur, isUp, saved>>

Remove(k) ==
    /\ isUp /\ asked = None /\ saved[k] # None
    /\ asked' = [key |-> k, pair |-> None, new |-> FALSE]
    /\ saved' = [saved EXCEPT ![k] = None]
    /\ UNCHANGED <<stk, cur, isUp>>

Removed ==
    /\ asked # None /\ asked.pair = None
    /\ asked' = None
    /\ UNCHANGED <<stk, cur, isUp, saved>>

Load(k, h, g) ==
    /\ isUp /\ saved[k] # None
    /\ h # g
    /\ stk' = [stk EXCEPT ![h] = saved[k][1], ![g] = saved[k][2]]
    /\ UNCHANGED <<cur, isUp, saved, asked>>

Next ==
    \/ \E h \in Handle : Clear(h)
    \/ \E h, g \in Handle : Pop(h, g) \/ \E v \in Value : Push(h, g, v)
    \/ \E h, g \in Handle, k \in Key : Save(k, h, g) \/ Load(k, h, g)
    \/ \E i \in Iter : Advance(i) \/ Stop(i) \/ \E g \in Handle : Iterate(i, g)
    \/ \E k \in Key : Remove(k)
    \/ Saved \/ SaveFails \/ Removed
    \/ Open \/ Close

Spec == Init /\ [][Next]_vars

=============================================================================
