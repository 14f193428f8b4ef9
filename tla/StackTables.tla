----------------------------- MODULE StackTables -----------------------------
(***************************************************************************)
(* The stack tables that a compiler leaves beside a program, and what the  *)
(* library computes from them: src/stack_tables.cpp, src/codepos.cpp and   *)
(* src/wcrn/src/capi.rs.                                                   *)
(*                                                                         *)
(* A table maps a function to the types of its locals and, for every       *)
(* offset the compiler knows, to the typed entries on the value stack.  A  *)
(* type is its size in slots of 32 bits.                                   *)
(***************************************************************************)
EXTENDS Integers, Sequences, FiniteSets

CONSTANTS
    Word,    \* 2^32
    Tables   \* the tables that compilers may write

Width == {1, 2, 4}
Entry == [opcode: {"Call", "Other"}, ty: Width]

ASSUME TablesAssumption ==
    /\ Word \in Nat \ {0}
    /\ \A t \in Tables : \A f \in DOMAIN t :
          /\ f \in 0..Word - 1 /\ t[f].locals \in Seq(Width)
          /\ DOMAIN t[f].at \subseteq 0..Word - 1
          /\ \A o \in DOMAIN t[f].at : t[f].at[o] \in Seq(Entry)

Sum(sizes) ==
    LET From[i \in 0..Len(sizes)] == IF i = 0 THEN 0 ELSE From[i - 1] + sizes[i]
    IN  From[Len(sizes)]

\* The lookups abort the process at a position that the table does not know.
\* The offset has 64 bits in C and 32 in Rust.
Known(t, f, o) == f \in DOMAIN t /\ o % Word \in DOMAIN t[f].at

LocalTypes(t, f)    == t[f].locals
StackTable(t, f, o) == t[f].at[o % Word]

\* convert_type_stack_from_stack_table
TypeStack(stack) == [i \in DOMAIN stack |-> stack[i].ty]

StackSize(stack) == Sum(TypeStack(stack))

\* Mutant: the loop does not stop at the first entry that is not a call.
ResultSizeOfAll(stack) ==
    Sum(TypeStack(SelectSeq(stack, LAMBDA e : e.opcode = "Call")))

\* get_result_size adds up the results of calls on top of the stack.
ResultSize(stack) ==
    LET From[i \in 0..Len(stack)] ==
            IF i = 0 \/ stack[i].opcode # "Call" THEN 0 ELSE stack[i].ty + From[i - 1]
    IN  From[Len(stack)]

\* wcrn_offset_list: the keys of an ordered map.
OffsetList(t, f) ==
    LET offsets == DOMAIN t[f].at
        n       == Cardinality(offsets)
    IN  CHOOSE s \in [1..n -> offsets] : \A i \in 1..n : \A j \in 1..i - 1 : s[j] < s[i]

\* The loop over an offset list: at[i] is what it may find for the offset at i;
\* an offset that is not listed is returned as it is.
Found(offs, pc, at) ==
    LET hits == {i \in DOMAIN offs : offs[i] = pc[2]}
    IN  IF hits = {} THEN {pc} ELSE {<<pc[1], o>> : o \in UNION {at[i] : i \in hits}}

\* The set of positions that prev_pc may return.
PrevPc(t, pc) ==
    LET offs == OffsetList(t, pc[1])
    IN  Found(offs, pc, [i \in DOMAIN offs |-> {offs[IF i > 1 THEN i - 1 ELSE i]}])

\* Mutant: a copy of prev_pc with the index left as it is.
NextPcAsPrev(t, pc) ==
    LET offs == OffsetList(t, pc[1])
    IN  Found(offs, pc, [i \in DOMAIN offs |-> {offs[IF i > 1 THEN i - 1 ELSE i]}])

\* next_pc tests the same condition: it stays at the first offset, and reads
\* the word behind the list for the last.
NextPc(t, pc) ==
    LET offs == OffsetList(t, pc[1])
    IN  Found(offs, pc, [i \in DOMAIN offs |->
                            IF i = 1 THEN {offs[1]}
                            ELSE IF i < Len(offs) THEN {offs[i + 1]} ELSE 0..Word - 1])

=============================================================================
