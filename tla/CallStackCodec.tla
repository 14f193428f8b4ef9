--------------------------- MODULE CallStackCodec ---------------------------
(***************************************************************************)
(* Call stacks to and from protobuf messages (src/state.cpp), and the      *)
(* functions that print them (src/state.cpp, src/debug.cpp).               *)
(*                                                                         *)
(* In C an array is a size and a pointer, and nothing ties the two; in a   *)
(* message it is a sequence.  A message holds two words for each entry of  *)
(* the call stack, so that it can be cut within one.                       *)
(***************************************************************************)
EXTENDS Integers, Sequences

Junk == -1   \* what is read past the end of a buffer

Array(n, s) == [size |-> n, contents |-> s]

Arrays      == [size: Nat, contents: Seq(Int)]
TypedArrays == [types: Arrays, values: Arrays]
LabelStacks == [size: Nat, begins: Seq(Int), targets: Seq(Int),
                stack_pointers: Seq(Int), cell_nums: Seq(Int)]
Frames      == [pc: Nat \X Nat, locals: TypedArrays, value_stack: TypedArrays,
                label_stack: LabelStacks]

LabelField == {"begins", "targets", "stack_pointers", "cell_nums"}

\* A frame whose sizes are those of its buffers.
Sized(f) ==
    /\ f \in Frames
    /\ \A a \in {f.locals.types, f.locals.values, f.value_stack.types, f.value_stack.values} :
          a.size = Len(a.contents)
    /\ \A k \in LabelField : Len(f.label_stack[k]) = f.label_stack.size

\* memcpy of n elements.
Copy(s, n) == [i \in 1..n |-> IF i <= Len(s) THEN s[i] ELSE Junk]

\* Arrays of 8 and 32 bits.
FromArray(a) == Copy(a.contents, a.size)
ToArray(m)   == Array(Len(m), m)

FromTyped(a) == [types |-> FromArray(a.types), values |-> FromArray(a.values)]
ToTyped(m)   == [types |-> ToArray(m.types), values |-> ToArray(m.values)]

\* Mutant: targets and stack pointers change places.
FromLabelsSwapped(l) ==
    [k \in LabelField |->
        Copy(l[CASE k = "targets" -> "stack_pointers"
                 [] k = "stack_pointers" -> "targets"
                 [] OTHER -> k], l.size)]

\* One size for the four arrays of a label stack.
FromLabels(l) == [k \in LabelField |-> Copy(l[k], l.size)]
ToLabels(m) ==
    LET n == Len(m.begins)
    IN  [k \in LabelField \cup {"size"} |-> IF k = "size" THEN n ELSE Copy(m[k], n)]

FromEntry(e) ==
    [pc |-> e.pc, locals |-> FromTyped(e.locals),
     value_stack |-> FromTyped(e.value_stack), label_stack |-> FromLabels(e.label_stack)]
ToEntry(m) ==
    [pc |-> m.pc, locals |-> ToTyped(m.locals),
     value_stack |-> ToTyped(m.value_stack), label_stack |-> ToLabels(m.label_stack)]

FromCallStack(cs) == [i \in DOMAIN cs |-> FromEntry(cs[i])]
ToCallStack(m)    == [i \in DOMAIN m |-> ToEntry(m[i])]

\* serialize_call_stack
Serialized(cs) ==
    LET m == FromCallStack(cs)
    IN  [i \in 1..2 * Len(m) |-> IF i % 2 = 1 THEN "entry" ELSE m[i \div 2]]

\* deserialize_call_stack, as a set of outcomes: a message that is cut within
\* an entry is none, and NULL is dereferenced.
Deserialized(words) ==
    IF Len(words) % 2 = 1 THEN {}
    ELSE {ToCallStack([i \in 1..Len(words) \div 2 |-> words[2 * i]])}

-----------------------------------------------------------------------------
(* The elements that the printers read: <<array, index from 0>>.           *)

\* Mutant: the second loop runs to the number of values.
PrintedTypedArrayByValue(a) ==
    {<<"types", j>> : j \in 0..a.values.size - 1} \cup {<<"values", j>> : j \in 0..a.values.size - 1}

\* print_typed_array walks types and values with one index, and skips a type
\* after each of two slots.
PrintedTypedArray(a) ==
    LET n == a.types.size
        From[j \in 0..n + 1] ==
            IF j >= n THEN {}
            ELSE CASE a.types.contents[j + 1] = 1 -> {<<"values", j>>} \cup From[j + 1]
                   [] a.types.contents[j + 1] = 2 ->
                        {<<"values", j>>, <<"values", j + 1>>} \cup From[j + 2]
                   [] OTHER -> From[j + 1]
    IN  {<<"types", j>> : j \in 0..n - 1} \cup From[0]

\* print_locals and print_stack give up if there are more values than types;
\* array32_to_string has a pointer of its own for the values, which passes one
\* slot or two, and does not move for a type that it cannot print.
PrintedArray32(a) ==
    LET n       == a.values.size
        Type(i) == a.types.contents[i]
        passed  == [i \in 1..n |-> IF Type(i) \in {1, 2} THEN Type(i) ELSE 0]
        sp[i \in 0..n] == IF i = 0 THEN 0 ELSE sp[i - 1] + passed[i]
    IN  IF a.types.size < n THEN {}
        ELSE {<<"types", i>> : i \in 0..n - 1} \cup {<<"values", v>> : v \in 0..sp[n] - 1}

\* The elements are there: the size that is stated says nothing of the buffer.
InBounds(a, reads) ==
    \A r \in reads :
        r[2] < Len((IF r[1] = "types" THEN a.types ELSE a.values).contents)

=============================================================================
