--------------------------- MODULE MCProcessImages ---------------------------
EXTENDS ProcessImages, TLC

Symmetry == Permutations(Global)

Call(ty)  == [opcode |-> "Call", ty |-> ty]
Other(ty) == [opcode |-> "Other", ty |-> ty]

MCRight ==
    0 :> [locals |-> <<2>>,
          at |-> 0 :> <<Other(1)>> @@ 1 :> <<Call(4), Other(1), Call(2)>> @@ 2 :> <<>>] @@
    1 :> [locals |-> <<>>, at |-> 1 :> <<Call(1)>> @@ 3 :> <<Other(4)>>]
MCOther ==
    0 :> [locals |-> <<1, 1>>,
          at |-> 0 :> <<Call(2), Call(1)>> @@ 1 :> <<Other(1)>>]
MCTables == {MCRight, MCOther}

Typed32(types, values) ==
    [types |-> Array(Len(types), types), values |-> Array(Len(values), values)]
NoLabels == [size |-> 0, begins |-> <<>>, targets |-> <<>>, stack_pointers |-> <<>>, cell_nums |-> <<>>]
OneLabel == [size |-> 1, begins |-> <<1>>, targets |-> <<2>>, stack_pointers |-> <<3>>, cell_nums |-> <<4>>]

Frame(offset, types, values, labels) ==
    [pc |-> <<0, offset>>, locals |-> Typed32(<<2>>, <<8, 9>>),
     value_stack |-> Typed32(types, values), label_stack |-> labels]

\* A caller past its call, and one at the beginning of its function.
MCCallers == {Frame(1, <<1>>, <<5>>, NoLabels), Frame(0, <<>>, <<>>, NoLabels)}
MCTops == {Frame(1, <<4, 1, 2>>, <<1, 2, 3, 4, 5, 6, 7>>, OneLabel), Frame(2, <<>>, <<>>, NoLabels)}
MCHosts == {{"pc", "global"}, {"stack"}}
=============================================================================
