---------------------------- MODULE ProcessImages ----------------------------
(***************************************************************************)
(* The images of program counter, globals and call stack: the checkpoint   *)
(* functions of src/checkpoint.cpp and the restore functions of            *)
(* src/restore.cpp other than those of the memory, with the stack tables   *)
(* that wasmig_checkpoint_stack_v3 looks up and the process caches         *)
(* (src/wcrn/src/core/stack_tables.rs).                                    *)
(*                                                                         *)
(* global.img, and call_stack.img by wasmig_checkpoint_stack_v3, are       *)
(* opened, written and closed by every call.  program_counter.img, and     *)
(* call_stack.img by wasmig_checkpoint_stack_v4, are opened once and kept  *)
(* open for the life of the process, even if the files are taken away.     *)
(***************************************************************************)
EXTENDS StackTables, CallStackCodec
Sets == INSTANCE FiniteSetsExt

CONSTANTS
    Global,    \* values of the globals
    Callers,   \* frames of a program that called another function, and
    Tops,      \*   frames on top of its call stack
    Right,     \* the table of the program
    Hosts,     \* which images a host saves; images that no host saves
               \*   together have nothing in common but the order of the calls
    MaxDepth,  \* bound: frames on the call stack
    None       \* no file, no process, no call, no globals, no table

ASSUME ImagesAssumption == MaxDepth \in Nat /\ Right \in Tables

VARIABLES
    program,   \* state of the running program, None if there is no process
    disk,      \* image -> contents, a sequence of words; None: no file
    stream,    \* cached FILE*: "closed", "open", or "gone" if the file it
               \*   writes is no longer the one that a restore would read
    call,      \* the checkpoint call in progress: what it writes (words) and
               \*   has still to write (rest)
    tableFile, \* the table in the directory of the process, or None
    cache,     \* STACK_TABLES: the table that the process uses, or None
    host,      \* the images that this host saves
    saved,     \* images whose checkpoint returned 0 since the program last
               \*   ran, those
    lost,      \* that an unchecked write left incomplete, and
    asked      \* the words of the last call that emptied call_stack.img
               \*   (no code reads these three)

tables == <<tableFile, cache, host>>
vars == <<program, disk, stream, call, tables, saved, lost, asked>>

Image  == {"pc", "global", "stack"}
Cached == {"pc", "stack"}

Stacks ==
    {<<>>} \cup {Append(callers, top) :
        callers \in UNION {[1..n -> Callers] : n \in 0..MaxDepth - 1}, top \in Tops}
Programs ==
    [pc: (0..Word - 1) \X (0..2 * Word - 1), global: Global \cup {None}, stack: Seq(Frames)]

\* None is no program, no table and no file.
ASSUME NoneAssumption ==
    /\ None \notin Programs /\ None \notin Global /\ None \notin Tables
    /\ None \notin Seq(0..Word - 1) /\ None \notin Seq({"globals"} \cup Global \cup {None})
    /\ None \notin {Serialized(s) : s \in Stacks}

Values == [pc |-> (0..Word - 1) \X (0..Word - 1), global |-> Global, stack |-> Stacks]

Prefix(s) == {SubSeq(s, 1, n) : n \in 0..Len(s)}

\* Mutant: the program counter is written with its 64-bit offset.
WordsWide(n) ==
    CASE n = "pc"     -> program.pc
      [] n = "global" -> <<"globals", program.global>>
      [] n = "stack"  -> Serialized(program.stack)

\* What a call writes that looks up no types.
Words(n) ==
    CASE n = "pc"     -> <<program.pc[1], program.pc[2] % Word>>
      [] n = "global" -> <<"globals", program.global>>
      [] n = "stack"  -> Serialized(program.stack)

TypeOK ==
    /\ program \in Programs \cup {None}
    /\ program # None => Len(program.stack) <= MaxDepth
    /\ disk["pc"] = None \/ disk["pc"] \in UNION {[1..n -> 0..Word - 1] : n \in 0..2}
    /\ \A n \in {"global", "stack"} :
          disk[n] = None \/ Len(disk[n]) \in 0..2 * MaxDepth + 2
    /\ stream \in [Cached -> {"closed", "open", "gone"}]
    /\ call = None \/ (call.image \in Image /\ call.via \in {"fresh", "open", "gone", "typing"})
    /\ {tableFile, cache} \subseteq Tables \cup {None} /\ host \in Hosts
    /\ saved \subseteq Image /\ lost \subseteq Image
    /\ program = None => stream = [n \in Cached |-> "closed"] /\ call = None /\ cache = None

Init ==
    /\ program = None
    /\ disk = [n \in Image |-> None]
    /\ stream = [n \in Cached |-> "closed"]
    /\ call = None
    /\ tableFile = Right /\ cache = None
    /\ host \in Hosts
    /\ saved = {} /\ lost = {} /\ asked = <<>>

-----------------------------------------------------------------------------
(* Restore: the set of values a restore may return, none if it crashes.    *)

\* wasmig_restore_pc reads two words of 32 bits into an object that is not
\* initialised and whose offset has 64 bits.
RestoredPc(file) ==
    IF file = None THEN {<<0, 0>>}
    ELSE LET Read(i) == IF i <= Len(file) THEN {file[i]} ELSE 0..Word - 1
         IN  {<<f, o + Word * high>> : f \in Read(1), o \in Read(2), high \in 0..1}

\* wasmig_restore_global leaves values that are not in the file as they are
\* in memory; wasmig_restore_global_v2 dereferences NULL for a message that
\* is cut.
RestoredGlobals(file) ==
    IF file = None THEN {None}
    ELSE IF Len(file) < 2 THEN Global
    ELSE {file[2]}

\* wasmig_restore_stack: a message cut between two frames is a shorter call
\* stack.
RestoredStack(file) == IF file = None THEN {<<>>} ELSE Deserialized(file)

-----------------------------------------------------------------------------
(* The process and its host *)

Idle == program # None /\ call = None

Boot ==
    /\ program = None
    /\ program' \in [pc: {<<0, 0>>}, global: Global, stack: {<<>>}]
    /\ UNCHANGED <<disk, stream, call, tables, saved, lost, asked>>

Resume ==
    /\ program = None
    /\ program' \in [pc: RestoredPc(disk["pc"]),
                     global: RestoredGlobals(disk["global"]),
                     stack: RestoredStack(disk["stack"])]
    /\ UNCHANGED <<disk, stream, call, tables, saved, lost, asked>>

Run ==
    /\ Idle
    /\ LET New(n) == IF n \in host THEN Values[n] ELSE {program[n]}
       IN  program' \in [pc: New("pc"), global: New("global"), stack: New("stack")]
    /\ program' # program
    /\ saved' = {}
    /\ UNCHANGED <<disk, stream, call, tables, lost, asked>>

\* Also at a lookup that fails: the reader of the tables panics.
Die ==
    /\ program # None
    /\ program' = None /\ call' = None /\ cache' = None
    /\ stream' = [n \in Cached |-> "closed"]
    /\ saved' = {}
    /\ UNCHANGED <<disk, tableFile, host, lost, asked>>

\* The images are moved elsewhere, or the process changes its directory.
TakeAway ==
    /\ program # None => Idle
    /\ disk' = [n \in Image |-> None]
    /\ stream' = [n \in Cached |-> IF stream[n] = "open" THEN "gone" ELSE stream[n]]
    /\ saved' = {} /\ lost' = {}
    /\ UNCHANGED <<program, call, tables, asked>>

\* A compiler writes the table file anew, somebody removes it, or the process
\* changes its directory.
Recompile ==
    /\ "stack" \in host
    /\ tableFile' \in (Tables \cup {None}) \ {tableFile}
    /\ UNCHANGED <<program, disk, stream, call, cache, host, saved, lost, asked>>

-----------------------------------------------------------------------------
(* The stack tables: the first load that succeeds fills the cache.         *)

\* Mutant: every call reads the file.
TableReread == tableFile

\* init_stack_tables: the table a call uses; None: it panics.
Table == IF cache # None THEN cache ELSE tableFile

\* load_stack_tables of the host.
LoadTables ==
    /\ Idle /\ "stack" \in host
    /\ Table # None /\ cache' = Table
    /\ UNCHANGED <<program, disk, stream, call, tableFile, host, saved, lost, asked>>

\* The position whose table describes a frame: a caller is past its call.
Position(f, top) == <<f.pc[1], (IF top THEN f.pc[2] ELSE f.pc[2] - 1) % Word>>

\* The types of a frame and the sizes that follow from them; the host gives
\* the values alone.
WithTypes(t, f, pc) ==
    LET Typed(types, values) ==
            [types |-> Array(Len(types), types), values |-> Array(Sum(types), values)]
    IN  [f EXCEPT !.locals = Typed(LocalTypes(t, pc[1]), @.values.contents),
                  !.value_stack = Typed(TypeStack(StackTable(t, pc[1], pc[2])), @.values.contents)]

\* The frames of the program hold arrays of the sizes that they state, and its
\* own table knows their types.
ASSUME FramesAssumption ==
    \A top \in BOOLEAN : \A f \in IF top THEN Tops ELSE Callers :
        LET pc == Position(f, top)
        IN  Sized(f) /\ (Known(Right, pc[1], pc[2]) => WithTypes(Right, f, pc) = f)

TypedAt(i)       == Position(program.stack[i], i = Len(program.stack))
TypedFrame(t, i) == WithTypes(t, program.stack[i], TypedAt(i))

-----------------------------------------------------------------------------
(* Checkpoint: a call opens or rewinds the file (Start...), stdio writes   *)
(* out what does not fit its buffer (Spill), and the rest is flushed.      *)

\* via: a FILE* of the call's own, or the cached one.
Begin(n, via) ==
    /\ call' = [image |-> n, words |-> Words(n), rest |-> Words(n), via |-> via]
    /\ saved' = saved \ {n}

\* The file is emptied.
Emptied(n, words) ==
    /\ disk' = [disk EXCEPT ![n] = <<>>]
    /\ lost' = lost \ {n}
    /\ asked' = IF n = "stack" THEN words ELSE asked

\* wasmig_checkpoint_global and _global_v2: fopen(..., "wb").
StartGlobal ==
    /\ Idle /\ "global" \in host
    /\ Begin("global", "fresh") /\ Emptied("global", Words("global"))
    /\ UNCHANGED <<program, stream, tables>>

\* wasmig_checkpoint_stack_v3 looks up the types of one frame after the other,
StartTyping ==
    /\ Idle /\ "stack" \in host
    /\ call' = [image |-> "stack", words |-> <<>>, rest |-> <<>>, via |-> "typing"]
    /\ saved' = saved \ {"stack"}
    /\ UNCHANGED <<program, disk, stream, tables, lost, asked>>

Typing == call # None /\ call.via = "typing"
Typed  == Len(call.words) \div 2

TypeFrame ==
    /\ Typing /\ Typed < Len(program.stack)
    /\ Table # None /\ Known(Table, TypedAt(Typed + 1)[1], TypedAt(Typed + 1)[2])
    /\ cache' = Table
    /\ call' = [call EXCEPT !.words = @ \o Serialized(<<TypedFrame(Table, Typed + 1)>>)]
    /\ UNCHANGED <<program, disk, stream, tableFile, host, saved, lost, asked>>

\* Mutant: the file is opened before the types are looked up.
OpenTypedEarly ==
    /\ Typing
    /\ Emptied("stack", call.words)
    /\ call' = [call EXCEPT !.rest = @, !.via = IF Typed = Len(program.stack) THEN "fresh" ELSE "typing"]
    /\ UNCHANGED <<program, stream, tables, saved>>

\* and opens the file when it has them all: fopen(..., "wb").
OpenTyped ==
    /\ Typing /\ Typed = Len(program.stack)
    /\ \/ /\ Emptied("stack", call.words)
          /\ call' = [call EXCEPT !.rest = call.words, !.via = "fresh"]
       \/ call' = None /\ UNCHANGED <<disk, lost, asked>>
    /\ UNCHANGED <<program, stream, tables, saved>>

\* wasmig_checkpoint_pc and _stack_v4, first call in a process:
\* fopen(..., "w+b").  The call may still fail, at ftruncate.
StartCached(n) ==
    /\ Idle /\ n \in host /\ stream[n] = "closed"
    /\ stream' = [stream EXCEPT ![n] = "open"]
    /\ Emptied(n, Words(n))
    /\ \/ Begin(n, "open")
       \/ n = "stack" /\ saved' = saved \ {n} /\ UNCHANGED call
    /\ UNCHANGED <<program, tables>>

\* wasmig_checkpoint_pc, later calls: the file keeps its two words.
RewindPc ==
    /\ Idle /\ stream["pc"] # "closed"
    /\ Begin("pc", stream["pc"])
    /\ UNCHANGED <<program, disk, stream, tables, lost, asked>>

\* Mutant: the call stack is rewound and not truncated.
TruncateStackNot ==
    /\ Idle /\ stream["stack"] # "closed"
    /\ Begin("stack", stream["stack"])
    /\ UNCHANGED <<program, disk, stream, tables, lost, asked>>

\* wasmig_checkpoint_stack_v4, later calls: rewind and ftruncate.
TruncateStack ==
    /\ Idle /\ stream["stack"] # "closed"
    /\ Begin("stack", stream["stack"])
    /\ IF stream["stack"] = "open" THEN Emptied("stack", Words("stack"))
                                   ELSE UNCHANGED <<disk, lost, asked>>
    /\ UNCHANGED <<program, stream, tables>>

\* fopen, or ftruncate of an open file, fails: -1.
StartFails(n) ==
    /\ Idle /\ n \in host /\ (n = "pc" => stream[n] = "closed")
    /\ saved' = saved \ {n}
    /\ UNCHANGED <<program, disk, stream, call, tables, lost, asked>>

\* words reach the file, after those the call has written already, in place
\* of what is there.
Reach(words) ==
    LET n    == call.image
        done == Len(call.words) - Len(call.rest)
        old  == disk[n]
    IN  disk' = IF call.via = "gone" THEN disk
                ELSE [disk EXCEPT ![n] =
                         SubSeq(old, 1, done) \o words
                         \o SubSeq(old, done + Len(words) + 1, Len(old))]

Writing == call # None /\ ~Typing

\* Mutant: the two words are flushed one by one.
SpillPcToo ==
    /\ Writing
    /\ \E k \in 1..Len(call.rest) :
         /\ Reach(SubSeq(call.rest, 1, k))
         /\ call' = [call EXCEPT !.rest = SubSeq(@, k + 1, Len(@))]
    /\ UNCHANGED <<program, stream, tables, saved, lost, asked>>

\* The eight bytes of the pc stay in the buffer until they are flushed.
Spill ==
    /\ Writing /\ call.image # "pc"
    /\ \E k \in 1..Len(call.rest) :
         /\ Reach(SubSeq(call.rest, 1, k))
         /\ call' = [call EXCEPT !.rest = SubSeq(@, k + 1, Len(@))]
    /\ UNCHANGED <<program, stream, tables, saved, lost, asked>>

\* fflush or fclose; return 0.
Finish ==
    /\ Writing
    /\ Reach(call.rest)
    /\ lost' = IF call.via # "gone" THEN lost \ {call.image} ELSE lost
    /\ saved' = saved \cup {call.image}
    /\ call' = None
    /\ UNCHANGED <<program, stream, tables, asked>>

\* Nobody looks at fflush and fclose, nor at fwrite but in _stack_v4: a part
\* is written, return 0.
FinishShort ==
    /\ Writing
    /\ \E part \in Prefix(call.rest) \ {call.rest} : Reach(part)
    /\ lost' = IF call.via # "gone" THEN lost \cup {call.image} ELSE lost
    /\ saved' = saved \cup {call.image}
    /\ call' = None
    /\ UNCHANGED <<program, stream, tables, asked>>

\* fwrite fails in wasmig_checkpoint_pc or _stack_v4: return -1.
FillFails ==
    /\ Writing /\ call.via # "fresh"
    /\ \E part \in Prefix(call.rest) :
          (call.image = "pc" => part = <<>>) /\ Reach(part)
    /\ call' = None
    /\ UNCHANGED <<program, stream, tables, saved, lost, asked>>

Next ==
    \/ Boot \/ Resume \/ Run \/ Die \/ TakeAway \/ Recompile
    \/ LoadTables
    \/ StartGlobal
    \/ StartTyping \/ TypeFrame \/ OpenTyped
    \/ \E n \in Cached : StartCached(n)
    \/ RewindPc \/ TruncateStack
    \/ \E n \in Image : StartFails(n)
    \/ Spill \/ Finish \/ FinishShort \/ FillFails

Spec == Init /\ [][Next]_vars

-----------------------------------------------------------------------------
(* Properties *)

Restores(n) ==
    CASE n = "pc"     -> \A p \in RestoredPc(disk["pc"]) :
                            /\ p[1] = program.pc[1]
                            /\ p[2] % Word = program.pc[2] % Word
      [] n = "global" -> RestoredGlobals(disk["global"]) = {program.global}
      [] n = "stack"  -> RestoredStack(disk["stack"]) = {program.stack}

\* A process that runs with the table of another program saves frames of
\* wrong sizes.
WrongTable == cache \notin {None, Right} \/ program.stack \notin Stacks

\* What a checkpoint returned 0 for is what a restore brings back, until the
\* program runs on: through the message and its sizes, in place of longer and
\* shorter images of earlier calls, of other processes and of the other
\* checkpoint function of the same image, and wherever those died or failed.
\* Excepted are an unchecked write that failed, a stream whose file was taken
\* away, and call stacks typed with a wrong table.  Of the pc the lower half
\* of the offset is meant: the upper half is undefined.
SavedRestores ==
    \A n \in saved \ lost :
        \/ n \in Cached /\ stream[n] = "gone"
        \/ n = "stack" /\ WrongTable
        \/ Restores(n)

\* Once a process has written a program counter, the image is replaced as a
\* whole: whenever the process dies it leaves the pc of one call, and not
\* the function of one with the offset of another.
PcReplacedWhole ==
    [][/\ stream["pc"] = "open" /\ disk["pc"] # <<>>
       /\ "pc" \notin lost \cup lost'
       => disk'["pc"] \in {disk["pc"], None, Words("pc")}]_vars

\* call_stack.img never holds frames of two checkpoints: whatever died or
\* failed, it is the beginning of what the last call was to write.
StackOfOneCall ==
    disk["stack"] # None => disk["stack"] \in Prefix(asked)

\* All frames of one call are typed by one table, although the file may be
\* replaced between two of them: none has the sizes of another program.
TypedByOneTable ==
    Typing =>
        \E t \in Tables : \A i \in 1..Typed :
            /\ Known(t, TypedAt(i)[1], TypedAt(i)[2])
            /\ call.words[2 * i] = FromEntry(TypedFrame(t, i))

\* A checkpoint that cannot type one of its frames, be it the table or the
\* position that is missing, leaves the call stack of an earlier one as it is.
TypingKeepsImage ==
    [][Typing /\ Typed < Len(program.stack) => disk' = disk]_vars

\* A buffer of the host that has fewer slots than the table in use says:
\* nobody compares them.
Short(a) == Len(a.values.contents) < a.values.size

\* wasmig_checkpoint_stack_v3 prints the frames that it has typed, the values
\* from the buffers of the host.  Neither its printer nor those of debug.cpp
\* read past the end of one, whatever the types, the two slots of a wide value
\* included.  Excepted are the buffers of a process with the table of another
\* program, or with a call stack that is not the program's, which are too
\* short for the size that the table gives them: those are read past the end.
PrintersInBounds ==
    Typing => \A i \in 1..Typed :
        LET f == TypedFrame(cache, i)
        IN  \A a \in {f.locals, f.value_stack} :
                \/ WrongTable /\ Short(a)
                \/ InBounds(a, PrintedTypedArray(a)) /\ InBounds(a, PrintedArray32(a))

\* get_stack_size counts the 32-bit slots of a value stack, not its values,
\* and get_result_size those of the call results on top, at every position
\* of the table in use.
SlotsCounted ==
    cache # None => \A f \in DOMAIN cache : \A o \in DOMAIN cache[f].at :
        LET stack   == StackTable(cache, f, o)
            slots   == {s \in (DOMAIN stack) \X (1..4) : s[2] <= stack[s[1]].ty}
            results == {s \in slots : \A i \in s[1]..Len(stack) : stack[i].opcode = "Call"}
        IN  StackSize(stack) = Cardinality(slots) /\ ResultSize(stack) = Cardinality(results)

\* prev_pc and next_pc step to the neighbouring offset of the function, by the
\* table in use; both stay at the first offset, and at an offset that the
\* table does not have, as that of a restored pc whose upper half is
\* undefined.  What follows the last offset is left open.
StepsToNeighbour ==
    cache # None => \A f \in DOMAIN cache, o \in 0..2 * Word - 1 :
        LET offsets == DOMAIN cache[f].at
            below   == {p \in offsets : p < o}
            above   == {p \in offsets : p > o}
        IN  /\ PrevPc(cache, <<f, o>>) =
                  {<<f, IF o \in offsets /\ below # {} THEN Sets!Max(below) ELSE o>>}
            /\ \/ o \in offsets /\ below # {} /\ above = {}
               \/ NextPc(cache, <<f, o>>) =
                     {<<f, IF o \in offsets /\ below # {} THEN Sets!Min(above) ELSE o>>}

=============================================================================
