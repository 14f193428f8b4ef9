--------------------------- MODULE MemoryCheckpoint ---------------------------
(***************************************************************************)
(* Checkpoint and restore of the linear memory, wasmig_checkpoint_memory   *)
(* of src/checkpoint.cpp and the restore functions of src/restore.cpp,     *)
(* with a process that may die between any two steps.                      *)
(*                                                                         *)
(* Both files are written through stdio buffers.  The buffer of memory.img *)
(* reaches the file as it fills; the eight bytes of mem_page_count.img     *)
(* never fill theirs and reach the file when it is closed.                 *)
(***************************************************************************)
EXTENDS MemoryImage, Integers

ASSUME ResultAssumption == None \notin {0, -1}

VARIABLES
    memory,     \* linear memory of the process, None if no process runs
    memImg,     \* memory.img, None if there is no such file
    sizeImg,    \* mem_page_count.img
    step,       \* how far wasmig_checkpoint_memory has come
    opened,     \* mem_fp is not NULL
    offset,     \* chunks it has looked at
    buffer,     \* words in the buffer of mem_fp
    result,     \* what the last call returned, None while it runs
    lost        \* an fclose has failed to write since memory.img was
                \*   truncated (no code looks at what fclose returns)

files   == <<memImg, sizeImg>>
running == <<step, opened, offset, buffer>>
vars    == <<memory, files, running, result, lost>>

Pages     == Len(memory) \div ChunksPerPage
Prefix(s) == {SubSeq(s, 1, n) : n \in 0..Len(s)}

TypeOK ==
    /\ memory \in Memories \cup {None}
    /\ memImg = None \/ \A i \in DOMAIN memImg :
          memImg[i] \in Value \cup (0..MaxPages * ChunksPerPage)
    /\ sizeImg = None \/ sizeImg \in Seq({V1, V2} \cup (0..MaxPages))
    /\ step \in {"idle", "opened", "dump", "close", "closeSize"}
    /\ opened \in BOOLEAN
    /\ IF step = "idle" THEN buffer = <<>> /\ offset = 0
                        ELSE memory # None /\ offset \in 0..Len(memory)
    /\ result \in {None, 0, -1}
    /\ lost \in BOOLEAN

-----------------------------------------------------------------------------
(* Images that other writers leave: dense ones of old releases, and V2     *)
(* images with one extent for each chunk in use, or one for the memory.    *)

V2Chunks(m) ==
    LET Upto[i \in 0..Len(m)] ==
            IF i = 0 THEN <<>>
            ELSE Upto[i - 1] \o IF m[i] = Zero THEN <<>> ELSE <<i - 1, 1, m[i]>>
    IN  Upto[Len(m)]

Extent(m) == IF m = <<>> THEN <<>> ELSE <<0, Len(m)>> \o m

OtherImages(m) ==
    LET pages == Len(m) \div ChunksPerPage
    IN  {[file |-> m,           meta |-> <<pages>>],
         [file |-> V2Chunks(m), meta |-> <<V2, pages>>],
         [file |-> Extent(m),   meta |-> <<V2, pages>>]}

Init ==
    /\ memory = None
    /\ \/ memImg = None /\ sizeImg = None
       \/ \E m \in Memories : \E image \in OtherImages(m) :
             memImg = image.file /\ sizeImg = image.meta
    /\ step = "idle" /\ opened = FALSE /\ offset = 0 /\ buffer = <<>>
    /\ result = None /\ lost = FALSE

-----------------------------------------------------------------------------
(* The process: it starts from zeros or restores, runs, and may die.       *)

Boot(n) ==
    /\ memory = None
    /\ memory' = Zeros(n * ChunksPerPage)
    /\ result' = None
    /\ UNCHANGED <<files, running, lost>>

\* wasmig_restore_memory: the host takes the memory it returns.
Restore ==
    /\ memory = None
    /\ memory' = RestoredMemory(memImg, sizeImg)
    /\ result' = IF memory' = None THEN -1 ELSE 0
    /\ UNCHANGED <<files, running, lost>>

\* wasmig_memory_image_info, then wasmig_restore_memory_into a zeroed buffer
\* of n chunks.  The host takes as many pages as the image says.
RestoreInto(n) ==
    /\ memory = None
    /\ LET dst == RestoredInto(Zeros(n), memImg, sizeImg)
       IN  IF dst = None THEN memory' = None /\ result' = -1
           ELSE /\ memory' = SubSeq(dst, 1, Info(sizeImg).pages * ChunksPerPage)
                /\ result' = 0
    /\ UNCHANGED <<files, running, lost>>

\* The program stores into a chunk, or grows its memory by a page.
Store(i, v) ==
    /\ step = "idle" /\ memory # None
    /\ i \in DOMAIN memory /\ memory' = [memory EXCEPT ![i] = v]
    /\ result' = None
    /\ UNCHANGED <<files, running, lost>>

Grow ==
    /\ step = "idle" /\ memory # None
    /\ Pages < MaxPages /\ memory' = memory \o Zeros(ChunksPerPage)
    /\ result' = None
    /\ UNCHANGED <<files, running, lost>>

Die ==
    /\ memory # None
    /\ memory' = None
    /\ step' = "idle" /\ opened' = FALSE /\ offset' = 0 /\ buffer' = <<>>
    /\ result' = None
    /\ UNCHANGED <<files, lost>>

-----------------------------------------------------------------------------
(* wasmig_checkpoint_memory                                                *)

Return(r) ==
    /\ step' = "idle" /\ opened' = FALSE /\ offset' = 0 /\ buffer' = <<>>
    /\ result' = r

\* fopen("memory.img", "wb"): truncates the file, or fails.  The code looks
\* at mem_fp only after the second fopen.
OpenMemory ==
    /\ step = "idle" /\ memory # None
    /\ \/ opened' = TRUE /\ memImg' = <<>>
       \/ opened' = FALSE /\ UNCHANGED memImg
    /\ step' = "opened" /\ result' = None
    /\ lost' = (lost /\ ~opened')
    /\ UNCHANGED <<memory, sizeImg, offset, buffer>>

\* fopen("mem_page_count.img", "wb"), and the check of both pointers.
OpenSize ==
    /\ step = "opened"
    /\ \/ /\ sizeImg' = <<>>
          /\ IF opened
             THEN step' = "dump" /\ UNCHANGED <<opened, offset, buffer, result>>
             ELSE Return(-1)
       \/ UNCHANGED sizeImg /\ Return(-1)
    /\ UNCHANGED <<memory, memImg, lost>>

Dumping == step = "dump" /\ offset < Len(memory)
Chunk   == memory[offset + 1]
Record  == <<offset, Chunk>>

\* One chunk: zero chunks are skipped, others appended with their index.
Dump ==
    /\ Dumping
    /\ buffer' = IF Chunk = Zero THEN buffer ELSE buffer \o Record
    /\ offset' = offset + 1
    /\ UNCHANGED <<memory, files, step, opened, result, lost>>

\* The buffer of mem_fp reaches the file, as it fills.
Flush ==
    /\ step = "dump"
    /\ \E n \in 1..Len(buffer) :
          /\ memImg' = memImg \o SubSeq(buffer, 1, n)
          /\ buffer' = SubSeq(buffer, n + 1, Len(buffer))
    /\ UNCHANGED <<memory, sizeImg, step, opened, offset, result, lost>>

\* Mutant: fwrite is not checked, and the loop goes on.
DumpFailsIgnored ==
    /\ Dumping /\ Chunk # Zero
    /\ \E part \in Prefix(buffer) : memImg' = memImg \o part
    /\ buffer' = <<>>
    /\ offset' = offset + 1
    /\ UNCHANGED <<memory, sizeImg, step, opened, result, lost>>

\* fwrite of a chunk fails; fclose of both files, return -1.
DumpFails ==
    /\ Dumping /\ Chunk # Zero
    /\ \E part \in Prefix(buffer \o Record) : memImg' = memImg \o part
    /\ Return(-1)
    /\ UNCHANGED <<memory, sizeImg, lost>>

\* Mutant: the last chunk is not looked at.
WriteSizeEarly ==
    /\ step = "dump" /\ offset >= Len(memory) - 1
    /\ step' = "close"
    /\ UNCHANGED <<memory, files, opened, offset, buffer, result, lost>>

\* After the loop: marker and page count go to the buffer of mem_size_fp.
WriteSize ==
    /\ step = "dump" /\ offset = Len(memory)
    /\ step' = "close"
    /\ UNCHANGED <<memory, files, opened, offset, buffer, result, lost>>

\* That fwrite fails, after the marker or before; fclose of both, return -1.
WriteSizeFails ==
    /\ step = "dump" /\ offset = Len(memory)
    /\ \E part \in Prefix(buffer) : memImg' = memImg \o part
    /\ sizeImg' \in {<<>>, <<V1>>}
    /\ Return(-1)
    /\ UNCHANGED <<memory, lost>>

\* fclose writes what is left in the buffer out, or only a part of it.
Closed(written, words) ==
    /\ written \in Prefix(words)
    /\ lost' = (lost \/ written # words)

\* Mutant: mem_page_count.img is closed first.
CloseSizeFirst ==
    /\ step = "close"
    /\ sizeImg' = <<V1, Pages>>
    /\ step' = "closeSize"
    /\ UNCHANGED <<memory, memImg, opened, offset, buffer, result, lost>>

\* fclose(mem_fp)
CloseMemory ==
    /\ step = "close"
    /\ \E words \in Prefix(buffer) :
          Closed(words, buffer) /\ memImg' = memImg \o words
    /\ buffer' = <<>> /\ step' = "closeSize"
    /\ UNCHANGED <<memory, sizeImg, opened, offset, result>>

\* Mutant: the number of chunks is written, not of pages.
CloseSizeInChunks ==
    /\ step = "closeSize"
    /\ sizeImg' \in Prefix(<<V1, Len(memory)>>)
    /\ Closed(sizeImg', <<V1, Len(memory)>>)
    /\ Return(0)
    /\ UNCHANGED <<memory, memImg>>

\* fclose(mem_size_fp); return 0
CloseSize ==
    /\ step = "closeSize"
    /\ sizeImg' \in Prefix(<<V1, Pages>>)
    /\ Closed(sizeImg', <<V1, Pages>>)
    /\ Return(0)
    /\ UNCHANGED <<memory, memImg>>

Next ==
    \/ \E n \in 0..MaxPages : Boot(n)
    \/ Restore
    \/ \E n \in 0..MaxPages * ChunksPerPage : RestoreInto(n)
    \/ \E i \in 1..MaxPages * ChunksPerPage, v \in Value : Store(i, v)
    \/ Grow \/ Die
    \/ OpenMemory \/ OpenSize \/ Dump \/ Flush \/ DumpFails
    \/ WriteSize \/ WriteSizeFails \/ CloseMemory \/ CloseSize

Spec == Init /\ [][Next]_vars

-----------------------------------------------------------------------------
Image == Contents(memImg, sizeImg)

Abstract == INSTANCE ImageStore WITH image <- Image, cut <- lost

\* Whenever the process dies, and whichever call fails, a restore brings back
\* the memory of the last completed checkpoint or fails: the page count is
\* what makes an image valid, and it is written last.  There are two
\* exceptions.  A process that dies, or an fopen that fails, after memory.img
\* has been truncated and before mem_page_count.img has, leaves an image that
\* restores to zeros; and an fclose that fails to write loses chunks.
ImplementsImageStore == Abstract!Spec

Completes == step = "closeSize" /\ result' = 0

\* After wasmig_checkpoint_memory returned 0 a restore reconstructs the
\* memory, unless an fclose has failed: chunks that are skipped, buffered,
\* or written in parts come together for every memory, whatever its last
\* chunk, and whatever image the files held before.
CheckpointDurable == [][Completes /\ ~lost' => Image' = memory]_vars

\* If fclose did lose writes, the image is refused or is that memory with
\* zeros from some chunk on: never a hole, never the data of another chunk.
LostTailOnly ==
    [][Completes =>
          \/ Image' = None
          \/ \E n \in 0..Len(memory) :
                Image' = SubSeq(memory, 1, n) \o Zeros(Len(memory) - n)]_vars

\* tests/test_memory.cpp: after "ASSERT_EQ(wasmig_checkpoint_memory(...), 0)"
\* the restored bytes are those of the memory.
SuccessMeansSaved == [][Completes => Image' = memory]_vars

\* tests/test_memory.cpp: the array that wasmig_restore_memory returns has
\* the size of the memory that was saved.
RestoreComplete == [][Restore /\ result' = 0 => memory' = Image]_vars

=============================================================================
