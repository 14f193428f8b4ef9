----------------------------- MODULE MemoryImage -----------------------------
(***************************************************************************)
(* The two files of a linear-memory image, memory.img and                  *)
(* mem_page_count.img, and how src/restore.cpp reads them.                 *)
(*                                                                         *)
(* A memory is a sequence of chunks of 4096 bytes.  A file is a sequence   *)
(* of words, a word being a uint32_t or the data of one chunk; a file cut  *)
(* inside a word reads as a file cut before it: fread of an index that is  *)
(* cut returns 0 at EOF, fread of a chunk that is cut comes out short.     *)
(***************************************************************************)
EXTENDS Naturals, Sequences

CONSTANTS
    Value,          \* contents of a chunk
    Zero,           \* the chunk with 4096 zero bytes
    None,           \* no file, no image, no process, a failed call
    ChunksPerPage,  \* WASM_PAGE_SIZE / kMemoryChunkSize (16)
    MaxPages,       \* bound: pages of a linear memory (65536 for Wasm)
    SizeLimit,      \* chunks a uint32_t can count the bytes of (2^20)
    V1, V2          \* kSparseMemoryFormatV1, kSparseMemoryFormatV2

\* The markers are not page counts, nor near them; pages are a whole number of
\* chunks, and so are the bytes a uint32_t can count.
ASSUME ImageAssumption ==
    /\ Zero \in Value
    /\ ChunksPerPage \in Nat \ {0} /\ MaxPages \in Nat
    /\ SizeLimit \in Nat \ 0..1 /\ SizeLimit % ChunksPerPage = 0
ASSUME MarkerAssumption ==
    V1 \in Nat \ 0..2 * MaxPages /\ V2 \in Nat \ 0..2 * MaxPages /\ V1 # V2
\* None is none of the things that stand in its place.
ASSUME NoneAssumption ==
    /\ None \notin Seq(Value \cup Nat) /\ None \notin [format : Nat, pages : Nat]
    /\ \A D \in SUBSET (0..MaxPages * ChunksPerPage) : None \notin [D -> Value]

Memories == UNION {[1..n * ChunksPerPage -> Value] : n \in 0..MaxPages}
Zeros(n) == [i \in 1..n |-> Zero]

\* inspect_memory_image, wasmig_memory_image_info: what mem_page_count.img
\* says, None if it is refused.  Four bytes are the page count of a legacy
\* dense image, eight a format marker and the page count.
Info(meta) ==
    IF meta = None THEN None
    ELSE IF Len(meta) = 1 THEN [format |-> 0, pages |-> meta[1]]
    ELSE IF Len(meta) = 2 /\ meta[1] \in {V1, V2}
         THEN [format |-> meta[1], pages |-> meta[2]]
    ELSE None

\* The legacy branch of wasmig_visit_memory_chunks: chunk index -> data, or
\* None if the size of the file is not that of the memory.
DenseChunks(file, capacity) ==
    IF Len(file) # capacity THEN None
    ELSE [i \in 0..capacity - 1 |-> file[i + 1]]

\* Its sparse branches.  A V1 record is an index and one chunk; a V2 record
\* an index, a count and that many chunks.
Header(format) == IF format = V1 THEN 1 ELSE 2
Count(file, format, p) ==
    IF format = V1 THEN 1 ELSE IF p < Len(file) THEN file[p + 1] ELSE 0
After(file, format, p) == p + Header(format) + Count(file, format, p)

\* EOF before an index ends the image; any other short read, an empty extent,
\* or one that ends beyond the capacity refuses it.
Good(file, format, capacity, p) ==
    /\ Count(file, format, p) \in 1..Len(file) + 1 - p - Header(format)
    /\ file[p] + Count(file, format, p) <= capacity

\* Where the records begin that are read.
RecordsOf(file, format, capacity) ==
    LET end == Len(file) + 1
        From[p \in 1..end] ==
            IF p = end THEN {}
            ELSE {p} \cup IF Good(file, format, capacity, p)
                          THEN From[After(file, format, p)] ELSE {}
    IN  From[1]

\* The chunks that one record sets: the visitor is given the length in bytes,
\* a uint32_t.
Sets(file, format, p) ==
    file[p]..file[p] + (Count(file, format, p) % SizeLimit) - 1

\* The last record that sets chunk i: later ones overwrite earlier ones.
Setter(file, format, records, i) ==
    CHOOSE p \in records :
        /\ i \in Sets(file, format, p)
        /\ \A q \in records : i \in Sets(file, format, q) => q <= p

SparseChunks(file, format, capacity) ==
    LET records == RecordsOf(file, format, capacity)
    IN  IF \A p \in records : Good(file, format, capacity, p)
        THEN [i \in UNION {Sets(file, format, p) : p \in records} |->
                 LET p == Setter(file, format, records, i)
                 IN  file[p + Header(format) + i - file[p]]]
        ELSE None

\* wasmig_visit_memory_chunks
VisitedChunks(file, info) ==
    IF file = None \/ info = None THEN None
    ELSE IF info.format = 0
         THEN DenseChunks(file, info.pages * ChunksPerPage)
         ELSE SparseChunks(file, info.format, info.pages * ChunksPerPage)

\* wasmig_restore_memory_into: the destination after the call, None if it
\* returns -1.  Chunks that are not in the image keep what dst held.
RestoredInto(dst, file, meta) ==
    LET info   == Info(meta)
        chunks == VisitedChunks(file, info)
    IN  IF chunks = None THEN None
        ELSE IF Len(dst) < info.pages * ChunksPerPage THEN None
        ELSE [i \in DOMAIN dst |->
                 IF i - 1 \in DOMAIN chunks THEN chunks[i - 1] ELSE dst[i]]

\* What an image holds: the memory it restores to in a zeroed buffer that is
\* just large enough.
Contents(file, meta) ==
    IF Info(meta) = None THEN None
    ELSE IF VisitedChunks(file, Info(meta)) = None THEN None
    ELSE RestoredInto(Zeros(Info(meta).pages * ChunksPerPage), file, meta)

\* wasmig_restore_memory: that memory, as far as Array8.size, a uint32_t,
\* says it reaches.
RestoredMemory(file, meta) ==
    LET contents == Contents(file, meta)
    IN  IF contents = None THEN None
        ELSE SubSeq(contents, 1, Len(contents) % SizeLimit)

=============================================================================
