# wasmig: models, checks and proofs

wasmig is a C++ library with which a WebAssembly runtime saves a running
program and brings it back, possibly in another process or another runtime.
This directory holds TLA+ models of its parts, TLC configurations that check
them on small instances, and theorems checked by TLAPS for every instance.
Paths below are relative to the root of the repository.

    tlc -config MCRefStack.cfg MCRefStack.tla      model-checks one instance
    tlapm RefStackProofs.tla                       checks the proofs of a module

## 1. The system

### Components

| component | source | state | operations |
| --- | --- | --- | --- |
| persistent stack | `src/stack.cpp` 14-157 | nodes with `next`, `value`, `ref_count`; one static empty stack that is never counted | create, empty, push, pop, top, size, destroy |
| stack iterator | `src/stack.cpp` 159-210, 325- | one retained pointer | create, next, destroy; `foreach`, `count_stack_entries` |
| StackStateMap | `src/stack.cpp` 43-64, 212-323 | key -> (address stack, type stack), one reference each | create, save, load, exists, remove, destroy |
| registries | `src/registry.cpp` | function id -> StackStateMap; one address map; one forbidden list; all plain pointers | save, load, exists, clear |
| address map | `src/table_v3.cpp` 15-176 | two hash maps, `kv` and `vk` | set_bidirect, set_forward, set_backward, remove, the lookups |
| forbidden list | `src/table_v3.cpp` 178-280 | a set of positions | add, remove, contains |
| state queue | `src/table_v3.cpp` 281-400 | a FIFO of positions with a flag | enqueue, dequeue, confirm_pending |
| memory checkpoint | `src/checkpoint.cpp` 22-139 | `memory.img`, `mem_page_count.img`, their stdio buffers | wasmig_checkpoint_memory |
| memory restore | `src/restore.cpp` 1-341 | none | image_info, visit_memory_chunks, restore_memory_into, restore_memory |
| pc, globals, call stack images | `src/checkpoint.cpp` 141-285, `src/restore.cpp` 343-415 | three more files, two of them behind a `FILE*` cached for the life of the process | checkpoint and restore of each |
| serialization | `src/state.cpp`, `proto/` | none | arrays and call stacks to and from protobuf |
| code positions | `src/codepos.cpp` | none | prev_pc, next_pc over an offset list |
| stack tables | `src/stack_tables.cpp`, `wcrn/` (Rust) | one table, cached for the life of the process by the first load that succeeds | types of locals and of the value stack at a position, slot and result sizes, offset lists |
| printers | `src/debug.cpp`, `src/state.cpp` 283-366 | none | print typed arrays and call stacks |

### How they interact

A compiling runtime drives the tables: it pushes onto stacks as it compiles,
saves pairs of stacks per instruction in a StackStateMap, enqueues positions
whose state is not decided yet and confirms them later, and links native
addresses to positions in the address map. Maps are found again through the
registries. `wasmig_load_metadata_stacks` loads a map from the registry and a
pair of stacks from the map; `wasmig_forbidden_list_contains` tells whether an
address of the registered list may be a checkpoint. At a migration the runtime calls the checkpoint
functions one after the other, dies or goes on, and another process calls the
restore functions. `wasmig_checkpoint_stack_v3` asks the stack tables for the
types of every frame; the Rust reader loads `stack-table.msgpack` from the
current directory once, and panics, which ends the process, if it is missing or
does not know the position. Everything is called from one thread and there are no locks;
what runs interleaved is

* the client and the walk of a `foreach`, whose callback may call any function;
* the steps of one call and the death of the process;
* the steps of one call and an allocation or file operation that fails;
* the steps of one call and another program that replaces or removes the files.

### What is hard

* Reference counts over shared nodes: every push, pop, iterator step and map
  operation moves references, `save_pair` releases the old pair *before* it
  retains the new one, a release is recursive, and malloc reuses addresses.
* Two hash maps that are written one after the other, and may disagree after a
  shared address, a one-way setter or a bad_alloc in between.
* A queue that is searched by emptying it into another one.
* Pointers in registries that nobody tells about a destroy.
* An image that consists of two files, written through two stdio buffers by a
  process that may die.
* Two caches for the life of a process, of a `FILE*` and of a table, over files
  that change or disappear meanwhile.
* Values of one, two or four slots: sizes count values here and slots there, and
  arrays carry sizes that nothing ties to their buffers.

`PROJECT.json` lists every such hazard at its line with the properties that
cover it, or the reason why none does.

### What makes each part correct

* Stacks, iterators, map: counts equal references in every state, nothing
  reachable is freed, nothing unreachable stays, and to the client a stack is an
  immutable value.
* Address map: a lookup by address is never stale; a position is lost only if
  its own address was given away.
* Registry: what was saved last and not cleared is what a load returns, alive,
  and a function and an offset lead to the pair that was saved there last.
* Queue: first in, first out, whatever confirm_pending does.
* Memory: a restore returns the memory of a completed checkpoint or fails.
* The other images: what a checkpoint returned 0 for comes back, and one that
  dies leaves the beginning of its own image and no mixture.
* Stack tables: the frames of one call are typed by one table.

## 2. The modules

| module | models | role |
| --- | --- | --- |
| `RefStack` | `src/stack.cpp`: stacks, iterators, the StackStateMap | detailed |
| `StackStore` | stacks as sequences, a map of pairs of sequences | abstract |
| `RefStackStore` | the refinement of `StackStore` by `RefStack`; `CallsReturn` | link |
| `RefStackProofs` | counts, safety and reclamation of `RefStack` | proofs |
| `RefStackStoreProofs` | the refinement of `StackStore` | proofs |
| `AddressMap`, `AddressMapProofs` | the address map of `src/table_v3.cpp` | detailed, proofs |
| `Registry` | `src/registry.cpp` and the destructors | detailed |
| `Metadata` | `Registry` with the contents of the objects: `wasmig_load_metadata_stacks`, the forbidden list | composition |
| `RegistryProofs` | `Registry` and `Metadata` | proofs |
| `StateQueue` | the queue of `src/table_v3.cpp` entry by entry | detailed |
| `Fifo` | a FIFO with marks | abstract |
| `StateQueueProofs` | the queue and its refinement of `Fifo` | proofs |
| `MemoryImage` | the decoders of `src/restore.cpp`, as operators | pure |
| `MemoryCheckpoint` | `wasmig_checkpoint_memory`, the process and its death | detailed |
| `ImageStore` | an image that is committed in one step | abstract |
| `MemoryProofs` | the decoders, the checkpoint and its refinement of `ImageStore` | proofs |
| `StackTables` | `src/stack_tables.cpp`, `src/codepos.cpp`, `wcrn/src/capi.rs`, as operators | pure |
| `CallStackCodec` | `src/state.cpp` and the printers of `src/debug.cpp`, as operators | pure |
| `ProcessImages` | program counter, globals and call stack, typed, saved and restored | detailed; extends the two above |
| `ProcessImagesProofs` | the three above | proofs |
| `Induction` | nothing: induction over the natural numbers | library of the proofs |
| `MC...` | constants and symmetry for TLC | |

### RefStack

`kind`, `next`, `value` and `ref` are the fields of the nodes; an address whose
kind is `free` belongs to malloc, which may hand it out again at any time.
`handle` and `iter` are the `Stack` and `StackIterator` variables of a client
that owns what it was given, and never destroys what it does not own. `slot`
and `present` are the hash map. A call that only retains is one step; one that
releases is `rel`, the argument of the running `stack_release`, one step
(`ReleaseStep`) for each activation, and `due`, the releases the call still has
to make. Only these steps can run until the call returns (`Idle`).

`ReleaseStep` frees the node before the recursion into `next`, which the code
does afterwards (line 40). No allocation happens in between and nothing points
to the node any more, so nothing can tell the difference.

A call that releases a pointer takes it out of the variable in the step that
starts the release, so a reference always has one place. `save_pair` for a
present key leaves its slots without pointer until `FinishSave`, where the code
leaves the two released pointers in the entry until it overwrites them; nothing
reads the entry in between.

`lost` counts references a client dropped by overwriting a variable, or that a
throwing `save_pair` left behind; no code reads it. A pop into the same variable
drops the reference to the popped node, as pop releases nothing. `MaxLost`
bounds it, so `MaxLost = 0` is a client that never overwrites an owned variable.
`AliasRoots` is the client that pops an empty, created stack into a second
variable and destroys both (see 6).

`StackStore` knows no nodes: a handle or an iterator holds a sequence, a key a
pair of sequences, and an operation changes the one it names and nothing else.
`RefStackStore` maps a pointer to the values along its chain. That `RefStack`
implements it says that sharing, counting and address reuse are invisible.

### AddressMap

`kv` and `vk` are the two `unordered_map`s, `Pack` and `Unpack` the 64-bit keys
with `Word` for 2^32. Any two positions may be given one address, any of the
setters may be used, and `SetBidirectThrows` is the bad_alloc between the two
writes. `loose` and `spoiled` record what was done to a key or an address, so
the properties can say who may be affected.

### Registry

`reg` holds the three registries, `own` the static map of `src/stack.cpp` that
the destructor consults and nobody fills. `births` tells objects apart that
lived at one address. `Careful` is a client that clears before it destroys.

### Metadata

Extends `Registry`: every step is a step of it, or leaves it alone. `kind` says
what an object was created as and `content` what its container holds, of either
kind: pairs (offset, stacks) of a StackStateMap, or addresses of a forbidden list.
Destroying an object leaves its memory as it is; creating one empties it.
`wrote` is what the client knows that it put in. `LoadMetadata` and `Contains`
are the two lookups, through the pointer that the registry has, whatever lives
there. The pairs themselves, their nodes and counts, are the subject of
`RefStack`; here they are values.

### StateQueue

`impl` and `temp` are the two `std::queue`s; `Move` is one turn of the loop of
`confirm_pending`, `CopyBack` its end, `EnqueueThrows` and `ConfirmThrows` an
allocation that fails: of a push, of `temp_queue` itself or of the copy. No code
reads `before`, the queue when the running `confirm_pending` was called, and
`call`, the last call and whether it caught an exception.

`Fifo` is the promise to the caller: call and result are part of its state. A
dequeue returns the oldest position and takes it out. A confirmation is called
and returns later, and nothing changes in between; when it returns, every
entry is in its place, those for the position are marked, other marks are as they
were, and the result says whether there was one. Only a call that caught an
exception may have dropped entries, the oldest, and it has changed no other.

### MemoryImage, MemoryCheckpoint, ImageStore

A memory is a sequence of chunks and a file a sequence of words (an index, a
count, a marker or the data of one chunk). `MemoryImage` decodes the three
formats the way `src/restore.cpp` does, short reads and later records that
overwrite earlier ones included. `MemoryCheckpoint` runs
`wasmig_checkpoint_memory` chunk by chunk: what stdio has buffered is lost when
the process dies, and reaches `memory.img` in any portions before; any fopen or
fwrite may fail, and so may an fclose that nobody checks, which `lost` records. `mem_page_count.img` is
small enough to stay in its buffer until it is closed, after `memory.img`: its
eight bytes are the commit marker, and this is what the refinement of
`ImageStore` rests on. V2 and dense images come from other writers, so the
files may hold one at the start.

### StackTables, CallStackCodec

A table maps a function to the types of its locals and, per offset, to typed
entries; a type is its size in slots. `Known` is the condition under which the
Rust reader does not panic; the offset loses its upper half on the way there.
`OffsetList` is the ascending list of the offsets, as the keys of an ordered map.
`PrevPc` and `NextPc` are sets of outcomes, since `next_pc` may read the word
behind the list.

In `CallStackCodec` a C array is a record of size and contents, and a message
field a sequence: `FromArray` copies `size` elements, what is missing is `Junk`.
A message has two words per entry, so it can be cut within one. `PrintedTypedArray`
and `PrintedArray32` are the sets of elements that the printers read, and
`InBounds` says that the buffers have them, whatever sizes are stated.

### ProcessImages

`disk` holds the three files as sequences of words, `stream` the two cached
`FILE*`s and `call` the checkpoint call in progress with what it still has to
write. `StartGlobal` opens with "wb" every time; `StartCached`, `RewindPc` and
`TruncateStack` keep their stream. `wasmig_checkpoint_stack_v3` is `StartTyping`,
one `TypeFrame` for each frame, and `OpenTyped`, which opens the file when all
types are known. `Spill` is stdio writing out what its buffer does not hold,
`Finish` the fflush or fclose, `FinishShort` one that fails unnoticed. The eight
bytes of a pc fit the buffer, so they reach the file together. `TakeAway` is a
host that moves the images or changes its directory: a cached stream is then
`gone` and writes where nobody reads.

`tableFile` is the table in the directory, `cache` the `OnceCell`. `Recompile`
replaces or removes the file at any time, between two frames too. A caller is
typed at `offset - 1`, which wraps at offset 0. A lookup that panics is a `Die` at
that point: `TypeFrame` is then not enabled.

`RestoredPc`, `RestoredGlobals` and `RestoredStack` are sets of outcomes, as what
the code leaves uninitialised may be anything: the upper half of every restored
offset, and all of a pc or of globals that the file does not hold. An empty set
is a crash. `saved`, `lost` and `asked` are read by the properties only.

## 3. The runs

Passing runs, with the distinct states TLC finds:

| run | instance | properties | states |
| --- | --- | --- | --- |
| `stack` | 3 nodes, 2 handles, 1 iterator, 1 key, 2 values | TypeOK, RefCountExact, NoDangling, Reclaimed, ImplementsStore | 473 424 |
| `stack_lossy` | 3 nodes, 2 handles, 1 key, one reference per node may be dropped | NoDangling, Reclaimed, ImplementsStore | 357 509 |
| `stack_keys` | 2 nodes, 2 handles, 2 keys, fairness | RefCountExact, Reclaimed, ImplementsStore, CallsReturn | 1 133 984 |
| `map` | 4 positions, 3 addresses | TypeOK, BackwardSound, ForwardSound | 132 856 |
| `registry` | 2 ids, 2 singletons, 3 objects with 2 lives each, 2 offsets, 2 pairs, 2 addresses | TypeOK, MetadataTypeOK, LoadIsSaved, MetadataIsSaved, ForbiddenRespected | 40 588 |
| `queue` | 2 positions, 4 entries, fairness | TypeOK, ImplementsFifo, ConfirmTruthful, ConfirmReturns | 3 585 |
| `memory` | 2 chunk values, 2 chunks per page, 2 pages | TypeOK, ImplementsImageStore, CheckpointDurable, LostTailOnly | 20 226 |
| `images` | words of 2 bits, 2 values of the globals, 2 tables, up to 2 frames | TypeOK, SavedRestores, StackOfOneCall, TypedByOneTable, PrintersInBounds, SlotsCounted, StepsToNeighbour, PcReplacedWhole, TypingKeepsImage | 132 979 |

What the properties say:

* `RefCountExact`: the count of a node in use is the number of references to
  it, in the middle of a release too.
* `NoDangling`: nothing a client, an iterator, an entry, a node or a release
  holds points to a freed node. This is also what `stack.h` says of iterators.
* `Reclaimed`: between calls every node in use is reached from something that is
  still owned, or from a reference in `lost`. The leaks by a pop into the same
  variable and by a throwing `save_pair` are in the model as such references; the
  property says that nothing else leaks.
* `ImplementsStore`: see above.
* `CallsReturn`: a recursive release and the loop of `map_destroy` end.
* `BackwardSound`: a position found for an address has that address.
* `ForwardSound`: the address of a position leads back to the position, unless
  that very position was given to a one-way setter or that very address to
  two positions or to a throwing call.
* `LoadIsSaved`: a load returns the object that was saved, alive, and not
  another one at the same address.
* `MetadataIsSaved`: a function and an offset lead to the pair that was saved
  there last in the map that is registered for the function; not to one of
  another function, of a map that lived at the address before, or of a map that
  `emplace` refused.
* `ForbiddenRespected`: an address is forbidden exactly if it is in the list that
  is registered.
* `ImplementsFifo`: a dequeue returns the oldest position; the rotation loses,
  reorders and unmarks nothing; a confirmation that threw, and no other call, has
  dropped entries, the oldest only.
* `ConfirmTruthful`: the result of confirm_pending is whether the position was
  waiting. `ConfirmReturns`: it returns.
* `ImplementsImageStore`: whenever the process dies and whichever call fails, a
  restore yields a committed memory or fails, with two exceptions (6, and
  what a failing fclose loses).
* `CheckpointDurable`: after a checkpoint returned 0, the image is the memory,
  unless an fclose failed.
* `LostTailOnly`: if fclose loses writes, the image is refused or has zeros from
  some chunk on; never a hole, never another chunk's data.
* `SavedRestores`: what a checkpoint of pc, globals or call stack returned 0 for
  is what a restore returns until the program runs on, whatever was in the file
  and whoever died or failed before, and through the message with its sizes;
  except after an unchecked write that failed, through a stream whose file is
  gone, or with the table of another program, whose sizes cut the frames.
* `PcReplacedWhole`: after the first pc of a process, a death never leaves half
  of one pc and half of another.
* `StackOfOneCall`: `call_stack.img` is a beginning of what one call wrote.
* `TypedByOneTable`: all frames of one call have the types of one table,
  although the file may be replaced between two of them.
* `TypingKeepsImage`: as long as types are looked up, and so when a lookup
  panics, the call stack of an earlier checkpoint stays.
* `PrintersInBounds`: what `_stack_v3` prints, and what the printers of
  `debug.cpp` would, is read inside the buffers of the host, before anything is
  copied into a message. Excepted is a buffer that has fewer slots than the table
  says, which only a process with a wrong table, or a restored call stack that is not
  the program's, can have: `checkpoint.cpp:213` takes the size from the table
  and nobody compares it with the buffer, so that one is read past its end.
* `SlotsCounted`: `get_stack_size` is the number of slots of the value stack,
  `get_result_size` that of the uninterrupted call results on top of it.
* `StepsToNeighbour`: `prev_pc` and `next_pc` step to the next lower and next
  higher offset that the table has; both stay at the first offset (`next_pc`
  has the test of `prev_pc`, `src/codepos.cpp:29`), and at an offset that is not
  listed. What `next_pc` returns for the last offset is undefined.

### Why the bounds are enough

Three nodes are the smallest heap with a chain of two below or above a shared
node, or with two stacks that share a third node; two handles and an iterator
reach one node by three owners, and the map by two more. With two keys the
order in which `map_destroy` visits them matters, and entries can share nodes.
Two values tell stacks of one length apart. With two function indices and two
offsets the halves of a packed key differ; three addresses are one shared, one
old and one new. Four queue entries over two positions give duplicates before, between and
after other entries. Two pages of two chunks have a first, a middle and a last
chunk, a page boundary, growth, and V2 extents of more than one chunk. With two
frames a call stack can be written over a longer and over a shorter one, and be
cut between frames and within one; with words of two bits both halves of a pc
change independently, the undefined half of an offset can be told, `offset - 1`
wraps to an offset that only one function of the tables has, and offset lists
have a first, a middle and a last element. The two tables disagree on the size
of the same positions, and the frames of the program have values of one, two
and four slots, with and without labels.

`Hosts` lets one host save pc and globals and another call stacks. The images
share the program, which no call changes, and `call`, of which there is one at a time: a call on one
image reads and writes its own file, stream, `saved` and `lost`, so a mixture of
all three adds states and no new step of any of them. Pc and globals are kept
together to have calls of two images alternate. The four objects of `Metadata`
that a client may register at a time (two functions, two singletons) compete
for three addresses of two lives each, so one is always missing or reused. The
proofs of section 5 remove these bounds where they apply.

### Fairness

`RefStack!FairSpec` is weak fairness of `Returning`, the steps of a running
call, and `StateQueue!FairSpec` that of `Move \/ CopyBack`: a running call is
sequential code of one thread and keeps going. Nothing is assumed of the client.

Deadlock is checked in every run: no part of the system ever stops.

## 4. Violations: where code and documents disagree

* `stack_alias`: `wasmig_stack_pop` of a created, empty stack returns its
  argument without a retain (`src/stack.cpp:105`), while any other result of
  a pop is owned by the caller. A client that destroys both frees the node under
  an iterator, which `stack.h:30-32` excludes.
* `registry_destroy`: destroying a registered StackStateMap leaves its pointer
  in the registry. `tests/test_stack_registry.cpp:28` says it unregisters
  itself; the destructor erases from a different, always empty map.
* `memory_close`: `wasmig_checkpoint_memory` ignores fclose
  (`src/checkpoint.cpp:134`): it can return 0 for an image that does not hold
  the memory. `tests/test_memory.cpp:63-72` expects the contrary.
* `memory_wrap`: `Array8.size` has 32 bits, so a memory of 65536 pages comes
  back with size 0 (`src/restore.cpp:340`; `SizeLimit` in the model).

## 5. What is proved

Each theorem holds for every value of the constants that the named assumptions
of the module allow, and for every behaviour of its specification. A liveness
property is not among them.

### The stack heap: `RefStackProofs`, `RefStackStoreProofs`

For any finite sets of nodes, handles, iterators and keys:

* `TypeCorrect`: `Spec => []TypeOK`, for every client.
* `CountsInvariant`, `ReferenceCountsExact`, `NoDanglingPointer`, `NothingLeaks`
  and `HeapImplementsStore`, assuming the client does not own a created root twice
  (`~AliasRoots`): the code is wrong otherwise, as `stack_alias` shows.

`RefCountExact` and `NoDangling` are not inductive. That a node in use has an
exact count does not say that a freed one has no owner, nor that a call which
is about to release a slot still owns it. `IInv` adds: a node is free exactly
when its count is 0, and then has no next (`FreeUnused`); a slot that holds a
node belongs to a present key, or is still due in the running call
(`SlotsOwned`); a save has two handles and one key (`CallShape`); and the count
of *every* node, free ones included, is the number of references to it
(`RefsMatch`). The proof of `RefsMatch` is a count over five finite functions:
lemmas say how the number of places that hold a node changes when one or two
places are overwritten, and every action is one or two such updates.
`NoDangling` then follows, as a free node has count 0 and so no reference.

`NothingLeaks` needs that chains have no cycle (`Acyclic`): counts alone cannot
tell a cycle of nodes from nodes that somebody owns. `Acyclic` says that every
nonempty set of nodes has one that no member points to, which is preserved as
the only node that gets a `next` is one that nothing points to. `Reclaimed` says of every set
that has the owned nodes and is closed under `next` that it has every node in use;
the nodes outside it would otherwise have one that nothing holds, though its
count is positive.

`HeapImplementsStore` is the refinement of `StackStore`. Its invariant `StoreInv`
is the type, the ownership part of `IInv`, `Acyclic`, and that a running call is
about a key. `Contents[d][p]` is a walk of at most `d` nodes, a recursive function
over the depth; the lemmas about walks say that it exists, that one more step
is one more value, that it has reached the end at `Depth` as a longer chain would
close, and that it does not change as long as no node it can meet is written
(`ContentSteady`). With these each action is mapped in a lemma of its own: a
push is a push of a sequence, `ReleaseStep` is invisible (`ReleaseUnseen`), and a
save takes effect in `FinishSave`. `NullAssumption`: no stack is `Null`.

### The tables: `AddressMapProofs`, `RegistryProofs`, `StateQueueProofs`

`AddressMapProofs`, for every word size and set of addresses: `PackingExact`
(packing is injective), `TypeCorrect`, `BackwardNeverStale`,
`ForwardNeverLost`. The two soundness properties hold together with a relation
between `loose`, `spoiled` and the two maps.

`RegistryProofs`: `TypeCorrect` for every client, `LoadsAreSaved` for every
careful one; `LoadIsSaved` is inductive for it. `ImplementsRegistry`
(`MetadataSpec => Spec`): contents do nothing to the registries that `Registry`
does not allow, so its theorems hold with contents. `ContainersTyped`, for every
client, careful or not: the container of an object that exists holds what
belongs into its kind, a map one pair per offset. Nothing is said of the memory
of destroyed objects, which is malloc's. For every careful client,
any sets of functions, offsets, pairs and addresses, `MetadataFound` and
`ForbiddenFound`. Their invariant is `ContentKnown`: an object that exists holds
what the client put in, and nothing is known of another one. The two properties
follow from it and from `LoadIsSaved`: a careful client's registry points to
objects that exist.

`StateQueueProofs`, for every set of positions and every length: `TypeCorrect`
(with `temp` empty between calls), `ConfirmResultTrue` and
`QueueImplementsFifo`. The first follows from `FoundSoFar`: `found` is whether the
position is among the entries that were moved, and all of those for it are
marked. In the refinement the queue is `impl` between calls and `before` during a
confirmation, so a turn of the loop stutters. `Split` is the invariant: `before` is
what was moved, up to the marks it got, followed by what is left. At the end
nothing is left, so the copy is `before` with its marks (`CopyBackReturns`, with
`FoundSoFar` for the result); at a throw what is left is an end of `before`
(`ConfirmFails`).

### The linear memory: `MemoryProofs`

For every memory, number of pages and size of a page, with markers that are no
page count of a memory (`MarkerAssumption`): `MemoryTypeCorrect`,
`CompletedIsDurable`, `LossIsATail`, and `FilesImplementStore` as long as the bytes of
a memory fit a `uint32_t` (`Countable`; `memory_wrap` shows what happens at 4 GiB).

`MInv` is `Typed`, `Phase` and `Sound`. `Phase` is what the writer has done at each
point: while it dumps, `memory.img` and the buffer together are the records of
the chunks it has looked at (`Dumped`), `mem_page_count.img` is empty, and an
unnoticed fclose can only cut that sequence of records (`Cut`). `Sound` is what
a reader finds: no page count, or a page count with a file whose records lie
within it and, if nothing was lost, all end. The commit argument of the two files
is the step from the one to the other in `CloseSizeStep`: the page count becomes
visible when all the records are complete. `FilesImplementStore` then has one
lemma per phase, and `TruncatedImage` for the gap of section 6.

What the decoders compute is a theorem about recursive definitions: `RecordsOf`,
the positions they read, and the chunk that the last record for an index sets.
Lemmas say that those functions exist, that a set that is closed under the step
from one record to the next contains the positions read, and how the decoded memory
changes with one more record (`DumpedRecord`) and with a cut (`DumpedCut`). V1
records and V2 extents, written by another program, and dense images share
these lemmas.

### The other images and the stack tables: `ProcessImagesProofs`

For every word size, set of tables, call stacks of any frames and depth:

* `TypeCorrect`: a restore of whatever is in the files is a program state too.
* `OneCall`, `OneTable`, `TypingKeeps`, `PcWhole`, `SavedIsRestored`: the
  properties `StackOfOneCall`, `TypedByOneTable`, `TypingKeepsImage`,
  `PcReplacedWhole` and `SavedRestores`.
* `StackRoundTrip`: frames survive the message, if their sizes are those of
  their buffers.
* `SlotsAreCounted`, `NeighboursFound`: `SlotsCounted` and `StepsToNeighbour` hold of any
  table, value stack and offset.
* `PrintedInBounds`: `PrintersInBounds`.

`SavedRestores` speaks of a restore of an idle process, so nothing in it says
what a running call may have written. `PInv` adds: as many frames are typed as
words are prepared, all by the table in the cache (`TypingOK`); a running call
writes the words of its image through a stream that is the cached one or a fresh one,
and the file is the first `n` of those words where `n` have left the buffer
(`WritingOK`, `WrittenSoFar`; a pc leaves it at once); at any time the call
stack and globals in the files are a beginning of what one call was to write, however often
processes died (`FilesOK`); and what was saved, not lost and not about to be rewritten is in its
file, unless the stream's file is gone or the table is another program's
(`SavedOK`). `OneCall` is the call stack's part of `FilesOK`, `OneTable` comes from
`TypingOK`, and `SavedIsRestored` from `SavedOK` and the round trip.

`FramesAssumption` is about the program, not the library: the frames that a
runtime describes have arrays of the sizes they state, and those the program's
own table gives them. Without it no checkpoint of theirs could be restored.

`NeighboursFound` needs that the list of the offsets is strictly ascending and
complete (`OffsetFacts`): for any finite set of numbers such a list exists
(`AscendingExists`).

`PrintedInBounds` has two parts. The frames of the program that its own table has
typed are those of the program (`RightlyTyped`), so by `FramesAssumption` their
buffers have the slots that the types need; any other buffer is either excepted
as too short or long enough too. In a buffer with that many slots the reads stay
(`PrintedWithin`): slots are at least as many as types, and more if one type is wider
(`SumGrows`); `print_typed_array` reads two values only at such a type, and
`array32_to_string` reads nothing unless all types have 32 bits.

### Induction

`Induction` has the two facts that every induction here uses, stated of sets
instead of predicates: a nonempty set of natural numbers has a least element
(`LeastNat`, from the well-foundedness of `<`), and a set that contains 0 and
successors contains all (`SetInduction`). A recursive function `f[n \in S] == ...`
is a CHOOSE, so before anything else a lemma shows that a function that
satisfies the equation exists (`WalkExists`, `ReadExists`, `SetterExists` and
others); its properties then follow by `SetInduction`.

### Only model-checked

* `CallsReturn` and `ConfirmReturns`: liveness, the prover does not handle
  fairness and ENABLED.
* The four violations of section 4, which are single behaviours.

## 6. What the models leave out

* Threads: the library makes no promise and its clients use one.
* Depth of the machine stack in a recursive release, and overflow of the `int`
  counts: they need more nodes or references than any client has.
* Wording and layout of what is printed, logging, and reading functions that keep no state (`size`, `top`,
  `is_empty`), which are functions of the modelled state.
* A process that checkpoints while another restores from the same directory.
* `wasmig_restore_memory_into` is given zeroed buffers. It does not clear them,
  and chunks that are missing from an image keep what they held.
* A cut image of pc, globals or call stack is not recognised by its restore: a
  death between truncation and the last write leaves one, a cut call stack
  restores as a shorter one, and a missing file as pc (0, 0), no globals, no
  frames. No document promises otherwise; the outcomes are in the model.
* What is not a value: the serializers' allocations (`free_call_stack_proto`
  forgets the array of entries, the lookups of the tables theirs), and the frames
  that `_stack_v3` keeps in an array on the machine stack.
* Arrays of 64 bits (`src/state.cpp:56`), which no function of the API converts,
  and the decoding of `stack-table.msgpack`, which a library does.
* `src/table.cpp` (four variables with setters), the protobuf code, and
  `src/table_v3_c_impl.c`, all of which is commented out.
* `write_dirty_memory` (its own comment says it is broken).

The one gap of the two-file protocol: a process that dies after `memory.img`
has been truncated and before `mem_page_count.img` has been leaves the old page
count with no chunks, which is a valid image of zeros. No document promises
otherwise, so `ImageStore` has it as a step of its own (`Clear`).

## 7. Plan

Done, in this order: the stack heap with its iterators and map, its abstract
store and its proofs; the address map, the registry and the queue; the linear
memory image; the other three images; the stack tables, frame by frame, and the
conversions of call stacks; the registries with the contents of their objects;
then the proofs of every type invariant, of every safety and action property
that a passing run checks, and of the three refinements.

Next:

1. `Migration`: the four images of one checkpoint together: which mixtures a
   death between two of them leaves.
2. A restore in one process while another one checkpoints.
