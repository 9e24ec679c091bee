# A verification development of srcinv

srcinv collects the syntax trees of a program from the compiler (`collect/`),
loads them into one address space (`core/`, `analysis/`), resolves names, types,
variables and code paths in six steps (`analysis/parse.c`, `analysis/gcc/`) and
lets checkers walk over the result (`hacking/`). This directory holds TLA+
modules of its core, TLC instances of them, and TLAPS proofs about them.

## 1. Inventory

| part | state it keeps | operations | what is hard | what makes it correct |
|---|---|---|---|---|
| sibuf cache (`analysis/resfile.c`, `include/si_helper.h`, `core/si_signal.c`) | mapped pages, `need_unload`, `users`, `sibuf_mem_usage`, `gc_lock`, `fd` | `sibuf_hold`, `sibuf_drop`, `resfile_gc`, `resfile_unload_all`, SIGSEGV handler | threads hold, drop, fault and collect at once; a limit; nested holds; a bit-field shared with `status` | a held image stays mapped; users are exact; the limit holds; a hold returns |
| worker pool (`analysis/parse.c`) | `bufs[]`, `in_use`, `tid`, `status`, `parsed_files` | `parse`, `one_sibuf`, SIGQUIT | slots are reused before their threads are joined; `siglongjmp` from anywhere; failing workers | a slot has one thread; a step ends with no worker left; commands return |
| sinode store and STEP2 (`analysis/sinode.c`, `do_get_base` of `gcc/c.cc`, `getbase` of `gcc/asm.cc`) | two red-black trees per kind, `is_dropped`, `is_replaced`; the source files | search, insert, replace | workers arrive in any order; weak and strong; modules against the kernel; a replacement changes a key in place; a file is searched and inserted without the lock | one live, strongest declaration per name; nothing lost; every linked name is found again; the indexes agree |
| source buffer (`core/si_src.c`) | `buf_cur`, `buf_total_size`, `src_modified`, `tmp/<id>/src.saved` | `src_buf_get`, `flush_srcfile`, `load_srcfile`, `set_readmode`, exit | crashes, failed writes, directories that are removed | nothing given out lies outside the buffer; a regular exit saves |
| resfile preview (`resfile_preview`, `sibuf.c`) | load addresses, `real_addr` of objects | `parse` of a new resfile | sessions, resfiles of changed length, failures half-way | address ranges are disjoint; an object lies in its image |
| module loader (`si_module.c`, `si_conf.c`) | lists per category | load all, unload all, find | failure half-way | reverse order; a failed load leaves nothing |
| collect (`collect/gcc/c.cc`, `collect/`) | an object table, the saved records, the resfile | walk the compiler's records, write an image, append it | cyclic graphs; a location is found by its place only; a table that is full; concurrent compilers | each record saved once, in the order STEP1 walks them; images are whole |
| STEP1 (`analysis/gcc/c.cc`, MODE_ADJUST) | the same table, `is_adjusted`, `obj_idx` | the same walk over the copy, in place | more than a hundred record walks, written twice in two programs; a crash in the middle of a resfile that is mapped shared | every field leads to the copy of what it led to; no address of the compiler is left |
| STEP3 (`__get_type_detail`, `get_function_detail`, `get_func_detail`) | type nodes, `is_set`, fields, code paths | fill in types, variables, functions | recursive types that images share, filled in with no lock; edges in any order; jumps out of a function | a node is whole when the step ends; each condition's true path is the true one |
| STEP4 to STEP6 (`do_phase4` to `do_phase6`, `getindcfg1`) | `used_at`, `possible_values`, `callees`, `callers` | fields of expressions, addresses of functions, calls, traces of SSA names | a value may be found after the call that needs it; joins feed each other; aliases; another image's FIELD_DECL | a call is recorded for all it may reach; callers match callees; the traversal ends |
| entry marking (`mark-entry.c`) | `call_depth` | depth-first marking | recursion in the call graph, a bound on the depth | the depth is the distance from an entry |
| data states, samples (`data-state.c`, `sample.c`, `si_ds.h`) | values, sample sets | copy, compare, look for loops | reference counts, width of integers | a copy is equal and independent |
| checkers (`hacking/`) | saved samples | `staticchk`, listings | random schedules of samples | sets are saved once |
| start-up, shell, signals (`core/`) | command table, module configuration | `main`, `si_init` | sequential | - |

The shell's thread calls the worker pool; the pool's workers call STEP1 to
STEP6; those hold and drop images in the cache and insert sinodes; all memory
they keep comes from the source buffer; the saved buffer and the resfiles are
what remains after the process. Shared state is guarded by `gc_lock`, a lock per
image, `getbase_lock`, `si_lock` and `src_buf_lock`; signals (SIGSEGV, SIGQUIT)
run in between.

`PROJECT.json` lists under `hazards` each place where this can go wrong.

## 2. Modules

| module | models | abstract specification | TLC | TLAPS |
|---|---|---|---|---|
| `ResfileCache` | the sibuf cache | `SibufLease` | `MCResfileCache` | `ResfileCacheProofs` |
| `ParsePool` | `parse_resfile`, its workers, SIGQUIT | `PhaseBarrier` | itself | `ParsePoolProofs` |
| `SrcSave` | si_src.c and its file | - | itself | `SrcSaveProofs` |
| `SinodeStore` | sinode.c and STEP2 | - | `MCSinodeStore` | `SinodeStoreProofs` |
| `RecordWalk`, `CollectRecords`, `AnalysisRecords` | the fields each `do_xxx` visits, in either program | - | used by `MCNodeImage` | - |
| `NodeImage` | the collecting walk, the image, STEP1 | the compiler's graph (`Faithful`) | `MCNodeImage` | `NodeImageProofs`, `NodeAgreeProofs` |
| `Lists` | walks over a list, in order | - | used by the next five | - |
| `TypeDetail`, `CodePaths` | STEP3 | - | used by `GimplePhases` | `GimpleDetailProofs` |
| `FieldSearch` | `get_target_field0`, `get_target_field1` | - | used by `GimplePhases` | - |
| `CallGraph` | STEP4 to STEP6 | - | used by `GimplePhases` | `GimpleCallProofs` |
| `EntryMarks` | `mark_entry` | - | used by `GimplePhases` | `GimpleCallProofs` |
| `GimplePhases` | STEP3 to STEP6 and the barriers between them | reachability (`CallsComplete`, `CallersMatch`, `DepthIsDistance`) | `MCGimplePhases` | both |

### ResfileCache

`mapped` is what the kernel has mapped, `needUnload` the bits, `users` the
lists, `usage` the account. `frames[t]` is the stack of holds that the callers of
thread `t` have not undone, with what `sibuf_hold` returned: 0 ("first": this
call made the thread a user), 1 ("held") or -1 ("error"), because all callers
decide by it whether to drop. A section under `gc_lock` that touches no user list
twice is one action (`LoadHit`, `Map`); `resfile_gc`'s walk is one action per
image (`GcScan`), since `sibuf_drop` does not take `gc_lock` and can happen
between two turns. `Hold` is a call, `Touch` a fault on an image that is not
mapped, after which the thread goes through the same code, drops
(`HandlerDrop`) and runs the instruction again (`Retry`). `StatusLoad` and
`StatusStore` are the two halves of `t->buf->status = step` on the byte that also
holds `need_unload`; they exist when `SplitStore` is TRUE. Sizes are pages: the
images are page aligned, so `mmap_size` and `total_len` are taken to agree.

`SibufLease` is the promise: `Acquire` loads an image and makes a holder,
`Release` ends the lease, and an image may be unloaded only when nobody holds it.

### ParsePool

One action per statement of the main thread that another thread or SIGQUIT can
see (`Pick`, `Claim`, `Join`, `Joined`, `Create`, `WaitJoin`, ...), and one per
statement of `do_phase` (`Start`, `Check`, `Parse`, `Mark`, `Release`, `Fail`).
`slot` is `bufs[]`, where `tid` is TRUE while the field is not 0; `thread` says
where the thread of a slot is, which the code does not know. `Quit` is the SIGQUIT handler:
from any statement after the first `sigsetjmp` of a step to
`wait_for_all_threads`. A second join of a thread, which is undefined, may
succeed or crash (`"dead"`).

`PhaseBarrier` is the promise: an image has at most one worker, and a step starts
or ends only when no worker is left.

### SinodeStore

The declarations of an image (`decls`) are chosen by `Init` from `Programs`;
`pos` is how far the image's worker is. `GetBase` is one turn of the loop of
`do_get_base` (or `getbase`), under `getbase_lock`: the search decides between
`GetKnown`, `GetDropped`, `GetReplace`, `Abort` (a `BUG_ON`) and `GetNew`. A
sinode is a record of the declaration it stands for, which `Exchange` swaps as
`sinode_insert_do_replace` does, and of the weak flag, which it does not swap. An
index is kept as its in-order sequence. A walk may stop at each node with an equal key or leave the
tree at each gap where both neighbours say so; in a sorted tree there is one outcome, and
in one whose order a replacement has broken this allows every outcome some tree
over the sequence gives. `ForceAgain` is STEP2 run again on one image.

An assembly image has one source file, whose sinode it looks for and inserts in
two steps, without the lock (`FindFile`, `InsertFile`; `unit` is how far it is);
a gimple image does both for the file of each declaration inside its turn. No
declaration of a gimple image is taken to lie in an assembly file.

### SrcSave

`src` is the contents (id, whether a resfile was added, a version number);
`cur` and `total` are `buf_cur` and `buf_total_size` relative to the start;
`src.end` is where the last piece given out ends; `src.torn` marks contents of which a part is
missing or was written over. `file[id]` is `tmp/<id>/src.saved`, with `CutFile` for one that was
truncated and not written yet. Truncation and write are two steps (`Truncate`, `Write`). A process
that dies, or a write that fails, leaves any prefix (`Prefix`); a later `Load` takes a
prefix for a whole file, unless a list it walks leads out of it. `LoadNotOpened`,
`LoadTooLong`, `LoadCut` and `LoadFails` are the ways `do_load_srcfile` ends without having loaded: after the
last one the buffer is empty, `buf_cur` is at its start, and the shell goes on. `homeless` (auxiliary)
says that `do_flush_outfile`, called by flush_srcfile or by a load that then opened nothing, removed the directory of the id in
use. `Exit` runs `do_flush_outfile` as the exit handler does. The log writes into the directory
when it exists, which is why `rmdir` may fail (`Removable`). What `clib_read` and `clib_write`
do is external; they are taken to return -1 or to have done all of it.

### NodeImage, CollectRecords, AnalysisRecords

The gcc plugin saves the records of the compiler with one C function per struct;
the analyser has a second set of the same names, which must visit the same
fields in the same order, because a location is expanded into an object of its
own that only its place in the sequence identifies. Both sets are tables here:
each record's walk is a sequence of fields with what they lead to
(`RecordWalk`), the collector's in `CollectRecords` and STEP1's in
`AnalysisRecords`, each translated from its own source. `Opened` puts embedded
structs in place.

`NodeImage` runs one table and then the other. `CollectNew`, `CollectChecked`,
`CollectLocation` and `CollectGlobal` are the turns of the collecting walk: what
a field of the compiler's memory leads to is chosen when the walk gets there, so
every graph within the bounds occurs, cycles included. `NodesFlush` writes the
image. `AdjustPointer`, `AdjustLocation`, `AdjustGlobal` and `AdjustFinish` are
STEP1's, and `Crash` is the end of the process while it works on the pages of
the resfile: the image is then adjusted once more, as far as it was changed.
`WalksAgree` is what the two source files owe each other: the same fields in the same
order for every record, whatever leads to it, and no field twice.

### TypeDetail, CodePaths, FieldSearch, CallGraph, EntryMarks, GimplePhases

A program (`Programs`) is what STEP2 leaves: the types that each image declares
and who owns the sinode of those with a name, expressions, functions, variables
and SSA names. Each image has a worker (`Worker(u)`); `NextStep` is the barrier.

`TypeDetail` keeps the calls of `__get_type_detail` a worker is in as a stack.
`is_set` is read and written without a lock and set before the type is looked
into, which is why two workers may fill in one node and why recursion ends.
`entered[n]` counts the workers that went into node `n`. `CodePaths` gives the paths
of a function: from the edges of gcc's control flow graph, or from a listing of
instructions. An instruction has a length and, when it is a conditional jump, an
operand (`OperandSound`), which `calc_addr_jmp` reads as the code does: the short
forms' one byte is widened as it is, the near forms' two or four are read as a
short or an int. Whether the byte has a sign is up to the decoder's `insn_byte_t`, which
is not in the repository; the instances have both. `FieldSearch` is the recursive search for a field by declaration
or by bit offset; `Fault` is its use of a NULL pointer, which ends the program (`Faulted`). What a search should
find is defined apart from it (`Enclosing`, `Holder`, `Unguarded`, `Twins`).

`CallGraph` keeps a worker's pending calls and loops as tasks (`todo`), and each
section that the code runs under the lock of a node is one action. STEP4 collects
uses and initial values. STEP5 turns the uses of a function into values of variables and goes through
the calls, direct ones and those through variables and SSA names (`trail` is the list of names it
is in). STEP6 is the same again, with what all workers found in STEP5. For
assembly images STEP5 is `getindcfg1`, and the other two are empty functions in the code. A parameter
is a variable of class `"parm"`: a function that is assigned to it is entered among its values
(`__func_assigned`), and nothing is done for a call through it (`Values`). What a join takes is
a name, a function or a number (`call_ssaname_gphi_op` follows the names). `EntryMarks` is
the depth-first walk from the entries.

## 3. Runs

| run | instance | shows |
|---|---|---|
| `cache_two_threads` | 2 threads, 3 images of 1 to 2 pages, limit 3, nesting 2, 3 calls, faults, ENOMEM, a resfile outside the workdir | held images stay mapped, users exact, limit kept, `SibufLease` implemented |
| `cache_holds_return` | 2 threads, room for one image, the torn store | every hold returns unless a stale bit was written back; `UnmapsOnlyUnused` survives the store |
| `cache_status_store_loses_unmap` | the torn store | **violated**: `HeldIsMapped` |
| `pool_quit` | 3 images, 2 slots, 2 steps, 2 commands, failing parses, 1 SIGQUIT | slots not shared, no worker left at the end of a step, `PhaseBarrier` implemented, commands return but for one place |
| `pool_status_sound` | 2 images, 3 steps, a failing parse | **violated**: status says a step ran that did not |
| `sinode_link` | three images of the kernel, two declarations each, weak/strong/alias; or kernel, assembly and module images with statics and one forced STEP2; or two images of one assembly file | strongest wins, nothing lost, nothing live is marked, names found again, indexes agree, and the program stops only at the two known places |
| `sinode_override` | kernel and module define one function, one of them weak | **violated**: the kernel's name is not found any more |
| `save_crash` | 3 ids, buffer of 3 blocks of 2 words, failing opens, reads and writes, crashes that leave any prefix | buffer sound, a home to save to, exit saves, each with its exceptions stated |
| `image_walk` | 101 walks (from 127 kinds of root), up to 3 records each; two of them with shared records, global variables, a table of 6 objects and a crash | the two tables agree (`MadeAlike`); a first STEP1 is in step with the collecting walk at every field (`InStep`); the image after STEP1 is the compiler's graph; no walk stops, none goes round; no stale address |
| `gimple_phases` | over 1000 programs for two C images and one in assembly | types whole, callers and depths right; fields and branches found and calls complete with the exceptions their properties state; all steps end but for two BUGs and a NULL in the search for a field |
| `phases_cond_head` | listings of up to 4 instructions | **violated**: a path's `cond_head` lies in another path |
| `save_home_kept` | flush before the first parse | **violated**: exit does not save |

Bounds. Two threads are enough for the races of the cache, which are between a
loader, a collector or a writer and one other; three images with a limit of 3
pages make collections that free none, one and two images happen. Two slots and
three images make a slot be reused while its thread has not returned and the
other still runs. Three images let two declarations fight for a name while a
third looks it up. In `image_walk` the root and
two more records make every field of every record lead, once, to a new record of each walk that
is compatible with it, so that a field that one program forgets or visits in another
order shifts every later place; cycles, shared fields and a full table do
not depend on the record, so one or two roots with locations are enough. `Width` is the number of array
elements.
`Fresh` names the codes of trees below the root; the root takes all of them.
The families of `gimple_phases` each aim at one
question: two types that refer to each other through an array and pointers, of which one image may know
only one (`MutualPrograms`), kinds of types and variants (`KindPrograms`), nested and
anonymous fields of one location, with offsets and masks on, before and behind
each boundary (`FieldPrograms`), the cases in which a search finds less: a first field that starts after
the target, a field whose type is not known, booleans and reals, anonymous fields of a macro at one
place or of one type (`GapPrograms`), a condition with its edges in either order
(`GraphPrograms`), listings of one or two instructions of any kind, of three with short jumps, and some of
four, whose jumps go on and back, to the function's start, out of it and to themselves (`CodePrograms`), calls through a
variable that another image assigns (`Pointers`) or a parameter (`Parameters`), aliases and relocations
(`Aliases`), an alias of an alias (`AliasChains`), joins that feed each other and take functions and numbers (`Joins`), and chains, cycles and
shortcuts of calls, longer than `CallDepthMax` = 3 (`Chains`). That is 153,616 states. A near jump's operand of four
bytes makes the same difference as one of two: how it is read depends on `opcs` and `nbytes` only. `SsaNameDepth` = 6 is more than the
names of a program, so a trail that fills up would show. A buffer of three blocks of two words makes `src_buf_get` fit,
grow, fill the buffer exactly, and fail both for a piece longer than a block and at the end; prefixes of a file end
inside struct src and behind it.
`MaxCalls`, `MaxDepth`, `MaxRequests`, `MaxQuit`, `MaxForced` and `MaxVersion`
bound behaviours in guards and nothing else; the theorems hold for every value.
Deadlock is checked in the runs of the cache and in `image_walk`. It is switched off for
`ParsePool`, `SinodeStore` and `GimplePhases`, whose behaviours end when the commands, declarations or
steps are used up, and for `SrcSave`, where all ids may be in use.

Fairness. `ResfileCache!FairSpec`: a thread that can run runs, a caller drops
what it holds, and a thread that waits for `gc_lock` gets it when it is free again and again,
because those who retry sleep outside the lock (strong fairness of the lock's
acquisition only). `ParsePool!FairSpec`: the main thread and the workers run;
parses end. SIGQUIT and commands are never owed.
`GimplePhases!FairSpec`: the main thread and each worker run; in a step nothing waits for
anything but a lock held for one action.

## 4. Proofs

`ResfileCacheProofs` (any number of threads and images, any sizes and limit):

* `CacheTypeCorrect`, `CacheUsersExact`, `CacheUnmapsOnlyUnused`, whether or not the status
  store is torn;
* `CacheHeldIsMapped`, `CacheWithinLimit`, `CacheImplementsLease` when it is not (`~ SplitStore`,
  the assumption that `cache_status_store_loses_unmap` shows to be needed).

The invariant is `CacheInv`: types; `UserInv`, which says that a frame "first" or the handler's
pending drop is there exactly when the thread is on the list, that it is the only one and
below all "held" frames of the image (this is what makes LIFO drops right); `LoadedInv`, which
ties `needUnload` to `mapped`; and `UsedIsMapped`. None of the last three is
inductive alone: a drop keeps `users` exact only because the frame it pops is the
one that was first, and a collection keeps held images only because a holder is a
user. For `CacheWithinLimit` the pages that are mapped are a set of pairs (`PagesOf`), whose
cardinality one more image raises by its size: the account may count an image twice, so
the step from `HasRoom` to `Map` proves an inequality only, and a collection, which
subtracts what it unmaps, keeps it because `needUnload` and `mapped` agree. The refinement maps `loaded` to
`mapped` and `held[t]` to the images of the
successful frames.

`SrcSaveProofs` (any block size, end, request sizes, ids; failures and crashes allowed or not): `SaveTypeCorrect` and
`SaveArenaSound`, from `SaveInv`: types, the arena, and that every file that is not torn holds struct src (without
it a load could bring back an unsound arena). `SaveTypeCorrect` has no run
of its own: what matters of the ranges is in `ArenaSound`. The lemmas
on products and `RoundUp` carry the arithmetic of whole blocks; `SavePrefix` and `ContentsTyped`
say that what is read back from a prefix is marked as torn or was written whole.
`SaveHomeExists` and `SaveExitSaves` hold under `HomeKept`: an id without a saved file that the user
loads has a directory. `save_crash` is an instance of it. `HomeInv` adds
to `SaveInv` that the session has its directory or is `homeless` or has lost its id in a load that failed
(`AtHome`), that a saved file lies in its directory and holds its own source
(`FilesAtHome`: else a load would take over another's), and what an exit is about to
write (`ExitUnderWay`). The exceptions are in the properties, not in a hypothesis: a load of a
cut file, a load that fails, and a flush before the first parse are all steps of the proved specification.

`SinodeStoreProofs` (any images, resfiles and programs; any order of the workers; STEP2 forced any
number of times):

* `SinodeStoreTypes`, `SinodeIdsMatch`, `SinodeStops` for all programs. `StoreInv` is types, `Entries`
  (each entry of an index stands for a declaration of an image, of the index's kind), `AsmFiles` (an
  assembly file's sinode is inserted by an assembly image only, which is why
  `InsertFile` stops for two images of one file alone), and the properties themselves.
* `SinodeResolves`, `SinodeNothingLost`, `SinodeLiveIsAnalysed` when declarations of one
  name that meet in the store are equally weak and have a body alike (`NamesAlike`). The hypothesis is
  needed: without it the built-in resfile's name is lost (run `sinode_override`, whose
  programs `MCSinodeStore` asserts not to be alike, as it asserts that those of `sinode_link`
  are). `AlikeInv` is `Sorted` (the index is strictly sorted by key, so a search has
  one outcome and ends at the entry), `SeenResolved` (what was linked has an entry under its own
  resfile or the built-in one), and `PastOnly` (until STEP2 is forced, what is live or marked has been
  passed by its worker, and nothing is both). `Sorted` is what a replacement in
  place could break and `NamesAlike` preserves.
* `SinodeStrongestWins` when also no assembly file has a weak symbol (`AsmStrong`; see the
  signed bit-field of section 5). `KeyStrongest` says it per key of the index.

`NodeImageProofs` and `NodeAgreeProofs` (any tables, roots, kinds, bounds, any graph the compiler
holds):

* `NodeImageTypes`, `NodeImageNoReentry` whatever the tables are. `WalkInv` is
  types, what the calls on the stack refer to, and that in STEP1 every record on the stack is marked
  already, after a crash as well.
* `NodeImageInStep`, `NodeImageNeverBug`, `NodeImageFaithful` when the tables agree
  (`WalksAgree`; `image_walk` checks it of the two programs' tables as `MadeAlike`). The invariant
  `AgreeInv` gives each field a place: there is a `cnt`, with `cnt[i][k]` the number of objects
  when the plugin came to field `k` of record `i`, and an `nx`, with the field it visits next.
  `Shape` says how the places fit together: a field that led to a new record is followed by all that
  record's fields, a location takes one place, a global variable starts where the last one
  ended. In STEP1 a second front `mx` runs over the same places, and the number `n` of adjusted objects is
  always the `cnt` of the field on top of the stack. So a location, which takes the next object
  that is not adjusted, takes its own. When the walk is done `n` is the number of all objects.
  `cnt`, `nx`, `mx` and `n` are kept by neither program: they exist, and every step
  names the new ones.
* `NodeImageNoStale` under `WalksAgree`, with any number of crashes. After a crash the two walks are not in
  step, so
  `CleanInv` leaves the places aside: a field that is neither NULL nor resolved still has what the
  compiler's led to (`Held`), each call on the stack has cleaned the fields it has passed, each adjusted
  record that no call works on is clean, and STEP1 ends
  only when the number of adjusted objects is that of all.

`ParsePoolProofs` (any number of images, slots, steps, commands and SIGQUITs, with or
without failures): `PoolTypeCorrect`, `SlotAlwaysFree`, `NoWorkerEverLeft` and
`PoolImplementsBarrier`. The invariant is `PoolInv`: types; `StepInv`; `SlotInv`, which
says what `tid` and `in_use` tell of a thread that the main thread cannot see; `WalkInv`, that the
slot the walk has chosen keeps its image and has no worker; `WaitInv`, that
`wait_for_all_threads` has cleared every slot below the one it has reached, and that all stay clear until
the next walk; and `BufInv`, that a worker's image is behind the walk and its
own. SIGQUIT is what makes `WaitInv` need `SlotInv`: after the jump a slot may be filled and have
no thread, a joined one, or a running one, and only `tid` and `in_use` tell
which. `Create` maps to `Start` of `PhaseBarrier`, `Release` and `Fail` to `Finish`,
`Command` and `NextStep` to `Enter`, every other step to a stutter.

`GimpleDetailProofs` and `GimpleCallProofs` (any images, any programs that `ProgramAssumption` admits:
types, control flow graphs, code and names refer to things there are; any `CallDepthMax` and
`SsaNameDepth`; any order of the workers). The second rests on the first.

* `DetailInvariant`: `DetailInv` of STEP3. The stack of a worker is a chain of calls, each for the
  part the call below has come to; a call past `Set` has its node in `isSet`; a
  node nobody entered has no children; and a node one worker entered is either on that worker's stack, filled in up to
  the part the frame is at (`Built`), or whole. From it: `NoTypeInItself` (the check of `is_set` and its
  setting are two steps, so this takes that nobody *else* between them is the same worker),
  `AllTypesWhole`, and `CodePathsRight`. The last one is about pure functions: that the k-th jump of a listing ends
  its k-th path, when every path but the first begins behind a jump and the listing does not end with one
  (`JumpsDelimit`), is an argument about two sorted
  lists (`InOrder`) of equal length. It says nothing of the true path of two kinds of jumps, which the code
  loses: those whose byte is read without its sign (`ReadRight`) and those back to offset 0. Without `JumpsDelimit`
  the statement is false (`phases_cond_head`).
* `CallInvariant`: `CallInv` says of each kind of task what it refers to, and of each list what it
  holds. With `MarksInv` it gives `TypeCorrect`.
* `DepthRight`: `MarksInv` for mark_entry. What is marked is reached in so many calls (`Level`), and whoever calls a
  marked function from a nearer place has a visit pending that will mark it nearer. It is the second
  half that makes a depth-first walk end with shortest distances.
* `CallersRight`: `GraphInv`. A caller task comes right behind its callee task or follows its alias; each
  entry of `callers` is real, and each entry of `callees` has told the function it
  stands for or has a task that will. Alias chains of any length are followed with closed sets
  (`StandsFor`), which needs no recursion.
* `OnlyBugs`: `NamesInv` describes the trail and the pending names together: names on the trail are
  different, so the pigeonhole principle bounds it by the number of names; each pop stands for a name
  on the trail, and the order of the pops is the order of the trail unless a name without variable was left
  there, which is when the BUG_ON is met.

Assumptions are the named `ASSUME`s of each module: sizes positive, ids and
threads distinct from the "none" values, the end of the buffer on a block boundary.

Only model-checked:

* liveness (`HoldsReturn`, `ParseEnds`, `Terminates`), which is out of the prover's reach;
* `MadeAlike`, that is `WalksAgree` of the two programs' tables, which TLC compares field by field;
* `FieldsFound`: the searches for a field are recursive over types inside types, and what such a
  definition computes for every type needs induction over data;
* `CallsComplete`.

## 5. Deviations of the code

Shown by a run and listed under `findings`: `cache_status_store_loses_unmap`,
`pool_status_sound`, `sinode_override`, `save_home_kept`, `phases_cond_head`.

Visible in the models, without a run of their own:

* `sibuf_mem_usage` counts an image twice when two threads miss on it at once: `need_unload` is
  not read again after `gc_lock` was given up (`Map`).
* Two threads that fault on images that do not fit together can unmap each other's image
  between `HandlerDrop` and `Retry` for ever.
* SIGQUIT between `pthread_join` and `tid = 0` makes the main thread join a thread twice (`WaitJoin`).
* SIGQUIT in `resfile_unload_all` jumps out of it with `gc_lock` held: no later hold of an image that is
  not mapped returns (the exception of `ParseEnds`).
* A second plain `parse` gives images that are skipped in STEP1 the status 1, and later steps are run on
  them again (`Mark`, `StatusSound`).
* A load whose read or `src_init` fails returns to the shell with `buf_cur` at the start of the buffer: the next
  `src_buf_get` gives out struct src itself, and an exit may write a file of length 0 over the one
  that was to be loaded (`LoadFails`, the exception of `ArenaSound`).
* A load flushes first. If it then cannot open the file, the session has lost its directory
  (`LoadNotOpened`, `homeless`), as after a flush with nothing loaded.
* A buffer filled to its last byte is saved, and no load takes the file back: `BUG()` (`LoadTooLong`).
* A file whose write was cut short is loaded like a whole one, with the cursor below what its
  lists lead to (`Load` with `~ Whole`).
* `parsed_files` counts skipped images, and counts again when a step is repeated (`Mark`).
* A weak alias without a cfg that is linked before the definition stops the parse at
  `BUG_ON(sn->datalen != data->datalen)` (`Abort`).
* A static function whose first declaration had no body: the replacement compares names only,
  so another static of that name may lose its sinode while it is not marked (`Namesakes`).
* STEP2 forced again on an image marks its live declarations `is_dropped` (`ForceAgain`, `GetDropped`).
* `weak_flag` is a signed one-bit field, so a weak symbol of an assembly image is never
  replaced by a strong one (`Stored`, `Replaces`).
* Two images of one assembly file may both find no sinode for it: the second insertion
  stops the parse (`FindFile`, `InsertFile`, `OnlyTheseStops`).
* A crash in STEP1 leaves addresses that were replaced already. They are looked up again among
  the compiler's, not found, and set to NULL; most often the count of adjusted objects
  then stops the parse, but the loss may go unnoticed (`Crash`, `AdjustPointer`).
* The table of objects is checked when a record is saved, not when a location or a global
  variable is: these may be written past its end (phase `"overrun"`).
* Two workers may fill in one type, which has each field twice from then on (`entered`, `NoRace`).
* A mask of 0 on a bit-field makes `get_target_field1`'s caller look for its first bit for ever; no
  instance has one.
* `call_ssaname` leaves by its label `out` without removing its name from the trail. An
  anonymous name below a join therefore meets the `BUG_ON` for a name it is in already
  (`bug = "name"`).
* The target of an alias is looked for among the global functions only; if it is static, NULL is
  used (`bug = "null"`).
* A function that is called only under an alias is neither taken for an entry nor given a depth
  by those calls (`NextEntry`, `mark_subcall_entry`).
* A relocation of assembly code against a static function of another section is not
  followed; functions whose sinode belongs to an assembly image are never given their
  `used_at` by `__do_func_used_at`.
* A function that assigns its own address to a variable is not recorded there (`fsn == cur_fsn`), nor
  are the callees' `body_missing` what the name says: it is `val_flag`.
* `possible_list_find` does not compare `val_flag`, so a number may hide a function with the same value.
* `calculate_field_offset` leaves a bit that lies before a field to the field before it: in front of the first one,
  and behind one whose type is not known, it uses NULL (`Fault`, `Unguarded`). Inside a boolean, a real or a
  complex number it finds nothing (`__check_field`).
* Anonymous fields that one macro made are taken for one another when they start at one place or are of one type:
  the first is taken for all (`SameAnonymous`, `Twins`; a FIXME of the code doubts it).
* A call through a parameter is recorded for nothing, in STEP6 as in STEP5 (`Values`), though the functions assigned
  to the parameter are entered among its values and c.cc:8211 says "traced later"; nor is the address of a
  function that a join takes as an operand (`call_ssaname_gphi_op`, "TODO: miss ADDR_EXPR").
* Assembly: a jump whose target is not right behind a jump, as in a plain `if`, or that has
  nothing new behind it, shifts the paths against the jumps, and a function that ends with a
  conditional jump may have a path written behind the end of `cps` (`JumpsDelimit`, `WritesPast`). A jump
  to the function's start is taken for one that leaves it ("addr_jmp not in func", asm.cc:400) and gets no
  true path (`Inside`, `PathRight`). A short jump back is taken for one 256 bytes further on
  if the decoder's byte has no sign (`ReadRight`).
* STEP1 stops at an empty vector of `c_arg_tag` (`BUG_ON(len==0)`, c.cc:1388), which the plugin would save
  (collect/gcc/c.cc:1061). gcc makes the vector when it pushes the first tag, so the tables have no empty one.

## 6. Not modelled

* The layout of images in the address space (`resfile_preview`, `sibuf_insert`, the file half of
  `collect.c`): arithmetic on addresses in sequential code.
* Which compilations the plugin leaves out (`plugin_init`), the wrapper around the assembler
  (`collect/gcc/asm.cc`), the ELF reader and the disassembler.
* The modules (`si_module.c`), start-up and the shell: sequential, no state that the rest depends on.
* The interpreter of gimple statements with its data states and samples, and the
  checkers that use it: sequential case analysis over values, none of which
  the modelled steps read.
* In STEP4 to STEP6: values that constructors give to fields,
  details of variables in assembly images, operands of gimple kinds that are not calls, assignments,
  reads or joins, and the values of a parameter that its callers pass, which no step collects.
* In the walks: `COLLECT_MORE` and `GCC_CONTAIN_FREE_SSANAMES`, which the build does not set, and gcc
  before version 9. The two programs' tables agree for every record of this build.
* The instruction decoder, and how a call instruction's operand gives an address (`indcfg1_do_call`): a call is
  given by the function there is at that address, or none. Conditional jumps are given with their operands.
* Formatting, logging, progress reports and the backup question; clib (events, readline,
  ncurses), which is not in the repository. `src_buf_fix` is modelled by its absence: the `mprotect`
  that would make it fault is compiled out.

## 7. Plan

1. `ResfileCache`, `ParsePool`, `SinodeStore`, `SrcSave`, `NodeImage`, `GimplePhases`: this state.
2. `ResfilePreview`: the layout of images over sessions, composed with `SrcSave` for crashes
   between STEP1 and a flush. Theorem: ranges are disjoint.
3. `DataState`, `SampleSet`: values, copies, comparison, loops, and `staticchk`.
4. `ModuleLoader`: load order, failure half-way, unload.
5. Proofs: `CallsComplete`; the disjointness of item 2.
