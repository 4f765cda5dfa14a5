# A model of Kora Libc (AIC-lib) in TLA+

Kora Libc is a small C library for Linux with a dynamic linker of its own. This
directory holds TLA+ modules translated from its source, TLC configurations
that check them on small instances, and proofs that TLAPS checks for every
instance. `PROJECT.json` names, for every definition, the lines of the source
it stands for, and lists the hazards the properties are aimed at.

## The system

| part | state it keeps | operations | hard behaviour |
|---|---|---|---|
| standard output (`stdio/putchar.c`, `puts.c`, `printf.c`, `stdio_globals.c`) | `stdout_buf`, `buf_idx` | putchar/putc/fputc, fputs, printf, fprintf, puts, fflush | one buffer for all streams; string calls bypass it; failing and short writes |
| life of a process (`libc/__libc_start_main.c`, `stdlib/exit.c`, `abort.c`, `process/`) | - | start, return of main, exit, abort, fork, execve | fork copies the buffer; two ways to end do different work |
| file streams (`stdio/file.c`) | `file_table[32]` with a descriptor, flags and 4 bytes of pushback each | fopen, fdopen, freopen, fclose, fgetc, ungetc, fgets, fread, fwrite, fseek, ftell | descriptor ownership, reuse of slots, pushback against the kernel's offset |
| dynamic linker (`ld/dynlink.c`) | `g_objects` with five flags per object, the stack of two recursions, the memory of each object, the initial stack | search, load, scan DT_NEEDED, relocate, protect, initialise, enter | cyclic graphs, names with several spellings, order, page arithmetic |
| allocator (`stdlib/mallocng/`) | groups, masks, lists of groups by class, bounce counters, bytes around each block | malloc, free, realloc, aligned_alloc, malloc_usable_size | nested groups, last slot, wrap of counters and offsets |
| standard input (`stdio/getchar.c`), directories (`dirent/`) | read-ahead buffers, one static entry | getchar, opendir, readdir, closedir | a cursor beside the kernel's |
| formatted output (`stdio/vsnprintf.c` and its callers) | a cursor in the caller's buffer | the printf family | truncation, size 0, padding, rounding |
| strings and numbers (`string/`, `ctype/`) | strtok's static pointer | str*, mem*, strto*, itoa, is* | boundaries |
| options (`getopt/`), time (`time/`) | static cursors, static results | getopt(_long(_only)), gmtime, mktime, ctime, sleep | state between calls |
| wrappers (`platforms/linux/pal.c`, `unistd/`, `fcntl/`, `sys/`, `termios/`, `poll/`) | `errno` | one system call each, uptime several | conventions for failure |
| `math/` | - | 116 files of pure functions | bit patterns at the ends of their range |
| `setjmp.S`, `helpers.S` (per architecture) | registers, the stack, a shared word | setjmp, longjmp, two atomic helpers | the only code other threads may run into |
| `signal/`, `misc/`, `libc/san/`, `crt/` | - | stubs, glue, start code | - |

The parts meet in few places. Every output call ends in `pal_write`; fputc of
any stream goes through the one `stdout_buf`, which `exit` flushes and `fork`
copies. `file.c` shares descriptors with the program's own open and close. The
dynamic linker runs before the library: it is linked without it, enters the
program at `_start`, and hands over nothing but the initial stack. No part
starts a thread; the concurrency is that of processes, and of whoever calls the
atomic helpers the aarch64 compiler relies on.

What makes each part correct: bytes accepted are shown once and in order;
every open descriptor has one owner and a stream's next byte is determined by
what was pushed back and by the kernel's offset; a program is entered with the
closure of its dependencies found in the documented order, laid out as linked,
bound to the right definitions, protected and initialised in dependency order;
live blocks are disjoint and free memory is found again; a call that keeps
state between calls continues where it was; a pure function returns what its
definition says.

## The modules

| module | models | state and actions |
|---|---|---|
| `Stdio` | standard output and the life of processes | `buf` is `stdout_buf[0..buf_idx-1]` of each process, `at` the place inside a call between two system calls; an action is the code between two system calls of one process, so parent and children interleave there. `accepted`, `inherited`, `lost` are history. |
| `FileTable` | `file.c` over a kernel model of descriptors | `table` is `file_table`, `initialized` is `file_table_initialized`, `desc`, `exists`, `data` the kernel's open file descriptions and files (external), `held` the streams and `raw` the descriptors the program owns. One action per call. |
| `Startup` | abstract: what a dynamic linker promises | objects and edges are gathered; constructors run once, dependencies first; the program is entered after its own |
| `Loader` | `rtld_start` and `run_loader_normal` of `dynlink.c` | `table` is `g_objects[0..g_object_count-1]`; the sets `scanned`, `relocated`, `sealed`, `running`, `initialized` are the flags of `struct Object` and the loop of finish_protections; `frames` is the C stack of load_needed_recursive and init_object_recursive. One action per loop iteration or call. |
| `Search` | `find_library_file` | `stage` is the place among the lists of directories, `opened` the path tried; one action per list or candidate |
| `Image` | `load_object_file`, `set_protections`, `apply_relro`, `load_main_from_stack` | `contents` and the protections of a small address space, byte by byte; one action per segment or mprotect |
| `Binding` | `lookup_global`, `relocate_object` and what they call | the fields of each object's memory; one action per relocation entry or packed word, in the order of the code |
| `StartupStack` | the initial stack in `dynlink.c`, `crt1.c`, `__libc_start_main.c` | the stack as an array of words; one action per option of the command line and per rewrite |
| `Heap` | abstract: what an allocator promises | blocks of memory are given, taken back and resized in place, each apart from all others |
| `SizeClasses` | the tables and arithmetic of `mallocng` | operators only: size_to_class, the number of slots of a new group, nesting or mapping, pages |
| `Mallocng` | malloc, realloc and free of `mallocng` | `group` is `struct meta` with `struct group` of the groups in use (masks are sets of slots, `mem` its address, `place` the slot it lies in), `ring` the lists `ctx.active`, `usage`, `seq`, `unmapSeq`, `bounces` the counters of `ctx`; `stack` is the C stack of alloc_slot and alloc_group, `freeing` that of nontrivial_free and free_group, `moving` the old block of realloc; `held` and `count` are the program's. One action per call or loop pass. |
| `Frame` | `enframe`, `set_size`, `get_nominal_size`, `get_meta`, `aligned_alloc` | the bytes of one slot; one action per call and per byte the program writes |
| `Options` | `getopt.c` | `optind`, `optpos` and the permuted `argv`; one action per call or word |
| `Strings` | `string/`, `ctype/` | strtok's `last_token` and the text it writes into; the rest is operators |
| `Format` | `vsnprintf.c`, `vasprintf`, `vdprintf` | the cursor over the format, the bytes stored, the count; one action per iteration of the loop |
| `Calendar` | `time.c` | the static results; one action per conversion; sleep as a loop over nanosleep |
| `Cursors` | `getchar.c`, `dirent.c` | the buffers and cursors over the kernel's places |
| `Syscalls` | `pal.c`, `unistd/`, `fcntl/`, `sys/`, `termios/`, `poll/`, stubs | a descriptor table, `errno` and the last call; the wrappers that differ only in their name are one action over a table of their conventions |
| `Floats` | 36 files of `math/` | operators over bit patterns; one action, a call |
| `Jumps` | `setjmp.S` of three architectures | registers, stack words and the words of a `jmp_buf`; one action per call, return, setjmp and longjmp |
| `AtomicWord` | abstract: a word changed in one step per call | invoke, act, respond |
| `Atomics` | `aarch64/helpers.S` | `word`, each agent's registers and its mark of the exclusive monitor; one action per load, store and loss of a mark |
| `FileTable_proofs`, `Loader_proofs`, `Stdio_proofs`, `Mallocng_proofs`, `MallocngHeap_proofs`, `Memory_proofs`, `Text_proofs`, `Library_proofs` | theorems | `Mallocng_proofs` begins with `SizeClasses`; `Memory_proofs` is about `Image`, `StartupStack` and `Binding`, `Text_proofs` about `Strings` and `Format`; the last one has a section for each of `Jumps`, `Search`, `Syscalls`, `Frame`, `Cursors`, `Atomics` and `Calendar` |
| `MCLibrary` | composition | the parts without common state side by side: the variable `part`, chosen at the start, says whose steps are taken |
| `MC*` | the constants of the runs | |

Definitions whose comment begins with "Mutant of" (or is "mutant of ...") are
deliberate errors: each is a plausible bug, and the property it is listed with
in `PROJECT.json` fails when it takes the place of the real definition.

### Abstractions

* `Stdio`: a byte is a numbered token, new at each call, so that the
  properties can follow it. fputc to the stream of any opened file is one case
  (`FileFd`), since it never looks at the descriptor. `errno` is kept because
  flush and puts set it to different things.
* `FileTable`: a file is a short sequence of bytes from a small set. Programs
  use only streams they hold; what `file.c` does with `stdin`, `stdout` and
  `stderr`, which are not of its structure type, is not modelled. What is
  undefined in C by the caller's fault (use of a closed stream) is not taken.
  `fgets` and `fread` are checked against the byte loop by the invariant
  `StreamsDeliverWhatIsAhead`, and then stand for it in one step.
* `Loader`: a name is a value, and "contains a '/'" and "last component" are
  sets and functions of names. Which file a search finds depends on who asks
  (RPATH, RUNPATH) and is the constant `Found`. Reading, mapping and parsing a
  file either succeed or end the loader. Which symbol a relocation finds is
  in `Binding`, how a search goes in `Search`, what mapping does in `Image`.
* `Mallocng`: the library has no threads (`MT` is 0), so an action is the code
  from one call of the recursion to the next. A mapping is named by its group
  and an address is an offset in it; that mappings are disjoint is the
  kernel's promise. Where a block begins inside its slot (`enframe`) is the
  subject of `Frame`; in `Mallocng` blocks begin with their slot, and a resize
  that may or may not fit behind that place does either. A meta is there as long as there are fewer
  than `MaxGroup`; then alloc_meta fails. A failing mmap or mremap ends the
  process, because that is what the code does (see the findings).
  The areas metas are cut from and __malloc_donate, which nothing calls, are
  left out.
* `Image`: a page has two bytes and the address space eight pages, so that each
  rounding has a wrong side. A file is its program headers; a byte of it is its
  offset.
* `Binding`: addresses, fields and bitmaps have fewer bits, with the ratios of
  the code (a RELR bitmap has one bit less than a word). The hash function is a
  constant; what the static linker put into the tables is defined in
  `MCBinding`.
* `Search`: a directory is a sequence of components, an opened file a member of
  a set; the buffer of a path is long enough or not (`Overlong`, `LongName`).
* `StartupStack`: a word is a number that says what it points to. The kernel's
  part is external.
* `Options`: an option string is its first character, the colon and a function
  from letters to the number of their colons. `optreset` stands for both ways to
  start again, `optreset` set and `optind` set to 0.
* `Strings`: characters are codes, `long` has eight bits (`MAX` is 127).
* `Format`: a double is a fraction with a denominator of 32, for which the
  code's arithmetic is exact; the limits on width, precision, buffers and on the
  types `int` and `size_t` are parameters, smaller than those of the code. What
  `num_buf` holds before it is written is a choice among the texts `Leftover`;
  a call that writes past its end goes on unharmed or ends in the pass
  "overrun", of which nothing more is said.
* `Calendar`: minutes, hours and days are shorter, years are real; the loops over
  years are followed to 2400, and every time asked about is before the end of it.
* `Cursors`, `Syscalls`: the kernel may deliver less than was asked, end, or
  refuse, at every call.
* `Floats`: a format is a pair of widths; a number is its pattern, and its value
  an integer, a multiple of the format's least number. Each operation of the
  processor rounds to nearest, ties to even.
* `Jumps`: the program keeps frame pointers, saves the registers a callee must
  keep and uses all of them. Program code is abstracted to its depth of calls.
  On aarch64 the value given to longjmp is the same as an int and as the 64-bit
  word that `setjmp.S` tests: the ABI does not ask the caller to extend it, the
  compilers do.
* `Atomics`: an operation of the processor is one step, as acquire and release
  ordering on one word makes it.

## The runs

| run | expected | what it shows |
|---|---|---|
| `stdio_out` | pass | all interleavings of a process and a child of it with a buffer of two bytes, three bytes of output and one faulty write: buffered bytes keep their order, duplicates come from fork only, bytes are missing only under a failed write |
| `stdio_return` | violation | a program that returns from main loses what is in `stdout_buf` |
| `file_owner` | pass | two slots, three descriptors, one file: the table fills before the kernel does; no descriptor leaks, none is shared, streams are independent |
| `loader` | pass | every graph of a program and two libraries in which each needs at most two of four names (two of them names of one library, one of them a path), with preloads and all three modes |
| `loader_path` | violation | a library needed by a path is loaded and not initialised |
| `loader_soname` | violation | a library is mapped twice when its DT_SONAME precedes DT_STRTAB |
| `loader_fini` | violation | no destructor runs |
| `malloc` | pass | two programs: four blocks of two sizes in five groups, and three blocks resized in place, by mremap and by moving: no slot is lost or given twice, no assertion fails, nested groups go with their last block, blocks are apart |
| `malloc_oom` | violation | with no memory for a mapping malloc writes to address 0 |
| `library` | pass | the fifteen parts of `MCLibrary`, each over its own inputs (below) |
| `segments` | violation | a segment whose address is not its file offset loses bytes to the zero pages |
| `longjmp` | violation | on x86_64 the stack pointer is one word too low after longjmp |

The parts of `library` and the properties they are for:

| part | property | inputs |
|---|---|---|
| image | `ImageIsAsLinked` | two segments on every alignment to two bytes, with zeroed bytes and RELRO of every size, at their file offsets or elsewhere, PIE and fixed, with PT_PHDR and without, in an address space with room for two places |
| stack | `ProgramSeesItsStart` | all command lines of three words out of eight, no, one or two environment strings |
| search | `FirstInOrder` | all combinations of RPATH, RUNPATH, option and environment from short lists, four sets of directories, secure or not |
| binding | `BoundAsLinked` | three objects that define, hide, weaken, lack or reference a name with each hash table; every relocation type; all sets of packed words out of ten |
| options | `EachOptionOnce` | argument vectors of up to two of thirteen words, and longer ones of fewer, under four settings; the parsing is started again after any call |
| strings | `TokensInOrder`, `CallsAnswerAsDefined` | numbers with every sign, prefix and base up to one past the range; overlapping copies; short texts |
| format | `OutputIsPrefix`, `ConversionsReadBack` | every flag group, precision and conversion with the numbers that fill or overflow a field, for no room, little room and unlimited room, with a buffer and with NULL, in one and two passes; `'` with no digits, with as many as `num_buf` holds with their separators and with one more; a text longer than `INT_MAX` |
| calendar | `TimesAgree` | the first and last second of the days around the ends of February and December of 1970, 1972, 1999 to 2001 and 2100; sleeps with two interruptions |
| cursors | `CursorsDeliverOnce` | five bytes through a buffer of three, four entries through buffers of two, two directories, one failure |
| syscalls | `FailuresAreTold`, `DescriptorsChangeAsPromised` | three calls, three descriptors; every argument that a wrapper refuses |
| frame | `BlocksAreFramed` | four sizes and two alignments in a slot of 48 bytes, with the 16-bit offset field narrowed so that the 32-bit one is used |
| files | `StreamsDeliverWhatIsAhead`, `PushedBackByteIsNext` | one stream, pushback of two, files of three bytes |
| floats | `ResultsAreAsDefined` | every pattern of 8 and of 6 bits, with 20 second arguments or 37 exponents |
| jumps | `ContextIsRestored` | three architectures, calls two deep, two values per register |
| atomics | `HelpersAreAtomic` | two agents, one bit |

Bounds. `MaxToken` and `MaxFault` (Stdio) bound the bytes and the faulty
writes: with a buffer of two, three bytes fill it, overflow it and leave a
byte behind; one fault is enough to drop, and properties are about one loss
at a time. `DeviceSize` (FileTable) bounds files, one byte beyond the pushback
so that a read crosses the seam. `MAX_OBJECTS` is the code's own limit, set to
4 so that path names, which map a library again at each use, reach it. Two
libraries give every shape the recursions distinguish: chain, diamond (both
need one), self-loop, cycle of two and of three. The other bounds of `library`
(`MaxToken`, `MaxString`, `MaxConversions`, `MaxSignals`, `MaxOpens`,
`MaxFailures`, `MaxCalls`, `MaxDepth`) count calls of a behaviour: two suffice
where a call can disturb the state a previous one left, and the static objects
are shared by at most two users. `Jumps` sets a buffer again only after the
function that set it has returned.

`Mallocng` uses the real tables. The sizes of its runs are chosen for what
their classes do: 160 bytes get groups of two slots, four deep (classes 11, 15,
19 and 23, the last mapped), 2700 bytes groups of three slots on two pages, of
which one is active at first; five groups are one nested chain and one more, so
that metas run out at every depth. 2300 and 2700 are sizes of neighbouring
classes, 131060 and 140000 lie above `MMAP_THRESHOLD`. The counters `SEQ_MAX`,
`SOON`, `BOUNCING` and `BOUNCE_START` are 255, 10, 100 and 150 in the code and
2, 1, 2 and 2 in the run `malloc`, so that they wrap and trigger within a few
calls. `MCMallocng` adds two assumptions that TLC evaluates for all sizes and
classes: size_to_class finds the least class that fits, and what alloc_group
puts into pages or a larger slot fits there.

`CHECK_DEADLOCK FALSE` is used in all runs: processes end, the loader ends,
and a program may have nothing left to do.

Fairness. Only `Loader` has a liveness property, `Termination`, under
`WF_vars(LoaderStep)`: the loader is one thread, and its every step runs to its
end without waiting for anyone (constructors are assumed to return). `End`, the
end of the program it starts, has no fairness. That a call of `Mallocng` ends is
stated as safety, by the part `NestingClimbs` of `GroupsAreConsistent`: each
call in progress is for a larger class. The loops of `Atomics` end only if the
processor does not take every mark away, which no document of the architecture
promises for a given loop; they are checked for safety. The other modules
promise nothing of the "eventually" kind: whether a program calls again is its
own affair.

## The proofs

`FileTable_proofs` proves, for every number of slots, descriptors and files,
every size of the pushback buffer and of the device:

* `TypeCorrect`: `Spec => []TypeOK`, which includes that the pushback index
  stays inside `ungetc_buf`;
* `OwnershipKept`: `Spec => []DescriptorOwnership`.

The inductive invariant is `TypeOK /\ DescriptorOwnership`. Neither half is
inductive alone: that a freed slot's descriptor is the one to close needs the
types, and that a newly opened descriptor is in no slot needs that every
descriptor in a slot is open. The lemmas treat the ways a call changes table
and descriptors (occupy a slot, free one, hand a descriptor over, change a
stream in place) once each; every action is one of these.

Its second half continues from that invariant to what a stream delivers:

* `StreamsStayApart`: `Spec => StreamsAreIndependent`. A call writes one slot
  and the description behind it; by `NoSharedDescriptor` that description is no
  other stream's, and a slot or a descriptor that is free when it is taken is
  none's that is held.
* `UngetcIsDeliveredNext`: `Spec => PushedBackByteIsNext`, from what `Reverse`
  and `Append` do to a sequence.
* `StreamsDeliver`: `Spec => []StreamsDeliverWhatIsAhead`, one conjunct at a
  time. `EndIsTheEnd`: a read sets the end flag only when the pushback buffer is
  used up. `TellNamesTheNextByte`: pushed back bytes that were read lie, last one
  first, right before the kernel's position. `ReadsDeliver`: what the byte loop
  of `fread` and `fgets` has done after i calls of `fgetc` has the closed form
  `Delivered(s, i)` (`NothingDelivered` and `OneMore`: bytes of the pushback
  buffer, then bytes of the file, then the end); the loop is a recursive
  function, and two functions that satisfy its equation agree, or there would be
  a least argument at which they differ (`LoopIsUnique`). So `Read`, which is
  one step, does what the loop does for every length, not only for those the
  run tries.

`Loader_proofs` proves, for every set of files and names, every DT_NEEDED and
preload list, every result of the searches and every size of the table, that
`Spec` has as invariants `TypeOK`, `NameOpenedOnce`, `DependenciesStayBound`,
`ClosureIsLoaded`, `OnlyCyclesAreRefused` and `CodeRunsInFinishedObjects`, and
that it implements `Startup` (`KeepsThePromise`: `Spec => Promise!Spec`).

The inductive invariant `IInv` has one part for each thing the argument needs:

* `Stages`: what each phase has done to the objects (nothing is relocated
  before the phase "relocate", the first `next - 1` objects in it, all after
  it). `CodeRunsInFinishedObjects` is read off it.
* `Names`: an object's last path component is that of the name it was opened
  under. With it, a name that no object answers to has not been opened before.
* `Bindings`: what a name was bound to answers to it first, also when the
  table grows; only scanned objects are bound to, and each scanned object but
  the program was bound to by one.
* `Loading`: each object has at most one frame and is bound exactly as far as
  its frame has come, or in full if it has none. At the end of the recursion
  no frame is left, which is `ClosureIsLoaded`.
* `Initializing`: the running objects are those with a frame; each frame was
  called for the name before the position of the one below; what a frame has
  passed is initialised, but for the call it is in. So when an object's list
  is at its end all it depends on is initialised (the refinement's Construct),
  and when a dependency is running, the frames from its own to the top are a
  cycle (`OnlyCyclesAreRefused`).

TLC checked `IInv` as an invariant on the instance of the run `loader` before
it was proved. The assumptions on the constants that the proofs use are those
named in `Loader`: file names and paths are distinct, the last component of a
name has no '/', a DT_SONAME has none either, and a search result is a file or
none. The assumption on DT_SONAME is not checked by the code: a library whose
DT_SONAME is a path could answer to a name with a '/'.

`Library_proofs` proves of `Atomics`, for every set of agents and every set of bits:

* `MarksAreTrue`: an agent whose mark stands at its store holds the word as it
  is now. That is what makes the store safe, and it is inductive together with
  the types: a store takes every other mark away.
* `HelpersImplementAtomicWord`: the helpers implement `AtomicWord`, in which a
  call changes the word and fixes its answer in one step. The step is the
  successful store, or the load of a `cas` that found another word.

`Stdio_proofs` proves, for every number of processes and bytes, every capacity
of the buffer and every number of writes that fail or are cut short, that
`Spec` has as invariants `TypeOK` (with the bound on `stdout_buf`),
`BufferedOrderKept`, `DuplicatesComeFromFork` and `NothingForgotten`. What they
need beside each other is in four more parts of `IInv`:

* `Places`: a process inside a call is in main, and between the two system
  calls of `fputc` and of `exit` its buffer is empty.
* `Numbered`: the byte a process has in hand between two system calls is in no
  buffer, in no other hand and not shown yet.
* `Ordered`: a buffer is in order, and all of it behind what its process has
  flushed; the byte in hand is behind both.
* `Copied`: a byte in two buffers, or shown and still in a buffer, was copied
  by fork: one of the two processes was born with it.

Each of the fifteen actions is one of five kinds of step (it writes bytes that
are in no buffer, stores one, flushes, forks, or writes nothing), and there is
one lemma that an action is of its kind and one that a kind keeps `IInv`. TLC
checked `IInv` on the instance of the run `stdio_out` before it was proved.

### The allocator

The first section of `Mallocng_proofs` proves, of the real tables and for every
size and every number of slots, what `MCMallocng` lets TLC evaluate: the class size_to_class
takes has room for the request and its bytes in band (`ClassFits`), every class
below is too small (`ClassIsLeast`), a group inside another is a request of a
larger class with room for all its slots (`NestedClimbs`), and a group that is
mapped fits its pages (`ShapeFits`). The tables are finite, so most of it is a
case per entry; the rest is that a set of numbers has a least element.

The rest proves, for every set of requests, every number of metas and
blocks and every constant of the bounce counters, that `Spec` has as invariants
`NeverTraps`, `GroupsAreConsistent`, `SlotsAccounted`, `FreeSlotsAreListed` and
`EmptyHeapIsSmall`. None of them is inductive: whether a group may leave its
list, say, depends on which call is in progress. The invariant `Inv` has two
halves. `GroupInv` is about the groups and their lists:

* `GroupsFormed`: masks and counts of each group fit its class and its place.
* `RingsInOrder`: a list has each group once and only groups of its class, and
  one behind the head has slots to activate and none available, which is what
  try_avail relies on when it moves to the next.
* `FreeIsListed`: a group with a slot to give is listed.
* `OnePartial`, `WholeGroups`: only one group of a class has slots that are not
  active yet, and a group that is all free is mapped and the only one of its
  class; nontrivial_free keeps this up by returning or promoting a group.
* `HoldersAreLarger`: a group lies in a slot of a group of a larger class, and
  fits there; so returning the slot of a group cannot lead back to the group.
* `UsageKept`: the counters of `ctx` are the numbers of slots.

`CallInv` is about the blocks and the calls in progress:

* `Accounts`: each slot that no mask has is a block, the place of a group or in
  the hand of a call, and only one of these. The calls' share (`Hand`) is what
  makes it true between two steps.
* `CallsFit`, `CallersWait`, `ReturnedFits`: each call is for a larger class
  than the one below, which waits with an empty list and a meta of its own for
  exactly the memory it asked for; a slot on its way back is large enough.
* `Phases`, `BlocksFit`, `BlocksCounted`, `CountBounded`: malloc and free do not
  overlap, a block fits its slot, and the program stays in its bound.

TLC checked `Inv` on the instance of the run `malloc` before it was proved. The
counters of the bouncing classes do not touch any of this; their order
(`CountersInOrder`) is an invariant of its own.

`MallocngHeap_proofs` proves the refinement, `Spec => ImplementsHeap`. Where each
group lies is one more invariant (`GroupsPlaced`). That no two blocks share a
byte then follows in any one state (`SlotsNest`): of two slots that overlap, one
lies in a group that lies in the other, or deeper; a counterexample with the
largest classes is led to one with larger classes, through the slots that hold
the two groups. A slot that holds a group is no block, by `Accounts`. A block
stays where it is in each step, since its group does (`StepStays`).

The assumptions are the three of `Mallocng`: requests are positive, the bounds
are numbers, and `BOUNCE_START` is at least `BOUNCING`, as in the code.

### The memory of an object

`Memory_proofs` proves `FilesAreLinked => (ImageSpec => []ImageIsAsLinked)`: for
every size of a page and of the address space, whatever others have mapped, for
any number of segments of any size, and wherever the kernel puts the object. The
invariant is `ImageInv == PlacedInv \/ Lost`. `Lost` is `IsAstray`, the two cases
in which the code goes wrong and which the property names as its exceptions; it is
stable (`LostStays`), and a program that is not in it when the kernel has placed
it gets the right base (`ReserveStrays` has the case of a library: whether it
is astray is decided by the file). `PlacedInv` says of each step that the pages of all segments are
addresses nobody else has (`Placed`), that the segments mapped so far hold their
file, counted from the base (`HoldsSoFar`, `HoldsItsFile`; `IsGiven` for a
program the kernel has mapped, counted from its bias), what each byte of a
segment allows (`IsOpen`, `IsSealed`), and that others' memory is as it was. TLC
finds it true on the files of the run `library`.
The argument goes along the sums:

* pages move with a base that is a multiple of the page (`PagesMove`), so the
  pages of two segments stay apart (`PagesDiffer`), and the span reserved from
  the least to the largest address over the headers has them all (`Span`);
* the pages mapped from the file and the two cleared areas lie in the pages of
  their segment and meet in none of its bytes (`SegmentIsCovered`), so a turn of
  the loop leaves every other segment alone (`MapSegmentKeeps`);
* a byte is in the pages of one header, which is then the last of those that
  protect it (`ProtectedIs`);
* what mprotect takes in before and after RELRO is of no segment (`RelroIs`):
  the start is rounded down and the size up, and the two make up for each other
  only because RELRO ends with a page (`WholeRelro`).

`FilesAreLinked` is what the linker promises; it is stated in `Image` and TLC
evaluates it on the files of the run `library`. A library is either refused by
`load_object_file`, or its segments share no page and RELRO starts a segment and
ends with a page; a program is of the second kind. It excludes no file for what
the code does with it: data and .bss at an address shifted from the file offset,
programs at fixed addresses and programs without PT_PHDR are all in it, and in
the run. What the code gets wrong is in the property, as `IsAstray`: a library in
which the page end of a file offset is not that of the address, with zeroed bytes
there (`ZeroesHaveTheirPlace`, the run `segments`); and a program for which
`load_main_from_stack` finds another base than the kernel's, which happens only
with a bias of zero or without PT_PHDR (see the list after the findings).

### The initial stack

`Memory_proofs` also proves `StackSpec => []ProgramSeesItsStart`, for every
command line and any number of environment strings. The property speaks of the
program's `main`, and says nothing of the words of the stack before. The
invariant `StackInv` says of every step what each word of it is (`IsLaid`: argc,
the pointers of argv, a NULL, the environment, a NULL, the vector), with two
parameters: by how many words argv has been moved down, and whether the values
of the vector are patched. Four facts then carry it through:

* what the kernel builds is laid out so (`WordsAreLaid`), and what
  parse_initial_stack reads of it is right (`LaidWords`, `EndOfEnvironment`);
* moving argv keeps everything from the old end of argv on (`ShiftedIsLaid`);
  what is left between the new NULL and the old one are pointers to the last
  arguments, which is all that a start code finds that looks for the environment
  behind argv's NULL (`EndOfLeftovers`);
* the walk of set_exec_auxv meets the tags if the number of strings is even, and
  their values, which it takes for unknown tags, if it is odd
  (`SetExecAuxvIs`); so `IsPatched` is exactly that;
* the words before the program's name are options or were taken by one
  (`Skipped`), at each turn of the loop in cli_parse.

### The symbols of a process

`Memory_proofs` proves `ProcessesAreBuilt => (BindingSpec =>
[](TablesAgreeWithSymbols /\ ReferencesAreBound))`, two of the three parts of
`BoundAsLinked`, for any number of objects with any symbols.
`ProcessesAreBuilt` says how a static linker makes an object: the symbols that
are looked up come last and by bucket where the table is DT_GNU_HASH, the table
is the one `GnuTable` or `SysvTable` gives for the symbols, and a name is
defined once in an object (there are no versions in the code). `MCBinding`
assumes it of the processes of the run, so that TLC evaluates it. The widths and
the number of buckets are those of the module, as in the run.

* `GnuFinds`: a bucket is an interval of the table, since the symbols are sorted
  (in `<1>7`); its first symbol is in `buckets`, the first mark at or behind it
  is that of its last one, and an equal hash and `sym_usable` leave one symbol.
  An empty bucket is below `symoffset`, and the filter lets every defined name
  pass.
* `SysvFinds`: each step of a chain goes to the next lower symbol of the bucket,
  so it passes the definition if there is one and ends at 0 if there is none.
  The recursive function is shown equal to a closed form by its least
  counterexample (`WalkIs`), which needs no induction theorem.
* `BestIs`: among the visible definitions `Best` picks the one of the least
  `Precedence`, and no other has the same; with it and the two cases decided
  before the search (`ResolvedIs`), each reference resolves to what `Meant`
  defines without searching in any order, and fails exactly when there is no
  candidate and the reference is not weak.

Symbol tables are no fields in the model, since no relocation of a linked object
names one; the invariant is therefore only that the objects stay what the linker
made.

### The smaller parts

`Library_proofs` has a section for `Atomics` (above) and for each of six more
modules of the run `library`.

* `Jumps`: `ContextIsRestored`. The invariant says that the frames of the active
  functions are chained from the stack pointer up (`FramesChained`, for some
  places of the frames), that the buffer holds what the setjmp saw and the stack
  above its pointer is as it was (`SavedIn`), and that what came back is it
  (`ComeBack`). On x86_64 it says so of all but the stack pointer; the finding
  is about that. Assumption: `Arch` is among the three architectures.
* `Search`: `FirstInOrder`. The invariant says what is left to do: the elements
  untried are those of the documented list from some place on, and none before
  that place, in this list or an earlier one, has the library. A list ends early
  only at an element that is too long, which the property knows.
* `Syscalls`: `FailuresAreTold` and `DescriptorsChangeAsPromised`. The second
  needs that the descriptor uptime holds is one of the table's and that the code
  it keeps aside is the failure of its read. The wrappers that differ only in
  name are proved once, from what their table says of each (`WrapperTables`).
* `Frame`: `BlocksAreFramed`, for every slot of fewer than 65536 units, every
  size and every alignment. Most of it is arithmetic on bytes: what a field of
  16 or 32 bits that was stored byte by byte reads as, that a slot's slack fits
  the field that is chosen for it, that the rest of an aligned block is aligned,
  and that a byte the program writes lies in none of the fields.
* `Cursors`: `CursorsDeliverOnce`, for every input, directory, size of the
  buffers and set of DIRs. Three places describe standard input (`InputPlaces`):
  what the kernel has delivered, and the two ends of what waits in getchar's
  buffer; all that getchar returned lies before the lower one, all that read took
  before the first, and they share out what does not wait. `DirInv` says the same of each DIR
  (`Reads`), that DIRs over one descriptor have had different entries
  (`SharedOut`), and that what the kernel delivered has been had by one of them
  as long as no DIR that had entries is closed (`NoneLost`). Assumption: bytes and
  entries are told apart, so that "once" can be said of them.
* `Calendar`: `TimesAgree`, for any length of minute, hour and day, any times and
  any number of conversions. A year in closed form starts at `Jan1` and a month at
  `First`; the loops of gmtime_r that take years and months off the days
  (`TakesFrom`) end in the one year and month the days lie in, since a first year
  from which they did not would have a successor from which they did (`TakingIs`),
  and the sum of mktime is `Jan1` again (`BeforeYearIs`). `TimeAddsUp` puts the
  parts of a time together, in units of any size and for times before 1970 as
  well, and `DayNumberIs` compares the two ways to number days, one of which
  begins the year in March. The dates are then an invariant, each static beside
  the time it was last asked for; the sleeps need that nothing is counted before
  one starts (`SleepInv`). Assumptions: the units are positive, and every time
  asked about is before the end of `LastYear`, which may be any year from 1970 on.

### Text

`Text_proofs` proves two properties of the parts that go through text a piece
at a time; each compares what has been delivered with the whole.

* `Strings`: `TokensInOrder`, for every set of strings and delimiters. What has
  been delivered are the tokens that start before the place strtok has stopped at
  (`StrtokInv`), and from that place on the memory still holds the string
  (`Scanning`): the NULs strtok writes all lie behind it. An empty string changes
  neither. Assumption: strings and the set of delimiters are of
  characters other than NUL, as a C string is.
* `Format`: `OutputIsPrefix`, for every set of calls and sizes, with a buffer or
  NULL, any limits on width and precision and any conversions. It has two parts.
  `KeepsToRoom` holds of every call that ends, whatever its text: a buffer of
  some size gets its NUL and no more than leaves room for it. A buffer of size 0
  is the exception, named in the property: there `size - 1` wraps
  (`vsnprintf.c:62`), the whole text is written and no NUL. The other part says
  that the text is the prefix of what the directives convert to, for calls that
  print nothing `num_buf` happens to hold (`Settled`).
  `WholeAfter(c, k)` is the text of the
  first k pieces of a call, a piece being a character or a directive. The
  invariant (`OutputInv`) says that for some k the output state is that text,
  cut off at the limit and counted in full, and that the cursor and the argument
  list are where the k-th piece left them, or that the format has ended, or that
  some directive printed what was not written; in the second pass of vasprintf
  the limit is the length of the whole text as an int, which is
  what the first pass counted. That a directive moves the cursor forward and not
  past the end of the format (`DirectiveEnds`) goes through the parser of flags,
  width, precision and length. Assumptions: the format has no NUL before its
  end, every directive the call reaches converts its argument to text
  (`CallAssumption`: what a caller of printf owes), sizes are at most `SIZE_MAX`,
  and `INT_MAX` is below it.

### Left to TLC

`Termination` and every other property over fairness or ENABLED, which TLAPS
cannot treat. What recursive definitions and folds compute, which is induction
over data: the numbers `Strings` and `Format` read and write
(`CallsAnswerAsDefined`, `ConversionsReadBack`), the meaning of a whole command
line in `Options`, the decoding of DT_RELR in `Binding`.
`ResultsAreAsDefined` of `Floats` and the conversions of numbers are about powers
of two with a variable exponent, which none of the provers interprets. Not
proved so far, although nothing known stands against it: `RelocatedAsLinked`, the
part of `BoundAsLinked` about the fields (a theorem needs, besides DT_RELR, every
condition under which a linker places one field apart from all others).

## Findings

The seven violations are listed in `PROJECT.json` with the lines they
contradict. In short: output without a final newline is lost by a program that
returns from main; libraries needed by a path are not initialised; DT_SONAME is
dropped in the usual layout of the dynamic section; DT_FINI and DT_FINI_ARRAY
are parsed and never called; malloc does not see that mmap failed; the zero
pages of a segment are placed by its file offset; longjmp on x86_64 leaves the
stack pointer a word too low.

Behaviour met while modelling that surprised, is part of the modules as it is,
and contradicts no text of the repository closely enough for a run of its own:

* Loader. An ET_EXEC program, whose bias is zero, is given the distance from its
  first segment to its header table as one (`dynlink.c:1187`); a PIE without
  PT_PHDR keeps zero. `IsAstray` of `Image` names both.
  set_exec_auxv walks from the word after the first environment string in pairs,
  so it meets the auxiliary vector only with an even number of strings. A 16- or
  8-bit relocation truncates unchecked; SIZE64 adds the symbol's value; an
  object without a hash table exports nothing; PC64 ends the loader. An empty
  last element of a path list is skipped, and one that is too long ends its
  list.
* Standard streams. fputc to any opened stream goes to descriptor 1; feof and
  ferror never report; getchar and fgetc(stdin) do not share their bytes.
* Formatting. modf returns a fraction that is not one (below), a carry stops at
  the point, %e does not round, vdprintf ignores
  what write answers, and the sign of -0.0 is lost. Size 0 is taken for unlimited:
  into a buffer of size 0 the whole text goes, without a NUL (`KeepsToRoom`). The
  `'` flag has two bad ends (`vsnprintf.c:157-172`). With no digits, `%'.0d` of 0,
  `(len - 1) / 3` wraps, and what `num_buf` held is printed up to its first NUL,
  without padding (`ReadsUnwritten`); and separators are put in without a look
  at the end of `num_buf`, so that digits which fill it, with a precision
  near 128, are shifted past its end (`WritesPast`). `IntegersReadBack` names both.
  A length above `INT_MAX` is told as `INT_MAX`, and vasprintf cuts its text there.
* Options. A letter search passes over the end of the option string; an
  abbreviated long option with a value uses the table's last entry. Started
  again, getopt sees the words as they were permuted, not as they were given.
* Strings. "0x" without digits is consumed; strncpy of a string longer than n
  is right, of a shorter one writes one byte more than n; strtok("") leaves the
  scan of the string before.
* Time. tm_yday is always 0; times before 1970 give negative fields; sleep
  forgets the fraction of a second that was left.
* Wrappers. poll ignores its timeout and ppoll its mask; mmap reports failure
  as NULL (see the findings); dup2 refuses equal descriptors; uptime opens its
  file with O_RDONLY | FD_CLOEXEC, which is O_WRONLY, and so answers 0.
* Mathematics. trunc rounds to nearest from 1 on; round answers about 2^52 for
  what is not an integer from 1 on; rint and round of what is below 1 are 0, for
  a negative number rint +0;
  ilogb and logb do not return for positive subnormals; fmod counts no
  normalising shift (fmod(5, 3) is 1) and is wrong for results below 1; modf
  puts x into the integer part; nextafter steps a negative x the wrong way;
  ldexp rounds twice. `ResultsAreAsDefined` asks of the rounding functions and of
  fmod what their names say, or one of four exceptions, each with the
  value the code gives instead: `TruncGoesToNearest`, `DropsBelowOne`,
  `RoundGoesAstray` and `ShiftsAreNotCounted`. Of modf, nextafter, ldexp
  and the logarithms it speaks only for the arguments it names.

## Not modelled

* The transcendental functions of `math/` and `misc/complex.c` (80 files):
  polynomials and tables whose errors lie in the last bits of 53; sqrt and fma,
  single instructions.
* `strtod`, `strerror`, `strcoll`: decimal floating point and a table.
* The areas `alloc_meta` cuts metas from; `__malloc_donate`, without caller.
* Streams NULL, `stdin`, `stdout` and `stderr` given to `file.c`, whose objects
  are smaller than it takes them for; `setvbuf`, `popen`, `tmpfile`, `fileno`.
* `locale.c`, `dlfcn.c`, `assert.c`, the signal sets, the sanitizer glue: stubs,
  glue for a foreign runtime, constants. `sigaction` keeps nothing, so no handler
  runs anywhere.
* Headers (`elf.h`, `math.h`, `bits/syscall.h`): constants and prototypes; a
  module names the ones its definitions use.
