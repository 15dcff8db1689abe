# CS University Archives: specifications, model checking and proofs

The repository is an archive of a computer-science degree's projects, each a
program of its own: transport protocol simulators, operating-system simulators
and kernel modules, a chain of nine web proxies, three data-structure engines,
three hardware designs and weekly C labs. This directory holds TLA+ modules for
all of them that keep a state, the TLC configurations that check them on small
instances, and proofs for every instance where a module is the core of its
program.

## 1. Inventory

| Part | State it keeps | Operations | What is hard | Modules |
|---|---|---|---|---|
| `Network/Implementation_Selective_Repeat.c` | per entity: send window (`base`, `nextseqnum`, packets, acked flags), receive window (`expectedseqnum`, buffer, received flags); event list with packets and timers | `A/B_output`, `A/B_input`, `A/B_timerinterrupt`, `tolayer3`, `starttimer`, `stoptimer`, event loop | a medium that loses and damages; acknowledgements overtaken; a timer per packet; slots reused modulo N | `Layer3`, `SelectiveRepeat`, `ReliableDataTransfer`, `SelectiveRepeatProofs` |
| `Network/Implementation_Go_Back_N.c` | as above without receive buffer, one timer per entity | the same names | data and acknowledgement share one packet, with numbers that mean either | `Layer3`, `GoBackN`, `MCGoBackN`, `Layer3Proofs`, `GoBackNProofs` |
| `Operating_System/05.../02_FAT_File_System/fat.c` | directory, allocation table, blocks; the image file | create, write, read, delete, list, mkfs; load and save around each | disk full half way through a write; killed while saving | `FatFileSystem`, `FileStore`, `MCFatFileSystem`, `FatFileSystemProofs` |
| `System_Programming/08`, `09` | semaphore, cache directory, log file, a process per client, in 09 a thread as well | lookup, fetch, log, signals | children that share files; the semaphore around the log only; kills and restarts | `SynchronizedProxy`, `ThreadedProxy`, `ThreadedProxyProofs`, `MCProxies` |
| `System_Programming/05`, `06`, `07` | cache directory, log file, a process per client, alarms | the same without a semaphore | writers of one file; silent clients; merged signals | `ForkingProxies`, `MCProxyPrograms`, `ProxyProgramsProofs` |
| `System_Programming/04` | a cache server and its client, two streams between them | type, ask, answer, bye | reads that take several writes; descriptors that leak; a server that ends before its children | `SocketProxy`, `MCProxyPrograms`, `ProxyProgramsProofs` |
| `System_Programming/01`, `02`, `03` | cache directory, log, counters of a session | type a page, look for it, make it, log it; 03: connect, bye, quit | sessions that share cache and log | `CachePrograms`, `MCProxyPrograms`, `ProxyProgramsProofs` |
| `Operating_System/03.../03_CPU_Scheduler_Sim` | task table, ready queue, chart | FCFS, SJF, RR, SRTF | tasks that arrive while another runs; the queue of RR; idle time | `CPUScheduler`, `MCSimulators`, `PoliciesProofs` |
| `Operating_System/04.../02_Page_Replacement_Sim` | frames, FIFO pointer, ages, reference bits | Optimal, FIFO, LRU, Clock over one string | choice of the victim at ties and boundaries | `PageReplacement`, `MCSimulators`, `PoliciesProofs` |
| `Operating_System/02...` hook modules | system call table entries, counters of one traced process | load, unload, the traced calls | modules that hook the same entry; processes inside a hook | `SyscallHooks`, `MCSimulators`, `SimulatorsProofs` |
| `Operating_System/03.../01_Process_State_Tracer` | tasks, `fork_count`, kernel counters | `_do_fork`, `copy_process`, exit, release, the tracing call | a failure in any step of a fork; a count that comes after the child | `ProcessTracer`, `MCSimulators`, `SimulatorsProofs` |
| `Operating_System/03.../02_Multi_Thread_Fork` | children or threads with partial sums | `fork.c`, `thread.c` | an 8-bit exit status; workers that do not start | `ForkSum`, `MCSimulators`, `SimulatorsProofs` |
| `Data_Structures/01_Music_Playlist_BST` | queue, artist tree, title tree, playlist ring | LOAD, ADD, QPOP, SEARCH, MAKEPL, DELETE | two trees that must list the same songs | `MusicLibrary`, `MCDataStructures` |
| `Data_Structures/02_Employee_DB_BPlusTree` | B+ tree, selection tree over eight heaps | LOAD, ADD_BP, SEARCH_BP, ADD_ST, PRINT_ST, DELETE | splits over two levels; winners after a deletion | `BpTree`, `EmployeeManager`, `MCDataStructures` |
| `Data_Structures/03_Graph_Algorithm_Engine` | adjacency list or matrix | LOAD, BFS, DFS, Kruskal, Dijkstra, Bellman-Ford, Floyd, closeness | negative edges and cycles, unreachable vertices, broken files | `GraphEngine`, `MCDataStructures` |
| `Digital_Logic/01..03` | registers of the machine | adder, majority voter, sequence detector | carries, overlapping patterns | `LogicCircuits`, `SequenceDetector`, `MCSimulators`, `SimulatorsProofs` |
| `Operating_System/01`, `04.../01`, `05.../01` | none of their own | print kernel data | - | `file_varea`'s hook in `SyscallHooks` |
| `C&CPP/` | 44 small weekly labs | menus over arrays, strings, files, lists | little shared logic | - |
| `Computer_Architecture/` | microcode and PLA tables, waveforms, traces | no program in the repository | - | - |

The programs do not interact with one another, except that the proxies of a
user share a cache directory and the hook modules one system call table; both
are modelled. What interacts inside each program is told in its section.

## 2. Modules and runs

A program has a module that can be read alone, with its state as VARIABLES and
a `Spec`. `SelectiveRepeat` and `GoBackN` extend `Layer3`; `SelectiveRepeat`
implements `ReliableDataTransfer`; `FatFileSystem` implements `FileStore` while
its disk has room; `ThreadedProxy` extends `SynchronizedProxy` and implements
it; `EmployeeManager` extends `BpTree`.

A `...Proofs` module extends the module whose specification it is about: where a
run checks the specification of an `MC...` module (`BuildSpec`, `DiskSpec`,
`ProgramsSpec`, `SimulatorsSpec`), the theorems are about that one, so that a
run and a theorem state a property of the same specification, the run for the
constants of its `.cfg`, the theorem for all. `Layer3Proofs` holds what both
transport protocols need of the medium, of residues and of numbers,
`ThreadedProxyProofs` the theorems about 08 as well as those about 09, and
`PoliciesProofs`, which extends `SimulatorsProofs`, those about the two simulators
of the operating system whose policies are compared with the best there is.

The `MC...` modules put several of them into one run. `MCGoBackN`,
`MCFatFileSystem` and `MCProxies` choose a variant of one program in the initial
state (both directions or one; a disk with room or any; 08 or 09).
`MCProxyPrograms`, `MCDataStructures` and `MCSimulators` choose one of several
programs that have nothing to do with each other: `family` says which, a step of
a program is taken only in its family, and the variables of the others keep an
idle value. Such a run is the union of the state spaces of its programs, and a
property `family = "x" => P` is `P` of program x.

| Run | Module | Distinct states |
|---|---|---|
| `selective_repeat` | `SelectiveRepeat` | 1.0 million |
| `go_back_n`, `gbn_early`, `gbn_invented` | `MCGoBackN`, `GoBackN` | 1.6 million |
| `file_system`, `fat_crosslink` | `MCFatFileSystem` | 58 thousand |
| `proxies_08_09`, `sync_proxy_writers` | `MCProxies`, `SynchronizedProxy` | 141 thousand |
| `proxy_programs` | `MCProxyPrograms` | 243 thousand |
| `data_structures` | `MCDataStructures` | 173 thousand |
| `simulators`, `detects_101101` | `MCSimulators`, `SequenceDetector` | 359 thousand |

Deadlock is not checked: every program stops by itself (end of the simulation, of
the input, of the shutdown), and where stopping would be wrong a liveness
property says so.

## 3. The transport protocols

`Layer3` is the medium of both simulators: `tolayer3` loses a packet or damages
its payload, its sequence number or its acknowledgement number, and never
reorders packets for one entity (the simulator takes the last pending arrival
as the earliest time of the next). The checksum is the plain sum of
`compute_checksum`. A payload is the letter its 20 bytes repeat; the NULs of an
acknowledgement and the `Z` put into the first byte are letters of their own.

`SelectiveRepeat` and `GoBackN` write each handler once for both entities, since
`A_` and `B_` handlers are the same code over different globals. The event list
is split into the pending arrival, the running timers and the packets on the
way; time is dropped, so any pending event may be next. An action takes one
event and runs the whole handler: `FROM_LAYER5` with `generate_next_arrival` and
`output`, `FROM_LAYER3` with `input`, `TIMER_INTERRUPT` with `timerinterrupt`.
`Running` is the test `nsim == nsimmax` at the head of the loop; the histories
`accepted` and `layer5` record what layer 5 gave and got.

`ReliableDataTransfer` is the abstract transport: it accepts messages and
delivers, in order and exactly once, a prefix of them. `ImplementsRDT` maps
`accepted` and `layer5` to it.

| Run | Bounds | What it shows |
|---|---|---|
| `selective_repeat` | N = 2, both directions | `IInv`, which contains the types, that timers run exactly for what is outstanding, that what was acknowledged is held by the receiver and that the windows stay aligned; delivery in order; no copy overwritten; refinement |
| `go_back_n` | N = 2, both directions, or A to B with one message more and damage in every field | the timer and the stored copies; nothing but the first message of a stream suffers from the two defects, and with A alone sending B's layer 5 gets everything in order |
| `gbn_early` (violation) | both directions | B's data acknowledges A's packet 0 |
| `gbn_invented` (violation) | both directions | a repeated acknowledgement is delivered as message 0 |

The exact constants are in the `.cfg` files. A window of two and more messages
than slots make every slot be reused, with a retransmission, a lost and a
damaged packet of the previous round still on the way; a window of one would
be the alternating-bit case and hide the flags and the buffer.

**Fairness.** None is assumed. `main` leaves its loop at the first event after
`nsimmax` messages, whatever is still outstanding, so eventual delivery is not
something the program promises; what may be asked is safety up to that point.

**Proofs** (`SelectiveRepeatProofs`). For every window size, number of messages
and direction setting:
`TypeCorrect`, `TimersCorrect`, `AckedCorrect`, `DeliveryCorrect`,
`WindowsCorrect`, `CopiesCorrect` and `Implements`. None of the properties is
inductive: that a duplicate is recognised depends on what packets can still be
on the way. `IInv` therefore says, for each direction: the window holds exactly
the packets made of `accepted` at the numbers from `base` to `nextseqnum`; each
intact packet on the way to an entity is a copy of a packet the other one
accepted, or an acknowledgement of one its receiver holds, with a number less
than N from the receiver's; the buffer's slots hold the right messages; an
acknowledged number is one the receiver holds; and the two windows are within N
of one another, so that slots modulo N name numbers uniquely (lemma `SameSlot`).
Each handler has a lemma that it keeps each conjunct; the temporal theorems
follow by PTL. Assumptions: the window is at least one and the number put into
damaged packets (999999) is beyond any number used, so damage is never mistaken
for a number of the window, which is true of `nsimmax = 50`.

**Proofs** (`GoBackNProofs`), for every window, number of messages, capacity of
the medium and kind of damage, in the two-way build and in the one-way one
(`BuildInvariant`): `TimerRuns`, `WindowKeepsCopies`, `AckedCorrectly`,
`DeliveredCorrectly`; `GoBackNCorrect` says the same of `GoBackN` without the
choice of the build. The invariant `IInv` says of each side: its window holds
the data packets at the numbers from `base` to `nextseqnum`, its timer runs just
while there are any; an intact packet on the way to it is data of the other
side, with an acknowledgement of something it has itself sent, or an
acknowledgement the other sent for what it was handed; and layer 5 has got
exactly the messages of the numbers passed (`Handed`), the first apart. That
first message is what the two defects cost that `gbn_early` and `gbn_invented`
show, and the invariant says that they cost no more: an acknowledgement can be
taken for data only while 0 is the number expected. `SimplexInv` adds
that in the one-way build B sends no data, so that not even the first message
suffers. Assumptions: as for Selective Repeat, with `NoAck` (999) in the place of
the damaged number.

## 4. The file system

`FatFileSystem` follows one invocation at a time: `fs_load` (or `fs_format` when
the image is missing or short), one command on the tables in memory, `fs_save`
in two steps, so that a process can be killed between the truncation by
`fopen(.., "wb")` and the last byte. A content is an identity and a length; a
block holds the k-th chunk of a content, so zero-length, exact and partly filled
last blocks are told apart. `blk_find_free` always gives the lowest free
block, so a write's loop is written as the choice of the lowest blocks.

`FileStore` is what a user may expect: a map from names to contents, changed by
one command at a time, which a kill during the save may lose as a whole.

| Run | What it shows |
|---|---|
| `file_system` | on a disk with room, where no write asks for more blocks than are free: no block shared, none leaked, refinement of `FileStore`, kills included; on any disk: chains end, and a successful write is read back |
| `fat_crosslink` (violation) | a write that fills the disk leaves the entry on a freed block; another file then shares it |

Bounds: two files, four blocks of two bytes, texts of 0, 4 and 5 bytes (no
block, two full blocks, three with a short one): two texts together can
exceed the volume, and blocks are freed and reused in another order.

**Proofs** (`FatFileSystemProofs`), for every number of blocks and entries, block
size, names and texts:

- `DiskInvariant`, `NoBlockShared`, `NoBlockLost`. The invariant `IInv` is one
  predicate, `Sound`, of two volumes, the one in memory and the one last
  written, since a later process loads the second: entries in use have a block
  for a head, chains end (`Ends`) on any disk, and on a roomy one they are
  disjoint and cover the blocks in use (`Tidy`). A chain is defined as the least
  closed set of blocks, so what a command does to chains (`TidyRemoved`,
  `TidyPlaced`, `LinkedChain`, `FreedEnds`) needs no induction along them.
- `WrittenIsRead`. `cmd_read` is a walk, a recursive function; that there is
  one follows by making a walk one step longer (`WalkExists`). After a write
  the k-th block of the walk is the k-th lowest of those taken (`LinkedWalk`,
  `RankNext`), so that it finds the k-th part of the text, on any disk, after
  any number of writes that ran out of room.
- `DiskImplementsStore`. `Progress` says what a process in the middle of its
  work has done: names are unique, what it loaded is what was last saved whole,
  and between its command and its save the volume in memory is that one changed
  by one command on the map (`Changes`; `CreatePuts`, `WritePuts`,
  `DeleteLeaves`). That the other files are read as before is where the
  disjointness of chains is needed (`ReadAgrees`, `ChainsApart`). The command
  takes effect for others when the save begins, and a kill in the save is
  the map's `Lose`; every other step stutters.

Assumptions: the empty string is not a file name, texts have a length, and
a block holds at least one byte.

## 5. The proxies

### 08 and 09: processes, a semaphore, a log thread

`SynchronizedProxy` is the state machine of the server and its children. The
server is `down`, has `created` the semaphore without having set it, or is
`listening`; it may be ended at any time and started again, while children of
the old one go on, because the semaphore, the log and the cache outlive it.
A child's `pc` follows `main` and `proxy_cache1_2`: `reading` (the request,
under the alarm), `lookup` (the directory is searched), `waiting` (`semop -1`),
`critical`, `logged` (the line is written), then `serving` (a hit: the file is
sent) or `fetching` (the origin is looked up), `copying` (from the origin into
file and client) or `relaying` (the file could not be opened). `Ended` ends a
child in any of these: `SIGINT`, `SIGPIPE`, a kill. `Undo` is `SEM_UNDO`.
`Reap` is the `SIGCHLD` handler, and one pending signal stands for all that
were sent since.

A page is `Pieces` reads long, and the file of a page is the sequence of the
pieces it holds. Each writer has an offset of its own, so that a writer whose
file another one truncates leaves a `Hole`.

`ThreadedProxy` adds the thread: `CreateThread`, `write_log_thread`, `Join`
replace `Log`. Its refinement mapping puts a child that is `critical` with a
thread that has `exited` at `logged`: the line is what other processes see, the
join they do not.

| Run | What it shows |
|---|---|
| `proxies_08_09` | for both programs: mutual exclusion, the semaphore never lost, waiters proceed, zombies reaped, pages whole in the end, the log in order; 09 implements 08, which takes its thread to stay in the region |
| `sync_proxy_writers` (violation) | two children in one cache file: the region is around the log alone, not around the file as the README of `08` has it |

Bounds: two children are enough for every race between a writer and a second
writer, a writer and a reader, and for two zombies under one signal; two pieces
let a file be truncated between them and leave a hole; two starts let a server
find the semaphore of the last one, set or not set; two URLs, one of which
is not a main URL. The theorems below do without the bounds.

**Fairness.** `FairSpec`, and `ProxiesSpec` for both programs, assumes that a process that can run does (weak
fairness on a child's own steps, on `SetVal` and on the handler) and that a
waiter is not passed over for ever (strong fairness on `Enter`: System V
semaphores queue their waiters). It does not assume that a client sends a request
or that an origin answers or finishes: a child in `fetching` holds nothing. It
does not assume that a server is started again.

`WaitersProceed` and `SemaphoreReturned` speak of a semaphore that has been set
once. A server killed between `semget` and `SETVAL` (lines 295 and 296) leaves one
of value 0, which each later server takes as it is, and no child ever enters;
the model has that behaviour.

**Proofs** (`ThreadedProxyProofs`), for every set of children and pages, every page length and any number of starts:

- `Exclusion`, `NotLost`. Inductive together as `SemInv`: before the first
  `SETVAL` the semaphore is absent or 0 and nobody is in the region; after it
  the semaphore is 1 minus the number of children in the region. That a server
  which only `created` the semaphore implies it was never set is what keeps
  `SETVAL` from adding a second unit.
- `WholeInTheEnd`. `WholeWhenQuiet` says nothing while somebody writes; the
  invariant is `FileInv`: whatever a file not cut short lacks at position k,
  some writer with an offset below k is still to write. A truncation brings
  its own writer at offset 0 (`StartsAtFirst`), and a write beyond the end leaves
  a hole only where another writer has still to pass.
- `LoggedInOrder`. `LogInv`: each file's page has a `miss` in the log, as has
  each child between its line and the creation of the file.
- `SynchronizedTypes`, with `FoundIsThere` (what was found stays).
- `ThreadContained` and `ThreadImplements`, from `ThreadInv`: no thread before
  the region, a running one only in it. Each action maps to the action of the
  same name, `write_log_thread` to `Log`, `CreateThread` and `Join` to stutters.

`WaitersProceed` and `ZombiesReaped` are liveness and only model-checked.

Taken for granted: the log directory and the semaphore's key are accessible; a
cache file opens or does not, but does not fail in the middle; the origin
gives every reader of a page the same page; a piece reaches the file when it is
written (`stdio` keeps up to a block back, which a kill loses: the page is then
`cut` either way). One server runs at a time.

### 04: a server, a client and a stream

`SocketProxy` models both programs and the stream between them. A client types
lines, an empty one and `bye` among them, and waits for a verdict; a child
reads, looks up, and answers. `upstream` keeps the writes apart so that `Readable`
can let one read take several. `openLogs` counts the log files `proxy_cache1_2`
leaves open, since both its returns precede `fclose`; at `FdLimit` the child
first fails to make the cache file and then ends. `fork` may fail, which closes
the listening socket; it stays open in the children (`SocketOpen`).

The run `proxy_programs` shows that verdicts shown are those found, question by
question; that the counters logged at `bye` are what the user saw; that who asks
again is told of a hit if there was a descriptor for the file; that children answer and
end. Bounds: three lines with two log files let a session pass each stage of the
loss of descriptors; two clients share one page. Fairness: processes run, and a
user need not type.

What the model has and no property forbids, since nothing promises better: an
empty line leaves client and child waiting for one another (client.c:57, 67);
`bye` and the run time read at once leave the logged run time uninitialised
(server.c:213, 218); a client whose child is gone prints the last verdict again
(client.c:67).

### 05 to 07: children without a lock

`ForkingProxies` has the loop of accept and fork and the steps of a child once
for the three programs, with what differs at the step where it does: 05 makes an
empty file at a miss and logs it; 06 appends an answer to the file and sets its
alarm around the whole child (`SigAlrm`); 07 fetches pieces of a page into the
file, its alarm covers the request only. `Lookup`, `Log`, `Create`, `Open`, `Copy`
are steps of their own, because another child may come between any two. A
file is the sequence of pieces in it and each writer has its own offset, as in
`SynchronizedProxy`. Any `opendir` and any `fopen` may fail, at each step for itself:
a search then finds nothing, a line is not in the log, a miss of 05 or 06 answers
without its file (`unmade`; web_proxy.c:131), 06 has no file to append its answer to
(reliable_web_proxy.c:266), 07 relays the page or leaves a hit unanswered. A write to
a file that is open does not fail.

`MissesOverlap` relates the log to the order of answers: `before` remembers who
had an answer, and its file, when a child could search the cache.
`FilesWholeWhenQuiet` is what can be asked of files written by several children
at once, as long as none was cut short or could not open the file to write its
answer (`cut`); in 06 it also says that no child's answer is in a file twice.
`ChildrenLeave` is about the alarms and only model-checked, as is `ChildrenServe`
of 04: a child of 06 or 07 ends and is collected whether its client asks or not. It
leaves out three ends: the child of 06 whose read returned nothing goes back to
`accept` on a socket it has closed and spins there (reliable_web_proxy.c:229-234,
`spinning`); a child of 07 waits for its origin; and a child of 07 that writes a hit
to its client waits for the client to read, since the alarm has been off since the
request (full_proxy_server.c:304, 337; `serving`).
Fairness: `Work`, the alarm and the reaping handler; clients need not ask nor
take a hit, nor origins answer, so `Serve`, `Served` and the steps of a fetch have none. Bounds: two children, of which each may be of any page;
pages are one that is cached, one that times out and one that 07 does not cache.

### 01 to 03: sessions at a terminal

`CachePrograms` has two sessions of any of the three programs on one cache and
one log. `Search`, `Create` and `Log` are apart, so that sessions mix.
`SessionLogTrue` says that the numbers a session logs at `bye` are those of its
own lines in the log and that it never misses one page twice, whatever others do
in between; in 03 a session is one child of the shell. 03's `quit` logs the
number of children. `logfile_path` is in the model because `bye` as the first word
leaves 02 with no path for its log (proxy_cache.c:82).

### Proofs about 01 to 07

`ProxyProgramsProofs`, for any sessions, clients, connections, pages, lines and
descriptors. `ProgramsKeep` is the invariant of whichever program runs:

- `CachingInv` (01 to 03; `LogsTellTheTruth`): the counters of a session are
  the numbers of lines its present child has in the log, that child has missed
  no page twice, and no line is of a child still to come. What another session
  does to the cache meanwhile can turn a miss into a hit and not the other way,
  since files only come to be.
- `SocketInv` (04; `VerdictsAreShown`, `AnsweredIsHit`): of a question and its
  verdict exactly one stage is under way (`OneUnderWay`), what was shown and what
  was counted agree up to that one (`Agree`), and a page answered has its
  file unless the child was out of descriptors (`FilesMade`).
- `ForkingInv` (05 to 07; `MissesAreConcurrent`, `FilesBecomeWhole`): a child
  that could search and found no file was preceded by nobody who had been
  answered for the same page and had made its file (`Searches`), a line says what
  its child found (`LinesTrue`), and, as for 08, whatever a file lacks some writer
  still has to write (`PageKept`) or could not open the file (`cut`); for 06, which
  appends one answer, `AnswerKept`: an empty file has a child still to append to
  it, and each answer in one is of a child that missed the page and has ended,
  and there once.

Assumptions: a page has at least one piece, a child starts with a descriptor, and
`bye` and the run time are not URLs.

## 6. Simulators, kernel modules, circuits

All of them are in the run `simulators`, and everything the run checks is proved
as well, without its bounds.

**`CPUScheduler`.** The four policies over one table. `Pick` takes what the policy
prefers (`Key`) among the tasks that have arrived, `PickRR` the head of the ready
queue, `Tick` runs one tick. The state keeps the chart, so the properties compare the
simulator's reports with who really ran: `WorkConserving`, `ReportsTrue`, and
`SRTFOptimal`, where `LeastSum` searches every preemptive schedule of the same
tasks, ticks without anybody at work while somebody waits left out. It ends at
`MaxTime`: a task that is not done by then counts as done one tick later, the
least it can come to. `ReportsTrue` does not say that all tasks are served when the loop ends,
because under RR they need not be: `sim_rr` pushes the running task in its own
slice (line 249) and again after it (line 263), the task may be popped with
nothing left, and is then counted as finished a second time. The model has that.
Bounds: three tasks, arrivals 0 and 2, bursts 0, 3 and 4, slices 1 and 2.

**`PageReplacement`.** The four algorithms one after another on the same string.
`OptimalIsLeast` compares with `LeastFaults`, the minimum over all choices of
victims, and with the other three; `LRUKeepsRecent` is the stack property. Bounds:
all strings of seven references to four pages up to renaming, one to three frames,
enough for every frame to be replaced and for the four to choose differently.

**`SyscallHooks`.** Entry 336 of the table is hooked by four modules, the file
calls by a fifth. A module saves what it finds and gives it back (`hook_exit`, ...).
A process in a hook is a `pc` of its own, so modules can be unloaded under it.
The name of a file is copied from the process at the first `openat` counted while
there is none; the copying may fail and leave nothing or a part of it (`Torn`), and
the name may be empty. `CountsExact` says the counters are the traced process's
own calls and that a file is named only if one was opened, while each
process traces only itself; `TidyUnload` that an orderly unloading leaves
nothing behind, while a disorderly one (`tidy` = FALSE) is in the model and
leaves a pointer to code that is gone. Bounds: two processes, two calls, two
modules at a time, so that any two can hook one entry and leave it in either
order.

**`ProcessTracer`.** The fork path of the patched kernel: `Begin`, `Copy` (with its
ladder of labels, `Ladder`), `Publish`, `Count` are the steps of `copy_process` and
`_do_fork` between which others run; each can fail where the code can, and what is
held then is released from the label it jumps to. `unbalanced` is what a failed
fork released without holding it or held without releasing it. `ForksGiveBack`
says it stays empty and that the kernel's counters are the tasks there are;
`ForksAreCounted` that the added `fork_count` is the number of tasks a task made,
late by one only between `copy_process` and the increment. `TraceTask` and
`TraceFamily` are the module's call, the second outside the read lock. Bounds:
three tasks, two forks each, four sets of clone flags.

**`ForkSum`.** Both sums. What `numgen` wrote may be short, any `fork` or
`pthread_create` may fail, and so may a worker's `fopen` (`failed`); a signal may end
a child (`killed`), whose status `WIFEXITED` then leaves out; workers end in any
order. `SumsAgree` says what is printed: the pairs of the workers that ended with
a sum and were collected (`gone`), and of no other. A signal that ends main, or a
thread and its program with it, prints nothing and is not modelled. Bounds: four workers and a largest exit status of 15 instead of 64 and
255: in both the last worker's sum, 4 * 3 + 3 and 4 * 63 + 3, is just the largest
status there is. For any number of workers whose sums a status holds, it is
proved (below).

**`SequenceDetector`, `LogicCircuits`.** The machine keeps the last six bits as a
history. `OutputsMean` says what its outputs stand for, and `detects_101101`
(violation) that this is not what its comments and README say: S6 is entered after
101110. The adder has 4 bits and the voter 4 inputs, both constants; every
input is reached by flipping bits, so `CircuitsCorrect` is checked for all.

No fairness is assumed here.

**Proofs** (`SimulatorsProofs`, `PoliciesProofs`) are about `SimulatorsSpec`; `OneRuns` says that
its steps are those of the program that runs.

- The hooks, for any processes, files and calls and any number loaded:
  `CountsAreExact` from `CountsKept` (who is about to count is the one traced, and
  a file is named only if one was opened) and `UnloadIsTidy` from `ChainKept`:
  while modules go in reverse order, the table points to the last hooker in the
  list of the loaded ones, each hooker found the one just before it there, and
  nobody is in a hook. The order in the list is handled by `Joined`, `TakenOut`
  and `PutLast`.
- The forks, for any finite set of tasks and any flags: `FailedForksGiveBack`
  and `MadeTasksAreCounted`. That the labels of `copy_process` release in
  reverse what its steps took is proved by comparing both lists from their
  two ends (`Mirrored`, `HeldIsFreed`), less what the flags leave out of both
  (`ConcernsIs`); the kernel's counters are cardinalities of the sets of tasks
  there are and of forks under way (`CountsOfTasks`).
- The sums, for any number of workers: `PrintedSumIsRight`. `SumsInv` says that
  who has ended with a sum has added up its pair, the others nothing, and that
  `total` is what those collected add; in `fork.c` the loop variable counts them while a child is left, so that
  after the last round none is. A sum over a set is the number of cells of a
  diagram with a column for each element (`Earned`): that the fold which the
  property uses counts them in whatever order it picks (`FoldIsEarned`) is shown
  on a least set for which it would not.
- The circuits, for any number of columns and of votes: `OutputsAreRight`. The
  chain of full adders keeps, column by column, the sum of the bits it has read
  (`ChainAdds`), and its last two carries differ just if the signed sum does not
  fit (`AdderIsRight`); a power of two is the number of subsets of so many
  elements (`Powers`). Each state of the detector stands for an end of the bits
  taken (`NextState`, `OutputsStandFor`).
- Page replacement, for any strings and frames: `ReplacementsAreRight`. The fewest
  faults are a function of the pages held and the reference to come (`ToCome`).
  The exchange argument (`Exchanges`, from the end of the string to its front):
  of two pages that which is referenced sooner is better to have, and one page
  for another costs one fault at most. So the victim that is needed last is the
  one to do without (`DoWithout`). The invariant `PagingInv`: no page is in two
  frames and frames are filled in order (`FramesInv`), a page in no frame of lru
  was last referenced before all those in one (`RecentInv`), and what an
  algorithm has paid and has still to pay at its best is never less than the
  least for the whole string, and never more for the optimal one (`FaultsInv`).
- The scheduler, for any tasks, arrivals, bursts, slices and number of ticks:
  `SchedulesAreRight`. `CpuInv` has the chart (`Chart`: what is left of a task is
  what the chart does not show, and each tick is of somebody who wanted it), the
  queue (`QueueInv`: whoever is marked is in it, and nobody in it has still to
  arrive), the slice (`RunInv`), the reports (`ReportInv`) and, under srtf, the
  account `PayInv`: the ends so far and the least that the rest can come to
  are the least all could come to from the start. A tick keeps it because of the
  exchange argument `Favours`: of two tasks that have come, the same ticks
  for both together, it is better to have brought the shorter one nearer
  its end (`ShorterFirst`, `ShortestRest`). `FinishGoes`, `TickGoes` and their
  like are the steps with what the invariant needs of them, each with a lemma
  that the actions of the module are among them.

Assumptions: the calls are of the five that are hooked (`CallsAssumption`), no
process has the number 0 (`ProcessAssumption`), tasks are
finitely many and init is one of them (`TaskAssumption`), the largest sum is
an exit status (`StatusAssumption`: with 64 workers it is 255), an adder has a
column (`WidthAssumption`), strings have a length and pages numbers
(`ReferencesAssumption`), and bursts are not negative, arrivals and slices any
integers (`TasksAssumption`). `CPUScheduler`'s queue limit, `QCap`, needs none: the
exit when it is reached is a step like any other.

## 7. Data structures

All of them are in the run `data_structures`.

**`MusicLibrary`.** The trees are records of records, a node keeps its run times as
the list of fields of the string in which the code keeps them, so that an empty
field is seen: `Rejoined` is the string after a deletion, where `getline` drops an
empty last field and empty fields before the first full one are not written again
(`ArtistBSTNode.h:58-78`), and where a title's separator leaves a field of one space
(`Blank`, `TitleBSTNode.h:58-75`). A song without a run time is one `ADD` accepts (`ADD A|T|`,
Manager.cpp:106-116); `searchSong` answers it with nothing, so `QPOP` takes it for
one that is not there and lists it a second time. The same happens to a song put
into a node that has lost all of its own, which keeps an empty field. Two histories
tell the cases apart: `timeless` once a song of either kind has gone into the trees,
`again` once a song that is there has gone in a second time. `LibraryConsistent`
says that a song comes in twice only after such a one; that until a song comes in
twice the two trees list the same songs in order, each once, and the playlist only
those, none twice, with their total time; and that until `timeless` the run times
in both trees are the same as well, and those given.
Two families share the run: `music` has four songs with run times of three
artists and three titles, so that a node has two songs, a tree two levels, and a
deleted node two children, and goes on until `timeless`; `untimed` has two songs of
one artist, each added with or without a run time in every order with the other
commands, and goes on until `again`, past which the two trees need not agree on
anything.

**`BpTree`, `EmployeeManager`.** Nodes are numbers and links are theirs, so a link
that a split forgets is seen. `SearchesAgreed` compares searches by name, by range
and along the leaves with the set of records, and asks of the links that they
point back; it is checked with seven names in every order of insertion, which
split leaves and index nodes up to a third level. `WinnersKept` relates the
tournament to the heaps below, and each heap's top to its members, as long as no
income of somebody in it has changed (`stale`): a second record of a name writes
into the object the heaps point to (`BpTree.cpp:47`), and nothing repairs their
order. Bounds: three names, two departments, two incomes.

**`GraphEngine`.** `LOAD` takes a file described by its header, type, size, edges and
the number of entries of a matrix that can be read, row by row; every command then answers once. The
properties compare answers with definitions over all walks: `TraversalsComplete`
(reachability, BFS by hops, DFS by the deepest open vertex), `NoTreeCheaper`
(all spanning trees), `NoPathShorter` (all paths; and for vertices of the graph Dijkstra refuses exactly
where an edge is negative, Bellman-Ford exactly where a negative cycle can be
reached from the start, Floyd and the closeness exactly where there is one). Bounds: every
graph of three vertices over five of the six pairs with weights -1 and 2, of two
with 0 and 1, a matrix broken off at each entry, loops.

The recursions of these modules (`Attach`, `dfsRecursive`, `RemoveNode`, ...) are
RECURSIVE operators that mirror the code's; no theorem is stated there.

## 8. What is proved and what is only checked

Proved for every value of the constants that the assumptions allow (40 theorems
listed in `PROJECT.json`):

| Part | Theorems about properties the runs check |
|---|---|
| Selective Repeat | types, timers, acknowledgements, delivery, windows, copies, and the refinement of `ReliableDataTransfer` |
| Go-Back-N | timer, copies, acknowledgements, delivery, in both builds |
| file system | no block shared, none lost, a write read back, and the refinement of `FileStore` |
| 08 and 09 | exclusion, semaphore, whole files, order of the log; 09 keeps its thread in the region and implements 08 |
| 01 to 07 | `SessionLogTrue`, `VerdictsInOrder`, `SocketMissedOnce`, `MissesOverlap`, `FilesWholeWhenQuiet` |
| kernel | `CountsExact`, `TidyUnload`, `ForksGiveBack`, `ForksAreCounted` |
| sums | `SumsAgree` |
| circuits | `OutputsMean` |
| page replacement | `ReplacementsHold` |
| CPU scheduler | `SchedulesHold` |

Every theorem of a specification follows the same way: an inductive invariant
with a lemma for its beginning and one for each action or conjunct, and a
temporal step by PTL. TLC has checked on the small instances every property
before it was proved.

The library's induction theorems take an operator as a parameter, which no
installed prover can instantiate. Where an argument needs induction it is one over
numbers or finite sets, stated as a fact about a set: the least element of the
set of counterexamples leads to a smaller one (`LeastNatural`, `SetInduction`,
`FoldIsEarned`), or a set of numbers that goes on from each to the next, up or
down, has them all (`Climb`, `Backwards`, `Descend`). So recursive functions are
in reach, and were proved about, where there is such an argument; RECURSIVE
operators are not, as no backend for arithmetic works in a module that has one.

Only model-checked:

- liveness: `WaitersProceed`, `ZombiesReaped`, `ChildrenServe`, `ChildrenLeave`,
  out of the prover's reach, as is ENABLED;
- the properties of the data structures (`LibraryConsistent`, `SearchesAgreed`,
  `WinnersKept`, `TraversalsComplete`, `NoTreeCheaper`, `NoPathShorter`), whose
  modules are built from RECURSIVE operators.

Every other property of a passing run is the property of a theorem.

## 9. What is not modelled

`PROJECT.json` lists every part with its reason.

- Of the process tracer's Linux files what is not on the way of a fork, an exit
  or the count: memory maps, files and signal tables, `unshare`, caches, and
  `sched.h` beyond the field the project adds. The steps of a fork that use them
  are steps that succeed or fail.
- What `custom_syscall_test.c`, `proc_info.c` and `file_varea.c` print of the
  kernel's data: pure output.
- `homedir.c` and the warm-ups: one library call each.
- The 44 weekly C labs: each a page of sequential code whose state ends with
  `main`.
- `Computer_Architecture`, which has no program.
- Two processes of the file system on one image, and two servers of one proxy:
  the programs take no lock and promise nothing there.

Within the modelled parts the text of messages, the parsing of URLs, headers and
command lines, SHA-1, the layout of paths and the wording of reports are
abstracted: a URL and its cache file are the same value, names and titles are
numbers in their order.
