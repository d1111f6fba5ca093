# OS-in-Parts: a TLA+ verification project

OS-in-Parts is a collection of small C programs in four directories of `src/`,
one program per operating-system topic.  They share no code and do not call each
other (the one exception is `q5/main.c`, which starts the four file tools), so
each program is a component with its own state, and each is modelled by a module
of its own.  What makes them worth modelling is inside each: threads racing for
semaphores and mutexes, a cancellation in the middle of a critical section, a
ring that looks empty when it is full, page tables filled on demand, caches that
answer instead of the table they copy, and schedules.

## Inventory

### Multithreading

| program | state | operations | what is hard | correct if |
|---|---|---|---|---|
| `q2.c` networked servers | five binary semaphores `channels`, `task_count` per thread | `server_func`: wait for two channels, process, post both; `main` joins | circular waiting, contended semaphores | no two servers share a channel, nobody waits for ever |
| `q3.c` warehouse | ring `buffer`, `count`, `in`, `out`; semaphores `empty`, `full`; `mutex`; array `deliveries` | `delivery_truck`, `storage_manager`, `main` joins trucks and cancels managers | several products for one token; cancellation while the mutex is held; an index one past the array | ring never over- or underfilled, all products delivered, the program ends |
| `q4p2.c` thread pool | ring `task_queue` with `front` and `rear`, mutex, condition variable, result matrix | `add_task`, `worker_function`, `main` | full and empty look alike; no join, only `sleep(1)`; wakeups | each task run once, no lost wakeup |
| `q1.c` ordered locks | two mutexes, a round counter per thread | `thread_function`, `main` | failing trylocks; destroying mutexes | no deadlock, nothing destroyed while held |
| `q4p1.c` matrix product | matrices, one thread per element | `compute_element`, `main` | joins before the result is read | the product is complete |

### Segmentation, Paging, IPC

| program | state | operations | what is hard | correct if |
|---|---|---|---|---|
| `q4.c` two-level paging | page directory, page tables, list of bytes, counters | `load`, `store`, `print_statistics` and release | tables and frames allocated on demand, bit-field widths | it is a flat memory |
| `q3.c` TLB | page table, buffer of entries, replacement index, counters, previous addresses | `translate_address` | entries that replace the table, an unchecked array | it is a cache that changes no translation |
| `q5.c` clock replacement | frames with reference and dirty bits, the hand | `handle_page_request` | a marker of -1 in an unsigned byte, the full circle of the hand | second chance; pages that fit fault once |
| `q2.c` segmentation | three segments (constant) | `translateAddress` | signed and unsigned compared, boundaries | segments disjoint, the stack grows down |
| `q1.c` merge sort | array, a pipe pair and two children per process | `mergesort`, `merge` | write ends that every process below inherits, a child that fails | sorted unless a call fails, no number lost, nobody left behind |

### Fork, Wait, Exec, Process Scheduling

| program | state | operations | what is hard | correct if |
|---|---|---|---|---|
| `q4.c` CPU scheduling | process table, clock, queue index | `fifo`, `sjf`, `srtf`, `rr` | ties, gaps in arrivals, last slices | a schedule of one processor without needless idling; srtf optimal; rr fair |
| `q1.c` averages | seven children, the buffer of stdout | `main` | fork copies what printf has left in the buffer | every child waited for, every line written once |
| `q2.c` binary search | a chain of processes | `binary_search` | a fork that fails deep in the chain of waits | one answer is printed, nobody is left waiting |
| `q3.zip` | an archive | - | - | - |

### Hard Disk and File IO

| program | state | operations | what is hard | correct if |
|---|---|---|---|---|
| `q1.c` stations | table of at most 10000 stations | `find_or_add_station`, two ways to read a file | the limit of the table, names that fill their array | a station has all its lines in its figures, or is not there |
| `q2.c` disk scheduling | head position, used requests | `find_nearest_request`, `simulate_sstf` | ties, distances | each request served once, none passed over |
| `q3.c` student records | a file | `main` | - | - |
| `q4.c` redirection | descriptors 1 and 2 and saved copies | `part1`, `part2` | failure half way | descriptors restored, none leaked |
| `q5/` file tools | the file system | `copy_file`, `move_directory`, `count_words`, `list`, `main` | failing write or rename, a file copied onto itself, programs in the same directory one after the other | nothing lost |

## Modules

| module | models | role |
|---|---|---|
| `ServerRing` | - | abstract: servers in a ring, neighbours never busy together |
| `Channels` | `Multithreading/q2.c` | implements `ServerRing` |
| `Warehouse` | `Multithreading/q3.c` | |
| `ThreadPool` | `Multithreading/q4p2.c` | |
| `LockOrder` | `Multithreading/q1.c` | |
| `FlatMemory` | - | abstract: one byte per virtual address |
| `TwoLevelPaging` | `Segmentation, Paging, IPC/q4.c` | implements `FlatMemory` |
| `FifoCache` | - | abstract: first-in first-out cache |
| `TLB` | `Segmentation, Paging, IPC/q3.c` | implements `FifoCache` |
| `ClockReplacement` | `Segmentation, Paging, IPC/q5.c` | |
| `Segmentation` | `Segmentation, Paging, IPC/q2.c` | |
| `Processor` | - | abstract: one processor, idle only while nobody waits |
| `CpuScheduling` | `Fork, ... Process Scheduling/q4.c` | implements `Processor` |
| `DiskSSTF` | `Hard Disk and File IO/q2.c` | |
| `Stations` | `Hard Disk and File IO/q1.c` | |
| `MCSimulators` | `TLB`, `ClockReplacement`, `Segmentation`, `CpuScheduling`, `DiskSSTF`, `Stations` | the initial state picks the program that runs; beside srtf runs a rival schedule |
| `MergeSortPipes` | `Segmentation, Paging, IPC/q1.c` | |
| `ForkAverage` | `Fork, ... Process Scheduling/q1.c` | |
| `ForkBinarySearch` | `Fork, ... Process Scheduling/q2.c` | |
| `MatrixProduct` | `Multithreading/q4p1.c` | |
| `Redirect` | `Hard Disk and File IO/q4.c` | |
| `CopyFile` | `Hard Disk and File IO/q5/copy.c` | |
| `MoveTree` | `Hard Disk and File IO/q5/move.c` | |
| `FileTools` | `Hard Disk and File IO/q5/main.c` | composes `CopyFile` and `MoveTree` |
| `MCProcesses` | the eight modules above | the initial state picks the program that runs |
| `*Proofs` | theorems about the module they are named after; `ProcessesProofs` and `SimulatorsProofs` are about `MCProcesses` and `MCSimulators` | |

### How state and actions correspond to the code

An action is what a thread does between two points where another can come in
between: a semaphore operation, a critical section of a mutex (from the lock
to the unlock or the wait on the condition variable, since nobody else looks at
what the mutex protects), a call that may block.  A sequential program's action
is one turn of its loop.  Names are those of the code where it has them.

- **Channels.**  `pc[s]` says which `sem_wait` or `sem_post` of `server_func`
  is next: `first` and `second` are the two waits (the order of left and right is
  swapped for the last server, as in the code), then `processing`, then `posting`
  between the two posts.
- **Warehouse.**  A truck is at `wait`, at `lock` (has a token of `empty`), or at
  `post` (has delivered, owes a token to `full`).  A manager is at `wait`,
  `lock`, `print` (inside the critical section, in `printf`, which is a
  cancellation point) and `post`.  `cancelled` holds the pending
  `pthread_cancel` requests; `CancelPoint` acts on one in `sem_wait` or `printf`
  and nowhere else, and leaves the mutex locked if it was.
  `deliveries` is indexed from 1 as the code does, so that the last truck's element
  is the memory behind the array: it starts with any value in `Garbage`.
- **ThreadPool.**  `worker[w]` is `lock`, `waiting` (in `pthread_cond_wait`),
  `woken` and `compute`; wakeups may be spurious.  `Measure` ends `sleep(1)` at any
  moment, and after `Free` a worker still computing may end the program
  (`Crash`).  `taken` is a history variable.
- **LockOrder.**  `at[t]` says which call is next, `lockA` and `lockB` their
  owners, `count` the loop counter; `main` creates, joins and destroys.
- **TwoLevelPaging.**  The address is split by division and remainder, which is
  what the shifts and masks do; the list of bytes is a function from physical
  addresses.  `FRAMES` and `COUNTER` are the numbers of values of the bit-field and of
  the counters.
- **TLB.**  An address is the pair of page number and offset the two masks give.
  `Overrun` is the write past `previous_addresses`; nothing is said of what
  follows.
- **ClockReplacement.**  A page number is a byte, so -1 is its largest value, and
  `find_empty_frame` compares it with -1 as an int: it finds no frame, and the
  hand fills the empty ones.
- **Segmentation.**  `AtMostUnsigned` is the comparison of an int with an unsigned
  int.
- **CpuScheduling.**  `algo` picks the policy; each step is one turn of that
  policy's outer loop.  `Ready`, `EarlierThan` and `ShorterThan` say what the
  inner loops choose.
- **DiskSSTF.**  `disk_served` is the order in which the turns of `simulate_sstf` mark
  requests as used; `used_requests` and `current_track` follow from it.
- **Stations.**  A step is a line of the file.  A name that fills its array is stored
  without an end: whether it is found again depends on bytes nobody has written, so
  both outcomes are possible.
- **MergeSortPipes.**  A process is named by the bounds of its segment; `ms_pc` says
  which system call is next.  A process that forks gives its half of the array to the child
  with the write ends of all its pipes, so a read at the end of file waits for
  every process below (`WriteEndOpen`).  `Fail` is any call that returns -1.
  `Merge` counts with `taken` how many elements of the left half each turn of the three loops has copied.
- **ForkAverage.**  `av_buffer` is what printf has left in the buffer of stdout;
  each child begins with it and writes it at its exit.  `av_tty` is whether stdout is a
  terminal, where a line leaves the buffer at its end.
- **ForkBinarySearch.**  `bs_chain` holds the bounds of every process and whether it
  searches, waits for its child or has ended.
- **MatrixProduct.**  Elements are numbered in the order of `threads`; `mt_C` are
  those stored.
- **Redirect.**  `rd_fd` is the table of descriptors, `rd_saved` the two copies.  A step
  does the calls between two tests of a result; how many of two `dup2` in one condition succeed
  is chosen.
- **CopyFile, MoveTree, FileTools.**  A file is a sequence of block numbers.  A
  directory tree is a function from entries to the directory they are in;
  `mv_stack` are the nested calls of `move_directory`, each with the entries
  `readdir` has yet to give.  In the driver each program runs in a child that `main`
  waits for, and `copy` finds its source only where `move` has left it.

## Runs

Passing runs:

| run | bounds | shows |
|---|---|---|
| `Channels` | five servers as in the code, three tasks each | accounting of semaphores, no deadlock, the refinement, every server finishes |
| `Warehouse` | two trucks, two managers, ring of 3, two deliveries | ranges of inventory and semaphores, tokens conserved, products covered by tokens, ring intact, trucks finish |
| `TwoLevelPaging` | 2-entry tables, pages of two bytes, five addresses | frames distinct, one fault per page, mappings last, a flat memory |
| `ThreadPool` | four tasks, three workers | tasks taken once in order, all or nothing, no lost wakeup, one then all |
| `LockOrder` | three threads, three rounds as in the code | B free under A, clean destruction, not all rounds lost, wait-freedom |
| `MCSimulators` | TLB: four pages, three entries, six addresses kept, 7 translations; clock: three frames, six page numbers, 9 requests; segmentation: all boundaries; scheduling: three processes, arrivals and bursts to 3, quanta 1 and 2; disk: up to four of six sectors on five tracks; stations: a table of two, four names, four lines | coherence and refinement of the TLB, working sets and second chance, disjoint segments, refinement of one processor, fairness of rr, optimality of srtf, completion, no request passed over, all lines of a station or none |
| `MCProcesses` | sort: four elements of three values, any call failing; averages: four children; search: 16 elements as in the code and every target; product: four elements; redirection: both parts, any call failing; copy: files of up to three blocks, four kinds of destination; move: three files in three nested directories, any call failing | sorted unless failed with no number lost, nobody left behind, lines once, one answer, output in the file and descriptors restored, faithful copies, no file lost, every program ends |

Runs that find a disagreement between the code and what it says:

| run | what is violated |
|---|---|
| `WarehouseLast` | the last truck's counter lies behind the array: it may exit early and still print that it made all deliveries |
| `WarehouseFinal` | a manager cancelled in `printf` keeps the mutex and `main` waits for ever instead of printing the inventory |
| `TwoLevelPagingStats` | the size of the page tables that is printed counts a table per page fault |
| `ThreadPoolTime` | the ring filled to its last slot looks empty: `main` prints the time of a pool that computed nothing |
| `Segmentation` | an address in the stack faults, because a negative int is compared with an unsigned int |

### Why the bounds are enough

- `Channels`, `LockOrder`: the code's own numbers of threads and rounds.
- `Warehouse`: two trucks and two managers give contention on both sides, the ring of 3
  wraps and is smaller than what the trucks bring (at least 4 products in 2 deliveries
  each), managers take more than one product per token, and one
  manager can be cancelled while another waits for the mutex.
- `TwoLevelPaging`: addresses in one page, in two pages of a table and in two
  tables; every page can be mapped and the frames are just enough.
- `ThreadPool`: three workers are one to compute, one to sleep and one to be woken
  between them; the ring has as many slots as tasks, as in the code.
- `MCSimulators`: more pages than entries or frames, and enough requests that the
  hand and the index go round more than once.  The addresses for segmentation are the
  neighbours of every limit.  Three processes are the fewest for which the order in the
  list, of arrival and of length can all differ; arrivals up to 3 leave gaps in which nobody
  is ready.  Sectors lie on both sides of the head, two of them on one track.
  The table of stations is full before the last station comes, in every
  order.  `MAX_TRANSLATIONS`, `MAX_REQUESTS`, `MAX_DISK_REQUESTS` and `MAX_LINES`
  bound the inputs.
- `MCProcesses`: with four elements the tree of the sort has grandchildren whose
  parent may fail while the root still waits, and halves that are split and halves that are not differ
  only at the leaves.  Four children
  are as good as seven, they do not know of each other.  A destination file is longer or shorter than the
  source.  A directory in a directory makes `move_directory` call itself twice.

Deadlock checking is off where the program stops: each of these models ends
when the program has exited or the bound on requests is reached.
`Channels` leaves it on, with a last state that repeats, and so does
`Segmentation`, which never stops.  `MCProcesses` and `MCSimulators` end with the
program that was picked; `EveryProgramEnds` says of every program of `MCProcesses`
that where it stops it has come to its end.

### Fairness

- `Channels`, `Warehouse`, `ThreadPool`: each thread is weakly fair, the operating system
  runs every thread that can run.  A semaphore hands out no turns, so none of the
  properties may rest on strong fairness, and none does.
  In `ThreadPool`, `Measure` is not fair: how `sleep(1)` compares with the
  work is unknown, and `OneThenAll` allows for it.
- `LockOrder`: only the creation of threads and thread 1 are fair.  `WaitFree`
  says that this one ends even if the others stop with the locks in hand.
- `MCSimulators`: a sequential program goes on while it has a step.
- `MCProcesses`: weak fairness of all steps but the failures of the sort (`GoOn`): some process or
  thread that can go on does so some time, and nobody who is blocked is freed by a call that
  happens to fail.  It is less than the operating system gives to each, and enough, because
  every step of these programs leads towards the end (`EveryStepCounts`, proved).

## Proofs

The theorems hold for every value of the constants that the named assumptions of
the modules allow; where a run checks a property on a small instance the theorem
of the same formula extends it.  Each module `XProofs` defines an inductive
invariant `IInv`, proves that `Init` implies it and that each action preserves it,
and derives the theorems.

- **ChannelsProofs.**  `IInv` ties each semaphore to the program counters of the two
  servers that share it.  `DeadlockFreedom` is the classical argument on the order
  of resources: every server waits for the smaller channel first, so among the
  channels waited for second the largest would have a holder that waits for a
  larger one.  `RingRefinement` maps the second wait to the start of a task and
  the first post to its end.  `NoStepWasted` counts the semaphore operations to go.
- **WarehouseProofs.**  Counting sets of threads: tokens in the semaphores plus
  threads that carry one make `BUFFER_SIZE`.  The mutex's owner must be in the
  invariant, since a cancelled manager keeps both mutex and token.
  From `ProductsCovered` follows that a truck past `sem_wait(&empty)` finds
  room although managers post one token for several products; `RingIntact` adds
  the arithmetic of the ring.  `NoStandstill`: as long as a truck is not done, somebody can
  take a step.  If nobody carries a token the two semaphores hold `BUFFER_SIZE`
  of them, so one lets somebody pass.  It needs that no manager is cancelled before the
  trucks are joined (`CancelledLate`): after that it is false, as the run `WarehouseFinal` shows.
  `NobodyKeepsBusy` has two variants, because managers go round for ever: `TruckToGo` counts
  the steps of a truck, which wants a fixed number of deliveries, and `ManagersToGo` the tokens
  of `full` and the steps of the managers on the way with one.  A step lowers one of them: managers
  alone run out of tokens, and then only a truck can go on.
- **TwoLevelPagingProofs.**  Beside what the runs check, the invariant says that frame
  numbers come from the allocator and that every byte in the list lies in the
  frame of a mapped page: without it a new page could show old bytes.
  `FlatRefinement` uses the uniqueness of the split of an address
  into directory index, table index and offset.
- **ThreadPoolProofs.**  The ring has no count, so the invariant says that there is
  a number `k` of tasks taken, with `front` and `rear` at `k` and `added` modulo the
  size, and that tasks above `k` are in their slots.
  `NothingOrEverythingLost` is then that `k` and `added` agree modulo the size.
  `NoTaskDropped`: what has been taken is in the hands of a worker or in the matrix.  With it
  and `WakeupsKept` follows `OneThenGoesOn`: if no worker computes, what was taken is in the
  matrix, so the ring still holds a task, and a worker is awake to take it.
  Workers may wake without cause and go back to sleep for ever, so not every step counts;
  `NobodyStopsThePool` says that those of workers that can go on do (`PoolToGo`), and that no other
  step stops such a worker.
- **LockOrderProofs.**  Locks are held exactly where the code says; a first holder
  of A always gets B, hence some round is not lost.  `OwnRoundsEnd`: the steps left of a thread
  depend on nothing but itself, since a `trylock` that fails uses up the round as well.
- **TLBProofs.**  Valid entries are all of them or those the index has passed.
  With that the buffer, read from the index on, is the queue of `FifoCache`, and a
  miss appends to it.  The fault on a page without permissions is unreachable, since
  `init_page_table` allows everything and nothing writes the table after.
- **ProcessesProofs.**  `IInv` is the conjunction of an invariant for each program.
  - *Merge sort.*  For `LeftBehind`, `MSIInv` describes the tree of processes: the
    segments of any two are nested or apart (`Laminar`), whoever works inside a
    segment works inside one of its halves (`InHalves`), nobody is in a half before its fork
    (`NotYet`).  Then a process that has merged has nobody running below it
    (`QuietBelow`): either it read a half from each pipe, which a child writes as it ends with
    nobody below it, or it met an end of file, which comes when all write ends are closed.
    This is why an orphan of a failed process cannot outlive the root.  For `SortedOrFailed`,
    `SortIInv` says what a process holds: the numbers of its part of the input, whatever fails
    (`HoldsPart`), in their first order until it merges (`AsGiven`), sorted afterwards unless
    somebody has failed (`InOrder`); a pipe holds the sorted half exactly when its
    writer has exited (`PipeHolds`), and a process that reads has started both children and seen them
    end (`HalvesThere`), so an empty pipe means a failure.
    `MergeCount` and `MergeSorted` say what `merge` returns for two sequences of any
    length.  `SortNeverStuck`: the lowest of the processes that run is blocked by nobody.
  - *Averages, product.*  Returned waits are counted against exits, and what fork copies is an
    empty buffer; a thread joined has stored its element.
  - *All.*  `NobodyWaitsInVain` is the counterpart of `SortNeverStuck` for the search, the
    averages and the product: whoever is waited for can go on, or has left and the wait returns.
    `EveryStepCounts` adds up one variant for each program: program counters weighted by what follows, for
    `move` the entries not yet read.  It rests on `CalledOnce`, that no directory on the stack
    of calls is still to be read, and on the entries being finitely many.
  - *Binary search.*  `BSBounds` says that a target that is in the array lies within the bounds of every
    process of the chain, and that process `k` searches at most `ARRAY_SIZE / 2^(k-1)`
    elements, which bounds the chain; `BSOrder` that whoever has left has nobody below that
    still runs, and that only the last process of the chain answers or fails.
  - *Redirection.*  `RDIInv` gives the table of descriptors at each point of the two parts.
  - *copy.*  `CPIInv`: the destination holds the blocks read so far that were written, and the source is untouched
    unless it is what was opened (and truncated) for writing.
  - *move.*  `MVIInv`: the directories of the nested calls are a path from the top (`Frames`),
    every file is in one place (`OnePlace`), and what is still in the source is either
    still to come in some call of the stack (`Pending`) or has a
    refusal, or another entry left behind, to blame (`Accounted`).  The proof uses that
    the directories above an entry are the least set closed under parents (`AboveLeast`).
  - *Driver.*  `MNIInv`: the programs run one at a time in the order of `main`.
- **SimulatorsProofs.**  `NonePassedOver` is inductive with the types: a request the next move
  would leave behind lies nearer than the one chosen.  `FirstFaultsOnly` needs `Filling`: as
  long as the pages fit, the frames before the hand hold them and those from the hand on are
  as initialised.  `ProcessorRefinement` maps every turn of a policy to a
  run of one process, an idle step or a stutter.  `SharesOfRoundRobin` compares the rounds
  two processes have had (`Even`): those before the queue index have had one slice more.
  `OptimalSrtf` compares srtf with an arbitrary schedule of one processor (`rival`) that runs beside it.
  `NotBehind` says: for every set `D` of arrived processes there is a set `E`, no larger, such
  that srtf has no more left to do for the processes outside of `E` than the rival for those
  outside of `D`.  It is preserved because the tick of srtf goes to a process with the least left:
  if that one is in `E`, it is exchanged for one outside that has work left.  With the processes
  the rival has not finished for `D`, srtf has finished all outside of `E`, at least as many.
  `ProcessesGetDone` says of the four policies that they always find whom to run (a list has an
  earliest and a shortest process) and that every step leaves less to run, fewer to complete, less
  time until all have arrived or, in round robin, fewer turns until somebody gets a slice.
  `NoOverlap` is about the ranges of the three segments.
  `FiguresOfAllLines`: `Recorded` says of every name that it has one entry, with
  the count, sum and extremes of its lines so far, or none, in which case the table was
  full when it first came and stays so.

Two definitions these proofs are about are recursive functions: the turns of `merge`
(`taken`) and the sums of `Stations` (`TotalOf`).
That such a function exists, and what it computes, is shown
by the least counterexample: a set of naturals that is not empty has a least
element (`LeastOf`, `FirstIsLeast`, from the library's theorem that the naturals are well-founded).

The assumptions are those of the constants in the modules, and each has a reason in the code:
sizes are positive, sets of names and pages are finite, the entries below `src` are a finite tree with
`Top` above each of them (`MoveTreeAssumption`), and `"other"` stands for a name
that no station has (`StationsAssumption`).

Every invariant of every passing run is proved, and so are the action properties and
refinements.  Only model-checked are the liveness properties `Termination`, `TrucksFinish`,
`OneThenAll`, `WaitFree`, `ReadyComplete` and `EveryProgramEnds`: fairness speaks of `ENABLED`,
which is out of the prover's reach.  What they rest on besides fairness is proved:

| liveness (TLC) | somebody can go on | a step brings the end nearer |
|---|---|---|
| `Termination` | `DeadlockFreedom` | `NoStepWasted` |
| `TrucksFinish` | `NoStandstill` | `NobodyKeepsBusy` |
| `OneThenAll` | `OneThenGoesOn` | `NobodyStopsThePool` |
| `WaitFree` | `trylock` and `unlock` never block | `OwnRoundsEnd` |
| `ReadyComplete` | `ProcessesGetDone` | `ProcessesGetDone` |
| `EveryProgramEnds` | `SortNeverStuck`, `NobodyWaitsInVain` | `EveryStepCounts` |

The sequential programs of
`EveryProgramEnds` (redirection, copy, move, driver) have nobody to wait for.  Violations are found by TLC
alone.

## Not modelled

- Printing, prompts and parsing of input; averages in floating point.
- Failing `malloc` and thread creation in the programs modelled: the code does not check them.
- Inputs on which a program does not end: a burst of 0 under srtf, a quantum of 0 under
  rr, end of input in `q4.c` of paging.  Round robin with a gap in the arrivals is
  modelled, and goes round its queue for ever; `AllComplete` says so in its comment.
- A thread of `LockOrder` may end without having had the locks at all, when A is
  taken at each of its tries; the message "waiting for Lock A" suggests otherwise.
- `q3.zip` is an archive; `countw.c`, `list.c` and `q3.c` (student records) are a
  pass over a stream, a listing and one read.
- What printf has left in the buffer of stdout is copied by fork in the merge sort and the
  binary search as well, which do not flush it: if stdout is not a terminal, the
  prompt, or the unsorted array, is written again by every process.  `ForkAverage`
  models this for the program that flushes.
- After a failed call the merge sort still prints its array as "Sorted array:".
  `SortedUnlessFailed` says that it then holds the right numbers, not that they are sorted.
- Lines of the stations' file longer than the buffer, paths longer than 1024 bytes, a failing
  read or a short write in `copy.c`, file systems that give no `d_type`.
- A destination of `move` inside its source, for which `move_directory` does not end, and a
  source named other than ".": `rmdir` then removes the source directory too, which changes
  nothing for the files.
- The values of the averages, of the matrices and of seek times and latencies.

## Plan

All programs that keep any state are modelled, and every invariant that is checked is proved.
What is left:

1. The buffers of stdout in the merge sort and the binary search, in the manner of `ForkAverage`.
2. Further refinements, where a program promises more than its invariants say: the
   merge sort and the parallel product as one atomic step of an abstract program.
