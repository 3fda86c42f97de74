# TLA+ models of NixCore OS

This directory holds formal models of the kernel in `src/`, the configurations
with which TLC checks them, and proofs for TLAPS. A module names in its header the
source file it models; `PROJECT.json` maps every definition to source lines.

## 1. The system and its parts

The repository holds two kernels that share little code.

* The **32-bit system** built by `Makefile`: `kernel/kernel.c` initialises the
  screen, the interrupt table, the keyboard, the heap and the disk, mounts the
  file table, and then loops forever: command-line mode drains the keyboard
  buffer into the shell, GUI mode updates and draws windows; `hlt` ends each turn.
  Interrupt handlers run with interrupts off (gates 0x8E); the main loop is not
  protected from them. There is one thread of control besides the interrupts.
* The **64-bit pieces** under `kernel/{sched,mm,net,fs}/` and `kernel/main.c`,
  with NVMe, AHCI, USB and network drivers: a preemptive scheduler, paging,
  sockets and a VFS. No Makefile of the repository builds them into an image.

| Part (source) | State | Operations | Interacts with |
|---|---|---|---|
| kernel heap (`lib/memory.c`) | list of blocks, `memory_used`, `memory_peak` | `kmalloc`, `kfree` | called by files, windows, applications |
| scheduler (`kernel/sched/process.c`) | process and thread tables, five ready queues, current thread | create, yield, tick, exit | called by boot code and, by design, the timer |
| paging (`kernel/mm/mm.c`) | frame bitmap, page tables | alloc/free frame, map, page fault | called by the scheduler for address spaces |
| keyboard (`drivers/keyboard.c`) | modifiers, ring of characters | interrupt handler, poll | calls the shell on Ctrl+C and Ctrl+L, the screen on the scroll keys; polled by the main loop |
| shell (`shell/shell.c`) | input line, history, nano's buffer and position | one handler per character | calls files, heap, games, NixLang |
| files (`fs/filesystem.c`) | table of nodes, current directory, disk sectors | create, write, delete, change directory, save, load | called by shell, NixLang, explorer; calls ATA, heap |
| ATA access (`kernel/hardware.c`) | selected drive | read/write sector | called by files |
| NixLang (`lang/nixlang.c`, `lib/string.c`) | variables, the tokenizer's place, run depth | one line at a time | calls files and itself |
| mouse, windows, applications (`drivers/mouse.c`, `gui/`, `apps/`) | packet bytes, pointer, windows, focus, drag, application records | interrupt per byte, main-loop turn | allocate from the heap; hold addresses of windows |
| text screen (`drivers/vga.c`) | terminal history, cursor, view, screen memory | put, scroll, clear, copy | written by the main loop and by the keyboard interrupt |
| clock (`kernel/time.c`) | ticks, timestamp, zone | tick, set, NTP | sends through the sockets |
| VFS and filesystems (`kernel/fs/`) | registered types, mounts, descriptors, FAT in memory, sysfs entries | mount, open, read, write, close | call the AHCI driver |
| sockets, protocols, E1000 (`kernel/net/`, `drivers/network.c`) | socket table, ARP table, transmit ring | socket calls, clients, reception | share the ring with the card |
| block drivers (`drivers/nvme.c`, `drivers/ahci.c`) | command and completion queues | read, write | share the queues with the controller |
| user heap (`lib/libc/libc.c`) | list of blocks, each linked to the next | `malloc`, `free`, `calloc`, `realloc` | one `kmalloc` at the start |
| games (`games/games.c`, minesweeper of `apps/apps.c`) | snake, board | turns, clicks | poll the keyboard |

What is hard in this code, in short (the full list, line by line, is `hazards`
in `PROJECT.json`):

* *interleaving*: the keyboard interrupt falls between any two steps of the
  main loop, between the emptiness test and `hlt` in particular, and calls the
  shell and the screen directly; the mouse interrupt closes, moves and makes
  windows between two reads of the main loop; processes and the kernel's own
  clients take sockets and transmit descriptors from one table and one ring;
* *shared or stale state*: `thread->next` serves two lists; nano's position is a
  static of another function; file nodes are referred to by table index and the
  table moves; applications hold the addresses of windows that are gone; `strtok`
  keeps one place for lines and words; the ARP table never forgets;
* *long sequences*: splits and merges of the heaps, deletes that renumber,
  switches between queues, focus and closing in a linked list;
* *limits*: full rings, lines, histories and tables, the unsigned time slice,
  the last word of the frame bitmap, ends of files, clusters, months and centuries;
* *failure half way*: process creation, page table construction, a drive that
  does not answer, a command that completes after its caller gave up;
  *restarts*, after which the disk must give back the files.

What makes each part correct: blocks are theirs alone who hold them; a thread is
READY exactly when it is queued, exits are final, urgent ones go first and the others in turn; frames
have one use and a mapping changes one page; the ring of keys is a bounded queue
whose characters are all fetched; the line the user sees is the line the shell
holds; the file table stays a tree with unique names; a click reaches the window
that is seen there and a window follows the pointer; frames leave in order, to
who answered for the address, with checksums that verify; an open file gives its
contents from where the last read ended; a block command gets its own answer; the
date after a date is that of the calendar; the screen shows the text.

## 2. Modules

| Module | Models | State and actions |
|---|---|---|
| `Heap` | `lib/memory.c` | `block` is the list as a function from header address to `[size, free, next]`; `Kmalloc`, `KmallocFails`, `Kfree`; `held` (auxiliary) is what callers own |
| `Scheduler` | `kernel/sched/process.c`, the second add of `kernel/main.c` | tables and queues as in the code, a queue being a sequence of slots; `ProcessCreate`, `ProcessCreateFails`, `ThreadCreate`, `ThreadCreateAndAdd`, `SchedulerYield`, `SchedulerTick`, `SysExit` |
| `ThreadLife` | abstract: life of threads | `Create`, `Switch`, `Exit`, `ExitTo` |
| `Paging` | `kernel/mm/mm.c` | `mem` has bitmap, counter and tables; `InitMap` (one turn of `mm_init`'s loop), `AllocPage`, `FreePage`, `PageFault`, `Panic` |
| `PageMap` | abstract: a map changed one page at a time | `Map` |
| `Keyboard` | `drivers/keyboard.c`, command-line loop of `kernel/kernel.c` | `Press`, `Release`, `Timer` are interrupts; `Check`, `Read`, `Advance`, `Handle`, `Halt` are the pieces of the loop an interrupt can separate |
| `KeyQueue` | abstract: bounded first-in first-out queue | `Offer`, `Take` |
| `Shell` | `shell/shell.c`, input side | one action per kind of character in `HandleInput`, and `CtrlC` |
| `Console` | `Keyboard` and `Shell` composed | a character read from the ring is handled by the shell; Ctrl+C reaches it from `Press` |
| `Filesystem` | `fs/filesystem.c` as the commands use it | `files` is the table, a node named by its place; `Create`, `WriteOld`, `WriteNew`, `RemoveNode`, `Change...`, `Boot` |
| `Desktop` | `drivers/mouse.c`, `gui/gui.c`, launching in `apps/apps.c`, GUI half of the main loop | `desk` has the windows' links, head, focus and drag as in the code; `MousePacket` is the interrupt with every event run to its end, `Update`, `ClampX`, `ClampY`, `StoreX` and `StoreY` are the pieces of `gui_update` and `gui_move_window` that an interrupt can separate: each reads the size of the window, or stores a coordinate, in what lies at the address by then |
| `WindowStack` | abstract: a stack of windows | `Open`, `Raise`, `Close` |
| `Network` | `kernel/net/socket.c`, `drivers/network.c`, `ntp_sync` | sockets, ARP table and ring as in the code; one action per socket call, client and kind of packet received; `CardTransmits` is the card (external) |
| `Storage` | `kernel/fs/{vfs,fat32,devfs,procfs,sysfs}.c`, AHCI reads | mounts newest first, descriptors, the FAT in memory, the inode and the components that a lookup has left; `Mount`, `Open` up to the root of the mount, `Walk` for each component, `Opens` for the descriptor, `Read`, `Write`, `Close`; each sector of a call may fail to be read; `Content` and `Opened` are the files behind the inodes, as `FileStore` sees them |
| `FileStore` | abstract: files with contents, open files with positions | `Open`, `Close`, `Read`, `Write` |
| `Nvme` | `drivers/nvme.c`, I/O queues | `Submit`, `Spin`, `TakeAnswer`, `GiveUp`; `Fetch`, `Complete` are the controller (external) |
| `NixLang` | `lang/nixlang.c` with `strtok`, `strchr`, `strncmp` of `lib/string.c` | a stack of running scripts over one tokenizer place and one table of variables; one action per line and per return |
| `UserHeap` | allocator of `lib/libc/libc.c` | a sequence of blocks in the order of the list, each linked to the next only, and a `size_t` that wraps; it ends in `Overwritten` when `calloc` or `realloc` writes over a header |
| `Clock` | `kernel/time.c` | ticks, NTP, time zone; `DateTime` and `DayOfWeek` are the code's arithmetic |
| `Screen` | `drivers/vga.c` with the keyboard's scroll, Ctrl+C and Ctrl+L | history rows, cursor, view; copying a row to the screen is a step of its own |
| `Minesweeper`, `Snake` | game of `apps/apps.c`, of `games/games.c` | new game, reveal, flag; keys, moves, food. The recursion that opens cells is a loop over the calls that wait, first in the order in which the code makes them |
| `HeapProofs`, `SchedulerProofs` (`Scheduler`, `Clock`), `RingProofs` (`Keyboard`, `Nvme`), `PagingProofs` (`Paging`, `Minesweeper`), `NetworkProofs`, `FilesystemProofs` (`Filesystem`, `Storage`), `ShellProofs` (`Shell`, `NixLang`, `UserHeap`, `Snake`), `DesktopProofs` (`Desktop`, `Screen`) | theorems (section 4) | |
| `MC...` | values of constants that a `.cfg` cannot hold; `MCShell`, `MCStorage` and `MCLibrary` also set modules that share nothing side by side, each explored while the others stand at their beginning | |

Definitions marked *slip* are wrong versions of the definition after them, as a
slip of the pen would produce; each property is confirmed to notice one.

Abstractions that matter:

* Scheduler, shell and heap functions are single steps. For the keyboard and
  mouse handlers this is what the hardware does. For the scheduler it is an
  assumption: no code connects the timer to `scheduler_tick`. The shell's handler
  can really be interrupted by Ctrl+C, and `kfree` of an expired notification by
  the launch of an application; these are among the hazards without a property.
* `Filesystem` starts with three of the default nodes (root, `home`, `nixuser`),
  takes a save as all or nothing, and a restart as a power-on with cleared
  memory. Content sectors, `filesystem_mark_installed` and shutdown are left out.
* `Paging` takes the memory that the functions themselves touch as mapped.
* `Desktop` counts lengths in cells coarser than pixels and abstracts drawing to
  which rectangle is painted last. The memory of a destroyed window may hold any size
  (`Stale`) when it is read; what a store does there, if it is no window again, is not
  followed.
* `Network` keeps of a packet what addressing and checksums depend on. Calls run
  to their end; what a preempted sender would mix in a descriptor is not modelled.
* `Storage` takes the functions that each filesystem's table of operations names:
  the VFS calls them through a member that the structure does not have. The texts of
  procfs do not change while it runs (that of `meminfo` does, with the free pages).
* `Screen` divides the copying into rows and the tab into its spaces; the changes
  of the history buffer within one character are single steps.
* Characters, names, texts and packets are members of small sets; drawing,
  wording, owners and times of files are left out.

## 3. Runs

| Run | Bounds | What it shows |
|---|---|---|
| `scheduler` | two process slots, three threads, three levels (priorities -1, 2, 9), slices of 2 ticks modulo 4, four pids | queues match states, urgency is respected, a waiting thread keeps its turn, `ThreadLife` implemented (exits are final, only READY threads run). Three threads are one running, one waiting, one arriving |
| `scheduler_slices` | one process, two threads, one level, slices of 2 modulo 16 | **violated**: a peer waits for a counter that wrapped (`docs/en/ARCHITECTURE.md:93`). The modulus stands for 2^64: it only has to be larger than a slice |
| `paging` | 12 frames, 2 reserved, words of 5 bits, tables of 2 entries, 16 pages, 4 of them identity-mapped | every frame has one use, tables form a tree, `PageMap` is implemented; memory runs out at every level of the walk, and the bitmap has bits behind the end of memory |
| `keyboard` | a ring of 3 slots; shift, ctrl, caps lock, Up, C | the ring implements `KeyQueue`, every accepted key is fetched. Three slots are enough for empty, half full, full and wrapped |
| `shell`: `Shell` | lines and texts of 3 characters, history of 2, three commands entered, two built-ins | line and history are consistent; nano, opened on an empty text, saves what was typed and not erased, whatever was edited before; three entries overflow the history |
| `shell`: `NixLang` | thirteen scripts, two variables, three nested runs | what a script executes before it stops, and what its variables hold |
| `shell`: `UserHeap` | 136 bytes, headers of 24, `size_t` of 8 bits, requests of 0, 1, 16, 40 and 250 | blocks are apart and as large as asked; 250 wraps when it is rounded, and 13 times 40 in the product |
| `shell`: `Snake` | a field of 5 by 4, a score up to 20 | the snake is one chain between the walls, off its food |
| `console_arrows` | ring of 3; shift, H, Enter | **violated**: a capital H acts as Up (`docs/SHELL_AND_EXECUTABLES.md:37`) |
| `script_lines` | the example of the documentation, started with `nixlang` | **violated**: it ends after its first command (`docs/SHELL_AND_EXECUTABLES.md:50-55`) |
| `storage`: `Filesystem` | 5 nodes, 3 names of which one is cut when stored, a drive that may fail, restarts | tree, current directory, names, contents and saves. Five nodes allow a deleted directory, an orphan and a renumbered parent at once |
| `storage`: `Storage` | five clusters of two units, a root over two clusters, a directory below it, files of one and three units; eleven paths of no, one or two names, through files, devices and processes too; two descriptors | open files implement `FileStore`, misreads included: the read after a failed one is right again |
| `storage`: `Nvme` | queues of three, six calls | the phase bit tells new completions through two wraps and after timeouts |
| `filesystem_persist` | 4 nodes | **violated**: the count of files is not among the bytes saved (`fs/filesystem.c:156`) |
| `desktop` | a screen of 3 by 4 cells with a taskbar of 1, two places for windows, two launches of two kinds of application, with windows of two sizes, three movements by one cell | the list is a stack with the focus on top, windows belong to applications, clicks reach what is seen, a drag catches up. Two places are enough for a window made at the address of a closed one, of another size, while the main loop is moving that |
| `network` | a ring of 3, an ARP table of 2, two sockets, two processes, one local and one remote peer, four frames; behaviours are not followed after the ring overran | order on the ring, next hops, checksums with one and two carries, descriptors. The ring wraps and fills, the table fills, hosts move |
| `library`: `Heap` | 88 bytes, headers of 12, requests of 0, 7, 18, 40 bytes | payloads are apart and stay put, the accounting is exact, what was all freed is one block again. Four sizes give exact fits, splits, fits too tight to split and refusals; up to five blocks give merges with both neighbours |
| `library`: `Screen`, `Clock`, `Minesweeper` | a screen of 2 by 2 over five rows; four spans of time around the leap days of 1972, 2000 and 2100 and two zones; boards of 4 and 8 cells | what the screen shows, the calendar, what a click opens |

`paging` is checked without the deadlock check: an unhandled page fault stops the
processor (`cli; hlt`). `shell` and `storage` end in a step that changes nothing
where a bound on nested runs or on calls is reached or a heap is overwritten, and nowhere
else. Where a run has several rows its modules share nothing: each is explored while the
others stand at their beginning.

The type invariants `TypeOK` of the core modules, and `Tiling`, `FreeUndoesMalloc`,
`OneRunning` and `LoadedIsIntact`, are no properties of a run: all but `Tiling` are
proved (section 4), and what they would catch the properties of the runs catch.

### Fairness

* `Keyboard`: weak fairness of the main loop (the processor executes) and of the
  timer interrupt, which `pic_remap` leaves unmasked and which ends `hlt` although
  it has no handler. Without the timer `EveryKeyIsFetched` fails: a key can fall
  between the test and the `hlt`.
* `Scheduler`: none. No code calls `scheduler_tick`, so that nothing says when a switch
  comes; `UrgentFirst` and `InTurn` say who gets the processor at each that does come.
* `Desktop`: weak fairness of the main loop, for the same reason as in `Keyboard`.
  `DragCatchesUp` speaks of a mouse that rests in the end: while it moves, the
  window stays a step behind. Nothing is assumed of the mouse.

## 4. Proofs

TLAPS proves, for every value of the constants allowed by the named assumptions:

| Theorem | Statement |
|---|---|
| `HeapTypeOK`, `HeapPayloadsDisjoint`, `HeapAllFreeIsPristine`, `HeapUsedIsExact` | `Spec => []...` |
| `HeapFreeUndoesMalloc` | in every reachable heap, for every request |
| `HeapHeldIsStable` | `Spec => HeldIsStable` |
| `SchedulerTypeOK`, `SchedulerQueuesMatchStates`, `SchedulerOneRunning`, `SchedulerThreadsBelong` | `Spec => []...` |
| `SchedulerUrgentFirst`, `SchedulerInTurn` | `Spec => UrgentFirst`, `Spec => InTurn` |
| `SchedulerImplementsThreadLife` | `Spec => RefinesThreadLife` |
| `ClockDatesFollow` | `ClockSpec => DatesFollow` |
| `KeyboardTypeOK`, `KeyboardLoadedIsIntact` | `Spec => []...` |
| `KeyboardImplementsKeyQueue` | `Spec => RefinesKeyQueue` |
| `PagingTypeOK`, `PagingFreeIsExact`, `PagingAccounted`, `PagingTablesFormTree` | `Spec => []...` |
| `PagingRefinesPageMap` | `Spec => RefinesPageMap` |
| `NvmeAnswersMatch` | `NvmeSpec => []AnswersMatch` |
| `NetworkNextHopAnswered`, `NetworkDataReachesPeer`, `NetworkRingInOrder`, `NetworkSumsVerify` | `Spec => []...` |
| `FilesystemCwdIsAttached`, `FilesystemNamesAreUnique`, `FilesystemContentsAreOwned`, `FilesystemSavedIsCurrent` | `Spec => []...` |
| `StorageRefinesFileStore` | `VfsSpec => RefinesFileStore` |
| `ShellLineEndsAtCursor`, `ShellHistoryIsRecent` | `Spec => []...` |
| `ShellNanoSavesTyped` | `Spec => NanoSavesTyped` |
| `ScriptLastStoredWins`, `ScriptRunsToFirstCommand` | `ScriptSpec => []...` |
| `LibcHeldFits` | `LibcSpec => []...` |
| `SnakeIsWholeAlways` | `SnakeSpec => []SnakeIsWhole` |
| `MinesweeperCellsOpen` | `MinesweeperSpec => []CellsOpen` |
| `DesktopFocusIsTop`, `DesktopWindowsBelong`, `DesktopClicksReachWhatIsSeen` | `Spec => []...` |
| `DesktopRefinesWindowStack` | `Spec => RefinesWindowStack` |
| `ScreenAlwaysShowsText` | `ScreenSpec => []ScreenShowsText` |

*Heap.* The inductive invariant is the conjunction of type, `Linked`, `Tiled`,
`Coalesced`, `HeldIsAllocated` and facts on sizes. Tiling alone is not inductive:
a merge moves a block's end to its neighbour's, which needs the neighbour to be
on the list, and disjointness of payloads needs that what is not free is held.
The lemmas about `Take` and `Absorb` speak of any heap, so that they serve for the
heap between the two halves of `kfree` as well. `AllFreeIsPristine` follows
without induction over the list: the least header other than the first has a
free predecessor, against `Coalesced`. `UsedIsExact` is about a fold over a set,
whose recursion takes the blocks in an order that nobody knows: that it has a
solution at all, that it depends on the sizes only, and that one more block adds
its size wherever it comes in that order, are lemmas, each shown on a smallest set
for which it would fail. `HeapAssumption` says that no request wraps when rounded.

*Scheduler.* `QueuesMatchStates` and `OneRunning` are inductive only together: a
switch may put the old thread on a queue because it is RUNNING and hence on none.
The refinement maps a slot's life to its state, and "none" while it is free.
`UrgentFirst` is a property of the step: the thread taken heads the first queue
that is not empty, and by `QueuesMatchStates` every READY thread is on the queue of
its level. `InTurn` follows one thread on its queue: `Enqueue` puts others behind it, since
nobody is queued twice, and `Dispatch` takes the head, which is the thread itself or one
fewer ahead of it. How long a thread stays on the processor is not among what is promised:
`scheduler_slices` shows that the slice has no upper bound but that of its counter. `ThreadsBelong` needs that process identifiers given out are below the
next one, so that a new process shares its identifier with no thread left behind,
and counts the threads of a process before and after each of the failures of
`process_create`.

*Clock.* `DatesFollow` is about the result of two loops at every time from 1970 on, of which
the runs look at four spans. The proof numbers the days: `DaysTo` has the days before a year
in closed form, from which follows that the loop over the years ends, and in the year the
day lies in; `Before` does the same for the months. No two dates have the same number and
the calendar's next date has the next, so that a midnight later the clock shows that one;
Zeller's congruence is, month by month, the number of the day modulo 7. Where the loops
end is told by the recursive functions themselves, which are shown to have a solution
first. `ClockAssumption` says that spans of time and offsets are whole numbers.

*Keyboard.* The invariant says where the loop may be relative to the count: in
`read` and `advance` the ring is not empty, because only the loop empties it; in
`advance` the slot at the tail holds the character loaded, because the handler
writes only to the slot kept free. Two lemmas describe the abstract queue after
a character was added and after one was removed.

*Paging.* The invariant relates three pieces of state: what the bitmap marks is
what has a use, uses are disjoint, and the counter is the number of clear bits.
The counter is what the exactness of the uses needs: the bitmap has bits behind
the end of memory and the search does not stop there, so that only "the counter is
not zero, hence a frame that exists is free and comes first" shows that a frame
that does not exist is never handed out. The lemmas speak of any memory, not of
the variable, so that they serve between the steps of one `vmm_map_page`, which
may allocate up to three tables and then fail. `PagingAssumption` has the sizes
positive and the kernel's pages inside memory.

That the tables form a tree is not needed for this, but for what an address means.
Its invariant gives each table a level: an entry refers to a table one level down,
no two entries to the same, and every table but the top is referred to. The walk of
`vmm_map_page` keeps it when it adds a table, which is new to all, and when it
writes an entry of the last level, which refers to none. Two pages that end in the
same entry have the same four digits (a table has one way to it) and so are one page:
this is why a mapping changes the translation of one page and of no other, and why a
failed one, which may leave new and empty tables, changes none. In `mm_init` the page
that comes next is mapped to nothing, so that its step is `PageMap`'s as well.

*NVMe.* The invariant says what the phase bits of the completion queue show: the
slots before the controller's next one were written in its present lap, the others
in the lap before; and the controller is ahead of the driver by as many slots as
there are completions to take, in the same lap or in the next. Until a wait first
timed out, the command of the waiting call is in exactly one place: on the way to
the controller, in it, or answered. `SizeAssumption` says that the queue is not empty.

*Network.* `NextHopAnswered` needs that what stands in the ARP table was answered,
and that answers are never unsaid. It speaks of frames behind one another, so that
the packets of one call must be kept together when they are appended and the first
of a pair may leave before the second. `RingInOrder` follows the descriptors of one
call frame by frame: while fewer frames wait than there are descriptors, the next
descriptor holds none of them; the indices are compared modulo the ring's length.
`SumsVerify` rests on what folding does to every sum below 2^24: the remainder modulo
65535 stays, and only 0 becomes 0; so a sum and the complement of what is left of it
fold to 0xFFFF, also for the echo request whose sum was set to 0 and taken anew.
`WordAssumption` says that what is summed are words, which the code's `uint16_t` are.
`DataReachesPeer` rests on `Exclusive`: the
descriptor of a process that was alone on it when it connected is not closed, so
that `socket` hands it to nobody else; and no frame carries the name of a process
that has not connected. `ProcessAssumption` says
that no host has address 0 and that the kernel's clients are no processes.

*Files.* Nodes are named by their place in a table that moves. What holds it together is
an order: a node stands behind its parent, because it was made later, and a delete keeps
the order of those it moves down. `rm` removes a node of the current directory, which
stands behind it; so the nodes from the current directory up to the root all stand
before the one removed and keep their places, and the directory stays attached whatever
was deleted. Only what stood below the removed node is cut off, and the commands change
the current directory only to one that is attached. `ContentsAreOwned` follows the
heap's blocks through each step that can fail; `SavedIsCurrent` each save.

*Open files.* The refinement names a file by its inode, in sysfs by its name: an inode of
sysfs is a position in a list, and what the proof needs is that once sysfs is mounted the
list only gets more data (`Extends`), so that an open descriptor keeps its file. The
invariant `StorageInv` says that every descriptor, and the inode that a lookup has come to,
is of a file that can be found (`Known`): a step of the walk goes to an entry that some
cluster holds, whatever that cluster is of, or to what another filesystem has by that name
(`LookupInIs`, `WalkStep`, `OpensStep`); that a descriptor of a sysfs file that takes writes
is not behind its end (a write there would leave a gap that nobody fills); and that the
table in memory is another than the disk's only after `fat32` was mounted with it, which it is
for good. A read of FAT32 gives the slice of the chain's clusters that was asked for where the
chain is as long as the size needs (`Whole`). Nothing is asked of the disk besides: files with
a shorter chain, which are also what data read as a directory may name, are `Loose` in
`FileStore`, which promises nothing of them. `DiskAssumption` only gives the types;
`VfsAssumption` says that the names in sysfs differ, as those that `sysfs_mount` enters do, and
that there is a text for each inode that `procfs_lookup` makes, as there is in `procfs_read`.

*Shell.* The line's invariant is that a C string ends at the cursor, or, on an empty line,
anywhere: after Enter the old line still stands in the buffer, and Tab may bring it back.
The history is the end of the sequence of lines entered, told entry by entry. nano's
invariant is that the editor starts on a cleared buffer and, while the text typed is
known, holds it with nothing but terminators behind it; that is what its two ways
out and the newline, which writes no terminator, need.

*Scripts.* `LastStoredWins` is inductive once it is said of any table and any history
(`Tells`): the search finds the first variable of a name, a store changes that one or adds
one behind the others, so that every other name is found where it was. `add` stores twice
when it makes its variable, and a name that is cut is not found again; what it stored then
counts for no name. `ScriptRunsToFirstCommand` needs what every script on the stack has
done: all but the one that runs have met their first command, because only a command starts
a script; the one that runs either reads, and what strtok has left are exactly its other
lines, all lines before being plain, or has met a command, and strtok has nothing of it. What
lies at address 0 may be taken for a line then, but it is no assignment and no comment and
starts nothing. The theorem says what the code does; that it is not what the documentation
says is shown by `script_lines`. `FilesAssumption` says that files are lines, and that what
stands for the last newline stands at the end; `HashedAssumption` that `#!nixbin` begins with
the character of comments, and what lies at address 0 does not.

*C library.* `HeldFits` has what neighbours say of each other; the proof needs what
any two blocks do: one ends before a later one begins (`Chain`), so that no two have the same
address and a pointer finds its own block. What malloc splits and free merges are two
sides of one relation (`Parted`: one block of a list is two of another), along which
`Chain`, the blocks in use and the free neighbours are followed. After free has
cleared the flag two free blocks may follow each other before and behind the block; each of
the two merges takes away one of these, and the second is tried at the block that the
first has left. A block that `malloc` returned is as large as the size it was given, unless
that wrapped when it was rounded; so `memset` and `memcpy` stay in it, and the heap is
`Overwritten` only after a request that wraps. `LibcAssumption` says that a header is not empty and fits the heap, and
that sizes asked for are numbers; how large they are is left open, `size_t` wraps.

*Snake.* A move puts every cell where the one before it was, so that a chain of
different cells becomes one again if its head met no wall and none of the others; a cell
that was new counts from then on (`Grown`). The food of a turn that ate is off the snake
because `snake_place_food` does not return otherwise. `SnakeAssumption` says that a new game
begins between the walls and beside its food, as the code's values do, and that the array
holds the longest snake: the code's has 100 cells and no test, so that this bounds the score
(`MaxScore`) by 970.

*Desktop.* The recursion that follows `next` from the head is shown to have a solution, and
the list to be a sequence without repetition that the links follow to NULL (`Linked`): this
is what raising a window, which takes it out and puts it in front, and closing one keep.
The invariant `DesktopInv` says that some such sequence holds exactly the windows that exist,
that the head has the focus, and that every window that did not go astray stands on the screen
above the taskbar, and each has an application of its own that holds its address (`Sound`): addresses are used again, so
that an application whose window was closed may hold one that is another's now. A drag
is of the window with the focus and needs the button that `mouse_update` remembers (`Holds`),
which is the mouse's. Of the move under way it says (`MoveOK`) that the coordinates computed so
far fit the window, if that was not destroyed since: its size does not change, and events
change no position. A move that lost its window changes nothing but the position of one that
exists by then, which it leaves `astray`. `WindowStack` is implemented because each event
changes the sequence by at most one opening, raising or closing, and a move none. The
assumptions: addresses are
finitely many and none is NULL; the six frames of `apps.c` fit above the taskbar; movements
are bytes (`mouse.c` reads them as such).

*Screen.* The invariant `ScreenInv` says of a copy that was not disturbed that the rows
before the next one to copy already show the buffer (`Drawn`); an interrupt in between sets
`torn` unless it changed nothing. That nothing stands behind the last line (`Clean`) must
be carried along: `vga_put_entry_at` counts a line that it writes to, and the teletype finds
an empty one there. `OnPaper` compares buffer and teletype line by line through shifts of
the history, also where a full buffer is shifted twice in one `vga_scroll`. What the handler
writes for Ctrl+C and Ctrl+L is a recursive function (`Written`), shown to have a solution,
for any text. `TerminalAssumption` says that there is a screen and that what is printed are
characters.

*Minesweeper.* `CellsOpen` is about what a click has opened when the recursion has come back.
The recursion is a function on games with calls that wait; it ends in a call of itself, so
that it has a solution whether it ends or not (`TailRecursion` takes for a state what all
relations closed under the equation agree on). Between two calls the game is sane but for the
cells that wait (`Going`): a cell around an open 0 is open, was flagged, or waits. What waits
is no mine, unless it is the click itself and nothing waits behind it; when the last cell is
opened with calls still waiting, all of them return at once and nothing is missing, because
the count of open cells is that of cells without a mine. Each call lowers `Left`, ten for a
hidden cell and one for a call. That a 0 has no mine around needs that eight neighbours never
count up to the 9 that stands for a mine. `GameAssumption` says that there are fewer mines
than cells, that the loop that places those of the first game ends, and that no board is larger
than the first, for whose cells the arrays were allocated.

Where a definition recurs (`Folded`, the walk over descriptors, the levels of the tables,
the fold of `UsedIsExact`), the proof does not induct, which the provers cannot: it takes
the smallest argument for which the claim fails, from `LeastNat`, and shows that there
is none. `LeastNat` stands at the head of each module that uses it.

Only model-checked: liveness (`EveryKeyIsFetched`, `DragCatchesUp`), which is beyond the
prover, and the statements that do not hold (`ArrowsCycleHistory` of `Console`, `FilesPersist`,
`SlicesAreShared`, `RunsEveryLine`).

## 5. What is left

The plan of the first version (heap, scheduler, keyboard, shell, files, paging,
then the C library's heap, NVMe, windows, VFS with FAT, network, NixLang) is done,
with the clock, the screen and two games besides. What could still be added:

1. `Shell` with a handler that Ctrl+C can divide, `Heap` with a `kfree` that a launch can
   divide, `gui_render` in steps.
2. `Filesystem` with content sectors and `filesystem_mark_installed`.

## 6. Where the code does not do what it says

Four runs show a statement of the repository violated (`findings`); the modules follow
the code in what follows here as well.

* *Memory.* `mm_init` steps by 2 MB but maps one page of each (`kernel/mm/mm.c:33`
  says "Identity map first 4GB"); the frames of a fault that cannot be mapped are lost.
* *Scheduler.* A time slice that ends with nobody ready wraps to the largest value, so
  that a later peer waits far longer than a slice (`process.c:165`;
  `docs/en/ARCHITECTURE.md:93`); the ready queue overwrites the links of the process's
  list of threads (`process.c:137`, `142`, made at `109`).
* *Shell.* nano opened over a file has its position at 0: what is typed overwrites the
  beginning and cuts off the rest (`shell.c:411`, `417`). So does the position that Ctrl+C
  leaves behind; `NanoSavesTyped` promises nothing of a session that begins with one.
* *Heap.* The main loop frees expired notifications (`services.c:217`) while a click may
  launch an application in the interrupt, which allocates from the same list.
* *NixLang.* A command takes the tokenizer's one place, so that a script ends after its first
  command (`nixlang.c:131-138`; the examples at `docs/SHELL_AND_EXECUTABLES.md:50-57` have
  several); `strchr` never finds the terminator, on which `strtok` relies
  (`string.c:66-73`, `117`); `strncmp` compares the character behind the count
  (`string.c:54-64`), so that no line is taken for the `#!nixbin` mark and executables
  do not run, and `nixlang` takes the mark for a comment; a script within a script clears the variables; one that runs itself has no
  end.
* *C library.* Sizes wrap in `malloc` and `calloc` (`libc.c:22`, `79`): the block is smaller
  than asked for, and `calloc` and `realloc` write past it over the next header (`82`, `99`).
  `HeldFits` says that nothing but a request that wraps does this.
* *Clock.* `ntp_sync` reads the time out of its own zeroed packet, sets the clock to 1900, before the times of which `DatesFollow` speaks, and
  closes a number that is a socket's, not a file's (`time.c:127`); nobody calls
  `time_init` or `timer_tick`.
* *Screen.* An interrupt that scrolls or prints while rows are being copied tears the screen
  until the next copy; `ScreenShowsText` says where it may.
* *Minesweeper.* Mines are placed by steps of three: with a width divisible by three the
  loop does not end (`apps.c:461`); nobody calls reveal and flag. *Snake.* The food's
  place depends on the score alone: when the snake lies there the loop does not end
  (`games.c:175`).
* *Network.* The ring's status is not looked at, so that a full ring loses frames (`RingInOrder` speaks of the time before); the ARP
  table takes the first entry for ever; `network_receive` has no caller; `socket` does not
  mark its slot, so that two callers may connect the same one (`DataReachesPeer` speaks of who
  was alone), and there is no close; 255.255.255.255 is sent to the gateway
  once that is known (`network.c:276`), although the DHCP client means it as a broadcast
  (`socket.c:203`), and `NextHopAnswered` takes it for any remote address; `dns_resolve` returns 0.
* *Storage.* `/` is mounted before `ahci_init` and fails, sysfs is never registered, the
  VFS calls `inode->ops->read`, which the structure lacks; a mount point is compared as
  text, so that `/home` takes `/homework`; results of sector reads are ignored, so that
  what lay in the buffer is taken for an entry or for data; a lookup asks nothing of the inode
  it starts from, so that `/notes/x` reads the data of `notes` as a directory and
  `/dev/zero/null` is `/dev/null`; flags of open are ignored. After a timeout NVMe calls get each other's answers; `AnswersMatch` says
  what still holds.
* *Desktop.* A window closed by its button leaves its application and data; `gui_render`
  paints the focused window first, so that others cover it
  (`docs/en/ARCHITECTURE.md:246` lists "Z-order management"), and `ClicksReachWhatIsSeen`
  speaks of places where windows do not overlap; `gui_move_window` clamps with the size of the
  window it was given and stores into whatever lies there later (`gui.c:305-313`): a window made
  at the address in between may come to lie off the screen or under the taskbar, where clicks
  reach it that are seen to fall on the taskbar; keys are ignored in GUI mode.

## 7. Not modelled

Boot loaders, interrupt and descriptor tables, USB probing, sound and formatting are I/O,
one-time setup or pure functions. The services, notifications and libgui hold lists that
only grow or, for notifications, are emptied by one function; ext2 behind its mount
reads inodes nobody fills. Every part has an entry with its status under `components` in
`PROJECT.json`.
