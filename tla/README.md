# A verification project for the `bitch` kernel

`bitch` is a small kernel for 32-bit x86 PCs: one processor, a preemptive
round-robin scheduler, a bitmap allocator of physical pages, a window of kernel
virtual pages, user address spaces, an ATA driver polled and driven by
interrupts, FAT file systems read-only, a keyboard and a text console, and four
system calls. This directory holds TLA+ modules that model its core, the TLC
configurations that check them, and theorems checked by TLAPS.

`tlc -config SchedLocks.cfg Scheduler` runs one check; `tlapm FreeRaceProofs.tla`
checks the proofs of one module. `PROJECT.json` lists for every definition the
lines of the code it translates, every run, and for every property a small bug in
the code (an operator marked "mutation" before the definition it changes) that
makes TLC find the property violated.

Contents: [1 the system](#1-the-system), [2 modules](#2-the-modules),
[3 runs](#3-the-runs), [4 fairness](#4-fairness), [5 proofs](#5-the-proofs),
[6 what the code gets wrong](#6-what-the-code-gets-wrong),
[7 not modelled](#7-not-modelled), [8 plan](#8-plan).

## 1 The system

Everything runs on one CPU. Kernel code of a process (a system call, the loading
of a program, a page fault's caller) runs **with interrupts enabled** unless it
says `disable_intr`, so the timer may stop it between any two instructions and the
scheduler may let another process into the same kernel code. Interrupt handlers
run with interrupts disabled, after the 8259 has been told they are done
(`driver/i8259.c:18`), and are atomic. The kernel has no other protection: three
calls of `process_lock` around allocators are commented out.

| component | state it keeps | operations | entered from |
|---|---|---|---|
| physical pages, `mm/pmm.c` | bitmap, `pmm_head_pos`, `pmm_tail_pos`, count | allocate one page from the top, a block from the bottom, free a block | `vmm.c`, `umm.c`, the page-fault handler |
| kernel window, `mm/vmm.c`, `mm/kmm.c` | `globl_mmap_pte`, `vmm_pos`, count | allocate and free blocks, map frames for a while | processes, **the scheduler** (`process.c:57`) |
| user memory, `mm/umm.c`, `mm/vmm.c` | page directory and tables of each process | page fault, map a buffer, unmap, free everything | exceptions, system calls, program loading, exit |
| kernel heap, `mm/alloc.c` | list of blocks in pages | `kmalloc`, `kfree` | `exec`, disks, file systems |
| processes, `process/process.c`, `switch.S` | ring of `process_t`, `current_process`, `process_tick` | create, exit, scan and switch | `exec`, `sys_exit`, timer, `int 0x20` |
| locks and waits, `process/lock.c`, `wait.c` | a byte per lock, `process_t.lock`, `.state`, `.tick` | `process_lock`, `process_unlock`, `intr_lock`, `intr_unlock`, `process_wait` | ATA driver, `sys_get` |
| timer, `driver/timer.c` | `process_tick` | count a tick, scan | IRQ 0 and `int 0x20` |
| ATA, `driver/ata.c` | a process lock and an interrupt lock per bus | identify, read, (write) | disks; IRQ 14 and 15 |
| FAT, `fs/fat.c`, `fs/fs.c` | the header of each volume, `root_dir_count` | recognise a volume, walk a path, list a directory, read a file | `dev/file.c`, disks |
| disks, `dev/disk.c`, `part*.c` | list of disks and partitions | create, map, read the tables, read | boot, file systems |
| keyboard, `driver/atkbd.c`, `dev/keyboard.c` | modifier flags, prefixes, LED state, callback | decode a scan code | IRQ 1 |
| `sys_get`, `syscall/io.c` | `key_lock`, `key_c`, `key_len`, callback | ask for keys; store a key | system call; IRQ 1 |
| console, `dev/console.c`, `driver/cga.c` | `xpos`, `ypos`, screen | print a character, scroll | `sys_put`, key echo, `printk` |
| program loading, `process/exec.c`, `binfmt/*` | none | `exec`: read, map, create | process 0, `sys_exec` |
| system calls, `syscall/*.c` | none | put, get, exec, exit | `int 0x80` |
| interrupt dispatch, `intr/*`, `driver/i8259.c` | handler tables, masks | register, dispatch | hardware |
| boot, `kernel.c`, `init.S`, `mm/init.c`, ... | descriptor tables | runs once; interrupts are enabled at the end of `intr_init` | boot loader |

How they interact: `exec` allocates a directory and a buffer, opens and reads a
file (FAT, disk, ATA, which takes the bus's process lock and sleeps on its
interrupt lock), maps the segments and creates a process. The scheduler, called by
timer, sleepers and exits, is the only place where sleepers are granted process
locks, and where an exited process's stack goes back to the kernel window, in the
middle of whatever the interrupted process was doing. The keyboard's interrupt
echoes on the console and wakes `sys_get`.

What makes it hard, and what correctness means, part by part:

* **Pages.** The window `head..tail` only keeps searches short, but a free page
  outside it is lost until the next boot. Correct: bitmap, window and count agree
  with what callers hold, in any order of allocations and frees; cut anywhere by
  the timer, a bit is never wrong and the count is wrong only while somebody is in
  the middle.
* **Window and user memory.** Allocations bracket themselves with
  `disable_intr`/`enable_intr`, which do not nest; frees do not bracket at all; a
  failure half-way takes a rollback path. Correct: no frame has two uses, none is
  lost, no page of the window belongs to two blocks, no free page is out of reach.
* **Scheduler and locks.** Going to sleep takes three steps, testing and sleeping
  on an interrupt's word takes more; the scheduler loops with interrupts disabled
  until it finds a runnable process; insertion into the ring takes two steps.
  Correct: locks exclude, no wakeup is lost, the ring stays one cycle of exactly
  the live processes, everybody gets turns, no freed stack is used.
* **ATA.** The interrupt word is re-armed between waits. Correct: whoever goes on
  after `intr_lock` finds the data of its own command.
* **Disks.** Tables found on a drive are followed recursively, with lengths nobody has
  checked, while reads and allocations fail. Correct: a partition lies inside its disk,
  no read outgrows its buffer, sound tables are found whole.
* **Paths.** A name is spread over entries that other systems delete and break; two
  processes walk at once and share the root's count. Correct: a path leads to the
  entry the format says, a listing has each name once.
* **Files.** A read is cut at clusters, at sectors and at the end of file, disk
  and drive. Correct: the bytes delivered are the file's bytes, in place, inside
  the caller's buffer, and the answer says how many.
* **Keyboard input.** A request lives in four global variables, set one after the
  other and consumed by an interrupt that may come between any two. Correct: keys
  go to the process that asked, its answer is whole, and it does not hang.
* **Keys and console.** Scan codes arrive byte by byte; `xpos` and `ypos` are read and
  written one by one by every process that prints and by the echo of keys; the
  display's cursor goes out in two bytes behind a register number. Correct: the
  decoder's flags are the keys held, the position comes back to the screen, the cursor
  is shown there.
* **Heap.** Blocks share pages with their neighbours in the list, which is ordered by
  allocation. Correct: blocks are apart, a page goes back when and only when its last
  block does.
* **Loading.** `exec` and the new process take a page directory, a path on the heap and
  a mapped segment, and can fail anywhere. Correct: the path lives as long as it is
  read, what was taken is given back, a program runs whole or not at all.

## 2 The modules

### PageAllocator, PhysMem: `mm/pmm.c`, operations atomic

`PhysMem` has the bitmap as the set `used` of pages whose bit is set (the padding
bits of the last byte and the pages below the first usable one included), `head`
and `tail` for `pmm_head_pos` and `pmm_tail_pos`, `freeCount`, and a ghost `held`
for the pages callers hold. `AllocPage`, `AllocPageFail`, `UpAllocPage`,
`UpAllocPageFail` and `FreePage` are the functions and their error returns; the
search loops are the sets of positions where they can stop (`TailFit`, `HeadFit`),
of which the code takes the first. Callers hold what they free and may free a part
of a block, as `umm_free` and `vmm_free_page` do. `PageAllocator` is the promise to
the rest of the kernel: pages are free or held, granted and returned. `PhysMem`
implements it with `free` mapped to the clear bits.

### FreeRace, FreeRaceProofs: `mm/pmm.c` under the timer

Extends `PhysMem` with processes that are inside the allocator at once. What runs
with interrupts disabled is one action (`Allocate`, `MapFirst`). What does not is
split at each access to memory: `pmm_free_page` (`FreeEnter` .. `FreeAdd`) and the
`pmm_alloc_page` of a segment's later pages (`MapNext` .. `OpenCount`), which
`vmm_mmap_pde_page` believes to be protected: allocating a page table at
`vmm.c:138` goes through `dmm_alloc_page`, and its `enable_intr` at `vmm.c:190` ends the
section opened at `vmm.c:125`. A byte `or`/`and` with a bit and an increment of a
count are single instructions and single actions. Behaviours end (a visible
stutter) with the first page granted twice: nothing is claimed of a machine in
that state.

### VirtMem, MCVirtMem, VirtMemProofs: `mm/vmm.c`, `mm/kmm.c`, `mm/umm.c`

State: `kmap`, the entries of `globl_mmap_pte` behind the direct mapping; `vmmPos`;
`vmmFree`; for each user process the frames of its directory, tables and pages;
`free`, the frames the page allocator would grant: `PageAllocator` stands in for
`PhysMem`, any free frame may be the next. `job[p]` is where a process is inside an
operation and that operation's locals.

* `KAlloc`, `KAllocFail` (`vmm_alloc_page` with its rollback), `KFree`,
  `KFreeFrame`, `Remove`, `TestPos`, `StorePos`, `AddCount` (`vmm_free_page`,
  `vmm_ummap_page`, cut at each access, interrupts enabled).
* `AllocPde`, `Exit`, `FreeTable`, `FreePde` (`umm_alloc_pde`, `umm_free`).
* `Fault`, `MapOne`, `SetOne` (`umm_handler`, `umm_mmap_kmm` page by page),
  `MapBegin`, `MapFrame`, `MapSet`, `MapEnter`, `MapEnd`, `MapFail`
  (`vmm_mmap_pde_page`), `Unmap`; `SetUser`, `SetUserFail` are `set_umm_value`, which
  allocates a page table where there is none.

Memory is at most `DMMAP_PAGE_MAX` pages (512 MB), so `vmm_mmap_page` of a frame is
the direct address. Two ghosts end what the properties claim: `raced` (somebody
takes pages inside a section another has opened and not finished, or two stores of
`vmm_pos` overlap), `broken` (a search has run below the window: `p - i < 0` is never
true of unsigned numbers, `vmm.c:42`). A third, `failed`, notes a half-way failure,
whose rollback frees page 0 (`Zero`) instead of the frames.

### Scheduler, MCScheduler, SchedulerProofs

The processes of `process.c` with `lock.c`, `wait.c`, `timer.c` and the lock protocol of
`ata.c`. A process is named by its stack, at whose bottom `process_t` lives. `pc[p]`
is its place in the code; interrupts are enabled exactly while `last = NoProc`.

* A process: `LockStore`, `LockSleep`, `LockInt` (`process_lock`), `Unlock`; `IntrArm`,
  `IntrStore`, `IntrOpen`, `IntrShut`, `IntrSleep`, `IntrInt` (`init_intr_lock` and
  `intr_lock`, test first, sleep later); `WaitStore`, `WaitSleep`, `WaitInt`; `Exit`;
  `CreateAlloc`, `CreateLoad`, `CreateLink` (`process_create`: the slot, the copy of the
  creator's link, the creator's own); `BootDone`, process 0 entering its idle loop.
* Interrupts: `Timer`, `Irq(l)`.
* The scan (`switch_to`), one iteration an action, nothing else meanwhile:
  `ScanRun`, `ScanLock`, `ScanWait`, `ScanExit` (unlinks the exited process and frees
  its stack) and `ScanStale`, the step to a pointer into freed memory, after which
  `crashed` holds and nothing more is claimed.

`due[p]` counts the ticks still to come rather than `process_tick`'s absolute value;
`int 0x20` enters the timer's handler and so counts a tick as well. Ghosts `stale` and
`raced` record how a link got to freed memory. `passed[p]` is the
history of who was granted the lock `p` sleeps on and has not exited since: the slot of an
exited process may come back as another one.

### Heap: `mm/alloc.c`

`block` has the header of each block under its address (page and offset), linked by
`last` and `next`, and `pos` is the last of the list. `kmalloc` is `MallocTail` or
`MallocPages`, `Grant` or `Refuse` (`vmm_alloc_page`), `Fresh`, `Link`; `kfree` is `Free`,
`Unlink`, `GiveBack`. From the first read of the list to the last store into it
an operation is in a section that nothing protects; asking the window for pages and
giving them back happens outside. `raced` says that two sections overlapped,
which the code allows: then a block is lost or chained twice, and nothing more is
claimed. `held` are the window's pages the heap has.

### Loader, MCLoader, LoaderProofs: `process/exec.c`, `binfmt/binfmt.c`, `binfmt/elf.c`

Extends `Heap` with the callers that start programs. `step[j]` is where `exec` and then
the process it creates are: `Exec`, `Malloc`.. `MallocDone` or `MallocFails`, `Create` or
`CreateFails`, `ReadHeader`, `NotElf`, `ReadFails`, `NextSegment`, `MapSegment`, `MapFails`,
`FillSegment`, `FillFails`, `Loaded`, `FreePath`.. `FreeDone`, `EnterUser`, `Exit`. The caller
`Boot` stands for `disk_create` and `fat_init`, which keep their blocks for good. A
`file_read` that answers less than a header passes the test for -1: `seen` is what
the process then takes for the header, and `short` notes it.

### Disks, MCDisks, DisksProofs: `dev/disk.c`, `dev/part/*.c`, the boot part of `fs/fat.c` and `process/exec.c`

A machine is a sequence of drives, each with the words of IDENTIFY and what its
sectors mean. `NoDrive` and `DiskCreate` are `init_status`; `ReadMbr`, `MbrPart`,
`MbrExtended`, `MbrGpt`, `MbrEmpty`, `TableDone` are `mbr_part`, which calls itself: `stack`
holds the calls under way. `ReadGpt`, `GptPart`, `GptError` are `gpt_part`; `DiskMmap` is
`disk_mmap` with its wrapping test; `FsInit` is `fat_init`; `ExecInit` takes the first disk
that has `init`. `Answer` is what `disk_read` and `ata_read` make of a sector: data, nothing
(an answer of 0, which nobody tests: the buffer keeps what it had), or a count that
wraps and fills more than the buffer (`overrun`, where a behaviour ends).

### KeyInput, KeyInputProofs: `syscall/io.c`

`keyLock`, `keyC`, `keyLen` and `callback` are the request; `SetLock`, `SetPtr`, `SetLen`,
`Arm`, `Register`, `Wait`, `TestLock`, `ClearLock`, `Leave` are the statements of `sys_get`;
`Key` is the interrupt handler as far as `key_get`. The lock byte on the stack is
not initialised by the code: its first value is either. `raced` says that a
request was written over one not answered yet, which the test of `key_len`
(`io.c:30`) does not exclude.

### Console, Keyboard, MCKeyboard, KeyboardProofs: `dev/console.c`, `driver/cga.c`, `dev/keyboard.c`, `driver/atkbd.c`

`Console` is `console_putchar` called by processes, one action for each load and store
of `xpos` and `ypos` in the compiled code: the branch on the character (`BackLoad`,
`TabLoad`, `Home`, `Down`, ...), the write (`PushY`, `PushX`, `Write`), the two tests
(`TestX`, `Wrap`, `WrapDown`; `TestY`, `Scroll`) and the four bytes of `set_cursor`.
`PutChar` is a whole call in an interrupt handler. What the cells show is not
modelled; the ghost `mixed` says that the latest calls overlapped.

`Keyboard` extends it with the decoder. `wire` holds the scan codes of a key event that
are still to come, each an interrupt (`ScanPrefix`, `ScanBreak`, `ScanMake`); `flags` and
`emul0` are the bits of `key_flags` that are read. `KeyMap` has one row for each kind of
key. The keyboard is the environment: a key repeats while it is down, an extended
key has a prefix, a navigation key under a shift key is wrapped into codes that look
like that key's release, Pause sends codes of other keys.

### FileRead, FatDir, MCFatDir, FatDirProofs: `fs/fat.c`, `dev/disk.c`, `driver/ata.c`

In `FileRead` one request is made of a file: `ReadFile` cuts it at the end of file,
`SkipCluster`, `ReadOver`, `ReadLast`, `NextCluster` are the two loops of
`read_cluster`, `ReadError` and `NextError` a failing drive. A byte is its address on
the drive; `buf` tells which byte was written where, so a byte out of place or out
of the caller's buffer is seen. `AtaCount` and `DiskCount` are the arithmetic of
`ata_read` and `disk_read`; `Word` is the range of `_size_t`, here small so that the
32-bit product of `fat.c:130` can wrap.

`FatDir` puts the names before it. Several processes call `fat_read` or `fat_readdir`;
each walks its path (`SkipEmpty`, `EnterDir`, `NotDir`), counts the directory
(`CountClusters`, where the root's count is shared) and scans it entry by entry:
`ScanEntry`, `RestEntry`, `RestBroken`, `StdEntry`, `NotFound`, or for a listing `ListEntry`,
`ListRest`, `ListStd`, `NoMore`. `BadRead` is a failed read of an entry, after which the
call goes on with what the stack holds and may answer anything. `ReadFound` opens the
file found, and `FileRead`'s actions read it. An entry is a record of what the code
looks at; a name is the sequence of its 13-character pieces.

## 3 The runs

| run | module, config | instance | checks |
|---|---|---|---|
| physmem | PhysMem | 12 pages, 3 reserved, blocks of 1 to 3 | `Accounted`, `FreeInWindow`, `CountExact`, implements `PageAllocator` |
| free_race | FreeRace | 8 pages, 3 reserved, blocks of 1 and 2, two processes, one of them loads segments | `BitsTold`, `CountOwed`, `LossNeedsOverlap` |
| open_alloc | FreeRace, OpenAlloc.cfg | the same | `OneHolder` is violated |
| sched_create | MCScheduler, SchedCreate.cfg | 4 slots, one bus, all create, three exit; the workers are symmetric | `MutualExclusion`, `DataReady`, `RingIntact`, `StackAlive`, `BypassedOnce` |
| sched_locks | Scheduler, SchedLocks.cfg | 3 slots, one bus | `LockServed`, `IrqServed` under fairness |
| sched_turns | Scheduler, SchedTurns.cfg | 3 slots, no bus, waits of 0 and 2 ticks, creations and exits | `ScanEnds`, `WaitOver`, `TurnComes` under fairness |
| key_input | KeyInput | two readers, answers of 1 and 2 keys | `AnswerWhole`, `LockAlive`, `GetEnds` under fairness |
| keyboard | MCKeyboard, Keyboard.cfg | a screen of 2 lines of 4 columns, one process that prints, five keys (a shift, an extended control, a navigation key, a letter, Enter) | `Settled`, `CursorShown`, `FlagsAgree` |
| virt_mem | MCVirtMem, VirtMem.cfg | 4 frames, a window of 4 pages, a user space of 3 pages under 2 tables, one user process beside one kernel path; the frames are symmetric | `FrameOnce`, `BlocksApart`, `WindowComplete`, `CountExact`, `BreaksOnlyFull` |
| file_read | MCFatDir, FileRead.cfg | a FAT16 and a FAT32 volume, two processes, twelve paths, places 0 to 3 of a listing, one failed read in the walk; sectors of 2 bytes, clusters of 1 and 2 sectors, files of up to 4 clusters in any order, every request, every drive error | `BytesInPlace`, `AnswerExact`, `PathFound`, `ListingExact` |
| loader | MCLoader, Loader.cfg | a heap of 4 pages of 5 bytes, paths of 2 and 3 bytes and of 1 page and 2 bytes, the disks' caller and two programs | `BlocksApart`, `PagesHeld`, `PathAlive`, `NothingKept`, `RunsWhole` |
| disks | MCDisks, Disks.cfg | nineteen machines of up to four drives, room for 3 or 14 blocks, one failed read | `PartsInside`, `BuffersKept`, `AllFound` |

Why these bounds are enough for the questions asked:

* *physmem.* Twelve pages end in the middle of a byte of the bitmap, so there are
  padding bits behind the last page for the block search to run into; nine usable
  pages fill up with blocks of 1 to 3 and are freed in every order, from both ends.
* *free_race.* Five usable pages and two processes in the allocator at once: a
  free of two pages cut by another free, or by an allocation, at every access.
* *sched_create.* Four slots allow a creator, an exited successor, a third process
  in between and a slot to give out again: the smallest ring in which the race of
  `process_create` reaches a freed slot. The three workers contend for the bus, so that
  one may be passed by another more than once. The properties treat the workers alike,
  and no liveness is checked under symmetry.
* *sched_locks, sched_turns.* Three slots: one waits, one runs, one is process 0.
  The runs are apart because one bus and waits together only multiply states;
  what they share, the scan, is in both.
* *virt_mem.* Four frames and four window pages run out in every way (no frame for
  a page, a table, a directory; half-way through a block; no page in the window).
  Three user pages under tables of two put a buffer across a table's end. One user
  process and one kernel path give every overlap of two; the state with five
  frames was explored once (2.2 million states) with the same result.
* *file_read.* Four clusters are enough to begin, end, skip and cross; the first
  volume ends with the drive (`TouchesEnd`), the second has a cluster whose distance
  from cluster 2 is more than `Word` counts (`TooFar`). The FAT16 root holds a label, a
  deleted entry, a long name broken before the whole one, a stale name before another
  system's entry and an unfinished name at its end; the FAT32 root fills two clusters,
  so that its count can come out short.
* *loader.* Paths that share a page with another, fit it exactly or need two; four
  pages run out. Two jobs and the disks' block give three blocks: enough for a page whose
  blocks were linked at different times and for one freed between two that stay; longer
  lists are covered by the theorems.
* *disks.* Machines with each table the code treats differently: sound tables in all
  three forms, a chain of three, a table over itself, entries too long, empty, ending
  before they begin or behind the drive, two GPT entries, a GPT inside an extended
  partition (one whose entry wraps, one over its own table, one left over from an earlier
  layout), drives absent, without LBA, with both counts. `Word` and the sector
  numbers are small, so that sums wrap.
* *keyboard.* One printing process is interrupted at each of its memory accesses by
  whole echoes, with a tab stop inside the line and one behind it; several processes are
  covered by the theorem `CursorSettles`. The keys have a prefix or not, and are
  modifiers or not, in every combination the decoder tells apart.
* *key_input.* Answers of two keys have a first and a last; two readers overlap.

`CHECK_DEADLOCK FALSE` is set where the system stops: VirtMem ends where `broken` or
`raced` end the claims or where nothing is left to allocate, Disks when `exec_init` has
run, FileRead after one request, Loader when `raced` ends the claims or both programs have
failed for good. In the others a state without a successor would be reported.

## 4 Fairness

Safety runs assume none. The liveness runs assume what the code and the hardware
give:

* *Scheduler.* A process's next step is strongly fair (`SF_vars(Continue(p))`,
  `SF_vars(Unlock(p))`): a time slice is ten million cycles, so a process that is given
  the CPU again and again executes its next instruction in some slice. Beginning
  something (a lock, a creation, an exit) is never assumed. An interrupt is strongly
  fair: the 8259 keeps it latched until the CPU accepts it. The timer is strongly
  fair for the same reason. The scan is weakly fair: it runs with interrupts
  disabled and nothing else runs. `BootDone` is weakly fair: process 0 ends `exec_init`
  and then idles in state RUN for ever, which is why a scan always ends.
* *KeyInput.* `WF_vars(Key)`: somebody goes on typing. `SF_vars(Proceed(r))`: the
  scheduler gives each reader its turn (`TurnComes`), and a reader halting in
  `sys_get`'s loop looks again after each interrupt.

That no process starves at a lock rests on the ring: `BypassedOnce` states it without
fairness.

## 5 The proofs

TLAPS checks them for every value of the constants that satisfies the module's
assumption:

* `PhysMemAssumption`, which FreeRace shares: the first usable page lies within memory.
* `VirtMemAssumption`: the window has two pages or more, a block one or more, page 0 is
  no frame, and processes are finitely many (each has a stack in memory).
* `SchedulerAssumption`: process 0 is a slot and does not exit; slots are finitely many,
  for the same reason.
* `HeapAssumption`, `LoaderAssumption`: a page has bytes, a length is one or more pages, NULL
  is no address.
* `ConsoleAssumption`: the screen has lines and columns, and the places on it fit in the
  two bytes of the display's cursor register. `KeyboardAssumption`: a key has a row of the
  key map and is extended or not.
* `KeyInputAssumption`: lengths are numbers, and nobody is not a reader.
* `DisksAssumption`: the fields of the tables fit in their words; a GPT's sector numbers
  have the 64 bits of `Word`, those of an MBR (32) and of IDENTIFY (48) are so far below
  that their sums do not wrap.
* `FileReadAssumption`, `FatDirAssumption`: sectors and clusters have bytes, clusters are
  numbered from 2 and lie on the drive; a directory is a sequence of entries, and an entry
  that is a directory leads to one.

**FreeRaceProofs, operations atomic.** `Inv == TypeOK /\ Accounted /\ FreeInWindow /\ CountExact` is
inductive as it stands (`PhysMemInvariant`). The parts need each other: a freed block
lies among the usable pages only by `Accounted`; the count changes by the size of a
block only because all its bits were clear, or set; an allocation may move
`pmm_head_pos` or `pmm_tail_pos` only because the page taken was the extreme one.
From it follow `PagesAccounted`, `WindowComplete`, `FreeCountExact`, `OnePageAlwaysServed`
(a request for one page fails only with fewer than two pages free) and
`Refinement`: each operation is a grant, a return or a stutter of `PageAllocator`, which
is what allows `VirtMem` to use a free set in place of the bitmap.

**FreeRaceProofs, under the timer.** The same allocator cut at each access to memory, for any number of
processes in it (`RaceInvariant`). `BitsAlwaysTold` holds even after a page has been granted
twice; that a bit a free has still to clear is nobody else's (`BitsInv`) holds until then.
For `CountNeverLost` what is owed is a set of pairs of a process and a page, so that two
frees of one page would count twice; the proof needs that it is finite, which it is
because each step changes the share of one process. `LossComesFromOverlap` rests on
`WindowInv`: as long as nothing overlapped, a free is the only one (`Alone`), a page it has
cleared and the window does not hold yet is one it is about to widen the window by
(`AboveHead`, `BelowTail`, `JobSees`), and an open allocation that steps over a page has seen
it in use and nobody has freed it since.

**VirtMemProofs.** `LayoutInv` says where each operation of `vmm.c` and `umm.c` is and what it
relies on there (`Jobs`), and that kernel blocks, buffers and what is being given back
have pages of their own (`Apart`). At its centre is that one process at most is inside
the section of `vmm_mmap_pde_page` until `raced`: the run of pages it chose, ending at
`vmm_pos` or below, is still unmapped when it enters them one by one. `PagesApart` follows
at once. The other theorems each add an invariant of their own on top:

* `NoPageLostAbove`, `SearchFindsABlock`: `WindowComplete` is inductive given `Jobs`, because
  the test and the store of `vmm_free_page` do not overlap with another's. A search that
  steps below the window (`BreaksStep`) then has passed every place where a block fits: a
  block that fits would end at or below `vmm_pos` and be met first.
* `FramesOnce`: `Once` strengthens `FrameOnce` by what a step can tear apart: kernel pages,
  those being freed included, hold different frames (`KPages`); tables, pages and
  directory of one address space are different frames (`Distinct`); and the frame a
  process has taken and not entered yet is nowhere else.
* `FreeCountExact`: the counter and the number of unmapped pages differ by what operations
  in the middle owe, `DueGiven` and `DueGot`. Each step moves as much on one side as on the
  other (`Moves`), and between operations nothing is due (`NothingDue`).

**SchedulerProofs.** For any number of processes and buses `MutexHolds`,
`LockByteTrue` and `AnswerReady`. `MutualExclusion` and `LockTold` are not inductive.
`LockInv` adds three facts: `Placed`, where in the code a process can be when it sleeps
and on which word; `AwakeOnCpu`, outside the scan the current process sleeps only
between setting its state and the software interrupt; and `Answered`, an outstanding
drive interrupt has a shut word and an owner of the bus that has not passed its wait.
The proof has one step per group of actions that touch the same state. The critical
steps are `ScanLock`, which grants a word that is 0, and `Unlock`, whose process must be
the owner: it is on the CPU, so by `AwakeOnCpu` it does not sleep on its own lock.

`RingInv` is about the links. `OneRing` says that there is one ring without following it: a
set of linked processes that the links do not lead out of is empty or everybody.
`Creating` says what holds between the two stores of `process_create`, `ScanPath` that the
scan has passed over no exited process on its way from the current one, so the one it
frees is neither the one it began at nor the one it will return to
(`StackStaysAlive`). `RingStaysIntact` is about a walk of as many links as there are slots:
the processes at most `n` links from process 0 grow with `n` until they are all, an
induction over sets of numbers that `Inductive` takes from the well-foundedness of `<` on `Nat`.

`NobodyBypassedTwice` says that the ring is the queue of each process lock. `Way(x, p, S)`
says that `S` is what the links pass from `x` to `p`. `Queue`: for a sleeper `p`, whoever was
granted the lock since `p` slept lies behind it, not on the way to it from the lock's owner or,
when nobody owns it, from where the scan stands. A grant passes over nobody who sleeps on
the lock, a release happens where the scan will begin, a new process has been
granted nothing yet, and the removal of an exited process shortens ways.

**KeyInputProofs.** For any number of processes in `sys_get`: `LockStaysAlive` holds even
when requests overlap, because only a process's own `SetLock` puts its lock there, and it
clears `key_lock` before it leaves (`LockPlaced`). `AnswersWhole` rests on `Owner`, whose request `key_lock` and `key_c`
are at each place in `sys_get`, and `Answer`: what was stored and what is missing
add up to what was asked, and a word that is open again means that nothing is missing.

**KeyboardProofs.** `CursorSettles`: for any number of processes that print, any keys and
any size of the screen, `Settled` holds. It says nothing while somebody is inside
`console_putchar`, so it is not inductive; `Repaired` says that a column outside the
screen has a process that has still to compare `xpos` with `columns`, and a line outside
one that has still to compare `ypos` with `lines`. A stale store of '\b' can move the column
out again, but its process is itself on the way to the test. `CursorFollows`: while calls do
not overlap, `CursorInv` says which of the four bytes of `set_cursor` have been sent and that
they are those of the current position; two bytes are enough for a screen
(`TwoBytes`, `OnScreen`). `FlagsFollowKeys`: `FlagsInv` says, for each code still on the wire, by
which flag they differ from those of the keys held down (`Due`).

**LoaderProofs, the heap.** `BlocksStayApart` and `PagesExact`, for any number of callers, pages and
lengths. `kfree` looks at the two neighbours in the list only, and the list is ordered
by allocation, not by address; what makes that enough is `Neighbours`: blocks that
share a page stand side by side in the list, so if another block uses the first or
the last page of a freed one, a neighbour does. `Linked` says that links go both ways along
a rank, `Placed` what a caller in the middle of an operation relies on (the rest of the
last page is still the last block's), `Accounts` that pages in passing belong to nobody
else. The invariant holds as long as `raced` does not.

**LoaderProofs, the programs.** `LoaderImplementsHeap`: each step of `LoaderNext` is a step of `HeapNext`
or leaves the heap's variables alone, so `LoaderBlocksApart` and `LoaderPagesHeld` follow
from the theorems of the heap. `PathStaysAlive` rests on `Owned`: the blocks of the heap
are the paths, each of one program, and a call of the heap that is under way belongs to
the step its caller is at; so nobody frees another's path, and nobody his own while he
reads by it. `NothingStaysBehind` adds what a program holds at each step (`Settled`): its
directory from the first on, its mapped segment only between mapping and the end of the
read. `ProgramsRunWhole` adds `Loading`: the segments loaded are those among the headers read
so far, and a program that gets to the end has read the header of an executable unless
that read came back short.

**DisksProofs.** For every machine `PartsStayInside` and `BuffersAreKept`. Neither is inductive
alone: that a partition lies inside its disk needs that `disk_mmap`'s sum did not wrap,
which for an MBR's 32-bit fields follows from the parent lying on the drive, and fails for a
GPT only where `Wraps` says so; that a buffer is kept needs that the disk a table is read from
has sectors and begins on the drive. `Inv` ties the list (`ListOK`) to the calls under way
(`StackOK`): an extended partition begins behind the one it is in (`PartOK`), so of two calls
of `mbr_part` the inner one scans a table further on (`Before`), and a GPT is read at the
beginning of a drive or where no sector is read at all (`Edge`). `Numbered` counts the parts
of a disk; each `disk_mmap` adds one to a finite set of them. The proof found three machines
that `Backward` and `Unsound` had left out: a GPT entry that wraps below an extended partition,
and a GPT read through an extended partition, over the drive's own table or in place of the
next one. They are now among those TLC runs.

**FatDirProofs, reading.** `FileInv` says where both loops of `read_cluster` are: at cluster
number `i` of the chain, with `n` and `bufOffset` what the clusters before it hold of
the request (`InStep`). `BytesAreInPlace` follows for every cluster size, chain, length and
request, by quotients and remainders (`DivMod`); no error of the drive or the table can
put a byte out of place. `AnswerIsExact` adds that the last byte of the request is met in
the last cluster it reaches into.

**FatDirProofs, paths and listings.** `PathIsFound` and `ListingIsExact` hold for any tree of
directories, any path and any number of calls at once. The invariant `TreeInv` says of
each call that what it stands at is where the names it has passed lead (`OnWay`). `Way`,
the entries a path leads through, is a function chosen by its equation; that there is one for
every path is an induction over the numbers of names (`LeadsSome`), by the well-foundedness
of `<`. Inside a directory `Searched` says that no entry passed begins the name looked
for: a search that gives up in the middle of a long name goes on at the entry
that differed, and that this skips no other name is `RunsApart`, two long names do not
overlap. Without an orphan the entry the code takes without comparing the checksum is the first
whose checksum agrees. `Listed` says that a listing stands between two long names, or at the
first entry of one, and counts those behind it; that holds in tidy directories, where
each entry that ends a name begins one (`TidyRun`). The count of a FAT32 root is
everybody's (`Sized`): it is right for each walk because whoever sets it wrongly marks all of
them as failed. While proving it `ListingExact` was found to need `~Orphan`: an orphan before
another directory makes `fat_readdir` list that one.

**Only model-checked.** All liveness (`ScanEnds`, `WaitOver`, `TurnComes`, `LockServed`, `IrqServed`,
`GetEnds`): fairness and ENABLED are beyond the prover. `AllFound` of `Disks`: it compares
what the recursion over tables has found at its end with definitions by recursion along
a chain of links. `OneHolder` is violated, as section 6 explains.

## 6 What the code gets wrong

One run shows an intention written in the source that the code does not keep. At
`vmm.c:124` and `vmm.c:156`, and at `pmm.c:48`, a `process_lock(&lock)` is commented out;
`disable_intr` and `enable_intr` stand in for it in `vmm_mmap_pde_page`. When a segment
needs a new page table, `dmm_alloc_page` enables interrupts in the middle of the section.
`open_alloc`: `pmm_alloc_page` is interrupted between the test and the setting of a
bit, and one page is granted twice. (In the same opening another process is given the
window pages that were chosen and not entered yet: `BlocksApart` of `VirtMem` excepts it.)

The properties of passing runs name other cases they have to except, each a defect
the model reproduces:

* `Straddles` (`fat.c:134`): `offect` is cleared before it is used to advance `buf_offect`,
  so a read that starts inside a cluster and crosses its end is misplaced and
  writes behind the buffer.
* `TouchesEnd` (`ata.c:344`): a read that needs the drive's last sector comes back short.
* `TooFar` (`fat.c:130`): a 32-bit product limits files to 4 GB behind cluster 2.
* `overlap` in FreeRace, `raced` in VirtMem (`pmm.c:97`, `vmm.c:92`): a stale store of a
  search bound loses free pages.
* `failed` in VirtMem (`vmm.c:53`, `umm.c:118`): a half-way failure frees page 0, or
  loses a frame.
* `broken` in VirtMem (`vmm.c:42`): with the window full, the search runs below it.
* `raced` in Scheduler (`process.c:119`): a creator's link is copied and written in two
  steps; if the successor is reaped in between, the new process links to freed memory.
* `raced` in KeyInput (`io.c:30`): two readers can both pass the test of `key_len`.
* `raced` in Heap (`alloc.c:34`): two callers inside the list at once lose a block or
  chain one twice.
* `nopath` and `noprocess` in Loader: `exec` keeps the page directory when `kmalloc` fails
  (`exec.c:48`), and the path when `process_create` fails.
* `short` in Loader (`elf.c`): a `file_read` that answers less than a header passes the
  test for -1, and the header is whatever the stack held.
* `Orphan` in FatDir (`fat.c:242`): the checksum of a long name is not compared with its
  entry, so a stale name leads to the wrong file, or a listing to the wrong directory.
* `failed` in FatDir (`fat.c:224`): a FAT32 root's count is everybody's; one failed read of
  the table shortens the walks of all.
* `Tidy` in FatDir (`fat.c:346`): behind broken long names, and below the root behind
  files without the archive bit, a listing repeats names.
* `Backward` in Disks (`disk.c:192`): a GPT entry that ends before it begins, or before the
  disk it is found on, wraps and is accepted.
* `Unsound` in Disks (`disk.c:119`): for a disk without sectors and behind the end of one,
  the shortened count wraps and the read outgrows its buffer. A GPT whose entries lie behind
  the drive leads there, and so may a GPT found inside an extended partition, whose sector
  numbers are taken relative to that.
* `LongChain`, `Loops` in Disks (`mbr.c:38`): links are taken relative to the last table,
  and an extended partition over its own table is entered again and again.
* `has48` in Disks (`ata.c:220`) is bit 9 of IDENTIFY's word 83; the ATA standard has the
  48-bit address feature in bit 10. The model takes the bit the code takes.
* `junk` in Disks (`fat.c:511`): after a failed read `fat_init` goes on with a header it never
  read.

## 7 Not modelled

* The phase before `init_current_process`, in which `current_process` is NULL and
  `intr_lock` halts until an interrupt finds the word open (`lock.c:17`; the interrupt
  may come between the test and `hlt`, and the timer's next tick ends the wait); the
  boot code itself.
* `set_kbd_led`, called once by `keyboard_init`, and input mode 0 of the decoder, which
  lasts until `dev_init` ends. `printk`'s static buffer (`printk.c:10`), which two
  processes may fill at once: nothing depends on the text.
* `process_wait` is modelled although nothing in the kernel calls it yet; the wrap of
  `process_tick` after 2^32 ticks is not. `new_pid++` (`process.c:106`) is not atomic,
  but no code looks a process up by its pid.
* `ata_write` and `disk_write` cannot be reached: `fat_write` answers -1. `disk_remove` and
  `fat_free` have no caller.
* Machines with more than 512 MB, where `vmm_mmap_page` maps frames into the window
  and `vmm.c:138` translates a physical address as if it were a kernel one.
* What the processor caches of the page tables. The code flushes nothing when it
  removes a kernel mapping; the modules only show that the entries are right.
* What `get_file` does with an entry it could not read: `BadRead` ends the call with any
  answer. The bytes of a segment are `FileRead`'s and its pages `VirtMem`'s; `Loader` only
  says whether they were obtained. `a_out_exec` is empty.
* The window's pages that `Heap` asks for are any free run: which one, and when there is
  none, is `VirtMem`'s.
* `globl_mmap_init`, descriptor tables, the dispatch of interrupts, `printk`, strings:
  sequential, and their effect is built into the actions.

## 8 Plan

Modelling, in the order of what matters most; extensions of a module share its run.

1. **KeyInput behind Keyboard**: `key_get` as the callback of `ScanMake`, with what was typed.
2. **FileRead on a partition**: the window of `disk_read` on the drive, where `Disks` found it.

Theorems, in the order of what they would add to the runs:

1. That a `PhysMem` cut by frees only still implements `PageAllocator`, as long as no page
   is granted twice.
2. `AllFound` of `Disks` for tables without extended partitions, where no recursion is compared.
3. That `Console`'s whole calls are what `PutChar` does, when they do not overlap.
