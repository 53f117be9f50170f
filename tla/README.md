# House AM: models and proofs of the kernel and its programs

House AM (`src/student-distrib/`) is a small 32-bit kernel for one CPU: up to
six processes, three terminals, a read-only file system, a keyboard, a text
screen and a real-time clock. This directory holds TLA+ models of it, TLC
configurations that check them on small instances, and proofs that TLAPS checks.

## 1. The system

There is no scheduler. A process runs until it calls `sys_execute`, which
suspends it until the child halts, or until a keyboard interrupt (Alt+F2,
Alt+F3 for the first time) executes a shell on top of whatever runs. All gates of
the IDT are trap gates, so **interrupts stay enabled in the kernel**; only
`sys_halt` and a few handlers execute `cli`. Almost every hard behaviour of the
kernel comes from these two facts: nesting instead of scheduling, and interrupts
in the middle of system calls.

| Component | State | Operations | Talks to | What is hard |
|---|---|---|---|---|
| process control (`system_call.c`, `system_handler.S`) | `processes[]`, the PCBs (8 KB each, with the kernel stack), `page_dir[32]`, `tss.esp0`, the loaded images | `sys_execute`, `sys_halt`, context switch, entry and exit of a call | is called by programs, by `keyboard_interrupt` and by `terminal_init`; uses the file system | interrupts between the steps; return to a stack frame saved long ago; failure after a slot is marked |
| system calls on files (`system_call.c`, `system_call.h`) | `fd_arr[8]` and `argument` of each PCB | open, close, read, write, getargs | dispatch through tables of function pointers to files, directory, terminal, clock | PCBs are memory of slots and get reused; calls in an unexpected order |
| file system (`filesystem.c`) | none that changes (image in memory); position in the descriptor | `read_data`, `read_dentry_*`, `file_read`, `dir_read` | system calls, the loader | block boundaries, end of file, errors as byte counts |
| terminal input (`keyboard.c`, `terminal.c`) | `keyboard_buffer`, `end_buf_idx`, `enter_pressed`, their copies per terminal | keys, `terminal_read`, switches | interrupt handler fills, system call empties, no lock | keys during a read; a full buffer; switches in the middle of a line |
| screen (`lib.c`, `terminal.c`, `keyboard.c`) | video memory, `screen_x`, `screen_y`, VGA cursor, saved screens | `putc`, `scroll_up`, `clear`, echo, Backspace, Ctrl+L, `terminal_write`, switches | keyboard handler and system calls | position arithmetic at the edges |
| real-time clock (`rtc.c`, `IDT.c`) | chip registers behind an index port, `int_flag` | `rtc_read`, `rtc_write`, `rtc_interrupt` | system calls, interrupt | the index port is shared with the interrupt handler |
| paging, vidmap (`paging.c`, `system_call.c`) | page directory and tables, the TLB of the CPU | boot, `sys_execute`, `sys_halt`, `sys_vidmap` | process control | a table entry with two users; translations nobody flushed |
| interrupts (`i8259.c`, `IDT.c`, `interrupt_handler.S`, `kernel.c`) | masks, what is in service, the IDT, active handlers | boot, `enable_irq`, `send_eoi`, the two handlers, exceptions | both devices, process control | handlers suspended under a shell; the order of the boot |
| command lines (`sys_execute`, shell, cat, ls) | `argument` of each PCB, names in the directory | a line typed at the shell, `sys_getargs`, `read_dentry_by_name` | process control, file system | names without a NUL; strings left in a slot |
| printf (`lib.c`) | position in the format and in the arguments | `printf`, `itoa`, `strrev`, `puts` | screen | numbers of any length, the least number, padding |
| syserr (`src/syscalls/ece391syserr.c`) | none | eight tests of calls that must fail | system calls on files | what earlier tests and processes left in the table |
| signals, library functions nobody calls | none | | | |
| grep (`src/syscalls/ece391grep.c`, `ece391support.c`) | a buffer with the part of a line not read to its end | `main`, `do_one_file` | file system calls | lines cut by the end of the buffer; an uninitialised byte; few descriptors |
| fish (`src/fish`) | a linked list in an array, two files read side by side | `add_frames`, add, remove, sync, tick | file and clock calls, video memory | unlinking and using structures again; files of different shape |
| other user programs (`src/syscalls`) | their own | shell, cat, ls, counter, ... | system calls | the order of their calls |

What makes each part correct:

* process control: a process always runs its own, complete program on its own
  kernel stack; a halt always finds the frame of the `sys_execute` it returns
  from; slots are neither shared nor lost; execute and halt come to an end;
* descriptors: a process starts with a fresh table, keeps its standard streams,
  reaches exactly the files it opened, and leaves those of others alone;
* files: any sequence of reads delivers the file, each byte once and in order,
  and 0 only at its end; the loader puts the program into memory, exactly;
* input: what the user typed and edited is what the program reads, line feed
  included, whichever terminal is shown in between;
* screen: positions stay in video memory, the cursor is where the next character
  goes, hidden screens come back as they were;
* clock: a write sets the rate; a read waits for a new interrupt, and returns, and
  where interrupts between two port accesses prevent that is known exactly;
* keys: a key does what its legend and the modifiers held down say;
* interrupts: each finds its handler, from the boot on; keyboard and clock go on
  working while handlers are suspended;
* paging: a program reaches its own page and no other, whatever the TLB keeps;
* command lines: a line starts the program and opens the file that it names;
* printf: writes the numerals of its own arguments;
* grep: prints the lines that match, all of them, each once and whole, and ends;
* fish: the linked list is the list of what was added and not removed; the two
  pictures become exactly their blinking characters, which keep blinking.

`PROJECT.json` lists the hazards behind these, each at its line.

## 2. Modules

| Module | Models | State and actions against the code |
|---|---|---|
| `ProcessControl` | `sys_execute`, `sys_halt`, system call entry and exit, Alt+Fn | see below |
| `ProcessNesting` | nothing in particular: the abstract specification | processes nest like calls |
| `ProcessControlProofs` | | theorems about `ProcessControl` |
| `HardwareProofs` | | theorems about `Paging`, `Rtc` and `Interrupts` |
| `FileSystemProofs` | | lemmas: what `ReadData` returns on a well-formed image, for any block size |
| `FileAccessProofs`, `FileDescriptorsProofs`, `InputProofs`, `ScreenProofs` | | theorems about `FileAccess`, `FileDescriptors` with `Syserr`, `LineDiscipline`, `Screen` |
| `ProgramsProofs` | | theorems about `Blink` (with its refinement), `Commands`, `Frames` and `Grep` |
| `FileSystem` | `filesystem.c` as operators | `ReadData`, `StopIndex`, `ByteRead` are `read_data`; `DentryByName`, `DentryByIndex` the lookups; `Content` is the reference definition of a file's bytes |
| `FileAccess` | the loops over a file | `FileRead`, `DirRead`, `LoadFirst`/`LoadNext` (the copy loop of `sys_execute`) |
| `FileDescriptors` | the PCB as the calls on files use it | one action per system call; extends `FileSystem` and `ProcessNesting`, whose steps are part of its `SysExecute` and `SysHalt` |
| `LineDiscipline` | `keyboard_interrupt` and `terminal_read` on the line buffer | a step per statement of `terminal_read`, an action per kind of key |
| `TerminalSet` | nothing: the terminals, the length of the line buffer | shared by `LineDiscipline` and `Screen` |
| `Screen` | `lib.c` and the screen side of the keyboard handler | `display` is video memory with position and VGA cursor; `line_idx` is `end_buf_idx`; an action per key (`EchoChar`, `EchoEnter`, ...), write and switch (`ShowTerminal`) |
| `Keys` | `set_keyboard_flags`, `scan_code_to_char`, the tests of `keyboard_interrupt` | one interrupt per code; `held` and `unsure` are what the user's fingers do; `Rows` is the reference, the legends of a keyboard row by row, against the tables in alphabetical order |
| `Rtc` | `rtc.c` and `rtc_interrupt` | a step per port access of `rtc_write`, `rtc_open` and `rtc_interrupt`; `stack` is what is active, with the clock's handler and the keyboard's shells on top of anything |
| `Interrupts` | `entry`, `i8259.c`, `set_idt`, both handlers, exceptions | the calls of `entry` in their order; `frames` are the active handlers and where each is; `Take` and the devices are external |
| `Paging` | `page_fill`, `sys_vidmap`, `page_dir[32]` in `sys_execute` and `sys_halt` | extends `ProcessNesting`; `Fill` and `Evict` let the CPU cache and drop any translation at any time |
| `Syserr` | `ece391syserr.c` | a test is the sequence of its calls; `Run` applies it to the table of a process of `FileDescriptors`, which it extends |
| `Commands` | `ece391shell.c`, `ece391cat.c`, `ece391ls.c`, parsing in `sys_execute`, `read_dentry_by_name`, string functions | names and arguments byte by byte, in cells of memory with what was in them before |
| `Printf` | `printf`, `itoa`, `strrev`, `puts` | one step per turn of the loop over the format; `ConvBuf` is the buffer with the digits in its second half and the zeros before them, from the index that is their number, where `puts` starts |
| `TextFiles` | nothing: the bytes that the programs tell apart | |
| `Grep` | `ece391grep.c` | `NextEntry` is `main`; `Read` and `LineStep` are the two loops of `do_one_file`; the reference numbers the lines with the string (`Hits`) by how many come before |
| `Frames` | `add_frames` of `fish.c` | `FrameStep` is a turn of the inner loop, with the end of a row; the reference is the place of each byte of a picture (`RowOf`, `ColOf`) |
| `Blink` | `blink.S`, `mp1_malloc`, `mp1_free` | an action per command and the tasklet; pointers are numbers, 0 is NULL |
| `BlinkList` | nothing in particular: the abstract specification | a sequence of blinking characters |
| `MCFileAccess`, `MCFileDescriptors`, `MCSystemCalls`, `MCHardware`, `MCPrograms` | | inputs for TLC; the last three put parts that share no state into one run, a behaviour of which is a behaviour of one part |

**Composition.** `ProcessControl` is shown to implement `ProcessNesting`, and
`FileDescriptors` is built on `ProcessNesting`: the descriptors may rely on the
discipline of processes because process control provides it. `FileDescriptors`
and `FileAccess` use the same `ReadData`. The other modules meet at narrow
points: `LineDiscipline` has a stack of readers because Alt+Fn may put a shell on
top of a `terminal_read` that waits; `Screen` has `line_idx` because Backspace
does nothing on an empty line; `Keys` decides which action of these modules (or of
`ProcessControl`) a scan code stands for. `Paging` is built on `ProcessNesting` as well.
`Interrupts` is the view from below of the nesting that `ProcessControl` describes from
above: a shell that the keyboard handler executes is a frame over suspended
handlers; `Rtc` has the same nesting for the ports of the clock. `Commands` gives the bytes of the argument that `FileDescriptors` keeps as a
whole. `Blink` is shown to implement `BlinkList` with `items` read off the array
along the list.

### ProcessControl

A kernel stack is a sequence of frames, one for each kernel function that is
active on it; a frame has a program point (`pc`), the slot it works on, and for
the oldest frame the process that trapped. A trap from user mode starts on the
stack of `tss_esp0` and overwrites what was there; an interrupt of the kernel
pushes on the stack in use. `get_pcb()` masks `esp`, so `cur` is the slot of the
stack in use. The esp that `sys_execute` saves is a pair of a stack and a depth.

`sys_execute` has seven steps: the search of `processes[]` (`SysExecute`,
or `Kbd` from the handler), `ExecMark`, `ExecMap` (`page_dir[32]`), `ExecLoad`
(one per chunk, written through the mapping of that moment), `ExecPcb`, `ExecTss`,
`ExecIret`. They are the points between which a nested `sys_execute` changes the
outcome; between two of them a key press is not distinguished. `sys_halt`
is one step from `cli` to `sti`, then `HaltJump`, which loads esp and ebp: the
model calls the kernel crashed if they do not point to a waiting `sys_execute`.

The constant `IrqPcs` says at which program points Alt+Fn may be pressed; in user
mode it may be pressed always. The code allows all points, and so do the passing run and
the theorems. At some points the outcome is wrong (section 4), so the history variable
`struck` records the points outside `SafePcs` at which a shell was really started, and
the properties say what still holds:

* `SafePcs` (`sys`, `found`, `map`): in a call that waits, between the test of `processes[]` and
  its assignment, and between the assignment and the mapping. Nothing is harmed, which
  is not obvious for the second one: the nested shell takes the very slot that was found,
  but it must have halted before the interrupted `sys_execute` goes on.
* `load`, `pcb`, `tss`: the program that is being loaded may be damaged, and no more: stacks, PCBs,
  slots and `tss.esp0` stay in order, a halt still returns (`Unbroken`). That `tss` belongs here
  is not obvious either: the nested halt sets `tss.esp0` to the caller's, and the
  interrupted `sys_execute` sets it to its own child's afterwards.
* `iret` and `halt`. At the iret `tss.esp0` is the child's already: the halt of the nested shell sets
  it back to the caller's, so the child traps on its caller's stack (`TrapStackOwn`, `ReturnPath`,
  `NestingSpec` and, with four slots, `SlotRelease` fail; no halt goes astray with up to four slots,
  which is not proved). After the sti of `sys_halt` the stack in use belongs to a slot that is free,
  and halts do go astray (`halt_interrupted`).

### Assumptions the models share

* PCB memory is zero at boot (the kernel never clears it; nothing else uses
  it before).
* Page 0 and the page below video memory are not mapped (`paging.c`): an access
  there ends in the page fault handler, which prints and loops (`frozen`).
* An image of the file system is what `createfs` writes: blocks of a file in
  range, unused entries of the block list 0. The image in
  `src/student-distrib/filesys_img` is of this kind. `read_data` looks at the entry
  behind the last block of a file whose length is a multiple of the block size.
* In `ProcessControl`, `LineDiscipline`, `Screen` and `Keys`, `keyboard_interrupt` is
  atomic, except for the `sys_execute` in it: a second key waits for the end of
  interrupt, which the handler sends at its beginning, but the time between is
  short compared with typing; the `sys_execute` is not. `Interrupts` has the steps.
* In `Interrupts` no byte of the keyboard comes before `i8259_init`. A shell that the
  keyboard handler executes may fail for want of a slot. The masks and the IDT
  are what the code writes; the controllers, the TLB and the devices are
  modelled as their use in the code requires (`external` in `PROJECT.json`).
* In `Paging`, `sys_execute` and `sys_halt` are one step each; their interleavings are
  those of `ProcessControl`.
* In `Commands` a line fits the buffer of the argument, as 127 characters do in the
  code, no NUL is typed, and names in the directory are different, not empty and have no
  NUL. In `Printf` no format ends
  within a conversion; none in the kernel does.
* In `LineDiscipline` and `Screen` a key is the character it types; how it gets
  there is in `Keys`. The screen has at least two columns, and its places fit the 16 bits of
  the cursor registers (`ScreenAssumption`).
* `grep` searches text for a string that is not empty: lines fit the buffer (`Fits`;
  longer ones are searched in parts) and have no NUL (`GrepAssumption`). The buffer starts with any
  bytes of `StackBytes`, a line feed among them. The code looks at the byte behind
  what it has read before anything was written there; if that is a line feed, a line that the buffer cuts is
  searched in two parts. `misread` records that this has happened, and `GrepExact` is
  about the runs of grep in which it has not: it says that nothing else can go wrong.
  `FramesAssumption` only says that pictures are sequences of bytes and that the bound on
  rows is larger than any picture.
* In `LineDiscipline` the memory behind the keyboard buffer starts with a NUL or with one other byte (`Junk`): how
  much a read takes from there depends on the variables that the compiler puts there.
* `syserr` runs on a disk that has an entry `.` and none with the name that `err_open`
  looks for, and a table has fewer entries than the number that `err_big_fd` takes for
  one (`SyserrAssumption`).
* Programs of `Blink` do not use location 0 (`BlinkAssumption`): fish starts
  at column 40. A structure at location 0 would be free for `mp1_malloc` while it
  is in the list. `mp1_ioctl_sync` displays `off_char` whatever the status is, since
  its `cmovl` is never taken; the abstract list says so, too. The lengths of a blinking
  character are at most 2^15: the countdown is compared as a signed 16-bit number, and a
  larger one is over at the first tick. (Fish uses 6 to 15. The proof of the refinement found
  this; the lengths of the run are too small to meet it.)

## 3. Runs that pass

| Run | Bounds | Distinct states | Checks |
|---|---|---|---|
| `process_control` | 3 slots, 2 chunks, 3 terminals, Alt+Fn at every point | 756,825 | below |
| `system_calls` | descriptors: 2 slots, 4 descriptors, a file, the directory and the clock; lines: buffer of 3, 2 terminals, 1 character, reads of 2 and 4, 2 racing keys; codes 1 to 62 with both shift, control and alt keys; screen: 2 rows of 3 cells, line buffer of 3, 2 terminals, writes of up to 2 | 1,326,436 | below |
| `hardware` | a supported and an unsupported frequency, a shell; 4 nested handlers; 3 slots, all kinds of pointers | 204,366 | below |
| `programs` | grep: buffer of 3, all texts of up to 5 bytes; pictures of up to 3 bytes; 3 blink structures, 2 locations, 2 timings; names of up to 2 bytes, lines of up to 4, 2 slots; words of 8 bits, formats of up to 2 items; files: blocks of 3 bytes, at most 3, reads of 0..4, loader reads of 2 | 176,053 | below |

* **process_control.** `ImageComplete`, `TrapStackOwn`: whoever runs in user
  mode has its own complete program and its own trap stack. `ImagesIntact`:
  nobody overwrites the program of a suspended process. `ReturnPath`, `HaltReturns`:
  the saved esp of every process points to the frame it was started from, and no
  halt jumps elsewhere. `SlotRelease`: only a process's own halt frees its slot.
  `NestingSpec`: refinement of `ProcessNesting` with `live <- Live`,
  `running <- cur`. `ExecuteCompletes`: execute and halt end. Three slots give a
  process, one suspended by it and one interrupted on top, with failed calls that
  use up slots; two chunks make a partial copy possible. The theorems remove
  these bounds. It may stop: a kernel that has crashed does nothing.
* **system_calls, descriptors.** `TableFresh` (the standard streams included), `OpenMatches`,
  `SuspendedKept`, `ArgumentsKept`, and `SyserrPasses`: in every state in which a process has
  no file open, the eight tests of `syserr` print PASS, each alone and all of them
  in a row. That is more than running the program, which finds a fresh table: the test
  of unopened descriptors passes only because it closes them first. Two slots are
  enough for a suspended process and for one slot used by several processes in
  turn; four descriptors are two standard ones and two that can be opened. It may
  stop: a frozen kernel does nothing.
* **system_calls, keys and lines.** `KeyMeans`: for every key of the main block, in every order of
  presses, repeats and releases of six modifier keys; the only thing left out is
  the release of one of two shift (control, alt) keys, which clears the flag of both.
  `LineKept`, `LineDelivered`: a line is kept and delivered as it was edited, unless a
  key was pressed on its terminal between an Enter and the end of the read that takes
  the line. `LineDelivered` compares all that is read with the line, and names the two cases in
  which it is not the line: a second line feed after a Backspace in a full buffer (`StoredLine`)
  and the memory behind a full buffer. Such keys (`races` counts them, `raced` holds the terminals they concern) may come at every statement of `terminal_read`; the properties
  then say that the damage ends: a read that is left alone puts the terminal
  right, and the line after it is delivered again. A read of 4 is larger than the
  buffer of 3, as the shell's 1023 is larger than 128. One character is enough: one
  stored at a wrong place leaves a hole or a line of another length. Two racing keys are enough
  to hit a read and the next one, or both terminals.
* **system_calls, screen.** `CursorShown` (the position stays in video memory and the cursor is there),
  `EchoVisible`, `ScreensKept`. With 2 rows of 3 cells nearly
  every key is at an edge, and rows and columns are told apart. It may stop:
  Backspace at the top left corner (possible after Ctrl+L in a line) freezes the kernel.
* **hardware.** The clock, with `rtc_interrupt` between any two accesses to a port and a shell on top of
  anything: `RateSet` says when the frequency is the one asked for and when the clock
  runs, and `sure` and `spoiled` record the accesses that someone else's selection of a register hit;
  nothing else loses a rate or stops the clock. `ReadFresh`. `ReadReturns`, unless the clock was stopped in that way, a shell is on top of
  the read, or the read is of a program under a shell that suspends the clock's handler.
  Interrupts: `Served`, at every moment of the boot and after it; `KeyboardAlive`, also
  when a shell suspends the handler of an earlier key; `ClockAlive`, which says
  exactly when the clock stops: as long as a shell suspends its handler between the end
  of interrupt and the read of register C, and for ever if a program under that shell
  selects another register (`rtc_write`), since the handler then reads the wrong one. Four
  frames are two keyboard handlers that may each execute a shell, a clock handler
  below and one above them. Paging: `UserConfined`, `ProgramMapped`, with a TLB that may
  keep or drop anything; three slots give an interrupted process, its parent and a
  process on top.
* **programs.** `GrepExact`: a buffer of 3 and texts of 5 put the end of the buffer at every
  place of a line; one of the directories has more files than there are descriptors.
  The buffer starts with any bytes of `StackBytes`. `FramesExact`. `ListSound`, `ListSpec`,
  `KeepsBlinking`: three structures give a head, a middle and an end to remove, and a
  pool that runs out; two locations for three structures give two at one location, of
  which the newer is found; one of the timings has a length of 0, the edge of the
  countdown. `CommandObeyed`: the directory has `.`, `a`, `ab`, `b` with names of up to 2
  bytes: one is a prefix of another, and one fills its field; two slots, one for the program, are used
  by one command after the other. `PrintfExact`: all values of a word, two items in any
  combination. `ProgramsEnd`. Files: `ReadsInOrder` (files and the directory), `ZeroAtEndOnly`,
  `LoadExact`, `LoadEnds`. The lengths 0..8 are all positions of an end of file relative to
  blocks of 3 and reads of 2: multiples of either, of both, and neighbours; the
  blocks of a file are any distinct ones, in any order. `ByteRead` gives the byte at a position
  as `read_data` finds it once it is there; where it stops, and after which test, is
  `StopIndex`. It may stop: programs end.

Each property has a mutant in `PROJECT.json`: a definition changed as a plausible
bug would change it, for which TLC reports the property as violated.

**Fairness.** `ProcessControl`: weak fairness of the kernel's own steps (the
CPU does not stop); none of user programs or keys, so `ExecuteCompletes` ends at
user mode or in a call that waits for a device. Keys cannot delay a
`sys_execute` for ever because every terminal is shown for the first time once.
`FileAccess` (in `programs`): weak fairness of the loader. `Rtc` (in `hardware`): weak fairness of the
chip and the handler, of which each step is possible until it is made, and strong fairness of the steps
of a call: an interrupt may delay each of them, but the clock interrupts at most 1024 times a second.
The fairness does not say that the handler ends: a shell that suspends it need not halt, and then
no tick follows. `Interrupts`: weak
fairness of the CPU (taking interrupts, handlers, boot, and the way from `cli` to
`sti`), and for every depth of nesting strong fairness of the handler there: bytes of the
keyboard are not infinitely fast, so a handler that they interrupt again and again still
makes steps between them. No fairness of programs: a shell may run for ever.
`Blink`: weak fairness of the tasklet, which fish calls after every read of the clock.
`programs`: a program that runs goes on. The other modules have safety properties only.

## 4. Runs that find a violation

Each states what a comment, header or test of the repository says and shows that
the code does otherwise; `PROJECT.json` quotes the lines.

| Run | What TLC finds |
|---|---|
| `execute_interrupted` | Alt+F2 while a program is copied: the nested shell changes `page_dir[32]`, and when it halts the rest of the copy goes to the page of the caller. The program runs with a part missing. |
| `execute_failed` | A mistyped command marks a slot for ever; after five of them no program can start. |
| `unopened_fd` | A read or write of a descriptor never opened calls through NULL: the kernel freezes instead of returning -1. |
| `vidmap` | The address that `sys_vidmap` returns is mapped to nothing: video memory is at 128 MB, where the program was, and the program is told 132 MB. |
| `type_ahead` | A key between Enter and the read replaces the line feed. |
| `full_line` | A line of one character less than fits, typed with a Backspace in a full buffer, is read with two line feeds; the read of a full buffer goes on in the memory behind it. |
| `halt_interrupted` | Alt+F2 between the `sti` of `sys_halt` and the load of esp: the shell's `sys_execute` runs on the kernel stack of the slot that was just freed and takes that slot. The first trap of the shell overwrites the frames it was started from, and its halt jumps to a stack without a waiting `sys_execute`. |
| `rtc_write_interrupted` | A clock interrupt between the selection of register A and its use: `rtc_write` writes the rate to register C and returns 0. |

The last two and `execute_interrupted` are the points that `HaltReturns`, `RateSet` and
`ImageComplete` name as exceptions: the passing runs show that there are no others.

One more disagreement has no run of its own. A program started without an
argument gets the argument of the last program in its slot, since `sys_halt` does not
clear it and `sys_execute` writes it for a command line with a space only
(`system_call.c:147`; `ece391cat.c:10-12` expects `sys_getargs` to fail).

## 5. Proofs

Eight modules hold theorems, all for every value of the constants that the named
assumptions of the modules allow. A theorem that names a property of a run removes the
bounds of that run.

| Module | Theorem | Property | Holds for |
|---|---|---|---|
| `ProcessControlProofs` | `TypeCorrect` | `TypeOK` | any slots and chunks, Alt+Fn anywhere |
| | `ProgramsComplete`, `ImagesNeverOverwritten` | `ImageComplete`, `ImagesIntact` (and that no copy in progress goes to a living process) | any slots, chunks, nesting and `IrqPcs`, until a shell is started in `sys_execute` from the map of the page on, or in the tail of `sys_halt` |
| | `TrapsOnOwnStack`, `ReturnPathKept`, `HaltAlwaysReturns`, `SlotReleaseTheorem`, `NestingRefinement` | `TrapStackOwn`, `ReturnPath`, `HaltReturns`, `SlotRelease`, `NestingSpec` | same, until a shell is started at the iret or in the tail of `sys_halt` |
| `HardwareProofs` | `Confinement`, `ProgramStaysMapped` | `UserConfined`, `ProgramMapped` | any number of slots |
| | `FrequencyKept` | `RateSet` | interrupts and any number of shells anywhere, any requests |
| | `ReadsAreFresh` | `ReadFresh` | same |
| | `InterruptsServed` | `Served` | any depth of nested handlers |
| `FileAccessProofs` | `ReadsDeliverInOrder`, `LoaderExact`, `ZeroMeansEnd` | `ReadsInOrder`, `LoadExact`, `ZeroAtEndOnly` | any well-formed images, sizes of blocks, files and reads |
| `FileDescriptorsProofs` | `TablesFresh`, `OpenDescriptorsMatch`, `ArgumentsStay`, `SuspendedStayKept` | `TableFresh`, `OpenMatches`, `ArgumentsKept`, `SuspendedKept` | any slots, descriptors and well-formed disk |
| | `SyserrAlwaysPasses` | `SyserrPasses` | any slots and descriptors, `SyserrAssumption` |
| `InputProofs` | `BufferTypes` | (type invariant) | any buffer, terminals, reads and races |
| | `LinesKept`, `LinesDelivered` | `LineKept`, `LineDelivered` | same |
| `ScreenProofs` | `CursorStaysShown`, `EchoAlwaysVisible`, `ScreensAreKept` | `CursorShown`, `EchoVisible`, `ScreensKept` | any rows, columns, line buffer, terminals and writes |
| `ProgramsProofs` | `ListStaysSound`, `BlinkImplementsList` | `ListSound`, `ListSpec` | any pool, locations and templates |
| | `CommandsAlwaysObeyed` | `CommandObeyed` | any directory, slots and lengths of names and lines |
| | `FramesAlwaysExact` | `FramesExact` | all pictures |
| | `GrepAlwaysExact` | `GrepExact` | all directories of texts, strings, buffers and bytes on the stack, `GrepAssumption` |

### Process control

None of the invariants is inductive: that a halt returns to the right frame
depends on what all stacks look like, and that on what every suspended
`sys_execute` will do when it goes on. No hypothesis restricts `IrqPcs`: what is inductive is
`Unbroken => Inv`, since `struck` only grows, where `Inv` is the conjunction of

* `TypeInv`: types, and the frame of an interrupt is never the oldest of a stack;
* `Stacks`: in each stack all frames but the newest are at safe points or at those in `struck`; a frame
  works on a slot above its stack's; a suspended `sys_execute` that has seen slot
  s free still finds all slots below s taken, and frames above it work on slots
  not below s (*claims* and *order*, which make the race at `found` harmless);
* `Waiting`, `Chain`: a stack not in use ends in a frame that waits for a living
  process; the living processes form an increasing chain that ends in `cur`, each
  link both a waiting frame and an esp in a PCB;
* `Taken`: the slots below `cur` are marked, so a nested `sys_execute` gets a
  larger one;
* `Saved`: a `sys_execute` that has stored its esp, suspended or not, finds it in the PCB of its child;
* `Machine`: the stack in use and `tss.esp0` at each program point;
* `Unharmed => Pages`: the mapping and the progress of the copy at each program point, and `ImagesIntact`.

Initial states satisfy it, each action preserves each part (one lemma per action),
and it implies the properties. The refinement is proved step by step: `ExecIret`
is `NExecute`, `HaltJump` is `NHalt`, all other steps stutter.

### The other components

* **Paging.** `PInv`: only `page_dir[32]` changes, between the page of the running process
  and the table of `sys_vidmap`, and what the TLB holds for the two pages of that entry was cached
  since the running process was mapped. Confinement is about the TLB; the second half
  makes it inductive.
* **Clock.** `RtcInv`: for each call on the stack, however deep it is suspended, the register that it has selected is
  selected, or `hit` says who moved the selection (`CallOK`); the rate that was asked for is in `clock_rate`
  or in the register; the divider is right unless `spoiled`. `FlagInv` for reads.
* **Interrupts.** `IInv`: what each call of `entry` has established by the time the next one starts, and
  that a handler which has not sent its end of interrupt is the only one of its kind on the
  stack. Without the latter, the end of one handler could clear what another has in service.
* **Files.** `FileSystemProofs` shows that `ReadData`, with its walk over blocks and its stop at the first
  position that is out of range, is the number of bytes asked for or left, and that each byte is that of
  `Content`. `AInv` then says that what was delivered is the file up to the position.
* **Descriptors.** `FdInv` adds to the properties that an entry has the operations of a regular file only
  while it is open, and that the position of an open one is within its file.
* **Input.** `LineInv` adds `Window`: between an Enter and the end of the read that takes the
  line, the line feed is at the end of the line, at each statement of `terminal_read`, or a key
  was pressed (`raced`). That is the exact window of the hazard. What is behind the line is part of it:
  zeros, or the line feed that a full buffer left (`filled`), so the whole result of a read is known.
* **Screen.** `ScreenInv`: every display, shown or left, has its place inside video memory although
  `screen_x` alone may be negative, and what the kernel saved of a hidden terminal is what was left.
* **Blink.** `BlinkInv`: `order`, the history of what is in use, is linked from the head, each structure to the next
  and the last to NULL, and only these have a location. The list that the code walks is
  a recursive function of the array; that it is `order` is proved by the least position at which
  they differ. The refinement maps `items` to the structures along `order`: adding puts a structure in front, removing
  the first at a location is removing its position, and a tick changes every structure and
  writes a cell as the last one that is due there.
* **Commands.** `Spells` relates cells of memory to the text that they hold. Lengths and `strncmp` decide equality of
  names, with or without a NUL in the field (`SameNameIff`, by the least difference), so a lookup finds
  what is spelled; the line, the first word and the stored argument spell what the
  user means; `CommandsInv` keeps the argument of the program that runs.
* **Syserr.** A test runs through its calls from the table that the process has. Calls that fail whatever the table is
  (`Hopeless`) need no more; for the others the table is known after each call: `open` fills the
  lowest free entry (`Filled`), `close` empties one after the other (`Shut`), and an entry that is
  closed refuses reads and writes because `sys_close` leaves directory operations in it. That each call is answered
  as expected follows by the least one that is not. After the tests the table is again one
  without an open file, so they pass in any order.
* **Frames.** Later bytes of a picture are at later places. `FramesInv` says of each file that its position is the byte
  at the current place (`InLine`), the end of its row (`LineOver`) or its end (`FileOver`), and that what was added
  are the places before the current one where a picture is not blank.
* **Grep.** `GrepInv` says that the buffer holds the bytes of the file from `line_start` on up to where the file was read
  and no line feed behind them (`Buffered`, `Clean`), that a line of the file starts there or one that was searched ends there
  (`Reached`), and what has been printed of the lines before it (`PrintedTo`). The position of a line
  in the output is the number of lines with the string up to it, so a printed line adds one element to a
  finite set, and nothing has to be sorted. `Undeceived` (`~misread => GrepInv`) is what is inductive: a byte of the stack
  that is taken for a line feed is the only way out of `GrepInv`.

Induction over data as a theorem with an operator parameter is out of the prover's reach; where a
proof needs it, it takes the least number for which a fixed statement fails, which exists because
`<` is well-founded on the naturals (`LeastNat` and its like).

### Only model-checked

* Liveness, because of fairness and `ENABLED`: `ExecuteCompletes`, `LoadEnds`, `ReadReturns`,
  `KeyboardAlive`, `ClockAlive`, `KeepsBlinking`, `ProgramsEnd`. The refinement theorems are about safety:
  neither abstract specification states fairness.
* `KeyMeans`: a finite table, which TLC goes through completely.
* `PrintfExact`: numerals are a recursion over digits, both in `itoa` and in what a numeral stands for,
  and formats are put together with folds. All words of 8 bits are tried.

## 6. Not modelled

* Segments, the TSS descriptor and the multiboot header of the boot (`x86_desc.*`, the first
  part of `entry`): filled in once, read by the CPU only.
* The signal calls, which return 0, and `sigtest`.
* `tests.c` and `tests.h`, the kernel's test code, and the Linux emulation of the user programs
  (`ece391emulate.c`), which is not part of the system.
* `disable_irq`, `mp1_ioctl_find`, `memmove`, `memcpy`, `strcpy` and the word versions of
  `memset`, which nobody calls; `file_open`, `file_close`, `dir_open` and the like, which are never called or return a
  constant.
* The programs hello, testprint, counter and pingpong: they write what they are written
  to write. Attributes of characters on the screen.

## 7. Plan

Done, in this order: process control with its refinement and proofs, file system,
descriptors, input, screen, clock, keys, fish, grep; then interrupts, paging and vidmap,
racing keys, command lines, printf, syserr; then proofs of the safety properties of all
components but keys and printf, those of syserr, `add_frames` and grep last; then process control
and clock with interrupts at every point. What is left: the
parts of `PrintfExact` that need no recursion, the padding of `%#x` and the choice of arguments.
