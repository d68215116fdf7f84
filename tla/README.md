# Formal model of the kernel in `src/student-distrib`

TLA+ modules that model a small Unix-like kernel (three terminals on one x86
CPU, a round-robin scheduler, system calls, a read-only file system, keyboard,
RTC and VGA text output) and of the programs that run on it, TLC configurations that check them on small instances
and TLAPS proofs for every value of the constants.

## 1. The system

The kernel runs on one CPU. Concurrency comes from interrupts: the PIT ticks and
`schedule_process()` hands the CPU to the next terminal, the keyboard and the RTC
interrupt whatever runs. System calls enter through an interrupt gate, so they run
with interrupts off except where they execute `sti()` themselves (`terminal_read()`
and `rtc_read()` spin with interrupts on; `keyboard_handler()` executes `sti()`
before its EOI). Exceptions enter through trap gates, but each handler executes
`cli()` first.

| Component | State | Operations | Interacts with |
|---|---|---|---|
| Processes (`syscalls.c`) | `pidarray`, `curr_pid`, the PCBs (parent, saved ESP and TSS.esp0, `vidmap_active`, descriptors, arguments) | `execute()`, `halt()`, `kill_current_proc()`, `vidmap()`, `getargs()` | scheduler (same saved contexts), paging, file system |
| Scheduler (`scheduling.c`) | `terminal_data[]` (current pid, saved ESP and TSS.esp0, `halt_flag`), `active_terminal`, `visible_terminal`, `target_visible_terminal` | `schedule_process()` at each tick: switch the screen, switch the terminal, start a first shell, or kill | everything: it interrupts all of it |
| Paging (`paging.c`) | page directory, page tables, TLB | `init_paging()`, `set_process_paging()`, `vidmap_paging()`, `vidmap_disable()` | processes, screens |
| Screens (`scheduling.c`, `paging.c`) | video memory, `term_vidmem[]`, VGA cursor | switch by copying; draw through `putc()` or through the vidmap page | keyboard (echo), scheduler |
| Console (`lib.c`) | characters and cursor of a terminal | `putc()`, `clear()`, `scroll_down()` | screens |
| Library (`lib.c`) | none | `memset()`, `memcpy()`, `memmove()`, strings, `itoa()`, `printf()` | used everywhere |
| Command lines (`syscalls.c`) | the arguments in a PCB | the parsing of `execute()`, `getargs()` | processes, file system |
| Line discipline (`terminal_driver.c`) | per terminal `tbuff`, `char_idx`, `enter_flag` | `add_char_to_tbuff()`, `terminal_read()`, `terminal_write()` | keyboard, console |
| Keyboard (`keyboard.c`) | flags of Shift, Ctrl, Alt, Caps Lock | `keyboard_handler()`, `special_chars()` | line discipline, scheduler (Ctrl+C, Alt+Fn) |
| RTC (`rtc.c`) | per terminal divider, counter, `rtc_interrupt_received` | open, read, write, `rtc_handler()` | scheduler |
| Interrupt controllers (`i8259.c`) | masks; in the chips latched requests and lines in service | `i8259_init()`, `enable_irq()`, `send_eoi()` | all handlers |
| File descriptors (`syscalls.c`) | eight descriptors per PCB | `open()`, `close()`, `read()`, `write()` | drivers, file system |
| File system (`fs.c`) | the image: directory, inodes, data blocks | `file_open()`, `read_data()`, `dir_read()`, ... | descriptors, `execute()` |
| Exceptions (`exc_handlers.c`), IDT (`init_idt.c`, `asm_linkage.S`) | constant tables | one handler per vector, kills the process | processes |
| Boot (`kernel.c`, `boot.S`, `x86_desc.S`) | runs once | `entry()` | interrupt controllers; starts the first shell |
| Shell and programs (`src/syscalls`) | buffers, descriptors, the place in their loops | `cat`, `ls`, `grep`, `sigtest`, `syserr`, ... | descriptors, `execute()`, `halt()` |
| `fish` (`src/fish`) | the blinkers of `blink.S`, two open pictures | `add_frames()`, `mp1_rtc_tasklet()`, `mp1_ioctl()` | descriptors, RTC, vidmap page |
| Host emulation, `tests.c`, image tools | | | not part of the system |

What is hard here: contexts are saved in three places (PCB, terminal, TSS) and
restored rounds later; a kill is executed by `schedule_process()` on the kernel stack
of the process it kills; pids are freed and handed out again; screens are swapped
by copying between any two writes; the line discipline and the RTC are spin loops
that wait for a flag and act on it later; one flag stands for two modifier
keys; file reads cross blocks at any offset and may find bad numbers; programs loop over
reads of files and lines that end anywhere in their buffers; a handler that is
suspended before its EOI holds the devices of lower priority back.
What makes each component correct is the list of properties in section 4.

## 2. Modules

Composition: `Terminals` says how terminals take turns and when screens are shown.
`Display` and, on it, `Paging`, `TerminalInput`, `Rtc` and, on it, `Interrupts` extend it and add their own actions to its
turns; `Scheduler` is the real `schedule_process()` and is shown to implement it
(`ImplementsTurns`), so what they assume of the scheduler is what the scheduler does.
`FileSystem` is the image, `FileDescriptors` the calls on it; `Shell`, `Grep`, `Syserr`
and `Fish` are programs whose steps are those calls, and `Programs` puts them
together with a program that makes any calls.

| Module | Models | Remarks |
|---|---|---|
| `Processes` | pids, PCBs, CPU context, paging; `execute()`, `halt()`, `vidmap()` as operators of a step | a frame or a context is named by the pid it belongs to: `esp = p` means that the CPU is in the context of `p` |
| `Scheduler` | all of the kernel that changes processes and terminals | one action per system call outcome and per interrupt; `Workload` is the set of things users and programs do |
| `Terminals` | the abstract turn-taking | used by three components |
| `TerminalStacks`, `SchedulerStacks` | what users see: each terminal has a stack of programs | the mapping reads the chain of parents, with a recursive function |
| `Screens`, `Display` | abstract: one screen per terminal; code: video memory, back buffers, vidmap page, cursor | |
| `Paging` | page directory, page tables and TLB under the actions of `Display`, and programs that draw through them | addresses are numbers of 4 KB frames; `tlb` holds all the processor may use: what the tables give and what it may have cached since the last flush |
| `Console` | `putc()`, scrolling, backspace, `clear()` of one terminal | a cell holds a glyph or a blank |
| `Strings`, `Commands` | the functions on strings of `lib.c` and the command lines of `execute()` | operators and a small state machine |
| `Blocks` | `memset()`, `memcpy()`, `memmove()`, an action for each turn of their loops | on the registers of the assembly; the direction flag is kept between calls |
| `Library` | `printf()`, `puts()` and `itoa()`, conversion by conversion and digit by digit | formats are put together from items, which say what the output should be |
| `MCLibrary` | runs `Console`, `Commands`, `Blocks`, `Library` and `Blink` on small instances | one of them moves at a time |
| `Lines`, `TerminalInput` | abstract: edited lines are delivered; code: `add_char_to_tbuff()` and `terminal_read()` with the window between its loop and `cli()` | |
| `Keyboard` | flags and `special_chars()` against a queue of bytes between the keys and the handler | ghost variables say what the keys meant when each byte was sent |
| `Metronomes`, `Rtc` | abstract: independent periods; code: dividers and counters | integers of `INT_BITS` bits |
| `Interrupts`, `MCInterrupts` | set-up of IDT and controllers; requests, priorities, masks, lines in service, EOIs, and the handlers of timer, keyboard and RTC on top of `Rtc` | `owing` is the context whose keyboard handler still has to send its EOI |
| `FileSystem` | the image: `read_dentry_by_name()`, `file_open()`, `read_data()`'s blocks and checks | constant |
| `Streams`, `FileDescriptors` | abstract: open files are streams; code: descriptors, file positions, `read_data()` block by block | a fault inside the copy is an action |
| `Shell` | the shell, `cat`, `ls`, `sigtest` | a step looks at the reply of the last call and makes the next; `pc` names the call that is waited for |
| `Grep` | `do_one_file()` with its buffer of `BUFSIZE` bytes and one more | the byte behind the buffer holds what the stack held |
| `Syserr` | the tests of `ece391syserr.c` as lists of calls and the number that must fail | |
| `Blinkers`, `Blink` | abstract: a stack of blinkers, each with its own clock; code: the list in the slots of `blink_array` | links are slots, `NULL` is 0 |
| `Fish` | `add_frames()` a character at a time, the main loop by the ticks of its RTC | |
| `Programs`, `MCPrograms`, `MCDamagedImage` | all programs on one terminal; a sound and a damaged image | |
| `*Proofs` | theorems, section 6 | eight modules |

Correspondence. An action is what runs without interrupts. `Scheduler`:
`BootShell` is `entry()`'s `execute("shell")`; `Execute`, `ExecuteNoPid` and
`ExecuteBadImage` are the three outcomes of the system call; `Halt` and `Fault` its
ends; `VidmapOk`, `VidmapOutOfRange`, `VidmapNull` the outcomes of `vidmap()`;
`CtrlC`, `AltFn`, `OtherKey` are `keyboard_handler()` up to its `sti()` and
`KeyboardEoi` the rest; `Resume`, `ResumeAndKill`, `FirstShell` and `FirstShellNoPid` are
the four ways through `schedule_process()`. Wherever the code follows the result of
`get_pcb()` there is a branch for NULL (`kill_without_pcb`, `kill_without_parent`, the second
half of `Resume`, `CallWithoutPcb`): the CPU page faults in the kernel, the handler of the
fault follows the same pointer, and nothing runs any more, which is the state `esp = Lost`.
`ExecuteBadImage`, `FirstShellNoPid` and `CallWithoutPcb` belong to the specifications with
failures, `BadImageSpec` and `NoPidSpec` (section 3). In `TerminalInput` and `Rtc`, a read is
three actions: the call, the last test of the spin loop (`SeeEnter`,
`SeeInterrupt`), and what follows the loop (`FinishRead`); only `terminal_read()` closes
interrupts between the two. In `FileDescriptors`,
`Read` of a regular file starts `read_data()`, `CopyBlock` is a pass of its loop,
`CopyBadBlock` the return at a bad number and `FinishRead` the return; no other
process comes between them. `Interrupts`: `i8259_init`, `EnableDevice` and
`EnableInterrupts` are the calls of `entry()`; `Raise` is a device; `KeyboardInterrupt` is
`keyboard_handler()` up to its `sti()`, `KeyboardEoi` the rest; the other handlers are one
step. In the modules of programs an action is named for the call it makes
(`CatOpens`, `GrepReadsFile`, `FishCloses`) or for what is done between two calls
(`GrepTakes`, `FishPlaces`). `PROJECT.json` maps every definition to its lines.

## 3. Abstractions and assumptions

- `Scheduler`: registers other than ESP, EBP (saved and restored with ESP) and the
  TLB are left out. RAM the kernel reads before writing (`vidmap_active` of a PCB
  never used) starts with any value of `PowerOnRam`.
- `Scheduler` has three specifications. `Spec`, which the invariants and theorems are about,
  assumes that every image whose header passes can be loaded, and that nobody launches a
  program in the `MAX_TERMINALS - 1` ticks after power-on in which the other terminals get
  their first shells (`ProgramMayLaunch`). `BadImageSpec` adds images with a block that cannot
  be read, `NoPidSpec` users who are quick enough to take the pids the first shells need. In
  both the caller goes on with a `curr_pid` that has no PCB, and the promises of `Spec` end
  there: see finding 3 and the table of section 5. Types and `EoiBookkeeping` are proved
  for all three. `FirstShellsGetPids` and `CallsAlwaysReturn` show that under `Spec` the
  branches for a missing pid or PCB are never taken, so none of its steps is cut off by
  leaving these actions out.
- `Paging`: every page the kernel maps can be written to. `vidmap_pte` is one entry; what the
  linker places behind it, which the processor takes for the other entries of that table, is
  taken as not present. A process has `vidmap_active` set when `Display` maps its page.
- `TypeAhead = FALSE` in `TerminalInput`: users wait until a line is taken. What
  happens otherwise is finding 2 of section 5.
- `Rtc`: programs write any `int` except `INT_MIN`.
- `Keyboard`: the backlog of the controller has at most `QUEUE_SIZE` bytes. The byte E0
  before right Ctrl and right Alt does nothing in the handler and is left out.
- `FileDescriptors`: the theorem about streams is for `WellFormed` images, whose
  directory entries name existing inodes and whose inodes name existing blocks; reads ask for
  0 or more bytes. Types and copies are proved for any image.
- `Interrupts`: devices other than timer, keyboard and RTC raise no lines (theirs stay
  masked) and there are no spurious interrupts. A key pressed while the RTC or the timer
  is held back is latched once, like the chip does.
- Programs: one terminal with the shell and one program at a time, as the shell waits
  in `execute()`. What is typed is a set of command lines (`Sessions`), in any order
  and as often as wanted. Messages are left out: how a program ended is what its
  shell says of it (`said`). Files are not written to by anybody.
- `Blink`: no blinker is at location 0, which `mp1_malloc()` takes for a free slot.
- `Commands`: `Programs`, `Documents` and `Devices` are the files whose header passes the
  test of `execute()`, fails it, and is never read because they have no data (`.` and
  `rtc`); what `execute()` compares of the last is what its stack holds, so either outcome
  is possible. Programs and devices have names shorter than `DENTRY_NAME_LEN` and arguments
  are shorter than `ARG_BUFF_SIZE`; those on the image and those from a terminal are. The
  bytes that a name without NUL runs into on the stack are any bytes.
- `Blocks`: blocks lie in memory. Between calls the caller uses memory and the registers for
  what it likes, but leaves the direction flag alone. `memcpy()` promises its copy only if
  the blocks do not overlap or the destination lies below the source, as its loops go upwards.
  Nothing in the kernel calls `memmove()`, which returns with the direction flag set
  when it went downwards.
- `Library`: formats are literals of the kernel and do not end in the middle of a conversion;
  each argument is of the type that its conversion asks for.
- `fish`: its pictures can be read (`ShellComesBack` leaves `fish` out when one opens and cannot be,
  `Unreadable` in `Programs`: `add_frames()` takes the -1 of `read()` for a character and never
  ends, `fish.c:103`), none has ink beyond the locations of 16 bits, and
  together they need fewer blinkers than `blink_array` has slots (`FramesArePictures`, which
  the instance asserts of its image); they do not begin at location 0,
  and the one more blinker is on the screen and not at location 0 (`FishAssumption`).

Fairness. `WF(ScheduleProcess)`: the PIT ticks in rate-generator mode and its
interrupt is never masked; every stretch of kernel code with interrupts off ends.
`SF(KeyboardEoi)`: a handler that was interrupted goes on whenever its terminal has
the CPU; it needs a few instructions and a turn is a whole tick, so it cannot be
able to go on in turn after turn and not do so. The same holds for the spin loops:
`SF` on `SeeEnter`, `SeeInterrupt` and `FinishRead`, each for its own terminal.
In `Interrupts`, `WF` on `SetUp` and on the lines of timer and RTC: the boot goes on and
both devices are periodic; `WF(PitInterrupt)`, and `SF` on the handlers of keyboard and
RTC and on `KeyboardEoi`: the CPU takes what the controllers pass on within an
instruction, while the timer, which may hold the others back, comes once in 10 ms. Keys may
come or stay away; `ReaderReturns` is about users who pause. In `Programs`,
`WF(ProgramSteps)`: the process of a terminal gets its turns (`EveryTerminalRuns` of
`SchedulerLiveness`) and the loop of `read_data()` runs with interrupts off. No fairness
is assumed of users, of the shell, and of the program that makes any calls.

## 4. Runs

| Run | Instance | Shows |
|---|---|---|
| `Scheduler` | 4 pids, 3 terminals; launch, exit, Ctrl+C, Alt+Fn | contexts, TSS and page are those of `curr_pid` (`ContextConsistent`) and saved ones those of their terminals (`SavedContexts`); terminals share no process, the processes are one chain of launchers per terminal and no pid leaks (`ProcessTree`); halting returns to the launcher (`CallerSaved`); a step at one terminal frees or rewrites no process of another, waiting ones included (`OthersUndisturbed`); the code implements `Terminals` and `TerminalStacks` |
| `SchedulerLiveness` | 3 pids, 2 terminals; all of the workload | every terminal runs again and again, requests (Ctrl+C, Alt+Fn) are served, a vidmap page is its own terminal's |
| `LostKeyboardEoi` | 3 pids, 2 terminals | finding 1 |
| `FailedLoad` | 4 pids, 3 terminals; images that cannot be loaded | finding 3 |
| `Paging` | 3 terminals, 2 processes, 2 contents, 2 positions, tables of 6 entries | copying buffers implements one screen per terminal, also when programs draw through the TLB; every address translates to the kernel's memory, the current process's or its terminal's screen (`AddressSpaceIsOwn`); only a kill in the tick that shows a terminal leaves the VGA cursor behind |
| `Keyboard` | 11 keys (both Shifts, one of every other kind), backlog of 2 | bytes do what their keys meant, no command without a held modifier, no modifier sticks |
| `TerminalInput` | 2 terminals, buffer of 3 | buffer bounds; a line seen is still there when copied; the code implements `Lines`; lines are delivered |
| `TypeAhead` | the same, users type ahead | finding 2 |
| `Interrupts` | 2 terminals, rate 2, 4-bit integers, three devices | from power-on: a line is in service only while its EOI is owed or after its handler was killed (`InServiceIsOwed`); keys are taken (`KeysServed`); the virtual RTCs keep their own time; programs that wait for them return, unless the EOI of a killed keyboard handler is missing (`ReaderReturns`) |
| `Library` | screen of 3 by 3, command lines of up to 5 characters, 12 bytes of memory, formats of up to two items | the cursor stays on the screen, text ends at it, the first word is launched with the rest as its arguments, memory moves at every alignment, overlap and length and after a move in either direction, `printf()` prints what its comment says; the list of `blink.S` (3 slots, 2 structures) implements `Blinkers` |
| `Programs` | shell and one program, 5 descriptors, blocks of 2 bytes, buffers of 3, files of 0, 6 and 9 bytes, 12 cells of screen | descriptors are sound and implement `Streams`; `grep` prints the lines with the word; every test of `syserr` passes whatever ran before; `fish` weaves two pictures |
| `DamagedImage` | an image with bad block and inode numbers | a read copies no more than it was asked for, and what was copied before a failure is right; `cat` and `ls` print nothing but their file, all of it unless they fail; the shell gets its terminal back from `cat`, `ls`, `grep`, `sigtest` and `syserr`, and from `fish` when each picture can be read or fails to open |

The bounds. Four pids on three terminals let one terminal be two programs deep, with
a pid freed and handed to another terminal; six pids were model-checked for the
inductive invariant and are covered by the proofs. Three terminals are the
kernel's number and the least where "next", "shown" and a third one differ; two are
enough where only own and other matter. Rate 2 gives the virtual RTCs the periods 1 and 2. A buffer of 3 has an inner cell, a cell for
the last character and one for the newline. Four-bit integers have all the corners of 32-bit ones:
the least, powers of 2 in and out of range, and non-powers. A 3 by 3 screen has a row
that is first, one that is last and one between. Blocks of 2 bytes and buffers of 3
give reads that begin and end inside, at the end of and across blocks, and lines that
cross, fill and are shorter than the buffer; the program that makes any calls holds a
file and the directory and has one descriptor left, so tables get full. A backlog of
2 bytes has a press read after its release happened. Command lines of 5 characters
contain leading and repeated spaces, words of and beyond the name length, and
arguments with spaces. Tables of 6 entries have room for two page tables and three back buffers in kernel
memory. All passing runs exhaust their state spaces. Deadlock is only
allowed in `FailedLoad`: a CPU that faults in the kernel for ever takes no step.

## 5. Findings

1. **A Ctrl+C can block the keyboard and the RTC for good** (`LostKeyboardEoi`).
   `keyboard_handler()` executes `sti()` before `send_eoi()` (`keyboard.c:109`). A tick in
   between suspends the handler in the process it interrupted; if the handler just set
   `halt_flag` for this process, `schedule_process()` kills it when its
   terminal has its turn, and nobody sends the EOI. `Interrupts` shows the consequences: IRQ 1 stays in service, and
   the RTC, of lower priority, is held back with it (`InServiceIsOwed`, `ReaderReturns`).
2. **A line is lost when its user types ahead** (`TypeAhead`). A key after Enter
   overwrites the newline; a read of `BUFFER_SIZE` bytes finds none and returns 0.
3. **A program whose image cannot be read takes its caller with it** (`FailedLoad`).
   `ece391syscall.h:6` says "All calls return >= 0 on success or -1 on failure". When
   `read_data()` fails, `execute()` gives the new pid back and returns -1 (`syscalls.c:274`), but
   `curr_pid` and the user page already are those of the new pid. The caller goes on in
   that page; its next call finds no PCB (`CallWithoutPcb`) and the kernel
   faults for ever. Other ways to go on are no better: the next `execute()` may get the same pid
   and make it its own parent; when another terminal got the pid, a `halt()` or a Ctrl+C kills the
   process of that terminal. With `BadImageSpec` in place of `Spec`, `OthersUndisturbed`,
   `TerminalsOwnProcesses` and `ContextConsistent` fail as well.

Smaller disagreements between comments and code are stated as definitions that no
configuration checks; each has a counterexample within a minute:

| Definition | Module and how to see it | The code |
|---|---|---|
| `FreshProcessHasNoVidmap` | `SchedulerStacks`, `PROPERTY` of `FairSpec`, 3 pids, 2 terminals, `Workload = {"launch", "exit", "vidmap"}` | `pcb_init()` leaves `vidmap_active` of the last owner of the pid (`syscalls.c:35`, against `syscalls.h:59`) |
| `AllCallsReturn` | `Scheduler`, `INVARIANT` of `NoPidSpec`, 3 pids, 3 terminals, `Workload = {"launch"}`, `CHECK_DEADLOCK FALSE` | a tick that finds no pid for a first shell returns into the context it interrupted, as the next terminal and with no `curr_pid` (`scheduling.c:86`) |
| `ReadAwaitsInterrupt` | `MCInterrupts`, `PROPERTY` with the constants of `Interrupts.cfg` | `rtc_interrupt_received` may be left from before the call (`rtc.c:93`) |
| `DividerIsOfPowerOf2` | `MCInterrupts`, `INVARIANT`, same constants but `Frequencies <- AllInts` | `INT_MIN` passes every test (`rtc.c:115`) |
| `MasksWritten` | `MCInterrupts`, `INVARIANT`, constants of `Interrupts.cfg` | `i8259_init()` masks the lines of the first controller only (`i8259.c:28`); with interrupts off this has no effect, and `rtc_init()` writes the other mask |
| `EveryCharShown` | `MCLibrary`, `INVARIANT` with the constants of `Library.cfg` | a character for the last cell scrolls and is lost (`lib.c:314`) |
| `BackspaceDeletesLast` | `MCLibrary`, `PROPERTY`, same constants | a backspace in column 0 does not return to the line above (`lib.c:306`) |
| `LaunchesExecutables` | `MCLibrary`, `INVARIANT` with the constants of `Library.cfg` | `execute("rtc")` reads 0 bytes, which is not -1, and compares a header that was never written (`syscalls.c:238`); when the stack still holds that of the last program, its entry point is run in a page that still holds its image |
| `OpenFilesCanBeRead` | `MCDamagedImage`, `INVARIANT` with the constants of `DamagedImage.cfg` | `file_open()` does not check a last, partial block (`fs.c:206`) |
| `FailedCallsChangeNothing` | `MCDamagedImage`, `PROPERTY`, same constants | `open()` marks the descriptor before the open of the file fails (`syscalls.c:402`); on well-formed images it holds |
| `CursorShown` | `Paging`, `INVARIANT` with the constants of `Paging.cfg` | the kill path skips `update_cursor_pos()` (`scheduling.c:98`) |
| `FlagForBothKeys` | `Keyboard`, `INVARIANT` with the constants of `Keyboard.cfg`, `"right ctrl"` in place of `"right shift"` | releasing one key of a pair clears the flag of both (`keyboard.c:124`) |

Also, `tests.c:340` expects `close(0)` to return 0; it returns -1.

## 6. Proofs

For every value of the constants, from the assumptions named in the modules:

- `SchedulerProofs`. `TypeCorrect`, `TypeCorrectInFailures` and `EoiBookkeepingHolds` for all three
  specifications, everything else for `Spec` with any workload. `InvariantHolds`: no
  single property is inductive. That the kill of `schedule_process()` hits the right
  process (`ContextConsistent`) needs the saved contexts of all terminals
  (`SavedContexts`), these need that a pid handed out again belongs to no other
  terminal (`TerminalsOwnProcesses`), halting needs that the parent is alive and waits for
  nobody else (`ProcessTree`, `CallerSaved`), and a first shell finds a pid because
  until then only first shells run (`FirstShellsOnly`, by counting pids and
  terminals). `IInv` is their conjunction; `ContextAlwaysConsistent`,
  `ProcessesAreForest`, `VidmapAlwaysOwnTerminal`, `SavedContextsAreOwn`,
  `TerminalsAlwaysOwnProcesses`, `CallersAreSaved`, `FirstShellsGetPids`, `CallsAlwaysReturn`,
  `BootLeft` and `KernelTakesTurns` (the refinement of `Terminals`) follow from it. `KernelKeepsStacks` (the refinement of
  `TerminalStacks`) relates the recursive function that reads a chain of parents to a sequence by
  induction over its length: no pid is twice in a chain, so it is no longer than there are
  pids, and two terminals' chains are apart. `OthersNeverDisturbed` uses the same chains: a step
  frees and writes no process but the one its terminal runs (`StepTouches`), and that one is on
  no other terminal's chain (`ProcessesApart`).
- `DisplayProofs`. `DisplayKeepsScreens`: refinement of `Screens`, whose invariant says
  in which buffer each terminal's text is; `PageAlwaysOwn`, `CursorStaysShown`.
  `AddressSpaceAlwaysOwn`: inductive once it is added what the directory and the tables hold
  for each process, and that the TLB holds what they give. `ScreensBehindPaging`: so the page
  a program draws on is the one of `Display`, and a step of `Paging` is one of `Display`.
  `MemoriesApart`: the arithmetic of `get_physical_addr_for_pid()`.
- `InputProofs`. `BytesDoWhatWasMeant`, `CommandsNeedHeldKeys`, `NoModifierSticks`: the
  invariant relates each flag of the keyboard to the keys that were held when the last byte read
  was sent, and each byte in the queue to the keys of its moment. `ReadsDeliverLines`: refinement
  of `Lines`, with the line the user sees as the part of the buffer before `char_idx`;
  `InputTypeCorrect` includes `ReadyHasLine`.
- `InterruptProofs`. `RtcKeepsTime`: refinement of `Metronomes`. `InServiceAlwaysOwed`: inductive once it is added that nothing is owed
  before `sti()` of `entry()`, and that after an EOI is lost none is owed again.
  `RtcKeepsTimeBehindControllers`: a step of `Interrupts` is one of `Rtc` or
  leaves its variables alone, so `RtcKeepsTime` holds behind the controllers.
- `LibraryProofs`. `Console`: `OutputStaysOnScreen`, `TextEndsAtCursor`. `Commands`:
  `FirstWordLaunched`, `ArgumentsAreOwn`: the `CHOOSE`s that stand for the
  loops of `execute()` and `strnlen()` find the one place where the loop stops
  (`PrefixUnique`, `StrnlenIs`); only the file with the name in the command matches, whatever
  lies behind `file_name[]` (`FoundIsNamed`); the parts of a command make up the command
  (`CommandSplits`); and the PCB holds the arguments of the command that runs, up to its NUL.
  `Blocks`: `BlocksMove`. Turn by turn the bytes that the loops have passed (`Passed`) are those
  of the block and the others are what they were; what is still to be copied is the length less
  what was passed, whatever part of it is counted in words (`Left`), and its source was not
  yet written to, which is where the direction matters. `Library`: `PrintfKeepsItsWord`, for words of
  any length, every format and every argument, the least int included. The invariant keeps
  the quotients of `itoa()` with the digits they left (so the value of the numeral is that of the
  word, and no numeral is longer than a word has digits) and the places in the output where the
  items that are done end. The powers of 16 and the value of a numeral are recursive functions;
  what is needed of them comes from a function that satisfies their equations at every
  number up to the last, which exists because there is no least number for which it does not.
- `FishProofs`. `BlinkersImplemented`, the refinement of `Blinkers` for structures none of which
  is at location 0. The invariant `BlinkInv` says that there is a sequence of slots,
  none twice, that the links spell out from the head to the end, and that its slots are
  those in use (`Links`); that the walk of `mp1_find_helper()` is this sequence
  (`ListIs`) is an induction over its length, as is that the last poke of a cell is the one
  that is seen (`LastPoke`). With it every call changes the sequence as `Blinkers` says, and
  a slot is free exactly when there is room (`LengthFits`, by counting).
  `FishDrawsPictures`, on top of `ProgInv` and `BlinkInv`, for pictures, a screen and a `blink_array` of
  any size. For each of the two pictures the invariant `FishInv` says where its descriptor
  stands against the line that is drawn: within it (`InLine`), at its end or at the end of the file
  (`PastLine`), or one character further on when it has been read and not yet used (`HasRead`);
  the pictures may be the same file, but not the same descriptor. The blinkers are those of the
  places with ink up to the place `fish` has come to, in the order of lines (`DrawnUpTo`): the
  number of places before another one gives each its position, and the bound on
  their number keeps every `mp1_ioctl_add()` from failing. While `fish` waits for its RTC they
  blink in step, all lit or all dark (`InStep`), which the one more that is added, moved over
  another and taken away must not disturb.
- `FileDescriptorProofs`. `ReadDataCopiesFile` on any image: never more than was asked for nor past
  the end, and only bytes of the file from the position on; `DescriptorsAreStreams` on
  well-formed ones: what a stream has left is the file from `file_position` on;
  `DescriptorsAlwaysSound`. Its lemmas are about one call each, so that `ProgramProofs` can use
  them for the calls programs make.
- `ProgramProofs`. What a program relies on is what its last call left behind, so the
  invariant (`ProgInv`) says for every `pc` what the program's variables and the reply it
  is about to look at are. On any image: `ProgramsReadTheirFiles`, `GrepStaysInBuffer`
  and `CatPrints`, whose invariant ties what was written to the file up to
  `file_position`. On well-formed images: `ProgramsKeepDescriptorsSound`, and
  `ProgramsSeeStreams`, where `.` must not be a file, because `grep` reads names from it.
  `SyserrAlwaysPasses`, if there is a directory `.`, for any sizes of the descriptor table
  and the page: calls that must
  fail change nothing while only the terminal is open (`Hopeless`, `Standing`), and
  `err_open_lots()` is a loop whose round is given by how many descriptors are open
  (`LotsOpen`). `GrepPrintsLines`, on any image whose `.` is a directory, for blocks and a buffer of
  any size and words without NUL: the invariant `GrepInv` says which entry of the directory
  `grep` is at and which offset of its file (`AtFile`), that what was printed are the lines with the
  word before that place and none behind it (`Progress`), and how the buffer relates to
  the file: where `grep` scans, the bytes from `line_start` on are those of the file from the offset on
  (`Scans`); while it reads more, what it kept of the last read was moved to the front and
  is continued by what the read copied (`Kept`, `HasCopied`). The offset stays at the
  start of a line or at a newline (`Aligned`) until the byte behind the buffer, which `grep`
  also tests for a newline, cuts a line; from then on only `Pieces` is left, that what is printed are
  parts of lines with the word. `MCPrograms` asserts what is assumed of the image.

Only model-checked: liveness (`EveryTerminalRuns`, `RequestsServed`, `LineDelivered`,
`KeysServed`, `ReaderReturns`, `ShellComesBack`), which is beyond the prover. Every invariant,
action property and refinement that a passing run checks is stated by a theorem.

## 7. Not modelled

The bits of page table entries that are the same in all of them; the bits of descriptors in
GDT and IDT; the registers of CMOS, PIT and VGA; `disable_irq()`,
`memset_word()`, `memset_dword()` and `strcpy()`, which nothing calls, and
spurious interrupts of the 8259; multiboot; the translation tables of scan codes
(abstracted to which row is read); attributes of characters; a fault in the kernel
outside a process; `counter`, `hello`, `pingpong` and `testprint`, which only print and
wait; `ece391emulate.c`, which runs the programs on Linux; a picture of `fish` that
cannot be read, over which `add_frames()` loops for good (`fish.c:103`); `tests.c` and the
image tools. `PROJECT.json` says for each component why.

## 8. Plan

Done: processes and scheduling with their abstract specifications; screens; console;
line discipline; keyboard; RTC; interrupt controllers; descriptors and file system;
library; command lines; the programs; page tables and TLB; proofs of all their safety
properties. Liveness stays with TLC. Not begun: the programs that only print and wait.
