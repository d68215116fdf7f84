------------------------------ MODULE Display ------------------------------
(***************************************************************************)
(* The screens of the terminals.  There is one video memory; a terminal    *)
(* that is not shown keeps its output in a back buffer, term_vidmem[t], and*)
(* schedule_process() copies whole buffers when it shows another terminal. *)
(* Output finds its buffer through get_video_mem() at the moment it is     *)
(* written, except that of a program that draws through the page vidmap()  *)
(* mapped for it: that one goes where the page points.                     *)
(*                                                                         *)
(* What a buffer holds is one value of Contents; writing into a buffer     *)
(* gives it any content.  When the page is mapped, and whether it is, is   *)
(* the business of Scheduler: here every launch, halt, kill and tick may   *)
(* leave the running program with or without it, as set_process_paging()   *)
(* does for the vidmap_active flag of whichever process it maps.           *)
(*                                                                         *)
(* Every terminal also has a cursor in terminal_data[].  update_cursor_pos()*)
(* sends it to the VGA controller, but only for a terminal that both has   *)
(* the CPU and is shown.  A position is an index into the cells of a       *)
(* screen; how putc() moves it is the business of Console.                 *)
(***************************************************************************)
EXTENDS Terminals

CONSTANTS Contents,   \* what a screen may hold
          Blank,      \* a cleared screen
          Zeroed,     \* a back buffer never written, in .bss
          Positions,  \* where a cursor may be
          Home        \* the top left corner

ASSUME DisplayAssumption == Blank \in Contents /\ Zeroed \in Contents /\ Home \in Positions

VARIABLES
    frame,         \* the content of video memory and of the back buffers
    vidmap_page,   \* the buffer mapped at the vidmap address
    cursor,        \* cursor_x and cursor_y of every terminal
    vga            \* the position in the registers of the VGA controller

cursorVars == <<cursor, vga>>
displayVars == <<active_terminal, visible_terminal, target_visible_terminal, started,
                 frame, vidmap_page, cursor, vga>>

Video == MAX_TERMINALS
Frames == Terms \cup {Video}
Unmapped == -1

DisplayTypeOK ==
    /\ TurnsTypeOK
    /\ frame \in [Frames -> Contents]
    /\ vidmap_page \in Frames \cup {Unmapped}
    /\ cursor \in [Terms -> Positions]
    /\ vga \in Positions

\* Video memory holds what the boot has printed; terminal_init() reset the cursors
\* before its last line.
DisplayInit ==
    /\ TurnsInit
    /\ \E c \in Contents : frame = [f \in Frames |-> IF f = Video THEN c ELSE Zeroed]
    /\ vidmap_page = Unmapped
    /\ vga \in Positions
    /\ cursor = [t \in Terms |-> IF t = 0 THEN vga ELSE Home]

get_video_mem(t) == IF t = visible_terminal THEN Video ELSE t

----------------------------------------------------------------------------

\* The bytes a program or a handler writes change one buffer.
Write(f) ==
    /\ \E c \in Contents : frame' = [frame EXCEPT ![f] = c]
    /\ UNCHANGED <<active_terminal, visible_terminal, target_visible_terminal, started,
                   vidmap_page>>

\* Mutant: the controller gets the cursor of every terminal that writes.
update_cursor_pos_always(t, pos, shown) == vga' = pos

\* update_cursor_pos() for terminal t with its cursor at pos, while shown is shown.
update_cursor_pos(t, pos, shown) == vga' = IF t = shown THEN pos ELSE vga

set_cursor_pos(t, pos) ==
    /\ cursor' = [cursor EXCEPT ![t] = pos]
    /\ update_cursor_pos(t, pos, visible_terminal')

\* putc(), or clearing the screen, with t as the active terminal.
Putc(t) ==
    /\ Write(get_video_mem(t))
    /\ \E pos \in Positions : set_cursor_pos(t, pos)

\* write() to the terminal and every printf() on behalf of the program: putc()
\* writes to the buffer of the terminal that has the CPU.
ProgramPutc == ProgramRuns /\ Putc(active_terminal)

\* The program writes to its vidmap page, in user mode.
ProgramVidmap ==
    /\ ProgramRuns
    /\ vidmap_page # Unmapped
    /\ Write(vidmap_page)
    /\ UNCHANGED cursorVars

\* The keyboard handler makes the shown terminal the active one while it echoes
\* a key or clears the screen (Ctrl+L), with interrupts off.
KeyboardPutc == Putc(visible_terminal)

\* vidmap(), and the launch or halt of a program at the terminal that has the
\* CPU, map the page for the process that runs next, or unmap it.
Remap ==
    /\ ProgramRuns
    /\ vidmap_page' \in {Unmapped, get_video_mem(active_terminal)}
    /\ UNCHANGED <<active_terminal, visible_terminal, target_visible_terminal, started,
                   frame, cursor, vga>>

BootShell ==
    /\ Boot
    /\ vidmap_page' \in {Unmapped, get_video_mem(active_terminal)}
    /\ UNCHANGED <<frame, cursor, vga>>

AskTerminal == (\E t \in Terms : Ask(t)) /\ UNCHANGED <<frame, vidmap_page, cursor, vga>>

\* Mutant: the screen that was shown is not saved.
SwitchFramesUnsaved ==
    IF Switches THEN [frame EXCEPT ![Video] = frame[Following]] ELSE frame

\* The two memcpy() of schedule_process().
SwitchFrames ==
    IF Switches THEN [frame EXCEPT ![visible_terminal] = frame[Video],
                                   ![Video] = frame[Following]]
                ELSE frame

\* What the buffers hold after a tick: a terminal that never had the CPU is
\* cleared.
TickFrames ==
    IF Following \in started THEN SwitchFrames
    ELSE [SwitchFrames EXCEPT ![get_video_mem(active_terminal)'] = Blank]

\* A tick: the screen switches and the next terminal gets its page.
Tick ==
    /\ Turn
    /\ frame' = TickFrames
    /\ vidmap_page' \in {Unmapped, get_video_mem(active_terminal)'}

\* The update_cursor_pos() beside the switch of the screen does nothing: the active
\* terminal is still the one that had the CPU, which is not the shown one then.
FirstTurn ==
    /\ Tick
    /\ Following \notin started
    /\ set_cursor_pos(Following, Home)

\* The terminal goes on where it was.
Resume ==
    /\ Tick
    /\ Following \in started
    /\ UNCHANGED cursor
    /\ update_cursor_pos(Following, cursor[Following], visible_terminal')

\* Ctrl+C was pressed: the program is killed before the cursor is sent.
ResumeAndKill ==
    /\ Tick
    /\ Following \in started
    /\ UNCHANGED cursorVars

DisplayNext ==
    \/ ProgramPutc
    \/ ProgramVidmap
    \/ KeyboardPutc
    \/ Remap
    \/ BootShell
    \/ AskTerminal
    \/ FirstTurn
    \/ Resume
    \/ ResumeAndKill

DisplaySpec == DisplayInit /\ [][DisplayNext]_displayVars

----------------------------------------------------------------------------

\* Vidmap output has the same target as the putc() output of the program.
PageIsOwn == vidmap_page # Unmapped => vidmap_page = get_video_mem(active_terminal)

\* What terminal t displays: video memory if it is shown, else its back buffer.
ScreenOf(t) == frame[get_video_mem(t)]

\* The kernel keeps one screen per terminal: no output is lost or lands on
\* another terminal, whatever is shown when it is written and whatever is
\* switched in between.
S == INSTANCE Screens WITH
        NumTerminals <- MAX_TERMINALS,
        screen <- [t \in Terms |-> ScreenOf(t)],
        shown <- visible_terminal,
        turn <- active_terminal,
        begun <- started

ImplementsScreens == S!ScreensSpec

\* The blinking cursor is where the next character of the shown terminal goes.
CursorShown == vga = cursor[visible_terminal]

\* Whichever terminal writes and whenever another one is shown, the blinking cursor
\* stays with the shown terminal, unless the tick that shows the terminal also
\* kills its program: then CursorShown fails until the terminal's next output or
\* turn, contrary to what lib.c says of update_cursor_pos().
OnlyKillsLoseCursor ==
    [][CursorShown /\ ~CursorShown' => ResumeAndKill /\ Switches]_displayVars
=============================================================================
