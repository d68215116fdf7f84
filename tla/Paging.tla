------------------------------- MODULE Paging -------------------------------
(***************************************************************************)
(* What the pages of Display and the address space of Processes are made   *)
(* of: the page directory, its two page tables and the TLB.  The actions   *)
(* are those of Display; where the kernel maps a page it now changes the   *)
(* tables, and a program that draws on its page goes through the           *)
(* translations of the processor.                                          *)
(*                                                                         *)
(* Addresses are counted in frames of 4 KB.  The processor may cache any   *)
(* translation that the tables give, at any time, until the TLB is         *)
(* flushed; what it has not cached it takes from the tables.               *)
(***************************************************************************)
EXTENDS Display

CONSTANTS
    MAX_PROCESSES,
    PAGEDIR_SIZE, PAGETABLE_SIZE,   \* entries of the directory, of a table
    USER_PAGING, VIDMAP_PAGE,       \* entries of the directory for a process
    VIDEO_REAL_ADDR,                \* where video memory is
    page_0_table_addr, vidmap_pte_addr, term_vidmem   \* where the linker put them

Pids == 0 .. MAX_PROCESSES - 1
None == -1
Dirs == 0 .. PAGEDIR_SIZE - 1
Slots == 0 .. PAGETABLE_SIZE - 1

FOUR_MB == PAGETABLE_SIZE
EIGHT_MB == PAGETABLE_SIZE + PAGETABLE_SIZE
KernelFrames == FOUR_MB .. EIGHT_MB - 1

ASSUME PagingAssumption ==
    /\ MAX_PROCESSES \in Nat \ {0}
    /\ PAGEDIR_SIZE \in Nat /\ PAGETABLE_SIZE \in Nat \ {0}
    /\ USER_PAGING \in Dirs \ {0, 1} /\ VIDMAP_PAGE \in Dirs \ {0, 1, USER_PAGING}
    /\ VIDEO_REAL_ADDR \in Slots
    /\ page_0_table_addr \in KernelFrames
    /\ vidmap_pte_addr \in KernelFrames \ {page_0_table_addr}
    /\ term_vidmem \in KernelFrames /\ term_vidmem + MAX_TERMINALS <= EIGHT_MB

VARIABLES
    paging,           \* CR0.PG
    page_directory,
    page_0_table,
    vidmap_pte,       \* the first entry of the table at vidmap_pte_addr
    tlb,              \* the translations the processor may use
    curr_pid

tableVars == <<paging, page_directory, page_0_table, vidmap_pte, tlb, curr_pid>>
pagingVars == <<displayVars, tableVars>>

\* The frame of a buffer of Display.
Physical(f) == IF f = Video THEN VIDEO_REAL_ADDR ELSE term_vidmem + f

get_physical_addr_for_pid(pid) == EIGHT_MB + FOUR_MB * pid

----------------------------------------------------------------------------
(* The processor *)

\* A present entry; every one the kernel makes can be written to.
PageEntry(addr, size, user) == [present |-> 1, user |-> user, size |-> size, addr |-> addr]

\* .val = 0
NotPresent == [present |-> 0, user |-> 0, size |-> 0, addr |-> 0]

\* Entry i of the page table at addr.
TableEntry(addr, i, table, pte) ==
    IF addr = page_0_table_addr THEN table[i]
    ELSE IF addr = vidmap_pte_addr /\ i = 0 THEN pte ELSE NotPresent

Lesser(a, b) == IF a <= b THEN a ELSE b

\* Page i of directory entry d is frame frm; programs may use it if user is 1.
Translation(d, i, frm, user) == [page |-> <<d, i>>, frame |-> frm, user |-> user]

LargePages(dir) ==
    {Translation(p[1], p[2], dir[p[1]].addr + p[2], dir[p[1]].user) :
        p \in {q \in Dirs \X Slots : dir[q[1]].present = 1 /\ dir[q[1]].size = 1}}

\* The entry of page p in the page table its directory entry names.
SmallEntry(dir, table, pte, p) == TableEntry(dir[p[1]].addr, p[2], table, pte)

SmallPages(dir, table, pte) ==
    {Translation(p[1], p[2], SmallEntry(dir, table, pte, p).addr,
                 Lesser(dir[p[1]].user, SmallEntry(dir, table, pte, p).user)) :
        p \in {q \in Dirs \X Slots : /\ dir[q[1]].present = 1 /\ dir[q[1]].size = 0
                                     /\ SmallEntry(dir, table, pte, q).present = 1}}

Translations(dir, table, pte) == LargePages(dir) \cup SmallPages(dir, table, pte)

\* What the processor may use after the tables were changed: also what it has cached.
TablesChanged == tlb' = tlb \cup Translations(page_directory', page_0_table', vidmap_pte')

flush_tlb == tlb' = Translations(page_directory', page_0_table', vidmap_pte')

----------------------------------------------------------------------------
(* The kernel *)

\* In .bss, all entries are 0.
PagingInit ==
    /\ DisplayInit
    /\ paging = FALSE
    /\ page_directory = [d \in Dirs |-> NotPresent]
    /\ page_0_table = [i \in Slots |-> NotPresent]
    /\ vidmap_pte = NotPresent
    /\ tlb = {}
    /\ curr_pid = None

\* Loading CR3 for the first time flushes the TLB.
init_paging ==
    /\ ~paging
    /\ paging' = TRUE
    /\ page_0_table' = [i \in Slots |-> IF i = VIDEO_REAL_ADDR THEN PageEntry(i, 0, 0)
                                        ELSE NotPresent]
    /\ page_directory' = [d \in Dirs |-> CASE d = 0 -> PageEntry(page_0_table_addr, 0, 0)
                                           [] d = 1 -> PageEntry(FOUR_MB, 1, 0)
                                           [] OTHER -> NotPresent]
    /\ flush_tlb
    /\ UNCHANGED <<displayVars, vidmap_pte, curr_pid>>

\* The tables of vidmap_paging(); dir is the directory as the caller left it.
VidmapTables(arg, dir) ==
    /\ page_directory' = [dir EXCEPT ![VIDMAP_PAGE] = IF arg THEN PageEntry(vidmap_pte_addr, 0, 1)
                                                      ELSE NotPresent]
    /\ vidmap_pte' = IF arg THEN PageEntry(Physical(get_video_mem(active_terminal)'), 0, 1)
                     ELSE vidmap_pte
    /\ UNCHANGED <<paging, page_0_table>>

\* Mutant: the page is removed without a flush.
vidmap_paging_unflushed(arg, dir) ==
    VidmapTables(arg, dir) /\ IF arg THEN flush_tlb ELSE TablesChanged

vidmap_paging(arg, dir) == VidmapTables(arg, dir) /\ flush_tlb

\* set_process_paging(curr_pid), for a process whose vidmap_active is whether
\* Display maps the page.
set_process_paging(pid) ==
    /\ curr_pid' = pid
    /\ vidmap_paging(vidmap_page' # Unmapped,
                     [page_directory EXCEPT
                        ![USER_PAGING] = PageEntry(get_physical_addr_for_pid(pid), 1, 1)])

\* execute() and halt().  The image is loaded through the new page.
LaunchOrHalt == Remap /\ \E pid \in Pids : set_process_paging(pid)

\* vidmap(), with a pointer into the memory of the program.
vidmap ==
    /\ Remap
    /\ vidmap_page' # Unmapped
    /\ vidmap_paging(TRUE, page_directory)
    /\ UNCHANGED curr_pid

BootsShell == BootShell /\ \E pid \in Pids : set_process_paging(pid)

\* schedule_process() maps the process that goes on, or the one that is left after
\* a kill, or the new shell.
SwitchesProcess ==
    /\ FirstTurn \/ Resume \/ ResumeAndKill
    /\ \E pid \in Pids : set_process_paging(pid)

\* The kernel finds the buffers at their own addresses.
KernelWrites == (ProgramPutc \/ KeyboardPutc \/ AskTerminal) /\ UNCHANGED tableVars

\* A program draws on a page it may use and finds a screen behind.
ProgramDraws ==
    /\ ProgramRuns
    /\ \E t \in tlb, f \in Frames : t.user = 1 /\ t.frame = Physical(f) /\ Write(f)
    /\ UNCHANGED <<cursorVars, tableVars>>

PagingNext ==
    \/ init_paging
    \/ paging /\ (LaunchOrHalt \/ vidmap \/ BootsShell \/ SwitchesProcess)
    \/ paging /\ (KernelWrites \/ ProgramDraws)

PagingSpec == PagingInit /\ [][PagingNext]_pagingVars

----------------------------------------------------------------------------

KernelSpace ==
    {Translation(0, VIDEO_REAL_ADDR, VIDEO_REAL_ADDR, 0)}
    \cup {Translation(1, i, FOUR_MB + i, 0) : i \in Slots}

MemoryOf(pid) ==
    {Translation(USER_PAGING, i, get_physical_addr_for_pid(pid) + i, 1) : i \in Slots}

\* The page a program draws on: the buffer its putc() output goes to.
DrawingPage ==
    IF vidmap_page = Unmapped THEN {}
    ELSE {Translation(VIDMAP_PAGE, 0, Physical(get_video_mem(active_terminal)), 1)}

\* Whatever was mapped before, and cached since, the addresses that work are those of
\* the kernel, which programs may not use, the memory of the current process, and,
\* if vidmap() mapped it, the screen of its terminal: not the one it had before the
\* screens were switched, nor the memory of the process that ran before
\* (flush_tlb() of paging.c: "flushes the tlb when context switching").
AddressSpaceIsOwn ==
    paging => tlb = KernelSpace \cup (IF curr_pid = None THEN {} ELSE MemoryOf(curr_pid))
                    \cup DrawingPage
=============================================================================
