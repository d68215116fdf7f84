--------------------------- MODULE DisplayProofs ---------------------------
(***************************************************************************)
(* Proofs about Display and Paging: for any number of terminals and any    *)
(* screen contents the back buffers, the switches and the vidmap page      *)
(* implement one screen per terminal, also behind page tables and TLB.     *)
(***************************************************************************)
EXTENDS Paging, TLAPS

LEMMA FollowingIsTerminal ==
    ASSUME active_terminal \in Terms
    PROVE  Following \in Terms /\ Following # active_terminal
BY TerminalsAssumption DEF Terms, Following

\* The buffers of two terminals are different ones.
LEMMA BuffersApart ==
    ASSUME NEW t \in Terms, NEW u \in Terms
    PROVE  /\ get_video_mem(t) \in Frames
           /\ get_video_mem(t) = get_video_mem(u) => t = u
BY TerminalsAssumption DEF Terms, Frames, Video, get_video_mem

LEMMA TurnsType == TurnsTypeOK /\ TurnsNext => TurnsTypeOK'
BY FollowingIsTerminal DEF TurnsTypeOK, TurnsNext, Boot, Ask, Turn

LEMMA SwitchFramesType ==
    ASSUME DisplayTypeOK
    PROVE  SwitchFrames \in [Frames -> Contents]
BY FollowingIsTerminal DEF DisplayTypeOK, TurnsTypeOK, SwitchFrames, Frames

DisplayInv == DisplayTypeOK /\ PageIsOwn

LEMMA DisplayInductive == DisplayInv /\ [DisplayNext]_displayVars => DisplayInv'
<1> SUFFICES ASSUME DisplayInv, [DisplayNext]_displayVars PROVE DisplayInv'
  OBVIOUS
<1> USE DEF DisplayInv, DisplayTypeOK
<1>1. ASSUME NEW f \in Frames, Write(f), UNCHANGED cursorVars PROVE DisplayInv'
  BY <1>1 DEF Write, TurnsTypeOK, PageIsOwn, get_video_mem, cursorVars
<1>2. ASSUME NEW t \in Terms, Putc(t) PROVE DisplayInv'
  <2>1. get_video_mem(t) \in Frames
    BY BuffersApart
  <2>2. cursor' \in [Terms -> Positions] /\ vga' \in Positions
    BY <1>2 DEF Putc, set_cursor_pos, update_cursor_pos
  <2> QED
    BY <1>2, <2>1, <2>2 DEF Putc, Write, TurnsTypeOK, PageIsOwn, get_video_mem
<1>3. CASE ProgramPutc \/ KeyboardPutc
  BY <1>2, <1>3 DEF ProgramPutc, KeyboardPutc, TurnsTypeOK
<1>4. CASE ProgramVidmap
  BY <1>1, <1>4 DEF ProgramVidmap
<1>5. CASE Remap
  BY <1>5, BuffersApart DEF Remap, TurnsTypeOK, PageIsOwn, get_video_mem
<1>6. CASE BootShell
  BY <1>6, BuffersApart, TurnsType DEF BootShell, TurnsNext, Boot, TurnsTypeOK, PageIsOwn, get_video_mem
<1>7. CASE AskTerminal
  BY <1>7, TurnsType DEF AskTerminal, TurnsNext, Ask, PageIsOwn, get_video_mem
<1>8. ASSUME Tick, cursor' \in [Terms -> Positions], vga' \in Positions PROVE DisplayInv'
  <2>1. TurnsTypeOK'
    BY <1>8, TurnsType DEF Tick, TurnsNext
  <2>2. get_video_mem(active_terminal)' \in Frames
    BY <2>1, BuffersApart DEF TurnsTypeOK, Frames, Terms, Video, get_video_mem
  <2>3. frame' \in [Frames -> Contents]
    BY <1>8, SwitchFramesType, DisplayAssumption DEF Tick, TickFrames
  <2> QED
    BY <1>8, <2>1, <2>2, <2>3 DEF Tick, PageIsOwn
<1>9. CASE FirstTurn \/ Resume \/ ResumeAndKill
  <2>1. Following \in Terms
    BY FollowingIsTerminal DEF TurnsTypeOK
  <2>2. cursor' \in [Terms -> Positions] /\ vga' \in Positions
    BY <1>9, <2>1, DisplayAssumption
       DEF FirstTurn, Resume, ResumeAndKill, set_cursor_pos, update_cursor_pos, cursorVars
  <2> QED
    BY <1>8, <1>9, <2>2 DEF FirstTurn, Resume, ResumeAndKill
<1>10. CASE UNCHANGED displayVars
  BY <1>10 DEF displayVars, TurnsTypeOK, PageIsOwn, get_video_mem
<1> QED
  BY <1>3, <1>4, <1>5, <1>6, <1>7, <1>9, <1>10 DEF DisplayNext

LEMMA DisplayInitInv == DisplayInit => DisplayInv
BY TerminalsAssumption, DisplayAssumption
   DEF DisplayInit, TurnsInit, DisplayInv, DisplayTypeOK, TurnsTypeOK, PageIsOwn, Terms

\* Every variable stays in its type, and what a program draws through vidmap()
\* goes where its putc() output goes, after every switch of either kind.
THEOREM PageAlwaysOwn == DisplaySpec => [](DisplayTypeOK /\ PageIsOwn)
BY DisplayInitInv, DisplayInductive, PTL DEF DisplaySpec, DisplayInv

----------------------------------------------------------------------------

\* Writing into the buffer of a terminal draws on that terminal's screen.
LEMMA WriteDraws ==
    ASSUME DisplayTypeOK, NEW t \in Terms, Write(get_video_mem(t))
    PROVE  S!DrawOn(t)
<1>1. PICK c \in Contents : frame' = [frame EXCEPT ![get_video_mem(t)] = c]
  BY DEF Write
<1>2. \A u \in Terms : ScreenOf(u)' = IF u = t THEN c ELSE ScreenOf(u)
  BY <1>1, BuffersApart DEF Write, ScreenOf, get_video_mem, DisplayTypeOK
<1>3. [u \in Terms |-> ScreenOf(u)]' = [[u \in Terms |-> ScreenOf(u)] EXCEPT ![t] = c]
  BY <1>2
<1> QED
  BY <1>3 DEF Write, S!DrawOn

\* The copies of the tick move screens, and change none.
LEMMA SwitchKeepsScreens ==
    ASSUME DisplayTypeOK, Turn, NEW t \in Terms
    PROVE  SwitchFrames[get_video_mem(t)'] = ScreenOf(t)
<1>1. Following \in Terms
  BY FollowingIsTerminal DEF DisplayTypeOK, TurnsTypeOK
<1>2. Video \notin Terms /\ visible_terminal \in Terms
  BY TerminalsAssumption DEF Video, Terms, DisplayTypeOK, TurnsTypeOK
<1>3. CASE Switches
  BY <1>1, <1>2, <1>3 DEF SwitchFrames, ScreenOf, get_video_mem, Turn, Switches, Frames, DisplayTypeOK
<1>4. CASE ~Switches
  BY <1>4 DEF SwitchFrames, ScreenOf, get_video_mem, Turn
<1> QED
  BY <1>3, <1>4

LEMMA TickPassesTurn ==
    ASSUME DisplayTypeOK, Tick
    PROVE  S!PassTurn
<1>1. Following \in Terms /\ active_terminal' = Following
  BY FollowingIsTerminal DEF DisplayTypeOK, TurnsTypeOK, Tick, Turn
<1>2. \A t \in Terms : SwitchFrames[get_video_mem(t)'] = ScreenOf(t)
  BY SwitchKeepsScreens DEF Tick
<1>3. \A t \in Terms : /\ get_video_mem(t)' \in Frames
                       /\ get_video_mem(t)' = get_video_mem(active_terminal)' <=> t = Following
  BY <1>1, TerminalsAssumption DEF get_video_mem, Frames, Video, Terms
<1>4. CASE Following \in started
  BY <1>1, <1>2, <1>4 DEF Tick, TickFrames, ScreenOf, Turn, Following, S!PassTurn
<1>5. CASE Following \notin started
  <2>1. frame' = [SwitchFrames EXCEPT ![get_video_mem(active_terminal)'] = Blank]
    BY <1>5 DEF Tick, TickFrames
  <2>2. \A t \in Terms : frame'[get_video_mem(t)'] = IF t = Following THEN Blank ELSE ScreenOf(t)
    BY <1>2, <1>3, <2>1, SwitchFramesType
  <2>3. \A t \in Terms : ScreenOf(t)' = IF t = Following THEN Blank ELSE ScreenOf(t)
    BY <2>2 DEF ScreenOf
  <2>4. [t \in Terms |-> ScreenOf(t)]' = [[t \in Terms |-> ScreenOf(t)] EXCEPT ![Following] = Blank]
    BY <2>3
  <2> QED
    BY <1>1, <1>5, <2>4 DEF Tick, Turn, Following, S!PassTurn
<1> QED
  BY <1>4, <1>5

\* The kernel keeps one screen per terminal, of which only the shown one is in
\* video memory: no output is lost or lands elsewhere.
THEOREM DisplayKeepsScreens == DisplaySpec => ImplementsScreens
<1>1. DisplayInit => S!ScreensInit
  <2> SUFFICES ASSUME DisplayInit PROVE S!ScreensInit
    OBVIOUS
  <2>1. DisplayTypeOK
    BY DisplayInitInv DEF DisplayInv
  <2>2. \A t \in Terms : ScreenOf(t) \in Contents
    BY <2>1, BuffersApart DEF ScreenOf, DisplayTypeOK
  <2> QED
    BY <2>2 DEF DisplayInit, TurnsInit, S!ScreensInit, S!TerminalIds, Terms
<1>2. DisplayInv /\ [DisplayNext]_displayVars => [S!ScreensNext]_(S!scrVars)
  <2> SUFFICES ASSUME DisplayInv, [DisplayNext]_displayVars
               PROVE  [S!ScreensNext]_(S!scrVars)
    OBVIOUS
  <2>1. DisplayTypeOK /\ active_terminal \in Terms /\ visible_terminal \in Terms
    BY DEF DisplayInv, DisplayTypeOK, TurnsTypeOK
  <2>2. CASE ProgramPutc
    BY <2>1, <2>2, WriteDraws
       DEF ProgramPutc, Putc, ProgramRuns, S!ScreensNext, S!ProgramDraws
  <2>3. CASE ProgramVidmap
    BY <2>1, <2>3, WriteDraws
       DEF ProgramVidmap, ProgramRuns, DisplayInv, PageIsOwn, S!ScreensNext, S!ProgramDraws
  <2>4. CASE KeyboardPutc
    BY <2>1, <2>4, WriteDraws DEF KeyboardPutc, Putc, S!ScreensNext, S!KeyboardDraws
  <2>5. CASE Remap \/ AskTerminal \/ UNCHANGED displayVars
    BY <2>5 DEF Remap, AskTerminal, Ask, displayVars, S!scrVars, ScreenOf, get_video_mem
  <2>6. CASE BootShell
    BY <2>6 DEF BootShell, Boot, ScreenOf, get_video_mem, S!ScreensNext, S!Begin
  <2>7. CASE FirstTurn \/ Resume \/ ResumeAndKill
    BY <2>1, <2>7, TickPassesTurn DEF FirstTurn, Resume, ResumeAndKill, S!ScreensNext
  <2> QED
    BY <2>2, <2>3, <2>4, <2>5, <2>6, <2>7 DEF DisplayNext
<1>3. DisplaySpec => []DisplayInv
  BY PageAlwaysOwn, PTL DEF DisplayInv
<1> QED
  BY <1>1, <1>2, <1>3, PTL DEF DisplaySpec, ImplementsScreens, S!ScreensSpec

----------------------------------------------------------------------------

\* A step that loses the cursor shows a terminal and kills its program.
LEMMA OnlyKills ==
    ASSUME DisplayTypeOK, [DisplayNext]_displayVars, CursorShown, ~CursorShown'
    PROVE  ResumeAndKill /\ Switches
<1> USE FollowingIsTerminal DEF DisplayTypeOK, TurnsTypeOK, CursorShown
<1>1. CASE ProgramPutc \/ KeyboardPutc
  BY <1>1 DEF ProgramPutc, KeyboardPutc, Putc, Write, set_cursor_pos, update_cursor_pos
<1>2. CASE ProgramVidmap \/ Remap \/ BootShell \/ AskTerminal
  BY <1>2 DEF ProgramVidmap, Write, Remap, BootShell, AskTerminal, Boot, Ask, cursorVars
<1>3. CASE FirstTurn
  BY <1>3 DEF FirstTurn, Tick, Turn, set_cursor_pos, update_cursor_pos
<1>4. CASE Resume
  BY <1>4 DEF Resume, Tick, Turn, update_cursor_pos
<1>5. CASE ResumeAndKill
  BY <1>5 DEF ResumeAndKill, Tick, Turn, cursorVars
<1>6. CASE UNCHANGED displayVars
  BY <1>6 DEF displayVars
<1> QED
  BY <1>1, <1>2, <1>3, <1>4, <1>5, <1>6 DEF DisplayNext

\* The VGA cursor stays with the shown terminal, but for a kill in the tick that
\* shows it (scheduling.c, lib.c).
THEOREM CursorStaysShown == DisplaySpec => OnlyKillsLoseCursor
<1>1. DisplayTypeOK /\ [DisplayNext]_displayVars
        => [CursorShown /\ ~CursorShown' => ResumeAndKill /\ Switches]_displayVars
  BY OnlyKills
<1>2. DisplayInv => DisplayTypeOK
  BY DEF DisplayInv
<1> QED
  BY <1>1, <1>2, DisplayInitInv, DisplayInductive, PTL DEF DisplaySpec, OnlyKillsLoseCursor

----------------------------------------------------------------------------
(* Paging *)

\* The tables as the kernel means them.
VideoTable ==
    [i \in Slots |-> IF i = VIDEO_REAL_ADDR THEN PageEntry(i, 0, 0) ELSE NotPresent]

DirectoryOf(pid, mapped) ==
    [d \in Dirs |-> IF d = 0 THEN PageEntry(page_0_table_addr, 0, 0)
                    ELSE IF d = 1 THEN PageEntry(FOUR_MB, 1, 0)
                    ELSE IF d = USER_PAGING /\ pid # None
                         THEN PageEntry(get_physical_addr_for_pid(pid), 1, 1)
                    ELSE IF d = VIDMAP_PAGE /\ mapped THEN PageEntry(vidmap_pte_addr, 0, 1)
                    ELSE NotPresent]

OwnScreen == Physical(get_video_mem(active_terminal))

LEMMA Layout ==
    /\ Dirs \subseteq Nat /\ Slots \subseteq Nat /\ Pids \subseteq Nat
    /\ 0 \in Dirs /\ 1 \in Dirs /\ 0 \in Slots
    /\ USER_PAGING \in Dirs /\ VIDMAP_PAGE \in Dirs /\ USER_PAGING # VIDMAP_PAGE
    /\ USER_PAGING # 0 /\ USER_PAGING # 1 /\ VIDMAP_PAGE # 0 /\ VIDMAP_PAGE # 1
    /\ VIDEO_REAL_ADDR \in Slots
    /\ page_0_table_addr # vidmap_pte_addr
    /\ \A pid \in Pids : pid # None
BY PagingAssumption DEF Dirs, Slots, Pids, None

\* What the entries of the directory are.
LEMMA DirectoryEntries ==
    ASSUME NEW pid, NEW mapped \in BOOLEAN
    PROVE  /\ DirectoryOf(pid, mapped)[0] = PageEntry(page_0_table_addr, 0, 0)
           /\ DirectoryOf(pid, mapped)[1] = PageEntry(FOUR_MB, 1, 0)
           /\ DirectoryOf(pid, mapped)[USER_PAGING] =
                IF pid = None THEN NotPresent ELSE PageEntry(get_physical_addr_for_pid(pid), 1, 1)
           /\ DirectoryOf(pid, mapped)[VIDMAP_PAGE] =
                IF mapped THEN PageEntry(vidmap_pte_addr, 0, 1) ELSE NotPresent
           /\ \A d \in Dirs \ {0, 1, USER_PAGING, VIDMAP_PAGE} :
                DirectoryOf(pid, mapped)[d] = NotPresent
BY Layout DEF DirectoryOf, PageEntry, NotPresent

\* Which of them are large pages and which are page tables.
LEMMA DirectorySizes ==
    ASSUME NEW pid, NEW mapped \in BOOLEAN, NEW d \in Dirs
    PROVE  LET e == DirectoryOf(pid, mapped)[d] IN
           /\ e.present = 1 /\ e.size = 1 <=> d = 1 \/ (d = USER_PAGING /\ pid # None)
           /\ e.present = 1 /\ e.size = 0 <=> d = 0 \/ (d = VIDMAP_PAGE /\ mapped)
<1>1. /\ PageEntry(page_0_table_addr, 0, 0).present = 1
      /\ PageEntry(page_0_table_addr, 0, 0).size = 0
      /\ PageEntry(FOUR_MB, 1, 0).present = 1 /\ PageEntry(FOUR_MB, 1, 0).size = 1
      /\ PageEntry(get_physical_addr_for_pid(pid), 1, 1).present = 1
      /\ PageEntry(get_physical_addr_for_pid(pid), 1, 1).size = 1
      /\ PageEntry(vidmap_pte_addr, 0, 1).present = 1 /\ PageEntry(vidmap_pte_addr, 0, 1).size = 0
      /\ NotPresent.present = 0
  BY DEF PageEntry, NotPresent
<1> QED
  BY <1>1, Layout DEF DirectoryOf

LEMMA LargePagesOf ==
    ASSUME NEW pid, NEW mapped \in BOOLEAN
    PROVE  LargePages(DirectoryOf(pid, mapped)) =
                {Translation(1, i, FOUR_MB + i, 0) : i \in Slots}
                \cup (IF pid = None THEN {} ELSE MemoryOf(pid))
<1> DEFINE dir == DirectoryOf(pid, mapped)
           kernel == {Translation(1, i, FOUR_MB + i, 0) : i \in Slots}
           Is(q) == dir[q[1]].present = 1 /\ dir[q[1]].size = 1
           Page(p) == Translation(p[1], p[2], dir[p[1]].addr + p[2], dir[p[1]].user)
<1>1. /\ dir[1] = PageEntry(FOUR_MB, 1, 0)
      /\ dir[USER_PAGING] = IF pid = None THEN NotPresent
                            ELSE PageEntry(get_physical_addr_for_pid(pid), 1, 1)
  BY DirectoryEntries
<1>2. \A d \in Dirs : dir[d].present = 1 /\ dir[d].size = 1
                        <=> d = 1 \/ (d = USER_PAGING /\ pid # None)
  BY DirectorySizes
<1>3. LargePages(dir) = {Page(p) : p \in {q \in Dirs \X Slots : Is(q)}}
  BY DEF LargePages
<1> HIDE DEF dir
<1>4. ASSUME NEW t \in LargePages(dir)
      PROVE  t \in kernel \cup (IF pid = None THEN {} ELSE MemoryOf(pid))
  <2>1. PICK d \in Dirs, i \in Slots : Is(<<d, i>>) /\ t = Page(<<d, i>>)
    BY <1>3, <1>4
  <2>2. CASE d = 1
    <3>1. t = Translation(1, i, FOUR_MB + i, 0)
      BY <1>1, <2>1, <2>2 DEF PageEntry
    <3> QED
      BY <3>1
  <2>3. CASE d = USER_PAGING /\ pid # None
    <3>1. t = Translation(USER_PAGING, i, get_physical_addr_for_pid(pid) + i, 1)
      BY <1>1, <2>1, <2>3 DEF PageEntry
    <3> QED
      BY <2>3, <3>1 DEF MemoryOf
  <2> QED
    BY <1>2, <2>1, <2>2, <2>3
<1>5. ASSUME NEW i \in Slots
      PROVE  Translation(1, i, FOUR_MB + i, 0) \in LargePages(dir)
  <2>1. Is(<<1, i>>) /\ <<1, i>> \in Dirs \X Slots
    BY <1>2, Layout
  <2>2. Page(<<1, i>>) = Translation(1, i, FOUR_MB + i, 0)
    BY <1>1 DEF PageEntry
  <2> QED
    BY <1>3, <2>1, <2>2
<1>6. ASSUME NEW i \in Slots, pid # None
      PROVE  Translation(USER_PAGING, i, get_physical_addr_for_pid(pid) + i, 1) \in LargePages(dir)
  <2>1. Is(<<USER_PAGING, i>>) /\ <<USER_PAGING, i>> \in Dirs \X Slots
    BY <1>2, <1>6, Layout
  <2>2. Page(<<USER_PAGING, i>>) =
            Translation(USER_PAGING, i, get_physical_addr_for_pid(pid) + i, 1)
    BY <1>1, <1>6 DEF PageEntry
  <2> QED
    BY <1>3, <2>1, <2>2
<1>7. LargePages(dir) = kernel \cup (IF pid = None THEN {} ELSE MemoryOf(pid))
  BY <1>4, <1>5, <1>6 DEF MemoryOf
<1> QED
  BY <1>7 DEF dir

LEMMA SmallPagesOf ==
    ASSUME NEW pid, NEW mapped \in BOOLEAN, NEW frm, NEW pte,
           mapped => pte = PageEntry(frm, 0, 1)
    PROVE  SmallPages(DirectoryOf(pid, mapped), VideoTable, pte) =
                {Translation(0, VIDEO_REAL_ADDR, VIDEO_REAL_ADDR, 0)}
                \cup (IF mapped THEN {Translation(VIDMAP_PAGE, 0, frm, 1)} ELSE {})
<1> DEFINE dir == DirectoryOf(pid, mapped)
           small(p) == SmallEntry(dir, VideoTable, pte, p)
           Is(q) == dir[q[1]].present = 1 /\ dir[q[1]].size = 0 /\ small(q).present = 1
           Page(p) == Translation(p[1], p[2], small(p).addr, Lesser(dir[p[1]].user, small(p).user))
<1>1. /\ dir[0] = PageEntry(page_0_table_addr, 0, 0)
      /\ mapped => dir[VIDMAP_PAGE] = PageEntry(vidmap_pte_addr, 0, 1)
  BY DirectoryEntries
<1>2. \A d \in Dirs : dir[d].present = 1 /\ dir[d].size = 0
                        <=> d = 0 \/ (d = VIDMAP_PAGE /\ mapped)
  BY DirectorySizes
<1>3. SmallPages(dir, VideoTable, pte) = {Page(p) : p \in {q \in Dirs \X Slots : Is(q)}}
  BY DEF SmallPages
<1> HIDE DEF dir
<1>4. \A i \in Slots : small(<<0, i>>) = IF i = VIDEO_REAL_ADDR THEN PageEntry(i, 0, 0)
                                         ELSE NotPresent
  BY <1>1 DEF SmallEntry, TableEntry, VideoTable, PageEntry
<1>5. mapped => \A i \in Slots : small(<<VIDMAP_PAGE, i>>) = IF i = 0 THEN PageEntry(frm, 0, 1)
                                                             ELSE NotPresent
  BY <1>1, Layout DEF SmallEntry, TableEntry, PageEntry
<1>6. Is(<<0, VIDEO_REAL_ADDR>>) /\ Page(<<0, VIDEO_REAL_ADDR>>) =
            Translation(0, VIDEO_REAL_ADDR, VIDEO_REAL_ADDR, 0)
  <2>1. small(<<0, VIDEO_REAL_ADDR>>) = PageEntry(VIDEO_REAL_ADDR, 0, 0)
    BY <1>4, Layout
  <2> HIDE DEF small
  <2> QED
    BY <1>1, <1>2, <2>1, Layout DEF PageEntry, Lesser
<1>7. mapped => Is(<<VIDMAP_PAGE, 0>>) /\ Page(<<VIDMAP_PAGE, 0>>) = Translation(VIDMAP_PAGE, 0, frm, 1)
  <2>1. mapped => small(<<VIDMAP_PAGE, 0>>) = PageEntry(frm, 0, 1)
    BY <1>5, Layout
  <2> HIDE DEF small
  <2> QED
    BY <1>1, <1>2, <2>1, Layout DEF PageEntry, Lesser
<1>8. ASSUME NEW d \in Dirs, NEW i \in Slots, Is(<<d, i>>)
      PROVE  (d = 0 /\ i = VIDEO_REAL_ADDR) \/ (mapped /\ d = VIDMAP_PAGE /\ i = 0)
  <2> HIDE DEF small
  <2>1. d = 0 \/ (d = VIDMAP_PAGE /\ mapped)
    BY <1>2, <1>8
  <2>2. small(<<d, i>>).present = 1
    BY <1>8
  <2>3. NotPresent.present = 0
    BY DEF NotPresent
  <2> QED
    BY <1>4, <1>5, <2>1, <2>2, <2>3
<1> HIDE DEF small, Is, Page
<1>9. SmallPages(dir, VideoTable, pte) =
            {Page(<<0, VIDEO_REAL_ADDR>>)} \cup (IF mapped THEN {Page(<<VIDMAP_PAGE, 0>>)} ELSE {})
  BY <1>3, <1>6, <1>7, <1>8, Layout
<1> QED
  BY <1>6, <1>7, <1>9 DEF dir

\* The tables are as the kernel means them, and nothing older is cached.
TablesInv ==
    /\ page_0_table = VideoTable
    /\ page_directory = DirectoryOf(curr_pid, vidmap_page # Unmapped)
    /\ vidmap_page # Unmapped => vidmap_pte = PageEntry(OwnScreen, 0, 1)
    /\ tlb = Translations(page_directory, page_0_table, vidmap_pte)

PagingInv ==
    /\ DisplayInv
    /\ curr_pid \in Pids \cup {None}
    /\ paging \in BOOLEAN
    /\ ~paging => vidmap_page = Unmapped /\ curr_pid = None
    /\ paging => TablesInv

LEMMA TablesGiveAddressSpace ==
    ASSUME TablesInv
    PROVE  tlb = KernelSpace \cup (IF curr_pid = None THEN {} ELSE MemoryOf(curr_pid)) \cup DrawingPage
<1> DEFINE mapped == vidmap_page # Unmapped
<1>1. LargePages(page_directory) = {Translation(1, i, FOUR_MB + i, 0) : i \in Slots}
                                   \cup (IF curr_pid = None THEN {} ELSE MemoryOf(curr_pid))
  BY LargePagesOf DEF TablesInv
<1>2. SmallPages(page_directory, page_0_table, vidmap_pte) =
            {Translation(0, VIDEO_REAL_ADDR, VIDEO_REAL_ADDR, 0)}
            \cup (IF mapped THEN {Translation(VIDMAP_PAGE, 0, OwnScreen, 1)} ELSE {})
  <2>1. /\ page_directory = DirectoryOf(curr_pid, mapped)
        /\ page_0_table = VideoTable
        /\ mapped => vidmap_pte = PageEntry(OwnScreen, 0, 1)
    BY DEF TablesInv
  <2>2. mapped \in BOOLEAN
    OBVIOUS
  <2> HIDE DEF mapped
  <2> QED
    BY <2>1, <2>2, SmallPagesOf
<1> QED
  BY <1>1, <1>2 DEF TablesInv, Translations, KernelSpace, DrawingPage, OwnScreen

\* set_process_paging() and vidmap_paging() leave the tables as they should be,
\* whatever was mapped before.
LEMMA VidmapPagingSets ==
    ASSUME TablesInv, NEW pid, NEW dir, NEW arg \in BOOLEAN,
           \/ dir = page_directory /\ pid = curr_pid
           \/ /\ pid # None
              /\ dir = [page_directory EXCEPT
                            ![USER_PAGING] = PageEntry(get_physical_addr_for_pid(pid), 1, 1)],
           VidmapTables(arg, dir)
    PROVE  page_directory' = DirectoryOf(pid, arg)
<1> DEFINE old == vidmap_page # Unmapped
           new == IF arg THEN PageEntry(vidmap_pte_addr, 0, 1) ELSE NotPresent
<1>1. page_directory' = [dir EXCEPT ![VIDMAP_PAGE] = new]
  BY DEF VidmapTables
<1>2. page_directory = DirectoryOf(curr_pid, old)
  BY DEF TablesInv
<1>3. [DirectoryOf(curr_pid, old) EXCEPT ![VIDMAP_PAGE] = new] = DirectoryOf(curr_pid, arg)
  <2> HIDE DEF old
  <2> QED
    BY Layout DEF DirectoryOf
<1>4. pid # None =>
        [DirectoryOf(curr_pid, old) EXCEPT
            ![USER_PAGING] = PageEntry(get_physical_addr_for_pid(pid), 1, 1)] = DirectoryOf(pid, old)
  <2> HIDE DEF old
  <2> QED
    BY Layout DEF DirectoryOf
<1>5. [DirectoryOf(pid, old) EXCEPT ![VIDMAP_PAGE] = new] = DirectoryOf(pid, arg)
  <2> HIDE DEF old
  <2> QED
    BY Layout DEF DirectoryOf
<1> HIDE DEF old, new
<1> QED
  BY <1>1, <1>2, <1>3, <1>4, <1>5

LEMMA SetProcessPagingInv ==
    ASSUME PagingInv, paging, DisplayInv', NEW pid \in Pids, set_process_paging(pid)
    PROVE  PagingInv'
<1> DEFINE dir == [page_directory EXCEPT
                    ![USER_PAGING] = PageEntry(get_physical_addr_for_pid(pid), 1, 1)]
           arg == vidmap_page' # Unmapped
<1>1. TablesInv /\ curr_pid' = pid /\ VidmapTables(arg, dir) /\ flush_tlb /\ pid # None
  BY Layout DEF PagingInv, set_process_paging, vidmap_paging
<1>2. page_directory' = DirectoryOf(pid, arg)
  BY <1>1, VidmapPagingSets
<1>3. page_0_table' = VideoTable /\ paging' = TRUE
  BY <1>1 DEF TablesInv, VidmapTables, PagingInv
<1>4. arg => vidmap_pte' = PageEntry(OwnScreen', 0, 1)
  BY <1>1 DEF VidmapTables, OwnScreen, Physical, get_video_mem
<1>5. TablesInv'
  BY <1>1, <1>2, <1>3, <1>4 DEF TablesInv, flush_tlb, VideoTable
<1> QED
  BY <1>1, <1>3, <1>5 DEF PagingInv

LEMMA VidmapInv ==
    ASSUME PagingInv, paging, DisplayInv', vidmap
    PROVE  PagingInv'
<1>1. TablesInv /\ curr_pid' = curr_pid /\ VidmapTables(TRUE, page_directory) /\ flush_tlb
      /\ vidmap_page' # Unmapped
  BY DEF PagingInv, vidmap, vidmap_paging
<1>2. page_directory' = DirectoryOf(curr_pid, TRUE)
  BY <1>1, VidmapPagingSets
<1>3. page_0_table' = VideoTable /\ paging' = TRUE
  BY <1>1 DEF TablesInv, VidmapTables, PagingInv
<1>4. vidmap_pte' = PageEntry(OwnScreen', 0, 1)
  BY <1>1 DEF VidmapTables, OwnScreen, Physical, get_video_mem
<1>5. TablesInv'
  BY <1>1, <1>2, <1>3, <1>4 DEF TablesInv, flush_tlb, VideoTable
<1> QED
  BY <1>1, <1>3, <1>5 DEF PagingInv

\* Nothing that Display does without mapping pages disturbs the tables.
LEMMA TablesKept ==
    ASSUME PagingInv, DisplayInv', UNCHANGED tableVars,
           UNCHANGED <<active_terminal, visible_terminal, vidmap_page>>
    PROVE  PagingInv'
BY DEF PagingInv, TablesInv, tableVars, OwnScreen, Physical, get_video_mem, VideoTable, DirectoryOf,
       Translations, LargePages, SmallPages, SmallEntry, TableEntry

\* A page programs may use and that shows a screen is the one Display maps.
LEMMA DrawsOnOwnScreen ==
    ASSUME PagingInv, paging, NEW t \in tlb, NEW f \in Frames, t.user = 1, t.frame = Physical(f)
    PROVE  vidmap_page # Unmapped /\ f = vidmap_page
<1>1. tlb = KernelSpace \cup (IF curr_pid = None THEN {} ELSE MemoryOf(curr_pid)) \cup DrawingPage
  BY TablesGiveAddressSpace DEF PagingInv
<1>2. Physical(f) < EIGHT_MB
  BY PagingAssumption, TerminalsAssumption
     DEF Physical, Frames, Terms, Video, EIGHT_MB, FOUR_MB, KernelFrames, Slots
<1>3. t \notin KernelSpace
  BY DEF KernelSpace, Translation
<1>4. ASSUME NEW pid \in Pids PROVE t \notin MemoryOf(pid)
  <2>1. \A i \in Slots : get_physical_addr_for_pid(pid) + i >= EIGHT_MB
    <3>1. FOUR_MB \in Nat /\ pid \in Nat /\ FOUR_MB * pid \in Nat
      BY PagingAssumption, Layout DEF FOUR_MB
    <3>2. EIGHT_MB \in Nat
      BY PagingAssumption DEF EIGHT_MB
    <3> QED
      BY <3>1, <3>2, Layout DEF get_physical_addr_for_pid
  <2>2. \A i \in Slots : get_physical_addr_for_pid(pid) + i \in Int /\ EIGHT_MB \in Int
    BY PagingAssumption, Layout DEF get_physical_addr_for_pid, EIGHT_MB, FOUR_MB
  <2>3. Physical(f) \in Int
    BY PagingAssumption, TerminalsAssumption
       DEF Physical, Frames, Terms, Video, KernelFrames, Slots
  <2> QED
    BY <1>2, <2>1, <2>2, <2>3 DEF MemoryOf, Translation
<1>5. t \in DrawingPage
  BY <1>1, <1>3, <1>4 DEF PagingInv
<1>6. vidmap_page # Unmapped /\ t.frame = Physical(get_video_mem(active_terminal))
  BY <1>5 DEF DrawingPage, Translation
<1>7. get_video_mem(active_terminal) = vidmap_page /\ vidmap_page \in Frames
  BY <1>6 DEF PagingInv, DisplayInv, DisplayTypeOK, PageIsOwn
<1>8. \A g, h \in Frames : Physical(g) = Physical(h) => g = h
  BY PagingAssumption, TerminalsAssumption
     DEF Physical, Frames, Terms, Video, EIGHT_MB, FOUR_MB, KernelFrames, Slots
<1> QED
  BY <1>6, <1>7, <1>8

\* Behind page tables and TLB every step is one of Display.
LEMMA PagingStepIsDisplayStep ==
    ASSUME PagingInv, [PagingNext]_pagingVars
    PROVE  [DisplayNext]_displayVars
<1>1. CASE init_paging
  BY <1>1 DEF init_paging
<1>2. CASE LaunchOrHalt \/ vidmap \/ BootsShell \/ SwitchesProcess
  BY <1>2 DEF LaunchOrHalt, vidmap, BootsShell, SwitchesProcess, DisplayNext
<1>3. CASE KernelWrites
  BY <1>3 DEF KernelWrites, DisplayNext
<1>4. CASE paging /\ ProgramDraws
  <2>1. PICK t \in tlb, f \in Frames : t.user = 1 /\ t.frame = Physical(f) /\ Write(f)
    BY <1>4 DEF ProgramDraws
  <2>2. vidmap_page # Unmapped /\ f = vidmap_page
    BY <1>4, <2>1, DrawsOnOwnScreen
  <2> QED
    BY <1>4, <2>1, <2>2 DEF ProgramDraws, ProgramVidmap, DisplayNext
<1>5. CASE UNCHANGED pagingVars
  BY <1>5 DEF pagingVars
<1> QED
  BY <1>1, <1>2, <1>3, <1>4, <1>5 DEF PagingNext

LEMMA PagingInitInv == PagingInit => PagingInv
BY DisplayInitInv DEF PagingInit, PagingInv, DisplayInit

LEMMA PagingInductive == PagingInv /\ [PagingNext]_pagingVars => PagingInv'
<1> SUFFICES ASSUME PagingInv, [PagingNext]_pagingVars PROVE PagingInv'
  OBVIOUS
<1>0. DisplayInv'
  BY PagingStepIsDisplayStep, DisplayInductive DEF PagingInv
<1>1. CASE init_paging
  <2>1. page_0_table' = VideoTable /\ paging' = TRUE /\ flush_tlb /\ UNCHANGED <<displayVars, curr_pid>>
    BY <1>1 DEF init_paging, VideoTable
  <2>2. curr_pid = None /\ vidmap_page = Unmapped
    BY <1>1 DEF init_paging, PagingInv
  <2>3. page_directory' = DirectoryOf(None, FALSE)
    BY <1>1 DEF init_paging, DirectoryOf
  <2>4. vidmap_page' = Unmapped /\ curr_pid' = None
    BY <2>1, <2>2 DEF displayVars
  <2>5. TablesInv'
    BY <2>1, <2>3, <2>4 DEF TablesInv, flush_tlb, VideoTable
  <2> QED
    BY <1>0, <2>1, <2>4, <2>5 DEF PagingInv
<1>2. CASE paging /\ (LaunchOrHalt \/ BootsShell \/ SwitchesProcess)
  BY <1>0, <1>2, SetProcessPagingInv DEF LaunchOrHalt, BootsShell, SwitchesProcess
<1>3. CASE paging /\ vidmap
  BY <1>0, <1>3, VidmapInv
<1>4. CASE KernelWrites \/ ProgramDraws \/ UNCHANGED pagingVars
  <2>1. UNCHANGED tableVars /\ UNCHANGED <<active_terminal, visible_terminal, vidmap_page>>
    BY <1>4 DEF KernelWrites, ProgramDraws, ProgramPutc, KeyboardPutc, AskTerminal, Putc, Write, Ask,
                pagingVars, tableVars, displayVars
  <2> QED
    BY <1>0, <2>1, TablesKept
<1> QED
  BY <1>1, <1>2, <1>3, <1>4 DEF PagingNext

\* For any number of terminals and processes, any layout of memory and any sequence
\* of launches, halts, kills, vidmap() calls and switches, every address the processor
\* translates, from the tables or from its cache, is the kernel's, the current
\* process's, or the screen of its terminal.
THEOREM AddressSpaceAlwaysOwn == PagingSpec => []AddressSpaceIsOwn
<1>1. PagingInv => AddressSpaceIsOwn
  BY TablesGiveAddressSpace DEF PagingInv, AddressSpaceIsOwn
<1> QED
  BY <1>1, PagingInitInv, PagingInductive, PTL DEF PagingSpec

\* What programs draw through the TLB lands where Display says: the kernel still
\* keeps one screen per terminal.
THEOREM ScreensBehindPaging == PagingSpec => ImplementsScreens
<1>1. PagingInit => DisplayInit
  BY DEF PagingInit
<1>2. PagingSpec => DisplaySpec
  BY <1>1, PagingInitInv, PagingInductive, PagingStepIsDisplayStep, PTL DEF PagingSpec, DisplaySpec
<1> QED
  BY <1>2, DisplayKeepsScreens

LEMMA SlotsApart ==
    ASSUME NEW n \in Nat \ {0}, NEW p \in Nat, NEW q \in Nat, p < q,
           NEW i \in 0 .. n - 1, NEW j \in 0 .. n - 1
    PROVE  n * p + i < n * q + j
<1>1. p + 1 <= q
  OBVIOUS
<1>2. n * (p + 1) <= n * q
  BY <1>1
<1>3. n * (p + 1) = n * p + n
  OBVIOUS
<1>4. n * p \in Int /\ n * q \in Int
  OBVIOUS
<1> QED
  BY <1>2, <1>3, <1>4

\* The memories of two processes share no frame, with each other or with the kernel
\* (get_physical_addr_for_pid() of paging.c): an address space that is a process's
\* own reaches nobody else's memory.
THEOREM MemoriesApart ==
    ASSUME NEW p \in Pids, NEW q \in Pids, p # q, NEW a \in MemoryOf(p), NEW b \in MemoryOf(q)
    PROVE  a.frame # b.frame /\ a.frame >= EIGHT_MB
<1>1. PICK i \in Slots : a.frame = get_physical_addr_for_pid(p) + i
  BY DEF MemoryOf, Translation
<1>2. PICK j \in Slots : b.frame = get_physical_addr_for_pid(q) + j
  BY DEF MemoryOf, Translation
<1>3. FOUR_MB \in Nat \ {0} /\ p \in Nat /\ q \in Nat /\ EIGHT_MB \in Nat
  BY PagingAssumption DEF FOUR_MB, EIGHT_MB, Pids
<1>4. i \in 0 .. FOUR_MB - 1 /\ j \in 0 .. FOUR_MB - 1
  BY DEF Slots, FOUR_MB
<1>5. FOUR_MB * p \in Nat /\ FOUR_MB * q \in Nat
  BY <1>3
<1>6. FOUR_MB * p + i # FOUR_MB * q + j
  <2>1. CASE p < q
    BY <1>3, <1>4, <1>5, <2>1, SlotsApart
  <2>2. CASE q < p
    BY <1>3, <1>4, <1>5, <2>2, SlotsApart
  <2> QED
    BY <1>3, <2>1, <2>2
<1> QED
  BY <1>1, <1>2, <1>3, <1>4, <1>5, <1>6 DEF get_physical_addr_for_pid
=============================================================================
