-------------------------------- MODULE Fish --------------------------------
(***************************************************************************)
(* fish.c: reads two pictures side by side, a character of each at a time, *)
(* makes a blinker of every pair that is not blank, and lets them blink at *)
(* the ticks of its RTC; one more comes and goes.                          *)
(***************************************************************************)
EXTENDS Shell, Blink

CONSTANTS
    COLUMNS,     \* cells in a line of the screen: 80
    OFFSET,      \* the first column of the picture: 40
    WAIT,        \* ticks between two acts: 100
    EXTRA,       \* where the one more blinker is: 6 * 80 + 60
    LENGTH,      \* how long each picture is seen: 15
    EXTRA_ON,    \* and each character of the one more: 7
    EXTRA_OFF,   \* and 6
    INT_SIZE,    \* the bytes of an int: 4
    Frames,      \* the files that frame0.txt and frame1.txt may be
    NEWLINE, BLANK

\* What c0 and c1 are set to for the next line: '0'.
NoNewline == 48

ASSUME FishAssumption ==
    /\ Frames \subseteq Names \X Names
    /\ "rtc" \in Names
    /\ INT_SIZE \in Counts /\ 1 \in Counts
    /\ EXTRA \in Halfwords \ {0} /\ EXTRA < CELLS
    /\ {COLUMNS, OFFSET, WAIT} \subseteq Nat /\ OFFSET # 0
    /\ {LENGTH, EXTRA_ON, EXTRA_OFF} \subseteq Lengths
    /\ Bytes \cup {BLANK, NEWLINE} \subseteq Chars
    /\ NEWLINE # NoNewline

Blinking(location, on, off) ==
    [location |-> location, on_char |-> on, off_char |-> off,
     on_length |-> LENGTH, off_length |-> LENGTH]

\* The one more: an 'I' and an 'M'.
Extra ==
    [location |-> EXTRA, on_char |-> 73, off_char |-> 77,
     on_length |-> EXTRA_ON, off_length |-> EXTRA_OFF]

\* blink_array is cleared and the video page mapped before the RTC is opened.
FishBegins ==
    /\ Starts({"fish"})
    /\ Open(Pid, "rtc")
    /\ \E frames \in Frames : Calls("fish opens rtc", [frames |-> frames])
    /\ blink_array' = [i \in Slots |-> Zeroed]
    /\ mp1_list_head' = NULL
    /\ vmem' = [c \in VmemCells |-> 0]
    /\ UNCHANGED <<eax, out>>

----------------------------------------------------------------------------
(* add_frames(): file is the one that is looked at next *)

FishOpensFirst ==
    /\ pc = "fish opens rtc"
    /\ Open(Pid, loc.frames[1])
    /\ Calls("fish opens first", [frames |-> loc.frames, rtc |-> reply.value])
    /\ UNCHANGED <<blinkVars, out>>

FishOpensSecond ==
    /\ pc = "fish opens first" /\ reply.value # -1
    /\ Open(Pid, loc.frames[2])
    /\ Calls("fish opens second", [frames |-> loc.frames, rtc |-> loc.rtc,
                                  fd0 |-> reply.value])
    /\ UNCHANGED <<blinkVars, out>>

\* ece391_halt(-1)
FishCannotOpen ==
    /\ \E call \in {"fish opens first", "fish opens second"} : Got(call, -1)
    /\ Halt(-1)
    /\ UNCHANGED blinkVars

FishLooks ==
    /\ Runs(Pid) /\ pc = "fish opens second" /\ reply.value # -1
    /\ Calls("fish looks", [frames |-> loc.frames, rtc |-> loc.rtc,
                            fd |-> <<loc.fd0, reply.value>>, file |-> 1,
                            c |-> <<NoNewline, NoNewline>>, eof |-> <<FALSE, FALSE>>,
                            row |-> 0, col |-> 0])
    /\ UNCHANGED <<fdVars, blinkVars, out>>

AtNewline(file) == loc.c[file] = NEWLINE

FishReads ==
    /\ pc = "fish looks" /\ loc.file <= 2 /\ ~AtNewline(loc.file)
    /\ Read(Pid, loc.fd[loc.file], 1)
    /\ Calls("fish reads", loc)
    /\ UNCHANGED <<blinkVars, out>>

FishSkips ==
    /\ Runs(Pid) /\ pc = "fish looks" /\ loc.file <= 2 /\ AtNewline(loc.file)
    /\ Calls("fish looks", [loc EXCEPT !.file = @ + 1])
    /\ UNCHANGED <<fdVars, blinkVars, out>>

\* The end of the file is the end of a line.  A read that fails leaves the
\* character as it was.
FishTakes ==
    /\ Runs(Pid) /\ pc = "fish reads"
    /\ Calls("fish looks",
             [loc EXCEPT !.c[loc.file] = CASE reply.value = 0 -> NEWLINE
                                           [] reply.value = 1 -> reply.taken[1]
                                           [] OTHER -> @,
                         !.eof[loc.file] = @ \/ reply.value = 0,
                         !.file = @ + 1])
    /\ UNCHANGED <<fdVars, blinkVars, out>>

\* Mutant: no blinker where the first picture is blank.
DrawnWhereFirstIs == ~(loc.c[1] \in {BLANK, NEWLINE})

\* One of the two characters can be seen.
Drawn == \E file \in {1, 2} : loc.c[file] \notin {BLANK, NEWLINE}

OrBlank(char) == IF char = NEWLINE THEN BLANK ELSE char

\* The 16 bits of the location.
Location == (loc.row * COLUMNS + loc.col + OFFSET) % 65536

FishPlaces ==
    /\ Runs(Pid) /\ pc = "fish looks" /\ loc.file = 3 /\ ~(AtNewline(1) /\ AtNewline(2))
    /\ IF Drawn THEN mp1_ioctl_add(Blinking(Location, OrBlank(loc.c[1]), OrBlank(loc.c[2])))
       ELSE UNCHANGED blinkVars
    /\ Calls("fish looks", [loc EXCEPT !.col = @ + 1, !.file = 1])
    /\ UNCHANGED <<fdVars, out>>

FishEndsRow ==
    /\ Runs(Pid) /\ pc = "fish looks" /\ loc.file = 3 /\ AtNewline(1) /\ AtNewline(2)
    /\ Calls("fish ends row", [loc EXCEPT !.file = 1])
    /\ UNCHANGED <<fdVars, blinkVars, out>>

\* A file that has ended is closed again in every row.
FishCloses ==
    /\ pc = "fish ends row" /\ loc.file <= 2 /\ loc.eof[loc.file]
    /\ Close(Pid, loc.fd[loc.file])
    /\ Calls("fish ends row", [loc EXCEPT !.file = @ + 1])
    /\ UNCHANGED <<blinkVars, out>>

FishGoesOn ==
    /\ Runs(Pid) /\ pc = "fish ends row" /\ loc.file <= 2 /\ ~loc.eof[loc.file]
    /\ Calls("fish ends row", [loc EXCEPT !.c[loc.file] = NoNewline, !.file = @ + 1])
    /\ UNCHANGED <<fdVars, blinkVars, out>>

FishNextRow ==
    /\ Runs(Pid) /\ pc = "fish ends row" /\ loc.file = 3 /\ ~(loc.eof[1] /\ loc.eof[2])
    /\ Calls("fish looks", [loc EXCEPT !.row = @ + 1, !.col = 0, !.file = 1])
    /\ UNCHANGED <<fdVars, blinkVars, out>>

----------------------------------------------------------------------------
(* main(), behind add_frames(): act counts the stages, i the ticks of each *)

FishSetsRate ==
    /\ pc = "fish ends row" /\ loc.file = 3 /\ loc.eof[1] /\ loc.eof[2]
    /\ Write(Pid, loc.rtc, INT_SIZE)
    /\ Calls("fish waits", [frames |-> loc.frames, rtc |-> loc.rtc, act |-> 1, i |-> 0])
    /\ UNCHANGED <<blinkVars, out>>

FishWaits ==
    /\ pc = "fish waits" /\ loc.i < WAIT
    /\ Read(Pid, loc.rtc, INT_SIZE)
    /\ Calls("fish ticks", loc)
    /\ UNCHANGED <<blinkVars, out>>

FishTicks ==
    /\ Runs(Pid) /\ pc = "fish ticks"
    /\ mp1_rtc_tasklet
    /\ Calls("fish waits", [loc EXCEPT !.i = @ + 1])
    /\ UNCHANGED <<fdVars, out>>

FishActs ==
    /\ Runs(Pid) /\ pc = "fish waits" /\ loc.i = WAIT
    /\ \/ loc.act = 1 /\ mp1_ioctl_add(Extra)
       \/ loc.act = 2 /\ mp1_ioctl_sync(OFFSET, EXTRA)
       \/ loc.act = 3 /\ mp1_ioctl_remove(EXTRA)
    /\ Calls("fish waits", [loc EXCEPT !.act = @ + 1, !.i = 0])
    /\ UNCHANGED <<fdVars, out>>

FishClosesRtc ==
    /\ pc = "fish waits" /\ loc.i = WAIT /\ loc.act = 4
    /\ Close(Pid, loc.rtc)
    /\ Calls("fish ends", loc)
    /\ UNCHANGED <<blinkVars, out>>

FishEnds == pc = "fish ends" /\ Halt(0) /\ UNCHANGED blinkVars

Fish ==
    \/ FishBegins \/ FishOpensFirst \/ FishOpensSecond \/ FishCannotOpen \/ FishLooks
    \/ FishReads \/ FishSkips \/ FishTakes \/ FishPlaces
    \/ FishEndsRow \/ FishCloses \/ FishGoesOn \/ FishNextRow
    \/ FishSetsRate \/ FishWaits \/ FishTicks \/ FishActs \/ FishClosesRtc \/ FishEnds
=============================================================================
