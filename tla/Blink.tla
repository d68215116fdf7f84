-------------------------------- MODULE Blink --------------------------------
(***************************************************************************)
(* blink.S, which fish draws with, and mp1_malloc() and mp1_free() of      *)
(* fish.c: a list of structures linked from the newest to the oldest, in   *)
(* an array in which a location of 0 marks the free ones.                  *)
(*                                                                         *)
(* That makes a blinker at location 0, which mp1_ioctl_add() accepts, free *)
(* as well: the next one takes its place and links it to itself, and every *)
(* walk along the list that does not stop before goes on for ever.         *)
(***************************************************************************)
EXTENDS Integers, Sequences, SequencesExt

CONSTANTS
    CELLS,       \* cells of the screen: 80 * 25
    SLOTS,       \* structures in blink_array: as many
    Structs,     \* the structures programs pass to mp1_ioctl(): their location,
                 \* characters and lengths
    Locations    \* the locations they pass

\* The 16 bits of a location; lengths are less than 2^15, as the countdown is
\* compared with its sign.
Halfwords == 0 .. 65535
Lengths == 0 .. 32767
Chars == 0 .. 255

\* What a structure can hold.
Fits(s) ==
    /\ s.location \in Halfwords
    /\ {s.on_length, s.off_length} \subseteq Lengths
    /\ {s.on_char, s.off_char} \subseteq Chars

ASSUME BlinkAssumption ==
    /\ CELLS \in Nat
    /\ SLOTS \in Nat
    /\ \A s \in Structs : Fits(s)
    /\ Locations \subseteq Halfwords

VARIABLES
    blink_array,
    mp1_list_head,
    vmem,             \* the characters in the page vmem_base_addr points to
    eax               \* what the last mp1_ioctl() returned: 0 or -1

blinkVars == <<blink_array, mp1_list_head, vmem, eax>>

VmemCells == 0 .. CELLS - 1
Slots == 0 .. SLOTS - 1
NULL == -1

Zeroed == [location |-> 0, on_char |-> 0, off_char |-> 0, on_length |-> 0, off_length |-> 0,
           countdown |-> 0, status |-> 0, next |-> NULL]

\* fish.c clears blink_array when it starts.
BlinkInit ==
    /\ blink_array = [i \in Slots |-> Zeroed]
    /\ mp1_list_head = NULL
    /\ vmem = [c \in VmemCells |-> 0]
    /\ eax = -1

----------------------------------------------------------------------------

\* The list from a head, no further than SLOTS structures.
ListFrom(array, head) ==
    LET upto[n \in 0 .. SLOTS] ==
            [i \in Slots \cup {NULL} |->
                IF i = NULL \/ n = 0 THEN <<>> ELSE <<i>> \o upto[n - 1][array[i].next]]
    IN  upto[SLOTS][head]

List == ListFrom(blink_array, mp1_list_head)

\* It has an end: no structure is linked to one before it.
Acyclic(list) == list # <<>> => blink_array[Last(list)].next = NULL

\* mp1_find_helper() finds the k-th in the list; or nothing, and returns.
Finds(list, location, k) ==
    /\ blink_array[list[k]].location = location
    /\ \A j \in 1 .. k - 1 : blink_array[list[j]].location # location

FindsNone(list, location) ==
    (\A i \in 1 .. Len(list) : blink_array[list[i]].location # location) /\ Acyclic(list)

\* mp1_malloc() finds slot i.
mp1_malloc(i) ==
    /\ i \in Slots
    /\ blink_array[i].location = 0
    /\ \A j \in 0 .. i - 1 : blink_array[j].location # 0

Refused == eax' = -1 /\ UNCHANGED <<blink_array, mp1_list_head, vmem>>

mp1_ioctl_add(s) ==
    \/ /\ s.location < CELLS
       /\ \E i \in Slots :
            /\ mp1_malloc(i)
            /\ blink_array' = [blink_array EXCEPT ![i] =
                    [location |-> s.location, on_char |-> s.on_char, off_char |-> s.off_char,
                     on_length |-> s.on_length, off_length |-> s.off_length,
                     countdown |-> s.on_length, status |-> 1, next |-> mp1_list_head]]
            /\ mp1_list_head' = i
       /\ vmem' = [vmem EXCEPT ![s.location] = s.on_char]
       /\ eax' = 0
    \/ /\ s.location >= CELLS \/ \A i \in Slots : blink_array[i].location # 0
       /\ Refused

\* Mutant: the structure is not cleared.
RemovedKept(i) == [blink_array EXCEPT ![i].next = NULL]

\* mp1_free() of a structure.
Removed(i) == [blink_array EXCEPT ![i] = Zeroed]

mp1_ioctl_remove(location) ==
    LET list == List IN
    \/ \E k \in 1 .. Len(list) :
            LET next == blink_array[list[k]].next IN
            /\ Finds(list, location, k)
            /\ IF k = 1 THEN mp1_list_head' = next /\ blink_array' = Removed(list[k])
               ELSE /\ blink_array' = [Removed(list[k]) EXCEPT ![list[k - 1]].next = next]
                    /\ UNCHANGED mp1_list_head
            /\ eax' = 0
            /\ UNCHANGED vmem
    \/ FindsNone(list, location) /\ Refused

\* What it copies out is the structure it finds.
mp1_ioctl_find(location) ==
    LET list == List IN
    \/ /\ \E k \in 1 .. Len(list) : Finds(list, location, k)
       /\ eax' = 0
       /\ UNCHANGED <<blink_array, mp1_list_head, vmem>>
    \/ FindsNone(list, location) /\ Refused

\* The cmovl after the test of the status never moves, so that off_char is
\* displayed whatever the status is.
mp1_ioctl_sync(from, to) ==
    LET list == List IN
    \/ \E j, k \in 1 .. Len(list) :
            LET source == blink_array[list[j]] IN
            /\ Finds(list, from, j) /\ Finds(list, to, k)
            /\ blink_array' = [blink_array EXCEPT ![list[k]] =
                    [@ EXCEPT !.on_length = source.on_length, !.off_length = source.off_length,
                              !.countdown = source.countdown, !.status = source.status]]
            /\ vmem' = [vmem EXCEPT ![to] = blink_array[list[k]].off_char]
            /\ eax' = 0
            /\ UNCHANGED mp1_list_head
    \/ FindsNone(list, from) /\ Refused
    \/ /\ \E j \in 1 .. Len(list) : Finds(list, from, j)
       /\ FindsNone(list, to)
       /\ Refused

\* The countdown of b reaches its end.
Changes(b) == b.countdown - 1 <= 0

Ticked(b) ==
    IF ~Changes(b) THEN [b EXCEPT !.countdown = @ - 1]
    ELSE IF b.status = 1 THEN [b EXCEPT !.countdown = b.off_length, !.status = 0]
    ELSE [b EXCEPT !.countdown = b.on_length, !.status = 1]

\* The list is walked from its head, so that the last poke of a cell is that of the
\* oldest structure.
mp1_rtc_tasklet ==
    LET list == List
        linked == Range(list)
        pokes[k \in 0 .. Len(list)] ==
            IF k = 0 THEN vmem
            ELSE LET b == blink_array[list[k]] IN
                 IF ~Changes(b) THEN pokes[k - 1]
                 ELSE [pokes[k - 1] EXCEPT ![b.location] =
                          IF b.status = 1 THEN b.off_char ELSE b.on_char]
    IN  /\ Acyclic(list)
        /\ blink_array' = [i \in Slots |->
                IF i \in linked THEN Ticked(blink_array[i]) ELSE blink_array[i]]
        /\ vmem' = pokes[Len(list)]
        /\ UNCHANGED <<mp1_list_head, eax>>

BlinkNext ==
    \/ \E s \in Structs : mp1_ioctl_add(s)
    \/ \E location \in Locations : mp1_ioctl_remove(location) \/ mp1_ioctl_find(location)
    \/ \E from, to \in Locations : mp1_ioctl_sync(from, to)
    \/ mp1_rtc_tasklet

BlinkSpec == BlinkInit /\ [][BlinkNext]_blinkVars

----------------------------------------------------------------------------

BlinkerOf(b) ==
    [at |-> b.location, on |-> b.on_char, off |-> b.off_char,
     on_for |-> b.on_length, off_for |-> b.off_length,
     left |-> b.countdown, lit |-> b.status = 1]

New(s) ==
    [at |-> s.location, on |-> s.on_char, off |-> s.off_char, on_for |-> s.on_length,
     off_for |-> s.off_length, left |-> s.on_length, lit |-> TRUE]

Stack == LET list == List IN [k \in 1 .. Len(list) |-> BlinkerOf(blink_array[list[k]])]

\* The array and its links are the stack of blinkers, and every free place in the
\* array can be used again, in whatever order blinkers come and go, as long as none
\* is at location 0.
B == INSTANCE Blinkers WITH
        Capacity <- SLOTS,
        Positions <- VmemCells,
        Requests <- {New(s) : s \in Structs},
        Asked <- Locations,
        blinkers <- Stack,
        shown <- vmem,
        answer <- eax

ImplementsBlinkers == B!BlinkersSpec
=============================================================================
