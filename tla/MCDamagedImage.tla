--------------------------- MODULE MCDamagedImage ---------------------------
(***************************************************************************)
(* Programs on a disk image with numbers out of range, which fs.c checks   *)
(* for: the last, partial block of "tail", the first, full one of "head",  *)
(* the inode of "lost"; and with a good file and a binary one.             *)
(***************************************************************************)
EXTENDS Programs, TLC

\* A letter, another, a newline and NUL.
MCBytes == {0, 1, 2, 10}
MCNL == 10
MCNUL == 0

MCNames == {".", "", "text", "binary", "tail", "head", "lost", "none", "rtc"}
MCDotted == {"."}
MCAbsent == {"", "none", "rtc"}

Entry(name, type, inode) == [name |-> name, type |-> type, inode |-> inode]

MCDentries ==
    << Entry(".", FILE_DIRECTORY, 0),
       Entry("text", FILE_REGULAR, 0),
       Entry("binary", FILE_REGULAR, 3),
       Entry("tail", FILE_REGULAR, 1),
       Entry("head", FILE_REGULAR, 2),
       Entry("lost", FILE_REGULAR, 4) >>

MCInodes ==
    0 :> [size |-> 5, block |-> (0 :> 1 @@ 1 :> 0 @@ 2 :> 1)]
    @@ 1 :> [size |-> 3, block |-> (0 :> 0 @@ 1 :> 9)]
    @@ 2 :> [size |-> 2, block |-> (0 :> 9 @@ 1 :> 0)]
    @@ 3 :> [size |-> 4, block |-> (0 :> 0 @@ 1 :> 2 @@ 2 :> 0)]

MCData ==
    0 :> (0 :> 1 @@ 1 :> 10)
    @@ 1 :> (0 :> 2 @@ 1 :> 1)
    @@ 2 :> (0 :> 1 @@ 1 :> 0)

MCFrames == {<<"text", "binary">>, <<"text", "head">>}

MCInstalled == {"fish", "cat", "ls", "grep", "syserr", "sigtest", "any"}

Command(program, arg) == [program |-> program, arg |-> arg]

Cats == {Command("cat", name) : name \in MCNames}
Greps == {Command("grep", word) : word \in {<<>>, <<1>>, <<2, 1>>}}

MCSessions ==
    {{Command("any", "tail")}, {Command("any", "head")},
     Cats \cup {Command("ls", "."), Command("sigtest", "."), Command("lss", ".")},
     Greps,
     {Command("syserr", ".")},
     {Command("fish", ".")}}
=============================================================================
