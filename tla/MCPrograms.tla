----------------------------- MODULE MCPrograms -----------------------------
(***************************************************************************)
(* Programs on a small file system without bad numbers: blocks of 2 bytes, *)
(* buffers of 3.  The text files have lines that cross the ends of blocks  *)
(* and of the buffer, one that fills it, an empty one and one without a    *)
(* newline; there are an empty and a binary file, an entry of no known     *)
(* type that only begins with a dot, and a second entry of a name.         *)
(***************************************************************************)
EXTENDS Programs, TLC

\* Two letters, a blank, a newline and NUL.
MCBytes == {0, 1, 2, 10, 32}
MCNL == 10
MCNUL == 0

MCNames == {".", "", "text", "rtc", "full", "empty", ".device", "tex", "texts"}
MCDotted == {".", ".device"}
MCAbsent == {"", "tex", "texts"}

Entry(name, type, inode) == [name |-> name, type |-> type, inode |-> inode]

MCDentries ==
    << Entry(".", FILE_DIRECTORY, 0),
       Entry("text", FILE_REGULAR, 1),
       Entry("rtc", FILE_RTC, 0),
       Entry("empty", FILE_REGULAR, 0),
       Entry("full", FILE_REGULAR, 2),
       Entry(".device", 7, 0),
       Entry(".device", FILE_REGULAR, 1) >>

Text == <<1, 10, 2, 1, 10, 10, 1, 2, 2>>
Full == <<2, 32, 1, 10, 2, 10>>

\* A file of these bytes in these blocks, of which one more is named than needed.
InBlocks(bytes, blocks) ==
    [size |-> Len(bytes), block |-> [k \in 0 .. Len(blocks) - 1 |-> blocks[k + 1]]]

\* The blocks of a file are neither adjacent nor in order.
MCInodes ==
    0 :> InBlocks(<<>>, <<0>>)
    @@ 1 :> InBlocks(Text, <<7, 1, 6, 3, 4>>)
    @@ 2 :> InBlocks(Full, <<5, 2, 0, 0>>)

BytesOf(bytes, k) == 0 :> bytes[2 * k - 1] @@ 1 :> bytes[2 * k]

MCData ==
    7 :> BytesOf(Text, 1) @@ 1 :> BytesOf(Text, 2) @@ 6 :> BytesOf(Text, 3)
    @@ 3 :> BytesOf(Text, 4) @@ 4 :> BytesOf(Text \o <<10>>, 5)
    @@ 5 :> BytesOf(Full, 1) @@ 2 :> BytesOf(Full, 2) @@ 0 :> BytesOf(Full, 3)

MCFrames == {<<"text", "full">>, <<"full", "text">>, <<"full", "empty">>, <<"tex", "text">>}

MCInstalled == {"fish", "cat", "ls", "grep", "syserr", "sigtest", "any"}

Command(program, arg) == [program |-> program, arg |-> arg]

Cats == {Command("cat", name) : name \in MCNames}
Greps == {Command("grep", word) : word \in {<<>>, <<1>>, <<2, 1>>, <<2, 2>>}}
Others == {Command(program, ".") : program \in {"ls", "syserr", "sigtest", "lss"}}

MCSessions == {{Command("any", ".")}, Cats \cup {Command("ls", ".")}, Greps, Others, {Command("fish", ".")}}

\* What this image rules out is in MCDamagedImage.
ASSUME ImageIsWellFormed == WellFormed /\ ~NoDentry(".") /\ DotIsDirectory /\ FramesArePictures
=============================================================================
