-------------------------------- MODULE Blocks --------------------------------
(***************************************************************************)
(* memset(), memcpy() and memmove() of lib.c: one action for every turn of *)
(* their loops, on the registers the assembly uses.  "step" is the label   *)
(* the code has come to.  Between two calls the caller uses memory and     *)
(* the registers for what it likes, but leaves the direction flag alone.   *)
(***************************************************************************)
EXTENDS Integers

CONSTANTS SIZE,          \* addresses of memory, from 0
          BlockLengths,  \* the lengths of the blocks
          Values,        \* the ints that memset() is called with
          Contents       \* what the caller leaves in memory

Addresses == 0 .. SIZE - 1
Bytes == 0 .. 255

ASSUME BlocksAssumption ==
    /\ SIZE \in Nat
    /\ BlockLengths \subseteq Nat
    /\ Values \subseteq Int
    /\ Contents \subseteq [Addresses -> Bytes]
    /\ Contents # {}

VARIABLES memory,   \* of bytes
          block,    \* the arguments of the last call
          before,   \* what memory held when it was made
          step, edi, esi, ecx, edx,
          DF        \* the direction flag: string instructions go downwards

blockVars == <<memory, block, before, step, edi, esi, ecx, edx, DF>>

\* The calls whose blocks lie in memory.
BlockCalls ==
    {b \in [fn : {"memset"}, dest : 0 .. SIZE, c : Values, n : BlockLengths] :
        b.dest + b.n <= SIZE}
    \cup
    {b \in [fn : {"memcpy", "memmove"}, dest : 0 .. SIZE, src : 0 .. SIZE, n : BlockLengths] :
        b.dest + b.n <= SIZE /\ b.src + b.n <= SIZE}

NoBlock == [fn |-> "memset", dest |-> 0, c |-> 0, n |-> 0]

BlocksInit ==
    /\ memory \in Contents
    /\ before = memory
    /\ block = NoBlock
    /\ step = "caller"
    /\ edi = 0 /\ esi = 0 /\ ecx = 0 /\ edx = 0
    /\ DF = FALSE

----------------------------------------------------------------------------
(* A store *)

\* The byte that is stored i bytes after edi; "c &= 0xFF" is also each of the bytes
\* of the double word.
Source(i) == IF block.fn = "memset" THEN block.c % 256 ELSE memory[esi + i]

\* A word is loaded before it is stored.
Write(width) ==
    memory' = [a \in Addresses |->
                  IF a \in edi .. edi + width - 1 THEN Source(a - edi) ELSE memory[a]]

Advance(distance) ==
    /\ edi' = edi + distance
    /\ esi' = IF block.fn = "memset" THEN esi ELSE esi + distance

----------------------------------------------------------------------------
(* The functions *)

Called(b) ==
    /\ step = "caller"
    /\ block' = b
    /\ before' = memory
    /\ UNCHANGED memory
    /\ ecx' = b.n
    /\ UNCHANGED edx

CallMemset(b) ==
    /\ b.fn = "memset"
    /\ Called(b)
    /\ edi' = b.dest
    /\ step' = "top"
    /\ UNCHANGED <<esi, DF>>

CallMemcpy(b) ==
    /\ b.fn = "memcpy"
    /\ Called(b)
    /\ edi' = b.dest
    /\ esi' = b.src
    /\ step' = "top"
    /\ UNCHANGED DF

\* From the end when the destination lies above the source: the direction flag then
\* stays set when memmove() has returned.
CallMemmove(b) ==
    /\ b.fn = "memmove"
    /\ Called(b)
    /\ DF' = (b.src < b.dest)
    /\ edi' = IF DF' THEN b.dest + b.n - 1 ELSE b.dest
    /\ esi' = IF DF' THEN b.src + b.n - 1 ELSE b.src
    /\ step' = "go"

\* Single bytes, up to an address that is a multiple of four.
HeadByte ==
    /\ step = "top"
    /\ ecx # 0
    /\ edi % 4 # 0
    /\ Write(1)
    /\ Advance(1)
    /\ ecx' = ecx - 1
    /\ UNCHANGED <<block, before, step, edx, DF>>

\* Mutant: the bytes after the last word are forgotten.
AlignedWithoutTail ==
    /\ step = "top"
    /\ ecx # 0
    /\ edi % 4 = 0
    /\ ecx' = ecx \div 4
    /\ edx' = 0
    /\ DF' = FALSE
    /\ step' = "aligned"
    /\ UNCHANGED <<memory, block, before, edi, esi>>

Aligned ==
    /\ step = "top"
    /\ ecx # 0
    /\ edi % 4 = 0
    /\ ecx' = ecx \div 4
    /\ edx' = ecx % 4
    /\ DF' = FALSE
    /\ step' = "aligned"
    /\ UNCHANGED <<memory, block, before, edi, esi>>

\* A turn of "rep stosl" and of "rep movsl".
Word ==
    /\ step = "aligned"
    /\ ecx # 0
    /\ Write(4)
    /\ Advance(IF DF THEN -4 ELSE 4)
    /\ ecx' = ecx - 1
    /\ UNCHANGED <<block, before, step, edx, DF>>

WordsDone ==
    /\ step = "aligned"
    /\ ecx = 0
    /\ step' = "bottom"
    /\ UNCHANGED <<memory, block, before, edi, esi, ecx, edx, DF>>

TailByte ==
    /\ step = "bottom"
    /\ edx # 0
    /\ Write(1)
    /\ Advance(1)
    /\ edx' = edx - 1
    /\ UNCHANGED <<block, before, step, ecx, DF>>

\* A turn of the "rep movsb" of memmove().
MoveByte ==
    /\ step = "go"
    /\ ecx # 0
    /\ Write(1)
    /\ Advance(IF DF THEN -1 ELSE 1)
    /\ ecx' = ecx - 1
    /\ UNCHANGED <<block, before, step, edx, DF>>

BlockDone ==
    /\ \/ step \in {"top", "go"} /\ ecx = 0
       \/ step = "bottom" /\ edx = 0
    /\ step' = "return"
    /\ UNCHANGED <<memory, block, before, edi, esi, ecx, edx, DF>>

Caller ==
    /\ step = "return"
    /\ step' = "caller"
    /\ memory' \in Contents
    /\ before' = memory'
    /\ block' = NoBlock
    /\ edi' = 0 /\ esi' = 0 /\ ecx' = 0 /\ edx' = 0
    /\ UNCHANGED DF

BlocksNext ==
    \/ \E b \in BlockCalls : CallMemset(b) \/ CallMemcpy(b) \/ CallMemmove(b)
    \/ HeadByte
    \/ Aligned
    \/ Word
    \/ WordsDone
    \/ TailByte
    \/ MoveByte
    \/ BlockDone
    \/ Caller

BlocksSpec == BlocksInit /\ [][BlocksNext]_blockVars

----------------------------------------------------------------------------
(* What they promise *)

\* Memory after the call, by its arguments: nothing outside the block is written.
Moved ==
    [a \in Addresses |->
        IF a \notin block.dest .. block.dest + block.n - 1 THEN before[a]
        ELSE IF block.fn = "memset" THEN block.c % 256
        ELSE before[block.src + (a - block.dest)]]

\* memcpy() does not provide for a destination that overlaps the source from above.
Provided ==
    block.fn = "memcpy" =>
        block.dest <= block.src \/ block.src + block.n <= block.dest

\* memset() and memmove() do what they promise at every alignment, length and
\* overlap, and memcpy() does for blocks that do not overlap or whose destination lies
\* below the source; whatever direction an earlier memmove() has left set.
MemoryMoves == step = "return" /\ Provided => memory = Moved

BlocksTypeOK ==
    /\ memory \in [Addresses -> Bytes]
    /\ before \in [Addresses -> Bytes]
    /\ block \in BlockCalls \cup {NoBlock}
    /\ step \in {"top", "aligned", "bottom", "go", "return", "caller"}
    /\ edi \in Int /\ esi \in Int
    /\ ecx \in Nat /\ edx \in Nat
    /\ DF \in BOOLEAN

(* The loops keep: the bytes they have passed are those of the promise, and   *)
(* the others are still what they were.                                       *)
Downwards == block.fn = "memmove" /\ block.src < block.dest

Left == CASE step \in {"top", "go"} -> ecx
          [] step = "aligned" -> 4 * ecx + edx
          [] step = "bottom" -> edx
          [] step \in {"return", "caller"} -> 0

Passed == IF Downwards THEN edi + 1 .. block.dest + block.n - 1
                       ELSE block.dest .. edi - 1

HalfMoved == [a \in Addresses |-> IF a \in Passed THEN Moved[a] ELSE before[a]]

BlocksInv ==
    /\ BlocksTypeOK
    /\ step = "go" => block.fn = "memmove" /\ DF = Downwards
    /\ step \in {"top", "aligned", "bottom"} => block.fn # "memmove"
    /\ step = "aligned" => ~DF
    /\ edi = IF Downwards THEN block.dest + Left - 1
                          ELSE block.dest + (block.n - Left)
    /\ Left <= block.n
    /\ block.fn # "memset" => esi - edi = block.src - block.dest
    /\ Provided => memory = HalfMoved
=============================================================================
