---------------------------- MODULE MCInterrupts ----------------------------
(***************************************************************************)
(* Interrupts for TLC: what programs write, all values of an int among them *)
(***************************************************************************)
EXTENDS Interrupts, Bitwise

AllInts == Ints
AllButIntMin == Ints \ {INT_MIN}

\* The test of the code, buffer & (buffer - 1), on two's complement numbers.
BitTest(x) == (x % 2 ^ INT_BITS) & ((x - 1) % 2 ^ INT_BITS) = 0

\* It finds what OneBit defines.
ASSUME BitTestFindsOneBit == \A x \in Ints \ {0} : BitTest(x) <=> OneBit(x)
=============================================================================
