------------------------------- MODULE Library -------------------------------
(***************************************************************************)
(* printf() and itoa() of lib.c, conversion by conversion and digit by     *)
(* digit; the functions on memory are in Blocks, those on strings in       *)
(* Strings.                                                                *)
(*                                                                         *)
(* A format is put together from items: ordinary characters and            *)
(* conversions.  printf() reads its characters and the arguments only; the *)
(* items, and where each begins, are what the output is held against.      *)
(* What it puts on the console is the sequence of the characters that it   *)
(* calls putc() with.                                                      *)
(***************************************************************************)
EXTENDS Integers, Sequences

CONSTANTS HEX_DIGITS,   \* hexadecimal digits of an int: 8
          Letters,      \* characters
          Items,        \* the items of formats, each with the value of its argument
          Formats       \* the formats that printf() is called with

\* Powers of 16; there are Words ints.
Power[n \in 0 .. HEX_DIGITS] == IF n = 0 THEN 1 ELSE 16 * Power[n - 1]
Words == Power[HEX_DIGITS]
Unsigned(value) == value % Words

lookup == <<"0", "1", "2", "3", "4", "5", "6", "7", "8", "9",
            "A", "B", "C", "D", "E", "F">>

Numerical == {"x", "u", "d"}               \* the conversions of numbers
Conversions == Numerical \cup {"c", "s"}   \* those that take an argument

\* "putc" stands for that of an ordinary character.
Conversion(item) == IF Len(item.spelt) = 1 THEN "putc" ELSE item.spelt[Len(item.spelt)]

\* An ordinary character is an item of its own.  A conversion begins with "%"; "#"
\* may stand before the character that says which it is.
IsItem(item) ==
    /\ item.spelt \in Seq(Letters)
    /\ \/ Len(item.spelt) = 1 /\ item.spelt[1] # "%"
       \/ /\ Len(item.spelt) > 1
          /\ item.spelt[1] = "%"
          /\ \A j \in 2 .. Len(item.spelt) - 1 : item.spelt[j] = "#"
          /\ item.spelt[Len(item.spelt)] # "#"
    /\ Conversion(item) \in Numerical =>
          item.value \in Int /\ -Words <= 2 * item.value /\ item.value < Words
    /\ Conversion(item) = "d" => 2 * item.value < Words
    /\ Conversion(item) = "c" => item.value \in Letters
    /\ Conversion(item) = "s" => item.value \in Seq(Letters)

\* The items lie in the text one after the other, the k-th from begins[k], and so do
\* their arguments, from takes[k].
IsFormat(f) ==
    LET count == Len(f.items) IN
    /\ f.text \in Seq(Letters) /\ f.items \in Seq(Items)
    /\ f.begins \in [1 .. count + 1 -> 1 .. Len(f.text) + 1]
    /\ f.takes \in [1 .. count + 1 -> Nat]
    /\ f.begins[1] = 1 /\ f.begins[count + 1] = Len(f.text) + 1 /\ f.takes[1] = 1
    /\ \A k \in 1 .. count :
          LET item == f.items[k] IN
          /\ f.begins[k + 1] = f.begins[k] + Len(item.spelt)
          /\ \A j \in 1 .. Len(item.spelt) : f.text[f.begins[k] + j - 1] = item.spelt[j]
          /\ IF Conversion(item) \in Conversions
             THEN f.takes[k + 1] = f.takes[k] + 1 /\ f.args[f.takes[k]] = item.value
             ELSE f.takes[k + 1] = f.takes[k]

ASSUME LibraryAssumption ==
    /\ HEX_DIGITS \in Nat \ {0}
    /\ {lookup[i] : i \in 1 .. 16} \cup {"-", "%"} \subseteq Letters
    /\ "putc" \notin Letters
    /\ \A item \in Items : IsItem(item)
    /\ \A f \in Formats : IsFormat(f)

VARIABLES format,      \* of the last call
          buf, esp,    \* where printf() is in its text and its arguments
          alternate,
          label,       \* "switch" is format_char_switch, "itoa" the loop of itoa()
          negative, radix, newval, conv_buf,
          shown        \* the characters that were put on the console

printfVars ==
    <<format, buf, esp, alternate, label, negative, radix, newval, conv_buf, shown>>

NoFormat == [text |-> <<>>, items |-> <<>>, begins |-> <<1>>, takes |-> <<1>>,
             args |-> <<>>]

PrintfInit ==
    /\ format = NoFormat
    /\ buf = 1 /\ esp = 1
    /\ alternate = FALSE /\ negative = FALSE
    /\ label = "caller"
    /\ radix = 10 /\ newval = 0
    /\ conv_buf = <<>> /\ shown = <<>>

----------------------------------------------------------------------------
(* itoa() *)

strrev(s) == [i \in 1 .. Len(s) |-> s[Len(s) + 1 - i]]

\* Mutant: zero has no digits.
ItoaWithoutZero == strrev(conv_buf)

\* The numeral: the digits were stored from the lowest to the highest.
itoa == IF conv_buf = <<>> THEN <<"0">> ELSE strrev(conv_buf)

Digit ==
    /\ label = "itoa"
    /\ newval > 0
    /\ conv_buf' = Append(conv_buf, lookup[(newval % radix) + 1])
    /\ newval' = newval \div radix
    /\ UNCHANGED <<format, buf, esp, alternate, label, negative, radix, shown>>

----------------------------------------------------------------------------
(* printf() *)

Char == format.text[buf]
Argument == format.args[esp]

AtEnd == buf > Len(format.text)

Printf(f) ==
    /\ label = "caller"
    /\ format' = f
    /\ buf' = 1 /\ esp' = 1
    /\ label' = "loop"
    /\ shown' = <<>>
    /\ UNCHANGED <<alternate, negative, radix, newval, conv_buf>>

\* Back to the loop, after what puts text and takes the given arguments.
Break(text, arguments) ==
    /\ shown' = shown \o text
    /\ buf' = buf + 1
    /\ esp' = esp + arguments
    /\ label' = "loop"
    /\ UNCHANGED <<format, alternate, negative, radix, newval, conv_buf>>

Ordinary ==
    /\ label = "loop"
    /\ ~AtEnd
    /\ Char # "%"
    /\ Break(<<Char>>, 0)

Percent ==
    /\ label = "loop"
    /\ ~AtEnd
    /\ Char = "%"
    /\ alternate' = FALSE
    /\ buf' = buf + 1
    /\ label' = "switch"
    /\ UNCHANGED <<format, esp, negative, radix, newval, conv_buf, shown>>

Alternate ==
    /\ label = "switch"
    /\ Char = "#"
    /\ alternate' = TRUE
    /\ buf' = buf + 1
    /\ UNCHANGED <<format, esp, label, negative, radix, newval, conv_buf, shown>>

\* The negation of the least int is the same word, which itoa() takes as unsigned.
Number ==
    /\ label = "switch"
    /\ Char \in Numerical
    /\ negative' = (Char = "d" /\ Argument < 0)
    /\ radix' = IF Char = "x" THEN 16 ELSE 10
    /\ newval' = Unsigned(IF negative' THEN -Argument ELSE Argument)
    /\ conv_buf' = <<>>
    /\ label' = "itoa"
    /\ UNCHANGED <<format, buf, esp, alternate, shown>>

Sign == IF negative THEN <<"-">> ELSE <<>>

\* With %#x the digits lie from offset 8 of the buffer, which is filled up on the
\* left from the offset that is their number.
Padding ==
    IF Char = "x" /\ alternate THEN [i \in 1 .. HEX_DIGITS - Len(itoa) |-> "0"] ELSE <<>>

Puts ==
    /\ label = "itoa"
    /\ newval = 0
    /\ Break(Sign \o Padding \o itoa, 1)

Character ==
    /\ label = "switch"
    /\ Char = "c"
    /\ Break(<<Argument>>, 1)

String ==
    /\ label = "switch"
    /\ Char = "s"
    /\ Break(Argument, 1)

Literal ==
    /\ label = "switch"
    /\ Char = "%"
    /\ Break(<<"%">>, 0)

\* A conversion that does not exist prints nothing and takes no argument.
Default ==
    /\ label = "switch"
    /\ Char \notin Conversions \cup {"#", "%"}
    /\ Break(<<>>, 0)

Return ==
    /\ label = "loop"
    /\ AtEnd
    /\ label' = "return"
    /\ UNCHANGED <<format, buf, esp, alternate, negative, radix, newval, conv_buf, shown>>

PrintfCaller ==
    /\ label = "return"
    /\ format' = NoFormat
    /\ buf' = 1 /\ esp' = 1
    /\ alternate' = FALSE /\ negative' = FALSE
    /\ label' = "caller"
    /\ radix' = 10 /\ newval' = 0
    /\ conv_buf' = <<>> /\ shown' = <<>>

PrintfNext ==
    \/ \E f \in Formats : Printf(f)
    \/ Ordinary
    \/ Percent
    \/ Alternate
    \/ Number
    \/ Digit
    \/ Puts
    \/ Character
    \/ String
    \/ Literal
    \/ Default
    \/ Return
    \/ PrintfCaller

PrintfSpec == PrintfInit /\ [][PrintfNext]_printfVars

PrintfTypeOK ==
    /\ format \in Formats \cup {NoFormat}
    /\ buf \in Nat /\ esp \in Nat
    /\ alternate \in BOOLEAN /\ negative \in BOOLEAN
    /\ label \in {"caller", "loop", "switch", "itoa", "return"}
    /\ radix \in {10, 16} /\ newval \in Nat
    /\ conv_buf \in Seq(Letters) /\ shown \in Seq(Letters)

----------------------------------------------------------------------------
(* What the comment on printf() promises *)

DigitValue(d) == CHOOSE v \in 0 .. 15 : lookup[v + 1] = d

\* The value of the first i digits of a numeral.
ValuesOf(text, base) ==
    LET value[i \in 0 .. Len(text)] ==
            IF i = 0 THEN 0 ELSE value[i - 1] * base + DigitValue(text[i])
    IN  value

Denotes(text, base, number) ==
    /\ text # <<>>
    /\ \A i \in 1 .. Len(text) : \E v \in 0 .. base - 1 : text[i] = lookup[v + 1]
    /\ ValuesOf(text, base)[Len(text)] = number

\* A numeral without superfluous zeros.
IsNumeral(text, base, number) ==
    Denotes(text, base, number) /\ (text[1] = "0" => text = <<"0">>)

Shows(text, item) ==
    LET conversion == Conversion(item) IN
    CASE conversion = "putc" -> text = item.spelt
      [] conversion = "%" -> text = <<"%">>
      [] conversion = "c" -> text = <<item.value>>
      [] conversion = "s" -> text = item.value
      [] conversion = "u" -> IsNumeral(text, 10, Unsigned(item.value))
      [] conversion = "x" /\ Len(item.spelt) = 2 ->
            IsNumeral(text, 16, Unsigned(item.value))
      [] conversion = "x" /\ Len(item.spelt) > 2 ->
            Len(text) = HEX_DIGITS /\ Denotes(text, 16, Unsigned(item.value))
      [] conversion = "d" /\ item.value >= 0 -> IsNumeral(text, 10, item.value)
      [] conversion = "d" /\ item.value < 0 ->
            /\ text # <<>>
            /\ text[1] = "-" /\ IsNumeral(Tail(text), 10, -item.value)
      [] OTHER -> text = <<>>

Piece(text, first, last) == [i \in 1 .. last - first |-> text[first + i]]

\* The output of a format is that of its items in their order, each with its own
\* argument: numbers of either sign, the least int included, numerals without
\* superfluous zeros, and with %#x of exactly HEX_DIGITS digits.
PrintfPrints ==
    label = "return" =>
        \E cut \in [1 .. Len(format.items) + 1 -> 0 .. Len(shown)] :
            /\ cut[1] = 0 /\ cut[Len(format.items) + 1] = Len(shown)
            /\ \A k \in 1 .. Len(format.items) :
                  /\ cut[k] <= cut[k + 1]
                  /\ Shows(Piece(shown, cut[k], cut[k + 1]), format.items[k])
=============================================================================
