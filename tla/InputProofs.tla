---------------------------- MODULE InputProofs ----------------------------
(***************************************************************************)
(* Proofs about what users type.                                           *)
(*                                                                         *)
(* Keyboard, for any keys and any number of bytes the keyboard keeps: the  *)
(* driver does what was meant when a byte was sent.  The flags lag behind  *)
(* the keys by the bytes not read yet, which is why the invariant          *)
(* FlagsFollow relates them to what the user saw at the first of these,    *)
(* and each byte to what he saw at the next.                               *)
(*                                                                         *)
(* TerminalInput: the buffers of any size stay in bounds whatever is       *)
(* typed, and for users who wait for a line to be taken terminal_read()    *)
(* implements the delivery of edited lines.                                *)
(***************************************************************************)
EXTENDS Keyboard, TerminalInput, FiniteSetTheorems, TLAPS

----------------------------------------------------------------------------
(* Keyboard *)

\* What holds for each kind holds for the three of them.
LEMMA ThreeKinds == Kinds = {"shift", "ctrl", "alt"}
BY DEF Kinds

\* A key belongs to one kind.
LEMMA OneKind ==
    /\ \A key : key \in PairOf["shift"] => key \notin PairOf["ctrl"] /\ key \notin PairOf["alt"]
    /\ \A key : key \in PairOf["ctrl"] => key \notin PairOf["alt"]
    /\ "caps lock" \notin PairOf["shift"]
    /\ "caps lock" \notin PairOf["ctrl"]
    /\ "caps lock" \notin PairOf["alt"]
BY DEF PairOf

LEMMA PairsNotEmpty == \A kind \in Kinds : PairOf[kind] # {}
<1>1. /\ "left shift" \in PairOf["shift"]
      /\ "left ctrl" \in PairOf["ctrl"]
      /\ "left alt" \in PairOf["alt"]
    BY DEF PairOf
<1> QED
    BY <1>1, ThreeKinds

\* With one key of a kind comes the other.
LEMMA TwoKeys ==
    ASSUME NEW kind \in Kinds, NEW key \in PairOf[kind]
    PROVE  \E other : PairOf[kind] = {key, other}
<1>1. /\ PairOf["shift"] = {"left shift", "right shift"}
      /\ PairOf["ctrl"] = {"left ctrl", "right ctrl"}
      /\ PairOf["alt"] = {"left alt", "right alt"}
    BY DEF PairOf
<1>2. \A a, c : key \in {a, c} => {a, c} = {key, a} \/ {a, c} = {key, c}
    OBVIOUS
<1>3. \E a, c : PairOf[kind] = {a, c}
    BY <1>1, ThreeKinds
<1> QED
    BY <1>2, <1>3

LEMMA ViewType ==
    ASSUME NEW keys
    PROVE  Holding(keys) \in [Kinds -> BOOLEAN]
BY DEF Holding

\* In the initial state nothing is held and nothing is set.
LEMMA InitInv == KeyboardInit => KeyboardInv
<1> SUFFICES ASSUME KeyboardInit PROVE KeyboardInv
    OBVIOUS
<1> USE DEF KeyboardInit
<1>1. KeyboardTypeOK
    <2>1. NoEffect \in Effect
        BY DEF NoEffect, Types, Effect, Nothing, Plain, NoTerminal
    <2>2. bytes \in Seq(Byte)
        OBVIOUS
    <2> QED
        BY <2>1, <2>2 DEF KeyboardTypeOK
<1>2. FlagsAgree(Now)
    BY DEF FlagsAgree, Now, Flags, Holding, Kinds
<1>3. BlurredKinds
    BY PairsNotEmpty DEF BlurredKinds
<1>4. DoesWhatWasMeant /\ OnlyHeldModifiersAct
    BY DEF DoesWhatWasMeant, OnlyHeldModifiersAct, NoByte, NoEffect, Types
<1> QED
    BY <1>1, <1>2, <1>3, <1>4 DEF KeyboardInv, FlagsFollow

----------------------------------------------------------------------------
(* Sending a byte *)

\* A byte that carries what the user sees joins the end of the chain.
LEMMA SentByteFollows ==
    ASSUME KeyboardTypeOK, FlagsFollow,
           NEW b \in Byte,
           b.holding = Holding(held), b.locked = locked, b.blurred = blurred,
           bytes' = Append(bytes, b),
           UNCHANGED flagVars,
           Leads(b, Now'),
           BlurredKinds'
    PROVE  FlagsFollow'
<1> DEFINE n == Len(bytes)
<1>1. bytes \in Seq(Byte) /\ n \in Nat
    BY DEF KeyboardTypeOK
<1>2. /\ Len(bytes') = n + 1
      /\ \A i \in 1 .. n : bytes'[i] = bytes[i]
      /\ bytes'[n + 1] = b
      /\ bytes' # <<>>
    BY <1>1
<1>3. \A c : Leads(c, Now) => Leads(c, b)
    BY DEF Leads, Now
<1>4. \A i \in 1 .. n : Leads(bytes'[i], bytes'[i + 1])
    <2> TAKE i \in 1 .. n
    <2>1. CASE i = n
        <3>1. bytes # <<>> /\ bytes'[i] = bytes[n] /\ bytes'[i + 1] = b
            BY <2>1, <1>1, <1>2
        <3> QED
            BY <3>1, <1>3 DEF FlagsFollow
    <2>2. CASE i # n
        <3>1. i \in 1 .. n - 1 /\ bytes'[i] = bytes[i] /\ bytes'[i + 1] = bytes[i + 1]
            BY <2>2, <1>1, <1>2
        <3> QED
            BY <3>1 DEF FlagsFollow
    <2> QED
        BY <2>1, <2>2
<1>5. FlagsAgree(Head(bytes))'
    <2>1. CASE bytes = <<>>
        <3>1. Head(bytes') = b
            BY <2>1, <1>1
        <3>2. FlagsAgree(Now)
            BY <2>1 DEF FlagsFollow
        <3> QED
            BY <3>1, <3>2 DEF FlagsAgree, Now, Flags, flagVars
    <2>2. CASE bytes # <<>>
        <3>1. Head(bytes') = Head(bytes)
            BY <2>2, <1>1
        <3>2. FlagsAgree(Head(bytes))
            BY <2>2 DEF FlagsFollow
        <3> QED
            BY <3>1, <3>2 DEF FlagsAgree, Flags, flagVars
    <2> QED
        BY <2>1, <2>2
<1> QED
    BY <1>1, <1>2, <1>4, <1>5 DEF FlagsFollow

\* A key that goes down is held from then on, and no other kind is affected.
LEMMA PressFollows ==
    ASSUME KeyboardTypeOK, FlagsFollow, NEW key \in Keys, Press(key)
    PROVE  FlagsFollow'
<1> DEFINE b == [key |-> key, break |-> FALSE, holding |-> Holding(held),
                 locked |-> locked, blurred |-> blurred]
<1>1. b \in Byte
    BY ViewType DEF Byte, KeyboardTypeOK
<1>2. bytes' = Append(bytes, b) /\ UNCHANGED flagVars
    BY DEF Press, Send
<1>3. held' = held \cup ({key} \cap Lasting)
    BY DEF Press
<1>4. BlurredKinds'
    <2>1. ASSUME NEW kind \in Kinds, PairOf[kind] \subseteq held', key \in PairOf[kind]
          PROVE  kind \in blurred'
        BY <2>1 DEF Press
    <2>2. ASSUME NEW kind \in Kinds, PairOf[kind] \subseteq held', key \notin PairOf[kind]
          PROVE  kind \in blurred'
        <3>1. PairOf[kind] \subseteq held
            BY <2>2, <1>3
        <3> QED
            BY <3>1 DEF FlagsFollow, BlurredKinds, Press
    <2>3. ASSUME NEW kind \in Kinds, kind \in blurred'
          PROVE  PairOf[kind] \cap held' # {}
        <3>1. kind \in blurred \/ PairOf[kind] \subseteq held'
            BY <2>3 DEF Press
        <3>2. kind \in blurred => PairOf[kind] \cap held # {}
            BY DEF FlagsFollow, BlurredKinds
        <3> QED
            BY <3>1, <3>2, <1>3, PairsNotEmpty
    <2> QED
        BY <2>1, <2>2, <2>3 DEF BlurredKinds
<1>5. Leads(b, Now')
    <2>1. ASSUME NEW kind \in Kinds, key \in PairOf[kind]
          PROVE  Holding(held')[kind]
        <3>1. key \in held' \cap PairOf[kind]
            BY <2>1, <1>3 DEF Lasting, Modifiers
        <3> QED
            BY <3>1 DEF Holding
    <2>2. ASSUME NEW kind \in Kinds, key \notin PairOf[kind]
          PROVE  /\ Holding(held')[kind] = Holding(held)[kind]
                 /\ kind \in blurred' <=> kind \in blurred
        <3>1. held' \cap PairOf[kind] = held \cap PairOf[kind]
            BY <2>2, <1>3
        <3>2. kind \in blurred' <=> kind \in blurred
            BY <2>2 DEF Press
        <3> QED
            BY <3>1, <3>2 DEF Holding
    <2>3. locked' = (locked # (key = "caps lock"))
        BY DEF Press
    <2> QED
        BY <2>1, <2>2, <2>3 DEF Leads, Now
<1> QED
    BY <1>1, <1>2, <1>4, <1>5, SentByteFollows

\* After a key was let go its kind is held only by the other key, and blurred then.
LEMMA ReleaseFollows ==
    ASSUME KeyboardTypeOK, FlagsFollow, NEW key \in Keys, Release(key)
    PROVE  FlagsFollow'
<1> DEFINE b == [key |-> key, break |-> TRUE, holding |-> Holding(held),
                 locked |-> locked, blurred |-> blurred]
<1>1. b \in Byte
    BY ViewType DEF Byte, KeyboardTypeOK
<1>2. bytes' = Append(bytes, b) /\ UNCHANGED flagVars
    BY DEF Release, Send
<1>3. held' = held \ {key} /\ key \in held
    BY DEF Release
<1>4. \A kind \in Kinds : kind \in blurred' <=> kind \in blurred /\ PairOf[kind] \cap held' # {}
    BY DEF Release
<1>6. BlurredKinds'
    <2>1. ASSUME NEW kind \in Kinds, PairOf[kind] \subseteq held'
          PROVE  kind \in blurred'
        <3>1. PairOf[kind] \subseteq held /\ PairOf[kind] \cap held' # {}
            BY <2>1, <1>3, PairsNotEmpty
        <3> QED
            BY <3>1, <1>4 DEF FlagsFollow, BlurredKinds
    <2> QED
        BY <2>1, <1>4 DEF BlurredKinds
<1>7. Leads(b, Now')
    <2>1. ASSUME NEW kind \in Kinds, key \in PairOf[kind], Holding(held')[kind]
          PROVE  kind \in blurred'
        <3>1. PairOf[kind] \cap held' # {}
            BY <2>1 DEF Holding
        <3>2. \A other : PairOf[kind] = {key, other} => PairOf[kind] \subseteq held
            BY <3>1, <1>3
        <3>3. \E other : PairOf[kind] = {key, other}
            BY <2>1, TwoKeys
        <3>4. kind \in blurred
            BY <3>2, <3>3 DEF FlagsFollow, BlurredKinds
        <3> QED
            BY <3>1, <3>4, <1>4
    <2>2. ASSUME NEW kind \in Kinds, key \notin PairOf[kind]
          PROVE  /\ Holding(held')[kind] = Holding(held)[kind]
                 /\ kind \in blurred' <=> kind \in blurred
        <3>1. held' \cap PairOf[kind] = held \cap PairOf[kind]
            BY <2>2, <1>3
        <3>2. kind \in blurred => PairOf[kind] \cap held # {}
            BY DEF FlagsFollow, BlurredKinds
        <3> QED
            BY <3>1, <3>2, <1>4 DEF Holding
    <2>3. locked' = locked
        BY DEF Release
    <2> QED
        BY <2>1, <2>2, <2>3 DEF Leads, Now, KeyboardTypeOK
<1> QED
    BY <1>1, <1>2, <1>6, <1>7, SentByteFollows

----------------------------------------------------------------------------
(* Reading a byte *)

LEMMA EmptySeq ==
    ASSUME NEW s \in Seq(Byte)
    PROVE  s = <<>> <=> Len(s) = 0
OBVIOUS

\* The handler sets the flag of the byte's kind and leaves the others.
LEMMA FlagsOfHandler ==
    ASSUME KeyboardTypeOK, KeyboardHandler
    PROVE  /\ \A kind \in Kinds :
                  Flags'[kind] <=> IF Head(bytes).key \in PairOf[kind] THEN ~Head(bytes).break
                                   ELSE Flags[kind]
           /\ (caps_flag' # 0) <=>
                  ((caps_flag # 0) # (Head(bytes).key = "caps lock" /\ ~Head(bytes).break))
<1> DEFINE key == Head(bytes).key
           break == Head(bytes).break
<1>1. break \in BOOLEAN
    <2>1. Head(bytes) \in Byte
        BY DEF KeyboardTypeOK, KeyboardHandler
    <2> QED
        BY <2>1 DEF Byte
<1>2. SetFlags(key, break)
    BY DEF KeyboardHandler
<1> HIDE DEF key, break
<1>3. \A flag, kind : ModifierFlag(flag, kind, key, break) # 0 <=>
            IF key \in PairOf[kind] THEN ~break ELSE flag # 0
    BY <1>1 DEF ModifierFlag, PRESSED
<1>4. /\ Flags'["shift"] <=> IF key \in PairOf["shift"] THEN ~break ELSE Flags["shift"]
      /\ Flags'["ctrl"] <=> IF key \in PairOf["ctrl"] THEN ~break ELSE Flags["ctrl"]
      /\ Flags'["alt"] <=> IF key \in PairOf["alt"] THEN ~break ELSE Flags["alt"]
    BY <1>2, <1>3 DEF SetFlags, Flags
<1>5. (caps_flag' # 0) <=> ((caps_flag # 0) # (key = "caps lock" /\ ~break))
    <2> DEFINE make == key = "caps lock" /\ ~break
    <2>1. caps_flag' = CapsFlag(caps_flag, key, break)
        BY <1>2 DEF SetFlags
    <2>2. CASE make
        <3>1. caps_flag' = IF caps_flag # 0 THEN 0 ELSE 2
            BY <2>1, <2>2 DEF CapsFlag, CAPS_PRESSED
        <3>2. caps_flag # 0 => caps_flag' = 0
            BY <3>1
        <3>3. caps_flag = 0 => caps_flag' = 2
            BY <3>1
        <3>4. (caps_flag' # 0) <=> ~(caps_flag # 0)
            BY <3>2, <3>3
        <3> QED
            BY <3>4, <2>2
    <2>3. CASE ~make
        <3>1. caps_flag' = caps_flag
            BY <2>1, <2>3 DEF CapsFlag
        <3> QED
            BY <3>1, <2>3
    <2> QED
        BY <2>2, <2>3
<1> QED
    BY <1>4, <1>5, ThreeKinds DEF key, break

\* Reading a byte takes the flags to what the user saw at the next one.
LEMMA HandlerFollows ==
    ASSUME KeyboardTypeOK, FlagsFollow, KeyboardHandler
    PROVE  FlagsFollow'
<1> DEFINE b == Head(bytes)
           n == Len(bytes)
           seen == IF bytes' = <<>> THEN Now ELSE Head(bytes')
<1>1. /\ bytes \in Seq(Byte) /\ bytes # <<>> /\ n \in Nat /\ b \in Byte
      /\ bytes' = Tail(bytes)
      /\ UNCHANGED userVars
    BY DEF KeyboardTypeOK, KeyboardHandler
<1>2. /\ Len(bytes') = n - 1 /\ 0 < n
      /\ \A i \in 1 .. n - 1 : bytes'[i] = bytes[i + 1]
      /\ bytes' = <<>> <=> n = 1
      /\ b = bytes[1]
      /\ n # 1 => Head(bytes') = bytes[2]
    <2>1. bytes' \in Seq(Byte) /\ Len(bytes') = n - 1 /\ 0 < n /\ b = bytes[1]
        BY <1>1
    <2>2. \A i \in 1 .. n - 1 : bytes'[i] = bytes[i + 1]
        BY <1>1
    <2>3. bytes' = <<>> <=> n = 1
        <3>1. bytes' = <<>> <=> Len(bytes') = 0
            BY <2>1, EmptySeq
        <3> HIDE DEF n
        <3>2. n \in Nat /\ Len(bytes') = n - 1
            BY <1>1, <2>1
        <3> QED
            BY <3>1, <3>2
    <2>4. n # 1 => Head(bytes') = bytes'[1] /\ 1 \in 1 .. n - 1
        BY <2>1, <2>3, <1>1
    <2> QED
        BY <2>1, <2>2, <2>3, <2>4
<1>3. Now' = Now
    BY <1>1 DEF Now, userVars
<1>4. Leads(b, seen)
    <2>1. CASE n = 1
        BY <2>1, <1>1, <1>2 DEF FlagsFollow
    <2>2. CASE n # 1
        <3>1. 1 \in 1 .. n - 1 /\ seen = bytes[1 + 1]
            BY <2>2, <1>1, <1>2
        <3> QED
            BY <3>1, <1>2 DEF FlagsFollow
    <2> QED
        BY <2>1, <2>2
<1>5. FlagsAgree(b)
    BY <1>1 DEF FlagsFollow
<1> HIDE DEF b, seen
<1>6. \A kind \in Kinds : /\ Flags'[kind] => seen.holding[kind]
                          /\ seen.holding[kind] => Flags'[kind] \/ kind \in seen.blurred
    <2> TAKE kind \in Kinds
    <2>1. Flags'[kind] <=> IF b.key \in PairOf[kind] THEN ~b.break ELSE Flags[kind]
        BY FlagsOfHandler DEF b
    <2>2. CASE b.key \in PairOf[kind]
        BY <2>1, <2>2, <1>4 DEF Leads
    <2>3. CASE b.key \notin PairOf[kind]
        BY <2>1, <2>3, <1>4, <1>5 DEF Leads, FlagsAgree
    <2> QED
        BY <2>2, <2>3
<1>7. (caps_flag' # 0) = seen.locked
    <2>1. (caps_flag' # 0) <=> ((caps_flag # 0) # (b.key = "caps lock" /\ ~b.break))
        BY FlagsOfHandler DEF b
    <2> QED
        BY <2>1, <1>4, <1>5 DEF Leads, FlagsAgree
<1>8. FlagsAgree(IF bytes = <<>> THEN Now ELSE Head(bytes))'
    BY <1>3, <1>6, <1>7 DEF FlagsAgree, seen
<1>9. \A i \in 1 .. n - 2 : Leads(bytes'[i], bytes'[i + 1])
    <2> TAKE i \in 1 .. n - 2
    <2>1. /\ i + 1 \in 1 .. n - 1
          /\ bytes'[i] = bytes[i + 1]
          /\ bytes'[i + 1] = bytes[(i + 1) + 1]
        BY <1>1, <1>2
    <2> QED
        BY <2>1 DEF FlagsFollow
<1>10. bytes' # <<>> => Leads(bytes'[n - 1], Now)
    <2> SUFFICES ASSUME bytes' # <<>> PROVE Leads(bytes'[n - 1], Now)
        OBVIOUS
    <2>1. bytes'[n - 1] = bytes[n]
        BY <1>1, <1>2
    <2> QED
        BY <2>1, <1>1 DEF FlagsFollow
<1>11. BlurredKinds'
    BY <1>1 DEF FlagsFollow, BlurredKinds, userVars
<1>12. Len(bytes') = n - 1 /\ (n - 1) - 1 = n - 2
    BY <1>1, <1>2
<1> QED
    BY <1>3, <1>8, <1>9, <1>10, <1>11, <1>12 DEF FlagsFollow

----------------------------------------------------------------------------
(* The effect of a byte *)

\* What the switch statement does for flags that are those the user saw.
LEMMA EffectOfKey ==
    ASSUME KeyboardTypeOK, NEW b \in Byte, ~b.break, FlagsAgree(b)
    PROVE  /\ b.blurred = {} => special_chars(b.key) = Meant(b)
           /\ special_chars(b.key).kills \/ special_chars(b.key).clears => b.holding["ctrl"]
           /\ special_chars(b.key).asks # NoTerminal => b.holding["alt"]
           /\ special_chars(b.key) \in Effect
<1>1. /\ shift_flag # 0 => b.holding["shift"]
      /\ control_flag # 0 => b.holding["ctrl"]
      /\ alt_flag # 0 => b.holding["alt"]
      /\ (caps_flag # 0) <=> b.locked
    BY ThreeKinds DEF FlagsAgree, Flags
<1>2. b.blurred = {} => /\ shift_flag # 0 <=> b.holding["shift"]
                        /\ control_flag # 0 <=> b.holding["ctrl"]
                        /\ alt_flag # 0 <=> b.holding["alt"]
    BY <1>1, ThreeKinds DEF FlagsAgree, Flags
<1>3. b.key \in AllKeys
    BY KeyboardAssumption DEF Byte
<1>4. b.key \in Letters =>
          table_char(b.key) = IF control_flag # 0 THEN Nothing
                              ELSE [key |-> b.key, upper |-> (shift_flag # 0) # (caps_flag # 0)]
    <2>1. shift_flag + caps_flag \in {1, 2} <=> ((shift_flag # 0) # (caps_flag # 0))
        BY DEF KeyboardTypeOK, PRESSED, CAPS_PRESSED
    <2>2. (shift_flag + caps_flag \in {1, 2}) = ((shift_flag # 0) # (caps_flag # 0))
        BY <2>1
    <2> QED
        <3>1. b.key \in Letters =>
                  scan_code2(shift_flag + caps_flag, b.key) =
                      [key |-> b.key, upper |-> shift_flag + caps_flag \in {1, 2}]
            BY DEF scan_code2, Letters, Symbols
        <3>2. [key |-> b.key, upper |-> shift_flag + caps_flag \in {1, 2}] =
                  [key |-> b.key, upper |-> (shift_flag # 0) # (caps_flag # 0)]
            BY <2>2, Zenon
        <3> QED
            BY <3>1, <3>2 DEF table_char
<1>5. b.key \in Symbols =>
          table_char(b.key) = IF control_flag # 0 THEN Nothing
                              ELSE [key |-> b.key, upper |-> shift_flag # 0]
    <2>1. shift_flag + caps_flag \in {1, 3} <=> shift_flag # 0
        BY DEF KeyboardTypeOK, PRESSED, CAPS_PRESSED
    <2>2. b.key \in Symbols => b.key \notin Letters
        BY DEF Symbols, Letters
    <2> QED
        BY <2>1, <2>2 DEF table_char, scan_code2
<1>6. b.key \notin Letters \cup Symbols => table_char(b.key) = Nothing
    BY DEF table_char, scan_code2
<1> HIDE DEF KeyboardTypeOK, FlagsAgree
<1>7. Meant(b) = [types |-> TypedBy(b), asks |-> AskedBy(b),
                  kills |-> b.key = "C" /\ b.holding["ctrl"],
                  clears |-> b.key = "L" /\ b.holding["ctrl"]]
    BY DEF Meant
<1>8. special_chars(b.key) =
          [types |-> IF b.key \in {"enter", "backspace"} THEN Plain(b.key)
                     ELSE IF b.key = "tab" THEN Plain("space")
                     ELSE table_char(b.key),
           asks |-> IF b.key \in FunctionKeys \cup {"tab"} THEN AltFunction(b.key)
                    ELSE NoTerminal,
           kills |-> b.key = "C" /\ control_flag # 0,
           clears |-> b.key = "L" /\ control_flag # 0]
    <2>1. CASE b.key = "C"
        BY <2>1, <1>4 DEF special_chars, Types, NoEffect, Letters, FunctionKeys
    <2>2. CASE b.key = "L"
        BY <2>2, <1>4 DEF special_chars, Types, NoEffect, Letters, FunctionKeys
    <2>3. CASE b.key \in {"enter", "backspace"}
        BY <2>3 DEF special_chars, Types, FunctionKeys
    <2>4. CASE b.key = "tab"
        BY <2>4 DEF special_chars, Types, FunctionKeys
    <2>5. CASE b.key \in FunctionKeys
        <3>1. table_char(b.key) = Nothing
            BY <2>5, <1>6 DEF FunctionKeys, Letters, Symbols
        <3> QED
            BY <2>5, <3>1 DEF special_chars, Types, NoEffect, FunctionKeys
    <2>6. CASE b.key \notin {"C", "L", "enter", "backspace", "tab"} \cup FunctionKeys
        BY <2>6 DEF special_chars, Types
    <2> QED
        BY <2>1, <2>2, <2>3, <2>4, <2>5, <2>6
<1>9. b.blurred = {} => special_chars(b.key) = Meant(b)
    <2> SUFFICES ASSUME b.blurred = {} PROVE special_chars(b.key) = Meant(b)
        OBVIOUS
    <2>1. /\ (shift_flag # 0) = b.holding["shift"]
          /\ (control_flag # 0) = b.holding["ctrl"]
          /\ (alt_flag # 0) = b.holding["alt"]
          /\ (caps_flag # 0) = b.locked
        <3>1. b.holding \in [Kinds -> BOOLEAN] /\ b.locked \in BOOLEAN
            BY DEF Byte
        <3> QED
            BY <1>1, <1>2, <3>1, ThreeKinds
    <2>2. TypedBy(b) = IF b.key \in {"enter", "backspace"} THEN Plain(b.key)
                       ELSE IF b.key = "tab" THEN Plain("space")
                       ELSE table_char(b.key)
        <3>1. CASE b.key \in Letters
            BY <3>1, <1>4, <2>1 DEF TypedBy, Upper, Letters
        <3>2. CASE b.key \in Symbols
            BY <3>2, <1>5, <2>1 DEF TypedBy, Upper, Symbols, Letters
        <3>3. CASE b.key \notin Letters \cup Symbols
            BY <3>3, <1>6 DEF TypedBy
        <3> QED
            BY <3>1, <3>2, <3>3
    <2>3. AskedBy(b) = IF b.key \in FunctionKeys \cup {"tab"} THEN AltFunction(b.key)
                       ELSE NoTerminal
        BY <2>1 DEF AskedBy, AltFunction, FunctionKeys
    <2> QED
        BY <1>7, <1>8, <2>1, <2>2, <2>3
<1>10. table_char(b.key) \in [key : AllKeys \cup {"space", "nothing"}, upper : BOOLEAN]
    BY <1>3 DEF table_char, scan_code2, Nothing, Plain
<1>11. b.key \in FunctionKeys \cup {"tab"} => AltFunction(b.key) \in 0 .. 2 \cup {NoTerminal}
    BY DEF AltFunction, NoTerminal, FunctionKeys
<1>12. AltFunction(b.key) # NoTerminal => b.holding["alt"]
    BY <1>1 DEF AltFunction
<1>13. special_chars(b.key) \in Effect
    <2>1. special_chars(b.key).types \in [key : AllKeys \cup {"space", "nothing"}, upper : BOOLEAN]
        BY <1>8, <1>10, <1>3 DEF Plain
    <2>2. special_chars(b.key).asks \in 0 .. 2 \cup {NoTerminal}
        BY <1>8, <1>11
    <2> QED
        BY <1>8, <2>1, <2>2 DEF Effect
<1>14. /\ special_chars(b.key).kills \/ special_chars(b.key).clears => b.holding["ctrl"]
       /\ special_chars(b.key).asks # NoTerminal => b.holding["alt"]
    <2>1. control_flag = 0 => ~special_chars(b.key).kills /\ ~special_chars(b.key).clears
        <3> SUFFICES ASSUME control_flag = 0
                     PROVE  ~special_chars(b.key).kills /\ ~special_chars(b.key).clears
            OBVIOUS
        <3>1. \/ special_chars(b.key) = Types(table_char(b.key))
              \/ special_chars(b.key) = Types(Plain(b.key))
              \/ special_chars(b.key) = [Types(Plain("space")) EXCEPT !.asks = AltFunction(b.key)]
              \/ special_chars(b.key) = [NoEffect EXCEPT !.asks = AltFunction(b.key)]
            BY DEF special_chars, FunctionKeys
        <3> QED
            BY <3>1 DEF Types, NoEffect
    <2>2. special_chars(b.key).asks # NoTerminal =>
              special_chars(b.key).asks = AltFunction(b.key)
        BY <1>8
    <2>3. special_chars(b.key).asks # NoTerminal => b.holding["alt"]
        BY <2>2, <1>12
    <2> QED
        BY <2>1, <2>3, <1>1
<1> QED
    BY <1>9, <1>13, <1>14

\* The handler leaves the effect of the byte it read.
LEMMA HandlerEffect ==
    ASSUME KeyboardTypeOK, FlagsFollow, KeyboardHandler
    PROVE  /\ KeyboardTypeOK'
           /\ DoesWhatWasMeant'
           /\ OnlyHeldModifiersAct'
<1> DEFINE b == Head(bytes)
<1>1. /\ b \in Byte /\ bytes' \in Seq(Byte)
      /\ bytes # <<>> /\ read' = b
      /\ effect' = IF b.break THEN NoEffect ELSE special_chars(b.key)
      /\ SetFlags(b.key, b.break)
      /\ kb_in_service' = TRUE /\ UNCHANGED userVars
    BY DEF KeyboardTypeOK, KeyboardHandler
<1>2. FlagsAgree(b)
    BY <1>1 DEF FlagsFollow
<1> HIDE DEF b
<1>3. NoEffect \in Effect /\ NoEffect.asks = NoTerminal /\ ~NoEffect.kills /\ ~NoEffect.clears
    BY DEF NoEffect, Effect, Types, Nothing, Plain, NoTerminal
<1>4. b.break \in BOOLEAN
    BY <1>1 DEF Byte
<1>5. /\ effect' \in Effect
      /\ b.blurred = {} => effect' = IF b.break THEN NoEffect ELSE Meant(b)
      /\ effect'.kills \/ effect'.clears => b.holding["ctrl"]
      /\ effect'.asks # NoTerminal => b.holding["alt"]
    <2>1. CASE b.break
        BY <1>1, <1>3, <2>1
    <2>2. CASE ~b.break
        BY <1>1, <1>2, <2>2, EffectOfKey
    <2> QED
        BY <1>4, <2>1, <2>2
<1>6. /\ shift_flag' \in {0, PRESSED}
      /\ control_flag' \in {0, PRESSED}
      /\ alt_flag' \in {0, PRESSED}
      /\ caps_flag' \in {0, CAPS_PRESSED}
    BY <1>1 DEF SetFlags, ModifierFlag, CapsFlag, KeyboardTypeOK
<1>7. KeyboardTypeOK'
    BY <1>1, <1>5, <1>6 DEF KeyboardTypeOK, userVars
<1> QED
    BY <1>1, <1>5, <1>7 DEF DoesWhatWasMeant, OnlyHeldModifiersAct

----------------------------------------------------------------------------

\* Bytes are sent with what is true of them.
LEMMA SendType ==
    ASSUME KeyboardTypeOK, NEW key \in Keys, Press(key) \/ Release(key)
    PROVE  KeyboardTypeOK'
<1>1. \A break \in BOOLEAN : [key |-> key, break |-> break, holding |-> Holding(held),
                              locked |-> locked, blurred |-> blurred] \in Byte
    BY ViewType DEF Byte, KeyboardTypeOK
<1>2. bytes' \in Seq(Byte) /\ UNCHANGED <<flagVars, handlerVars>>
    <2>1. bytes \in Seq(Byte)
        BY DEF KeyboardTypeOK
    <2>2. \A b \in Byte : Append(bytes, b) \in Seq(Byte)
        BY <2>1
    <2>3. Send(key, FALSE) \/ Send(key, TRUE)
        BY DEF Press, Release
    <2>4. UNCHANGED flagVars /\ UNCHANGED handlerVars
        BY <2>3 DEF Send
    <2>5. \E break \in BOOLEAN :
              bytes' = Append(bytes, [key |-> key, break |-> break, holding |-> Holding(held),
                                      locked |-> locked, blurred |-> blurred])
        BY <2>3 DEF Send
    <2>6. bytes' \in Seq(Byte)
        BY <1>1, <2>2, <2>5
    <2> QED
        BY <2>4, <2>6
<1>3. held' \subseteq Keys \cap Lasting /\ locked' \in BOOLEAN /\ blurred' \subseteq Kinds
    BY DEF Press, Release, KeyboardTypeOK
<1> QED
    BY <1>2, <1>3 DEF KeyboardTypeOK, flagVars, handlerVars

\* Every step keeps the invariant.
LEMMA NextInv == KeyboardInv /\ [KeyboardNext]_keyboardVars => KeyboardInv'
<1> SUFFICES ASSUME KeyboardInv, [KeyboardNext]_keyboardVars PROVE KeyboardInv'
    OBVIOUS
<1> USE DEF KeyboardInv
<1>1. ASSUME NEW key \in Keys, Press(key) PROVE KeyboardInv'
    <2>1. KeyboardTypeOK' /\ FlagsFollow'
        BY <1>1, SendType, PressFollows
    <2>2. UNCHANGED handlerVars
        BY <1>1 DEF Press, Send
    <2> QED
        BY <2>1, <2>2 DEF DoesWhatWasMeant, OnlyHeldModifiersAct, handlerVars
<1>2. ASSUME NEW key \in Keys, Release(key) PROVE KeyboardInv'
    <2>1. KeyboardTypeOK' /\ FlagsFollow'
        BY <1>2, SendType, ReleaseFollows
    <2>2. UNCHANGED handlerVars
        BY <1>2 DEF Release, Send
    <2> QED
        BY <2>1, <2>2 DEF DoesWhatWasMeant, OnlyHeldModifiersAct, handlerVars
<1>3. CASE KeyboardHandler
    BY <1>3, HandlerFollows, HandlerEffect
<1>4. ASSUME UNCHANGED <<flagVars, bytes, read, effect, userVars>>, kb_in_service' \in BOOLEAN
      PROVE  KeyboardInv'
    <2>1. KeyboardTypeOK' /\ DoesWhatWasMeant' /\ OnlyHeldModifiersAct'
        BY <1>4 DEF KeyboardTypeOK, DoesWhatWasMeant, OnlyHeldModifiersAct, flagVars, userVars
    <2>2. FlagsFollow'
        <3>1. bytes' = bytes /\ UNCHANGED flagVars /\ UNCHANGED userVars
            BY <1>4
        <3>2. Now' = Now /\ Flags' = Flags /\ UNCHANGED caps_flag
            BY <3>1 DEF Now, Flags, flagVars, userVars
        <3>3. BlurredKinds'
            BY <3>1 DEF FlagsFollow, BlurredKinds, userVars
        <3> QED
            BY <3>1, <3>2, <3>3 DEF FlagsFollow, FlagsAgree
    <2> QED
        BY <2>1, <2>2
<1>5. CASE KeyboardEoi
    BY <1>5, <1>4 DEF KeyboardEoi
<1>6. CASE UNCHANGED keyboardVars
    BY <1>6, <1>4 DEF keyboardVars, flagVars, userVars, KeyboardTypeOK
<1> QED
    BY <1>1, <1>2, <1>3, <1>5, <1>6 DEF KeyboardNext

\* The flags follow the keys, however late the bytes are read.
THEOREM InvariantHolds == KeyboardSpec => []KeyboardInv
BY InitInv, NextInv, PTL DEF KeyboardSpec

\* Every variable of the driver stays in its type: scan_code2 is read within its
\* rows, and flags are never counted.
THEOREM KeyboardTypeCorrect == KeyboardSpec => []KeyboardTypeOK
<1>1. KeyboardInv => KeyboardTypeOK
    BY DEF KeyboardInv
<1> QED
    BY <1>1, InvariantHolds, PTL

\* A byte does what was meant when it was sent (keyboard_handler), unless both
\* keys of a kind of modifier had been down and one still was.
THEOREM BytesDoWhatWasMeant == KeyboardSpec => []DoesWhatWasMeant
<1>1. KeyboardInv => DoesWhatWasMeant
    BY DEF KeyboardInv
<1> QED
    BY <1>1, InvariantHolds, PTL

\* Marking a program, clearing a screen and asking for a terminal take a key that
\* was held (special_chars).
THEOREM CommandsNeedHeldKeys == KeyboardSpec => []OnlyHeldModifiersAct
<1>1. KeyboardInv => OnlyHeldModifiersAct
    BY DEF KeyboardInv
<1> QED
    BY <1>1, InvariantHolds, PTL

\* No flag stays set for a key that was let go (special_chars).
THEOREM NoModifierSticks == KeyboardSpec => []NoStuckModifier
<1>1. KeyboardInv => NoStuckModifier
    <2> SUFFICES ASSUME KeyboardInv, bytes = <<>> PROVE
            /\ shift_flag # 0 => Holding(held)["shift"]
            /\ control_flag # 0 => Holding(held)["ctrl"]
            /\ alt_flag # 0 => Holding(held)["alt"]
            /\ (caps_flag # 0) = locked
        BY DEF NoStuckModifier
    <2>1. FlagsAgree(Now)
        BY DEF KeyboardInv, FlagsFollow
    <2> QED
        BY <2>1, ThreeKinds DEF FlagsAgree, Flags, Now
<1> QED
    BY <1>1, InvariantHolds, PTL

----------------------------------------------------------------------------
(* TerminalInput *)

LEMMA FollowingIsTerminal ==
    ASSUME active_terminal \in Terms
    PROVE  Following \in Terms
BY TerminalsAssumption DEF Terms, Following

LEMMA TurnsType == TurnsTypeOK /\ TurnsNext => TurnsTypeOK'
BY FollowingIsTerminal DEF TurnsTypeOK, TurnsNext, Boot, Ask, Turn

LineChars == Chars \cup {Newline}

----------------------------------------------------------------------------
(* What the copy loops compute *)

Taken(b, n) == {i \in 0 .. Reach(n) - 1 : \A k \in 0 .. i - 1 : b[k] # Newline}

LEMMA FirstCells ==
    ASSUME NEW k \in Nat
    PROVE  IsFiniteSet(0 .. k - 1) /\ Cardinality(0 .. k - 1) = k
<1>1. 0 \in Int /\ k - 1 \in Int
  OBVIOUS
<1>2. /\ IsFiniteSet(0 .. k - 1)
      /\ Cardinality(0 .. k - 1) = IF 0 > k - 1 THEN 0 ELSE (k - 1) - 0 + 1
  BY ONLY <1>1, FS_Interval, Zenon
<1> QED
  BY <1>2

\* The first newline of b is in cell c: a read of n bytes takes the cells up to
\* it if it reaches that far, and as many as it reaches otherwise.
LEMMA CopiedCells ==
    ASSUME NEW b \in [Cells -> LineChars], NEW n \in Nat, NEW c \in Cells,
           b[c] = Newline, \A k \in 0 .. c - 1 : b[k] # Newline
    PROVE  /\ HasNewline(b, n) <=> c < Reach(n)
           /\ Copied(b, n) = IF c < Reach(n) THEN c + 1 ELSE Reach(n)
<1>1. Reach(n) \in 0 .. BUFFER_SIZE /\ c \in 0 .. BUFFER_SIZE - 1 /\ BUFFER_SIZE \in Nat
  BY TerminalInputAssumption DEF Reach, Cells
<1>2. HasNewline(b, n) <=> c < Reach(n)
  BY <1>1 DEF HasNewline
<1> DEFINE size == IF c < Reach(n) THEN c + 1 ELSE Reach(n)
<1>3. Taken(b, n) = 0 .. size - 1 /\ size \in Nat
  BY <1>1 DEF Taken
<1>4. Cardinality(Taken(b, n)) = size
  <2> HIDE DEF size
  <2> QED
    BY <1>3, FirstCells
<1> QED
  BY <1>2, <1>4 DEF Copied, Taken

\* In bounds for any buffer, with a newline or without.
LEMMA CopiedBounds ==
    ASSUME NEW b \in [Cells -> LineChars], NEW n \in Nat
    PROVE  /\ Copied(b, n) \in 0 .. BUFFER_SIZE
           /\ Text(b, n) \in Seq(LineChars)
           /\ ReadBytes(b, n) \in 0 .. BUFFER_SIZE
<1>1. Reach(n) \in 0 .. BUFFER_SIZE /\ BUFFER_SIZE \in Nat
  BY TerminalInputAssumption DEF Reach
<1>2. Copied(b, n) \in 0 .. Reach(n)
  <2>1. /\ IsFiniteSet(0 .. Reach(n) - 1)
        /\ Cardinality(0 .. Reach(n) - 1) = Reach(n)
    BY <1>1, FirstCells
  <2>2. Taken(b, n) \subseteq 0 .. Reach(n) - 1
    BY DEF Taken
  <2>3. Cardinality(Taken(b, n)) \in Nat /\ Cardinality(Taken(b, n)) <= Reach(n)
    BY <2>1, <2>2, FS_Subset, FS_CardinalityType
  <2> QED
    BY <1>1, <2>3 DEF Copied, Taken
<1>3. \A i \in 1 .. Copied(b, n) : b[i - 1] \in LineChars
  BY <1>1, <1>2 DEF Cells
<1>4. Text(b, n) \in Seq(LineChars)
  <2>1. Copied(b, n) \in Nat
    BY <1>1, <1>2
  <2> QED
    BY <1>3, <2>1 DEF Text, LineChars
<1> QED
  BY <1>1, <1>2, <1>4 DEF ReadBytes

----------------------------------------------------------------------------
(* Types and bounds *)

InputInv ==
    /\ InputTypeOK
    /\ ReadyHasLine
    /\ \A t \in Terms : reader[t] # "idle" => request[t] \in Sizes

LEMMA InputInductive == InputInv /\ [InputNext]_inputVars => InputInv'
<1> SUFFICES ASSUME InputInv, [InputNext]_inputVars PROVE InputInv'
  OBVIOUS
<1> USE DEF InputInv, InputTypeOK, ReadyHasLine
<1>1. active_terminal \in Terms /\ visible_terminal \in Terms
  BY DEF TurnsTypeOK
<1>2. CASE KeyChar \/ KeyEnter \/ KeyBackspace
  <2>1. UNCHANGED <<turnVars, readVars>>
    BY <1>2 DEF KeyChar, KeyEnter, KeyBackspace, KeyPressed
  <2>2. term_buffer' \in [Terms -> [Cells -> LineChars]]
    <3>1. PICK i, c : c \in LineChars /\ Put(visible_terminal, i, c)
      BY <1>2, TerminalInputAssumption DEF KeyChar, KeyEnter, KeyBackspace, LineChars
    <3>2. term_buffer[visible_terminal] \in [Cells -> LineChars]
      BY <1>1 DEF LineChars
    <3>3. [term_buffer[visible_terminal] EXCEPT ![i] = c] \in [Cells -> LineChars]
      BY <3>1, <3>2
    <3>4. term_buffer' = [term_buffer EXCEPT ![visible_terminal] =
                              [term_buffer[visible_terminal] EXCEPT ![i] = c]]
      BY <3>1 DEF Put
    <3> QED
      BY <3>3, <3>4 DEF LineChars
  <2>3. char_idx' \in [Terms -> Cells]
    BY <1>1, <1>2, TerminalInputAssumption DEF KeyChar, KeyEnter, KeyBackspace, Cells
  <2>4. enter_flag' \in [Terms -> BOOLEAN] /\ \A t \in Terms : enter_flag[t] => enter_flag'[t]
    BY <1>1, <1>2 DEF KeyChar, KeyEnter, KeyBackspace
  <2> QED
    BY <2>1, <2>2, <2>3, <2>4 DEF turnVars, readVars, TurnsTypeOK, LineChars
<1>3. CASE StartRead
  BY <1>1, <1>3 DEF StartRead, turnVars, keyVars, TurnsTypeOK
<1>4. CASE SeeEnter
  BY <1>1, <1>4 DEF SeeEnter, turnVars, keyVars, TurnsTypeOK
<1>5. CASE FinishRead
  <2> DEFINE t == active_terminal
             n == request[t]
             b == term_buffer[t]
  <2>1. n \in Nat /\ b \in [Cells -> LineChars]
    BY <1>1, <1>5, TerminalInputAssumption DEF FinishRead, LineChars
  <2>2. got' \in [to : Terms, bytes : 0 .. BUFFER_SIZE, text : Seq(LineChars)]
    BY <1>1, <1>5, <2>1, CopiedBounds DEF FinishRead
  <2>3. term_buffer' \in [Terms -> [Cells -> LineChars]]
    <3>1. [i \in Cells |-> IF i < Copied(b, n) THEN Space ELSE b[i]] \in [Cells -> LineChars]
      BY <2>1, TerminalInputAssumption DEF LineChars
    <3> QED
      BY <1>1, <1>5, <3>1 DEF FinishRead, LineChars
  <2>4. UNCHANGED turnVars
    BY <1>5 DEF FinishRead
  <2>5. /\ char_idx' = [char_idx EXCEPT ![t] = 0]
        /\ enter_flag' = [enter_flag EXCEPT ![t] = FALSE]
        /\ reader' = [reader EXCEPT ![t] = "idle"]
        /\ request' = [request EXCEPT ![t] = 0]
    BY <1>5 DEF FinishRead
  <2> HIDE DEF t, n, b
  <2> QED
    BY <1>1, <2>2, <2>3, <2>4, <2>5, TerminalInputAssumption
       DEF turnVars, TurnsTypeOK, LineChars, Cells, t
<1>6. CASE BootShell \/ AskTerminal \/ ScheduleProcess
  <2>1. TurnsNext /\ UNCHANGED <<keyVars, readVars>>
    BY <1>6 DEF BootShell, AskTerminal, ScheduleProcess, TurnsNext
  <2> QED
    BY <2>1, TurnsType DEF keyVars, readVars
<1>7. CASE ScheduleAndKill
  <2>1. TurnsNext /\ Following \in Terms
    BY <1>1, <1>7, FollowingIsTerminal DEF ScheduleAndKill, TurnsNext
  <2> QED
    BY <1>7, <2>1, TurnsType DEF ScheduleAndKill, keyVars
<1>8. CASE UNCHANGED inputVars
  BY <1>8 DEF inputVars, turnVars, keyVars, readVars, TurnsTypeOK
<1> QED
  BY <1>2, <1>3, <1>4, <1>5, <1>6, <1>7, <1>8 DEF InputNext

LEMMA InputInitInv == InputInit => InputInv
BY TerminalsAssumption, TerminalInputAssumption
   DEF InputInit, TurnsInit, InputInv, InputTypeOK, TurnsTypeOK, ReadyHasLine, Terms, Cells

\* Whatever is typed, however far ahead, char_idx stays inside the buffer, the
\* copy loops stay inside both buffers, and the Enter a reader saw is still
\* there when it copies.
THEOREM InputTypeCorrect == InputSpec => [](InputTypeOK /\ ReadyHasLine)
<1>1. InputInv => InputTypeOK /\ ReadyHasLine
  BY DEF InputInv
<1> QED
  BY InputInitInv, InputInductive, <1>1, PTL DEF InputSpec

\* However many ticks, keys and other readers come between the look at the flag
\* and the cli(), the Enter a reader saw is still there when it copies.
COROLLARY ReadyAlwaysHasLine == InputSpec => []ReadyHasLine
BY InputTypeCorrect, PTL

----------------------------------------------------------------------------
(* The delivery of lines *)

\* The typed part of a buffer holds no newline; after Enter one follows it.
TypedLine(t) ==
    /\ \A i \in 0 .. char_idx[t] - 1 : term_buffer[t][i] # Newline
    /\ enter_flag[t] => term_buffer[t][char_idx[t]] = Newline

LineInv == InputInv /\ \A t \in Terms : TypedLine(t)

LEMMA LineInductive == ~TypeAhead /\ LineInv /\ [InputNext]_inputVars => LineInv'
<1> SUFFICES ASSUME ~TypeAhead, LineInv, [InputNext]_inputVars,
                    NEW t \in Terms
             PROVE  TypedLine(t)'
  BY InputInductive DEF LineInv
<1>1. /\ char_idx \in [Terms -> Cells] /\ enter_flag \in [Terms -> BOOLEAN]
      /\ term_buffer \in [Terms -> [Cells -> LineChars]]
      /\ active_terminal \in Terms /\ visible_terminal \in Terms
  BY DEF LineInv, InputInv, InputTypeOK, TurnsTypeOK, LineChars
<1>2. TypedLine(t)
  BY DEF LineInv
<1>3. BUFFER_SIZE \in Nat /\ Newline \notin Chars /\ Space \in Chars
  BY TerminalInputAssumption
<1>4. CASE t # visible_terminal /\ (KeyChar \/ KeyEnter \/ KeyBackspace)
  <2>1. char_idx'[t] = char_idx[t] /\ enter_flag'[t] = enter_flag[t] /\ term_buffer'[t] = term_buffer[t]
    BY <1>1, <1>4 DEF KeyChar, KeyEnter, KeyBackspace, Put
  <2> QED
    BY <1>2, <2>1 DEF TypedLine
<1>5. CASE t = visible_terminal /\ KeyChar
  <2>1. PICK c \in Chars : term_buffer' = [term_buffer EXCEPT ![t][char_idx[t]] = c]
    BY <1>5 DEF KeyChar, Put
  <2>2. ~enter_flag'[t] /\ char_idx'[t] = char_idx[t] + 1
    BY <1>1, <1>5 DEF KeyChar, KeyPressed
  <2>3. term_buffer'[t] = [term_buffer[t] EXCEPT ![char_idx[t]] = c]
    BY <1>1, <2>1
  <2> QED
    BY <1>1, <1>2, <1>3, <2>2, <2>3 DEF TypedLine, Cells
<1>6. CASE t = visible_terminal /\ KeyEnter
  <2>1. char_idx'[t] = char_idx[t] /\ char_idx[t] \in 0 .. BUFFER_SIZE - 1
    BY <1>1, <1>6 DEF KeyEnter, Cells
  <2>2. term_buffer'[t] = [term_buffer[t] EXCEPT ![char_idx[t]] = Newline]
    <3>1. ~(char_idx[t] >= BUFFER_SIZE)
      BY <1>3, <2>1
    <3>2. Put(t, char_idx[t], Newline)
      BY <1>6, <3>1 DEF KeyEnter
    <3> QED
      BY <1>1, <3>2 DEF Put
  <2> QED
    BY <1>1, <1>2, <1>3, <2>1, <2>2 DEF TypedLine, Cells
<1>7. CASE t = visible_terminal /\ KeyBackspace
  <2>1. ~enter_flag'[t] /\ char_idx'[t] = char_idx[t] - 1 /\ char_idx[t] > 0
    BY <1>1, <1>7 DEF KeyBackspace, KeyPressed
  <2>2. term_buffer'[t] = [term_buffer[t] EXCEPT ![char_idx[t] - 1] = Space]
    BY <1>1, <1>7 DEF KeyBackspace, Put
  <2>3. char_idx[t] \in Nat /\ char_idx[t] - 1 \in Cells
    BY <1>1, <1>3, <2>1 DEF Cells
  <2>4. \A i \in 0 .. char_idx[t] - 2 :
            i \in 0 .. char_idx[t] - 1 /\ term_buffer'[t][i] = term_buffer[t][i]
    BY <1>1, <2>2, <2>3
  <2>5. char_idx'[t] - 1 = char_idx[t] - 2
    BY <2>1, <2>3
  <2> QED
    BY <1>2, <2>1, <2>4, <2>5 DEF TypedLine
<1>8. CASE FinishRead
  <2>1. CASE t = active_terminal
    <3>1. char_idx'[t] = 0 /\ ~enter_flag'[t]
      BY <1>1, <1>8, <2>1 DEF FinishRead
    <3> QED
      BY <3>1 DEF TypedLine
  <2>2. CASE t # active_terminal
    <3>1. char_idx'[t] = char_idx[t] /\ enter_flag'[t] = enter_flag[t] /\ term_buffer'[t] = term_buffer[t]
      BY <1>1, <1>8, <2>2 DEF FinishRead
    <3> QED
      BY <1>2, <3>1 DEF TypedLine
  <2> QED
    BY <2>1, <2>2
<1>9. CASE ~(KeyChar \/ KeyEnter \/ KeyBackspace \/ FinishRead)
  <2>1. UNCHANGED keyVars
    BY <1>9 DEF InputNext, StartRead, SeeEnter, BootShell, AskTerminal, ScheduleProcess,
                ScheduleAndKill, inputVars
  <2> QED
    BY <1>2, <2>1 DEF keyVars, TypedLine
<1> QED
  BY <1>4, <1>5, <1>6, <1>7, <1>8, <1>9

\* What is typed of a line, in the buffer b up to c.
Line(b, c) == [i \in 1 .. c |-> b[i - 1]]

LEMMA LineIsSequence ==
    ASSUME NEW b \in [Cells -> LineChars], NEW c \in Cells
    PROVE  /\ Line(b, c) \in Seq(LineChars)
           /\ Len(Line(b, c)) = c
           /\ \A e : Append(Line(b, c), e) = [i \in 1 .. c + 1 |-> IF i = c + 1 THEN e ELSE b[i - 1]]
<1>1. c \in Nat /\ \A i \in 1 .. c : b[i - 1] \in LineChars
  BY TerminalInputAssumption DEF Cells
<1>2. Line(b, c) \in Seq(LineChars) /\ Len(Line(b, c)) = c
  BY <1>1 DEF Line
<1>3. \A e : Append(Line(b, c), e) = [i \in 1 .. c + 1 |-> IF i = c + 1 THEN e ELSE b[i - 1]]
  BY <1>1, <1>2 DEF Line
<1> QED
  BY <1>2, <1>3

\* A read takes the line in the buffer, cut to its size.
LEMMA ReadTakesLine ==
    ASSUME NEW b \in [Cells -> LineChars], NEW c \in Cells, NEW n \in Nat,
           b[c] = Newline, \A k \in 0 .. c - 1 : b[k] # Newline
    PROVE  LET s == L!Cut(Append(Line(b, c), Newline), n)
           IN  Text(b, n) = s /\ ReadBytes(b, n) = Len(s)
<1> DEFINE full == Append(Line(b, c), Newline)
<1>1. full = [i \in 1 .. c + 1 |-> IF i = c + 1 THEN Newline ELSE b[i - 1]]
  BY LineIsSequence
<1>2. c \in 0 .. BUFFER_SIZE - 1 /\ BUFFER_SIZE \in Nat
  BY TerminalInputAssumption DEF Cells
<1>3. full \in Seq(LineChars) /\ Len(full) = c + 1
  <2>1. Newline \in LineChars
    BY DEF LineChars
  <2> QED
    BY <1>2, <2>1, LineIsSequence
<1>4. CASE c < Reach(n)
  <2>1. HasNewline(b, n) /\ Copied(b, n) = c + 1 /\ c + 1 <= n
    BY <1>2, <1>4, CopiedCells DEF Reach
  <2>2. Text(b, n) = full
    <3>1. \A i \in 1 .. c + 1 :
              (IF i = n /\ n < BUFFER_SIZE THEN Newline ELSE b[i - 1])
                 = IF i = c + 1 THEN Newline ELSE b[i - 1]
      BY <1>2, <2>1
    <3> HIDE DEF full
    <3> QED
      BY <1>1, <2>1, <3>1 DEF Text
  <2>3. L!Cut(full, n) = full
    BY <1>3, <2>1 DEF L!Cut
  <2> QED
    BY <1>3, <2>1, <2>2, <2>3 DEF ReadBytes
<1>5. CASE ~(c < Reach(n))
  <2>1. ~HasNewline(b, n) /\ Copied(b, n) = n /\ n < BUFFER_SIZE /\ n < c + 1
    BY <1>2, <1>5, CopiedCells DEF Reach
  <2>2. L!Cut(full, n) = [i \in 1 .. n |-> IF i = n THEN Newline ELSE full[i]]
    BY <1>3, <2>1 DEF L!Cut
  <2>3. \A i \in 1 .. n : (IF i = n THEN Newline ELSE full[i])
                            = IF i = n /\ n < BUFFER_SIZE THEN Newline ELSE b[i - 1]
    <3> HIDE DEF full
    <3> QED
      BY <1>1, <1>2, <2>1
  <2>4. Text(b, n) = L!Cut(full, n)
    <3> HIDE DEF full
    <3> QED
      BY <2>1, <2>2, <2>3 DEF Text
  <2>5. Len(L!Cut(full, n)) = n
    <3> HIDE DEF full
    <3> QED
      BY <2>2
  <2> QED
    BY <2>1, <2>4, <2>5 DEF ReadBytes
<1> QED
  BY <1>4, <1>5

Typed == [t \in Terms |-> Line(term_buffer[t], char_idx[t])]

\* A step that works on terminal v changes the typed line of v only.
LEMMA TypedChanges ==
    ASSUME InputInv, InputInv', NEW v \in Terms, NEW l,
           \A t \in Terms : t # v => term_buffer'[t] = term_buffer[t] /\ char_idx'[t] = char_idx[t],
           Line(term_buffer'[v], char_idx'[v]) = l
    PROVE  Typed' = [Typed EXCEPT ![v] = l]
BY DEF Typed

LEMMA KeysEditLine ==
    ASSUME ~TypeAhead, LineInv, LineInv', KeyChar \/ KeyEnter \/ KeyBackspace
    PROVE  \E t \in Terms : L!Type(t) \/ L!Complete(t) \/ L!Erase(t)
<1> DEFINE v == visible_terminal
           c == char_idx[v]
           b == term_buffer[v]
<1>1. /\ v \in Terms /\ c \in Cells /\ b \in [Cells -> LineChars] /\ ~enter_flag[v]
      /\ c \in 0 .. BUFFER_SIZE - 1 /\ BUFFER_SIZE \in Nat /\ InputInv /\ InputInv'
      /\ UNCHANGED got
  BY TerminalInputAssumption
     DEF LineInv, InputInv, InputTypeOK, TurnsTypeOK, LineChars, Cells, KeyChar, KeyEnter,
         KeyBackspace, KeyPressed, readVars
<1>2. /\ term_buffer \in [Terms -> [Cells -> LineChars]] /\ char_idx \in [Terms -> Cells]
      /\ Typed[v] = Line(b, c)
  BY <1>1 DEF InputInv, InputTypeOK, LineChars, Typed
<1>3. \A t \in Terms : t # v => term_buffer'[t] = term_buffer[t] /\ char_idx'[t] = char_idx[t]
  BY <1>1, <1>2 DEF KeyChar, KeyEnter, KeyBackspace, Put
<1>4. Len(Line(b, c)) = c
  BY <1>1, LineIsSequence
<1>5. CASE KeyChar
  <2>1. PICK x \in Chars : Put(v, c, x)
    BY <1>5 DEF KeyChar
  <2>2. term_buffer'[v] = [b EXCEPT ![c] = x] /\ char_idx'[v] = c + 1 /\ c < BUFFER_SIZE - 1
    BY <1>1, <1>2, <1>5, <2>1 DEF KeyChar, Put
  <2>3. Line(term_buffer'[v], char_idx'[v]) = Append(Line(b, c), x)
    <3>1. \A i \in 1 .. c + 1 : [b EXCEPT ![c] = x][i - 1] = IF i = c + 1 THEN x ELSE b[i - 1]
      BY <1>1 DEF Cells
    <3> HIDE DEF b, c
    <3>2. Append(Line(b, c), x) = [i \in 1 .. c + 1 |-> IF i = c + 1 THEN x ELSE b[i - 1]]
      BY <1>1, LineIsSequence
    <3> QED
      BY <2>2, <3>1, <3>2 DEF Line
  <2>4. Typed' = [Typed EXCEPT ![v] = Append(Typed[v], x)]
    BY <1>1, <1>2, <1>3, <2>3, TypedChanges
  <2>5. enter_flag' = enter_flag
    BY <1>5 DEF KeyChar
  <2>6. Len(Typed[v]) < BUFFER_SIZE - 1
    BY <1>2, <1>4, <2>2
  <2>7. v \in Terms /\ ~enter_flag[v] /\ x \in Chars /\ UNCHANGED <<enter_flag, got>>
    BY <1>1, <2>1, <2>5
  <2> HIDE DEF v
  <2> QED
    BY <2>4, <2>6, <2>7 DEF L!Type, L!Edit, Typed, Line
<1>6. CASE KeyEnter
  <2>1. ~(c >= BUFFER_SIZE)
    BY <1>1
  <2>2. Put(v, c, Newline) /\ char_idx' = char_idx
    BY <1>6, <2>1 DEF KeyEnter
  <2>3. term_buffer'[v] = [b EXCEPT ![c] = Newline]
    BY <1>1, <1>2, <2>2 DEF Put
  <2>4. \A i \in 1 .. c : [b EXCEPT ![c] = Newline][i - 1] = b[i - 1]
    BY <1>1 DEF Cells
  <2>5. Line(term_buffer'[v], char_idx'[v]) = Line(b, c)
    BY <2>2, <2>3, <2>4 DEF Line
  <2>6. Typed' = [Typed EXCEPT ![v] = Line(b, c)]
    BY <1>1, <1>3, <2>5, TypedChanges
  <2>7. Typed' = Typed
    BY <1>1, <1>2, <2>6 DEF Typed
  <2> QED
    BY <1>1, <1>6, <2>7 DEF KeyEnter, L!Complete, Typed, Line
<1>7. CASE KeyBackspace
  <2>1. char_idx'[v] = c - 1 /\ c > 0 /\ term_buffer'[v] = [b EXCEPT ![c - 1] = Space]
    BY <1>1, <1>2, <1>7 DEF KeyBackspace, Put
  <2>2. Line(term_buffer'[v], char_idx'[v]) = SubSeq(Line(b, c), 1, c - 1)
    <3>1. \A i \in 1 .. c - 1 : [b EXCEPT ![c - 1] = Space][i - 1] = b[i - 1]
      BY <1>1 DEF Cells
    <3>2. Line(term_buffer'[v], char_idx'[v]) = [i \in 1 .. c - 1 |-> b[i - 1]]
      BY <2>1, <3>1 DEF Line
    <3>3. SubSeq(Line(b, c), 1, c - 1) = [i \in 1 .. c - 1 |-> b[i - 1]]
      BY <1>1, <2>1 DEF Line
    <3> QED
      BY <3>2, <3>3
  <2>3. Typed' = [Typed EXCEPT ![v] = SubSeq(Typed[v], 1, Len(Typed[v]) - 1)]
    BY <1>1, <1>2, <1>3, <1>4, <2>2, TypedChanges
  <2>4. Typed[v] # <<>>
    BY <1>2, <1>4, <2>1
  <2> QED
    BY <1>1, <1>7, <2>3, <2>4 DEF KeyBackspace, L!Erase, L!Edit, Typed, Line
<1> QED
  BY <1>5, <1>6, <1>7

LEMMA ReadDelivers ==
    ASSUME LineInv, LineInv', FinishRead
    PROVE  \E t \in Terms : L!Deliver(t)
<1> DEFINE t == active_terminal
           n == request[t]
           b == term_buffer[t]
           c == char_idx[t]
<1>1. /\ t \in Terms /\ enter_flag[t] /\ n \in Sizes /\ n \in Nat /\ InputInv /\ InputInv'
      /\ b \in [Cells -> LineChars] /\ c \in Cells /\ TypedLine(t)
  BY TerminalInputAssumption
     DEF LineInv, InputInv, InputTypeOK, TurnsTypeOK, ReadyHasLine, FinishRead, LineChars
<1>2. LET s == L!Cut(Append(Line(b, c), Newline), n)
      IN  Text(b, n) = s /\ ReadBytes(b, n) = Len(s)
  BY <1>1, ReadTakesLine DEF TypedLine
<1>3. got' = [to |-> t, bytes |-> ReadBytes(b, n), text |-> Text(b, n)]
  BY DEF FinishRead
<1>4. Typed' = [Typed EXCEPT ![t] = <<>>]
  <2>1. \A u \in Terms : u # t => term_buffer'[u] = term_buffer[u] /\ char_idx'[u] = char_idx[u]
    BY <1>1 DEF FinishRead, InputInv, InputTypeOK
  <2>2. char_idx'[t] = 0
    BY <1>1 DEF FinishRead, InputInv, InputTypeOK
  <2>3. Line(term_buffer'[t], char_idx'[t]) = <<>>
    BY <2>2 DEF Line
  <2> QED
    BY <1>1, <2>1, <2>3, TypedChanges
<1>5. enter_flag' = [enter_flag EXCEPT ![t] = FALSE]
  BY DEF FinishRead
<1>6. Typed[t] = Line(b, c)
  BY <1>1 DEF Typed
<1> HIDE DEF t, n, b, c
<1> QED
  BY <1>1, <1>2, <1>3, <1>4, <1>5, <1>6 DEF L!Deliver, Typed, Line

\* For users who wait for their line to be taken, terminal_read() delivers what
\* was typed and edited at its terminal, whole, once and with its newline, for
\* every size of buffers and reads and whatever else the terminals do.
THEOREM ReadsDeliverLines ==
    ASSUME ~TypeAhead
    PROVE  InputSpec => ImplementsLines
<1>1. InputInit => LineInv
  BY InputInitInv, TerminalsAssumption DEF LineInv, TypedLine, InputInit
<1>2. InputInit => L!LinesInit
  <2> SUFFICES ASSUME InputInit PROVE L!LinesInit
    OBVIOUS
  <2>1. \A t \in Terms : [i \in 1 .. char_idx[t] |-> term_buffer[t][i - 1]] = <<>>
    BY DEF InputInit
  <2> QED
    BY <2>1 DEF InputInit, L!LinesInit
<1>3. LineInv /\ LineInv' /\ [InputNext]_inputVars => [L!LinesNext]_(L!linesVars)
  <2> SUFFICES ASSUME LineInv, LineInv', [InputNext]_inputVars
               PROVE  [L!LinesNext]_(L!linesVars)
    OBVIOUS
  <2>1. CASE KeyChar \/ KeyEnter \/ KeyBackspace
    BY <2>1, KeysEditLine DEF L!LinesNext
  <2>2. CASE FinishRead
    BY <2>2, ReadDelivers DEF L!LinesNext
  <2>3. CASE ~(KeyChar \/ KeyEnter \/ KeyBackspace \/ FinishRead)
    <3>1. UNCHANGED <<keyVars, got>>
      BY <2>3 DEF InputNext, StartRead, SeeEnter, BootShell, AskTerminal, ScheduleProcess,
                  ScheduleAndKill, inputVars, readVars
    <3> QED
      BY <3>1 DEF keyVars, L!linesVars
  <2> QED
    BY <2>1, <2>2, <2>3
<1>4. InputSpec => []LineInv
  BY <1>1, LineInductive, PTL DEF InputSpec
<1> QED
  BY <1>2, <1>3, <1>4, PTL DEF InputSpec, ImplementsLines, L!LinesSpec
=============================================================================
