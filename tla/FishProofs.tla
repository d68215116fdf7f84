----------------------------- MODULE FishProofs -----------------------------
(***************************************************************************)
(* Proofs about Blink and Fish.  On a screen and in an array of any size   *)
(* the list of blink.S is a stack of blinkers, and what fish puts on it    *)
(* from any two pictures are the places where one of them is not blank.    *)
(*                                                                         *)
(* While fish reads, the invariant says of each file where its line began  *)
(* and how many of its characters were read, or that it has ended and      *)
(* where the next one begins; and of the stack that it is what the         *)
(* pictures hold up to the place that is looked at.                        *)
(***************************************************************************)
EXTENDS ProgramProofs, SequenceTheorems

\* Induction over the numbers, in a form without a predicate.
LEMMA NatInduction1 ==
    ASSUME NEW T \in SUBSET Nat, 0 \in T, \A n \in T : n + 1 \in T
    PROVE  T = Nat
<1> DEFINE U == Nat \ T
<1>1. ASSUME U # {} PROVE FALSE
  <2>1. U \in SUBSET Nat
    OBVIOUS
  <2>2. PICK k \in U : \A j \in U : k <= j
    <3> HIDE DEF U
    <3> QED
      BY <1>1, <2>1, LeastExists
  <2>3. k \in Nat /\ k # 0 /\ k - 1 \in Nat
    BY <2>2
  <2>4. k - 1 \in U
    <3>1. k - 1 \in T => k - 1 + 1 \in T
      OBVIOUS
    <3> QED
      BY <2>2, <2>3, <3>1
  <2>5. ~(k <= k - 1)
    BY <2>3
  <2> QED
    BY <2>2, <2>4, <2>5
<1> QED
  BY <1>1

\* f is the recursive function of List up to m.
IsUpTo(array, m, f) ==
    f = [n \in 0 .. m |->
            [i \in Slots \cup {NULL} |->
                IF i = NULL \/ n = 0 THEN <<>> ELSE <<i>> \o f[n - 1][array[i].next]]]

LEMMA UpToExists ==
    ASSUME NEW array, NEW m \in Nat
    PROVE  \E f : IsUpTo(array, m, f)
<1> DEFINE T == {n \in Nat : \E f : IsUpTo(array, n, f)}
<1>1. 0 \in T
  <2> DEFINE f == [n \in 0 .. 0 |-> [i \in Slots \cup {NULL} |-> <<>>]]
  <2>1. IsUpTo(array, 0, f)
    BY DEF IsUpTo
  <2> QED
    BY <2>1
<1>2. ASSUME NEW n \in T PROVE n + 1 \in T
  <2>1. PICK f : IsUpTo(array, n, f)
    OBVIOUS
  <2> DEFINE final == [i \in Slots \cup {NULL} |->
                        IF i = NULL THEN <<>> ELSE <<i>> \o f[n][array[i].next]]
             g == [k \in 0 .. n + 1 |-> IF k = n + 1 THEN final ELSE f[k]]
             h == [k \in 0 .. n + 1 |->
                    [i \in Slots \cup {NULL} |->
                        IF i = NULL \/ k = 0 THEN <<>> ELSE <<i>> \o g[k - 1][array[i].next]]]
  <2>2. ASSUME NEW k \in 0 .. n + 1 PROVE g[k] = h[k]
    <3>1. CASE k = n + 1
      <4>1. g[k] = final /\ g[k - 1] = f[n] /\ k # 0
        BY <3>1
      <4> QED
        BY <4>1
    <3>2. CASE k \in 0 .. n
      <4>1. g[k] = f[k] /\ (k # 0 => g[k - 1] = f[k - 1])
        BY <3>2
      <4>2. f[k] = [i \in Slots \cup {NULL} |->
                        IF i = NULL \/ k = 0 THEN <<>> ELSE <<i>> \o f[k - 1][array[i].next]]
        BY <2>1, <3>2 DEF IsUpTo
      <4> QED
        BY <4>1, <4>2
    <3>3. n \in Nat
      OBVIOUS
    <3>4. k = n + 1 \/ k \in 0 .. n
      BY <3>3
    <3> QED
      BY <3>1, <3>2, <3>4
  <2>3. g = h
    BY <2>2
  <2>4. IsUpTo(array, n + 1, g)
    BY <2>3 DEF IsUpTo
  <2> QED
    BY <2>4
<1> HIDE DEF T
<1>3. T = Nat
  <2>1. T \in SUBSET Nat
    BY DEF T
  <2> QED
    BY <1>1, <1>2, <2>1, NatInduction1
<1> QED
  BY <1>3 DEF T

LEMMA ListUpTo ==
    ASSUME NEW array, NEW head
    PROVE  \E f : IsUpTo(array, SLOTS, f) /\ ListFrom(array, head) = f[SLOTS][head]
<1> DEFINE P(f) == IsUpTo(array, SLOTS, f)
           c == CHOOSE f : P(f)
<1>1. \E f : P(f)
  BY UpToExists, BlinkAssumption
<1>2. P(c)
  <2> HIDE DEF P
  <2> QED
    BY <1>1
<1>3. ListFrom(array, head) = c[SLOTS][head]
  BY DEF ListFrom, IsUpTo
<1> HIDE DEF c
<1> QED
  BY <1>2, <1>3

\* s is the list in this array: no structure is in it twice, and in it are those in
\* use.
Links(s, array, head) ==
    /\ head = IF s = <<>> THEN NULL ELSE s[1]
    /\ \A i \in 1 .. Len(s) : array[s[i]].next = IF i = Len(s) THEN NULL ELSE s[i + 1]
    /\ \A i, j \in 1 .. Len(s) : s[i] = s[j] => i = j
    /\ \A slot \in Slots : array[slot].location # 0 <=> \E i \in 1 .. Len(s) : s[i] = slot

LEMMA LengthFits ==
    ASSUME NEW s \in Seq(Slots), \A i, j \in 1 .. Len(s) : s[i] = s[j] => i = j
    PROVE  /\ Len(s) \in Nat /\ Len(s) <= SLOTS
           /\ Len(s) = SLOTS <=> \A slot \in Slots : \E i \in 1 .. Len(s) : s[i] = slot
<1>1. s \in [1 .. Len(s) -> Slots] /\ Len(s) \in Nat
  BY LenProperties
<1>2. s \in Injection(1 .. Len(s), Slots)
  BY <1>1 DEF Injection, IsInjective
<1>3. /\ IsFiniteSet(Slots) /\ Cardinality(Slots) = SLOTS
      /\ IsFiniteSet(1 .. Len(s)) /\ Cardinality(1 .. Len(s)) = Len(s)
  <2>1. SLOTS \in Nat /\ SLOTS - 1 \in Int /\ Slots = 0 .. SLOTS - 1
    BY BlinkAssumption DEF Slots
  <2>2. IsFiniteSet(Slots) /\ Cardinality(Slots) = SLOTS
    <3>1. /\ IsFiniteSet(0 .. SLOTS - 1)
          /\ Cardinality(0 .. SLOTS - 1) = IF 0 > SLOTS - 1 THEN 0 ELSE (SLOTS - 1) - 0 + 1
      BY <2>1, FS_Interval
    <3> QED
      BY <2>1, <3>1
  <2>3. IsFiniteSet(1 .. Len(s)) /\ Cardinality(1 .. Len(s)) = Len(s)
    <3>1. /\ IsFiniteSet(1 .. Len(s))
          /\ Cardinality(1 .. Len(s)) = IF 1 > Len(s) THEN 0 ELSE Len(s) - 1 + 1
      BY SMTT(20), <1>1, FS_Interval
    <3> QED
      BY <1>1, <3>1
  <2> QED
    BY <2>2, <2>3
<1>4. Len(s) <= SLOTS /\ (Len(s) = SLOTS <=> s \in Surjection(1 .. Len(s), Slots))
  BY <1>2, <1>3, FS_Injection
<1>5. s \in Surjection(1 .. Len(s), Slots) <=>
        \A slot \in Slots : \E i \in 1 .. Len(s) : s[i] = slot
  BY <1>1 DEF Surjection
<1> QED
  BY <1>1, <1>4, <1>5

\* Walking along the list finds it.
LEMMA ListIs ==
    ASSUME NEW s \in Seq(Slots), NEW array, NEW head, Links(s, array, head)
    PROVE  ListFrom(array, head) = s
<1> DEFINE L == Len(s)
           top(k) == IF k = 0 THEN NULL ELSE s[L - k + 1]
           rest(k) == SubSeq(s, L - k + 1, L)
<1>1. L \in Nat /\ L <= SLOTS /\ SLOTS \in Nat
  BY LengthFits, BlinkAssumption DEF Links
<1>2. PICK f : IsUpTo(array, SLOTS, f) /\ ListFrom(array, head) = f[SLOTS][head]
  BY ListUpTo
<1>3. \A n \in 0 .. SLOTS : f[n] = [i \in Slots \cup {NULL} |->
          IF i = NULL \/ n = 0 THEN <<>> ELSE <<i>> \o f[n - 1][array[i].next]]
  BY <1>2 DEF IsUpTo
<1>4. \A i \in Slots : i # NULL
  BY BlinkAssumption DEF Slots, NULL
<1> DEFINE T == {k \in Nat : \A n \in 0 .. SLOTS : k <= L /\ k <= n => f[n][top(k)] = rest(k)}
<1>5. 0 \in T
  <2>1. rest(0) = <<>>
    BY <1>1, SubSeqEmpty
  <2>2. \A n \in 0 .. SLOTS : f[n][NULL] = <<>>
    BY <1>3
  <2> QED
    BY <2>1, <2>2
<1>6. ASSUME NEW k \in T PROVE k + 1 \in T
  <2> SUFFICES ASSUME NEW n \in 0 .. SLOTS, k + 1 <= L, k + 1 <= n
               PROVE  f[n][top(k + 1)] = rest(k + 1)
    <3>1. k + 1 \in Nat
      OBVIOUS
    <3> HIDE DEF top, rest
    <3> QED
      BY <3>1
  <2>0. k \in Nat /\ k <= L /\ n - 1 \in 0 .. SLOTS /\ k <= n - 1 /\ n # 0
    BY <1>1
  <2>1. f[n - 1][top(k)] = rest(k)
    BY <2>0
  <2> DEFINE m == L - k
  <2>2. m \in 1 .. L /\ L - (k + 1) + 1 = m /\ L - k + 1 = m + 1 /\ (m = L <=> k = 0) /\ k + 1 # 0
    BY <1>1, <2>0
  <2>3. top(k + 1) = s[m] /\ s[m] \in Slots
    <3>1. s[m] \in Slots
      BY <2>2, ElementOfSeq
    <3> QED
      BY <2>2, <3>1
  <2>4. array[s[m]].next = top(k)
    BY <2>2 DEF Links
  <2>5. f[n][s[m]] = <<s[m]>> \o f[n - 1][array[s[m]].next]
    BY ZenonT(40), <1>3, <1>4, <2>0, <2>3
  <2>6. SubSeq(s, m, L) = <<s[m]>> \o SubSeq(s, m + 1, L)
    <3>1. L \in m .. L
      <4> HIDE DEF L, m
      <4> QED
        BY <1>1, <2>2
    <3> QED
      BY <2>2, <3>1, SubSeqRecursiveFirst
  <2>7. rest(k + 1) = SubSeq(s, m, L) /\ rest(k) = SubSeq(s, m + 1, L)
    BY <2>2
  <2> QED
    BY <2>1, <2>3, <2>4, <2>5, <2>6, <2>7
<1>7. T = Nat
  <2>1. T \in SUBSET Nat
    OBVIOUS
  <2> HIDE DEF T
  <2> QED
    BY <1>5, <1>6, <2>1, NatInduction1
<1>8. f[SLOTS][top(L)] = rest(L)
  <2>1. SLOTS \in 0 .. SLOTS
    BY <1>1
  <2>2. L \in T
    <3> HIDE DEF T
    <3> QED
      BY <1>1, <1>7
  <2> QED
    BY <1>1, <2>1, <2>2
<1>9. head = top(L)
  <2>1. s = <<>> <=> L = 0
    BY EmptySeq
  <2> QED
    BY <1>1, <2>1 DEF Links
<1>10. rest(L) = s
  <2>1. L - L + 1 = 1
    BY <1>1
  <2> QED
    BY <2>1, SubSeqFull
<1> QED
  BY <1>2, <1>8, <1>9, <1>10

Structure ==
    [location : Halfwords, on_char : Chars, off_char : Chars, on_length : Lengths,
     off_length : Lengths, countdown : Int, status : {0, 1}, next : Slots \cup {NULL}]

Arrays == [Slots -> Structure]

\* The blinkers of a list in an array.
Seen(s, array) == [k \in 1 .. Len(s) |-> BlinkerOf(array[s[k]])]

\* The array holds one list, from its head to its end.
Listed(s) ==
    /\ s \in Seq(Slots)
    /\ blink_array \in Arrays
    /\ vmem \in [VmemCells -> Chars]
    /\ Links(s, blink_array, mp1_list_head)

BlinkInv == \E s : Listed(s)

LEMMA StackIs ==
    ASSUME NEW s, Listed(s)
    PROVE  List = s /\ Stack = Seen(s, blink_array)
<1>1. List = s
  BY ListIs DEF Listed, List
<1> QED
  BY <1>1 DEF Stack, Seen

LEMMA NextStackIs ==
    ASSUME NEW s, Listed(s)'
    PROVE  Stack' = Seen(s, blink_array')
<1>1. /\ s \in Seq(Slots) /\ Links(s, blink_array', mp1_list_head')
  BY DEF Listed, Links
<1>2. ListFrom(blink_array', mp1_list_head') = s
  BY <1>1, ListIs
<1>3. List' = s
  BY <1>2 DEF List, ListFrom
<1> QED
  BY <1>3 DEF Stack, Seen, BlinkerOf

LEMMA RemoveAtIs ==
    ASSUME NEW T, NEW s \in Seq(T), NEW k \in 1 .. Len(s)
    PROVE  /\ RemoveAt(s, k) \in Seq(T)
           /\ Len(RemoveAt(s, k)) = Len(s) - 1
           /\ \A j \in 1 .. Len(s) - 1 : RemoveAt(s, k)[j] = IF j < k THEN s[j] ELSE s[j + 1]
<1> DEFINE a == SubSeq(s, 1, k - 1)
           b == SubSeq(s, k + 1, Len(s))
<1>0. Len(s) \in Nat /\ \A i \in 1 .. Len(s) : s[i] \in T
  BY LenProperties
<1>1. /\ a \in Seq(T) /\ Len(a) = k - 1
      /\ \A j \in 1 .. k - 1 : a[j] = s[j]
  BY <1>0, SubSeqProperties
<1>2. /\ b \in Seq(T) /\ Len(b) = Len(s) - k
      /\ \A j \in 1 .. Len(s) - k : b[j] = s[k + j]
  BY <1>0, SubSeqProperties
<1> HIDE DEF a, b
<1>3. /\ a \o b \in Seq(T) /\ Len(a \o b) = Len(a) + Len(b)
      /\ \A i \in 1 .. Len(a) + Len(b) : (a \o b)[i] = IF i <= Len(a) THEN a[i] ELSE b[i - Len(a)]
  BY <1>1, <1>2, ConcatProperties
<1>4. Len(a) + Len(b) = Len(s) - 1
  BY <1>0, <1>1, <1>2
<1>5. ASSUME NEW j \in 1 .. Len(s) - 1
      PROVE  (a \o b)[j] = IF j < k THEN s[j] ELSE s[j + 1]
  <2>1. CASE j < k
    BY <1>0, <1>1, <1>3, <1>4, <2>1
  <2>2. CASE ~(j < k)
    <3>1. j - Len(a) \in 1 .. Len(s) - k /\ k + (j - Len(a)) = j + 1 /\ ~(j <= Len(a))
      BY <1>0, <1>1, <2>2
    <3> QED
      BY <1>2, <1>3, <1>4, <2>2, <3>1
  <2> QED
    BY <2>1, <2>2
<1>6. RemoveAt(s, k) = a \o b
  BY DEF RemoveAt, a, b
<1> QED
  BY <1>3, <1>4, <1>5, <1>6

\* What is needed of the numbers of 15, 16 and 8 bits.
LEMMA LengthsAre == Lengths \in SUBSET Nat /\ 0 \in Lengths
  BY SMTT(60) DEF Lengths

LEMMA HalfwordsAre == Halfwords \in SUBSET Nat /\ 0 \in Halfwords
  BY SMTT(60) DEF Halfwords

LEMMA NumbersAre ==
    /\ Lengths \in SUBSET Int /\ Lengths \in SUBSET Nat /\ Halfwords \in SUBSET Nat
    /\ 0 \in Lengths /\ 0 \in Halfwords
  BY LengthsAre, HalfwordsAre

LEMMA ZeroedIs == Zeroed \in Structure
  BY NumbersAre DEF Zeroed, Structure, Chars, NULL

LEMMA BlinkInitInv == BlinkInit => BlinkInv /\ B!BlinkersInit
<1> SUFFICES ASSUME BlinkInit PROVE BlinkInv /\ B!BlinkersInit
  OBVIOUS
<1>0. Len(<<>>) = 0 /\ <<>> \in Seq(Slots)
  BY EmptySeq
<1>1. Zeroed \in Structure
  BY ZeroedIs
<1>2. Listed(<<>>)
  <2>1. blink_array \in Arrays /\ \A slot \in Slots : blink_array[slot].location = 0
    BY <1>1 DEF BlinkInit, Arrays, Zeroed
  <2>2. vmem \in [VmemCells -> Chars]
    BY DEF BlinkInit, Chars
  <2> QED
    BY <1>0, <2>1, <2>2 DEF Listed, Links, BlinkInit
<1>3. Stack = Seen(<<>>, blink_array)
  BY <1>2, StackIs
<1>4. Seen(<<>>, blink_array) = <<>>
  BY <1>0 DEF Seen
<1>5. B!BlinkersInit
  BY <1>3, <1>4 DEF B!BlinkersInit, BlinkInit
<1> QED
  BY <1>2, <1>5 DEF BlinkInv

\* A call that fails.
LEMMA RefusedIs ==
    ASSUME NEW s, Listed(s), Refused
    PROVE  Listed(s)' /\ B!Refuse
<1>1. Listed(s)'
  BY DEF Listed, Links, Refused
<1>2. Stack' = Stack
  <2>1. Stack' = Seen(s, blink_array')
    BY <1>1, NextStackIs
  <2>2. blink_array' = blink_array
    BY DEF Refused
  <2> QED
    BY <2>1, <2>2, StackIs
<1> QED
  BY <1>1, <1>2 DEF B!Refuse, Refused

LEMMA StructsAre ==
    /\ CELLS \in Nat /\ SLOTS \in Nat
    /\ \A r : Fits(r) =>
            /\ r.location \in Halfwords /\ r.on_length \in Lengths
            /\ r.off_length \in Lengths /\ r.location \in Nat /\ r.on_length \in Int
            /\ r.on_char \in Chars /\ r.off_char \in Chars
<1>1. Halfwords \subseteq Nat /\ Lengths \subseteq Int
  BY NumbersAre
<1> QED
  BY <1>1, BlinkAssumption DEF Fits

LEMMA AddIs ==
    ASSUME NEW s, Listed(s), NEW r, Fits(r), r.location # 0, mp1_ioctl_add(r)
    PROVE  BlinkInv' /\ B!Add(New(r))
<1>0. /\ s \in Seq(Slots) /\ Len(s) \in Nat /\ Len(s) <= SLOTS
      /\ Len(s) = SLOTS <=> \A slot \in Slots : \E i \in 1 .. Len(s) : s[i] = slot
      /\ blink_array \in Arrays /\ SLOTS \in Nat
      /\ \A k \in 1 .. Len(s) : s[k] \in Slots
  BY LengthFits, ElementOfSeq, BlinkAssumption DEF Listed, Links
<1>l. \A slot \in Slots : blink_array[slot].location # 0 <=> \E k \in 1 .. Len(s) : s[k] = slot
  BY DEF Listed, Links
<1>v. Stack = Seen(s, blink_array) /\ Len(Stack) = Len(s)
  BY <1>0, StackIs DEF Seen
<1>p. New(r).at = r.location /\ (r.location < CELLS <=> r.location \in VmemCells)
  <2>1. r.location \in Nat /\ CELLS \in Nat
    BY StructsAre
  <2> QED
    BY <2>1 DEF New, VmemCells
<1>1. CASE r.location >= CELLS \/ \A i \in Slots : blink_array[i].location # 0
  <2>1. CASE Refused
    <3>1. Listed(s)' /\ B!Refuse
      BY <2>1, RefusedIs
    <3>2. New(r).at \notin VmemCells \/ Len(Stack) = SLOTS
      <4>1. r.location \in Nat /\ CELLS \in Nat
        BY StructsAre
      <4>2. CASE r.location >= CELLS
        BY <1>p, <4>1, <4>2
      <4>3. CASE \A i \in Slots : blink_array[i].location # 0
        BY <1>0, <1>l, <1>v, <4>3
      <4> QED
        BY <1>1, <4>2, <4>3
    <3> QED
      BY <3>1, <3>2 DEF BlinkInv, B!Add
  <2>2. CASE ~Refused
    <3>1. r.location < CELLS /\ \E i \in Slots : blink_array[i].location = 0
      BY <2>2 DEF mp1_ioctl_add, mp1_malloc
    <3>2. r.location \in Nat /\ CELLS \in Nat
      BY StructsAre
    <3> QED
      BY <1>1, <3>1, <3>2
  <2> QED
    BY <2>1, <2>2
<1>2. CASE ~(r.location >= CELLS \/ \A i \in Slots : blink_array[i].location # 0)
  <2> DEFINE b == [location |-> r.location, on_char |-> r.on_char, off_char |-> r.off_char,
                   on_length |-> r.on_length, off_length |-> r.off_length,
                   countdown |-> r.on_length, status |-> 1, next |-> mp1_list_head]
  <2>1. PICK i \in Slots : /\ mp1_malloc(i)
                          /\ blink_array' = [blink_array EXCEPT ![i] = b]
                          /\ mp1_list_head' = i
    BY <1>2 DEF mp1_ioctl_add
  <2>2. /\ r.location < CELLS /\ vmem' = [vmem EXCEPT ![r.location] = r.on_char] /\ eax' = 0
    BY <1>2 DEF mp1_ioctl_add
  <2>3. \A k \in 1 .. Len(s) : s[k] # i
    BY <1>l, <2>1 DEF mp1_malloc
  <2>h. mp1_list_head = IF s = <<>> THEN NULL ELSE s[1]
    BY DEF Listed, Links
  <2>e. s = <<>> <=> Len(s) = 0
    BY <1>0, EmptySeq
  <2>4. b \in Structure
    <3>1. /\ r.location \in Halfwords /\ r.on_length \in Lengths /\ r.off_length \in Lengths
          /\ r.on_length \in Int
      BY StructsAre
    <3>2. r.on_char \in Chars /\ r.off_char \in Chars
      BY StructsAre
    <3>3. mp1_list_head \in Slots \cup {NULL}
      BY <1>0, <2>h, <2>e
    <3> QED
      BY <3>1, <3>2, <3>3 DEF Structure
  <2>5. /\ blink_array' \in Arrays /\ blink_array'[i] = b
        /\ \A slot \in Slots \ {i} : blink_array'[slot] = blink_array[slot]
    BY <1>0, <2>1, <2>4 DEF Arrays
  <2> DEFINE t == <<i>> \o s
  <2>6. /\ t \in Seq(Slots) /\ Len(t) = Len(s) + 1 /\ t[1] = i
        /\ \A k \in 1 .. Len(s) : t[k + 1] = s[k]
    BY <1>0
  <2>i. b.next = mp1_list_head /\ b.location # 0 /\ BlinkerOf(b) = New(r)
    BY DEF BlinkerOf, New
  <2> HIDE DEF t, b
  <2>n. Len(s) \in Nat /\ Len(t) = Len(s) + 1
    BY <1>0, <2>6
  <2>k. \A k \in 1 .. Len(t) : k = 1 \/ \E j \in 1 .. Len(s) : k = j + 1 /\ t[k] = s[j]
    <3>1. \A k \in 1 .. Len(t) : k = 1 \/ (k - 1 \in 1 .. Len(s) /\ k = (k - 1) + 1)
      BY <2>n
    <3> QED
      BY <2>6, <3>1
  <2>7. Links(t, blink_array', mp1_list_head')
    <3>1. mp1_list_head' = IF t = <<>> THEN NULL ELSE t[1]
      <4>1. t # <<>>
        BY <1>0, <2>6, EmptySeq
      <4> QED
        BY <2>1, <2>6, <4>1
    <3>2. ASSUME NEW k \in 1 .. Len(t)
          PROVE  blink_array'[t[k]].next = IF k = Len(t) THEN NULL ELSE t[k + 1]
      <4>1. CASE k = 1
        <5>1. blink_array'[t[k]].next = mp1_list_head
          BY <2>5, <2>6, <2>i, <4>1
        <5>2. CASE Len(s) = 0
          BY <2>6, <2>e, <2>h, <4>1, <5>1, <5>2
        <5>3. CASE Len(s) # 0
          <6>1. 1 \in 1 .. Len(s) /\ k # Len(t)
            BY <1>0, <2>6, <4>1, <5>3
          <6>2. t[1 + 1] = s[1]
            BY <2>6, <6>1
          <6> QED
            BY <2>e, <2>h, <4>1, <5>1, <5>3, <6>1, <6>2
        <5> QED
          BY <5>2, <5>3
      <4>2. CASE k # 1
        <5>1. PICK j \in 1 .. Len(s) : k = j + 1 /\ t[k] = s[j]
          BY <2>k, <4>2
        <5>2. blink_array[s[j]].next = IF j = Len(s) THEN NULL ELSE s[j + 1]
          BY DEF Listed, Links
        <5>3. blink_array'[t[k]] = blink_array[s[j]]
          BY <1>0, <2>3, <2>5, <5>1
        <5>4. CASE j = Len(s)
          BY <2>6, <5>1, <5>2, <5>3, <5>4
        <5>5. CASE j # Len(s)
          <6>1. j + 1 \in 1 .. Len(s) /\ k # Len(t)
            BY <2>n, <5>1, <5>5
          <6>2. t[(j + 1) + 1] = s[j + 1]
            BY <2>6, <6>1
          <6> QED
            BY <5>1, <5>2, <5>3, <5>5, <6>1, <6>2
        <5> QED
          BY <5>4, <5>5
      <4> QED
        BY <4>1, <4>2
    <3>3. ASSUME NEW k \in 1 .. Len(t), NEW j \in 1 .. Len(t), t[k] = t[j] PROVE k = j
      <4>1. \A x, y \in 1 .. Len(s) : s[x] = s[y] => x = y
        BY DEF Listed, Links
      <4> QED
        BY <2>3, <2>6, <2>k, <3>3, <4>1, SMTT(30)
    <3>4. ASSUME NEW slot \in Slots
          PROVE  blink_array'[slot].location # 0 <=> \E k \in 1 .. Len(t) : t[k] = slot
      <4>1. CASE slot = i
        <5>1. 1 \in 1 .. Len(t)
          BY <1>0, <2>6
        <5> QED
          BY <2>5, <2>6, <2>i, <4>1, <5>1
      <4>2. CASE slot # i
        <5>1. (\E k \in 1 .. Len(t) : t[k] = slot) <=> \E k \in 1 .. Len(s) : s[k] = slot
          <6>1. \A k \in 1 .. Len(s) : k + 1 \in 1 .. Len(t)
            BY <1>0, <2>6
          <6> QED
            BY SMTT(20), <2>6, <2>k, <4>2, <6>1
        <5> QED
          BY <1>l, <2>5, <4>2, <5>1
      <4> QED
        BY <4>1, <4>2
    <3> QED
      BY <3>1, <3>2, <3>3, <3>4 DEF Links
  <2>8. vmem' \in [VmemCells -> Chars]
    <3>1. r.on_char \in Chars /\ vmem \in [VmemCells -> Chars]
      BY StructsAre DEF Listed
    <3> QED
      BY <2>2, <3>1
  <2>9. Listed(t)'
    BY <2>5, <2>6, <2>7, <2>8 DEF Listed, Links, Arrays
  <2>10. Stack' = <<New(r)>> \o Stack
    <3>1. Stack' = Seen(t, blink_array')
      BY <2>9, NextStackIs
    <3> DEFINE All == {BlinkerOf(c) : c \in Structure}
    <3>2. New(r) \in All
      BY <2>4, <2>i
    <3>3. \A k \in 1 .. Len(s) : BlinkerOf(blink_array[s[k]]) \in All
      BY <1>0 DEF Arrays
    <3> HIDE DEF All
    <3>4. Stack \in Seq(All)
      <4>1. Stack = [k \in 1 .. Len(s) |-> BlinkerOf(blink_array[s[k]])] /\ Len(s) \in Nat
        BY <1>0, <1>v DEF Seen
      <4> QED
        BY <3>3, <4>1
    <3>5. /\ Len(<<New(r)>> \o Stack) = Len(s) + 1
          /\ <<New(r)>> \o Stack \in Seq(All)
          /\ (<<New(r)>> \o Stack)[1] = New(r)
          /\ \A k \in 1 .. Len(s) : (<<New(r)>> \o Stack)[k + 1] = Stack[k]
      BY <1>0, <1>v, <3>2, <3>4
    <3> DEFINE u == <<New(r)>> \o Stack
    <3>6. ASSUME NEW k \in 1 .. Len(t) PROVE BlinkerOf(blink_array'[t[k]]) = u[k]
      <4>1. CASE k = 1
        BY <2>5, <2>6, <2>i, <3>5, <4>1
      <4>2. CASE k # 1
        <5>1. PICK j \in 1 .. Len(s) : k = j + 1 /\ t[k] = s[j]
          BY <2>k, <4>2
        <5>2. blink_array'[t[k]] = blink_array[s[j]]
          BY <1>0, <2>3, <2>5, <5>1
        <5>3. Stack[j] = BlinkerOf(blink_array[s[j]])
          BY <1>v DEF Seen
        <5> QED
          BY <3>5, <5>1, <5>2, <5>3
      <4> QED
        BY <4>1, <4>2
    <3>7. u = [k \in 1 .. Len(t) |-> u[k]]
      <4>1. u \in Seq(All) /\ Len(u) = Len(t)
        BY <2>6, <3>5
      <4> HIDE DEF u
      <4> QED
        BY <4>1
    <3> HIDE DEF u
    <3>8. Seen(t, blink_array') = u
      BY <3>6, <3>7 DEF Seen
    <3> QED
      BY <3>1, <3>8 DEF u
  <2>11. Len(Stack) < SLOTS
    BY <1>0, <1>v, <2>3
  <2>12. B!Face(New(r)) = r.on_char
    BY DEF B!Face, New
  <2> QED
    BY <1>p, <2>2, <2>9, <2>10, <2>11, <2>12 DEF BlinkInv, B!Add
<1> QED
  BY <1>1, <1>2

\* What is found in the list is the newest blinker of the stack.
LEMMA FindsIs ==
    ASSUME NEW s, Listed(s)
    PROVE  /\ DOMAIN Stack = 1 .. Len(s) /\ Len(Stack) = Len(s)
           /\ \A k \in 1 .. Len(s) : Stack[k] = BlinkerOf(blink_array[s[k]])
           /\ \A location, k : k \in 1 .. Len(s) /\ Finds(s, location, k) =>
                    B!Newest(Stack, location, k) /\ ~B!NoneAt(Stack, location)
           /\ \A location : FindsNone(s, location) => B!NoneAt(Stack, location)
<1>0. s \in Seq(Slots) /\ Len(s) \in Nat
  BY LenProperties DEF Listed
<1>1. Stack = [k \in 1 .. Len(s) |-> BlinkerOf(blink_array[s[k]])]
  BY StackIs DEF Seen
<1>2. \A k \in 1 .. Len(s) : Stack[k].at = blink_array[s[k]].location
  BY <1>1 DEF BlinkerOf
<1>3. ASSUME NEW location, NEW k \in 1 .. Len(s), Finds(s, location, k)
      PROVE  B!Newest(Stack, location, k) /\ ~B!NoneAt(Stack, location)
  <2>1. \A j \in 1 .. k - 1 : j \in 1 .. Len(s)
    BY <1>0
  <2> QED
    BY <1>1, <1>2, <1>3, <2>1 DEF Finds, B!Newest, B!NoneAt
<1>4. ASSUME NEW location, FindsNone(s, location) PROVE B!NoneAt(Stack, location)
  BY <1>1, <1>2, <1>4 DEF FindsNone, B!NoneAt
<1> QED
  BY <1>0, <1>1, <1>3, <1>4

LEMMA FindIs ==
    ASSUME NEW s, Listed(s), NEW location, mp1_ioctl_find(location)
    PROVE  BlinkInv' /\ B!Find(location)
<1>1. List = s
  BY StackIs
<1>2. CASE FindsNone(s, location) /\ Refused
  BY <1>2, FindsIs, RefusedIs DEF B!Find, BlinkInv
<1>3. CASE /\ \E k \in 1 .. Len(s) : Finds(s, location, k)
           /\ eax' = 0
           /\ UNCHANGED <<blink_array, mp1_list_head, vmem>>
  <2>1. Listed(s)'
    BY <1>3 DEF Listed, Links
  <2>2. Stack' = Stack
    <3>1. Stack' = Seen(s, blink_array')
      BY <2>1, NextStackIs
    <3> QED
      BY <1>3, <3>1, StackIs
  <2>3. ~B!NoneAt(Stack, location)
    BY <1>3, FindsIs
  <2> QED
    BY <1>3, <2>1, <2>2, <2>3 DEF B!Find, BlinkInv
<1> QED
  BY <1>1, <1>2, <1>3 DEF mp1_ioctl_find

\* A step that changes neither links nor locations.
LEMMA SameLinks ==
    ASSUME NEW s, Listed(s), blink_array' \in Arrays, UNCHANGED mp1_list_head,
           vmem' \in [VmemCells -> Chars],
           \A slot \in Slots : /\ blink_array'[slot].next = blink_array[slot].next
                              /\ blink_array'[slot].location = blink_array[slot].location
    PROVE  Listed(s)'
<1>1. s \in Seq(Slots) /\ \A k \in 1 .. Len(s) : s[k] \in Slots
  BY ElementOfSeq DEF Listed
<1>2. Links(s, blink_array', mp1_list_head')
  BY <1>1 DEF Listed, Links
<1> QED
  BY <1>1, <1>2 DEF Listed, Links, Arrays

\* Records in which several fields are replaced, and what they then are.
RhythmOf(r, on, off, left, lit) ==
    [r EXCEPT !.on_length = on, !.off_length = off, !.countdown = left, !.status = lit]
Toggle(r, left, lit) == [r EXCEPT !.countdown = left, !.status = lit]
Move(r, at, on, off) == [r EXCEPT !.at = at, !.on = on, !.off = off]
Change(r, lit, left) == [r EXCEPT !.lit = lit, !.left = left]

\* A structure that goes on in the rhythm of another.
LEMMA RhythmCopied ==
    ASSUME NEW r, NEW on, NEW off, NEW left, NEW lit,
           r = [location |-> r.location, on_char |-> r.on_char, off_char |-> r.off_char,
                on_length |-> r.on_length, off_length |-> r.off_length,
                countdown |-> r.countdown, status |-> r.status, next |-> r.next]
    PROVE  RhythmOf(r, on, off, left, lit) =
                [location |-> r.location, on_char |-> r.on_char, off_char |-> r.off_char,
                 on_length |-> on, off_length |-> off, countdown |-> left, status |-> lit,
                 next |-> r.next]
<1> DEFINE r1 == [r EXCEPT !.on_length = on]
           r2 == [r1 EXCEPT !.off_length = off]
           r3 == [r2 EXCEPT !.countdown = left]
           r4 == [r3 EXCEPT !.status = lit]
<1>1. r1 = [location |-> r.location, on_char |-> r.on_char, off_char |-> r.off_char,
           on_length |-> on, off_length |-> r.off_length, countdown |-> r.countdown,
           status |-> r.status, next |-> r.next]
  OBVIOUS
<1>2. r2 = [location |-> r.location, on_char |-> r.on_char, off_char |-> r.off_char,
           on_length |-> on, off_length |-> off, countdown |-> r.countdown,
           status |-> r.status, next |-> r.next]
  <2> HIDE DEF r1
  <2> QED
    BY <1>1
<1>3. r3 = [location |-> r.location, on_char |-> r.on_char, off_char |-> r.off_char,
           on_length |-> on, off_length |-> off, countdown |-> left, status |-> r.status,
           next |-> r.next]
  <2> HIDE DEF r2
  <2> QED
    BY <1>2
<1>4. r4 = [location |-> r.location, on_char |-> r.on_char, off_char |-> r.off_char,
           on_length |-> on, off_length |-> off, countdown |-> left, status |-> lit,
           next |-> r.next]
  <2> HIDE DEF r3
  <2> QED
    BY <1>3
<1> QED
  BY ONLY <1>4 DEF RhythmOf

\* One whose countdown has ended.
LEMMA Toggled ==
    ASSUME NEW r, NEW left, NEW lit,
           r = [location |-> r.location, on_char |-> r.on_char, off_char |-> r.off_char,
                on_length |-> r.on_length, off_length |-> r.off_length,
                countdown |-> r.countdown, status |-> r.status, next |-> r.next]
    PROVE  Toggle(r, left, lit) =
                [location |-> r.location, on_char |-> r.on_char, off_char |-> r.off_char,
                 on_length |-> r.on_length, off_length |-> r.off_length,
                 countdown |-> left, status |-> lit, next |-> r.next]
<1> DEFINE r1 == [r EXCEPT !.countdown = left]
           r2 == [r1 EXCEPT !.status = lit]
<1>1. r1 = [location |-> r.location, on_char |-> r.on_char, off_char |-> r.off_char,
           on_length |-> r.on_length, off_length |-> r.off_length, countdown |-> left,
           status |-> r.status, next |-> r.next]
  OBVIOUS
<1>2. r2 = [location |-> r.location, on_char |-> r.on_char, off_char |-> r.off_char,
           on_length |-> r.on_length, off_length |-> r.off_length, countdown |-> left,
           status |-> lit, next |-> r.next]
  <2> HIDE DEF r1
  <2> QED
    BY <1>1
<1> QED
  BY ONLY <1>2 DEF Toggle

\* A blinker with the rhythm of another.
LEMMA Moved ==
    ASSUME NEW r, NEW at, NEW on, NEW off,
           r = [at |-> r.at, on |-> r.on, off |-> r.off, on_for |-> r.on_for,
                off_for |-> r.off_for, left |-> r.left, lit |-> r.lit]
    PROVE  Move(r, at, on, off) =
                [at |-> at, on |-> on, off |-> off, on_for |-> r.on_for,
                 off_for |-> r.off_for, left |-> r.left, lit |-> r.lit]
<1> DEFINE r1 == [r EXCEPT !.at = at]
           r2 == [r1 EXCEPT !.on = on]
           r3 == [r2 EXCEPT !.off = off]
<1>1. r1 = [at |-> at, on |-> r.on, off |-> r.off, on_for |-> r.on_for,
           off_for |-> r.off_for, left |-> r.left, lit |-> r.lit]
  OBVIOUS
<1>2. r2 = [at |-> at, on |-> on, off |-> r.off, on_for |-> r.on_for,
           off_for |-> r.off_for, left |-> r.left, lit |-> r.lit]
  <2> HIDE DEF r1
  <2> QED
    BY <1>1
<1>3. r3 = [at |-> at, on |-> on, off |-> off, on_for |-> r.on_for, off_for |-> r.off_for,
           left |-> r.left, lit |-> r.lit]
  <2> HIDE DEF r2
  <2> QED
    BY <1>2
<1> QED
  BY ONLY <1>3 DEF Move

\* And one that changes.
LEMMA Changed ==
    ASSUME NEW r, NEW lit, NEW left,
           r = [at |-> r.at, on |-> r.on, off |-> r.off, on_for |-> r.on_for,
                off_for |-> r.off_for, left |-> r.left, lit |-> r.lit]
    PROVE  Change(r, lit, left) =
                [at |-> r.at, on |-> r.on, off |-> r.off, on_for |-> r.on_for,
                 off_for |-> r.off_for, left |-> left, lit |-> lit]
<1> DEFINE r1 == [r EXCEPT !.lit = lit]
           r2 == [r1 EXCEPT !.left = left]
<1>1. r1 = [at |-> r.at, on |-> r.on, off |-> r.off, on_for |-> r.on_for,
           off_for |-> r.off_for, left |-> r.left, lit |-> lit]
  OBVIOUS
<1>2. r2 = [at |-> r.at, on |-> r.on, off |-> r.off, on_for |-> r.on_for,
           off_for |-> r.off_for, left |-> left, lit |-> lit]
  <2> HIDE DEF r1
  <2> QED
    BY <1>1
<1> QED
  BY ONLY <1>2 DEF Change

LEMMA SyncIs ==
    ASSUME NEW s, Listed(s), NEW from, NEW to, mp1_ioctl_sync(from, to)
    PROVE  BlinkInv' /\ B!Sync(from, to)
<1>0. /\ List = s /\ s \in Seq(Slots) /\ blink_array \in Arrays /\ vmem \in [VmemCells -> Chars]
      /\ \A k \in 1 .. Len(s) : s[k] \in Slots
      /\ \A x, y \in 1 .. Len(s) : s[x] = s[y] => x = y
  BY StackIs, ElementOfSeq DEF Listed, Links
<1>1. CASE Refused /\ (FindsNone(s, from) \/ FindsNone(s, to))
  BY <1>1, FindsIs, RefusedIs DEF B!Sync, BlinkInv
<1>2. CASE \E j, k \in 1 .. Len(s) :
            LET source == blink_array[s[j]] IN
            /\ Finds(s, from, j) /\ Finds(s, to, k)
            /\ blink_array' = [blink_array EXCEPT ![s[k]] =
                    [@ EXCEPT !.on_length = source.on_length, !.off_length = source.off_length,
                              !.countdown = source.countdown, !.status = source.status]]
            /\ vmem' = [vmem EXCEPT ![to] = blink_array[s[k]].off_char]
            /\ eax' = 0
            /\ UNCHANGED mp1_list_head
  <2>1. PICK j \in 1 .. Len(s), k \in 1 .. Len(s) :
            LET source == blink_array[s[j]] IN
            /\ Finds(s, from, j) /\ Finds(s, to, k)
            /\ blink_array' = [blink_array EXCEPT ![s[k]] =
                    [@ EXCEPT !.on_length = source.on_length, !.off_length = source.off_length,
                              !.countdown = source.countdown, !.status = source.status]]
            /\ vmem' = [vmem EXCEPT ![to] = blink_array[s[k]].off_char]
            /\ eax' = 0
            /\ UNCHANGED mp1_list_head
    BY <1>2
  <2> DEFINE source == blink_array[s[j]]
             target == blink_array[s[k]]
             new == [target EXCEPT !.on_length = source.on_length,
                                   !.off_length = source.off_length,
                                   !.countdown = source.countdown, !.status = source.status]
  <2>2. source \in Structure /\ target \in Structure
    BY <1>0 DEF Arrays
  <2>3. /\ new \in Structure /\ new.next = target.next /\ new.location = target.location
        /\ BlinkerOf(new) = [BlinkerOf(source) EXCEPT !.at = target.location,
                                  !.on = target.on_char, !.off = target.off_char]
    <3> DEFINE fields == [location |-> target.location, on_char |-> target.on_char,
                          off_char |-> target.off_char, on_length |-> source.on_length,
                          off_length |-> source.off_length, countdown |-> source.countdown,
                          status |-> source.status, next |-> target.next]
    <3> HIDE DEF source, target
    <3>1. new = fields
      <4>1. target = [location |-> target.location, on_char |-> target.on_char,
                      off_char |-> target.off_char, on_length |-> target.on_length,
                      off_length |-> target.off_length, countdown |-> target.countdown,
                      status |-> target.status, next |-> target.next]
        BY <2>2 DEF Structure
      <4>2. new = RhythmOf(target, source.on_length, source.off_length, source.countdown,
                           source.status)
        BY ONLY TRUE DEF RhythmOf
      <4> HIDE DEF new
      <4> QED
        BY <4>1, <4>2, RhythmCopied
    <3>2. fields \in Structure
      BY <2>2 DEF Structure
    <3>3. BlinkerOf(fields) = [BlinkerOf(source) EXCEPT !.at = target.location,
                                  !.on = target.on_char, !.off = target.off_char]
      <4> DEFINE r == BlinkerOf(source)
      <4>1. /\ r = [at |-> r.at, on |-> r.on, off |-> r.off, on_for |-> r.on_for,
                    off_for |-> r.off_for, left |-> r.left, lit |-> r.lit]
            /\ r.on_for = source.on_length /\ r.off_for = source.off_length
            /\ r.left = source.countdown /\ r.lit = (source.status = 1)
        BY DEF BlinkerOf
      <4>2. BlinkerOf(fields) =
                [at |-> target.location, on |-> target.on_char, off |-> target.off_char,
                 on_for |-> r.on_for, off_for |-> r.off_for, left |-> r.left, lit |-> r.lit]
        <5>1. BlinkerOf(fields) =
                [at |-> fields.location, on |-> fields.on_char, off |-> fields.off_char,
                 on_for |-> fields.on_length, off_for |-> fields.off_length,
                 left |-> fields.countdown, lit |-> fields.status = 1]
          BY DEF BlinkerOf
        <5>2. /\ fields.location = target.location /\ fields.on_char = target.on_char
              /\ fields.off_char = target.off_char /\ fields.on_length = source.on_length
              /\ fields.off_length = source.off_length /\ fields.status = source.status
              /\ fields.countdown = source.countdown
          OBVIOUS
        <5> HIDE DEF r, fields
        <5> QED
          BY <4>1, <5>1, <5>2
      <4> HIDE DEF r, fields
      <4>3. BlinkerOf(fields) = [r EXCEPT !.at = target.location, !.on = target.on_char,
                                          !.off = target.off_char]
        <5>1. Move(r, target.location, target.on_char, target.off_char) = BlinkerOf(fields)
          BY <4>1, <4>2, Moved
        <5> QED
          BY ONLY <5>1 DEF Move
      <4> QED
        BY <4>3 DEF r
    <3>4. fields.next = target.next /\ fields.location = target.location
      OBVIOUS
    <3> HIDE DEF new, fields
    <3> QED
      BY <3>1, <3>2, <3>3, <3>4
  <2>4. blink_array' = [blink_array EXCEPT ![s[k]] = new]
    BY <2>1
  <2>v. vmem' = [vmem EXCEPT ![to] = target.off_char] /\ eax' = 0 /\ UNCHANGED mp1_list_head
        /\ Finds(s, from, j) /\ Finds(s, to, k)
    BY <2>1
  <2>t. target.location = to /\ target.off_char \in Chars
    BY <2>2, <2>v DEF Finds, Structure
  <2> HIDE DEF new, source, target
  <2>5. /\ blink_array' \in Arrays /\ blink_array'[s[k]] = new
        /\ \A slot \in Slots \ {s[k]} : blink_array'[slot] = blink_array[slot]
    BY <1>0, <2>3, <2>4 DEF Arrays
  <2>6. vmem' \in [VmemCells -> Chars]
    BY <1>0, <2>v, <2>t
  <2>7. \A slot \in Slots : /\ blink_array'[slot].next = blink_array[slot].next
                           /\ blink_array'[slot].location = blink_array[slot].location
    BY <1>0, <2>3, <2>5 DEF target
  <2>8. Listed(s)'
    BY <2>5, <2>6, <2>7, <2>v, SameLinks
  <2>9. Stack' = [x \in 1 .. Len(s) |-> BlinkerOf(blink_array'[s[x]])]
    BY <2>8, NextStackIs DEF Seen
  <2>10. /\ Stack = [x \in 1 .. Len(s) |-> BlinkerOf(blink_array[s[x]])]
    BY StackIs DEF Seen
  <2>11. \A x \in 1 .. Len(s) : x # k => blink_array'[s[x]] = blink_array[s[x]]
    BY <1>0, <2>5
  <2>12. Stack[j] = BlinkerOf(source) /\ Stack[k] = BlinkerOf(target)
    BY <2>10 DEF source, target
  <2>13. Stack[k].on = target.on_char /\ Stack[k].off = target.off_char
    BY <2>12 DEF BlinkerOf
  <2>14. Stack' = [Stack EXCEPT ![k] =
                    [Stack[j] EXCEPT !.at = to, !.on = Stack[k].on, !.off = Stack[k].off]]
    <3>1. BlinkerOf(new) = [Stack[j] EXCEPT !.at = to, !.on = Stack[k].on, !.off = Stack[k].off]
      BY <2>3, <2>t, <2>12, <2>13
    <3> DEFINE after == [Stack[j] EXCEPT !.at = to, !.on = Stack[k].on, !.off = Stack[k].off]
    <3> HIDE DEF after
    <3>2. BlinkerOf(new) = after
      BY <3>1 DEF after
    <3>3. [Stack EXCEPT ![k] = after] =
            [x \in 1 .. Len(s) |-> IF x = k THEN after ELSE BlinkerOf(blink_array[s[x]])]
      BY <2>10
    <3>4. \A x \in 1 .. Len(s) : BlinkerOf(blink_array'[s[x]]) =
                IF x = k THEN after ELSE BlinkerOf(blink_array[s[x]])
      BY <2>5, <2>11, <3>2
    <3>5. Stack' = [Stack EXCEPT ![k] = after]
      BY <2>9, <3>3, <3>4
    <3> QED
      BY <3>5 DEF after
  <2>15. /\ j \in DOMAIN Stack /\ k \in DOMAIN Stack
         /\ B!Newest(Stack, from, j) /\ B!Newest(Stack, to, k)
    BY <2>v, FindsIs
  <2>16. vmem' = [vmem EXCEPT ![to] = Stack[k].off]
    BY <2>v, <2>13
  <2> QED
    BY <2>v, <2>8, <2>14, <2>15, <2>16 DEF B!Sync, BlinkInv
<1> QED
  BY <1>0, <1>1, <1>2 DEF mp1_ioctl_sync

\* All the blinkers structures can be.
AnyBlinker == {BlinkerOf(c) : c \in Structure}

LEMMA RemoveIs ==
    ASSUME NEW s, Listed(s), NEW location, mp1_ioctl_remove(location)
    PROVE  BlinkInv' /\ B!Stop(location)
<1>0. /\ List = s /\ s \in Seq(Slots) /\ blink_array \in Arrays /\ vmem \in [VmemCells -> Chars]
      /\ Len(s) \in Nat /\ \A k \in 1 .. Len(s) : s[k] \in Slots
      /\ \A x, y \in 1 .. Len(s) : s[x] = s[y] => x = y
  BY StackIs, ElementOfSeq, LenProperties DEF Listed, Links
<1>l. /\ mp1_list_head = IF s = <<>> THEN NULL ELSE s[1]
      /\ \A x \in 1 .. Len(s) : blink_array[s[x]].next = IF x = Len(s) THEN NULL ELSE s[x + 1]
      /\ \A slot \in Slots : blink_array[slot].location # 0 <=> \E x \in 1 .. Len(s) : s[x] = slot
  BY DEF Listed, Links
<1>1. CASE FindsNone(s, location) /\ Refused
  BY <1>1, FindsIs, RefusedIs DEF B!Stop, BlinkInv
<1>2. CASE \E k \in 1 .. Len(s) :
            LET next == blink_array[s[k]].next IN
            /\ Finds(s, location, k)
            /\ IF k = 1 THEN mp1_list_head' = next /\ blink_array' = Removed(s[k])
               ELSE /\ blink_array' = [Removed(s[k]) EXCEPT ![s[k - 1]].next = next]
                    /\ UNCHANGED mp1_list_head
            /\ eax' = 0
            /\ UNCHANGED vmem
  <2>1. PICK k \in 1 .. Len(s) :
            /\ Finds(s, location, k)
            /\ IF k = 1 THEN /\ mp1_list_head' = blink_array[s[k]].next
                             /\ blink_array' = Removed(s[k])
               ELSE /\ blink_array' = [Removed(s[k]) EXCEPT ![s[k - 1]].next =
                                            blink_array[s[k]].next]
                    /\ UNCHANGED mp1_list_head
            /\ eax' = 0
            /\ UNCHANGED vmem
    BY <1>2
  <2> DEFINE i == s[k]
             next == blink_array[s[k]].next
             t == RemoveAt(s, k)
  <2>2. /\ t \in Seq(Slots) /\ Len(t) = Len(s) - 1
        /\ \A j \in 1 .. Len(s) - 1 : t[j] = IF j < k THEN s[j] ELSE s[j + 1]
    BY <1>0, RemoveAtIs
  <2>3. i \in Slots /\ next = IF k = Len(s) THEN NULL ELSE s[k + 1]
    BY <1>0, <1>l
  <2>n. next \in Slots \cup {NULL}
    <3>1. k = Len(s) \/ k + 1 \in 1 .. Len(s)
      BY <1>0
    <3> QED
      BY <1>0, <2>3, <3>1
  <2> HIDE DEF t, next, i
  <2>4. Zeroed \in Structure /\ Zeroed.location = 0
    BY ZeroedIs DEF Zeroed
  <2>5. /\ Removed(i) \in Arrays /\ Removed(i)[i] = Zeroed
        /\ \A slot \in Slots \ {i} : Removed(i)[slot] = blink_array[slot]
    BY <1>0, <2>3, <2>4 DEF Arrays, Removed
  <2>6. /\ blink_array' \in Arrays /\ blink_array'[i].location = 0
        /\ \A slot \in Slots \ {i} :
                /\ blink_array'[slot].location = blink_array[slot].location
                /\ BlinkerOf(blink_array'[slot]) = BlinkerOf(blink_array[slot])
                /\ blink_array'[slot].next = IF k # 1 /\ slot = s[k - 1] THEN next
                                             ELSE blink_array[slot].next
    <3>1. CASE k = 1
      <4>1. blink_array' = Removed(i)
        BY <2>1, <3>1 DEF i
      <4> QED
        BY <2>4, <2>5, <3>1, <4>1
    <3>2. CASE k # 1
      <4>1. blink_array' = [Removed(i) EXCEPT ![s[k - 1]].next = next]
        BY <2>1, <3>2 DEF i, next
      <4>2. k - 1 \in 1 .. Len(s) /\ k - 1 # k
        BY <1>0, <3>2
      <4>3. PICK before \in Slots \ {i} : before = s[k - 1]
        BY <1>0, <4>2 DEF i
      <4>4. PICK old \in Structure : old = blink_array[before]
        BY <1>0 DEF Arrays
      <4> DEFINE new == [old EXCEPT !.next = next]
      <4>5. /\ new \in Structure /\ new.next = next /\ new.location = old.location
            /\ BlinkerOf(new) = BlinkerOf(old)
        <5>1. new \in Structure
          BY <2>n DEF Structure
        <5>2. /\ new.next = next /\ new.location = old.location /\ new.on_char = old.on_char
              /\ new.off_char = old.off_char /\ new.on_length = old.on_length
              /\ new.off_length = old.off_length /\ new.countdown = old.countdown
              /\ new.status = old.status
          BY DEF Structure
        <5> HIDE DEF new
        <5> QED
          BY <5>1, <5>2 DEF BlinkerOf
      <4>6. blink_array' = [Removed(i) EXCEPT ![before] = new]
        BY <2>5, <4>1, <4>3, <4>4
      <4> HIDE DEF new
      <4>7. /\ blink_array' \in Arrays /\ blink_array'[before] = new
            /\ \A slot \in Slots \ {before} : blink_array'[slot] = Removed(i)[slot]
        BY <2>5, <4>5, <4>6 DEF Arrays
      <4> QED
        BY <2>3, <2>4, <2>5, <3>2, <4>3, <4>4, <4>5, <4>7
    <3> QED
      BY <3>1, <3>2
  <2>7. \A j \in 1 .. Len(t) : \E x \in 1 .. Len(s) \ {k} :
            t[j] = s[x] /\ x = IF j < k THEN j ELSE j + 1
    <3> TAKE j \in 1 .. Len(t)
    <3>1. j \in 1 .. Len(s) - 1
      BY <1>0, <2>2
    <3>2. CASE j < k
      <4>1. j \in 1 .. Len(s) \ {k}
        BY <1>0, <3>1, <3>2
      <4> QED
        BY <2>2, <3>1, <3>2, <4>1
    <3>3. CASE ~(j < k)
      <4>1. j + 1 \in 1 .. Len(s) \ {k}
        BY <1>0, <3>1, <3>3
      <4> QED
        BY <2>2, <3>1, <3>3, <4>1
    <3> QED
      BY <3>2, <3>3
  <2>8. \A x \in 1 .. Len(s) \ {k} : \E j \in 1 .. Len(t) : t[j] = s[x]
    <3> TAKE x \in 1 .. Len(s) \ {k}
    <3>1. CASE x < k
      <4>1. x \in 1 .. Len(s) - 1
        BY <1>0, <3>1
      <4> QED
        BY <2>2, <3>1, <4>1
    <3>2. CASE ~(x < k)
      <4>1. x - 1 \in 1 .. Len(s) - 1 /\ ~(x - 1 < k) /\ (x - 1) + 1 = x
        BY <1>0, <3>2
      <4>2. t[x - 1] = s[x]
        BY <2>2, <4>1
      <4> QED
        BY <2>2, <4>1, <4>2
    <3> QED
      BY <3>1, <3>2
  <2>9. \A x \in 1 .. Len(s) \ {k} : s[x] \in Slots \ {i}
    BY <1>0 DEF i
  <2>10. Links(t, blink_array', mp1_list_head')
    <3>1. mp1_list_head' = IF t = <<>> THEN NULL ELSE t[1]
      <4>0. (s = <<>> <=> Len(s) = 0) /\ (t = <<>> <=> Len(t) = 0)
        BY <1>0, <2>2, EmptySeq
      <4>1. CASE k = 1
        <5>1. mp1_list_head' = next
          BY <2>1, <4>1 DEF next
        <5>2. CASE Len(s) = 1
          BY <2>2, <2>3, <4>0, <4>1, <5>1, <5>2
        <5>3. CASE Len(s) # 1
          <6>1. 1 \in 1 .. Len(s) - 1 /\ k # Len(s) /\ Len(t) # 0
            BY <1>0, <2>2, <4>1, <5>3
          <6>2. t[1] = s[2]
            BY <2>2, <4>1, <6>1
          <6> QED
            BY <2>3, <4>0, <4>1, <5>1, <6>1, <6>2
        <5> QED
          BY <5>2, <5>3
      <4>2. CASE k # 1
        <5>1. 1 \in 1 .. Len(s) - 1 /\ Len(s) # 0 /\ Len(t) # 0 /\ 1 < k
          BY <1>0, <2>2, <4>2
        <5>2. t[1] = s[1]
          BY <2>2, <5>1
        <5>3. UNCHANGED mp1_list_head
          BY <2>1, <4>2
        <5> QED
          BY <1>l, <4>0, <5>1, <5>2, <5>3
      <4> QED
        BY <4>1, <4>2
    <3>2. ASSUME NEW j \in 1 .. Len(t)
          PROVE  blink_array'[t[j]].next = IF j = Len(t) THEN NULL ELSE t[j + 1]
      <4>1. PICK x \in 1 .. Len(s) \ {k} : t[j] = s[x] /\ x = IF j < k THEN j ELSE j + 1
        BY <2>7
      <4>2. blink_array'[s[x]].next = IF k # 1 /\ s[x] = s[k - 1] THEN next
                                      ELSE blink_array[s[x]].next
        BY <2>6, <2>9
      <4>3. CASE k # 1 /\ x = k - 1
        <5>1. /\ j = k - 1 /\ (j = Len(t) <=> k = Len(s)) /\ j + 1 = k
              /\ (k # Len(s) => k \in 1 .. Len(s) - 1)
          BY <1>0, <2>2, <4>1, <4>3
        <5>2. k # Len(s) => t[k] = s[k + 1]
          BY <2>2, <5>1
        <5> QED
          BY <2>3, <4>1, <4>2, <4>3, <5>1, <5>2
      <4>4. CASE ~(k # 1 /\ x = k - 1)
        <5>1. ~(k # 1 /\ s[x] = s[k - 1])
          <6>1. k # 1 => k - 1 \in 1 .. Len(s)
            BY <1>0
          <6> QED
            BY <1>0, <4>4, <6>1
        <5>2. blink_array'[s[x]].next = IF x = Len(s) THEN NULL ELSE s[x + 1]
          BY <1>l, <4>2, <5>1
        <5>3. CASE j < k
          <6>1. /\ x = j /\ j # Len(s) /\ j # Len(t) /\ j + 1 < k /\ j + 1 \in 1 .. Len(s) - 1
            BY <1>0, <2>2, <4>1, <4>4, <5>3
          <6>2. t[j + 1] = s[j + 1]
            BY <2>2, <6>1
          <6> QED
            BY <4>1, <5>2, <6>1, <6>2
        <5>4. CASE ~(j < k)
          <6>1. /\ x = j + 1 /\ (x = Len(s) <=> j = Len(t))
                /\ (j # Len(t) => j + 1 \in 1 .. Len(s) - 1 /\ ~(j + 1 < k))
            BY <1>0, <2>2, <4>1, <5>4
          <6>2. j # Len(t) => t[j + 1] = s[x + 1]
            BY <2>2, <6>1
          <6> QED
            BY <4>1, <5>2, <6>1, <6>2
        <5> QED
          BY <5>3, <5>4
      <4> QED
        BY <4>3, <4>4
    <3>3. ASSUME NEW x \in 1 .. Len(t), NEW y \in 1 .. Len(t), t[x] = t[y] PROVE x = y
      <4>1. PICK u \in 1 .. Len(s) \ {k} : t[x] = s[u] /\ u = IF x < k THEN x ELSE x + 1
        BY <2>7
      <4>2. PICK v \in 1 .. Len(s) \ {k} : t[y] = s[v] /\ v = IF y < k THEN y ELSE y + 1
        BY <2>7
      <4>3. u = v
        BY <1>0, <3>3, <4>1, <4>2
      <4>4. x \in Int /\ y \in Int /\ u # k /\ v # k
        BY <2>2, <1>0
      <4> QED
        BY <4>1, <4>2, <4>3, <4>4
    <3>4. ASSUME NEW slot \in Slots
          PROVE  blink_array'[slot].location # 0 <=> \E j \in 1 .. Len(t) : t[j] = slot
      <4>1. CASE slot = i
        <5>1. ASSUME NEW j \in 1 .. Len(t) PROVE t[j] # i
          <6>1. PICK x \in 1 .. Len(s) \ {k} : t[j] = s[x]
            BY <2>7
          <6> QED
            BY <2>9, <6>1
        <5> QED
          BY <2>6, <4>1, <5>1
      <4>2. CASE slot # i
        <5>1. blink_array'[slot].location = blink_array[slot].location
          BY <2>6, <4>2
        <5>2. (\E x \in 1 .. Len(s) : s[x] = slot) <=> \E j \in 1 .. Len(t) : t[j] = slot
          BY <2>7, <2>8, <4>2 DEF i
        <5> QED
          BY <1>l, <5>1, <5>2
      <4> QED
        BY <4>1, <4>2
    <3> QED
      BY <3>1, <3>2, <3>3, <3>4 DEF Links
  <2>11. Listed(t)'
    BY <1>0, <2>1, <2>2, <2>6, <2>10 DEF Listed, Links, Arrays
  <2>12. Stack' = RemoveAt(Stack, k)
    <3>1. Stack' = [j \in 1 .. Len(t) |-> BlinkerOf(blink_array'[t[j]])]
      BY <2>11, NextStackIs DEF Seen
    <3>2. Stack = [x \in 1 .. Len(s) |-> BlinkerOf(blink_array[s[x]])]
      BY StackIs DEF Seen
    <3>3. \A x \in 1 .. Len(s) : BlinkerOf(blink_array[s[x]]) \in AnyBlinker
      BY <1>0 DEF Arrays, AnyBlinker
    <3>4. Stack \in Seq(AnyBlinker) /\ Len(Stack) = Len(s)
      BY <1>0, <3>2, <3>3
    <3> DEFINE u == RemoveAt(Stack, k)
    <3>5. /\ u \in Seq(AnyBlinker) /\ Len(u) = Len(s) - 1
          /\ \A j \in 1 .. Len(s) - 1 : u[j] = IF j < k THEN Stack[j] ELSE Stack[j + 1]
      BY <3>4, RemoveAtIs
    <3> HIDE DEF u
    <3>6. ASSUME NEW j \in 1 .. Len(t) PROVE BlinkerOf(blink_array'[t[j]]) = u[j]
      <4>1. PICK x \in 1 .. Len(s) \ {k} : t[j] = s[x] /\ x = IF j < k THEN j ELSE j + 1
        BY <2>7
      <4>2. BlinkerOf(blink_array'[s[x]]) = BlinkerOf(blink_array[s[x]])
        BY <2>6, <2>9
      <4>3. u[j] = Stack[x]
        BY <2>2, <3>5, <4>1
      <4>4. Stack[x] = BlinkerOf(blink_array[s[x]])
        BY <3>2
      <4> QED
        BY <4>1, <4>2, <4>3, <4>4
    <3>7. u = [j \in 1 .. Len(t) |-> u[j]]
      BY <2>2, <3>5
    <3>8. Stack' = u
      BY <3>1, <3>6, <3>7
    <3> QED
      BY <3>8 DEF u
  <2>13. k \in DOMAIN Stack /\ B!Newest(Stack, location, k)
    BY <2>1, FindsIs
  <2> QED
    BY <2>1, <2>11, <2>12, <2>13 DEF B!Stop, BlinkInv, B!RemoveAt, RemoveAt
<1> QED
  BY <1>0, <1>1, <1>2 DEF mp1_ioctl_remove

\* A tick of a structure is a tick of its blinker.
LEMMA TickedIs ==
    ASSUME NEW b \in Structure
    PROVE  /\ Ticked(b) \in Structure
           /\ Ticked(b).next = b.next /\ Ticked(b).location = b.location
           /\ BlinkerOf(Ticked(b)) = B!After(BlinkerOf(b))
           /\ Changes(b) <=> B!Due(BlinkerOf(b))
           /\ Changes(b) => B!Face(BlinkerOf(Ticked(b))) =
                                IF b.status = 1 THEN b.off_char ELSE b.on_char
<1> DEFINE r == BlinkerOf(b)
<1>1. /\ b.countdown \in Int /\ b.status \in {0, 1}
      /\ b.on_length \in Lengths /\ b.off_length \in Lengths
      /\ b = [location |-> b.location, on_char |-> b.on_char, off_char |-> b.off_char,
              on_length |-> b.on_length, off_length |-> b.off_length,
              countdown |-> b.countdown, status |-> b.status, next |-> b.next]
  BY DEF Structure
<1>2. /\ r = [at |-> r.at, on |-> r.on, off |-> r.off, on_for |-> r.on_for,
              off_for |-> r.off_for, left |-> r.left, lit |-> r.lit]
      /\ r.at = b.location /\ r.on = b.on_char /\ r.off = b.off_char
      /\ r.on_for = b.on_length /\ r.off_for = b.off_length
      /\ r.left = b.countdown /\ r.lit = (b.status = 1)
  BY DEF BlinkerOf
<1>3. Lengths \subseteq Int
  BY NumbersAre
<1> HIDE DEF r
<1>4. Changes(b) <=> B!Due(r)
  <2>1. r.left = b.countdown
    BY <1>2
  <2> QED
    BY <1>1, <2>1 DEF Changes, B!Due
<1>5. CASE ~Changes(b)
  <2>1. Ticked(b) = [b EXCEPT !.countdown = b.countdown - 1]
    BY <1>5 DEF Ticked
  <2>2. Ticked(b) = [location |-> b.location, on_char |-> b.on_char, off_char |-> b.off_char,
              on_length |-> b.on_length, off_length |-> b.off_length,
              countdown |-> b.countdown - 1, status |-> b.status, next |-> b.next]
    BY <1>1, <2>1
  <2>3. B!After(r) = [r EXCEPT !.left = r.left - 1]
    BY <1>4, <1>5 DEF B!After
  <2>4. B!After(r) = [at |-> r.at, on |-> r.on, off |-> r.off, on_for |-> r.on_for,
              off_for |-> r.off_for, left |-> r.left - 1, lit |-> r.lit]
    BY <1>2, <2>3
  <2>5. BlinkerOf(Ticked(b)) = B!After(r)
    <3> DEFINE q == Ticked(b)
    <3>1. /\ q.location = b.location /\ q.on_char = b.on_char /\ q.off_char = b.off_char
          /\ q.on_length = b.on_length /\ q.off_length = b.off_length
          /\ q.countdown = b.countdown - 1 /\ q.status = b.status
      BY <2>2
    <3> HIDE DEF q
    <3>2. BlinkerOf(q) = [at |-> r.at, on |-> r.on, off |-> r.off, on_for |-> r.on_for,
              off_for |-> r.off_for, left |-> r.left - 1, lit |-> r.lit]
      BY <1>2, <3>1 DEF BlinkerOf
    <3> QED
      BY <2>4, <3>2 DEF q
  <2>6. b.countdown - 1 \in Int
    BY <1>1
  <2>7. Ticked(b) \in Structure
    BY <2>2, <2>6 DEF Structure
  <2>8. Ticked(b).next = b.next /\ Ticked(b).location = b.location
    BY <2>2
  <2> QED
    BY <1>4, <1>5, <2>5, <2>7, <2>8 DEF r
<1>6. CASE Changes(b)
  <2> DEFINE length == IF b.status = 1 THEN b.off_length ELSE b.on_length
             status == IF b.status = 1 THEN 0 ELSE 1
  <2>1. Ticked(b) = Toggle(b, length, status)
    BY <1>6 DEF Ticked, Toggle
  <2>2. length \in Int /\ status \in {0, 1} /\ (status = 1) = ~(b.status = 1)
    BY <1>1, <1>3
  <2>l. length = IF r.lit THEN r.off_for ELSE r.on_for
    BY <1>2
  <2>s. (IF b.status = 1 THEN b.off_char ELSE b.on_char) = IF r.lit THEN r.off ELSE r.on
    BY <1>2
  <2> HIDE DEF length, status
  <2>3. Ticked(b) = [location |-> b.location, on_char |-> b.on_char, off_char |-> b.off_char,
              on_length |-> b.on_length, off_length |-> b.off_length,
              countdown |-> length, status |-> status, next |-> b.next]
    BY <1>1, <2>1, Toggled
  <2>4. B!After(r) = Change(r, ~r.lit, IF r.lit THEN r.off_for ELSE r.on_for)
    BY <1>4, <1>6 DEF B!After, Change
  <2>5. B!After(r) = [at |-> r.at, on |-> r.on, off |-> r.off, on_for |-> r.on_for,
              off_for |-> r.off_for, left |-> length, lit |-> ~r.lit]
    BY <1>2, <2>4, <2>l, Changed
  <2>6. BlinkerOf(Ticked(b)) = B!After(r)
    <3> DEFINE q == Ticked(b)
    <3>1. /\ q.location = b.location /\ q.on_char = b.on_char /\ q.off_char = b.off_char
          /\ q.on_length = b.on_length /\ q.off_length = b.off_length
          /\ q.countdown = length /\ q.status = status
      BY <2>3
    <3> HIDE DEF q
    <3>2. (q.status = 1) = ~r.lit
      BY <1>2, <2>2, <3>1
    <3>3. BlinkerOf(q) = [at |-> r.at, on |-> r.on, off |-> r.off, on_for |-> r.on_for,
              off_for |-> r.off_for, left |-> length, lit |-> ~r.lit]
      BY <1>2, <3>1, <3>2 DEF BlinkerOf
    <3> QED
      BY <2>5, <3>3 DEF q
  <2>7. Ticked(b) \in Structure
    BY <2>2, <2>3 DEF Structure
  <2>8. Ticked(b).next = b.next /\ Ticked(b).location = b.location
    BY <2>3
  <2>9. B!Face(B!After(r)) = IF r.lit THEN r.off ELSE r.on
    <3> DEFINE q == B!After(r)
    <3>1. q.on = r.on /\ q.off = r.off /\ q.lit = ~r.lit
      BY <2>5
    <3>2. r.lit \in BOOLEAN
      BY <1>2
    <3> HIDE DEF q
    <3>3. B!Face(q) = IF q.lit THEN q.on ELSE q.off
      BY DEF B!Face
    <3>4. CASE r.lit
      <4>1. ~q.lit
        BY <3>1, <3>4, Zenon
      <4> QED
        BY <3>1, <3>3, <3>4, <4>1, Zenon DEF q
    <3>5. CASE ~r.lit
      <4>1. q.lit
        BY <3>1, <3>5, Zenon
      <4> QED
        BY <3>1, <3>3, <3>5, <4>1, Zenon DEF q
    <3> QED
      BY <3>4, <3>5
  <2> QED
    BY <1>4, <1>6, <2>6, <2>7, <2>8, <2>9, <2>s DEF r
<1> QED
  BY <1>5, <1>6

\* f is the recursive function of mp1_rtc_tasklet() up to m.
IsPokes(list, m, f) ==
    f = [k \in 0 .. m |->
            IF k = 0 THEN vmem
            ELSE LET b == blink_array[list[k]] IN
                 IF ~Changes(b) THEN f[k - 1]
                 ELSE [f[k - 1] EXCEPT ![b.location] =
                          IF b.status = 1 THEN b.off_char ELSE b.on_char]]

\* What the k-th structure makes of a screen.
Poke(list, k, v) ==
    IF ~Changes(blink_array[list[k]]) THEN v
    ELSE [v EXCEPT ![blink_array[list[k]].location] =
             IF blink_array[list[k]].status = 1 THEN blink_array[list[k]].off_char
             ELSE blink_array[list[k]].on_char]

LEMMA PokesAre ==
    ASSUME NEW list, NEW m, NEW f
    PROVE  IsPokes(list, m, f) <=>
               f = [k \in 0 .. m |-> IF k = 0 THEN vmem ELSE Poke(list, k, f[k - 1])]
BY DEF IsPokes, Poke

LEMMA PokesExist ==
    ASSUME NEW list, NEW m \in Nat
    PROVE  \E f : IsPokes(list, m, f)
<1> DEFINE T == {n \in Nat : \E f : IsPokes(list, n, f)}
<1>1. 0 \in T
  <2> DEFINE f == [k \in 0 .. 0 |-> vmem]
  <2>1. f = [k \in 0 .. 0 |-> IF k = 0 THEN vmem ELSE Poke(list, k, f[k - 1])]
    OBVIOUS
  <2> HIDE DEF f
  <2>2. IsPokes(list, 0, f)
    BY <2>1, PokesAre
  <2> QED
    BY <2>2
<1>2. ASSUME NEW n \in T PROVE n + 1 \in T
  <2>1. PICK f : IsPokes(list, n, f)
    OBVIOUS
  <2>2. n \in Nat /\ f = [k \in 0 .. n |-> IF k = 0 THEN vmem ELSE Poke(list, k, f[k - 1])]
    BY <2>1, PokesAre
  <2> DEFINE g == [k \in 0 .. n + 1 |-> IF k = n + 1 THEN Poke(list, n + 1, f[n]) ELSE f[k]]
             h == [k \in 0 .. n + 1 |-> IF k = 0 THEN vmem ELSE Poke(list, k, g[k - 1])]
  <2>3. ASSUME NEW k \in 0 .. n + 1 PROVE g[k] = h[k]
    <3>1. CASE k = n + 1
      <4>1. /\ n \in 0 .. n + 1 /\ n # n + 1 /\ (n + 1) - 1 = n /\ n + 1 # 0
            /\ n + 1 \in 0 .. n + 1
        BY <2>2
      <4>2. g[n] = f[n] /\ g[n + 1] = Poke(list, n + 1, f[n])
        BY <4>1
      <4>3. h[n + 1] = Poke(list, n + 1, g[(n + 1) - 1])
        <5> HIDE DEF g
        <5> QED
          BY <4>1
      <4> HIDE DEF g, h
      <4> QED
        BY <3>1, <4>1, <4>2, <4>3
    <3>2. CASE k \in 0 .. n
      <4>1. k # n + 1 /\ (k # 0 => k - 1 \in 0 .. n /\ k - 1 \in 0 .. n + 1 /\ k - 1 # n + 1)
        BY <2>2, <3>2
      <4>2. g[k] = f[k] /\ (k # 0 => g[k - 1] = f[k - 1])
        BY <4>1
      <4>3. f[k] = IF k = 0 THEN vmem ELSE Poke(list, k, f[k - 1])
        BY <2>2, <3>2
      <4>4. h[k] = IF k = 0 THEN vmem ELSE Poke(list, k, g[k - 1])
        <5> HIDE DEF g
        <5> QED
          OBVIOUS
      <4> HIDE DEF g, h
      <4> QED
        BY <4>2, <4>3, <4>4
    <3>3. k = n + 1 \/ k \in 0 .. n
      BY <2>2
    <3> QED
      BY <3>1, <3>2, <3>3
  <2>4. g = h
    BY <2>3
  <2>5. IsPokes(list, n + 1, g)
    <3>1. g = [k \in 0 .. n + 1 |-> IF k = 0 THEN vmem ELSE Poke(list, k, g[k - 1])]
      <4> HIDE DEF g
      <4> QED
        BY <2>4
    <3> HIDE DEF g, h
    <3> QED
      BY <3>1, PokesAre
  <2>6. n + 1 \in Nat
    BY <2>2
  <2> HIDE DEF g, h
  <2> QED
    BY <2>5, <2>6
<1>3. T = Nat
  <2>1. T \in SUBSET Nat
    OBVIOUS
  <2> HIDE DEF T
  <2> QED
    BY <1>1, <1>2, <2>1, NatInduction1
<1> HIDE DEF T
<1>4. m \in T
  BY <1>3
<1> QED
  BY <1>4 DEF T

\* The structures that change at a cell, and what the k-th shows then.
Changing(list, k, c) ==
    {j \in 1 .. k : blink_array[list[j]].location = c /\ Changes(blink_array[list[j]])}
Shown(list, k) ==
    IF blink_array[list[k]].status = 1 THEN blink_array[list[k]].off_char
    ELSE blink_array[list[k]].on_char

\* The last poke of a cell is seen.
LEMMA LastPoke ==
    ASSUME NEW s \in Seq(Slots), blink_array \in Arrays, vmem \in [VmemCells -> Chars],
           NEW f, IsPokes(s, Len(s), f)
    PROVE  /\ f[Len(s)] \in [VmemCells -> Chars]
           /\ \A c \in VmemCells :
                \/ Changing(s, Len(s), c) = {} /\ f[Len(s)][c] = vmem[c]
                \/ \E j \in Changing(s, Len(s), c) :
                        /\ \A i \in Changing(s, Len(s), c) : j >= i
                        /\ f[Len(s)][c] = Shown(s, j)
<1> DEFINE L == Len(s)
           Right(k, v) ==
                /\ v \in [VmemCells -> Chars]
                /\ \A c \in VmemCells :
                    \/ Changing(s, k, c) = {} /\ v[c] = vmem[c]
                    \/ \E j \in Changing(s, k, c) :
                            /\ \A i \in Changing(s, k, c) : j >= i
                            /\ v[c] = Shown(s, j)
           T == {k \in Nat : k <= L => Right(k, f[k])}
<1>0. L \in Nat /\ \A k \in 1 .. L : s[k] \in Slots
  BY LenProperties
<1>1. \A k \in 0 .. L : f[k] = IF k = 0 THEN vmem ELSE Poke(s, k, f[k - 1])
  <2>1. f = [k \in 0 .. L |-> IF k = 0 THEN vmem ELSE Poke(s, k, f[k - 1])]
    BY PokesAre
  <2> HIDE DEF L
  <2> QED
    BY <2>1
<1>2. 0 \in T
  <2>1. f[0] = vmem
    BY <1>0, <1>1
  <2>2. \A c : Changing(s, 0, c) = {}
    BY DEF Changing
  <2> QED
    BY <2>1, <2>2
<1>3. ASSUME NEW k \in T PROVE k + 1 \in T
  <2>0. k \in Nat /\ k + 1 \in Nat
    OBVIOUS
  <2> SUFFICES ASSUME k + 1 <= L PROVE Right(k + 1, f[k + 1])
    BY <2>0
  <2>1. PICK n \in 1 .. L : n = k + 1
    BY <1>0, <2>0
  <2>2. Right(k, f[k]) /\ n - 1 = k /\ n # 0 /\ n \in 0 .. L
    BY <1>0, <2>0, <2>1
  <2>3. PICK b \in Structure : b = blink_array[s[n]]
    BY <1>0 DEF Arrays
  <2>4. \A c : Changing(s, n, c) = IF b.location = c /\ Changes(b)
                                     THEN Changing(s, k, c) \cup {n} ELSE Changing(s, k, c)
    <3>1. \A j : j \in 1 .. n <=> j \in 1 .. k \/ j = n
      BY <2>0, <2>1
    <3> QED
      BY <2>3, <3>1 DEF Changing
  <2>5. f[n] = Poke(s, n, f[k])
    BY <1>1, <2>2
  <2>6. \A c : \A j \in Changing(s, k, c) : n >= j
    BY <2>0, <2>1 DEF Changing
  <2> DEFINE v == f[k]
             w == f[n]
  <2> HIDE DEF T, v, w
  <2>7. CASE ~Changes(b)
    <3>1. w = v
      BY <2>3, <2>5, <2>7 DEF Poke, v, w
    <3>2. \A c : Changing(s, n, c) = Changing(s, k, c)
      BY <2>4, <2>7
    <3>3. Right(k, v)
      BY <2>2 DEF v
    <3>4. Right(n, v)
      BY <3>2, <3>3
    <3> QED
      BY <2>1, <3>1, <3>4 DEF w
  <2>8. CASE Changes(b)
    <3> DEFINE seen == IF b.status = 1 THEN b.off_char ELSE b.on_char
    <3>1. w = [v EXCEPT ![b.location] = seen]
      BY <2>3, <2>5, <2>8 DEF Poke, v, w
    <3>2. seen \in Chars
      BY DEF Structure
    <3>3. seen = Shown(s, n)
      BY <2>3 DEF Shown
    <3>4. Right(k, v)
      BY <2>2 DEF v
    <3> HIDE DEF seen
    <3>5. /\ w \in [VmemCells -> Chars]
          /\ \A c \in VmemCells : w[c] = IF c = b.location THEN seen ELSE v[c]
      BY <3>1, <3>2, <3>4
    <3>6. ASSUME NEW c \in VmemCells
          PROVE  \/ Changing(s, n, c) = {} /\ w[c] = vmem[c]
                 \/ \E j \in Changing(s, n, c) :
                        /\ \A i \in Changing(s, n, c) : j >= i
                        /\ w[c] = Shown(s, j)
      <4>1. CASE c = b.location
        <5>1. Changing(s, n, c) = Changing(s, k, c) \cup {n}
          BY <2>4, <2>8, <4>1
        <5>2. \A i \in Changing(s, n, c) : n >= i
          BY <2>1, <2>6, <5>1
        <5>3. w[c] = Shown(s, n)
          BY <3>3, <3>5, <4>1
        <5> QED
          BY <5>1, <5>2, <5>3
      <4>2. CASE c # b.location
        <5>1. Changing(s, n, c) = Changing(s, k, c) /\ w[c] = v[c]
          BY <2>4, <3>5, <4>2
        <5> QED
          BY <3>4, <5>1
      <4> QED
        BY <4>1, <4>2
    <3>7. Right(n, w)
      BY <3>5, <3>6
    <3> QED
      BY <2>1, <3>7 DEF w
  <2> QED
    BY <2>7, <2>8
<1>4. T = Nat
  <2>1. T \in SUBSET Nat
    OBVIOUS
  <2> HIDE DEF T
  <2> QED
    BY <1>2, <1>3, <2>1, NatInduction1
<1>5. L \in T
  <2> HIDE DEF T, L
  <2> QED
    BY <1>0, <1>4
<1> QED
  BY <1>0, <1>5

LEMMA TickIs ==
    ASSUME NEW s, Listed(s), mp1_rtc_tasklet
    PROVE  BlinkInv' /\ B!Tick
<1> DEFINE L == Len(s)
<1>0. /\ List = s /\ s \in Seq(Slots) /\ blink_array \in Arrays /\ vmem \in [VmemCells -> Chars]
      /\ L \in Nat /\ \A k \in 1 .. L : s[k] \in Slots
  BY StackIs, ElementOfSeq, LenProperties DEF Listed
<1>1. PICK f : IsPokes(s, L, f) /\ vmem' = f[L]
  <2> DEFINE P(f) == IsPokes(List, Len(List), f)
             c == CHOOSE f : P(f)
  <2>1. \E f : P(f)
    BY <1>0, PokesExist
  <2>2. P(c)
    <3> HIDE DEF P
    <3> QED
      BY <2>1
  <2>3. vmem' = c[Len(List)]
    BY DEF mp1_rtc_tasklet, IsPokes
  <2> HIDE DEF c
  <2> QED
    BY <1>0, <2>2, <2>3
<1>2. /\ vmem' \in [VmemCells -> Chars]
      /\ \A c \in VmemCells :
            \/ Changing(s, L, c) = {} /\ vmem'[c] = vmem[c]
            \/ \E j \in Changing(s, L, c) :
                    /\ \A i \in Changing(s, L, c) : j >= i
                    /\ vmem'[c] = Shown(s, j)
  BY <1>0, <1>1, LastPoke
<1> HIDE DEF L
<1>3. /\ blink_array' = [i \in Slots |-> IF i \in Range(s) THEN Ticked(blink_array[i])
                                          ELSE blink_array[i]]
      /\ UNCHANGED <<mp1_list_head, eax>>
  BY <1>0 DEF mp1_rtc_tasklet
<1>4. \A k \in 1 .. L : s[k] \in Range(s)
  <2>1. DOMAIN s = 1 .. L
    BY <1>0 DEF L
  <2> QED
    BY <2>1 DEF Range
<1>5. \A slot \in Slots : blink_array[slot] \in Structure
  BY <1>0 DEF Arrays
<1>6. \A slot \in Slots : /\ blink_array'[slot] \in Structure
                         /\ blink_array'[slot].next = blink_array[slot].next
                         /\ blink_array'[slot].location = blink_array[slot].location
  BY <1>3, <1>5, TickedIs
<1>7. blink_array' \in Arrays
  BY <1>3, <1>6 DEF Arrays
<1>8. Listed(s)'
  BY <1>2, <1>3, <1>6, <1>7, SameLinks
<1>9. Stack' = [k \in 1 .. L |-> BlinkerOf(blink_array'[s[k]])]
  BY <1>8, NextStackIs DEF Seen, L
<1>10. Stack = [k \in 1 .. L |-> BlinkerOf(blink_array[s[k]])]
  BY StackIs DEF Seen, L
<1>11. \A k \in 1 .. L : blink_array'[s[k]] = Ticked(blink_array[s[k]])
  BY <1>0, <1>3, <1>4
<1>12. \A k \in 1 .. L :
            /\ BlinkerOf(blink_array'[s[k]]) = B!After(Stack[k])
            /\ Changes(blink_array[s[k]]) <=> B!Due(Stack[k])
            /\ Changes(blink_array[s[k]]) => B!Face(B!After(Stack[k])) = Shown(s, k)
            /\ Stack[k].at = blink_array[s[k]].location
  <2> TAKE k \in 1 .. L
  <2>1. PICK b \in Structure : b = blink_array[s[k]]
    BY <1>0, <1>5
  <2>2. Stack[k] = BlinkerOf(b) /\ blink_array'[s[k]] = Ticked(b)
    BY <1>10, <1>11, <2>1
  <2>3. Stack[k].at = b.location
    BY <2>2 DEF BlinkerOf
  <2>4. Shown(s, k) = IF b.status = 1 THEN b.off_char ELSE b.on_char
    BY <2>1 DEF Shown
  <2> QED
    BY <2>1, <2>2, <2>3, <2>4, TickedIs
<1> DEFINE next == [k \in DOMAIN Stack |-> B!After(Stack[k])]
           changing(c) == {k \in DOMAIN Stack : Stack[k].at = c /\ B!Due(Stack[k])}
<1>13. DOMAIN Stack = 1 .. L
  BY <1>10
<1>14. Stack' = next
  BY <1>9, <1>12, <1>13
<1>15. \A c : changing(c) = Changing(s, L, c)
  BY <1>12, <1>13 DEF Changing
<1>16. ASSUME NEW c \in VmemCells
       PROVE  vmem'[c] = IF changing(c) = {} THEN vmem[c] ELSE B!Face(next[B!Max(changing(c))])
  <2>1. CASE Changing(s, L, c) = {} /\ vmem'[c] = vmem[c]
    BY <1>15, <2>1
  <2>2. CASE \E j \in Changing(s, L, c) : /\ \A i \in Changing(s, L, c) : j >= i
                                          /\ vmem'[c] = Shown(s, j)
    <3>1. PICK j \in Changing(s, L, c) : /\ \A i \in Changing(s, L, c) : j >= i
                                         /\ vmem'[c] = Shown(s, j)
      BY <2>2
    <3>2. Changing(s, L, c) \subseteq 1 .. L
      BY DEF Changing
    <3> DEFINE All == Changing(s, L, c)
    <3> HIDE DEF All
    <3>3. All \subseteq Int /\ j \in All /\ \A i \in All : j >= i
      BY <1>0, <3>1, <3>2 DEF All
    <3>4. B!Max(All) = j
      <4> DEFINE Q(x) == x \in All /\ \A y \in All : x >= y
                 m == CHOOSE x : Q(x)
      <4>1. Q(j)
        BY <3>3
      <4>2. Q(m)
        <5> HIDE DEF Q
        <5> QED
          BY <4>1
      <4>3. B!Max(All) = m
        BY DEF B!Max
      <4> HIDE DEF m
      <4> QED
        BY <3>3, <4>2, <4>3
    <3>5. j \in 1 .. L /\ Changes(blink_array[s[j]])
      BY <3>1 DEF Changing
    <3>6. next[j] = B!After(Stack[j])
      BY <1>13, <3>5
    <3>7. B!Face(next[j]) = Shown(s, j)
      BY <1>12, <3>5, <3>6
    <3>8. changing(c) = All /\ All # {}
      BY <1>15, <3>3 DEF All
    <3> HIDE DEF next, changing
    <3> QED
      BY <3>1, <3>4, <3>7, <3>8
  <2> QED
    BY <1>2, <2>1, <2>2
<1> DEFINE screen == [c \in VmemCells |->
                        IF changing(c) = {} THEN vmem[c] ELSE B!Face(next[B!Max(changing(c))])]
<1>17. vmem' = screen
  <2> HIDE DEF next, changing
  <2> QED
    BY <1>2, <1>16
<1>18. UNCHANGED eax /\ Stack' = next /\ vmem' = screen
  BY <1>3, <1>14, <1>17
<1>19. B!Tick
  BY <1>18 DEF B!Tick
<1> QED
  BY <1>8, <1>19 DEF BlinkInv

----------------------------------------------------------------------------

\* Every step of blink.S is a step of the stack, as long as no blinker is at location
\* 0.
LEMMA BlinkStep ==
    ASSUME \A r \in Structs : r.location # 0, BlinkInv, [BlinkNext]_blinkVars
    PROVE  BlinkInv' /\ [B!BlinkersNext]_(B!blinkersVars)
<1>1. PICK s : Listed(s)
  BY DEF BlinkInv
<1>2. ASSUME NEW r \in Structs, mp1_ioctl_add(r) PROVE BlinkInv' /\ B!BlinkersNext
  <2>1. Fits(r) /\ BlinkInv' /\ B!Add(New(r))
    BY <1>1, <1>2, AddIs, BlinkAssumption
  <2> QED
    BY <2>1 DEF B!BlinkersNext
<1>3. ASSUME NEW location \in Locations, mp1_ioctl_remove(location)
      PROVE  BlinkInv' /\ B!BlinkersNext
  BY <1>1, <1>3, RemoveIs DEF B!BlinkersNext
<1>4. ASSUME NEW location \in Locations, mp1_ioctl_find(location)
      PROVE  BlinkInv' /\ B!BlinkersNext
  BY <1>1, <1>4, FindIs DEF B!BlinkersNext
<1>5. ASSUME NEW from \in Locations, NEW to \in Locations, mp1_ioctl_sync(from, to)
      PROVE  BlinkInv' /\ B!BlinkersNext
  BY <1>1, <1>5, SyncIs DEF B!BlinkersNext
<1>6. CASE mp1_rtc_tasklet
  BY <1>1, <1>6, TickIs DEF B!BlinkersNext
<1>7. CASE UNCHANGED blinkVars
  <2>1. Listed(s)'
    BY <1>1, <1>7 DEF Listed, Links, blinkVars
  <2>2. Stack' = Stack
    <3>1. Stack' = Seen(s, blink_array')
      BY <2>1, NextStackIs
    <3>2. blink_array' = blink_array
      BY <1>7 DEF blinkVars
    <3> QED
      BY <1>1, <3>1, <3>2, StackIs
  <2> QED
    BY <1>7, <2>1, <2>2 DEF BlinkInv, B!blinkersVars, blinkVars
<1> QED
  BY <1>2, <1>3, <1>4, <1>5, <1>6, <1>7 DEF BlinkNext

\* blink.S and fish's mp1_malloc() and mp1_free() implement a stack of blinkers:
\* whatever is added, removed, synchronised and ticked, the links of the array form
\* one list that ends, every structure in use is in it once, calls fail only when
\* there is no such blinker, no room or no such cell, and every tick shows at every
\* cell what its oldest changing blinker has to show.  A blinker at location 0 is
\* left out: its structure counts as free.
THEOREM BlinkersImplemented ==
    ASSUME \A r \in Structs : r.location # 0
    PROVE  BlinkSpec => ImplementsBlinkers
<1>1. BlinkInit => BlinkInv /\ B!BlinkersInit
  BY BlinkInitInv
<1>2. BlinkInv /\ [BlinkNext]_blinkVars => BlinkInv' /\ [B!BlinkersNext]_(B!blinkersVars)
  BY BlinkStep
<1> QED
  BY <1>1, <1>2, PTL DEF BlinkSpec, ImplementsBlinkers, B!BlinkersSpec

----------------------------------------------------------------------------
(* Places in the pictures *)

NonZero == Nat \ {0}

LEMMA RankFits ==
    ASSUME NEW P, IsFiniteSet(P), NEW q
    PROVE  /\ Rank(P, q) \in 0 .. Cardinality(P)
           /\ IsFiniteSet({p \in P : Earlier(p, q)})
<1> DEFINE T == {p \in P : Earlier(p, q)}
<1>1. IsFiniteSet(T) /\ Cardinality(T) <= Cardinality(P)
  BY FS_Subset
<1>2. Cardinality(T) \in Nat /\ Cardinality(P) \in Nat
  BY <1>1, FS_CardinalityType
<1> QED
  BY <1>1, <1>2 DEF Rank

\* Rank counts one more for every place that is passed.
LEMMA RankPasses ==
    ASSUME NEW P \in SUBSET (NonZero \X NonZero), IsFiniteSet(P), NEW r \in Nat, NEW k \in Nat
    PROVE  Rank(P, <<r, k + 1>>) = Rank(P, <<r, k>>) + IF <<r, k>> \in P THEN 1 ELSE 0
<1> DEFINE q == <<r, k>>
           T == {p \in P : Earlier(p, q)}
           U == {p \in P : Earlier(p, <<r, k + 1>>)}
<1>1. IsFiniteSet(T) /\ q \notin T
  BY RankFits DEF Earlier
<1>2. ASSUME NEW p \in P PROVE Earlier(p, <<r, k + 1>>) <=> Earlier(p, q) \/ p = q
  <2>1. p = <<p[1], p[2]>> /\ p[1] \in Nat /\ p[2] \in Nat
    BY DEF NonZero
  <2>2. p[2] < k + 1 <=> p[2] < k \/ p[2] = k
    BY <2>1
  <2>3. p = q <=> p[1] = r /\ p[2] = k
    BY <2>1
  <2>4. Earlier(p, <<r, k + 1>>) <=> p[1] < r \/ (p[1] = r /\ p[2] < k + 1)
    BY DEF Earlier
  <2>5. Earlier(p, q) <=> p[1] < r \/ (p[1] = r /\ p[2] < k)
    BY DEF Earlier
  <2> HIDE DEF q
  <2> QED
    BY <2>2, <2>3, <2>4, <2>5
<1>3. U = IF q \in P THEN T \cup {q} ELSE T
  BY <1>2
<1>4. Cardinality(T \cup {q}) = Cardinality(T) + 1
  BY <1>1, FS_AddElement
<1>5. Cardinality(T) \in Nat
  BY <1>1, FS_CardinalityType
<1>6. Rank(P, q) = Cardinality(T) /\ Rank(P, <<r, k + 1>>) = Cardinality(U)
  BY DEF Rank
<1> HIDE DEF T, U
<1> QED
  BY <1>3, <1>4, <1>5, <1>6

\* Behind the end of a line nothing is passed up to the next one.
LEMMA RankWraps ==
    ASSUME NEW P \in SUBSET (NonZero \X NonZero), NEW r \in Nat, NEW k \in Nat,
           \A p \in P : p[1] = r => p[2] < k
    PROVE  Rank(P, <<r + 1, 1>>) = Rank(P, <<r, k>>)
<1>1. ASSUME NEW p \in P PROVE Earlier(p, <<r + 1, 1>>) <=> Earlier(p, <<r, k>>)
  <2>1. p[1] \in Nat /\ p[2] \in Nat /\ p[2] # 0
    BY DEF NonZero
  <2>2. p[1] < r + 1 <=> p[1] < r \/ p[1] = r
    BY <2>1
  <2>3. ~(p[2] < 1)
    BY <2>1
  <2> QED
    BY <2>2, <2>3 DEF Earlier
<1>2. {p \in P : Earlier(p, <<r + 1, 1>>)} = {p \in P : Earlier(p, <<r, k>>)}
  BY <1>1
<1> QED
  BY <1>2 DEF Rank

\* And at the end everything was.
LEMMA RankEnds ==
    ASSUME NEW P, NEW r, \A p \in P : p[1] < r
    PROVE  Rank(P, <<r, 1>>) = Cardinality(P)
<1>1. {p \in P : Earlier(p, <<r, 1>>)} = P
  BY DEF Earlier
<1> QED
  BY <1>1 DEF Rank

LEMMA RankStarts ==
    ASSUME NEW P \in SUBSET (NonZero \X NonZero)
    PROVE  Rank(P, <<1, 1>>) = 0
<1>1. ASSUME NEW p \in P, Earlier(p, <<1, 1>>) PROVE FALSE
  <2>1. p[1] \in Nat /\ p[2] \in Nat /\ p[1] # 0 /\ p[2] # 0
    BY DEF NonZero
  <2>2. ~(p[1] < 1) /\ ~(p[2] < 1)
    BY <2>1
  <2> QED
    BY <1>1, <2>2 DEF Earlier
<1>2. {p \in P : Earlier(p, <<1, 1>>)} = {}
  BY <1>1
<1> QED
  BY <1>2, FS_EmptySet DEF Rank

\* Of two places one is earlier, and has the smaller rank.
LEMMA RankGrows ==
    ASSUME NEW P \in SUBSET (NonZero \X NonZero), IsFiniteSet(P), NEW p \in P, NEW q \in P,
           Earlier(p, q)
    PROVE  Rank(P, p) < Rank(P, q)
<1> DEFINE T == {x \in P : Earlier(x, p)}
           U == {x \in P : Earlier(x, q)}
<1>1. IsFiniteSet(T) /\ p \notin T /\ IsFiniteSet(U)
  <2>1. p[1] \in Nat /\ p[2] \in Nat
    BY DEF NonZero
  <2>2. ~Earlier(p, p)
    BY <2>1 DEF Earlier
  <2> QED
    BY <2>2, RankFits
<1>2. ASSUME NEW x \in P, Earlier(x, p) PROVE Earlier(x, q)
  <2>1. /\ p[1] \in Nat /\ p[2] \in Nat /\ q[1] \in Nat /\ q[2] \in Nat
        /\ x[1] \in Nat /\ x[2] \in Nat
    BY DEF NonZero
  <2> QED
    BY <1>2, <2>1 DEF Earlier
<1>3. T \cup {p} \in SUBSET U
  BY <1>2
<1>4. Cardinality(T \cup {p}) = Cardinality(T) + 1 /\ Cardinality(T \cup {p}) <= Cardinality(U)
  BY <1>1, <1>3, FS_AddElement, FS_Subset
<1>5. Cardinality(T) \in Nat /\ Cardinality(U) \in Nat
  BY <1>1, FS_CardinalityType
<1>6. Rank(P, p) = Cardinality(T) /\ Rank(P, q) = Cardinality(U)
  BY DEF Rank
<1> HIDE DEF T, U
<1> QED
  BY <1>4, <1>5, <1>6

LEMMA RankFinds ==
    ASSUME NEW P \in SUBSET (NonZero \X NonZero), IsFiniteSet(P), NEW p \in P
    PROVE  /\ Rank(P, p) + 1 \in 1 .. Cardinality(P)
           /\ \A q \in P : Rank(P, q) = Rank(P, p) => q = p
<1>0. Cardinality(P) \in Nat
  BY FS_CardinalityType
<1>1. Cardinality(P) \in Nat /\ \A q \in P : Rank(P, q) \in Nat
  <2>1. ASSUME NEW q \in P PROVE Rank(P, q) \in Nat
    <3>1. Rank(P, q) \in 0 .. Cardinality(P)
      BY RankFits
    <3> QED
      BY <1>0, <3>1
  <2> QED
    BY <1>0, <2>1
<1>2. Rank(P, p) + 1 <= Cardinality(P)
  <2> DEFINE T == {x \in P : Earlier(x, p)}
  <2>1. p[1] \in Nat /\ p[2] \in Nat
    BY DEF NonZero
  <2>2. p \notin T
    BY <2>1 DEF Earlier
  <2>3. IsFiniteSet(T) /\ T \cup {p} \in SUBSET P
    BY RankFits
  <2>4. Cardinality(T \cup {p}) = Cardinality(T) + 1 /\ Cardinality(T \cup {p}) <= Cardinality(P)
    BY <2>2, <2>3, FS_AddElement, FS_Subset
  <2> QED
    BY <2>4 DEF Rank
<1>3. ASSUME NEW q \in P, Rank(P, q) = Rank(P, p), q # p PROVE FALSE
  <2>1. /\ p[1] \in Nat /\ p[2] \in Nat /\ q[1] \in Nat /\ q[2] \in Nat
        /\ p = <<p[1], p[2]>> /\ q = <<q[1], q[2]>>
    BY DEF NonZero
  <2>2. p[1] # q[1] \/ p[2] # q[2]
    BY <1>3, <2>1
  <2>3. Earlier(p, q) \/ Earlier(q, p)
    BY <2>1, <2>2 DEF Earlier
  <2>4. Rank(P, p) < Rank(P, q) \/ Rank(P, q) < Rank(P, p)
    BY <2>3, RankGrows
  <2> QED
    BY <1>1, <1>3, <2>4
<1> QED
  BY <1>1, <1>2, <1>3

----------------------------------------------------------------------------
(* What fish knows *)

\* The r-th line of a file begins at s, or the file ends there.
StartsAt(inode, r, s) ==
    /\ s \in 0 .. Size(inode)
    /\ s = 0 \/ FileByte(inode, s - 1) = NL
    /\ LinesBefore(inode, s) = r - 1

\* A file has no r-th line.
NoneFrom(inode, r) == \A k \in LineStarts(inode) : LinesBefore(inode, k) < r - 1

\* A descriptor of the file, at an offset.
AtOffset(d, inode, pos) == d.open /\ d.ftable = "regular" /\ d.inode = inode /\ d.pos = pos

\* Of a line that begins at s, n characters were read, and it goes on behind them.
Within(inode, s, n) ==
    s + n <= Size(inode) /\ \A i \in s .. s + n - 1 : FileByte(inode, i) # NL

\* The next character of a line of a file is to be read.
InLine(l, file, n, d) ==
    LET inode == InodeOf(l.frames, file) IN
    /\ l.c[file] # NEWLINE /\ ~l.eof[file]
    /\ \E s \in 0 .. Size(inode) :
            /\ StartsAt(inode, l.row + 1, s)
            /\ Within(inode, s, n)
            /\ AtOffset(d, inode, s + n)
            /\ n > 0 => l.c[file] = FileByte(inode, s + n - 1)

\* The file goes on with the r-th line, or has none.
GoesOn(l, file, r, d) ==
    LET inode == InodeOf(l.frames, file) IN
    IF l.eof[file] THEN NoneFrom(inode, r)
    ELSE \E s \in 0 .. Size(inode) : StartsAt(inode, r, s) /\ AtOffset(d, inode, s)

\* The line of a file was read to its end.
PastLine(l, file, d) ==
    /\ l.c[file] = NEWLINE
    /\ Len(PictureRow(l.frames, file, l.row + 1)) <= l.col
    /\ GoesOn(l, file, l.row + 2, d)

\* The read of the next character is in its loop, or has returned it.
IsReading(l, file, d, r) ==
    /\ InLine(l, file, l.col, d)
    /\ r.fd = l.fd[file]
    /\ r.length = Least(1, Size(InodeOf(l.frames, file)) - d.pos)

HasRead(l, file, d, r) ==
    LET inode == InodeOf(l.frames, file) IN
    /\ l.c[file] # NEWLINE /\ ~l.eof[file]
    /\ \E s \in 0 .. Size(inode) :
            /\ StartsAt(inode, l.row + 1, s)
            /\ Within(inode, s, l.col)
            /\ IF r.value = 0 THEN s + l.col = Size(inode)
               ELSE /\ r.value = 1 /\ s + l.col < Size(inode)
                    /\ r.taken[1] = FileByte(inode, s + l.col)
                    /\ AtOffset(d, inode, s + l.col + 1)

\* What fish knows of a file while it looks at a line.
Looks(l, file, d) ==
    \/ InLine(l, file, IF file < l.file THEN l.col + 1 ELSE l.col, d)
    \/ PastLine(l, file, d)

\* And when both lines have ended.
EndsRow(l, file, d) ==
    IF file < l.file THEN /\ l.c[file] = NEWLINE <=> l.eof[file]
                          /\ GoesOn(l, file, l.row + 2, d)
    ELSE PastLine(l, file, d)

\* The oldest n blinkers are the first of the pictures, in step.
OldestAre(list, frames, n, left, lit) ==
    /\ n <= Len(list)
    /\ \A k \in 1 .. n :
        list[Len(list) + 1 - k] =
            [at |-> Woven(frames)[k].location, on |-> Woven(frames)[k].on_char,
             off |-> Woven(frames)[k].off_char, on_for |-> LENGTH, off_for |-> LENGTH,
             left |-> left, lit |-> lit]

\* They are seen.
AreSeen(screen, frames, n, lit) ==
    \A k \in 1 .. n : Single(Woven(frames), k) =>
        screen[Woven(frames)[k].location] =
            IF lit THEN Woven(frames)[k].on_char ELSE Woven(frames)[k].off_char

\* The pictures are drawn up to a place.
DrawnUpTo(list, screen, frames, place) ==
    LET n == Rank(OnScreen(frames), place) IN
    /\ n <= Len(Woven(frames)) /\ Len(list) = n
    /\ OldestAre(list, frames, n, LENGTH, TRUE)
    /\ AreSeen(screen, frames, n, TRUE)

\* They blink, and with them the one more in two of the acts.
IsExtra(b) == b.at = EXTRA /\ b.on = Extra.on_char /\ b.off = Extra.off_char

InStep(list, screen, frames, act) ==
    LET n == Len(Woven(frames)) IN
    /\ IF act \in {2, 3} THEN Len(list) = n + 1 /\ IsExtra(list[1]) ELSE Len(list) = n
    /\ \E left \in 0 .. LENGTH, lit \in BOOLEAN :
            OldestAre(list, frames, n, left, lit) /\ AreSeen(screen, frames, n, lit)

Both(frames) == frames \in Frames /\ \A file \in {1, 2} : ~NoDentry(frames[file])

FishInv ==
    cmd.program = "fish" =>
        /\ pc \in {"none", "start"} \cup FishPcs
        /\ pc \in {"fish opens rtc", "fish opens first", "fish opens second"} => Stack = <<>>
        /\ pc \in {"fish opens first", "fish opens second"} => loc.frames \in Frames
        /\ pc = "fish opens first" /\ reply.value # -1 =>
                /\ ~NoDentry(loc.frames[1])
                /\ AtOffset(fds[Pid][reply.value], InodeOf(loc.frames, 1), 0)
        /\ pc = "fish opens second" =>
                /\ ~NoDentry(loc.frames[1])
                /\ AtOffset(fds[Pid][loc.fd0], InodeOf(loc.frames, 1), 0)
                /\ reply.value # -1 =>
                        /\ ~NoDentry(loc.frames[2]) /\ reply.value # loc.fd0
                        /\ AtOffset(fds[Pid][reply.value], InodeOf(loc.frames, 2), 0)
        /\ pc \in Weaves =>
                /\ Both(loc.frames) /\ loc.fd[1] # loc.fd[2]
                /\ loc.row \in Nat /\ loc.col \in Nat
                /\ DOMAIN loc.c = {1, 2} /\ DOMAIN loc.eof = {1, 2}
        /\ pc = "fish looks" => \A file \in {1, 2} : Looks(loc, file, fds[Pid][loc.fd[file]])
        /\ pc = "fish reads" =>
                /\ \A file \in {1, 2} \ {loc.file} : Looks(loc, file, fds[Pid][loc.fd[file]])
                /\ IF reader = Pid THEN IsReading(loc, loc.file, fds[Pid][loc.fd[loc.file]], rd)
                   ELSE HasRead(loc, loc.file, fds[Pid][loc.fd[loc.file]], reply)
        /\ pc = "fish ends row" => \A file \in {1, 2} : EndsRow(loc, file, fds[Pid][loc.fd[file]])
        /\ pc \in {"fish looks", "fish reads"} =>
                DrawnUpTo(Stack, vmem, loc.frames, <<loc.row + 1, loc.col + 1>>)
        /\ pc = "fish ends row" => DrawnUpTo(Stack, vmem, loc.frames, <<loc.row + 2, 1>>)
        /\ pc \in Blinks =>
                /\ Both(loc.frames) /\ loc.act \in 1 .. 4
                /\ InStep(Stack, vmem, loc.frames, loc.act)
        /\ pc = "fish ends" => Both(loc.frames) /\ InStep(Stack, vmem, loc.frames, 4)

----------------------------------------------------------------------------
(* Lines and their numbers *)

LEMMA LinesFinite ==
    ASSUME NEW inode, NEW s \in Nat
    PROVE  IsFiniteSet({j \in LineStarts(inode) : j < s}) /\ LinesBefore(inode, s) \in 0 .. s
<1> DEFINE T == {j \in LineStarts(inode) : j < s}
<1>1. T \in SUBSET (0 .. s - 1)
  BY DEF LineStarts
<1>2. IsFiniteSet(0 .. s - 1) /\ Cardinality(0 .. s - 1) = s
  BY FS_Interval
<1>3. IsFiniteSet(T) /\ Cardinality(T) <= s
  BY <1>1, <1>2, FS_Subset
<1>4. Cardinality(T) \in Nat
  BY <1>3, FS_CardinalityType
<1> QED
  BY <1>3, <1>4 DEF LinesBefore

LEMMA LinesGrow ==
    ASSUME NEW inode, NEW s \in LineStarts(inode), NEW t \in Nat
    PROVE  /\ s < t => LinesBefore(inode, s) < LinesBefore(inode, t)
           /\ t <= s => LinesBefore(inode, t) <= LinesBefore(inode, s)
<1> DEFINE T(x) == {j \in LineStarts(inode) : j < x}
<1>0. s \in Nat
  BY DEF LineStarts
<1>1. IsFiniteSet(T(s)) /\ IsFiniteSet(T(t))
  BY <1>0, LinesFinite
<1>2. Cardinality(T(s)) \in Nat /\ Cardinality(T(t)) \in Nat
  BY <1>1, FS_CardinalityType
<1>3. ASSUME s < t PROVE Cardinality(T(s)) < Cardinality(T(t))
  <2>1. T(s) \cup {s} \in SUBSET T(t) /\ s \notin T(s)
    BY <1>0, <1>3 DEF LineStarts
  <2>2. /\ Cardinality(T(s) \cup {s}) = Cardinality(T(s)) + 1
        /\ Cardinality(T(s) \cup {s}) <= Cardinality(T(t))
    <3> HIDE DEF T
    <3> QED
      BY <1>1, <2>1, FS_AddElement, FS_Subset
  <2> HIDE DEF T
  <2> QED
    BY <1>2, <2>2
<1>4. ASSUME t <= s PROVE Cardinality(T(t)) <= Cardinality(T(s))
  <2>1. T(t) \in SUBSET T(s)
    BY <1>0, <1>4 DEF LineStarts
  <2> HIDE DEF T
  <2> QED
    BY <1>1, <2>1, FS_Subset
<1> QED
  BY <1>3, <1>4 DEF LinesBefore

\* The number of the next line is one more.
LEMMA LinesNext ==
    ASSUME NEW inode, NEW s \in LineStarts(inode), NEW t \in Nat, s < t,
           \A j \in s .. t - 2 : FileByte(inode, j) # NL
    PROVE  LinesBefore(inode, t) = LinesBefore(inode, s) + 1
<1> DEFINE T(x) == {j \in LineStarts(inode) : j < x}
<1>0. s \in Nat
  BY DEF LineStarts
<1>t. s < t /\ s \in LineStarts(inode)
  OBVIOUS
<1>1. ASSUME NEW j \in LineStarts(inode) PROVE j < t <=> j < s \/ j = s
  <2>0. j \in Nat /\ (j = 0 \/ FileByte(inode, j - 1) = NL)
    BY DEF LineStarts
  <2>1. ASSUME j < t, s < j PROVE FALSE
    <3>1. j - 1 \in s .. t - 2 /\ j # 0
      BY <1>0, <2>0, <2>1
    <3> QED
      BY <2>0, <3>1
  <2> QED
    BY <1>0, <2>0, <2>1
<1>2. T(t) = T(s) \cup {s} /\ s \notin T(s)
  <2>1. T(t) = T(s) \cup {s}
    BY <1>1, <1>t
  <2>2. s \notin T(s)
    BY <1>0
  <2> QED
    BY <2>1, <2>2
<1>3. IsFiniteSet(T(s))
  BY <1>0, LinesFinite
<1>4. Cardinality(T(t)) = Cardinality(T(s)) + 1
  <2> HIDE DEF T
  <2> QED
    BY <1>2, <1>3, FS_AddElement
<1> QED
  BY <1>4 DEF LinesBefore

\* A file has one r-th line.
LEMMA RowIs ==
    ASSUME NEW frames, NEW file, NEW r, NEW s \in LineStarts(InodeOf(frames, file)),
           LinesBefore(InodeOf(frames, file), s) = r - 1
    PROVE  PictureRow(frames, file, r) = LineAt(InodeOf(frames, file), s)
<1> DEFINE inode == InodeOf(frames, file)
           starts == {k \in LineStarts(inode) : LinesBefore(inode, k) = r - 1}
           c == CHOOSE k \in starts : TRUE
<1>1. s \in starts
  OBVIOUS
<1>2. c \in starts
  <2> HIDE DEF starts
  <2> QED
    BY <1>1
<1>3. c = s
  <2>1. c \in LineStarts(inode) /\ LinesBefore(inode, c) = LinesBefore(inode, s)
    BY <1>2
  <2>2. c \in Nat /\ s \in Nat
    BY <2>1 DEF LineStarts
  <2>3. LinesBefore(inode, c) \in Nat
    <3>1. LinesBefore(inode, c) \in 0 .. c
      BY <2>2, LinesFinite
    <3> HIDE DEF c
    <3> QED
      BY <2>2, <3>1
  <2> HIDE DEF c
  <2>4. ~(c < s) /\ ~(s < c)
    BY <2>1, <2>2, <2>3, LinesGrow
  <2> QED
    BY <2>2, <2>4
<1>4. PictureRow(frames, file, r) = LineAt(inode, c)
  BY <1>1 DEF PictureRow
<1> HIDE DEF c
<1> QED
  BY <1>3, <1>4

LEMMA NoRow ==
    ASSUME NEW frames, NEW file, NEW r,
           \A k \in LineStarts(InodeOf(frames, file)) : LinesBefore(InodeOf(frames, file), k) # r - 1
    PROVE  PictureRow(frames, file, r) = <<>>
BY DEF PictureRow

LEMMA LineHas ==
    ASSUME NEW inode, Size(inode) \in Nat, NEW s \in 0 .. Size(inode), NEW n \in Nat,
           Within(inode, s, n)
    PROVE  /\ Len(LineAt(inode, s)) \in n .. Size(inode) - s
           /\ \A k \in 1 .. Len(LineAt(inode, s)) :
                    LineAt(inode, s)[k] = FileByte(inode, s + k - 1)
           /\ s + n = Size(inode) \/ FileByte(inode, s + n) = NL => Len(LineAt(inode, s)) = n
<1> DEFINE size == Size(inode)
<1>1. PICK e \in s .. size : /\ e = size \/ FileByte(inode, e) = NL
                            /\ \A j \in s .. e - 1 : FileByte(inode, j) # NL
  BY LineEnds
<1>2. LineAt(inode, s) = [i \in 1 .. e - s |-> FileByte(inode, s + i - 1)]
  BY <1>1, LineAtIs
<1>3. e - s \in Nat
  OBVIOUS
<1>4. Len(LineAt(inode, s)) = e - s
  BY <1>2, <1>3
<1>5. s + n <= e
  <2>1. ASSUME e < s + n PROVE FALSE
    <3>1. e \in s .. s + n - 1 /\ s + n <= size
      BY <2>1 DEF Within
    <3>2. FileByte(inode, e) # NL /\ e # size
      BY <2>1, <3>1 DEF Within
    <3> QED
      BY <1>1, <3>2
  <2> QED
    BY <2>1
<1>6. ASSUME s + n = size \/ FileByte(inode, s + n) = NL PROVE e = s + n
  <2>1. ASSUME s + n < e PROVE FALSE
    <3>1. s + n \in s .. e - 1 /\ s + n # size
      BY <2>1
    <3> QED
      BY <1>1, <1>6, <3>1
  <2> QED
    BY <1>5, <2>1
<1> QED
  BY <1>2, <1>4, <1>5, <1>6

\* What is known of the r-th line of a picture when n of its characters were read.
LEMMA RowHas ==
    ASSUME NEW frames, NEW file, NEW r \in NonZero, NEW s, NEW n \in Nat,
           Size(InodeOf(frames, file)) \in Nat,
           StartsAt(InodeOf(frames, file), r, s), Within(InodeOf(frames, file), s, n)
    PROVE  LET inode == InodeOf(frames, file)
               row == PictureRow(frames, file, r)
           IN  /\ Len(row) \in Nat /\ n <= Len(row)
               /\ n > 0 => row[n] = FileByte(inode, s + n - 1)
               /\ s + n = Size(inode) \/ FileByte(inode, s + n) = NL => Len(row) = n
<1> DEFINE inode == InodeOf(frames, file)
           row == PictureRow(frames, file, r)
<1>0. s \in 0 .. Size(inode) /\ LinesBefore(inode, s) = r - 1 /\ (s = 0 \/ FileByte(inode, s - 1) = NL)
  BY DEF StartsAt
<1>1. CASE s < Size(inode)
  <2>1. s \in LineStarts(inode)
    BY <1>0, <1>1 DEF LineStarts, Size
  <2>2. row = LineAt(inode, s)
    BY <1>0, <2>1, RowIs
  <2>3. /\ Len(row) \in n .. Size(inode) - s
        /\ \A k \in 1 .. Len(row) : row[k] = FileByte(inode, s + k - 1)
        /\ s + n = Size(inode) \/ FileByte(inode, s + n) = NL => Len(row) = n
    BY <1>0, <2>2, LineHas
  <2> HIDE DEF row, inode
  <2>4. Len(row) \in Nat /\ n <= Len(row) /\ (n > 0 => n \in 1 .. Len(row))
    BY <2>3
  <2> QED
    BY <2>3, <2>4 DEF row, inode
<1>2. CASE s = Size(inode)
  <2>1. n = 0
    BY <1>0, <1>2 DEF Within
  <2>2. ASSUME NEW k \in LineStarts(inode) PROVE LinesBefore(inode, k) # r - 1
    <3>1. k \in Nat /\ k < s
      BY <1>2 DEF LineStarts, Size
    <3>2. LinesBefore(inode, k) < LinesBefore(inode, s)
      BY <1>0, <3>1, LinesGrow
    <3>3. LinesBefore(inode, k) \in Nat
      <4>1. LinesBefore(inode, k) \in 0 .. k
        BY <3>1, LinesFinite
      <4> QED
        BY <3>1, <4>1
    <3> QED
      BY <1>0, <3>2, <3>3 DEF NonZero
  <2>3. row = <<>>
    BY <2>2, NoRow
  <2>4. Len(<<>>) = 0
    OBVIOUS
  <2> HIDE DEF row, inode
  <2>5. Len(row) = 0 /\ ~(n > 0)
    BY <2>1, <2>3, <2>4
  <2> QED
    BY <2>1, <2>5 DEF row, inode
<1>3. s < Size(inode) \/ s = Size(inode)
  BY <1>0
<1> QED
  BY <1>1, <1>2, <1>3

\* Behind a newline is the next line, behind the last character none.
LEMMA LineGoesOn ==
    ASSUME NEW inode, Size(inode) \in Nat, NEW r \in NonZero, NEW s, NEW n \in Nat,
           StartsAt(inode, r, s), Within(inode, s, n)
    PROVE  /\ s + n < Size(inode) /\ FileByte(inode, s + n) = NL =>
                    StartsAt(inode, r + 1, s + n + 1)
           /\ s + n = Size(inode) => NoneFrom(inode, r + 1)
<1>0. /\ s \in 0 .. Size(inode) /\ LinesBefore(inode, s) = r - 1
      /\ s = 0 \/ FileByte(inode, s - 1) = NL
  BY DEF StartsAt
<1>1. ASSUME s + n < Size(inode), FileByte(inode, s + n) = NL
      PROVE  StartsAt(inode, r + 1, s + n + 1)
  <2>1. s \in LineStarts(inode)
    BY <1>0, <1>1 DEF LineStarts, Size
  <2>2. /\ s + n + 1 \in Nat /\ s < s + n + 1 /\ s + n + 1 \in 0 .. Size(inode)
        /\ s + n + 1 - 1 = s + n /\ s + n + 1 - 2 = s + n - 1
    BY <1>0, <1>1
  <2>3. PICK t \in Nat : t = s + n + 1
    BY <2>2
  <2>t. s < t /\ t \in 0 .. Size(inode) /\ t - 1 = s + n /\ t - 2 = s + n - 1
    BY <1>0, <2>2, <2>3
  <2>4. LinesBefore(inode, t) = LinesBefore(inode, s) + 1
    <3>1. \A j \in s .. t - 2 : FileByte(inode, j) # NL
      BY <2>t DEF Within
    <3> QED
      BY <2>1, <2>t, <3>1, LinesNext
  <2>5. LinesBefore(inode, t) = (r + 1) - 1
    BY <1>0, <2>4 DEF NonZero
  <2>6. StartsAt(inode, r + 1, t)
    BY <1>1, <2>t, <2>5 DEF StartsAt
  <2> QED
    BY <2>3, <2>6
<1>2. ASSUME s + n = Size(inode), NEW k \in LineStarts(inode)
      PROVE  LinesBefore(inode, k) < (r + 1) - 1
  <2>1. k \in 0 .. Size(inode) - 1 /\ (k = 0 \/ FileByte(inode, k - 1) = NL)
    BY DEF LineStarts, Size
  <2>2. k <= s
    <3>1. ASSUME s < k PROVE FALSE
      <4>1. k - 1 \in s .. s + n - 1 /\ k # 0
        BY <1>0, <1>2, <2>1, <3>1
      <4> QED
        BY <2>1, <4>1 DEF Within
    <3> QED
      BY <1>0, <2>1, <3>1
  <2>3. k = s \/ LinesBefore(inode, k) < LinesBefore(inode, s)
    <3>1. k < s \/ k = s
      BY <1>0, <2>1, <2>2
    <3>2. s \in Nat
      BY <1>0
    <3> QED
      BY <3>1, <3>2, LinesGrow
  <2>4. LinesBefore(inode, k) \in Nat
    <3>1. k \in Nat
      BY <2>1
    <3>2. LinesBefore(inode, k) \in 0 .. k
      BY <3>1, LinesFinite
    <3> QED
      BY <3>1, <3>2
  <2> QED
    BY <1>0, <2>3, <2>4 DEF NonZero
<1>3. s + n = Size(inode) => NoneFrom(inode, r + 1)
  BY <1>2 DEF NoneFrom
<1> QED
  BY <1>1, <1>3

LEMMA NoneLater ==
    ASSUME NEW frames, NEW file, NEW r \in NonZero, NoneFrom(InodeOf(frames, file), r)
    PROVE  NoneFrom(InodeOf(frames, file), r + 1) /\ PictureRow(frames, file, r) = <<>>
<1> DEFINE inode == InodeOf(frames, file)
<1>1. ASSUME NEW k \in LineStarts(inode)
      PROVE  LinesBefore(inode, k) # r - 1 /\ LinesBefore(inode, k) < (r + 1) - 1
  <2>1. LinesBefore(inode, k) < r - 1
    BY DEF NoneFrom
  <2>2. k \in Nat
    BY DEF LineStarts
  <2>3. LinesBefore(inode, k) \in 0 .. k
    BY <2>2, LinesFinite
  <2> QED
    BY <2>1, <2>2, <2>3 DEF NonZero
<1>2. PictureRow(frames, file, r) = <<>>
  BY <1>1, NoRow
<1>3. NoneFrom(inode, r + 1)
  BY <1>1 DEF NoneFrom
<1> QED
  BY <1>2, <1>3

LEMMA FirstLine ==
    ASSUME NEW inode, Size(inode) \in Nat
    PROVE  StartsAt(inode, 1, 0)
<1>1. LinesBefore(inode, 0) \in 0 .. 0
  BY LinesFinite
<1> QED
  BY <1>1 DEF StartsAt

----------------------------------------------------------------------------
(* The pictures *)

LEMMA PictureIs ==
    ASSUME FramesArePictures, NEW frames, Both(frames), NEW file \in {1, 2}
    PROVE  LET inode == InodeOf(frames, file) IN
           /\ inode \in Nat /\ GoodFile(inode) /\ get_inode(inode)
           /\ FirstDentry(frames[file]).type = FILE_REGULAR
           /\ Size(inode) \in Nat /\ inodes[inode].size = Size(inode)
<1> DEFINE name == frames[file]
           inode == InodeOf(frames, file)
           T == {i \in 1 .. Len(dentries) : dentries[i].name = name}
<1>0. Len(dentries) \in Nat /\ ~NoDentry(name)
  BY ImageAssumption DEF Both
<1>1. T \in SUBSET Nat /\ T # {}
  BY <1>0 DEF NoDentry
<1>2. PICK i \in T : \A j \in T : i <= j
  <2> HIDE DEF T
  <2> QED
    BY <1>1, LeastExists
<1>3. i \in 1 .. Len(dentries) /\ read_dentry_by_name(name, i)
  <2>1. \A j \in 1 .. i - 1 : j \in 1 .. Len(dentries) /\ ~(i <= j)
    BY <1>0, <1>2
  <2>2. \A j \in 1 .. i - 1 : dentries[j].name # name
    BY <1>2, <2>1
  <2> QED
    BY <1>2, <2>2 DEF read_dentry_by_name
<1>4. FirstDentry(name) = dentries[i] /\ dentries[i] \in Dentry
  BY <1>3, FirstDentryIs, DentryType
<1>5. inode \in Nat
  BY <1>4 DEF InodeOf, Dentry
<1>6. FirstDentry(name).type = FILE_REGULAR /\ GoodFile(inode)
  BY <1>0 DEF FramesArePictures, Both
<1>7. get_inode(inode)
  BY <1>6 DEF GoodFile
<1>8. inodes[inode].size \in Nat
  BY <1>5, <1>7, ImageAssumption DEF get_inode
<1> QED
  BY <1>5, <1>6, <1>7, <1>8 DEF Size

\* All ink is on the paper.
LEMMA InkOnPaper ==
    ASSUME FramesArePictures, NEW frames, Both(frames), NEW file \in {1, 2},
           NEW r \in NonZero, NEW k \in NonZero, Ink(frames, file, r, k) # BLANK
    PROVE  <<r, k>> \in Inked(frames)
<1> DEFINE inode == InodeOf(frames, file)
           row == PictureRow(frames, file, r)
           size == inodes[InodeOf(frames, 1)].size + inodes[InodeOf(frames, 2)].size
<1>0. Size(inode) \in Nat
  BY PictureIs
<1>1. k <= Len(row)
  BY DEF Ink
<1>2. PICK s \in LineStarts(inode) : LinesBefore(inode, s) = r - 1
  <2>1. ASSUME \A s \in LineStarts(inode) : LinesBefore(inode, s) # r - 1 PROVE FALSE
    <3>1. row = <<>>
      BY <2>1, NoRow
    <3>2. Len(row) = 0
      BY <3>1
    <3> QED
      BY <1>1, <3>2 DEF NonZero
  <2> QED
    BY <2>1
<1>3. s \in 0 .. Size(inode) - 1
  BY DEF LineStarts, Size
<1>4. r <= Size(inode)
  <2>1. s \in Nat
    BY <1>3
  <2>2. LinesBefore(inode, s) \in 0 .. s
    BY <2>1, LinesFinite
  <2> QED
    BY <1>0, <1>2, <1>3, <2>2 DEF NonZero
<1>5. k <= Size(inode)
  <2>1. Within(inode, s, 0) /\ s \in 0 .. Size(inode)
    BY <1>0, <1>3 DEF Within
  <2>2. Len(LineAt(inode, s)) \in 0 .. Size(inode) - s
    BY <1>0, <2>1, LineHas
  <2>3. row = LineAt(inode, s)
    BY <1>2, RowIs
  <2>4. Len(row) \in 0 .. Size(inode) - s
    BY <2>2, <2>3
  <2> HIDE DEF row, inode
  <2> QED
    BY <1>0, <1>1, <1>3, <2>4 DEF NonZero
<1>6. Size(inode) <= size /\ size \in Nat
  <2>1. /\ Size(InodeOf(frames, 1)) \in Nat /\ inodes[InodeOf(frames, 1)].size = Size(InodeOf(frames, 1))
        /\ Size(InodeOf(frames, 2)) \in Nat /\ inodes[InodeOf(frames, 2)].size = Size(InodeOf(frames, 2))
    BY PictureIs
  <2>2. size = Size(InodeOf(frames, 1)) + Size(InodeOf(frames, 2))
    BY <2>1
  <2>3. Size(inode) = Size(InodeOf(frames, 1)) \/ Size(inode) = Size(InodeOf(frames, 2))
    OBVIOUS
  <2> HIDE DEF size, inode
  <2> QED
    BY <2>1, <2>2, <2>3
<1>7. r \in 1 .. size /\ k \in 1 .. size
  <2> HIDE DEF size, inode
  <2> QED
    BY <1>0, <1>4, <1>5, <1>6 DEF NonZero
<1>8. <<r, k>> \in Paper(frames)
  BY <1>7 DEF Paper
<1> QED
  BY <1>8 DEF Inked

LEMMA InkedIs ==
    ASSUME FramesArePictures, NEW frames, Both(frames)
    PROVE  /\ Inked(frames) \in SUBSET (NonZero \X NonZero) /\ IsFiniteSet(Inked(frames))
           /\ \A p \in Inked(frames) : CellOf(p) \in Halfwords
           /\ Cardinality(OnScreen(frames)) < SLOTS
<1> DEFINE size == inodes[InodeOf(frames, 1)].size + inodes[InodeOf(frames, 2)].size
<1>1. size \in Nat
  <2>1. inodes[InodeOf(frames, 1)].size \in Nat /\ inodes[InodeOf(frames, 2)].size \in Nat
    BY PictureIs
  <2> QED
    BY <2>1
<1>2. Paper(frames) = (1 .. size) \X (1 .. size)
  BY DEF Paper
<1>3. IsFiniteSet(1 .. size)
  BY <1>1, FS_Interval
<1>4. IsFiniteSet(Paper(frames))
  <2> HIDE DEF size
  <2> QED
    BY <1>2, <1>3, FS_Product
<1>5. Inked(frames) \in SUBSET Paper(frames)
  BY DEF Inked
<1>6. IsFiniteSet(Inked(frames))
  BY <1>4, <1>5, FS_Subset
<1>7. Paper(frames) \in SUBSET (NonZero \X NonZero)
  <2> HIDE DEF size
  <2>1. 1 .. size \in SUBSET NonZero
    BY <1>1 DEF NonZero
  <2> QED
    BY <1>2, <2>1
<1> QED
  BY <1>5, <1>6, <1>7 DEF FramesArePictures, Both

LEMMA OnScreenIs ==
    ASSUME FramesArePictures, NEW frames, Both(frames)
    PROVE  /\ OnScreen(frames) \in SUBSET (NonZero \X NonZero) /\ IsFiniteSet(OnScreen(frames))
           /\ Cardinality(OnScreen(frames)) \in Nat
           /\ Len(Woven(frames)) = Cardinality(OnScreen(frames))
           /\ DOMAIN Woven(frames) = 1 .. Cardinality(OnScreen(frames))
<1>1. OnScreen(frames) \in SUBSET Inked(frames)
  BY DEF OnScreen
<1>2. OnScreen(frames) \in SUBSET (NonZero \X NonZero) /\ IsFiniteSet(OnScreen(frames))
  BY <1>1, InkedIs, FS_Subset
<1>3. Cardinality(OnScreen(frames)) \in Nat
  BY <1>2, FS_CardinalityType
<1> QED
  BY <1>2, <1>3 DEF Woven

\* What is woven of a place.
LEMMA WovenIs ==
    ASSUME FramesArePictures, NEW frames, Both(frames), NEW p \in OnScreen(frames)
    PROVE  LET k == Rank(OnScreen(frames), p) + 1 IN
           /\ k \in 1 .. Len(Woven(frames))
           /\ Woven(frames)[k] = [location |-> CellOf(p), on_char |-> Ink(frames, 1, p[1], p[2]),
                                  off_char |-> Ink(frames, 2, p[1], p[2])]
<1> DEFINE seen == OnScreen(frames)
           k == Rank(seen, p) + 1
           c == CHOOSE q \in seen : Rank(seen, q) = k - 1
<1>1. /\ seen \in SUBSET (NonZero \X NonZero) /\ IsFiniteSet(seen) /\ Cardinality(seen) \in Nat
      /\ Len(Woven(frames)) = Cardinality(seen) /\ p \in seen
  BY OnScreenIs
<1>2. k \in 1 .. Cardinality(seen) /\ \A q \in seen : Rank(seen, q) = Rank(seen, p) => q = p
  <2> HIDE DEF seen
  <2> QED
    BY <1>1, RankFinds
<1>3. Rank(seen, p) \in Nat
  <2>1. Rank(seen, p) \in 0 .. Cardinality(seen)
    <3> HIDE DEF seen
    <3> QED
      BY <1>1, RankFits
  <2> HIDE DEF seen
  <2> QED
    BY <1>1, <2>1
<1>4. k - 1 = Rank(seen, p)
  BY <1>3
<1>5. c = p
  BY <1>2, <1>4
<1>6. Woven(frames)[k] = [location |-> CellOf(c), on_char |-> Ink(frames, 1, c[1], c[2]),
                          off_char |-> Ink(frames, 2, c[1], c[2])]
  BY <1>2 DEF Woven
<1> HIDE DEF c, k
<1> QED
  BY <1>1, <1>2, <1>5, <1>6 DEF k

\* Where a place is, and the 16 bits of it.
LEMMA CellIs ==
    ASSUME NEW r \in NonZero, NEW k \in NonZero
    PROVE  /\ CellOf(<<r, k>>) \in Nat \ {0}
           /\ CellOf(<<r, k>>) = (r - 1) * COLUMNS + (k - 1) + OFFSET
<1>1. COLUMNS \in Nat /\ OFFSET \in Nat /\ OFFSET # 0
  BY FishAssumption
<1>2. r - 1 \in Nat /\ k - 1 \in Nat
  BY DEF NonZero
<1>3. (r - 1) * COLUMNS \in Nat
  BY <1>1, <1>2
<1>4. CellOf(<<r, k>>) = (r - 1) * COLUMNS + k - 1 + OFFSET
  BY DEF CellOf
<1> DEFINE x == (r - 1) * COLUMNS
<1> HIDE DEF x
<1>5. CellOf(<<r, k>>) = x + k - 1 + OFFSET /\ x \in Nat
  BY <1>3, <1>4 DEF x
<1>6. CellOf(<<r, k>>) = x + (k - 1) + OFFSET /\ CellOf(<<r, k>>) \in Nat \ {0}
  BY <1>1, <1>2, <1>5 DEF NonZero
<1> QED
  BY <1>6 DEF x

LEMMA RowLength ==
    ASSUME FramesArePictures, NEW frames, Both(frames), NEW file \in {1, 2}, NEW r
    PROVE  Len(PictureRow(frames, file, r)) \in Nat
<1>1. PictureRow(frames, file, r) = <<>>
      \/ Len(PictureRow(frames, file, r)) \in Nat
  <2>1. CASE \A s \in LineStarts(InodeOf(frames, file)) :
                  LinesBefore(InodeOf(frames, file), s) # r - 1
    BY <2>1, NoRow
  <2>2. CASE \E s \in LineStarts(InodeOf(frames, file)) :
                  LinesBefore(InodeOf(frames, file), s) = r - 1
    <3>1. PICK s \in LineStarts(InodeOf(frames, file)) :
                  LinesBefore(InodeOf(frames, file), s) = r - 1
      BY <2>2
    <3>2. Size(InodeOf(frames, file)) \in Nat
      BY PictureIs
    <3>3. s \in 0 .. Size(InodeOf(frames, file)) /\ Within(InodeOf(frames, file), s, 0)
      BY <3>2 DEF LineStarts, Size, Within
    <3>4. Len(LineAt(InodeOf(frames, file), s)) \in 0 .. Size(InodeOf(frames, file)) - s
      BY <3>2, <3>3, LineHas
    <3>5. Len(LineAt(InodeOf(frames, file), s)) \in Nat
      BY <3>4
    <3> QED
      BY <3>1, <3>5, RowIs
  <2> QED
    BY <2>1, <2>2
<1>2. Len(PictureRow(frames, file, r)) \in Nat
  <2>1. Len(<<>>) \in Nat
    OBVIOUS
  <2> QED
    BY <1>1, <2>1
<1> QED
  BY <1>2

\* No ink behind the ends of both lines.
LEMMA RowEnds ==
    ASSUME FramesArePictures, NEW frames, Both(frames), NEW r \in Nat, NEW k \in Nat,
           \A file \in {1, 2} : Len(PictureRow(frames, file, r)) < k
    PROVE  Rank(OnScreen(frames), <<r + 1, 1>>) = Rank(OnScreen(frames), <<r, k>>)
<1>1. OnScreen(frames) \in SUBSET (NonZero \X NonZero)
  BY OnScreenIs
<1>2. ASSUME NEW p \in OnScreen(frames), p[1] = r PROVE p[2] < k
  <2>1. PICK file \in {1, 2} : Ink(frames, file, p[1], p[2]) # BLANK
    BY DEF OnScreen, Inked
  <2>2. p[2] <= Len(PictureRow(frames, file, r)) /\ Len(PictureRow(frames, file, r)) < k
    BY <1>2, <2>1 DEF Ink
  <2>3. p[2] \in Nat
    BY <1>1 DEF NonZero
  <2>4. Len(PictureRow(frames, file, r)) \in Nat
    BY RowLength
  <2> QED
    BY <2>2, <2>3, <2>4
<1> QED
  BY <1>1, <1>2, RankWraps

LEMMA PicturesEnd ==
    ASSUME FramesArePictures, NEW frames, Both(frames), NEW r \in NonZero,
           \A file \in {1, 2} : NoneFrom(InodeOf(frames, file), r)
    PROVE  Rank(OnScreen(frames), <<r, 1>>) = Cardinality(OnScreen(frames))
<1>1. ASSUME NEW p \in OnScreen(frames) PROVE p[1] < r
  <2>1. PICK file \in {1, 2} : Ink(frames, file, p[1], p[2]) # BLANK
    BY DEF OnScreen, Inked
  <2>2. p[1] \in Nat /\ p[2] \in Nat /\ p[2] # 0
    BY OnScreenIs DEF NonZero
  <2>3. PictureRow(frames, file, p[1]) # <<>>
    <3>1. Len(<<>>) = 0
      OBVIOUS
    <3>2. p[2] <= Len(PictureRow(frames, file, p[1]))
      BY <2>1 DEF Ink
    <3> QED
      BY <2>2, <3>1, <3>2
  <2>4. PICK s \in LineStarts(InodeOf(frames, file)) :
            LinesBefore(InodeOf(frames, file), s) = p[1] - 1
    BY <2>3, NoRow
  <2>5. LinesBefore(InodeOf(frames, file), s) < r - 1
    BY DEF NoneFrom
  <2> QED
    BY <2>2, <2>4, <2>5 DEF NonZero
<1> QED
  BY <1>1, RankEnds

\* Every one that is woven is on the screen.
LEMMA WovenOnScreen ==
    ASSUME FramesArePictures, NEW frames, Both(frames), NEW k \in 1 .. Len(Woven(frames))
    PROVE  Woven(frames)[k].location \in VmemCells
<1> DEFINE seen == OnScreen(frames)
           n == Cardinality(seen)
           rank == [p \in seen |-> Rank(seen, p) + 1]
<1>1. /\ seen \in SUBSET (NonZero \X NonZero) /\ IsFiniteSet(seen) /\ n \in Nat
      /\ Len(Woven(frames)) = n
  BY OnScreenIs
<1>2. ASSUME NEW p \in seen
      PROVE  /\ Rank(seen, p) + 1 \in 1 .. n /\ Rank(seen, p) \in Nat
             /\ \A q \in seen : Rank(seen, q) = Rank(seen, p) => q = p
  <2>1. Rank(seen, p) \in 0 .. n
    <3> HIDE DEF seen
    <3> QED
      BY <1>1, RankFits
  <2>2. Rank(seen, p) \in Nat
    <3> HIDE DEF seen
    <3> QED
      BY <1>1, <2>1
  <2> HIDE DEF seen
  <2> QED
    BY <1>1, <1>2, <2>2, RankFinds
<1>3. rank \in Injection(seen, 1 .. n)
  <2>1. rank \in [seen -> 1 .. n]
    BY <1>2
  <2>2. ASSUME NEW p \in seen, NEW q \in seen, rank[p] = rank[q] PROVE p = q
    <3>1. Rank(seen, p) + 1 = Rank(seen, q) + 1
      BY <2>2
    <3>2. Rank(seen, p) \in Nat /\ Rank(seen, q) \in Nat
      BY <1>2
    <3>3. Rank(seen, p) = Rank(seen, q)
      <4> HIDE DEF seen
      <4> QED
        BY <3>1, <3>2
    <3> QED
      BY <1>2, <3>3
  <2> HIDE DEF rank
  <2> QED
    BY <2>1, <2>2 DEF Injection, IsInjective
<1>4. IsFiniteSet(1 .. n) /\ Cardinality(1 .. n) = n
  <2>1. 1 \in Int /\ n \in Int
    BY <1>1
  <2>2. IsFiniteSet(1 .. n) /\ Cardinality(1 .. n) = IF 1 > n THEN 0 ELSE n - 1 + 1
    BY <2>1, FS_Interval
  <2> HIDE DEF n
  <2> QED
    BY <1>1, <2>2
<1>5. rank \in Surjection(seen, 1 .. n)
  <2> HIDE DEF rank
  <2> QED
    BY <1>3, <1>4, FS_Injection
<1>6. PICK p \in seen : rank[p] = k
  <2>1. k \in 1 .. n
    BY <1>1
  <2> HIDE DEF rank, n, seen
  <2> QED
    BY <1>5, <2>1 DEF Surjection
<1>7. Woven(frames)[k].location = CellOf(p)
  <2>1. k = Rank(seen, p) + 1
    BY <1>6
  <2>2. Woven(frames)[Rank(seen, p) + 1] =
            [location |-> CellOf(p), on_char |-> Ink(frames, 1, p[1], p[2]),
             off_char |-> Ink(frames, 2, p[1], p[2])]
    BY WovenIs
  <2>3. Woven(frames)[Rank(seen, p) + 1].location = CellOf(p)
    <3> DEFINE w == Woven(frames)[Rank(seen, p) + 1]
    <3>1. w = [location |-> CellOf(p), on_char |-> Ink(frames, 1, p[1], p[2]),
               off_char |-> Ink(frames, 2, p[1], p[2])]
      BY <2>2
    <3> HIDE DEF w
    <3>2. w.location = CellOf(p)
      BY <3>1
    <3> QED
      BY <3>2 DEF w
  <2> QED
    BY <2>1, <2>3
<1>8. CellOf(p) \in VmemCells
  <2>1. CellOf(p) < CELLS /\ p \in Inked(frames)
    BY DEF OnScreen
  <2>2. CellOf(p) \in Halfwords /\ CELLS \in Nat
    BY <2>1, InkedIs, BlinkAssumption
  <2>3. PICK c : c = CellOf(p)
    OBVIOUS
  <2>4. c \in Nat /\ c < CELLS /\ CELLS \in Nat
    <3>1. c \in Halfwords /\ c < CELLS
      BY <2>1, <2>2, <2>3
    <3>2. c \in Nat
      BY <3>1, NumbersAre
    <3> QED
      BY <2>2, <3>1, <3>2
  <2>5. c \in VmemCells
    BY <2>4 DEF VmemCells
  <2> QED
    BY <2>3, <2>5
<1> QED
  BY <1>7, <1>8

----------------------------------------------------------------------------
(* The blinkers of the pictures *)

Blinker == [at : Halfwords, on : Chars, off : Chars, on_for : Lengths, off_for : Lengths,
            left : Int, lit : BOOLEAN]

LEMMA StackType ==
    ASSUME BlinkInv
    PROVE  /\ Stack \in Seq(Blinker) /\ Len(Stack) \in Nat
           /\ \A k \in 1 .. Len(Stack) : Stack[k] \in Blinker
           /\ vmem \in [VmemCells -> Chars]
<1>1. PICK s : Listed(s)
  BY DEF BlinkInv
<1>2. Stack = Seen(s, blink_array) /\ s \in Seq(Slots) /\ blink_array \in Arrays /\ Len(s) \in Nat
  BY <1>1, StackIs DEF Listed
<1>3. ASSUME NEW k \in 1 .. Len(s) PROVE BlinkerOf(blink_array[s[k]]) \in Blinker
  <2>1. s[k] \in Slots
    BY <1>2, ElementOfSeq
  <2>2. blink_array[s[k]] \in Structure
    BY <1>2, <2>1 DEF Arrays
  <2> QED
    BY <2>2 DEF Structure, BlinkerOf, Blinker
<1>4. Stack = [k \in 1 .. Len(s) |-> BlinkerOf(blink_array[s[k]])]
  BY <1>2 DEF Seen
<1>5. Stack \in Seq(Blinker)
  BY <1>2, <1>3, <1>4
<1>6. Len(Stack) = Len(s)
  BY <1>2, <1>4
<1>7. \A k \in 1 .. Len(Stack) : Stack[k] \in Blinker
  BY <1>3, <1>4, <1>6
<1> QED
  BY <1>1, <1>2, <1>5, <1>6, <1>7 DEF Listed

LEMMA BlinkStays ==
    ASSUME BlinkInv, UNCHANGED blinkVars
    PROVE  BlinkInv' /\ Stack' = Stack /\ vmem' = vmem
<1>1. PICK s : Listed(s)
  BY DEF BlinkInv
<1>2. Listed(s)'
  BY <1>1 DEF Listed, Links, blinkVars
<1>3. Stack' = Seen(s, blink_array')
  BY <1>2, NextStackIs
<1>4. Stack = Seen(s, blink_array)
  BY <1>1, StackIs
<1> QED
  BY <1>2, <1>3, <1>4 DEF BlinkInv, blinkVars

\* fish clears its array.
LEMMA BlinkCleared ==
    ASSUME blink_array' = [i \in Slots |-> Zeroed], mp1_list_head' = NULL,
           vmem' = [c \in VmemCells |-> 0]
    PROVE  BlinkInv' /\ Stack' = <<>>
<1>0. Len(<<>>) = 0 /\ <<>> \in Seq(Slots)
  BY EmptySeq
<1>1. Zeroed \in Structure
  BY ZeroedIs
<1>2. Listed(<<>>)'
  <2>1. blink_array' \in Arrays /\ \A slot \in Slots : blink_array'[slot].location = 0
    BY <1>1 DEF Arrays, Zeroed
  <2>2. vmem' \in [VmemCells -> Chars]
    BY DEF Chars
  <2> QED
    BY <1>0, <2>1, <2>2 DEF Listed, Links
<1>3. Stack' = Seen(<<>>, blink_array')
  BY <1>2, NextStackIs
<1>4. Seen(<<>>, blink_array') = <<>>
  BY <1>0 DEF Seen
<1> QED
  BY <1>2, <1>3, <1>4 DEF BlinkInv

\* Counted from the oldest, those on the list stay where they are when one is added.
LEMMA OldestStay ==
    ASSUME NEW list \in Seq(Blinker), NEW b \in Blinker
    PROVE  LET more == <<b>> \o list IN
           /\ more \in Seq(Blinker) /\ Len(more) = Len(list) + 1 /\ more[1] = b
           /\ \A k \in 1 .. Len(list) : more[Len(more) + 1 - k] = list[Len(list) + 1 - k]
           /\ more[Len(more) + 1 - (Len(list) + 1)] = b
<1> DEFINE more == <<b>> \o list
<1>0. Len(list) \in Nat
  OBVIOUS
<1>1. /\ more \in Seq(Blinker) /\ Len(more) = Len(list) + 1 /\ more[1] = b
      /\ \A j \in 1 .. Len(list) : more[j + 1] = list[j]
  OBVIOUS
<1>2. ASSUME NEW k \in 1 .. Len(list) PROVE more[Len(more) + 1 - k] = list[Len(list) + 1 - k]
  <2> DEFINE j == Len(list) + 1 - k
  <2>1. j \in 1 .. Len(list) /\ Len(more) + 1 - k = j + 1
    BY <1>0, <1>1
  <2> QED
    BY <1>1, <2>1
<1>3. Len(more) + 1 - (Len(list) + 1) = 1
  BY <1>0, <1>1
<1> QED
  BY <1>1, <1>2, <1>3

\* A blinker of the pictures.
Drew(frames, k, left, lit) ==
    [at |-> Woven(frames)[k].location, on |-> Woven(frames)[k].on_char,
     off |-> Woven(frames)[k].off_char, on_for |-> LENGTH, off_for |-> LENGTH,
     left |-> left, lit |-> lit]

LEMMA OldestGrow ==
    ASSUME NEW list \in Seq(Blinker), NEW b \in Blinker, NEW frames, NEW n \in Nat, NEW left, NEW lit,
           OldestAre(list, frames, n, left, lit)
    PROVE  /\ OldestAre(<<b>> \o list, frames, n, left, lit)
           /\ Len(list) = n /\ b = Drew(frames, n + 1, left, lit) =>
                    OldestAre(<<b>> \o list, frames, n + 1, left, lit)
<1> DEFINE more == <<b>> \o list
<1>0. Len(list) \in Nat /\ n <= Len(list)
  BY DEF OldestAre
<1>1. /\ Len(more) = Len(list) + 1
      /\ \A k \in 1 .. Len(list) : more[Len(more) + 1 - k] = list[Len(list) + 1 - k]
      /\ more[Len(more) + 1 - (Len(list) + 1)] = b
  BY OldestStay
<1>2. ASSUME NEW k \in 1 .. n PROVE more[Len(more) + 1 - k] = Drew(frames, k, left, lit)
  <2>1. k \in 1 .. Len(list)
    BY <1>0
  <2>2. list[Len(list) + 1 - k] = Drew(frames, k, left, lit)
    BY DEF OldestAre, Drew
  <2> HIDE DEF more
  <2> QED
    BY <1>1, <2>1, <2>2
<1> HIDE DEF more
<1>3. OldestAre(more, frames, n, left, lit)
  <2>1. n <= Len(more)
    BY <1>0, <1>1
  <2> QED
    BY <1>2, <2>1 DEF OldestAre, Drew
<1>4. ASSUME Len(list) = n, b = Drew(frames, n + 1, left, lit)
      PROVE  OldestAre(more, frames, n + 1, left, lit)
  <2>1. ASSUME NEW k \in 1 .. n + 1 PROVE more[Len(more) + 1 - k] = Drew(frames, k, left, lit)
    <3>1. k \in 1 .. n \/ k = n + 1
      OBVIOUS
    <3>2. more[Len(more) + 1 - (n + 1)] = Drew(frames, n + 1, left, lit)
      BY <1>1, <1>4
    <3> QED
      BY <1>2, <3>1, <3>2
  <2>2. n + 1 <= Len(more)
    BY <1>1, <1>4
  <2> QED
    BY <2>1, <2>2 DEF OldestAre, Drew
<1> QED
  BY <1>3, <1>4 DEF more

LEMMA AddedIs ==
    ASSUME BlinkInv, NEW r, Fits(r), r.location # 0, mp1_ioctl_add(r)
    PROVE  /\ BlinkInv' /\ New(r) \in Blinker
           /\ IF r.location \in VmemCells /\ Len(Stack) < SLOTS
              THEN Stack' = <<New(r)>> \o Stack /\ vmem' = [vmem EXCEPT ![r.location] = r.on_char]
              ELSE Stack' = Stack /\ vmem' = vmem
<1>1. PICK s : Listed(s)
  BY DEF BlinkInv
<1>2. BlinkInv' /\ B!Add(New(r))
  BY <1>1, AddIs
<1>3. /\ New(r).at = r.location /\ New(r).on = r.on_char /\ New(r).lit = TRUE
      /\ New(r) \in Blinker
  <2>1. /\ r.location \in Halfwords /\ r.on_length \in Lengths /\ r.off_length \in Lengths
        /\ r.on_char \in Chars /\ r.off_char \in Chars
    BY DEF Fits
  <2>2. r.on_length \in Int
    BY <2>1, NumbersAre
  <2> QED
    BY <2>1, <2>2 DEF New, Blinker
<1>4. B!Face(New(r)) = r.on_char
  BY <1>3 DEF B!Face
<1>5. \/ /\ r.location \in VmemCells /\ Len(Stack) < SLOTS
         /\ Stack' = <<New(r)>> \o Stack /\ vmem' = [vmem EXCEPT ![r.location] = r.on_char]
      \/ (r.location \notin VmemCells \/ Len(Stack) = SLOTS) /\ Stack' = Stack /\ vmem' = vmem
  BY <1>2, <1>3, <1>4 DEF B!Add, B!Refuse
<1>6. Len(Stack) = SLOTS => ~(Len(Stack) < SLOTS)
  BY StackType
<1> QED
  BY <1>2, <1>3, <1>5, <1>6

\* What is placed of a place in the pictures.
LEMMA PlacesCell ==
    ASSUME FramesArePictures, NEW frames, Both(frames), BlinkInv,
           NEW r \in NonZero, NEW k \in NonZero,
           DrawnUpTo(Stack, vmem, frames, <<r, k>>),
           Ink(frames, 1, r, k) \in Chars, Ink(frames, 2, r, k) \in Chars,
           NEW at, CellOf(<<r, k>>) \in Halfwords => at = CellOf(<<r, k>>),
           IF \E file \in {1, 2} : Ink(frames, file, r, k) # BLANK
           THEN mp1_ioctl_add(Blinking(at, Ink(frames, 1, r, k), Ink(frames, 2, r, k)))
           ELSE UNCHANGED blinkVars
    PROVE  BlinkInv' /\ DrawnUpTo(Stack', vmem', frames, <<r, k + 1>>)
<1> DEFINE P == OnScreen(frames)
           q == <<r, k>>
           n == Rank(P, q)
           woven == Woven(frames)
<1>0. /\ P \in SUBSET (NonZero \X NonZero) /\ IsFiniteSet(P) /\ Cardinality(P) \in Nat
      /\ Len(woven) = Cardinality(P) /\ DOMAIN woven = 1 .. Cardinality(P)
      /\ Cardinality(P) < SLOTS
  BY OnScreenIs, InkedIs
<1>1. /\ n \in Nat /\ n <= Len(woven) /\ Len(Stack) = n
      /\ OldestAre(Stack, frames, n, LENGTH, TRUE) /\ AreSeen(vmem, frames, n, TRUE)
  <2>1. n \in 0 .. Cardinality(P)
    BY <1>0, RankFits
  <2>2. n \in Nat
    BY <1>0, <2>1
  <2> QED
    BY <2>2 DEF DrawnUpTo
<1>2. Rank(P, <<r, k + 1>>) = n + IF q \in P THEN 1 ELSE 0
  <2>1. r \in Nat /\ k \in Nat
    BY DEF NonZero
  <2> HIDE DEF P
  <2> QED
    BY <1>0, <2>1, RankPasses
<1>3. q \in Inked(frames) <=> \E file \in {1, 2} : Ink(frames, file, r, k) # BLANK
  <2>1. q \in Inked(frames) => \E file \in {1, 2} : Ink(frames, file, r, k) # BLANK
    BY DEF Inked
  <2> QED
    BY <2>1, InkOnPaper
<1>4. CASE ~(\E file \in {1, 2} : Ink(frames, file, r, k) # BLANK)
  <2>1. q \notin P
    BY <1>3, <1>4 DEF OnScreen
  <2>2. Rank(P, <<r, k + 1>>) = n
    BY <1>1, <1>2, <2>1
  <2>3. BlinkInv' /\ Stack' = Stack /\ vmem' = vmem
    BY <1>4, BlinkStays
  <2> QED
    BY <2>2, <2>3 DEF DrawnUpTo
<1>5. CASE \E file \in {1, 2} : Ink(frames, file, r, k) # BLANK
  <2> DEFINE c == CellOf(q)
             b == Blinking(c, Ink(frames, 1, r, k), Ink(frames, 2, r, k))
  <2>1. c \in Halfwords /\ c # 0 /\ q \in Inked(frames)
    BY <1>3, <1>5, InkedIs, CellIs
  <2>2. at = c
    BY <2>1
  <2>3. mp1_ioctl_add(b)
    BY <1>5, <2>2
  <2>4. /\ b.location = c /\ b.on_char = Ink(frames, 1, r, k) /\ b.off_char = Ink(frames, 2, r, k)
        /\ b.on_length = LENGTH /\ b.off_length = LENGTH /\ Fits(b)
    BY <2>1, FishAssumption DEF Blinking, Fits
  <2>5. /\ BlinkInv' /\ New(b) \in Blinker
        /\ IF c \in VmemCells /\ Len(Stack) < SLOTS
           THEN Stack' = <<New(b)>> \o Stack /\ vmem' = [vmem EXCEPT ![c] = Ink(frames, 1, r, k)]
           ELSE Stack' = Stack /\ vmem' = vmem
    <3> HIDE DEF b, c
    <3> QED
      BY <2>1, <2>3, <2>4, AddedIs
  <2>6. CASE q \notin P
    <3>1. ~(c < CELLS)
      BY <2>1, <2>6 DEF OnScreen
    <3>2. c \notin VmemCells
      <4>0. CELLS \in Nat
        BY BlinkAssumption
      <4> HIDE DEF c
      <4> QED
        BY <3>1, <4>0 DEF VmemCells
    <3>3. BlinkInv' /\ Stack' = Stack /\ vmem' = vmem
      BY <2>5, <3>2
    <3>4. Rank(P, <<r, k + 1>>) = n
      BY <1>1, <1>2, <2>6
    <3> QED
      BY <3>3, <3>4 DEF DrawnUpTo
  <2>7. CASE q \in P
    <3>1. c \in VmemCells
      <4>0. CELLS \in Nat /\ c \in Nat /\ c < CELLS
        BY <2>1, <2>7, BlinkAssumption, NumbersAre DEF OnScreen
      <4> HIDE DEF c
      <4> QED
        BY <4>0 DEF VmemCells
    <3>2. /\ n + 1 \in 1 .. Len(woven)
          /\ woven[n + 1] = [location |-> c, on_char |-> Ink(frames, 1, r, k),
                             off_char |-> Ink(frames, 2, r, k)]
      <4>1. LET j == Rank(OnScreen(frames), q) + 1 IN
               /\ j \in 1 .. Len(Woven(frames))
               /\ Woven(frames)[j] = [location |-> CellOf(q), on_char |-> Ink(frames, 1, q[1], q[2]),
                                      off_char |-> Ink(frames, 2, q[1], q[2])]
        BY <2>7, WovenIs
      <4> QED
        BY <4>1
    <3>3. n + 1 <= Len(woven) /\ Len(Stack) < SLOTS
      <4> HIDE DEF n, P, woven
      <4>0. SLOTS \in Nat
        BY BlinkAssumption
      <4> QED
        BY <1>0, <1>1, <3>2, <4>0
    <3>4. Stack' = <<New(b)>> \o Stack /\ vmem' = [vmem EXCEPT ![c] = Ink(frames, 1, r, k)]
      BY <2>5, <3>1, <3>3
    <3>5. New(b) = Drew(frames, n + 1, LENGTH, TRUE)
      <4> DEFINE w == woven[n + 1]
      <4>1. w.location = c /\ w.on_char = Ink(frames, 1, r, k) /\ w.off_char = Ink(frames, 2, r, k)
        <5>1. w = [location |-> c, on_char |-> Ink(frames, 1, r, k),
                             off_char |-> Ink(frames, 2, r, k)]
          BY <3>2
        <5> HIDE DEF w
        <5> QED
          BY <5>1
      <4>2. Drew(frames, n + 1, LENGTH, TRUE) =
                [at |-> w.location, on |-> w.on_char, off |-> w.off_char, on_for |-> LENGTH,
                 off_for |-> LENGTH, left |-> LENGTH, lit |-> TRUE]
        BY DEF Drew
      <4> HIDE DEF w, b
      <4> QED
        BY <2>4, <4>1, <4>2 DEF New
    <3>6. Len(Stack') = n + 1 /\ OldestAre(Stack', frames, n + 1, LENGTH, TRUE)
      <4>1. Stack \in Seq(Blinker) /\ New(b) \in Blinker
        BY <2>5, StackType
      <4>2. OldestAre(<<New(b)>> \o Stack, frames, n + 1, LENGTH, TRUE)
        BY <1>1, <3>5, <4>1, OldestGrow
      <4>3. Len(<<New(b)>> \o Stack) = Len(Stack) + 1
        BY <4>1, OldestStay
      <4> QED
        BY <1>1, <3>4, <4>2, <4>3
    <3>7. ASSUME NEW j \in 1 .. n + 1, Single(woven, j)
          PROVE  vmem'[woven[j].location] = woven[j].on_char
      <4>0. vmem \in [VmemCells -> Chars] /\ woven[n + 1].location = c
            /\ woven[n + 1].on_char = Ink(frames, 1, r, k)
        BY <3>2, StackType
      <4>1. CASE j = n + 1
        BY <3>1, <3>4, <4>0, <4>1
      <4>2. CASE j # n + 1
        <5>1. j \in 1 .. n /\ n + 1 \in DOMAIN woven \ {j}
          BY <1>0, <1>1, <3>2, <4>2
        <5>2. woven[n + 1].location # woven[j].location
          BY <3>7, <5>1 DEF Single
        <5>3. vmem[woven[j].location] = woven[j].on_char
          BY <1>1, <3>7, <5>1 DEF AreSeen
        <5>4. j \in 1 .. Len(woven)
          BY <1>0, <1>1, <5>1
        <5>5. woven[j].location \in VmemCells
          BY <5>4, WovenOnScreen
        <5> QED
          BY <3>4, <4>0, <5>2, <5>3, <5>5
      <4> QED
        BY <4>1, <4>2
    <3>8. AreSeen(vmem', frames, n + 1, TRUE)
      BY <3>7 DEF AreSeen
    <3>9. Rank(P, <<r, k + 1>>) = n + 1
      BY <1>2, <2>7
    <3> QED
      BY <2>5, <3>3, <3>6, <3>8, <3>9 DEF DrawnUpTo
  <2> QED
    BY <2>6, <2>7
<1> QED
  BY <1>4, <1>5

\* One that has its turn.
LEMMA AfterDrew ==
    ASSUME NEW frames, NEW k, NEW left \in 0 .. LENGTH, NEW lit \in BOOLEAN
    PROVE  LET due == left <= 1
               left2 == IF due THEN LENGTH ELSE left - 1
               lit2 == IF due THEN ~lit ELSE lit
           IN  /\ left2 \in 0 .. LENGTH /\ lit2 \in BOOLEAN
               /\ B!Due(Drew(frames, k, left, lit)) = due
               /\ B!After(Drew(frames, k, left, lit)) = Drew(frames, k, left2, lit2)
<1> DEFINE due == left <= 1
           left2 == IF due THEN LENGTH ELSE left - 1
           lit2 == IF due THEN ~lit ELSE lit
           w == Woven(frames)[k]
<1>1. LENGTH \in Nat
  <2>1. LENGTH \in Lengths
    BY FishAssumption
  <2> QED
    BY <2>1, NumbersAre
<1>2. left2 \in 0 .. LENGTH
  BY <1>1
<1>3. lit2 \in BOOLEAN /\ due \in BOOLEAN
  <2>1. due = TRUE \/ due = FALSE
    OBVIOUS
  <2> HIDE DEF due
  <2>2. lit2 = lit \/ lit2 = ~lit
    BY <2>1
  <2> HIDE DEF lit2
  <2> QED
    BY <2>1, <2>2
<1>4. \A l, t : Drew(frames, k, l, t) =
        [at |-> w.location, on |-> w.on_char, off |-> w.off_char, on_for |-> LENGTH,
         off_for |-> LENGTH, left |-> l, lit |-> t]
  BY DEF Drew
<1> HIDE DEF w
<1> DEFINE b == [at |-> w.location, on |-> w.on_char, off |-> w.off_char, on_for |-> LENGTH,
                 off_for |-> LENGTH, left |-> left, lit |-> lit]
<1>5. B!Due(b) = due
  BY <1>3 DEF B!Due
<1>6. B!After(b) = [at |-> w.location, on |-> w.on_char, off |-> w.off_char, on_for |-> LENGTH,
                    off_for |-> LENGTH, left |-> left2, lit |-> lit2]
  <2>1. CASE due
    <3>1. B!After(b) = [b EXCEPT !.lit = ~lit, !.left = LENGTH]
      BY <1>5, <2>1 DEF B!After
    <3>2. left2 = LENGTH /\ lit2 = ~lit
      BY <2>1
    <3> HIDE DEF left2, lit2, due
    <3> QED
      BY <3>1, <3>2
  <2>2. CASE ~due
    <3>1. B!After(b) = [b EXCEPT !.left = left - 1]
      BY <1>5, <2>2 DEF B!After
    <3>2. left2 = left - 1 /\ lit2 = lit
      BY <2>2
    <3> HIDE DEF left2, lit2, due
    <3> QED
      BY <3>1, <3>2
  <2> QED
    BY <2>1, <2>2
<1> HIDE DEF left2, lit2, due, b
<1>7. b = Drew(frames, k, left, lit)
  BY <1>4 DEF b
<1>8. B!After(b) = Drew(frames, k, left2, lit2)
  BY <1>4, <1>6
<1> QED
  BY <1>2, <1>3, <1>5, <1>7, <1>8 DEF left2, lit2, due

LEMMA AfterExtra ==
    ASSUME NEW b \in Blinker, IsExtra(b)
    PROVE  IsExtra(B!After(b)) /\ B!After(b).at = EXTRA
<1>1. \/ B!After(b) = [b EXCEPT !.lit = ~b.lit, !.left = IF b.lit THEN b.off_for ELSE b.on_for]
      \/ B!After(b) = [b EXCEPT !.left = @ - 1]
  BY DEF B!After
<1>2. /\ B!After(b).at = b.at /\ B!After(b).on = b.on /\ B!After(b).off = b.off
  BY <1>1 DEF Blinker
<1> QED
  BY <1>2 DEF IsExtra

\* The blinkers on the list, from the oldest to the newest.
LEMMA ListEnds ==
    ASSUME NEW n \in Nat, NEW L \in {n, n + 1}, NEW x \in 1 .. L
    PROVE  \/ L + 1 - x \in 1 .. n /\ x = L + 1 - (L + 1 - x)
           \/ L = n + 1 /\ x = 1
OBVIOUS

LEMMA MaxOfOne ==
    ASSUME NEW x \in Nat
    PROVE  B!Max({x}) = x
BY DEF B!Max

LEMMA TicksInStep ==
    ASSUME FramesArePictures, NEW frames, Both(frames), BlinkInv, NEW act \in 1 .. 4,
           InStep(Stack, vmem, frames, act), mp1_rtc_tasklet
    PROVE  BlinkInv' /\ InStep(Stack', vmem', frames, act)
<1> DEFINE n == Len(Woven(frames))
           L == Len(Stack)
           woven == Woven(frames)
           changing(c) == {k \in DOMAIN Stack : Stack[k].at = c /\ B!Due(Stack[k])}
<1>0. /\ n \in Nat /\ L \in Nat /\ Stack \in Seq(Blinker) /\ vmem \in [VmemCells -> Chars]
      /\ DOMAIN Stack = 1 .. L /\ DOMAIN woven = 1 .. n
      /\ \A k \in 1 .. L : Stack[k] \in Blinker
  BY StackType, OnScreenIs
<1>1. PICK left \in 0 .. LENGTH, lit \in BOOLEAN :
        OldestAre(Stack, frames, n, left, lit) /\ AreSeen(vmem, frames, n, lit)
  BY DEF InStep
<1>2. IF act \in {2, 3} THEN L = n + 1 /\ IsExtra(Stack[1]) ELSE L = n
  BY DEF InStep
<1> DEFINE due == left <= 1
           left2 == IF due THEN LENGTH ELSE left - 1
           lit2 == IF due THEN ~lit ELSE lit
<1>3. BlinkInv' /\ B!Tick
  <2>1. PICK s : Listed(s)
    BY DEF BlinkInv
  <2> QED
    BY <2>1, TickIs
<1>4. /\ Stack' = [k \in DOMAIN Stack |-> B!After(Stack[k])]
      /\ vmem' = [c \in VmemCells |-> IF changing(c) = {} THEN vmem[c]
                                      ELSE B!Face(Stack'[B!Max(changing(c))])]
  BY <1>3 DEF B!Tick
<1>5. Len(Stack') = L /\ \A k \in 1 .. L : Stack'[k] = B!After(Stack[k])
  <2> HIDE DEF L
  <2> QED
    BY <1>0, <1>4
<1>6. left2 \in 0 .. LENGTH /\ lit2 \in BOOLEAN
  BY AfterDrew
<1>7. ASSUME NEW k \in 1 .. n
      PROVE  /\ L + 1 - k \in 1 .. L /\ Stack[L + 1 - k] = Drew(frames, k, left, lit)
             /\ Stack'[L + 1 - k] = Drew(frames, k, left2, lit2)
             /\ B!Due(Stack[L + 1 - k]) = due
  <2>1. L + 1 - k \in 1 .. L
    <3> HIDE DEF L, n
    <3> QED
      BY <1>0, <1>2
  <2>2. Stack[L + 1 - k] = Drew(frames, k, left, lit)
    BY <1>1 DEF OldestAre, Drew
  <2>3. Stack'[L + 1 - k] = B!After(Stack[L + 1 - k])
    BY <1>5, <2>1
  <2>4. /\ B!Due(Drew(frames, k, left, lit)) = due
        /\ B!After(Drew(frames, k, left, lit)) = Drew(frames, k, left2, lit2)
    BY AfterDrew
  <2> HIDE DEF L, n, left2, lit2, due
  <2> QED
    BY <2>1, <2>2, <2>3, <2>4
<1>8. OldestAre(Stack', frames, n, left2, lit2)
  <2>1. n <= Len(Stack')
    <3> HIDE DEF L, n
    <3> QED
      BY <1>0, <1>2, <1>5
  <2>2. \A k \in 1 .. n : Stack'[Len(Stack') + 1 - k] = Drew(frames, k, left2, lit2)
    BY <1>5, <1>7
  <2> HIDE DEF left2, lit2, L
  <2> QED
    BY <2>1, <2>2 DEF OldestAre, Drew
<1>9. IF act \in {2, 3} THEN Len(Stack') = n + 1 /\ IsExtra(Stack'[1]) ELSE Len(Stack') = n
  <2>1. CASE act \in {2, 3}
    <3>1. 1 \in 1 .. L
      <4> HIDE DEF L, n
      <4> QED
        BY <1>0, <1>2, <2>1
    <3>2. Stack[1] \in Blinker /\ IsExtra(Stack[1]) /\ Stack'[1] = B!After(Stack[1])
      BY <1>0, <1>2, <1>5, <2>1, <3>1
    <3>3. IsExtra(Stack'[1])
      BY <3>2, AfterExtra
    <3> QED
      BY <1>2, <1>5, <2>1, <3>3
  <2>2. CASE act \notin {2, 3}
    BY <1>2, <1>5, <2>2
  <2> QED
    BY <2>1, <2>2
<1>10. ASSUME NEW k \in 1 .. n, Single(woven, k)
       PROVE  vmem'[woven[k].location] = IF lit2 THEN woven[k].on_char ELSE woven[k].off_char
  <2> DEFINE c == woven[k].location
             y == L + 1 - k
  <2>1. c \in VmemCells /\ c # EXTRA
    BY <1>10, WovenOnScreen DEF Single
  <2>2. y \in 1 .. L /\ y \in Nat /\ Stack[y].at = c /\ B!Due(Stack[y]) = due
    <3>1. y \in 1 .. L /\ Stack[y] = Drew(frames, k, left, lit) /\ B!Due(Stack[y]) = due
      BY <1>7
    <3>2. Stack[y].at = c
      BY <3>1 DEF Drew
    <3>3. y \in Nat
      <4> HIDE DEF y, L
      <4> QED
        BY <1>0, <3>1
    <3> QED
      BY <3>1, <3>2, <3>3
  <2>3. ASSUME NEW x \in 1 .. L, Stack[x].at = c PROVE x = y
    <3>1. L \in {n, n + 1}
      BY <1>2
    <3>2. CASE L = n + 1 /\ x = 1 /\ act \in {2, 3}
      BY <1>2, <2>1, <2>3, <3>2 DEF IsExtra
    <3>3. CASE L + 1 - x \in 1 .. n /\ x = L + 1 - (L + 1 - x)
      <4> DEFINE j == L + 1 - x
      <4>1. Stack[x] = Drew(frames, j, left, lit)
        BY <1>7, <3>3
      <4>2. woven[j].location = c
        BY <2>3, <4>1 DEF Drew
      <4>3. j = k
        BY <1>0, <1>10, <3>3, <4>2 DEF Single
      <4> HIDE DEF L, n
      <4> QED
        BY <1>0, <4>3
    <3>4. \/ L + 1 - x \in 1 .. n /\ x = L + 1 - (L + 1 - x)
          \/ L = n + 1 /\ x = 1
      <4> HIDE DEF L, n
      <4> QED
        BY <1>0, <3>1, ListEnds
    <3>5. L = n + 1 => act \in {2, 3}
      <4> HIDE DEF L, n
      <4> QED
        BY <1>0, <1>2
    <3> QED
      BY <3>2, <3>3, <3>4, <3>5
  <2>4. CASE due
    <3>1. changing(c) = {y}
      <4> HIDE DEF c, y, L, due
      <4> QED
        BY <1>0, <2>2, <2>3, <2>4
    <3>2. B!Max(changing(c)) = y /\ changing(c) # {}
      <4> HIDE DEF changing, c, y
      <4> QED
        BY <2>2, <3>1, MaxOfOne
    <3>3. vmem'[c] = B!Face(Stack'[y])
      <4> HIDE DEF changing, c, y
      <4> QED
        BY <1>4, <2>1, <3>2
    <3>4. Stack'[y] = Drew(frames, k, left2, lit2)
      BY <1>7
    <3>5. B!Face(Stack'[y]) = IF lit2 THEN woven[k].on_char ELSE woven[k].off_char
      <4> HIDE DEF lit2, left2, y
      <4> QED
        BY <3>4 DEF B!Face, Drew
    <3> QED
      BY <3>3, <3>5
  <2>5. CASE ~due
    <3>1. changing(c) = {}
      <4> HIDE DEF c, y, L, due
      <4> QED
        BY <1>0, <2>2, <2>3, <2>5
    <3>2. vmem'[c] = vmem[c]
      <4> HIDE DEF changing, c
      <4> QED
        BY <1>4, <2>1, <3>1
    <3>3. lit2 = lit
      BY <2>5
    <3>4. vmem[c] = IF lit THEN woven[k].on_char ELSE woven[k].off_char
      BY <1>1, <1>10 DEF AreSeen
    <3> HIDE DEF lit2
    <3> QED
      BY <3>2, <3>3, <3>4
  <2> QED
    BY <2>4, <2>5
<1>11. AreSeen(vmem', frames, n, lit2)
  <2> HIDE DEF lit2
  <2> QED
    BY <1>10 DEF AreSeen
<1> HIDE DEF left2, lit2
<1> QED
  BY <1>3, <1>6, <1>8, <1>9, <1>11 DEF InStep

LEMMA ExtraIs ==
    /\ EXTRA \in VmemCells /\ EXTRA # 0 /\ Fits(Extra) /\ Extra.location = EXTRA
    /\ IsExtra(New(Extra))
<1>1. EXTRA \in Halfwords \ {0} /\ EXTRA < CELLS /\ CELLS \in Nat
  BY FishAssumption, BlinkAssumption
<1>2. EXTRA \in Nat
  BY <1>1, NumbersAre
<1>3. EXTRA \in VmemCells
  BY <1>1, <1>2 DEF VmemCells
<1>4. 73 \in Chars /\ 77 \in Chars
  BY DEF Chars
<1>5. EXTRA_ON \in Lengths /\ EXTRA_OFF \in Lengths
  BY FishAssumption
<1> QED
  BY <1>1, <1>3, <1>4, <1>5 DEF Extra, Fits, IsExtra, New

\* The one more comes.
LEMMA AddsExtra ==
    ASSUME FramesArePictures, NEW frames, Both(frames), BlinkInv,
           InStep(Stack, vmem, frames, 1), mp1_ioctl_add(Extra)
    PROVE  BlinkInv' /\ InStep(Stack', vmem', frames, 2)
<1> DEFINE n == Len(Woven(frames))
           woven == Woven(frames)
<1>0. /\ n \in Nat /\ n < SLOTS /\ DOMAIN woven = 1 .. n
      /\ Stack \in Seq(Blinker) /\ vmem \in [VmemCells -> Chars]
  BY StackType, OnScreenIs, InkedIs
<1>1. PICK left \in 0 .. LENGTH, lit \in BOOLEAN :
        OldestAre(Stack, frames, n, left, lit) /\ AreSeen(vmem, frames, n, lit)
  BY DEF InStep
<1>2. Len(Stack) = n
  BY DEF InStep
<1>3. /\ BlinkInv' /\ New(Extra) \in Blinker
      /\ Stack' = <<New(Extra)>> \o Stack /\ vmem' = [vmem EXCEPT ![EXTRA] = Extra.on_char]
  BY <1>0, <1>2, ExtraIs, AddedIs
<1>4. OldestAre(Stack', frames, n, left, lit)
  BY <1>0, <1>1, <1>3, OldestGrow
<1>5. Len(Stack') = n + 1 /\ Stack'[1] = New(Extra)
  BY <1>0, <1>2, <1>3, OldestStay
<1>6. ASSUME NEW k \in 1 .. n, Single(woven, k)
      PROVE  vmem'[woven[k].location] = vmem[woven[k].location]
  <2>1. woven[k].location # EXTRA /\ woven[k].location \in VmemCells
    BY <1>6, WovenOnScreen DEF Single
  <2> QED
    BY <1>0, <1>3, <2>1
<1>7. AreSeen(vmem', frames, n, lit)
  BY <1>1, <1>6 DEF AreSeen
<1>8. IsExtra(Stack'[1])
  BY <1>5, ExtraIs
<1> QED
  BY <1>3, <1>4, <1>5, <1>7, <1>8 DEF InStep

\* It is the newest, which every search for its location finds.
LEMMA FindsExtra ==
    ASSUME NEW list, NEW k \in DOMAIN list, B!Newest(list, EXTRA, k), Len(list) \in Nat,
           DOMAIN list = 1 .. Len(list), IsExtra(list[1])
    PROVE  k = 1
<1>1. k \in 1 .. Len(list) /\ \A j \in 1 .. k - 1 : list[j].at # EXTRA
  BY DEF B!Newest
<1>2. list[1].at = EXTRA
  BY DEF IsExtra
<1>3. 1 \notin 1 .. k - 1
  BY <1>1, <1>2
<1> QED
  BY <1>1, <1>3

LEMMA SyncsExtra ==
    ASSUME FramesArePictures, NEW frames, Both(frames), BlinkInv,
           InStep(Stack, vmem, frames, 2), mp1_ioctl_sync(OFFSET, EXTRA)
    PROVE  BlinkInv' /\ InStep(Stack', vmem', frames, 3)
<1> DEFINE n == Len(Woven(frames))
           woven == Woven(frames)
<1>0. /\ n \in Nat /\ DOMAIN woven = 1 .. n
      /\ Stack \in Seq(Blinker) /\ vmem \in [VmemCells -> Chars]
      /\ DOMAIN Stack = 1 .. Len(Stack) /\ \A k \in 1 .. Len(Stack) : Stack[k] \in Blinker
  BY StackType, OnScreenIs
<1>1. PICK left \in 0 .. LENGTH, lit \in BOOLEAN :
        OldestAre(Stack, frames, n, left, lit) /\ AreSeen(vmem, frames, n, lit)
  BY DEF InStep
<1>2. Len(Stack) = n + 1 /\ IsExtra(Stack[1])
  BY DEF InStep
<1>3. BlinkInv' /\ B!Sync(OFFSET, EXTRA)
  <2>1. PICK s : Listed(s)
    BY DEF BlinkInv
  <2> QED
    BY <2>1, SyncIs
<1>4. CASE Stack' = Stack /\ vmem' = vmem
  BY <1>1, <1>2, <1>3, <1>4 DEF InStep
<1>5. CASE \E j, k \in DOMAIN Stack :
            /\ B!Newest(Stack, OFFSET, j) /\ B!Newest(Stack, EXTRA, k)
            /\ vmem' = [vmem EXCEPT ![EXTRA] = Stack[k].off]
            /\ Stack' = [Stack EXCEPT ![k] =
                    [Stack[j] EXCEPT !.at = EXTRA, !.on = Stack[k].on, !.off = Stack[k].off]]
  <2>1. PICK j \in DOMAIN Stack, k \in DOMAIN Stack :
            /\ B!Newest(Stack, EXTRA, k)
            /\ vmem' = [vmem EXCEPT ![EXTRA] = Stack[k].off]
            /\ Stack' = [Stack EXCEPT ![k] =
                    [Stack[j] EXCEPT !.at = EXTRA, !.on = Stack[k].on, !.off = Stack[k].off]]
    BY <1>5
  <2>2. k = 1
    <3>1. Len(Stack) \in Nat
      BY <1>0
    <3> QED
      BY <1>0, <1>2, <2>1, <3>1, FindsExtra
  <2> DEFINE b == [Stack[j] EXCEPT !.at = EXTRA, !.on = Stack[1].on, !.off = Stack[1].off]
  <2>3. Stack[j] \in Blinker
    BY <1>0
  <2>4. b.at = EXTRA /\ b.on = Stack[1].on /\ b.off = Stack[1].off
    BY <2>3 DEF Blinker
  <2>5. IsExtra(b)
    BY <1>2, <2>4 DEF IsExtra
  <2>6. Stack' = [Stack EXCEPT ![1] = b]
    BY <2>1, <2>2
  <2> HIDE DEF b
  <2>7. /\ DOMAIN Stack' = 1 .. n + 1 /\ Stack'[1] = b
        /\ \A x \in 1 .. n + 1 : x # 1 => Stack'[x] = Stack[x]
    BY <1>0, <1>2, <2>6
  <2>8. Len(Stack') = n + 1
    BY <1>0, <1>2, <2>6
  <2>9. ASSUME NEW x \in 1 .. n PROVE Stack'[Len(Stack') + 1 - x] = Drew(frames, x, left, lit)
    <3>1. n + 1 + 1 - x \in 1 .. n + 1 /\ n + 1 + 1 - x # 1
      <4> HIDE DEF n
      <4> QED
        BY <1>0
    <3>2. Stack[Len(Stack) + 1 - x] = Drew(frames, x, left, lit)
      BY <1>1 DEF OldestAre, Drew
    <3> QED
      BY <1>2, <2>7, <2>8, <3>1, <3>2
  <2>10. OldestAre(Stack', frames, n, left, lit)
    <3>1. n <= Len(Stack')
      <4> HIDE DEF n
      <4> QED
        BY <1>0, <2>8
    <3> QED
      BY <2>9, <3>1 DEF OldestAre, Drew
  <2>11. ASSUME NEW x \in 1 .. n, Single(woven, x)
         PROVE  vmem'[woven[x].location] = vmem[woven[x].location]
    <3>1. woven[x].location # EXTRA /\ woven[x].location \in VmemCells
      BY <2>11, WovenOnScreen DEF Single
    <3> QED
      BY <1>0, <2>1, <3>1
  <2>12. AreSeen(vmem', frames, n, lit)
    BY <1>1, <2>11 DEF AreSeen
  <2>13. IsExtra(Stack'[1])
    BY <2>5, <2>7
  <2> QED
    BY <1>3, <2>8, <2>10, <2>12, <2>13 DEF InStep
<1> QED
  BY <1>3, <1>4, <1>5 DEF B!Sync, B!Refuse

LEMMA StopsExtra ==
    ASSUME FramesArePictures, NEW frames, Both(frames), BlinkInv,
           InStep(Stack, vmem, frames, 3), mp1_ioctl_remove(EXTRA)
    PROVE  BlinkInv' /\ InStep(Stack', vmem', frames, 4)
<1> DEFINE n == Len(Woven(frames))
<1>0. /\ n \in Nat /\ Stack \in Seq(Blinker) /\ DOMAIN Stack = 1 .. Len(Stack)
  BY StackType, OnScreenIs
<1>1. PICK left \in 0 .. LENGTH, lit \in BOOLEAN :
        OldestAre(Stack, frames, n, left, lit) /\ AreSeen(vmem, frames, n, lit)
  BY DEF InStep
<1>2. Len(Stack) = n + 1 /\ IsExtra(Stack[1])
  BY DEF InStep
<1>i. 1 \in 1 .. n + 1
  <2> HIDE DEF n
  <2> QED
    BY <1>0
<1>3. BlinkInv' /\ B!Stop(EXTRA)
  <2>1. PICK s : Listed(s)
    BY DEF BlinkInv
  <2> QED
    BY <2>1, RemoveIs
<1>4. ~B!NoneAt(Stack, EXTRA)
  <2>1. 1 \in DOMAIN Stack /\ Stack[1].at = EXTRA
    BY <1>0, <1>2, <1>i DEF IsExtra
  <2> QED
    BY <2>1 DEF B!NoneAt
<1>5. PICK k \in DOMAIN Stack : B!Newest(Stack, EXTRA, k) /\ Stack' = RemoveAt(Stack, k)
  <2>1. \/ \E k \in DOMAIN Stack : B!Newest(Stack, EXTRA, k) /\ Stack' = B!RemoveAt(Stack, k)
        \/ B!NoneAt(Stack, EXTRA)
    BY <1>3 DEF B!Stop
  <2>2. \A k : B!RemoveAt(Stack, k) = RemoveAt(Stack, k)
    BY DEF B!RemoveAt, RemoveAt
  <2> QED
    BY <1>4, <2>1, <2>2
<1>6. vmem' = vmem
  BY <1>3, <1>4 DEF B!Stop
<1>7. k = 1
  <2>1. Len(Stack) \in Nat
    BY <1>0
  <2> QED
    BY <1>0, <1>2, <1>5, <2>1, FindsExtra
<1>8. /\ Len(Stack') = n
      /\ \A x \in 1 .. n : Stack'[x] = Stack[x + 1]
  <2>1. 1 \in 1 .. Len(Stack) /\ Stack' = RemoveAt(Stack, 1)
    BY <1>2, <1>5, <1>7, <1>i
  <2>2. /\ Len(Stack') = Len(Stack) - 1
        /\ \A x \in 1 .. Len(Stack) - 1 :
                Stack'[x] = IF x < 1 THEN Stack[x] ELSE Stack[x + 1]
    BY <1>0, <2>1, RemoveAtIs
  <2>3. Len(Stack) - 1 = n
    <3> HIDE DEF n
    <3> QED
      BY <1>0, <1>2
  <2>4. \A x \in 1 .. n : ~(x < 1)
    OBVIOUS
  <2> HIDE DEF n
  <2> QED
    BY <2>2, <2>3, <2>4
<1>9. ASSUME NEW x \in 1 .. n PROVE Stack'[Len(Stack') + 1 - x] = Drew(frames, x, left, lit)
  <2>1. n + 1 - x \in 1 .. n /\ (n + 1 - x) + 1 = n + 1 + 1 - x
    <3> HIDE DEF n
    <3> QED
      BY <1>0
  <2>2. Stack[Len(Stack) + 1 - x] = Drew(frames, x, left, lit)
    BY <1>1 DEF OldestAre, Drew
  <2>3. Stack'[n + 1 - x] = Stack[n + 1 + 1 - x]
    BY <1>8, <2>1
  <2> QED
    BY <1>2, <1>8, <2>2, <2>3
<1>10. OldestAre(Stack', frames, n, left, lit)
  <2>1. n <= Len(Stack')
    <3> HIDE DEF n
    <3> QED
      BY <1>0, <1>8
  <2> QED
    BY <1>9, <2>1 DEF OldestAre, Drew
<1> QED
  BY <1>1, <1>3, <1>6, <1>8, <1>10 DEF InStep

----------------------------------------------------------------------------
(* A character of a picture *)

\* A picture is found by its name and can be opened.
LEMMA OpensPicture ==
    ASSUME FramesArePictures, fds \in Tables, NEW frames \in Frames, NEW file \in {1, 2},
           Open(Pid, frames[file]), reply'.value # -1
    PROVE  /\ ~NoDentry(frames[file]) /\ reply'.value \in Fds
           /\ AtOffset(fds'[Pid][reply'.value], InodeOf(frames, file), 0)
<1> DEFINE name == frames[file]
<1>0. Pid \in Pids
  BY PidsAre
<1>1. PICK i \in 1 .. Len(dentries), fd \in Fds :
        read_dentry_by_name(name, i) /\ OpenDentry(Pid, fd, dentries[i])
  BY DEF Open, Returns
<1>2. FirstDentry(name) = dentries[i] /\ ~NoDentry(name)
  BY <1>1, FirstDentryIs
<1>3. FirstDentry(name).type = FILE_REGULAR /\ GoodFile(InodeOf(frames, file))
  BY <1>2 DEF FramesArePictures
<1>4. dentries[i].type = FILE_REGULAR /\ InodeOf(frames, file) = dentries[i].inode
  BY <1>2, <1>3 DEF InodeOf
<1>5. dentries[i].inode \in Nat
  BY DentryType DEF Dentry
<1>6. FileChecks(dentries[i].inode)
  BY <1>3, <1>4, <1>5, GoodFilePasses
<1>7. file_open(Pid, fd, dentries[i].inode) /\ reply'.value = fd
  BY <1>1, <1>4, <1>6 DEF OpenDentry, Returns, FILE_REGULAR, FILE_DIRECTORY, FILE_RTC
<1>8. fds'[Pid][fd] = Opened("regular", dentries[i].inode)
  BY <1>0, <1>7 DEF file_open, SetDesc, Tables
<1>9. AtOffset(fds'[Pid][fd], dentries[i].inode, 0)
  BY <1>8 DEF Opened, AtOffset
<1> QED
  BY <1>2, <1>4, <1>7, <1>9

\* read() of the next character of a line.
LEMMA ReadsPicture ==
    ASSUME FramesArePictures, fds \in Tables, NEW l, Both(l.frames), NEW file \in {1, 2},
           NEW fd \in Fds, l.fd[file] = fd, l.col \in Nat, InLine(l, file, l.col, fds[Pid][fd]),
           Read(Pid, fd, 1)
    PROVE  IF reader' = Pid THEN IsReading(l, file, fds'[Pid][fd], rd')
           ELSE HasRead(l, file, fds'[Pid][fd], reply')
<1> DEFINE d == fds[Pid][fd]
           inode == InodeOf(l.frames, file)
           size == Size(inode)
<1>0. size \in Nat /\ get_inode(inode) /\ inodes[inode].size = size /\ Pid # Nobody
  BY PictureIs, PidsAre
<1>1. PICK s \in 0 .. size :
        /\ StartsAt(inode, l.row + 1, s) /\ Within(inode, s, l.col) /\ AtOffset(d, inode, s + l.col)
  BY DEF InLine
<1>2. d.open /\ d.ftable = "regular" /\ d.inode = inode /\ d.pos = s + l.col
  BY <1>1 DEF AtOffset
<1>3. file_read(Pid, fd, 1)
  BY <1>2 DEF Read, NotOpen, TerminalRead, RtcRead, dir_read, Reaches
<1>4. CASE d.pos >= size /\ JustReturns("read", Pid, fd, IF get_inode(d.inode) THEN 0 ELSE -1, <<>>)
  <2>1. reader' # Pid /\ reply'.value = 0
    BY <1>0, <1>2, <1>3, <1>4 DEF JustReturns, Returns, file_read, Reaches, Runs
  <2>2. s + l.col = size
    <3>1. s + l.col <= size /\ s + l.col >= size
      BY <1>1, <1>2, <1>4 DEF Within
    <3> HIDE DEF size
    <3> QED
      BY <1>0, <1>1, <3>1
  <2>3. l.c[file] # NEWLINE /\ ~l.eof[file]
    BY DEF InLine
  <2>4. HasRead(l, file, fds'[Pid][fd], reply')
    BY <1>1, <2>1, <2>2, <2>3 DEF HasRead
  <2> QED
    BY <2>1, <2>4
<1>5. CASE /\ reader' = Pid /\ UNCHANGED fds
           /\ rd' = [fd |-> fd, length |-> Least(1, size - d.pos), count |-> 0,
                     blocknum |-> d.pos \div DATA_BLOCK_SIZE,
                     blockoffset |-> d.pos % DATA_BLOCK_SIZE]
  <2>1. rd'.fd = fd /\ rd'.length = Least(1, size - d.pos) /\ fds' = fds
    BY <1>5
  <2> QED
    BY <1>5, <2>1 DEF IsReading
<1> QED
  BY <1>0, <1>2, <1>3, <1>4, <1>5 DEF file_read

\* The kernel copies it.
LEMMA CopiesPicture ==
    ASSUME FramesArePictures, FdInv, ShellInv, NEW l, Both(l.frames), NEW file \in {1, 2},
           l.fd[file] \in Fds, l.col \in Nat, KernelReads,
           IsReading(l, file, fds[Pid][l.fd[file]], rd)
    PROVE  IF reader' = Pid THEN IsReading(l, file, fds'[Pid][l.fd[file]], rd')
           ELSE HasRead(l, file, fds'[Pid][l.fd[file]], reply')
<1> DEFINE fd == l.fd[file]
           d == fds[Pid][fd]
           inode == InodeOf(l.frames, file)
           size == Size(inode)
<1>0. /\ fds \in Tables /\ Pid \in Pids /\ Pid # Nobody /\ rd \in Locals /\ d \in FileDesc
  BY PidsAre DEF FdInv, FdTypeOK, Tables
<1>1. /\ reader = Pid /\ Reading = d /\ rd.fd = fd
  BY PidsAre DEF KernelReads, CopyBlock, CopyBadBlock, FinishRead, ShellInv, Reading, IsReading
<1>2. size \in Nat /\ GoodFile(inode) /\ inodes[inode].size = size
  BY PictureIs
<1>3. PICK s \in 0 .. size :
        /\ StartsAt(inode, l.row + 1, s) /\ Within(inode, s, l.col) /\ AtOffset(d, inode, s + l.col)
  BY DEF IsReading, InLine
<1>4. d.open /\ d.ftable = "regular" /\ d.inode = inode /\ d.pos = s + l.col
  BY <1>3 DEF AtOffset
<1>5. l.c[file] # NEWLINE /\ ~l.eof[file] /\ rd.length = Least(1, size - d.pos)
  BY DEF IsReading, InLine
<1>6. CASE CopyBlock
  <2>1. reader' = Pid /\ rd'.fd = rd.fd /\ rd'.length = rd.length /\ fds' = fds
    BY <1>0, <1>1, <1>6 DEF CopyBlock, memcpy_block, Locals
  <2> QED
    BY <2>1 DEF IsReading
<1>7. CASE CopyBadBlock
  BY <1>1, <1>2, <1>4, <1>7, NoBadBlock
<1>8. CASE FinishRead
  <2> DEFINE e == [d EXCEPT !.pos = d.pos + rd.count]
             v == rd.count
  <2>1. /\ reader' # Pid /\ reply'.value = v /\ reply'.taken = buf
        /\ v = rd.length /\ SetDesc(Pid, fd, e)
    BY <1>0, <1>1, <1>8 DEF FinishRead, Returns
  <2>2. fds'[Pid][fd] = e
    BY <1>0, <2>1 DEF SetDesc, Tables
  <2>3. v = Least(1, size - d.pos)
    BY <1>5, <2>1
  <2>4. s + l.col <= size /\ s \in Nat
    BY <1>3 DEF Within
  <2>5. PICK pos : pos = d.pos
    OBVIOUS
  <2>6. CASE s + l.col = size
    <3>1. v = 0
      <4> HIDE DEF size, v, d
      <4> QED
        BY <1>2, <1>4, <2>3, <2>4, <2>6 DEF Least
    <3> QED
      BY <1>3, <1>5, <2>1, <2>6, <3>1 DEF HasRead
  <2>7. CASE s + l.col < size
    <3>1. v = 1 /\ v # 0
      <4>1. v = Least(1, size - (s + l.col))
        BY <1>4, <2>3
      <4> HIDE DEF size, v, d
      <4> QED
        BY <1>2, <2>4, <2>7, <4>1 DEF Least
    <3>2. buf[1] = FileByte(inode, s + l.col)
      <4>1. 1 \in 1 .. rd.count
        BY <3>1
      <4>2. buf[1] = FileByte(d.inode, d.pos + 1 - 1)
        BY <1>0, <1>1, <4>1 DEF FdInv, CopyIsPrefix
      <4>3. d.pos + 1 - 1 = s + l.col
        <5> HIDE DEF d
        <5> QED
          BY <1>4, <2>4
      <4> QED
        BY <1>4, <4>2, <4>3
    <3>3. e.open /\ e.ftable = "regular" /\ e.inode = inode /\ e.pos = d.pos + v
      BY <1>0, <1>4 DEF FileDesc
    <3>4. AtOffset(e, inode, s + l.col + 1)
      BY <1>4, <3>1, <3>3 DEF AtOffset
    <3>5. fds'[Pid][fd] = e /\ reply'.value = 1 /\ reply'.taken[1] = FileByte(inode, s + l.col)
      BY <2>1, <2>2, <3>1, <3>2
    <3> HIDE DEF e, v
    <3>6. HasRead(l, file, fds'[Pid][fd], reply')
      BY <1>3, <1>5, <2>7, <3>4, <3>5 DEF HasRead
    <3> QED
      BY <2>1, <3>6
  <2>8. s + l.col = size \/ s + l.col < size
    <3> HIDE DEF size
    <3> QED
      BY <1>2, <2>4
  <2> QED
    BY <2>6, <2>7, <2>8
<1> QED
  BY <1>6, <1>7, <1>8 DEF KernelReads

----------------------------------------------------------------------------
(* From character to character and from row to row *)

\* What is known of a file does not change with the other.
SameFile(l, l2, file) ==
    /\ l2.frames = l.frames /\ l2.row = l.row /\ l2.col = l.col
    /\ l2.c[file] = l.c[file] /\ l2.eof[file] = l.eof[file]

LEMMA SameLooks ==
    ASSUME NEW l, NEW l2, NEW file, NEW d, SameFile(l, l2, file)
    PROVE  /\ Looks(l, file, d) /\ ((file < l.file) <=> (file < l2.file)) => Looks(l2, file, d)
           /\ EndsRow(l, file, d) /\ ((file < l.file) <=> (file < l2.file)) => EndsRow(l2, file, d)
           /\ PastLine(l, file, d) => PastLine(l2, file, d)
<1>1. \A r : GoesOn(l, file, r, d) <=> GoesOn(l2, file, r, d)
  BY DEF SameFile, GoesOn
<1>2. PastLine(l, file, d) <=> PastLine(l2, file, d)
  BY <1>1 DEF SameFile, PastLine
<1>3. \A n : InLine(l, file, n, d) <=> InLine(l2, file, n, d)
  BY DEF SameFile, InLine
<1>4. ASSUME Looks(l, file, d), (file < l.file) <=> (file < l2.file) PROVE Looks(l2, file, d)
  <2>1. l2.col = l.col
    BY DEF SameFile
  <2> QED
    BY <1>2, <1>3, <1>4, <2>1 DEF Looks
<1>5. ASSUME EndsRow(l, file, d), (file < l.file) <=> (file < l2.file) PROVE EndsRow(l2, file, d)
  <2>1. l2.row = l.row /\ l2.c[file] = l.c[file] /\ l2.eof[file] = l.eof[file]
    BY DEF SameFile
  <2> QED
    BY <1>1, <1>2, <1>5, <2>1 DEF EndsRow
<1> QED
  BY <1>2, <1>4, <1>5

\* The character that was read.
LEMMA TakesPicture ==
    ASSUME FramesArePictures, NEW l, NEW l2, NEW file \in {1, 2}, NEW d, NEW r, Both(l.frames),
           l.row \in Nat, l.col \in Nat, HasRead(l, file, d, r),
           l2.frames = l.frames, l2.row = l.row, l2.col = l.col, file < l2.file,
           l2.c[file] = IF r.value = 0 THEN NEWLINE ELSE r.taken[1],
           l2.eof[file] = (r.value = 0)
    PROVE  Looks(l2, file, d)
<1> DEFINE inode == InodeOf(l.frames, file)
           size == Size(inode)
           row == PictureRow(l.frames, file, l.row + 1)
<1>0. size \in Nat /\ l.row + 1 \in NonZero /\ (l.row + 1) + 1 = l.row + 2 /\ NEWLINE = NL
  BY PictureIs, ProgramsAssumption DEF NonZero
<1>1. PICK s \in 0 .. size :
        /\ StartsAt(inode, l.row + 1, s) /\ Within(inode, s, l.col)
        /\ IF r.value = 0 THEN s + l.col = size
           ELSE /\ r.value = 1 /\ s + l.col < size
                /\ r.taken[1] = FileByte(inode, s + l.col)
                /\ AtOffset(d, inode, s + l.col + 1)
  BY DEF HasRead
<1>2. /\ Len(row) \in Nat
      /\ s + l.col = size \/ FileByte(inode, s + l.col) = NL => Len(row) = l.col
  BY <1>0, <1>1, RowHas
<1>3. /\ s + l.col < size /\ FileByte(inode, s + l.col) = NL =>
                    StartsAt(inode, l.row + 2, s + l.col + 1)
      /\ s + l.col = size => NoneFrom(inode, l.row + 2)
  <2>1. /\ s + l.col < size /\ FileByte(inode, s + l.col) = NL =>
                    StartsAt(inode, (l.row + 1) + 1, s + l.col + 1)
        /\ s + l.col = size => NoneFrom(inode, (l.row + 1) + 1)
    BY <1>0, <1>1, LineGoesOn
  <2> QED
    BY <1>0, <2>1
<1> HIDE DEF row, size, inode
<1>4. CASE r.value = 0
  <2>1. s + l.col = size /\ l2.c[file] = NEWLINE /\ l2.eof[file]
    BY <1>1, <1>4
  <2>2. Len(row) <= l.col
    BY <1>2, <2>1
  <2>3. PastLine(l2, file, d)
    BY <1>3, <2>1, <2>2 DEF PastLine, GoesOn, row, inode
  <2> QED
    BY <2>3 DEF Looks
<1>5. CASE r.value # 0 /\ FileByte(inode, s + l.col) = NL
  <2>1. s + l.col < size /\ l2.c[file] = NEWLINE /\ ~l2.eof[file] /\ AtOffset(d, inode, s + l.col + 1)
    BY <1>0, <1>1, <1>5
  <2>2. Len(row) <= l.col /\ s + l.col + 1 \in 0 .. size
    BY <1>0, <1>1, <1>2, <1>5, <2>1
  <2>3. \E t \in 0 .. size : StartsAt(inode, l.row + 2, t) /\ AtOffset(d, inode, t)
    BY <1>3, <1>5, <2>1, <2>2
  <2>4. PastLine(l2, file, d)
    BY <2>1, <2>2, <2>3 DEF PastLine, GoesOn, row, inode, size
  <2> QED
    BY <2>4 DEF Looks
<1>6. CASE r.value # 0 /\ FileByte(inode, s + l.col) # NL
  <2>1. /\ s + l.col < size /\ l2.c[file] = FileByte(inode, s + l.col) /\ ~l2.eof[file]
        /\ AtOffset(d, inode, s + l.col + 1) /\ l2.c[file] # NEWLINE
    BY <1>0, <1>1, <1>6
  <2>2. PICK n \in Nat : n = l.col + 1
    OBVIOUS
  <2>3. s + l.col + 1 = s + n /\ s + n - 1 = s + l.col
    BY <1>1, <2>2
  <2>4. Within(inode, s, n)
    <3>1. s + n <= size
      BY <1>0, <1>1, <2>1, <2>2
    <3>2. ASSUME NEW i \in s .. s + n - 1 PROVE FileByte(inode, i) # NL
      <4>1. i \in s .. s + l.col - 1 \/ i = s + l.col
        BY <1>1, <2>2
      <4> QED
        BY <1>1, <1>6, <4>1 DEF Within
    <3> QED
      BY <3>1, <3>2 DEF Within, size
  <2>5. InLine(l2, file, n, d)
    BY <1>1, <2>1, <2>3, <2>4 DEF InLine, inode, size
  <2> QED
    BY <2>2, <2>5 DEF Looks
<1> QED
  BY <1>4, <1>5, <1>6

LEMMA ByteIs ==
    ASSUME NEW inode \in Nat, GoodFile(inode), NEW k \in 0 .. Size(inode) - 1
    PROVE  FileByte(inode, k) \in Bytes
<1> DEFINE size == inodes[inode].size
           bytes == DATA_BLOCK_SIZE
           b == inodes[inode].block[k \div bytes]
<1>1. /\ bytes \in Nat \ {0} /\ n_inodes \in Nat /\ n_blocks \in Nat
      /\ inode \in 0 .. n_inodes - 1 /\ size \in Nat /\ get_block(b)
      /\ k \in 0 .. size - 1
  <2>1. bytes \in Nat \ {0} /\ n_inodes \in Nat /\ n_blocks \in Nat
    BY ImageAssumption
  <2>2. inode \in 0 .. n_inodes - 1
    BY <2>1 DEF GoodFile, get_inode
  <2>3. size \in Nat
    BY <2>2, ImageAssumption
  <2>4. k \in 0 .. size - 1
    BY DEF Size
  <2>5. get_block(b)
    BY <2>4 DEF GoodFile
  <2> QED
    BY <2>1, <2>2, <2>3, <2>4, <2>5
<1>2. k \div bytes \in 0 .. size \div bytes /\ k % bytes \in 0 .. bytes - 1
  <2> HIDE DEF size, bytes
  <2>1. k \in Nat /\ k <= size
    BY <1>1
  <2> QED
    BY <1>1, <2>1, DivMod, BlockOfByte
<1>3. b \in Nat
  BY <1>1, <1>2, ImageAssumption
<1>4. b \in 0 .. n_blocks - 1
  <2> HIDE DEF b
  <2> QED
    BY <1>1, <1>3 DEF get_block
<1>5. data[b][k % bytes] \in Bytes
  <2> HIDE DEF b
  <2> QED
    BY <1>2, <1>4, ImageAssumption
<1> QED
  BY <1>5 DEF FileByte

\* The character that is known is that of the picture.
LEMMA InkRead ==
    ASSUME FramesArePictures, NEW l, NEW file \in {1, 2}, NEW d, Both(l.frames),
           l.row \in Nat, l.col \in Nat,
           InLine(l, file, l.col + 1, d) \/ PastLine(l, file, d)
    PROVE  LET ink == Ink(l.frames, file, l.row + 1, l.col + 1) IN
           /\ OrBlank(l.c[file]) = ink /\ ink \in Chars
           /\ l.c[file] \notin {BLANK, NEWLINE} <=> ink # BLANK
<1> DEFINE inode == InodeOf(l.frames, file)
           row == PictureRow(l.frames, file, l.row + 1)
           ink == Ink(l.frames, file, l.row + 1, l.col + 1)
<1>0. /\ Size(inode) \in Nat /\ inode \in Nat /\ GoodFile(inode)
      /\ l.row + 1 \in NonZero /\ l.col + 1 \in NonZero
      /\ BLANK \in Chars /\ Bytes \in SUBSET Chars
  BY PictureIs, FishAssumption DEF NonZero
<1>i. ink = IF l.col + 1 <= Len(row) THEN row[l.col + 1] ELSE BLANK
  BY DEF Ink
<1>1. CASE InLine(l, file, l.col + 1, d)
  <2>1. PICK n \in NonZero : n = l.col + 1
    BY <1>0
  <2>2. PICK s \in 0 .. Size(inode) :
            /\ StartsAt(inode, l.row + 1, s) /\ Within(inode, s, n)
            /\ l.c[file] = FileByte(inode, s + n - 1)
    BY <1>1, <2>1 DEF InLine, NonZero
  <2>3. /\ n <= Len(row) /\ row[n] = FileByte(inode, s + n - 1)
    <3>1. n \in Nat /\ n > 0
      BY DEF NonZero
    <3> QED
      BY <1>0, <2>2, <3>1, RowHas
  <2>4. s + n - 1 \in 0 .. Size(inode) - 1
    <3>1. s + n <= Size(inode) /\ n \in Nat /\ n # 0 /\ s \in Nat
      BY <2>2 DEF Within, NonZero
    <3> HIDE DEF inode
    <3> QED
      BY <1>0, <3>1
  <2>5. l.c[file] \in Chars
    <3>1. PICK k : k = s + n - 1
      OBVIOUS
    <3>2. FileByte(inode, k) \in Bytes
      BY <1>0, <2>4, <3>1, ByteIs
    <3> QED
      BY <1>0, <2>2, <3>1, <3>2
  <2>6. ink = l.c[file]
    <3> HIDE DEF ink, row
    <3> QED
      BY <1>i, <2>1, <2>2, <2>3
  <2>7. l.c[file] # NEWLINE
    BY <1>1 DEF InLine
  <2> HIDE DEF ink
  <2> QED
    BY <2>5, <2>6, <2>7 DEF ink, OrBlank
<1>2. CASE PastLine(l, file, d)
  <2>1. l.c[file] = NEWLINE /\ Len(row) <= l.col
    BY <1>2 DEF PastLine
  <2>2. Len(row) \in Nat
    BY RowLength
  <2>3. ink = BLANK
    <3> HIDE DEF ink, row
    <3>1. ~(l.col + 1 <= Len(row))
      BY <2>1, <2>2
    <3> QED
      BY <1>i, <3>1
  <2> HIDE DEF ink
  <2> QED
    BY <1>0, <2>1, <2>3 DEF ink, OrBlank
<1> QED
  BY <1>1, <1>2

----------------------------------------------------------------------------
(* What fish knows after a step *)

\* Where it is.
LEMMA ToQuiet ==
    ASSUME pc' \in {"none", "start"}
    PROVE  FishInv'
BY DEF FishInv, Weaves, Blinks

LEMMA ToLooks ==
    ASSUME pc' = "fish looks", Both(loc'.frames), loc'.fd[1] # loc'.fd[2],
           loc'.row \in Nat, loc'.col \in Nat, DOMAIN loc'.c = {1, 2}, DOMAIN loc'.eof = {1, 2},
           \A file \in {1, 2} : Looks(loc', file, fds'[Pid][loc'.fd[file]]),
           DrawnUpTo(Stack', vmem', loc'.frames, <<loc'.row + 1, loc'.col + 1>>)
    PROVE  FishInv'
BY DEF FishInv, Weaves, Blinks, FishPcs

LEMMA ToReads ==
    ASSUME pc' = "fish reads", Both(loc'.frames), loc'.fd[1] # loc'.fd[2],
           loc'.row \in Nat, loc'.col \in Nat, DOMAIN loc'.c = {1, 2}, DOMAIN loc'.eof = {1, 2},
           \A file \in {1, 2} \ {loc'.file} : Looks(loc', file, fds'[Pid][loc'.fd[file]]),
           IF reader' = Pid THEN IsReading(loc', loc'.file, fds'[Pid][loc'.fd[loc'.file]], rd')
           ELSE HasRead(loc', loc'.file, fds'[Pid][loc'.fd[loc'.file]], reply'),
           DrawnUpTo(Stack', vmem', loc'.frames, <<loc'.row + 1, loc'.col + 1>>)
    PROVE  FishInv'
BY DEF FishInv, Weaves, Blinks, FishPcs

LEMMA ToEndsRow ==
    ASSUME pc' = "fish ends row", Both(loc'.frames), loc'.fd[1] # loc'.fd[2],
           loc'.row \in Nat, loc'.col \in Nat, DOMAIN loc'.c = {1, 2}, DOMAIN loc'.eof = {1, 2},
           \A file \in {1, 2} : EndsRow(loc', file, fds'[Pid][loc'.fd[file]]),
           DrawnUpTo(Stack', vmem', loc'.frames, <<loc'.row + 2, 1>>)
    PROVE  FishInv'
BY DEF FishInv, Weaves, Blinks, FishPcs

LEMMA ToBlinks ==
    ASSUME pc' \in Blinks \cup {"fish ends"}, Both(loc'.frames), NEW act \in 1 .. 4,
           IF pc' = "fish ends" THEN act = 4 ELSE loc'.act = act,
           InStep(Stack', vmem', loc'.frames, act)
    PROVE  FishInv'
BY DEF FishInv, Weaves, Blinks, FishPcs

----------------------------------------------------------------------------
(* The steps of fish *)

LEMMA FishOpensBoth ==
    ASSUME FramesArePictures, ProgInv, BlinkInv, FishInv, cmd.program = "fish",
           FishBegins \/ FishOpensFirst \/ FishOpensSecond \/ FishCannotOpen
    PROVE  BlinkInv' /\ FishInv'
<1>0. /\ FdInv /\ OpenInv0 /\ FishLocals /\ fds \in Tables /\ Pid \in Pids
  BY PidsAre DEF ProgInv, ProgLocals, FdInv, FdTypeOK, Tables
<1>1. CASE FishBegins
  <2>1. BlinkInv' /\ Stack' = <<>> /\ pc' = "fish opens rtc"
    BY <1>1, BlinkCleared DEF FishBegins, Calls
  <2> QED
    BY <2>1 DEF FishInv, Weaves, Blinks, FishPcs
<1>2. CASE FishOpensFirst
  <2>1. /\ pc = "fish opens rtc" /\ pc' = "fish opens first" /\ loc'.frames = loc.frames
        /\ Open(Pid, loc.frames[1]) /\ UNCHANGED blinkVars
    BY <1>2 DEF FishOpensFirst, Calls
  <2>2. BlinkInv' /\ Stack' = <<>>
    BY <2>1, BlinkStays DEF FishInv
  <2>3. loc.frames \in Frames
    BY <1>0, <2>1 DEF FishLocals
  <2>4. reply'.value # -1 =>
            /\ ~NoDentry(loc.frames[1])
            /\ AtOffset(fds'[Pid][reply'.value], InodeOf(loc.frames, 1), 0)
    BY <1>0, <2>1, <2>3, OpensPicture
  <2> QED
    BY <2>1, <2>2, <2>3, <2>4 DEF FishInv, Weaves, Blinks, FishPcs
<1>3. CASE FishOpensSecond
  <2>1. /\ pc = "fish opens first" /\ pc' = "fish opens second" /\ loc'.frames = loc.frames
        /\ reply.value # -1 /\ loc'.fd0 = reply.value
        /\ Open(Pid, loc.frames[2]) /\ UNCHANGED blinkVars
    BY <1>3 DEF FishOpensSecond, Calls
  <2>2. BlinkInv' /\ Stack' = <<>>
    BY <2>1, BlinkStays DEF FishInv
  <2>3. loc.frames \in Frames
    BY <1>0, <2>1 DEF FishLocals
  <2>4. reply'.value # -1 =>
            /\ ~NoDentry(loc.frames[2])
            /\ AtOffset(fds'[Pid][reply'.value], InodeOf(loc.frames, 2), 0)
    BY <1>0, <2>1, <2>3, OpensPicture
  <2>5. ~NoDentry(loc.frames[1]) /\ AtOffset(fds[Pid][reply.value], InodeOf(loc.frames, 1), 0)
    BY <2>1 DEF FishInv
  <2>6. reply.value \in Fds
    BY <1>0, <1>3 DEF FishOpensSecond, OpenInv0, Quiet
  <2>7. fds'[Pid][reply.value] = fds[Pid][reply.value] /\ reply'.value # reply.value
    BY <1>0, <2>1, <2>5, <2>6, OpenFrame DEF AtOffset
  <2> QED
    BY <2>1, <2>2, <2>3, <2>4, <2>5, <2>7 DEF FishInv, Weaves, Blinks, FishPcs
<1>4. CASE FishCannotOpen
  <2>1. UNCHANGED blinkVars /\ pc' = "none"
    BY <1>4 DEF FishCannotOpen, Halt, EndsWith
  <2> QED
    BY <2>1, BlinkStays, ToQuiet
<1> QED
  BY <1>1, <1>2, <1>3, <1>4

\* It begins to look at the first line of each.
LEMMA FishStarts ==
    ASSUME FramesArePictures, ProgInv, BlinkInv, FishInv, cmd.program = "fish", FishLooks
    PROVE  BlinkInv' /\ FishInv'
<1> DEFINE fd == <<loc.fd0, reply.value>>
<1>1. /\ pc = "fish opens second" /\ reply.value # -1 /\ pc' = "fish looks"
      /\ UNCHANGED blinkVars /\ fds' = fds
      /\ loc' = [frames |-> loc.frames, rtc |-> loc.rtc, fd |-> fd, file |-> 1,
                 c |-> <<NoNewline, NoNewline>>, eof |-> <<FALSE, FALSE>>, row |-> 0, col |-> 0]
  BY DEF FishLooks, Calls, fdVars
<1>2. BlinkInv' /\ Stack' = <<>> /\ vmem' = vmem
  BY <1>1, BlinkStays DEF FishInv
<1>3. /\ loc.frames \in Frames /\ ~NoDentry(loc.frames[1]) /\ ~NoDentry(loc.frames[2])
      /\ AtOffset(fds[Pid][loc.fd0], InodeOf(loc.frames, 1), 0)
      /\ AtOffset(fds[Pid][reply.value], InodeOf(loc.frames, 2), 0) /\ reply.value # loc.fd0
  BY <1>1 DEF FishInv
<1>4. Both(loc.frames)
  BY <1>3 DEF Both
<1>5. /\ loc'.frames = loc.frames /\ loc'.fd = fd /\ loc'.file = 1
      /\ loc'.c = <<NoNewline, NoNewline>> /\ loc'.eof = <<FALSE, FALSE>>
      /\ loc'.row = 0 /\ loc'.col = 0
  BY <1>1
<1>6. fd[1] = loc.fd0 /\ fd[2] = reply.value
  OBVIOUS
<1>7. ASSUME NEW file \in {1, 2} PROVE Looks(loc', file, fds'[Pid][loc'.fd[file]])
  <2> DEFINE d == fds[Pid][fd[file]]
             inode == InodeOf(loc.frames, file)
  <2>1. AtOffset(d, inode, 0)
    BY <1>3, <1>6
  <2>2. Size(inode) \in Nat
    BY <1>4, PictureIs
  <2>3. StartsAt(inode, 1, 0)
    BY <2>2, FirstLine
  <2>4. 0 \in 0 .. Size(inode) /\ Within(inode, 0, 0) /\ 0 + 1 = 1 /\ 0 + 0 = 0 /\ ~(0 > 0)
    BY <2>2 DEF Within
  <2>5. loc'.c[file] # NEWLINE /\ ~loc'.eof[file]
    <3>1. NEWLINE # NoNewline
      BY FishAssumption
    <3>2. <<NoNewline, NoNewline>>[file] = NoNewline /\ <<FALSE, FALSE>>[file] = FALSE
      <4>1. /\ <<NoNewline, NoNewline>>[1] = NoNewline /\ <<NoNewline, NoNewline>>[2] = NoNewline
            /\ <<FALSE, FALSE>>[1] = FALSE /\ <<FALSE, FALSE>>[2] = FALSE
        OBVIOUS
      <4> QED
        BY <4>1
    <3>3. loc'.c[file] = NoNewline
      BY <1>5, <3>2, Zenon
    <3>4. ~loc'.eof[file]
      BY <1>5, <3>2, Zenon
    <3> QED
      BY <3>1, <3>3, <3>4
  <2>6. PICK l : l = loc'
    OBVIOUS
  <2>7. InLine(l, file, 0, d)
    <3>1. l.frames = loc.frames /\ l.row = 0 /\ l.c[file] # NEWLINE /\ ~l.eof[file]
      BY <1>5, <2>5, <2>6
    <3> HIDE DEF d
    <3>2. StartsAt(inode, l.row + 1, 0) /\ AtOffset(d, inode, 0 + 0)
      BY <2>1, <2>3, <2>4, <3>1
    <3> QED
      BY <2>4, <3>1, <3>2 DEF InLine
  <2>8. ~(file < 1)
    OBVIOUS
  <2>9. l.file = 1 /\ l.col = 0 /\ l.fd = fd
    BY <1>5, <2>6
  <2>10. Looks(l, file, d)
    BY <2>7, <2>8, <2>9 DEF Looks
  <2> QED
    BY <1>1, <2>6, <2>9, <2>10
<1>8. DrawnUpTo(Stack', vmem', loc.frames, <<1, 1>>)
  <2>1. /\ OnScreen(loc.frames) \in SUBSET (NonZero \X NonZero)
        /\ Len(Woven(loc.frames)) = Cardinality(OnScreen(loc.frames))
        /\ Cardinality(OnScreen(loc.frames)) \in Nat
    BY <1>4, OnScreenIs
  <2>2. Rank(OnScreen(loc.frames), <<1, 1>>) = 0
    BY <2>1, RankStarts
  <2>3. Len(Stack') = 0 /\ 1 .. 0 = {} /\ 0 <= Len(Woven(loc.frames)) /\ 0 <= 0
    BY <1>2, <2>1
  <2> QED
    BY <2>2, <2>3 DEF DrawnUpTo, OldestAre, AreSeen
<1>9. DrawnUpTo(Stack', vmem', loc'.frames, <<loc'.row + 1, loc'.col + 1>>)
  <2>1. loc'.row + 1 = 1 /\ loc'.col + 1 = 1
    BY <1>5
  <2> QED
    BY <1>5, <1>8, <2>1
<1>10. loc'.fd[1] # loc'.fd[2]
  BY <1>3, <1>5, <1>6
<1>11. DOMAIN loc'.c = {1, 2} /\ DOMAIN loc'.eof = {1, 2} /\ loc'.row \in Nat /\ loc'.col \in Nat
  <2>1. DOMAIN <<NoNewline, NoNewline>> = {1, 2} /\ DOMAIN <<FALSE, FALSE>> = {1, 2}
    OBVIOUS
  <2> QED
    BY <1>5, <2>1
<1>12. FishInv'
  BY <1>1, <1>4, <1>5, <1>7, <1>9, <1>10, <1>11, ToLooks
<1> QED
  BY <1>2, <1>12

\* Its variables in the loops of add_frames().
LEMMA WeavingIs ==
    ASSUME ProgInv, FishInv, cmd.program = "fish", pc \in Weaves
    PROVE  /\ fds \in Tables /\ Pid \in Pids /\ Pid # Nobody
           /\ Both(loc.frames) /\ loc.fd[1] # loc.fd[2] /\ loc.row \in Nat /\ loc.col \in Nat
           /\ DOMAIN loc.c = {1, 2} /\ DOMAIN loc.eof = {1, 2}
           /\ loc.fd[1] \in Fds /\ loc.fd[2] \in Fds
           /\ \A file \in {1, 2} : loc.fd[file] \in Fds
           /\ loc.file \in 1 .. 3
           /\ DOMAIN loc = {"frames", "rtc", "fd", "file", "c", "eof", "row", "col"}
<1>1. fds \in Tables /\ Pid \in Pids /\ Pid # Nobody
  BY PidsAre DEF ProgInv, FdInv, FdTypeOK, Tables
<1>2. /\ loc.fd \in Fds \X Fds /\ loc.file \in 1 .. 3
      /\ DOMAIN loc = {"frames", "rtc", "fd", "file", "c", "eof", "row", "col"}
  BY DEF ProgInv, ProgLocals, FishLocals, Weaves
<1>3. loc.fd[1] \in Fds /\ loc.fd[2] \in Fds
  BY <1>2
<1>4. /\ Both(loc.frames) /\ loc.fd[1] # loc.fd[2] /\ loc.row \in Nat /\ loc.col \in Nat
      /\ DOMAIN loc.c = {1, 2} /\ DOMAIN loc.eof = {1, 2}
  BY DEF FishInv
<1> QED
  BY <1>1, <1>2, <1>3, <1>4

\* Only the file it looks at changes.
LEMMA NextFile ==
    ASSUME NEW n \in {1, 2}
    PROVE  /\ n + 1 \in 1 .. 3 /\ n < n + 1 /\ ~(n < n)
           /\ \A file \in {1, 2} \ {n} : (file < n) <=> (file < n + 1)
OBVIOUS

LEMMA FishReadsOne ==
    ASSUME FramesArePictures, ProgInv, BlinkInv, FishInv, cmd.program = "fish", FishReads
    PROVE  BlinkInv' /\ FishInv'
<1>1. /\ pc = "fish looks" /\ pc' = "fish reads" /\ loc.file <= 2 /\ ~AtNewline(loc.file)
      /\ Read(Pid, loc.fd[loc.file], 1) /\ loc' = loc /\ UNCHANGED blinkVars
  BY DEF FishReads, Calls
<1>2. BlinkInv' /\ Stack' = Stack /\ vmem' = vmem
  BY <1>1, BlinkStays
<1>3. /\ fds \in Tables /\ Both(loc.frames) /\ loc.fd[1] # loc.fd[2] /\ loc.row \in Nat
      /\ loc.col \in Nat /\ DOMAIN loc.c = {1, 2} /\ DOMAIN loc.eof = {1, 2} /\ loc.file \in 1 .. 3
      /\ \A file \in {1, 2} : loc.fd[file] \in Fds
  BY <1>1, WeavingIs DEF Weaves
<1>4. loc.file \in {1, 2}
  <2>1. loc.file \in 1 .. 3
    BY <1>3
  <2>2. loc.file <= 2
    BY <1>1
  <2> QED
    BY <2>1, <2>2
<1>5. \A file \in {1, 2} : Looks(loc, file, fds[Pid][loc.fd[file]])
  BY <1>1 DEF FishInv
<1>6. DrawnUpTo(Stack, vmem, loc.frames, <<loc.row + 1, loc.col + 1>>)
  BY <1>1 DEF FishInv
<1>7. PICK l : l = loc
  OBVIOUS
<1>8. PICK n \in {1, 2} : n = loc.file
  BY <1>4
<1>9. InLine(l, n, l.col, fds[Pid][l.fd[n]])
  <2>1. l.file = n /\ l.c[n] # NEWLINE
    BY <1>1, <1>7, <1>8 DEF AtNewline
  <2>2. ~(n < l.file)
    BY <1>8, <2>1
  <2>3. Looks(l, n, fds[Pid][l.fd[n]])
    BY <1>5, <1>7
  <2> QED
    BY <2>1, <2>2, <2>3 DEF Looks, PastLine
<1>10. IF reader' = Pid THEN IsReading(l, n, fds'[Pid][l.fd[n]], rd')
       ELSE HasRead(l, n, fds'[Pid][l.fd[n]], reply')
  <2>1. l.fd[n] \in Fds /\ Both(l.frames) /\ l.col \in Nat /\ Read(Pid, l.fd[n], 1)
    BY <1>1, <1>3, <1>7, <1>8
  <2> QED
    BY <1>3, <1>9, <2>1, ReadsPicture
<1>11. ASSUME NEW file \in {1, 2} \ {n} PROVE fds'[Pid][loc.fd[file]] = fds[Pid][loc.fd[file]]
  <2>1. loc.fd[file] \in Fds \ {loc.fd[n]}
    BY <1>3
  <2> QED
    BY <1>1, <1>3, <1>8, <2>1, ReadFrame
<1>12. \A file \in {1, 2} \ {loc'.file} : Looks(loc', file, fds'[Pid][loc'.fd[file]])
  BY <1>1, <1>5, <1>8, <1>11
<1>13. IF reader' = Pid THEN IsReading(loc', loc'.file, fds'[Pid][loc'.fd[loc'.file]], rd')
       ELSE HasRead(loc', loc'.file, fds'[Pid][loc'.fd[loc'.file]], reply')
  BY <1>1, <1>7, <1>8, <1>10
<1>14. DrawnUpTo(Stack', vmem', loc'.frames, <<loc'.row + 1, loc'.col + 1>>)
  BY <1>1, <1>2, <1>6
<1>15. FishInv'
  BY <1>1, <1>3, <1>12, <1>13, <1>14, ToReads
<1> QED
  BY <1>2, <1>15

\* A step to the next file that only sets c and eof of this one.
LEMMA LooksAtNext ==
    ASSUME ProgInv, BlinkInv, FishInv, cmd.program = "fish", pc \in {"fish looks", "fish reads"},
           pc' = "fish looks", UNCHANGED <<fds, blinkVars>>, loc.file \in {1, 2},
           loc'.frames = loc.frames, loc'.fd = loc.fd, loc'.row = loc.row, loc'.col = loc.col,
           loc'.file = loc.file + 1, DOMAIN loc'.c = {1, 2}, DOMAIN loc'.eof = {1, 2},
           \A file \in {1, 2} \ {loc.file} :
                loc'.c[file] = loc.c[file] /\ loc'.eof[file] = loc.eof[file],
           Looks(loc', loc.file, fds[Pid][loc.fd[loc.file]])
    PROVE  BlinkInv' /\ FishInv'
<1>1. BlinkInv' /\ Stack' = Stack /\ vmem' = vmem
  BY BlinkStays
<1>2. /\ Both(loc.frames) /\ loc.fd[1] # loc.fd[2] /\ loc.row \in Nat /\ loc.col \in Nat
  BY WeavingIs DEF Weaves
<1>3. ASSUME NEW file \in {1, 2} PROVE Looks(loc', file, fds'[Pid][loc'.fd[file]])
  <2>1. PICK l, l2, d : l = loc /\ l2 = loc' /\ d = fds[Pid][loc.fd[file]]
    OBVIOUS
  <2>2. CASE file = loc.file
    BY <2>2
  <2>3. CASE file # loc.file
    <3>1. Looks(l, file, d)
      BY <2>1, <2>3 DEF FishInv
    <3>2. SameFile(l, l2, file)
      BY <2>1, <2>3 DEF SameFile
    <3>3. (file < l.file) <=> (file < l2.file)
      BY ZenonT(40), <2>1, <2>3, NextFile
    <3>4. Looks(l2, file, d)
      BY <3>1, <3>2, <3>3, SameLooks
    <3> QED
      BY <2>1, <3>4
  <2> QED
    BY <2>2, <2>3
<1>4. DrawnUpTo(Stack', vmem', loc'.frames, <<loc'.row + 1, loc'.col + 1>>)
  BY <1>1 DEF FishInv
<1>5. FishInv'
  BY <1>2, <1>3, <1>4, ToLooks
<1> QED
  BY <1>1, <1>5

LEMMA FishSkipsOne ==
    ASSUME ProgInv, BlinkInv, FishInv, cmd.program = "fish", FishSkips
    PROVE  BlinkInv' /\ FishInv'
<1>1. /\ pc = "fish looks" /\ pc' = "fish looks" /\ loc.file <= 2 /\ AtNewline(loc.file)
      /\ loc' = [loc EXCEPT !.file = @ + 1] /\ UNCHANGED blinkVars /\ fds' = fds
  BY DEF FishSkips, Calls, fdVars
<1>2. /\ loc.file \in 1 .. 3 /\ DOMAIN loc.c = {1, 2} /\ DOMAIN loc.eof = {1, 2}
      /\ DOMAIN loc = {"frames", "rtc", "fd", "file", "c", "eof", "row", "col"}
  BY <1>1, WeavingIs DEF Weaves
<1>3. PICK n \in {1, 2} : n = loc.file
  <2>1. loc.file \in 1 .. 3
    BY <1>2
  <2>2. loc.file <= 2
    BY <1>1
  <2> QED
    BY <2>1, <2>2
<1>4. /\ loc'.frames = loc.frames /\ loc'.fd = loc.fd /\ loc'.row = loc.row /\ loc'.col = loc.col
      /\ loc'.c = loc.c /\ loc'.eof = loc.eof /\ loc'.file = loc.file + 1
  BY <1>1, <1>2
<1>5. PICK l, l2, d : l = loc /\ l2 = loc' /\ d = fds[Pid][loc.fd[n]]
  OBVIOUS
<1>6. PastLine(l, n, d)
  <2>1. Looks(l, n, d) /\ l.c[n] = NEWLINE
    BY <1>1, <1>3, <1>5 DEF FishInv, AtNewline
  <2> QED
    BY <2>1 DEF Looks, InLine
<1>7. Looks(l2, n, d)
  <2>1. SameFile(l, l2, n)
    BY <1>4, <1>5 DEF SameFile
  <2> QED
    BY <1>6, <2>1, SameLooks DEF Looks
<1>8. Looks(loc', loc.file, fds[Pid][loc.fd[loc.file]])
  BY <1>3, <1>5, <1>7
<1> QED
  BY <1>1, <1>2, <1>3, <1>4, <1>8, LooksAtNext

LEMMA FishTakesOne ==
    ASSUME FramesArePictures, ProgInv, BlinkInv, FishInv, cmd.program = "fish", FishTakes
    PROVE  BlinkInv' /\ FishInv'
<1> DEFINE char == CASE reply.value = 0 -> NEWLINE
                     [] reply.value = 1 -> reply.taken[1]
                     [] OTHER -> loc.c[loc.file]
<1>1. /\ pc = "fish reads" /\ pc' = "fish looks" /\ reader = Nobody
      /\ loc' = [loc EXCEPT !.c[loc.file] = char,
                            !.eof[loc.file] = loc.eof[loc.file] \/ reply.value = 0,
                            !.file = @ + 1]
      /\ UNCHANGED blinkVars /\ fds' = fds
  BY DEF FishTakes, Calls, fdVars, Runs
<1>2. /\ loc.file \in 1 .. 3 /\ DOMAIN loc.c = {1, 2} /\ DOMAIN loc.eof = {1, 2}
      /\ DOMAIN loc = {"frames", "rtc", "fd", "file", "c", "eof", "row", "col"}
      /\ Both(loc.frames) /\ loc.row \in Nat /\ loc.col \in Nat /\ Pid # Nobody
  BY <1>1, WeavingIs DEF Weaves
<1>3. PICK n \in {1, 2} : n = loc.file
  <2>1. loc.file <= 2
    BY <1>1 DEF ProgInv, ProgLocals, FishLocals
  <2> QED
    BY <1>2, <2>1
<1>4. HasRead(loc, loc.file, fds[Pid][loc.fd[loc.file]], reply)
  <2>1. reader # Pid
    BY <1>1, <1>2
  <2> QED
    BY <1>1, <2>1 DEF FishInv
<1>5. /\ ~loc.eof[loc.file] /\ reply.value \in {0, 1}
      /\ char = IF reply.value = 0 THEN NEWLINE ELSE reply.taken[1]
  <2>1. ~loc.eof[loc.file] /\ (reply.value = 0 \/ reply.value = 1)
    BY <1>4 DEF HasRead
  <2> QED
    BY <2>1
<1> HIDE DEF char
<1>6. /\ loc'.frames = loc.frames /\ loc'.fd = loc.fd /\ loc'.row = loc.row /\ loc'.col = loc.col
      /\ loc'.file = loc.file + 1
      /\ loc'.c = [loc.c EXCEPT ![loc.file] = char]
      /\ loc'.eof = [loc.eof EXCEPT ![loc.file] = loc.eof[loc.file] \/ reply.value = 0]
  BY <1>1, <1>2
<1>7. /\ loc'.c[n] = char /\ loc'.eof[n] = (reply.value = 0)
      /\ DOMAIN loc'.c = {1, 2} /\ DOMAIN loc'.eof = {1, 2}
      /\ \A file \in {1, 2} \ {n} : loc'.c[file] = loc.c[file] /\ loc'.eof[file] = loc.eof[file]
  <2>1. loc'.eof[n] = (loc.eof[n] \/ reply.value = 0)
    BY <1>2, <1>3, <1>6
  <2>2. loc'.eof[n] = (reply.value = 0)
    BY <1>3, <1>5, <2>1
  <2> QED
    BY <1>2, <1>3, <1>6, <2>2
<1>8. PICK l, l2, d, r : l = loc /\ l2 = loc' /\ d = fds[Pid][loc.fd[n]] /\ r = reply
  OBVIOUS
<1>9. Looks(l2, n, d)
  <2>1. HasRead(l, n, d, r)
    BY <1>3, <1>4, <1>8
  <2>2. /\ l2.frames = l.frames /\ l2.row = l.row /\ l2.col = l.col /\ n < l2.file
        /\ l2.c[n] = IF r.value = 0 THEN NEWLINE ELSE r.taken[1]
        /\ l2.eof[n] = (r.value = 0)
    BY <1>3, <1>5, <1>6, <1>7, <1>8, NextFile
  <2>3. Both(l.frames) /\ l.row \in Nat /\ l.col \in Nat
    BY <1>2, <1>8
  <2> QED
    BY <2>1, <2>2, <2>3, TakesPicture
<1>10. Looks(loc', loc.file, fds[Pid][loc.fd[loc.file]])
  BY <1>3, <1>8, <1>9
<1>11. loc.file \in {1, 2} /\ \A file \in {1, 2} \ {loc.file} :
                loc'.c[file] = loc.c[file] /\ loc'.eof[file] = loc.eof[file]
  BY <1>3, <1>7
<1> QED
  BY <1>1, <1>6, <1>7, <1>10, <1>11, LooksAtNext

\* The 16 bits of a location are all of it.
LEMMA Halfword == \A n \in Halfwords : n % 65536 = n
<1>1. \A m \in Nat : \A n \in 0 .. m : n % (m + 1) = n
  BY SMT
<1>2. PICK m \in Nat : m = 65535
  OBVIOUS
<1>3. m + 1 = 65536
  BY SMTT(60), <1>2
<1>4. Halfwords = 0 .. m
  BY SMTT(60), <1>2 DEF Halfwords
<1>5. \A n \in Halfwords : n % (m + 1) = n
  BY <1>1, <1>4
<1> QED
  BY SMTT(60), <1>3, <1>5

LEMMA LocationIs ==
    ASSUME loc.row \in Nat, loc.col \in Nat,
           CellOf(<<loc.row + 1, loc.col + 1>>) \in Halfwords
    PROVE  Location = CellOf(<<loc.row + 1, loc.col + 1>>)
<1>1. PICK r, k \in Nat : r = loc.row /\ k = loc.col
  OBVIOUS
<1>2. r + 1 \in NonZero /\ k + 1 \in NonZero /\ (r + 1) - 1 = r /\ (k + 1) - 1 = k
  BY DEF NonZero
<1>3. CellOf(<<r + 1, k + 1>>) = r * COLUMNS + k + OFFSET
  BY <1>2, CellIs
<1>4. PICK n : n = r * COLUMNS + k + OFFSET
  OBVIOUS
<1>5. n \in Halfwords
  BY <1>1, <1>3, <1>4
<1>6. Location = n % 65536
  BY <1>1, <1>4 DEF Location
<1> QED
  BY <1>1, <1>3, <1>4, <1>5, <1>6, Halfword

\* A line is looked at in its next column.
LEMMA NextColumn ==
    ASSUME FramesArePictures, NEW l, NEW l2, NEW file \in {1, 2}, NEW d, Both(l.frames),
           l.col \in Nat,
           l2.frames = l.frames, l2.row = l.row, l2.col = l.col + 1, l2.file = 1,
           l2.c = l.c, l2.eof = l.eof,
           InLine(l, file, l.col + 1, d) \/ PastLine(l, file, d)
    PROVE  Looks(l2, file, d)
<1>1. ~(file < l2.file)
  OBVIOUS
<1>2. CASE InLine(l, file, l.col + 1, d)
  <2>1. PICK n : n = l.col + 1
    OBVIOUS
  <2>2. InLine(l, file, n, d)
    BY <1>2, <2>1
  <2>3. InLine(l2, file, n, d)
    BY <2>2 DEF InLine
  <2>4. n = l2.col
    BY <2>1
  <2> QED
    BY <1>1, <2>3, <2>4 DEF Looks
<1>3. CASE PastLine(l, file, d)
  <2>1. Len(PictureRow(l.frames, file, l.row + 1)) \in Nat
    BY RowLength
  <2>2. Len(PictureRow(l.frames, file, l.row + 1)) <= l.col
    BY <1>3 DEF PastLine
  <2>3. PICK m \in Nat : m = Len(PictureRow(l.frames, file, l.row + 1))
    BY <2>1
  <2>4. m <= l.col + 1
    BY <2>2, <2>3
  <2>5. Len(PictureRow(l2.frames, file, l2.row + 1)) <= l2.col
    BY <2>3, <2>4
  <2>6. GoesOn(l2, file, l2.row + 2, d) /\ l2.c[file] = NEWLINE
    BY <1>3 DEF PastLine, GoesOn
  <2> QED
    BY <2>5, <2>6 DEF Looks, PastLine
<1> QED
  BY <1>2, <1>3

LEMMA FishPlacesOne ==
    ASSUME FramesArePictures, ProgInv, BlinkInv, FishInv, cmd.program = "fish", FishPlaces
    PROVE  BlinkInv' /\ FishInv'
<1>1. /\ pc = "fish looks" /\ pc' = "fish looks" /\ loc.file = 3 /\ fds' = fds
      /\ loc' = [loc EXCEPT !.col = @ + 1, !.file = 1]
  BY DEF FishPlaces, Calls, fdVars
<1>2. /\ loc.row \in Nat /\ loc.col \in Nat /\ DOMAIN loc.c = {1, 2} /\ DOMAIN loc.eof = {1, 2}
      /\ DOMAIN loc = {"frames", "rtc", "fd", "file", "c", "eof", "row", "col"}
      /\ Both(loc.frames) /\ loc.fd[1] # loc.fd[2]
  BY <1>1, WeavingIs DEF Weaves
<1>3. /\ loc'.frames = loc.frames /\ loc'.fd = loc.fd /\ loc'.row = loc.row
      /\ loc'.col = loc.col + 1 /\ loc'.c = loc.c /\ loc'.eof = loc.eof /\ loc'.file = 1
  BY <1>1, <1>2
<1>4. PICK r \in NonZero, k \in NonZero : r = loc.row + 1 /\ k = loc.col + 1
  BY <1>2 DEF NonZero
<1>5. PICK l, l2 : l = loc /\ l2 = loc'
  OBVIOUS
<1>6. ASSUME NEW file \in {1, 2}
      PROVE  \/ InLine(l, file, l.col + 1, fds[Pid][l.fd[file]])
             \/ PastLine(l, file, fds[Pid][l.fd[file]])
  <2>1. Looks(l, file, fds[Pid][l.fd[file]])
    BY <1>1, <1>5 DEF FishInv
  <2>2. file < l.file
    <3>1. l.file = 3
      BY <1>1, <1>5
    <3>2. file < 3
      OBVIOUS
    <3> QED
      BY <3>1, <3>2
  <2> QED
    BY <2>1, <2>2 DEF Looks
<1>7. ASSUME NEW file \in {1, 2}
      PROVE  LET ink == Ink(loc.frames, file, r, k) IN
             /\ OrBlank(loc.c[file]) = ink /\ ink \in Chars
             /\ loc.c[file] \notin {BLANK, NEWLINE} <=> ink # BLANK
  <2>1. Both(l.frames) /\ l.row \in Nat /\ l.col \in Nat
    BY <1>2, <1>5
  <2>2. LET ink == Ink(l.frames, file, l.row + 1, l.col + 1) IN
        /\ OrBlank(l.c[file]) = ink /\ ink \in Chars
        /\ l.c[file] \notin {BLANK, NEWLINE} <=> ink # BLANK
    BY <1>6, <2>1, InkRead
  <2> QED
    BY <1>4, <1>5, <2>2
<1>8. Drawn <=> \E file \in {1, 2} : Ink(loc.frames, file, r, k) # BLANK
  BY <1>7 DEF Drawn
<1>9. /\ OrBlank(loc.c[1]) = Ink(loc.frames, 1, r, k) /\ Ink(loc.frames, 1, r, k) \in Chars
      /\ OrBlank(loc.c[2]) = Ink(loc.frames, 2, r, k) /\ Ink(loc.frames, 2, r, k) \in Chars
  BY <1>7
<1>10. PICK at : at = Location
  OBVIOUS
<1>11. CellOf(<<r, k>>) \in Halfwords => at = CellOf(<<r, k>>)
  BY <1>2, <1>4, <1>10, LocationIs
<1>12. IF \E file \in {1, 2} : Ink(loc.frames, file, r, k) # BLANK
       THEN mp1_ioctl_add(Blinking(at, Ink(loc.frames, 1, r, k), Ink(loc.frames, 2, r, k)))
       ELSE UNCHANGED blinkVars
  BY <1>8, <1>9, <1>10, Zenon DEF FishPlaces
<1>13. DrawnUpTo(Stack, vmem, loc.frames, <<r, k>>)
  BY <1>1, <1>4 DEF FishInv
<1>14. BlinkInv' /\ DrawnUpTo(Stack', vmem', loc.frames, <<r, k + 1>>)
  BY <1>2, <1>9, <1>11, <1>12, <1>13, PlacesCell
<1>15. DrawnUpTo(Stack', vmem', loc'.frames, <<loc'.row + 1, loc'.col + 1>>)
  BY <1>3, <1>4, <1>14
<1>16. ASSUME NEW file \in {1, 2} PROVE Looks(loc', file, fds'[Pid][loc'.fd[file]])
  <2>1. Both(l.frames) /\ l.col \in Nat
    BY <1>2, <1>5
  <2>2. /\ l2.frames = l.frames /\ l2.row = l.row /\ l2.col = l.col + 1 /\ l2.file = 1
        /\ l2.c = l.c /\ l2.eof = l.eof /\ l2.fd = l.fd
    BY <1>3, <1>5
  <2>3. Looks(l2, file, fds[Pid][l.fd[file]])
    BY <1>6, <2>1, <2>2, NextColumn
  <2> QED
    BY <1>1, <1>5, <2>2, <2>3
<1>17. loc'.row \in Nat /\ loc'.col \in Nat
  BY <1>2, <1>3
<1>18. FishInv'
  BY <1>1, <1>2, <1>3, <1>15, <1>16, <1>17, ToLooks
<1> QED
  BY <1>14, <1>18

\* The lines of both files have ended.
LEMMA FishEndsRowOne ==
    ASSUME FramesArePictures, ProgInv, BlinkInv, FishInv, cmd.program = "fish", FishEndsRow
    PROVE  BlinkInv' /\ FishInv'
<1>1. /\ pc = "fish looks" /\ pc' = "fish ends row" /\ loc.file = 3 /\ fds' = fds
      /\ AtNewline(1) /\ AtNewline(2) /\ UNCHANGED blinkVars
      /\ loc' = [loc EXCEPT !.file = 1]
  BY DEF FishEndsRow, Calls, fdVars
<1>2. /\ loc.row \in Nat /\ loc.col \in Nat /\ DOMAIN loc.c = {1, 2} /\ DOMAIN loc.eof = {1, 2}
      /\ DOMAIN loc = {"frames", "rtc", "fd", "file", "c", "eof", "row", "col"}
      /\ Both(loc.frames) /\ loc.fd[1] # loc.fd[2]
  BY <1>1, WeavingIs DEF Weaves
<1>3. /\ loc'.frames = loc.frames /\ loc'.fd = loc.fd /\ loc'.row = loc.row
      /\ loc'.col = loc.col /\ loc'.c = loc.c /\ loc'.eof = loc.eof /\ loc'.file = 1
  BY <1>1, <1>2
<1>4. BlinkInv' /\ Stack' = Stack /\ vmem' = vmem
  BY <1>1, BlinkStays
<1>5. PICK l, l2 : l = loc /\ l2 = loc'
  OBVIOUS
<1>6. ASSUME NEW file \in {1, 2} PROVE PastLine(l, file, fds[Pid][l.fd[file]])
  <2>1. Looks(l, file, fds[Pid][l.fd[file]])
    BY <1>1, <1>5 DEF FishInv
  <2>2. l.c[file] = NEWLINE
    BY <1>1, <1>5 DEF AtNewline
  <2> QED
    BY <2>1, <2>2 DEF Looks, InLine
<1>7. ASSUME NEW file \in {1, 2} PROVE EndsRow(loc', file, fds'[Pid][loc'.fd[file]])
  <2>1. SameFile(l, l2, file) /\ l2.file = 1 /\ l2.fd = l.fd
    BY <1>3, <1>5 DEF SameFile
  <2>2. PastLine(l2, file, fds[Pid][l.fd[file]])
    BY <1>6, <2>1, SameLooks
  <2>3. ~(file < l2.file)
    <3>1. ~(file < 1)
      OBVIOUS
    <3> QED
      BY <2>1, <3>1
  <2>4. EndsRow(l2, file, fds[Pid][l.fd[file]])
    BY <2>2, <2>3 DEF EndsRow
  <2> QED
    BY <1>1, <1>5, <2>1, <2>4
<1>8. PICK r \in Nat, k \in Nat : r = loc.row + 1 /\ k = loc.col + 1
  BY <1>2
<1>9. ASSUME NEW file \in {1, 2} PROVE Len(PictureRow(loc.frames, file, r)) < k
  <2>1. Len(PictureRow(l.frames, file, l.row + 1)) <= l.col
    BY <1>6 DEF PastLine
  <2>2. PICK m \in Nat : m = Len(PictureRow(loc.frames, file, r))
    BY <1>2, RowLength
  <2>3. m <= loc.col
    BY <1>5, <1>8, <2>1, <2>2
  <2>4. m < k
    BY <1>2, <1>8, <2>3
  <2> QED
    BY <2>2, <2>4
<1>10. Rank(OnScreen(loc.frames), <<r + 1, 1>>) = Rank(OnScreen(loc.frames), <<r, k>>)
  BY <1>2, <1>9, RowEnds
<1>11. DrawnUpTo(Stack, vmem, loc.frames, <<r, k>>)
  BY <1>1, <1>8 DEF FishInv
<1>12. DrawnUpTo(Stack, vmem, loc.frames, <<r + 1, 1>>)
  BY <1>10, <1>11 DEF DrawnUpTo
<1>13. loc.row + 2 = r + 1
  BY <1>2, <1>8
<1>14. DrawnUpTo(Stack', vmem', loc'.frames, <<loc'.row + 2, 1>>)
  BY <1>3, <1>4, <1>12, <1>13
<1>15. FishInv'
  BY <1>1, <1>2, <1>3, <1>7, <1>14, ToEndsRow
<1> QED
  BY <1>4, <1>15

\* A step to the next file at the end of a row.
LEMMA EndsNext ==
    ASSUME ProgInv, BlinkInv, FishInv, cmd.program = "fish", pc = "fish ends row",
           pc' = "fish ends row", UNCHANGED blinkVars, loc.file \in {1, 2},
           loc'.frames = loc.frames, loc'.fd = loc.fd, loc'.row = loc.row, loc'.col = loc.col,
           loc'.file = loc.file + 1, DOMAIN loc'.c = {1, 2}, DOMAIN loc'.eof = {1, 2},
           \A file \in {1, 2} \ {loc.file} :
                /\ loc'.c[file] = loc.c[file] /\ loc'.eof[file] = loc.eof[file]
                /\ fds'[Pid][loc.fd[file]] = fds[Pid][loc.fd[file]],
           EndsRow(loc', loc.file, fds'[Pid][loc.fd[loc.file]])
    PROVE  BlinkInv' /\ FishInv'
<1>1. BlinkInv' /\ Stack' = Stack /\ vmem' = vmem
  BY BlinkStays
<1>2. /\ Both(loc.frames) /\ loc.fd[1] # loc.fd[2] /\ loc.row \in Nat /\ loc.col \in Nat
  BY WeavingIs DEF Weaves
<1>3. ASSUME NEW file \in {1, 2} PROVE EndsRow(loc', file, fds'[Pid][loc'.fd[file]])
  <2>1. PICK l, l2, d : l = loc /\ l2 = loc' /\ d = fds[Pid][loc.fd[file]]
    OBVIOUS
  <2>2. CASE file = loc.file
    BY <2>2
  <2>3. CASE file # loc.file
    <3>1. EndsRow(l, file, d)
      BY <2>1, <2>3 DEF FishInv
    <3>2. SameFile(l, l2, file)
      BY <2>1, <2>3 DEF SameFile
    <3>3. (file < l.file) <=> (file < l2.file)
      BY ZenonT(40), <2>1, <2>3, NextFile
    <3>4. EndsRow(l2, file, d)
      BY <3>1, <3>2, <3>3, SameLooks
    <3> QED
      BY <2>1, <2>3, <3>4
  <2> QED
    BY <2>2, <2>3
<1>4. DrawnUpTo(Stack', vmem', loc'.frames, <<loc'.row + 2, 1>>)
  BY <1>1 DEF FishInv
<1>5. FishInv'
  <2>1. Both(loc'.frames)
    BY <1>2
  <2>2. loc'.fd[1] # loc'.fd[2]
    BY <1>2
  <2>3. loc'.row \in Nat /\ loc'.col \in Nat
    BY <1>2
  <2> QED
    BY <1>3, <1>4, <2>1, <2>2, <2>3, ToEndsRow
<1> QED
  BY <1>1, <1>5

\* Of a file at the end of its line it is known whether it goes on.
LEMMA RowEnded ==
    ASSUME FishInv, cmd.program = "fish", pc = "fish ends row", NEW n \in {1, 2}, n = loc.file
    PROVE  PastLine(loc, n, fds[Pid][loc.fd[n]])
<1>1. EndsRow(loc, n, fds[Pid][loc.fd[n]])
  BY DEF FishInv
<1>2. ~(n < loc.file)
  BY NextFile
<1> QED
  BY <1>1, <1>2 DEF EndsRow

LEMMA FishClosesOne ==
    ASSUME ProgInv, BlinkInv, FishInv, cmd.program = "fish", FishCloses
    PROVE  BlinkInv' /\ FishInv'
<1>1. /\ pc = "fish ends row" /\ pc' = "fish ends row" /\ loc.file <= 2 /\ loc.eof[loc.file]
      /\ Close(Pid, loc.fd[loc.file])
      /\ loc' = [loc EXCEPT !.file = @ + 1] /\ UNCHANGED blinkVars
  BY DEF FishCloses, Calls
<1>2. /\ loc.file \in 1 .. 3 /\ DOMAIN loc.c = {1, 2} /\ DOMAIN loc.eof = {1, 2}
      /\ DOMAIN loc = {"frames", "rtc", "fd", "file", "c", "eof", "row", "col"}
      /\ fds \in Tables /\ loc.fd[1] # loc.fd[2] /\ \A file \in {1, 2} : loc.fd[file] \in Fds
  BY <1>1, WeavingIs DEF Weaves
<1>3. PICK n \in {1, 2} : n = loc.file
  <2>1. loc.file \in 1 .. 3
    BY <1>2
  <2>2. loc.file <= 2
    BY <1>1
  <2> QED
    BY <2>1, <2>2
<1>4. /\ loc'.frames = loc.frames /\ loc'.fd = loc.fd /\ loc'.row = loc.row /\ loc'.col = loc.col
      /\ loc'.c = loc.c /\ loc'.eof = loc.eof /\ loc'.file = loc.file + 1
  BY <1>1, <1>2
<1>5. PICK l, l2, d, d2 : /\ l = loc /\ l2 = loc'
                          /\ d = fds[Pid][loc.fd[n]] /\ d2 = fds'[Pid][loc.fd[n]]
  OBVIOUS
<1>6. EndsRow(l2, n, d2)
  <2>1. PastLine(l, n, d)
    BY <1>1, <1>3, <1>5, RowEnded
  <2>2. l.eof[n]
    BY <1>1, <1>3, <1>5
  <2>3. n < l2.file
    BY <1>3, <1>4, <1>5, NextFile
  <2>4. l2.c = l.c /\ l2.eof = l.eof /\ l2.row = l.row /\ l2.frames = l.frames
    BY <1>4, <1>5
  <2> QED
    BY <2>1, <2>2, <2>3, <2>4 DEF EndsRow, PastLine, GoesOn
<1>7. ASSUME NEW file \in {1, 2} \ {n} PROVE fds'[Pid][loc.fd[file]] = fds[Pid][loc.fd[file]]
  <2>1. loc.fd[file] \in Fds \ {loc.fd[n]}
    BY <1>2
  <2> QED
    BY <1>1, <1>2, <1>3, <2>1, CloseFrame
<1>8. EndsRow(loc', loc.file, fds'[Pid][loc.fd[loc.file]])
  BY <1>3, <1>5, <1>6
<1>9. loc.file \in {1, 2} /\ \A file \in {1, 2} \ {loc.file} :
            /\ loc'.c[file] = loc.c[file] /\ loc'.eof[file] = loc.eof[file]
            /\ fds'[Pid][loc.fd[file]] = fds[Pid][loc.fd[file]]
  BY <1>3, <1>4, <1>7
<1> QED
  BY <1>1, <1>2, <1>4, <1>8, <1>9, EndsNext

LEMMA FishGoesOnOne ==
    ASSUME ProgInv, BlinkInv, FishInv, cmd.program = "fish", FishGoesOn
    PROVE  BlinkInv' /\ FishInv'
<1>1. /\ pc = "fish ends row" /\ pc' = "fish ends row" /\ loc.file <= 2 /\ ~loc.eof[loc.file]
      /\ loc' = [loc EXCEPT !.c[loc.file] = NoNewline, !.file = @ + 1]
      /\ UNCHANGED blinkVars /\ fds' = fds
  BY DEF FishGoesOn, Calls, fdVars
<1>2. /\ loc.file \in 1 .. 3 /\ DOMAIN loc.c = {1, 2} /\ DOMAIN loc.eof = {1, 2}
      /\ DOMAIN loc = {"frames", "rtc", "fd", "file", "c", "eof", "row", "col"}
  BY <1>1, WeavingIs DEF Weaves
<1>3. PICK n \in {1, 2} : n = loc.file
  <2>1. loc.file \in 1 .. 3
    BY <1>2
  <2>2. loc.file <= 2
    BY <1>1
  <2> QED
    BY <2>1, <2>2
<1>4. /\ loc'.frames = loc.frames /\ loc'.fd = loc.fd /\ loc'.row = loc.row /\ loc'.col = loc.col
      /\ loc'.c = [loc.c EXCEPT ![loc.file] = NoNewline] /\ loc'.eof = loc.eof
      /\ loc'.file = loc.file + 1
  BY <1>1, <1>2
<1>5. /\ loc'.c[n] = NoNewline /\ DOMAIN loc'.c = {1, 2}
      /\ \A file \in {1, 2} \ {n} : loc'.c[file] = loc.c[file]
  BY <1>2, <1>3, <1>4
<1>6. PICK l, l2, d : l = loc /\ l2 = loc' /\ d = fds[Pid][loc.fd[n]]
  OBVIOUS
<1>7. EndsRow(l2, n, d)
  <2>1. PastLine(l, n, d)
    BY <1>1, <1>3, <1>6, RowEnded
  <2>2. ~l.eof[n] /\ l2.c[n] = NoNewline /\ NEWLINE # NoNewline
    BY <1>1, <1>3, <1>5, <1>6, FishAssumption
  <2>3. n < l2.file
    BY <1>3, <1>4, <1>6, NextFile
  <2>4. l2.eof = l.eof /\ l2.row = l.row /\ l2.frames = l.frames
    BY <1>4, <1>6
  <2> QED
    BY <2>1, <2>2, <2>3, <2>4 DEF EndsRow, PastLine, GoesOn
<1>8. EndsRow(loc', loc.file, fds'[Pid][loc.fd[loc.file]])
  BY <1>1, <1>3, <1>6, <1>7
<1>9. loc.file \in {1, 2} /\ \A file \in {1, 2} \ {loc.file} :
            /\ loc'.c[file] = loc.c[file] /\ loc'.eof[file] = loc.eof[file]
            /\ fds'[Pid][loc.fd[file]] = fds[Pid][loc.fd[file]]
  BY <1>1, <1>3, <1>4, <1>5
<1> QED
  BY <1>1, <1>2, <1>4, <1>5, <1>8, <1>9, EndsNext

\* A file behind the end of its line is looked at in the next one.
LEMMA NextLooks ==
    ASSUME FramesArePictures, NEW l, NEW l2, NEW file \in {1, 2}, NEW d, Both(l.frames),
           l.row \in Nat, NEW r \in NonZero, r = l.row + 2,
           l2.frames = l.frames, l2.row + 1 = r, l2.row + 2 = r + 1, l2.col = 0, l2.file = 1,
           l2.c = l.c, l2.eof = l.eof, l.c[file] = NEWLINE <=> l.eof[file],
           GoesOn(l, file, r, d)
    PROVE  Looks(l2, file, d)
<1> DEFINE inode == InodeOf(l.frames, file)
<1>0. ~(file < l2.file) /\ Size(inode) \in Nat
  <2>1. ~(file < 1)
    OBVIOUS
  <2> QED
    BY <2>1, PictureIs
<1>1. CASE l.eof[file]
  <2>1. NoneFrom(inode, r) /\ l2.c[file] = NEWLINE /\ l2.eof[file]
    BY <1>1 DEF GoesOn
  <2>2. NoneFrom(inode, r + 1) /\ PictureRow(l.frames, file, r) = <<>>
    BY <2>1, NoneLater
  <2>3. Len(PictureRow(l2.frames, file, l2.row + 1)) <= l2.col
    <3>1. Len(<<>>) = 0
      OBVIOUS
    <3> QED
      BY <2>2, <3>1
  <2>4. GoesOn(l2, file, l2.row + 2, d)
    BY <2>1, <2>2 DEF GoesOn
  <2> QED
    BY <2>1, <2>3, <2>4 DEF Looks, PastLine
<1>2. CASE ~l.eof[file]
  <2>1. PICK s \in 0 .. Size(inode) : StartsAt(inode, r, s) /\ AtOffset(d, inode, s)
    BY <1>2 DEF GoesOn
  <2>2. s + 0 = s /\ s + 0 <= Size(inode) /\ s .. s + 0 - 1 = {} /\ ~(0 > 0)
    <3> HIDE DEF inode
    <3> QED
      BY <1>0
  <2>3. Within(inode, s, 0)
    BY <2>2 DEF Within
  <2>4. InLine(l2, file, 0, d)
    BY <1>2, <2>1, <2>2, <2>3 DEF InLine
  <2> QED
    BY <1>0, <2>4 DEF Looks
<1> QED
  BY <1>1, <1>2

LEMMA FishNextRowOne ==
    ASSUME FramesArePictures, ProgInv, BlinkInv, FishInv, cmd.program = "fish", FishNextRow
    PROVE  BlinkInv' /\ FishInv'
<1>1. /\ pc = "fish ends row" /\ pc' = "fish looks" /\ loc.file = 3 /\ fds' = fds
      /\ loc' = [loc EXCEPT !.row = @ + 1, !.col = 0, !.file = 1] /\ UNCHANGED blinkVars
  BY DEF FishNextRow, Calls, fdVars
<1>2. /\ loc.row \in Nat /\ loc.col \in Nat /\ DOMAIN loc.c = {1, 2} /\ DOMAIN loc.eof = {1, 2}
      /\ DOMAIN loc = {"frames", "rtc", "fd", "file", "c", "eof", "row", "col"}
      /\ Both(loc.frames) /\ loc.fd[1] # loc.fd[2]
  BY <1>1, WeavingIs DEF Weaves
<1>3. /\ loc'.frames = loc.frames /\ loc'.fd = loc.fd /\ loc'.row = loc.row + 1
      /\ loc'.col = 0 /\ loc'.c = loc.c /\ loc'.eof = loc.eof /\ loc'.file = 1
  BY <1>1, <1>2
<1>4. BlinkInv' /\ Stack' = Stack /\ vmem' = vmem
  BY <1>1, BlinkStays
<1>5. PICK r \in NonZero : r = loc.row + 2
  BY <1>2 DEF NonZero
<1>6. PICK l, l2 : l = loc /\ l2 = loc'
  OBVIOUS
<1>7. loc'.row + 1 = r /\ loc'.row + 2 = r + 1 /\ loc'.row \in Nat /\ loc'.col \in Nat
      /\ loc'.col + 1 = 1
  BY <1>2, <1>3, <1>5
<1>8. ASSUME NEW file \in {1, 2} PROVE Looks(loc', file, fds'[Pid][loc'.fd[file]])
  <2>1. file < l.file
    <3>1. l.file = 3
      BY <1>1, <1>6
    <3>2. file < 3
      OBVIOUS
    <3> QED
      BY <3>1, <3>2
  <2>2. /\ l.c[file] = NEWLINE <=> l.eof[file]
        /\ GoesOn(l, file, l.row + 2, fds[Pid][l.fd[file]])
    BY <1>1, <1>6, <2>1 DEF FishInv, EndsRow
  <2>3. /\ l2.frames = l.frames /\ l2.row + 1 = r /\ l2.row + 2 = r + 1 /\ l2.col = 0 /\ l2.file = 1
        /\ l2.c = l.c /\ l2.eof = l.eof /\ l2.fd = l.fd
    BY <1>3, <1>6, <1>7
  <2>4. Both(l.frames) /\ l.row \in Nat /\ r = l.row + 2
    BY <1>2, <1>5, <1>6
  <2>5. GoesOn(l, file, r, fds[Pid][l.fd[file]])
    BY <2>2, <2>4
  <2>6. Looks(l2, file, fds[Pid][l.fd[file]])
    BY <2>2, <2>3, <2>4, <2>5, NextLooks
  <2> QED
    BY <1>1, <1>6, <2>3, <2>6
<1>9. DrawnUpTo(Stack, vmem, loc.frames, <<r, 1>>)
  BY <1>1, <1>5 DEF FishInv
<1>10. DrawnUpTo(Stack', vmem', loc'.frames, <<loc'.row + 1, loc'.col + 1>>)
  BY <1>3, <1>4, <1>7, <1>9
<1>11. FishInv'
  BY <1>1, <1>2, <1>3, <1>7, <1>8, <1>10, ToLooks
<1> QED
  BY <1>4, <1>11

\* Both pictures are drawn.
LEMMA FishSetsRateOne ==
    ASSUME FramesArePictures, ProgInv, BlinkInv, FishInv, cmd.program = "fish", FishSetsRate
    PROVE  BlinkInv' /\ FishInv'
<1>1. /\ pc = "fish ends row" /\ pc' = "fish waits" /\ loc.file = 3 /\ loc.eof[1] /\ loc.eof[2]
      /\ loc' = [frames |-> loc.frames, rtc |-> loc.rtc, act |-> 1, i |-> 0]
      /\ UNCHANGED blinkVars
  BY DEF FishSetsRate, Calls
<1>2. loc.row \in Nat /\ Both(loc.frames)
  BY <1>1, WeavingIs DEF Weaves
<1>3. loc'.frames = loc.frames /\ loc'.act = 1
  BY <1>1
<1>4. BlinkInv' /\ Stack' = Stack /\ vmem' = vmem
  BY <1>1, BlinkStays
<1>5. PICK r \in NonZero : r = loc.row + 2
  BY <1>2 DEF NonZero
<1>6. ASSUME NEW file \in {1, 2} PROVE NoneFrom(InodeOf(loc.frames, file), r)
  <2>1. PICK l : l = loc
    OBVIOUS
  <2>2. file < l.file
    <3>1. l.file = 3
      BY <1>1, <2>1
    <3>2. file < 3
      OBVIOUS
    <3> QED
      BY <3>1, <3>2
  <2>3. GoesOn(l, file, l.row + 2, fds[Pid][l.fd[file]])
    BY <1>1, <2>1, <2>2 DEF FishInv, EndsRow
  <2>4. l.eof[file]
    BY <1>1, <2>1
  <2> QED
    BY <1>5, <2>1, <2>3, <2>4 DEF GoesOn
<1>7. Rank(OnScreen(loc.frames), <<r, 1>>) = Cardinality(OnScreen(loc.frames))
  BY <1>2, <1>6, PicturesEnd
<1>8. PICK n \in Nat : n = Len(Woven(loc.frames)) /\ n = Rank(OnScreen(loc.frames), <<r, 1>>)
  BY <1>2, <1>7, OnScreenIs
<1>9. /\ Len(Stack) = n /\ OldestAre(Stack, loc.frames, n, LENGTH, TRUE)
      /\ AreSeen(vmem, loc.frames, n, TRUE)
  BY <1>1, <1>5, <1>8 DEF FishInv, DrawnUpTo
<1>10. LENGTH \in 0 .. LENGTH
  <2>1. LENGTH \in Lengths
    BY FishAssumption
  <2> QED
    BY <2>1, NumbersAre
<1>11. InStep(Stack, vmem, loc.frames, 1)
  <2>1. 1 \notin {2, 3}
    OBVIOUS
  <2> QED
    BY <1>8, <1>9, <1>10, <2>1 DEF InStep
<1>12. InStep(Stack', vmem', loc'.frames, 1) /\ Both(loc'.frames) /\ 1 \in 1 .. 4
  BY <1>2, <1>3, <1>4, <1>11
<1>13. FishInv'
  BY <1>1, <1>3, <1>12, ToBlinks DEF Blinks
<1> QED
  BY <1>4, <1>13

\* Its variables while they blink.
LEMMA BlinkingIs ==
    ASSUME ProgInv, FishInv, cmd.program = "fish", pc \in Blinks
    PROVE  /\ Both(loc.frames) /\ loc.act \in 1 .. 4 /\ InStep(Stack, vmem, loc.frames, loc.act)
           /\ DOMAIN loc = {"frames", "rtc", "act", "i"}
BY DEF FishInv, ProgInv, ProgLocals, FishLocals, Blinks

LEMMA FishWaitsOne ==
    ASSUME FramesArePictures, ProgInv, BlinkInv, FishInv, cmd.program = "fish",
           FishWaits \/ FishClosesRtc \/ FishTicks \/ FishEnds
    PROVE  BlinkInv' /\ FishInv'
<1>1. CASE FishWaits
  <2>1. pc = "fish waits" /\ pc' = "fish ticks" /\ loc' = loc /\ UNCHANGED blinkVars
    BY <1>1 DEF FishWaits, Calls
  <2>2. BlinkInv' /\ Stack' = Stack /\ vmem' = vmem
    BY <2>1, BlinkStays
  <2>3. Both(loc.frames) /\ loc.act \in 1 .. 4 /\ InStep(Stack, vmem, loc.frames, loc.act)
    BY <2>1, BlinkingIs DEF Blinks
  <2>4. FishInv'
    BY <2>1, <2>2, <2>3, ToBlinks DEF Blinks
  <2> QED
    BY <2>2, <2>4
<1>2. CASE FishClosesRtc
  <2>1. /\ pc = "fish waits" /\ pc' = "fish ends" /\ loc' = loc /\ loc.act = 4
        /\ UNCHANGED blinkVars
    BY <1>2 DEF FishClosesRtc, Calls
  <2>2. BlinkInv' /\ Stack' = Stack /\ vmem' = vmem
    BY <2>1, BlinkStays
  <2>3. Both(loc.frames) /\ loc.act \in 1 .. 4 /\ InStep(Stack, vmem, loc.frames, loc.act)
    BY <2>1, BlinkingIs DEF Blinks
  <2>4. FishInv'
    BY <2>1, <2>2, <2>3, ToBlinks
  <2> QED
    BY <2>2, <2>4
<1>3. CASE FishTicks
  <2>1. /\ pc = "fish ticks" /\ pc' = "fish waits" /\ loc' = [loc EXCEPT !.i = @ + 1]
        /\ mp1_rtc_tasklet
    BY <1>3 DEF FishTicks, Calls
  <2>2. /\ Both(loc.frames) /\ loc.act \in 1 .. 4 /\ InStep(Stack, vmem, loc.frames, loc.act)
        /\ DOMAIN loc = {"frames", "rtc", "act", "i"}
    BY <2>1, BlinkingIs DEF Blinks
  <2>3. loc'.frames = loc.frames /\ loc'.act = loc.act
    BY <2>1, <2>2
  <2>4. BlinkInv' /\ InStep(Stack', vmem', loc.frames, loc.act)
    BY <2>1, <2>2, TicksInStep
  <2>5. FishInv'
    BY <2>1, <2>2, <2>3, <2>4, ToBlinks DEF Blinks
  <2> QED
    BY <2>4, <2>5
<1>4. CASE FishEnds
  <2>1. UNCHANGED blinkVars /\ pc' = "none"
    BY <1>4 DEF FishEnds, Halt, EndsWith
  <2> QED
    BY <2>1, BlinkStays, ToQuiet
<1> QED
  BY <1>1, <1>2, <1>3, <1>4

\* One act follows the other.
LEMMA FishActsOne ==
    ASSUME FramesArePictures, ProgInv, BlinkInv, FishInv, cmd.program = "fish", FishActs
    PROVE  BlinkInv' /\ FishInv'
<1>1. /\ pc = "fish waits" /\ pc' = "fish waits"
      /\ loc' = [loc EXCEPT !.act = @ + 1, !.i = 0]
  BY DEF FishActs, Calls
<1>2. /\ Both(loc.frames) /\ loc.act \in 1 .. 4 /\ InStep(Stack, vmem, loc.frames, loc.act)
      /\ DOMAIN loc = {"frames", "rtc", "act", "i"}
  BY <1>1, BlinkingIs DEF Blinks
<1>3. loc'.frames = loc.frames /\ loc'.act = loc.act + 1
  BY <1>1, <1>2
<1>4. ASSUME NEW act \in 1 .. 4, loc.act + 1 = act, BlinkInv', InStep(Stack', vmem', loc.frames, act)
      PROVE  BlinkInv' /\ FishInv'
  BY <1>1, <1>2, <1>3, <1>4, ToBlinks DEF Blinks
<1>5. 2 \in 1 .. 4 /\ 3 \in 1 .. 4 /\ 4 \in 1 .. 4 /\ 1 + 1 = 2 /\ 2 + 1 = 3 /\ 3 + 1 = 4
  OBVIOUS
<1>6. CASE loc.act = 1 /\ mp1_ioctl_add(Extra)
  <2>1. BlinkInv' /\ InStep(Stack', vmem', loc.frames, 2)
    BY <1>2, <1>6, AddsExtra
  <2> QED
    BY <1>4, <1>5, <1>6, <2>1
<1>7. CASE loc.act = 2 /\ mp1_ioctl_sync(OFFSET, EXTRA)
  <2>1. BlinkInv' /\ InStep(Stack', vmem', loc.frames, 3)
    BY <1>2, <1>7, SyncsExtra
  <2> QED
    BY <1>4, <1>5, <1>7, <2>1
<1>8. CASE loc.act = 3 /\ mp1_ioctl_remove(EXTRA)
  <2>1. BlinkInv' /\ InStep(Stack', vmem', loc.frames, 4)
    BY <1>2, <1>8, StopsExtra
  <2> QED
    BY <1>4, <1>5, <1>8, <2>1
<1> QED
  BY <1>6, <1>7, <1>8 DEF FishActs

----------------------------------------------------------------------------
(* fish and the others *)

\* Only fish is where fish is, and where it does not read nothing is read.
FishAlone ==
    /\ pc \in FishPcs => cmd.program = "fish"
    /\ pc \in {"fish looks", "fish ends row"} => reader = Nobody

LEMMA FishAloneNext ==
    ASSUME ProgInv, FishAlone, [ProgramsNext]_programVars
    PROVE  FishAlone'
<1>0. ShellInv
  BY DEF ProgInv
<1>p. Pid # Nobody
  BY PidsAre
<1>1. CASE UNCHANGED programVars
  BY <1>1 DEF programVars, fdVars, shellVars, FishAlone
<1>2. CASE ShellSteps
  <2>1. CASE Boot \/ ShellRestarts
    <3>1. pc = "none" /\ pc' = pc
      BY <1>0, <2>1 DEF Boot, ShellRestarts, ShellInv, shellVars
    <3> QED
      BY <3>1 DEF FishAlone, FishPcs
  <2>2. ASSUME NEW c \in session, UnknownCommand(c) \/ Execute(c) PROVE FishAlone'
    <3>1. pc' = "none" \/ pc' = "start"
      BY <1>0, <2>2 DEF UnknownCommand, Execute, ShellInv
    <3> QED
      BY <3>1 DEF FishAlone, FishPcs
  <2>3. CASE KilledByCtrlC
    <3>1. pc' = "none"
      BY <2>3 DEF KilledByCtrlC, EndsWith
    <3> QED
      BY <3>1 DEF FishAlone, FishPcs
  <2> QED
    BY <1>2, <2>1, <2>2, <2>3 DEF ShellSteps
<1>3. CASE KernelReads
  <2>1. reader = Pid /\ UNCHANGED shellVars
    BY <1>0, <1>3, <1>p DEF KernelReads, CopyBlock, CopyBadBlock, FinishRead, ShellInv
  <2>2. pc \notin {"fish looks", "fish ends row"}
    BY <1>p, <2>1 DEF FishAlone
  <2> QED
    BY <2>1, <2>2 DEF FishAlone, shellVars
<1>4. CASE Fish
  <2>1. FishEnds \/ FishCannotOpen => pc' = "none"
    BY DEF FishEnds, FishCannotOpen, Halt, EndsWith
  <2>2. cmd.program = "fish"
    BY <1>4
       DEF Fish, FishBegins, FishOpensFirst, FishOpensSecond, FishLooks, FishReads, FishSkips,
           FishTakes, FishPlaces, FishEndsRow, FishCloses, FishGoesOn, FishNextRow, FishSetsRate,
           FishWaits, FishTicks, FishActs, FishClosesRtc, FishEnds, FishCannotOpen, Got, Starts,
           FishAlone, FishPcs
  <2>3. FishEnds \/ FishCannotOpen \/ cmd' = cmd
    BY <1>4
       DEF Fish, FishBegins, FishOpensFirst, FishOpensSecond, FishLooks, FishReads, FishSkips,
           FishTakes, FishPlaces, FishEndsRow, FishCloses, FishGoesOn, FishNextRow, FishSetsRate,
           FishWaits, FishTicks, FishActs, FishClosesRtc, Calls
  <2>4. pc' \in {"fish looks", "fish ends row"} => reader' = Nobody
    <3>1. CASE FishLooks \/ FishSkips \/ FishTakes \/ FishPlaces \/ FishEndsRow \/ FishGoesOn
               \/ FishNextRow
      <4>1. reader = Nobody /\ reader' = reader
        BY <3>1 DEF FishLooks, FishSkips, FishTakes, FishPlaces, FishEndsRow, FishGoesOn,
                    FishNextRow, Runs, fdVars
      <4> QED
        BY <4>1
    <3>2. CASE FishCloses
      BY <3>2 DEF FishCloses, Close, Runs
    <3>3. CASE FishBegins \/ FishOpensFirst \/ FishOpensSecond \/ FishReads \/ FishSetsRate
               \/ FishWaits \/ FishTicks \/ FishActs \/ FishClosesRtc \/ FishEnds \/ FishCannotOpen
      <4>1. pc' \notin {"fish looks", "fish ends row"}
        BY <3>3, <2>1
           DEF FishBegins, FishOpensFirst, FishOpensSecond, FishReads, FishSetsRate, FishWaits,
               FishTicks, FishActs, FishClosesRtc, Calls
      <4> QED
        BY <4>1
    <3> QED
      BY <1>4, <3>1, <3>2, <3>3 DEF Fish
  <2> QED
    BY <2>1, <2>2, <2>3, <2>4 DEF FishAlone, FishPcs
\* Every other step is one of a program that is not fish.
<1>5. CASE Cat \/ Grep \/ Syserr
  <2>1. CannotOpen \/ CatFails \/ CatEnds \/ GrepFails \/ GrepEnds \/ SyserrRefuses \/ SyserrEnds
            => pc' = "none"
    BY DEF CannotOpen, CatFails, CatEnds, GrepFails, GrepEnds, SyserrRefuses, SyserrEnds, Halt,
           EndsWith
  <2>2. Cat => pc' \notin FishPcs
    BY <2>1 DEF Cat, CatOpens, CatReadsFirst, CatWrites, CatReads, Calls, FishPcs
  <2>3. Grep => pc' \notin FishPcs
    BY <2>1
       DEF Grep, GrepOpensDir, GrepReadsFirst, GrepSkips, GrepGoesOn, GrepReadsDir,
           GrepOpens, GrepReadsFile, GrepReadsOn, GrepTakes, GrepMovesDown, GrepPrints, GrepPasses,
           GrepCloses, Calls, NextLine, FishPcs
  <2>4. Syserr => pc' \notin FishPcs
    BY <2>1 DEF Syserr, SyserrChooses, SyserrCalls, SyserrJudges, Calls, FishPcs
  <2>5. pc' \notin FishPcs
    BY <1>5, <2>2, <2>3, <2>4
  <2> QED
    BY <2>5 DEF FishAlone, FishPcs
<1>6. CASE AnyOpens \/ AnyOpensDir \/ AnyCall \/ AnyHalts \/ AnyFaults \/ SigtestFaults
  <2>1. pc' \notin FishPcs
    BY <1>6
       DEF AnyOpens, AnyOpensDir, AnyCall, AnyHalts, AnyFaults, SigtestFaults, Calls, Halt,
           EndsWith, shellVars, FishPcs
  <2> QED
    BY <2>1 DEF FishAlone, FishPcs
<1> QED
  BY <1>1, <1>2, <1>3, <1>4, <1>5, <1>6 DEF ProgramsNext, ProgramSteps, OtherSteps, Syserr

LEMMA FishStays ==
    /\ UNCHANGED cmd /\ cmd.program # "fish" => FishInv'
    /\ ProgInv /\ BlinkInv /\ FishInv /\ UNCHANGED <<fds, reader, rd, reply, shellVars, blinkVars>>
            => FishInv'
<1>1. UNCHANGED cmd /\ cmd.program # "fish" => FishInv'
  BY DEF FishInv
<1>2. ASSUME BlinkInv, FishInv, UNCHANGED <<fds, reader, rd, reply, shellVars, blinkVars>>
      PROVE  FishInv'
  <2>1. Stack' = Stack /\ vmem' = vmem
    BY <1>2, BlinkStays
  <2>2. cmd' = cmd /\ pc' = pc /\ loc' = loc /\ fds' = fds /\ reader' = reader /\ rd' = rd
        /\ reply' = reply
    BY <1>2 DEF shellVars
  <2> QED
    BY <1>2, <2>1, <2>2, ZenonT(60) DEF FishInv
<1> QED
  BY <1>1, <1>2

LEMMA FishKernel ==
    ASSUME FramesArePictures, ProgInv, BlinkInv, FishAlone, FishInv, cmd.program = "fish",
           KernelReads, UNCHANGED blinkVars
    PROVE  FishInv'
<1>0. FdInv /\ ShellInv /\ OpenInv0 /\ Pid # Nobody
  BY PidsAre DEF ProgInv, ProgLocals
<1>1. reader = Pid /\ pc' = pc /\ loc' = loc /\ cmd' = cmd
  BY <1>0 DEF KernelReads, CopyBlock, CopyBadBlock, FinishRead, ShellInv, shellVars
<1>2. Stack' = Stack /\ vmem' = vmem
  BY BlinkStays
<1>3. CASE pc = "fish reads"
  <2>1. /\ fds \in Tables /\ Pid \in Pids /\ Both(loc.frames) /\ loc.fd[1] # loc.fd[2]
        /\ loc.row \in Nat /\ loc.col \in Nat /\ DOMAIN loc.c = {1, 2} /\ DOMAIN loc.eof = {1, 2}
        /\ \A file \in {1, 2} : loc.fd[file] \in Fds
    BY <1>3, WeavingIs DEF Weaves
  <2>2. PICK n \in {1, 2} : n = loc.file
    <3>1. loc.file \in 1 .. 3
      BY <1>3, WeavingIs DEF Weaves
    <3>2. loc.file <= 2
      BY <1>3 DEF ProgInv, ProgLocals, FishLocals
    <3> QED
      BY <3>1, <3>2
  <2>3. PICK l : l = loc
    OBVIOUS
  <2>4. IsReading(l, n, fds[Pid][l.fd[n]], rd)
    BY <1>1, <1>3, <2>2, <2>3 DEF FishInv
  <2>5. IF reader' = Pid THEN IsReading(l, n, fds'[Pid][l.fd[n]], rd')
        ELSE HasRead(l, n, fds'[Pid][l.fd[n]], reply')
    <3>1. Both(l.frames) /\ l.fd[n] \in Fds /\ l.col \in Nat
      BY <2>1, <2>3
    <3> QED
      BY <1>0, <2>4, <3>1, CopiesPicture
  <2>6. ASSUME NEW file \in {1, 2} \ {n} PROVE fds'[Pid][loc.fd[file]] = fds[Pid][loc.fd[file]]
    <3>1. loc.fd[file] \in Fds \ {rd.fd}
      BY <2>1, <2>3, <2>4 DEF IsReading
    <3> QED
      BY <1>1, <2>1, <3>1 DEF KernelReads, CopyBlock, CopyBadBlock, FinishRead, SetDesc, Tables
  <2>7. \A file \in {1, 2} \ {loc.file} : Looks(loc, file, fds[Pid][loc.fd[file]])
    BY <1>3 DEF FishInv
  <2>8. \A file \in {1, 2} \ {loc'.file} : Looks(loc', file, fds'[Pid][loc'.fd[file]])
    BY <1>1, <2>2, <2>6, <2>7
  <2>9. IF reader' = Pid THEN IsReading(loc', loc'.file, fds'[Pid][loc'.fd[loc'.file]], rd')
        ELSE HasRead(loc', loc'.file, fds'[Pid][loc'.fd[loc'.file]], reply')
    BY <1>1, <2>2, <2>3, <2>5
  <2>10. DrawnUpTo(Stack', vmem', loc'.frames, <<loc'.row + 1, loc'.col + 1>>)
    BY <1>1, <1>2, <1>3 DEF FishInv
  <2> QED
    BY <1>1, <1>3, <2>1, <2>8, <2>9, <2>10, ToReads
<1>4. CASE pc \in Blinks \cup {"fish ends"}
  <2>1. PICK act \in 1 .. 4 : /\ IF pc = "fish ends" THEN act = 4 ELSE loc.act = act
                              /\ Both(loc.frames) /\ InStep(Stack, vmem, loc.frames, act)
    <3>1. CASE pc = "fish ends"
      <4>1. 4 \in 1 .. 4
        OBVIOUS
      <4> QED
        BY <3>1, <4>1 DEF FishInv
    <3>2. CASE pc \in Blinks
      <4>1. pc # "fish ends"
        BY <3>2 DEF Blinks
      <4> QED
        BY <3>2, <4>1 DEF FishInv
    <3> QED
      BY <1>4, <3>1, <3>2
  <2> QED
    BY <1>1, <1>2, <1>4, <2>1, ToBlinks
<1>5. CASE pc = "none"
  BY <1>1, <1>5, ToQuiet
<1>6. pc \notin {"start", "fish opens rtc", "fish opens first", "fish opens second"}
  BY <1>0, <1>1 DEF OpenInv0, Quiet
<1>7. pc \notin {"fish looks", "fish ends row"}
  BY <1>0, <1>1 DEF FishAlone
<1>8. pc \in {"none", "start"} \cup FishPcs
  BY DEF FishInv
<1> QED
  BY <1>3, <1>4, <1>5, <1>6, <1>7, <1>8 DEF FishPcs, Blinks

LEMMA FishSteps ==
    ASSUME FramesArePictures, ProgInv, BlinkInv, FishInv, cmd.program = "fish", Fish
    PROVE  BlinkInv' /\ FishInv'
<1>1. CASE FishBegins \/ FishOpensFirst \/ FishOpensSecond \/ FishCannotOpen
  BY <1>1, FishOpensBoth
<1>2. CASE FishLooks
  BY <1>2, FishStarts
<1>3. CASE FishReads
  BY <1>3, FishReadsOne
<1>4. CASE FishSkips
  BY <1>4, FishSkipsOne
<1>5. CASE FishTakes
  BY <1>5, FishTakesOne
<1>6. CASE FishPlaces
  BY <1>6, FishPlacesOne
<1>7. CASE FishEndsRow
  BY <1>7, FishEndsRowOne
<1>8. CASE FishCloses
  BY <1>8, FishClosesOne
<1>9. CASE FishGoesOn
  BY <1>9, FishGoesOnOne
<1>10. CASE FishNextRow
  BY <1>10, FishNextRowOne
<1>11. CASE FishSetsRate
  BY <1>11, FishSetsRateOne
<1>12. CASE FishWaits \/ FishClosesRtc \/ FishTicks \/ FishEnds
  BY <1>12, FishWaitsOne
<1>13. CASE FishActs
  BY <1>13, FishActsOne
<1> QED
  BY <1>1, <1>2, <1>3, <1>4, <1>5, <1>6, <1>7, <1>8, <1>9, <1>10, <1>11, <1>12, <1>13 DEF Fish

LEMMA FishNextInv ==
    ASSUME FramesArePictures, ProgInv, BlinkInv, FishAlone, FishInv, [ProgramsNext]_programVars
    PROVE  BlinkInv' /\ FishInv'
<1>1. CASE UNCHANGED programVars
  BY <1>1, BlinkStays, FishStays DEF programVars, fdVars
<1>2. CASE Fish
  <2>1. cmd.program = "fish"
    BY <1>2
       DEF Fish, FishBegins, FishOpensFirst, FishOpensSecond, FishLooks, FishReads, FishSkips,
           FishTakes, FishPlaces, FishEndsRow, FishCloses, FishGoesOn, FishNextRow, FishSetsRate,
           FishWaits, FishTicks, FishActs, FishClosesRtc, FishEnds, FishCannotOpen, Got, Starts,
           FishAlone, FishPcs
  <2> QED
    BY <1>2, <2>1, FishSteps
<1>3. CASE ~Fish /\ ProgramsNext
  <2>1. UNCHANGED blinkVars
    BY <1>3 DEF ProgramsNext, ProgramSteps
  <2>2. BlinkInv'
    BY <2>1, BlinkStays
  <2>3. CASE ShellSteps
    <3>1. CASE Boot \/ ShellRestarts
      <4>1. pc = "none" /\ pc' = pc
        BY <3>1 DEF Boot, ShellRestarts, ProgInv, ShellInv, shellVars
      <4> QED
        BY <2>2, <4>1, ToQuiet
    <3>2. ASSUME NEW c \in session, UnknownCommand(c) \/ Execute(c) PROVE FishInv'
      <4>1. pc' = "none" \/ pc' = "start"
        BY <3>2 DEF UnknownCommand, Execute, ProgInv, ShellInv
      <4> QED
        BY <4>1, ToQuiet
    <3>3. CASE KilledByCtrlC
      <4>1. pc' = "none"
        BY <3>3 DEF KilledByCtrlC, EndsWith
      <4> QED
        BY <2>2, <4>1, ToQuiet
    <3> QED
      BY <2>2, <2>3, <3>1, <3>2, <3>3 DEF ShellSteps
  <2>4. CASE KernelReads
    <3>1. UNCHANGED cmd
      BY <2>4 DEF KernelReads, shellVars
    <3> QED
      BY <2>2, <2>1, <2>4, <3>1, FishStays, FishKernel
  \* The others end, or leave fish where it is.
  <2>5. CASE pc' = "none" /\ ~ShellSteps /\ ~KernelReads
    BY <2>2, <2>5, ToQuiet
  <2>6. CASE pc' # "none" /\ ~ShellSteps /\ ~KernelReads
    <3>1. cmd' = cmd /\ cmd.program # "fish"
      <4>1. CASE Cat
        <5>1. CannotOpen \/ CatFails \/ CatEnds => pc' = "none"
          BY DEF CannotOpen, CatFails, CatEnds, Halt, EndsWith
        <5>2. CatOpens \/ CatReadsFirst \/ CatWrites \/ CatReads
          BY <2>6, <4>1, <5>1 DEF Cat
        <5> QED
          BY <5>2
             DEF CatOpens, CatReadsFirst, CatWrites, CatReads, Calls, Got, Starts, FishInv, FishPcs
      <4>2. CASE Grep
        <5>1. GrepFails \/ GrepEnds => pc' = "none"
          BY DEF GrepFails, GrepEnds, Halt, EndsWith
        <5> QED
          BY <2>6, <4>2, <5>1
             DEF Grep, GrepOpensDir, GrepReadsFirst, GrepSkips, GrepGoesOn, GrepReadsDir,
                 GrepOpens, GrepReadsFile, GrepReadsOn, GrepTakes, GrepMovesDown, GrepPrints,
                 GrepPasses, GrepCloses, Calls, NextLine, Got, Starts, FishInv, FishPcs
      <4>3. CASE Syserr
        <5>1. SyserrRefuses \/ SyserrEnds => pc' = "none"
          BY DEF SyserrRefuses, SyserrEnds, Halt, EndsWith
        <5>2. SyserrChooses \/ SyserrCalls \/ SyserrJudges
          BY <2>6, <4>3, <5>1 DEF Syserr
        <5> QED
          BY <5>2 DEF SyserrChooses, SyserrCalls, SyserrJudges, Calls, Starts, FishInv, FishPcs
      <4>4. CASE AnyOpens \/ AnyOpensDir \/ AnyCall \/ AnyHalts \/ AnyFaults \/ SigtestFaults
        <5>1. AnyHalts \/ AnyFaults \/ SigtestFaults => pc' = "none"
          BY DEF AnyHalts, AnyFaults, SigtestFaults, Halt, EndsWith
        <5> QED
          BY <2>6, <4>4, <5>1 DEF AnyOpens, AnyOpensDir, AnyCall, Calls, Starts, FishInv, FishPcs, shellVars
      <4> QED
        BY <1>3, <2>6, <4>1, <4>2, <4>3, <4>4 DEF ProgramsNext, ProgramSteps, OtherSteps, Syserr
    <3> QED
      BY <2>2, <3>1, FishStays
  <2> QED
    BY <2>2, <2>3, <2>4, <2>5, <2>6
<1> QED
  BY <1>1, <1>2, <1>3

----------------------------------------------------------------------------
(* What is placed *)

Shape(b) == [location |-> b.at, on_char |-> b.on, off_char |-> b.off]

\* The blinkers, from the oldest.
LEMMA PlacedIs ==
    ASSUME BlinkInv
    PROVE  /\ Len(Stack) \in Nat
           /\ Placed = [k \in 1 .. Len(Stack) |-> Shape(Stack[Len(Stack) + 1 - k])]
<1>1. PICK s : Listed(s)
  BY DEF BlinkInv
<1>2. /\ List = s /\ Stack = [k \in 1 .. Len(s) |-> BlinkerOf(blink_array[s[k]])]
      /\ Len(s) \in Nat
  BY <1>1, StackIs DEF Listed, Seen
<1>3. PICK n \in Nat : n = Len(s)
  BY <1>2
<1>4. Len(Stack) = n
  BY <1>2, <1>3
<1>5. \A k \in 1 .. n : n + 1 - k \in 1 .. n /\ n + 1 - k = (n - k) + 1
  OBVIOUS
<1>6. Len(Reverse(s)) = n /\ \A k \in 1 .. n : Reverse(s)[k] = s[n + 1 - k]
  <2>1. Reverse(s) = [k \in 1 .. n |-> s[(n - k) + 1]]
    BY <1>3 DEF Reverse
  <2>2. \A k \in 1 .. n : Reverse(s)[k] = s[n + 1 - k]
    BY <1>5, <2>1
  <2> QED
    BY <2>1, <2>2
<1>7. Placed = [k \in 1 .. n |-> [location |-> blink_array[Reverse(s)[k]].location,
                                  on_char |-> blink_array[Reverse(s)[k]].on_char,
                                  off_char |-> blink_array[Reverse(s)[k]].off_char]]
  BY <1>2, <1>6 DEF Placed
<1>8. ASSUME NEW k \in 1 .. n
      PROVE  Shape(Stack[n + 1 - k]) = [location |-> blink_array[Reverse(s)[k]].location,
                                        on_char |-> blink_array[Reverse(s)[k]].on_char,
                                        off_char |-> blink_array[Reverse(s)[k]].off_char]
  <2>1. Stack[n + 1 - k] = BlinkerOf(blink_array[s[n + 1 - k]])
    BY <1>2, <1>3, <1>5
  <2>2. Stack[n + 1 - k] = BlinkerOf(blink_array[Reverse(s)[k]])
    BY <1>6, <2>1
  <2> QED
    BY <2>2 DEF Shape, BlinkerOf
<1>9. Placed = [k \in 1 .. n |-> Shape(Stack[n + 1 - k])]
  BY <1>7, <1>8
<1> QED
  BY <1>4, <1>9

\* The oldest are what is woven first.
LEMMA OldestPlaced ==
    ASSUME FramesArePictures, NEW frames, Both(frames), BlinkInv, NEW n \in Nat,
           n <= Len(Woven(frames)), NEW left, NEW lit, OldestAre(Stack, frames, n, left, lit)
    PROVE  \A k \in 1 .. n : Placed[k] = Woven(frames)[k]
<1> DEFINE woven == Woven(frames)
<1>1. ASSUME NEW k \in 1 .. n PROVE Placed[k] = woven[k]
  <2>1. /\ n <= Len(Stack) /\ Len(Stack) \in Nat
        /\ Stack[Len(Stack) + 1 - k] =
            [at |-> woven[k].location, on |-> woven[k].on_char, off |-> woven[k].off_char,
             on_for |-> LENGTH, off_for |-> LENGTH, left |-> left, lit |-> lit]
    BY PlacedIs DEF OldestAre
  <2>2. k \in 1 .. Len(Stack)
    BY <2>1
  <2>3. Placed[k] = Shape(Stack[Len(Stack) + 1 - k])
    BY <2>2, PlacedIs
  <2>4. Placed[k] = [location |-> woven[k].location, on_char |-> woven[k].on_char,
                     off_char |-> woven[k].off_char]
    <3> HIDE DEF woven
    <3> QED
      BY <2>1, <2>3 DEF Shape
  <2>5. k \in 1 .. Cardinality(OnScreen(frames))
    <3>1. PICK c \in Nat : c = Cardinality(OnScreen(frames)) /\ n <= c
      BY OnScreenIs
    <3>2. k \in 1 .. c
      BY <3>1
    <3> QED
      BY <3>1, <3>2
  <2>6. PICK at, on, off : woven[k] = [location |-> at, on_char |-> on, off_char |-> off]
    BY <2>5 DEF Woven
  <2>7. woven[k] = [location |-> woven[k].location, on_char |-> woven[k].on_char,
                    off_char |-> woven[k].off_char]
    <3> HIDE DEF woven
    <3> QED
      BY <2>6
  <2> QED
    BY <2>4, <2>7
<1> QED
  BY <1>1

\* While the pictures are woven.
LEMMA PlacesPrefix ==
    ASSUME FramesArePictures, NEW frames, Both(frames), BlinkInv, NEW place,
           DrawnUpTo(Stack, vmem, frames, place)
    PROVE  IsPrefix(Placed, Woven(frames))
<1> DEFINE woven == Woven(frames)
           T == {woven[k] : k \in DOMAIN woven}
<1>1. PICK n : n = Len(Stack)
  OBVIOUS
<1>2. n \in Nat /\ n <= Len(woven) /\ OldestAre(Stack, frames, n, LENGTH, TRUE)
  BY <1>1, PlacedIs DEF DrawnUpTo
<1>3. \A k \in 1 .. n : Placed[k] = woven[k]
  BY <1>2, OldestPlaced
<1>4. DOMAIN Placed = 1 .. n /\ Len(Placed) = n
  BY <1>1, <1>2, PlacedIs
<1>5. DOMAIN woven = 1 .. Len(woven) /\ Len(woven) \in Nat
  BY OnScreenIs
<1>6. \A k \in 1 .. n : woven[k] \in T /\ Placed[k] \in T
  <2>1. \A k \in 1 .. n : k \in DOMAIN woven
    <3> HIDE DEF woven
    <3> QED
      BY <1>2, <1>5
  <2> QED
    BY <1>3, <2>1
<1> HIDE DEF woven, T
<1>7. 1 \in Int /\ n \in Int /\ n - 1 + 1 = n /\ \A k \in 1 .. n : 1 + k - 1 = k
  BY <1>2
<1>8. /\ SubSeq(Placed, 1, n) \in Seq(T) /\ SubSeq(woven, 1, n) \in Seq(T)
      /\ Len(SubSeq(Placed, 1, n)) = n /\ Len(SubSeq(woven, 1, n)) = n
  <2>1. /\ SubSeq(Placed, 1, n) \in Seq(T)
        /\ Len(SubSeq(Placed, 1, n)) = IF 1 <= n THEN n - 1 + 1 ELSE 0
    BY <1>6, <1>7, SubSeqProperties
  <2>2. /\ SubSeq(woven, 1, n) \in Seq(T)
        /\ Len(SubSeq(woven, 1, n)) = IF 1 <= n THEN n - 1 + 1 ELSE 0
    BY <1>6, <1>7, SubSeqProperties
  <2>3. (IF 1 <= n THEN n - 1 + 1 ELSE 0) = n
    BY <1>2
  <2> QED
    BY <2>1, <2>2, <2>3
<1>9. ASSUME NEW k \in 1 .. n PROVE SubSeq(Placed, 1, n)[k] = SubSeq(woven, 1, n)[k]
  <2>1. /\ \A i \in 1 .. n - 1 + 1 : SubSeq(Placed, 1, n)[i] = Placed[1 + i - 1]
        /\ \A i \in 1 .. n - 1 + 1 : SubSeq(woven, 1, n)[i] = woven[1 + i - 1]
    BY <1>6, <1>7, SubSeqProperties
  <2> QED
    BY <1>3, <1>7, <2>1
<1>10. SubSeq(Placed, 1, n) = SubSeq(woven, 1, n)
  BY <1>8, <1>9, SeqEqual
<1> QED
  BY <1>2, <1>4, <1>10 DEF IsPrefix, woven

\* And while they blink.
LEMMA PlacesAll ==
    ASSUME FramesArePictures, NEW frames, Both(frames), BlinkInv, NEW act \in 1 .. 4,
           InStep(Stack, vmem, frames, act)
    PROVE  /\ Placed = IF act \in {2, 3} THEN Append(Woven(frames), PlacedExtra) ELSE Woven(frames)
           /\ \E lit \in BOOLEAN : \A k \in DOMAIN Woven(frames) :
                    Single(Woven(frames), k) =>
                        vmem[Woven(frames)[k].location] =
                            IF lit THEN Woven(frames)[k].on_char ELSE Woven(frames)[k].off_char
<1> DEFINE woven == Woven(frames)
           T == {woven[k] : k \in DOMAIN woven} \cup {PlacedExtra}
<1>1. PICK n : n = Len(woven)
  OBVIOUS
<1>2. n \in Nat /\ DOMAIN woven = 1 .. n
  BY <1>1, OnScreenIs
<1>3. PICK left \in 0 .. LENGTH, lit \in BOOLEAN :
        OldestAre(Stack, frames, n, left, lit) /\ AreSeen(vmem, frames, n, lit)
  BY <1>1 DEF InStep
<1>4. \A k \in 1 .. n : Placed[k] = woven[k]
  <2>1. n <= Len(woven)
    <3> HIDE DEF woven
    <3> QED
      BY <1>1, <1>2
  <2> QED
    BY <1>2, <1>3, <2>1, OldestPlaced
<1>5. \A k \in DOMAIN woven : Single(woven, k) =>
            vmem[woven[k].location] = IF lit THEN woven[k].on_char ELSE woven[k].off_char
  BY <1>2, <1>3 DEF AreSeen
<1>6. woven \in Seq(T)
  <2>1. woven = [k \in 1 .. n |-> woven[k]]
    BY <1>2 DEF Woven
  <2>2. \A k \in 1 .. n : woven[k] \in T
    BY <1>2
  <2> HIDE DEF woven, T
  <2> QED
    BY <1>2, <2>1, <2>2
<1>7. CASE act \in {2, 3}
  <2>1. Len(Stack) = n + 1 /\ IsExtra(Stack[1])
    BY <1>1, <1>7 DEF InStep
  <2>2. Placed = [k \in 1 .. n + 1 |-> Shape(Stack[n + 1 + 1 - k])]
    BY <2>1, PlacedIs
  <2>3. n + 1 \in 1 .. n + 1 /\ n + 1 + 1 - (n + 1) = 1 /\ \A k \in 1 .. n + 1 : k \in 1 .. n \/ k = n + 1
    BY <1>2
  <2>4. Placed[n + 1] = PlacedExtra
    <3>1. Placed[n + 1] = Shape(Stack[1])
      BY <2>2, <2>3
    <3> QED
      BY <2>1, <3>1 DEF Shape, IsExtra, PlacedExtra
  <2>5. Placed \in Seq(T) /\ Len(Placed) = n + 1
    <3>1. \A k \in 1 .. n + 1 : Placed[k] \in T
      <4>1. \A k \in 1 .. n : woven[k] \in T
        BY <1>2
      <4>2. PlacedExtra \in T
        OBVIOUS
      <4> HIDE DEF T, woven
      <4> QED
        BY <1>4, <2>3, <2>4, <4>1, <4>2
    <3>2. Placed = [k \in 1 .. n + 1 |-> Placed[k]]
      BY <2>2
    <3>3. n + 1 \in Nat
      BY <1>2
    <3> HIDE DEF T, woven
    <3> QED
      BY <3>1, <3>2, <3>3
  <2>6. PlacedExtra \in T
    OBVIOUS
  <2> HIDE DEF woven, T
  <2>7. /\ Append(woven, PlacedExtra) \in Seq(T) /\ Len(Append(woven, PlacedExtra)) = n + 1
        /\ \A k \in 1 .. n : Append(woven, PlacedExtra)[k] = woven[k]
        /\ Append(woven, PlacedExtra)[n + 1] = PlacedExtra
    BY <1>1, <1>6, <2>6, AppendProperties
  <2>8. ASSUME NEW k \in 1 .. n + 1 PROVE Placed[k] = Append(woven, PlacedExtra)[k]
    BY <1>4, <2>3, <2>4, <2>7
  <2>9. Placed = Append(woven, PlacedExtra)
    BY <2>5, <2>7, <2>8, SeqEqual
  <2> QED
    BY <1>5, <1>7, <2>9 DEF woven
<1>8. CASE act \notin {2, 3}
  <2>1. Len(Stack) = n
    BY <1>1, <1>8 DEF InStep
  <2>2. Placed = [k \in 1 .. n |-> Shape(Stack[n + 1 - k])]
    BY <2>1, PlacedIs
  <2>3. Placed = [k \in 1 .. n |-> Placed[k]]
    BY <2>2
  <2>4. woven = [k \in 1 .. n |-> woven[k]]
    BY <1>2 DEF Woven
  <2> HIDE DEF woven
  <2>5. Placed = woven
    BY <1>4, <2>3, <2>4
  <2> QED
    BY <1>5, <1>8, <2>5 DEF woven
<1> QED
  BY <1>7, <1>8

\* fish makes a blinker of exactly the places on the screen where one of its two
\* pictures is not blank, line by line, though it reads the files a character at a
\* time, stops reading the one whose line has ended and closes one that has ended
\* again in every row; for pictures, a screen and a blink_array of any size.  What
\* is woven then blinks in step, one picture after the other, while the one more
\* comes and goes (fish.c, blink.S, fs.c).
THEOREM FishDrawsPictures ==
    ASSUME FramesArePictures
    PROVE  ProgramsSpec => []FishWeaves
<1> DEFINE Inv == ProgInv /\ BlinkInv /\ FishAlone /\ FishInv
<1>1. ProgramsInit => Inv
  <2>1. ProgramsInit => FishAlone /\ FishInv
    BY DEF ProgramsInit, ShellInit, NoCommand, FishAlone, FishInv, FishPcs, Weaves, Blinks
  <2> QED
    BY <2>1, ProgInitInv, BlinkInitInv DEF ProgramsInit
<1>2. Inv /\ [ProgramsNext]_programVars => Inv'
  BY ProgNextInv, FishAloneNext, FishNextInv
<1>3. Inv => FishWeaves
  <2> SUFFICES ASSUME BlinkInv, FishInv, cmd.program = "fish"
               PROVE  Draws(Pictures[loc.frames])
    BY DEF FishWeaves
  <2>0. Both(loc.frames) => Pictures[loc.frames] = Woven(loc.frames)
    BY DEF Both, Pictures
  <2>1. CASE pc \in Weaves
    <3>1. /\ Both(loc.frames)
          /\ \E place : DrawnUpTo(Stack, vmem, loc.frames, place)
      BY <2>1 DEF FishInv, Weaves
    <3>2. IsPrefix(Placed, Woven(loc.frames))
      BY <3>1, PlacesPrefix
    <3> QED
      BY <2>0, <2>1, <3>1, <3>2 DEF Draws, Weaves, Blinks
  <2>2. CASE pc \in Blinks
    <3>1. Both(loc.frames) /\ loc.act \in 1 .. 4 /\ InStep(Stack, vmem, loc.frames, loc.act)
      BY <2>2 DEF FishInv
    <3>2. pc \notin Weaves /\ pc # "fish ends"
      BY <2>2 DEF Weaves, Blinks
    <3>3. /\ Placed = IF loc.act \in {2, 3} THEN Append(Woven(loc.frames), PlacedExtra)
                     ELSE Woven(loc.frames)
          /\ \E lit \in BOOLEAN : \A k \in DOMAIN Woven(loc.frames) :
                Single(Woven(loc.frames), k) =>
                    vmem[Woven(loc.frames)[k].location] =
                        IF lit THEN Woven(loc.frames)[k].on_char
                        ELSE Woven(loc.frames)[k].off_char
      BY <3>1, PlacesAll
    <3> QED
      BY <2>0, <3>1, <3>2, <3>3 DEF Draws
  <2>3. CASE pc = "fish ends"
    <3>1. Both(loc.frames) /\ InStep(Stack, vmem, loc.frames, 4)
      BY <2>3 DEF FishInv
    <3>2. 4 \in 1 .. 4 /\ 4 \notin {2, 3}
      OBVIOUS
    <3>3. Placed = Woven(loc.frames)
      BY <3>1, <3>2, PlacesAll
    <3> QED
      BY <2>0, <2>3, <3>1, <3>3 DEF Draws, Weaves, Blinks
  <2>4. CASE pc \notin Weaves \cup Blinks \cup {"fish ends"}
    BY <2>4 DEF Draws
  <2> QED
    BY <2>1, <2>2, <2>3, <2>4
<1> QED
  BY <1>1, <1>2, <1>3, PTL DEF ProgramsSpec
=============================================================================
