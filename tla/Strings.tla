------------------------------- MODULE Strings -------------------------------
(***************************************************************************)
(* The functions of lib.c on strings that execute(), getargs() and the     *)
(* file system use.  A C string is a sequence of characters that ends in   *)
(* NUL; the name field of a directory entry is one of DENTRY_NAME_LEN      *)
(* characters with a NUL only if the name is shorter.                      *)
(***************************************************************************)
EXTENDS Integers, Sequences

CONSTANT NUL

Lesser(a, b) == IF a <= b THEN a ELSE b

\* Length of a string in a field of at most n characters.
strnlen(s, n) ==
    CHOOSE k \in 0 .. n : /\ \A j \in 1 .. k : s[j] # NUL
                          /\ k = n \/ s[k + 1] = NUL

strlen(s) == strnlen(s, Len(s))

\* strncmp(s1, s2, n) is 0.
SameChars(s1, s2, n) ==
    \A i \in 1 .. n :
        (\A j \in 1 .. i - 1 : s1[j] = s2[j] /\ s1[j] # NUL) => s1[i] = s2[i]

strncpy(src, n) == [i \in 1 .. n |-> IF i <= strnlen(src, Lesser(n, Len(src)))
                                     THEN src[i] ELSE NUL]
=============================================================================
