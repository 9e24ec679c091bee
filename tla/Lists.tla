------------------------------- MODULE Lists --------------------------------
(***************************************************************************)
(* What a walk over a list picks out of it, in the order of the list: the  *)
(* lists of the sibufs, of a function's statements and of a type's parts   *)
(* are gone through from the first to the last.                            *)
(***************************************************************************)
EXTENDS Integers, Sequences

IsList(s) == s \in Seq({s[i] : i \in DOMAIN s})

(* The numbers of S in 1..n, which a walk over n entries comes to.         *)
InOrder(n, S) ==
    LET Upto[i \in 0..n] ==
            IF i = 0 THEN <<>>
            ELSE LET s == Upto[i - 1] IN IF i \in S THEN Append(s, i) ELSE s
    IN Upto[n]

=============================================================================
