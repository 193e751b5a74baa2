------------------------------- MODULE Filters -------------------------------
(***************************************************************************)
(* Array.prototype.filter: the elements of a sequence at some positions,   *)
(* in their order.                                                         *)
(***************************************************************************)
EXTENDS Integers, Sequences

\* Per n, what is left of the first n elements.
FilterUpTo(s, K) ==
    LET f[n \in 0..Len(s)] ==
            IF n = 0 THEN <<>> ELSE IF n \in K THEN Append(f[n - 1], s[n]) ELSE f[n - 1]
    IN  f

Filter(s, K) == FilterUpTo(s, K)[Len(s)]
=============================================================================
