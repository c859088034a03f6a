----------------------------- MODULE Selection -----------------------------
(***************************************************************************)
(* The loop "for each element, if ..., put it behind the others" as a      *)
(* recursive function, about which the proofs can reason.                  *)
(***************************************************************************)
EXTENDS Integers, Sequences

\* The elements of s at the indices of I, in their order.
Selected(s, I) ==
  LET upTo[n \in 0 .. Len(s)] ==
        IF n = 0 THEN <<>>
        ELSE IF n \in I THEN Append(upTo[n - 1], s[n])
        ELSE upTo[n - 1]
  IN  upTo[Len(s)]

=============================================================================
