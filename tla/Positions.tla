----------------------------- MODULE Positions -----------------------------
(***************************************************************************)
(* Filtering a sequence by positions: what SelectSeq does, as a recursive  *)
(* function.                                                               *)
(***************************************************************************)
EXTENDS Naturals, Sequences

\* s without the elements that are at none of the positions S.
Kept(s, S) ==
    LET upTo[i \in 0..Len(s)] == IF i = 0 THEN <<>>
                                 ELSE IF i \in S THEN Append(upTo[i - 1], s[i]) ELSE upTo[i - 1]
    IN  upTo[Len(s)]
=============================================================================
