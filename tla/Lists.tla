--------------------------------- MODULE Lists ---------------------------------
(* Operations on lists that several parts of the program have in common.     *)
EXTENDS Naturals, Sequences

(* The members of a list that are to be kept: filter(), and a list           *)
(* comprehension with a condition.                                           *)
Filter(list, keep) ==
  LET upTo[i \in 0..Len(list)] ==
        IF i = 0 THEN <<>>
        ELSE IF keep[i] THEN Append(upTo[i - 1], list[i]) ELSE upTo[i - 1]
  IN  upTo[Len(list)]
=============================================================================
