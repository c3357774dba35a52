------------------------------- MODULE Lists -------------------------------
(* What several components do with their lists and queues.                   *)
EXTENDS Integers, Sequences, FiniteSetsExt

\* The sum of the weights of the elements of S.
SumOf(w, S) == MapThenSumSet(LAMBDA x : w[x], S)

\* The list is gone through, and all but the elements of gone are kept.
Without(list, gone) ==
    LET kept[i \in 0 .. Len(list)] ==
            IF i = 0 THEN <<>>
            ELSE IF list[i] \in gone THEN kept[i - 1] ELSE Append(kept[i - 1], list[i])
    IN kept[Len(list)]

=============================================================================
