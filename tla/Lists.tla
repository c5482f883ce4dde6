------------------------------- MODULE Lists --------------------------------
(* The entries of a list that are of one kind, in the order of the list.   *)
EXTENDS Naturals, Sequences

\* SelectSeq with a set as the test, and its recursion in the open, so that
\* it can be reasoned about.
Pick(s, S) ==
  LET pick[i \in 0 .. Len(s)] ==
        IF i = 0 THEN <<>>
        ELSE IF s[i] \in S THEN Append(pick[i - 1], s[i]) ELSE pick[i - 1]
  IN  pick[Len(s)]

=============================================================================
