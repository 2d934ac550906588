------------------------------- MODULE Filters -------------------------------
(***************************************************************************)
(* Loops over a list, as the models write what Go has no operator for.     *)
(* SelectSeq and FoldLeft do the same, but the proof system knows nothing  *)
(* of them.                                                                *)
(***************************************************************************)
EXTENDS Integers, Sequences

\* The elements of s that are in T, in the order of s.
Filter(s, T) ==
    LET kept[i \in 0..Len(s)] ==
            IF i = 0 THEN <<>>
            ELSE IF s[i] \in T THEN Append(kept[i - 1], s[i]) ELSE kept[i - 1]
    IN kept[Len(s)]

\* What "for each element e of s: state = step[state][e]" makes of start.
Iterate(step, start, s) ==
    LET after[i \in 0..Len(s)] ==
            IF i = 0 THEN start ELSE step[after[i - 1]][s[i]]
    IN after[Len(s)]

=============================================================================
