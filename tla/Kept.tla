-------------------------------- MODULE Kept --------------------------------
(***************************************************************************)
(* What a filter keeps of a sequence: Vec::retain, or iter().filter().     *)
(***************************************************************************)
EXTENDS Naturals, Sequences

\* The entries of a table that are in a set, pushed one after another onto a
\* new one.  (A recursive function, so that it can be proved about.)
Keep(table, set) ==
    LET kept[i \in 0..Len(table)] ==
            IF i = 0 THEN <<>>
            ELSE IF table[i] \in set THEN Append(kept[i - 1], table[i])
                                     ELSE kept[i - 1]
    IN  kept[Len(table)]
=============================================================================
