---------------------------- MODULE Selection -----------------------------
(***************************************************************************)
(* The elements of a sequence that belong to a set, in their order: what   *)
(* Iterator::filter leaves of a slice.  The recursion is a function, so    *)
(* that the proofs can expand it; SelectSeq is a primitive to them.        *)
(***************************************************************************)
EXTENDS Naturals, Sequences

(* For each length of a prefix of s, what is selected of that prefix. *)
SelectedUpTo(s, S) ==
    LET kept[i \in 0..Len(s)] ==
            IF i = 0 THEN <<>>
            ELSE IF s[i] \in S THEN Append(kept[i - 1], s[i])
            ELSE kept[i - 1]
    IN  kept

Select(s, S) == SelectedUpTo(s, S)[Len(s)]
=============================================================================
