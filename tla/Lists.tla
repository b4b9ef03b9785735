--------------------------------- MODULE Lists ---------------------------------
(***************************************************************************)
(* What the code does with the vectors of the standard library and several *)
(* modules have in common.                                                 *)
(***************************************************************************)
EXTENDS Sequences, SequencesExt

\* retain, and filter with collect: the items to keep, in their order.
Retain(list, keep) ==
    FoldLeft(LAMBDA kept, x : IF x \in keep THEN Append(kept, x) ELSE kept, <<>>, list)
=============================================================================
