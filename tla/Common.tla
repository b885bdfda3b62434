------------------------------- MODULE Common -------------------------------
(* The list helpers of src/utils/common.ts. *)
EXTENDS Integers, Sequences, SequencesExt

AddIfNotIncludes(list, x) == IF Contains(list, x) THEN list ELSE Append(list, x)

\* Mutant: the item itself stays.
RemoveIfIncludes_After(list, x) ==
  IF Contains(list, x) THEN SubSeq(list, 1, SelectInSeq(list, LAMBDA y : y = x))
                       ELSE list

\* arr.splice(index) drops the item and every item after it.
RemoveIfIncludes(list, x) ==
  IF Contains(list, x) THEN SubSeq(list, 1, SelectInSeq(list, LAMBDA y : y = x) - 1)
                       ELSE list

\* arr.filter(x => !items.includes(x)).
FilterOut(list, items) ==
  FoldLeft(LAMBDA kept, x : IF x \in items THEN kept ELSE Append(kept, x), << >>, list)
=============================================================================
