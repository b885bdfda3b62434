------------------------------- MODULE Paging -------------------------------
(***************************************************************************)
(* getPaginatedData of src/utils/common.ts: all rows with one value of a   *)
(* field, read page by page and ordered by that same field.  The order is  *)
(* therefore any, and another one in each query: beyond the first page a   *)
(* row may come again in the place of one that never comes.                *)
(***************************************************************************)
EXTENDS Integers, FiniteSets

CONSTANT PageSize       \* rows in a page

\* The rows ids are all that a query matches, but for a number of others.
CrowdedAmong(ids, others) == Cardinality(ids) + others > PageSize
FoundAmong(ids, others) ==
  IF CrowdedAmong(ids, others)
  THEN {found \in SUBSET ids : Cardinality(found) + others >= PageSize}
  ELSE {ids}

Crowded(ids) == CrowdedAmong(ids, 0)
getPaginatedData(ids) == FoundAmong(ids, 0)
=============================================================================
