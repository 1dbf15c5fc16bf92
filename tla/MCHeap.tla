------------------------------- MODULE MCHeap -------------------------------
(***************************************************************************)
(* Five tables of five pages of ten units, a header being one unit.  The      *)
(* kernel is in table 3.  A program is well linked, or not: its segments may   *)
(* begin inside a page, share a page, or go past the end of a table.          *)
(***************************************************************************)
EXTENDS Heap

\* A page holds two blocks of four units; one unit can be taken from either, and
\* twice leaves room for a header only.  Twelve units take two pages.
MCSizes == {1, 4, 12}

MCImages ==
  { << <<60, 14>> >>,                \* in table 1: the user heap begins at 0
    << <<2, 8>>, <<10, 14>> >>,      \* in table 0, from its first page on
    << <<5, 10>> >>,                 \* begins inside a page
    << <<10, 14>>, <<24, 16>> >>,    \* two segments share a page
    << <<40, 20>> >> }               \* goes past the end of table 0

=============================================================================
