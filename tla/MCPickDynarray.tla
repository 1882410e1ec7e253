--------------------------- MODULE MCPickDynarray ---------------------------
(***************************************************************************)
(* Names and values for PickDynarray, one of each empty, two of the names  *)
(* and two of the values with marks in them.                               *)
(***************************************************************************)
EXTENDS PickDynarray

a == 97
b == 98

AllMarks(n) == [i \in 1..n |-> value_mark]

MCNames == {<<>>, <<a>>, <<b>>, <<a, b>>, <<b, value_mark, a>>,
            AllMarks(MaxSize - 2)}
MCValues == {<<>>, <<a>>, <<b, a>>, <<subvalue_mark>>, <<field_mark, a>>}
=============================================================================
