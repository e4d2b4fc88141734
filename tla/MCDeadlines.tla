------------------------------ MODULE MCDeadlines ------------------------------
(* A schedule of three rows for TLC, of different lengths and deadlines, with *)
(* a fourth in the file that is not separated by commas.                      *)
EXTENDS Deadlines

RowOf(min, max, end, commas) ==
    [min |-> min, max |-> max, end |-> end, commas |-> commas]

ThreeRows ==
    << RowOf(1, 2, 2, TRUE), RowOf(3, 1, 9, FALSE),
       RowOf(2, 3, 3, TRUE), RowOf(1, 3, 6, TRUE) >>
===============================================================================
