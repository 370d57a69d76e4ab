--------------------------- MODULE MCStreamWindow ---------------------------
(* Instances of StreamWindow for TLC: a file of three blocks, the last one *)
(* short, and every kind of Range header.                                   *)
EXTENDS StreamWindow

RangeOf(a, b) == [unit |-> "bytes", first |-> a, last |-> b]

\* The whole file, a range inside it, one that ends past the file, a suffix, a
\* start past the end, an end before the start, another unit.
SomeHeaders ==
    { [unit |-> "none", first |-> Absent, last |-> Absent],
      RangeOf(1, 3), RangeOf(4, 9), RangeOf(Absent, 1), RangeOf(6, Absent), RangeOf(3, 2),
      [unit |-> "other", first |-> 0, last |-> 1] }
=============================================================================
