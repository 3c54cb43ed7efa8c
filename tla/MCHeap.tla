------------------------------- MODULE MCHeap -------------------------------
(* Instances of Heap for TLC.                                              *)
EXTENDS Heap

(* No columns (a page fills up without running over), one byte, a cell     *)
(* wider than its stride, and a wide cell before another one.              *)
SmallSchemas == {<<>>, <<1>>, <<2>>, <<2, 1>>}
=============================================================================
