------------------------------ MODULE MCStaged ------------------------------
(* Small instances of StagedCycles: source histories for two owners.         *)
EXTENDS StagedCycles

Whole(own, tx) == [own |-> own, tx |-> tx, last |-> TRUE]
Piece(own, tx) == [own |-> own, tx |-> tx, last |-> FALSE]

NoLog == {<<>>}
(* A batch for both owners before and after one for a single owner.          *)
Live == {<<Whole({1, 2}, 2), Whole({1}, 3)>>, <<Whole({2}, 2), Whole({1, 2}, 3)>>}
(* A transaction cut in two, the owners of its halves differing.             *)
Cut == {<<Whole({1, 2}, 2), Piece({1}, 3), Whole({2}, 3)>>}
(* A transaction cut in three.                                               *)
CutTwice == {<<Whole({2}, 2), Piece({2}, 3), Piece({1}, 3), Whole({2}, 3)>>}
=============================================================================
