----------------------------- MODULE MCDelivery -----------------------------
(* Small logs for the Delivery module. *)
EXTENDS Delivery

CONSTANTS ta, tb

Whole(t, tx) == [tbl |-> t, tx |-> tx, pos |-> tx, kept |-> TRUE]
Piece(t, tx) == [tbl |-> t, tx |-> tx, pos |-> tx - 1, kept |-> TRUE]
Dropped(t, tx) == [Whole(t, tx) EXCEPT !.kept = FALSE]

\* Two tables, a transaction per batch; the first change an ordinary one, or a
\* delete that an append table does not keep.
TwoTables == {<<Whole(ta, 1), Whole(tb, 2), Whole(ta, 3)>>,
              <<Dropped(ta, 1), Whole(ta, 2), Whole(tb, 3)>>}

\* One table, its second transaction cut in two.
OneTable == {<<Whole(ta, 1), Piece(ta, 2), Whole(ta, 2)>>}

\* A short run of changes of one table.
Short == {<<Whole(ta, 1), Whole(ta, 2)>>}
=============================================================================
