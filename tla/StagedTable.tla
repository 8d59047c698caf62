---------------------------- MODULE StagedTable ----------------------------
(* What a staged commit promises of a table with several partition owners:   *)
(* the table changes by whole cycles, every owner's share at once, and what  *)
(* is recorded beside the rows (the position, the chunks still to copy, the  *)
(* completion of the snapshot) never says more than the rows do.             *)
(* StagedCycles implements it.                                               *)
EXTENDS Integers, Sequences, SequencesExt

CONSTANTS Owners,      \* the partition owners of the table
          Chunks       \* the chunks of the snapshot, a sequence

VARIABLES log,         \* the source's batches of the table, in order
          vis,         \* shares of batches in the table: <<batch, owner>>
          pos,         \* the position recorded with them
          copied,      \* shares of chunks in the table: <<chunk, owner>>
          prog,        \* the recorded chunks still to copy
          complete     \* the snapshot is recorded complete

vars == <<log, vis, pos, copied, prog, complete>>

(* One owner per row, so a batch is one share per owner with rows in it.     *)
Shares(i) == {i} \X log[i].own

(* Everything the source committed at or before position p is in the table.  *)
Through(p, shares) ==
    \A i \in DOMAIN log : log[i].tx <= p => Shares(i) \subseteq shares

(* The chunks the record todo leaves out are copied, for every owner.        *)
CopiedBut(todo, shares) ==
    (ToSet(Chunks) \ ToSet(todo)) \X Owners \subseteq shares

Init ==
    /\ vis = {} /\ pos = 0
    /\ copied = {} /\ prog = Chunks /\ complete = FALSE

(* One cycle of consecutive source batches.                                  *)
CommitLive ==
    /\ \E i, j \in DOMAIN log :
         /\ i <= j
         /\ vis' = vis \cup UNION {Shares(k) : k \in i..j}
    /\ pos' \in Nat /\ Through(pos', vis')
    /\ UNCHANGED <<log, copied, prog, complete>>

(* One snapshot window.                                                      *)
CommitChunk ==
    /\ \E c \in ToSet(Chunks) : copied' = copied \cup {c} \X Owners
    /\ IsSuffix(prog', Chunks) /\ CopiedBut(prog', copied')
    /\ UNCHANGED <<log, vis, pos, complete>>

CommitDone ==
    /\ CopiedBut(<<>>, copied)
    /\ complete' = TRUE
    /\ UNCHANGED <<log, vis, pos, copied, prog>>

Next == CommitLive \/ CommitChunk \/ CommitDone

Spec == Init /\ [][Next]_vars
=============================================================================
