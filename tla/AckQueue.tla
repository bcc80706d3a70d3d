------------------------------- MODULE AckQueue -------------------------------
(***************************************************************************)
(* The acknowledged action queue (acknowledged_queue.py): the rows the     *)
(* policy has inferred and the cursor of the rows consumed, shared by the  *)
(* inference thread, which appends, and the owner of the task, which       *)
(* consumes a row only when the robot's references have crossed it.        *)
(* Every method takes the queue's lock, so each is one operator on the     *)
(* queue's value.                                                          *)
(*                                                                         *)
(* A row is its identity <<chunk, index>>: the tensors and the provenance  *)
(* compared next to it are functions of the identity.  A chunk is named by *)
(* the number of rows inferred up to its last.  Real-time chunking         *)
(* (cfg.enabled) is off: a merge keeps what is unconsumed and appends.     *)
(***************************************************************************)
LOCAL INSTANCE Naturals
LOCAL INSTANCE Sequences

EmptyQueue == [rows |-> <<>>, cursor |-> 0, chunk |-> 0]

Remaining(q) == SubSeq(q.rows, q.cursor + 1, Len(q.rows))

\* the native merge drops the consumed rows and appends a new chunk of n rows
Merge(q, n) ==
    [rows |-> Remaining(q) \o [i \in 1..n |-> <<q.chunk + n, i - 1>>],
     cursor |-> 0, chunk |-> q.chunk + n]

\* (mutant: the cursor is kept)
Clear_keeps_cursor(q) == [q EXCEPT !.rows = <<>>]

Clear(q) == [q EXCEPT !.rows = <<>>, !.cursor = 0]

\* snapshot: the unconsumed rows
Snapshot(q) == Remaining(q)

\* _check_unchanged_prefix_locked: count rows of the snapshot from offset on
\* are still the front of the queue
UnchangedPrefix(q, snapshot, offset, count) ==
    /\ q.cursor + count <= Len(q.rows)
    /\ SubSeq(q.rows, q.cursor + 1, q.cursor + count) = SubSeq(snapshot, offset + 1, offset + count)

\* advance_unchanged_prefix, when UnchangedPrefix holds
Advance(q, count) == [q EXCEPT !.cursor = @ + count]
===============================================================================
