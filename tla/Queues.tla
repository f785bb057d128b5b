------------------------------- MODULE Queues -------------------------------
(***************************************************************************)
(* eckit::Queue: emplace waits for room and pop for an element; after      *)
(* close() pop reports the end once the queue is empty; after interrupt()  *)
(* both throw (elements still queued may be popped first).                 *)
(***************************************************************************)
EXTENDS Naturals, Sequences

NewQueue == [elems |-> << >>, closed |-> FALSE, interrupted |-> FALSE]
CanEmplace(q, cap) == ~q.closed /\ ~q.interrupted /\ Len(q.elems) < cap
Emplace(q, e) == [q EXCEPT !.elems = Append(@, e)]
Popped(q) == [q EXCEPT !.elems = Tail(@)]
Shut(q) == [q EXCEPT !.closed = TRUE]
Interrupt(q) == [q EXCEPT !.closed = TRUE, !.interrupted = TRUE]
AtEnd(q) == q.closed /\ ~q.interrupted /\ q.elems = << >>
=============================================================================
