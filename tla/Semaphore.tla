----------------------------- MODULE Semaphore -----------------------------
(***************************************************************************)
(* The counting semaphore of tokio (tokio::sync::Semaphore), as pure       *)
(* operators on its value.  It is code outside the repository; the model   *)
(* is what pool.rs and transport/lifecycle.rs rely on:                     *)
(*                                                                         *)
(*   - try_acquire_owned takes a permit if one is available;               *)
(*   - the first poll of acquire_owned takes an available permit, and      *)
(*     otherwise appends the caller to a FIFO queue;                       *)
(*   - dropping a permit hands it to the head of the queue, and makes it   *)
(*     available only when nobody is queued;                               *)
(*   - a queued caller that is dropped leaves the queue.                   *)
(*                                                                         *)
(* A caller that was handed a permit but has not been polled yet owns it:  *)
(* available_permits() does not count it.                                  *)
(***************************************************************************)
EXTENDS Naturals, Sequences

\* Semaphores that tasks of T queue for.
SemaphoreOf(T) == [avail : Nat, queue : Seq(T)]

\* A fresh semaphore of n permits.
NewSemaphore(n) == [avail |-> n, queue |-> <<>>]

\* Take an available permit.
Take(s) == [avail |-> s.avail - 1, queue |-> s.queue]

\* Join the FIFO queue.
Enqueue(s, t) == [avail |-> s.avail, queue |-> Append(s.queue, t)]

\* The caller, if any, that the next dropped permit is handed to.
NextInLine(s) == IF s.queue = <<>> THEN {} ELSE {Head(s.queue)}

\* Drop a permit: hand it to the head of the queue or make it available.
Release(s) ==
    IF s.queue = <<>> THEN [avail |-> s.avail + 1, queue |-> s.queue]
                      ELSE [avail |-> s.avail, queue |-> Tail(s.queue)]

\* The callers that queue, and the fact that each of them does so once.
Queued(s) == {s.queue[i] : i \in 1 .. Len(s.queue)}
Distinct(s) == \A i, j \in 1 .. Len(s.queue) : s.queue[i] = s.queue[j] => i = j

\* A queue without its i-th element.
Without(q, i) == [j \in 1 .. Len(q) - 1 |-> IF j < i THEN q[j] ELSE q[j + 1]]

\* The caller queued at position i is dropped before it was served.
Leave(s, i) == [avail |-> s.avail, queue |-> Without(s.queue, i)]

=============================================================================
