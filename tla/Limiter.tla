------------------------------ MODULE Limiter -------------------------------
(***************************************************************************)
(* What an admission limit of the pool promises its callers: at most Limit *)
(* of them are inside, they are let in in the order in which they queued,  *)
(* nobody overtakes the queue, and a place that becomes free goes to the   *)
(* head of the queue in the same step.  A queued caller may give up.       *)
(***************************************************************************)
EXTENDS Naturals, Sequences, FiniteSets

CONSTANTS Clients, Limit
VARIABLES inside,   \* the callers that own a place
          line      \* the callers that queue for one

Room == Cardinality(inside) < Limit

Init == inside = {} /\ line = <<>>

\* Let in at once, only when nobody queues.
Enter(c) == /\ c \notin inside
            /\ Room
            /\ line = <<>>
            /\ inside' = inside \cup {c}
            /\ UNCHANGED line

Queue(c) == /\ c \notin inside
            /\ ~Room
            /\ line' = Append(line, c)
            /\ UNCHANGED inside

\* The place of c passes to the head of the queue, if there is one.
Exit(c) == /\ c \in inside
           /\ \/ /\ line = <<>>
                 /\ inside' = inside \ {c}
                 /\ UNCHANGED line
              \/ /\ line # <<>>
                 /\ inside' = (inside \ {c}) \cup {Head(line)}
                 /\ line' = Tail(line)

\* c leaves the queue and everybody else keeps their order.
GiveUp(c) == /\ \E i \in 1 .. Len(line) :
                  /\ line[i] = c
                  /\ line' = [j \in 1 .. Len(line) - 1 |->
                                IF j < i THEN line[j] ELSE line[j + 1]]
             /\ UNCHANGED inside

Next == \E c \in Clients : Enter(c) \/ Queue(c) \/ Exit(c) \/ GiveUp(c)

Spec == Init /\ [][Next]_<<inside, line>>

=============================================================================
