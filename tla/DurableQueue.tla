----------------------------- MODULE DurableQueue -----------------------------
(***************************************************************************)
(* What a session's write path promises: events reach the store in order,  *)
(* each once, in any grouping and at any time, and a flush that succeeds   *)
(* covers every event that was accepted before it was called.  A flush may *)
(* fail.  Events are their numbers.                                        *)
(***************************************************************************)
EXTENDS Naturals, Sequences

CONSTANT Flusher  \* calls of flush

VARIABLES
  last,    \* the number of events accepted
  stored,  \* the stored events
  flush    \* what each call waits for and how the last one ended

queueVars == <<last, stored, flush>>

Prefix(n) == [i \in 1 .. n |-> i]

QueueInit ==
  /\ last \in {0, 1} /\ stored = <<>>
  /\ flush = [f \in Flusher |-> [at |-> "none", upto |-> 0]]

Accept == last' = last + 1 /\ UNCHANGED <<stored, flush>>

Persist ==
  /\ \E n \in Len(stored) + 1 .. last : stored' = Prefix(n)
  /\ UNCHANGED <<last, flush>>

Ask(f) ==
  /\ flush[f].at # "waiting"
  /\ flush' = [flush EXCEPT ![f] = [at |-> "waiting", upto |-> last]]
  /\ UNCHANGED <<last, stored>>

Waiting == {f \in Flusher : flush[f].at = "waiting"}

Ends(calls, outcome) ==
  /\ flush' = [f \in Flusher |-> IF f \in calls THEN [flush[f] EXCEPT !.at = outcome]
                                 ELSE flush[f]]
  /\ UNCHANGED <<last, stored>>

Resolve ==
  \E calls \in SUBSET Waiting :
    /\ \A f \in calls : flush[f].upto <= Len(stored)
    /\ Ends(calls, "resolved")

Reject == \E calls \in SUBSET Waiting : Ends(calls, "rejected")

QueueNext == Accept \/ Persist \/ Resolve \/ Reject \/ \E f \in Flusher : Ask(f)

QueueSpec == QueueInit /\ [][QueueNext]_queueVars
=============================================================================
