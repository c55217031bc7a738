------------------------------ MODULE WriteBehind ------------------------------
(***************************************************************************)
(* One live session's write controller                                     *)
(* (packages/session/session-persistence/src/write-behind.ts) and the      *)
(* coordinator's flush in front of it (coordinator.ts, flush,              *)
(* createWriteBehind, appendLiveBatch): events are batched behind a fixed  *)
(* deadline, a flush drains them, a failed batch is kept and retried.      *)
(*                                                                         *)
(* An event is its number.  An action is the code between two awaits; the  *)
(* reactions to a settled write are steps of their own, since other        *)
(* microtasks may enqueue or flush between them, while the timer, a task,  *)
(* fires only when they are done (Drained).                                *)
(***************************************************************************)
EXTENDS Naturals, Sequences, FiniteSets

CONSTANTS
  Flusher,      \* calls of flush that may be in flight
  MaxEvents,    \* bound: events
  MaxFailures   \* bound: writes that fail

ASSUME WriteBehindAssumption == MaxEvents \in Nat \ {0} /\ MaxFailures \in Nat

VARIABLES
  pending, timer, deadlineExpired, automaticPaused,  \* the controller's fields
  active,      \* "none", "writing", or settled as "written" or "failed"
  background,  \* the active write is detached
  batch,       \* the events it took
  continuing,  \* continueAutomatic() is queued
  barrier,     \* what drainBarrier() awaits, or what it is about to see
  ready,       \* the session's init: "pending", "ready" or "failed"
  seed,        \* the number of events the init stores
  stored,      \* the store's events
  last,        \* the number of events logged
  flushes,     \* the calls of the coordinator's flush
  failures     \* history

fields == <<pending, timer, deadlineExpired, automaticPaused>>
write  == <<active, background, batch>>
writeVars == <<fields, write, continuing, barrier, ready, seed, stored, last, flushes,
             failures>>

\* initFor() snapshots the log as the init's seed; if an event made it, that one
\* is enqueued as well.
WriteInit ==
  /\ last \in {0, 1} /\ seed = last
  /\ pending = [i \in 1 .. last |-> i] /\ timer = (last = 1)
  /\ deadlineExpired = FALSE /\ automaticPaused = FALSE
  /\ active = "none" /\ background = FALSE /\ batch = <<>>
  /\ continuing = FALSE /\ barrier = "none"
  /\ ready = "pending" /\ stored = <<>>
  /\ flushes = [f \in Flusher |-> [at |-> "none", upto |-> 0]]
  /\ failures = 0

\* Microtasks have run, but for a flush that waits for a pending init.
Drained ==
  /\ active \in {"none", "writing"} /\ ~continuing
  /\ barrier \in {"none", "overlap", "own"}
  /\ \A f \in Flusher : flushes[f].at = "init" => ready = "pending"

-----------------------------------------------------------------------------
(* The controller.                                                         *)

\* A barrier takes the event along; otherwise the first one of a queue, or the
\* first after a failure, starts the window.
enqueue ==
  /\ last < MaxEvents
  /\ last' = last + 1 /\ pending' = Append(pending, last')
  /\ LET arms == barrier = "none" /\ (automaticPaused \/ pending = <<>>)
     IN  /\ timer' = (timer \/ arms)
         /\ automaticPaused' = (automaticPaused /\ ~arms)
         /\ deadlineExpired' = (deadlineExpired /\ ~(arms /\ automaticPaused))
  /\ UNCHANGED <<write, continuing, barrier, ready, seed, stored, flushes, failures>>

\* startWrite takes everything pending.
startWrite(detached) ==
  /\ batch' = pending /\ pending' = <<>>
  /\ timer' = FALSE /\ deadlineExpired' = FALSE
  /\ active' = "writing" /\ background' = detached

onDeadline ==
  /\ timer /\ Drained
  /\ IF active = "none"
     THEN startWrite(TRUE) /\ UNCHANGED automaticPaused
     ELSE /\ timer' = FALSE /\ deadlineExpired' = TRUE
          /\ UNCHANGED <<pending, automaticPaused, write>>
  /\ UNCHANGED <<continuing, barrier, ready, seed, stored, last, flushes, failures>>

\* appendLiveBatch's filter: what the init has stored already is left out, the
\* k-th event that is kept having k kept ones up to itself.
Fresh(events, cursor) ==
  LET kept == {i \in DOMAIN events : events[i] > cursor}
  IN  [k \in 1 .. Cardinality(kept) |->
         events[CHOOSE i \in kept : Cardinality({j \in kept : j <= i}) = k]]

WriteSucceeds ==
  /\ active = "writing" /\ ready = "ready"
  /\ stored' = stored \o Fresh(batch, Len(stored))
  /\ active' = "written" /\ batch' = <<>>
  /\ UNCHANGED <<fields, background, continuing, barrier, ready, seed, last, flushes, failures>>

\* The store, or the init it waits for, fails: the batch goes back in front.
WriteFails ==
  /\ active = "writing"
  /\ \/ ready = "ready" /\ failures < MaxFailures /\ failures' = failures + 1
     \/ ready = "failed" /\ UNCHANGED failures
  /\ pending' = batch \o pending
  /\ timer' = FALSE /\ deadlineExpired' = FALSE /\ automaticPaused' = TRUE
  /\ active' = "failed" /\ batch' = <<>>
  /\ UNCHANGED <<background, continuing, barrier, ready, seed, stored, last, flushes>>

\* The write's finally, and who is resumed by it.
WriteEnds ==
  /\ active \in {"written", "failed"}
  /\ active' = "none" /\ background' = FALSE
  /\ continuing' = (continuing \/ (background /\ active = "written"))
  /\ barrier' = CASE barrier = "overlap" -> "overlapped"
                  [] barrier = "own"     -> active
                  [] OTHER               -> barrier
  /\ UNCHANGED <<fields, batch, ready, seed, stored, last, flushes, failures>>

\* Mutant of continueAutomatic: a deadline that passed during the write is lost.
continueAutomatic_forgets ==
  /\ continuing /\ continuing' = FALSE
  /\ UNCHANGED <<fields, write, barrier, ready, seed, stored, last, flushes, failures>>

continueAutomatic ==
  /\ continuing /\ continuing' = FALSE
  /\ IF barrier = "none" /\ pending # <<>> /\ deadlineExpired
     THEN startWrite(TRUE) /\ UNCHANGED automaticPaused
     ELSE UNCHANGED <<fields, write>>
  /\ UNCHANGED <<barrier, ready, seed, stored, last, flushes, failures>>

-----------------------------------------------------------------------------
(* Flushes.                                                                *)

\* The joined calls end, those among them that join just now included.
Ended(calls, outcome) ==
  [f \in Flusher |-> IF calls[f].at = "joined" THEN [calls[f] EXCEPT !.at = outcome]
                     ELSE calls[f]]

\* Mutant of Drains: one write is enough, whatever came while it was made.
Drains_once(calls) ==
  IF pending # <<>> /\ barrier # "written"
  THEN startWrite(FALSE) /\ barrier' = "own" /\ flushes' = calls
  ELSE /\ barrier' = "none" /\ flushes' = Ended(calls, "resolved")
       /\ timer' = FALSE /\ deadlineExpired' = FALSE /\ UNCHANGED <<pending, write>>

\* drainBarrier's loop: the joined calls are resolved by the step that finds the
\* queue empty.  No timer runs behind a barrier.
Drains(calls) ==
  IF pending # <<>>
  THEN startWrite(FALSE) /\ barrier' = "own" /\ flushes' = calls
  ELSE /\ barrier' = "none" /\ flushes' = Ended(calls, "resolved")
       /\ timer' = FALSE /\ deadlineExpired' = FALSE /\ UNCHANGED <<pending, write>>

\* The coordinator's flush: the wait is cancelled, and the init awaited.
CallFlush(f) ==
  /\ flushes[f].at \notin {"init", "joined"}
  /\ flushes' = [flushes EXCEPT ![f] = [at |-> "init", upto |-> last]]
  /\ timer' = FALSE /\ deadlineExpired' = FALSE
  /\ UNCHANGED <<pending, automaticPaused, write, continuing, barrier, ready, seed,
                 stored, last, failures>>

FlushRefused(f) ==
  /\ flushes[f].at = "init" /\ ready = "failed"
  /\ flushes' = [flushes EXCEPT ![f].at = "rejected"]
  /\ timer' = FALSE /\ deadlineExpired' = FALSE
  /\ UNCHANGED <<pending, automaticPaused, write, continuing, barrier, ready, seed,
                 stored, last, failures>>

\* The controller's flush joins the barrier or begins one, which drains at once
\* unless it has to wait for an active write.
FlushJoins(f) ==
  LET calls == [flushes EXCEPT ![f].at = "joined"] IN
  /\ flushes[f].at = "init" /\ ready = "ready"
  /\ IF barrier # "none"
     THEN flushes' = calls /\ UNCHANGED <<fields, write, barrier>>
     ELSE /\ automaticPaused' = FALSE
          /\ IF active # "none"
             THEN /\ barrier' = "overlap" /\ flushes' = calls
                  /\ timer' = FALSE /\ deadlineExpired' = FALSE
                  /\ UNCHANGED <<pending, write>>
             ELSE Drains(calls)
  /\ UNCHANGED <<continuing, ready, seed, stored, last, failures>>

\* drainBarrier resumes behind the active write it awaited, or behind its own.
BarrierResumes ==
  /\ \/ /\ barrier \in {"overlapped", "written"}
        /\ automaticPaused' = IF barrier = "overlapped" THEN FALSE ELSE automaticPaused
        /\ Drains(flushes)
     \/ /\ barrier = "failed"
        /\ barrier' = "none" /\ flushes' = Ended(flushes, "rejected")
        /\ UNCHANGED <<fields, write>>
  /\ UNCHANGED <<continuing, ready, seed, stored, last, failures>>

\* onCreated has stored the session's seed, or has failed.
InitSettles ==
  /\ ready = "pending"
  /\ \/ ready' = "ready" /\ stored' = [i \in 1 .. seed |-> i]
     \/ ready' = "failed" /\ UNCHANGED stored
  /\ UNCHANGED <<fields, write, continuing, barrier, seed, last, flushes, failures>>

-----------------------------------------------------------------------------
FlushResumes(f) == FlushRefused(f) \/ FlushJoins(f)

WriteNext ==
  \/ enqueue \/ onDeadline \/ WriteSucceeds \/ WriteFails \/ InitSettles
  \/ WriteEnds \/ continueAutomatic \/ BarrierResumes
  \/ \E f \in Flusher : CallFlush(f) \/ FlushResumes(f)

\* Microtasks and timers run, and the store answers.
WriteFairness ==
  /\ WF_writeVars(WriteEnds) /\ WF_writeVars(continueAutomatic)
  /\ WF_writeVars(BarrierResumes) /\ \A f \in Flusher : WF_writeVars(FlushResumes(f))
  /\ WF_writeVars(onDeadline) /\ WF_writeVars(InitSettles)
  /\ WF_writeVars(WriteSucceeds \/ WriteFails)

WriteSpec == WriteInit /\ [][WriteNext]_writeVars /\ WriteFairness

-----------------------------------------------------------------------------
(* Properties.                                                             *)

WriteTypeOK ==
  /\ last \in 0 .. MaxEvents /\ seed \in {0, 1} /\ failures \in 0 .. MaxFailures
  /\ pending \in Seq(1 .. MaxEvents) /\ batch \in Seq(1 .. MaxEvents)
  /\ stored \in Seq(1 .. MaxEvents)
  /\ timer \in BOOLEAN /\ deadlineExpired \in BOOLEAN /\ automaticPaused \in BOOLEAN
  /\ active \in {"none", "writing", "written", "failed"}
  /\ background \in BOOLEAN /\ continuing \in BOOLEAN
  /\ barrier \in {"none", "overlap", "own", "overlapped", "written", "failed"}
  /\ ready \in {"pending", "ready", "failed"}
  /\ flushes \in [Flusher -> [at : {"none", "init", "joined", "resolved", "rejected"},
                              upto : 0 .. MaxEvents]]

\* The write path keeps DurableQueue's promise through failures and overlapping
\* flushes: nothing is lost, doubled or out of order, and a flush that resolves
\* covers what was logged before its call (write-behind.ts:118-158 and
\* coordinator.ts:1324-1364).
Queue == INSTANCE DurableQueue WITH
  flush <- [f \in Flusher |->
    [at |-> IF flushes[f].at \in {"init", "joined"} THEN "waiting" ELSE flushes[f].at,
     upto |-> flushes[f].upto]]

KeepsTheQueue == Queue!QueueSpec

\* Nothing waits for ever: an event is written although nobody flushes, unless
\* a failure has paused the automatic path or the init has failed, and every
\* flush settles (onDeadline, continueAutomatic, enqueue against drainBarrier,
\* write-behind.ts:45-136).
WorkIsWritten ==
  /\ Len(stored) < last ~> Len(stored) = last \/ automaticPaused \/ ready = "failed"
  /\ \A f \in Flusher : flushes[f].at \in {"init", "joined"}
       ~> flushes[f].at \in {"resolved", "rejected"}
=============================================================================
