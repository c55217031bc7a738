------------------------------ MODULE ToolCalls ------------------------------
(***************************************************************************)
(* executeToolCalls (packages/core/agent-loop/src/tool-calls.ts): run the  *)
(* tool calls of one assistant message, numbered in model order.  Calls    *)
(* run in groups: one exclusive call, or a pool of parallel ones.  Bodies  *)
(* overlap and settle in any order, results commit in model order, and an  *)
(* abort or a failure of the scheduler may come at any await.              *)
(*                                                                         *)
(*   next      executeToolCalls is about to form a group                   *)
(*   fill      head of fillPool's loop                                     *)
(*   prepare   awaiting the pre-execute phase of call started              *)
(*   commit    in commitReady, awaiting a finalize or about to leave       *)
(*   drain     in the drain loop, awaiting the race of the bodies          *)
(*   flush     a failure awaits the bodies that are still running          *)
(*   skip      an abort is recording the calls that never started          *)
(*   done, failed   executeToolCalls returned, or threw                    *)
(***************************************************************************)
EXTENDS Naturals, Sequences, FiniteSets

CONSTANTS
  N,          \* number of calls in the message
  MaxParallel \* config.maxParallelToolCalls

ASSUME BoundsAssumption == N \in Nat /\ MaxParallel \in Nat \ {0}

Call == 1 .. N
Mode == {"parallel", "exclusive"}

VARIABLES
  pc,
  registry,   \* the mode each call has by the tools registered now
  next,       \* calls consumed by earlier groups
  mode,       \* the group's mode
  started,    \* calls whose tool/call is logged
  committed,  \* calls whose result is committed
  slots,      \* settled dispatches awaiting their commit
  inFlight,   \* dispatched calls not yet taken out of the pool
  settled,    \* those of them whose body has settled
  signal,     \* the step's abort signal
  aborted,    \* the group has seen it
  failure,    \* schedulerFailure is set
  log,        \* tool/call and tool/result events, in log order
  ranAs       \* history: the mode of each call when it was started

pool == <<inFlight, settled, slots>>
vars == <<pc, registry, next, mode, started, committed, pool, signal, aborted,
          failure, log, ranAs>>

\* The calls of the present group: all that are left, or the first of them.
GroupEnd == IF mode = "parallel" THEN N ELSE next + 1

CallEvent(call)   == [type |-> "tool/call", call |-> call]
ResultEvent(call) == [type |-> "tool/result", call |-> call]

Init ==
  /\ registry \in [Call -> Mode]
  /\ pc = "next" /\ next = 0 /\ mode = "exclusive"
  /\ started = 0 /\ committed = 0
  /\ slots = {} /\ inFlight = {} /\ settled = {}
  /\ signal \in BOOLEAN /\ aborted = FALSE /\ failure = FALSE
  /\ log = <<>>
  /\ ranAs = [call \in Call |-> "none"]

-----------------------------------------------------------------------------
\* The next group's mode is that of its first call, read from the registry as
\* it stands after every earlier result committed.
NextGroup ==
  /\ pc = "next"
  /\ \/ /\ next = N /\ pc' = "done"
        /\ UNCHANGED <<mode, aborted>>
     \/ /\ next < N /\ pc' = "fill"
        /\ mode' = registry[next + 1]
        /\ aborted' = signal
  /\ UNCHANGED <<registry, next, started, committed, pool, signal, failure,
                 log, ranAs>>

\* Mutant of CanStart: filling the pool ignores the abort.
CanStart_deaf == started < GroupEnd /\ Cardinality(inFlight) < MaxParallel

CanStart ==
  /\ ~aborted
  /\ started < GroupEnd
  /\ Cardinality(inFlight) < MaxParallel

\* Mutant of StaysParallel: a pool takes its calls as they were classified at
\* its start.
StaysParallel_stale(call) == TRUE

\* A later call of a pool is classified again before it starts; an exclusive one
\* ends the filling and waits for its own group.
StaysParallel(call) ==
  started > next /\ mode = "parallel" => registry[call] = "parallel"

\* startCall, up to its pre-execute await.
StartCall ==
  LET call == started + 1
  IN  /\ pc = "fill" /\ CanStart /\ StaysParallel(call)
      /\ started' = call
      /\ log' = Append(log, CallEvent(call))
      /\ ranAs' = [ranAs EXCEPT ![call] = registry[call]]
      /\ pc' = "prepare"
      /\ UNCHANGED <<registry, next, mode, committed, pool, signal, aborted,
                     failure>>

PoolFilled ==
  /\ pc = "fill"
  /\ ~(CanStart /\ StaysParallel(started + 1))
  /\ pc' = "drain"
  /\ UNCHANGED <<registry, next, mode, started, committed, pool, signal,
                 aborted, failure, log, ranAs>>

\* The call is prepared: dispatch its body, or take the result it already has.
\* A body that failed meanwhile stops it.
Prepared ==
  /\ pc = "prepare"
  /\ IF failure
     THEN pc' = "flush" /\ UNCHANGED pool
     ELSE /\ pc' = "commit"
          /\ \/ inFlight' = inFlight \union {started} /\ UNCHANGED slots
             \/ slots' = slots \union {started} /\ UNCHANGED inFlight
          /\ UNCHANGED settled
  /\ UNCHANGED <<registry, next, mode, started, committed, signal, aborted,
                 failure, log, ranAs>>

\* prepare, finalize or finish throws.
Fails ==
  /\ \/ pc = "prepare"
     \/ pc = "commit" /\ committed + 1 \in slots
  /\ pc' = "flush" /\ failure' = TRUE
  /\ UNCHANGED <<registry, next, mode, started, committed, pool, signal,
                 aborted, log, ranAs>>

\* Mutant of Commit: results are committed in the order the bodies settle.
Commit_asSettled ==
  /\ pc = "commit" /\ slots # {}
  /\ \E call \in slots :
       log' = Append(log, ResultEvent(call)) /\ slots' = slots \ {call}
  /\ committed' = committed + 1
  /\ UNCHANGED <<pc, registry, next, mode, started, inFlight, settled, signal,
                 aborted, failure, ranAs>>

\* commitReady: the next call in model order has settled.
Commit ==
  LET call == committed + 1
  IN  /\ pc = "commit" /\ call \in slots
      /\ log' = Append(log, ResultEvent(call))
      /\ committed' = call
      /\ slots' = slots \ {call}
      /\ UNCHANGED <<pc, registry, next, mode, started, inFlight, settled,
                     signal, aborted, failure, ranAs>>

\* The result is logged, but accepting its context into the inbox throws.
StagingFails ==
  LET call == committed + 1
  IN  /\ pc = "commit" /\ call \in slots
      /\ log' = Append(log, ResultEvent(call))
      /\ pc' = "flush" /\ failure' = TRUE
      /\ UNCHANGED <<registry, next, mode, started, committed, pool, signal,
                     aborted, ranAs>>

\* commitReady is through; both of its callers then look at the failure and at
\* the signal, and fill the pool.
Committed ==
  /\ pc = "commit" /\ committed + 1 \notin slots
  /\ IF failure
     THEN pc' = "flush" /\ UNCHANGED aborted
     ELSE pc' = "fill" /\ aborted' = (aborted \/ signal)
  /\ UNCHANGED <<registry, next, mode, started, committed, pool, signal,
                 failure, log, ranAs>>

\* Mutant of Drain: the settled call is never deleted from the pool.
Drain_keepsCall ==
  /\ pc = "drain" /\ settled # {}
  /\ pc' = IF failure THEN "flush" ELSE "commit"
  /\ UNCHANGED <<registry, next, mode, started, committed, pool, signal,
                 aborted, failure, log, ranAs>>

\* The race of the bodies is won by one that settled.
Drain ==
  /\ pc = "drain"
  /\ \E call \in settled :
       /\ inFlight' = inFlight \ {call}
       /\ settled' = settled \ {call}
  /\ pc' = IF failure THEN "flush" ELSE "commit"
  /\ UNCHANGED <<registry, next, mode, started, committed, slots, signal,
                 aborted, failure, log, ranAs>>

\* The pool is empty: the group is consumed, or an abort skips all that is left.
Drained ==
  /\ pc = "drain" /\ inFlight = {}
  /\ pc' = IF aborted THEN "skip" ELSE "next"
  /\ next' = started
  /\ UNCHANGED <<registry, mode, started, committed, pool, signal, aborted,
                 failure, log, ranAs>>

\* Mutant of SkipCall: an abort returns without recording the unstarted calls.
SkipCall_none ==
  /\ pc = "skip" /\ pc' = "done"
  /\ UNCHANGED <<registry, next, mode, started, committed, pool, signal,
                 aborted, failure, log, ranAs>>

\* appendSkippedToolCall: a call and its synthetic result.
SkipCall ==
  LET call == started + 1
  IN  /\ pc = "skip"
      /\ IF started < N
         THEN /\ log' = log \o <<CallEvent(call), ResultEvent(call)>>
              /\ started' = call /\ committed' = call /\ next' = call
              /\ UNCHANGED pc
         ELSE pc' = "done" /\ UNCHANGED <<log, started, committed, next>>
      /\ UNCHANGED <<registry, mode, pool, signal, aborted, failure, ranAs>>

\* Mutant of Flush: the failure is thrown over running bodies.
Flush_atOnce ==
  /\ pc = "flush" /\ pc' = "failed"
  /\ UNCHANGED <<registry, next, mode, started, committed, pool, signal,
                 aborted, failure, log, ranAs>>

\* Nothing is fabricated for the calls a failure leaves without a result.
Flush ==
  /\ pc = "flush" /\ settled = inFlight
  /\ pc' = "failed"
  /\ UNCHANGED <<registry, next, mode, started, committed, pool, signal,
                 aborted, failure, log, ranAs>>

Scheduler ==
  \/ NextGroup \/ StartCall \/ PoolFilled \/ Prepared \/ Fails \/ Commit
  \/ StagingFails \/ Committed \/ Drain \/ Drained \/ SkipCall \/ Flush

Finished == pc \in {"done", "failed"}

\* A body settles while the scheduler awaits: with a result, or by rejecting,
\* which the scheduler treats as a failure of its own.
BodySettles(call) ==
  /\ pc \in {"prepare", "commit", "drain", "flush"}
  /\ call \in inFlight \ settled
  /\ settled' = settled \union {call}
  /\ \/ slots' = slots \union {call} /\ UNCHANGED failure
     \/ failure' = TRUE /\ UNCHANGED slots
  /\ UNCHANGED <<pc, registry, next, mode, started, committed, inFlight,
                 signal, aborted, log, ranAs>>

Abort ==
  /\ ~Finished /\ ~signal
  /\ signal' = TRUE
  /\ UNCHANGED <<pc, registry, next, mode, started, committed, pool, aborted,
                 failure, log, ranAs>>

\* Tools are registered and unregistered while the scheduler awaits: a call that
\* was parallel becomes exclusive, or the other way round.
Reclassify(call) ==
  /\ pc \in {"prepare", "commit", "drain"}
  /\ \E kind \in Mode : registry' = [registry EXCEPT ![call] = kind]
  /\ UNCHANGED <<pc, next, mode, started, committed, pool, signal, aborted,
                 failure, log, ranAs>>

Next ==
  \/ Scheduler \/ Abort
  \/ \E call \in Call : BodySettles(call) \/ Reclassify(call)

Spec == Init /\ [][Next]_vars

\* Every prepare, body and finalize settles.
Fairness ==
  /\ WF_vars(Scheduler)
  /\ \A call \in Call : WF_vars(BodySettles(call))

FairSpec == Spec /\ Fairness

-----------------------------------------------------------------------------
\* Counters, sets and the log stay in range: starts run ahead of commits and
\* neither passes the message (tool-calls.ts runGroup's locals).
TypeOK ==
  /\ pc \in {"next", "fill", "prepare", "commit", "drain", "flush", "skip",
             "done", "failed"}
  /\ next \in 0 .. N /\ started \in 0 .. N /\ committed \in 0 .. N
  /\ registry \in [Call -> Mode] /\ mode \in Mode
  /\ inFlight \subseteq Call /\ settled \subseteq inFlight /\ slots \subseteq Call
  /\ signal \in BOOLEAN /\ aborted \in BOOLEAN /\ failure \in BOOLEAN
  /\ log \in Seq({CallEvent(call) : call \in Call}
                 \union {ResultEvent(call) : call \in Call})
  /\ ranAs \in [Call -> Mode \union {"none"}]

\* Calls and results each enter the log in model order and at most once, a
\* result after its call, whatever order the bodies settle in (tool-calls.ts
\* commitReady, appendSkippedToolCall).
ModelOrder ==
  /\ \A i, j \in DOMAIN log :
       i < j /\ log[i].type = log[j].type => log[i].call < log[j].call
  /\ \A j \in DOMAIN log :
       log[j].type = "tool/result"
         => \E i \in 1 .. j - 1 : log[i] = CallEvent(log[j].call)

\* A return, aborted or not, leaves every call of the message with a call and a
\* result, so the transcript is valid for the provider (tool-calls.ts runGroup's
\* abort path and executeToolCalls' skipped tail).
EveryCallAnswered ==
  pc = "done" =>
    \A call \in Call :
      \E i, j \in DOMAIN log :
        log[i] = CallEvent(call) /\ log[j] = ResultEvent(call)

\* Bodies overlap only up to the configured limit and only parallel ones: a call
\* that the registry calls exclusive when it starts runs alone, after every
\* earlier result, though it was parallel when the pool was formed
\* (tool-calls.ts fillPool, executeToolCalls' barrier).
OverlapIsLimited ==
  /\ Cardinality(inFlight) <= MaxParallel
  /\ \A call \in inFlight \ settled :
       ranAs[call] = "exclusive" => inFlight = {call} /\ committed = call - 1

\* Once the group saw the abort, or the scheduler failed, no further body is
\* dispatched (tool-calls.ts throwSchedulerFailure, fillPool's condition).
StopsStarting == [][aborted \/ failure => inFlight' \subseteq inFlight]_vars

\* executeToolCalls neither returns nor throws over a running body (tool-calls.ts
\* drain loop, Promise.allSettled).
NothingLeftRunning == Finished => settled = inFlight

\* The batch comes to an end.
Terminates == <>Finished
=============================================================================
