--------------------------- MODULE ToolCalls_proofs ---------------------------
(***************************************************************************)
(* Proofs about one batch of tool calls, for every number of calls and     *)
(* every limit of the pool.  The log is followed by Transcript, which says *)
(* what a log with given numbers of calls and results holds; the rest of   *)
(* IInv accounts for each started call until its result is committed.      *)
(***************************************************************************)
EXTENDS ToolCalls, FiniteSetTheorems, TLAPS

-----------------------------------------------------------------------------
(* The log.                                                                *)

Event == {CallEvent(call) : call \in Call} \union {ResultEvent(call) : call \in Call}

Ordered(l) ==
  \A i, j \in DOMAIN l : i < j /\ l[i].type = l[j].type => l[i].call < l[j].call

Answers(l) ==
  \A j \in DOMAIN l :
    l[j].type = "tool/result" => \E i \in 1 .. j - 1 : l[i] = CallEvent(l[j].call)

Has(l, event) == \E i \in DOMAIN l : l[i] = event

\* l holds the calls 1 .. calls and the results 1 .. results and nothing else, in
\* model order and each result behind its call.
Transcript(l, calls, results) ==
  /\ l \in Seq(Event) /\ Ordered(l) /\ Answers(l)
  /\ \A i \in DOMAIN l : /\ l[i].type = "tool/call" => l[i].call <= calls
                         /\ l[i].type = "tool/result" => l[i].call <= results
  /\ \A call \in 1 .. calls : Has(l, CallEvent(call))
  /\ \A call \in 1 .. results : Has(l, ResultEvent(call))

-----------------------------------------------------------------------------
(* The inductive invariant.                                                *)

\* The log holds what was started and committed; a result whose context could
\* not be staged is logged and not counted.
LogAtPlace ==
  \/ Transcript(log, started, committed)
  \/ pc \in {"flush", "failed"} /\ committed < started
       /\ Transcript(log, started, committed + 1)

\* A group begins and ends with everything committed and an empty pool, and an
\* exclusive one has one call.  Its calls ran in its mode: the first gave the
\* group its mode, and the registry cannot change before that call is started.
GroupAtPlace ==
  /\ next <= committed /\ committed <= started
  /\ pc \in {"next", "skip", "done"} => next = started /\ inFlight = {} /\ slots = {}
  /\ started = next => inFlight = {} /\ slots = {}
  /\ mode = "exclusive" => started <= next + 1
  /\ \A call \in next + 1 .. started : ranAs[call] = mode
  /\ pc = "fill" /\ started = next => mode = registry[next + 1]
  /\ pc \in {"prepare", "commit"} => next < started
  /\ pc \in {"fill", "prepare", "commit", "drain"} => next < N
  /\ pc = "done" => next = N

\* Where each started call is until its result is committed.
CallsAccounted ==
  /\ inFlight \subseteq next + 1 .. started
  /\ slots \subseteq committed + 1 .. started
  /\ \A call \in inFlight \ settled : call > committed /\ call \notin slots
  /\ ~failure => \A call \in settled : call \in slots \/ call <= committed
  /\ pc \notin {"flush", "failed"} =>
       \A call \in committed + 1 .. started :
         call \in slots \union inFlight \/ (pc = "prepare" /\ call = started)
  /\ pc = "prepare" => started \notin slots \union inFlight /\ started > committed

\* What the scheduler knows at each place about aborts, failures and its pool.
SchedulerAtPlace ==
  /\ pc \in {"next", "fill", "skip", "done"} => ~failure
  /\ pc = "prepare" => ~aborted /\ Cardinality(inFlight) < MaxParallel
  /\ pc = "fill" => committed + 1 \notin slots
  /\ pc = "drain" => /\ committed + 1 \in slots => committed + 1 \in inFlight
                     /\ failure => inFlight # {}
  /\ pc = "failed" => settled = inFlight
  /\ Cardinality(inFlight) <= MaxParallel

IInv == TypeOK /\ LogAtPlace /\ GroupAtPlace /\ CallsAccounted /\ SchedulerAtPlace

-----------------------------------------------------------------------------
(* What an append does to a transcript.                                    *)

\* What the log's two kinds of events say.
LEMMA EventFields ==
  ASSUME NEW call
  PROVE  /\ CallEvent(call).type = "tool/call" /\ CallEvent(call).call = call
         /\ ResultEvent(call).type = "tool/result" /\ ResultEvent(call).call = call
BY DEF CallEvent, ResultEvent

\* Every event is of one of the kinds and about a call of the message.
LEMMA EventTypes ==
  ASSUME NEW event \in Event
  PROVE  event.type \in {"tool/call", "tool/result"} /\ event.call \in Call
BY DEF Event, CallEvent, ResultEvent

\* A log with an event appended, as a function of its places.
LEMMA Appended ==
  ASSUME NEW l \in Seq(Event), NEW event \in Event
  PROVE  LET m == Append(l, event)
         IN  /\ m \in Seq(Event) /\ Len(l) \in Nat
             /\ DOMAIN l = 1 .. Len(l) /\ DOMAIN m = 1 .. Len(l) + 1
             /\ \A i \in 1 .. Len(l) : m[i] = l[i]
             /\ m[Len(l) + 1] = event
OBVIOUS

\* What a log has it keeps, and it has what is appended.
LEMMA HasAppended ==
  ASSUME NEW l \in Seq(Event), NEW event \in Event
  PROVE  /\ \A other : Has(l, other) => Has(Append(l, event), other)
         /\ Has(Append(l, event), event)
BY Appended DEF Has

\* A skipped call enters the log with its result.
LEMMA TwoAppends ==
  ASSUME NEW l \in Seq(Event), NEW event \in Event, NEW other \in Event
  PROVE  /\ l \o <<event, other>> = Append(Append(l, event), other)
         /\ l \o <<event, other>> \in Seq(Event)
OBVIOUS

\* The next call in model order extends a transcript.
LEMMA CallExtends ==
  ASSUME NEW l, NEW calls \in Nat, NEW results \in Nat, Transcript(l, calls, results),
         calls + 1 \in Call
  PROVE  Transcript(Append(l, CallEvent(calls + 1)), calls + 1, results)
<1> DEFINE event == CallEvent(calls + 1)
           m == Append(l, event)
<1>1. l \in Seq(Event) /\ event \in Event
      /\ event.type = "tool/call" /\ event.call = calls + 1
  BY EventFields DEF Transcript, Event
<1> HIDE DEF event
<1>2. /\ m \in Seq(Event) /\ Len(l) \in Nat
      /\ DOMAIN l = 1 .. Len(l) /\ DOMAIN m = 1 .. Len(l) + 1
      /\ \A i \in 1 .. Len(l) : m[i] = l[i]
      /\ m[Len(l) + 1] = event
  BY <1>1, Appended
<1>3. \A i \in 1 .. Len(l) : /\ l[i].type \in {"tool/call", "tool/result"}
                             /\ l[i].call \in Nat
  <2> SUFFICES ASSUME NEW i \in 1 .. Len(l)
               PROVE  l[i].type \in {"tool/call", "tool/result"} /\ l[i].call \in Nat
    OBVIOUS
  <2>1. l[i] \in Event
    BY <1>1, <1>2
  <2> QED BY <2>1, EventTypes, BoundsAssumption DEF Call
<1>4. \A i \in 1 .. Len(l) : /\ l[i].type = "tool/call" => l[i].call <= calls
                             /\ l[i].type = "tool/result" => l[i].call <= results
  BY <1>2 DEF Transcript
<1> HIDE DEF m
<1>5. Ordered(m)
  BY <1>1, <1>2, <1>3, <1>4 DEF Ordered, Transcript
<1>6. Answers(m)
  BY <1>1, <1>2 DEF Answers, Transcript
<1>7. \A i \in DOMAIN m : /\ m[i].type = "tool/call" => m[i].call <= calls + 1
                          /\ m[i].type = "tool/result" => m[i].call <= results
  BY <1>1, <1>2, <1>3, <1>4
<1>8. \A call \in 1 .. calls + 1 : Has(m, CallEvent(call))
  BY <1>1, HasAppended DEF Transcript, m, event
<1>9. \A call \in 1 .. results : Has(m, ResultEvent(call))
  BY <1>1, HasAppended DEF Transcript, m
<1> QED BY <1>2, <1>5, <1>6, <1>7, <1>8, <1>9 DEF Transcript, m, event

\* The next result in model order does, when its call is there.
LEMMA ResultExtends ==
  ASSUME NEW l, NEW calls \in Nat, NEW results \in Nat, Transcript(l, calls, results),
         results + 1 <= calls, results + 1 \in Call
  PROVE  Transcript(Append(l, ResultEvent(results + 1)), calls, results + 1)
<1> DEFINE event == ResultEvent(results + 1)
           m == Append(l, event)
<1>1. l \in Seq(Event) /\ event \in Event
      /\ event.type = "tool/result" /\ event.call = results + 1
  BY EventFields DEF Transcript, Event
<1>0. Has(l, CallEvent(results + 1))
  BY DEF Transcript
<1> HIDE DEF event
<1>2. /\ m \in Seq(Event) /\ Len(l) \in Nat
      /\ DOMAIN l = 1 .. Len(l) /\ DOMAIN m = 1 .. Len(l) + 1
      /\ \A i \in 1 .. Len(l) : m[i] = l[i]
      /\ m[Len(l) + 1] = event
  BY <1>1, Appended
<1>3. \A i \in 1 .. Len(l) : /\ l[i].type \in {"tool/call", "tool/result"}
                             /\ l[i].call \in Nat
  <2> SUFFICES ASSUME NEW i \in 1 .. Len(l)
               PROVE  l[i].type \in {"tool/call", "tool/result"} /\ l[i].call \in Nat
    OBVIOUS
  <2>1. l[i] \in Event
    BY <1>1, <1>2
  <2> QED BY <2>1, EventTypes, BoundsAssumption DEF Call
<1>4. \A i \in 1 .. Len(l) : /\ l[i].type = "tool/call" => l[i].call <= calls
                             /\ l[i].type = "tool/result" => l[i].call <= results
  BY <1>2 DEF Transcript
<1> HIDE DEF m
<1>5. Ordered(m)
  BY <1>1, <1>2, <1>3, <1>4 DEF Ordered, Transcript
<1>6. Answers(m)
  <2> SUFFICES ASSUME NEW j \in DOMAIN m, m[j].type = "tool/result"
               PROVE  \E i \in 1 .. j - 1 : m[i] = CallEvent(m[j].call)
    BY DEF Answers
  <2>1. CASE j = Len(l) + 1
    BY <1>0, <1>1, <1>2, <2>1 DEF Has
  <2>2. CASE j # Len(l) + 1
    <3>1. j \in 1 .. Len(l) /\ m[j] = l[j]
      BY <1>2, <2>2
    <3>2. PICK i \in 1 .. j - 1 : l[i] = CallEvent(l[j].call)
      BY <1>2, <3>1 DEF Transcript, Answers
    <3>3. m[i] = l[i]
      BY <1>2, <3>1
    <3> QED BY <3>1, <3>2, <3>3
  <2> QED BY <2>1, <2>2
<1>7. \A i \in DOMAIN m : /\ m[i].type = "tool/call" => m[i].call <= calls
                          /\ m[i].type = "tool/result" => m[i].call <= results + 1
  BY <1>1, <1>2, <1>3, <1>4
<1>8. \A call \in 1 .. calls : Has(m, CallEvent(call))
  BY <1>1, HasAppended DEF Transcript, m
<1>9. \A call \in 1 .. results + 1 : Has(m, ResultEvent(call))
  BY <1>1, HasAppended DEF Transcript, m, event
<1> QED BY <1>2, <1>5, <1>6, <1>7, <1>8, <1>9 DEF Transcript, m, event

-----------------------------------------------------------------------------
(* The invariant is inductive.                                             *)

\* The state executeToolCalls starts from is typed.
LEMMA TypeInit == Init => TypeOK
<1> SUFFICES ASSUME Init PROVE TypeOK
  OBVIOUS
<1>1. log \in Seq(Event)
  BY DEF Init
<1>2. ranAs \in [Call -> Mode \union {"none"}]
  BY DEF Init
<1>3. next \in 0 .. N /\ started \in 0 .. N /\ committed \in 0 .. N
  BY BoundsAssumption DEF Init
<1>4. registry \in [Call -> Mode] /\ mode \in Mode
  BY DEF Init, Mode
<1> QED BY <1>1, <1>2, <1>3, <1>4 DEF Init, TypeOK, Event

\* Every step keeps the types: a call is started only while the group has one
\* left (tool-calls.ts fillPool's condition).
LEMMA TypeStep == IInv /\ [Next]_vars => TypeOK'
<1> SUFFICES ASSUME IInv, [Next]_vars
             PROVE  TypeOK'
  OBVIOUS
<1>0. TypeOK
  BY DEF IInv
<1> USE BoundsAssumption
<1>1. CASE NextGroup
  <2>1. mode' \in Mode
    <3>1. next < N => registry[next + 1] \in Mode
      BY <1>0 DEF TypeOK, Call
    <3> QED BY <1>0, <1>1, <3>1 DEF NextGroup, TypeOK
  <2> QED BY <1>0, <1>1, <2>1 DEF NextGroup, TypeOK, pool
<1>2. CASE StartCall
  <2>1. started + 1 \in Call
    BY <1>0, <1>2 DEF StartCall, CanStart, GroupEnd, IInv, GroupAtPlace, TypeOK, Mode, Call
  <2>2. log' \in Seq(Event) /\ ranAs' \in [Call -> Mode \union {"none"}]
    BY <1>0, <1>2, <2>1, Appended DEF StartCall, TypeOK, Event
  <2> QED BY <1>0, <1>2, <2>1, <2>2 DEF StartCall, TypeOK, Event, Call, pool
<1>3. CASE PoolFilled
  BY <1>0, <1>3 DEF PoolFilled, TypeOK, pool
<1>4. CASE Prepared
  <2>1. started \in Call
    BY <1>0, <1>4 DEF Prepared, IInv, CallsAccounted, TypeOK, Call
  <2> QED BY <1>0, <1>4, <2>1 DEF Prepared, TypeOK, pool
<1>5. CASE Fails
  BY <1>0, <1>5 DEF Fails, TypeOK, pool
<1>6. CASE Commit
  <2>1. committed + 1 \in Call
    BY <1>0, <1>6 DEF Commit, TypeOK
  <2>2. log' \in Seq(Event)
    BY <1>0, <1>6, <2>1, Appended DEF Commit, TypeOK, Event
  <2> QED BY <1>0, <1>6, <2>1, <2>2 DEF Commit, TypeOK, Event, Call
<1>7. CASE StagingFails
  <2>1. committed + 1 \in Call
    BY <1>0, <1>7 DEF StagingFails, TypeOK
  <2>2. log' \in Seq(Event)
    BY <1>0, <1>7, <2>1, Appended DEF StagingFails, TypeOK, Event
  <2> QED BY <1>0, <1>7, <2>2 DEF StagingFails, TypeOK, Event, pool
<1>8. CASE Committed
  BY <1>0, <1>8 DEF Committed, TypeOK, pool
<1>9. CASE Drain
  BY <1>0, <1>9 DEF Drain, TypeOK
<1>10. CASE Drained
  BY <1>0, <1>10 DEF Drained, TypeOK, pool
<1>11. CASE SkipCall
  <2>1. CASE started < N
    <3>1. started + 1 \in Call
      BY <1>0, <2>1, BoundsAssumption DEF TypeOK, Call
    <3>2. log' \in Seq(Event)
      <4>1. log' = log \o <<CallEvent(started + 1), ResultEvent(started + 1)>>
        BY <1>11, <2>1 DEF SkipCall
      <4>2. /\ CallEvent(started + 1) \in Event /\ ResultEvent(started + 1) \in Event
            /\ log \in Seq(Event)
        BY <1>0, <3>1 DEF TypeOK, Event
      <4> QED BY <4>1, <4>2, TwoAppends
    <3>3. /\ started' \in 0 .. N /\ committed' \in 0 .. N /\ next' \in 0 .. N
          /\ UNCHANGED <<pc, registry, mode, pool, signal, aborted, failure, ranAs>>
      BY <1>0, <1>11, <2>1, <3>1 DEF SkipCall, Call
    <3> QED BY <1>0, <3>2, <3>3 DEF TypeOK, Event, pool
  <2>2. CASE ~(started < N)
    BY <1>0, <1>11, <2>2 DEF SkipCall, TypeOK, pool
  <2> QED BY <2>1, <2>2
<1>12. CASE Flush
  BY <1>0, <1>12 DEF Flush, TypeOK, pool
<1>13. CASE \E call \in Call : BodySettles(call)
  BY <1>0, <1>13 DEF BodySettles, TypeOK
<1>14. CASE Abort
  BY <1>0, <1>14 DEF Abort, TypeOK, pool
<1>15. CASE \E call \in Call : Reclassify(call)
  BY <1>0, <1>15 DEF Reclassify, TypeOK, pool
<1>16. CASE UNCHANGED vars
  BY <1>0, <1>16 DEF vars, pool, TypeOK
<1> QED BY <1>1, <1>2, <1>3, <1>4, <1>5, <1>6, <1>7, <1>8, <1>9, <1>10, <1>11, <1>12,
           <1>13, <1>14, <1>15, <1>16 DEF Next, Scheduler

\* A call enters the pool as one more, and leaves it as one less.
LEMMA PoolCounts ==
  ASSUME NEW S \in SUBSET Call, NEW call \in Call
  PROVE  /\ Cardinality(S) \in Nat
         /\ Cardinality(S \union {call}) <= Cardinality(S) + 1
         /\ Cardinality(S \ {call}) <= Cardinality(S)
<1>1. IsFiniteSet(Call)
  BY BoundsAssumption, FS_Interval DEF Call
<1>2. IsFiniteSet(S)
  BY <1>1, FS_Subset
<1>3. Cardinality(S) \in Nat
  BY <1>2, FS_CardinalityType
<1>4. Cardinality(S \union {call}) <= Cardinality(S) + 1
  BY <1>2, <1>3, FS_AddElement
<1>5. Cardinality(S \ {call}) <= Cardinality(S)
  BY <1>2, <1>3, FS_RemoveElement
<1> QED BY <1>3, <1>4, <1>5

\* Every step keeps the group's bounds: a drained group has committed all it
\* started, since the next result in order is neither pending nor in the pool.
LEMMA GroupStep == IInv /\ [Next]_vars => GroupAtPlace'
<1> SUFFICES ASSUME IInv, [Next]_vars
             PROVE  GroupAtPlace'
  OBVIOUS
<1> USE BoundsAssumption DEF IInv, GroupAtPlace
<1>1. CASE NextGroup
  BY <1>1 DEF NextGroup, TypeOK, pool, Mode, GroupEnd, CallsAccounted
<1>2. CASE StartCall
  <2>1. /\ started' = started + 1 /\ next' = next /\ committed' = committed
        /\ mode' = mode /\ pc' = "prepare"
        /\ ranAs' = [ranAs EXCEPT ![started + 1] = registry[started + 1]]
    BY <1>2 DEF StartCall
  <2>2. mode = "exclusive" => started <= next
    BY <1>2 DEF StartCall, CanStart, GroupEnd, TypeOK
  <2>3. \A call \in next + 1 .. started + 1 : ranAs'[call] = mode
    <3>1. \A call \in next + 1 .. started + 1 : call \in Call
      BY <1>2 DEF StartCall, CanStart, GroupEnd, TypeOK, Call
    <3>2. registry[started + 1] = mode
      <4>1. CASE started = next
        BY <1>2, <4>1 DEF StartCall
      <4>2. CASE started # next
        <5>1. mode = "parallel" /\ started > next
          BY <2>2, <4>2 DEF TypeOK, Mode
        <5> QED BY <1>2, <5>1 DEF StartCall, StaysParallel
      <4> QED BY <4>1, <4>2
    <3> QED BY <2>1, <3>1, <3>2 DEF TypeOK
  <2> QED BY <1>2, <2>1, <2>2, <2>3 DEF StartCall, TypeOK
<1>3. CASE PoolFilled
  BY <1>3 DEF PoolFilled, TypeOK, pool, Mode, GroupEnd, CallsAccounted
<1>4. CASE Prepared
  BY <1>4 DEF Prepared, TypeOK, pool, Mode, GroupEnd, CallsAccounted
<1>5. CASE Fails
  BY <1>5 DEF Fails, TypeOK, pool, Mode, GroupEnd, CallsAccounted
<1>6. CASE Commit
  BY <1>6 DEF Commit, TypeOK, pool, Mode, GroupEnd, CallsAccounted
<1>7. CASE StagingFails
  BY <1>7 DEF StagingFails, TypeOK, pool, Mode, GroupEnd, CallsAccounted
<1>8. CASE Committed
  BY <1>8 DEF Committed, TypeOK, pool, Mode, GroupEnd, CallsAccounted
<1>9. CASE Drain
  BY <1>9 DEF Drain, TypeOK, pool, Mode, GroupEnd, CallsAccounted
<1>10. CASE Drained
  <2>1. committed + 1 \notin slots
    BY <1>10 DEF Drained, SchedulerAtPlace
  <2>2. committed = started /\ slots = {}
    BY <1>10, <2>1 DEF Drained, CallsAccounted, TypeOK
  <2> QED BY <1>10, <2>2 DEF Drained, TypeOK, pool
<1>11. CASE SkipCall
  BY <1>11 DEF SkipCall, TypeOK, pool, Mode, GroupEnd, CallsAccounted
<1>12. CASE Flush
  BY <1>12 DEF Flush, TypeOK, pool, Mode, GroupEnd, CallsAccounted
<1>13. CASE \E call \in Call : BodySettles(call)
  BY <1>13 DEF BodySettles, TypeOK, Mode, GroupEnd, CallsAccounted
<1>14. CASE Abort
  BY <1>14 DEF Abort, TypeOK, pool, Mode, GroupEnd, CallsAccounted
<1>15. CASE \E call \in Call : Reclassify(call)
  BY <1>15 DEF Reclassify, TypeOK, pool
<1>16. CASE UNCHANGED vars
  BY <1>16 DEF vars, pool, Mode, GroupEnd, CallsAccounted
<1> QED BY <1>1, <1>2, <1>3, <1>4, <1>5, <1>6, <1>7, <1>8, <1>9, <1>10, <1>11, <1>12,
           <1>13, <1>14, <1>15, <1>16 DEF Next, Scheduler

\* Every step keeps account of the started calls: in preparation, in the pool, or
\* settled and waiting for the results before them (tool-calls.ts startCall,
\* commitReady).
LEMMA AccountStep == IInv /\ [Next]_vars => CallsAccounted'
<1> SUFFICES ASSUME IInv, [Next]_vars
             PROVE  CallsAccounted'
  OBVIOUS
<1> USE BoundsAssumption DEF IInv, CallsAccounted
<1>1. CASE NextGroup
  BY <1>1 DEF NextGroup, TypeOK, pool, Mode, GroupEnd, GroupAtPlace, SchedulerAtPlace
<1>2. CASE StartCall
  BY <1>2 DEF StartCall, CanStart, TypeOK, pool, Mode, GroupEnd, GroupAtPlace, SchedulerAtPlace
<1>3. CASE PoolFilled
  BY <1>3 DEF PoolFilled, TypeOK, pool, Mode, GroupEnd, GroupAtPlace, SchedulerAtPlace
<1>4. CASE Prepared
  <2>1. CASE failure
    BY <1>4, <2>1 DEF Prepared, TypeOK, pool
  <2>2. CASE ~failure /\ inFlight' = inFlight \union {started} /\ UNCHANGED slots
    <3>1. /\ UNCHANGED <<next, started, committed, failure, settled, slots>>
          /\ pc = "prepare" /\ pc' = "commit"
      BY <1>4, <2>2 DEF Prepared
    <3> QED BY <2>2, <3>1 DEF TypeOK, GroupAtPlace
  <2>3. CASE ~failure /\ slots' = slots \union {started} /\ UNCHANGED inFlight
    <3>1. /\ UNCHANGED <<next, started, committed, failure, settled, inFlight>>
          /\ pc = "prepare" /\ pc' = "commit"
      BY <1>4, <2>3 DEF Prepared
    <3> QED BY <2>3, <3>1 DEF TypeOK, GroupAtPlace
  <2> QED BY <1>4, <2>1, <2>2, <2>3 DEF Prepared
<1>5. CASE Fails
  BY <1>5 DEF Fails, TypeOK, pool, Mode, GroupEnd, GroupAtPlace, SchedulerAtPlace
<1>6. CASE Commit
  BY <1>6 DEF Commit, TypeOK, pool, Mode, GroupEnd, GroupAtPlace, SchedulerAtPlace
<1>7. CASE StagingFails
  BY <1>7 DEF StagingFails, TypeOK, pool, Mode, GroupEnd, GroupAtPlace, SchedulerAtPlace
<1>8. CASE Committed
  BY <1>8 DEF Committed, TypeOK, pool, Mode, GroupEnd, GroupAtPlace, SchedulerAtPlace
<1>9. CASE Drain
  BY <1>9 DEF Drain, TypeOK, pool, Mode, GroupEnd, GroupAtPlace, SchedulerAtPlace
<1>10. CASE Drained
  BY <1>10 DEF Drained, TypeOK, pool, Mode, GroupEnd, GroupAtPlace, SchedulerAtPlace
<1>11. CASE SkipCall
  BY <1>11 DEF SkipCall, TypeOK, pool, Mode, GroupEnd, GroupAtPlace, SchedulerAtPlace
<1>12. CASE Flush
  BY <1>12 DEF Flush, TypeOK, pool, Mode, GroupEnd, GroupAtPlace, SchedulerAtPlace
<1>13. CASE \E call \in Call : BodySettles(call)
  <2> PICK call \in Call : BodySettles(call)
    BY <1>13
  <2>1. CASE slots' = slots \union {call} /\ UNCHANGED failure
    BY <2>1 DEF BodySettles, TypeOK
  <2>2. CASE failure' = TRUE /\ UNCHANGED slots
    BY <2>2 DEF BodySettles, TypeOK
  <2> QED BY <2>1, <2>2 DEF BodySettles
<1>14. CASE Abort
  BY <1>14 DEF Abort, TypeOK, pool, Mode, GroupEnd, GroupAtPlace, SchedulerAtPlace
<1>15. CASE \E call \in Call : Reclassify(call)
  BY <1>15 DEF Reclassify, TypeOK, pool
<1>16. CASE UNCHANGED vars
  BY <1>16 DEF vars, pool, Mode, GroupEnd, GroupAtPlace, SchedulerAtPlace
<1> QED BY <1>1, <1>2, <1>3, <1>4, <1>5, <1>6, <1>7, <1>8, <1>9, <1>10, <1>11, <1>12,
           <1>13, <1>14, <1>15, <1>16 DEF Next, Scheduler

\* Every step keeps what the scheduler knows where it is: a failure leads to the
\* flush, the pool is filled below its limit (tool-calls.ts fillPool).
LEMMA SchedulerStep == IInv /\ [Next]_vars => SchedulerAtPlace'
<1> SUFFICES ASSUME IInv, [Next]_vars
             PROVE  SchedulerAtPlace'
  OBVIOUS
<1> USE BoundsAssumption DEF IInv, SchedulerAtPlace
<1>1. CASE NextGroup
  BY <1>1 DEF NextGroup, TypeOK, pool, Mode, GroupEnd, GroupAtPlace, CallsAccounted
<1>2. CASE StartCall
  BY <1>2 DEF StartCall, CanStart, TypeOK, pool, Mode, GroupEnd, GroupAtPlace, CallsAccounted
<1>3. CASE PoolFilled
  BY <1>3 DEF PoolFilled, TypeOK, pool, Mode, GroupEnd, GroupAtPlace, CallsAccounted
<1>4. CASE Prepared
  <2>1. CASE failure
    BY <1>4, <2>1 DEF Prepared, TypeOK, pool
  <2>2. CASE ~failure
    <3>1. started \in Call /\ Cardinality(inFlight) < MaxParallel
      BY <1>4 DEF Prepared, CallsAccounted, TypeOK, Call
    <3>2. Cardinality(inFlight) \in Nat
          /\ Cardinality(inFlight \union {started}) <= Cardinality(inFlight) + 1
      BY <3>1, PoolCounts DEF TypeOK
    <3>3. inFlight' = inFlight \union {started} \/ inFlight' = inFlight
      BY <1>4, <2>2 DEF Prepared
    <3>4. Cardinality(inFlight') <= MaxParallel
      <4>1. CASE inFlight' = inFlight \union {started}
        <5>1. Cardinality(inFlight') <= Cardinality(inFlight) + 1
          BY <3>2, <4>1
        <5>2. Cardinality(inFlight') \in Nat
          BY <3>1, <4>1, PoolCounts, inFlight \union {started} \in SUBSET Call DEF TypeOK
        <5> QED BY <3>1, <3>2, <5>1, <5>2
      <4>2. CASE inFlight' = inFlight
        BY <4>2
      <4> QED BY <3>3, <4>1, <4>2
    <3> QED BY <1>4, <2>2, <3>4 DEF Prepared, TypeOK
  <2> QED BY <2>1, <2>2
<1>5. CASE Fails
  BY <1>5 DEF Fails, TypeOK, pool, Mode, GroupEnd, GroupAtPlace, CallsAccounted
<1>6. CASE Commit
  BY <1>6 DEF Commit, TypeOK, pool, Mode, GroupEnd, GroupAtPlace, CallsAccounted
<1>7. CASE StagingFails
  BY <1>7 DEF StagingFails, TypeOK, pool, Mode, GroupEnd, GroupAtPlace, CallsAccounted
<1>8. CASE Committed
  BY <1>8 DEF Committed, TypeOK, pool, Mode, GroupEnd, GroupAtPlace, CallsAccounted
<1>9. CASE Drain
  <2>1. Cardinality(inFlight') <= MaxParallel
    BY <1>9, PoolCounts DEF Drain, TypeOK
  <2> QED BY <1>9, <2>1 DEF Drain, TypeOK
<1>10. CASE Drained
  BY <1>10 DEF Drained, TypeOK, pool, Mode, GroupEnd, GroupAtPlace, CallsAccounted
<1>11. CASE SkipCall
  BY <1>11 DEF SkipCall, TypeOK, pool, Mode, GroupEnd, GroupAtPlace, CallsAccounted
<1>12. CASE Flush
  BY <1>12 DEF Flush, TypeOK, pool, Mode, GroupEnd, GroupAtPlace, CallsAccounted
<1>13. CASE \E call \in Call : BodySettles(call)
  BY <1>13 DEF BodySettles, TypeOK, Mode, GroupEnd, GroupAtPlace, CallsAccounted
<1>14. CASE Abort
  BY <1>14 DEF Abort, TypeOK, pool, Mode, GroupEnd, GroupAtPlace, CallsAccounted
<1>15. CASE \E call \in Call : Reclassify(call)
  BY <1>15 DEF Reclassify, TypeOK, pool
<1>16. CASE UNCHANGED vars
  BY <1>16 DEF vars, pool, Mode, GroupEnd, GroupAtPlace, CallsAccounted
<1> QED BY <1>1, <1>2, <1>3, <1>4, <1>5, <1>6, <1>7, <1>8, <1>9, <1>10, <1>11, <1>12,
           <1>13, <1>14, <1>15, <1>16 DEF Next, Scheduler

\* Every step keeps the log a transcript of what was started and committed
\* (tool-calls.ts startCall, commitReady, appendSkippedToolCall).
LEMMA LogStep == IInv /\ [Next]_vars => LogAtPlace'
<1> SUFFICES ASSUME IInv, [Next]_vars
             PROVE  LogAtPlace'
  OBVIOUS
<1> USE BoundsAssumption DEF IInv
<1>0. started \in Nat /\ committed \in Nat
  BY DEF TypeOK
<1>a. ASSUME pc \notin {"flush", "failed"}
      PROVE  Transcript(log, started, committed)
  BY <1>a DEF LogAtPlace
<1>b. ASSUME UNCHANGED <<log, started, committed>>,
             pc \in {"flush", "failed"} => pc' \in {"flush", "failed"}
      PROVE  LogAtPlace'
  BY <1>b DEF LogAtPlace
<1>1. CASE NextGroup
  BY <1>1, <1>b DEF NextGroup
<1>2. CASE StartCall
  <2>1. started + 1 \in Call /\ Transcript(log, started, committed)
    BY <1>2, <1>a DEF StartCall, CanStart, GroupEnd, GroupAtPlace, TypeOK, Mode, Call
  <2>2. Transcript(Append(log, CallEvent(started + 1)), started + 1, committed)
    BY <1>0, <2>1, CallExtends
  <2> QED BY <1>2, <2>2 DEF StartCall, LogAtPlace
<1>3. CASE PoolFilled
  BY <1>3, <1>b DEF PoolFilled
<1>4. CASE Prepared
  BY <1>4, <1>b DEF Prepared
<1>5. CASE Fails
  BY <1>5, <1>b DEF Fails
<1>c. ASSUME pc = "commit", committed + 1 \in slots
      PROVE  /\ Transcript(Append(log, ResultEvent(committed + 1)), started, committed + 1)
             /\ committed < started
  <2>1. Transcript(log, started, committed)
    BY <1>a, <1>c
  <2>2. committed + 1 \in Call /\ committed + 1 <= started
    BY <1>c DEF TypeOK, CallsAccounted
  <2> QED BY <1>0, <2>1, <2>2, ResultExtends
<1>6. CASE Commit
  BY <1>6, <1>c DEF Commit, LogAtPlace
<1>7. CASE StagingFails
  BY <1>7, <1>c DEF StagingFails, LogAtPlace
<1>8. CASE Committed
  BY <1>8, <1>b DEF Committed
<1>9. CASE Drain
  BY <1>9, <1>b DEF Drain
<1>10. CASE Drained
  BY <1>10, <1>b DEF Drained
<1>11. CASE SkipCall
  <2>1. CASE started < N
    <3> DEFINE e == CallEvent(started + 1)
               f == ResultEvent(started + 1)
    <3>1. started + 1 \in Call
      BY <1>0, <2>1 DEF Call
    <3>2. Transcript(log, started, started)
      BY <1>11, <1>0, <1>a DEF SkipCall, GroupAtPlace
    <3>3. Transcript(Append(log, e), started + 1, started)
      BY <1>0, <3>1, <3>2, CallExtends
    <3>4. Transcript(Append(Append(log, e), f), started + 1, started + 1)
      BY <1>0, <3>1, <3>3, ResultExtends
    <3>5. log \o <<e, f>> = Append(Append(log, e), f)
      <4>1. log \in Seq(Event) /\ e \in Event /\ f \in Event
        BY <3>1 DEF TypeOK, Event
      <4> QED BY <4>1, TwoAppends
    <3> QED BY <1>11, <2>1, <3>4, <3>5 DEF SkipCall, LogAtPlace
  <2>2. CASE ~(started < N)
    BY <1>11, <2>2, <1>b DEF SkipCall
  <2> QED BY <2>1, <2>2
<1>12. CASE Flush
  BY <1>12, <1>b DEF Flush
<1>13. CASE \E call \in Call : BodySettles(call)
  BY <1>13, <1>b DEF BodySettles
<1>14. CASE Abort
  BY <1>14, <1>b DEF Abort
<1>15. CASE \E call \in Call : Reclassify(call)
  BY <1>15, <1>b DEF Reclassify
<1>16. CASE UNCHANGED vars
  BY <1>16, <1>b DEF vars
<1> QED BY <1>1, <1>2, <1>3, <1>4, <1>5, <1>6, <1>7, <1>8, <1>9, <1>10, <1>11, <1>12,
           <1>13, <1>14, <1>15, <1>16 DEF Next, Scheduler

\* The invariant holds before the first group.
LEMMA IInvInit == Init => IInv
<1> SUFFICES ASSUME Init PROVE IInv
  OBVIOUS
<1> USE BoundsAssumption
<1>1. Transcript(log, started, committed)
  <2>1. log \in Seq(Event) /\ DOMAIN log = {} /\ started = 0 /\ committed = 0
    BY DEF Init
  <2> QED BY <2>1 DEF Transcript, Ordered, Answers
<1>2. GroupAtPlace
  BY DEF Init, GroupAtPlace
<1>3. CallsAccounted
  BY DEF Init, CallsAccounted
<1>4. SchedulerAtPlace
  BY FS_EmptySet DEF Init, SchedulerAtPlace
<1> QED BY <1>1, <1>2, <1>3, <1>4, TypeInit DEF IInv, LogAtPlace

-----------------------------------------------------------------------------
(* The theorems.                                                           *)

\* The inductive invariant holds of every batch, however its bodies settle and
\* wherever an abort or a failure meets it (tool-calls.ts runGroup,
\* executeToolCalls).
THEOREM Invariant == Spec => []IInv
<1>1. IInv /\ [Next]_vars => IInv'
  BY TypeStep, LogStep, GroupStep, AccountStep, SchedulerStep DEF IInv
<1> QED BY IInvInit, <1>1, PTL DEF Spec

\* The scheduler's counters and sets stay in range, starts running ahead of
\* commits and neither passing the message (tool-calls.ts runGroup's locals).
THEOREM TypeCorrect == Spec => []TypeOK
<1>1. IInv => TypeOK
  BY DEF IInv
<1> QED BY Invariant, <1>1, PTL

\* Calls and results each enter the log in model order and at most once, each
\* result behind its call (tool-calls.ts commitReady, appendSkippedToolCall).
THEOREM LogsInModelOrder == Spec => []ModelOrder
<1>1. IInv => ModelOrder
  BY DEF IInv, LogAtPlace, Transcript, Ordered, Answers, ModelOrder
<1> QED BY Invariant, <1>1, PTL

\* A batch that returns, aborted or not, has logged a call and a result for every
\* call of the message (tool-calls.ts executeToolCalls' skipped tail).
THEOREM AnswersEveryCall == Spec => []EveryCallAnswered
<1>1. ASSUME IInv, pc = "done", NEW call \in Call
      PROVE  \E i, j \in DOMAIN log :
               log[i] = CallEvent(call) /\ log[j] = ResultEvent(call)
  <2>1. started = N /\ committed = N
    BY <1>1 DEF IInv, GroupAtPlace, TypeOK
  <2>2. Has(log, CallEvent(call)) /\ Has(log, ResultEvent(call))
    BY <1>1, <2>1 DEF IInv, LogAtPlace, Transcript, Call
  <2> QED BY <2>2 DEF Has
<1>2. IInv => EveryCallAnswered
  BY <1>1 DEF EveryCallAnswered
<1> QED BY Invariant, <1>2, PTL

\* Bodies overlap up to the configured limit and parallel ones only: an exclusive
\* body runs alone, behind every earlier result (tool-calls.ts fillPool and the
\* barrier of executeToolCalls).
THEOREM LimitsOverlap == Spec => []OverlapIsLimited
<1>1. ASSUME IInv, NEW call \in inFlight \ settled, ranAs[call] = "exclusive"
      PROVE  inFlight = {call} /\ committed = call - 1
  <2>1. call \in next + 1 .. started /\ inFlight \subseteq next + 1 .. started
        /\ call > committed /\ next <= committed
    BY <1>1 DEF IInv, CallsAccounted, GroupAtPlace
  <2>2. started <= next + 1
    BY <1>1, <2>1 DEF IInv, GroupAtPlace
  <2>3. next \in Nat /\ started \in Nat /\ committed \in Nat
    BY <1>1, BoundsAssumption DEF IInv, TypeOK
  <2>4. call = next + 1 /\ committed = next
    BY <2>1, <2>2, <2>3
  <2>5. next + 1 .. started \subseteq {call}
    BY <2>2, <2>3, <2>4
  <2>6. inFlight = {call}
    BY <1>1, <2>1, <2>5
  <2> QED BY <2>3, <2>4, <2>6
<1>2. IInv => OverlapIsLimited
  BY <1>1 DEF OverlapIsLimited, IInv, SchedulerAtPlace
<1> QED BY Invariant, <1>2, PTL

\* Neither a return nor a throw leaves a body running (tool-calls.ts drain loop,
\* throwSchedulerFailure).
THEOREM LeavesNothingRunning == Spec => []NothingLeftRunning
<1>1. IInv => NothingLeftRunning
  BY DEF IInv, TypeOK, GroupAtPlace, SchedulerAtPlace, NothingLeftRunning, Finished
<1> QED BY Invariant, <1>1, PTL

\* No body is dispatched once the group has seen the abort or a part of it has
\* failed: a call caught in its preparation is the one the invariant has to rule
\* out (tool-calls.ts fillPool's condition, throwSchedulerFailure).
THEOREM StartsNothingMore == Spec => StopsStarting
<1>1. ASSUME IInv, [Next]_vars, aborted \/ failure
      PROVE  inFlight' \subseteq inFlight
  <2>1. ~Prepared \/ failure
    BY <1>1 DEF Prepared, IInv, SchedulerAtPlace
  <2> QED BY <1>1, <2>1 DEF Next, Scheduler, NextGroup, StartCall, PoolFilled, Prepared,
        Fails, Commit, StagingFails, Committed, Drain, Drained, SkipCall, Flush,
        BodySettles, Abort, Reclassify, vars, pool
<1>2. IInv /\ [Next]_vars => [aborted \/ failure => inFlight' \subseteq inFlight]_vars
  BY <1>1
<1> QED BY Invariant, <1>2, PTL DEF Spec, StopsStarting
=============================================================================
