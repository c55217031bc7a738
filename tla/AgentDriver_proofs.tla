------------------------- MODULE AgentDriver_proofs --------------------------
(***************************************************************************)
(* Proofs about the driver, for every set of messages and every MaxStep.   *)
(*                                                                         *)
(* The properties of AgentDriver are not inductive: each holds because of  *)
(* where the driver is when a caller interferes.  The parts of IInv below  *)
(* say what is known at each place; they are preserved together, and each  *)
(* property follows from one or two of them.                               *)
(*                                                                         *)
(* That the driver loses no message and runs none twice, OneFate, is       *)
(* inductive once it is known where a claimed batch can be: a batch is     *)
(* under way only between its claim and the step it becomes, so the next   *)
(* claim overwrites none, and only an entering decision carries one.       *)
(***************************************************************************)
EXTENDS AgentDriver, SequenceTheorems, TLAPS

-----------------------------------------------------------------------------
(* The inductive invariant.                                                *)

\* The phase and the place agree on whether a driver runs; an idle phase is
\* clean, and a fulfilled activityDone means that nothing is active.
PhaseAtPlace ==
  /\ phase.kind = "running" <=> pc # "off"
  /\ IsIdle => ~IsAborted /\ ~phase.wake
  /\ done => IsIdle

\* Places inside a turn, and inside a step.
InStep == {"open", "model", "retry", "tools", "close"}
InTurn == InStep \union {"top", "preStep", "decided", "after", "stopping", "catch",
                         "turnEnd"}

\* The turn's outcome is thrown only between a throw and its catch, is decided
\* when turn/end is due, and never forgets an overrun.
EndsAtPlace ==
  /\ pc \in (InTurn \ {"close", "catch", "turnEnd"}) =>
       ends \in {"none", "completed", "max-tokens"}
  /\ pc = "close" => ends \in {"none", "completed", "max-tokens", "thrown"}
  /\ overrun => ends \notin {"none", "completed"}

\* The log's trace is where the phase and the place say.
TraceAtPlace ==
  /\ trace.pendingCalls = {}
  /\ trace.openTurn = IF pc \in InTurn THEN phase.turn ELSE Log!None
  /\ trace.nextTurn = IF pc \in InTurn THEN phase.turn ELSE phase.turn + 1
  /\ trace.openStep = IF pc \in InStep THEN phase.step ELSE Log!None
  /\ pc = "enter" => phase.step = 0
  /\ pc \in InTurn => phase.turn > 0
  /\ pc \in InStep => phase.step > 0 /\ trace.nextStep = phase.step
  /\ pc \in InTurn \ InStep => trace.nextStep = phase.step + 1

\* A latch belongs to an activity that cannot deliver the wake itself.
WakeAtPhase ==
  /\ phase.kind = "running" /\ ~IsAborted => ~phase.wake
  /\ phase.abort = "disposed" => ~phase.wake
  /\ delivering = "late" => ~IsIdle /\ IsAborted

\* A late wake that is still pending is latched, is about to be, or is about
\* to be replayed.
OwedIsLatched ==
  /\ Pending \subseteq sent /\ owed \subseteq sent
  /\ phase.abort = "disposed" => owed \intersect Pending = {}
  /\ owed \intersect Pending # {} =>
       \/ phase.wake
       \/ replaying /\ phase.kind # "running"
       \/ /\ phase.abort # "disposed"
          /\ \/ delivering = "late"
             \/ delivering = "live" /\ phase.kind = "maintenance"

\* While work is parked nothing is under way that would start on it: no latch,
\* no replay, no wake, and no turn but the aborted one.
ParkedIsSafe ==
  parked # {} =>
    /\ ~phase.wake
    /\ replaying => phase.kind = "running"
    /\ delivering # "no" => delivering = "live" /\ phase.kind = "running"
    /\ phase.kind = "running" =>
         /\ IsAborted
         /\ pc # "decided"
         /\ pc \in {"turnEnd", "ended"} => ends \in {"aborted", "error"}

IInv ==
  /\ TypeOK
  /\ PhaseAtPlace
  /\ EndsAtPlace
  /\ TraceAtPlace
  /\ WakeAtPhase
  /\ OwedIsLatched
  /\ ParkedIsSafe

-----------------------------------------------------------------------------
(* The pending lists.                                                      *)

\* What is pending after an insertion, a claim or a removal.
LEMMA IdsOfEmpty == Ids(<<>>) = {}
BY DEF Ids

LEMMA IdsOfAppend ==
  ASSUME NEW list \in Seq(Msg), NEW msg \in Msg
  PROVE  /\ Append(list, msg) \in Seq(Msg)
         /\ Ids(Append(list, msg)) = Ids(list) \union {msg}
<1>1. Append(list, msg) \in Seq(Msg)
  OBVIOUS
<1>2. /\ Len(Append(list, msg)) = Len(list) + 1
      /\ \A i \in 1 .. Len(list) : Append(list, msg)[i] = list[i]
      /\ Append(list, msg)[Len(list) + 1] = msg
  OBVIOUS
<1>3. /\ DOMAIN list = 1 .. Len(list) /\ Len(list) \in Nat
      /\ DOMAIN Append(list, msg) = 1 .. Len(list) + 1
  BY <1>1, <1>2
<1> QED BY <1>1, <1>2, <1>3 DEF Ids

LEMMA IdsAreMessages ==
  ASSUME NEW list \in Seq(Msg)
  PROVE  /\ Ids(list) \subseteq Msg
         /\ Ids(list) = {} <=> list = <<>>
<1>1. /\ DOMAIN list = 1 .. Len(list) /\ Len(list) \in Nat
      /\ \A i \in 1 .. Len(list) : list[i] \in Msg
  OBVIOUS
<1>2. list # <<>> => 1 \in DOMAIN list
  BY <1>1
<1> QED BY <1>1, <1>2 DEF Ids

LEMMA IdsOfTail ==
  ASSUME NEW list \in Seq(Msg), list # <<>>
  PROVE  /\ Tail(list) \in Seq(Msg)
         /\ Head(list) \in Ids(list)
         /\ Ids(Tail(list)) \subseteq Ids(list)
<1>1. /\ Tail(list) \in Seq(Msg) /\ Len(Tail(list)) = Len(list) - 1
      /\ \A i \in 1 .. Len(Tail(list)) : Tail(list)[i] = list[i + 1]
  BY HeadTailProperties
<1>2. /\ DOMAIN list = 1 .. Len(list) /\ Len(list) \in Nat \ {0}
      /\ DOMAIN Tail(list) = 1 .. Len(list) - 1
  BY <1>1
<1>3. Head(list) = list[1]
  OBVIOUS
<1> QED BY <1>1, <1>2, <1>3 DEF Ids

\* What is left of a list its element at i was taken out of.
LEMMA RemovedElements ==
  ASSUME NEW list \in Seq(Msg), NEW i \in DOMAIN list, NEW rest,
         rest = SubSeq(list, 1, i - 1) \o SubSeq(list, i + 1, Len(list))
  PROVE  /\ rest \in Seq(Msg) /\ Len(rest) = Len(list) - 1
         /\ \A j \in 1 .. Len(list) - 1 : /\ j < i => rest[j] = list[j]
                                          /\ j >= i => rest[j] = list[j + 1]
<1> DEFINE before == SubSeq(list, 1, i - 1)
           behind == SubSeq(list, i + 1, Len(list))
<1>1. /\ DOMAIN list = 1 .. Len(list) /\ Len(list) \in Nat
      /\ i \in 1 .. Len(list)
      /\ \A j \in 1 .. Len(list) : list[j] \in Msg
  OBVIOUS
<1>2. /\ before \in Seq(Msg) /\ Len(before) = i - 1
      /\ \A j \in 1 .. i - 1 : before[j] = list[j]
  <2>1. \A j \in 1 .. i - 1 : list[j] \in Msg
    BY <1>1
  <2> QED BY <1>1, <2>1, SubSeqProperties
<1>3. /\ behind \in Seq(Msg) /\ Len(behind) = Len(list) - i
      /\ \A j \in 1 .. Len(list) - i : behind[j] = list[j + i]
  <2>1. \A j \in i + 1 .. Len(list) : list[j] \in Msg
    BY <1>1
  <2>2. /\ behind \in Seq(Msg)
        /\ Len(behind) = IF i + 1 <= Len(list) THEN Len(list) - (i + 1) + 1 ELSE 0
        /\ \A j \in 1 .. Len(list) - (i + 1) + 1 : behind[j] = list[(i + 1) + j - 1]
    <3>1. i + 1 \in Int /\ Len(list) \in Int
      BY <1>1
    <3> QED BY <2>1, <3>1, SubSeqProperties
  <2> QED BY <1>1, <2>2
<1> HIDE DEF before, behind
<1>4. /\ rest \in Seq(Msg) /\ Len(rest) = Len(list) - 1
      /\ \A j \in 1 .. Len(list) - 1 :
           rest[j] = IF j <= i - 1 THEN before[j] ELSE behind[j - (i - 1)]
  <2>1. rest = before \o behind
    BY DEF before, behind
  <2>2. /\ rest \in Seq(Msg) /\ Len(rest) = Len(before) + Len(behind)
        /\ \A j \in 1 .. Len(before) + Len(behind) :
             rest[j] = IF j <= Len(before) THEN before[j]
                       ELSE behind[j - Len(before)]
    <3>1. before \in Seq(Msg) /\ behind \in Seq(Msg)
      BY <1>2, <1>3
    <3>2. /\ before \o behind \in Seq(Msg)
          /\ Len(before \o behind) = Len(before) + Len(behind)
          /\ \A j \in 1 .. Len(before) + Len(behind) :
               (before \o behind)[j] = IF j <= Len(before) THEN before[j]
                                       ELSE behind[j - Len(before)]
      BY <3>1
    <3> QED BY <2>1, <3>2, Zenon
  <2>3. Len(before) = i - 1 /\ Len(before) + Len(behind) = Len(list) - 1
    BY <1>1, <1>2, <1>3
  <2> QED BY <2>2, <2>3
<1>5. ASSUME NEW j \in 1 .. Len(list) - 1, j < i
      PROVE  rest[j] = list[j]
  <2>1. j <= i - 1 /\ j \in 1 .. i - 1
    BY <1>1, <1>5
  <2> QED BY <1>2, <1>4, <2>1
<1>6. ASSUME NEW j \in 1 .. Len(list) - 1, j >= i
      PROVE  rest[j] = list[j + 1]
  <2>1. j - (i - 1) \in 1 .. Len(list) - i
    BY <1>1, <1>6
  <2>2. rest[j] = behind[j - (i - 1)]
    <3>1. rest[j] = IF j <= i - 1 THEN before[j] ELSE behind[j - (i - 1)]
      BY <1>4, Zenon
    <3>2. ~(j <= i - 1)
      BY <1>1, <1>6
    <3> QED BY <3>1, <3>2, Zenon
  <2>3. behind[j - (i - 1)] = list[(j - (i - 1)) + i]
    BY <1>3, <2>1
  <2>4. (j - (i - 1)) + i = j + 1
    BY <1>1
  <2> QED BY <2>2, <2>3, <2>4
<1> QED BY <1>4, <1>5, <1>6

LEMMA IdsOfRemoved ==
  ASSUME NEW list \in Seq(Msg), NEW i \in DOMAIN list, NEW rest,
         rest = SubSeq(list, 1, i - 1) \o SubSeq(list, i + 1, Len(list))
  PROVE  /\ rest \in Seq(Msg)
         /\ Ids(rest) \subseteq Ids(list)
<1>1. /\ DOMAIN list = 1 .. Len(list) /\ Len(list) \in Nat
      /\ i \in 1 .. Len(list)
  OBVIOUS
<1>2. /\ rest \in Seq(Msg) /\ Len(rest) = Len(list) - 1
      /\ \A j \in 1 .. Len(list) - 1 : /\ j < i => rest[j] = list[j]
                                       /\ j >= i => rest[j] = list[j + 1]
  BY RemovedElements, Zenon
<1>3. ASSUME NEW j \in DOMAIN rest
      PROVE  rest[j] \in Ids(list)
  <2>1. j \in 1 .. Len(list) - 1
    BY <1>2
  <2>2. j \in 1 .. Len(list) /\ j + 1 \in 1 .. Len(list)
    BY <1>1, <2>1
  <2>3. rest[j] = list[j] \/ rest[j] = list[j + 1]
    <3>1. j < i \/ j >= i
      BY <1>1, <2>1
    <3> QED BY <1>2, <2>1, <3>1, Zenon
  <2> QED BY <1>1, <2>2, <2>3 DEF Ids
<1> QED BY <1>2, <1>3 DEF Ids

-----------------------------------------------------------------------------
(* Type correctness.                                                       *)

\* The phases the driver enters, and its updates of the present one.
LEMMA PhaseTypes ==
  ASSUME NEW n \in Nat
  PROVE  IdlePhase(n) \in Phase /\ RunningPhase(n) \in Phase
         /\ MaintenancePhase(n) \in Phase
BY DEF IdlePhase, RunningPhase, MaintenancePhase, Phase, Abort

LEMMA PhaseUpdates ==
  ASSUME NEW p \in Phase
  PROVE  /\ [p EXCEPT !.turn = @ + 1] \in Phase
         /\ [p EXCEPT !.step = @ + 1] \in Phase
         /\ \A wake \in BOOLEAN : [p EXCEPT !.wake = wake] \in Phase
         /\ \A abort \in Abort, wake \in BOOLEAN :
              [p EXCEPT !.abort = abort, !.wake = wake] \in Phase
<1>1. [p EXCEPT !.turn = @ + 1] \in Phase
  BY DEF Phase
<1>2. [p EXCEPT !.step = @ + 1] \in Phase
  BY DEF Phase
<1>3. ASSUME NEW wake \in BOOLEAN
      PROVE  [p EXCEPT !.wake = wake] \in Phase
  BY DEF Phase
<1>4. ASSUME NEW abort \in Abort, NEW wake \in BOOLEAN
      PROVE  [p EXCEPT !.abort = abort, !.wake = wake] \in Phase
  BY DEF Phase
<1> QED BY <1>1, <1>2, <1>3, <1>4

LEMMA PhaseFields ==
  ASSUME NEW p \in Phase
  PROVE  /\ p.kind \in {"idle", "maintenance", "running"} /\ p.abort \in Abort
         /\ p.turn \in Nat /\ p.step \in Nat /\ p.wake \in BOOLEAN
BY DEF Phase

\* What the driver's appends do to the trace.
LEMMA TraceTypes ==
  ASSUME NEW tr \in Log!Trace, NEW n \in Nat
  PROVE  /\ Log!OpenTurn(tr, n) \in Log!Trace
         /\ Log!CloseTurn(tr) \in Log!Trace
         /\ Log!OpenStep(tr, n) \in Log!Trace
         /\ Log!CloseStep(tr) \in Log!Trace
<1>1. {} \in SUBSET {}
  OBVIOUS
<1>3. Log!OpenTurn(tr, n) \in Log!Trace
  BY DEF Log!Trace, Log!OpenTurn
<1>4. Log!CloseTurn(tr) \in Log!Trace
  <2>1. [tr EXCEPT !.openTurn = 0] \in Log!Trace
    BY DEF Log!Trace
  <2>2. ASSUME NEW closed \in Log!Trace
        PROVE  [closed EXCEPT !.nextTurn = @ + 1] \in Log!Trace
    BY DEF Log!Trace
  <2> QED BY <2>1, <2>2 DEF Log!CloseTurn, Log!None
<1>5. Log!OpenStep(tr, n) \in Log!Trace
  BY DEF Log!Trace, Log!OpenStep
<1>6. Log!CloseStep(tr) \in Log!Trace
  <2>1. [tr EXCEPT !.openStep = 0] \in Log!Trace
    BY DEF Log!Trace
  <2>2. ASSUME NEW closed \in Log!Trace
        PROVE  [closed EXCEPT !.nextStep = @ + 1] \in Log!Trace
    BY DEF Log!Trace
  <2>3. ASSUME NEW closed \in Log!Trace
        PROVE  [closed EXCEPT !.pendingCalls = {}] \in Log!Trace
    BY <1>1 DEF Log!Trace
  <2> QED BY <2>1, <2>2, <2>3 DEF Log!CloseStep, Log!None
<1> QED BY <1>3, <1>4, <1>5, <1>6

LEMMA TypeInit == Init => TypeOK
<1>1. {} \in SUBSET {}
  OBVIOUS
<1>2. Log!FreshTrace \in Log!Trace
  BY <1>1 DEF Log!Trace, Log!FreshTrace, Log!None
<1>3. IdlePhase(0) \in Phase
  BY PhaseTypes
<1> QED
  BY <1>2, <1>3, EmptySeq DEF Init, TypeOK, Place, Ends, Target, Decision

\* Every action keeps every variable in its range.
LEMMA TypeStep == TypeOK /\ [Next]_vars => TypeOK'
<1> SUFFICES ASSUME TypeOK, [Next]_vars
             PROVE  TypeOK'
  OBVIOUS
<1> USE DEF TypeOK, Place, Ends, Target, driver, inbox, history, waiting, callers
<1>1. ASSUME NEW msg \in Msg, NEW to \in Target, NEW wakeup \in BOOLEAN,
             Send(msg, to, wakeup)
      PROVE  TypeOK'
  <2>1. nextTurn' \in Seq(Msg) /\ nextStep' \in Seq(Msg)
    BY <1>1, IdsOfAppend DEF Send
  <2> QED BY <1>1, <2>1 DEF Send
<1>2. ASSUME NEW cause \in Cause, NEW keepInbox \in BOOLEAN, Cancel(cause, keepInbox)
      PROVE  TypeOK'
  <2>1. nextTurn' \in Seq(Msg) /\ nextStep' \in Seq(Msg)
    BY <1>2, EmptySeq DEF Cancel
  <2>2. Pending \subseteq Msg
    BY IdsAreMessages DEF Pending
  <2>3. phase' \in Phase
    BY <1>2, PhaseUpdates, PhaseFields DEF Cancel, Abort
  <2> QED BY <1>2, <2>1, <2>2, <2>3 DEF Cancel
<1>3. ASSUME NEW list \in Seq(Msg), NEW rest, Remove(list, rest)
      PROVE  rest \in Seq(Msg) /\ discarded' \subseteq Msg
  <2>1. PICK i \in DOMAIN list :
          /\ rest = SubSeq(list, 1, i - 1) \o SubSeq(list, i + 1, Len(list))
          /\ discarded' = discarded \union {list[i]}
    BY <1>3 DEF Remove
  <2>2. list[i] \in Msg
    BY <2>1, ElementOfSeq
  <2> QED BY <2>1, <2>2, IdsOfRemoved
<1>4. CASE RemovePending
  BY <1>3, <1>4 DEF RemovePending
<1>5. ASSUME Start
      PROVE  phase' \in Phase /\ pc' \in Place /\ owed' \subseteq Msg
             /\ waiter' \in {"none", "current", "stale"} /\ done' \in BOOLEAN
             /\ teardown' \in BOOLEAN
  BY <1>5, PhaseTypes, PhaseFields DEF Start
<1>6. ASSUME NEW late \in BOOLEAN, Latch(late)
      PROVE  phase' \in Phase
  BY <1>6, PhaseUpdates, PhaseFields DEF Latch
<1>7. CASE TurnStart
  <2>1. Log!OpenTurn(trace, phase.turn + 1) \in Log!Trace
    <3>1. phase.turn + 1 \in Nat /\ trace \in Log!Trace
      BY PhaseFields
    <3> QED BY <3>1, TraceTypes, Zenon
  <2>2. phase' \in Phase
    BY <1>7, PhaseUpdates DEF TurnStart
  <2> QED BY <1>7, <2>1, <2>2 DEF TurnStart
<1>8. CASE Claim
  <2>1. /\ Ids(nextStep) \subseteq Msg
        /\ nextTurn # <<>> => Tail(nextTurn) \in Seq(Msg) /\ Head(nextTurn) \in Msg
    BY IdsAreMessages, IdsOfTail
  <2>2. nextTurn' \in Seq(Msg) /\ nextStep' \in Seq(Msg) /\ batch' \subseteq Msg
    BY <1>8, <2>1, EmptySeq DEF Claim
  <2> QED BY <1>8, <2>2 DEF Claim, Throw
<1>9. CASE PreStepReturn
  BY <1>9 DEF PreStepReturn, Throw, Decision
<1>10. CASE StepStart
  <2>1. Log!OpenStep(trace, phase.step + 1) \in Log!Trace
    <3>1. phase.step + 1 \in Nat /\ trace \in Log!Trace
      BY PhaseFields
    <3> QED BY <3>1, TraceTypes, Zenon
  <2>2. phase' \in Phase
    BY <1>10, PhaseUpdates DEF StepStart
  <2>3. CASE IsAborted
    BY <1>10, <2>3 DEF StepStart, Throw, IsAborted, Decision
  <2>4. CASE ~IsAborted
    BY <1>10, <2>1, <2>2, <2>4 DEF StepStart, IsAborted, Decision
  <2> QED BY <2>3, <2>4
<1>11. CASE Request
  BY <1>11 DEF Request
<1>12. CASE ModelReturns
  <2>1. CASE StepThrows
    BY <1>12, <2>1 DEF ModelReturns, StepThrows
  <2>2. CASE pc' \in {"retry", "tools"} /\ UNCHANGED <<ends, overrun>>
    BY <1>12, <2>2 DEF ModelReturns
  <2>3. ASSUME NEW outcome \in {"completed", "max-tokens"}, StepReturns(outcome)
        PROVE  TypeOK'
    BY <1>12, <2>3 DEF ModelReturns, StepReturns
  <2> QED BY <1>12, <2>1, <2>2, <2>3 DEF ModelReturns
<1>13. CASE RetryReturns
  BY <1>13 DEF RetryReturns, StepThrows
<1>14. CASE ToolsReturn
  BY <1>14 DEF ToolsReturn, StepThrows, StepReturns
<1>15. CASE StepEnd
  BY <1>15, TraceTypes DEF StepEnd
<1>16. CASE AfterStep
  BY <1>16 DEF AfterStep, Throw, NextStep
<1>17. CASE StoppingReturns
  BY <1>17 DEF StoppingReturns, Throw, NextStep
<1>18. CASE Catch
  BY <1>18 DEF Catch
<1>19. CASE TurnEnd
  BY <1>19, TraceTypes DEF TurnEnd
<1>20. CASE TurnReturns
  BY <1>20, PhaseTypes, PhaseFields DEF TurnReturns
<1>21. CASE KickExit
  BY <1>21, PhaseTypes, PhaseFields DEF KickExit
<1>22. CASE Replay
  <2>1. phase' \in Phase /\ pc' \in Place /\ owed' \subseteq Msg
    BY <1>22, <1>5, <1>6 DEF Replay, wakeDriver, Latch
  <2> QED BY <1>22, <2>1 DEF Replay, wakeDriver, Start, Latch
<1>23. CASE Settle
  BY <1>23 DEF Settle
<1>24. CASE Deliver
  <2>1. (delivering = "late") \in BOOLEAN
    OBVIOUS
  <2>2. phase' \in Phase
    BY <1>24, <1>5, <1>6, <2>1 DEF Deliver, wakeDriver
  <2> QED BY <1>24, <2>2 DEF Deliver, wakeDriver, Start, Latch
<1>25. CASE StartMaintenance
  BY <1>25, PhaseTypes, PhaseFields DEF StartMaintenance
<1>26. CASE EndMaintenance
  BY <1>26, <1>5, PhaseTypes, PhaseFields DEF EndMaintenance, Start
<1>27. CASE WhenIdle
  BY <1>27 DEF WhenIdle
<1>28. CASE WaiterResume
  BY <1>28 DEF WaiterResume
<1>29. CASE UNCHANGED vars
  BY <1>29 DEF vars
<1> QED
  BY <1>1, <1>2, <1>4, <1>7, <1>8, <1>9, <1>10, <1>11, <1>12, <1>13, <1>14,
     <1>15, <1>16, <1>17, <1>18, <1>19, <1>20, <1>21, <1>22, <1>23, <1>24,
     <1>25, <1>26, <1>27, <1>28, <1>29 DEF Next, Driver, Callers, followup,
     steer, inject

\* Every variable is in its range in every reachable state.
THEOREM TypeInvariant == Spec => []TypeOK
BY TypeInit, TypeStep, PTL DEF Spec

-----------------------------------------------------------------------------
(* The phase and the place.                                                *)

LEMMA PhaseInit == Init => PhaseAtPlace
BY DEF Init, PhaseAtPlace, IdlePhase, IsIdle, IsAborted

\* A driver runs exactly in the running phase, and its end leaves a clean one.
LEMMA PhaseStep == TypeOK /\ PhaseAtPlace /\ [Next]_vars => PhaseAtPlace'
<1> SUFFICES ASSUME TypeOK, PhaseAtPlace, [Next]_vars
             PROVE  PhaseAtPlace'
  OBVIOUS
<1> USE DEF PhaseAtPlace, IsIdle, IsAborted, Phase, Active, Resumed, driver, inbox, waiting,
            history, callers
<1>1. phase \in Phase
  BY DEF TypeOK
<1>2. CASE TurnStart
  BY <1>2, <1>1 DEF TurnStart
<1>3. CASE Claim
  BY <1>3, <1>1 DEF Claim, Throw
<1>4. CASE PreStepReturn
  BY <1>4, <1>1 DEF PreStepReturn, Throw
<1>5. CASE StepStart
  BY <1>5, <1>1 DEF StepStart, Throw
<1>6. CASE Request
  BY <1>6, <1>1 DEF Request
<1>7. CASE ModelReturns
  BY <1>7, <1>1 DEF ModelReturns, StepThrows, StepReturns
<1>8. CASE RetryReturns
  BY <1>8, <1>1 DEF RetryReturns, StepThrows
<1>9. CASE ToolsReturn
  BY <1>9, <1>1 DEF ToolsReturn, StepThrows, StepReturns
<1>10. CASE StepEnd
  BY <1>10, <1>1 DEF StepEnd
<1>11. CASE AfterStep
  BY <1>11, <1>1 DEF AfterStep, Throw, NextStep
<1>12. CASE StoppingReturns
  BY <1>12, <1>1 DEF StoppingReturns, Throw, NextStep
<1>13. CASE Catch
  BY <1>13, <1>1 DEF Catch
<1>14. CASE TurnEnd
  BY <1>14, <1>1 DEF TurnEnd
<1>15. CASE TurnReturns
  BY <1>15, <1>1 DEF TurnReturns, RunningPhase
<1>16. CASE KickExit
  BY <1>16, <1>1 DEF KickExit, IdlePhase
<1>17. CASE Replay
  BY <1>17, <1>1 DEF Replay, wakeDriver, Start, Latch, RunningPhase
<1>18. CASE Settle
  BY <1>18, <1>1 DEF Settle
<1>19. CASE Deliver
  BY <1>19, <1>1 DEF Deliver, wakeDriver, Start, Latch, RunningPhase
<1>20. ASSUME NEW cause \in Cause, NEW keepInbox \in BOOLEAN,
             Cancel(cause, keepInbox)
      PROVE  PhaseAtPlace'
  BY <1>20, <1>1 DEF Cancel
<1>21. CASE StartMaintenance
  BY <1>21, <1>1 DEF StartMaintenance, MaintenancePhase
<1>22. CASE EndMaintenance
  BY <1>22, <1>1 DEF EndMaintenance, Start, RunningPhase, IdlePhase
<1>23. CASE \/ (\E msg \in Msg, to \in Target, wakeup \in BOOLEAN : Send(msg, to, wakeup))
          \/ RemovePending
          \/ WhenIdle
          \/ WaiterResume
          \/ UNCHANGED vars
  BY <1>23, <1>1 DEF Send, RemovePending, WhenIdle, WaiterResume, vars
<1> QED
  BY <1>1, <1>2, <1>3, <1>4, <1>5, <1>6, <1>7, <1>8, <1>9, <1>10, <1>11,
     <1>12, <1>13, <1>14, <1>15, <1>16, <1>17, <1>18, <1>19, <1>20, <1>21,
     <1>22, <1>23 DEF Next, Driver, Callers, followup, steer, inject, Target

-----------------------------------------------------------------------------
(* The outcome of the turn.                                                *)

LEMMA EndsInit == Init => EndsAtPlace
BY DEF Init, EndsAtPlace, InTurn, InStep

\* An outcome is overwritten only where it may be; max-tokens is sticky.
LEMMA EndsStep == TypeOK /\ PhaseAtPlace /\ EndsAtPlace /\ [Next]_vars => EndsAtPlace'
<1> SUFFICES ASSUME TypeOK, PhaseAtPlace, EndsAtPlace, [Next]_vars
             PROVE  EndsAtPlace'
  OBVIOUS
<1> USE DEF EndsAtPlace, InTurn, InStep, driver, inbox, waiting, history,
            callers, Active, Resumed
<1>1. CASE TurnStart
  BY <1>1 DEF TurnStart
<1>2. CASE Claim
  BY <1>2 DEF Claim, Throw
<1>3. CASE PreStepReturn
  BY <1>3 DEF PreStepReturn, Throw
<1>4. CASE StepStart
  BY <1>4 DEF StepStart, Throw
<1>5. CASE Request
  BY <1>5 DEF Request
<1>6. CASE ModelReturns
  <2>1. CASE StepThrows
    BY <1>6, <2>1 DEF ModelReturns, StepThrows
  <2>2. ASSUME NEW outcome \in {"completed", "max-tokens"}, StepReturns(outcome)
        PROVE  EndsAtPlace'
    BY <1>6, <2>2 DEF ModelReturns, StepReturns
  <2>3. CASE pc' \in {"retry", "tools"} /\ UNCHANGED <<ends, overrun>>
    BY <1>6, <2>3 DEF ModelReturns
  <2> QED BY <1>6, <2>1, <2>2, <2>3 DEF ModelReturns
<1>7. CASE RetryReturns
  BY <1>7 DEF RetryReturns, StepThrows
<1>8. CASE ToolsReturn
  BY <1>8 DEF ToolsReturn, StepThrows, StepReturns
<1>9. CASE StepEnd
  BY <1>9 DEF StepEnd
<1>10. CASE AfterStep
  BY <1>10 DEF AfterStep, Throw, NextStep
<1>11. CASE StoppingReturns
  BY <1>11 DEF StoppingReturns, Throw, NextStep
<1>12. CASE Catch
  BY <1>12 DEF Catch
<1>13. CASE TurnEnd
  BY <1>13 DEF TurnEnd
<1>14. CASE TurnReturns
  BY <1>14 DEF TurnReturns, RunningPhase
<1>15. CASE KickExit
  BY <1>15 DEF KickExit, IdlePhase
<1>16. CASE Replay
  BY <1>16 DEF Replay, wakeDriver, Start, Latch, RunningPhase
<1>17. CASE Deliver
  BY <1>17 DEF Deliver, wakeDriver, Start, Latch, RunningPhase
<1>18. CASE StartMaintenance
  BY <1>18 DEF StartMaintenance, MaintenancePhase
<1>19. CASE EndMaintenance
  BY <1>19 DEF EndMaintenance, Start, RunningPhase, IdlePhase
<1>20. CASE \/ Settle
            \/ (\E msg \in Msg, to \in Target, wakeup \in BOOLEAN : Send(msg, to, wakeup))
            \/ RemovePending
            \/ (\E cause \in Cause, keepInbox \in BOOLEAN : Cancel(cause, keepInbox))
            \/ WhenIdle \/ WaiterResume \/ UNCHANGED vars
  <2>1. UNCHANGED <<pc, ends, overrun>>
    BY <1>20 DEF Settle, Send, RemovePending, Cancel, WhenIdle, WaiterResume,
       vars
  <2> QED BY <2>1
<1> QED
  BY <1>1, <1>2, <1>3, <1>4, <1>5, <1>6, <1>7, <1>8, <1>9, <1>10, <1>11,
     <1>12, <1>13, <1>14, <1>15, <1>16, <1>17, <1>18, <1>19, <1>20 DEF Next,
     Driver, Callers, followup, steer, inject, Target

-----------------------------------------------------------------------------
(* The log's trace.                                                        *)

LEMMA TraceInit == Init => TraceAtPlace
BY DEF Init, TraceAtPlace, InTurn, InStep, IdlePhase, Log!FreshTrace, Log!None

\* Boundaries are appended where the trace expects the next one.
LEMMA TraceStep ==
  TypeOK /\ PhaseAtPlace /\ EndsAtPlace /\ TraceAtPlace /\ [Next]_vars
    => TraceAtPlace'
<1> SUFFICES ASSUME TypeOK, PhaseAtPlace, EndsAtPlace, TraceAtPlace, [Next]_vars
             PROVE  TraceAtPlace'
  OBVIOUS
<1> USE DEF PhaseAtPlace, TraceAtPlace, InTurn, InStep, Phase, IsIdle, IsAborted, driver,
            inbox, waiting, history, callers, Active, Resumed, Log!Trace, Log!None
<1>1. phase \in Phase /\ trace \in Log!Trace
  BY DEF TypeOK
<1>2. CASE TurnStart
  <2>1. CASE IsAborted
    BY <1>2, <1>1, <2>1 DEF TurnStart
  <2>2. CASE ~IsAborted
    <3>1. /\ trace' = [[trace EXCEPT !.openTurn = phase.turn + 1]
                               EXCEPT !.nextStep = 1]
          /\ phase' = [phase EXCEPT !.turn = phase.turn + 1]
          /\ pc = "enter" /\ pc' = "top"
      BY <1>2, <2>2 DEF TurnStart, Log!OpenTurn
    <3>2. /\ trace'.openTurn = phase.turn + 1 /\ trace'.nextStep = 1
          /\ trace'.nextTurn = trace.nextTurn /\ trace'.openStep = trace.openStep
          /\ trace'.pendingCalls = trace.pendingCalls
      BY <1>1, <3>1
    <3>3. phase'.turn = phase.turn + 1 /\ phase'.step = phase.step
      BY <1>1, <3>1
    <3> QED BY <1>1, <3>1, <3>2, <3>3
  <2> QED BY <2>1, <2>2
<1>3. CASE Claim
  BY <1>3, <1>1 DEF Claim, Throw
<1>4. CASE PreStepReturn
  BY <1>4, <1>1 DEF PreStepReturn, Throw
<1>5. CASE StepStart
  BY <1>5, <1>1 DEF StepStart, Throw, Log!OpenStep
<1>6. CASE Request
  BY <1>6, <1>1 DEF Request
<1>7. CASE ModelReturns
  BY <1>7, <1>1 DEF ModelReturns, StepThrows, StepReturns
<1>8. CASE RetryReturns
  BY <1>8, <1>1 DEF RetryReturns, StepThrows
<1>9. CASE ToolsReturn
  BY <1>9, <1>1 DEF ToolsReturn, StepThrows, StepReturns
<1>10. CASE StepEnd
  BY <1>10, <1>1 DEF StepEnd, Log!CloseStep
<1>11. CASE AfterStep
  BY <1>11, <1>1 DEF AfterStep, Throw, NextStep
<1>12. CASE StoppingReturns
  BY <1>12, <1>1 DEF StoppingReturns, Throw, NextStep
<1>13. CASE Catch
  BY <1>13, <1>1 DEF Catch
<1>14. CASE TurnEnd
  BY <1>14, <1>1 DEF TurnEnd, Log!CloseTurn
<1>15. CASE TurnReturns
  BY <1>15, <1>1 DEF TurnReturns, RunningPhase
<1>16. CASE KickExit
  BY <1>16, <1>1 DEF KickExit, IdlePhase
<1>17. CASE Replay
  BY <1>17, <1>1 DEF Replay, wakeDriver, Start, Latch, RunningPhase
<1>18. CASE Deliver
  BY <1>18, <1>1 DEF Deliver, wakeDriver, Start, Latch, RunningPhase
<1>19. ASSUME NEW cause \in Cause, NEW keepInbox \in BOOLEAN,
             Cancel(cause, keepInbox)
      PROVE  TraceAtPlace'
  BY <1>19, <1>1 DEF Cancel
<1>20. CASE StartMaintenance
  BY <1>20, <1>1 DEF StartMaintenance, MaintenancePhase
<1>21. CASE EndMaintenance
  BY <1>21, <1>1 DEF EndMaintenance, Start, RunningPhase, IdlePhase
<1>22. CASE \/ Settle
            \/ (\E msg \in Msg, to \in Target, wakeup \in BOOLEAN : Send(msg, to, wakeup))
            \/ RemovePending \/ WhenIdle \/ WaiterResume \/ UNCHANGED vars
  <2>1. UNCHANGED <<phase, pc, trace>>
    BY <1>22 DEF Settle, Send, RemovePending, WhenIdle, WaiterResume, vars
  <2> QED BY <2>1
<1>23. CASE Driver
  BY <1>2, <1>3, <1>4, <1>5, <1>6, <1>7, <1>8, <1>9, <1>10, <1>11, <1>12, <1>13,
     <1>14, <1>15, <1>16, <1>17, <1>22, <1>23, Zenon DEF Driver
<1>24. CASE Callers
  <2>1. ASSUME NEW msg \in Msg, followup(msg) \/ steer(msg) \/ inject(msg)
        PROVE  TraceAtPlace'
    BY <1>22, <2>1 DEF followup, steer, inject, Target
  <2> QED BY <1>18, <1>19, <1>20, <1>21, <1>22, <1>24, <2>1, Zenon DEF Callers
<1> QED
  BY <1>22, <1>23, <1>24, Zenon DEF Next

-----------------------------------------------------------------------------
(* The latch.                                                              *)

LEMMA WakeInit == Init => WakeAtPhase
BY DEF Init, WakeAtPhase, IdlePhase, IsIdle, IsAborted

\* A wake is latched only behind an abort or a maintenance task, never behind a
\* disposal.
LEMMA WakeStep == TypeOK /\ PhaseAtPlace /\ WakeAtPhase /\ [Next]_vars => WakeAtPhase'
<1> SUFFICES ASSUME TypeOK, PhaseAtPlace, WakeAtPhase, [Next]_vars
             PROVE  WakeAtPhase'
  OBVIOUS
<1> USE DEF PhaseAtPlace, WakeAtPhase, Phase, IsIdle, IsAborted, driver, inbox, waiting,
            history, callers, Active, Resumed
<1>1. phase \in Phase
  BY DEF TypeOK
<1>2. CASE TurnStart
  BY <1>2, <1>1 DEF TurnStart
<1>3. CASE StepStart
  BY <1>3, <1>1 DEF StepStart, Throw
<1>4. CASE TurnReturns
  BY <1>4, <1>1 DEF TurnReturns, RunningPhase
<1>5. CASE KickExit
  BY <1>5, <1>1 DEF KickExit, IdlePhase
<1>6. CASE Replay
  BY <1>6, <1>1 DEF Replay, wakeDriver, Start, Latch, RunningPhase
<1>7. ASSUME NEW msg \in Msg, NEW to \in Target, NEW wakeup \in BOOLEAN,
             Send(msg, to, wakeup)
      PROVE  WakeAtPhase'
  BY <1>7, <1>1 DEF Send
<1>8. CASE Deliver
  BY <1>8, <1>1 DEF Deliver, wakeDriver, Start, Latch, RunningPhase
<1>9. ASSUME NEW cause \in Cause, NEW keepInbox \in BOOLEAN,
             Cancel(cause, keepInbox)
      PROVE  WakeAtPhase'
  BY <1>9, <1>1 DEF Cancel
<1>10. CASE StartMaintenance
  BY <1>10, <1>1 DEF StartMaintenance, MaintenancePhase
<1>11. CASE EndMaintenance
  BY <1>11, <1>1 DEF EndMaintenance, Start, RunningPhase, IdlePhase
<1>12. CASE \/ Claim \/ PreStepReturn \/ Request \/ ModelReturns
            \/ RetryReturns \/ ToolsReturn \/ StepEnd \/ AfterStep
            \/ StoppingReturns \/ Catch \/ TurnEnd \/ Settle \/ RemovePending
            \/ WhenIdle \/ WaiterResume \/ UNCHANGED vars
  <2>1. UNCHANGED <<phase, delivering>>
    BY <1>12 DEF Claim, PreStepReturn, Request, ModelReturns, RetryReturns,
       ToolsReturn, StepEnd, AfterStep, StoppingReturns, Catch, TurnEnd,
       Settle, RemovePending, WhenIdle, WaiterResume, vars
  <2> QED BY <2>1
<1> QED
  BY <1>1, <1>2, <1>3, <1>4, <1>5, <1>6, <1>7, <1>8, <1>9, <1>10, <1>11, <1>12
     DEF Next, Driver, Callers, followup, steer, inject, Target

-----------------------------------------------------------------------------
(* Late wakes.                                                             *)

LEMMA PendingIsEmpty ==
  TypeOK => /\ Pending \subseteq Msg
            /\ HasPending <=> Pending # {}
BY IdsAreMessages DEF TypeOK, Pending, HasPending

\* A removal only shortens its list.
LEMMA PendingShrinks ==
  ASSUME TypeOK, Claim \/ RemovePending
  PROVE  Pending' \subseteq Pending
<1>1. CASE Claim
  <2>1. /\ Ids(nextStep') \subseteq Ids(nextStep)
        /\ Ids(nextTurn') \subseteq Ids(nextTurn)
    BY <1>1, IdsOfTail, IdsOfEmpty DEF TypeOK, Claim, inbox
  <2> QED BY <2>1 DEF Pending
<1>2. ASSUME NEW list \in Seq(Msg), NEW rest, Remove(list, rest)
      PROVE  Ids(rest) \subseteq Ids(list)
  BY <1>2, IdsOfRemoved DEF Remove
<1>3. CASE RemovePending
  <2>1. /\ Ids(nextStep') \subseteq Ids(nextStep)
        /\ Ids(nextTurn') \subseteq Ids(nextTurn)
    BY <1>2, <1>3 DEF TypeOK, RemovePending
  <2> QED BY <2>1 DEF Pending
<1> QED BY <1>1, <1>3

LEMMA OwedInit == Init => OwedIsLatched
BY IdsOfEmpty DEF Init, OwedIsLatched, Pending, IdlePhase

\* A late wake becomes a latch, the latch a replay, and the replay a turn.
LEMMA OwedStep ==
  TypeOK /\ PhaseAtPlace /\ WakeAtPhase /\ OwedIsLatched /\ [Next]_vars
    => OwedIsLatched'
<1> SUFFICES ASSUME TypeOK, PhaseAtPlace, WakeAtPhase, OwedIsLatched, [Next]_vars
             PROVE  OwedIsLatched'
  OBVIOUS
<1> USE DEF PhaseAtPlace, WakeAtPhase, OwedIsLatched, Phase, IsIdle, IsAborted, driver,
            inbox, waiting, history, callers, Active, Resumed
<1>1. phase \in Phase
  BY DEF TypeOK
<1>2. CASE TurnStart
  BY <1>2, <1>1 DEF TurnStart, Pending
<1>3. CASE Claim
  <2>1. Pending' \subseteq Pending
    BY <1>3, PendingShrinks
  <2>2. UNCHANGED <<phase, sent, owed, delivering, replaying>>
    BY <1>3 DEF Claim
  <2> QED BY <2>1, <2>2
<1>4. CASE StepStart
  BY <1>4, <1>1 DEF StepStart, Throw, Pending
<1>5. CASE TurnReturns
  BY <1>5, <1>1 DEF TurnReturns, RunningPhase, Pending
<1>6. CASE KickExit
  BY <1>6, <1>1 DEF KickExit, IdlePhase, Pending
<1>7. CASE Replay
  <2>1. UNCHANGED <<sent, delivering>> /\ Pending' = Pending /\ delivering = "no"
    BY <1>7 DEF Replay, Pending
  <2>2. CASE HasPending /\ IsIdle
    BY <1>7, <2>1, <2>2 DEF Replay, wakeDriver, Start, RunningPhase
  <2>3. CASE HasPending /\ ~IsIdle
    <3>1. /\ phase'.wake = (phase.wake \/ (/\ phase.abort # "disposed"
                                           /\ phase.kind = "maintenance"))
          /\ phase'.abort = phase.abort
          /\ owed' = owed
      BY <1>7, <1>1, <2>3 DEF Replay, wakeDriver, Latch
    <3> QED BY <1>1, <2>1, <2>3, <3>1
  <2>4. CASE ~HasPending
    <3>1. Pending = {} /\ owed' = owed /\ phase' = phase
      BY <1>7, <2>4, PendingIsEmpty DEF Replay
    <3> QED BY <2>1, <3>1
  <2> QED BY <2>2, <2>3, <2>4
<1>8. ASSUME NEW msg \in Msg, NEW to \in Target, NEW wakeup \in BOOLEAN,
             Send(msg, to, wakeup)
      PROVE  OwedIsLatched'
  <2>1. Pending' = Pending \union {msg}
    <3>1. \/ nextTurn' = Append(nextTurn, msg) /\ UNCHANGED nextStep
          \/ nextStep' = Append(nextStep, msg) /\ UNCHANGED nextTurn
      BY <1>8 DEF Send
    <3>2. nextTurn \in Seq(Msg) /\ nextStep \in Seq(Msg)
      BY DEF TypeOK
    <3>3. CASE nextTurn' = Append(nextTurn, msg) /\ UNCHANGED nextStep
      <4>1. Ids(nextTurn') = Ids(nextTurn) \union {msg}
        BY <3>2, <3>3, IdsOfAppend
      <4> QED BY <3>3, <4>1 DEF Pending
    <3>4. CASE nextStep' = Append(nextStep, msg) /\ UNCHANGED nextTurn
      <4>1. Ids(nextStep') = Ids(nextStep) \union {msg}
        BY <3>2, <3>4, IdsOfAppend
      <4> QED BY <3>4, <4>1 DEF Pending
    <3> QED BY <3>1, <3>3, <3>4
  <2>2. sent' = sent \union {msg} /\ msg \notin sent /\ delivering = "no"
        /\ UNCHANGED <<phase, replaying>>
    BY <1>8 DEF Send
  <2>3. CASE /\ wakeup /\ phase.abort # "disposed"
             /\ (wakeup /\ ~IsIdle /\ IsAborted) \/ phase.kind = "maintenance"
    <3>1. /\ owed' = owed \union {msg}
          /\ \/ delivering' = "late"
             \/ delivering' = "live" /\ phase.kind = "maintenance"
      BY <1>8, <2>3 DEF Send
    <3> QED BY <2>1, <2>2, <2>3, <3>1
  <2>4. CASE ~(/\ wakeup /\ phase.abort # "disposed"
               /\ (wakeup /\ ~IsIdle /\ IsAborted) \/ phase.kind = "maintenance")
    <3>1. owed' = owed
      BY <1>8, <2>4 DEF Send
    <3>2. owed \intersect Pending' = owed \intersect Pending
      BY <2>1, <2>2
    <3> QED BY <2>1, <2>2, <3>1, <3>2
  <2> QED BY <2>3, <2>4
<1>9. CASE Deliver
  <2>1. UNCHANGED <<sent, replaying>> /\ Pending' = Pending /\ delivering' = "no"
    BY <1>9 DEF Deliver, Pending
  <2>2. CASE IsIdle
    BY <1>9, <2>1, <2>2 DEF Deliver, wakeDriver, Start, RunningPhase
  <2>3. CASE ~IsIdle
    <3>1. /\ phase'.wake = (phase.wake \/ (/\ phase.abort # "disposed"
                                           /\ \/ phase.kind = "maintenance"
                                              \/ delivering = "late"))
          /\ phase'.abort = phase.abort /\ phase'.kind = phase.kind
          /\ owed' = owed
      BY <1>9, <1>1, <2>3 DEF Deliver, wakeDriver, Latch
    <3> QED BY <2>1, <2>3, <3>1
  <2> QED BY <2>2, <2>3
<1>10. CASE RemovePending
  <2>1. Pending' \subseteq Pending
    BY <1>10, PendingShrinks
  <2>2. UNCHANGED <<phase, sent, owed, delivering, replaying>>
    BY <1>10 DEF RemovePending
  <2> QED BY <2>1, <2>2
<1>11. ASSUME NEW cause \in Cause, NEW keepInbox \in BOOLEAN,
             Cancel(cause, keepInbox)
      PROVE  OwedIsLatched'
  <2>1. UNCHANGED <<sent, owed, delivering, replaying>>
    BY <1>11 DEF Cancel
  <2>2. CASE keepInbox
    <3>1. Pending' = Pending
      BY <1>11, <2>2 DEF Cancel, Pending
    <3>2. /\ phase'.wake = phase.wake /\ phase'.kind = phase.kind
          /\ phase'.abort = "disposed" => phase.abort = "disposed"
      BY <1>11, <1>1, <2>2 DEF Cancel
    <3> QED BY <2>1, <3>1, <3>2
  <2>3. CASE ~keepInbox
    <3>1. Pending' = {}
      BY <1>11, <2>3, IdsOfEmpty DEF Cancel, Pending
    <3> QED BY <2>1, <3>1
  <2> QED BY <2>2, <2>3
<1>12. CASE StartMaintenance
  BY <1>12, <1>1 DEF StartMaintenance, MaintenancePhase, Pending
<1>13. CASE EndMaintenance
  <2>1. UNCHANGED <<sent, delivering, replaying>> /\ Pending' = Pending
    BY <1>13 DEF EndMaintenance, Pending
  <2>2. CASE phase.wake /\ HasPending
    BY <1>13, <2>1, <2>2 DEF EndMaintenance, Start, RunningPhase
  <2>3. CASE ~(phase.wake /\ HasPending)
    <3>1. phase' = IdlePhase(phase.turn) /\ owed' = owed
      BY <1>13, <2>3 DEF EndMaintenance
    <3>2. owed \intersect Pending = {}
      BY <1>13, <2>3, PendingIsEmpty DEF EndMaintenance
    <3> QED BY <2>1, <3>1, <3>2 DEF IdlePhase
  <2> QED BY <2>2, <2>3
<1>14. CASE \/ PreStepReturn \/ Request \/ ModelReturns \/ RetryReturns
            \/ ToolsReturn \/ StepEnd \/ AfterStep \/ StoppingReturns \/ Catch
            \/ TurnEnd \/ Settle \/ WhenIdle \/ WaiterResume \/ UNCHANGED vars
  <2>1. UNCHANGED <<phase, delivering, replaying, sent, owed, nextTurn,
     nextStep>>
    BY <1>14 DEF PreStepReturn, Request, ModelReturns, RetryReturns,
       ToolsReturn, StepEnd, AfterStep, StoppingReturns, Catch, TurnEnd,
       Settle, WhenIdle, WaiterResume, vars
  <2> QED BY <2>1 DEF Pending
<1> QED
  BY <1>1, <1>2, <1>3, <1>4, <1>5, <1>6, <1>7, <1>8, <1>9, <1>10, <1>11,
     <1>12, <1>13, <1>14 DEF Next, Driver, Callers, followup, steer, inject,
     Target

-----------------------------------------------------------------------------
(* Parked work.                                                            *)

LEMMA ParkedInit == Init => ParkedIsSafe
BY DEF Init, ParkedIsSafe

\* While work is parked the aborted turn goes nowhere but out, and only a wake
\* unparks it.
LEMMA ParkedStep ==
  TypeOK /\ PhaseAtPlace /\ WakeAtPhase /\ ParkedIsSafe /\ [Next]_vars
    => ParkedIsSafe'
<1> SUFFICES ASSUME TypeOK, PhaseAtPlace, WakeAtPhase, ParkedIsSafe, [Next]_vars
             PROVE  ParkedIsSafe'
  OBVIOUS
<1> USE DEF PhaseAtPlace, WakeAtPhase, ParkedIsSafe, Phase, IsIdle, IsAborted, driver,
            inbox, waiting, history, callers, Active, Resumed
<1>1. phase \in Phase
  BY DEF TypeOK
<1>2. CASE TurnStart
  BY <1>2, <1>1 DEF TurnStart
<1>3. CASE Claim
  BY <1>3, <1>1 DEF Claim, Throw
<1>4. CASE PreStepReturn
  BY <1>4, <1>1 DEF PreStepReturn, Throw
<1>5. CASE StepStart
  BY <1>5, <1>1 DEF StepStart, Throw
<1>6. CASE Request
  BY <1>6, <1>1 DEF Request
<1>7. CASE ModelReturns
  BY <1>7, <1>1 DEF ModelReturns, StepThrows, StepReturns
<1>8. CASE RetryReturns
  BY <1>8, <1>1 DEF RetryReturns, StepThrows
<1>9. CASE ToolsReturn
  BY <1>9, <1>1 DEF ToolsReturn, StepThrows, StepReturns
<1>10. CASE StepEnd
  BY <1>10, <1>1 DEF StepEnd
<1>11. CASE AfterStep
  BY <1>11, <1>1 DEF AfterStep, Throw, NextStep
<1>12. CASE StoppingReturns
  BY <1>12, <1>1 DEF StoppingReturns, Throw, NextStep
<1>13. CASE Catch
  BY <1>13, <1>1 DEF Catch
<1>14. CASE TurnEnd
  BY <1>14, <1>1 DEF TurnEnd
<1>15. CASE TurnReturns
  BY <1>15, <1>1 DEF TurnReturns, RunningPhase, Leaves
<1>16. CASE KickExit
  BY <1>16, <1>1 DEF KickExit, IdlePhase
<1>17. CASE Replay
  BY <1>17, <1>1 DEF Replay, wakeDriver, Start, Latch, RunningPhase
<1>18. ASSUME NEW msg \in Msg, NEW to \in Target, NEW wakeup \in BOOLEAN,
             Send(msg, to, wakeup)
      PROVE  ParkedIsSafe'
  BY <1>18, <1>1 DEF Send
<1>19. CASE Deliver
  BY <1>19, <1>1 DEF Deliver, wakeDriver, Start, Latch
<1>20. ASSUME NEW cause \in Cause, NEW keepInbox \in BOOLEAN,
             Cancel(cause, keepInbox)
      PROVE  ParkedIsSafe'
  <2>1. UNCHANGED <<pc, ends, delivering, replaying>>
    BY <1>20 DEF Cancel
  <2>2. CASE keepInbox /\ phase.kind = "running" /\ ~IsAborted
             /\ pc \notin {"decided", "ended"}
    <3>1. phase'.kind = "running" /\ phase'.abort = cause /\ ~phase'.wake
      BY <1>20, <1>1, <2>2 DEF Cancel
    <3>2. pc = "turnEnd" => ends = "error"
      BY <1>20, <2>2 DEF Cancel, Outside, InsideAppend
    <3>3. cause # "no" /\ delivering # "late"
      BY <2>2 DEF Cause
    <3>4. delivering' # "no" => delivering' = "live"
      BY <2>1, <3>3 DEF TypeOK
    <3> QED BY <2>1, <2>2, <3>1, <3>2, <3>3, <3>4
  <2>3. CASE ~(keepInbox /\ phase.kind = "running" /\ ~IsAborted
               /\ pc \notin {"decided", "ended"})
    <3>1. parked' = parked
      BY <1>20, <2>3 DEF Cancel
    <3>2. /\ phase'.kind = phase.kind
          /\ phase'.wake => phase.wake
          /\ IsAborted => IsAborted'
      BY <1>20, <1>1 DEF Cancel, Cause
    <3> QED BY <2>1, <3>1, <3>2
  <2> QED BY <2>2, <2>3
<1>21. CASE StartMaintenance
  BY <1>21, <1>1 DEF StartMaintenance, MaintenancePhase
<1>22. CASE EndMaintenance
  BY <1>22, <1>1 DEF EndMaintenance, Start, RunningPhase, IdlePhase
<1>23. CASE \/ Settle \/ RemovePending \/ WhenIdle \/ WaiterResume
            \/ UNCHANGED vars
  <2>1. UNCHANGED <<phase, pc, ends, delivering, replaying, parked>>
    BY <1>23 DEF Settle, RemovePending, WhenIdle, WaiterResume, vars
  <2> QED BY <2>1
<1> QED
  BY <1>1, <1>2, <1>3, <1>4, <1>5, <1>6, <1>7, <1>8, <1>9, <1>10, <1>11,
     <1>12, <1>13, <1>14, <1>15, <1>16, <1>17, <1>18, <1>19, <1>20, <1>21,
     <1>22, <1>23 DEF Next, Driver, Callers, followup, steer, inject, Target

-----------------------------------------------------------------------------
(* The theorems.                                                           *)

\* What is known at each place of agent.ts's driver holds in every reachable
\* state, whoever sends, cancels, disposes or runs maintenance in between.
THEOREM Invariance == Spec => []IInv
<1>1. Init => IInv
  BY TypeInit, PhaseInit, EndsInit, TraceInit, WakeInit, OwedInit, ParkedInit
     DEF IInv
<1>2. IInv /\ [Next]_vars => IInv'
  BY TypeStep, PhaseStep, EndsStep, TraceStep, WakeStep, OwedStep, ParkedStep
     DEF IInv
<1> QED BY <1>1, <1>2, PTL DEF Spec

\* wakeDriver never sets wakeRequested behind an abort whose reason is
\* disposed, and cancel drops a latch before it records one.
THEOREM DisposedNeverLatches == Spec => []DisposedCauseNeverLatches
<1>1. IInv => DisposedCauseNeverLatches
  BY DEF IInv, WakeAtPhase, DisposedCauseNeverLatches
<1> QED BY <1>1, Invariance, PTL

\* A wake that send() delivers to an aborted turn or to a maintenance task is
\* latched, or replayed by the finally block, as long as its message is queued.
THEOREM LateWakeLatched == Spec => []LateWakeIsLatched
<1>1. IInv => LateWakeIsLatched
  BY DEF IInv, OwedIsLatched, LateWakeIsLatched
<1> QED BY <1>1, Invariance, PTL

\* turn() keeps a max-tokens outcome over the outcomes of later steps.
THEOREM OverrunKept == Spec => []OverrunIsKept
<1>1. IInv => OverrunIsKept
  BY DEF IInv, EndsAtPlace, OverrunIsKept
<1> QED BY <1>1, Invariance, PTL

\* whenIdle() resolves only when no turn and no maintenance task is active.
THEOREM IdleIsQuiet == Spec => WhenIdleIsQuiet
<1>1. ASSUME IInv, [Next]_vars, waiter # "none", waiter' = "none"
      PROVE  IsIdle
  <2>1. CASE WaiterResume
    BY <1>1, <2>1 DEF IInv, PhaseAtPlace, WaiterResume
  <2>2. CASE Start \/ (waiter' = IF waiter = "current" THEN "stale" ELSE waiter)
    BY <1>1, <2>2 DEF Start
  <2>3. CASE UNCHANGED waiter
    BY <1>1, <2>3
  <2>4. WaiterResume \/ Start \/ UNCHANGED waiter
        \/ waiter' = IF waiter = "current" THEN "stale" ELSE waiter
    <3>1. Driver => Start \/ UNCHANGED waiter
      BY DEF Driver, TurnStart, Claim, PreStepReturn, StepStart, Request,
         ModelReturns, RetryReturns, ToolsReturn, StepEnd, AfterStep,
         StoppingReturns, Catch, TurnEnd, TurnReturns, KickExit, Replay, Settle,
         wakeDriver, Latch, callers, waiting
    <3>2. ASSUME NEW msg \in Msg, NEW to, NEW wakeup
          PROVE  Send(msg, to, wakeup) => UNCHANGED waiter
      BY DEF Send, waiting
    <3>3. ASSUME NEW cause \in Cause, NEW keepInbox \in BOOLEAN
          PROVE  Cancel(cause, keepInbox) => UNCHANGED waiter
      BY DEF Cancel, waiting
    <3>4. Deliver \/ EndMaintenance => Start \/ UNCHANGED waiter
      BY DEF Deliver, EndMaintenance, wakeDriver, Latch, waiting
    <3>5. RemovePending => UNCHANGED waiter
      BY DEF RemovePending, waiting
    <3>6. StartMaintenance =>
            waiter' = IF waiter = "current" THEN "stale" ELSE waiter
      BY DEF StartMaintenance
    <3>7. WhenIdle => waiter = "none"
      BY DEF WhenIdle
    <3> QED
      BY <1>1, <3>1, <3>2, <3>3, <3>4, <3>5, <3>6, <3>7 DEF Next, Callers,
         followup, steer, inject, vars, waiting
  <2> QED BY <2>1, <2>2, <2>3, <2>4
<1>2. IInv /\ [Next]_vars
        => [waiter # "none" /\ waiter' = "none" => IsIdle]_vars
  BY <1>1
<1> QED BY <1>2, Invariance, PTL DEF Spec, WhenIdleIsQuiet

\* turn() and step() look at the signal before they open a step, make a request
\* or retry one.
THEOREM AbortStops == Spec => AbortStopsWork
<1>1. ASSUME IInv, [Next]_vars, IsAborted
      PROVE  /\ trace'.openStep \in {trace.openStep, Log!None}
             /\ pc' = "model" => pc = "model"
  <2> USE DEF callers, driver, inbox, waiting, history
  <2>1. trace \in Log!Trace
    BY <1>1 DEF IInv, TypeOK
  <2>2. CASE TurnStart
    BY <1>1, <2>2 DEF TurnStart
  <2>3. CASE StepStart
    BY <1>1, <2>3 DEF StepStart, Throw
  <2>4. CASE StepEnd
    BY <2>1, <2>4 DEF StepEnd, Log!CloseStep, Log!Trace
  <2>5. CASE TurnEnd
    BY <2>1, <2>5 DEF TurnEnd, Log!CloseTurn, Log!Trace
  <2>6. CASE \/ Claim \/ PreStepReturn \/ Request \/ ModelReturns
             \/ RetryReturns \/ ToolsReturn \/ AfterStep \/ StoppingReturns
             \/ Catch \/ TurnReturns \/ KickExit \/ Settle
    BY <1>1, <2>6 DEF Claim, PreStepReturn, Request, ModelReturns,
       RetryReturns, ToolsReturn, AfterStep, StoppingReturns, Catch,
       TurnReturns, KickExit, Settle, Throw, StepThrows, StepReturns, NextStep
  <2>7. CASE Replay \/ Deliver \/ EndMaintenance
    BY <2>7 DEF Replay, Deliver, EndMaintenance, wakeDriver, Start, Latch
  <2>8. ASSUME NEW msg \in Msg, NEW to, NEW wakeup, Send(msg, to, wakeup)
        PROVE  UNCHANGED <<trace, pc>>
    BY <2>8 DEF Send
  <2>9. ASSUME NEW cause \in Cause, NEW keepInbox \in BOOLEAN,
               Cancel(cause, keepInbox)
        PROVE  UNCHANGED <<trace, pc>>
    BY <2>9 DEF Cancel
  <2>10. CASE \/ RemovePending \/ StartMaintenance \/ WhenIdle \/ WaiterResume
              \/ UNCHANGED vars
    BY <2>10 DEF RemovePending, StartMaintenance, WhenIdle, WaiterResume, vars
  <2> QED
    BY <1>1, <2>2, <2>3, <2>4, <2>5, <2>6, <2>7, <2>8, <2>9, <2>10 DEF Next,
       Driver, Callers, followup, steer, inject
<1>2. IInv /\ [Next]_vars
        => [IsAborted => /\ trace'.openStep \in {trace.openStep, Log!None}
                         /\ pc' = "model" => pc = "model"]_vars
  BY <1>1
<1> QED BY <1>2, Invariance, PTL DEF Spec, AbortStopsWork

\* The turn a keepInbox cancel aborted claims nothing more, and its driver
\* exits without going on to the queue.
THEOREM ParkedWaits == Spec => ParkedWorkWaits
<1>1. ASSUME IInv, [Next]_vars, parked # {}
      PROVE  batch' \subseteq batch
  <2> USE DEF callers, driver, inbox, waiting, history
  <2>1. CASE Claim
    BY <1>1, <2>1 DEF IInv, ParkedIsSafe, Claim, Active
  <2>2. CASE PreStepReturn
    BY <2>2 DEF PreStepReturn
  <2>3. CASE StepStart
    BY <2>3 DEF StepStart
  <2>4. CASE \/ TurnStart \/ Request \/ ModelReturns \/ RetryReturns
             \/ ToolsReturn \/ StepEnd \/ AfterStep \/ StoppingReturns \/ Catch
             \/ TurnEnd \/ TurnReturns \/ KickExit \/ Replay \/ Settle
    BY <2>4 DEF TurnStart, Request, ModelReturns, RetryReturns, ToolsReturn,
       StepEnd, AfterStep, StoppingReturns, Catch, TurnEnd, TurnReturns,
       KickExit, Replay, Settle, wakeDriver, Start, Latch
  <2>5. ASSUME NEW msg \in Msg, NEW to, NEW wakeup, Send(msg, to, wakeup)
        PROVE  UNCHANGED batch
    BY <2>5 DEF Send
  <2>6. ASSUME NEW cause \in Cause, NEW keepInbox \in BOOLEAN,
               Cancel(cause, keepInbox)
        PROVE  UNCHANGED batch
    BY <2>6 DEF Cancel
  <2>7. CASE \/ Deliver \/ EndMaintenance \/ RemovePending \/ StartMaintenance
             \/ WhenIdle \/ WaiterResume \/ UNCHANGED vars
    BY <2>7 DEF Deliver, EndMaintenance, wakeDriver, Start, Latch,
       RemovePending, StartMaintenance, WhenIdle, WaiterResume, vars
  <2> QED
    BY <1>1, <2>1, <2>2, <2>3, <2>4, <2>5, <2>6, <2>7 DEF Next, Driver, Callers,
       followup, steer, inject
<1>2. IInv /\ [Next]_vars
        => [\A msg \in parked : msg \notin batch' \/ msg \in batch]_vars
  BY <1>1
<1> QED BY <1>2, Invariance, PTL DEF Spec, ParkedWorkWaits

\* The driver implements the session's trace automaton: every turn and step
\* boundary turn() appends is one validateEvent accepts, so no append of a
\* boundary is vetoed and every turn and step that starts also ends in order.
THEOREM DriverImplementsTrace == Spec => TraceAccepts
<1>1. Init => Log!Init
  BY DEF Init, Log!Init
<1>2. ASSUME IInv, [Next]_vars
      PROVE  [Log!Next]_trace
  <2> USE <1>2 DEF IInv, TraceAtPlace, InTurn, InStep, TypeOK, Phase, Log!None,
      callers, driver, inbox, waiting, history
  <2>1. CASE TurnStart
    BY <2>1 DEF TurnStart, Log!Next, Log!TurnStart, Log!CanOpenTurn
  <2>2. CASE StepStart
    BY <2>2 DEF StepStart, Log!Next, Log!StepStart, Log!CanOpenStep
  <2>3. CASE StepEnd
    BY <2>3 DEF StepEnd, Log!Next, Log!StepEnd, Log!InOpenStep
  <2>4. CASE TurnEnd
    BY <2>4 DEF TurnEnd, Log!Next, Log!TurnEnd, Log!CanCloseTurn
  <2>5. CASE \/ Claim \/ PreStepReturn \/ Request \/ ModelReturns
             \/ RetryReturns \/ ToolsReturn \/ AfterStep \/ StoppingReturns
             \/ Catch \/ TurnReturns \/ KickExit \/ Replay \/ Settle
    BY <2>5 DEF Claim, PreStepReturn, Request, ModelReturns, RetryReturns,
       ToolsReturn, AfterStep, StoppingReturns, Catch, TurnReturns, KickExit,
       Replay, Settle
  <2>6. ASSUME NEW msg \in Msg, NEW to, NEW wakeup, Send(msg, to, wakeup)
        PROVE  UNCHANGED trace
    BY <2>6 DEF Send
  <2>7. ASSUME NEW cause \in Cause, NEW keepInbox \in BOOLEAN,
               Cancel(cause, keepInbox)
        PROVE  UNCHANGED trace
    BY <2>7 DEF Cancel
  <2>8. CASE \/ Deliver \/ EndMaintenance \/ RemovePending \/ StartMaintenance
             \/ WhenIdle \/ WaiterResume \/ UNCHANGED vars
    BY <2>8 DEF Deliver, EndMaintenance, RemovePending, StartMaintenance,
       WhenIdle, WaiterResume, vars
  <2> QED
    BY <2>1, <2>2, <2>3, <2>4, <2>5, <2>6, <2>7, <2>8 DEF Next, Driver, Callers,
       followup, steer, inject
<1>3. IInv /\ [Next]_vars => [Log!Next]_trace
  BY <1>2
<1> QED BY <1>1, <1>3, Invariance, PTL DEF Spec, TraceAccepts, Log!Spec

-----------------------------------------------------------------------------
(* The fates of messages: the inductive invariant.                         *)

\* A claimed batch waits for preStep()'s decision or for turn() to act on it.
BatchAtPlace ==
  /\ batch # {} => pc \in {"preStep", "decided"}
  /\ pc = "decided" /\ decision # "enter" => batch = {}

\* No message is twice in a list.
Distinct(list) == \A i, j \in DOMAIN list : list[i] = list[j] => i = j

\* Every message of the first set is in one of the six others, and in one only.
Spread(all, turns, steps, claimed, ran, taken, lost) ==
  /\ all = turns \union steps \union claimed \union ran \union taken \union lost
  /\ turns \intersect (steps \union claimed \union ran \union taken \union lost) = {}
  /\ steps \intersect (claimed \union ran \union taken \union lost) = {}
  /\ claimed \intersect (ran \union taken \union lost) = {}
  /\ ran \intersect (taken \union lost) = {}
  /\ taken \intersect lost = {}

FatesSpread ==
  Spread(sent, Ids(nextTurn), Ids(nextStep), batch, logged, discarded, dropped)

FateInv ==
  /\ BatchAtPlace
  /\ FatesSpread
  /\ Distinct(nextTurn)
  /\ Distinct(nextStep)

-----------------------------------------------------------------------------
(* Lists without duplicates.                                               *)

\* What an insertion, a claim or a removal makes of such a list.
LEMMA DistinctEmpty == Distinct(<<>>)
BY DEF Distinct

LEMMA DistinctAppend ==
  ASSUME NEW list \in Seq(Msg), NEW msg \in Msg, Distinct(list), msg \notin Ids(list)
  PROVE  Distinct(Append(list, msg))
<1>1. /\ DOMAIN list = 1 .. Len(list) /\ Len(list) \in Nat
      /\ \A i \in 1 .. Len(list) : Append(list, msg)[i] = list[i]
      /\ Append(list, msg)[Len(list) + 1] = msg
      /\ DOMAIN Append(list, msg) = 1 .. Len(list) + 1
  OBVIOUS
<1>2. \A i \in 1 .. Len(list) : list[i] # msg
  BY <1>1 DEF Ids
<1>3. ASSUME NEW i \in 1 .. Len(list) + 1, NEW j \in 1 .. Len(list) + 1,
             Append(list, msg)[i] = Append(list, msg)[j]
      PROVE  i = j
  <2>1. CASE i \in 1 .. Len(list) /\ j \in 1 .. Len(list)
    BY <1>1, <1>3, <2>1 DEF Distinct
  <2>2. CASE i = Len(list) + 1 /\ j \in 1 .. Len(list)
    BY <1>1, <1>2, <1>3, <2>2
  <2>3. CASE i \in 1 .. Len(list) /\ j = Len(list) + 1
    BY <1>1, <1>2, <1>3, <2>3
  <2>4. CASE i = Len(list) + 1 /\ j = Len(list) + 1
    BY <2>4
  <2> QED BY <1>1, <2>1, <2>2, <2>3, <2>4
<1> QED BY <1>1, <1>3 DEF Distinct

LEMMA DistinctTail ==
  ASSUME NEW list \in Seq(Msg), list # <<>>, Distinct(list)
  PROVE  /\ Distinct(Tail(list))
         /\ Ids(list) = Ids(Tail(list)) \union {Head(list)}
         /\ Head(list) \notin Ids(Tail(list))
<1>1. /\ Tail(list) \in Seq(Msg) /\ Len(Tail(list)) = Len(list) - 1
      /\ \A i \in 1 .. Len(Tail(list)) : Tail(list)[i] = list[i + 1]
  BY HeadTailProperties
<1>2. /\ DOMAIN list = 1 .. Len(list) /\ Len(list) \in Nat \ {0}
      /\ DOMAIN Tail(list) = 1 .. Len(list) - 1
      /\ Head(list) = list[1]
  BY <1>1
<1>3. Distinct(Tail(list))
  <2>1. ASSUME NEW i \in 1 .. Len(list) - 1, NEW j \in 1 .. Len(list) - 1,
               Tail(list)[i] = Tail(list)[j]
        PROVE  i = j
    <3>1. i + 1 \in DOMAIN list /\ j + 1 \in DOMAIN list
      BY <1>2
    <3>2. list[i + 1] = list[j + 1]
      BY <1>1, <2>1
    <3>3. i + 1 = j + 1
      BY <3>1, <3>2 DEF Distinct
    <3> QED BY <1>2, <3>3
  <2> QED BY <1>2, <2>1 DEF Distinct
<1>4. ASSUME NEW i \in DOMAIN list, i # 1
      PROVE  list[i] \in Ids(Tail(list))
  <2>1. i - 1 \in DOMAIN Tail(list)
    BY <1>2, <1>4
  <2>2. Tail(list)[i - 1] = list[i]
    BY <1>1, <1>2, <2>1
  <2> QED BY <2>1, <2>2 DEF Ids
<1>5. ASSUME NEW i \in DOMAIN Tail(list)
      PROVE  Tail(list)[i] \in Ids(list) \ {Head(list)}
  <2>1. Tail(list)[i] = list[i + 1] /\ i + 1 \in DOMAIN list /\ i + 1 # 1
        /\ 1 \in DOMAIN list
    BY <1>1, <1>2
  <2> QED BY <1>2, <2>1 DEF Ids, Distinct
<1>6. 1 \in DOMAIN list
  BY <1>2
<1> QED BY <1>2, <1>3, <1>4, <1>5, <1>6 DEF Ids

\* inbox.remove takes out one message, the one it discards.
LEMMA RemoveTakesOne ==
  ASSUME NEW list \in Seq(Msg), NEW rest, Distinct(list), Remove(list, rest)
  PROVE  \E msg : /\ discarded' = discarded \union {msg}
                  /\ Distinct(rest)
                  /\ Ids(list) = Ids(rest) \union {msg}
                  /\ msg \notin Ids(rest)
<1>0. PICK i \in DOMAIN list :
        /\ rest = SubSeq(list, 1, i - 1) \o SubSeq(list, i + 1, Len(list))
        /\ discarded' = discarded \union {list[i]}
  BY DEF Remove
<1>1. /\ DOMAIN list = 1 .. Len(list) /\ Len(list) \in Nat
      /\ i \in 1 .. Len(list)
  OBVIOUS
<1>2. /\ rest \in Seq(Msg) /\ Len(rest) = Len(list) - 1
      /\ \A j \in 1 .. Len(list) - 1 : /\ j < i => rest[j] = list[j]
                                       /\ j >= i => rest[j] = list[j + 1]
  <2>1. rest = SubSeq(list, 1, i - 1) \o SubSeq(list, i + 1, Len(list))
    BY <1>0
  <2> QED BY <2>1, RemovedElements
<1>3. DOMAIN rest = 1 .. Len(list) - 1
  BY <1>2
<1> DEFINE at(j) == IF j < i THEN j ELSE j + 1
<1>4. \A j \in 1 .. Len(list) - 1 : /\ at(j) \in DOMAIN list \ {i}
                                    /\ rest[j] = list[at(j)]
  <2>1. ASSUME NEW j \in 1 .. Len(list) - 1, j < i
        PROVE  at(j) = j /\ j \in DOMAIN list \ {i} /\ rest[j] = list[j]
    BY <1>1, <1>2, <2>1
  <2>2. ASSUME NEW j \in 1 .. Len(list) - 1, j >= i
        PROVE  /\ at(j) = j + 1 /\ j + 1 \in DOMAIN list \ {i}
               /\ rest[j] = list[j + 1]
    <3>1. at(j) = j + 1 /\ j + 1 \in DOMAIN list \ {i}
      BY <1>1, <2>2
    <3>2. rest[j] = list[j + 1]
      BY <1>2, <2>2, Zenon
    <3> QED BY <3>1, <3>2
  <2>3. \A j \in 1 .. Len(list) - 1 : j < i \/ j >= i
    BY <1>1
  <2> HIDE DEF at
  <2> QED BY <2>1, <2>2, <2>3
<1>5. \A j, k \in 1 .. Len(list) - 1 : at(j) = at(k) => j = k
  BY <1>1
<1>6. \A k \in DOMAIN list \ {i} : \E j \in 1 .. Len(list) - 1 : at(j) = k
  <2>1. ASSUME NEW k \in DOMAIN list, k < i
        PROVE  k \in 1 .. Len(list) - 1 /\ at(k) = k
    BY <1>1, <2>1
  <2>2. ASSUME NEW k \in DOMAIN list, k > i
        PROVE  k - 1 \in 1 .. Len(list) - 1 /\ at(k - 1) = k
    BY <1>1, <2>2
  <2>3. \A k \in DOMAIN list \ {i} : k < i \/ k > i
    BY <1>1
  <2> QED BY <2>1, <2>2, <2>3
<1> HIDE DEF at
<1>7. Distinct(rest)
  <2>1. ASSUME NEW j \in 1 .. Len(list) - 1, NEW k \in 1 .. Len(list) - 1,
               rest[j] = rest[k]
        PROVE  j = k
    <3>1. at(j) \in DOMAIN list /\ at(k) \in DOMAIN list
          /\ list[at(j)] = list[at(k)]
      BY <1>4, <2>1
    <3>2. at(j) = at(k)
      BY <3>1 DEF Distinct
    <3> QED BY <1>5, <3>2
  <2> QED BY <1>3, <2>1, Zenon DEF Distinct
<1>8. ASSUME NEW j \in 1 .. Len(list) - 1
      PROVE  rest[j] \in Ids(list) \ {list[i]}
  BY <1>4 DEF Ids, Distinct
<1>9. ASSUME NEW k \in DOMAIN list \ {i}
      PROVE  list[k] \in Ids(rest)
  BY <1>3, <1>4, <1>6 DEF Ids
<1>10. Ids(list) = Ids(rest) \union {list[i]} /\ list[i] \notin Ids(rest)
  BY <1>1, <1>3, <1>8, <1>9 DEF Ids
<1> QED BY <1>0, <1>7, <1>10

-----------------------------------------------------------------------------
(* The steps that move a message.                                          *)

\* A message stays where it was when no set it can be in changes.
LEMMA FateKept ==
  ASSUME FatesSpread, Distinct(nextTurn), Distinct(nextStep),
         UNCHANGED <<inbox, batch, sent, logged, discarded, dropped>>
  PROVE  FatesSpread' /\ Distinct(nextTurn)' /\ Distinct(nextStep)'
BY DEF FatesSpread, Ids, Distinct, inbox

\* A sent message is new, and is pending in one list.
LEMMA FateSend ==
  ASSUME TypeOK, FateInv, NEW msg \in Msg, NEW to, NEW wakeup,
         Send(msg, to, wakeup)
  PROVE  FateInv'
<1>1. /\ msg \notin sent /\ sent' = sent \union {msg}
      /\ \/ nextTurn' = Append(nextTurn, msg) /\ nextStep' = nextStep
         \/ nextStep' = Append(nextStep, msg) /\ nextTurn' = nextTurn
      /\ UNCHANGED <<pc, decision, batch, logged, discarded, dropped>>
  BY DEF Send, driver
<1>2. nextTurn \in Seq(Msg) /\ nextStep \in Seq(Msg)
  BY DEF TypeOK
<1>3. msg \notin Ids(nextTurn) /\ msg \notin Ids(nextStep)
  BY <1>1 DEF FateInv, FatesSpread, Spread
<1>4. CASE nextTurn' = Append(nextTurn, msg) /\ nextStep' = nextStep
  <2>1. /\ Ids(nextTurn)' = Ids(nextTurn) \union {msg}
        /\ Distinct(nextTurn)'
    <3>1. /\ Ids(Append(nextTurn, msg)) = Ids(nextTurn) \union {msg}
          /\ Distinct(Append(nextTurn, msg))
      BY <1>2, <1>3, IdsOfAppend, DistinctAppend DEF FateInv
    <3> QED BY <1>4, <3>1 DEF Ids, Distinct
  <2>2. Ids(nextStep)' = Ids(nextStep) /\ Distinct(nextStep)'
    BY <1>4 DEF Ids, Distinct, FateInv
  <2>3. FatesSpread'
    BY <1>1, <1>3, <2>1, <2>2 DEF FateInv, FatesSpread, Spread
  <2> QED BY <1>1, <2>1, <2>2, <2>3 DEF FateInv, BatchAtPlace
<1>5. CASE nextStep' = Append(nextStep, msg) /\ nextTurn' = nextTurn
  <2>1. /\ Ids(nextStep)' = Ids(nextStep) \union {msg}
        /\ Distinct(nextStep)'
    <3>1. /\ Ids(Append(nextStep, msg)) = Ids(nextStep) \union {msg}
          /\ Distinct(Append(nextStep, msg))
      BY <1>2, <1>3, IdsOfAppend, DistinctAppend DEF FateInv
    <3> QED BY <1>5, <3>1 DEF Ids, Distinct
  <2>2. Ids(nextTurn)' = Ids(nextTurn) /\ Distinct(nextTurn)'
    BY <1>5 DEF Ids, Distinct, FateInv
  <2>3. FatesSpread'
    BY <1>1, <1>3, <2>1, <2>2 DEF FateInv, FatesSpread, Spread
  <2> QED BY <1>1, <2>1, <2>2, <2>3 DEF FateInv, BatchAtPlace
<1> QED BY <1>1, <1>4, <1>5

\* A removed message goes from its list to the discarded ones.
LEMMA FateRemove ==
  ASSUME TypeOK, FateInv, RemovePending
  PROVE  FateInv'
<1>1. /\ \/ Remove(nextTurn, nextTurn') /\ nextStep' = nextStep
         \/ Remove(nextStep, nextStep') /\ nextTurn' = nextTurn
      /\ UNCHANGED <<pc, decision, batch, sent, logged, dropped>>
  BY DEF RemovePending, driver
<1>2. nextTurn \in Seq(Msg) /\ nextStep \in Seq(Msg)
  BY DEF TypeOK
<1>3. CASE Remove(nextTurn, nextTurn') /\ nextStep' = nextStep
  <2>1. PICK msg : /\ discarded' = discarded \union {msg}
                   /\ Distinct(nextTurn')
                   /\ Ids(nextTurn) = Ids(nextTurn') \union {msg}
                   /\ msg \notin Ids(nextTurn')
    BY <1>2, <1>3, RemoveTakesOne DEF FateInv
  <2>2. Distinct(nextTurn)' /\ Ids(nextTurn)' = Ids(nextTurn')
    BY <2>1 DEF Ids, Distinct
  <2>3. Ids(nextStep)' = Ids(nextStep) /\ Distinct(nextStep)'
    BY <1>3 DEF Ids, Distinct, FateInv
  <2>4. FatesSpread'
    BY <1>1, <2>1, <2>2, <2>3 DEF FateInv, FatesSpread, Spread
  <2> QED BY <1>1, <2>2, <2>3, <2>4 DEF FateInv, BatchAtPlace
<1>4. CASE Remove(nextStep, nextStep') /\ nextTurn' = nextTurn
  <2>1. PICK msg : /\ discarded' = discarded \union {msg}
                   /\ Distinct(nextStep')
                   /\ Ids(nextStep) = Ids(nextStep') \union {msg}
                   /\ msg \notin Ids(nextStep')
    BY <1>2, <1>4, RemoveTakesOne DEF FateInv
  <2>2. Distinct(nextStep)' /\ Ids(nextStep)' = Ids(nextStep')
    BY <2>1 DEF Ids, Distinct
  <2>3. Ids(nextTurn)' = Ids(nextTurn) /\ Distinct(nextTurn)'
    BY <1>4 DEF Ids, Distinct, FateInv
  <2>4. FatesSpread'
    BY <1>1, <2>1, <2>2, <2>3 DEF FateInv, FatesSpread, Spread
  <2> QED BY <1>1, <2>2, <2>3, <2>4 DEF FateInv, BatchAtPlace
<1> QED BY <1>1, <1>3, <1>4

\* A cancel that does not keep the inbox discards all that is pending.
LEMMA FateCancel ==
  ASSUME FateInv, NEW cause, NEW keepInbox \in BOOLEAN, Cancel(cause, keepInbox)
  PROVE  FateInv'
<1>1. UNCHANGED <<pc, decision, batch, sent, logged, dropped>>
  BY DEF Cancel, driver
<1>2. CASE keepInbox
  <2>1. UNCHANGED <<inbox, discarded>>
    BY <1>2 DEF Cancel
  <2> QED BY <1>1, <2>1, FateKept DEF FateInv, BatchAtPlace
<1>3. CASE ~keepInbox
  <2>1. /\ nextTurn' = <<>> /\ nextStep' = <<>>
        /\ discarded' = discarded \union Pending
    BY <1>3 DEF Cancel
  <2>2. /\ Ids(nextTurn)' = {} /\ Ids(nextStep)' = {}
        /\ Distinct(nextTurn)' /\ Distinct(nextStep)'
    BY <2>1 DEF Ids, Distinct
  <2>3. FatesSpread'
    BY <1>1, <2>1, <2>2 DEF FateInv, FatesSpread, Spread, Pending
  <2> QED BY <1>1, <2>2, <2>3 DEF FateInv, BatchAtPlace
<1> QED BY <1>2, <1>3

\* A claim takes what it claims out of the lists, and overwrites no batch.
LEMMA FateClaim ==
  ASSUME TypeOK, FateInv, Claim
  PROVE  FateInv'
<1>1. /\ pc = "top"
      /\ UNCHANGED <<sent, logged, discarded, dropped, decision>>
  BY DEF Claim, callers
<1>2. batch = {}
  BY <1>1 DEF FateInv, BatchAtPlace
<1>3. CASE IsAborted
  <2>1. pc' = "catch" /\ UNCHANGED <<batch, inbox>>
    BY <1>3 DEF Claim, Throw
  <2> QED BY <1>1, <1>2, <2>1, FateKept DEF FateInv, BatchAtPlace
<1>4. CASE ~IsAborted
  <2>1. pc' = "preStep" /\ nextStep' = <<>>
    BY <1>4 DEF Claim
  <2>2. Ids(nextStep)' = {} /\ Distinct(nextStep)'
    BY <2>1 DEF Ids, Distinct
  <2>3. CASE target = "next-turn" /\ nextTurn # <<>>
    <3>1. /\ nextTurn' = Tail(nextTurn)
          /\ batch' = Ids(nextStep) \union {Head(nextTurn)}
      BY <1>4, <2>3 DEF Claim
    <3>2. /\ Distinct(Tail(nextTurn))
          /\ Ids(nextTurn) = Ids(Tail(nextTurn)) \union {Head(nextTurn)}
          /\ Head(nextTurn) \notin Ids(Tail(nextTurn))
      BY <2>3, DistinctTail DEF FateInv, TypeOK
    <3>3. Distinct(nextTurn)' /\ Ids(nextTurn)' = Ids(Tail(nextTurn))
      BY <3>1, <3>2 DEF Ids, Distinct
    <3>4. FatesSpread'
      BY <1>1, <1>2, <2>2, <3>1, <3>2, <3>3 DEF FateInv, FatesSpread, Spread
    <3> QED BY <2>1, <2>2, <3>3, <3>4 DEF FateInv, BatchAtPlace
  <2>4. CASE ~(target = "next-turn" /\ nextTurn # <<>>)
    <3>1. nextTurn' = nextTurn /\ batch' = Ids(nextStep)
      BY <1>4, <2>4 DEF Claim
    <3>2. Distinct(nextTurn)' /\ Ids(nextTurn)' = Ids(nextTurn)
      BY <3>1 DEF Ids, Distinct, FateInv
    <3>3. FatesSpread'
      BY <1>1, <1>2, <2>2, <3>1, <3>2 DEF FateInv, FatesSpread, Spread
    <3> QED BY <2>1, <2>2, <3>2, <3>3 DEF FateInv, BatchAtPlace
  <2> QED BY <2>3, <2>4
<1> QED BY <1>3, <1>4

\* The decision drops what it does not keep; a rejection keeps nothing.
LEMMA FatePreStep ==
  ASSUME FateInv, PreStepReturn
  PROVE  FateInv'
<1>1. /\ UNCHANGED <<inbox, sent, logged, discarded>>
      /\ pc = "preStep"
  BY DEF PreStepReturn, callers
<1>2. /\ batch' \subseteq batch
      /\ dropped' = dropped \union (batch \ batch')
      /\ \/ pc' = "catch" /\ batch' = {}
         \/ pc' = "decided" /\ decision' = "reject" /\ batch' = {}
         \/ pc' = "decided" /\ decision' = "empty" /\ batch' = {}
         \/ pc' = "decided" /\ decision' = "enter"
  BY DEF PreStepReturn, Throw
<1>3. /\ Ids(nextTurn)' = Ids(nextTurn) /\ Ids(nextStep)' = Ids(nextStep)
      /\ Distinct(nextTurn)' /\ Distinct(nextStep)'
  BY <1>1 DEF Ids, Distinct, FateInv, inbox
<1>4. FatesSpread'
  BY <1>1, <1>2, <1>3 DEF FateInv, FatesSpread, Spread
<1> QED BY <1>2, <1>3, <1>4 DEF FateInv, BatchAtPlace

\* The batch becomes a step, or is dropped with the aborted turn.
LEMMA FateStepStart ==
  ASSUME FateInv, StepStart
  PROVE  FateInv'
<1>1. UNCHANGED <<inbox, sent, discarded>> /\ pc = "decided"
  BY DEF StepStart, callers
<1>2. /\ Ids(nextTurn)' = Ids(nextTurn) /\ Ids(nextStep)' = Ids(nextStep)
      /\ Distinct(nextTurn)' /\ Distinct(nextStep)'
  BY <1>1 DEF Ids, Distinct, FateInv, inbox
<1>3. /\ pc' # "decided" /\ batch' = {}
      /\ \/ batch = {} /\ UNCHANGED <<logged, dropped>>
         \/ dropped' = dropped \union batch /\ logged' = logged
         \/ logged' = logged \union batch /\ dropped' = dropped
  <2>1. CASE Rejects \/ Settles
    <3>1. batch = {}
      BY <1>1, <2>1 DEF Rejects, Settles, FateInv, BatchAtPlace
    <3>2. pc' = "turnEnd" /\ UNCHANGED <<batch, logged, dropped>>
      BY <2>1 DEF StepStart
    <3> QED BY <3>1, <3>2
  <2>2. CASE ~Rejects /\ ~Settles /\ IsAborted
    BY <2>2 DEF StepStart, Throw
  <2>3. CASE ~Rejects /\ ~Settles /\ ~IsAborted
    BY <2>3 DEF StepStart
  <2> QED BY <2>1, <2>2, <2>3
<1>4. FatesSpread'
  BY <1>1, <1>2, <1>3 DEF FateInv, FatesSpread, Spread
<1> QED BY <1>2, <1>3, <1>4 DEF FateInv, BatchAtPlace

\* The driver's other steps move no message and come from places without a
\* batch; the others that start a driver find it off.
LEMMA FateElsewhere ==
  ASSUME FateInv, PhaseAtPlace,
         \/ TurnStart \/ Request \/ ModelReturns \/ RetryReturns \/ ToolsReturn
         \/ StepEnd \/ AfterStep \/ StoppingReturns \/ Catch \/ TurnEnd
         \/ TurnReturns \/ KickExit \/ Replay \/ Settle \/ Deliver
         \/ StartMaintenance \/ EndMaintenance \/ WhenIdle \/ WaiterResume
         \/ UNCHANGED vars
  PROVE  FateInv'
<1> USE DEF callers, driver, inbox, waiting, history
<1>1. UNCHANGED <<inbox, sent, logged, discarded, dropped>> /\ UNCHANGED batch
  <2>1. CASE \/ TurnStart \/ Request \/ ModelReturns \/ RetryReturns
             \/ ToolsReturn \/ StepEnd \/ AfterStep \/ StoppingReturns \/ Catch
             \/ TurnEnd \/ TurnReturns \/ KickExit \/ Settle
    BY <2>1 DEF TurnStart, Request, ModelReturns, RetryReturns, ToolsReturn,
       StepEnd, AfterStep, StoppingReturns, Catch, TurnEnd, TurnReturns,
       KickExit, Settle
  <2>2. CASE Replay \/ Deliver \/ EndMaintenance
    BY <2>2 DEF Replay, Deliver, EndMaintenance, wakeDriver, Start, Latch
  <2>3. CASE StartMaintenance \/ WhenIdle \/ WaiterResume \/ UNCHANGED vars
    BY <2>3 DEF StartMaintenance, WhenIdle, WaiterResume, vars
  <2> QED BY <2>1, <2>2, <2>3
<1>2. BatchAtPlace'
  <2>1. CASE \/ TurnStart \/ Request \/ ModelReturns \/ RetryReturns
             \/ ToolsReturn \/ StepEnd \/ AfterStep \/ StoppingReturns \/ Catch
             \/ TurnEnd \/ TurnReturns \/ KickExit
    <3>1. pc \notin {"preStep", "decided"} /\ pc' # "decided"
      BY <2>1 DEF TurnStart, Request, ModelReturns, RetryReturns, ToolsReturn,
         StepEnd, AfterStep, StoppingReturns, Catch, TurnEnd, TurnReturns,
         KickExit, Throw, StepThrows, StepReturns, NextStep
    <3> QED BY <1>1, <3>1 DEF FateInv, BatchAtPlace
  <2>2. CASE Replay \/ Deliver \/ EndMaintenance
    <3>1. \/ UNCHANGED <<pc, decision>>
          \/ phase.kind # "running" /\ pc' = "enter"
      BY <2>2 DEF Replay, Deliver, EndMaintenance, wakeDriver, Start, Latch, IsIdle
    <3> QED BY <1>1, <3>1 DEF FateInv, BatchAtPlace, PhaseAtPlace
  <2>3. CASE \/ Settle \/ StartMaintenance \/ WhenIdle \/ WaiterResume
             \/ UNCHANGED vars
    <3>1. UNCHANGED <<pc, decision, batch>>
      BY <2>3 DEF Settle, StartMaintenance, WhenIdle, WaiterResume, vars
    <3> QED BY <3>1 DEF FateInv, BatchAtPlace
  <2> QED BY <2>1, <2>2, <2>3
<1> QED BY <1>1, <1>2, FateKept DEF FateInv

-----------------------------------------------------------------------------
(* The theorem.                                                            *)

LEMMA FateInit == Init => FateInv
<1> SUFFICES ASSUME Init PROVE FateInv
  OBVIOUS
<1>1. Ids(nextTurn) = {} /\ Ids(nextStep) = {}
  BY IdsOfEmpty DEF Init
<1>2. FatesSpread
  BY <1>1 DEF Init, FatesSpread, Spread
<1> QED BY <1>2, DistinctEmpty DEF Init, FateInv, BatchAtPlace

LEMMA FateStep == TypeOK /\ PhaseAtPlace /\ FateInv /\ [Next]_vars => FateInv'
<1> SUFFICES ASSUME TypeOK, PhaseAtPlace, FateInv, [Next]_vars PROVE FateInv'
  OBVIOUS
<1>1. CASE Claim
  BY <1>1, FateClaim
<1>2. CASE PreStepReturn
  BY <1>2, FatePreStep
<1>3. CASE StepStart
  BY <1>3, FateStepStart
<1>4. ASSUME NEW msg \in Msg, NEW to, NEW wakeup, Send(msg, to, wakeup)
      PROVE  FateInv'
  BY <1>4, FateSend
<1>5. CASE RemovePending
  BY <1>5, FateRemove
<1>6. ASSUME NEW cause \in Cause, NEW keepInbox \in BOOLEAN,
             Cancel(cause, keepInbox)
      PROVE  FateInv'
  BY <1>6, FateCancel
<1>7. CASE \/ TurnStart \/ Request \/ ModelReturns \/ RetryReturns \/ ToolsReturn
           \/ StepEnd \/ AfterStep \/ StoppingReturns \/ Catch \/ TurnEnd
           \/ TurnReturns \/ KickExit \/ Replay \/ Settle \/ Deliver
           \/ StartMaintenance \/ EndMaintenance \/ WhenIdle \/ WaiterResume
           \/ UNCHANGED vars
  BY <1>7, FateElsewhere
<1> QED
  BY <1>1, <1>2, <1>3, <1>4, <1>5, <1>6, <1>7 DEF Next, Driver, Callers,
     followup, steer, inject

\* The six fates of OneFate are those of Spread.
LEMMA SpreadIsOneFate ==
  ASSUME FateInv PROVE OneFate
<1> DEFINE fates == <<Ids(nextTurn), Ids(nextStep), batch, logged, discarded, dropped>>
<1>1. /\ DOMAIN fates = {1, 2, 3, 4, 5, 6}
      /\ fates[1] = Ids(nextTurn) /\ fates[2] = Ids(nextStep) /\ fates[3] = batch
      /\ fates[4] = logged /\ fates[5] = discarded /\ fates[6] = dropped
  OBVIOUS
<1>2. sent = fates[1] \union fates[2] \union fates[3] \union fates[4]
               \union fates[5] \union fates[6]
  BY <1>1 DEF FateInv, FatesSpread, Spread
<1>3. /\ fates[1] \intersect fates[2] = {} /\ fates[1] \intersect fates[3] = {}
      /\ fates[1] \intersect fates[4] = {} /\ fates[1] \intersect fates[5] = {}
      /\ fates[1] \intersect fates[6] = {} /\ fates[2] \intersect fates[3] = {}
      /\ fates[2] \intersect fates[4] = {} /\ fates[2] \intersect fates[5] = {}
      /\ fates[2] \intersect fates[6] = {} /\ fates[3] \intersect fates[4] = {}
      /\ fates[3] \intersect fates[5] = {} /\ fates[3] \intersect fates[6] = {}
      /\ fates[4] \intersect fates[5] = {} /\ fates[4] \intersect fates[6] = {}
      /\ fates[5] \intersect fates[6] = {}
  BY <1>1 DEF FateInv, FatesSpread, Spread
<1> HIDE DEF fates
<1>4. sent = UNION {fates[i] : i \in DOMAIN fates}
  BY <1>1, <1>2
<1>5. \A i, j \in DOMAIN fates : i # j => fates[i] \intersect fates[j] = {}
  BY <1>1, <1>3
<1> QED BY <1>4, <1>5 DEF OneFate, FateInv, Distinct, fates

\* Whatever is sent, claimed, aborted, cleared, removed or replayed in whatever
\* order, each message is pending once, claimed, run, discarded or dropped.
THEOREM OneFateHolds == Spec => []OneFate
<1>1. IInv => TypeOK /\ PhaseAtPlace
  BY DEF IInv
<1>2. FateInv => OneFate
  BY SpreadIsOneFate
<1> QED BY <1>1, <1>2, FateInit, FateStep, Invariance, PTL DEF Spec
=============================================================================
