---------------------------- MODULE SessionRepair ----------------------------
(***************************************************************************)
(* One session's log across crashes.  The loop appends to the live log     *)
(* (packages/core/agent-loop), write-behind batches reach the store late   *)
(* (packages/session/session-persistence), a tool body starts only behind  *)
(* a checkpoint (packages/session/session-checkpoint-policy), and a load   *)
(* closes whatever turn the crash left open (core/session/src/repair.ts).  *)
(*                                                                         *)
(* The store is a file of frames: complete ones, then perhaps a torn one   *)
(* from which a few complete records can still be decoded.                 *)
(***************************************************************************)
EXTENDS Naturals, SequencesExt

CONSTANTS
  Call,       \* call ids; a provider may reuse one in a later step
  MaxEvents,  \* bound: events the loop appends
  MaxCrashes  \* bound: crashes

ASSUME BoundsAssumption == MaxEvents \in Nat /\ MaxCrashes \in Nat

VARIABLES
  mode,       \* "live"; "down"; "loaded", repaired in memory; "repairing"
  log,        \* the session's events in memory
  trace,      \* what the invariant companion holds of them
  stored,     \* events of complete frames
  torn,       \* is there a torn final frame?
  recovered,  \* events decodable from it
  writing,    \* the batch being written, empty when no write is active
  closers,    \* the synthetic events of the present load
  acked,      \* history: events whose write was acknowledged
  ran,        \* history: tool/call events whose body started
  crashes     \* history

store == <<stored, torn, recovered, writing>>
vars == <<mode, log, trace, store, closers, acked, ran, crashes>>

Log == INSTANCE SessionTrace

-----------------------------------------------------------------------------
(* Events.                                                                 *)

TurnEvent(type, turn) == [type |-> type, turn |-> turn]

StepEvent(type, turn, step) == [type |-> type, turn |-> turn, step |-> step]

\* assistant/message: its tool-call blocks in transcript order.
Message(turn, step, calls) ==
  [type |-> "assistant/message", turn |-> turn, step |-> step, calls |-> calls]

CallEvent(turn, step, call) ==
  [type |-> "tool/call", turn |-> turn, step |-> step, call |-> call]

\* code: "none", or what a repair says of the interrupted call.
ResultEvent(turn, step, call, code) ==
  [type |-> "tool/result", turn |-> turn, step |-> step, call |-> call,
   code |-> code]

\* The trace after an event, as session/src/invariant.ts accepts it.
Applied(tr, event) ==
  CASE event.type = "turn/start"  -> Log!OpenTurn(tr, event.turn)
    [] event.type = "turn/end"    -> Log!CloseTurn(tr)
    [] event.type = "step/start"  -> Log!OpenStep(tr, event.step)
    [] event.type = "step/end"    -> Log!CloseStep(tr)
    [] event.type = "tool/call"   -> Log!AddCall(tr, event.call)
    [] event.type = "tool/result" -> Log!DeleteCall(tr, event.call)
    [] OTHER                      -> tr

Accepts(tr, event) ==
  CASE event.type = "turn/start"  -> Log!CanOpenTurn(tr, event.turn)
    [] event.type = "turn/end"    -> Log!CanCloseTurn(tr, event.turn)
    [] event.type = "step/start"  -> Log!CanOpenStep(tr, event.turn, event.step)
    [] event.type = "tool/result" ->
         Log!CanResult(tr, event.turn, event.step, event.call,
                       event.code = "TOOL_NOT_STARTED")
    [] OTHER -> Log!InOpenStep(tr, event.turn, event.step)

\* The companion's trace of a log.
TraceOf(events) ==
  LET after[n \in 0 .. Len(events)] ==
        IF n = 0 THEN Log!FreshTrace ELSE Applied(after[n - 1], events[n])
  IN  after[Len(events)]

-----------------------------------------------------------------------------
(* interruptedTurnClosers.                                                 *)

Nothing == [turn |-> Log!None, step |-> Log!None, pending |-> <<>>]

\* Map.set keeps the place of a key it already holds.
Requested(pending, call) ==
  LET entry == [call |-> call, started |-> FALSE]
  IN  IF \E i \in DOMAIN pending : pending[i].call = call
      THEN [i \in DOMAIN pending |-> IF pending[i].call = call THEN entry
                                                               ELSE pending[i]]
      ELSE Append(pending, entry)

\* The tool-call blocks of one message.
AllRequested(pending, calls) ==
  LET after[n \in 0 .. Len(calls)] ==
        IF n = 0 THEN pending ELSE Requested(after[n - 1], calls[n])
  IN  after[Len(calls)]

Recorded(pending, call) ==
  [i \in DOMAIN pending |-> [pending[i] EXCEPT !.started = @ \/ pending[i].call = call]]

\* Mutant of Answered: a result does not settle its call.
Answered_never(pending, call) == pending

Answered(pending, call) ==
  IF \E i \in DOMAIN pending : pending[i].call = call
  THEN RemoveAt(pending, CHOOSE i \in DOMAIN pending : pending[i].call = call)
  ELSE pending

\* The scan's cursor after one event.
Scanned(open, event) ==
  CASE event.type = "turn/start" -> [Nothing EXCEPT !.turn = event.turn]
    [] event.type = "turn/end"   -> Nothing
    [] event.type = "step/start" -> [open EXCEPT !.step = event.step]
    [] event.type = "step/end"   -> [open EXCEPT !.step = Log!None, !.pending = <<>>]
    [] event.type = "assistant/message" ->
         [open EXCEPT !.pending = AllRequested(@, event.calls)]
    [] event.type = "tool/call"   -> [open EXCEPT !.pending = Recorded(@, event.call)]
    [] event.type = "tool/result" -> [open EXCEPT !.pending = Answered(@, event.call)]

\* The cursor after a whole log.
Scan(events) ==
  LET after[n \in 0 .. Len(events)] ==
        IF n = 0 THEN Nothing ELSE Scanned(after[n - 1], events[n])
  IN  after[Len(events)]

Closer(turn, step, entry) ==
  ResultEvent(turn, step, entry.call,
              IF entry.started THEN "TOOL_OUTCOME_UNKNOWN" ELSE "TOOL_NOT_STARTED")

\* Mutant of interruptedTurnClosers: the open step is not closed.
interruptedTurnClosers_noStep(events) ==
  LET open == Scan(events)
      results == [i \in DOMAIN open.pending |->
                    Closer(open.turn, open.step, open.pending[i])]
  IN  IF open.turn = Log!None THEN <<>>
      ELSE results \o <<TurnEvent("turn/end", open.turn)>>

interruptedTurnClosers(events) ==
  LET open == Scan(events)
      results == [i \in DOMAIN open.pending |->
                    Closer(open.turn, open.step, open.pending[i])]
      stepEnd == IF open.step = Log!None THEN <<>>
                 ELSE <<StepEvent("step/end", open.turn, open.step)>>
  IN  IF open.turn = Log!None THEN <<>>
      ELSE results \o stepEnd \o <<TurnEvent("turn/end", open.turn)>>

-----------------------------------------------------------------------------
Init ==
  /\ mode = "live"
  /\ log = <<>> /\ trace = Log!FreshTrace
  /\ stored = <<>> /\ torn = FALSE /\ recovered = <<>> /\ writing = <<>>
  /\ closers = <<>>
  /\ acked = <<>> /\ ran = {} /\ crashes = 0

-----------------------------------------------------------------------------
(* The loop appends an event; the order is the driver's.                   *)

Write(event) ==
  /\ mode = "live" /\ Len(log) < MaxEvents
  /\ log' = Append(log, event)
  /\ trace' = Applied(trace, event)
  /\ UNCHANGED <<mode, store, closers, acked, ran, crashes>>

\* The message of the open step, if it is logged, and the calls it requests.
Asked ==
  LET messages == {i \in DOMAIN log :
                     /\ log[i].type = "assistant/message"
                     /\ log[i].turn = trace.openTurn
                     /\ log[i].step = trace.openStep}
  IN  IF messages = {} THEN <<>> ELSE log[CHOOSE i \in messages : TRUE].calls

\* Positions in the log of the open step's events of a type for a call.
Events(type, call) ==
  {i \in DOMAIN log : /\ log[i].type = type /\ log[i].call = call
                      /\ log[i].turn = trace.openTurn
                      /\ log[i].step = trace.openStep}

InTurn == trace.openTurn # Log!None
InStep == trace.openStep # Log!None

TurnStart == ~InTurn /\ Write(TurnEvent("turn/start", trace.nextTurn))

StepStart ==
  /\ InTurn /\ ~InStep
  /\ Write(StepEvent("step/start", trace.openTurn, trace.nextStep))

\* The response of the step's one request, with the calls it makes.
AssistantMessage ==
  /\ InStep /\ log[Len(log)].type = "step/start"
  /\ \E asked \in SUBSET Call :
       /\ IsFiniteSet(asked)
       /\ \E calls \in SetToSeqs(asked) :
            Write(Message(trace.openTurn, trace.openStep, calls))

\* startCall, in model order.
ToolCall ==
  /\ InStep
  /\ \E i \in DOMAIN Asked :
       /\ Events("tool/call", Asked[i]) = {}
       /\ \A j \in 1 .. i - 1 : Events("tool/call", Asked[j]) # {}
       /\ Write(CallEvent(trace.openTurn, trace.openStep, Asked[i]))

\* commitReady, in model order; or, after an abort, a skipped call's result.
ToolResult ==
  /\ InStep
  /\ \E i \in DOMAIN Asked :
       /\ Asked[i] \in trace.pendingCalls
       /\ \A j \in 1 .. i - 1 : Asked[j] \notin trace.pendingCalls
       /\ Write(ResultEvent(trace.openTurn, trace.openStep, Asked[i], "none"))

\* A step may end with calls unanswered, after a scheduler failure.
StepEnd ==
  InStep /\ Write(StepEvent("step/end", trace.openTurn, trace.openStep))

TurnEnd ==
  InTurn /\ ~InStep /\ Write(TurnEvent("turn/end", trace.openTurn))

\* Mutant of RunBody: the body does not wait for the checkpoint.
RunBody_noCheckpoint ==
  /\ mode = "live"
  /\ \E call \in trace.pendingCalls : \E i \in Events("tool/call", call) :
       ran' = ran \union {log[i]}
  /\ UNCHANGED <<mode, log, trace, store, closers, acked, crashes>>

\* A tool body starts: its dispatch awaited a flush after the call was logged.
RunBody ==
  /\ mode = "live"
  /\ \E call \in trace.pendingCalls : \E i \in Events("tool/call", call) :
       i <= Len(acked) /\ ran' = ran \union {log[i]}
  /\ UNCHANGED <<mode, log, trace, store, closers, acked, crashes>>

-----------------------------------------------------------------------------
(* The store.                                                              *)

\* startWrite takes every pending event; a failed write is retried with more.
StartWrite ==
  /\ mode = "live" /\ writing = <<>>
  /\ Len(log) > Len(acked)
  /\ writing' = SubSeq(log, Len(acked) + 1, Len(log))
  /\ UNCHANGED <<mode, log, trace, stored, torn, recovered, closers, acked, ran,
                 crashes>>

\* Mutant of WriteDone: a batch replaces the file it should be appended to.
WriteDone_replaces ==
  /\ writing # <<>>
  /\ stored' = writing /\ writing' = <<>>
  /\ acked' = IF mode = "live" THEN acked \o writing ELSE acked
  /\ mode' = IF mode = "repairing" THEN "down" ELSE mode
  /\ UNCHANGED <<log, trace, torn, recovered, closers, ran, crashes>>

\* appendLines is synced and acknowledged.  A repair's ends with a reload.
WriteDone ==
  /\ writing # <<>>
  /\ stored' = stored \o writing /\ writing' = <<>>
  /\ acked' = IF mode = "live" THEN acked \o writing ELSE acked
  /\ mode' = IF mode = "repairing" THEN "down" ELSE mode
  /\ UNCHANGED <<log, trace, torn, recovered, closers, ran, crashes>>

\* It fails and is rolled back; the batch stays pending, a load fails.
WriteFails ==
  /\ writing # <<>> /\ crashes < MaxCrashes
  /\ writing' = <<>> /\ crashes' = crashes + 1
  /\ mode' = IF mode = "repairing" THEN "down" ELSE mode
  /\ UNCHANGED <<log, trace, stored, torn, recovered, closers, acked, ran>>

\* The process stops.  A write in flight left nothing, a torn frame, whole
\* records (the plain encoding), or its frame complete but unacknowledged.
Crash ==
  /\ mode # "down" /\ crashes < MaxCrashes
  /\ mode' = "down" /\ crashes' = crashes + 1
  /\ log' = <<>> /\ trace' = Log!FreshTrace /\ closers' = <<>> /\ writing' = <<>>
  /\ IF writing = <<>>
     THEN UNCHANGED <<stored, torn, recovered>>
     ELSE \E kept \in 0 .. Len(writing) :
            \/ /\ stored' = stored \o SubSeq(writing, 1, kept)
               /\ UNCHANGED <<torn, recovered>>
            \/ /\ torn' = TRUE /\ recovered' = SubSeq(writing, 1, kept)
               /\ UNCHANGED stored
  /\ UNCHANGED <<acked, ran>>

-----------------------------------------------------------------------------
(* prepareCore and commitPrepared.                                         *)

\* Read, repair in memory, validate: the session is inspectable from here.
Load ==
  /\ mode = "down"
  /\ closers' = interruptedTurnClosers(stored \o recovered)
  /\ log' = stored \o recovered \o closers'
  /\ trace' = TraceOf(log')
  /\ mode' = "loaded"
  /\ UNCHANGED <<store, acked, ran, crashes>>

\* Nothing to repair: the session goes live on the durable log.
GoLive ==
  /\ mode = "loaded" /\ ~torn /\ closers = <<>>
  /\ mode' = "live" /\ acked' = stored
  /\ UNCHANGED <<log, trace, store, closers, ran, crashes>>

\* Mutant of CommitRepair: the torn frame is dropped, the closers are forgotten.
CommitRepair_truncates ==
  /\ mode = "loaded" /\ (torn \/ closers # <<>>)
  /\ torn' = FALSE /\ recovered' = <<>> /\ writing' = <<>>
  /\ mode' = "down"
  /\ UNCHANGED <<log, trace, stored, closers, acked, ran, crashes>>

\* commitRepair drops the torn frame, then writes what was recovered from it
\* together with the closers: two steps, and a crash may fall between them.
CommitRepair ==
  /\ mode = "loaded" /\ (torn \/ closers # <<>>)
  /\ torn' = FALSE /\ recovered' = <<>>
  /\ writing' = recovered \o closers
  /\ mode' = IF writing' = <<>> THEN "down" ELSE "repairing"
  /\ UNCHANGED <<log, trace, stored, closers, acked, ran, crashes>>

Recovery ==
  \/ Load \/ GoLive \/ CommitRepair
  \/ mode = "repairing" /\ WriteDone

Next ==
  \/ TurnStart \/ StepStart \/ AssistantMessage \/ ToolCall \/ ToolResult
  \/ StepEnd \/ TurnEnd \/ RunBody
  \/ StartWrite \/ WriteDone \/ WriteFails \/ Crash
  \/ Load \/ GoLive \/ CommitRepair

Spec == Init /\ [][Next]_vars

\* A load in progress is carried through.
FairSpec == Spec /\ WF_vars(Recovery)

-----------------------------------------------------------------------------
Code == {"none", "TOOL_OUTCOME_UNKNOWN", "TOOL_NOT_STARTED"}

\* The store and the history stay in range; no write runs over a torn frame.
TypeOK ==
  /\ mode \in {"live", "down", "loaded", "repairing"}
  /\ trace \in Log!Trace
  /\ torn \in BOOLEAN /\ (recovered # <<>> => torn)
  /\ writing # <<>> => mode \in {"live", "repairing"} /\ ~torn
  /\ \A i \in DOMAIN log : log[i].type = "tool/result" => log[i].code \in Code
  /\ \A event \in ran : event.type = "tool/call" /\ event.call \in Call
  /\ crashes \in 0 .. MaxCrashes

\* The log of a session, live or rebuilt from any crash point, is accepted
\* event by event, and a load leaves no turn, step or call open (repair.ts
\* interruptedTurnClosers against invariant.ts validateEvent).
RepairBalances ==
  mode = "loaded" =>
    /\ \A i \in DOMAIN log : Accepts(TraceOf(SubSeq(log, 1, i - 1)), log[i])
    /\ trace.openTurn = Log!None /\ trace.openStep = Log!None
    /\ trace.pendingCalls = {}

\* A step that was open when the process stopped ends with exactly one result
\* for each call its message requested, in transcript order, whether the result
\* was stored, recovered or synthesized, and however often the repair itself
\* was interrupted (repair.ts, "providers reject dangling assistant calls").
InterruptedCallsAnswered ==
  \A m, e \in DOMAIN log :
    /\ mode = "loaded" /\ m < e
    /\ log[m].type = "assistant/message" /\ log[e].type = "step/end"
    /\ \A i \in m .. e : log[i].type # "step/end" \/ i = e
    /\ e < Len(log) /\ e > Len(log) - Len(closers)
    => \E at \in [DOMAIN log[m].calls -> m .. e] :
         /\ {i \in m .. e : log[i].type = "tool/result"} = Range(at)
         /\ \A k \in DOMAIN at : log[at[k]].call = log[m].calls[k]
         /\ \A j, k \in DOMAIN at : j < k => at[j] < at[k]

\* A call whose body started is never reported as not started, so the model is
\* not told to retry it (repair.ts, session-checkpoint-policy tools/execute).
RanIsNeverNotStarted ==
  \A event \in ran, i \in DOMAIN log :
    log[i] # ResultEvent(event.turn, event.step, event.call, "TOOL_NOT_STARTED")

\* What a flush acknowledged survives every crash and every interrupted repair,
\* in order and first in the log ("Flushed events are never rewritten",
\* write-behind.ts startWrite, jsonl commitRepair).
AckedSurvives ==
  /\ IsPrefix(acked, stored)
  /\ mode \in {"live", "loaded"} => IsPrefix(stored, log)

\* A load ends in a live session: what a repair writes needs no repair itself,
\* so the reload after it finds nothing left to do (coordinator.ts
\* commitPrepared, which reloads after every repair it commits).
LoadCompletes == mode = "down" ~> mode = "live"
=============================================================================
