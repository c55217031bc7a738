----------------------------- MODULE AgentDriver -----------------------------
(***************************************************************************)
(* One ReactLoopAgent (packages/core/agent-loop/src/agent.ts) with its     *)
(* Inbox (packages/core/agent/src/inbox.ts): a single-threaded driver that *)
(* opens turns and steps over queued messages, while callers send, cancel, *)
(* dispose and run maintenance between any two of its awaits.              *)
(*                                                                         *)
(* An action runs from one suspension point of the driver to the next.  A  *)
(* suspension point is an await, or a publication whose synchronous        *)
(* listeners may call back into the agent.  pc names where the driver is:  *)
(*                                                                         *)
(*   off       no kick() is running                                        *)
(*   enter     turn() is about to run                                      *)
(*   top       head of the step loop, before a claim                       *)
(*   preStep   awaiting prompt assembly and the pre-step listeners         *)
(*   decided   preStep() returned, turn() not resumed yet                  *)
(*   open      step/start and its user messages are logged                 *)
(*   model     awaiting the request or its stream                          *)
(*   retry     awaiting the agent/request-error listeners                  *)
(*   tools     awaiting executeToolCalls (module ToolCalls)                *)
(*   close     the step body settled, step/end is due                      *)
(*   after     step/end is logged                                          *)
(*   stopping  awaiting the agent/turn-stopping listeners                  *)
(*   catch     an exception is on its way out of the turn                  *)
(*   turnEnd   the outcome is assigned, turn/end is due                    *)
(*   ended     turn/end is logged, the queue is not looked at yet          *)
(*   exit      turn() is over, kick()'s finally is a microtask away        *)
(***************************************************************************)
EXTENDS Naturals, Sequences

CONSTANTS
  Msg,        \* message identities; each is sent at most once
  MaxStep     \* bound: a step past it is not entered for context alone, and
              \* its tool round concludes the turn

ASSUME MaxStepAssumption == MaxStep \in Nat

VARIABLES
  phase,      \* ReactLoopAgent.phase
  pc,         \* see above
  ends,       \* turn()'s turnEnds; "thrown" while an exception is in flight
  target,     \* turn()'s target: the boundary the next claim is for
  decision,   \* what preStep() returned
  batch,      \* messages claimed for the proposed step
  nextTurn, nextStep,  \* the two pending lists of the inbox
  trace,      \* what the session log says is open
  delivering, \* a send() between its insertion and its wakeDriver()
  replaying,  \* kick()'s finally between going idle and replaying the latch
  done,       \* the present activityDone promise is fulfilled
  waiter,     \* one whenIdle() call
  sent, logged, discarded, dropped, \* history: where each message went
  owed,       \* history: late wakes whose turn boundary has not come yet
  parked,     \* history: work a keepInbox abort left pending, until a wake
  overrun,    \* history: a step of the present turn hit max-tokens
  teardown    \* history: the present activity was told to dispose

driver  == <<pc, ends, target, decision, batch>>
inbox   == <<nextTurn, nextStep>>
history == <<sent, logged, discarded, dropped, owed, parked, overrun, teardown>>
waiting == <<done, waiter>>
vars == <<phase, driver, inbox, trace, delivering, replaying, waiting, history>>

Log == INSTANCE SessionTrace WITH Call <- {}, trace <- trace

\* The abort reason of an activity: not aborted, or its first cancel's cause.
Cause == {"user", "disposed"}
Abort == {"no"} \union Cause

Phase == [kind : {"idle", "maintenance", "running"}, abort : Abort,
          turn : Nat, step : Nat, wake : BOOLEAN]

Ends == {"none", "completed", "max-tokens", "blocked", "aborted", "error",
         "thrown"}
Target == {"next-turn", "next-step"}

\* A PreStepDecision: whether it rejects, and whether its messages are empty.
Decision == {"none", "reject", "empty", "enter"}

Place == {"off", "enter", "top", "preStep", "decided", "open", "model", "retry",
          "tools", "close", "after", "stopping", "catch", "turnEnd", "ended",
          "exit"}

Ids(list) == {list[i] : i \in DOMAIN list}
Pending == Ids(nextTurn) \union Ids(nextStep)
HasPending == nextTurn # <<>> \/ nextStep # <<>>

IsIdle == phase.kind = "idle"
IsAborted == phase.abort # "no"

IdlePhase(turn) ==
  [kind |-> "idle", abort |-> "no", turn |-> turn, step |-> 0, wake |-> FALSE]

RunningPhase(turn) ==
  [kind |-> "running", abort |-> "no", turn |-> turn, step |-> 0, wake |-> FALSE]

MaintenancePhase(turn) ==
  [kind |-> "maintenance", abort |-> "no", turn |-> turn, step |-> 0,
   wake |-> FALSE]

Init ==
  /\ phase = IdlePhase(0)
  /\ pc = "off" /\ ends = "none" /\ target = "next-turn"
  /\ decision = "none" /\ batch = {}
  /\ nextTurn = <<>> /\ nextStep = <<>>
  /\ trace = Log!FreshTrace
  /\ delivering = "no" /\ replaying = FALSE
  /\ done = TRUE /\ waiter = "none"
  /\ sent = {} /\ logged = {} /\ discarded = {} /\ dropped = {}
  /\ owed = {} /\ parked = {} /\ overrun = FALSE /\ teardown = FALSE

-----------------------------------------------------------------------------
(* Who may run when.                                                       *)

\* Another task runs only where the driver awaits; a listener runs where a
\* status change, a claim or an agent/error notifies it.
Outside ==
  \/ pc \in {"off", "enter", "preStep", "decided", "model", "retry", "tools",
             "close", "stopping", "catch", "exit"}
  \/ pc = "turnEnd" /\ ends = "error"

\* A session/event listener runs inside append(), which refuses to be
\* re-entered: it may abort the signal, but neither send nor discard.
InsideAppend == pc \in {"top", "open", "after", "ended"}

\* The driver's own code runs up to its next await without yielding ...
Active == phase.kind = "running" /\ delivering = "no"

\* ... and an await resumes only when no caller's frame is open.
Resumed == Active /\ ~replaying

-----------------------------------------------------------------------------
(* wakeDriver: start a driver, or latch the wake behind an activity that   *)
(* cannot deliver it.                                                      *)

Start ==
  /\ phase' = RunningPhase(phase.turn)
  /\ pc' = "enter"
  /\ done' = FALSE
  /\ waiter' = IF waiter = "current" THEN "stale" ELSE waiter
  /\ owed' = {} /\ teardown' = FALSE
  /\ UNCHANGED <<ends, target, decision, batch, overrun>>

\* Mutant of Latch: only a maintenance activity latches a wake.
Latch_maintenanceOnly(wakeAfterAbort) ==
  /\ phase' = [phase EXCEPT !.wake =
       @ \/ (phase.abort # "disposed" /\ phase.kind = "maintenance")]
  /\ UNCHANGED <<driver, waiting, owed, overrun, teardown>>

Latch(wakeAfterAbort) ==
  /\ phase' = [phase EXCEPT !.wake =
       \/ @
       \/ /\ phase.abort # "disposed"
          /\ phase.kind = "maintenance" \/ wakeAfterAbort]
  /\ UNCHANGED <<driver, waiting, owed, overrun, teardown>>

wakeDriver(wakeAfterAbort) ==
  \/ IsIdle /\ Start
  \/ ~IsIdle /\ Latch(wakeAfterAbort)

-----------------------------------------------------------------------------
(* Callers.                                                                *)

\* send, up to the return of inbox.splice; its listeners may cancel.
Send(msg, to, wakeup) ==
  LET late == wakeup /\ ~IsIdle /\ IsAborted
      resolved == IF late THEN "next-turn" ELSE to
  IN  /\ Outside /\ delivering = "no"
      /\ msg \notin sent
      /\ IF resolved = "next-turn"
         THEN nextTurn' = Append(nextTurn, msg) /\ UNCHANGED nextStep
         ELSE nextStep' = Append(nextStep, msg) /\ UNCHANGED nextTurn
      /\ sent' = sent \union {msg}
      /\ delivering' = IF ~wakeup THEN "no" ELSE IF late THEN "late" ELSE "live"
      /\ owed' = IF /\ wakeup /\ phase.abort # "disposed"
                    /\ late \/ phase.kind = "maintenance"
                 THEN owed \union {msg} ELSE owed
      /\ parked' = IF wakeup THEN {} ELSE parked
      /\ UNCHANGED <<phase, driver, trace, replaying, waiting, logged, discarded,
                     dropped, overrun, teardown>>

followup(msg) == Send(msg, "next-turn", TRUE)
steer(msg)    == Send(msg, "next-step", TRUE)
inject(msg)   == Send(msg, "next-step", FALSE)

\* The rest of send: a waking send reaches wakeDriver.
Deliver ==
  /\ delivering # "no"
  /\ delivering' = "no"
  /\ wakeDriver(delivering = "late")
  /\ UNCHANGED <<inbox, trace, replaying, sent, logged, discarded, dropped,
                 parked>>

\* Mutant of Remove: the message behind the located one is taken out.
Remove_offByOne(list, rest) ==
  \E i \in DOMAIN list :
    /\ rest = SubSeq(list, 1, i) \o SubSeq(list, i + 2, Len(list))
    /\ discarded' = discarded \union {list[i]}

\* inbox.remove: the queue's owner takes one message back.
Remove(list, rest) ==
  \E i \in DOMAIN list :
    /\ rest = SubSeq(list, 1, i - 1) \o SubSeq(list, i + 1, Len(list))
    /\ discarded' = discarded \union {list[i]}

RemovePending ==
  /\ Outside /\ delivering = "no"
  /\ \/ Remove(nextTurn, nextTurn') /\ UNCHANGED nextStep
     \/ Remove(nextStep, nextStep') /\ UNCHANGED nextTurn
  /\ UNCHANGED <<phase, driver, trace, delivering, replaying, waiting, sent,
                 logged, dropped, owed, parked, overrun, teardown>>

\* cancel.  Clearing a non-empty inbox appends to the log, so a listener
\* inside an append gets no further than that; teardown never keeps.
Cancel(cause, keepInbox) ==
  /\ Outside \/ (InsideAppend /\ (keepInbox \/ ~HasPending))
  /\ keepInbox => cause # "disposed"
  /\ IF keepInbox
     THEN UNCHANGED <<inbox, discarded>>
     ELSE /\ nextTurn' = <<>> /\ nextStep' = <<>>
          /\ discarded' = discarded \union Pending
  /\ phase' = IF IsIdle THEN phase
              ELSE [phase EXCEPT !.abort = IF @ = "no" THEN cause ELSE @,
                                 !.wake = @ /\ keepInbox]
  /\ parked' = IF keepInbox /\ phase.kind = "running" /\ ~IsAborted
                  /\ pc \notin {"decided", "ended"}
               THEN Pending ELSE parked
  /\ teardown' = (teardown \/ (cause = "disposed" /\ ~IsIdle))
  /\ UNCHANGED <<driver, trace, delivering, replaying, waiting, sent, logged,
                 dropped, owed, overrun>>

StartMaintenance ==
  /\ IsIdle /\ pc = "off" /\ delivering = "no"
  /\ phase' = MaintenancePhase(phase.turn)
  /\ done' = FALSE
  /\ waiter' = IF waiter = "current" THEN "stale" ELSE waiter
  /\ UNCHANGED <<driver, inbox, trace, delivering, replaying, history>>

\* The job settled: back to idle, and the latched wake is replayed.
EndMaintenance ==
  /\ phase.kind = "maintenance" /\ delivering = "no" /\ ~replaying
  /\ IF phase.wake /\ HasPending
     THEN Start
     ELSE /\ phase' = IdlePhase(phase.turn)
          /\ done' = TRUE
          /\ teardown' = FALSE
          /\ UNCHANGED <<driver, waiter, owed, overrun>>
  /\ UNCHANGED <<inbox, trace, delivering, replaying, sent, logged, discarded,
                 dropped, parked>>

\* whenIdle: await the present activity, and again if another replaced it.
WhenIdle ==
  /\ waiter = "none" /\ waiter' = "current"
  /\ UNCHANGED <<phase, driver, inbox, trace, delivering, replaying, done, history>>

\* Mutant of WaiterResume: the first promise awaited settles the wait.
WaiterResume_once ==
  /\ delivering = "no" /\ ~replaying
  /\ waiter = "stale" \/ (waiter = "current" /\ done)
  /\ waiter' = "none"
  /\ UNCHANGED <<phase, driver, inbox, trace, delivering, replaying, done, history>>

WaiterResume ==
  /\ delivering = "no" /\ ~replaying
  /\ \/ waiter = "stale" /\ waiter' = "current"
     \/ waiter = "current" /\ done /\ waiter' = "none"
  /\ UNCHANGED <<phase, driver, inbox, trace, delivering, replaying, done, history>>

-----------------------------------------------------------------------------
(* The driver: kick, turn, preStep and step.                               *)

callers == <<delivering, replaying, waiting, sent, discarded, parked, teardown>>

\* An exception leaves the step loop for turn()'s catch.
Throw == ends' = "thrown" /\ pc' = "catch"

\* turn: an aborted signal leaves before the turn is opened at all.
TurnStart ==
  /\ Active /\ pc = "enter"
  /\ IF IsAborted
     THEN /\ pc' = "exit"
          /\ UNCHANGED <<phase, ends, target, trace, overrun>>
     ELSE /\ trace' = Log!OpenTurn(trace, phase.turn + 1)
          /\ phase' = [phase EXCEPT !.turn = @ + 1]
          /\ ends' = "none" /\ target' = "next-turn" /\ pc' = "top"
          /\ overrun' = FALSE
  /\ UNCHANGED <<decision, batch, inbox, callers, logged, dropped, owed>>

\* preStep claims its batch before its first await: all next-step input and,
\* at a turn boundary, one queued turn.
Claim ==
  /\ Active /\ pc = "top"
  /\ IF IsAborted
     THEN Throw /\ UNCHANGED <<batch, inbox>>
     ELSE /\ pc' = "preStep"
          /\ nextStep' = <<>>
          /\ IF target = "next-turn" /\ nextTurn # <<>>
             THEN /\ nextTurn' = Tail(nextTurn)
                  /\ batch' = Ids(nextStep) \union {Head(nextTurn)}
             ELSE /\ UNCHANGED nextTurn
                  /\ batch' = Ids(nextStep)
          /\ UNCHANGED ends
  /\ UNCHANGED <<phase, target, decision, trace, callers, logged, dropped, owed,
                 overrun>>

\* Assembly and the pre-step listeners settle.  They reject, or enter with
\* some of the claimed messages and perhaps context of their own.
PreStepReturn ==
  /\ Resumed /\ pc = "preStep"
  /\ \/ /\ Throw
        /\ batch' = {} /\ dropped' = dropped \union batch
        /\ UNCHANGED decision
     \/ /\ ~IsAborted
        /\ decision' = "reject"
        /\ batch' = {} /\ dropped' = dropped \union batch
        /\ pc' = "decided" /\ UNCHANGED ends
     \/ \E kept \in SUBSET batch, context \in BOOLEAN :
          /\ ~IsAborted
          /\ context => phase.step < MaxStep
          /\ decision' = IF kept = {} /\ ~context THEN "empty" ELSE "enter"
          /\ batch' = kept /\ dropped' = dropped \union (batch \ kept)
          /\ pc' = "decided" /\ UNCHANGED ends
  /\ UNCHANGED <<phase, target, inbox, trace, callers, logged, owed, overrun>>

Rejects == decision = "reject"

\* Nothing more to say: the turn is over, or its first step was emptied.
Settles == decision = "empty" /\ (ends # "none" \/ phase.step = 0)

\* turn acts on the decision.  Only entering a step looks at the signal again.
StepStart ==
  /\ Resumed /\ pc = "decided"
  /\ decision' = "none"
  /\ \/ /\ Rejects
        /\ ends' = "blocked" /\ pc' = "turnEnd"
        /\ UNCHANGED <<phase, batch, trace, logged, dropped>>
     \/ /\ Settles
        /\ ends' = IF ends = "none" THEN "completed" ELSE ends
        /\ pc' = "turnEnd"
        /\ UNCHANGED <<phase, batch, trace, logged, dropped>>
     \/ /\ ~Rejects /\ ~Settles /\ IsAborted
        /\ Throw
        /\ batch' = {} /\ dropped' = dropped \union batch
        /\ UNCHANGED <<phase, trace, logged>>
     \/ /\ ~Rejects /\ ~Settles /\ ~IsAborted
        /\ trace' = Log!OpenStep(trace, phase.step + 1)
        /\ phase' = [phase EXCEPT !.step = @ + 1]
        /\ logged' = logged \union batch /\ batch' = {}
        /\ pc' = "open" /\ UNCHANGED <<ends, dropped>>
  /\ UNCHANGED <<target, inbox, callers, owed, overrun>>

\* step, up to its first request.
Request ==
  /\ Active /\ pc = "open"
  /\ IF IsAborted THEN ends' = "thrown" /\ pc' = "close"
                  ELSE pc' = "model" /\ UNCHANGED ends
  /\ UNCHANGED <<phase, target, decision, batch, inbox, trace, callers, logged,
                 dropped, owed, overrun>>

\* Mutant of StepThrows: the exception skips step/end.
StepThrows_leavesStep == ends' = "thrown" /\ pc' = "catch" /\ UNCHANGED overrun

\* Mutant of StepThrows: an aborted request never settles.
StepThrows_deaf ==
  ~IsAborted /\ ends' = "thrown" /\ pc' = "close" /\ UNCHANGED overrun

StepThrows == ends' = "thrown" /\ pc' = "close" /\ UNCHANGED overrun

\* step returned; max-tokens is sticky, so a later outcome does not replace it.
StepReturns(outcome) ==
  /\ ends' = IF ends = "max-tokens" THEN ends ELSE outcome
  /\ overrun' = (overrun \/ outcome = "max-tokens")
  /\ pc' = "close"

\* The request or its stream settles.
ModelReturns ==
  /\ Resumed /\ pc = "model"
  /\ \/ StepThrows
     \/ /\ ~IsAborted
        /\ \/ pc' \in {"retry", "tools"} /\ UNCHANGED <<ends, overrun>>
           \/ \E outcome \in {"completed", "max-tokens"} : StepReturns(outcome)
  /\ UNCHANGED <<phase, target, decision, batch, inbox, trace, callers, logged,
                 dropped, owed>>

\* Mutant of RetryReturns: the signal is not looked at before the retry.
RetryReturns_deaf ==
  /\ Resumed /\ pc = "retry"
  /\ \/ StepThrows
     \/ pc' = "model" /\ UNCHANGED <<ends, overrun>>
  /\ UNCHANGED <<phase, target, decision, batch, inbox, trace, callers, logged,
                 dropped, owed>>

\* The agent/request-error listeners settle, inside the step that failed.
RetryReturns ==
  /\ Resumed /\ pc = "retry"
  /\ \/ StepThrows
     \/ ~IsAborted /\ pc' = "model" /\ UNCHANGED <<ends, overrun>>
  /\ UNCHANGED <<phase, target, decision, batch, inbox, trace, callers, logged,
                 dropped, owed>>

\* executeToolCalls returns, aborted or not, or fails.  The step concludes the
\* turn or leaves it open; the bound keeps a turn from calling tools forever.
ToolsReturn ==
  /\ Resumed /\ pc = "tools"
  /\ \/ StepThrows
     \/ StepReturns("completed")
     \/ phase.step <= MaxStep /\ StepReturns("none")
  /\ UNCHANGED <<phase, target, decision, batch, inbox, trace, callers, logged,
                 dropped, owed>>

StepEnd ==
  /\ Resumed /\ pc = "close"
  /\ trace' = Log!CloseStep(trace)
  /\ pc' = IF ends = "thrown" THEN "catch" ELSE "after"
  /\ UNCHANGED <<phase, ends, target, decision, batch, inbox, callers, logged,
                 dropped, owed, overrun>>

\* The turn stops unless something is left for another step.
Finished == ends # "none" /\ nextStep = <<>>

NextStep == target' = "next-step" /\ pc' = "top" /\ UNCHANGED ends

AfterStep ==
  /\ Active /\ pc = "after"
  /\ \/ IsAborted /\ Throw /\ UNCHANGED target
     \/ ~IsAborted /\ Finished /\ pc' = "stopping" /\ UNCHANGED <<ends, target>>
     \/ ~IsAborted /\ ~Finished /\ NextStep
  /\ UNCHANGED <<phase, decision, batch, inbox, trace, callers, logged, dropped,
                 owed, overrun>>

\* The agent/turn-stopping listeners settle; they may have steered.
StoppingReturns ==
  /\ Resumed /\ pc = "stopping"
  /\ \/ Throw /\ UNCHANGED target
     \/ ~IsAborted /\ Finished /\ pc' = "turnEnd" /\ UNCHANGED <<ends, target>>
     \/ ~IsAborted /\ ~Finished /\ NextStep
  /\ UNCHANGED <<phase, decision, batch, inbox, trace, callers, logged, dropped,
                 owed, overrun>>

Catch ==
  /\ Active /\ pc = "catch"
  /\ ends' = IF IsAborted THEN "aborted" ELSE "error"
  /\ pc' = "turnEnd"
  /\ UNCHANGED <<phase, target, decision, batch, inbox, trace, callers, logged,
                 dropped, owed, overrun>>

TurnEnd ==
  /\ Active /\ pc = "turnEnd"
  /\ trace' = Log!CloseTurn(trace)
  /\ pc' = "ended"
  /\ UNCHANGED <<phase, ends, target, decision, batch, inbox, callers, logged,
                 dropped, owed, overrun>>

\* Mutant of Leaves: an aborted turn goes on to the queue.
Leaves_notAborted == ends \in {"blocked", "error"} \/ phase.step = 0

\* turn returned from inside its try, or rethrew: the queue is not consulted.
Leaves == ends \in {"blocked", "aborted", "error"} \/ phase.step = 0

\* Pending work continues on a fresh controller, otherwise the driver exits.
TurnReturns ==
  /\ Active /\ pc = "ended"
  /\ ends' = "none" /\ target' = "next-turn" /\ overrun' = FALSE
  /\ IF Leaves \/ ~HasPending
     THEN pc' = "exit" /\ UNCHANGED <<phase, owed>>
     ELSE /\ phase' = RunningPhase(phase.turn)
          /\ pc' = "enter"
          /\ owed' = {}
  /\ UNCHANGED <<decision, batch, inbox, trace, callers, logged, dropped>>

\* Mutant of KickExit: the latch is dropped with the phase that held it.
KickExit_forgets ==
  /\ Resumed /\ pc = "exit"
  /\ phase' = IdlePhase(phase.turn)
  /\ pc' = "off"
  /\ teardown' = FALSE
  /\ UNCHANGED <<ends, target, decision, batch, inbox, trace, delivering,
                 replaying, waiting, sent, logged, discarded, dropped, owed,
                 parked, overrun>>

\* kick's finally: idle first, and status listeners run ...
KickExit ==
  /\ Resumed /\ pc = "exit"
  /\ phase' = IdlePhase(phase.turn)
  /\ pc' = "off"
  /\ replaying' = phase.wake
  /\ teardown' = (teardown /\ phase.wake)
  /\ UNCHANGED <<ends, target, decision, batch, inbox, trace, delivering, waiting,
                 sent, logged, discarded, dropped, owed, parked, overrun>>

\* ... then the latched wake, if the queue still holds work.  A driver that a
\* listener started meanwhile has run to its first await.
Replay ==
  /\ replaying /\ delivering = "no"
  /\ pc \in {"off", "preStep", "exit"}
  /\ replaying' = FALSE
  /\ IF HasPending
     THEN wakeDriver(FALSE)
     ELSE /\ teardown' = FALSE
          /\ UNCHANGED <<phase, driver, waiting, owed, overrun>>
  /\ UNCHANGED <<inbox, trace, delivering, sent, logged, discarded, dropped,
                 parked>>

\* kick() settled and no other activity replaced it: activityDone is fulfilled.
Settle ==
  /\ IsIdle /\ ~replaying /\ delivering = "no"
  /\ ~done /\ done' = TRUE
  /\ UNCHANGED <<phase, driver, inbox, trace, delivering, replaying, waiter,
                 history>>

-----------------------------------------------------------------------------
Driver ==
  \/ TurnStart \/ Claim \/ PreStepReturn \/ StepStart \/ Request \/ ModelReturns
  \/ RetryReturns \/ ToolsReturn \/ StepEnd \/ AfterStep \/ StoppingReturns
  \/ Catch \/ TurnEnd \/ TurnReturns \/ KickExit \/ Replay \/ Settle

Callers ==
  \/ \E msg \in Msg : followup(msg) \/ steer(msg) \/ inject(msg)
  \/ Deliver \/ RemovePending
  \/ \E cause \in Cause, keepInbox \in BOOLEAN : Cancel(cause, keepInbox)
  \/ StartMaintenance \/ EndMaintenance \/ WhenIdle \/ WaiterResume

Next == Driver \/ Callers

Spec == Init /\ [][Next]_vars

\* Every await of the driver settles once its signal is aborted or its work is
\* done, a maintenance job ends, and synchronous frames return.
Fairness == WF_vars(Driver) /\ WF_vars(Deliver) /\ WF_vars(EndMaintenance)

FairSpec == Spec /\ Fairness

-----------------------------------------------------------------------------
\* Every variable stays in its range: the phases, places and outcomes of
\* agent.ts, and lists, batches and histories of messages.
TypeOK ==
  /\ phase \in Phase
  /\ pc \in Place /\ ends \in Ends /\ target \in Target
  /\ decision \in Decision /\ batch \subseteq Msg
  /\ nextTurn \in Seq(Msg) /\ nextStep \in Seq(Msg)
  /\ trace \in Log!Trace
  /\ delivering \in {"no", "live", "late"} /\ replaying \in BOOLEAN
  /\ done \in BOOLEAN /\ waiter \in {"none", "current", "stale"}
  /\ sent \subseteq Msg /\ logged \subseteq Msg /\ discarded \subseteq Msg
  /\ dropped \subseteq Msg /\ owed \subseteq Msg /\ parked \subseteq Msg
  /\ overrun \in BOOLEAN /\ teardown \in BOOLEAN

\* A message identity is in one place: pending once, claimed, run, discarded,
\* or dropped with a batch that never became a step.  Claims, clears, removals,
\* rewrites, aborts and replays lose none and run none twice (inbox.ts claim
\* and clear; agent.ts preStep and turn).
OneFate ==
  LET fates == <<Ids(nextTurn), Ids(nextStep), batch, logged, discarded, dropped>>
  IN  /\ sent = UNION {fates[i] : i \in DOMAIN fates}
      /\ \A i, j \in DOMAIN fates : i # j => fates[i] \intersect fates[j] = {}
      /\ \A i, j \in DOMAIN nextTurn : nextTurn[i] = nextTurn[j] => i = j
      /\ \A i, j \in DOMAIN nextStep : nextStep[i] = nextStep[j] => i = j

\* The driver appends turn and step boundaries only where the session's trace
\* accepts them, whatever aborts, fails, retries or replays (agent.ts turn
\* against session/src/invariant.ts validateEvent).
TraceAccepts == Log!Spec

\* A wake sent to an aborted or a maintenance activity is never left parked:
\* while its message is pending the latch is set, or its replay is under way
\* (agent.ts wakeDriver and the two finally blocks).
LateWakeIsLatched ==
  delivering = "no" /\ owed \intersect Pending # {} => phase.wake \/ replaying

\* An activity whose abort says disposed never latches a wake, so it retires
\* without starting another (agent.ts wakeDriver, reason?.kind !== 'disposed').
DisposedCauseNeverLatches == phase.abort = "disposed" => ~phase.wake

\* What a keepInbox abort left pending is claimed only after a later wake: the
\* aborted turn does not go on to it (agent.ts cancel, turn's throwIfAborted).
\* A cancel that finds the turn decided or already ended is not counted.
ParkedWorkWaits ==
  [][\A msg \in parked : msg \notin batch' \/ msg \in batch]_vars

\* whenIdle() resolves only while no driver and no maintenance task is active,
\* even when a replay or a listener replaced the awaited activity (agent.ts
\* whenIdle, activityDone).
WhenIdleIsQuiet ==
  [][waiter # "none" /\ waiter' = "none" => IsIdle]_vars

\* After an abort no step is opened and no request is made or retried for the
\* turn (agent.ts turn and step, throwIfAborted after each await).
AbortStopsWork ==
  [][IsAborted => /\ trace'.openStep \in {trace.openStep, Log!None}
                  /\ pc' = "model" => pc = "model"]_vars

\* A turn one of whose steps hit the output ceiling is not recorded as
\* completed, however its later steps end (agent.ts, stepEnd is sticky).
OverrunIsKept == pc \in {"turnEnd", "ended"} /\ overrun => ends # "completed"

\* A cancelled driver converges: it goes idle or moves on to a fresh
\* controller (agent.ts turn's catch, kick's finally).  To lead to one's own
\* negation is not to last, which is the form TLC checks fastest.
CancelConverges == []<>~(phase.kind = "running" /\ IsAborted)

\* A latched wake opens a turn boundary unless its queue is emptied first
\* (agent.ts kick and runMaintenance, wakeRequested && hasPending).
LatchedWakeReplays ==
  phase.wake ~> pc = "enter" \/ ~HasPending

-----------------------------------------------------------------------------
(* A claim of the repository that the code does not keep.                  *)

\* "a disposed cancel never latches, so a wake landing after disposal begins
\* stays parked and whenIdle() does not wait on a full model turn": an activity
\* that was told to dispose is not followed by a replayed driver.
DisposalStartsNoDriver ==
  [][teardown /\ pc = "off" => pc' = "off"]_vars
=============================================================================
