---------------------------- MODULE SessionTrace ----------------------------
(***************************************************************************)
(* The order in which core execution events may enter a session log.       *)
(*                                                                         *)
(* packages/core/session/src/invariant.ts keeps one trace per session and  *)
(* vetoes an event that breaks it.  This module is that automaton: the     *)
(* events it accepts are the actions, a veto is an action that is not      *)
(* enabled.  The driver, the tool scheduler and the crash repair append    *)
(* events without asking; each is shown to take only steps of this one.    *)
(***************************************************************************)
EXTENDS Naturals

CONSTANT Call           \* tool call identities

VARIABLE trace          \* what the committed log says is open

\* Turns and steps count from 1, so 0 stands for the null of the source.
None == 0

FreshTrace ==
  [openTurn |-> None, openStep |-> None, nextTurn |-> 1, nextStep |-> 1,
   pendingCalls |-> {}]

Trace ==
  [openTurn : Nat, openStep : Nat, nextTurn : Nat, nextStep : Nat,
   pendingCalls : SUBSET Call]

-----------------------------------------------------------------------------
(* applyTransition: what an accepted event does to the trace.              *)

OpenTurn(tr, turn) == [tr EXCEPT !.openTurn = turn, !.nextStep = 1]

CloseTurn(tr) == [tr EXCEPT !.openTurn = None, !.nextTurn = @ + 1]

OpenStep(tr, step) == [tr EXCEPT !.openStep = step]

CloseStep(tr) ==
  [tr EXCEPT !.openStep = None, !.nextStep = @ + 1, !.pendingCalls = {}]

AddCall(tr, call) == [tr EXCEPT !.pendingCalls = @ \union {call}]

DeleteCall(tr, call) == [tr EXCEPT !.pendingCalls = @ \ {call}]

-----------------------------------------------------------------------------
(* validateEvent: which events are accepted, and where.                    *)

CanOpenTurn(tr, turn) == tr.openTurn = None /\ turn = tr.nextTurn

CanCloseTurn(tr, turn) ==
  /\ turn # None
  /\ tr.openTurn = turn
  /\ tr.openStep = None

CanOpenStep(tr, turn, step) ==
  /\ turn # None
  /\ tr.openTurn = turn
  /\ tr.openStep = None
  /\ step = tr.nextStep

\* requireOpenStep.
InOpenStep(tr, turn, step) ==
  /\ turn # None
  /\ step # None
  /\ tr.openTurn = turn
  /\ tr.openStep = step

\* A result that a repair marked TOOL_NOT_STARTED needs no recorded call.
CanResult(tr, turn, step, call, notStarted) ==
  /\ InOpenStep(tr, turn, step)
  /\ call \in tr.pendingCalls \/ notStarted

-----------------------------------------------------------------------------
Init == trace = FreshTrace

TurnStart ==
  /\ CanOpenTurn(trace, trace.nextTurn)
  /\ trace' = OpenTurn(trace, trace.nextTurn)

TurnEnd ==
  /\ CanCloseTurn(trace, trace.openTurn)
  /\ trace' = CloseTurn(trace)

StepStart ==
  /\ CanOpenStep(trace, trace.openTurn, trace.nextStep)
  /\ trace' = OpenStep(trace, trace.nextStep)

StepEnd ==
  /\ InOpenStep(trace, trace.openTurn, trace.openStep)
  /\ trace' = CloseStep(trace)

ToolCall(call) ==
  /\ InOpenStep(trace, trace.openTurn, trace.openStep)
  /\ trace' = AddCall(trace, call)

ToolResult(call, notStarted) ==
  /\ CanResult(trace, trace.openTurn, trace.openStep, call, notStarted)
  /\ trace' = DeleteCall(trace, call)

Next ==
  \/ TurnStart \/ TurnEnd \/ StepStart \/ StepEnd
  \/ \E call \in Call : ToolCall(call)
  \/ \E call \in Call, notStarted \in BOOLEAN : ToolResult(call, notStarted)

Spec == Init /\ [][Next]_trace
=============================================================================
