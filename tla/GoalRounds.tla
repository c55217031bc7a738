------------------------------ MODULE GoalRounds ------------------------------
(***************************************************************************)
(* Same-session goal continuation: GoalService (packages/goal/goal/src),   *)
(* the round driver with its race fences                                   *)
(* (packages/goal/goal-round-driver/src/index.ts), and the agent it feeds  *)
(* (packages/core/agent-loop/src/agent.ts, in detail in AgentDriver).      *)
(*                                                                         *)
(* Everything runs in one thread and every hand-over between the three     *)
(* parts is synchronous: a goal change notifies the driver, which may      *)
(* queue a round, which may start the agent, which claims the round before *)
(* the first caller returns.  A step is therefore a function from worlds   *)
(* to worlds, composed from the functions of the three parts, and every    *)
(* state is one in which all of them await something.                      *)
(*                                                                         *)
(* A revision stands for a goal id and its revision number: both are only  *)
(* compared, and every mutation makes a new one.                           *)
(***************************************************************************)
EXTENDS Naturals, Sequences, FiniteSets

CONSTANTS
  Human,        \* numbers of the prompts people send, each once
  MaxRevision,  \* bound: revisions from which callers mutate the goal
  Cap           \* the values maxGoalRounds may have

ASSUME GoalRoundsAssumption ==
  Human \subseteq Nat /\ MaxRevision \in Nat /\ Cap \subseteq Nat \ {0}

VARIABLES
  agent,   \* the agent: its phase and its inbox
  goal,    \* GoalService: the folded goal and its activation
  driver,  \* the round driver's DriverState
  sent,    \* history: the prompts sent
  halted,  \* history: a turn was cancelled and nobody has changed the goal since
  maintained  \* history: a maintenance task has run

goalVars == <<agent, goal, driver, sent, halted, maintained>>

World == [agent |-> agent, goal |-> goal, driver |-> driver]

Prompt(n) == [source |-> "human", revision |-> 0, number |-> n, copy |-> 0]

\* Its copy tells one round message from another of the same content.
Copy == 1 .. (2 * Cardinality(Human) + 2)

Round(revision, n, copy) ==
  [source |-> "goal", revision |-> revision, number |-> n, copy |-> copy]

Message ==
  {Prompt(n) : n \in Human}
  \union {Round(r, n, c) : r \in 1 .. MaxRevision, n \in UNION {1 .. max : max \in Cap},
                        c \in Copy}

IsRound(m) == m.source = "goal"

sameRound(m, o) == m.revision = o.revision /\ m.number = o.number

RoundAttempt ==
  [phase : {"none", "queued", "claimed", "admitted"}, message : Message \union {Round(0, 0, 0)},
   cancelled : BOOLEAN, stale : BOOLEAN]

NoAttempt == [phase |-> "none", message |-> Round(0, 0, 0), cancelled |-> FALSE,
              stale |-> FALSE]

\* Where the agent is:
\*   assembling  a batch is claimed; assembly and the pre-step listeners in
\*               front of the round driver's are awaited
\*   deciding    the round driver's listener awaits the listeners behind it
\*   decided     it has returned; those in front of it are awaited again
\*   step        the batch is logged and its steps run
\*   leaving     the turn is over, the driver is not idle yet
Running == {"assembling", "deciding", "decided", "step", "leaving"}

Agent ==
  [at : {"idle", "maintenance"} \union Running, aborted : BOOLEAN, wake : BOOLEAN,
   nextTurn : Seq(Message), nextStep : SUBSET Message, batch : SUBSET Message]

\* broken: the log holds an event the goal fold refuses, so that every later
\* read and mutation of the goal throws.
Goal ==
  [phase : {"none", "active", "paused", "blocked", "complete"}, armed : BOOLEAN,
   revision : 0 .. MaxRevision + 1, rounds : Nat, max : Cap \union {0}, broken : BOOLEAN]

\* checkpoint is needsCheckpoint, and tracked says that run is set.  Of the
\* loops started, some await a flush and some are about to look for requests.
Driver ==
  [attempt : RoundAttempt, competing : BOOLEAN, checkpoint : BOOLEAN,
   requested : BOOLEAN, tracked : BOOLEAN, flushing : Nat, looping : Nat,
   plugin : {"up", "stopping", "draining", "down"}]

FreshDriver == [attempt |-> NoAttempt, competing |-> FALSE, checkpoint |-> FALSE,
                requested |-> FALSE, tracked |-> FALSE, flushing |-> 0, looping |-> 0,
                plugin |-> "up"]

GoalsInit ==
  /\ agent = [at |-> "idle", aborted |-> FALSE, wake |-> FALSE, nextTurn |-> <<>>,
              nextStep |-> {}, batch |-> {}]
  /\ goal = [phase |-> "none", armed |-> FALSE, revision |-> 0, rounds |-> 0,
             max |-> 0, broken |-> FALSE]
  /\ driver = FreshDriver
  /\ sent = {} /\ halted = FALSE /\ maintained = FALSE

-----------------------------------------------------------------------------
(* The parts' functions.                                                   *)

Listens(w) == w.driver.plugin # "down"
Stopping(w) == w.driver.plugin # "up"

\* agent.status
IsIdle(w) == w.agent.at \in {"idle", "maintenance"}

HasPending(w) == w.agent.nextTurn # <<>> \/ w.agent.nextStep # {}

Pending(w) == w.agent.nextStep
              \union {w.agent.nextTurn[i] : i \in DOMAIN w.agent.nextTurn}

CanContinue(w) == w.goal.phase = "active" /\ w.goal.armed

\* sameQueued: the message has the content the driver has reserved.
IsOwn(w, m) ==
  w.driver.attempt.phase # "none" /\ IsRound(m) /\ sameRound(m, w.driver.attempt.message)

\* inbox.claim at a turn boundary, up to the first await of preStep.
Claim(w) ==
  LET batch == w.agent.nextStep
               \union {w.agent.nextTurn[i] : i \in DOMAIN w.agent.nextTurn \intersect {1}}
      own   == Listens(w) /\ \E m \in batch : IsOwn(w, m)
  IN  [w EXCEPT !.agent =
         [at |-> "assembling", aborted |-> FALSE, wake |-> FALSE, batch |-> batch,
          nextStep |-> {},
          nextTurn |-> IF @.nextTurn = <<>> THEN <<>> ELSE Tail(@.nextTurn)],
       !.driver.attempt.phase = IF own THEN "claimed" ELSE @]

\* wakeDriver, behind an insertion.
Woken(w) ==
  CASE w.agent.at = "idle" -> Claim(w)
    [] w.agent.at = "maintenance" \/ (w.agent.at # "idle" /\ w.agent.aborted) ->
         [w EXCEPT !.agent.wake = TRUE]
    [] OTHER -> w

\* goals.disarm; it throws, and is contained, once the fold is broken.
Disarmed(w) == [w EXCEPT !.goal.armed = @ /\ w.goal.broken]

\* readyToDrive
Ready(w) == ~Stopping(w) /\ IsIdle(w) /\ ~w.driver.competing

\* goals.block from inside a drive.  Its goal/changed asks for another drive:
\* of the loop that is tracked, or of a second one, as a loop is tracked only
\* when its first drive has reached an await.
BlockedAtLimit(w) ==
  LET at == [w EXCEPT !.goal.phase = "blocked", !.goal.armed = FALSE,
                      !.goal.revision = @ + 1]
  IN  IF w.driver.tracked
      THEN [at EXCEPT !.driver.checkpoint = TRUE, !.driver.requested = TRUE]
      ELSE [at EXCEPT !.driver.checkpoint = FALSE, !.driver.requested = FALSE,
                      !.driver.flushing = @ + 1, !.driver.tracked = TRUE]

\* Reserve the next round and queue it, as a message with an id of its own.
Reserve(w) ==
  LET copies  == {c \in Copy :
                   Round(w.goal.revision, w.goal.rounds + 1, c) \notin
                     Pending(w) \union w.agent.batch}
      message == Round(w.goal.revision, w.goal.rounds + 1,
                       CHOOSE c \in copies : \A other \in copies : c <= other)
  IN  Woken([w EXCEPT !.agent.nextTurn = Append(@, message),
                      !.driver.attempt = [phase |-> "queued", message |-> message,
                                          cancelled |-> FALSE, stale |-> FALSE]])

Loops(w) == [w EXCEPT !.driver.looping = @ + 1]

\* drive, behind its checkpoint.
Drive(w) ==
  Loops(CASE w.driver.attempt.phase # "none" ->
               [w EXCEPT !.driver.attempt = NoAttempt, !.driver.checkpoint = TRUE,
                         !.driver.requested = TRUE]
          [] w.driver.attempt.phase = "none" /\ (w.goal.broken \/ ~CanContinue(w)) -> w
          [] OTHER -> IF w.goal.rounds >= w.goal.max THEN BlockedAtLimit(w)
                                                     ELSE Reserve(w))

\* drive, up to its first await.
DriveStarts(w) ==
  LET at == [w EXCEPT !.driver.requested = FALSE] IN
  CASE ~Ready(at) -> Loops(at)
    [] Ready(at) /\ at.driver.checkpoint ->
         [at EXCEPT !.driver.checkpoint = FALSE, !.driver.flushing = @ + 1]
    [] OTHER -> Drive(at)

\* Mutant of requestDrive: a request is dropped while a loop is running.
requestDrive_drops(w) ==
  IF Stopping(w) \/ w.driver.tracked THEN w
  ELSE [DriveStarts(w) EXCEPT !.driver.tracked = TRUE]

requestDrive(w) ==
  IF Stopping(w) THEN w
  ELSE IF w.driver.tracked THEN [w EXCEPT !.driver.requested = TRUE]
  ELSE [DriveStarts(w) EXCEPT !.driver.tracked = TRUE]

\* goal/changed
Changed(w) ==
  IF Listens(w) THEN requestDrive([w EXCEPT !.driver.checkpoint = TRUE]) ELSE w

\* The driver stops a goal from outside its loop.
Stop(w, phase) ==
  requestDrive([w EXCEPT !.goal.phase = phase, !.goal.armed = FALSE,
                         !.goal.revision = @ + 1, !.driver.checkpoint = TRUE])

\* Mutant of OnIdle: a reservation nobody has claimed yet is passed over.
OnIdle_notQueued(w) ==
  LET at == [w EXCEPT !.driver.competing = FALSE]
      unfinished == at.driver.attempt.phase = "claimed" \/ at.driver.attempt.cancelled
  IN  IF ~Listens(w) THEN w
      ELSE IF w.goal.broken THEN at
      ELSE requestDrive(IF unfinished /\ CanContinue(at)
                        THEN Stop([at EXCEPT !.driver.attempt = NoAttempt], "paused")
                        ELSE at)

\* agent/status idle.  Reading a broken goal ends the listener.
OnIdle(w) ==
  LET at == [w EXCEPT !.driver.competing = FALSE]
      unfinished == at.driver.attempt.phase \in {"queued", "claimed"}
                    \/ at.driver.attempt.cancelled
  IN  IF ~Listens(w) THEN w
      ELSE IF w.goal.broken THEN at
      ELSE requestDrive(IF unfinished /\ CanContinue(at)
                        THEN Stop([at EXCEPT !.driver.attempt = NoAttempt], "paused")
                        ELSE at)

\* inbox.clear: the discarded listener sees the reservation go.
Cleared(w) ==
  LET own == Listens(w) /\ \E m \in Pending(w) : IsOwn(w, m)
  IN  [w EXCEPT !.agent.nextTurn = <<>>, !.agent.nextStep = {}, !.agent.wake = FALSE,
                !.driver.attempt.cancelled = @ \/ own]

Aborted(w) == [w EXCEPT !.agent.aborted = @ \/ w.agent.at # "idle"]

\* turn/end, and the way out of the turn.
TurnLeaves(w) == [w EXCEPT !.agent.at = "leaving", !.agent.batch = {}]

\* Mutant of TurnAborts: the listener of an aborted turn does nothing.
TurnAborts_unseen(w) == TurnLeaves(w)

TurnAborts(w) ==
  TurnLeaves(
    IF ~Listens(w) THEN w
    ELSE IF w.driver.attempt.phase \in {"claimed", "admitted"}
    THEN [w EXCEPT !.driver.attempt.cancelled = TRUE]
    ELSE Disarmed(w))

\* agent/error precedes the turn's end.
TurnFails(w) == TurnLeaves(IF Listens(w) THEN Disarmed(w) ELSE w)

\* A turn that completes or runs out of tokens goes on to the queue.
TurnCompletes(w) == IF HasPending(w) THEN Claim(w) ELSE TurnLeaves(w)

-----------------------------------------------------------------------------
(* The pre-step fence.                                                     *)

TheRound(w) == CHOOSE m \in w.agent.batch : IsRound(m)

Fenced(w) == Listens(w) /\ \E m \in w.agent.batch : IsRound(m)

validReservation(w) ==
  /\ ~Stopping(w) /\ ~w.goal.broken
  /\ w.driver.attempt.phase = "claimed" /\ ~w.driver.attempt.stale
  /\ IsOwn(w, TheRound(w))
  /\ CanContinue(w)
  /\ TheRound(w).revision = w.goal.revision
  /\ TheRound(w).number = w.goal.rounds + 1

\* restoreOtherClaimed
Restored(w) ==
  [w EXCEPT !.agent.nextStep = @ \union {m \in w.agent.batch : ~IsRound(m)}]

\* The listener drops its own round and keeps what was claimed with it.
Refused(w) ==
  LET own == IsOwn(w, TheRound(w))
  IN  requestDrive(Restored([w EXCEPT !.driver.attempt = IF own THEN NoAttempt ELSE @]))

\* The round is logged as a user/message, and the fold has to accept it.
Fits(w, m) ==
  /\ w.goal.phase = "active"
  /\ m.revision = w.goal.revision /\ m.number = w.goal.rounds + 1
  /\ m.number <= w.goal.max

Admitted(w) ==
  LET own   == Listens(w) /\ w.driver.attempt.message \in w.agent.batch
      round == {m \in w.agent.batch : IsRound(m)}
      fits  == \A m \in round : Fits(w, m)
  IN  [w EXCEPT !.agent.at = "step", !.agent.batch = {},
                !.goal.rounds = IF round # {} /\ fits /\ ~w.goal.broken THEN @ + 1 ELSE @,
                !.goal.broken = @ \/ ~fits,
                !.driver.attempt.phase = IF own THEN "admitted" ELSE @]

-----------------------------------------------------------------------------
(* Steps.                                                                  *)

Becomes(w) == agent' = w.agent /\ goal' = w.goal /\ driver' = w.driver

\* A prompt that waits for its own turn, or steers the nearest step; a steer of
\* an aborted activity is a followup.
followup(n) ==
  LET w == [World EXCEPT !.agent.nextTurn = Append(@, Prompt(n)),
                         !.driver.competing = @ \/ Listens(World),
                         !.driver.attempt.stale =
                           @ \/ (Listens(World) /\ driver.attempt.phase = "queued")]
  IN  n \notin sent /\ sent' = sent \union {n} /\ Becomes(Woken(w)) /\ UNCHANGED <<halted, maintained>>

steer(n) ==
  /\ ~agent.aborted
  /\ n \notin sent /\ sent' = sent \union {n}
  /\ Becomes(Woken([World EXCEPT !.agent.nextStep = @ \union {Prompt(n)}]))
  /\ UNCHANGED <<halted, maintained>>

cancel(keepInbox) ==
  /\ Becomes(Aborted(IF keepInbox THEN World ELSE Cleared(World)))
  /\ halted' = (halted \/ agent.at \in Running \ {"leaving"})
  /\ UNCHANGED <<sent, maintained>>

StartMaintenance ==
  /\ agent.at = "idle"
  /\ Becomes([World EXCEPT !.agent.at = "maintenance"])
  /\ maintained' = TRUE /\ UNCHANGED <<sent, halted>>

\* The public status was idle all along, so nobody is notified.
EndMaintenance ==
  /\ agent.at = "maintenance"
  /\ LET w == [World EXCEPT !.agent.at = "idle", !.agent.aborted = FALSE,
                            !.agent.wake = FALSE]
     IN  Becomes(IF agent.wake /\ HasPending(w) THEN Claim(w) ELSE w)
  /\ UNCHANGED <<sent, halted, maintained>>

\* A caller of GoalService: each mutation is a compare-and-set on the present
\* revision, and throws without effect once the fold is broken.
ChangeGoal(phase, armed, rounds, max) ==
  /\ ~goal.broken /\ goal.revision < MaxRevision
  /\ Becomes(Changed([World EXCEPT
       !.goal = [phase |-> phase, armed |-> armed, revision |-> @.revision + 1,
                 rounds |-> rounds, max |-> max, broken |-> FALSE]]))
  /\ halted' = FALSE
  /\ UNCHANGED <<sent, maintained>>

create == /\ goal.phase \in {"none", "complete"}
          /\ \E max \in Cap : ChangeGoal("active", TRUE, 0, max)

edit == /\ goal.phase # "none"
        /\ \E max \in Cap : ChangeGoal(goal.phase, goal.armed, goal.rounds, max)

pause == goal.phase = "active" /\ ChangeGoal("paused", FALSE, goal.rounds, goal.max)

resume == /\ goal.phase \in {"active", "paused", "blocked"}
          /\ ~CanContinue(World) /\ goal.rounds < goal.max
          /\ ChangeGoal("active", TRUE, goal.rounds, goal.max)

complete == /\ goal.phase \in {"active", "paused", "blocked"}
            /\ ChangeGoal("complete", FALSE, goal.rounds, goal.max)

block == goal.phase = "active" /\ ChangeGoal("blocked", FALSE, goal.rounds, goal.max)

clear == goal.phase # "none" /\ ChangeGoal("none", FALSE, 0, 0)

-----------------------------------------------------------------------------

\* Assembly and the listeners in front settle; then the fence's first check,
\* which does not look at the signal.
Assembled ==
  /\ agent.at = "assembling"
  /\ \/ agent.aborted /\ Becomes(TurnAborts(World))
     \/ ~agent.aborted /\ Becomes(TurnFails(World))
     \/ IF Fenced(World) /\ ~validReservation(World)
        THEN Becomes(IF agent.aborted THEN TurnAborts(Refused(World))
                                      ELSE TurnLeaves(Refused(World)))
        ELSE Becomes([World EXCEPT !.agent.at = "deciding"])
  /\ UNCHANGED <<sent, halted, maintained>>

\* The driver blocks a goal whose round another listener rejects.
Rejected(w) ==
  LET at == [w EXCEPT !.driver.attempt = NoAttempt] IN
  IF ~at.goal.broken /\ CanContinue(at) /\ TheRound(at).revision = at.goal.revision
  THEN Stop(at, "blocked") ELSE at

\* The listeners behind settle.
Decided ==
  /\ agent.at = "deciding"
  /\ \/ /\ agent.aborted
        /\ \/ Becomes(TurnAborts(World))
           \/ Fenced(World) /\ Becomes(TurnAborts(Restored(World)))
     \/ /\ ~agent.aborted  \* one of them throws
        /\ Becomes(TurnFails(IF Fenced(World)
                             THEN requestDrive([World EXCEPT !.driver.attempt = NoAttempt])
                             ELSE World))
     \/ /\ ~agent.aborted  \* one of them rejects
        /\ Becomes(TurnLeaves(IF Fenced(World) THEN Rejected(World) ELSE World))
     \/ /\ ~agent.aborted  \* they enter, and the fence checks again
        /\ IF Fenced(World) /\ ~validReservation(World)
           THEN Becomes(TurnLeaves(Restored(requestDrive(
                  [World EXCEPT !.driver.attempt = NoAttempt]))))
           ELSE Becomes([World EXCEPT !.agent.at = "decided"])
  /\ UNCHANGED <<sent, halted, maintained>>

\* The listeners in front settle, and the loop enters the step.
Entered ==
  /\ agent.at = "decided"
  /\ \/ agent.aborted /\ Becomes(TurnAborts(World))
     \/ /\ ~agent.aborted
        /\ \/ Becomes(TurnFails(World))
           \/ Becomes(TurnLeaves(World))
           \/ Becomes(Admitted(World))
  /\ UNCHANGED <<sent, halted, maintained>>

\* The steps of the turn settle.
StepSettles ==
  /\ agent.at = "step"
  /\ \/ agent.aborted /\ Becomes(TurnAborts(World))
     \/ ~agent.aborted /\ Becomes(TurnFails(World))
     \/ /\ ~agent.aborted /\ agent.nextStep # {}
        /\ Becomes([World EXCEPT !.agent.nextStep = {}])
     \/ /\ ~agent.aborted /\ agent.nextStep = {}
        /\ \/ Becomes(TurnCompletes(World))
           \/ Becomes(TurnCompletes(IF Listens(World) THEN Disarmed(World) ELSE World))
  /\ UNCHANGED <<sent, halted, maintained>>

\* kick's finally: idle, its listeners, then the latched wake.
KickExit ==
  /\ agent.at = "leaving"
  /\ LET w == OnIdle([World EXCEPT !.agent.at = "idle", !.agent.aborted = FALSE,
                                   !.agent.wake = FALSE])
     IN  Becomes(IF agent.wake /\ w.agent.at = "idle" /\ HasPending(w)
                 THEN Claim(w) ELSE w)
  /\ UNCHANGED <<sent, halted, maintained>>

\* A checkpoint settles, and everything it awaited over is looked at again.
Flushed ==
  /\ driver.flushing > 0
  /\ LET w == [World EXCEPT !.driver.flushing = @ - 1] IN
     \/ Becomes(Loops(Disarmed(w)))
     \/ Becomes(IF Ready(w) /\ ~driver.checkpoint THEN Drive(w) ELSE Loops(w))
  /\ UNCHANGED <<sent, halted, maintained>>

\* A loop goes round, or retires and with it whatever run is tracked.
Loop ==
  /\ driver.looping > 0
  /\ LET w == [World EXCEPT !.driver.looping = @ - 1] IN
     Becomes(IF driver.requested /\ ~Stopping(World) THEN DriveStarts(w)
             ELSE [w EXCEPT !.driver.tracked = FALSE])
  /\ UNCHANGED <<sent, halted, maintained>>

-----------------------------------------------------------------------------
(* The plugin unloads, and is loaded again over the same agent.            *)

\* Mutant of Unload: the turn that holds the reservation is waited for only.
Unload_noCancel ==
  /\ driver.plugin = "up"
  /\ LET held == driver.attempt.phase # "none"
         busy == held /\ ~IsIdle(World)
     IN  Becomes([Disarmed(World) EXCEPT
                    !.driver.plugin = IF busy THEN "draining" ELSE "stopping",
                    !.driver.attempt.stale = @ \/ held])
  /\ UNCHANGED <<sent, halted, maintained>>

Unload ==
  /\ driver.plugin = "up"
  /\ LET held == driver.attempt.phase # "none"
         busy == held /\ ~IsIdle(World)
         w    == [Disarmed(World) EXCEPT
                    !.driver.plugin = IF busy THEN "draining" ELSE "stopping",
                    !.driver.attempt.stale = @ \/ held]
     IN  /\ Becomes(IF busy THEN Aborted(Cleared(w)) ELSE w)
         /\ halted' = (halted \/ (busy /\ agent.at # "leaving"))
  /\ UNCHANGED <<sent, maintained>>

Unloaded ==
  /\ driver.plugin \in {"stopping", "draining"} /\ ~driver.tracked
  /\ driver.plugin = "draining" => agent.at = "idle"
  /\ driver' = [FreshDriver EXCEPT !.plugin = "down"]
  /\ UNCHANGED <<agent, goal, sent, halted, maintained>>

Load ==
  /\ driver.plugin = "down"
  /\ Becomes(Disarmed([World EXCEPT !.driver.plugin = "up"]))
  /\ UNCHANGED <<sent, halted, maintained>>

-----------------------------------------------------------------------------
AgentStep == \/ Assembled \/ Decided \/ Entered \/ StepSettles \/ KickExit
             \/ EndMaintenance

DriverStep == Flushed \/ Loop

Caller ==
  \/ \E n \in Human : followup(n) \/ steer(n)
  \/ \E keepInbox \in BOOLEAN : cancel(keepInbox)
  \/ StartMaintenance
  \/ create \/ edit \/ pause \/ resume \/ complete \/ block \/ clear

GoalsNext == AgentStep \/ DriverStep \/ Caller \/ Unload \/ Unloaded \/ Load

\* Turns, maintenance and flushes settle.
GoalsFairness == WF_goalVars(AgentStep) /\ WF_goalVars(Flushed) /\ WF_goalVars(Loop)

GoalsSpec == GoalsInit /\ [][GoalsNext]_goalVars /\ GoalsFairness

-----------------------------------------------------------------------------
(* Properties.                                                             *)

\* Every part stays in its range; a round is never numbered past its limit
\* (drive, roundsStarted >= maxGoalRounds).
GoalsTypeOK ==
  /\ agent \in Agent
  /\ goal \in Goal /\ driver \in Driver
  /\ sent \subseteq Human /\ halted \in BOOLEAN /\ maintained \in BOOLEAN

\* No more than one round of the present revision is queued or claimed, as long
\* as no maintenance task has run: while one does, the agent reads as idle, and
\* drive() takes a queued reservation for a finished round and queues another
\* (goal-round-driver/src/index.ts:138-161, drive).
OneReservation ==
  LET queued  == {i \in DOMAIN agent.nextTurn :
                    /\ IsRound(agent.nextTurn[i])
                    /\ agent.nextTurn[i].revision = goal.revision}
      claimed == {m \in agent.batch : IsRound(m) /\ m.revision = goal.revision}
  IN  maintained \/ Cardinality(queued) + Cardinality(claimed) <= 1

\* Once a turn is cancelled no round is reserved until somebody changes the
\* goal, however the cancel falls among the claim, the fences, the step and the
\* idle checkpoint (agent/status and turn/end listeners, :255-318).
CancelStopsGoal ==
  [][/\ driver.attempt.phase = "none"
     /\ driver'.attempt.phase \in {"queued", "claimed"}
     => ~halted]_goalVars

\* An unload that finds a reservation at a running agent cancels it: until the
\* driver has drained no round is admitted or waits for a turn, and the driver
\* leaves no batch behind it (plugin teardown, :425-443).
NoRoundAfterUnload ==
  [][driver.plugin = "draining" =>
       /\ goal'.rounds <= goal.rounds
       /\ \A m \in Pending(World)' : ~IsRound(m)
       /\ driver'.plugin = "down" => agent'.batch = {}]_goalVars

\* A goal that is active and armed does not rest at an idle agent: it gets a
\* round, is blocked or loses its authority, as long as no maintenance task has
\* run: a prompt that is withdrawn during one leaves competingQueued set with no
\* idle edge to clear it (requestDrive against drive's awaits, :208-241).
GoalContinues ==
  (/\ CanContinue(World) /\ ~goal.broken /\ agent.at = "idle"
   /\ driver.plugin = "up" /\ ~maintained)
  ~> (agent.at # "idle" \/ ~CanContinue(World) \/ driver.plugin # "up" \/ maintained)

-----------------------------------------------------------------------------
(* Claims of the repository that the code does not keep.                   *)

\* "Replay rejects non-positive rounds, gaps, stale revisions, stopped phases,
\* and cap overflow": a round that is admitted is one the fold accepts.
AdmittedRoundIsReplayable == ~goal.broken
=============================================================================
