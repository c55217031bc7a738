-------------------------- MODULE GoalRounds_proofs --------------------------
(***************************************************************************)
(* Proofs about goal continuation, for any prompts, bounds and limits.     *)
(*                                                                         *)
(* A step of GoalRounds is a function from worlds to worlds, composed of   *)
(* the functions of the three parts.  What each function does to the       *)
(* fields that the properties look at is said by a relation between the    *)
(* world it returns and the one it was given (Alike, Dropped, Reserved,    *)
(* Claimed, ...), in a lemma for each function.  The invariant is a        *)
(* predicate of worlds, kept by every relation.                            *)
(***************************************************************************)
EXTENDS GoalRounds, FiniteSetTheorems, SequenceTheorems, TLAPS

-----------------------------------------------------------------------------
(* The worlds.  Any message is typed, also one whose copy had to be chosen *)
(* from none.                                                              *)

Least(S) == CHOOSE c \in S : \A other \in S : c <= other

AnyCopy == {0} \union {Least(S) : S \in SUBSET Copy}

AnyMessage ==
  [source : {"human", "goal"}, revision : Nat, number : Nat, copy : AnyCopy]

Phases == {"none", "queued", "claimed", "admitted"}

AnyAttempt ==
  [phase : Phases, message : AnyMessage,
   cancelled : BOOLEAN, stale : BOOLEAN]

AnyAgent ==
  [at : {"idle", "maintenance"} \union Running, aborted : BOOLEAN, wake : BOOLEAN,
   nextTurn : Seq(AnyMessage), nextStep : SUBSET AnyMessage,
   batch : SUBSET AnyMessage]

AnyGoal ==
  [phase : {"none", "active", "paused", "blocked", "complete"}, armed : BOOLEAN,
   revision : Nat, rounds : Nat, max : Nat, broken : BOOLEAN]

AnyDriver ==
  [attempt : AnyAttempt, competing : BOOLEAN, checkpoint : BOOLEAN,
   requested : BOOLEAN, tracked : BOOLEAN, flushing : Nat, looping : Nat,
   plugin : {"up", "stopping", "draining", "down"}]

Worlds == [agent : AnyAgent, goal : AnyGoal, driver : AnyDriver]

-----------------------------------------------------------------------------
(* The inductive invariant, as predicates of a world.                      *)

Queue(w) == {w.agent.nextTurn[i] : i \in DOMAIN w.agent.nextTurn}

\* A round of the present revision.
Present(w, m) == IsRound(m) /\ m.revision = w.goal.revision

\* Where rounds can be: none steers a step, a batch has one at most, none is of
\* a revision to come, and a batch is under way only before its step.
RoundsAtPlace(w) ==
  /\ \A m \in w.agent.nextStep : ~IsRound(m)
  /\ \A m, o \in w.agent.batch : IsRound(m) /\ IsRound(o) => m = o
  /\ \A m \in Queue(w) \union w.agent.batch :
       IsRound(m) => m.revision <= w.goal.revision
  /\ w.agent.batch # {} => w.agent.at \in {"assembling", "deciding", "decided"}

\* One round of the present revision at most is queued or claimed ...
AtMostOne(w) ==
  /\ \A i, j \in DOMAIN w.agent.nextTurn :
       Present(w, w.agent.nextTurn[i]) /\ Present(w, w.agent.nextTurn[j]) => i = j
  /\ \A m \in Queue(w), o \in w.agent.batch : ~(Present(w, m) /\ Present(w, o))

\* ... and while the goal may continue it is the one the driver has reserved,
\* for an agent that is not at rest.  A fence that let the batch pass has found
\* no other round in it.
PresentIsReserved(w) ==
  CanContinue(w) /\ ~w.goal.broken =>
    \A m \in Queue(w) \union w.agent.batch : Present(w, m) =>
      /\ w.driver.plugin = "up" /\ w.agent.at # "idle"
      /\ w.driver.attempt.message = m
      /\ w.driver.attempt.phase \in {"queued", "claimed"}
      /\ w.agent.at = "deciding" =>
           \A o \in w.agent.batch : IsRound(o) => Present(w, o)

\* While an unload drains no round waits, and a claimed one is aborted.
DrainIsClean(w) ==
  w.driver.plugin = "draining" =>
    /\ \A m \in Queue(w) : ~IsRound(m)
    /\ \A m \in w.agent.batch : IsRound(m) => w.agent.aborted

\* The goal of a cancelled turn loses its authority when the turn ends, or when
\* the agent comes to rest.
HaltHolds(w) ==
  CanContinue(w) /\ ~w.goal.broken /\ Listens(w) =>
    \/ w.agent.at \in Running \ {"leaving"} /\ w.agent.aborted
    \/ /\ w.agent.at = "leaving" /\ w.driver.attempt.cancelled
       /\ w.driver.attempt.phase \in {"claimed", "admitted"}

\* resting: no maintenance task has run; stopped: the turn was cancelled.
Good(w, resting, stopped) ==
  /\ w \in Worlds
  /\ RoundsAtPlace(w)
  /\ DrainIsClean(w)
  /\ resting => w.agent.at # "maintenance" /\ AtMostOne(w) /\ PresentIsReserved(w)
  /\ stopped => HaltHolds(w)

IInv == Good(World, ~maintained, halted)

-----------------------------------------------------------------------------
(* What the functions do to the fields of a world.                         *)

SameAgent(v, w) ==
  /\ v.agent.at = w.agent.at /\ v.agent.aborted = w.agent.aborted
  /\ v.agent.nextTurn = w.agent.nextTurn /\ v.agent.nextStep = w.agent.nextStep
  /\ v.agent.batch = w.agent.batch

SameGoal(v, w) ==
  /\ v.goal.phase = w.goal.phase /\ v.goal.armed = w.goal.armed
  /\ v.goal.revision = w.goal.revision /\ v.goal.rounds = w.goal.rounds
  /\ v.goal.broken = w.goal.broken

SameAttempt(v, w) ==
  /\ v.driver.attempt.phase = w.driver.attempt.phase
  /\ v.driver.attempt.message = w.driver.attempt.message
  /\ v.driver.attempt.cancelled = w.driver.attempt.cancelled

SamePlugin(v, w) == v.driver.plugin = w.driver.plugin

\* Only bookkeeping differs.
Alike(v, w) ==
  /\ v \in Worlds
  /\ SameAgent(v, w) /\ SameGoal(v, w) /\ SameAttempt(v, w) /\ SamePlugin(v, w)

LEMMA AlikeItself == \A w \in Worlds : Alike(w, w)
BY DEF Alike, SameAgent, SameGoal, SameAttempt, SamePlugin

LEMMA AlikeComposes ==
  \A u, v, w : Alike(u, v) /\ Alike(v, w) => Alike(u, w)
BY DEF Alike, SameAgent, SameGoal, SameAttempt, SamePlugin

LEMMA WorldParts ==
  ASSUME NEW w \in Worlds
  PROVE  /\ w.agent \in AnyAgent /\ w.goal \in AnyGoal /\ w.driver \in AnyDriver
         /\ w.driver.attempt \in AnyAttempt
         /\ w.agent.nextTurn \in Seq(AnyMessage)
         /\ w.agent.nextStep \subseteq AnyMessage /\ w.agent.batch \subseteq AnyMessage
         /\ w.goal.revision \in Nat /\ w.goal.rounds \in Nat
<1>1. w.agent \in AnyAgent /\ w.goal \in AnyGoal /\ w.driver \in AnyDriver
  BY DEF Worlds
<1>2. w.driver.attempt \in AnyAttempt
  BY <1>1 DEF AnyDriver
<1>3. w.goal.revision \in Nat /\ w.goal.rounds \in Nat
  BY <1>1 DEF AnyGoal
<1>4. /\ w.agent.nextTurn \in Seq(AnyMessage)
      /\ w.agent.nextStep \subseteq AnyMessage /\ w.agent.batch \subseteq AnyMessage
  BY <1>1 DEF AnyAgent
<1> QED BY <1>1, <1>2, <1>3, <1>4

\* Bookkeeping of the loop.
LEMMA LoopsAlike ==
  ASSUME NEW w \in Worlds PROVE Alike(Loops(w), w)
BY DEF Loops, Alike, SameAgent, SameGoal, SameAttempt, SamePlugin, Worlds, AnyDriver

\* A claim takes the steering messages and the head of the queue.
Claimed(v, w) ==
  /\ v \in Worlds
  /\ v.agent.at = "assembling" /\ ~v.agent.aborted /\ v.agent.nextStep = {}
  /\ w.agent.nextTurn = <<>> =>
       v.agent.nextTurn = <<>> /\ v.agent.batch = w.agent.nextStep
  /\ w.agent.nextTurn # <<>> =>
       /\ v.agent.nextTurn = Tail(w.agent.nextTurn)
       /\ v.agent.batch = w.agent.nextStep \union {Head(w.agent.nextTurn)}
  /\ SameGoal(v, w) /\ SamePlugin(v, w)
  /\ v.driver.attempt.message = w.driver.attempt.message
  /\ v.driver.attempt.cancelled = w.driver.attempt.cancelled
  /\ \/ v.driver.attempt.phase = w.driver.attempt.phase
     \/ v.driver.attempt.phase = "claimed" /\ w.driver.attempt.phase # "none"

LEMMA HeadAndTail ==
  ASSUME NEW list \in Seq(AnyMessage), list # <<>>
  PROVE  /\ Head(list) \in AnyMessage /\ Tail(list) \in Seq(AnyMessage)
         /\ Head(list) = list[1] /\ 1 \in DOMAIN list
         /\ DOMAIN list = 1 .. Len(list) /\ Len(list) \in Nat \ {0}
         /\ DOMAIN Tail(list) = 1 .. Len(list) - 1
         /\ \A i \in 1 .. Len(list) - 1 : Tail(list)[i] = list[i + 1]
<1>1. /\ DOMAIN list = 1 .. Len(list) /\ Len(list) \in Nat \ {0}
      /\ \A i \in 1 .. Len(list) : list[i] \in AnyMessage
  OBVIOUS
<1>2. /\ Tail(list) \in Seq(AnyMessage) /\ Len(Tail(list)) = Len(list) - 1
      /\ \A i \in 1 .. Len(Tail(list)) : Tail(list)[i] = list[i + 1]
  BY HeadTailProperties
<1>3. Head(list) = list[1] /\ Head(list) \in AnyMessage
  BY <1>1
<1> QED BY <1>1, <1>2, <1>3

\* A new agent and a new phase of the attempt.
WithAgentAndPhase(w, a, p) == [w EXCEPT !.agent = a, !.driver.attempt.phase = p]

LEMMA AgentAndPhase ==
  ASSUME NEW w \in Worlds, NEW a \in AnyAgent,
         NEW p \in Phases
  PROVE  /\ WithAgentAndPhase(w, a, p) \in Worlds
         /\ WithAgentAndPhase(w, a, p).agent = a
         /\ WithAgentAndPhase(w, a, p).goal = w.goal
         /\ WithAgentAndPhase(w, a, p).driver.plugin = w.driver.plugin
         /\ WithAgentAndPhase(w, a, p).driver.attempt.phase = p
         /\ WithAgentAndPhase(w, a, p).driver.attempt.message = w.driver.attempt.message
         /\ WithAgentAndPhase(w, a, p).driver.attempt.cancelled
              = w.driver.attempt.cancelled
<1>1. /\ w.agent \in AnyAgent /\ w.goal \in AnyGoal /\ w.driver \in AnyDriver
      /\ w.driver.attempt \in AnyAttempt
  BY WorldParts
<1> DEFINE v == WithAgentAndPhase(w, a, p)
           attempt == [w.driver.attempt EXCEPT !.phase = p]
           driver0 == [w.driver EXCEPT !.attempt = attempt]
<1>2. /\ attempt \in AnyAttempt /\ attempt.phase = p
      /\ attempt.message = w.driver.attempt.message
      /\ attempt.cancelled = w.driver.attempt.cancelled
  BY <1>1 DEF AnyAttempt
<1>3. /\ driver0 \in AnyDriver /\ driver0.attempt = attempt
      /\ driver0.plugin = w.driver.plugin
  <2> HIDE DEF attempt
  <2> QED BY <1>1, <1>2 DEF AnyDriver
<1>4. v = [w EXCEPT !.agent = a, !.driver = driver0]
  BY <1>1 DEF WithAgentAndPhase, Worlds, AnyDriver
<1> HIDE DEF driver0, attempt, v
<1>5. v \in Worlds /\ v.agent = a /\ v.goal = w.goal /\ v.driver = driver0
  BY <1>1, <1>3, <1>4 DEF Worlds
<1> QED BY <1>2, <1>3, <1>5 DEF v

LEMMA ClaimClaims ==
  ASSUME NEW w \in Worlds PROVE Claimed(Claim(w), w)
<1> DEFINE list == w.agent.nextTurn
           batch == w.agent.nextStep \union {list[i] : i \in DOMAIN list \intersect {1}}
           own == Listens(w) /\ \E m \in batch : IsOwn(w, m)
           rest == IF list = <<>> THEN <<>> ELSE Tail(list)
           a == [at |-> "assembling", aborted |-> FALSE, wake |-> FALSE,
                 batch |-> batch, nextStep |-> {}, nextTurn |-> rest]
           p == IF own THEN "claimed" ELSE w.driver.attempt.phase
<1>1. /\ list \in Seq(AnyMessage) /\ w.agent.nextStep \subseteq AnyMessage
      /\ w.driver.attempt \in AnyAttempt
  BY WorldParts
<1>2. /\ list = <<>> => batch = w.agent.nextStep
      /\ list # <<>> => batch = w.agent.nextStep \union {Head(list)}
      /\ batch \subseteq AnyMessage
  BY <1>1, HeadAndTail
<1>3. /\ rest \in Seq(AnyMessage)
      /\ list = <<>> => rest = <<>>
      /\ list # <<>> => rest = Tail(list)
  BY <1>1, HeadAndTail
<1>4. Claim(w) = WithAgentAndPhase(w, a, p)
  BY DEF Claim, WithAgentAndPhase, Worlds, AnyDriver, AnyAttempt
<1>5. /\ p \in Phases
      /\ \/ p = w.driver.attempt.phase
         \/ p = "claimed" /\ w.driver.attempt.phase # "none"
  <2>1. w.driver.attempt.phase \in Phases /\ "claimed" \in Phases
    BY <1>1 DEF AnyAttempt, Phases
  <2>2. own => w.driver.attempt.phase # "none"
    BY DEF IsOwn
  <2> HIDE DEF own
  <2> QED BY <2>1, <2>2
<1> HIDE DEF batch, own, rest, p
<1>6. a \in AnyAgent
  BY <1>2, <1>3 DEF AnyAgent, Running
<1>7. /\ a.at = "assembling" /\ a.aborted = FALSE /\ a.nextStep = {}
      /\ a.batch = batch /\ a.nextTurn = rest
  OBVIOUS
<1> HIDE DEF a
<1> DEFINE c == WithAgentAndPhase(w, a, p)
<1>8. /\ c \in Worlds /\ c.agent = a /\ c.goal = w.goal
      /\ c.driver.plugin = w.driver.plugin
      /\ c.driver.attempt.phase = p
      /\ c.driver.attempt.message = w.driver.attempt.message
      /\ c.driver.attempt.cancelled = w.driver.attempt.cancelled
  BY <1>5, <1>6, AgentAndPhase
<1> HIDE DEF c
<1> SUFFICES Claimed(c, w)
  BY <1>4 DEF c
<1> QED BY <1>2, <1>3, <1>5, <1>7, <1>8 DEF Claimed, SameGoal, SamePlugin, list

\* Woken: an idle agent claims at once, any other notes at most the wake.
WokenBy(v, w) ==
  /\ w.agent.at = "idle" => Claimed(v, w)
  /\ w.agent.at # "idle" => Alike(v, w)

LEMMA WokenWakes ==
  ASSUME NEW w \in Worlds PROVE WokenBy(Woken(w), w)
<1>1. CASE w.agent.at = "idle"
  <2>1. Woken(w) = Claim(w)
    BY <1>1 DEF Woken
  <2> QED BY <1>1, <2>1, ClaimClaims DEF WokenBy
<1>2. CASE w.agent.at # "idle"
  <2>1. Woken(w) = w \/ Woken(w) = [w EXCEPT !.agent.wake = TRUE]
    BY <1>2 DEF Woken
  <2>2. Alike(w, w)
    BY AlikeItself
  <2>3. Alike([w EXCEPT !.agent.wake = TRUE], w)
    BY DEF Alike, SameAgent, SameGoal, SameAttempt, SamePlugin, Worlds, AnyAgent
  <2> QED BY <1>2, <2>1, <2>2, <2>3 DEF WokenBy
<1> QED BY <1>1, <1>2

\* The authority goes, or the goal changes: the goal may not continue.
Shed(v, w) ==
  /\ v \in Worlds
  /\ SameAgent(v, w) /\ SamePlugin(v, w)
  /\ v.goal.revision >= w.goal.revision /\ v.goal.rounds = w.goal.rounds
  /\ CanContinue(v) => v.goal.broken
  /\ v.driver.attempt.phase \in {w.driver.attempt.phase, "none"}

\* The reservation goes.
Dropped(v, w) ==
  /\ v \in Worlds
  /\ SameAgent(v, w) /\ SameGoal(v, w) /\ SamePlugin(v, w)
  /\ v.driver.attempt.phase = "none"

\* A round m is queued at the end, and the agent woken.
QueuedIn(x, w, m) ==
  /\ x \in Worlds
  /\ x.agent.at = w.agent.at /\ x.agent.aborted = w.agent.aborted
  /\ x.agent.nextTurn = Append(w.agent.nextTurn, m)
  /\ x.agent.nextStep = w.agent.nextStep /\ x.agent.batch = w.agent.batch
  /\ SameGoal(x, w) /\ SamePlugin(x, w)
  /\ x.driver.attempt.phase = "queued" /\ x.driver.attempt.message = m

Reserved(v, w) ==
  /\ w.driver.attempt.phase = "none" /\ CanContinue(w) /\ ~w.goal.broken
  /\ \E m \in AnyMessage, x \in Worlds :
       Present(w, m) /\ QueuedIn(x, w, m) /\ WokenBy(v, x)

\* What a drive can do.
Driven(v, w) == Alike(v, w) \/ Shed(v, w) \/ Dropped(v, w) \/ Reserved(v, w)

\* Bookkeeping behind a drive, and in front of it.
LEMMA ShedThenAlike ==
  \A u, v, w : Alike(u, v) /\ Shed(v, w) => Shed(u, w)
BY DEF Alike, SameAgent, SameGoal, SameAttempt, SamePlugin, Shed, CanContinue

LEMMA ThenAlike ==
  ASSUME NEW u, NEW v, NEW w, Alike(u, v), Driven(v, w)
  PROVE  Driven(u, w)
<1>1. Alike(v, w) => Alike(u, w)
  BY AlikeComposes
<1>2. Shed(v, w) => Shed(u, w)
  BY ShedThenAlike
<1>3. Dropped(v, w) => Dropped(u, w)
  BY DEF Alike, SameAgent, SameGoal, SameAttempt, SamePlugin, Dropped
<1>4. \A x : WokenBy(v, x) => WokenBy(u, x)
  <2> TAKE x
  <2>1. Claimed(v, x) => Claimed(u, x)
    BY DEF Alike, SameAgent, SameGoal, SameAttempt, SamePlugin, Claimed
  <2>2. Alike(v, x) => Alike(u, x)
    BY AlikeComposes
  <2> QED BY <2>1, <2>2 DEF WokenBy
<1>5. Reserved(v, w) => Reserved(u, w)
  BY <1>4 DEF Reserved
<1> QED BY <1>1, <1>2, <1>3, <1>5 DEF Driven

LEMMA BehindAlike ==
  ASSUME NEW u, NEW v, NEW w, Driven(u, v), Alike(v, w)
  PROVE  Driven(u, w)
<1>1. Alike(u, v) => Alike(u, w)
  BY AlikeComposes
<1>2. Shed(u, v) => Shed(u, w)
  BY DEF Alike, SameAgent, SameGoal, SameAttempt, SamePlugin, Shed
<1>3. Dropped(u, v) => Dropped(u, w)
  BY DEF Alike, SameAgent, SameGoal, SameAttempt, SamePlugin, Dropped
<1>4. \A x, m : QueuedIn(x, v, m) => QueuedIn(x, w, m)
  BY DEF Alike, SameAgent, SameGoal, SameAttempt, SamePlugin, QueuedIn
<1>5. \A m : Present(v, m) => Present(w, m)
  BY DEF Alike, SameGoal, Present
<1>6. /\ v.driver.attempt.phase = w.driver.attempt.phase
      /\ CanContinue(v) => CanContinue(w)
      /\ v.goal.broken = w.goal.broken
  BY DEF Alike, SameGoal, SameAttempt, CanContinue
<1>7. Reserved(u, v) => Reserved(u, w)
  BY <1>4, <1>5, <1>6 DEF Reserved
<1> QED BY <1>1, <1>2, <1>3, <1>7 DEF Driven

LEMMA DisarmedSheds ==
  ASSUME NEW w \in Worlds PROVE Shed(Disarmed(w), w)
<1>1. /\ w.agent \in AnyAgent /\ w.goal \in AnyGoal /\ w.driver \in AnyDriver
      /\ w.goal.revision \in Nat
  BY WorldParts
<1>2. /\ Disarmed(w).agent = w.agent /\ Disarmed(w).driver = w.driver
      /\ Disarmed(w).goal = [w.goal EXCEPT !.armed = @ /\ w.goal.broken]
      /\ Disarmed(w) \in Worlds
  <2>1. w.goal.armed \in BOOLEAN /\ w.goal.broken \in BOOLEAN
    BY <1>1 DEF AnyGoal
  <2>2. (w.goal.armed /\ w.goal.broken) \in BOOLEAN
    BY <2>1
  <2> QED BY <1>1, <2>2 DEF Disarmed, Worlds, AnyGoal
<1>3. /\ Disarmed(w).goal.armed = (w.goal.armed /\ w.goal.broken)
      /\ Disarmed(w).goal.broken = w.goal.broken
      /\ Disarmed(w).goal.revision = w.goal.revision
      /\ Disarmed(w).goal.rounds = w.goal.rounds
  BY <1>1, <1>2 DEF AnyGoal
<1>4. CanContinue(Disarmed(w)) => Disarmed(w).goal.broken
  BY <1>3, Zenon DEF CanContinue
<1>5. Disarmed(w).goal.revision >= w.goal.revision
  BY <1>1, <1>3
<1> QED
  BY <1>2, <1>3, <1>4, <1>5 DEF Shed, SameAgent, SamePlugin

LEMMA BlockedSheds ==
  ASSUME NEW w \in Worlds PROVE Shed(BlockedAtLimit(w), w)
<1>1. /\ w.agent \in AnyAgent /\ w.goal \in AnyGoal /\ w.driver \in AnyDriver
      /\ w.driver.attempt \in AnyAttempt /\ w.goal.revision \in Nat
  BY WorldParts
<1> DEFINE goal0 == [w.goal EXCEPT !.phase = "blocked", !.armed = FALSE,
                                   !.revision = @ + 1]
           v == BlockedAtLimit(w)
<1>2. /\ goal0 \in AnyGoal /\ goal0.phase = "blocked" /\ goal0.rounds = w.goal.rounds
      /\ goal0.revision = w.goal.revision + 1
  <2>1. w.goal.revision + 1 \in Nat
    BY <1>1
  <2> QED BY <1>1, <2>1 DEF AnyGoal
<1>3. /\ v.agent = w.agent /\ v.goal = goal0
      /\ v.driver.attempt = w.driver.attempt /\ v.driver.plugin = w.driver.plugin
      /\ v.driver \in AnyDriver
  <2>1. CASE w.driver.tracked
    BY <1>1, <2>1 DEF BlockedAtLimit, Worlds, AnyDriver
  <2>2. CASE ~w.driver.tracked
    <3>1. v.driver = [w.driver EXCEPT !.checkpoint = FALSE, !.requested = FALSE,
                                      !.flushing = @ + 1, !.tracked = TRUE]
      BY <1>1, <2>2 DEF BlockedAtLimit, Worlds, AnyDriver
    <3>2. v.agent = w.agent /\ v.goal = goal0
      BY <1>1, <2>2 DEF BlockedAtLimit, Worlds
    <3>3. w.driver.flushing + 1 \in Nat
      BY <1>1 DEF AnyDriver
    <3> HIDE DEF v
    <3> QED BY <1>1, <3>1, <3>2, <3>3 DEF AnyDriver
  <2> QED BY <2>1, <2>2
<1>4. v = [agent |-> v.agent, goal |-> v.goal, driver |-> v.driver]
  BY DEF BlockedAtLimit, Worlds
<1> HIDE DEF goal0, v
<1>5. v \in Worlds
  BY <1>1, <1>2, <1>3, <1>4 DEF Worlds
<1> SUFFICES Shed(v, w)
  BY DEF v
<1> QED
  BY <1>1, <1>2, <1>3, <1>5 DEF Shed, SameAgent, SamePlugin, CanContinue

LEMMA ReserveReserves ==
  ASSUME NEW w \in Worlds, w.driver.attempt.phase = "none", CanContinue(w),
         ~w.goal.broken
  PROVE  Reserved(Reserve(w), w)
<1>1. /\ w.agent \in AnyAgent /\ w.goal \in AnyGoal /\ w.driver \in AnyDriver
      /\ w.goal.revision \in Nat /\ w.goal.rounds \in Nat
      /\ w.agent.nextTurn \in Seq(AnyMessage)
  BY WorldParts
<1> DEFINE copies == {c \in Copy : Round(w.goal.revision, w.goal.rounds + 1, c) \notin
                                     Pending(w) \union w.agent.batch}
           m == Round(w.goal.revision, w.goal.rounds + 1, Least(copies))
           attempt == [phase |-> "queued", message |-> m, cancelled |-> FALSE,
                       stale |-> FALSE]
           x == [w EXCEPT !.agent.nextTurn = Append(@, m), !.driver.attempt = attempt]
<1>2. Reserve(w) = Woken(x)
  BY DEF Reserve, Least
<1>3. m \in AnyMessage /\ Present(w, m)
  <2>1. Least(copies) \in AnyCopy
    BY copies \in SUBSET Copy DEF AnyCopy
  <2> HIDE DEF copies
  <2> QED BY <1>1, <2>1 DEF AnyMessage, Round, Present, IsRound
<1> HIDE DEF m
<1>4. attempt \in AnyAttempt /\ attempt.phase = "queued" /\ attempt.message = m
  BY <1>3 DEF AnyAttempt, Phases
<1> HIDE DEF attempt
<1>5. Append(w.agent.nextTurn, m) \in Seq(AnyMessage)
  BY <1>1, <1>3
<1> DEFINE agent0 == [w.agent EXCEPT !.nextTurn = Append(@, m)]
           driver0 == [w.driver EXCEPT !.attempt = attempt]
<1>6. x = [w EXCEPT !.agent = agent0, !.driver = driver0]
  BY <1>1 DEF Worlds
<1>7. /\ agent0 \in AnyAgent
      /\ agent0.at = w.agent.at /\ agent0.aborted = w.agent.aborted
      /\ agent0.nextTurn = Append(w.agent.nextTurn, m)
      /\ agent0.nextStep = w.agent.nextStep /\ agent0.batch = w.agent.batch
  BY <1>1, <1>5 DEF AnyAgent
<1>8. /\ driver0 \in AnyDriver /\ driver0.attempt = attempt
      /\ driver0.plugin = w.driver.plugin
  BY <1>1, <1>4 DEF AnyDriver
<1> HIDE DEF x, agent0, driver0
<1>9. /\ x \in Worlds /\ x.agent = agent0 /\ x.driver = driver0
      /\ x.goal = w.goal
  BY <1>1, <1>6, <1>7, <1>8 DEF Worlds
<1>10. QueuedIn(x, w, m)
  BY <1>4, <1>7, <1>8, <1>9 DEF QueuedIn, SameGoal, SamePlugin
<1>11. WokenBy(Reserve(w), x)
  BY <1>2, <1>9, WokenWakes
<1> QED BY <1>3, <1>9, <1>10, <1>11 DEF Reserved

LEMMA DrivenWorlds ==
  ASSUME NEW w, NEW v, Driven(v, w) PROVE v \in Worlds
<1>1. \A x : WokenBy(v, x) => v \in Worlds
  BY DEF WokenBy, Claimed, Alike
<1>2. Reserved(v, w) => v \in Worlds
  BY <1>1 DEF Reserved
<1> QED BY <1>2 DEF Driven, Alike, Shed, Dropped

LEMMA DriveDrives ==
  ASSUME NEW w \in Worlds PROVE Driven(Drive(w), w)
<1>1. /\ w.agent \in AnyAgent /\ w.goal \in AnyGoal /\ w.driver \in AnyDriver
      /\ w.goal.rounds \in Nat
  BY WorldParts
<1>2. CASE w.driver.attempt.phase # "none"
  <2> DEFINE driver0 == [w.driver EXCEPT !.attempt = NoAttempt, !.checkpoint = TRUE,
                                         !.requested = TRUE]
             v == [w EXCEPT !.driver.attempt = NoAttempt, !.driver.checkpoint = TRUE,
                            !.driver.requested = TRUE]
  <2>1. Drive(w) = Loops(v)
    BY <1>2 DEF Drive
  <2>2. v = [w EXCEPT !.driver = driver0]
    BY <1>1 DEF Worlds, AnyDriver
  <2>3. NoAttempt \in AnyAttempt /\ NoAttempt.phase = "none"
    BY DEF NoAttempt, AnyAttempt, Phases, AnyMessage, Round, AnyCopy
  <2>4. /\ driver0 \in AnyDriver /\ driver0.attempt = NoAttempt
        /\ driver0.plugin = w.driver.plugin
    BY <1>1, <2>3 DEF AnyDriver
  <2> HIDE DEF driver0, v
  <2>5. v \in Worlds /\ v.agent = w.agent /\ v.goal = w.goal /\ v.driver = driver0
    BY <1>1, <2>2, <2>4 DEF Worlds
  <2>6. Dropped(v, w)
    BY <2>3, <2>4, <2>5 DEF Dropped, SameAgent, SameGoal, SamePlugin
  <2>7. Alike(Drive(w), v)
    BY <2>1, <2>5, LoopsAlike
  <2> QED BY <2>6, <2>7, ThenAlike DEF Driven
<1>3. CASE w.driver.attempt.phase = "none" /\ (w.goal.broken \/ ~CanContinue(w))
  <2>1. Drive(w) = Loops(w)
    BY <1>3 DEF Drive
  <2> QED BY <2>1, LoopsAlike DEF Driven
<1>4. CASE /\ w.driver.attempt.phase = "none" /\ ~w.goal.broken /\ CanContinue(w)
           /\ w.goal.rounds >= w.goal.max
  <2>1. Drive(w) = Loops(BlockedAtLimit(w))
    BY <1>4 DEF Drive
  <2>2. Shed(BlockedAtLimit(w), w) /\ BlockedAtLimit(w) \in Worlds
    BY BlockedSheds DEF Shed
  <2>3. Alike(Drive(w), BlockedAtLimit(w))
    BY <2>1, <2>2, LoopsAlike
  <2> QED BY <2>2, <2>3, ThenAlike DEF Driven
<1>5. CASE /\ w.driver.attempt.phase = "none" /\ ~w.goal.broken /\ CanContinue(w)
           /\ ~(w.goal.rounds >= w.goal.max)
  <2>1. Drive(w) = Loops(Reserve(w))
    BY <1>5 DEF Drive
  <2>2. Driven(Reserve(w), w)
    BY <1>5, ReserveReserves DEF Driven
  <2>3. Alike(Drive(w), Reserve(w))
    BY <2>1, <2>2, DrivenWorlds, LoopsAlike
  <2> QED BY <2>2, <2>3, ThenAlike
<1> QED BY <1>2, <1>3, <1>4, <1>5

\* A drive acts at a driver that is up, over an agent that reads as idle.
Acts(v, w) == Alike(v, w) \/ (Ready(w) /\ ~w.driver.checkpoint /\ Driven(v, w))

LEMMA StartsAct ==
  ASSUME NEW w \in Worlds PROVE Acts(DriveStarts(w), w)
<1>1. /\ w.agent \in AnyAgent /\ w.goal \in AnyGoal /\ w.driver \in AnyDriver
  BY WorldParts
<1> DEFINE at == [w EXCEPT !.driver.requested = FALSE]
<1>2. /\ at \in Worlds /\ Alike(at, w)
      /\ at.driver.checkpoint = w.driver.checkpoint
      /\ at.driver.competing = w.driver.competing
  BY <1>1 DEF Alike, SameAgent, SameGoal, SameAttempt, SamePlugin, Worlds, AnyDriver
<1>3. Ready(at) => Ready(w)
  BY <1>2 DEF Ready, Stopping, IsIdle, Alike, SameAgent, SamePlugin
<1>4. DriveStarts(w) = CASE ~Ready(at) -> Loops(at)
                         [] Ready(at) /\ at.driver.checkpoint ->
                              [at EXCEPT !.driver.checkpoint = FALSE,
                                         !.driver.flushing = @ + 1]
                         [] OTHER -> Drive(at)
  BY DEF DriveStarts
<1> HIDE DEF at
<1>5. CASE ~Ready(at)
  <2>1. DriveStarts(w) = Loops(at)
    BY <1>4, <1>5
  <2>2. Alike(Loops(at), at)
    BY <1>2, LoopsAlike
  <2> QED BY <1>2, <2>1, <2>2, AlikeComposes DEF Acts
<1>6. CASE Ready(at) /\ at.driver.checkpoint
  <2>1. DriveStarts(w) = [at EXCEPT !.driver.checkpoint = FALSE,
                                    !.driver.flushing = @ + 1]
    BY <1>4, <1>6
  <2>2. Alike([at EXCEPT !.driver.checkpoint = FALSE, !.driver.flushing = @ + 1], at)
    <3> DEFINE driver0 == [at.driver EXCEPT !.checkpoint = FALSE, !.flushing = @ + 1]
               v == [at EXCEPT !.driver.checkpoint = FALSE, !.driver.flushing = @ + 1]
    <3>1. at.driver \in AnyDriver /\ at.driver.flushing + 1 \in Nat
      BY <1>2 DEF Worlds, AnyDriver
    <3>2. /\ driver0 \in AnyDriver /\ driver0.attempt = at.driver.attempt
          /\ driver0.plugin = at.driver.plugin
      BY <3>1 DEF AnyDriver
    <3>3. v = [at EXCEPT !.driver = driver0]
      BY <1>2 DEF Worlds, AnyDriver
    <3> HIDE DEF driver0, v
    <3>4. v \in Worlds /\ v.agent = at.agent /\ v.goal = at.goal /\ v.driver = driver0
      BY <1>2, <3>2, <3>3 DEF Worlds
    <3>5. Alike(v, at)
      BY <3>2, <3>4 DEF Alike, SameAgent, SameGoal, SameAttempt, SamePlugin
    <3> QED BY <3>5 DEF v
  <2> QED BY <1>2, <2>1, <2>2, AlikeComposes DEF Acts
<1>7. CASE Ready(at) /\ ~at.driver.checkpoint
  <2>1. DriveStarts(w) = Drive(at)
    BY <1>4, <1>7
  <2>2. Driven(Drive(at), at)
    BY <1>2, DriveDrives
  <2>3. Driven(DriveStarts(w), w)
    BY <1>2, <2>1, <2>2, BehindAlike
  <2> QED BY <1>2, <1>3, <1>7, <2>3 DEF Acts
<1> QED BY <1>5, <1>6, <1>7

LEMMA RequestActs ==
  ASSUME NEW w \in Worlds PROVE Acts(requestDrive(w), w)
<1>1. CASE Stopping(w)
  <2>1. requestDrive(w) = w
    BY <1>1 DEF requestDrive
  <2> QED BY <2>1, AlikeItself DEF Acts
<1>2. CASE ~Stopping(w) /\ w.driver.tracked
  <2>1. requestDrive(w) = [w EXCEPT !.driver.requested = TRUE]
    BY <1>2 DEF requestDrive
  <2>2. Alike([w EXCEPT !.driver.requested = TRUE], w)
    BY DEF Alike, SameAgent, SameGoal, SameAttempt, SamePlugin, Worlds, AnyDriver
  <2> QED BY <2>1, <2>2 DEF Acts
<1>3. CASE ~Stopping(w) /\ ~w.driver.tracked
  <2> DEFINE v == DriveStarts(w)
  <2>1. requestDrive(w) = [v EXCEPT !.driver.tracked = TRUE]
    BY <1>3 DEF requestDrive
  <2>2. Acts(v, w)
    BY StartsAct
  <2> HIDE DEF v
  <2>3. v \in Worlds
    BY <2>2, DrivenWorlds DEF Acts, Alike
  <2>4. Alike([v EXCEPT !.driver.tracked = TRUE], v)
    BY <2>3
       DEF Alike, SameAgent, SameGoal, SameAttempt, SamePlugin, Worlds, AnyDriver
  <2> QED BY <2>1, <2>2, <2>4, AlikeComposes, ThenAlike DEF Acts
<1> QED BY <1>1, <1>2, <1>3

LEMMA ChangedAlike ==
  ASSUME NEW w \in Worlds PROVE Alike(Changed(w), w)
<1> DEFINE x == [w EXCEPT !.driver.checkpoint = TRUE]
<1>1. Alike(x, w) /\ x \in Worlds /\ x.driver.checkpoint = TRUE
  BY DEF Alike, SameAgent, SameGoal, SameAttempt, SamePlugin, Worlds, AnyDriver
<1>2. Changed(w) = requestDrive(x) \/ Changed(w) = w
  BY DEF Changed
<1> HIDE DEF x
<1>3. Alike(requestDrive(x), x)
  BY <1>1, RequestActs DEF Acts
<1> QED BY <1>1, <1>2, <1>3, AlikeComposes, AlikeItself

LEMMA StopSheds ==
  ASSUME NEW w \in Worlds, NEW phase \in {"paused", "blocked"}
  PROVE  Shed(Stop(w, phase), w)
<1>1. /\ w.agent \in AnyAgent /\ w.goal \in AnyGoal /\ w.driver \in AnyDriver
      /\ w.goal.revision \in Nat
  BY WorldParts
<1> DEFINE goal0 == [w.goal EXCEPT !.phase = phase, !.armed = FALSE, !.revision = @ + 1]
           driver0 == [w.driver EXCEPT !.checkpoint = TRUE]
           x == [w EXCEPT !.goal.phase = phase, !.goal.armed = FALSE,
                          !.goal.revision = @ + 1, !.driver.checkpoint = TRUE]
<1>2. /\ goal0 \in AnyGoal /\ goal0.phase = phase /\ goal0.rounds = w.goal.rounds
      /\ goal0.revision = w.goal.revision + 1
  <2>1. w.goal.revision + 1 \in Nat
    BY <1>1
  <2> QED BY <1>1, <2>1 DEF AnyGoal
<1>3. /\ driver0 \in AnyDriver /\ driver0.attempt = w.driver.attempt
      /\ driver0.plugin = w.driver.plugin /\ driver0.checkpoint = TRUE
  BY <1>1 DEF AnyDriver
<1>4. x = [w EXCEPT !.goal = goal0, !.driver = driver0]
  BY <1>1 DEF Worlds, AnyGoal, AnyDriver
<1>5. Stop(w, phase) = requestDrive(x)
  BY DEF Stop
<1> HIDE DEF x, goal0, driver0
<1>6. x \in Worlds /\ x.agent = w.agent /\ x.goal = goal0 /\ x.driver = driver0
  BY <1>1, <1>2, <1>3, <1>4 DEF Worlds
<1>7. ~CanContinue(x)
  BY <1>2, <1>6 DEF CanContinue
<1>8. Shed(x, w)
  BY <1>1, <1>2, <1>3, <1>6, <1>7 DEF Shed, SameAgent, SamePlugin
<1>9. Alike(Stop(w, phase), x)
  BY <1>3, <1>5, <1>6, RequestActs DEF Acts
<1> QED BY <1>8, <1>9, ShedThenAlike

-----------------------------------------------------------------------------
(* The relations keep the invariant.  What else a step may never do:       *)

Mild(v, w, stopped) ==
  /\ v.driver.plugin = w.driver.plugin
  /\ v.goal.rounds = w.goal.rounds
  /\ stopped /\ w.driver.attempt.phase = "none" => v.driver.attempt.phase = "none"

LEMMA MessagesTyped ==
  ASSUME NEW w \in Worlds
  PROVE  \A m \in Queue(w) \union w.agent.batch \union w.agent.nextStep :
           m \in AnyMessage /\ m.revision \in Nat
<1>1. /\ w.agent.nextTurn \in Seq(AnyMessage)
      /\ w.agent.nextStep \subseteq AnyMessage /\ w.agent.batch \subseteq AnyMessage
  BY WorldParts
<1>2. Queue(w) \subseteq AnyMessage
  BY <1>1 DEF Queue
<1>3. \A m \in AnyMessage : m.revision \in Nat
  BY DEF AnyMessage
<1> QED BY <1>1, <1>2, <1>3

LEMMA AlikeKeeps ==
  ASSUME NEW v, NEW w, NEW resting, NEW stopped, Good(w, resting, stopped), Alike(v, w)
  PROVE  Good(v, resting, stopped) /\ Mild(v, w, stopped)
<1> USE DEF Alike, SameAgent, SameGoal, SameAttempt, SamePlugin
<1>1. v \in Worlds /\ Queue(v) = Queue(w) /\ \A m : Present(v, m) <=> Present(w, m)
  BY DEF Queue, Present
<1>2. RoundsAtPlace(w) => RoundsAtPlace(v)
  BY <1>1 DEF RoundsAtPlace
<1>3. DrainIsClean(w) => DrainIsClean(v)
  BY <1>1 DEF DrainIsClean
<1>4. AtMostOne(w) => AtMostOne(v)
  BY <1>1 DEF AtMostOne
<1>5. PresentIsReserved(w) => PresentIsReserved(v)
  BY <1>1 DEF PresentIsReserved, CanContinue
<1>6. HaltHolds(w) => HaltHolds(v)
  BY DEF HaltHolds, CanContinue, Listens
<1>7. Mild(v, w, stopped)
  BY DEF Mild
<1> QED BY <1>1, <1>2, <1>3, <1>4, <1>5, <1>6, <1>7 DEF Good

\* No round is present at a revision to come.
LEMMA LaterRevision ==
  ASSUME NEW v \in Worlds, NEW w \in Worlds, RoundsAtPlace(w), SameAgent(v, w),
         v.goal.revision >= w.goal.revision
  PROVE  /\ RoundsAtPlace(v)
         /\ AtMostOne(w) => AtMostOne(v)
         /\ v.goal.revision > w.goal.revision => AtMostOne(v)
<1>1. v.goal.revision \in Nat /\ w.goal.revision \in Nat
  BY WorldParts
<1>2. Queue(v) = Queue(w) /\ v.agent.batch = w.agent.batch
      /\ v.agent.nextTurn = w.agent.nextTurn
  BY DEF SameAgent, Queue
<1>3. \A m \in Queue(w) \union w.agent.batch :
        IsRound(m) => /\ m.revision \in Nat
                      /\ m.revision <= w.goal.revision
                      /\ m.revision <= v.goal.revision
  BY <1>1, MessagesTyped DEF RoundsAtPlace
<1>4. \A m \in Queue(w) \union w.agent.batch :
        Present(v, m) => Present(w, m) /\ v.goal.revision = w.goal.revision
  BY <1>1, <1>3 DEF Present
<1>5. RoundsAtPlace(v)
  BY <1>2, <1>3 DEF RoundsAtPlace, SameAgent
<1>6. \A i \in DOMAIN v.agent.nextTurn : v.agent.nextTurn[i] \in Queue(w)
  BY <1>2 DEF Queue
<1>7. AtMostOne(w) => AtMostOne(v)
  BY <1>2, <1>4, <1>6 DEF AtMostOne
<1>8. v.goal.revision > w.goal.revision => AtMostOne(v)
  BY <1>1, <1>2, <1>4, <1>6 DEF AtMostOne
<1> QED BY <1>5, <1>7, <1>8

LEMMA ShedKeeps ==
  ASSUME NEW v, NEW w, NEW resting, NEW stopped, Good(w, resting, stopped), Shed(v, w)
  PROVE  Good(v, resting, stopped) /\ Mild(v, w, stopped)
<1>1. /\ v \in Worlds /\ w \in Worlds /\ SameAgent(v, w) /\ SamePlugin(v, w)
      /\ v.goal.revision >= w.goal.revision /\ RoundsAtPlace(w)
  BY DEF Good, Shed
<1>2. RoundsAtPlace(v) /\ (AtMostOne(w) => AtMostOne(v))
  BY <1>1, LaterRevision
<1>3. DrainIsClean(w) => DrainIsClean(v)
  BY <1>1 DEF DrainIsClean, Queue, SameAgent, SamePlugin
<1>4. PresentIsReserved(v) /\ HaltHolds(v)
  BY DEF PresentIsReserved, HaltHolds, Shed
<1>5. Mild(v, w, stopped)
  BY <1>1 DEF Mild, Shed, SamePlugin
<1> QED BY <1>1, <1>2, <1>3, <1>4, <1>5 DEF Good, SameAgent

\* At an idle agent nothing is lost with a reservation.
LEMMA DroppedKeeps ==
  ASSUME NEW v, NEW w, NEW resting, NEW stopped, Good(w, resting, stopped),
         Dropped(v, w), IsIdle(w)
  PROVE  Good(v, resting, stopped) /\ Mild(v, w, stopped)
<1> USE DEF Dropped, SameAgent, SameGoal, SamePlugin
<1>1. v \in Worlds /\ Queue(v) = Queue(w) /\ \A m : Present(v, m) <=> Present(w, m)
  BY DEF Queue, Present
<1>2. RoundsAtPlace(w) => RoundsAtPlace(v)
  BY <1>1 DEF RoundsAtPlace
<1>3. DrainIsClean(w) => DrainIsClean(v)
  BY <1>1 DEF DrainIsClean
<1>4. AtMostOne(w) => AtMostOne(v)
  BY <1>1 DEF AtMostOne
<1>5. PresentIsReserved(w) /\ w.agent.at # "maintenance" => PresentIsReserved(v)
  BY <1>1 DEF PresentIsReserved, CanContinue, IsIdle
<1>6. HaltHolds(w) => HaltHolds(v)
  BY DEF HaltHolds, CanContinue, Listens, IsIdle, Running
<1>7. Mild(v, w, stopped)
  BY DEF Mild
<1> QED BY <1>1, <1>2, <1>3, <1>4, <1>5, <1>6, <1>7 DEF Good

\* The rounds of the queue, apart from those that are claimed.
QueuedIsReserved(w) ==
  CanContinue(w) /\ ~w.goal.broken =>
    \A m \in Queue(w) : Present(w, m) =>
      /\ w.driver.plugin = "up"
      /\ w.driver.attempt.message = m
      /\ w.driver.attempt.phase \in {"queued", "claimed"}

\* Nothing is left for a cancelled turn to stop.
NothingToStop(w) == ~(CanContinue(w) /\ ~w.goal.broken /\ Listens(w))

\* What a world has to be for a claim.
Claimable(w, resting, stopped) ==
  /\ w \in Worlds
  /\ RoundsAtPlace(w)
  /\ DrainIsClean(w)
  /\ w.agent.batch = {}
  /\ resting => AtMostOne(w) /\ QueuedIsReserved(w)
  /\ stopped => NothingToStop(w)

LEMMA ClaimedPlaces ==
  ASSUME NEW v, NEW w \in Worlds, Claimed(v, w), RoundsAtPlace(w)
  PROVE  /\ \A i \in DOMAIN v.agent.nextTurn :
              /\ i + 1 \in DOMAIN w.agent.nextTurn
              /\ v.agent.nextTurn[i] = w.agent.nextTurn[i + 1]
              /\ i \in Nat \ {0}
         /\ \A m \in v.agent.batch : IsRound(m) =>
              1 \in DOMAIN w.agent.nextTurn /\ m = w.agent.nextTurn[1]
<1> DEFINE list == w.agent.nextTurn
<1>1. list \in Seq(AnyMessage)
  BY WorldParts
<1>2. \A m \in w.agent.nextStep : ~IsRound(m)
  BY DEF RoundsAtPlace
<1>3. CASE list = <<>>
  BY <1>2, <1>3 DEF Claimed
<1>4. CASE list # <<>>
  <2>1. /\ v.agent.nextTurn = Tail(list)
        /\ v.agent.batch = w.agent.nextStep \union {Head(list)}
    BY <1>4 DEF Claimed
  <2>2. /\ Head(list) = list[1] /\ 1 \in DOMAIN list
        /\ DOMAIN list = 1 .. Len(list) /\ Len(list) \in Nat \ {0}
        /\ DOMAIN Tail(list) = 1 .. Len(list) - 1
        /\ \A i \in 1 .. Len(list) - 1 : Tail(list)[i] = list[i + 1]
    BY <1>1, <1>4, HeadAndTail
  <2> HIDE DEF list
  <2>3. \A i \in 1 .. Len(list) - 1 : i + 1 \in 1 .. Len(list) /\ i \in Nat \ {0}
    BY <2>2
  <2>4. \A m \in v.agent.batch : IsRound(m) => 1 \in DOMAIN list /\ m = list[1]
    BY <1>2, <2>1, <2>2
  <2>5. \A i \in DOMAIN v.agent.nextTurn :
          /\ i + 1 \in DOMAIN list /\ v.agent.nextTurn[i] = list[i + 1]
          /\ i \in Nat \ {0}
    BY <2>1, <2>2, <2>3
  <2> QED BY <2>4, <2>5 DEF list
<1> QED BY <1>3, <1>4

LEMMA ClaimedKeeps ==
  ASSUME NEW v, NEW w, NEW resting, NEW stopped, Claimable(w, resting, stopped),
         Claimed(v, w)
  PROVE  Good(v, resting, stopped) /\ Mild(v, w, stopped)
<1>1. /\ v \in Worlds /\ w \in Worlds /\ RoundsAtPlace(w) /\ DrainIsClean(w)
      /\ v.agent.at = "assembling" /\ v.agent.nextStep = {} /\ SameGoal(v, w)
      /\ SamePlugin(v, w)
  BY DEF Claimable, Claimed
<1>2. \A i \in DOMAIN v.agent.nextTurn :
        /\ i + 1 \in DOMAIN w.agent.nextTurn
        /\ v.agent.nextTurn[i] = w.agent.nextTurn[i + 1]
        /\ i \in Nat \ {0}
  BY <1>1, ClaimedPlaces
<1>3. \A m \in v.agent.batch : IsRound(m) =>
        1 \in DOMAIN w.agent.nextTurn /\ m = w.agent.nextTurn[1]
  BY <1>1, ClaimedPlaces
<1>4. Queue(v) \subseteq Queue(w)
  BY <1>2 DEF Queue
<1>5. \A m \in v.agent.batch : IsRound(m) => m \in Queue(w)
  BY <1>3 DEF Queue
<1>6. \A m : Present(v, m) <=> Present(w, m)
  BY <1>1 DEF Present, SameGoal
<1>7. RoundsAtPlace(v)
  BY <1>1, <1>3, <1>4, <1>5 DEF RoundsAtPlace, SameGoal
<1>8. DrainIsClean(v)
  BY <1>1, <1>4, <1>5 DEF DrainIsClean, SamePlugin
<1>9. AtMostOne(w) => AtMostOne(v)
  <2> HAVE AtMostOne(w)
  <2>1. \A i, j \in DOMAIN v.agent.nextTurn :
          Present(v, v.agent.nextTurn[i]) /\ Present(v, v.agent.nextTurn[j]) => i = j
    <3> TAKE i, j \in DOMAIN v.agent.nextTurn
    <3> HAVE Present(v, v.agent.nextTurn[i]) /\ Present(v, v.agent.nextTurn[j])
    <3>1. i + 1 = j + 1
      BY <1>2, <1>6 DEF AtMostOne
    <3> QED BY <1>2, <3>1
  <2>2. ASSUME NEW m \in Queue(v), NEW o \in v.agent.batch,
               Present(v, m), Present(v, o)
        PROVE  FALSE
    <3>1. PICK i \in DOMAIN v.agent.nextTurn : m = v.agent.nextTurn[i]
      BY DEF Queue
    <3>2. IsRound(o) /\ 1 \in DOMAIN w.agent.nextTurn /\ o = w.agent.nextTurn[1]
      BY <1>3, <2>2 DEF Present
    <3>3. i + 1 \in DOMAIN w.agent.nextTurn /\ m = w.agent.nextTurn[i + 1]
      BY <1>2, <3>1
    <3>4. i + 1 = 1
      BY <1>6, <2>2, <3>2, <3>3 DEF AtMostOne
    <3> QED BY <1>2, <3>1, <3>4
  <2> QED BY <2>1, <2>2 DEF AtMostOne
<1>10. QueuedIsReserved(w) => PresentIsReserved(v)
  <2> HAVE QueuedIsReserved(w)
  <2>1. CanContinue(v) /\ ~v.goal.broken => CanContinue(w) /\ ~w.goal.broken
    BY <1>1 DEF SameGoal, CanContinue
  <2>2. \A m \in Queue(v) \union v.agent.batch : Present(v, m) =>
          m \in Queue(w) /\ Present(w, m)
    BY <1>4, <1>5, <1>6 DEF Present
  <2>3. /\ v.driver.attempt.message = w.driver.attempt.message
        /\ \/ v.driver.attempt.phase = w.driver.attempt.phase
           \/ v.driver.attempt.phase = "claimed"
    BY DEF Claimed
  <2> QED BY <1>1, <2>1, <2>2, <2>3 DEF QueuedIsReserved, PresentIsReserved, SamePlugin
<1>11. NothingToStop(w) => HaltHolds(v)
  BY <1>1 DEF NothingToStop, HaltHolds, SameGoal, SamePlugin, CanContinue, Listens
<1>12. Mild(v, w, stopped)
  BY <1>1 DEF Mild, Claimed, SameGoal, SamePlugin
<1> QED
  BY <1>1, <1>7, <1>8, <1>9, <1>10, <1>11, <1>12 DEF Good, Claimable

LEMMA GoodIsClaimable ==
  ASSUME NEW w, NEW resting, NEW stopped, Good(w, resting, stopped),
         IsIdle(w) \/ (w.agent.at = "step" /\ ~w.agent.aborted)
  PROVE  Claimable(w, resting, stopped)
<1>1. w.agent.batch = {}
  BY DEF Good, RoundsAtPlace, IsIdle
<1>2. PresentIsReserved(w) => QueuedIsReserved(w)
  BY DEF PresentIsReserved, QueuedIsReserved
<1>3. HaltHolds(w) => NothingToStop(w)
  BY DEF HaltHolds, NothingToStop, IsIdle, Running
<1> QED BY <1>1, <1>2, <1>3 DEF Good, Claimable

LEMMA QueueGrows ==
  ASSUME NEW list \in Seq(AnyMessage), NEW m \in AnyMessage
  PROVE  /\ DOMAIN list = 1 .. Len(list) /\ Len(list) \in Nat
         /\ DOMAIN Append(list, m) = 1 .. Len(list) + 1
         /\ \A i \in 1 .. Len(list) : Append(list, m)[i] = list[i]
         /\ Append(list, m)[Len(list) + 1] = m
         /\ Append(list, m) \in Seq(AnyMessage)
OBVIOUS

LEMMA QueueOfAppend ==
  ASSUME NEW w \in Worlds, NEW x, NEW m \in AnyMessage,
         x.agent.nextTurn = Append(w.agent.nextTurn, m)
  PROVE  /\ Queue(x) = Queue(w) \union {m}
         /\ \A i \in DOMAIN x.agent.nextTurn :
              \/ i \in DOMAIN w.agent.nextTurn
                 /\ x.agent.nextTurn[i] = w.agent.nextTurn[i]
              \/ i = Len(w.agent.nextTurn) + 1 /\ x.agent.nextTurn[i] = m
<1> DEFINE list == w.agent.nextTurn
<1>1. list \in Seq(AnyMessage)
  BY WorldParts
<1>2. /\ DOMAIN list = 1 .. Len(list) /\ Len(list) \in Nat
      /\ DOMAIN Append(list, m) = 1 .. Len(list) + 1
      /\ \A i \in 1 .. Len(list) : Append(list, m)[i] = list[i]
      /\ Append(list, m)[Len(list) + 1] = m
  BY <1>1, QueueGrows
<1>3. \A i \in 1 .. Len(list) + 1 : i \in 1 .. Len(list) \/ i = Len(list) + 1
  BY <1>2
<1>4. \A i \in 1 .. Len(list) : i \in 1 .. Len(list) + 1
  BY <1>2
<1>5. Len(list) + 1 \in 1 .. Len(list) + 1
  BY <1>2
<1> DEFINE n == Len(list)
           longer == Append(list, m)
<1> HIDE DEF list, n, longer
<1>6. /\ DOMAIN list = 1 .. n /\ DOMAIN longer = 1 .. n + 1
      /\ \A i \in 1 .. n : longer[i] = list[i] /\ i \in 1 .. n + 1
      /\ longer[n + 1] = m /\ n + 1 \in 1 .. n + 1
      /\ \A i \in 1 .. n + 1 : i \in 1 .. n \/ i = n + 1
  BY <1>2, <1>3, <1>4, <1>5 DEF n, longer
<1>7. {longer[i] : i \in DOMAIN longer} = {list[i] : i \in DOMAIN list} \union {m}
  BY <1>6
<1>8. Queue(x) = Queue(w) \union {m}
  BY <1>7 DEF Queue, list, longer
<1>9. \A i \in DOMAIN longer :
        (i \in DOMAIN list /\ longer[i] = list[i]) \/ (i = n + 1 /\ longer[i] = m)
  BY <1>6
<1> QED BY <1>8, <1>9 DEF list, longer, n

\* A drive that reserves: the goal may continue, the agent is at rest, and
\* nothing was cancelled since somebody changed the goal.
LEMMA ReservedKeeps ==
  ASSUME NEW v, NEW w, NEW resting, NEW stopped, Good(w, resting, stopped),
         Ready(w), Reserved(v, w)
  PROVE  Good(v, resting, stopped) /\ Mild(v, w, stopped)
<1>1. /\ w \in Worlds /\ RoundsAtPlace(w) /\ IsIdle(w) /\ w.driver.plugin = "up"
      /\ w.driver.attempt.phase = "none" /\ CanContinue(w) /\ ~w.goal.broken
  BY DEF Good, Ready, Stopping, Reserved
<1>2. ~stopped
  BY <1>1 DEF Good, HaltHolds, Listens, IsIdle, Running
<1>3. PICK m \in AnyMessage, x \in Worlds :
        Present(w, m) /\ QueuedIn(x, w, m) /\ WokenBy(v, x)
  BY DEF Reserved
<1>4. /\ x.agent.at = w.agent.at /\ x.agent.aborted = w.agent.aborted
      /\ x.agent.nextTurn = Append(w.agent.nextTurn, m)
      /\ x.agent.nextStep = w.agent.nextStep /\ x.agent.batch = w.agent.batch
      /\ SameGoal(x, w) /\ SamePlugin(x, w)
      /\ x.driver.attempt.phase = "queued" /\ x.driver.attempt.message = m
  BY <1>3 DEF QueuedIn
<1>5. /\ Queue(x) = Queue(w) \union {m}
      /\ \A i \in DOMAIN x.agent.nextTurn :
           \/ i \in DOMAIN w.agent.nextTurn
              /\ x.agent.nextTurn[i] = w.agent.nextTurn[i]
           \/ i = Len(w.agent.nextTurn) + 1 /\ x.agent.nextTurn[i] = m
  BY <1>1, <1>4, QueueOfAppend
<1>6. \A o : Present(x, o) <=> Present(w, o)
  BY <1>4 DEF Present, SameGoal
<1>7. w.agent.batch = {}
  BY <1>1 DEF RoundsAtPlace, IsIdle
<1>8. RoundsAtPlace(x)
  <2>1. m.revision <= w.goal.revision
    <3>1. m.revision = w.goal.revision /\ w.goal.revision \in Nat
      BY <1>1, <1>3, WorldParts DEF Present
    <3> QED BY <3>1
  <2>2. x.goal.revision = w.goal.revision
    BY <1>4 DEF SameGoal
  <2> QED BY <1>1, <1>4, <1>5, <1>7, <2>1, <2>2 DEF RoundsAtPlace
<1>9. DrainIsClean(x)
  BY <1>1, <1>4 DEF DrainIsClean, SamePlugin
<1>10. resting => AtMostOne(x) /\ QueuedIsReserved(x)
  <2> HAVE resting
  <2>1. \A o \in Queue(w) : ~Present(w, o)
    BY <1>1 DEF Good, PresentIsReserved, IsIdle
  <2>2. \A i \in DOMAIN w.agent.nextTurn : ~Present(x, w.agent.nextTurn[i])
    BY <1>6, <2>1 DEF Queue
  <2>3. AtMostOne(x)
    BY <1>4, <1>5, <1>7, <2>2 DEF AtMostOne
  <2>4. QueuedIsReserved(x)
    BY <1>1, <1>4, <1>5, <1>6, <2>1 DEF QueuedIsReserved, SamePlugin
  <2> QED BY <2>3, <2>4
<1>11. Mild(x, w, stopped)
  BY <1>2, <1>4 DEF Mild, SameGoal, SamePlugin
<1>12. CASE w.agent.at = "idle"
  <2>1. Claimed(v, x)
    BY <1>3, <1>4, <1>12 DEF WokenBy
  <2>2. Claimable(x, resting, stopped)
    BY <1>2, <1>3, <1>4, <1>7, <1>8, <1>9, <1>10 DEF Claimable
  <2>3. Good(v, resting, stopped) /\ Mild(v, x, stopped)
    BY <2>1, <2>2, ClaimedKeeps
  <2> QED BY <1>2, <1>11, <2>3 DEF Mild
<1>13. CASE w.agent.at # "idle"
  <2>1. w.agent.at = "maintenance" /\ ~resting
    BY <1>1, <1>13 DEF IsIdle, Good
  <2>2. Good(x, resting, stopped)
    BY <1>2, <1>3, <1>8, <1>9, <2>1 DEF Good
  <2>3. Alike(v, x)
    BY <1>3, <1>4, <1>13 DEF WokenBy
  <2>4. Good(v, resting, stopped) /\ Mild(v, x, stopped)
    BY <2>2, <2>3, AlikeKeeps
  <2> QED BY <1>2, <1>11, <2>4 DEF Mild
<1> QED BY <1>12, <1>13

LEMMA ActsKeep ==
  ASSUME NEW v, NEW w, NEW resting, NEW stopped, Good(w, resting, stopped), Acts(v, w)
  PROVE  Good(v, resting, stopped) /\ Mild(v, w, stopped)
<1>1. Ready(w) => IsIdle(w)
  BY DEF Ready
<1> QED BY <1>1, AlikeKeeps, ShedKeeps, DroppedKeeps, ReservedKeeps DEF Acts, Driven

LEMMA RequestKeeps ==
  ASSUME NEW w, NEW resting, NEW stopped, Good(w, resting, stopped)
  PROVE  /\ Good(requestDrive(w), resting, stopped)
         /\ Mild(requestDrive(w), w, stopped)
<1>1. Acts(requestDrive(w), w)
  BY RequestActs DEF Good
<1> QED BY <1>1, ActsKeep

\* While the agent runs, a request is only noted.
LEMMA RequestNotes ==
  ASSUME NEW w \in Worlds, ~IsIdle(w) PROVE Alike(requestDrive(w), w)
BY RequestActs DEF Acts, Ready

LEMMA WokenKeeps ==
  ASSUME NEW w, NEW resting, NEW stopped, Good(w, resting, stopped)
  PROVE  Good(Woken(w), resting, stopped) /\ Mild(Woken(w), w, stopped)
<1>1. WokenBy(Woken(w), w)
  BY WokenWakes DEF Good
<1>2. CASE w.agent.at = "idle"
  BY <1>1, <1>2, GoodIsClaimable, ClaimedKeeps DEF WokenBy, IsIdle
<1>3. CASE w.agent.at # "idle"
  BY <1>1, <1>3, AlikeKeeps DEF WokenBy
<1> QED BY <1>2, <1>3

-----------------------------------------------------------------------------
(* The ways out of a turn.  They leave the batch, so that less has to hold *)
(* of the world that is left.                                              *)

Ending(w, resting) ==
  /\ w \in Worlds
  /\ w.agent.at \in Running
  /\ \A m \in w.agent.nextStep : ~IsRound(m)
  /\ \A m \in Queue(w) : IsRound(m) => m.revision <= w.goal.revision
  /\ w.driver.plugin = "draining" => \A m \in Queue(w) : ~IsRound(m)
  /\ resting =>
       /\ \A i, j \in DOMAIN w.agent.nextTurn :
            Present(w, w.agent.nextTurn[i]) /\ Present(w, w.agent.nextTurn[j]) => i = j
       /\ QueuedIsReserved(w)

LEMMA GoodEnding ==
  ASSUME NEW w, NEW resting, NEW stopped, Good(w, resting, stopped),
         w.agent.at \in Running
  PROVE  Ending(w, resting)
<1>1. PresentIsReserved(w) => QueuedIsReserved(w)
  BY DEF PresentIsReserved, QueuedIsReserved
<1> QED
  BY <1>1 DEF Good, Ending, RoundsAtPlace, AtMostOne, DrainIsClean

LEMMA AlikeEnding ==
  ASSUME NEW v, NEW w, NEW resting, Ending(w, resting), Alike(v, w)
  PROVE  Ending(v, resting)
<1> USE DEF Alike, SameAgent, SameGoal, SameAttempt, SamePlugin
<1>1. v \in Worlds /\ Queue(v) = Queue(w) /\ \A m : Present(v, m) <=> Present(w, m)
  BY DEF Queue, Present
<1>2. QueuedIsReserved(w) => QueuedIsReserved(v)
  BY <1>1 DEF QueuedIsReserved, CanContinue
<1> QED BY <1>1, <1>2 DEF Ending

LEMMA ShedEnding ==
  ASSUME NEW v, NEW w, NEW resting, Ending(w, resting), Shed(v, w)
  PROVE  Ending(v, resting) /\ NothingToStop(v)
<1>1. /\ v \in Worlds /\ w \in Worlds /\ SameAgent(v, w) /\ SamePlugin(v, w)
      /\ v.goal.revision >= w.goal.revision
      /\ v.goal.revision \in Nat /\ w.goal.revision \in Nat
  BY WorldParts DEF Ending, Shed
<1>2. Queue(v) = Queue(w) /\ v.agent.nextTurn = w.agent.nextTurn
  BY <1>1 DEF SameAgent, Queue
<1>3. \A m \in Queue(w) : IsRound(m) =>
        /\ m.revision \in Nat
        /\ m.revision <= w.goal.revision /\ m.revision <= v.goal.revision
  BY <1>1, MessagesTyped DEF Ending
<1>4. \A m \in Queue(w) : Present(v, m) => Present(w, m)
  BY <1>1, <1>3 DEF Present
<1>5. \A i \in DOMAIN v.agent.nextTurn : v.agent.nextTurn[i] \in Queue(w)
  BY <1>2 DEF Queue
<1>6. QueuedIsReserved(v) /\ NothingToStop(v)
  BY DEF QueuedIsReserved, NothingToStop, Shed
<1> QED
  BY <1>1, <1>2, <1>3, <1>4, <1>5, <1>6 DEF Ending, SameAgent, SamePlugin

\* The reservation goes, and with it no round that is still queued.
LEMMA DroppedEnding ==
  ASSUME NEW v, NEW w, NEW resting, Ending(w, resting), Dropped(v, w),
         resting /\ CanContinue(w) /\ ~w.goal.broken =>
           \A m \in Queue(w) : ~Present(w, m)
  PROVE  Ending(v, resting)
<1> USE DEF Dropped, SameAgent, SameGoal, SamePlugin
<1>1. v \in Worlds /\ Queue(v) = Queue(w) /\ \A m : Present(v, m) <=> Present(w, m)
  BY DEF Queue, Present
<1>2. resting => QueuedIsReserved(v)
  BY <1>1 DEF QueuedIsReserved, CanContinue
<1> QED BY <1>1, <1>2 DEF Ending

LEMMA RestoredFields ==
  ASSUME NEW w \in Worlds
  PROVE  /\ Restored(w) \in Worlds
         /\ Restored(w).agent.at = w.agent.at
         /\ Restored(w).agent.nextTurn = w.agent.nextTurn
         /\ Restored(w).agent.nextStep
              = w.agent.nextStep \union {m \in w.agent.batch : ~IsRound(m)}
         /\ Restored(w).goal = w.goal /\ Restored(w).driver = w.driver
<1>1. /\ w.agent \in AnyAgent /\ w.goal \in AnyGoal /\ w.driver \in AnyDriver
      /\ w.agent.nextStep \subseteq AnyMessage /\ w.agent.batch \subseteq AnyMessage
  BY WorldParts
<1> DEFINE step == w.agent.nextStep \union {m \in w.agent.batch : ~IsRound(m)}
           a == [w.agent EXCEPT !.nextStep = step]
<1>2. step \subseteq AnyMessage
  BY <1>1
<1>3. Restored(w) = [w EXCEPT !.agent = a]
  BY <1>1 DEF Restored, Worlds, AnyAgent
<1> HIDE DEF step
<1>4. /\ a \in AnyAgent /\ a.at = w.agent.at /\ a.nextTurn = w.agent.nextTurn
      /\ a.nextStep = step
  BY <1>1, <1>2 DEF AnyAgent
<1> HIDE DEF a
<1>5. /\ [w EXCEPT !.agent = a] \in Worlds
      /\ [w EXCEPT !.agent = a].agent = a
      /\ [w EXCEPT !.agent = a].goal = w.goal
      /\ [w EXCEPT !.agent = a].driver = w.driver
  BY <1>4 DEF Worlds
<1> QED BY <1>3, <1>4, <1>5 DEF step

LEMMA RestoredEnding ==
  ASSUME NEW w, NEW resting, Ending(w, resting)
  PROVE  /\ Ending(Restored(w), resting)
         /\ NothingToStop(w) => NothingToStop(Restored(w))
<1>1. /\ w \in Worlds /\ Restored(w) \in Worlds
      /\ Restored(w).agent.at = w.agent.at
      /\ Restored(w).agent.nextTurn = w.agent.nextTurn
      /\ Restored(w).agent.nextStep
           = w.agent.nextStep \union {m \in w.agent.batch : ~IsRound(m)}
      /\ Restored(w).goal = w.goal /\ Restored(w).driver = w.driver
  BY RestoredFields DEF Ending
<1>2. Queue(Restored(w)) = Queue(w)
  BY <1>1 DEF Queue
<1>3. \A m : Present(Restored(w), m) <=> Present(w, m)
  BY <1>1 DEF Present
<1>4. QueuedIsReserved(w) => QueuedIsReserved(Restored(w))
  BY <1>1, <1>2, <1>3 DEF QueuedIsReserved, CanContinue
<1>5. NothingToStop(w) => NothingToStop(Restored(w))
  BY <1>1 DEF NothingToStop, CanContinue, Listens
<1> QED BY <1>1, <1>2, <1>3, <1>4, <1>5 DEF Ending

LEMMA LeavesFields ==
  ASSUME NEW w \in Worlds
  PROVE  /\ TurnLeaves(w) \in Worlds
         /\ TurnLeaves(w).agent.at = "leaving" /\ TurnLeaves(w).agent.batch = {}
         /\ TurnLeaves(w).agent.nextTurn = w.agent.nextTurn
         /\ TurnLeaves(w).agent.nextStep = w.agent.nextStep
         /\ TurnLeaves(w).goal = w.goal /\ TurnLeaves(w).driver = w.driver
<1>1. w.agent \in AnyAgent /\ w.goal \in AnyGoal /\ w.driver \in AnyDriver
  BY WorldParts
<1> DEFINE a == [w.agent EXCEPT !.at = "leaving", !.batch = {}]
<1>2. TurnLeaves(w) = [w EXCEPT !.agent = a]
  BY <1>1 DEF TurnLeaves, Worlds, AnyAgent
<1>3. /\ a \in AnyAgent /\ a.at = "leaving" /\ a.batch = {}
      /\ a.nextTurn = w.agent.nextTurn /\ a.nextStep = w.agent.nextStep
  BY <1>1 DEF AnyAgent, Running
<1> HIDE DEF a
<1>4. /\ [w EXCEPT !.agent = a] \in Worlds
      /\ [w EXCEPT !.agent = a].agent = a
      /\ [w EXCEPT !.agent = a].goal = w.goal
      /\ [w EXCEPT !.agent = a].driver = w.driver
  BY <1>3 DEF Worlds
<1> QED BY <1>2, <1>3, <1>4

\* A turn that was cancelled leaves a cancelled reservation, or no authority.
LEMMA LeavesKeep ==
  ASSUME NEW w, NEW resting, NEW stopped, Ending(w, resting),
         stopped => \/ NothingToStop(w)
                    \/ /\ w.driver.attempt.cancelled
                       /\ w.driver.attempt.phase \in {"claimed", "admitted"}
  PROVE  Good(TurnLeaves(w), resting, stopped) /\ Mild(TurnLeaves(w), w, stopped)
<1> DEFINE v == TurnLeaves(w)
<1>1. /\ w \in Worlds /\ v \in Worlds
      /\ v.agent.at = "leaving" /\ v.agent.batch = {}
      /\ v.agent.nextTurn = w.agent.nextTurn /\ v.agent.nextStep = w.agent.nextStep
      /\ v.goal = w.goal /\ v.driver = w.driver
  BY LeavesFields DEF Ending
<1> HIDE DEF v
<1>2. Queue(v) = Queue(w)
  BY <1>1 DEF Queue
<1>3. \A m : Present(v, m) <=> Present(w, m)
  BY <1>1 DEF Present
<1>4. RoundsAtPlace(v)
  BY <1>1, <1>2 DEF RoundsAtPlace, Ending
<1>5. DrainIsClean(v)
  BY <1>1, <1>2 DEF DrainIsClean, Ending
<1>6. resting => AtMostOne(v)
  BY <1>1, <1>2, <1>3 DEF AtMostOne, Ending
<1>7. QueuedIsReserved(w) => PresentIsReserved(v)
  BY <1>1, <1>2, <1>3 DEF QueuedIsReserved, PresentIsReserved, CanContinue
<1>8. stopped => HaltHolds(v)
  BY <1>1 DEF HaltHolds, NothingToStop, CanContinue, Listens
<1>9. Mild(v, w, stopped)
  BY <1>1 DEF Mild
<1> QED BY <1>1, <1>4, <1>5, <1>6, <1>7, <1>8, <1>9 DEF Good, Ending, v

LEMMA DisarmedEnding ==
  ASSUME NEW w, NEW resting, NEW stopped, Ending(w, resting)
  PROVE  /\ Ending(Disarmed(w), resting) /\ NothingToStop(Disarmed(w))
         /\ Mild(Disarmed(w), w, stopped)
<1>1. Shed(Disarmed(w), w)
  BY DisarmedSheds DEF Ending
<1>2. Mild(Disarmed(w), w, stopped)
  BY <1>1 DEF Mild, Shed, SamePlugin
<1> QED BY <1>1, <1>2, ShedEnding

LEMMA MildComposes ==
  ASSUME NEW u, NEW v, NEW w, NEW stopped, Mild(u, v, stopped), Mild(v, w, stopped)
  PROVE  Mild(u, w, stopped)
BY DEF Mild

LEMMA DisarmedLeaves ==
  ASSUME NEW w, NEW resting, NEW stopped, Ending(w, resting)
  PROVE  /\ Good(TurnLeaves(Disarmed(w)), resting, stopped)
         /\ Mild(TurnLeaves(Disarmed(w)), w, stopped)
<1>1. /\ Ending(Disarmed(w), resting) /\ NothingToStop(Disarmed(w))
      /\ Mild(Disarmed(w), w, stopped)
  BY DisarmedEnding
<1>2. /\ Good(TurnLeaves(Disarmed(w)), resting, stopped)
      /\ Mild(TurnLeaves(Disarmed(w)), Disarmed(w), stopped)
  BY <1>1, LeavesKeep
<1> QED BY <1>1, <1>2, MildComposes

LEMMA FailsKeep ==
  ASSUME NEW w, NEW resting, NEW stopped, Ending(w, resting)
  PROVE  Good(TurnFails(w), resting, stopped) /\ Mild(TurnFails(w), w, stopped)
<1>1. CASE Listens(w)
  <2>1. TurnFails(w) = TurnLeaves(Disarmed(w))
    BY <1>1 DEF TurnFails
  <2> QED BY <2>1, DisarmedLeaves
<1>2. CASE ~Listens(w)
  <2>1. TurnFails(w) = TurnLeaves(w) /\ NothingToStop(w)
    BY <1>2 DEF TurnFails, NothingToStop
  <2> QED BY <2>1, LeavesKeep
<1> QED BY <1>1, <1>2

LEMMA AbortsKeep ==
  ASSUME NEW w, NEW resting, NEW stopped, Ending(w, resting)
  PROVE  Good(TurnAborts(w), resting, stopped) /\ Mild(TurnAborts(w), w, stopped)
<1>1. CASE ~Listens(w)
  <2>1. TurnAborts(w) = TurnLeaves(w) /\ NothingToStop(w)
    BY <1>1 DEF TurnAborts, NothingToStop
  <2> QED BY <2>1, LeavesKeep
<1>2. CASE Listens(w) /\ w.driver.attempt.phase \in {"claimed", "admitted"}
  <2>1. /\ w.agent \in AnyAgent /\ w.goal \in AnyGoal /\ w.driver \in AnyDriver
        /\ w.driver.attempt \in AnyAttempt /\ w \in Worlds
    BY WorldParts DEF Ending
  <2> DEFINE attempt == [w.driver.attempt EXCEPT !.cancelled = TRUE]
             driver0 == [w.driver EXCEPT !.attempt = attempt]
             x == [w EXCEPT !.driver.attempt.cancelled = TRUE]
  <2>2. TurnAborts(w) = TurnLeaves(x)
    BY <1>2 DEF TurnAborts
  <2>3. /\ attempt \in AnyAttempt /\ attempt.cancelled = TRUE
        /\ attempt.phase = w.driver.attempt.phase
        /\ attempt.message = w.driver.attempt.message
    BY <2>1 DEF AnyAttempt
  <2>4. x = [w EXCEPT !.driver = driver0]
    BY <2>1 DEF Worlds, AnyDriver
  <2> HIDE DEF attempt
  <2>5. /\ driver0 \in AnyDriver /\ driver0.attempt = attempt
        /\ driver0.plugin = w.driver.plugin
    BY <2>1, <2>3 DEF AnyDriver
  <2> HIDE DEF x, driver0
  <2>6. x \in Worlds /\ x.agent = w.agent /\ x.goal = w.goal /\ x.driver = driver0
    BY <2>1, <2>4, <2>5 DEF Worlds
  <2>7. Queue(x) = Queue(w) /\ \A m : Present(x, m) <=> Present(w, m)
    BY <2>6 DEF Queue, Present
  <2>8. QueuedIsReserved(w) => QueuedIsReserved(x)
    BY <2>3, <2>5, <2>6, <2>7 DEF QueuedIsReserved, CanContinue
  <2>9. Ending(x, resting)
    BY <2>5, <2>6, <2>7, <2>8 DEF Ending
  <2>10. x.driver.attempt.cancelled /\ x.driver.attempt.phase \in {"claimed", "admitted"}
    BY <1>2, <2>3, <2>5, <2>6
  <2>11. Mild(x, w, stopped)
    BY <2>3, <2>5, <2>6 DEF Mild
  <2> QED BY <2>2, <2>9, <2>10, <2>11, LeavesKeep, MildComposes
<1>3. CASE Listens(w) /\ ~(w.driver.attempt.phase \in {"claimed", "admitted"})
  <2>1. TurnAborts(w) = TurnLeaves(Disarmed(w))
    BY <1>3 DEF TurnAborts
  <2> QED BY <2>1, DisarmedLeaves
<1> QED BY <1>1, <1>2, <1>3

-----------------------------------------------------------------------------
(* Actions.                                                                *)

\* What a step may never do: reserve for a cancelled turn, or admit a round
\* while an unload drains.
Lawful ==
  /\ halted /\ driver.attempt.phase = "none" =>
       driver'.attempt.phase \notin {"queued", "claimed"}
  /\ driver.plugin = "draining" =>
       /\ goal'.rounds <= goal.rounds
       /\ \/ driver'.plugin = "draining"
          \/ driver'.plugin = "down" /\ agent' = agent /\ agent.at = "idle"

Kept == IInv' /\ Lawful

LEMMA WorldFields ==
  World.agent = agent /\ World.goal = goal /\ World.driver = driver
BY DEF World

LEMMA BecomesWorld ==
  ASSUME NEW v, v \in Worlds, Becomes(v) PROVE World' = v
BY DEF Becomes, World, Worlds

LEMMA Concludes ==
  ASSUME NEW v, IInv, Becomes(v), Good(v, ~maintained, halted),
         Mild(v, World, halted), halted' = halted, maintained' = maintained
  PROVE  Kept
<1>1. World' = v
  BY BecomesWorld DEF Good
<1>2. IInv'
  BY <1>1 DEF IInv
<1>3. goal.rounds \in Nat
  BY WorldParts, WorldFields DEF IInv, Good
<1>4. /\ driver'.plugin = driver.plugin /\ goal'.rounds = goal.rounds
      /\ halted /\ driver.attempt.phase = "none" => driver'.attempt.phase = "none"
  BY WorldFields DEF Mild, Becomes
<1>5. Lawful
  BY <1>3, <1>4 DEF Lawful
<1> QED BY <1>2, <1>5 DEF Kept

LEMMA ShedPlaced ==
  ASSUME NEW v, NEW w \in Worlds, NEW resting, NEW stopped, Shed(v, w),
         RoundsAtPlace(w), DrainIsClean(w),
         resting => w.agent.at # "maintenance" /\ AtMostOne(w)
  PROVE  Good(v, resting, stopped) /\ Mild(v, w, stopped)
<1>1. /\ v \in Worlds /\ SameAgent(v, w) /\ SamePlugin(v, w)
      /\ v.goal.revision >= w.goal.revision
  BY DEF Shed
<1>2. RoundsAtPlace(v) /\ (AtMostOne(w) => AtMostOne(v))
  BY <1>1, LaterRevision
<1>3. DrainIsClean(v)
  BY <1>1 DEF DrainIsClean, Queue, SameAgent, SamePlugin
<1>4. PresentIsReserved(v) /\ HaltHolds(v)
  BY DEF PresentIsReserved, HaltHolds, Shed
<1>5. Mild(v, w, stopped)
  BY <1>1 DEF Mild, Shed, SamePlugin
<1> QED BY <1>1, <1>2, <1>3, <1>4, <1>5 DEF Good, SameAgent

Without(w) == [w EXCEPT !.driver.attempt = NoAttempt]

LEMMA WithoutDrops ==
  ASSUME NEW w \in Worlds PROVE Dropped(Without(w), w) /\ Without(w).agent = w.agent
<1>1. w.agent \in AnyAgent /\ w.goal \in AnyGoal /\ w.driver \in AnyDriver
  BY WorldParts
<1> DEFINE driver0 == [w.driver EXCEPT !.attempt = NoAttempt]
<1>2. Without(w) = [w EXCEPT !.driver = driver0]
  BY <1>1 DEF Without, Worlds, AnyDriver
<1>3. NoAttempt \in AnyAttempt /\ NoAttempt.phase = "none"
  BY DEF NoAttempt, AnyAttempt, Phases, AnyMessage, Round, AnyCopy
<1>4. /\ driver0 \in AnyDriver /\ driver0.attempt = NoAttempt
      /\ driver0.plugin = w.driver.plugin
  BY <1>1, <1>3 DEF AnyDriver
<1> HIDE DEF driver0
<1>5. /\ [w EXCEPT !.driver = driver0] \in Worlds
      /\ [w EXCEPT !.driver = driver0].agent = w.agent
      /\ [w EXCEPT !.driver = driver0].goal = w.goal
      /\ [w EXCEPT !.driver = driver0].driver = driver0
  BY <1>4 DEF Worlds
<1> QED BY <1>2, <1>3, <1>4, <1>5 DEF Dropped, SameAgent, SameGoal, SamePlugin

\* The idle edge of an agent whose turn is over.
LEMMA IdleKeeps ==
  ASSUME NEW w, NEW x \in Worlds, NEW resting, NEW stopped, Good(w, resting, stopped),
         w.agent.at = "leaving", x.agent.at = "idle",
         x.agent.nextTurn = w.agent.nextTurn, x.agent.nextStep = w.agent.nextStep,
         x.agent.batch = w.agent.batch, x.goal = w.goal, x.driver = w.driver
  PROVE  Good(OnIdle(x), resting, stopped) /\ Mild(OnIdle(x), x, stopped)
<1> DEFINE at == [x EXCEPT !.driver.competing = FALSE]
           unfinished == \/ x.driver.attempt.phase \in {"queued", "claimed"}
                         \/ x.driver.attempt.cancelled
<1>1. /\ Queue(x) = Queue(w) /\ w.agent.batch = {} /\ x.agent.batch = {}
      /\ \A m : Present(x, m) <=> Present(w, m)
  BY DEF Queue, Present, Good, RoundsAtPlace
<1>2. RoundsAtPlace(x)
  BY <1>1 DEF Good, RoundsAtPlace
<1>3. DrainIsClean(x)
  BY <1>1 DEF Good, DrainIsClean
<1>4. resting => AtMostOne(x)
  BY <1>1 DEF Good, AtMostOne
<1>5. Alike(at, x) /\ at \in Worlds
  BY DEF Alike, SameAgent, SameGoal, SameAttempt, SamePlugin, Worlds, AnyDriver
<1>6. OnIdle(x) = IF ~Listens(x) THEN x
                  ELSE IF x.goal.broken THEN at
                  ELSE requestDrive(IF unfinished /\ CanContinue(x)
                                    THEN Stop(Without(at), "paused") ELSE at)
  <2>1. /\ at.driver.attempt.phase = x.driver.attempt.phase
        /\ at.driver.attempt.cancelled = x.driver.attempt.cancelled
        /\ CanContinue(at) <=> CanContinue(x)
    BY <1>5 DEF Alike, SameAttempt, SameGoal, CanContinue
  <2>2. OnIdle(x) = IF ~Listens(x) THEN x
                    ELSE IF x.goal.broken THEN at
                    ELSE requestDrive(
                           IF (\/ at.driver.attempt.phase \in {"queued", "claimed"}
                               \/ at.driver.attempt.cancelled) /\ CanContinue(at)
                           THEN Stop(Without(at), "paused") ELSE at)
    BY DEF OnIdle, Without
  <2> HIDE DEF at
  <2> QED BY <2>1, <2>2
<1> HIDE DEF at
<1>7. ~(Listens(x) /\ ~x.goal.broken /\ CanContinue(x) /\ unfinished)
      => Good(x, resting, stopped)
  <2> HAVE ~(Listens(x) /\ ~x.goal.broken /\ CanContinue(x) /\ unfinished)
  <2>1. resting => PresentIsReserved(x)
    BY <1>1 DEF Good, PresentIsReserved, CanContinue, Listens
  <2>2. stopped => HaltHolds(x)
    BY DEF Good, HaltHolds, CanContinue, Listens, Running
  <2> QED BY <1>2, <1>3, <1>4, <2>1, <2>2 DEF Good
<1>8. CASE ~Listens(x)
  <2>1. OnIdle(x) = x
    BY <1>6, <1>8
  <2> QED BY <1>7, <1>8, <2>1 DEF Mild
<1>9. CASE Listens(x) /\ x.goal.broken
  <2>1. OnIdle(x) = at
    BY <1>6, <1>9
  <2> QED BY <1>5, <1>7, <1>9, <2>1, AlikeKeeps
<1>10. CASE Listens(x) /\ ~x.goal.broken /\ ~(unfinished /\ CanContinue(x))
  <2>1. OnIdle(x) = requestDrive(at)
    BY <1>6, <1>10
  <2>2. Good(at, resting, stopped) /\ Mild(at, x, stopped)
    BY <1>5, <1>7, <1>10, AlikeKeeps
  <2>3. Good(requestDrive(at), resting, stopped) /\ Mild(requestDrive(at), at, stopped)
    BY <2>2, RequestKeeps
  <2> QED BY <2>1, <2>2, <2>3, MildComposes
<1>11. CASE Listens(x) /\ ~x.goal.broken /\ unfinished /\ CanContinue(x)
  <2> DEFINE y == Without(at)
             z == Stop(y, "paused")
  <2>1. OnIdle(x) = requestDrive(z)
    BY <1>6, <1>11
  <2>2. Dropped(y, at)
    BY <1>5, WithoutDrops
  <2>3. Shed(z, y)
    BY <2>2, StopSheds DEF Dropped
  <2> HIDE DEF y, z
  <2>4. Shed(z, x)
    BY <1>5, <2>2, <2>3
       DEF Shed, Dropped, Alike, SameAgent, SameGoal, SameAttempt, SamePlugin
  <2>5. Good(z, resting, stopped) /\ Mild(z, x, stopped)
    BY <1>2, <1>3, <1>4, <2>4, ShedPlaced
  <2>6. Good(requestDrive(z), resting, stopped) /\ Mild(requestDrive(z), z, stopped)
    BY <2>5, RequestKeeps
  <2> QED BY <2>1, <2>5, <2>6, MildComposes
<1> QED BY <1>8, <1>9, <1>10, <1>11

LEMMA ClaimKeeps ==
  ASSUME NEW w, NEW resting, NEW stopped, Good(w, resting, stopped),
         IsIdle(w) \/ (w.agent.at = "step" /\ ~w.agent.aborted)
  PROVE  Good(Claim(w), resting, stopped) /\ Mild(Claim(w), w, stopped)
<1>1. Claimed(Claim(w), w)
  BY ClaimClaims DEF Good
<1> QED BY <1>1, GoodIsClaimable, ClaimedKeeps

AtRest(w) == [w EXCEPT !.agent.at = "idle", !.agent.aborted = FALSE,
                       !.agent.wake = FALSE]

LEMMA AtRestFields ==
  ASSUME NEW w \in Worlds
  PROVE  /\ AtRest(w) \in Worlds /\ AtRest(w).agent.at = "idle"
         /\ AtRest(w).agent.nextTurn = w.agent.nextTurn
         /\ AtRest(w).agent.nextStep = w.agent.nextStep
         /\ AtRest(w).agent.batch = w.agent.batch
         /\ AtRest(w).goal = w.goal /\ AtRest(w).driver = w.driver
<1>1. w.agent \in AnyAgent /\ w.goal \in AnyGoal /\ w.driver \in AnyDriver
  BY WorldParts
<1> DEFINE a == [w.agent EXCEPT !.at = "idle", !.aborted = FALSE, !.wake = FALSE]
<1>2. AtRest(w) = [w EXCEPT !.agent = a]
  BY <1>1 DEF AtRest, Worlds, AnyAgent
<1>3. /\ a \in AnyAgent /\ a.at = "idle" /\ a.batch = w.agent.batch
      /\ a.nextTurn = w.agent.nextTurn /\ a.nextStep = w.agent.nextStep
  BY <1>1 DEF AnyAgent
<1> HIDE DEF a
<1>4. /\ [w EXCEPT !.agent = a] \in Worlds
      /\ [w EXCEPT !.agent = a].agent = a
      /\ [w EXCEPT !.agent = a].goal = w.goal
      /\ [w EXCEPT !.agent = a].driver = w.driver
  BY <1>3 DEF Worlds
<1> QED BY <1>2, <1>3, <1>4

LEMMA KickExitKeeps ==
  ASSUME IInv, KickExit PROVE Kept
<1>1. Good(World, ~maintained, halted) /\ World \in Worlds
      /\ World.agent.at = "leaving"
  BY WorldFields DEF IInv, Good, KickExit
<1> DEFINE x == AtRest(World)
           w == OnIdle(x)
<1>2. /\ x \in Worlds /\ x.agent.at = "idle"
      /\ x.agent.nextTurn = World.agent.nextTurn
      /\ x.agent.nextStep = World.agent.nextStep
      /\ x.agent.batch = World.agent.batch
      /\ x.goal = World.goal /\ x.driver = World.driver
  BY <1>1, AtRestFields
<1>3. /\ Becomes(w) \/ (w.agent.at = "idle" /\ Becomes(Claim(w)))
      /\ halted' = halted /\ maintained' = maintained
  BY DEF KickExit, AtRest
<1> HIDE DEF x
<1>4. Good(w, ~maintained, halted) /\ Mild(w, x, halted)
  BY <1>1, <1>2, IdleKeeps
<1> HIDE DEF w
<1>5. Mild(w, World, halted)
  BY <1>2, <1>4 DEF Mild
<1>6. CASE Becomes(w)
  BY <1>3, <1>4, <1>5, <1>6, Concludes
<1>7. CASE w.agent.at = "idle" /\ Becomes(Claim(w))
  <2>1. Good(Claim(w), ~maintained, halted) /\ Mild(Claim(w), w, halted)
    BY <1>4, <1>7, ClaimKeeps DEF IsIdle
  <2>2. Mild(Claim(w), World, halted)
    BY <1>5, <2>1, MildComposes
  <2> QED BY <1>3, <1>7, <2>1, <2>2, Concludes
<1> QED BY <1>3, <1>6, <1>7

LEMMA EndMaintenanceKeeps ==
  ASSUME IInv, EndMaintenance PROVE Kept
<1>1. Good(World, ~maintained, halted) /\ World \in Worlds
      /\ World.agent.at = "maintenance"
  BY WorldFields DEF IInv, Good, EndMaintenance
<1> DEFINE w == AtRest(World)
<1>2. /\ w \in Worlds /\ w.agent.at = "idle"
      /\ w.agent.nextTurn = World.agent.nextTurn
      /\ w.agent.nextStep = World.agent.nextStep
      /\ w.agent.batch = World.agent.batch
      /\ w.goal = World.goal /\ w.driver = World.driver
  BY <1>1, AtRestFields
<1>3. /\ Becomes(w) \/ Becomes(Claim(w))
      /\ halted' = halted /\ maintained' = maintained
  BY DEF EndMaintenance, AtRest
<1> HIDE DEF w
<1>4. maintained
  BY <1>1 DEF Good
<1>5. Good(w, ~maintained, halted)
  <2>1. Queue(w) = Queue(World)
    BY <1>2 DEF Queue
  <2>2. RoundsAtPlace(World) => RoundsAtPlace(w)
    BY <1>1, <1>2, <2>1 DEF RoundsAtPlace
  <2>3. w.agent.batch = {}
    BY <1>1, <1>2 DEF Good, RoundsAtPlace
  <2>4. DrainIsClean(World) => DrainIsClean(w)
    BY <1>2, <2>1, <2>3 DEF DrainIsClean
  <2>5. HaltHolds(World) => HaltHolds(w)
    BY <1>1, <1>2 DEF HaltHolds, CanContinue, Listens, Running
  <2> QED BY <1>1, <1>2, <1>4, <2>2, <2>4, <2>5 DEF Good
<1>6. Mild(w, World, halted)
  BY <1>2 DEF Mild
<1>7. CASE Becomes(w)
  BY <1>3, <1>5, <1>6, <1>7, Concludes
<1>8. CASE Becomes(Claim(w))
  <2>1. Good(Claim(w), ~maintained, halted) /\ Mild(Claim(w), w, halted)
    BY <1>2, <1>5, ClaimKeeps DEF IsIdle
  <2>2. Mild(Claim(w), World, halted)
    BY <1>6, <2>1, MildComposes
  <2> QED BY <1>3, <1>8, <2>1, <2>2, Concludes
<1> QED BY <1>3, <1>7, <1>8

\* A loop of the driver takes its step from a world of the same kind.
LEMMA FlushedKeeps ==
  ASSUME IInv, Flushed PROVE Kept
<1>1. Good(World, ~maintained, halted) /\ World \in Worlds
  BY DEF IInv, Good
<1>2. driver \in AnyDriver /\ driver.flushing \in Nat \ {0}
  BY <1>1, WorldParts, WorldFields DEF Flushed, AnyDriver
<1> DEFINE w == [World EXCEPT !.driver.flushing = @ - 1]
<1>3. Alike(w, World) /\ w \in Worlds
      /\ w.driver.checkpoint = driver.checkpoint
  <2> DEFINE driver0 == [driver EXCEPT !.flushing = @ - 1]
  <2>1. driver.flushing - 1 \in Nat
    BY <1>2
  <2>2. /\ driver0 \in AnyDriver /\ driver0.attempt = driver.attempt
        /\ driver0.plugin = driver.plugin /\ driver0.checkpoint = driver.checkpoint
    BY <1>2, <2>1 DEF AnyDriver
  <2>3. w = [World EXCEPT !.driver = driver0]
    BY <1>1, WorldFields DEF Worlds
  <2> HIDE DEF driver0, w
  <2>4. w \in Worlds /\ w.agent = agent /\ w.goal = goal /\ w.driver = driver0
    BY <1>1, <2>2, <2>3, WorldFields DEF Worlds
  <2> QED
    BY <2>2, <2>4, WorldFields
       DEF Alike, SameAgent, SameGoal, SameAttempt, SamePlugin
<1>4. /\ \/ Becomes(Loops(Disarmed(w)))
         \/ Becomes(Loops(w))
         \/ Ready(w) /\ ~w.driver.checkpoint /\ Becomes(Drive(w))
      /\ halted' = halted /\ maintained' = maintained
  <2> HIDE DEF w
  <2>1. /\ \/ Becomes(Loops(Disarmed(w)))
           \/ Becomes(IF Ready(w) /\ ~driver.checkpoint THEN Drive(w) ELSE Loops(w))
        /\ halted' = halted /\ maintained' = maintained
    BY DEF Flushed, w
  <2> QED BY <1>3, <2>1
<1> HIDE DEF w
<1>5. Good(w, ~maintained, halted) /\ Mild(w, World, halted)
  BY <1>1, <1>3, AlikeKeeps
<1>6. CASE Becomes(Loops(Disarmed(w)))
  <2>1. Shed(Disarmed(w), w)
    BY <1>3, DisarmedSheds
  <2>2. Shed(Loops(Disarmed(w)), w)
    BY <2>1, LoopsAlike, ShedThenAlike DEF Shed
  <2>3. /\ Good(Loops(Disarmed(w)), ~maintained, halted)
        /\ Mild(Loops(Disarmed(w)), w, halted)
    BY <1>5, <2>2, ShedKeeps
  <2> QED BY <1>4, <1>5, <1>6, <2>3, Concludes, MildComposes
<1>7. CASE Becomes(Loops(w))
  <2>1. Good(Loops(w), ~maintained, halted) /\ Mild(Loops(w), w, halted)
    BY <1>3, <1>5, LoopsAlike, AlikeKeeps
  <2>2. Mild(Loops(w), World, halted)
    BY <1>5, <2>1, MildComposes
  <2> QED BY <1>4, <1>7, <2>1, <2>2, Concludes
<1>8. CASE Ready(w) /\ ~w.driver.checkpoint /\ Becomes(Drive(w))
  <2>1. Acts(Drive(w), w)
    BY <1>3, <1>8, DriveDrives DEF Acts
  <2>2. Good(Drive(w), ~maintained, halted) /\ Mild(Drive(w), w, halted)
    BY <1>5, <2>1, ActsKeep
  <2>3. Mild(Drive(w), World, halted)
    BY <1>5, <2>2, MildComposes
  <2> QED BY <1>4, <1>8, <2>2, <2>3, Concludes
<1> QED BY <1>4, <1>6, <1>7, <1>8

LEMMA LoopKeeps ==
  ASSUME IInv, Loop PROVE Kept
<1>1. Good(World, ~maintained, halted) /\ World \in Worlds
  BY DEF IInv, Good
<1>2. driver \in AnyDriver /\ driver.looping \in Nat \ {0}
  BY <1>1, WorldParts, WorldFields DEF Loop, AnyDriver
<1> DEFINE w == [World EXCEPT !.driver.looping = @ - 1]
           v == [w EXCEPT !.driver.tracked = FALSE]
<1>3. Alike(w, World) /\ w \in Worlds
  <2> DEFINE driver0 == [driver EXCEPT !.looping = @ - 1]
  <2>1. driver.looping - 1 \in Nat
    BY <1>2
  <2>2. /\ driver0 \in AnyDriver /\ driver0.attempt = driver.attempt
        /\ driver0.plugin = driver.plugin
    BY <1>2, <2>1 DEF AnyDriver
  <2>3. w = [World EXCEPT !.driver = driver0]
    BY <1>1, WorldFields DEF Worlds
  <2> HIDE DEF driver0, w
  <2>4. w \in Worlds /\ w.agent = agent /\ w.goal = goal /\ w.driver = driver0
    BY <1>1, <2>2, <2>3, WorldFields DEF Worlds
  <2> QED
    BY <2>2, <2>4, WorldFields
       DEF Alike, SameAgent, SameGoal, SameAttempt, SamePlugin
<1>4. /\ Becomes(DriveStarts(w)) \/ Becomes(v)
      /\ halted' = halted /\ maintained' = maintained
  BY DEF Loop
<1> HIDE DEF w
<1>5. Good(w, ~maintained, halted) /\ Mild(w, World, halted)
  BY <1>1, <1>3, AlikeKeeps
<1>6. Acts(v, w)
  BY <1>3 DEF Acts, Alike, SameAgent, SameGoal, SameAttempt, SamePlugin, Worlds, AnyDriver
<1>7. Acts(DriveStarts(w), w)
  BY <1>3, StartsAct
<1> HIDE DEF v
<1>8. ASSUME NEW u, Acts(u, w), Becomes(u) PROVE Kept
  <2>1. Good(u, ~maintained, halted) /\ Mild(u, w, halted)
    BY <1>5, <1>8, ActsKeep
  <2>2. Mild(u, World, halted)
    BY <1>5, <2>1, MildComposes
  <2> QED BY <1>4, <1>8, <2>1, <2>2, Concludes
<1> QED BY <1>4, <1>6, <1>7, <1>8

\* A prompt arrives; whatever else changes is bookkeeping.
Prompted(v, w) ==
  /\ v \in Worlds
  /\ v.agent.at = w.agent.at /\ v.agent.aborted = w.agent.aborted
  /\ v.agent.batch = w.agent.batch
  /\ \A m \in v.agent.nextStep : m \in w.agent.nextStep \/ ~IsRound(m)
  /\ \A i \in DOMAIN v.agent.nextTurn :
       \/ i \in DOMAIN w.agent.nextTurn /\ v.agent.nextTurn[i] = w.agent.nextTurn[i]
       \/ ~IsRound(v.agent.nextTurn[i])
  /\ SameGoal(v, w) /\ SameAttempt(v, w) /\ SamePlugin(v, w)

LEMMA PromptedKeeps ==
  ASSUME NEW v, NEW w, NEW resting, NEW stopped, Good(w, resting, stopped),
         Prompted(v, w)
  PROVE  Good(v, resting, stopped) /\ Mild(v, w, stopped)
<1> USE DEF Prompted, SameGoal, SameAttempt, SamePlugin
<1>1. \A m : Present(v, m) <=> Present(w, m)
  BY DEF Present
<1>2. \A m \in Queue(v) : m \in Queue(w) \/ ~IsRound(m)
  BY DEF Queue
<1>3. RoundsAtPlace(w) => RoundsAtPlace(v)
  BY <1>2 DEF RoundsAtPlace
<1>4. DrainIsClean(w) => DrainIsClean(v)
  BY <1>2 DEF DrainIsClean
<1>5. AtMostOne(w) => AtMostOne(v)
  <2> HAVE AtMostOne(w)
  <2>1. \A i \in DOMAIN v.agent.nextTurn : Present(v, v.agent.nextTurn[i]) =>
          /\ i \in DOMAIN w.agent.nextTurn
          /\ Present(w, w.agent.nextTurn[i])
    BY <1>1 DEF Present
  <2>2. \A m \in Queue(v) : Present(v, m) => m \in Queue(w) /\ Present(w, m)
    BY <1>1, <1>2 DEF Present
  <2> QED BY <1>1, <2>1, <2>2 DEF AtMostOne
<1>6. PresentIsReserved(w) => PresentIsReserved(v)
  <2>1. \A m \in Queue(v) \union v.agent.batch : Present(v, m) =>
          m \in Queue(w) \union w.agent.batch /\ Present(w, m)
    BY <1>1, <1>2 DEF Present
  <2> QED BY <1>1, <2>1 DEF PresentIsReserved, CanContinue
<1>7. HaltHolds(w) => HaltHolds(v)
  BY DEF HaltHolds, CanContinue, Listens
<1> QED BY <1>3, <1>4, <1>5, <1>6, <1>7 DEF Good, Mild

LEMMA PromptTyped ==
  ASSUME NEW n \in Human PROVE Prompt(n) \in AnyMessage /\ ~IsRound(Prompt(n))
BY GoalRoundsAssumption DEF Prompt, AnyMessage, AnyCopy, IsRound

LEMMA PromptConcludes ==
  ASSUME NEW w, IInv, Prompted(w, World), Becomes(Woken(w)), halted' = halted,
         maintained' = maintained
  PROVE  Kept
<1>1. Good(w, ~maintained, halted) /\ Mild(w, World, halted)
  BY PromptedKeeps DEF IInv
<1>2. Good(Woken(w), ~maintained, halted) /\ Mild(Woken(w), w, halted)
  BY <1>1, WokenKeeps
<1>3. Mild(Woken(w), World, halted)
  BY <1>1, <1>2, MildComposes
<1> QED BY <1>2, <1>3, Concludes

LEMMA FollowupKeeps ==
  ASSUME IInv, NEW n \in Human, followup(n) PROVE Kept
<1> DEFINE m == Prompt(n)
           w == [World EXCEPT !.agent.nextTurn = Append(@, Prompt(n)),
                         !.driver.competing = @ \/ Listens(World),
                         !.driver.attempt.stale =
                           @ \/ (Listens(World) /\ driver.attempt.phase = "queued")]
           attempt == [driver.attempt EXCEPT !.stale =
                         @ \/ (Listens(World) /\ driver.attempt.phase = "queued")]
           driver0 == [driver EXCEPT !.competing = @ \/ Listens(World),
                                     !.attempt = attempt]
           agent0 == [agent EXCEPT !.nextTurn = Append(@, m)]
<1>1. /\ World \in Worlds /\ agent \in AnyAgent /\ goal \in AnyGoal
      /\ driver \in AnyDriver /\ driver.attempt \in AnyAttempt
      /\ agent.nextTurn \in Seq(AnyMessage)
  BY WorldParts, WorldFields DEF IInv, Good
<1>2. Becomes(Woken(w)) /\ halted' = halted /\ maintained' = maintained
  BY DEF followup
<1>3. m \in AnyMessage /\ ~IsRound(m)
  BY PromptTyped
<1>4. attempt \in AnyAttempt
      /\ attempt.phase = driver.attempt.phase
      /\ attempt.message = driver.attempt.message
      /\ attempt.cancelled = driver.attempt.cancelled
  BY <1>1 DEF AnyAttempt
<1>5. w = [World EXCEPT !.agent = agent0, !.driver = driver0]
  BY <1>1, WorldFields DEF Worlds, AnyDriver
<1> HIDE DEF attempt, m
<1>6. driver0 \in AnyDriver /\ driver0.attempt = attempt
      /\ driver0.plugin = driver.plugin
  BY <1>1, <1>4 DEF AnyDriver
<1>7. agent0 \in AnyAgent /\ agent0.at = agent.at
      /\ agent0.aborted = agent.aborted
      /\ agent0.batch = agent.batch /\ agent0.nextStep = agent.nextStep
      /\ agent0.nextTurn = Append(agent.nextTurn, m)
  <2>1. Append(agent.nextTurn, m) \in Seq(AnyMessage)
    BY <1>1, <1>3
  <2> QED BY <1>1, <2>1 DEF AnyAgent
<1> HIDE DEF w, driver0, agent0
<1>8. w \in Worlds /\ w.agent = agent0 /\ w.goal = goal /\ w.driver = driver0
  BY <1>1, <1>5, <1>6, <1>7, WorldFields DEF Worlds
<1>9. \A i \in DOMAIN w.agent.nextTurn :
        \/ i \in DOMAIN agent.nextTurn /\ w.agent.nextTurn[i] = agent.nextTurn[i]
        \/ ~IsRound(w.agent.nextTurn[i])
  BY <1>1, <1>3, <1>7, <1>8, QueueOfAppend, WorldFields
<1>10. Prompted(w, World)
  BY <1>4, <1>6, <1>7, <1>8, <1>9, WorldFields
     DEF Prompted, SameGoal, SameAttempt, SamePlugin
<1> QED BY <1>2, <1>10, PromptConcludes

LEMMA SteerKeeps ==
  ASSUME IInv, NEW n \in Human, steer(n) PROVE Kept
<1> DEFINE m == Prompt(n)
           w == [World EXCEPT !.agent.nextStep = @ \union {m}]
           agent0 == [agent EXCEPT !.nextStep = @ \union {m}]
<1>1. /\ World \in Worlds /\ agent \in AnyAgent /\ goal \in AnyGoal
      /\ driver \in AnyDriver /\ agent.nextStep \subseteq AnyMessage
  BY WorldParts, WorldFields DEF IInv, Good
<1>2. Becomes(Woken(w)) /\ halted' = halted /\ maintained' = maintained
  BY DEF steer
<1>3. m \in AnyMessage /\ ~IsRound(m)
  BY PromptTyped
<1> HIDE DEF m
<1>4. w = [World EXCEPT !.agent = agent0]
  BY <1>1, WorldFields DEF Worlds
<1>5. agent0 \in AnyAgent /\ agent0.at = agent.at
      /\ agent0.aborted = agent.aborted
      /\ agent0.batch = agent.batch /\ agent0.nextTurn = agent.nextTurn
      /\ agent0.nextStep = agent.nextStep \union {m}
  <2>1. agent.nextStep \union {m} \in SUBSET AnyMessage
    BY <1>1, <1>3
  <2> QED BY <1>1, <2>1 DEF AnyAgent
<1> HIDE DEF w, agent0
<1>6. w \in Worlds /\ w.agent = agent0 /\ w.goal = goal /\ w.driver = driver
  BY <1>1, <1>4, <1>5, WorldFields DEF Worlds
<1>7. Prompted(w, World)
  BY <1>3, <1>5, <1>6, WorldFields
     DEF Prompted, SameGoal, SameAttempt, SamePlugin
<1> QED BY <1>2, <1>7, PromptConcludes

\* A cancel empties the inbox, if asked to, and aborts what runs.
ClearedFrom(v, w) ==
  /\ v \in Worlds
  /\ v.agent.at = w.agent.at /\ v.agent.batch = w.agent.batch
  /\ \/ v.agent.nextTurn = w.agent.nextTurn /\ v.agent.nextStep = w.agent.nextStep
     \/ v.agent.nextTurn = <<>> /\ v.agent.nextStep = {}
  /\ v.goal = w.goal /\ SamePlugin(v, w)
  /\ v.driver.attempt.phase = w.driver.attempt.phase
  /\ v.driver.attempt.message = w.driver.attempt.message
  /\ w.driver.attempt.cancelled => v.driver.attempt.cancelled

LEMMA AbortedFields ==
  ASSUME NEW w \in Worlds
  PROVE  /\ Aborted(w) \in Worlds
         /\ Aborted(w).agent.aborted = (w.agent.aborted \/ w.agent.at # "idle")
         /\ Aborted(w).agent.at = w.agent.at /\ Aborted(w).agent.batch = w.agent.batch
         /\ Aborted(w).agent.nextTurn = w.agent.nextTurn
         /\ Aborted(w).agent.nextStep = w.agent.nextStep
         /\ Aborted(w).goal = w.goal /\ Aborted(w).driver = w.driver
<1>1. w.agent \in AnyAgent /\ w.goal \in AnyGoal /\ w.driver \in AnyDriver
  BY WorldParts
<1> DEFINE a == [w.agent EXCEPT !.aborted = @ \/ w.agent.at # "idle"]
<1>2. Aborted(w) = [w EXCEPT !.agent = a]
  BY <1>1 DEF Aborted, Worlds
<1>3. /\ a \in AnyAgent /\ a.at = w.agent.at /\ a.batch = w.agent.batch
      /\ a.nextTurn = w.agent.nextTurn /\ a.nextStep = w.agent.nextStep
      /\ a.aborted = (w.agent.aborted \/ w.agent.at # "idle")
  BY <1>1 DEF AnyAgent
<1> HIDE DEF a
<1>4. /\ [w EXCEPT !.agent = a] \in Worlds
      /\ [w EXCEPT !.agent = a].agent = a
      /\ [w EXCEPT !.agent = a].goal = w.goal
      /\ [w EXCEPT !.agent = a].driver = w.driver
  BY <1>3 DEF Worlds
<1> QED BY <1>2, <1>3, <1>4

LEMMA ClearedClears ==
  ASSUME NEW w \in Worlds
  PROVE  /\ ClearedFrom(Cleared(w), w)
         /\ Cleared(w).agent.nextTurn = <<>> /\ Cleared(w).agent.nextStep = {}
         /\ Cleared(w).agent.aborted = w.agent.aborted
<1>1. /\ w.agent \in AnyAgent /\ w.goal \in AnyGoal /\ w.driver \in AnyDriver
      /\ w.driver.attempt \in AnyAttempt
  BY WorldParts
<1> DEFINE own == Listens(w) /\ \E m \in Pending(w) : IsOwn(w, m)
           a == [w.agent EXCEPT !.nextTurn = <<>>, !.nextStep = {}, !.wake = FALSE]
           attempt == [w.driver.attempt EXCEPT !.cancelled = @ \/ own]
           driver0 == [w.driver EXCEPT !.attempt = attempt]
<1>2. Cleared(w) = [w EXCEPT !.agent = a, !.driver = driver0]
  BY <1>1 DEF Cleared, Worlds, AnyDriver
<1> HIDE DEF own
<1>3. /\ attempt \in AnyAttempt /\ attempt.phase = w.driver.attempt.phase
      /\ attempt.message = w.driver.attempt.message
      /\ w.driver.attempt.cancelled => attempt.cancelled
  BY <1>1 DEF AnyAttempt
<1> HIDE DEF attempt
<1>4. /\ driver0 \in AnyDriver /\ driver0.attempt = attempt
      /\ driver0.plugin = w.driver.plugin
  BY <1>1, <1>3 DEF AnyDriver
<1>5. /\ a \in AnyAgent /\ a.at = w.agent.at /\ a.batch = w.agent.batch
      /\ a.nextTurn = <<>> /\ a.nextStep = {} /\ a.aborted = w.agent.aborted
  <2>1. <<>> \in Seq(AnyMessage)
    OBVIOUS
  <2> QED BY <1>1, <2>1 DEF AnyAgent
<1> DEFINE v == [w EXCEPT !.agent = a, !.driver = driver0]
<1> HIDE DEF a, driver0
<1>6. v \in Worlds /\ v.agent = a /\ v.goal = w.goal /\ v.driver = driver0
  BY <1>1, <1>4, <1>5 DEF Worlds
<1> HIDE DEF v
<1>7. ClearedFrom(v, w)
  BY <1>3, <1>4, <1>5, <1>6 DEF ClearedFrom, SamePlugin
<1> QED BY <1>2, <1>5, <1>6, <1>7 DEF v

LEMMA CancelledKeeps ==
  ASSUME NEW w, NEW x, NEW resting, NEW stopped, NEW cancels,
         Good(w, resting, stopped), ClearedFrom(x, w),
         x.agent.aborted = w.agent.aborted,
         cancels => stopped \/ w.agent.at \in Running \ {"leaving"}
  PROVE  Good(Aborted(x), resting, cancels) /\ Mild(Aborted(x), w, stopped)
<1> DEFINE v == Aborted(x)
<1>1. /\ x \in Worlds /\ v \in Worlds
      /\ v.agent.aborted = (w.agent.aborted \/ w.agent.at # "idle")
      /\ v.agent.at = w.agent.at /\ v.agent.batch = w.agent.batch
      /\ \/ v.agent.nextTurn = w.agent.nextTurn /\ v.agent.nextStep = w.agent.nextStep
         \/ v.agent.nextTurn = <<>> /\ v.agent.nextStep = {}
      /\ v.goal = w.goal /\ v.driver.plugin = w.driver.plugin
      /\ v.driver.attempt.phase = w.driver.attempt.phase
      /\ v.driver.attempt.message = w.driver.attempt.message
      /\ w.driver.attempt.cancelled => v.driver.attempt.cancelled
  BY AbortedFields DEF ClearedFrom, SamePlugin
<1> HIDE DEF v
<1>2. Queue(v) \subseteq Queue(w)
  BY <1>1 DEF Queue
<1>3. \A m : Present(v, m) <=> Present(w, m)
  BY <1>1 DEF Present
<1>4. RoundsAtPlace(w) => RoundsAtPlace(v)
  BY <1>1, <1>2 DEF RoundsAtPlace
<1>5. DrainIsClean(w) => DrainIsClean(v)
  BY <1>1, <1>2 DEF DrainIsClean
<1>6. AtMostOne(w) => AtMostOne(v)
  BY <1>1, <1>2, <1>3 DEF AtMostOne
<1>7. PresentIsReserved(w) => PresentIsReserved(v)
  BY <1>1, <1>2, <1>3 DEF PresentIsReserved, CanContinue
<1>8. cancels => HaltHolds(v)
  <2>1. stopped => HaltHolds(v)
    BY <1>1 DEF Good, HaltHolds, CanContinue, Listens
  <2>2. w.agent.at \in Running \ {"leaving"} => HaltHolds(v)
    BY <1>1 DEF HaltHolds, Running
  <2> QED BY <2>1, <2>2
<1>9. Mild(v, w, stopped)
  BY <1>1 DEF Mild
<1> QED BY <1>1, <1>4, <1>5, <1>6, <1>7, <1>8, <1>9 DEF Good, v

LEMMA CancelKeeps ==
  ASSUME IInv, NEW keepInbox \in BOOLEAN, cancel(keepInbox) PROVE Kept
<1>1. Good(World, ~maintained, halted) /\ World \in Worlds
  BY DEF IInv, Good
<1> DEFINE x == IF keepInbox THEN World ELSE Cleared(World)
           v == Aborted(x)
           cancels == halted \/ agent.at \in Running \ {"leaving"}
<1>2. ClearedFrom(x, World) /\ x.agent.aborted = World.agent.aborted
  <2>1. ClearedFrom(World, World)
    BY <1>1 DEF ClearedFrom, SamePlugin
  <2> QED BY <1>1, <2>1, ClearedClears
<1>3. Becomes(v) /\ halted' = cancels /\ maintained' = maintained
  BY DEF cancel
<1>4. cancels => halted \/ World.agent.at \in Running \ {"leaving"}
  BY WorldFields
<1> HIDE DEF x, cancels
<1>5. Good(v, ~maintained, cancels) /\ Mild(v, World, halted)
  BY <1>1, <1>2, <1>4, CancelledKeeps
<1> HIDE DEF v
<1>6. World' = v
  BY <1>3, <1>5, BecomesWorld DEF Good
<1>7. IInv'
  BY <1>3, <1>5, <1>6 DEF IInv
<1>8. goal.rounds \in Nat
  BY <1>1, WorldParts, WorldFields
<1>9. /\ driver'.plugin = driver.plugin /\ goal'.rounds = goal.rounds
      /\ halted /\ driver.attempt.phase = "none" => driver'.attempt.phase = "none"
  BY <1>3, <1>5, WorldFields DEF Mild, Becomes
<1>10. Lawful
  BY <1>8, <1>9 DEF Lawful
<1> QED BY <1>7, <1>10 DEF Kept

LEMMA StartMaintenanceKeeps ==
  ASSUME IInv, StartMaintenance PROVE Kept
<1>1. /\ Good(World, ~maintained, halted) /\ World \in Worlds
      /\ agent \in AnyAgent /\ goal.rounds \in Nat
      /\ World.agent.at = "idle"
  BY WorldParts, WorldFields DEF IInv, Good, StartMaintenance
<1> DEFINE a == [agent EXCEPT !.at = "maintenance"]
           v == [World EXCEPT !.agent.at = "maintenance"]
<1>2. Becomes(v) /\ halted' = halted /\ maintained' = TRUE
  BY DEF StartMaintenance
<1>3. v = [World EXCEPT !.agent = a]
  BY <1>1, WorldFields DEF Worlds
<1>4. /\ a \in AnyAgent /\ a.at = "maintenance" /\ a.batch = agent.batch
      /\ a.nextTurn = agent.nextTurn /\ a.nextStep = agent.nextStep
  BY <1>1 DEF AnyAgent
<1> HIDE DEF v, a
<1>5. v \in Worlds /\ v.agent = a /\ v.goal = goal /\ v.driver = driver
  BY <1>1, <1>3, <1>4, WorldFields DEF Worlds
<1>6. Queue(v) = Queue(World) /\ v.agent.batch = {}
  BY <1>1, <1>4, <1>5, WorldFields DEF Queue, Good, RoundsAtPlace
<1>7. RoundsAtPlace(v)
  BY <1>1, <1>4, <1>5, <1>6, WorldFields DEF RoundsAtPlace, Good
<1>8. DrainIsClean(v)
  BY <1>1, <1>5, <1>6, WorldFields DEF DrainIsClean, Good
<1>9. halted => HaltHolds(v)
  BY <1>1, <1>5, WorldFields DEF HaltHolds, Good, CanContinue, Listens, Running
<1>10. World' = v
  BY <1>2, <1>5, BecomesWorld
<1>11. Good(v, FALSE, halted)
  BY <1>5, <1>7, <1>8, <1>9 DEF Good
<1>12. IInv'
  <2>1. ~maintained' <=> FALSE
    BY <1>2
  <2> QED BY <1>2, <1>10, <1>11, <2>1 DEF IInv, Good
<1>13. Lawful
  BY <1>1, <1>2, <1>5 DEF Lawful, Becomes
<1> QED BY <1>12, <1>13 DEF Kept

\* Callers change the goal, to a revision of which there is no round yet.
LEMMA ChangeKeeps ==
  ASSUME IInv, NEW phase \in {"none", "active", "paused", "blocked", "complete"},
         NEW armed \in BOOLEAN, NEW rounds \in Nat, NEW max \in Nat,
         rounds <= goal.rounds, ChangeGoal(phase, armed, rounds, max)
  PROVE  Kept
<1>1. /\ Good(World, ~maintained, halted) /\ World \in Worlds
      /\ goal \in AnyGoal /\ goal.revision \in Nat /\ goal.rounds \in Nat
  BY WorldParts, WorldFields DEF IInv, Good
<1> DEFINE goal0 == [phase |-> phase, armed |-> armed, revision |-> goal.revision + 1,
                     rounds |-> rounds, max |-> max, broken |-> FALSE]
           x == [World EXCEPT !.goal = goal0]
           v == Changed(x)
<1>2. Becomes(v) /\ halted' = FALSE /\ maintained' = maintained
  BY WorldFields DEF ChangeGoal
<1>3. goal0 \in AnyGoal /\ goal0.revision = goal.revision + 1 /\ goal0.rounds = rounds
  <2>1. goal.revision + 1 \in Nat
    BY <1>1
  <2> QED BY <2>1 DEF AnyGoal
<1> HIDE DEF goal0
<1>4. x \in Worlds /\ x.agent = agent /\ x.goal = goal0 /\ x.driver = driver
  BY <1>1, <1>3, WorldFields DEF Worlds
<1> HIDE DEF x
<1>5. /\ SameAgent(x, World) /\ x.goal.revision > World.goal.revision
      /\ x.goal.revision >= World.goal.revision
  BY <1>1, <1>3, <1>4, WorldFields DEF SameAgent
<1>6. RoundsAtPlace(x) /\ AtMostOne(x)
  BY <1>1, <1>4, <1>5, LaterRevision DEF Good
<1>7. Queue(x) = Queue(World)
  BY <1>5 DEF SameAgent, Queue
<1>8. \A m \in Queue(x) \union x.agent.batch : ~Present(x, m)
  <2>1. \A m \in Queue(World) \union World.agent.batch :
          IsRound(m) => m.revision \in Nat /\ m.revision <= World.goal.revision
    BY <1>1, MessagesTyped DEF Good, RoundsAtPlace
  <2>2. x.goal.revision \in Nat /\ World.goal.revision \in Nat
    BY <1>1, <1>4, WorldParts
  <2>3. \A m \in Queue(World) \union World.agent.batch :
          IsRound(m) => m.revision # x.goal.revision
    BY <1>5, <2>1, <2>2
  <2> QED BY <1>5, <1>7, <2>3 DEF Present, SameAgent
<1>9. PresentIsReserved(x)
  BY <1>8 DEF PresentIsReserved
<1>10. DrainIsClean(x)
  BY <1>1, <1>4, <1>7, WorldFields DEF DrainIsClean, Good
<1>11. Good(x, ~maintained, FALSE)
  BY <1>1, <1>4, <1>6, <1>9, <1>10, WorldFields DEF Good
<1>12. Alike(v, x)
  BY <1>4, ChangedAlike
<1> HIDE DEF v
<1>13. Good(v, ~maintained, FALSE)
  BY <1>11, <1>12, AlikeKeeps
<1>14. World' = v
  BY <1>2, <1>12, BecomesWorld DEF Alike
<1>15. IInv'
  BY <1>2, <1>13, <1>14 DEF IInv
<1>16. /\ driver'.plugin = driver.plugin /\ goal'.rounds <= goal.rounds
       /\ driver'.attempt.phase = driver.attempt.phase
  BY <1>2, <1>3, <1>4, <1>12 DEF Alike, SameGoal, SamePlugin, SameAttempt, Becomes
<1>17. Lawful
  BY <1>16 DEF Lawful
<1> QED BY <1>15, <1>17 DEF Kept

LEMMA MutationKeeps ==
  ASSUME IInv, create \/ edit \/ pause \/ resume \/ complete \/ block \/ clear
  PROVE  Kept
<1>1. goal \in AnyGoal
  BY WorldParts, WorldFields DEF IInv, Good
<1>2. /\ goal.rounds \in Nat /\ goal.max \in Nat /\ goal.armed \in BOOLEAN
      /\ goal.phase \in {"none", "active", "paused", "blocked", "complete"}
  BY <1>1 DEF AnyGoal
<1>3. goal.rounds <= goal.rounds /\ 0 <= goal.rounds /\ 0 \in Nat
  BY <1>2
<1>4. \A max \in Cap : max \in Nat
  BY GoalRoundsAssumption
<1>5. CASE create
  BY <1>2, <1>3, <1>4, <1>5, ChangeKeeps DEF create
<1>6. CASE edit
  BY <1>2, <1>3, <1>4, <1>6, ChangeKeeps DEF edit
<1>7. CASE pause
  BY <1>2, <1>3, <1>7, ChangeKeeps DEF pause
<1>8. CASE resume
  BY <1>2, <1>3, <1>8, ChangeKeeps DEF resume
<1>9. CASE complete
  BY <1>2, <1>3, <1>9, ChangeKeeps DEF complete
<1>10. CASE block
  BY <1>2, <1>3, <1>10, ChangeKeeps DEF block
<1>11. CASE clear
  BY <1>2, <1>3, <1>11, ChangeKeeps DEF clear
<1> QED BY <1>5, <1>6, <1>7, <1>8, <1>9, <1>10, <1>11

-----------------------------------------------------------------------------
(* The driver unloads and loads.                                           *)

LEMMA DisarmedFields ==
  ASSUME NEW w \in Worlds
  PROVE  /\ Disarmed(w) \in Worlds
         /\ Disarmed(w).agent = w.agent /\ Disarmed(w).driver = w.driver
<1>1. w.goal \in AnyGoal
  BY WorldParts
<1>2. (w.goal.armed /\ w.goal.broken) \in BOOLEAN
  BY <1>1 DEF AnyGoal
<1> QED BY <1>1, <1>2 DEF Disarmed, Worlds, AnyGoal

\* The plugin's phase and the mark on its reservation change.
Plugins == {"up", "stopping", "draining", "down"}

WithPlugin(w, plugin, held) ==
  [w EXCEPT !.driver.plugin = plugin, !.driver.attempt.stale = @ \/ held]

LEMMA WithPluginFields ==
  ASSUME NEW w \in Worlds, NEW plugin \in Plugins, NEW held \in BOOLEAN
  PROVE  /\ WithPlugin(w, plugin, held) \in Worlds
         /\ WithPlugin(w, plugin, held).agent = w.agent
         /\ WithPlugin(w, plugin, held).goal = w.goal
         /\ WithPlugin(w, plugin, held).driver.plugin = plugin
         /\ WithPlugin(w, plugin, held).driver.attempt.phase = w.driver.attempt.phase
<1> DEFINE v == WithPlugin(w, plugin, held)
<1>1. /\ w.agent \in AnyAgent /\ w.goal \in AnyGoal /\ w.driver \in AnyDriver
      /\ w.driver.attempt \in AnyAttempt
  BY WorldParts
<1> DEFINE attempt == [w.driver.attempt EXCEPT !.stale = @ \/ held]
           driver0 == [w.driver EXCEPT !.plugin = plugin, !.attempt = attempt]
<1>2. v = [w EXCEPT !.driver = driver0]
  BY <1>1 DEF WithPlugin, Worlds, AnyDriver
<1>3. attempt \in AnyAttempt /\ attempt.phase = w.driver.attempt.phase
  BY <1>1 DEF AnyAttempt
<1> HIDE DEF attempt
<1>4. /\ driver0 \in AnyDriver /\ driver0.attempt = attempt
      /\ driver0.plugin = plugin
  BY <1>1, <1>3 DEF AnyDriver, Plugins
<1> HIDE DEF driver0, v
<1>5. v \in Worlds /\ v.agent = w.agent /\ v.goal = w.goal /\ v.driver = driver0
  BY <1>1, <1>2, <1>4 DEF Worlds
<1> QED BY <1>3, <1>4, <1>5 DEF v

LEMMA UnloadKeeps ==
  ASSUME IInv, Unload PROVE Kept
<1>1. Good(World, ~maintained, halted) /\ World \in Worlds
  BY DEF IInv, Good
<1> DEFINE held == driver.attempt.phase # "none"
           busy == held /\ ~IsIdle(World)
           plugin == IF busy THEN "draining" ELSE "stopping"
           d == Disarmed(World)
           w == WithPlugin(d, plugin, held)
           v == IF busy THEN Aborted(Cleared(w)) ELSE w
<1>2. /\ Becomes(v) /\ maintained' = maintained /\ driver.plugin = "up"
  BY DEF Unload, WithPlugin
<1>3. /\ d \in Worlds /\ d.agent = agent /\ d.driver = driver /\ Shed(d, World)
  BY <1>1, DisarmedFields, DisarmedSheds, WorldFields
<1> HIDE DEF d
<1>4. plugin \in Plugins /\ (plugin = "draining" <=> busy) /\ held \in BOOLEAN
  BY DEF Plugins
<1> HIDE DEF plugin, busy, held
<1>5. /\ w \in Worlds /\ w.agent = agent /\ w.goal = d.goal
      /\ w.driver.plugin = plugin
      /\ w.driver.attempt.phase = driver.attempt.phase
  BY <1>3, <1>4, WithPluginFields
<1>6. /\ SameAgent(w, World) /\ w.goal.revision >= World.goal.revision
      /\ CanContinue(w) => w.goal.broken
  BY <1>3, <1>5, WorldFields DEF Shed, SameAgent, CanContinue
<1> HIDE DEF w
<1>7. RoundsAtPlace(w) /\ (AtMostOne(World) => AtMostOne(w))
  BY <1>1, <1>5, <1>6, LaterRevision DEF Good
<1>8. /\ v \in Worlds /\ v.agent.at = agent.at /\ v.agent.batch = agent.batch
      /\ v.goal = w.goal /\ v.driver.plugin = plugin
      /\ v.driver.attempt.phase = driver.attempt.phase
      /\ ~busy => v = w
      /\ busy => /\ v.agent.nextTurn = <<>> /\ v.agent.nextStep = {}
                 /\ v.agent.aborted
  <2>1. CASE busy
    <3>1. v = Aborted(Cleared(w))
      BY <2>1
    <3>2. /\ ClearedFrom(Cleared(w), w)
          /\ Cleared(w).agent.nextTurn = <<>> /\ Cleared(w).agent.nextStep = {}
      BY <1>5, ClearedClears
    <3>3. agent.at # "idle"
      BY <2>1, WorldFields DEF busy, IsIdle
    <3>4. /\ Cleared(w) \in Worlds /\ Cleared(w).agent.at = agent.at
          /\ Cleared(w).agent.batch = agent.batch
          /\ Cleared(w).goal = w.goal /\ Cleared(w).driver.plugin = plugin
          /\ Cleared(w).driver.attempt.phase = driver.attempt.phase
      BY <1>5, <3>2 DEF ClearedFrom, SamePlugin
    <3> QED BY <2>1, <3>1, <3>2, <3>3, <3>4, AbortedFields
  <2>2. CASE ~busy
    BY <1>5, <2>2
  <2> QED BY <2>1, <2>2
<1> HIDE DEF v
<1>9. busy => Queue(v) = {}
  BY <1>8 DEF Queue
<1>10. RoundsAtPlace(v)
  <2>1. CASE busy
    BY <1>5, <1>7, <1>8, <1>9, <2>1 DEF RoundsAtPlace
  <2>2. CASE ~busy
    BY <1>7, <1>8, <2>2
  <2> QED BY <2>1, <2>2
<1>11. DrainIsClean(v)
  BY <1>4, <1>8, <1>9 DEF DrainIsClean
<1>12. AtMostOne(World) => AtMostOne(v)
  <2>1. CASE busy
    BY <1>8, <1>9, <2>1 DEF AtMostOne
  <2>2. CASE ~busy
    BY <1>7, <1>8, <2>2
  <2> QED BY <2>1, <2>2
<1>13. ~(CanContinue(v) /\ ~v.goal.broken)
  BY <1>6, <1>8 DEF CanContinue
<1>14. PresentIsReserved(v) /\ HaltHolds(v)
  BY <1>13 DEF PresentIsReserved, HaltHolds
<1>15. \A stopped : Good(v, ~maintained, stopped)
  BY <1>1, <1>8, <1>10, <1>11, <1>12, <1>14, WorldFields DEF Good
<1>16. World' = v
  BY <1>2, <1>8, BecomesWorld
<1>17. IInv'
  BY <1>2, <1>15, <1>16 DEF IInv
<1>18. Lawful
  BY <1>2, <1>8 DEF Lawful, Becomes
<1> QED BY <1>17, <1>18 DEF Kept

LEMMA UnloadedKeeps ==
  ASSUME IInv, Unloaded PROVE Kept
<1>1. /\ Good(World, ~maintained, halted) /\ World \in Worlds
      /\ goal.rounds \in Nat
  BY WorldParts, WorldFields DEF IInv, Good
<1> DEFINE d == [FreshDriver EXCEPT !.plugin = "down"]
           v == [agent |-> agent, goal |-> goal, driver |-> d]
<1>2. d \in AnyDriver /\ d.plugin = "down" /\ d.attempt.phase = "none"
  <2>1. NoAttempt \in AnyAttempt /\ NoAttempt.phase = "none"
    BY DEF NoAttempt, AnyAttempt, Phases, AnyMessage, Round, AnyCopy
  <2> QED BY <2>1 DEF FreshDriver, AnyDriver
<1>3. World' = v
  BY DEF Unloaded, World
<1> HIDE DEF d
<1>4. v \in Worlds /\ v.agent = World.agent /\ v.goal = World.goal /\ v.driver = d
  BY <1>1, <1>2, WorldFields DEF Worlds
<1> HIDE DEF v
<1>5. Queue(v) = Queue(World) /\ \A m : Present(v, m) <=> Present(World, m)
  BY <1>4 DEF Queue, Present
<1>6. RoundsAtPlace(World) => RoundsAtPlace(v)
  BY <1>4, <1>5 DEF RoundsAtPlace
<1>7. AtMostOne(World) => AtMostOne(v)
  BY <1>4, <1>5 DEF AtMostOne
<1>8. World.driver.plugin # "up"
  BY WorldFields DEF Unloaded
<1>9. PresentIsReserved(World) => PresentIsReserved(v)
  BY <1>4, <1>5, <1>8 DEF PresentIsReserved, CanContinue
<1>10. DrainIsClean(v) /\ HaltHolds(v)
  BY <1>2, <1>4 DEF DrainIsClean, HaltHolds, Listens
<1>11. Good(v, ~maintained, halted)
  BY <1>1, <1>4, <1>6, <1>7, <1>9, <1>10 DEF Good
<1>12. IInv'
  BY <1>3, <1>11 DEF IInv, Unloaded
<1>13. driver' = d
  BY DEF Unloaded, d
<1>14. Lawful
  <2>1. /\ agent' = agent /\ goal' = goal
        /\ driver.plugin = "draining" => agent.at = "idle"
    BY DEF Unloaded
  <2> QED BY <1>1, <1>2, <1>13, <2>1 DEF Lawful
<1> QED BY <1>12, <1>14 DEF Kept

LEMMA LoadKeeps ==
  ASSUME IInv, Load PROVE Kept
<1>1. Good(World, ~maintained, halted) /\ World \in Worlds
  BY DEF IInv, Good
<1> DEFINE x == [World EXCEPT !.driver.plugin = "up"]
           v == Disarmed(x)
           driver0 == [driver EXCEPT !.plugin = "up"]
<1>2. /\ Becomes(v) /\ halted' = halted /\ maintained' = maintained
      /\ driver.plugin = "down"
  BY DEF Load
<1>3. driver \in AnyDriver
  BY <1>1, WorldParts, WorldFields
<1>4. driver0 \in AnyDriver /\ driver0.plugin = "up" /\ driver0.attempt = driver.attempt
  BY <1>3 DEF AnyDriver
<1>5. x = [World EXCEPT !.driver = driver0]
  BY <1>1, WorldFields DEF Worlds
<1> HIDE DEF x, driver0
<1>6. x \in Worlds /\ x.agent = World.agent /\ x.goal = World.goal /\ x.driver = driver0
  BY <1>1, <1>4, <1>5 DEF Worlds
<1>7. Queue(x) = Queue(World) /\ \A m : Present(x, m) <=> Present(World, m)
  BY <1>6 DEF Queue, Present
<1>8. RoundsAtPlace(x) /\ DrainIsClean(x)
  BY <1>1, <1>4, <1>6, <1>7 DEF RoundsAtPlace, DrainIsClean, Good
<1>9. ~maintained => x.agent.at # "maintenance" /\ AtMostOne(x)
  BY <1>1, <1>6, <1>7 DEF Good, AtMostOne
<1>10. Shed(v, x)
  BY <1>6, DisarmedSheds
<1> HIDE DEF v
<1>11. Good(v, ~maintained, halted) /\ Mild(v, x, halted)
  BY <1>6, <1>8, <1>9, <1>10, ShedPlaced
<1>12. World' = v
  BY <1>2, <1>10, BecomesWorld DEF Shed
<1>13. IInv'
  BY <1>2, <1>11, <1>12 DEF IInv
<1>14. halted /\ driver.attempt.phase = "none" => driver'.attempt.phase = "none"
  BY <1>2, <1>4, <1>6, <1>11 DEF Mild, Becomes
<1>15. Lawful
  BY <1>2, <1>14 DEF Lawful
<1> QED BY <1>13, <1>15 DEF Kept

-----------------------------------------------------------------------------
(* The turn.                                                               *)

LEMMA TheRoundIs ==
  ASSUME NEW w, RoundsAtPlace(w), Fenced(w)
  PROVE  /\ TheRound(w) \in w.agent.batch /\ IsRound(TheRound(w))
         /\ \A m \in w.agent.batch : IsRound(m) => m = TheRound(w)
<1>1. \E m \in w.agent.batch : IsRound(m)
  BY DEF Fenced
<1>2. TheRound(w) \in w.agent.batch /\ IsRound(TheRound(w))
  BY <1>1 DEF TheRound
<1> QED BY <1>2 DEF RoundsAtPlace

\* Behind a claimed round of the present revision no other one is queued.
LEMMA NoOtherQueued ==
  ASSUME NEW w, AtMostOne(w), NEW m \in w.agent.batch, Present(w, m)
  PROVE  \A o \in Queue(w) : ~Present(w, o)
BY DEF AtMostOne

\* Once the fence has let it pass, a claimed round is of the present revision
\* if any round is.
LEMMA DecidingHasNoOther ==
  ASSUME NEW w, NEW resting, NEW stopped, Good(w, resting, stopped), Fenced(w),
         w.agent.at = "deciding", resting, CanContinue(w), ~w.goal.broken
  PROVE  \A m \in Queue(w) : ~Present(w, m)
<1> SUFFICES ASSUME NEW m \in Queue(w), Present(w, m) PROVE FALSE
  OBVIOUS
<1>1. TheRound(w) \in w.agent.batch /\ IsRound(TheRound(w))
  BY TheRoundIs DEF Good
<1>2. Present(w, TheRound(w))
  BY <1>1 DEF Good, PresentIsReserved
<1> QED BY <1>1, <1>2, NoOtherQueued DEF Good

LEMMA WithoutEnding ==
  ASSUME NEW w, NEW resting, NEW stopped, Good(w, resting, stopped), Fenced(w),
         w.agent.at = "deciding"
  PROVE  /\ Ending(Without(w), resting) /\ Mild(Without(w), w, stopped)
         /\ NothingToStop(w) => NothingToStop(Without(w))
         /\ Ending(requestDrive(Without(w)), resting)
         /\ Mild(requestDrive(Without(w)), w, stopped)
         /\ NothingToStop(w) => NothingToStop(requestDrive(Without(w)))
<1> DEFINE x == Without(w)
<1>1. Dropped(x, w) /\ x \in Worlds
  BY WithoutDrops DEF Good, Dropped
<1> HIDE DEF x
<1>2. Ending(w, resting)
  BY GoodEnding DEF Running
<1>3. Ending(x, resting)
  BY <1>1, <1>2, DecidingHasNoOther, DroppedEnding
<1>4. Mild(x, w, stopped)
  BY <1>1 DEF Dropped, Mild, SameGoal, SamePlugin
<1>5. NothingToStop(w) => NothingToStop(x)
  BY <1>1 DEF Dropped, SameGoal, SamePlugin, NothingToStop, CanContinue, Listens
<1>6. ~IsIdle(x)
  BY <1>1 DEF Dropped, SameAgent, IsIdle
<1>7. Alike(requestDrive(x), x)
  BY <1>1, <1>6, RequestNotes
<1>8. Ending(requestDrive(x), resting)
  BY <1>3, <1>7, AlikeEnding
<1>9. Mild(requestDrive(x), w, stopped)
  BY <1>4, <1>7 DEF Alike, SameGoal, SamePlugin, SameAttempt, Mild
<1>10. NothingToStop(x) => NothingToStop(requestDrive(x))
  BY <1>7 DEF Alike, SameGoal, SamePlugin, NothingToStop, CanContinue, Listens
<1> QED BY <1>3, <1>4, <1>5, <1>8, <1>9, <1>10 DEF x

\* A fence that refuses its own round drops the reservation; no other round of
\* the present revision is queued behind it.
LEMMA RefusedEnding ==
  ASSUME NEW w, NEW resting, NEW stopped, Good(w, resting, stopped), Fenced(w),
         w.agent.at = "assembling"
  PROVE  /\ Ending(Refused(w), resting) /\ Mild(Refused(w), w, stopped)
         /\ NothingToStop(w) => NothingToStop(Refused(w))
<1> DEFINE own == IsOwn(w, TheRound(w))
           x == IF own THEN Without(w) ELSE w
           y == Restored(x)
<1>1. w \in Worlds /\ Ending(w, resting)
  BY GoodEnding DEF Running, Good
<1>2. Refused(w) = requestDrive(y)
  <2>1. CASE own
    BY <2>1 DEF Refused, Without
  <2>2. CASE ~own
    <3>1. [w EXCEPT !.driver.attempt = w.driver.attempt] = w
      BY <1>1 DEF Worlds, AnyDriver
    <3> QED BY <2>2, <3>1 DEF Refused
  <2> QED BY <2>1, <2>2
<1>3. own /\ resting /\ CanContinue(w) /\ ~w.goal.broken =>
        \A m \in Queue(w) : ~Present(w, m)
  <2> SUFFICES ASSUME own, resting, CanContinue(w), ~w.goal.broken,
                      NEW m \in Queue(w), Present(w, m)
               PROVE  FALSE
    OBVIOUS
  <2>1. w.driver.attempt.message = m
    BY DEF Good, PresentIsReserved
  <2>2. TheRound(w) \in w.agent.batch /\ IsRound(TheRound(w))
    BY TheRoundIs DEF Good
  <2>3. Present(w, TheRound(w))
    BY <2>1, <2>2 DEF IsOwn, sameRound, Present
  <2> QED BY <2>2, <2>3, NoOtherQueued DEF Good
<1> HIDE DEF own
<1>4. Dropped(Without(w), w)
  BY <1>1, WithoutDrops
<1>5. /\ Ending(x, resting) /\ Mild(x, w, stopped) /\ x \in Worlds
      /\ x.agent.at = "assembling"
      /\ NothingToStop(w) => NothingToStop(x)
  <2>1. CASE own
    <3>1. x = Without(w)
      BY <2>1
    <3>2. Ending(Without(w), resting)
      BY <1>1, <1>3, <1>4, <2>1, DroppedEnding
    <3>3. Mild(Without(w), w, stopped)
      BY <1>4 DEF Dropped, Mild, SameGoal, SamePlugin
    <3>4. NothingToStop(w) => NothingToStop(Without(w))
      BY <1>4 DEF Dropped, SameGoal, SamePlugin, NothingToStop, CanContinue, Listens
    <3>5. Without(w) \in Worlds /\ Without(w).agent.at = "assembling"
      BY <1>4 DEF Dropped, SameAgent
    <3> QED BY <3>1, <3>2, <3>3, <3>4, <3>5
  <2>2. CASE ~own
    BY <1>1, <2>2 DEF Mild
  <2> QED BY <2>1, <2>2
<1> HIDE DEF x
<1>6. /\ Ending(y, resting) /\ y \in Worlds /\ y.agent.at = "assembling"
      /\ y.goal = x.goal /\ y.driver = x.driver
      /\ NothingToStop(w) => NothingToStop(y)
  BY <1>5, RestoredEnding, RestoredFields
<1> HIDE DEF y
<1>7. Alike(requestDrive(y), y)
  BY <1>6, RequestNotes DEF IsIdle
<1>8. Ending(requestDrive(y), resting)
  BY <1>6, <1>7, AlikeEnding
<1>9. Mild(requestDrive(y), w, stopped)
  BY <1>5, <1>6, <1>7 DEF Alike, SameGoal, SamePlugin, SameAttempt, Mild
<1>10. NothingToStop(y) => NothingToStop(requestDrive(y))
  BY <1>7 DEF Alike, SameGoal, SamePlugin, NothingToStop, CanContinue, Listens
<1> QED BY <1>2, <1>6, <1>8, <1>9, <1>10

\* The agent goes on with its batch.
LEMMA GoesOnFields ==
  ASSUME NEW w \in Worlds, NEW v,
         v = [w EXCEPT !.agent.at = "deciding"] \/ v = [w EXCEPT !.agent.at = "decided"]
  PROVE  /\ v \in Worlds /\ v.agent.at \in {"deciding", "decided"}
         /\ v.agent.aborted = w.agent.aborted /\ v.agent.batch = w.agent.batch
         /\ v.agent.nextTurn = w.agent.nextTurn
         /\ v.agent.nextStep = w.agent.nextStep
         /\ v.goal = w.goal /\ v.driver = w.driver
<1>1. w.agent \in AnyAgent
  BY WorldParts
<1>2. "deciding" \in Running /\ "decided" \in Running
  BY DEF Running
<1>3. CASE v = [w EXCEPT !.agent.at = "deciding"]
  BY <1>1, <1>2, <1>3 DEF Worlds, AnyAgent
<1>4. CASE v = [w EXCEPT !.agent.at = "decided"]
  BY <1>1, <1>2, <1>4 DEF Worlds, AnyAgent
<1> QED BY <1>3, <1>4

LEMMA GoesOn ==
  ASSUME NEW w, NEW v, NEW resting, NEW stopped, Good(w, resting, stopped),
         w.agent.at \in {"assembling", "deciding"},
         v = [w EXCEPT !.agent.at = "deciding"] \/ v = [w EXCEPT !.agent.at = "decided"],
         Fenced(w) => validReservation(w)
  PROVE  Good(v, resting, stopped) /\ Mild(v, w, stopped)
<1>1. /\ v \in Worlds /\ v.agent.at \in {"deciding", "decided"}
      /\ v.agent.aborted = w.agent.aborted /\ v.agent.batch = w.agent.batch
      /\ v.agent.nextTurn = w.agent.nextTurn /\ v.agent.nextStep = w.agent.nextStep
      /\ v.goal = w.goal /\ v.driver = w.driver
  BY GoesOnFields DEF Good
<1>2. Queue(v) = Queue(w) /\ \A m : Present(v, m) <=> Present(w, m)
  BY <1>1 DEF Queue, Present
<1>3. RoundsAtPlace(w) => RoundsAtPlace(v)
  BY <1>1, <1>2 DEF RoundsAtPlace
<1>4. DrainIsClean(w) => DrainIsClean(v)
  BY <1>1, <1>2 DEF DrainIsClean
<1>5. AtMostOne(w) => AtMostOne(v)
  BY <1>1, <1>2 DEF AtMostOne
<1>6. Listens(w) => \A o \in w.agent.batch : IsRound(o) => Present(w, o)
  <2> SUFFICES ASSUME Listens(w), NEW o \in w.agent.batch, IsRound(o)
               PROVE  Present(w, o)
    OBVIOUS
  <2>1. Fenced(w)
    BY DEF Fenced
  <2>2. TheRound(w).revision = w.goal.revision
    BY <2>1 DEF validReservation
  <2>3. o = TheRound(w)
    BY <2>1, TheRoundIs DEF Good
  <2> QED BY <2>2, <2>3 DEF Present
<1>7. PresentIsReserved(w) => PresentIsReserved(v)
  <2> HAVE PresentIsReserved(w)
  <2>1. \A m \in Queue(w) \union w.agent.batch :
          Present(w, m) /\ CanContinue(w) /\ ~w.goal.broken =>
            /\ w.driver.plugin = "up" /\ w.driver.attempt.message = m
            /\ w.driver.attempt.phase \in {"queued", "claimed"}
    BY DEF PresentIsReserved
  <2>2. w.driver.plugin = "up" => Listens(w)
    BY DEF Listens
  <2> QED BY <1>1, <1>2, <1>6, <2>1, <2>2 DEF PresentIsReserved, CanContinue
<1>8. HaltHolds(w) => HaltHolds(v)
  BY <1>1 DEF HaltHolds, CanContinue, Listens, Running
<1>9. Mild(v, w, stopped)
  BY <1>1 DEF Mild
<1> QED BY <1>1, <1>3, <1>4, <1>5, <1>7, <1>8, <1>9 DEF Good

\* A turn that was not aborted has nothing to stop.
LEMMA UnabortedHasNothing ==
  ASSUME NEW w, NEW resting, NEW stopped, Good(w, resting, stopped),
         w.agent.at \in {"assembling", "deciding", "decided", "step"},
         ~w.agent.aborted
  PROVE  stopped => NothingToStop(w)
BY DEF Good, HaltHolds, NothingToStop

LEMMA AssembledKeeps ==
  ASSUME IInv, Assembled PROVE Kept
<1>1. /\ Good(World, ~maintained, halted) /\ World.agent.at = "assembling"
      /\ World.agent.aborted = agent.aborted
  BY WorldFields DEF IInv, Assembled
<1>2. Ending(World, ~maintained)
  BY <1>1, GoodEnding DEF Running
<1>3. halted' = halted /\ maintained' = maintained
  BY DEF Assembled
<1>4. CASE Becomes(TurnAborts(World))
  BY <1>2, <1>3, <1>4, AbortsKeep, Concludes
<1>5. CASE Becomes(TurnFails(World))
  BY <1>2, <1>3, <1>5, FailsKeep, Concludes
<1>6. CASE Fenced(World) /\ Becomes(TurnAborts(Refused(World)))
  <2>1. Ending(Refused(World), ~maintained) /\ Mild(Refused(World), World, halted)
    BY <1>1, <1>6, RefusedEnding
  <2>2. /\ Good(TurnAborts(Refused(World)), ~maintained, halted)
        /\ Mild(TurnAborts(Refused(World)), Refused(World), halted)
    BY <2>1, AbortsKeep
  <2>3. Mild(TurnAborts(Refused(World)), World, halted)
    BY <2>1, <2>2, MildComposes
  <2> QED BY <1>3, <1>6, <2>2, <2>3, Concludes
<1>7. CASE ~agent.aborted /\ Fenced(World) /\ Becomes(TurnLeaves(Refused(World)))
  <2>1. /\ Ending(Refused(World), ~maintained) /\ Mild(Refused(World), World, halted)
        /\ NothingToStop(World) => NothingToStop(Refused(World))
    BY <1>1, <1>7, RefusedEnding
  <2>2. halted => NothingToStop(Refused(World))
    BY <1>1, <1>7, <2>1, UnabortedHasNothing
  <2>3. /\ Good(TurnLeaves(Refused(World)), ~maintained, halted)
        /\ Mild(TurnLeaves(Refused(World)), Refused(World), halted)
    BY <2>1, <2>2, LeavesKeep
  <2>4. Mild(TurnLeaves(Refused(World)), World, halted)
    BY <2>1, <2>3, MildComposes
  <2> QED BY <1>3, <1>7, <2>3, <2>4, Concludes
<1>8. CASE /\ Fenced(World) => validReservation(World)
           /\ Becomes([World EXCEPT !.agent.at = "deciding"])
  <2> DEFINE v == [World EXCEPT !.agent.at = "deciding"]
  <2>1. Good(v, ~maintained, halted) /\ Mild(v, World, halted)
    BY <1>1, <1>8, GoesOn
  <2> HIDE DEF v
  <2>2. Becomes(v)
    BY <1>8 DEF v
  <2> QED BY <1>3, <2>1, <2>2, Concludes
<1>9. \/ Becomes(TurnAborts(World))
      \/ Becomes(TurnFails(World))
      \/ Fenced(World) /\ Becomes(TurnAborts(Refused(World)))
      \/ ~agent.aborted /\ Fenced(World) /\ Becomes(TurnLeaves(Refused(World)))
      \/ /\ Fenced(World) => validReservation(World)
         /\ Becomes([World EXCEPT !.agent.at = "deciding"])
  <2>1. CASE Fenced(World) /\ ~validReservation(World) /\ agent.aborted
    BY <2>1 DEF Assembled
  <2>2. CASE Fenced(World) /\ ~validReservation(World) /\ ~agent.aborted
    BY <2>2 DEF Assembled
  <2>3. CASE ~(Fenced(World) /\ ~validReservation(World))
    BY <2>3 DEF Assembled
  <2> QED BY <2>1, <2>2, <2>3
<1> QED BY <1>4, <1>5, <1>6, <1>7, <1>8, <1>9

LEMMA RejectedEnding ==
  ASSUME NEW w, NEW resting, NEW stopped, Good(w, resting, stopped), Fenced(w),
         w.agent.at = "deciding"
  PROVE  /\ Ending(Rejected(w), resting) /\ Mild(Rejected(w), w, stopped)
         /\ NothingToStop(w) => NothingToStop(Rejected(w))
<1> DEFINE x == Without(w)
<1>1. /\ Ending(x, resting) /\ Mild(x, w, stopped)
      /\ NothingToStop(w) => NothingToStop(x)
  BY WithoutEnding
<1>2. Rejected(w) = x \/ Rejected(w) = Stop(x, "blocked")
  BY DEF Rejected, Without
<1> HIDE DEF x
<1>3. Shed(Stop(x, "blocked"), x)
  BY <1>1, StopSheds DEF Ending
<1>4. Ending(Stop(x, "blocked"), resting) /\ NothingToStop(Stop(x, "blocked"))
  BY <1>1, <1>3, ShedEnding
<1>5. Mild(Stop(x, "blocked"), w, stopped)
  BY <1>1, <1>3 DEF Shed, SamePlugin, Mild
<1> QED BY <1>1, <1>2, <1>4, <1>5

LEMMA DecidedKeeps ==
  ASSUME IInv, Decided PROVE Kept
<1>1. /\ Good(World, ~maintained, halted) /\ World.agent.at = "deciding"
      /\ World.agent.aborted = agent.aborted
  BY WorldFields DEF IInv, Decided
<1>2. Ending(World, ~maintained) /\ World \in Worlds
  BY <1>1, GoodEnding DEF Running, Good
<1>3. halted' = halted /\ maintained' = maintained
  BY DEF Decided
<1>4. ~agent.aborted => (halted => NothingToStop(World))
  BY <1>1, UnabortedHasNothing
<1>5. \A x : /\ Ending(x, ~maintained) /\ Mild(x, World, halted)
             /\ halted => NothingToStop(x)
             /\ Becomes(TurnLeaves(x))
             => Kept
  <2> SUFFICES ASSUME NEW x, Ending(x, ~maintained), Mild(x, World, halted),
                      halted => NothingToStop(x), Becomes(TurnLeaves(x))
               PROVE  Kept
    OBVIOUS
  <2>1. /\ Good(TurnLeaves(x), ~maintained, halted)
        /\ Mild(TurnLeaves(x), x, halted)
    BY LeavesKeep
  <2>2. Mild(TurnLeaves(x), World, halted)
    BY <2>1, MildComposes
  <2> QED BY <1>3, <2>1, <2>2, Concludes
<1>6. Mild(World, World, halted)
  BY DEF Mild
<1>7. CASE Becomes(TurnAborts(World))
  BY <1>2, <1>3, <1>7, AbortsKeep, Concludes
<1>8. CASE Becomes(TurnAborts(Restored(World)))
  <2> DEFINE x == Restored(World)
  <2>1. Ending(x, ~maintained) /\ Mild(x, World, halted)
    BY <1>2, RestoredEnding, RestoredFields DEF Mild
  <2> HIDE DEF x
  <2>2. Good(TurnAborts(x), ~maintained, halted) /\ Mild(TurnAborts(x), x, halted)
    BY <2>1, AbortsKeep
  <2>3. Mild(TurnAborts(x), World, halted)
    BY <2>1, <2>2, MildComposes
  <2>4. Becomes(TurnAborts(x))
    BY <1>8 DEF x
  <2> QED BY <1>3, <2>2, <2>3, <2>4, Concludes
<1>9. CASE Fenced(World) /\ Becomes(TurnFails(requestDrive(Without(World))))
  <2> DEFINE x == requestDrive(Without(World))
  <2>1. Ending(x, ~maintained) /\ Mild(x, World, halted)
    BY <1>1, <1>9, WithoutEnding
  <2> HIDE DEF x
  <2>2. Good(TurnFails(x), ~maintained, halted) /\ Mild(TurnFails(x), x, halted)
    BY <2>1, FailsKeep
  <2>3. Mild(TurnFails(x), World, halted)
    BY <2>1, <2>2, MildComposes
  <2>4. Becomes(TurnFails(x))
    BY <1>9 DEF x
  <2> QED BY <1>3, <2>2, <2>3, <2>4, Concludes
<1>10. CASE Becomes(TurnFails(World))
  BY <1>2, <1>3, <1>10, FailsKeep, Concludes
<1>11. CASE ~agent.aborted /\ Fenced(World) /\ Becomes(TurnLeaves(Rejected(World)))
  <2>1. /\ Ending(Rejected(World), ~maintained) /\ Mild(Rejected(World), World, halted)
        /\ NothingToStop(World) => NothingToStop(Rejected(World))
    BY <1>1, <1>11, RejectedEnding
  <2> QED BY <1>4, <1>5, <1>11, <2>1
<1>12. CASE ~agent.aborted /\ Becomes(TurnLeaves(World))
  BY <1>2, <1>4, <1>5, <1>6, <1>12
<1>13. CASE /\ ~agent.aborted /\ Fenced(World)
            /\ Becomes(TurnLeaves(Restored(requestDrive(Without(World)))))
  <2> DEFINE x == requestDrive(Without(World))
             y == Restored(x)
  <2>1. /\ Ending(x, ~maintained) /\ Mild(x, World, halted)
        /\ NothingToStop(World) => NothingToStop(x)
    BY <1>1, <1>13, WithoutEnding
  <2> HIDE DEF x
  <2>2. /\ Ending(y, ~maintained)
        /\ NothingToStop(x) => NothingToStop(y)
    BY <2>1, RestoredEnding
  <2>3. y.goal = x.goal /\ y.driver = x.driver
    BY <2>1, RestoredFields DEF Ending
  <2>4. Mild(y, World, halted)
    BY <2>1, <2>3 DEF Mild
  <2>5. Becomes(TurnLeaves(y))
    BY <1>13 DEF x
  <2> HIDE DEF y
  <2> QED BY <1>4, <1>5, <1>13, <2>1, <2>2, <2>4, <2>5
<1>14. CASE /\ Fenced(World) => validReservation(World)
            /\ Becomes([World EXCEPT !.agent.at = "decided"])
  <2> DEFINE v == [World EXCEPT !.agent.at = "decided"]
  <2>1. Good(v, ~maintained, halted) /\ Mild(v, World, halted)
    BY <1>1, <1>14, GoesOn
  <2> HIDE DEF v
  <2>2. Becomes(v)
    BY <1>14 DEF v
  <2> QED BY <1>3, <2>1, <2>2, Concludes
<1>15. \/ Becomes(TurnAborts(World)) \/ Becomes(TurnAborts(Restored(World)))
       \/ Fenced(World) /\ Becomes(TurnFails(requestDrive(Without(World))))
       \/ Becomes(TurnFails(World))
       \/ ~agent.aborted /\ Fenced(World) /\ Becomes(TurnLeaves(Rejected(World)))
       \/ ~agent.aborted /\ Becomes(TurnLeaves(World))
       \/ /\ ~agent.aborted /\ Fenced(World)
          /\ Becomes(TurnLeaves(Restored(requestDrive(Without(World)))))
       \/ /\ Fenced(World) => validReservation(World)
          /\ Becomes([World EXCEPT !.agent.at = "decided"])
  <2>1. CASE Fenced(World)
    <3>1. CASE validReservation(World)
      BY <2>1, <3>1 DEF Decided, Without
    <3>2. CASE ~validReservation(World)
      BY <2>1, <3>2 DEF Decided, Without
    <3> QED BY <3>1, <3>2
  <2>2. CASE ~Fenced(World)
    BY <2>2 DEF Decided, Without
  <2> QED BY <2>1, <2>2
<1> QED
  BY <1>7, <1>8, <1>9, <1>10, <1>11, <1>12, <1>13, <1>14, <1>15

\* The batch enters its step.
LEMMA AdmittedFields ==
  ASSUME NEW w \in Worlds
  PROVE  /\ Admitted(w) \in Worlds
         /\ Admitted(w).agent.at = "step" /\ Admitted(w).agent.batch = {}
         /\ Admitted(w).agent.nextTurn = w.agent.nextTurn
         /\ Admitted(w).agent.nextStep = w.agent.nextStep
         /\ Admitted(w).goal.phase = w.goal.phase /\ Admitted(w).goal.armed = w.goal.armed
         /\ Admitted(w).goal.revision = w.goal.revision
         /\ w.goal.broken => Admitted(w).goal.broken
         /\ (\A m \in w.agent.batch : ~IsRound(m)) =>
              Admitted(w).goal.rounds = w.goal.rounds
         /\ Admitted(w).driver.plugin = w.driver.plugin
         /\ Admitted(w).driver.attempt.message = w.driver.attempt.message
         /\ \/ Admitted(w).driver.attempt.phase = w.driver.attempt.phase
            \/ /\ Admitted(w).driver.attempt.phase = "admitted"
               /\ w.driver.attempt.message \in w.agent.batch
<1>1. /\ w.agent \in AnyAgent /\ w.goal \in AnyGoal /\ w.driver \in AnyDriver
      /\ w.driver.attempt \in AnyAttempt /\ w.goal.rounds \in Nat
      /\ w.goal.broken \in BOOLEAN /\ w.driver.attempt.phase \in Phases
  BY WorldParts DEF AnyGoal, AnyAttempt
<1> DEFINE own == Listens(w) /\ w.driver.attempt.message \in w.agent.batch
           round == {m \in w.agent.batch : IsRound(m)}
           fits == \A m \in round : Fits(w, m)
           a == [w.agent EXCEPT !.at = "step", !.batch = {}]
           rounds == IF round # {} /\ fits /\ ~w.goal.broken THEN w.goal.rounds + 1
                                                             ELSE w.goal.rounds
           broken == w.goal.broken \/ ~fits
           g == [w.goal EXCEPT !.rounds = rounds, !.broken = broken]
           p == IF own THEN "admitted" ELSE w.driver.attempt.phase
           attempt == [w.driver.attempt EXCEPT !.phase = p]
           d == [w.driver EXCEPT !.attempt = attempt]
<1>2. Admitted(w) = [w EXCEPT !.agent = a, !.goal = g, !.driver = d]
  BY <1>1 DEF Admitted, Worlds, AnyGoal, AnyDriver, AnyAttempt
<1>3. (\A m \in w.agent.batch : ~IsRound(m)) => round = {}
  OBVIOUS
<1> HIDE DEF round, fits
<1>4. rounds \in Nat /\ (round = {} => rounds = w.goal.rounds)
  BY <1>1
<1>5. broken \in BOOLEAN /\ (w.goal.broken => broken)
  BY <1>1
<1>6. /\ p \in Phases
      /\ \/ p = w.driver.attempt.phase
         \/ p = "admitted" /\ w.driver.attempt.message \in w.agent.batch
  BY <1>1 DEF Phases
<1> HIDE DEF rounds, broken, p, own
<1>7. /\ a \in AnyAgent /\ a.at = "step" /\ a.batch = {}
      /\ a.nextTurn = w.agent.nextTurn /\ a.nextStep = w.agent.nextStep
  BY <1>1 DEF AnyAgent, Running
<1>8. /\ g \in AnyGoal /\ g.phase = w.goal.phase /\ g.armed = w.goal.armed
      /\ g.revision = w.goal.revision /\ g.rounds = rounds /\ g.broken = broken
  BY <1>1, <1>4, <1>5 DEF AnyGoal
<1>9. /\ attempt \in AnyAttempt /\ attempt.phase = p
      /\ attempt.message = w.driver.attempt.message
  BY <1>1, <1>6 DEF AnyAttempt
<1> HIDE DEF attempt
<1>10. d \in AnyDriver /\ d.attempt = attempt /\ d.plugin = w.driver.plugin
  BY <1>1, <1>9 DEF AnyDriver
<1> DEFINE v == [w EXCEPT !.agent = a, !.goal = g, !.driver = d]
<1> HIDE DEF a, g, d
<1>11. v \in Worlds /\ v.agent = a /\ v.goal = g /\ v.driver = d
  BY <1>1, <1>7, <1>8, <1>10 DEF Worlds
<1> HIDE DEF v
<1>12. Admitted(w) = v
  BY <1>2 DEF v
<1>13. (\A m \in w.agent.batch : ~IsRound(m)) => g.rounds = w.goal.rounds
  BY <1>3, <1>4, <1>8
<1> QED
  BY <1>5, <1>6, <1>7, <1>8, <1>9, <1>10, <1>11, <1>12, <1>13

LEMMA AdmittedKeeps ==
  ASSUME NEW w, NEW resting, NEW stopped, Good(w, resting, stopped),
         w.agent.at = "decided", ~w.agent.aborted
  PROVE  Good(Admitted(w), resting, stopped)
<1> DEFINE v == Admitted(w)
<1>1. /\ w \in Worlds /\ v \in Worlds /\ v.agent.at = "step" /\ v.agent.batch = {}
      /\ v.agent.nextTurn = w.agent.nextTurn /\ v.agent.nextStep = w.agent.nextStep
      /\ v.goal.phase = w.goal.phase /\ v.goal.armed = w.goal.armed
      /\ v.goal.revision = w.goal.revision /\ (w.goal.broken => v.goal.broken)
      /\ v.driver.plugin = w.driver.plugin
      /\ v.driver.attempt.message = w.driver.attempt.message
      /\ \/ v.driver.attempt.phase = w.driver.attempt.phase
         \/ /\ v.driver.attempt.phase = "admitted"
            /\ w.driver.attempt.message \in w.agent.batch
  BY AdmittedFields DEF Good
<1> HIDE DEF v
<1>2. Queue(v) = Queue(w) /\ \A m : Present(v, m) <=> Present(w, m)
  BY <1>1 DEF Queue, Present
<1>3. RoundsAtPlace(w) => RoundsAtPlace(v)
  BY <1>1, <1>2 DEF RoundsAtPlace
<1>4. DrainIsClean(w) => DrainIsClean(v)
  BY <1>1, <1>2 DEF DrainIsClean
<1>5. AtMostOne(w) => AtMostOne(v)
  BY <1>1, <1>2 DEF AtMostOne
<1>6. AtMostOne(w) /\ PresentIsReserved(w) => PresentIsReserved(v)
  <2> SUFFICES ASSUME AtMostOne(w), PresentIsReserved(w), CanContinue(v),
                      ~v.goal.broken, NEW m \in Queue(w), Present(w, m)
               PROVE  /\ v.driver.plugin = "up" /\ v.driver.attempt.message = m
                      /\ v.driver.attempt.phase \in {"queued", "claimed"}
    BY <1>1, <1>2 DEF PresentIsReserved
  <2>1. /\ w.driver.plugin = "up" /\ w.driver.attempt.message = m
        /\ w.driver.attempt.phase \in {"queued", "claimed"}
    BY <1>1 DEF PresentIsReserved, CanContinue
  <2>2. m \notin w.agent.batch
    BY DEF AtMostOne
  <2> QED BY <1>1, <2>1, <2>2
<1>7. stopped => HaltHolds(v)
  <2>1. stopped => NothingToStop(w)
    BY <1>1, UnabortedHasNothing
  <2> QED BY <1>1, <2>1 DEF NothingToStop, HaltHolds, CanContinue, Listens
<1> QED BY <1>1, <1>3, <1>4, <1>5, <1>6, <1>7 DEF Good, v

LEMMA EnteredKeeps ==
  ASSUME IInv, Entered PROVE Kept
<1>1. /\ Good(World, ~maintained, halted) /\ World.agent.at = "decided"
      /\ World.agent.aborted = agent.aborted /\ World \in Worlds
  BY WorldFields DEF IInv, Entered, Good
<1>2. Ending(World, ~maintained)
  BY <1>1, GoodEnding DEF Running
<1>3. halted' = halted /\ maintained' = maintained
  BY DEF Entered
<1>4. CASE Becomes(TurnAborts(World))
  BY <1>2, <1>3, <1>4, AbortsKeep, Concludes
<1>5. CASE Becomes(TurnFails(World))
  BY <1>2, <1>3, <1>5, FailsKeep, Concludes
<1>6. CASE ~agent.aborted /\ Becomes(TurnLeaves(World))
  <2>1. halted => NothingToStop(World)
    BY <1>1, <1>6, UnabortedHasNothing
  <2> QED BY <1>2, <1>3, <1>6, <2>1, LeavesKeep, Concludes
<1>7. CASE ~agent.aborted /\ Becomes(Admitted(World))
  <2> DEFINE v == Admitted(World)
  <2>1. Good(v, ~maintained, halted)
    BY <1>1, <1>7, AdmittedKeeps
  <2>2. /\ v \in Worlds
        /\ (\A m \in World.agent.batch : ~IsRound(m)) => v.goal.rounds = goal.rounds
        /\ v.driver.plugin = driver.plugin
        /\ v.driver.attempt.phase \in {driver.attempt.phase, "admitted"}
    BY <1>1, AdmittedFields, WorldFields
  <2>3. Becomes(v)
    BY <1>7
  <2> HIDE DEF v
  <2>4. World' = v
    BY <2>2, <2>3, BecomesWorld
  <2>5. IInv'
    BY <1>3, <2>1, <2>4 DEF IInv
  <2>6. driver.plugin = "draining" => \A m \in World.agent.batch : ~IsRound(m)
    BY <1>1, <1>7, WorldFields DEF Good, DrainIsClean
  <2>7. goal.rounds \in Nat
    BY <1>1, WorldParts, WorldFields
  <2>8. Lawful
    BY <2>2, <2>3, <2>6, <2>7 DEF Lawful, Becomes
  <2> QED BY <2>5, <2>8 DEF Kept
<1> QED BY <1>4, <1>5, <1>6, <1>7 DEF Entered

LEMMA CompletesKeep ==
  ASSUME NEW w, NEW resting, NEW stopped, Good(w, resting, stopped),
         w.agent.at = "step", ~w.agent.aborted
  PROVE  /\ Good(TurnCompletes(w), resting, stopped)
         /\ Mild(TurnCompletes(w), w, stopped)
<1>1. TurnCompletes(w) = Claim(w) \/ TurnCompletes(w) = TurnLeaves(w)
  BY DEF TurnCompletes
<1>2. Good(Claim(w), resting, stopped) /\ Mild(Claim(w), w, stopped)
  BY ClaimKeeps
<1>3. stopped => NothingToStop(w)
  BY UnabortedHasNothing
<1>4. Ending(w, resting)
  BY GoodEnding DEF Running
<1>5. Good(TurnLeaves(w), resting, stopped) /\ Mild(TurnLeaves(w), w, stopped)
  BY <1>3, <1>4, LeavesKeep
<1> QED BY <1>1, <1>2, <1>5

LEMMA StepSettlesKeeps ==
  ASSUME IInv, StepSettles PROVE Kept
<1>1. /\ Good(World, ~maintained, halted) /\ World.agent.at = "step"
      /\ World.agent.aborted = agent.aborted /\ World \in Worlds
  BY WorldFields DEF IInv, StepSettles, Good
<1>2. Ending(World, ~maintained)
  BY <1>1, GoodEnding DEF Running
<1>3. halted' = halted /\ maintained' = maintained
  BY DEF StepSettles
<1>4. CASE Becomes(TurnAborts(World))
  BY <1>2, <1>3, <1>4, AbortsKeep, Concludes
<1>5. CASE Becomes(TurnFails(World))
  BY <1>2, <1>3, <1>5, FailsKeep, Concludes
<1>6. CASE Becomes([World EXCEPT !.agent.nextStep = {}])
  <2> DEFINE a == [agent EXCEPT !.nextStep = {}]
             v == [World EXCEPT !.agent.nextStep = {}]
  <2>1. agent \in AnyAgent
    BY <1>1, WorldParts, WorldFields
  <2>2. v = [World EXCEPT !.agent = a]
    BY <1>1, WorldFields DEF Worlds
  <2>3. /\ a \in AnyAgent /\ a.at = agent.at /\ a.aborted = agent.aborted
        /\ a.batch = agent.batch /\ a.nextTurn = agent.nextTurn /\ a.nextStep = {}
    BY <2>1 DEF AnyAgent
  <2> HIDE DEF a, v
  <2>4. v \in Worlds /\ v.agent = a /\ v.goal = goal /\ v.driver = driver
    BY <1>1, <2>2, <2>3, WorldFields DEF Worlds
  <2>5. Prompted(v, World)
    BY <2>3, <2>4, WorldFields DEF Prompted, SameGoal, SameAttempt, SamePlugin
  <2>6. Good(v, ~maintained, halted) /\ Mild(v, World, halted)
    BY <1>1, <2>5, PromptedKeeps
  <2>7. Becomes(v)
    BY <1>6 DEF v
  <2> QED BY <1>3, <2>6, <2>7, Concludes
<1>7. CASE ~agent.aborted /\ Becomes(TurnCompletes(World))
  BY <1>1, <1>3, <1>7, CompletesKeep, Concludes
<1>8. CASE ~agent.aborted /\ Becomes(TurnCompletes(Disarmed(World)))
  <2> DEFINE x == Disarmed(World)
  <2>1. Shed(x, World)
    BY <1>1, DisarmedSheds
  <2> HIDE DEF x
  <2>2. Good(x, ~maintained, halted) /\ Mild(x, World, halted)
    BY <1>1, <2>1, ShedKeeps
  <2>3. x.agent.at = "step" /\ ~x.agent.aborted
    BY <1>1, <1>8, <2>1 DEF Shed, SameAgent
  <2>4. Good(TurnCompletes(x), ~maintained, halted) /\ Mild(TurnCompletes(x), x, halted)
    BY <2>2, <2>3, CompletesKeep
  <2>5. Mild(TurnCompletes(x), World, halted)
    BY <2>2, <2>4, MildComposes
  <2>6. Becomes(TurnCompletes(x))
    BY <1>8 DEF x
  <2> QED BY <1>3, <2>4, <2>5, <2>6, Concludes
<1> QED BY <1>4, <1>5, <1>6, <1>7, <1>8 DEF StepSettles

-----------------------------------------------------------------------------
(* Theorems.                                                               *)

LEMMA InitHolds == ASSUME GoalsInit PROVE IInv
<1>1. /\ agent \in AnyAgent
      /\ agent.at = "idle" /\ agent.nextTurn = <<>> /\ agent.nextStep = {}
      /\ agent.batch = {}
  BY DEF GoalsInit, AnyAgent
<1>2. goal \in AnyGoal /\ goal.phase = "none"
  BY DEF GoalsInit, AnyGoal
<1>3. driver \in AnyDriver /\ driver.plugin = "up"
  <2>1. NoAttempt \in AnyAttempt
    BY DEF NoAttempt, AnyAttempt, Phases, AnyMessage, Round, AnyCopy
  <2> QED BY <2>1 DEF GoalsInit, FreshDriver, AnyDriver
<1>4. World \in Worlds
  BY <1>1, <1>2, <1>3 DEF World, Worlds
<1>5. Queue(World) = {}
  BY <1>1, WorldFields DEF Queue
<1>6. RoundsAtPlace(World) /\ AtMostOne(World)
  BY <1>1, <1>5, WorldFields DEF RoundsAtPlace, AtMostOne
<1>7. DrainIsClean(World) /\ PresentIsReserved(World) /\ HaltHolds(World)
  BY <1>2, <1>3, WorldFields DEF DrainIsClean, PresentIsReserved, HaltHolds, CanContinue
<1> QED BY <1>1, <1>4, <1>6, <1>7, WorldFields DEF IInv, Good

LEMMA StepHolds == ASSUME IInv, GoalsNext PROVE Kept
<1>1. CASE AgentStep
  BY <1>1, AssembledKeeps, DecidedKeeps, EnteredKeeps, StepSettlesKeeps, KickExitKeeps,
     EndMaintenanceKeeps
     DEF AgentStep
<1>2. CASE DriverStep
  BY <1>2, FlushedKeeps, LoopKeeps DEF DriverStep
<1>3. CASE Caller
  BY <1>3, FollowupKeeps, SteerKeeps, CancelKeeps, StartMaintenanceKeeps, MutationKeeps
     DEF Caller
<1> QED BY <1>1, <1>2, <1>3, UnloadKeeps, UnloadedKeeps, LoadKeeps DEF GoalsNext

LEMMA StutterHolds == ASSUME IInv, UNCHANGED goalVars PROVE IInv'
<1>1. World' = World /\ maintained' = maintained /\ halted' = halted
  BY DEF goalVars, World
<1> QED BY <1>1 DEF IInv

\* Rounds are where the agent, the goal and the driver agree they are.
THEOREM Invariant == GoalsSpec => []IInv
<1>1. GoalsInit => IInv
  BY InitHolds
<1>2. IInv /\ [GoalsNext]_goalVars => IInv'
  BY StepHolds, StutterHolds DEF Kept
<1> QED BY <1>1, <1>2, PTL DEF GoalsSpec

\* A set whose elements are all equal.
LEMMA OneElement ==
  ASSUME NEW S, \A x, y \in S : x = y
  PROVE  Cardinality(S) \in {0, 1} /\ (S = {} => Cardinality(S) = 0)
<1>1. CASE S = {}
  BY <1>1, FS_EmptySet
<1>2. CASE S # {}
  <2>1. PICK x : S = {x}
    BY <1>2
  <2> QED BY <1>2, <2>1, FS_Singleton
<1> QED BY <1>1, <1>2

\* One round of the present revision at most is queued or claimed, while no
\* maintenance task has run (drive, onIdle, the pre-step fence).
THEOREM OneRoundAtATime == GoalsSpec => []OneReservation
<1>1. IInv => OneReservation
  <2> SUFFICES ASSUME IInv, ~maintained PROVE OneReservation
    BY DEF OneReservation
  <2> DEFINE queued == {i \in DOMAIN agent.nextTurn :
                          /\ IsRound(agent.nextTurn[i])
                          /\ agent.nextTurn[i].revision = goal.revision}
             claimed == {m \in agent.batch : IsRound(m) /\ m.revision = goal.revision}
  <2>1. AtMostOne(World) /\ RoundsAtPlace(World)
    BY DEF IInv, Good
  <2>2. \A i, j \in queued : i = j
    BY <2>1, WorldFields DEF AtMostOne, Present
  <2>3. \A m, o \in claimed : m = o
    BY <2>1, WorldFields DEF RoundsAtPlace
  <2>4. queued = {} \/ claimed = {}
    BY <2>1, WorldFields DEF AtMostOne, Present, Queue
  <2> HIDE DEF queued, claimed
  <2>5. /\ Cardinality(queued) \in {0, 1} /\ Cardinality(claimed) \in {0, 1}
        /\ queued = {} => Cardinality(queued) = 0
        /\ claimed = {} => Cardinality(claimed) = 0
    BY <2>2, <2>3, OneElement
  <2>6. Cardinality(queued) + Cardinality(claimed) <= 1
    BY <2>4, <2>5
  <2> QED BY <2>6 DEF OneReservation, queued, claimed
<1> QED BY <1>1, Invariant, PTL

\* After a cancelled turn no round is reserved until somebody changes the goal
\* (the agent/status, turn/end and discarded listeners).
THEOREM CancelIsHeeded == GoalsSpec => CancelStopsGoal
<1>1. ASSUME IInv, GoalsNext, driver.attempt.phase = "none",
             driver'.attempt.phase \in {"queued", "claimed"}
      PROVE  ~halted
  <2>1. Lawful
    BY <1>1, StepHolds DEF Kept
  <2> QED BY <1>1, <2>1 DEF Lawful
<1>2. IInv /\ [GoalsNext]_goalVars =>
        [/\ driver.attempt.phase = "none"
         /\ driver'.attempt.phase \in {"queued", "claimed"}
         => ~halted]_goalVars
  BY <1>1
<1> QED BY <1>2, Invariant, PTL DEF GoalsSpec, CancelStopsGoal

\* While an unload drains no round is admitted or waits, and the driver leaves
\* no batch behind it (the plugin's teardown).
THEOREM UnloadDrains == GoalsSpec => NoRoundAfterUnload
<1>1. ASSUME IInv, GoalsNext, driver.plugin = "draining"
      PROVE  /\ goal'.rounds <= goal.rounds
             /\ \A m \in Pending(World)' : ~IsRound(m)
             /\ driver'.plugin = "down" => agent'.batch = {}
  <2>1. /\ IInv' /\ goal'.rounds <= goal.rounds
        /\ \/ driver'.plugin = "draining"
           \/ driver'.plugin = "down" /\ agent' = agent /\ agent.at = "idle"
    BY <1>1, StepHolds DEF Kept, Lawful
  <2>2. /\ \A m \in agent.nextStep : ~IsRound(m)
        /\ \A i \in DOMAIN agent.nextTurn : ~IsRound(agent.nextTurn[i])
        /\ agent.at = "idle" => agent.batch = {}
    BY <1>1, WorldFields DEF IInv, Good, RoundsAtPlace, DrainIsClean, Queue
  <2>3. driver'.plugin = "draining" =>
          /\ \A m \in agent'.nextStep : ~IsRound(m)
          /\ \A i \in DOMAIN agent'.nextTurn : ~IsRound(agent'.nextTurn[i])
    <3>1. World' = [agent |-> agent', goal |-> goal', driver |-> driver']
      BY DEF World
    <3>2. RoundsAtPlace(World') /\ DrainIsClean(World')
      BY <2>1 DEF IInv, Good
    <3> QED BY <3>1, <3>2 DEF RoundsAtPlace, DrainIsClean, Queue
  <2>4. /\ \A m \in agent'.nextStep : ~IsRound(m)
        /\ \A i \in DOMAIN agent'.nextTurn : ~IsRound(agent'.nextTurn[i])
    BY <2>1, <2>2, <2>3
  <2>5. \A m \in Pending(World)' : ~IsRound(m)
    BY <2>4 DEF Pending, World
  <2> QED BY <2>1, <2>2, <2>5
<1>2. IInv /\ [GoalsNext]_goalVars =>
        [driver.plugin = "draining" =>
           /\ goal'.rounds <= goal.rounds
           /\ \A m \in Pending(World)' : ~IsRound(m)
           /\ driver'.plugin = "down" => agent'.batch = {}]_goalVars
  BY <1>1
<1> QED BY <1>2, Invariant, PTL DEF GoalsSpec, NoRoundAfterUnload
=============================================================================
