------------------------------- MODULE LocalJobs -------------------------------
(***************************************************************************)
(* The background job registry (packages/jobs/jobs-local/src/index.ts):    *)
(* producers start jobs for an owner, callers read, kill and wait for      *)
(* them, and an owner's or the service's teardown cancels and drains them. *)
(* Everything runs in one thread, so an action is one synchronous span:    *)
(* what is interleaved are the settlements, the microtasks in which a      *)
(* wait() resumes, its deadline and its caller's abort, and the awaits of  *)
(* the two teardowns.                                                      *)
(*                                                                         *)
(* Kinds, labels, output text and access control by session id are left    *)
(* out: every call modelled is one that passes the access check.  The      *)
(* producer's outcomes "completed" and "killed" are one status here.       *)
(***************************************************************************)
EXTENDS Naturals, FiniteSets

CONSTANTS
  Job,      \* job identities; each is started at most once
  Owner,    \* agents that own jobs
  Nobody,   \* the owner of a job without one
  Wait,     \* calls of wait() that may be in flight at a time
  Limit     \* maxConcurrentJobsPerOwner

ASSUME LocalJobsAssumption ==
  /\ Nobody \notin Owner /\ Limit \in Nat \ {0}
  /\ Job # {} /\ IsFiniteSet(Wait)

VARIABLES
  job,            \* the TrackedTask records
  store,          \* the ids the registry knows
  producer,       \* what the work behind a job is doing
  wait,           \* the calls of wait()
  owner,          \* each owner's lifecycle
  ownerCleanups,  \* owners with an attached cleanup
  drained,        \* the jobs each disposeOwned() in flight is waiting for
  service,        \* "up", inside disposeAll(), or "down"
  controller,     \* a job controller and its completion listener are attached
  announced,      \* jobs whose listener was given an unreported completion
  suppressed,     \* history: jobs settled as reported while a wait was counted
  told            \* history: jobs whose end some wait() returned

jobVars == <<job, store, producer, wait, owner, ownerCleanups, drained, service,
             controller, announced, suppressed, told>>

Terminal == {"completed", "failed"}
Live     == {"running", "stopping"}

TrackedTask == [status : {"none"} \union Live \union Terminal, reported : BOOLEAN,
                waiters : 0 .. Cardinality(Wait), owner : Owner \union {Nobody}]

\* "told": an accepted cancel; "released": done is settled and its reaction is
\* a queued microtask.
Producer == {"none", "working", "told", "released", "over"}

\* A wait() is pending on its promise; released by a settlement, expired by its
\* deadline or rejected by its caller's abort, it resumes one microtask later.
WaitCall == [at : {"none", "pending", "released", "expired", "rejected"},
             job : Job, counted : BOOLEAN]

isTerminal(j) == job[j].status \in Terminal
isLive(j)     == job[j].status \in Live

OwnedBy(o) == {j \in store : job[j].owner = o}

activeTaskCount(o) == Cardinality({j \in OwnedBy(o) : isLive(j)})

JobsInit ==
  /\ job = [j \in Job |-> [status |-> "none", reported |-> FALSE, waiters |-> 0,
                           owner |-> Nobody]]
  /\ store = {} /\ producer = [j \in Job |-> "none"]
  /\ wait \in [Wait -> {[at |-> "none", job |-> CHOOSE j \in Job : TRUE,
                         counted |-> FALSE]}]
  /\ owner = [o \in Owner |-> "live"] /\ ownerCleanups = {}
  /\ drained = [o \in Owner |-> {}]
  /\ service = "up" /\ controller = TRUE
  /\ announced = {} /\ suppressed = {} /\ told = {}

-----------------------------------------------------------------------------
(* settle: the first outcome is recorded, waiters are released, and the    *)
(* completion is announced last.  It is used for one job whose producer    *)
(* is done, and for every job whose cancel threw during a teardown.        *)

Settled(task, outcome) ==
  [task EXCEPT !.status = outcome, !.reported = @ \/ task.waiters > 0]

\* What the settlement of the jobs of set does beside their records.
Announce(set, listenersClosed) ==
  /\ wait' = [w \in Wait |->
       IF wait[w].job \in set /\ wait[w].at = "pending"
       THEN [wait[w] EXCEPT !.at = "released"] ELSE wait[w]]
  /\ announced' = announced \union
       {j \in set : ~job'[j].reported /\ ~listenersClosed /\ controller}
  /\ suppressed' = suppressed \union
       {j \in set : job'[j].reported /\ ~job[j].reported
                    /\ job[j].status \in Live /\ job[j].waiters > 0}

\* hooks.done settles, by itself or after an accepted cancel ...
Release(j) ==
  /\ producer[j] \in {"working", "told"}
  /\ producer' = [producer EXCEPT ![j] = "released"]
  /\ UNCHANGED <<job, store, wait, owner, ownerCleanups, drained, service,
                 controller, announced, suppressed, told>>

\* ... and its reaction settles the record, unless a teardown has.
Settle(j) ==
  /\ producer[j] = "released"
  /\ producer' = [producer EXCEPT ![j] = "over"]
  /\ IF isTerminal(j)
     THEN UNCHANGED <<job, wait, announced, suppressed>>
     ELSE /\ job' = [job EXCEPT ![j] = Settled(@, "completed")]
          /\ Announce({j}, service # "up")
  /\ UNCHANGED <<store, owner, ownerCleanups, drained, service, controller, told>>

-----------------------------------------------------------------------------
(* The calls of producers and callers.                                     *)

\* start: a controller serves the owner, the owner is live, and its cleanup is
\* attached before the limit is looked at.
start(j, o) ==
  /\ service = "up" /\ controller
  /\ job[j].status = "none"
  /\ o \in Owner => owner[o] = "live"
  /\ ownerCleanups' = ownerCleanups \union ({o} \intersect Owner)
  /\ IF activeTaskCount(o) >= Limit
     THEN UNCHANGED <<job, store, producer>>
     ELSE /\ job' = [job EXCEPT ![j].status = "running", ![j].owner = o]
          /\ store' = store \union {j}
          /\ producer' = [producer EXCEPT ![j] = "working"]
  /\ UNCHANGED <<wait, owner, drained, service, controller, announced,
                 suppressed, told>>

\* read, and get's state-changing part of kill on a finished job.
read(j) ==
  /\ j \in store /\ isTerminal(j)
  /\ job' = [job EXCEPT ![j].reported = TRUE]
  /\ UNCHANGED <<store, producer, wait, owner, ownerCleanups, drained, service,
                 controller, announced, suppressed, told>>

Tell(set) == [j \in Job |-> IF j \in set /\ producer[j] = "working" THEN "told"
                            ELSE producer[j]]

\* kill of a live job whose cancel returns; a throw changes nothing.
kill(j) ==
  /\ j \in store /\ isLive(j)
  /\ producer' = Tell({j})
  /\ job' = [job EXCEPT ![j].status = "stopping", ![j].reported = TRUE]
  /\ UNCHANGED <<store, wait, owner, ownerCleanups, drained, service, controller,
                 announced, suppressed, told>>

\* wait on a live job, up to its await.
BeginWait(w, j) ==
  /\ j \in store /\ isLive(j) /\ wait[w].at = "none"
  /\ wait' = [wait EXCEPT ![w] = [at |-> "pending", job |-> j, counted |-> TRUE]]
  /\ job' = [job EXCEPT ![j].waiters = @ + 1]
  /\ UNCHANGED <<store, producer, owner, ownerCleanups, drained, service,
                 controller, announced, suppressed, told>>

\* onAbort for the deadline: the promise resolves, the count stays.
Expire(w) ==
  /\ wait[w].at = "pending"
  /\ wait' = [wait EXCEPT ![w].at = "expired"]
  /\ UNCHANGED <<job, store, producer, owner, ownerCleanups, drained, service,
                 controller, announced, suppressed, told>>

\* Mutant of AbortWait: the count is left to the wait's finally.
AbortWait_keepsCount(w) ==
  /\ wait[w].at = "pending"
  /\ wait' = [wait EXCEPT ![w].at = "rejected"]
  /\ UNCHANGED <<job, store, producer, owner, ownerCleanups, drained, service,
                 controller, announced, suppressed, told>>

\* onAbort for the caller: uncounted before anything else can run.
AbortWait(w) ==
  /\ wait[w].at = "pending"
  /\ wait' = [wait EXCEPT ![w].at = "rejected", ![w].counted = FALSE]
  /\ job' = [job EXCEPT ![wait[w].job].waiters = @ - 1]
  /\ UNCHANGED <<store, producer, owner, ownerCleanups, drained, service,
                 controller, announced, suppressed, told>>

\* The wait resumes: its finally uncounts it, and a terminal state it returns
\* is marked reported.
WaitResumes(w) ==
  LET j    == wait[w].job
      over == wait[w].at # "rejected" /\ isTerminal(j)
  IN  /\ wait[w].at \in {"released", "expired", "rejected"}
      /\ wait' = [wait EXCEPT ![w] = [at |-> "none", job |-> CHOOSE k \in Job : TRUE,
                                      counted |-> FALSE]]
      /\ job' = [job EXCEPT ![j].waiters = IF wait[w].counted THEN @ - 1 ELSE @,
                            ![j].reported = @ \/ over]
      /\ told' = IF over THEN told \union {j} ELSE told
      /\ UNCHANGED <<store, producer, owner, ownerCleanups, drained, service,
                     controller, announced, suppressed>>

\* The controller's plugin unloads, and is loaded again.
ToggleController ==
  /\ service = "up"
  /\ controller' = ~controller
  /\ UNCHANGED <<job, store, producer, wait, owner, ownerCleanups, drained,
                 service, announced, suppressed, told>>

-----------------------------------------------------------------------------
(* Teardown.                                                               *)

\* Mutant of cancelForTeardown: the report is claimed after the cancel, which
\* a cancel that throws never reaches.
cancelForTeardown_claimsLate(jobs, throwing, closed) ==
  LET live == {j \in jobs : isLive(j)} IN
  /\ throwing \subseteq live
  /\ producer' = Tell(live \ throwing)
  /\ job' = [j \in Job |->
       IF j \in throwing THEN Settled(job[j], "failed")
       ELSE IF j \in live
       THEN [job[j] EXCEPT !.status = "stopping", !.reported = TRUE]
       ELSE job[j]]
  /\ Announce(throwing, closed)

\* Mutant of cancelForTeardown: a cancel that throws is passed over.
cancelForTeardown_leavesThrowing(jobs, throwing, closed) ==
  LET live == {j \in jobs : isLive(j)} IN
  /\ throwing \subseteq live
  /\ producer' = Tell(live \ throwing)
  /\ job' = [j \in Job |->
       IF j \in live
       THEN [job[j] EXCEPT !.status = "stopping", !.reported = TRUE] ELSE job[j]]
  /\ Announce({}, closed)

\* Every live job is claimed as reported, then cancelled; the record of one
\* whose cancel throws is forced to failed.
cancelForTeardown(jobs, throwing, closed) ==
  LET live == {j \in jobs : isLive(j)} IN
  /\ throwing \subseteq live
  /\ producer' = Tell(live \ throwing)
  /\ job' = [j \in Job |->
       IF j \in throwing
       THEN Settled([job[j] EXCEPT !.reported = TRUE], "failed")
       ELSE IF j \in live
       THEN [job[j] EXCEPT !.status = "stopping", !.reported = TRUE]
       ELSE job[j]]
  /\ Announce(throwing, closed)

\* The owner's scope is disposed.  With no cleanup attached it owns no job.
DisposeOwner(o, throwing) ==
  /\ owner[o] = "live"
  /\ IF o \in ownerCleanups
     THEN /\ owner' = [owner EXCEPT ![o] = "draining"]
          /\ ownerCleanups' = ownerCleanups \ {o}
          /\ drained' = [drained EXCEPT ![o] = OwnedBy(o)]
          /\ UNCHANGED <<service>>
          /\ cancelForTeardown(OwnedBy(o), throwing, service # "up")
     ELSE /\ throwing = {}
          /\ owner' = [owner EXCEPT ![o] = "gone"]
          /\ UNCHANGED <<job, producer, wait, ownerCleanups, drained, service,
                         announced, suppressed>>
  /\ UNCHANGED <<store, controller, told>>

\* Mutant of OwnerDrained: one settled job is enough.
OwnerDrained_race(o) ==
  /\ owner[o] = "draining" /\ \E j \in drained[o] : isTerminal(j)
  /\ owner' = [owner EXCEPT ![o] = "gone"]
  /\ store' = store \ drained[o]
  /\ drained' = [drained EXCEPT ![o] = {}]
  /\ UNCHANGED <<job, producer, wait, ownerCleanups, service, controller,
                 announced, suppressed, told>>

\* disposeOwned resumes: every job it waited for has settled.
OwnerDrained(o) ==
  /\ owner[o] = "draining" /\ \A j \in drained[o] : isTerminal(j)
  /\ owner' = [owner EXCEPT ![o] = "gone"]
  /\ store' = store \ drained[o]
  /\ drained' = [drained EXCEPT ![o] = {}]
  /\ UNCHANGED <<job, producer, wait, ownerCleanups, service, controller,
                 announced, suppressed, told>>

\* The service's fiber unloads, and with it the controllers that inject it, so
\* that nothing is started behind the snapshot.
DisposeService(throwing) ==
  /\ service = "up"
  /\ service' = "draining"
  /\ cancelForTeardown(store, throwing, TRUE)
  /\ UNCHANGED <<store, owner, ownerCleanups, drained, controller, told>>

\* disposeAll resumes: the store is emptied and the owners' effects detached,
\* whose own disposeOwned() finds nothing left.
ServiceDrained ==
  /\ service = "draining" /\ \A j \in store : isTerminal(j)
  /\ service' = "down"
  /\ store' = {} /\ ownerCleanups' = {}
  /\ UNCHANGED <<job, producer, wait, owner, drained, controller, announced,
                 suppressed, told>>

-----------------------------------------------------------------------------

JobStep(j) ==
  \/ \E o \in Owner \union {Nobody} : start(j, o)
  \/ read(j) \/ kill(j) \/ Release(j) \/ Settle(j)

WaitStep(w) ==
  \/ \E j \in Job : BeginWait(w, j)
  \/ Expire(w) \/ AbortWait(w) \/ WaitResumes(w)

Teardown ==
  \/ \E o \in Owner : OwnerDrained(o)
  \/ \E throwing \in SUBSET Job :
       \/ DisposeService(throwing)
       \/ \E o \in Owner : DisposeOwner(o, throwing)
  \/ ServiceDrained

JobsNext ==
  \/ \E j \in Job : JobStep(j)
  \/ \E w \in Wait : WaitStep(w)
  \/ Teardown
  \/ ToggleController

\* Microtasks and awaits resume.  A producer that accepted a cancel releases:
\* the contract of JobHooks, without which the source says a teardown stalls.
\* Nothing is assumed of one that was not told, or whose cancel threw.
JobsFairness ==
  /\ \A j \in Job : /\ WF_jobVars(producer[j] = "told" /\ Release(j))
                    /\ WF_jobVars(Settle(j))
  /\ \A w \in Wait : WF_jobVars(WaitResumes(w)) /\ WF_jobVars(Expire(w))
  /\ \A o \in Owner : WF_jobVars(OwnerDrained(o))
  /\ WF_jobVars(ServiceDrained)

JobsSpec == JobsInit /\ [][JobsNext]_jobVars /\ JobsFairness

-----------------------------------------------------------------------------
(* Properties.                                                             *)

JobsTypeOK ==
  /\ job \in [Job -> TrackedTask]
  /\ store \subseteq {j \in Job : job[j].status # "none"}
  /\ producer \in [Job -> Producer]
  /\ wait \in [Wait -> WaitCall]
  /\ owner \in [Owner -> {"live", "draining", "gone"}]
  /\ ownerCleanups \subseteq Owner
  /\ drained \in [Owner -> SUBSET Job]
  /\ service \in {"up", "draining", "down"} /\ controller \in BOOLEAN
  /\ announced \subseteq Job /\ suppressed \subseteq Job /\ told \subseteq Job

\* A completion reaches its caller once.  A notice withheld because somebody was
\* waiting is not lost: a wait() that was counted at the settlement has returned
\* the end or still will, however its deadline and its caller's abort fell.  And
\* what a wait() in flight returns was not announced too (the wait/settle race of
\* jobs-local/src/index.ts:238-278 and 422).
ReportedOnce ==
  /\ \A j \in suppressed \ told :
       \E w \in Wait : wait[w].job = j /\ wait[w].at \in {"released", "expired"}
  /\ announced \intersect told = {}

\* A teardown announces nothing: a listener is given an unreported completion
\* only of a job whose owner still lives, also when the cancel of a teardown
\* throws and settles the record on the spot (cancelForTeardown, :507-531).
TeardownIsSilent ==
  [][\A j \in announced' \ announced :
       /\ service' = "up"
       /\ job[j].owner \in Owner => owner'[job[j].owner] = "live"]_jobVars

\* An owner that is gone has left no record and no work behind: what it owned
\* was drained, or its cancel threw and the record says failed (disposeOwned
\* against start, kill, settle and disposeAll).
GoneOwnsNothing ==
  \A o \in Owner : owner[o] = "gone" =>
    /\ OwnedBy(o) = {}
    /\ \A j \in Job : /\ job[j].owner = o
                      /\ producer[j] \in {"working", "told"}
                      => job[j].status = "failed"

\* Both teardowns end, also when cancels throw and when one runs inside the
\* other, as long as producers release after a cancel they accepted.
TeardownCompletes ==
  /\ \A o \in Owner : owner[o] = "draining" ~> owner[o] = "gone"
  /\ service = "draining" ~> service = "down"
=============================================================================
