----------------------------- MODULE AgentLifecycle -----------------------------
(***************************************************************************)
(* The agent factory (packages/core/agent-loop/src/index.ts): agents are   *)
(* created or resumed for an owner, published in the registries, and torn  *)
(* down by their handle, their owner's unload, the provider's unload or a  *)
(* failed publication, whichever comes first.                              *)
(*                                                                         *)
(* call is the continuation of create(), createAgent() or resume(); life   *)
(* is the PreparedAgent with its memoized dispose().  An action is the     *)
(* code between two awaits.  The driver is its activity alone: AgentDriver *)
(* has the rest.  Sends to an agent whose teardown has begun are left out, *)
(* as the source calls them the sender's bug.                              *)
(***************************************************************************)
EXTENDS Naturals

CONSTANTS
  Call,    \* calls that create or resume an agent
  Owner,   \* fibers that make them
  Id,      \* shared agent/session identities
  None     \* no call

ASSUME LifecycleAssumption == None \notin Call

VARIABLES
  call,      \* where each call stands, with its identity and owner
  life,      \* the resources each call has prepared
  aborted,   \* the signal each call races its awaits against
  prep,      \* the SessionPreparation a resume gets from persistence
  registry,  \* the call whose agent and session an identity names
  owner,     \* each owner's fiber
  provider   \* the AgentLoop's fiber and FactoryOwnership

lifeVars == <<call, life, aborted, prep, registry, owner, provider>>

\* loading, loaded: racing persistence.prepare(), and its result not yet seen.
\* setup, set: the same for the setup callback.  failing: awaiting dispose().
Place == {"none", "loading", "loaded", "setup", "set", "failing", "live", "over"}

CallRecord == [at : Place, id : Id, owner : Owner]

\* dispose: "draining" awaits whenIdle(), "unwinding" the scope.  followed: the
\* owner's effect is registered.  joined: the owner's unload awaits dispose().
Prepared == [driver : {"none", "idle", "busy"},
             scope : {"none", "live", "unwinding", "gone"},
             dispose : {"none", "draining", "unwinding", "done"},
             followed : BOOLEAN, joined : BOOLEAN]

NoLife == [driver |-> "none", scope |-> "none", dispose |-> "none",
           followed |-> FALSE, joined |-> FALSE]

Fresh == [NoLife EXCEPT !.driver = "idle", !.scope = "live", !.followed = TRUE]

LifecycleInit ==
  /\ \E i \in Id, o \in Owner :
       call = [c \in Call |-> [at |-> "none", id |-> i, owner |-> o]]
  /\ life = [c \in Call |-> NoLife]
  /\ aborted = [c \in Call |-> FALSE]
  /\ prep = [c \in Call |-> "none"]
  /\ registry = [i \in Id |-> None]
  /\ owner = [o \in Owner |-> "live"]
  /\ provider = "up"

\* Nothing of an agent is at work.
Quiet(l) == l.driver # "busy" /\ l.scope \in {"none", "gone"}

\* dispose() up to its first await: nothing if it has begun already.
Disposed(l) == IF l.dispose = "none" /\ l.driver # "none"
               THEN [l EXCEPT !.dispose = "draining"] ELSE l

Goes(c, place) == call' = [call EXCEPT ![c].at = place]

\* A preparation leaves the caller that holds it.
Released(c) == prep' = [prep EXCEPT ![c] = IF @ = "held" THEN "released" ELSE @]

\* The call throws: setupAndPublish() disposes what it has prepared and waits.
\* Mutant: it does not wait, and lets the preparation go.
Fails_atOnce(c) ==
  /\ Goes(c, "over") /\ Released(c)
  /\ life' = [life EXCEPT ![c] = Disposed(@)]
  /\ aborted' = [aborted EXCEPT ![c] = TRUE]

Fails(c) ==
  /\ Goes(c, "failing")
  /\ life' = [life EXCEPT ![c] = Disposed(@)]
  /\ aborted' = [aborted EXCEPT ![c] = TRUE]
  /\ UNCHANGED prep

-----------------------------------------------------------------------------
(* The calls.                                                              *)

MayBegin(c, o) == call[c].at = "none" /\ owner[o] = "live" /\ provider = "up"

\* create: prepared and published in one span, or disposed in the background
\* when a listener vetoes the publication.  A listener may have sent work.
create(c, i, o) ==
  /\ MayBegin(c, o) /\ registry[i] = None
  /\ registry' = [registry EXCEPT ![i] = c]
  /\ \E d \in {"idle", "busy"}, vetoed \in BOOLEAN :
       /\ call' = [call EXCEPT ![c] =
                     [at |-> IF vetoed THEN "over" ELSE "live", id |-> i, owner |-> o]]
       /\ life' = [life EXCEPT ![c] =
                     IF vetoed THEN Disposed([Fresh EXCEPT !.driver = d])
                     ELSE [Fresh EXCEPT !.driver = d]]
       /\ aborted' = [aborted EXCEPT ![c] = vetoed]
  /\ UNCHANGED <<prep, owner, provider>>

\* createAgent, up to the await of setup.
createAgent(c, i, o) ==
  /\ MayBegin(c, o) /\ registry[i] = None
  /\ call' = [call EXCEPT ![c] = [at |-> "setup", id |-> i, owner |-> o]]
  /\ life' = [life EXCEPT ![c] = Fresh]
  /\ UNCHANGED <<aborted, prep, registry, owner, provider>>

\* resumeWith, up to the await of the load.
resume(c, i, o) ==
  /\ MayBegin(c, o)
  /\ call' = [call EXCEPT ![c] = [at |-> "loading", id |-> i, owner |-> o]]
  /\ life' = [life EXCEPT ![c].followed = TRUE]
  /\ prep' = [prep EXCEPT ![c] = "pending"]
  /\ UNCHANGED <<aborted, registry, owner, provider>>

\* Persistence answers; it gives a session that is not live to one caller at a
\* time.  A preparation nobody awaits any more is released as it arrives.
LoadArrives(c) ==
  LET i == call[c].id IN
  /\ prep[c] = "pending"
  /\ \A d \in Call : prep[d] = "held" => call[d].id # i
  /\ registry[i] = None
  /\ IF call[c].at = "loading" /\ ~aborted[c]
     THEN /\ prep' = [prep EXCEPT ![c] = "held"]
          /\ Goes(c, "loaded")
          /\ life' = [life EXCEPT ![c].followed = FALSE]
     ELSE /\ prep' = [prep EXCEPT ![c] = "released"]
          /\ UNCHANGED <<call, life>>
  /\ UNCHANGED <<aborted, registry, owner, provider>>

LoadFails(c) ==
  /\ prep[c] = "pending"
  /\ prep' = [prep EXCEPT ![c] = "none"]
  /\ IF call[c].at = "loading" /\ ~aborted[c]
     THEN Goes(c, "over") /\ life' = [life EXCEPT ![c].followed = FALSE]
     ELSE UNCHANGED <<call, life>>
  /\ UNCHANGED <<aborted, registry, owner, provider>>

\* Mutant of LoadAborted: the load is awaited without the race.
LoadAborted_waits(c) ==
  /\ call[c].at = "loading" /\ aborted[c] /\ prep[c] # "pending"
  /\ Goes(c, "over")
  /\ life' = [life EXCEPT ![c].followed = FALSE]
  /\ UNCHANGED <<aborted, prep, registry, owner, provider>>

\* raceAbortCall: the abort wins, and the load is abandoned.
LoadAborted(c) ==
  /\ call[c].at = "loading" /\ aborted[c]
  /\ Goes(c, "over")
  /\ life' = [life EXCEPT ![c].followed = FALSE]
  /\ UNCHANGED <<aborted, prep, registry, owner, provider>>

\* Mutant of LoadContinues: the owner and the provider are not looked at again.
LoadContinues_unchecked(c) ==
  /\ call[c].at = "loaded"
  /\ IF aborted[c]
     THEN Goes(c, "over") /\ Released(c) /\ UNCHANGED life
     ELSE Goes(c, "setup") /\ life' = [life EXCEPT ![c] = Fresh] /\ UNCHANGED prep
  /\ UNCHANGED <<aborted, registry, owner, provider>>

\* resumeWith after the load: prepare() throws for an abort, an owner or a
\* provider that ended meanwhile, or the agent is built and set up.
LoadContinues(c) ==
  /\ call[c].at = "loaded"
  /\ IF aborted[c] \/ owner[call[c].owner] # "live" \/ provider # "up"
     THEN Goes(c, "over") /\ Released(c) /\ UNCHANGED life
     ELSE Goes(c, "setup") /\ life' = [life EXCEPT ![c] = Fresh] /\ UNCHANGED prep
  /\ UNCHANGED <<aborted, registry, owner, provider>>

SetupReturns(c) ==
  /\ call[c].at = "setup" /\ ~aborted[c]
  /\ Goes(c, "set")
  /\ UNCHANGED <<life, aborted, prep, registry, owner, provider>>

\* The setup throws, or the abort wins the race against it.
SetupFails(c) ==
  /\ call[c].at = "setup"
  /\ Fails(c)
  /\ UNCHANGED <<registry, owner, provider>>

SetupAborted(c) == aborted[c] /\ SetupFails(c)

\* publish(): refused after an abort or by the identity's present holder; else
\* both registries are entered and the announcements made, where a listener
\* may throw or abort the caller's signal.
publish(c) ==
  LET i == call[c].id IN
  /\ call[c].at = "set"
  /\ \/ /\ aborted[c] \/ registry[i] # None
        /\ Fails(c)
        /\ UNCHANGED registry
     \/ /\ ~aborted[c] /\ registry[i] = None
        /\ registry' = [registry EXCEPT ![i] = c]
        /\ \E d \in {"idle", "busy"}, vetoed \in BOOLEAN :
             /\ Goes(c, IF vetoed THEN "failing" ELSE "live")
             /\ life' = [life EXCEPT ![c] =
                  IF vetoed THEN Disposed([@ EXCEPT !.driver = d])
                  ELSE [@ EXCEPT !.driver = d]]
             /\ aborted' = [aborted EXCEPT ![c] = vetoed]
             /\ IF vetoed THEN UNCHANGED prep ELSE Released(c)
  /\ UNCHANGED <<owner, provider>>

\* The awaited dispose() is over: the call throws, and `using` lets go.
CallThrows(c) ==
  /\ call[c].at = "failing" /\ life[c].dispose = "done"
  /\ Goes(c, "over") /\ Released(c)
  /\ UNCHANGED <<life, aborted, registry, owner, provider>>

\* The caller's signal counts until the handle is returned.
CallerAborts(c) ==
  /\ call[c].at \in {"loading", "loaded", "setup", "set"} /\ ~aborted[c]
  /\ aborted' = [aborted EXCEPT ![c] = TRUE]
  /\ UNCHANGED <<call, life, prep, registry, owner, provider>>

-----------------------------------------------------------------------------
(* The agent and its teardown.                                             *)

DriverStarts(c) ==
  /\ life[c].driver = "idle" /\ life[c].dispose = "none"
  /\ registry[call[c].id] = c
  /\ life' = [life EXCEPT ![c].driver = "busy"]
  /\ UNCHANGED <<call, aborted, prep, registry, owner, provider>>

DriverExits(c) ==
  /\ life[c].driver = "busy"
  /\ life' = [life EXCEPT ![c].driver = "idle"]
  /\ UNCHANGED <<call, aborted, prep, registry, owner, provider>>

\* dispose() called through the handle.
HandleDisposes(c) ==
  /\ call[c].at = "live" /\ life[c].dispose = "none"
  /\ life' = [life EXCEPT ![c] = Disposed(@)]
  /\ aborted' = [aborted EXCEPT ![c] = TRUE]
  /\ UNCHANGED <<call, prep, registry, owner, provider>>

Unwound(l) == [l EXCEPT !.scope = IF @ = "live" THEN "unwinding" ELSE @]

\* Mutant of Drained: the scope is unwound without waiting for the driver.
Drained_atOnce(c) ==
  /\ life[c].dispose = "draining"
  /\ life' = [life EXCEPT ![c] = [Unwound(@) EXCEPT !.dispose = "unwinding"]]
  /\ UNCHANGED <<call, aborted, prep, registry, owner, provider>>

\* whenIdle() resolves, and the scope's own teardown begins or is joined.
Drained(c) ==
  /\ life[c].dispose = "draining" /\ life[c].driver = "idle"
  /\ life' = [life EXCEPT ![c] = [Unwound(@) EXCEPT !.dispose = "unwinding"]]
  /\ UNCHANGED <<call, aborted, prep, registry, owner, provider>>

ScopeUnwinds(c) ==
  /\ life[c].scope = "unwinding"
  /\ life' = [life EXCEPT ![c].scope = "gone"]
  /\ UNCHANGED <<call, aborted, prep, registry, owner, provider>>

\* Mutant of Detach: the detach is by identity, not by entry.
Detach_byId(c) ==
  /\ life[c].dispose = "unwinding" /\ life[c].scope = "gone"
  /\ life' = [life EXCEPT ![c].dispose = "done", ![c].followed = FALSE]
  /\ registry' = [registry EXCEPT ![call[c].id] = None]
  /\ UNCHANGED <<call, aborted, prep, owner, provider>>

\* dispose()'s finally: detach the agent and the session that this call has
\* entered, untrack, and retire the owner's effect.
Detach(c) ==
  /\ life[c].dispose = "unwinding" /\ life[c].scope = "gone"
  /\ life' = [life EXCEPT ![c].dispose = "done", ![c].followed = FALSE]
  /\ registry' = [i \in Id |-> IF registry[i] = c THEN None ELSE registry[i]]
  /\ UNCHANGED <<call, aborted, prep, owner, provider>>

-----------------------------------------------------------------------------
(* The owners' and the provider's unload.                                  *)

\* The fiber refuses new work at once; its effects run in the next microtasks.
OwnerUnloads(o) ==
  /\ owner[o] = "live"
  /\ owner' = [owner EXCEPT ![o] = "unloading"]
  /\ UNCHANGED <<call, life, aborted, prep, registry, provider>>

\* The effect of one call: it ends the load or setup, or disposes the agent and
\* has the unload wait for it.  A dispose() that has begun is not waited for.
OwnerEffect(c) ==
  /\ owner[call[c].owner] = "unloading" /\ life[c].followed
  /\ aborted' = [aborted EXCEPT ![c] = TRUE]
  /\ life' = [life EXCEPT ![c] =
       [Disposed(@) EXCEPT !.followed = FALSE,
                           !.joined = life[c].dispose = "none"
                                      /\ life[c].driver # "none"]]
  /\ UNCHANGED <<call, prep, registry, owner, provider>>

OwnerGone(o) ==
  /\ owner[o] = "unloading"
  /\ \A c \in Call : call[c].owner = o /\ call[c].at # "none" =>
       ~life[c].followed /\ (life[c].joined => life[c].dispose = "done")
  /\ owner' = [owner EXCEPT ![o] = "gone"]
  /\ UNCHANGED <<call, life, aborted, prep, registry, provider>>

ProviderUnloads ==
  /\ provider = "up"
  /\ provider' = "unloading"
  /\ UNCHANGED <<call, life, aborted, prep, registry, owner>>

\* FactoryOwnership.dispose(): every call in flight is aborted and every tracked
\* agent disposed.  The scopes are children of the same fiber, whose unload
\* runs their disposers beside this one.
ProviderTeardown ==
  /\ provider = "unloading"
  /\ provider' = "draining"
  /\ aborted' = [c \in Call |-> aborted[c] \/ call[c].at \notin {"none", "over"}]
  /\ life' = [c \in Call |-> Unwound(Disposed(life[c]))]
  /\ UNCHANGED <<call, prep, registry, owner>>

\* Mutant of ProviderGone: only the tracked agents are waited for.
ProviderGone_agentsOnly ==
  /\ provider = "draining"
  /\ \A c \in Call : life[c].driver # "none" => life[c].dispose = "done"
  /\ provider' = "gone"
  /\ UNCHANGED <<call, life, aborted, prep, registry, owner>>

\* The agents' teardowns and the calls' wrappers have settled.
ProviderGone ==
  /\ provider = "draining"
  /\ \A c \in Call : /\ life[c].driver # "none" => life[c].dispose = "done"
                     /\ call[c].at \in {"none", "live", "over"}
  /\ provider' = "gone"
  /\ UNCHANGED <<call, life, aborted, prep, registry, owner>>

-----------------------------------------------------------------------------

Begins(c) ==
  \E i \in Id, o \in Owner : create(c, i, o) \/ createAgent(c, i, o) \/ resume(c, i, o)

Continues(c) ==
  \/ LoadAborted(c) \/ LoadContinues(c) \/ publish(c) \/ CallThrows(c)
  \/ Drained(c) \/ Detach(c) \/ OwnerEffect(c)

LifecycleNext ==
  \/ \E c \in Call :
       \/ Begins(c) \/ Continues(c)
       \/ LoadArrives(c) \/ LoadFails(c) \/ SetupReturns(c) \/ SetupFails(c)
       \/ CallerAborts(c) \/ HandleDisposes(c)
       \/ DriverStarts(c) \/ DriverExits(c) \/ ScopeUnwinds(c)
  \/ \E o \in Owner : OwnerUnloads(o) \/ OwnerGone(o)
  \/ ProviderUnloads \/ ProviderTeardown \/ ProviderGone

\* Continuations and effects run.  A driver that was cancelled exits (see
\* AgentDriver's CancelConverges), and registrations unwind.  Nothing is assumed
\* of the load, the setup or the callers: the code races them for that reason.
LifecycleFairness ==
  /\ \A c \in Call :
       /\ WF_lifeVars(Continues(c)) /\ WF_lifeVars(SetupAborted(c))
       /\ WF_lifeVars(life[c].dispose # "none" /\ DriverExits(c))
       /\ WF_lifeVars(ScopeUnwinds(c))
  /\ \A o \in Owner : WF_lifeVars(OwnerGone(o))
  /\ WF_lifeVars(ProviderTeardown) /\ WF_lifeVars(ProviderGone)

LifecycleSpec == LifecycleInit /\ [][LifecycleNext]_lifeVars /\ LifecycleFairness

-----------------------------------------------------------------------------
(* Properties.                                                             *)

LifecycleTypeOK ==
  /\ call \in [Call -> CallRecord] /\ life \in [Call -> Prepared]
  /\ aborted \in [Call -> BOOLEAN]
  /\ prep \in [Call -> {"none", "pending", "held", "released"}]
  /\ registry \in [Id -> Call \union {None}]
  /\ owner \in [Owner -> {"live", "unloading", "gone"}]
  /\ provider \in {"up", "unloading", "draining", "gone"}

\* An identity stays registered as long as its agent's driver or scope is at
\* work, although a second call with the same identity may be rolled back
\* meanwhile (dispose, agent-loop/src/index.ts:508-535, against enter()).
RegisteredWhileAtWork ==
  \A c \in Call : call[c].at = "live" /\ ~Quiet(life[c]) => registry[call[c].id] = c

\* Outside an unload of the provider, no scope unwinds under a driver at work,
\* whoever started the teardown (agent-loop/src/index.ts:519-523).
DriverBeforeScope ==
  provider \in {"up", "unloading"} =>
    \A c \in Call : life[c].scope \in {"unwinding", "gone"} => life[c].driver = "idle"

\* A preparation is not let go while an agent that was built on it and never
\* published is still unwinding, and never kept by a call that is over
\* (setupAndPublish and raceAbortCall, agent-loop/src/index.ts:118-130, 632-653).
PreparationOutlivesUse ==
  \A c \in Call :
    /\ prep[c] = "released" /\ call[c].at # "live" => Quiet(life[c])
    /\ prep[c] = "held" => call[c].at \notin {"live", "over"}

\* When the provider is gone nothing of it is registered or at work, and no call
\* is left that could still publish (FactoryOwnership, :43-86).
ProviderGoneIsQuiet ==
  provider = "gone" =>
    /\ \A c \in Call : Quiet(life[c]) /\ call[c].at \in {"none", "live", "over"}
    /\ \A i \in Id : registry[i] = None

\* An owner that is gone leaves no agent behind that nobody tears down, also
\* when it unloads between a load and the agent's construction (prepare's owner
\* effect and the checks of resumeWith, :537-547 and :699-700).
NoOrphan ==
  \A c \in Call : owner[call[c].owner] = "gone" /\ life[c].driver # "none"
                    => life[c].dispose # "none"

\* Every teardown ends, also under a load or a setup that never settles: the
\* provider and the owners unload, and a call that was aborted is over.
TeardownSettles ==
  /\ provider = "unloading" ~> provider = "gone"
  /\ \A o \in Owner : owner[o] = "unloading" ~> owner[o] = "gone"
  /\ \A c \in Call : aborted[c] ~> call[c].at = "over" \/ life[c].dispose = "done"
=============================================================================
