------------------------ MODULE AgentLifecycle_proofs ------------------------
(***************************************************************************)
(* Proofs about the agent factory, for any sets of calls, owners and       *)
(* identities.  The safety properties of AgentLifecycle follow from what   *)
(* is known of a call's resources at each place of its continuation; the   *)
(* parts of IInv say what, and are preserved together.                     *)
(***************************************************************************)
EXTENDS AgentLifecycle, TLAPS

-----------------------------------------------------------------------------
(* The inductive invariant.                                                *)

\* Which resources a call has at each place, and that a call that ended
\* without a handle has begun to tear down what it had.
LifeAtPlace ==
  \A c \in Call :
    /\ life[c].driver = "none" <=> life[c].scope = "none"
    /\ life[c].driver = "none" => life[c].dispose = "none"
    /\ call[c].at \in {"none", "loading", "loaded"} => life[c].driver = "none"
    /\ call[c].at \in {"setup", "set"} => life[c].driver = "idle"
    /\ call[c].at \in {"failing", "live"} => life[c].driver # "none"
    /\ call[c].at \in {"failing", "over"} /\ life[c].driver # "none"
         => life[c].dispose # "none"

\* The order of a teardown, which the signal tells the call about.
DisposeInOrder ==
  \A c \in Call :
    /\ life[c].dispose # "none" => aborted[c]
    /\ life[c].dispose \in {"unwinding", "done"} =>
         life[c].driver = "idle" /\ life[c].scope \in {"unwinding", "gone"}
    /\ life[c].dispose = "done" => life[c].scope = "gone"
    /\ life[c].scope \in {"unwinding", "gone"} /\ provider \in {"up", "unloading"} =>
         life[c].dispose \in {"unwinding", "done"}

\* Where a preparation is while a call is at each place.
PrepAtPlace ==
  \A c \in Call :
    /\ call[c].at = "none" => prep[c] = "none"
    /\ prep[c] = "pending" => /\ call[c].at \in {"loading", "over"}
                              /\ life[c].driver = "none"
    /\ call[c].at = "loaded" => prep[c] = "held"
    /\ call[c].at \in {"setup", "set", "failing"} => prep[c] \in {"none", "held"}
    /\ call[c].at \in {"loading", "live", "over"} => prep[c] # "held"
    /\ prep[c] = "released" /\ call[c].at # "live" /\ life[c].driver # "none" =>
         life[c].dispose = "done"

\* An identity names a call that published it and has not detached it, and a
\* published agent is named until then.
RegistryNames ==
  /\ \A c \in Call : call[c].at = "live" /\ life[c].dispose # "done" =>
       registry[call[c].id] = c
  /\ \A i \in Id, c \in Call : registry[i] = c =>
       /\ call[c].id = i /\ call[c].at \in {"live", "failing", "over"}
       /\ life[c].driver # "none" /\ life[c].dispose # "done"

\* An agent whose teardown has not begun is followed by its owner, and an owner
\* that is gone follows nothing.
OwnerFollows ==
  \A c \in Call :
    /\ life[c].driver # "none" /\ life[c].dispose = "none" => life[c].followed
    /\ call[c].at # "none" /\ owner[call[c].owner] = "gone" => ~life[c].followed

\* A provider that is gone has left nothing under way.
GoneIsDone ==
  provider = "gone" =>
    \A c \in Call : /\ life[c].driver # "none" => life[c].dispose = "done"
                    /\ call[c].at \in {"none", "live", "over"}

IInv ==
  /\ LifecycleTypeOK
  /\ LifeAtPlace
  /\ DisposeInOrder
  /\ PrepAtPlace
  /\ RegistryNames
  /\ OwnerFollows
  /\ GoneIsDone

-----------------------------------------------------------------------------
\* Nothing is prepared, reserved or registered at first.
LEMMA InitIInv == LifecycleInit => IInv
<1> SUFFICES ASSUME LifecycleInit PROVE IInv
  OBVIOUS
<1> USE LifecycleAssumption DEF LifecycleInit, NoLife
<1>1. PICK i \in Id, o \in Owner :
        call = [c \in Call |-> [at |-> "none", id |-> i, owner |-> o]]
  OBVIOUS
<1>2. LifecycleTypeOK
  BY <1>1 DEF LifecycleTypeOK, CallRecord, Prepared, Place
<1> QED
  BY <1>1, <1>2 DEF IInv, LifeAtPlace, DisposeInOrder, PrepAtPlace, RegistryNames,
     OwnerFollows, GoneIsDone

-----------------------------------------------------------------------------
(* What the operators do to a call and to its resources.                   *)

\* A continuation moves on; its identity and owner stay.
LEMMA GoesTo ==
  ASSUME call \in [Call -> CallRecord], NEW c \in Call, NEW place \in Place, Goes(c, place)
  PROVE  /\ call' \in [Call -> CallRecord]
         /\ \A d \in Call : /\ call'[d].id = call[d].id /\ call'[d].owner = call[d].owner
                           /\ call'[d].at = IF d = c THEN place ELSE call[d].at
BY DEF Goes, CallRecord

\* What prepareNow() builds.
LEMMA FreshIs ==
  /\ Fresh \in Prepared /\ Fresh.driver = "idle" /\ Fresh.scope = "live"
  /\ Fresh.dispose = "none" /\ Fresh.followed /\ ~Fresh.joined
BY DEF Fresh, NoLife, Prepared

\* dispose()'s synchronous part only begins the teardown.
LEMMA DisposedIs ==
  ASSUME NEW l \in Prepared
  PROVE  /\ Disposed(l) \in Prepared
         /\ Disposed(l).driver = l.driver /\ Disposed(l).scope = l.scope
         /\ Disposed(l).followed = l.followed
         /\ Disposed(l).dispose = IF l.dispose = "none" /\ l.driver # "none"
                                  THEN "draining" ELSE l.dispose
BY DEF Disposed, Prepared

\* A scope's own teardown touches the scope alone.
LEMMA UnwoundIs ==
  ASSUME NEW l \in Prepared
  PROVE  /\ Unwound(l) \in Prepared
         /\ Unwound(l).driver = l.driver /\ Unwound(l).dispose = l.dispose
         /\ Unwound(l).followed = l.followed
         /\ Unwound(l).scope = IF l.scope = "live" THEN "unwinding" ELSE l.scope
BY DEF Unwound, Prepared

\* Retiring the owner's effect touches nothing else.
LEMMA Unfollowed ==
  ASSUME life \in [Call -> Prepared], NEW c \in Call,
         life' = [life EXCEPT ![c].followed = FALSE]
  PROVE  /\ life' \in [Call -> Prepared]
         /\ \A d \in Call :
              /\ life'[d].driver = life[d].driver /\ life'[d].scope = life[d].scope
              /\ life'[d].dispose = life[d].dispose
              /\ life'[d].followed = (d # c /\ life[d].followed)
BY DEF Prepared

\* A field that changes keeps a record in its set.
LEMMA FieldsKeep ==
  ASSUME NEW l \in Prepared
  PROVE  /\ \A d \in {"none", "idle", "busy"} : [l EXCEPT !.driver = d] \in Prepared
         /\ \A s \in {"none", "live", "unwinding", "gone"} :
              [l EXCEPT !.scope = s] \in Prepared
         /\ \A p \in {"none", "draining", "unwinding", "done"} :
              [l EXCEPT !.dispose = p] \in Prepared
         /\ \A f \in BOOLEAN : [l EXCEPT !.followed = f] \in Prepared
BY DEF Prepared

\* What a publication does, whichever way its listeners decide, and a creation.
Published(c, d, vetoed) ==
  /\ call[c].at = "set" /\ ~aborted[c] /\ registry[call[c].id] = None
  /\ registry' = [registry EXCEPT ![call[c].id] = c]
  /\ Goes(c, IF vetoed THEN "failing" ELSE "live")
  /\ LET l == [life[c] EXCEPT !.driver = d]
     IN  life' = [life EXCEPT ![c] = IF vetoed THEN Disposed(l) ELSE l]
  /\ aborted' = [aborted EXCEPT ![c] = vetoed]
  /\ IF vetoed THEN UNCHANGED prep ELSE Released(c)
  /\ UNCHANGED <<owner, provider>>

Created(c, i, o, d, vetoed) ==
  /\ call' = [call EXCEPT ![c] =
                 [at |-> IF vetoed THEN "over" ELSE "live", id |-> i, owner |-> o]]
  /\ life' = [life EXCEPT ![c] =
                 IF vetoed THEN Disposed([Fresh EXCEPT !.driver = d])
                 ELSE [Fresh EXCEPT !.driver = d]]
  /\ aborted' = [aborted EXCEPT ![c] = vetoed]

\* The same, with what becomes of each call spelled out.
Announced(c, d, vetoed) ==
  /\ call' \in [Call -> CallRecord] /\ life' \in [Call -> Prepared]
  /\ \A e \in Call :
       /\ call'[e].id = call[e].id /\ call'[e].owner = call[e].owner
       /\ e # c => call'[e].at = call[e].at /\ life'[e].dispose = life[e].dispose
       /\ life'[e].driver = IF e = c THEN d ELSE life[e].driver
       /\ life'[e].scope = life[e].scope /\ life'[e].followed = life[e].followed
  /\ vetoed => /\ call'[c].at = "failing"
               /\ life'[c].dispose = IF life[c].dispose = "none" THEN "draining"
                                     ELSE life[c].dispose
  /\ ~vetoed => call'[c].at = "live" /\ life'[c].dispose = life[c].dispose
  /\ call[c].at = "set" /\ ~aborted[c] /\ registry[call[c].id] = None
  /\ registry' = [registry EXCEPT ![call[c].id] = c]
  /\ aborted' = [aborted EXCEPT ![c] = vetoed]
  /\ prep' = [prep EXCEPT ![c] = IF ~vetoed /\ @ = "held" THEN "released" ELSE @]
  /\ UNCHANGED <<owner, provider>>

\* publish() that is not refused, at every call.
LEMMA PublishedIs ==
  ASSUME LifecycleTypeOK, NEW c \in Call, NEW d \in {"idle", "busy"},
         NEW vetoed \in BOOLEAN, Published(c, d, vetoed)
  PROVE  Announced(c, d, vetoed)
<1> DEFINE l == [life[c] EXCEPT !.driver = d]
<1> USE DEF LifecycleTypeOK, Place
<1>1. /\ l \in Prepared /\ l.driver = d /\ l.scope = life[c].scope
      /\ l.dispose = life[c].dispose /\ l.followed = life[c].followed
  BY DEF Prepared
<1>2. life' = [life EXCEPT ![c] = IF vetoed THEN Disposed(l) ELSE l]
  BY DEF Published
<1> HIDE DEF l
<1>4. Goes(c, IF vetoed THEN "failing" ELSE "live")
  BY DEF Published
<1>5. prep' = [prep EXCEPT ![c] = IF ~vetoed /\ @ = "held" THEN "released" ELSE @]
  BY DEF Published, Released
<1>6. /\ call[c].at = "set" /\ ~aborted[c] /\ registry[call[c].id] = None
      /\ registry' = [registry EXCEPT ![call[c].id] = c]
      /\ aborted' = [aborted EXCEPT ![c] = vetoed]
      /\ UNCHANGED <<owner, provider>>
  BY DEF Published
<1> QED
  BY <1>1, <1>2, <1>4, <1>5, <1>6, GoesTo, DisposedIs DEF Announced

\* publish() is refused or enters the registries.
LEMMA PublishSplits ==
  ASSUME NEW c \in Call, publish(c)
  PROVE  \/ Fails(c) /\ UNCHANGED <<registry, owner, provider>>
         \/ \E d \in {"idle", "busy"}, vetoed \in BOOLEAN : Published(c, d, vetoed)
BY DEF publish, Published

\* FactoryOwnership.dispose(), at every call.
LEMMA TeardownIs ==
  ASSUME LifecycleTypeOK, ProviderTeardown
  PROVE  /\ life' \in [Call -> Prepared]
         /\ \A e \in Call :
              /\ life'[e].driver = life[e].driver /\ life'[e].followed = life[e].followed
              /\ life'[e].scope = IF life[e].scope = "live" THEN "unwinding" ELSE life[e].scope
              /\ life'[e].dispose = IF life[e].dispose = "none" /\ life[e].driver # "none"
                                    THEN "draining" ELSE life[e].dispose
<1> DEFINE D(e) == Disposed(life[e])
<1>1. ASSUME NEW e \in Call
      PROVE  /\ D(e) \in Prepared /\ D(e).driver = life[e].driver
             /\ D(e).scope = life[e].scope /\ D(e).followed = life[e].followed
             /\ D(e).dispose = IF life[e].dispose = "none" /\ life[e].driver # "none"
                               THEN "draining" ELSE life[e].dispose
  BY DisposedIs DEF LifecycleTypeOK
<1>2. life' = [e \in Call |-> Unwound(D(e))]
  BY DEF ProviderTeardown
<1> HIDE DEF D
<1> QED
  BY <1>1, <1>2, UnwoundIs

\* The owner's effect keeps an agent's resources in shape.
LEMMA OwnerEffectIs ==
  ASSUME LifecycleTypeOK, NEW c \in Call, OwnerEffect(c)
  PROVE  life' \in [Call -> Prepared]
<1> DEFINE l == Disposed(life[c])
           joins == life[c].dispose = "none" /\ life[c].driver # "none"
<1>1. l \in Prepared /\ joins \in BOOLEAN
  BY DisposedIs DEF LifecycleTypeOK
<1>2. life' = [life EXCEPT ![c] = [l EXCEPT !.followed = FALSE, !.joined = joins]]
  BY DEF OwnerEffect
<1> HIDE DEF l, joins
<1>3. [l EXCEPT !.followed = FALSE, !.joined = joins] \in Prepared
  BY <1>1 DEF Prepared
<1> QED
  BY <1>2, <1>3 DEF LifecycleTypeOK

-----------------------------------------------------------------------------
(* The invariant is preserved, part by part and action by action.          *)

\* Every action keeps every variable in its range.
LEMMA StepLifecycleTypeOK ==
  ASSUME IInv, [LifecycleNext]_lifeVars
  PROVE  LifecycleTypeOK'
<1> USE LifecycleAssumption DEF IInv, LifecycleTypeOK, CallRecord, Prepared, Place
<1>1. ASSUME NEW c \in Call, NEW i \in Id, NEW o \in Owner, resume(c, i, o)
      PROVE  LifecycleTypeOK'
  <2>1. call' \in [Call -> CallRecord]
    BY <1>1 DEF resume
  <2>2. [life[c] EXCEPT !.followed = TRUE] \in Prepared
    <3> HIDE DEF Prepared
    <3> QED BY FieldsKeep
  <2> HIDE DEF CallRecord, Prepared
  <2> QED BY <1>1, <2>1, <2>2 DEF resume
<1>2. ASSUME NEW c \in Call, NEW i \in Id, NEW o \in Owner, createAgent(c, i, o)
      PROVE  LifecycleTypeOK'
  BY <1>2 DEF createAgent, MayBegin, Fresh, NoLife
<1>3. ASSUME NEW c \in Call, NEW i \in Id, NEW o \in Owner, create(c, i, o)
      PROVE  LifecycleTypeOK'
  <2> SUFFICES ASSUME NEW d \in {"idle", "busy"}, NEW vetoed \in BOOLEAN,
                      Created(c, i, o, d, vetoed)
               PROVE  LifecycleTypeOK'
    BY <1>3 DEF create, Created
  <2>1. call' \in [Call -> CallRecord]
    BY DEF Created
  <2>2. life' \in [Call -> Prepared]
    BY DEF Created, Fresh, NoLife, Disposed
  <2> QED BY <1>3, <2>1, <2>2 DEF create, Created
<1>4. ASSUME NEW c \in Call, LoadArrives(c) PROVE LifecycleTypeOK'
  <2>1. CASE call[c].at = "loading" /\ ~aborted[c]
    <3>1. Goes(c, "loaded") /\ life' = [life EXCEPT ![c].followed = FALSE]
      BY <1>4, <2>1 DEF LoadArrives
    <3>2. call' \in [Call -> CallRecord] /\ life' \in [Call -> Prepared]
      <4>1. call' \in [Call -> CallRecord]
        BY <3>1, GoesTo
      <4>2. life' \in [Call -> Prepared]
        BY <3>1, Unfollowed
      <4> QED BY <4>1, <4>2
    <3>3. UNCHANGED <<aborted, registry, owner, provider>>
      BY <1>4 DEF LoadArrives
    <3>4. prep' = [prep EXCEPT ![c] = "held"]
      BY <1>4, <2>1 DEF LoadArrives
    <3> QED BY <3>2, <3>3, <3>4
  <2>2. CASE ~(call[c].at = "loading" /\ ~aborted[c])
    BY <1>4, <2>2 DEF LoadArrives
  <2> QED BY <2>1, <2>2
<1>5. ASSUME NEW c \in Call, LoadFails(c) PROVE LifecycleTypeOK'
  <2>1. CASE call[c].at = "loading" /\ ~aborted[c]
    <3>1. Goes(c, "over") /\ life' = [life EXCEPT ![c].followed = FALSE]
      BY <1>5, <2>1 DEF LoadFails
    <3>2. call' \in [Call -> CallRecord] /\ life' \in [Call -> Prepared]
      <4>1. call' \in [Call -> CallRecord]
        BY <3>1, GoesTo
      <4>2. life' \in [Call -> Prepared]
        BY <3>1, Unfollowed
      <4> QED BY <4>1, <4>2
    <3>3. UNCHANGED <<aborted, registry, owner, provider>>
      BY <1>5 DEF LoadFails
    <3>4. prep' = [prep EXCEPT ![c] = "none"]
      BY <1>5, <2>1 DEF LoadFails
    <3> QED BY <3>2, <3>3, <3>4
  <2>2. CASE ~(call[c].at = "loading" /\ ~aborted[c])
    BY <1>5, <2>2 DEF LoadFails
  <2> QED BY <2>1, <2>2
<1>6. ASSUME NEW c \in Call, LoadAborted(c) PROVE LifecycleTypeOK'
  BY <1>6, GoesTo, Unfollowed DEF LoadAborted
<1>7. ASSUME NEW c \in Call, LoadContinues(c) PROVE LifecycleTypeOK'
  <2>1. CASE Goes(c, "over") /\ Released(c) /\ UNCHANGED life
    <3>1. /\ call' \in [Call -> CallRecord] /\ UNCHANGED <<registry, aborted, owner, provider>>
          /\ call[c].at = "loaded"
      BY <1>7, <2>1, GoesTo DEF LoadContinues
    <3>2. \A e \in Call : /\ call'[e].id = call[e].id /\ call'[e].owner = call[e].owner
                         /\ call'[e].at = IF e = c THEN "over" ELSE call[e].at
      BY <2>1, GoesTo
    <3> QED BY <2>1, <3>1, <3>2 DEF Released
  <2>2. CASE /\ Goes(c, "setup") /\ life' = [life EXCEPT ![c] = Fresh] /\ UNCHANGED prep
             /\ ~aborted[c] /\ owner[call[c].owner] = "live" /\ provider = "up"
    BY <1>7, <2>2, GoesTo, FreshIs DEF LoadContinues
  <2> QED BY <1>7, <2>1, <2>2 DEF LoadContinues
<1>8. ASSUME NEW c \in Call, SetupReturns(c) PROVE LifecycleTypeOK'
  BY <1>8 DEF SetupReturns, Goes
<1>9. ASSUME NEW c \in Call, SetupFails(c) PROVE LifecycleTypeOK'
  <2> HIDE DEF CallRecord, Prepared
  <2> QED BY <1>9, GoesTo, DisposedIs DEF SetupFails, Fails
<1>10. ASSUME NEW c \in Call, publish(c) PROVE LifecycleTypeOK'
  <2>1. CASE Fails(c) /\ UNCHANGED <<registry, owner, provider>>
    BY <1>10, <2>1, GoesTo, DisposedIs DEF publish, Fails
  <2>2. ASSUME NEW d \in {"idle", "busy"}, NEW vetoed \in BOOLEAN,
               Published(c, d, vetoed)
        PROVE  LifecycleTypeOK'
    <3>1. Announced(c, d, vetoed)
      BY <2>2, PublishedIs
    <3>2. CASE vetoed
      BY <3>1, <3>2 DEF Announced
    <3>3. CASE ~vetoed
      BY <3>1, <3>3 DEF Announced
    <3> QED BY <3>2, <3>3
  <2> QED BY <1>10, <2>1, <2>2, PublishSplits
<1>11. ASSUME NEW c \in Call, CallThrows(c) PROVE LifecycleTypeOK'
  BY <1>11 DEF CallThrows, Goes, Released
<1>12. ASSUME NEW c \in Call, CallerAborts(c) PROVE LifecycleTypeOK'
  BY <1>12 DEF CallerAborts
<1>13. ASSUME NEW c \in Call, DriverStarts(c) PROVE LifecycleTypeOK'
  <2> HIDE DEF CallRecord, Prepared
  <2>1. [life[c] EXCEPT !.driver = "busy"] \in Prepared
    BY FieldsKeep
  <2> QED BY <1>13, <2>1 DEF DriverStarts
<1>14. ASSUME NEW c \in Call, DriverExits(c) PROVE LifecycleTypeOK'
  <2> HIDE DEF CallRecord, Prepared
  <2>1. [life[c] EXCEPT !.driver = "idle"] \in Prepared
    BY FieldsKeep
  <2> QED BY <1>14, <2>1 DEF DriverExits
<1>15. ASSUME NEW c \in Call, HandleDisposes(c) PROVE LifecycleTypeOK'
  <2> HIDE DEF CallRecord, Prepared
  <2> QED BY <1>15, DisposedIs DEF HandleDisposes
<1>16. ASSUME NEW c \in Call, Drained(c) PROVE LifecycleTypeOK'
  <2> DEFINE l == Unwound(life[c])
  <2>1. [l EXCEPT !.dispose = "unwinding"] \in Prepared
    <3> HIDE DEF Prepared
    <3> QED BY UnwoundIs, FieldsKeep
  <2>2. life' = [life EXCEPT ![c] = [l EXCEPT !.dispose = "unwinding"]]
    BY <1>16 DEF Drained
  <2> HIDE DEF l, CallRecord, Prepared
  <2> QED BY <1>16, <2>1, <2>2 DEF Drained
<1>17. ASSUME NEW c \in Call, ScopeUnwinds(c) PROVE LifecycleTypeOK'
  <2> HIDE DEF CallRecord, Prepared
  <2>1. [life[c] EXCEPT !.scope = "gone"] \in Prepared
    BY FieldsKeep
  <2> QED BY <1>17, <2>1 DEF ScopeUnwinds
<1>18. ASSUME NEW c \in Call, Detach(c) PROVE LifecycleTypeOK'
  <2> DEFINE l == [[life[c] EXCEPT !.dispose = "done"] EXCEPT !.followed = FALSE]
  <2>1. l \in Prepared
    <3> HIDE DEF Prepared
    <3> QED BY FieldsKeep
  <2>2. life' = [life EXCEPT ![c] = l]
    BY <1>18 DEF Detach
  <2> HIDE DEF l, CallRecord, Prepared
  <2>3. life' \in [Call -> Prepared]
    BY <2>1, <2>2
  <2>4. registry' \in [Id -> Call \union {None}]
    BY <1>18 DEF Detach
  <2> QED BY <1>18, <2>3, <2>4 DEF Detach
<1>19. ASSUME NEW c \in Call, OwnerEffect(c) PROVE LifecycleTypeOK'
  <2>1. call' \in [Call -> CallRecord]
    BY <1>19 DEF OwnerEffect, Disposed
  <2>2. life' \in [Call -> Prepared]
    BY <1>19, OwnerEffectIs
  <2> QED BY <1>19, <2>1, <2>2 DEF OwnerEffect, Disposed
<1>20. ASSUME NEW o \in Owner, OwnerUnloads(o) PROVE LifecycleTypeOK'
  BY <1>20 DEF OwnerUnloads
<1>21. ASSUME NEW o \in Owner, OwnerGone(o) PROVE LifecycleTypeOK'
  BY <1>21 DEF OwnerGone
<1>22. CASE ProviderUnloads
  BY <1>22 DEF ProviderUnloads
<1>23. CASE ProviderTeardown
  BY <1>23, TeardownIs DEF ProviderTeardown
<1>24. CASE ProviderGone
  BY <1>24 DEF ProviderGone
<1>25. CASE UNCHANGED lifeVars
  BY <1>25 DEF lifeVars
<1> QED
  BY <1>1, <1>2, <1>3, <1>4, <1>5, <1>6, <1>7, <1>8, <1>9, <1>10, <1>11, <1>12, <1>13,
     <1>14, <1>15, <1>16, <1>17, <1>18, <1>19, <1>20, <1>21, <1>22, <1>23, <1>24, <1>25
    DEF LifecycleNext, Begins, Continues

\* Resources appear and are torn down at their places.
LEMMA StepLifeAtPlace ==
  ASSUME IInv, [LifecycleNext]_lifeVars
  PROVE  LifeAtPlace'
<1> USE LifecycleAssumption
  DEF IInv, LifeAtPlace, RegistryNames, LifecycleTypeOK, CallRecord, Prepared, Place
<1>1. ASSUME NEW c \in Call, NEW i \in Id, NEW o \in Owner, resume(c, i, o)
      PROVE  LifeAtPlace'
  BY <1>1 DEF resume, MayBegin
<1>2. ASSUME NEW c \in Call, NEW i \in Id, NEW o \in Owner, createAgent(c, i, o)
      PROVE  LifeAtPlace'
  BY <1>2 DEF createAgent, MayBegin, Fresh, NoLife
<1>3. ASSUME NEW c \in Call, NEW i \in Id, NEW o \in Owner, create(c, i, o)
      PROVE  LifeAtPlace'
  BY <1>3 DEF create, MayBegin, Disposed, Fresh, NoLife
<1>4. ASSUME NEW c \in Call, LoadArrives(c) PROVE LifeAtPlace'
  <2>1. CASE call[c].at = "loading" /\ ~aborted[c]
    <3>1. Goes(c, "loaded") /\ life' = [life EXCEPT ![c].followed = FALSE]
      BY <1>4, <2>1 DEF LoadArrives
    <3>2. call' \in [Call -> CallRecord] /\ life' \in [Call -> Prepared]
      <4>1. call' \in [Call -> CallRecord]
        BY <3>1, GoesTo
      <4>2. life' \in [Call -> Prepared]
        BY <3>1, Unfollowed
      <4> QED BY <4>1, <4>2
    <3>3. UNCHANGED <<aborted, registry, owner, provider>>
      BY <1>4 DEF LoadArrives
    <3>4. prep' = [prep EXCEPT ![c] = "held"]
      BY <1>4, <2>1 DEF LoadArrives
    <3> QED BY <1>4, <2>1, <3>1, <3>2, GoesTo, Unfollowed DEF LoadArrives
  <2>2. CASE ~(call[c].at = "loading" /\ ~aborted[c])
    BY <1>4, <2>2 DEF LoadArrives
  <2> QED BY <2>1, <2>2
<1>5. ASSUME NEW c \in Call, LoadFails(c) PROVE LifeAtPlace'
  <2>1. CASE call[c].at = "loading" /\ ~aborted[c]
    <3>1. Goes(c, "over") /\ life' = [life EXCEPT ![c].followed = FALSE]
      BY <1>5, <2>1 DEF LoadFails
    <3>2. call' \in [Call -> CallRecord] /\ life' \in [Call -> Prepared]
      <4>1. call' \in [Call -> CallRecord]
        BY <3>1, GoesTo
      <4>2. life' \in [Call -> Prepared]
        BY <3>1, Unfollowed
      <4> QED BY <4>1, <4>2
    <3>3. UNCHANGED <<aborted, registry, owner, provider>>
      BY <1>5 DEF LoadFails
    <3>4. prep' = [prep EXCEPT ![c] = "none"]
      BY <1>5, <2>1 DEF LoadFails
    <3> QED BY <1>5, <2>1, <3>1, <3>2, GoesTo, Unfollowed DEF LoadFails
  <2>2. CASE ~(call[c].at = "loading" /\ ~aborted[c])
    BY <1>5, <2>2 DEF LoadFails
  <2> QED BY <2>1, <2>2
<1>6. ASSUME NEW c \in Call, LoadAborted(c) PROVE LifeAtPlace'
  BY <1>6, GoesTo, Unfollowed DEF LoadAborted
<1>7. ASSUME NEW c \in Call, LoadContinues(c) PROVE LifeAtPlace'
  <2>1. CASE Goes(c, "over") /\ Released(c) /\ UNCHANGED life
    <3>1. /\ call' \in [Call -> CallRecord] /\ UNCHANGED <<registry, aborted, owner, provider>>
          /\ call[c].at = "loaded"
      BY <1>7, <2>1, GoesTo DEF LoadContinues
    <3>2. \A e \in Call : /\ call'[e].id = call[e].id /\ call'[e].owner = call[e].owner
                         /\ call'[e].at = IF e = c THEN "over" ELSE call[e].at
      BY <2>1, GoesTo
    <3> QED BY <2>1, <3>1, <3>2 DEF Released
  <2>2. CASE /\ Goes(c, "setup") /\ life' = [life EXCEPT ![c] = Fresh] /\ UNCHANGED prep
             /\ ~aborted[c] /\ owner[call[c].owner] = "live" /\ provider = "up"
    BY <1>7, <2>2, GoesTo, FreshIs DEF LoadContinues
  <2> QED BY <1>7, <2>1, <2>2 DEF LoadContinues
<1>8. ASSUME NEW c \in Call, SetupReturns(c) PROVE LifeAtPlace'
  BY <1>8 DEF SetupReturns, Goes
<1>9. ASSUME NEW c \in Call, SetupFails(c) PROVE LifeAtPlace'
  BY <1>9 DEF SetupFails, Fails, Goes, Disposed
<1>10. ASSUME NEW c \in Call, publish(c) PROVE LifeAtPlace'
  <2>1. CASE Fails(c) /\ UNCHANGED <<registry, owner, provider>>
    BY <1>10, <2>1, GoesTo, DisposedIs DEF publish, Fails
  <2>2. ASSUME NEW d \in {"idle", "busy"}, NEW vetoed \in BOOLEAN,
               Published(c, d, vetoed)
        PROVE  LifeAtPlace'
    <3>1. Announced(c, d, vetoed)
      BY <2>2, PublishedIs
    <3>2. CASE vetoed
      BY <3>1, <3>2 DEF Announced
    <3>3. CASE ~vetoed
      BY <3>1, <3>3 DEF Announced
    <3> QED BY <3>2, <3>3
  <2> QED BY <1>10, <2>1, <2>2, PublishSplits
<1>11. ASSUME NEW c \in Call, CallThrows(c) PROVE LifeAtPlace'
  BY <1>11 DEF CallThrows, Goes, Released
<1>12. ASSUME NEW c \in Call, CallerAborts(c) PROVE LifeAtPlace'
  BY <1>12 DEF CallerAborts
<1>13. ASSUME NEW c \in Call, DriverStarts(c) PROVE LifeAtPlace'
  BY <1>13 DEF DriverStarts
<1>14. ASSUME NEW c \in Call, DriverExits(c) PROVE LifeAtPlace'
  BY <1>14 DEF DriverExits
<1>15. ASSUME NEW c \in Call, HandleDisposes(c) PROVE LifeAtPlace'
  BY <1>15 DEF HandleDisposes, Disposed
<1>16. ASSUME NEW c \in Call, Drained(c) PROVE LifeAtPlace'
  BY <1>16 DEF Drained, Unwound
<1>17. ASSUME NEW c \in Call, ScopeUnwinds(c) PROVE LifeAtPlace'
  BY <1>17 DEF ScopeUnwinds
<1>18. ASSUME NEW c \in Call, Detach(c) PROVE LifeAtPlace'
  BY <1>18 DEF Detach
<1>19. ASSUME NEW c \in Call, OwnerEffect(c) PROVE LifeAtPlace'
  BY <1>19 DEF OwnerEffect, Disposed
<1>20. ASSUME NEW o \in Owner, OwnerUnloads(o) PROVE LifeAtPlace'
  BY <1>20 DEF OwnerUnloads
<1>21. ASSUME NEW o \in Owner, OwnerGone(o) PROVE LifeAtPlace'
  BY <1>21 DEF OwnerGone
<1>22. CASE ProviderUnloads
  BY <1>22 DEF ProviderUnloads
<1>23. CASE ProviderTeardown
  BY <1>23, TeardownIs DEF ProviderTeardown
<1>24. CASE ProviderGone
  BY <1>24 DEF ProviderGone
<1>25. CASE UNCHANGED lifeVars
  BY <1>25 DEF lifeVars
<1> QED
  BY <1>1, <1>2, <1>3, <1>4, <1>5, <1>6, <1>7, <1>8, <1>9, <1>10, <1>11, <1>12, <1>13,
     <1>14, <1>15, <1>16, <1>17, <1>18, <1>19, <1>20, <1>21, <1>22, <1>23, <1>24, <1>25
    DEF LifecycleNext, Begins, Continues

\* Every teardown waits for its driver and then for its scope.
LEMMA StepDisposeInOrder ==
  ASSUME IInv, [LifecycleNext]_lifeVars
  PROVE  DisposeInOrder'
<1> USE LifecycleAssumption
  DEF IInv, DisposeInOrder, LifeAtPlace, LifecycleTypeOK, CallRecord, Prepared, Place
<1>1. ASSUME NEW c \in Call, NEW i \in Id, NEW o \in Owner, resume(c, i, o)
      PROVE  DisposeInOrder'
  BY <1>1 DEF resume, MayBegin
<1>2. ASSUME NEW c \in Call, NEW i \in Id, NEW o \in Owner, createAgent(c, i, o)
      PROVE  DisposeInOrder'
  BY <1>2 DEF createAgent, MayBegin, Fresh, NoLife
<1>3. ASSUME NEW c \in Call, NEW i \in Id, NEW o \in Owner, create(c, i, o)
      PROVE  DisposeInOrder'
  BY <1>3 DEF create, MayBegin, Disposed, Fresh, NoLife
<1>4. ASSUME NEW c \in Call, LoadArrives(c) PROVE DisposeInOrder'
  <2>1. CASE call[c].at = "loading" /\ ~aborted[c]
    <3>1. Goes(c, "loaded") /\ life' = [life EXCEPT ![c].followed = FALSE]
      BY <1>4, <2>1 DEF LoadArrives
    <3>2. call' \in [Call -> CallRecord] /\ life' \in [Call -> Prepared]
      <4>1. call' \in [Call -> CallRecord]
        BY <3>1, GoesTo
      <4>2. life' \in [Call -> Prepared]
        BY <3>1, Unfollowed
      <4> QED BY <4>1, <4>2
    <3>3. UNCHANGED <<aborted, registry, owner, provider>>
      BY <1>4 DEF LoadArrives
    <3>4. prep' = [prep EXCEPT ![c] = "held"]
      BY <1>4, <2>1 DEF LoadArrives
    <3> QED BY <1>4, <2>1, <3>1, <3>2, GoesTo, Unfollowed DEF LoadArrives
  <2>2. CASE ~(call[c].at = "loading" /\ ~aborted[c])
    BY <1>4, <2>2 DEF LoadArrives
  <2> QED BY <2>1, <2>2
<1>5. ASSUME NEW c \in Call, LoadFails(c) PROVE DisposeInOrder'
  <2>1. CASE call[c].at = "loading" /\ ~aborted[c]
    <3>1. Goes(c, "over") /\ life' = [life EXCEPT ![c].followed = FALSE]
      BY <1>5, <2>1 DEF LoadFails
    <3>2. call' \in [Call -> CallRecord] /\ life' \in [Call -> Prepared]
      <4>1. call' \in [Call -> CallRecord]
        BY <3>1, GoesTo
      <4>2. life' \in [Call -> Prepared]
        BY <3>1, Unfollowed
      <4> QED BY <4>1, <4>2
    <3>3. UNCHANGED <<aborted, registry, owner, provider>>
      BY <1>5 DEF LoadFails
    <3>4. prep' = [prep EXCEPT ![c] = "none"]
      BY <1>5, <2>1 DEF LoadFails
    <3> QED BY <1>5, <2>1, <3>1, <3>2, GoesTo, Unfollowed DEF LoadFails
  <2>2. CASE ~(call[c].at = "loading" /\ ~aborted[c])
    BY <1>5, <2>2 DEF LoadFails
  <2> QED BY <2>1, <2>2
<1>6. ASSUME NEW c \in Call, LoadAborted(c) PROVE DisposeInOrder'
  BY <1>6, GoesTo, Unfollowed DEF LoadAborted
<1>7. ASSUME NEW c \in Call, LoadContinues(c) PROVE DisposeInOrder'
  <2>1. CASE Goes(c, "over") /\ Released(c) /\ UNCHANGED life
    <3>1. /\ call' \in [Call -> CallRecord] /\ UNCHANGED <<registry, aborted, owner, provider>>
          /\ call[c].at = "loaded"
      BY <1>7, <2>1, GoesTo DEF LoadContinues
    <3>2. \A e \in Call : /\ call'[e].id = call[e].id /\ call'[e].owner = call[e].owner
                         /\ call'[e].at = IF e = c THEN "over" ELSE call[e].at
      BY <2>1, GoesTo
    <3> QED BY <2>1, <3>1, <3>2 DEF Released
  <2>2. CASE /\ Goes(c, "setup") /\ life' = [life EXCEPT ![c] = Fresh] /\ UNCHANGED prep
             /\ ~aborted[c] /\ owner[call[c].owner] = "live" /\ provider = "up"
    BY <1>7, <2>2, GoesTo, FreshIs DEF LoadContinues
  <2> QED BY <1>7, <2>1, <2>2 DEF LoadContinues
<1>8. ASSUME NEW c \in Call, SetupReturns(c) PROVE DisposeInOrder'
  BY <1>8 DEF SetupReturns, Goes
<1>9. ASSUME NEW c \in Call, SetupFails(c) PROVE DisposeInOrder'
  BY <1>9 DEF SetupFails, Fails, Goes, Disposed
<1>10. ASSUME NEW c \in Call, publish(c) PROVE DisposeInOrder'
  <2>1. CASE Fails(c) /\ UNCHANGED <<registry, owner, provider>>
    BY <1>10, <2>1, GoesTo, DisposedIs DEF publish, Fails
  <2>2. ASSUME NEW d \in {"idle", "busy"}, NEW vetoed \in BOOLEAN,
               Published(c, d, vetoed)
        PROVE  DisposeInOrder'
    <3>1. Announced(c, d, vetoed)
      BY <2>2, PublishedIs
    <3>2. CASE vetoed
      BY <3>1, <3>2 DEF Announced
    <3>3. CASE ~vetoed
      BY <3>1, <3>3 DEF Announced
    <3> QED BY <3>2, <3>3
  <2> QED BY <1>10, <2>1, <2>2, PublishSplits
<1>11. ASSUME NEW c \in Call, CallThrows(c) PROVE DisposeInOrder'
  BY <1>11 DEF CallThrows, Goes, Released
<1>12. ASSUME NEW c \in Call, CallerAborts(c) PROVE DisposeInOrder'
  BY <1>12 DEF CallerAborts
<1>13. ASSUME NEW c \in Call, DriverStarts(c) PROVE DisposeInOrder'
  BY <1>13 DEF DriverStarts
<1>14. ASSUME NEW c \in Call, DriverExits(c) PROVE DisposeInOrder'
  BY <1>14 DEF DriverExits
<1>15. ASSUME NEW c \in Call, HandleDisposes(c) PROVE DisposeInOrder'
  BY <1>15 DEF HandleDisposes, Disposed
<1>16. ASSUME NEW c \in Call, Drained(c) PROVE DisposeInOrder'
  BY <1>16 DEF Drained, Unwound
<1>17. ASSUME NEW c \in Call, ScopeUnwinds(c) PROVE DisposeInOrder'
  BY <1>17 DEF ScopeUnwinds
<1>18. ASSUME NEW c \in Call, Detach(c) PROVE DisposeInOrder'
  BY <1>18 DEF Detach
<1>19. ASSUME NEW c \in Call, OwnerEffect(c) PROVE DisposeInOrder'
  BY <1>19 DEF OwnerEffect, Disposed
<1>20. ASSUME NEW o \in Owner, OwnerUnloads(o) PROVE DisposeInOrder'
  BY <1>20 DEF OwnerUnloads
<1>21. ASSUME NEW o \in Owner, OwnerGone(o) PROVE DisposeInOrder'
  BY <1>21 DEF OwnerGone
<1>22. CASE ProviderUnloads
  BY <1>22 DEF ProviderUnloads
<1>23. CASE ProviderTeardown
  <2> SUFFICES ASSUME NEW e \in Call
               PROVE  /\ life'[e].dispose # "none" => aborted'[e]
                      /\ life'[e].dispose \in {"unwinding", "done"} =>
                           /\ life'[e].driver = "idle"
                           /\ life'[e].scope \in {"unwinding", "gone"}
                      /\ life'[e].dispose = "done" => life'[e].scope = "gone"
    BY <1>23 DEF ProviderTeardown
  <2>1. /\ aborted'[e] = (aborted[e] \/ call[e].at \notin {"none", "over"})
        /\ life[e].driver = "none" => life[e].dispose = "none"
    BY <1>23 DEF ProviderTeardown
  <2>2. /\ life'[e].driver = life[e].driver
        /\ life'[e].scope = IF life[e].scope = "live" THEN "unwinding" ELSE life[e].scope
        /\ life'[e].dispose = IF life[e].dispose = "none" /\ life[e].driver # "none"
                              THEN "draining" ELSE life[e].dispose
    BY <1>23, TeardownIs
  <2> QED BY <2>1, <2>2
<1>24. CASE ProviderGone
  BY <1>24 DEF ProviderGone
<1>25. CASE UNCHANGED lifeVars
  BY <1>25 DEF lifeVars
<1> QED
  BY <1>1, <1>2, <1>3, <1>4, <1>5, <1>6, <1>7, <1>8, <1>9, <1>10, <1>11, <1>12, <1>13,
     <1>14, <1>15, <1>16, <1>17, <1>18, <1>19, <1>20, <1>21, <1>22, <1>23, <1>24, <1>25
    DEF LifecycleNext, Begins, Continues

\* A preparation is held from the load to the publication or the end of dispose().
LEMMA StepPrepAtPlace ==
  ASSUME IInv, [LifecycleNext]_lifeVars
  PROVE  PrepAtPlace'
<1> USE LifecycleAssumption
  DEF IInv, PrepAtPlace, LifeAtPlace, DisposeInOrder, LifecycleTypeOK, CallRecord,
      Prepared, Place
<1>1. ASSUME NEW c \in Call, NEW i \in Id, NEW o \in Owner, resume(c, i, o)
      PROVE  PrepAtPlace'
  BY <1>1 DEF resume, MayBegin
<1>2. ASSUME NEW c \in Call, NEW i \in Id, NEW o \in Owner, createAgent(c, i, o)
      PROVE  PrepAtPlace'
  BY <1>2 DEF createAgent, MayBegin, Fresh, NoLife
<1>3. ASSUME NEW c \in Call, NEW i \in Id, NEW o \in Owner, create(c, i, o)
      PROVE  PrepAtPlace'
  BY <1>3 DEF create, MayBegin, Disposed, Fresh, NoLife
<1>4. ASSUME NEW c \in Call, LoadArrives(c) PROVE PrepAtPlace'
  <2>1. CASE call[c].at = "loading" /\ ~aborted[c]
    <3>1. Goes(c, "loaded") /\ life' = [life EXCEPT ![c].followed = FALSE]
      BY <1>4, <2>1 DEF LoadArrives
    <3>2. call' \in [Call -> CallRecord] /\ life' \in [Call -> Prepared]
      <4>1. call' \in [Call -> CallRecord]
        BY <3>1, GoesTo
      <4>2. life' \in [Call -> Prepared]
        BY <3>1, Unfollowed
      <4> QED BY <4>1, <4>2
    <3>3. UNCHANGED <<aborted, registry, owner, provider>>
      BY <1>4 DEF LoadArrives
    <3>4. prep' = [prep EXCEPT ![c] = "held"]
      BY <1>4, <2>1 DEF LoadArrives
    <3> QED BY <1>4, <2>1, <3>1, <3>2, GoesTo, Unfollowed DEF LoadArrives
  <2>2. CASE ~(call[c].at = "loading" /\ ~aborted[c])
    BY <1>4, <2>2 DEF LoadArrives
  <2> QED BY <2>1, <2>2
<1>5. ASSUME NEW c \in Call, LoadFails(c) PROVE PrepAtPlace'
  <2>1. CASE call[c].at = "loading" /\ ~aborted[c]
    <3>1. Goes(c, "over") /\ life' = [life EXCEPT ![c].followed = FALSE]
      BY <1>5, <2>1 DEF LoadFails
    <3>2. call' \in [Call -> CallRecord] /\ life' \in [Call -> Prepared]
      <4>1. call' \in [Call -> CallRecord]
        BY <3>1, GoesTo
      <4>2. life' \in [Call -> Prepared]
        BY <3>1, Unfollowed
      <4> QED BY <4>1, <4>2
    <3>3. UNCHANGED <<aborted, registry, owner, provider>>
      BY <1>5 DEF LoadFails
    <3>4. prep' = [prep EXCEPT ![c] = "none"]
      BY <1>5, <2>1 DEF LoadFails
    <3> QED BY <1>5, <2>1, <3>1, <3>2, GoesTo, Unfollowed DEF LoadFails
  <2>2. CASE ~(call[c].at = "loading" /\ ~aborted[c])
    BY <1>5, <2>2 DEF LoadFails
  <2> QED BY <2>1, <2>2
<1>6. ASSUME NEW c \in Call, LoadAborted(c) PROVE PrepAtPlace'
  BY <1>6, GoesTo, Unfollowed DEF LoadAborted
<1>7. ASSUME NEW c \in Call, LoadContinues(c) PROVE PrepAtPlace'
  <2>1. CASE Goes(c, "over") /\ Released(c) /\ UNCHANGED life
    <3>1. /\ call' \in [Call -> CallRecord] /\ UNCHANGED <<registry, aborted, owner, provider>>
          /\ call[c].at = "loaded"
      BY <1>7, <2>1, GoesTo DEF LoadContinues
    <3>2. \A e \in Call : /\ call'[e].id = call[e].id /\ call'[e].owner = call[e].owner
                         /\ call'[e].at = IF e = c THEN "over" ELSE call[e].at
      BY <2>1, GoesTo
    <3> QED BY <2>1, <3>1, <3>2 DEF Released
  <2>2. CASE /\ Goes(c, "setup") /\ life' = [life EXCEPT ![c] = Fresh] /\ UNCHANGED prep
             /\ ~aborted[c] /\ owner[call[c].owner] = "live" /\ provider = "up"
    BY <1>7, <2>2, GoesTo, FreshIs DEF LoadContinues
  <2> QED BY <1>7, <2>1, <2>2 DEF LoadContinues
<1>8. ASSUME NEW c \in Call, SetupReturns(c) PROVE PrepAtPlace'
  BY <1>8 DEF SetupReturns, Goes
<1>9. ASSUME NEW c \in Call, SetupFails(c) PROVE PrepAtPlace'
  BY <1>9 DEF SetupFails, Fails, Goes, Disposed
<1>10. ASSUME NEW c \in Call, publish(c) PROVE PrepAtPlace'
  <2>1. CASE Fails(c) /\ UNCHANGED <<registry, owner, provider>>
    BY <1>10, <2>1, GoesTo, DisposedIs DEF publish, Fails
  <2>2. ASSUME NEW d \in {"idle", "busy"}, NEW vetoed \in BOOLEAN,
               Published(c, d, vetoed)
        PROVE  PrepAtPlace'
    <3>1. Announced(c, d, vetoed)
      BY <2>2, PublishedIs
    <3>2. CASE vetoed
      BY <3>1, <3>2 DEF Announced
    <3>3. CASE ~vetoed
      BY <3>1, <3>3 DEF Announced
    <3> QED BY <3>2, <3>3
  <2> QED BY <1>10, <2>1, <2>2, PublishSplits
<1>11. ASSUME NEW c \in Call, CallThrows(c) PROVE PrepAtPlace'
  BY <1>11 DEF CallThrows, Goes, Released
<1>12. ASSUME NEW c \in Call, CallerAborts(c) PROVE PrepAtPlace'
  BY <1>12 DEF CallerAborts
<1>13. ASSUME NEW c \in Call, DriverStarts(c) PROVE PrepAtPlace'
  BY <1>13 DEF DriverStarts
<1>14. ASSUME NEW c \in Call, DriverExits(c) PROVE PrepAtPlace'
  BY <1>14 DEF DriverExits
<1>15. ASSUME NEW c \in Call, HandleDisposes(c) PROVE PrepAtPlace'
  BY <1>15 DEF HandleDisposes, Disposed
<1>16. ASSUME NEW c \in Call, Drained(c) PROVE PrepAtPlace'
  BY <1>16 DEF Drained, Unwound
<1>17. ASSUME NEW c \in Call, ScopeUnwinds(c) PROVE PrepAtPlace'
  BY <1>17 DEF ScopeUnwinds
<1>18. ASSUME NEW c \in Call, Detach(c) PROVE PrepAtPlace'
  BY <1>18 DEF Detach
<1>19. ASSUME NEW c \in Call, OwnerEffect(c) PROVE PrepAtPlace'
  BY <1>19 DEF OwnerEffect, Disposed
<1>20. ASSUME NEW o \in Owner, OwnerUnloads(o) PROVE PrepAtPlace'
  BY <1>20 DEF OwnerUnloads
<1>21. ASSUME NEW o \in Owner, OwnerGone(o) PROVE PrepAtPlace'
  BY <1>21 DEF OwnerGone
<1>22. CASE ProviderUnloads
  BY <1>22 DEF ProviderUnloads
<1>23. CASE ProviderTeardown
  BY <1>23, TeardownIs DEF ProviderTeardown
<1>24. CASE ProviderGone
  BY <1>24 DEF ProviderGone
<1>25. CASE UNCHANGED lifeVars
  BY <1>25 DEF lifeVars
<1> QED
  BY <1>1, <1>2, <1>3, <1>4, <1>5, <1>6, <1>7, <1>8, <1>9, <1>10, <1>11, <1>12, <1>13,
     <1>14, <1>15, <1>16, <1>17, <1>18, <1>19, <1>20, <1>21, <1>22, <1>23, <1>24, <1>25
    DEF LifecycleNext, Begins, Continues

\* Only publications enter a name, and only its own detach removes it.
LEMMA StepRegistryNames ==
  ASSUME IInv, [LifecycleNext]_lifeVars
  PROVE  RegistryNames'
<1> USE LifecycleAssumption
  DEF IInv, RegistryNames, LifeAtPlace, DisposeInOrder, LifecycleTypeOK, CallRecord,
      Prepared, Place
<1>1. ASSUME NEW c \in Call, NEW i \in Id, NEW o \in Owner, resume(c, i, o)
      PROVE  RegistryNames'
  BY <1>1 DEF resume, MayBegin
<1>2. ASSUME NEW c \in Call, NEW i \in Id, NEW o \in Owner, createAgent(c, i, o)
      PROVE  RegistryNames'
  BY <1>2 DEF createAgent, MayBegin, Fresh, NoLife
<1>3. ASSUME NEW c \in Call, NEW i \in Id, NEW o \in Owner, create(c, i, o)
      PROVE  RegistryNames'
  BY <1>3 DEF create, MayBegin, Disposed, Fresh, NoLife
<1>4. ASSUME NEW c \in Call, LoadArrives(c) PROVE RegistryNames'
  <2>1. CASE call[c].at = "loading" /\ ~aborted[c]
    <3>1. Goes(c, "loaded") /\ life' = [life EXCEPT ![c].followed = FALSE]
      BY <1>4, <2>1 DEF LoadArrives
    <3>2. call' \in [Call -> CallRecord] /\ life' \in [Call -> Prepared]
      <4>1. call' \in [Call -> CallRecord]
        BY <3>1, GoesTo
      <4>2. life' \in [Call -> Prepared]
        BY <3>1, Unfollowed
      <4> QED BY <4>1, <4>2
    <3>3. UNCHANGED <<aborted, registry, owner, provider>>
      BY <1>4 DEF LoadArrives
    <3>4. prep' = [prep EXCEPT ![c] = "held"]
      BY <1>4, <2>1 DEF LoadArrives
    <3> QED BY <1>4, <2>1, <3>1, <3>2, GoesTo, Unfollowed DEF LoadArrives
  <2>2. CASE ~(call[c].at = "loading" /\ ~aborted[c])
    BY <1>4, <2>2 DEF LoadArrives
  <2> QED BY <2>1, <2>2
<1>5. ASSUME NEW c \in Call, LoadFails(c) PROVE RegistryNames'
  <2>1. CASE call[c].at = "loading" /\ ~aborted[c]
    <3>1. Goes(c, "over") /\ life' = [life EXCEPT ![c].followed = FALSE]
      BY <1>5, <2>1 DEF LoadFails
    <3>2. call' \in [Call -> CallRecord] /\ life' \in [Call -> Prepared]
      <4>1. call' \in [Call -> CallRecord]
        BY <3>1, GoesTo
      <4>2. life' \in [Call -> Prepared]
        BY <3>1, Unfollowed
      <4> QED BY <4>1, <4>2
    <3>3. UNCHANGED <<aborted, registry, owner, provider>>
      BY <1>5 DEF LoadFails
    <3>4. prep' = [prep EXCEPT ![c] = "none"]
      BY <1>5, <2>1 DEF LoadFails
    <3> QED BY <1>5, <2>1, <3>1, <3>2, GoesTo, Unfollowed DEF LoadFails
  <2>2. CASE ~(call[c].at = "loading" /\ ~aborted[c])
    BY <1>5, <2>2 DEF LoadFails
  <2> QED BY <2>1, <2>2
<1>6. ASSUME NEW c \in Call, LoadAborted(c) PROVE RegistryNames'
  BY <1>6, GoesTo, Unfollowed DEF LoadAborted
<1>7. ASSUME NEW c \in Call, LoadContinues(c) PROVE RegistryNames'
  <2>1. CASE Goes(c, "over") /\ Released(c) /\ UNCHANGED life
    <3>1. /\ call' \in [Call -> CallRecord] /\ UNCHANGED <<registry, aborted, owner, provider>>
          /\ call[c].at = "loaded"
      BY <1>7, <2>1, GoesTo DEF LoadContinues
    <3>2. \A e \in Call : /\ call'[e].id = call[e].id /\ call'[e].owner = call[e].owner
                         /\ call'[e].at = IF e = c THEN "over" ELSE call[e].at
      BY <2>1, GoesTo
    <3> QED BY <2>1, <3>1, <3>2 DEF Released
  <2>2. CASE /\ Goes(c, "setup") /\ life' = [life EXCEPT ![c] = Fresh] /\ UNCHANGED prep
             /\ ~aborted[c] /\ owner[call[c].owner] = "live" /\ provider = "up"
    BY <1>7, <2>2, GoesTo, FreshIs DEF LoadContinues
  <2> QED BY <1>7, <2>1, <2>2 DEF LoadContinues
<1>8. ASSUME NEW c \in Call, SetupReturns(c) PROVE RegistryNames'
  BY <1>8 DEF SetupReturns, Goes
<1>9. ASSUME NEW c \in Call, SetupFails(c) PROVE RegistryNames'
  BY <1>9 DEF SetupFails, Fails, Goes, Disposed
<1>10. ASSUME NEW c \in Call, publish(c) PROVE RegistryNames'
  <2>1. CASE Fails(c) /\ UNCHANGED <<registry, owner, provider>>
    BY <1>10, <2>1, GoesTo, DisposedIs DEF publish, Fails
  <2>2. ASSUME NEW d \in {"idle", "busy"}, NEW vetoed \in BOOLEAN,
               Published(c, d, vetoed)
        PROVE  RegistryNames'
    <3>1. Announced(c, d, vetoed)
      BY <2>2, PublishedIs
    <3>2. CASE vetoed
      BY <3>1, <3>2 DEF Announced
    <3>3. CASE ~vetoed
      BY <3>1, <3>3 DEF Announced
    <3> QED BY <3>2, <3>3
  <2> QED BY <1>10, <2>1, <2>2, PublishSplits
<1>11. ASSUME NEW c \in Call, CallThrows(c) PROVE RegistryNames'
  BY <1>11 DEF CallThrows, Goes, Released
<1>12. ASSUME NEW c \in Call, CallerAborts(c) PROVE RegistryNames'
  BY <1>12 DEF CallerAborts
<1>13. ASSUME NEW c \in Call, DriverStarts(c) PROVE RegistryNames'
  BY <1>13 DEF DriverStarts
<1>14. ASSUME NEW c \in Call, DriverExits(c) PROVE RegistryNames'
  BY <1>14 DEF DriverExits
<1>15. ASSUME NEW c \in Call, HandleDisposes(c) PROVE RegistryNames'
  BY <1>15 DEF HandleDisposes, Disposed
<1>16. ASSUME NEW c \in Call, Drained(c) PROVE RegistryNames'
  BY <1>16 DEF Drained, Unwound
<1>17. ASSUME NEW c \in Call, ScopeUnwinds(c) PROVE RegistryNames'
  BY <1>17 DEF ScopeUnwinds
<1>18. ASSUME NEW c \in Call, Detach(c) PROVE RegistryNames'
  BY <1>18 DEF Detach
<1>19. ASSUME NEW c \in Call, OwnerEffect(c) PROVE RegistryNames'
  BY <1>19 DEF OwnerEffect, Disposed
<1>20. ASSUME NEW o \in Owner, OwnerUnloads(o) PROVE RegistryNames'
  BY <1>20 DEF OwnerUnloads
<1>21. ASSUME NEW o \in Owner, OwnerGone(o) PROVE RegistryNames'
  BY <1>21 DEF OwnerGone
<1>22. CASE ProviderUnloads
  BY <1>22 DEF ProviderUnloads
<1>23. CASE ProviderTeardown
  BY <1>23, TeardownIs DEF ProviderTeardown
<1>24. CASE ProviderGone
  BY <1>24 DEF ProviderGone
<1>25. CASE UNCHANGED lifeVars
  BY <1>25 DEF lifeVars
<1> QED
  BY <1>1, <1>2, <1>3, <1>4, <1>5, <1>6, <1>7, <1>8, <1>9, <1>10, <1>11, <1>12, <1>13,
     <1>14, <1>15, <1>16, <1>17, <1>18, <1>19, <1>20, <1>21, <1>22, <1>23, <1>24, <1>25
    DEF LifecycleNext, Begins, Continues

\* An agent is followed until its teardown begins.
LEMMA StepOwnerFollows ==
  ASSUME IInv, [LifecycleNext]_lifeVars
  PROVE  OwnerFollows'
<1> USE LifecycleAssumption
  DEF IInv, OwnerFollows, LifeAtPlace, DisposeInOrder, LifecycleTypeOK, CallRecord,
      Prepared, Place
<1>1. ASSUME NEW c \in Call, NEW i \in Id, NEW o \in Owner, resume(c, i, o)
      PROVE  OwnerFollows'
  BY <1>1 DEF resume, MayBegin
<1>2. ASSUME NEW c \in Call, NEW i \in Id, NEW o \in Owner, createAgent(c, i, o)
      PROVE  OwnerFollows'
  BY <1>2 DEF createAgent, MayBegin, Fresh, NoLife
<1>3. ASSUME NEW c \in Call, NEW i \in Id, NEW o \in Owner, create(c, i, o)
      PROVE  OwnerFollows'
  BY <1>3 DEF create, MayBegin, Disposed, Fresh, NoLife
<1>4. ASSUME NEW c \in Call, LoadArrives(c) PROVE OwnerFollows'
  <2>1. CASE call[c].at = "loading" /\ ~aborted[c]
    <3>1. Goes(c, "loaded") /\ life' = [life EXCEPT ![c].followed = FALSE]
      BY <1>4, <2>1 DEF LoadArrives
    <3>2. call' \in [Call -> CallRecord] /\ life' \in [Call -> Prepared]
      <4>1. call' \in [Call -> CallRecord]
        BY <3>1, GoesTo
      <4>2. life' \in [Call -> Prepared]
        BY <3>1, Unfollowed
      <4> QED BY <4>1, <4>2
    <3>3. UNCHANGED <<aborted, registry, owner, provider>>
      BY <1>4 DEF LoadArrives
    <3>4. prep' = [prep EXCEPT ![c] = "held"]
      BY <1>4, <2>1 DEF LoadArrives
    <3> QED BY <1>4, <2>1, <3>1, <3>2, GoesTo, Unfollowed DEF LoadArrives
  <2>2. CASE ~(call[c].at = "loading" /\ ~aborted[c])
    BY <1>4, <2>2 DEF LoadArrives
  <2> QED BY <2>1, <2>2
<1>5. ASSUME NEW c \in Call, LoadFails(c) PROVE OwnerFollows'
  <2>1. CASE call[c].at = "loading" /\ ~aborted[c]
    <3>1. Goes(c, "over") /\ life' = [life EXCEPT ![c].followed = FALSE]
      BY <1>5, <2>1 DEF LoadFails
    <3>2. call' \in [Call -> CallRecord] /\ life' \in [Call -> Prepared]
      <4>1. call' \in [Call -> CallRecord]
        BY <3>1, GoesTo
      <4>2. life' \in [Call -> Prepared]
        BY <3>1, Unfollowed
      <4> QED BY <4>1, <4>2
    <3>3. UNCHANGED <<aborted, registry, owner, provider>>
      BY <1>5 DEF LoadFails
    <3>4. prep' = [prep EXCEPT ![c] = "none"]
      BY <1>5, <2>1 DEF LoadFails
    <3> QED BY <1>5, <2>1, <3>1, <3>2, GoesTo, Unfollowed DEF LoadFails
  <2>2. CASE ~(call[c].at = "loading" /\ ~aborted[c])
    BY <1>5, <2>2 DEF LoadFails
  <2> QED BY <2>1, <2>2
<1>6. ASSUME NEW c \in Call, LoadAborted(c) PROVE OwnerFollows'
  BY <1>6, GoesTo, Unfollowed DEF LoadAborted
<1>7. ASSUME NEW c \in Call, LoadContinues(c) PROVE OwnerFollows'
  <2>1. CASE Goes(c, "over") /\ Released(c) /\ UNCHANGED life
    <3>1. /\ call' \in [Call -> CallRecord] /\ UNCHANGED <<registry, aborted, owner, provider>>
          /\ call[c].at = "loaded"
      BY <1>7, <2>1, GoesTo DEF LoadContinues
    <3>2. \A e \in Call : /\ call'[e].id = call[e].id /\ call'[e].owner = call[e].owner
                         /\ call'[e].at = IF e = c THEN "over" ELSE call[e].at
      BY <2>1, GoesTo
    <3> QED BY <2>1, <3>1, <3>2 DEF Released
  <2>2. CASE /\ Goes(c, "setup") /\ life' = [life EXCEPT ![c] = Fresh] /\ UNCHANGED prep
             /\ ~aborted[c] /\ owner[call[c].owner] = "live" /\ provider = "up"
    BY <1>7, <2>2, GoesTo, FreshIs DEF LoadContinues
  <2> QED BY <1>7, <2>1, <2>2 DEF LoadContinues
<1>8. ASSUME NEW c \in Call, SetupReturns(c) PROVE OwnerFollows'
  BY <1>8 DEF SetupReturns, Goes
<1>9. ASSUME NEW c \in Call, SetupFails(c) PROVE OwnerFollows'
  BY <1>9 DEF SetupFails, Fails, Goes, Disposed
<1>10. ASSUME NEW c \in Call, publish(c) PROVE OwnerFollows'
  <2>1. CASE Fails(c) /\ UNCHANGED <<registry, owner, provider>>
    BY <1>10, <2>1, GoesTo, DisposedIs DEF publish, Fails
  <2>2. ASSUME NEW d \in {"idle", "busy"}, NEW vetoed \in BOOLEAN,
               Published(c, d, vetoed)
        PROVE  OwnerFollows'
    <3>1. Announced(c, d, vetoed)
      BY <2>2, PublishedIs
    <3>2. CASE vetoed
      <4>0. OwnerFollows
        OBVIOUS
      <4>1. life[c].driver # "none" /\ call[c].at # "none" /\ life[c].dispose = "none"
            /\ call'[c].at # "none" /\ life'[c].dispose = "draining"
        BY <3>1, <3>2 DEF Announced
      <4>2. \A e \in Call : /\ call'[e].owner = call[e].owner /\ owner' = owner
                            /\ life'[e].followed = life[e].followed
                            /\ e # c => /\ call'[e].at = call[e].at
                                        /\ life'[e].driver = life[e].driver
                                        /\ life'[e].dispose = life[e].dispose
        BY <3>1 DEF Announced
      <4> SUFFICES ASSUME NEW e \in Call
                   PROVE  /\ life'[e].driver # "none" /\ life'[e].dispose = "none"
                               => life'[e].followed
                          /\ call'[e].at # "none" /\ owner'[call'[e].owner] = "gone"
                               => ~life'[e].followed
        OBVIOUS
      <4> HIDE DEF IInv, LifeAtPlace, DisposeInOrder, LifecycleTypeOK
      <4>3. CASE e = c
        BY <4>0, <4>1, <4>2, <4>3
      <4>4. CASE e # c
        BY <4>0, <4>2, <4>4
      <4> QED BY <4>3, <4>4
    <3>3. CASE ~vetoed
      BY <3>1, <3>3 DEF Announced
    <3> QED BY <3>2, <3>3
  <2> QED BY <1>10, <2>1, <2>2, PublishSplits
<1>11. ASSUME NEW c \in Call, CallThrows(c) PROVE OwnerFollows'
  BY <1>11 DEF CallThrows, Goes, Released
<1>12. ASSUME NEW c \in Call, CallerAborts(c) PROVE OwnerFollows'
  BY <1>12 DEF CallerAborts
<1>13. ASSUME NEW c \in Call, DriverStarts(c) PROVE OwnerFollows'
  BY <1>13 DEF DriverStarts
<1>14. ASSUME NEW c \in Call, DriverExits(c) PROVE OwnerFollows'
  BY <1>14 DEF DriverExits
<1>15. ASSUME NEW c \in Call, HandleDisposes(c) PROVE OwnerFollows'
  BY <1>15 DEF HandleDisposes, Disposed
<1>16. ASSUME NEW c \in Call, Drained(c) PROVE OwnerFollows'
  BY <1>16 DEF Drained, Unwound
<1>17. ASSUME NEW c \in Call, ScopeUnwinds(c) PROVE OwnerFollows'
  BY <1>17 DEF ScopeUnwinds
<1>18. ASSUME NEW c \in Call, Detach(c) PROVE OwnerFollows'
  BY <1>18 DEF Detach
<1>19. ASSUME NEW c \in Call, OwnerEffect(c) PROVE OwnerFollows'
  BY <1>19 DEF OwnerEffect, Disposed
<1>20. ASSUME NEW o \in Owner, OwnerUnloads(o) PROVE OwnerFollows'
  BY <1>20 DEF OwnerUnloads
<1>21. ASSUME NEW o \in Owner, OwnerGone(o) PROVE OwnerFollows'
  BY <1>21 DEF OwnerGone
<1>22. CASE ProviderUnloads
  BY <1>22 DEF ProviderUnloads
<1>23. CASE ProviderTeardown
  BY <1>23, TeardownIs DEF ProviderTeardown
<1>24. CASE ProviderGone
  BY <1>24 DEF ProviderGone
<1>25. CASE UNCHANGED lifeVars
  BY <1>25 DEF lifeVars
<1> QED
  BY <1>1, <1>2, <1>3, <1>4, <1>5, <1>6, <1>7, <1>8, <1>9, <1>10, <1>11, <1>12, <1>13,
     <1>14, <1>15, <1>16, <1>17, <1>18, <1>19, <1>20, <1>21, <1>22, <1>23, <1>24, <1>25
    DEF LifecycleNext, Begins, Continues

\* Nothing starts once the provider is gone.
LEMMA StepGoneIsDone ==
  ASSUME IInv, [LifecycleNext]_lifeVars
  PROVE  GoneIsDone'
<1> USE LifecycleAssumption
  DEF IInv, GoneIsDone, LifeAtPlace, LifecycleTypeOK, CallRecord, Prepared, Place
<1>1. ASSUME NEW c \in Call, NEW i \in Id, NEW o \in Owner, resume(c, i, o)
      PROVE  GoneIsDone'
  BY <1>1 DEF resume, MayBegin
<1>2. ASSUME NEW c \in Call, NEW i \in Id, NEW o \in Owner, createAgent(c, i, o)
      PROVE  GoneIsDone'
  BY <1>2 DEF createAgent, MayBegin, Fresh, NoLife
<1>3. ASSUME NEW c \in Call, NEW i \in Id, NEW o \in Owner, create(c, i, o)
      PROVE  GoneIsDone'
  BY <1>3 DEF create, MayBegin, Disposed, Fresh, NoLife
<1>4. ASSUME NEW c \in Call, LoadArrives(c) PROVE GoneIsDone'
  <2>1. CASE call[c].at = "loading" /\ ~aborted[c]
    <3>1. Goes(c, "loaded") /\ life' = [life EXCEPT ![c].followed = FALSE]
      BY <1>4, <2>1 DEF LoadArrives
    <3>2. call' \in [Call -> CallRecord] /\ life' \in [Call -> Prepared]
      <4>1. call' \in [Call -> CallRecord]
        BY <3>1, GoesTo
      <4>2. life' \in [Call -> Prepared]
        BY <3>1, Unfollowed
      <4> QED BY <4>1, <4>2
    <3>3. UNCHANGED <<aborted, registry, owner, provider>>
      BY <1>4 DEF LoadArrives
    <3>4. prep' = [prep EXCEPT ![c] = "held"]
      BY <1>4, <2>1 DEF LoadArrives
    <3> QED BY <1>4, <2>1, <3>1, <3>2, GoesTo, Unfollowed DEF LoadArrives
  <2>2. CASE ~(call[c].at = "loading" /\ ~aborted[c])
    BY <1>4, <2>2 DEF LoadArrives
  <2> QED BY <2>1, <2>2
<1>5. ASSUME NEW c \in Call, LoadFails(c) PROVE GoneIsDone'
  <2>1. CASE call[c].at = "loading" /\ ~aborted[c]
    <3>1. Goes(c, "over") /\ life' = [life EXCEPT ![c].followed = FALSE]
      BY <1>5, <2>1 DEF LoadFails
    <3>2. call' \in [Call -> CallRecord] /\ life' \in [Call -> Prepared]
      <4>1. call' \in [Call -> CallRecord]
        BY <3>1, GoesTo
      <4>2. life' \in [Call -> Prepared]
        BY <3>1, Unfollowed
      <4> QED BY <4>1, <4>2
    <3>3. UNCHANGED <<aborted, registry, owner, provider>>
      BY <1>5 DEF LoadFails
    <3>4. prep' = [prep EXCEPT ![c] = "none"]
      BY <1>5, <2>1 DEF LoadFails
    <3> QED BY <1>5, <2>1, <3>1, <3>2, GoesTo, Unfollowed DEF LoadFails
  <2>2. CASE ~(call[c].at = "loading" /\ ~aborted[c])
    BY <1>5, <2>2 DEF LoadFails
  <2> QED BY <2>1, <2>2
<1>6. ASSUME NEW c \in Call, LoadAborted(c) PROVE GoneIsDone'
  BY <1>6, GoesTo, Unfollowed DEF LoadAborted
<1>7. ASSUME NEW c \in Call, LoadContinues(c) PROVE GoneIsDone'
  <2>1. CASE Goes(c, "over") /\ Released(c) /\ UNCHANGED life
    <3>1. /\ call' \in [Call -> CallRecord] /\ UNCHANGED <<registry, aborted, owner, provider>>
          /\ call[c].at = "loaded"
      BY <1>7, <2>1, GoesTo DEF LoadContinues
    <3>2. \A e \in Call : /\ call'[e].id = call[e].id /\ call'[e].owner = call[e].owner
                         /\ call'[e].at = IF e = c THEN "over" ELSE call[e].at
      BY <2>1, GoesTo
    <3> QED BY <2>1, <3>1, <3>2 DEF Released
  <2>2. CASE /\ Goes(c, "setup") /\ life' = [life EXCEPT ![c] = Fresh] /\ UNCHANGED prep
             /\ ~aborted[c] /\ owner[call[c].owner] = "live" /\ provider = "up"
    BY <1>7, <2>2, GoesTo, FreshIs DEF LoadContinues
  <2> QED BY <1>7, <2>1, <2>2 DEF LoadContinues
<1>8. ASSUME NEW c \in Call, SetupReturns(c) PROVE GoneIsDone'
  BY <1>8 DEF SetupReturns, Goes
<1>9. ASSUME NEW c \in Call, SetupFails(c) PROVE GoneIsDone'
  BY <1>9 DEF SetupFails, Fails, Goes, Disposed
<1>10. ASSUME NEW c \in Call, publish(c) PROVE GoneIsDone'
  <2>1. CASE Fails(c) /\ UNCHANGED <<registry, owner, provider>>
    BY <1>10, <2>1, GoesTo, DisposedIs DEF publish, Fails
  <2>2. ASSUME NEW d \in {"idle", "busy"}, NEW vetoed \in BOOLEAN,
               Published(c, d, vetoed)
        PROVE  GoneIsDone'
    <3>1. Announced(c, d, vetoed)
      BY <2>2, PublishedIs
    <3>2. CASE vetoed
      BY <3>1, <3>2 DEF Announced
    <3>3. CASE ~vetoed
      BY <3>1, <3>3 DEF Announced
    <3> QED BY <3>2, <3>3
  <2> QED BY <1>10, <2>1, <2>2, PublishSplits
<1>11. ASSUME NEW c \in Call, CallThrows(c) PROVE GoneIsDone'
  BY <1>11 DEF CallThrows, Goes, Released
<1>12. ASSUME NEW c \in Call, CallerAborts(c) PROVE GoneIsDone'
  BY <1>12 DEF CallerAborts
<1>13. ASSUME NEW c \in Call, DriverStarts(c) PROVE GoneIsDone'
  BY <1>13 DEF DriverStarts
<1>14. ASSUME NEW c \in Call, DriverExits(c) PROVE GoneIsDone'
  BY <1>14 DEF DriverExits
<1>15. ASSUME NEW c \in Call, HandleDisposes(c) PROVE GoneIsDone'
  BY <1>15 DEF HandleDisposes, Disposed
<1>16. ASSUME NEW c \in Call, Drained(c) PROVE GoneIsDone'
  BY <1>16 DEF Drained, Unwound
<1>17. ASSUME NEW c \in Call, ScopeUnwinds(c) PROVE GoneIsDone'
  BY <1>17 DEF ScopeUnwinds
<1>18. ASSUME NEW c \in Call, Detach(c) PROVE GoneIsDone'
  BY <1>18 DEF Detach
<1>19. ASSUME NEW c \in Call, OwnerEffect(c) PROVE GoneIsDone'
  BY <1>19 DEF OwnerEffect, Disposed
<1>20. ASSUME NEW o \in Owner, OwnerUnloads(o) PROVE GoneIsDone'
  BY <1>20 DEF OwnerUnloads
<1>21. ASSUME NEW o \in Owner, OwnerGone(o) PROVE GoneIsDone'
  BY <1>21 DEF OwnerGone
<1>22. CASE ProviderUnloads
  BY <1>22 DEF ProviderUnloads
<1>23. CASE ProviderTeardown
  BY <1>23, TeardownIs DEF ProviderTeardown
<1>24. CASE ProviderGone
  BY <1>24 DEF ProviderGone
<1>25. CASE UNCHANGED lifeVars
  BY <1>25 DEF lifeVars
<1> QED
  BY <1>1, <1>2, <1>3, <1>4, <1>5, <1>6, <1>7, <1>8, <1>9, <1>10, <1>11, <1>12, <1>13,
     <1>14, <1>15, <1>16, <1>17, <1>18, <1>19, <1>20, <1>21, <1>22, <1>23, <1>24, <1>25
    DEF LifecycleNext, Begins, Continues

\* The parts are preserved together.
LEMMA Step == ASSUME IInv, [LifecycleNext]_lifeVars PROVE IInv'
BY StepLifecycleTypeOK, StepLifeAtPlace, StepDisposeInOrder, StepPrepAtPlace,
   StepRegistryNames, StepOwnerFollows, StepGoneIsDone DEF IInv

-----------------------------------------------------------------------------
(* The theorems.                                                           *)

\* Every state of the factory satisfies the inductive invariant, whatever the
\* order of loads, setups, aborts and unloads (agent-loop/src/index.ts:507-563).
THEOREM LifecycleInvariance == LifecycleSpec => []IInv
<1>1. LifecycleInit => IInv
  BY InitIInv
<1>2. IInv /\ [LifecycleNext]_lifeVars => IInv'
  BY Step
<1> QED
  BY <1>1, <1>2, PTL DEF LifecycleSpec

\* Calls, agents and registries keep their shape (agent-loop/src/index.ts:488-563).
THEOREM LifecycleTypes == LifecycleSpec => []LifecycleTypeOK
<1>1. IInv => LifecycleTypeOK
  BY DEF IInv
<1> QED
  BY <1>1, LifecycleInvariance, PTL

\* The registries name a live agent until its own teardown detaches it, also
\* when a second call with its identity fails (agent-loop/src/index.ts:508-535).
THEOREM StaysRegistered == LifecycleSpec => []RegisteredWhileAtWork
<1>1. IInv => RegisteredWhileAtWork
  BY DEF IInv, LifecycleTypeOK, DisposeInOrder, RegistryNames, RegisteredWhileAtWork, Quiet,
         CallRecord, Prepared
<1> QED
  BY <1>1, LifecycleInvariance, PTL

\* A scope unwinds after its driver is idle, unless the provider unloads it
\* directly (agent-loop/src/index.ts:519-523).
THEOREM ScopesOutliveDrivers == LifecycleSpec => []DriverBeforeScope
<1>1. IInv => DriverBeforeScope
  BY DEF IInv, DisposeInOrder, DriverBeforeScope
<1> QED
  BY <1>1, LifecycleInvariance, PTL

\* The session of a resume is reserved until the agent built on it is published
\* or unwound (agent-loop/src/index.ts:118-130, 632-653).
THEOREM PreparationsOutliveUse == LifecycleSpec => []PreparationOutlivesUse
<1>1. IInv => PreparationOutlivesUse
  BY DEF IInv, LifecycleTypeOK, LifeAtPlace, DisposeInOrder, PrepAtPlace,
         PreparationOutlivesUse, Quiet, CallRecord, Place, Prepared
<1> QED
  BY <1>1, LifecycleInvariance, PTL

\* An unloaded provider has nothing registered, at work or still to publish
\* (FactoryOwnership.dispose, agent-loop/src/index.ts:43-86).
THEOREM ProvidersLeaveNothing == LifecycleSpec => []ProviderGoneIsQuiet
<1>1. IInv => ProviderGoneIsQuiet
  <2> SUFFICES ASSUME IInv, provider = "gone" PROVE ProviderGoneIsQuiet
    BY DEF ProviderGoneIsQuiet
  <2> USE
    DEF IInv, LifecycleTypeOK, LifeAtPlace, DisposeInOrder, GoneIsDone, CallRecord,
        Prepared
  <2>1. ASSUME NEW c \in Call
        PROVE  Quiet(life[c]) /\ call[c].at \in {"none", "live", "over"}
    BY DEF Quiet
  <2>2. ASSUME NEW i \in Id PROVE registry[i] = None
    BY DEF RegistryNames
  <2> QED
    BY <2>1, <2>2 DEF ProviderGoneIsQuiet
<1> QED
  BY <1>1, LifecycleInvariance, PTL

\* No agent outlives its owner without a teardown of its own
\* (agent-loop/src/index.ts:537-547 and 699-700).
THEOREM NoAgentIsOrphaned == LifecycleSpec => []NoOrphan
<1>1. IInv => NoOrphan
  BY DEF IInv, LifecycleTypeOK, LifeAtPlace, OwnerFollows, NoOrphan, CallRecord, Prepared
<1> QED
  BY <1>1, LifecycleInvariance, PTL
=============================================================================
