--------------------------- MODULE LocalJobs_proofs ---------------------------
(***************************************************************************)
(* Proofs about the background job registry, for every set of jobs, owners *)
(* and calls of wait(), and every limit: a completion is reported once,    *)
(* teardowns announce nothing, and an owner that is gone owns nothing.     *)
(***************************************************************************)
EXTENDS LocalJobs, FiniteSetTheorems, TLAPS

-----------------------------------------------------------------------------
(* The inductive invariant.                                                *)

\* The calls of wait() that the record of j counts.
Counted(j) == {w \in Wait : wait[w].job = j /\ wait[w].counted}

\* A wait() is counted from its await to its finally, or to its caller's abort,
\* and the record holds the number of them.
WaitsAtPlace ==
  /\ \A w \in Wait :
       wait[w].counted <=> wait[w].at \in {"pending", "released", "expired"}
  /\ \A j \in Job : job[j].waiters = Cardinality(Counted(j))

\* What was said of a job was said of a terminal one.  An announced job has
\* nobody waiting; of a suppressed one, somebody who waits is about to be told.
EndsAtPlace ==
  /\ \A j \in announced \union suppressed \union told : isTerminal(j)
  /\ \A j \in announced : j \notin told /\ Counted(j) = {}
  /\ \A j \in suppressed \ told :
       \E w \in Wait : wait[w].job = j /\ wait[w].at \in {"released", "expired"}

\* A record and the work behind it: a live job is known to the registry, and
\* only one whose cancel threw is terminal before its producer is done.
JobsAtPlace ==
  \A j \in Job :
    /\ job[j].status = "none" <=> producer[j] = "none"
    /\ job[j].status = "none" => job[j].owner = Nobody
    /\ isLive(j) => j \in store
    /\ isTerminal(j) /\ producer[j] \in {"working", "told"} => job[j].status = "failed"

\* What an owner has at each stage of its life: a cleanup while it owns a job,
\* then all it owned under its drain with the reports claimed, then nothing.
OwnersAtPlace ==
  /\ \A j \in store : job[j].owner \in Owner =>
       CASE owner[job[j].owner] = "live"     -> job[j].owner \in ownerCleanups
         [] owner[job[j].owner] = "draining" -> j \in drained[job[j].owner]
         [] owner[job[j].owner] = "gone"     -> FALSE
  /\ \A j \in store : isLive(j) /\ job[j].owner \in Owner =>
       owner[job[j].owner] = "live" \/ job[j].reported

IInv == JobsTypeOK /\ WaitsAtPlace /\ EndsAtPlace /\ JobsAtPlace /\ OwnersAtPlace

-----------------------------------------------------------------------------
(* What the operations do to the records, field by field.                  *)

\* A settlement lets go of the waits on the jobs of set.
Releases(set) ==
  wait' = [w \in Wait |-> IF wait[w].job \in set /\ wait[w].at = "pending"
                          THEN [wait[w] EXCEPT !.at = "released"] ELSE wait[w]]

\* read reports the job and changes nothing else.
LEMMA ReadEffect ==
  ASSUME JobsTypeOK, NEW j \in Job, read(j), NEW k \in Job
  PROVE  /\ job'[k].status = job[k].status /\ job'[k].owner = job[k].owner
         /\ job'[k].waiters = job[k].waiters
         /\ job'[k].reported = (job[k].reported \/ k = j)
<1>1. job[k] \in TrackedTask
  BY DEF JobsTypeOK
<1> QED BY <1>1 DEF read, JobsTypeOK, TrackedTask

\* kill stops the job, claims its report and tells its producer.
LEMMA KillEffect ==
  ASSUME JobsTypeOK, NEW j \in Job, kill(j), NEW k \in Job
  PROVE  /\ job'[k].status = (IF k = j THEN "stopping" ELSE job[k].status)
         /\ job'[k].owner = job[k].owner /\ job'[k].waiters = job[k].waiters
         /\ job'[k].reported = (job[k].reported \/ k = j)
         /\ producer'[k] = (IF k = j /\ producer[j] = "working" THEN "told"
                            ELSE producer[k])
<1>1. job[k] \in TrackedTask
  BY DEF JobsTypeOK
<1> QED BY <1>1 DEF kill, Tell, JobsTypeOK, TrackedTask

\* A wait() changes nothing of a record but its count and, when it returns an
\* end, the report.
LEMMA WaitEffect ==
  ASSUME JobsTypeOK, NEW w \in Wait, NEW j \in Job,
         \/ BeginWait(w, j)
         \/ AbortWait(w) /\ j = wait[w].job
         \/ WaitResumes(w) /\ j = wait[w].job,
         NEW k \in Job
  PROVE  /\ job'[k].status = job[k].status /\ job'[k].owner = job[k].owner
         /\ k # j => job'[k] = job[k]
         /\ job[k].reported => job'[k].reported
<1>1. job[k] \in TrackedTask
  BY DEF JobsTypeOK
<1> QED BY <1>1 DEF BeginWait, AbortWait, WaitResumes, JobsTypeOK, TrackedTask

\* settle: the record ends, and the waits on it are released.
LEMMA SettleEffect ==
  ASSUME JobsTypeOK, NEW j \in Job, Settle(j), ~isTerminal(j)
  PROVE  /\ \A k \in Job : k # j => job'[k] = job[k]
         /\ job'[j].status = "completed" /\ job'[j].owner = job[j].owner
         /\ job'[j].waiters = job[j].waiters
         /\ job'[j].reported = (job[j].reported \/ job[j].waiters > 0)
         /\ Releases({j})
         /\ announced' \subseteq announced \union {j}
         /\ j \in announced' \ announced =>
              ~job[j].reported /\ job[j].waiters = 0 /\ service = "up"
         /\ suppressed' \subseteq suppressed \union {j}
         /\ j \in suppressed' \ suppressed => job[j].waiters > 0
<1>1. job[j] \in TrackedTask
  BY DEF JobsTypeOK
<1>2. job' = [job EXCEPT ![j] = Settled(@, "completed")] /\ Announce({j}, service # "up")
  BY DEF Settle
<1>3. /\ \A k \in Job : k # j => job'[k] = job[k]
      /\ job'[j].status = "completed" /\ job'[j].owner = job[j].owner
      /\ job'[j].waiters = job[j].waiters
      /\ job'[j].reported = (job[j].reported \/ job[j].waiters > 0)
  BY <1>1, <1>2 DEF JobsTypeOK, TrackedTask, Settled
<1>4. job[j].waiters \in Nat
  BY <1>1, LocalJobsAssumption, FS_CardinalityType DEF TrackedTask
<1>5. Releases({j})
  BY <1>2 DEF Announce, Releases
<1>6. announced' = announced \union {k \in {j} : ~job'[k].reported /\ ~(service # "up") /\ controller}
  BY <1>2 DEF Announce
<1>7. suppressed' = suppressed \union {k \in {j} : job'[k].reported /\ ~job[k].reported
                                       /\ job[k].status \in Live /\ job[k].waiters > 0}
  BY <1>2 DEF Announce
<1>8. j \in announced' \ announced => ~job[j].reported /\ job[j].waiters = 0 /\ service = "up"
  <2>1. j \in announced' \ announced => ~job'[j].reported /\ service = "up"
    BY <1>6
  <2>2. ~job'[j].reported => ~job[j].reported /\ ~(job[j].waiters > 0)
    BY <1>3
  <2> QED BY <1>4, <2>1, <2>2
<1> QED BY <1>3, <1>5, <1>6, <1>7, <1>8

\* cancelForTeardown: every live job of the set is claimed, then told to stop or
\* ended; nothing is announced.
LEMMA CancelEffect ==
  ASSUME JobsTypeOK, NEW jobs \in SUBSET Job, NEW throwing, NEW closed,
         cancelForTeardown(jobs, throwing, closed)
  PROVE  /\ throwing \subseteq {k \in jobs : isLive(k)}
         /\ \A k \in Job :
              /\ job'[k].owner = job[k].owner /\ job'[k].waiters = job[k].waiters
              /\ k \in throwing => job'[k].status = "failed"
              /\ k \in jobs \ throwing /\ isLive(k) => job'[k].status = "stopping"
              /\ k \notin jobs \/ ~isLive(k) => job'[k] = job[k]
              /\ k \in jobs /\ isLive(k) => job'[k].reported = TRUE
              /\ producer'[k] = IF k \in jobs \ throwing /\ isLive(k)
                                   /\ producer[k] = "working"
                                THEN "told" ELSE producer[k]
         /\ Releases(throwing)
         /\ announced' = announced
         /\ suppressed' \subseteq suppressed \union {k \in throwing : job[k].waiters > 0}
<1>1. throwing \subseteq {k \in jobs : isLive(k)} /\ Announce(throwing, closed)
  BY DEF cancelForTeardown
<1>2. ASSUME NEW k \in Job
      PROVE  /\ job'[k].owner = job[k].owner /\ job'[k].waiters = job[k].waiters
             /\ k \in throwing => job'[k].status = "failed"
             /\ k \in jobs \ throwing /\ isLive(k) => job'[k].status = "stopping"
             /\ k \notin jobs \/ ~isLive(k) => job'[k] = job[k]
             /\ k \in jobs /\ isLive(k) => job'[k].reported = TRUE
  <2>1. job[k] \in TrackedTask
    BY DEF JobsTypeOK
  <2>2. CASE k \in throwing
    BY <1>1, <2>1, <2>2 DEF cancelForTeardown, Settled, TrackedTask
  <2>3. CASE k \in jobs \ throwing /\ isLive(k)
    BY <2>1, <2>3 DEF cancelForTeardown, TrackedTask
  <2>4. CASE k \notin jobs \/ ~isLive(k)
    BY <1>1, <2>4 DEF cancelForTeardown
  <2> QED BY <2>2, <2>3, <2>4
<1>3. ASSUME NEW k \in Job
      PROVE  producer'[k] = IF k \in jobs \ throwing /\ isLive(k)
                               /\ producer[k] = "working"
                            THEN "told" ELSE producer[k]
  BY DEF cancelForTeardown, Tell
<1>4. announced' = announced
  BY <1>1, <1>2 DEF Announce
<1>5. suppressed' \subseteq suppressed \union {k \in throwing : job[k].waiters > 0}
  BY <1>1 DEF Announce
<1>6. Releases(throwing)
  BY <1>1 DEF Announce, Releases
<1> QED BY <1>1, <1>2, <1>3, <1>4, <1>5, <1>6

\* Releasing waits changes neither what they wait for nor what is counted.
LEMMA Released ==
  ASSUME JobsTypeOK, NEW set,
         Releases(set)
  PROVE  /\ wait' \in [Wait -> WaitCall]
         /\ \A w \in Wait :
              /\ wait'[w].job = wait[w].job /\ wait'[w].counted = wait[w].counted
              /\ wait'[w].at = IF wait[w].job \in set /\ wait[w].at = "pending"
                               THEN "released" ELSE wait[w].at
<1>1. ASSUME NEW w \in Wait
      PROVE  /\ wait'[w] \in WaitCall
             /\ wait'[w].job = wait[w].job /\ wait'[w].counted = wait[w].counted
             /\ wait'[w].at = IF wait[w].job \in set /\ wait[w].at = "pending"
                              THEN "released" ELSE wait[w].at
  <2>1. wait[w] \in WaitCall
    BY DEF JobsTypeOK
  <2> QED BY <2>1 DEF Releases, WaitCall
<1> QED BY <1>1 DEF Releases

\* Each job has finitely many waits, at most all there are.
LEMMA CountedFinite ==
  ASSUME NEW j
  PROVE  IsFiniteSet(Counted(j)) /\ Cardinality(Counted(j)) \in 0 .. Cardinality(Wait)
<1>1. Counted(j) \subseteq Wait
  BY DEF Counted
<1>2. IsFiniteSet(Wait) /\ Cardinality(Wait) \in Nat
  BY LocalJobsAssumption, FS_CardinalityType
<1>3. IsFiniteSet(Counted(j)) /\ Cardinality(Counted(j)) <= Cardinality(Wait)
  BY <1>1, <1>2, FS_Subset
<1>4. Cardinality(Counted(j)) \in Nat
  BY <1>3, FS_CardinalityType
<1> QED BY <1>2, <1>3, <1>4

-----------------------------------------------------------------------------
(* The invariant is inductive.                                             *)

\* Every step keeps the counts of waiters: a wait() counts itself once and uncounts
\* itself once, in its finally or at its caller's abort (jobs-local index.ts wait).
LEMMA WaitsStep == IInv /\ [JobsNext]_jobVars => WaitsAtPlace'
<1> SUFFICES ASSUME IInv, [JobsNext]_jobVars
             PROVE  WaitsAtPlace'
  OBVIOUS
<1> USE DEF IInv
<1>0. ASSUME NEW w \in Wait
      PROVE  /\ wait[w].counted \in BOOLEAN /\ wait[w].job \in Job
             /\ wait[w].counted <=> wait[w].at \in {"pending", "released", "expired"}
  BY DEF JobsTypeOK, WaitCall, WaitsAtPlace
<1>a. ASSUME \A w \in Wait :
               /\ wait'[w].job = wait[w].job /\ wait'[w].counted = wait[w].counted
               /\ wait'[w].at = wait[w].at
                  \/ {wait[w].at, wait'[w].at} \subseteq {"pending", "released", "expired"},
             \A k \in Job : job'[k].waiters = job[k].waiters
      PROVE  WaitsAtPlace'
  <2>1. ASSUME NEW k \in Job
        PROVE  Counted(k)' = Counted(k)
    BY <1>a DEF Counted
  <2>2. ASSUME NEW w \in Wait
        PROVE  wait'[w].counted <=> wait'[w].at \in {"pending", "released", "expired"}
    BY <1>0, <1>a
  <2> QED BY <1>a, <2>1, <2>2 DEF WaitsAtPlace
<1>b. ASSUME UNCHANGED wait, \A k \in Job : job'[k].waiters = job[k].waiters
      PROVE  WaitsAtPlace'
  BY <1>a, <1>b
<1>c. ASSUME UNCHANGED wait, UNCHANGED job
      PROVE  WaitsAtPlace'
  BY <1>b, <1>c
<1>d. ASSUME NEW set, \A k \in Job : job'[k].waiters = job[k].waiters,
             Releases(set)
      PROVE  WaitsAtPlace'
  BY <1>a, <1>d, Released
<1>1. ASSUME NEW j \in Job, NEW o \in Owner \union {Nobody}, start(j, o)
      PROVE  WaitsAtPlace'
  <2>1. ASSUME NEW k \in Job
        PROVE  job'[k].waiters = job[k].waiters
    <3>1. job[k] \in TrackedTask
      BY DEF JobsTypeOK
    <3> QED BY <1>1, <3>1 DEF start, JobsTypeOK, TrackedTask
  <2> QED BY <1>1, <2>1, <1>b DEF start
<1>2. ASSUME NEW j \in Job, read(j)
      PROVE  WaitsAtPlace'
  BY <1>2, <1>b, ReadEffect DEF read
<1>3. ASSUME NEW j \in Job, kill(j)
      PROVE  WaitsAtPlace'
  BY <1>3, <1>b, KillEffect DEF kill
<1>4. ASSUME NEW j \in Job, Release(j)
      PROVE  WaitsAtPlace'
  BY <1>4, <1>c DEF Release
<1>5. ASSUME NEW j \in Job, Settle(j)
      PROVE  WaitsAtPlace'
  <2>1. CASE isTerminal(j)
    BY <1>5, <1>c, <2>1 DEF Settle
  <2>2. CASE ~isTerminal(j)
    <3>1. \A k \in Job : job'[k].waiters = job[k].waiters
      BY <1>5, <2>2, SettleEffect
    <3>2. Releases({j})
      BY <1>5, <2>2, SettleEffect
    <3> QED BY <1>d, <3>1, <3>2
  <2> QED BY <2>1, <2>2
<1>6. ASSUME NEW w \in Wait, NEW j \in Job, BeginWait(w, j)
      PROVE  WaitsAtPlace'
  <2>1. wait' = [wait EXCEPT ![w] = [at |-> "pending", job |-> j, counted |-> TRUE]]
        /\ ~wait[w].counted
    BY <1>0, <1>6 DEF BeginWait
  <2>2. \A v \in Wait : v # w => wait'[v] = wait[v]
    BY <2>1 DEF JobsTypeOK
  <2>3. wait'[w].job = j /\ wait'[w].counted /\ wait'[w].at = "pending"
    BY <2>1 DEF JobsTypeOK
  <2>4. job[j].waiters' = job[j].waiters + 1
    <3>1. job[j] \in TrackedTask
      BY DEF JobsTypeOK
    <3> QED BY <1>6, <3>1 DEF BeginWait, JobsTypeOK, TrackedTask
  <2>5. ASSUME NEW k \in Job, k # j
        PROVE  job'[k].waiters = Cardinality(Counted(k)')
    <3>1. Counted(k)' = Counted(k)
      BY <2>1, <2>2, <2>3, <2>5 DEF Counted
    <3> QED BY <1>6, <2>5, <3>1, WaitEffect DEF WaitsAtPlace
  <2>6. job'[j].waiters = Cardinality(Counted(j)')
    <3>1. Counted(j)' = Counted(j) \union {w} /\ w \notin Counted(j)
      BY <2>1, <2>2, <2>3 DEF Counted
    <3>2. Cardinality(Counted(j)') = Cardinality(Counted(j)) + 1
      BY <3>1, CountedFinite, FS_AddElement
    <3> QED BY <2>4, <3>2 DEF WaitsAtPlace
  <2>7. \A k \in Job : job'[k].waiters = Cardinality(Counted(k)')
    BY <2>5, <2>6
  <2>8. \A v \in Wait :
          wait'[v].counted <=> wait'[v].at \in {"pending", "released", "expired"}
    BY <1>0, <2>2, <2>3
  <2> QED BY <2>7, <2>8 DEF WaitsAtPlace
<1>7. ASSUME NEW w \in Wait, Expire(w)
      PROVE  WaitsAtPlace'
  <2>1. ASSUME NEW v \in Wait
        PROVE  /\ wait'[v].job = wait[v].job /\ wait'[v].counted = wait[v].counted
               /\ wait'[v].at = wait[v].at
                  \/ {wait[v].at, wait'[v].at} \subseteq {"pending", "released", "expired"}
    <3>1. wait[v] \in WaitCall
      BY DEF JobsTypeOK
    <3> QED BY <1>7, <3>1 DEF Expire, JobsTypeOK, WaitCall
  <2> QED BY <1>7, <1>a, <2>1 DEF Expire
<1>e. ASSUME NEW w \in Wait, NEW j \in Job, wait[w].job = j, wait[w].counted,
             job'[j].waiters = job[j].waiters - 1,
             \A k \in Job : k # j => job'[k] = job[k],
             \A v \in Wait : v # w => wait'[v] = wait[v],
             ~wait'[w].counted, wait'[w].at \in {"none", "rejected"}
      PROVE  WaitsAtPlace'
  <2>1. ASSUME NEW k \in Job, k # j
        PROVE  job'[k].waiters = Cardinality(Counted(k)')
    <3>1. Counted(k)' = Counted(k)
      BY <1>e, <2>1 DEF Counted
    <3> QED BY <1>e, <2>1, <3>1 DEF WaitsAtPlace
  <2>2. job'[j].waiters = Cardinality(Counted(j)')
    <3>1. Counted(j)' = Counted(j) \ {w} /\ w \in Counted(j)
      BY <1>e DEF Counted
    <3>2. Cardinality(Counted(j)') = Cardinality(Counted(j)) - 1
      BY <3>1, CountedFinite, FS_RemoveElement
    <3> QED BY <1>e, <3>2 DEF WaitsAtPlace
  <2>3. \A k \in Job : job'[k].waiters = Cardinality(Counted(k)')
    BY <2>1, <2>2
  <2>4. \A v \in Wait :
          wait'[v].counted <=> wait'[v].at \in {"pending", "released", "expired"}
    BY <1>0, <1>e
  <2> QED BY <2>3, <2>4 DEF WaitsAtPlace
<1>8. ASSUME NEW w \in Wait, AbortWait(w)
      PROVE  WaitsAtPlace'
  <2> DEFINE j == wait[w].job
  <2>1. j \in Job /\ wait[w].counted
    BY <1>0, <1>8 DEF AbortWait
  <2>2. /\ \A v \in Wait : v # w => wait'[v] = wait[v]
        /\ ~wait'[w].counted /\ wait'[w].at = "rejected"
    <3>1. wait[w] \in WaitCall
      BY DEF JobsTypeOK
    <3> QED BY <1>8, <3>1 DEF AbortWait, JobsTypeOK, WaitCall
  <2>3. job'[j].waiters = job[j].waiters - 1
    <3>1. job[j] \in TrackedTask
      BY <2>1 DEF JobsTypeOK
    <3> QED BY <1>8, <2>1, <3>1 DEF AbortWait, JobsTypeOK, TrackedTask
  <2>4. \A k \in Job : k # j => job'[k] = job[k]
    BY <1>8, <2>1, WaitEffect
  <2> QED BY <1>e, <2>1, <2>2, <2>3, <2>4
<1>9. ASSUME NEW w \in Wait, WaitResumes(w)
      PROVE  WaitsAtPlace'
  <2> DEFINE j == wait[w].job
  <2>1. j \in Job
    BY <1>0
  <2>2. /\ \A v \in Wait : v # w => wait'[v] = wait[v]
        /\ ~wait'[w].counted /\ wait'[w].at = "none"
    BY <1>9 DEF WaitResumes, JobsTypeOK
  <2>3. job'[j].waiters = IF wait[w].counted THEN job[j].waiters - 1 ELSE job[j].waiters
    <3>1. job[j] \in TrackedTask
      BY <2>1 DEF JobsTypeOK
    <3> QED BY <1>9, <2>1, <3>1 DEF WaitResumes, JobsTypeOK, TrackedTask
  <2>4. \A k \in Job : k # j => job'[k] = job[k]
    BY <1>9, <2>1, WaitEffect
  <2>5. CASE wait[w].counted
    BY <1>e, <2>1, <2>2, <2>3, <2>4, <2>5
  <2>6. CASE ~wait[w].counted
    <3>1. \A k \in Job : job'[k].waiters = job[k].waiters
      BY <2>1, <2>3, <2>4, <2>6
    <3>2. ASSUME NEW k \in Job
          PROVE  Counted(k)' = Counted(k)
      BY <2>2, <2>6 DEF Counted
    <3>3. \A v \in Wait :
            wait'[v].counted <=> wait'[v].at \in {"pending", "released", "expired"}
      BY <1>0, <2>2
    <3> QED BY <3>1, <3>2, <3>3 DEF WaitsAtPlace
  <2> QED BY <2>5, <2>6
<1>10. ASSUME NEW o \in Owner, OwnerDrained(o)
       PROVE  WaitsAtPlace'
  BY <1>10, <1>c DEF OwnerDrained
<1>f. ASSUME NEW jobs \in SUBSET Job, NEW throwing, NEW closed,
             cancelForTeardown(jobs, throwing, closed)
      PROVE  WaitsAtPlace'
  <2>1. /\ \A k \in Job : job'[k].waiters = job[k].waiters
        /\ Releases(throwing)
    BY <1>f, CancelEffect
  <2> QED BY <1>d, <2>1
<1>11. ASSUME NEW throwing \in SUBSET Job, DisposeService(throwing)
       PROVE  WaitsAtPlace'
  BY <1>11, <1>f DEF DisposeService, JobsTypeOK
<1>12. ASSUME NEW o \in Owner, NEW throwing \in SUBSET Job, DisposeOwner(o, throwing)
       PROVE  WaitsAtPlace'
  <2>1. OwnedBy(o) \in SUBSET Job
    BY DEF OwnedBy, JobsTypeOK
  <2> QED BY <1>12, <1>c, <1>f, <2>1 DEF DisposeOwner
<1>13. CASE ServiceDrained
  BY <1>13, <1>c DEF ServiceDrained
<1>14. CASE ToggleController
  BY <1>14, <1>c DEF ToggleController
<1>15. CASE UNCHANGED jobVars
  BY <1>15, <1>c DEF jobVars
<1> QED BY <1>1, <1>2, <1>3, <1>4, <1>5, <1>6, <1>7, <1>8, <1>9, <1>10, <1>11, <1>12,
           <1>13, <1>14, <1>15 DEF JobsNext, JobStep, WaitStep, Teardown

\* Every step keeps the types; that the counts stay in range is the matter of
\* WaitsStep.
LEMMA TypeStep == IInv /\ [JobsNext]_jobVars => JobsTypeOK'
<1> SUFFICES ASSUME IInv, [JobsNext]_jobVars
             PROVE  JobsTypeOK'
  OBVIOUS
<1>0. JobsTypeOK /\ WaitsAtPlace'
  BY WaitsStep DEF IInv
<1>a. ASSUME NEW k \in Job
      PROVE  job[k] \in TrackedTask /\ job'[k].waiters \in 0 .. Cardinality(Wait)
  <2>1. Cardinality(Counted(k)') \in 0 .. Cardinality(Wait)
    <3>1. Counted(k)' \subseteq Wait
      BY DEF Counted
    <3>2. IsFiniteSet(Wait) /\ Cardinality(Wait) \in Nat
      BY LocalJobsAssumption, FS_CardinalityType
    <3>3. IsFiniteSet(Counted(k)') /\ Cardinality(Counted(k)') <= Cardinality(Wait)
      BY <3>1, <3>2, FS_Subset
    <3>4. Cardinality(Counted(k)') \in Nat
      BY <3>3, FS_CardinalityType
    <3> QED BY <3>2, <3>3, <3>4
  <2> QED BY <1>0, <2>1 DEF JobsTypeOK, WaitsAtPlace
<1>b. (CHOOSE k \in Job : TRUE) \in Job
  BY LocalJobsAssumption
<1> USE <1>0
<1>1. ASSUME NEW j \in Job, NEW o \in Owner \union {Nobody}, start(j, o)
      PROVE  JobsTypeOK'
  <2>1. CASE activeTaskCount(o) >= Limit
    BY <1>1, <2>1 DEF start, JobsTypeOK
  <2>2. CASE ~(activeTaskCount(o) >= Limit)
    <3>1. job' = [job EXCEPT ![j] = [@ EXCEPT !.status = "running", !.owner = o]]
          /\ store' = store \union {j} /\ producer' = [producer EXCEPT ![j] = "working"]
      BY <1>1, <2>2 DEF start
    <3>2. [job[j] EXCEPT !.status = "running", !.owner = o] \in TrackedTask
      BY <1>a DEF TrackedTask, Live
    <3>3. job' \in [Job -> TrackedTask]
      BY <3>1, <3>2 DEF JobsTypeOK
    <3>4. job'[j].status = "running" /\ \A k \in Job : k # j => job'[k] = job[k]
      BY <1>a, <3>1 DEF JobsTypeOK, TrackedTask
    <3>5. store' \subseteq {k \in Job : job'[k].status # "none"}
      BY <3>1, <3>4 DEF JobsTypeOK
    <3>6. producer' \in [Job -> Producer]
      BY <3>1 DEF JobsTypeOK, Producer
    <3> QED BY <1>1, <3>3, <3>5, <3>6 DEF start, JobsTypeOK
  <2> QED BY <2>1, <2>2
<1>2. ASSUME NEW j \in Job, read(j)
      PROVE  JobsTypeOK'
  <2>1. [job[j] EXCEPT !.reported = TRUE] \in TrackedTask
    BY <1>a DEF TrackedTask
  <2>2. job' \in [Job -> TrackedTask]
    BY <1>2, <2>1 DEF read, JobsTypeOK
  <2>3. store' \subseteq {k \in Job : job'[k].status # "none"}
    BY <1>2, ReadEffect DEF read, JobsTypeOK
  <2> QED BY <1>2, <2>2, <2>3 DEF read, JobsTypeOK
<1>3. ASSUME NEW j \in Job, kill(j)
      PROVE  JobsTypeOK'
  <2>1. [job[j] EXCEPT !.status = "stopping", !.reported = TRUE] \in TrackedTask
    BY <1>a DEF TrackedTask, Live
  <2>2. job' \in [Job -> TrackedTask]
    BY <1>3, <2>1 DEF kill, JobsTypeOK
  <2>3. store' \subseteq {k \in Job : job'[k].status # "none"}
    <3>1. \A k \in Job : job'[k].status = IF k = j THEN "stopping" ELSE job[k].status
      BY <1>3, KillEffect
    <3> QED BY <1>3, <3>1 DEF kill, JobsTypeOK
  <2>4. producer' \in [Job -> Producer]
    BY <1>3 DEF kill, Tell, JobsTypeOK, Producer
  <2> QED BY <1>3, <2>2, <2>3, <2>4 DEF kill, JobsTypeOK
<1>4. ASSUME NEW j \in Job, Release(j)
      PROVE  JobsTypeOK'
  BY <1>4 DEF Release, JobsTypeOK, Producer
<1>5. ASSUME NEW j \in Job, Settle(j)
      PROVE  JobsTypeOK'
  <2>1. CASE isTerminal(j)
    BY <1>5, <2>1 DEF Settle, JobsTypeOK, Producer
  <2>2. CASE ~isTerminal(j)
    <3>1. job' = [job EXCEPT ![j] = Settled(job[j], "completed")]
      BY <1>5, <2>2 DEF Settle
    <3>2. Settled(job[j], "completed") \in TrackedTask
      <4>1. (job[j].reported \/ job[j].waiters > 0) \in BOOLEAN
        OBVIOUS
      <4> QED BY <1>a, <4>1 DEF Settled, TrackedTask, Terminal
    <3>3. job' \in [Job -> TrackedTask]
      BY <3>1, <3>2 DEF JobsTypeOK
    <3>4. job'[j].status = "completed" /\ \A k \in Job : k # j => job'[k] = job[k]
      BY <1>5, <2>2, SettleEffect
    <3>5. store' \subseteq {k \in Job : job'[k].status # "none"}
      BY <1>5, <3>4 DEF Settle, JobsTypeOK
    <3>6. Releases({j})
      BY <1>5, <2>2, SettleEffect
    <3>7. wait' \in [Wait -> WaitCall]
      BY <3>6, Released
    <3>8. announced' \subseteq Job /\ suppressed' \subseteq Job
      BY <1>5, <2>2, SettleEffect DEF JobsTypeOK
    <3> QED BY <1>5, <3>3, <3>5, <3>7, <3>8 DEF Settle, JobsTypeOK, Producer
  <2> QED BY <2>1, <2>2
<1>c. ASSUME NEW w \in Wait, NEW j \in Job, NEW new, NEW call,
             job' = [job EXCEPT ![j] = new], new \in TrackedTask,
             new.status = job[j].status,
             wait' = [wait EXCEPT ![w] = call], call \in WaitCall,
             told' \subseteq told \union {j},
             UNCHANGED <<store, producer, owner, ownerCleanups, drained, service,
                         controller, announced, suppressed>>
      PROVE  JobsTypeOK'
  <2>1. job' \in [Job -> TrackedTask] /\ wait' \in [Wait -> WaitCall]
    BY <1>c DEF JobsTypeOK
  <2>2. \A k \in Job : job'[k].status = job[k].status
    BY <1>c DEF JobsTypeOK
  <2>3. store' \subseteq {k \in Job : job'[k].status # "none"}
    BY <1>c, <2>2 DEF JobsTypeOK
  <2> QED BY <1>c, <2>1, <2>3 DEF JobsTypeOK
<1>6. ASSUME NEW w \in Wait, NEW j \in Job, BeginWait(w, j)
      PROVE  JobsTypeOK'
  <2> DEFINE new == [job[j] EXCEPT !.waiters = @ + 1]
  <2>1. job' = [job EXCEPT ![j] = new]
    BY <1>6 DEF BeginWait
  <2>2. new \in TrackedTask /\ new.status = job[j].status
    <3>1. job'[j].waiters = job[j].waiters + 1
      BY <1>a, <2>1 DEF JobsTypeOK, TrackedTask
    <3> QED BY <1>a, <3>1 DEF TrackedTask
  <2>3. [at |-> "pending", job |-> j, counted |-> TRUE] \in WaitCall
    BY DEF WaitCall
  <2> HIDE DEF new
  <2> QED BY <1>6, <1>c, <2>1, <2>2, <2>3 DEF BeginWait
<1>7. ASSUME NEW w \in Wait, Expire(w)
      PROVE  JobsTypeOK'
  <2>1. [wait[w] EXCEPT !.at = "expired"] \in WaitCall
    BY DEF JobsTypeOK, WaitCall
  <2> QED BY <1>7, <2>1 DEF Expire, JobsTypeOK
<1>8. ASSUME NEW w \in Wait, AbortWait(w)
      PROVE  JobsTypeOK'
  <2> DEFINE j == wait[w].job
             new == [job[j] EXCEPT !.waiters = @ - 1]
             call == [wait[w] EXCEPT !.at = "rejected", !.counted = FALSE]
  <2>1. j \in Job /\ call \in WaitCall
    BY DEF JobsTypeOK, WaitCall
  <2>2. job' = [job EXCEPT ![j] = new] /\ wait' = [wait EXCEPT ![w] = call]
    BY <1>8 DEF AbortWait
  <2>3. new \in TrackedTask /\ new.status = job[j].status
    <3>1. job'[j].waiters = job[j].waiters - 1
      BY <1>a, <2>1, <2>2 DEF JobsTypeOK, TrackedTask
    <3> QED BY <1>a, <2>1, <3>1 DEF TrackedTask
  <2> HIDE DEF new, call, j
  <2>4. told' = told
        /\ UNCHANGED <<store, producer, owner, ownerCleanups, drained, service,
                       controller, announced, suppressed>>
    BY <1>8 DEF AbortWait
  <2> QED BY <1>c, <2>1, <2>2, <2>3, <2>4
<1>9. ASSUME NEW w \in Wait, WaitResumes(w)
      PROVE  JobsTypeOK'
  <2> DEFINE j == wait[w].job
             over == wait[w].at # "rejected" /\ isTerminal(j)
             count == IF wait[w].counted THEN job[j].waiters - 1 ELSE job[j].waiters
             new == [job[j] EXCEPT !.waiters = count, !.reported = @ \/ over]
             call == [at |-> "none", job |-> CHOOSE k \in Job : TRUE, counted |-> FALSE]
  <2>1. j \in Job /\ call \in WaitCall
    BY <1>b DEF JobsTypeOK, WaitCall
  <2>2. job' = [job EXCEPT ![j] = new] /\ wait' = [wait EXCEPT ![w] = call]
    BY <1>9 DEF WaitResumes
  <2>3. new \in TrackedTask /\ new.status = job[j].status
    <3>1. count \in 0 .. Cardinality(Wait)
      <4>1. job'[j].waiters = count
        BY <1>a, <2>1, <2>2 DEF JobsTypeOK, TrackedTask
      <4> QED BY <1>a, <2>1, <4>1
    <3>2. (job[j].reported \/ over) \in BOOLEAN
      OBVIOUS
    <3> HIDE DEF over, count
    <3> QED BY <1>a, <2>1, <3>1, <3>2 DEF TrackedTask
  <2>4. told' \subseteq told \union {j}
    BY <1>9 DEF WaitResumes
  <2> HIDE DEF new, call, j
  <2>5. UNCHANGED <<store, producer, owner, ownerCleanups, drained, service,
                    controller, announced, suppressed>>
    BY <1>9 DEF WaitResumes
  <2> QED BY <1>c, <2>1, <2>2, <2>3, <2>4, <2>5
<1>10. ASSUME NEW o \in Owner, OwnerDrained(o)
       PROVE  JobsTypeOK'
  BY <1>10 DEF OwnerDrained, JobsTypeOK
<1>d. ASSUME NEW jobs \in SUBSET Job, NEW throwing, NEW closed,
             cancelForTeardown(jobs, throwing, closed)
      PROVE  /\ job' \in [Job -> TrackedTask] /\ producer' \in [Job -> Producer]
             /\ wait' \in [Wait -> WaitCall]
             /\ announced' \subseteq Job /\ suppressed' \subseteq Job
             /\ \A k \in Job : job[k].status # "none" => job'[k].status # "none"
  <2>1. throwing \subseteq {k \in jobs : isLive(k)}
    BY <1>d DEF cancelForTeardown
  <2>2. ASSUME NEW k \in Job
        PROVE  /\ Settled([job[k] EXCEPT !.reported = TRUE], "failed") \in TrackedTask
               /\ [job[k] EXCEPT !.status = "stopping", !.reported = TRUE] \in TrackedTask
    BY <1>a DEF Settled, TrackedTask, Live, Terminal
  <2>3. job' \in [Job -> TrackedTask]
    BY <1>a, <1>d, <2>2 DEF cancelForTeardown
  <2>4. producer' \in [Job -> Producer]
    BY <1>d DEF cancelForTeardown, Tell, JobsTypeOK, Producer
  <2>5. wait' \in [Wait -> WaitCall]
    BY <1>d, CancelEffect, Released
  <2>6. announced' \subseteq Job /\ suppressed' \subseteq Job
    <3>1. announced' = announced
          /\ suppressed' \subseteq suppressed \union {k \in throwing : job[k].waiters > 0}
      BY <1>d, CancelEffect
    <3>2. announced \subseteq Job /\ suppressed \subseteq Job /\ throwing \subseteq Job
      BY <2>1 DEF JobsTypeOK
    <3> QED BY <3>1, <3>2
  <2>7. ASSUME NEW k \in Job, job[k].status # "none"
        PROVE  job'[k].status # "none"
    BY <1>d, <2>7, CancelEffect
  <2> QED BY <2>3, <2>4, <2>5, <2>6, <2>7
<1>11. ASSUME NEW throwing \in SUBSET Job, DisposeService(throwing)
       PROVE  JobsTypeOK'
  <2>1. cancelForTeardown(store, throwing, TRUE) /\ store \in SUBSET Job
    BY <1>11 DEF DisposeService, JobsTypeOK
  <2> QED BY <1>11, <1>d, <2>1 DEF DisposeService, JobsTypeOK
<1>12. ASSUME NEW o \in Owner, NEW throwing \in SUBSET Job, DisposeOwner(o, throwing)
       PROVE  JobsTypeOK'
  <2>1. CASE o \in ownerCleanups
    <3>1. cancelForTeardown(OwnedBy(o), throwing, service # "up") /\ OwnedBy(o) \in SUBSET Job
      BY <1>12, <2>1 DEF DisposeOwner, OwnedBy, JobsTypeOK
    <3> QED BY <1>12, <1>d, <2>1, <3>1 DEF DisposeOwner, JobsTypeOK
  <2>2. CASE o \notin ownerCleanups
    BY <1>12, <2>2 DEF DisposeOwner, JobsTypeOK
  <2> QED BY <2>1, <2>2
<1>13. CASE ServiceDrained
  BY <1>13 DEF ServiceDrained, JobsTypeOK
<1>14. CASE ToggleController
  BY <1>14 DEF ToggleController, JobsTypeOK
<1>15. CASE UNCHANGED jobVars
  BY <1>15 DEF jobVars, JobsTypeOK
<1> QED BY <1>1, <1>2, <1>3, <1>4, <1>5, <1>6, <1>7, <1>8, <1>9, <1>10, <1>11, <1>12,
           <1>13, <1>14, <1>15 DEF JobsNext, JobStep, WaitStep, Teardown

\* A job that ended has ended: its status is final, no record loses its report, and
\* a job that was started keeps its owner (jobs-local index.ts settle, which records
\* the first outcome only).
LEMMA RecordsMove ==
  ASSUME IInv, [JobsNext]_jobVars, NEW k \in Job
  PROVE  /\ isTerminal(k) => job'[k].status = job[k].status
         /\ job[k].reported => job'[k].reported
         /\ job[k].status # "none" => job'[k].owner = job[k].owner
         /\ job'[k].status = "none" =>
              job[k].status = "none" /\ job'[k].owner = job[k].owner
<1> DEFINE Moves == /\ isTerminal(k) => job'[k].status = job[k].status
                    /\ job[k].reported => job'[k].reported
                    /\ job[k].status # "none" => job'[k].owner = job[k].owner
                    /\ job'[k].status = "none" =>
                         job[k].status = "none" /\ job'[k].owner = job[k].owner
<1> SUFFICES Moves
  OBVIOUS
<1> USE DEF IInv
<1>0. job[k] \in TrackedTask /\ JobsTypeOK
  BY DEF JobsTypeOK
<1>a. ASSUME UNCHANGED job PROVE Moves
  BY <1>a
<1>1. ASSUME NEW j \in Job, NEW o \in Owner \union {Nobody}, start(j, o)
      PROVE  Moves
  BY <1>0, <1>1 DEF start, JobsTypeOK, TrackedTask, isTerminal, Terminal
<1>2. ASSUME NEW j \in Job, read(j)
      PROVE  Moves
  BY <1>0, <1>2 DEF read, JobsTypeOK, TrackedTask, isTerminal, Terminal
<1>3. ASSUME NEW j \in Job, kill(j)
      PROVE  Moves
  BY <1>0, <1>3 DEF kill, JobsTypeOK, TrackedTask, isTerminal, isLive, Live, Terminal
<1>4. ASSUME NEW j \in Job, Release(j)
      PROVE  Moves
  BY <1>4, <1>a DEF Release
<1>5. ASSUME NEW j \in Job, Settle(j)
      PROVE  Moves
  <2>1. CASE isTerminal(j)
    BY <1>5, <1>a, <2>1 DEF Settle
  <2>2. CASE ~isTerminal(j)
    BY <1>5, <2>2, SettleEffect
  <2> QED BY <2>1, <2>2
<1>6. ASSUME NEW w \in Wait, NEW j \in Job, BeginWait(w, j)
      PROVE  Moves
  BY <1>0, <1>6 DEF BeginWait, JobsTypeOK, TrackedTask, isLive, Live
<1>7. ASSUME NEW w \in Wait, Expire(w)
      PROVE  Moves
  BY <1>7, <1>a DEF Expire
<1>8. ASSUME NEW w \in Wait, AbortWait(w)
      PROVE  Moves
  BY <1>0, <1>8 DEF AbortWait, JobsTypeOK, TrackedTask
<1>9. ASSUME NEW w \in Wait, WaitResumes(w)
      PROVE  Moves
  BY <1>0, <1>9 DEF WaitResumes, JobsTypeOK, TrackedTask
<1>10. ASSUME NEW o \in Owner, OwnerDrained(o)
       PROVE  Moves
  BY <1>10, <1>a DEF OwnerDrained
<1>b. ASSUME NEW jobs \in SUBSET Job, NEW throwing, NEW closed,
             cancelForTeardown(jobs, throwing, closed)
      PROVE  Moves
  BY <1>b, CancelEffect DEF isLive, isTerminal, Live, Terminal
<1>11. ASSUME NEW throwing \in SUBSET Job, DisposeService(throwing)
       PROVE  Moves
  BY <1>11, <1>b DEF DisposeService, JobsTypeOK
<1>12. ASSUME NEW o \in Owner, NEW throwing \in SUBSET Job, DisposeOwner(o, throwing)
       PROVE  Moves
  <2>1. OwnedBy(o) \in SUBSET Job
    BY DEF OwnedBy, JobsTypeOK
  <2> QED BY <1>12, <1>a, <1>b, <2>1 DEF DisposeOwner
<1>13. CASE ServiceDrained
  BY <1>13, <1>a DEF ServiceDrained
<1>14. CASE ToggleController
  BY <1>14, <1>a DEF ToggleController
<1>15. CASE UNCHANGED jobVars
  BY <1>15, <1>a DEF jobVars
<1> QED BY <1>1, <1>2, <1>3, <1>4, <1>5, <1>6, <1>7, <1>8, <1>9, <1>10, <1>11, <1>12,
           <1>13, <1>14, <1>15 DEF JobsNext, JobStep, WaitStep, Teardown

\* Every step keeps what is said of ended jobs: one is announced only when nobody
\* waits, and a notice is withheld only for a wait() that will return the end
\* (jobs-local index.ts settle, wait).
LEMMA EndsStep == IInv /\ [JobsNext]_jobVars => EndsAtPlace'
<1> SUFFICES ASSUME IInv, [JobsNext]_jobVars
             PROVE  EndsAtPlace'
  OBVIOUS
<1>0. JobsTypeOK /\ WaitsAtPlace /\ EndsAtPlace
  BY DEF IInv
<1>a. ASSUME NEW w \in Wait
      PROVE  /\ wait[w].counted \in BOOLEAN /\ wait[w].job \in Job
             /\ wait[w].at \in {"none", "pending", "released", "expired", "rejected"}
             /\ wait[w].counted <=> wait[w].at \in {"pending", "released", "expired"}
  BY <1>0 DEF JobsTypeOK, WaitCall, WaitsAtPlace
<1>b. ASSUME NEW k \in Job, isTerminal(k)
      PROVE  isTerminal(k)'
  BY <1>b, RecordsMove DEF isTerminal
<1>c. announced \subseteq Job /\ suppressed \subseteq Job /\ told \subseteq Job
  BY <1>0 DEF JobsTypeOK
<1>d. ASSUME \A w \in Wait :
               /\ wait'[w].job = wait[w].job
               /\ wait'[w].counted => wait[w].counted
               /\ wait[w].at \in {"released", "expired"}
                    => wait'[w].at \in {"released", "expired"},
             UNCHANGED <<announced, suppressed, told>>
      PROVE  EndsAtPlace'
  <2>1. \A k \in announced \union suppressed \union told : isTerminal(k)'
    BY <1>0, <1>b, <1>c DEF EndsAtPlace
  <2>2. ASSUME NEW k \in announced
        PROVE  Counted(k)' = {}
    BY <1>0, <1>d DEF Counted, EndsAtPlace
  <2>3. ASSUME NEW k \in suppressed \ told
        PROVE  \E w \in Wait : wait'[w].job = k /\ wait'[w].at \in {"released", "expired"}
    BY <1>0, <1>d DEF EndsAtPlace
  <2> QED BY <1>0, <1>d, <2>1, <2>2, <2>3 DEF EndsAtPlace
<1>e. ASSUME UNCHANGED wait, UNCHANGED <<announced, suppressed, told>>
      PROVE  EndsAtPlace'
  BY <1>d, <1>e
<1>f. ASSUME NEW set \in SUBSET Job, Releases(set), \A k \in set : isTerminal(k)',
             \A k \in set : ~isTerminal(k),
             announced' \subseteq announced \union {k \in set : job[k].waiters = 0},
             suppressed' \subseteq suppressed \union {k \in set : job[k].waiters > 0},
             told' = told
      PROVE  EndsAtPlace'
  <2>1. \A w \in Wait :
          /\ wait'[w].job = wait[w].job /\ wait'[w].counted = wait[w].counted
          /\ wait'[w].at = IF wait[w].job \in set /\ wait[w].at = "pending"
                           THEN "released" ELSE wait[w].at
    BY <1>0, <1>f, Released
  <2>2. \A k \in announced' \union suppressed' \union told' : isTerminal(k)'
    BY <1>0, <1>b, <1>c, <1>f DEF EndsAtPlace
  <2>3. ASSUME NEW k \in announced'
        PROVE  k \notin told' /\ Counted(k)' = {}
    <3>1. Counted(k)' = Counted(k)
      BY <2>1 DEF Counted
    <3>2. CASE k \in announced
      BY <1>0, <1>f, <3>1, <3>2 DEF EndsAtPlace
    <3>3. CASE k \notin announced
      <4>1. k \in set /\ job[k].waiters = 0 /\ ~isTerminal(k)
        BY <1>f, <3>3
      <4>2. Cardinality(Counted(k)) = 0
        BY <1>0, <4>1 DEF WaitsAtPlace
      <4>3. Counted(k) = {}
        BY <4>2, CountedFinite, FS_EmptySet
      <4> QED BY <1>0, <1>f, <3>1, <4>1, <4>3 DEF EndsAtPlace
    <3> QED BY <3>2, <3>3
  <2>4. ASSUME NEW k \in suppressed' \ told'
        PROVE  \E w \in Wait : wait'[w].job = k /\ wait'[w].at \in {"released", "expired"}
    <3>1. CASE k \in suppressed
      BY <1>0, <1>f, <2>1, <2>4, <3>1 DEF EndsAtPlace
    <3>2. CASE k \notin suppressed
      <4>1. k \in set /\ job[k].waiters > 0
        BY <1>f, <2>4, <3>2
      <4>2. Cardinality(Counted(k)) > 0
        BY <1>0, <4>1 DEF WaitsAtPlace
      <4>3. Counted(k) # {}
        BY <4>2, FS_EmptySet
      <4>4. PICK w \in Wait : wait[w].job = k /\ wait[w].counted
        BY <4>3 DEF Counted
      <4> QED BY <1>a, <2>1, <4>1, <4>4
    <3> QED BY <3>1, <3>2
  <2> QED BY <2>2, <2>3, <2>4 DEF EndsAtPlace
<1>1. ASSUME NEW j \in Job, NEW o \in Owner \union {Nobody}, start(j, o)
      PROVE  EndsAtPlace'
  BY <1>1, <1>e DEF start
<1>2. ASSUME NEW j \in Job, read(j)
      PROVE  EndsAtPlace'
  BY <1>2, <1>e DEF read
<1>3. ASSUME NEW j \in Job, kill(j)
      PROVE  EndsAtPlace'
  BY <1>3, <1>e DEF kill
<1>4. ASSUME NEW j \in Job, Release(j)
      PROVE  EndsAtPlace'
  BY <1>4, <1>e DEF Release
<1>5. ASSUME NEW j \in Job, Settle(j)
      PROVE  EndsAtPlace'
  <2>1. CASE isTerminal(j)
    BY <1>5, <1>e, <2>1 DEF Settle
  <2>2. CASE ~isTerminal(j)
    <3>1. /\ Releases({j}) /\ job'[j].status = "completed" /\ told' = told
          /\ announced' \subseteq announced \union {j}
          /\ j \in announced' \ announced => job[j].waiters = 0
          /\ suppressed' \subseteq suppressed \union {j}
          /\ j \in suppressed' \ suppressed => job[j].waiters > 0
      BY <1>0, <1>5, <2>2, SettleEffect DEF Settle
    <3>2. isTerminal(j)'
      BY <3>1 DEF isTerminal, Terminal
    <3>3. announced' \subseteq announced \union {k \in {j} : job[k].waiters = 0}
      BY <3>1
    <3>4. suppressed' \subseteq suppressed \union {k \in {j} : job[k].waiters > 0}
      BY <3>1
    <3> QED BY <1>f, <2>2, <3>1, <3>2, <3>3, <3>4
  <2> QED BY <2>1, <2>2
<1>6. ASSUME NEW w \in Wait, NEW j \in Job, BeginWait(w, j)
      PROVE  EndsAtPlace'
  <2>1. /\ \A v \in Wait : v # w => wait'[v] = wait[v]
        /\ wait'[w].job = j /\ wait[w].at = "none" /\ ~isTerminal(j)
        /\ UNCHANGED <<announced, suppressed, told>>
    BY <1>0, <1>6 DEF BeginWait, JobsTypeOK, isLive, isTerminal, Live, Terminal
  <2>2. \A k \in announced \union suppressed \union told : isTerminal(k)'
    BY <1>0, <1>b, <1>c DEF EndsAtPlace
  <2>3. ASSUME NEW k \in announced
        PROVE  Counted(k)' = {}
    <3>1. k # j
      BY <1>0, <2>1 DEF EndsAtPlace
    <3> QED BY <1>0, <2>1, <3>1 DEF Counted, EndsAtPlace
  <2>4. ASSUME NEW k \in suppressed \ told
        PROVE  \E v \in Wait : wait'[v].job = k /\ wait'[v].at \in {"released", "expired"}
    BY <1>0, <2>1 DEF EndsAtPlace
  <2> QED BY <1>0, <2>1, <2>2, <2>3, <2>4 DEF EndsAtPlace
<1>7. ASSUME NEW w \in Wait, Expire(w)
      PROVE  EndsAtPlace'
  <2>1. ASSUME NEW v \in Wait
        PROVE  /\ wait'[v].job = wait[v].job
               /\ wait'[v].counted => wait[v].counted
               /\ wait[v].at \in {"released", "expired"}
                    => wait'[v].at \in {"released", "expired"}
    <3>1. wait[v] \in WaitCall
      BY <1>0 DEF JobsTypeOK
    <3> QED BY <1>0, <1>7, <3>1 DEF Expire, JobsTypeOK, WaitCall
  <2> QED BY <1>7, <1>d, <2>1 DEF Expire
<1>8. ASSUME NEW w \in Wait, AbortWait(w)
      PROVE  EndsAtPlace'
  <2>1. ASSUME NEW v \in Wait
        PROVE  /\ wait'[v].job = wait[v].job
               /\ wait'[v].counted => wait[v].counted
               /\ wait[v].at \in {"released", "expired"}
                    => wait'[v].at \in {"released", "expired"}
    <3>1. wait[v] \in WaitCall
      BY <1>0 DEF JobsTypeOK
    <3> QED BY <1>0, <1>8, <3>1 DEF AbortWait, JobsTypeOK, WaitCall
  <2> QED BY <1>8, <1>d, <2>1 DEF AbortWait
<1>9. ASSUME NEW w \in Wait, WaitResumes(w)
      PROVE  EndsAtPlace'
  <2> DEFINE j == wait[w].job
  <2>1. /\ \A v \in Wait : v # w => wait'[v] = wait[v]
        /\ ~wait'[w].counted
        /\ UNCHANGED <<announced, suppressed>>
    BY <1>0, <1>9 DEF WaitResumes, JobsTypeOK
  <2>2. /\ wait[w].at \in {"released", "expired", "rejected"} /\ j \in Job
        /\ told' = IF wait[w].at # "rejected" /\ isTerminal(j) THEN told \union {j} ELSE told
    BY <1>a, <1>9 DEF WaitResumes
  <2>3. \A k \in announced' \union suppressed' \union told' : isTerminal(k)'
    BY <1>0, <1>b, <1>c, <2>1, <2>2 DEF EndsAtPlace
  <2>4. ASSUME NEW k \in announced
        PROVE  k \notin told' /\ Counted(k)' = {}
    <3>1. k \notin told /\ Counted(k) = {}
      BY <1>0 DEF EndsAtPlace
    <3>2. k = j => ~wait[w].counted
      BY <3>1 DEF Counted
    <3>3. k \notin told'
      BY <1>a, <2>2, <3>1, <3>2
    <3>4. Counted(k)' = {}
      BY <2>1, <3>1 DEF Counted
    <3> QED BY <3>3, <3>4
  <2>5. ASSUME NEW k \in suppressed \ told'
        PROVE  \E v \in Wait : wait'[v].job = k /\ wait'[v].at \in {"released", "expired"}
    <3>1. k \notin told /\ isTerminal(k)
      BY <1>0, <2>2, <2>5 DEF EndsAtPlace
    <3>2. PICK v \in Wait : wait[v].job = k /\ wait[v].at \in {"released", "expired"}
      BY <1>0, <2>5, <3>1 DEF EndsAtPlace
    <3>3. v # w
      BY <2>2, <2>5, <3>1, <3>2
    <3> QED BY <2>1, <3>2, <3>3
  <2> QED BY <2>1, <2>3, <2>4, <2>5 DEF EndsAtPlace
<1>10. ASSUME NEW o \in Owner, OwnerDrained(o)
       PROVE  EndsAtPlace'
  BY <1>10, <1>e DEF OwnerDrained
<1>g. ASSUME NEW jobs \in SUBSET Job, NEW throwing \in SUBSET Job, NEW closed,
             cancelForTeardown(jobs, throwing, closed), told' = told
      PROVE  EndsAtPlace'
  <2>1. /\ throwing \subseteq {k \in jobs : isLive(k)}
        /\ \A k \in Job : k \in throwing => job'[k].status = "failed"
        /\ Releases(throwing) /\ announced' = announced
        /\ suppressed' \subseteq suppressed \union {k \in throwing : job[k].waiters > 0}
    BY <1>0, <1>g, CancelEffect
  <2>2. \A k \in throwing : isTerminal(k)' /\ ~isTerminal(k)
    BY <2>1 DEF isLive, isTerminal, Live, Terminal
  <2> QED BY <1>f, <1>g, <2>1, <2>2
<1>11. ASSUME NEW throwing \in SUBSET Job, DisposeService(throwing)
       PROVE  EndsAtPlace'
  BY <1>0, <1>11, <1>g DEF DisposeService, JobsTypeOK
<1>12. ASSUME NEW o \in Owner, NEW throwing \in SUBSET Job, DisposeOwner(o, throwing)
       PROVE  EndsAtPlace'
  <2>1. OwnedBy(o) \in SUBSET Job
    BY <1>0 DEF OwnedBy, JobsTypeOK
  <2> QED BY <1>12, <1>e, <1>g, <2>1 DEF DisposeOwner
<1>13. CASE ServiceDrained
  BY <1>13, <1>e DEF ServiceDrained
<1>14. CASE ToggleController
  BY <1>14, <1>e DEF ToggleController
<1>15. CASE UNCHANGED jobVars
  BY <1>15, <1>e DEF jobVars
<1> QED BY <1>1, <1>2, <1>3, <1>4, <1>5, <1>6, <1>7, <1>8, <1>9, <1>10, <1>11, <1>12,
           <1>13, <1>14, <1>15 DEF JobsNext, JobStep, WaitStep, Teardown

\* Every step keeps a record and the work behind it together: a settlement by the
\* producer comes after it is done, and only settled jobs leave the registry
\* (jobs-local index.ts start, settle, cancelForTeardown, disposeOwned).
LEMMA JobsStep == IInv /\ [JobsNext]_jobVars => JobsAtPlace'
<1> SUFFICES ASSUME IInv, [JobsNext]_jobVars, NEW k \in Job
             PROVE  /\ job'[k].status = "none" <=> producer'[k] = "none"
                    /\ job'[k].status = "none" => job'[k].owner = Nobody
                    /\ isLive(k)' => k \in store'
                    /\ isTerminal(k)' /\ producer'[k] \in {"working", "told"}
                         => job'[k].status = "failed"
  BY DEF JobsAtPlace
<1> DEFINE Kept == /\ job'[k].status = "none" <=> producer'[k] = "none"
                   /\ job'[k].status = "none" => job'[k].owner = Nobody
                   /\ isLive(k)' => k \in store'
                   /\ isTerminal(k)' /\ producer'[k] \in {"working", "told"}
                        => job'[k].status = "failed"
<1> SUFFICES Kept
  OBVIOUS
<1>0. /\ JobsTypeOK /\ job[k] \in TrackedTask
      /\ job[k].status = "none" <=> producer[k] = "none"
      /\ job[k].status = "none" => job[k].owner = Nobody
      /\ isLive(k) => k \in store
      /\ isTerminal(k) /\ producer[k] \in {"working", "told"} => job[k].status = "failed"
  BY DEF IInv, JobsTypeOK, JobsAtPlace
<1>a. ASSUME job'[k].status = job[k].status, job'[k].owner = job[k].owner,
             producer'[k] = producer[k], k \in store => k \in store' \/ ~isLive(k)
      PROVE  Kept
  BY <1>0, <1>a DEF isLive, isTerminal
<1>1. ASSUME NEW j \in Job, NEW o \in Owner \union {Nobody}, start(j, o)
      PROVE  Kept
  <2>1. CASE activeTaskCount(o) >= Limit
    BY <1>1, <1>a, <2>1 DEF start
  <2>2. CASE ~(activeTaskCount(o) >= Limit) /\ k = j
    <3>1. job'[k].status = "running" /\ producer'[k] = "working" /\ k \in store'
      BY <1>0, <1>1, <2>2 DEF start, JobsTypeOK, TrackedTask
    <3> QED BY <3>1 DEF isTerminal, Terminal
  <2>3. CASE ~(activeTaskCount(o) >= Limit) /\ k # j
    <3>1. job'[k] = job[k] /\ producer'[k] = producer[k] /\ store \subseteq store'
      BY <1>0, <1>1, <2>3 DEF start, JobsTypeOK
    <3> QED BY <1>a, <3>1
  <2> QED BY <2>1, <2>2, <2>3
<1>2. ASSUME NEW j \in Job, read(j)
      PROVE  Kept
  BY <1>0, <1>2, <1>a, ReadEffect DEF read
<1>3. ASSUME NEW j \in Job, kill(j)
      PROVE  Kept
  <2>0. /\ job'[k].status = (IF k = j THEN "stopping" ELSE job[k].status)
        /\ job'[k].owner = job[k].owner
        /\ producer'[k] = (IF k = j /\ producer[j] = "working" THEN "told" ELSE producer[k])
    BY <1>0, <1>3, KillEffect
  <2>1. CASE k = j
    <3>1. /\ job'[k].status = "stopping" /\ k \in store'
          /\ producer'[k] = IF producer[k] = "working" THEN "told" ELSE producer[k]
      BY <1>3, <2>0, <2>1 DEF kill
    <3>2. job[k].status # "none"
      BY <1>3, <2>1 DEF kill, isLive, Live
    <3> QED BY <1>0, <3>1, <3>2 DEF isTerminal, Terminal
  <2>2. CASE k # j
    <3>1. job'[k].status = job[k].status /\ job'[k].owner = job[k].owner
          /\ producer'[k] = producer[k] /\ store' = store
      BY <1>3, <2>0, <2>2 DEF kill
    <3> QED BY <1>a, <3>1
  <2> QED BY <2>1, <2>2
<1>4. ASSUME NEW j \in Job, Release(j)
      PROVE  Kept
  <2>1. /\ job' = job /\ store' = store
        /\ producer'[k] = IF k = j THEN "released" ELSE producer[k]
        /\ k = j => producer[k] # "none"
    BY <1>0, <1>4 DEF Release, JobsTypeOK
  <2> QED BY <1>0, <2>1 DEF isLive, isTerminal
<1>5. ASSUME NEW j \in Job, Settle(j)
      PROVE  Kept
  <2>1. /\ producer[j] = "released" /\ store' = store
        /\ producer'[k] = IF k = j THEN "over" ELSE producer[k]
    BY <1>0, <1>5 DEF Settle, JobsTypeOK
  <2>2. CASE isTerminal(j)
    <3>1. job' = job
      BY <1>5, <2>2 DEF Settle
    <3> QED BY <1>0, <2>1, <3>1 DEF isLive, isTerminal
  <2>3. CASE ~isTerminal(j)
    <3>1. job'[k] = job[k] \/ (k = j /\ job'[k].status = "completed")
      BY <1>0, <1>5, <2>3, SettleEffect
    <3>2. CASE job'[k] = job[k]
      BY <1>0, <2>1, <3>2 DEF isLive, isTerminal
    <3>3. CASE k = j /\ job'[k].status = "completed"
      BY <2>1, <3>3 DEF isLive, Live
    <3> QED BY <3>1, <3>2, <3>3
  <2> QED BY <2>2, <2>3
<1>6. ASSUME NEW w \in Wait, NEW j \in Job, BeginWait(w, j)
      PROVE  Kept
  <2>1. job'[k].status = job[k].status /\ job'[k].owner = job[k].owner
    BY <1>0, <1>6, WaitEffect
  <2> QED BY <1>6, <1>a, <2>1 DEF BeginWait
<1>7. ASSUME NEW w \in Wait, Expire(w)
      PROVE  Kept
  BY <1>7, <1>a DEF Expire
<1>8. ASSUME NEW w \in Wait, AbortWait(w)
      PROVE  Kept
  <2>1. wait[w].job \in Job
    BY <1>0 DEF JobsTypeOK, WaitCall
  <2>2. job'[k].status = job[k].status /\ job'[k].owner = job[k].owner
    BY <1>0, <1>8, <2>1, WaitEffect
  <2> QED BY <1>8, <1>a, <2>2 DEF AbortWait
<1>9. ASSUME NEW w \in Wait, WaitResumes(w)
      PROVE  Kept
  <2>1. wait[w].job \in Job
    BY <1>0 DEF JobsTypeOK, WaitCall
  <2>2. job'[k].status = job[k].status /\ job'[k].owner = job[k].owner
    BY <1>0, <1>9, <2>1, WaitEffect
  <2> QED BY <1>9, <1>a, <2>2 DEF WaitResumes
<1>10. ASSUME NEW o \in Owner, OwnerDrained(o)
       PROVE  Kept
  <2>1. k \in store => k \in store' \/ ~isLive(k)
    BY <1>10 DEF OwnerDrained, isLive, isTerminal, Live, Terminal
  <2> QED BY <1>10, <1>a, <2>1 DEF OwnerDrained
<1>b. ASSUME NEW jobs \in SUBSET Job, NEW throwing, NEW closed,
             cancelForTeardown(jobs, throwing, closed), store' = store
      PROVE  Kept
  <2>1. /\ throwing \subseteq {i \in jobs : isLive(i)}
        /\ job'[k].owner = job[k].owner
        /\ k \in throwing => job'[k].status = "failed"
        /\ k \in jobs \ throwing /\ isLive(k) => job'[k].status = "stopping"
        /\ k \notin jobs \/ ~isLive(k) => job'[k] = job[k]
        /\ producer'[k] = IF k \in jobs \ throwing /\ isLive(k) /\ producer[k] = "working"
                          THEN "told" ELSE producer[k]
    <3>1. throwing \subseteq {i \in jobs : isLive(i)}
      BY <1>b DEF cancelForTeardown
    <3>2. JobsTypeOK /\ cancelForTeardown(jobs, throwing, closed)
      BY <1>0, <1>b
    <3> QED BY <3>1, <3>2, CancelEffect
  <2>2. CASE k \in throwing
    <3>1. isLive(k) /\ producer'[k] = producer[k]
      BY <2>1, <2>2
    <3> QED BY <1>0, <2>1, <2>2, <3>1 DEF isLive, Live
  <2>3. CASE k \in jobs \ throwing /\ isLive(k)
    <3>1. job'[k].status = "stopping" /\ producer[k] # "none" /\ k \in store
      BY <1>0, <2>1, <2>3 DEF isLive, Live
    <3>2. producer'[k] # "none"
      BY <2>1, <3>1
    <3> QED BY <1>b, <3>1, <3>2 DEF isTerminal, Terminal
  <2>4. CASE k \notin jobs \/ ~isLive(k)
    BY <1>a, <1>b, <2>1, <2>4
  <2> QED BY <2>2, <2>3, <2>4
<1>11. ASSUME NEW throwing \in SUBSET Job, DisposeService(throwing)
       PROVE  Kept
  BY <1>0, <1>11, <1>b DEF DisposeService, JobsTypeOK
<1>12. ASSUME NEW o \in Owner, NEW throwing \in SUBSET Job, DisposeOwner(o, throwing)
       PROVE  Kept
  <2>1. OwnedBy(o) \in SUBSET Job /\ store' = store
    BY <1>0, <1>12 DEF OwnedBy, DisposeOwner, JobsTypeOK
  <2>2. CASE o \in ownerCleanups
    BY <1>12, <1>b, <2>1, <2>2 DEF DisposeOwner
  <2>3. CASE o \notin ownerCleanups
    BY <1>12, <1>a, <2>1, <2>3 DEF DisposeOwner
  <2> QED BY <2>2, <2>3
<1>13. CASE ServiceDrained
  <2>1. k \in store => ~isLive(k)
    BY <1>13 DEF ServiceDrained, isLive, isTerminal, Live, Terminal
  <2> QED BY <1>13, <1>a, <2>1 DEF ServiceDrained
<1>14. CASE ToggleController
  BY <1>14, <1>a DEF ToggleController
<1>15. CASE UNCHANGED jobVars
  BY <1>15, <1>a DEF jobVars
<1> QED BY <1>1, <1>2, <1>3, <1>4, <1>5, <1>6, <1>7, <1>8, <1>9, <1>10, <1>11, <1>12,
           <1>13, <1>14, <1>15 DEF JobsNext, JobStep, WaitStep, Teardown

\* Every step keeps what an owner has: nothing is started for one that is being
\* disposed of, and its drain waits for all it owned (jobs-local index.ts start,
\* disposeOwned).
LEMMA OwnersStep == IInv /\ [JobsNext]_jobVars => OwnersAtPlace'
<1> SUFFICES ASSUME IInv, [JobsNext]_jobVars
             PROVE  OwnersAtPlace'
  OBVIOUS
<1>0. JobsTypeOK /\ OwnersAtPlace
  BY DEF IInv
<1>a. ASSUME NEW k \in store
      PROVE  /\ k \in Job /\ job[k].status # "none" /\ job'[k].owner = job[k].owner
             /\ job[k].reported => job'[k].reported
             /\ isLive(k)' => isLive(k)
  <2>1. k \in Job /\ job[k].status # "none" /\ job[k] \in TrackedTask
    BY <1>0, <1>a DEF JobsTypeOK
  <2>2. isTerminal(k) => job'[k].status = job[k].status
    BY <2>1, RecordsMove
  <2>3. isLive(k) \/ isTerminal(k)
    BY <2>1 DEF TrackedTask, isLive, isTerminal
  <2>4. isLive(k)' => isLive(k)
    BY <2>2, <2>3 DEF isLive, isTerminal, Live, Terminal
  <2> QED BY <2>1, <2>4, RecordsMove
<1>b. ASSUME store' \subseteq store, UNCHANGED <<owner, drained>>,
             ownerCleanups \subseteq ownerCleanups'
      PROVE  OwnersAtPlace'
  <2>1. ASSUME NEW k \in store', job'[k].owner \in Owner
        PROVE  CASE owner'[job'[k].owner] = "live"     -> job'[k].owner \in ownerCleanups'
                 [] owner'[job'[k].owner] = "draining" -> k \in drained'[job'[k].owner]
                 [] owner'[job'[k].owner] = "gone"     -> FALSE
    <3>1. k \in store /\ job'[k].owner = job[k].owner
      BY <1>a, <1>b, <2>1
    <3>2. owner[job[k].owner] \in {"live", "draining", "gone"}
      BY <1>0, <2>1, <3>1 DEF JobsTypeOK
    <3> QED BY <1>0, <1>b, <2>1, <3>1, <3>2 DEF OwnersAtPlace
  <2>2. ASSUME NEW k \in store', isLive(k)', job'[k].owner \in Owner
        PROVE  owner'[job'[k].owner] = "live" \/ job'[k].reported
    BY <1>0, <1>a, <1>b, <2>2 DEF OwnersAtPlace
  <2> QED BY <2>1, <2>2 DEF OwnersAtPlace
<1>1. ASSUME NEW j \in Job, NEW o \in Owner \union {Nobody}, start(j, o)
      PROVE  OwnersAtPlace'
  <2>1. CASE activeTaskCount(o) >= Limit
    BY <1>1, <1>b, <2>1 DEF start
  <2>2. CASE ~(activeTaskCount(o) >= Limit)
    <3>1. /\ store' = store \union {j} /\ UNCHANGED <<owner, drained>>
          /\ ownerCleanups \subseteq ownerCleanups'
          /\ o \in Owner => owner[o] = "live" /\ o \in ownerCleanups'
      BY <1>1, <2>2 DEF start
    <3>2. job'[j].owner = o
      BY <1>0, <1>1, <2>2 DEF start, JobsTypeOK, TrackedTask
    <3>3. ASSUME NEW k \in store', job'[k].owner \in Owner
          PROVE  /\ CASE owner'[job'[k].owner] = "live"     -> job'[k].owner \in ownerCleanups'
                       [] owner'[job'[k].owner] = "draining" -> k \in drained'[job'[k].owner]
                       [] owner'[job'[k].owner] = "gone"     -> FALSE
                 /\ isLive(k)' => owner'[job'[k].owner] = "live" \/ job'[k].reported
      <4>1. CASE k = j
        BY <3>1, <3>2, <3>3, <4>1
      <4>2. CASE k # j
        <5>1. k \in store /\ job'[k].owner = job[k].owner
          BY <1>a, <3>1, <4>2
        <5>2. owner[job[k].owner] \in {"live", "draining", "gone"}
          BY <1>0, <3>3, <5>1 DEF JobsTypeOK
        <5>3. isLive(k)' => owner'[job'[k].owner] = "live" \/ job'[k].reported
          BY <1>0, <1>a, <3>1, <3>3, <5>1 DEF OwnersAtPlace
        <5> QED BY <1>0, <3>1, <3>3, <5>1, <5>2, <5>3 DEF OwnersAtPlace
      <4> QED BY <4>1, <4>2
    <3> QED BY <3>3 DEF OwnersAtPlace
  <2> QED BY <2>1, <2>2
<1>2. ASSUME NEW j \in Job, read(j)
      PROVE  OwnersAtPlace'
  BY <1>2, <1>b DEF read
<1>3. ASSUME NEW j \in Job, kill(j)
      PROVE  OwnersAtPlace'
  BY <1>3, <1>b DEF kill
<1>4. ASSUME NEW j \in Job, Release(j)
      PROVE  OwnersAtPlace'
  BY <1>4, <1>b DEF Release
<1>5. ASSUME NEW j \in Job, Settle(j)
      PROVE  OwnersAtPlace'
  BY <1>5, <1>b DEF Settle
<1>6. ASSUME NEW w \in Wait, NEW j \in Job, BeginWait(w, j)
      PROVE  OwnersAtPlace'
  BY <1>6, <1>b DEF BeginWait
<1>7. ASSUME NEW w \in Wait, Expire(w)
      PROVE  OwnersAtPlace'
  BY <1>7, <1>b DEF Expire
<1>8. ASSUME NEW w \in Wait, AbortWait(w)
      PROVE  OwnersAtPlace'
  BY <1>8, <1>b DEF AbortWait
<1>9. ASSUME NEW w \in Wait, WaitResumes(w)
      PROVE  OwnersAtPlace'
  BY <1>9, <1>b DEF WaitResumes
<1>c. ASSUME NEW o \in Owner, NEW stage \in {"draining", "gone"},
             owner' = [owner EXCEPT ![o] = stage],
             store' \subseteq store,
             \A p \in Owner : p # o => drained'[p] = drained[p],
             \A p \in ownerCleanups : p # o => p \in ownerCleanups',
             \A k \in store' : job[k].owner = o =>
                                 stage = "draining" /\ k \in drained'[o],
             \A k \in store' : job[k].owner = o /\ isLive(k) => job'[k].reported
      PROVE  OwnersAtPlace'
  <2>1. ASSUME NEW k \in store', job'[k].owner \in Owner
        PROVE  /\ CASE owner'[job'[k].owner] = "live"     -> job'[k].owner \in ownerCleanups'
                     [] owner'[job'[k].owner] = "draining" -> k \in drained'[job'[k].owner]
                     [] owner'[job'[k].owner] = "gone"     -> FALSE
               /\ isLive(k)' => owner'[job'[k].owner] = "live" \/ job'[k].reported
    <3> DEFINE p == job[k].owner
    <3>1. k \in store /\ job'[k].owner = p /\ p \in Owner
      BY <1>a, <1>c, <2>1
    <3>2. CASE p = o
      <4>1. stage = "draining" /\ k \in drained'[o] /\ owner'[o] = "draining"
        BY <1>0, <1>c, <2>1, <3>1, <3>2 DEF JobsTypeOK
      <4>2. isLive(k)' => job'[k].reported
        BY <1>a, <1>c, <2>1, <3>1, <3>2
      <4> QED BY <3>1, <3>2, <4>1, <4>2
    <3>3. CASE p # o
      <4>1. owner'[p] = owner[p] /\ drained'[p] = drained[p]
        BY <1>0, <1>c, <3>1, <3>3 DEF JobsTypeOK
      <4>2. owner[p] \in {"live", "draining", "gone"}
        BY <1>0, <3>1 DEF JobsTypeOK
      <4>3. isLive(k)' => owner'[p] = "live" \/ job'[k].reported
        BY <1>0, <1>a, <3>1, <4>1 DEF OwnersAtPlace
      <4>4. CASE owner[p] = "live"
        <5>1. p \in ownerCleanups'
          BY <1>0, <1>c, <3>1, <3>3, <4>4 DEF OwnersAtPlace
        <5> QED BY <3>1, <4>1, <4>3, <4>4, <5>1
      <4>5. CASE owner[p] # "live"
        <5>1. owner[p] = "draining" /\ k \in drained[p]
          BY <1>0, <3>1, <4>2, <4>5 DEF OwnersAtPlace
        <5> QED BY <3>1, <4>1, <4>3, <5>1
      <4> QED BY <4>4, <4>5
    <3> QED BY <3>2, <3>3
  <2> QED BY <2>1 DEF OwnersAtPlace
<1>10. ASSUME NEW o \in Owner, OwnerDrained(o)
       PROVE  OwnersAtPlace'
  <2>1. /\ owner[o] = "draining" /\ owner' = [owner EXCEPT ![o] = "gone"]
        /\ store' = store \ drained[o] /\ ownerCleanups' = ownerCleanups
        /\ \A p \in Owner : p # o => drained'[p] = drained[p]
    BY <1>0, <1>10 DEF OwnerDrained, JobsTypeOK
  <2>2. ASSUME NEW k \in store'
        PROVE  job[k].owner # o
    BY <1>0, <2>1, <2>2 DEF OwnersAtPlace
  <2> QED BY <1>c, <2>1, <2>2
<1>11. ASSUME NEW throwing \in SUBSET Job, DisposeService(throwing)
       PROVE  OwnersAtPlace'
  BY <1>11, <1>b DEF DisposeService
<1>12. ASSUME NEW o \in Owner, NEW throwing \in SUBSET Job, DisposeOwner(o, throwing)
       PROVE  OwnersAtPlace'
  <2>1. owner[o] = "live" /\ store' = store
    BY <1>12 DEF DisposeOwner
  <2>2. CASE o \in ownerCleanups
    <3>1. /\ owner' = [owner EXCEPT ![o] = "draining"]
          /\ ownerCleanups' = ownerCleanups \ {o}
          /\ drained' = [drained EXCEPT ![o] = OwnedBy(o)]
          /\ cancelForTeardown(OwnedBy(o), throwing, service # "up")
      BY <1>12, <2>2 DEF DisposeOwner
    <3>2. ASSUME NEW k \in store', job[k].owner = o
          PROVE  k \in drained'[o] /\ (isLive(k) => job'[k].reported)
      <4>1. k \in OwnedBy(o) /\ OwnedBy(o) \in SUBSET Job
        BY <1>0, <2>1, <3>2 DEF OwnedBy, JobsTypeOK
      <4>2. isLive(k) => job'[k].reported = TRUE
        BY <1>0, <3>1, <4>1, CancelEffect
      <4> QED BY <1>0, <3>1, <4>1, <4>2 DEF JobsTypeOK
    <3>3. \A p \in Owner : p # o => drained'[p] = drained[p]
      BY <1>0, <3>1 DEF JobsTypeOK
    <3> QED BY <1>c, <2>1, <3>1, <3>2, <3>3
  <2>3. CASE o \notin ownerCleanups
    <3>1. owner' = [owner EXCEPT ![o] = "gone"] /\ UNCHANGED <<drained, ownerCleanups>>
      BY <1>12, <2>3 DEF DisposeOwner
    <3>2. ASSUME NEW k \in store'
          PROVE  job[k].owner # o
      BY <1>0, <2>1, <2>3, <3>2 DEF OwnersAtPlace
    <3> QED BY <1>c, <2>1, <3>1, <3>2
  <2> QED BY <2>2, <2>3
<1>13. CASE ServiceDrained
  BY <1>13 DEF ServiceDrained, OwnersAtPlace
<1>14. CASE ToggleController
  BY <1>14, <1>b DEF ToggleController
<1>15. CASE UNCHANGED jobVars
  BY <1>15, <1>b DEF jobVars
<1> QED BY <1>1, <1>2, <1>3, <1>4, <1>5, <1>6, <1>7, <1>8, <1>9, <1>10, <1>11, <1>12,
           <1>13, <1>14, <1>15 DEF JobsNext, JobStep, WaitStep, Teardown

\* The invariant holds of an empty registry.
LEMMA JobsInitially == JobsInit => IInv
<1> SUFFICES ASSUME JobsInit PROVE IInv
  OBVIOUS
<1>0. (CHOOSE j \in Job : TRUE) \in Job
  BY LocalJobsAssumption
<1>1. Cardinality(Wait) \in Nat
  BY LocalJobsAssumption, FS_CardinalityType
<1>2. JobsTypeOK
  <2>1. job \in [Job -> TrackedTask]
    BY <1>1 DEF JobsInit, TrackedTask
  <2>2. wait \in [Wait -> WaitCall]
    <3> DEFINE call == [at |-> "none", job |-> CHOOSE j \in Job : TRUE, counted |-> FALSE]
    <3>1. wait \in [Wait -> {call}]
      BY DEF JobsInit
    <3>2. call \in WaitCall
      BY <1>0 DEF WaitCall
    <3> HIDE DEF call
    <3> QED BY <3>1, <3>2
  <2> QED BY <2>1, <2>2 DEF JobsInit, JobsTypeOK, Producer
<1>3. \A w \in Wait : wait[w].at = "none" /\ wait[w].counted = FALSE
  BY DEF JobsInit
<1>4. WaitsAtPlace
  <2>1. \A j \in Job : Counted(j) = {}
    BY <1>3 DEF Counted
  <2>2. \A j \in Job : job[j].waiters = 0
    BY DEF JobsInit
  <2> QED BY <1>3, <2>1, <2>2, FS_EmptySet DEF WaitsAtPlace
<1>5. EndsAtPlace /\ JobsAtPlace /\ OwnersAtPlace
  BY DEF JobsInit, EndsAtPlace, JobsAtPlace, OwnersAtPlace, isLive, isTerminal, Live,
         Terminal
<1> QED BY <1>2, <1>4, <1>5 DEF IInv

-----------------------------------------------------------------------------
(* The theorems.                                                           *)

\* The inductive invariant holds of every history of the registry, whatever settles,
\* waits and is torn down in whatever order (jobs-local index.ts).
THEOREM Invariant == JobsSpec => []IInv
<1>1. IInv /\ [JobsNext]_jobVars => IInv'
  BY TypeStep, WaitsStep, EndsStep, JobsStep, OwnersStep DEF IInv
<1> QED BY JobsInitially, <1>1, PTL DEF JobsSpec

\* Records, waits and owners stay in range; a record never counts more waiters than
\* there are (jobs-local index.ts TrackedTask).
THEOREM TypeCorrect == JobsSpec => []JobsTypeOK
<1>1. IInv => JobsTypeOK
  BY DEF IInv
<1> QED BY Invariant, <1>1, PTL

\* A completion reaches its caller once: a withheld notice is still owed by a wait()
\* or was returned by one, and nothing is both announced and returned (jobs-local
\* index.ts settle against wait).
THEOREM ReportsOnce == JobsSpec => []ReportedOnce
<1>1. IInv => ReportedOnce
  BY DEF IInv, EndsAtPlace, ReportedOnce
<1> QED BY Invariant, <1>1, PTL

\* An owner that is gone left no record, and no work but what a throwing cancel left
\* behind a failed record (jobs-local index.ts disposeOwned, cancelForTeardown).
THEOREM GoneLeavesNothing == JobsSpec => []GoneOwnsNothing
<1>1. ASSUME IInv, NEW o \in Owner, owner[o] = "gone"
      PROVE  OwnedBy(o) = {}
  BY <1>1 DEF IInv, OwnersAtPlace, OwnedBy
<1>2. ASSUME IInv, NEW o \in Owner, owner[o] = "gone", NEW j \in Job,
             job[j].owner = o, producer[j] \in {"working", "told"}
      PROVE  job[j].status = "failed"
  <2>1. j \notin store
    BY <1>1, <1>2 DEF OwnedBy
  <2>2. ~isLive(j) /\ job[j].status # "none"
    BY <1>2, <2>1 DEF IInv, JobsAtPlace
  <2>3. isTerminal(j)
    BY <1>2, <2>2 DEF IInv, JobsTypeOK, TrackedTask, isLive, isTerminal
  <2> QED BY <1>2, <2>3 DEF IInv, JobsAtPlace
<1>3. IInv => GoneOwnsNothing
  BY <1>1, <1>2 DEF GoneOwnsNothing
<1> QED BY Invariant, <1>3, PTL

\* A teardown announces nothing: whoever is told of a completion lives, and so does
\* the service, also when cancels throw (jobs-local index.ts cancelForTeardown claims
\* the reports before it cancels).
THEOREM TeardownAnnouncesNothing == JobsSpec => TeardownIsSilent
<1>1. ASSUME IInv, [JobsNext]_jobVars, NEW j \in announced' \ announced
      PROVE  /\ service' = "up"
             /\ job[j].owner \in Owner => owner'[job[j].owner] = "live"
  <2>0. JobsTypeOK /\ JobsAtPlace /\ OwnersAtPlace
    BY <1>1 DEF IInv
  <2>1. ASSUME NEW jobs \in SUBSET Job, NEW throwing, NEW closed,
               cancelForTeardown(jobs, throwing, closed)
        PROVE  FALSE
    BY <1>1, <2>0, <2>1, CancelEffect
  <2>2. ASSUME NEW throwing \in SUBSET Job, DisposeService(throwing)
        PROVE  FALSE
    BY <2>0, <2>1, <2>2 DEF DisposeService, JobsTypeOK
  <2>3. ASSUME NEW o \in Owner, NEW throwing \in SUBSET Job, DisposeOwner(o, throwing)
        PROVE  FALSE
    <3>1. OwnedBy(o) \in SUBSET Job
      BY <2>0 DEF OwnedBy, JobsTypeOK
    <3> QED BY <1>1, <2>1, <2>3, <3>1 DEF DisposeOwner
  <2>4. PICK i \in Job : Settle(i)
    BY <1>1, <2>2, <2>3 DEF JobsNext, JobStep, WaitStep, Teardown, start, read, kill,
       Release, BeginWait, Expire, AbortWait, WaitResumes, OwnerDrained, ServiceDrained,
       ToggleController, jobVars
  <2>5. ~isTerminal(i)
    BY <1>1, <2>4 DEF Settle
  <2>6. i = j /\ ~job[j].reported /\ service = "up" /\ j \in Job
    <3>1. /\ announced' \subseteq announced \union {i}
          /\ i \in announced' \ announced => ~job[i].reported /\ service = "up"
      BY <2>0, <2>4, <2>5, SettleEffect
    <3> QED BY <1>1, <3>1
  <2>7. service' = "up" /\ owner' = owner
    BY <2>4, <2>6 DEF Settle
  <2>8. ASSUME job[j].owner \in Owner
        PROVE  owner[job[j].owner] = "live"
    <3>1. job[j].status # "none"
      BY <2>0, <2>4, <2>6 DEF Settle, JobsAtPlace
    <3>2. isLive(j)
      BY <2>0, <2>5, <2>6, <3>1 DEF JobsTypeOK, TrackedTask, isLive, isTerminal
    <3>3. j \in store
      BY <2>0, <2>6, <3>2 DEF JobsAtPlace
    <3> QED BY <2>0, <2>6, <2>8, <3>2, <3>3 DEF OwnersAtPlace
  <2> QED BY <2>7, <2>8
<1>2. IInv /\ [JobsNext]_jobVars =>
        [\A j \in announced' \ announced :
           /\ service' = "up"
           /\ job[j].owner \in Owner => owner'[job[j].owner] = "live"]_jobVars
  BY <1>1
<1> QED BY Invariant, <1>2, PTL DEF JobsSpec, TeardownIsSilent
=============================================================================
