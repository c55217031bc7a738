--------------------------- MODULE SessionPreparations ---------------------------
(***************************************************************************)
(* Cold sessions of the persistence coordinator: the pool that shares one  *)
(* read of a stored log, reserves it for one resume and keeps what was     *)
(* released in an LRU (preparations.ts), and the coordinator operations    *)
(* that meet there (coordinator.ts): prepare, load, inspect, append,       *)
(* publication and retirement.  Operations on storage run one at a time    *)
(* per session, in the order they were asked for.                          *)
(*                                                                         *)
(* A stored log is its number of events, whether a crash or a writer left  *)
(* it to be closed (broken), and whether two events took the same place    *)
(* (corrupt).  The number stands for the backend's revision.  A storage    *)
(* operation is one step at its end, except an append, which looks at the  *)
(* pool when it begins; other tasks run between the end of an operation    *)
(* and the task that awaits it, but no other I/O ends in between.          *)
(***************************************************************************)
EXTENDS Naturals, Sequences, FiniteSets, SequencesExt

CONSTANTS Id,        \* session identities
          Caller,    \* tasks that call prepare, load or inspect
          Asks,      \* [Caller -> SUBSET (Kind \X Id)], bound: the calls it makes
          Capacity,  \* preparedSessionCacheSize
          MaxLen,    \* [Id -> Nat], bound: a log this long is not appended to
          MaxToken,  \* bound: entries of one identity that are referenced at once
          None

VARIABLES log,      \* [Id -> Log], durable
          tracked,  \* [Id -> SessionState or None], the coordinator's states
          live,     \* [Id -> the published session and its write-behind]
          chain,    \* [Id -> queue of operations], the head may have begun
          running,  \* [Id -> BOOLEAN], the head has begun
          pool,     \* the entries, and which key comes before which in their Map
          callers   \* [Caller -> where its call is]

vars == <<log, tracked, live, chain, running, pool, callers>>

Token == 1..MaxToken
Kind == {"prepare", "load", "inspect"}
Log == [len : Nat, broken : BOOLEAN, corrupt : BOOLEAN]
State == [cursor : Nat, owned : BOOLEAN]
PreparationEntry ==
    [token : Token, phase : {"loading"}, source : {None}]
    \cup [token : Token, phase : {"ready", "committing", "reserved"}, source : Log]

ASSUME PreparationsAssumption ==
    /\ Asks \in [Caller -> SUBSET (Kind \X Id)]
    /\ Capacity \in Nat \ {0} /\ MaxLen \in [Id -> Nat] /\ MaxToken \in Nat
    /\ None \notin Id \cup Log \cup State \cup PreparationEntry

Idle == [pc |-> "idle", kind |-> "none", id |-> None, token |-> 0,
         source |-> None, outcome |-> "none", aborted |-> FALSE, waits |-> FALSE]
NotLive == [state |-> "none", next |-> 0, dirty |-> FALSE]

(***************************************************************************)
(* The pool.                                                               *)
(***************************************************************************)
Entry(i) == pool.entry[i]
Pooled(i) == Entry(i) # None
Phase(p, i) == IF p.entry[i] = None THEN "none" ELSE p.entry[i].phase
Mine(c) == /\ Pooled(callers[c].id)
           /\ Entry(callers[c].id).token = callers[c].token

InUse(i) == (IF Pooled(i) THEN {Entry(i).token} ELSE {})
            \cup {callers[c].token : c \in {d \in Caller : callers[d].id = i}}
            \cup {op.token : op \in {o \in ToSet(chain[i]) : o.kind = "load"}}
Fresh(i) == CHOOSE t \in Token : t \notin InUse(i)

\* The Map keeps its keys in the order they were set.
Keys(p) == {j \in Id : p.entry[j] # None}
Unlisted(before, S) == {pair \in before : pair[1] \notin S /\ pair[2] \notin S}
SetLast(p, i) == Unlisted(p.before, {i}) \cup ((Keys(p) \ {i}) \X {i})

Without(p, S) == [entry |-> [i \in Id |-> IF i \in S THEN None ELSE p.entry[i]],
                  before |-> Unlisted(p.before, S)]

With(p, i, t) == [entry |-> [p.entry EXCEPT ![i] = [token |-> t, phase |-> "loading", source |-> None]],
                  before |-> SetLast(p, i)]

Ready(p) == {j \in Id : Phase(p, j) = "ready"}
Oldest(p) == {j \in Ready(p) : \A k \in Ready(p) \ {j} : <<j, k>> \in p.before}

\* Moves the entry to the end; past the capacity the oldest ready entry goes.
Touched(p, i) ==
    LET q == [p EXCEPT !.before = SetLast(p, i)]
    IN  IF Cardinality(Ready(q)) > Capacity THEN Without(q, Oldest(q)) ELSE q

Readied(p, i, source) ==
    Touched([p EXCEPT !.entry[i].phase = "ready", !.entry[i].source = source], i)

\* Mutant of Settled: the waiters are not woken
Settled_silent(cs, i) == cs

\* Resolving reservationSettled: its waiters look at the entry again.
Settled(cs, i) ==
    [c \in Caller |-> IF cs[c].pc = "settling" /\ cs[c].id = i
                      THEN [cs[c] EXCEPT !.pc = "woken"] ELSE cs[c]]

\* Mutant of Locked: a held reservation does not keep writers out
Locked_committing(i) == Phase(pool, i) = "committing"

Locked(i) == Phase(pool, i) \in {"committing", "reserved"}

(***************************************************************************)
(* The per-session chain.                                                  *)
(***************************************************************************)
Queue(i, op) == chain' = [chain EXCEPT ![i] = Append(@, op)]
IsAppend(op, owned) == op.kind = "append" /\ op.owned = owned
Writing(i, owned) == \E op \in ToSet(chain[i]) : IsAppend(op, owned)
Begun(i, kind) == running[i] /\ Head(chain[i]).kind = kind

\* I/O ends only when the microtasks are drained: every task that can go on
\* has gone on, every operation at a head has begun, and a final drain has
\* queued its write.
Unbegun(i) == chain[i] # <<>> /\ ~running[i]
Draining(i) == live[i].state = "retiring" /\ live[i].dirty /\ ~Writing(i, TRUE)
Awake(c) == \/ callers[c].pc \in {"woken", "loaded", "committed", "checked"}
            \/ callers[c].pc = "entering" /\ ~callers[c].waits
Drained == /\ \A i \in Id : ~Unbegun(i) /\ ~Draining(i)
           /\ \A c \in Caller : ~Awake(c)
Pop(i) == /\ chain' = [chain EXCEPT ![i] = Tail(@)]
          /\ running' = [running EXCEPT ![i] = FALSE]
\* An operation queued before a task awaits a settled read begins before it.
Overtaken(cs, i) ==
    [c \in Caller |-> IF cs[c].pc = "loaded" /\ cs[c].id = i
                      THEN [cs[c] EXCEPT !.pc = "woken"] ELSE cs[c]]
\* A queued operation whose caller has left does nothing when its turn comes;
\* one that has begun runs to its end.
Dropped(i, c) ==
    \E k \in DOMAIN chain[i] :
        /\ chain[i][k].kind \in {"commit", "check"} /\ chain[i][k].caller = c
        /\ chain' = [chain EXCEPT ![i] = IF running[i] /\ k = 1
                                         THEN ReplaceAt(@, 1, [kind |-> "dropped"])
                                         ELSE RemoveAt(@, k)]

Init ==
    /\ log \in [Id -> [len : {1}, broken : BOOLEAN, corrupt : {FALSE}]]
    /\ tracked = [i \in Id |-> None]
    /\ live = [i \in Id |-> NotLive]
    /\ chain = [i \in Id |-> <<>>]
    /\ running = [i \in Id |-> FALSE]
    /\ pool = [entry |-> [i \in Id |-> None], before |-> {}]
    /\ callers = [c \in Caller |-> Idle]

(***************************************************************************)
(* A call of prepare, load or inspect, up to its wait for storage.         *)
(***************************************************************************)
Return(c) == callers' = [callers EXCEPT ![c] = Idle]
Goto(c, pc) == callers' = [callers EXCEPT ![c].pc = pc]
Retried(cs, c) ==
    [cs EXCEPT ![c] = [Idle EXCEPT !.pc = "entering", !.kind = cs[c].kind, !.id = cs[c].id,
                                   !.waits = live[cs[c].id].state = "retiring"]]

\* What a task keeps of a settled read: reserve() looks at the entry instead.
Seen(c, source) == IF callers[c].kind = "inspect" THEN source ELSE None

Call(c, kind, i) ==
    /\ callers[c].pc = "idle"
    /\ callers' = Retried([callers EXCEPT ![c].kind = kind, ![c].id = i], c)
    /\ UNCHANGED <<log, tracked, live, chain, running, pool>>

\* After waitForRetirement: a live session answers for itself, any other id
\* joins its entry or starts one, whose read is queued at once.
Enter(c) ==
    LET i == callers[c].id IN
    /\ callers[c].pc = "entering" /\ ~callers[c].waits
    /\ \/ /\ live[i].state = "live"
          /\ Return(c)
          /\ UNCHANGED <<chain, pool>>
       \/ /\ live[i].state # "live" /\ ~Pooled(i) /\ Token \ InUse(i) # {}
          /\ pool' = With(pool, i, Fresh(i))
          /\ Queue(i, [kind |-> "load", token |-> Fresh(i)])
          /\ callers' = [callers EXCEPT ![c].pc = "loading", ![c].token = Fresh(i)]
       \/ /\ live[i].state # "live" /\ Pooled(i)
          /\ callers' = [callers EXCEPT ![c].pc = IF Entry(i).phase = "loading" THEN "loading"
                                                 ELSE IF Unbegun(i) THEN "loaded" ELSE "woken",
                                        ![c].token = Entry(i).token,
                                        ![c].source = Seen(c, Entry(i).source)]
          /\ UNCHANGED <<chain, pool>>
    /\ UNCHANGED <<log, tracked, live, running>>

\* reserve(): an entry that left the pool is given up, one that is held is
\* waited for, and a ready one is taken for a commit, queued on the chain.
Reserve(c) ==
    LET i == callers[c].id IN
    /\ callers[c].pc = "woken" /\ callers[c].kind # "inspect"
    /\ \/ ~Mine(c) /\ callers' = Retried(callers, c) /\ UNCHANGED <<chain, pool>>
       \/ Mine(c) /\ Entry(i).phase # "ready" /\ Goto(c, "settling") /\ UNCHANGED <<chain, pool>>
       \/ /\ Mine(c) /\ Entry(i).phase = "ready"
          /\ pool' = [pool EXCEPT !.entry[i].phase = "committing"]
          /\ Queue(i, [kind |-> "commit", caller |-> c, source |-> Entry(i).source])
          /\ callers' = [callers EXCEPT ![c].pc = "committing", ![c].source = Entry(i).source]
    /\ UNCHANGED <<log, tracked, live, running>>

\* inspect(): the source is touched and its revision is checked on the chain.
Inspect(c) ==
    LET i == callers[c].id IN
    /\ callers[c].pc = "woken" /\ callers[c].kind = "inspect"
    /\ pool' = IF Mine(c) /\ Entry(i).phase = "ready" THEN Touched(pool, i) ELSE pool
    /\ \/ live[i].state = "live" /\ Return(c) /\ UNCHANGED chain
       \/ /\ live[i].state # "live"
          /\ Queue(i, [kind |-> "check", caller |-> c])
          /\ Goto(c, "checking")
    /\ UNCHANGED <<log, tracked, live, running>>

(***************************************************************************)
(* Storage operations.                                                     *)
(***************************************************************************)
Begin(i) ==
    /\ chain[i] # <<>> /\ ~running[i] /\ Head(chain[i]).kind # "append"
    /\ running' = [running EXCEPT ![i] = TRUE]
    /\ callers' = Overtaken(callers, i)
    /\ UNCHANGED <<log, tracked, live, chain, pool>>

\* The load the entry was made with: it may fail, and a log in which two rows
\* took one place is rejected once a turn/end follows them.
LoadDone(i) ==
    LET t == Head(chain[i]).token
        mine == Pooled(i) /\ Entry(i).token = t
        waiting == {c \in Caller : callers[c].pc = "loading" /\ callers[c].id = i /\ callers[c].token = t}
        next == IF Len(chain[i]) > 1 THEN "loaded" ELSE "woken"
    IN
    /\ Begun(i, "load") /\ Drained
    /\ Pop(i)
    /\ \/ /\ ~log[i].corrupt
          /\ pool' = IF mine THEN Readied(pool, i, log[i]) ELSE pool
          /\ callers' = [c \in Caller |-> IF c \in waiting
                         THEN [callers[c] EXCEPT !.pc = next, !.source = Seen(c, log[i])] ELSE callers[c]]
       \/ /\ pool' = IF mine THEN Without(pool, {i}) ELSE pool
          /\ callers' = [c \in Caller |-> IF c \in waiting THEN Idle ELSE callers[c]]
    /\ UNCHANGED <<log, tracked, live>>

\* commitPrepared(): what it does to storage and to the tracked state.
IsCurrent(i, source) == source = log[i]
Repaired(l) == [l EXCEPT !.len = @ + 1, !.broken = FALSE]
Owned(i) == tracked[i] # None /\ tracked[i].owned
Cursor(source) == [cursor |-> source.len, owned |-> FALSE]

CommitPrepared(i, source, outcome) ==
    \/ outcome = "error" /\ UNCHANGED <<log, tracked>>
    \/ /\ ~Owned(i)
       /\ \/ ~IsCurrent(i, source) /\ outcome = "none" /\ UNCHANGED <<log, tracked>>
          \/ /\ IsCurrent(i, source) /\ source.broken /\ outcome = "none"
             /\ log' = [log EXCEPT ![i] = Repaired(@)]
             /\ UNCHANGED tracked
          \/ /\ IsCurrent(i, source) /\ ~source.broken /\ outcome = "ok"
             /\ tracked' = [tracked EXCEPT ![i] = Cursor(source)]
             /\ UNCHANGED log

CommitDone(i) ==
    LET op == Head(chain[i]) IN
    /\ Begun(i, "commit") /\ Drained
    /\ Pop(i)
    /\ \E outcome \in {"ok", "none", "error"} :
          /\ CommitPrepared(i, op.source, outcome)
          /\ callers' = [callers EXCEPT ![op.caller].pc = "committed", ![op.caller].outcome = outcome]
    /\ UNCHANGED <<live, pool>>

CheckDone(i) ==
    LET c == Head(chain[i]).caller IN
    /\ Begun(i, "check") /\ Drained
    /\ Pop(i)
    /\ callers' = [callers EXCEPT ![c].pc = "checked",
                                  ![c].outcome = IF IsCurrent(i, callers[c].source) THEN "ok" ELSE "none"]
    /\ UNCHANGED <<log, tracked, live, pool>>

\* A check that had begun when its caller left.
DroppedDone(i) ==
    /\ Begun(i, "dropped")
    /\ Pop(i)
    /\ UNCHANGED <<log, tracked, live, pool, callers>>

(***************************************************************************)
(* The rest of a call, once storage has answered.                          *)
(***************************************************************************)
\* The entry leaves the pool and its waiters are woken.
Discard(i, cs) == /\ pool' = Without(pool, {i})
                  /\ callers' = Settled(cs, i)
GiveUp(c, cs) == IF Mine(c) THEN Discard(callers[c].id, cs) ELSE pool' = pool /\ callers' = cs

Committed(c) ==
    LET i == callers[c].id
        me == callers[c]
        left == [callers EXCEPT ![c] = Idle]
    IN
    /\ me.pc = "committed"
    /\ \/ me.outcome = "error" /\ GiveUp(c, left)
       \/ me.outcome = "none" /\ GiveUp(c, Retried(callers, c))
       \/ /\ me.outcome = "ok" /\ me.aborted
          /\ IF Mine(c) THEN /\ pool' = Readied(pool, i, me.source)
                             /\ callers' = Settled(left, i)
                        ELSE pool' = pool /\ callers' = left
       \/ /\ me.outcome = "ok" /\ ~me.aborted /\ ~Mine(c)
          /\ callers' = Retried(callers, c) /\ UNCHANGED pool
       \/ /\ me.outcome = "ok" /\ ~me.aborted /\ Mine(c)
          /\ IF me.kind = "load" \/ live[i].state = "live"
             THEN Discard(i, left)
             ELSE /\ pool' = [pool EXCEPT !.entry[i].phase = "reserved"]
                  /\ callers' = [callers EXCEPT ![c].pc = "reserved", ![c].outcome = "none"]
    /\ UNCHANGED <<log, tracked, live, chain, running>>

\* inspect(): a stale source is discarded when it is ready and read again,
\* and a source that somebody holds is borrowed.
Checked(c) ==
    LET i == callers[c].id
        same == Pooled(i) /\ Entry(i).source = callers[c].source
        answered == \/ live[i].state = "live" \/ callers[c].outcome = "ok"
                    \/ same /\ Entry(i).phase # "ready"
    IN
    /\ callers[c].pc = "checked"
    /\ \/ answered /\ Return(c) /\ UNCHANGED pool
       \/ ~answered /\ same /\ Discard(i, Retried(callers, c))
       \/ ~answered /\ ~same /\ callers' = Retried(callers, c) /\ UNCHANGED pool
    /\ UNCHANGED <<log, tracked, live, chain, running>>

\* What attachPrepared() requires of the reservation it consumes.
Attachable(c) ==
    LET i == callers[c].id IN
    /\ Mine(c) /\ Entry(i).phase = "reserved"
    /\ tracked[i] # None /\ ~tracked[i].owned
    /\ tracked[i].cursor = callers[c].source.len

\* Mutant of Publish: the consumed reservation stays in the pool
Publish_keepsEntry(c) ==
    LET i == callers[c].id IN
    /\ callers[c].pc = "reserved" /\ Attachable(c) /\ live[i].state = "none"
    /\ callers' = [callers EXCEPT ![c] = Idle]
    /\ tracked' = [tracked EXCEPT ![i].owned = TRUE]
    /\ live' = [live EXCEPT ![i] = [state |-> "live", next |-> tracked[i].cursor, dirty |-> FALSE]]
    /\ UNCHANGED <<log, chain, running, pool>>

\* The resumed agent announces its session, perhaps with events of its own.
Publish(c) ==
    LET i == callers[c].id IN
    /\ callers[c].pc = "reserved" /\ Attachable(c) /\ live[i].state = "none"
    /\ Discard(i, [callers EXCEPT ![c] = Idle])
    /\ tracked' = [tracked EXCEPT ![i].owned = TRUE]
    /\ \E dirty \in {d \in BOOLEAN : d => log[i].len < MaxLen[i]} :
          live' = [live EXCEPT ![i] = [state |-> "live", next |-> tracked[i].cursor, dirty |-> dirty]]
    /\ UNCHANGED <<log, chain, running>>

\* Disposing the SessionPreparation: an unchanged Session goes back to the LRU.
Release(c) ==
    LET i == callers[c].id
        left == [callers EXCEPT ![c] = Idle]
    IN
    /\ callers[c].pc = "reserved"
    /\ \/ pool' = Readied(pool, i, callers[c].source) /\ callers' = Settled(left, i)
       \/ Discard(i, left)
    /\ UNCHANGED <<log, tracked, live, chain, running>>

\* A caller's signal: it leaves every wait for shared work, and a queued
\* commit too, but not a commit that has begun.
Abort(c) ==
    LET i == callers[c].id
        left == [callers EXCEPT ![c] = Idle]
        begun == running[i] /\ chain[i] # <<>> /\ Head(chain[i]).kind = "commit" /\ Head(chain[i]).caller = c
    IN
    /\ callers[c].kind \in {"prepare", "inspect"} /\ ~callers[c].aborted
    /\ \/ /\ callers[c].pc \in {"entering", "loading", "settling"}
          /\ callers' = left /\ UNCHANGED <<chain, pool>>
       \/ /\ callers[c].pc = "checking" /\ Dropped(i, c)
          /\ callers' = IF chain'[i] = <<>> THEN Overtaken(left, i) ELSE left
          /\ UNCHANGED pool
       \/ callers[c].pc = "committing" /\ ~begun /\ Dropped(i, c)
          /\ GiveUp(c, IF chain'[i] = <<>> THEN Overtaken(left, i) ELSE left)
       \/ /\ callers[c].pc = "committed" \/ (callers[c].pc = "committing" /\ begun)
          /\ callers' = [callers EXCEPT ![c].aborted = TRUE] /\ UNCHANGED <<chain, pool>>
    /\ UNCHANGED <<log, tracked, live, running>>

(***************************************************************************)
(* Writers: the service's append, and the write-behind of a live session.  *)
(***************************************************************************)
AppendOf(i, owned, from) ==
    Queue(i, [kind |-> "append", owned |-> owned, from |-> from, stage |-> "queued", source |-> None])

\* A writer of the stored session, who knows how long its log is.
ServiceAppend(i) ==
    /\ live[i].state = "none" /\ ~Writing(i, FALSE) /\ log[i].len < MaxLen[i]
    /\ AppendOf(i, FALSE, log[i].len)
    /\ UNCHANGED <<log, tracked, live, running, pool, callers>>

Emit(i) ==
    /\ live[i].state = "live" /\ ~live[i].dirty /\ live[i].next < MaxLen[i]
    /\ live' = [live EXCEPT ![i].dirty = TRUE]
    /\ UNCHANGED <<log, tracked, chain, running, pool, callers>>

StartWrite(i) ==
    /\ live[i].state \in {"live", "retiring"} /\ live[i].dirty /\ ~Writing(i, TRUE)
    /\ AppendOf(i, TRUE, live[i].next)
    /\ live' = [live EXCEPT ![i].dirty = FALSE]
    /\ UNCHANGED <<log, tracked, running, pool, callers>>

\* The failed batch is kept for the next write; in a final drain the
\* retirement fails, and the controller stays behind with its owner.
Refused(i, op) ==
    live' = IF ~op.owned THEN live
            ELSE [live EXCEPT ![i].dirty = TRUE,
                              ![i].state = IF @ = "retiring" THEN "failed" ELSE @]
Awaited(cs, i) == [c \in Caller |-> IF cs[c].id = i THEN [cs[c] EXCEPT !.waits = FALSE] ELSE cs[c]]
Unretired(cs, i) == IF live'[i].state = "failed" THEN Awaited(cs, i) ELSE cs

AppendFails(i, op) ==
    /\ chain' = [chain EXCEPT ![i] = Tail(@)]
    /\ running' = [running EXCEPT ![i] = FALSE]
    /\ Refused(i, op)
    /\ UNCHANGED log

\* appendCore() up to its first await: a live batch that is stored already is
\* filtered out, then assertWritable, then the tracked state's cursor, or a
\* ready source to adopt.
BeginAppend(i) ==
    LET op == Head(chain[i])
        seen == Overtaken(callers, i)
        stored == op.owned /\ tracked[i] # None /\ op.from < tracked[i].cursor
        To(stage, source) == /\ chain' = [chain EXCEPT ![i][1].stage = stage, ![i][1].source = source]
                             /\ running' = [running EXCEPT ![i] = TRUE]
                             /\ UNCHANGED <<log, live>>
    IN
    /\ chain[i] # <<>> /\ ~running[i] /\ op.kind = "append"
    /\ \/ /\ stored /\ Pop(i) /\ pool' = pool
          /\ live' = [live EXCEPT ![i].next = @ + 1]
          /\ UNCHANGED log
       \/ ~stored /\ Locked(i) /\ AppendFails(i, op) /\ pool' = pool
       \/ ~stored /\ ~Locked(i) /\ tracked[i] # None /\ pool' = pool
          /\ IF op.from = tracked[i].cursor THEN To("write", None) ELSE AppendFails(i, op)
       \/ /\ ~Locked(i) /\ tracked[i] = None
          /\ IF Phase(pool, i) = "ready" THEN To("adopt", Entry(i).source) /\ pool' = Without(pool, {i})
                                         ELSE To("adopt", None) /\ pool' = pool
    /\ callers' = Unretired(seen, i)
    /\ UNCHANGED tracked

\* adopt(): reads and commits until a source is current and closed.
Adopt(i) ==
    LET op == Head(chain[i])
        To(stage, source) == /\ chain' = [chain EXCEPT ![i][1].stage = stage, ![i][1].source = source]
                             /\ UNCHANGED <<running, live>>
    IN
    /\ Begun(i, "append") /\ Drained /\ op.stage = "adopt"
    /\ \/ /\ op.source = None /\ ~log[i].corrupt
          /\ To("adopt", log[i])
          /\ UNCHANGED <<log, tracked>>
       \/ /\ op.source = None
          /\ AppendFails(i, op) /\ UNCHANGED tracked
       \/ /\ op.source # None
          /\ \E outcome \in {"ok", "none", "error"} :
                /\ CommitPrepared(i, op.source, outcome)
                /\ CASE outcome = "none" -> To("adopt", None)
                     [] outcome = "ok" /\ op.from = op.source.len -> To("write", None)
                     [] OTHER -> /\ chain' = [chain EXCEPT ![i] = Tail(@)]
                                 /\ running' = [running EXCEPT ![i] = FALSE]
                                 /\ Refused(i, op)
    /\ callers' = Unretired(callers, i)
    /\ UNCHANGED pool

\* appendBatch() commits, the cursor follows and the prepared view is dropped.
Written(l, from, broken) ==
    [len |-> l.len + 1, broken |-> broken, corrupt |-> (l.corrupt \/ from # l.len)]

WriteDone(i) ==
    LET op == Head(chain[i]) IN
    /\ Begun(i, "append") /\ Drained /\ op.stage = "write"
    /\ Pop(i)
    /\ \E broken \in BOOLEAN : log' = [log EXCEPT ![i] = Written(@, op.from, broken)]
    /\ tracked' = [tracked EXCEPT ![i].cursor = @ + 1]
    /\ live' = IF op.owned THEN [live EXCEPT ![i].next = @ + 1] ELSE live
    /\ Discard(i, callers)

WriteFails(i) ==
    /\ Begun(i, "append") /\ Drained /\ Head(chain[i]).stage = "write"
    /\ AppendFails(i, Head(chain[i]))
    /\ callers' = Unretired(callers, i)
    /\ UNCHANGED <<tracked, pool>>

\* Disposal of the live session: the tail is drained, then its state forgotten.
Dispose(i) ==
    /\ live[i].state = "live"
    /\ live' = [live EXCEPT ![i].state = "retiring"]
    /\ UNCHANGED <<log, tracked, chain, running, pool, callers>>

Retire(i) ==
    /\ live[i].state = "retiring" /\ ~live[i].dirty /\ ~Writing(i, TRUE)
    /\ ~\E op \in ToSet(chain[i]) : op.kind = "retire"
    /\ Queue(i, [kind |-> "retire"])
    /\ UNCHANGED <<log, tracked, live, running, pool, callers>>

RetireDone(i) ==
    /\ Begun(i, "retire")
    /\ Pop(i)
    /\ tracked' = [tracked EXCEPT ![i] = IF Owned(i) THEN None ELSE @]
    /\ live' = [live EXCEPT ![i] = NotLive]
    /\ callers' = Awaited(callers, i)
    /\ UNCHANGED <<log, pool>>

Storage(i) == \/ Begin(i) \/ LoadDone(i) \/ CommitDone(i) \/ CheckDone(i) \/ DroppedDone(i)
              \/ BeginAppend(i) \/ Adopt(i) \/ WriteDone(i) \/ WriteFails(i) \/ RetireDone(i)
Resume(c) == Enter(c) \/ Reserve(c) \/ Inspect(c) \/ Committed(c) \/ Checked(c)
Writers(i) == ServiceAppend(i) \/ Emit(i) \/ StartWrite(i) \/ Dispose(i) \/ Retire(i)

Next ==
    \/ \E i \in Id : Storage(i) \/ Writers(i)
    \/ \E c \in Caller : Resume(c) \/ Publish(c) \/ Release(c) \/ Abort(c)
    \/ \E c \in Caller : \E ask \in Asks[c] : Call(c, ask[1], ask[2])

Spec == Init /\ [][Next]_vars

(***************************************************************************)
(* Properties.                                                             *)
(***************************************************************************)
Op == [kind : {"load"}, token : Token]
      \cup [kind : {"commit"}, caller : Caller, source : Log]
      \cup [kind : {"check"}, caller : Caller]
      \cup [kind : {"dropped", "retire"}]
      \cup [kind : {"append"}, owned : BOOLEAN, from : Nat,
            stage : {"queued", "adopt", "write"}, source : Log \cup {None}]

CallRecord ==
    [pc : {"idle", "entering", "loading", "loaded", "woken", "settling", "committing",
           "committed", "checking", "checked", "reserved"},
     kind : Kind \cup {"none"}, id : Id \cup {None}, token : 0..MaxToken,
     source : Log \cup {None}, outcome : {"none", "ok", "error"},
     aborted : BOOLEAN, waits : BOOLEAN]

\* The types.
TypeOK ==
    /\ log \in [Id -> Log]
    /\ tracked \in [Id -> State \cup {None}]
    /\ live \in [Id -> [state : {"none", "live", "retiring", "failed"}, next : Nat, dirty : BOOLEAN]]
    /\ chain \in [Id -> Seq(Op)]
    /\ running \in [Id -> BOOLEAN]
    /\ pool = [entry |-> pool.entry, before |-> pool.before]
    /\ pool.entry \in [Id -> PreparationEntry \cup {None}]
    /\ callers \in [Caller -> CallRecord]

\* A reservation belongs to one caller, and while it is held its source is
\* the durable log, closed, and the ownerless cursor matches it: publishing
\* the session (attachPrepared) never throws and never binds a stale view.
ReservationHolds ==
    \A c \in Caller : callers[c].pc = "reserved" =>
        LET i == callers[c].id IN
        /\ Attachable(c)
        /\ callers[c].source = log[i] /\ ~log[i].broken
        /\ \A d \in Caller \ {c} : callers[d].pc = "reserved" => callers[d].id # i

\* No preparation of a live session is committing or reserved, so that
\* assertWritable() never refuses its write-behind, whatever was asked for
\* in the moments around its publication.
LiveIsNotLocked == \A i \in Id : live[i].state = "live" => ~Locked(i)

\* A caller that waits for another's reservation waits for an entry that is
\* in the pool and that another caller is committing or holds: whoever ends
\* the reservation (commit, failure, stale revision, abort, publication or
\* release) wakes it, so that it waits for nobody who has gone.
Holds(c) == callers[c].pc \in {"committing", "committed", "reserved"}
WaiterHasHolder ==
    \A c \in Caller : callers[c].pc = "settling" =>
        /\ Mine(c)
        /\ \E d \in Caller \ {c} : /\ Holds(d) /\ callers[d].id = callers[c].id
                                   /\ callers[d].token = callers[c].token

\* coordinator.ts:697 says that each event's seq must continue the stored
\* log: an append that is about to write starts where the log ends.
AppendContinuesLog ==
    \A i \in Id : chain[i] # <<>> /\ Head(chain[i]).kind = "append" /\ Head(chain[i]).stage = "write"
                => Head(chain[i]).from = log[i].len
===============================================================================
