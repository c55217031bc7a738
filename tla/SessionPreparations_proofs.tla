----------------------- MODULE SessionPreparations_proofs -----------------------
(***************************************************************************)
(* Proofs about cold sessions, for any sessions, callers and bounds.       *)
(*                                                                         *)
(* The invariant is a predicate of one identity.  A step acts on one       *)
(* identity; what it does to another is to evict its ready entry.          *)
(*                                                                         *)
(* The bound on the cache is about the pool as a whole: touch() counts its *)
(* ready entries and evicts one, so the oldest must exist and be one.      *)
(***************************************************************************)
EXTENDS SessionPreparations, SequenceTheorems, FiniteSetTheorems, TLAPS

-----------------------------------------------------------------------------
(* The inductive invariant.                                                *)

\* The entry of i is the one that c has joined, or made.
Joined(c, i) ==
    callers[c].id = i /\ Pooled(i) /\ callers[c].token = Entry(i).token

\* c has joined the entry, and has it for a commit or as a reservation.
Holder(c, i) == Holds(c) /\ Joined(c, i)

\* A queued commit or check belongs to a caller that awaits it, whose only one
\* it is.
OpsAtPlace(i) ==
    /\ \A k \in DOMAIN chain[i] : LET op == chain[i][k] IN
         /\ op.kind = "commit" => /\ callers[op.caller].pc = "committing"
                                  /\ callers[op.caller].id = i
                                  /\ callers[op.caller].source = op.source
         /\ op.kind = "check" => /\ callers[op.caller].pc = "checking"
                                 /\ callers[op.caller].id = i
    /\ \A k, l \in DOMAIN chain[i] :
         /\ chain[i][k].kind \in {"commit", "check"}
         /\ chain[i][l].kind \in {"commit", "check"}
         /\ chain[i][k].caller = chain[i][l].caller
         => k = l

\* An operation that runs is the first of the chain.  An append that is about
\* to write has a cursor.
HeadAtPlace(i) ==
    running[i] => /\ chain[i] # <<>>
                  /\ Head(chain[i]).kind = "append" /\ Head(chain[i]).stage = "write"
                     => tracked[i] # None

\* Each read is queued once; the read of an entry comes behind every commit of
\* an earlier one.
LoadsAtPlace(i) ==
    /\ \A k, l \in DOMAIN chain[i] :
         /\ chain[i][k].kind = "load" /\ chain[i][l].kind = "load"
         /\ chain[i][k].token = chain[i][l].token
         => k = l
    /\ Pooled(i) => \A k \in DOMAIN chain[i] :
         chain[i][k].kind = "load" /\ chain[i][k].token = Entry(i).token =>
           /\ Entry(i).phase = "loading"
           /\ \A l \in DOMAIN chain[i] : l > k => chain[i][l].kind # "commit"

\* A commit that is queued once the entry is read is one of its holder.
CommitsAtPlace(i) ==
    Pooled(i) /\ Entry(i).phase # "loading" =>
      \A k \in DOMAIN chain[i] : chain[i][k].kind = "commit" =>
        callers[chain[i][k].caller].token = Entry(i).token

\* The entry is locked for one caller exactly.
HoldersAtPhase(i) ==
    /\ \A c \in Caller : Holder(c, i) =>
         Entry(i).phase = IF callers[c].pc = "reserved" THEN "reserved" ELSE "committing"
    /\ \A c, d \in Caller : Holder(c, i) /\ Holder(d, i) => c = d
    /\ Locked(i) => \E c \in Caller : Holder(c, i)

\* A reservation is never lost to its caller, and a wait is for a lock.
WaitersAtPhase(i) ==
    \A c \in Caller : callers[c].id = i =>
      /\ callers[c].pc = "reserved" => Joined(c, i)
      /\ callers[c].pc = "settling" => Joined(c, i) /\ Locked(i)

\* A caller that is about to look at its entry finds it read.
ReadersAtPhase(i) ==
    \A c \in Caller :
      Joined(c, i) /\ callers[c].pc \in {"loaded", "woken"} => Entry(i).phase # "loading"

\* An append that has begun will end before the commit of a holder ...
AppendsFirst(i) ==
    Begun(i, "append") => \A c \in Caller : Holder(c, i) => callers[c].pc = "committing"

\* ... so that what was committed stays what is stored.
Bound(c) == \/ callers[c].pc = "reserved"
            \/ callers[c].pc = "committed" /\ callers[c].outcome = "ok"
SourceIsCurrent(i) ==
    \A c \in Caller :
      Holder(c, i) /\ Bound(c) =>
        callers[c].source = log[i] /\ ~log[i].broken /\ tracked[i] = Cursor(log[i])

LiveIsUnpooled(i) == live[i].state = "live" => ~Pooled(i)

Chained(i) == OpsAtPlace(i) /\ HeadAtPlace(i) /\ LoadsAtPlace(i)
Held(i) == /\ CommitsAtPlace(i) /\ HoldersAtPhase(i) /\ WaitersAtPhase(i)
           /\ ReadersAtPhase(i) /\ AppendsFirst(i) /\ SourceIsCurrent(i) /\ LiveIsUnpooled(i)

CallersAtPlace ==
    \A c \in Caller : callers[c].pc # "idle" => callers[c].id \in Id /\ callers[c].kind \in Kind

IInv == TypeOK /\ CallersAtPlace /\ \A i \in Id : Chained(i) /\ Held(i)

-----------------------------------------------------------------------------
(* Types.                                                                  *)

LEMMA Assumed ==
    /\ Capacity \in Nat \ {0} /\ MaxToken \in Nat
    /\ None \notin Id /\ None \notin Log /\ None \notin State
    /\ None \notin PreparationEntry
    /\ Asks \in [Caller -> SUBSET (Kind \X Id)]
BY PreparationsAssumption

\* The fields of a typed operation, by its kind.
LEMMA OpFields ==
    ASSUME NEW op \in Op
    PROVE  /\ op.kind \in {"commit", "check"} => op.caller \in Caller
           /\ op.kind = "commit" => op.source \in Log
           /\ op.kind = "load" => op.token \in Token
           /\ op.kind = "append" => /\ op.owned \in BOOLEAN /\ op.from \in Nat
                                    /\ op.stage \in {"queued", "adopt", "write"}
                                    /\ op.source \in Log \cup {None}
BY DEF Op

LEMMA SeqOps ==
    ASSUME NEW s \in Seq(Op)
    PROVE  /\ Len(s) \in Nat /\ DOMAIN s = 1..Len(s)
           /\ \A k \in DOMAIN s : k \in Nat /\ s[k] \in Op
           /\ s # <<>> => /\ 1 \in DOMAIN s /\ Head(s) = s[1] /\ Head(s) \in Op
                          /\ Tail(s) \in Seq(Op)
                          /\ Len(Tail(s)) = Len(s) - 1
                          /\ \A k \in DOMAIN Tail(s) : k + 1 \in DOMAIN s /\ Tail(s)[k] = s[k + 1]
OBVIOUS

LEMMA ChainTyped ==
    ASSUME NEW i \in Id
    PROVE  (TypeOK => chain[i] \in Seq(Op)) /\ (TypeOK' => chain'[i] \in Seq(Op))
BY DEF TypeOK

LEMMA EntryFields ==
    ASSUME NEW e \in PreparationEntry \cup {None}, e # None
    PROVE  /\ e \in PreparationEntry /\ e.token \in Token
           /\ e.phase \in {"loading", "ready", "committing", "reserved"}
           /\ e.phase # "loading" => e.source \in Log
BY DEF PreparationEntry

LEMMA EntryTyped ==
    ASSUME TypeOK, NEW i \in Id
    PROVE  /\ Entry(i) \in PreparationEntry \cup {None}
           /\ Pooled(i) => Entry(i).token \in Token /\ Phase(pool, i) = Entry(i).phase
           /\ ~Pooled(i) => Phase(pool, i) = "none"
           /\ Locked(i) <=> Pooled(i) /\ Entry(i).phase \in {"committing", "reserved"}
<1>1. Entry(i) \in PreparationEntry \cup {None}
  BY DEF TypeOK, Entry
<1>2. Phase(pool, i) = IF Pooled(i) THEN Entry(i).phase ELSE "none"
  BY DEF Phase, Pooled, Entry
<1> QED BY <1>1, <1>2, EntryFields DEF Pooled, Locked

LEMMA LockedNext ==
    ASSUME NEW i \in Id
    PROVE  Locked(i)' <=> Pooled(i)' /\ Entry(i)'.phase \in {"committing", "reserved"}
BY DEF Locked, Phase, Pooled, Entry

-----------------------------------------------------------------------------
(* What a step may do to one identity.                                     *)

\* Places at which a caller holds nothing and is owed nothing.
Free == {"idle", "entering", "loading", "loaded", "woken", "checked"}

SameCall(r, s) == r.pc = s.pc /\ r.id = s.id /\ r.token = s.token
                  /\ r.source = s.source /\ r.outcome = s.outcome
Off(r, i) == r.id # i \/ r.pc \in Free
Apart(c, i) == /\ ~Holder(c, i)
               /\ callers[c].id = i => callers[c].pc \notin {"reserved", "settling"}

\* The entry stays, or was ready and is evicted.
EntryStays(i) ==
    \/ pool'.entry[i] = Entry(i)
    \/ Phase(pool, i) = "ready" /\ pool'.entry[i] = None

LEMMA OffIsApart ==
    ASSUME NEW c, NEW i, Off(callers[c], i) PROVE Apart(c, i)
BY DEF Off, Apart, Holder, Joined, Holds, Free

\* Operations of the chain go, keep their order, or are replaced by one that
\* belongs to nobody.
Keyed == {"commit", "check", "load"}
Thinned(i, g) ==
    /\ \A k \in DOMAIN chain'[i] : chain'[i][k].kind \in Keyed =>
         g[k] \in DOMAIN chain[i] /\ chain'[i][k] = chain[i][g[k]]
    /\ \A k, l \in DOMAIN chain'[i] :
         chain'[i][k].kind \in Keyed /\ chain'[i][l].kind \in Keyed /\ k < l => g[k] < g[l]

LEMMA ChainKeeps ==
    ASSUME TypeOK, TypeOK', NEW i \in Id, Chained(i), HeadAtPlace(i)', NEW g, Thinned(i, g),
           \A k \in DOMAIN chain'[i] : chain'[i][k].kind \in {"commit", "check"} =>
             LET c == chain'[i][k].caller IN
             /\ callers'[c].pc = callers[c].pc /\ callers'[c].id = callers[c].id
             /\ callers'[c].source = callers[c].source,
           Pooled(i)' =>
             /\ Pooled(i) /\ Entry(i)'.token = Entry(i).token
             /\ \/ Entry(i)'.phase = Entry(i).phase
                \/ \A k \in DOMAIN chain'[i] :
                     chain'[i][k].kind = "load" => chain'[i][k].token # Entry(i).token
    PROVE  Chained(i)'
<1>1. \A k \in DOMAIN chain'[i] : chain'[i][k].kind \in Keyed =>
         g[k] \in DOMAIN chain[i] /\ chain'[i][k] = chain[i][g[k]]
  BY DEF Thinned
<1>2. \A k, l \in DOMAIN chain'[i] :
         /\ chain'[i][k].kind \in Keyed /\ chain'[i][l].kind \in Keyed
         => (g[k] = g[l] => k = l) /\ (k < l => g[k] < g[l])
  BY <1>1, SeqOps, ChainTyped DEF Thinned
<1>3. OpsAtPlace(i)'
  <2>1. ASSUME NEW k \in DOMAIN chain'[i],
               chain'[i][k].kind = "commit" \/ chain'[i][k].kind = "check"
        PROVE  /\ chain'[i][k].kind = "commit" =>
                    /\ callers'[chain'[i][k].caller].pc = "committing"
                    /\ callers'[chain'[i][k].caller].id = i
                    /\ callers'[chain'[i][k].caller].source = chain'[i][k].source
               /\ chain'[i][k].kind = "check" =>
                    /\ callers'[chain'[i][k].caller].pc = "checking"
                    /\ callers'[chain'[i][k].caller].id = i
    BY <1>1, <2>1 DEF OpsAtPlace, Chained, Keyed
  <2>2. ASSUME NEW k \in DOMAIN chain'[i], NEW l \in DOMAIN chain'[i],
               chain'[i][k].kind \in {"commit", "check"},
               chain'[i][l].kind \in {"commit", "check"},
               chain'[i][k].caller = chain'[i][l].caller
        PROVE  k = l
    BY <1>1, <1>2, <2>2 DEF OpsAtPlace, Chained, Keyed
  <2> QED BY <2>1, <2>2 DEF OpsAtPlace
<1>4. LoadsAtPlace(i)'
  <2>1. ASSUME NEW k \in DOMAIN chain'[i], NEW l \in DOMAIN chain'[i],
               chain'[i][k].kind = "load", chain'[i][l].kind = "load",
               chain'[i][k].token = chain'[i][l].token
        PROVE  k = l
    BY <1>1, <1>2, <2>1 DEF LoadsAtPlace, Chained, Keyed
  <2>2. ASSUME Pooled(i)', NEW k \in DOMAIN chain'[i],
               chain'[i][k].kind = "load", chain'[i][k].token = Entry(i)'.token
        PROVE  /\ Entry(i)'.phase = "loading"
               /\ \A l \in DOMAIN chain'[i] : l > k => chain'[i][l].kind # "commit"
    <3>1. /\ Pooled(i) /\ Entry(i)'.token = Entry(i).token
          /\ Entry(i)'.phase = Entry(i).phase
      BY <2>2
    <3>2. /\ g[k] \in DOMAIN chain[i] /\ chain[i][g[k]] = chain'[i][k]
      BY <1>1, <2>2 DEF Keyed
    <3>3. /\ Entry(i).phase = "loading"
          /\ \A l \in DOMAIN chain[i] : l > g[k] => chain[i][l].kind # "commit"
      BY <2>2, <3>1, <3>2 DEF Chained, LoadsAtPlace
    <3>4. ASSUME NEW l \in DOMAIN chain'[i], l > k, chain'[i][l].kind = "commit"
          PROVE  FALSE
      <4>1. k < l
        BY <3>4, SeqOps, ChainTyped
      <4>2. g[k] < g[l] /\ g[l] \in DOMAIN chain[i] /\ chain[i][g[l]].kind = "commit"
        BY <1>1, <1>2, <2>2, <3>4, <4>1 DEF Keyed
      <4>3. g[l] > g[k]
        BY <3>2, <4>2, SeqOps, ChainTyped
      <4> QED BY <3>3, <4>2, <4>3
    <3> QED BY <3>1, <3>3, <3>4
  <2> QED BY <2>1, <2>2 DEF LoadsAtPlace
<1> QED BY <1>3, <1>4 DEF Chained

\* An identity without an entry.
LEMMA EntryGone ==
    ASSUME TypeOK', NEW i \in Id, ~Pooled(i)',
           \A c \in Caller : callers'[c].id = i => callers'[c].pc \notin {"reserved", "settling"}
    PROVE  Held(i)' /\ (\A c : ~Joined(c, i)')
<1>1. \A c : ~Holder(c, i)' /\ ~Joined(c, i)'
  BY DEF Holder, Joined
<1>2. ~Locked(i)'
  BY LockedNext
<1> QED
  BY <1>1, <1>2
     DEF Held, CommitsAtPlace, HoldersAtPhase, WaitersAtPhase, ReadersAtPhase, AppendsFirst,
         SourceIsCurrent, LiveIsUnpooled

\* An identity whose entry stays, with its holders.
LEMMA EntryKept ==
    ASSUME TypeOK, TypeOK', NEW i \in Id, Chained(i), Held(i), EntryStays(i),
           WaitersAtPhase(i)', ReadersAtPhase(i)',
           \A c \in Caller : \/ SameCall(callers'[c], callers[c])
                             \/ ~Holder(c, i) /\ ~Holder(c, i)',
           \A k \in DOMAIN chain'[i] : chain'[i][k].kind = "commit" =>
             callers'[chain'[i][k].caller].token = callers[chain'[i][k].caller].token,
           \A k \in DOMAIN chain'[i] : chain'[i][k].kind = "commit" =>
             \E l \in DOMAIN chain[i] : chain'[i][k] = chain[i][l],
           Begun(i, "append")' => Begun(i, "append") \/ ~Locked(i),
           \/ log'[i] = log[i] /\ tracked'[i] = tracked[i]
           \/ \A c \in Caller : ~(Holder(c, i) /\ Bound(c)),
           live'[i].state = "live" => live[i].state = "live"
    PROVE  Held(i)'
<1>1. CASE pool'.entry[i] = None
  <2>1. ~Pooled(i)'
    BY <1>1 DEF Pooled, Entry
  <2>2. ~Locked(i)'
    BY <2>1, LockedNext
  <2>3. \A c \in Caller : callers'[c].id = i => callers'[c].pc \notin {"reserved", "settling"}
    BY <2>1, <2>2 DEF WaitersAtPhase, Joined
  <2> QED BY <2>1, <2>3, EntryGone
<1>2. CASE pool'.entry[i] = Entry(i) /\ pool'.entry[i] # None
  <2>1. /\ Pooled(i) /\ Pooled(i)' /\ Entry(i)' = Entry(i)
        /\ Locked(i)' <=> Locked(i)
    BY <1>2, EntryTyped, LockedNext DEF Pooled, Entry
  <2>2. \A c \in Caller :
          \/ SameCall(callers'[c], callers[c]) /\ (Holder(c, i)' <=> Holder(c, i))
          \/ ~Holder(c, i) /\ ~Holder(c, i)'
    BY <2>1 DEF SameCall, Holder, Joined, Holds
  <2>3. CommitsAtPlace(i)'
    BY <2>1 DEF Held, CommitsAtPlace
  <2>4. HoldersAtPhase(i)'
    <3>1. \A c \in Caller : Holder(c, i)' <=> Holder(c, i)
      BY <2>2
    <3>2. \A c \in Caller : Holder(c, i)' => callers'[c].pc = callers[c].pc
      BY <2>2 DEF SameCall
    <3> QED BY <2>1, <3>1, <3>2 DEF Held, HoldersAtPhase
  <2>6. AppendsFirst(i)'
    <3> SUFFICES ASSUME Begun(i, "append")', NEW c \in Caller, Holder(c, i)'
                 PROVE  callers'[c].pc = "committing"
      BY DEF AppendsFirst
    <3>1. Holder(c, i) /\ callers'[c].pc = callers[c].pc
      BY <2>2 DEF SameCall
    <3>2. Locked(i)
      BY <2>1, <3>1, EntryTyped DEF Held, HoldersAtPhase
    <3> QED BY <3>1, <3>2 DEF Held, AppendsFirst
  <2>7. SourceIsCurrent(i)'
    <3> SUFFICES ASSUME NEW c \in Caller, Holder(c, i)', Bound(c)'
                 PROVE  /\ callers'[c].source = log'[i] /\ ~log'[i].broken
                        /\ tracked'[i] = Cursor(log'[i])
      BY DEF SourceIsCurrent, Cursor
    <3>1. Holder(c, i) /\ SameCall(callers'[c], callers[c])
      BY <2>2
    <3>2. Bound(c)
      BY <3>1 DEF SameCall, Bound
    <3>3. log'[i] = log[i] /\ tracked'[i] = tracked[i]
      BY <3>1, <3>2
    <3> QED BY <3>1, <3>2, <3>3 DEF Held, SourceIsCurrent, SameCall
  <2>8. LiveIsUnpooled(i)'
    BY <2>1 DEF Held, LiveIsUnpooled
  <2> QED BY <2>3, <2>4, <2>6, <2>7, <2>8 DEF Held
<1> QED BY <1>1, <1>2 DEF EntryStays

LEMMA WaitersStay ==
    ASSUME TypeOK, TypeOK', NEW i \in Id, Held(i), EntryStays(i),
           \A c \in Caller : \/ SameCall(callers'[c], callers[c])
                             \/ Apart(c, i) /\ Apart(c, i)'
    PROVE  WaitersAtPhase(i)'
<1> SUFFICES ASSUME NEW c \in Caller, callers'[c].id = i,
                    callers'[c].pc \in {"reserved", "settling"}
             PROVE  /\ callers'[c].pc = "reserved" => Joined(c, i)'
                    /\ callers'[c].pc = "settling" => Joined(c, i)' /\ Locked(i)'
  BY DEF WaitersAtPhase
<1>1. SameCall(callers'[c], callers[c])
  BY DEF Apart
<1>2. /\ Joined(c, i)
      /\ callers[c].pc = "settling" => Locked(i)
      /\ callers[c].pc = "reserved" => Locked(i)
  <2>1. /\ Joined(c, i) /\ (callers[c].pc = "settling" => Locked(i))
        /\ callers[c].pc = "reserved" => Holder(c, i)
    BY <1>1 DEF SameCall, Held, WaitersAtPhase, Holder, Holds
  <2> QED BY <2>1, EntryTyped DEF Held, HoldersAtPhase, Holder, Joined
<1>3. Locked(i)
  BY <1>1, <1>2 DEF SameCall
<1>4. Pooled(i) /\ Entry(i)' = Entry(i) /\ Pooled(i)'
  BY <1>3, EntryTyped DEF EntryStays, Locked, Pooled, Entry
<1>5. Joined(c, i)' /\ Locked(i)'
  BY <1>1, <1>2, <1>3, <1>4, EntryTyped, LockedNext DEF Joined, SameCall
<1> QED BY <1>5

\* The chain only loses operations that belong to somebody.
Thins(i) == \E g : Thinned(i, g)

\* Most steps: the entry stays, and only callers that have nothing at i move.
LEMMA MildKeeps ==
    ASSUME TypeOK, TypeOK', NEW i \in Id, Chained(i), Held(i),
           Thins(i), HeadAtPlace(i)', EntryStays(i),
           \A c \in Caller :
             \/ SameCall(callers'[c], callers[c])
             \/ /\ Apart(c, i) /\ Apart(c, i)'
                /\ \A k \in DOMAIN chain'[i] :
                     chain'[i][k].kind \in {"commit", "check"} => chain'[i][k].caller # c,
           Begun(i, "append")' => Begun(i, "append") \/ ~Locked(i),
           \/ log'[i] = log[i] /\ tracked'[i] = tracked[i]
           \/ \A c \in Caller : ~(Holder(c, i) /\ Bound(c)),
           live'[i].state = "live" => live[i].state = "live", ReadersAtPhase(i)'
    PROVE  Chained(i)' /\ Held(i)'
<1>1. PICK g : Thinned(i, g)
  BY DEF Thins
<1>2. \A k \in DOMAIN chain'[i] : chain'[i][k].kind \in {"commit", "check"} =>
         SameCall(callers'[chain'[i][k].caller], callers[chain'[i][k].caller])
  BY ChainTyped, SeqOps, OpFields
<1>3. \A k \in DOMAIN chain'[i] : chain'[i][k].kind = "commit" =>
         \E l \in DOMAIN chain[i] : chain'[i][k] = chain[i][l]
  BY <1>1 DEF Thinned, Keyed
<1>4. Pooled(i)' => Pooled(i) /\ Entry(i)' = Entry(i)
  BY DEF EntryStays, Pooled, Entry
<1>5. Chained(i)'
  BY <1>1, <1>2, <1>4, ChainKeeps DEF SameCall
<1>6. \A c \in Caller : \/ SameCall(callers'[c], callers[c])
                        \/ Apart(c, i) /\ Apart(c, i)'
  OBVIOUS
<1>9. WaitersAtPhase(i)'
  BY <1>6, WaitersStay
<1>7. \A k \in DOMAIN chain'[i] : chain'[i][k].kind = "commit" =>
         callers'[chain'[i][k].caller].token = callers[chain'[i][k].caller].token
  BY <1>2 DEF SameCall
<1>8. Held(i)'
  BY <1>3, <1>6, <1>7, <1>9, EntryKept DEF Apart
<1> QED BY <1>5, <1>8

LEMMA ChainStays ==
    ASSUME TypeOK, NEW i \in Id, chain'[i] = chain[i] PROVE Thins(i)
<1>1. \A k \in DOMAIN chain[i] : k \in Nat
  BY ChainTyped, SeqOps
<1>2. Thinned(i, [k \in DOMAIN chain[i] |-> k])
  BY <1>1 DEF Thinned
<1> QED BY <1>2 DEF Thins

LEMMA ChainPops ==
    ASSUME TypeOK, NEW i \in Id, chain[i] # <<>>, chain'[i] = Tail(chain[i]) PROVE Thins(i)
<1>1. /\ \A k \in DOMAIN chain'[i] : k \in Nat /\ k + 1 \in DOMAIN chain[i]
                                     /\ chain'[i][k] = chain[i][k + 1]
  BY ChainTyped, SeqOps
<1>2. Thinned(i, [k \in DOMAIN chain'[i] |-> k + 1])
  BY <1>1 DEF Thinned
<1> QED BY <1>2 DEF Thins

LEMMA ChainGrows ==
    ASSUME TypeOK, NEW i \in Id, NEW op \in Op, op.kind \notin Keyed,
           chain'[i] = Append(chain[i], op)
    PROVE  Thins(i)
<1>1. \A k \in DOMAIN chain'[i] :
         /\ k \in Nat
         /\ (k \in DOMAIN chain[i] /\ chain'[i][k] = chain[i][k]) \/ chain'[i][k] = op
  BY ChainTyped
<1>2. Thinned(i, [k \in DOMAIN chain'[i] |-> k])
  BY <1>1 DEF Thinned
<1> QED BY <1>2 DEF Thins

\* The first operation becomes one that belongs to nobody.
LEMMA ChainStages ==
    ASSUME TypeOK, NEW i \in Id, chain[i] # <<>>, NEW op, op.kind \notin Keyed,
           chain'[i] = [chain[i] EXCEPT ![1] = op]
    PROVE  Thins(i)
<1>1. \A k \in DOMAIN chain'[i] :
         /\ k \in Nat
         /\ (k \in DOMAIN chain[i] /\ chain'[i][k] = chain[i][k]) \/ chain'[i][k] = op
  BY ChainTyped, SeqOps
<1>2. Thinned(i, [k \in DOMAIN chain'[i] |-> k])
  BY <1>1 DEF Thinned
<1> QED BY <1>2 DEF Thins

\* What is left of a sequence without its k-th element.
LEMMA RemovedAt ==
    ASSUME NEW s \in Seq(Op), NEW k \in DOMAIN s
    PROVE  /\ RemoveAt(s, k) \in Seq(Op)
           /\ Len(RemoveAt(s, k)) = Len(s) - 1
           /\ \A l \in DOMAIN RemoveAt(s, k) :
                /\ l \in Nat
                /\ l < k => l \in DOMAIN s /\ RemoveAt(s, k)[l] = s[l]
                /\ l >= k => l + 1 \in DOMAIN s /\ RemoveAt(s, k)[l] = s[l + 1]
<1>1. /\ Len(s) \in Nat /\ k \in 1..Len(s) /\ k - 1 \in Nat /\ k + 1 \in Nat
  OBVIOUS
<1> DEFINE before == SubSeq(s, 1, k - 1)
           after == SubSeq(s, k + 1, Len(s))
<1>2. /\ before \in Seq(Op) /\ Len(before) = k - 1
      /\ \A l \in 1..k - 1 : before[l] = s[l]
  BY <1>1
<1>3. /\ after \in Seq(Op) /\ Len(after) = Len(s) - k
      /\ \A l \in 1..Len(s) - k : after[l] = s[l + k]
  BY <1>1
<1> DEFINE whole == before \o after
<1>4. RemoveAt(s, k) = whole
  BY DEF RemoveAt
<1> HIDE DEF before, after
<1>5. /\ whole \in Seq(Op) /\ Len(whole) = Len(before) + Len(after)
      /\ \A l \in 1..Len(before) + Len(after) :
           whole[l] = IF l <= Len(before) THEN before[l] ELSE after[l - Len(before)]
  BY <1>2, <1>3, ConcatProperties
<1> HIDE DEF whole
<1>6. Len(whole) = Len(s) - 1 /\ DOMAIN whole = 1..Len(s) - 1
  <2>1. Len(before) + Len(after) = Len(s) - 1
    BY <1>1, <1>2, <1>3
  <2> QED BY <1>5, <2>1
<1>7. ASSUME NEW l \in 1..Len(s) - 1
      PROVE  /\ l \in Nat /\ l \in DOMAIN s /\ l + 1 \in DOMAIN s
             /\ l < k => whole[l] = s[l]
             /\ l >= k => whole[l] = s[l + 1]
  <2>1. l \in Nat /\ l \in DOMAIN s /\ l + 1 \in DOMAIN s
    BY <1>1
  <2>2. whole[l] = IF l <= k - 1 THEN before[l] ELSE after[l - (k - 1)]
    <3>1. Len(before) + Len(after) = Len(s) - 1 /\ Len(before) = k - 1
      BY <1>1, <1>2, <1>3
    <3> QED BY <1>5, <3>1
  <2>3. l < k => before[l] = s[l] /\ l <= k - 1
    BY <1>1, <1>2
  <2>4. ASSUME l >= k PROVE after[l - (k - 1)] = s[l + 1] /\ ~(l <= k - 1)
    <3> DEFINE m == l - (k - 1)
    <3>1. m \in 1..Len(s) - k /\ m + k = l + 1 /\ ~(l <= k - 1)
      BY <1>1, <2>4
    <3> HIDE DEF m
    <3>2. after[m] = s[l + 1]
      BY <1>3, <3>1
    <3> QED BY <3>1, <3>2 DEF m
  <2> QED BY <2>1, <2>2, <2>3, <2>4
<1> QED BY <1>4, <1>5, <1>6, <1>7

LEMMA ChainLoses ==
    ASSUME TypeOK, NEW i \in Id, NEW k \in DOMAIN chain[i], chain'[i] = RemoveAt(chain[i], k)
    PROVE  Thins(i)
<1> DEFINE g == [l \in DOMAIN chain'[i] |-> IF l < k THEN l ELSE l + 1]
<1>1. \A l \in DOMAIN chain'[i] :
         l \in Nat /\ g[l] \in DOMAIN chain[i] /\ chain'[i][l] = chain[i][g[l]]
  BY ChainTyped, RemovedAt
<1>2. k \in Nat
  BY ChainTyped, SeqOps
<1>3. \A l, m \in DOMAIN chain'[i] : l < m => g[l] < g[m]
  BY <1>1, <1>2
<1> HIDE DEF g
<1>4. Thinned(i, g)
  BY <1>1, <1>3 DEF Thinned
<1> QED BY <1>4 DEF Thins

-----------------------------------------------------------------------------
(* The operators on the pool and on the callers.                           *)

AnyPool(p) ==
    /\ p = [entry |-> p.entry, before |-> p.before]
    /\ p.entry \in [Id -> PreparationEntry \cup {None}]

LEMMA PoolTyped == TypeOK => AnyPool(pool)
BY DEF TypeOK, AnyPool

LEMMA WithoutIs ==
    ASSUME NEW p, AnyPool(p), NEW S
    PROVE  /\ AnyPool(Without(p, S))
           /\ \A j \in Id : Without(p, S).entry[j] = IF j \in S THEN None ELSE p.entry[j]
BY DEF AnyPool, Without

\* A pool whose entries stay, or were ready and are evicted.
Evicts(q, p) ==
    /\ AnyPool(q)
    /\ \A j \in Id : \/ q.entry[j] = p.entry[j]
                     \/ Phase(p, j) = "ready" /\ q.entry[j] = None

LEMMA TouchedIs ==
    ASSUME NEW p, AnyPool(p), NEW i
    PROVE  Evicts(Touched(p, i), p)
<1> DEFINE before == SetLast(p, i)
           q == [p EXCEPT !.before = before]
<1>1. q = [entry |-> p.entry, before |-> before]
  <2> HIDE DEF before
  <2> QED BY DEF AnyPool
<1>2. AnyPool(q) /\ q.entry = p.entry
  BY <1>1 DEF AnyPool
<1>3. \A j \in Oldest(q) : Phase(p, j) = "ready"
  BY <1>2 DEF Oldest, Ready, Phase
<1>4. Touched(p, i) = IF Cardinality(Ready(q)) > Capacity THEN Without(q, Oldest(q)) ELSE q
  BY DEF Touched
<1> HIDE DEF before, q
<1> QED BY <1>2, <1>3, <1>4, WithoutIs DEF Evicts

LEMMA ReadiedIs ==
    ASSUME NEW p, AnyPool(p), NEW i \in Id, NEW source \in Log,
           p.entry[i] \in PreparationEntry
    PROVE  /\ AnyPool(Readied(p, i, source))
           /\ \A j \in Id \ {i} :
                \/ Readied(p, i, source).entry[j] = p.entry[j]
                \/ Phase(p, j) = "ready" /\ Readied(p, i, source).entry[j] = None
           /\ Readied(p, i, source).entry[i] # None =>
                /\ Readied(p, i, source).entry[i].phase = "ready"
                /\ Readied(p, i, source).entry[i].token = p.entry[i].token
<1> DEFINE e == [p.entry[i] EXCEPT !.phase = "ready", !.source = source]
           q == [p EXCEPT !.entry[i].phase = "ready", !.entry[i].source = source]
           entry == [p.entry EXCEPT ![i] = e]
<1>1. e \in PreparationEntry /\ e.phase = "ready" /\ e.token = p.entry[i].token
  BY DEF PreparationEntry
<1>2. q = [p EXCEPT !.entry = entry]
  BY DEF AnyPool
<1> HIDE DEF e, q
<1>3. entry \in [Id -> PreparationEntry \cup {None}] /\ entry[i] = e
      /\ \A j \in Id \ {i} : entry[j] = p.entry[j]
  BY <1>1 DEF AnyPool
<1> HIDE DEF entry
<1>4. AnyPool(q) /\ q.entry = entry
  BY <1>2, <1>3 DEF AnyPool
<1>5. Evicts(Touched(q, i), q)
  BY <1>4, TouchedIs
<1>6. Readied(p, i, source) = Touched(q, i)
  BY DEF Readied, q
<1>7. \A j \in Id \ {i} : Phase(q, j) = Phase(p, j)
  BY <1>3, <1>4 DEF Phase
<1> QED BY <1>1, <1>3, <1>4, <1>5, <1>6, <1>7 DEF Evicts

LEMMA WithIs ==
    ASSUME NEW p, AnyPool(p), NEW i \in Id, NEW t \in Token
    PROVE  /\ AnyPool(With(p, i, t))
           /\ \A j \in Id \ {i} : With(p, i, t).entry[j] = p.entry[j]
           /\ With(p, i, t).entry[i] # None
           /\ With(p, i, t).entry[i].token = t /\ With(p, i, t).entry[i].phase = "loading"
<1> DEFINE e == [token |-> t, phase |-> "loading", source |-> None]
<1>1. e \in PreparationEntry /\ e # None /\ e.token = t /\ e.phase = "loading"
  BY Assumed DEF PreparationEntry
<1>2. With(p, i, t) = [entry |-> [p.entry EXCEPT ![i] = e], before |-> SetLast(p, i)]
  BY DEF With
<1> HIDE DEF e
<1> QED BY <1>1, <1>2 DEF AnyPool

Relocked(p, i, phase) == [p EXCEPT !.entry[i].phase = phase]

LEMMA RelockedIs ==
    ASSUME NEW p, AnyPool(p), NEW i \in Id, NEW phase \in {"committing", "reserved"},
           p.entry[i] \in PreparationEntry, p.entry[i].phase # "loading"
    PROVE  /\ AnyPool(Relocked(p, i, phase))
           /\ \A j \in Id \ {i} : Relocked(p, i, phase).entry[j] = p.entry[j]
           /\ Relocked(p, i, phase).entry[i] # None
           /\ Relocked(p, i, phase).entry[i].phase = phase
           /\ Relocked(p, i, phase).entry[i].token = p.entry[i].token
<1> DEFINE e == [p.entry[i] EXCEPT !.phase = phase]
<1>1. e \in PreparationEntry /\ e.phase = phase /\ e.token = p.entry[i].token
  BY DEF PreparationEntry
<1>2. e # None
  BY <1>1, Assumed
<1>3. Relocked(p, i, phase) = [p EXCEPT !.entry = [p.entry EXCEPT ![i] = e]]
  BY DEF Relocked, AnyPool
<1> HIDE DEF e
<1> QED BY <1>1, <1>2, <1>3 DEF AnyPool

-----------------------------------------------------------------------------
AnyCallers(cs) == cs \in [Caller -> CallRecord]

LEMMA CallFields ==
    ASSUME NEW r \in CallRecord
    PROVE  /\ r.pc \in {"idle", "entering", "loading", "loaded", "woken", "settling",
                        "committing", "committed", "checking", "checked", "reserved"}
           /\ r.kind \in Kind \cup {"none"} /\ r.id \in Id \cup {None}
           /\ r.token \in 0..MaxToken /\ r.source \in Log \cup {None}
           /\ r.outcome \in {"none", "ok", "error"}
           /\ r.aborted \in BOOLEAN /\ r.waits \in BOOLEAN
BY DEF CallRecord

LEMMA IdleTyped == Idle \in CallRecord /\ Idle.pc = "idle" /\ Idle.id = None
BY Assumed DEF Idle, CallRecord

\* Settled, Overtaken and Awaited move callers of one identity between places
\* that hold nothing.
Wakes(cs, ds, i, from) ==
    /\ AnyCallers(cs)
    /\ \A c \in Caller :
         \/ SameCall(cs[c], ds[c]) /\ cs[c].kind = ds[c].kind
         \/ /\ ds[c].id = i /\ cs[c].id = i /\ cs[c].kind = ds[c].kind
            /\ ds[c].pc = from /\ cs[c].pc = "woken" /\ cs[c].token = ds[c].token

LEMMA SettledIs ==
    ASSUME NEW cs, AnyCallers(cs), NEW i
    PROVE  /\ Wakes(Settled(cs, i), cs, i, "settling")
           /\ \A c \in Caller : Settled(cs, i)[c].id = i => Settled(cs, i)[c].pc # "settling"
BY DEF AnyCallers, Settled, Wakes, SameCall, CallRecord

LEMMA OvertakenIs ==
    ASSUME NEW cs, AnyCallers(cs), NEW i
    PROVE  Wakes(Overtaken(cs, i), cs, i, "loaded")
BY DEF AnyCallers, Overtaken, Wakes, SameCall, CallRecord

LEMMA AwaitedIs ==
    ASSUME NEW cs, AnyCallers(cs), NEW i
    PROVE  /\ AnyCallers(Awaited(cs, i))
           /\ \A c \in Caller : /\ SameCall(Awaited(cs, i)[c], cs[c])
                                /\ Awaited(cs, i)[c].kind = cs[c].kind
<1>1. \A c \in Caller : Awaited(cs, i)[c] = cs[c]
                        \/ Awaited(cs, i)[c] = [cs[c] EXCEPT !.waits = FALSE]
  BY DEF Awaited
<1>2. \A r \in CallRecord : /\ [r EXCEPT !.waits = FALSE] \in CallRecord
                           /\ SameCall([r EXCEPT !.waits = FALSE], r)
                           /\ [r EXCEPT !.waits = FALSE].kind = r.kind
  BY DEF CallRecord, SameCall
<1>3. \A c \in Caller : cs[c] \in CallRecord
  BY DEF AnyCallers
<1>4. \A c \in Caller : /\ Awaited(cs, i)[c] \in CallRecord
                        /\ SameCall(Awaited(cs, i)[c], cs[c])
                        /\ Awaited(cs, i)[c].kind = cs[c].kind
  BY <1>1, <1>2, <1>3, ZenonT(30) DEF SameCall
<1> QED BY <1>4 DEF AnyCallers, Awaited

Entering(kind, id, waits) ==
    [Idle EXCEPT !.pc = "entering", !.kind = kind, !.id = id, !.waits = waits]

LEMMA EnteringTyped ==
    ASSUME NEW kind \in Kind \cup {"none"}, NEW id \in Id \cup {None}, NEW waits \in BOOLEAN
    PROVE  /\ Entering(kind, id, waits) \in CallRecord
           /\ Entering(kind, id, waits).pc = "entering"
           /\ Entering(kind, id, waits).id = id /\ Entering(kind, id, waits).kind = kind
<1>1. Idle \in CallRecord
  BY IdleTyped
<1>2. \A r \in CallRecord :
        [r EXCEPT !.pc = "entering", !.kind = kind, !.id = id, !.waits = waits] \in CallRecord
  BY ZenonT(30) DEF CallRecord
<1>3. \A r \in CallRecord :
        LET s == [r EXCEPT !.pc = "entering", !.kind = kind, !.id = id, !.waits = waits] IN
        s.pc = "entering" /\ s.id = id /\ s.kind = kind
  BY DEF CallRecord
<1> QED BY <1>1, <1>2, <1>3 DEF Entering

LEMMA RetriedIs ==
    ASSUME NEW cs, AnyCallers(cs), NEW c \in Caller
    PROVE  /\ AnyCallers(Retried(cs, c))
           /\ \A d \in Caller \ {c} : Retried(cs, c)[d] = cs[d]
           /\ Retried(cs, c)[c].pc = "entering" /\ Retried(cs, c)[c].id = cs[c].id
           /\ Retried(cs, c)[c].kind = cs[c].kind
<1> DEFINE waits == live[cs[c].id].state = "retiring"
           r == Entering(cs[c].kind, cs[c].id, waits)
<1>1. r \in CallRecord /\ r.pc = "entering" /\ r.id = cs[c].id /\ r.kind = cs[c].kind
  <2>1. cs[c].kind \in Kind \cup {"none"} /\ cs[c].id \in Id \cup {None}
    BY CallFields DEF AnyCallers
  <2>2. waits \in BOOLEAN
    OBVIOUS
  <2> HIDE DEF waits
  <2> QED BY <2>1, <2>2, EnteringTyped
<1>2. Retried(cs, c) = [cs EXCEPT ![c] = r]
  BY DEF Retried, AnyCallers, Entering
<1> HIDE DEF r
<1> QED BY <1>1, <1>2 DEF AnyCallers

\* A caller leaves, or takes the place r.
LEMMA PlacedIs ==
    ASSUME NEW cs, AnyCallers(cs), NEW c \in Caller, NEW r \in CallRecord
    PROVE  /\ AnyCallers([cs EXCEPT ![c] = r])
           /\ [cs EXCEPT ![c] = r][c] = r
           /\ \A d \in Caller \ {c} : [cs EXCEPT ![c] = r][d] = cs[d]
BY DEF AnyCallers

-----------------------------------------------------------------------------
(* The identities that a step does not act on.                             *)

LEMMA ElsewhereKeeps ==
    ASSUME TypeOK, TypeOK', NEW i \in Id, Chained(i), Held(i),
           log'[i] = log[i], tracked'[i] = tracked[i], live'[i].state = live[i].state,
           chain'[i] = chain[i], running'[i] = running[i], EntryStays(i), ReadersAtPhase(i)',
           \A c \in Caller : \/ SameCall(callers'[c], callers[c])
                             \/ Off(callers[c], i) /\ Off(callers'[c], i)
    PROVE  Chained(i)' /\ Held(i)'
<1>1. Thins(i)
  BY ChainStays
<1>2. HeadAtPlace(i)'
  BY DEF HeadAtPlace, Chained
<1>3. \A k \in DOMAIN chain'[i] : chain'[i][k].kind \in {"commit", "check"} =>
         ~Off(callers[chain'[i][k].caller], i)
  BY DEF Chained, OpsAtPlace, Off, Free
<1>4. \A c \in Caller :
         \/ SameCall(callers'[c], callers[c])
         \/ /\ Apart(c, i) /\ Apart(c, i)'
            /\ \A k \in DOMAIN chain'[i] :
                 chain'[i][k].kind \in {"commit", "check"} => chain'[i][k].caller # c
  <2>1. \A c : Off(callers'[c], i) => Apart(c, i)'
    BY DEF Off, Apart, Holder, Joined, Holds, Free
  <2> QED BY <1>3, <2>1, OffIsApart
<1>5. Begun(i, "append")' => Begun(i, "append")
  BY DEF Begun
<1> QED BY <1>1, <1>2, <1>4, <1>5, MildKeeps

\* A step that acts on i keeps the invariant if it keeps it at i.
LEMMA OthersKeep ==
    ASSUME IInv, TypeOK', CallersAtPlace', NEW i \in Id,
           \A j \in Id \ {i} :
             /\ log'[j] = log[j] /\ tracked'[j] = tracked[j]
             /\ live'[j].state = live[j].state
             /\ chain'[j] = chain[j] /\ running'[j] = running[j] /\ EntryStays(j),
           \A c \in Caller : \/ SameCall(callers'[c], callers[c])
                             \/ callers[c].id = i /\ callers'[c].id \in {i, None},
           Chained(i)', Held(i)'
    PROVE  IInv'
<1>1. ASSUME NEW j \in Id \ {i} PROVE Chained(j)' /\ Held(j)'
  <2>1. \A c \in Caller : \/ SameCall(callers'[c], callers[c])
                          \/ Off(callers[c], j) /\ Off(callers'[c], j)
    BY Assumed DEF Off
  <2>2. TypeOK /\ Chained(j) /\ Held(j)
    BY DEF IInv
  <2>3. ReadersAtPhase(j)'
    <3> SUFFICES ASSUME NEW c \in Caller, Joined(c, j)', callers'[c].pc \in {"loaded", "woken"}
                 PROVE  Entry(j)'.phase # "loading"
      BY DEF ReadersAtPhase
    <3>1. SameCall(callers'[c], callers[c]) /\ EntryStays(j)
      BY Assumed DEF Joined
    <3>2. Pooled(j) /\ Entry(j)' = Entry(j) /\ Joined(c, j)
      BY <3>1 DEF EntryStays, Joined, Pooled, Entry, SameCall
    <3> QED BY <2>2, <3>1, <3>2 DEF Held, ReadersAtPhase, SameCall
  <2> QED BY <2>1, <2>2, <2>3, ElsewhereKeeps
<1> QED BY <1>1 DEF IInv

LEMMA TypesKeep ==
    ASSUME log' \in [Id -> Log], tracked' \in [Id -> State \cup {None}],
           live' \in [Id -> [state : {"none", "live", "retiring", "failed"},
                             next : Nat, dirty : BOOLEAN]],
           chain' \in [Id -> Seq(Op)], running' \in [Id -> BOOLEAN],
           AnyPool(pool'), AnyCallers(callers')
    PROVE  TypeOK'
BY DEF TypeOK, AnyPool, AnyCallers

LEMMA Typed ==
    ASSUME TypeOK
    PROVE  /\ log \in [Id -> Log] /\ tracked \in [Id -> State \cup {None}]
           /\ live \in [Id -> [state : {"none", "live", "retiring", "failed"},
                               next : Nat, dirty : BOOLEAN]]
           /\ chain \in [Id -> Seq(Op)] /\ running \in [Id -> BOOLEAN]
           /\ AnyPool(pool) /\ AnyCallers(callers)
           /\ \A c \in Caller : callers[c] \in CallRecord
           /\ \A i \in Id : log[i] \in Log /\ live[i].next \in Nat
BY DEF TypeOK, AnyPool, AnyCallers

LEMMA QueueIs ==
    ASSUME TypeOK, NEW i \in Id, NEW op \in Op, Queue(i, op)
    PROVE  /\ chain' \in [Id -> Seq(Op)] /\ chain'[i] = Append(chain[i], op)
           /\ \A j \in Id \ {i} : chain'[j] = chain[j]
           /\ chain'[i] # <<>> /\ (chain[i] # <<>> => Head(chain'[i]) = Head(chain[i]))
           /\ \A k \in DOMAIN chain'[i] :
                \/ k \in DOMAIN chain[i] /\ chain'[i][k] = chain[i][k]
                \/ k = Len(chain[i]) + 1 /\ chain'[i][k] = op
<1>1. /\ chain[i] \in Seq(Op)
      /\ chain' = [chain EXCEPT ![i] = Append(chain[i], op)] /\ chain \in [Id -> Seq(Op)]
  BY Typed DEF Queue
<1>2. Append(chain[i], op) \in Seq(Op)
  BY <1>1
<1>3. chain'[i] = Append(chain[i], op) /\ chain' \in [Id -> Seq(Op)]
      /\ \A j \in Id \ {i} : chain'[j] = chain[j]
  BY <1>1, <1>2
<1> QED BY <1>1, <1>3

LEMMA PopIs ==
    ASSUME TypeOK, NEW i \in Id, chain[i] # <<>>, Pop(i)
    PROVE  /\ chain' \in [Id -> Seq(Op)] /\ chain'[i] = Tail(chain[i])
           /\ running' \in [Id -> BOOLEAN] /\ ~running'[i]
           /\ \A j \in Id \ {i} : chain'[j] = chain[j] /\ running'[j] = running[j]
           /\ Thins(i) /\ HeadAtPlace(i)' /\ ~Begun(i, "append")'
<1>1. /\ chain[i] \in Seq(Op) /\ Tail(chain[i]) \in Seq(Op)
  BY Typed
<1>2. /\ chain' \in [Id -> Seq(Op)] /\ chain'[i] = Tail(chain[i])
      /\ running' \in [Id -> BOOLEAN] /\ running'[i] = FALSE
      /\ \A j \in Id \ {i} : chain'[j] = chain[j] /\ running'[j] = running[j]
  BY <1>1, Typed DEF Pop
<1> QED BY <1>2, ChainPops DEF HeadAtPlace, Begun

\* Nobody moves but c, who takes the place r at its identity or leaves it.
LEMMA PlaceIs ==
    ASSUME TypeOK, CallersAtPlace, NEW c \in Caller, NEW r \in CallRecord,
           callers' = [callers EXCEPT ![c] = r],
           r.pc # "idle" => r.id \in Id /\ r.kind \in Kind
    PROVE  /\ AnyCallers(callers') /\ CallersAtPlace' /\ callers'[c] = r
           /\ \A d \in Caller \ {c} : callers'[d] = callers[d]
           /\ \A d \in Caller \ {c} : SameCall(callers'[d], callers[d])
<1>1. /\ AnyCallers(callers') /\ callers'[c] = r
      /\ \A d \in Caller \ {c} : callers'[d] = callers[d]
  <2>1. callers \in [Caller -> CallRecord]
    BY Typed DEF AnyCallers
  <2> QED BY <2>1 DEF AnyCallers
<1> QED BY <1>1 DEF CallersAtPlace, SameCall

-----------------------------------------------------------------------------
(* Calls, up to their wait for storage.                                    *)

\* A step at which callers that hold nothing go on, and entries are evicted.
LEMMA RoamKeeps ==
    ASSUME IInv, TypeOK', CallersAtPlace',
           UNCHANGED <<log, tracked, chain, running>>,
           \A i \in Id : live'[i].state = live[i].state /\ EntryStays(i) /\ ReadersAtPhase(i)',
           \A c \in Caller : \/ SameCall(callers'[c], callers[c])
                             \/ callers[c].pc \in Free /\ callers'[c].pc \in Free
    PROVE  IInv'
<1>1. ASSUME NEW i \in Id PROVE Chained(i)' /\ Held(i)'
  <2>1. \A c \in Caller : \/ SameCall(callers'[c], callers[c])
                          \/ Off(callers[c], i) /\ Off(callers'[c], i)
    BY DEF Off
  <2>2. TypeOK /\ Chained(i) /\ Held(i)
    BY DEF IInv
  <2> QED BY <2>1, <2>2, ElsewhereKeeps
<1> QED BY <1>1 DEF IInv

LEMMA SamePool ==
    ASSUME pool' = pool, NEW i PROVE EntryStays(i)
BY DEF EntryStays, Entry

\* A caller starts over.
LEMMA RetryIs ==
    ASSUME TypeOK, CallersAtPlace, NEW c \in Caller, callers[c].pc # "idle",
           callers' = Retried(callers, c)
    PROVE  /\ AnyCallers(callers') /\ CallersAtPlace'
           /\ \A d \in Caller \ {c} : callers'[d] = callers[d]
           /\ \A d \in Caller \ {c} : SameCall(callers'[d], callers[d])
           /\ callers'[c].pc = "entering" /\ callers'[c].id = callers[c].id
<1>1. /\ AnyCallers(callers')
      /\ \A d \in Caller \ {c} : callers'[d] = callers[d]
      /\ callers'[c].pc = "entering" /\ callers'[c].id = callers[c].id
      /\ callers'[c].kind = callers[c].kind
  BY Typed, RetriedIs
<1> QED BY <1>1 DEF CallersAtPlace, SameCall

LEMMA GotoIs ==
    ASSUME TypeOK, CallersAtPlace, NEW c \in Caller, callers[c].pc # "idle",
           NEW pc \in {"settling", "checking"}, Goto(c, pc)
    PROVE  /\ AnyCallers(callers') /\ CallersAtPlace'
           /\ \A d \in Caller \ {c} : callers'[d] = callers[d]
           /\ \A d \in Caller \ {c} : SameCall(callers'[d], callers[d])
           /\ callers'[c].pc = pc /\ callers'[c].id = callers[c].id
           /\ callers'[c].token = callers[c].token
<1> DEFINE r == [callers[c] EXCEPT !.pc = pc]
<1>1. callers[c] \in CallRecord /\ callers[c].id \in Id /\ callers[c].kind \in Kind
  BY Typed DEF CallersAtPlace
<1>2. r \in CallRecord /\ r.pc = pc /\ r.id = callers[c].id /\ r.kind = callers[c].kind
      /\ r.token = callers[c].token
  BY <1>1 DEF CallRecord
<1>3. callers' = [callers EXCEPT ![c] = r]
  BY Typed DEF Goto, AnyCallers
<1> HIDE DEF r
<1> QED BY <1>1, <1>2, <1>3, PlaceIs

LEMMA ReturnIs ==
    ASSUME TypeOK, CallersAtPlace, NEW c \in Caller, callers' = [callers EXCEPT ![c] = Idle]
    PROVE  /\ AnyCallers(callers') /\ CallersAtPlace'
           /\ \A d \in Caller \ {c} : callers'[d] = callers[d]
           /\ \A d \in Caller \ {c} : SameCall(callers'[d], callers[d])
           /\ callers'[c].pc = "idle" /\ callers'[c].id = None
BY IdleTyped, PlaceIs

\* Readers stay readers of the same entry, when nobody else comes to read.
LEMMA ReadersStay ==
    ASSUME NEW i \in Id, Held(i), EntryStays(i),
           \A c \in Caller :
             \/ SameCall(callers'[c], callers[c])
             \/ callers'[c].id # i
             \/ callers'[c].pc \notin {"loaded", "woken"}
             \/ callers'[c].pc = "woken" /\ callers[c].pc = "loaded"
                /\ callers'[c].id = callers[c].id /\ callers'[c].token = callers[c].token
    PROVE  ReadersAtPhase(i)'
<1> SUFFICES ASSUME NEW c \in Caller, Joined(c, i)', callers'[c].pc \in {"loaded", "woken"}
             PROVE  Entry(i)'.phase # "loading"
  BY DEF ReadersAtPhase
<1>1. Pooled(i) /\ Entry(i)' = Entry(i)
  BY DEF EntryStays, Joined, Pooled, Entry
<1>2. Joined(c, i) /\ callers[c].pc \in {"loaded", "woken"}
  BY <1>1 DEF Joined, SameCall
<1> QED BY <1>1, <1>2 DEF Held, ReadersAtPhase

LEMMA CallKeeps ==
    ASSUME IInv, NEW c \in Caller, NEW kind \in Kind, NEW i \in Id, Call(c, kind, i)
    PROVE  IInv'
<1>1. TypeOK /\ CallersAtPlace /\ callers[c] \in CallRecord
  BY Typed DEF IInv
<1> DEFINE cs == [callers EXCEPT ![c].kind = kind, ![c].id = i]
           r == [callers[c] EXCEPT !.kind = kind, !.id = i]
<1>2. r \in CallRecord /\ r.id = i /\ r.kind = kind
  BY <1>1 DEF CallRecord
<1>3. cs = [callers EXCEPT ![c] = r]
  BY <1>1, Typed DEF AnyCallers
<1> HIDE DEF r
<1>4. AnyCallers(cs) /\ cs[c] = r /\ \A d \in Caller \ {c} : cs[d] = callers[d]
  BY <1>1, <1>2, <1>3, Typed DEF AnyCallers
<1>5. callers' = Retried(cs, c)
  BY DEF Call
<1> HIDE DEF cs
<1>6. /\ AnyCallers(callers')
      /\ \A d \in Caller \ {c} : callers'[d] = callers[d]
      /\ callers'[c].pc = "entering" /\ callers'[c].id = i /\ callers'[c].kind = kind
  BY <1>2, <1>4, <1>5, RetriedIs
<1>7. TypeOK'
  BY <1>1, <1>6, Typed, TypesKeep DEF Call
<1>8. CallersAtPlace'
  BY <1>1, <1>6 DEF CallersAtPlace
<1>9. callers[c].pc = "idle"
  BY DEF Call
<1>10. \A d \in Caller : \/ SameCall(callers'[d], callers[d])
                         \/ callers[d].pc \in Free /\ callers'[d].pc \in Free
  BY <1>6, <1>9 DEF SameCall, Free
<1>11. \A j \in Id : ReadersAtPhase(j)'
  <2> SUFFICES ASSUME NEW j \in Id PROVE ReadersAtPhase(j)'
    OBVIOUS
  <2>1. Held(j) /\ EntryStays(j)
    BY SamePool DEF IInv, Call
  <2>2. \A d \in Caller : \/ SameCall(callers'[d], callers[d])
                          \/ callers'[d].pc \notin {"loaded", "woken"}
    BY <1>6 DEF SameCall
  <2> QED BY <2>1, <2>2, ReadersStay
<1> QED BY <1>7, <1>8, <1>10, <1>11, RoamKeeps, SamePool DEF Call

\* The call c takes the place pc with the entry of that token.
Reading(r, pc, token, source) == [r EXCEPT !.pc = pc, !.token = token, !.source = source]

LEMMA ReadingTyped ==
    ASSUME NEW r \in CallRecord, NEW pc \in {"loading", "loaded", "woken", "committing"},
           NEW token \in 0..MaxToken, NEW source \in Log \cup {None}
    PROVE  /\ Reading(r, pc, token, source) \in CallRecord
           /\ Reading(r, pc, token, source).pc = pc
           /\ Reading(r, pc, token, source).token = token
           /\ Reading(r, pc, token, source).source = source
           /\ Reading(r, pc, token, source).id = r.id
           /\ Reading(r, pc, token, source).kind = r.kind
BY DEF Reading, CallRecord

LEMMA TokenInUse ==
    ASSUME TypeOK, NEW i \in Id
    PROVE  /\ \A c \in Caller : callers[c].id = i => callers[c].token \in InUse(i)
           /\ \A k \in DOMAIN chain[i] : chain[i][k].kind = "load" => chain[i][k].token \in InUse(i)
<1>1. \A k \in DOMAIN chain[i] : chain[i][k] \in ToSet(chain[i])
  BY DEF ToSet
<1> QED BY <1>1 DEF InUse

\* An entry that nobody has taken.
LEMMA EntryUnlocked ==
    ASSUME TypeOK', NEW i \in Id, Pooled(i)', Entry(i)'.phase \in {"loading", "ready"},
           live'[i].state # "live",
           \A c \in Caller : ~Holder(c, i)',
           \A c \in Caller : callers'[c].id = i => callers'[c].pc \notin {"reserved", "settling"},
           CommitsAtPlace(i)', ReadersAtPhase(i)'
    PROVE  Held(i)'
<1>1. ~Locked(i)'
  BY LockedNext
<1>2. HoldersAtPhase(i)'
  BY <1>1 DEF HoldersAtPhase
<1>3. WaitersAtPhase(i)'
  BY DEF WaitersAtPhase
<1>4. AppendsFirst(i)' /\ SourceIsCurrent(i)'
  BY DEF AppendsFirst, SourceIsCurrent
<1>5. LiveIsUnpooled(i)'
  BY DEF LiveIsUnpooled
<1> QED BY <1>2, <1>3, <1>4, <1>5 DEF Held

\* The operation op comes last.
Grows(i, op) ==
    \A k \in DOMAIN chain'[i] :
      \/ k \in DOMAIN chain[i] /\ chain'[i][k] = chain[i][k]
      \/ k = Len(chain[i]) + 1 /\ chain'[i][k] = op

\* A caller that awaits no operation queues one.
LEMMA OpsGrow ==
    ASSUME TypeOK, NEW i \in Id, Chained(i), NEW c \in Caller,
           callers[c].pc \notin {"committing", "checking"},
           \A d \in Caller \ {c} : SameCall(callers'[d], callers[d]),
           NEW op \in Op, Grows(i, op),
           op.kind \in {"commit", "check"} => op.caller = c /\ callers'[c].id = i,
           op.kind = "commit" => callers'[c].pc = "committing" /\ callers'[c].source = op.source,
           op.kind = "check" => callers'[c].pc = "checking"
    PROVE  OpsAtPlace(i)'
<1>1. ASSUME NEW k \in DOMAIN chain[i], chain[i][k].kind \in {"commit", "check"}
      PROVE  /\ chain[i][k].caller \in Caller \ {c}
             /\ SameCall(callers'[chain[i][k].caller], callers[chain[i][k].caller])
  <2>1. chain[i][k].caller \in Caller
    BY <1>1, ChainTyped, SeqOps, OpFields
  <2>2. callers[chain[i][k].caller].pc \in {"committing", "checking"}
    BY <1>1 DEF Chained, OpsAtPlace
  <2> QED BY <2>1, <2>2
<1>2. ASSUME NEW k \in DOMAIN chain'[i]
      PROVE  /\ chain'[i][k].kind = "commit" =>
                  /\ callers'[chain'[i][k].caller].pc = "committing"
                  /\ callers'[chain'[i][k].caller].id = i
                  /\ callers'[chain'[i][k].caller].source = chain'[i][k].source
             /\ chain'[i][k].kind = "check" =>
                  /\ callers'[chain'[i][k].caller].pc = "checking"
                  /\ callers'[chain'[i][k].caller].id = i
  <2>1. CASE k \in DOMAIN chain[i] /\ chain'[i][k] = chain[i][k]
    BY <1>1, <2>1 DEF Chained, OpsAtPlace, SameCall
  <2>2. CASE chain'[i][k] = op
    BY <2>2
  <2> QED BY <2>1, <2>2 DEF Grows
<1>3. ASSUME NEW k \in DOMAIN chain'[i], NEW l \in DOMAIN chain'[i],
             chain'[i][k].kind \in {"commit", "check"},
             chain'[i][l].kind \in {"commit", "check"},
             chain'[i][k].caller = chain'[i][l].caller
      PROVE  k = l
  BY <1>1, <1>3 DEF Chained, OpsAtPlace, Grows
<1> QED BY <1>2, <1>3 DEF OpsAtPlace

\* A new entry.
LEMMA EnterMakes ==
    ASSUME IInv, NEW c \in Caller, NEW i \in Id, callers[c].id = i, callers[c].pc = "entering",
           live[i].state # "live", ~Pooled(i), Token \ InUse(i) # {},
           pool' = With(pool, i, Fresh(i)),
           Queue(i, [kind |-> "load", token |-> Fresh(i)]),
           callers' = [callers EXCEPT ![c].pc = "loading", ![c].token = Fresh(i)],
           UNCHANGED <<log, tracked, live, running>>
    PROVE  IInv'
<1>1. TypeOK /\ CallersAtPlace /\ Chained(i) /\ Held(i) /\ callers[c] \in CallRecord
  BY Typed DEF IInv
<1> DEFINE t == Fresh(i)
           op == [kind |-> "load", token |-> t]
           r == [callers[c] EXCEPT !.pc = "loading", !.token = t]
<1>2. t \in Token /\ t \notin InUse(i)
  BY DEF Fresh
<1> HIDE DEF t
<1>3. r \in CallRecord /\ r.pc = "loading" /\ r.token = t /\ r.id = i /\ r.kind = callers[c].kind
  <2>1. t \in 0..MaxToken
    BY <1>2, Assumed DEF Token
  <2> QED BY <1>1, <2>1 DEF CallRecord
<1>4. callers' = [callers EXCEPT ![c] = r]
  BY <1>1, Typed DEF AnyCallers, t
<1> HIDE DEF r
<1>5. /\ AnyCallers(callers') /\ CallersAtPlace' /\ callers'[c] = r
      /\ \A d \in Caller \ {c} : callers'[d] = callers[d]
      /\ \A d \in Caller \ {c} : SameCall(callers'[d], callers[d])
  <2>1. callers[c].kind \in Kind
    BY <1>1 DEF CallersAtPlace
  <2> QED BY <1>1, <1>3, <1>4, <2>1, PlaceIs
<1>6. op \in Op /\ op.kind = "load" /\ op.token = t
  BY <1>2 DEF Op
<1>7. /\ chain' \in [Id -> Seq(Op)]
      /\ \A j \in Id \ {i} : chain'[j] = chain[j]
      /\ chain[i] # <<>> => Head(chain'[i]) = Head(chain[i])
      /\ chain'[i] # <<>>
      /\ \A k \in DOMAIN chain'[i] :
           \/ k \in DOMAIN chain[i] /\ chain'[i][k] = chain[i][k]
           \/ k = Len(chain[i]) + 1 /\ chain'[i][k] = op
  BY <1>1, <1>6, QueueIs DEF t
<1> HIDE DEF op
<1>8. /\ AnyPool(pool') /\ \A j \in Id \ {i} : pool'.entry[j] = pool.entry[j]
      /\ Pooled(i)' /\ Entry(i)'.token = t /\ Entry(i)'.phase = "loading"
  BY <1>1, <1>2, Typed, WithIs DEF t, Pooled, Entry
<1>9. TypeOK'
  BY <1>1, <1>5, <1>7, <1>8, Typed, TypesKeep
<1>10. Chained(i)'
  <2>2. OpsAtPlace(i)'
    <3>1. Grows(i, op)
      BY <1>7 DEF Grows
    <3> QED BY <1>1, <1>5, <1>6, <3>1, OpsGrow
  <2>3. HeadAtPlace(i)'
    BY <1>1, <1>7 DEF Chained, HeadAtPlace
  <2>4. \A k \in DOMAIN chain[i] : chain[i][k].kind = "load" => chain[i][k].token # t
    BY <1>1, <1>2, TokenInUse
  <2>5. LoadsAtPlace(i)'
    <3>1. \A k, l \in DOMAIN chain'[i] :
            /\ chain'[i][k].kind = "load" /\ chain'[i][l].kind = "load"
            /\ chain'[i][k].token = chain'[i][l].token
            => k = l
      BY <1>1, <1>6, <1>7, <2>4 DEF Chained, LoadsAtPlace
    <3>2. ASSUME NEW k \in DOMAIN chain'[i], chain'[i][k].kind = "load",
                 chain'[i][k].token = t, NEW l \in DOMAIN chain'[i], l > k
          PROVE  FALSE
      <4>1. k = Len(chain[i]) + 1
        BY <1>7, <2>4, <3>2
      <4> QED BY <1>1, <1>7, <3>2, <4>1, ChainTyped, SeqOps
    <3> QED BY <1>8, <3>1, <3>2 DEF LoadsAtPlace
  <2> QED BY <2>2, <2>3, <2>5 DEF Chained
<1>11. Held(i)'
  <2>1. \A d \in Caller \ {c} : ~Joined(d, i)'
    <3>1. \A d \in Caller : callers[d].id = i => callers[d].token # t
      BY <1>1, <1>2, TokenInUse
    <3>2. \A d \in Caller \ {c} : callers'[d] = callers[d]
      BY <1>5
    <3>3. Entry(i)'.token = t
      BY <1>8
    <3> QED BY <3>1, <3>2, <3>3 DEF Joined
  <2>2. ~Holder(c, i)' /\ ReadersAtPhase(i)'
    BY <1>3, <1>5, <2>1 DEF Holder, Holds, ReadersAtPhase
  <2>3. \A d \in Caller : callers[d].id = i => callers[d].pc \notin {"reserved", "settling"}
    BY <1>1 DEF Held, WaitersAtPhase, Joined
  <2>4. \A d \in Caller : callers'[d].id = i => callers'[d].pc \notin {"reserved", "settling"}
    BY <1>3, <1>5, <2>3
  <2>5. \A d \in Caller : ~Holder(d, i)'
    BY <2>1, <2>2 DEF Holder
  <2>6. CommitsAtPlace(i)'
    BY <1>8 DEF CommitsAtPlace
  <2> QED BY <1>8, <1>9, <2>2, <2>4, <2>5, <2>6, EntryUnlocked
<1>12. \A j \in Id \ {i} : EntryStays(j)
  BY <1>8 DEF EntryStays, Entry
<1>13. \A d \in Caller : \/ SameCall(callers'[d], callers[d])
                         \/ callers[d].id = i /\ callers'[d].id \in {i, None}
  BY <1>3, <1>5
<1> QED BY <1>5, <1>7, <1>9, <1>10, <1>11, <1>12, <1>13, OthersKeep

\* A caller that holds nothing goes on; what it reads next is read.
LEMMA CallerRoams ==
    ASSUME IInv, NEW c \in Caller, UNCHANGED <<log, tracked, live, chain, running>>,
           Evicts(pool', pool), AnyCallers(callers'), CallersAtPlace',
           \A d \in Caller \ {c} : SameCall(callers'[d], callers[d]),
           callers[c].pc \in Free, callers'[c].pc \in Free,
           \A i \in Id : callers'[c].pc \in {"loaded", "woken"} /\ Joined(c, i)' =>
             Entry(i)'.phase # "loading"
    PROVE  IInv'
<1>1. TypeOK'
  BY Typed, TypesKeep DEF IInv, Evicts
<1>2. \A i \in Id : EntryStays(i)
  BY DEF Evicts, EntryStays, Entry
<1>3. ASSUME NEW i \in Id PROVE ReadersAtPhase(i)'
  <2> SUFFICES ASSUME NEW d \in Caller, Joined(d, i)', callers'[d].pc \in {"loaded", "woken"}
               PROVE  Entry(i)'.phase # "loading"
    BY DEF ReadersAtPhase
  <2>1. CASE d = c
    BY <2>1
  <2>2. CASE d # c
    <3>1. Pooled(i) /\ Entry(i)' = Entry(i)
      BY <1>2 DEF EntryStays, Joined, Pooled, Entry
    <3>2. Joined(d, i) /\ callers[d].pc \in {"loaded", "woken"}
      BY <2>2, <3>1 DEF Joined, SameCall
    <3> QED BY <3>1, <3>2 DEF IInv, Held, ReadersAtPhase
  <2> QED BY <2>1, <2>2
<1> QED BY <1>1, <1>2, <1>3, RoamKeeps

LEMMA PoolUnchanged == TypeOK /\ pool' = pool => Evicts(pool', pool)
BY Typed DEF Evicts

LEMMA EnterKeeps ==
    ASSUME IInv, NEW c \in Caller, Enter(c) PROVE IInv'
<1> DEFINE i == callers[c].id
<1>1. TypeOK /\ CallersAtPlace /\ callers[c] \in CallRecord /\ i \in Id
      /\ callers[c].pc = "entering" /\ callers[c].kind \in Kind /\ Held(i)
  BY Typed DEF IInv, CallersAtPlace, Enter
<1>2. CASE live[i].state = "live" /\ Return(c) /\ UNCHANGED <<chain, pool>>
  <2>1. callers' = [callers EXCEPT ![c] = Idle]
    BY <1>2 DEF Return
  <2>2. /\ AnyCallers(callers') /\ CallersAtPlace' /\ callers'[c].pc = "idle"
        /\ \A d \in Caller \ {c} : SameCall(callers'[d], callers[d])
    BY <1>1, <2>1, ReturnIs
  <2>3. Evicts(pool', pool)
    BY <1>1, <1>2, PoolUnchanged
  <2> QED BY <1>1, <1>2, <2>2, <2>3, CallerRoams DEF Enter, Free
<1>3. CASE /\ live[i].state # "live" /\ ~Pooled(i) /\ Token \ InUse(i) # {}
           /\ pool' = With(pool, i, Fresh(i))
           /\ Queue(i, [kind |-> "load", token |-> Fresh(i)])
           /\ callers' = [callers EXCEPT ![c].pc = "loading", ![c].token = Fresh(i)]
  BY <1>1, <1>3, EnterMakes DEF Enter
<1>4. CASE /\ live[i].state # "live" /\ Pooled(i)
           /\ callers' = [callers EXCEPT ![c].pc = IF Entry(i).phase = "loading" THEN "loading"
                                                   ELSE IF Unbegun(i) THEN "loaded" ELSE "woken",
                                         ![c].token = Entry(i).token,
                                         ![c].source = Seen(c, Entry(i).source)]
           /\ UNCHANGED <<chain, pool>>
  <2> DEFINE pc == IF Entry(i).phase = "loading" THEN "loading"
                   ELSE IF Unbegun(i) THEN "loaded" ELSE "woken"
             source == Seen(c, Entry(i).source)
             r == Reading(callers[c], pc, Entry(i).token, source)
  <2>1. /\ pc \in {"loading", "loaded", "woken"}
        /\ Entry(i).phase = "loading" => pc = "loading"
    OBVIOUS
  <2>2. Entry(i).token \in 0..MaxToken /\ source \in Log \cup {None}
    <3>1. Entry(i).token \in Token /\ Entry(i).source \in Log \cup {None}
      <4>1. Entry(i) \in PreparationEntry
        BY <1>1, <1>4, EntryTyped DEF Pooled
      <4> QED BY <4>1 DEF PreparationEntry
    <3> QED BY <3>1, Assumed DEF Token, Seen
  <2> HIDE DEF pc, source
  <2>3. r \in CallRecord /\ r.pc = pc /\ r.id = i /\ r.kind = callers[c].kind
    BY <1>1, <2>1, <2>2, ReadingTyped, SMTT(30)
  <2>4. callers' = [callers EXCEPT ![c] = r]
    BY <1>1, <1>4, Typed DEF AnyCallers, Reading, pc, source
  <2> HIDE DEF r
  <2>5. /\ AnyCallers(callers') /\ CallersAtPlace' /\ callers'[c] = r
        /\ \A d \in Caller \ {c} : SameCall(callers'[d], callers[d])
    BY <1>1, <2>3, <2>4, PlaceIs
  <2>6. Evicts(pool', pool) /\ \A j \in Id : Entry(j)' = Entry(j)
    <3>1. Evicts(pool', pool)
      BY <1>1, <1>4, PoolUnchanged
    <3>2. \A j \in Id : Entry(j)' = Entry(j)
      BY <1>4 DEF Entry
    <3> QED BY <3>1, <3>2
  <2>7. \A j \in Id : callers'[c].pc \in {"loaded", "woken"} /\ Joined(c, j)' =>
          Entry(j)'.phase # "loading"
    BY <2>1, <2>3, <2>5, <2>6 DEF Joined
  <2> QED BY <1>1, <1>4, <2>1, <2>3, <2>5, <2>6, <2>7, CallerRoams DEF Enter, Free
<1> QED BY <1>2, <1>3, <1>4 DEF Enter

-----------------------------------------------------------------------------
(* A read entry is taken for a commit.                                     *)

LEMMA NobodyHoldsReady ==
    ASSUME TypeOK, NEW i \in Id, Held(i), ~Locked(i)
    PROVE  \A c \in Caller :
             /\ ~Holder(c, i)
             /\ callers[c].id = i => callers[c].pc \notin {"reserved", "settling"}
<1>1. \A c \in Caller : ~Holder(c, i)
  BY EntryTyped DEF Held, HoldersAtPhase, Holder, Joined
<1>2. \A c \in Caller : callers[c].id = i /\ callers[c].pc = "reserved" => Holder(c, i)
  BY DEF Held, WaitersAtPhase, Holder, Holds
<1> QED BY <1>1, <1>2 DEF Held, WaitersAtPhase

LEMMA ReserveTakes ==
    ASSUME IInv, NEW c \in Caller, NEW i \in Id, callers[c].id = i, callers[c].pc = "woken",
           Mine(c), Entry(i).phase = "ready",
           pool' = [pool EXCEPT !.entry[i].phase = "committing"],
           Queue(i, [kind |-> "commit", caller |-> c, source |-> Entry(i).source]),
           callers' = [callers EXCEPT ![c].pc = "committing", ![c].source = Entry(i).source],
           UNCHANGED <<log, tracked, live, running>>
    PROVE  IInv'
<1>1. TypeOK /\ CallersAtPlace /\ Chained(i) /\ Held(i) /\ callers[c] \in CallRecord
      /\ Pooled(i) /\ Entry(i) \in PreparationEntry /\ callers[c].token = Entry(i).token
  BY Typed, EntryTyped DEF IInv, Mine, Pooled
<1> DEFINE source == Entry(i).source
           op == [kind |-> "commit", caller |-> c, source |-> source]
           r == [callers[c] EXCEPT !.pc = "committing", !.source = source]
<1>2. source \in Log
  BY <1>1, EntryFields DEF Pooled
<1> HIDE DEF source
<1>3. r \in CallRecord /\ r.pc = "committing" /\ r.source = source /\ r.id = i
      /\ r.kind = callers[c].kind /\ r.token = callers[c].token
  BY <1>1, <1>2 DEF CallRecord
<1>4. callers' = [callers EXCEPT ![c] = r]
  BY <1>1, Typed DEF AnyCallers, source
<1> HIDE DEF r
<1>5. /\ AnyCallers(callers') /\ CallersAtPlace' /\ callers'[c] = r
      /\ \A d \in Caller \ {c} : callers'[d] = callers[d]
      /\ \A d \in Caller \ {c} : SameCall(callers'[d], callers[d])
  <2>1. callers[c].kind \in Kind
    BY <1>1 DEF CallersAtPlace
  <2>2. r \in CallRecord /\ r.id \in Id /\ r.kind \in Kind
    BY <1>3, <2>1
  <2>3. TypeOK /\ CallersAtPlace
    BY <1>1
  <2> QED BY <1>4, <2>2, <2>3, PlaceIs
<1>6. op \in Op /\ op.kind = "commit" /\ op.caller = c /\ op.source = source
  BY <1>2 DEF Op
<1>7. /\ chain' \in [Id -> Seq(Op)]
      /\ \A j \in Id \ {i} : chain'[j] = chain[j]
      /\ chain[i] # <<>> => Head(chain'[i]) = Head(chain[i])
      /\ chain'[i] # <<>>
      /\ \A k \in DOMAIN chain'[i] :
           \/ k \in DOMAIN chain[i] /\ chain'[i][k] = chain[i][k]
           \/ k = Len(chain[i]) + 1 /\ chain'[i][k] = op
  BY <1>1, <1>6, QueueIs DEF source
<1> HIDE DEF op
<1>8. /\ AnyPool(pool') /\ \A j \in Id \ {i} : pool'.entry[j] = pool.entry[j]
      /\ Pooled(i)' /\ Entry(i)'.token = Entry(i).token /\ Entry(i)'.phase = "committing"
  <2>1. pool' = Relocked(pool, i, "committing")
    BY DEF Relocked
  <2>2. /\ pool.entry[i] \in PreparationEntry /\ pool.entry[i].phase # "loading"
        /\ Entry(i) = pool.entry[i] /\ Entry(i)' = pool'.entry[i] /\ AnyPool(pool)
    BY <1>1, Typed DEF Entry
  <2> QED BY <2>1, <2>2, RelockedIs DEF Pooled
<1>9. TypeOK'
  BY <1>1, <1>5, <1>7, <1>8, Typed, TypesKeep
<1>10. Chained(i)'
  <2>1. OpsAtPlace(i)'
    <3>1. /\ callers[c].pc \notin {"committing", "checking"}
          /\ callers'[c].pc = "committing" /\ callers'[c].id = i
          /\ callers'[c].source = op.source
      BY <1>3, <1>5, <1>6
    <3>2. /\ op.kind \in {"commit", "check"} => op.caller = c /\ callers'[c].id = i
          /\ op.kind = "check" => callers'[c].pc = "checking"
      BY <1>6, <3>1
    <3>3. /\ TypeOK /\ Chained(i)
          /\ \A d \in Caller \ {c} : SameCall(callers'[d], callers[d])
      BY <1>1, <1>5
    <3>4. op \in Op /\ Grows(i, op)
      BY <1>6, <1>7 DEF Grows
    <3> QED BY <3>1, <3>2, <3>3, <3>4, OpsGrow
  <2>2. HeadAtPlace(i)'
    BY <1>1, <1>7 DEF Chained, HeadAtPlace
  <2>3. \A k \in DOMAIN chain'[i] : chain'[i][k].kind = "load" =>
          /\ k \in DOMAIN chain[i] /\ chain'[i][k] = chain[i][k]
          /\ chain'[i][k].token # Entry(i)'.token
    BY <1>1, <1>6, <1>7, <1>8 DEF Chained, LoadsAtPlace
  <2>4. LoadsAtPlace(i)'
    BY <1>1, <2>3 DEF Chained, LoadsAtPlace
  <2> QED BY <2>1, <2>2, <2>4 DEF Chained
<1>11. \A d \in Caller : ~Holder(d, i)
                         /\ (callers[d].id = i => callers[d].pc \notin {"reserved", "settling"})
  <2>1. ~Locked(i)
    BY <1>1, EntryTyped
  <2> QED BY <1>1, <2>1, NobodyHoldsReady
<1>12. \A d \in Caller : Holder(d, i)' <=> d = c
  <2>1. \A d \in Caller \ {c} : ~Holder(d, i)'
    BY <1>1, <1>5, <1>8, <1>11 DEF Holder, Joined, Holds
  <2>2. Holder(c, i)'
    BY <1>1, <1>3, <1>5, <1>8 DEF Holder, Joined, Holds
  <2> QED BY <2>1, <2>2
<1>13. Held(i)'
  <2>1. CommitsAtPlace(i)'
    <3> SUFFICES ASSUME NEW k \in DOMAIN chain'[i], chain'[i][k].kind = "commit"
                 PROVE  callers'[chain'[i][k].caller].token = Entry(i)'.token
      BY DEF CommitsAtPlace
    <3>1. CASE chain'[i][k] = op
      BY <1>1, <1>3, <1>5, <1>6, <1>8, <3>1
    <3>2. CASE k \in DOMAIN chain[i] /\ chain'[i][k] = chain[i][k]
      <4> DEFINE d == chain[i][k].caller
      <4>1. d \in Caller /\ callers[d].pc = "committing" /\ callers[d].token = Entry(i).token
        BY <1>1, <3>2, ChainTyped, SeqOps, OpFields DEF Held, CommitsAtPlace, Chained, OpsAtPlace
      <4>2. callers'[d].token = callers[d].token
        BY <1>5, <4>1
      <4> QED BY <1>8, <3>2, <4>1, <4>2
    <3> QED BY <1>7, <3>1, <3>2
  <2>2. HoldersAtPhase(i)'
    BY <1>3, <1>5, <1>8, <1>12 DEF HoldersAtPhase
  <2>3. WaitersAtPhase(i)'
    BY <1>3, <1>5, <1>11 DEF WaitersAtPhase
  <2>4. ReadersAtPhase(i)'
    BY <1>8 DEF ReadersAtPhase
  <2>5. AppendsFirst(i)' /\ SourceIsCurrent(i)'
    BY <1>3, <1>5, <1>12 DEF AppendsFirst, SourceIsCurrent, Bound
  <2>6. LiveIsUnpooled(i)'
    BY <1>1 DEF Held, LiveIsUnpooled
  <2> QED BY <2>1, <2>2, <2>3, <2>4, <2>5, <2>6 DEF Held
<1>14. \A j \in Id \ {i} : EntryStays(j)
  BY <1>8 DEF EntryStays, Entry
<1>15. \A d \in Caller : \/ SameCall(callers'[d], callers[d])
                         \/ callers[d].id = i /\ callers'[d].id \in {i, None}
  BY <1>3, <1>5
<1> QED BY <1>5, <1>7, <1>9, <1>10, <1>13, <1>14, <1>15, OthersKeep

LEMMA StillHead ==
    ASSUME NEW i \in Id, Chained(i), chain'[i] = chain[i], running'[i] = running[i],
           tracked'[i] = tracked[i]
    PROVE  HeadAtPlace(i)'
BY DEF HeadAtPlace, Chained

\* A task finds its entry locked, and waits.
LEMMA ReserveWaits ==
    ASSUME IInv, NEW c \in Caller, NEW i \in Id, callers[c].id = i, callers[c].pc = "woken",
           Mine(c), Entry(i).phase # "ready", Goto(c, "settling"),
           UNCHANGED <<log, tracked, live, chain, running, pool>>
    PROVE  IInv'
<1>1. /\ TypeOK /\ CallersAtPlace /\ Chained(i) /\ Held(i)
      /\ Pooled(i) /\ callers[c].token = Entry(i).token
  BY DEF IInv, Mine
<1>2. /\ AnyCallers(callers') /\ CallersAtPlace'
      /\ \A d \in Caller \ {c} : SameCall(callers'[d], callers[d])
      /\ callers'[c].pc = "settling" /\ callers'[c].id = i
      /\ callers'[c].token = callers[c].token
  BY <1>1, GotoIs
<1>3. TypeOK'
  BY <1>1, <1>2, Typed, TypesKeep
<1>4. EntryStays(i) /\ Entry(i)' = Entry(i) /\ Pooled(i)'
  BY <1>1 DEF EntryStays, Entry, Pooled
<1>5. Locked(i) /\ Locked(i)'
  <2>1. Entry(i).phase # "loading"
    BY <1>1 DEF Held, ReadersAtPhase, Joined
  <2>2. Entry(i).phase \in {"committing", "reserved"}
    BY <1>1, <2>1, EntryTyped, EntryFields DEF Pooled
  <2> QED BY <1>1, <1>4, <2>2, EntryTyped, LockedNext
<1>6. ~Holder(c, i) /\ ~Holder(c, i)'
  BY <1>2 DEF Holder, Holds
<1>7. \A k \in DOMAIN chain'[i] : chain'[i][k].kind \in {"commit", "check"} =>
        SameCall(callers'[chain'[i][k].caller], callers[chain'[i][k].caller])
  BY <1>1, <1>2, ChainTyped, SeqOps, OpFields DEF Chained, OpsAtPlace
<1>8. Chained(i)'
  <2>1. Thins(i) /\ HeadAtPlace(i)'
    BY <1>1, ChainStays, StillHead
  <2> QED BY <1>1, <1>3, <1>4, <1>7, <2>1, ChainKeeps DEF Thins, SameCall
<1>9. Held(i)'
  <2>1. WaitersAtPhase(i)'
    <3>1. Joined(c, i)'
      BY <1>1, <1>2, <1>4 DEF Joined
    <3>2. \A d \in Caller \ {c} : callers'[d].id = i /\ callers'[d].pc \in {"reserved", "settling"} =>
            Joined(d, i)'
      BY <1>1, <1>2, <1>4 DEF Held, WaitersAtPhase, Joined, SameCall
    <3> QED BY <1>2, <1>5, <3>1, <3>2 DEF WaitersAtPhase
  <2>2. ReadersAtPhase(i)'
    BY <1>1, <1>2, <1>4, ReadersStay
  <2>3. \A k \in DOMAIN chain'[i] : chain'[i][k].kind = "commit" =>
          callers'[chain'[i][k].caller].token = callers[chain'[i][k].caller].token
    BY <1>7 DEF SameCall
  <2>4. Begun(i, "append")' => Begun(i, "append")
    BY DEF Begun
  <2>5. \A d \in Caller : \/ SameCall(callers'[d], callers[d])
                          \/ ~Holder(d, i) /\ ~Holder(d, i)'
    BY <1>2, <1>6
  <2> QED BY <1>1, <1>3, <1>4, <2>1, <2>2, <2>3, <2>4, <2>5, EntryKept
<1>10. \A j \in Id \ {i} : EntryStays(j)
  BY SamePool
<1>11. \A d \in Caller : \/ SameCall(callers'[d], callers[d])
                         \/ callers[d].id = i /\ callers'[d].id \in {i, None}
  BY <1>2
<1> QED BY <1>2, <1>3, <1>8, <1>9, <1>10, <1>11, OthersKeep

LEMMA ReserveKeeps ==
    ASSUME IInv, NEW c \in Caller, Reserve(c) PROVE IInv'
<1> DEFINE i == callers[c].id
<1>1. TypeOK /\ CallersAtPlace /\ i \in Id /\ callers[c].pc = "woken"
  BY DEF IInv, CallersAtPlace, Reserve
<1>2. CASE ~Mine(c) /\ callers' = Retried(callers, c) /\ UNCHANGED <<chain, pool>>
  <2>1. /\ AnyCallers(callers') /\ CallersAtPlace' /\ callers'[c].pc = "entering"
        /\ \A d \in Caller \ {c} : SameCall(callers'[d], callers[d])
    BY <1>1, <1>2, RetryIs
  <2>2. Evicts(pool', pool)
    BY <1>1, <1>2, PoolUnchanged
  <2> QED BY <1>1, <1>2, <2>1, <2>2, CallerRoams DEF Reserve, Free
<1>3. CASE Mine(c) /\ Entry(i).phase # "ready" /\ Goto(c, "settling") /\ UNCHANGED <<chain, pool>>
  BY <1>1, <1>3, ReserveWaits DEF Reserve
<1>4. CASE /\ Mine(c) /\ Entry(i).phase = "ready"
           /\ pool' = [pool EXCEPT !.entry[i].phase = "committing"]
           /\ Queue(i, [kind |-> "commit", caller |-> c, source |-> Entry(i).source])
           /\ callers' = [callers EXCEPT ![c].pc = "committing", ![c].source = Entry(i).source]
  BY <1>1, <1>4, ReserveTakes DEF Reserve
<1> QED BY <1>2, <1>3, <1>4 DEF Reserve

-----------------------------------------------------------------------------
(* Steps that act on one identity, in general.                             *)

\* The other identities are left alone, but for evictions.
Only(i) ==
    \A j \in Id \ {i} :
      /\ log'[j] = log[j] /\ tracked'[j] = tracked[j] /\ live'[j].state = live[j].state
      /\ chain'[j] = chain[j] /\ running'[j] = running[j] /\ EntryStays(j)

\* The callers, of whom those in L leave what they had at i, and those at a
\* place of F are woken.
Woken(cs, L, i, F) ==
    /\ AnyCallers(cs)
    /\ \A d \in Caller : cs[d].pc # "idle" => cs[d].id \in Id /\ cs[d].kind \in Kind
    /\ \A d \in Caller :
         \/ SameCall(cs[d], callers[d])
         \/ /\ callers[d].id = i /\ cs[d].id = i /\ cs[d].token = callers[d].token
            /\ callers[d].pc \in F /\ cs[d].pc = "woken"
         \/ d \in L /\ callers[d].id = i /\ cs[d].id \in {i, None} /\ cs[d].pc \in {"idle", "entering"}

LEMMA NobodyWoken ==
    ASSUME TypeOK, CallersAtPlace, NEW i, NEW F PROVE Woken(callers, {}, i, F)
BY Typed DEF CallersAtPlace, Woken, SameCall

LEMMA LeaverIs ==
    ASSUME TypeOK, CallersAtPlace, NEW c \in Caller, NEW i \in Id, callers[c].id = i,
           callers[c].pc # "idle", NEW F
    PROVE  /\ Woken([callers EXCEPT ![c] = Idle], {c}, i, F)
           /\ Woken(Retried(callers, c), {c}, i, F)
<1>1. ASSUME NEW cs, AnyCallers(cs), \A d \in Caller \ {c} : cs[d] = callers[d],
             \/ cs[c].pc = "idle" /\ cs[c].id = None
             \/ cs[c].pc = "entering" /\ cs[c].id = i /\ cs[c].kind = callers[c].kind
      PROVE  Woken(cs, {c}, i, F)
  BY <1>1 DEF CallersAtPlace, Woken, SameCall
<1> DEFINE left == [callers EXCEPT ![c] = Idle]
<1>2. /\ AnyCallers(left) /\ \A d \in Caller \ {c} : left[d] = callers[d]
      /\ left[c].pc = "idle" /\ left[c].id = None
  BY Typed, IdleTyped, PlacedIs
<1> HIDE DEF left
<1>3. Woken(left, {c}, i, F)
  BY <1>1, <1>2
<1>4. Woken(Retried(callers, c), {c}, i, F)
  <2>1. AnyCallers(callers)
    BY Typed
  <2>2. /\ AnyCallers(Retried(callers, c))
        /\ \A d \in Caller \ {c} : Retried(callers, c)[d] = callers[d]
        /\ Retried(callers, c)[c].pc = "entering" /\ Retried(callers, c)[c].id = i
        /\ Retried(callers, c)[c].kind = callers[c].kind
    BY <2>1, RetriedIs
  <2> QED BY <1>1, <2>2
<1> QED BY <1>3, <1>4 DEF left

LEMMA WokenMore ==
    ASSUME NEW cs, NEW ds, NEW L, NEW i, NEW F, Woken(cs, L, i, F), NEW from \in F,
           from \notin {"idle", "entering", "woken"}, Wakes(ds, cs, i, from)
    PROVE  Woken(ds, L, i, F)
<1>1. AnyCallers(ds)
  BY DEF Wakes
<1>2. ASSUME NEW d \in Caller, ds[d].pc # "idle" PROVE ds[d].id \in Id /\ ds[d].kind \in Kind
  <2>1. cs[d].pc # "idle" /\ cs[d].id = ds[d].id /\ cs[d].kind = ds[d].kind
    BY <1>2 DEF Wakes, SameCall
  <2> QED BY <2>1 DEF Woken
<1>3. ASSUME NEW d \in Caller
      PROVE  \/ SameCall(ds[d], callers[d])
             \/ /\ callers[d].id = i /\ ds[d].id = i /\ ds[d].token = callers[d].token
                /\ callers[d].pc \in F /\ ds[d].pc = "woken"
             \/ /\ d \in L /\ callers[d].id = i /\ ds[d].id \in {i, None}
                /\ ds[d].pc \in {"idle", "entering"}
  <2>1. CASE SameCall(ds[d], cs[d])
    BY <2>1 DEF Woken, SameCall
  <2>2. CASE /\ cs[d].id = i /\ ds[d].id = i
             /\ cs[d].pc = from /\ ds[d].pc = "woken" /\ ds[d].token = cs[d].token
    BY <2>2 DEF Woken, SameCall
  <2> QED BY <2>1, <2>2 DEF Wakes
<1> QED BY <1>1, <1>2, <1>3 DEF Woken

LEMMA WokenAwaits ==
    ASSUME NEW cs, NEW L, NEW i, NEW F, Woken(cs, L, i, F), NEW j
    PROVE  Woken(Awaited(cs, j), L, i, F)
<1> DEFINE ds == Awaited(cs, j)
<1>1. AnyCallers(ds) /\ \A d \in Caller : SameCall(ds[d], cs[d]) /\ ds[d].kind = cs[d].kind
  BY AwaitedIs DEF Woken
<1> HIDE DEF ds
<1>2. \A d \in Caller : ds[d].pc # "idle" => ds[d].id \in Id /\ ds[d].kind \in Kind
  BY <1>1 DEF Woken, SameCall
<1>3. \A d \in Caller :
        /\ ds[d].pc = cs[d].pc /\ ds[d].id = cs[d].id /\ ds[d].token = cs[d].token
        /\ SameCall(cs[d], callers[d]) => SameCall(ds[d], callers[d])
  BY <1>1 DEF SameCall
<1>4. Woken(ds, L, i, F)
  BY <1>1, <1>2, <1>3 DEF Woken
<1> QED BY <1>4 DEF ds

LEMMA WokenSettles ==
    ASSUME NEW cs, NEW L, NEW i, NEW F, Woken(cs, L, i, F), "settling" \in F
    PROVE  /\ Woken(Settled(cs, i), L, i, F)
           /\ \A c \in Caller : Settled(cs, i)[c].id = i => Settled(cs, i)[c].pc # "settling"
BY SettledIs, WokenMore DEF Woken

LEMMA WokenOvertakes ==
    ASSUME NEW cs, NEW L, NEW i, NEW F, Woken(cs, L, i, F), "loaded" \in F
    PROVE  Woken(Overtaken(cs, i), L, i, F)
<1>1. AnyCallers(cs)
  BY DEF Woken
<1>2. Wakes(Overtaken(cs, i), cs, i, "loaded")
  BY <1>1, OvertakenIs
<1> QED BY <1>2, WokenMore

LEMMA WokenPlaces ==
    ASSUME NEW L, NEW i, NEW F, Woken(callers', L, i, F)
    PROVE  /\ AnyCallers(callers') /\ CallersAtPlace'
           /\ \A d \in Caller : \/ SameCall(callers'[d], callers[d])
                                \/ callers[d].id = i /\ callers'[d].id \in {i, None}
BY DEF Woken, CallersAtPlace

\* The callers of the operations at i stay.
LEMMA OpsAwaited ==
    ASSUME IInv, TypeOK', NEW i \in Id, Thins(i), NEW L, NEW F,
           Woken(callers', L, i, F), F \subseteq {"loaded", "settling"},
           \A k \in DOMAIN chain'[i] :
             chain'[i][k].kind \in {"commit", "check"} => chain'[i][k].caller \notin L
    PROVE  \A k \in DOMAIN chain'[i] : chain'[i][k].kind \in {"commit", "check"} =>
             SameCall(callers'[chain'[i][k].caller], callers[chain'[i][k].caller])
<1> SUFFICES ASSUME NEW k \in DOMAIN chain'[i], chain'[i][k].kind \in {"commit", "check"}
             PROVE  SameCall(callers'[chain'[i][k].caller], callers[chain'[i][k].caller])
  OBVIOUS
<1> DEFINE c == chain'[i][k].caller
<1>1. c \in Caller /\ c \notin L
  BY ChainTyped, SeqOps, OpFields
<1>2. callers[c].pc \in {"committing", "checking"}
  BY DEF Thins, Thinned, Keyed, IInv, Chained, OpsAtPlace
<1> HIDE DEF c
<1>3. SameCall(callers'[c], callers[c])
  BY <1>1, <1>2 DEF Woken
<1> QED BY <1>3 DEF c

LEMMA MildStep ==
    ASSUME IInv, TypeOK', NEW i \in Id, Only(i), EntryStays(i), Thins(i), HeadAtPlace(i)',
           NEW L, Woken(callers', L, i, {"loaded"}),
           \A c \in Caller : c \in L => Apart(c, i),
           \A k \in DOMAIN chain'[i] :
             chain'[i][k].kind \in {"commit", "check"} => chain'[i][k].caller \notin L,
           Begun(i, "append")' => Begun(i, "append") \/ ~Locked(i),
           \/ log'[i] = log[i] /\ tracked'[i] = tracked[i]
           \/ \A c \in Caller : ~(Holder(c, i) /\ Bound(c)),
           live'[i].state = "live" => live[i].state = "live"
    PROVE  IInv'
<1>1. TypeOK /\ Chained(i) /\ Held(i)
  BY DEF IInv
<1>2. \A k \in DOMAIN chain'[i] : chain'[i][k].kind \in {"commit", "check"} =>
        SameCall(callers'[chain'[i][k].caller], callers[chain'[i][k].caller])
  BY OpsAwaited
<1>3. \A c \in Caller :
        \/ SameCall(callers'[c], callers[c])
        \/ Apart(c, i) /\ Apart(c, i)'
  <2> SUFFICES ASSUME NEW c \in Caller, ~SameCall(callers'[c], callers[c])
               PROVE  Apart(c, i) /\ Apart(c, i)'
    OBVIOUS
  <2>1. callers'[c].pc \in Free
    BY DEF Woken, Free
  <2>2. Apart(c, i)
    <3>1. c \in L \/ callers[c].pc \in Free
      BY DEF Woken, Free
    <3> QED BY <3>1, OffIsApart DEF Off
  <2>3. Apart(c, i)'
    BY <2>1 DEF Apart, Holder, Holds, Free
  <2> QED BY <2>2, <2>3
<1>4. ReadersAtPhase(i)'
  BY <1>1, ReadersStay DEF Woken
<1>5. Chained(i)'
  <2>1. Pooled(i)' => Pooled(i) /\ Entry(i)' = Entry(i)
    BY DEF EntryStays, Pooled, Entry
  <2> QED BY <1>1, <1>2, <2>1, ChainKeeps DEF Thins, SameCall
<1>6. Held(i)'
  <2>1. WaitersAtPhase(i)'
    BY <1>1, <1>3, WaitersStay
  <2>2. \A k \in DOMAIN chain'[i] : chain'[i][k].kind = "commit" =>
           callers'[chain'[i][k].caller].token = callers[chain'[i][k].caller].token
    BY <1>2 DEF SameCall
  <2>3. \A k \in DOMAIN chain'[i] : chain'[i][k].kind = "commit" =>
           \E l \in DOMAIN chain[i] : chain'[i][k] = chain[i][l]
    BY DEF Thins, Thinned, Keyed
  <2> QED BY <1>1, <1>3, <1>4, <2>1, <2>2, <2>3, EntryKept DEF Apart
<1> QED BY <1>5, <1>6, WokenPlaces, OthersKeep DEF Only

\* The entry leaves the pool, or becomes ready for whoever comes.
FreesEntry(i) ==
    Pooled(i)' =>
      /\ Pooled(i) /\ Entry(i)'.token = Entry(i).token /\ Entry(i)'.phase = "ready"
      /\ \A k \in DOMAIN chain'[i] :
           /\ chain'[i][k].kind = "load" => chain'[i][k].token # Entry(i).token
           /\ chain'[i][k].kind # "commit"
      /\ \A c \in Caller : ~Holder(c, i)'
      /\ live'[i].state # "live"

LEMMA FreedHolds ==
    ASSUME TypeOK, TypeOK', NEW i \in Id, Chained(i), Thins(i), HeadAtPlace(i)', FreesEntry(i),
           \A k \in DOMAIN chain'[i] : chain'[i][k].kind \in {"commit", "check"} =>
             SameCall(callers'[chain'[i][k].caller], callers[chain'[i][k].caller]),
           \A c \in Caller : callers'[c].id = i => callers'[c].pc \notin {"reserved", "settling"}
    PROVE  Chained(i)' /\ Held(i)'
<1>1. Chained(i)'
  BY ChainKeeps DEF Thins, SameCall, FreesEntry
<1>2. CASE ~Pooled(i)'
  BY <1>1, <1>2, EntryGone
<1>3. CASE Pooled(i)'
  <2>1. CommitsAtPlace(i)' /\ ReadersAtPhase(i)'
    BY <1>3 DEF CommitsAtPlace, ReadersAtPhase, FreesEntry
  <2> QED BY <1>1, <1>3, <2>1, EntryUnlocked DEF FreesEntry
<1> QED BY <1>2, <1>3

LEMMA FreedStep ==
    ASSUME IInv, TypeOK', NEW i \in Id, Only(i), Thins(i), HeadAtPlace(i)', FreesEntry(i),
           NEW L, Woken(callers', L, i, {"loaded", "settling"}),
           \A k \in DOMAIN chain'[i] :
             chain'[i][k].kind \in {"commit", "check"} => chain'[i][k].caller \notin L,
           \A c \in Caller : callers'[c].id = i => callers'[c].pc \notin {"reserved", "settling"}
    PROVE  IInv'
<1>1. TypeOK /\ Chained(i)
  BY DEF IInv
<1>2. \A k \in DOMAIN chain'[i] : chain'[i][k].kind \in {"commit", "check"} =>
        SameCall(callers'[chain'[i][k].caller], callers[chain'[i][k].caller])
  BY OpsAwaited
<1>3. Chained(i)' /\ Held(i)'
  BY <1>1, <1>2, FreedHolds
<1> QED BY <1>3, WokenPlaces, OthersKeep DEF Only

-----------------------------------------------------------------------------
(* An inspection asks for a check of its source.                           *)

LEMMA InspectChecks ==
    ASSUME IInv, NEW c \in Caller, NEW i \in Id, callers[c].id = i, callers[c].pc = "woken",
           Evicts(pool', pool), Queue(i, [kind |-> "check", caller |-> c]), Goto(c, "checking"),
           UNCHANGED <<log, tracked, live, running>>
    PROVE  IInv'
<1>1. TypeOK /\ CallersAtPlace /\ Chained(i) /\ Held(i)
  BY DEF IInv
<1> DEFINE op == [kind |-> "check", caller |-> c]
<1>2. op \in Op /\ op.kind = "check" /\ op.caller = c
  BY DEF Op
<1> HIDE DEF op
<1>3. /\ chain' \in [Id -> Seq(Op)]
      /\ \A j \in Id \ {i} : chain'[j] = chain[j]
      /\ chain[i] # <<>> => Head(chain'[i]) = Head(chain[i])
      /\ chain'[i] # <<>> /\ Grows(i, op)
  BY <1>1, <1>2, QueueIs DEF op, Grows
<1>4. /\ AnyCallers(callers') /\ CallersAtPlace'
      /\ \A d \in Caller \ {c} : SameCall(callers'[d], callers[d])
      /\ callers'[c].pc = "checking" /\ callers'[c].id = i
  BY <1>1, GotoIs
<1>5. TypeOK'
  BY <1>1, <1>3, <1>4, Typed, TypesKeep DEF Evicts
<1>6. \A j \in Id : EntryStays(j)
  BY DEF Evicts, EntryStays, Entry
<1>7. Pooled(i)' => Pooled(i) /\ Entry(i)' = Entry(i)
  BY <1>6 DEF EntryStays, Pooled, Entry
<1>8. \A k \in DOMAIN chain'[i] : chain'[i][k].kind \in {"load", "commit"} =>
        k \in DOMAIN chain[i] /\ chain'[i][k] = chain[i][k]
  BY <1>2, <1>3 DEF Grows
<1>9. Chained(i)'
  <2>1. OpsAtPlace(i)'
    <3>1. /\ callers[c].pc \notin {"committing", "checking"}
          /\ op.kind \in {"commit", "check"} => op.caller = c /\ callers'[c].id = i
          /\ op.kind = "commit" => callers'[c].pc = "committing" /\ callers'[c].source = op.source
          /\ op.kind = "check" => callers'[c].pc = "checking"
      BY <1>2, <1>4
    <3>2. /\ TypeOK /\ Chained(i) /\ op \in Op /\ Grows(i, op)
          /\ \A d \in Caller \ {c} : SameCall(callers'[d], callers[d])
      BY <1>1, <1>2, <1>3, <1>4
    <3> QED BY <3>1, <3>2, OpsGrow
  <2>2. HeadAtPlace(i)'
    BY <1>1, <1>3 DEF Chained, HeadAtPlace
  <2>3. LoadsAtPlace(i)'
    BY <1>1, <1>7, <1>8 DEF Chained, LoadsAtPlace
  <2> QED BY <2>1, <2>2, <2>3 DEF Chained
<1>10. Held(i)'
  <2>1. \A d \in Caller : \/ SameCall(callers'[d], callers[d])
                          \/ Apart(d, i) /\ Apart(d, i)'
    BY <1>4 DEF Apart, Holder, Holds
  <2>2. WaitersAtPhase(i)' /\ ReadersAtPhase(i)'
    <3>1. WaitersAtPhase(i)'
      BY <1>1, <1>5, <1>6, <2>1, WaitersStay
    <3>2. \A d \in Caller : \/ SameCall(callers'[d], callers[d])
                            \/ callers'[d].pc \notin {"loaded", "woken"}
      BY <1>4
    <3> QED BY <1>1, <1>6, <3>1, <3>2, ReadersStay
  <2>3. \A k \in DOMAIN chain'[i] : chain'[i][k].kind = "commit" =>
          callers'[chain'[i][k].caller].token = callers[chain'[i][k].caller].token
    <3> SUFFICES ASSUME NEW k \in DOMAIN chain'[i], chain'[i][k].kind = "commit"
                 PROVE  SameCall(callers'[chain'[i][k].caller], callers[chain'[i][k].caller])
      BY DEF SameCall
    <3>1. k \in DOMAIN chain[i] /\ chain'[i][k] = chain[i][k]
      BY <1>8
    <3>2. chain[i][k].caller \in Caller /\ callers[chain[i][k].caller].pc = "committing"
      BY <1>1, <3>1, ChainTyped, SeqOps, OpFields DEF Chained, OpsAtPlace
    <3> QED BY <1>4, <3>1, <3>2
  <2>4. \A k \in DOMAIN chain'[i] : chain'[i][k].kind = "commit" =>
          \E l \in DOMAIN chain[i] : chain'[i][k] = chain[i][l]
    BY <1>8
  <2>5. Begun(i, "append")' => Begun(i, "append")
    BY <1>1, <1>3 DEF Begun, Chained, HeadAtPlace
  <2>6. \A d \in Caller : \/ SameCall(callers'[d], callers[d])
                          \/ ~Holder(d, i) /\ ~Holder(d, i)'
    BY <2>1 DEF Apart
  <2> QED BY <1>1, <1>5, <1>6, <2>2, <2>3, <2>4, <2>5, <2>6, EntryKept
<1>11. \A d \in Caller : \/ SameCall(callers'[d], callers[d])
                         \/ callers[d].id = i /\ callers'[d].id \in {i, None}
  BY <1>4
<1> QED BY <1>3, <1>4, <1>5, <1>6, <1>9, <1>10, <1>11, OthersKeep

LEMMA InspectKeeps ==
    ASSUME IInv, NEW c \in Caller, Inspect(c) PROVE IInv'
<1> SUFFICES ASSUME NEW i, i = callers[c].id PROVE IInv'
  OBVIOUS
<1>1. TypeOK /\ CallersAtPlace /\ i \in Id /\ callers[c].pc = "woken"
  BY DEF IInv, CallersAtPlace, Inspect
<1>2. Evicts(pool', pool)
  BY <1>1, PoolTyped, TouchedIs DEF Inspect, Evicts
<1>3. CASE live[i].state = "live" /\ Return(c) /\ UNCHANGED chain
  <2>1. /\ AnyCallers(callers') /\ CallersAtPlace' /\ callers'[c].pc = "idle"
        /\ \A d \in Caller \ {c} : SameCall(callers'[d], callers[d])
    BY <1>1, <1>3, ReturnIs DEF Return
  <2> QED BY <1>1, <1>2, <1>3, <2>1, CallerRoams DEF Inspect, Free
<1>4. CASE /\ live[i].state # "live"
           /\ Queue(i, [kind |-> "check", caller |-> c])
           /\ Goto(c, "checking")
  BY <1>1, <1>2, <1>4, InspectChecks DEF Inspect
<1> QED BY <1>3, <1>4 DEF Inspect

-----------------------------------------------------------------------------
(* Steps that move nothing of an entry's.                                  *)

LiveRecord == [state : {"none", "live", "retiring", "failed"}, next : Nat, dirty : BOOLEAN]
AnyLive(l) == l \in [Id -> LiveRecord]

LEMMA LiveTyped == TypeOK => AnyLive(live)
BY DEF TypeOK, AnyLive, LiveRecord

\* What becomes of a live session's record.
LEMMA LiveIs ==
    ASSUME AnyLive(live), NEW i \in Id, NEW r \in LiveRecord, live' = [live EXCEPT ![i] = r]
    PROVE  /\ AnyLive(live') /\ live'[i].state = r.state
           /\ \A j \in Id \ {i} : live'[j] = live[j]
BY DEF AnyLive, LiveRecord

LEMMA LiveFields ==
    ASSUME AnyLive(live), NEW i \in Id
    PROVE  /\ live[i] \in LiveRecord /\ live[i].state \in {"none", "live", "retiring", "failed"}
           /\ live[i].next \in Nat
BY DEF AnyLive, LiveRecord

Dirtied(r, dirty) == [r EXCEPT !.dirty = dirty]
Advanced(r) == [r EXCEPT !.next = @ + 1]
Moved(r, state) == [r EXCEPT !.state = state]
Redirtied(r, state) == [r EXCEPT !.dirty = TRUE, !.state = state]

LEMMA LiveChanges ==
    ASSUME NEW r \in LiveRecord, NEW dirty \in BOOLEAN,
           NEW state \in {"none", "live", "retiring", "failed"}
    PROVE  /\ Dirtied(r, dirty) \in LiveRecord /\ Dirtied(r, dirty).state = r.state
           /\ Advanced(r) \in LiveRecord /\ Advanced(r).state = r.state
           /\ Moved(r, state) \in LiveRecord /\ Moved(r, state).state = state
           /\ Redirtied(r, state) \in LiveRecord /\ Redirtied(r, state).state = state
<1>1. Dirtied(r, dirty) \in LiveRecord /\ Dirtied(r, dirty).state = r.state
  BY DEF Dirtied, LiveRecord
<1>2. Advanced(r) \in LiveRecord /\ Advanced(r).state = r.state
  BY DEF Advanced, LiveRecord
<1>3. Moved(r, state) \in LiveRecord /\ Moved(r, state).state = state
  BY DEF Moved, LiveRecord
<1>4. Redirtied(r, state) \in LiveRecord /\ Redirtied(r, state).state = state
  BY DEF Redirtied, LiveRecord
<1> QED BY <1>1, <1>2, <1>3, <1>4

LEMMA LiveMoves ==
    ASSUME AnyLive(live), NEW i \in Id, NEW dirty \in BOOLEAN,
           NEW state \in {"none", "live", "retiring", "failed"},
           \/ live' = [live EXCEPT ![i] = Dirtied(live[i], dirty)] /\ state = live[i].state
           \/ live' = [live EXCEPT ![i] = Advanced(live[i])] /\ state = live[i].state
           \/ live' = [live EXCEPT ![i] = Moved(live[i], state)]
           \/ live' = [live EXCEPT ![i] = Redirtied(live[i], state)]
    PROVE  /\ AnyLive(live') /\ live'[i].state = state
           /\ \A j \in Id \ {i} : live'[j] = live[j]
<1>1. PICK r \in LiveRecord : live' = [live EXCEPT ![i] = r] /\ r.state = state
  <2>1. live[i] \in LiveRecord
    BY LiveFields
  <2> QED BY <2>1, LiveChanges
<1> QED BY <1>1, LiveIs

\* A writer comes, or a live session changes.
LEMMA WriterKeeps ==
    ASSUME IInv, NEW i \in Id, UNCHANGED <<log, tracked, running, pool, callers>>,
           AnyLive(live'), \A j \in Id \ {i} : live'[j] = live[j],
           live'[i].state = "live" => live[i].state = "live",
           \/ chain' = chain
           \/ \E op \in Op : op.kind \notin Keyed /\ Queue(i, op)
    PROVE  IInv'
<1>1. TypeOK /\ CallersAtPlace /\ Chained(i)
  BY DEF IInv
<1>2. /\ chain' \in [Id -> Seq(Op)] /\ Thins(i)
      /\ \A j \in Id \ {i} : chain'[j] = chain[j]
      /\ chain[i] # <<>> => chain'[i] # <<>> /\ Head(chain'[i]) = Head(chain[i])
  <2>1. CASE chain' = chain
    BY <1>1, <2>1, Typed, ChainStays
  <2>2. CASE \E op \in Op : op.kind \notin Keyed /\ Queue(i, op)
    <3>1. PICK op \in Op : op.kind \notin Keyed /\ Queue(i, op)
      BY <2>2
    <3> QED BY <1>1, <3>1, QueueIs, ChainGrows
  <2> QED BY <2>1, <2>2
<1>3. TypeOK'
  BY <1>1, <1>2, Typed, TypesKeep DEF AnyLive, LiveRecord
<1>4. Only(i) /\ EntryStays(i)
  BY <1>2, SamePool DEF Only
<1>5. HeadAtPlace(i)' /\ (Begun(i, "append")' => Begun(i, "append"))
  BY <1>1, <1>2 DEF HeadAtPlace, Chained, Begun
<1>6. Woken(callers', {}, i, {"loaded"})
  BY <1>1, NobodyWoken
<1> QED BY <1>2, <1>3, <1>4, <1>5, <1>6, MildStep

LEMMA AppendOp ==
    ASSUME NEW owned \in BOOLEAN, NEW from \in Nat, NEW i, AppendOf(i, owned, from)
    PROVE  \E op \in Op : op.kind \notin Keyed /\ Queue(i, op)
<1> DEFINE op == [kind |-> "append", owned |-> owned, from |-> from, stage |-> "queued",
                  source |-> None]
<1>1. op \in Op /\ op.kind \notin Keyed
  BY DEF Op, Keyed
<1>2. Queue(i, op)
  BY DEF AppendOf
<1> QED BY <1>1, <1>2

LEMMA WritersKeep ==
    ASSUME IInv, NEW i \in Id, Writers(i) PROVE IInv'
<1>1. TypeOK /\ AnyLive(live) /\ live[i].next \in Nat /\ log[i].len \in Nat
  BY Typed, LiveTyped, LiveFields DEF IInv, Log
<1>2. CASE ServiceAppend(i)
  <2>1. \E op \in Op : op.kind \notin Keyed /\ Queue(i, op)
    BY <1>1, <1>2, AppendOp DEF ServiceAppend
  <2> QED BY <1>1, <1>2, <2>1, WriterKeeps DEF ServiceAppend
<1>3. CASE Emit(i)
  <2>1. live' = [live EXCEPT ![i] = Dirtied(live[i], TRUE)]
    BY <1>1, <1>3 DEF Emit, AnyLive, Dirtied
  <2>2. AnyLive(live') /\ live'[i].state = live[i].state /\ \A j \in Id \ {i} : live'[j] = live[j]
    BY <1>1, <2>1, LiveMoves, LiveFields
  <2> QED BY <1>3, <2>2, WriterKeeps DEF Emit
<1>4. CASE StartWrite(i)
  <2>1. live' = [live EXCEPT ![i] = Dirtied(live[i], FALSE)]
    BY <1>1, <1>4 DEF StartWrite, AnyLive, Dirtied
  <2>2. AnyLive(live') /\ live'[i].state = live[i].state /\ \A j \in Id \ {i} : live'[j] = live[j]
    BY <1>1, <2>1, LiveMoves, LiveFields
  <2>3. \E op \in Op : op.kind \notin Keyed /\ Queue(i, op)
    BY <1>1, <1>4, AppendOp DEF StartWrite
  <2> QED BY <1>4, <2>2, <2>3, WriterKeeps DEF StartWrite
<1>5. CASE Dispose(i)
  <2>1. live' = [live EXCEPT ![i] = Moved(live[i], "retiring")]
    BY <1>1, <1>5 DEF Dispose, AnyLive, Moved
  <2>2. AnyLive(live') /\ live'[i].state = "retiring" /\ \A j \in Id \ {i} : live'[j] = live[j]
    BY <1>1, <2>1, LiveMoves, LiveFields
  <2> QED BY <1>5, <2>2, WriterKeeps DEF Dispose
<1>6. CASE Retire(i)
  <2> DEFINE op == [kind |-> "retire"]
  <2>1. op \in Op /\ op.kind \notin Keyed
    BY DEF Op, Keyed
  <2>2. \E o \in Op : o.kind \notin Keyed /\ Queue(i, o)
    BY <1>6, <2>1 DEF Retire
  <2> QED BY <1>1, <1>6, <2>2, WriterKeeps DEF Retire
<1> QED BY <1>2, <1>3, <1>4, <1>5, <1>6 DEF Writers

-----------------------------------------------------------------------------
(* Storage: what begins, and what ends without a change of the entry.      *)

LEMMA BeginKeeps ==
    ASSUME IInv, NEW i \in Id, Begin(i) PROVE IInv'
<1>1. TypeOK /\ CallersAtPlace /\ Chained(i)
  BY DEF IInv
<1>2. /\ running' \in [Id -> BOOLEAN] /\ \A j \in Id \ {i} : running'[j] = running[j]
      /\ chain' = chain /\ chain[i] # <<>> /\ Head(chain[i]).kind # "append"
  BY <1>1, Typed DEF Begin
<1>3. Woken(callers', {}, i, {"loaded"})
  BY <1>1, NobodyWoken, WokenOvertakes DEF Begin
<1>4. TypeOK'
  BY <1>1, <1>2, <1>3, Typed, TypesKeep, WokenPlaces DEF Begin
<1>5. Only(i) /\ EntryStays(i) /\ Thins(i)
  BY <1>1, <1>2, SamePool, ChainStays DEF Only, Begin
<1>6. HeadAtPlace(i)' /\ ~Begun(i, "append")'
  BY <1>2 DEF HeadAtPlace, Begun
<1> QED BY <1>3, <1>4, <1>5, <1>6, MildStep DEF Begin

\* The head of the chain has begun.
LEMMA BegunIs ==
    ASSUME IInv, NEW i \in Id, NEW kind, Begun(i, kind)
    PROVE  /\ chain[i] # <<>> /\ Head(chain[i]) = chain[i][1] /\ 1 \in DOMAIN chain[i]
           /\ Head(chain[i]) \in Op /\ Head(chain[i]).kind = kind
BY ChainTyped, SeqOps DEF IInv, Chained, HeadAtPlace, Begun

\* No other operation is its caller's.
LEMMA OnlyOp ==
    ASSUME IInv, NEW i \in Id, chain[i] # <<>>, chain'[i] = Tail(chain[i]),
           chain[i][1].kind \in {"commit", "check"}
    PROVE  \A k \in DOMAIN chain'[i] : chain'[i][k].kind \in {"commit", "check"} =>
             chain'[i][k].caller # chain[i][1].caller
<1> SUFFICES ASSUME NEW k \in DOMAIN chain'[i], chain'[i][k].kind \in {"commit", "check"},
                    chain'[i][k].caller = chain[i][1].caller
             PROVE  FALSE
  OBVIOUS
<1>1. /\ k \in Nat /\ k + 1 \in DOMAIN chain[i] /\ chain'[i][k] = chain[i][k + 1]
      /\ 1 \in DOMAIN chain[i] /\ k \in DOMAIN Tail(chain[i])
  BY ChainTyped, SeqOps DEF IInv
<1>2. k >= 1
  BY <1>1, ChainTyped, SeqOps DEF IInv
<1>3. k + 1 = 1
  BY <1>1 DEF IInv, Chained, OpsAtPlace
<1> QED BY <1>1, <1>2, <1>3

LEMMA DroppedDoneKeeps ==
    ASSUME IInv, NEW i \in Id, DroppedDone(i) PROVE IInv'
<1>1. TypeOK /\ CallersAtPlace /\ chain[i] # <<>> /\ Pop(i)
  BY BegunIs DEF IInv, DroppedDone
<1>2. /\ chain' \in [Id -> Seq(Op)] /\ running' \in [Id -> BOOLEAN]
      /\ \A j \in Id \ {i} : chain'[j] = chain[j] /\ running'[j] = running[j]
      /\ Thins(i) /\ HeadAtPlace(i)' /\ ~Begun(i, "append")'
  BY <1>1, PopIs
<1>3. TypeOK'
  BY <1>1, <1>2, Typed, TypesKeep DEF DroppedDone
<1>4. Only(i) /\ EntryStays(i)
  BY <1>2, SamePool DEF Only, DroppedDone
<1>5. Woken(callers', {}, i, {"loaded"})
  BY <1>1, NobodyWoken DEF DroppedDone
<1> QED BY <1>2, <1>3, <1>4, <1>5, MildStep DEF DroppedDone

\* A caller whose check has ended takes the place r.
LEMMA CheckEnds ==
    ASSUME IInv, NEW i \in Id, NEW c \in Caller, NEW r \in CallRecord,
           chain[i] # <<>>, Pop(i), chain[i][1].kind = "check", chain[i][1].caller = c,
           callers' = [callers EXCEPT ![c] = r],
           r.pc = "checked", r.id = callers[c].id, r.kind = callers[c].kind,
           UNCHANGED <<log, tracked, live, pool>>
    PROVE  IInv'
<1>1. TypeOK /\ CallersAtPlace /\ Chained(i) /\ Held(i)
  BY DEF IInv
<1>2. /\ chain' \in [Id -> Seq(Op)] /\ running' \in [Id -> BOOLEAN]
      /\ \A j \in Id \ {i} : chain'[j] = chain[j] /\ running'[j] = running[j]
      /\ Thins(i) /\ HeadAtPlace(i)' /\ ~Begun(i, "append")'
      /\ chain'[i] = Tail(chain[i])
  BY <1>1, PopIs
<1>3. callers[c].pc = "checking" /\ callers[c].id = i
  BY <1>1, ChainTyped, SeqOps DEF Chained, OpsAtPlace
<1>4. /\ AnyCallers(callers') /\ CallersAtPlace' /\ callers'[c] = r
      /\ \A d \in Caller \ {c} : SameCall(callers'[d], callers[d])
  <2>1. r.id \in Id /\ r.kind \in Kind
    BY <1>1, <1>3 DEF CallersAtPlace
  <2> QED BY <1>1, <2>1, PlaceIs
<1>5. TypeOK'
  BY <1>1, <1>2, <1>4, Typed, TypesKeep
<1>6. Only(i) /\ EntryStays(i)
  BY <1>2, SamePool DEF Only
<1>7. \A d \in Caller :
        \/ SameCall(callers'[d], callers[d])
        \/ /\ Apart(d, i) /\ Apart(d, i)'
           /\ \A k \in DOMAIN chain'[i] :
                chain'[i][k].kind \in {"commit", "check"} => chain'[i][k].caller # d
  <2>1. Apart(c, i) /\ Apart(c, i)'
    BY <1>3, <1>4 DEF Apart, Holder, Holds
  <2>2. \A k \in DOMAIN chain'[i] :
          chain'[i][k].kind \in {"commit", "check"} => chain'[i][k].caller # c
    BY <1>2, OnlyOp
  <2> QED BY <1>4, <2>1, <2>2
<1>8. ReadersAtPhase(i)'
  BY <1>1, <1>4, <1>6, ReadersStay
<1>9. Chained(i)' /\ Held(i)'
  BY <1>1, <1>2, <1>5, <1>6, <1>7, <1>8, MildKeeps
<1>10. \A d \in Caller : \/ SameCall(callers'[d], callers[d])
                         \/ callers[d].id = i /\ callers'[d].id \in {i, None}
  BY <1>3, <1>4
<1> QED BY <1>4, <1>5, <1>6, <1>9, <1>10, OthersKeep DEF Only

Answered(r, pc, outcome) == [r EXCEPT !.pc = pc, !.outcome = outcome]

LEMMA AnsweredTyped ==
    ASSUME NEW r \in CallRecord, NEW pc \in {"committed", "checked"},
           NEW outcome \in {"none", "ok", "error"}
    PROVE  /\ Answered(r, pc, outcome) \in CallRecord
           /\ Answered(r, pc, outcome).pc = pc
           /\ Answered(r, pc, outcome).outcome = outcome
           /\ Answered(r, pc, outcome).id = r.id /\ Answered(r, pc, outcome).kind = r.kind
           /\ Answered(r, pc, outcome).token = r.token
           /\ Answered(r, pc, outcome).source = r.source
BY DEF Answered, CallRecord

LEMMA CheckDoneKeeps ==
    ASSUME IInv, NEW i \in Id, CheckDone(i) PROVE IInv'
<1> SUFFICES ASSUME NEW c, c = Head(chain[i]).caller PROVE IInv'
  OBVIOUS
<1>1. /\ TypeOK /\ CallersAtPlace /\ chain[i] # <<>> /\ Pop(i)
      /\ chain[i][1].kind = "check" /\ chain[i][1].caller = c /\ c \in Caller
      /\ callers[c] \in CallRecord
  BY BegunIs, OpFields, Typed DEF IInv, CheckDone
<1> DEFINE outcome == IF IsCurrent(i, callers[c].source) THEN "ok" ELSE "none"
           r == Answered(callers[c], "checked", outcome)
<1>2. outcome \in {"none", "ok", "error"}
  OBVIOUS
<1>3. callers' = [callers EXCEPT ![c].pc = "checked", ![c].outcome = outcome]
  BY <1>1 DEF CheckDone
<1> HIDE DEF outcome
<1>4. r \in CallRecord /\ r.pc = "checked" /\ r.id = callers[c].id /\ r.kind = callers[c].kind
  BY <1>1, <1>2, AnsweredTyped
<1>5. callers' = [callers EXCEPT ![c] = r]
  BY <1>1, <1>3, Typed DEF AnyCallers, Answered
<1> HIDE DEF r
<1> QED BY <1>1, <1>4, <1>5, CheckEnds DEF CheckDone

\* A retirement forgets the tracked state of an owner, which no reservation has.
LEMMA RetireDoneKeeps ==
    ASSUME IInv, NEW i \in Id, RetireDone(i) PROVE IInv'
<1>1. TypeOK /\ CallersAtPlace /\ chain[i] # <<>> /\ Pop(i) /\ Held(i)
  BY BegunIs DEF IInv, RetireDone
<1>2. /\ chain' \in [Id -> Seq(Op)] /\ running' \in [Id -> BOOLEAN]
      /\ \A j \in Id \ {i} : chain'[j] = chain[j] /\ running'[j] = running[j]
      /\ Thins(i) /\ HeadAtPlace(i)' /\ ~Begun(i, "append")'
  BY <1>1, PopIs
<1>3. /\ AnyLive(live') /\ live'[i].state = "none" /\ \A j \in Id \ {i} : live'[j] = live[j]
  <2>1. NotLive \in LiveRecord /\ NotLive.state = "none"
    BY DEF NotLive, LiveRecord
  <2>2. live' = [live EXCEPT ![i] = NotLive]
    BY DEF RetireDone
  <2> QED BY <1>1, <2>1, <2>2, LiveTyped, LiveIs
<1>4. /\ tracked' \in [Id -> State \cup {None}]
      /\ \A j \in Id \ {i} : tracked'[j] = tracked[j]
      /\ ~Owned(i) => tracked'[i] = tracked[i]
  BY <1>1, Typed DEF RetireDone
<1>5. Woken(callers', {}, i, {"loaded"})
  BY <1>1, NobodyWoken, WokenAwaits DEF RetireDone
<1>6. TypeOK'
  BY <1>1, <1>2, <1>3, <1>4, <1>5, Typed, TypesKeep, WokenPlaces DEF RetireDone, AnyLive, LiveRecord
<1>7. Only(i) /\ EntryStays(i)
  BY <1>2, <1>3, <1>4, SamePool DEF Only, RetireDone
<1>8. Owned(i) => \A c \in Caller : ~(Holder(c, i) /\ Bound(c))
  BY <1>1 DEF Held, SourceIsCurrent, Owned, Cursor
<1> QED BY <1>2, <1>3, <1>4, <1>5, <1>6, <1>7, <1>8, MildStep DEF RetireDone

-----------------------------------------------------------------------------
(* Appends.                                                                *)

LEMMA RefusedIs ==
    ASSUME TypeOK, NEW i \in Id, NEW op, Refused(i, op)
    PROVE  /\ AnyLive(live') /\ \A j \in Id \ {i} : live'[j] = live[j]
           /\ live'[i].state = "live" => live[i].state = "live"
<1>1. AnyLive(live)
  BY LiveTyped
<1>2. CASE live' = live
  BY <1>1, <1>2
<1>3. CASE live' = [live EXCEPT ![i].dirty = TRUE,
                                ![i].state = IF @ = "retiring" THEN "failed" ELSE @]
  <2> DEFINE state == IF live[i].state = "retiring" THEN "failed" ELSE live[i].state
  <2>1. live' = [live EXCEPT ![i] = Redirtied(live[i], state)]
    BY <1>1, <1>3 DEF AnyLive, Redirtied
  <2>2. /\ live[i] \in LiveRecord /\ state \in {"none", "live", "retiring", "failed"}
        /\ state = "live" => live[i].state = "live"
    BY <1>1, LiveFields
  <2> HIDE DEF state
  <2>3. Redirtied(live[i], state) \in LiveRecord /\ Redirtied(live[i], state).state = state
    BY <2>2, LiveChanges
  <2> QED BY <1>1, <2>1, <2>2, <2>3, LiveIs
<1> QED BY <1>2, <1>3 DEF Refused

LEMMA UnretiredIs ==
    ASSUME NEW cs, NEW i, NEW F, Woken(cs, {}, i, F)
    PROVE  Woken(Unretired(cs, i), {}, i, F)
BY WokenAwaits DEF Unretired

\* The append at the head goes on to another stage.
StagesTo(i, stage, source) ==
    chain' = [chain EXCEPT ![i][1].stage = stage, ![i][1].source = source]

LEMMA StagedIs ==
    ASSUME TypeOK, NEW i \in Id, chain[i] # <<>>, Head(chain[i]).kind = "append",
           NEW stage \in {"adopt", "write"}, NEW source \in Log \cup {None},
           StagesTo(i, stage, source)
    PROVE  /\ chain' \in [Id -> Seq(Op)] /\ \A j \in Id \ {i} : chain'[j] = chain[j]
           /\ Thins(i) /\ chain'[i] # <<>>
           /\ Head(chain'[i]).kind = "append" /\ Head(chain'[i]).stage = stage
<1>1. /\ chain \in [Id -> Seq(Op)] /\ chain[i] \in Seq(Op) /\ 1 \in DOMAIN chain[i]
      /\ chain[i][1] \in Op /\ chain[i][1].kind = "append"
  BY Typed, ChainTyped, SeqOps
<1> DEFINE op == [chain[i][1] EXCEPT !.stage = stage, !.source = source]
           s == [chain[i] EXCEPT ![1] = op]
<1>2. op \in Op /\ op.kind = "append" /\ op.stage = stage
  BY <1>1 DEF Op
<1>3. chain' = [chain EXCEPT ![i] = s]
  BY <1>1 DEF StagesTo
<1> HIDE DEF op
<1>4. s \in Seq(Op) /\ s # <<>> /\ Head(s) = op
  BY <1>1, <1>2
<1>5. chain'[i] = [chain[i] EXCEPT ![1] = op]
  BY <1>1, <1>3
<1>6. Thins(i)
  BY <1>1, <1>2, <1>5, ChainStages DEF Keyed
<1> HIDE DEF s
<1> QED BY <1>1, <1>2, <1>3, <1>4, <1>6

\* What an append does is mild.
LEMMA AppendStep ==
    ASSUME IInv, NEW i \in Id,
           log' \in [Id -> Log], \A j \in Id \ {i} : log'[j] = log[j],
           tracked' \in [Id -> State \cup {None}], \A j \in Id \ {i} : tracked'[j] = tracked[j],
           AnyLive(live'), \A j \in Id \ {i} : live'[j] = live[j],
           live'[i].state = "live" => live[i].state = "live",
           chain' \in [Id -> Seq(Op)], \A j \in Id \ {i} : chain'[j] = chain[j],
           running' \in [Id -> BOOLEAN], \A j \in Id \ {i} : running'[j] = running[j],
           AnyPool(pool'), \A j \in Id : EntryStays(j),
           Woken(callers', {}, i, {"loaded"}),
           Thins(i), HeadAtPlace(i)',
           Begun(i, "append")' => Begun(i, "append") \/ ~Locked(i),
           \/ log'[i] = log[i] /\ tracked'[i] = tracked[i]
           \/ \A c \in Caller : ~(Holder(c, i) /\ Bound(c))
    PROVE  IInv'
<1>1. TypeOK'
  BY TypesKeep, WokenPlaces DEF AnyLive, LiveRecord
<1>2. Only(i)
  BY DEF Only
<1> QED BY <1>1, <1>2, MildStep

\* An append ends without having written.
LEMMA AppendLeaves ==
    ASSUME IInv, NEW i \in Id, chain[i] # <<>>, Pop(i), pool' = pool,
           log' \in [Id -> Log], \A j \in Id \ {i} : log'[j] = log[j],
           tracked' \in [Id -> State \cup {None}], \A j \in Id \ {i} : tracked'[j] = tracked[j],
           AnyLive(live'), \A j \in Id \ {i} : live'[j] = live[j],
           live'[i].state = "live" => live[i].state = "live",
           Woken(callers', {}, i, {"loaded"}),
           \/ log'[i] = log[i] /\ tracked'[i] = tracked[i]
           \/ \A c \in Caller : ~(Holder(c, i) /\ Bound(c))
    PROVE  IInv'
<1>1. TypeOK
  BY DEF IInv
<1>2. /\ chain' \in [Id -> Seq(Op)] /\ running' \in [Id -> BOOLEAN]
      /\ \A j \in Id \ {i} : chain'[j] = chain[j]
      /\ \A j \in Id \ {i} : running'[j] = running[j]
      /\ Thins(i) /\ HeadAtPlace(i)' /\ ~Begun(i, "append")'
  BY <1>1, PopIs
<1>3. AnyPool(pool') /\ \A j \in Id : EntryStays(j)
  BY <1>1, Typed, SamePool
<1> QED BY <1>2, <1>3, AppendStep

\* An append goes on.
LEMMA AppendGoesOn ==
    ASSUME IInv, NEW i \in Id, chain[i] # <<>>, Head(chain[i]).kind = "append",
           NEW stage \in {"adopt", "write"}, NEW source \in Log \cup {None},
           StagesTo(i, stage, source), stage = "write" => tracked'[i] # None,
           live' = live, \A j \in Id : EntryStays(j), AnyPool(pool'),
           log' \in [Id -> Log], \A j \in Id \ {i} : log'[j] = log[j],
           tracked' \in [Id -> State \cup {None}], \A j \in Id \ {i} : tracked'[j] = tracked[j],
           \/ running' = running /\ running[i]
           \/ running' = [running EXCEPT ![i] = TRUE] /\ ~Locked(i),
           Woken(callers', {}, i, {"loaded"}),
           \/ log'[i] = log[i] /\ tracked'[i] = tracked[i]
           \/ \A c \in Caller : ~(Holder(c, i) /\ Bound(c))
    PROVE  IInv'
<1>1. TypeOK
  BY DEF IInv
<1>2. /\ chain' \in [Id -> Seq(Op)] /\ \A j \in Id \ {i} : chain'[j] = chain[j]
      /\ Thins(i) /\ chain'[i] # <<>>
      /\ Head(chain'[i]).kind = "append" /\ Head(chain'[i]).stage = stage
  BY <1>1, StagedIs
<1>3. HeadAtPlace(i)'
  BY <1>2 DEF HeadAtPlace
<1>4. /\ running' \in [Id -> BOOLEAN] /\ \A j \in Id \ {i} : running'[j] = running[j]
      /\ Begun(i, "append")' => Begun(i, "append") \/ ~Locked(i)
  BY <1>1, Typed DEF Begun
<1>5. AnyLive(live')
  BY <1>1, LiveTyped
<1> QED BY <1>2, <1>3, <1>4, <1>5, AppendStep

LEMMA BeginAppendKeeps ==
    ASSUME IInv, NEW i \in Id, BeginAppend(i) PROVE IInv'
<1> DEFINE op == Head(chain[i])
           stored == op.owned /\ tracked[i] # None /\ op.from < tracked[i].cursor
<1>1. /\ TypeOK /\ CallersAtPlace /\ chain[i] # <<>> /\ op.kind = "append"
      /\ AnyLive(live) /\ AnyPool(pool) /\ log \in [Id -> Log]
      /\ tracked \in [Id -> State \cup {None}] /\ tracked' = tracked
  BY Typed, LiveTyped DEF IInv, BeginAppend
<1>2. Woken(callers', {}, i, {"loaded"})
  <2>1. Woken(Overtaken(callers, i), {}, i, {"loaded"})
    BY <1>1, NobodyWoken, WokenOvertakes
  <2>2. callers' = Unretired(Overtaken(callers, i), i)
    BY DEF BeginAppend
  <2> QED BY <2>1, <2>2, UnretiredIs
<1>3. CASE Pop(i) /\ pool' = pool /\ live' = [live EXCEPT ![i].next = @ + 1] /\ UNCHANGED log
  <2>1. live' = [live EXCEPT ![i] = Advanced(live[i])]
    BY <1>1, <1>3 DEF AnyLive, Advanced
  <2>3. AnyLive(live') /\ live'[i].state = live[i].state /\ \A j \in Id \ {i} : live'[j] = live[j]
    BY <1>1, <2>1, LiveMoves, LiveFields
  <2> QED BY <1>1, <1>2, <1>3, <2>3, AppendLeaves
<1>4. CASE AppendFails(i, op) /\ pool' = pool
  <2>1. Pop(i) /\ Refused(i, op) /\ log' = log
    BY <1>4 DEF AppendFails, Pop
  <2>2. /\ AnyLive(live') /\ \A j \in Id \ {i} : live'[j] = live[j]
        /\ live'[i].state = "live" => live[i].state = "live"
    BY <1>1, <2>1, RefusedIs
  <2> QED BY <1>1, <1>2, <1>4, <2>1, <2>2, AppendLeaves
<1>5. CASE /\ tracked[i] # None /\ ~Locked(i) /\ pool' = pool /\ StagesTo(i, "write", None)
           /\ running' = [running EXCEPT ![i] = TRUE] /\ UNCHANGED <<log, live>>
  BY <1>1, <1>2, <1>5, AppendGoesOn, SamePool
<1>6. CASE /\ ~Locked(i) /\ pool' = pool /\ StagesTo(i, "adopt", None)
           /\ running' = [running EXCEPT ![i] = TRUE] /\ UNCHANGED <<log, live>>
  BY <1>1, <1>2, <1>6, AppendGoesOn, SamePool
<1>7. CASE /\ ~Locked(i) /\ Phase(pool, i) = "ready"
           /\ StagesTo(i, "adopt", Entry(i).source) /\ pool' = Without(pool, {i})
           /\ running' = [running EXCEPT ![i] = TRUE] /\ UNCHANGED <<log, live>>
  <2>1. Entry(i).source \in Log
    BY <1>1, <1>7, EntryTyped, EntryFields DEF Pooled
  <2>2. AnyPool(pool') /\ \A j \in Id : EntryStays(j)
    BY <1>1, <1>7, WithoutIs DEF EntryStays, Entry
  <2> QED BY <1>1, <1>2, <1>7, <2>1, <2>2, AppendGoesOn
<1>8. \/ /\ stored /\ Pop(i) /\ pool' = pool
         /\ live' = [live EXCEPT ![i].next = @ + 1]
         /\ UNCHANGED log
      \/ ~stored /\ Locked(i) /\ AppendFails(i, op) /\ pool' = pool
      \/ /\ ~stored /\ ~Locked(i) /\ tracked[i] # None /\ pool' = pool
         /\ IF op.from = tracked[i].cursor
            THEN /\ StagesTo(i, "write", None)
                 /\ running' = [running EXCEPT ![i] = TRUE] /\ UNCHANGED <<log, live>>
            ELSE AppendFails(i, op)
      \/ /\ ~Locked(i) /\ tracked[i] = None
         /\ IF Phase(pool, i) = "ready"
            THEN /\ StagesTo(i, "adopt", Entry(i).source)
                 /\ running' = [running EXCEPT ![i] = TRUE] /\ UNCHANGED <<log, live>>
                 /\ pool' = Without(pool, {i})
            ELSE /\ StagesTo(i, "adopt", None)
                 /\ running' = [running EXCEPT ![i] = TRUE] /\ UNCHANGED <<log, live>>
                 /\ pool' = pool
  BY DEF BeginAppend, StagesTo
<1> HIDE DEF op, stored
<1> QED BY <1>3, <1>4, <1>5, <1>6, <1>7, <1>8

\* commitPrepared(): the cursor it sets is that of the stored log.
LEMMA CommittedIs ==
    ASSUME TypeOK, NEW i \in Id, NEW source \in Log, NEW outcome \in {"ok", "none", "error"},
           CommitPrepared(i, source, outcome)
    PROVE  /\ log' \in [Id -> Log] /\ \A j \in Id \ {i} : log'[j] = log[j]
           /\ tracked' \in [Id -> State \cup {None}]
           /\ \A j \in Id \ {i} : tracked'[j] = tracked[j]
           /\ tracked[i] # None => tracked'[i] # None
           /\ outcome = "ok" => /\ source = log[i] /\ ~source.broken /\ log' = log
                                /\ tracked'[i] = Cursor(source) /\ tracked'[i] # None
<1>1. /\ log \in [Id -> Log] /\ tracked \in [Id -> State \cup {None}] /\ log[i] \in Log
  BY Typed
<1>2. CASE log' = log /\ tracked' = tracked /\ outcome # "ok"
  BY <1>1, <1>2
<1>3. CASE log' = [log EXCEPT ![i] = Repaired(@)] /\ tracked' = tracked /\ outcome # "ok"
  <2>1. Repaired(log[i]) \in Log
    <3>1. \A l \in Log, n \in Nat : [l EXCEPT !.len = n, !.broken = FALSE] \in Log
      BY DEF Log
    <3>2. log[i].len + 1 \in Nat
      BY <1>1 DEF Log
    <3> QED BY <1>1, <3>1, <3>2 DEF Repaired
  <2> QED BY <1>1, <1>3, <2>1
<1>4. CASE /\ source = log[i] /\ ~source.broken /\ outcome = "ok"
           /\ tracked' = [tracked EXCEPT ![i] = Cursor(source)] /\ log' = log
  <2>1. Cursor(source) \in State
    BY DEF Cursor, Log, State
  <2>2. Cursor(source) # None
    BY <2>1, Assumed
  <2> QED BY <1>1, <1>4, <2>1, <2>2
<1> QED BY <1>2, <1>3, <1>4 DEF CommitPrepared, IsCurrent

LEMMA AppendsAlone ==
    ASSUME IInv, NEW i \in Id, Begun(i, "append")
    PROVE  \A c \in Caller : /\ Holder(c, i) => callers[c].pc = "committing"
                             /\ ~(Holder(c, i) /\ Bound(c))
BY DEF IInv, Held, AppendsFirst, Bound

LEMMA AdoptKeeps ==
    ASSUME IInv, NEW i \in Id, Adopt(i) PROVE IInv'
<1> SUFFICES ASSUME NEW op, op = Head(chain[i]) PROVE IInv'
  OBVIOUS
<1>1. /\ TypeOK /\ CallersAtPlace /\ chain[i] # <<>> /\ op.kind = "append" /\ running[i]
      /\ op \in Op /\ op.source \in Log \cup {None}
      /\ AnyLive(live) /\ AnyPool(pool) /\ log \in [Id -> Log] /\ log[i] \in Log
      /\ tracked \in [Id -> State \cup {None}]
  <2>1. Begun(i, "append")
    BY DEF Adopt
  <2> QED BY <2>1, BegunIs, OpFields, Typed, LiveTyped DEF IInv, Begun
<1>2. Woken(callers', {}, i, {"loaded"})
  BY <1>1, NobodyWoken, UnretiredIs DEF Adopt
<1>3. /\ pool' = pool /\ \A j \in Id : EntryStays(j)
      /\ \A c \in Caller : ~(Holder(c, i) /\ Bound(c))
  BY AppendsAlone, SamePool DEF Adopt
<1>4. CASE /\ ~log[i].corrupt /\ StagesTo(i, "adopt", log[i])
           /\ UNCHANGED <<running, live, log, tracked>>
  BY <1>1, <1>2, <1>3, <1>4, AppendGoesOn
<1>5. CASE AppendFails(i, op) /\ UNCHANGED tracked
  <2>1. Pop(i) /\ Refused(i, op) /\ log' = log
    BY <1>5 DEF AppendFails, Pop
  <2>2. /\ AnyLive(live') /\ \A j \in Id \ {i} : live'[j] = live[j]
        /\ live'[i].state = "live" => live[i].state = "live"
    BY <1>1, <2>1, RefusedIs
  <2> QED BY <1>1, <1>2, <1>3, <1>5, <2>1, <2>2, AppendLeaves
<1>6. ASSUME op.source # None, NEW outcome \in {"ok", "none", "error"},
             CommitPrepared(i, op.source, outcome),
             \/ /\ outcome = "none" /\ StagesTo(i, "adopt", None) /\ UNCHANGED <<running, live>>
             \/ /\ outcome = "ok" /\ StagesTo(i, "write", None) /\ UNCHANGED <<running, live>>
             \/ Pop(i) /\ Refused(i, op)
      PROVE  IInv'
  <2>1. op.source \in Log
    BY <1>1, <1>6
  <2>2. /\ log' \in [Id -> Log] /\ \A j \in Id \ {i} : log'[j] = log[j]
        /\ tracked' \in [Id -> State \cup {None}]
        /\ \A j \in Id \ {i} : tracked'[j] = tracked[j]
        /\ outcome = "ok" => tracked'[i] # None
    BY <1>1, <1>6, <2>1, CommittedIs
  <2>3. CASE /\ outcome = "none" /\ StagesTo(i, "adopt", None) /\ UNCHANGED <<running, live>>
    BY <1>1, <1>2, <1>3, <2>2, <2>3, AppendGoesOn
  <2>4. CASE /\ outcome = "ok" /\ StagesTo(i, "write", None) /\ UNCHANGED <<running, live>>
    BY <1>1, <1>2, <1>3, <2>2, <2>4, AppendGoesOn
  <2>5. CASE Pop(i) /\ Refused(i, op)
    <3>1. /\ AnyLive(live') /\ \A j \in Id \ {i} : live'[j] = live[j]
          /\ live'[i].state = "live" => live[i].state = "live"
      BY <1>1, <2>5, RefusedIs
    <3> QED BY <1>1, <1>2, <1>3, <2>2, <2>5, <3>1, AppendLeaves
  <2> QED BY <1>6, <2>3, <2>4, <2>5
<1>7. \/ /\ ~log[i].corrupt /\ StagesTo(i, "adopt", log[i])
         /\ UNCHANGED <<running, live, log, tracked>>
      \/ AppendFails(i, op) /\ UNCHANGED tracked
      \/ /\ op.source # None
         /\ \E outcome \in {"ok", "none", "error"} :
              /\ CommitPrepared(i, op.source, outcome)
              /\ \/ /\ outcome = "none" /\ StagesTo(i, "adopt", None) /\ UNCHANGED <<running, live>>
                 \/ /\ outcome = "ok" /\ StagesTo(i, "write", None) /\ UNCHANGED <<running, live>>
                 \/ Pop(i) /\ Refused(i, op)
  BY DEF Adopt, StagesTo, Pop
<1> QED BY <1>4, <1>5, <1>6, <1>7

LEMMA WriteFailsKeeps ==
    ASSUME IInv, NEW i \in Id, WriteFails(i) PROVE IInv'
<1>1. /\ TypeOK /\ CallersAtPlace /\ chain[i] # <<>>
      /\ log \in [Id -> Log] /\ tracked \in [Id -> State \cup {None}]
  BY BegunIs, Typed DEF IInv, WriteFails
<1>2. Woken(callers', {}, i, {"loaded"})
  BY <1>1, NobodyWoken, UnretiredIs DEF WriteFails
<1>3. Pop(i) /\ Refused(i, Head(chain[i])) /\ UNCHANGED <<log, tracked, pool>>
  BY DEF WriteFails, AppendFails, Pop
<1>4. /\ AnyLive(live') /\ \A j \in Id \ {i} : live'[j] = live[j]
      /\ live'[i].state = "live" => live[i].state = "live"
  BY <1>1, <1>3, RefusedIs
<1> QED BY <1>1, <1>2, <1>3, <1>4, AppendLeaves

LEMMA WrittenTyped ==
    ASSUME NEW l \in Log, NEW from, NEW broken \in BOOLEAN
    PROVE  Written(l, from, broken) \in Log
<1> DEFINE corrupt == l.corrupt \/ from # l.len
<1>1. corrupt \in BOOLEAN
  OBVIOUS
<1>2. Written(l, from, broken) = [len |-> l.len + 1, broken |-> broken, corrupt |-> corrupt]
  BY DEF Written
<1> HIDE DEF corrupt
<1> QED BY <1>1, <1>2 DEF Log

\* Nobody has the entry of i as a reservation.
NoReservation(i) == \A c \in Caller : callers[c].id = i => callers[c].pc # "reserved"

\* A write that is stored drops the prepared view, which nobody has yet.
LEMMA WriteDoneKeeps ==
    ASSUME IInv, NEW i \in Id, WriteDone(i) PROVE IInv'
<1>1. /\ TypeOK /\ CallersAtPlace /\ Held(i) /\ Chained(i) /\ Pop(i) /\ chain[i] # <<>>
      /\ Head(chain[i]) \in Op /\ Head(chain[i]).stage = "write" /\ Begun(i, "append")
      /\ AnyLive(live) /\ AnyPool(pool) /\ AnyCallers(callers)
      /\ log \in [Id -> Log] /\ log[i] \in Log /\ tracked \in [Id -> State \cup {None}]
  BY BegunIs, Typed, LiveTyped DEF IInv, WriteDone
<1>2. /\ chain' \in [Id -> Seq(Op)] /\ running' \in [Id -> BOOLEAN]
      /\ \A j \in Id \ {i} : chain'[j] = chain[j]
      /\ \A j \in Id \ {i} : running'[j] = running[j]
      /\ Thins(i) /\ HeadAtPlace(i)'
  BY <1>1, PopIs
<1>3. /\ log' \in [Id -> Log] /\ \A j \in Id \ {i} : log'[j] = log[j]
  <2>1. PICK broken \in BOOLEAN : log' = [log EXCEPT ![i] = Written(@, Head(chain[i]).from, broken)]
    BY DEF WriteDone
  <2> QED BY <1>1, <2>1, WrittenTyped
<1>4. /\ tracked' \in [Id -> State \cup {None}] /\ \A j \in Id \ {i} : tracked'[j] = tracked[j]
  <2>1. tracked[i] \in State
    BY <1>1 DEF Chained, HeadAtPlace, Begun
  <2>2. [tracked[i] EXCEPT !.cursor = @ + 1] \in State
    BY <2>1 DEF State
  <2>3. tracked' = [tracked EXCEPT ![i] = [tracked[i] EXCEPT !.cursor = @ + 1]]
    BY <1>1 DEF WriteDone
  <2> QED BY <1>1, <2>2, <2>3
<1>5. AnyLive(live') /\ live'[i].state = live[i].state /\ \A j \in Id \ {i} : live'[j] = live[j]
  <2>1. CASE live' = live
    BY <1>1, <2>1
  <2>2. CASE live' = [live EXCEPT ![i].next = @ + 1]
    <3>1. live' = [live EXCEPT ![i] = Advanced(live[i])]
      BY <1>1, <2>2 DEF AnyLive, Advanced
    <3> QED BY <1>1, <3>1, LiveMoves, LiveFields
  <2> QED BY <2>1, <2>2 DEF WriteDone
<1>6. /\ Woken(callers', {}, i, {"loaded", "settling"})
      /\ \A c \in Caller : callers'[c].id = i => callers'[c].pc # "settling"
  <2>1. callers' = Settled(callers, i)
    BY DEF WriteDone, Discard
  <2>2. Woken(callers, {}, i, {"loaded", "settling"})
    BY <1>1, NobodyWoken
  <2> QED BY <2>1, <2>2, WokenSettles
<1>7. /\ AnyPool(pool') /\ \A j \in Id \ {i} : EntryStays(j)
      /\ ~Pooled(i)' /\ FreesEntry(i)
  BY <1>1, WithoutIs DEF WriteDone, Discard, EntryStays, Entry, Pooled, FreesEntry
<1>8. TypeOK' /\ Only(i)
  BY <1>2, <1>3, <1>4, <1>5, <1>6, <1>7, TypesKeep, WokenPlaces DEF AnyLive, LiveRecord, Only
<1>9. \A c \in Caller : callers'[c].id = i => callers'[c].pc # "reserved"
  <2>1. \A c \in Caller : callers[c].id = i /\ callers[c].pc = "reserved" => Holder(c, i)
    BY <1>1 DEF Held, WaitersAtPhase, Holder, Holds
  <2>2. NoReservation(i)
    BY <1>1, <2>1, AppendsAlone DEF NoReservation
  <2> QED BY <1>6, <2>2 DEF Woken, SameCall, NoReservation
<1> QED BY <1>2, <1>6, <1>7, <1>8, <1>9, FreedStep

-----------------------------------------------------------------------------
(* The commit of a holder ends.                                            *)

LEMMA CommitEnds ==
    ASSUME IInv, NEW i \in Id, NEW c \in Caller, NEW source \in Log,
           NEW outcome \in {"ok", "none", "error"},
           chain[i] # <<>>, Pop(i), chain[i][1].kind = "commit", chain[i][1].caller = c,
           chain[i][1].source = source, CommitPrepared(i, source, outcome),
           callers' = [callers EXCEPT ![c] = Answered(callers[c], "committed", outcome)],
           UNCHANGED <<live, pool>>
    PROVE  IInv'
<1>1. TypeOK /\ CallersAtPlace /\ Chained(i) /\ Held(i) /\ callers[c] \in CallRecord
  BY Typed DEF IInv
<1>2. /\ chain' \in [Id -> Seq(Op)] /\ running' \in [Id -> BOOLEAN]
      /\ \A j \in Id \ {i} : chain'[j] = chain[j] /\ running'[j] = running[j]
      /\ Thins(i) /\ HeadAtPlace(i)' /\ ~Begun(i, "append")'
      /\ chain'[i] = Tail(chain[i])
  BY <1>1, PopIs
<1>3. /\ 1 \in DOMAIN chain[i]
      /\ callers[c].pc = "committing" /\ callers[c].id = i /\ callers[c].source = source
  BY <1>1, ChainTyped, SeqOps DEF Chained, OpsAtPlace
<1> DEFINE r == Answered(callers[c], "committed", outcome)
<1>4. /\ r \in CallRecord /\ r.pc = "committed" /\ r.outcome = outcome /\ r.id = i
      /\ r.kind = callers[c].kind /\ r.token = callers[c].token /\ r.source = source
  BY <1>1, <1>3, AnsweredTyped
<1> HIDE DEF r
<1>5. /\ AnyCallers(callers') /\ CallersAtPlace' /\ callers'[c] = r
      /\ \A d \in Caller \ {c} : SameCall(callers'[d], callers[d])
  <2>1. r.id \in Id /\ r.kind \in Kind
    BY <1>1, <1>3, <1>4 DEF CallersAtPlace
  <2>2. callers' = [callers EXCEPT ![c] = r]
    BY DEF r
  <2> QED BY <1>1, <1>4, <2>1, <2>2, PlaceIs
<1>6. /\ log' \in [Id -> Log] /\ \A j \in Id \ {i} : log'[j] = log[j]
      /\ tracked' \in [Id -> State \cup {None}]
      /\ \A j \in Id \ {i} : tracked'[j] = tracked[j]
      /\ outcome = "ok" => /\ source = log[i] /\ ~source.broken /\ log' = log
                           /\ tracked'[i] = Cursor(source)
  BY <1>1, CommittedIs
<1>7. TypeOK'
  BY <1>1, <1>2, <1>5, <1>6, Typed, TypesKeep
<1>8. Only(i) /\ EntryStays(i)
  BY <1>2, <1>6, SamePool DEF Only
<1>9. \A k \in DOMAIN chain'[i] : chain'[i][k].kind \in {"commit", "check"} =>
        SameCall(callers'[chain'[i][k].caller], callers[chain'[i][k].caller])
  <2> SUFFICES ASSUME NEW k \in DOMAIN chain'[i], chain'[i][k].kind \in {"commit", "check"}
               PROVE  SameCall(callers'[chain'[i][k].caller], callers[chain'[i][k].caller])
    OBVIOUS
  <2>1. chain'[i][k].caller # c
    BY <1>1, <1>2, OnlyOp
  <2>2. chain'[i][k].caller \in Caller
    BY <1>7, ChainTyped, SeqOps, OpFields
  <2> QED BY <1>5, <2>1, <2>2
<1>10. Pooled(i)' <=> Pooled(i)
  BY DEF Pooled, Entry
<1>11. Entry(i)' = Entry(i)
  BY DEF Entry
<1>12. Chained(i)'
  BY <1>1, <1>2, <1>7, <1>9, <1>10, <1>11, ChainKeeps DEF Thins, SameCall
<1>13. \A d \in Caller : Holder(d, i)' <=> Holder(d, i)
  <2>1. Holder(c, i)' <=> Holder(c, i)
    BY <1>3, <1>4, <1>5, <1>10, <1>11 DEF Holder, Joined, Holds
  <2>2. \A d \in Caller \ {c} : Holder(d, i)' <=> Holder(d, i)
    BY <1>5, <1>10, <1>11 DEF Holder, Joined, Holds, SameCall
  <2> QED BY <2>1, <2>2
<1>14. \A d \in Caller \ {c} : ~Holder(d, i)
  <2> SUFFICES ASSUME NEW d \in Caller \ {c}, Holder(d, i) PROVE FALSE
    OBVIOUS
  <2>1. Pooled(i) /\ Entry(i).phase # "loading"
    BY <1>1 DEF Held, HoldersAtPhase, Holder, Joined
  <2>2. Holder(c, i)
    BY <1>1, <1>3, <2>1 DEF Held, CommitsAtPlace, Holder, Joined, Holds
  <2> QED BY <1>1, <2>2 DEF Held, HoldersAtPhase
<1>15. Held(i)'
  <2>1. CommitsAtPlace(i)'
    <3> SUFFICES ASSUME Pooled(i)', Entry(i)'.phase # "loading",
                        NEW k \in DOMAIN chain'[i], chain'[i][k].kind = "commit"
                 PROVE  callers'[chain'[i][k].caller].token = Entry(i)'.token
      BY DEF CommitsAtPlace
    <3>1. \E l \in DOMAIN chain[i] : chain'[i][k] = chain[i][l]
      BY <1>2 DEF Thins, Thinned, Keyed
    <3>2. callers[chain'[i][k].caller].token = Entry(i).token
      BY <1>1, <1>10, <1>11, <3>1 DEF Held, CommitsAtPlace
    <3> QED BY <1>9, <1>11, <3>2 DEF SameCall
  <2>2. HoldersAtPhase(i)'
    <3>1. \A d \in Caller : Holder(d, i)' =>
            Entry(i)'.phase = IF callers'[d].pc = "reserved" THEN "reserved" ELSE "committing"
      <4> SUFFICES ASSUME NEW d \in Caller, Holder(d, i)
                   PROVE  Entry(i).phase = IF callers'[d].pc = "reserved" THEN "reserved"
                                           ELSE "committing"
        BY <1>11, <1>13
      <4>1. d = c /\ Entry(i).phase = "committing"
        BY <1>1, <1>3, <1>14 DEF Held, HoldersAtPhase
      <4> QED BY <1>4, <1>5, <4>1
    <3>2. Locked(i)' <=> Locked(i)
      BY <1>1, <1>10, <1>11, EntryTyped, LockedNext
    <3> QED BY <1>1, <1>13, <3>1, <3>2 DEF Held, HoldersAtPhase
  <2>3. WaitersAtPhase(i)'
    <3>1. Locked(i)' <=> Locked(i)
      BY <1>1, <1>10, <1>11, EntryTyped, LockedNext
    <3>2. \A d \in Caller \ {c} : Joined(d, i)' <=> Joined(d, i)
      BY <1>5, <1>10, <1>11 DEF Joined, SameCall
    <3> QED BY <1>1, <1>4, <1>5, <3>1, <3>2 DEF Held, WaitersAtPhase, SameCall
  <2>4. ReadersAtPhase(i)'
    <3>1. \A d \in Caller : \/ SameCall(callers'[d], callers[d])
                            \/ callers'[d].pc \notin {"loaded", "woken"}
      BY <1>4, <1>5
    <3> QED BY <1>1, <1>8, <3>1, ReadersStay
  <2>5. AppendsFirst(i)'
    BY <1>2 DEF AppendsFirst
  <2>6. SourceIsCurrent(i)'
    <3> SUFFICES ASSUME NEW d \in Caller, Holder(d, i)', Bound(d)'
                 PROVE  /\ callers'[d].source = log'[i] /\ ~log'[i].broken
                        /\ tracked'[i] = Cursor(log'[i])
      BY DEF SourceIsCurrent, Cursor
    <3>1. d = c
      BY <1>13, <1>14
    <3>2. outcome = "ok"
      BY <1>4, <1>5, <3>1 DEF Bound
    <3> QED BY <1>4, <1>5, <1>6, <3>1, <3>2
  <2>7. LiveIsUnpooled(i)'
    BY <1>1, <1>10 DEF Held, LiveIsUnpooled
  <2> QED BY <2>1, <2>2, <2>3, <2>4, <2>5, <2>6, <2>7 DEF Held
<1>16. \A d \in Caller : \/ SameCall(callers'[d], callers[d])
                         \/ callers[d].id = i /\ callers'[d].id \in {i, None}
  BY <1>3, <1>4, <1>5
<1> QED BY <1>5, <1>7, <1>8, <1>12, <1>15, <1>16, OthersKeep DEF Only

LEMMA CommitDoneKeeps ==
    ASSUME IInv, NEW i \in Id, CommitDone(i) PROVE IInv'
<1> DEFINE op == Head(chain[i])
<1>1. /\ TypeOK /\ chain[i] # <<>> /\ Pop(i) /\ op = chain[i][1] /\ op.kind = "commit"
      /\ op.caller \in Caller /\ op.source \in Log /\ live' = live /\ pool' = pool
  BY BegunIs, OpFields DEF IInv, CommitDone
<1>2. PICK outcome \in {"ok", "none", "error"} :
        /\ CommitPrepared(i, op.source, outcome)
        /\ callers' = [callers EXCEPT ![op.caller].pc = "committed", ![op.caller].outcome = outcome]
  BY DEF CommitDone
<1>3. PICK c \in Caller, source \in Log : c = op.caller /\ source = op.source
  BY <1>1
<1>4. /\ chain[i][1].kind = "commit" /\ chain[i][1].caller = c /\ chain[i][1].source = source
      /\ CommitPrepared(i, source, outcome)
      /\ callers' = [callers EXCEPT ![c].pc = "committed", ![c].outcome = outcome]
  BY <1>1, <1>2, <1>3
<1> HIDE DEF op
<1>5. callers' = [callers EXCEPT ![c] = Answered(callers[c], "committed", outcome)]
  BY <1>1, <1>4, Typed DEF AnyCallers, Answered
<1>6. /\ chain[i][1].kind = "commit" /\ chain[i][1].caller = c /\ chain[i][1].source = source
      /\ CommitPrepared(i, source, outcome) /\ chain[i] # <<>> /\ Pop(i)
  BY <1>1, <1>4
<1>7. UNCHANGED <<live, pool>>
  BY <1>1
<1> QED BY <1>5, <1>6, <1>7, CommitEnds

-----------------------------------------------------------------------------
(* The read of an entry ends.                                              *)

\* Those who joined the entry t of i at its read go on, or leave.
Informed(i, t) ==
    \A d \in Caller :
      \/ SameCall(callers'[d], callers[d])
      \/ /\ callers[d].pc = "loading" /\ callers[d].id = i /\ callers[d].token = t
         /\ \/ callers'[d].pc = "idle" /\ callers'[d].id = None
            \/ /\ callers'[d].pc \in {"loaded", "woken"} /\ callers'[d].id = i
               /\ callers'[d].token = t

LEMMA InformedIs ==
    ASSUME TypeOK, NEW i \in Id, NEW t, Informed(i, t)
    PROVE  /\ \A d \in Caller : \/ SameCall(callers'[d], callers[d])
                                \/ callers[d].id = i /\ callers'[d].id \in {i, None}
           /\ \A d \in Caller : \/ SameCall(callers'[d], callers[d])
                                \/ callers[d].pc = "loading" /\ callers'[d].pc \in Free
BY DEF Informed, Free

\* The first read of a chain, by its token.
LEMMA FirstLoad ==
    ASSUME IInv, NEW i \in Id, chain[i] # <<>>, chain[i][1].kind = "load",
           Pooled(i), chain[i][1].token = Entry(i).token, chain'[i] = Tail(chain[i])
    PROVE  /\ Entry(i).phase = "loading"
           /\ \A k \in DOMAIN chain'[i] :
                /\ chain'[i][k].kind = "load" => chain'[i][k].token # Entry(i).token
                /\ chain'[i][k].kind # "commit"
<1>1. 1 \in DOMAIN chain[i]
  BY ChainTyped, SeqOps DEF IInv
<1>2. /\ Entry(i).phase = "loading"
      /\ \A l \in DOMAIN chain[i] : l > 1 => chain[i][l].kind # "commit"
      /\ \A l \in DOMAIN chain[i] : chain[i][l].kind = "load" /\ chain[i][l].token = Entry(i).token => l = 1
  BY <1>1 DEF IInv, Chained, LoadsAtPlace
<1>3. \A k \in DOMAIN chain'[i] : /\ k + 1 \in DOMAIN chain[i] /\ chain'[i][k] = chain[i][k + 1]
                                  /\ k + 1 > 1 /\ k + 1 # 1
  <2> SUFFICES ASSUME NEW k \in DOMAIN chain'[i]
               PROVE  /\ k + 1 \in DOMAIN chain[i] /\ chain'[i][k] = chain[i][k + 1]
                      /\ k + 1 > 1 /\ k + 1 # 1
    OBVIOUS
  <2>1. /\ k + 1 \in DOMAIN chain[i] /\ chain'[i][k] = chain[i][k + 1]
        /\ k \in 1..Len(chain'[i]) /\ Len(chain'[i]) \in Nat
    BY ChainTyped, SeqOps DEF IInv
  <2> QED BY <2>1
<1> QED BY <1>2, <1>3

LEMMA LoadEnds ==
    ASSUME IInv, NEW i \in Id, NEW t, chain[i] # <<>>, Pop(i),
           chain[i][1].kind = "load", chain[i][1].token = t,
           AnyPool(pool'), \A j \in Id \ {i} : EntryStays(j),
           AnyCallers(callers'), CallersAtPlace', Informed(i, t),
           \/ ~(Pooled(i) /\ Entry(i).token = t) /\ pool' = pool
           \/ /\ Pooled(i) /\ Entry(i).token = t
              /\ Pooled(i)' => Entry(i)'.token = t /\ Entry(i)'.phase = "ready",
           UNCHANGED <<log, tracked, live>>
    PROVE  IInv'
<1>1. TypeOK /\ CallersAtPlace /\ Chained(i) /\ Held(i)
  BY DEF IInv
<1>2. /\ chain' \in [Id -> Seq(Op)] /\ running' \in [Id -> BOOLEAN]
      /\ \A j \in Id \ {i} : chain'[j] = chain[j] /\ running'[j] = running[j]
      /\ Thins(i) /\ HeadAtPlace(i)' /\ ~Begun(i, "append")'
      /\ chain'[i] = Tail(chain[i])
  BY <1>1, PopIs
<1>3. TypeOK'
  BY <1>1, <1>2, Typed, TypesKeep
<1>4. Only(i)
  BY <1>2 DEF Only
<1>5. \A k \in DOMAIN chain'[i] : chain'[i][k].kind \in {"commit", "check"} =>
        /\ SameCall(callers'[chain'[i][k].caller], callers[chain'[i][k].caller])
        /\ callers[chain'[i][k].caller].pc # "loading"
  <2> SUFFICES ASSUME NEW k \in DOMAIN chain'[i], chain'[i][k].kind \in {"commit", "check"}
               PROVE  /\ SameCall(callers'[chain'[i][k].caller], callers[chain'[i][k].caller])
                      /\ callers[chain'[i][k].caller].pc # "loading"
    OBVIOUS
  <2>1. callers[chain'[i][k].caller].pc \in {"committing", "checking"}
    BY <1>1, <1>2 DEF Thins, Thinned, Keyed, Chained, OpsAtPlace
  <2>2. chain'[i][k].caller \in Caller
    BY <1>3, ChainTyped, SeqOps, OpFields
  <2> QED BY <1>1, <2>1, <2>2, InformedIs
<1>6. CASE ~(Pooled(i) /\ Entry(i).token = t) /\ pool' = pool
  <2>1. EntryStays(i)
    BY <1>6, SamePool
  <2>2. \A d \in Caller :
          \/ SameCall(callers'[d], callers[d])
          \/ /\ Apart(d, i) /\ Apart(d, i)'
             /\ \A k \in DOMAIN chain'[i] :
                  chain'[i][k].kind \in {"commit", "check"} => chain'[i][k].caller # d
    <3> SUFFICES ASSUME NEW d \in Caller, callers[d].pc = "loading", callers'[d].pc \in Free
                 PROVE  /\ Apart(d, i) /\ Apart(d, i)'
                        /\ \A k \in DOMAIN chain'[i] :
                             chain'[i][k].kind \in {"commit", "check"} => chain'[i][k].caller # d
      BY <1>1, InformedIs
    <3>1. Apart(d, i) /\ Apart(d, i)'
      BY DEF Apart, Holder, Holds, Free
    <3> QED BY <1>5, <3>1
  <2>3. ReadersAtPhase(i)'
    <3> SUFFICES ASSUME NEW d \in Caller, Joined(d, i)', callers'[d].pc \in {"loaded", "woken"}
                 PROVE  Entry(i)'.phase # "loading"
      BY DEF ReadersAtPhase
    <3>1. Pooled(i) /\ Entry(i)' = Entry(i) /\ callers'[d].token = Entry(i).token
      BY <1>6 DEF Joined, Pooled, Entry
    <3>2. SameCall(callers'[d], callers[d])
      BY <1>6, <3>1 DEF Informed
    <3> QED BY <1>1, <3>1, <3>2 DEF Held, ReadersAtPhase, Joined, SameCall
  <2>4. Chained(i)' /\ Held(i)'
    BY <1>1, <1>2, <1>3, <2>1, <2>2, <2>3, MildKeeps
  <2> QED BY <1>1, <1>3, <1>4, <2>4, InformedIs, OthersKeep DEF Only
<1>7. CASE /\ Pooled(i) /\ Entry(i).token = t
           /\ Pooled(i)' => Entry(i)'.token = t /\ Entry(i)'.phase = "ready"
  <2>1. /\ Entry(i).phase = "loading"
        /\ \A k \in DOMAIN chain'[i] :
             /\ chain'[i][k].kind = "load" => chain'[i][k].token # Entry(i).token
             /\ chain'[i][k].kind # "commit"
    BY <1>2, <1>7, FirstLoad
  <2>2. \A d \in Caller :
          /\ ~Holder(d, i)
          /\ callers[d].id = i => callers[d].pc \notin {"reserved", "settling"}
    <3>1. ~Locked(i)
      BY <1>1, <2>1, EntryTyped
    <3> QED BY <1>1, <3>1, NobodyHoldsReady
  <2>3. \A d \in Caller : callers'[d].id = i => callers'[d].pc \notin {"reserved", "settling"}
    BY <1>1, <2>2, InformedIs DEF SameCall, Free
  <2>4. ASSUME Pooled(i)' PROVE \A d \in Caller : ~Holder(d, i)'
    <3> SUFFICES ASSUME NEW d \in Caller, Holder(d, i)' PROVE FALSE
      OBVIOUS
    <3>1. SameCall(callers'[d], callers[d])
      BY <1>1, InformedIs DEF Holder, Holds, Free
    <3>2. Holder(d, i)
      BY <1>7, <2>4, <3>1 DEF Holder, Holds, Joined, SameCall
    <3> QED BY <2>2, <3>2
  <2>5. live'[i].state # "live"
    BY <1>1, <1>7 DEF Held, LiveIsUnpooled
  <2>6. FreesEntry(i)
    BY <1>7, <2>1, <2>4, <2>5 DEF FreesEntry
  <2>7. Chained(i)' /\ Held(i)'
    BY <1>1, <1>2, <1>3, <1>5, <2>3, <2>6, FreedHolds
  <2> QED BY <1>1, <1>3, <1>4, <2>7, InformedIs, OthersKeep DEF Only
<1> QED BY <1>6, <1>7

LEMMA LoadDoneKeeps ==
    ASSUME IInv, NEW i \in Id, LoadDone(i) PROVE IInv'
<1> DEFINE t == Head(chain[i]).token
           mine == Pooled(i) /\ Entry(i).token = t
           waiting == {c \in Caller : callers[c].pc = "loading" /\ callers[c].id = i /\ callers[c].token = t}
           next == IF Len(chain[i]) > 1 THEN "loaded" ELSE "woken"
<1>1. /\ TypeOK /\ CallersAtPlace /\ chain[i] # <<>> /\ Pop(i)
      /\ chain[i][1].kind = "load" /\ chain[i][1].token = t /\ UNCHANGED <<log, tracked, live>>
      /\ AnyPool(pool) /\ log[i] \in Log /\ \A c \in Caller : callers[c] \in CallRecord
  BY BegunIs, Typed DEF IInv, LoadDone
<1>2. next \in {"loaded", "woken"}
  OBVIOUS
<1>3. \/ /\ pool' = IF mine THEN Readied(pool, i, log[i]) ELSE pool
         /\ callers' = [c \in Caller |-> IF c \in waiting
                        THEN [callers[c] EXCEPT !.pc = next, !.source = Seen(c, log[i])] ELSE callers[c]]
      \/ /\ pool' = IF mine THEN Without(pool, {i}) ELSE pool
         /\ callers' = [c \in Caller |-> IF c \in waiting THEN Idle ELSE callers[c]]
  BY DEF LoadDone
<1> HIDE DEF next
<1>4. ASSUME NEW c \in Caller
      PROVE  \/ callers'[c] = callers[c]
             \/ c \in waiting /\ callers'[c] = Idle
             \/ c \in waiting /\ callers'[c] = Reading(callers[c], next, t, Seen(c, log[i]))
  <2>1. c \in waiting => [callers[c] EXCEPT !.pc = next, !.source = Seen(c, log[i])]
                         = Reading(callers[c], next, t, Seen(c, log[i]))
    <3>1. \A r \in CallRecord : \A source :
            [r EXCEPT !.pc = next, !.source = source] = Reading(r, next, r.token, source)
      BY DEF Reading, CallRecord
    <3> QED BY <1>1, <3>1
  <2> QED BY <1>3, <2>1
<1>5. ASSUME NEW c \in waiting
      PROVE  LET r == Reading(callers[c], next, t, Seen(c, log[i])) IN
             /\ r \in CallRecord /\ r.pc = next /\ r.id = i /\ r.token = t
             /\ r.kind = callers[c].kind
  <2>1. callers[c] \in CallRecord /\ t = callers[c].token /\ t \in 0..MaxToken /\ callers[c].id = i
    BY <1>1, <1>5, CallFields
  <2>2. Seen(c, log[i]) \in Log \cup {None}
    BY <1>1 DEF Seen
  <2> HIDE DEF t
  <2> QED BY <1>2, <2>1, <2>2, ReadingTyped, SMTT(30)
<1>6. ASSUME NEW c \in Caller
      PROVE  /\ callers'[c] \in CallRecord
             /\ \/ callers'[c] = callers[c] \/ callers'[c] = Idle
                \/ /\ callers'[c].id = i /\ callers'[c].kind = callers[c].kind
                   /\ callers[c].pc = "loading"
  <2>1. CASE callers'[c] = callers[c]
    BY <1>1, <2>1
  <2>2. CASE callers'[c] = Idle
    BY <2>2, IdleTyped
  <2>3. CASE c \in waiting /\ callers'[c] = Reading(callers[c], next, t, Seen(c, log[i]))
    <3>1. callers[c].pc = "loading"
      BY <2>3
    <3> HIDE DEF waiting, t
    <3> QED BY <1>5, <2>3, <3>1
  <2> QED BY <1>4, <2>1, <2>2, <2>3
<1>7. AnyCallers(callers')
  <2>1. callers' = [c \in Caller |-> callers'[c]]
    BY <1>3
  <2> QED BY <1>6, <2>1 DEF AnyCallers
<1>8. CallersAtPlace'
  BY <1>1, <1>6, IdleTyped DEF CallersAtPlace
<1>9. Informed(i, t)
  <2> SUFFICES ASSUME NEW d \in Caller
               PROVE  \/ SameCall(callers'[d], callers[d])
                      \/ /\ callers[d].pc = "loading" /\ callers[d].id = i /\ callers[d].token = t
                         /\ \/ callers'[d].pc = "idle" /\ callers'[d].id = None
                            \/ /\ callers'[d].pc \in {"loaded", "woken"} /\ callers'[d].id = i
                               /\ callers'[d].token = t
    BY DEF Informed
  <2>1. CASE callers'[d] = callers[d]
    BY <2>1 DEF SameCall
  <2>2. CASE d \in waiting /\ callers'[d] = Idle
    BY <2>2, IdleTyped
  <2>3. CASE d \in waiting /\ callers'[d] = Reading(callers[d], next, t, Seen(d, log[i]))
    BY <1>2, <1>5, <2>3
  <2> QED BY <1>4, <2>1, <2>2, <2>3
<1>10. /\ AnyPool(pool') /\ \A j \in Id \ {i} : EntryStays(j)
       /\ ~mine => pool' = pool
       /\ mine /\ Pooled(i)' => Entry(i)'.token = t /\ Entry(i)'.phase = "ready"
  <2>1. CASE ~mine
    BY <1>1, <1>3, <2>1, SamePool
  <2>2. CASE mine /\ pool' = Without(pool, {i})
    BY <1>1, <2>2, WithoutIs DEF EntryStays, Entry, Pooled
  <2>3. CASE mine /\ pool' = Readied(pool, i, log[i])
    <3>1. pool.entry[i] \in PreparationEntry /\ pool.entry[i].token = t
      BY <1>1, <2>3, EntryTyped, EntryFields DEF Pooled, Entry
    <3> HIDE DEF t
    <3> QED BY <1>1, <2>3, <3>1, ReadiedIs DEF EntryStays, Entry, Pooled
  <2> QED BY <1>3, <2>1, <2>2, <2>3
<1> HIDE DEF t, waiting
<1>11. \/ ~(Pooled(i) /\ Entry(i).token = t) /\ pool' = pool
       \/ /\ Pooled(i) /\ Entry(i).token = t
          /\ Pooled(i)' => Entry(i)'.token = t /\ Entry(i)'.phase = "ready"
  BY <1>10
<1> QED BY <1>1, <1>7, <1>8, <1>9, <1>10, <1>11, LoadEnds

-----------------------------------------------------------------------------
(* A holder ends its commit or its reservation.                            *)

LEMMA DiscardedIs ==
    ASSUME TypeOK, NEW i \in Id, pool' = Without(pool, {i})
    PROVE  AnyPool(pool') /\ ~Pooled(i)' /\ \A j \in Id \ {i} : EntryStays(j)
<1>1. AnyPool(pool)
  BY Typed
<1>2. AnyPool(pool') /\ \A j \in Id : pool'.entry[j] = IF j \in {i} THEN None ELSE pool.entry[j]
  BY <1>1, WithoutIs
<1> QED BY <1>2 DEF Pooled, Entry, EntryStays

LEMMA PutBackIs ==
    ASSUME TypeOK, NEW i \in Id, Pooled(i), NEW source \in Log, pool' = Readied(pool, i, source)
    PROVE  /\ AnyPool(pool') /\ \A j \in Id \ {i} : EntryStays(j)
           /\ Pooled(i)' => Entry(i)'.token = Entry(i).token /\ Entry(i)'.phase = "ready"
<1>1. AnyPool(pool) /\ pool.entry[i] \in PreparationEntry
  BY Typed, EntryTyped, EntryFields DEF Pooled, Entry
<1>2. /\ AnyPool(pool')
      /\ \A j \in Id \ {i} : \/ pool'.entry[j] = pool.entry[j]
                             \/ Phase(pool, j) = "ready" /\ pool'.entry[j] = None
      /\ pool'.entry[i] # None => /\ pool'.entry[i].phase = "ready"
                                  /\ pool'.entry[i].token = pool.entry[i].token
  BY <1>1, ReadiedIs
<1> QED BY <1>2 DEF Pooled, Entry, EntryStays

\* Whoever has the entry, no longer for a commit that is queued, has it alone.
LEMMA HolderIs ==
    ASSUME IInv, NEW i \in Id, NEW c \in Caller, Holder(c, i)
    PROVE  /\ Pooled(i) /\ Entry(i).phase # "loading" /\ live[i].state # "live"
           /\ \A d \in Caller : Holder(d, i) => d = c
           /\ \A d \in Caller : callers[d].id = i /\ callers[d].pc = "reserved" => d = c
           /\ \A k \in DOMAIN chain[i] :
                /\ chain[i][k].kind = "load" => chain[i][k].token # Entry(i).token
                /\ chain[i][k].kind = "commit" => chain[i][k].caller = c /\ callers[c].pc = "committing"
<1>1. TypeOK /\ Chained(i) /\ Held(i)
  BY DEF IInv
<1>2. Pooled(i) /\ Entry(i).phase # "loading" /\ live[i].state # "live"
  BY <1>1 DEF Held, HoldersAtPhase, LiveIsUnpooled, Holder, Joined
<1>3. \A d \in Caller : Holder(d, i) => d = c
  BY <1>1 DEF Held, HoldersAtPhase
<1>4. \A d \in Caller : callers[d].id = i /\ callers[d].pc = "reserved" => d = c
  BY <1>1, <1>3 DEF Held, WaitersAtPhase, Holder, Holds
<1>5. \A k \in DOMAIN chain[i] : chain[i][k].kind = "load" => chain[i][k].token # Entry(i).token
  BY <1>1, <1>2 DEF Chained, LoadsAtPlace
<1>6. ASSUME NEW k \in DOMAIN chain[i], chain[i][k].kind = "commit"
      PROVE  chain[i][k].caller = c /\ callers[c].pc = "committing"
  <2> DEFINE d == chain[i][k].caller
  <2>1. d \in Caller /\ callers[d].pc = "committing" /\ callers[d].id = i
    BY <1>1, <1>6, ChainTyped, SeqOps, OpFields DEF Chained, OpsAtPlace
  <2>2. callers[d].token = Entry(i).token
    BY <1>1, <1>2, <1>6 DEF Held, CommitsAtPlace
  <2> HIDE DEF d
  <2>3. d = c
    BY <1>2, <1>3, <2>1, <2>2 DEF Holder, Holds, Joined
  <2> QED BY <2>1, <2>3 DEF d
<1> QED BY <1>2, <1>3, <1>4, <1>5, <1>6

LEMMA HolderLeaves ==
    ASSUME IInv, NEW c \in Caller, NEW i \in Id, Holder(c, i),
           callers[c].pc \in {"committed", "reserved"},
           UNCHANGED <<log, chain, running>>,
           tracked' \in [Id -> State \cup {None}], \A j \in Id \ {i} : tracked'[j] = tracked[j],
           tracked[i] # None => tracked'[i] # None,
           AnyLive(live'), \A j \in Id \ {i} : live'[j] = live[j],
           AnyPool(pool'), \A j \in Id \ {i} : EntryStays(j),
           Pooled(i)' => /\ Entry(i)'.token = Entry(i).token /\ Entry(i)'.phase = "ready"
                         /\ live' = live,
           NEW cs, Woken(cs, {c}, i, {"loaded", "settling"}), cs[c].pc \in {"idle", "entering"},
           callers' = Settled(cs, i)
    PROVE  IInv'
<1>1. TypeOK /\ CallersAtPlace /\ Chained(i) /\ Held(i)
  BY DEF IInv
<1>2. /\ Woken(callers', {c}, i, {"loaded", "settling"})
      /\ \A d \in Caller : callers'[d].id = i => callers'[d].pc # "settling"
  BY WokenSettles
<1>3. callers'[c].pc \in {"idle", "entering"}
  <2>1. Wakes(callers', cs, i, "settling")
    BY SettledIs DEF Woken
  <2> QED BY <2>1 DEF Wakes, SameCall
<1>4. TypeOK'
  BY <1>1, <1>2, Typed, TypesKeep, WokenPlaces DEF AnyLive, LiveRecord
<1>5. Only(i)
  BY DEF Only
<1>6. Thins(i) /\ HeadAtPlace(i)'
  BY <1>1, ChainStays DEF Chained, HeadAtPlace
<1>7. \A k \in DOMAIN chain'[i] :
        chain'[i][k].kind \in {"commit", "check"} => chain'[i][k].caller \notin {c}
  BY <1>1 DEF Chained, OpsAtPlace
<1>8. \A d \in Caller : callers'[d].id = i => callers'[d].pc \notin {"reserved", "settling"}
  <2> SUFFICES ASSUME NEW d \in Caller, callers'[d].id = i, callers'[d].pc = "reserved"
               PROVE  FALSE
    BY <1>2
  <2>1. SameCall(callers'[d], callers[d])
    BY <1>2 DEF Woken
  <2>2. d = c
    BY <2>1, HolderIs DEF SameCall
  <2> QED BY <1>3, <2>2
<1>9. FreesEntry(i)
  <2> SUFFICES ASSUME Pooled(i)'
               PROVE  /\ \A d \in Caller : ~Holder(d, i)'
                      /\ Pooled(i) /\ live'[i].state # "live"
                      /\ \A k \in DOMAIN chain'[i] :
                           /\ chain'[i][k].kind = "load" => chain'[i][k].token # Entry(i).token
                           /\ chain'[i][k].kind # "commit"
    BY DEF FreesEntry
  <2>1. ASSUME NEW d \in Caller, Holder(d, i)' PROVE FALSE
    <3>1. SameCall(callers'[d], callers[d])
      BY <1>2, <2>1 DEF Woken, Holder, Holds
    <3>2. Holder(d, i)
      BY <2>1, <3>1, HolderIs DEF Holder, Holds, Joined, SameCall
    <3>3. d = c
      BY <3>2, HolderIs
    <3> QED BY <1>3, <2>1, <3>3 DEF Holder, Holds
  <2> QED BY <2>1, HolderIs
<1> QED BY <1>2, <1>4, <1>5, <1>6, <1>7, <1>8, <1>9, FreedStep

\* Somebody else's entry is left alone.
LEMMA StrangerLeaves ==
    ASSUME IInv, NEW c \in Caller, NEW i \in Id, callers[c].id = i, ~Mine(c),
           callers[c].pc = "committed", UNCHANGED <<log, tracked, live, chain, running, pool>>,
           Woken(callers', {c}, i, {"loaded"})
    PROVE  IInv'
<1>1. TypeOK /\ CallersAtPlace /\ Chained(i) /\ Held(i)
  BY DEF IInv
<1>2. TypeOK'
  BY <1>1, Typed, TypesKeep, WokenPlaces
<1>3. Only(i) /\ EntryStays(i) /\ Thins(i) /\ HeadAtPlace(i)'
  BY <1>1, SamePool, ChainStays, StillHead DEF Only
<1>4. Apart(c, i)
  BY DEF Apart, Holder, Joined, Mine
<1>5. \A k \in DOMAIN chain'[i] :
        chain'[i][k].kind \in {"commit", "check"} => chain'[i][k].caller \notin {c}
  BY <1>1 DEF Chained, OpsAtPlace
<1>6. Begun(i, "append")' => Begun(i, "append")
  BY DEF Begun
<1> QED BY <1>2, <1>3, <1>4, <1>5, <1>6, MildStep

LEMMA LeavingIs ==
    ASSUME TypeOK, CallersAtPlace, NEW c \in Caller, NEW i \in Id, callers[c].id = i,
           callers[c].pc # "idle", NEW F, NEW cs,
           cs = [callers EXCEPT ![c] = Idle] \/ cs = Retried(callers, c)
    PROVE  Woken(cs, {c}, i, F) /\ cs[c].pc \in {"idle", "entering"}
<1>1. AnyCallers(callers)
  BY Typed
<1>2. CASE cs = [callers EXCEPT ![c] = Idle]
  <2>1. cs[c] = Idle
    BY <1>1, <1>2 DEF AnyCallers
  <2> QED BY <1>2, <2>1, IdleTyped, LeaverIs
<1>3. CASE cs = Retried(callers, c)
  <2>1. cs[c].pc = "entering"
    BY <1>1, <1>3, RetriedIs
  <2> QED BY <1>3, <2>1, LeaverIs
<1> QED BY <1>2, <1>3

Reserving(r) == [r EXCEPT !.pc = "reserved", !.outcome = "none"]

\* A commit that succeeded becomes a reservation.
LEMMA CommitReserves ==
    ASSUME IInv, NEW c \in Caller, NEW i \in Id, callers[c].id = i,
           callers[c].pc = "committed", callers[c].outcome = "ok", Mine(c),
           pool' = Relocked(pool, i, "reserved"),
           callers' = [callers EXCEPT ![c] = Reserving(callers[c])],
           UNCHANGED <<log, tracked, live, chain, running>>
    PROVE  IInv'
<1>1. /\ TypeOK /\ CallersAtPlace /\ Chained(i) /\ Held(i) /\ callers[c] \in CallRecord
      /\ Holder(c, i) /\ Pooled(i) /\ Entry(i) \in PreparationEntry
      /\ callers[c].token = Entry(i).token
  BY Typed, EntryTyped DEF IInv, Mine, Pooled, Holder, Holds, Joined
<1>2. /\ Entry(i).phase # "loading" /\ live[i].state # "live"
      /\ \A d \in Caller : Holder(d, i) => d = c
      /\ \A d \in Caller : callers[d].id = i /\ callers[d].pc = "reserved" => d = c
      /\ \A k \in DOMAIN chain[i] :
           /\ chain[i][k].kind = "load" => chain[i][k].token # Entry(i).token
           /\ chain[i][k].kind # "commit"
  BY <1>1, HolderIs
<1> DEFINE r == Reserving(callers[c])
<1>3. /\ r \in CallRecord /\ r.pc = "reserved" /\ r.id = i /\ r.kind = callers[c].kind
      /\ r.token = callers[c].token /\ r.source = callers[c].source
  BY <1>1 DEF Reserving, CallRecord
<1> HIDE DEF r
<1>4. /\ AnyCallers(callers') /\ CallersAtPlace' /\ callers'[c] = r
      /\ \A d \in Caller \ {c} : SameCall(callers'[d], callers[d])
  <2>1. r.id \in Id /\ r.kind \in Kind /\ callers' = [callers EXCEPT ![c] = r]
    BY <1>1, <1>3 DEF CallersAtPlace, r
  <2> QED BY <1>1, <1>3, <2>1, PlaceIs
<1>5. /\ AnyPool(pool') /\ \A j \in Id \ {i} : EntryStays(j)
      /\ Pooled(i)' /\ Entry(i)'.phase = "reserved" /\ Entry(i)'.token = Entry(i).token
  <2>1. /\ AnyPool(pool) /\ pool.entry[i] \in PreparationEntry /\ pool.entry[i].phase # "loading"
        /\ Entry(i) = pool.entry[i]
    BY <1>1, <1>2, Typed DEF Entry
  <2>2. /\ AnyPool(pool') /\ \A j \in Id \ {i} : pool'.entry[j] = pool.entry[j]
        /\ pool'.entry[i] # None /\ pool'.entry[i].phase = "reserved"
        /\ pool'.entry[i].token = pool.entry[i].token
    BY <2>1, RelockedIs
  <2> QED BY <2>1, <2>2 DEF EntryStays, Entry, Pooled
<1>6. TypeOK'
  BY <1>1, <1>4, <1>5, Typed, TypesKeep
<1>7. \A d \in Caller : Holder(d, i)' <=> d = c
  <2>1. Holder(c, i)'
    BY <1>1, <1>3, <1>4, <1>5 DEF Holder, Holds, Joined
  <2>2. \A d \in Caller \ {c} : Holder(d, i)' => Holder(d, i)
    BY <1>1, <1>4, <1>5 DEF Holder, Holds, Joined, SameCall
  <2> QED BY <1>2, <2>1, <2>2
<1>8. Chained(i)'
  <2>1. Thins(i) /\ HeadAtPlace(i)'
    BY <1>1, ChainStays, StillHead
  <2>2. \A k \in DOMAIN chain'[i] : chain'[i][k].kind \in {"commit", "check"} =>
          SameCall(callers'[chain'[i][k].caller], callers[chain'[i][k].caller])
    <3> SUFFICES ASSUME NEW k \in DOMAIN chain'[i], chain'[i][k].kind \in {"commit", "check"}
                 PROVE  SameCall(callers'[chain'[i][k].caller], callers[chain'[i][k].caller])
      OBVIOUS
    <3>1. /\ chain'[i][k].caller \in Caller
          /\ callers[chain'[i][k].caller].pc \in {"committing", "checking"}
      BY <1>1, ChainTyped, SeqOps, OpFields DEF Chained, OpsAtPlace
    <3> QED BY <1>4, <3>1
  <2> QED BY <1>1, <1>2, <1>5, <1>6, <2>1, <2>2, ChainKeeps DEF Thins, SameCall
<1>9. Held(i)'
  <2>1. CommitsAtPlace(i)' /\ ReadersAtPhase(i)'
    BY <1>2, <1>5 DEF CommitsAtPlace, ReadersAtPhase
  <2>2. HoldersAtPhase(i)'
    BY <1>3, <1>4, <1>5, <1>7 DEF HoldersAtPhase
  <2>3. WaitersAtPhase(i)'
    <3>1. Locked(i)'
      BY <1>5, LockedNext
    <3>2. \A d \in Caller \ {c} : Joined(d, i) => Joined(d, i)'
      BY <1>1, <1>4, <1>5 DEF Joined, SameCall
    <3>3. Joined(c, i)'
      BY <1>7 DEF Holder
    <3> QED BY <1>1, <1>3, <1>4, <3>1, <3>2, <3>3 DEF Held, WaitersAtPhase, SameCall
  <2>4. AppendsFirst(i)'
    <3>1. ~Begun(i, "append")
      BY <1>1, AppendsAlone
    <3> QED BY <3>1 DEF AppendsFirst, Begun
  <2>5. SourceIsCurrent(i)'
    <3>1. callers[c].source = log[i] /\ ~log[i].broken /\ tracked[i] = Cursor(log[i])
      BY <1>1 DEF Held, SourceIsCurrent, Bound
    <3>2. callers'[c].source = log'[i] /\ ~log'[i].broken /\ tracked'[i] = Cursor(log'[i])
      BY <1>3, <1>4, <3>1
    <3> QED BY <1>7, <3>2 DEF SourceIsCurrent, Cursor
  <2>6. LiveIsUnpooled(i)'
    BY <1>2 DEF LiveIsUnpooled
  <2> QED BY <2>1, <2>2, <2>3, <2>4, <2>5, <2>6 DEF Held
<1>10. \A d \in Caller : \/ SameCall(callers'[d], callers[d])
                         \/ callers[d].id = i /\ callers'[d].id \in {i, None}
  BY <1>3, <1>4
<1> QED BY <1>4, <1>5, <1>6, <1>8, <1>9, <1>10, OthersKeep

LEMMA CommittedKeeps ==
    ASSUME IInv, NEW c \in Caller, Committed(c) PROVE IInv'
<1> SUFFICES ASSUME NEW i, i = callers[c].id PROVE IInv'
  OBVIOUS
<1> DEFINE left == [callers EXCEPT ![c] = Idle]
<1>1. /\ TypeOK /\ CallersAtPlace /\ i \in Id /\ callers[c].pc = "committed"
      /\ UNCHANGED <<log, tracked, live, chain, running>>
      /\ tracked \in [Id -> State \cup {None}] /\ AnyLive(live) /\ AnyCallers(callers)
      /\ log[i] \in Log
  BY Typed, LiveTyped DEF IInv, CallersAtPlace, Committed
<1>2. Mine(c) => Holder(c, i) /\ Pooled(i)
  BY <1>1 DEF Mine, Holder, Holds, Joined
<1>3. ASSUME NEW cs, cs = left \/ cs = Retried(callers, c), GiveUp(c, cs)
      PROVE  IInv'
  <2>1. cs[c].pc \in {"idle", "entering"} /\ \A F : Woken(cs, {c}, i, F)
    BY <1>1, <1>3, LeavingIs
  <2>2. CASE Mine(c)
    <3>1. pool' = Without(pool, {i}) /\ callers' = Settled(cs, i)
      BY <1>3, <2>2 DEF GiveUp, Discard
    <3>2. AnyPool(pool') /\ ~Pooled(i)' /\ \A j \in Id \ {i} : EntryStays(j)
      BY <1>1, <3>1, DiscardedIs
    <3>3. Woken(cs, {c}, i, {"loaded", "settling"})
      BY <2>1
    <3> HIDE DEF left
    <3> QED BY <1>1, <1>2, <2>1, <2>2, <3>1, <3>2, <3>3, HolderLeaves
  <2>3. CASE ~Mine(c)
    <3>1. pool' = pool /\ callers' = cs
      BY <1>3, <2>3 DEF GiveUp
    <3>2. Woken(callers', {c}, i, {"loaded"})
      BY <2>1, <3>1
    <3> HIDE DEF left
    <3> QED BY <1>1, <2>3, <3>1, <3>2, StrangerLeaves
  <2> QED BY <2>2, <2>3
<1>4. CASE /\ callers[c].outcome = "ok" /\ Mine(c)
           /\ pool' = Readied(pool, i, callers[c].source) /\ callers' = Settled(left, i)
  <2>1. callers[c].source = log[i]
    BY <1>1, <1>2, <1>4 DEF IInv, Held, SourceIsCurrent, Bound
  <2>2. /\ AnyPool(pool') /\ \A j \in Id \ {i} : EntryStays(j)
        /\ Pooled(i)' => Entry(i)'.token = Entry(i).token /\ Entry(i)'.phase = "ready"
    BY <1>1, <1>2, <1>4, <2>1, PutBackIs
  <2>3. left[c].pc \in {"idle", "entering"} /\ Woken(left, {c}, i, {"loaded", "settling"})
    BY <1>1, LeavingIs
  <2> HIDE DEF left
  <2> QED BY <1>1, <1>2, <1>4, <2>2, <2>3, HolderLeaves
<1>5. CASE /\ callers[c].outcome = "ok" /\ Mine(c)
           /\ pool' = [pool EXCEPT !.entry[i].phase = "reserved"]
           /\ callers' = [callers EXCEPT ![c].pc = "reserved", ![c].outcome = "none"]
  <2>1. pool' = Relocked(pool, i, "reserved")
    BY <1>5 DEF Relocked
  <2>2. callers' = [callers EXCEPT ![c] = Reserving(callers[c])]
    BY <1>1, <1>5 DEF AnyCallers, Reserving
  <2> QED BY <1>1, <1>5, <2>1, <2>2, CommitReserves
<1>6. \/ GiveUp(c, left)
      \/ GiveUp(c, Retried(callers, c))
      \/ /\ callers[c].outcome = "ok" /\ Mine(c)
         /\ pool' = Readied(pool, i, callers[c].source) /\ callers' = Settled(left, i)
      \/ /\ callers[c].outcome = "ok" /\ Mine(c)
         /\ pool' = [pool EXCEPT !.entry[i].phase = "reserved"]
         /\ callers' = [callers EXCEPT ![c].pc = "reserved", ![c].outcome = "none"]
  BY DEF Committed, GiveUp
<1> QED BY <1>3, <1>4, <1>5, <1>6

\* An inspection whose source is stale discards it, if nobody has it.
LEMMA CheckedKeeps ==
    ASSUME IInv, NEW c \in Caller, Checked(c) PROVE IInv'
<1> SUFFICES ASSUME NEW i, i = callers[c].id PROVE IInv'
  OBVIOUS
<1>1. /\ TypeOK /\ CallersAtPlace /\ i \in Id /\ callers[c].pc = "checked" /\ Chained(i) /\ Held(i)
      /\ UNCHANGED <<log, tracked, live, chain, running>>
  BY DEF IInv, CallersAtPlace, Checked
<1>2. CASE Return(c) /\ UNCHANGED pool
  <2>1. /\ AnyCallers(callers') /\ CallersAtPlace' /\ callers'[c].pc = "idle"
        /\ \A d \in Caller \ {c} : SameCall(callers'[d], callers[d])
    BY <1>1, <1>2, ReturnIs DEF Return
  <2>2. Evicts(pool', pool)
    BY <1>1, <1>2, PoolUnchanged
  <2> QED BY <1>1, <2>1, <2>2, CallerRoams DEF Free
<1>3. CASE callers' = Retried(callers, c) /\ UNCHANGED pool
  <2>1. /\ AnyCallers(callers') /\ CallersAtPlace' /\ callers'[c].pc = "entering"
        /\ \A d \in Caller \ {c} : SameCall(callers'[d], callers[d])
    BY <1>1, <1>3, RetryIs
  <2>2. Evicts(pool', pool)
    BY <1>1, <1>3, PoolUnchanged
  <2> QED BY <1>1, <2>1, <2>2, CallerRoams DEF Free
<1>4. CASE Pooled(i) /\ Entry(i).phase = "ready" /\ Discard(i, Retried(callers, c))
  <2>1. pool' = Without(pool, {i}) /\ callers' = Settled(Retried(callers, c), i)
    BY <1>4 DEF Discard
  <2>2. AnyPool(pool') /\ ~Pooled(i)' /\ \A j \in Id \ {i} : EntryStays(j)
    BY <1>1, <2>1, DiscardedIs
  <2>3. Woken(Retried(callers, c), {c}, i, {"loaded", "settling"})
    BY <1>1, LeavingIs
  <2>4. /\ Woken(callers', {c}, i, {"loaded", "settling"})
        /\ \A d \in Caller : callers'[d].id = i => callers'[d].pc # "settling"
    BY <2>1, <2>3, WokenSettles
  <2>5. TypeOK'
    BY <1>1, <2>2, <2>4, Typed, TypesKeep, WokenPlaces
  <2>6. Only(i) /\ Thins(i) /\ HeadAtPlace(i)' /\ FreesEntry(i)
    BY <1>1, <2>2, ChainStays, StillHead DEF Only, FreesEntry
  <2>7. \A k \in DOMAIN chain'[i] :
          chain'[i][k].kind \in {"commit", "check"} => chain'[i][k].caller \notin {c}
    BY <1>1 DEF Chained, OpsAtPlace
  <2>8. \A d \in Caller : callers'[d].id = i => callers'[d].pc # "reserved"
    <3>1. ~Locked(i)
      BY <1>1, <1>4, EntryTyped
    <3>2. \A d \in Caller : callers[d].id = i => callers[d].pc # "reserved"
      BY <1>1, <3>1, NobodyHoldsReady
    <3> QED BY <2>4, <3>2 DEF Woken, SameCall
  <2> QED BY <1>1, <2>4, <2>5, <2>6, <2>7, <2>8, FreedStep
<1>5. \/ Return(c) /\ UNCHANGED pool
      \/ callers' = Retried(callers, c) /\ UNCHANGED pool
      \/ Pooled(i) /\ Entry(i).phase = "ready" /\ Discard(i, Retried(callers, c))
  BY DEF Checked
<1> QED BY <1>2, <1>3, <1>4, <1>5

LEMMA ReservedIs ==
    ASSUME IInv, NEW c \in Caller, callers[c].pc = "reserved", NEW i, i = callers[c].id
    PROVE  /\ i \in Id /\ Holder(c, i) /\ Pooled(i)
           /\ callers[c].source = log[i] /\ ~log[i].broken /\ tracked[i] = Cursor(log[i])
<1>1. i \in Id
  BY DEF IInv, CallersAtPlace
<1>2. Holder(c, i) /\ Pooled(i)
  BY <1>1 DEF IInv, Held, WaitersAtPhase, Holder, Holds, Joined
<1> QED BY <1>1, <1>2 DEF IInv, Held, SourceIsCurrent, Bound

LEMMA PublishKeeps ==
    ASSUME IInv, NEW c \in Caller, Publish(c) PROVE IInv'
<1> SUFFICES ASSUME NEW i, i = callers[c].id PROVE IInv'
  OBVIOUS
<1> DEFINE left == [callers EXCEPT ![c] = Idle]
<1>1. /\ TypeOK /\ CallersAtPlace /\ callers[c].pc = "reserved" /\ i \in Id /\ Holder(c, i)
      /\ tracked[i] # None /\ UNCHANGED <<log, chain, running>>
      /\ tracked \in [Id -> State \cup {None}] /\ AnyLive(live)
  BY ReservedIs, Typed, LiveTyped DEF IInv, Publish, Attachable
<1>2. pool' = Without(pool, {i}) /\ callers' = Settled(left, i)
  BY DEF Publish, Discard
<1>3. AnyPool(pool') /\ ~Pooled(i)' /\ \A j \in Id \ {i} : EntryStays(j)
  BY <1>1, <1>2, DiscardedIs
<1>4. left[c].pc \in {"idle", "entering"} /\ Woken(left, {c}, i, {"loaded", "settling"})
  BY <1>1, LeavingIs
<1> HIDE DEF left
<1>5. /\ tracked' \in [Id -> State \cup {None}] /\ \A j \in Id \ {i} : tracked'[j] = tracked[j]
      /\ tracked'[i] # None
  <2> DEFINE s == [tracked[i] EXCEPT !.owned = TRUE]
  <2>1. s \in State
    BY <1>1 DEF State
  <2>2. tracked' = [tracked EXCEPT ![i] = s]
    BY <1>1 DEF Publish
  <2> HIDE DEF s
  <2>3. s # None
    BY <2>1, Assumed
  <2> QED BY <1>1, <2>1, <2>2, <2>3
<1>6. AnyLive(live') /\ \A j \in Id \ {i} : live'[j] = live[j]
  <2>1. PICK dirty \in BOOLEAN :
          live' = [live EXCEPT ![i] = [state |-> "live", next |-> tracked[i].cursor, dirty |-> dirty]]
    BY DEF Publish
  <2>2. tracked[i].cursor \in Nat
    BY <1>1 DEF State
  <2>3. [state |-> "live", next |-> tracked[i].cursor, dirty |-> dirty] \in LiveRecord
    BY <2>2 DEF LiveRecord
  <2> QED BY <1>1, <2>1, <2>3, LiveIs
<1> QED BY <1>1, <1>2, <1>3, <1>4, <1>5, <1>6, HolderLeaves

LEMMA ReleaseKeeps ==
    ASSUME IInv, NEW c \in Caller, Release(c) PROVE IInv'
<1> SUFFICES ASSUME NEW i, i = callers[c].id PROVE IInv'
  OBVIOUS
<1> DEFINE left == [callers EXCEPT ![c] = Idle]
<1>1. /\ TypeOK /\ CallersAtPlace /\ callers[c].pc = "reserved" /\ i \in Id /\ Holder(c, i)
      /\ Pooled(i) /\ callers[c].source = log[i] /\ log[i] \in Log
      /\ UNCHANGED <<log, tracked, live, chain, running>>
      /\ tracked \in [Id -> State \cup {None}] /\ AnyLive(live)
  BY ReservedIs, Typed, LiveTyped DEF IInv, Release
<1>2. left[c].pc \in {"idle", "entering"} /\ Woken(left, {c}, i, {"loaded", "settling"})
  BY <1>1, LeavingIs
<1>3. \/ pool' = Readied(pool, i, callers[c].source) /\ callers' = Settled(left, i)
      \/ pool' = Without(pool, {i}) /\ callers' = Settled(left, i)
  BY DEF Release, Discard
<1> HIDE DEF left
<1>4. /\ AnyPool(pool') /\ \A j \in Id \ {i} : EntryStays(j)
      /\ Pooled(i)' => Entry(i)'.token = Entry(i).token /\ Entry(i)'.phase = "ready"
  BY <1>1, <1>3, PutBackIs, DiscardedIs
<1> QED BY <1>1, <1>2, <1>3, <1>4, HolderLeaves

-----------------------------------------------------------------------------
(* A caller's signal.                                                      *)

\* A caller that waits for others leaves.
LEMMA WaiterLeaves ==
    ASSUME IInv, NEW c \in Caller, NEW i \in Id, callers[c].id = i,
           callers[c].pc \in {"entering", "loading", "settling"},
           callers' = [callers EXCEPT ![c] = Idle],
           UNCHANGED <<log, tracked, live, chain, running, pool>>
    PROVE  IInv'
<1>1. TypeOK /\ CallersAtPlace /\ Chained(i) /\ Held(i)
  BY DEF IInv
<1>2. /\ AnyCallers(callers') /\ CallersAtPlace'
      /\ \A d \in Caller \ {c} : SameCall(callers'[d], callers[d])
      /\ callers'[c].pc = "idle" /\ callers'[c].id = None
  BY <1>1, ReturnIs
<1>3. TypeOK'
  BY <1>1, <1>2, Typed, TypesKeep
<1>4. /\ EntryStays(i) /\ \A j \in Id \ {i} : EntryStays(j)
      /\ Entry(i)' = Entry(i) /\ (Pooled(i)' <=> Pooled(i)) /\ (Locked(i)' <=> Locked(i))
  BY SamePool DEF Entry, Pooled, Locked, Phase
<1>5. \A k \in DOMAIN chain'[i] : chain'[i][k].kind \in {"commit", "check"} =>
        SameCall(callers'[chain'[i][k].caller], callers[chain'[i][k].caller])
  BY <1>1, <1>2, ChainTyped, SeqOps, OpFields DEF Chained, OpsAtPlace
<1>6. Chained(i)'
  <2>1. Thins(i) /\ HeadAtPlace(i)'
    BY <1>1, ChainStays, StillHead
  <2> QED BY <1>1, <1>3, <1>4, <1>5, <2>1, ChainKeeps DEF Thins, SameCall
<1>7. Held(i)'
  <2>1. WaitersAtPhase(i)'
    BY <1>1, <1>2, <1>4 DEF Held, WaitersAtPhase, Joined, SameCall
  <2>2. ReadersAtPhase(i)'
    BY <1>1, <1>2, <1>4, ReadersStay
  <2>3. \A k \in DOMAIN chain'[i] : chain'[i][k].kind = "commit" =>
          callers'[chain'[i][k].caller].token = callers[chain'[i][k].caller].token
    BY <1>5 DEF SameCall
  <2>4. Begun(i, "append")' => Begun(i, "append")
    BY DEF Begun
  <2>5. \A d \in Caller : \/ SameCall(callers'[d], callers[d])
                          \/ ~Holder(d, i) /\ ~Holder(d, i)'
    BY <1>2 DEF Holder, Holds
  <2> QED BY <1>1, <1>3, <1>4, <2>1, <2>2, <2>3, <2>4, <2>5, EntryKept
<1>8. \A d \in Caller : \/ SameCall(callers'[d], callers[d])
                        \/ callers[d].id = i /\ callers'[d].id \in {i, None}
  BY <1>2
<1> QED BY <1>2, <1>3, <1>4, <1>6, <1>7, <1>8, OthersKeep

\* The operation of a caller that has left is skipped, or runs for nobody.
LEMMA DroppedIs ==
    ASSUME IInv, NEW i \in Id, NEW c \in Caller, Dropped(i, c), running' = running,
           tracked' = tracked
    PROVE  /\ chain' \in [Id -> Seq(Op)] /\ \A j \in Id \ {i} : chain'[j] = chain[j]
           /\ Thins(i) /\ HeadAtPlace(i)' /\ (Begun(i, "append")' => Begun(i, "append"))
           /\ \A k \in DOMAIN chain'[i] :
                chain'[i][k].kind \in {"commit", "check"} => chain'[i][k].caller # c
<1> DEFINE nobody == [kind |-> "dropped"]
           left(k) == IF running[i] /\ k = 1 THEN ReplaceAt(chain[i], 1, nobody)
                      ELSE RemoveAt(chain[i], k)
<1>1. PICK k \in DOMAIN chain[i] :
        /\ chain[i][k].kind \in {"commit", "check"} /\ chain[i][k].caller = c
        /\ chain' = [chain EXCEPT ![i] = left(k)]
  BY DEF Dropped
<1>2. /\ TypeOK /\ Chained(i) /\ chain \in [Id -> Seq(Op)] /\ chain[i] \in Seq(Op)
      /\ chain[i] # <<>> /\ Head(chain[i]) = chain[i][1]
      /\ k \in Nat /\ k >= 1 /\ k <= Len(chain[i]) /\ Len(chain[i]) \in Nat
      /\ nobody \in Op /\ nobody.kind = "dropped"
  BY <1>1, Typed, ChainTyped, SeqOps DEF IInv, Op
<1>3. \A l \in DOMAIN chain[i] :
        chain[i][l].kind \in {"commit", "check"} /\ chain[i][l].caller = c => l = k
  BY <1>1, <1>2 DEF Chained, OpsAtPlace
<1> HIDE DEF nobody
<1>4. CASE running[i] /\ k = 1
  <2>1. chain'[i] = [chain[i] EXCEPT ![1] = nobody] /\ [chain[i] EXCEPT ![1] = nobody] \in Seq(Op)
    BY <1>1, <1>2, <1>4 DEF ReplaceAt
  <2>2. /\ chain' \in [Id -> Seq(Op)] /\ \A j \in Id \ {i} : chain'[j] = chain[j]
    BY <1>1, <1>2, <1>4, <2>1 DEF ReplaceAt
  <2>3. Thins(i)
    BY <1>2, <2>1, ChainStages DEF Keyed
  <2>4. chain'[i] # <<>> /\ Head(chain'[i]) = nobody
    <3>1. \A s \in Seq(Op) : s # <<>> =>
            /\ [s EXCEPT ![1] = nobody] # <<>>
            /\ [s EXCEPT ![1] = nobody][1] = nobody
      OBVIOUS
    <3>2. chain'[i] # <<>> /\ chain'[i][1] = nobody
      BY <1>2, <2>1, <3>1
    <3> QED BY <2>1, <3>2, SeqOps
  <2>5. \A l \in DOMAIN chain'[i] :
          /\ l \in DOMAIN chain[i]
          /\ chain'[i][l] = nobody \/ (l # 1 /\ chain'[i][l] = chain[i][l])
    <3>1. \A s \in Seq(Op) : \A l \in DOMAIN [s EXCEPT ![1] = nobody] :
            /\ l \in DOMAIN s
            /\ l = 1 => [s EXCEPT ![1] = nobody][l] = nobody
            /\ l # 1 => [s EXCEPT ![1] = nobody][l] = s[l]
      OBVIOUS
    <3> QED BY <1>2, <2>1, <3>1
  <2>6. HeadAtPlace(i)' /\ ~Begun(i, "append")'
    BY <1>2, <2>4 DEF HeadAtPlace, Begun
  <2>7. \A l \in DOMAIN chain'[i] :
          chain'[i][l].kind \in {"commit", "check"} => chain'[i][l].caller # c
    BY <1>2, <1>3, <1>4, <2>5
  <2> QED BY <2>2, <2>3, <2>6, <2>7
<1>5. CASE ~(running[i] /\ k = 1)
  <2>1. /\ chain'[i] = RemoveAt(chain[i], k) /\ chain' \in [Id -> Seq(Op)]
        /\ \A j \in Id \ {i} : chain'[j] = chain[j]
    BY <1>1, <1>2, <1>5, RemovedAt
  <2>2. /\ Len(chain'[i]) = Len(chain[i]) - 1 /\ chain'[i] \in Seq(Op)
        /\ \A l \in DOMAIN chain'[i] :
             /\ l \in Nat
             /\ l < k => l \in DOMAIN chain[i] /\ chain'[i][l] = chain[i][l]
             /\ l >= k => l + 1 \in DOMAIN chain[i] /\ chain'[i][l] = chain[i][l + 1]
    BY <1>1, <1>2, <2>1, RemovedAt
  <2>3. Thins(i)
    BY <1>1, <1>2, <2>1, ChainLoses
  <2>4. running[i] => chain'[i] # <<>> /\ Head(chain'[i]) = Head(chain[i])
    <3> SUFFICES ASSUME running[i]
                 PROVE  chain'[i] # <<>> /\ Head(chain'[i]) = Head(chain[i])
      OBVIOUS
    <3>1. k > 1 /\ Len(chain'[i]) \in Nat /\ Len(chain'[i]) >= 1
      BY <1>2, <1>5, <2>2
    <3>2. chain'[i] # <<>> /\ Head(chain'[i]) = chain'[i][1] /\ 1 \in DOMAIN chain'[i]
      BY <2>2, <3>1
    <3>3. chain'[i][1] = chain[i][1]
      BY <2>2, <3>1, <3>2
    <3> QED BY <1>2, <3>2, <3>3
  <2>5. HeadAtPlace(i)' /\ (Begun(i, "append")' => Begun(i, "append"))
    BY <1>2, <2>4 DEF HeadAtPlace, Chained, Begun
  <2>6. ASSUME NEW l \in DOMAIN chain'[i], chain'[i][l].kind \in {"commit", "check"}
        PROVE  chain'[i][l].caller # c
    <3>1. \E m \in DOMAIN chain[i] : m # k /\ chain'[i][l] = chain[i][m]
      <4>1. CASE l < k
        BY <1>2, <2>2, <4>1
      <4>2. CASE l >= k
        BY <1>2, <2>2, <4>2
      <4> QED BY <1>2, <2>2, <4>1, <4>2
    <3> QED BY <1>3, <2>6, <3>1
  <2> QED BY <2>1, <2>3, <2>5, <2>6
<1> QED BY <1>4, <1>5

LEMMA AbortKeeps ==
    ASSUME IInv, NEW c \in Caller, Abort(c) PROVE IInv'
<1> SUFFICES ASSUME NEW i, i = callers[c].id PROVE IInv'
  OBVIOUS
<1> DEFINE left == [callers EXCEPT ![c] = Idle]
           begun == running[i] /\ chain[i] # <<>> /\ Head(chain[i]).kind = "commit" /\ Head(chain[i]).caller = c
<1>1. /\ TypeOK /\ CallersAtPlace /\ callers[c].kind \in {"prepare", "inspect"}
      /\ UNCHANGED <<log, tracked, live, running>> /\ AnyPool(pool) /\ AnyCallers(callers)
  BY Typed DEF IInv, Abort
<1>2. CASE /\ callers[c].pc \in {"entering", "loading", "settling"}
           /\ callers' = left /\ UNCHANGED <<chain, pool>>
  <2>1. i \in Id
    BY <1>1, <1>2 DEF CallersAtPlace
  <2> QED BY <1>1, <1>2, <2>1, WaiterLeaves
<1>3. ASSUME callers[c].pc \in {"committing", "checking"}, Dropped(i, c),
             NEW cs, cs = left \/ cs = Overtaken(left, i),
             \/ callers' = cs /\ pool' = pool /\ ~Holder(c, i)
             \/ callers' = Settled(cs, i) /\ pool' = Without(pool, {i}) /\ Holder(c, i)
      PROVE  IInv'
  <2>1. i \in Id
    BY <1>1, <1>3 DEF CallersAtPlace
  <2>2. /\ chain' \in [Id -> Seq(Op)] /\ \A j \in Id \ {i} : chain'[j] = chain[j]
        /\ Thins(i) /\ HeadAtPlace(i)' /\ (Begun(i, "append")' => Begun(i, "append"))
        /\ \A k \in DOMAIN chain'[i] :
             chain'[i][k].kind \in {"commit", "check"} => chain'[i][k].caller \notin {c}
    BY <1>1, <1>3, <2>1, DroppedIs
  <2>3. /\ Woken(left, {c}, i, {"loaded"}) /\ Woken(left, {c}, i, {"loaded", "settling"})
    BY <1>1, <1>3, <2>1, LeavingIs
  <2> HIDE DEF left
  <2>4. /\ Woken(cs, {c}, i, {"loaded"}) /\ Woken(cs, {c}, i, {"loaded", "settling"})
    BY <1>3, <2>3, WokenOvertakes
  <2>5. CASE callers' = cs /\ pool' = pool /\ ~Holder(c, i)
    <3>1. TypeOK'
      BY <1>1, <2>2, <2>4, <2>5, Typed, TypesKeep, WokenPlaces
    <3>2. Only(i) /\ EntryStays(i)
      BY <1>1, <2>2, <2>5, SamePool DEF Only
    <3>3. Apart(c, i)
      BY <1>3, <2>5 DEF Apart
    <3>4. Woken(callers', {c}, i, {"loaded"})
      BY <2>4, <2>5
    <3> QED BY <1>1, <2>1, <2>2, <3>1, <3>2, <3>3, <3>4, MildStep
  <2>6. CASE callers' = Settled(cs, i) /\ pool' = Without(pool, {i}) /\ Holder(c, i)
    <3>1. /\ Woken(callers', {c}, i, {"loaded", "settling"})
          /\ \A d \in Caller : callers'[d].id = i => callers'[d].pc # "settling"
      BY <2>4, <2>6, WokenSettles
    <3>2. AnyPool(pool') /\ ~Pooled(i)' /\ \A j \in Id \ {i} : EntryStays(j)
      BY <1>1, <2>1, <2>6, DiscardedIs
    <3>3. TypeOK'
      BY <1>1, <2>2, <3>1, <3>2, Typed, TypesKeep, WokenPlaces
    <3>4. Only(i) /\ FreesEntry(i)
      BY <1>1, <2>2, <3>2 DEF Only, FreesEntry
    <3>5. \A d \in Caller : callers'[d].id = i => callers'[d].pc # "reserved"
      <4> SUFFICES ASSUME NEW d \in Caller, callers'[d].id = i, callers'[d].pc = "reserved"
                   PROVE  FALSE
        OBVIOUS
      <4>1. callers[d].id = i /\ callers[d].pc = "reserved"
        BY <3>1 DEF Woken, SameCall
      <4>2. d = c
        BY <2>1, <2>6, <4>1, HolderIs
      <4> QED BY <1>3, <4>1, <4>2
    <3> QED BY <2>1, <2>2, <3>1, <3>3, <3>4, <3>5, FreedStep
  <2> QED BY <1>3, <2>5, <2>6
<1>4. CASE /\ callers[c].pc = "checking" /\ Dropped(i, c)
           /\ callers' = IF chain'[i] = <<>> THEN Overtaken(left, i) ELSE left
           /\ UNCHANGED pool
  <2>1. ~Holder(c, i)
    BY <1>4 DEF Holder, Holds
  <2> QED BY <1>3, <1>4, <2>1
<1>5. CASE /\ callers[c].pc = "committing" /\ Dropped(i, c)
           /\ GiveUp(c, IF chain'[i] = <<>> THEN Overtaken(left, i) ELSE left)
  <2> DEFINE cs == IF chain'[i] = <<>> THEN Overtaken(left, i) ELSE left
  <2>1. cs = left \/ cs = Overtaken(left, i)
    OBVIOUS
  <2> HIDE DEF cs
  <2>2. GiveUp(c, cs)
    BY <1>5 DEF cs
  <2>3. Mine(c) <=> Holder(c, i)
    BY <1>5 DEF Mine, Holder, Holds, Joined
  <2>4. \/ callers' = cs /\ pool' = pool /\ ~Holder(c, i)
        \/ callers' = Settled(cs, i) /\ pool' = Without(pool, {i}) /\ Holder(c, i)
    BY <2>2, <2>3 DEF GiveUp, Discard
  <2> HIDE DEF left
  <2> QED BY <1>3, <1>5, <2>1, <2>4
<1>6. CASE /\ callers[c].pc \in {"committed", "committing"}
           /\ callers' = [callers EXCEPT ![c].aborted = TRUE] /\ UNCHANGED <<chain, pool>>
  <2> DEFINE r == [callers[c] EXCEPT !.aborted = TRUE]
  <2>1. i \in Id /\ callers[c].kind \in Kind
    BY <1>1, <1>6 DEF CallersAtPlace
  <2>2. /\ r \in CallRecord /\ SameCall(r, callers[c]) /\ r.kind = callers[c].kind /\ r.id = i
    <3>1. \A q \in CallRecord : LET p == [q EXCEPT !.aborted = TRUE] IN
            p \in CallRecord /\ SameCall(p, q) /\ p.kind = q.kind /\ p.id = q.id
      BY DEF CallRecord, SameCall
    <3>2. callers[c] \in CallRecord
      BY <1>1 DEF AnyCallers
    <3> QED BY <3>1, <3>2
  <2>3. callers' = [callers EXCEPT ![c] = r]
    BY <1>1, <1>6 DEF AnyCallers
  <2> HIDE DEF r
  <2>4. /\ AnyCallers(callers') /\ CallersAtPlace' /\ callers'[c] = r
        /\ \A d \in Caller \ {c} : SameCall(callers'[d], callers[d])
    BY <1>1, <2>1, <2>2, <2>3, PlaceIs
  <2>5. Woken(callers', {}, i, {"loaded"})
    BY <2>2, <2>4 DEF Woken, CallersAtPlace
  <2>6. TypeOK'
    BY <1>1, <1>6, <2>4, Typed, TypesKeep
  <2>7. Only(i) /\ EntryStays(i) /\ Thins(i) /\ HeadAtPlace(i)'
    BY <1>1, <1>6, <2>1, SamePool, ChainStays, StillHead DEF Only, IInv
  <2>8. Begun(i, "append")' => Begun(i, "append")
    BY <1>1, <1>6 DEF Begun
  <2> QED BY <1>1, <2>1, <2>5, <2>6, <2>7, <2>8, MildStep
<1>7. \/ /\ callers[c].pc \in {"entering", "loading", "settling"}
         /\ callers' = left /\ UNCHANGED <<chain, pool>>
      \/ /\ callers[c].pc = "checking" /\ Dropped(i, c)
         /\ callers' = IF chain'[i] = <<>> THEN Overtaken(left, i) ELSE left
         /\ UNCHANGED pool
      \/ /\ callers[c].pc = "committing" /\ Dropped(i, c)
         /\ GiveUp(c, IF chain'[i] = <<>> THEN Overtaken(left, i) ELSE left)
      \/ /\ callers[c].pc \in {"committed", "committing"}
         /\ callers' = [callers EXCEPT ![c].aborted = TRUE] /\ UNCHANGED <<chain, pool>>
  BY DEF Abort
<1> QED BY <1>2, <1>4, <1>5, <1>6, <1>7

-----------------------------------------------------------------------------
(* The theorems.                                                           *)

LEMMA InitHolds == Init => IInv
<1> SUFFICES ASSUME Init PROVE IInv
  OBVIOUS
<1>1. /\ \A c \in Caller : callers[c] = Idle
      /\ \A i \in Id : chain[i] = <<>> /\ running[i] = FALSE /\ Entry(i) = None /\ ~Pooled(i)
                       /\ ~Locked(i)
  BY DEF Init, Entry, Pooled, Locked, Phase
<1>2. TypeOK
  <2>1. log \in [Id -> Log]
    <3>1. [len : {1}, broken : BOOLEAN, corrupt : {FALSE}] \subseteq Log
      <4>1. \A N, S, B, C : N \subseteq S /\ C \subseteq B =>
              [len : N, broken : B, corrupt : C] \subseteq [len : S, broken : B, corrupt : B]
        OBVIOUS
      <4>2. {1} \subseteq Nat /\ {FALSE} \subseteq BOOLEAN
        OBVIOUS
      <4> QED BY <4>1, <4>2 DEF Log
    <3>2. log \in [Id -> [len : {1}, broken : BOOLEAN, corrupt : {FALSE}]]
      BY DEF Init
    <3> QED BY <3>1, <3>2
  <2>2. tracked \in [Id -> State \cup {None}] /\ running \in [Id -> BOOLEAN]
    BY DEF Init
  <2>3. live \in [Id -> [state : {"none", "live", "retiring", "failed"}, next : Nat, dirty : BOOLEAN]]
    <3>1. NotLive \in [state : {"none", "live", "retiring", "failed"}, next : Nat, dirty : BOOLEAN]
      BY DEF NotLive
    <3> QED BY <3>1 DEF Init
  <2>4. chain \in [Id -> Seq(Op)]
    <3>1. <<>> \in Seq(Op)
      OBVIOUS
    <3> QED BY <3>1 DEF Init
  <2>5. /\ pool = [entry |-> pool.entry, before |-> pool.before]
        /\ pool.entry \in [Id -> PreparationEntry \cup {None}]
    BY DEF Init
  <2>6. callers \in [Caller -> CallRecord]
    BY IdleTyped DEF Init
  <2> QED BY <2>1, <2>2, <2>3, <2>4, <2>5, <2>6 DEF TypeOK
<1>3. CallersAtPlace
  BY <1>1, IdleTyped DEF CallersAtPlace
<1>4. ASSUME NEW i \in Id PROVE Chained(i)
  BY <1>1 DEF Chained, OpsAtPlace, HeadAtPlace, LoadsAtPlace
<1>5. ASSUME NEW i \in Id PROVE Held(i)
  <2>1. \A c \in Caller : ~Joined(c, i) /\ ~Holder(c, i) /\ callers[c].pc = "idle"
    BY <1>1, IdleTyped DEF Holder, Joined
  <2> QED BY <1>1, <2>1 DEF Held, CommitsAtPlace, HoldersAtPhase, WaitersAtPhase, ReadersAtPhase,
                            AppendsFirst, SourceIsCurrent, LiveIsUnpooled
<1> QED BY <1>2, <1>3, <1>4, <1>5 DEF IInv

LEMMA StillHolds ==
    ASSUME IInv, UNCHANGED vars PROVE IInv'
BY DEF IInv, vars, TypeOK, CallersAtPlace, Chained, OpsAtPlace, HeadAtPlace, LoadsAtPlace, Held,
       CommitsAtPlace, HoldersAtPhase, WaitersAtPhase, ReadersAtPhase, AppendsFirst,
       SourceIsCurrent, LiveIsUnpooled, Locked, Phase, Pooled, Entry, Holder, Joined, Holds,
       Begun, Bound, Cursor

LEMMA StepHolds ==
    ASSUME IInv, [Next]_vars PROVE IInv'
<1>1. CASE UNCHANGED vars
  BY <1>1, StillHolds
<1>2. ASSUME NEW i \in Id, Storage(i) PROVE IInv'
  BY <1>2, BeginKeeps, LoadDoneKeeps, CommitDoneKeeps, CheckDoneKeeps, DroppedDoneKeeps,
     BeginAppendKeeps, AdoptKeeps, WriteDoneKeeps, WriteFailsKeeps, RetireDoneKeeps DEF Storage
<1>3. ASSUME NEW c \in Caller, Resume(c) \/ Publish(c) \/ Release(c) \/ Abort(c) PROVE IInv'
  BY <1>3, EnterKeeps, ReserveKeeps, InspectKeeps, CommittedKeeps, CheckedKeeps, PublishKeeps,
     ReleaseKeeps, AbortKeeps DEF Resume
<1>4. ASSUME NEW c \in Caller, NEW ask \in Asks[c], Call(c, ask[1], ask[2]) PROVE IInv'
  <2>1. ask[1] \in Kind /\ ask[2] \in Id
    BY Assumed
  <2> QED BY <1>4, <2>1, CallKeeps
<1> QED BY <1>1, <1>2, <1>3, <1>4, WritersKeep DEF Next

\* Operations, entries and callers stay in step, whatever is asked for at once.
THEOREM Invariant == Spec => []IInv
BY InitHolds, StepHolds, PTL DEF Spec

\* Storage, the chains, the pool and the calls keep their types.
THEOREM TypeCorrect == Spec => []TypeOK
<1>1. IInv => TypeOK
  BY DEF IInv
<1> QED BY <1>1, Invariant, PTL

\* What attachPrepared() requires of a reservation is so while it is held,
\* whatever writers, other callers and evictions did since it was made.
THEOREM ReservationsHold == Spec => []ReservationHolds
<1>1. IInv => ReservationHolds
  <2> SUFFICES ASSUME IInv, NEW c \in Caller, callers[c].pc = "reserved", NEW i, i = callers[c].id
               PROVE  /\ Attachable(c) /\ callers[c].source = log[i] /\ ~log[i].broken
                      /\ \A d \in Caller \ {c} : callers[d].pc = "reserved" => callers[d].id # i
    BY DEF ReservationHolds
  <2>1. i \in Id /\ Held(i)
    BY DEF IInv, CallersAtPlace
  <2>2. \A d \in Caller : callers[d].pc = "reserved" /\ callers[d].id = i => Holder(d, i)
    BY <2>1 DEF Held, WaitersAtPhase, Holder, Holds
  <2>3. Holder(c, i) /\ Joined(c, i)
    BY <2>2 DEF Holder
  <2>4. /\ Entry(i).phase = "reserved"
        /\ \A d \in Caller \ {c} : callers[d].pc = "reserved" => callers[d].id # i
    BY <2>1, <2>2, <2>3 DEF Held, HoldersAtPhase
  <2>5. callers[c].source = log[i] /\ ~log[i].broken /\ tracked[i] = Cursor(log[i])
    BY <2>1, <2>3 DEF Held, SourceIsCurrent, Bound
  <2>6. Cursor(log[i]) # None
    <3>1. log[i].len \in Nat
      BY <2>1 DEF IInv, TypeOK, Log
    <3>2. Cursor(log[i]) \in State
      BY <3>1 DEF Cursor, State
    <3> QED BY <3>2, Assumed
  <2>7. Attachable(c)
    BY <2>3, <2>4, <2>5, <2>6 DEF Attachable, Mine, Joined, Cursor
  <2> QED BY <2>4, <2>5, <2>7
<1> QED BY <1>1, Invariant, PTL

\* The preparation of a session that is live has left the pool, so that its
\* write-behind is never refused for a lock.
THEOREM NoLiveLocks == Spec => []LiveIsNotLocked
<1>1. IInv => LiveIsNotLocked
  BY EntryTyped DEF IInv, Held, LiveIsUnpooled, LiveIsNotLocked
<1> QED BY <1>1, Invariant, PTL

\* Whoever waits for a reservation waits for one that another caller has.
THEOREM WaitersHaveHolders == Spec => []WaiterHasHolder
<1>1. IInv => WaiterHasHolder
  <2> SUFFICES ASSUME IInv, NEW c \in Caller, callers[c].pc = "settling"
               PROVE  /\ Mine(c)
                      /\ \E d \in Caller \ {c} : /\ Holds(d) /\ callers[d].id = callers[c].id
                                                 /\ callers[d].token = callers[c].token
    BY DEF WaiterHasHolder
  <2> DEFINE i == callers[c].id
  <2>1. i \in Id /\ Held(i)
    BY DEF IInv, CallersAtPlace
  <2>2. Joined(c, i) /\ Locked(i)
    BY <2>1 DEF Held, WaitersAtPhase
  <2>3. PICK d \in Caller : Holder(d, i)
    BY <2>1, <2>2 DEF Held, HoldersAtPhase
  <2>4. d # c
    BY <2>3 DEF Holder, Holds
  <2> QED BY <2>2, <2>3, <2>4 DEF Holder, Joined, Mine
<1> QED BY <1>1, Invariant, PTL

-----------------------------------------------------------------------------
(* What the cache keeps.                                                   *)

\* Its Map orders the finitely many keys of a pool.
Ordered(p) ==
    /\ AnyPool(p) /\ IsFiniteSet(Keys(p))
    /\ \A j \in Keys(p) : <<j, j>> \notin p.before
    /\ \A j, k \in Keys(p) : j = k \/ <<j, k>> \in p.before \/ <<k, j>> \in p.before
    /\ \A j, k, l \in Keys(p) :
         <<j, k>> \in p.before /\ <<k, l>> \in p.before => <<j, l>> \in p.before

\* Ready entries are entries, and a finite pool has a number of them.
LEMMA ReadyKeys ==
    ASSUME NEW p, AnyPool(p)
    PROVE  /\ Ready(p) \subseteq Keys(p) /\ Keys(p) \subseteq Id
           /\ IsFiniteSet(Keys(p)) => IsFiniteSet(Ready(p)) /\ Cardinality(Ready(p)) \in Nat
<1>1. Ready(p) \subseteq Keys(p) /\ Keys(p) \subseteq Id
  BY DEF Ready, Keys, Phase
<1> QED BY <1>1, FS_Subset, FS_CardinalityType

\* Fewer keys, in the order they were in.
LEMMA FewerOrdered ==
    ASSUME NEW p, Ordered(p), NEW q, AnyPool(q), Keys(q) \subseteq Keys(p),
           \A j, k \in Keys(q) : <<j, k>> \in q.before <=> <<j, k>> \in p.before
    PROVE  Ordered(q)
<1>1. IsFiniteSet(Keys(q))
  BY FS_Subset DEF Ordered
<1> QED BY <1>1 DEF Ordered

\* Removing entries leaves the others, and their order.
LEMMA WithoutOrdered ==
    ASSUME NEW p, Ordered(p), NEW S
    PROVE  Ordered(Without(p, S)) /\ Ready(Without(p, S)) = Ready(p) \ S
<1> DEFINE q == Without(p, S)
<1>1. AnyPool(q) /\ \A j \in Id : q.entry[j] = IF j \in S THEN None ELSE p.entry[j]
  BY WithoutIs DEF Ordered
<1>2. q.before = Unlisted(p.before, S)
  BY DEF Without
<1> HIDE DEF q
<1>3. Keys(q) = Keys(p) \ S /\ Ready(q) = Ready(p) \ S
  BY <1>1 DEF Keys, Ready, Phase
<1>4. \A j, k \in Keys(q) : <<j, k>> \in q.before <=> <<j, k>> \in p.before
  BY <1>2, <1>3 DEF Unlisted
<1>5. Ordered(q)
  BY <1>1, <1>3, <1>4, FewerOrdered
<1> QED BY <1>3, <1>5 DEF q

\* A key that is set last comes behind all others.
LEMMA SetLastOrdered ==
    ASSUME NEW p, Ordered(p), NEW i \in Id,
           NEW q, AnyPool(q), Keys(q) = Keys(p) \cup {i}, q.before = SetLast(p, i)
    PROVE  Ordered(q)
<1>1. IsFiniteSet(Keys(q))
  BY FS_AddElement DEF Ordered
<1>2. \A j, k : <<j, k>> \in q.before <=>
        \/ <<j, k>> \in p.before /\ j # i /\ k # i
        \/ j \in Keys(p) /\ j # i /\ k = i
  BY DEF SetLast, Unlisted
<1>3. \A j \in Keys(q) : <<j, j>> \notin q.before
  BY <1>2 DEF Ordered
<1>4. \A j, k \in Keys(q) : j = k \/ <<j, k>> \in q.before \/ <<k, j>> \in q.before
  BY <1>2 DEF Ordered
<1>5. ASSUME NEW j \in Keys(q), NEW k \in Keys(q), NEW l \in Keys(q),
             <<j, k>> \in q.before, <<k, l>> \in q.before
      PROVE  <<j, l>> \in q.before
  <2>1. k # i /\ j # i /\ <<j, k>> \in p.before /\ j \in Keys(p) /\ k \in Keys(p)
    BY <1>2, <1>5
  <2>2. CASE l = i
    BY <1>2, <2>1, <2>2
  <2>3. CASE l # i
    BY <1>2, <1>5, <2>1, <2>3 DEF Ordered
  <2> QED BY <2>2, <2>3
<1> QED BY <1>1, <1>3, <1>4, <1>5 DEF Ordered

\* One ready entry is the oldest: of the sets of those before a ready entry,
\* one contains no other.
LEMMA OneIsOldest ==
    ASSUME NEW p, Ordered(p), Ready(p) # {}
    PROVE  \E j \in Ready(p) : Oldest(p) = {j}
<1> DEFINE Earlier(j) == {k \in Ready(p) : <<k, j>> \in p.before}
           Initials == {Earlier(j) : j \in Ready(p)}
<1>1. IsFiniteSet(Ready(p)) /\ Ready(p) \subseteq Keys(p)
  BY ReadyKeys DEF Ordered
<1>2. Initials \subseteq FiniteSubsetsOf(Ready(p)) /\ Initials # {}
  <2>1. \A j : Earlier(j) \subseteq Ready(p)
    OBVIOUS
  <2>2. \A j : IsFiniteSet(Earlier(j))
    BY <1>1, <2>1, FS_Subset
  <2> QED BY <2>1, <2>2 DEF FiniteSubsetsOf
<1>3. PICK s \in Initials :
        \A r \in Initials : <<r, s>> \notin StrictSubsetOrdering(Ready(p))
  <2> HIDE DEF Initials
  <2> QED BY <1>2, WFMin, FS_StrictSubsetOrderingWellFounded
<1>4. PICK j \in Ready(p) : s = Earlier(j)
  BY <1>3
<1>5. \A k \in Ready(p) : <<k, j>> \notin p.before
  <2> SUFFICES ASSUME NEW k \in Ready(p), <<k, j>> \in p.before PROVE FALSE
    OBVIOUS
  <2>1. Earlier(k) \subseteq Earlier(j)
    BY <1>1 DEF Ordered
  <2>2. k \in Earlier(j) /\ k \notin Earlier(k)
    BY <1>1 DEF Ordered
  <2>3. Earlier(k) \in Initials /\ Earlier(j) \subseteq Ready(p) /\ Earlier(k) \subseteq Ready(p)
    OBVIOUS
  <2> HIDE DEF Earlier, Initials
  <2>4. <<Earlier(k), Earlier(j)>> \in StrictSubsetOrdering(Ready(p))
    BY <2>1, <2>2, <2>3 DEF StrictSubsetOrdering
  <2> QED BY <1>3, <1>4, <2>3, <2>4
<1>6. j \in Oldest(p)
  BY <1>1, <1>5 DEF Oldest, Ordered
<1>7. \A k \in Oldest(p) : k = j
  BY <1>5 DEF Oldest
<1> QED BY <1>6, <1>7

\* Touching an entry leaves no more than the capacity of a pool that holds one
\* ready entry too many.
LEMMA TouchedFits ==
    ASSUME NEW p, Ordered(p), NEW i \in Keys(p), Cardinality(Ready(p)) <= Capacity + 1
    PROVE  Ordered(Touched(p, i)) /\ Cardinality(Ready(Touched(p, i))) <= Capacity
<1> DEFINE before == SetLast(p, i)
           q == [p EXCEPT !.before = before]
<1>1. q = [entry |-> p.entry, before |-> before] /\ AnyPool(p)
  <2> HIDE DEF before
  <2> QED BY DEF Ordered, AnyPool
<1>2. AnyPool(q) /\ q.entry = p.entry /\ q.before = SetLast(p, i)
  BY <1>1 DEF AnyPool
<1>3. Touched(p, i) = IF Cardinality(Ready(q)) > Capacity THEN Without(q, Oldest(q)) ELSE q
  BY DEF Touched
<1> HIDE DEF before, q
<1>4. Keys(q) = Keys(p) /\ Ready(q) = Ready(p)
  BY <1>2 DEF Keys, Ready, Phase
<1>5. i \in Id /\ Keys(q) = Keys(p) \cup {i}
  BY <1>4, <1>1, ReadyKeys
<1>6. Ordered(q)
  BY <1>2, <1>5, SetLastOrdered
<1>7. Cardinality(Ready(q)) \in Nat /\ IsFiniteSet(Ready(q)) /\ Capacity \in Nat
  BY <1>6, ReadyKeys, Assumed DEF Ordered
<1>8. CASE Cardinality(Ready(q)) > Capacity
  <2>1. Ready(q) # {}
    BY <1>7, <1>8, FS_EmptySet
  <2>2. PICK j \in Ready(q) : Oldest(q) = {j}
    BY <1>6, <2>1, OneIsOldest
  <2>3. Ordered(Without(q, {j})) /\ Ready(Without(q, {j})) = Ready(q) \ {j}
    BY <1>6, WithoutOrdered
  <2>4. Cardinality(Ready(q) \ {j}) = Cardinality(Ready(q)) - 1
    BY <1>7, FS_RemoveElement
  <2>5. Touched(p, i) = Without(q, {j})
    BY <1>3, <1>8, <2>2
  <2>6. Cardinality(Ready(q)) - 1 <= Capacity
    BY <1>4, <1>7
  <2> QED BY <2>3, <2>4, <2>5, <2>6
<1>9. CASE ~(Cardinality(Ready(q)) > Capacity)
  BY <1>3, <1>6, <1>7, <1>9
<1> QED BY <1>8, <1>9

\* At most one more is ready when one entry changes its phase.
LEMMA OneMoreReady ==
    ASSUME NEW p, Ordered(p), NEW i \in Keys(p), NEW q, AnyPool(q), q.before = p.before,
           q.entry[i] # None, \A j \in Id \ {i} : q.entry[j] = p.entry[j]
    PROVE  /\ Ordered(q) /\ Keys(q) = Keys(p)
           /\ Cardinality(Ready(q)) <= Cardinality(Ready(p)) + 1
           /\ Phase(q, i) # "ready" => Cardinality(Ready(q)) <= Cardinality(Ready(p))
<1>1. AnyPool(p) /\ i \in Id
  BY ReadyKeys DEF Ordered
<1>2. Keys(q) = Keys(p)
  BY DEF Keys
<1>3. Ordered(q)
  BY <1>2, FewerOrdered
<1>4. IsFiniteSet(Ready(p)) /\ IsFiniteSet(Ready(q))
      /\ Cardinality(Ready(p)) \in Nat /\ Cardinality(Ready(q)) \in Nat
  BY <1>1, <1>3, ReadyKeys DEF Ordered
<1>5. Ready(q) \subseteq Ready(p) \cup {i}
  BY DEF Ready, Phase
<1>6. /\ IsFiniteSet(Ready(p) \cup {i}) /\ Cardinality(Ready(p) \cup {i}) \in Nat
      /\ Cardinality(Ready(p) \cup {i}) <= Cardinality(Ready(p)) + 1
  <2>1. /\ IsFiniteSet(Ready(p) \cup {i})
        /\ Cardinality(Ready(p) \cup {i}) \in {Cardinality(Ready(p)), Cardinality(Ready(p)) + 1}
    BY <1>4, FS_AddElement
  <2> QED BY <1>4, <2>1
<1>7. Cardinality(Ready(q)) <= Cardinality(Ready(p) \cup {i})
  BY <1>5, <1>6, FS_Subset
<1>8. ASSUME Phase(q, i) # "ready" PROVE Cardinality(Ready(q)) <= Cardinality(Ready(p))
  <2>1. Ready(q) \subseteq Ready(p)
    BY <1>8 DEF Ready, Phase
  <2> QED BY <1>4, <2>1, FS_Subset
<1> QED BY <1>2, <1>3, <1>4, <1>6, <1>7, <1>8

\* The pool keeps no more ready entries than its capacity.
Fits(p) == Ordered(p) /\ Cardinality(Ready(p)) <= Capacity

\* The operations of the pool keep what it keeps within bounds.  inspect() touches:
LEMMA TouchedFitsStill ==
    ASSUME NEW p, Fits(p), NEW i \in Keys(p)
    PROVE  Fits(Touched(p, i))
<1>1. Cardinality(Ready(p)) \in Nat /\ Capacity \in Nat
  BY ReadyKeys, Assumed DEF Fits, Ordered
<1> QED BY <1>1, TouchedFits DEF Fits

\* a read that ends and a reservation given back make an entry ready:
LEMMA ReadiedFits ==
    ASSUME NEW p, Fits(p), NEW i \in Keys(p), NEW source \in Log
    PROVE  Fits(Readied(p, i, source))
<1> DEFINE q == [p EXCEPT !.entry[i].phase = "ready", !.entry[i].source = source]
           e == [p.entry[i] EXCEPT !.phase = "ready", !.source = source]
           entry == [p.entry EXCEPT ![i] = e]
<1>0. AnyPool(p) /\ i \in Id /\ p.entry[i] \in PreparationEntry
  BY ReadyKeys DEF Fits, Ordered, Keys, AnyPool
<1>1. e \in PreparationEntry /\ e # None
  BY <1>0, Assumed DEF PreparationEntry
<1>2. q = [entry |-> entry, before |-> p.before]
  <2>1. q = [p EXCEPT !.entry = entry]
    BY <1>0 DEF AnyPool
  <2> HIDE DEF entry, q
  <2> QED BY <1>0, <2>1 DEF AnyPool
<1>3. Readied(p, i, source) = Touched(q, i)
  BY DEF Readied
<1> HIDE DEF e, q
<1>4. entry \in [Id -> PreparationEntry \cup {None}] /\ entry[i] = e
      /\ \A j \in Id \ {i} : entry[j] = p.entry[j]
  BY <1>0, <1>1 DEF AnyPool
<1> HIDE DEF entry
<1>5. AnyPool(q) /\ q.entry = entry /\ q.before = p.before
  BY <1>2, <1>4 DEF AnyPool
<1>6. Ordered(q) /\ Keys(q) = Keys(p) /\ Cardinality(Ready(q)) <= Cardinality(Ready(p)) + 1
  BY <1>1, <1>4, <1>5, OneMoreReady DEF Fits
<1>7. Cardinality(Ready(p)) \in Nat /\ Cardinality(Ready(q)) \in Nat /\ Capacity \in Nat
  BY <1>0, <1>5, <1>6, ReadyKeys, Assumed DEF Fits, Ordered
<1>8. Cardinality(Ready(q)) <= Capacity + 1
  BY <1>6, <1>7 DEF Fits
<1> QED BY <1>3, <1>6, <1>8, TouchedFits DEF Fits

\* reserve() and the commit behind it lock an entry:
LEMMA RelockedFits ==
    ASSUME NEW p, Fits(p), NEW i \in Keys(p), NEW phase \in {"committing", "reserved"},
           p.entry[i].phase # "loading"
    PROVE  Fits(Relocked(p, i, phase))
<1> DEFINE q == Relocked(p, i, phase)
<1>1. AnyPool(p) /\ i \in Id /\ p.entry[i] \in PreparationEntry
  BY ReadyKeys DEF Fits, Ordered, Keys, AnyPool
<1>2. /\ AnyPool(q) /\ q.entry[i] # None /\ q.entry[i].phase = phase
      /\ \A j \in Id \ {i} : q.entry[j] = p.entry[j]
  BY <1>1, RelockedIs
<1>3. q.before = p.before
  BY <1>1 DEF Relocked, AnyPool
<1> HIDE DEF q
<1>4. Phase(q, i) # "ready"
  BY <1>2 DEF Phase
<1>5. Ordered(q) /\ Cardinality(Ready(q)) <= Cardinality(Ready(p))
  BY <1>2, <1>3, <1>4, OneMoreReady DEF Fits
<1>6. Cardinality(Ready(p)) \in Nat /\ Cardinality(Ready(q)) \in Nat /\ Capacity \in Nat
  BY <1>1, <1>2, <1>5, ReadyKeys, Assumed DEF Fits, Ordered
<1> QED BY <1>5, <1>6 DEF Fits, q

\* remove():
LEMMA WithoutFits ==
    ASSUME NEW p, Fits(p), NEW S
    PROVE  Fits(Without(p, S))
<1>1. Ordered(Without(p, S)) /\ Ready(Without(p, S)) = Ready(p) \ S
  BY WithoutOrdered DEF Fits
<1>2. IsFiniteSet(Ready(p)) /\ Cardinality(Ready(p)) \in Nat /\ Capacity \in Nat
  BY ReadyKeys, Assumed DEF Fits, Ordered
<1>3. Cardinality(Ready(p) \ S) \in Nat /\ Cardinality(Ready(p) \ S) <= Cardinality(Ready(p))
  BY <1>2, FS_Subset, FS_CardinalityType
<1> QED BY <1>1, <1>2, <1>3 DEF Fits

\* entryFor(), for an id without an entry:
LEMMA WithFits ==
    ASSUME NEW p, Fits(p), NEW i \in Id, i \notin Keys(p), NEW t \in Token
    PROVE  Fits(With(p, i, t))
<1> DEFINE q == With(p, i, t)
<1>1. AnyPool(p) /\ AnyPool(q) /\ q.entry[i] # None /\ q.entry[i].phase = "loading"
      /\ \A j \in Id \ {i} : q.entry[j] = p.entry[j]
  BY WithIs DEF Fits, Ordered
<1>2. q.before = SetLast(p, i)
  BY DEF With
<1> HIDE DEF q
<1>3. Keys(q) = Keys(p) \cup {i}
  BY <1>1 DEF Keys
<1>4. Ready(q) = Ready(p)
  BY <1>1 DEF Ready, Phase, Keys
<1> QED BY <1>1, <1>2, <1>3, <1>4, SetLastOrdered DEF Fits, q

\* What a step does to the pool is one of its operations.
PoolStep ==
    \/ pool' = pool
    \/ \E i \in Id \ Keys(pool), t \in Token : pool' = With(pool, i, t)
    \/ \E i \in Id : pool' = Without(pool, {i})
    \/ \E i \in Keys(pool) :
         \/ pool' = Touched(pool, i)
         \/ \E source \in Log : pool' = Readied(pool, i, source)
         \/ /\ Entry(i).phase # "loading"
            /\ \E phase \in {"committing", "reserved"} : pool' = Relocked(pool, i, phase)

\* No operation breaks the bound.
LEMMA PoolStepFits ==
    ASSUME Fits(pool), PoolStep
    PROVE  Fits(pool')
BY WithFits, WithoutFits, TouchedFitsStill, ReadiedFits, RelockedFits DEF PoolStep, Entry

\* Every step of the coordinator uses the pool by these operations alone: an entry
\* that is read, locked or given back is still there.
LEMMA PoolSteps ==
    ASSUME IInv, Next
    PROVE  PoolStep
<1>0. /\ TypeOK
      /\ \A c \in Caller : /\ callers[c] \in CallRecord
                           /\ callers[c].pc # "idle" => callers[c].id \in Id
  BY DEF IInv, CallersAtPlace, TypeOK
<1>1. \A c \in Caller : Mine(c) /\ callers[c].pc # "idle" =>
        callers[c].id \in Keys(pool) /\ Entry(callers[c].id) \in PreparationEntry
  BY <1>0 DEF Mine, Pooled, Keys, Entry, TypeOK
<1>held. ASSUME NEW c \in Caller,
             callers[c].pc = "reserved" \/ (callers[c].pc = "committed" /\ Mine(c))
      PROVE  /\ callers[c].id \in Keys(pool) /\ Entry(callers[c].id).phase # "loading"
             /\ Bound(c) => callers[c].source \in Log
  <2> DEFINE i == callers[c].id
  <2>1. i \in Id /\ Held(i) /\ log[i] \in Log
    BY <1>0, <1>held DEF IInv, TypeOK
  <2>2. Joined(c, i)
    BY <1>held, <2>1 DEF Held, WaitersAtPhase, Joined, Mine
  <2>3. Holder(c, i)
    BY <1>held, <2>2 DEF Holder, Holds
  <2>4. i \in Keys(pool)
    BY <2>1, <2>2 DEF Joined, Pooled, Keys, Entry
  <2>5. Entry(i).phase # "loading"
    BY <2>1, <2>3 DEF Held, HoldersAtPhase
  <2>6. Bound(c) => callers[c].source \in Log
    BY <2>1, <2>3 DEF Held, SourceIsCurrent
  <2> QED BY <2>4, <2>5, <2>6
<1>2. ASSUME NEW c \in Caller, Enter(c) PROVE PoolStep
  <2>1. callers[c].id \in Id
    BY <1>0, <1>2 DEF Enter
  <2>2. Token \ InUse(callers[c].id) # {} => Fresh(callers[c].id) \in Token
    BY DEF Fresh
  <2> QED BY <1>2, <2>1, <2>2 DEF Enter, PoolStep, Keys, Pooled, Entry
<1>3. ASSUME NEW c \in Caller, Reserve(c) PROVE PoolStep
  <2>1. callers[c].id \in Keys(pool) \/ ~Mine(c)
    BY <1>1, <1>3 DEF Reserve
  <2> QED BY <1>3, <2>1 DEF Reserve, PoolStep, Relocked
<1>4. ASSUME NEW c \in Caller, Inspect(c) PROVE PoolStep
  <2>1. callers[c].id \in Keys(pool) \/ ~Mine(c)
    BY <1>1, <1>4 DEF Inspect
  <2> QED BY <1>4, <2>1 DEF Inspect, PoolStep
<1>5. ASSUME NEW i \in Id, LoadDone(i) PROVE PoolStep
  <2>1. log[i] \in Log
    BY <1>0 DEF TypeOK
  <2>2. Pooled(i) => i \in Keys(pool)
    BY DEF Pooled, Keys, Entry
  <2> QED BY <1>5, <2>1, <2>2 DEF LoadDone, PoolStep
<1>6. ASSUME NEW c \in Caller, Committed(c) PROVE PoolStep
  <2> DEFINE i == callers[c].id
             me == callers[c]
  <2>1. i \in Id /\ me.pc = "committed"
    BY <1>0, <1>6 DEF Committed
  <2>2. Mine(c) => /\ i \in Keys(pool) /\ Entry(i).phase # "loading"
                   /\ me.outcome = "ok" => me.source \in Log
    BY <1>held, <2>1 DEF Bound
  <2>3. \/ pool' = pool
        \/ pool' = Without(pool, {i})
        \/ Mine(c) /\ me.outcome = "ok" /\ pool' = Readied(pool, i, me.source)
        \/ Mine(c) /\ pool' = Relocked(pool, i, "reserved")
    BY <1>6 DEF Committed, GiveUp, Discard, Relocked
  <2> QED BY <2>1, <2>2, <2>3 DEF PoolStep
<1>7. ASSUME NEW c \in Caller, Checked(c) PROVE PoolStep
  <2>1. callers[c].id \in Id
    BY <1>0, <1>7 DEF Checked
  <2> QED BY <1>7, <2>1 DEF Checked, PoolStep, Discard
<1>8. ASSUME NEW c \in Caller, Publish(c) PROVE PoolStep
  <2>1. callers[c].id \in Id
    BY <1>0, <1>8 DEF Publish
  <2> QED BY <1>8, <2>1 DEF Publish, PoolStep, Discard
<1>9. ASSUME NEW c \in Caller, Release(c) PROVE PoolStep
  <2> DEFINE i == callers[c].id
  <2>1. i \in Id /\ i \in Keys(pool) /\ callers[c].source \in Log
    BY <1>0, <1>9, <1>held DEF Release, Bound
  <2>2. pool' = Without(pool, {i}) \/ pool' = Readied(pool, i, callers[c].source)
    BY <1>9 DEF Release, Discard
  <2> QED BY <2>1, <2>2 DEF PoolStep
<1>10. ASSUME NEW c \in Caller, Abort(c) PROVE PoolStep
  <2>1. callers[c].pc = "committing" => callers[c].id \in Id
    BY <1>0
  <2> QED BY <1>10, <2>1 DEF Abort, PoolStep, GiveUp, Discard
<1>11. ASSUME NEW i \in Id, BeginAppend(i) PROVE PoolStep
  BY <1>11 DEF BeginAppend, PoolStep
<1>12. ASSUME NEW i \in Id, WriteDone(i) PROVE PoolStep
  BY <1>12 DEF WriteDone, Discard, PoolStep
<1>13. ASSUME NEW i \in Id,
              Begin(i) \/ CommitDone(i) \/ CheckDone(i) \/ DroppedDone(i) \/ Adopt(i)
                \/ WriteFails(i) \/ RetireDone(i) \/ Writers(i)
       PROVE  PoolStep
  <2>1. pool' = pool
    BY <1>13 DEF Begin, CommitDone, CheckDone, DroppedDone, Adopt, WriteFails, RetireDone,
                 Writers, ServiceAppend, Emit, StartWrite, Dispose, Retire
  <2> QED BY <2>1 DEF PoolStep
<1>14. ASSUME NEW c \in Caller, NEW ask \in Asks[c], Call(c, ask[1], ask[2]) PROVE PoolStep
  BY <1>14 DEF Call, PoolStep
<1> QED BY <1>2, <1>3, <1>4, <1>5, <1>6, <1>7, <1>8, <1>9, <1>10, <1>11, <1>12, <1>13, <1>14
        DEF Next, Storage, Resume

\* However entries come, are held and are given back, no more are ready at once
\* than the cache may keep (preparations.ts touch, which evicts one at a time).
THEOREM CacheIsBounded == Spec => [](Cardinality(Ready(pool)) <= Capacity)
<1>1. Init => Fits(pool)
  <2> SUFFICES ASSUME Init PROVE Fits(pool)
    OBVIOUS
  <2>1. pool = [entry |-> [i \in Id |-> None], before |-> {}]
    BY DEF Init
  <2>2. AnyPool(pool) /\ Keys(pool) = {} /\ Ready(pool) = {}
    BY <2>1 DEF AnyPool, Keys, Ready, Phase
  <2> QED BY <2>2, FS_EmptySet, Assumed DEF Fits, Ordered
<1>2. IInv /\ Fits(pool) /\ [Next]_vars => Fits(pool)'
  <2> SUFFICES ASSUME IInv, Fits(pool), [Next]_vars PROVE Fits(pool)'
    OBVIOUS
  <2>1. PoolStep
    BY PoolSteps DEF PoolStep, vars
  <2> QED BY <2>1, PoolStepFits
<1>3. Fits(pool) => Cardinality(Ready(pool)) <= Capacity
  BY DEF Fits
<1> QED BY <1>1, <1>2, <1>3, Invariant, PTL DEF Spec

=============================================================================
