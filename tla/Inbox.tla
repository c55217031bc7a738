-------------------------------- MODULE Inbox --------------------------------
(***************************************************************************)
(* The inbox of one agent (packages/core/agent/src/inbox.ts): two ordered  *)
(* lists of pending messages, kept as the live projection of the splices   *)
(* in the session log.  A mutation first normalizes its coordinates, then  *)
(* validates, then commits its event, and only then changes the list, so   *)
(* a restart must be able to rebuild the lists from the log alone.         *)
(***************************************************************************)
EXTENDS Integers, SequencesExt

CONSTANTS
  Msg,        \* message identities
  MaxSplices  \* bound: splices in the log

ASSUME MaxSplicesAssumption == MaxSplices \in Nat

Target == {"next-turn", "next-step"}

VARIABLES
  lists,      \* the live projection, one sequence per target
  splices,    \* the agent/inbox/spliced events of the log
  inserted, claimed, discarded \* how often each message was notified so

vars == <<lists, splices, inserted, claimed, discarded>>

Other(target) == IF target = "next-turn" THEN "next-step" ELSE "next-turn"

Empty == [target \in Target |-> <<>>]
Nobody == [msg \in Msg |-> 0]

Init ==
  /\ lists = Empty /\ splices = <<>>
  /\ inserted = Nobody /\ claimed = Nobody /\ discarded = Nobody

-----------------------------------------------------------------------------
(* Pure parts of mutate, apply and validate.  Positions count from 0.      *)

Least(a, b) == IF a < b THEN a ELSE b
Greatest(a, b) == IF a < b THEN b ELSE a

\* Array.prototype.splice's reading of its start and of its delete count.
ActualStart(start, length) ==
  IF start < 0 THEN Greatest(length + start, 0) ELSE Least(start, length)

ActualDeleteCount(deleteCount, rest) == Least(Greatest(deleteCount, 0), rest)

Spliced(list, splice) ==
  SubSeq(list, 1, splice.start) \o splice.inserted
    \o SubSeq(list, splice.start + splice.removedCount + 1, Len(list))

Removed(list, splice) ==
  SubSeq(list, splice.start + 1, splice.start + splice.removedCount)

\* Mutant of IsValid: identities are compared within the target list only.
IsValid_oneList(state, splice) ==
  /\ splice.start \in 0 .. Len(state[splice.target])
  /\ splice.removedCount >= 0
  /\ splice.start + splice.removedCount <= Len(state[splice.target])
  /\ IsInjective(Spliced(state[splice.target], splice))

\* validate: the coordinates fit, and no identity would be pending twice.
IsValid(state, splice) ==
  /\ splice.start \in 0 .. Len(state[splice.target])
  /\ splice.removedCount >= 0
  /\ splice.start + splice.removedCount <= Len(state[splice.target])
  /\ IsInjective(Spliced(state[splice.target], splice)
                   \o state[Other(splice.target)])

Apply(state, splice) ==
  [state EXCEPT ![splice.target] = Spliced(@, splice)]

\* The constructor's replay of the log.
Replay(log) ==
  LET after[n \in 0 .. Len(log)] ==
        IF n = 0 THEN Empty ELSE Apply(after[n - 1], log[n])
  IN  after[Len(log)]

Normalized(target, start, deleteCount, messages) ==
  LET length == Len(lists[target])
      at == ActualStart(start, length)
  IN  [target |-> target, start |-> at,
       removedCount |-> ActualDeleteCount(deleteCount, length - at),
       inserted |-> messages]

\* One more notification for every message of a sequence.
Notify(counts, messages) ==
  [msg \in Msg |-> counts[msg] + Cardinality({i \in DOMAIN messages : messages[i] = msg})]

-----------------------------------------------------------------------------
(* Mutations.  An invalid one throws before anything changes.              *)

IsNoop(splice) == splice.removedCount = 0 /\ splice.inserted = <<>>

\* mutate returns early on a splice that would do nothing.
Mutated(state, splice) == IF IsNoop(splice) THEN state ELSE Apply(state, splice)
Logged(log, splice) == IF IsNoop(splice) THEN log ELSE Append(log, splice)

\* One mutation, and an operation of two: each is valid where it is applied.
Mutate(splice) ==
  /\ IsNoop(splice) \/ IsValid(lists, splice)
  /\ lists' = Mutated(lists, splice)
  /\ splices' = Logged(splices, splice)
  /\ Len(splices') <= MaxSplices

\* Mutant of MutateBoth: an operation with two splices logs the first only.
MutateBoth_logsFirst(first, second) ==
  /\ IsNoop(first) \/ IsValid(lists, first)
  /\ IsNoop(second) \/ IsValid(Mutated(lists, first), second)
  /\ lists' = Mutated(Mutated(lists, first), second)
  /\ splices' = Logged(splices, first)
  /\ Len(splices') <= MaxSplices

MutateBoth(first, second) ==
  /\ IsNoop(first) \/ IsValid(lists, first)
  /\ IsNoop(second) \/ IsValid(Mutated(lists, first), second)
  /\ lists' = Mutated(Mutated(lists, first), second)
  /\ splices' = Logged(Logged(splices, first), second)
  /\ Len(splices') <= MaxSplices

Splice(target, start, deleteCount, messages) ==
  LET splice == Normalized(target, start, deleteCount, messages)
  IN  /\ Mutate(splice)
      /\ discarded' = Notify(discarded, Removed(lists[target], splice))
      /\ inserted' = Notify(inserted, messages)
      /\ UNCHANGED claimed

append(target, msg) == Splice(target, Len(lists[target]), 0, <<msg>>)

prepend(target, msg) == Splice(target, 0, 0, <<msg>>)

\* replace and remove locate the identity in either list.
replace(old, new) ==
  \E target \in Target : \E i \in DOMAIN lists[target] :
    lists[target][i] = old /\ Splice(target, i - 1, 1, <<new>>)

remove(old) ==
  \E target \in Target : \E i \in DOMAIN lists[target] :
    lists[target][i] = old /\ Splice(target, i - 1, 1, <<>>)

\* Two cancellations, next-step before next-turn.
clear ==
  /\ MutateBoth(Normalized("next-step", 0, Len(lists["next-step"]), <<>>),
                Normalized("next-turn", 0, Len(lists["next-turn"]), <<>>))
  /\ discarded' = Notify(discarded, lists["next-step"] \o lists["next-turn"])
  /\ UNCHANGED <<inserted, claimed>>

\* Pure deletions: all of next-step and, at a turn boundary, one queued turn.
claim(target) ==
  LET steps == Normalized("next-step", 0, Len(lists["next-step"]), <<>>)
      turn == Normalized("next-turn", 0, 1, <<>>)
  IN  /\ \/ /\ target = "next-turn" /\ MutateBoth(steps, turn)
            /\ claimed' = Notify(claimed, lists["next-step"]
                                           \o Removed(lists["next-turn"], turn))
         \/ /\ target = "next-step" /\ Mutate(steps)
            /\ claimed' = Notify(claimed, lists["next-step"])
      /\ UNCHANGED <<inserted, discarded>>

\* The process stops and the inbox is rebuilt from the events that reached the
\* store, some prefix of the log.  The rebuilt inbox notifies nobody; its
\* pending messages count as inserted.
Restart ==
  \E kept \in 0 .. Len(splices) :
    LET log == SubSeq(splices, 1, kept)
        pending == Replay(log)["next-turn"] \o Replay(log)["next-step"]
    IN  /\ splices' = log
        /\ lists' = Replay(log)
        /\ inserted' = Notify(Nobody, pending)
        /\ claimed' = Nobody /\ discarded' = Nobody

Next ==
  \/ \E target \in Target, msg \in Msg :
       append(target, msg) \/ prepend(target, msg)
  \/ \E target \in Target, start \in -2 .. 3, deleteCount \in -1 .. 2 :
       Splice(target, start, deleteCount, <<>>)
  \/ \E target \in Target, start \in -2 .. 3, messages \in Msg \X Msg :
       Splice(target, start, 1, messages)
  \/ \E old \in Msg : remove(old) \/ \E new \in Msg : replace(old, new)
  \/ clear
  \/ \E target \in Target : claim(target)
  \/ Restart

Spec == Init /\ [][Next]_vars

-----------------------------------------------------------------------------
\* Lists hold messages; recorded splices are well formed, and each of them
\* changes something (inbox.ts state, mutate's early return).
TypeOK ==
  /\ lists \in [Target -> Seq(Msg)]
  /\ splices \in Seq([target : Target, start : Nat, removedCount : Nat,
                      inserted : Seq(Msg)])
  /\ Len(splices) <= MaxSplices
  /\ \A i \in DOMAIN splices :
       splices[i].removedCount > 0 \/ splices[i].inserted # <<>>
  /\ {inserted, claimed, discarded} \subseteq [Msg -> Nat]

\* Every prefix of the recorded splices replays without an invalid splice, and
\* the whole replays to the live lists: a restart rebuilds the inbox, wherever
\* persistence stopped (inbox.ts constructor, apply, mutate).
ReplayRebuilds ==
  /\ \A i \in DOMAIN splices :
       IsValid(Replay(SubSeq(splices, 1, i - 1)), splices[i])
  /\ Replay(splices) = lists

\* A consumer that follows a message by its notifications agrees with the lists,
\* in which no identity is twice: each insertion was claimed or discarded since,
\* once, except for that of a message that is pending (inbox.ts mutate, validate).
PendingAsNotified ==
  \A msg \in Msg :
    inserted[msg] =
      claimed[msg] + discarded[msg]
        + Cardinality({msg} \intersect ToSet(lists["next-turn"] \o lists["next-step"]))
=============================================================================
