------------------------- MODULE SessionQueues_proofs -------------------------
(***************************************************************************)
(* Proofs about the two queues that a session keeps beside its log, for    *)
(* every number of messages, splices, flushes, events and failures.        *)
(*                                                                         *)
(* The write path (WriteBehind) carries events from the log to the store   *)
(* and implements DurableQueue: whatever the controller does with its      *)
(* queue, the store holds a prefix of the events, and a flush that         *)
(* resolves covers what was logged before its call.                        *)
(*                                                                         *)
(* The inbox (Inbox) is the other way round, a live projection of what the *)
(* log holds: every prefix of the log, which is what the write path may    *)
(* have stored when the process stops, rebuilds an inbox without a message *)
(* twice.  The replay is a recursive function of the log's length; what it *)
(* returns is found by induction over that length, stated over sets.       *)
(***************************************************************************)
EXTENDS WriteBehind, Inbox, FiniteSetTheorems, SequenceTheorems, TLAPS

-----------------------------------------------------------------------------
(* The inductive invariant of the write path.                              *)

\* The events that have left the controller's queue for good.
Gone == last - Len(pending) - Len(batch)

\* The batch and the queue behind it are the latest events, in order.
QueueAtPlace ==
  /\ Len(pending) + Len(batch) <= last
  /\ \A i \in DOMAIN batch : batch[i] = Gone + i
  /\ \A i \in DOMAIN pending : pending[i] = last - Len(pending) + i
  /\ active # "writing" => batch = <<>>

\* The store holds a prefix of the events.  What left the queue is stored; the
\* seed may be stored and queued.
StoreAtPlace ==
  /\ \A i \in DOMAIN stored : stored[i] = i
  /\ Len(stored) <= last /\ seed <= last
  /\ ready # "ready" => stored = <<>> /\ Gone = 0
  /\ Gone <= Len(stored)

\* A joined flush is behind a barrier, and a barrier behind a ready init.  Whoever
\* is about to look at the queue finds no write in the works.
BarrierAtPlace ==
  /\ \A f \in Flusher : /\ flushes[f].upto <= last
                        /\ flushes[f].at = "joined" => barrier # "none"
  /\ barrier # "none" => ready = "ready"
  /\ barrier \in {"overlapped", "written", "failed"} => active = "none"
  /\ continuing /\ barrier = "none" => active = "none"

WriteInv == WriteTypeOK /\ QueueAtPlace /\ StoreAtPlace /\ BarrierAtPlace

-----------------------------------------------------------------------------
(* The filter.                                                             *)

\* The n events behind the cursor.
Behind(cursor, n) == [k \in 1 .. n |-> cursor + k]

\* Of consecutive events the filter keeps those behind the cursor, in order.
LEMMA FreshIsSuffix ==
  ASSUME NEW events \in Seq(Nat), NEW base \in Nat, NEW cursor \in Nat, base <= cursor,
         \A i \in DOMAIN events : events[i] = base + i,
         NEW n \in Nat,
         n # 0 => cursor + n = base + Len(events),
         n = 0 => base + Len(events) <= cursor
  PROVE  Fresh(events, cursor) = Behind(cursor, n)
<1> DEFINE kept == {i \in DOMAIN events : events[i] > cursor}
           upTo(i) == {j \in kept : j <= i}
<1>0. PICK m \in Nat : /\ m + n = Len(events)
                       /\ n # 0 => m = cursor - base
                       /\ n = 0 => m <= cursor - base
  <2>1. Len(events) \in Nat /\ Len(events) - n \in Nat
    OBVIOUS
  <2> WITNESS Len(events) - n \in Nat
  <2> QED BY <2>1
<1>1. /\ DOMAIN events = 1 .. m + n
      /\ \A i \in 1 .. m + n : events[i] = base + i
  BY <1>0
<1>2. kept = m + 1 .. m + n
  <2>1. CASE n = 0
    BY <1>0, <1>1, <2>1
  <2>2. CASE n # 0
    BY <1>0, <1>1, <2>2
  <2> QED BY <2>1, <2>2
<1>3. Fresh(events, cursor) =
        [k \in 1 .. Cardinality(kept) |->
           events[CHOOSE i \in kept : Cardinality(upTo(i)) = k]]
  BY DEF Fresh
<1> HIDE DEF kept
<1>4. ASSUME NEW i \in m .. m + n
      PROVE  Cardinality(m + 1 .. i) = i - m
  <2>1. i \in Int /\ m + 1 \in Int
    OBVIOUS
  <2>2. Cardinality(m + 1 .. i) = IF m + 1 > i THEN 0 ELSE i - (m + 1) + 1
    BY <2>1, FS_Interval
  <2>3. CASE m + 1 > i
    BY <2>1, <2>2, <2>3
  <2>4. CASE ~(m + 1 > i)
    BY <2>1, <2>2, <2>4
  <2> QED BY <2>3, <2>4
<1>5. Cardinality(kept) = n
  <2>1. m + n \in m .. m + n /\ (m + n) - m = n
    OBVIOUS
  <2> QED BY <1>2, <1>4, <2>1
<1>6. ASSUME NEW i \in kept
      PROVE  Cardinality(upTo(i)) = i - m
  <2>1. i \in m .. m + n /\ upTo(i) = m + 1 .. i
    BY <1>2
  <2> QED BY <1>4, <2>1
<1> HIDE DEF upTo
<1>7. ASSUME NEW k \in 1 .. n
      PROVE  events[CHOOSE i \in kept : Cardinality(upTo(i)) = k] = cursor + k
  <2>1. m + k \in kept /\ m + k \in 1 .. m + n /\ (m + k) - m = k
    BY <1>2
  <2>2. Cardinality(upTo(m + k)) = k
    BY <1>6, <2>1
  <2>3. PICK i \in kept : i = (CHOOSE j \in kept : Cardinality(upTo(j)) = k)
                          /\ Cardinality(upTo(i)) = k
    BY <2>1, <2>2
  <2>4. i - m = k /\ i \in Nat
    BY <1>2, <1>6, <2>3
  <2>5. i = m + k
    BY <2>4
  <2>6. events[m + k] = base + (m + k)
    BY <1>1, <2>1
  <2>7. m = cursor - base
    BY <1>0
  <2>8. base + (m + k) = cursor + k
    BY <2>7
  <2> QED BY <2>3, <2>5, <2>6, <2>8
<1> QED BY <1>3, <1>5, <1>7 DEF Behind

-----------------------------------------------------------------------------
(* What a write and its failure do to the queue.                           *)

\* Events are numbers, whatever holds them.
LEMMA Numbers ==
  ASSUME WriteInv
  PROVE  /\ pending \in Seq(Nat) /\ batch \in Seq(Nat) /\ stored \in Seq(Nat)
         /\ last \in Nat /\ seed \in Nat /\ Gone \in Nat
<1>1. Seq(1 .. MaxEvents) \subseteq Seq(Nat)
  <2>1. 1 .. MaxEvents \subseteq Nat
    BY WriteBehindAssumption
  <2> QED BY <2>1, SeqMonotonic
<1>2. /\ pending \in Seq(Nat) /\ batch \in Seq(Nat) /\ stored \in Seq(Nat)
      /\ last \in Nat /\ seed \in Nat
  BY <1>1, WriteBehindAssumption DEF WriteInv, WriteTypeOK
<1>3. Len(pending) + Len(batch) <= last
  BY DEF WriteInv, QueueAtPlace
<1> QED BY <1>2, <1>3 DEF Gone

\* A write takes the whole queue, and leaves it as a queue of nothing behind the
\* batch.
LEMMA WriteStarts ==
  ASSUME WriteInv, active = "none", NEW detached \in BOOLEAN, startWrite(detached), last' = last
  PROVE  /\ Gone' = Gone /\ QueueAtPlace' /\ active' = "writing"
         /\ pending' \in Seq(1 .. MaxEvents) /\ batch' \in Seq(1 .. MaxEvents)
         /\ timer' = FALSE /\ deadlineExpired' = FALSE /\ background' \in BOOLEAN
<1> USE DEF WriteInv
<1>1. batch = <<>> /\ pending \in Seq(1 .. MaxEvents) /\ last \in Nat
  BY DEF QueueAtPlace, WriteTypeOK
<1>2. batch' = pending /\ pending' = <<>> /\ active' = "writing"
  BY DEF startWrite
<1>3. Len(pending') = 0 /\ Len(batch) = 0 /\ Len(pending) \in Nat
  BY <1>1, <1>2
<1>4. Gone' = Gone
  BY <1>1, <1>2, <1>3 DEF Gone
<1>5. QueueAtPlace'
  BY <1>1, <1>2, <1>3, <1>4 DEF QueueAtPlace, Gone
<1> QED BY <1>1, <1>2, <1>4, <1>5 DEF startWrite

\* Whatever stays as it is, queue and store stay at their place.
LEMMA QueueKept ==
  ASSUME WriteInv, UNCHANGED <<last, pending, batch, active, stored, seed, ready>>
  PROVE  QueueAtPlace' /\ StoreAtPlace'
BY DEF WriteInv, QueueAtPlace, StoreAtPlace, Gone

\* A drain starts a write, or ends the barrier over an empty queue when everything
\* is stored.
LEMMA DrainsEffect ==
  ASSUME WriteInv, active = "none", NEW calls, Drains(calls),
         UNCHANGED <<last, stored, seed, ready>>
  PROVE  /\ QueueAtPlace' /\ StoreAtPlace' /\ active' \in {"none", "writing"}
         /\ pending' \in Seq(1 .. MaxEvents) /\ batch' \in Seq(1 .. MaxEvents)
         /\ timer' \in BOOLEAN /\ deadlineExpired' \in BOOLEAN /\ background' \in BOOLEAN
         /\ \/ barrier' = "own" /\ flushes' = calls
            \/ /\ barrier' = "none" /\ flushes' = Ended(calls, "resolved")
               /\ active' = "none" /\ Len(stored) = last
<1>1. CASE pending # <<>>
  <2>1. startWrite(FALSE) /\ barrier' = "own" /\ flushes' = calls
    BY <1>1 DEF Drains
  <2>2. /\ Gone' = Gone /\ QueueAtPlace' /\ active' = "writing"
        /\ pending' \in Seq(1 .. MaxEvents) /\ batch' \in Seq(1 .. MaxEvents)
        /\ timer' = FALSE /\ deadlineExpired' = FALSE /\ background' \in BOOLEAN
    BY <2>1, WriteStarts
  <2>3. StoreAtPlace'
    BY <2>2 DEF WriteInv, StoreAtPlace
  <2> QED BY <2>1, <2>2, <2>3
<1>2. CASE pending = <<>>
  <2>1. /\ barrier' = "none" /\ flushes' = Ended(calls, "resolved")
        /\ timer' = FALSE /\ deadlineExpired' = FALSE
        /\ UNCHANGED <<pending, active, background, batch>>
    BY <1>2 DEF Drains, write
  <2>2. QueueAtPlace' /\ StoreAtPlace'
    BY <2>1, QueueKept
  <2>3. active' = "none" /\ Len(stored) = last
    <3>1. batch = <<>> /\ last \in Nat /\ Len(stored) \in Nat
      BY DEF WriteInv, QueueAtPlace, WriteTypeOK
    <3>2. Gone = last
      BY <1>2, <3>1 DEF Gone
    <3> QED BY <2>1, <3>1, <3>2 DEF WriteInv, StoreAtPlace
  <2>4. /\ pending' \in Seq(1 .. MaxEvents) /\ batch' \in Seq(1 .. MaxEvents)
        /\ timer' \in BOOLEAN /\ deadlineExpired' \in BOOLEAN /\ background' \in BOOLEAN
    BY <2>1 DEF WriteInv, WriteTypeOK
  <2> QED BY <2>1, <2>2, <2>3, <2>4
<1> QED BY <1>1, <1>2

\* A stored write brings the store to the end of its batch, unless the seed has
\* been there already.
LEMMA WriteSucceedsEffect ==
  ASSUME WriteInv, WriteSucceeds
  PROVE  /\ \A i \in DOMAIN stored' : stored'[i] = i
         /\ stored' \in Seq(Nat)
         /\ Len(stored') = IF Len(stored) < Gone + Len(batch) THEN Gone + Len(batch)
                           ELSE Len(stored)
<1> DEFINE n == IF Len(stored) - Gone < Len(batch)
                THEN Len(batch) - (Len(stored) - Gone) ELSE 0
           tail == Behind(Len(stored), n)
<1>1. /\ batch \in Seq(Nat) /\ stored \in Seq(Nat)
      /\ Len(batch) \in Nat /\ Len(stored) \in Nat /\ Gone \in Nat /\ Gone <= Len(stored)
      /\ \A i \in DOMAIN batch : batch[i] = Gone + i
      /\ \A i \in DOMAIN stored : stored[i] = i
      /\ stored' = stored \o Fresh(batch, Len(stored))
  BY Numbers DEF WriteInv, QueueAtPlace, StoreAtPlace, WriteSucceeds
<1> HIDE DEF Gone
<1>2. n \in Nat /\ n = IF Len(stored) - Gone < Len(batch)
                      THEN Len(batch) - (Len(stored) - Gone) ELSE 0
  BY <1>1
<1> HIDE DEF n
<1>3. Fresh(batch, Len(stored)) = tail
  <2>1. ASSUME NEW base \in Nat, NEW cursor \in Nat, base = Gone, cursor = Len(stored)
        PROVE  Fresh(batch, cursor) = Behind(cursor, n)
    <3>1. /\ batch \in Seq(Nat) /\ n \in Nat
          /\ base <= cursor /\ \A i \in DOMAIN batch : batch[i] = base + i
          /\ n # 0 => cursor + n = base + Len(batch)
          /\ n = 0 => base + Len(batch) <= cursor
      BY <1>1, <1>2, <2>1
    <3> HIDE DEF tail
    <3> QED BY <3>1, FreshIsSuffix, Zenon
  <2> QED BY <1>1, <2>1
<1>4. Len(stored) + n = IF Len(stored) < Gone + Len(batch) THEN Gone + Len(batch)
                        ELSE Len(stored)
  BY <1>1, <1>2
<1>5. tail \in Seq(Nat) /\ Len(tail) = n /\ \A k \in 1 .. n : tail[k] = Len(stored) + k
  BY <1>1, <1>2 DEF Behind
<1> HIDE DEF tail
<1>6. /\ stored \o tail \in Seq(Nat) /\ Len(stored \o tail) = Len(stored) + n
      /\ \A i \in 1 .. Len(stored) + n :
           (stored \o tail)[i] = IF i <= Len(stored) THEN stored[i] ELSE tail[i - Len(stored)]
  <2>1. stored \in Seq(Nat) /\ tail \in Seq(Nat)
    BY <1>1, <1>5
  <2>2. /\ stored \o tail \in Seq(Nat) /\ Len(stored \o tail) = Len(stored) + Len(tail)
        /\ \A i \in 1 .. Len(stored) + Len(tail) :
             (stored \o tail)[i] = IF i <= Len(stored) THEN stored[i] ELSE tail[i - Len(stored)]
    BY <2>1, ConcatProperties, Zenon
  <2> QED BY <1>5, <2>2
<1>7. ASSUME NEW i \in 1 .. Len(stored) + n
      PROVE  (stored \o tail)[i] = i
  <2>1. CASE i <= Len(stored)
    BY <1>1, <1>2, <1>6, <1>7, <2>1
  <2>2. CASE ~(i <= Len(stored))
    <3>1. i - Len(stored) \in 1 .. n
      BY <1>1, <1>2, <1>7, <2>2
    <3>2. tail[i - Len(stored)] = Len(stored) + (i - Len(stored))
      BY <1>5, <3>1
    <3> QED BY <1>1, <1>2, <1>6, <1>7, <2>2, <3>2
  <2> QED BY <2>1, <2>2
<1>8. stored' \in Seq(Nat) /\ Len(stored') = Len(stored) + n
      /\ DOMAIN stored' = 1 .. Len(stored) + n
  BY <1>1, <1>3, <1>6
<1> QED BY <1>1, <1>3, <1>4, <1>7, <1>8
-----------------------------------------------------------------------------
(* The invariant is inductive.                                             *)

FlushCalls ==
  [Flusher -> [at : {"none", "init", "joined", "resolved", "rejected"}, upto : 0 .. MaxEvents]]

\* Every step keeps the types.
LEMMA WriteTypeStep == WriteInv /\ [WriteNext]_writeVars => WriteTypeOK'
<1> SUFFICES ASSUME WriteInv, [WriteNext]_writeVars
             PROVE  WriteTypeOK'
  OBVIOUS
<1>0. WriteTypeOK
  BY DEF WriteInv
<1> USE WriteBehindAssumption
<1>1. CASE enqueue
  <2>1. last' \in 1 .. MaxEvents /\ pending' = Append(pending, last')
    BY <1>0, <1>1 DEF enqueue, WriteTypeOK
  <2>2. pending' \in Seq(1 .. MaxEvents)
    BY <1>0, <2>1 DEF WriteTypeOK
  <2>3. timer' \in BOOLEAN /\ automaticPaused' \in BOOLEAN /\ deadlineExpired' \in BOOLEAN
    BY <1>1 DEF enqueue
  <2> QED BY <1>0, <1>1, <2>1, <2>2, <2>3 DEF enqueue, write, WriteTypeOK
<1>2. CASE onDeadline
  <2>1. CASE active = "none"
    <3>1. startWrite(TRUE)
      BY <1>2, <2>1 DEF onDeadline
    <3>2. /\ active' = "writing" /\ pending' \in Seq(1 .. MaxEvents)
          /\ batch' \in Seq(1 .. MaxEvents)
          /\ timer' = FALSE /\ deadlineExpired' = FALSE /\ background' \in BOOLEAN
      BY <1>2, <2>1, <3>1, WriteStarts DEF onDeadline
    <3>3. UNCHANGED <<automaticPaused, continuing, barrier, ready, seed, stored, last,
                      flushes, failures>>
      BY <1>2, <2>1 DEF onDeadline
    <3> QED BY <1>0, <3>2, <3>3 DEF WriteTypeOK
  <2>2. CASE active # "none"
    BY <1>0, <1>2, <2>2 DEF onDeadline, write, WriteTypeOK
  <2> QED BY <2>1, <2>2
<1>3. CASE WriteSucceeds
  <2>1. /\ \A i \in DOMAIN stored' : stored'[i] = i
        /\ stored' \in Seq(Nat)
        /\ Len(stored') = IF Len(stored) < Gone + Len(batch) THEN Gone + Len(batch)
                          ELSE Len(stored)
    BY <1>3, WriteSucceedsEffect
  <2>2. Len(stored') \in 0 .. MaxEvents
    <3>1. /\ Len(pending) \in Nat /\ Len(batch) \in Nat /\ Len(stored) \in Nat
          /\ last \in 0 .. MaxEvents /\ Len(stored) <= last
          /\ Len(pending) + Len(batch) <= last
      BY <1>0 DEF WriteTypeOK, WriteInv, QueueAtPlace, StoreAtPlace
    <3> QED BY <2>1, <3>1 DEF Gone
  <2>3. stored' \in Seq(1 .. MaxEvents)
    <3>1. \A i \in DOMAIN stored' : stored'[i] \in 1 .. MaxEvents
      BY <2>1, <2>2
    <3> QED BY <2>1, <3>1
  <2>4. batch' \in Seq(1 .. MaxEvents) /\ active' = "written"
    BY <1>3 DEF WriteSucceeds
  <2> QED BY <1>0, <1>3, <2>3, <2>4 DEF WriteSucceeds, fields, WriteTypeOK
<1>4. CASE WriteFails
  <2>1. pending' \in Seq(1 .. MaxEvents)
    BY <1>0, <1>4 DEF WriteFails, WriteTypeOK
  <2>2. failures' \in 0 .. MaxFailures
    BY <1>0, <1>4 DEF WriteFails, WriteTypeOK
  <2>3. batch' \in Seq(1 .. MaxEvents)
    BY <1>4 DEF WriteFails
  <2> QED BY <1>0, <1>4, <2>1, <2>2, <2>3 DEF WriteFails, WriteTypeOK
<1>5. CASE InitSettles
  <2>1. stored' \in Seq(1 .. MaxEvents)
    <3>1. [i \in 1 .. seed |-> i] \in Seq(1 .. MaxEvents)
      <4>1. seed \in Nat /\ \A i \in 1 .. seed : i \in 1 .. MaxEvents
        BY <1>0 DEF WriteTypeOK
      <4> QED BY <4>1
    <3> QED BY <1>0, <1>5, <3>1 DEF InitSettles, WriteTypeOK
  <2> QED BY <1>0, <1>5, <2>1 DEF InitSettles, fields, write, WriteTypeOK
<1>6. CASE WriteEnds
  BY <1>0, <1>6 DEF WriteEnds, fields, WriteTypeOK
<1>7. CASE continueAutomatic
  <2>1. CASE barrier = "none" /\ pending # <<>> /\ deadlineExpired
    <3>1. startWrite(TRUE) /\ active = "none" /\ last' = last
      BY <1>7, <2>1 DEF continueAutomatic, WriteInv, BarrierAtPlace
    <3>2. /\ active' = "writing" /\ pending' \in Seq(1 .. MaxEvents)
          /\ batch' \in Seq(1 .. MaxEvents)
          /\ timer' = FALSE /\ deadlineExpired' = FALSE /\ background' \in BOOLEAN
      BY <3>1, WriteStarts
    <3>3. /\ continuing' = FALSE
          /\ UNCHANGED <<automaticPaused, barrier, ready, seed, stored, last, flushes, failures>>
      BY <1>7, <2>1 DEF continueAutomatic
    <3> QED BY <1>0, <3>2, <3>3 DEF WriteTypeOK
  <2>2. CASE ~(barrier = "none" /\ pending # <<>> /\ deadlineExpired)
    <3>1. /\ continuing' = FALSE
          /\ UNCHANGED <<fields, write, barrier, ready, seed, stored, last, flushes, failures>>
      BY <1>7, <2>2 DEF continueAutomatic
    <3>2. /\ continuing' \in BOOLEAN
          /\ UNCHANGED <<pending, timer, deadlineExpired, automaticPaused, active, background,
                         batch, barrier, ready, seed, stored, last, flushes, failures>>
      BY <3>1 DEF fields, write
    <3> QED BY <1>0, <3>2 DEF WriteTypeOK
  <2> QED BY <2>1, <2>2
<1>a. ASSUME NEW calls \in FlushCalls, NEW outcome \in {"resolved", "rejected"}
      PROVE  Ended(calls, outcome) \in FlushCalls
  BY DEF Ended, FlushCalls
<1>b. ASSUME active = "none", NEW calls \in FlushCalls,
             Drains(calls), automaticPaused' \in BOOLEAN,
             UNCHANGED <<continuing, ready, seed, stored, last, failures>>
      PROVE  WriteTypeOK'
  <2>1. /\ active' \in {"none", "writing"}
        /\ pending' \in Seq(1 .. MaxEvents) /\ batch' \in Seq(1 .. MaxEvents)
        /\ timer' \in BOOLEAN /\ deadlineExpired' \in BOOLEAN /\ background' \in BOOLEAN
        /\ barrier' \in {"none", "own"}
        /\ flushes' = calls \/ flushes' = Ended(calls, "resolved")
    BY <1>b, DrainsEffect
  <2>2. flushes' \in FlushCalls
    BY <1>a, <1>b, <2>1
  <2> QED BY <1>0, <1>b, <2>1, <2>2 DEF WriteTypeOK, FlushCalls
<1>8. CASE BarrierResumes
  <2>1. CASE barrier \in {"overlapped", "written"}
    <3>1. /\ active = "none" /\ Drains(flushes) /\ automaticPaused' \in BOOLEAN
          /\ flushes \in FlushCalls
      BY <1>0, <1>8, <2>1 DEF BarrierResumes, WriteInv, BarrierAtPlace, WriteTypeOK, FlushCalls
    <3> QED BY <1>8, <1>b, <3>1 DEF BarrierResumes
  <2>2. CASE barrier = "failed"
    <3>1. flushes' \in FlushCalls
      BY <1>0, <1>8, <1>a, <2>2 DEF BarrierResumes, WriteTypeOK, FlushCalls
    <3> QED BY <1>0, <1>8, <2>2, <3>1 DEF BarrierResumes, fields, write, WriteTypeOK, FlushCalls
  <2> QED BY <1>8, <2>1, <2>2 DEF BarrierResumes
<1>9. ASSUME NEW f \in Flusher, CallFlush(f)
      PROVE  WriteTypeOK'
  BY <1>0, <1>9 DEF CallFlush, write, WriteTypeOK
<1>10. ASSUME NEW f \in Flusher, FlushRefused(f)
       PROVE  WriteTypeOK'
  BY <1>0, <1>10 DEF FlushRefused, write, WriteTypeOK
<1>11. ASSUME NEW f \in Flusher, FlushJoins(f)
       PROVE  WriteTypeOK'
  <2> DEFINE calls == [flushes EXCEPT ![f].at = "joined"]
  <2>1. calls \in FlushCalls
    BY <1>0 DEF WriteTypeOK, FlushCalls
  <2>2. CASE barrier # "none"
    <3>1. /\ flushes' = calls
          /\ UNCHANGED <<fields, write, barrier, continuing, ready, seed, stored, last, failures>>
      BY <1>11, <2>2 DEF FlushJoins
    <3> HIDE DEF calls
    <3> QED BY <1>0, <2>1, <3>1 DEF fields, write, WriteTypeOK, FlushCalls
  <2>3. CASE barrier = "none" /\ active # "none"
    BY <1>0, <1>11, <2>1, <2>3 DEF FlushJoins, write, WriteTypeOK, FlushCalls
  <2>4. CASE barrier = "none" /\ active = "none"
    <3>1. Drains(calls) /\ automaticPaused' \in BOOLEAN
          /\ UNCHANGED <<continuing, ready, seed, stored, last, failures>>
      BY <1>11, <2>4 DEF FlushJoins
    <3> HIDE DEF calls
    <3> QED BY <1>b, <2>1, <2>4, <3>1
  <2> QED BY <2>2, <2>3, <2>4
<1>12. CASE UNCHANGED writeVars
  BY <1>0, <1>12 DEF writeVars, fields, write, WriteTypeOK
<1> QED BY <1>1, <1>2, <1>3, <1>4, <1>5, <1>6, <1>7, <1>8, <1>9, <1>10, <1>11, <1>12
        DEF WriteNext, FlushResumes

\* Every step keeps the queue and the store in order.
LEMMA QueueStep == WriteInv /\ [WriteNext]_writeVars => QueueAtPlace' /\ StoreAtPlace'
<1> SUFFICES ASSUME WriteInv, [WriteNext]_writeVars
             PROVE  QueueAtPlace' /\ StoreAtPlace'
  OBVIOUS
<1>0. /\ pending \in Seq(Nat) /\ batch \in Seq(Nat) /\ stored \in Seq(Nat)
      /\ last \in Nat /\ seed \in Nat /\ Gone \in Nat
      /\ active # "writing" => batch = <<>>
  BY Numbers DEF WriteInv, QueueAtPlace
<1>1. CASE enqueue
  <2>1. /\ last' = last + 1 /\ pending' = Append(pending, last + 1)
        /\ UNCHANGED <<batch, active, stored, seed, ready>>
    BY <1>1 DEF enqueue, write
  <2>2. Len(pending') = Len(pending) + 1 /\ Gone' = Gone
    BY <1>0, <2>1 DEF Gone
  <2>3. QueueAtPlace'
    <3>1. ASSUME NEW i \in DOMAIN pending'
          PROVE  pending'[i] = last' - Len(pending') + i
      <4>1. i \in 1 .. Len(pending) + 1
        BY <1>0, <2>1
      <4>2. CASE i = Len(pending) + 1
        BY <1>0, <2>1, <2>2, <4>2
      <4>3. CASE i \in 1 .. Len(pending)
        BY <1>0, <2>1, <2>2, <4>3 DEF WriteInv, QueueAtPlace
      <4> QED BY <1>0, <4>1, <4>2, <4>3
    <3> QED BY <1>0, <2>1, <2>2, <3>1 DEF WriteInv, QueueAtPlace
  <2>4. StoreAtPlace'
    BY <1>0, <2>1, <2>2 DEF WriteInv, StoreAtPlace
  <2> QED BY <2>3, <2>4
<1>2. CASE onDeadline
  <2>1. CASE active = "none"
    <3>1. startWrite(TRUE) /\ UNCHANGED <<last, stored, seed, ready>>
      BY <1>2, <2>1 DEF onDeadline
    <3>2. Gone' = Gone /\ QueueAtPlace'
      BY <2>1, <3>1, WriteStarts
    <3> QED BY <3>1, <3>2 DEF WriteInv, StoreAtPlace
  <2>2. CASE active # "none"
    BY <1>2, <2>2, QueueKept DEF onDeadline, write
  <2> QED BY <2>1, <2>2
<1>3. CASE WriteSucceeds
  <2>1. /\ batch' = <<>> /\ active' = "written" /\ ready = "ready"
        /\ UNCHANGED <<last, pending, seed, ready>>
    BY <1>3 DEF WriteSucceeds, fields
  <2>2. Len(batch') = 0 /\ Gone' = Gone + Len(batch) /\ Gone' <= last' /\ Gone' \in Nat
    BY <1>0, <2>1 DEF Gone, WriteInv, QueueAtPlace
  <2>3. QueueAtPlace'
    BY <1>0, <2>1, <2>2 DEF WriteInv, QueueAtPlace
  <2>4. /\ \A i \in DOMAIN stored' : stored'[i] = i
        /\ Len(stored') = IF Len(stored) < Gone + Len(batch) THEN Gone + Len(batch)
                          ELSE Len(stored)
    BY <1>3, WriteSucceedsEffect
  <2>5. StoreAtPlace'
    BY <1>0, <2>1, <2>2, <2>4 DEF WriteInv, StoreAtPlace
  <2> QED BY <2>3, <2>5
<1>4. CASE WriteFails
  <2>1. /\ pending' = batch \o pending /\ batch' = <<>> /\ active' = "failed"
        /\ UNCHANGED <<last, stored, seed, ready>>
    BY <1>4 DEF WriteFails
  <2>2. Len(pending') = Len(batch) + Len(pending) /\ Len(batch') = 0 /\ Gone' = Gone
    BY <1>0, <2>1 DEF Gone
  <2>3. ASSUME NEW i \in DOMAIN pending'
        PROVE  pending'[i] = last - Len(pending') + i
    <3>1. CASE i \in 1 .. Len(batch)
      <4>1. pending'[i] = batch[i] /\ i \in DOMAIN batch
        BY <1>0, <2>1, <3>1
      <4>2. batch[i] = Gone + i
        BY <4>1 DEF WriteInv, QueueAtPlace
      <4> QED BY <1>0, <2>2, <4>1, <4>2 DEF Gone
    <3>2. CASE i \notin 1 .. Len(batch)
      <4>1. pending'[i] = pending[i - Len(batch)] /\ i - Len(batch) \in DOMAIN pending
            /\ i \in Nat
        BY <1>0, <2>1, <2>2, <3>2
      <4>2. pending[i - Len(batch)] = last - Len(pending) + (i - Len(batch))
        BY <4>1 DEF WriteInv, QueueAtPlace
      <4> QED BY <1>0, <2>2, <4>1, <4>2
    <3> QED BY <3>1, <3>2
  <2>4. QueueAtPlace'
    BY <1>0, <2>1, <2>2, <2>3 DEF WriteInv, QueueAtPlace
  <2>5. StoreAtPlace'
    BY <2>1, <2>2 DEF WriteInv, StoreAtPlace
  <2> QED BY <2>4, <2>5
<1>5. CASE InitSettles
  <2>1. UNCHANGED <<last, pending, batch, active, seed>> /\ Gone' = Gone /\ ready = "pending"
    BY <1>5 DEF InitSettles, fields, write, Gone
  <2>2. QueueAtPlace'
    BY <2>1 DEF WriteInv, QueueAtPlace
  <2>3. stored = <<>> /\ Gone = 0 /\ seed <= last
    BY <2>1 DEF WriteInv, StoreAtPlace
  <2>4. CASE ready' = "ready" /\ stored' = [i \in 1 .. seed |-> i]
    <3>1. Len(stored') = seed /\ \A i \in DOMAIN stored' : stored'[i] = i
      BY <1>0, <2>4
    <3>2. Gone' = 0 /\ seed' = seed /\ last' = last /\ ready' = "ready"
      BY <2>1, <2>3, <2>4
    <3>3. Gone' <= Len(stored') /\ Len(stored') <= last' /\ seed' <= last'
      BY <1>0, <2>3, <3>1, <3>2
    <3> QED BY <1>0, <2>2, <3>1, <3>2, <3>3 DEF StoreAtPlace
  <2>5. CASE ready' = "failed" /\ stored' = stored
    <3>1. Gone' = 0 /\ seed' = seed /\ last' = last /\ stored' = <<>>
      BY <2>1, <2>3, <2>5
    <3>2. Len(stored') = 0 /\ DOMAIN stored' = {}
      BY <3>1
    <3>3. Gone' <= Len(stored') /\ Len(stored') <= last' /\ seed' <= last'
      BY <1>0, <2>3, <3>1, <3>2
    <3> QED BY <1>0, <2>2, <3>1, <3>2, <3>3 DEF StoreAtPlace
  <2> QED BY <1>5, <2>2, <2>4, <2>5 DEF InitSettles
<1>6. CASE WriteEnds
  <2>1. active' = "none" /\ batch = <<>> /\ UNCHANGED <<last, pending, batch, stored, seed, ready>>
    BY <1>0, <1>6 DEF WriteEnds, fields
  <2> QED BY <2>1 DEF WriteInv, QueueAtPlace, StoreAtPlace, Gone
<1>7. CASE continueAutomatic
  <2>1. CASE barrier = "none" /\ pending # <<>> /\ deadlineExpired
    <3>1. startWrite(TRUE) /\ active = "none" /\ UNCHANGED <<last, stored, seed, ready>>
      BY <1>7, <2>1 DEF continueAutomatic, WriteInv, BarrierAtPlace
    <3>2. Gone' = Gone /\ QueueAtPlace'
      BY <3>1, WriteStarts
    <3> QED BY <3>1, <3>2 DEF WriteInv, StoreAtPlace
  <2>2. CASE ~(barrier = "none" /\ pending # <<>> /\ deadlineExpired)
    BY <1>7, <2>2, QueueKept DEF continueAutomatic, fields, write
  <2> QED BY <2>1, <2>2
<1>8. CASE BarrierResumes
  <2>1. CASE barrier \in {"overlapped", "written"}
    <3>1. active = "none" /\ Drains(flushes) /\ UNCHANGED <<last, stored, seed, ready>>
      BY <1>8, <2>1 DEF BarrierResumes, WriteInv, BarrierAtPlace
    <3> QED BY <3>1, DrainsEffect
  <2>2. CASE barrier = "failed"
    BY <1>8, <2>2, QueueKept DEF BarrierResumes, fields, write
  <2> QED BY <1>8, <2>1, <2>2 DEF BarrierResumes
<1>9. ASSUME NEW f \in Flusher, CallFlush(f) \/ FlushRefused(f)
      PROVE  QueueAtPlace' /\ StoreAtPlace'
  BY <1>9, QueueKept DEF CallFlush, FlushRefused, write
<1>10. ASSUME NEW f \in Flusher, FlushJoins(f)
       PROVE  QueueAtPlace' /\ StoreAtPlace'
  <2> DEFINE calls == [flushes EXCEPT ![f].at = "joined"]
  <2>1. CASE barrier # "none" \/ active # "none"
    BY <1>10, <2>1, QueueKept DEF FlushJoins, fields, write
  <2>2. CASE barrier = "none" /\ active = "none"
    <3>1. Drains(calls) /\ UNCHANGED <<last, stored, seed, ready>>
      BY <1>10, <2>2 DEF FlushJoins
    <3> HIDE DEF calls
    <3> QED BY <2>2, <3>1, DrainsEffect
  <2> QED BY <2>1, <2>2
<1>11. CASE UNCHANGED writeVars
  BY <1>11, QueueKept DEF writeVars, fields, write
<1> QED BY <1>1, <1>2, <1>3, <1>4, <1>5, <1>6, <1>7, <1>8, <1>9, <1>10, <1>11
        DEF WriteNext, FlushResumes
\* Every step keeps flushes, barrier and write apart.
LEMMA BarrierStep == WriteInv /\ [WriteNext]_writeVars => BarrierAtPlace'
<1> SUFFICES ASSUME WriteInv, [WriteNext]_writeVars
             PROVE  BarrierAtPlace'
  OBVIOUS
<1>0. last \in Nat /\ flushes \in FlushCalls /\ BarrierAtPlace
  BY WriteBehindAssumption DEF WriteInv, WriteTypeOK, FlushCalls
<1>1. CASE enqueue
  <2>1. \A f \in Flusher : flushes[f].upto \in Nat
    BY <1>0, WriteBehindAssumption DEF FlushCalls
  <2> QED BY <1>0, <1>1, <2>1 DEF enqueue, write, BarrierAtPlace
<1>2. CASE onDeadline
  <2>1. UNCHANGED <<flushes, last, barrier, ready, continuing>> /\ ~continuing
        /\ barrier \notin {"overlapped", "written", "failed"}
    BY <1>2 DEF onDeadline, Drained
  <2> QED BY <1>0, <2>1 DEF BarrierAtPlace
<1>3. CASE WriteSucceeds \/ WriteFails
  BY <1>0, <1>3 DEF WriteSucceeds, WriteFails, BarrierAtPlace
<1>4. CASE InitSettles
  BY <1>0, <1>4 DEF InitSettles, write, BarrierAtPlace
<1>5. CASE WriteEnds
  <2>1. /\ active' = "none" /\ UNCHANGED <<flushes, last, ready>>
        /\ barrier' = "none" <=> barrier = "none"
    BY <1>5 DEF WriteEnds, WriteInv, WriteTypeOK
  <2> QED BY <1>0, <2>1 DEF BarrierAtPlace
<1>6. CASE continueAutomatic
  <2>1. UNCHANGED <<flushes, last, barrier, ready>> /\ ~continuing'
    BY <1>6 DEF continueAutomatic
  <2>2. barrier \in {"overlapped", "written", "failed"} => active' = active
    BY <1>6 DEF continueAutomatic, write
  <2> QED BY <1>0, <2>1, <2>2 DEF BarrierAtPlace
<1>7. ASSUME NEW calls \in FlushCalls, \A f \in Flusher : calls[f].upto <= last,
             active = "none", ready = "ready", Drains(calls),
             UNCHANGED <<continuing, ready, seed, stored, last>>
      PROVE  BarrierAtPlace'
  <2>1. \/ barrier' = "own" /\ flushes' = calls
        \/ barrier' = "none" /\ flushes' = Ended(calls, "resolved") /\ active' = "none"
    BY <1>7, DrainsEffect
  <2>2. \A f \in Flusher : /\ Ended(calls, "resolved")[f].upto = calls[f].upto
                           /\ Ended(calls, "resolved")[f].at # "joined"
    BY <1>7 DEF Ended, FlushCalls
  <2> QED BY <1>7, <2>1, <2>2 DEF BarrierAtPlace
<1>8. CASE BarrierResumes
  <2>1. CASE barrier \in {"overlapped", "written"}
    <3>1. active = "none" /\ ready = "ready" /\ Drains(flushes)
          /\ UNCHANGED <<continuing, ready, seed, stored, last>>
      BY <1>0, <1>8, <2>1 DEF BarrierResumes, BarrierAtPlace
    <3> QED BY <1>0, <1>7, <3>1 DEF BarrierAtPlace
  <2>2. CASE barrier = "failed"
    <3>1. barrier' = "none" /\ flushes' = Ended(flushes, "rejected") /\ active' = "none"
          /\ UNCHANGED <<continuing, ready, last>>
      BY <1>0, <1>8, <2>2 DEF BarrierResumes, write, BarrierAtPlace
    <3>2. \A f \in Flusher : /\ Ended(flushes, "rejected")[f].upto = flushes[f].upto
                             /\ Ended(flushes, "rejected")[f].at # "joined"
      BY <1>0 DEF Ended, FlushCalls
    <3> QED BY <1>0, <3>1, <3>2 DEF BarrierAtPlace
  <2> QED BY <1>8, <2>1, <2>2 DEF BarrierResumes
<1>9. ASSUME NEW f \in Flusher, CallFlush(f) \/ FlushRefused(f)
      PROVE  BarrierAtPlace'
  <2>1. UNCHANGED <<active, barrier, ready, continuing, last>>
    BY <1>9 DEF CallFlush, FlushRefused, write
  <2>2. \A g \in Flusher : /\ flushes'[g].upto <= last
                           /\ flushes'[g].at = "joined" => flushes[g].at = "joined"
    BY <1>0, <1>9 DEF CallFlush, FlushRefused, BarrierAtPlace, FlushCalls
  <2> QED BY <1>0, <2>1, <2>2 DEF BarrierAtPlace
<1>10. ASSUME NEW f \in Flusher, FlushJoins(f)
       PROVE  BarrierAtPlace'
  <2> DEFINE calls == [flushes EXCEPT ![f].at = "joined"]
  <2>1. calls \in FlushCalls
    BY <1>0 DEF FlushCalls
  <2>2. \A g \in Flusher : calls[g].upto = flushes[g].upto
    BY <1>0 DEF FlushCalls
  <2>3. \A g \in Flusher : calls[g].upto <= last
    BY <1>0, <2>2 DEF BarrierAtPlace
  <2>4. ready = "ready" /\ UNCHANGED <<continuing, ready, seed, stored, last>>
    BY <1>10 DEF FlushJoins
  <2>5. CASE barrier # "none"
    <3>1. flushes' = calls /\ UNCHANGED <<active, barrier>>
      BY <1>10, <2>5 DEF FlushJoins, write
    <3> HIDE DEF calls
    <3> QED BY <1>0, <2>3, <2>4, <2>5, <3>1 DEF BarrierAtPlace
  <2>6. CASE barrier = "none" /\ active # "none"
    <3>1. flushes' = calls /\ barrier' = "overlap" /\ active' = active
      BY <1>10, <2>6 DEF FlushJoins, write
    <3> HIDE DEF calls
    <3> QED BY <1>0, <2>3, <2>4, <2>6, <3>1 DEF BarrierAtPlace
  <2>7. CASE barrier = "none" /\ active = "none"
    <3>1. Drains(calls)
      BY <1>10, <2>7 DEF FlushJoins
    <3> HIDE DEF calls
    <3> QED BY <1>7, <2>1, <2>3, <2>4, <2>7, <3>1
  <2> QED BY <2>5, <2>6, <2>7
<1>11. CASE UNCHANGED writeVars
  BY <1>0, <1>11 DEF writeVars, write, BarrierAtPlace
<1> QED BY <1>1, <1>2, <1>3, <1>4, <1>5, <1>6, <1>8, <1>9, <1>10, <1>11
        DEF WriteNext, FlushResumes

\* A new controller's queue is the event that made it, if any.
LEMMA WriteInvInit == WriteInit => WriteInv
<1> SUFFICES ASSUME WriteInit
             PROVE  WriteInv
  OBVIOUS
<1> USE WriteBehindAssumption
<1>1. last \in {0, 1} /\ pending = [i \in 1 .. last |-> i] /\ batch = <<>> /\ stored = <<>>
      /\ seed = last
  BY DEF WriteInit
<1>2. /\ pending \in Seq(1 .. MaxEvents) /\ Len(pending) = last
      /\ \A i \in DOMAIN pending : pending[i] = i
  <2>1. last \in Nat /\ \A i \in 1 .. last : i \in 1 .. MaxEvents
    BY <1>1
  <2> QED BY <1>1, <2>1
<1>3. Len(batch) = 0 /\ DOMAIN batch = {} /\ Len(stored) = 0 /\ DOMAIN stored = {}
      /\ Gone = 0
  BY <1>1, <1>2 DEF Gone
<1>4. WriteTypeOK
  <2>1. /\ last \in 0 .. MaxEvents /\ seed \in {0, 1} /\ failures \in 0 .. MaxFailures
        /\ pending \in Seq(1 .. MaxEvents) /\ batch \in Seq(1 .. MaxEvents)
        /\ stored \in Seq(1 .. MaxEvents)
    BY <1>1, <1>2 DEF WriteInit
  <2>2. /\ timer \in BOOLEAN /\ deadlineExpired \in BOOLEAN /\ automaticPaused \in BOOLEAN
        /\ background \in BOOLEAN /\ continuing \in BOOLEAN
        /\ active = "none" /\ barrier = "none" /\ ready = "pending"
    BY DEF WriteInit
  <2>3. flushes \in FlushCalls
    BY DEF WriteInit, FlushCalls
  <2> QED BY <2>1, <2>2, <2>3 DEF WriteTypeOK, FlushCalls
<1>5. QueueAtPlace
  BY <1>1, <1>2, <1>3 DEF QueueAtPlace
<1>6. StoreAtPlace
  BY <1>1, <1>3 DEF StoreAtPlace, WriteInit
<1>7. BarrierAtPlace
  BY <1>1 DEF BarrierAtPlace, WriteInit
<1> QED BY <1>4, <1>5, <1>6, <1>7 DEF WriteInv
-----------------------------------------------------------------------------
(* The refinement.                                                         *)

\* What a caller sees of its flush.
View(calls) ==
  [f \in Flusher |->
    [at |-> IF calls[f].at \in {"init", "joined"} THEN "waiting" ELSE calls[f].at,
     upto |-> calls[f].upto]]

\* The step is one that DurableQueue allows.
QueueStepOK == [Queue!QueueNext]_(Queue!queueVars)

\* A caller cannot tell a flush that joins from one that still waits for the init.
LEMMA JoiningIsUnseen ==
  ASSUME flushes \in FlushCalls, NEW f \in Flusher, flushes[f].at = "init"
  PROVE  View([flushes EXCEPT ![f].at = "joined"]) = View(flushes)
<1> DEFINE calls == [flushes EXCEPT ![f].at = "joined"]
<1>1. \A g \in Flusher : /\ calls[g].upto = flushes[g].upto
                         /\ calls[g].at = IF g = f THEN "joined" ELSE flushes[g].at
  BY DEF FlushCalls
<1> HIDE DEF calls
<1>2. \A g \in Flusher :
        (IF calls[g].at \in {"init", "joined"} THEN "waiting" ELSE calls[g].at) =
        (IF flushes[g].at \in {"init", "joined"} THEN "waiting" ELSE flushes[g].at)
  BY <1>1
<1>3. View(calls) = View(flushes)
  BY <1>1, <1>2 DEF View
<1> QED BY <1>3 DEF calls

\* The flushes that end together leave the queue's callers in one step.
LEMMA FlushesEnd ==
  ASSUME NEW calls \in FlushCalls, View(calls) = View(flushes),
         NEW ended \in SUBSET Flusher, NEW outcome \in {"resolved", "rejected"},
         flushes' = [f \in Flusher |-> IF f \in ended THEN [calls[f] EXCEPT !.at = outcome]
                                       ELSE calls[f]],
         \A f \in ended : calls[f].at \in {"init", "joined"},
         outcome = "resolved" => \A f \in ended : calls[f].upto <= Len(stored),
         UNCHANGED <<last, stored>>
  PROVE  QueueStepOK
<1>1. \A f \in Flusher :
        /\ flushes'[f].upto = calls[f].upto
        /\ flushes'[f].at = IF f \in ended THEN outcome ELSE calls[f].at
  BY DEF FlushCalls
<1>2. \A f \in Flusher :
        View(flushes')[f] = IF f \in ended THEN [View(calls)[f] EXCEPT !.at = outcome]
                            ELSE View(calls)[f]
  BY <1>1 DEF View
<1>3. View(flushes') = [f \in Flusher |-> IF f \in ended
                                          THEN [View(flushes)[f] EXCEPT !.at = outcome]
                                          ELSE View(flushes)[f]]
  <2>1. View(flushes') = [f \in Flusher |-> View(flushes')[f]]
    BY DEF View
  <2> QED BY <1>2, <2>1
<1>4. \A f \in ended : View(flushes)[f].at = "waiting" /\ View(flushes)[f].upto = calls[f].upto
  <2>1. \A f \in ended : View(calls)[f].at = "waiting" /\ View(calls)[f].upto = calls[f].upto
    BY DEF View
  <2> QED BY <2>1
<1>5. Queue!Ends(ended, outcome)
  BY <1>3 DEF Queue!Ends, View
<1>6. ended \in SUBSET Queue!Waiting
  BY <1>4 DEF Queue!Waiting, View
<1>7. CASE outcome = "resolved"
  <2>1. \A f \in ended : View(flushes)[f].upto <= Len(stored)
    BY <1>4, <1>7
  <2>2. Queue!Resolve
    BY <1>5, <1>6, <1>7, <2>1 DEF Queue!Resolve, View
  <2> QED BY <2>2 DEF QueueStepOK, Queue!QueueNext
<1>8. CASE outcome = "rejected"
  <2>1. Queue!Reject
    BY <1>5, <1>6, <1>8 DEF Queue!Reject
  <2> QED BY <2>1 DEF QueueStepOK, Queue!QueueNext
<1> QED BY <1>7, <1>8

\* A step that a caller cannot see.
LEMMA Unseen ==
  ASSUME UNCHANGED <<last, stored>>, View(flushes') = View(flushes)
  PROVE  QueueStepOK
BY DEF QueueStepOK, Queue!queueVars, View

\* A store that holds a longer prefix than before.
LEMMA StoreGrows ==
  ASSUME UNCHANGED <<last, flushes>>, last \in Nat,
         stored \in Seq(Nat), \A i \in DOMAIN stored : stored[i] = i,
         stored' \in Seq(Nat), \A i \in DOMAIN stored' : stored'[i] = i,
         Len(stored) <= Len(stored'), Len(stored') <= last
  PROVE  QueueStepOK
<1>1. stored = Queue!Prefix(Len(stored)) /\ stored' = Queue!Prefix(Len(stored'))
  BY DEF Queue!Prefix
<1>2. CASE Len(stored') = Len(stored)
  <2>1. stored' = stored
    BY <1>1, <1>2
  <2> QED BY <2>1, Unseen
<1>3. CASE Len(stored') # Len(stored)
  <2>1. Len(stored') \in Len(stored) + 1 .. last
    BY <1>3
  <2>2. Queue!Persist
    BY <1>1, <2>1 DEF Queue!Persist
  <2> QED BY <2>2 DEF QueueStepOK, Queue!QueueNext
<1> QED BY <1>2, <1>3
\* The flushes behind a barrier end with it: well when the queue is empty.
LEMMA BarrierEnds ==
  ASSUME WriteInv, NEW calls \in FlushCalls, View(calls) = View(flushes),
         \A f \in Flusher : calls[f].upto <= last,
         NEW outcome \in {"resolved", "rejected"}, flushes' = Ended(calls, outcome),
         outcome = "resolved" => Len(stored) = last, UNCHANGED <<last, stored>>
  PROVE  QueueStepOK
<1> DEFINE ended == {f \in Flusher : calls[f].at = "joined"}
<1>1. flushes' = [f \in Flusher |-> IF f \in ended THEN [calls[f] EXCEPT !.at = outcome]
                                    ELSE calls[f]]
  BY DEF Ended
<1>2. /\ ended \in SUBSET Flusher /\ \A f \in ended : calls[f].at \in {"init", "joined"}
      /\ outcome = "resolved" => \A f \in ended : calls[f].upto <= Len(stored)
  OBVIOUS
<1> HIDE DEF ended
<1> QED BY <1>1, <1>2, FlushesEnd

\* A drain starts a write, which nobody sees, or ends the barrier.
LEMMA DrainIsAllowed ==
  ASSUME WriteInv, active = "none", NEW calls \in FlushCalls, View(calls) = View(flushes),
         \A f \in Flusher : calls[f].upto <= last,
         Drains(calls), UNCHANGED <<last, stored, seed, ready>>
  PROVE  QueueStepOK
<1>1. \/ flushes' = calls
      \/ flushes' = Ended(calls, "resolved") /\ Len(stored) = last
  BY DrainsEffect
<1>2. CASE flushes' = calls
  <2>1. View(flushes') = View(flushes)
    BY <1>2
  <2> QED BY <2>1, Unseen
<1>3. CASE flushes' = Ended(calls, "resolved") /\ Len(stored) = last
  BY <1>3, BarrierEnds
<1> QED BY <1>1, <1>2, <1>3

\* Every step of the write path is one that DurableQueue allows, or is unseen.
LEMMA WriteIsAllowed == WriteInv /\ [WriteNext]_writeVars => QueueStepOK
<1> SUFFICES ASSUME WriteInv, [WriteNext]_writeVars
             PROVE  QueueStepOK
  OBVIOUS
<1>0. /\ last \in Nat /\ flushes \in FlushCalls /\ stored \in Seq(Nat)
      /\ \A f \in Flusher : flushes[f].upto <= last
      /\ \A i \in DOMAIN stored : stored[i] = i
  BY Numbers DEF WriteInv, WriteTypeOK, FlushCalls, BarrierAtPlace, StoreAtPlace
<1>1. CASE enqueue
  <2>1. last' = last + 1 /\ UNCHANGED <<stored, flushes>>
    BY <1>1 DEF enqueue
  <2>2. Queue!Accept
    BY <2>1 DEF Queue!Accept
  <2> QED BY <2>2 DEF QueueStepOK, Queue!QueueNext
<1>2. CASE WriteSucceeds
  <2>1. /\ \A i \in DOMAIN stored' : stored'[i] = i
        /\ stored' \in Seq(Nat)
        /\ Len(stored') = IF Len(stored) < Gone + Len(batch) THEN Gone + Len(batch)
                          ELSE Len(stored)
    BY <1>2, WriteSucceedsEffect
  <2>2. UNCHANGED <<last, flushes>>
    BY <1>2 DEF WriteSucceeds
  <2>3. Len(stored) <= Len(stored') /\ Len(stored') <= last
    <3>1. Len(stored) <= last /\ Gone \in Nat /\ Len(batch) \in Nat /\ Len(stored) \in Nat
      BY <1>0, Numbers DEF WriteInv, StoreAtPlace
    <3>2. Gone + Len(batch) <= last
      BY Numbers DEF Gone
    <3> HIDE DEF Gone
    <3> QED BY <1>0, <2>1, <3>1, <3>2
  <2> QED BY <1>0, <2>1, <2>2, <2>3, StoreGrows
<1>3. CASE InitSettles
  <2>1. UNCHANGED <<last, flushes>> /\ stored = <<>> /\ seed \in Nat /\ seed <= last
    BY <1>3, Numbers DEF InitSettles, WriteInv, StoreAtPlace
  <2>2. CASE stored' = [i \in 1 .. seed |-> i]
    <3>1. /\ stored' \in Seq(Nat) /\ \A i \in DOMAIN stored' : stored'[i] = i
          /\ Len(stored') = seed /\ Len(stored) = 0
      BY <2>1, <2>2
    <3>2. Len(stored) <= Len(stored') /\ Len(stored') <= last
      BY <2>1, <3>1
    <3> QED BY <1>0, <2>1, <3>1, <3>2, StoreGrows
  <2>3. CASE stored' = stored
    BY <2>1, <2>3, Unseen
  <2> QED BY <1>3, <2>2, <2>3 DEF InitSettles
<1>4. ASSUME NEW f \in Flusher, CallFlush(f)
      PROVE  QueueStepOK
  <2>1. /\ flushes[f].at \notin {"init", "joined"}
        /\ flushes' = [flushes EXCEPT ![f] = [at |-> "init", upto |-> last]]
        /\ UNCHANGED <<last, stored>>
    BY <1>4 DEF CallFlush
  <2>2. View(flushes') = [View(flushes) EXCEPT ![f] = [at |-> "waiting", upto |-> last]]
    <3>1. \A g \in Flusher : flushes'[g] = IF g = f THEN [at |-> "init", upto |-> last]
                                           ELSE flushes[g]
      BY <1>0, <2>1 DEF FlushCalls
    <3>2. \A g \in Flusher :
            View(flushes')[g] = IF g = f THEN [at |-> "waiting", upto |-> last]
                                ELSE View(flushes)[g]
      BY <3>1 DEF View
    <3>3. /\ View(flushes') = [g \in Flusher |-> View(flushes')[g]]
          /\ View(flushes) = [g \in Flusher |-> View(flushes)[g]]
      BY DEF View
    <3> QED BY <3>2, <3>3
  <2>3. View(flushes)[f].at # "waiting"
    BY <1>0, <2>1 DEF View, FlushCalls
  <2>4. Queue!Ask(f)
    BY <2>1, <2>2, <2>3 DEF Queue!Ask, View
  <2> QED BY <2>4 DEF QueueStepOK, Queue!QueueNext
<1>5. ASSUME NEW f \in Flusher, FlushRefused(f)
      PROVE  QueueStepOK
  <2>1. /\ flushes[f].at = "init" /\ UNCHANGED <<last, stored>>
        /\ flushes' = [flushes EXCEPT ![f].at = "rejected"]
    BY <1>5 DEF FlushRefused
  <2>2. flushes' = [g \in Flusher |-> IF g \in {f} THEN [flushes[g] EXCEPT !.at = "rejected"]
                                      ELSE flushes[g]]
    BY <1>0, <2>1 DEF FlushCalls
  <2>3. {f} \in SUBSET Flusher /\ \A g \in {f} : flushes[g].at \in {"init", "joined"}
    BY <2>1
  <2>4. ASSUME NEW ended \in SUBSET Flusher, ended = {f}
        PROVE  QueueStepOK
    BY <1>0, <2>1, <2>2, <2>3, <2>4, FlushesEnd
  <2> QED BY <2>3, <2>4
<1>6. ASSUME NEW f \in Flusher, FlushJoins(f)
      PROVE  QueueStepOK
  <2> DEFINE calls == [flushes EXCEPT ![f].at = "joined"]
  <2>1. flushes[f].at = "init" /\ UNCHANGED <<last, stored, seed, ready>>
    BY <1>6 DEF FlushJoins
  <2>2. View(calls) = View(flushes)
    BY <1>0, <2>1, JoiningIsUnseen
  <2>3. calls \in FlushCalls /\ \A g \in Flusher : calls[g].upto <= last
    BY <1>0 DEF FlushCalls
  <2>4. CASE barrier # "none" \/ active # "none"
    <3>1. flushes' = calls
      BY <1>6, <2>4 DEF FlushJoins
    <3>2. View(flushes') = View(flushes)
      BY <2>2, <3>1
    <3> QED BY <2>1, <3>2, Unseen
  <2>5. CASE barrier = "none" /\ active = "none"
    <3>1. Drains(calls)
      BY <1>6, <2>5 DEF FlushJoins
    <3> HIDE DEF calls
    <3> QED BY <2>1, <2>2, <2>3, <2>5, <3>1, DrainIsAllowed
  <2> QED BY <2>4, <2>5
<1>7. CASE BarrierResumes
  <2>1. UNCHANGED <<last, stored, seed, ready>>
    BY <1>7 DEF BarrierResumes
  <2>2. CASE barrier \in {"overlapped", "written"}
    <3>1. active = "none" /\ Drains(flushes)
      BY <1>7, <2>2 DEF BarrierResumes, WriteInv, BarrierAtPlace
    <3> QED BY <1>0, <2>1, <3>1, DrainIsAllowed
  <2>3. CASE barrier = "failed"
    <3>1. flushes' = Ended(flushes, "rejected")
      BY <1>7, <2>3 DEF BarrierResumes
    <3> QED BY <1>0, <2>1, <3>1, BarrierEnds
  <2> QED BY <1>7, <2>2, <2>3 DEF BarrierResumes
<1>8. CASE \/ onDeadline \/ WriteFails \/ WriteEnds \/ continueAutomatic
           \/ UNCHANGED writeVars
  <2>1. UNCHANGED <<last, stored, flushes>>
    BY <1>8 DEF onDeadline, WriteFails, WriteEnds, continueAutomatic, writeVars
  <2> QED BY <2>1, Unseen
<1> QED BY <1>1, <1>2, <1>3, <1>4, <1>5, <1>6, <1>7, <1>8 DEF WriteNext, FlushResumes

\* An empty controller is an empty queue.
LEMMA WriteStartsAsQueue == WriteInit => Queue!QueueInit
<1> SUFFICES ASSUME WriteInit
             PROVE  Queue!QueueInit
  OBVIOUS
<1>1. flushes = [f \in Flusher |-> [at |-> "none", upto |-> 0]]
  BY DEF WriteInit
<1>2. \A f \in Flusher : View(flushes)[f] = [at |-> "none", upto |-> 0]
  BY <1>1 DEF View
<1>3. View(flushes) = [f \in Flusher |-> [at |-> "none", upto |-> 0]]
  BY <1>2 DEF View
<1> QED BY <1>3 DEF WriteInit, Queue!QueueInit, View

-----------------------------------------------------------------------------
(* The theorems about the write path.                                      *)

\* The inductive invariant holds of every controller, however its writes, failures
\* and flushes interleave (write-behind.ts, coordinator.ts flush and
\* appendLiveBatch).
THEOREM WriteInvariant == WriteSpec => []WriteInv
<1>1. WriteInv /\ [WriteNext]_writeVars => WriteInv'
  BY WriteTypeStep, QueueStep, BarrierStep DEF WriteInv
<1> QED BY WriteInvInit, <1>1, PTL DEF WriteSpec

\* The controller's queue, flags and flushes stay in range (write-behind.ts
\* SessionWriteBehind's fields).
THEOREM WriteTypeCorrect == WriteSpec => []WriteTypeOK
<1>1. WriteInv => WriteTypeOK
  BY DEF WriteInv
<1> QED BY WriteInvariant, <1>1, PTL

\* The write path implements DurableQueue: nothing is lost, doubled or stored out of
\* order when a batch fails and is retried, when the init has stored a part of it, or
\* when flushes overlap a write; and a flush that resolves covers every event logged
\* before its call (write-behind.ts drainBarrier and restoreBatch, coordinator.ts
\* appendLiveBatch).
THEOREM ImplementsDurableQueue == WriteSpec => KeepsTheQueue
<1>1. WriteInit => Queue!QueueInit
  BY WriteStartsAsQueue
<1>2. WriteInv /\ [WriteNext]_writeVars => [Queue!QueueNext]_(Queue!queueVars)
  BY WriteIsAllowed DEF QueueStepOK
<1> QED BY WriteInvariant, <1>1, <1>2, PTL DEF WriteSpec, KeepsTheQueue, Queue!QueueSpec

-----------------------------------------------------------------------------
(* Induction over the natural numbers, stated over sets.                   *)

\* A set of naturals has a least element: of the intervals below its members,
\* one contains no other.
LEMMA LeastElement ==
  ASSUME NEW T \in SUBSET Nat, T # {}
  PROVE  \E x \in T : \A y \in T : x <= y
<1> DEFINE Below(n) == 0 .. n
           Intervals == {Below(n) : n \in T}
<1>1. \A n \in Nat : Below(n) \in FiniteSubsetsOf(Nat)
  <2> TAKE n \in Nat
  <2>1. IsFiniteSet(0 .. n)
    BY FS_Interval
  <2>2. 0 .. n \subseteq Nat
    OBVIOUS
  <2> QED BY <2>1, <2>2 DEF FiniteSubsetsOf
<1>2. Intervals \subseteq FiniteSubsetsOf(Nat) /\ Intervals # {}
  BY <1>1
<1>3. PICK s \in Intervals :
        \A r \in Intervals : <<r, s>> \notin StrictSubsetOrdering(Nat)
  <2> HIDE DEF Intervals
  <2> QED BY <1>2, WFMin, FS_StrictSubsetOrderingWellFounded
<1>4. PICK x \in T : s = Below(x)
  BY <1>3
<1>5. \A y \in T : x <= y
  <2> SUFFICES ASSUME NEW y \in T, y < x PROVE FALSE
    BY <1>4
  <2>1. Below(y) \subseteq Below(x) /\ Below(y) # Below(x)
    <3>1. x \in Below(x) /\ x \notin Below(y)
      OBVIOUS
    <3> QED BY <3>1
  <2>2. Below(y) \subseteq Nat /\ Below(x) \subseteq Nat
    OBVIOUS
  <2>3. <<Below(y), Below(x)>> \in StrictSubsetOrdering(Nat)
    <3> HIDE DEF Below
    <3> QED BY <2>1, <2>2 DEF StrictSubsetOrdering
  <2> QED BY <1>3, <1>4, <2>3
<1> QED BY <1>5

\* A set that holds 0 and every successor of its members holds them all.
LEMMA SetInduction ==
  ASSUME NEW T \in SUBSET Nat, 0 \in T, \A n \in T : n + 1 \in T
  PROVE  T = Nat
<1> SUFFICES ASSUME T # Nat PROVE FALSE
  OBVIOUS
<1>1. PICK x \in Nat \ T : \A y \in Nat \ T : x <= y
  BY LeastElement
<1>2. x # 0 /\ x - 1 \in Nat /\ x - 1 \notin T
  BY <1>1
<1> QED BY <1>1, <1>2

-----------------------------------------------------------------------------
(* The replay of a log, one splice after another.                          *)

\* f holds what the first n splices of the log rebuild, for every n.
IsRun(f, log) ==
  f = [n \in 0 .. Len(log) |-> IF n = 0 THEN Empty ELSE Apply(f[n - 1], log[n])]

\* Every log has a run: that of a log without its last splice, and one more.
LEMMA RunExists ==
  ASSUME NEW R, NEW log \in Seq(R)
  PROVE  \E f : IsRun(f, log)
<1> DEFINE Step(g, n) == IF n = 0 THEN Empty ELSE Apply(g[n - 1], log[n])
           T == {m \in Nat : m <= Len(log) =>
                   \E g : g = [n \in 0 .. m |-> Step(g, n)]}
<1>1. 0 \in T
  <2> DEFINE g == [n \in 0 .. 0 |-> Empty]
  <2>1. g = [n \in 0 .. 0 |-> Step(g, n)]
    OBVIOUS
  <2> HIDE DEF g, Step
  <2> QED BY <2>1
<1>2. ASSUME NEW m \in T PROVE m + 1 \in T
  <2> SUFFICES ASSUME m + 1 <= Len(log)
               PROVE  \E g : g = [n \in 0 .. m + 1 |-> Step(g, n)]
    OBVIOUS
  <2>1. PICK h : h = [n \in 0 .. m |-> Step(h, n)]
    BY <1>2
  <2> DEFINE g == [n \in 0 .. m + 1 |-> IF n = m + 1 THEN Apply(h[m], log[n]) ELSE h[n]]
  <2>2. g = [n \in 0 .. m + 1 |-> Step(g, n)]
    <3>1. ASSUME NEW n \in 0 .. m + 1 PROVE g[n] = Step(g, n)
      <4>1. CASE n = m + 1
        BY <4>1
      <4>2. CASE n # m + 1
        <5>1. n \in 0 .. m /\ g[n] = h[n]
          BY <4>2
        <5>2. h[n] = Step(h, n)
          BY <2>1, <5>1
        <5>3. n # 0 => g[n - 1] = h[n - 1]
          BY <5>1
        <5> QED BY <5>1, <5>2, <5>3
      <4> QED BY <4>1, <4>2
    <3> HIDE DEF Step
    <3> QED BY <3>1
  <2> HIDE DEF g, Step
  <2> QED BY <2>2
<1>3. T = Nat
  <2> HIDE DEF T
  <2>1. T \in SUBSET Nat
    BY DEF T
  <2> QED BY <1>1, <1>2, <2>1, SetInduction
<1> QED BY <1>3 DEF IsRun

\* Two runs agree, also where the second goes on: they are equal on every n
\* below which the logs are.
LEMMA RunsAgree ==
  ASSUME NEW R, NEW log \in Seq(R), NEW longer \in Seq(R),
         Len(log) <= Len(longer), \A n \in 1 .. Len(log) : log[n] = longer[n],
         NEW f, IsRun(f, log), NEW g, IsRun(g, longer)
  PROVE  \A n \in 0 .. Len(log) : f[n] = g[n]
<1> DEFINE T == {n \in Nat : n <= Len(log) => f[n] = g[n]}
<1>1. 0 \in T
  BY DEF IsRun
<1>2. ASSUME NEW n \in T PROVE n + 1 \in T
  <2> SUFFICES ASSUME n + 1 <= Len(log) PROVE f[n + 1] = g[n + 1]
    OBVIOUS
  <2>1. f[n] = g[n] /\ log[n + 1] = longer[n + 1]
    BY <1>2
  <2>2. f[n + 1] = Apply(f[n], log[n + 1])
    BY DEF IsRun
  <2>3. g[n + 1] = Apply(g[n], longer[n + 1])
    BY DEF IsRun
  <2> QED BY <2>1, <2>2, <2>3
<1>3. T = Nat
  <2> HIDE DEF T
  <2>1. T \in SUBSET Nat
    BY DEF T
  <2> QED BY <1>1, <1>2, <2>1, SetInduction
<1> QED BY <1>3

\* The replay is the end of the log's run.
LEMMA ReplayRun ==
  ASSUME NEW R, NEW log \in Seq(R), NEW f, IsRun(f, log)
  PROVE  Replay(log) = f[Len(log)]
<1> DEFINE after[n \in 0 .. Len(log)] ==
             IF n = 0 THEN Empty ELSE Apply(after[n - 1], log[n])
<1>1. after = CHOOSE g : g = [n \in 0 .. Len(log) |->
                                IF n = 0 THEN Empty ELSE Apply(g[n - 1], log[n])]
  OBVIOUS
<1>2. Replay(log) = after[Len(log)]
  BY DEF Replay
<1>3. IsRun(after, log)
  <2> HIDE DEF after
  <2> QED BY <1>1 DEF IsRun
<1> HIDE DEF after
<1>4. after[Len(log)] = f[Len(log)]
  BY <1>3, RunsAgree
<1> QED BY <1>2, <1>4

\* A replay starts from empty lists and applies the last splice last.
LEMMA ReplayEmpty == Replay(<<>>) = Empty
<1>1. <<>> \in Seq({}) /\ Len(<<>>) = 0
  OBVIOUS
<1>2. PICK f : IsRun(f, <<>>)
  BY <1>1, RunExists
<1>3. f[0] = Empty
  BY <1>2 DEF IsRun
<1> QED BY <1>1, <1>2, <1>3, ReplayRun

\* The last splice of a log is applied to what the others rebuild.
LEMMA ReplayAppend ==
  ASSUME NEW R, NEW log \in Seq(R), NEW splice \in R
  PROVE  Replay(Append(log, splice)) = Apply(Replay(log), splice)
<1> DEFINE longer == Append(log, splice)
<1>1. /\ longer \in Seq(R) /\ Len(longer) = Len(log) + 1
      /\ \A n \in 1 .. Len(log) : log[n] = longer[n]
      /\ longer[Len(log) + 1] = splice
  OBVIOUS
<1> HIDE DEF longer
<1>2. PICK f : IsRun(f, log)
  BY RunExists
<1>3. PICK g : IsRun(g, longer)
  BY <1>1, RunExists
<1>4. f[Len(log)] = g[Len(log)]
  BY <1>1, <1>2, <1>3, RunsAgree
<1>5. g[Len(log) + 1] = Apply(g[Len(log)], splice)
  BY <1>1, <1>3 DEF IsRun
<1>6. Replay(log) = f[Len(log)] /\ Replay(longer) = g[Len(log) + 1]
  BY <1>1, <1>2, <1>3, ReplayRun
<1> QED BY <1>4, <1>5, <1>6 DEF longer

-----------------------------------------------------------------------------
(* Sequences as their elements and the absence of repetition.              *)

\* The elements of a concatenation, and when none of them repeats.
LEMMA ConcatElements ==
  ASSUME NEW R, NEW a \in Seq(R), NEW b \in Seq(R)
  PROVE  /\ a \o b \in Seq(R)
         /\ ToSet(a \o b) = ToSet(a) \union ToSet(b)
         /\ IsInjective(a \o b) <=>
              /\ IsInjective(a) /\ IsInjective(b)
              /\ ToSet(a) \intersect ToSet(b) = {}
<1> DEFINE c == a \o b
<1>1. /\ c \in Seq(R) /\ Len(c) = Len(a) + Len(b)
      /\ DOMAIN a = 1 .. Len(a) /\ DOMAIN b = 1 .. Len(b) /\ DOMAIN c = 1 .. Len(c)
      /\ Len(a) \in Nat /\ Len(b) \in Nat
      /\ \A i \in 1 .. Len(c) : c[i] = IF i <= Len(a) THEN a[i] ELSE b[i - Len(a)]
  OBVIOUS
<1> HIDE DEF c
<1>2. \A i \in DOMAIN a : i \in DOMAIN c /\ c[i] = a[i]
  BY <1>1
<1>3. \A i \in DOMAIN b : i + Len(a) \in DOMAIN c /\ c[i + Len(a)] = b[i]
  BY <1>1
<1>4. \A i \in DOMAIN c : \/ i \in DOMAIN a /\ c[i] = a[i]
                          \/ i - Len(a) \in DOMAIN b /\ c[i] = b[i - Len(a)]
  BY <1>1
<1>5. ToSet(c) = ToSet(a) \union ToSet(b)
  <2>1. ToSet(c) \subseteq ToSet(a) \union ToSet(b)
    BY <1>4, Zenon DEF ToSet
  <2>2. ToSet(a) \subseteq ToSet(c) /\ ToSet(b) \subseteq ToSet(c)
    BY <1>2, <1>3 DEF ToSet
  <2> QED BY <2>1, <2>2
<1>6. ASSUME IsInjective(c)
      PROVE  IsInjective(a) /\ IsInjective(b) /\ ToSet(a) \intersect ToSet(b) = {}
  <2>1. IsInjective(a)
    BY <1>2, <1>6 DEF IsInjective
  <2>2. IsInjective(b)
    <3> SUFFICES ASSUME NEW i \in DOMAIN b, NEW j \in DOMAIN b, b[i] = b[j]
                 PROVE  i = j
      BY DEF IsInjective
    <3>1. i + Len(a) = j + Len(a)
      BY <1>3, <1>6 DEF IsInjective
    <3> QED BY <1>1, <3>1
  <2>3. ToSet(a) \intersect ToSet(b) = {}
    <3> SUFFICES ASSUME NEW i \in DOMAIN a, NEW j \in DOMAIN b, a[i] = b[j]
                 PROVE  FALSE
      BY DEF ToSet
    <3>1. i = j + Len(a)
      BY <1>2, <1>3, <1>6 DEF IsInjective
    <3> QED BY <1>1, <3>1
  <2> QED BY <2>1, <2>2, <2>3
<1>7. ASSUME IsInjective(a), IsInjective(b), ToSet(a) \intersect ToSet(b) = {}
      PROVE  IsInjective(c)
  <2> SUFFICES ASSUME NEW i \in DOMAIN c, NEW j \in DOMAIN c, c[i] = c[j]
               PROVE  i = j
    BY DEF IsInjective
  <2>1. \A x \in DOMAIN a, y \in DOMAIN b : a[x] # b[y]
    BY <1>7 DEF ToSet
  <2>2. \A x, y \in DOMAIN a : a[x] = a[y] => x = y
    BY <1>7 DEF IsInjective
  <2>3. \A x, y \in DOMAIN b : b[x] = b[y] => x = y
    BY <1>7 DEF IsInjective
  <2>4. CASE i \in DOMAIN a /\ c[i] = a[i]
    BY <1>4, <2>1, <2>2, <2>4
  <2>5. CASE i - Len(a) \in DOMAIN b /\ c[i] = b[i - Len(a)]
    <3>1. j - Len(a) \in DOMAIN b /\ c[j] = b[j - Len(a)]
      BY <1>4, <2>1, <2>5
    <3>2. i - Len(a) = j - Len(a)
      BY <2>3, <2>5, <3>1
    <3> QED BY <1>1, <3>2
  <2> QED BY <1>4, <2>4, <2>5
<1> QED BY <1>1, <1>5, <1>6, <1>7 DEF c

\* The sequence is what comes before a part of it, that part, and what follows.
CutAt(R, list, s, r) ==
  /\ SubSeq(list, 1, s) \in Seq(R)
  /\ SubSeq(list, s + 1, s + r) \in Seq(R)
  /\ SubSeq(list, s + r + 1, Len(list)) \in Seq(R)
  /\ list = SubSeq(list, 1, s)
              \o (SubSeq(list, s + 1, s + r) \o SubSeq(list, s + r + 1, Len(list)))

\* A sequence is so cut at every place.
LEMMA Cut ==
  ASSUME NEW R, NEW list \in Seq(R), NEW s \in Nat, NEW r \in Nat,
         s + r <= Len(list)
  PROVE  CutAt(R, list, s, r)
<1> DEFINE a == SubSeq(list, 1, s)
           b == SubSeq(list, s + 1, s + r)
           c == SubSeq(list, s + r + 1, Len(list))
<1>0. Len(list) \in Nat /\ \A i \in 1 .. Len(list) : list[i] \in R
  OBVIOUS
<1>1. a \in Seq(R) /\ Len(a) = s /\ \A i \in 1 .. s : a[i] = list[i]
  BY <1>0, SubSeqProperties
<1>2. b \in Seq(R) /\ Len(b) = r /\ \A i \in 1 .. r : b[i] = list[s + i]
  BY <1>0, SubSeqProperties
<1>3. /\ c \in Seq(R) /\ Len(c) = Len(list) - (s + r)
      /\ \A i \in 1 .. Len(list) - (s + r) : c[i] = list[s + r + i]
  BY <1>0, SubSeqProperties
<1> HIDE DEF a, b, c
<1>4. /\ b \o c \in Seq(R) /\ Len(b \o c) = Len(list) - s
      /\ \A i \in 1 .. Len(list) - s :
           (b \o c)[i] = IF i <= r THEN b[i] ELSE c[i - r]
  BY <1>0, <1>2, <1>3
<1>5. \A i \in 1 .. Len(list) - s : (b \o c)[i] = list[s + i]
  BY <1>0, <1>2, <1>3, <1>4
<1> DEFINE bc == b \o c
<1> HIDE DEF bc
<1>6. bc \in Seq(R) /\ Len(bc) = Len(list) - s
  BY <1>4 DEF bc
<1>7. \A i \in 1 .. Len(list) - s : bc[i] = list[s + i]
  BY <1>5 DEF bc
<1>8. /\ a \o bc \in Seq(R) /\ Len(a \o bc) = Len(list)
      /\ \A i \in 1 .. Len(list) :
           (a \o bc)[i] = IF i <= s THEN a[i] ELSE bc[i - s]
  BY <1>0, <1>1, <1>6
<1>9. \A i \in 1 .. Len(list) : (a \o bc)[i] = list[i]
  BY <1>0, <1>1, <1>6, <1>7, <1>8
<1>10. a \o bc = list
  BY <1>8, <1>9, SeqEqual
<1> QED BY <1>1, <1>2, <1>3, <1>10 DEF CutAt, a, b, c, bc

\* How often a sequence without repetition is notified of a message.
LEMMA NotifiedOnce ==
  ASSUME NEW counts \in [Msg -> Nat], NEW list \in Seq(Msg), IsInjective(list)
  PROVE  /\ Notify(counts, list) \in [Msg -> Nat]
         /\ \A msg \in Msg : Notify(counts, list)[msg] =
              counts[msg] + IF msg \in ToSet(list) THEN 1 ELSE 0
<1>1. ASSUME NEW msg \in Msg
      PROVE  Cardinality({i \in DOMAIN list : list[i] = msg}) =
               IF msg \in ToSet(list) THEN 1 ELSE 0
  <2>1. CASE msg \in ToSet(list)
    <3>1. PICK i \in DOMAIN list : list[i] = msg
      BY <2>1 DEF ToSet
    <3>2. {j \in DOMAIN list : list[j] = msg} = {i}
      BY <3>1 DEF IsInjective
    <3> QED BY <2>1, <3>2, FS_Singleton
  <2>2. CASE msg \notin ToSet(list)
    <3>1. {j \in DOMAIN list : list[j] = msg} = {}
      BY <2>2 DEF ToSet
    <3> QED BY <2>2, <3>1, FS_EmptySet
  <2> QED BY <2>1, <2>2
<1>2. \A msg \in Msg : Notify(counts, list)[msg] =
              counts[msg] + IF msg \in ToSet(list) THEN 1 ELSE 0
  BY <1>1 DEF Notify
<1>3. Notify(counts, list) \in [Msg -> Nat]
  <2>1. \A msg \in Msg :
          counts[msg] + Cardinality({i \in DOMAIN list : list[i] = msg}) \in Nat
    BY <1>1
  <2> QED BY <2>1 DEF Notify
<1> QED BY <1>2, <1>3

-----------------------------------------------------------------------------
(* The inductive invariant of the inbox.                                   *)

Lists == [Target -> Seq(Msg)]

Record == [target : Target, start : Nat, removedCount : Nat,
           inserted : Seq(Msg)]

PendingOf(state) == state["next-turn"] \o state["next-step"]

\* A splice whose coordinates lie within its list.
Fits(state, splice) ==
  /\ splice.start \in 0 .. Len(state[splice.target])
  /\ splice.removedCount >= 0
  /\ splice.start + splice.removedCount <= Len(state[splice.target])

\* Every prefix of the log rebuilds lists in which no message is twice, and
\* the next splice is valid for them and changes something.
Replays(log) ==
  /\ \A n \in 0 .. Len(log) :
       /\ Replay(SubSeq(log, 1, n)) \in Lists
       /\ IsInjective(PendingOf(Replay(SubSeq(log, 1, n))))
  /\ \A i \in 1 .. Len(log) :
       /\ IsValid(Replay(SubSeq(log, 1, i - 1)), log[i])
       /\ ~IsNoop(log[i])

\* The log replays to the live lists.
LogReplays ==
  /\ splices \in Seq(Record) /\ Len(splices) <= MaxSplices
  /\ Replays(splices)
  /\ Replay(splices) = lists

Counts == {inserted, claimed, discarded} \subseteq [Msg -> Nat]

InboxInv == LogReplays /\ Counts /\ PendingAsNotified

-----------------------------------------------------------------------------
(* One splice.                                                             *)

\* Whichever of the two lists comes first, repetition is the same.
LEMMA PendingElements ==
  ASSUME NEW state \in Lists, NEW target \in Target
  PROVE  /\ Other(target) \in Target /\ Other(target) # target
         /\ state[target] \in Seq(Msg) /\ state[Other(target)] \in Seq(Msg)
         /\ PendingOf(state) \in Seq(Msg)
         /\ ToSet(PendingOf(state)) = ToSet(state[target]) \union ToSet(state[Other(target)])
         /\ IsInjective(PendingOf(state)) <=>
              /\ IsInjective(state[target]) /\ IsInjective(state[Other(target)])
              /\ ToSet(state[target]) \intersect ToSet(state[Other(target)]) = {}
<1>1. Other(target) \in Target /\ Other(target) # target
  BY DEF Target, Other
<1>2. state["next-turn"] \in Seq(Msg) /\ state["next-step"] \in Seq(Msg)
  BY DEF Lists, Target
<1>3. \/ target = "next-turn" /\ Other(target) = "next-step"
      \/ target = "next-step" /\ Other(target) = "next-turn"
  BY DEF Target, Other
<1>4. /\ PendingOf(state) \in Seq(Msg)
      /\ ToSet(PendingOf(state)) = ToSet(state["next-turn"]) \union ToSet(state["next-step"])
      /\ IsInjective(PendingOf(state)) <=>
           /\ IsInjective(state["next-turn"]) /\ IsInjective(state["next-step"])
           /\ ToSet(state["next-turn"]) \intersect ToSet(state["next-step"]) = {}
  BY <1>2, ConcatElements DEF PendingOf
<1>5. CASE target = "next-turn" /\ Other(target) = "next-step"
  BY <1>1, <1>2, <1>4, <1>5
<1>6. CASE target = "next-step" /\ Other(target) = "next-turn"
  BY <1>1, <1>2, <1>4, <1>6
<1> QED BY <1>3, <1>5, <1>6

\* What a splice takes out and puts in, and what stays.
LEMMA SplicedElements ==
  ASSUME NEW state \in Lists, IsInjective(PendingOf(state)),
         NEW splice \in Record, Fits(state, splice),
         IsNoop(splice) \/ IsValid(state, splice)
  PROVE  LET removed == Removed(state[splice.target], splice)
             new == Mutated(state, splice)
             stays == ToSet(PendingOf(state)) \ ToSet(removed)
         IN  /\ new \in Lists
             /\ new[Other(splice.target)] = state[Other(splice.target)]
             /\ IsInjective(PendingOf(new))
             /\ removed \in Seq(Msg) /\ IsInjective(removed)
             /\ ToSet(removed) \subseteq ToSet(PendingOf(state))
             /\ IsInjective(splice.inserted)
             /\ ToSet(splice.inserted) \intersect stays = {}
             /\ ToSet(PendingOf(new)) = stays \union ToSet(splice.inserted)
<1> DEFINE target == splice.target
           list == state[target]
           other == state[Other(target)]
           s == splice.start
           r == splice.removedCount
           before == SubSeq(list, 1, s)
           removed == Removed(list, splice)
           after == SubSeq(list, s + r + 1, Len(list))
           inserted_ == splice.inserted
           new == Mutated(state, splice)
<1>1. /\ target \in Target /\ s \in Nat /\ r \in Nat /\ inserted_ \in Seq(Msg)
      /\ Other(target) \in Target /\ Other(target) # target
      /\ list \in Seq(Msg) /\ other \in Seq(Msg) /\ s + r <= Len(list)
  BY PendingElements DEF Record, Fits
<1>2. /\ before \in Seq(Msg) /\ removed \in Seq(Msg) /\ after \in Seq(Msg)
      /\ list = before \o (removed \o after)
      /\ Spliced(list, splice) = before \o inserted_ \o after
  <2>1. removed = SubSeq(list, s + 1, s + r)
    BY DEF Removed
  <2>2. Spliced(list, splice) = before \o inserted_ \o after
    BY DEF Spliced
  <2> HIDE DEF list, s, r, removed
  <2>3. list \in Seq(Msg) /\ s \in Nat /\ r \in Nat /\ s + r <= Len(list)
    BY <1>1
  <2>4. /\ before \in Seq(Msg)
        /\ SubSeq(list, s + 1, s + r) \in Seq(Msg)
        /\ after \in Seq(Msg)
        /\ list = before \o (SubSeq(list, s + 1, s + r) \o after)
    <3>1. CutAt(Msg, list, s, r)
      BY <2>3, Cut
    <3> QED BY <3>1 DEF CutAt
  <2> HIDE DEF before, after
  <2> QED BY <2>1, <2>2, <2>4
<1>3. /\ ToSet(PendingOf(state)) = ToSet(list) \union ToSet(other)
      /\ IsInjective(list) /\ IsInjective(other)
      /\ ToSet(list) \intersect ToSet(other) = {}
  BY <1>1, PendingElements
<1> HIDE DEF before, removed, after, list, other, s, r, inserted_, target, new
<1>4. /\ removed \o after \in Seq(Msg)
      /\ ToSet(removed \o after) = ToSet(removed) \union ToSet(after)
      /\ IsInjective(removed \o after) <=>
           /\ IsInjective(removed) /\ IsInjective(after)
           /\ ToSet(removed) \intersect ToSet(after) = {}
  BY <1>2, ConcatElements
<1>5. /\ ToSet(list) = ToSet(before) \union ToSet(removed \o after)
      /\ IsInjective(list) <=>
           /\ IsInjective(before) /\ IsInjective(removed \o after)
           /\ ToSet(before) \intersect ToSet(removed \o after) = {}
  BY <1>2, <1>4, ConcatElements
<1>6. /\ IsInjective(before) /\ IsInjective(removed) /\ IsInjective(after)
      /\ ToSet(list) = ToSet(before) \union ToSet(removed) \union ToSet(after)
      /\ ToSet(before) \intersect ToSet(removed) = {}
      /\ ToSet(before) \intersect ToSet(after) = {}
      /\ ToSet(removed) \intersect ToSet(after) = {}
  BY <1>3, <1>4, <1>5
<1>7. /\ before \o inserted_ \in Seq(Msg)
      /\ ToSet(before \o inserted_) = ToSet(before) \union ToSet(inserted_)
      /\ IsInjective(before \o inserted_) <=>
           /\ IsInjective(before) /\ IsInjective(inserted_)
           /\ ToSet(before) \intersect ToSet(inserted_) = {}
  BY <1>1, <1>2, ConcatElements
<1>8. /\ Spliced(list, splice) \in Seq(Msg)
      /\ ToSet(Spliced(list, splice)) =
           ToSet(before) \union ToSet(inserted_) \union ToSet(after)
      /\ IsInjective(Spliced(list, splice)) =>
           /\ IsInjective(inserted_)
           /\ ToSet(before) \intersect ToSet(inserted_) = {}
           /\ ToSet(after) \intersect ToSet(inserted_) = {}
  <2>1. /\ (before \o inserted_) \o after \in Seq(Msg)
        /\ ToSet((before \o inserted_) \o after) =
             ToSet(before \o inserted_) \union ToSet(after)
        /\ IsInjective((before \o inserted_) \o after) <=>
             /\ IsInjective(before \o inserted_) /\ IsInjective(after)
             /\ ToSet(before \o inserted_) \intersect ToSet(after) = {}
    BY <1>2, <1>7, ConcatElements
  <2> QED BY <1>2, <1>7, <2>1
<1>9. CASE IsNoop(splice)
  <2>1. r = 0 /\ inserted_ = <<>> /\ new = state
    BY <1>9 DEF IsNoop, Mutated, r, inserted_, new
  <2>2. removed = <<>>
    <3>1. removed = SubSeq(list, s + 1, s + r)
      BY DEF removed, Removed, s, r
    <3> QED BY <1>1, <2>1, <3>1, SubSeqEmpty
  <2>3. ToSet(<<>>) = {} /\ IsInjective(<<>>) /\ <<>> \in Seq(Msg)
    BY DEF ToSet, IsInjective
  <2>4. /\ new \in Lists /\ new[Other(target)] = other
        /\ IsInjective(PendingOf(new)) /\ ToSet(PendingOf(new)) = ToSet(PendingOf(state))
    BY <2>1 DEF other
  <2>5. /\ ToSet(removed) = {} /\ ToSet(inserted_) = {}
        /\ IsInjective(inserted_)
    BY <2>1, <2>2, <2>3
  <2> QED BY <1>2, <1>6, <2>4, <2>5
          DEF new, removed, list, target, other, inserted_
<1>10. CASE ~IsNoop(splice)
  <2>1. IsInjective(Spliced(list, splice) \o other)
    BY <1>10 DEF IsValid, list, other, target
  <2>2. /\ IsInjective(Spliced(list, splice))
        /\ ToSet(Spliced(list, splice)) \intersect ToSet(other) = {}
    BY <1>1, <1>8, <2>1, ConcatElements
  <2>3. new = [state EXCEPT ![target] = Spliced(list, splice)]
    BY <1>10 DEF Mutated, Apply, new, list, target
  <2>4. new \in Lists /\ new[target] = Spliced(list, splice) /\ new[Other(target)] = other
    BY <1>1, <1>8, <2>3 DEF Lists, other
  <2>5. /\ ToSet(PendingOf(new)) = ToSet(Spliced(list, splice)) \union ToSet(other)
        /\ IsInjective(PendingOf(new))
    <3>1. /\ ToSet(PendingOf(new)) = ToSet(new[target]) \union ToSet(new[Other(target)])
          /\ IsInjective(PendingOf(new)) <=>
               /\ IsInjective(new[target]) /\ IsInjective(new[Other(target)])
               /\ ToSet(new[target]) \intersect ToSet(new[Other(target)]) = {}
      BY <1>1, <2>4, PendingElements
    <3> QED BY <1>3, <2>2, <2>4, <3>1
  <2>6. /\ IsInjective(inserted_)
        /\ ToSet(before) \intersect ToSet(inserted_) = {}
        /\ ToSet(after) \intersect ToSet(inserted_) = {}
        /\ ToSet(other) \intersect ToSet(inserted_) = {}
    BY <1>8, <2>2
  <2>7. ToSet(PendingOf(state)) \ ToSet(removed) =
          ToSet(before) \union ToSet(after) \union ToSet(other)
    BY <1>3, <1>6
  <2>8. ToSet(inserted_) \intersect (ToSet(PendingOf(state)) \ ToSet(removed)) = {}
    BY <2>6, <2>7
  <2>9. ToSet(PendingOf(new)) =
          (ToSet(PendingOf(state)) \ ToSet(removed)) \union ToSet(inserted_)
    BY <1>8, <2>5, <2>7
  <2>10. ToSet(removed) \subseteq ToSet(PendingOf(state))
    BY <1>3, <1>6
  <2> QED BY <1>2, <1>6, <2>4, <2>5, <2>6, <2>8, <2>9, <2>10
          DEF new, removed, list, target, other, inserted_
<1> QED BY <1>9, <1>10

\* A log that replays still does with one more mutation, to its outcome.
LEMMA LoggedReplays ==
  ASSUME NEW log \in Seq(Record), Replays(log),
         NEW splice \in Record, Fits(Replay(log), splice),
         IsNoop(splice) \/ IsValid(Replay(log), splice)
  PROVE  /\ Logged(log, splice) \in Seq(Record)
         /\ Replays(Logged(log, splice))
         /\ Replay(Logged(log, splice)) = Mutated(Replay(log), splice)
<1>1. CASE IsNoop(splice)
  BY <1>1 DEF Logged, Mutated
<1>2. CASE ~IsNoop(splice)
  <2> DEFINE longer == Append(log, splice)
             state == Replay(log)
  <2>0. Logged(log, splice) = longer /\ Mutated(state, splice) = Apply(state, splice)
    BY <1>2 DEF Logged, Mutated
  <2>1. longer \in Seq(Record) /\ Len(longer) = Len(log) + 1 /\ Len(log) \in Nat
    OBVIOUS
  <2>2. \A n \in 0 .. Len(log) : SubSeq(longer, 1, n) = SubSeq(log, 1, n)
    OBVIOUS
  <2>3. SubSeq(longer, 1, Len(log) + 1) = longer /\ SubSeq(log, 1, Len(log)) = log
    OBVIOUS
  <2>4. \A i \in 1 .. Len(log) + 1 : longer[i] = IF i = Len(log) + 1 THEN splice ELSE log[i]
    OBVIOUS
  <2>5. Replay(longer) = Apply(state, splice)
    BY ReplayAppend
  <2>6. state \in Lists /\ IsInjective(PendingOf(state))
    <3>1. Len(log) \in 0 .. Len(log)
      BY <2>1
    <3> QED BY <2>3, <3>1 DEF Replays
  <2>7. Apply(state, splice) \in Lists /\ IsInjective(PendingOf(Apply(state, splice)))
    BY <2>0, <2>6, SplicedElements
  <2>8. IsValid(state, splice)
    BY <1>2
  <2> HIDE DEF longer, state
  <2>9. ASSUME NEW n \in 0 .. Len(longer)
        PROVE  /\ Replay(SubSeq(longer, 1, n)) \in Lists
               /\ IsInjective(PendingOf(Replay(SubSeq(longer, 1, n))))
    <3>1. CASE n = Len(log) + 1
      BY <2>3, <2>5, <2>7, <3>1
    <3>2. CASE n # Len(log) + 1
      <4>1. n \in 0 .. Len(log)
        BY <2>1, <3>2
      <4> QED BY <2>2, <4>1 DEF Replays
    <3> QED BY <3>1, <3>2
  <2>10. ASSUME NEW i \in 1 .. Len(longer)
         PROVE  /\ IsValid(Replay(SubSeq(longer, 1, i - 1)), longer[i])
                /\ ~IsNoop(longer[i])
    <3>1. CASE i = Len(log) + 1
      <4>1. SubSeq(longer, 1, i - 1) = log /\ longer[i] = splice
        <5>1. i - 1 = Len(log) /\ i - 1 \in 0 .. Len(log)
          BY <2>1, <3>1
        <5>2. SubSeq(longer, 1, i - 1) = SubSeq(log, 1, Len(log))
          BY <2>2, <5>1
        <5> QED BY <2>1, <2>3, <2>4, <3>1, <5>2
      <4> QED BY <1>2, <2>8, <4>1 DEF state
    <3>2. CASE i # Len(log) + 1
      <4>1. i \in 1 .. Len(log) /\ i - 1 \in 0 .. Len(log)
        BY <2>1, <3>2
      <4>2. SubSeq(longer, 1, i - 1) = SubSeq(log, 1, i - 1) /\ longer[i] = log[i]
        BY <2>1, <2>2, <2>4, <3>2, <4>1
      <4> QED BY <4>1, <4>2 DEF Replays
    <3> QED BY <3>1, <3>2
  <2> QED BY <2>0, <2>1, <2>5, <2>9, <2>10 DEF Replays, longer, state
<1> QED BY <1>1, <1>2

\* The normalized coordinates lie within the list.
LEMMA NormalizedFits ==
  ASSUME lists \in Lists, NEW target \in Target,
         NEW start \in Int, NEW deleteCount \in Int, NEW messages \in Seq(Msg)
  PROVE  LET splice == Normalized(target, start, deleteCount, messages)
         IN  /\ splice \in Record /\ Fits(lists, splice)
             /\ splice.target = target /\ splice.inserted = messages
<1> DEFINE length == Len(lists[target])
           at == ActualStart(start, length)
           count == ActualDeleteCount(deleteCount, length - at)
           splice == Normalized(target, start, deleteCount, messages)
<1>1. length \in Nat
  BY DEF Lists
<1> HIDE DEF length
<1>2. at \in 0 .. length
  BY <1>1 DEF ActualStart, Least, Greatest
<1> HIDE DEF at
<1>3. count \in 0 .. length - at
  BY <1>1, <1>2 DEF ActualDeleteCount, Least, Greatest
<1> HIDE DEF count
<1>4. splice = [target |-> target, start |-> at, removedCount |-> count,
                inserted |-> messages]
  BY DEF Normalized, length, at, count
<1> HIDE DEF splice
<1>5. splice \in Record /\ splice.target = target /\ splice.inserted = messages
  BY <1>1, <1>2, <1>3, <1>4 DEF Record
<1>6. Fits(lists, splice)
  <2>1. /\ splice.target = target /\ splice.start = at
        /\ splice.removedCount = count
    BY <1>4
  <2> QED BY <1>1, <1>2, <1>3, <2>1 DEF Fits, length
<1> QED BY <1>5, <1>6 DEF splice

\* So does a deletion from the front of a list, which logs no message.
LEMMA DeletionFits ==
  ASSUME lists \in Lists, NEW target \in Target,
         NEW start \in Int, NEW deleteCount \in Int
  PROVE  LET splice == Normalized(target, start, deleteCount, <<>>)
         IN  /\ splice \in Record /\ Fits(lists, splice)
             /\ splice.target = target /\ splice.inserted = <<>>
<1> DEFINE none == <<>>
<1>1. none \in Seq(Msg)
  OBVIOUS
<1> HIDE DEF none
<1>2. LET splice == Normalized(target, start, deleteCount, none)
      IN  /\ splice \in Record /\ Fits(lists, splice)
          /\ splice.target = target /\ splice.inserted = none
  BY <1>1, NormalizedFits
<1> QED BY <1>2 DEF none

\* The cancellation of a whole list removes that list.
LEMMA WholeRemoved ==
  ASSUME lists \in Lists, NEW target \in Target
  PROVE  Removed(lists[target],
                 Normalized(target, 0, Len(lists[target]), <<>>)) = lists[target]
<1> DEFINE list == lists[target]
           splice == Normalized(target, 0, Len(list), <<>>)
<1>1. list \in Seq(Msg) /\ Len(list) \in Nat
  BY DEF Lists
<1>2. splice.start = 0 /\ splice.removedCount = Len(list)
  <2> HIDE DEF list
  <2>1. ActualStart(0, Len(list)) = 0
    BY <1>1 DEF ActualStart, Least
  <2>2. ActualDeleteCount(Len(list), Len(list) - 0) = Len(list)
    BY <1>1 DEF ActualDeleteCount, Least, Greatest
  <2> QED BY <2>1, <2>2 DEF Normalized, list
<1> HIDE DEF list, splice
<1>3. Removed(list, splice) = list
  <2>1. SubSeq(list, 1, Len(list)) = list
    BY <1>1
  <2>2. 0 + 1 = 1 /\ 0 + Len(list) = Len(list)
    BY <1>1
  <2> QED BY <1>2, <2>1, <2>2 DEF Removed
<1> QED BY <1>3 DEF list, splice

-----------------------------------------------------------------------------
(* One step.                                                               *)

\* The live lists are those of the whole log: of messages, none twice.
LEMMA ListsFromLog ==
  ASSUME LogReplays
  PROVE  lists \in Lists /\ IsInjective(PendingOf(lists))
<1>1. SubSeq(splices, 1, Len(splices)) = splices /\ Len(splices) \in 0 .. Len(splices)
  BY DEF LogReplays
<1> QED BY <1>1 DEF LogReplays, Replays

\* PendingAsNotified counts a message as pending when it is in PendingOf(lists).
LEMMA IsPending ==
  ASSUME NEW S, NEW msg
  PROVE  Cardinality({msg} \intersect S) = IF msg \in S THEN 1 ELSE 0
<1>1. CASE msg \in S
  <2>1. {msg} \intersect S = {msg}
    BY <1>1
  <2> QED BY <1>1, <2>1, FS_Singleton
<1>2. CASE msg \notin S
  <2>1. {msg} \intersect S = {}
    BY <1>2
  <2> QED BY <1>2, <2>1, FS_EmptySet
<1> QED BY <1>1, <1>2

\* PendingAsNotified, said without cardinalities.
Agreed ==
  \A msg \in Msg :
    inserted[msg] = claimed[msg] + discarded[msg]
                      + IF msg \in ToSet(PendingOf(lists)) THEN 1 ELSE 0

\* It says the same, now and in the next state.
LEMMA AgreedIsPending == PendingAsNotified <=> Agreed
  BY IsPending DEF PendingAsNotified, Agreed, PendingOf

LEMMA AgreedIsPendingNext == PendingAsNotified' <=> Agreed'
  BY IsPending DEF PendingAsNotified, Agreed, PendingOf

\* One mutation: the log still replays to the lists.
LEMMA MutateStep ==
  ASSUME LogReplays, NEW splice \in Record, Fits(lists, splice), Mutate(splice)
  PROVE  /\ LogReplays'
         /\ lists' = Mutated(lists, splice)
         /\ IsNoop(splice) \/ IsValid(lists, splice)
<1>1. /\ Logged(splices, splice) \in Seq(Record)
      /\ Replays(Logged(splices, splice))
      /\ Replay(Logged(splices, splice)) = Mutated(lists, splice)
  BY LoggedReplays DEF LogReplays, Mutate
<1>2. /\ lists' = Mutated(lists, splice) /\ splices' = Logged(splices, splice)
      /\ Len(splices') <= MaxSplices /\ (IsNoop(splice) \/ IsValid(lists, splice))
  BY DEF Mutate
<1> QED BY <1>1, <1>2 DEF LogReplays

\* Two deletions: together they take out what each does, once.
LEMMA MutateBothStep ==
  ASSUME LogReplays,
         NEW first \in Record, Fits(lists, first), first.inserted = <<>>,
         NEW second \in Record, Fits(Mutated(lists, first), second),
         second.inserted = <<>>,
         MutateBoth(first, second)
  PROVE  LET taken == Removed(lists[first.target], first)
                        \o Removed(Mutated(lists, first)[second.target], second)
         IN  /\ LogReplays'
             /\ taken \in Seq(Msg) /\ IsInjective(taken)
             /\ ToSet(taken) \subseteq ToSet(PendingOf(lists))
             /\ ToSet(PendingOf(lists')) = ToSet(PendingOf(lists)) \ ToSet(taken)
<1> DEFINE between == Mutated(lists, first)
           logged == Logged(splices, first)
           one == Removed(lists[first.target], first)
           two == Removed(between[second.target], second)
<1>1. /\ IsNoop(first) \/ IsValid(lists, first)
      /\ IsNoop(second) \/ IsValid(between, second)
      /\ lists' = Mutated(between, second)
      /\ splices' = Logged(logged, second)
      /\ Len(splices') <= MaxSplices
  BY DEF MutateBoth
<1>2. /\ logged \in Seq(Record) /\ Replays(logged) /\ Replay(logged) = between
  BY <1>1, LoggedReplays DEF LogReplays
<1>3. lists \in Lists /\ IsInjective(PendingOf(lists))
  BY ListsFromLog
<1>4. ToSet(<<>>) = {}
  BY DEF ToSet
<1>5. /\ between \in Lists /\ IsInjective(PendingOf(between))
      /\ one \in Seq(Msg) /\ IsInjective(one)
      /\ ToSet(one) \subseteq ToSet(PendingOf(lists))
      /\ ToSet(PendingOf(between)) = ToSet(PendingOf(lists)) \ ToSet(one)
  <2>1. ToSet(first.inserted) = {}
    BY <1>4
  <2> QED BY <1>1, <1>3, <2>1, SplicedElements
<1> HIDE DEF between, logged, one
<1>6. LogReplays'
  <2>1. /\ Logged(logged, second) \in Seq(Record)
        /\ Replays(Logged(logged, second))
        /\ Replay(Logged(logged, second)) = Mutated(between, second)
    BY <1>1, <1>2, LoggedReplays DEF between
  <2> QED BY <1>1, <2>1 DEF LogReplays
<1>7. /\ two \in Seq(Msg) /\ IsInjective(two)
      /\ ToSet(two) \subseteq ToSet(PendingOf(between))
      /\ ToSet(PendingOf(lists')) = ToSet(PendingOf(between)) \ ToSet(two)
  <2>1. ToSet(second.inserted) = {}
    BY <1>4
  <2>2. Fits(between, second)
    BY DEF between
  <2> QED BY <1>1, <1>5, <2>1, <2>2, SplicedElements
<1> HIDE DEF two
<1>8. /\ one \o two \in Seq(Msg) /\ IsInjective(one \o two)
      /\ ToSet(one \o two) = ToSet(one) \union ToSet(two)
  <2>1. ToSet(one) \intersect ToSet(two) = {}
    BY <1>5, <1>7
  <2> QED BY <1>5, <1>7, <2>1, ConcatElements
<1>9. /\ ToSet(one \o two) \subseteq ToSet(PendingOf(lists))
      /\ ToSet(PendingOf(lists')) = ToSet(PendingOf(lists)) \ ToSet(one \o two)
  BY <1>5, <1>7, <1>8
<1> QED BY <1>6, <1>8, <1>9 DEF one, two, between

\* One splice of any kind, with what it notifies: the invariant is kept.
LEMMA SpliceStep ==
  ASSUME InboxInv, NEW target \in Target, NEW start \in Int, NEW deleteCount \in Int,
         NEW messages \in Seq(Msg), Splice(target, start, deleteCount, messages)
  PROVE  InboxInv'
<1> DEFINE splice == Normalized(target, start, deleteCount, messages)
           removed == Removed(lists[target], splice)
<1>1. lists \in Lists /\ IsInjective(PendingOf(lists))
  BY ListsFromLog DEF InboxInv
<1>2. /\ splice \in Record /\ Fits(lists, splice)
      /\ splice.target = target /\ splice.inserted = messages
  BY <1>1, NormalizedFits
<1>3. /\ Mutate(splice)
      /\ discarded' = Notify(discarded, removed)
      /\ inserted' = Notify(inserted, messages)
      /\ claimed' = claimed
  BY DEF Splice
<1> HIDE DEF splice
<1>4. /\ LogReplays' /\ lists' = Mutated(lists, splice)
      /\ IsNoop(splice) \/ IsValid(lists, splice)
  BY <1>2, <1>3, MutateStep DEF InboxInv
<1>5. /\ removed \in Seq(Msg) /\ IsInjective(removed) /\ IsInjective(messages)
      /\ ToSet(removed) \subseteq ToSet(PendingOf(lists))
      /\ ToSet(messages) \intersect (ToSet(PendingOf(lists)) \ ToSet(removed)) = {}
      /\ ToSet(PendingOf(lists')) =
           (ToSet(PendingOf(lists)) \ ToSet(removed)) \union ToSet(messages)
  BY <1>1, <1>2, <1>4, SplicedElements
<1> HIDE DEF removed
<1>6. /\ inserted \in [Msg -> Nat] /\ claimed \in [Msg -> Nat]
      /\ discarded \in [Msg -> Nat] /\ Agreed
  BY AgreedIsPending DEF InboxInv, Counts
<1>7. /\ inserted' \in [Msg -> Nat]
      /\ \A msg \in Msg : inserted'[msg] =
           inserted[msg] + IF msg \in ToSet(messages) THEN 1 ELSE 0
  BY <1>3, <1>5, <1>6, NotifiedOnce
<1>8. /\ discarded' \in [Msg -> Nat]
      /\ \A msg \in Msg : discarded'[msg] =
           discarded[msg] + IF msg \in ToSet(removed) THEN 1 ELSE 0
  BY <1>3, <1>5, <1>6, NotifiedOnce
<1>9. Counts'
  BY <1>3, <1>6, <1>7, <1>8 DEF Counts
<1>10. Agreed'
  <2> SUFFICES ASSUME NEW msg \in Msg
               PROVE  inserted'[msg] = claimed'[msg] + discarded'[msg]
                        + IF msg \in ToSet(PendingOf(lists')) THEN 1 ELSE 0
    BY DEF Agreed
  <2>1. inserted[msg] = claimed[msg] + discarded[msg]
                          + IF msg \in ToSet(PendingOf(lists)) THEN 1 ELSE 0
    BY <1>6 DEF Agreed
  <2>2. /\ inserted[msg] \in Nat /\ claimed[msg] \in Nat /\ discarded[msg] \in Nat
        /\ claimed'[msg] = claimed[msg]
    BY <1>3, <1>6
  <2> QED BY <1>5, <1>7, <1>8, <2>1, <2>2
<1> QED BY <1>4, <1>9, <1>10, AgreedIsPendingNext DEF InboxInv

\* Pure deletions: the counts follow, whichever of them counts the messages.
LEMMA TakenStep ==
  ASSUME InboxInv, LogReplays', NEW taken \in Seq(Msg), IsInjective(taken),
         ToSet(taken) \subseteq ToSet(PendingOf(lists)),
         ToSet(PendingOf(lists')) = ToSet(PendingOf(lists)) \ ToSet(taken),
         inserted' = inserted,
         \/ discarded' = Notify(discarded, taken) /\ claimed' = claimed
         \/ claimed' = Notify(claimed, taken) /\ discarded' = discarded
  PROVE  InboxInv'
<1>1. /\ inserted \in [Msg -> Nat] /\ claimed \in [Msg -> Nat]
      /\ discarded \in [Msg -> Nat] /\ Agreed
  BY AgreedIsPending DEF InboxInv, Counts
<1>2. /\ discarded' \in [Msg -> Nat] /\ claimed' \in [Msg -> Nat]
      /\ \A msg \in Msg : claimed'[msg] + discarded'[msg] =
           claimed[msg] + discarded[msg] + IF msg \in ToSet(taken) THEN 1 ELSE 0
  <2>1. CASE discarded' = Notify(discarded, taken) /\ claimed' = claimed
    <3>1. /\ discarded' \in [Msg -> Nat]
          /\ \A msg \in Msg : discarded'[msg] =
               discarded[msg] + IF msg \in ToSet(taken) THEN 1 ELSE 0
      BY <1>1, <2>1, NotifiedOnce
    <3> QED BY <1>1, <2>1, <3>1
  <2>2. CASE claimed' = Notify(claimed, taken) /\ discarded' = discarded
    <3>1. /\ claimed' \in [Msg -> Nat]
          /\ \A msg \in Msg : claimed'[msg] =
               claimed[msg] + IF msg \in ToSet(taken) THEN 1 ELSE 0
      BY <1>1, <2>2, NotifiedOnce
    <3> QED BY <1>1, <2>2, <3>1
  <2> QED BY <2>1, <2>2
<1>3. Counts'
  BY <1>1, <1>2 DEF Counts
<1>4. Agreed'
  <2> SUFFICES ASSUME NEW msg \in Msg
               PROVE  inserted'[msg] = claimed'[msg] + discarded'[msg]
                        + IF msg \in ToSet(PendingOf(lists')) THEN 1 ELSE 0
    BY DEF Agreed
  <2>1. inserted[msg] = claimed[msg] + discarded[msg]
                          + IF msg \in ToSet(PendingOf(lists)) THEN 1 ELSE 0
    BY <1>1 DEF Agreed
  <2>2. /\ inserted[msg] \in Nat /\ claimed[msg] \in Nat /\ discarded[msg] \in Nat
        /\ inserted'[msg] = inserted[msg]
    BY <1>1
  <2>3. claimed'[msg] \in Nat /\ discarded'[msg] \in Nat
    BY <1>2
  <2> QED BY <1>2, <2>1, <2>2, <2>3
<1> QED BY <1>3, <1>4, AgreedIsPendingNext DEF InboxInv

\* Taking out next-step, then from next-turn, finds next-turn as it was.
LEMMA TwoListsStep ==
  ASSUME InboxInv, NEW count \in Int,
         MutateBoth(Normalized("next-step", 0, Len(lists["next-step"]), <<>>),
                    Normalized("next-turn", 0, count, <<>>))
  PROVE  LET taken == lists["next-step"]
                        \o Removed(lists["next-turn"],
                                   Normalized("next-turn", 0, count, <<>>))
         IN  /\ LogReplays'
             /\ taken \in Seq(Msg) /\ IsInjective(taken)
             /\ ToSet(taken) \subseteq ToSet(PendingOf(lists))
             /\ ToSet(PendingOf(lists')) = ToSet(PendingOf(lists)) \ ToSet(taken)
<1> DEFINE first == Normalized("next-step", 0, Len(lists["next-step"]), <<>>)
           second == Normalized("next-turn", 0, count, <<>>)
           between == Mutated(lists, first)
<1>1. /\ LogReplays /\ lists \in Lists /\ IsInjective(PendingOf(lists))
      /\ "next-turn" \in Target /\ "next-step" \in Target
      /\ Len(lists["next-step"]) \in Int /\ <<>> \in Seq(Msg)
  <2>1. LogReplays /\ lists \in Lists /\ IsInjective(PendingOf(lists))
    BY ListsFromLog DEF InboxInv
  <2> QED BY <2>1 DEF Lists, Target
<1>2. /\ first \in Record /\ Fits(lists, first)
      /\ first.target = "next-step" /\ first.inserted = <<>>
  BY <1>1, DeletionFits
<1>3. /\ second \in Record /\ Fits(lists, second)
      /\ second.target = "next-turn" /\ second.inserted = <<>>
  BY <1>1, DeletionFits
<1>4. Removed(lists["next-step"], first) = lists["next-step"]
  BY <1>1, WholeRemoved
<1>5. MutateBoth(first, second)
  OBVIOUS
<1> HIDE DEF first, second
<1>6. between["next-turn"] = lists["next-turn"]
  <2>1. Other("next-step") = "next-turn"
    BY DEF Other
  <2>2. IsNoop(first) \/ IsValid(lists, first)
    BY <1>5 DEF MutateBoth
  <2>3. between[Other(first.target)] = lists[Other(first.target)]
    BY <1>1, <1>2, <2>2, SplicedElements
  <2> QED BY <1>2, <2>1, <2>3
<1>7. Fits(between, second)
  BY <1>3, <1>6 DEF Fits
<1>8. LET taken == Removed(lists[first.target], first)
                     \o Removed(between[second.target], second)
      IN  /\ LogReplays'
          /\ taken \in Seq(Msg) /\ IsInjective(taken)
          /\ ToSet(taken) \subseteq ToSet(PendingOf(lists))
          /\ ToSet(PendingOf(lists')) = ToSet(PendingOf(lists)) \ ToSet(taken)
  BY <1>1, <1>2, <1>3, <1>5, <1>7, MutateBothStep
<1>9. Removed(lists[first.target], first) \o Removed(between[second.target], second)
        = lists["next-step"] \o Removed(lists["next-turn"], second)
  BY <1>2, <1>3, <1>4, <1>6
<1> HIDE DEF between
<1>10. LET taken == lists["next-step"] \o Removed(lists["next-turn"], second)
       IN  /\ LogReplays'
           /\ taken \in Seq(Msg) /\ IsInjective(taken)
           /\ ToSet(taken) \subseteq ToSet(PendingOf(lists))
           /\ ToSet(PendingOf(lists')) = ToSet(PendingOf(lists)) \ ToSet(taken)
  BY <1>8, <1>9
<1> QED BY <1>10 DEF second

\* clear discards both lists.
LEMMA ClearStep ==
  ASSUME InboxInv, clear
  PROVE  InboxInv'
<1>1. /\ MutateBoth(Normalized("next-step", 0, Len(lists["next-step"]), <<>>),
                    Normalized("next-turn", 0, Len(lists["next-turn"]), <<>>))
      /\ discarded' = Notify(discarded, lists["next-step"] \o lists["next-turn"])
      /\ inserted' = inserted /\ claimed' = claimed
  BY DEF clear
<1>2. /\ lists \in Lists /\ Len(lists["next-turn"]) \in Int /\ "next-turn" \in Target
  <2>1. lists \in Lists
    BY ListsFromLog DEF InboxInv
  <2> QED BY <2>1 DEF Lists, Target
<1>3. Removed(lists["next-turn"],
              Normalized("next-turn", 0, Len(lists["next-turn"]), <<>>))
        = lists["next-turn"]
  BY <1>2, WholeRemoved
<1> DEFINE taken == lists["next-step"] \o lists["next-turn"]
<1>4. /\ LogReplays'
      /\ taken \in Seq(Msg) /\ IsInjective(taken)
      /\ ToSet(taken) \subseteq ToSet(PendingOf(lists))
      /\ ToSet(PendingOf(lists')) = ToSet(PendingOf(lists)) \ ToSet(taken)
  BY <1>1, <1>2, <1>3, TwoListsStep
<1>5. discarded' = Notify(discarded, taken)
  BY <1>1
<1> HIDE DEF taken
<1> QED BY <1>1, <1>4, <1>5, TakenStep

\* claim takes next-step and, at a turn boundary, the first of next-turn.
LEMMA ClaimStep ==
  ASSUME InboxInv, NEW target \in Target, claim(target)
  PROVE  InboxInv'
<1> DEFINE steps == Normalized("next-step", 0, Len(lists["next-step"]), <<>>)
           turn == Normalized("next-turn", 0, 1, <<>>)
<1>1. inserted' = inserted /\ discarded' = discarded
  BY DEF claim
<1>2. CASE /\ MutateBoth(steps, turn)
           /\ claimed' = Notify(claimed, lists["next-step"]
                                           \o Removed(lists["next-turn"], turn))
  <2> DEFINE taken == lists["next-step"] \o Removed(lists["next-turn"], turn)
  <2>1. /\ LogReplays'
        /\ taken \in Seq(Msg) /\ IsInjective(taken)
        /\ ToSet(taken) \subseteq ToSet(PendingOf(lists))
        /\ ToSet(PendingOf(lists')) = ToSet(PendingOf(lists)) \ ToSet(taken)
    BY <1>2, TwoListsStep
  <2>2. claimed' = Notify(claimed, taken)
    BY <1>2
  <2> HIDE DEF taken
  <2> QED BY <1>1, <2>1, <2>2, TakenStep
<1>3. CASE Mutate(steps) /\ claimed' = Notify(claimed, lists["next-step"])
  <2>1. /\ LogReplays /\ lists \in Lists /\ IsInjective(PendingOf(lists))
        /\ "next-step" \in Target
        /\ Len(lists["next-step"]) \in Int /\ <<>> \in Seq(Msg)
    <3>1. LogReplays /\ lists \in Lists /\ IsInjective(PendingOf(lists))
      BY ListsFromLog DEF InboxInv
    <3> QED BY <3>1 DEF Lists, Target
  <2>2. /\ steps \in Record /\ Fits(lists, steps)
        /\ steps.target = "next-step" /\ steps.inserted = <<>>
    BY <2>1, DeletionFits
  <2>3. Removed(lists["next-step"], steps) = lists["next-step"]
    BY <2>1, WholeRemoved
  <2> HIDE DEF steps
  <2>4. /\ LogReplays' /\ lists' = Mutated(lists, steps)
        /\ IsNoop(steps) \/ IsValid(lists, steps)
    BY <1>3, <2>1, <2>2, MutateStep
  <2> DEFINE taken == lists["next-step"]
  <2>5. ToSet(steps.inserted) = {}
    BY <2>2 DEF ToSet
  <2>6. /\ taken \in Seq(Msg) /\ IsInjective(taken)
        /\ ToSet(taken) \subseteq ToSet(PendingOf(lists))
        /\ ToSet(PendingOf(lists')) = ToSet(PendingOf(lists)) \ ToSet(taken)
    BY <2>1, <2>2, <2>3, <2>4, <2>5, SplicedElements
  <2>7. claimed' = Notify(claimed, taken)
    BY <1>3
  <2> HIDE DEF taken
  <2> QED BY <1>1, <2>4, <2>6, <2>7, TakenStep
<1> QED BY <1>2, <1>3 DEF claim

\* A prefix of the log replays, and its pending messages count once each.
LEMMA RestartStep ==
  ASSUME InboxInv, Restart
  PROVE  InboxInv'
<1>1. PICK kept \in 0 .. Len(splices) :
        LET log == SubSeq(splices, 1, kept)
            queued == Replay(log)["next-turn"] \o Replay(log)["next-step"]
        IN  /\ splices' = log
            /\ lists' = Replay(log)
            /\ inserted' = Notify(Nobody, queued)
            /\ claimed' = Nobody /\ discarded' = Nobody
  BY DEF Restart
<1> DEFINE log == SubSeq(splices, 1, kept)
<1>2. /\ splices' = log /\ lists' = Replay(log)
      /\ inserted' = Notify(Nobody, PendingOf(Replay(log)))
      /\ claimed' = Nobody /\ discarded' = Nobody
  BY <1>1 DEF PendingOf
<1>3. splices \in Seq(Record) /\ Len(splices) <= MaxSplices /\ Replays(splices)
  BY DEF InboxInv, LogReplays
<1>4. /\ log \in Seq(Record) /\ Len(log) = kept /\ kept <= MaxSplices
      /\ \A i \in 1 .. kept : log[i] = splices[i]
      /\ \A n \in 0 .. kept : SubSeq(log, 1, n) = SubSeq(splices, 1, n)
  <2>1. MaxSplices \in Nat /\ Len(splices) \in Nat /\ kept \in Nat
    BY <1>3, MaxSplicesAssumption
  <2>2. \A i \in 1 .. kept : splices[i] \in Record
    BY <1>3
  <2>3. /\ log \in Seq(Record) /\ Len(log) = kept
        /\ \A i \in 1 .. kept : log[i] = splices[i]
    BY <2>1, <2>2, SubSeqProperties
  <2>4. \A n \in 0 .. kept : SubSeq(log, 1, n) = SubSeq(splices, 1, n)
    <3> TAKE n \in 0 .. kept
    <3>1. \A i \in 1 .. n : log[i] = splices[i] /\ splices[i] \in Record
      BY <2>1, <2>2, <2>3
    <3>2. n \in Nat
      BY <2>1
    <3> HIDE DEF log
    <3>3. /\ SubSeq(log, 1, n) \in Seq(Record) /\ Len(SubSeq(log, 1, n)) = n
          /\ \A i \in 1 .. n : SubSeq(log, 1, n)[i] = log[i]
      BY <3>1, <3>2, SubSeqProperties
    <3>4. /\ SubSeq(splices, 1, n) \in Seq(Record) /\ Len(SubSeq(splices, 1, n)) = n
          /\ \A i \in 1 .. n : SubSeq(splices, 1, n)[i] = splices[i]
      BY <3>1, <3>2, SubSeqProperties
    <3> QED BY <3>1, <3>3, <3>4, SeqEqual
  <2> QED BY <1>3, <2>1, <2>3, <2>4
<1> HIDE DEF log
<1>5. /\ Replay(log) \in Lists /\ IsInjective(PendingOf(Replay(log)))
  <2>1. kept \in 0 .. kept /\ SubSeq(log, 1, kept) = log
    BY <1>4
  <2>2. SubSeq(splices, 1, kept) = log
    BY <1>4, <2>1
  <2> QED BY <1>3, <2>2 DEF Replays
<1>6. Replays(log)
  <2>1. ASSUME NEW n \in 0 .. Len(log)
        PROVE  /\ Replay(SubSeq(log, 1, n)) \in Lists
               /\ IsInjective(PendingOf(Replay(SubSeq(log, 1, n))))
    <3>1. n \in 0 .. Len(splices) /\ SubSeq(log, 1, n) = SubSeq(splices, 1, n)
      BY <1>4
    <3> QED BY <1>3, <3>1 DEF Replays
  <2>2. ASSUME NEW i \in 1 .. Len(log)
        PROVE  /\ IsValid(Replay(SubSeq(log, 1, i - 1)), log[i])
               /\ ~IsNoop(log[i])
    <3>1. /\ i \in 1 .. Len(splices) /\ log[i] = splices[i]
          /\ i - 1 \in 0 .. kept
      BY <1>4
    <3>2. SubSeq(log, 1, i - 1) = SubSeq(splices, 1, i - 1)
      BY <1>4, <3>1
    <3> QED BY <1>3, <3>1, <3>2 DEF Replays
  <2> QED BY <2>1, <2>2 DEF Replays
<1>7. LogReplays'
  BY <1>2, <1>4, <1>6 DEF LogReplays
<1>8. Nobody \in [Msg -> Nat] /\ \A msg \in Msg : Nobody[msg] = 0
  BY DEF Nobody
<1>9. PendingOf(Replay(log)) \in Seq(Msg)
  <2>1. "next-turn" \in Target
    BY DEF Target
  <2> QED BY <1>5, <2>1, PendingElements
<1>10. /\ inserted' \in [Msg -> Nat]
       /\ \A msg \in Msg : inserted'[msg] =
            0 + IF msg \in ToSet(PendingOf(lists')) THEN 1 ELSE 0
  <2>1. /\ Notify(Nobody, PendingOf(Replay(log))) \in [Msg -> Nat]
        /\ \A msg \in Msg : Notify(Nobody, PendingOf(Replay(log)))[msg] =
             Nobody[msg] + IF msg \in ToSet(PendingOf(Replay(log))) THEN 1 ELSE 0
    BY <1>5, <1>8, <1>9, NotifiedOnce
  <2> QED BY <1>2, <1>8, <2>1
<1>11. Counts'
  BY <1>2, <1>8, <1>10 DEF Counts
<1>12. Agreed'
  <2> SUFFICES ASSUME NEW msg \in Msg
               PROVE  inserted'[msg] = claimed'[msg] + discarded'[msg]
                        + IF msg \in ToSet(PendingOf(lists')) THEN 1 ELSE 0
    BY DEF Agreed
  <2>1. claimed'[msg] = 0 /\ discarded'[msg] = 0
    BY <1>2, <1>8
  <2> QED BY <1>10, <2>1
<1> QED BY <1>7, <1>11, <1>12, AgreedIsPendingNext DEF InboxInv

\* An empty log replays to empty lists.
LEMMA InitInboxInv == Init => InboxInv
<1> SUFFICES ASSUME Init PROVE InboxInv
  OBVIOUS
<1>1. /\ lists = Empty /\ splices = <<>>
      /\ inserted = Nobody /\ claimed = Nobody /\ discarded = Nobody
  BY DEF Init
<1>2. Empty \in Lists /\ PendingOf(Empty) = <<>>
  BY DEF Empty, Lists, Target, PendingOf
<1>3. IsInjective(<<>>) /\ ToSet(<<>>) = {}
  BY DEF IsInjective, ToSet
<1>4. Replays(splices)
  <2>1. Len(splices) = 0 /\ SubSeq(splices, 1, 0) = <<>>
    BY <1>1
  <2>2. ASSUME NEW n \in 0 .. Len(splices)
        PROVE  /\ Replay(SubSeq(splices, 1, n)) \in Lists
               /\ IsInjective(PendingOf(Replay(SubSeq(splices, 1, n))))
    <3>1. n = 0
      BY <2>1
    <3>2. Replay(SubSeq(splices, 1, n)) = Empty
      BY <2>1, <3>1, ReplayEmpty
    <3> QED BY <1>2, <1>3, <3>2
  <2>3. 1 .. Len(splices) = {}
    BY <2>1
  <2> QED BY <2>2, <2>3 DEF Replays
<1>5. LogReplays
  <2>1. splices \in Seq(Record) /\ Len(splices) = 0
    BY <1>1
  <2> QED BY <1>1, <1>4, <2>1, ReplayEmpty, MaxSplicesAssumption DEF LogReplays
<1>6. Counts
  BY <1>1 DEF Counts, Nobody
<1>7. Agreed
  BY <1>1, <1>2, <1>3 DEF Agreed, Nobody
<1> QED BY <1>5, <1>6, <1>7, AgreedIsPending DEF InboxInv

\* Every operation, and a restart, keeps the invariant.
LEMMA NextInboxInv == InboxInv /\ [Next]_vars => InboxInv'
<1> SUFFICES ASSUME InboxInv, [Next]_vars PROVE InboxInv'
  OBVIOUS
<1>0. \A msg \in Msg : <<msg>> \in Seq(Msg)
  OBVIOUS
<1>1. lists \in Lists
  BY ListsFromLog DEF InboxInv
<1>2. \A target \in Target : Len(lists[target]) \in Int /\ lists[target] \in Seq(Msg)
  BY <1>1 DEF Lists
<1>3. ASSUME NEW target \in Target, NEW msg \in Msg, append(target, msg)
      PROVE  InboxInv'
  <2> DEFINE messages == <<msg>>
  <2>1. /\ messages \in Seq(Msg) /\ Len(lists[target]) \in Int
        /\ Splice(target, Len(lists[target]), 0, messages)
    BY <1>0, <1>2, <1>3 DEF append
  <2> HIDE DEF messages
  <2> QED BY <2>1, SpliceStep
<1>4. ASSUME NEW target \in Target, NEW msg \in Msg, prepend(target, msg)
      PROVE  InboxInv'
  <2> DEFINE messages == <<msg>>
  <2>1. messages \in Seq(Msg) /\ Splice(target, 0, 0, messages)
    BY <1>0, <1>4 DEF prepend
  <2> HIDE DEF messages
  <2> QED BY <2>1, SpliceStep
<1>5. ASSUME NEW target \in Target, NEW start \in -2 .. 3, NEW deleteCount \in -1 .. 2,
             Splice(target, start, deleteCount, <<>>)
      PROVE  InboxInv'
  <2>1. start \in Int /\ deleteCount \in Int /\ <<>> \in Seq(Msg)
    OBVIOUS
  <2> QED BY <1>5, <2>1, SpliceStep
<1>6. ASSUME NEW target \in Target, NEW start \in -2 .. 3, NEW messages \in Msg \X Msg,
             Splice(target, start, 1, messages)
      PROVE  InboxInv'
  <2>1. messages \in Seq(Msg)
    <3>1. PICK first \in Msg, second \in Msg : messages = <<first, second>>
      OBVIOUS
    <3>2. <<first, second>> \in Seq(Msg)
      OBVIOUS
    <3> QED BY <3>1, <3>2
  <2> QED BY <1>6, <2>1, SpliceStep
<1>7. ASSUME NEW old \in Msg, remove(old)
      PROVE  InboxInv'
  <2>1. PICK target \in Target :
          \E i \in DOMAIN lists[target] : Splice(target, i - 1, 1, <<>>)
    BY <1>7 DEF remove
  <2>2. PICK i \in DOMAIN lists[target] : Splice(target, i - 1, 1, <<>>)
    BY <2>1
  <2>3. i - 1 \in Int /\ 1 \in Int /\ <<>> \in Seq(Msg)
    BY <1>2
  <2> QED BY <2>2, <2>3, SpliceStep
<1>8. ASSUME NEW old \in Msg, NEW new \in Msg, replace(old, new)
      PROVE  InboxInv'
  <2>1. PICK target \in Target :
          \E i \in DOMAIN lists[target] : Splice(target, i - 1, 1, <<new>>)
    BY <1>8 DEF replace
  <2>2. PICK i \in DOMAIN lists[target] : Splice(target, i - 1, 1, <<new>>)
    BY <2>1
  <2>3. i - 1 \in Int /\ 1 \in Int /\ <<new>> \in Seq(Msg)
    BY <1>0, <1>2
  <2> QED BY <2>2, <2>3, SpliceStep
<1>9. CASE UNCHANGED vars
  BY <1>9 DEF vars, InboxInv, LogReplays, Counts, PendingAsNotified
<1> QED BY <1>3, <1>4, <1>5, <1>6, <1>7, <1>8, <1>9, ClearStep, ClaimStep, RestartStep
        DEF Next

\* InboxInv holds throughout: it is what Spec's proofs below rest on.
LEMMA InboxInvariant == Spec => []InboxInv
  BY InitInboxInv, NextInboxInv, PTL DEF Spec

\* The lists hold messages, the log holds well-formed splices that each change
\* something, and the notifications are counted (inbox.ts state, mutate).
THEOREM InboxTypeCorrect == Spec => []TypeOK
<1>1. InboxInv => TypeOK
  <2> SUFFICES ASSUME InboxInv PROVE TypeOK
    OBVIOUS
  <2>1. lists \in [Target -> Seq(Msg)]
    BY ListsFromLog DEF InboxInv, Lists
  <2>2. /\ splices \in Seq(Record) /\ Len(splices) <= MaxSplices
        /\ \A i \in 1 .. Len(splices) : ~IsNoop(splices[i])
    BY DEF InboxInv, LogReplays, Replays
  <2>3. \A i \in DOMAIN splices :
          splices[i].removedCount > 0 \/ splices[i].inserted # <<>>
    <3> TAKE i \in DOMAIN splices
    <3>1. i \in 1 .. Len(splices) /\ splices[i] \in Record
      BY <2>2
    <3>2. splices[i].removedCount \in Nat
      BY <3>1 DEF Record
    <3>3. splices[i].removedCount # 0 \/ splices[i].inserted # <<>>
      BY <2>2, <3>1 DEF IsNoop
    <3> QED BY <3>2, <3>3
  <2> QED BY <2>1, <2>2, <2>3 DEF TypeOK, Record, InboxInv, Counts
<1> QED BY <1>1, InboxInvariant, PTL

\* Wherever persistence stops, what it kept replays without an invalid splice,
\* and the whole log replays to the live lists (inbox.ts constructor, apply).
THEOREM RestartRebuilds == Spec => []ReplayRebuilds
<1>1. InboxInv => ReplayRebuilds
  <2> SUFFICES ASSUME InboxInv PROVE ReplayRebuilds
    OBVIOUS
  <2>1. splices \in Seq(Record) /\ Replays(splices) /\ Replay(splices) = lists
    BY DEF InboxInv, LogReplays
  <2>2. DOMAIN splices = 1 .. Len(splices)
    BY <2>1
  <2> QED BY <2>1, <2>2 DEF ReplayRebuilds, Replays
<1> QED BY <1>1, InboxInvariant, PTL

\* A consumer of the notifications knows what is pending (inbox.ts mutate,
\* claim; validate keeps an identity from being pending twice).
THEOREM NotifiedAsPending == Spec => []PendingAsNotified
<1>1. InboxInv => PendingAsNotified
  BY DEF InboxInv
<1> QED BY <1>1, InboxInvariant, PTL
===============================================================================
