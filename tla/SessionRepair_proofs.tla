------------------------ MODULE SessionRepair_proofs -------------------------
(***************************************************************************)
(* Proofs about the log of one session, its store, and the repair of an    *)
(* interrupted turn, for every set of calls and every number of crashes.   *)
(*                                                                         *)
(* Every prefix of the log may be what a restart finds, so the invariant   *)
(* is about the log's events and not about the loop's place: a log is      *)
(* Legal when each of its events fits where it stands.  Legality passes    *)
(* to prefixes at once and to a longer log when one more event fits, and   *)
(* what is Known of a legal log, the shape of its open step above all, is  *)
(* found by induction over its length.  The repair reads the log with      *)
(* Scan; Known ties Scan's cursor to the companion's trace, and from there *)
(* each closer fits behind the one before it.                              *)
(***************************************************************************)
EXTENDS SessionRepair, SequenceTheorems, FiniteSetTheorems, TLAPS

-----------------------------------------------------------------------------
(* Induction over the natural numbers, stated over sets.                   *)

\* A set of naturals has a least element: of the intervals below its members,
\* one contains no other.
LEMMA LeastElement ==
  ASSUME NEW T \in SUBSET Nat, T # {}
  PROVE  \E x \in T : \A y \in T : x <= y
<1> DEFINE Below(n) == 0 .. n
           Intervals == {Below(n) : n \in T}
<1>1. \A n \in Nat : Below(n) \in FiniteSubsetsOf(Nat)
  <2> TAKE n \in Nat
  <2>1. IsFiniteSet(0 .. n)
    BY FS_Interval
  <2>2. 0 .. n \subseteq Nat
    OBVIOUS
  <2> QED BY <2>1, <2>2 DEF FiniteSubsetsOf
<1>2. Intervals \subseteq FiniteSubsetsOf(Nat) /\ Intervals # {}
  BY <1>1
<1>3. PICK s \in Intervals :
        \A r \in Intervals : <<r, s>> \notin StrictSubsetOrdering(Nat)
  <2> HIDE DEF Intervals
  <2> QED BY <1>2, WFMin, FS_StrictSubsetOrderingWellFounded
<1>4. PICK x \in T : s = Below(x)
  BY <1>3
<1>5. \A y \in T : x <= y
  <2> SUFFICES ASSUME NEW y \in T, y < x PROVE FALSE
    BY <1>4
  <2>1. Below(y) \subseteq Below(x) /\ Below(y) # Below(x)
    <3>1. x \in Below(x) /\ x \notin Below(y)
      OBVIOUS
    <3> QED BY <3>1
  <2>2. Below(y) \subseteq Nat /\ Below(x) \subseteq Nat
    OBVIOUS
  <2>3. <<Below(y), Below(x)>> \in StrictSubsetOrdering(Nat)
    <3> HIDE DEF Below
    <3> QED BY <2>1, <2>2 DEF StrictSubsetOrdering
  <2> QED BY <1>3, <1>4, <2>3
<1> QED BY <1>5

\* A set that holds 0 and every successor of its members holds them all.
LEMMA SetInduction ==
  ASSUME NEW T \in SUBSET Nat, 0 \in T, \A n \in T : n + 1 \in T
  PROVE  T = Nat
<1> SUFFICES ASSUME T # Nat PROVE FALSE
  OBVIOUS
<1>1. PICK x \in Nat \ T : \A y \in Nat \ T : x <= y
  BY LeastElement
<1>2. x # 0 /\ x - 1 \in Nat /\ x - 1 \notin T
  BY <1>1
<1> QED BY <1>1, <1>2

-----------------------------------------------------------------------------
(* The companion's trace, one event after another.                         *)

\* f holds the trace after the first n events, for every n.
TraceRun(f, seq) ==
  f = [n \in 0 .. Len(seq) |->
         IF n = 0 THEN Log!FreshTrace ELSE Applied(f[n - 1], seq[n])]

\* Every log has a run: that of a log without its last event, and one more.
LEMMA TraceRunExists ==
  ASSUME NEW R, NEW seq \in Seq(R)
  PROVE  \E f : TraceRun(f, seq)
<1> DEFINE Step(g, n) == IF n = 0 THEN Log!FreshTrace ELSE Applied(g[n - 1], seq[n])
           T == {m \in Nat : m <= Len(seq) =>
                   \E g : g = [n \in 0 .. m |-> Step(g, n)]}
<1>1. 0 \in T
  <2> DEFINE g == [n \in 0 .. 0 |-> Log!FreshTrace]
  <2>1. g = [n \in 0 .. 0 |-> Step(g, n)]
    OBVIOUS
  <2> HIDE DEF g, Step
  <2> QED BY <2>1
<1>2. ASSUME NEW m \in T PROVE m + 1 \in T
  <2> SUFFICES ASSUME m + 1 <= Len(seq)
               PROVE  \E g : g = [n \in 0 .. m + 1 |-> Step(g, n)]
    OBVIOUS
  <2>1. PICK h : h = [n \in 0 .. m |-> Step(h, n)]
    BY <1>2
  <2> DEFINE g == [n \in 0 .. m + 1 |->
                     IF n = m + 1 THEN Applied(h[m], seq[n]) ELSE h[n]]
  <2>2. g = [n \in 0 .. m + 1 |-> Step(g, n)]
    <3>1. ASSUME NEW n \in 0 .. m + 1 PROVE g[n] = Step(g, n)
      <4>1. CASE n = m + 1
        BY <4>1
      <4>2. CASE n # m + 1
        <5>1. n \in 0 .. m /\ g[n] = h[n]
          BY <4>2
        <5>2. h[n] = Step(h, n)
          BY <2>1, <5>1
        <5>3. n # 0 => g[n - 1] = h[n - 1]
          BY <5>1
        <5> QED BY <5>1, <5>2, <5>3
      <4> QED BY <4>1, <4>2
    <3> HIDE DEF Step
    <3> QED BY <3>1
  <2> HIDE DEF g, Step
  <2> QED BY <2>2
<1>3. T = Nat
  <2> HIDE DEF T
  <2>1. T \in SUBSET Nat
    BY DEF T
  <2> QED BY <1>1, <1>2, <2>1, SetInduction
<1> QED BY <1>3 DEF TraceRun

\* A run begins with the fresh trace and applies event after event.
LEMMA TraceRunSteps ==
  ASSUME NEW R, NEW seq \in Seq(R), NEW f, TraceRun(f, seq)
  PROVE  /\ f[0] = Log!FreshTrace
         /\ \A n \in Nat : n < Len(seq) =>
              f[n + 1] = Applied(f[n], seq[n + 1])
<1>1. 0 \in 0 .. Len(seq)
  OBVIOUS
<1>2. ASSUME NEW n \in Nat, n < Len(seq)
      PROVE  n + 1 \in 0 .. Len(seq) /\ n + 1 # 0 /\ n + 1 - 1 = n
  BY <1>2
<1> QED BY <1>1, <1>2 DEF TraceRun

\* Runs agree as far as their logs do.
LEMMA TraceRunsAgree ==
  ASSUME NEW R, NEW seq \in Seq(R), NEW longer \in Seq(R),
         Len(seq) <= Len(longer), \A n \in 1 .. Len(seq) : seq[n] = longer[n],
         NEW f, TraceRun(f, seq), NEW g, TraceRun(g, longer)
  PROVE  \A n \in 0 .. Len(seq) : f[n] = g[n]
<1> DEFINE T == {n \in Nat : n <= Len(seq) => f[n] = g[n]}
<1>1. 0 \in T
  <2>1. f[0] = Log!FreshTrace
    BY TraceRunSteps
  <2>2. g[0] = Log!FreshTrace
    BY TraceRunSteps
  <2> QED BY <2>1, <2>2
<1>2. ASSUME NEW n \in T PROVE n + 1 \in T
  <2> SUFFICES ASSUME n + 1 <= Len(seq) PROVE f[n + 1] = g[n + 1]
    OBVIOUS
  <2>1. f[n] = g[n] /\ seq[n + 1] = longer[n + 1]
    BY <1>2
  <2>2. f[n + 1] = Applied(f[n], seq[n + 1])
    BY TraceRunSteps
  <2>3. g[n + 1] = Applied(g[n], longer[n + 1])
    BY TraceRunSteps
  <2> QED BY <2>1, <2>2, <2>3
<1>3. T = Nat
  <2> HIDE DEF T
  <2>1. T \in SUBSET Nat
    BY DEF T
  <2> QED BY <1>1, <1>2, <2>1, SetInduction
<1> QED BY <1>3

\* TraceOf is the end of the run.
LEMMA TraceRunEnd ==
  ASSUME NEW R, NEW seq \in Seq(R), NEW f, TraceRun(f, seq)
  PROVE  TraceOf(seq) = f[Len(seq)]
<1> DEFINE after[n \in 0 .. Len(seq)] ==
             IF n = 0 THEN Log!FreshTrace ELSE Applied(after[n - 1], seq[n])
<1>1. after = CHOOSE g : g = [n \in 0 .. Len(seq) |->
                                IF n = 0 THEN Log!FreshTrace
                                ELSE Applied(g[n - 1], seq[n])]
  OBVIOUS
<1>2. TraceOf(seq) = after[Len(seq)]
  BY DEF TraceOf
<1>3. TraceRun(after, seq)
  <2> HIDE DEF after
  <2> QED BY <1>1 DEF TraceRun
<1> HIDE DEF after
<1>4. after[Len(seq)] = f[Len(seq)]
  BY <1>3, TraceRunsAgree
<1> QED BY <1>2, <1>4

\* TraceOf starts fresh and applies the last event last.
LEMMA TraceOfEmpty ==
  TraceOf(<<>>) = Log!FreshTrace
<1>1. <<>> \in Seq({}) /\ Len(<<>>) = 0
  OBVIOUS
<1>2. PICK f : TraceRun(f, <<>>)
  BY <1>1, TraceRunExists
<1>3. f[0] = Log!FreshTrace
  BY <1>2 DEF TraceRun
<1> QED BY <1>1, <1>2, <1>3, TraceRunEnd

LEMMA TraceOfAppend ==
  ASSUME NEW R, NEW seq \in Seq(R), NEW last \in R
  PROVE  TraceOf(Append(seq, last)) = Applied(TraceOf(seq), last)
<1> DEFINE longer == Append(seq, last)
<1>1. /\ longer \in Seq(R) /\ Len(longer) = Len(seq) + 1
      /\ \A n \in 1 .. Len(seq) : seq[n] = longer[n]
      /\ longer[Len(seq) + 1] = last
  OBVIOUS
<1> HIDE DEF longer
<1>2. PICK f : TraceRun(f, seq)
  BY TraceRunExists
<1>3. PICK g : TraceRun(g, longer)
  BY <1>1, TraceRunExists
<1>4. f[Len(seq)] = g[Len(seq)]
  <2>1. Len(seq) <= Len(longer)
    BY <1>1
  <2>2. \A n \in 0 .. Len(seq) : f[n] = g[n]
    BY <1>1, <1>2, <1>3, <2>1, TraceRunsAgree
  <2> QED BY <2>2
<1>5. g[Len(seq) + 1] = Applied(g[Len(seq)], last)
  <2>1. Len(seq) \in Nat /\ Len(seq) < Len(longer)
    BY <1>1
  <2> QED BY <1>1, <1>3, <2>1, TraceRunSteps
<1>6. TraceOf(seq) = f[Len(seq)] /\ TraceOf(longer) = g[Len(seq) + 1]
  BY <1>1, <1>2, <1>3, TraceRunEnd
<1> QED BY <1>4, <1>5, <1>6 DEF longer

-----------------------------------------------------------------------------
(* The scan's cursor, likewise.                                            *)

\* f holds the cursor after the first n events.
ScanRun(f, seq) ==
  f = [n \in 0 .. Len(seq) |->
         IF n = 0 THEN Nothing ELSE Scanned(f[n - 1], seq[n])]

\* Every log has a run of the scan.
LEMMA ScanRunExists ==
  ASSUME NEW R, NEW seq \in Seq(R)
  PROVE  \E f : ScanRun(f, seq)
<1> DEFINE Step(g, n) == IF n = 0 THEN Nothing ELSE Scanned(g[n - 1], seq[n])
           T == {m \in Nat : m <= Len(seq) =>
                   \E g : g = [n \in 0 .. m |-> Step(g, n)]}
<1>1. 0 \in T
  <2> DEFINE g == [n \in 0 .. 0 |-> Nothing]
  <2>1. g = [n \in 0 .. 0 |-> Step(g, n)]
    OBVIOUS
  <2> HIDE DEF g, Step
  <2> QED BY <2>1
<1>2. ASSUME NEW m \in T PROVE m + 1 \in T
  <2> SUFFICES ASSUME m + 1 <= Len(seq)
               PROVE  \E g : g = [n \in 0 .. m + 1 |-> Step(g, n)]
    OBVIOUS
  <2>1. PICK h : h = [n \in 0 .. m |-> Step(h, n)]
    BY <1>2
  <2> DEFINE g == [n \in 0 .. m + 1 |->
                     IF n = m + 1 THEN Scanned(h[m], seq[n]) ELSE h[n]]
  <2>2. g = [n \in 0 .. m + 1 |-> Step(g, n)]
    <3>1. ASSUME NEW n \in 0 .. m + 1 PROVE g[n] = Step(g, n)
      <4>1. CASE n = m + 1
        BY <4>1
      <4>2. CASE n # m + 1
        <5>1. n \in 0 .. m /\ g[n] = h[n]
          BY <4>2
        <5>2. h[n] = Step(h, n)
          BY <2>1, <5>1
        <5>3. n # 0 => g[n - 1] = h[n - 1]
          BY <5>1
        <5> QED BY <5>1, <5>2, <5>3
      <4> QED BY <4>1, <4>2
    <3> HIDE DEF Step
    <3> QED BY <3>1
  <2> HIDE DEF g, Step
  <2> QED BY <2>2
<1>3. T = Nat
  <2> HIDE DEF T
  <2>1. T \in SUBSET Nat
    BY DEF T
  <2> QED BY <1>1, <1>2, <2>1, SetInduction
<1> QED BY <1>3 DEF ScanRun

\* It begins with nothing open and scans event after event.
LEMMA ScanRunSteps ==
  ASSUME NEW R, NEW seq \in Seq(R), NEW f, ScanRun(f, seq)
  PROVE  /\ f[0] = Nothing
         /\ \A n \in Nat : n < Len(seq) =>
              f[n + 1] = Scanned(f[n], seq[n + 1])
<1>1. 0 \in 0 .. Len(seq)
  OBVIOUS
<1>2. ASSUME NEW n \in Nat, n < Len(seq)
      PROVE  n + 1 \in 0 .. Len(seq) /\ n + 1 # 0 /\ n + 1 - 1 = n
  BY <1>2
<1> QED BY <1>1, <1>2 DEF ScanRun

\* Runs agree as far as their logs do.
LEMMA ScanRunsAgree ==
  ASSUME NEW R, NEW seq \in Seq(R), NEW longer \in Seq(R),
         Len(seq) <= Len(longer), \A n \in 1 .. Len(seq) : seq[n] = longer[n],
         NEW f, ScanRun(f, seq), NEW g, ScanRun(g, longer)
  PROVE  \A n \in 0 .. Len(seq) : f[n] = g[n]
<1> DEFINE T == {n \in Nat : n <= Len(seq) => f[n] = g[n]}
<1>1. 0 \in T
  <2>1. f[0] = Nothing
    BY ScanRunSteps
  <2>2. g[0] = Nothing
    BY ScanRunSteps
  <2> QED BY <2>1, <2>2
<1>2. ASSUME NEW n \in T PROVE n + 1 \in T
  <2> SUFFICES ASSUME n + 1 <= Len(seq) PROVE f[n + 1] = g[n + 1]
    OBVIOUS
  <2>1. f[n] = g[n] /\ seq[n + 1] = longer[n + 1]
    BY <1>2
  <2>2. f[n + 1] = Scanned(f[n], seq[n + 1])
    BY ScanRunSteps
  <2>3. g[n + 1] = Scanned(g[n], longer[n + 1])
    BY ScanRunSteps
  <2> QED BY <2>1, <2>2, <2>3
<1>3. T = Nat
  <2> HIDE DEF T
  <2>1. T \in SUBSET Nat
    BY DEF T
  <2> QED BY <1>1, <1>2, <2>1, SetInduction
<1> QED BY <1>3

\* Scan is the end of the run.
LEMMA ScanRunEnd ==
  ASSUME NEW R, NEW seq \in Seq(R), NEW f, ScanRun(f, seq)
  PROVE  Scan(seq) = f[Len(seq)]
<1> DEFINE after[n \in 0 .. Len(seq)] ==
             IF n = 0 THEN Nothing ELSE Scanned(after[n - 1], seq[n])
<1>1. after = CHOOSE g : g = [n \in 0 .. Len(seq) |->
                                IF n = 0 THEN Nothing
                                ELSE Scanned(g[n - 1], seq[n])]
  OBVIOUS
<1>2. Scan(seq) = after[Len(seq)]
  BY DEF Scan
<1>3. ScanRun(after, seq)
  <2> HIDE DEF after
  <2> QED BY <1>1 DEF ScanRun
<1> HIDE DEF after
<1>4. after[Len(seq)] = f[Len(seq)]
  BY <1>3, ScanRunsAgree
<1> QED BY <1>2, <1>4

\* Scan starts with nothing open and scans the last event last.
LEMMA ScanEmpty ==
  Scan(<<>>) = Nothing
<1>1. <<>> \in Seq({}) /\ Len(<<>>) = 0
  OBVIOUS
<1>2. PICK f : ScanRun(f, <<>>)
  BY <1>1, ScanRunExists
<1>3. f[0] = Nothing
  BY <1>2 DEF ScanRun
<1> QED BY <1>1, <1>2, <1>3, ScanRunEnd

LEMMA ScanAppend ==
  ASSUME NEW R, NEW seq \in Seq(R), NEW last \in R
  PROVE  Scan(Append(seq, last)) = Scanned(Scan(seq), last)
<1> DEFINE longer == Append(seq, last)
<1>1. /\ longer \in Seq(R) /\ Len(longer) = Len(seq) + 1
      /\ \A n \in 1 .. Len(seq) : seq[n] = longer[n]
      /\ longer[Len(seq) + 1] = last
  OBVIOUS
<1> HIDE DEF longer
<1>2. PICK f : ScanRun(f, seq)
  BY ScanRunExists
<1>3. PICK g : ScanRun(g, longer)
  BY <1>1, ScanRunExists
<1>4. f[Len(seq)] = g[Len(seq)]
  <2>1. Len(seq) <= Len(longer)
    BY <1>1
  <2>2. \A n \in 0 .. Len(seq) : f[n] = g[n]
    BY <1>1, <1>2, <1>3, <2>1, ScanRunsAgree
  <2> QED BY <2>2
<1>5. g[Len(seq) + 1] = Scanned(g[Len(seq)], last)
  <2>1. Len(seq) \in Nat /\ Len(seq) < Len(longer)
    BY <1>1
  <2> QED BY <1>1, <1>3, <2>1, ScanRunSteps
<1>6. Scan(seq) = f[Len(seq)] /\ Scan(longer) = g[Len(seq) + 1]
  BY <1>1, <1>2, <1>3, ScanRunEnd
<1> QED BY <1>4, <1>5, <1>6 DEF longer

-----------------------------------------------------------------------------
(* The calls of one message, likewise.                                     *)

\* f holds the pending calls after the first n blocks.
RequestRun(f, pending, seq) ==
  f = [n \in 0 .. Len(seq) |->
         IF n = 0 THEN pending ELSE Requested(f[n - 1], seq[n])]

\* A run begins with what is pending and adds block after block.
LEMMA RequestRunSteps ==
  ASSUME NEW pending, NEW R, NEW seq \in Seq(R), NEW f, RequestRun(f, pending, seq)
  PROVE  /\ f[0] = pending
         /\ \A n \in Nat : n < Len(seq) =>
              f[n + 1] = Requested(f[n], seq[n + 1])
<1>1. 0 \in 0 .. Len(seq)
  OBVIOUS
<1>2. ASSUME NEW n \in Nat, n < Len(seq)
      PROVE  n + 1 \in 0 .. Len(seq) /\ n + 1 # 0 /\ n + 1 - 1 = n
  BY <1>2
<1> QED BY <1>1, <1>2 DEF RequestRun

\* Runs agree as far as their messages do.
LEMMA RequestRunsAgree ==
  ASSUME NEW pending, NEW R, NEW seq \in Seq(R), NEW longer \in Seq(R),
         Len(seq) <= Len(longer), \A n \in 1 .. Len(seq) : seq[n] = longer[n],
         NEW f, RequestRun(f, pending, seq), NEW g, RequestRun(g, pending, longer)
  PROVE  \A n \in 0 .. Len(seq) : f[n] = g[n]
<1> DEFINE T == {n \in Nat : n <= Len(seq) => f[n] = g[n]}
<1>1. 0 \in T
  <2>1. f[0] = pending
    BY RequestRunSteps
  <2>2. g[0] = pending
    BY RequestRunSteps
  <2> QED BY <2>1, <2>2
<1>2. ASSUME NEW n \in T PROVE n + 1 \in T
  <2> SUFFICES ASSUME n + 1 <= Len(seq) PROVE f[n + 1] = g[n + 1]
    OBVIOUS
  <2>1. f[n] = g[n] /\ seq[n + 1] = longer[n + 1]
    BY <1>2
  <2>2. f[n + 1] = Requested(f[n], seq[n + 1])
    BY RequestRunSteps
  <2>3. g[n + 1] = Requested(g[n], longer[n + 1])
    BY RequestRunSteps
  <2> QED BY <2>1, <2>2, <2>3
<1>3. T = Nat
  <2> HIDE DEF T
  <2>1. T \in SUBSET Nat
    BY DEF T
  <2> QED BY <1>1, <1>2, <2>1, SetInduction
<1> QED BY <1>3

\* AllRequested is the end of the run.
LEMMA RequestRunEnd ==
  ASSUME NEW pending, NEW R, NEW seq \in Seq(R), NEW f, RequestRun(f, pending, seq)
  PROVE  AllRequested(pending, seq) = f[Len(seq)]
<1> DEFINE after[n \in 0 .. Len(seq)] ==
             IF n = 0 THEN pending ELSE Requested(after[n - 1], seq[n])
<1>1. after = CHOOSE g : g = [n \in 0 .. Len(seq) |->
                                IF n = 0 THEN pending
                                ELSE Requested(g[n - 1], seq[n])]
  OBVIOUS
<1>2. AllRequested(pending, seq) = after[Len(seq)]
  BY DEF AllRequested
<1>3. RequestRun(after, pending, seq)
  <2> HIDE DEF after
  <2> QED BY <1>1 DEF RequestRun
<1> HIDE DEF after
<1>4. after[Len(seq)] = f[Len(seq)]
  BY <1>3, RequestRunsAgree
<1> QED BY <1>2, <1>4

\* A message's calls, all different, are pending in its order.
LEMMA MessageRequests ==
  ASSUME NEW calls \in Seq(Call), IsInjective(calls)
  PROVE  AllRequested(<<>>, calls) =
           [i \in 1 .. Len(calls) |-> [call |-> calls[i], started |-> FALSE]]
<1> DEFINE entry(i) == [call |-> calls[i], started |-> FALSE]
           asks(n) == [i \in 1 .. n |-> entry(i)]
           f == [n \in 0 .. Len(calls) |-> asks(n)]
<1>1. asks(0) = <<>>
  OBVIOUS
<1>2. ASSUME NEW n \in 1 .. Len(calls)
      PROVE  asks(n) = Requested(asks(n - 1), calls[n])
  <2>1. ~ \E i \in DOMAIN asks(n - 1) : asks(n - 1)[i].call = calls[n]
    <3> SUFFICES ASSUME NEW i \in 1 .. n - 1, calls[i] = calls[n] PROVE FALSE
      OBVIOUS
    <3>1. i \in DOMAIN calls /\ n \in DOMAIN calls /\ i # n
      OBVIOUS
    <3> QED BY <3>1 DEF IsInjective
  <2>2. Requested(asks(n - 1), calls[n]) = Append(asks(n - 1), entry(n))
    <3> HIDE DEF asks
    <3> QED BY <2>1 DEF Requested
  <2>3. asks(n) = Append(asks(n - 1), entry(n))
    <3> HIDE DEF entry
    <3>1. n \in Nat /\ n - 1 \in Nat
      OBVIOUS
    <3> QED BY <3>1
  <2> QED BY <2>2, <2>3
<1> HIDE DEF asks
<1>3. f = [n \in 0 .. Len(calls) |->
             IF n = 0 THEN <<>> ELSE Requested(f[n - 1], calls[n])]
  <2>1. ASSUME NEW n \in 0 .. Len(calls)
        PROVE  f[n] = IF n = 0 THEN <<>> ELSE Requested(f[n - 1], calls[n])
    <3>1. CASE n = 0
      BY <1>1, <3>1
    <3>2. CASE n # 0
      <4>1. n \in 1 .. Len(calls) /\ n - 1 \in 0 .. Len(calls)
        BY <3>2
      <4> QED BY <1>2, <3>2, <4>1
    <3> QED BY <3>1, <3>2
  <2> QED BY <2>1
<1>4. f[Len(calls)] = asks(Len(calls))
  OBVIOUS
<1> HIDE DEF f
<1>5. RequestRun(f, <<>>, calls)
  BY <1>3 DEF RequestRun
<1>6. AllRequested(<<>>, calls) = f[Len(calls)]
  BY <1>5, RequestRunEnd
<1> QED BY <1>4, <1>6 DEF asks

-----------------------------------------------------------------------------
(* What a log may hold.                                                    *)

Entry == [call : Call, started : BOOLEAN]

Cursor == [turn : Nat, step : Nat, pending : Seq(Entry)]

TurnEvents == [type : {"turn/start", "turn/end"}, turn : Nat]
StepEvents == [type : {"step/start", "step/end"}, turn : Nat, step : Nat]
Messages == [type : {"assistant/message"}, turn : Nat, step : Nat,
             calls : Seq(Call)]
CallEvents == [type : {"tool/call"}, turn : Nat, step : Nat, call : Call]
ResultEvents == [type : {"tool/result"}, turn : Nat, step : Nat, call : Call,
                 code : Code]

Event == TurnEvents \union StepEvents \union Messages \union CallEvents
           \union ResultEvents

\* An event of the step that a trace holds open.
Within(event, tr) ==
  /\ event.type \notin {"turn/start", "turn/end"}
  /\ event.turn = tr.openTurn /\ event.step = tr.openStep

IsNotStarted(event) ==
  event.type = "tool/result" /\ event.code = "TOOL_NOT_STARTED"

\* What the loop and the repair keep to beyond the companion's rules: a message
\* is the first event of its step; calls start in the order of their message
\* and behind no synthetic result; results come in that order too, and only a
\* call that was not started is reported so.
FitsMessage(events, event) ==
  /\ Len(events) > 0 /\ events[Len(events)].type = "step/start"
  /\ IsInjective(event.calls)

FitsCall(events, tr, open, event) ==
  /\ \A i \in DOMAIN events : ~(IsNotStarted(events[i]) /\ Within(events[i], tr))
  /\ \E i \in DOMAIN open.pending :
       /\ open.pending[i].call = event.call /\ ~open.pending[i].started
       /\ \A j \in 1 .. i - 1 : open.pending[j].started

FitsResult(open, event) ==
  /\ Len(open.pending) > 0
  /\ open.pending[1].call = event.call
  /\ open.pending[1].started <=> event.code # "TOOL_NOT_STARTED"

FitsAt(events, tr, open, event) ==
  /\ Accepts(tr, event)
  /\ event.type = "assistant/message" => FitsMessage(events, event)
  /\ event.type = "tool/call" => FitsCall(events, tr, open, event)
  /\ event.type = "tool/result" => FitsResult(open, event)

Fits(events, event) == FitsAt(events, TraceOf(events), Scan(events), event)

\* Every event fits where it stands.
Legal(events) ==
  /\ events \in Seq(Event)
  /\ \A n \in 1 .. Len(events) : Fits(SubSeq(events, 1, n - 1), events[n])

-----------------------------------------------------------------------------
(* What is known of a legal log, its trace and its cursor.                 *)

\* The scan's cursor and the companion's trace agree on what is open.
Places(tr, open) ==
  /\ tr \in Log!Trace /\ open \in Cursor
  /\ tr.nextTurn # 0 /\ tr.nextStep # 0
  /\ tr.openTurn = 0 \/ tr.openTurn = tr.nextTurn
  /\ tr.openStep = 0 \/ tr.openStep = tr.nextStep
  /\ tr.openTurn = 0 => tr.openStep = 0
  /\ open.turn = tr.openTurn /\ open.step = tr.openStep
  /\ tr.openStep = 0 => open.pending = <<>> /\ tr.pendingCalls = {}

\* Turn and step numbers are not used again.
Numbered(events, tr) ==
  \A i \in DOMAIN events :
    /\ events[i].turn <= tr.nextTurn
    /\ events[i].turn = tr.nextTurn => tr.openTurn = tr.nextTurn
    /\ /\ events[i].turn = tr.nextTurn
       /\ events[i].type \notin {"turn/start", "turn/end"}
       => /\ events[i].step <= tr.nextStep
          /\ events[i].step = tr.nextStep => tr.openStep = tr.nextStep

\* A message whose step has not ended is of the open step.
MessagesOpen(events, tr) ==
  \A m \in DOMAIN events :
    /\ events[m].type = "assistant/message"
    /\ \A i \in m .. Len(events) : events[i].type # "step/end"
    => tr.openStep # 0 /\ Within(events[m], tr)

\* The open step has just begun.
NoMessage(events, tr, open) ==
  /\ Len(events) > 0 /\ events[Len(events)].type = "step/start"
  /\ open.pending = <<>> /\ tr.pendingCalls = {}
  /\ \A i \in DOMAIN events : Within(events[i], tr) => i = Len(events)

\* The results since event m are the first k of its calls, in order.
InOrder(events, m, k) ==
  \E at \in [1 .. k -> m .. Len(events)] :
    /\ {i \in m .. Len(events) : events[i].type = "tool/result"} = Range(at)
    /\ \A j \in 1 .. k : events[at[j]].call = events[m].calls[j]
    /\ \A i, j \in 1 .. k : i < j => at[i] < at[j]

\* The calls of the open step that were started are the first c of calls.
StartedCalls(events, tr, calls, c) ==
  /\ \A i \in DOMAIN events :
       events[i].type = "tool/call" /\ Within(events[i], tr)
         => \E j \in 1 .. c : events[i].call = calls[j]
  /\ \A j \in 1 .. c : \E i \in DOMAIN events :
       /\ events[i].type = "tool/call" /\ Within(events[i], tr)
       /\ events[i].call = calls[j]

\* Of calls, k are answered and c were started.
Waiting(tr, open, calls, k, c) ==
  /\ open.pending = [i \in 1 .. Len(calls) - k |->
                       [call |-> calls[k + i], started |-> k + i <= c]]
  /\ tr.pendingCalls = {calls[i] : i \in k + 1 .. c}

\* Event m is the message of the open step.
MessageAt(events, tr, m) ==
  /\ events[m].type = "assistant/message" /\ IsInjective(events[m].calls)
  /\ \A i \in m .. Len(events) : Within(events[i], tr)
  /\ \A i \in 1 .. m - 1 : Within(events[i], tr) => events[i].type = "step/start"
  /\ \A i \in m + 1 .. Len(events) : events[i].type \in {"tool/call", "tool/result"}

Answering(events, tr, open) ==
  \E m \in DOMAIN events :
    /\ MessageAt(events, tr, m)
    /\ \E k, c \in 0 .. Len(events[m].calls) :
         /\ Waiting(tr, open, events[m].calls, k, c)
         /\ InOrder(events, m, k)
         /\ StartedCalls(events, tr, events[m].calls, c)
         /\ k > c => \E i \in DOMAIN events :
                       IsNotStarted(events[i]) /\ Within(events[i], tr)

StepKnown(events, tr, open) ==
  tr.openStep # 0 => NoMessage(events, tr, open) \/ Answering(events, tr, open)

\* No call is both started and reported as not started.
NeverBoth(events) ==
  \A i, j \in DOMAIN events :
    ~ /\ IsNotStarted(events[i]) /\ events[j].type = "tool/call"
      /\ events[i].turn = events[j].turn /\ events[i].step = events[j].step
      /\ events[i].call = events[j].call

KnownAt(events, tr, open) ==
  /\ Places(tr, open)
  /\ Numbered(events, tr)
  /\ MessagesOpen(events, tr)
  /\ StepKnown(events, tr, open)
  /\ NeverBoth(events)

Known(events) == KnownAt(events, TraceOf(events), Scan(events))

-----------------------------------------------------------------------------
(* One more event.                                                         *)

\* The events of each type, and the two cursors after one.
LEMMA EventTypes ==
  ASSUME NEW event \in Event
  PROVE  /\ event.type \in {"turn/start", "turn/end"} => event \in TurnEvents
         /\ event.type \in {"step/start", "step/end"} => event \in StepEvents
         /\ event.type = "assistant/message" => event \in Messages
         /\ event.type = "tool/call" => event \in CallEvents
         /\ event.type = "tool/result" => event \in ResultEvents
         /\ event.type \in {"turn/start", "turn/end", "step/start", "step/end",
                            "assistant/message", "tool/call", "tool/result"}
         /\ event.turn \in Nat
         /\ event.type \notin {"turn/start", "turn/end"} => event.step \in Nat
  BY DEF Event, TurnEvents, StepEvents, Messages, CallEvents, ResultEvents

\* What each event does to the companion's trace.
LEMMA TraceEffects ==
  ASSUME NEW tr \in Log!Trace, NEW event \in Event
  PROVE  LET tr2 == Applied(tr, event)
         IN  /\ event.type = "turn/start" =>
                  /\ tr2.openTurn = event.turn /\ tr2.openStep = tr.openStep
                  /\ tr2.nextTurn = tr.nextTurn /\ tr2.nextStep = 1
                  /\ tr2.pendingCalls = tr.pendingCalls
             /\ event.type = "turn/end" =>
                  /\ tr2.openTurn = 0 /\ tr2.openStep = tr.openStep
                  /\ tr2.nextTurn = tr.nextTurn + 1 /\ tr2.nextStep = tr.nextStep
                  /\ tr2.pendingCalls = tr.pendingCalls
             /\ event.type = "step/start" =>
                  /\ tr2.openTurn = tr.openTurn /\ tr2.openStep = event.step
                  /\ tr2.nextTurn = tr.nextTurn /\ tr2.nextStep = tr.nextStep
                  /\ tr2.pendingCalls = tr.pendingCalls
             /\ event.type = "step/end" =>
                  /\ tr2.openTurn = tr.openTurn /\ tr2.openStep = 0
                  /\ tr2.nextTurn = tr.nextTurn /\ tr2.nextStep = tr.nextStep + 1
                  /\ tr2.pendingCalls = {}
             /\ event.type = "assistant/message" => tr2 = tr
             /\ event.type = "tool/call" =>
                  /\ tr2.openTurn = tr.openTurn /\ tr2.openStep = tr.openStep
                  /\ tr2.nextTurn = tr.nextTurn /\ tr2.nextStep = tr.nextStep
                  /\ tr2.pendingCalls = tr.pendingCalls \union {event.call}
             /\ event.type = "tool/result" =>
                  /\ tr2.openTurn = tr.openTurn /\ tr2.openStep = tr.openStep
                  /\ tr2.nextTurn = tr.nextTurn /\ tr2.nextStep = tr.nextStep
                  /\ tr2.pendingCalls = tr.pendingCalls \ {event.call}
             /\ tr2 \in Log!Trace
<1> DEFINE tr2 == Applied(tr, event)
<1>0. /\ tr.openTurn \in Nat /\ tr.openStep \in Nat /\ tr.nextTurn \in Nat
      /\ tr.nextStep \in Nat /\ tr.pendingCalls \subseteq Call
  BY DEF Log!Trace
<1>1. CASE event.type = "turn/start"
  <2>1. tr2 = [tr EXCEPT !.openTurn = event.turn, !.nextStep = 1]
    BY <1>1 DEF Applied, Log!OpenTurn
  <2>2. event.turn \in Nat
    BY EventTypes
  <2>3. tr2 = [openTurn |-> event.turn, openStep |-> tr.openStep,
                nextTurn |-> tr.nextTurn, nextStep |-> 1,
                pendingCalls |-> tr.pendingCalls]
    BY <2>1 DEF Log!Trace
  <2> HIDE DEF tr2
  <2>4. tr2 \in Log!Trace
    BY <1>0, <1>1, <2>2, <2>3 DEF Log!Trace
  <2> QED BY <1>0, <1>1, <2>2, <2>3, <2>4 DEF tr2
<1>2. CASE event.type = "turn/end"
  <2>1. tr2 = [tr EXCEPT !.openTurn = 0, !.nextTurn = @ + 1]
    BY <1>2 DEF Applied, Log!CloseTurn, Log!None
  <2>3. tr2 = [openTurn |-> 0, openStep |-> tr.openStep,
                nextTurn |-> tr.nextTurn + 1, nextStep |-> tr.nextStep,
                pendingCalls |-> tr.pendingCalls]
    BY <2>1 DEF Log!Trace
  <2> HIDE DEF tr2
  <2>4. tr2 \in Log!Trace
    BY <1>0, <1>2, <2>3 DEF Log!Trace
  <2> QED BY <1>0, <1>2, <2>3, <2>4 DEF tr2
<1>3. CASE event.type = "step/start"
  <2>1. tr2 = [tr EXCEPT !.openStep = event.step]
    BY <1>3 DEF Applied, Log!OpenStep
  <2>2. event.step \in Nat
    BY <1>3, EventTypes
  <2> HIDE DEF tr2
  <2> QED BY <1>3, <2>1, <2>2 DEF Log!Trace, tr2
<1>4. CASE event.type = "step/end"
  <2>1. tr2 = [tr EXCEPT !.openStep = 0, !.nextStep = @ + 1, !.pendingCalls = {}]
    BY <1>4 DEF Applied, Log!CloseStep, Log!None
  <2>3. tr2 = [openTurn |-> tr.openTurn, openStep |-> 0,
                nextTurn |-> tr.nextTurn, nextStep |-> tr.nextStep + 1,
                pendingCalls |-> {}]
    BY <2>1 DEF Log!Trace
  <2> HIDE DEF tr2
  <2>4. tr2 \in Log!Trace
    BY <1>0, <1>4, <2>3 DEF Log!Trace
  <2> QED BY <1>0, <1>4, <2>3, <2>4 DEF tr2
<1>5. CASE event.type = "assistant/message"
  <2>1. tr2 = tr
    BY <1>5 DEF Applied
  <2> HIDE DEF tr2
  <2> QED BY <1>5, <2>1 DEF tr2
<1>6. CASE event.type = "tool/call"
  <2>1. tr2 = [tr EXCEPT !.pendingCalls = @ \union {event.call}]
    BY <1>6 DEF Applied, Log!AddCall
  <2>2. event.call \in Call
    BY <1>6, EventTypes DEF CallEvents
  <2>3. tr.pendingCalls \union {event.call} \in SUBSET Call
    BY <1>0, <2>2
  <2> HIDE DEF tr2
  <2> QED BY <1>6, <2>1, <2>3 DEF Log!Trace, tr2
<1>7. CASE event.type = "tool/result"
  <2>1. tr2 = [tr EXCEPT !.pendingCalls = @ \ {event.call}]
    BY <1>7 DEF Applied, Log!DeleteCall
  <2>2. tr.pendingCalls \ {event.call} \in SUBSET Call
    BY <1>0
  <2> HIDE DEF tr2
  <2> QED BY <1>7, <2>1, <2>2 DEF Log!Trace, tr2
<1> QED BY <1>1, <1>2, <1>3, <1>4, <1>5, <1>6, <1>7, EventTypes

\* What each event does to the scan's cursor.
LEMMA ScanEffects ==
  ASSUME NEW open \in Cursor, NEW event \in Event
  PROVE  LET open2 == Scanned(open, event)
         IN  /\ event.type = "turn/start" =>
                  open2.turn = event.turn /\ open2.step = 0 /\ open2.pending = <<>>
             /\ event.type = "turn/end" =>
                  open2.turn = 0 /\ open2.step = 0 /\ open2.pending = <<>>
             /\ event.type = "step/start" =>
                  /\ open2.turn = open.turn /\ open2.step = event.step
                  /\ open2.pending = open.pending
             /\ event.type = "step/end" =>
                  open2.turn = open.turn /\ open2.step = 0 /\ open2.pending = <<>>
             /\ event.type = "assistant/message" =>
                  /\ open2.turn = open.turn /\ open2.step = open.step
                  /\ open2.pending = AllRequested(open.pending, event.calls)
             /\ event.type = "tool/call" =>
                  /\ open2.turn = open.turn /\ open2.step = open.step
                  /\ open2.pending = Recorded(open.pending, event.call)
             /\ event.type = "tool/result" =>
                  /\ open2.turn = open.turn /\ open2.step = open.step
                  /\ open2.pending = Answered(open.pending, event.call)
             /\ DOMAIN open2 = {"turn", "step", "pending"}
             /\ open2 = [turn |-> open2.turn, step |-> open2.step,
                         pending |-> open2.pending]
<1> DEFINE open2 == Scanned(open, event)
<1>1. CASE event.type = "turn/start"
  <2>1. open2 = [turn |-> event.turn, step |-> 0, pending |-> <<>>]
    BY <1>1 DEF Scanned, Nothing, Log!None
  <2> HIDE DEF open2
  <2> QED BY <1>1, <2>1 DEF open2
<1>2. CASE event.type = "turn/end"
  <2>1. open2 = [turn |-> 0, step |-> 0, pending |-> <<>>]
    BY <1>2 DEF Scanned, Nothing, Log!None
  <2> HIDE DEF open2
  <2> QED BY <1>2, <2>1 DEF open2
<1>3. CASE event.type = "step/start"
  <2>1. open2 = [turn |-> open.turn, step |-> event.step, pending |-> open.pending]
    BY <1>3 DEF Scanned, Cursor
  <2> HIDE DEF open2
  <2> QED BY <1>3, <2>1 DEF open2
<1>4. CASE event.type = "step/end"
  <2>1. open2 = [turn |-> open.turn, step |-> 0, pending |-> <<>>]
    BY <1>4 DEF Scanned, Cursor, Log!None
  <2> HIDE DEF open2
  <2> QED BY <1>4, <2>1 DEF open2
<1>5. CASE event.type = "assistant/message"
  <2>1. open2 = [turn |-> open.turn, step |-> open.step,
                 pending |-> AllRequested(open.pending, event.calls)]
    BY <1>5 DEF Scanned, Cursor
  <2> HIDE DEF open2
  <2> QED BY <1>5, <2>1 DEF open2
<1>6. CASE event.type = "tool/call"
  <2>1. open2 = [turn |-> open.turn, step |-> open.step,
                 pending |-> Recorded(open.pending, event.call)]
    BY <1>6 DEF Scanned, Cursor
  <2> HIDE DEF open2
  <2> QED BY <1>6, <2>1 DEF open2
<1>7. CASE event.type = "tool/result"
  <2>1. open2 = [turn |-> open.turn, step |-> open.step,
                 pending |-> Answered(open.pending, event.call)]
    BY <1>7 DEF Scanned, Cursor
  <2> HIDE DEF open2
  <2> QED BY <1>7, <2>1 DEF open2
<1> QED BY <1>1, <1>2, <1>3, <1>4, <1>5, <1>6, <1>7, EventTypes

\* Where an accepted event leaves the two, before its calls are looked at.
LEMMA AcceptedPlaces ==
  ASSUME NEW tr, NEW open, Places(tr, open), NEW event \in Event, Accepts(tr, event)
  PROVE  /\ event.type = "turn/start" =>
              event.turn = tr.nextTurn /\ tr.openTurn = 0 /\ tr.openStep = 0
         /\ event.type = "turn/end" =>
              event.turn = tr.openTurn /\ tr.openTurn = tr.nextTurn /\ tr.openStep = 0
         /\ event.type = "step/start" =>
              /\ event.turn = tr.openTurn /\ tr.openTurn = tr.nextTurn
              /\ tr.openStep = 0 /\ event.step = tr.nextStep
         /\ event.type \in {"step/end", "assistant/message", "tool/call", "tool/result"} =>
              /\ Within(event, tr)
              /\ tr.openTurn = tr.nextTurn /\ tr.openStep = tr.nextStep
<1>1. CASE event.type = "turn/start"
  BY <1>1 DEF Accepts, Log!CanOpenTurn, Log!None, Places
<1>2. CASE event.type = "turn/end"
  BY <1>2 DEF Accepts, Log!CanCloseTurn, Log!None, Places
<1>3. CASE event.type = "step/start"
  BY <1>3 DEF Accepts, Log!CanOpenStep, Log!None, Places
<1>4. CASE event.type \in {"step/end", "assistant/message", "tool/call"}
  <2>1. Log!InOpenStep(tr, event.turn, event.step)
    BY <1>4 DEF Accepts
  <2> QED BY <1>4, <2>1 DEF Log!InOpenStep, Log!None, Places, Within
<1>5. CASE event.type = "tool/result"
  <2>1. Log!InOpenStep(tr, event.turn, event.step)
    BY <1>5 DEF Accepts, Log!CanResult
  <2> QED BY <1>5, <2>1 DEF Log!InOpenStep, Log!None, Places, Within
<1> QED BY <1>1, <1>2, <1>3, <1>4, <1>5, EventTypes

\* What stays in reach of a proof about one more event: the log it follows, its
\* cursors, and the cursors after it.
LEMMA Longer ==
  ASSUME NEW events \in Seq(Event), NEW event \in Event
  PROVE  LET more == Append(events, event)
         IN  /\ more \in Seq(Event) /\ Len(events) \in Nat
             /\ Len(more) = Len(events) + 1
             /\ DOMAIN more = 1 .. Len(events) + 1
             /\ DOMAIN events = 1 .. Len(events)
             /\ \A i \in DOMAIN events : more[i] = events[i] /\ events[i] \in Event
             /\ more[Len(events) + 1] = event
  OBVIOUS

\* An accepted event leaves the numbers of turns and steps unused.
LEMMA NumberedStep ==
  ASSUME NEW events \in Seq(Event), NEW event \in Event, NEW tr, NEW open,
         Places(tr, open), Numbered(events, tr), Accepts(tr, event)
  PROVE  Numbered(Append(events, event), Applied(tr, event))
<1> DEFINE more == Append(events, event)
           tr2 == Applied(tr, event)
<1>1. /\ DOMAIN more = 1 .. Len(events) + 1 /\ DOMAIN events = 1 .. Len(events)
      /\ Len(events) \in Nat
      /\ \A i \in DOMAIN events : more[i] = events[i] /\ events[i] \in Event
      /\ more[Len(events) + 1] = event
  BY Longer
<1>2. /\ tr \in Log!Trace /\ tr.openTurn \in Nat /\ tr.openStep \in Nat
      /\ tr.nextTurn \in Nat /\ tr.nextStep \in Nat
      /\ tr.nextTurn # 0 /\ tr.nextStep # 0
      /\ tr.openStep = 0 \/ tr.openStep = tr.nextStep
  BY DEF Places, Log!Trace
<1> HIDE DEF more, tr2
<1> SUFFICES ASSUME NEW i \in DOMAIN more
             PROVE  /\ more[i].turn <= tr2.nextTurn
                    /\ more[i].turn = tr2.nextTurn => tr2.openTurn = tr2.nextTurn
                    /\ /\ more[i].turn = tr2.nextTurn
                       /\ more[i].type \notin {"turn/start", "turn/end"}
                       => /\ more[i].step <= tr2.nextStep
                          /\ more[i].step = tr2.nextStep => tr2.openStep = tr2.nextStep
  BY DEF Numbered, more, tr2
<1>3. more[i] \in Event
  BY <1>1
<1>4. /\ more[i].turn \in Nat
      /\ more[i].type \notin {"turn/start", "turn/end"} => more[i].step \in Nat
  BY <1>3, EventTypes
<1>5. CASE i \in DOMAIN events
  <2>1. /\ more[i].turn <= tr.nextTurn
        /\ more[i].turn = tr.nextTurn => tr.openTurn = tr.nextTurn
        /\ /\ more[i].turn = tr.nextTurn
           /\ more[i].type \notin {"turn/start", "turn/end"}
           => /\ more[i].step <= tr.nextStep
              /\ more[i].step = tr.nextStep => tr.openStep = tr.nextStep
    BY <1>1, <1>5 DEF Numbered
  <2>2. CASE event.type = "turn/start"
    <3>1. tr2.openTurn = tr.nextTurn /\ tr2.nextTurn = tr.nextTurn /\ tr.openTurn = 0
      BY <1>2, <2>2, TraceEffects, AcceptedPlaces DEF tr2
    <3> QED BY <1>2, <1>4, <2>1, <3>1
  <2>3. CASE event.type = "turn/end"
    <3>1. tr2.nextTurn = tr.nextTurn + 1
      BY <1>2, <2>3, TraceEffects DEF tr2
    <3> QED BY <1>2, <1>4, <2>1, <3>1
  <2>4. CASE event.type = "step/start"
    <3>1. /\ tr2.openTurn = tr.openTurn /\ tr2.nextTurn = tr.nextTurn
          /\ tr2.openStep = tr.nextStep /\ tr2.nextStep = tr.nextStep
      BY <1>2, <2>4, TraceEffects, AcceptedPlaces DEF tr2
    <3> QED BY <1>2, <1>4, <2>1, <3>1
  <2>5. CASE event.type = "step/end"
    <3>1. /\ tr2.openTurn = tr.openTurn /\ tr2.nextTurn = tr.nextTurn
          /\ tr2.nextStep = tr.nextStep + 1
      BY <1>2, <2>5, TraceEffects DEF tr2
    <3> QED BY <1>2, <1>4, <2>1, <3>1
  <2>6. CASE event.type \in {"assistant/message", "tool/call", "tool/result"}
    <3>1. /\ tr2.openTurn = tr.openTurn /\ tr2.nextTurn = tr.nextTurn
          /\ tr2.openStep = tr.openStep /\ tr2.nextStep = tr.nextStep
      BY <1>2, <2>6, TraceEffects DEF tr2
    <3> QED BY <2>1, <3>1
  <2> QED BY <2>2, <2>3, <2>4, <2>5, <2>6, EventTypes
<1>6. CASE i = Len(events) + 1
  <2>1. more[i] = event
    BY <1>1, <1>6
  <2>2. CASE event.type = "turn/start"
    <3>1. /\ tr2.openTurn = event.turn /\ tr2.nextTurn = tr.nextTurn
          /\ event.turn = tr.nextTurn
      BY <1>2, <2>2, TraceEffects, AcceptedPlaces DEF tr2
    <3> QED BY <1>2, <2>1, <2>2, <3>1
  <2>3. CASE event.type = "turn/end"
    <3>1. tr2.nextTurn = tr.nextTurn + 1 /\ event.turn = tr.nextTurn
      BY <1>2, <2>3, TraceEffects, AcceptedPlaces DEF tr2
    <3> QED BY <1>2, <2>1, <3>1
  <2>4. CASE event.type = "step/start"
    <3>1. /\ tr2.openTurn = tr.openTurn /\ tr2.nextTurn = tr.nextTurn
          /\ tr2.openStep = tr.nextStep /\ tr2.nextStep = tr.nextStep
          /\ event.turn = tr.openTurn /\ tr.openTurn = tr.nextTurn
          /\ event.step = tr.nextStep
      BY <1>2, <2>4, TraceEffects, AcceptedPlaces DEF tr2
    <3> QED BY <1>2, <2>1, <3>1
  <2>5. CASE event.type = "step/end"
    <3>1. /\ tr2.openTurn = tr.openTurn /\ tr2.nextTurn = tr.nextTurn
          /\ tr2.nextStep = tr.nextStep + 1
      BY <1>2, <2>5, TraceEffects DEF tr2
    <3>2. /\ Within(event, tr) /\ tr.openTurn = tr.nextTurn
          /\ tr.openStep = tr.nextStep
      BY <2>5, AcceptedPlaces
    <3> QED BY <1>2, <2>1, <3>1, <3>2 DEF Within
  <2>6. CASE event.type \in {"assistant/message", "tool/call", "tool/result"}
    <3>1. /\ tr2.openTurn = tr.openTurn /\ tr2.nextTurn = tr.nextTurn
          /\ tr2.openStep = tr.openStep /\ tr2.nextStep = tr.nextStep
      BY <1>2, <2>6, TraceEffects DEF tr2
    <3>2. /\ Within(event, tr) /\ tr.openTurn = tr.nextTurn
          /\ tr.openStep = tr.nextStep
      BY <2>6, AcceptedPlaces
    <3> QED BY <1>2, <2>1, <3>1, <3>2 DEF Within
  <2> QED BY <2>2, <2>3, <2>4, <2>5, <2>6, EventTypes
<1> QED BY <1>1, <1>5, <1>6

\* An accepted event ends a step only as its last.
LEMMA MessagesOpenStep ==
  ASSUME NEW events \in Seq(Event), NEW event \in Event, NEW tr, NEW open,
         Places(tr, open), MessagesOpen(events, tr), Accepts(tr, event)
  PROVE  MessagesOpen(Append(events, event), Applied(tr, event))
<1> DEFINE more == Append(events, event)
           tr2 == Applied(tr, event)
<1>1. /\ DOMAIN more = 1 .. Len(events) + 1 /\ DOMAIN events = 1 .. Len(events)
      /\ Len(events) \in Nat /\ Len(more) = Len(events) + 1
      /\ \A i \in DOMAIN events : more[i] = events[i] /\ events[i] \in Event
      /\ more[Len(events) + 1] = event
  BY Longer
<1>2. tr \in Log!Trace
  BY DEF Places
<1> HIDE DEF more, tr2
<1> SUFFICES ASSUME NEW m \in DOMAIN more, more[m].type = "assistant/message",
                    \A i \in m .. Len(more) : more[i].type # "step/end"
             PROVE  tr2.openStep # 0 /\ Within(more[m], tr2)
  BY DEF MessagesOpen, more, tr2
<1>3. event.type # "step/end"
  BY <1>1
<1>4. CASE m = Len(events) + 1
  <2>1. more[m] = event /\ event.type = "assistant/message"
    BY <1>1, <1>4
  <2>2. tr2 = tr
    BY <1>2, <2>1, TraceEffects DEF tr2
  <2>3. Within(event, tr) /\ tr.openStep = tr.nextStep /\ tr.nextStep # 0
    BY <2>1, AcceptedPlaces DEF Places
  <2> QED BY <2>1, <2>2, <2>3
<1>5. CASE m \in DOMAIN events
  <2>1. tr.openStep # 0 /\ Within(events[m], tr)
    <3>1. \A i \in m .. Len(events) : events[i].type # "step/end"
      BY <1>1, <1>5
    <3> QED BY <1>1, <1>5, <3>1 DEF MessagesOpen
  <2>2. event.type \in {"assistant/message", "tool/call", "tool/result"}
    BY <1>3, <2>1, AcceptedPlaces, EventTypes
  <2>3. tr2.openTurn = tr.openTurn /\ tr2.openStep = tr.openStep
    BY <1>2, <2>2, TraceEffects DEF tr2
  <2> QED BY <1>1, <1>5, <2>1, <2>3 DEF Within
<1> QED BY <1>1, <1>4, <1>5

\* A scanned event leaves a cursor when its three parts are in range.
LEMMA CursorType ==
  ASSUME NEW open \in Cursor, NEW event \in Event,
         Scanned(open, event).turn \in Nat, Scanned(open, event).step \in Nat,
         Scanned(open, event).pending \in Seq(Entry)
  PROVE  Scanned(open, event) \in Cursor
<1> DEFINE open2 == Scanned(open, event)
<1>1. open2 = [turn |-> open2.turn, step |-> open2.step, pending |-> open2.pending]
  BY ScanEffects
<1> HIDE DEF open2
<1>2. open2.turn \in Nat /\ open2.step \in Nat /\ open2.pending \in Seq(Entry)
  BY DEF open2
<1>3. open2 \in Cursor
  BY <1>1, <1>2 DEF Cursor
<1> QED BY <1>3 DEF open2

\* The calls that wait for a result are the message's last ones.
LEMMA WaitingType ==
  ASSUME NEW tr, NEW open, NEW calls \in Seq(Call), NEW k \in 0 .. Len(calls),
         NEW c \in 0 .. Len(calls), Waiting(tr, open, calls, k, c)
  PROVE  open.pending \in Seq(Entry) /\ Len(open.pending) = Len(calls) - k
<1>1. /\ Len(calls) - k \in Nat
      /\ \A i \in 1 .. Len(calls) - k :
           [call |-> calls[k + i], started |-> k + i <= c] \in Entry
  BY DEF Entry
<1>2. open.pending \in [1 .. Len(calls) - k -> Entry]
  BY <1>1 DEF Waiting
<1>3. \A n \in Nat : \A f \in [1 .. n -> Entry] : f \in Seq(Entry) /\ Len(f) = n
  OBVIOUS
<1> QED BY <1>1, <1>2, <1>3

\* A boundary leaves no step open.
LEMMA BoundaryStep ==
  ASSUME NEW events \in Seq(Event), NEW event \in Event, NEW tr, NEW open,
         KnownAt(events, tr, open), FitsAt(events, tr, open, event),
         event.type \in {"turn/start", "turn/end", "step/end"}
  PROVE  /\ Places(Applied(tr, event), Scanned(open, event))
         /\ StepKnown(Append(events, event), Applied(tr, event), Scanned(open, event))
<1> DEFINE tr2 == Applied(tr, event)
           open2 == Scanned(open, event)
<1>1. /\ tr \in Log!Trace /\ open \in Cursor /\ tr.openTurn \in Nat
      /\ tr.nextTurn \in Nat /\ tr.nextStep \in Nat /\ tr.nextTurn # 0 /\ tr.nextStep # 0
      /\ tr.openStep = 0 => open.pending = <<>> /\ tr.pendingCalls = {}
      /\ open.turn = tr.openTurn
      /\ tr.openTurn = 0 \/ tr.openTurn = tr.nextTurn
      /\ Accepts(tr, event) /\ Places(tr, open)
  BY DEF KnownAt, FitsAt, Places, Log!Trace
<1>2. tr2 \in Log!Trace
  BY <1>1, TraceEffects
<1> HIDE DEF tr2, open2
<1>3. /\ tr2.openStep = 0 /\ tr2.pendingCalls = {}
      /\ tr2.nextTurn # 0 /\ tr2.nextStep # 0
      /\ tr2.openTurn = 0 \/ tr2.openTurn = tr2.nextTurn
      /\ open2.turn = tr2.openTurn /\ open2.step = 0 /\ open2.pending = <<>>
  <2>1. CASE event.type = "turn/start"
    <3>1. /\ tr2.openTurn = event.turn /\ tr2.openStep = tr.openStep
          /\ tr2.nextTurn = tr.nextTurn /\ tr2.nextStep = 1
          /\ tr2.pendingCalls = tr.pendingCalls
      BY <1>1, <2>1, TraceEffects DEF tr2
    <3>2. open2.turn = event.turn /\ open2.step = 0 /\ open2.pending = <<>>
      BY <1>1, <2>1, ScanEffects DEF open2
    <3>3. event.turn = tr.nextTurn /\ tr.openStep = 0
      BY <1>1, <2>1, AcceptedPlaces
    <3> QED BY <1>1, <3>1, <3>2, <3>3
  <2>2. CASE event.type = "turn/end"
    <3>1. /\ tr2.openTurn = 0 /\ tr2.openStep = tr.openStep
          /\ tr2.nextTurn = tr.nextTurn + 1 /\ tr2.nextStep = tr.nextStep
          /\ tr2.pendingCalls = tr.pendingCalls
      BY <1>1, <2>2, TraceEffects DEF tr2
    <3>2. open2.turn = 0 /\ open2.step = 0 /\ open2.pending = <<>>
      BY <1>1, <2>2, ScanEffects DEF open2
    <3>3. tr.openStep = 0
      BY <1>1, <2>2, AcceptedPlaces
    <3> QED BY <1>1, <3>1, <3>2, <3>3
  <2>3. CASE event.type = "step/end"
    <3>1. /\ tr2.openTurn = tr.openTurn /\ tr2.openStep = 0
          /\ tr2.nextTurn = tr.nextTurn /\ tr2.nextStep = tr.nextStep + 1
          /\ tr2.pendingCalls = {}
      BY <1>1, <2>3, TraceEffects DEF tr2
    <3>2. open2.turn = open.turn /\ open2.step = 0 /\ open2.pending = <<>>
      BY <1>1, <2>3, ScanEffects DEF open2
    <3> QED BY <1>1, <3>1, <3>2
  <2> QED BY <2>1, <2>2, <2>3
<1>4. open2 \in Cursor
  <2>1. tr2.openTurn \in Nat /\ <<>> \in Seq(Entry)
    BY <1>2 DEF Log!Trace
  <2>2. open2.turn \in Nat /\ open2.step \in Nat /\ open2.pending \in Seq(Entry)
    BY <1>3, <2>1
  <2> QED BY <1>1, <2>2, CursorType DEF open2
<1>5. Places(tr2, open2)
  BY <1>2, <1>3, <1>4 DEF Places
<1>6. StepKnown(Append(events, event), tr2, open2)
  BY <1>3 DEF StepKnown
<1> QED BY <1>5, <1>6 DEF tr2, open2

\* A started step has no message yet.
LEMMA StepStartStep ==
  ASSUME NEW events \in Seq(Event), NEW event \in Event, NEW tr, NEW open,
         KnownAt(events, tr, open), FitsAt(events, tr, open, event),
         event.type = "step/start"
  PROVE  /\ Places(Applied(tr, event), Scanned(open, event))
         /\ StepKnown(Append(events, event), Applied(tr, event), Scanned(open, event))
<1> DEFINE more == Append(events, event)
           tr2 == Applied(tr, event)
           open2 == Scanned(open, event)
<1>0. /\ DOMAIN more = 1 .. Len(events) + 1 /\ DOMAIN events = 1 .. Len(events)
      /\ Len(events) \in Nat /\ Len(more) = Len(events) + 1
      /\ \A i \in DOMAIN events : more[i] = events[i] /\ events[i] \in Event
      /\ more[Len(events) + 1] = event
  BY Longer
<1>1. /\ tr \in Log!Trace /\ open \in Cursor /\ tr.openTurn \in Nat
      /\ tr.nextTurn \in Nat /\ tr.nextStep \in Nat /\ tr.nextTurn # 0 /\ tr.nextStep # 0
      /\ tr.openStep = 0 => open.pending = <<>> /\ tr.pendingCalls = {}
      /\ open.turn = tr.openTurn
      /\ Accepts(tr, event) /\ Places(tr, open) /\ Numbered(events, tr)
  BY DEF KnownAt, FitsAt, Places, Log!Trace
<1>2. /\ event.turn = tr.openTurn /\ tr.openTurn = tr.nextTurn
      /\ tr.openStep = 0 /\ event.step = tr.nextStep
  BY <1>1, AcceptedPlaces
<1>3. /\ tr2.openTurn = tr.openTurn /\ tr2.openStep = event.step
      /\ tr2.nextTurn = tr.nextTurn /\ tr2.nextStep = tr.nextStep
      /\ tr2.pendingCalls = tr.pendingCalls /\ tr2 \in Log!Trace
  BY <1>1, TraceEffects
<1>4. /\ open2.turn = open.turn /\ open2.step = event.step
      /\ open2.pending = open.pending
  BY <1>1, ScanEffects
<1> HIDE DEF more, tr2, open2
<1>5. open2 \in Cursor
  <2>1. event.step \in Nat /\ open.pending \in Seq(Entry)
    BY <1>1, <1>2 DEF Cursor
  <2> QED BY <1>1, <1>4, <2>1, CursorType DEF open2
<1>6. Places(tr2, open2)
  BY <1>1, <1>2, <1>3, <1>4, <1>5 DEF Places
<1>7. NoMessage(more, tr2, open2)
  <2>1. ASSUME NEW i \in DOMAIN more, Within(more[i], tr2), i # Len(more)
        PROVE  FALSE
    <3>1. i \in DOMAIN events /\ more[i] = events[i]
      BY <1>0, <2>1
    <3>2. /\ events[i].type \notin {"turn/start", "turn/end"}
          /\ events[i].turn = tr.nextTurn /\ events[i].step = tr.nextStep
      BY <1>2, <1>3, <2>1, <3>1 DEF Within
    <3>3. tr.openStep = tr.nextStep
      BY <1>1, <3>1, <3>2 DEF Numbered
    <3> QED BY <1>1, <1>2, <3>3
  <2>2. Len(more) > 0 /\ more[Len(more)].type = "step/start"
    BY <1>0
  <2>3. open2.pending = <<>> /\ tr2.pendingCalls = {}
    BY <1>1, <1>2, <1>3, <1>4
  <2> QED BY <2>1, <2>2, <2>3 DEF NoMessage
<1> QED BY <1>6, <1>7 DEF StepKnown, more, tr2, open2

\* A message opens the answering of its calls: none answered, none started.
LEMMA MessageStep ==
  ASSUME NEW events \in Seq(Event), NEW event \in Event, NEW tr, NEW open,
         KnownAt(events, tr, open), FitsAt(events, tr, open, event),
         event.type = "assistant/message"
  PROVE  /\ Places(Applied(tr, event), Scanned(open, event))
         /\ StepKnown(Append(events, event), Applied(tr, event), Scanned(open, event))
<1> DEFINE more == Append(events, event)
           tr2 == Applied(tr, event)
           open2 == Scanned(open, event)
           calls == event.calls
           m == Len(events) + 1
<1>0. /\ DOMAIN more = 1 .. Len(events) + 1 /\ DOMAIN events = 1 .. Len(events)
      /\ Len(events) \in Nat /\ Len(more) = Len(events) + 1
      /\ \A i \in DOMAIN events : more[i] = events[i] /\ events[i] \in Event
      /\ more[m] = event
  BY Longer
<1>1. /\ tr \in Log!Trace /\ open \in Cursor
      /\ tr.openTurn \in Nat /\ tr.openStep \in Nat
      /\ tr.nextStep # 0 /\ open.turn = tr.openTurn /\ open.step = tr.openStep
      /\ Accepts(tr, event) /\ Places(tr, open) /\ StepKnown(events, tr, open)
      /\ FitsMessage(events, event)
  BY DEF KnownAt, FitsAt, Places, Log!Trace
<1>2. /\ Within(event, tr) /\ tr.openStep = tr.nextStep
  BY <1>1, AcceptedPlaces
<1>3. calls \in Seq(Call) /\ IsInjective(calls)
  BY <1>1, EventTypes DEF Messages, FitsMessage
<1>4. NoMessage(events, tr, open)
  <2>1. Len(events) > 0 /\ events[Len(events)].type = "step/start"
    BY <1>1 DEF FitsMessage
  <2>2. ~Answering(events, tr, open)
    <3> SUFFICES ASSUME NEW p \in DOMAIN events, MessageAt(events, tr, p)
                 PROVE  FALSE
      BY DEF Answering
    <3>1. p = Len(events) \/ Len(events) \in p + 1 .. Len(events)
      BY <1>0
    <3> QED BY <2>1, <3>1 DEF MessageAt
  <2> QED BY <1>1, <1>2, <2>2 DEF StepKnown
<1>5. tr2 = tr
  BY <1>1, TraceEffects
<1>6. /\ open2.turn = open.turn /\ open2.step = open.step
      /\ open2.pending = AllRequested(open.pending, calls)
  BY <1>1, ScanEffects
<1> HIDE DEF more, tr2, open2, calls
<1>7. open2.pending = [i \in 1 .. Len(calls) |-> [call |-> calls[i], started |-> FALSE]]
  <2>1. open.pending = <<>>
    BY <1>4 DEF NoMessage
  <2> QED BY <1>3, <1>6, <2>1, MessageRequests
<1>8. Waiting(tr2, open2, calls, 0, 0)
  <2>1. \A i \in 1 .. Len(calls) : 0 + i = i /\ (0 + i <= 0) = FALSE
    OBVIOUS
  <2>2. Len(calls) - 0 = Len(calls)
    BY <1>3
  <2>3. open2.pending = [i \in 1 .. Len(calls) - 0 |->
                           [call |-> calls[0 + i], started |-> 0 + i <= 0]]
    BY <1>7, <2>1, <2>2
  <2>4. {calls[i] : i \in 0 + 1 .. 0} = {} /\ tr.pendingCalls = {}
    BY <1>4 DEF NoMessage
  <2> QED BY <1>5, <2>3, <2>4 DEF Waiting
<1>9. open2 \in Cursor
  <2>1. 0 \in 0 .. Len(calls)
    BY <1>3
  <2>2. open2.pending \in Seq(Entry)
    BY <1>3, <1>8, <2>1, WaitingType
  <2> QED BY <1>1, <1>6, <2>2, CursorType DEF open2
<1>10. Places(tr2, open2)
  BY <1>1, <1>2, <1>5, <1>6, <1>9 DEF Places
<1>11. MessageAt(more, tr, m)
  <2>1. \A i \in 1 .. m - 1 : Within(more[i], tr) => more[i].type = "step/start"
    BY <1>0, <1>4 DEF NoMessage
  <2>2. \A i \in m .. Len(more) : i = m
    BY <1>0
  <2>3. m + 1 .. Len(more) = {}
    BY <1>0
  <2> QED BY <1>0, <1>2, <1>3, <2>1, <2>2, <2>3 DEF MessageAt, calls
<1>12. InOrder(more, m, 0)
  <2> DEFINE at == [i \in 1 .. 0 |-> m]
  <2>1. at \in [1 .. 0 -> m .. Len(more)] /\ Range(at) = {}
    BY DEF Range
  <2>2. {i \in m .. Len(more) : more[i].type = "tool/result"} = {}
    <3>1. \A i \in m .. Len(more) : i = m
      BY <1>0
    <3> QED BY <1>0, <3>1
  <2>3. \A j \in 1 .. 0 : FALSE
    OBVIOUS
  <2> HIDE DEF at
  <2>4. \A j \in 1 .. 0 : more[at[j]].call = more[m].calls[j]
    BY <2>3
  <2>5. \A i, j \in 1 .. 0 : i < j => at[i] < at[j]
    BY <2>3
  <2> HIDE DEF m
  <2> QED BY <2>1, <2>2, <2>4, <2>5 DEF InOrder
<1>13. StartedCalls(more, tr, calls, 0)
  <2>1. \A i \in DOMAIN more : ~(more[i].type = "tool/call" /\ Within(more[i], tr))
    <3> SUFFICES ASSUME NEW i \in DOMAIN more, more[i].type = "tool/call",
                        Within(more[i], tr)
                 PROVE  FALSE
      OBVIOUS
    <3>1. i \in DOMAIN events
      BY <1>0
    <3> QED BY <1>0, <1>4, <3>1 DEF NoMessage
  <2> QED BY <2>1 DEF StartedCalls
<1>14. Answering(more, tr2, open2)
  <2>1. m \in DOMAIN more /\ 0 \in 0 .. Len(calls) /\ more[m].calls = calls
    BY <1>0, <1>3 DEF calls
  <2> HIDE DEF m
  <2>2. 0 > 0 => \E i \in DOMAIN more : IsNotStarted(more[i]) /\ Within(more[i], tr2)
    OBVIOUS
  <2> QED BY <1>5, <1>8, <1>11, <1>12, <1>13, <2>1, <2>2 DEF Answering
<1> QED BY <1>10, <1>14 DEF StepKnown, more, tr2, open2

\* An event of the open step other than its message leaves the message in place.
LEMMA MessageKept ==
  ASSUME NEW events \in Seq(Event), NEW event \in Event, NEW tr, NEW tr2,
         tr2.openTurn = tr.openTurn, tr2.openStep = tr.openStep,
         NEW m \in DOMAIN events, MessageAt(events, tr, m), Within(event, tr),
         event.type \in {"tool/call", "tool/result"}
  PROVE  MessageAt(Append(events, event), tr2, m)
<1> DEFINE more == Append(events, event)
<1>1. /\ DOMAIN more = 1 .. Len(events) + 1 /\ DOMAIN events = 1 .. Len(events)
      /\ Len(events) \in Nat /\ Len(more) = Len(events) + 1
      /\ \A i \in DOMAIN events : more[i] = events[i] /\ events[i] \in Event
      /\ more[Len(events) + 1] = event
  BY Longer
<1>2. \A x : Within(x, tr2) <=> Within(x, tr)
  BY DEF Within
<1> HIDE DEF more
<1>3. more[m].type = "assistant/message" /\ IsInjective(more[m].calls)
  BY <1>1 DEF MessageAt
<1>4. ASSUME NEW i \in m .. Len(more)
      PROVE  Within(more[i], tr2)
  <2>1. i \in m .. Len(events) \/ i = Len(events) + 1
    BY <1>1, <1>4
  <2>2. i \in m .. Len(events) => i \in DOMAIN events
    BY <1>1
  <2> QED BY <1>1, <1>2, <2>1, <2>2 DEF MessageAt
<1>5. ASSUME NEW i \in 1 .. m - 1, Within(more[i], tr2)
      PROVE  more[i].type = "step/start"
  <2>1. i \in DOMAIN events
    BY <1>1
  <2> QED BY <1>1, <1>2, <1>5, <2>1 DEF MessageAt
<1>6. ASSUME NEW i \in m + 1 .. Len(more)
      PROVE  more[i].type \in {"tool/call", "tool/result"}
  <2>1. i \in m + 1 .. Len(events) \/ i = Len(events) + 1
    BY <1>1, <1>6
  <2>2. i \in m + 1 .. Len(events) => i \in DOMAIN events
    BY <1>1
  <2> QED BY <1>1, <2>1, <2>2 DEF MessageAt
<1> QED BY <1>3, <1>4, <1>5, <1>6 DEF MessageAt, more

\* A call leaves the results since its message as they are.
LEMMA InOrderKept ==
  ASSUME NEW events \in Seq(Event), NEW event \in Event, NEW m \in DOMAIN events,
         NEW k \in Nat, InOrder(events, m, k), event.type # "tool/result"
  PROVE  InOrder(Append(events, event), m, k)
<1> DEFINE more == Append(events, event)
<1>1. /\ DOMAIN more = 1 .. Len(events) + 1 /\ DOMAIN events = 1 .. Len(events)
      /\ Len(events) \in Nat /\ Len(more) = Len(events) + 1
      /\ \A i \in DOMAIN events : more[i] = events[i] /\ events[i] \in Event
      /\ more[Len(events) + 1] = event
  BY Longer
<1> HIDE DEF more
<1>2. PICK at \in [1 .. k -> m .. Len(events)] :
        /\ {i \in m .. Len(events) : events[i].type = "tool/result"} = Range(at)
        /\ \A j \in 1 .. k : events[at[j]].call = events[m].calls[j]
        /\ \A i, j \in 1 .. k : i < j => at[i] < at[j]
  BY DEF InOrder
<1>3. at \in [1 .. k -> m .. Len(more)]
  BY <1>1
<1>4. {i \in m .. Len(more) : more[i].type = "tool/result"}
        = {i \in m .. Len(events) : events[i].type = "tool/result"}
  <2>1. ASSUME NEW i \in m .. Len(events)
        PROVE  i \in m .. Len(more) /\ more[i] = events[i]
    BY <1>1
  <2>2. ASSUME NEW i \in m .. Len(more), more[i].type = "tool/result"
        PROVE  i \in m .. Len(events)
    BY <1>1, <2>2
  <2> QED BY <2>1, <2>2
<1>5. \A j \in 1 .. k : more[at[j]] = events[at[j]]
  BY <1>1
<1>6. more[m] = events[m]
  BY <1>1
<1>7. \A j \in 1 .. k : more[at[j]].call = more[m].calls[j]
  BY <1>2, <1>5, <1>6
<1>8. {i \in m .. Len(more) : more[i].type = "tool/result"} = Range(at)
  BY <1>2, <1>4
<1>9. InOrder(more, m, k)
  BY <1>2, <1>3, <1>7, <1>8 DEF InOrder
<1> QED BY <1>9 DEF more

\* A started call is the next one of the message.
LEMMA CallStep ==
  ASSUME NEW events \in Seq(Event), NEW event \in Event, NEW tr, NEW open,
         KnownAt(events, tr, open), FitsAt(events, tr, open, event),
         event.type = "tool/call"
  PROVE  /\ Places(Applied(tr, event), Scanned(open, event))
         /\ StepKnown(Append(events, event), Applied(tr, event), Scanned(open, event))
<1> DEFINE more == Append(events, event)
           tr2 == Applied(tr, event)
           open2 == Scanned(open, event)
<1>0. /\ DOMAIN more = 1 .. Len(events) + 1 /\ DOMAIN events = 1 .. Len(events)
      /\ Len(events) \in Nat /\ Len(more) = Len(events) + 1
      /\ \A i \in DOMAIN events : more[i] = events[i] /\ events[i] \in Event
      /\ more[Len(events) + 1] = event
  BY Longer
<1>1. /\ tr \in Log!Trace /\ open \in Cursor
      /\ tr.openTurn \in Nat /\ tr.openStep \in Nat
      /\ tr.nextStep # 0 /\ open.turn = tr.openTurn /\ open.step = tr.openStep
      /\ Accepts(tr, event) /\ Places(tr, open) /\ StepKnown(events, tr, open)
      /\ FitsCall(events, tr, open, event)
  BY DEF KnownAt, FitsAt, Places, Log!Trace
<1>2. /\ Within(event, tr) /\ tr.openStep = tr.nextStep /\ tr.openTurn = tr.nextTurn
  BY <1>1, AcceptedPlaces
<1>3. Answering(events, tr, open)
  <2>1. DOMAIN open.pending # {}
    BY <1>1 DEF FitsCall
  <2>2. open.pending # <<>>
    BY <2>1
  <2> QED BY <1>1, <1>2, <2>2 DEF StepKnown, NoMessage
<1>4. PICK m \in DOMAIN events :
        /\ MessageAt(events, tr, m)
        /\ \E k, c \in 0 .. Len(events[m].calls) :
             /\ Waiting(tr, open, events[m].calls, k, c)
             /\ InOrder(events, m, k)
             /\ StartedCalls(events, tr, events[m].calls, c)
             /\ k > c => \E i \in DOMAIN events :
                           IsNotStarted(events[i]) /\ Within(events[i], tr)
  BY <1>3 DEF Answering
<1> DEFINE calls == events[m].calls
<1>5. calls \in Seq(Call) /\ IsInjective(calls) /\ events[m].type = "assistant/message"
  BY <1>0, <1>4, EventTypes DEF MessageAt, Messages
<1>6. PICK k \in 0 .. Len(calls), c \in 0 .. Len(calls) :
        /\ Waiting(tr, open, calls, k, c)
        /\ InOrder(events, m, k)
        /\ StartedCalls(events, tr, calls, c)
        /\ k > c => \E i \in DOMAIN events :
                      IsNotStarted(events[i]) /\ Within(events[i], tr)
  BY <1>4
<1>7. /\ tr2.openTurn = tr.openTurn /\ tr2.openStep = tr.openStep
      /\ tr2.nextTurn = tr.nextTurn /\ tr2.nextStep = tr.nextStep
      /\ tr2.pendingCalls = tr.pendingCalls \union {event.call}
      /\ tr2 \in Log!Trace
  BY <1>1, TraceEffects
<1>8. /\ open2.turn = open.turn /\ open2.step = open.step
      /\ open2.pending = Recorded(open.pending, event.call)
  BY <1>1, ScanEffects
<1> HIDE DEF more, tr2, open2, calls
<1>9. /\ DOMAIN open.pending = 1 .. Len(calls) - k
      /\ \A i \in 1 .. Len(calls) - k :
           /\ k + i \in 1 .. Len(calls)
           /\ open.pending[i] = [call |-> calls[k + i], started |-> k + i <= c]
           /\ open.pending[i].call = calls[k + i]
           /\ open.pending[i].started = (k + i <= c)
  BY <1>5, <1>6 DEF Waiting
<1>10. Len(calls) \in Nat /\ DOMAIN calls = 1 .. Len(calls)
  BY <1>5
<1>11. k <= c
  BY <1>1, <1>6, <1>10 DEF FitsCall
<1>12. PICK i \in DOMAIN open.pending :
         /\ open.pending[i].call = event.call /\ ~open.pending[i].started
         /\ \A j \in 1 .. i - 1 : open.pending[j].started
  BY <1>1 DEF FitsCall
<1>13. k + i > c /\ calls[k + i] = event.call
  <2>1. i \in 1 .. Len(calls) - k
    BY <1>9
  <2>2. open.pending[i].started = (k + i <= c) /\ open.pending[i].call = calls[k + i]
    BY <1>9, <2>1
  <2>3. ~(k + i <= c)
    BY <1>12, <2>2, Zenon
  <2> QED BY <1>10, <1>12, <2>1, <2>2, <2>3
<1>14. k + i = c + 1
  <2>1. CASE i = 1
    BY <1>10, <1>11, <1>13, <2>1
  <2>2. CASE i # 1
    <3>1. i - 1 \in 1 .. i - 1 /\ i - 1 \in 1 .. Len(calls) - k
      BY <1>9, <1>10, <2>2
    <3>2. k + (i - 1) <= c
      BY <1>9, <1>12, <3>1
    <3> QED BY <1>9, <1>10, <1>13, <3>2
  <2> QED BY <2>1, <2>2
<1>15. c + 1 \in 1 .. Len(calls) /\ calls[c + 1] = event.call
  BY <1>9, <1>13, <1>14
<1>16. Waiting(tr2, open2, calls, k, c + 1)
  <2>1. tr2.pendingCalls = {calls[j] : j \in k + 1 .. c + 1}
    <3>1. tr.pendingCalls = {calls[j] : j \in k + 1 .. c}
      BY <1>6 DEF Waiting
    <3>2. k + 1 .. c + 1 = (k + 1 .. c) \union {c + 1}
      BY <1>10, <1>11
    <3> QED BY <1>7, <1>15, <3>1, <3>2
  <2>2. \A j \in 1 .. Len(calls) - k :
          [open.pending[j] EXCEPT !.started = @ \/ open.pending[j].call = event.call]
            = [call |-> calls[k + j], started |-> k + j <= c + 1]
    <3> TAKE j \in 1 .. Len(calls) - k
    <3>1. /\ k + j \in 1 .. Len(calls)
          /\ open.pending[j] = [call |-> calls[k + j], started |-> k + j <= c]
      BY <1>9
    <3>2. calls[k + j] = event.call <=> k + j = c + 1
      BY <1>5, <1>10, <1>15, <3>1 DEF IsInjective
    <3>3. (k + j <= c \/ calls[k + j] = event.call) = (k + j <= c + 1)
      BY <1>10, <3>1, <3>2
    <3>4. [open.pending[j] EXCEPT !.started = @ \/ open.pending[j].call = event.call]
            = [call |-> calls[k + j],
               started |-> k + j <= c \/ calls[k + j] = event.call]
      <4> DEFINE was == k + j <= c
                 one == calls[k + j]
      <4>1. open.pending[j] = [call |-> one, started |-> was]
        BY <3>1
      <4> HIDE DEF was, one
      <4>2. open.pending[j].call = one /\ open.pending[j].started = was
        BY <4>1
      <4>3. [open.pending[j] EXCEPT !.started = @ \/ open.pending[j].call = event.call]
              = [call |-> one, started |-> open.pending[j].started \/ one = event.call]
        BY <4>1, <4>2
      <4>4. [open.pending[j] EXCEPT !.started = @ \/ open.pending[j].call = event.call]
              = [call |-> one, started |-> was \/ one = event.call]
        BY <4>2, <4>3, Zenon
      <4> QED BY <4>4 DEF was, one
    <3> QED BY <3>3, <3>4
  <2>3. open2.pending = [j \in 1 .. Len(calls) - k |->
                           [call |-> calls[k + j], started |-> k + j <= c + 1]]
    BY <1>8, <1>9, <2>2 DEF Recorded
  <2> QED BY <2>1, <2>3 DEF Waiting
<1>17. c + 1 \in 0 .. Len(calls)
  BY <1>10, <1>15
<1>18. open2 \in Cursor
  <2>1. open2.pending \in Seq(Entry)
    BY <1>5, <1>16, <1>17, WaitingType
  <2>2. open2.turn \in Nat /\ open2.step \in Nat
    BY <1>1, <1>8
  <2> QED BY <1>1, <2>1, <2>2, CursorType DEF open2
<1>19. Places(tr2, open2)
  <2>1. tr.openTurn = 0 => tr.openStep = 0
    BY <1>1 DEF Places
  <2> QED BY <1>1, <1>2, <1>7, <1>8, <1>18, <2>1 DEF Places
<1>20. Answering(more, tr2, open2)
  <2>1. m \in DOMAIN more /\ more[m].calls = calls
    BY <1>0 DEF calls
  <2>2. MessageAt(more, tr2, m)
    BY <1>2, <1>4, <1>7, MessageKept DEF more
  <2>3. InOrder(more, m, k)
    BY <1>6, <1>10, InOrderKept DEF more
  <2>4. \A x : Within(x, tr2) <=> Within(x, tr)
    BY <1>7 DEF Within
  <2>5. StartedCalls(more, tr2, calls, c + 1)
    <3>1. ASSUME NEW j \in DOMAIN more, more[j].type = "tool/call",
                 Within(more[j], tr2)
          PROVE  \E p \in 1 .. c + 1 : more[j].call = calls[p]
      <4>1. CASE j = Len(events) + 1
        BY <1>0, <1>15, <4>1
      <4>2. CASE j \in DOMAIN events
        <5>1. \E p \in 1 .. c : events[j].call = calls[p]
          BY <1>0, <1>6, <2>4, <3>1, <4>2 DEF StartedCalls
        <5> QED BY <1>0, <1>10, <4>2, <5>1
      <4> QED BY <1>0, <4>1, <4>2
    <3>2. ASSUME NEW p \in 1 .. c + 1
          PROVE  \E j \in DOMAIN more :
                   /\ more[j].type = "tool/call" /\ Within(more[j], tr2)
                   /\ more[j].call = calls[p]
      <4>1. CASE p = c + 1
        BY <1>0, <1>2, <1>15, <2>4, <4>1
      <4>2. CASE p \in 1 .. c
        <5>1. PICK j \in DOMAIN events :
                /\ events[j].type = "tool/call" /\ Within(events[j], tr)
                /\ events[j].call = calls[p]
          BY <1>6, <4>2 DEF StartedCalls
        <5> QED BY <1>0, <2>4, <5>1
      <4> QED BY <1>10, <4>1, <4>2
    <3> QED BY <3>1, <3>2 DEF StartedCalls
  <2>6. ~(k > c + 1)
    BY <1>10, <1>11
  <2> QED BY <1>16, <1>17, <2>1, <2>2, <2>3, <2>5, <2>6 DEF Answering
<1> QED BY <1>19, <1>20 DEF StepKnown, more, tr2, open2

\* The first of a sequence removed.
LEMMA FirstRemoved ==
  ASSUME NEW S, NEW seq \in Seq(S), Len(seq) > 0
  PROVE  RemoveAt(seq, 1) = [j \in 1 .. Len(seq) - 1 |-> seq[j + 1]]
<1> DEFINE head == SubSeq(seq, 1, 1 - 1)
           tail == SubSeq(seq, 1 + 1, Len(seq))
<1>1. head \in Seq(S) /\ Len(head) = 0
  OBVIOUS
<1>2. tail \in Seq(S) /\ Len(tail) = Len(seq) - 1
      /\ \A j \in 1 .. Len(seq) - 1 : tail[j] = seq[j + 1]
  <2>1. /\ 1 + 1 \in 1 .. Len(seq) + 1 /\ Len(seq) \in 1 + 1 - 1 .. Len(seq)
        /\ Len(seq) - (1 + 1) + 1 = Len(seq) - 1
    OBVIOUS
  <2> QED BY <2>1
<1> HIDE DEF head, tail
<1>3. head \o tail \in Seq(S) /\ Len(head \o tail) = Len(seq) - 1
      /\ \A j \in 1 .. Len(seq) - 1 : (head \o tail)[j] = tail[j]
  BY <1>1, <1>2, ConcatProperties
<1>4. head \o tail = [j \in 1 .. Len(seq) - 1 |-> seq[j + 1]]
  <2>1. \A s \in Seq(S) : s = [j \in 1 .. Len(s) |-> s[j]]
    OBVIOUS
  <2>2. \A j \in 1 .. Len(seq) - 1 : (head \o tail)[j] = seq[j + 1]
    BY <1>2, <1>3
  <2> DEFINE both == head \o tail
  <2> HIDE DEF both
  <2>3. both = [j \in 1 .. Len(seq) - 1 |-> both[j]]
    BY <1>3, <2>1 DEF both
  <2> QED BY <2>2, <2>3 DEF both
<1> QED BY <1>4 DEF RemoveAt, head, tail

\* One more result, of the next call.
LEMMA InOrderNext ==
  ASSUME NEW events \in Seq(Event), NEW event \in Event, NEW m \in DOMAIN events,
         NEW k \in Nat, InOrder(events, m, k), event.type = "tool/result",
         event.call = events[m].calls[k + 1]
  PROVE  InOrder(Append(events, event), m, k + 1)
<1> DEFINE more == Append(events, event)
           last == Len(events) + 1
<1>1. /\ DOMAIN more = 1 .. last /\ DOMAIN events = 1 .. Len(events)
      /\ Len(events) \in Nat /\ Len(more) = last
      /\ \A i \in DOMAIN events : more[i] = events[i] /\ events[i] \in Event
      /\ more[last] = event
  BY Longer
<1> HIDE DEF more
<1>2. PICK at \in [1 .. k -> m .. Len(events)] :
        /\ {i \in m .. Len(events) : events[i].type = "tool/result"} = Range(at)
        /\ \A j \in 1 .. k : events[at[j]].call = events[m].calls[j]
        /\ \A i, j \in 1 .. k : i < j => at[i] < at[j]
  BY DEF InOrder
<1> DEFINE to == [j \in 1 .. k + 1 |-> IF j = k + 1 THEN last ELSE at[j]]
<1>3. \A j \in 1 .. k + 1 : j = k + 1 \/ j \in 1 .. k
  OBVIOUS
<1>4. \A j \in 1 .. k : /\ at[j] \in m .. Len(events) /\ at[j] \in DOMAIN events
                        /\ at[j] < last /\ to[j] = at[j]
  BY <1>1, <1>2
<1>5. to[k + 1] = last /\ last \in m .. last
  BY <1>1
<1>6. to \in [1 .. k + 1 -> m .. Len(more)]
  BY <1>1, <1>3, <1>4, <1>5
<1> HIDE DEF to, last
<1>7. {i \in m .. Len(more) : more[i].type = "tool/result"} = Range(to)
  <2>1. ASSUME NEW i \in m .. Len(more), more[i].type = "tool/result"
        PROVE  i \in Range(to)
    <3>1. CASE i = last
      BY <1>5, <1>6, <3>1 DEF Range
    <3>2. CASE i \in m .. Len(events)
      <4>1. more[i] = events[i]
        BY <1>1, <3>2
      <4>2. i \in Range(at)
        BY <1>2, <2>1, <3>2, <4>1
      <4>3. PICK j \in 1 .. k : at[j] = i
        BY <1>2, <4>2 DEF Range
      <4> QED BY <1>4, <1>6, <4>3 DEF Range
    <3> QED BY <1>1, <2>1, <3>1, <3>2 DEF last
  <2>2. ASSUME NEW j \in 1 .. k + 1
        PROVE  to[j] \in m .. Len(more) /\ more[to[j]].type = "tool/result"
    <3>1. CASE j = k + 1
      BY <1>1, <1>5, <3>1
    <3>2. CASE j \in 1 .. k
      <4>1. at[j] \in Range(at)
        BY <1>2, <3>2 DEF Range
      <4>2. events[at[j]].type = "tool/result"
        BY <1>2, <4>1
      <4> QED BY <1>1, <1>4, <1>6, <3>2, <4>2
    <3> QED BY <1>3, <3>1, <3>2
  <2>3. Range(to) \subseteq {i \in m .. Len(more) : more[i].type = "tool/result"}
    BY <1>6, <2>2 DEF Range
  <2> QED BY <2>1, <2>3
<1>8. more[m] = events[m]
  BY <1>1
<1>9. ASSUME NEW j \in 1 .. k + 1
      PROVE  more[to[j]].call = more[m].calls[j]
  <2>1. CASE j = k + 1
    BY <1>1, <1>5, <1>8, <2>1
  <2>2. CASE j \in 1 .. k
    <3>1. events[at[j]].call = events[m].calls[j]
      BY <1>2, <2>2
    <3> QED BY <1>1, <1>4, <1>8, <2>2, <3>1
  <2> QED BY <1>3, <2>1, <2>2
<1>10. ASSUME NEW i \in 1 .. k + 1, NEW j \in 1 .. k + 1, i < j
       PROVE  to[i] < to[j]
  <2>1. i \in 1 .. k
    BY <1>10
  <2>2. CASE j = k + 1
    BY <1>4, <1>5, <2>1, <2>2
  <2>3. CASE j \in 1 .. k
    BY <1>2, <1>4, <1>10, <2>1, <2>3
  <2> QED BY <1>3, <2>2, <2>3
<1>11. InOrder(more, m, k + 1)
  BY <1>6, <1>7, <1>9, <1>10 DEF InOrder
<1> QED BY <1>11 DEF more

\* A result answers the first call that waits.
LEMMA ResultStep ==
  ASSUME NEW events \in Seq(Event), NEW event \in Event, NEW tr, NEW open,
         KnownAt(events, tr, open), FitsAt(events, tr, open, event),
         event.type = "tool/result"
  PROVE  /\ Places(Applied(tr, event), Scanned(open, event))
         /\ StepKnown(Append(events, event), Applied(tr, event), Scanned(open, event))
<1> DEFINE more == Append(events, event)
           tr2 == Applied(tr, event)
           open2 == Scanned(open, event)
<1>0. /\ DOMAIN more = 1 .. Len(events) + 1 /\ DOMAIN events = 1 .. Len(events)
      /\ Len(events) \in Nat /\ Len(more) = Len(events) + 1
      /\ \A i \in DOMAIN events : more[i] = events[i] /\ events[i] \in Event
      /\ more[Len(events) + 1] = event
  BY Longer
<1>1. /\ tr \in Log!Trace /\ open \in Cursor
      /\ tr.openTurn \in Nat /\ tr.openStep \in Nat
      /\ tr.nextStep # 0 /\ open.turn = tr.openTurn /\ open.step = tr.openStep
      /\ Accepts(tr, event) /\ Places(tr, open) /\ StepKnown(events, tr, open)
      /\ FitsResult(open, event) /\ open.pending \in Seq(Entry)
  BY DEF KnownAt, FitsAt, Places, Log!Trace, Cursor
<1>2. /\ Within(event, tr) /\ tr.openStep = tr.nextStep /\ tr.openTurn = tr.nextTurn
  BY <1>1, AcceptedPlaces
<1>3. Answering(events, tr, open)
  <2>1. open.pending # <<>>
    BY <1>1 DEF FitsResult
  <2> QED BY <1>1, <1>2, <2>1 DEF StepKnown, NoMessage
<1>4. PICK m \in DOMAIN events :
        /\ MessageAt(events, tr, m)
        /\ \E k, c \in 0 .. Len(events[m].calls) :
             /\ Waiting(tr, open, events[m].calls, k, c)
             /\ InOrder(events, m, k)
             /\ StartedCalls(events, tr, events[m].calls, c)
             /\ k > c => \E i \in DOMAIN events :
                           IsNotStarted(events[i]) /\ Within(events[i], tr)
  BY <1>3 DEF Answering
<1> DEFINE calls == events[m].calls
<1>5. calls \in Seq(Call) /\ IsInjective(calls) /\ events[m].type = "assistant/message"
  BY <1>0, <1>4, EventTypes DEF MessageAt, Messages
<1>6. PICK k \in 0 .. Len(calls), c \in 0 .. Len(calls) :
        /\ Waiting(tr, open, calls, k, c)
        /\ InOrder(events, m, k)
        /\ StartedCalls(events, tr, calls, c)
        /\ k > c => \E i \in DOMAIN events :
                      IsNotStarted(events[i]) /\ Within(events[i], tr)
  BY <1>4
<1>7. /\ tr2.openTurn = tr.openTurn /\ tr2.openStep = tr.openStep
      /\ tr2.nextTurn = tr.nextTurn /\ tr2.nextStep = tr.nextStep
      /\ tr2.pendingCalls = tr.pendingCalls \ {event.call}
      /\ tr2 \in Log!Trace
  BY <1>1, TraceEffects
<1>8. /\ open2.turn = open.turn /\ open2.step = open.step
      /\ open2.pending = Answered(open.pending, event.call)
  BY <1>1, ScanEffects
<1> HIDE DEF more, tr2, open2, calls
<1>9. /\ DOMAIN open.pending = 1 .. Len(calls) - k
      /\ \A i \in 1 .. Len(calls) - k :
           /\ k + i \in 1 .. Len(calls)
           /\ open.pending[i] = [call |-> calls[k + i], started |-> k + i <= c]
           /\ open.pending[i].call = calls[k + i]
           /\ open.pending[i].started = (k + i <= c)
  BY <1>5, <1>6 DEF Waiting
<1>10. Len(calls) \in Nat /\ DOMAIN calls = 1 .. Len(calls)
  BY <1>5
<1>11. Len(open.pending) = Len(calls) - k /\ 1 \in 1 .. Len(calls) - k
  <2>1. Len(open.pending) = Len(calls) - k
    BY <1>5, <1>6, WaitingType
  <2>2. Len(open.pending) > 0
    BY <1>1 DEF FitsResult
  <2>3. \A x, y \in Nat : \A z \in Nat : x = y - z /\ x > 0 => 1 \in 1 .. y - z
    OBVIOUS
  <2>4. k \in Nat /\ Len(open.pending) \in Nat
    BY <1>1, <1>10
  <2> QED BY <1>10, <2>1, <2>2, <2>3, <2>4
<1>12. k + 1 \in 1 .. Len(calls) /\ event.call = calls[k + 1]
  BY <1>1, <1>9, <1>11 DEF FitsResult
<1>13. k + 1 \in 0 .. Len(calls)
  BY <1>12
<1>14. \A i \in DOMAIN open.pending : open.pending[i].call = event.call <=> i = 1
  <2> TAKE i \in DOMAIN open.pending
  <2>1. k + i \in 1 .. Len(calls) /\ open.pending[i].call = calls[k + i]
    BY <1>9
  <2>2. calls[k + i] = calls[k + 1] <=> k + i = k + 1
    BY <1>5, <1>10, <1>12, <2>1 DEF IsInjective
  <2> QED BY <1>9, <1>10, <1>12, <2>1, <2>2
<1>15. Waiting(tr2, open2, calls, k + 1, c)
  <2>1. tr2.pendingCalls = {calls[j] : j \in k + 1 + 1 .. c}
    <3>1. tr.pendingCalls = {calls[j] : j \in k + 1 .. c}
      BY <1>6 DEF Waiting
    <3>2. \A j \in k + 1 .. c : calls[j] = event.call <=> j = k + 1
      BY <1>5, <1>10, <1>12 DEF IsInjective
    <3>3. \A j \in k + 1 + 1 .. c : j \in k + 1 .. c /\ j # k + 1
      BY <1>10
    <3>4. \A j \in k + 1 .. c : j = k + 1 \/ j \in k + 1 + 1 .. c
      BY <1>10
    <3> QED BY <1>7, <3>1, <3>2, <3>3, <3>4
  <2>2. open2.pending = RemoveAt(open.pending, 1)
    <3>1. 1 \in DOMAIN open.pending
      BY <1>9, <1>11
    <3>2. (CHOOSE i \in DOMAIN open.pending : open.pending[i].call = event.call) = 1
      BY <1>14, <3>1
    <3> QED BY <1>8, <1>14, <3>1, <3>2 DEF Answered
  <2>3. open2.pending = [j \in 1 .. Len(open.pending) - 1 |-> open.pending[j + 1]]
    <3>1. Len(open.pending) > 0
      BY <1>1 DEF FitsResult
    <3> QED BY <1>1, <2>2, <3>1, FirstRemoved
  <2>4. Len(open.pending) - 1 = Len(calls) - (k + 1)
    <3>1. \A y, z \in Nat : y - z - 1 = y - (z + 1)
      OBVIOUS
    <3>2. k \in Nat
      BY <1>10
    <3> QED BY <1>10, <1>11, <3>1, <3>2
  <2>5. \A j \in 1 .. Len(calls) - (k + 1) :
          open.pending[j + 1] = [call |-> calls[k + 1 + j], started |-> k + 1 + j <= c]
    <3> TAKE j \in 1 .. Len(calls) - (k + 1)
    <3>1. j + 1 \in 1 .. Len(calls) - k /\ k + (j + 1) = k + 1 + j
      BY <1>10
    <3> QED BY <1>9, <3>1
  <2>6. open2.pending = [j \in 1 .. Len(calls) - (k + 1) |->
                           [call |-> calls[k + 1 + j], started |-> k + 1 + j <= c]]
    BY <2>3, <2>4, <2>5
  <2> QED BY <2>1, <2>6 DEF Waiting
<1>16. open2 \in Cursor
  <2>1. open2.pending \in Seq(Entry)
    BY <1>5, <1>13, <1>15, WaitingType
  <2>2. open2.turn \in Nat /\ open2.step \in Nat
    BY <1>1, <1>8
  <2> QED BY <1>1, <2>1, <2>2, CursorType DEF open2
<1>17. Places(tr2, open2)
  <2>1. tr.openTurn = 0 => tr.openStep = 0
    BY <1>1 DEF Places
  <2> QED BY <1>1, <1>2, <1>7, <1>8, <1>16, <2>1 DEF Places
<1>18. Answering(more, tr2, open2)
  <2>1. m \in DOMAIN more /\ more[m].calls = calls
    BY <1>0 DEF calls
  <2>2. MessageAt(more, tr2, m)
    BY <1>2, <1>4, <1>7, MessageKept DEF more
  <2>3. InOrder(more, m, k + 1)
    BY <1>6, <1>10, <1>12, InOrderNext DEF more, calls
  <2>4. \A x : Within(x, tr2) <=> Within(x, tr)
    BY <1>7 DEF Within
  <2>5. StartedCalls(more, tr2, calls, c)
    <3>1. ASSUME NEW j \in DOMAIN more, more[j].type = "tool/call",
                 Within(more[j], tr2)
          PROVE  \E p \in 1 .. c : more[j].call = calls[p]
      <4>1. j \in DOMAIN events /\ more[j] = events[j]
        BY <1>0, <3>1
      <4>2. events[j].type = "tool/call" /\ Within(events[j], tr)
        BY <2>4, <3>1, <4>1
      <4>3. \E p \in 1 .. c : events[j].call = calls[p]
        BY <1>6, <4>1, <4>2 DEF StartedCalls
      <4> QED BY <4>1, <4>3
    <3>2. ASSUME NEW p \in 1 .. c
          PROVE  \E j \in DOMAIN more :
                   /\ more[j].type = "tool/call" /\ Within(more[j], tr2)
                   /\ more[j].call = calls[p]
      <4>1. PICK j \in DOMAIN events :
              /\ events[j].type = "tool/call" /\ Within(events[j], tr)
              /\ events[j].call = calls[p]
        BY <1>6, <3>2 DEF StartedCalls
      <4> QED BY <1>0, <2>4, <4>1
    <3> QED BY <3>1, <3>2 DEF StartedCalls
  <2>6. k + 1 > c => \E i \in DOMAIN more :
                       IsNotStarted(more[i]) /\ Within(more[i], tr2)
    <3>1. CASE k > c
      <4>1. PICK i \in DOMAIN events : IsNotStarted(events[i]) /\ Within(events[i], tr)
        BY <1>6, <3>1
      <4> QED BY <1>0, <2>4, <4>1
    <3>2. CASE ~(k > c) /\ k + 1 > c
      <4>1. ~(k + 1 <= c)
        BY <1>10, <3>2
      <4>2. ~open.pending[1].started
        BY <1>9, <1>11, <4>1
      <4>3. IsNotStarted(event)
        BY <1>1, <4>2 DEF FitsResult, IsNotStarted
      <4> QED BY <1>0, <1>2, <2>4, <4>3
    <3> QED BY <3>1, <3>2
  <2> QED BY <1>13, <1>15, <2>1, <2>2, <2>3, <2>5, <2>6 DEF Answering
<1> QED BY <1>17, <1>18 DEF StepKnown, more, tr2, open2

\* The message that waits, and what waits of it.
AtMessage(events, tr, open, m, k, c) ==
  LET calls == events[m].calls
  IN  /\ MessageAt(events, tr, m)
      /\ calls \in Seq(Call) /\ IsInjective(calls)
      /\ Waiting(tr, open, calls, k, c)
      /\ InOrder(events, m, k)
      /\ StartedCalls(events, tr, calls, c)
      /\ k > c => \E i \in DOMAIN events :
                    IsNotStarted(events[i]) /\ Within(events[i], tr)
      /\ open.pending \in Seq(Entry) /\ Len(open.pending) = Len(calls) - k
      /\ \A i \in 1 .. Len(calls) - k :
           /\ k + i \in 1 .. Len(calls)
           /\ open.pending[i].call = calls[k + i]
           /\ open.pending[i].started = (k + i <= c)

\* The message of the open step and how far its calls are, named.
LEMMA OpenMessage ==
  ASSUME NEW events \in Seq(Event), NEW tr, NEW open, Answering(events, tr, open)
  PROVE  \E m \in DOMAIN events :
           \E k, c \in 0 .. Len(events[m].calls) : AtMessage(events, tr, open, m, k, c)
<1>1. PICK m \in DOMAIN events :
        /\ MessageAt(events, tr, m)
        /\ \E k, c \in 0 .. Len(events[m].calls) :
             /\ Waiting(tr, open, events[m].calls, k, c)
             /\ InOrder(events, m, k)
             /\ StartedCalls(events, tr, events[m].calls, c)
             /\ k > c => \E i \in DOMAIN events :
                           IsNotStarted(events[i]) /\ Within(events[i], tr)
  BY DEF Answering
<1> DEFINE calls == events[m].calls
<1>2. calls \in Seq(Call) /\ IsInjective(calls)
  <2>1. events[m] \in Event /\ events[m].type = "assistant/message"
        /\ IsInjective(events[m].calls)
    BY <1>1 DEF MessageAt
  <2>2. events[m] \in Messages
    BY <2>1, EventTypes
  <2> QED BY <2>1, <2>2 DEF Messages
<1>3. PICK k \in 0 .. Len(calls), c \in 0 .. Len(calls) :
        /\ Waiting(tr, open, calls, k, c)
        /\ InOrder(events, m, k)
        /\ StartedCalls(events, tr, calls, c)
        /\ k > c => \E i \in DOMAIN events :
                      IsNotStarted(events[i]) /\ Within(events[i], tr)
  BY <1>1
<1> HIDE DEF calls
<1>4. open.pending \in Seq(Entry) /\ Len(open.pending) = Len(calls) - k
  BY <1>2, <1>3, WaitingType
<1>5. \A i \in 1 .. Len(calls) - k :
        /\ k + i \in 1 .. Len(calls)
        /\ open.pending[i].call = calls[k + i]
        /\ open.pending[i].started = (k + i <= c)
  BY <1>2, <1>3 DEF Waiting
<1>6. AtMessage(events, tr, open, m, k, c)
  BY <1>1, <1>2, <1>3, <1>4, <1>5 DEF AtMessage, calls
<1> QED BY <1>6 DEF calls

\* A fitting event never makes a call both started and not started.
LEMMA NeverBothStep ==
  ASSUME NEW events \in Seq(Event), NEW event \in Event, NEW tr, NEW open,
         KnownAt(events, tr, open), FitsAt(events, tr, open, event)
  PROVE  NeverBoth(Append(events, event))
<1> DEFINE more == Append(events, event)
           last == Len(events) + 1
<1>0. /\ DOMAIN more = 1 .. last /\ DOMAIN events = 1 .. Len(events)
      /\ Len(events) \in Nat
      /\ \A i \in DOMAIN events : more[i] = events[i] /\ events[i] \in Event
      /\ more[last] = event
      /\ \A i \in 1 .. last : i = last \/ i \in DOMAIN events
  BY Longer
<1>1. /\ Accepts(tr, event) /\ Places(tr, open) /\ StepKnown(events, tr, open)
      /\ tr.nextStep # 0 /\ NeverBoth(events)
  BY DEF KnownAt, FitsAt, Places
<1> HIDE DEF more, last
<1>2. SUFFICES ASSUME NEW i \in DOMAIN more, NEW j \in DOMAIN more,
                      IsNotStarted(more[i]), more[j].type = "tool/call",
                      more[i].turn = more[j].turn, more[i].step = more[j].step,
                      more[i].call = more[j].call
               PROVE  FALSE
  BY DEF NeverBoth, more
<1>3. CASE i \in DOMAIN events /\ j \in DOMAIN events
  <2>1. more[i] = events[i] /\ more[j] = events[j]
    BY <1>0, <1>3
  <2> QED BY <1>1, <1>2, <1>3, <2>1 DEF NeverBoth
<1>4. CASE i \in DOMAIN events /\ j = last
  <2>1. more[j] = event /\ more[i] = events[i] /\ event.type = "tool/call"
    BY <1>0, <1>2, <1>4
  <2>2. Within(event, tr)
    BY <1>1, <2>1, AcceptedPlaces
  <2>3. Within(events[i], tr)
    BY <1>2, <2>1, <2>2 DEF Within, IsNotStarted
  <2>4. FitsCall(events, tr, open, event)
    BY <2>1 DEF FitsAt
  <2> QED BY <1>2, <1>4, <2>1, <2>3, <2>4 DEF FitsCall
<1>5. CASE i = last /\ j \in DOMAIN events
  <2>1. /\ more[i] = event /\ more[j] = events[j]
        /\ event.type = "tool/result" /\ event.code = "TOOL_NOT_STARTED"
    BY <1>0, <1>2, <1>5 DEF IsNotStarted
  <2>2. Within(event, tr) /\ tr.openStep # 0
    BY <1>1, <2>1, AcceptedPlaces
  <2>3. Within(events[j], tr) /\ events[j].type = "tool/call"
    BY <1>2, <2>1, <2>2 DEF Within
  <2>4. FitsResult(open, event)
    BY <2>1 DEF FitsAt
  <2>5. Len(open.pending) > 0 /\ open.pending[1].call = event.call
        /\ ~open.pending[1].started
    BY <2>1, <2>4 DEF FitsResult
  <2>6. Answering(events, tr, open)
    <3>1. open.pending # <<>>
      BY <2>5
    <3> QED BY <1>1, <2>2, <3>1 DEF StepKnown, NoMessage
  <2>7. PICK m \in DOMAIN events :
          \E k, c \in 0 .. Len(events[m].calls) : AtMessage(events, tr, open, m, k, c)
    BY <2>6, OpenMessage
  <2> DEFINE calls == events[m].calls
  <2>8. PICK k \in 0 .. Len(calls), c \in 0 .. Len(calls) :
           AtMessage(events, tr, open, m, k, c)
    BY <2>7
  <2>9. /\ calls \in Seq(Call) /\ IsInjective(calls)
        /\ StartedCalls(events, tr, calls, c)
        /\ Len(open.pending) = Len(calls) - k
        /\ \A p \in 1 .. Len(calls) - k :
             /\ k + p \in 1 .. Len(calls)
             /\ open.pending[p].call = calls[k + p]
             /\ open.pending[p].started = (k + p <= c)
    BY <2>8 DEF AtMessage
  <2> HIDE DEF calls
  <2>10. 1 \in 1 .. Len(calls) - k
    <3>1. Len(calls) \in Nat
      BY <2>9
    <3>2. Len(calls) - k > 0
      BY <2>5, <2>9
    <3> QED BY <3>1, <3>2
  <2>11. k + 1 \in DOMAIN calls /\ calls[k + 1] = event.call /\ ~(k + 1 <= c)
    <3>1. /\ k + 1 \in 1 .. Len(calls)
          /\ open.pending[1].call = calls[k + 1]
          /\ open.pending[1].started = (k + 1 <= c)
      BY <2>9, <2>10
    <3>2. ~(k + 1 <= c)
      BY <2>5, <3>1, Zenon
    <3> QED BY <2>5, <2>9, <3>1, <3>2
  <2>12. PICK p \in 1 .. c : events[j].call = calls[p]
    BY <1>5, <2>3, <2>9 DEF StartedCalls
  <2>13. p \in DOMAIN calls /\ p # k + 1
    <3>1. Len(calls) \in Nat /\ DOMAIN calls = 1 .. Len(calls)
      BY <2>9
    <3> QED BY <2>11, <3>1
  <2>14. calls[p] = calls[k + 1]
    BY <1>2, <2>1, <2>11, <2>12
  <2> QED BY <2>9, <2>11, <2>13, <2>14 DEF IsInjective
<1>6. CASE i = last /\ j = last
  BY <1>2, <1>6 DEF IsNotStarted
<1> QED BY <1>0, <1>3, <1>4, <1>5, <1>6

\* One more event that fits leaves everything known of the longer log.
LEMMA KnownStep ==
  ASSUME NEW events \in Seq(Event), NEW event \in Event,
         Known(events), Fits(events, event)
  PROVE  Known(Append(events, event))
<1> DEFINE tr == TraceOf(events)
           open == Scan(events)
<1>1. /\ TraceOf(Append(events, event)) = Applied(tr, event)
      /\ Scan(Append(events, event)) = Scanned(open, event)
  BY TraceOfAppend, ScanAppend
<1>2. KnownAt(events, tr, open) /\ FitsAt(events, tr, open, event)
  BY DEF Known, Fits
<1> HIDE DEF tr, open
<1>3. /\ Places(tr, open) /\ Numbered(events, tr) /\ MessagesOpen(events, tr)
      /\ Accepts(tr, event)
  BY <1>2 DEF KnownAt, FitsAt
<1>4. /\ Numbered(Append(events, event), Applied(tr, event))
      /\ MessagesOpen(Append(events, event), Applied(tr, event))
      /\ NeverBoth(Append(events, event))
  BY <1>2, <1>3, NumberedStep, MessagesOpenStep, NeverBothStep
<1>5. /\ Places(Applied(tr, event), Scanned(open, event))
      /\ StepKnown(Append(events, event), Applied(tr, event), Scanned(open, event))
  BY <1>2, BoundaryStep, StepStartStep, MessageStep, CallStep, ResultStep, EventTypes
<1>6. KnownAt(Append(events, event), Applied(tr, event), Scanned(open, event))
  BY <1>4, <1>5 DEF KnownAt
<1> QED BY <1>1, <1>6 DEF Known

\* A log of a prefix and its next event.
LEMMA NextPrefix ==
  ASSUME NEW R, NEW seq \in Seq(R), NEW n \in Nat, n < Len(seq)
  PROVE  /\ SubSeq(seq, 1, n) \in Seq(R) /\ Len(SubSeq(seq, 1, n)) = n
         /\ SubSeq(seq, 1, n + 1) = Append(SubSeq(seq, 1, n), seq[n + 1])
         /\ seq[n + 1] \in R
         /\ SubSeq(seq, 1, Len(seq)) = seq
  OBVIOUS

\* Of an empty log everything is known.
LEMMA KnownEmpty == Known(<<>>)
<1> DEFINE none == <<>>
           tr == TraceOf(none)
           open == Scan(none)
<1>1. none \in Seq(Event) /\ DOMAIN none = {}
  OBVIOUS
<1>2. tr = Log!FreshTrace /\ open = Nothing
  BY TraceOfEmpty, ScanEmpty
<1>3. tr = [openTurn |-> 0, openStep |-> 0, nextTurn |-> 1, nextStep |-> 1,
            pendingCalls |-> {}]
      /\ open = [turn |-> 0, step |-> 0, pending |-> <<>>]
  BY <1>2 DEF Log!FreshTrace, Nothing, Log!None
<1> HIDE DEF none, tr, open
<1>4. tr \in Log!Trace /\ open \in Cursor
  <2>1. <<>> \in Seq(Entry)
    OBVIOUS
  <2> QED BY <1>3, <2>1 DEF Log!Trace, Cursor
<1>5. Places(tr, open) /\ StepKnown(none, tr, open)
  BY <1>3, <1>4 DEF Places, StepKnown
<1>6. Numbered(none, tr) /\ MessagesOpen(none, tr) /\ NeverBoth(none)
  BY <1>1 DEF Numbered, MessagesOpen, NeverBoth
<1>7. Known(none)
  BY <1>5, <1>6 DEF Known, KnownAt, tr, open
<1> QED BY <1>7 DEF none

-----------------------------------------------------------------------------
(* A legal log grows by events that fit, and all of the above is known of  *)
(* it: by induction over its prefixes.                                     *)

\* An empty log is legal.
LEMMA LegalEmpty == Legal(<<>>)
<1> DEFINE none == <<>>
<1>1. none \in Seq(Event) /\ Len(none) = 0
  OBVIOUS
<1> HIDE DEF none
<1>2. 1 .. Len(none) = {}
  BY <1>1
<1>3. Legal(none)
  BY <1>1, <1>2 DEF Legal
<1> QED BY <1>3 DEF none

\* A legal log and an event that fits make a legal log.
LEMMA LegalAppend ==
  ASSUME NEW events, Legal(events), NEW event \in Event, Fits(events, event)
  PROVE  Legal(Append(events, event))
<1> DEFINE more == Append(events, event)
<1>1. events \in Seq(Event)
  BY DEF Legal
<1>2. /\ more \in Seq(Event) /\ Len(events) \in Nat /\ Len(more) = Len(events) + 1
      /\ \A i \in 1 .. Len(events) : more[i] = events[i]
      /\ more[Len(events) + 1] = event
  BY <1>1, Longer
<1>3. \A n \in 1 .. Len(events) + 1 : SubSeq(more, 1, n - 1) = SubSeq(events, 1, n - 1)
  <2> TAKE n \in 1 .. Len(events) + 1
  <2>1. n - 1 \in 0 .. Len(events)
    BY <1>2
  <2> QED BY <1>1, <2>1
<1>4. SubSeq(events, 1, Len(events)) = events
  BY <1>1
<1> HIDE DEF more
<1>5. ASSUME NEW n \in 1 .. Len(more)
      PROVE  Fits(SubSeq(more, 1, n - 1), more[n])
  <2>1. CASE n = Len(events) + 1
    <3>1. n - 1 = Len(events) /\ n \in 1 .. Len(events) + 1
      BY <1>2, <2>1
    <3>2. SubSeq(more, 1, n - 1) = events
      BY <1>3, <1>4, <3>1
    <3> QED BY <1>2, <2>1, <3>2
  <2>2. CASE n \in 1 .. Len(events)
    <3>1. Fits(SubSeq(events, 1, n - 1), events[n])
      BY <2>2 DEF Legal
    <3>2. n \in 1 .. Len(events) + 1 /\ more[n] = events[n]
      BY <1>2, <2>2
    <3>3. SubSeq(more, 1, n - 1) = SubSeq(events, 1, n - 1)
      BY <1>3, <3>2
    <3> QED BY <3>1, <3>2, <3>3
  <2> QED BY <1>2, <2>1, <2>2
<1>6. Legal(more)
  BY <1>2, <1>5 DEF Legal
<1> QED BY <1>6 DEF more

\* A prefix of a legal log is legal.
LEMMA LegalPrefix ==
  ASSUME NEW events, Legal(events), NEW k \in 0 .. Len(events)
  PROVE  Legal(SubSeq(events, 1, k))
<1> DEFINE front == SubSeq(events, 1, k)
<1>1. events \in Seq(Event)
  BY DEF Legal
<1>2. front \in Seq(Event) /\ Len(front) = k /\ \A i \in 1 .. k : front[i] = events[i]
  BY <1>1
<1>3. \A n \in 1 .. k : SubSeq(front, 1, n - 1) = SubSeq(events, 1, n - 1)
  <2> TAKE n \in 1 .. k
  <2>1. n - 1 \in 0 .. k
    OBVIOUS
  <2>2. \A i \in 1 .. n - 1 : front[i] = events[i] /\ events[i] \in Event
    BY <1>1, <1>2
  <2> HIDE DEF front
  <2> QED BY <1>1, <1>2, <2>1, <2>2
<1> HIDE DEF front
<1>4. ASSUME NEW n \in 1 .. Len(front)
      PROVE  Fits(SubSeq(front, 1, n - 1), front[n])
  <2>1. n \in 1 .. k /\ n \in 1 .. Len(events)
    BY <1>2
  <2>2. Fits(SubSeq(events, 1, n - 1), events[n])
    BY <2>1 DEF Legal
  <2> QED BY <1>2, <1>3, <2>1, <2>2
<1>5. Legal(front)
  BY <1>2, <1>4 DEF Legal
<1> QED BY <1>5 DEF front

\* All of Known holds of a legal log, by induction over its prefixes.
LEMMA LegalKnown ==
  ASSUME NEW events, Legal(events)
  PROVE  Known(events)
<1> DEFINE T == {n \in Nat : n <= Len(events) => Known(SubSeq(events, 1, n))}
<1>1. events \in Seq(Event) /\ Len(events) \in Nat
  BY DEF Legal
<1>2. T \in SUBSET Nat
  OBVIOUS
<1>3. 0 \in T
  <2>1. SubSeq(events, 1, 0) = <<>>
    BY <1>1
  <2>2. Known(SubSeq(events, 1, 0))
    BY <2>1, KnownEmpty
  <2> QED BY <2>2
<1>4. \A n \in T : n + 1 \in T
  <2> SUFFICES ASSUME NEW n \in Nat, n <= Len(events) => Known(SubSeq(events, 1, n)),
                      n + 1 <= Len(events)
               PROVE  Known(SubSeq(events, 1, n + 1))
    OBVIOUS
  <2> DEFINE front == SubSeq(events, 1, n)
  <2>1. /\ front \in Seq(Event) /\ events[n + 1] \in Event
        /\ SubSeq(events, 1, n + 1) = Append(front, events[n + 1])
    <3>1. n < Len(events)
      BY <1>1
    <3> QED BY <1>1, <3>1, NextPrefix
  <2>2. Fits(front, events[n + 1])
    <3>1. n + 1 \in 1 .. Len(events) /\ n + 1 - 1 = n
      BY <1>1
    <3>2. Fits(SubSeq(events, 1, n + 1 - 1), events[n + 1])
      BY <3>1 DEF Legal
    <3> QED BY <3>1, <3>2
  <2>3. Known(front)
    BY <1>1
  <2> HIDE DEF front
  <2> QED BY <2>1, <2>2, <2>3, KnownStep
<1>5. T = Nat
  <2> HIDE DEF T
  <2> QED BY <1>2, <1>3, <1>4, SetInduction
<1>6. Known(SubSeq(events, 1, Len(events)))
  BY <1>1, <1>5
<1>7. SubSeq(events, 1, Len(events)) = events
  BY <1>1
<1> QED BY <1>6, <1>7

-----------------------------------------------------------------------------
(* The synthetic results, one after another.                               *)

\* The first pending call's result takes its entry away.
LEMMA FirstAnswered ==
  ASSUME NEW pending \in Seq(Entry), Len(pending) > 0,
         \A i \in DOMAIN pending : pending[i].call = pending[1].call => i = 1
  PROVE  Answered(pending, pending[1].call)
           = [j \in 1 .. Len(pending) - 1 |-> pending[j + 1]]
<1>1. 1 \in DOMAIN pending
  OBVIOUS
<1>2. (CHOOSE i \in DOMAIN pending : pending[i].call = pending[1].call) = 1
  BY <1>1
<1>3. Answered(pending, pending[1].call) = RemoveAt(pending, 1)
  BY <1>1, <1>2 DEF Answered
<1> QED BY <1>3, FirstRemoved

\* The result that a repair writes for the first pending call fits, and leaves
\* the others pending.
LEMMA CloserFits ==
  ASSUME NEW events, Legal(events), NEW open, open = Scan(events),
         Len(open.pending) > 0, NEW event,
         event = Closer(open.turn, open.step, open.pending[1])
  PROVE  /\ event \in Event /\ event.type = "tool/result" /\ Fits(events, event)
         /\ Scan(Append(events, event)).turn = open.turn
         /\ Scan(Append(events, event)).step = open.step
         /\ Scan(Append(events, event)).pending
              = [j \in 1 .. Len(open.pending) - 1 |-> open.pending[j + 1]]
<1> DEFINE tr == TraceOf(events)
<1>1. events \in Seq(Event) /\ Known(events)
  BY LegalKnown DEF Legal
<1>2. KnownAt(events, tr, open)
  BY <1>1 DEF Known
<1> HIDE DEF tr
<1>3. /\ tr \in Log!Trace /\ open \in Cursor /\ open.pending \in Seq(Entry)
      /\ open.turn \in Nat /\ open.step \in Nat
      /\ open.turn = tr.openTurn /\ open.step = tr.openStep
      /\ tr.openTurn = 0 => tr.openStep = 0
      /\ tr.openStep = 0 => open.pending = <<>>
      /\ StepKnown(events, tr, open)
  BY <1>2 DEF KnownAt, Places, Cursor
<1>4. open.pending # <<>> /\ tr.openStep # 0 /\ tr.openTurn # 0
  <2>1. open.pending # <<>>
    OBVIOUS
  <2> QED BY <1>3, <2>1
<1>5. Answering(events, tr, open)
  BY <1>3, <1>4 DEF StepKnown, NoMessage
<1>6. PICK m \in DOMAIN events :
        \E k, c \in 0 .. Len(events[m].calls) : AtMessage(events, tr, open, m, k, c)
  BY <1>1, <1>5, OpenMessage
<1> DEFINE calls == events[m].calls
<1>7. PICK k \in 0 .. Len(calls), c \in 0 .. Len(calls) :
        AtMessage(events, tr, open, m, k, c)
  BY <1>6
<1>8. /\ calls \in Seq(Call) /\ IsInjective(calls)
      /\ Waiting(tr, open, calls, k, c)
      /\ Len(open.pending) = Len(calls) - k
      /\ \A p \in 1 .. Len(calls) - k :
           /\ k + p \in 1 .. Len(calls)
           /\ open.pending[p].call = calls[k + p]
           /\ open.pending[p].started = (k + p <= c)
  BY <1>7 DEF AtMessage
<1> HIDE DEF calls
<1>9. 1 \in 1 .. Len(calls) - k /\ DOMAIN open.pending = 1 .. Len(calls) - k
  <2>1. Len(calls) \in Nat
    BY <1>8
  <2>2. Len(calls) - k > 0
    BY <1>8
  <2>3. DOMAIN open.pending = 1 .. Len(open.pending)
    BY <1>3
  <2> QED BY <1>8, <2>1, <2>2, <2>3
<1>10. \A i \in DOMAIN open.pending : open.pending[i].call = open.pending[1].call => i = 1
  <2> SUFFICES ASSUME NEW i \in DOMAIN open.pending,
                      open.pending[i].call = open.pending[1].call
               PROVE  i = 1
    OBVIOUS
  <2>1. /\ k + i \in 1 .. Len(calls) /\ k + 1 \in 1 .. Len(calls)
        /\ calls[k + i] = calls[k + 1]
    BY <1>8, <1>9
  <2>2. DOMAIN calls = 1 .. Len(calls) /\ Len(calls) \in Nat
    BY <1>8
  <2>3. k + i = k + 1
    BY <1>8, <2>1, <2>2 DEF IsInjective
  <2>4. k \in Nat /\ i \in Nat
    BY <1>9, <2>2
  <2> QED BY <2>3, <2>4
<1>11. open.pending[1] \in Entry /\ open.pending[1].call \in Call
  <2>1. open.pending[1] \in Entry
    BY <1>3
  <2> QED BY <2>1 DEF Entry
<1> DEFINE code == IF open.pending[1].started THEN "TOOL_OUTCOME_UNKNOWN"
                                              ELSE "TOOL_NOT_STARTED"
<1>12. event = [type |-> "tool/result", turn |-> open.turn, step |-> open.step,
                call |-> open.pending[1].call, code |-> code]
  BY DEF Closer, ResultEvent
<1>13. code \in Code /\ (open.pending[1].started <=> code # "TOOL_NOT_STARTED")
  BY DEF Code
<1> HIDE DEF code
<1>14. /\ event.type = "tool/result" /\ event.turn = open.turn
       /\ event.step = open.step /\ event.call = open.pending[1].call
       /\ event.code = code
  BY <1>12
<1>15. event \in Event
  BY <1>3, <1>11, <1>12, <1>13 DEF Event, ResultEvents
<1>16. FitsResult(open, event)
  BY <1>13, <1>14 DEF FitsResult
<1>17. Accepts(tr, event)
  <2>1. event.call \in tr.pendingCalls \/ event.code = "TOOL_NOT_STARTED"
    <3>1. CASE open.pending[1].started
      <4>1. open.pending[1].started = (k + 1 <= c) /\ event.call = calls[k + 1]
        BY <1>8, <1>9, <1>14
      <4>2. k + 1 <= c
        BY <3>1, <4>1, Zenon
      <4>3. Len(calls) \in Nat
        BY <1>8
      <4>4. k + 1 \in k + 1 .. c
        BY <4>2, <4>3
      <4>5. tr.pendingCalls = {calls[i] : i \in k + 1 .. c}
        BY <1>8 DEF Waiting
      <4> QED BY <4>1, <4>4, <4>5
    <3>2. CASE ~open.pending[1].started
      BY <1>13, <1>14, <3>2
    <3> QED BY <3>1, <3>2
  <2>2. Log!InOpenStep(tr, event.turn, event.step)
    BY <1>3, <1>4, <1>14 DEF Log!InOpenStep, Log!None
  <2>3. Log!CanResult(tr, event.turn, event.step, event.call,
                      event.code = "TOOL_NOT_STARTED")
    BY <2>1, <2>2 DEF Log!CanResult
  <2> QED BY <1>14, <2>3 DEF Accepts
<1>18. Fits(events, event)
  <2>1. FitsAt(events, tr, open, event)
    BY <1>14, <1>16, <1>17 DEF FitsAt
  <2> QED BY <2>1 DEF Fits, tr
<1>19. Scan(Append(events, event)) = Scanned(open, event)
  BY <1>1, <1>15, ScanAppend
<1>20. /\ Scanned(open, event).turn = open.turn
       /\ Scanned(open, event).step = open.step
       /\ Scanned(open, event).pending = Answered(open.pending, event.call)
  BY <1>3, <1>14, <1>15, ScanEffects
<1>21. Answered(open.pending, event.call)
         = [j \in 1 .. Len(open.pending) - 1 |-> open.pending[j + 1]]
  <2>1. Len(open.pending) > 0
    OBVIOUS
  <2> QED BY <1>3, <1>10, <1>14, <2>1, FirstAnswered
<1> QED BY <1>14, <1>15, <1>18, <1>19, <1>20, <1>21

\* A synthetic result is a result.
LEMMA CloserType ==
  ASSUME NEW turn \in Nat, NEW step \in Nat, NEW entry \in Entry
  PROVE  Closer(turn, step, entry) \in Event
         /\ Closer(turn, step, entry).type = "tool/result"
<1> DEFINE code == IF entry.started THEN "TOOL_OUTCOME_UNKNOWN" ELSE "TOOL_NOT_STARTED"
<1>1. Closer(turn, step, entry)
        = [type |-> "tool/result", turn |-> turn, step |-> step,
           call |-> entry.call, code |-> code]
  BY DEF Closer, ResultEvent
<1>2. code \in Code /\ entry.call \in Call
  BY DEF Code, Entry
<1> HIDE DEF code
<1> QED BY <1>1, <1>2 DEF Event, ResultEvents

\* A sequence as a function of its positions.
LEMMA AsFunction ==
  ASSUME NEW R, NEW seq \in Seq(R)
  PROVE  seq = [i \in 1 .. Len(seq) |-> seq[i]]
  OBVIOUS

\* The results of interruptedTurnClosers.
Results(open) ==
  [i \in DOMAIN open.pending |-> Closer(open.turn, open.step, open.pending[i])]

\* There is one for each pending call, in their order.
LEMMA ResultsType ==
  ASSUME NEW open \in Cursor
  PROVE  /\ Results(open) \in Seq(Event) /\ Len(Results(open)) = Len(open.pending)
         /\ \A i \in 1 .. Len(open.pending) :
              /\ Results(open)[i] = Closer(open.turn, open.step, open.pending[i])
              /\ Results(open)[i].type = "tool/result"
<1> DEFINE n == Len(open.pending)
<1>1. /\ open.turn \in Nat /\ open.step \in Nat /\ open.pending \in Seq(Entry)
      /\ n \in Nat /\ DOMAIN open.pending = 1 .. n
      /\ \A i \in 1 .. n : open.pending[i] \in Entry
  BY DEF Cursor
<1>2. \A i \in 1 .. n : Closer(open.turn, open.step, open.pending[i]) \in Event
                        /\ Closer(open.turn, open.step, open.pending[i]).type = "tool/result"
  BY <1>1, CloserType
<1> HIDE DEF n
<1>3. Results(open) \in [1 .. n -> Event]
  BY <1>1, <1>2 DEF Results
<1>4. \A f \in [1 .. n -> Event] : f \in Seq(Event) /\ Len(f) = n
  BY <1>1
<1>5. \A i \in 1 .. n : Results(open)[i] = Closer(open.turn, open.step, open.pending[i])
  BY <1>1 DEF Results
<1> QED BY <1>2, <1>3, <1>4, <1>5 DEF n

\* The first n elements of a sequence behind another, and one more.
LEMMA OneMore ==
  ASSUME NEW R, NEW front \in Seq(R), NEW seq \in Seq(R), NEW n \in Nat, n < Len(seq)
  PROVE  /\ front \o SubSeq(seq, 1, n + 1) = Append(front \o SubSeq(seq, 1, n), seq[n + 1])
         /\ front \o SubSeq(seq, 1, n) \in Seq(R) /\ seq[n + 1] \in R
<1> DEFINE some == SubSeq(seq, 1, n)
           last == seq[n + 1]
<1>1. some \in Seq(R) /\ last \in R /\ SubSeq(seq, 1, n + 1) = Append(some, last)
  BY NextPrefix
<1> HIDE DEF some, last
<1>2. front \o Append(some, last) = Append(front \o some, last)
  BY <1>1
<1> QED BY <1>1, <1>2 DEF some, last

\* With its results a legal log has no pending call.
LEMMA ResultsFit ==
  ASSUME NEW events, Legal(events), NEW open, open = Scan(events)
  PROVE  LET all == events \o Results(open)
         IN  /\ Legal(all)
             /\ Scan(all).turn = open.turn /\ Scan(all).step = open.step
             /\ Scan(all).pending = <<>>
<1> DEFINE n == Len(open.pending)
           results == Results(open)
           Upto(j) == events \o SubSeq(results, 1, j)
           Rest(j) == [i \in 1 .. n - j |-> open.pending[j + i]]
           Closed(j) == /\ Legal(Upto(j))
                        /\ Scan(Upto(j)).turn = open.turn
                        /\ Scan(Upto(j)).step = open.step
                        /\ Scan(Upto(j)).pending = Rest(j)
           T == {j \in Nat : j <= n => Closed(j)}
<1>1. events \in Seq(Event) /\ open \in Cursor
  BY LegalKnown DEF Legal, Known, KnownAt, Places
<1>2. open.pending \in Seq(Entry) /\ n \in Nat
  BY <1>1 DEF Cursor
<1>3. /\ results \in Seq(Event) /\ Len(results) = n
      /\ \A i \in 1 .. n : results[i] = Closer(open.turn, open.step, open.pending[i])
  BY <1>1, ResultsType
<1> HIDE DEF results, n
<1>4. T \in SUBSET Nat
  OBVIOUS
<1>5. 0 \in T
  <2>1. SubSeq(results, 1, 0) = <<>>
    BY <1>3
  <2>2. Upto(0) = events
    BY <1>1, <2>1
  <2>3. Rest(0) = open.pending
    <3>1. open.pending = [i \in 1 .. n |-> open.pending[i]]
      BY <1>2, AsFunction DEF n
    <3>2. n - 0 = n /\ \A i \in 1 .. n : 0 + i = i
      BY <1>2
    <3> QED BY <3>1, <3>2
  <2> HIDE DEF Upto, Rest
  <2> QED BY <2>2, <2>3
<1>6. \A j \in T : j + 1 \in T
  <2> HIDE DEF Closed
  <2> SUFFICES ASSUME NEW j \in Nat, j <= n => Closed(j), j + 1 <= n
               PROVE  Closed(j + 1)
    OBVIOUS
  <2> USE DEF Closed
  <2>1. j < n /\ j + 1 \in 1 .. n
    BY <1>2
  <2>2. Closed(j)
    BY <1>2
  <2> DEFINE sofar == Upto(j)
             cursor == Scan(sofar)
             event == results[j + 1]
  <2>3. Upto(j + 1) = Append(sofar, event)
    BY <1>1, <1>3, <2>1, OneMore
  <2>4. /\ Legal(sofar) /\ cursor.turn = open.turn /\ cursor.step = open.step
        /\ cursor.pending = Rest(j)
    BY <2>2
  <2>5. Rest(j) \in Seq(Entry) /\ Len(Rest(j)) = n - j /\ Rest(j)[1] = open.pending[j + 1]
    <3>1. n - j \in Nat /\ 1 \in 1 .. n - j
      BY <1>2, <2>1
    <3>2. \A i \in 1 .. n - j : open.pending[j + i] \in Entry
      BY <1>2 DEF n
    <3>3. Rest(j) \in [1 .. n - j -> Entry]
      BY <3>2
    <3>4. \A f \in [1 .. n - j -> Entry] : f \in Seq(Entry) /\ Len(f) = n - j
      BY <3>1
    <3> QED BY <3>1, <3>3, <3>4
  <2>6. Len(cursor.pending) > 0
    BY <1>2, <2>1, <2>4, <2>5
  <2>7. event = Closer(cursor.turn, cursor.step, cursor.pending[1])
    BY <1>3, <2>1, <2>4, <2>5
  <2>8. Rest(j + 1) = [i \in 1 .. Len(Rest(j)) - 1 |-> Rest(j)[i + 1]]
    <3>1. n - (j + 1) = Len(Rest(j)) - 1
      BY <1>2, <2>5
    <3>2. \A i \in 1 .. n - (j + 1) : /\ i + 1 \in 1 .. n - j
                                      /\ j + (i + 1) = j + 1 + i
      BY <1>2
    <3> QED BY <3>1, <3>2
  <2> HIDE DEF Upto, Rest, sofar, cursor, event
  <2>9. /\ event \in Event /\ Fits(sofar, event)
        /\ Scan(Append(sofar, event)).turn = cursor.turn
        /\ Scan(Append(sofar, event)).step = cursor.step
        /\ Scan(Append(sofar, event)).pending
             = [i \in 1 .. Len(cursor.pending) - 1 |-> cursor.pending[i + 1]]
    BY <2>4, <2>6, <2>7, CloserFits DEF cursor
  <2>10. Legal(Append(sofar, event))
    BY <2>4, <2>9, LegalAppend
  <2> QED BY <2>3, <2>4, <2>8, <2>9, <2>10
<1>7. T = Nat
  <2> HIDE DEF T
  <2> QED BY <1>4, <1>5, <1>6, SetInduction
<1>8. Closed(n)
  <2> HIDE DEF Closed
  <2> QED BY <1>2, <1>7
<1>9. Upto(n) = events \o results
  <2>1. SubSeq(results, 1, n) = results
    BY <1>3
  <2> QED BY <2>1
<1>10. Rest(n) = <<>>
  <2>1. n - n = 0
    BY <1>2
  <2> QED BY <2>1
<1> HIDE DEF Upto, Rest
<1> QED BY <1>8, <1>9, <1>10 DEF results

\* An accepted boundary fits wherever it is accepted.
LEMMA BoundaryFits ==
  ASSUME NEW events, NEW event, Accepts(TraceOf(events), event),
         event.type \in {"turn/start", "turn/end", "step/start", "step/end"}
  PROVE  Fits(events, event)
  BY DEF Fits, FitsAt

\* A legal log with the end of its turn, and of its step when one is open.
LEMMA TurnEndFits ==
  ASSUME NEW events, Legal(events), NEW turn \in Nat, turn # 0,
         TraceOf(events).openTurn = turn, TraceOf(events).openStep = 0
  PROVE  LET all == Append(events, TurnEvent("turn/end", turn))
         IN  Legal(all) /\ TraceOf(all).openTurn = 0
             /\ TurnEvent("turn/end", turn) \in Event
<1> DEFINE event == TurnEvent("turn/end", turn)
           tr == TraceOf(events)
<1>1. events \in Seq(Event) /\ tr \in Log!Trace
  BY LegalKnown DEF Legal, Known, KnownAt, Places
<1>2. event \in Event /\ event.type = "turn/end" /\ event.turn = turn
  BY DEF TurnEvent, Event, TurnEvents
<1> HIDE DEF event
<1>3. Accepts(tr, event)
  BY <1>2 DEF Accepts, Log!CanCloseTurn, Log!None
<1>4. Fits(events, event)
  BY <1>2, <1>3, BoundaryFits
<1>5. Legal(Append(events, event))
  BY <1>2, <1>4, LegalAppend
<1>6. TraceOf(Append(events, event)) = Applied(tr, event)
  BY <1>1, <1>2, TraceOfAppend
<1>7. Applied(tr, event).openTurn = 0
  BY <1>1, <1>2, TraceEffects
<1> QED BY <1>2, <1>5, <1>6, <1>7 DEF event

\* A step whose calls are answered may end.
LEMMA StepEndFits ==
  ASSUME NEW events, Legal(events), NEW turn \in Nat, turn # 0, NEW step \in Nat, step # 0,
         TraceOf(events).openTurn = turn, TraceOf(events).openStep = step
  PROVE  LET all == Append(events, StepEvent("step/end", turn, step))
         IN  /\ Legal(all)
             /\ TraceOf(all).openTurn = turn /\ TraceOf(all).openStep = 0
             /\ StepEvent("step/end", turn, step) \in Event
<1> DEFINE event == StepEvent("step/end", turn, step)
           tr == TraceOf(events)
<1>1. events \in Seq(Event) /\ tr \in Log!Trace
  BY LegalKnown DEF Legal, Known, KnownAt, Places
<1>2. /\ event \in Event /\ event.type = "step/end" /\ event.turn = turn
      /\ event.step = step
  BY DEF StepEvent, Event, StepEvents
<1> HIDE DEF event
<1>3. Accepts(tr, event)
  BY <1>2 DEF Accepts, Log!InOpenStep, Log!None
<1>4. Fits(events, event)
  BY <1>2, <1>3, BoundaryFits
<1>5. Legal(Append(events, event))
  BY <1>2, <1>4, LegalAppend
<1>6. TraceOf(Append(events, event)) = Applied(tr, event)
  BY <1>1, <1>2, TraceOfAppend
<1>7. Applied(tr, event).openTurn = turn /\ Applied(tr, event).openStep = 0
  BY <1>1, <1>2, TraceEffects
<1> QED BY <1>2, <1>5, <1>6, <1>7 DEF event

\* What a repair adds: the results, the end of the step, the end of the turn.
LEMMA RepairShape ==
  ASSUME NEW events \in Seq(Event), NEW open \in Cursor, open = Scan(events)
  PROVE  LET all == events \o interruptedTurnClosers(events)
             known == events \o Results(open)
             stepEnd == StepEvent("step/end", open.turn, open.step)
             turnEnd == TurnEvent("turn/end", open.turn)
         IN  /\ interruptedTurnClosers(events) \in Seq(Event)
             /\ open.turn = 0 => all = events /\ interruptedTurnClosers(events) = <<>>
             /\ open.turn # 0 /\ open.step = 0 => all = Append(known, turnEnd)
             /\ open.turn # 0 /\ open.step # 0
                  => all = Append(Append(known, stepEnd), turnEnd)
<1> DEFINE fix == interruptedTurnClosers(events)
           results == Results(open)
           stepEnd == StepEvent("step/end", open.turn, open.step)
           turnEnd == TurnEvent("turn/end", open.turn)
<1>1. results \in Seq(Event)
  BY ResultsType
<1>2. stepEnd \in Event /\ turnEnd \in Event
  BY DEF Cursor, StepEvent, TurnEvent, Event, StepEvents, TurnEvents
<1>3. fix = IF open.turn = 0 THEN <<>>
            ELSE results \o (IF open.step = 0 THEN <<>> ELSE <<stepEnd>>) \o <<turnEnd>>
  BY DEF interruptedTurnClosers, Results, Log!None
<1> HIDE DEF fix, results, stepEnd, turnEnd
<1>4. CASE open.turn = 0
  <2>1. fix = <<>>
    BY <1>3, <1>4
  <2>2. events \o <<>> = events
    OBVIOUS
  <2> QED BY <1>4, <2>1, <2>2 DEF fix
<1>5. CASE open.turn # 0 /\ open.step = 0
  <2>1. fix = results \o <<>> \o <<turnEnd>>
    BY <1>3, <1>5
  <2>2. results \o <<>> = results
    BY <1>1
  <2>3. fix = Append(results, turnEnd)
    BY <1>1, <1>2, <2>1, <2>2
  <2>4. events \o Append(results, turnEnd) = Append(events \o results, turnEnd)
    BY <1>1, <1>2
  <2>5. fix \in Seq(Event)
    BY <1>1, <1>2, <2>3
  <2> QED BY <1>5, <2>3, <2>4, <2>5 DEF fix, results, turnEnd
<1>6. CASE open.turn # 0 /\ open.step # 0
  <2>1. fix = results \o <<stepEnd>> \o <<turnEnd>>
    BY <1>3, <1>6
  <2>2. results \o <<stepEnd>> = Append(results, stepEnd)
        /\ Append(results, stepEnd) \in Seq(Event)
    BY <1>1, <1>2
  <2> DEFINE some == Append(results, stepEnd)
  <2>3. fix = some \o <<turnEnd>> /\ some \in Seq(Event)
    BY <2>1, <2>2
  <2> HIDE DEF some
  <2>4. fix = Append(some, turnEnd) /\ some \in Seq(Event)
    BY <1>2, <2>3
  <2>5. events \o Append(some, turnEnd) = Append(events \o some, turnEnd)
    BY <1>2, <2>4
  <2>6. events \o Append(results, stepEnd) = Append(events \o results, stepEnd)
    BY <1>1, <1>2
  <2>7. fix \in Seq(Event)
    BY <1>2, <2>4
  <2>8. events \o fix = Append(Append(events \o results, stepEnd), turnEnd)
    BY <2>4, <2>5, <2>6 DEF some
  <2> QED BY <1>6, <2>7, <2>8 DEF fix, results, stepEnd, turnEnd
<1> QED BY <1>4, <1>5, <1>6

\* A repaired log is legal and leaves nothing open.
LEMMA RepairFits ==
  ASSUME NEW events, Legal(events)
  PROVE  LET all == events \o interruptedTurnClosers(events)
         IN  /\ Legal(all) /\ interruptedTurnClosers(events) \in Seq(Event)
             /\ TraceOf(all).openTurn = 0 /\ TraceOf(all).openStep = 0
             /\ TraceOf(all).pendingCalls = {}
<1> DEFINE open == Scan(events)
           all == events \o interruptedTurnClosers(events)
           known == events \o Results(open)
           stepEnd == StepEvent("step/end", open.turn, open.step)
           turnEnd == TurnEvent("turn/end", open.turn)
<1>1. /\ events \in Seq(Event) /\ open \in Cursor /\ open.turn \in Nat /\ open.step \in Nat
      /\ open.turn = TraceOf(events).openTurn
  BY LegalKnown DEF Legal, Known, KnownAt, Places, Cursor
<1>2. Legal(known) /\ Scan(known).turn = open.turn /\ Scan(known).step = open.step
  BY ResultsFit
<1>3. TraceOf(known).openTurn = open.turn /\ TraceOf(known).openStep = open.step
  BY <1>2, LegalKnown DEF Known, KnownAt, Places
<1>4. /\ interruptedTurnClosers(events) \in Seq(Event)
      /\ open.turn = 0 => all = events
      /\ open.turn # 0 /\ open.step = 0 => all = Append(known, turnEnd)
      /\ open.turn # 0 /\ open.step # 0 => all = Append(Append(known, stepEnd), turnEnd)
  BY <1>1, RepairShape
<1> HIDE DEF open, all, known
<1>5. Legal(all) /\ TraceOf(all).openTurn = 0
  <2>1. CASE open.turn = 0
    BY <1>1, <1>4, <2>1
  <2>2. CASE open.turn # 0 /\ open.step = 0
    BY <1>1, <1>2, <1>3, <1>4, <2>2, TurnEndFits
  <2>3. CASE open.turn # 0 /\ open.step # 0
    <3> DEFINE ended == Append(known, stepEnd)
    <3>1. Legal(ended) /\ TraceOf(ended).openTurn = open.turn
          /\ TraceOf(ended).openStep = 0
      BY <1>1, <1>2, <1>3, <2>3, StepEndFits
    <3> HIDE DEF ended
    <3>2. all = Append(ended, turnEnd)
      BY <1>4, <2>3 DEF ended
    <3> QED BY <1>1, <2>3, <3>1, <3>2, TurnEndFits
  <2> QED BY <2>1, <2>2, <2>3
<1>6. TraceOf(all).openStep = 0 /\ TraceOf(all).pendingCalls = {}
  BY <1>5, LegalKnown DEF Known, KnownAt, Places
<1> QED BY <1>4, <1>5, <1>6 DEF all

\* Between m and e is one result for each call of message m, in its order.
Answers(all, m, e) ==
  \E at \in [DOMAIN all[m].calls -> m .. e] :
    /\ {i \in m .. e : all[i].type = "tool/result"} = Range(at)
    /\ \A k \in DOMAIN at : all[at[k]].call = all[m].calls[k]
    /\ \A j, k \in DOMAIN at : j < k => at[j] < at[k]

\* A step that one of the last n events ended answers the calls of its message.
AnswersAll(all, n) ==
  \A m, e \in DOMAIN all :
    /\ m < e
    /\ all[m].type = "assistant/message" /\ all[e].type = "step/end"
    /\ \A i \in m .. e : all[i].type # "step/end" \/ i = e
    /\ e < Len(all) /\ e > Len(all) - n
    => Answers(all, m, e)

\* The closers answer every call of the interrupted step's message once.
LEMMA AnsweredByRepair ==
  ASSUME NEW events, Legal(events), NEW all, all = events \o interruptedTurnClosers(events)
  PROVE  AnswersAll(all, Len(interruptedTurnClosers(events)))
<1> SUFFICES ASSUME NEW m \in DOMAIN all, NEW e \in DOMAIN all, m < e,
                    all[m].type = "assistant/message", all[e].type = "step/end",
                    \A i \in m .. e : all[i].type # "step/end" \/ i = e,
                    e < Len(all), e > Len(all) - Len(interruptedTurnClosers(events))
             PROVE  Answers(all, m, e)
  BY DEF AnswersAll
<1> DEFINE fix == interruptedTurnClosers(events)
           open == Scan(events)
           known == events \o Results(open)
           tr == TraceOf(known)
           cursor == Scan(known)
           stepEnd == StepEvent("step/end", open.turn, open.step)
           turnEnd == TurnEvent("turn/end", open.turn)
<1>1. events \in Seq(Event) /\ open \in Cursor
  BY LegalKnown DEF Legal, Known, KnownAt, Places
<1>2. /\ fix \in Seq(Event)
      /\ open.turn = 0 => fix = <<>>
      /\ open.turn # 0 /\ open.step = 0 => all = Append(known, turnEnd)
      /\ open.turn # 0 /\ open.step # 0 => all = Append(Append(known, stepEnd), turnEnd)
  BY <1>1, RepairShape
<1>3. /\ Results(open) \in Seq(Event)
      /\ \A i \in 1 .. Len(Results(open)) : Results(open)[i].type = "tool/result"
  BY <1>1, ResultsType
<1>4. /\ known \in Seq(Event) /\ Len(known) = Len(events) + Len(Results(open))
      /\ \A i \in 1 .. Len(known) : i > Len(events) =>
           known[i] = Results(open)[i - Len(events)]
           /\ i - Len(events) \in 1 .. Len(Results(open))
  BY <1>1, <1>3
<1>5. \A i \in 1 .. Len(known) : i > Len(events) => known[i].type = "tool/result"
  BY <1>3, <1>4
<1>6. Legal(known) /\ cursor.step = open.step /\ cursor.pending = <<>>
  BY ResultsFit
<1>7. KnownAt(known, tr, cursor)
  BY <1>6, LegalKnown DEF Known
<1>8. all \in Seq(Event) /\ Len(all) = Len(events) + Len(fix) /\ Len(events) \in Nat
      /\ Len(fix) \in Nat
  BY <1>1, <1>2
<1>9. stepEnd \in Event /\ turnEnd \in Event
  BY <1>1 DEF Cursor, StepEvent, TurnEvent, Event, StepEvents, TurnEvents
<1> HIDE DEF fix, open, known, tr, cursor, stepEnd, turnEnd
<1>10. e > Len(events) /\ e \in Nat /\ m \in Nat /\ m >= 1 /\ e < Len(all)
  BY <1>8 DEF fix
<1>11. open.turn # 0
  <2> SUFFICES ASSUME open.turn = 0 PROVE FALSE
    OBVIOUS
  <2>1. Len(fix) = 0
    BY <1>2
  <2> QED BY <1>8, <1>10, <2>1
<1>12. open.step # 0
  <2> SUFFICES ASSUME open.step = 0 PROVE FALSE
    OBVIOUS
  <2>1. all = Append(known, turnEnd)
    BY <1>2, <1>11
  <2>2. e \in 1 .. Len(known) /\ all[e] = known[e]
    BY <1>4, <1>9, <1>10, <2>1
  <2> QED BY <1>5, <1>10, <2>2
<1>13. all = Append(Append(known, stepEnd), turnEnd)
  BY <1>2, <1>11, <1>12
<1>14. Len(all) = Len(known) + 2 /\ \A i \in 1 .. Len(known) : all[i] = known[i]
  <2> DEFINE some == Append(known, stepEnd)
  <2>1. some \in Seq(Event) /\ Len(some) = Len(known) + 1
        /\ \A i \in 1 .. Len(known) : some[i] = known[i]
    <3>1. known \in Seq(Event)
      BY <1>4
    <3>2. /\ some \in Seq(Event) /\ Len(some) = Len(known) + 1
          /\ DOMAIN known = 1 .. Len(known)
          /\ \A i \in DOMAIN known : some[i] = known[i]
      BY <1>9, <3>1, Longer
    <3> HIDE DEF some
    <3> QED BY <3>2
  <2>2. all = Append(some, turnEnd)
    BY <1>13
  <2> HIDE DEF some
  <2>3. Len(all) = Len(some) + 1 /\ \A i \in 1 .. Len(some) : all[i] = some[i]
    BY <1>9, <2>1, <2>2, Longer
  <2>4. Len(known) \in Nat
    BY <1>4
  <2> HIDE DEF some
  <2> QED BY <2>1, <2>3, <2>4
<1>15. e = Len(known) + 1
  <2>1. Len(known) \in Nat /\ e <= Len(known) + 1
    BY <1>4, <1>10, <1>14
  <2>2. ~(e <= Len(known))
    <3> SUFFICES ASSUME e <= Len(known) PROVE FALSE
      OBVIOUS
    <3>1. e \in 1 .. Len(known)
      BY <1>10, <2>1
    <3> QED BY <1>5, <1>10, <1>14, <3>1
  <2> QED BY <1>10, <2>1, <2>2
<1>16. m \in DOMAIN known /\ all[m] = known[m] /\ DOMAIN known = 1 .. Len(known)
  BY <1>4, <1>10, <1>14, <1>15
<1>17. tr.openStep # 0 /\ Within(known[m], tr)
  <2>1. \A i \in m .. Len(known) : known[i].type # "step/end"
    <3> TAKE i \in m .. Len(known)
    <3>1. i \in m .. e /\ i # e /\ i \in 1 .. Len(known)
      BY <1>4, <1>10, <1>15
    <3> QED BY <1>14, <3>1
  <2>2. MessagesOpen(known, tr)
    BY <1>7 DEF KnownAt
  <2> QED BY <1>16, <2>1, <2>2 DEF MessagesOpen
<1>18. Answering(known, tr, cursor)
  <2>1. ~NoMessage(known, tr, cursor)
    <3> SUFFICES ASSUME NoMessage(known, tr, cursor) PROVE FALSE
      OBVIOUS
    <3>1. m = Len(known)
      BY <1>16, <1>17 DEF NoMessage
    <3> QED BY <1>16, <3>1 DEF NoMessage
  <2> QED BY <1>7, <1>17, <2>1 DEF KnownAt, StepKnown
<1>19. PICK p \in DOMAIN known :
         \E k, c \in 0 .. Len(known[p].calls) : AtMessage(known, tr, cursor, p, k, c)
  BY <1>4, <1>18, OpenMessage
<1>20. PICK k \in 0 .. Len(known[p].calls), c \in 0 .. Len(known[p].calls) :
         AtMessage(known, tr, cursor, p, k, c)
  BY <1>19
<1>21. p = m
  <2>1. MessageAt(known, tr, p)
    BY <1>20 DEF AtMessage
  <2>2. m \in 1 .. p - 1 \/ m = p \/ m \in p + 1 .. Len(known)
    BY <1>4, <1>16
  <2>3. m \notin 1 .. p - 1
    BY <1>16, <1>17, <2>1 DEF MessageAt
  <2>4. m \notin p + 1 .. Len(known)
    BY <1>16, <2>1 DEF MessageAt
  <2> QED BY <2>2, <2>3, <2>4
<1> DEFINE calls == known[m].calls
<1>22. calls \in Seq(Call) /\ k \in 0 .. Len(calls) /\ InOrder(known, m, k)
       /\ Len(cursor.pending) = Len(calls) - k
  BY <1>20, <1>21 DEF AtMessage
<1>23. k = Len(calls) /\ DOMAIN calls = 1 .. k
  <2>1. Len(cursor.pending) = 0
    BY <1>6
  <2> HIDE DEF calls
  <2>2. Len(calls) \in Nat /\ DOMAIN calls = 1 .. Len(calls)
    BY <1>22
  <2> QED BY <1>22, <2>1, <2>2
<1> HIDE DEF calls
<1>24. PICK at \in [1 .. k -> m .. Len(known)] :
         /\ {i \in m .. Len(known) : known[i].type = "tool/result"} = Range(at)
         /\ \A j \in 1 .. k : known[at[j]].call = calls[j]
         /\ \A i, j \in 1 .. k : i < j => at[i] < at[j]
  BY <1>22 DEF InOrder, calls
<1>25. \A i \in m .. e : i = e \/ i \in m .. Len(known)
  <2>1. Len(known) \in Nat
    BY <1>4
  <2> QED BY <1>10, <1>15, <2>1
<1>26. \A i \in m .. Len(known) : i \in m .. e /\ all[i] = known[i]
  BY <1>4, <1>10, <1>14, <1>15
<1>27. {i \in m .. e : all[i].type = "tool/result"} = Range(at)
  BY <1>24, <1>25, <1>26
<1>28. at \in [DOMAIN calls -> m .. e] /\ DOMAIN at = 1 .. k
  BY <1>23, <1>24, <1>26
<1>29. \A j \in DOMAIN at : all[at[j]].call = calls[j]
  <2> TAKE j \in DOMAIN at
  <2>1. j \in 1 .. k /\ at[j] \in m .. Len(known)
    BY <1>24, <1>28
  <2>2. all[at[j]] = known[at[j]]
    BY <1>26, <2>1
  <2>3. known[at[j]].call = calls[j]
    BY <1>24, <2>1
  <2> QED BY <2>2, <2>3
<1>30. all[m].calls = calls
  BY <1>16 DEF calls
<1>31. \A i, j \in DOMAIN at : i < j => at[i] < at[j]
  BY <1>24, <1>28
<1> QED BY <1>27, <1>28, <1>29, <1>30, <1>31 DEF Answers

-----------------------------------------------------------------------------
(* Prefixes.                                                               *)

\* A prefix, by its elements.
LEMMA PrefixElements ==
  ASSUME NEW R, NEW s \in Seq(R), NEW t \in Seq(R)
  PROVE  IsPrefix(s, t) <=> /\ Len(s) <= Len(t)
                            /\ \A i \in 1 .. Len(s) : s[i] = t[i]
<1>1. SubSeq(s, 1, Len(s)) = s
  OBVIOUS
<1> DEFINE front == SubSeq(t, 1, Len(s))
<1>2. ASSUME Len(s) <= Len(t)
      PROVE  front \in Seq(R) /\ Len(front) = Len(s)
             /\ \A i \in 1 .. Len(s) : front[i] = t[i]
  BY <1>2
<1> HIDE DEF front
<1>3. ASSUME Len(s) <= Len(t)
      PROVE  s = front <=> \A i \in 1 .. Len(s) : s[i] = t[i]
  <2>1. front = [i \in 1 .. Len(s) |-> t[i]]
    <3>1. front = [i \in 1 .. Len(front) |-> front[i]]
      BY <1>2, <1>3, AsFunction
    <3> QED BY <1>2, <1>3, <3>1
  <2>2. s = [i \in 1 .. Len(s) |-> s[i]]
    BY AsFunction
  <2>3. (\A i \in 1 .. Len(s) : s[i] = t[i]) => s = front
    BY <2>1, <2>2
  <2>4. s = front => \A i \in 1 .. Len(s) : s[i] = t[i]
    BY <1>2, <1>3
  <2> QED BY <2>3, <2>4
<1> QED BY <1>1, <1>3 DEF IsPrefix, front

\* Prefixes of prefixes are prefixes.
LEMMA PrefixTransitive ==
  ASSUME NEW R, NEW s \in Seq(R), NEW t \in Seq(R), NEW u \in Seq(R),
         IsPrefix(s, t), IsPrefix(t, u)
  PROVE  IsPrefix(s, u)
<1>1. /\ Len(s) <= Len(t) /\ \A i \in 1 .. Len(s) : s[i] = t[i]
      /\ Len(t) <= Len(u) /\ \A i \in 1 .. Len(t) : t[i] = u[i]
  BY PrefixElements
<1>2. Len(s) \in Nat /\ Len(t) \in Nat /\ Len(u) \in Nat
  OBVIOUS
<1>3. \A i \in 1 .. Len(s) : i \in 1 .. Len(t)
  BY <1>1, <1>2
<1> QED BY <1>1, <1>2, <1>3, PrefixElements

\* A sequence is a prefix of what continues it, and of itself.
LEMMA PrefixConcat ==
  ASSUME NEW R, NEW s \in Seq(R), NEW t \in Seq(R)
  PROVE  IsPrefix(s, s \o t) /\ IsPrefix(s, s)
<1> DEFINE both == s \o t
<1>1. both \in Seq(R) /\ Len(s) <= Len(both) /\ \A i \in 1 .. Len(s) : both[i] = s[i]
  OBVIOUS
<1> HIDE DEF both
<1>2. IsPrefix(s, both)
  BY <1>1, PrefixElements
<1>3. Len(s) <= Len(s)
  OBVIOUS
<1>4. IsPrefix(s, s)
  BY <1>3, PrefixElements
<1> QED BY <1>2, <1>4 DEF both

\* It stays one when the longer sequence grows.
LEMMA PrefixAppend ==
  ASSUME NEW R, NEW s \in Seq(R), NEW t \in Seq(R), NEW e \in R, IsPrefix(s, t)
  PROVE  IsPrefix(s, Append(t, e))
<1> DEFINE one == <<e>>
           both == t \o one
<1>1. one \in Seq(R)
  OBVIOUS
<1>2. Append(t, e) = both
  OBVIOUS
<1>3. both \in Seq(R)
  BY <1>1
<1>4. IsPrefix(t, both)
  <2> HIDE DEF one
  <2> QED BY <1>1, PrefixConcat
<1> HIDE DEF both
<1> QED BY <1>2, <1>3, <1>4, PrefixTransitive

\* The rest of a sequence behind a prefix of it.
LEMMA PrefixRest ==
  ASSUME NEW R, NEW s \in Seq(R), NEW t \in Seq(R), IsPrefix(s, t)
  PROVE  /\ SubSeq(t, 1, Len(s)) = s
         /\ SubSeq(t, Len(s) + 1, Len(t)) \in Seq(R)
         /\ s \o SubSeq(t, Len(s) + 1, Len(t)) = t
<1>1. Len(s) <= Len(t) /\ \A i \in 1 .. Len(s) : s[i] = t[i]
  BY PrefixElements
<1>2. SubSeq(s, 1, Len(s)) = s /\ Len(s) \in Nat /\ Len(t) \in Nat
  OBVIOUS
<1>3. SubSeq(t, 1, Len(s)) = s
  BY <1>2 DEF IsPrefix
<1> DEFINE rest == SubSeq(t, Len(s) + 1, Len(t))
<1>4. rest \in Seq(R) /\ Len(rest) = Len(t) - Len(s)
      /\ \A i \in 1 .. Len(t) - Len(s) : rest[i] = t[Len(s) + i]
  <2>1. \A i \in Len(s) + 1 .. Len(t) : t[i] \in R
    BY <1>2
  <2>2. Len(s) + 1 \in Int /\ Len(t) \in Int /\ Len(t) - (Len(s) + 1) + 1 = Len(t) - Len(s)
    BY <1>2
  <2>3. /\ rest \in Seq(R)
        /\ Len(rest) = IF Len(s) + 1 <= Len(t) THEN Len(t) - (Len(s) + 1) + 1 ELSE 0
        /\ \A i \in 1 .. Len(t) - (Len(s) + 1) + 1 : rest[i] = t[Len(s) + 1 + i - 1]
    BY <2>1, <2>2, SubSeqProperties
  <2>4. Len(rest) = Len(t) - Len(s)
    BY <1>1, <1>2, <2>3
  <2>5. \A i \in 1 .. Len(t) - Len(s) : Len(s) + 1 + i - 1 = Len(s) + i
    BY <1>2
  <2> HIDE DEF rest
  <2> QED BY <2>2, <2>3, <2>4, <2>5
<1> HIDE DEF rest
<1>5. /\ s \o rest \in Seq(R) /\ Len(s \o rest) = Len(t)
      /\ \A i \in 1 .. Len(t) : (s \o rest)[i] = t[i]
  <2>1. /\ s \o rest \in Seq(R) /\ Len(s \o rest) = Len(s) + Len(rest)
        /\ \A i \in 1 .. Len(s) + Len(rest) :
             (s \o rest)[i] = IF i <= Len(s) THEN s[i] ELSE rest[i - Len(s)]
    BY <1>4, ConcatProperties
  <2>2. Len(s) + Len(rest) = Len(t)
    BY <1>2, <1>4
  <2>3. ASSUME NEW i \in 1 .. Len(t), ~(i <= Len(s))
        PROVE  rest[i - Len(s)] = t[i]
    <3>1. i - Len(s) \in 1 .. Len(t) - Len(s) /\ Len(s) + (i - Len(s)) = i
      BY <1>2, <2>3
    <3> QED BY <1>4, <3>1
  <2>4. ASSUME NEW i \in 1 .. Len(t), i <= Len(s)
        PROVE  s[i] = t[i]
    BY <1>1, <2>4
  <2> QED BY <2>1, <2>2, <2>3, <2>4
<1>6. s \o rest = t
  <2> DEFINE both == s \o rest
  <2> HIDE DEF both
  <2>1. both = [i \in 1 .. Len(t) |-> both[i]] /\ t = [i \in 1 .. Len(t) |-> t[i]]
    BY <1>5, AsFunction DEF both
  <2> QED BY <1>5, <2>1 DEF both
<1> QED BY <1>3, <1>4, <1>6 DEF rest

\* A batch cut short, behind what it is appended to.
LEMMA PrefixCut ==
  ASSUME NEW R, NEW s \in Seq(R), NEW t \in Seq(R), NEW n \in 0 .. Len(t)
  PROVE  SubSeq(t, 1, n) \in Seq(R) /\ IsPrefix(s \o SubSeq(t, 1, n), s \o t)
<1> DEFINE cut == SubSeq(t, 1, n)
           some == s \o cut
           both == s \o t
<1>1. cut \in Seq(R) /\ Len(cut) = n /\ \A i \in 1 .. n : cut[i] = t[i]
  OBVIOUS
<1> HIDE DEF cut
<1>2. /\ some \in Seq(R) /\ Len(some) = Len(s) + n
      /\ \A i \in 1 .. Len(s) + n :
           some[i] = IF i <= Len(s) THEN s[i] ELSE cut[i - Len(s)]
  BY <1>1, ConcatProperties
<1>3. /\ both \in Seq(R) /\ Len(both) = Len(s) + Len(t)
      /\ \A i \in 1 .. Len(s) + Len(t) :
           both[i] = IF i <= Len(s) THEN s[i] ELSE t[i - Len(s)]
  BY ConcatProperties
<1> HIDE DEF some, both
<1>4. Len(s) \in Nat /\ Len(t) \in Nat /\ n \in Nat /\ n <= Len(t)
  OBVIOUS
<1>5. ASSUME NEW i \in 1 .. Len(s) + n
      PROVE  some[i] = both[i]
  <2>1. i \in 1 .. Len(s) + Len(t)
    BY <1>4
  <2>2. CASE i <= Len(s)
    BY <1>2, <1>3, <2>1, <2>2
  <2>3. CASE ~(i <= Len(s))
    <3>1. i - Len(s) \in 1 .. n
      BY <1>4, <2>3
    <3> QED BY <1>1, <1>2, <1>3, <2>1, <2>3, <3>1
  <2> QED BY <2>2, <2>3
<1>6. IsPrefix(some, both)
  BY <1>2, <1>3, <1>4, <1>5, PrefixElements
<1> QED BY <1>1, <1>6 DEF cut, some, both

-----------------------------------------------------------------------------
(* The inductive invariant.                                                *)

Sequences ==
  /\ stored \in Seq(Event) /\ recovered \in Seq(Event) /\ writing \in Seq(Event)
  /\ acked \in Seq(Event) /\ closers \in Seq(Event)
  /\ mode \in {"live", "down", "loaded", "repairing"} /\ torn \in BOOLEAN
  /\ crashes \in 0 .. MaxCrashes

\* The log in memory and the one a load would read are legal.
LogsLegal ==
  Legal(log) /\ Legal(stored \o recovered) /\ trace = TraceOf(log)

\* The file and the write in flight, by what the session is doing.
StoreKnown ==
  /\ IsPrefix(acked, stored)
  /\ recovered # <<>> => torn
  /\ mode \in {"live", "repairing"} => ~torn /\ IsPrefix(stored \o writing, log)
  /\ mode = "live" => acked = stored
  /\ mode \in {"down", "loaded"} => writing = <<>>
  /\ mode = "loaded" =>
       /\ log = stored \o recovered \o closers
       /\ closers = interruptedTurnClosers(stored \o recovered)
  /\ log = <<>> \/ IsPrefix(stored, log)

\* No synthetic result is in the open step of a live log.
LiveStep ==
  mode = "live" /\ trace.openStep # 0 =>
    \A i \in DOMAIN log : ~(IsNotStarted(log[i]) /\ Within(log[i], trace))

\* A body ran only for a call whose write was acknowledged.
RanKnown ==
  \A event \in ran :
    event.type = "tool/call" /\ \E i \in DOMAIN acked : acked[i] = event

IInv == Sequences /\ LogsLegal /\ StoreKnown /\ LiveStep /\ RanKnown

-----------------------------------------------------------------------------
(* What the loop appends fits.                                             *)

\* What the legal log says of the live trace.
LEMMA OpenTrace ==
  ASSUME LogsLegal
  PROVE  /\ log \in Seq(Event) /\ KnownAt(log, trace, Scan(log))
         /\ trace \in Log!Trace
         /\ trace.openTurn \in Nat /\ trace.openStep \in Nat
         /\ trace.nextTurn \in Nat /\ trace.nextStep \in Nat
         /\ trace.openTurn = 0 \/ trace.openTurn = trace.nextTurn
         /\ trace.openTurn = 0 => trace.openStep = 0
         /\ StepKnown(log, trace, Scan(log))
         /\ trace.openStep # 0 => trace.openTurn # 0
<1>1. log \in Seq(Event) /\ KnownAt(log, trace, Scan(log))
  BY LegalKnown DEF LogsLegal, Legal, Known
<1> DEFINE open == Scan(log)
<1> HIDE DEF open
<1>2. KnownAt(log, trace, open)
  BY <1>1 DEF open
<1>3. /\ trace \in Log!Trace
      /\ trace.openTurn \in Nat /\ trace.openStep \in Nat
      /\ trace.nextTurn \in Nat /\ trace.nextStep \in Nat
      /\ trace.openTurn = 0 \/ trace.openTurn = trace.nextTurn
      /\ trace.openTurn = 0 => trace.openStep = 0
      /\ StepKnown(log, trace, open)
  BY <1>2 DEF KnownAt, Places, Log!Trace
<1> QED BY <1>1, <1>3 DEF open

\* The calls asked are those of the open step's one message.
LEMMA OpenAsked ==
  ASSUME LogsLegal, trace.openStep # 0, DOMAIN Asked # {}
  PROVE  \E m \in DOMAIN log :
           /\ Asked = log[m].calls
           /\ \E k, c \in 0 .. Len(log[m].calls) :
                AtMessage(log, trace, Scan(log), m, k, c)
<1> DEFINE messages == {i \in DOMAIN log :
                          /\ log[i].type = "assistant/message"
                          /\ log[i].turn = trace.openTurn
                          /\ log[i].step = trace.openStep}
           open == Scan(log)
<1>1. log \in Seq(Event) /\ DOMAIN log = 1 .. Len(log) /\ Len(log) \in Nat
      /\ StepKnown(log, trace, open)
  BY OpenTrace
<1>2. messages # {}
  <2> SUFFICES ASSUME messages = {} PROVE FALSE
    OBVIOUS
  <2>1. Asked = <<>>
    BY DEF Asked
  <2> QED BY <2>1
<1>3. Asked = log[CHOOSE i \in messages : TRUE].calls
  BY <1>2 DEF Asked
<1>4. \A i \in messages : i \in DOMAIN log /\ Within(log[i], trace)
                          /\ log[i].type = "assistant/message"
  BY DEF Within
<1> HIDE DEF messages, open
<1>5. Answering(log, trace, open)
  <2>1. ~NoMessage(log, trace, open)
    <3> SUFFICES ASSUME NoMessage(log, trace, open) PROVE FALSE
      OBVIOUS
    <3>1. PICK i \in messages : TRUE
      BY <1>2
    <3>2. i = Len(log)
      BY <1>4, <3>1 DEF NoMessage
    <3> QED BY <1>4, <3>1, <3>2 DEF NoMessage
  <2> QED BY <1>1, <2>1 DEF StepKnown
<1>6. PICK m \in DOMAIN log :
        \E k, c \in 0 .. Len(log[m].calls) : AtMessage(log, trace, open, m, k, c)
  BY <1>1, <1>5, OpenMessage
<1>7. MessageAt(log, trace, m)
  BY <1>6 DEF AtMessage
<1>8. \A i \in messages : i = m
  <2> TAKE i \in messages
  <2>1. i \in 1 .. m - 1 \/ i = m \/ i \in m + 1 .. Len(log)
    BY <1>1, <1>4
  <2>2. i \notin 1 .. m - 1 /\ i \notin m + 1 .. Len(log)
    BY <1>4, <1>7 DEF MessageAt
  <2> QED BY <2>1, <2>2
<1>9. (CHOOSE i \in messages : TRUE) = m
  BY <1>2, <1>8
<1> QED BY <1>3, <1>6, <1>9 DEF open

\* A turn starts where the trace is, and it fits.
LEMMA TurnStartFits ==
  ASSUME IInv, TurnStart
  PROVE  \E event \in Event :
           Fits(log, event) /\ event.type = "turn/start" /\ Write(event)
<1> DEFINE event == TurnEvent("turn/start", trace.nextTurn)
<1>1. trace.nextTurn \in Nat /\ trace = TraceOf(log) /\ trace.openTurn = 0 /\ Write(event)
  BY OpenTrace DEF IInv, LogsLegal, TurnStart, InTurn, Log!None
<1>2. event \in Event /\ event.type = "turn/start" /\ event.turn = trace.nextTurn
  BY <1>1 DEF TurnEvent, Event, TurnEvents
<1> HIDE DEF event
<1>3. Accepts(trace, event)
  BY <1>1, <1>2 DEF Accepts, Log!CanOpenTurn, Log!None
<1>4. Fits(log, event)
  BY <1>1, <1>2, <1>3, BoundaryFits
<1> QED BY <1>1, <1>2, <1>4

\* So does a step,
LEMMA StepStartFits ==
  ASSUME IInv, StepStart
  PROVE  \E event \in Event :
           Fits(log, event) /\ event.type = "step/start" /\ Write(event)
<1> DEFINE event == StepEvent("step/start", trace.openTurn, trace.nextStep)
<1>1. /\ trace.nextStep \in Nat /\ trace.openTurn \in Nat /\ trace = TraceOf(log)
      /\ trace.openTurn # 0 /\ trace.openStep = 0 /\ Write(event)
  BY OpenTrace DEF IInv, LogsLegal, StepStart, InTurn, InStep, Log!None
<1>2. /\ event \in Event /\ event.type = "step/start" /\ event.turn = trace.openTurn
      /\ event.step = trace.nextStep
  BY <1>1 DEF StepEvent, Event, StepEvents
<1> HIDE DEF event
<1>3. Accepts(trace, event)
  BY <1>1, <1>2 DEF Accepts, Log!CanOpenStep, Log!None
<1>4. Fits(log, event)
  BY <1>1, <1>2, <1>3, BoundaryFits
<1> QED BY <1>1, <1>2, <1>4

\* the end of either,
LEMMA EndFits ==
  ASSUME IInv, StepEnd \/ TurnEnd
  PROVE  \E event \in Event :
           /\ Fits(log, event) /\ event.type \in {"step/end", "turn/end"}
           /\ Write(event)
<1>1. /\ trace.openTurn \in Nat /\ trace.openStep \in Nat /\ trace = TraceOf(log)
      /\ Legal(log) /\ (trace.openStep # 0 => trace.openTurn # 0)
  BY OpenTrace DEF IInv, LogsLegal
<1>2. CASE StepEnd
  <2> DEFINE event == StepEvent("step/end", trace.openTurn, trace.openStep)
  <2>1. trace.openStep # 0 /\ Write(event)
    BY <1>2 DEF StepEnd, InStep, Log!None
  <2>2. /\ event \in Event /\ event.type = "step/end" /\ event.turn = trace.openTurn
        /\ event.step = trace.openStep
    BY <1>1 DEF StepEvent, Event, StepEvents
  <2> HIDE DEF event
  <2>3. Accepts(trace, event)
    BY <1>1, <2>1, <2>2 DEF Accepts, Log!InOpenStep, Log!None
  <2>4. Fits(log, event)
    BY <1>1, <2>2, <2>3, BoundaryFits
  <2> QED BY <2>1, <2>2, <2>4
<1>3. CASE TurnEnd
  <2> DEFINE event == TurnEvent("turn/end", trace.openTurn)
  <2>1. trace.openTurn # 0 /\ trace.openStep = 0 /\ Write(event)
    BY <1>3 DEF TurnEnd, InTurn, InStep, Log!None
  <2>2. event \in Event /\ event.type = "turn/end" /\ event.turn = trace.openTurn
    BY <1>1 DEF TurnEvent, Event, TurnEvents
  <2> HIDE DEF event
  <2>3. Accepts(trace, event)
    BY <1>1, <2>1, <2>2 DEF Accepts, Log!CanCloseTurn, Log!None
  <2>4. Fits(log, event)
    BY <1>1, <2>2, <2>3, BoundaryFits
  <2> QED BY <2>1, <2>2, <2>4
<1> QED BY <1>2, <1>3

\* and a message, directly behind the start of its step.
LEMMA MessageFits ==
  ASSUME IInv, AssistantMessage
  PROVE  \E event \in Event :
           Fits(log, event) /\ event.type = "assistant/message" /\ Write(event)
<1>1. /\ trace.openTurn \in Nat /\ trace.openStep \in Nat /\ trace = TraceOf(log)
      /\ trace.openStep # 0 /\ trace.openTurn # 0 /\ log \in Seq(Event)
      /\ log[Len(log)].type = "step/start"
  BY OpenTrace DEF IInv, LogsLegal, AssistantMessage, InStep, Log!None
<1>2. PICK asked \in SUBSET Call : \E calls \in SetToSeqs(asked) :
        IsFiniteSet(asked) /\ Write(Message(trace.openTurn, trace.openStep, calls))
  BY DEF AssistantMessage
<1>3. PICK calls \in SetToSeqs(asked) :
        IsFiniteSet(asked) /\ Write(Message(trace.openTurn, trace.openStep, calls))
  BY <1>2
<1>4. calls \in Seq(Call) /\ IsInjective(calls)
  <2>1. Cardinality(asked) \in Nat
    BY <1>3, FS_CardinalityType
  <2>2. calls \in [1 .. Cardinality(asked) -> asked]
        /\ \A i, j \in 1 .. Cardinality(asked) : i # j => calls[i] # calls[j]
    BY <1>3 DEF SetToSeqs
  <2>3. calls \in [1 .. Cardinality(asked) -> Call]
    BY <2>2
  <2>4. \A n \in Nat : \A f \in [1 .. n -> Call] : f \in Seq(Call)
    OBVIOUS
  <2> QED BY <2>1, <2>2, <2>3, <2>4 DEF IsInjective
<1> DEFINE event == Message(trace.openTurn, trace.openStep, calls)
<1>5. /\ event \in Event /\ event.type = "assistant/message"
      /\ event.turn = trace.openTurn /\ event.step = trace.openStep
      /\ event.calls = calls
  BY <1>1, <1>4 DEF Message, Event, Messages
<1> HIDE DEF event
<1>6. Len(log) > 0
  <2> SUFFICES ASSUME ~(Len(log) > 0) PROVE FALSE
    OBVIOUS
  <2>1. log = <<>>
    BY <1>1
  <2>2. TraceOf(log) = Log!FreshTrace
    BY <2>1, TraceOfEmpty
  <2> QED BY <1>1, <2>2 DEF Log!FreshTrace, Log!None
<1>7. Accepts(trace, event)
  BY <1>1, <1>5 DEF Accepts, Log!InOpenStep, Log!None
<1>8. FitsMessage(log, event)
  BY <1>1, <1>4, <1>5, <1>6 DEF FitsMessage
<1>9. Fits(log, event)
  BY <1>1, <1>5, <1>7, <1>8 DEF Fits, FitsAt
<1> QED BY <1>3, <1>5, <1>9 DEF event

\* The next call to start is the first one waiting to.
LEMMA CallFits ==
  ASSUME IInv, ToolCall
  PROVE  \E event \in Event :
           Fits(log, event) /\ event.type = "tool/call" /\ Write(event)
<1> DEFINE open == Scan(log)
<1>1. /\ trace.openTurn \in Nat /\ trace.openStep \in Nat /\ trace = TraceOf(log)
      /\ trace.openStep # 0 /\ trace.openTurn # 0 /\ log \in Seq(Event) /\ LogsLegal
  BY OpenTrace DEF IInv, LogsLegal, ToolCall, InStep, Log!None
<1>2. PICK i \in DOMAIN Asked :
        /\ Events("tool/call", Asked[i]) = {}
        /\ \A j \in 1 .. i - 1 : Events("tool/call", Asked[j]) # {}
        /\ Write(CallEvent(trace.openTurn, trace.openStep, Asked[i]))
  BY DEF ToolCall
<1>3. mode = "live"
  BY <1>2 DEF Write
<1> HIDE DEF open
<1>4. PICK m \in DOMAIN log :
        /\ Asked = log[m].calls
        /\ \E k, c \in 0 .. Len(log[m].calls) : AtMessage(log, trace, open, m, k, c)
  BY <1>1, <1>2, OpenAsked DEF open
<1> DEFINE calls == log[m].calls
<1>5. PICK k \in 0 .. Len(calls), c \in 0 .. Len(calls) :
        AtMessage(log, trace, open, m, k, c)
  BY <1>4
<1>6. /\ calls \in Seq(Call) /\ IsInjective(calls) /\ Asked = calls
      /\ StartedCalls(log, trace, calls, c)
      /\ k > c => \E p \in DOMAIN log : IsNotStarted(log[p]) /\ Within(log[p], trace)
      /\ open.pending \in Seq(Entry) /\ Len(open.pending) = Len(calls) - k
      /\ \A p \in 1 .. Len(calls) - k :
           /\ k + p \in 1 .. Len(calls)
           /\ open.pending[p].call = calls[k + p]
           /\ open.pending[p].started = (k + p <= c)
  BY <1>4, <1>5 DEF AtMessage
<1> HIDE DEF calls
<1>7. Len(calls) \in Nat /\ DOMAIN calls = 1 .. Len(calls) /\ i \in 1 .. Len(calls)
  BY <1>2, <1>6
<1>8. \A p \in DOMAIN log : ~(IsNotStarted(log[p]) /\ Within(log[p], trace))
  BY <1>1, <1>3 DEF IInv, LiveStep
<1>9. k <= c
  <2>1. ~(k > c)
    BY <1>6, <1>8, Zenon
  <2> QED BY <1>7, <2>1
<1>10. \A p \in Events("tool/call", calls[i]) : FALSE
  BY <1>2, <1>6
<1>11. ~(i <= c)
  <2> SUFFICES ASSUME i <= c PROVE FALSE
    OBVIOUS
  <2>1. i \in 1 .. c
    BY <1>7
  <2>2. PICK p \in DOMAIN log :
          /\ log[p].type = "tool/call" /\ Within(log[p], trace)
          /\ log[p].call = calls[i]
    BY <1>6, <2>1 DEF StartedCalls
  <2>3. p \in Events("tool/call", calls[i])
    BY <2>2 DEF Events, Within
  <2> QED BY <1>10, <2>3
<1>12. \A j \in 1 .. i - 1 : j <= c
  <2> TAKE j \in 1 .. i - 1
  <2>1. PICK p \in Events("tool/call", calls[j]) : TRUE
    BY <1>2, <1>6
  <2>2. /\ p \in DOMAIN log /\ log[p].type = "tool/call" /\ Within(log[p], trace)
        /\ log[p].call = calls[j]
    BY <2>1 DEF Events, Within
  <2>3. PICK q \in 1 .. c : log[p].call = calls[q]
    BY <1>6, <2>2 DEF StartedCalls
  <2>4. j \in 1 .. Len(calls) /\ q \in 1 .. Len(calls)
    BY <1>7
  <2>5. j = q
    BY <1>6, <1>7, <2>2, <2>3, <2>4 DEF IsInjective
  <2> QED BY <2>5
<1>13. i = c + 1
  <2>1. CASE i = 1
    BY <1>7, <1>11, <2>1
  <2>2. CASE i # 1
    <3>1. i - 1 \in 1 .. i - 1
      BY <1>7, <2>2
    <3>2. i - 1 <= c
      BY <1>12, <3>1
    <3> QED BY <1>7, <1>11, <3>2
  <2> QED BY <2>1, <2>2
<1> DEFINE event == CallEvent(trace.openTurn, trace.openStep, Asked[i])
<1>14. calls[i] \in Call
  BY <1>6, <1>7
<1>15. /\ event \in Event /\ event.type = "tool/call"
       /\ event.turn = trace.openTurn /\ event.step = trace.openStep
       /\ event.call = calls[i]
  BY <1>1, <1>6, <1>14 DEF CallEvent, Event, CallEvents
<1> HIDE DEF event
<1>16. Accepts(trace, event)
  BY <1>1, <1>15 DEF Accepts, Log!InOpenStep, Log!None
<1>17. FitsCall(log, trace, open, event)
  <2> DEFINE at == i - k
  <2>1. at \in 1 .. Len(calls) - k /\ k + at = i
    BY <1>7, <1>9, <1>13
  <2> HIDE DEF at
  <2>2. DOMAIN open.pending = 1 .. Len(calls) - k
    BY <1>6
  <2>3. open.pending[at].call = event.call
    BY <1>6, <1>15, <2>1
  <2>4. ~open.pending[at].started
    <3>1. open.pending[at].started = (i <= c)
      BY <1>6, <2>1
    <3> QED BY <1>11, <3>1, Zenon
  <2>5. \A j \in 1 .. at - 1 : open.pending[j].started
    <3> TAKE j \in 1 .. at - 1
    <3>1. j \in 1 .. Len(calls) - k /\ k + j <= c
      BY <1>7, <1>13, <2>1
    <3>2. open.pending[j].started = (k + j <= c)
      BY <1>6, <3>1
    <3> QED BY <3>1, <3>2, Zenon
  <2> QED BY <1>8, <2>1, <2>2, <2>3, <2>4, <2>5 DEF FitsCall
<1>18. Fits(log, event)
  <2>1. FitsAt(log, trace, open, event)
    BY <1>15, <1>16, <1>17 DEF FitsAt
  <2> QED BY <1>1, <2>1 DEF Fits, open
<1> QED BY <1>2, <1>15, <1>18 DEF event

\* The next result to be logged is the first one due.
LEMMA ResultFits ==
  ASSUME IInv, ToolResult
  PROVE  \E event \in Event :
           /\ Fits(log, event) /\ event.type = "tool/result" /\ event.code = "none"
           /\ Write(event)
<1> DEFINE open == Scan(log)
<1>1. /\ trace.openTurn \in Nat /\ trace.openStep \in Nat /\ trace = TraceOf(log)
      /\ trace.openStep # 0 /\ trace.openTurn # 0 /\ log \in Seq(Event) /\ LogsLegal
  BY OpenTrace DEF IInv, LogsLegal, ToolResult, InStep, Log!None
<1>2. PICK i \in DOMAIN Asked :
        /\ Asked[i] \in trace.pendingCalls
        /\ \A j \in 1 .. i - 1 : Asked[j] \notin trace.pendingCalls
        /\ Write(ResultEvent(trace.openTurn, trace.openStep, Asked[i], "none"))
  BY DEF ToolResult
<1> HIDE DEF open
<1>4. PICK m \in DOMAIN log :
        /\ Asked = log[m].calls
        /\ \E k, c \in 0 .. Len(log[m].calls) : AtMessage(log, trace, open, m, k, c)
  BY <1>1, <1>2, OpenAsked DEF open
<1> DEFINE calls == log[m].calls
<1>5. PICK k \in 0 .. Len(calls), c \in 0 .. Len(calls) :
        AtMessage(log, trace, open, m, k, c)
  BY <1>4
<1>6. /\ calls \in Seq(Call) /\ IsInjective(calls) /\ Asked = calls
      /\ Waiting(trace, open, calls, k, c)
      /\ open.pending \in Seq(Entry) /\ Len(open.pending) = Len(calls) - k
      /\ \A p \in 1 .. Len(calls) - k :
           /\ k + p \in 1 .. Len(calls)
           /\ open.pending[p].call = calls[k + p]
           /\ open.pending[p].started = (k + p <= c)
  BY <1>4, <1>5 DEF AtMessage
<1> HIDE DEF calls
<1>7. Len(calls) \in Nat /\ DOMAIN calls = 1 .. Len(calls) /\ i \in 1 .. Len(calls)
  BY <1>2, <1>6
<1>8. trace.pendingCalls = {calls[p] : p \in k + 1 .. c}
  BY <1>6 DEF Waiting
<1>9. i \in k + 1 .. c
  <2>1. PICK p \in k + 1 .. c : calls[i] = calls[p]
    BY <1>2, <1>6, <1>8
  <2>2. p \in 1 .. Len(calls)
    BY <1>7
  <2>3. i = p
    BY <1>6, <1>7, <2>1, <2>2 DEF IsInjective
  <2> QED BY <2>3
<1>10. i = k + 1
  <2> SUFFICES ASSUME i # k + 1 PROVE FALSE
    OBVIOUS
  <2>1. k + 1 \in 1 .. i - 1 /\ k + 1 \in k + 1 .. c
    BY <1>7, <1>9
  <2>2. calls[k + 1] \notin trace.pendingCalls
    BY <1>2, <1>6, <2>1
  <2> QED BY <1>8, <2>1, <2>2
<1> DEFINE event == ResultEvent(trace.openTurn, trace.openStep, Asked[i], "none")
<1>11. calls[i] \in Call
  <2>1. calls \in Seq(Call)
    BY <1>6
  <2> QED BY <1>7, <2>1
<1>12. /\ event \in Event /\ event.type = "tool/result"
       /\ event.turn = trace.openTurn /\ event.step = trace.openStep
       /\ event.call = calls[i] /\ event.code = "none"
  BY <1>1, <1>6, <1>11 DEF ResultEvent, Event, ResultEvents, Code
<1> HIDE DEF event
<1>13. Accepts(trace, event)
  <2>1. event.call \in trace.pendingCalls
    BY <1>2, <1>6, <1>12
  <2> QED BY <1>1, <1>12, <2>1 DEF Accepts, Log!CanResult, Log!InOpenStep, Log!None
<1>14. FitsResult(open, event)
  <2>1. 1 \in 1 .. Len(calls) - k /\ Len(open.pending) > 0 /\ k + 1 <= c
    <3>1. k \in Nat /\ c \in Nat /\ c <= Len(calls)
      BY <1>7
    <3>2. Len(open.pending) = Len(calls) - k
      BY <1>6
    <3>3. k + 1 <= c
      BY <1>9, <1>10, <3>1
    <3>4. Len(calls) - k >= 1
      BY <1>7, <3>1, <3>3
    <3>5. 1 \in 1 .. Len(calls) - k
      BY <1>7, <3>1, <3>4
    <3> QED BY <3>2, <3>3, <3>4, <3>5
  <2>2. open.pending[1].call = event.call
    BY <1>6, <1>10, <1>12, <2>1
  <2>3. open.pending[1].started
    <3>1. open.pending[1].started = (k + 1 <= c)
      BY <1>6, <2>1
    <3> QED BY <2>1, <3>1, Zenon
  <2> QED BY <1>12, <2>1, <2>2, <2>3 DEF FitsResult
<1>15. Fits(log, event)
  <2>1. FitsAt(log, trace, open, event)
    BY <1>12, <1>13, <1>14 DEF FitsAt
  <2> QED BY <1>1, <2>1 DEF Fits, open
<1> QED BY <1>2, <1>12, <1>15 DEF event

-----------------------------------------------------------------------------
(* Every step preserves the invariant.                                     *)

\* The loop appends an event that fits.
LEMMA WriteStep ==
  ASSUME IInv, NEW event \in Event, Fits(log, event), Write(event),
         event.type = "tool/result" => event.code = "none"
  PROVE  IInv'
<1>1. /\ mode = "live" /\ log' = Append(log, event) /\ trace' = Applied(trace, event)
      /\ UNCHANGED <<mode, stored, torn, recovered, writing, closers, acked, ran, crashes>>
  BY DEF Write, store
<1>2. /\ Legal(log) /\ log \in Seq(Event) /\ trace = TraceOf(log)
      /\ Legal(stored \o recovered) /\ trace \in Log!Trace
  BY OpenTrace DEF IInv, LogsLegal
<1>3. Sequences'
  BY <1>1 DEF IInv, Sequences
<1>4. LogsLegal'
  <2>1. Legal(Append(log, event)) /\ Applied(trace, event) = TraceOf(Append(log, event))
    BY <1>2, LegalAppend, TraceOfAppend
  <2> QED BY <1>1, <1>2, <2>1 DEF LogsLegal
<1>5. StoreKnown'
  <2>1. /\ stored \o writing \in Seq(Event) /\ IsPrefix(stored \o writing, log)
        /\ stored \in Seq(Event) /\ writing \in Seq(Event)
    BY <1>1 DEF IInv, Sequences, StoreKnown
  <2>2. IsPrefix(stored \o writing, log')
    BY <1>1, <1>2, <2>1, PrefixAppend
  <2>3. IsPrefix(stored, log')
    <3>1. IsPrefix(stored, stored \o writing)
      BY <2>1, PrefixConcat
    <3>2. log' \in Seq(Event)
      BY <1>1, <1>2
    <3> QED BY <2>1, <2>2, <3>1, <3>2, PrefixTransitive
  <2> QED BY <1>1, <2>2, <2>3 DEF IInv, StoreKnown
<1>6. LiveStep'
  <2>1. /\ Len(log) \in Nat /\ DOMAIN log' = 1 .. Len(log) + 1
        /\ Len(log') = Len(log) + 1 /\ log'[Len(log) + 1] = event
        /\ DOMAIN log = 1 .. Len(log) /\ \A i \in DOMAIN log : log'[i] = log[i]
    BY <1>1, <1>2, Longer
  <2>2. Places(trace, Scan(log)) /\ Accepts(trace, event)
    BY <1>2, OpenTrace DEF IInv, KnownAt, Fits, FitsAt
  <2>3. CASE event.type \in {"turn/start", "turn/end", "step/end"}
    <3>1. trace'.openStep = 0
      BY <1>1, <1>2, <2>2, <2>3, TraceEffects, AcceptedPlaces
    <3> QED BY <3>1 DEF LiveStep
  <2>4. CASE event.type = "step/start"
    <3> DEFINE open2 == Scan(log')
    <3>1. StepKnown(log', trace', open2)
      BY <1>4, LegalKnown DEF LogsLegal, Known, KnownAt
    <3> HIDE DEF open2
    <3>2. ~Answering(log', trace', open2)
      <4> SUFFICES ASSUME NEW m \in DOMAIN log', MessageAt(log', trace', m)
                   PROVE  FALSE
        BY DEF Answering
      <4>1. m = Len(log') \/ Len(log') \in m + 1 .. Len(log')
        BY <2>1
      <4> QED BY <2>1, <2>4, <4>1 DEF MessageAt
    <3>3. ASSUME trace'.openStep # 0, NEW i \in DOMAIN log',
                 IsNotStarted(log'[i]), Within(log'[i], trace')
          PROVE  FALSE
      <4>1. NoMessage(log', trace', open2)
        BY <3>1, <3>2, <3>3 DEF StepKnown
      <4>2. log'[i].type = "step/start"
        BY <3>3, <4>1 DEF NoMessage
      <4> QED BY <3>3, <4>2 DEF IsNotStarted
    <3> QED BY <3>3 DEF LiveStep
  <2>5. CASE event.type \in {"assistant/message", "tool/call", "tool/result"}
    <3>1. trace'.openTurn = trace.openTurn /\ trace'.openStep = trace.openStep
      BY <1>1, <1>2, <2>5, TraceEffects
    <3>2. ~IsNotStarted(event)
      BY DEF IsNotStarted
    <3>3. ASSUME trace'.openStep # 0, NEW i \in DOMAIN log',
                 IsNotStarted(log'[i]), Within(log'[i], trace')
          PROVE  FALSE
      <4>1. i \in DOMAIN log /\ log'[i] = log[i]
        BY <2>1, <3>2, <3>3
      <4>2. Within(log[i], trace)
        BY <3>1, <3>3, <4>1 DEF Within
      <4> QED BY <1>1, <3>1, <3>3, <4>1, <4>2 DEF IInv, LiveStep
    <3> QED BY <3>3 DEF LiveStep
  <2> QED BY <2>3, <2>4, <2>5, EventTypes
<1>7. RanKnown'
  BY <1>1 DEF IInv, RanKnown
<1> QED BY <1>3, <1>4, <1>5, <1>6, <1>7 DEF IInv

\* Whatever the loop appends keeps the invariant.
LEMMA LoopStep ==
  ASSUME IInv,
         TurnStart \/ StepStart \/ AssistantMessage \/ ToolCall \/ ToolResult
           \/ StepEnd \/ TurnEnd
  PROVE  IInv'
<1>1. CASE TurnStart
  BY <1>1, TurnStartFits, WriteStep
<1>2. CASE StepStart
  BY <1>2, StepStartFits, WriteStep
<1>3. CASE AssistantMessage
  BY <1>3, MessageFits, WriteStep
<1>4. CASE ToolCall
  BY <1>4, CallFits, WriteStep
<1>5. CASE ToolResult
  BY <1>5, ResultFits, WriteStep
<1>6. CASE StepEnd \/ TurnEnd
  BY <1>6, EndFits, WriteStep
<1> QED BY <1>1, <1>2, <1>3, <1>4, <1>5, <1>6

\* A body starts behind the flush that acknowledged its call.
LEMMA RunBodyStep ==
  ASSUME IInv, RunBody
  PROVE  IInv'
<1>1. PICK call \in trace.pendingCalls : \E i \in Events("tool/call", call) :
        i <= Len(acked) /\ ran' = ran \union {log[i]}
  BY DEF RunBody
<1>2. PICK i \in Events("tool/call", call) :
        i <= Len(acked) /\ ran' = ran \union {log[i]}
  BY <1>1
<1>3. /\ mode = "live"
      /\ UNCHANGED <<mode, log, trace, stored, torn, recovered, writing, closers, acked,
                     crashes>>
  BY DEF RunBody, store
<1>4. i \in DOMAIN log /\ log[i].type = "tool/call"
  BY DEF Events
<1>5. i \in DOMAIN acked /\ acked[i] = log[i]
  <2>1. /\ acked = stored /\ stored \in Seq(Event) /\ writing \in Seq(Event)
        /\ IsPrefix(stored \o writing, log) /\ log \in Seq(Event)
    BY <1>3, OpenTrace DEF IInv, Sequences, StoreKnown
  <2>2. IsPrefix(stored, log)
    <3>1. stored \o writing \in Seq(Event) /\ IsPrefix(stored, stored \o writing)
      BY <2>1, PrefixConcat
    <3> QED BY <2>1, <3>1, PrefixTransitive
  <2>3. \A p \in 1 .. Len(stored) : stored[p] = log[p]
    BY <2>1, <2>2, PrefixElements
  <2>4. i \in 1 .. Len(stored)
    BY <1>2, <1>4, <2>1
  <2> QED BY <2>1, <2>3, <2>4
<1>6. RanKnown'
  BY <1>2, <1>3, <1>4, <1>5 DEF IInv, RanKnown
<1>7. Sequences' /\ LogsLegal' /\ StoreKnown' /\ LiveStep'
  BY <1>3 DEF IInv, Sequences, LogsLegal, StoreKnown, LiveStep
<1> QED BY <1>6, <1>7 DEF IInv

\* A write takes what is not stored, which stays a part of the log.
LEMMA StartWriteStep ==
  ASSUME IInv, StartWrite
  PROVE  IInv'
<1>1. /\ mode = "live" /\ writing = <<>>
      /\ writing' = SubSeq(log, Len(acked) + 1, Len(log))
      /\ UNCHANGED <<mode, log, trace, stored, torn, recovered, closers, acked, ran, crashes>>
  BY DEF StartWrite
<1>2. /\ acked = stored /\ stored \in Seq(Event) /\ log \in Seq(Event)
      /\ IsPrefix(stored \o writing, log) /\ ~torn
  BY <1>1, OpenTrace DEF IInv, Sequences, StoreKnown
<1>3. IsPrefix(stored, log)
  <2>1. stored \o <<>> = stored
    BY <1>2
  <2> QED BY <1>1, <1>2, <2>1
<1>4. writing' \in Seq(Event) /\ stored \o writing' = log
  BY <1>1, <1>2, <1>3, PrefixRest
<1>5. IsPrefix(stored \o writing', log)
  BY <1>2, <1>4, PrefixConcat
<1>6. StoreKnown' /\ Sequences'
  BY <1>1, <1>4, <1>5 DEF IInv, Sequences, StoreKnown
<1>7. LogsLegal' /\ LiveStep' /\ RanKnown'
  BY <1>1 DEF IInv, LogsLegal, LiveStep, RanKnown
<1> QED BY <1>6, <1>7 DEF IInv

\* A sequence of events that is a prefix of a legal log is legal.
LEMMA LegalUpTo ==
  ASSUME NEW t, Legal(t), NEW s \in Seq(Event), IsPrefix(s, t)
  PROVE  Legal(s)
<1>1. t \in Seq(Event)
  BY DEF Legal
<1>2. SubSeq(t, 1, Len(s)) = s
  BY <1>1, PrefixRest
<1>3. Len(s) \in 0 .. Len(t)
  <2>1. Len(s) <= Len(t)
    BY <1>1, PrefixElements
  <2>2. Len(s) \in Nat /\ Len(t) \in Nat
    BY <1>1
  <2> QED BY <2>1, <2>2
<1> QED BY <1>2, <1>3, LegalPrefix

\* While a batch is being written the file has no torn frame.
LEMMA WritingKnown ==
  ASSUME IInv, writing # <<>>
  PROVE  /\ mode \in {"live", "repairing"} /\ ~torn /\ recovered = <<>>
         /\ stored \in Seq(Event) /\ writing \in Seq(Event) /\ acked \in Seq(Event)
         /\ log \in Seq(Event) /\ stored \o writing \in Seq(Event)
         /\ IsPrefix(stored \o writing, log) /\ Legal(stored \o writing)
         /\ IsPrefix(acked, stored) /\ IsPrefix(stored, stored \o writing)
         /\ IsPrefix(acked, stored \o writing)
<1>1. /\ mode \in {"live", "repairing"} /\ ~torn /\ recovered = <<>>
      /\ IsPrefix(stored \o writing, log) /\ IsPrefix(acked, stored)
  BY DEF IInv, Sequences, StoreKnown
<1>2. /\ stored \in Seq(Event) /\ writing \in Seq(Event) /\ acked \in Seq(Event)
      /\ log \in Seq(Event) /\ Legal(log)
  BY OpenTrace DEF IInv, Sequences, LogsLegal
<1>3. stored \o writing \in Seq(Event) /\ IsPrefix(stored, stored \o writing)
  BY <1>2, PrefixConcat
<1>4. Legal(stored \o writing)
  BY <1>1, <1>2, <1>3, LegalUpTo
<1>5. IsPrefix(acked, stored \o writing)
  BY <1>1, <1>2, <1>3, PrefixTransitive
<1> QED BY <1>1, <1>2, <1>3, <1>4, <1>5

\* What is acknowledged stays where it is when more is.
LEMMA RanKept ==
  ASSUME RanKnown, ran' = ran, acked \in Seq(Event), acked' \in Seq(Event),
         IsPrefix(acked, acked')
  PROVE  RanKnown'
<1>1. /\ Len(acked) <= Len(acked') /\ \A i \in 1 .. Len(acked) : acked[i] = acked'[i]
      /\ Len(acked) \in Nat /\ Len(acked') \in Nat
  BY PrefixElements
<1> SUFFICES ASSUME NEW event \in ran
             PROVE  event.type = "tool/call" /\ \E i \in DOMAIN acked' : acked'[i] = event
  BY DEF RanKnown
<1>2. PICK i \in DOMAIN acked : event.type = "tool/call" /\ acked[i] = event
  BY DEF RanKnown
<1>3. i \in DOMAIN acked' /\ acked'[i] = event
  BY <1>1, <1>2
<1> QED BY <1>2, <1>3

\* A finished write stores a longer prefix of the log.
LEMMA WriteDoneStep ==
  ASSUME IInv, WriteDone
  PROVE  IInv'
<1>1. /\ writing # <<>> /\ stored' = stored \o writing /\ writing' = <<>>
      /\ acked' = IF mode = "live" THEN acked \o writing ELSE acked
      /\ mode' = IF mode = "repairing" THEN "down" ELSE mode
      /\ UNCHANGED <<log, trace, torn, recovered, closers, ran, crashes>>
  BY DEF WriteDone
<1>2. /\ mode \in {"live", "repairing"} /\ ~torn /\ recovered = <<>>
      /\ stored \in Seq(Event) /\ writing \in Seq(Event) /\ acked \in Seq(Event)
      /\ log \in Seq(Event) /\ stored \o writing \in Seq(Event)
      /\ IsPrefix(stored \o writing, log) /\ Legal(stored \o writing)
      /\ IsPrefix(acked, stored) /\ IsPrefix(stored, stored \o writing)
      /\ IsPrefix(acked, stored \o writing)
  BY <1>1, WritingKnown
<1>3. stored' \o <<>> = stored' /\ stored' \in Seq(Event)
  BY <1>1, <1>2
<1>4. CASE mode = "live"
  <2>1. acked = stored
    BY <1>4 DEF IInv, StoreKnown
  <2>2. acked' = stored' /\ mode' = "live"
    BY <1>1, <1>4, <2>1
  <2>3. Sequences'
    <3>1. stored' \in Seq(Event) /\ acked' \in Seq(Event)
      BY <1>3, <2>2
    <3>2. writing' \in Seq(Event)
      BY <1>1
    <3> QED BY <1>1, <2>2, <3>1, <3>2 DEF IInv, Sequences
  <2>4. LogsLegal'
    BY <1>1, <1>2, <1>3 DEF IInv, LogsLegal
  <2>5. StoreKnown'
    <3>1. IsPrefix(acked', stored')
      BY <1>3, <2>2, PrefixConcat
    <3>2. IsPrefix(stored' \o writing', log') /\ IsPrefix(stored', log')
      BY <1>1, <1>2, <1>3
    <3> QED BY <1>1, <1>2, <2>2, <3>1, <3>2 DEF StoreKnown
  <2>6. LiveStep'
    BY <1>1, <1>4 DEF IInv, LiveStep
  <2>7. RanKnown'
    BY <1>1, <1>2, <1>3, <2>2, RanKept DEF IInv
  <2> QED BY <2>3, <2>4, <2>5, <2>6, <2>7 DEF IInv
<1>5. CASE mode = "repairing"
  <2>1. acked' = acked /\ mode' = "down"
    BY <1>1, <1>5
  <2>2. Sequences'
    <3>1. writing' \in Seq(Event)
      BY <1>1
    <3> QED BY <1>1, <1>3, <2>1, <3>1 DEF IInv, Sequences
  <2>3. LogsLegal'
    BY <1>1, <1>2, <1>3 DEF IInv, LogsLegal
  <2>4. StoreKnown'
    <3>1. IsPrefix(acked', stored') /\ IsPrefix(stored', log')
      BY <1>1, <1>2, <2>1
    <3> QED BY <1>1, <1>2, <2>1, <3>1 DEF StoreKnown
  <2>5. LiveStep' /\ RanKnown'
    BY <1>1, <2>1 DEF IInv, LiveStep, RanKnown
  <2> QED BY <2>2, <2>3, <2>4, <2>5 DEF IInv
<1> QED BY <1>2, <1>4, <1>5

\* A failed write leaves the file as it was.
LEMMA WriteFailsStep ==
  ASSUME IInv, WriteFails
  PROVE  IInv'
<1>1. /\ writing # <<>> /\ writing' = <<>> /\ crashes < MaxCrashes
      /\ crashes' = crashes + 1
      /\ mode' = IF mode = "repairing" THEN "down" ELSE mode
      /\ UNCHANGED <<log, trace, stored, torn, recovered, closers, acked, ran>>
  BY DEF WriteFails
<1>2. /\ mode \in {"live", "repairing"} /\ ~torn /\ recovered = <<>>
      /\ stored \in Seq(Event) /\ log \in Seq(Event) /\ stored \o writing \in Seq(Event)
      /\ IsPrefix(stored \o writing, log) /\ IsPrefix(stored, stored \o writing)
  BY <1>1, WritingKnown
<1>3. IsPrefix(stored, log) /\ stored \o <<>> = stored
  <2>1. IsPrefix(stored, log)
    BY <1>2, PrefixTransitive
  <2>2. stored \o <<>> = stored
    BY <1>2
  <2> QED BY <2>1, <2>2
<1>4. Sequences'
  <2>1. writing' \in Seq(Event)
    BY <1>1
  <2>2. crashes' \in 0 .. MaxCrashes
    BY <1>1, BoundsAssumption DEF IInv, Sequences
  <2>3. mode' \in {"live", "down", "loaded", "repairing"}
    BY <1>1, <1>2
  <2> QED BY <1>1, <2>1, <2>2, <2>3 DEF IInv, Sequences
<1>5. StoreKnown'
  <2>1. IsPrefix(stored' \o writing', log')
    BY <1>1, <1>3
  <2>2. mode' \in {"live", "down"} /\ (mode' = "live" => mode = "live")
    BY <1>1, <1>2
  <2> QED BY <1>1, <1>2, <1>3, <2>1, <2>2 DEF IInv, StoreKnown
<1>6. LogsLegal' /\ RanKnown'
  BY <1>1 DEF IInv, LogsLegal, RanKnown
<1>7. LiveStep'
  BY <1>1, <1>2 DEF IInv, LiveStep
<1> QED BY <1>4, <1>5, <1>6, <1>7 DEF IInv

\* Whatever a crash leaves of the write in flight is a prefix of the log.
LEMMA CrashStep ==
  ASSUME IInv, Crash
  PROVE  IInv'
<1>1. /\ crashes < MaxCrashes /\ mode' = "down" /\ crashes' = crashes + 1
      /\ log' = <<>> /\ trace' = Log!FreshTrace /\ closers' = <<>> /\ writing' = <<>>
      /\ acked' = acked /\ ran' = ran
  BY DEF Crash
<1>2. /\ stored \in Seq(Event) /\ recovered \in Seq(Event) /\ acked \in Seq(Event)
      /\ torn \in BOOLEAN /\ Legal(stored \o recovered) /\ IsPrefix(acked, stored)
      /\ recovered # <<>> => torn
  BY DEF IInv, Sequences, LogsLegal, StoreKnown
<1>3. /\ stored' \in Seq(Event) /\ recovered' \in Seq(Event) /\ torn' \in BOOLEAN
      /\ Legal(stored' \o recovered') /\ IsPrefix(acked, stored')
      /\ recovered' # <<>> => torn'
  <2>1. CASE writing = <<>>
    <3>1. UNCHANGED <<stored, torn, recovered>>
      BY <2>1 DEF Crash
    <3> QED BY <1>2, <3>1
  <2>2. CASE writing # <<>>
    <3>1. PICK kept \in 0 .. Len(writing) :
            \/ /\ stored' = stored \o SubSeq(writing, 1, kept)
               /\ UNCHANGED <<torn, recovered>>
            \/ /\ torn' = TRUE /\ recovered' = SubSeq(writing, 1, kept)
               /\ UNCHANGED stored
      BY <2>2 DEF Crash
    <3>2. /\ recovered = <<>> /\ writing \in Seq(Event)
          /\ stored \o writing \in Seq(Event) /\ Legal(stored \o writing)
      BY <2>2, WritingKnown
    <3> DEFINE cut == SubSeq(writing, 1, kept)
               some == stored \o cut
    <3>3. cut \in Seq(Event) /\ IsPrefix(some, stored \o writing)
      BY <1>2, <3>2, PrefixCut
    <3>4. \/ stored' = some /\ UNCHANGED <<torn, recovered>>
          \/ torn' = TRUE /\ recovered' = cut /\ stored' = stored
      BY <3>1
    <3> HIDE DEF cut
    <3>5. some \in Seq(Event) /\ IsPrefix(stored, some)
      BY <1>2, <3>3, PrefixConcat
    <3>6. stored \o cut = some
      OBVIOUS
    <3> HIDE DEF some
    <3>7. Legal(some) /\ IsPrefix(acked, some)
      BY <1>2, <3>2, <3>3, <3>5, LegalUpTo, PrefixTransitive
    <3>8. some \o <<>> = some
      BY <3>5
    <3>9. CASE stored' = some /\ UNCHANGED <<torn, recovered>>
      BY <1>2, <3>2, <3>5, <3>7, <3>8, <3>9
    <3>10. CASE torn' = TRUE /\ recovered' = cut /\ stored' = stored
      BY <1>2, <3>3, <3>6, <3>7, <3>10
    <3> QED BY <3>4, <3>9, <3>10
  <2> QED BY <2>1, <2>2
<1>4. Sequences'
  <2>1. crashes' \in 0 .. MaxCrashes
    BY <1>1, BoundsAssumption DEF IInv, Sequences
  <2>2. closers' \in Seq(Event) /\ writing' \in Seq(Event) /\ acked' \in Seq(Event)
    BY <1>1, <1>2
  <2>3. mode' \in {"live", "down", "loaded", "repairing"}
    BY <1>1
  <2> QED BY <1>3, <2>1, <2>2, <2>3 DEF Sequences
<1>5. LogsLegal'
  BY <1>1, <1>3, LegalEmpty, TraceOfEmpty DEF LogsLegal
<1>6. StoreKnown'
  BY <1>1, <1>3 DEF StoreKnown
<1>7. LiveStep' /\ RanKnown'
  BY <1>1 DEF IInv, LiveStep, RanKnown
<1> QED BY <1>4, <1>5, <1>6, <1>7 DEF IInv

\* A load closes what it read.
LEMMA LoadStep ==
  ASSUME IInv, Load
  PROVE  IInv'
<1> DEFINE kept == stored \o recovered
           fix == interruptedTurnClosers(kept)
<1>1. /\ mode = "down" /\ closers' = fix /\ log' = kept \o closers'
      /\ trace' = TraceOf(log') /\ mode' = "loaded"
      /\ UNCHANGED <<stored, torn, recovered, writing, acked, ran, crashes>>
  BY DEF Load, store
<1>2. /\ stored \in Seq(Event) /\ recovered \in Seq(Event) /\ Legal(kept)
      /\ writing = <<>> /\ kept \in Seq(Event)
  BY <1>1 DEF IInv, Sequences, LogsLegal, StoreKnown
<1> HIDE DEF fix
<1>3. Legal(kept \o fix) /\ fix \in Seq(Event)
  BY <1>2, RepairFits DEF fix
<1>4. Sequences'
  BY <1>1, <1>3 DEF IInv, Sequences
<1>5. LogsLegal'
  <2>1. Legal(log')
    BY <1>1, <1>3
  <2> QED BY <1>1, <1>2, <2>1 DEF LogsLegal
<1>6. StoreKnown'
  <2>1. IsPrefix(stored, kept) /\ IsPrefix(kept, kept \o fix)
    BY <1>2, <1>3, PrefixConcat
  <2>2. kept \o fix \in Seq(Event)
    BY <1>2, <1>3
  <2>3. IsPrefix(stored, kept \o fix)
    <3> HIDE DEF kept
    <3> QED BY <1>2, <2>1, <2>2, PrefixTransitive
  <2>4. IsPrefix(stored', log')
    BY <1>1, <2>3
  <2>5. log' = stored' \o recovered' \o closers'
        /\ closers' = interruptedTurnClosers(stored' \o recovered')
    BY <1>1 DEF fix
  <2> QED BY <1>1, <1>2, <2>4, <2>5 DEF IInv, StoreKnown
<1>7. LiveStep' /\ RanKnown'
  BY <1>1 DEF IInv, LiveStep, RanKnown
<1> QED BY <1>4, <1>5, <1>6, <1>7 DEF IInv

\* A loaded log has nothing open.
LEMMA LoadedClosed ==
  ASSUME IInv, mode = "loaded"
  PROVE  trace.openTurn = 0 /\ trace.openStep = 0 /\ trace.pendingCalls = {}
<1>1. /\ Legal(stored \o recovered) /\ trace = TraceOf(log)
      /\ log = (stored \o recovered) \o interruptedTurnClosers(stored \o recovered)
  BY DEF IInv, LogsLegal, StoreKnown
<1> QED BY <1>1, RepairFits

\* A repaired log has no open step to go on with.
LEMMA GoLiveStep ==
  ASSUME IInv, GoLive
  PROVE  IInv'
<1>1. /\ mode = "loaded" /\ ~torn /\ closers = <<>> /\ mode' = "live" /\ acked' = stored
      /\ UNCHANGED <<log, trace, stored, torn, recovered, writing, closers, ran, crashes>>
  BY DEF GoLive, store
<1>2. /\ stored \in Seq(Event) /\ acked \in Seq(Event) /\ recovered = <<>>
      /\ writing = <<>> /\ log = stored \o recovered \o closers
      /\ IsPrefix(acked, stored)
  BY <1>1 DEF IInv, Sequences, StoreKnown
<1>3. stored \o <<>> = stored
  BY <1>2
<1>4. log = stored /\ stored \o writing = log
  BY <1>1, <1>2, <1>3
<1>5. IsPrefix(stored, stored)
  BY <1>2, PrefixConcat
<1>6. Sequences'
  BY <1>1, <1>2 DEF IInv, Sequences
<1>7. LogsLegal'
  BY <1>1 DEF IInv, LogsLegal
<1>8. StoreKnown'
  BY <1>1, <1>2, <1>4, <1>5 DEF StoreKnown
<1>9. LiveStep'
  BY <1>1, LoadedClosed DEF LiveStep
<1>10. RanKnown'
  BY <1>1, <1>2, RanKept DEF IInv
<1> QED BY <1>6, <1>7, <1>8, <1>9, <1>10 DEF IInv

\* A repair commits what the torn frame held and the closers.
LEMMA CommitRepairStep ==
  ASSUME IInv, CommitRepair
  PROVE  IInv'
<1>1. /\ mode = "loaded" /\ torn' = FALSE /\ recovered' = <<>>
      /\ writing' = recovered \o closers
      /\ mode' = IF writing' = <<>> THEN "down" ELSE "repairing"
      /\ UNCHANGED <<log, trace, stored, closers, acked, ran, crashes>>
  BY DEF CommitRepair
<1>2. /\ stored \in Seq(Event) /\ recovered \in Seq(Event) /\ closers \in Seq(Event)
      /\ log = (stored \o recovered) \o closers
      /\ IsPrefix(acked, stored) /\ Legal(stored \o recovered)
  BY <1>1 DEF IInv, Sequences, LogsLegal, StoreKnown
<1>3. writing' \in Seq(Event) /\ log = stored \o writing'
  <2>1. (stored \o recovered) \o closers = stored \o (recovered \o closers)
    BY <1>2, ConcatAssociative
  <2> QED BY <1>1, <1>2, <2>1
<1>4. IsPrefix(stored \o writing', log) /\ IsPrefix(stored, log)
  <2>1. IsPrefix(stored, stored \o writing')
    BY <1>2, <1>3, PrefixConcat
  <2>2. log \in Seq(Event)
    BY OpenTrace DEF IInv
  <2>3. IsPrefix(log, log)
    BY <2>2, PrefixConcat
  <2> QED BY <1>3, <2>1, <2>3
<1>5. Legal(stored' \o recovered')
  <2>1. stored \o <<>> = stored
    BY <1>2
  <2>2. IsPrefix(stored, stored \o recovered)
    BY <1>2, PrefixConcat
  <2>3. Legal(stored)
    BY <1>2, <2>2, LegalUpTo
  <2> QED BY <1>1, <2>1, <2>3
<1>6. mode' \in {"down", "repairing"} /\ (mode' = "down" => writing' = <<>>)
  BY <1>1
<1>7. Sequences'
  <2>1. recovered' \in Seq(Event)
    BY <1>1
  <2> QED BY <1>1, <1>3, <1>6, <2>1 DEF IInv, Sequences
<1>8. LogsLegal'
  BY <1>1, <1>5 DEF IInv, LogsLegal
<1>9. StoreKnown'
  BY <1>1, <1>2, <1>4, <1>6 DEF StoreKnown
<1>10. LiveStep' /\ RanKnown'
  BY <1>1, <1>6 DEF IInv, LiveStep, RanKnown
<1> QED BY <1>7, <1>8, <1>9, <1>10 DEF IInv

\* A new session has an empty log.
LEMMA InitIInv == Init => IInv
<1> SUFFICES ASSUME Init PROVE IInv
  OBVIOUS
<1>1. <<>> \in Seq(Event) /\ <<>> \o <<>> = <<>>
  OBVIOUS
<1>2. Sequences
  <2>1. /\ stored \in Seq(Event) /\ recovered \in Seq(Event) /\ writing \in Seq(Event)
        /\ acked \in Seq(Event) /\ closers \in Seq(Event)
    BY <1>1 DEF Init
  <2>2. crashes \in 0 .. MaxCrashes
    BY BoundsAssumption DEF Init
  <2> QED BY <2>1, <2>2 DEF Init, Sequences
<1>3. LogsLegal
  BY <1>1, LegalEmpty, TraceOfEmpty DEF Init, LogsLegal
<1>4. StoreKnown
  <2> DEFINE none == <<>>
  <2>1. none \in Seq(Event) /\ none \o none = none
    OBVIOUS
  <2> HIDE DEF none
  <2>2. IsPrefix(none, none)
    BY <2>1, PrefixConcat
  <2> QED BY <2>1, <2>2 DEF Init, StoreKnown, none
<1>5. LiveStep /\ RanKnown
  BY DEF Init, LiveStep, RanKnown, Log!FreshTrace, Log!None
<1> QED BY <1>2, <1>3, <1>4, <1>5 DEF IInv

\* Every step keeps the invariant.
LEMMA NextIInv == IInv /\ [Next]_vars => IInv'
<1> SUFFICES ASSUME IInv, [Next]_vars PROVE IInv'
  OBVIOUS
<1>1. CASE TurnStart \/ StepStart \/ AssistantMessage \/ ToolCall \/ ToolResult
             \/ StepEnd \/ TurnEnd
  BY <1>1, LoopStep
<1>2. CASE RunBody
  BY <1>2, RunBodyStep
<1>3. CASE StartWrite
  BY <1>3, StartWriteStep
<1>4. CASE WriteDone
  BY <1>4, WriteDoneStep
<1>5. CASE WriteFails
  BY <1>5, WriteFailsStep
<1>6. CASE Crash
  BY <1>6, CrashStep
<1>7. CASE Load
  BY <1>7, LoadStep
<1>8. CASE GoLive
  BY <1>8, GoLiveStep
<1>9. CASE CommitRepair
  BY <1>9, CommitRepairStep
<1>10. CASE UNCHANGED vars
  BY <1>10 DEF vars, store, IInv, Sequences, LogsLegal, StoreKnown, LiveStep, RanKnown
<1> QED BY <1>1, <1>2, <1>3, <1>4, <1>5, <1>6, <1>7, <1>8, <1>9, <1>10 DEF Next

\* It holds throughout: the theorems rest on it.
LEMMA Invariant == Spec => []IInv
<1> QED BY InitIInv, NextIInv, PTL DEF Spec

-----------------------------------------------------------------------------
(* The theorems.                                                           *)

\* The store and the history stay in range: a decoded record means a torn
\* frame, a write never runs over one, and only a tool/call has a body.
THEOREM TypeCorrect == Spec => []TypeOK
<1>1. IInv => TypeOK
  <2> SUFFICES ASSUME IInv PROVE TypeOK
    OBVIOUS
  <2>1. /\ mode \in {"live", "down", "loaded", "repairing"} /\ torn \in BOOLEAN
        /\ crashes \in 0 .. MaxCrashes /\ (recovered # <<>> => torn)
    BY DEF IInv, Sequences, StoreKnown
  <2>2. trace \in Log!Trace /\ log \in Seq(Event)
    BY OpenTrace DEF IInv
  <2>3. writing # <<>> => mode \in {"live", "repairing"} /\ ~torn
    BY WritingKnown
  <2>4. \A i \in DOMAIN log : log[i].type = "tool/result" => log[i].code \in Code
    <3> TAKE i \in DOMAIN log
    <3>1. log[i] \in Event
      BY <2>2
    <3> QED BY <3>1, EventTypes DEF ResultEvents
  <2>5. \A event \in ran : event.type = "tool/call" /\ event.call \in Call
    <3> TAKE event \in ran
    <3>1. PICK i \in DOMAIN acked : event.type = "tool/call" /\ acked[i] = event
      BY DEF IInv, RanKnown
    <3>2. event \in Event
      BY <3>1 DEF IInv, Sequences
    <3> QED BY <3>1, <3>2, EventTypes DEF CallEvents
  <2> QED BY <2>1, <2>2, <2>3, <2>4, <2>5 DEF TypeOK
<1> QED BY <1>1, Invariant, PTL

\* What a flush acknowledged survives every crash and every interrupted repair
\* (write-behind.ts startWrite, jsonl commitRepair).
THEOREM FlushedSurvives == Spec => []AckedSurvives
<1>1. IInv => AckedSurvives
  <2> SUFFICES ASSUME IInv PROVE AckedSurvives
    OBVIOUS
  <2>1. IsPrefix(acked, stored)
    BY DEF IInv, StoreKnown
  <2>2. /\ stored \in Seq(Event) /\ recovered \in Seq(Event) /\ writing \in Seq(Event)
        /\ closers \in Seq(Event) /\ log \in Seq(Event)
    BY OpenTrace DEF IInv, Sequences
  <2>3. ASSUME mode = "live" PROVE IsPrefix(stored, log)
    <3>1. IsPrefix(stored \o writing, log)
      BY <2>3 DEF IInv, StoreKnown
    <3>2. stored \o writing \in Seq(Event) /\ IsPrefix(stored, stored \o writing)
      BY <2>2, PrefixConcat
    <3> QED BY <2>2, <3>1, <3>2, PrefixTransitive
  <2>4. ASSUME mode = "loaded" PROVE IsPrefix(stored, log)
    <3> DEFINE kept == stored \o recovered
    <3>1. log = kept \o closers
      BY <2>4 DEF IInv, StoreKnown
    <3>2. kept \in Seq(Event) /\ IsPrefix(stored, kept)
      BY <2>2, PrefixConcat
    <3> HIDE DEF kept
    <3>3. IsPrefix(kept, log)
      BY <2>2, <3>1, <3>2, PrefixConcat
    <3> QED BY <2>2, <3>2, <3>3, PrefixTransitive
  <2> QED BY <2>1, <2>3, <2>4 DEF AckedSurvives
<1> QED BY <1>1, Invariant, PTL

\* A call whose body started is never reported as not started, in any log a
\* crash and a repair can produce (repair.ts, session-checkpoint-policy).
THEOREM StartedIsReported == Spec => []RanIsNeverNotStarted
<1>1. IInv => RanIsNeverNotStarted
  <2> SUFFICES ASSUME IInv, NEW event \in ran, NEW i \in DOMAIN log,
                      log[i] = ResultEvent(event.turn, event.step, event.call,
                                           "TOOL_NOT_STARTED")
               PROVE  FALSE
    BY DEF RanIsNeverNotStarted
  <2>1. /\ stored \in Seq(Event) /\ acked \in Seq(Event) /\ log \in Seq(Event)
        /\ IsPrefix(acked, stored) /\ (log = <<>> \/ IsPrefix(stored, log))
        /\ NeverBoth(log)
    BY OpenTrace DEF IInv, Sequences, StoreKnown, KnownAt
  <2>2. IsPrefix(acked, log)
    <3>1. log # <<>>
      OBVIOUS
    <3> QED BY <2>1, <3>1, PrefixTransitive
  <2>3. PICK j \in DOMAIN acked : event.type = "tool/call" /\ acked[j] = event
    BY DEF IInv, RanKnown
  <2>4. j \in DOMAIN log /\ log[j] = event
    <3>1. /\ Len(acked) <= Len(log) /\ \A p \in 1 .. Len(acked) : acked[p] = log[p]
      BY <2>1, <2>2, PrefixElements
    <3> QED BY <2>1, <2>3, <3>1
  <2>5. /\ IsNotStarted(log[i]) /\ log[i].turn = log[j].turn
        /\ log[i].step = log[j].step /\ log[i].call = log[j].call
    BY <2>4 DEF IsNotStarted, ResultEvent
  <2> QED BY <2>1, <2>3, <2>4, <2>5 DEF NeverBoth
<1> QED BY <1>1, Invariant, PTL

\* A log rebuilt from any crash point is accepted event by event, and a load
\* leaves no turn, step or call open (repair.ts against invariant.ts).
THEOREM RepairedIsAccepted == Spec => []RepairBalances
<1>1. IInv => RepairBalances
  <2> SUFFICES ASSUME IInv, mode = "loaded"
               PROVE  /\ \A i \in DOMAIN log :
                           Accepts(TraceOf(SubSeq(log, 1, i - 1)), log[i])
                      /\ trace.openTurn = Log!None /\ trace.openStep = Log!None
                      /\ trace.pendingCalls = {}
    BY DEF RepairBalances
  <2>1. \A i \in DOMAIN log : Accepts(TraceOf(SubSeq(log, 1, i - 1)), log[i])
    <3> TAKE i \in DOMAIN log
    <3>1. Legal(log) /\ log \in Seq(Event)
      BY DEF IInv, LogsLegal, Legal
    <3>2. i \in 1 .. Len(log)
      BY <3>1
    <3>3. Fits(SubSeq(log, 1, i - 1), log[i])
      BY <3>1, <3>2 DEF Legal
    <3> QED BY <3>3 DEF Fits, FitsAt
  <2> QED BY <2>1, LoadedClosed DEF Log!None
<1> QED BY <1>1, Invariant, PTL

\* A step that was open when the process stopped ends with exactly one result
\* for each call of its message, in transcript order, however often the repair
\* was interrupted (repair.ts, "providers reject dangling assistant calls").
THEOREM InterruptedIsAnswered == Spec => []InterruptedCallsAnswered
<1>1. IInv => InterruptedCallsAnswered
  <2>1. CASE IInv /\ mode = "loaded"
    <3> DEFINE kept == stored \o recovered
    <3>1. Legal(kept) /\ log = kept \o closers /\ closers = interruptedTurnClosers(kept)
      BY <2>1 DEF IInv, LogsLegal, StoreKnown
    <3> HIDE DEF kept
    <3>2. AnswersAll(log, Len(closers))
      BY <3>1, AnsweredByRepair
    <3> QED BY <3>2 DEF AnswersAll, Answers, InterruptedCallsAnswered
  <2>2. CASE mode # "loaded"
    BY <2>2 DEF InterruptedCallsAnswered
  <2> QED BY <2>1, <2>2
<1> QED BY <1>1, Invariant, PTL

-----------------------------------------------------------------------------
(* The companion by itself.                                                *)

\* The trace between its events: a step is open only in a turn, a call pends
\* only in a step, and what is open is the one that the next event counts.
Balanced ==
  /\ trace \in Log!Trace /\ trace.nextTurn > 0 /\ trace.nextStep > 0
  /\ trace.openTurn # Log!None => trace.openTurn = trace.nextTurn
  /\ trace.openStep # Log!None => /\ trace.openTurn # Log!None
                                  /\ trace.openStep = trace.nextStep
  /\ trace.pendingCalls # {} => trace.openStep # Log!None

\* Whoever appends only what the companion accepts leaves a balanced trace
\* (session/src/invariant.ts, validateEvent and applyTransition).
THEOREM TraceIsBalanced == Log!Spec => []Balanced
<1>1. Log!Init => Balanced
  BY DEF Log!Init, Log!FreshTrace, Log!Trace, Log!None, Balanced
<1>2. Balanced /\ [Log!Next]_trace => Balanced'
  <2> SUFFICES ASSUME Balanced, [Log!Next]_trace PROVE Balanced'
    OBVIOUS
  <2>0. /\ trace.openTurn \in Nat /\ trace.openStep \in Nat /\ trace.nextTurn \in Nat
        /\ trace.nextStep \in Nat /\ trace.pendingCalls \in SUBSET Call
    BY Zenon DEF Balanced, Log!Trace
  <2> DEFINE After(openTurn, openStep, nextTurn, nextStep, pending) ==
               [openTurn |-> openTurn, openStep |-> openStep, nextTurn |-> nextTurn,
                nextStep |-> nextStep, pendingCalls |-> pending]
  <2>1. CASE Log!TurnStart
    <3>1. trace' = After(trace.nextTurn, trace.openStep, trace.nextTurn, 1, trace.pendingCalls)
      BY <2>1 DEF Balanced, Log!Trace, Log!TurnStart, Log!OpenTurn
    <3> QED BY <3>1, <2>0, <2>1 DEF Balanced, Log!TurnStart, Log!CanOpenTurn, Log!Trace, Log!None
  <2>2. CASE Log!TurnEnd
    <3>1. trace' = After(0, trace.openStep, trace.nextTurn + 1, trace.nextStep,
                         trace.pendingCalls)
      BY <2>2 DEF Balanced, Log!Trace, Log!TurnEnd, Log!CloseTurn, Log!None
    <3> QED BY <3>1, <2>0, <2>2 DEF Balanced, Log!TurnEnd, Log!CanCloseTurn, Log!Trace, Log!None
  <2>3. CASE Log!StepStart
    BY <2>0, <2>3 DEF Balanced, Log!StepStart, Log!CanOpenStep, Log!OpenStep, Log!Trace, Log!None
  <2>4. CASE Log!StepEnd
    <3>1. trace' = After(trace.openTurn, 0, trace.nextTurn, trace.nextStep + 1, {})
      BY <2>4 DEF Balanced, Log!Trace, Log!StepEnd, Log!CloseStep, Log!None
    <3> QED BY <3>1, <2>0, <2>4 DEF Balanced, Log!StepEnd, Log!InOpenStep, Log!Trace, Log!None
  <2>5. ASSUME NEW call \in Call, Log!ToolCall(call) PROVE Balanced'
    <3>1. trace' = [trace EXCEPT !.pendingCalls = trace.pendingCalls \union {call}]
      BY <2>0, <2>5 DEF Log!ToolCall, Log!AddCall
    <3> QED BY <3>1, <2>0, <2>5 DEF Balanced, Log!ToolCall, Log!InOpenStep, Log!Trace, Log!None
  <2>6. ASSUME NEW call \in Call, NEW notStarted \in BOOLEAN, Log!ToolResult(call, notStarted)
        PROVE  Balanced'
    <3>1. trace' = [trace EXCEPT !.pendingCalls = trace.pendingCalls \ {call}]
      BY <2>0, <2>6 DEF Log!ToolResult, Log!DeleteCall
    <3> QED BY <3>1, <2>0, <2>6 DEF Balanced, Log!ToolResult, Log!CanResult, Log!InOpenStep,
                                    Log!Trace, Log!None
  <2>7. CASE trace' = trace
    BY <2>7 DEF Balanced
  <2> QED BY <2>1, <2>2, <2>3, <2>4, <2>5, <2>6, <2>7 DEF Log!Next
<1> QED BY <1>1, <1>2, PTL DEF Log!Spec

=============================================================================
