-------------------------- MODULE BlockFetchProofs --------------------------
(***************************************************************************)
(* Proofs about BlockFetch, for any chain, any options and any number of   *)
(* requests that fail.                                                     *)
(***************************************************************************)
EXTENDS BlockFetch, TLAPS

\* The block whose timestamp the first line of the report is measured from.
Before(h) == IF h = 0 THEN 0 ELSE h - 1

\* What the program has seen of the chain at each place: nothing is reported
\* before the range begins, and in it the timestamp at hand is that of the
\* block before the next one.
Progress ==
  /\ \A i, j \in 1..Len(time) : i <= j => time[i] <= time[j]
  /\ pc \in {"begin", "check", "before", "panicked"} => reported = <<>>
  /\ pc = "before" => next = Before(start)
  /\ pc \in {"range", "done"} =>
       next = start + Len(reported) /\ next <= Len(time)
  /\ pc = "range" => fetched = TimeOf(Before(next))

Inv == TypeOK /\ Progress /\ ReportGapless

\* The numbers that the proofs compare.
LEMMA Numbers ==
  ASSUME TypeOK
  PROVE  /\ MaxHead \in Nat /\ MaxFaults \in Nat
         /\ Len(time) \in Nat /\ Len(time) >= 1 /\ Len(time) <= MaxHead + 1
         /\ \A i \in 1..Len(time) : time[i] \in Nat
         /\ start \in Nat /\ next \in Nat /\ Len(reported) \in Nat
         /\ opts.follow \in BOOLEAN /\ opts.count \in Nat
         /\ opts.start # None => opts.start \in Heights
         /\ Head0 \in Nat /\ Head0 \in Heights
<1>1. /\ MaxHead \in Nat /\ MaxFaults \in Nat
      /\ time \in Seq(Nat) /\ Len(time) \in 1..(MaxHead + 1)
      /\ start \in 0..MaxHead /\ next \in 0..(MaxHead + 1)
      /\ reported \in Seq(Heights \X Nat)
  BY BoundsAssumption DEF TypeOK, Heights
<1>2. opts \in [start : Heights \cup {None}, count : Counts, follow : BOOLEAN]
  BY DEF TypeOK, Options
<1>3. opts.follow \in BOOLEAN /\ opts.count \in Nat /\ opts.start \in Heights \cup {None}
  BY <1>2, CountsAssumption
<1>4. Len(time) \in Nat /\ Len(time) >= 1 /\ Len(time) <= MaxHead + 1
  BY <1>1
<1>5. Head0 \in Nat /\ Head0 \in Heights
  BY <1>1, <1>4 DEF Head0, Heights
<1> QED
  BY SMTT(30), <1>1, <1>3, <1>4, <1>5

LEMMA InvInit == Init => Inv
<1> SUFFICES ASSUME Init PROVE Inv
  OBVIOUS
<1>1. MaxHead \in Nat /\ MaxFaults \in Nat
  BY BoundsAssumption
<1>2. time = <<0>> /\ Len(time) = 1 /\ time \in Seq(Nat) /\ time[1] = 0
  BY DEF Init
<1>3. opts.count \in Nat
  BY CountsAssumption DEF Init, Options
<1>4. TypeOK
  BY <1>1, <1>2, <1>3 DEF Init, TypeOK, Heights
<1>5. Progress /\ ReportGapless
  BY <1>2 DEF Init, Progress, ReportGapless
<1> QED
  BY <1>4, <1>5 DEF Inv

LEMMA FaultType ==
  ASSUME TypeOK, Fault
  PROVE  faults' \in 0..MaxFaults
BY Numbers DEF TypeOK, Fault

\* Nothing of the report or of the chain moves before the range.
LEMMA EarlyStep ==
  ASSUME Inv, UNCHANGED <<time, opts, fetched, reported>>,
         pc \in {"begin", "check"}, faults' \in 0..MaxFaults,
         \/ pc' \in {"check", "panicked"} /\ start' \in Heights /\ next' = next
         \/ pc' = "before" /\ start' = start /\ next' = Before(start)
  PROVE  Inv'
<1>1. next' \in 0..(MaxHead + 1) /\ start' \in Heights
  BY SMTT(30), Numbers DEF Inv, TypeOK, Before, Heights
<1>2. TypeOK'
  BY <1>1 DEF Inv, TypeOK
<1>3. reported = <<>>
  BY DEF Inv, Progress
<1>4. Progress' /\ ReportGapless'
  BY <1>3 DEF Inv, Progress, ReportGapless, Before
<1> QED
  BY <1>2, <1>4 DEF Inv

LEMMA FetchStep ==
  ASSUME Inv, Fetch
  PROVE  Inv'
<1> USE Numbers DEF Inv
<1>1. /\ pc = "range" /\ next <= Head0 /\ InRange
      /\ UNCHANGED <<time, opts, pc, start, faults>>
      /\ next' = next + 1 /\ fetched' = TimeOf(next)
      /\ reported' = Append(reported, <<next, TimeOf(next) - fetched>>)
  BY DEF Fetch
<1>2. /\ next + 1 \in 1..Len(time) /\ TimeOf(next) = time[next + 1]
      /\ TimeOf(next) \in Nat
  BY SMTT(30), <1>1 DEF Head0, TimeOf
<1>3. /\ next = start + Len(reported)
      /\ fetched = TimeOf(Before(next))
  BY <1>1 DEF Progress
<1>4. Before(next) + 1 \in 1..Len(time) /\ Before(next) + 1 <= next + 1
  BY SMTT(30), <1>2 DEF Before
<1>5. fetched \in Nat /\ fetched <= TimeOf(next)
  BY <1>2, <1>3, <1>4 DEF TimeOf, Progress
<1>6. TimeOf(next) - fetched \in Nat /\ next \in Heights
  BY SMTT(30), <1>1, <1>2, <1>5 DEF Head0, Heights
<1>7. reported \in Seq(Heights \X Nat)
  BY DEF TypeOK
<1>8. /\ reported' \in Seq(Heights \X Nat) /\ Len(reported') = Len(reported) + 1
      /\ reported'[Len(reported) + 1] = <<next, TimeOf(next) - fetched>>
      /\ \A i \in 1..Len(reported) : reported'[i] = reported[i]
  BY SMTT(30), <1>1, <1>6, <1>7
<1>9. TypeOK'
  <2>1. ~opts.follow => Len(reported') <= opts.count
    BY SMTT(30), <1>1, <1>3, <1>8 DEF InRange
  <2>2. next' \in 0..(MaxHead + 1)
    BY SMTT(30), <1>1, <1>2
  <2> QED
    BY <1>1, <1>2, <1>8, <2>1, <2>2 DEF TypeOK
<1>10. Progress'
  <2>1. Before(next') = next
    BY SMTT(30), <1>1 DEF Before
  <2>2. fetched' = TimeOf(Before(next))'
    BY <1>1, <2>1 DEF TimeOf
  <2>3. next' = start' + Len(reported') /\ next' <= Len(time')
    BY SMTT(30), <1>1, <1>2, <1>3, <1>8
  <2> QED
    BY <1>1, <2>2, <2>3 DEF Progress
<1>11. ReportGapless'
  <2> SUFFICES ASSUME NEW i \in 1..Len(reported')
               PROVE  LET h == start + i - 1 IN
                        /\ reported'[i][1] = h
                        /\ reported'[i][2] = (IF h = 0 THEN 0 ELSE TimeOf(h) - TimeOf(h - 1))
    BY <1>1 DEF ReportGapless, TimeOf
  <2>1. CASE i \in 1..Len(reported)
    BY <1>8, <2>1 DEF ReportGapless
  <2>2. CASE i = Len(reported) + 1
    <3>1. start + i - 1 = next
      BY <1>3, <2>2
    <3>2. reported'[i] = <<next, TimeOf(next) - fetched>>
      BY <1>8, <2>2
    <3>3. CASE next = 0
      <4>1. TimeOf(next) = fetched
        BY <1>3, <3>3 DEF Before
      <4>2. TimeOf(next) - fetched = 0
        BY <1>5, <4>1
      <4> QED
        BY <3>1, <3>2, <3>3, <4>2
    <3>4. CASE next # 0
      <4>1. fetched = TimeOf(next - 1)
        BY <1>3, <3>4 DEF Before
      <4> QED
        BY <3>1, <3>2, <3>4, <4>1
    <3> QED
      BY <3>3, <3>4
  <2> QED
    BY SMTT(30), <1>8, <2>1, <2>2
<1> QED
  BY <1>9, <1>10, <1>11

LEMMA GrowStep ==
  ASSUME Inv, Grow
  PROVE  Inv'
<1> USE Numbers DEF Inv
<1>1. PICK g \in Gaps : time' = Append(time, TimeOf(Head0) + g)
  BY DEF Grow
<1>2. UNCHANGED <<opts, pc, start, next, fetched, reported, faults>> /\ Head0 < MaxHead
  BY DEF Grow, programVars
<1>3. TimeOf(Head0) = time[Len(time)] /\ TimeOf(Head0) \in Nat /\ g \in Nat
  BY GapsAssumption DEF TimeOf, Head0
<1>4. time \in Seq(Nat)
  BY DEF TypeOK
<1>5. /\ time' \in Seq(Nat) /\ Len(time') = Len(time) + 1
      /\ time'[Len(time) + 1] = TimeOf(Head0) + g
      /\ \A i \in 1..Len(time) : time'[i] = time[i]
  BY SMTT(30), <1>1, <1>3, <1>4
<1>6. TypeOK'
  BY SMTT(30), <1>2, <1>5 DEF TypeOK, Head0
<1>7. ASSUME NEW h \in Nat, h + 1 <= Len(time) PROVE TimeOf(h)' = TimeOf(h)
  BY <1>5, <1>7 DEF TimeOf
<1>8. Progress'
  <2>1. ASSUME NEW i \in 1..Len(time'), NEW j \in 1..Len(time'), i <= j
        PROVE  time'[i] <= time'[j]
    <3>1. CASE j \in 1..Len(time)
      <4>1. i \in 1..Len(time)
        BY <2>1, <3>1
      <4> QED
        BY <1>5, <2>1, <3>1, <4>1 DEF Progress
    <3>2. CASE j = Len(time) + 1 /\ i \in 1..Len(time)
      <4>1. time[i] <= time[Len(time)] /\ time[i] \in Nat
        BY SMTT(30), <3>2 DEF Progress
      <4> QED
        BY SMTT(30), <1>3, <1>5, <3>2, <4>1
    <3>3. CASE j = Len(time) + 1 /\ i = Len(time) + 1
      BY SMTT(30), <1>3, <1>5, <3>3
    <3> QED
      BY SMTT(30), <1>5, <3>1, <3>2, <3>3
  <2>2. pc = "range" => fetched = TimeOf(Before(next))'
    <3> SUFFICES ASSUME pc = "range" PROVE fetched = TimeOf(Before(next))'
      OBVIOUS
    <3>1. next <= Len(time) /\ fetched = TimeOf(Before(next))
      BY DEF Progress
    <3>2. Before(next) \in Nat /\ Before(next) + 1 <= Len(time)
      BY SMTT(30), <3>1 DEF Before
    <3>3. Before(next') = Before(next)
      BY <1>2
    <3>4. TimeOf(Before(next))' = TimeOf(Before(next))
      BY <1>2, <1>7, <3>2, <3>3 DEF TimeOf
    <3> QED
      BY <3>1, <3>4
  <2> QED
    BY SMTT(30), <1>2, <1>5, <2>1, <2>2 DEF Progress
<1>9. ReportGapless'
  <2> SUFFICES ASSUME NEW i \in 1..Len(reported)
               PROVE  LET h == start + i - 1 IN
                        /\ reported[i][1] = h
                        /\ reported[i][2] =
                             (IF h = 0 THEN 0 ELSE time'[h + 1] - time'[h - 1 + 1])
    BY <1>2 DEF ReportGapless, TimeOf
  <2> DEFINE h == start + i - 1
  <2>1. h \in Nat /\ h + 1 <= Len(time)
    <3>1. reported # <<>>
      OBVIOUS
    <3>2. pc \in {"range", "done"}
      BY <3>1 DEF Progress, TypeOK
    <3> QED
      BY SMTT(30), <3>2 DEF Progress
  <2>2. /\ reported[i][1] = h
        /\ reported[i][2] = (IF h = 0 THEN 0 ELSE time[h + 1] - time[h - 1 + 1])
    BY DEF ReportGapless, TimeOf
  <2> HIDE DEF h
  <2>3. time'[h + 1] = time[h + 1]
    BY <1>5, <2>1
  <2>4. h # 0 => time'[h - 1 + 1] = time[h - 1 + 1]
    <3>1. h - 1 + 1 = h /\ (h # 0 => h \in 1..Len(time))
      BY <2>1
    <3> QED
      BY <1>5, <3>1
  <2> QED
    BY <2>2, <2>3, <2>4 DEF h
<1> QED
  BY <1>6, <1>8, <1>9

LEMMA InvStep == Inv /\ [Next]_vars => Inv'
<1> SUFFICES ASSUME Inv, [Next]_vars PROVE Inv'
  OBVIOUS
<1>1. CASE Begin
  <2>1. faults' \in 0..MaxFaults
    BY <1>1, FaultType DEF Begin, Inv, TypeOK
  <2>2. pc = "begin" /\ pc' \in {"check", "panicked"} /\ start' \in Heights
    BY <1>1, Numbers DEF Begin, Inv, TypeOK
  <2> QED
    BY <1>1, <2>1, <2>2, EarlyStep DEF Begin
<1>2. CASE Check
  BY <1>2, EarlyStep DEF Check, Before, Inv, TypeOK
<1>3. CASE FetchBefore
  <2>1. /\ pc = "before" /\ next <= Head0 /\ fetched' = TimeOf(next) /\ next' = start
        /\ pc' = "range" /\ UNCHANGED <<time, opts, start, reported, faults>>
    BY <1>3 DEF FetchBefore
  <2>2. /\ reported = <<>> /\ next = Before(start) /\ Len(reported) = 0
    BY <2>1 DEF Inv, Progress
  <2>3. start <= Len(time) /\ next + 1 \in 1..Len(time)
    BY <2>1, <2>2, Numbers DEF Inv, Head0, Before
  <2>4. TimeOf(next) \in Nat
    BY <2>3, Numbers DEF Inv, TimeOf
  <2>5. start \in 0..(MaxHead + 1)
    BY Numbers DEF Inv, TypeOK, Heights
  <2>6. TypeOK'
    BY <2>1, <2>4, <2>5 DEF Inv, TypeOK
  <2>7. Progress'
    <3>1. fetched' = TimeOf(Before(next))'
      BY <2>1, <2>2 DEF TimeOf
    <3>2. next' = start' + Len(reported') /\ next' <= Len(time')
      BY <2>1, <2>2, <2>3, Numbers DEF Inv
    <3> QED
      BY <2>1, <3>1, <3>2 DEF Inv, Progress
  <2>8. ReportGapless'
    BY <2>1, <2>2 DEF ReportGapless
  <2> QED
    BY <2>6, <2>7, <2>8 DEF Inv
<1>4. CASE Fetch
  BY <1>4, FetchStep
<1>5. CASE End
  BY <1>5 DEF End, Inv, TypeOK, Progress, ReportGapless, TimeOf
<1>6. CASE AskAgain
  <2>1. UNCHANGED <<time, opts, pc, start, next, fetched, reported>>
    BY <1>6 DEF AskAgain, programVars
  <2>2. faults' \in 0..MaxFaults
    BY <1>6, FaultType DEF AskAgain, Inv, TypeOK
  <2> QED
    BY <2>1, <2>2 DEF Inv, TypeOK, Progress, ReportGapless, TimeOf
<1>7. CASE Grow
  BY <1>7, GrowStep
<1>8. CASE UNCHANGED vars
  BY <1>8 DEF vars, Inv, TypeOK, Progress, ReportGapless, TimeOf
<1> QED
  BY <1>1, <1>2, <1>3, <1>4, <1>5, <1>6, <1>7, <1>8 DEF Next, Program, Stopped

\* Every reachable state of the block command is well-typed; in particular no
\* distance in time is negative, and without --follow no more blocks are
\* reported than were asked for.
THEOREM FetchTypes == Spec => []TypeOK
<1>1. Inv => TypeOK
  BY DEF Inv
<1> QED
  BY <1>1, InvInit, InvStep, PTL DEF Spec

\* The report has every block once, in order, with its distance to the one
\* before it, however many requests fail and however the chain grows.
THEOREM NothingSkipped == Spec => []ReportGapless
<1>1. Inv => ReportGapless
  BY DEF Inv
<1> QED
  BY <1>1, InvInit, InvStep, PTL DEF Spec
=============================================================================
