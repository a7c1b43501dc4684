----------------------------- MODULE EtlProofs -----------------------------
(***************************************************************************)
(* Proofs about Etl, for any number of runs, any logs and any heights.     *)
(***************************************************************************)
EXTENDS Etl, TLAPS

\* What a run may rely on where it is: the record it has got is the one of its
\* line, and its lines are lines of its logs.
Place(r) ==
  /\ pc[r] \in {"idle", "tm", "abci", "set"} => line[r] >= 1
  /\ pc[r] = "set" =>
       /\ line[r] <= Len(abci[r]) /\ bi[r] # Nil
       /\ bi[r].height = abci[r][line[r]].height
  /\ pc[r] = "last" => line[r] \in 1..MaxHeight /\ bi[r] # Nil

GotFromLogs(r) == bi[r] # Nil => FromLogs(bi[r], bi[r].height)

RecordInv ==
  /\ TypeOK /\ RecordsFromLogs
  /\ \A r \in Runs : Place(r) /\ GotFromLogs(r)

LEMMA LogTypes ==
  ASSUME TypeOK, NEW r \in Runs
  PROVE  /\ tm[r] \in Seq(TmLines) /\ abci[r] \in Seq(AbciLines)
         /\ Len(tm[r]) \in Nat /\ Len(abci[r]) \in Nat
         /\ \A j \in 1..Len(tm[r]) : tm[r][j] \in TmLines
         /\ \A j \in 1..Len(abci[r]) : abci[r][j] \in AbciLines
<1>1. tm[r] \in Seq(TmLines) /\ abci[r] \in Seq(AbciLines)
  BY LogsAssumption DEF TypeOK
<1> QED
  BY <1>1

LEMMA FreshType ==
  ASSUME NEW l \in TmLines
  PROVE  /\ Fresh(l) \in Records /\ Fresh(l).height = l.height /\ Fresh(l).time = l.time
         /\ \A p \in Phases : Fresh(l).spent[p] = 0
BY DEF Fresh, TmLines, Records

LEMMA FilledType ==
  ASSUME NEW b \in Records, NEW l \in AbciLines
  PROVE  /\ Filled(b, l) \in Records
         /\ Filled(b, l).height = b.height /\ Filled(b, l).time = b.time
         /\ \A p \in Phases :
              Filled(b, l).spent[p] = IF p = l.phase THEN l.value ELSE b.spent[p]
<1>1. l.phase \in Phases /\ l.value \in Values
  BY DEF AbciLines
<1>2. b.height \in Heights /\ b.time \in Times /\ b.spent \in [Phases -> Values \cup {0}]
  BY DEF Records
<1>3. Filled(b, l) = [b EXCEPT !.spent = [b.spent EXCEPT ![l.phase] = l.value]]
  BY DEF Filled
<1>4. [b.spent EXCEPT ![l.phase] = l.value] \in [Phases -> Values \cup {0}]
  BY <1>1, <1>2
<1>5. Filled(b, l) \in Records
  BY <1>2, <1>3, <1>4 DEF Records
<1>6. Filled(b, l).height = b.height /\ Filled(b, l).time = b.time
  BY <1>3 DEF Records
<1>7. Filled(b, l).spent = [b.spent EXCEPT ![l.phase] = l.value]
  BY <1>3 DEF Records
<1> QED
  BY <1>1, <1>2, <1>5, <1>6, <1>7

LEMMA ElapsedType ==
  ASSUME NEW b \in Records, NEW last \in Records
  PROVE  Elapsed(b, last) \in Nat
<1>1. b.time \in Nat /\ last.time \in Nat
  BY TimesAssumption DEF Records
<1> QED
  BY <1>1 DEF Elapsed

LEMMA RecordInit == Init => RecordInv
<1> SUFFICES ASSUME Init PROVE RecordInv
  OBVIOUS
<1>1. MaxHeight + 1 \in Nat /\ 0 \in Heights
  BY HeightAssumption DEF Heights
<1>2. TypeOK
  <2>1. /\ redis \in [Heights -> Records \cup {Nil}]
        /\ bi \in [Runs -> Records \cup {Nil}]
        /\ report \in [Runs -> [Heights -> Nat \cup {Nil}]]
    BY DEF Init
  <2>2. line \in [Runs -> Nat] /\ low \in [Runs -> Nat] /\ high \in [Runs -> Heights]
    BY <1>1 DEF Init
  <2>3. clean \in [Runs -> BOOLEAN]
    BY DEF Init
  <2>4. /\ tm \in [Runs -> TmLogs] /\ abci \in [Runs -> AbciLogs]
        /\ pc \in [Runs -> {"idle", "tm", "abci", "set", "report", "last", "done", "killed"}]
    BY DEF Init
  <2> QED
    BY <2>1, <2>2, <2>3, <2>4 DEF TypeOK
<1>3. RecordsFromLogs
  BY DEF Init, RecordsFromLogs
<1>4. ASSUME NEW r \in Runs PROVE Place(r) /\ GotFromLogs(r)
  <2>1. pc[r] = "idle" /\ line[r] = 1 /\ bi[r] = Nil
    BY DEF Init
  <2> QED
    BY <2>1 DEF Place, GotFromLogs
<1> QED
  BY <1>2, <1>3, <1>4 DEF RecordInv

\* The step of a run moves that run only.
LEMMA OtherRuns ==
  ASSUME TypeOK, NEW r \in Runs, Step(r), NEW q \in Runs, q # r
  PROVE  /\ pc'[q] = pc[q] /\ line'[q] = line[q] /\ bi'[q] = bi[q]
         /\ low'[q] = low[q] /\ high'[q] = high[q] /\ report'[q] = report[q]
<1>1. /\ pc \in [Runs -> {"idle", "tm", "abci", "set", "report", "last", "done", "killed"}]
      /\ line \in [Runs -> Nat] /\ low \in [Runs -> Nat] /\ high \in [Runs -> Heights]
      /\ bi \in [Runs -> Records \cup {Nil}]
      /\ report \in [Runs -> [Heights -> Nat \cup {Nil}]]
  BY DEF TypeOK
<1>2. CASE Start(r) \/ TmEnd(r) \/ AbciEnd(r) \/ ReportEnd(r) \/ Die(r)
  BY <1>1, <1>2 DEF Start, TmEnd, AbciEnd, ReportEnd, Die, Goto
<1>3. CASE TmLine(r)
  BY <1>1, <1>3 DEF TmLine, GoOn
<1>4. CASE AbciGet(r)
  BY <1>1, <1>4 DEF AbciGet, Got, GetFails, Goto, GoOn
<1>5. CASE AbciSet(r)
  BY <1>1, <1>5 DEF AbciSet, Goto, GoOn
<1>6. CASE ReportGet(r)
  BY <1>1, <1>6 DEF ReportGet, Got, GetFails, Reported, Goto, GoOn
<1>7. CASE ReportLast(r)
  BY SMTT(30), <1>1, <1>7 DEF ReportLast, GetFails, Reported, Goto, GoOn
<1> QED
  BY <1>2, <1>3, <1>4, <1>5, <1>6, <1>7 DEF Step

\* What a step writes to redis: a block that has been executed afresh, or a
\* phase of the record it has got.
LEMMA RedisShape ==
  ASSUME RecordInv, NEW r \in Runs, Step(r)
  PROVE  \/ UNCHANGED redis
         \/ /\ pc[r] = "tm" /\ line[r] \in 1..Len(tm[r])
            /\ redis' = [redis EXCEPT ![tm[r][line[r]].height] = Fresh(tm[r][line[r]])]
         \/ /\ pc[r] = "set" /\ line[r] \in 1..Len(abci[r])
            /\ bi[r] \in Records /\ bi[r].height = abci[r][line[r]].height
            /\ redis' = [redis EXCEPT ![bi[r].height] = Filled(bi[r], abci[r][line[r]])]
<1>1. /\ line[r] \in Nat /\ Len(tm[r]) \in Nat /\ Len(abci[r]) \in Nat
      /\ bi[r] \in Records \cup {Nil} /\ Place(r)
  BY LogTypes DEF RecordInv, TypeOK
<1>2. CASE TmLine(r)
  BY <1>1, <1>2 DEF TmLine, Place
<1>3. CASE AbciSet(r)
  BY <1>1, <1>3 DEF AbciSet, Place
<1> QED
  BY <1>2, <1>3 DEF Step, Start, TmEnd, AbciGet, AbciEnd, ReportGet, ReportLast, ReportEnd, Die

LEMMA RedisStep ==
  ASSUME RecordInv, NEW r \in Runs, Step(r)
  PROVE  redis' \in [Heights -> Records \cup {Nil}] /\ RecordsFromLogs'
<1>1. TypeOK /\ RecordsFromLogs /\ Place(r) /\ GotFromLogs(r)
  BY DEF RecordInv
<1>2. redis \in [Heights -> Records \cup {Nil}] /\ UNCHANGED <<tm, abci>>
  BY <1>1 DEF TypeOK, Step, logs
<1>3. CASE UNCHANGED redis
  BY <1>1, <1>2, <1>3 DEF RecordsFromLogs, FromLogs
<1>4. ASSUME NEW h \in Heights, NEW b \in Records, FromLogs(b, h),
             redis' = [redis EXCEPT ![h] = b]
      PROVE  redis' \in [Heights -> Records \cup {Nil}] /\ RecordsFromLogs'
  <2>1. redis' \in [Heights -> Records \cup {Nil}]
    BY <1>2, <1>4
  <2>2. ASSUME NEW g \in Heights, redis'[g] # Nil PROVE FromLogs(redis'[g], g)
    BY <1>1, <1>2, <1>4, <2>2 DEF RecordsFromLogs
  <2> QED
    BY SMTT(30), <1>2, <2>1, <2>2 DEF RecordsFromLogs, FromLogs
<1>5. CASE /\ line[r] \in 1..Len(tm[r])
           /\ redis' = [redis EXCEPT ![tm[r][line[r]].height] = Fresh(tm[r][line[r]])]
  <2> DEFINE l == tm[r][line[r]]
  <2>1. l \in TmLines
    BY <1>1, <1>5, LogTypes
  <2>2. l.height \in Heights
    BY SMTT(30), <2>1 DEF TmLines
  <2>3. Fresh(l) \in Records /\ FromLogs(Fresh(l), l.height)
    BY SMTT(30), <1>5, <2>1, FreshType DEF FromLogs
  <2>4. redis' = [redis EXCEPT ![l.height] = Fresh(l)]
    BY <1>5
  <2> DEFINE h == l.height
             b == Fresh(l)
  <2>5. h \in Heights /\ b \in Records /\ FromLogs(b, h) /\ redis' = [redis EXCEPT ![h] = b]
    BY <2>2, <2>3, <2>4
  <2> HIDE DEF h, b, l
  <2> QED
    BY <1>4, <2>5
<1>6. CASE /\ line[r] \in 1..Len(abci[r])
           /\ bi[r] \in Records /\ bi[r].height = abci[r][line[r]].height
           /\ redis' = [redis EXCEPT ![bi[r].height] = Filled(bi[r], abci[r][line[r]])]
  <2> DEFINE l == abci[r][line[r]]
             b == Filled(bi[r], l)
  <2>1. l \in AbciLines
    BY <1>1, <1>6, LogTypes
  <2>2. l.height \in Heights /\ l = [height |-> l.height, phase |-> l.phase, value |-> l.value]
    <3> HIDE DEF l
    <3> QED
      BY <2>1 DEF AbciLines
  <2>3. /\ b \in Records /\ b.height = l.height /\ b.time = bi[r].time
        /\ \A p \in Phases : b.spent[p] = IF p = l.phase THEN l.value ELSE bi[r].spent[p]
    BY <1>6, <2>1, FilledType
  <2>4. FromLogs(bi[r], l.height)
    BY <1>1, <1>6, NilAssumption DEF GotFromLogs
  <2>5. FromLogs(b, l.height)
    <3>1. \E q \in Runs : \E j \in 1..Len(tm[q]) :
            tm[q][j].height = l.height /\ tm[q][j].time = b.time
      BY <2>3, <2>4 DEF FromLogs
    <3>2. ASSUME NEW p \in Phases, b.spent[p] # 0
          PROVE  \E q \in Runs : \E j \in 1..Len(abci[q]) :
                   abci[q][j] = [height |-> l.height, phase |-> p, value |-> b.spent[p]]
      <4>1. CASE p = l.phase
        <5>1. b.spent[p] = l.value
          BY <2>3, <4>1
        <5>2. l = [height |-> l.height, phase |-> p, value |-> b.spent[p]]
          <6> HIDE DEF b, l
          <6> QED
            BY <2>2, <4>1, <5>1
        <5> HIDE DEF b
        <5> QED
          BY SMTT(30), <1>6, <5>2
      <4>2. CASE p # l.phase
        <5>1. b.spent[p] = bi[r].spent[p]
          BY <2>3, <4>2
        <5> HIDE DEF b, l
        <5> QED
          BY SMTT(30), <2>4, <3>2, <5>1 DEF FromLogs
      <4> QED
        BY <4>1, <4>2
    <3> HIDE DEF b, l
    <3> QED
      BY SMTT(30), <2>3, <3>1, <3>2 DEF FromLogs
  <2>6. redis' = [redis EXCEPT ![l.height] = b]
    BY <1>6
  <2> HIDE DEF b, l
  <2> QED
    BY <1>4, <2>2, <2>3, <2>5, <2>6
<1> QED
  BY <1>3, <1>5, <1>6, RedisShape

LEMMA CleanType ==
  ASSUME TypeOK, NEW r \in Runs, Step(r)
  PROVE  clean' \in [Runs -> BOOLEAN]
<1>1. clean \in [Runs -> BOOLEAN]
  BY DEF TypeOK
<1>2. CASE Start(r)
  <2>1. \A q \in Runs : (q = r /\ \A p \in Runs : ~Active(p)) \in BOOLEAN
    OBVIOUS
  <2> QED
    BY <1>2, <2>1 DEF Start
<1>3. CASE UNCHANGED clean \/ Spoil(r)
  BY <1>1, <1>3 DEF Spoil
<1>4. Start(r) \/ UNCHANGED clean \/ Spoil(r)
  BY DEF Step, Start, TmLine, TmEnd, AbciGet, AbciSet, AbciEnd, ReportGet, ReportLast,
         ReportEnd, Die, Got, GetFails
<1> QED
  BY <1>2, <1>3, <1>4

LEMMA BiStep ==
  ASSUME RecordInv, NEW r \in Runs, Step(r)
  PROVE  bi' \in [Runs -> Records \cup {Nil}] /\ \A q \in Runs : GotFromLogs(q)'
<1>1. /\ bi \in [Runs -> Records \cup {Nil}] /\ redis \in [Heights -> Records \cup {Nil}]
      /\ RecordsFromLogs /\ UNCHANGED <<tm, abci>>
  BY DEF RecordInv, TypeOK, Step, logs
<1>2. \/ UNCHANGED bi
      \/ \E h \in Heights : redis[h] # Nil /\ bi' = [bi EXCEPT ![r] = redis[h]]
  <2>1. CASE AbciGet(r)
    <3>1. line[r] \in 1..Len(abci[r])
      <4>1. line[r] >= 1 /\ line[r] \in Nat /\ Len(abci[r]) \in Nat
        BY <2>1, LogTypes DEF RecordInv, Place, TypeOK, AbciGet
      <4> QED
        BY <2>1, <4>1 DEF AbciGet
    <3>2. abci[r][line[r]].height \in Heights
      BY <3>1, LogTypes DEF RecordInv, AbciLines
    <3> QED
      BY <2>1, <3>2 DEF AbciGet, Got, GetFails
  <2>2. CASE ReportGet(r)
    <3>1. line[r] \in Heights
      BY <2>2, HeightAssumption DEF RecordInv, TypeOK, ReportGet, Heights
    <3> QED
      BY <2>2, <3>1 DEF ReportGet, Got, GetFails
  <2>3. CASE ~AbciGet(r) /\ ~ReportGet(r)
    BY <2>3 DEF Step, Start, TmLine, TmEnd, AbciSet, AbciEnd, ReportLast, ReportEnd, Die, GetFails
  <2> QED
    BY <2>1, <2>2, <2>3
<1>3. CASE UNCHANGED bi
  BY <1>1, <1>3 DEF RecordInv, GotFromLogs, FromLogs
<1>4. ASSUME NEW h \in Heights, redis[h] # Nil, bi' = [bi EXCEPT ![r] = redis[h]]
      PROVE  bi' \in [Runs -> Records \cup {Nil}] /\ \A q \in Runs : GotFromLogs(q)'
  <2>1. bi' \in [Runs -> Records \cup {Nil}]
    BY <1>1, <1>4
  <2>2. FromLogs(redis[h], h) /\ redis[h].height = h
    BY <1>1, <1>4 DEF RecordsFromLogs, FromLogs
  <2>3. ASSUME NEW q \in Runs, bi'[q] # Nil PROVE FromLogs(bi'[q], bi'[q].height)
    <3>1. CASE q = r
      BY <1>1, <1>4, <2>2, <3>1
    <3>2. CASE q # r
      <4>1. bi'[q] = bi[q]
        BY <1>1, <1>4, <3>2
      <4> QED
        BY <2>3, <4>1 DEF RecordInv, GotFromLogs
    <3> QED
      BY <3>1, <3>2
  <2> QED
    BY <1>1, <2>1, <2>3 DEF GotFromLogs, FromLogs
<1> QED
  BY <1>2, <1>3, <1>4

LEMMA LocalTypes ==
  ASSUME RecordInv, NEW r \in Runs, Step(r)
  PROVE  /\ pc' \in [Runs -> {"idle", "tm", "abci", "set", "report", "last", "done", "killed"}]
         /\ line' \in [Runs -> Nat] /\ low' \in [Runs -> Nat] /\ high' \in [Runs -> Heights]
<1>1. /\ pc \in [Runs -> {"idle", "tm", "abci", "set", "report", "last", "done", "killed"}]
      /\ line \in [Runs -> Nat] /\ low \in [Runs -> Nat] /\ high \in [Runs -> Heights]
  BY DEF RecordInv, TypeOK
<1>2. CASE TmLine(r)
  <2>1. line[r] \in 1..Len(tm[r])
    <3>1. line[r] >= 1 /\ line[r] \in Nat /\ Len(tm[r]) \in Nat
      BY <1>2, LogTypes DEF RecordInv, Place, TypeOK, TmLine
    <3> QED
      BY <1>2, <3>1 DEF TmLine
  <2>2. tm[r][line[r]].height \in Heights /\ tm[r][line[r]].height \in Nat
    BY SMTT(30), <2>1, LogTypes, HeightAssumption DEF RecordInv, TmLines, Heights
  <2>3. line' \in [Runs -> Nat] /\ UNCHANGED pc
    BY <1>1, <1>2 DEF TmLine, GoOn
  <2>4. low' \in [Runs -> Nat] /\ high' \in [Runs -> Heights]
    <3> DEFINE h == tm[r][line[r]].height
    <3>1. /\ low' = [low EXCEPT ![r] = IF h < low[r] THEN h ELSE low[r]]
          /\ high' = [high EXCEPT ![r] = IF h > high[r] THEN h ELSE high[r]]
      BY <1>2 DEF TmLine
    <3>2. h \in Nat /\ h \in Heights
      BY <2>2
    <3> HIDE DEF h
    <3>3. (IF h < low[r] THEN h ELSE low[r]) \in Nat
      BY <1>1, <3>2
    <3>4. (IF h > high[r] THEN h ELSE high[r]) \in Heights
      BY <1>1, <3>2
    <3> QED
      BY <1>1, <3>1, <3>3, <3>4
  <2> QED
    BY <1>1, <2>3, <2>4
<1>3. CASE ~TmLine(r)
  <2>1. UNCHANGED <<low, high>>
    BY <1>3 DEF Step, Start, TmEnd, AbciGet, AbciSet, AbciEnd, ReportGet, ReportLast,
                ReportEnd, Die
  <2>2. \/ UNCHANGED line \/ GoOn(r)
        \/ \E n \in Nat : line' = [line EXCEPT ![r] = n]
    BY SMTT(30), <1>1, <1>3 DEF Step, Start, TmEnd, AbciGet, AbciSet, AbciEnd, ReportGet, ReportLast,
                      ReportEnd, Die, Reported
  <2>3. \/ UNCHANGED pc
        \/ \E l \in {"tm", "abci", "set", "report", "last", "done", "killed"} : Goto(r, l)
    BY <1>3 DEF Step, Start, TmEnd, AbciGet, AbciSet, AbciEnd, ReportGet, ReportLast,
                ReportEnd, Die, Reported
  <2>4. line' \in [Runs -> Nat]
    BY <1>1, <2>2 DEF GoOn
  <2>5. pc' \in [Runs -> {"idle", "tm", "abci", "set", "report", "last", "done", "killed"}]
    BY <1>1, <2>3 DEF Goto
  <2> QED
    BY <1>1, <2>1, <2>4, <2>5
<1> QED
  BY <1>2, <1>3

LEMMA ReportType ==
  ASSUME RecordInv, NEW r \in Runs, Step(r)
  PROVE  report' \in [Runs -> [Heights -> Nat \cup {Nil}]]
<1>1. report \in [Runs -> [Heights -> Nat \cup {Nil}]] /\ line[r] \in Nat
  BY DEF RecordInv, TypeOK
<1>2. ASSUME NEW t \in Nat, Reported(r, t)
      PROVE  report' \in [Runs -> [Heights -> Nat \cup {Nil}]]
  <2>1. [report[r] EXCEPT ![line[r]] = t] \in [Heights -> Nat \cup {Nil}]
    BY <1>1
  <2>2. report' = [report EXCEPT ![r] = [report[r] EXCEPT ![line[r]] = t]]
    BY <1>2 DEF Reported
  <2> QED
    BY <1>1, <2>1, <2>2
<1>3. CASE ReportGet(r)
  <2>1. UNCHANGED report \/ Reported(r, 0)
    BY <1>3 DEF ReportGet
  <2> QED
    BY <1>1, <1>2, <2>1
<1>4. CASE ReportLast(r)
  <2>1. bi[r] \in Records /\ line[r] - 1 \in Heights
    BY <1>4, HeightAssumption DEF ReportLast, RecordInv, TypeOK, Place, Heights
  <2>2. CASE Reported(r, 0)
    BY <1>2, <2>2
  <2>3. CASE redis[line[r] - 1] # Nil /\ Reported(r, Elapsed(bi[r], redis[line[r] - 1]))
    <3>1. redis[line[r] - 1] \in Records
      BY <2>1, <2>3 DEF RecordInv, TypeOK
    <3>2. Elapsed(bi[r], redis[line[r] - 1]) \in Nat
      BY <2>1, <3>1, ElapsedType
    <3> QED
      BY <1>2, <2>3, <3>2
  <2> QED
    BY <1>4, <2>2, <2>3 DEF ReportLast
<1>5. CASE ~ReportGet(r) /\ ~ReportLast(r)
  BY <1>1, <1>5 DEF Step, Start, TmLine, TmEnd, AbciGet, AbciSet, AbciEnd, ReportEnd, Die
<1> QED
  BY <1>3, <1>4, <1>5

LEMMA PlaceStep ==
  ASSUME RecordInv, NEW r \in Runs, Step(r)
  PROVE  \A q \in Runs : Place(q)'
<1>1. /\ TypeOK /\ Place(r) /\ UNCHANGED <<tm, abci>> /\ line[r] \in Nat
      /\ pc \in [Runs -> {"idle", "tm", "abci", "set", "report", "last", "done", "killed"}]
      /\ line \in [Runs -> Nat] /\ bi \in [Runs -> Records \cup {Nil}]
  BY DEF RecordInv, TypeOK, Step, logs
<1>2. ASSUME NEW q \in Runs, q # r PROVE Place(q)'
  BY <1>1, <1>2, OtherRuns DEF RecordInv, Place
<1>3. ASSUME NEW l, Goto(r, l) PROVE pc'[r] = l
  BY <1>1, <1>3 DEF Goto
<1>4. GoOn(r) => line'[r] = line[r] + 1
  BY <1>1 DEF GoOn
<1>5. ASSUME Start(r) PROVE Place(r)'
  BY <1>1, <1>3, <1>5 DEF Start, Place
<1>6. ASSUME TmLine(r) PROVE Place(r)'
  BY <1>1, <1>4, <1>6 DEF TmLine, Place
<1>7. ASSUME TmEnd(r) PROVE Place(r)'
  <2>1. line'[r] = 1 /\ pc'[r] = "abci"
    BY <1>1, <1>3, <1>7 DEF TmEnd
  <2> QED
    BY <2>1 DEF Place
<1>8. ASSUME AbciGet(r) PROVE Place(r)'
  <2>1. CASE Got(r, abci[r][line[r]].height) /\ Goto(r, "set") /\ UNCHANGED line
    <3>1. line[r] \in 1..Len(abci[r])
      BY <1>1, <1>8, LogTypes DEF AbciGet, Place
    <3>2. abci[r][line[r]].height \in Heights
      BY <1>1, <3>1, LogTypes DEF AbciLines
    <3>3. bi'[r] = redis[abci[r][line[r]].height] /\ bi'[r] # Nil
      BY SMTT(30), <1>1, <2>1 DEF Got
    <3>4. bi'[r].height = abci[r][line[r]].height
      BY <3>2, <3>3 DEF RecordInv, RecordsFromLogs, FromLogs
    <3>5. pc'[r] = "set" /\ line'[r] = line[r] /\ abci'[r] = abci[r]
      BY <1>1, <1>3, <2>1
    <3> QED
      BY <1>1, <3>1, <3>3, <3>4, <3>5 DEF Place
  <2>2. CASE GoOn(r) /\ UNCHANGED pc
    BY <1>1, <1>4, <1>8, <2>2 DEF AbciGet, Place
  <2> QED
    BY <1>8, <2>1, <2>2 DEF AbciGet
<1>9. ASSUME AbciSet(r) PROVE Place(r)'
  <2>1. line'[r] = line[r] + 1 /\ pc'[r] = "abci" /\ line[r] >= 1
    BY <1>1, <1>3, <1>4, <1>9 DEF AbciSet, Place
  <2> QED
    BY <1>1, <2>1 DEF Place
<1>10. ASSUME AbciEnd(r) \/ ReportEnd(r) \/ Die(r) PROVE Place(r)'
  BY <1>1, <1>3, <1>10 DEF AbciEnd, ReportEnd, Die, Place
<1>11. ASSUME ReportGet(r) PROVE Place(r)'
  <2>1. CASE Got(r, line[r]) /\ Goto(r, "last") /\ UNCHANGED line /\ line[r] # 0
    <3>1. line[r] \in 1..MaxHeight
      BY <1>1, <1>11, <2>1, HeightAssumption DEF ReportGet, TypeOK, Heights
    <3>2. bi'[r] # Nil /\ pc'[r] = "last" /\ line'[r] = line[r]
      BY <1>1, <1>3, <2>1 DEF Got
    <3> QED
      BY <3>1, <3>2 DEF Place
  <2>2. CASE pc'[r] = "report"
    BY <2>2 DEF Place
  <2>3. pc'[r] = "report" \/ (Got(r, line[r]) /\ Goto(r, "last") /\ UNCHANGED line /\ line[r] # 0)
    BY <1>3, <1>11 DEF ReportGet, Reported
  <2> QED
    BY <2>1, <2>2, <2>3
<1>12. ASSUME ReportLast(r) PROVE Place(r)'
  <2>1. pc'[r] = "report"
    BY <1>3, <1>12 DEF ReportLast, Reported
  <2> QED
    BY <2>1 DEF Place
<1>13. Place(r)'
  BY <1>5, <1>6, <1>7, <1>8, <1>9, <1>10, <1>11, <1>12 DEF Step
<1> QED
  BY <1>2, <1>13

LEMMA RecordStep == RecordInv /\ [Next]_vars => RecordInv'
<1> SUFFICES ASSUME RecordInv, [Next]_vars PROVE RecordInv'
  OBVIOUS
<1>1. ASSUME NEW r \in Runs, Step(r) PROVE RecordInv'
  <2>1. UNCHANGED <<tm, abci>> /\ tm \in [Runs -> TmLogs] /\ abci \in [Runs -> AbciLogs]
    BY <1>1 DEF RecordInv, TypeOK, Step, logs
  <2>2. TypeOK'
    BY <1>1, <2>1, RedisStep, LocalTypes, BiStep, ReportType, CleanType DEF RecordInv, TypeOK
  <2> QED
    BY <1>1, <2>2, RedisStep, BiStep, PlaceStep DEF RecordInv
<1>2. CASE UNCHANGED vars
  <2>1. UNCHANGED <<redis, tm, abci, pc, line, low, high, bi, report, clean>>
    BY <1>2 DEF vars, logs, locals
  <2>2. TypeOK'
    BY <2>1 DEF RecordInv, TypeOK
  <2>3. RecordsFromLogs'
    BY <2>1 DEF RecordInv, RecordsFromLogs, FromLogs
  <2>4. \A r \in Runs : Place(r)' /\ GotFromLogs(r)'
    BY SMTT(30), <2>1 DEF RecordInv, Place, GotFromLogs, FromLogs
  <2> QED
    BY <2>2, <2>3, <2>4 DEF RecordInv
<1> QED
  BY <1>1, <1>2 DEF Next, Finished

\* Redis and the locals of the runs keep their types.
THEOREM EtlTypes == Spec => []TypeOK
<1>1. RecordInv => TypeOK
  BY DEF RecordInv
<1> QED
  BY RecordInit, RecordStep, <1>1, PTL DEF Spec

\* A record is under its own key and made of lines about its block, for any
\* number of runs, overlapping or killed between a GET and its SET.
THEOREM RecordsTrue == Spec => []RecordsFromLogs
<1>1. RecordInv => RecordsFromLogs
  BY DEF RecordInv
<1> QED
  BY RecordInit, RecordStep, <1>1, PTL DEF Spec
-----------------------------------------------------------------------------
(***************************************************************************)
(* A clean run.  As long as no other run is active, redis is what this run *)
(* makes it: behind the line it has reached, every block has the record of *)
(* its last line, then every phase the value of its last line, and the     *)
(* report is right up to the height it has reached.                        *)
(***************************************************************************)
\* Every block of the first n lines has a record and is between the bounds.
Covered(r, n) ==
  \A j \in 1..n :
    /\ redis[tm[r][j].height] # Nil
    /\ low[r] <= tm[r][j].height /\ tm[r][j].height <= high[r]

\* Nothing is left of what an earlier run measured in those blocks.
Cleared(r, n) == \A j \in 1..n : \A p \in Phases : redis[tm[r][j].height].spent[p] = 0

Unreported(r) ==
  /\ pc[r] = "idle" => line[r] = 1
  /\ pc[r] \in {"idle", "tm", "abci", "set"} => \A h \in Heights : report[r][h] = Nil

Alone(r) == pc[r] # "idle" /\ \A q \in Runs : q # r => ~Active(q)

TmDone(r) == TmWritten(r, Len(tm[r])) /\ Covered(r, Len(tm[r]))

InTm(r) == LET n == line[r] - 1 IN
  pc[r] = "tm" =>
    n <= Len(tm[r]) /\ TmWritten(r, n) /\ Covered(r, n) /\ Cleared(r, n)

InAbci(r) == LET n == line[r] - 1 IN
  /\ pc[r] \in {"abci", "set"} => n <= Len(abci[r]) /\ TmDone(r) /\ AbciWritten(r, n)
  /\ pc[r] = "set" => bi[r] = redis[bi[r].height]

InReport(r) ==
  /\ pc[r] \in {"report", "last", "done"} => TmDone(r) /\ AbciWritten(r, Len(abci[r]))
  /\ pc[r] \in {"report", "last"} =>
       /\ low[r] <= line[r] /\ ReportedBefore(r, line[r])
       /\ \A h \in Heights : h >= line[r] => report[r][h] = Nil
  /\ pc[r] = "last" => bi[r] = redis[line[r]] /\ line[r] <= high[r]
  /\ pc[r] = "done" => ReportedBefore(r, high[r] + 1)

CleanInv ==
  /\ RecordInv
  /\ \A r \in Runs :
       Unreported(r) /\ (clean[r] => Alone(r) /\ InTm(r) /\ InAbci(r) /\ InReport(r))

\* The lines of a tendermint log that have been read.
LEMMA TmLineClean ==
  ASSUME RecordInv, NEW r \in Runs, TmLine(r), UNCHANGED <<tm, abci>>, InTm(r)
  PROVE  InTm(r)'
<1> DEFINE l == tm[r][line[r]]
           h == l.height
<1>1. /\ line[r] \in Nat /\ low[r] \in Nat /\ high[r] \in Nat /\ Len(tm[r]) \in Nat
      /\ line \in [Runs -> Nat] /\ low \in [Runs -> Nat] /\ high \in [Runs -> Heights]
      /\ redis \in [Heights -> Records \cup {Nil}]
  BY SMTT(30), LogTypes, HeightAssumption DEF RecordInv, TypeOK, Heights
<1>2. line[r] \in 1..Len(tm[r]) /\ pc[r] = "tm"
  BY <1>1 DEF TmLine, RecordInv, Place
<1>3. PICK n \in Nat : line[r] = n + 1
  <2>1. line[r] - 1 \in Nat /\ line[r] = (line[r] - 1) + 1
    BY <1>1, <1>2
  <2> QED
    BY <2>1
<1>4. n <= Len(tm[r]) /\ TmWritten(r, n) /\ Covered(r, n) /\ Cleared(r, n)
  <2>1. line[r] - 1 = n
    BY <1>1, <1>3
  <2> QED
    BY <1>2, <2>1 DEF InTm
<1>5. l \in TmLines /\ h \in Heights /\ h \in Nat
  BY SMTT(30), <1>2, LogTypes, HeightAssumption DEF RecordInv, TmLines, Heights
<1>6. \A j \in 1..n : tm[r][j].height \in Heights /\ tm[r][j].height \in Nat
  <2>1. \A j \in 1..n : j \in 1..Len(tm[r])
    BY <1>1, <1>4
  <2> QED
    BY SMTT(30), <2>1, LogTypes, HeightAssumption DEF RecordInv, TmLines, Heights
<1>7. redis' = [redis EXCEPT ![h] = Fresh(l)]
  BY DEF TmLine
<1>8. redis'[h] = Fresh(l) /\ \A g \in Heights : g # h => redis'[g] = redis[g]
  BY <1>1, <1>5, <1>7
<1>9. /\ Fresh(l) # Nil /\ Fresh(l).time = l.time
      /\ \A p \in Phases : Fresh(l).spent[p] = 0
  BY <1>5, FreshType, NilAssumption
<1>10. line'[r] = n + 2 /\ line'[r] - 1 = n + 1
  BY <1>1, <1>3 DEF TmLine, GoOn
<1>11. low'[r] <= low[r] /\ low'[r] <= h /\ high'[r] >= high[r] /\ high'[r] >= h
  <2>1. /\ low'[r] = IF h < low[r] THEN h ELSE low[r]
        /\ high'[r] = IF h > high[r] THEN h ELSE high[r]
    BY <1>1 DEF TmLine
  <2> HIDE DEF h
  <2> QED
    BY <1>1, <1>5, <2>1
<1>18. low'[r] \in Nat /\ high'[r] \in Nat
  <2>1. /\ low'[r] = IF h < low[r] THEN h ELSE low[r]
        /\ high'[r] = IF h > high[r] THEN h ELSE high[r]
    BY <1>1 DEF TmLine
  <2> HIDE DEF h
  <2> QED
    BY <1>1, <1>5, <2>1
<1>12. l = tm[r][n + 1] /\ n + 1 <= Len(tm[r])
  BY <1>2, <1>3
<1> HIDE DEF l, h
<1>13. h = tm[r][n + 1].height /\ l.time = tm[r][n + 1].time
  BY <1>12 DEF h
<1>14. TmWritten(r, n + 1)'
  <2>1. ASSUME NEW j \in 1..(n + 1),
               \A k \in (j + 1)..(n + 1) : tm[r][k].height # tm[r][j].height
        PROVE  redis'[tm[r][j].height] # Nil /\ redis'[tm[r][j].height].time = tm[r][j].time
    <3>1. CASE j = n + 1
      BY <1>8, <1>9, <1>13, <3>1
    <3>2. CASE j \in 1..n
      <4>1. n + 1 \in (j + 1)..(n + 1) /\ \A k \in (j + 1)..n : k \in (j + 1)..(n + 1)
        BY <3>2
      <4>2. tm[r][j].height # h
        BY <1>13, <2>1, <4>1
      <4>3. redis[tm[r][j].height] # Nil /\ redis[tm[r][j].height].time = tm[r][j].time
        BY <1>4, <2>1, <3>2, <4>1 DEF TmWritten
      <4> QED
        BY <1>6, <1>8, <3>2, <4>2, <4>3
    <3> QED
      BY <3>1, <3>2
  <2> QED
    BY <2>1 DEF TmWritten
<1>15. Covered(r, n + 1)'
  <2>1. ASSUME NEW j \in 1..(n + 1)
        PROVE  /\ redis'[tm[r][j].height] # Nil
               /\ low'[r] <= tm[r][j].height /\ tm[r][j].height <= high'[r]
    <3>1. CASE j = n + 1
      BY <1>8, <1>9, <1>11, <1>13, <3>1
    <3>2. CASE j \in 1..n
      <4>1. /\ redis[tm[r][j].height] # Nil /\ tm[r][j].height \in Heights
            /\ low[r] <= tm[r][j].height /\ tm[r][j].height <= high[r]
            /\ tm[r][j].height \in Nat
        BY <1>4, <1>6, <3>2 DEF Covered
      <4>2. redis'[tm[r][j].height] # Nil
        BY <1>8, <1>9, <4>1
      <4>3. low'[r] <= tm[r][j].height /\ tm[r][j].height <= high'[r]
        <5> DEFINE g == tm[r][j].height
        <5>1. /\ g \in Nat /\ low[r] <= g /\ g <= high[r] /\ low[r] \in Nat /\ high[r] \in Nat
              /\ low'[r] <= low[r] /\ high'[r] >= high[r]
          BY <1>1, <1>11, <4>1
        <5> HIDE DEF g
        <5>2. low'[r] <= g /\ g <= high'[r]
          BY <1>18, <5>1
        <5> QED
          BY <5>2 DEF g
      <4> QED
        BY <4>2, <4>3
    <3> QED
      BY <3>1, <3>2
  <2> QED
    BY <2>1 DEF Covered
<1>16. Cleared(r, n + 1)'
  <2>1. ASSUME NEW j \in 1..(n + 1), NEW p \in Phases
        PROVE  redis'[tm[r][j].height].spent[p] = 0
    <3>1. CASE tm[r][j].height = h
      BY <1>8, <1>9, <3>1
    <3>2. CASE tm[r][j].height # h
      <4>1. j \in 1..n
        BY <1>13, <3>2
      <4> QED
        BY <1>4, <1>6, <1>8, <3>2, <4>1 DEF Cleared
    <3> QED
      BY <3>1, <3>2
  <2> QED
    BY <2>1 DEF Cleared
<1>17. n + 1 <= Len(tm'[r])
  BY <1>12
<1> QED
  BY <1>10, <1>14, <1>15, <1>16, <1>17 DEF InTm, TmWritten, Covered, Cleared

LEMMA LineBefore ==
  ASSUME RecordInv, NEW r \in Runs, line[r] >= 1
  PROVE  \E n \in Nat : line[r] = n + 1 /\ line[r] - 1 = n
<1>1. line[r] \in Nat
  BY DEF RecordInv, TypeOK
<1> QED
  BY <1>1

\* The tendermint log stays written as long as no time of a record changes.
LEMMA TmDoneKept ==
  ASSUME RecordInv, NEW r \in Runs, TmDone(r), UNCHANGED <<tm, low, high>>,
         \A g \in Heights : redis[g] # Nil =>
           redis'[g] # Nil /\ redis'[g].time = redis[g].time
  PROVE  TmDone(r)'
<1>1. \A j \in 1..Len(tm[r]) : tm[r][j].height \in Heights
  BY LogTypes DEF RecordInv, TmLines
<1>2. TmWritten(r, Len(tm[r]))'
  BY <1>1 DEF TmDone, TmWritten
<1>3. Covered(r, Len(tm[r]))'
  BY <1>1 DEF TmDone, Covered
<1> QED
  BY <1>2, <1>3 DEF TmDone

LEMMA TmEndClean ==
  ASSUME RecordInv, NEW r \in Runs, TmEnd(r), UNCHANGED <<tm, abci>>, InTm(r)
  PROVE  InAbci(r)' /\ pc'[r] = "abci"
<1>1. /\ pc[r] = "tm" /\ line[r] \in Nat /\ Len(tm[r]) \in Nat /\ line[r] > Len(tm[r])
      /\ line'[r] = 1 /\ pc'[r] = "abci" /\ Len(abci[r]) \in Nat
      /\ UNCHANGED <<redis, low, high>>
  BY LogTypes DEF RecordInv, TypeOK, TmEnd, Goto
<1>2. line[r] - 1 = Len(tm[r])
  BY <1>1 DEF InTm
<1>3. TmDone(r) /\ Cleared(r, Len(tm[r]))
  BY <1>1, <1>2 DEF InTm, TmDone
<1>4. TmDone(r)'
  BY <1>1, <1>3, TmDoneKept
<1>5. AbciWritten(r, 0)'
  <2>1. ASSUME NEW g \in Heights, NEW p \in Phases, redis[g] # Nil,
               \E j \in 1..Len(tm[r]) : tm[r][j].height = g
        PROVE  redis[g].spent[p] = 0
    BY <1>3, <2>1 DEF Cleared
  <2> QED
    BY <1>1, <2>1 DEF AbciWritten
<1>6. line'[r] - 1 = 0 /\ 0 <= Len(abci'[r])
  BY <1>1
<1> QED
  BY <1>1, <1>4, <1>5, <1>6 DEF InAbci

\* What is written stays written while neither redis nor the logs change.
LEMMA WrittenKept ==
  ASSUME RecordInv, NEW r \in Runs, UNCHANGED <<redis, tm, abci, low, high>>
  PROVE  /\ TmDone(r) => TmDone(r)'
         /\ AbciWritten(r, Len(abci[r])) => AbciWritten(r, Len(abci[r]))'
<1>1. TmDone(r) => TmDone(r)'
  BY TmDoneKept
<1>2. AbciWritten(r, Len(abci[r])) => AbciWritten(r, Len(abci[r]))'
  BY DEF AbciWritten, About
<1> QED
  BY <1>1, <1>2

LEMMA AbciKept ==
  ASSUME NEW r, NEW n, UNCHANGED <<redis, tm, abci>>, AbciWritten(r, n)
  PROVE  AbciWritten(r, n)'
BY DEF AbciWritten, About

\* A line that is left out is about a block that has no record.
LEMMA AbciGetClean ==
  ASSUME RecordInv, NEW r \in Runs, AbciGet(r), UNCHANGED <<tm, abci>>, InAbci(r), clean'[r]
  PROVE  InAbci(r)' /\ pc'[r] \in {"abci", "set"}
<1> DEFINE l == abci[r][line[r]]
<1>1. /\ pc[r] = "abci" /\ line[r] \in 1..Len(abci[r])
      /\ pc \in [Runs -> {"idle", "tm", "abci", "set", "report", "last", "done", "killed"}]
      /\ line \in [Runs -> Nat] /\ bi \in [Runs -> Records \cup {Nil}]
      /\ clean \in [Runs -> BOOLEAN] /\ UNCHANGED <<redis, low, high>>
  <2>1. TypeOK /\ Place(r) /\ pc[r] = "abci" /\ line[r] <= Len(abci[r])
        /\ UNCHANGED <<redis, low, high>>
    BY DEF RecordInv, AbciGet
  <2>2. line[r] \in Nat /\ line[r] >= 1 /\ Len(abci[r]) \in Nat
    BY <2>1, LogTypes DEF TypeOK, Place
  <2>3. line[r] \in 1..Len(abci[r])
    BY <2>1, <2>2
  <2> QED
    BY <2>1, <2>3 DEF TypeOK
<1>2. l.height \in Heights
  BY <1>1, LogTypes DEF RecordInv, AbciLines
<1>3. PICK n \in Nat : line[r] = n + 1 /\ line[r] - 1 = n
  BY <1>1, LineBefore
<1>4. TmDone(r) /\ AbciWritten(r, n) /\ n + 1 <= Len(abci[r]) /\ Len(abci[r]) \in Nat
  <2>1. TmDone(r) /\ AbciWritten(r, line[r] - 1)
    BY <1>1 DEF InAbci
  <2>2. Len(abci[r]) \in Nat
    BY LogTypes DEF RecordInv
  <2> QED
    BY <1>1, <1>3, <2>1, <2>2
<1>5. TmDone(r)'
  <2>1. UNCHANGED <<redis, tm, abci, low, high>>
    BY SMTT(30), <1>1
  <2> QED
    BY <1>4, <2>1, WrittenKept
<1>6. CASE Got(r, l.height) /\ Goto(r, "set") /\ UNCHANGED line
  <2>1. /\ pc'[r] = "set" /\ line'[r] = n + 1 /\ line'[r] - 1 = n
        /\ bi'[r] = redis[l.height] /\ bi'[r] # Nil
    BY SMTT(30), <1>1, <1>3, <1>6 DEF Goto, Got
  <2>2. redis[l.height].height = l.height
    BY <1>2, <2>1 DEF RecordInv, RecordsFromLogs, FromLogs
  <2>3. bi'[r] = redis'[bi'[r].height]
    BY <1>1, <2>1, <2>2
  <2>4. AbciWritten(r, n)'
    BY <1>1, <1>4, AbciKept
  <2>5. n <= Len(abci'[r])
    BY <1>4
  <2> QED
    BY <1>5, <2>1, <2>3, <2>4, <2>5 DEF InAbci
<1>7. CASE GetFails(r, l.height) /\ GoOn(r) /\ UNCHANGED pc
  <2>1. ~Spoil(r)
    BY <1>1 DEF Spoil
  <2>2. redis[l.height] = Nil
    BY <1>7, <2>1 DEF GetFails
  <2>3. line'[r] = n + 2 /\ line'[r] - 1 = n + 1 /\ pc'[r] = "abci"
    BY <1>1, <1>3, <1>7 DEF GoOn
  <2>4. l.height = abci[r][n + 1].height
    BY <1>3
  <2> HIDE DEF l
  <2>5. AbciWritten(r, n + 1)'
    <3>1. ASSUME NEW g \in Heights, NEW p \in Phases, redis[g] # Nil
          PROVE  /\ \A j \in 1..(n + 1) :
                      About(r, j, g, p) /\ (\A k \in (j + 1)..(n + 1) : ~About(r, k, g, p)) =>
                        redis[g].spent[p] = abci[r][j].value
                 /\ /\ \E j \in 1..Len(tm[r]) : tm[r][j].height = g
                    /\ \A j \in 1..(n + 1) : ~About(r, j, g, p)
                    => redis[g].spent[p] = 0
      <4>1. ~About(r, n + 1, g, p)
        BY <2>2, <2>4, <3>1 DEF About
      <4>2. \A j \in 1..(n + 1) : j \in 1..n \/ j = n + 1
        OBVIOUS
      <4>3. \A j \in 1..n : \A k \in (j + 1)..n : k \in (j + 1)..(n + 1)
        OBVIOUS
      <4>4. \A j \in 1..n : j \in 1..(n + 1)
        OBVIOUS
      <4>5. /\ \A j \in 1..n :
                 About(r, j, g, p) /\ (\A k \in (j + 1)..n : ~About(r, k, g, p)) =>
                   redis[g].spent[p] = abci[r][j].value
            /\ /\ \E j \in 1..Len(tm[r]) : tm[r][j].height = g
               /\ \A j \in 1..n : ~About(r, j, g, p)
               => redis[g].spent[p] = 0
        BY <1>4, <3>1 DEF AbciWritten
      <4>6. ASSUME NEW j \in 1..(n + 1), About(r, j, g, p),
                   \A k \in (j + 1)..(n + 1) : ~About(r, k, g, p)
            PROVE  redis[g].spent[p] = abci[r][j].value
        BY <4>1, <4>2, <4>3, <4>5, <4>6
      <4>7. (\A j \in 1..(n + 1) : ~About(r, j, g, p)) => (\A j \in 1..n : ~About(r, j, g, p))
        BY <4>4
      <4> QED
        BY <4>5, <4>6, <4>7
    <3> QED
      BY <1>1, <3>1 DEF AbciWritten, About
  <2>6. n + 1 <= Len(abci'[r])
    BY <1>4
  <2> QED
    BY <1>5, <2>3, <2>5, <2>6 DEF InAbci
<1> QED
  BY <1>6, <1>7 DEF AbciGet

\* The value of the line is the last one of its phase; nothing else changes.
LEMMA AbciSetClean ==
  ASSUME RecordInv, NEW r \in Runs, AbciSet(r), UNCHANGED <<tm, abci>>, InAbci(r)
  PROVE  InAbci(r)' /\ pc'[r] = "abci"
<1> DEFINE l == abci[r][line[r]]
           h == l.height
           b == Filled(bi[r], l)
<1>1. /\ pc[r] = "set" /\ line[r] \in 1..Len(abci[r]) /\ Len(abci[r]) \in Nat
      /\ pc \in [Runs -> {"idle", "tm", "abci", "set", "report", "last", "done", "killed"}]
      /\ line \in [Runs -> Nat] /\ UNCHANGED <<low, high>>
      /\ redis \in [Heights -> Records \cup {Nil}]
      /\ bi[r] \in Records /\ bi[r].height = h /\ bi[r] = redis[h]
  <2>1. /\ pc[r] = "set" /\ UNCHANGED <<low, high>> /\ Place(r) /\ TypeOK
    BY DEF RecordInv, AbciSet
  <2>2. line[r] \in Nat /\ Len(abci[r]) \in Nat
    BY <2>1, LogTypes DEF TypeOK
  <2>3. line[r] \in 1..Len(abci[r]) /\ bi[r] # Nil /\ bi[r].height = h
    BY <2>1, <2>2 DEF Place
  <2>4. bi[r] = redis[h]
    BY <2>1, <2>3 DEF InAbci
  <2>5. bi[r] \in Records
    BY <2>1, <2>3 DEF TypeOK
  <2> HIDE DEF h
  <2> QED
    BY <2>1, <2>2, <2>3, <2>4, <2>5 DEF TypeOK
<1>2. l \in AbciLines /\ h \in Heights /\ l.phase \in Phases
  BY <1>1, LogTypes DEF RecordInv, AbciLines
<1>3. PICK n \in Nat : line[r] = n + 1 /\ line[r] - 1 = n
  BY <1>1, LineBefore
<1>4. TmDone(r) /\ AbciWritten(r, n) /\ n + 1 <= Len(abci[r])
  <2>1. TmDone(r) /\ AbciWritten(r, line[r] - 1)
    BY <1>1 DEF InAbci
  <2> QED
    BY <1>1, <1>3, <2>1
<1>5. /\ b # Nil /\ b.time = bi[r].time
      /\ \A p \in Phases : b.spent[p] = IF p = l.phase THEN l.value ELSE bi[r].spent[p]
  <2> HIDE DEF l
  <2> QED
    BY SMTT(30), <1>1, <1>2, FilledType, NilAssumption
<1>6. redis' = [redis EXCEPT ![h] = b]
  BY <1>1 DEF AbciSet
<1>7. redis'[h] = b /\ \A g \in Heights : g # h => redis'[g] = redis[g]
  <2> HIDE DEF h, b
  <2> QED
    BY <1>1, <1>2, <1>6
<1>8. TmDone(r)'
  <2>1. \A g \in Heights : redis[g] # Nil =>
          redis'[g] # Nil /\ redis'[g].time = redis[g].time
    <3> HIDE DEF h, b
    <3> QED
      BY <1>1, <1>5, <1>7
  <2> QED
    BY <1>1, <1>4, <2>1, TmDoneKept
<1>9. line'[r] - 1 = n + 1 /\ pc'[r] = "abci"
  BY <1>1, <1>3 DEF AbciSet, GoOn, Goto
<1>10. h = abci[r][n + 1].height /\ l.phase = abci[r][n + 1].phase
       /\ l.value = abci[r][n + 1].value
  BY <1>3
<1>11. redis[h] # Nil
  BY <1>1, NilAssumption
<1> HIDE DEF b, h, l
<1>12. ASSUME NEW g \in Heights, NEW p \in Phases, redis'[g] # Nil
       PROVE  /\ \A j \in 1..(n + 1) :
                   About(r, j, g, p) /\ (\A k \in (j + 1)..(n + 1) : ~About(r, k, g, p)) =>
                     redis'[g].spent[p] = abci[r][j].value
              /\ /\ \E j \in 1..Len(tm[r]) : tm[r][j].height = g
                 /\ \A j \in 1..(n + 1) : ~About(r, j, g, p)
                 => redis'[g].spent[p] = 0
  <2>1. redis[g] # Nil
    BY <1>7, <1>11, <1>12
  <2>2. /\ \A j \in 1..n :
             About(r, j, g, p) /\ (\A k \in (j + 1)..n : ~About(r, k, g, p)) =>
               redis[g].spent[p] = abci[r][j].value
        /\ /\ \E j \in 1..Len(tm[r]) : tm[r][j].height = g
           /\ \A j \in 1..n : ~About(r, j, g, p)
           => redis[g].spent[p] = 0
    BY <1>4, <2>1 DEF AbciWritten
  <2>3. /\ \A j \in 1..(n + 1) : j \in 1..n \/ j = n + 1
        /\ \A j \in 1..n : \A k \in (j + 1)..n : k \in (j + 1)..(n + 1)
        /\ \A j \in 1..n : j \in 1..(n + 1)
        /\ \A j \in 1..n : n + 1 \in (j + 1)..(n + 1)
        /\ n + 1 \in 1..(n + 1)
    OBVIOUS
  <2>4. CASE g = h /\ p = l.phase
    <3>1. About(r, n + 1, g, p) /\ redis'[g].spent[p] = abci[r][n + 1].value
      BY <1>5, <1>7, <1>10, <2>4 DEF About
    <3> QED
      BY SMTT(30), <2>3, <3>1
  <2>5. CASE ~(g = h /\ p = l.phase)
    <3>1. ~About(r, n + 1, g, p)
      BY <1>10, <2>5 DEF About
    <3>2. redis'[g].spent[p] = redis[g].spent[p]
      BY <1>1, <1>5, <1>7, <2>5
    <3>3. ASSUME NEW j \in 1..(n + 1), About(r, j, g, p),
                 \A k \in (j + 1)..(n + 1) : ~About(r, k, g, p)
          PROVE  redis'[g].spent[p] = abci[r][j].value
      BY <2>2, <2>3, <3>1, <3>2, <3>3
    <3>4. (\A j \in 1..(n + 1) : ~About(r, j, g, p)) => (\A j \in 1..n : ~About(r, j, g, p))
      BY <2>3
    <3> QED
      BY <2>2, <3>2, <3>3, <3>4
  <2> QED
    BY <2>4, <2>5
<1>13. AbciWritten(r, n + 1)'
  BY <1>12 DEF AbciWritten, About
<1>14. n + 1 <= Len(abci'[r])
  BY <1>4
<1> QED
  BY <1>8, <1>9, <1>13, <1>14 DEF InAbci

\* The report starts at the lowest block, with nothing reported.
LEMMA AbciEndClean ==
  ASSUME RecordInv, NEW r \in Runs, AbciEnd(r), UNCHANGED <<tm, abci>>, InAbci(r), Unreported(r)
  PROVE  InReport(r)' /\ pc'[r] = "report"
<1>1. /\ pc[r] = "abci" /\ line[r] \in Nat /\ line[r] > Len(abci[r]) /\ Len(abci[r]) \in Nat
      /\ line'[r] = low[r] /\ pc'[r] = "report" /\ low[r] \in Nat
      /\ UNCHANGED <<redis, low, high, report>>
  BY LogTypes DEF RecordInv, TypeOK, AbciEnd, Goto
<1>2. line[r] - 1 = Len(abci[r])
  BY SMTT(30), <1>1 DEF InAbci
<1>3. TmDone(r) /\ AbciWritten(r, Len(abci[r]))
  BY <1>1, <1>2 DEF InAbci
<1>4. TmDone(r)' /\ AbciWritten(r, Len(abci[r]))'
  BY <1>1, <1>3, WrittenKept
<1>5. ReportedBefore(r, line[r])'
  <2>1. \A h \in low'[r]..(line'[r] - 1) : FALSE
    BY <1>1
  <2> QED
    BY <2>1 DEF ReportedBefore
<1>6. \A h \in Heights : report'[r][h] = Nil
  BY <1>1 DEF Unreported
<1>7. low'[r] <= line'[r]
  BY <1>1
<1> QED
  BY <1>1, <1>4, <1>5, <1>6, <1>7 DEF InReport

\* The report of one block.
LEMMA ReportedNext ==
  ASSUME RecordInv, NEW r \in Runs, UNCHANGED <<redis, low>>,
         line[r] \in Heights, line'[r] = line[r] + 1, low[r] <= line[r], ReportedBefore(r, line[r]),
         \A h \in Heights : h >= line[r] => report[r][h] = Nil,
         report'[r][line[r]] = IF redis[line[r]] = Nil THEN Nil ELSE BlockTime(line[r]),
         \A h \in Heights : h # line[r] => report'[r][h] = report[r][h]
  PROVE  /\ low'[r] <= line'[r] /\ ReportedBefore(r, line[r])'
         /\ \A h \in Heights : h >= line'[r] => report'[r][h] = Nil
<1>1. /\ line[r] \in Nat /\ line[r] <= MaxHeight /\ low[r] \in Nat /\ low'[r] = low[r]
      /\ MaxHeight \in Nat
  BY HeightAssumption DEF RecordInv, TypeOK, Heights
<1>2. ASSUME NEW h \in low[r]..line[r]
      PROVE  report'[r][h] = IF redis[h] = Nil THEN Nil ELSE BlockTime(h)
  <2>1. h \in Heights
    BY <1>1 DEF Heights
  <2>2. CASE h = line[r]
    BY <2>2
  <2>3. CASE h # line[r]
    <3>1. h \in low[r]..(line[r] - 1)
      BY <1>1, <2>3
    <3>2. report[r][h] = IF redis[h] = Nil THEN Nil ELSE BlockTime(h)
      BY <3>1 DEF ReportedBefore
    <3>3. report'[r][h] = report[r][h]
      BY <2>1, <2>3
    <3> QED
      BY <3>2, <3>3
  <2> QED
    BY <2>2, <2>3
<1>3. line'[r] - 1 = line[r] /\ low'[r] <= line'[r]
  BY <1>1
<1>4. ReportedBefore(r, line[r])'
  BY <1>1, <1>2, <1>3 DEF ReportedBefore, BlockTime
<1>5. ASSUME NEW h \in Heights, h >= line'[r] PROVE report'[r][h] = Nil
  <2>1. h >= line[r] /\ h # line[r]
    BY <1>1, <1>5 DEF Heights
  <2> QED
    BY <2>1
<1> QED
  BY <1>3, <1>4, <1>5

LEMMA ReportGetClean ==
  ASSUME RecordInv, NEW r \in Runs, ReportGet(r), UNCHANGED <<tm, abci>>, InReport(r), clean'[r]
  PROVE  InReport(r)' /\ pc'[r] \in {"report", "last"}
<1>1. /\ pc[r] = "report" /\ line[r] \in Nat /\ line[r] <= high[r]
      /\ low[r] <= line[r] /\ ReportedBefore(r, line[r])
      /\ \A h \in Heights : h >= line[r] => report[r][h] = Nil
      /\ pc \in [Runs -> {"idle", "tm", "abci", "set", "report", "last", "done", "killed"}]
      /\ line \in [Runs -> Nat] /\ bi \in [Runs -> Records \cup {Nil}]
      /\ report \in [Runs -> [Heights -> Nat \cup {Nil}]]
      /\ clean \in [Runs -> BOOLEAN] /\ UNCHANGED <<redis, low, high>>
  BY DEF RecordInv, TypeOK, ReportGet, InReport
<1>2. line[r] \in Heights
  BY <1>1, HeightAssumption DEF RecordInv, TypeOK, Heights
<1>3. TmDone(r)' /\ AbciWritten(r, Len(abci[r]))'
  BY <1>1, WrittenKept DEF InReport
<1>4. CASE Got(r, line[r]) /\ line[r] = 0 /\ Reported(r, 0)
  <2>1. line'[r] = line[r] + 1 /\ pc'[r] = "report"
    BY <1>1, <1>4 DEF Reported, GoOn, Goto
  <2>2. /\ report'[r][line[r]] = 0
        /\ \A h \in Heights : h # line[r] => report'[r][h] = report[r][h]
    BY <1>1, <1>2, <1>4 DEF Reported
  <2>3. redis[line[r]] # Nil /\ BlockTime(line[r]) = 0
    BY <1>4 DEF Got, BlockTime
  <2>4. /\ low'[r] <= line'[r] /\ ReportedBefore(r, line[r])'
        /\ \A h \in Heights : h >= line'[r] => report'[r][h] = Nil
    BY <1>1, <1>2, <2>1, <2>2, <2>3, ReportedNext
  <2> QED
    BY <1>3, <2>1, <2>4 DEF InReport
<1>5. CASE Got(r, line[r]) /\ Goto(r, "last") /\ UNCHANGED <<line, report>>
  <2>1. pc'[r] = "last" /\ line'[r] = line[r] /\ bi'[r] = redis[line[r]]
    BY <1>1, <1>5 DEF Got, Goto
  <2>2. ReportedBefore(r, line[r])'
    BY <1>1, <1>5 DEF ReportedBefore, BlockTime
  <2> QED
    BY <1>1, <1>3, <1>5, <2>1, <2>2 DEF InReport
<1>6. CASE GetFails(r, line[r]) /\ GoOn(r) /\ UNCHANGED <<pc, report>>
  <2>1. ~Spoil(r)
    BY <1>1 DEF Spoil
  <2>2. redis[line[r]] = Nil
    BY <1>6, <2>1 DEF GetFails
  <2>3. line'[r] = line[r] + 1 /\ pc'[r] = "report" /\ report' = report
    BY <1>1, <1>6 DEF GoOn
  <2>4. report[r][line[r]] = Nil
    BY <1>1, <1>2
  <2>5. /\ low'[r] <= line'[r] /\ ReportedBefore(r, line[r])'
        /\ \A h \in Heights : h >= line'[r] => report'[r][h] = Nil
    BY SMTT(30), <1>1, <1>2, <2>2, <2>3, <2>4, ReportedNext
  <2> QED
    BY <1>3, <2>3, <2>5 DEF InReport
<1> QED
  BY <1>4, <1>5, <1>6 DEF ReportGet

LEMMA ReportLastClean ==
  ASSUME RecordInv, NEW r \in Runs, ReportLast(r), UNCHANGED <<tm, abci>>, InReport(r), clean'[r]
  PROVE  InReport(r)' /\ pc'[r] = "report"
<1>1. /\ pc[r] = "last" /\ line[r] \in 1..MaxHeight
      /\ low[r] <= line[r] /\ ReportedBefore(r, line[r])
      /\ \A h \in Heights : h >= line[r] => report[r][h] = Nil
      /\ bi[r] = redis[line[r]] /\ bi[r] # Nil
      /\ pc \in [Runs -> {"idle", "tm", "abci", "set", "report", "last", "done", "killed"}]
      /\ line \in [Runs -> Nat]
      /\ report \in [Runs -> [Heights -> Nat \cup {Nil}]]
      /\ clean \in [Runs -> BOOLEAN] /\ UNCHANGED <<redis, low, high>>
  BY DEF RecordInv, TypeOK, ReportLast, InReport, Place
<1>2. line[r] \in Heights /\ line[r] # 0
  BY <1>1, HeightAssumption DEF Heights
<1>3. TmDone(r)' /\ AbciWritten(r, Len(abci[r]))'
  BY <1>1, WrittenKept DEF InReport
<1>4. ASSUME NEW t, Reported(r, t), t = BlockTime(line[r])
      PROVE  InReport(r)' /\ pc'[r] = "report"
  <2>1. line'[r] = line[r] + 1 /\ pc'[r] = "report"
    BY <1>1, <1>4 DEF Reported, GoOn, Goto
  <2>2. /\ report'[r][line[r]] = BlockTime(line[r])
        /\ \A h \in Heights : h # line[r] => report'[r][h] = report[r][h]
    BY <1>1, <1>2, <1>4 DEF Reported
  <2>3. redis[line[r]] # Nil
    BY <1>1
  <2>4. /\ low'[r] <= line'[r] /\ ReportedBefore(r, line[r])'
        /\ \A h \in Heights : h >= line'[r] => report'[r][h] = Nil
    BY <1>1, <1>2, <2>1, <2>2, <2>3, ReportedNext
  <2> QED
    BY <1>3, <2>1, <2>4 DEF InReport
<1>5. CASE redis[line[r] - 1] # Nil /\ Reported(r, Elapsed(bi[r], redis[line[r] - 1]))
  <2>1. BlockTime(line[r]) = Elapsed(bi[r], redis[line[r] - 1])
    BY <1>1, <1>2, <1>5 DEF BlockTime
  <2> QED
    BY <1>4, <1>5, <2>1
<1>6. CASE GetFails(r, line[r] - 1) /\ Reported(r, 0)
  <2>1. ~Spoil(r)
    BY <1>1 DEF Spoil
  <2>2. BlockTime(line[r]) = 0
    BY <1>2, <1>6, <2>1 DEF GetFails, BlockTime
  <2> QED
    BY <1>4, <1>6, <2>2
<1> QED
  BY <1>5, <1>6 DEF ReportLast

LEMMA ReportEndClean ==
  ASSUME RecordInv, NEW r \in Runs, ReportEnd(r), UNCHANGED <<tm, abci>>, InReport(r)
  PROVE  InReport(r)' /\ pc'[r] = "done"
<1>1. /\ pc[r] = "report" /\ line[r] \in Nat /\ line[r] > high[r] /\ high[r] \in Nat
      /\ low[r] \in Nat /\ ReportedBefore(r, line[r]) /\ pc'[r] = "done"
      /\ UNCHANGED <<redis, low, high, report>>
  BY HeightAssumption DEF RecordInv, TypeOK, ReportEnd, InReport, Goto, Heights
<1>2. TmDone(r)' /\ AbciWritten(r, Len(abci[r]))'
  BY <1>1, WrittenKept DEF InReport
<1>3. \A h \in low[r]..high[r] : h \in low[r]..(line[r] - 1)
  BY <1>1
<1>4. ReportedBefore(r, high[r] + 1)'
  <2>1. (high[r] + 1) - 1 = high[r]
    BY <1>1
  <2>2. \A h \in low[r]..high[r] :
          report[r][h] = IF redis[h] = Nil THEN Nil ELSE BlockTime(h)
    BY <1>1, <1>3 DEF ReportedBefore
  <2> QED
    BY <1>1, <2>1, <2>2 DEF ReportedBefore, BlockTime
<1> QED
  BY <1>1, <1>2, <1>4 DEF InReport

LEMMA StartClean ==
  ASSUME RecordInv, NEW r \in Runs, Start(r), UNCHANGED <<tm, abci>>, Unreported(r)
  PROVE  InTm(r)' /\ pc'[r] = "tm"
<1>1. line'[r] - 1 = 0 /\ pc'[r] = "tm" /\ tm' = tm /\ 0 <= Len(tm[r])
  BY LogTypes DEF RecordInv, TypeOK, Start, Unreported, Goto
<1>2. TmWritten(r, 0)' /\ Covered(r, 0)' /\ Cleared(r, 0)'
  BY DEF TmWritten, Covered, Cleared
<1> QED
  BY <1>1, <1>2 DEF InTm, TmWritten, Covered, Cleared

LEMMA UnreportedStep ==
  ASSUME RecordInv, NEW r \in Runs, Step(r), \A q \in Runs : Unreported(q)
  PROVE  \A q \in Runs : Unreported(q)'
<1>1. ASSUME NEW q \in Runs, q # r PROVE Unreported(q)'
  BY <1>1, OtherRuns DEF RecordInv, Unreported
<1>2. pc \in [Runs -> {"idle", "tm", "abci", "set", "report", "last", "done", "killed"}]
  BY DEF RecordInv, TypeOK
<1>3. CASE Start(r) \/ TmLine(r) \/ TmEnd(r) \/ AbciGet(r) \/ AbciSet(r)
  <2>1. report' = report /\ pc[r] \in {"idle", "tm", "abci", "set"}
    BY SMTT(30), <1>3 DEF Start, TmLine, TmEnd, AbciGet, AbciSet
  <2>2. pc'[r] # "idle"
    BY <1>2, <1>3 DEF Start, TmLine, TmEnd, AbciGet, AbciSet, Goto
  <2>3. Unreported(r)'
    BY <2>1, <2>2 DEF Unreported
  <2> QED
    BY <1>1, <2>3
<1>4. CASE AbciEnd(r) \/ ReportGet(r) \/ ReportLast(r) \/ ReportEnd(r) \/ Die(r)
  <2>1. pc'[r] \in {"report", "last", "done", "killed"}
    BY <1>2, <1>4 DEF AbciEnd, ReportGet, ReportLast, ReportEnd, Die, Reported, Goto
  <2>2. Unreported(r)'
    BY <2>1 DEF Unreported
  <2> QED
    BY <1>1, <2>2
<1> QED
  BY <1>3, <1>4 DEF Step

\* A run is clean after its own step only, while no other run is active.
LEMMA CleanStays ==
  ASSUME CleanInv, NEW r \in Runs, Step(r), NEW q \in Runs, clean'[q]
  PROVE  q = r /\ Alone(r)' /\ (Start(r) \/ clean[r])
<1>1. /\ clean \in [Runs -> BOOLEAN]
      /\ pc \in [Runs -> {"idle", "tm", "abci", "set", "report", "last", "done", "killed"}]
  BY DEF CleanInv, RecordInv, TypeOK
<1>2. CASE Start(r)
  <2>1. clean'[q] = (q = r /\ \A p \in Runs : ~Active(p))
    BY <1>2 DEF Start
  <2>2. q = r /\ \A p \in Runs : ~Active(p)
    BY <2>1
  <2>3. \A p \in Runs : p # r => pc'[p] = pc[p]
    BY OtherRuns DEF CleanInv, RecordInv
  <2>4. pc'[r] = "tm"
    BY <1>1, <1>2 DEF Start, Goto
  <2> QED
    BY <1>2, <2>2, <2>3, <2>4 DEF Alone, Active
<1>3. CASE ~Start(r)
  <2>1. clean' = clean \/ Spoil(r)
    BY <1>3 DEF Step, TmLine, TmEnd, AbciGet, AbciSet, AbciEnd, ReportGet, ReportLast,
                ReportEnd, Die, Got, GetFails
  <2>2. clean[q]
    BY <1>1, <2>1 DEF Spoil
  <2>3. Alone(q)
    BY SMTT(30), <2>2 DEF CleanInv
  <2>4. Active(r)
    BY <1>3 DEF Active, Step, TmLine, TmEnd, AbciGet, AbciSet, AbciEnd, ReportGet, ReportLast,
                ReportEnd, Die
  <2>5. q = r
    BY SMTT(30), <2>3, <2>4 DEF Alone
  <2>6. \A p \in Runs : p # r => pc'[p] = pc[p]
    BY OtherRuns DEF CleanInv, RecordInv
  <2>7. pc'[r] # "idle"
    BY <1>1, <1>3, <2>4 DEF Active, Step, TmLine, TmEnd, AbciGet, AbciSet, AbciEnd, ReportGet,
                            ReportLast, ReportEnd, Die, Reported, Goto
  <2> QED
    BY SMTT(30), <2>2, <2>3, <2>5, <2>6, <2>7 DEF Alone, Active
<1> QED
  BY <1>2, <1>3

\* Each action leaves a clean run where it says everything that it has read.
LEMMA CleanRunStep ==
  ASSUME CleanInv, NEW r \in Runs, Step(r), clean'[r]
  PROVE  InTm(r)' /\ InAbci(r)' /\ InReport(r)'
<1>1. /\ RecordInv /\ Unreported(r) /\ UNCHANGED <<tm, abci>>
      /\ Start(r) \/ (InTm(r) /\ InAbci(r) /\ InReport(r))
      /\ pc \in [Runs -> {"idle", "tm", "abci", "set", "report", "last", "done", "killed"}]
  <2>1. Start(r) \/ clean[r]
    BY CleanStays
  <2> QED
    BY <2>1 DEF CleanInv, RecordInv, TypeOK, Step, logs
<1>2. CASE Start(r)
  BY <1>1, <1>2, StartClean DEF InAbci, InReport
<1>3. CASE TmLine(r)
  <2>1. pc'[r] = "tm" /\ InTm(r)'
    BY <1>1, <1>3, TmLineClean DEF TmLine, Start
  <2> QED
    BY SMTT(30), <2>1 DEF InAbci, InReport
<1>4. CASE TmEnd(r)
  <2>1. pc'[r] = "abci" /\ InAbci(r)'
    BY <1>1, <1>4, TmEndClean DEF TmEnd, Start
  <2> QED
    BY <2>1 DEF InTm, InReport
<1>5. CASE AbciGet(r)
  <2>1. pc'[r] \in {"abci", "set"} /\ InAbci(r)'
    BY <1>1, <1>5, AbciGetClean DEF AbciGet, Start
  <2> QED
    BY <2>1 DEF InTm, InReport
<1>6. CASE AbciSet(r)
  <2>1. pc'[r] = "abci" /\ InAbci(r)'
    BY <1>1, <1>6, AbciSetClean DEF AbciSet, Start
  <2> QED
    BY <2>1 DEF InTm, InReport
<1>7. CASE AbciEnd(r)
  <2>1. pc'[r] = "report" /\ InReport(r)'
    BY <1>1, <1>7, AbciEndClean DEF AbciEnd, Start
  <2> QED
    BY <2>1 DEF InTm, InAbci
<1>8. CASE ReportGet(r)
  <2>1. pc'[r] \in {"report", "last"} /\ InReport(r)'
    BY <1>1, <1>8, ReportGetClean DEF ReportGet, Start
  <2> QED
    BY <2>1 DEF InTm, InAbci
<1>9. CASE ReportLast(r)
  <2>1. pc'[r] = "report" /\ InReport(r)'
    BY <1>1, <1>9, ReportLastClean DEF ReportLast, Start
  <2> QED
    BY <2>1 DEF InTm, InAbci
<1>10. CASE ReportEnd(r)
  <2>1. pc'[r] = "done" /\ InReport(r)'
    BY <1>1, <1>10, ReportEndClean DEF ReportEnd, Start
  <2> QED
    BY <2>1 DEF InTm, InAbci
<1>11. CASE Die(r)
  <2>1. pc'[r] = "killed"
    BY <1>1, <1>11 DEF Die, Goto
  <2> QED
    BY <2>1 DEF InTm, InAbci, InReport
<1> QED
  BY <1>2, <1>3, <1>4, <1>5, <1>6, <1>7, <1>8, <1>9, <1>10, <1>11 DEF Step

LEMMA CleanInit == Init => CleanInv
<1> SUFFICES ASSUME Init PROVE CleanInv
  OBVIOUS
<1>1. ASSUME NEW r \in Runs PROVE Unreported(r) /\ ~clean[r]
  <2>1. pc[r] = "idle" /\ line[r] = 1 /\ ~clean[r] /\ \A h \in Heights : report[r][h] = Nil
    BY DEF Init
  <2> QED
    BY <2>1 DEF Unreported
<1> QED
  BY <1>1, RecordInit DEF CleanInv

LEMMA CleanStep == CleanInv /\ [Next]_vars => CleanInv'
<1> SUFFICES ASSUME CleanInv, [Next]_vars PROVE CleanInv'
  OBVIOUS
<1>1. RecordInv /\ RecordInv' /\ \A r \in Runs : Unreported(r)
  BY RecordStep DEF CleanInv
<1>2. ASSUME NEW r \in Runs, Step(r) PROVE CleanInv'
  <2>1. \A q \in Runs : Unreported(q)'
    BY <1>1, <1>2, UnreportedStep
  <2>2. ASSUME NEW q \in Runs, clean'[q]
        PROVE  Alone(q)' /\ InTm(q)' /\ InAbci(q)' /\ InReport(q)'
    BY <1>2, <2>2, CleanStays, CleanRunStep
  <2> QED
    BY <1>1, <2>1, <2>2 DEF CleanInv
<1>3. CASE UNCHANGED vars
  <2>1. UNCHANGED <<redis, tm, abci, pc, line, low, high, bi, report, clean>>
    BY <1>3 DEF vars, logs, locals
  <2>2. ASSUME NEW r \in Runs PROVE Unreported(r)' /\ (Alone(r) => Alone(r)')
    BY SMTT(30), <1>1, <2>1 DEF Unreported, Alone, Active
  <2>3. ASSUME NEW r \in Runs PROVE InTm(r) => InTm(r)'
    BY SMTT(30), <2>1 DEF InTm, TmWritten, Covered, Cleared
  <2>4. ASSUME NEW r \in Runs PROVE InAbci(r) => InAbci(r)'
    BY SMTT(30), <2>1 DEF InAbci, TmDone, TmWritten, Covered, AbciWritten, About
  <2>5. ASSUME NEW r \in Runs PROVE InReport(r) => InReport(r)'
    BY <2>1 DEF InReport, TmDone, TmWritten, Covered, AbciWritten, About, ReportedBefore, BlockTime
  <2> QED
    BY <1>1, <2>1, <2>2, <2>3, <2>4, <2>5 DEF CleanInv
<1> QED
  BY <1>2, <1>3 DEF Next, Finished

\* Whatever earlier runs lost or left half done, a run that is alone and reads
\* redis without an error leaves and reports all that its logs say.
THEOREM CleanRunRepairs == Spec => []CleanRunComplete
<1>1. ASSUME CleanInv PROVE CleanRunComplete
  <2>1. SUFFICES ASSUME NEW r \in Runs, clean[r], pc[r] = "done"
                 PROVE  /\ TmWritten(r, Len(tm[r])) /\ AbciWritten(r, Len(abci[r]))
                        /\ ReportedBefore(r, high[r] + 1)
                        /\ \A j \in 1..Len(tm[r]) : report[r][tm[r][j].height] # Nil
    BY DEF CleanRunComplete
  <2>2. /\ RecordInv /\ TmDone(r) /\ AbciWritten(r, Len(abci[r]))
        /\ ReportedBefore(r, high[r] + 1)
    BY <1>1, <2>1 DEF CleanInv, InReport
  <2>3. ASSUME NEW j \in 1..Len(tm[r]) PROVE report[r][tm[r][j].height] # Nil
    <3> DEFINE h == tm[r][j].height
    <3>1. /\ h \in Heights /\ h \in Nat /\ redis[h] # Nil /\ low[r] <= h /\ h <= high[r]
          /\ low[r] \in Nat /\ high[r] \in Nat
      BY SMTT(30), <2>2, LogTypes, HeightAssumption
         DEF TmDone, Covered, RecordInv, TypeOK, TmLines, Heights
    <3>2. h \in low[r]..((high[r] + 1) - 1)
      BY SMTT(30), <3>1
    <3>3. report[r][h] = BlockTime(h)
      BY <2>2, <3>1, <3>2 DEF ReportedBefore
    <3>4. BlockTime(h) \in Nat
      <4>1. CASE h # 0 /\ redis[h - 1] # Nil
        <5>1. h - 1 \in Heights
          BY SMTT(30), <3>1, <4>1, HeightAssumption DEF Heights
        <5>2. redis[h] \in Records /\ redis[h - 1] \in Records
          BY SMTT(30), <2>2, <3>1, <4>1, <5>1 DEF RecordInv, TypeOK
        <5> QED
          BY <4>1, <5>2, ElapsedType DEF BlockTime
      <4>2. CASE ~(h # 0 /\ redis[h - 1] # Nil)
        BY <4>2 DEF BlockTime
      <4> QED
        BY <4>1, <4>2
    <3> QED
      BY <3>3, <3>4, NilAssumption
  <2> QED
    BY <2>2, <2>3 DEF TmDone
<1>2. CleanInv => CleanRunComplete
  BY <1>1
<1> QED
  BY CleanInit, CleanStep, <1>2, PTL DEF Spec
===========================================================================
