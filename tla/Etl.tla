-------------------------------- MODULE Etl --------------------------------
(***************************************************************************)
(* etl_cmd (src/feth/src/commands/mod.rs) and Db (src/agent/src/db.rs): a  *)
(* process reads a tendermint log and writes one redis record per executed *)
(* block, then reads an abci log and fills in the phases of those blocks,  *)
(* by a GET and a SET for each line, and at last reports the blocks of the *)
(* tendermint log.  Redis outlives the processes; they may overlap, and    *)
(* may be killed at any step.                                              *)
(***************************************************************************)
EXTENDS Naturals, Sequences

CONSTANTS
  Runs,       \* the processes
  MaxHeight,  \* the largest block number in the logs
  Times,      \* the block times in the logs
  Values,     \* the durations in the logs
  TmLogs,     \* the "Executed block" lines that a tendermint log may have
  AbciLogs,   \* the "tps," lines that an abci log may have
  Nil         \* redis has nothing under a key, or a block is not reported

Heights == 0..MaxHeight
Phases == {"begin", "end", "commit"}
TmLines == [height : Heights, time : Times]
AbciLines == [height : Heights, phase : Phases, value : Values]
Records == [height : Heights, time : Times, spent : [Phases -> Values \cup {0}]]

ASSUME HeightAssumption == MaxHeight \in Nat
ASSUME TimesAssumption == Times \subseteq Nat /\ Values \subseteq Nat
ASSUME LogsAssumption == TmLogs \subseteq Seq(TmLines) /\ AbciLogs \subseteq Seq(AbciLines)
ASSUME NilAssumption == Nil \notin Records /\ Nil \notin Nat

VARIABLES
  redis,   \* redis[h]: the record under key h
  tm,      \* tm[r]: the tendermint log of run r; none, or an unreadable one, is empty
  abci,    \* abci[r]: its abci log, likewise
  pc,      \* where each run is
  line,    \* its next line, and its next height in the report
  low,     \* min_height: u64::MAX is MaxHeight + 1 here
  high,    \* max_height
  bi,      \* the record it has got
  report,  \* report[r][h]: the block time reported for block h
  clean    \* history: r met no failed GET, and no other run overlapped or followed

logs == <<tm, abci>>
locals == <<pc, line, low, high, bi, report, clean>>
vars == <<redis, logs, locals>>

Active(r) == pc[r] \notin {"idle", "done", "killed"}

Init ==
  /\ redis = [h \in Heights |-> Nil]
  /\ tm \in [Runs -> TmLogs]
  /\ abci \in [Runs -> AbciLogs]
  /\ pc = [r \in Runs |-> "idle"]
  /\ line = [r \in Runs |-> 1]
  /\ low = [r \in Runs |-> MaxHeight + 1]
  /\ high = [r \in Runs |-> 0]
  /\ bi = [r \in Runs |-> Nil]
  /\ report = [r \in Runs |-> [h \in Heights |-> Nil]]
  /\ clean = [r \in Runs |-> FALSE]

Goto(r, l) == pc' = [pc EXCEPT ![r] = l]
GoOn(r) == line' = [line EXCEPT ![r] = @ + 1]
Spoil(r) == clean' = [clean EXCEPT ![r] = FALSE]

Start(r) ==
  /\ pc[r] = "idle"
  /\ Goto(r, "tm")
  /\ clean' = [q \in Runs |-> q = r /\ \A p \in Runs : ~Active(p)]
  /\ UNCHANGED <<redis, line, low, high, bi, report>>

Fresh(l) == [height |-> l.height, time |-> l.time, spent |-> [p \in Phases |-> 0]]

\* Mutant of TmLine: a record that is there already is kept (SET with NX).
TmLineIfAbsent(r) ==
  /\ pc[r] = "tm" /\ line[r] <= Len(tm[r])
  /\ LET l == tm[r][line[r]] IN
       /\ low' = [low EXCEPT ![r] = IF l.height < @ THEN l.height ELSE @]
       /\ high' = [high EXCEPT ![r] = IF l.height > @ THEN l.height ELSE @]
       /\ redis' = [redis EXCEPT ![l.height] = IF @ = Nil THEN Fresh(l) ELSE @]
  /\ GoOn(r)
  /\ UNCHANGED <<pc, bi, report, clean>>

\* A block that is executed again, by this log or a later one, starts afresh.
TmLine(r) ==
  /\ pc[r] = "tm" /\ line[r] <= Len(tm[r])
  /\ LET l == tm[r][line[r]] IN
       /\ low' = [low EXCEPT ![r] = IF l.height < @ THEN l.height ELSE @]
       /\ high' = [high EXCEPT ![r] = IF l.height > @ THEN l.height ELSE @]
       /\ redis' = [redis EXCEPT ![l.height] = Fresh(l)]
  /\ GoOn(r)
  /\ UNCHANGED <<pc, bi, report, clean>>

TmEnd(r) ==
  /\ pc[r] = "tm" /\ line[r] > Len(tm[r])
  /\ Goto(r, "abci")
  /\ line' = [line EXCEPT ![r] = 1]
  /\ UNCHANGED <<redis, low, high, bi, report, clean>>

\* GET: the record, or an error, which a key without a record is as well.
Got(r, h) == redis[h] # Nil /\ bi' = [bi EXCEPT ![r] = redis[h]] /\ UNCHANGED clean
GetFails(r, h) ==
  /\ \/ redis[h] = Nil /\ UNCHANGED clean
     \/ Spoil(r)
  /\ UNCHANGED bi

\* Mutant of AbciGet: a failed GET goes on with the record of the last line.
AbciGetStale(r) ==
  /\ pc[r] = "abci" /\ line[r] <= Len(abci[r])
  /\ LET h == abci[r][line[r]].height IN
       Got(r, h) \/ (bi[r] # Nil /\ GetFails(r, h))
  /\ Goto(r, "set")
  /\ UNCHANGED <<redis, line, low, high, report>>

\* A line whose record cannot be read is left out.
AbciGet(r) ==
  /\ pc[r] = "abci" /\ line[r] <= Len(abci[r])
  /\ LET h == abci[r][line[r]].height IN
       \/ Got(r, h) /\ Goto(r, "set") /\ UNCHANGED line
       \/ GetFails(r, h) /\ GoOn(r) /\ UNCHANGED pc
  /\ UNCHANGED <<redis, low, high, report>>

Filled(b, l) == [b EXCEPT !.spent[l.phase] = l.value]

AbciSet(r) ==
  /\ pc[r] = "set"
  /\ redis' = [redis EXCEPT ![bi[r].height] = Filled(bi[r], abci[r][line[r]])]
  /\ Goto(r, "abci") /\ GoOn(r)
  /\ UNCHANGED <<low, high, bi, report, clean>>

AbciEnd(r) ==
  /\ pc[r] = "abci" /\ line[r] > Len(abci[r])
  /\ Goto(r, "report")
  /\ line' = [line EXCEPT ![r] = low[r]]
  /\ UNCHANGED <<redis, low, high, bi, report, clean>>

Reported(r, t) ==
  /\ report' = [report EXCEPT ![r][line[r]] = t]
  /\ GoOn(r) /\ Goto(r, "report")

\* The record of a block of min_height..=max_height, then the one before it.
ReportGet(r) ==
  /\ pc[r] = "report" /\ line[r] <= high[r]
  /\ \/ /\ Got(r, line[r])
        /\ IF line[r] = 0 THEN Reported(r, 0)
           ELSE Goto(r, "last") /\ UNCHANGED <<line, report>>
     \/ GetFails(r, line[r]) /\ GoOn(r) /\ UNCHANGED <<pc, report>>
  /\ UNCHANGED <<redis, low, high>>

\* Mutant of Elapsed: the two times are not compared first.
ElapsedUnchecked(b, last) == b.time - last.time

Elapsed(b, last) == IF b.time > last.time THEN b.time - last.time ELSE 0

ReportLast(r) ==
  /\ pc[r] = "last"
  /\ LET h == line[r] - 1 IN
       \/ redis[h] # Nil /\ Reported(r, Elapsed(bi[r], redis[h])) /\ UNCHANGED <<bi, clean>>
       \/ GetFails(r, h) /\ Reported(r, 0)
  /\ UNCHANGED <<redis, low, high>>

ReportEnd(r) ==
  /\ pc[r] = "report" /\ line[r] > high[r]
  /\ Goto(r, "done")
  /\ UNCHANGED <<redis, line, low, high, bi, report, clean>>

\* The process is killed, or panics on a failed SET or a line that does not parse.
Die(r) ==
  /\ Active(r)
  /\ Goto(r, "killed")
  /\ UNCHANGED <<redis, line, low, high, bi, report, clean>>

Step(r) ==
  /\ \/ Start(r) \/ TmLine(r) \/ TmEnd(r) \/ AbciGet(r) \/ AbciSet(r) \/ AbciEnd(r)
     \/ ReportGet(r) \/ ReportLast(r) \/ ReportEnd(r) \/ Die(r)
  /\ UNCHANGED logs

Finished == (\A r \in Runs : pc[r] \in {"done", "killed"}) /\ UNCHANGED vars

Next == (\E r \in Runs : Step(r)) \/ Finished

Spec == Init /\ [][Next]_vars
-----------------------------------------------------------------------------
(***************************************************************************)
(* Properties.                                                             *)
(***************************************************************************)

\* Every variable stays in its type (redis, and the locals of each run).
TypeOK ==
  /\ redis \in [Heights -> Records \cup {Nil}]
  /\ tm \in [Runs -> TmLogs] /\ abci \in [Runs -> AbciLogs]
  /\ pc \in [Runs -> {"idle", "tm", "abci", "set", "report", "last", "done", "killed"}]
  /\ line \in [Runs -> Nat] /\ low \in [Runs -> Nat] /\ high \in [Runs -> Heights]
  /\ bi \in [Runs -> Records \cup {Nil}]
  /\ report \in [Runs -> [Heights -> Nat \cup {Nil}]]
  /\ clean \in [Runs -> BOOLEAN]

FromLogs(b, h) ==
  /\ b.height = h
  /\ \E r \in Runs : \E j \in 1..Len(tm[r]) :
       tm[r][j].height = h /\ tm[r][j].time = b.time
  /\ \A p \in Phases : b.spent[p] # 0 =>
       \E r \in Runs : \E j \in 1..Len(abci[r]) :
         abci[r][j] = [height |-> h, phase |-> p, value |-> b.spent[p]]

\* A record is under its own key and made of lines about its block, however
\* runs overlap, fail and die between the GET and the SET of a line.
RecordsFromLogs == \A h \in Heights : redis[h] # Nil => FromLogs(redis[h], h)

\* The last of the first n lines of r's tendermint log about a block decides.
TmWritten(r, n) ==
  \A j \in 1..n :
    (\A k \in (j + 1)..n : tm[r][k].height # tm[r][j].height) =>
      /\ redis[tm[r][j].height] # Nil
      /\ redis[tm[r][j].height].time = tm[r][j].time

About(r, j, h, p) == abci[r][j].height = h /\ abci[r][j].phase = p

\* The last of the first n lines of its abci log about a phase of a block, and
\* without a line nothing is left of what an earlier run wrote.
AbciWritten(r, n) ==
  \A h \in Heights, p \in Phases : redis[h] # Nil =>
    /\ \A j \in 1..n :
         About(r, j, h, p) /\ (\A k \in (j + 1)..n : ~About(r, k, h, p)) =>
           redis[h].spent[p] = abci[r][j].value
    /\ /\ \E j \in 1..Len(tm[r]) : tm[r][j].height = h
       /\ \A j \in 1..n : ~About(r, j, h, p)
       => redis[h].spent[p] = 0

BlockTime(h) ==
  IF h = 0 THEN 0
  ELSE IF redis[h - 1] = Nil THEN 0 ELSE Elapsed(redis[h], redis[h - 1])

ReportedBefore(r, n) ==
  \A h \in low[r]..(n - 1) :
    report[r][h] = IF redis[h] = Nil THEN Nil ELSE BlockTime(h)

\* A run that overlaps no other and meets no failed GET repairs whatever the
\* runs before it lost or left half done: redis then has all that its logs
\* say, and it reports each block from its first to its last, and every block
\* of its tendermint log, with the right block time.
CleanRunComplete ==
  \A r \in Runs : clean[r] /\ pc[r] = "done" =>
    /\ TmWritten(r, Len(tm[r])) /\ AbciWritten(r, Len(abci[r]))
    /\ ReportedBefore(r, high[r] + 1)
    /\ \A j \in 1..Len(tm[r]) : report[r][tm[r][j].height] # Nil
=============================================================================
