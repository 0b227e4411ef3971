-------------------------- MODULE ServicesProofs ---------------------------
(***************************************************************************)
(* The commission run store: what its callers are told holds, and the      *)
(* record of a run only moves forward, for any number of callers, runs,    *)
(* periods and lost connections.  NoRun stands for an id no table holds,   *)
(* so it is none of the ids the table gives out.                           *)
(* The worker: its answers tell all that happened in it, for any names and *)
(* plans and however long it runs.                                         *)
(***************************************************************************)
EXTENDS CommissionRuns, Worker, TLAPS, FiniteSetTheorems

(* Turns off type inference in the SMT backend. *)
LEMMA Untyped == (CASE TRUE -> 0) = 0
  OBVIOUS

USE Untyped

Statuses == {"running", "complete", "voided"}
Periods == PeriodIds \cup {0}
RunRecords == [period : Periods, status : Statuses, carry : Nat, supersededBy : Nat \cup {NoRun}]
Batches == [run : Nat, structure : Structures \cup {""}, batch : Nat]
Kinds == {"none", "ok", "live_run_exists", "not_found", "not_running", "conflicted_twice", "error"}
Answers == [kind : Kinds] \cup [kind : Kinds, run : Nat] \cup [kind : Kinds, status : Statuses]
Calls == [op : {"none", "create", "save", "complete", "void", "replace"},
          pc : {"idle", "insert", "lookup", "update", "explain", "lock", "locked", "written", "voided"},
          n : Nat, period : Periods, run : Nat \cup {NoRun}, structure : Structures \cup {""},
          empty : BOOLEAN, tries : Nat, cleared : SUBSET Batches, answer : Answers]

TypeOK ==
    /\ runs \in Seq(RunRecords)
    /\ rows \in SUBSET Batches
    /\ call \in [Callers -> Calls]
    /\ calls \in Nat /\ lost \in Nat

(* A period has one active run, and only a run that is not active has been *)
(* replaced; every row belongs to a run, one batch to its structure.       *)
TablesOK ==
    /\ \A r, s \in Known : IsActive(r) /\ IsActive(s) /\ runs[r].period = runs[s].period => r = s
    /\ \A r \in Known : IsActive(r) => runs[r].supersededBy = NoRun
    /\ \A x \in rows : x.run \in Known
    /\ \A x, y \in rows : x.run = y.run /\ x.structure = y.structure => x = y

(* What c was told, with the runs it is about in the table. *)
Told(c) ==
    LET k == call[c] a == call[c].answer
    IN  /\ a.kind = "ok" /\ k.op = "create" => a.run \in Known /\ runs[a.run].period = k.period
        /\ a.kind = "live_run_exists" => a.run \in Known /\ runs[a.run].period = k.period
        /\ a.kind = "not_found" => k.run = NoRun
        /\ a.kind = "not_running" => a.status \notin Accepted(k.op)
        /\ a.kind = "ok" /\ k.op \in {"complete", "void", "replace"} => k.run \in Known
        /\ a.kind = "ok" /\ k.op = "complete" =>
              runs[k.run].status # "running" /\ runs[k.run].carry = k.n
        /\ a.kind = "ok" /\ k.op = "void" => runs[k.run].status = "voided"
        /\ a.kind = "ok" /\ k.op = "replace" =>
              /\ runs[k.run].status = "voided" /\ runs[k.run].supersededBy = a.run
              /\ a.run \in Known /\ runs[a.run].period = runs[k.run].period

(* Which calls come to which step. *)
Comes(c) ==
    /\ call[c].pc \in {"insert", "lookup"} => call[c].op = "create"
    /\ call[c].pc \in {"update", "explain"} => call[c].op \in {"complete", "void"}
    /\ call[c].pc \in {"lock", "locked"} => call[c].op \in {"save", "replace"}
    /\ call[c].pc = "written" => call[c].op = "save"
    /\ call[c].pc = "voided" => call[c].op = "replace"
    /\ call[c].run \in Known \cup {NoRun}

(* A transaction's run is as it was when it took the lock, its rows are    *)
(* those it deletes, and an update that met no row stays in the wrong.     *)
Stands(c) ==
    /\ InTransaction(c) => call[c].run \in Known /\ runs[call[c].run].status \in Accepted(call[c].op)
    /\ call[c].pc = "written" =>
          call[c].cleared = {x \in RowsOf(call[c].run) : x.structure = call[c].structure}
    /\ call[c].pc = "explain" /\ call[c].run \in Known => ~ Guard(c)

(* No two transactions hold one row. *)
Exclusive ==
    \A c, d \in Callers : InTransaction(c) /\ InTransaction(d) /\ call[c].run = call[d].run => c = d

Inv ==
    /\ TypeOK /\ TablesOK /\ Exclusive
    /\ \A c \in Callers : Comes(c) /\ Stands(c) /\ (call[c].pc = "idle" => Told(c))

-----------------------------------------------------------------------------
(***************************************************************************)
(* The tables.                                                             *)
(***************************************************************************)
(* A record more in a table. *)
LEMMA Appended ==
  ASSUME NEW s \in Seq(RunRecords), NEW e \in RunRecords
  PROVE  /\ Len(s) \in Nat /\ DOMAIN s = 1..Len(s) /\ Len(s) + 1 \notin DOMAIN s
         /\ Append(s, e) \in Seq(RunRecords) /\ DOMAIN Append(s, e) = DOMAIN s \cup {Len(s) + 1}
         /\ Append(s, e)[Len(s) + 1] = e /\ \A r \in DOMAIN s : Append(s, e)[r] = s[r]
<1>1. Len(s) \in Nat /\ DOMAIN s = 1..Len(s)
  OBVIOUS
<1>2. Append(s, e) \in Seq(RunRecords) /\ Len(Append(s, e)) = Len(s) + 1
  OBVIOUS
<1>3. DOMAIN Append(s, e) = 1..(Len(s) + 1)
  BY <1>2
<1>4. QED BY <1>1, <1>2, <1>3

(* The records of a table. *)
LEMMA Records ==
  ASSUME NEW s \in Seq(RunRecords), NEW i \in DOMAIN s
  PROVE  s[i] \in RunRecords
  OBVIOUS

(* A table with one record changed. *)
LEMMA Changed ==
  ASSUME NEW s \in Seq(RunRecords), NEW i \in DOMAIN s, NEW e \in RunRecords
  PROVE  /\ [s EXCEPT ![i] = e] \in Seq(RunRecords) /\ DOMAIN [s EXCEPT ![i] = e] = DOMAIN s
         /\ Len([s EXCEPT ![i] = e]) = Len(s)
         /\ [s EXCEPT ![i] = e][i] = e /\ \A r \in DOMAIN s : r # i => [s EXCEPT ![i] = e][r] = s[r]
  OBVIOUS

(* The kinds of call and their fields. *)
LEMMA CallFacts ==
  ASSUME TypeOK, NEW c \in Callers
  PROVE  /\ call[c] \in Calls /\ DOMAIN call = Callers
         /\ call[c].n \in Nat /\ call[c].period \in Periods /\ call[c].run \in Nat \cup {NoRun}
         /\ call[c].structure \in Structures \cup {""} /\ call[c].cleared \in SUBSET Batches
         /\ call[c].tries \in Nat
  BY DEF TypeOK, Calls

(* How the record of run r may look after an update by c. *)
UpdatedRecord(c) ==
    IF call[c].op = "complete" THEN [runs[call[c].run] EXCEPT !.status = "complete", !.carry = call[c].n]
    ELSE [runs[call[c].run] EXCEPT !.status = "voided"]

(* A completion or a void changes its own run's record only. *)
LEMMA UpdatedFacts ==
  ASSUME TypeOK, NEW c \in Callers, call[c].run \in Known
  PROVE  LET i == call[c].run
         IN  /\ Updated(c) \in Seq(RunRecords) /\ DOMAIN Updated(c) = Known
             /\ \A r \in Known : r # i => Updated(c)[r] = runs[r]
             /\ Updated(c)[i].period = runs[i].period /\ Updated(c)[i].supersededBy = runs[i].supersededBy
             /\ call[c].op = "complete" => Updated(c)[i].status = "complete" /\ Updated(c)[i].carry = call[c].n
             /\ call[c].op # "complete" => Updated(c)[i].status = "voided" /\ Updated(c)[i].carry = runs[i].carry
<1> DEFINE i == call[c].run
           e == UpdatedRecord(c)
<1>1. runs \in Seq(RunRecords) /\ i \in DOMAIN runs /\ runs[i] \in RunRecords /\ call[c].n \in Nat
  BY CallFacts, Records DEF TypeOK, Known
<1>2. /\ e \in RunRecords /\ e.period = runs[i].period /\ e.supersededBy = runs[i].supersededBy
      /\ call[c].op = "complete" => e.status = "complete" /\ e.carry = call[c].n
      /\ call[c].op # "complete" => e.status = "voided" /\ e.carry = runs[i].carry
  <2>1. CASE call[c].op = "complete"
    BY <1>1, <2>1 DEF UpdatedRecord, RunRecords, Statuses
  <2>2. CASE call[c].op # "complete"
    BY <1>1, <2>2 DEF UpdatedRecord, RunRecords, Statuses
  <2>3. QED BY <2>1, <2>2
<1>3. Updated(c) = [runs EXCEPT ![i] = e]
  BY <1>1 DEF Updated, UpdatedRecord
<1> HIDE DEF i, e
<1>4. QED BY <1>1, <1>2, <1>3, Changed DEF i, Known

(* A replacement voids and links the old run and adds the new one. *)
LEMMA ReplacedFacts ==
  ASSUME TypeOK, NEW c \in Callers, call[c].run \in Known
  PROVE  LET i == call[c].run n == Len(runs) + 1
         IN  /\ Replaced(c) \in Seq(RunRecords) /\ DOMAIN Replaced(c) = Known \cup {n} /\ n \notin Known
             /\ n \in Nat /\ n # 0
             /\ \A r \in Known : r # i => Replaced(c)[r] = runs[r]
             /\ Replaced(c)[i] = [runs[i] EXCEPT !.status = "voided", !.supersededBy = n]
             /\ Replaced(c)[n] = NewRun(runs[i].period)
<1> DEFINE i == call[c].run
           n == Len(runs) + 1
           e == [runs[i] EXCEPT !.status = "voided", !.supersededBy = n]
           old == [runs EXCEPT ![i] = e]
<1>1. runs \in Seq(RunRecords) /\ i \in DOMAIN runs /\ runs[i] \in RunRecords
  BY DEF TypeOK, Known
<1>2. n \in Nat /\ n # 0 /\ n \notin Known
  BY <1>1 DEF Known
<1>3. e \in RunRecords
  BY <1>1, <1>2 DEF RunRecords, Statuses
<1>4. NewRun(runs[i].period) \in RunRecords
  BY <1>1 DEF NewRun, RunRecords, Statuses
<1>5. Replaced(c) = Append(old, NewRun(runs[i].period))
  BY <1>1 DEF Replaced
<1> HIDE DEF e
<1>6. /\ old \in Seq(RunRecords) /\ DOMAIN old = DOMAIN runs /\ Len(old) = Len(runs)
      /\ old[i] = e /\ \A r \in DOMAIN runs : r # i => old[r] = runs[r]
  BY <1>1, <1>3, Changed
<1> HIDE DEF old, i
<1>7. QED BY <1>1, <1>2, <1>4, <1>5, <1>6, Appended DEF Known, e, i

(* A new run's record. *)
LEMMA NewRunFacts ==
  ASSUME NEW p \in Periods
  PROVE  /\ NewRun(p) \in RunRecords /\ NewRun(p).period = p /\ NewRun(p).status = "running"
         /\ NewRun(p).supersededBy = NoRun
  BY DEF NewRun, RunRecords, Statuses

-----------------------------------------------------------------------------
(***************************************************************************)
(* What a step does to the tables and to the calls.                        *)
(***************************************************************************)
RunsChange(c) ==
    \/ UNCHANGED runs
    \/ /\ call[c].pc = "insert" /\ ~ Conflicts(call[c].period)
       /\ runs' = Append(runs, NewRun(call[c].period))
    \/ /\ call[c].pc = "update" /\ ~ IsLocked(call[c].run) /\ call[c].run \in Known /\ Guard(c)
       /\ runs' = Updated(c)
    \/ call[c].pc = "voided" /\ runs' = Replaced(c)

RowsChange(c) == UNCHANGED rows \/ (call[c].pc = "written" /\ rows' = Saved(c))

(* The tables change by whole statements and commits. *)
LEMMA Effects ==
  ASSUME NEW c \in Callers, Step(c)
  PROVE  RunsChange(c) /\ RowsChange(c)
<1>1. CASE BeginCreate(c) \/ BeginSave(c) \/ BeginOnRun(c)
  BY <1>1 DEF BeginCreate, BeginSave, BeginOnRun, Begin, RunsChange, RowsChange
<1>2. CASE Insert(c) \/ LookUpWinner(c) \/ Update(c) \/ Explain(c)
  BY <1>2 DEF Insert, LookUpWinner, Update, Explain, RunsChange, RowsChange
<1>3. CASE LockRun(c) \/ ClearAndCopy(c) \/ CommitSave(c) \/ VoidOld(c) \/ CommitReplace(c)
  BY <1>3 DEF LockRun, ClearAndCopy, CommitSave, VoidOld, CommitReplace, RunsChange, RowsChange
<1>4. CASE LoseConnection(c)
  BY <1>4 DEF LoseConnection, RunsChange, RowsChange
<1>5. QED BY <1>1, <1>2, <1>3, <1>4 DEF Step

(* What a transaction saves is rows of its own run. *)
LEMMA SavedFacts ==
  ASSUME Inv, NEW c \in Callers, call[c].pc = "written"
  PROVE  /\ Saved(c) \in SUBSET Batches
         /\ call[c].run \in Known /\ runs[call[c].run].status = "running"
         /\ \A x \in Saved(c) : x \in rows \/ x.run = call[c].run
         /\ \A x \in rows : x \in Saved(c) \/ x.run = call[c].run
         /\ \A x, y \in Saved(c) : x.run = y.run /\ x.structure = y.structure => x = y
<1> DEFINE k == call[c]
           new == [run |-> k.run, structure |-> k.structure, batch |-> k.n]
<1>1. /\ k.run \in Known /\ runs[k.run].status = "running"
      /\ k.cleared = {x \in RowsOf(k.run) : x.structure = k.structure}
  BY DEF Inv, Stands, Comes, InTransaction, Accepted
<1>2. k.n \in Nat /\ k.structure \in Structures \cup {""} /\ rows \in SUBSET Batches
  BY CallFacts DEF Inv, TypeOK
<1>3. k.run \in Nat
  BY <1>1 DEF Inv, TypeOK, Known
<1>4. new \in Batches /\ new.run = k.run /\ new.structure = k.structure
  BY <1>2, <1>3 DEF Batches
<1> HIDE DEF new
<1>5. \A x \in Saved(c) : x \in rows \ k.cleared \/ x = new
  BY DEF Saved, new
<1>6. \A x \in rows : x \in Saved(c) \/ x \in k.cleared
  BY DEF Saved
<1>7. \A x \in rows \ k.cleared : ~ (x.run = k.run /\ x.structure = k.structure)
  BY <1>1 DEF RowsOf
<1>8. \A x, y \in rows : x.run = y.run /\ x.structure = y.structure => x = y
  BY DEF Inv, TablesOK
<1>9. \A x \in k.cleared : x.run = k.run
  BY <1>1 DEF RowsOf
<1> HIDE DEF k
<1>10. Saved(c) \in SUBSET Batches
  BY <1>2, <1>4, <1>5
<1>11. \A x, y \in Saved(c) : x.run = y.run /\ x.structure = y.structure => x = y
  BY <1>4, <1>5, <1>7, <1>8
<1>12. \A x \in Saved(c) : x \in rows \/ x.run = k.run
  BY <1>4, <1>5
<1>13. QED BY <1>1, <1>6, <1>9, <1>10, <1>11, <1>12 DEF k

(* The records of runs move forward, and every run stays in the table. *)
LEMMA Forward ==
  ASSUME Inv, NEW c \in Callers, RunsChange(c), RowsChange(c)
  PROVE  /\ runs' \in Seq(RunRecords) /\ rows' \in SUBSET Batches
         /\ \A r \in Known : r \in Known' /\ MovesForward(r)
<1>1. TypeOK /\ runs \in Seq(RunRecords) /\ rows \in SUBSET Batches /\ call[c].period \in Periods
  BY CallFacts DEF Inv, TypeOK
<1>2. rows' \in SUBSET Batches
  BY <1>1, SavedFacts DEF RowsChange
<1>3. ASSUME NEW r \in Known, runs[r].status # "running" PROVE RowsOf(r)' = RowsOf(r)
  <2>1. CASE rows' = rows
    BY <2>1 DEF RowsOf
  <2>2. CASE call[c].pc = "written" /\ rows' = Saved(c)
    <3>1. r # call[c].run
      BY <1>3, <2>2, SavedFacts
    <3>2. QED BY <2>2, <3>1, SavedFacts DEF RowsOf
  <2>3. QED BY <2>1, <2>2 DEF RowsChange
<1>4. ASSUME NEW r \in Known
      PROVE  runs[r] \in RunRecords /\ runs[r].status \in Statuses
  <2>1. runs[r] \in RunRecords
    BY <1>1, Records DEF Known
  <2>2. QED BY <2>1 DEF RunRecords
<1>5. Rank("running") = 0 /\ Rank("complete") = 1 /\ Rank("voided") = 2
  BY DEF Rank
<1>6. ASSUME NEW r \in Known, runs'[r] = runs[r] PROVE MovesForward(r)
  <2>1. Rank(runs'[r].status) >= Rank(runs[r].status)
    BY <1>4, <1>5, <1>6 DEF Statuses
  <2>2. QED BY <1>3, <1>6, <2>1 DEF MovesForward
<1>7. CASE UNCHANGED runs
  BY <1>1, <1>2, <1>6, <1>7 DEF Known
<1>8. CASE runs' = Append(runs, NewRun(call[c].period))
  BY <1>1, <1>2, <1>6, <1>8, Appended, NewRunFacts DEF Known
<1>9. CASE call[c].pc = "update" /\ call[c].run \in Known /\ Guard(c) /\ runs' = Updated(c)
  <2>1. call[c].op \in {"complete", "void"}
    BY <1>9 DEF Inv, Comes
  <2>2. ASSUME NEW r \in Known, r = call[c].run PROVE MovesForward(r)
    <3>1. CASE call[c].op = "complete"
      <4>1. /\ runs[r].status = "running" /\ runs'[r].status = "complete"
            /\ runs'[r].period = runs[r].period /\ runs'[r].supersededBy = runs[r].supersededBy
        BY <1>1, <1>9, <2>2, <3>1, UpdatedFacts DEF Guard
      <4>2. QED BY <1>5, <4>1 DEF MovesForward
    <3>2. CASE call[c].op # "complete"
      <4>1. /\ runs'[r].status = "voided" /\ runs'[r].carry = runs[r].carry
            /\ runs'[r].period = runs[r].period /\ runs'[r].supersededBy = runs[r].supersededBy
        BY <1>1, <1>9, <2>2, <3>2, UpdatedFacts
      <4>2. Rank(runs'[r].status) >= Rank(runs[r].status)
        BY <1>4, <1>5, <1>9, <4>1 DEF Statuses
      <4>3. QED BY <1>3, <1>9, <4>1, <4>2 DEF MovesForward
    <3>3. QED BY <3>1, <3>2
  <2>3. QED BY <1>1, <1>2, <1>6, <1>9, <2>2, UpdatedFacts DEF Known
<1>10. CASE call[c].pc = "voided" /\ runs' = Replaced(c)
  <2>1. call[c].run \in Known /\ IsActive(call[c].run) /\ runs[call[c].run].supersededBy = NoRun
    BY <1>10 DEF Inv, Stands, Comes, InTransaction, Accepted, IsActive, TablesOK
  <2>2. ASSUME NEW r \in Known, r = call[c].run PROVE MovesForward(r)
    <3>1. runs'[r] = [runs[r] EXCEPT !.status = "voided", !.supersededBy = Len(runs) + 1]
      BY <1>1, <1>10, <2>2, ReplacedFacts
    <3>2. runs'[r].status = "voided" /\ runs'[r].carry = runs[r].carry /\ runs'[r].period = runs[r].period
      BY <1>4, <3>1 DEF RunRecords
    <3>3. Rank(runs'[r].status) >= Rank(runs[r].status)
      BY <1>4, <1>5, <3>2 DEF Statuses
    <3>4. QED BY <1>3, <2>1, <2>2, <3>2, <3>3 DEF MovesForward
  <2>3. QED BY <1>1, <1>2, <1>6, <1>10, <2>1, <2>2, ReplacedFacts DEF Known
<1>11. QED BY <1>7, <1>8, <1>9, <1>10 DEF RunsChange

(* A call that returns. *)
LEMMA Returns ==
  ASSUME TypeOK, NEW c \in Callers, NEW a \in Answers, Return(c, a)
  PROVE  /\ call' \in [Callers -> Calls] /\ \A d \in Callers \ {c} : call'[d] = call[d]
         /\ call'[c].pc = "idle" /\ call'[c].answer = a
         /\ call'[c].op = call[c].op /\ call'[c].n = call[c].n /\ call'[c].run = call[c].run
         /\ call'[c].period = call[c].period
<1>1. call \in [Callers -> Calls] /\ call[c] \in Calls
  BY DEF TypeOK
<1>2. call'[c] = [call[c] EXCEPT !.pc = "idle", !.cleared = {}, !.answer = a]
  BY <1>1 DEF Return
<1>3. call' = [call EXCEPT ![c] = call'[c]]
  BY <1>1 DEF Return
<1>4. call'[c] \in Calls
  BY <1>1, <1>2 DEF Calls
<1>5. /\ call'[c].pc = "idle" /\ call'[c].answer = a
      /\ call'[c].op = call[c].op /\ call'[c].n = call[c].n /\ call'[c].run = call[c].run
      /\ call'[c].period = call[c].period
  BY <1>1, <1>2 DEF Calls
<1>6. QED BY <1>1, <1>3, <1>4, <1>5

Steps == {"idle", "insert", "lookup", "update", "explain", "lock", "locked", "written", "voided"}

(* A call that goes on to another step. *)
LEMMA Moves ==
  ASSUME TypeOK, NEW c \in Callers, NEW p \in Steps,
         \/ call' = [call EXCEPT ![c].pc = p]
         \/ call' = [call EXCEPT ![c].pc = p, ![c].tries = @ + 1]
         \/ \E s \in SUBSET Batches : call' = [call EXCEPT ![c].pc = p, ![c].cleared = s]
  PROVE  /\ call' \in [Callers -> Calls] /\ \A d \in Callers \ {c} : call'[d] = call[d]
         /\ call'[c].pc = p /\ call'[c].op = call[c].op /\ call'[c].run = call[c].run
         /\ call'[c].structure = call[c].structure
<1>1. call \in [Callers -> Calls] /\ call[c] \in Calls
  BY DEF TypeOK
<1>2. call' = [call EXCEPT ![c] = call'[c]]
  BY <1>1
<1>3. \/ call'[c] = [call[c] EXCEPT !.pc = p]
      \/ call'[c] = [call[c] EXCEPT !.pc = p, !.tries = @ + 1]
      \/ \E s \in SUBSET Batches : call'[c] = [call[c] EXCEPT !.pc = p, !.cleared = s]
  BY <1>1
<1>4. call'[c] \in Calls
  <2>1. call[c].tries + 1 \in Nat
    <3>1. call[c].tries \in Nat
      BY CallFacts
    <3>2. QED BY <3>1
  <2>2. \A m \in Nat : [call[c] EXCEPT !.pc = p, !.tries = m] \in Calls
    BY <1>1 DEF Calls, Steps
  <2>3. [call[c] EXCEPT !.pc = p] \in Calls
    BY <1>1 DEF Calls, Steps
  <2>4. \A s \in SUBSET Batches : [call[c] EXCEPT !.pc = p, !.cleared = s] \in Calls
    BY <1>1 DEF Calls, Steps
  <2>5. QED BY <1>3, <2>1, <2>2, <2>3, <2>4
<1>5. /\ call'[c].pc = p /\ call'[c].op = call[c].op /\ call'[c].run = call[c].run
      /\ call'[c].structure = call[c].structure
  BY <1>1, <1>3 DEF Calls
<1>6. QED BY <1>1, <1>2, <1>4, <1>5

(* A call that begins. *)
LEMMA Begins ==
  ASSUME TypeOK, NEW c \in Callers, BeginCreate(c) \/ BeginSave(c) \/ BeginOnRun(c)
  PROVE  /\ call' \in [Callers -> Calls] /\ \A d \in Callers \ {c} : call'[d] = call[d]
         /\ UNCHANGED <<runs, rows>> /\ calls' \in Nat
         /\ call'[c].run \in Known \cup {NoRun}
         /\ \/ call'[c].op = "create" /\ call'[c].pc = "insert"
            \/ call'[c].op \in {"save", "replace"} /\ call'[c].pc = "lock"
            \/ call'[c].op \in {"complete", "void"} /\ call'[c].pc = "update"
<1>1. call \in [Callers -> Calls] /\ calls \in Nat /\ Known \subseteq Nat
  BY DEF TypeOK, Known
<1>2. NoCall \in Calls /\ NoCall.run = NoRun
  BY DEF NoCall, Calls, Periods, Answers, Kinds
<1>3. ASSUME NEW new \in Calls, Begin(c, new)
      PROVE  /\ call' \in [Callers -> Calls] /\ \A d \in Callers \ {c} : call'[d] = call[d]
             /\ UNCHANGED <<runs, rows>> /\ calls' \in Nat
             /\ call'[c].run = new.run /\ call'[c].op = new.op /\ call'[c].pc = new.pc
  <2>1. [new EXCEPT !.n = calls + 1] \in Calls
    <3>1. calls + 1 \in Nat
      BY <1>1
    <3>2. \A m \in Nat : [new EXCEPT !.n = m] \in Calls
      BY <1>3 DEF Calls
    <3>3. QED BY <3>1, <3>2
  <2>2. call'[c] = [new EXCEPT !.n = calls + 1]
    BY <1>1, <1>3 DEF Begin
  <2>3. call' = [call EXCEPT ![c] = call'[c]]
    BY <1>1, <1>3, <2>2 DEF Begin
  <2>4. call'[c].run = new.run /\ call'[c].op = new.op /\ call'[c].pc = new.pc
    BY <1>3, <2>2 DEF Calls
  <2>5. QED BY <1>1, <1>3, <2>1, <2>2, <2>3, <2>4 DEF Begin
<1>4. CASE BeginCreate(c)
  <2>1. PICK p \in PeriodIds : Begin(c, [NoCall EXCEPT !.op = "create", !.pc = "insert", !.period = p])
    BY <1>4 DEF BeginCreate
  <2> DEFINE new == [NoCall EXCEPT !.op = "create", !.pc = "insert", !.period = p]
  <2>2. new \in Calls /\ new.op = "create" /\ new.pc = "insert" /\ new.run = NoRun
    BY <1>2 DEF Calls, Periods
  <2> HIDE DEF new
  <2>3. Begin(c, new)
    BY <2>1 DEF new
  <2>4. QED BY <1>3, <2>2, <2>3
<1>5. CASE BeginSave(c)
  <2>1. PICK r \in Known \cup {NoRun}, s \in Structures, e \in BOOLEAN :
          Begin(c, [NoCall EXCEPT !.op = "save", !.pc = "lock", !.run = r, !.structure = s, !.empty = e])
    BY <1>5 DEF BeginSave
  <2> DEFINE new == [NoCall EXCEPT !.op = "save", !.pc = "lock", !.run = r, !.structure = s, !.empty = e]
  <2>2. new \in Calls /\ new.op = "save" /\ new.pc = "lock" /\ new.run = r
    BY <1>1, <1>2 DEF Calls
  <2> HIDE DEF new
  <2>3. Begin(c, new)
    BY <2>1 DEF new
  <2>4. QED BY <1>3, <2>2, <2>3
<1>6. CASE BeginOnRun(c)
  <2>1. PICK r \in Known \cup {NoRun}, op \in {"complete", "void", "replace"} :
          Begin(c, [NoCall EXCEPT !.op = op, !.run = r, !.pc = IF op = "replace" THEN "lock" ELSE "update"])
    BY <1>6 DEF BeginOnRun
  <2> DEFINE pc == IF op = "replace" THEN "lock" ELSE "update"
             new == [NoCall EXCEPT !.op = op, !.run = r, !.pc = pc]
  <2>2. pc \in {"lock", "update"}
    OBVIOUS
  <2>3. new \in Calls /\ new.op = op /\ new.pc = pc /\ new.run = r
    BY <1>1, <1>2, <2>2 DEF Calls
  <2> HIDE DEF new
  <2>4. Begin(c, new)
    BY <2>1 DEF new
  <2>5. QED BY <1>3, <2>3, <2>4
<1>7. QED BY <1>4, <1>5, <1>6

-----------------------------------------------------------------------------
(***************************************************************************)
(* The calls of the others.                                                *)
(***************************************************************************)
(* What moving forward keeps. *)
LEMMA Keeps ==
  ASSUME Inv, runs' \in Seq(RunRecords), NEW r \in Known, r \in Known', MovesForward(r)
  PROVE  /\ runs'[r].period = runs[r].period
         /\ runs[r].status # "running" => runs'[r].status # "running" /\ runs'[r].carry = runs[r].carry
         /\ runs[r].status = "voided" => runs'[r].status = "voided"
         /\ runs[r].supersededBy # NoRun => runs'[r].supersededBy = runs[r].supersededBy
<1>1. runs[r] \in RunRecords /\ runs'[r] \in RunRecords
  BY Records DEF Inv, TypeOK, Known
<1>2. runs[r].status \in Statuses /\ runs'[r].status \in Statuses
  BY <1>1 DEF RunRecords
<1>3. Rank("running") = 0 /\ Rank("complete") = 1 /\ Rank("voided") = 2
  BY DEF Rank
<1>4. Rank(runs'[r].status) >= Rank(runs[r].status)
  BY DEF MovesForward
<1>5. /\ runs[r].status # "running" => runs'[r].status # "running"
      /\ runs[r].status = "voided" => runs'[r].status = "voided"
  BY <1>2, <1>3, <1>4 DEF Statuses
<1>6. QED BY <1>5 DEF MovesForward

(* Ids are numbers from 1, so none is NoRun. *)
LEMMA KnownIds ==
  ASSUME TypeOK
  PROVE  NoRun \notin Known /\ 0 \notin Known /\ Known \subseteq Nat
  BY NoRunIsNoId DEF TypeOK, Known

(* What a caller was told stays so. *)
LEMMA ToldStays ==
  ASSUME Inv, runs' \in Seq(RunRecords), \A r \in Known : r \in Known' /\ MovesForward(r),
         NEW d \in Callers, call'[d] = call[d], Told(d)
  PROVE  Told(d)'
<1> DEFINE k == call[d]
           a == call[d].answer
<1>1. \A r \in Known : /\ r \in Known' /\ r # NoRun /\ runs'[r].period = runs[r].period
                       /\ runs[r].status # "running" => runs'[r].status # "running" /\ runs'[r].carry = runs[r].carry
                       /\ runs[r].status = "voided" => runs'[r].status = "voided"
                       /\ runs[r].supersededBy # NoRun => runs'[r].supersededBy = runs[r].supersededBy
  BY Keeps, KnownIds DEF Inv
<1>2. /\ a.kind = "ok" /\ k.op = "create" => a.run \in Known' /\ runs'[a.run].period = k.period
      /\ a.kind = "live_run_exists" => a.run \in Known' /\ runs'[a.run].period = k.period
      /\ a.kind = "not_found" => k.run = NoRun
      /\ a.kind = "not_running" => a.status \notin Accepted(k.op)
      /\ a.kind = "ok" /\ k.op \in {"complete", "void", "replace"} => k.run \in Known'
  BY <1>1 DEF Told
<1>3. /\ a.kind = "ok" /\ k.op = "complete" => runs'[k.run].status # "running" /\ runs'[k.run].carry = k.n
      /\ a.kind = "ok" /\ k.op = "void" => runs'[k.run].status = "voided"
  BY <1>1 DEF Told
<1>4. a.kind = "ok" /\ k.op = "replace" =>
              /\ runs'[k.run].status = "voided" /\ runs'[k.run].supersededBy = a.run
              /\ a.run \in Known' /\ runs'[a.run].period = runs'[k.run].period
  BY <1>1 DEF Told
<1>5. QED BY <1>2, <1>3, <1>4 DEF Told

(* The run whose row a transaction holds, and its rows, wait for it. *)
LEMMA LockedStays ==
  ASSUME Inv, NEW c \in Callers, NEW d \in Callers, c # d, RunsChange(c), RowsChange(c),
         InTransaction(d), NEW r, r = call[d].run
  PROVE  r \in Known /\ runs'[r] = runs[r] /\ RowsOf(r)' = RowsOf(r)
<1>1. TypeOK /\ runs \in Seq(RunRecords) /\ call[c].period \in Periods /\ r \in Known
  BY CallFacts DEF Inv, TypeOK, Stands
<1>2. InTransaction(c) => call[c].run \in Known /\ call[c].run # r
  BY DEF Inv, Exclusive, Stands
<1>3. RowsOf(r)' = RowsOf(r)
  <2>1. CASE rows' = rows
    BY <2>1 DEF RowsOf
  <2>2. CASE call[c].pc = "written" /\ rows' = Saved(c)
    <3>1. call[c].run # r
      BY <1>2, <2>2 DEF InTransaction
    <3>2. QED BY <2>2, <3>1, SavedFacts DEF RowsOf
  <2>3. QED BY <2>1, <2>2 DEF RowsChange
<1>4. CASE UNCHANGED runs
  BY <1>1, <1>3, <1>4
<1>5. CASE runs' = Append(runs, NewRun(call[c].period))
  BY <1>1, <1>3, <1>5, Appended, NewRunFacts DEF Known
<1>6. CASE ~ IsLocked(call[c].run) /\ call[c].run \in Known /\ runs' = Updated(c)
  <2>1. call[c].run # r
    BY <1>6 DEF IsLocked
  <2>2. QED BY <1>1, <1>3, <1>6, <2>1, UpdatedFacts
<1>7. CASE call[c].pc = "voided" /\ runs' = Replaced(c)
  <2>1. call[c].run # r /\ call[c].run \in Known
    BY <1>2, <1>7 DEF InTransaction
  <2>2. QED BY <1>1, <1>3, <1>7, <2>1, ReplacedFacts
<1>8. QED BY <1>4, <1>5, <1>6, <1>7 DEF RunsChange

(* Whatever another caller does, a call is where it was and right about    *)
(* it.                                                                     *)
LEMMA OthersStay ==
  ASSUME Inv, NEW c \in Callers, NEW d \in Callers, c # d, RunsChange(c), RowsChange(c),
         call'[d] = call[d]
  PROVE  Comes(d)' /\ Stands(d)' /\ (call'[d].pc = "idle" => Told(d)')
<1>1. runs' \in Seq(RunRecords) /\ \A r \in Known : r \in Known' /\ MovesForward(r)
  BY Forward
<1>2. Comes(d) /\ Stands(d) /\ (call[d].pc = "idle" => Told(d)) /\ TypeOK
  BY DEF Inv
<1>3. Comes(d)'
  BY <1>1, <1>2 DEF Comes
<1>4. call'[d].pc = "idle" => Told(d)'
  BY <1>1, <1>2, ToldStays
<1>5. InTransaction(d)' = InTransaction(d)
  BY DEF InTransaction
<1>6. ASSUME NEW r, r = call[d].run, InTransaction(d)
      PROVE  r \in Known' /\ runs'[r].status \in Accepted(call[d].op)
  BY <1>1, <1>2, <1>6, LockedStays DEF Stands
<1>7. ASSUME NEW r, r = call[d].run, call[d].pc = "written"
      PROVE  call'[d].cleared = {x \in RowsOf(r)' : x.structure = call[d].structure}
  <2>1. InTransaction(d)
    BY <1>7 DEF InTransaction
  <2>2. RowsOf(r)' = RowsOf(r)
    BY <1>7, <2>1, LockedStays
  <2>3. QED BY <1>2, <1>7, <2>2 DEF Stands
<1>8. ASSUME NEW r, r = call[d].run, call[d].pc = "explain", r \in Known' PROVE ~ Guard(d)'
  <2>1. r \in Known
    <3>1. r \in Known \cup {NoRun}
      BY <1>2, <1>8 DEF Comes
    <3>2. NoRun \notin Known'
      BY <1>1, NoRunIsNoId DEF Known
    <3>3. QED BY <1>8, <3>1, <3>2
  <2>2. ~ Guard(d) /\ call[d].op \in {"complete", "void"}
    BY <1>2, <1>8, <2>1 DEF Stands, Comes
  <2>3. /\ runs[r].status # "running" => runs'[r].status # "running"
        /\ runs[r].status = "voided" => runs'[r].status = "voided"
    BY <1>1, <2>1, Keeps
  <2>4. QED BY <1>8, <2>2, <2>3 DEF Guard, IsActive
<1>9. Stands(d)'
  BY <1>5, <1>6, <1>7, <1>8 DEF Stands
<1>10. QED BY <1>3, <1>4, <1>9

-----------------------------------------------------------------------------
(***************************************************************************)
(* The invariant.                                                          *)
(***************************************************************************)
(* The answers, by what they say. *)
LEMMA AnswerFacts ==
  /\ \A kind \in Kinds : Answer(kind) \in Answers /\ Answer(kind).kind = kind
  /\ \A kind \in Kinds, r \in Nat : OnRun(kind, r) \in Answers /\ OnRun(kind, r).kind = kind /\ OnRun(kind, r).run = r
  /\ \A s \in Statuses : /\ NotRunning(s) \in Answers /\ NotRunning(s).kind = "not_running"
                         /\ NotRunning(s).status = s
<1>1. \A kind \in Kinds : Answer(kind) \in Answers /\ Answer(kind).kind = kind
  BY DEF Answer, Answers
<1>2. \A kind \in Kinds, r \in Nat : OnRun(kind, r) \in Answers /\ OnRun(kind, r).kind = kind /\ OnRun(kind, r).run = r
  BY DEF OnRun, Answers
<1>3. \A s \in Statuses : /\ NotRunning(s) \in Answers /\ NotRunning(s).kind = "not_running"
                         /\ NotRunning(s).status = s
  BY DEF NotRunning, Answers, Kinds
<1>4. QED BY <1>1, <1>2, <1>3

(* The caller of a step, after it. *)
Settled(c) ==
    /\ call \in [Callers -> Calls]
    /\ Comes(c) /\ Stands(c) /\ (call[c].pc = "idle" => Told(c))

(* An idle caller is settled when what it was told is so. *)
LEMMA Idle ==
  ASSUME NEW c \in Callers, call' \in [Callers -> Calls], call'[c].pc = "idle", call'[c].run = call[c].run,
         Comes(c), \A r \in Known : r \in Known', Told(c)'
  PROVE  Settled(c)'
  BY DEF Settled, Comes, Stands, InTransaction

(* CreateRun: the run it opened or found is there. *)
LEMMA CreateSettles ==
  ASSUME Inv, NEW c \in Callers, Insert(c) \/ LookUpWinner(c)
  PROVE  Settled(c)' /\ \A d \in Callers \ {c} : call'[d] = call[d]
<1>1. TypeOK /\ Comes(c) /\ runs \in Seq(RunRecords) /\ call[c].period \in Periods
  BY CallFacts DEF Inv, TypeOK
<1>2. call[c].op = "create" /\ Known \subseteq Nat
  BY <1>1, KnownIds DEF Comes, Insert, LookUpWinner
<1>3. CASE call' = [call EXCEPT ![c].pc = "lookup", ![c].tries = @ + 1] /\ UNCHANGED runs
  <2>1. /\ call' \in [Callers -> Calls] /\ (\A d \in Callers \ {c} : call'[d] = call[d])
        /\ call'[c].pc = "lookup" /\ call'[c].op = call[c].op /\ call'[c].run = call[c].run
    BY <1>1, <1>3, Moves DEF Steps
  <2>2. QED BY <1>1, <1>2, <1>3, <2>1 DEF Settled, Comes, Stands, InTransaction, Known
<1>4. CASE call' = [call EXCEPT ![c].pc = "insert"] /\ UNCHANGED runs
  <2>1. /\ call' \in [Callers -> Calls] /\ (\A d \in Callers \ {c} : call'[d] = call[d])
        /\ call'[c].pc = "insert" /\ call'[c].op = call[c].op /\ call'[c].run = call[c].run
    BY <1>1, <1>4, Moves DEF Steps
  <2>2. QED BY <1>1, <1>2, <1>4, <2>1 DEF Settled, Comes, Stands, InTransaction, Known
<1>5. CASE runs' = Append(runs, NewRun(call[c].period)) /\ Return(c, OnRun("ok", Len(runs) + 1))
  <2> DEFINE n == Len(runs) + 1
             a == OnRun("ok", n)
  <2>1. n \in Nat /\ n \in Known' /\ (\A r \in Known : r \in Known') /\ runs'[n] = NewRun(call[c].period)
    BY <1>1, <1>5, Appended, NewRunFacts DEF Known
  <2>2. runs'[n].period = call[c].period
    BY <1>1, <2>1, NewRunFacts
  <2>3. a \in Answers /\ a.kind = "ok" /\ a.run = n
    BY <2>1, AnswerFacts DEF Kinds
  <2> HIDE DEF a, n
  <2>4. /\ call' \in [Callers -> Calls] /\ (\A d \in Callers \ {c} : call'[d] = call[d])
        /\ call'[c].pc = "idle" /\ call'[c].answer = a /\ call'[c].op = call[c].op /\ call'[c].run = call[c].run
        /\ call'[c].period = call[c].period
    BY <1>1, <1>5, <2>3, Returns DEF a, n
  <2>5. Told(c)'
    BY <1>2, <2>1, <2>2, <2>3, <2>4 DEF Told
  <2>6. QED BY <1>1, <2>1, <2>4, <2>5, Idle
<1>6. CASE UNCHANGED runs /\ \E r \in ActiveRuns(call[c].period) : Return(c, OnRun("live_run_exists", r))
  <2>1. PICK r \in ActiveRuns(call[c].period) : Return(c, OnRun("live_run_exists", r))
    BY <1>6
  <2> DEFINE a == OnRun("live_run_exists", r)
  <2>2. r \in Known /\ runs[r].period = call[c].period /\ r \in Nat
    BY <1>2, <2>1 DEF ActiveRuns
  <2>3. a \in Answers /\ a.kind = "live_run_exists" /\ a.run = r
    BY <2>2, AnswerFacts DEF Kinds
  <2> HIDE DEF a
  <2>4. /\ call' \in [Callers -> Calls] /\ (\A d \in Callers \ {c} : call'[d] = call[d])
        /\ call'[c].pc = "idle" /\ call'[c].answer = a /\ call'[c].op = call[c].op /\ call'[c].run = call[c].run
        /\ call'[c].period = call[c].period
    BY <1>1, <2>1, <2>3, Returns DEF a
  <2>5. Told(c)'
    BY <1>2, <1>6, <2>2, <2>3, <2>4 DEF Told, Known
  <2>6. QED BY <1>1, <1>6, <2>4, <2>5, Idle DEF Known
<1>7. CASE UNCHANGED runs /\ Return(c, Answer("conflicted_twice"))
  <2> DEFINE a == Answer("conflicted_twice")
  <2>1. a \in Answers /\ a.kind = "conflicted_twice"
    BY AnswerFacts DEF Kinds
  <2> HIDE DEF a
  <2>2. /\ call' \in [Callers -> Calls] /\ (\A d \in Callers \ {c} : call'[d] = call[d])
        /\ call'[c].pc = "idle" /\ call'[c].answer = a /\ call'[c].run = call[c].run
    BY <1>1, <1>7, <2>1, Returns DEF a
  <2>3. Told(c)'
    BY <2>1, <2>2 DEF Told
  <2>4. QED BY <1>1, <1>7, <2>2, <2>3, Idle DEF Known
<1>8. QED BY <1>3, <1>4, <1>5, <1>6, <1>7 DEF Insert, LookUpWinner

(* CompleteRun and VoidRun. *)
LEMMA UpdateSettles ==
  ASSUME Inv, NEW c \in Callers, Update(c) \/ Explain(c)
  PROVE  Settled(c)' /\ \A d \in Callers \ {c} : call'[d] = call[d]
<1> DEFINE i == call[c].run
<1>1. TypeOK /\ Comes(c) /\ Stands(c) /\ runs \in Seq(RunRecords)
  BY DEF Inv, TypeOK
<1>2. call[c].op \in {"complete", "void"} /\ i \in Known \cup {NoRun}
  BY <1>1 DEF Comes, Update, Explain
<1>3. CASE i \in Known /\ Guard(c) /\ runs' = Updated(c) /\ Return(c, Answer("ok"))
  <2> DEFINE a == Answer("ok")
  <2>1. a \in Answers /\ a.kind = "ok"
    BY AnswerFacts DEF Kinds
  <2> HIDE DEF a
  <2>2. /\ call' \in [Callers -> Calls] /\ (\A d \in Callers \ {c} : call'[d] = call[d])
        /\ call'[c].pc = "idle" /\ call'[c].answer = a /\ call'[c].op = call[c].op /\ call'[c].run = i
        /\ call'[c].n = call[c].n
    BY <1>1, <1>3, <2>1, Returns DEF a
  <2>3. Known' = Known
    BY <1>1, <1>3, UpdatedFacts DEF Known
  <2>4. /\ call[c].op = "complete" => runs'[i].status = "complete" /\ runs'[i].carry = call[c].n
        /\ call[c].op # "complete" => runs'[i].status = "voided"
    BY <1>1, <1>3, UpdatedFacts
  <2> HIDE DEF i
  <2>5. Told(c)'
    BY <1>2, <1>3, <2>1, <2>2, <2>3, <2>4 DEF Told
  <2>6. QED BY <1>1, <2>2, <2>3, <2>5, Idle DEF i
<1>4. CASE /\ ~ (i \in Known /\ Guard(c)) /\ UNCHANGED runs
           /\ call' = [call EXCEPT ![c].pc = "explain"]
  <2>1. /\ call' \in [Callers -> Calls] /\ (\A d \in Callers \ {c} : call'[d] = call[d])
        /\ call'[c].pc = "explain" /\ call'[c].op = call[c].op /\ call'[c].run = i
    BY <1>1, <1>4, Moves DEF Steps
  <2>2. Comes(c)'
    BY <1>2, <1>4, <2>1 DEF Comes, Known
  <2>3. Stands(c)'
    BY <1>4, <2>1 DEF Stands, InTransaction, Known, Guard, IsActive
  <2>4. QED BY <2>1, <2>2, <2>3 DEF Settled
<1>5. ASSUME NEW a \in Answers, UNCHANGED runs, Return(c, a),
             \/ a.kind = "not_found" /\ i = NoRun
             \/ a.kind = "ok" /\ call[c].op = "void" /\ i \in Known /\ runs[i].status = "voided"
             \/ a.kind = "not_running" /\ a.status # "running" /\ call[c].op = "complete"
      PROVE  Settled(c)' /\ \A d \in Callers \ {c} : call'[d] = call[d]
  <2>1. /\ call' \in [Callers -> Calls] /\ (\A d \in Callers \ {c} : call'[d] = call[d])
        /\ call'[c].pc = "idle" /\ call'[c].answer = a /\ call'[c].op = call[c].op /\ call'[c].run = i
    BY <1>1, <1>5, Returns
  <2>2. Told(c)'
    BY <1>5, <2>1 DEF Told, Known, Accepted
  <2>3. QED BY <1>1, <1>5, <2>1, <2>2, Idle DEF Known
<1>6. CASE Explain(c)
  <2>1. call[c].pc = "explain" /\ UNCHANGED runs
    BY <1>6 DEF Explain
  <2>2. CASE i \notin Known
    <3>1. i = NoRun /\ Return(c, Answer("not_found"))
      BY <1>2, <1>6, <2>2 DEF Explain
    <3>2. Answer("not_found") \in Answers /\ Answer("not_found").kind = "not_found"
      BY AnswerFacts DEF Kinds
    <3>3. QED BY <1>5, <2>1, <3>1, <3>2
  <2>3. CASE i \in Known /\ call[c].op = "void"
    <3>1. runs[i].status = "voided" /\ Return(c, Answer("ok"))
      BY <1>1, <1>6, <2>1, <2>3 DEF Explain, Stands, Guard, IsActive
    <3>2. Answer("ok") \in Answers /\ Answer("ok").kind = "ok"
      BY AnswerFacts DEF Kinds
    <3>3. QED BY <1>5, <2>1, <2>3, <3>1, <3>2
  <2>4. CASE i \in Known /\ call[c].op # "void"
    <3> DEFINE s == runs[i].status
    <3>1. call[c].op = "complete" /\ s # "running" /\ Return(c, NotRunning(s))
      BY <1>1, <1>2, <1>6, <2>1, <2>4 DEF Explain, Stands, Guard
    <3>2. runs[i] \in RunRecords
      BY <1>1, <2>4, Records DEF Known
    <3>3. s \in Statuses
      BY <3>2 DEF RunRecords
    <3> HIDE DEF s
    <3>4. NotRunning(s) \in Answers /\ NotRunning(s).kind = "not_running" /\ NotRunning(s).status = s
      BY <3>3, AnswerFacts
    <3>5. QED BY <1>5, <2>1, <3>1, <3>4
  <2>5. QED BY <2>2, <2>3, <2>4
<1>7. QED BY <1>3, <1>4, <1>6 DEF Update

(* SaveResults and ReplaceRun, up to the commit. *)
LEMMA LockSettles ==
  ASSUME Inv, NEW c \in Callers, LockRun(c) \/ ClearAndCopy(c) \/ VoidOld(c)
  PROVE  Settled(c)' /\ \A d \in Callers \ {c} : call'[d] = call[d]
<1> DEFINE i == call[c].run
<1>1. TypeOK /\ Comes(c) /\ Stands(c) /\ runs \in Seq(RunRecords)
  BY DEF Inv, TypeOK
<1>2. call[c].op \in {"save", "replace"} /\ i \in Known \cup {NoRun} /\ UNCHANGED <<runs, rows>>
  BY <1>1 DEF Comes, LockRun, ClearAndCopy, VoidOld
<1>3. ASSUME NEW a \in Answers, Return(c, a),
             \/ a.kind = "not_found" /\ i = NoRun
             \/ a.kind = "not_running" /\ a.status \notin Accepted(call[c].op)
      PROVE  Settled(c)' /\ \A d \in Callers \ {c} : call'[d] = call[d]
  <2>1. /\ call' \in [Callers -> Calls] /\ (\A d \in Callers \ {c} : call'[d] = call[d])
        /\ call'[c].pc = "idle" /\ call'[c].answer = a /\ call'[c].op = call[c].op /\ call'[c].run = i
    BY <1>1, <1>3, Returns
  <2>2. Told(c)'
    BY <1>3, <2>1 DEF Told
  <2>3. QED BY <1>1, <1>2, <2>1, <2>2, Idle DEF Known
<1>4. CASE LockRun(c)
  <2>1. CASE i \notin Known
    <3>1. i = NoRun /\ Return(c, Answer("not_found"))
      BY <1>2, <1>4, <2>1 DEF LockRun
    <3>2. Answer("not_found") \in Answers /\ Answer("not_found").kind = "not_found"
      BY AnswerFacts DEF Kinds
    <3>3. QED BY <1>3, <3>1, <3>2
  <2>2. CASE i \in Known /\ runs[i].status \notin Accepted(call[c].op)
    <3> DEFINE s == runs[i].status
    <3>1. Return(c, NotRunning(s))
      BY <1>4, <2>2 DEF LockRun
    <3>2. runs[i] \in RunRecords
      BY <1>1, <2>2, Records DEF Known
    <3>3. s \in Statuses
      BY <3>2 DEF RunRecords
    <3>4. s \notin Accepted(call[c].op)
      BY <2>2
    <3> HIDE DEF s
    <3>5. NotRunning(s) \in Answers /\ NotRunning(s).kind = "not_running" /\ NotRunning(s).status = s
      BY <3>3, AnswerFacts
    <3>6. QED BY <1>3, <3>1, <3>4, <3>5
  <2>3. CASE i \in Known /\ runs[i].status \in Accepted(call[c].op)
    <3>1. call' = [call EXCEPT ![c].pc = "locked"]
      BY <1>4, <2>3 DEF LockRun
    <3>2. /\ call' \in [Callers -> Calls] /\ (\A d \in Callers \ {c} : call'[d] = call[d])
          /\ call'[c].pc = "locked" /\ call'[c].op = call[c].op /\ call'[c].run = i
      BY <1>1, <3>1, Moves DEF Steps
    <3>3. QED BY <1>2, <2>3, <3>2 DEF Settled, Comes, Stands, Known
  <2>4. QED BY <2>1, <2>2, <2>3
<1>5. CASE ClearAndCopy(c)
  <2> DEFINE s == {x \in RowsOf(i) : x.structure = call[c].structure}
  <2>1. call[c].pc = "locked" /\ call[c].op = "save" /\ call' = [call EXCEPT ![c].pc = "written", ![c].cleared = s]
    BY <1>5 DEF ClearAndCopy
  <2>2. s \in SUBSET Batches
    BY <1>1 DEF RowsOf, TypeOK
  <2>3. /\ call' \in [Callers -> Calls] /\ (\A d \in Callers \ {c} : call'[d] = call[d])
        /\ call'[c].pc = "written" /\ call'[c].op = call[c].op /\ call'[c].run = i
        /\ call'[c].structure = call[c].structure
    BY <1>1, <2>1, <2>2, Moves DEF Steps
  <2>4. call[c] \in Calls /\ call \in [Callers -> Calls]
    BY <1>1 DEF TypeOK
  <2>5. call'[c].cleared = s
    BY <2>1, <2>4 DEF Calls
  <2>6. i \in Known /\ runs[i].status \in Accepted(call[c].op)
    BY <1>1, <2>1 DEF Stands, InTransaction
  <2>7. QED BY <1>2, <2>1, <2>3, <2>5, <2>6 DEF Settled, Comes, Stands, Known, RowsOf
<1>6. CASE VoidOld(c)
  <2>1. call[c].pc = "locked" /\ call[c].op = "replace" /\ call' = [call EXCEPT ![c].pc = "voided"]
    BY <1>6 DEF VoidOld
  <2>2. /\ call' \in [Callers -> Calls] /\ (\A d \in Callers \ {c} : call'[d] = call[d])
        /\ call'[c].pc = "voided" /\ call'[c].op = call[c].op /\ call'[c].run = i
    BY <1>1, <2>1, Moves DEF Steps
  <2>3. i \in Known /\ runs[i].status \in Accepted(call[c].op)
    BY <1>1, <2>1 DEF Stands, InTransaction
  <2>4. QED BY <1>2, <2>1, <2>2, <2>3 DEF Settled, Comes, Stands, Known
<1>7. QED BY <1>4, <1>5, <1>6

(* The commits, a connection lost and the calls that begin. *)
LEMMA EndSettles ==
  ASSUME Inv, NEW c \in Callers,
         \/ CommitSave(c) \/ CommitReplace(c) \/ LoseConnection(c)
         \/ BeginCreate(c) \/ BeginSave(c) \/ BeginOnRun(c)
  PROVE  Settled(c)' /\ \A d \in Callers \ {c} : call'[d] = call[d]
<1> DEFINE i == call[c].run
<1>1. TypeOK /\ Comes(c) /\ Stands(c) /\ runs \in Seq(RunRecords)
  BY DEF Inv, TypeOK
<1>2. CASE BeginCreate(c) \/ BeginSave(c) \/ BeginOnRun(c)
  <2>1. /\ call' \in [Callers -> Calls] /\ (\A d \in Callers \ {c} : call'[d] = call[d])
        /\ UNCHANGED <<runs, rows>> /\ call'[c].run \in Known \cup {NoRun}
        /\ \/ call'[c].op = "create" /\ call'[c].pc = "insert"
           \/ call'[c].op \in {"save", "replace"} /\ call'[c].pc = "lock"
           \/ call'[c].op \in {"complete", "void"} /\ call'[c].pc = "update"
    BY <1>1, <1>2, Begins
  <2>2. QED BY <2>1 DEF Settled, Comes, Stands, InTransaction, Known
<1>3. \A r \in Known : LoseConnection(c) \/ CommitSave(c) \/ CommitReplace(c) => r \in Known'
  BY Effects, Forward DEF Step
<1>4. CASE LoseConnection(c)
  <2>1. Answer("error") \in Answers /\ Answer("error").kind = "error"
    BY AnswerFacts DEF Kinds
  <2>2. Return(c, Answer("error"))
    BY <1>4 DEF LoseConnection
  <2>3. /\ call' \in [Callers -> Calls] /\ (\A d \in Callers \ {c} : call'[d] = call[d])
        /\ call'[c].pc = "idle" /\ call'[c].answer = Answer("error") /\ call'[c].run = i
    BY <1>1, <2>1, <2>2, Returns
  <2>4. Told(c)'
    BY <2>1, <2>3 DEF Told
  <2>5. QED BY <1>1, <1>3, <1>4, <2>3, <2>4, Idle
<1>5. CASE CommitSave(c)
  <2>1. Answer("ok") \in Answers /\ Answer("ok").kind = "ok"
    BY AnswerFacts DEF Kinds
  <2>2. Return(c, Answer("ok")) /\ call[c].op = "save"
    BY <1>1, <1>5 DEF CommitSave, Comes
  <2>3. /\ call' \in [Callers -> Calls] /\ (\A d \in Callers \ {c} : call'[d] = call[d])
        /\ call'[c].pc = "idle" /\ call'[c].answer = Answer("ok") /\ call'[c].op = "save" /\ call'[c].run = i
    BY <1>1, <2>1, <2>2, Returns
  <2>4. Told(c)'
    BY <2>1, <2>3 DEF Told
  <2>5. QED BY <1>1, <1>3, <1>5, <2>3, <2>4, Idle
<1>6. CASE CommitReplace(c)
  <2> DEFINE n == Len(runs) + 1
             a == OnRun("ok", n)
  <2>1. /\ call[c].pc = "voided" /\ call[c].op = "replace" /\ runs' = Replaced(c) /\ Return(c, a) /\ i \in Known
    BY <1>1, <1>6 DEF CommitReplace, Comes, Stands, InTransaction
  <2>2. runs[i] \in RunRecords
    BY <1>1, <2>1, Records DEF Known
  <2>3. /\ n \in Nat /\ n \in Known' /\ i \in Known'
        /\ runs'[i] = [runs[i] EXCEPT !.status = "voided", !.supersededBy = n]
        /\ runs'[n] = NewRun(runs[i].period)
    BY <1>1, <2>1, ReplacedFacts DEF Known
  <2>4. /\ runs'[i].status = "voided" /\ runs'[i].supersededBy = n
        /\ runs'[n].period = runs'[i].period
    BY <2>2, <2>3 DEF RunRecords, NewRun
  <2>5. a \in Answers /\ a.kind = "ok" /\ a.run = n
    BY <2>3, AnswerFacts DEF Kinds
  <2> HIDE DEF a, n
  <2>6. /\ call' \in [Callers -> Calls] /\ (\A d \in Callers \ {c} : call'[d] = call[d])
        /\ call'[c].pc = "idle" /\ call'[c].answer = a /\ call'[c].op = "replace" /\ call'[c].run = i
    BY <1>1, <2>1, <2>5, Returns
  <2> HIDE DEF i
  <2>7. Told(c)'
    BY <2>3, <2>4, <2>5, <2>6 DEF Told
  <2>8. QED BY <1>1, <1>3, <1>6, <2>6, <2>7, Idle DEF i
<1>7. QED BY <1>2, <1>4, <1>5, <1>6

(* A period keeps one active run, whoever inserts, voids or replaces. *)
LEMMA TablesStay ==
  ASSUME Inv, NEW c \in Callers, RunsChange(c), RowsChange(c)
  PROVE  TablesOK'
<1>1. TypeOK /\ TablesOK /\ Comes(c) /\ Stands(c) /\ runs \in Seq(RunRecords) /\ call[c].period \in Periods
  BY CallFacts DEF Inv, TypeOK
<1>2. runs' \in Seq(RunRecords) /\ \A r \in Known : r \in Known' /\ MovesForward(r)
  BY Forward
<1>3. (\A x \in rows : x.run \in Known)' /\ (\A x, y \in rows : x.run = y.run /\ x.structure = y.structure => x = y)'
  <2>1. CASE rows' = rows
    BY <1>1, <1>2, <2>1 DEF TablesOK
  <2>2. CASE call[c].pc = "written" /\ rows' = Saved(c)
    BY <1>1, <1>2, <2>2, SavedFacts DEF TablesOK
  <2>3. QED BY <2>1, <2>2 DEF RowsChange
<1>4. SUFFICES /\ \A r, s \in Known' : runs'[r].status # "voided" /\ runs'[s].status # "voided"
                                       /\ runs'[r].period = runs'[s].period => r = s
               /\ \A r \in Known' : runs'[r].status # "voided" => runs'[r].supersededBy = NoRun
  BY <1>3, <1>4 DEF TablesOK, IsActive
<1>5. /\ \A r, s \in Known : runs[r].status # "voided" /\ runs[s].status # "voided"
                             /\ runs[r].period = runs[s].period => r = s
      /\ \A r \in Known : runs[r].status # "voided" => runs[r].supersededBy = NoRun
  BY <1>1 DEF TablesOK, IsActive
<1>6. CASE UNCHANGED runs
  BY <1>5, <1>6 DEF Known
<1>7. CASE ~ Conflicts(call[c].period) /\ runs' = Append(runs, NewRun(call[c].period))
  <2> DEFINE n == Len(runs) + 1
  <2>1. Known' = Known \cup {n} /\ runs'[n] = NewRun(call[c].period) /\ \A r \in Known : runs'[r] = runs[r]
    BY <1>1, <1>7, Appended, NewRunFacts DEF Known
  <2>2. runs'[n].period = call[c].period /\ runs'[n].supersededBy = NoRun
    BY <1>1, <2>1, NewRunFacts
  <2>3. \A r \in Known : runs[r].period = call[c].period => runs[r].status = "voided"
    BY <1>7 DEF Conflicts, ActiveRuns, IsActive
  <2> HIDE DEF n
  <2>4. QED BY <1>5, <2>1, <2>2, <2>3
<1>8. CASE call[c].pc = "update" /\ call[c].run \in Known /\ Guard(c) /\ runs' = Updated(c)
  <2> DEFINE i == call[c].run
  <2>1. /\ Known' = Known /\ \A r \in Known : r # i => runs'[r] = runs[r]
    BY <1>1, <1>8, UpdatedFacts DEF Known
  <2>2. runs'[i].period = runs[i].period /\ runs'[i].supersededBy = runs[i].supersededBy
    BY <1>1, <1>8, UpdatedFacts
  <2>3. runs[i].status # "voided"
    BY <1>8 DEF Guard, IsActive
  <2> HIDE DEF i
  <2>4. \A r \in Known : /\ runs'[r].period = runs[r].period /\ runs'[r].supersededBy = runs[r].supersededBy
                         /\ runs'[r].status # "voided" => runs[r].status # "voided"
    BY <2>1, <2>2, <2>3
  <2>5. QED BY <1>5, <2>1, <2>4
<1>9. CASE call[c].pc = "voided" /\ runs' = Replaced(c)
  <2> DEFINE i == call[c].run
             n == Len(runs) + 1
  <2>1. i \in Known /\ runs[i].status # "voided"
    BY <1>1, <1>9 DEF Comes, Stands, InTransaction, Accepted
  <2>2. runs[i] \in RunRecords
    BY <1>1, <2>1, Records DEF Known
  <2>3. /\ Known' = Known \cup {n} /\ (\A r \in Known : r # i => runs'[r] = runs[r])
        /\ runs'[i] = [runs[i] EXCEPT !.status = "voided", !.supersededBy = n]
        /\ runs'[n] = NewRun(runs[i].period)
    BY <1>1, <1>9, <2>1, ReplacedFacts DEF Known
  <2>4. runs'[i].status = "voided"
    BY <2>2, <2>3 DEF RunRecords
  <2>5. runs'[n].period = runs[i].period /\ runs'[n].supersededBy = NoRun
    BY <2>3 DEF NewRun
  <2> HIDE DEF i, n
  <2>6. \A r \in Known : runs'[r].status # "voided" => runs'[r] = runs[r] /\ r # i
    BY <2>3, <2>4
  <2>7. \A r \in Known : runs'[r].status # "voided" => runs'[r].period # runs[i].period
    BY <1>5, <2>1, <2>6
  <2>8. QED BY <1>5, <2>3, <2>5, <2>6, <2>7
<1>10. QED BY <1>6, <1>7, <1>8, <1>9 DEF RunsChange

(* A row is locked by one transaction: whoever wants it waits. *)
LEMMA LocksStay ==
  ASSUME Inv, NEW c \in Callers, Step(c), Settled(c)', \A d \in Callers \ {c} : call'[d] = call[d]
  PROVE  Exclusive'
<1>1. TypeOK /\ Exclusive /\ call \in [Callers -> Calls]
  BY DEF Inv, TypeOK
<1>2. InTransaction(c)' => call'[c].run = call[c].run /\ (InTransaction(c) \/ ~ IsLocked(call[c].run))
  <2>1. CASE BeginCreate(c) \/ BeginSave(c) \/ BeginOnRun(c)
    BY <1>1, <2>1, Begins DEF InTransaction
  <2>2. CASE \E a : Return(c, a)
    <3>1. call'[c].pc = "idle"
      BY <1>1, <2>2 DEF Return, Calls
    <3>2. QED BY <3>1 DEF InTransaction
  <2>3. ASSUME NEW p \in {"lookup", "insert", "explain"},
               call' = [call EXCEPT ![c].pc = p] \/ call' = [call EXCEPT ![c].pc = p, ![c].tries = @ + 1]
        PROVE  ~ InTransaction(c)'
    <3>1. p \in Steps
      BY <2>3 DEF Steps
    <3>2. call'[c].pc = p
      BY <1>1, <2>3, <3>1, Moves
    <3>3. QED BY <2>3, <3>2 DEF InTransaction
  <2>4. CASE Insert(c) \/ LookUpWinner(c) \/ Update(c) \/ Explain(c)
    BY <2>2, <2>3, <2>4 DEF Insert, LookUpWinner, Update, Explain
  <2>5. CASE CommitSave(c) \/ CommitReplace(c) \/ LoseConnection(c)
    BY <2>2, <2>5 DEF CommitSave, CommitReplace, LoseConnection
  <2>6. CASE LockRun(c)
    <3>1. ~ IsLocked(call[c].run) /\ ((\E a : Return(c, a)) \/ call' = [call EXCEPT ![c].pc = "locked"])
      BY <2>6 DEF LockRun
    <3>2. call' = [call EXCEPT ![c].pc = "locked"] => call'[c].run = call[c].run
      BY <1>1, Moves DEF Steps
    <3>3. QED BY <2>2, <3>1, <3>2
  <2>7. CASE ClearAndCopy(c) \/ VoidOld(c)
    <3>1. InTransaction(c)
      BY <2>7 DEF ClearAndCopy, VoidOld, InTransaction
    <3>2. call'[c].run = call[c].run
      BY <1>1, <2>7 DEF ClearAndCopy, VoidOld, Calls
    <3>3. QED BY <3>1, <3>2
  <2>8. QED BY <2>1, <2>4, <2>5, <2>6, <2>7 DEF Step
<1>3. \A d \in Callers \ {c} : InTransaction(d)' = InTransaction(d) /\ call'[d].run = call[d].run
  BY DEF InTransaction
<1>4. ASSUME NEW d \in Callers, d # c, InTransaction(c)', InTransaction(d)', call'[c].run = call'[d].run
      PROVE  FALSE
  <2>1. InTransaction(d) /\ call[d].run = call[c].run
    BY <1>2, <1>3, <1>4
  <2>2. IsLocked(call[c].run)
    BY <2>1 DEF IsLocked
  <2>3. InTransaction(c)
    BY <1>2, <1>4, <2>2
  <2>4. QED BY <1>1, <1>4, <2>1, <2>3 DEF Exclusive
<1>5. ASSUME NEW d \in Callers, NEW e \in Callers, d # c, e # c,
             InTransaction(d)', InTransaction(e)', call'[d].run = call'[e].run
      PROVE  d = e
  BY <1>1, <1>3, <1>5 DEF Exclusive
<1>6. QED BY <1>4, <1>5 DEF Exclusive

(* Every step keeps the invariant. *)
LEMMA StepInv ==
  ASSUME Inv, [Next]_vars
  PROVE  Inv'
<1>1. CASE UNCHANGED vars
  BY <1>1 DEF vars, Inv, TypeOK, TablesOK, Exclusive, Comes, Stands, Told, Known, IsActive, RowsOf, InTransaction,
     Guard
<1>2. ASSUME NEW c \in Callers, Step(c) PROVE Inv'
  <2>1. RunsChange(c) /\ RowsChange(c)
    BY <1>2, Effects
  <2>2. Settled(c)' /\ \A d \in Callers \ {c} : call'[d] = call[d]
    BY <1>2, CreateSettles, UpdateSettles, LockSettles, EndSettles DEF Step
  <2>3. runs' \in Seq(RunRecords) /\ rows' \in SUBSET Batches
    BY <2>1, Forward
  <2>4. calls' \in Nat /\ lost' \in Nat
    <3>1. calls \in Nat /\ lost \in Nat
      BY DEF Inv, TypeOK
    <3>2. calls' \in {calls, calls + 1} /\ lost' \in {lost, lost + 1}
      BY <1>2 DEF Step, BeginCreate, BeginSave, BeginOnRun, Begin, Insert, LookUpWinner, Update, Explain, LockRun,
         ClearAndCopy, CommitSave, VoidOld, CommitReplace, LoseConnection
    <3>3. QED BY <3>1, <3>2
  <2>5. TypeOK'
    BY <2>2, <2>3, <2>4 DEF TypeOK, Settled
  <2>6. TablesOK' /\ Exclusive'
    BY <1>2, <2>1, <2>2, TablesStay, LocksStay
  <2>7. ASSUME NEW d \in Callers PROVE (Comes(d) /\ Stands(d) /\ (call[d].pc = "idle" => Told(d)))'
    <3>1. CASE d = c
      BY <2>2, <3>1 DEF Settled
    <3>2. CASE d # c
      BY <2>1, <2>2, <3>2, OthersStay
    <3>3. QED BY <3>1, <3>2
  <2>8. QED BY <2>5, <2>6, <2>7 DEF Inv
<1>3. QED BY <1>1, <1>2 DEF Next, Done

(* The store begins empty and every caller idle. *)
LEMMA InitInv == Init => Inv
<1> SUFFICES ASSUME Init PROVE Inv
  OBVIOUS
<1>1. NoCall \in Calls
  BY DEF NoCall, Calls, Periods, Answers, Kinds
<1>2. runs = <<>> /\ rows = {} /\ Known = {} /\ call = [c \in Callers |-> NoCall] /\ calls = 0 /\ lost = 0
  BY DEF Init, Known
<1>3. TypeOK
  BY <1>1, <1>2 DEF TypeOK
<1>4. \A c \in Callers : call[c].pc = "idle" /\ call[c].run = NoRun /\ call[c].answer.kind = "none"
  BY <1>2 DEF NoCall
<1>5. QED BY <1>2, <1>3, <1>4 DEF Inv, TablesOK, Exclusive, Comes, Stands, Told, InTransaction

(* The invariant, for any callers, periods, structures and bounds. *)
THEOREM Invariance == Spec => []Inv
<1>1. Inv /\ [Next]_vars => Inv'
  BY StepInv
<1>2. QED BY InitInv, <1>1, PTL DEF Spec

(* What was recorded of a run only moves forward, whoever saves, completes,*)
(* voids or replaces it at the same time.                                  *)
THEOREM RunsMoveForward == Spec => RunsOnlyMoveForward
<1>1. Inv /\ [Next]_vars => [\A r \in Known : MovesForward(r)]_vars
  <2>1. ASSUME Inv, NEW c \in Callers, Step(c) PROVE \A r \in Known : MovesForward(r)
    BY <2>1, Effects, Forward
  <2>2. QED BY <2>1 DEF Next, Done
<1>2. QED BY Invariance, <1>1, PTL DEF Spec, RunsOnlyMoveForward

(* What a caller was told holds from then on, and a period shows one run's *)
(* results.                                                                *)
THEOREM ToldTheTruth == Spec => []AnswersHold
<1>1. Inv => AnswersHold
  <2> SUFFICES ASSUME Inv PROVE AnswersHold
    OBVIOUS
  <2>1. ASSUME NEW c \in Callers, call[c].pc = "idle" PROVE Holds(c)
    <3>1. Told(c)
      BY <2>1 DEF Inv
    <3>2. QED BY <3>1 DEF Told, Holds
  <2>2. ASSUME NEW p \in PeriodIds PROVE Cardinality(ActiveRuns(p)) <= 1
    <3>1. \A r, s \in ActiveRuns(p) : r = s
      BY DEF Inv, TablesOK, ActiveRuns
    <3>2. CASE ActiveRuns(p) = {}
      BY <3>2, FS_EmptySet
    <3>3. CASE ActiveRuns(p) # {}
      <4>1. PICK r : ActiveRuns(p) = {r}
        BY <3>1, <3>3
      <4>2. Cardinality(ActiveRuns(p)) = 1
        BY <4>1, FS_Singleton
      <4>3. QED BY <4>2
    <3>4. QED BY <3>2, <3>3
  <2>3. ASSUME NEW p \in PeriodIds, NEW x \in LiveRows(p), NEW y \in LiveRows(p)
        PROVE  x.run = y.run /\ (x.structure = y.structure => x = y)
    <3>1. /\ x \in rows /\ y \in rows /\ runs[x.run].period = runs[y.run].period
          /\ runs[x.run].status = "complete" /\ runs[y.run].status = "complete"
      BY DEF LiveRows
    <3>2. x.run = y.run
      BY <3>1 DEF Inv, TablesOK, IsActive
    <3>3. QED BY <3>1, <3>2 DEF Inv, TablesOK
  <2>4. QED BY <2>1, <2>2, <2>3 DEF AnswersHold
<1>2. QED BY <1>1, Invariance, PTL

-----------------------------------------------------------------------------
(***************************************************************************)
(* The worker.                                                             *)
(***************************************************************************)
(* What the callers know is what the worker holds, and the identity it     *)
(* keeps beside a plan is that plan's own.                                 *)
WorkerTold ==
    /\ view = [plan |-> plan, trees |-> trees]
    /\ plan # NoPlan => identity = plan.hash

(* The last answer, when it is a calculation's. *)
Calculated ==
    answer.kind = "calculated" =>
        /\ answer.by = plan.hash /\ answer.hash \in {plan.hash, NoPlan}
        /\ answer.on = trees[answer.name]

WorkerInv == WorkerTold /\ Calculated

(* A step that leaves the worker as it was and answers with no calculation *)
(* keeps the invariant.                                                    *)
LEMMA QuietStep ==
  ASSUME WorkerTold, UNCHANGED <<plan, identity, trees, view>>, answer'.kind # "calculated"
  PROVE  WorkerInv'
  BY DEF WorkerInv, WorkerTold, Calculated

(* A refusal is an error, whatever its code, and tells the callers nothing.*)
LEMMA Refusal ==
  ASSUME NEW code, Fail(code)
  PROVE  answer'.kind # "calculated" /\ view' = view
  BY DEF Fail

(* A step that changes one structure, and tells the callers so. *)
LEMMA ChangeStep ==
  ASSUME WorkerTold, UNCHANGED <<plan, identity>>, answer'.kind # "calculated",
         view' = [view EXCEPT !.trees = trees']
  PROVE  WorkerInv'
  BY DEF WorkerInv, WorkerTold, Calculated

(* load_plan sets the plan and its identity together or neither. *)
LEMMA LoadPlanStep ==
  ASSUME WorkerTold, NEW p \in Plans, LoadPlan(p)
  PROVE  WorkerInv'
<1>1. CASE ~p.version2 \/ ~p.valid
  <2>1. /\ \E code : Fail(code)
        /\ UNCHANGED <<plan, identity, trees>>
    BY <1>1 DEF LoadPlan
  <2>2. QED BY <2>1, Refusal, QuietStep
<1>2. CASE p.version2 /\ p.valid
  <2>1. /\ identity' = p.hash /\ plan' = p /\ trees' = trees
        /\ answer' = [kind |-> "loaded", hash |-> p.hash]
        /\ view' = [view EXCEPT !.plan = p]
    BY <1>2 DEF LoadPlan
  <2>2. view' = [plan |-> p, trees |-> trees]
    BY <2>1 DEF WorkerTold
  <2>3. answer'.kind = "loaded"
    BY <2>1
  <2>4. QED BY <2>1, <2>2, <2>3 DEF WorkerInv, WorkerTold, Calculated
<1>3. QED BY <1>1, <1>2

(* A structure is created, restored, mutated or dropped, or nothing is. *)
LEMMA StructureStep ==
  ASSUME WorkerTold, NEW n,
         \/ \E k, bad : Create(n, k, bad)
         \/ DropStructure(n)
         \/ \E op : Mutate(n, op)
         \/ \E damage : RestoreSnapshot(n, damage)
  PROVE  WorkerInv'
<1>1. view.trees = trees
  BY DEF WorkerTold
<1>2. ASSUME NEW k, NEW bad, Create(n, k, bad) PROVE WorkerInv'
  <2>1. UNCHANGED <<plan, identity>>
    BY <1>2 DEF Create
  <2>2. CASE n \in DOMAIN trees \/ bad
    <3>1. trees' = trees /\ \E code : Fail(code)
      BY <1>2, <2>2 DEF Create
    <3>2. QED BY <2>1, <3>1, Refusal, QuietStep
  <2>3. CASE ~(n \in DOMAIN trees \/ bad)
    <3>1. /\ trees' = With(trees, n, [kind |-> k, content |-> 0]) /\ answer' = [kind |-> "created"]
          /\ view' = [view EXCEPT !.trees = With(view.trees, n, [kind |-> k, content |-> 0])]
      BY <1>2, <2>3 DEF Create
    <3>2. QED BY <1>1, <2>1, <3>1, ChangeStep
  <2>4. QED BY <2>2, <2>3
<1>3. CASE DropStructure(n)
  <2>1. /\ trees' = Without(trees, n) /\ view' = [view EXCEPT !.trees = Without(view.trees, n)]
        /\ answer'.kind = "dropped" /\ UNCHANGED <<plan, identity>>
    BY <1>3 DEF DropStructure
  <2>2. QED BY <1>1, <2>1, ChangeStep
<1>4. ASSUME NEW op, Mutate(n, op) PROVE WorkerInv'
  <2>1. UNCHANGED <<plan, identity>>
    BY <1>4 DEF Mutate
  <2>2. CASE LookUp(n, op) # "found" \/ ~EngineAccepts(n)
    <3>1. trees' = trees /\ \E code : Fail(code)
      BY <1>4, <2>2 DEF Mutate
    <3>2. QED BY <2>1, <3>1, Refusal, QuietStep
  <2>3. CASE ~(LookUp(n, op) # "found" \/ ~EngineAccepts(n))
    <3>1. /\ trees' = Mutated(trees, n) /\ answer' = [kind |-> "applied"]
          /\ view' = [view EXCEPT !.trees = Mutated(view.trees, n)]
      BY <1>4, <2>3 DEF Mutate
    <3>2. QED BY <1>1, <2>1, <3>1, ChangeStep
  <2>4. QED BY <2>2, <2>3
<1>5. ASSUME NEW damage, RestoreSnapshot(n, damage) PROVE WorkerInv'
  <2>1. UNCHANGED <<plan, identity>>
    BY <1>5 DEF RestoreSnapshot
  <2>2. CASE n \in DOMAIN trees \/ damage # "none"
    <3>1. trees' = trees /\ \E code : Fail(code)
      BY <1>5, <2>2 DEF RestoreSnapshot
    <3>2. QED BY <2>1, <3>1, Refusal, QuietStep
  <2>3. CASE ~(n \in DOMAIN trees \/ damage # "none")
    <3>1. /\ trees' = With(trees, n, kept) /\ answer' = [kind |-> "restored"]
          /\ view' = [view EXCEPT !.trees = With(view.trees, n, kept)]
      BY <1>5, <2>3 DEF RestoreSnapshot
    <3>2. QED BY <1>1, <2>1, <3>1, ChangeStep
  <2>4. QED BY <2>2, <2>3
<1>6. QED BY <1>2, <1>3, <1>4, <1>5

(* A check, a query or a snapshot leaves nothing behind. *)
LEMMA LookStep ==
  ASSUME WorkerTold, NEW n,
         \/ \E op : CheckMutation(n, op) \/ Query(n, op)
         \/ TakeSnapshot(n) \/ CalculateBoard(n)
  PROVE  WorkerInv'
<1>1. UNCHANGED <<plan, identity, trees>>
  BY DEF CheckMutation, Query, TakeSnapshot, CalculateBoard
<1>2. view' = view /\ answer'.kind # "calculated"
  <2>1. CASE \E code : Fail(code)
    BY <2>1, Refusal
  <2>2. CASE ~ \E code : Fail(code)
    <3>1. ASSUME NEW op, CheckMutation(n, op) PROVE view' = view /\ answer' = [kind |-> "checked"]
      BY <2>2, <3>1 DEF CheckMutation
    <3>2. ASSUME NEW op, Query(n, op)
          PROVE  view' = view /\ answer' = [kind |-> "shown", name |-> n, structure |-> trees[n]]
      BY <2>2, <3>2 DEF Query
    <3>3. ASSUME TakeSnapshot(n)
          PROVE  view' = view /\ answer' = [kind |-> "shown", name |-> n, structure |-> trees[n]]
      BY <2>2, <3>3 DEF TakeSnapshot
    <3>4. ASSUME CalculateBoard(n)
          PROVE  view' = view /\ answer' = [kind |-> "board_calculated", by |-> plan.hash]
      BY <2>2, <3>4 DEF CalculateBoard
    <3>5. view' = view
      BY <3>1, <3>2, <3>3, <3>4
    <3>6. answer'.kind \in {"checked", "shown", "board_calculated"}
      BY <3>1, <3>2, <3>3, <3>4
    <3>7. QED BY <3>5, <3>6
  <2>3. QED BY <2>1, <2>2
<1>3. QED BY <1>1, <1>2, QuietStep

(* A calculation answers with the plan it used and the structure it read. *)
LEMMA CalculateStep ==
  ASSUME WorkerTold, NEW n, NEW c, Calculate(n, c)
  PROVE  WorkerInv'
<1>1. UNCHANGED <<plan, identity, trees>>
  BY DEF Calculate
<1>2. CASE \E code : Fail(code)
  BY <1>1, <1>2, Refusal, QuietStep
<1>3. CASE ~ \E code : Fail(code)
  <2>1. /\ HasPlan(c.namesPlan) = "found" /\ view' = view
        /\ answer' = [kind |-> "calculated", by |-> plan.hash, on |-> trees[n], name |-> n,
                      hash |-> IF c.namesPlan THEN identity ELSE NoPlan]
    BY <1>3 DEF Calculate
  <2>2. identity = plan.hash
    BY <2>1 DEF HasPlan, WorkerTold
  <2>3. /\ answer'.by = plan.hash /\ answer'.on = trees[n] /\ answer'.name = n
        /\ answer'.hash \in {plan.hash, NoPlan}
    BY <2>1, <2>2
  <2>4. QED BY <1>1, <2>1, <2>3 DEF WorkerInv, WorkerTold, Calculated
<1>4. QED BY <1>2, <1>3

(* The plan loaded is the one last answered as loaded, every structure is  *)
(* what the accepted requests make it, and a calculation names the plan    *)
(* and reads the structure the callers know.                               *)
THEOREM WorkerTellsAll == WorkerSpec => []AnswersTellAll
<1>1. WorkerInit => WorkerInv
  BY DEF WorkerInit, WorkerInv, WorkerTold, Calculated
<1>2. WorkerInv /\ [Dispatch]_workerVars => WorkerInv'
  <2> SUFFICES ASSUME WorkerInv, [Dispatch]_workerVars PROVE WorkerInv'
    OBVIOUS
  <2>1. WorkerTold
    BY DEF WorkerInv
  <2>2. CASE UNCHANGED workerVars
    BY <2>2 DEF workerVars, WorkerInv, WorkerTold, Calculated
  <2>3. CASE Dispatch
    BY <2>1, <2>3, LoadPlanStep, StructureStep, LookStep, CalculateStep
       DEF Dispatch, CreateTree, CreateBoardPlan, CreateStreamline
  <2>4. QED BY <2>2, <2>3
<1>3. WorkerInv => AnswersTellAll
  BY DEF WorkerInv, WorkerTold, Calculated, AnswersTellAll
<1>4. QED BY <1>1, <1>2, <1>3, PTL DEF WorkerSpec

=============================================================================
