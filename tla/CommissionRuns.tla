--------------------------- MODULE CommissionRuns ---------------------------
(***************************************************************************)
(* The commission run store: callers open, fill, complete, void and        *)
(* replace the runs of a period through PostgreSQL, several at a time.     *)
(* A statement outside a transaction commits by itself; a transaction      *)
(* (SaveResults, ReplaceRun) holds the lock on its run's row until it      *)
(* ends, and writers of that row wait.  Waiting is a disabled action.  A   *)
(* call may lose its connection at any point: a transaction is rolled      *)
(* back, or the commit happened and the caller is not told.  A batch of    *)
(* result rows is the number of the call that wrote it.                    *)
(***************************************************************************)
EXTENDS Integers, FiniteSets, Sequences

CONSTANTS
    Callers, PeriodIds, Structures,
    MaxRuns, MaxCalls, MaxLost,
    NoRun           \* no run id: nothing refers to it, no table holds it

(* Ids are numbers from 1. *)
ASSUME NoRunIsNoId == NoRun \notin Nat \ {0}

VARIABLES
    runs,           \* the committed table of runs, by id in order of insertion
    rows,           \* the committed result rows: run, structure and batch
    call,           \* caller -> the call in progress, or the last one
    calls, lost     \* calls begun, connections lost

vars == <<runs, rows, call, calls, lost>>

NewRun(period) == [period |-> period, status |-> "running", carry |-> 0, supersededBy |-> NoRun]

NoCall == [op |-> "none", pc |-> "idle", n |-> 0, period |-> 0, run |-> NoRun,
           structure |-> "", empty |-> FALSE, tries |-> 0, cleared |-> {}, answer |-> [kind |-> "none"]]

Init ==
    /\ runs = <<>> /\ rows = {}
    /\ call = [c \in Callers |-> NoCall]
    /\ calls = 0 /\ lost = 0

Known == DOMAIN runs
IsActive(r) == runs[r].status # "voided"
ActiveRuns(period) == {r \in Known : runs[r].period = period /\ IsActive(r)}
RowsOf(r) == {x \in rows : x.run = r}

(* What GetLiveResults reads, in one statement. *)
LiveRows(period) ==
    {x \in rows : runs[x.run].period = period /\ runs[x.run].status = "complete"}

InTransaction(c) == call[c].pc \in {"locked", "written", "voided"}
(* Mutant: run rows read without FOR UPDATE. *)
NeverLocked(r) == r \in {}
IsLocked(r) == \E c \in Callers : InTransaction(c) /\ call[c].run = r

(* An uncommitted void makes the unique index wait for its outcome. *)
IndexIsHeld(period) == \E c \in Callers : call[c].pc = "voided" /\ runs[call[c].run].period = period

Conflicts(period) == ActiveRuns(period) # {}

-----------------------------------------------------------------------------
Begin(c, new) ==
    /\ call[c].pc = "idle" /\ calls < MaxCalls
    /\ calls' = calls + 1
    /\ call' = [call EXCEPT ![c] = [new EXCEPT !.n = calls + 1]]
    /\ UNCHANGED <<runs, rows, lost>>

(* A bound: every run ever asked for may get an id. *)
RunsLeft == Len(runs) + Cardinality({c \in Callers : call[c].pc # "idle"
                                        /\ call[c].op \in {"create", "replace"}}) < MaxRuns

BeginCreate(c) ==
    RunsLeft /\ \E p \in PeriodIds : Begin(c, [NoCall EXCEPT !.op = "create", !.pc = "insert", !.period = p])

BeginSave(c) ==
    \E r \in Known \cup {NoRun}, s \in Structures, e \in BOOLEAN :
        Begin(c, [NoCall EXCEPT !.op = "save", !.pc = "lock", !.run = r, !.structure = s, !.empty = e])

BeginOnRun(c) ==
    \E r \in Known \cup {NoRun}, op \in {"complete", "void", "replace"} :
        /\ op = "replace" => RunsLeft
        /\ Begin(c, [NoCall EXCEPT !.op = op, !.run = r,
                                   !.pc = IF op = "replace" THEN "lock" ELSE "update"])

Return(c, answer) == call' = [call EXCEPT ![c].pc = "idle", ![c].cleared = {}, ![c].answer = answer]
Answer(kind) == [kind |-> kind]
OnRun(kind, r) == [kind |-> kind, run |-> r]
NotRunning(status) == [kind |-> "not_running", status |-> status]

-----------------------------------------------------------------------------
(* CreateRun: insert; on a conflict look for the winner; try once more.    *)
Insert(c) ==
    /\ call[c].pc = "insert" /\ ~IndexIsHeld(call[c].period)
    /\ IF Conflicts(call[c].period)
       THEN call' = [call EXCEPT ![c].pc = "lookup", ![c].tries = @ + 1] /\ UNCHANGED runs
       ELSE /\ runs' = Append(runs, NewRun(call[c].period))
            /\ Return(c, OnRun("ok", Len(runs) + 1))
    /\ UNCHANGED <<rows, calls, lost>>

LookUpWinner(c) ==
    /\ call[c].pc = "lookup"
    /\ LET winners == ActiveRuns(call[c].period)
       IN  IF winners # {} THEN \E r \in winners : Return(c, OnRun("live_run_exists", r))
           ELSE IF call[c].tries < 2 THEN call' = [call EXCEPT ![c].pc = "insert"]
           ELSE Return(c, Answer("conflicted_twice"))
    /\ UNCHANGED <<runs, rows, calls, lost>>

(* CompleteRun and VoidRun: one guarded update; when it meets no row, a    *)
(* second statement reads why.                                             *)
Guard(c) == IF call[c].op = "complete" THEN runs[call[c].run].status = "running"
            ELSE IsActive(call[c].run)

Updated(c) ==
    LET r == call[c].run
    IN  IF call[c].op = "complete"
        THEN [runs EXCEPT ![r].status = "complete", ![r].carry = call[c].n]
        ELSE [runs EXCEPT ![r].status = "voided"]

Update(c) ==
    /\ call[c].pc = "update" /\ ~IsLocked(call[c].run)
    /\ IF call[c].run \in Known /\ Guard(c)
       THEN runs' = Updated(c) /\ Return(c, Answer("ok"))
       ELSE call' = [call EXCEPT ![c].pc = "explain"] /\ UNCHANGED runs
    /\ UNCHANGED <<rows, calls, lost>>

Explain(c) ==
    /\ call[c].pc = "explain"
    /\ IF call[c].run \notin Known THEN Return(c, Answer("not_found"))
       ELSE IF call[c].op = "void" THEN Return(c, Answer("ok"))
       ELSE Return(c, NotRunning(runs[call[c].run].status))
    /\ UNCHANGED <<runs, rows, calls, lost>>

(* SaveResults and ReplaceRun: lock the run's row and look at its status. *)
Accepted(op) == IF op = "replace" THEN {"running", "complete"} ELSE {"running"}

LockRun(c) ==
    /\ call[c].pc = "lock" /\ ~IsLocked(call[c].run)
    /\ LET r == call[c].run
       IN  IF r \notin Known THEN Return(c, Answer("not_found"))
           ELSE IF runs[r].status \notin Accepted(call[c].op) THEN Return(c, NotRunning(runs[r].status))
           ELSE call' = [call EXCEPT ![c].pc = "locked"]
    /\ UNCHANGED <<runs, rows, calls, lost>>

(* Mutant: copying without the delete. *)
CopyOnly(c) ==
    /\ call[c].op = "save" /\ call[c].pc = "locked"
    /\ call' = [call EXCEPT ![c].pc = "written"]
    /\ UNCHANGED <<runs, rows, calls, lost>>

(* SaveResults deletes the structure's rows it can see and copies its own  *)
(* in; both show at the commit.                                            *)
ClearAndCopy(c) ==
    /\ call[c].op = "save" /\ call[c].pc = "locked"
    /\ call' = [call EXCEPT ![c].pc = "written",
                            ![c].cleared = {x \in RowsOf(call[c].run) : x.structure = call[c].structure}]
    /\ UNCHANGED <<runs, rows, calls, lost>>

Saved(c) == (rows \ call[c].cleared)
            \cup IF call[c].empty THEN {}
                 ELSE {[run |-> call[c].run, structure |-> call[c].structure, batch |-> call[c].n]}

CommitSave(c) ==
    /\ call[c].pc = "written"
    /\ rows' = Saved(c) /\ Return(c, Answer("ok"))
    /\ UNCHANGED <<runs, calls, lost>>

(* ReplaceRun voids the old run, inserts its replacement for the period    *)
(* read under the lock, and links them, then commits.                      *)
VoidOld(c) ==
    /\ call[c].op = "replace" /\ call[c].pc = "locked"
    /\ call' = [call EXCEPT ![c].pc = "voided"]
    /\ UNCHANGED <<runs, rows, calls, lost>>

Replaced(c) ==
    LET old == call[c].run
    IN  Append([runs EXCEPT ![old].status = "voided", ![old].supersededBy = Len(runs) + 1],
               NewRun(runs[old].period))

CommitReplace(c) ==
    /\ call[c].pc = "voided"
    /\ runs' = Replaced(c) /\ Return(c, OnRun("ok", Len(runs) + 1))
    /\ UNCHANGED <<rows, calls, lost>>

(* The connection is lost: before the commit, which undoes the             *)
(* transaction, or after it.                                               *)
LoseConnection(c) ==
    /\ call[c].pc # "idle" /\ lost < MaxLost
    /\ lost' = lost + 1
    /\ Return(c, Answer("error"))
    /\ \/ UNCHANGED <<runs, rows>>
       \/ /\ call[c].pc = "written" /\ rows' = Saved(c) /\ UNCHANGED runs
       \/ /\ call[c].pc = "voided" /\ runs' = Replaced(c) /\ UNCHANGED rows
       \/ /\ call[c].pc = "update" /\ ~IsLocked(call[c].run)
          /\ call[c].run \in Known /\ Guard(c)
          /\ runs' = Updated(c) /\ UNCHANGED rows
       \/ /\ call[c].pc = "insert" /\ ~IndexIsHeld(call[c].period)
          /\ ~Conflicts(call[c].period)
          /\ runs' = Append(runs, NewRun(call[c].period)) /\ UNCHANGED rows
    /\ UNCHANGED calls

Step(c) ==
    \/ BeginCreate(c) \/ BeginSave(c) \/ BeginOnRun(c)
    \/ Insert(c) \/ LookUpWinner(c) \/ Update(c) \/ Explain(c)
    \/ LockRun(c) \/ ClearAndCopy(c) \/ CommitSave(c) \/ VoidOld(c) \/ CommitReplace(c)
    \/ LoseConnection(c)

(* Every caller has its answer and no call is left in the bound. *)
Done == calls = MaxCalls /\ (\A c \in Callers : call[c].pc = "idle") /\ UNCHANGED vars

Next == Done \/ \E c \in Callers : Step(c)

Spec == Init /\ [][Next]_vars

Rank(status) == CASE status = "running" -> 0 [] status = "complete" -> 1 [] status = "voided" -> 2

MovesForward(r) ==
    /\ runs'[r].period = runs[r].period
    /\ Rank(runs'[r].status) >= Rank(runs[r].status)
    /\ runs[r].supersededBy # NoRun => runs'[r].supersededBy = runs[r].supersededBy
    /\ runs[r].status # "running" =>
          runs'[r].carry = runs[r].carry /\ RowsOf(r)' = RowsOf(r)

(***************************************************************************)
(* The record of a run only moves forward.  Once a run is no longer        *)
(* running, neither its result rows nor its carry-forward ever change, so  *)
(* what was visible as the period's payout stays readable as it was;       *)
(* status goes from running to complete to voided and never back, a link   *)
(* to the replacement is set once, and a run keeps its period.             *)
(* (SaveResults' FOR UPDATE, the guards of completeRunSQL and voidRunSQL,  *)
(* the comment on explainRunGuardFailure.)                                 *)
(***************************************************************************)
RunsOnlyMoveForward == [][\A r \in Known : MovesForward(r)]_vars

(***************************************************************************)
(* What a caller was told is so, whatever others did since: a run it       *)
(* opened exists for its period, a conflict names a run that exists, a     *)
(* completed run carries the caller's own carry-forward, a refusal never   *)
(* says a running run is not running, a voided run is voided, and a        *)
(* replacement is in the old run's period and linked from it.  And a       *)
(* period shows one run's results, one batch for a structure, however      *)
(* often a save was repeated.                                              *)
(***************************************************************************)
Holds(c) ==
    LET k == call[c] a == call[c].answer
    IN  CASE a.kind = "ok" /\ k.op = "create" -> a.run \in Known /\ runs[a.run].period = k.period
          [] a.kind = "live_run_exists" -> a.run \in Known /\ runs[a.run].period = k.period
          [] a.kind = "not_found" -> k.run = NoRun
          [] a.kind = "not_running" -> a.status \notin Accepted(k.op)
          [] a.kind = "ok" /\ k.op = "complete" ->
                runs[k.run].status # "running" /\ runs[k.run].carry = k.n
          [] a.kind = "ok" /\ k.op = "void" -> runs[k.run].status = "voided"
          [] a.kind = "ok" /\ k.op = "replace" ->
                /\ runs[k.run].status = "voided" /\ runs[k.run].supersededBy = a.run
                /\ a.run \in Known /\ runs[a.run].period = runs[k.run].period
          [] OTHER -> TRUE

AnswersHold ==
    /\ \A c \in Callers : call[c].pc = "idle" => Holds(c)
    /\ \A p \in PeriodIds :
          /\ Cardinality(ActiveRuns(p)) <= 1
          /\ \A x, y \in LiveRows(p) : x.run = y.run /\ (x.structure = y.structure => x = y)

=============================================================================
