----------------------------- MODULE RankDriver -----------------------------
(***************************************************************************)
(* The rank driver: it evaluates a plan's periods in a worker, oldest      *)
(* first, and keeps the ranks in the qualification history that later      *)
(* periods' windows and tenures read.  The worker may restart without its  *)
(* plan and structures, the input figures of any period may be corrected   *)
(* at any time, a save may fail or its answer be lost, and the driver may  *)
(* crash; a later job then starts over.  EvaluatePeriod alone is a         *)
(* backfill of one period.  One driver runs at a time.                     *)
(***************************************************************************)
EXTENDS RankEvaluation

CONSTANTS
    Ladders,        \* the rank ladders a plan may have,
    BadLadders,     \* and ladders a worker is to refuse
    TreesOf,        \* structure name -> tree: what the worker is given to hold,
    OtherTrees,     \* and the names of those it may hold for other ladders
    Figures,        \* a period's input figures: distributors and volume
    Periods,        \* the number of periods since the plan's start
    MaxJobs, MaxCorrections, MaxFaults

VARIABLES
    plan,           \* the driver's rank ladder
    ladder,         \* the ladder loaded in the worker, <<>> before load_plan
    loaded,         \* the structures loaded in the worker
    figures,        \* period -> its input figures as they stand
    history,        \* period -> user -> ordinal: the qualification history
    used,           \* period -> the figures its saved rows were computed from
    job,            \* the running or the last job
    spent           \* the jobs, corrections and faults so far

vars == <<plan, ladder, loaded, figures, history, used, job, spent>>

Idle == [pc |-> "idle", from |-> 0, to |-> 0, at |-> 0, ranks |-> <<>>, figures |-> <<>>, answer |-> ""]

Init ==
    /\ plan \in Ladders
    /\ ladder = <<>> /\ loaded = {}
    /\ figures \in [1 .. Periods -> {Figures[1]}]
    /\ history = [p \in 1 .. Periods |-> <<>>]
    /\ used = [p \in 1 .. Periods |-> <<>>]
    /\ job = Idle
    /\ spent = [jobs |-> 0, corrections |-> 0, faults |-> 0]

(***************************************************************************)
(* The worker and the figures, which others change under the driver.       *)
(***************************************************************************)
Worker == <<ladder, loaded>>
Store == <<history, used>>
Fault == spent.faults < MaxFaults /\ spent' = [spent EXCEPT !.faults = @ + 1]

LoadPlan ==
    /\ \E l \in {plan} \cup BadLadders :
          ladder' = IF LadderIsValid(l) THEN l ELSE ladder
    /\ UNCHANGED <<plan, loaded, figures, Store, job, spent>>

LoadStructure ==
    /\ \E name \in (StructuresAboveLowestRank(plan) \cup OtherTrees) \ loaded :
          loaded' = loaded \cup {name}
    /\ UNCHANGED <<plan, ladder, figures, Store, job, spent>>

WorkerRestarts ==
    /\ Fault
    /\ ladder' = <<>> /\ loaded' = {}
    /\ UNCHANGED <<plan, figures, Store, job>>

Correct ==
    /\ spent.corrections < MaxCorrections
    /\ \E p \in 1 .. Periods, f \in Range(Figures) :
          figures[p] # f /\ figures' = [figures EXCEPT ![p] = f]
    /\ spent' = [spent EXCEPT !.corrections = @ + 1]
    /\ UNCHANGED <<plan, Worker, Store, job>>

(***************************************************************************)
(* The driver.                                                             *)
(***************************************************************************)
Backfill ==
    /\ job.pc = "idle" /\ spent.jobs < MaxJobs
    /\ spent' = [spent EXCEPT !.jobs = @ + 1]
    /\ \E from, to \in 0 .. Periods :
          job' = CASE from < 1 -> [Idle EXCEPT !.answer = "before_start"]
                   [] from >= 1 /\ to < from -> [Idle EXCEPT !.answer = "empty_range"]
                   [] OTHER -> [Idle EXCEPT !.pc = "evaluate", !.from = from, !.to = to, !.at = from]
    /\ UNCHANGED <<plan, Worker, figures, Store>>

Stop(answer) == job' = [Idle EXCEPT !.from = job.from, !.to = job.to, !.at = job.at, !.answer = answer]

MaxHistoryDepth(l) ==
    Max({0} \cup UNION {{g.periods : g \in Range(r.window) \cup Range(r.tenure)} : r \in Range(l)})

PriorLabels(at, depth) == [i \in 1 .. depth |-> at - i]

(* A period before the plan's start has no rows. *)
BuildHistoryWindow(users, axis, rows) ==
    [u \in users |-> LET kept == {p \in Range(axis) \cap DOMAIN rows : u \in DOMAIN rows[p]}
                     IN  [p \in kept |-> rows[p][u]]]

RequestOver(axis, f, rows) ==
    [distributors |-> f.distributors, volume |-> f.volume, axis |-> axis,
     history |-> BuildHistoryWindow(DOMAIN f.distributors, axis, rows)]

Request(at, f, l, rows) == RequestOver(PriorLabels(at, MaxHistoryDepth(l)), f, rows)

Receive(result) ==
    IF result.error # "" THEN Stop(result.error)
    ELSE job' = [job EXCEPT !.pc = "save", !.ranks = result.ranks, !.figures = figures[job.at]]

EvaluatePeriod ==
    /\ job.pc = "evaluate"
    /\ Receive(HandleEvaluateRanks(ladder, Restrict(TreesOf, loaded),
                                   Request(job.at, figures[job.at], plan, history)))
    /\ UNCHANGED <<plan, Worker, figures, Store, spent>>

(* The provider, the history read or the call to the worker fails. *)
EvaluateFails ==
    /\ job.pc = "evaluate" /\ Fault
    /\ Stop("error")
    /\ UNCHANGED <<plan, Worker, figures, Store>>

(* SaveResult: delete the period's rows and copy the new ones in, in one   *)
(* transaction.                                                            *)
ReplaceRows ==
    /\ history' = [history EXCEPT ![job.at] = job.ranks]
    /\ used' = [used EXCEPT ![job.at] = job.figures]

SaveResult ==
    /\ job.pc = "save"
    /\ ReplaceRows
    /\ IF job.at = job.to THEN Stop("ok")
       ELSE job' = [job EXCEPT !.pc = "evaluate", !.at = @ + 1, !.ranks = <<>>, !.figures = <<>>]
    /\ UNCHANGED <<plan, Worker, figures, spent>>

SaveFails ==
    /\ job.pc = "save" /\ Fault
    /\ ReplaceRows \/ UNCHANGED Store
    /\ Stop("error")
    /\ UNCHANGED <<plan, Worker, figures>>

DriverCrashes ==
    /\ job.pc # "idle" /\ Fault
    /\ job' = Idle
    /\ UNCHANGED <<plan, Worker, figures, Store>>

Next ==
    \/ LoadPlan \/ LoadStructure \/ WorkerRestarts \/ Correct
    \/ Backfill \/ EvaluatePeriod \/ EvaluateFails \/ SaveResult \/ SaveFails \/ DriverCrashes

Spec == Init /\ [][Next]_vars

(***************************************************************************)
(* A backfill that reports success leaves, for every period of its range,  *)
(* exactly the true ranks: the least assignment in which everyone holds    *)
(* the highest rank they meet, given the figures the period was computed   *)
(* from and the history of the earlier periods as it now stands.  So the   *)
(* passes and their order do not show in the result, no period was         *)
(* computed from rows a later step replaced, and what earlier jobs left    *)
(* half done is gone.  (RankDriver.Backfill, EvaluatePeriod; the comments  *)
(* on iterate_to_fixpoint.)                                                *)
(***************************************************************************)
RanksAreTrue ==
    job.answer = "ok" =>
        \A p \in job.from .. job.to :
            /\ used[p] # <<>>
            /\ AreTrueRanks(history[p], plan, TreesOf, Request(p, used[p], plan, history))

=============================================================================
