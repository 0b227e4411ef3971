# MLMForge: TLA+ models, checks and proofs

This directory models the parts of MLMForge whose correctness depends on the order of
steps, on failures between them, on several processes, or on an algorithm that can be held
against a definition of its result. TLC checks the models on small instances; TLAPS proves
the results that matter most for every instance. Paths are relative to the repository root.

## 1. The system

A Go modular monolith (`cmd/`, `internal/`) with a Rust engine worker
(`engine/network-engine-worker`) that it drives over NDJSON on standard input and output.

| Part | State | Operations | Interacts with |
|---|---|---|---|
| Tree write path, `tree_writer.go` | none of its own; one command per process | AddRoot, Place, Remove, Load | event store, table, snapshots, lock, worker |
| Event rejection, `tree_writer_reject.go` | none of its own | Reject, retry, resume | as above |
| Projection, `tree_consumer.go` | none of its own | HandleEvent for four event types | table, worker |
| Event store, `eventstore_*.go` | streams of versioned events | Append, ReadStream, ReadLastEvent | database |
| Adjacency table, `tree_store_*.go` | rows, tombstones, projected version | ProjectInsert, ProjectRemoval, ProjectRejection, reads | database |
| Snapshots, lock, replay, load | a tree with a version; an advisory lock | Get, Put, Delete; Lock, unlock; replay, preflight | database, worker |
| Transport, `transport_stdio.go` | mutex, reader, line channel, closed flag, verdict of Close | Call, Close | worker process |
| Worker, `engine/network-engine-worker` | one plan, named structures | one handler per operation | engine |
| Trees, `engine/network-engine/src/tree` | arena of nodes, child slots, holding tank | add, place, remove, promote, evict, navigate | worker |
| Board plan, streamline | boards; streams | add, remove, split, dissolve; add, remove, expand | worker |
| Commission calculators, decimals | none (carry-forward in and out) | one calculation per structure | trees, ranks |
| Commission run store | runs, result rows | CreateRun, SaveResults, CompleteRun, VoidRun, ReplaceRun | database |
| Rank driver and evaluation | qualification history | EvaluatePeriod, Backfill | worker, database |

What makes it hard: a tree lives three times (stream, table, worker), written in separate
steps by processes that may die, lose a reply, or lose the lock without noticing; an append
may commit after its error was reported; an event that does not apply can be in the stream
and has to be taken back. Elsewhere: a cancelled call whose answer is still to come, a run
replaced while its results are written, cascades in board plans, relocations in matrix
trees, and leg volumes carried over several periods.

`PROJECT.json` lists every component with what is and is not modelled, the hazards at the
lines where they bite, and for every definition the source lines it stands for.

## 2. Modules

| Module | Models |
|---|---|
| `TreeEngine` | the tree as its users see it: checks and mutations of unilevel and binary trees |
| `TreeStore` | the adjacency table and its projected version as operators; the loader's preflight |
| `TreeWriter` | the commands, HandleEvent, rejection, snapshots, lock and faults, as a state machine |
| `TreeLedger`, `TreeWriterLedger` | what the write path promises; the refinement mapping to it |
| `TreeMachine` | what a tree promises whoever calls it |
| `Arena`, `ArenaRestore` | the slot arena with its free list and traversals; what a restore demands of it |
| `UnilevelTree`, `BinaryTree`, `MatrixTree` | the three trees over the arena |
| `BoardPlan`, `Streamline` | the two structures that are not one tree |
| `LevelWalk`, `GenerationPlan`, `StairstepPlan`, `StreamlinePlan`, `BinaryPairing`, `Commissions` | the calculators, and a worker that answers requests with them |
| `Decimal`, `PlanConfig` | exact decimals; what load_plan accepts |
| `RankEvaluation`, `RankDriver` | which rank everyone holds; the driver that keeps the history |
| `CommissionRuns` | the run store, statement by statement |
| `Worker` | the request loop: lookups, guards and their order |
| `Transport` | Call, the reader goroutine, Close, and the worker's read loop |
| `MC...` | the instances TLC checks |
| `TreeWriterInvariant` | the inductive invariant of the write path (`Inv1` to `Inv5`), definitions only |
| `TreeWriterSteps`, `...Proofs`, `...Reports`, `...Table`, `...Knowledge`, `...Rows` | the proofs about the write path |
| `TransportProofs`, `ServicesProofs` | the other proofs: the transport; the run store and the worker |

### The write path

Each command of the CLI is a process with a worker of its own (`cmd/mlmforge/treedeps.go`),
so a *writer* is one running command and its engine lives for one operation. `stream`,
`store`, `snap` and `holder` are what writers share; `inflight` holds appends whose caller
got an error while the server had not decided; `trees` is a history variable, the tree the
stream means at each version; the others are local variables of a command.

One action is one call to a shared store together with the local work up to the next one:

* `Start...`: the reads before the lock (`readShape`); `Lock`, `LockTimeout`, `UnderLock`
  (the second read of the tree type);
* `ReadRows`, `UsableSnapshot`, `Replay`, `CheckMembership`, `BuildFailed`, `ReadLast`:
  `prepare`, `build` and `checkStream`;
* `ReadParent` ... `RejectRow`: `HandleEvent`. A placement reaches the table before the
  engine, a removal the engine before the table. A retried engine call whose first reply
  was lost goes through the reconcile steps;
* `CheckRefuses`, `AppendCommits`, `AppendConflicts`, `AppendUnanswered`, `ConfirmAppend`,
  `Observe`, `SnapshotCheck`, `SnapshotPut`, `Unlock`: the append and what follows it;
* `RejectReadProjected`, `RejectReadLast`, `StuckRowStopsTheLoad`: `Reject`;
* `CallFails`, `Crash`, `LoseLock`, `CommitLands`, `CommitFails`, `Stray`: the faults.
  `Stray` is an event appended by something other than the writer; `reject-event` exists
  for such events.

Data is abstracted to what decides: a user is a model value, an event its type and the users
it names, an error its code; enrolment times are left out. `UndoRootProjection` has no
action: with unilevel and binary trees no state reaches it, which `RejectionsAreSound`
includes (`NoRootToUndo`) and the theorem `OnlyWhatNeverApplied` proves. Left out as well:
reads that only feed a report, and branches that need a row edited by hand.

### Trees

An arena is a value: slots (Rust index plus one, 0 for none), the map from users to slots,
the free list and the root. `UnilevelTree`, `BinaryTree` and `MatrixTree` translate the
checks and mutations onto it. The first two implement `TreeMachine`, whose tree is that of
`TreeEngine`: the mapping is the users' view of the arena, and the checks answer with the
same error. So what the write path is modelled over is what the engine does. `MatrixTree`
has its own reference, the adjacency table: what a removal reports must turn the rows of the
table into the rows of the new tree.

### Board plan and streamline

A board is its positions in breadth-first order. An add fills, cycles, splits and cascades
in one step, as the code does in one call; the cycle events are kept for the commission that
`PayIgnoresBatches` splits in every way. Re-entry near the sponsor is what fills a second
board: with a bound of two it cycles in the same cascade, with a bound of one it stays full
until a later operation. Streams of a streamline are width-one trees of
`TreeEngine`, with the two indexes the engine keeps beside them.

### Transport

The processes are the callers, the closer, the reader goroutine, the goroutine in
`cmd.Wait` and the worker. A line of output carries the number of the request it was written
for, which the code cannot see: `StreamInStep` is about it. A Call whose context ends sets
the closed flag, so that no later Call meets its response. The variable `patient` chooses at the start whether
the three deadlines of Close outlast whatever can still happen, or may pass at any time.

### Commissions, ranks, runs, worker

* The calculators are operators of a request. Rates are whole numbers of tenths, money is
  rounded to minor units as in `finalize.rs`. `PaidAsDefined` holds them against a
  definition that says for each upline member which level or generation is due to it,
  without a walk. `Commissions` carries the legs of a binary plan from period to period
  beside a ledger of what came in and was used up, by pairs or by completed cycles. Steps
  short of a cycle use up nothing and are paid again on the same volume in a later period, as
  the binary guide says; `LegsAreAccounted` pins what they pay to the volume still carried. Plans that load and plans that do not are
  among the cases: `LoadedPlansCalculate` holds `PlanConfig` against what a calculator
  refuses.
* `Decimal` keeps coefficient and scale; limit, word, scales and envelope are constants,
  scaled down together from 96 bits and 28 places so that every edge is reached.
  rust_decimal's `checked_div` is external: any quotient within the error the engine's
  comment allows for.
* `RankEvaluation` translates every predicate and the passes to the fixpoint; `RanksAreTrue`
  compares with the least assignment in which everyone holds the highest rank they meet.
  `RankDriver` adds history, corrections, restarts, failing saves and crashes.
* `CommissionRuns` has one action per SQL statement, with row locks, the unique index, and
  connections lost before or after a commit.
* `Worker` keeps of a structure its kind and how many mutations it accepted. Binary and
  board calculations report no plan hash, as in the code; `AnswersTellAll` says so.

## 3. Runs

| Run | Instance | Shows |
|---|---|---|
| `tree_writes` | one command at a time, three users, both tree types, a snapshot every 2 events, 4 events | rows, snapshot and reports stay true under crashes, failing calls and late commits |
| `tree_lost_lock` | two writers, two users, both tree types, the lock lost once, 3 events | the expected version and the projected version alone keep two writers apart; one tree type while no lock is lost |
| `tree_recovery` | one writer, fair scheduling, one unchecked event | only events that do not apply are rejected; the write path implements `TreeLedger`; commands end and the table catches up |
| `trees` | five users in a unilevel tree or four in a binary one, in every order | arenas restore, queries agree, both trees implement `TreeEngine` |
| `matrix_tree` | width 2: four users through every operation, or six who join and are promoted | restorable, nobody lost, removal reports suffice for the table |
| `board_plan` | width 2, height 1, five members, 7 boards, four plans, cascades one and two deep | restorable, adds are seated, nobody lost, cascades bounded, pay does not depend on batches |
| `streamline` | four members, 3 streams, freezing round-robin and destroying sponsor-stream plans | lines and indexes sound, removals complete, allowances met |
| `transport` | two callers, 3 requests, channel and pipe of one line, up to 3 signals each, repeated Close | calls in step, Close truthful, only wedged workers killed, waits end |
| `commissions` | 40 plans on trees of four or five, every mix of rank and activity; binary legs up to 8 units; decimals around every limit | payments as defined, every earning traced, legs and caps accounted, decimals exact |
| `services` | rank backfills of three periods over seven ladders; two callers on one period with three runs and five calls; four plans and two names in the worker | ranks true, callers told the truth, runs only move forward, answers tell all |
| `stream_frozen_founder`, `close_behind_call` | as above | the two findings below |

**Bounds.** Four events let a tree grow to a root, two nodes and a removal: the shortest
history in which recruits move to another sponsor and a snapshot is older than the table.
One lost lock already gives two writers at work; a third would meet the same version checks.
One unchecked event is what the repair is made for: a second behind it is past every repair
the code has. Binary trees need four members for a node with children on both levels to go.
The sides of `services`, and the two of `commissions`, share no state, so a behaviour
exercises one of them. The theorems below need none of these bounds.

**Symmetry and views.** Symmetric are users no constant names, and the two writers. In
`tree_lost_lock` and `tree_recovery` TLC compares states by `Live`: a command about to unlock
reads none of its local variables any more, no step reads `result`, and no property or
fairness condition of these runs is about either. States that differ in those alone have the
same futures, step for step.

**Deadlock** is checked in `tree_*`, `trees`, `transport`, `commissions` and `services`. It
is off where a structure may come to rest at a bound: a board plan out of board numbers, a
streamline out of stream ids, a matrix tree with nobody to place.

**Fairness.** `TreeWriter`: a running command takes its next step (weak fairness of `Step`);
operators keep running `load`, and `reject-event` on an event that stops it (strong
fairness, since other commands come between); the server settles every append it has in
hand. `TableCatchesUp` has the premise that faults stop; `CommandsEnd` does not; its run
has one writer, so that no command there waits for a lock another one holds.
`Transport`: goroutines and the worker's loop are scheduled, a mutex is granted to whoever
keeps asking (strong fairness, as Go's mutex does not starve), a worker not wedged goes on,
and a landed wait is taken. A context need not end; a worker need not leave a handler it is
wedged in.

**Mutants.** Every property has one in `PROJECT.json`: a plausible mistake in one definition
with which TLC finds the property violated.

**Findings.**

* `stream_frozen_founder`: `bootstrap_first_member` seats the first member of an emptied
  engine on stream 1 although it is frozen; the design record says frozen streams take no
  recruits.
* `close_behind_call`: Close takes the mutex before it arms a deadline, so behind a Call
  that waits on a wedged worker it waits for ever; the comment on Close promises otherwise.

Noticed while modelling and not a run of its own: `commission/binary.rs` takes the weaker leg
from an ineligible owner in carry-forward mode, where the comment above says nothing was
matched; `config/binary.rs` says the full stronger leg carries forward where the code
subtracts the match; the carry-forward cap applies in every mode; a streamline level's
minimum rank that the ladder does not know is refused at calculation, not at load.

## 4. Proofs

The theorems hold for every value of the constants: any sets of writers, users, callers,
names, plans, runs and periods, any capacities and any bounds. The invariants were
model-checked before they were proved. Liveness is not part of it (section 5).

### The write path (`TreeWriterInvariant` to `TreeWriterRows`)

All results are about `Spec` of `TreeWriter`, from `ConstantsAssumption`: the values that
stand for "none" are none of the values, the tree types are unilevel and binary, and what
commands ask for names users.

| Theorem | States | Invariant it rests on |
|---|---|---|
| `TypeCorrect` | `[]TypeOK` | `Inv1` |
| `Advances` | `ProjectionAdvances` | `Inv1` |
| `ChecksAreCurrent` | `[]CheckedAgainstStream` | `Inv1` to `Inv4` |
| `AppendsApply` | `[]AppendedEventsApply` | `Inv1` to `Inv4` |
| `SnapshotsAreFaithful` | `[]SnapshotIsFaithful` | `Inv1` to `Inv4` |
| `CommandsTellTheTruth` | `[]ReportsAreTrue` | and `Inv5` |
| `OneTypePerStream` | `[]OneTreeType` | and `Inv6` |
| `TableFollowsStream` | `[]RowsFollowStream` | and `Inv7` |
| `NeverFurtherBehind` | `[]OneRedeliveryBehind` | and `Inv7` |
| `OnlyWhatNeverApplied` | `[]RejectionsAreSound` | and `Inv7` |
| `WritePathKeepsTheLedger` | `KeepsTheLedger`: `TreeWriter` implements `TreeLedger` | and `Inv7` |

No property is inductive as it stands; each needs what a command knows at each of its steps.

* `Inv1`: types, and `Placed(w)`: where the versions a command remembers lie in the stream,
  and which events the steps of `HandleEvent` can hold. A step of one writer leaves the
  others alone (`Locality`), the shared variables keep their types because the operators on
  trees and rows do, and each step puts its own writer where the next expects it.
* `Inv2`, `Inv3`: an event id is in the stream, on its way, or with one command that has not
  sent it; a rejection comes directly after the event it names. This rests on the expected
  version: an append lands only at the end its command saw.
* `Inv4`: what the stream means (`Meanings`), that an undecided append still applies where it
  would land, and `Holds(w)`: which of the trees of the stream the engine of a command holds
  at each step of replay, catch-up, check and projection.
* `Inv5`: where a command's event can be once it has tried to append it (`Sent`), and that an
  event reported as refused is closed out: not in the stream, and every undecided append of
  it aimed below the end. `Filed` says that whoever has a tombstone has a newest one, the
  one a reconcile reads; as an invariant it needs no induction over the list.
* `Inv6`: while no lock session was lost, whoever works holds the lock (`Guarded`), and what
  is in the stream or on its way past version 1 is of one type. An add-root may find the
  stream empty under the lock and then meet version 1 of another type, because a commit that
  was undecided landed since; `Overtaken` says it gets no further. With a lost lock the
  statement is false, which is why `OneTreeType` has the premise `losses = 0`.
* `Inv7`: the table. `Rows` says which tree the active rows show: that of the projected
  version, or that tree and the one row of a placement there that does not apply. To keep it
  through late writes one has to know where rows and stamps come from (`Sourced`), that the
  event at the projected version left its mark (`Marked`), that what did not apply was taken
  back (`Cleared`), and that trees pass the preflight of a load (`Fit`, with `Grounded`: every
  set of users has one that waits for no other of it, so no induction over the tree is
  needed). Each command carries `Loading`, `Handling` and `Aiming`: the load it made is of a
  version the table has reached; the projection it makes meets the tree before the event, or
  a table that has passed it; and its append goes behind an event the table shows or, for a
  rejection, behind one that is `Refutable`. The two cases of `Behind` are the two shapes of
  `OneRedeliveryBehind`.

`TreeWriterSteps` holds what the others share: what a step of a writer leaves alone, types,
and the operators on trees and rows. On it stand, side by side, `TreeWriterProofs` (`Inv1`,
`Inv4`), `TreeWriterReports` (`Inv2`, `Inv3`, `Inv5`, `Inv6`) and `TreeWriterTable` with
`TreeWriterKnowledge` (the lemmas of `Inv7`). `TreeWriterRows` brings them together: all the
theorems that need more than `Inv1` are there. The modules are apart because a proof step
costs more the more definitions and lemmas it can see.

The steps of `Inv7` are proved in this order: the operators on trees and rows; each of the
three table writes, late or not (`InsertsInStep`, `RemovesInStep`, `RetractsInStep`); a new
event at the end of the stream (`Landed`); the load; the steps of HandleEvent; the evidence
for a rejection (`ConflictRefutes`, `RedeliveryRefutes`, `LoadRefutes`); the invariant. The
refinement then maps every event that reaches the stream to `Mutate` or `Void` of the ledger,
a table write to `Show`, and everything else, a late table write included, to a stutter.

### The transport (`TransportProofs`)

From `CapsAssumption` (capacities are positive, the closer is no caller): `StaysInStep`
(`[]StreamInStep`), `CloseIsTruthful` (`[]CloseTellsTruth`), `KillsOnlyTheWedged`
(`OnlyWedgedAreKilled`). The invariant: types; who holds the mutex (`Mutex`); what shutdown,
the reap and the end of the reader have closed (`Pipes`); `InStep`, by which all lines
between the worker and a waiting Call are its own with its response last, and between calls
nothing is under way unless the transport is closed; and `Verdict`, which ties what Close
has told to the state of the wait and the reader. `StreamInStep` alone is not inductive: it
says nothing of a request still in the worker's input or of the state between two calls.

### The commission run store (`ServicesProofs`)

`ToldTheTruth` (`[]AnswersHold`) and `RunsMoveForward` (`RunsOnlyMoveForward`), from
`NoRunIsNoId` (the value for "no run" is not an id). The invariant: types; a period has one
active run and rows belong to runs (`TablesOK`); no two transactions hold one row
(`Exclusive`); which call comes to which step (`Comes`); that a run is as it was when its
transaction took the lock, and that an update which met no row stays in the wrong (`Stands`,
the reason the explaining read after it tells the truth); and what callers were told with
the runs it is about (`Told`).

### The worker (`ServicesProofs`)

`WorkerTellsAll` (`[]AnswersTellAll`): what the callers know from the answers is what the
worker holds (`WorkerTold`), and the last calculation was by the plan and over the structure they
know (`Calculated`).

### Form

`Untyped`, used by every leaf, switches off the type inference of the SMT translation, which
does not finish on states of this size.

## 5. Only model-checked

* Liveness: `CommandsEnd`, `TableCatchesUp`, `WaitsEnd`. The prover has no rules for
  fairness here.
* The refinement of `TreeMachine` by the arena trees, `MatrixTree`, and restores
  (`TreesRestore`, `RestoresItself`): the arena's walks are recursions over its slots, and
  what a recursion computes for every input needs an induction the installed provers cannot
  instantiate.
* `Commissions`, `Decimal`, `RankEvaluation` and `RanksAreTrue`: folds and fixpoints over the
  data of a request, for the same reason.
* `BoardPlan` declares a recursive operator for the cascade, which keeps the SMT backend from
  its module. `Streamline` folds over streams and lists.

## 6. Not modelled

* The engine client: marshalling of one call each.
* The commission carry-forward envelope: encoding, decoding and a digest; what is carried is
  in `BinaryPairing`.
* Migrations: a lock, one call of the migration library and a classification of its error;
  the dirty record is the library's, and what a half-applied version leaves behind is decided
  by the SQL of each migration.
* The transaction inside `Append` (one step here), and `ReadAll`, which nothing calls.
* The Go schema pipeline (field rules over YAML), parsing of parameters, recovery from
  panics, connection strings, observability.
* Which of several faults a restore names, wordings, and the Go mirror of the decimal type.
* Sums too large for a decimal inside a calculator.
* Commerce, operations, financial, identity, engagement and portals: interfaces only.
