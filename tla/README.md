# Formal model of the Diagnostic Service

TLA+ specifications of the Optimizer Canary *Diagnostic Service* (Go), with the
TLC configurations that check them on small instances and TLAPS proofs of the
results that should hold for every instance. `PROJECT.json` is the machine-readable
index: it lists the components, every run with its properties, the lines of code
each definition stands for, the hazards of the code, the findings and the theorems.

Check a module with `tlc -config MC….cfg MC….tla`, a proof with `tlapm ….tla`.

## 1. The system

The binary has two modes.

**Service mode** (`cmd/main.go`) is an HTTP server in front of one TiDB cluster.

| Part | State it keeps | Operations | Talks to |
| --- | --- | --- | --- |
| Connection manager (`diagnosis/connection.go`) | `db`, `dsn` behind a `sync.RWMutex` | `Replace`, `Close`, `current` | `database/sql`; every other part gets its pool here |
| Connection handler (`connection_handler.go`) | none | `POST /test/connect`: decode, 5 s context, `Replace` | connection manager |
| Validator (`validator.go`, `handler.go`, `repository.go`) | counts of the one source | `POST /validate`: sample three statements, EXPLAIN each | connection manager, once **per statement** |
| Comparer (`diagnosis/compare`) | snapshot, EXPLAIN cache, tallies, changed plans | `GET /compare` | connection manager, once **per report**; TiDB's summary tables |
| Index advisor (`diagnosis/index_advisor`) | aggregated samples, results | `GET /recommend-index` | as the comparer |
| Pooled sessions (`database/sql` under `repository.go`) | at most ten connections, each with a current schema | borrow, `USE`, statement, give back | every statement of the handlers |
| Process (`cmd/main.go`) | server, shutdown goroutine | signal, `Shutdown`, deferred `Close`, exit | all handlers |

**Prepare mode** (`prepare/`) is a one-shot command: create a schema, seed it, wait
for TiFlash replicas, validate session bindings, run a random workload under these
bindings on several sessions for a fixed time. It may fail or be killed anywhere and be
run again over what it left.

| Part | State it keeps | Operations |
| --- | --- | --- |
| Schema and seed (`tpcc_schema.go`) | none; rows in TiDB | DDL, `INSERT IGNORE` in batches |
| TiFlash wait (`tpcc_tiflash.go`) | pending tables | set replicas, poll until available or ten minutes |
| Binding validation (`tpcc_runner.go:121-187`) | the hint of each workload, one session binding | EXPLAIN, CREATE / DROP SESSION BINDING, alternate hint |
| Workload runner (`tpcc_runner.go:57-119, 189-260`) | sessions, worker goroutines, contexts, counters, result channel | open, run, collect, clean up |
| Picker and workloads (`tpcc_runner.go:20-44`, `tpcc_queries.go`) | weights | draw one workload |

### What is hard here

* *Concurrency.* `Replace`, `Close` and every reader interleave, and `current()`
  releases the lock before the pool is used. Workers share counters, a channel and a
  context that any of them may cancel.
* *Partial failure.* Every SQL statement may be refused, time out, or lose its
  connection; pools, sessions and bindings must still be given back.
* *Stale state.* A pool that is replaced under a validation; an old EXPLAIN in the
  summary; a binding left from an earlier attempt; one EXPLAIN cached for all plans of
  a statement; the schema that the last borrower of a connection has selected.
* *Crash and repetition.* The prepare command dies between two batches, or while TiDB
  still works on one, and is run again.
* *Limits.* A pool of ten connections for any number of requests.
* *Ordering and time.* Timeouts that add up to exactly the server's write deadline, which
  also runs while nothing is being asked of TiDB;
  `ListenAndServe` returning while `Shutdown` still waits.
* *Data.* Plans parsed from indentation and compared in three stages; counts summed
  over instances; links made of shortened digests.

`PROJECT.json`, "hazards", lists them one by one at their lines.

### What makes each part correct

* Connection manager: no pool leaks or is closed twice, the active pool is verified
  and open, nobody is given a superseded pool, everybody returns.
* Validation: success means three samples and three EXPLAINs; an answer misses the write
  deadline only for what passes outside its statements; the request ends whatever is
  replaced meanwhile.
* Reports: one pool per report; complete, each instance counted once; one new plan
  per statement; digests, reasons and links that belong to what they stand beside.
* Index report: the slowest statements first, none skipped silently below the limit,
  advice beside its own statement.
* Binding validation: compared with the natural plan; no binding left behind.
* Pooled sessions: a statement runs in its own schema; every borrower is served.
* Schema and seed: all rows once each, all replicas available, statistics of all rows,
  before anything else happens; a wait that gives up says what it was waiting for.
* Command: it ends, whatever TiDB does not do.
* Runner: each query is drawn as often as its weight says; queries run under all
  bindings; no failure lost; totals agree; no session survives; the command returns.

## 2. Modules

| Module | Models | Kind |
| --- | --- | --- |
| `PoolLifecycle` | what the connection manager promises about pools | abstract specification |
| `ConnectionManager` | `Replace`, `Close`, `current`, lock by lock and assignment by assignment | state machine, refines `PoolLifecycle` |
| `ConnectionManagerProofs` | | proofs |
| `DiagnosticService` | handlers, timeouts and process end over `PoolLifecycle` | state machine, extends `PoolLifecycle` |
| `DiagnosticServiceProofs` | | proofs |
| `Sessions` | the connections of one pool under the requests that borrow them | state machine |
| `SessionsProofs` | | proofs |
| `TableSchema` | `prepareTableSchema`: tables, seed rows, replicas, statistics, and TiDB across several commands | state machine |
| `BindingValidation` | `validateTPCCBindings`, `explainWithSessionBinding` | state machine |
| `PrepareCommand` | `prepare.Run` and its repetition | composes `TableSchema` and `BindingValidation` |
| `PrepareCommandProofs` | schema, validation and command | proofs |
| `WeightedPicker` | weights and `pick` | pure operators |
| `WorkloadRunner` | `prepareTPCCStatements` after validation | state machine over `WeightedPicker` |
| `WorkloadRunnerProofs` | picker and runner | proofs |
| `PlanTree` | plan parsing and comparison | pure operators |
| `PlanPairs` | every pair of bounded plan texts | generator over `PlanTree` |
| `Comparer` | `Comparer.Compare`, its repository and its report | state machine over `PlanTree` |
| `ComparerProofs` | the plan code, for texts of any length, and the comparison | proofs |
| `RecommendIndex` | `RecommendIndex` and its report | state machine |
| `RecommendIndexProofs` | | proofs |
| `DataLemmas` | least elements, sums over finite sets, prefix sums, folds, sequences, what they hold in another order | lemmas that the proofs share |
| `MC…` | constants and symmetry for TLC | |

### How state and actions correspond to the code

**ConnectionManager.** `db` and `dsn` are the two fields, a pool being named by the
`Replace` call that opened it (its `dsn` likewise). `writer` and `readers` are the
`RWMutex` as the runtime implements it: `AnnounceLock` blocks new readers,
`AcquireLock` waits for old ones. `pc[q]` is the position of a `Replace` or of the
deferred `Close` (`Main`), which share the critical section `ReadOld`, `SetDB`,
`SetDSN`, `Unlock`, `CloseOld`; `old[q]` is `oldDB`. `upc[u]` and `held[u]` are a
goroutine inside `current()` and the pool it took away. Actions named `…Fails` are the
early returns.

**DiagnosticService.** `stage[r]` is where the handler of request `r` is: asking for
the pool, running a statement on `cur[r]`, or writing the answer of a validation.
`nodes[r]` remembers on which pools it ran. `spent[r]` adds up the time a validation takes
in its statements, each of which ends within its timeout, and `overhead[r]` the time that
passes for it anywhere else (`Elapse`): scheduling, giving back rows and connections,
encoding and writing the response. The write deadline is compared with both together
(`OnTime`), and `WriteAnswer` after it sends nothing: "late". A comparison and a
recommendation clear the write deadline and have no clock. `server` and `drain` are the main
goroutine and the `Shutdown` goroutine. `Exit` turns every handler still running into
"lost".

**Sessions.** `conn[c]` is what the pool knows of a connection, `schema[c]` the current
schema of its TiDB session; `holds[r]` is the connection request `r` has borrowed, `pc[r]`
its place between `db.Conn` and `conn.Close`. The three functions that borrow
(`Explain`, `executeExplainPlan` and `GetNewPlanDigest`, the advisor's two) have the same
steps and one model; a `sample` recorded without a schema skips `Use`. `ranIn[r]` is the
schema the statement ran in, for the property.

**TableSchema.** `point`, `index`, `start` are the position in the nested loops over
tables, calls of `insertRows` and batches. `rows[t][k]` counts how often table `t` holds
the row with primary key `k`: only a table without that key (`definition[t] = "keyless"`)
can hold it twice. `Answered` adds the lost reply to a statement; `late` holds the batches
of a killed command that TiDB has not finished, `LateInsert` finishes one. `waitCtx` is the
context of the TiFlash wait, `pending` the tables of its last poll.

**BindingValidation.** `planOf` is the optimizer: which plan a hint leads to, "unseen"
until the first EXPLAIN under it and the same from then on. `bound` is what the session
has, `pc` the position in the two functions, `retrying` tells the second attempt. A failing
statement may or may not break the connection (`StatementFails`); bindings die with it.

**PrepareCommand.** `stage` is the part of `prepare` the command is in. The command's
context (`parent`) is the schema's and the validation's: with it cancelled only the
failing alternatives and the deferred DROP, which has a context of its own, go on.
`Rerun` starts a new process over the same TiDB.

**WorkloadRunner.** `pc` is the main goroutine, `wpc[i]` the worker goroutines.
`runCtx` records why the run context ended *first*, since only then are later errors
excused (`CheckContext`). `executionCounts` and the local `executions` are separate
(`Count`, `QueryRuns`). `conn` and `bindings` follow each session until
`CloseDB`, the deferred `db.Close()`.

`Pick` uses `PickWorkload` of **WeightedPicker** with every draw `rand.IntN` can give.

**PlanTree.** A plan text is a sequence of rows with a branch depth; `ParsePlan`
is the loop of `parsePlan`, with its errors as `status` and the tree as the list of
children of each row. The three stages of `comparePlans` and the reason it gives are
`ComparePlans`. Operators, tasks and access objects are the members of the source's lists
that the bounded plans use.

**PlanPairs.** Two texts grow row by row as an `EXPLAIN` could print them: a recorded one,
whose first row has no branch marker, and a new one, whose first row may have one; a later
row is indented anywhere up to one level too deep, so that every error of the parser occurs.

**Comparer.** `pc` is the position in the loop over `sqlInfos`; `explained` the cache;
`entries` the EXPLAIN rows in TiDB's own summary, some of them from earlier on, others
added by this very comparison or not. `rows` keeps the snapshot for the properties
only. `SortFunc` is the set of orders that `slices.SortFunc`, which is not stable, may
leave. Digests are numbers; `FirstEight` is `\div 10`, so that shortened digests
coincide.

**RecommendIndex.** `pc`, `next`, `tried` are the two nested loops; every `continue`
and every `return nil, err` is an action or an alternative of one. The samples leave the
Go map in any order (`AggregateAndSortSamples`) before `SliceStable` sorts them. `answers`
keeps, for the property, what the advisor has returned for each statement; a completed advice
goes with the SQL it was explained for, a statement and the set of its hints
(`BuildHypoIndexSQL`).

Operators marked `Mutant` in a comment are deliberate bugs; `PROJECT.json` names
which property each of them breaks. No specification uses them.

## 3. Runs

| Run | Instance | Shows |
| --- | --- | --- |
| `connection` | 2 replacements, `Close`, 2 readers, fair | `EveryOpenPoolHasOneOwner`, `ActivePoolIsPingedAndOpen`, `NeverGivenASupersededPool`, `CallersReturn`, `ImplementsLifecycle` |
| `service` | 1 request, 2 pools, 3 samples, timeouts 3 + 3·3 = 12, deadline 14 | `LateOnlyByOverhead`, `SuccessMeansAllExplained`, `ReportsStayOnOnePool`, `ValidateEnds`, `SignalEndsProcess` |
| `sessions` | 3 requests, 2 connections, 1 kept idle, 2 schemas, fair | `RunsInItsOwnSchema`, `EveryBorrowerIsServed` |
| `prepare` | 2 commands, 2 workloads, 2 warehouses, batches of 4 | `NoBindingLeftBehind`, `RetainedHintForcesPlanIfAny`, `FixtureIsExact`, `SchemaIsReady`, `WaitErrorNamesPending`, `CommandEnds` |
| `runner` | 2 workers, 2 workloads, 2 queries each, weights up to 5 | `SuccessMeansDeadline`, `TotalsAgree`, `NoSessionSurvives`, `EveryPickIsProportional`, `QueriesRunBound`, `Returns` |
| `plans` | plans of up to 4 rows, of 5 operators below a root | `ParsedIffOnePreorder`, `EqualIffSameOutline`, `NamedChangeIsReal` |
| `compare` | snapshots of up to 4 of 6 rows, 4 plans | `ReportIsExact`, `DigestIsOfTheNewPlan`, `LinksLeadToTheirOwnSection` |
| `recommend` | snapshots of up to 3 of 5 rows, 2 advices, limit 2 | `ReportedAreTheSlowest`, `SamplesAddUp`, `AdviceIsItsOwn` |

Each also checks the type invariant of its module, `plans` excepted, whose properties say more.

### Why the bounds are enough

* `connection`: two concurrent writers and `Close` overlap in every way the mutex allows,
  and a pool can be superseded and superseded again. The safety properties are also proved
  for any number.
* `service`: three samples, as in the code, have a first, a middle, a last and a too-few case.
  One request is enough: two meet only in the pools, which `Replace` may swap at any moment
  here, and in the drain, for which the `drain` run has two. The timeouts are three units
  each, so that a statement may be fast, slow or late. `WriteTimeout` is two units more than
  their sum and `MaxOverhead` one more than that margin: a response can be late, and is only
  if the overhead uses up the margin. The theorem has all other values, the code's among them.
* `sessions`: three requests for two connections make one wait, and two connections that are
  not given back stop the third; the third borrows one that an earlier one has left in the
  other schema, or in none; one idle connection of two makes the pool both keep and drop.
* `prepare`: batches of 4 cut the ten rows of a table into a full, a full and a short one,
  and make calls of a single batch as well; two warehouses repeat the inner calls. The second
  command meets whatever the first left at any point, with its batches still under way. One
  table (`Foreign`) may exist with another definition, one (`Slow`) has a replica that takes its
  time, which is all the deadline needs; the others' replicas are available at once. Two
  workloads are enough for one to be left bound under the other.
* `runner`: the race between a failing worker, another one and the deadline needs two
  workers; two queries let a count differ from its flag. `EveryPickIsProportional` takes
  every assignment of distinct weights, so that each boundary is hit.
* `plans`: a difference in four rows can sit in a root, a child, a grandchild or a
  sibling; one reader more or less shifts the sorted list by one; a new plan whose first row
  is indented leaves room to its left. Two scans that differ in their task alone are there
  because a change of one can be hidden by the other: `NamedChangeIsReal` speaks of the
  readers of one operator, since of all readers together it would be false. It asks that one
  of the two names be more frequent on its own side; the other may be that of a reader that
  both plans share, behind which the code's walk down the sorted lists has got.
* `compare`: two instances of one plan with different hints, two plans of one statement, two
  schemas with one digest, two digests with the same first eight characters, an unreadable
  plan and a hint that cannot be combined all occur in the six rows, in the order of the query
  (954,356 distinct states). The summary may hold an older EXPLAIN of one of the statements
  and one of the other statement.
* `recommend`: limit 2 with three statements leaves one unexamined; ties occur
  (1,582,622 distinct states). One of the two advices lacks a field.

`MaxRuns`, `MaxRows`, `MaxSummaryRows`, `MaxAdvices`, `MaxBorrows`, `MaxCommands` and
`MaxOverhead` bound
counters and inputs; no other bound is in a guard. Deadlock is checked where everyone must
reach an end (`sessions`, `compare`, `recommend`, whose ends are steps that change
nothing): in the reports this is what says that every call is answered.
`CHECK_DEADLOCK FALSE` stands where a command or the process ends, and in `plans`, which
stops at its longest plan.

### Runs that show a disagreement

* `drain` – main.go:99-103 gives handlers ten seconds after a signal, and logs an error
  if they need more; but `ListenAndServe` returns at once and `main` exits, cutting them
  off.
* `other_definition` – README.md:161-162 has an existing table of another definition fail
  the command. `CREATE TABLE IF NOT EXISTS` accepts it; a table that lacks a column does fail
  in the seeding, but one that lacks the primary key is seeded, and seeded again by the next
  command, although README.md:160 calls the command idempotent.
* `plan_differs` – prepare.go:45-46 and README.md:141-142 promise recorded plans that
  differ from the natural ones; when neither hint changes the plan there is a warning
  only.
* `task_change` – README.md:45-46 has task values compared; `cop[x]` and `mpp[x]` are
  normalised to the same value, so a change between them has no row.

Met while modelling and not stated as runs: README.md:4-6 has a validation sample and explain
on one node, but `Sample` and each `Explain` ask for the active pool (`connection.go:97`,
`105`), so that a replacement in between has the samples of one TiDB explained on another,
with a 200; README.md:31-33 promises a 422 when a statement fails, but one sampling query and
three EXPLAINs of 15 s each (`repository.go:16-17`) fill the 60 s after which the server cuts
a response off (`main.go:22`, `93`), so that a validation that uses them up is answered to
nobody, and `LateOnlyByOverhead` says what a longer `WriteTimeout` would buy;
`compare/model.go:3` has a sample identify the schema in which it runs, but one recorded
without a schema runs in the schema that the last borrower of its connection selected
(`compare/repository.go:100`); README.md:48-50 calls the third digest of a row the new plan's,
but it is that of any EXPLAIN entry of the statement whose plan reads the same
(`compare/repository.go:194-205`), an older one and one with another operator info included;
`new_order` is seeded and queried but not among the tables analyzed
(`tpcc_schema.go:177`), and `SchemaIsReady` leaves it out, so that it would not notice a table
dropped from that list either: it is about the tables the code names; an advice that lacks
a table, a name or columns is explained without a hint (`recommend_index.go:420-432`), yet the
report titles its statement "Sql with hypo_index hint" (487); a change `a->b` may name as `a`
or `b` a reader that both plans share (`compare.go:333-351`); a plan text with a row to the
left of its first row makes `parsePlan` panic (`ParsedIffOnePreorder` says exactly when); the
README's three sources are one in the
code (`model.go:12`); README.md:59 calls *Plan Change* "currently `N/A`", but it is
filled; the anchors of the index report are made of the digest alone
(`recommend_index.go:475`), so two plans of one digest share them.

### Fairness

Weak fairness only, and only of steps the runtime takes by itself. Goroutines that can
run are scheduled (`connection`, `runner`). SQL calls return because every one is given
a context with a timeout, or, in prepare mode, the run's deadline; a failing outcome is
always possible, so fairness never forces success. `Deadline` and `WaitExpires` are fair:
they are timers. TiDB is not obliged to make a replica available: that the command ends
all the same is `CommandEnds`. In `Sessions` the wait for a connection is not given the
timeout it has in the code, so that `EveryBorrowerIsServed` rests on connections being given
back alone; the borrowings are finitely many, so that a waiting request is overtaken only so
often (`database/sql` serves the waiting in order).
Nobody is obliged to send a request, a signal or a cancellation, and `Drained` and
`DrainTimesOut` are not fair. In the prepare command the statements of schema and validation
have no timeout of their own; that they end is the driver's and the caller's context, an
assumption.

## 4. Proofs

**Connection manager** (`ConnectionManagerProofs`), for any sets of callers, from
`NamesAssumption` (the names are distinct). The properties are not inductive: that the
active pool is open depends on who may still close it. The invariant `IInv` adds
(`Mutex`, `OldIsCurrent`, `Opened`, `OwedPoolsAreOpen`, `OwedOnce`, `NoLeak`,
`SupersededIsGone`, `DSNFollows`, `ReadIsStableUnderRLock`)

* mutual exclusion: whoever is past `AcquireLock` is the announced `writer`, and no
  reader is inside; so `old[q]` still equals `db` until `q` assigns it;
* the shape of each pool's life: nothing before its `OpenDB`, on trial up to `SetDB`,
  closed once it has failed;
* ownership: distinct callers have distinct pools in `old`, none of which is active
  once it is replaced – which is why a `CloseOld` never closes the active pool and never
  closes one twice.

`IInvStep` goes through the actions; the named theorems then follow from `IInv`.
`FreshnessTheorem` is an action property: a reader inside the lock reads `db`, and `db`
is never a pool that some writer has superseded. `Refinement` proves, with the
mapping `Fate`, that every step is a step of `PoolLifecycle` or leaves it alone:
`SetDB` is the instant of the swap.

**Service** (`DiagnosticServiceProofs`), for any number of requests, pools and samples,
from `ServiceAssumption`, which says nothing of how the timeouts relate. The invariant ties
counts and time together (`CountInv`): after `k` EXPLAINs a validation has spent at most
`Budget(k)` in its statements, a sampling query and `k` EXPLAINs, and another EXPLAIN begins
only if `k < SampleCount` (`BudgetStep`). So the statements never exceed `StatementLimit`, and a
response that is late owes it to the rest: `WriteDeadlineTheorem`. The counts alone give `SuccessTheorem`, and that a report has run
on no pool but `cur` gives `OnePoolTheorem`.

**Sessions** (`SessionsProofs`), for any number of requests, connections and schemas, from
`SessionAssumption` (at least one connection, no more idle ones than there may be open ones,
a schema is not named like the two markers). A connection is in one hand at most
(`HeldOnce`), and only who holds it sends statements over it; so the schema that `USE`
selected is still that of the session when the statement after it runs (`UseHolds`), and what
that statement saw is the schema of the sample (`RanAsUsed`). Hence `OwnSchemaTheorem`, whatever
fails, expires or is replaced in between.

**Picker and runner** (`WorkloadRunnerProofs`), for any number of workers, workloads, weights
and executions, from `RunnerAssumption` (at least one worker, and weights that
`assignRandomWeights` can draw). `PickerTheorem` solves the cumulative weights as prefix sums:
each draw falls into the slice of exactly one workload, and the slice is as long as the weight
says. For the runner, the invariant ties the workers to the main goroutine (`Phases`,
`SessionsHeld`), says why the run context ended and that this reason survives (`RunEnds`: a
worker cancels the others after its failure is in the channel, and an interrupt is still seen
in the caller's context), that the results in the channel are those of different workers
(`Reported`), and that each execution is counted by its worker and for its workload, one step
apart (`Sums`). It gives all five safety properties of the run, `QueriesRunBound` among them,
which is an action property.

**Prepare command** (`PrepareCommandProofs`), for any size of the fixture and of its batches,
any number of workloads and any number of commands over one TiDB, from `FixtureAssumption`
(positive sizes, as many orders as customers, a multiple of ten), `TableAssumption` and
`NAssumption`.

* *The fixture.* `RowsOfCall` numbers the rows with `\div` and `%`; no two places hold the same
  row (a number is told by its quotient and remainder), so a table has as many rows as places,
  and the sum the command logs is the number of all rows.
* *The schema.* `Progress` says how far the loops have come, `RowsIn` that the batches they have
  passed are in the table, `RowsBounded` that a command inserts a row at most twice, once of
  them late: a command leaves one batch to TiDB at most, and a row has one place. `ReplicasSet`,
  `Statistics` and `WaitKnows` say the same of the replicas, the analyzed tables and the last
  poll. `FixtureTheorem`, `ReadyTheorem` and `WaitErrorTheorem` follow.
* *The validation.* A binding is that of the trial under way, on a session that lives
  (`OneBound`); what is known of the plans while a hint is tried (`TrialKnown`); the workloads
  before have been judged (`JudgedSoFar`). Hence `NoBindingTheorem` and `RetainedHintTheorem`.
* *The command.* `CommandInvariant` composes the two, with `StageInv` for where each part is,
  over `Rerun`, `Kill` and `LateInsert`.

**Plans** (`ComparerProofs`, first part), for plan texts of any length over the operators, tasks
and objects of `PlanTree`, from `RowsAssumption` (the rows a generator may show are such rows).
`IsParsing` describes the loop of `parsePlan` round by round. While it goes well the stack is
the path to the latest row, so its length is one more than that row's depth; this is what makes
a misplaced row an error or a panic (`ParsedTheorem`). A parsed tree is then known row by row:
its children are, in order, the rows one level deeper up to the next that is not deeper.
For `EqualTheorem`, two trees that `planNodesEqual` calls equal are alike row by row: as long as
the rows so far are, the next row is the next child of some parent, and this child must be in
the other tree as well; and back. That the readers compared first never change this verdict is
part of it.
For `NamedTheorem`, `sortPlanNodes` moves nodes only and leaves none before one whose text is
smaller (`SortNodesIs`: nodes go to different places, as the order of the texts is strict and
total). At the first place where two sorted lists differ, the list with the smaller name has
it once more: the other has passed its last (`SmallerNameIsMore`). That is a name of its own
plan, which gives the theorem its direction. What is counted in the
sorted lists is what is counted in the plans (`CountOfOrder`, `CollectionsShow`), though
`comparePlans` names a change of two collections together in one branch and of one in the other.

**Comparison** (`ComparerProofs`, second part), for every snapshot, plan text, digest and answer
of EXPLAIN, from `SummaryAssumption` and `PlanTextAssumption` (the types of the rows and texts).
`aggregateSqlInfos` is a fold: after `n` rows there is one statement per group of these, the first
of them, with the counts of all (`IsAggregate`). The loop is then described by what it has
passed: every statement counted once (`CountInv`), both its plans read and the new one cached
for good (`ReadInv`), and kept exactly when they differ (`ChangedInv`), beside a digest of an
entry of the same statement with an equal plan (`DigestInv`), whenever that was recorded; the report is that list in another order
(`ReportInv`). `ReportTheorem` adds that sums over the groups make up the sum over the snapshot.
`LinksTheorem` is about `renderComparison` alone: the anchors of a title that are in use are
numbered without a gap, so `uniqueHeadingAnchor` gives one that is in use nowhere, and the
anchor of an SQL section is remembered for its own statement.

**Index report** (`RecommendIndexProofs`), for every snapshot, advice and limit, from
`LimitAssumption` (the limit is positive) and `SummaryAssumption`. The samples are one per key
with the counts of all its rows, the slowest first (`SampleInv`); a result is about a sample
that the loop has passed, and what is completed is for the current one (`ResultInv`); the loop
ends at its end or with a full report (`PositionInv`). Of the advice, `AnswerInv` keeps that
the rows at hand are those returned for the current statement, and that what is completed is
taken from the first `tried` of them in order (`Picked`): a place is added at its end when a row
is explained, and none when it is skipped. Hence the three theorems.

**Induction over data.** The library's induction theorems take an operator as a parameter,
which the provers cannot instantiate. `DataLemmas` therefore argues by the least
counterexample (`LeastNat`, `LeastSubset`): of the numbers, or the subsets of a finite set, for
which a fact is false, the least one contradicts one unfolding of the definition. So prefix
sums, `MapThenSumSet` and the folds over sequences are solved once there, and `parsePlan`,
its collections, `planNodesEqual`, `aggregateSqlInfos` and `aggregateAndSortSamples` in their modules.

`PROJECT.json`, "theorems", lists the results. TLC checks the properties they state on the
instances above. Each assumption on a constant is evaluated by a run.

**Only model-checked.** Liveness (`CallersReturn`, `ValidateEnds`, `SignalEndsProcess`,
`EveryBorrowerIsServed`, `CommandEnds`, `Returns`, the fairness part of
`ImplementsLifecycle`): the prover does not reason about ENABLED. The properties of the
four runs that end in a violation are false, so there is nothing to prove.

## 5. Not modelled

* Texts: SQL normalisation, prepared-statement arguments, hint insertion, Markdown,
  JSON. They work character by character, and no property here depends on them.
* Weighted averages (memory, request units) of the index report: no step depends on
  them.
* `sql.DB` inside, other than in `Sessions`: a pool is open or closed.
* Flags, `GET /healthz`, a listener that fails, manifests, the texts of DDL and queries, and
  the values of columns that are no key.
* Two prepare commands at the same time over one schema: the README has a schema dedicated to
  a test; a command that was killed leaves only its unfinished batches.
* The anchors of the index report: the code does not keep them apart, and nothing says it
  should.

## 6. Plan

1. *Done:* connection manager, its lifecycle and proofs; service and proofs; pooled
   sessions; the prepare command with schema, binding validation and workload; plan trees;
   comparison; index report; the proofs of all of these.
2. *If more is wanted:* abstract specifications of the two reports, as functions of the
   snapshot and of the optimizer's answers; the runner as a refinement of a counter of
   executions.
