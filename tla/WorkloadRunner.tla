--------------------------- MODULE WorkloadRunner ---------------------------
(***************************************************************************)
(* prepareTPCCStatements after the bindings are validated                  *)
(* (prepare/tpcc_runner.go:57-119, 189-260) and the part of Run around it  *)
(* (prepare/prepare.go:59, 70).  The main goroutine opens one session per  *)
(* worker and installs every binding in it, starts the workers, waits for  *)
(* them, sums their results up, and gives the sessions back.  A worker     *)
(* that fails cancels the others; the run context also ends at its         *)
(* deadline and when the process is signalled.                             *)
(***************************************************************************)
EXTENDS WeightedPicker

CONSTANTS K,            \* -prepare-concurrency
          Weights,      \* the weight of each statement, as assigned
          MaxWeight,    \* maxWeight of assignRandomWeights
          MaxRuns       \* bound: statements one worker executes at most

ASSUME RunnerAssumption ==
    /\ K \in Nat \ {0}
    /\ MaxWeight \in Nat
    /\ Weights \in Seq(1 .. MaxWeight) /\ Weights # <<>>
    /\ Weights \in AssignedWeights(Len(Weights), MaxWeight)
    /\ MaxRuns \in Nat

Workers == 1 .. K
Workloads == 1 .. Len(Weights)

VARIABLES
    pc,         \* the main goroutine
    next,       \* the worker whose session is being opened, or closed
    conn,       \* conn[i]: "none", "held" by worker i, "idle" in the pool, "closed"
    bindings,   \* bindings[i]: the workloads bound in the session of worker i
    wpc,        \* wpc[i]: the goroutine of worker i
    chosen,     \* chosen[i]: the workload it has picked
    runs,       \* runs[i]: its local count of executions
    counts,     \* executionCounts
    failure,    \* failure[i]: runErr of worker i is not nil
    results,    \* the channel
    chan,       \* "open" or "closed"
    parent,     \* the caller's context: "live" or "cancelled"
    runCtx,     \* why runCtx ended first: "live", "deadline", "parent", "worker", "end"
    total,      \* totalExecutions
    err         \* what prepareTPCCStatements returns: TRUE for an error

sessions == <<next, conn, bindings>>
local == <<chosen, runs, failure>>
vars == <<pc, sessions, wpc, local, counts, results, chan, parent, runCtx, total, err>>

MainPoints == {"open", "abandon", "start", "wait", "close", "collect", "ctxerr",
               "cleanup", "return", "exited"}
WorkerPoints == {"new", "loop", "query", "count", "failed", "send", "cancel", "finish", "gone"}

Init ==
    /\ pc = "open"
    /\ next = 1
    /\ conn = [i \in Workers |-> "none"]
    /\ bindings = [i \in Workers |-> {}]
    /\ wpc = [i \in Workers |-> "new"]
    /\ chosen = [i \in Workers |-> 1]
    /\ runs = [i \in Workers |-> 0]
    /\ counts = [x \in Workloads |-> 0]
    /\ failure = [i \in Workers |-> FALSE]
    /\ results = <<>>
    /\ chan = "open"
    /\ parent = "live"
    /\ runCtx = "live"
    /\ total = 0
    /\ err = FALSE

WGoto(i, label) == wpc' = [wpc EXCEPT ![i] = label]

\* The run context ends for the first reason only.
EndRun(why) == runCtx' = IF runCtx = "live" THEN why ELSE runCtx
-----------------------------------------------------------------------------
(***************************************************************************)
(* createTPCCWorkers.                                                      *)
(***************************************************************************)

\* Mutant: one worker too many.
OpenWorkerOffByOne ==
    /\ pc = "open"
    /\ parent = "live"
    /\ conn' = [conn EXCEPT ![next] = "held"]
    /\ bindings' = [bindings EXCEPT ![next] = Workloads]
    /\ next' = next + 1
    /\ pc' = IF next > K THEN "start" ELSE "open"
    /\ UNCHANGED <<wpc, local, counts, results, chan, parent, runCtx, total, err>>

\* Mutant: the loop over the workloads stops at the first binding.
OpenWorkerOneBinding ==
    /\ pc = "open"
    /\ parent = "live"
    /\ conn' = [conn EXCEPT ![next] = "held"]
    /\ bindings' = [bindings EXCEPT ![next] = {1}]
    /\ next' = next + 1
    /\ pc' = IF next = K THEN "start" ELSE "open"
    /\ UNCHANGED <<wpc, local, counts, results, chan, parent, runCtx, total, err>>

\* A session for the next worker: Conn, USE and every CREATE SESSION BINDING.
OpenWorker ==
    /\ pc = "open"
    /\ parent = "live"
    /\ conn' = [conn EXCEPT ![next] = "held"]
    /\ bindings' = [bindings EXCEPT ![next] = Workloads]
    /\ next' = next + 1
    /\ pc' = IF next = K THEN "start" ELSE "open"
    /\ UNCHANGED <<wpc, local, counts, results, chan, parent, runCtx, total, err>>

\* One of them fails: the connection, if there is one, goes back to the pool with
\* whatever is bound in it, or is closed because it broke.
OpenWorkerFails ==
    /\ pc = "open"
    /\ \/ UNCHANGED <<conn, bindings>>
       \/ \E done \in SUBSET Workloads :
             /\ done # Workloads
             /\ bindings' = [bindings EXCEPT ![next] = done]
             /\ conn' = [conn EXCEPT ![next] = "idle"]
       \/ conn' = [conn EXCEPT ![next] = "closed"] /\ UNCHANGED bindings
    /\ pc' = "abandon"
    /\ UNCHANGED <<next, wpc, local, counts, results, chan, parent, runCtx, total, err>>

\* Mutant: the sessions of the earlier workers are kept.
AbandonKeepsSessions ==
    /\ pc = "abandon"
    /\ err' = TRUE
    /\ pc' = "return"
    /\ UNCHANGED <<sessions, wpc, local, counts, results, chan, parent, runCtx, total>>

\* closeConnections gives back the sessions of the workers created so far.
Abandon ==
    /\ pc = "abandon"
    /\ conn' = [i \in Workers |-> IF i < next THEN "idle" ELSE conn[i]]
    /\ err' = TRUE
    /\ pc' = "return"
    /\ UNCHANGED <<next, bindings, wpc, local, counts, results, chan, parent, runCtx, total>>

\* The goroutines are started, with the deadline of the run running.
Start ==
    /\ pc = "start"
    /\ wpc' = [i \in Workers |-> "loop"]
    /\ EndRun(IF parent = "cancelled" THEN "parent" ELSE "live")
    /\ pc' = "wait"
    /\ UNCHANGED <<sessions, local, counts, results, chan, parent, total, err>>
-----------------------------------------------------------------------------
(***************************************************************************)
(* runTPCCWorker and the goroutine around it.                              *)
(***************************************************************************)

\* The loop ends when the run context has ended.
SeeEnd(i) ==
    /\ wpc[i] = "loop"
    /\ runCtx # "live"
    /\ WGoto(i, "send")
    /\ UNCHANGED <<pc, sessions, local, counts, results, chan, parent, runCtx, total, err>>

Pick(i, draw) ==
    /\ wpc[i] = "loop"
    /\ runCtx = "live"
    /\ runs[i] < MaxRuns
    /\ chosen' = [chosen EXCEPT ![i] = PickWorkload(Weights, draw)]
    /\ WGoto(i, "query")
    /\ UNCHANGED <<pc, sessions, runs, failure, counts, results, chan, parent, runCtx, total, err>>

\* drainQuery returns all rows: executions++.
QueryRuns(i) ==
    /\ wpc[i] = "query"
    /\ runs' = [runs EXCEPT ![i] = @ + 1]
    /\ WGoto(i, "count")
    /\ UNCHANGED <<pc, sessions, chosen, failure, counts, results, chan, parent, runCtx, total, err>>

\* executionCounts[workloadIndex].Add(1).
Count(i) ==
    /\ wpc[i] = "count"
    /\ counts' = [counts EXCEPT ![chosen[i]] = @ + 1]
    /\ WGoto(i, "loop")
    /\ UNCHANGED <<pc, sessions, local, results, chan, parent, runCtx, total, err>>

\* drainQuery fails: by itself, or because the run context ended and the driver
\* closed the connection under it.
QueryFails(i) ==
    /\ wpc[i] = "query"
    /\ \/ UNCHANGED bindings
       \/ bindings' = [bindings EXCEPT ![i] = {}]
    /\ WGoto(i, "failed")
    /\ UNCHANGED <<pc, next, conn, local, counts, results, chan, parent, runCtx, total, err>>

\* The context is looked at after the query has failed: its end excuses any error.
CheckContext(i) ==
    /\ wpc[i] = "failed"
    /\ failure' = [failure EXCEPT ![i] = runCtx = "live"]
    /\ WGoto(i, "send")
    /\ UNCHANGED <<pc, sessions, chosen, runs, counts, results, chan, parent, runCtx, total, err>>

\* Mutant: a worker that fails reports no executions.
SendNothingOnError(i) ==
    /\ wpc[i] = "send"
    /\ chan = "open"
    /\ Len(results) < K
    /\ results' = Append(results, [id |-> i, executions |-> IF failure[i] THEN 0 ELSE runs[i],
                                   err |-> failure[i]])
    /\ WGoto(i, IF failure[i] THEN "cancel" ELSE "finish")
    /\ UNCHANGED <<pc, sessions, local, counts, chan, parent, runCtx, total, err>>

\* Mutant: the channel is one place short.
SendToShortChannel(i) ==
    /\ wpc[i] = "send"
    /\ chan = "open"
    /\ Len(results) < K - 1
    /\ results' = Append(results, [id |-> i, executions |-> runs[i], err |-> failure[i]])
    /\ WGoto(i, IF failure[i] THEN "cancel" ELSE "finish")
    /\ UNCHANGED <<pc, sessions, local, counts, chan, parent, runCtx, total, err>>

\* The channel has room for one result of every worker.
Send(i) ==
    /\ wpc[i] = "send"
    /\ chan = "open"
    /\ Len(results) < K
    /\ results' = Append(results, [id |-> i, executions |-> runs[i], err |-> failure[i]])
    /\ WGoto(i, IF failure[i] THEN "cancel" ELSE "finish")
    /\ UNCHANGED <<pc, sessions, local, counts, chan, parent, runCtx, total, err>>

CancelOthers(i) ==
    /\ wpc[i] = "cancel"
    /\ EndRun("worker")
    /\ WGoto(i, "finish")
    /\ UNCHANGED <<pc, sessions, local, counts, results, chan, parent, total, err>>

\* The deferred waitGroup.Done.
Finish(i) ==
    /\ wpc[i] = "finish"
    /\ WGoto(i, "gone")
    /\ UNCHANGED <<pc, sessions, local, counts, results, chan, parent, runCtx, total, err>>

WorkerStep(i) == SeeEnd(i) \/ (\E draw \in Draws(Weights) : Pick(i, draw)) \/ QueryRuns(i)
                    \/ Count(i) \/ QueryFails(i) \/ CheckContext(i) \/ Send(i)
                    \/ CancelOthers(i) \/ Finish(i)
-----------------------------------------------------------------------------
(***************************************************************************)
(* The main goroutine after the start.                                     *)
(***************************************************************************)

\* waitGroup.Wait, then cancel.
Wait ==
    /\ pc = "wait"
    /\ \A i \in Workers : wpc[i] = "gone"
    /\ EndRun("end")
    /\ pc' = "close"
    /\ UNCHANGED <<sessions, wpc, local, counts, results, chan, parent, total, err>>

CloseChannel ==
    /\ pc = "close"
    /\ chan' = "closed"
    /\ pc' = "collect"
    /\ UNCHANGED <<sessions, wpc, local, counts, results, parent, runCtx, total, err>>

\* for result := range results: sum the executions, join the errors.
Collect ==
    /\ pc = "collect"
    /\ IF results = <<>>
       THEN pc' = "ctxerr" /\ UNCHANGED <<results, total, err>>
       ELSE /\ total' = total + Head(results).executions
            /\ err' = (err \/ Head(results).err)
            /\ results' = Tail(results)
            /\ UNCHANGED pc
    /\ UNCHANGED <<sessions, wpc, local, counts, chan, parent, runCtx>>

\* Mutant: the end of the caller's context is not an error.
CheckParentNot ==
    /\ pc = "ctxerr"
    /\ next' = 1
    /\ pc' = "cleanup"
    /\ UNCHANGED <<conn, bindings, wpc, local, counts, results, chan, parent, runCtx, total, err>>

\* The caller's context: a run that was interrupted is an error.
CheckParent ==
    /\ pc = "ctxerr"
    /\ err' = (err \/ parent = "cancelled")
    /\ next' = 1
    /\ pc' = "cleanup"
    /\ UNCHANGED <<conn, bindings, wpc, local, counts, results, chan, parent, runCtx, total>>

\* closeTPCCWorkers: drop every binding of the session, or stop at the first DROP
\* that fails, and give the connection back; a broken one is closed by the pool.
CloseWorker ==
    /\ pc = "cleanup"
    /\ next <= K
    /\ \E left \in SUBSET bindings[next] : bindings' = [bindings EXCEPT ![next] = left]
    /\ \E after \in {"idle", "closed"} : conn' = [conn EXCEPT ![next] = after]
    /\ next' = next + 1
    /\ UNCHANGED <<pc, wpc, local, counts, results, chan, parent, runCtx, total, err>>

Return ==
    /\ pc = "cleanup"
    /\ next > K
    /\ pc' = "return"
    /\ UNCHANGED <<sessions, wpc, local, counts, results, chan, parent, runCtx, total, err>>

\* Run's deferred db.Close: the idle connections are closed, which is where a
\* binding that is still in a session disappears.
CloseDB ==
    /\ pc = "return"
    /\ conn' = [i \in Workers |-> IF conn[i] = "idle" THEN "closed" ELSE conn[i]]
    /\ pc' = "exited"
    /\ UNCHANGED <<next, bindings, wpc, local, counts, results, chan, parent, runCtx, total, err>>

MainStep == OpenWorker \/ OpenWorkerFails \/ Abandon \/ Start \/ Wait \/ CloseChannel
               \/ Collect \/ CheckParent \/ CloseWorker \/ Return \/ CloseDB
-----------------------------------------------------------------------------
(***************************************************************************)
(* The contexts.                                                           *)
(***************************************************************************)

\* The duration of the run is over.
Deadline ==
    /\ pc = "wait"
    /\ runCtx = "live"
    /\ runCtx' = "deadline"
    /\ UNCHANGED <<pc, sessions, wpc, local, counts, results, chan, parent, total, err>>

\* SIGINT or SIGTERM, which ends the run as well once it has begun.
Interrupt ==
    /\ pc # "exited"
    /\ parent = "live"
    /\ parent' = "cancelled"
    /\ IF pc = "wait" THEN EndRun("parent") ELSE UNCHANGED runCtx
    /\ UNCHANGED <<pc, sessions, wpc, local, counts, results, chan, total, err>>

Next == MainStep \/ (\E i \in Workers : WorkerStep(i)) \/ Deadline \/ Interrupt

Safety == Init /\ [][Next]_vars

\* The goroutines are scheduled, queries end (with their context at the latest),
\* and the timer of the run fires.  Nobody has to interrupt.
Spec == /\ Safety
        /\ WF_vars(MainStep)
        /\ \A i \in Workers : WF_vars(WorkerStep(i))
        /\ WF_vars(Deadline)
-----------------------------------------------------------------------------
(***************************************************************************)
(* Properties.                                                             *)
(***************************************************************************)

\* Every variable has its type.
TypeOK ==
    /\ pc \in MainPoints
    /\ next \in 1 .. K + 1
    /\ conn \in [Workers -> {"none", "held", "idle", "closed"}]
    /\ bindings \in [Workers -> SUBSET Workloads]
    /\ wpc \in [Workers -> WorkerPoints]
    /\ chosen \in [Workers -> Workloads]
    /\ runs \in [Workers -> 0 .. MaxRuns]
    /\ counts \in [Workloads -> 0 .. K * MaxRuns]
    /\ failure \in [Workers -> BOOLEAN]
    /\ Len(results) <= K
    /\ \A j \in DOMAIN results :
          results[j] \in [id : Workers, executions : 0 .. MaxRuns, err : BOOLEAN]
    /\ chan \in {"open", "closed"}
    /\ parent \in {"live", "cancelled"}
    /\ runCtx \in {"live", "deadline", "parent", "worker", "end"}
    /\ total \in 0 .. K * MaxRuns
    /\ err \in BOOLEAN

\* prepareTPCCStatements returns no error only if the run lasted until its
\* deadline: the worker whose error ended it, or the signal, is never lost, even
\* though every error found after the end of the run context is excused.
SuccessMeansDeadline == pc \in {"return", "exited"} /\ ~err => runCtx = "deadline"

\* The total and the per-workload summary (tpcc_runner.go:105-117), counted apart
\* from each other by every worker, agree once the workers are waited for.
TotalsAgree ==
    pc \in {"ctxerr", "cleanup", "return", "exited"} =>
        total = MapThenSumSet(LAMBDA x : counts[x], Workloads)

\* The picker that the workers are started with picks every statement in proportion
\* to its weight, whichever unique weights were drawn (README.md:142-146; bound: 5
\* for the 100 of maxWeight).
EveryPickIsProportional ==
    pc = "start" => \A n \in 1 .. Len(Weights) + 1 : PicksAreProportional(n, MaxWeight)

\* No connection outlives the command, on whichever path it returns, so no session
\* binding does (README.md:147: "No global binding is created").
NoSessionSurvives == pc = "exited" => \A i \in Workers : conn[i] \in {"none", "closed"}

\* Statements are recorded under all bindings: a worker starts a query on a session
\* in which every binding is installed.
QueriesRunBound ==
    [][\A i \in Workers : wpc[i] = "loop" /\ wpc'[i] = "query" => bindings[i] = Workloads]_vars

\* The command returns.
Returns == <>(pc = "exited")
=============================================================================
