-------------------------- MODULE DiagnosticService --------------------------
(***************************************************************************)
(* The service process: requests run over whatever pool is active when     *)
(* they ask (PoolLifecycle, which ConnectionManager implements), and main  *)
(* stops the server on a signal.                                           *)
(*                                                                         *)
(* POST /validate (validator.go, handler.go) asks for the active pool      *)
(* before every statement; GET /compare and GET /recommend-index ask once  *)
(* (connection.go:112-126).                                                *)
(*                                                                         *)
(* The server's write deadline runs from the end of the request header.    *)
(* Until then time passes, in any unit, in the statements of a validation, *)
(* each up to its timeout, and outside them: scheduling, logging, closing  *)
(* rows and connections, writing the response.  No timeout of the code     *)
(* limits the second kind.  A statement takes at least one unit.           *)
(***************************************************************************)
EXTENDS PoolLifecycle, Naturals, FiniteSets

CONSTANTS Requests,         \* diagnostic requests, one handler call each
          NoPool,           \* the nil pool
          SampleCount,      \* samples asked of the one source
          QueryTimeout,     \* limit of a sampling query
          ExplainTimeout,   \* limit of the EXPLAIN of one sample
          WriteTimeout,     \* http.Server.WriteTimeout
          MaxOverhead       \* bound: time outside the statements of a validation

ASSUME ServiceAssumption ==
    /\ NoPool \notin Pools
    /\ SampleCount \in Nat \ {0}
    /\ QueryTimeout \in Nat \ {0}
    /\ ExplainTimeout \in Nat \ {0}
    /\ WriteTimeout \in Nat
    /\ MaxOverhead \in Nat

VARIABLES
    server,     \* "serving", then "stopping" (Shutdown called), "closed"
                \* (deferred Close done), "exited"
    drain,      \* what Shutdown reports: "no", "waiting", "drained", "timedout"
    kind,       \* kind[r]: the endpoint
    stage,      \* stage[r]: where its handler is
    cur,        \* cur[r]: the pool current() returned
    nodes,      \* nodes[r]: the pools its statements have run on
    sampled, explained,     \* the counts of the validation's only source
    spent,      \* spent[r]: time the validation has spent in its statements
    overhead    \* overhead[r]: and outside them

clocks == <<spent, overhead>>
reqVars == <<kind, stage, cur, nodes, sampled, explained, clocks>>
vars == <<fate, server, drain, reqVars>>

Kinds == {"validate", "compare", "recommend"}

\* "sample" and "explain" are the points of Validate where current() is called,
\* "sampling" and "explaining" those where the statement runs; "run" is the
\* inside of Compare and RecommendIndex, and "write200" and "write422" are in
\* its WriteJSON.  "late" is an answer that the write deadline has cut off.
Asking  == {"sample", "explain", "current"}
Running == {"sampling", "explaining", "run"}
Writing == {"write200", "write422"}
InFlight == Asking \cup Running \cup Writing
Ended   == {"200", "422", "late", "lost"}
Stages  == {"idle"} \cup InFlight \cup Ended

ServiceInit ==
    /\ Init
    /\ server = "serving"
    /\ drain = "no"
    /\ kind = [r \in Requests |-> "validate"]
    /\ stage = [r \in Requests |-> "idle"]
    /\ cur = [r \in Requests |-> NoPool]
    /\ nodes = [r \in Requests |-> {}]
    /\ sampled = [r \in Requests |-> 0]
    /\ explained = [r \in Requests |-> 0]
    /\ spent = [r \in Requests |-> 0]
    /\ overhead = [r \in Requests |-> 0]

Goto(r, label) == stage' = [stage EXCEPT ![r] = label]

\* The process is alive; after Exit nothing happens any more.
Alive == server # "exited"
-----------------------------------------------------------------------------
(***************************************************************************)
(* Requests.                                                               *)
(***************************************************************************)

\* The mux hands a request to its handler.
Accept(r, k) ==
    /\ server = "serving"
    /\ stage[r] = "idle"
    /\ kind' = [kind EXCEPT ![r] = k]
    /\ Goto(r, IF k = "validate" THEN "sample" ELSE "current")
    /\ UNCHANGED <<fate, server, drain, cur, nodes, sampled, explained, clocks>>

AfterCurrent(label) == CASE label = "sample"  -> "sampling"
                         [] label = "explain" -> "explaining"
                         [] label = "current" -> "run"

\* current() returns the active pool.
Current(r, p) ==
    /\ Alive
    /\ stage[r] \in Asking
    /\ fate[p] = "active"
    /\ cur' = [cur EXCEPT ![r] = p]
    /\ Goto(r, AfterCurrent(stage[r]))
    /\ UNCHANGED <<fate, server, drain, kind, nodes, sampled, explained, clocks>>

\* Mutant: the request waits for a connection instead of failing.
NoConnectionWaits(r) == FALSE /\ UNCHANGED vars

\* There is none: ErrNoTiDBConnection fails the request.
NoConnection(r) ==
    /\ Alive
    /\ stage[r] \in Asking
    /\ \A p \in Pools : fate[p] # "active"
    /\ Goto(r, IF kind[r] = "validate" THEN "write422" ELSE "422")
    /\ UNCHANGED <<fate, server, drain, kind, cur, nodes, sampled, explained, clocks>>

\* A statement can run on the pool a request holds unless it has been closed.
Runs(r) ==
    /\ fate[cur[r]] # "closed"
    /\ nodes' = [nodes EXCEPT ![r] = @ \cup {cur[r]}]

Spend(r, d) ==
    /\ spent' = [spent EXCEPT ![r] = @ + d]
    /\ UNCHANGED overhead

\* Time passes in a validation outside its statements, at any point of it.
Elapse(r) ==
    /\ Alive
    /\ kind[r] = "validate" /\ stage[r] \in InFlight
    /\ overhead[r] < MaxOverhead
    /\ overhead' = [overhead EXCEPT ![r] = @ + 1]
    /\ UNCHANGED <<fate, server, drain, kind, stage, cur, nodes, sampled, explained, spent>>

\* The sampling query returns n rows that are not blank.
SampleSucceeds(r, n, d) ==
    /\ Alive
    /\ stage[r] = "sampling"
    /\ d <= QueryTimeout
    /\ Runs(r)
    /\ Spend(r, d)
    /\ sampled' = [sampled EXCEPT ![r] = n]
    /\ Goto(r, IF n = 0 THEN "write422" ELSE "explain")
    /\ UNCHANGED <<fate, server, drain, kind, cur, explained>>

\* Mutant: one EXPLAIN too many.
AfterExplainOffByOne(r) ==
    CASE explained[r] + 1 <= sampled[r] -> "explain"
      [] OTHER -> "write200"

\* Mutant: too few samples are not a failure.
AfterExplainAnyCount(r) ==
    IF explained[r] + 1 < sampled[r] THEN "explain" ELSE "write200"

\* The next sample, or the answer: too few samples fail only after all of them
\* have been explained.
AfterExplain(r) ==
    CASE explained[r] + 1 < sampled[r] -> "explain"
      [] explained[r] + 1 = sampled[r] /\ sampled[r] < SampleCount -> "write422"
      [] OTHER -> "write200"

\* A sample (the next one) is explained.
ExplainSucceeds(r, d) ==
    /\ Alive
    /\ stage[r] = "explaining"
    /\ d <= ExplainTimeout
    /\ Runs(r)
    /\ Spend(r, d)
    /\ explained' = [explained EXCEPT ![r] = @ + 1]
    /\ Goto(r, AfterExplain(r))
    /\ UNCHANGED <<fate, server, drain, kind, cur, sampled>>

\* Mutant: taking a connection and explaining have a timeout each.
StatementFailsTwice(r, d) ==
    /\ Alive
    /\ stage[r] \in {"sampling", "explaining"}
    /\ d <= QueryTimeout + ExplainTimeout
    /\ Spend(r, d)
    /\ Goto(r, "write422")
    /\ UNCHANGED <<fate, server, drain, kind, cur, nodes, sampled, explained>>

\* The statement fails, at the latest when its timeout expires.
StatementFails(r, d) ==
    /\ Alive
    /\ \/ stage[r] = "sampling"   /\ d <= QueryTimeout
       \/ stage[r] = "explaining" /\ d <= ExplainTimeout
    /\ Spend(r, d)
    /\ Goto(r, "write422")
    /\ UNCHANGED <<fate, server, drain, kind, cur, nodes, sampled, explained>>

\* Mutant: every statement of a report asks for the active pool again.
RunStatementAnywhere(r) ==
    /\ Alive
    /\ stage[r] = "run"
    /\ \E p \in Pools : fate[p] = "active" /\ nodes' = [nodes EXCEPT ![r] = @ \cup {p}]
    /\ UNCHANGED <<fate, server, drain, kind, stage, cur, sampled, explained, clocks>>

\* Compare and RecommendIndex run statement after statement on the one pool
\* they were given, with the write deadline cleared.
RunStatement(r) ==
    /\ Alive
    /\ stage[r] = "run"
    /\ Runs(r)
    /\ UNCHANGED <<fate, server, drain, kind, stage, cur, sampled, explained, clocks>>

\* The report is sent, or the error of a statement; a report has no write deadline.
Respond(r, code) ==
    /\ Alive
    /\ stage[r] = "run"
    /\ Goto(r, code)
    /\ UNCHANGED <<fate, server, drain, kind, cur, nodes, sampled, explained, clocks>>

OnTime(r) == spent[r] + overhead[r] < WriteTimeout

\* The answer of a validation is written; after the write deadline the client gets
\* nothing, and the connection is closed.
WriteAnswer(r) ==
    /\ Alive
    /\ stage[r] \in Writing
    /\ Goto(r, CASE ~ OnTime(r) -> "late"
                  [] OnTime(r) /\ stage[r] = "write200" -> "200"
                  [] OTHER -> "422")
    /\ UNCHANGED <<fate, server, drain, kind, cur, nodes, sampled, explained, clocks>>
-----------------------------------------------------------------------------
(***************************************************************************)
(* POST /test/connect and the pools, and the end of the process.           *)
(***************************************************************************)

\* Requests to replace the connection, at any moment.
ManagePools ==
    /\ Alive
    /\ \E p \in Pools : Open(p) \/ Reject(p) \/ Activate(p) \/ Dispose(p)
    /\ UNCHANGED <<server, drain, reqVars>>

\* SIGTERM: Shutdown closes the listener, which ends ListenAndServe at once, and
\* goes on waiting for the handlers in a goroutine of its own.
Signal ==
    /\ server = "serving"
    /\ server' = "stopping"
    /\ drain' = "waiting"
    /\ UNCHANGED <<fate, reqVars>>

\* Shutdown returns: no handler is left, or its ten seconds are over.
Drained ==
    /\ Alive
    /\ drain = "waiting"
    /\ \A r \in Requests : stage[r] \notin InFlight
    /\ drain' = "drained"
    /\ UNCHANGED <<fate, server, reqVars>>

DrainTimesOut ==
    /\ Alive
    /\ drain = "waiting"
    /\ drain' = "timedout"
    /\ UNCHANGED <<fate, server, reqVars>>

\* Mutant: main waits for every handler, without a limit.
CloseConnectionsDrained ==
    /\ server = "stopping"
    /\ drain = "drained"
    /\ server' = "closed"
    /\ \/ \E p \in Pools : Deactivate(p)
       \/ (\A p \in Pools : fate[p] # "active") /\ UNCHANGED fate
    /\ UNCHANGED <<drain, reqVars>>

\* main returns from ListenAndServe and runs the deferred Close.
CloseConnections ==
    /\ server = "stopping"
    /\ server' = "closed"
    /\ \/ \E p \in Pools : Deactivate(p)
       \/ (\A p \in Pools : fate[p] # "active") /\ UNCHANGED fate
    /\ UNCHANGED <<drain, reqVars>>

\* The process ends, and with it every handler that is still running.
Exit ==
    /\ server = "closed"
    /\ server' = "exited"
    /\ stage' = [r \in Requests |-> IF stage[r] \in InFlight THEN "lost" ELSE stage[r]]
    /\ UNCHANGED <<fate, drain, kind, cur, nodes, sampled, explained, clocks>>
-----------------------------------------------------------------------------
ValidateStep(r) ==
    \/ kind[r] = "validate" /\ (NoConnection(r) \/ \E p \in Pools : Current(r, p))
    \/ \E d \in 1 .. QueryTimeout, n \in 0 .. SampleCount : SampleSucceeds(r, n, d)
    \/ \E d \in 1 .. ExplainTimeout : ExplainSucceeds(r, d)
    \/ \E d \in 1 .. QueryTimeout + ExplainTimeout : StatementFails(r, d)
    \/ WriteAnswer(r)

ReportStep(r) ==
    \/ kind[r] # "validate" /\ (NoConnection(r) \/ \E p \in Pools : Current(r, p))
    \/ RunStatement(r)
    \/ \E code \in {"200", "422"} : Respond(r, code)

ServiceNext ==
    \/ \E r \in Requests : \/ \E k \in Kinds : Accept(r, k)
                           \/ ValidateStep(r) \/ ReportStep(r) \/ Elapse(r)
    \/ ManagePools
    \/ Signal \/ Drained \/ DrainTimesOut \/ CloseConnections \/ Exit

ServiceSafety == ServiceInit /\ [][ServiceNext]_vars

\* Handlers are scheduled and their statements are bounded by timeouts; the main
\* goroutine is scheduled.  Nobody has to send a request or a signal.
ServiceSpec ==
    /\ ServiceSafety
    /\ \A r \in Requests : WF_vars(ValidateStep(r))
    /\ WF_vars(CloseConnections)
    /\ WF_vars(Exit)
-----------------------------------------------------------------------------
(***************************************************************************)
(* Properties.                                                             *)
(***************************************************************************)

\* Every variable has its type.
ServiceTypeOK ==
    /\ TypeOK
    /\ server \in {"serving", "stopping", "closed", "exited"}
    /\ drain \in {"no", "waiting", "drained", "timedout"}
    /\ kind \in [Requests -> Kinds]
    /\ stage \in [Requests -> Stages]
    /\ cur \in [Requests -> Pools \cup {NoPool}]
    /\ nodes \in [Requests -> SUBSET Pools]
    /\ sampled \in [Requests -> 0 .. SampleCount]
    /\ explained \in [Requests -> 0 .. SampleCount]
    /\ spent \in [Requests -> Nat]
    /\ overhead \in [Requests -> 0 .. MaxOverhead]

Answered == {"200", "422"}

\* What the timeouts of a validation's statements allow them together
\* (repository.go:16-17, validator.go:9).
StatementLimit == QueryTimeout + SampleCount * ExplainTimeout

\* However a validation's statements share the time, succeed or time out, they
\* never take more than StatementLimit; so a response that misses the write
\* deadline (main.go:22,93) has spent outside its statements at least what
\* WriteTimeout leaves beside that limit.  The code's own values leave nothing.
LateOnlyByOverhead ==
    \A r \in Requests :
        /\ spent[r] <= StatementLimit
        /\ stage[r] = "late" => overhead[r] >= WriteTimeout - StatementLimit

\* A validation answers 200 exactly when it sampled SampleCount statements and
\* explained every one, whatever was replaced meanwhile (validator.go:31-56).
SuccessMeansAllExplained ==
    \A r \in Requests : kind[r] = "validate" /\ stage[r] \in Answered =>
        (stage[r] = "200" <=> sampled[r] = SampleCount /\ explained[r] = SampleCount)

\* A comparison and a recommendation run all their statements on the pool that
\* was active when they started, although it may be replaced meanwhile.
ReportsStayOnOnePool ==
    \A r \in Requests : kind[r] # "validate" => Cardinality(nodes[r]) <= 1

\* Replacing a pool closes it under the requests that use it: they end, with the
\* driver's error at the latest.
ValidateEnds ==
    \A r \in Requests : kind[r] = "validate" /\ stage[r] \in InFlight ~> stage[r] \in Ended

\* A signal ends the process, whatever the handlers do.
SignalEndsProcess == server = "stopping" ~> server = "exited"

\* main.go:99-103: handlers have ten seconds to finish after a signal, and an error
\* is logged if they do not; only then may a request be cut off.
RequestsLostOnlyAfterDrainTimeout ==
    (\E r \in Requests : stage[r] = "lost") => drain = "timedout"
=============================================================================
