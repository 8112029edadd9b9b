------------------------------- MODULE Sessions -------------------------------
(***************************************************************************)
(* The sessions behind one *sql.DB: what requests do to them when they     *)
(* borrow a connection for a statement (diagnosis/repository.go:57-157,    *)
(* compare/repository.go:47-167, index_advisor/recommend_index.go).        *)
(*                                                                         *)
(* database/sql is external: it keeps at most MaxOpen connections, gives   *)
(* an idle one or a new one to a borrower, makes the others wait, and      *)
(* hands a connection on as it is, with the schema its last borrower has   *)
(* selected.  A request borrows one connection after another: for a query  *)
(* of the summary, or for a sample, under the schema recorded with it.     *)
(***************************************************************************)
EXTENDS Naturals, FiniteSets

CONSTANTS Requests,
          Schemas,      \* schemas recorded with samples
          MaxOpen,      \* SetMaxOpenConns
          MaxIdle,      \* SetMaxIdleConns
          MaxBorrows    \* bound: connections one request borrows, one by one

ASSUME SessionAssumption ==
    /\ MaxOpen \in Nat \ {0}
    /\ MaxIdle \in 0 .. MaxOpen
    /\ MaxBorrows \in Nat
    /\ Schemas \cap {"none", "default"} = {}

Conns == 1 .. MaxOpen
NoConn == 0

VARIABLES
    pool,       \* the *sql.DB: "open" or "closed"
    conn,       \* conn[c]: "none", "idle", "busy", or "broken" in its borrower's hands
    schema,     \* schema[c]: the current schema of the session, "default" the DSN's
    pc,         \* pc[r]: where the request is
    holds,      \* holds[r]: the connection it has borrowed
    sample,     \* sample[r]: what it is for: a schema, "none" (recorded without), "query"
    borrows,    \* borrows[r]: connections borrowed so far
    ranIn       \* ranIn[r]: the schema its statement ran in, or "nowhere" yet

vars == <<pool, conn, schema, pc, holds, sample, borrows, ranIn>>

Samples == Schemas \cup {"none"}

Init ==
    /\ pool = "open"
    /\ conn = [c \in Conns |-> "none"]
    /\ schema = [c \in Conns |-> "default"]
    /\ pc = [r \in Requests |-> "ready"]
    /\ holds = [r \in Requests |-> NoConn]
    /\ sample = [r \in Requests |-> "query"]
    /\ borrows = [r \in Requests |-> 0]
    /\ ranIn = [r \in Requests |-> "nowhere"]

Goto(r, label) == pc' = [pc EXCEPT ![r] = label]

\* The function that borrowed returns.
Forget(r) ==
    /\ Goto(r, "ready")
    /\ sample' = [sample EXCEPT ![r] = "query"]
    /\ ranIn' = [ranIn EXCEPT ![r] = "nowhere"]

Idle == {c \in Conns : conn[c] = "idle"}
Unopened == {c \in Conns : conn[c] = "none"}
-----------------------------------------------------------------------------
\* The next statement of the request: its context starts, and it asks for a
\* connection.
Borrow(r, s) ==
    /\ pc[r] = "ready"
    /\ borrows[r] < MaxBorrows
    /\ borrows' = [borrows EXCEPT ![r] = @ + 1]
    /\ sample' = [sample EXCEPT ![r] = s]
    /\ Goto(r, "acquire")
    /\ UNCHANGED <<pool, conn, schema, holds, ranIn>>

\* db.Conn: an idle connection as it is, or else a new one.
Acquire(r, c) ==
    /\ pc[r] = "acquire" /\ pool = "open"
    /\ c \in Idle \/ (Idle = {} /\ c \in Unopened /\ \A d \in Unopened : c <= d)
    /\ conn' = [conn EXCEPT ![c] = "busy"]
    /\ holds' = [holds EXCEPT ![r] = c]
    /\ Goto(r, IF sample[r] \in Schemas THEN "use" ELSE "run")
    /\ UNCHANGED <<pool, schema, sample, borrows, ranIn>>

\* The wait for a connection ends with the context, a new one cannot be opened, or
\* the pool has been closed by a replacement.
AcquireFails(r) ==
    /\ pc[r] = "acquire"
    /\ Forget(r)
    /\ UNCHANGED <<pool, conn, schema, holds, borrows>>

Use(r) ==
    /\ pc[r] = "use"
    /\ schema' = [schema EXCEPT ![holds[r]] = sample[r]]
    /\ Goto(r, "run")
    /\ UNCHANGED <<pool, conn, holds, sample, borrows, ranIn>>

\* Mutant: the statement is sent to the pool, not to the borrowed connection.
RunOnPool(r) ==
    /\ pc[r] = "run"
    /\ \E c \in Idle \cup {holds[r]} :
          ranIn' = [ranIn EXCEPT ![r] = IF sample[r] = "query" THEN @ ELSE schema[c]]
    /\ Goto(r, "close")
    /\ UNCHANGED <<pool, conn, schema, holds, sample, borrows>>

\* EXPLAIN or RECOMMEND INDEX runs in the current schema; a query of the summary
\* names its own.
Run(r) ==
    /\ pc[r] = "run"
    /\ ranIn' = [ranIn EXCEPT ![r] = IF sample[r] = "query" THEN @ ELSE schema[holds[r]]]
    /\ Goto(r, "close")
    /\ UNCHANGED <<pool, conn, schema, holds, sample, borrows>>

\* Mutant: a USE that fails returns without closing the connection, which nobody
\* holds any more.
StatementFailsNoClose(r) ==
    /\ pc[r] \in {"use", "run"}
    /\ \/ UNCHANGED conn
       \/ conn' = [conn EXCEPT ![holds[r]] = "broken"]
    /\ \/ /\ pc[r] = "use" /\ Forget(r)
          /\ holds' = [holds EXCEPT ![r] = NoConn]
       \/ /\ pc[r] = "run" /\ Goto(r, "close")
          /\ UNCHANGED <<holds, sample, ranIn>>
    /\ UNCHANGED <<pool, schema, borrows>>

\* USE or the statement fails: TiDB refuses it, or the connection breaks, as it
\* does when the context ends under a statement.  A USE that was refused leaves
\* the schema of the session as it was.
StatementFails(r) ==
    /\ pc[r] \in {"use", "run"}
    /\ \/ UNCHANGED conn
       \/ conn' = [conn EXCEPT ![holds[r]] = "broken"]
    /\ Goto(r, "close")
    /\ UNCHANGED <<pool, schema, holds, sample, borrows, ranIn>>

\* conn.Close: the pool keeps the connection, or drops it if it broke, if enough
\* are idle already, or if the pool is closed.
GiveBack(r) ==
    /\ pc[r] = "close"
    /\ LET c == holds[r]
           kept == conn[c] = "busy" /\ pool = "open" /\ Cardinality(Idle) < MaxIdle
       IN /\ conn' = [conn EXCEPT ![c] = IF kept THEN "idle" ELSE "none"]
          /\ schema' = [schema EXCEPT ![c] = IF kept THEN @ ELSE "default"]
    /\ holds' = [holds EXCEPT ![r] = NoConn]
    /\ Forget(r)
    /\ UNCHANGED <<pool, borrows>>

Served(r) == (\E c \in Conns : Acquire(r, c)) \/ Use(r) \/ Run(r) \/ StatementFails(r)
                \/ GiveBack(r)
-----------------------------------------------------------------------------
\* The pool closes an idle connection: its life time or idle time is over.
Expire(c) ==
    /\ conn[c] = "idle"
    /\ conn' = [conn EXCEPT ![c] = "none"]
    /\ schema' = [schema EXCEPT ![c] = "default"]
    /\ UNCHANGED <<pool, pc, holds, sample, borrows, ranIn>>

\* A replacement, or the end of the service, closes the pool and what is idle in it.
ClosePool ==
    /\ pool = "open"
    /\ pool' = "closed"
    /\ conn' = [c \in Conns |-> IF conn[c] = "idle" THEN "none" ELSE conn[c]]
    /\ schema' = [c \in Conns |-> IF conn[c] = "idle" THEN "default" ELSE schema[c]]
    /\ UNCHANGED <<pc, holds, sample, borrows, ranIn>>

Finished == (\A r \in Requests : pc[r] = "ready") /\ UNCHANGED vars

Next == \/ \E r \in Requests : \/ \E s \in Samples \cup {"query"} : Borrow(r, s)
                               \/ Served(r)
                               \/ AcquireFails(r)
        \/ \E c \in Conns : Expire(c)
        \/ ClosePool
        \/ Finished

\* Nobody has to ask.  Statements end, with their contexts at the latest, and a
\* request whose pool is closed fails at once.  Nothing is assumed of the timeout
\* of a wait for a connection.
Spec ==
    /\ Init
    /\ [][Next]_vars
    /\ \A r \in Requests : WF_vars(Served(r)) /\ WF_vars(pool = "closed" /\ AcquireFails(r))
-----------------------------------------------------------------------------
\* Every variable has its type, and a connection is in the pool or in one hand.
TypeOK ==
    /\ pool \in {"open", "closed"}
    /\ conn \in [Conns -> {"none", "idle", "busy", "broken"}]
    /\ schema \in [Conns -> Schemas \cup {"default"}]
    /\ pc \in [Requests -> {"ready", "acquire", "use", "run", "close"}]
    /\ holds \in [Requests -> Conns \cup {NoConn}]
    /\ sample \in [Requests -> Samples \cup {"query"}]
    /\ borrows \in [Requests -> 0 .. MaxBorrows]
    /\ ranIn \in [Requests -> Schemas \cup {"default", "nowhere"}]
    /\ \A c \in Conns : conn[c] \in {"busy", "broken"} <=> \E r \in Requests : holds[r] = c

\* A sample recorded with a schema is explained in that schema, whatever earlier
\* borrowers have selected on the connection it is given and whoever else runs at
\* the same time (repository.go:126-145, compare/repository.go:100-119).
RunsInItsOwnSchema ==
    \A r \in Requests : sample[r] \in Schemas => ranIn[r] \in {sample[r], "nowhere"}

\* A request that waits for a connection gets one, or learns that the pool was
\* closed, although its timeout never fires: every borrower gives its connection
\* back on every path, before it asks for another (repository.go:120-124,
\* compare/repository.go:76-98, 146-150).
EveryBorrowerIsServed == \A r \in Requests : pc[r] = "acquire" ~> pc[r] # "acquire"
=============================================================================
