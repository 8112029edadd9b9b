-------------------------- MODULE ConnectionManager --------------------------
(***************************************************************************)
(* diagnosis/connection.go and the handler that drives it                  *)
(* (diagnosis/connection_handler.go).  A call of Replace opens a pool,     *)
(* pings it and installs it; Close, deferred by main, uninstalls whatever  *)
(* is active; every diagnostic operation starts with current(), which      *)
(* reads the active pool under the read lock and then uses it without any  *)
(* lock.                                                                   *)
(*                                                                         *)
(* A POST /test/connect request, its Replace call and the pool that call   *)
(* may open all bear the same name c \in Replacers.  sync.RWMutex is       *)
(* modelled as the runtime implements it: a writer first announces itself, *)
(* which keeps new readers out, and then waits for the readers inside.     *)
(***************************************************************************)
EXTENDS FiniteSets

CONSTANTS Replacers,    \* POST /test/connect requests, one Replace call each
          Users,        \* goroutines that run diagnostic operations
          Main,         \* the main goroutine, which runs the deferred Close
          NoDB          \* the nil *sql.DB (also the empty dsn)

ASSUME NamesAssumption ==
    /\ Main \notin Replacers
    /\ NoDB \notin Replacers \cup {Main}

VARIABLES
    db,        \* m.db: the active pool, named by the call that opened it
    dsn,       \* m.dsn: the call whose DSN it is
    writer,    \* who holds, or has announced that it waits for, the write lock
    readers,   \* who holds the read lock
    pool,      \* pool[c]: what has become of the *sql.DB call c opened
    pc,        \* pc[q]: where the writer q is in Replace or Close
    old,       \* old[q]: the local variable oldDB (db in Close)
    upc,       \* upc[u]: where the goroutine u is in current() and after
    held       \* held[u]: the pool current() returned to u

vars == <<db, dsn, writer, readers, pool, pc, old, upc, held>>
lockVars == <<writer, readers>>
userVars == <<upc, held>>

Writers == Replacers \cup {Main}

\* The program points of Replace and Close.  "drain" to "unlock" hold the
\* writer side of the mutex, "read" to "unlock" are the critical section.
Critical == {"read", "setdb", "setdsn", "unlock"}
Before   == {"ping", "lock", "drain", "read", "setdb"}
After    == {"setdsn", "unlock", "closeold"}
Returned == {"rejected", "failed", "done"}
ReplacePoints == {"call"} \cup Before \cup After \cup Returned
ClosePoints   == {"call", "lock", "drain", "read", "setdb"} \cup After \cup {"done"}
UserPoints    == {"call", "rlock", "read", "runlock", "check", "use"}

Goto(q, label) == pc' = [pc EXCEPT ![q] = label]
UGoto(u, label) == upc' = [upc EXCEPT ![u] = label]

Init ==
    /\ db = NoDB
    /\ dsn = NoDB
    /\ writer = NoDB
    /\ readers = {}
    /\ pool = [c \in Replacers |-> "none"]
    /\ pc = [q \in Writers |-> "call"]
    /\ old = [q \in Writers |-> NoDB]
    /\ upc = [u \in Users |-> "call"]
    /\ held = [u \in Users |-> NoDB]
-----------------------------------------------------------------------------
(***************************************************************************)
(* POST /test/connect: the handler and Replace.                            *)
(***************************************************************************)

\* The body is not JSON or its dsn is blank: 400 before Replace is called.
RejectRequest(c) ==
    /\ pc[c] = "call"
    /\ Goto(c, "rejected")
    /\ UNCHANGED <<db, dsn, lockVars, pool, old, userVars>>

\* OpenDB refuses the DSN: there is no pool to close.
OpenFails(c) ==
    /\ pc[c] = "call"
    /\ Goto(c, "failed")
    /\ UNCHANGED <<db, dsn, lockVars, pool, old, userVars>>

OpenDB(c) ==
    /\ pc[c] = "call"
    /\ pool' = [pool EXCEPT ![c] = "open"]
    /\ Goto(c, "ping")
    /\ UNCHANGED <<db, dsn, lockVars, old, userVars>>

\* Mutant: the new pool is not closed when its ping fails.
PingFailsLeaks(c) ==
    /\ pc[c] = "ping"
    /\ Goto(c, "failed")
    /\ UNCHANGED <<db, dsn, lockVars, pool, old, userVars>>

\* Mutant: the return after the failed ping is missing.
PingFailsFallsThrough(c) ==
    /\ pc[c] = "ping"
    /\ pool' = [pool EXCEPT ![c] = "closed"]
    /\ Goto(c, "lock")
    /\ UNCHANGED <<db, dsn, lockVars, old, userVars>>

\* The ping fails, or the handler's five seconds run out: the new pool is
\* closed and the active one is not touched.
PingFails(c) ==
    /\ pc[c] = "ping"
    /\ pool' = [pool EXCEPT ![c] = "closed"]
    /\ Goto(c, "failed")
    /\ UNCHANGED <<db, dsn, lockVars, old, userVars>>

PingSucceeds(c) ==
    /\ pc[c] = "ping"
    /\ Goto(c, "lock")
    /\ UNCHANGED <<db, dsn, lockVars, pool, old, userVars>>

\* main returns and its deferred Close is called.
CallClose ==
    /\ pc[Main] = "call"
    /\ Goto(Main, "lock")
    /\ UNCHANGED <<db, dsn, lockVars, pool, old, userVars>>
-----------------------------------------------------------------------------
(***************************************************************************)
(* The critical section, shared by Replace and Close, and what follows it. *)
(***************************************************************************)

\* Lock, first half: exclude other writers and announce to readers.
AnnounceLock(q) ==
    /\ pc[q] = "lock"
    /\ writer = NoDB
    /\ writer' = q
    /\ Goto(q, "drain")
    /\ UNCHANGED <<db, dsn, readers, pool, old, userVars>>

\* Lock, second half: the readers that were inside have left.
AcquireLock(q) ==
    /\ pc[q] = "drain"
    /\ readers = {}
    /\ Goto(q, "read")
    /\ UNCHANGED <<db, dsn, lockVars, pool, old, userVars>>

ReadOld(q) ==
    /\ pc[q] = "read"
    /\ old' = [old EXCEPT ![q] = db]
    /\ Goto(q, "setdb")
    /\ UNCHANGED <<db, dsn, lockVars, pool, userVars>>

\* Mutant: Close, too, installs a value of its own instead of nil.
SetDBNotNil(q) ==
    /\ pc[q] = "setdb"
    /\ db' = q
    /\ Goto(q, "setdsn")
    /\ UNCHANGED <<dsn, lockVars, pool, old, userVars>>

\* Mutant: Close leaves m.db as it is.
SetDBNotCleared(q) ==
    /\ pc[q] = "setdb"
    /\ db' = IF q = Main THEN db ELSE q
    /\ Goto(q, "setdsn")
    /\ UNCHANGED <<dsn, lockVars, pool, old, userVars>>

\* m.db = db in Replace, m.db = nil in Close.
SetDB(q) ==
    /\ pc[q] = "setdb"
    /\ db' = IF q = Main THEN NoDB ELSE q
    /\ Goto(q, "setdsn")
    /\ UNCHANGED <<dsn, lockVars, pool, old, userVars>>

SetDSN(q) ==
    /\ pc[q] = "setdsn"
    /\ dsn' = IF q = Main THEN NoDB ELSE q
    /\ Goto(q, "unlock")
    /\ UNCHANGED <<db, lockVars, pool, old, userVars>>

\* Mutant: the mutex is not released.
UnlockMissing(q) ==
    /\ pc[q] = "unlock"
    /\ Goto(q, "closeold")
    /\ UNCHANGED <<db, dsn, lockVars, pool, old, userVars>>

Unlock(q) ==
    /\ pc[q] = "unlock"
    /\ writer' = NoDB
    /\ Goto(q, "closeold")
    /\ UNCHANGED <<db, dsn, readers, pool, old, userVars>>

\* Mutant: the superseded pool is forgotten.
CloseOldMissing(q) ==
    /\ pc[q] = "closeold"
    /\ Goto(q, "done")
    /\ UNCHANGED <<db, dsn, lockVars, pool, old, userVars>>

\* The superseded pool, if there is one, is closed outside the lock.
CloseOld(q) ==
    /\ pc[q] = "closeold"
    /\ pool' = [c \in Replacers |-> IF c = old[q] THEN "closed" ELSE pool[c]]
    /\ Goto(q, "done")
    /\ UNCHANGED <<db, dsn, lockVars, old, userVars>>

WriterStep(q) == AnnounceLock(q) \/ AcquireLock(q) \/ ReadOld(q) \/ SetDB(q)
                    \/ SetDSN(q) \/ Unlock(q) \/ CloseOld(q)

ReplaceStep(c) == RejectRequest(c) \/ OpenFails(c) \/ OpenDB(c) \/ PingFails(c)
                    \/ PingSucceeds(c) \/ WriterStep(c)
-----------------------------------------------------------------------------
(***************************************************************************)
(* current() and the operation that follows it.                            *)
(***************************************************************************)

CallCurrent(u) ==
    /\ upc[u] = "call"
    /\ UGoto(u, "rlock")
    /\ UNCHANGED <<db, dsn, lockVars, pool, pc, old, held>>

\* A reader is kept out as soon as a writer has announced itself.
RLock(u) ==
    /\ upc[u] = "rlock"
    /\ writer = NoDB
    /\ readers' = readers \cup {u}
    /\ UGoto(u, "read")
    /\ UNCHANGED <<db, dsn, writer, pool, pc, old, held>>

ReadDB(u) ==
    /\ upc[u] = "read"
    /\ held' = [held EXCEPT ![u] = db]
    /\ UGoto(u, "runlock")
    /\ UNCHANGED <<db, dsn, lockVars, pool, pc, old>>

RUnlock(u) ==
    /\ upc[u] = "runlock"
    /\ readers' = readers \ {u}
    /\ UGoto(u, "check")
    /\ UNCHANGED <<db, dsn, writer, pool, pc, old, held>>

\* No pool: the operation returns ErrNoTiDBConnection.
NoConnection(u) ==
    /\ upc[u] = "check"
    /\ held[u] = NoDB
    /\ UGoto(u, "call")
    /\ UNCHANGED <<db, dsn, lockVars, pool, pc, old, held>>

Forward(u) ==
    /\ upc[u] = "check"
    /\ held[u] # NoDB
    /\ UGoto(u, "use")
    /\ UNCHANGED <<db, dsn, lockVars, pool, pc, old, held>>

\* The operation takes a connection from the pool it holds.  The pool may have
\* been closed in the meantime: database/sql then answers "database is closed".
\* A connection already taken outlives the Close of its pool, so one step
\* stands for the whole use.
UsePool(u) ==
    /\ upc[u] = "use"
    /\ held' = [held EXCEPT ![u] = NoDB]
    /\ UGoto(u, "call")
    /\ UNCHANGED <<db, dsn, lockVars, pool, pc, old>>

UserStep(u) == CallCurrent(u) \/ RLock(u) \/ ReadDB(u) \/ RUnlock(u)
                  \/ NoConnection(u) \/ Forward(u) \/ UsePool(u)
-----------------------------------------------------------------------------
Next == \/ \E c \in Replacers : ReplaceStep(c)
        \/ CallClose
        \/ WriterStep(Main)
        \/ \E u \in Users : UserStep(u)

\* Every goroutine that can take a step is eventually scheduled; the ping is
\* bounded by the handler's timeout.  Nobody has to send a request, start an
\* operation or stop the service, but what was started is carried on.
Fairness ==
    /\ \A c \in Replacers : WF_vars(pc[c] # "call" /\ ReplaceStep(c))
    /\ \A u \in Users : WF_vars(upc[u] # "call" /\ UserStep(u))
    /\ WF_vars(WriterStep(Main))

Safety == Init /\ [][Next]_vars
Spec == Safety /\ Fairness
-----------------------------------------------------------------------------
(***************************************************************************)
(* Properties.                                                             *)
(***************************************************************************)

\* Every variable has its type; pools are named by the calls that open them.
TypeOK ==
    /\ db \in Replacers \cup {NoDB}
    /\ dsn \in Replacers \cup {NoDB}
    /\ writer \in Writers \cup {NoDB}
    /\ readers \subseteq Users
    /\ pool \in [Replacers -> {"none", "open", "closed"}]
    /\ pc \in [Writers -> ReplacePoints]
    /\ pc[Main] \in ClosePoints
    /\ old \in [Writers -> Replacers \cup {NoDB}]
    /\ upc \in [Users -> UserPoints]
    /\ held \in [Users -> Replacers \cup {NoDB}]

\* q has taken the pool p out of service and has yet to close it.
MustClose(q, p) == pc[q] \in After /\ old[q] = p

\* No *sql.DB leaks and none is closed twice: an open pool is on trial in its
\* own call, or is the active one, or is superseded and exactly one caller of
\* Replace or Close (connection.go:67-69, 81-83) is still to close it.
EveryOpenPoolHasOneOwner ==
    \A c \in Replacers : pool[c] = "open" =>
        LET closers == {q \in Writers : MustClose(q, c)}
        IN  IF pc[c] \in Before \/ db = c THEN closers = {}
                                        ELSE Cardinality(closers) = 1

\* The pool in m.db, whoever is between the lines of Replace or Close, is open
\* and its own call has passed the ping: a call that fails (connection.go:51-60)
\* leaves the active connection alone, and a superseded pool is closed only
\* after it can no longer be read.
ActivePoolIsPingedAndOpen ==
    db # NoDB => pool[db] = "open" /\ pc[db] \in After \cup {"done"}

\* While current() still holds the read lock (connection.go:87-89), the pool it
\* read is the active one: no writer can swap m.db between the two.
ReadIsStableUnderRLock ==
    \A u \in Users : upc[u] = "runlock" => held[u] = db

\* m.db and m.dsn, assigned in two steps (connection.go:64-65, 78-79), agree for
\* anyone who takes the lock.
DSNMatchesActivePool ==
    (\A q \in Writers : pc[q] \notin Critical) => dsn = db

\* An operation fails with "database is closed" only because the pool it was
\* given was superseded after current() returned, never because current()
\* handed out a pool that was closed or never verified.
ClosedInUseOnlyIfSuperseded ==
    \A u \in Users :
        held[u] # NoDB /\ pool[held[u]] # "open" => held[u] # db

\* The writer that has superseded p and released the lock.
Superseded(p) ==
    \E q \in Writers : old[q] = p /\ pc[q] \in {"closeold", "done"}

\* Once Replace or Close has let go of the lock, no operation is ever given the
\* pool it took out of service, however the callers interleave.
NeverGivenASupersededPool ==
    [][\A u \in Users : \A p \in Replacers :
          held[u] # p /\ held'[u] = p => ~Superseded(p)]_vars

\* Every Replace, and Close, that has started returns: readers drain, writers
\* follow one another, and nobody waits for himself.  So does every operation that
\* has asked for the current pool, although a writer that has announced itself
\* keeps new readers out.
CallersReturn ==
    /\ \A q \in Writers : pc[q] \in Before \cup After ~> pc[q] \in Returned
    /\ \A u \in Users : upc[u] = "rlock" ~> upc[u] = "call"

\* The refinement mapping: what has become of each pool.
Fate == [c \in Replacers |->
           IF pool[c] = "none" THEN "new"
           ELSE IF pool[c] = "closed" THEN "closed"
           ELSE IF pc[c] \in Before THEN "trial"
           ELSE IF db = c THEN "active"
           ELSE "retired"]

Lifecycle == INSTANCE PoolLifecycle WITH Pools <- Replacers, fate <- Fate

\* The connection manager implements the pool lifecycle: one active pool at a
\* time, swapped atomically, superseded pools closed and never reinstated.
ImplementsLifecycle == Lifecycle!Spec
=============================================================================
