---------------------------- MODULE PoolLifecycle ----------------------------
(***************************************************************************)
(* What the connection manager promises about database pools, whatever the *)
(* interleaving of its callers: a pool is opened once, is either rejected  *)
(* or becomes the one active pool, and once it has been superseded it is   *)
(* disposed of and never comes back.                                       *)
(*                                                                         *)
(* ConnectionManager.tla implements this specification.  Modules that only *)
(* need "which pool is active now" are composed with this one.             *)
(***************************************************************************)
CONSTANT Pools          \* every pool that may ever be opened

VARIABLE fate           \* fate[p]: where pool p is in its life

Fates == {"new", "trial", "active", "retired", "closed"}

Init == fate = [p \in Pools |-> "new"]

\* sql.Open has returned a handle that has not been pinged yet.
Open(p) == fate[p] = "new" /\ fate' = [fate EXCEPT ![p] = "trial"]

\* The ping failed: the handle is closed and nothing else changes.
Reject(p) == fate[p] = "trial" /\ fate' = [fate EXCEPT ![p] = "closed"]

\* The pool becomes the active one, and the pool it supersedes is retired in
\* the same instant: there is never a moment with two active pools.
Activate(p) ==
    /\ fate[p] = "trial"
    /\ fate' = [q \in Pools |-> IF q = p THEN "active"
                                ELSE IF fate[q] = "active" THEN "retired"
                                ELSE fate[q]]

\* The manager is closed: whatever was active is retired.
Deactivate(p) == fate[p] = "active" /\ fate' = [fate EXCEPT ![p] = "retired"]

\* A retired pool is closed.
Dispose(p) == fate[p] = "retired" /\ fate' = [fate EXCEPT ![p] = "closed"]

Next == \E p \in Pools :
    Open(p) \/ Reject(p) \/ Activate(p) \/ Deactivate(p) \/ Dispose(p)

Safety == Init /\ [][Next]_fate

\* Whoever retires a pool also closes it.
Spec == Safety /\ \A p \in Pools : WF_fate(Dispose(p))
-----------------------------------------------------------------------------
TypeOK == fate \in [Pools -> Fates]

\* At most one pool is active.
OneActive == \A p, q \in Pools : fate[p] = "active" /\ fate[q] = "active" => p = q
=============================================================================
