----------------------- MODULE ConnectionManagerProofs -----------------------
(***************************************************************************)
(* For any number of requests and operations: the connection manager is    *)
(* type correct, loses and double-closes no pool, hands out no pool that   *)
(* has been superseded, and implements the pool lifecycle.                 *)
(*                                                                         *)
(* The argument is one inductive invariant, IInv.  The mutex gives Mutex;  *)
(* Mutex makes "old[q] = db" true from ReadOld to SetDB; with it, SetDB    *)
(* moves exactly one pool from "active" to "owed by q", and CloseOld pays. *)
(***************************************************************************)
EXTENDS ConnectionManager, FiniteSetTheorems, TLAPS

\* The announced writer is the one past "lock"; readers are the users between
\* RLock and RUnlock, and there are none in the critical section.
Mutex ==
    /\ \A q \in Writers : pc[q] \in Critical \cup {"drain"} <=> writer = q
    /\ readers = {u \in Users : upc[u] \in {"read", "runlock"}}
    /\ \A q \in Writers : pc[q] \in Critical => readers = {}

\* A pool exists from OpenDB on and is open until its call gives it up.
Opened ==
    \A c \in Replacers :
        /\ pc[c] \in {"call", "rejected"} => pool[c] = "none"
        /\ pc[c] \in Before => pool[c] = "open"
        /\ pc[c] = "failed" => pool[c] # "open"
        /\ pc[c] \in After \cup {"done"} => pool[c] # "none"

\* Between the read of m.db and its replacement nobody else replaces it.
OldIsCurrent == \A q \in Writers : pc[q] = "setdb" => old[q] = db

\* A pool that is still to be closed is open, and only one writer is to do it.
OwedPoolsAreOpen ==
    \A q \in Writers : \A c \in Replacers : MustClose(q, c) => pool[c] = "open"

OwedOnce ==
    \A q, r \in Writers : \A c \in Replacers :
        MustClose(q, c) /\ MustClose(r, c) => q = r

\* An open pool past its own installation is the active one or is owed.
NoLeak ==
    \A c \in Replacers :
        pool[c] = "open" /\ pc[c] \notin Before /\ db # c
            => \E q \in Writers : MustClose(q, c)

\* m.dsn lags behind m.db only between the two assignments.
DSNFollows ==
    /\ \A q \in Writers : pc[q] = "setdsn" => db = IF q = Main THEN NoDB ELSE q
    /\ (\A q \in Writers : pc[q] # "setdsn") => dsn = db

\* The pool a writer has superseded has been installed and is not active now.
SupersededIsGone ==
    \A q \in Writers : pc[q] \in After \cup {"done"} /\ old[q] # NoDB =>
        /\ old[q] # db
        /\ pc[old[q]] \in After \cup {"done"}

IInv ==
    /\ TypeOK
    /\ Mutex
    /\ Opened
    /\ OldIsCurrent
    /\ ActivePoolIsPingedAndOpen
    /\ OwedPoolsAreOpen
    /\ OwedOnce
    /\ NoLeak
    /\ DSNFollows
    /\ SupersededIsGone
    /\ ReadIsStableUnderRLock

USE DEF Writers, Critical, Before, After, Returned, ReplacePoints, ClosePoints,
        UserPoints, lockVars, userVars, Goto, UGoto
-----------------------------------------------------------------------------
LEMMA InitIInv == Init => IInv
  <1> SUFFICES ASSUME Init PROVE IInv
    OBVIOUS
  <1> USE NamesAssumption DEF Init
  <1>1. TypeOK
    BY DEF TypeOK
  <1>2. Mutex /\ Opened /\ OldIsCurrent /\ ActivePoolIsPingedAndOpen
    BY DEF Mutex, Opened, OldIsCurrent, ActivePoolIsPingedAndOpen
  <1>3. OwedPoolsAreOpen /\ OwedOnce /\ NoLeak
    BY DEF OwedPoolsAreOpen, OwedOnce, NoLeak, MustClose
  <1>4. DSNFollows /\ SupersededIsGone /\ ReadIsStableUnderRLock
    BY DEF DSNFollows, SupersededIsGone, ReadIsStableUnderRLock
  <1> QED
    BY <1>1, <1>2, <1>3, <1>4 DEF IInv

LEMMA TypeStep == TypeOK /\ [Next]_vars => TypeOK'
  <1> SUFFICES ASSUME TypeOK, [Next]_vars PROVE TypeOK'
    OBVIOUS
  <1> USE NamesAssumption DEF TypeOK
  <1>1. ASSUME NEW c \in Replacers, ReplaceStep(c) PROVE TypeOK'
    <2>1. CASE RejectRequest(c) \/ OpenFails(c) \/ OpenDB(c)
      BY <2>1 DEF RejectRequest, OpenFails, OpenDB
    <2>2. CASE PingFails(c) \/ PingSucceeds(c)
      BY <2>2 DEF PingFails, PingSucceeds
    <2>3. CASE AnnounceLock(c) \/ AcquireLock(c) \/ ReadOld(c)
      BY <2>3 DEF AnnounceLock, AcquireLock, ReadOld
    <2>4. CASE SetDB(c) \/ SetDSN(c) \/ Unlock(c)
      BY <2>4 DEF SetDB, SetDSN, Unlock
    <2>5. CASE CloseOld(c)
      BY <2>5 DEF CloseOld
    <2> QED
      BY <1>1, <2>1, <2>2, <2>3, <2>4, <2>5 DEF ReplaceStep, WriterStep
  <1>2. CASE CallClose
    BY <1>2 DEF CallClose
  <1>3. CASE WriterStep(Main)
    <2>1. CASE AnnounceLock(Main) \/ AcquireLock(Main) \/ ReadOld(Main)
      BY <2>1 DEF AnnounceLock, AcquireLock, ReadOld
    <2>2. CASE SetDB(Main) \/ SetDSN(Main) \/ Unlock(Main)
      BY <2>2 DEF SetDB, SetDSN, Unlock
    <2>3. CASE CloseOld(Main)
      BY <2>3 DEF CloseOld
    <2> QED
      BY <1>3, <2>1, <2>2, <2>3 DEF WriterStep
  <1>4. ASSUME NEW u \in Users, UserStep(u) PROVE TypeOK'
    <2>1. CASE CallCurrent(u) \/ RLock(u) \/ ReadDB(u) \/ RUnlock(u)
      BY <2>1 DEF CallCurrent, RLock, ReadDB, RUnlock
    <2>2. CASE NoConnection(u) \/ Forward(u) \/ UsePool(u)
      BY <2>2 DEF NoConnection, Forward, UsePool
    <2> QED
      BY <1>4, <2>1, <2>2 DEF UserStep
  <1>5. CASE UNCHANGED vars
    BY <1>5 DEF vars
  <1> QED
    BY <1>1, <1>2, <1>3, <1>4, <1>5 DEF Next

LEMMA IInvStep == IInv /\ [Next]_vars => IInv'
  <1> SUFFICES ASSUME IInv, [Next]_vars PROVE IInv'
    OBVIOUS
  <1>0. TypeOK'
    BY TypeStep DEF IInv
  <1> USE NamesAssumption, <1>0 DEF IInv, TypeOK
  <1>1. ASSUME NEW c \in Replacers,
               RejectRequest(c) \/ OpenFails(c) \/ OpenDB(c) \/ PingFails(c) \/ PingSucceeds(c)
        PROVE IInv'
    <2> USE <1>1 DEF RejectRequest, OpenFails, OpenDB, PingFails, PingSucceeds
    <2>1. Mutex' /\ OldIsCurrent' /\ ReadIsStableUnderRLock'
      BY DEF Mutex, OldIsCurrent, ReadIsStableUnderRLock
    <2>2. Opened'
      BY DEF Opened
    <2>3. ActivePoolIsPingedAndOpen'
      BY DEF ActivePoolIsPingedAndOpen
    <2>4. OwedPoolsAreOpen' /\ OwedOnce'
      BY DEF OwedPoolsAreOpen, OwedOnce, MustClose, SupersededIsGone
    <2>5. NoLeak'
      BY DEF NoLeak, MustClose, Opened
    <2>6. DSNFollows' /\ SupersededIsGone'
      BY DEF DSNFollows, SupersededIsGone
    <2> QED
      BY <2>1, <2>2, <2>3, <2>4, <2>5, <2>6
  <1>2. CASE CallClose
    <2> USE <1>2 DEF CallClose
    <2>1. Mutex' /\ OldIsCurrent' /\ ReadIsStableUnderRLock'
      BY DEF Mutex, OldIsCurrent, ReadIsStableUnderRLock
    <2>2. Opened' /\ ActivePoolIsPingedAndOpen' /\ SupersededIsGone'
      BY DEF Opened, ActivePoolIsPingedAndOpen, SupersededIsGone
    <2>3. OwedPoolsAreOpen' /\ OwedOnce' /\ NoLeak' /\ DSNFollows'
      BY DEF OwedPoolsAreOpen, OwedOnce, NoLeak, MustClose, DSNFollows
    <2> QED
      BY <2>1, <2>2, <2>3
  <1>3. ASSUME NEW q \in Writers, AnnounceLock(q) \/ AcquireLock(q) \/ Unlock(q)
        PROVE IInv'
    <2> USE <1>3 DEF AnnounceLock, AcquireLock, Unlock
    <2>1. Mutex'
      BY DEF Mutex
    <2>2. Opened' /\ OldIsCurrent' /\ ReadIsStableUnderRLock'
      BY DEF Opened, OldIsCurrent, ReadIsStableUnderRLock
    <2>3. ActivePoolIsPingedAndOpen' /\ SupersededIsGone'
      BY DEF ActivePoolIsPingedAndOpen, SupersededIsGone
    <2>4. OwedPoolsAreOpen' /\ OwedOnce' /\ NoLeak'
      BY DEF OwedPoolsAreOpen, OwedOnce, NoLeak, MustClose
    <2>5. DSNFollows'
      BY DEF DSNFollows
    <2> QED
      BY <2>1, <2>2, <2>3, <2>4, <2>5
  <1>4. ASSUME NEW q \in Writers, ReadOld(q) PROVE IInv'
    <2> USE <1>4 DEF ReadOld
    <2>1. Mutex' /\ Opened' /\ OldIsCurrent' /\ ReadIsStableUnderRLock'
      BY DEF Mutex, Opened, OldIsCurrent, ReadIsStableUnderRLock
    <2>2. ActivePoolIsPingedAndOpen' /\ SupersededIsGone'
      BY DEF ActivePoolIsPingedAndOpen, SupersededIsGone
    <2>3. OwedPoolsAreOpen' /\ OwedOnce' /\ NoLeak'
      BY DEF OwedPoolsAreOpen, OwedOnce, NoLeak, MustClose
    <2>4. DSNFollows'
      BY DEF DSNFollows
    <2> QED
      BY <2>1, <2>2, <2>3, <2>4
  <1>5. ASSUME NEW q \in Writers, SetDB(q) PROVE IInv'
    <2> USE <1>5 DEF SetDB
    <2>1. Mutex' /\ Opened'
      BY DEF Mutex, Opened
    <2>2. OldIsCurrent' /\ ReadIsStableUnderRLock'
      BY DEF Mutex, OldIsCurrent, ReadIsStableUnderRLock
    <2>3. ActivePoolIsPingedAndOpen'
      BY DEF ActivePoolIsPingedAndOpen, Opened
    <2>4. OwedPoolsAreOpen'
      BY DEF OwedPoolsAreOpen, MustClose, OldIsCurrent, ActivePoolIsPingedAndOpen
    <2>5. OwedOnce'
      BY DEF OwedOnce, MustClose, OldIsCurrent, SupersededIsGone
    <2>6. NoLeak'
      BY DEF NoLeak, MustClose, OldIsCurrent
    <2>7. DSNFollows'
      BY DEF DSNFollows, Mutex
    <2>8. SupersededIsGone'
      BY DEF SupersededIsGone, OldIsCurrent, ActivePoolIsPingedAndOpen
    <2> QED
      BY <2>1, <2>2, <2>3, <2>4, <2>5, <2>6, <2>7, <2>8
  <1>6. ASSUME NEW q \in Writers, SetDSN(q) PROVE IInv'
    <2> USE <1>6 DEF SetDSN
    <2>1. Mutex' /\ Opened' /\ OldIsCurrent' /\ ReadIsStableUnderRLock'
      BY DEF Mutex, Opened, OldIsCurrent, ReadIsStableUnderRLock
    <2>2. ActivePoolIsPingedAndOpen' /\ SupersededIsGone'
      BY DEF ActivePoolIsPingedAndOpen, SupersededIsGone
    <2>3. OwedPoolsAreOpen' /\ OwedOnce' /\ NoLeak'
      BY DEF OwedPoolsAreOpen, OwedOnce, NoLeak, MustClose
    <2>4. DSNFollows'
      BY DEF DSNFollows, Mutex
    <2> QED
      BY <2>1, <2>2, <2>3, <2>4
  <1>7. ASSUME NEW q \in Writers, CloseOld(q) PROVE IInv'
    <2> USE <1>7 DEF CloseOld
    <2>1. Mutex' /\ OldIsCurrent' /\ ReadIsStableUnderRLock'
      BY DEF Mutex, OldIsCurrent, ReadIsStableUnderRLock
    <2>2. Opened'
      BY DEF Opened, SupersededIsGone
    <2>3. ActivePoolIsPingedAndOpen' /\ SupersededIsGone'
      BY DEF ActivePoolIsPingedAndOpen, SupersededIsGone
    <2>4. OwedPoolsAreOpen' /\ OwedOnce'
      BY DEF OwedPoolsAreOpen, OwedOnce, MustClose
    <2>5. NoLeak'
      BY DEF NoLeak, MustClose
    <2>6. DSNFollows'
      BY DEF DSNFollows
    <2> QED
      BY <2>1, <2>2, <2>3, <2>4, <2>5, <2>6
  <1>8. ASSUME NEW u \in Users, UserStep(u) PROVE IInv'
    <2>1. Mutex'
      BY <1>8 DEF Mutex, UserStep, CallCurrent, RLock, ReadDB, RUnlock,
                  NoConnection, Forward, UsePool
    <2>2. ReadIsStableUnderRLock'
      BY <1>8 DEF ReadIsStableUnderRLock, UserStep, CallCurrent, RLock, ReadDB,
                  RUnlock, NoConnection, Forward, UsePool
    <2>3. UNCHANGED <<db, dsn, pool, pc, old>>
      BY <1>8 DEF UserStep, CallCurrent, RLock, ReadDB, RUnlock, NoConnection,
                  Forward, UsePool
    <2>4. Opened' /\ OldIsCurrent' /\ ActivePoolIsPingedAndOpen' /\ SupersededIsGone'
      BY <2>3 DEF Opened, OldIsCurrent, ActivePoolIsPingedAndOpen, SupersededIsGone
    <2>5. OwedPoolsAreOpen' /\ OwedOnce' /\ NoLeak' /\ DSNFollows'
      BY <2>3 DEF OwedPoolsAreOpen, OwedOnce, NoLeak, MustClose, DSNFollows
    <2> QED
      BY <2>1, <2>2, <2>4, <2>5
  <1>9. CASE UNCHANGED vars
    <2> USE <1>9 DEF vars
    <2>1. Mutex' /\ Opened' /\ OldIsCurrent' /\ ReadIsStableUnderRLock'
      BY DEF Mutex, Opened, OldIsCurrent, ReadIsStableUnderRLock
    <2>2. ActivePoolIsPingedAndOpen' /\ SupersededIsGone'
      BY DEF ActivePoolIsPingedAndOpen, SupersededIsGone
    <2>3. OwedPoolsAreOpen' /\ OwedOnce' /\ NoLeak' /\ DSNFollows'
      BY DEF OwedPoolsAreOpen, OwedOnce, NoLeak, MustClose, DSNFollows
    <2> QED
      BY <2>1, <2>2, <2>3
  <1> QED
    BY <1>1, <1>2, <1>3, <1>4, <1>5, <1>6, <1>7, <1>8, <1>9
       DEF Next, ReplaceStep, WriterStep
-----------------------------------------------------------------------------
(***************************************************************************)
(* The theorems.                                                           *)
(***************************************************************************)

\* The inductive invariant holds in every reachable state (connection.go as a
\* whole): the safety theorems below are read off it.
THEOREM Invariant == Safety => []IInv
  BY InitIInv, IInvStep, PTL DEF Safety

\* Every variable keeps its type, for any number of requests and operations.
THEOREM TypeCorrect == Safety => []TypeOK
  BY Invariant, PTL DEF IInv

\* The pool in m.db is open and was pinged; a failing Replace leaves it alone.
THEOREM ActivePoolTheorem == Safety => []ActivePoolIsPingedAndOpen
  BY Invariant, PTL DEF IInv

\* No open *sql.DB is ever without an owner, nor with two that would close it.
THEOREM OwnershipTheorem == Safety => []EveryOpenPoolHasOneOwner
  <1>1. ASSUME IInv PROVE EveryOpenPoolHasOneOwner
    <2> SUFFICES ASSUME NEW c \in Replacers, pool[c] = "open",
                        NEW closers, closers = {q \in Writers : MustClose(q, c)}
                 PROVE IF pc[c] \in Before \/ db = c
                       THEN closers = {} ELSE Cardinality(closers) = 1
      BY DEF EveryOpenPoolHasOneOwner
    <2>1. CASE pc[c] \in Before \/ db = c
      <3>1. \A q \in Writers : ~MustClose(q, c)
        BY <1>1, <2>1, NamesAssumption DEF IInv, MustClose, SupersededIsGone
      <3> QED
        BY <2>1, <3>1
    <2>2. CASE ~(pc[c] \in Before \/ db = c)
      <3>1. PICK q \in Writers : MustClose(q, c)
        BY <1>1, <2>2 DEF IInv, NoLeak
      <3>2. closers = {q}
        BY <1>1, <3>1 DEF IInv, OwedOnce
      <3> QED
        BY <2>2, <3>2, FS_Singleton
    <2> QED
      BY <2>1, <2>2
  <1> QED
    BY <1>1, Invariant, PTL

\* An operation that meets a closed pool was overtaken by a replacement.
THEOREM ClosedInUseTheorem == Safety => []ClosedInUseOnlyIfSuperseded
  <1>1. IInv => ClosedInUseOnlyIfSuperseded
    BY DEF IInv, ActivePoolIsPingedAndOpen, ClosedInUseOnlyIfSuperseded
  <1> QED
    BY <1>1, Invariant, PTL

\* m.db and m.dsn agree whenever no writer is in the critical section.
THEOREM DSNTheorem == Safety => []DSNMatchesActivePool
  <1>1. IInv => DSNMatchesActivePool
    BY DEF IInv, DSNFollows, DSNMatchesActivePool
  <1> QED
    BY <1>1, Invariant, PTL

\* After Replace or Close has released the lock nobody is given the pool that
\* was superseded: held changes to a pool only in ReadDB, and then to m.db.
THEOREM FreshnessTheorem == Safety => NeverGivenASupersededPool
  <1> DEFINE Fresh == \A u \in Users : \A p \in Replacers :
                          held[u] # p /\ held'[u] = p => ~Superseded(p)
  <1>1. ASSUME IInv, [Next]_vars, NEW u \in Users, NEW p \in Replacers,
               held[u] # p, held'[u] = p
        PROVE  ~Superseded(p)
    <2>1. p = db
      <3>1. ASSUME NEW v \in Users, UserStep(v) PROVE p = db
        BY <1>1, <3>1, NamesAssumption
           DEF IInv, TypeOK, UserStep, CallCurrent, RLock, ReadDB, RUnlock,
               NoConnection, Forward, UsePool
      <3>2. CASE UNCHANGED held
        BY <1>1, <3>2
      <3>3. ASSUME ~(\E v \in Users : UserStep(v)) PROVE UNCHANGED held
        BY <1>1, <3>3
           DEF Next, vars, ReplaceStep, WriterStep, RejectRequest, OpenFails,
               OpenDB, PingFails, PingSucceeds, CallClose, AnnounceLock,
               AcquireLock, ReadOld, SetDB, SetDSN, Unlock, CloseOld
      <3> QED
        BY <3>1, <3>2, <3>3
    <2> QED
      BY <1>1, <2>1, NamesAssumption DEF IInv, SupersededIsGone, Superseded
  <1>2. IInv /\ [Next]_vars => [Fresh]_vars
    BY <1>1
  <1> QED
    BY <1>2, Invariant, PTL DEF Safety, NeverGivenASupersededPool
-----------------------------------------------------------------------------
(***************************************************************************)
(* The refinement: OpenDB, PingFails, SetDB and CloseOld are the abstract  *)
(* Open, Reject, Activate or Deactivate, and Dispose; every other step     *)
(* leaves the fate of every pool as it is.                                 *)
(***************************************************************************)
LEMMA RefineStep == IInv /\ IInv' /\ [Next]_vars => [Lifecycle!Next]_Fate
  <1> SUFFICES ASSUME IInv, [Next]_vars PROVE Lifecycle!Next \/ UNCHANGED Fate
    OBVIOUS
  <1> USE NamesAssumption DEF IInv, TypeOK, Fate
  <1>1. ASSUME NEW c \in Replacers, OpenDB(c) PROVE Lifecycle!Open(c)
    BY <1>1 DEF OpenDB, Opened, Lifecycle!Open
  <1>2. ASSUME NEW c \in Replacers, PingFails(c) PROVE Lifecycle!Reject(c)
    BY <1>2 DEF PingFails, Opened, Lifecycle!Reject
  <1>3. ASSUME NEW c \in Replacers, SetDB(c) PROVE Lifecycle!Activate(c)
    <2>1. Fate[c] = "trial" /\ Fate'[c] = "active"
      BY <1>3 DEF SetDB, Opened
    <2>2. ASSUME NEW p \in Replacers, p # c
          PROVE  Fate'[p] = IF Fate[p] = "active" THEN "retired" ELSE Fate[p]
      BY <1>3, <2>2 DEF SetDB, ActivePoolIsPingedAndOpen
    <2> QED
      BY <2>1, <2>2 DEF Lifecycle!Activate
  <1>4. ASSUME SetDB(Main), db # NoDB PROVE Lifecycle!Deactivate(db)
    BY <1>4 DEF SetDB, ActivePoolIsPingedAndOpen, Lifecycle!Deactivate
  <1>5. ASSUME SetDB(Main), db = NoDB PROVE UNCHANGED Fate
    BY <1>5 DEF SetDB
  <1>6. ASSUME NEW q \in Writers, CloseOld(q), old[q] # NoDB
        PROVE  Lifecycle!Dispose(old[q])
    BY <1>6 DEF CloseOld, OwedPoolsAreOpen, SupersededIsGone, MustClose,
                Lifecycle!Dispose
  <1>7. ASSUME NEW q \in Writers, CloseOld(q), old[q] = NoDB PROVE UNCHANGED Fate
    BY <1>7 DEF CloseOld
  <1>8. ASSUME NEW c \in Replacers, RejectRequest(c) \/ OpenFails(c) \/ PingSucceeds(c)
        PROVE  UNCHANGED Fate
    BY <1>8 DEF RejectRequest, OpenFails, PingSucceeds, Opened
  <1>9. ASSUME NEW q \in Writers,
               AnnounceLock(q) \/ AcquireLock(q) \/ ReadOld(q) \/ SetDSN(q) \/ Unlock(q)
        PROVE  UNCHANGED Fate
    BY <1>9 DEF AnnounceLock, AcquireLock, ReadOld, SetDSN, Unlock
  <1>10. CASE CallClose \/ UNCHANGED vars
    BY <1>10 DEF CallClose, vars
  <1>11. ASSUME NEW u \in Users, UserStep(u) PROVE UNCHANGED Fate
    BY <1>11 DEF UserStep, CallCurrent, RLock, ReadDB, RUnlock, NoConnection,
                 Forward, UsePool
  <1> HIDE DEF IInv, TypeOK, Fate
  <1>12. db # NoDB => db \in Replacers
    BY DEF IInv, TypeOK
  <1>13. ASSUME NEW q \in Writers, CloseOld(q), old[q] # NoDB PROVE old[q] \in Replacers
    BY <1>13 DEF IInv, TypeOK
  <1>14. ASSUME NEW q \in Writers, WriterStep(q) PROVE Lifecycle!Next \/ UNCHANGED Fate
    <2>1. CASE SetDB(q)
      BY <1>3, <1>4, <1>5, <1>12, <2>1 DEF Lifecycle!Next
    <2>2. CASE CloseOld(q)
      BY <1>6, <1>7, <1>13, <2>2 DEF Lifecycle!Next
    <2> QED
      BY <1>9, <1>14, <2>1, <2>2 DEF WriterStep
  <1>15. ASSUME NEW c \in Replacers, ReplaceStep(c) PROVE Lifecycle!Next \/ UNCHANGED Fate
    BY <1>1, <1>2, <1>8, <1>14, <1>15 DEF ReplaceStep, Lifecycle!Next
  <1> QED
    BY <1>10, <1>11, <1>14, <1>15 DEF Next

\* The connection manager implements the safety part of the pool lifecycle: a
\* pool is active at most once, alone, and is closed only after it was retired.
THEOREM Refinement == Safety => Lifecycle!Safety
  <1>1. Init => Lifecycle!Init
    BY DEF Init, Lifecycle!Init, Fate
  <1> QED
    BY <1>1, RefineStep, Invariant, PTL DEF Safety, Lifecycle!Safety
=============================================================================
