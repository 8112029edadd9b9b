---------------------------- MODULE SessionsProofs ----------------------------
(***************************************************************************)
(* For any number of requests, schemas and connections: the sessions are   *)
(* type correct, and a recorded sample runs in the schema it was recorded  *)
(* with.                                                                   *)
(*                                                                         *)
(* The argument: a connection is in one hand at most (HeldOnce), and only  *)
(* who has it sends statements over it.  So the schema that USE selects is *)
(* still that of the session when the statement after it runs (UseHolds),  *)
(* and what that statement saw is the schema of the sample (RanAsUsed).    *)
(***************************************************************************)
EXTENDS Sessions, TLAPS

Holding == {"use", "run", "close"}

\* Who is past the wait has a connection, and nobody else has it.
HeldOnce ==
    /\ \A r \in Requests : pc[r] \in Holding <=> holds[r] # NoConn
    /\ \A r, q \in Requests : holds[r] = holds[q] /\ holds[r] # NoConn => r = q

\* USE is sent for a recorded schema only; after it the session of a sample is in
\* the schema of the sample.
UseHolds ==
    \A r \in Requests :
        /\ pc[r] = "use" => sample[r] \in Schemas
        /\ pc[r] = "run" /\ sample[r] \in Schemas => schema[holds[r]] = sample[r]

\* A statement has run nowhere until Run, and then only on the way to conn.Close.
RanAsUsed ==
    \A r \in Requests :
        /\ pc[r] # "close" => ranIn[r] = "nowhere"
        /\ sample[r] \in Schemas => ranIn[r] \in {sample[r], "nowhere"}

IInv == TypeOK /\ HeldOnce /\ UseHolds /\ RanAsUsed

USE DEF Conns, NoConn, Samples, Goto, Forget, Idle, Unopened, Holding
-----------------------------------------------------------------------------
LEMMA InitIInv == Init => IInv
  <1> SUFFICES ASSUME Init PROVE IInv
    OBVIOUS
  <1> USE SessionAssumption DEF Init
  <1>1. TypeOK
    BY DEF TypeOK
  <1>2. HeldOnce /\ UseHolds /\ RanAsUsed
    BY DEF HeldOnce, UseHolds, RanAsUsed
  <1> QED
    BY <1>1, <1>2 DEF IInv

LEMMA IInvStep == IInv /\ [Next]_vars => IInv'
  <1> SUFFICES ASSUME IInv, [Next]_vars PROVE IInv'
    OBVIOUS
  <1> USE SessionAssumption DEF IInv, TypeOK
  <1>1. ASSUME NEW r \in Requests, NEW s \in Samples \cup {"query"}, Borrow(r, s)
        PROVE  IInv'
    <2> USE <1>1 DEF Borrow
    <2>1. TypeOK'
      OBVIOUS
    <2>2. HeldOnce' /\ UseHolds' /\ RanAsUsed'
      BY DEF HeldOnce, UseHolds, RanAsUsed
    <2> QED
      BY <2>1, <2>2
  <1>2. ASSUME NEW r \in Requests, NEW c \in Conns, Acquire(r, c) PROVE IInv'
    <2> USE <1>2 DEF Acquire
    <2>0. \A q \in Requests : holds[q] # c
      OBVIOUS
    <2>1. TypeOK'
      <3>1. holds[r] = NoConn
        BY DEF HeldOnce
      <3>2. ASSUME NEW d \in Conns
            PROVE  conn'[d] \in {"busy", "broken"} <=> \E q \in Requests : holds'[q] = d
        <4>1. CASE d = c
          BY <4>1
        <4>2. CASE d # c
          BY <3>1, <4>2
        <4> QED
          BY <4>1, <4>2
      <3> QED
        BY <3>2
    <2>2. HeldOnce'
      BY <2>0 DEF HeldOnce
    <2>3. UseHolds' /\ RanAsUsed'
      BY DEF UseHolds, RanAsUsed
    <2> QED
      BY <2>1, <2>2, <2>3
  <1>3. ASSUME NEW r \in Requests, AcquireFails(r) PROVE IInv'
    <2> USE <1>3 DEF AcquireFails
    <2>1. TypeOK'
      OBVIOUS
    <2>2. HeldOnce' /\ UseHolds' /\ RanAsUsed'
      BY DEF HeldOnce, UseHolds, RanAsUsed
    <2> QED
      BY <2>1, <2>2
  <1>4. ASSUME NEW r \in Requests, Use(r) PROVE IInv'
    <2> USE <1>4 DEF Use
    <2>1. holds[r] \in Conns
      BY DEF HeldOnce
    <2>2. TypeOK'
      BY <2>1 DEF UseHolds
    <2>3. HeldOnce' /\ RanAsUsed'
      BY DEF HeldOnce, RanAsUsed
    <2>4. UseHolds'
      BY <2>1 DEF HeldOnce, UseHolds
    <2> QED
      BY <2>2, <2>3, <2>4
  <1>5. ASSUME NEW r \in Requests, Run(r) PROVE IInv'
    <2> USE <1>5 DEF Run
    <2>1. holds[r] \in Conns
      BY DEF HeldOnce
    <2>2. TypeOK'
      BY <2>1
    <2>3. HeldOnce' /\ UseHolds'
      BY DEF HeldOnce, UseHolds
    <2>4. RanAsUsed'
      BY DEF UseHolds, RanAsUsed
    <2> QED
      BY <2>2, <2>3, <2>4
  <1>6. ASSUME NEW r \in Requests, StatementFails(r) PROVE IInv'
    <2> USE <1>6 DEF StatementFails
    <2>1. holds[r] \in Conns /\ conn[holds[r]] \in {"busy", "broken"}
      BY DEF HeldOnce
    <2>2. TypeOK'
      <3>1. CASE UNCHANGED conn
        BY <3>1
      <3>2. CASE conn' = [conn EXCEPT ![holds[r]] = "broken"]
        BY <2>1, <3>2
      <3> QED
        BY <3>1, <3>2
    <2>3. HeldOnce' /\ UseHolds' /\ RanAsUsed'
      BY DEF HeldOnce, UseHolds, RanAsUsed
    <2> QED
      BY <2>2, <2>3
  <1>7. ASSUME NEW r \in Requests, GiveBack(r) PROVE IInv'
    <2> DEFINE c == holds[r]
               kept == conn[c] = "busy" /\ pool = "open" /\ Cardinality(Idle) < MaxIdle
    <2>1. c \in Conns
      BY <1>7 DEF GiveBack, HeldOnce
    <2>2. /\ pc[r] = "close"
          /\ conn' = [conn EXCEPT ![c] = IF kept THEN "idle" ELSE "none"]
          /\ schema' = [schema EXCEPT ![c] = IF kept THEN @ ELSE "default"]
          /\ holds' = [holds EXCEPT ![r] = NoConn]
          /\ Forget(r) /\ UNCHANGED <<pool, borrows>>
      BY <1>7 DEF GiveBack
    <2> HIDE DEF kept
    <2>3. \A q \in Requests : q # r => holds[q] # c
      BY <2>1 DEF HeldOnce
    <2>4. TypeOK'
      BY <2>1, <2>2, <2>3
    <2>5. HeldOnce'
      BY <2>2, <2>3 DEF HeldOnce
    <2>6. UseHolds' /\ RanAsUsed'
      BY <2>1, <2>2, <2>3 DEF UseHolds, RanAsUsed
    <2> QED
      BY <2>4, <2>5, <2>6
  <1>8. ASSUME NEW c \in Conns, Expire(c) PROVE IInv'
    <2> USE <1>8 DEF Expire
    <2>1. \A r \in Requests : holds[r] # c
      OBVIOUS
    <2>2. TypeOK'
      BY <2>1
    <2>3. HeldOnce' /\ UseHolds' /\ RanAsUsed'
      BY <2>1 DEF HeldOnce, UseHolds, RanAsUsed
    <2> QED
      BY <2>2, <2>3
  <1>9. CASE ClosePool
    <2> USE <1>9 DEF ClosePool
    <2>1. \A r \in Requests : holds[r] \in Conns => conn[holds[r]] # "idle"
      OBVIOUS
    <2>2. TypeOK'
      OBVIOUS
    <2>3. HeldOnce' /\ UseHolds' /\ RanAsUsed'
      BY <2>1 DEF HeldOnce, UseHolds, RanAsUsed
    <2> QED
      BY <2>2, <2>3
  <1>10. CASE UNCHANGED vars
    BY <1>10 DEF vars, HeldOnce, UseHolds, RanAsUsed
  <1> QED
    BY <1>1, <1>2, <1>3, <1>4, <1>5, <1>6, <1>7, <1>8, <1>9, <1>10
       DEF Next, Served, Finished
-----------------------------------------------------------------------------
\* The inductive invariant holds in every reachable state: a borrowed connection
\* is in one hand only, from db.Conn to conn.Close.
THEOREM SessionsInvariant == Spec => []IInv
  BY InitIInv, IInvStep, PTL DEF Spec

\* Every variable keeps its type, and a connection is in the pool or in one hand.
THEOREM SessionsTypeCorrect == Spec => []TypeOK
  BY SessionsInvariant, PTL DEF IInv

\* A sample recorded with a schema runs in that schema, whatever the borrowers
\* before it have selected and whoever runs beside it.
THEOREM OwnSchemaTheorem == Spec => []RunsInItsOwnSchema
  <1>1. IInv => RunsInItsOwnSchema
    BY DEF IInv, RanAsUsed, RunsInItsOwnSchema
  <1> QED
    BY <1>1, SessionsInvariant, PTL
=============================================================================
