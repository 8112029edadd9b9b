----------------------- MODULE DiagnosticServiceProofs -----------------------
(***************************************************************************)
(* For any number of requests, pools and samples and any timeouts: the     *)
(* statements of a validation never take more than StatementLimit, so only *)
(* the time outside them can make its answer miss the write deadline; it   *)
(* answers 200 only when everything was explained; and a report never      *)
(* mixes pools.                                                            *)
(*                                                                         *)
(* The invariant is about one request at a time.  Between two statements   *)
(* of a validation the time spent is bounded by the statements that have   *)
(* succeeded, Budget(explained[r]), which leaves one more timeout within   *)
(* StatementLimit.                                                         *)
(***************************************************************************)
EXTENDS DiagnosticService, FiniteSetTheorems, TLAPS

\* What the sampling query and k explained samples can have cost.
Budget(k) == QueryTimeout + k * ExplainTimeout

NotStarted(r) == sampled[r] = 0 /\ explained[r] = 0 /\ spent[r] = 0

AllExplained(r) == sampled[r] = SampleCount /\ explained[r] = SampleCount

\* Where a request of each kind can be.
KindInv(r) ==
    /\ kind[r] = "validate" => stage[r] \notin {"current", "run"}
    /\ kind[r] # "validate" => stage[r] \in {"current", "run"} \cup Ended /\ NotStarted(r)

CountInv(r) ==
    /\ stage[r] \in {"idle", "sample", "sampling"} => NotStarted(r)
    /\ stage[r] \in {"explain", "explaining"} =>
           explained[r] < sampled[r] /\ spent[r] <= Budget(explained[r])
    /\ spent[r] <= StatementLimit
    /\ stage[r] = "late" => overhead[r] >= WriteTimeout - StatementLimit
    /\ kind[r] = "validate" /\ stage[r] \in {"write200", "200"} => AllExplained(r)
    /\ kind[r] = "validate" /\ stage[r] \in {"write422", "422"} => ~ AllExplained(r)

NodesInv(r) ==
    /\ stage[r] \in Running => cur[r] \in Pools
    /\ stage[r] \in {"idle", "current"} => nodes[r] = {}
    /\ kind[r] # "validate" => nodes[r] \subseteq {cur[r]}

RequestInv(r) == KindInv(r) /\ CountInv(r) /\ NodesInv(r)

ServiceInv == ServiceTypeOK /\ \A r \in Requests : RequestInv(r)

USE DEF reqVars, clocks, Kinds, Asking, Running, Writing, InFlight, Ended, Stages,
        Answered, Goto, Spend, Alive
-----------------------------------------------------------------------------
(***************************************************************************)
(* Arithmetic.                                                             *)
(***************************************************************************)

\* The limits are naturals, and no sample is one of them.
LEMMA BudgetType ==
    /\ StatementLimit \in Nat
    /\ Budget(0) = QueryTimeout
    /\ QueryTimeout <= StatementLimit
  <1> USE ServiceAssumption
  <1>1. SampleCount * ExplainTimeout \in Nat
    OBVIOUS
  <1>2. 0 * ExplainTimeout = 0
    OBVIOUS
  <1> QED
    BY <1>1, <1>2 DEF StatementLimit, Budget

\* One more statement, whether it succeeds or not, stays within the next budget, and
\* with fewer than SampleCount samples explained within the limit.
LEMMA BudgetStep ==
    ASSUME NEW k \in Nat, k < SampleCount, NEW s \in Nat, s <= Budget(k),
           NEW d \in Nat, d <= ExplainTimeout
    PROVE  s + d <= Budget(k + 1) /\ s + d <= StatementLimit
  <1> USE ServiceAssumption
  <1> DEFINE e == k * ExplainTimeout
             f == (k + 1) * ExplainTimeout
             l == SampleCount * ExplainTimeout
  <1>1. e \in Nat /\ f = e + ExplainTimeout
    OBVIOUS
  <1>2. f <= l
    <2>1. PICK j \in Nat : SampleCount = (k + 1) + j
      <3>1. SampleCount - (k + 1) \in Nat
        OBVIOUS
      <3> QED
        BY <3>1
    <2>2. ((k + 1) + j) * ExplainTimeout = f + j * ExplainTimeout
      OBVIOUS
    <2>3. j * ExplainTimeout \in Nat /\ f \in Nat
      OBVIOUS
    <2> QED
      BY <2>1, <2>2, <2>3
  <1>3. l \in Nat
    OBVIOUS
  <1>4. s <= QueryTimeout + e
    BY DEF Budget
  <1> HIDE DEF e, f, l
  <1>5. s + d <= QueryTimeout + f /\ s + d <= QueryTimeout + l
    BY <1>1, <1>2, <1>3, <1>4
  <1> QED
    BY <1>5 DEF Budget, StatementLimit, f, l
-----------------------------------------------------------------------------
(***************************************************************************)
(* The invariant.                                                          *)
(***************************************************************************)
LEMMA ServiceInitInv == ServiceInit => ServiceInv
  BY ServiceAssumption, BudgetType
     DEF ServiceInit, Init, ServiceInv, ServiceTypeOK, TypeOK, Fates, RequestInv,
         KindInv, CountInv, NodesInv, NotStarted

LEMMA ServiceInvStep == ServiceInv /\ [ServiceNext]_vars => ServiceInv'
  <1> SUFFICES ASSUME ServiceInv, [ServiceNext]_vars PROVE ServiceInv'
    OBVIOUS
  <1> USE ServiceAssumption, BudgetType DEF ServiceInv, ServiceTypeOK, RequestInv
  <1>1. ASSUME NEW r \in Requests, NEW k \in Kinds, Accept(r, k) PROVE ServiceInv'
    <2>1. ServiceTypeOK'
      BY <1>1 DEF Accept, TypeOK
    <2>2. ASSUME NEW q \in Requests PROVE RequestInv(q)'
      BY <1>1 DEF Accept, KindInv, CountInv, NodesInv, NotStarted, AllExplained
    <2> QED
      BY <2>1, <2>2
  <1>2. ASSUME NEW r \in Requests, NEW p \in Pools, Current(r, p) PROVE ServiceInv'
    <2>1. ServiceTypeOK'
      BY <1>2 DEF Current, AfterCurrent, TypeOK
    <2>2. stage'[r] = AfterCurrent(stage[r]) /\ stage[r] \in Asking
      BY <1>2 DEF Current
    <2>3. ASSUME NEW q \in Requests, q # r PROVE RequestInv(q)'
      BY <1>2, <2>3 DEF Current, KindInv, CountInv, NodesInv, NotStarted, AllExplained
    <2>4. KindInv(r)'
      BY <1>2, <2>2 DEF Current, AfterCurrent, KindInv, NotStarted
    <2>5. CountInv(r)'
      BY <1>2, <2>2 DEF Current, AfterCurrent, CountInv, NotStarted
    <2>6. nodes[r] = {} \/ kind[r] = "validate"
      BY <2>2 DEF KindInv, NodesInv
    <2>7. NodesInv(r)'
      BY <1>2, <2>2, <2>6 DEF Current, AfterCurrent, NodesInv
    <2> QED
      BY <2>1, <2>3, <2>4, <2>5, <2>7
  <1>3. ASSUME NEW r \in Requests, NoConnection(r) PROVE ServiceInv'
    <2>1. ServiceTypeOK'
      BY <1>3 DEF NoConnection, TypeOK
    <2>3. ASSUME NEW q \in Requests PROVE KindInv(q)' /\ NodesInv(q)'
      <3>1. CASE q = r
        BY <1>3, <3>1 DEF NoConnection, KindInv, NodesInv, NotStarted
      <3>2. CASE q # r
        BY <1>3, <3>2 DEF NoConnection, KindInv, NodesInv, NotStarted
      <3> QED
        BY <3>1, <3>2
    <2>4. kind[r] = "validate" => explained[r] < SampleCount
      BY <1>3 DEF NoConnection, KindInv, CountInv, NotStarted
    <2>5. CountInv(r)'
      BY <1>3, <2>4 DEF NoConnection, CountInv, AllExplained
    <2>6. ASSUME NEW q \in Requests, q # r PROVE CountInv(q)'
      BY <1>3, <2>6 DEF NoConnection, CountInv, NotStarted, AllExplained
    <2> QED
      BY <2>1, <2>3, <2>5, <2>6
  <1>4. ASSUME NEW r \in Requests, NEW d \in 1 .. QueryTimeout, NEW n \in 0 .. SampleCount,
               SampleSucceeds(r, n, d) PROVE ServiceInv'
    <2>1. ServiceTypeOK'
      BY <1>4 DEF SampleSucceeds, Runs, NodesInv, TypeOK
    <2>2. ASSUME NEW q \in Requests PROVE KindInv(q)' /\ NodesInv(q)'
      BY <1>4 DEF SampleSucceeds, Runs, KindInv, NodesInv, NotStarted
    <2>3. spent'[r] = d /\ explained'[r] = 0
      BY <1>4 DEF SampleSucceeds, CountInv, NotStarted
    <2>4. d <= Budget(0) /\ d <= StatementLimit
      BY <1>4 DEF SampleSucceeds
    <2>5. CountInv(r)'
      BY <1>4, <2>3, <2>4 DEF SampleSucceeds, CountInv, AllExplained
    <2>6. ASSUME NEW q \in Requests, q # r PROVE CountInv(q)'
      BY <1>4, <2>6 DEF SampleSucceeds, CountInv, NotStarted, AllExplained
    <2> QED
      BY <2>1, <2>2, <2>5, <2>6
  <1>5. ASSUME NEW r \in Requests, NEW d \in 1 .. ExplainTimeout, ExplainSucceeds(r, d)
        PROVE ServiceInv'
    <2> DEFINE k == explained[r]
    <2>1. k \in Nat /\ k < sampled[r] /\ sampled[r] <= SampleCount /\ spent[r] <= Budget(k)
      BY <1>5 DEF ExplainSucceeds, CountInv
    <2>2. ServiceTypeOK'
      BY <1>5, <2>1 DEF ExplainSucceeds, AfterExplain, Runs, NodesInv, TypeOK
    <2>3. ASSUME NEW q \in Requests PROVE KindInv(q)' /\ NodesInv(q)'
      BY <1>5 DEF ExplainSucceeds, AfterExplain, Runs, KindInv, NodesInv, NotStarted
    <2>4. spent'[r] <= Budget(k + 1) /\ spent'[r] <= StatementLimit
      BY <1>5, <2>1, BudgetStep DEF ExplainSucceeds
    <2>5. CountInv(r)'
      BY <1>5, <2>1, <2>4 DEF ExplainSucceeds, AfterExplain, CountInv, AllExplained
    <2>6. ASSUME NEW q \in Requests, q # r PROVE CountInv(q)'
      BY <1>5, <2>6 DEF ExplainSucceeds, CountInv, NotStarted, AllExplained
    <2> QED
      BY <2>2, <2>3, <2>5, <2>6
  <1>6. ASSUME NEW r \in Requests, NEW d \in 1 .. QueryTimeout + ExplainTimeout,
               StatementFails(r, d) PROVE ServiceInv'
    <2>1. ServiceTypeOK'
      BY <1>6 DEF StatementFails, TypeOK
    <2>2. ASSUME NEW q \in Requests PROVE KindInv(q)' /\ NodesInv(q)'
      BY <1>6 DEF StatementFails, KindInv, NodesInv, NotStarted
    <2>3. spent'[r] <= StatementLimit /\ explained[r] < SampleCount
      <3>1. CASE stage[r] = "sampling"
        BY <1>6, <3>1 DEF StatementFails, CountInv, NotStarted
      <3>2. CASE stage[r] = "explaining"
        BY <1>6, <3>2, BudgetStep DEF StatementFails, CountInv
      <3> QED
        BY <1>6, <3>1, <3>2 DEF StatementFails
    <2>4. CountInv(r)'
      BY <1>6, <2>3 DEF StatementFails, CountInv, AllExplained
    <2>5. ASSUME NEW q \in Requests, q # r PROVE CountInv(q)'
      BY <1>6, <2>5 DEF StatementFails, CountInv, NotStarted, AllExplained
    <2> QED
      BY <2>1, <2>2, <2>4, <2>5
  <1>7. ASSUME NEW r \in Requests, RunStatement(r) PROVE ServiceInv'
    <2>1. ServiceTypeOK'
      BY <1>7 DEF RunStatement, Runs, NodesInv, TypeOK
    <2>2. ASSUME NEW q \in Requests PROVE RequestInv(q)'
      BY <1>7 DEF RunStatement, Runs, KindInv, CountInv, NodesInv, NotStarted, AllExplained
    <2> QED
      BY <2>1, <2>2
  <1>8. ASSUME NEW r \in Requests, NEW code \in {"200", "422"}, Respond(r, code)
        PROVE ServiceInv'
    <2>1. ServiceTypeOK'
      BY <1>8 DEF Respond, TypeOK
    <2>2. ASSUME NEW q \in Requests PROVE RequestInv(q)'
      BY <1>8 DEF Respond, KindInv, CountInv, NodesInv, NotStarted, AllExplained
    <2> QED
      BY <2>1, <2>2
  <1>9. ASSUME NEW r \in Requests, WriteAnswer(r) PROVE ServiceInv'
    <2>1. ServiceTypeOK'
      BY <1>9 DEF WriteAnswer, TypeOK
    <2>2. ASSUME NEW q \in Requests PROVE KindInv(q)' /\ NodesInv(q)'
      BY <1>9 DEF WriteAnswer, KindInv, NodesInv, NotStarted
    <2>3. CountInv(r)'
      <3>1. ~ OnTime(r) => overhead[r] >= WriteTimeout - StatementLimit
        BY DEF CountInv, OnTime
      <3> QED
        BY <1>9, <3>1 DEF WriteAnswer, CountInv, AllExplained
    <2>4. ASSUME NEW q \in Requests, q # r PROVE CountInv(q)'
      BY <1>9, <2>4 DEF WriteAnswer, CountInv, NotStarted, AllExplained
    <2> QED
      BY <2>1, <2>2, <2>3, <2>4
  <1>10. ASSUME NEW r \in Requests, Elapse(r) PROVE ServiceInv'
    <2>1. ServiceTypeOK'
      BY <1>10 DEF Elapse, TypeOK
    <2>2. ASSUME NEW q \in Requests PROVE RequestInv(q)'
      BY <1>10 DEF Elapse, KindInv, CountInv, NodesInv, NotStarted, AllExplained
    <2> QED
      BY <2>1, <2>2
  <1>11. CASE ManagePools \/ CloseConnections
    <2>1. TypeOK' /\ UNCHANGED reqVars
      BY <1>11 DEF ManagePools, CloseConnections, TypeOK, Fates, Open, Reject, Activate,
                  Deactivate, Dispose
    <2>2. ServiceTypeOK'
      BY <1>11, <2>1 DEF ManagePools, CloseConnections
    <2>3. ASSUME NEW q \in Requests PROVE RequestInv(q)'
      BY <2>1 DEF KindInv, CountInv, NodesInv, NotStarted, AllExplained
    <2> QED
      BY <2>2, <2>3
  <1>12. CASE Signal \/ Drained \/ DrainTimesOut \/ UNCHANGED vars
    <2>1. ServiceTypeOK'
      BY <1>12 DEF Signal, Drained, DrainTimesOut, vars, TypeOK
    <2>2. ASSUME NEW q \in Requests PROVE RequestInv(q)'
      BY <1>12 DEF Signal, Drained, DrainTimesOut, vars, KindInv, CountInv, NodesInv,
                   NotStarted, AllExplained
    <2> QED
      BY <2>1, <2>2
  <1>13. CASE Exit
    <2>1. ServiceTypeOK'
      BY <1>13 DEF Exit, TypeOK
    <2>2. ASSUME NEW q \in Requests PROVE RequestInv(q)'
      BY <1>13 DEF Exit, KindInv, CountInv, NodesInv, NotStarted, AllExplained
    <2> QED
      BY <2>1, <2>2
  <1> HIDE DEF ServiceInv, ServiceTypeOK, RequestInv
  <1> QED
    BY <1>1, <1>2, <1>3, <1>4, <1>5, <1>6, <1>7, <1>8, <1>9, <1>10, <1>11,
       <1>12, <1>13
       DEF ServiceNext, ValidateStep, ReportStep

THEOREM ServiceInvariant == ServiceSafety => []ServiceInv
  BY ServiceInitInv, ServiceInvStep, PTL DEF ServiceSafety

\* Every variable keeps its type.
THEOREM ServiceTypeCorrect == ServiceSafety => []ServiceTypeOK
  BY ServiceInvariant, PTL DEF ServiceInv

\* Whatever the timeouts and the number of samples, the statements of a validation keep
\* within StatementLimit, and an answer that misses the write deadline has spent outside
\* them at least what WriteTimeout leaves beside it (repository.go:16-17, main.go:22).
THEOREM WriteDeadlineTheorem == ServiceSafety => []LateOnlyByOverhead
  <1>1. ServiceInv => LateOnlyByOverhead
    BY DEF ServiceInv, RequestInv, CountInv, LateOnlyByOverhead
  <1> QED
    BY <1>1, ServiceInvariant, PTL

\* 200 means SampleCount samples, all of them explained, and nothing less.
THEOREM SuccessTheorem == ServiceSafety => []SuccessMeansAllExplained
  <1>1. ServiceInv => SuccessMeansAllExplained
    BY DEF ServiceInv, RequestInv, CountInv, AllExplained, SuccessMeansAllExplained
  <1> QED
    BY <1>1, ServiceInvariant, PTL

\* A report never mixes the pools of two connections.
THEOREM OnePoolTheorem == ServiceSafety => []ReportsStayOnOnePool
  <1>1. ASSUME ServiceInv, NEW r \in Requests, kind[r] # "validate"
        PROVE  Cardinality(nodes[r]) <= 1
    <2>1. nodes[r] = {} \/ nodes[r] = {cur[r]}
      BY <1>1 DEF ServiceInv, RequestInv, NodesInv
    <2>2. Cardinality(nodes[r]) = 0 \/ Cardinality(nodes[r]) = 1
      BY <2>1, FS_EmptySet, FS_Singleton
    <2> QED
      BY <2>2
  <1>2. ServiceInv => ReportsStayOnOnePool
    BY <1>1 DEF ReportsStayOnOnePool
  <1> QED
    BY <1>2, ServiceInvariant, PTL
=============================================================================
