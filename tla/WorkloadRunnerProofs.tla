------------------------- MODULE WorkloadRunnerProofs -------------------------
(***************************************************************************)
(* For any number of workers, workloads, weights and executions: the       *)
(* weighted picker is proportional, and the workload runner keeps the      *)
(* promises of WorkloadRunner.                                             *)
(*                                                                         *)
(* The argument for the runner: while the main goroutine is in each of its *)
(* points the workers are in certain of theirs (Phases).  The run context  *)
(* ends for a reason that survives (RunEnds): a worker cancels the others  *)
(* after its failure is in the channel, from where the main goroutine      *)
(* takes it (Reported), and an interrupt is still seen in the caller's     *)
(* context.  Each execution is counted twice, by its worker and for its    *)
(* workload, one step apart (Sums); the total is the sum over the workers  *)
(* whose result has left the channel.                                      *)
(***************************************************************************)
EXTENDS WorkloadRunner, DataLemmas

(***************************************************************************)
(* The picker.                                                             *)
(***************************************************************************)

\* What assignRandomWeights returns is a sequence of weights.
LEMMA AssignedWeightsAreSequences ==
  ASSUME NEW n \in Nat \ {0}, NEW max \in Nat, NEW weights \in AssignedWeights(n, max)
  PROVE  Len(weights) = n /\ weights \in [1 .. n -> 1 .. max] /\ weights \in Seq(1 .. max)
  BY DEF AssignedWeights

\* The cumulative weights are the prefix sums of the weights.
LEMMA CumulativeWeightsAreSums ==
  ASSUME NEW n \in Nat \ {0}, NEW max \in Nat, NEW weights \in AssignedWeights(n, max)
  PROVE  \E upTo : /\ IsPrefixSum(upTo, weights, n)
                   /\ CumulativeWeights(weights) = [i \in 1 .. n |-> upTo[i]]
  <1>1. Len(weights) = n /\ weights \in [1 .. n -> Nat]
    BY AssignedWeightsAreSequences
  <1> DEFINE upTo == CHOOSE g : g = [i \in 0 .. n |-> IF i = 0 THEN 0 ELSE g[i - 1] + weights[i]]
  <1>2. IsPrefixSum(upTo, weights, n)
    BY <1>1, PrefixSum
  <1>3. CumulativeWeights(weights) = [i \in 1 .. n |-> upTo[i]]
    BY <1>1 DEF CumulativeWeights
  <1> QED
    BY <1>2, <1>3

\* Prefix sums of naturals never decrease.
LEMMA PrefixSumsGrow ==
  ASSUME NEW n \in Nat, NEW w \in [1 .. n -> Nat], NEW g, IsPrefixSum(g, w, n)
  PROVE  \A i, j \in 0 .. n : i <= j => g[i] <= g[j]
  <1> DEFINE Bad == {j \in 0 .. n : \E i \in 0 .. j : ~(g[i] <= g[j])}
  <1> SUFFICES ASSUME Bad # {} PROVE FALSE
    <2>1. ASSUME NEW i \in 0 .. n, NEW j \in 0 .. n, i <= j, ~(g[i] <= g[j])
          PROVE  j \in Bad
      BY <2>1
    <2> HIDE DEF Bad
    <2> QED
      BY <2>1
  <1>1. PICK j \in Bad : \A k \in Bad : j <= k
    <2> Bad \in SUBSET Nat
      OBVIOUS
    <2> HIDE DEF Bad
    <2> QED
      BY LeastNat
  <1>2. PICK i \in 0 .. j : ~(g[i] <= g[j])
    BY <1>1
  <1>3. g \in [0 .. n -> Nat] /\ i # j /\ j \in 1 .. n /\ i \in 0 .. (j - 1)
    BY <1>1, <1>2 DEF IsPrefixSum
  <1>4. g[j] = g[j - 1] + w[j] /\ w[j] \in Nat
    BY <1>3 DEF IsPrefixSum
  <1>5. j - 1 \in 0 .. n /\ ~(j <= j - 1)
    BY <1>3
  <1>6. j - 1 \notin Bad
    BY <1>1, <1>5
  <1>7. g[i] <= g[j - 1]
    BY <1>3, <1>5, <1>6
  <1> QED
    BY <1>2, <1>3, <1>4, <1>5, <1>7

\* A draw picks the workload whose slice of 0 .. totalWeight - 1 it falls in.
LEMMA PickIsItsSlice ==
  ASSUME NEW n \in Nat \ {0}, NEW max \in Nat, NEW weights \in AssignedWeights(n, max),
         NEW upTo, IsPrefixSum(upTo, weights, n),
         CumulativeWeights(weights) = [i \in 1 .. n |-> upTo[i]],
         NEW draw \in Nat, draw < upTo[n]
  PROVE  /\ PickWorkload(weights, draw) \in 1 .. n
         /\ \A x \in 1 .. n :
               PickWorkload(weights, draw) = x <=> upTo[x - 1] <= draw /\ draw < upTo[x]
  <1> DEFINE S == {i \in 1 .. n : draw < upTo[i]} \cup {n + 1}
             p == PickWorkload(weights, draw)
  <1>1. p = Min(S)
    BY AssignedWeightsAreSequences DEF PickWorkload
  <1>2. p \in S /\ \A i \in S : p <= i
    <2> S \in SUBSET Nat /\ S # {}
      OBVIOUS
    <2> HIDE DEF S
    <2> QED
      BY <1>1, LeastNat DEF Min
  <1> HIDE DEF p
  <1>3. /\ upTo \in [0 .. n -> Nat] /\ upTo[0] = 0
        /\ \A i, j \in 0 .. n : i <= j => upTo[i] <= upTo[j]
    <2> weights \in [1 .. n -> Nat]
      BY AssignedWeightsAreSequences
    <2> QED
      BY PrefixSumsGrow DEF IsPrefixSum
  <1>4. p \in 1 .. n /\ draw < upTo[p]
    <2>1. n \in S
      OBVIOUS
    <2> QED
      BY <1>2, <2>1
  <1>5. upTo[p - 1] <= draw
    <2>1. CASE p = 1
      BY <1>3, <2>1
    <2>2. CASE p # 1
      <3>1. p - 1 \in 1 .. n /\ ~(p <= p - 1)
        BY <1>4, <2>2
      <3>2. p - 1 \notin S
        BY <1>2, <3>1
      <3> QED
        BY <1>3, <3>1, <3>2
    <2> QED
      BY <2>1, <2>2
  <1>6. ASSUME NEW x \in 1 .. n, upTo[x - 1] <= draw, draw < upTo[x] PROVE p = x
    <2>1. p <= x
      BY <1>2, <1>6
    <2>2. CASE p < x
      <3>1. upTo[p] <= upTo[x - 1]
        BY <1>3, <1>4, <2>2
      <3> QED
        BY <1>3, <1>4, <1>6, <3>1
    <2> QED
      BY <1>4, <2>1, <2>2
  <1> QED
    BY <1>4, <1>5, <1>6 DEF p

\* For any number of workloads and any weights that can be drawn: a draw picks a
\* workload, and each is picked by as many draws as its weight.
THEOREM PickerTheorem ==
  ASSUME NEW n \in Nat \ {0}, NEW max \in Nat
  PROVE  PicksAreProportional(n, max)
  <1> SUFFICES ASSUME NEW weights \in AssignedWeights(n, max)
               PROVE  /\ \A draw \in Draws(weights) : PickWorkload(weights, draw) \in 1 .. n
                      /\ \A x \in 1 .. n :
                            Cardinality({draw \in Draws(weights) : PickWorkload(weights, draw) = x})
                               = weights[x]
    BY DEF PicksAreProportional
  <1>1. PICK upTo : /\ IsPrefixSum(upTo, weights, n)
                    /\ CumulativeWeights(weights) = [i \in 1 .. n |-> upTo[i]]
    BY CumulativeWeightsAreSums
  <1>2. Len(weights) = n /\ weights \in [1 .. n -> Nat]
    BY AssignedWeightsAreSequences
  <1>3. upTo \in [0 .. n -> Nat] /\ Draws(weights) = 0 .. (upTo[n] - 1)
    BY <1>1, <1>2 DEF Draws, TotalWeight, IsPrefixSum
  <1>4. ASSUME NEW draw \in Draws(weights) PROVE draw \in Nat /\ draw < upTo[n]
    BY <1>3
  <1>5. ASSUME NEW draw \in Draws(weights)
        PROVE  PickWorkload(weights, draw) \in 1 .. n
    BY <1>1, <1>4, PickIsItsSlice
  <1>6. ASSUME NEW x \in 1 .. n
        PROVE  Cardinality({draw \in Draws(weights) : PickWorkload(weights, draw) = x}) = weights[x]
    <2> DEFINE Picked == {draw \in Draws(weights) : PickWorkload(weights, draw) = x}
    <2>1. /\ upTo[x] = upTo[x - 1] + weights[x]
          /\ upTo[x - 1] \in Nat /\ upTo[x] \in Nat /\ weights[x] \in Nat /\ upTo[x] <= upTo[n]
      <3>1. x \in 0 .. n /\ x - 1 \in 0 .. n /\ n \in 0 .. n /\ x <= n
        OBVIOUS
      <3>2. upTo[x] <= upTo[n]
        BY <1>1, <1>2, <3>1, PrefixSumsGrow
      <3> QED
        BY <1>1, <1>2, <3>1, <3>2 DEF IsPrefixSum
    <2>2. ASSUME NEW draw \in Draws(weights)
          PROVE  PickWorkload(weights, draw) = x <=> upTo[x - 1] <= draw /\ draw < upTo[x]
      BY <1>1, <1>4, PickIsItsSlice
    <2>3. Picked = upTo[x - 1] .. (upTo[x] - 1)
      BY <1>3, <2>1, <2>2
    <2>4. Cardinality(upTo[x - 1] .. (upTo[x] - 1)) = weights[x]
      <3> DEFINE first == upTo[x - 1]
                 last == upTo[x] - 1
      <3>1. first \in Int /\ last \in Int /\ last = first + weights[x] - 1 /\ weights[x] \in Nat
        BY <2>1
      <3> HIDE DEF first, last
      <3>2. Cardinality(first .. last) = IF first > last THEN 0 ELSE last - first + 1
        BY <3>1, FS_Interval
      <3>3. Cardinality(first .. last) = weights[x]
        BY <3>1, <3>2
      <3> QED
        BY <3>3 DEF first, last
    <2> QED
      BY <2>3, <2>4
  <1> QED
    BY <1>5, <1>6
-----------------------------------------------------------------------------
(***************************************************************************)
(* The workers and the main goroutine.                                     *)
(***************************************************************************)

Sent == {"cancel", "finish", "gone"}
Ended == {"return", "exited"}
Ids == {results[j].id : j \in DOMAIN results}
Collected == {i \in Workers : wpc[i] \in Sent} \ Ids
Counted == [i \in Workers |-> IF wpc[i] = "count" THEN runs[i] - 1 ELSE runs[i]]

\* Where the workers and the results are, as the main goroutine goes on.
Phases ==
    /\ pc \in {"open", "abandon", "start"} =>
          /\ \A i \in Workers : wpc[i] = "new"
          /\ runCtx = "live" /\ results = <<>>
    /\ pc = "wait" => \A i \in Workers : wpc[i] # "new"
    /\ pc \in {"close", "collect", "ctxerr", "cleanup"} => \A i \in Workers : wpc[i] = "gone"
    /\ pc \in Ended => \/ \A i \in Workers : wpc[i] = "gone"
                       \/ err /\ \A i \in Workers : wpc[i] = "new"
    /\ pc \in {"ctxerr", "cleanup"} \cup Ended => results = <<>>

\* Who holds a session, and who has every binding in it.
SessionsHeld ==
    /\ pc \in {"open", "abandon"} =>
          /\ next <= K
          /\ \A i \in Workers : i >= next => conn[i] # "held"
    /\ pc = "open" => \A i \in Workers : i < next => bindings[i] = Workloads
    /\ pc = "start" => \A i \in Workers : bindings[i] = Workloads
    /\ \A i \in Workers : wpc[i] \in {"loop", "query", "count"} => bindings[i] = Workloads
    /\ pc = "cleanup" => \A i \in Workers : i < next => conn[i] # "held"
    /\ pc \in Ended => \A i \in Workers : conn[i] # "held"
    /\ pc = "exited" => \A i \in Workers : conn[i] # "idle"

\* Why the run context has ended, and that its end is not lost.
RunEnds ==
    /\ runCtx = "live" => \A i \in Workers :
          /\ wpc[i] \notin {"finish", "gone"}
          /\ wpc[i] \in {"send", "cancel"} => failure[i]
    /\ \A i \in Workers : wpc[i] = "cancel" => failure[i]
    /\ runCtx = "worker" => \E i \in Workers : failure[i] /\ wpc[i] \in {"finish", "gone"}
    /\ runCtx = "parent" => parent = "cancelled" /\ (pc \in {"cleanup"} \cup Ended => err)
    /\ runCtx # "end"
    /\ (\E i \in Workers : failure[i] /\ wpc[i] \in Sent) =>
          err \/ \E j \in DOMAIN results : results[j].err

\* The results in the channel are those of different workers, which have sent them.
Reported ==
    /\ results \in Seq([id : Workers, executions : 0 .. MaxRuns, err : BOOLEAN])
    /\ \A j \in DOMAIN results :
          wpc[results[j].id] \in Sent /\ results[j].executions = runs[results[j].id]
    /\ \A j, k \in DOMAIN results : results[j].id = results[k].id => j = k

\* What the workers have counted, each for itself and together, and what of it the
\* main goroutine has summed up.
Sums ==
    /\ \A i \in Workers :
          /\ wpc[i] = "new" => runs[i] = 0
          /\ wpc[i] = "query" => runs[i] < MaxRuns
          /\ wpc[i] = "count" => runs[i] > 0
    /\ SumOver(counts, Workloads) = SumOver(Counted, Workers)
    /\ total = SumOver(runs, Collected)

IInv == TypeOK /\ Phases /\ SessionsHeld /\ RunEnds /\ Reported /\ Sums

USE DEF Sent, Ended, sessions, local
-----------------------------------------------------------------------------
\* What the proofs below need of the constants.
LEMMA Parameters ==
  /\ K \in Nat \ {0}
  /\ Len(Weights) \in Nat \ {0}
  /\ MaxRuns \in Nat
  BY RunnerAssumption

\* There are finitely many workers and workloads.
LEMMA FiniteSetsOfWorkers == IsFiniteSet(Workers) /\ IsFiniteSet(Workloads)
  BY Parameters, FS_Interval DEF Workers, Workloads

\* The invariant holds initially, ...
LEMMA InitIInv == Init => IInv
  <1> SUFFICES ASSUME Init PROVE IInv
    OBVIOUS
  <1> USE Parameters DEF Init
  <1>1. TypeOK
    <2>1. runs \in [Workers -> 0 .. MaxRuns] /\ chosen \in [Workers -> Workloads]
      BY DEF Workloads
    <2>2. K * MaxRuns \in Nat
      OBVIOUS
    <2>3. counts \in [Workloads -> 0 .. K * MaxRuns] /\ total \in 0 .. K * MaxRuns
      BY <2>2
    <2>4. Len(results) <= K /\ DOMAIN results = {}
      OBVIOUS
    <2>5. /\ pc \in MainPoints /\ next \in 1 .. K + 1
          /\ conn \in [Workers -> {"none", "held", "idle", "closed"}]
          /\ bindings \in [Workers -> SUBSET Workloads]
          /\ wpc \in [Workers -> WorkerPoints]
          /\ failure \in [Workers -> BOOLEAN]
      BY DEF MainPoints, WorkerPoints
    <2> QED
      BY <2>1, <2>3, <2>4, <2>5 DEF TypeOK
  <1>2. Phases /\ SessionsHeld /\ RunEnds /\ Reported
    BY DEF Phases, SessionsHeld, RunEnds, Reported
  <1>3. Sums
    <2>1. IsFiniteSet(Workers) /\ IsFiniteSet(Workloads)
      BY FiniteSetsOfWorkers
    <2>2. Collected = {} /\ \A i \in Workers : Counted[i] = 0
      BY DEF Collected, Counted, Ids
    <2>3. SumOver(counts, Workloads) = 0 /\ SumOver(Counted, Workers) = 0
      BY <2>1, <2>2, SumZero
    <2>4. SumOver(runs, Collected) = 0
      BY <2>2, SumUnfold, FS_EmptySet
    <2> QED
      BY <2>3, <2>4 DEF Sums
  <1> QED
    BY <1>1, <1>2, <1>3 DEF IInv

\* The sums are kept by a step that leaves alone what is counted and what is sent.
LEMMA SumsKept ==
  ASSUME Sums, UNCHANGED <<counts, runs, total>>,
         Counted' = Counted, Collected' = Collected,
         \A i \in Workers : wpc'[i] \in {"new", "query", "count"} => wpc'[i] = wpc[i]
  PROVE  Sums'
  BY DEF Sums

\* What some of the workers have executed, or counted, is bounded, ...
LEMMA PartBound ==
  ASSUME NEW f \in [Workers -> 0 .. MaxRuns], NEW S \in SUBSET Workers
  PROVE  SumOver(f, S) \in 0 .. K * MaxRuns
  <1>1. IsFiniteSet(S) /\ Cardinality(S) \in Nat /\ Cardinality(S) <= K
    <2>1. Cardinality(Workers) = K
      BY Parameters, FS_Interval DEF Workers
    <2>2. IsFiniteSet(S) /\ Cardinality(S) <= Cardinality(Workers)
      BY FiniteSetsOfWorkers, FS_Subset
    <2> QED
      BY <2>1, <2>2, FS_CardinalityType
  <1>2. SumOver(f, S) <= Cardinality(S) * MaxRuns
    BY <1>1, Parameters, SumAtMost
  <1>3. SumOver(f, S) \in Nat
    <2>1. \A i \in S : f[i] \in Nat
      BY Parameters
    <2> QED
      BY <1>1, <2>1, SumAtLeast
  <1>4. Cardinality(S) * MaxRuns <= K * MaxRuns /\ Cardinality(S) * MaxRuns \in Nat
    <2> DEFINE c == Cardinality(S)
    <2>1. c \in Nat /\ K \in Nat /\ MaxRuns \in Nat /\ c <= K
      BY <1>1, Parameters
    <2> HIDE DEF c
    <2>2. c * MaxRuns <= K * MaxRuns /\ c * MaxRuns \in Nat
      BY <2>1
    <2> QED
      BY <2>2 DEF c
  <1>5. K * MaxRuns \in Nat
    BY Parameters
  <1> QED
    BY <1>2, <1>3, <1>4, <1>5

\* ... and so is the count of each workload, if the counts add up to it.
LEMMA CountBound ==
  ASSUME NEW f \in [Workers -> 0 .. MaxRuns], NEW g \in [Workloads -> Nat],
         SumOver(g, Workloads) = SumOver(f, Workers)
  PROVE  g \in [Workloads -> 0 .. K * MaxRuns]
  <1>1. \A x \in Workloads : g[x] <= SumOver(g, Workloads)
    BY FiniteSetsOfWorkers, SumAtLeast
  <1>2. SumOver(f, Workers) \in 0 .. K * MaxRuns
    BY PartBound
  <1> QED
    BY <1>1, <1>2, Parameters

\* What a worker can send.
ReportSet == [id : Workers, executions : 0 .. MaxRuns, err : BOOLEAN]

\* ... and every step of a worker, of the main goroutine or of a context keeps it.
LEMMA IInvStep == IInv /\ [Next]_vars => IInv'
  <1> SUFFICES ASSUME IInv, [Next]_vars PROVE IInv'
    OBVIOUS
  <1> USE Parameters DEF IInv, TypeOK, MainPoints, WorkerPoints
  <1>1. ASSUME NEW i \in Workers, SeeEnd(i) PROVE IInv'
    <2> USE <1>1 DEF SeeEnd, WGoto, EndRun
    <2>1. TypeOK'
      OBVIOUS
    <2>2. Phases'
      BY DEF Phases
    <2>3. SessionsHeld'
      BY DEF SessionsHeld, Phases
    <2>4. RunEnds'
      BY DEF RunEnds, Phases, Reported
    <2>5. Reported'
      BY DEF Reported, Phases
    <2>6. Sums'
      <3>1. Counted' = Counted
        BY DEF Counted, Phases
      <3>2. Collected' = Collected
        <4>1. Ids' = Ids
          BY DEF Ids
        <4>2. \A j \in Workers : wpc'[j] \in Sent <=> wpc[j] \in Sent
          BY DEF Phases
        <4> QED
          BY <4>1, <4>2 DEF Collected
      <3> QED
        BY <3>1, <3>2, SumsKept
    <2> QED
      BY <2>1, <2>2, <2>3, <2>4, <2>5, <2>6
  <1>2. ASSUME NEW i \in Workers, QueryRuns(i) PROVE IInv'
    <2> USE <1>2 DEF QueryRuns, WGoto, EndRun
    <2>1. TypeOK'
      <3>1. runs[i] \in 0 .. MaxRuns /\ runs[i] < MaxRuns
        BY DEF Sums
      <3>2. runs[i] + 1 \in 0 .. MaxRuns
        BY <3>1
      <3> QED
        BY <3>2
    <2>2. Phases'
      BY DEF Phases
    <2>3. SessionsHeld'
      BY DEF SessionsHeld, Phases
    <2>4. RunEnds'
      BY DEF RunEnds, Phases, Reported
    <2>5. Reported'
      BY DEF Reported, Phases
    <2>6. Sums'
      <3>1. Counted' = Counted
        <4>1. runs[i] \in Nat /\ runs[i] + 1 - 1 = runs[i]
          OBVIOUS
        <4>2. \A j \in Workers : IF wpc'[j] = "count" THEN runs'[j] - 1 = Counted[j]
                                  ELSE runs'[j] = Counted[j]
          BY <4>1 DEF Counted
        <4> QED
          BY <4>2 DEF Counted
      <3>2. Collected' = Collected /\ i \notin Collected
        <4>1. Ids' = Ids
          BY DEF Ids
        <4>2. \A j \in Workers : wpc'[j] \in Sent <=> wpc[j] \in Sent
          OBVIOUS
        <4> QED
          BY <4>1, <4>2 DEF Collected
      <3>3. SumOver(runs', Collected) = SumOver(runs, Collected)
        <4>1. Collected \in SUBSET Workers
          BY DEF Collected
        <4>2. \A j \in Collected : runs'[j] = runs[j]
          BY <3>2, <4>1
        <4> QED
          BY ONLY <4>1, <4>2, FiniteSetsOfWorkers, SumSamePart
      <3> QED
        BY <3>1, <3>2, <3>3 DEF Sums
    <2> QED
      BY <2>1, <2>2, <2>3, <2>4, <2>5, <2>6
  <1>3. ASSUME NEW i \in Workers, Count(i) PROVE IInv'
    <2> USE <1>3 DEF Count, WGoto, EndRun
    <2>a. chosen[i] \in Workloads /\ runs[i] \in Nat /\ runs[i] > 0
      BY DEF Sums
    <2>b. /\ Counted \in [Workers -> 0 .. MaxRuns] /\ Counted' \in [Workers -> 0 .. MaxRuns]
          /\ Counted'[i] = Counted[i] + 1
          /\ \A j \in Workers \ {i} : Counted'[j] = Counted[j]
      <3>1. \A j \in Workers : Counted[j] \in 0 .. MaxRuns
        <4>1. \A j \in Workers : runs[j] \in 0 .. MaxRuns /\ (wpc[j] = "count" => runs[j] > 0)
          BY DEF Sums
        <4> QED
          BY <4>1 DEF Counted
      <3>2. Counted'[i] = runs[i] /\ Counted[i] = runs[i] - 1
        BY DEF Counted
      <3>3. \A j \in Workers \ {i} : Counted'[j] = Counted[j]
        BY DEF Counted
      <3>4. \A j \in Workers : Counted'[j] \in 0 .. MaxRuns
        BY <2>a, <3>1, <3>2, <3>3
      <3> QED
        BY <2>a, <3>1, <3>2, <3>3, <3>4 DEF Counted
    <2>c. /\ counts' \in [Workloads -> Nat]
          /\ counts'[chosen[i]] = counts[chosen[i]] + 1
          /\ \A x \in Workloads \ {chosen[i]} : counts'[x] = counts[x]
      BY <2>a
    <2>d. SumOver(counts', Workloads) = SumOver(Counted', Workers)
      <3>1. counts \in [Workloads -> Nat]
        OBVIOUS
      <3>2. Counted \in [Workers -> Nat] /\ Counted' \in [Workers -> Nat]
        BY ONLY <2>b
      <3>3. SumOver(counts, Workloads) = SumOver(Counted, Workers)
        BY DEF Sums
      <3> QED
        BY ONLY <2>a, <2>b, <2>c, <3>1, <3>2, <3>3, FiniteSetsOfWorkers, SumsGrowAlike
    <2>1. TypeOK'
      <3>1. counts' \in [Workloads -> 0 .. K * MaxRuns]
        BY <2>b, <2>c, <2>d, CountBound
      <3> QED
        BY <3>1
    <2>2. Phases'
      BY DEF Phases
    <2>3. SessionsHeld'
      BY DEF SessionsHeld, Phases
    <2>4. RunEnds'
      BY DEF RunEnds, Phases, Reported
    <2>5. Reported'
      BY DEF Reported, Phases
    <2>6. Sums'
      <3>1. Collected' = Collected
        <4>1. Ids' = Ids
          BY DEF Ids
        <4>2. \A j \in Workers : wpc'[j] \in Sent <=> wpc[j] \in Sent
          OBVIOUS
        <4> QED
          BY <4>1, <4>2 DEF Collected
      <3> QED
        BY <2>d, <3>1 DEF Sums
    <2> QED
      BY <2>1, <2>2, <2>3, <2>4, <2>5, <2>6
  <1>4. ASSUME NEW i \in Workers, QueryFails(i) PROVE IInv'
    <2> USE <1>4 DEF QueryFails, WGoto, EndRun
    <2>1. TypeOK'
      OBVIOUS
    <2>2. Phases'
      BY DEF Phases
    <2>3. SessionsHeld'
      BY DEF SessionsHeld, Phases
    <2>4. RunEnds'
      BY DEF RunEnds, Phases, Reported
    <2>5. Reported'
      BY DEF Reported, Phases
    <2>6. Sums'
      <3>1. Counted' = Counted
        BY DEF Counted, Phases
      <3>2. Collected' = Collected
        <4>1. Ids' = Ids
          BY DEF Ids
        <4>2. \A j \in Workers : wpc'[j] \in Sent <=> wpc[j] \in Sent
          BY DEF Phases
        <4> QED
          BY <4>1, <4>2 DEF Collected
      <3> QED
        BY <3>1, <3>2, SumsKept
    <2> QED
      BY <2>1, <2>2, <2>3, <2>4, <2>5, <2>6
  <1>5. ASSUME NEW i \in Workers, CheckContext(i) PROVE IInv'
    <2> USE <1>5 DEF CheckContext, WGoto, EndRun
    <2>1. TypeOK'
      OBVIOUS
    <2>2. Phases'
      BY DEF Phases
    <2>3. SessionsHeld'
      BY DEF SessionsHeld, Phases
    <2>4. RunEnds'
      BY DEF RunEnds, Phases, Reported
    <2>5. Reported'
      BY DEF Reported, Phases
    <2>6. Sums'
      <3>1. Counted' = Counted
        BY DEF Counted, Phases
      <3>2. Collected' = Collected
        <4>1. Ids' = Ids
          BY DEF Ids
        <4>2. \A j \in Workers : wpc'[j] \in Sent <=> wpc[j] \in Sent
          BY DEF Phases
        <4> QED
          BY <4>1, <4>2 DEF Collected
      <3> QED
        BY <3>1, <3>2, SumsKept
    <2> QED
      BY <2>1, <2>2, <2>3, <2>4, <2>5, <2>6
  <1>6. ASSUME NEW i \in Workers, Send(i) PROVE IInv'
    <2> USE <1>6 DEF Send, WGoto, EndRun
    <2> DEFINE new == [id |-> i, executions |-> runs[i], err |-> failure[i]]
    <2>a. new \in ReportSet /\ results \in Seq(ReportSet) /\ results' = Append(results, new)
      BY DEF Reported, ReportSet
    <2>b. /\ results' \in Seq(ReportSet)
          /\ Len(results') = Len(results) + 1 /\ Len(results) \in Nat
          /\ DOMAIN results' = DOMAIN results \cup {Len(results) + 1}
          /\ \A j \in DOMAIN results : results'[j] = results[j]
          /\ results'[Len(results) + 1] = new
      BY <2>a, AppendOne
    <2> HIDE DEF new
    <2>c. new.id = i /\ new.executions = runs[i] /\ new.err = failure[i]
      BY DEF new
    <2>d. \A j \in DOMAIN results : results[j].id # i
      BY DEF Reported
    <2>1. TypeOK'
      <3>1. /\ Len(results') <= K
            /\ \A j \in DOMAIN results' : results'[j] \in ReportSet
        BY <2>a, <2>b
      <3> QED
        BY <3>1 DEF ReportSet
    <2>2. Phases'
      BY DEF Phases
    <2>3. SessionsHeld'
      BY DEF SessionsHeld, Phases
    <2>4. RunEnds'
      <3>1. wpc'[i] = IF failure[i] THEN "cancel" ELSE "finish"
        OBVIOUS
      <3>2. \A j \in Workers \ {i} : wpc'[j] = wpc[j]
        OBVIOUS
      <3>3. \A j \in DOMAIN results : j \in DOMAIN results' /\ results'[j].err = results[j].err
        BY <2>b
      <3>4. Len(results) + 1 \in DOMAIN results' /\ results'[Len(results) + 1].err = failure[i]
        BY <2>b, <2>c
      <3>5. (\E j \in Workers : failure[j] /\ wpc'[j] \in Sent) =>
               err \/ \E j \in DOMAIN results' : results'[j].err
        BY <3>1, <3>2, <3>3, <3>4 DEF RunEnds
      <3> QED
        BY <3>1, <3>2, <3>5 DEF RunEnds
    <2>5. Reported'
      <3>1. \A j \in Workers : wpc[j] \in Sent => wpc'[j] \in Sent
        OBVIOUS
      <3>2. wpc'[i] \in Sent
        OBVIOUS
      <3>3. ASSUME NEW j \in DOMAIN results'
            PROVE  wpc'[results'[j].id] \in Sent /\ results'[j].executions = runs[results'[j].id]
        <4>1. CASE j \in DOMAIN results
          BY <2>b, <3>1, <4>1 DEF Reported
        <4>2. CASE j = Len(results) + 1
          BY <2>b, <2>c, <3>2, <4>2
        <4> QED
          BY <2>b, <4>1, <4>2
      <3>4. ASSUME NEW j \in DOMAIN results', NEW k \in DOMAIN results',
                   results'[j].id = results'[k].id
            PROVE  j = k
        <4>1. CASE j \in DOMAIN results /\ k \in DOMAIN results
          <5>1. results[j].id = results[k].id
            BY <2>b, <3>4, <4>1
          <5> QED
            BY <4>1, <5>1 DEF Reported
        <4>2. CASE j = Len(results) + 1 /\ k = Len(results) + 1
          BY <4>2
        <4>3. CASE j \in DOMAIN results /\ k = Len(results) + 1
          BY <2>b, <2>c, <2>d, <3>4, <4>3
        <4>4. CASE j = Len(results) + 1 /\ k \in DOMAIN results
          BY <2>b, <2>c, <2>d, <3>4, <4>4
        <4> QED
          BY <2>b, <4>1, <4>2, <4>3, <4>4
      <3> QED
        BY <2>b, <3>3, <3>4 DEF Reported, ReportSet
    <2>6. Sums'
      <3>1. Counted' = Counted
        BY DEF Counted
      <3>2. Collected' = Collected
        <4>1. Ids' = Ids \cup {i}
          <5>1. \A j \in DOMAIN results : results'[j].id = results[j].id
            BY <2>b
          <5>2. results'[Len(results) + 1].id = i
            BY <2>b, <2>c
          <5>3. Ids \subseteq Ids' /\ i \in Ids'
            BY <2>b, <5>1, <5>2 DEF Ids
          <5>4. Ids' \subseteq Ids \cup {i}
            BY <2>b, <5>1, <5>2 DEF Ids
          <5> QED
            BY <5>3, <5>4
        <4>2. \A j \in Workers : wpc'[j] \in Sent <=> wpc[j] \in Sent \/ j = i
          OBVIOUS
        <4>3. wpc[i] \notin Sent
          OBVIOUS
        <4> QED
          BY <4>1, <4>2, <4>3 DEF Collected
      <3> QED
        BY <3>1, <3>2, SumsKept
    <2> QED
      BY <2>1, <2>2, <2>3, <2>4, <2>5, <2>6
  <1>7. ASSUME NEW i \in Workers, CancelOthers(i) PROVE IInv'
    <2> USE <1>7 DEF CancelOthers, WGoto, EndRun
    <2>1. TypeOK'
      OBVIOUS
    <2>2. Phases'
      BY DEF Phases
    <2>3. SessionsHeld'
      BY DEF SessionsHeld, Phases
    <2>4. RunEnds'
      BY DEF RunEnds, Phases, Reported
    <2>5. Reported'
      BY DEF Reported, Phases
    <2>6. Sums'
      <3>1. Counted' = Counted
        BY DEF Counted, Phases
      <3>2. Collected' = Collected
        <4>1. Ids' = Ids
          BY DEF Ids
        <4>2. \A j \in Workers : wpc'[j] \in Sent <=> wpc[j] \in Sent
          BY DEF Phases
        <4> QED
          BY <4>1, <4>2 DEF Collected
      <3> QED
        BY <3>1, <3>2, SumsKept
    <2> QED
      BY <2>1, <2>2, <2>3, <2>4, <2>5, <2>6
  <1>8. ASSUME NEW i \in Workers, Finish(i) PROVE IInv'
    <2> USE <1>8 DEF Finish, WGoto, EndRun
    <2>1. TypeOK'
      OBVIOUS
    <2>2. Phases'
      BY DEF Phases
    <2>3. SessionsHeld'
      BY DEF SessionsHeld, Phases
    <2>4. RunEnds'
      BY DEF RunEnds, Phases, Reported
    <2>5. Reported'
      BY DEF Reported, Phases
    <2>6. Sums'
      <3>1. Counted' = Counted
        BY DEF Counted, Phases
      <3>2. Collected' = Collected
        <4>1. Ids' = Ids
          BY DEF Ids
        <4>2. \A j \in Workers : wpc'[j] \in Sent <=> wpc[j] \in Sent
          BY DEF Phases
        <4> QED
          BY <4>1, <4>2 DEF Collected
      <3> QED
        BY <3>1, <3>2, SumsKept
    <2> QED
      BY <2>1, <2>2, <2>3, <2>4, <2>5, <2>6
  <1>9. ASSUME NEW i \in Workers, NEW draw \in Draws(Weights), Pick(i, draw) PROVE IInv'
    <2> USE <1>9 DEF Pick, WGoto, EndRun
    <2>1. TypeOK'
      <3>1. PickWorkload(Weights, draw) \in Workloads
        BY RunnerAssumption, PickerTheorem DEF PicksAreProportional, Workloads
      <3> QED
        BY <3>1
    <2>2. Phases'
      BY DEF Phases
    <2>3. SessionsHeld'
      BY DEF SessionsHeld, Phases
    <2>4. RunEnds'
      BY DEF RunEnds, Phases, Reported
    <2>5. Reported'
      BY DEF Reported, Phases
    <2>6. Sums'
      <3>1. Counted' = Counted
        BY DEF Counted
      <3>2. Collected' = Collected
        <4>1. Ids' = Ids
          BY DEF Ids
        <4>2. \A j \in Workers : wpc'[j] \in Sent <=> wpc[j] \in Sent
          OBVIOUS
        <4> QED
          BY <4>1, <4>2 DEF Collected
      <3> QED
        BY <3>1, <3>2 DEF Sums
    <2> QED
      BY <2>1, <2>2, <2>3, <2>4, <2>5, <2>6
  <1>10. ASSUME OpenWorker PROVE IInv'
    <2> USE <1>10 DEF OpenWorker, WGoto, EndRun, Workers
    <2>1. TypeOK'
      BY DEF SessionsHeld
    <2>2. Phases'
      BY DEF Phases
    <2>3. SessionsHeld'
      BY DEF SessionsHeld, Phases
    <2>4. RunEnds'
      BY DEF RunEnds, Phases, Reported
    <2>5. Reported'
      BY DEF Reported, Phases
    <2>6. Sums'
      <3>1. Counted' = Counted
        BY DEF Counted, Phases
      <3>2. Collected' = Collected
        <4>1. Ids' = Ids
          BY DEF Ids
        <4>2. \A j \in Workers : wpc'[j] \in Sent <=> wpc[j] \in Sent
          BY DEF Phases
        <4> QED
          BY <4>1, <4>2 DEF Collected
      <3> QED
        BY <3>1, <3>2, SumsKept
    <2> QED
      BY <2>1, <2>2, <2>3, <2>4, <2>5, <2>6
  <1>11. ASSUME OpenWorkerFails PROVE IInv'
    <2> USE <1>11 DEF OpenWorkerFails, WGoto, EndRun, Workers
    <2>1. TypeOK'
      <3>1. conn' \in [Workers -> {"none", "held", "idle", "closed"}]
        BY DEF SessionsHeld
      <3>2. bindings' \in [Workers -> SUBSET Workloads]
        BY DEF SessionsHeld
      <3> QED
        BY <3>1, <3>2
    <2>2. Phases'
      BY DEF Phases
    <2>3. SessionsHeld'
      BY DEF SessionsHeld, Phases
    <2>4. RunEnds'
      BY DEF RunEnds, Phases, Reported
    <2>5. Reported'
      BY DEF Reported, Phases
    <2>6. Sums'
      <3>1. Counted' = Counted
        BY DEF Counted, Phases
      <3>2. Collected' = Collected
        <4>1. Ids' = Ids
          BY DEF Ids
        <4>2. \A j \in Workers : wpc'[j] \in Sent <=> wpc[j] \in Sent
          BY DEF Phases
        <4> QED
          BY <4>1, <4>2 DEF Collected
      <3> QED
        BY <3>1, <3>2, SumsKept
    <2> QED
      BY <2>1, <2>2, <2>3, <2>4, <2>5, <2>6
  <1>12. ASSUME Abandon PROVE IInv'
    <2> USE <1>12 DEF Abandon, WGoto, EndRun, Workers
    <2>1. TypeOK'
      OBVIOUS
    <2>2. Phases'
      BY DEF Phases
    <2>3. SessionsHeld'
      BY DEF SessionsHeld, Phases
    <2>4. RunEnds'
      BY DEF RunEnds, Phases, Reported
    <2>5. Reported'
      BY DEF Reported, Phases
    <2>6. Sums'
      <3>1. Counted' = Counted
        BY DEF Counted, Phases
      <3>2. Collected' = Collected
        <4>1. Ids' = Ids
          BY DEF Ids
        <4>2. \A j \in Workers : wpc'[j] \in Sent <=> wpc[j] \in Sent
          BY DEF Phases
        <4> QED
          BY <4>1, <4>2 DEF Collected
      <3> QED
        BY <3>1, <3>2, SumsKept
    <2> QED
      BY <2>1, <2>2, <2>3, <2>4, <2>5, <2>6
  <1>13. ASSUME Start PROVE IInv'
    <2> USE <1>13 DEF Start, WGoto, EndRun, Workers
    <2>1. TypeOK'
      OBVIOUS
    <2>2. Phases'
      BY DEF Phases
    <2>3. SessionsHeld'
      BY DEF SessionsHeld, Phases
    <2>4. RunEnds'
      BY DEF RunEnds, Phases, Reported
    <2>5. Reported'
      BY DEF Reported, Phases
    <2>6. Sums'
      <3>1. Counted' = Counted
        BY DEF Counted, Phases
      <3>2. Collected' = Collected
        <4>1. Ids' = Ids
          BY DEF Ids
        <4>2. \A j \in Workers : wpc'[j] \in Sent <=> wpc[j] \in Sent
          BY DEF Phases
        <4> QED
          BY <4>1, <4>2 DEF Collected
      <3> QED
        BY <3>1, <3>2, SumsKept
    <2> QED
      BY <2>1, <2>2, <2>3, <2>4, <2>5, <2>6
  <1>14. ASSUME Wait PROVE IInv'
    <2> USE <1>14 DEF Wait, WGoto, EndRun, Workers
    <2>1. TypeOK'
      OBVIOUS
    <2>2. Phases'
      BY DEF Phases
    <2>3. SessionsHeld'
      BY DEF SessionsHeld, Phases
    <2>4. RunEnds'
      BY DEF RunEnds, Phases, Reported
    <2>5. Reported'
      BY DEF Reported, Phases
    <2>6. Sums'
      <3>1. Counted' = Counted
        BY DEF Counted, Phases
      <3>2. Collected' = Collected
        <4>1. Ids' = Ids
          BY DEF Ids
        <4>2. \A j \in Workers : wpc'[j] \in Sent <=> wpc[j] \in Sent
          BY DEF Phases
        <4> QED
          BY <4>1, <4>2 DEF Collected
      <3> QED
        BY <3>1, <3>2, SumsKept
    <2> QED
      BY <2>1, <2>2, <2>3, <2>4, <2>5, <2>6
  <1>15. ASSUME CloseChannel PROVE IInv'
    <2> USE <1>15 DEF CloseChannel, WGoto, EndRun
    <2>1. TypeOK'
      OBVIOUS
    <2>2. Phases'
      BY DEF Phases
    <2>3. SessionsHeld'
      BY DEF SessionsHeld, Phases
    <2>4. RunEnds'
      BY DEF RunEnds, Phases, Reported
    <2>5. Reported'
      BY DEF Reported, Phases
    <2>6. Sums'
      <3>1. Counted' = Counted
        BY DEF Counted, Phases
      <3>2. Collected' = Collected
        <4>1. Ids' = Ids
          BY DEF Ids
        <4>2. \A j \in Workers : wpc'[j] \in Sent <=> wpc[j] \in Sent
          BY DEF Phases
        <4> QED
          BY <4>1, <4>2 DEF Collected
      <3> QED
        BY <3>1, <3>2, SumsKept
    <2> QED
      BY <2>1, <2>2, <2>3, <2>4, <2>5, <2>6
  <1>16. ASSUME Collect PROVE IInv'
    <2> USE <1>16 DEF Collect, WGoto, EndRun
    <2> DEFINE first == Head(results)
    <2>a. ASSUME results # <<>>
          PROVE  /\ results' \in Seq(ReportSet)
                 /\ Len(results') = Len(results) - 1 /\ Len(results) \in Nat
                 /\ 1 \in DOMAIN results /\ first = results[1] /\ first \in ReportSet
                 /\ \A j \in DOMAIN results' :
                       j + 1 \in DOMAIN results /\ results'[j] = results[j + 1]
                 /\ \A j \in DOMAIN results :
                       j = 1 \/ (j - 1 \in DOMAIN results' /\ results'[j - 1] = results[j])
                 /\ DOMAIN results' \subseteq Nat \ {0}
      <3>1. results \in Seq(ReportSet) /\ results' = Tail(results)
        BY <2>a DEF Reported, ReportSet
      <3>2. DOMAIN results' \subseteq Nat \ {0}
        <4>1. results' \in Seq(ReportSet)
          BY ONLY <2>a, <3>1, HeadAndTail
        <4> QED
          BY ONLY <4>1
      <3> QED
        BY ONLY <2>a, <3>1, <3>2, HeadAndTail
    <2>e. ASSUME results # <<>>
          PROVE  total' = total + first.executions /\ err' = (err \/ first.err) /\ pc' = pc
      BY <2>e
    <2>c. ASSUME results = <<>>
          PROVE  results' = <<>> /\ UNCHANGED <<total, err>> /\ pc' = "ctxerr"
      BY <2>c
    <2> HIDE DEF first
    <2>b. ASSUME results # <<>>
          PROVE  /\ first.id \in Workers /\ first.executions = runs[first.id]
                 /\ wpc[first.id] \in Sent
                 /\ first.err \in BOOLEAN
                 /\ first.executions \in 0 .. MaxRuns
                 /\ Ids = Ids' \cup {first.id} /\ first.id \notin Ids'
      <3>1. /\ first.id \in Workers /\ first.err \in BOOLEAN
            /\ first.executions \in 0 .. MaxRuns
        BY <2>a, <2>b DEF ReportSet
      <3>2. first.executions = runs[first.id] /\ wpc[first.id] \in Sent
        <4>1. 1 \in DOMAIN results /\ first = results[1]
          BY <2>a, <2>b
        <4> QED
          BY <4>1 DEF Reported
      <3>3. first.id \notin Ids'
        <4>1. ASSUME NEW j \in DOMAIN results', results'[j].id = first.id PROVE FALSE
          <5>1. j + 1 \in DOMAIN results /\ results[j + 1].id = results[1].id
            BY <2>a, <2>b, <4>1
          <5>2. j + 1 = 1
            BY <2>a, <2>b, <5>1 DEF Reported
          <5>3. j \in Nat \ {0}
            BY <2>a, <2>b
          <5> QED
            BY <5>2, <5>3
        <4> QED
          BY <4>1 DEF Ids
      <3>4. Ids = Ids' \cup {first.id}
        <4>1. \A j \in DOMAIN results : results[j].id \in Ids' \cup {first.id}
          <5>1. \A j \in DOMAIN results' : results'[j].id \in Ids'
            BY Zenon DEF Ids
          <5> QED
            BY ONLY <2>a, <2>b, <5>1
        <4>2. first.id \in Ids /\ \A j \in DOMAIN results' : results'[j].id \in Ids
          <5>1. \A j \in DOMAIN results : results[j].id \in Ids
            BY Zenon DEF Ids
          <5> QED
            BY ONLY <2>a, <2>b, <5>1
        <4>3. Ids \subseteq Ids' \cup {first.id}
          BY ONLY <4>1 DEF Ids
        <4>4. Ids' \subseteq Ids
          BY ONLY <4>2 DEF Ids
        <4> QED
          BY <4>2, <4>3, <4>4
      <3> QED
        BY <3>1, <3>2, <3>3, <3>4
    <2>d. Sums'
      <3>1. Counted' = Counted
        BY DEF Counted
      <3>2. CASE results = <<>>
        <4>1. Collected' = Collected
          BY <2>c, <3>2 DEF Collected, Ids
        <4> QED
          BY <2>c, <3>1, <3>2, <4>1, SumsKept
      <3>3. CASE results # <<>>
        <4>1. Collected = Collected' \ {first.id} /\ first.id \in Collected' /\ Collected' \in SUBSET Workers
          BY <2>b, <3>3 DEF Collected, Ids
        <4>2. SumOver(runs, Collected') = SumOver(runs, Collected) + runs[first.id]
          <5>1. runs \in [Workers -> Nat]
            OBVIOUS
          <5> QED
            BY ONLY <4>1, <5>1, FiniteSetsOfWorkers, SumOfRest
        <4>4. total' = SumOver(runs, Collected')
          BY <2>b, <2>e, <3>3, <4>2 DEF Sums
        <4> QED
          BY <3>1, <4>4 DEF Sums
      <3> QED
        BY <3>2, <3>3
    <2>1. TypeOK'
      <3>1. total' \in 0 .. K * MaxRuns
        <4>1. total' = SumOver(runs, Collected') /\ Collected' \in SUBSET Workers
          BY <2>d DEF Sums, Collected
        <4> QED
          BY <4>1, PartBound
      <3>2. Len(results') <= K
        BY <2>a, <2>c
      <3>5. err' \in BOOLEAN
        BY <2>b, <2>c, <2>e
      <3>3. \A j \in DOMAIN results' : results'[j] \in ReportSet
        BY <2>a, <2>c
      <3>4. pc' \in MainPoints
        OBVIOUS
      <3> QED
        BY <3>1, <3>2, <3>3, <3>4, <3>5 DEF ReportSet
    <2>2. Phases'
      BY DEF Phases
    <2>3. SessionsHeld'
      BY DEF SessionsHeld, Phases
    <2>4. RunEnds'
      <3>1. CASE results = <<>>
        BY <2>c, <3>1 DEF RunEnds, Phases
      <3>2. CASE results # <<>>
        <4>1. (\E j \in DOMAIN results : results[j].err) =>
                 first.err \/ \E j \in DOMAIN results' : results'[j].err
          BY <2>a, <3>2
        <4> QED
          BY <2>b, <2>e, <3>2, <4>1 DEF RunEnds, Phases
      <3> QED
        BY <3>1, <3>2
    <2>5. Reported'
      <3>1. CASE results = <<>>
        BY <2>c, <3>1 DEF Reported
      <3>2. CASE results # <<>>
        <4>1. results' \in Seq(ReportSet)
          BY <2>a, <3>2
        <4>2. \A j \in DOMAIN results' : wpc[results'[j].id] \in Sent
                 /\ results'[j].executions = runs[results'[j].id]
          <5>1. \A j \in DOMAIN results' : j + 1 \in DOMAIN results /\ results'[j] = results[j + 1]
            BY <2>a, <3>2
          <5>2. UNCHANGED <<wpc, runs>>
            OBVIOUS
          <5>3. \A j \in DOMAIN results :
                   wpc[results[j].id] \in Sent /\ results[j].executions = runs[results[j].id]
            BY DEF Reported
          <5> QED
            BY ONLY <5>1, <5>2, <5>3
        <4>3. ASSUME NEW j \in DOMAIN results', NEW k \in DOMAIN results',
                     results'[j].id = results'[k].id
              PROVE  j = k
          <5>1. j + 1 = k + 1
            BY <2>a, <3>2, <4>3 DEF Reported
          <5>2. j \in Nat /\ k \in Nat
            BY <2>a, <3>2
          <5> QED
            BY <5>1, <5>2
        <4> QED
          BY <4>1, <4>2, <4>3 DEF Reported, ReportSet
      <3> QED
        BY <3>1, <3>2
    <2>6. Sums'
      BY <2>d
    <2> QED
      BY <2>1, <2>2, <2>3, <2>4, <2>5, <2>6
  <1>17. ASSUME CheckParent PROVE IInv'
    <2> USE <1>17 DEF CheckParent, WGoto, EndRun, Workers
    <2>1. TypeOK'
      OBVIOUS
    <2>2. Phases'
      BY DEF Phases
    <2>3. SessionsHeld'
      BY DEF SessionsHeld, Phases
    <2>4. RunEnds'
      BY DEF RunEnds, Phases, Reported
    <2>5. Reported'
      BY DEF Reported, Phases
    <2>6. Sums'
      <3>1. Counted' = Counted
        BY DEF Counted, Phases
      <3>2. Collected' = Collected
        <4>1. Ids' = Ids
          BY DEF Ids
        <4>2. \A j \in Workers : wpc'[j] \in Sent <=> wpc[j] \in Sent
          BY DEF Phases
        <4> QED
          BY <4>1, <4>2 DEF Collected
      <3> QED
        BY <3>1, <3>2, SumsKept
    <2> QED
      BY <2>1, <2>2, <2>3, <2>4, <2>5, <2>6
  <1>18. ASSUME CloseWorker PROVE IInv'
    <2> USE <1>18 DEF CloseWorker, WGoto, EndRun, Workers
    <2>1. TypeOK'
      <3>1. next \in Workers /\ next' \in 1 .. K + 1
        OBVIOUS
      <3>2. conn' \in [Workers -> {"none", "held", "idle", "closed"}]
        BY <3>1
      <3>3. bindings' \in [Workers -> SUBSET Workloads]
        BY <3>1
      <3> QED
        BY <3>1, <3>2, <3>3
    <2>2. Phases'
      BY DEF Phases
    <2>3. SessionsHeld'
      BY DEF SessionsHeld, Phases
    <2>4. RunEnds'
      BY DEF RunEnds, Phases, Reported
    <2>5. Reported'
      BY DEF Reported, Phases
    <2>6. Sums'
      <3>1. Counted' = Counted
        BY DEF Counted, Phases
      <3>2. Collected' = Collected
        <4>1. Ids' = Ids
          BY DEF Ids
        <4>2. \A j \in Workers : wpc'[j] \in Sent <=> wpc[j] \in Sent
          BY DEF Phases
        <4> QED
          BY <4>1, <4>2 DEF Collected
      <3> QED
        BY <3>1, <3>2, SumsKept
    <2> QED
      BY <2>1, <2>2, <2>3, <2>4, <2>5, <2>6
  <1>19. ASSUME Return PROVE IInv'
    <2> USE <1>19 DEF Return, WGoto, EndRun, Workers
    <2>1. TypeOK'
      OBVIOUS
    <2>2. Phases'
      BY DEF Phases
    <2>3. SessionsHeld'
      BY DEF SessionsHeld, Phases
    <2>4. RunEnds'
      BY DEF RunEnds, Phases, Reported
    <2>5. Reported'
      BY DEF Reported, Phases
    <2>6. Sums'
      <3>1. Counted' = Counted
        BY DEF Counted, Phases
      <3>2. Collected' = Collected
        <4>1. Ids' = Ids
          BY DEF Ids
        <4>2. \A j \in Workers : wpc'[j] \in Sent <=> wpc[j] \in Sent
          BY DEF Phases
        <4> QED
          BY <4>1, <4>2 DEF Collected
      <3> QED
        BY <3>1, <3>2, SumsKept
    <2> QED
      BY <2>1, <2>2, <2>3, <2>4, <2>5, <2>6
  <1>20. ASSUME CloseDB PROVE IInv'
    <2> USE <1>20 DEF CloseDB, WGoto, EndRun
    <2>1. TypeOK'
      OBVIOUS
    <2>2. Phases'
      BY DEF Phases
    <2>3. SessionsHeld'
      BY DEF SessionsHeld, Phases
    <2>4. RunEnds'
      BY DEF RunEnds, Phases, Reported
    <2>5. Reported'
      BY DEF Reported, Phases
    <2>6. Sums'
      <3>1. Counted' = Counted
        BY DEF Counted, Phases
      <3>2. Collected' = Collected
        <4>1. Ids' = Ids
          BY DEF Ids
        <4>2. \A j \in Workers : wpc'[j] \in Sent <=> wpc[j] \in Sent
          BY DEF Phases
        <4> QED
          BY <4>1, <4>2 DEF Collected
      <3> QED
        BY <3>1, <3>2, SumsKept
    <2> QED
      BY <2>1, <2>2, <2>3, <2>4, <2>5, <2>6
  <1>21. ASSUME Deadline PROVE IInv'
    <2> USE <1>21 DEF Deadline, WGoto, EndRun
    <2>1. TypeOK'
      OBVIOUS
    <2>2. Phases'
      BY DEF Phases
    <2>3. SessionsHeld'
      BY DEF SessionsHeld, Phases
    <2>4. RunEnds'
      BY DEF RunEnds, Phases, Reported
    <2>5. Reported'
      BY DEF Reported, Phases
    <2>6. Sums'
      <3>1. Counted' = Counted
        BY DEF Counted, Phases
      <3>2. Collected' = Collected
        <4>1. Ids' = Ids
          BY DEF Ids
        <4>2. \A j \in Workers : wpc'[j] \in Sent <=> wpc[j] \in Sent
          BY DEF Phases
        <4> QED
          BY <4>1, <4>2 DEF Collected
      <3> QED
        BY <3>1, <3>2, SumsKept
    <2> QED
      BY <2>1, <2>2, <2>3, <2>4, <2>5, <2>6
  <1>22. ASSUME Interrupt PROVE IInv'
    <2> USE <1>22 DEF Interrupt, WGoto, EndRun
    <2>1. TypeOK'
      OBVIOUS
    <2>2. Phases'
      BY DEF Phases
    <2>3. SessionsHeld'
      BY DEF SessionsHeld, Phases
    <2>4. RunEnds'
      BY DEF RunEnds, Phases, Reported
    <2>5. Reported'
      BY DEF Reported, Phases
    <2>6. Sums'
      <3>1. Counted' = Counted
        BY DEF Counted, Phases
      <3>2. Collected' = Collected
        <4>1. Ids' = Ids
          BY DEF Ids
        <4>2. \A j \in Workers : wpc'[j] \in Sent <=> wpc[j] \in Sent
          BY DEF Phases
        <4> QED
          BY <4>1, <4>2 DEF Collected
      <3> QED
        BY <3>1, <3>2, SumsKept
    <2> QED
      BY <2>1, <2>2, <2>3, <2>4, <2>5, <2>6
  <1>23. CASE UNCHANGED vars
    <2> USE <1>23 DEF vars
    <2>1. TypeOK'
      OBVIOUS
    <2>2. Phases' /\ SessionsHeld' /\ RunEnds'
      BY DEF Phases, SessionsHeld, RunEnds
    <2>3. Reported' /\ Sums'
      BY DEF Reported, Sums, Counted, Collected, Ids
    <2> QED
      BY <2>1, <2>2, <2>3
  <1> QED
    BY <1>1, <1>2, <1>3, <1>4, <1>5, <1>6, <1>7, <1>8, <1>9, <1>10, <1>11, <1>12, <1>13, <1>14, <1>15, <1>16, <1>17, <1>18, <1>19, <1>20, <1>21, <1>22, <1>23 DEF Next, MainStep, WorkerStep
-----------------------------------------------------------------------------
(***************************************************************************)
(* The theorems.                                                           *)
(***************************************************************************)

\* IInv holds in every state the command can be in.
THEOREM RunnerInvariant == Safety => []IInv
  BY InitIInv, IInvStep, PTL DEF Safety

\* Every variable of the runner has its type, whatever the number of workers, the
\* workloads, their weights and the executions of a worker; in particular the
\* channel never holds more results than there are workers (tpcc_runner.go:66).
THEOREM RunnerTypeCorrect == Safety => []TypeOK
  BY RunnerInvariant, PTL DEF IInv

\* prepareTPCCStatements reports success only for a run that lasted until its
\* deadline (tpcc_runner.go:90-103): an error that ended it, or the signal, is
\* never lost, although errors after the end of the run context are excused.
THEOREM SuccessTheorem == Safety => []SuccessMeansDeadline
  <1>1. IInv => SuccessMeansDeadline
    <2> SUFFICES ASSUME IInv, pc \in Ended, ~err PROVE runCtx = "deadline"
      BY DEF SuccessMeansDeadline, Ended
    <2>1. results = <<>> /\ \A i \in Workers : wpc[i] = "gone"
      BY DEF IInv, Phases
    <2>2. runCtx # "live"
      <3>1. 1 \in Workers
        BY Parameters DEF Workers
      <3> QED
        BY <2>1, <3>1 DEF IInv, RunEnds
    <2>3. runCtx # "worker"
      <3>1. \A i \in Workers : ~failure[i]
        BY <2>1 DEF IInv, RunEnds
      <3> QED
        BY <3>1 DEF IInv, RunEnds
    <2>4. runCtx \notin {"parent", "end"}
      BY DEF IInv, RunEnds
    <2> QED
      BY <2>2, <2>3, <2>4 DEF IInv, TypeOK
  <1> QED
    BY <1>1, RunnerInvariant, PTL

\* Once the workers are waited for, the total that the main goroutine has summed up
\* from the channel is the sum of the counters that the workers have incremented
\* one execution at a time (tpcc_runner.go:91-117).
THEOREM TotalsTheorem == Safety => []TotalsAgree
  <1>1. IInv => TotalsAgree
    <2> SUFFICES ASSUME IInv, pc \in {"ctxerr", "cleanup"} \cup Ended
                 PROVE  total = SumOver(counts, Workloads)
      BY DEF TotalsAgree, SumOver, Ended
    <2>1. Ids = {} /\ SumOver(counts, Workloads) = SumOver(Counted, Workers)
             /\ total = SumOver(runs, Collected)
      BY DEF IInv, Phases, Sums, Ids
    <2>2. CASE \A i \in Workers : wpc[i] = "gone"
      <3>1. Collected = Workers /\ \A i \in Workers : Counted[i] = runs[i]
        BY <2>1, <2>2 DEF Collected, Counted
      <3> QED
        BY <2>1, <3>1, FiniteSetsOfWorkers, SumSame
    <2>3. CASE \A i \in Workers : wpc[i] = "new"
      <3>1. Collected = {} /\ \A i \in Workers : Counted[i] = 0
        BY <2>3 DEF Collected, Counted, IInv, Sums
      <3>2. SumOver(Counted, Workers) = 0
        BY <3>1, FiniteSetsOfWorkers, SumZero
      <3>3. SumOver(runs, {}) = 0
        BY SumUnfold, FS_EmptySet
      <3> QED
        BY <2>1, <3>1, <3>2, <3>3
    <2> QED
      BY <2>2, <2>3 DEF IInv, Phases
  <1> QED
    BY <1>1, RunnerInvariant, PTL

\* Whatever the weights are, the picker that the workers are started with picks
\* every workload in proportion to its weight (tpcc_runner.go:20-44).
THEOREM ProportionTheorem == Safety => []EveryPickIsProportional
  <1>1. EveryPickIsProportional
    <2>1. \A n \in 1 .. Len(Weights) + 1 : n \in Nat \ {0}
      BY Parameters
    <2> QED
      BY <2>1, PickerTheorem, RunnerAssumption DEF EveryPickIsProportional
  <1> QED
    BY <1>1, PTL

\* Whichever way the command ends, every session it has opened is closed
\* (tpcc_runner.go:189-260, prepare.go:59).
THEOREM NoSessionTheorem == Safety => []NoSessionSurvives
  <1>1. IInv => NoSessionSurvives
    BY DEF IInv, TypeOK, SessionsHeld, NoSessionSurvives, Ended
  <1> QED
    BY <1>1, RunnerInvariant, PTL

\* No worker starts a query on a session in which a binding is missing
\* (tpcc_runner.go:189-229).
THEOREM BoundQueriesTheorem == Safety => QueriesRunBound
  <1>1. IInv /\ [Next]_vars =>
           [\A i \in Workers : wpc[i] = "loop" /\ wpc'[i] = "query" => bindings[i] = Workloads]_vars
    BY DEF IInv, SessionsHeld
  <1> QED
    BY <1>1, RunnerInvariant, PTL DEF Safety, QueriesRunBound
=============================================================================
