--------------------------- MODULE WeightedPicker ---------------------------
(***************************************************************************)
(* weightedTPCCPicker (prepare/tpcc_runner.go:20-44) and the weights it is *)
(* given (prepare/tpcc_queries.go:293-303).  Draws start at 0, workloads   *)
(* are numbered from 1.                                                    *)
(***************************************************************************)
EXTENDS Integers, Sequences, FiniteSetsExt

\* assignRandomWeights: the first n elements of a permutation of 1 .. max.
AssignedWeights(n, max) ==
    {weights \in [1 .. n -> 1 .. max] :
        \A i, j \in 1 .. n : weights[i] = weights[j] => i = j}

\* newWeightedTPCCPicker: cumulativeWeights, and the last of them, totalWeight.
CumulativeWeights(weights) ==
    LET upTo[i \in 0 .. Len(weights)] == IF i = 0 THEN 0 ELSE upTo[i - 1] + weights[i]
    IN [i \in 1 .. Len(weights) |-> upTo[i]]

TotalWeight(weights) == CumulativeWeights(weights)[Len(weights)]

\* What rand.IntN(picker.totalWeight) can return.
Draws(weights) == 0 .. TotalWeight(weights) - 1

\* Mutant: a draw on the boundary goes to the workload before it.
PickAtMost(weights, draw) ==
    Min({i \in 1 .. Len(weights) : draw <= CumulativeWeights(weights)[i]} \cup {Len(weights) + 1})

\* pick: sort.Search gives the first workload whose cumulative weight is above the
\* draw, or one past the last.
PickWorkload(weights, draw) ==
    Min({i \in 1 .. Len(weights) : draw < CumulativeWeights(weights)[i]} \cup {Len(weights) + 1})
-----------------------------------------------------------------------------
\* Over all weights that n workloads can be assigned, a draw always picks one of
\* them, and each is picked by as many draws as its weight: the probability is
\* `weight / total weight` (README.md:142-146).
PicksAreProportional(n, max) ==
    \A weights \in AssignedWeights(n, max) :
        /\ \A draw \in Draws(weights) : PickWorkload(weights, draw) \in 1 .. n
        /\ \A x \in 1 .. n :
              Cardinality({draw \in Draws(weights) : PickWorkload(weights, draw) = x}) = weights[x]
=============================================================================
