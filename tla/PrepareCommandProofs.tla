------------------------- MODULE PrepareCommandProofs -------------------------
(***************************************************************************)
(* Proofs about the prepare command: that a validated binding is gone      *)
(* (BindingValidation), that the fixture is exact and the schema ready     *)
(* (TableSchema), and that both hold of the command that runs one after    *)
(* the other and is run again over what it left (PrepareCommand).          *)
(*                                                                         *)
(* First the invariant of the validation; then the fixture: every row of   *)
(* it has one place, in one call, so a batch touches no row of another     *)
(* batch and the sizes add up; then the invariant of the schema; then the  *)
(* command, whose stages tell what the parts have reached.                 *)
(***************************************************************************)
EXTENDS PrepareCommand, DataLemmas

(***************************************************************************)
(* The invariant of the validation.                                        *)
(***************************************************************************)

\* The hint of a workload has been tried, and the other one if it changed nothing.
Judged(x) == planOf[x][hint[x]] # "forced" => \A h \in Hints : planOf[x][h] = "natural"

\* A binding is that of the trial under way, on a session that lives; after a failure
\* it is there only if the DROP failed as well.
OneBound ==
    /\ \A x \in Workloads : bound[x] # "none" =>
          /\ x = w /\ bound[x] = trial /\ alive
          /\ pc \in {"explain", "drop", "deferred", "failed"}
          /\ pc = "failed" => dropFailed
    /\ alive /\ pc \in {"explain", "drop"} => bound[w] = trial

\* What is known of the plans of the workload while its hints are tried.
TrialKnown ==
    /\ pc \in {"create", "explain", "drop", "compare"} =>
          /\ natural = "natural"
          /\ IF retrying THEN trial # hint[w] /\ planOf[w][hint[w]] = "natural"
                         ELSE trial = hint[w]
    /\ pc \in {"drop", "compare"} => result = planOf[w][trial] /\ result \in Plans

\* The workloads before the current one have their hints for good.
JudgedSoFar ==
    /\ \A x \in Workloads : x < w => Judged(x)
    /\ pc = "done" => \A x \in Workloads : Judged(x)

BindingInv == TypeOK /\ OneBound /\ TrialKnown /\ JudgedSoFar
-----------------------------------------------------------------------------
\* The two hints are different, and each is the alternate of the other.
LEMMA AlternateHint ==
  ASSUME NEW h \in Hints
  PROVE  Alternate(h) \in Hints /\ Alternate(h) # h /\ Hints = {h, Alternate(h)}
  <1>1. \E g \in Hints : g # h
    BY DEF Hints
  <1>2. Alternate(h) \in Hints /\ Alternate(h) # h
    BY <1>1 DEF Alternate
  <1> QED
    BY <1>2 DEF Hints

\* Nothing is bound and nothing is known.
LEMMA InitBindingInv == Init => BindingInv
  <1> SUFFICES ASSUME Init PROVE BindingInv
    OBVIOUS
  <1> USE NAssumption DEF Init, Workloads
  <1>1. TypeOK
    <2>1. planOf \in [Workloads -> [Hints -> Plans \cup {"unseen"}]]
      OBVIOUS
    <2>2. bound \in [Workloads -> Hints \cup {"none"}] /\ w \in Workloads /\ hint \in [Workloads -> Hints]
      OBVIOUS
    <2> QED
      BY <2>1, <2>2 DEF TypeOK, Hints, Plans, Points
  <1>2. OneBound /\ TrialKnown /\ JudgedSoFar
    BY DEF OneBound, TrialKnown, JudgedSoFar
  <1> QED
    BY <1>1, <1>2 DEF BindingInv

\* Every step of the validation keeps its invariant.
LEMMA BindingInvStep == BindingInv /\ [Next]_vars => BindingInv'
  <1> SUFFICES ASSUME BindingInv, [Next]_vars PROVE BindingInv'
    OBVIOUS
  <1> USE DEF BindingInv, TypeOK, Plans, Points, session, StatementFails, StatementSucceeds
  <1>1. ASSUME NaturalFails PROVE BindingInv'
    <2> USE <1>1, NAssumption DEF NaturalFails
    <2>1. TypeOK'
      OBVIOUS
    <2>2. OneBound'
      BY DEF OneBound
    <2>3. TrialKnown'
      BY DEF TrialKnown, OneBound
    <2>4. JudgedSoFar'
      BY DEF JudgedSoFar, Judged, OneBound, TrialKnown
    <2> QED
      BY <2>1, <2>2, <2>3, <2>4
  <1>2. ASSUME ExplainNatural PROVE BindingInv'
    <2> USE <1>2, NAssumption DEF ExplainNatural, Explain
    <2>0. bound[w] = "none" /\ natural' = "natural" /\ planOf' = planOf
      BY DEF OneBound
    <2>1. TypeOK'
      BY <2>0
    <2>2. OneBound'
      BY <2>0 DEF OneBound
    <2>3. TrialKnown'
      BY <2>0 DEF TrialKnown
    <2>4. JudgedSoFar'
      BY <2>0 DEF JudgedSoFar, Judged
    <2> QED
      BY <2>1, <2>2, <2>3, <2>4
  <1>3. ASSUME CreateFails PROVE BindingInv'
    <2> USE <1>3, NAssumption DEF CreateFails
    <2>1. TypeOK'
      OBVIOUS
    <2>2. OneBound'
      BY DEF OneBound
    <2>3. TrialKnown'
      BY DEF TrialKnown, OneBound
    <2>4. JudgedSoFar'
      BY DEF JudgedSoFar, Judged, OneBound, TrialKnown
    <2> QED
      BY <2>1, <2>2, <2>3, <2>4
  <1>4. ASSUME CreateBinding PROVE BindingInv'
    <2> USE <1>4, NAssumption DEF CreateBinding
    <2>1. TypeOK'
      OBVIOUS
    <2>2. OneBound'
      BY DEF OneBound
    <2>3. TrialKnown'
      BY DEF TrialKnown, OneBound
    <2>4. JudgedSoFar'
      BY DEF JudgedSoFar, Judged, OneBound, TrialKnown
    <2> QED
      BY <2>1, <2>2, <2>3, <2>4
  <1>5. ASSUME ExplainFails PROVE BindingInv'
    <2> USE <1>5, NAssumption DEF ExplainFails
    <2>1. TypeOK'
      OBVIOUS
    <2>2. OneBound'
      BY DEF OneBound
    <2>3. TrialKnown'
      BY DEF TrialKnown, OneBound
    <2>4. JudgedSoFar'
      BY DEF JudgedSoFar, Judged, OneBound, TrialKnown
    <2> QED
      BY <2>1, <2>2, <2>3, <2>4
  <1>6. ASSUME ExplainBound PROVE BindingInv'
    <2> USE <1>6, NAssumption DEF ExplainBound, Explain
    <2>0. /\ bound[w] = trial /\ trial \in Hints /\ w \in Workloads
          /\ \E plan \in {"natural", "forced"} :
                /\ planOf[w][trial] \in {"unseen", plan} /\ result' = plan
                /\ planOf' = [planOf EXCEPT ![w][trial] = plan]
      <3>1. bound[w] = trial /\ trial \in Hints /\ trial # "none"
        BY DEF OneBound, Hints
      <3> QED
        BY <3>1
    <2>a. /\ \A x \in Workloads \ {w} : planOf'[x] = planOf[x]
          /\ \A h \in Hints \ {trial} : planOf'[w][h] = planOf[w][h]
          /\ planOf'[w][trial] = result' /\ result' \in {"natural", "forced"}
      BY <2>0
    <2>1. TypeOK'
      <3>1. planOf' \in [Workloads -> [Hints -> {"natural", "forced"} \cup {"unseen"}]]
        BY <2>0
      <3> QED
        BY <2>a, <3>1
    <2>2. OneBound'
      BY DEF OneBound
    <2>3. TrialKnown'
      BY <2>0, <2>a DEF TrialKnown
    <2>4. JudgedSoFar'
      BY <2>a DEF JudgedSoFar, Judged
    <2> QED
      BY <2>1, <2>2, <2>3, <2>4
  <1>7. ASSUME DropFails PROVE BindingInv'
    <2> USE <1>7, NAssumption DEF DropFails
    <2>1. TypeOK'
      OBVIOUS
    <2>2. OneBound'
      BY DEF OneBound
    <2>3. TrialKnown'
      BY DEF TrialKnown, OneBound
    <2>4. JudgedSoFar'
      BY DEF JudgedSoFar, Judged, OneBound, TrialKnown
    <2> QED
      BY <2>1, <2>2, <2>3, <2>4
  <1>8. ASSUME DropBinding PROVE BindingInv'
    <2> USE <1>8, NAssumption DEF DropBinding
    <2>1. TypeOK'
      OBVIOUS
    <2>2. OneBound'
      BY DEF OneBound
    <2>3. TrialKnown'
      BY DEF TrialKnown, OneBound
    <2>4. JudgedSoFar'
      BY DEF JudgedSoFar, Judged, OneBound, TrialKnown
    <2> QED
      BY <2>1, <2>2, <2>3, <2>4
  <1>9. ASSUME DeferredDrop PROVE BindingInv'
    <2> USE <1>9, NAssumption DEF DeferredDrop
    <2>1. TypeOK'
      OBVIOUS
    <2>2. OneBound'
      BY DEF OneBound
    <2>3. TrialKnown'
      BY DEF TrialKnown, OneBound
    <2>4. JudgedSoFar'
      BY DEF JudgedSoFar, Judged, OneBound, TrialKnown
    <2> QED
      BY <2>1, <2>2, <2>3, <2>4
  <1>10. ASSUME KeepHint PROVE BindingInv'
    <2> USE <1>10, NAssumption DEF KeepHint, NextWorkload, Workloads
    <2>1. TypeOK'
      OBVIOUS
    <2>2. OneBound'
      BY DEF OneBound
    <2>3. TrialKnown'
      BY DEF TrialKnown, OneBound
    <2>4. JudgedSoFar'
      <3>1. planOf'[w][hint'[w]] = "forced"
        BY DEF TrialKnown
      <3>2. ASSUME NEW x \in Workloads, x <= w PROVE Judged(x)'
        <4>1. CASE x = w
          BY <3>1, <4>1 DEF Judged
        <4>2. CASE x < w
          BY <4>2 DEF JudgedSoFar, Judged
        <4> QED
          BY <3>2, <4>1, <4>2
      <3>3. \A x \in Workloads : x < w' \/ pc' = "done" => x <= w
        OBVIOUS
      <3> QED
        BY <3>2, <3>3 DEF JudgedSoFar
    <2> QED
      BY <2>1, <2>2, <2>3, <2>4
  <1>11. ASSUME RetryAlternate PROVE BindingInv'
    <2> USE <1>11, NAssumption DEF RetryAlternate
    <2>0. trial' \in Hints /\ trial' # trial
      BY AlternateHint
    <2>1. TypeOK'
      BY <2>0
    <2>2. OneBound'
      BY DEF OneBound
    <2>3. TrialKnown'
      BY <2>0 DEF TrialKnown
    <2>4. JudgedSoFar'
      BY DEF JudgedSoFar, Judged, OneBound, TrialKnown
    <2> QED
      BY <2>1, <2>2, <2>3, <2>4
  <1>12. ASSUME WarnSamePlan PROVE BindingInv'
    <2> USE <1>12, NAssumption DEF WarnSamePlan, NextWorkload, Workloads
    <2>1. TypeOK'
      OBVIOUS
    <2>2. OneBound'
      BY DEF OneBound
    <2>3. TrialKnown'
      BY DEF TrialKnown, OneBound
    <2>4. JudgedSoFar'
      <3>1. \A h \in Hints : planOf[w][h] = "natural"
        <4>1. trial # hint[w] /\ planOf[w][hint[w]] = "natural" /\ planOf[w][trial] = "natural"
          BY DEF TrialKnown
        <4>2. hint[w] \in Hints /\ trial \in Hints
          OBVIOUS
        <4> QED
          BY ONLY <4>1, <4>2, AlternateHint
      <3>2. ASSUME NEW x \in Workloads, x <= w PROVE Judged(x)'
        <4>1. CASE x = w
          BY <3>1, <4>1 DEF Judged
        <4>2. CASE x < w
          BY <4>2 DEF JudgedSoFar, Judged
        <4> QED
          BY <3>2, <4>1, <4>2
      <3>3. \A x \in Workloads : x < w' \/ pc' = "done" => x <= w
        OBVIOUS
      <3> QED
        BY <3>2, <3>3 DEF JudgedSoFar
    <2> QED
      BY <2>1, <2>2, <2>3, <2>4
  <1>13. CASE UNCHANGED vars
    BY <1>13 DEF vars, OneBound, TrialKnown, JudgedSoFar, Judged
  <1> QED
    BY <1>1, <1>2, <1>3, <1>4, <1>5, <1>6, <1>7, <1>8, <1>9, <1>10, <1>11, <1>12, <1>13 DEF Next
-----------------------------------------------------------------------------
(***************************************************************************)
(* The fixture: every row of it has one place.                             *)
(***************************************************************************)

\* The calls of insertRows, the table of each, and the places of its rows.
Calls == 1 .. SeedCalls
TableOf(c) == SeedCall(c).table
Places(c) == 1 .. Len(RowsOfCall[c])

\* How many rows a call for a table is given.
RowCount(t) ==
    CASE t = "warehouse" -> Warehouses
      [] t = "district" -> Warehouses * Districts
      [] t = "item" -> Items
      [] t \in {"customer", "orders"} -> Customers
      [] t = "new_order" -> Customers - Delivered
      [] t = "order_line" -> Customers * LinesPerOrder
      [] t = "stock" -> Items

\* The tables that are seeded once, and those seeded for every warehouse.
Once == {"warehouse", "district", "item"}
PerWarehouse == {"customer", "orders", "new_order", "order_line", "stock"}

\* The sizes of the fixture are positive numbers.
LEMMA Sizes ==
  /\ Warehouses \in Nat \ {0} /\ Districts \in Nat \ {0} /\ Customers \in Nat \ {0}
  /\ Orders \in Nat \ {0} /\ LinesPerOrder \in Nat \ {0} /\ Items \in Nat \ {0}
  /\ BatchSize \in Nat \ {0} /\ MaxCommands \in Nat \ {0}
  /\ Customers = Orders /\ Orders % 10 = 0
  BY FixtureAssumption

\* Seven tenths of the orders are delivered, and the new orders are the other three.
LEMMA NewOrders == Delivered \in 0 .. Customers /\ Customers - Delivered = (Orders * 3) \div 10
  <1>1. PICK k \in Nat : Orders = 10 * k
    <2>1. Orders = 10 * (Orders \div 10) + (Orders % 10) /\ Orders \div 10 \in Nat
      BY Sizes
    <2> QED
      BY <2>1, Sizes
  <1>2. (Orders * 7) \div 10 = 7 * k /\ (Orders * 3) \div 10 = 3 * k
    BY <1>1
  <1> QED
    BY <1>1, <1>2, Sizes DEF Delivered

\* The tables by name, and the two lists by their length.
LEMMA TableList ==
  /\ Len(TableOrder) = 9 /\ Len(AnalyzeOrder) = 7
  /\ Tables = Once \cup PerWarehouse \cup {"history"}
  /\ \A i \in 1 .. 9 : TableOrder[i] \in Tables
  /\ \A t \in Tables : \E i \in 1 .. 9 : t = TableOrder[i]
  /\ \A i \in 1 .. 7 : AnalyzeOrder[i] \in Tables
  /\ \A t \in Seeded \ {"new_order"} : \E i \in 1 .. 7 : t = AnalyzeOrder[i]
  <1>1. Len(TableOrder) = 9 /\ Len(AnalyzeOrder) = 7
    BY DEF TableOrder, AnalyzeOrder
  <1>2. /\ TableOrder[1] = "warehouse" /\ TableOrder[2] = "district" /\ TableOrder[3] = "customer"
        /\ TableOrder[4] = "history" /\ TableOrder[5] = "new_order" /\ TableOrder[6] = "orders"
        /\ TableOrder[7] = "order_line" /\ TableOrder[8] = "stock" /\ TableOrder[9] = "item"
    BY DEF TableOrder
  <1>3. /\ AnalyzeOrder[1] = "warehouse" /\ AnalyzeOrder[2] = "district"
        /\ AnalyzeOrder[3] = "customer" /\ AnalyzeOrder[4] = "orders"
        /\ AnalyzeOrder[5] = "order_line" /\ AnalyzeOrder[6] = "stock" /\ AnalyzeOrder[7] = "item"
    BY DEF AnalyzeOrder
  <1>4. \A i \in 1 .. 9 : i \in {1, 2, 3, 4, 5, 6, 7, 8, 9}
    OBVIOUS
  <1>5. Tables = {TableOrder[i] : i \in 1 .. 9}
    BY <1>1 DEF Tables
  <1>6. Tables = Once \cup PerWarehouse \cup {"history"}
    <2>1. Tables \subseteq Once \cup PerWarehouse \cup {"history"}
      BY <1>2, <1>4, <1>5 DEF Once, PerWarehouse
    <2>2. Once \cup PerWarehouse \cup {"history"} \subseteq Tables
      BY <1>2, <1>5 DEF Once, PerWarehouse
    <2> QED
      BY <2>1, <2>2
  <1>7. \A i \in 1 .. 7 : AnalyzeOrder[i] \in Tables
    <2>1. \A i \in 1 .. 7 : i \in {1, 2, 3, 4, 5, 6, 7}
      OBVIOUS
    <2> QED
      BY <1>3, <1>6, <2>1 DEF Once, PerWarehouse
  <1>8. \A t \in Seeded \ {"new_order"} : \E i \in 1 .. 7 : t = AnalyzeOrder[i]
    BY <1>3, <1>6 DEF Seeded, Once, PerWarehouse
  <1> QED
    BY <1>1, <1>5, <1>6, <1>7, <1>8

\* Which table, and which warehouse, call c is for.
LEMMA CallList ==
  ASSUME NEW c \in Calls
  PROVE  /\ c \in Nat \ {0}
         /\ c = 1 => TableOf(c) = "warehouse"
         /\ c = 2 => TableOf(c) = "district"
         /\ c = 3 => TableOf(c) = "item"
         /\ c > 3 => /\ SeedCall(c).warehouse \in 1 .. Warehouses
                     /\ \E j \in 0 .. 4 :
                           /\ c = 4 + 5 * (SeedCall(c).warehouse - 1) + j
                           /\ j = 0 => TableOf(c) = "customer"
                           /\ j = 1 => TableOf(c) = "orders"
                           /\ j = 2 => TableOf(c) = "new_order"
                           /\ j = 3 => TableOf(c) = "order_line"
                           /\ j = 4 => TableOf(c) = "stock"
  <1>1. c \in Nat /\ c > 0 /\ c <= 3 + 5 * Warehouses
    BY Sizes DEF Calls, SeedCalls
  <1>2. c <= 3 => TableOf(c) = <<"warehouse", "district", "item">>[c]
    BY DEF TableOf, SeedCall
  <1>3. ASSUME c > 3
        PROVE  /\ SeedCall(c).warehouse = (c - 4) \div 5 + 1
               /\ TableOf(c) = <<"customer", "orders", "new_order", "order_line", "stock">>[((c - 4) % 5) + 1]
    BY <1>1, <1>3 DEF TableOf, SeedCall
  <1>4. ASSUME c > 3
        PROVE  /\ (c - 4) \div 5 \in 0 .. (Warehouses - 1) /\ (c - 4) % 5 \in 0 .. 4
               /\ c - 4 = 5 * ((c - 4) \div 5) + ((c - 4) % 5)
    BY <1>1, <1>4, Sizes
  <1>5. ASSUME c > 3
        PROVE  /\ SeedCall(c).warehouse \in 1 .. Warehouses
               /\ \E j \in 0 .. 4 :
                     /\ c = 4 + 5 * (SeedCall(c).warehouse - 1) + j
                     /\ TableOf(c) = <<"customer", "orders", "new_order", "order_line", "stock">>[j + 1]
    <2> DEFINE q == (c - 4) \div 5
               r == (c - 4) % 5
    <2>1. q \in 0 .. (Warehouses - 1) /\ r \in 0 .. 4 /\ c - 4 = 5 * q + r
      BY <1>4, <1>5
    <2>2. /\ SeedCall(c).warehouse = q + 1
          /\ TableOf(c) = <<"customer", "orders", "new_order", "order_line", "stock">>[r + 1]
      BY <1>3, <1>5
    <2> HIDE DEF q, r
    <2> QED
      BY <1>1, <2>1, <2>2, Sizes
  <1> QED
    BY <1>1, <1>2, <1>5

\* What a table's calls are is told by the table.
LEMMA CallOf ==
  ASSUME NEW c \in Calls
  PROVE  /\ TableOf(c) \in Once \cup PerWarehouse /\ TableOf(c) \in Tables
         /\ c <= 3 <=> TableOf(c) \in Once
  <1>1. c <= 3 => c \in {1, 2, 3}
    BY CallList
  <1>2. c <= 3 => TableOf(c) \in Once
    BY <1>1, CallList DEF Once
  <1>3. c > 3 => TableOf(c) \in PerWarehouse /\ TableOf(c) \notin Once
    BY CallList DEF PerWarehouse, Once
  <1>4. TableOf(c) \in Once \cup PerWarehouse
    BY <1>2, <1>3, CallList
  <1> QED
    BY <1>2, <1>3, <1>4, CallList, TableList

\* A table has one call, or one for each warehouse.
LEMMA OneCall ==
  ASSUME NEW c \in Calls, NEW d \in Calls, TableOf(c) = TableOf(d),
         c > 3 => SeedCall(c).warehouse = SeedCall(d).warehouse
  PROVE  c = d
  <1>1. CASE c <= 3
    <2>1. c \in {1, 2, 3} /\ d \in {1, 2, 3}
      BY <1>1, CallList, CallOf
    <2> QED
      BY <2>1, CallList
  <1>2. CASE c > 3
    <2>1. d > 3
      BY <1>2, CallList, CallOf
    <2>2. PICK v \in 1 .. Warehouses, j \in 0 .. 4 :
             /\ c = 4 + 5 * (v - 1) + j /\ v = SeedCall(c).warehouse
             /\ TableOf(c) = <<"customer", "orders", "new_order", "order_line", "stock">>[j + 1]
      BY <1>2, CallList
    <2>3. PICK u \in 1 .. Warehouses, k \in 0 .. 4 :
             /\ d = 4 + 5 * (u - 1) + k /\ u = SeedCall(d).warehouse
             /\ TableOf(d) = <<"customer", "orders", "new_order", "order_line", "stock">>[k + 1]
      BY <2>1, CallList
    <2>4. j = k
      BY <2>2, <2>3
    <2> QED
      BY <1>2, <2>2, <2>3, <2>4
  <1> QED
    BY <1>1, <1>2, CallList

\* A function from 1 .. n is a sequence of that length.
LEMMA FunctionLength ==
  ASSUME NEW n \in Nat, NEW f, f = [i \in 1 .. n |-> f[i]]
  PROVE  Len(f) = n
  <1>1. f \in [1 .. n -> {f[i] : i \in 1 .. n}]
    OBVIOUS
  <1> QED
    BY <1>1

\* A call is given a number of rows, ...
LEMMA RowCounts ==
  ASSUME NEW t \in Once \cup PerWarehouse
  PROVE  RowCount(t) \in Nat
  BY Sizes, NewOrders DEF RowCount, Once, PerWarehouse

\* ... which is the length of its list, ...
LEMMA RowsOfLength ==
  ASSUME NEW t \in Once \cup PerWarehouse, NEW v
  PROVE  Len(RowsOf(t, v)) = RowCount(t)
  <1> DEFINE f == RowsOf(t, v)
  <1>1. f = [i \in 1 .. RowCount(t) |-> f[i]]
    BY DEF RowsOf, RowCount, Once, PerWarehouse
  <1> HIDE DEF f
  <1> QED
    BY <1>1, RowCounts, FunctionLength DEF f

\* ... so that is how many places the call has.
LEMMA PlacesOf ==
  ASSUME NEW c \in Calls
  PROVE  /\ RowCount(TableOf(c)) \in Nat
         /\ Len(RowsOfCall[c]) = RowCount(TableOf(c))
         /\ Places(c) = 1 .. RowCount(TableOf(c))
         /\ RowsOfCall[c] = RowsOf(TableOf(c), SeedCall(c).warehouse)
  BY CallOf, RowCounts, RowsOfLength DEF Places, RowsOfCall, Calls, TableOf

\* A number is told by its quotient and remainder.
LEMMA QuotientAndRest ==
  ASSUME NEW a \in Nat, NEW b \in Nat, NEW d \in Nat \ {0},
         a \div d = b \div d, a % d = b % d
  PROVE  a = b
  <1>1. a = d * (a \div d) + (a % d) /\ b = d * (b \div d) + (b % d)
    OBVIOUS
  <1> QED
    BY <1>1

\* Every place of a call holds a row of its own, ...
LEMMA RowsOfDiffer ==
  ASSUME NEW t \in Once \cup PerWarehouse, NEW v, NEW u,
         NEW i \in 1 .. RowCount(t), NEW j \in 1 .. RowCount(t),
         RowsOf(t, v)[i] = RowsOf(t, u)[j]
  PROVE  i = j /\ (t \in PerWarehouse => v = u)
  <1> USE Sizes DEF Once, PerWarehouse
  <1>1. CASE t = "warehouse"
    BY <1>1 DEF RowsOf, RowCount
  <1>2. CASE t = "item"
    BY <1>2 DEF RowsOf, RowCount
  <1>3. CASE t \in {"customer", "orders"}
    BY <1>3 DEF RowsOf, RowCount
  <1>4. CASE t = "stock"
    BY <1>4 DEF RowsOf, RowCount
  <1>5. CASE t = "new_order"
    BY <1>5, NewOrders DEF RowsOf, RowCount
  <1>6. CASE t = "district"
    <2>1. i \in Nat \ {0} /\ j \in Nat \ {0}
      BY RowCounts
    <2>2. /\ (i - 1) \div Districts + 1 = (j - 1) \div Districts + 1
          /\ ((i - 1) % Districts) + 1 = ((j - 1) % Districts) + 1
      BY <1>6 DEF RowsOf, RowCount
    <2>3. /\ (i - 1) \div Districts \in Int /\ (j - 1) \div Districts \in Int
          /\ (i - 1) % Districts \in Int /\ (j - 1) % Districts \in Int
      BY <2>1
    <2>4. (i - 1) \div Districts = (j - 1) \div Districts /\ (i - 1) % Districts = (j - 1) % Districts
      BY <2>2, <2>3
    <2>5. i - 1 \in Nat /\ j - 1 \in Nat
      BY <2>1
    <2>6. i - 1 = j - 1
      BY <2>4, <2>5, QuotientAndRest
    <2> QED
      BY <1>6, <2>1, <2>6
  <1>7. CASE t = "order_line"
    <2>1. i \in Nat \ {0} /\ j \in Nat \ {0}
      BY RowCounts
    <2>2. /\ (i - 1) \div LinesPerOrder + 1 = (j - 1) \div LinesPerOrder + 1
          /\ ((i - 1) % LinesPerOrder) + 1 = ((j - 1) % LinesPerOrder) + 1
          /\ v = u
      BY <1>7 DEF RowsOf, RowCount
    <2>3. /\ (i - 1) \div LinesPerOrder \in Int /\ (j - 1) \div LinesPerOrder \in Int
          /\ (i - 1) % LinesPerOrder \in Int /\ (j - 1) % LinesPerOrder \in Int
      BY <2>1
    <2>4. /\ (i - 1) \div LinesPerOrder = (j - 1) \div LinesPerOrder
          /\ (i - 1) % LinesPerOrder = (j - 1) % LinesPerOrder
      BY <2>2, <2>3
    <2>5. i - 1 \in Nat /\ j - 1 \in Nat
      BY <2>1
    <2>6. i - 1 = j - 1
      BY <2>4, <2>5, QuotientAndRest
    <2> QED
      BY <1>7, <2>1, <2>2, <2>6
  <1> QED
    BY <1>1, <1>2, <1>3, <1>4, <1>5, <1>6, <1>7

\* ... which no other place holds for the same table.
LEMMA OnePlace ==
  ASSUME NEW c \in Calls, NEW d \in Calls, TableOf(c) = TableOf(d),
         NEW i \in Places(c), NEW j \in Places(d), RowsOfCall[c][i] = RowsOfCall[d][j]
  PROVE  c = d /\ i = j
  <1> DEFINE t == TableOf(c)
             v == SeedCall(c).warehouse
             u == SeedCall(d).warehouse
  <1>1. /\ t \in Once \cup PerWarehouse /\ i \in 1 .. RowCount(t) /\ j \in 1 .. RowCount(t)
        /\ RowsOf(t, v)[i] = RowsOf(t, u)[j]
    BY CallOf, PlacesOf
  <1>2. c > 3 => t \in PerWarehouse
    BY CallList, CallOf
  <1> HIDE DEF t, v, u
  <1>3. i = j /\ (t \in PerWarehouse => v = u)
    BY <1>1, RowsOfDiffer
  <1>4. c = d
    BY <1>2, <1>3, OneCall DEF v, u
  <1> QED
    BY <1>3, <1>4

\* The fixture of a table is what its calls are given.
LEMMA FixtureRows ==
  ASSUME NEW t \in Tables
  PROVE  /\ \A c \in Calls : TableOf(c) = t => \A i \in Places(c) : RowsOfCall[c][i] \in Fixture[t]
         /\ \A k \in Fixture[t] : \E c \in Calls : TableOf(c) = t /\ \E i \in Places(c) : k = RowsOfCall[c][i]
  BY DEF Fixture, Calls, TableOf, Places
-----------------------------------------------------------------------------
(***************************************************************************)
(* The size of the fixture.                                                *)
(***************************************************************************)

\* The calls for one table.
CallsFor(t) == {c \in Calls : TableOf(c) = t}

\* The calls for the five tables of a warehouse follow one another.
LEMMA CallAt ==
  ASSUME NEW v \in 1 .. Warehouses, NEW j \in 0 .. 4
  PROVE  /\ 4 + 5 * (v - 1) + j \in Calls
         /\ SeedCall(4 + 5 * (v - 1) + j).warehouse = v
         /\ TableOf(4 + 5 * (v - 1) + j)
               = <<"customer", "orders", "new_order", "order_line", "stock">>[j + 1]
  <1> DEFINE c == 4 + 5 * (v - 1) + j
  <1>1. c \in Int /\ c > 3 /\ c <= 3 + 5 * Warehouses /\ v \in Nat
    BY Sizes
  <1>2. (c - 4) \div 5 = v - 1 /\ (c - 4) % 5 = j
    BY <1>1
  <1> HIDE DEF c
  <1>3. /\ SeedCall(c).warehouse = (c - 4) \div 5 + 1
        /\ TableOf(c) = <<"customer", "orders", "new_order", "order_line", "stock">>[((c - 4) % 5) + 1]
    BY <1>1 DEF TableOf, SeedCall
  <1>4. c \in Calls
    BY <1>1, Sizes DEF Calls, SeedCalls
  <1> QED
    BY <1>1, <1>2, <1>3, <1>4 DEF c

\* One call for each table of its own, and one of every warehouse for the others.
LEMMA CallCount ==
  ASSUME NEW t \in Once \cup PerWarehouse
  PROVE  /\ IsFiniteSet(CallsFor(t))
         /\ Cardinality(CallsFor(t)) = IF t \in Once THEN 1 ELSE Warehouses
  <1>1. CASE t \in Once
    <2>1. PICK c \in Calls : TableOf(c) = t
      <3>1. 1 \in Calls /\ 2 \in Calls /\ 3 \in Calls
        BY Sizes DEF Calls, SeedCalls
      <3> QED
        BY <1>1, <3>1, CallList DEF Once
    <2>2. \A d \in Calls : TableOf(d) = t => d = c
      <3>1. c <= 3
        BY <1>1, <2>1, CallOf
      <3> QED
        BY <2>1, <3>1, CallList, OneCall
    <2>3. CallsFor(t) = {c}
      BY <2>1, <2>2 DEF CallsFor
    <2> QED
      BY <1>1, <2>3, FS_Singleton
  <1>2. CASE t \notin Once
    <2>1. PICK j \in 0 .. 4 :
             t = <<"customer", "orders", "new_order", "order_line", "stock">>[j + 1]
      <3> DEFINE list == <<"customer", "orders", "new_order", "order_line", "stock">>
      <3>1. /\ list[0 + 1] = "customer" /\ list[1 + 1] = "orders" /\ list[2 + 1] = "new_order"
            /\ list[3 + 1] = "order_line" /\ list[4 + 1] = "stock"
        OBVIOUS
      <3>2. 0 \in 0 .. 4 /\ 1 \in 0 .. 4 /\ 2 \in 0 .. 4 /\ 3 \in 0 .. 4 /\ 4 \in 0 .. 4
        OBVIOUS
      <3> HIDE DEF list
      <3>3. \E j \in 0 .. 4 : t = list[j + 1]
        BY <1>2, <3>1, <3>2 DEF PerWarehouse
      <3> QED
        BY <3>3 DEF list
    <2> DEFINE f == [v \in 1 .. Warehouses |-> 4 + 5 * (v - 1) + j]
    <2>2. f \in [1 .. Warehouses -> CallsFor(t)]
      BY <2>1, CallAt DEF CallsFor
    <2>3. \A v, u \in 1 .. Warehouses : f[v] = f[u] => v = u
      BY CallAt
    <2>4. \A c \in CallsFor(t) : \E v \in 1 .. Warehouses : f[v] = c
      <3> SUFFICES ASSUME NEW c \in Calls, TableOf(c) = t
                   PROVE  \E v \in 1 .. Warehouses : f[v] = c
        BY DEF CallsFor
      <3> DEFINE v == SeedCall(c).warehouse
      <3>1. c > 3
        BY <1>2, CallList, CallOf
      <3>2. v \in 1 .. Warehouses
        BY <3>1, CallList
      <3>3. f[v] \in Calls /\ TableOf(f[v]) = t /\ SeedCall(f[v]).warehouse = v
        BY <2>1, <3>2, CallAt
      <3>4. f[v] = c
        BY <3>3, OneCall
      <3> QED
        BY <3>2, <3>4
    <2>5. IsFiniteSet(1 .. Warehouses) /\ Cardinality(1 .. Warehouses) = Warehouses
      BY Sizes, FS_Interval
    <2> HIDE DEF f
    <2>6. IsFiniteSet(CallsFor(t)) /\ Cardinality(CallsFor(t)) = Cardinality(1 .. Warehouses)
      BY <2>2, <2>3, <2>4, <2>5, SameSize
    <2> QED
      BY <1>2, <2>5, <2>6
  <1> QED
    BY <1>1, <1>2

\* No two places hold the same row, so there are as many rows as places.
LEMMA FixtureSize ==
  ASSUME NEW t \in Once \cup PerWarehouse
  PROVE  /\ IsFiniteSet(Fixture[t])
         /\ Cardinality(Fixture[t]) = (IF t \in Once THEN 1 ELSE Warehouses) * RowCount(t)
  <1> DEFINE S == CallsFor(t) \X (1 .. RowCount(t))
             f == [p \in S |-> RowsOfCall[p[1]][p[2]]]
  <1>0. t \in Tables
    BY TableList
  <1>1. IsFiniteSet(S) /\ Cardinality(S) = Cardinality(CallsFor(t)) * RowCount(t)
    <2>1. IsFiniteSet(1 .. RowCount(t)) /\ Cardinality(1 .. RowCount(t)) = RowCount(t)
      BY RowCounts, FS_Interval
    <2> QED
      BY <2>1, CallCount, FS_Product
  <1>2. ASSUME NEW p \in S
        PROVE  /\ p[1] \in Calls /\ TableOf(p[1]) = t /\ p[2] \in Places(p[1])
               /\ p = <<p[1], p[2]>>
    BY PlacesOf DEF CallsFor
  <1>3. f \in [S -> Fixture[t]]
    <2>1. \A p \in S : RowsOfCall[p[1]][p[2]] \in Fixture[t]
      BY <1>0, <1>2, FixtureRows
    <2> QED
      BY <2>1
  <1>4. \A p, q \in S : f[p] = f[q] => p = q
    <2> SUFFICES ASSUME NEW p \in S, NEW q \in S, f[p] = f[q] PROVE p = q
      OBVIOUS
    <2>1. RowsOfCall[p[1]][p[2]] = RowsOfCall[q[1]][q[2]]
      OBVIOUS
    <2>2. p[1] = q[1] /\ p[2] = q[2]
      BY <1>2, <2>1, OnePlace
    <2> QED
      BY <1>2, <2>2
  <1>5. \A k \in Fixture[t] : \E p \in S : f[p] = k
    <2> SUFFICES ASSUME NEW k \in Fixture[t] PROVE \E p \in S : f[p] = k
      OBVIOUS
    <2>0. PICK c \in Calls : TableOf(c) = t /\ \E i \in Places(c) : k = RowsOfCall[c][i]
      BY <1>0, FixtureRows
    <2>1. PICK i \in Places(c) : TableOf(c) = t /\ k = RowsOfCall[c][i]
      BY <2>0
    <2>2. <<c, i>> \in S
      BY <2>1, PlacesOf DEF CallsFor
    <2> QED
      BY <2>1, <2>2
  <1> HIDE DEF S, f
  <1>6. IsFiniteSet(Fixture[t]) /\ Cardinality(Fixture[t]) = Cardinality(S)
    BY <1>1, <1>3, <1>4, <1>5, SameSize
  <1> QED
    BY <1>1, <1>6, CallCount

\* The row count that is logged (tpcc_schema.go:77-83) is the number of rows of the
\* fixture.
LEMMA FixtureTotal ==
  FixtureRowCount = MapThenSumSet(LAMBDA t : Cardinality(Fixture[t]), Tables)
  <1> DEFINE f == [t \in Tables |-> Cardinality(Fixture[t])]
             Step(g, s) == IF s = {} THEN 0
                           ELSE Cardinality(Fixture[AnyOf(s)]) + g[s \ {AnyOf(s)}]
             h == CHOOSE g : g = [s \in SUBSET Tables |-> Step(g, s)]
  <1>1. MapThenSumSet(LAMBDA t : Cardinality(Fixture[t]), Tables) = h[Tables]
    BY DEF MapThenSumSet, MapThenFoldSet, AnyOf
  <1>2. IsFiniteSet(Tables)
    <2>1. IsFiniteSet({}) /\ Tables = {"warehouse", "district", "item", "customer", "orders",
                                       "new_order", "order_line", "stock", "history"}
      BY TableList, FS_EmptySet DEF Once, PerWarehouse
    <2> DEFINE Add(S, x) == S \cup {x}
    <2>2. Tables = Add(Add(Add(Add(Add(Add(Add(Add(Add({}, "warehouse"), "district"), "item"),
                      "customer"), "orders"), "new_order"), "order_line"), "stock"), "history")
      BY <2>1
    <2>3. \A S, x : IsFiniteSet(S) => IsFiniteSet(Add(S, x))
      BY FS_AddElement
    <2> HIDE DEF Add
    <2> QED
      BY <2>1, <2>2, <2>3
  <1>3. \A g : \A s \in SUBSET Tables : Step(g, s) = SumStep(g, f, s)
    <2> SUFFICES ASSUME NEW s \in SUBSET Tables, s # {}
                 PROVE  f[AnyOf(s)] = Cardinality(Fixture[AnyOf(s)])
      BY DEF SumStep
    <2>1. AnyOf(s) \in Tables
      BY AnyOfIn
    <2> QED
      BY <2>1
  <1>4. \E g : g = [s \in SUBSET Tables |-> Step(g, s)]
    <2>1. PICK g : g = [s \in SUBSET Tables |-> SumStep(g, f, s)]
      BY <1>2, SumTableExists
    <2>2. g = [s \in SUBSET Tables |-> Step(g, s)]
      BY <1>3, <2>1
    <2> QED
      BY <2>2
  <1>5. h = [s \in SUBSET Tables |-> Step(h, s)]
    <2> HIDE DEF Step
    <2> QED
      BY <1>4
  <1>6. \A s \in SUBSET Tables : h[s] = SumStep(h, f, s)
    <2> HIDE DEF h
    <2> QED
      BY <1>3, <1>5
  <1>7. h[Tables] = SumOver(f, Tables)
    <2> HIDE DEF h
    <2> QED
      BY <1>2, <1>6, SumSolution
  <1> HIDE DEF h
  <1>8. SumOver(f, Tables) = FixtureRowCount
    <2>1. /\ f["warehouse"] = Warehouses /\ f["district"] = Warehouses * Districts
          /\ f["item"] = Items /\ f["customer"] = Warehouses * Customers
          /\ f["orders"] = Warehouses * Customers
          /\ f["new_order"] = Warehouses * (Customers - Delivered)
          /\ f["order_line"] = Warehouses * (Customers * LinesPerOrder)
          /\ f["stock"] = Warehouses * Items
      <3>1. \A t \in Once \cup PerWarehouse :
               f[t] = (IF t \in Once THEN 1 ELSE Warehouses) * RowCount(t)
        BY TableList, FixtureSize
      <3>2. 1 * RowCount("warehouse") = Warehouses /\ 1 * RowCount("item") = Items
               /\ 1 * RowCount("district") = Warehouses * Districts
        BY Sizes DEF RowCount
      <3> QED
        BY <3>1, <3>2 DEF Once, PerWarehouse, RowCount
    <2>2. f["history"] = 0
      <3>1. Fixture["history"] = {}
        <4>1. \A c \in Calls : TableOf(c) # "history"
          BY CallOf DEF Once, PerWarehouse
        <4>2. "history" \in Tables
          BY TableList
        <4> QED
          BY <4>1, <4>2, FixtureRows
      <3>2. "history" \in Tables
        BY TableList
      <3> QED
        BY <3>1, <3>2, FS_EmptySet
    <2> DEFINE W == Warehouses
    <2>3. \A t \in Tables : f[t] \in Int
      <3>1. ASSUME NEW t \in Once \cup PerWarehouse
            PROVE  f[t] \in Int
        <4>1. t \in Tables
          BY TableList
        <4>2. Cardinality(Fixture[t]) = (IF t \in Once THEN 1 ELSE Warehouses) * RowCount(t)
          BY FixtureSize
        <4>3. IsFiniteSet(Fixture[t])
          BY FixtureSize
        <4>4. Cardinality(Fixture[t]) \in Nat
          BY <4>3, FS_CardinalityType
        <4> QED
          BY <4>1, <4>4
      <3>2. \A t \in Tables : t \in Once \cup PerWarehouse \/ t = "history"
        BY TableList
      <3> QED
        BY <2>2, <3>1, <3>2
    <2> HIDE DEF f
    <2>4. \A S \in SUBSET Tables : \A t \in S : SumOver(f, S) = f[t] + SumOver(f, S \ {t})
      <3>1. \A S \in SUBSET Tables : IsFiniteSet(S)
        BY <1>2, FS_Subset
      <3> QED
        BY <2>3, <3>1, SumRemove
    <2> DEFINE T1 == Tables \ {"warehouse"}
               T2 == T1 \ {"district"}
               T3 == T2 \ {"item"}
               T4 == T3 \ {"customer"}
               T5 == T4 \ {"orders"}
               T6 == T5 \ {"new_order"}
               T7 == T6 \ {"order_line"}
               T8 == T7 \ {"stock"}
               T9 == T8 \ {"history"}
    <2>5. /\ SumOver(f, Tables) = f["warehouse"] + SumOver(f, T1)
          /\ SumOver(f, T1) = f["district"] + SumOver(f, T2)
          /\ SumOver(f, T2) = f["item"] + SumOver(f, T3)
          /\ SumOver(f, T3) = f["customer"] + SumOver(f, T4)
          /\ SumOver(f, T4) = f["orders"] + SumOver(f, T5)
          /\ SumOver(f, T5) = f["new_order"] + SumOver(f, T6)
          /\ SumOver(f, T6) = f["order_line"] + SumOver(f, T7)
          /\ SumOver(f, T7) = f["stock"] + SumOver(f, T8)
          /\ SumOver(f, T8) = f["history"] + SumOver(f, T9)
      <3>1. /\ "warehouse" \in Tables /\ "district" \in T1 /\ "item" \in T2 /\ "customer" \in T3
            /\ "orders" \in T4 /\ "new_order" \in T5 /\ "order_line" \in T6 /\ "stock" \in T7
            /\ "history" \in T8
        BY TableList DEF Once, PerWarehouse
      <3>2. /\ T1 \in SUBSET Tables /\ T2 \in SUBSET Tables /\ T3 \in SUBSET Tables
            /\ T4 \in SUBSET Tables /\ T5 \in SUBSET Tables /\ T6 \in SUBSET Tables
            /\ T7 \in SUBSET Tables /\ T8 \in SUBSET Tables
        OBVIOUS
      <3>3. Tables \in SUBSET Tables
        OBVIOUS
      <3> QED
        BY <2>4, <3>1, <3>2, <3>3, Zenon
    <2>6. SumOver(f, T9) = 0
      <3>1. T9 = {}
        BY TableList DEF Once, PerWarehouse
      <3> QED
        BY <3>1, SumUnfold, FS_EmptySet
    <2> HIDE DEF T1, T2, T3, T4, T5, T6, T7, T8, T9
    <2>7. SumOver(f, Tables) =
             Warehouses + (Warehouses * Districts + (Items + (Warehouses * Customers
                + (Warehouses * Customers + (Warehouses * (Customers - Delivered)
                + (Warehouses * (Customers * LinesPerOrder) + (Warehouses * Items + 0)))))))
      BY <2>1, <2>2, <2>5, <2>6
    <2>8. Customers - Delivered = (Orders * 3) \div 10 /\ Customers = Orders /\ (Orders * 3) \div 10 \in Nat
      BY NewOrders, Sizes
    <2> QED
      <3> DEFINE d == (Orders * 3) \div 10
      <3>1. FixtureRowCount =
               Warehouses * (1 + Districts + Customers + Customers + d + Customers * LinesPerOrder + Items) + Items
        BY <2>8 DEF FixtureRowCount
      <3>2. d \in Nat /\ Customers - Delivered = d
        BY <2>8
      <3> HIDE DEF d
      <3>3. Warehouses * (1 + Districts + Customers + Customers + d + Customers * LinesPerOrder + Items) + Items
              = Warehouses + (Warehouses * Districts + (Items + (Warehouses * Customers
                   + (Warehouses * Customers + (Warehouses * d
                   + (Warehouses * (Customers * LinesPerOrder) + (Warehouses * Items + 0)))))))
        BY <3>2, Sizes
      <3> QED
        BY <2>7, <3>1, <3>2, <3>3
  <1> QED
    BY <1>1, <1>7, <1>8
-----------------------------------------------------------------------------
(***************************************************************************)
(* The invariant of the schema.                                            *)
(***************************************************************************)

\* The points before the rows, those after them, and those of a broken command.
Early == {"connect", "database", "create"}
Later == {"replicas", "poll", "pause", "analyze", "done"}
Broken == {"failed", "killed"}

\* How often row i of call c is held.
Held(c, i) == rows[TableOf(c)][RowsOfCall[c][i]]

\* How far the loops have come.
Progress ==
    /\ point \in {"connect", "database", "poll", "pause"} => index = 1
    /\ point \in {"connect", "database", "create"} => start = 0
    /\ point = "create" => index \in 1 .. 9
    /\ point = "seed" => index \in Calls
    /\ point = "replicas" => index \in 1 .. 9
    /\ point = "analyze" => index \in 1 .. 7

\* A table with its primary key holds no row twice; the batches sent so far are in.
RowsIn ==
    /\ DOMAIN rows = Tables
    /\ \A t \in Tables : definition[t] # "keyless" => \A k \in Fixture[t] : rows[t][k] <= 1
    /\ point = "seed" =>
          /\ \A c \in Calls : c < index => \A i \in Places(c) : Held(c, i) > 0
          /\ \A i \in Places(index) : i <= start => Held(index, i) > 0
    /\ point \in Later =>
          \A c \in Calls : \A i \in Places(c) : Held(c, i) > 0

\* No row is inserted more than twice by a command, once of them late: a command
\* leaves one batch to TiDB at most, and a row has one place in the fixture.
RowsBounded ==
    /\ IsFiniteSet(late)
    /\ \A t \in Tables : \A k \in Fixture[t] :
          rows[t][k] + Cardinality(late) <=
             2 * commands - (IF point \in Broken THEN 0 ELSE 1)
    /\ point \in Early =>
          \A t \in Tables : \A k \in Fixture[t] : rows[t][k] + Cardinality(late) <= 2 * (commands - 1)
    /\ point = "seed" =>
          /\ \A c \in Calls : c > index =>
                \A i \in Places(c) : Held(c, i) + Cardinality(late) <= 2 * (commands - 1)
          /\ \A i \in Places(index) : i > start => Held(index, i) + Cardinality(late) <= 2 * (commands - 1)

\* The replicas that are set, and those that are available.
ReplicasSet ==
    /\ point = "replicas" => \A i \in 1 .. 9 : i < index => TableOrder[i] \in replica
    /\ point \in {"poll", "pause", "analyze", "done"} => replica = Tables
    /\ point \in {"analyze", "done"} => available = Tables

\* Analyzed tables stay so: a batch that comes in late finds every row there.
Statistics ==
    \A i \in 1 .. 7 :
        /\ point = "done" \/ (point = "analyze" /\ i < index)
        /\ definition[AnalyzeOrder[i]] # "keyless"
        => AnalyzeOrder[i] \in analyzed

\* What the wait has seen.
WaitKnows ==
    /\ point \in {"connect", "database", "create", "seed", "replicas"} => pending = {}
    /\ point = "pause" => pending # {}
    /\ point \in {"poll", "pause"} /\ pending # {} => Tables \ available \subseteq pending
    /\ point # "failed" => failure = NoFailure

\* All of it.
SchemaInv == SchemaTypeOK /\ Progress /\ RowsIn /\ RowsBounded /\ ReplicasSet
                /\ Statistics /\ WaitKnows /\ WaitErrorNamesPending
-----------------------------------------------------------------------------
(***************************************************************************)
(* Every step of the schema keeps its invariant.                           *)
(***************************************************************************)

\* Nothing has been done.
LEMMA InitSchemaInv == SchemaInit => SchemaInv
  <1> SUFFICES ASSUME SchemaInit PROVE SchemaInv
    OBVIOUS
  <1> USE DEF SchemaInit
  <1>0. /\ MaxCommands \in Nat \ {0} /\ SeedCalls \in Nat \ {0}
        /\ \A t \in Tables : \A k \in Fixture[t] : rows[t][k] = 0
        /\ \A t \in Tables : rows[t] = [k \in Fixture[t] |-> 0]
    BY Sizes DEF SeedCalls
  <1>1. SchemaTypeOK
    <2>1. \A t \in Tables : rows[t] \in [Fixture[t] -> 0 .. 2 * MaxCommands]
      BY <1>0
    <2>2. index \in 1 .. (SeedCalls + Len(TableOrder))
      BY <1>0, TableList
    <2>3. failure \in [kind : {"none", "statement", "timed out", "plain"},
                    cause : {"none", "network", "deadline", "cancelled"},
                    tables : SUBSET Tables]
      BY DEF NoFailure
    <2>4. definition \in [Tables -> {"absent", "own", "keyless", "columns"}]
      OBVIOUS
    <2>5. commands \in 1 .. MaxCommands
      BY <1>0
    <2>6. /\ available \subseteq replica /\ replica \subseteq Tables /\ analyzed \subseteq Tables
          /\ late \subseteq [call : 1 .. SeedCalls, from : Nat] /\ pending \subseteq Tables
      OBVIOUS
    <2>7. /\ parent \in {"live", "cancelled"} /\ waitCtx \in {"live", "deadline", "cancelled"}
          /\ start \in Nat /\ point \in SchemaPoints
      BY DEF SchemaPoints, Statements
    <2> QED
      BY ONLY <2>1, <2>2, <2>3, <2>4, <2>5, <2>6, <2>7 DEF SchemaTypeOK
  <1>2. Progress /\ ReplicasSet /\ Statistics /\ WaitKnows
    BY DEF Progress, ReplicasSet, Statistics, WaitKnows
  <1>3. RowsIn
    BY <1>0 DEF RowsIn, Later
  <1>4. RowsBounded
    BY <1>0, FS_EmptySet DEF RowsBounded, Early, Broken
  <1>5. WaitErrorNamesPending
    BY DEF WaitErrorNamesPending, NoFailure
  <1> QED
    BY <1>1, <1>2, <1>3, <1>4, <1>5 DEF SchemaInv

\* Where the rows of the fixture are.
LEMMA RowPlaces ==
  ASSUME NEW c \in Calls
  PROVE  /\ c \in Nat \ {0} /\ TableOf(c) \in Tables
         /\ \A i \in Places(c) : i \in Nat \ {0} /\ RowsOfCall[c][i] \in Fixture[TableOf(c)]
  <1>1. c \in Nat \ {0} /\ TableOf(c) \in Tables
    BY CallList, CallOf
  <1>2. \A i \in Places(c) : RowsOfCall[c][i] \in Fixture[TableOf(c)]
    BY <1>1, FixtureRows
  <1>3. \A i \in Places(c) : i \in Nat \ {0}
    BY PlacesOf
  <1> QED
    BY <1>1, <1>2, <1>3

\* A step that inserts nothing and goes on to where the same batches are known to be in.
LEMMA RowsKept ==
  ASSUME RowsIn, RowsBounded, rows' = rows, late' = late, commands' = commands,
         \A t \in Tables : definition'[t] = "keyless" <=> definition[t] = "keyless",
         point' = "seed" => \/ point = "seed" /\ index' = index /\ start' = start
                            \/ point = "create" /\ index' = 1 /\ start' = 0,
         point' \in Early => point \in Early,
         point' \in Later => point \in Later,
         point \in Broken => point' \in Broken,
         commands \in Nat, \A t \in Tables : \A k \in Fixture[t] : rows[t][k] \in Nat
  PROVE  RowsIn' /\ RowsBounded'
  <1>1. RowsIn'
    <2>0. DOMAIN rows' = Tables
      BY DEF RowsIn
    <2>1. \A t \in Tables : definition'[t] # "keyless" => \A k \in Fixture[t] : rows'[t][k] <= 1
      BY DEF RowsIn
    <2>2. ASSUME point' = "seed"
          PROVE  /\ \A c \in Calls : c < index' => \A i \in Places(c) : Held(c, i) > 0
                 /\ \A i \in Places(index') : i <= start' => Held(index', i) > 0
      <3>1. CASE point = "seed" /\ index' = index /\ start' = start
        BY <3>1 DEF RowsIn
      <3>2. CASE index' = 1 /\ start' = 0
        <4>1. 1 \in Calls
          BY Sizes DEF Calls, SeedCalls
        <4>2. \A c \in Calls : ~(c < 1)
          BY RowPlaces
        <4>3. \A i \in Places(1) : ~(i <= 0)
          BY <4>1, RowPlaces
        <4> QED
          BY <3>2, <4>2, <4>3
      <3> QED
        BY <2>2, <3>1, <3>2
    <2>3. point' \in Later => \A c \in Calls : \A i \in Places(c) : Held(c, i) > 0
      BY DEF RowsIn
    <2> QED
      BY <2>0, <2>1, <2>2, <2>3 DEF RowsIn, Held
  <1>2. RowsBounded'
    <2> DEFINE n == Cardinality(late)
    <2>1. IsFiniteSet(late') /\ n \in Nat /\ Cardinality(late') = n
      BY FS_CardinalityType DEF RowsBounded
    <2>2. \A t \in Tables : \A k \in Fixture[t] :
             rows'[t][k] + n <= 2 * commands' - (IF point' \in Broken THEN 0 ELSE 1)
      <3> SUFFICES ASSUME NEW t \in Tables, NEW k \in Fixture[t]
                   PROVE  rows[t][k] + n <= 2 * commands - (IF point' \in Broken THEN 0 ELSE 1)
        OBVIOUS
      <3>1. rows[t][k] + n <= 2 * commands - (IF point \in Broken THEN 0 ELSE 1)
        BY DEF RowsBounded
      <3>2. rows[t][k] \in Nat
        OBVIOUS
      <3> QED
        BY <2>1, <3>1, <3>2
    <2>3. point' \in Early =>
            \A t \in Tables : \A k \in Fixture[t] : rows[t][k] + n <= 2 * (commands - 1)
      BY DEF RowsBounded
    <2>4. ASSUME point' = "seed"
          PROVE  /\ \A c \in Calls : c > index' =>
                      \A i \in Places(c) : Held(c, i) + n <= 2 * (commands - 1)
                 /\ \A i \in Places(index') : i > start' => Held(index', i) + n <= 2 * (commands - 1)
      <3>1. CASE point = "seed" /\ index' = index /\ start' = start
        BY <3>1 DEF RowsBounded
      <3>2. CASE point = "create" /\ index' = 1 /\ start' = 0
        <4>1. 1 \in Calls
          BY Sizes DEF Calls, SeedCalls
        <4>2. \A c \in Calls : \A i \in Places(c) : Held(c, i) + n <= 2 * (commands - 1)
          BY <3>2, RowPlaces DEF RowsBounded, Early, Held
        <4> QED
          BY <3>2, <4>1, <4>2
      <3> QED
        BY <2>4, <3>1, <3>2
    <2> HIDE DEF n
    <2> QED
      BY <2>1, <2>2, <2>3, <2>4 DEF RowsBounded, Held
  <1> QED
    BY <1>1, <1>2

\* The types of the counts.
LEMMA RowsAreNumbers ==
  ASSUME SchemaTypeOK
  PROVE  /\ commands \in Nat /\ commands <= MaxCommands
         /\ \A t \in Tables : \A k \in Fixture[t] : rows[t][k] \in Nat
  <1>1. commands \in Nat /\ commands <= MaxCommands
    <2>1. commands \in 1 .. MaxCommands
      BY DEF SchemaTypeOK
    <2> QED
      BY <2>1, Sizes
  <1>2. \A t \in Tables : \A k \in Fixture[t] : rows[t][k] \in Nat
    <2> SUFFICES ASSUME NEW t \in Tables, NEW k \in Fixture[t] PROVE rows[t][k] \in Nat
      OBVIOUS
    <2>1. rows[t] \in [Fixture[t] -> 0 .. 2 * MaxCommands]
      BY DEF SchemaTypeOK
    <2>2. 2 * MaxCommands \in Nat
      BY Sizes
    <2> QED
      BY <2>1, <2>2
  <1> QED
    BY <1>1, <1>2

\* An error of a statement says nothing of a wait.
LEMMA StatementError ==
  ASSUME failure = NoFailure,
         failure' = failure \/ failure' = Failed("statement", "network", {})
  PROVE  /\ failure' \in [kind : {"none", "statement", "timed out", "plain"},
                          cause : {"none", "network", "deadline", "cancelled"},
                          tables : SUBSET Tables]
         /\ WaitErrorNamesPending'
  <1>1. {} \in SUBSET Tables
    OBVIOUS
  <1>2. CASE failure' = failure
    <2>1. /\ failure' = [kind |-> "none", cause |-> "none", tables |-> {}]
          /\ failure'.cause = "none" /\ failure'.kind = "none"
      BY <1>2 DEF NoFailure
    <2> QED
      BY <1>1, <2>1 DEF WaitErrorNamesPending
  <1>3. CASE failure' = Failed("statement", "network", {})
    <2>1. /\ failure' = [kind |-> "statement", cause |-> "network", tables |-> {}]
          /\ failure'.cause = "network" /\ failure'.kind = "statement"
      BY <1>3 DEF Failed
    <2> QED
      BY <1>1, <2>1 DEF WaitErrorNamesPending
  <1> QED
    BY <1>2, <1>3

\* The session is opened.
LEMMA ConnectKeeps == SchemaInv /\ Connect => SchemaInv'
  <1> SUFFICES ASSUME SchemaInv, Connect PROVE SchemaInv'
    OBVIOUS
  <1>1. /\ SchemaTypeOK /\ Progress /\ RowsIn /\ RowsBounded /\ ReplicasSet
        /\ Statistics /\ WaitKnows /\ WaitErrorNamesPending
    BY DEF SchemaInv
  <1>2. /\ rows' = rows /\ late' = late /\ commands' = commands /\ definition' = definition
        /\ point' = "seed" => point = "seed" /\ index' = index /\ start' = start
    BY DEF Connect, database, progress
  <1>3. RowsIn' /\ RowsBounded'
    <2>1. /\ point' \in Early => point \in Early
          /\ point' \in Later => point \in Later
          /\ point \in Broken => point' \in Broken
      BY DEF Connect, database, progress, Early, Later, Broken, Statements
    <2> QED
      BY <1>1, <1>2, <2>1, RowsKept, RowsAreNumbers
  <1>4. SchemaTypeOK'
    BY <1>1 DEF SchemaTypeOK, SchemaPoints, Statements, Connect, database, progress
  <1>5. Progress'
    BY <1>1 DEF Progress, Connect, database, progress
  <1>6. ReplicasSet' /\ Statistics'
    BY <1>1, <1>2 DEF SchemaTypeOK, ReplicasSet, Statistics, Connect, database, progress
  <1>7. WaitKnows' /\ WaitErrorNamesPending'
    BY <1>1, <1>2 DEF SchemaTypeOK, WaitKnows, WaitErrorNamesPending, NoFailure, Connect, database, progress
  <1> QED
    BY <1>3, <1>4, <1>5, <1>6, <1>7 DEF SchemaInv

\* The database is selected.
LEMMA SelectSchemaKeeps == SchemaInv /\ SelectSchema => SchemaInv'
  <1> SUFFICES ASSUME SchemaInv, SelectSchema PROVE SchemaInv'
    OBVIOUS
  <1>1. /\ SchemaTypeOK /\ Progress /\ RowsIn /\ RowsBounded /\ ReplicasSet
        /\ Statistics /\ WaitKnows /\ WaitErrorNamesPending
    BY DEF SchemaInv
  <1>2. /\ rows' = rows /\ late' = late /\ commands' = commands /\ definition' = definition
        /\ point' = "seed" => point = "seed" /\ index' = index /\ start' = start
    BY DEF SelectSchema, database, progress
  <1>3. RowsIn' /\ RowsBounded'
    <2>1. /\ point' \in Early => point \in Early
          /\ point' \in Later => point \in Later
          /\ point \in Broken => point' \in Broken
      BY DEF SelectSchema, database, progress, Early, Later, Broken, Statements
    <2> QED
      BY <1>1, <1>2, <2>1, RowsKept, RowsAreNumbers
  <1>4. SchemaTypeOK'
    BY <1>1 DEF SchemaTypeOK, SchemaPoints, Statements, SelectSchema, database, progress
  <1>5. Progress'
    BY <1>1 DEF Progress, SelectSchema, database, progress
  <1>6. ReplicasSet' /\ Statistics'
    BY <1>1, <1>2 DEF SchemaTypeOK, ReplicasSet, Statistics, SelectSchema, database, progress
  <1>7. WaitKnows' /\ WaitErrorNamesPending'
    BY <1>1, <1>2 DEF SchemaTypeOK, WaitKnows, WaitErrorNamesPending, NoFailure, SelectSchema, database, progress
  <1> QED
    BY <1>3, <1>4, <1>5, <1>6, <1>7 DEF SchemaInv

\* A poll is answered.
LEMMA PollKeeps == SchemaInv /\ Poll => SchemaInv'
  <1> SUFFICES ASSUME SchemaInv, Poll PROVE SchemaInv'
    OBVIOUS
  <1>1. /\ SchemaTypeOK /\ Progress /\ RowsIn /\ RowsBounded /\ ReplicasSet
        /\ Statistics /\ WaitKnows /\ WaitErrorNamesPending
    BY DEF SchemaInv
  <1>2. /\ rows' = rows /\ late' = late /\ commands' = commands /\ definition' = definition
        /\ point' = "seed" => point = "seed" /\ index' = index /\ start' = start
    BY DEF Poll, database, progress
  <1>3. RowsIn' /\ RowsBounded'
    <2>1. /\ point' \in Early => point \in Early
          /\ point' \in Later => point \in Later
          /\ point \in Broken => point' \in Broken
      BY DEF Poll, database, progress, Early, Later, Broken, Statements
    <2> QED
      BY <1>1, <1>2, <2>1, RowsKept, RowsAreNumbers
  <1>4. SchemaTypeOK'
    BY <1>1 DEF SchemaTypeOK, SchemaPoints, Statements, Poll, database, progress
  <1>5. Progress'
    BY <1>1 DEF Progress, Poll, database, progress
  <1>6. ReplicasSet' /\ Statistics'
    <2>1. point' = "analyze" => available = Tables
      <3>1. available \subseteq Tables
        BY <1>1 DEF SchemaTypeOK
      <3> QED
        BY <3>1 DEF Poll
    <2>2. ReplicasSet'
      BY <1>1, <2>1 DEF ReplicasSet, Poll, database
    <2>3. Statistics'
      <3> SUFFICES ASSUME NEW i \in 1 .. 7, point' = "analyze", i < index' PROVE FALSE
        BY DEF Statistics, Poll
      <3>1. index' = 1
        BY <1>1 DEF Progress, Poll
      <3> QED
        BY <3>1
    <2> QED
      BY <2>2, <2>3
  <1>7. WaitKnows' /\ WaitErrorNamesPending'
    <2>1. pending' = Tables \ available /\ available' = available /\ failure' = failure
          /\ point' \in {"analyze", "pause"} /\ (point' = "pause" => pending' # {})
      BY DEF Poll, database
    <2>2. failure = NoFailure
      BY <1>1 DEF WaitKnows, Poll
    <2> QED
      BY <2>1, <2>2 DEF WaitKnows, WaitErrorNamesPending, NoFailure
  <1> QED
    BY <1>3, <1>4, <1>5, <1>6, <1>7 DEF SchemaInv

\* A poll fails.
LEMMA PollFailsKeeps == SchemaInv /\ PollFails => SchemaInv'
  <1> SUFFICES ASSUME SchemaInv, PollFails PROVE SchemaInv'
    OBVIOUS
  <1>1. /\ SchemaTypeOK /\ Progress /\ RowsIn /\ RowsBounded /\ ReplicasSet
        /\ Statistics /\ WaitKnows /\ WaitErrorNamesPending
    BY DEF SchemaInv
  <1>2. /\ rows' = rows /\ late' = late /\ commands' = commands /\ definition' = definition
        /\ point' = "seed" => point = "seed" /\ index' = index /\ start' = start
    BY DEF PollFails, SchemaFails, PollError, Failed, database, progress
  <1>3. RowsIn' /\ RowsBounded'
    <2>1. /\ point' \in Early => point \in Early
          /\ point' \in Later => point \in Later
          /\ point \in Broken => point' \in Broken
      BY DEF PollFails, SchemaFails, PollError, Failed, database, progress, Early, Later, Broken, Statements
    <2> QED
      BY <1>1, <1>2, <2>1, RowsKept, RowsAreNumbers
  <1>4. SchemaTypeOK'
    <2>1. failure' \in [kind : {"none", "statement", "timed out", "plain"},
                       cause : {"none", "network", "deadline", "cancelled"},
                       tables : SUBSET Tables]
      <3>1. PICK cause \in {"network", waitCtx} \ {"live"} : failure' = PollError(cause)
        BY DEF PollFails, SchemaFails
      <3>2. cause \in {"network", "deadline", "cancelled"} /\ pending \in SUBSET Tables
        BY <1>1, <3>1 DEF SchemaTypeOK
      <3>3. {} \in SUBSET Tables
        OBVIOUS
      <3> QED
        BY <3>1, <3>2, <3>3 DEF PollError, Failed
    <2>2. /\ point' \in SchemaPoints
          /\ UNCHANGED <<database, commands, parent, waitCtx, index, start, pending>>
      BY DEF PollFails, SchemaFails, SchemaPoints
    <2> QED
      BY <1>1, <2>1, <2>2 DEF SchemaTypeOK, database
  <1>5. Progress'
    BY <1>1 DEF Progress, PollFails, SchemaFails, PollError, Failed, database, progress
  <1>6. ReplicasSet' /\ Statistics'
    BY <1>1, <1>2 DEF SchemaTypeOK, ReplicasSet, Statistics, PollFails, SchemaFails, PollError, Failed, database, progress
  <1>7. WaitKnows' /\ WaitErrorNamesPending'
    <2>1. PICK cause \in {"network", waitCtx} \ {"live"} : SchemaFails(PollError(cause))
      BY DEF PollFails
    <2>2. /\ point = "poll" /\ point' = "failed" /\ pending' = pending /\ available' = available
          /\ failure' = PollError(cause)
      BY <2>1 DEF PollFails, SchemaFails, database
    <2>3. failure'.cause = cause
          /\ (cause = "deadline" /\ pending # {} => failure'.kind = "timed out" /\ failure'.tables = pending)
          /\ (~(cause = "deadline" /\ pending # {}) => failure'.kind = "plain")
      BY <2>2 DEF PollError, Failed
    <2>4. pending # {} => Tables \ available \subseteq pending
      BY <1>1, <2>2 DEF WaitKnows
    <2>5. WaitErrorNamesPending'
      BY <2>2, <2>3, <2>4 DEF WaitErrorNamesPending
    <2>6. WaitKnows'
      BY <2>2 DEF WaitKnows
    <2> QED
      BY <2>5, <2>6
  <1> QED
    BY <1>3, <1>4, <1>5, <1>6, <1>7 DEF SchemaInv

\* The pause is over.
LEMMA PauseElapsesKeeps == SchemaInv /\ PauseElapses => SchemaInv'
  <1> SUFFICES ASSUME SchemaInv, PauseElapses PROVE SchemaInv'
    OBVIOUS
  <1>1. /\ SchemaTypeOK /\ Progress /\ RowsIn /\ RowsBounded /\ ReplicasSet
        /\ Statistics /\ WaitKnows /\ WaitErrorNamesPending
    BY DEF SchemaInv
  <1>2. /\ rows' = rows /\ late' = late /\ commands' = commands /\ definition' = definition
        /\ point' = "seed" => point = "seed" /\ index' = index /\ start' = start
    BY DEF PauseElapses, database, progress
  <1>3. RowsIn' /\ RowsBounded'
    <2>1. /\ point' \in Early => point \in Early
          /\ point' \in Later => point \in Later
          /\ point \in Broken => point' \in Broken
      BY DEF PauseElapses, database, progress, Early, Later, Broken, Statements
    <2> QED
      BY <1>1, <1>2, <2>1, RowsKept, RowsAreNumbers
  <1>4. SchemaTypeOK'
    BY <1>1 DEF SchemaTypeOK, SchemaPoints, Statements, PauseElapses, database, progress
  <1>5. Progress'
    BY <1>1 DEF Progress, PauseElapses, database, progress
  <1>6. ReplicasSet' /\ Statistics'
    BY <1>1, <1>2 DEF SchemaTypeOK, ReplicasSet, Statistics, PauseElapses, database, progress
  <1>7. WaitKnows' /\ WaitErrorNamesPending'
    BY <1>1, <1>2 DEF SchemaTypeOK, WaitKnows, WaitErrorNamesPending, NoFailure, PauseElapses, database, progress
  <1> QED
    BY <1>3, <1>4, <1>5, <1>6, <1>7 DEF SchemaInv

\* The wait ends in the pause.
LEMMA PauseEndsKeeps == SchemaInv /\ PauseEnds => SchemaInv'
  <1> SUFFICES ASSUME SchemaInv, PauseEnds PROVE SchemaInv'
    OBVIOUS
  <1>1. /\ SchemaTypeOK /\ Progress /\ RowsIn /\ RowsBounded /\ ReplicasSet
        /\ Statistics /\ WaitKnows /\ WaitErrorNamesPending
    BY DEF SchemaInv
  <1>2. /\ rows' = rows /\ late' = late /\ commands' = commands /\ definition' = definition
        /\ point' = "seed" => point = "seed" /\ index' = index /\ start' = start
    BY DEF PauseEnds, SchemaFails, Failed, database, progress
  <1>3. RowsIn' /\ RowsBounded'
    <2>1. /\ point' \in Early => point \in Early
          /\ point' \in Later => point \in Later
          /\ point \in Broken => point' \in Broken
      BY DEF PauseEnds, SchemaFails, Failed, database, progress, Early, Later, Broken, Statements
    <2> QED
      BY <1>1, <1>2, <2>1, RowsKept, RowsAreNumbers
  <1>4. SchemaTypeOK'
    BY <1>1 DEF SchemaTypeOK, SchemaPoints, Statements, PauseEnds, SchemaFails, Failed, database, progress
  <1>5. Progress'
    BY <1>1 DEF Progress, PauseEnds, SchemaFails, Failed, database, progress
  <1>6. ReplicasSet' /\ Statistics'
    BY <1>1, <1>2 DEF SchemaTypeOK, ReplicasSet, Statistics, PauseEnds, SchemaFails, Failed, database, progress
  <1>7. WaitKnows' /\ WaitErrorNamesPending'
    BY <1>1, <1>2 DEF SchemaTypeOK, WaitKnows, WaitErrorNamesPending, NoFailure, PauseEnds, SchemaFails, Failed, database, progress
  <1> QED
    BY <1>3, <1>4, <1>5, <1>6, <1>7 DEF SchemaInv

\* The ten minutes are over.
LEMMA WaitExpiresKeeps == SchemaInv /\ WaitExpires => SchemaInv'
  <1> SUFFICES ASSUME SchemaInv, WaitExpires PROVE SchemaInv'
    OBVIOUS
  <1>1. /\ SchemaTypeOK /\ Progress /\ RowsIn /\ RowsBounded /\ ReplicasSet
        /\ Statistics /\ WaitKnows /\ WaitErrorNamesPending
    BY DEF SchemaInv
  <1>2. /\ rows' = rows /\ late' = late /\ commands' = commands /\ definition' = definition
        /\ point' = "seed" => point = "seed" /\ index' = index /\ start' = start
    BY DEF WaitExpires, database, progress
  <1>3. RowsIn' /\ RowsBounded'
    <2>1. /\ point' \in Early => point \in Early
          /\ point' \in Later => point \in Later
          /\ point \in Broken => point' \in Broken
      BY DEF WaitExpires, database, progress, Early, Later, Broken, Statements
    <2> QED
      BY <1>1, <1>2, <2>1, RowsKept, RowsAreNumbers
  <1>4. SchemaTypeOK'
    BY <1>1 DEF SchemaTypeOK, SchemaPoints, Statements, WaitExpires, database, progress
  <1>5. Progress'
    BY <1>1 DEF Progress, WaitExpires, database, progress
  <1>6. ReplicasSet' /\ Statistics'
    BY <1>1, <1>2 DEF SchemaTypeOK, ReplicasSet, Statistics, WaitExpires, database, progress
  <1>7. WaitKnows' /\ WaitErrorNamesPending'
    BY <1>1, <1>2 DEF SchemaTypeOK, WaitKnows, WaitErrorNamesPending, NoFailure, WaitExpires, database, progress
  <1> QED
    BY <1>3, <1>4, <1>5, <1>6, <1>7 DEF SchemaInv

\* The command is interrupted.
LEMMA SchemaInterruptKeeps == SchemaInv /\ SchemaInterrupt => SchemaInv'
  <1> SUFFICES ASSUME SchemaInv, SchemaInterrupt PROVE SchemaInv'
    OBVIOUS
  <1>1. /\ SchemaTypeOK /\ Progress /\ RowsIn /\ RowsBounded /\ ReplicasSet
        /\ Statistics /\ WaitKnows /\ WaitErrorNamesPending
    BY DEF SchemaInv
  <1>2. /\ rows' = rows /\ late' = late /\ commands' = commands /\ definition' = definition
        /\ point' = "seed" => point = "seed" /\ index' = index /\ start' = start
    BY DEF SchemaInterrupt, database, progress
  <1>3. RowsIn' /\ RowsBounded'
    <2>1. /\ point' \in Early => point \in Early
          /\ point' \in Later => point \in Later
          /\ point \in Broken => point' \in Broken
      BY DEF SchemaInterrupt, database, progress, Early, Later, Broken, Statements
    <2> QED
      BY <1>1, <1>2, <2>1, RowsKept, RowsAreNumbers
  <1>4. SchemaTypeOK'
    BY <1>1 DEF SchemaTypeOK, SchemaPoints, Statements, SchemaInterrupt, database, progress
  <1>5. Progress'
    BY <1>1 DEF Progress, SchemaInterrupt, database, progress
  <1>6. ReplicasSet' /\ Statistics'
    BY <1>1, <1>2 DEF SchemaTypeOK, ReplicasSet, Statistics, SchemaInterrupt, database, progress
  <1>7. WaitKnows' /\ WaitErrorNamesPending'
    BY <1>1, <1>2 DEF SchemaTypeOK, WaitKnows, WaitErrorNamesPending, NoFailure, SchemaInterrupt, database, progress
  <1> QED
    BY <1>3, <1>4, <1>5, <1>6, <1>7 DEF SchemaInv

\* A table is created, or it is there.
LEMMA CreateTableKeeps == SchemaInv /\ CreateTable => SchemaInv'
  <1> SUFFICES ASSUME SchemaInv, CreateTable PROVE SchemaInv'
    OBVIOUS
  <1>1. /\ SchemaTypeOK /\ Progress /\ RowsIn /\ RowsBounded /\ ReplicasSet
        /\ Statistics /\ WaitKnows /\ WaitErrorNamesPending
    BY DEF SchemaInv
  <1>2. /\ rows' = rows /\ late' = late /\ commands' = commands /\ parent' = parent
        /\ waitCtx' = waitCtx /\ pending' = pending /\ replica' = replica
        /\ available' = available /\ analyzed' = analyzed /\ start' = start
        /\ point = "create" /\ index \in 1 .. 9 /\ start = 0 /\ pending = {} /\ failure = NoFailure
    BY <1>1 DEF CreateTable, Answered, NextOf, SchemaFails, Progress, WaitKnows
  <1>3. \/ /\ point' = "create" /\ index < 9 /\ index' = index + 1 /\ failure' = failure
        \/ /\ point' = "seed" /\ index' = 1 /\ failure' = failure
        \/ /\ point' = "failed" /\ index' = index /\ failure' = Failed("statement", "network", {})
    BY <1>2, TableList DEF CreateTable, Answered, NextOf, SchemaFails
  <1>4. definition' \in [Tables -> {"absent", "own", "keyless", "columns"}]
        /\ \A t \in Tables : definition'[t] = "keyless" <=> definition[t] = "keyless"
    BY <1>1 DEF CreateTable, SchemaTypeOK
  <1>5. RowsIn' /\ RowsBounded'
    <2>1. /\ point' = "seed" => point = "create" /\ index' = 1 /\ start' = 0
          /\ point' \in Early => point \in Early
          /\ point' \in Later => point \in Later
          /\ point \in Broken => point' \in Broken
      BY <1>2, <1>3 DEF Early, Later, Broken
    <2> QED
      BY <1>1, <1>2, <1>4, <2>1, RowsKept, RowsAreNumbers
  <1>6. SeedCalls \in Nat \ {0}
    BY Sizes DEF SeedCalls
  <1>7. SchemaTypeOK'
    <2>1. index' \in 1 .. (SeedCalls + Len(TableOrder))
      BY <1>2, <1>3, <1>6, TableList
    <2>2. failure' \in [kind : {"none", "statement", "timed out", "plain"},
                       cause : {"none", "network", "deadline", "cancelled"},
                       tables : SUBSET Tables]
      BY <1>2, <1>3, StatementError
    <2>3. point' \in SchemaPoints
      BY <1>3 DEF SchemaPoints, Statements
    <2> QED
      BY <1>1, <1>2, <1>4, <2>1, <2>2, <2>3 DEF SchemaTypeOK
  <1>8. Progress'
    BY <1>2, <1>3, <1>6 DEF Progress, Calls
  <1>9. WaitErrorNamesPending'
    BY <1>2, <1>3, StatementError
  <1>10. ReplicasSet' /\ Statistics' /\ WaitKnows'
    BY <1>2, <1>3 DEF ReplicasSet, Statistics, WaitKnows
  <1> QED
    BY <1>5, <1>7, <1>8, <1>9, <1>10 DEF SchemaInv

\* A replica is set.
LEMMA SetReplicaKeeps == SchemaInv /\ SetReplica => SchemaInv'
  <1> SUFFICES ASSUME SchemaInv, SetReplica PROVE SchemaInv'
    OBVIOUS
  <1>1. /\ SchemaTypeOK /\ Progress /\ RowsIn /\ RowsBounded /\ ReplicasSet
        /\ Statistics /\ WaitKnows /\ WaitErrorNamesPending
    BY DEF SchemaInv
  <1>2. /\ rows' = rows /\ late' = late /\ commands' = commands /\ parent' = parent
        /\ waitCtx' = waitCtx /\ pending' = pending /\ definition' = definition
        /\ analyzed' = analyzed /\ start' = start
        /\ point = "replicas" /\ index \in 1 .. 9 /\ pending = {} /\ failure = NoFailure
    BY <1>1 DEF SetReplica, Answered, NextOf, SchemaFails, Progress, WaitKnows
  <1>3. \/ /\ point' = "replicas" /\ index < 9 /\ index' = index + 1 /\ failure' = failure
        \/ /\ point' = "poll" /\ index = 9 /\ index' = 1 /\ failure' = failure
        \/ /\ point' = "failed" /\ index' = index /\ failure' = Failed("statement", "network", {})
    BY <1>2, TableList DEF SetReplica, Answered, NextOf, SchemaFails
  <1>4. /\ replica' = replica \cup {TableOrder[index]} /\ TableOrder[index] \in Tables
        /\ available' \subseteq available \cup {TableOrder[index]}
    BY <1>2, TableList DEF SetReplica
  <1>5. RowsIn' /\ RowsBounded'
    <2>1. /\ point' # "seed"
          /\ point' \in Early => point \in Early
          /\ point' \in Later => point \in Later
          /\ point \in Broken => point' \in Broken
      BY <1>2, <1>3 DEF Early, Later, Broken
    <2> QED
      BY <1>1, <1>2, <2>1, RowsKept, RowsAreNumbers
  <1>6. SeedCalls \in Nat \ {0}
    BY Sizes DEF SeedCalls
  <1>7. SchemaTypeOK'
    <2>1. index' \in 1 .. (SeedCalls + Len(TableOrder))
      BY <1>2, <1>3, <1>6, TableList
    <2>2. failure' \in [kind : {"none", "statement", "timed out", "plain"},
                       cause : {"none", "network", "deadline", "cancelled"},
                       tables : SUBSET Tables]
      BY <1>2, <1>3, StatementError
    <2>3. point' \in SchemaPoints
      BY <1>3 DEF SchemaPoints, Statements
    <2>4. available' \subseteq replica' /\ replica' \subseteq Tables
      BY <1>1, <1>4 DEF SchemaTypeOK
    <2> QED
      BY <1>1, <1>2, <2>1, <2>2, <2>3, <2>4 DEF SchemaTypeOK
  <1>8. Progress'
    BY <1>2, <1>3 DEF Progress
  <1>9. ReplicasSet'
    <2>1. \A i \in 1 .. 9 : i < index + 1 => TableOrder[i] \in replica'
      BY <1>1, <1>2, <1>4 DEF ReplicasSet
    <2>2. index = 9 => replica' = Tables
      <3>1. replica' \subseteq Tables
        BY <1>7 DEF SchemaTypeOK
      <3> QED
        BY <2>1, <3>1, TableList
    <2> QED
      BY <1>2, <1>3, <2>1, <2>2 DEF ReplicasSet
  <1>10. Statistics' /\ WaitKnows'
    BY <1>2, <1>3 DEF Statistics, WaitKnows
  <1>11. WaitErrorNamesPending'
    BY <1>2, <1>3, StatementError
  <1> QED
    BY <1>5, <1>7, <1>8, <1>9, <1>10, <1>11 DEF SchemaInv

\* A table is analyzed.
LEMMA AnalyzeTableKeeps == SchemaInv /\ AnalyzeTable => SchemaInv'
  <1> SUFFICES ASSUME SchemaInv, AnalyzeTable PROVE SchemaInv'
    OBVIOUS
  <1>1. /\ SchemaTypeOK /\ Progress /\ RowsIn /\ RowsBounded /\ ReplicasSet
        /\ Statistics /\ WaitKnows /\ WaitErrorNamesPending
    BY DEF SchemaInv
  <1>2. /\ rows' = rows /\ late' = late /\ commands' = commands /\ parent' = parent
        /\ waitCtx' = waitCtx /\ pending' = pending /\ definition' = definition
        /\ replica' = replica /\ available' = available /\ start' = start
        /\ point = "analyze" /\ index \in 1 .. 7 /\ failure = NoFailure
        /\ replica = Tables /\ available = Tables
    BY <1>1 DEF AnalyzeTable, Answered, NextOf, SchemaFails, Progress, WaitKnows, ReplicasSet
  <1>3. \/ /\ point' = "analyze" /\ index < 7 /\ index' = index + 1 /\ failure' = failure
        \/ /\ point' = "done" /\ index = 7 /\ index' = 1 /\ failure' = failure
        \/ /\ point' = "failed" /\ index' = index /\ failure' = Failed("statement", "network", {})
    BY <1>2, TableList DEF AnalyzeTable, Answered, NextOf, SchemaFails
  <1>4. analyzed' = analyzed \cup {AnalyzeOrder[index]} /\ AnalyzeOrder[index] \in Tables
    BY <1>2, TableList DEF AnalyzeTable
  <1>5. RowsIn' /\ RowsBounded'
    <2>1. /\ point' # "seed"
          /\ point' \in Early => point \in Early
          /\ point' \in Later => point \in Later
          /\ point \in Broken => point' \in Broken
      BY <1>2, <1>3 DEF Early, Later, Broken
    <2> QED
      BY <1>1, <1>2, <2>1, RowsKept, RowsAreNumbers
  <1>6. SeedCalls \in Nat \ {0}
    BY Sizes DEF SeedCalls
  <1>7. SchemaTypeOK'
    <2>1. index' \in 1 .. (SeedCalls + Len(TableOrder))
      BY <1>2, <1>3, <1>6, TableList
    <2>2. failure' \in [kind : {"none", "statement", "timed out", "plain"},
                       cause : {"none", "network", "deadline", "cancelled"},
                       tables : SUBSET Tables]
      BY <1>2, <1>3, StatementError
    <2>3. point' \in SchemaPoints
      BY <1>3 DEF SchemaPoints, Statements
    <2>4. analyzed' \subseteq Tables
      BY <1>1, <1>4 DEF SchemaTypeOK
    <2> QED
      BY <1>1, <1>2, <2>1, <2>2, <2>3, <2>4 DEF SchemaTypeOK
  <1>8. Progress'
    BY <1>2, <1>3 DEF Progress
  <1>9. Statistics'
    <2>1. \A i \in 1 .. 7 : i < index + 1 /\ definition[AnalyzeOrder[i]] # "keyless"
                               => AnalyzeOrder[i] \in analyzed'
      BY <1>1, <1>2, <1>4 DEF Statistics
    <2> QED
      BY <1>2, <1>3, <2>1 DEF Statistics
  <1>10. ReplicasSet' /\ WaitKnows'
    BY <1>2, <1>3 DEF ReplicasSet, WaitKnows
  <1>11. WaitErrorNamesPending'
    BY <1>2, <1>3, StatementError
  <1> QED
    BY <1>5, <1>7, <1>8, <1>9, <1>10, <1>11 DEF SchemaInv

\* A replica becomes available.
LEMMA ReplicaAvailableKeeps ==
  ASSUME NEW t \in Tables
  PROVE  SchemaInv /\ ReplicaAvailable(t) => SchemaInv'
  <1> SUFFICES ASSUME SchemaInv, ReplicaAvailable(t) PROVE SchemaInv'
    OBVIOUS
  <1>1. /\ SchemaTypeOK /\ Progress /\ RowsIn /\ RowsBounded /\ ReplicasSet
        /\ Statistics /\ WaitKnows /\ WaitErrorNamesPending
    BY DEF SchemaInv
  <1>2. /\ rows' = rows /\ late' = late /\ commands' = commands /\ parent' = parent
        /\ waitCtx' = waitCtx /\ pending' = pending /\ definition' = definition
        /\ replica' = replica /\ start' = start /\ index' = index /\ point' = point
        /\ failure' = failure /\ analyzed' = analyzed
        /\ available' = available \cup {t} /\ t \in replica
    BY DEF ReplicaAvailable, progress
  <1>3. RowsIn' /\ RowsBounded'
    BY <1>1, <1>2, RowsKept, RowsAreNumbers
  <1>4. SchemaTypeOK'
    BY <1>1, <1>2 DEF SchemaTypeOK
  <1>5. Progress' /\ Statistics'
    BY <1>1, <1>2 DEF Progress, Statistics
  <1>6. ReplicasSet' /\ WaitKnows' /\ WaitErrorNamesPending'
    BY <1>1, <1>2 DEF ReplicasSet, WaitKnows, WaitErrorNamesPending
  <1> QED
    BY <1>3, <1>4, <1>5, <1>6 DEF SchemaInv

\* A command that breaks off leaves one batch to TiDB at most.
LEMMA RowsLeft ==
  ASSUME SchemaTypeOK, RowsIn, RowsBounded, point \notin Broken, point' \in Broken,
         rows' = rows, commands' = commands, definition' = definition,
         NEW x, late' = late \/ late' = late \cup {x}
  PROVE  RowsIn' /\ RowsBounded'
  <1>1. point' # "seed" /\ point' \notin Later /\ point' \notin Early
    BY DEF Broken, Later, Early
  <1>2. RowsIn'
    BY <1>1 DEF RowsIn
  <1>3. /\ IsFiniteSet(late) /\ Cardinality(late) \in Nat
        /\ IsFiniteSet(late') /\ Cardinality(late') \in Nat
        /\ Cardinality(late') <= Cardinality(late) + 1
    <2>1. IsFiniteSet(late) /\ Cardinality(late) \in Nat
      BY FS_CardinalityType DEF RowsBounded
    <2>2. IsFiniteSet(late \cup {x}) /\ Cardinality(late \cup {x}) \in {Cardinality(late), Cardinality(late) + 1}
      BY <2>1, FS_AddElement
    <2> QED
      BY <2>1, <2>2
  <1> DEFINE n == Cardinality(late)
             m == Cardinality(late')
  <1>4. \A t \in Tables : \A k \in Fixture[t] :
           rows[t][k] + m <= 2 * commands - 0
    <2> SUFFICES ASSUME NEW t \in Tables, NEW k \in Fixture[t]
                 PROVE  rows[t][k] + m <= 2 * commands - 0
      OBVIOUS
    <2>1. rows[t][k] + n <= 2 * commands - 1
      BY DEF RowsBounded
    <2>2. rows[t][k] \in Nat /\ commands \in Nat
      BY RowsAreNumbers
    <2> QED
      BY <1>3, <2>1, <2>2
  <1>5. Cardinality(late)' = m
    OBVIOUS
  <1> HIDE DEF n, m
  <1>6. RowsBounded'
    BY <1>1, <1>3, <1>4, <1>5 DEF RowsBounded
  <1> QED
    BY <1>2, <1>6

\* The rows of a batch are those of its places.
LEMMA BatchRows ==
  ASSUME NEW c \in Calls, NEW from \in Nat
  PROVE  /\ Batch(c, from) \subseteq Fixture[TableOf(c)]
         /\ \A d \in Calls : TableOf(d) = TableOf(c) =>
               \A j \in Places(d) : RowsOfCall[d][j] \in Batch(c, from)
                                      <=> d = c /\ j > from /\ j <= from + BatchSize
  <1> DEFINE n == Len(RowsOfCall[c])
             I == (from + 1) .. Min({from + BatchSize, n})
  <1>1. n \in Nat /\ BatchSize \in Nat /\ Places(c) = 1 .. n
    BY PlacesOf, Sizes DEF Places
  <1>2. Min({from + BatchSize, n}) = IF from + BatchSize <= n THEN from + BatchSize ELSE n
    <2> DEFINE S == {from + BatchSize, n}
               m == IF from + BatchSize <= n THEN from + BatchSize ELSE n
    <2>1. m \in S /\ \A y \in S : m <= y
      BY <1>1
    <2>2. \A x \in S : (\A y \in S : x <= y) => x = m
      BY <1>1
    <2> HIDE DEF S, m
    <2>3. Min(S) = m
      BY <2>1, <2>2 DEF Min
    <2> QED
      BY <2>3 DEF S, m
  <1>3. \A i : i \in I <=> i \in Places(c) /\ i > from /\ i <= from + BatchSize
    BY <1>1, <1>2
  <1>4. Batch(c, from) = {RowsOfCall[c][i] : i \in I}
    BY DEF Batch
  <1> HIDE DEF I, n
  <1>5. Batch(c, from) \subseteq Fixture[TableOf(c)]
    BY <1>3, <1>4, RowPlaces
  <1>6. ASSUME NEW d \in Calls, TableOf(d) = TableOf(c), NEW j \in Places(d)
        PROVE  RowsOfCall[d][j] \in Batch(c, from) <=> d = c /\ j > from /\ j <= from + BatchSize
    <2>1. ASSUME RowsOfCall[d][j] \in Batch(c, from) PROVE d = c /\ j > from /\ j <= from + BatchSize
      <3>1. PICK i \in I : RowsOfCall[d][j] = RowsOfCall[c][i]
        BY <1>4, <2>1
      <3>2. i \in Places(c) /\ i > from /\ i <= from + BatchSize
        BY <1>3
      <3>3. d = c /\ j = i
        BY <1>6, <3>1, <3>2, OnePlace
      <3> QED
        BY <3>2, <3>3
    <2>2. ASSUME d = c, j > from, j <= from + BatchSize PROVE RowsOfCall[d][j] \in Batch(c, from)
      <3>1. j \in I
        BY <1>3, <2>2
      <3> QED
        BY <1>4, <2>2, <3>1
    <2> QED
      BY <2>1, <2>2
  <1> QED
    BY <1>5, <1>6

\* What INSERT IGNORE does to the rows and to the statistics.
LEMMA Inserted ==
  ASSUME SchemaTypeOK, RowsIn, NEW c \in Calls, NEW from \in Nat, InsertBatch(c, from)
  PROVE  /\ DOMAIN rows' = Tables
         /\ \A t \in Tables : /\ rows'[t] \in [Fixture[t] -> Nat]
                              /\ t # TableOf(c) => rows'[t] = rows[t]
         /\ \A t \in Tables : \A k \in Fixture[t] :
               /\ rows'[t][k] \in {rows[t][k], rows[t][k] + 1}
               /\ k \notin Batch(c, from) => rows'[t][k] = rows[t][k]
               /\ definition[t] # "keyless" => rows'[t][k] <= 1
               /\ definition[t] # "keyless" /\ rows[t][k] > 0 => rows'[t][k] = rows[t][k]
         /\ \A k \in Batch(c, from) : rows'[TableOf(c)][k] > 0
         /\ analyzed' \subseteq analyzed
         /\ \A t \in Tables : t \in analyzed /\ rows'[t] = rows[t] => t \in analyzed'
  <1> DEFINE T == TableOf(c)
             B == Batch(c, from)
             New == [k \in Fixture[T] |->
                       IF k \in B /\ (definition[T] = "keyless" \/ rows[T][k] = 0)
                       THEN rows[T][k] + 1 ELSE rows[T][k]]
  <1>1. T \in Tables /\ B \subseteq Fixture[T]
    BY BatchRows, RowPlaces
  <1>2. DOMAIN rows = Tables /\ \A t \in Tables : DOMAIN rows[t] = Fixture[t] /\ rows[t] \in [Fixture[t] -> Nat]
    <2>1. DOMAIN rows = Tables
      BY DEF RowsIn
    <2>2. ASSUME NEW t \in Tables PROVE DOMAIN rows[t] = Fixture[t] /\ rows[t] \in [Fixture[t] -> Nat]
      <3>1. rows[t] \in [Fixture[t] -> 0 .. 2 * MaxCommands]
        BY DEF SchemaTypeOK
      <3>2. \A k \in Fixture[t] : rows[t][k] \in Nat
        BY RowsAreNumbers
      <3> QED
        BY <3>1, <3>2
    <2> QED
      BY <2>1, <2>2
  <1>3. rows' = [rows EXCEPT ![T] = New]
    BY <1>1, <1>2 DEF InsertBatch, TableOf
  <1>4. analyzed' = IF rows'[T] = rows[T] THEN analyzed ELSE analyzed \ {T}
    BY DEF InsertBatch, TableOf
  <1>5. New \in [Fixture[T] -> Nat]
    BY <1>1, <1>2
  <1>6. /\ DOMAIN rows' = Tables /\ rows'[T] = New
        /\ \A t \in Tables : t # T => rows'[t] = rows[t]
    BY <1>1, <1>2, <1>3
  <1>7. \A t \in Tables : \A k \in Fixture[t] : definition[t] # "keyless" => rows[t][k] <= 1
    BY DEF RowsIn
  <1>8. ASSUME NEW k \in Fixture[T]
        PROVE  /\ New[k] \in {rows[T][k], rows[T][k] + 1}
               /\ k \notin B => New[k] = rows[T][k]
               /\ definition[T] # "keyless" => New[k] <= 1
               /\ definition[T] # "keyless" /\ rows[T][k] > 0 => New[k] = rows[T][k]
               /\ k \in B => New[k] > 0
    <2>1. rows[T][k] \in Nat
      BY <1>1, <1>2
    <2> QED
      BY <1>1, <1>7, <2>1
  <1> HIDE DEF T, B, New
  <1>9. \A t \in Tables : rows'[t] \in [Fixture[t] -> Nat]
    BY <1>2, <1>5, <1>6
  <1>10. ASSUME NEW t \in Tables, NEW k \in Fixture[t]
         PROVE  /\ rows'[t][k] \in {rows[t][k], rows[t][k] + 1}
                /\ k \notin B => rows'[t][k] = rows[t][k]
                /\ definition[t] # "keyless" => rows'[t][k] <= 1
                /\ definition[t] # "keyless" /\ rows[t][k] > 0 => rows'[t][k] = rows[t][k]
    BY <1>6, <1>7, <1>8
  <1>11. \A k \in B : rows'[T][k] > 0
    BY <1>1, <1>6, <1>8
  <1>12. analyzed' \subseteq analyzed /\ \A t \in Tables : t \in analyzed /\ rows'[t] = rows[t] => t \in analyzed'
    BY <1>4
  <1> QED
    BY <1>6, <1>9, <1>10, <1>11, <1>12 DEF T, B

\* A statement is refused.
LEMMA StatementRefusedKeeps == SchemaInv /\ StatementRefused => SchemaInv'
  <1> SUFFICES ASSUME SchemaInv, StatementRefused PROVE SchemaInv'
    OBVIOUS
  <1>1. /\ SchemaTypeOK /\ Progress /\ RowsIn /\ RowsBounded /\ ReplicasSet
        /\ Statistics /\ WaitKnows /\ WaitErrorNamesPending
    BY DEF SchemaInv
  <1>2. /\ rows' = rows /\ commands' = commands /\ parent' = parent
        /\ waitCtx' = waitCtx /\ pending' = pending /\ definition' = definition
        /\ replica' = replica /\ available' = available /\ analyzed' = analyzed
        /\ start' = start /\ index' = index /\ point' = "failed"
        /\ failure' = Failed("statement", "network", {})
        /\ point \in Statements \ {"poll"}
    BY DEF StatementRefused, SchemaFails
  <1>3. failure = NoFailure
    BY <1>1, <1>2 DEF WaitKnows, Statements
  <1>4. late' = late \/ (point = "seed" /\ late' = late \cup {[call |-> index, from |-> start]})
    BY DEF StatementRefused
  <1>5. RowsIn' /\ RowsBounded'
    <2>1. point \notin Broken /\ point' \in Broken
      BY <1>2 DEF Broken, Statements
    <2> QED
      BY <1>1, <1>2, <1>4, <2>1, RowsLeft
  <1>6. SchemaTypeOK'
    <2>1. late' \subseteq [call : 1 .. SeedCalls, from : Nat]
      <3>1. point = "seed" => [call |-> index, from |-> start] \in [call : 1 .. SeedCalls, from : Nat]
        BY <1>1 DEF SchemaTypeOK, Progress, Calls
      <3>2. late \subseteq [call : 1 .. SeedCalls, from : Nat]
        BY <1>1 DEF SchemaTypeOK
      <3> QED
        BY <1>4, <3>1, <3>2
    <2>2. failure' \in [kind : {"none", "statement", "timed out", "plain"},
                       cause : {"none", "network", "deadline", "cancelled"},
                       tables : SUBSET Tables]
      BY <1>2, <1>3, StatementError
    <2> QED
      BY <1>1, <1>2, <2>1, <2>2 DEF SchemaTypeOK, SchemaPoints
  <1>7. Progress' /\ ReplicasSet' /\ Statistics' /\ WaitKnows'
    BY <1>2 DEF Progress, ReplicasSet, Statistics, WaitKnows
  <1>8. WaitErrorNamesPending'
    BY <1>2, <1>3, StatementError
  <1> QED
    BY <1>5, <1>6, <1>7, <1>8 DEF SchemaInv

\* The process dies.
LEMMA KillKeeps == SchemaInv /\ Kill => SchemaInv' /\ point' = "killed"
  <1> SUFFICES ASSUME SchemaInv, Kill PROVE SchemaInv' /\ point' = "killed"
    OBVIOUS
  <1>1. /\ SchemaTypeOK /\ Progress /\ RowsIn /\ RowsBounded /\ ReplicasSet
        /\ Statistics /\ WaitKnows /\ WaitErrorNamesPending
    BY DEF SchemaInv
  <1>2. /\ rows' = rows /\ commands' = commands /\ parent' = parent
        /\ waitCtx' = waitCtx /\ pending' = pending /\ definition' = definition
        /\ replica' = replica /\ available' = available /\ analyzed' = analyzed
        /\ start' = start /\ index' = index /\ point' = "killed" /\ failure' = failure
        /\ point \in Statements \cup {"pause"}
    BY DEF Kill
  <1>3. failure = NoFailure
    BY <1>1, <1>2 DEF WaitKnows, Statements
  <1>4. late' = late \/ (point = "seed" /\ late' = late \cup {[call |-> index, from |-> start]})
    BY DEF Kill
  <1>5. RowsIn' /\ RowsBounded'
    <2>1. point \notin Broken /\ point' \in Broken
      BY <1>2 DEF Broken, Statements
    <2> QED
      BY <1>1, <1>2, <1>4, <2>1, RowsLeft
  <1>6. SchemaTypeOK'
    <2>1. late' \subseteq [call : 1 .. SeedCalls, from : Nat]
      <3>1. point = "seed" => [call |-> index, from |-> start] \in [call : 1 .. SeedCalls, from : Nat]
        BY <1>1 DEF SchemaTypeOK, Progress, Calls
      <3>2. late \subseteq [call : 1 .. SeedCalls, from : Nat]
        BY <1>1 DEF SchemaTypeOK
      <3> QED
        BY <1>4, <3>1, <3>2
    <2> QED
      BY <1>1, <1>2, <2>1 DEF SchemaTypeOK, SchemaPoints
  <1>7. Progress' /\ ReplicasSet' /\ Statistics' /\ WaitKnows'
    BY <1>2, <1>3 DEF Progress, ReplicasSet, Statistics, WaitKnows
  <1>8. WaitErrorNamesPending'
    BY <1>2, <1>3, StatementError
  <1> QED
    BY <1>2, <1>5, <1>6, <1>7, <1>8 DEF SchemaInv

\* The types of the rows follow from their bound.
LEMMA RowTypes ==
  ASSUME RowsBounded, commands \in 1 .. MaxCommands,
         \A t \in Tables : rows[t] \in [Fixture[t] -> Nat]
  PROVE  \A t \in Tables : rows[t] \in [Fixture[t] -> 0 .. 2 * MaxCommands]
  <1> SUFFICES ASSUME NEW t \in Tables, NEW k \in Fixture[t]
               PROVE  rows[t][k] \in 0 .. 2 * MaxCommands
    OBVIOUS
  <1>1. IsFiniteSet(late)
    BY DEF RowsBounded
  <1>2. Cardinality(late) \in Nat
    BY <1>1, FS_CardinalityType
  <1>3. rows[t][k] + Cardinality(late) <= 2 * commands - (IF point \in Broken THEN 0 ELSE 1)
    BY DEF RowsBounded
  <1>4. rows[t][k] \in Nat /\ commands \in 1 .. MaxCommands /\ MaxCommands \in Nat
    BY Sizes
  <1> QED
    BY <1>2, <1>3, <1>4

\* A batch comes in late, while the command does something else or none runs.
LEMMA LateInsertKeeps == SchemaInv /\ LateInsert => SchemaInv'
  <1> SUFFICES ASSUME SchemaInv, LateInsert PROVE SchemaInv'
    OBVIOUS
  <1>1. /\ SchemaTypeOK /\ Progress /\ RowsIn /\ RowsBounded /\ ReplicasSet
        /\ Statistics /\ WaitKnows /\ WaitErrorNamesPending
    BY DEF SchemaInv
  <1>2. PICK b \in late : InsertBatch(b.call, b.from) /\ late' = late \ {b}
          /\ UNCHANGED <<definition, replica, available, commands, parent, waitCtx,
                         progress, pending, failure>>
    BY DEF LateInsert
  <1>3. b.call \in Calls /\ b.from \in Nat
    BY <1>1, <1>2 DEF SchemaTypeOK, Calls
  <1> DEFINE B == Batch(b.call, b.from)
  <1>4. /\ DOMAIN rows' = Tables
        /\ \A t \in Tables : rows'[t] \in [Fixture[t] -> Nat]
        /\ \A t \in Tables : \A k \in Fixture[t] :
              /\ rows'[t][k] \in {rows[t][k], rows[t][k] + 1}
              /\ definition[t] # "keyless" => rows'[t][k] <= 1
              /\ definition[t] # "keyless" /\ rows[t][k] > 0 => rows'[t][k] = rows[t][k]
        /\ analyzed' \subseteq analyzed
        /\ \A t \in Tables : t \in analyzed /\ rows'[t] = rows[t] => t \in analyzed'
    BY <1>1, <1>2, <1>3, Inserted
  <1>5. /\ commands' = commands /\ parent' = parent /\ waitCtx' = waitCtx
        /\ pending' = pending /\ definition' = definition /\ replica' = replica
        /\ available' = available /\ start' = start /\ index' = index
        /\ point' = point /\ failure' = failure
    BY <1>2 DEF progress
  <1>6. /\ \A t \in Tables : \A k \in Fixture[t] : rows[t][k] \in Nat
        /\ commands \in Nat
    BY <1>1, RowsAreNumbers
  <1>7. \A c \in Calls : \A i \in Places(c) :
            /\ Held(c, i) \in Nat
            /\ rows'[TableOf(c)][RowsOfCall[c][i]] \in {Held(c, i), Held(c, i) + 1}
    BY <1>4, <1>6, RowPlaces DEF Held
  <1>8. RowsIn'
    <2>1. \A c \in Calls : \A i \in Places(c) : Held(c, i) > 0 => rows'[TableOf(c)][RowsOfCall[c][i]] > 0
      BY <1>7
    <2>2. point = "seed" => index \in Calls
      BY <1>1 DEF Progress
    <2>3. /\ point = "seed" =>
                /\ \A c \in Calls : c < index => \A i \in Places(c) : rows'[TableOf(c)][RowsOfCall[c][i]] > 0
                /\ \A i \in Places(index) : i <= start => rows'[TableOf(index)][RowsOfCall[index][i]] > 0
          /\ point \in Later => \A c \in Calls : \A i \in Places(c) : rows'[TableOf(c)][RowsOfCall[c][i]] > 0
      BY <1>1, <2>1, <2>2 DEF RowsIn
    <2> QED
      BY <1>4, <1>5, <2>3 DEF RowsIn, Held
  <1>9. RowsBounded'
    <2> DEFINE n == Cardinality(late)
               m == Cardinality(late')
    <2>1. IsFiniteSet(late) /\ IsFiniteSet(late') /\ n \in Nat /\ m \in Nat /\ m = n - 1
      <3>1. IsFiniteSet(late)
        BY <1>1 DEF RowsBounded
      <3> QED
        BY <1>2, <3>1, FS_RemoveElement, FS_CardinalityType
    <2>2. (Cardinality(late))' = m
      OBVIOUS
    <2> HIDE DEF n
    <2>3. \A t \in Tables : \A k \in Fixture[t] : rows'[t][k] + m <= rows[t][k] + n
      <3> SUFFICES ASSUME NEW t \in Tables, NEW k \in Fixture[t]
                   PROVE  rows'[t][k] + m <= rows[t][k] + n
        OBVIOUS
      <3>1. rows[t][k] \in Nat /\ rows'[t][k] \in {rows[t][k], rows[t][k] + 1}
        BY <1>4, <1>6
      <3> QED
        BY <2>1, <3>1
    <2> HIDE DEF m
    <2>4. /\ \A t \in Tables : \A k \in Fixture[t] :
                rows[t][k] + n <= 2 * commands - (IF point \in Broken THEN 0 ELSE 1)
          /\ point \in Early =>
                \A t \in Tables : \A k \in Fixture[t] : rows[t][k] + n <= 2 * (commands - 1)
          /\ point = "seed" =>
                /\ \A c \in Calls : c > index =>
                      \A i \in Places(c) : rows[TableOf(c)][RowsOfCall[c][i]] + n <= 2 * (commands - 1)
                /\ \A i \in Places(index) : i > start =>
                      rows[TableOf(index)][RowsOfCall[index][i]] + n <= 2 * (commands - 1)
      BY <1>1 DEF RowsBounded, Held, n
    <2>5. ASSUME NEW t \in Tables, NEW k \in Fixture[t]
          PROVE  \A z \in Int : rows[t][k] + n <= z => rows'[t][k] + m <= z
      <3>1. rows[t][k] \in Nat /\ rows'[t][k] \in Nat
        BY <1>4, <1>6
      <3> QED
        BY <2>1, <2>3, <3>1
    <2>6. /\ 2 * commands - (IF point \in Broken THEN 0 ELSE 1) \in Int
          /\ 2 * (commands - 1) \in Int
      BY <1>6
    <2>7. \A t \in Tables : \A k \in Fixture[t] :
              rows'[t][k] + m <= 2 * commands - (IF point \in Broken THEN 0 ELSE 1)
      BY <2>4, <2>5, <2>6
    <2>8. point \in Early =>
              \A t \in Tables : \A k \in Fixture[t] : rows'[t][k] + m <= 2 * (commands - 1)
      BY <2>4, <2>5, <2>6
    <2>9. ASSUME point = "seed"
          PROVE  /\ \A c \in Calls : c > index =>
                      \A i \in Places(c) : rows'[TableOf(c)][RowsOfCall[c][i]] + m <= 2 * (commands - 1)
                 /\ \A i \in Places(index) : i > start =>
                      rows'[TableOf(index)][RowsOfCall[index][i]] + m <= 2 * (commands - 1)
      <3>1. index \in Calls
        BY <1>1, <2>9 DEF Progress
      <3>2. \A c \in Calls : \A i \in Places(c) :
               rows[TableOf(c)][RowsOfCall[c][i]] + n <= 2 * (commands - 1)
                  => rows'[TableOf(c)][RowsOfCall[c][i]] + m <= 2 * (commands - 1)
        BY <2>5, <2>6, RowPlaces
      <3> QED
        BY <2>4, <2>9, <3>1, <3>2
    <2> QED
      BY <1>5, <2>1, <2>2, <2>7, <2>8, <2>9 DEF RowsBounded, Held
  <1>10. SchemaTypeOK'
    <2>1. \A t \in Tables : rows'[t] \in [Fixture[t] -> 0 .. 2 * MaxCommands]
      <3>1. commands' \in 1 .. MaxCommands
        BY <1>1, <1>5 DEF SchemaTypeOK
      <3>2. (RowsBounded /\ commands \in 1 .. MaxCommands /\ (\A t \in Tables : rows[t] \in [Fixture[t] -> Nat])
                => \A t \in Tables : rows[t] \in [Fixture[t] -> 0 .. 2 * MaxCommands])'
        BY RowTypes, PTL
      <3> QED
        BY <1>4, <1>9, <3>1, <3>2
    <2> QED
      BY <1>1, <1>2, <1>4, <1>5, <2>1 DEF SchemaTypeOK
  <1>11. Statistics'
    <2> SUFFICES ASSUME NEW i \in 1 .. 7,
                        point = "done" \/ (point = "analyze" /\ i < index),
                        definition[AnalyzeOrder[i]] # "keyless"
                 PROVE  AnalyzeOrder[i] \in analyzed'
      BY <1>5 DEF Statistics
    <2> DEFINE t == AnalyzeOrder[i]
    <2>1. t \in Tables /\ t \in analyzed
      BY <1>1, TableList DEF Statistics
    <2>2. \A k \in Fixture[t] : rows[t][k] > 0
      <3>1. \A c \in Calls : \A j \in Places(c) : Held(c, j) > 0
        BY <1>1 DEF RowsIn, Later
      <3> QED
        BY <2>1, <3>1, FixtureRows DEF Held
    <2>3. rows'[t] = rows[t]
      <3>1. \A k \in Fixture[t] : rows'[t][k] = rows[t][k]
        BY <1>4, <2>1, <2>2
      <3>2. rows[t] \in [Fixture[t] -> 0 .. 2 * MaxCommands] /\ rows'[t] \in [Fixture[t] -> Nat]
        BY <1>1, <1>4, <2>1 DEF SchemaTypeOK
      <3> QED
        BY <3>1, <3>2
    <2> QED
      BY <1>4, <2>1, <2>3
  <1>12. Progress' /\ ReplicasSet'
    BY <1>1, <1>5 DEF Progress, ReplicasSet
  <1>13. WaitKnows' /\ WaitErrorNamesPending'
    BY <1>1, <1>5 DEF WaitKnows, WaitErrorNamesPending
  <1> QED
    BY <1>8, <1>9, <1>10, <1>11, <1>12, <1>13 DEF SchemaInv

\* A new command finds what the others left.
LEMMA StartAgainKeeps == SchemaInv /\ StartAgain => SchemaInv'
  <1> SUFFICES ASSUME SchemaInv, StartAgain PROVE SchemaInv'
    OBVIOUS
  <1>1. /\ SchemaTypeOK /\ Progress /\ RowsIn /\ RowsBounded /\ ReplicasSet
        /\ Statistics /\ WaitKnows /\ WaitErrorNamesPending
    BY DEF SchemaInv
  <1>2. /\ rows' = rows /\ late' = late /\ definition' = definition /\ replica' = replica
        /\ available' = available /\ analyzed' = analyzed
        /\ commands < MaxCommands /\ commands' = commands + 1
        /\ parent' = "live" /\ waitCtx' = "live" /\ point' = "connect" /\ index' = 1
        /\ start' = 0 /\ pending' = {} /\ failure' = NoFailure
    BY DEF StartAgain, database
  <1>3. commands \in 1 .. MaxCommands /\ MaxCommands \in Nat /\ SeedCalls \in Nat
    <2>1. commands \in 1 .. MaxCommands
      BY <1>1 DEF SchemaTypeOK
    <2>2. SeedCalls \in Nat /\ MaxCommands \in Nat
      BY Sizes DEF SeedCalls
    <2> QED
      BY <2>1, <2>2
  <1>4. SchemaTypeOK'
    <2>1. commands' \in 1 .. MaxCommands
      BY <1>2, <1>3
    <2>2. index' \in 1 .. (SeedCalls + Len(TableOrder))
      BY <1>2, <1>3, TableList
    <2>3. failure' \in [kind : {"none", "statement", "timed out", "plain"},
                       cause : {"none", "network", "deadline", "cancelled"},
                       tables : SUBSET Tables]
      BY <1>2 DEF NoFailure
    <2>4. point' \in SchemaPoints /\ start' \in Nat /\ pending' \subseteq Tables
      BY <1>2 DEF SchemaPoints, Statements
    <2> QED
      BY <1>1, <1>2, <2>1, <2>2, <2>3, <2>4 DEF SchemaTypeOK
  <1>5. RowsIn'
    BY <1>1, <1>2 DEF RowsIn, Later
  <1>6. RowsBounded'
    <2> DEFINE n == Cardinality(late)
    <2>1. IsFiniteSet(late) /\ n \in Nat /\ Cardinality(late') = n
      BY <1>1, <1>2, FS_CardinalityType DEF RowsBounded
    <2>2. \A t \in Tables : \A k \in Fixture[t] : rows[t][k] + n <= 2 * ((commands + 1) - 1)
      <3> SUFFICES ASSUME NEW t \in Tables, NEW k \in Fixture[t]
                   PROVE  rows[t][k] + n <= 2 * ((commands + 1) - 1)
        OBVIOUS
      <3>1. rows[t][k] \in Nat
        BY <1>1, RowsAreNumbers
      <3>2. rows[t][k] + n <= 2 * commands - (IF point \in Broken THEN 0 ELSE 1)
        BY <1>1 DEF RowsBounded
      <3> QED
        BY <1>3, <2>1, <3>1, <3>2
    <2>3. \A t \in Tables : \A k \in Fixture[t] : rows[t][k] + n <= 2 * (commands + 1) - 1
      <3> SUFFICES ASSUME NEW t \in Tables, NEW k \in Fixture[t]
                   PROVE  rows[t][k] + n <= 2 * (commands + 1) - 1
        OBVIOUS
      <3>1. rows[t][k] \in Nat
        BY <1>1, RowsAreNumbers
      <3> QED
        BY <1>3, <2>1, <2>2, <3>1
    <2> HIDE DEF n
    <2> QED
      BY <1>2, <2>1, <2>2, <2>3 DEF RowsBounded, Broken
  <1>7. Progress' /\ ReplicasSet' /\ Statistics' /\ WaitKnows' /\ WaitErrorNamesPending'
    BY <1>2 DEF Progress, ReplicasSet, Statistics, WaitKnows, WaitErrorNamesPending, NoFailure
  <1> QED
    BY <1>4, <1>5, <1>6, <1>7 DEF SchemaInv

\* A batch is answered: its rows are in, once, and no later batch was touched.
LEMMA InsertRowsKeeps == SchemaInv /\ InsertRows => SchemaInv'
  <1> SUFFICES ASSUME SchemaInv, InsertRows PROVE SchemaInv'
    OBVIOUS
  <1>1. /\ SchemaTypeOK /\ Progress /\ RowsIn /\ RowsBounded /\ ReplicasSet
        /\ Statistics /\ WaitKnows /\ WaitErrorNamesPending
    BY DEF SchemaInv
  <1>2. /\ InsertBatch(index, start) /\ NextBatch /\ late' = late
        /\ commands' = commands /\ parent' = parent /\ waitCtx' = waitCtx
        /\ pending' = pending /\ definition' = definition /\ replica' = replica
        /\ available' = available /\ failure' = failure /\ point = "seed"
    BY DEF InsertRows
  <1>3. index \in Calls /\ start \in Nat /\ pending = {} /\ failure = NoFailure
    BY <1>1, <1>2 DEF SchemaTypeOK, Progress, WaitKnows
  <1> DEFINE B == Batch(index, start)
  <1>4. /\ DOMAIN rows' = Tables
        /\ \A t \in Tables : /\ rows'[t] \in [Fixture[t] -> Nat]
                             /\ t # TableOf(index) => rows'[t] = rows[t]
        /\ \A t \in Tables : \A k \in Fixture[t] :
              /\ rows'[t][k] \in {rows[t][k], rows[t][k] + 1}
              /\ k \notin B => rows'[t][k] = rows[t][k]
              /\ definition[t] # "keyless" => rows'[t][k] <= 1
        /\ \A k \in B : rows'[TableOf(index)][k] > 0
        /\ analyzed' \subseteq analyzed
    BY <1>1, <1>2, <1>3, Inserted
  <1>5. /\ \A t \in Tables : \A k \in Fixture[t] : rows[t][k] \in Nat
        /\ commands \in Nat /\ BatchSize \in Nat \ {0} /\ SeedCalls \in Nat \ {0}
        /\ Len(RowsOfCall[index]) \in Nat /\ Places(index) = 1 .. Len(RowsOfCall[index])
    <2>1. \A t \in Tables : \A k \in Fixture[t] : rows[t][k] \in Nat
      BY <1>1, RowsAreNumbers
    <2>2. commands \in Nat
      BY <1>1, RowsAreNumbers
    <2>3. BatchSize \in Nat \ {0} /\ SeedCalls \in Nat \ {0}
      BY Sizes DEF SeedCalls
    <2>4. Len(RowsOfCall[index]) \in Nat /\ Places(index) = 1 .. Len(RowsOfCall[index])
      BY <1>3, PlacesOf DEF Places
    <2> QED
      BY <2>1, <2>2, <2>3, <2>4
  <1>6. \/ /\ point' = "seed" /\ index' = index /\ start' = start + BatchSize
        \/ /\ ~(start + BatchSize < Len(RowsOfCall[index]))
           /\ point' = "seed" /\ index' = index + 1 /\ index < SeedCalls /\ start' = 0
        \/ /\ ~(start + BatchSize < Len(RowsOfCall[index]))
           /\ point' = "replicas" /\ index' = 1 /\ ~(index < SeedCalls) /\ start' = 0
    BY <1>2 DEF NextBatch
  <1> DEFINE New(c, i) == rows'[TableOf(c)][RowsOfCall[c][i]]
             Sent(c, i) == c < index \/ (c = index /\ i <= start + BatchSize)
  <1>7. ASSUME NEW c \in Calls, NEW i \in Places(c)
        PROVE  /\ c \in Nat /\ i \in Nat /\ Held(c, i) \in Nat
               /\ New(c, i) \in {Held(c, i), Held(c, i) + 1}
               /\ Sent(c, i) => New(c, i) > 0
               /\ ~Sent(c, i) => New(c, i) = Held(c, i)
    <2>1. /\ c \in Nat /\ i \in Nat /\ TableOf(c) \in Tables
          /\ RowsOfCall[c][i] \in Fixture[TableOf(c)]
      BY RowPlaces
    <2>2. Held(c, i) \in Nat /\ New(c, i) \in {Held(c, i), Held(c, i) + 1}
      BY <1>4, <1>5, <2>1 DEF Held
    <2>3. ASSUME Sent(c, i) PROVE New(c, i) > 0
      <3>1. CASE c < index \/ (c = index /\ i <= start)
        <4>1. Held(c, i) > 0
          BY <1>1, <1>2, <3>1 DEF RowsIn
        <4> QED
          BY <2>2, <4>1
      <3>2. CASE c = index /\ i > start /\ i <= start + BatchSize
        <4>1. RowsOfCall[c][i] \in B
          BY <1>3, <3>2, BatchRows
        <4> QED
          BY <1>4, <3>2, <4>1
      <3> QED
        BY <1>3, <2>1, <2>3, <3>1, <3>2
    <2>4. ASSUME ~Sent(c, i) PROVE New(c, i) = Held(c, i)
      <3>1. CASE TableOf(c) # TableOf(index)
        BY <1>4, <2>1, <3>1 DEF Held
      <3>2. CASE TableOf(c) = TableOf(index)
        <4>1. RowsOfCall[c][i] \notin B
          BY <1>3, <2>4, <3>2, BatchRows
        <4> QED
          BY <1>4, <2>1, <4>1 DEF Held
      <3> QED
        BY <3>1, <3>2
    <2> QED
      BY <2>1, <2>2, <2>3, <2>4
  <1>8. index \in Nat /\ Calls = 1 .. SeedCalls
    BY <1>3, RowPlaces DEF Calls
  <1>9. ASSUME NEW c \in Calls, NEW i \in Places(c)
        PROVE  /\ point' = "seed" => (c < index' \/ (c = index' /\ i <= start') => Sent(c, i))
               /\ point' = "seed" => (c > index' \/ (c = index' /\ i > start')
                                         => ~Sent(c, i) /\ (c > index \/ (c = index /\ i > start)))
               /\ point' = "replicas" => Sent(c, i)
    <2>1. c \in 1 .. SeedCalls /\ c \in Nat /\ i \in Nat \ {0}
      BY <1>8, RowPlaces
    <2>2. c = index => i <= Len(RowsOfCall[index])
      BY <1>5
    <2> QED
      BY <1>3, <1>5, <1>6, <1>8, <2>1, <2>2
  <1>10. point' = "seed" => index' \in Calls
    BY <1>3, <1>5, <1>6, <1>8
  <1>11. RowsIn'
    <2>1. \A t \in Tables : definition'[t] # "keyless" => \A k \in Fixture[t] : rows'[t][k] <= 1
      BY <1>2, <1>4
    <2>2. point' = "seed" =>
             /\ \A c \in Calls : c < index' => \A i \in Places(c) : New(c, i) > 0
             /\ \A i \in Places(index') : i <= start' => New(index', i) > 0
      BY <1>7, <1>9, <1>10
    <2>3. point' \in Later => \A c \in Calls : \A i \in Places(c) : New(c, i) > 0
      BY <1>6, <1>7, <1>9 DEF Later
    <2> QED
      BY <1>4, <2>1, <2>2, <2>3 DEF RowsIn, Held
  <1>12. RowsBounded'
    <2> DEFINE n == Cardinality(late)
    <2>1. IsFiniteSet(late) /\ n \in Nat /\ Cardinality(late') = n
      BY <1>1, <1>2, FS_CardinalityType DEF RowsBounded
    <2>2. \A t \in Tables : \A k \in Fixture[t] : rows'[t][k] + n <= 2 * commands - 1
      <3> SUFFICES ASSUME NEW t \in Tables, NEW k \in Fixture[t]
                   PROVE  rows'[t][k] + n <= 2 * commands - 1
        OBVIOUS
      <3>1. rows[t][k] \in Nat /\ rows'[t][k] \in {rows[t][k], rows[t][k] + 1}
        BY <1>4, <1>5
      <3>2. rows[t][k] + n <= 2 * commands - 1
        BY <1>1, <1>2 DEF RowsBounded, Broken
      <3>3. CASE rows'[t][k] = rows[t][k]
        BY <3>2, <3>3
      <3>4. CASE rows'[t][k] # rows[t][k]
        <4>1. k \in B /\ t = TableOf(index)
          BY <1>4, <3>4
        <4>2. PICK c \in Calls : TableOf(c) = t /\ \E i \in Places(c) : k = RowsOfCall[c][i]
          BY FixtureRows
        <4>3. PICK i \in Places(c) : k = RowsOfCall[c][i]
          BY <4>2
        <4>4. c = index /\ i > start
          BY <1>3, <4>1, <4>2, <4>3, BatchRows
        <4>5. Held(index, i) + n <= 2 * (commands - 1)
          BY <1>1, <1>2, <4>3, <4>4 DEF RowsBounded
        <4>6. Held(index, i) = rows[t][k]
          BY <4>1, <4>3, <4>4 DEF Held
        <4> QED
          BY <1>5, <2>1, <3>1, <4>5, <4>6
      <3> QED
        BY <3>3, <3>4
    <2>3. ASSUME NEW c \in Calls, NEW i \in Places(c), c > index \/ (c = index /\ i > start)
          PROVE  Held(c, i) + n <= 2 * (commands - 1)
      BY <1>1, <1>2, <2>3 DEF RowsBounded
    <2> HIDE DEF n
    <2>4. point' = "seed" =>
             /\ \A c \in Calls : c > index' => \A i \in Places(c) : New(c, i) + n <= 2 * (commands - 1)
             /\ \A i \in Places(index') : i > start' => New(index', i) + n <= 2 * (commands - 1)
      BY <1>7, <1>9, <1>10, <2>3
    <2>5. point' \notin Broken /\ point' \notin Early
      BY <1>6 DEF Broken, Early
    <2> QED
      BY <1>2, <2>1, <2>2, <2>4, <2>5 DEF RowsBounded, Held
  <1> HIDE DEF New, Sent
  <1>13. SchemaTypeOK'
    <2>1. \A t \in Tables : rows'[t] \in [Fixture[t] -> 0 .. 2 * MaxCommands]
      <3>1. commands' \in 1 .. MaxCommands
        BY <1>1, <1>2 DEF SchemaTypeOK
      <3>2. (RowsBounded /\ commands \in 1 .. MaxCommands /\ (\A t \in Tables : rows[t] \in [Fixture[t] -> Nat])
                => \A t \in Tables : rows[t] \in [Fixture[t] -> 0 .. 2 * MaxCommands])'
        BY RowTypes, PTL
      <3> QED
        BY <1>4, <1>12, <3>1, <3>2
    <2>2. index' \in 1 .. (SeedCalls + Len(TableOrder))
      BY <1>3, <1>5, <1>6, <1>8, TableList
    <2>3. start' \in Nat /\ point' \in SchemaPoints
      BY <1>3, <1>5, <1>6 DEF SchemaPoints, Statements
    <2>4. analyzed' \subseteq Tables /\ late' \subseteq [call : 1 .. SeedCalls, from : Nat]
      BY <1>1, <1>2, <1>4 DEF SchemaTypeOK
    <2> QED
      BY <1>1, <1>2, <2>1, <2>2, <2>3, <2>4 DEF SchemaTypeOK
  <1>14. Progress'
    BY <1>6, <1>10 DEF Progress
  <1>15. ReplicasSet' /\ Statistics'
    <2>1. \A i \in 1 .. 9 : ~(i < 1)
      OBVIOUS
    <2> QED
      BY <1>6, <2>1 DEF ReplicasSet, Statistics
  <1>16. WaitKnows' /\ WaitErrorNamesPending'
    <2>1. WaitErrorNamesPending'
      BY <1>2, <1>3, StatementError
    <2> QED
      BY <1>2, <1>3, <1>6, <2>1 DEF WaitKnows
  <1> QED
    BY <1>11, <1>12, <1>13, <1>14, <1>15, <1>16 DEF SchemaInv

\* Every step of the command keeps the invariant.
LEMMA SchemaStepKeeps == SchemaInv /\ SchemaStep => SchemaInv'
  BY StatementRefusedKeeps, ConnectKeeps, SelectSchemaKeeps, CreateTableKeeps,
     InsertRowsKeeps, SetReplicaKeeps, PollKeeps, PollFailsKeeps, PauseElapsesKeeps,
     PauseEndsKeeps, AnalyzeTableKeeps DEF SchemaStep

\* What the properties say follows from it.
LEMMA SchemaProperties ==
  SchemaInv => SchemaTypeOK /\ FixtureIsExact /\ SchemaIsReady /\ WaitErrorNamesPending
  <1> SUFFICES ASSUME SchemaInv PROVE FixtureIsExact /\ SchemaIsReady
    BY DEF SchemaInv
  <1>1. SchemaTypeOK /\ RowsIn /\ ReplicasSet /\ Statistics
    BY DEF SchemaInv
  <1>2. ASSUME NEW t \in Tables, definition[t] # "keyless", NEW k \in Fixture[t]
        PROVE  rows[t][k] <= 1 /\ (point = "done" => rows[t][k] = 1)
    <2>1. rows[t][k] <= 1
      BY <1>1, <1>2 DEF RowsIn
    <2>2. ASSUME point = "done" PROVE rows[t][k] > 0
      <3>1. PICK c \in Calls : TableOf(c) = t /\ \E i \in Places(c) : k = RowsOfCall[c][i]
        BY FixtureRows
      <3>2. PICK i \in Places(c) : k = RowsOfCall[c][i]
        BY <3>1
      <3>3. Held(c, i) > 0
        BY <1>1, <2>2 DEF RowsIn, Later
      <3> QED
        BY <3>1, <3>2, <3>3 DEF Held
    <2>3. rows[t][k] \in Nat
      BY <1>1, RowsAreNumbers
    <2> QED
      BY <2>1, <2>2, <2>3
  <1>3. FixtureIsExact
    BY <1>2, FixtureTotal DEF FixtureIsExact
  <1>4. SchemaIsReady
    <2> SUFFICES ASSUME point = "done",
                        NEW t \in Seeded \ {"new_order"}, definition[t] # "keyless"
                 PROVE  available = Tables /\ t \in analyzed
      BY <1>1 DEF SchemaIsReady, ReplicasSet
    <2>1. PICK i \in 1 .. 7 : t = AnalyzeOrder[i]
      BY TableList
    <2> QED
      BY <1>1, <2>1 DEF ReplicasSet, Statistics
  <1> QED
    BY <1>3, <1>4
-----------------------------------------------------------------------------
(***************************************************************************)
(* The schema alone, and the validation alone.                             *)
(***************************************************************************)

\* Nothing that happens beside the command, and nothing that does not happen at all,
\* disturbs the invariant.
LEMMA SchemaInvStep == SchemaInv /\ [SchemaNext]_schemaVars => SchemaInv'
  <1> SUFFICES ASSUME SchemaInv, [SchemaNext]_schemaVars PROVE SchemaInv'
    OBVIOUS
  <1>1. CASE SchemaStep
    BY <1>1, SchemaStepKeeps
  <1>2. CASE SchemaEnvironment
    BY <1>2, WaitExpiresKeeps, SchemaInterruptKeeps, KillKeeps, LateInsertKeeps,
       ReplicaAvailableKeeps DEF SchemaEnvironment
  <1>3. CASE RerunSchema
    BY <1>3, StartAgainKeeps DEF RerunSchema
  <1>4. CASE UNCHANGED schemaVars
    <2>1. SchemaTypeOK'
      BY <1>4 DEF SchemaInv, schemaVars, database, progress, SchemaTypeOK
    <2>3. Progress' /\ ReplicasSet' /\ Statistics'
      BY <1>4 DEF SchemaInv, schemaVars, database, progress, Progress, ReplicasSet, Statistics
    <2>4. WaitKnows' /\ WaitErrorNamesPending'
      BY <1>4 DEF SchemaInv, schemaVars, database, progress, WaitKnows, WaitErrorNamesPending
    <2>2. RowsIn' /\ RowsBounded'
      BY <1>4, RowsKept, RowsAreNumbers DEF SchemaInv, schemaVars, database, progress
    <2> QED
      BY <2>1, <2>2, <2>3, <2>4 DEF SchemaInv
  <1> QED
    BY <1>1, <1>2, <1>3, <1>4 DEF SchemaNext

\* The preparation of the schema keeps its invariant, for every size of the fixture
\* and of its batches and however many commands are run
\* (prepare/tpcc_schema.go, prepare/tpcc_tiflash.go).
THEOREM SchemaInvariant == SchemaSpec => []SchemaInv
  BY InitSchemaInv, SchemaInvStep, PTL DEF SchemaSpec

\* What a schema command promises, whoever runs it: the fixture is exact, the schema
\* is ready when it is done, and an error of the wait names what was waited for.
THEOREM SchemaCorrect == SchemaSpec => [](FixtureIsExact /\ SchemaIsReady /\ WaitErrorNamesPending)
  BY SchemaInvariant, SchemaProperties, PTL

\* The validation of the bindings keeps its invariant, for every number of workloads
\* (prepare/tpcc_runner.go:100-200).
THEOREM BindingInvariant == Spec => []BindingInv
  BY InitBindingInv, BindingInvStep, PTL DEF Spec

\* What the properties of the validation say follows from its invariant.
LEMMA BindingProperties == BindingInv => NoBindingLeftBehind /\ RetainedHintForcesPlanIfAny
  <1> SUFFICES ASSUME BindingInv PROVE NoBindingLeftBehind /\ RetainedHintForcesPlanIfAny
    OBVIOUS
  <1>1. TypeOK /\ OneBound /\ TrialKnown /\ JudgedSoFar
    BY DEF BindingInv
  <1>2. NoBindingLeftBehind
    BY <1>1 DEF NoBindingLeftBehind, OneBound, TrialKnown
  <1>3. RetainedHintForcesPlanIfAny
    BY <1>1 DEF RetainedHintForcesPlanIfAny, JudgedSoFar, Judged
  <1> QED
    BY <1>2, <1>3
-----------------------------------------------------------------------------
(***************************************************************************)
(* The command.                                                            *)
(***************************************************************************)

\* Where the schema and the validation are at each stage of the command.
StageInv ==
    /\ stage \in Running \cup Exited
    /\ stage = "schema" => pc = "natural" /\ w = 1
    /\ stage \in {"validate", "run", "ok"} => point = "done"
    /\ stage = "error" => point \in {"failed", "done"}
    /\ stage = "killed" => point \in {"killed", "done"}

\* The invariant of the whole.
CommandInv == BindingInv /\ SchemaInv /\ StageInv

\* The command starts with the invariant.
LEMMA InitCommandInv == PrepareInit => CommandInv
  <1> SUFFICES ASSUME PrepareInit PROVE CommandInv
    OBVIOUS
  <1>1. BindingInv /\ SchemaInv
    BY InitBindingInv, InitSchemaInv DEF PrepareInit
  <1>2. StageInv
    BY DEF PrepareInit, Init, StageInv, Running, Exited
  <1> QED
    BY <1>1, <1>2 DEF CommandInv

\* The workloads are there, the first of them is 1.
LEMMA FirstWorkload == 1 \in Workloads /\ \A x \in Workloads : ~(x < 1)
  BY NAssumption DEF Workloads

\* Before the first workload is explained there is nothing to know; so the hints can be
\* drawn then.
LEMMA HintsDrawn ==
  ASSUME BindingInv, pc = "natural", w = 1, hint' \in [Workloads -> Hints],
         UNCHANGED <<planOf, bound, pc, w, trial, retrying, natural, result, dropFailed, alive>>
  PROVE  BindingInv'
  <1>1. TypeOK' /\ OneBound'
    BY DEF BindingInv, TypeOK, OneBound
  <1>2. TrialKnown'
    BY DEF TrialKnown
  <1>3. JudgedSoFar'
    BY FirstWorkload DEF JudgedSoFar
  <1> QED
    BY <1>1, <1>2, <1>3 DEF BindingInv

\* A closed session has no bindings, and nothing else changes.
LEMMA SessionClosed ==
  ASSUME BindingInv, CloseSession,
         UNCHANGED <<planOf, hint, pc, w, trial, retrying, natural, result, dropFailed>>
  PROVE  BindingInv'
  <1>1. TypeOK'
    BY DEF BindingInv, TypeOK, CloseSession
  <1>2. OneBound'
    BY DEF OneBound, CloseSession
  <1>3. TrialKnown' /\ JudgedSoFar'
    BY DEF BindingInv, TrialKnown, JudgedSoFar, Judged
  <1> QED
    BY <1>1, <1>2, <1>3 DEF BindingInv

\* A new process knows nothing yet.
LEMMA NewProcess ==
  ASSUME hint' = Undrawn, planOf' = Unseen, bound' = [x \in Workloads |-> "none"],
         pc' = "natural", w' = 1, alive' = TRUE, dropFailed' = FALSE,
         trial' = "use_index", retrying' = FALSE, natural' = "natural", result' = "error"
  PROVE  BindingInv'
  <1>1. TypeOK'
    <2>1. planOf' \in [Workloads -> [Hints -> Plans \cup {"unseen"}]]
      BY DEF Unseen
    <2>2. hint' \in [Workloads -> Hints] /\ bound' \in [Workloads -> Hints \cup {"none"}]
      BY DEF Undrawn, Hints
    <2>3. w' \in Workloads /\ pc' \in Points
      BY FirstWorkload DEF Points
    <2> QED
      BY <2>1, <2>2, <2>3 DEF TypeOK, Plans, Hints
  <1>2. OneBound' /\ TrialKnown'
    BY DEF OneBound, TrialKnown
  <1>3. JudgedSoFar'
    BY FirstWorkload DEF JudgedSoFar
  <1> QED
    BY <1>1, <1>2, <1>3 DEF BindingInv

\* Every step of the command, of TiDB and of whoever interrupts, kills or repeats it
\* keeps the invariant.
LEMMA CommandInvStep == CommandInv /\ [PrepareNext]_commandVars => CommandInv'
  <1> SUFFICES ASSUME CommandInv, [PrepareNext]_commandVars PROVE CommandInv'
    OBVIOUS
  <1>0. BindingInv /\ SchemaInv /\ StageInv
    BY DEF CommandInv
  <1>a. UNCHANGED validationVars => BindingInv' /\ UNCHANGED <<pc, w>>
    BY <1>0, BindingInvStep DEF validationVars, vars, session
  <1>b. UNCHANGED schemaVars => SchemaInv' /\ UNCHANGED point
    BY <1>0, SchemaInvStep DEF schemaVars, progress
  <1>1. CASE PrepareSchema
    <2>1. BindingInv' /\ UNCHANGED <<pc, w, stage>> /\ stage = "schema"
      BY <1>1, <1>a DEF PrepareSchema
    <2>2. SchemaInv'
      BY <1>0, <1>1, SchemaStepKeeps DEF PrepareSchema
    <2> QED
      BY <1>0, <2>1, <2>2 DEF CommandInv, StageInv
  <1>2. CASE BeginValidation
    <2>1. SchemaInv' /\ UNCHANGED point
      BY <1>2, <1>b DEF BeginValidation
    <2>2. BindingInv'
      BY <1>0, <1>2, HintsDrawn DEF BeginValidation, StageInv
    <2>3. StageInv'
      BY <1>2, <2>1 DEF BeginValidation, StageInv, Running
    <2> QED
      BY <2>1, <2>2, <2>3 DEF CommandInv
  <1>3. CASE Validate
    <2>1. SchemaInv' /\ UNCHANGED point
      BY <1>3, <1>b DEF Validate
    <2>2. BindingInv'
      BY <1>0, <1>3, BindingInvStep DEF Validate, UnderContext, BesideContext, Next
    <2>3. StageInv'
      BY <1>0, <1>3, <2>1 DEF Validate, StageInv
    <2> QED
      BY <2>1, <2>2, <2>3 DEF CommandInv
  <1>4. CASE BeginWorkload
    <2>1. SchemaInv' /\ UNCHANGED point /\ BindingInv'
      BY <1>4, <1>a, <1>b DEF BeginWorkload
    <2>2. StageInv'
      BY <1>0, <1>4, <2>1 DEF BeginWorkload, StageInv, Running
    <2> QED
      BY <2>1, <2>2 DEF CommandInv
  <1>5. ASSUME NEW verdict, Exit(verdict)
        PROVE  SchemaInv' /\ BindingInv' /\ UNCHANGED point /\ stage' = verdict
    <2>1. SchemaInv' /\ UNCHANGED point /\ stage' = verdict
      BY <1>5, <1>b DEF Exit
    <2>2. BindingInv'
      BY <1>0, <1>5, SessionClosed DEF Exit
    <2> QED
      BY <2>1, <2>2
  <1>6. CASE ReturnError
    BY <1>0, <1>5, <1>6 DEF ReturnError, CommandInv, StageInv, Exited
  <1>7. CASE WorkloadEnds
    BY <1>0, <1>5, <1>7 DEF WorkloadEnds, CommandInv, StageInv, Exited
  <1>8. CASE KillPreparing
    <2>1. BindingInv'
      BY <1>8, <1>a DEF KillPreparing
    <2>2. SchemaInv' /\ point' = "killed" /\ stage' = "killed"
      BY <1>0, <1>8, KillKeeps DEF KillPreparing
    <2> QED
      BY <2>1, <2>2 DEF CommandInv, StageInv, Exited
  <1>9. CASE KillLater
    BY <1>0, <1>5, <1>9 DEF KillLater, CommandInv, StageInv, Exited
  <1>10. CASE Interrupt
    <2>1. BindingInv' /\ UNCHANGED <<pc, w, stage>>
      BY <1>10, <1>a DEF Interrupt
    <2>2. SchemaInv' /\ UNCHANGED point
      BY <1>0, <1>10, SchemaInterruptKeeps DEF Interrupt, SchemaInterrupt, progress
    <2> QED
      BY <1>0, <2>1, <2>2 DEF CommandInv, StageInv
  <1>11. CASE Beside
    <2>1. BindingInv' /\ UNCHANGED <<pc, w, stage>>
      BY <1>11, <1>a DEF Beside
    <2>2. SchemaInv' /\ UNCHANGED point
      BY <1>0, <1>11, WaitExpiresKeeps, LateInsertKeeps, ReplicaAvailableKeeps
         DEF Beside, WaitExpires, LateInsert, ReplicaAvailable, progress
    <2> QED
      BY <1>0, <2>1, <2>2 DEF CommandInv, StageInv
  <1>12. CASE Rerun
    <2>1. BindingInv'
      BY <1>12, NewProcess DEF Rerun
    <2>2. SchemaInv'
      BY <1>0, <1>12, StartAgainKeeps DEF Rerun
    <2>3. StageInv'
      BY <1>12 DEF Rerun, StageInv, Running
    <2> QED
      BY <2>1, <2>2, <2>3 DEF CommandInv
  <1>13. CASE UNCHANGED commandVars
    <2>1. BindingInv' /\ SchemaInv' /\ UNCHANGED <<pc, w, stage, point>>
      BY <1>13, <1>a, <1>b DEF commandVars
    <2> QED
      BY <1>0, <2>1 DEF CommandInv, StageInv
  <1> QED
    BY <1>1, <1>2, <1>3, <1>4, <1>6, <1>7, <1>8, <1>9, <1>10, <1>11, <1>12, <1>13
       DEF PrepareNext, CommandStep

\* The whole command keeps the invariants of its parts, however often it fails, is
\* interrupted or killed and is run again over what it left (prepare/prepare.go:45-110).
THEOREM CommandInvariant == PrepareSpec => []CommandInv
  BY InitCommandInv, CommandInvStep, PTL DEF PrepareSpec

\* Every variable of the command has its type.
THEOREM CommandTypeCorrect == PrepareSpec => []PrepareTypeOK
  <1>1. CommandInv => PrepareTypeOK
    BY DEF CommandInv, BindingInv, SchemaInv, StageInv, PrepareTypeOK
  <1> QED
    BY <1>1, CommandInvariant, PTL

\* No binding outlives its validation unless its DROP failed on a session that lives
\* on, and then the preparation fails; the natural plan is really the natural one
\* (tpcc_runner.go:166-186).
THEOREM NoBindingTheorem == PrepareSpec => []NoBindingLeftBehind
  <1>1. CommandInv => NoBindingLeftBehind
    BY BindingProperties DEF CommandInv
  <1> QED
    BY <1>1, CommandInvariant, PTL

\* A hint that does not change the plan is retained only if the other one was seen not
\* to change it either (tpcc_runner.go:132-155).
THEOREM RetainedHintTheorem == PrepareSpec => []RetainedHintForcesPlanIfAny
  <1>1. CommandInv => RetainedHintForcesPlanIfAny
    BY BindingProperties DEF CommandInv
  <1> QED
    BY <1>1, CommandInvariant, PTL

\* However many commands failed or were killed, and whatever TiDB carries out late, no
\* table with its primary key holds a row twice, a prepared schema holds every row of
\* the fixture, and the logged number is the size of the fixture
\* (tpcc_schema.go:77-83, 281-324).
THEOREM FixtureTheorem == PrepareSpec => []FixtureIsExact
  <1>1. CommandInv => FixtureIsExact
    BY SchemaProperties DEF CommandInv
  <1> QED
    BY <1>1, CommandInvariant, PTL

\* When the schema is prepared every replica is available and the statistics are of all
\* rows (tpcc_schema.go:165-181, tpcc_tiflash.go:20-81).
THEOREM ReadyTheorem == PrepareSpec => []SchemaIsReady
  <1>1. CommandInv => SchemaIsReady
    BY SchemaProperties DEF CommandInv
  <1> QED
    BY <1>1, CommandInvariant, PTL

\* A wait that ran into its deadline names every table that is still not available
\* (tpcc_tiflash.go:46-81).
THEOREM WaitErrorTheorem == PrepareSpec => []WaitErrorNamesPending
  <1>1. CommandInv => WaitErrorNamesPending
    BY SchemaProperties DEF CommandInv
  <1> QED
    BY <1>1, CommandInvariant, PTL
=============================================================================
