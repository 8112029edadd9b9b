------------------------------ MODULE Comparer ------------------------------
(***************************************************************************)
(* One comparison report: diagnosis/compare, Comparer.Compare and the       *)
(* SQLRepository it reads TiDB through.                                     *)
(*                                                                          *)
(* TiDB is external.  It hands over the statement summary once, answers     *)
(* each EXPLAIN with whatever plan its optimizer picks at that moment, may  *)
(* keep a record of that EXPLAIN in its own summary, and any call may fail  *)
(* or time out.  Texts are model values, digests are numbers in the order   *)
(* of their texts, whose leading digits are what firstEight keeps.          *)
(***************************************************************************)
EXTENDS PlanTree, SequencesExt

CONSTANTS SummaryRows,    \* the rows the statement summary can hold
          MaxSummaryRows, \* bound on the rows of one snapshot
          Plans,          \* the plan texts an EXPLAIN can return
          DigestOf,       \* the plan digest TiDB gives each of them
          StaleExplains   \* EXPLAINs the summary may hold from earlier on

ASSUME SummaryAssumption ==
  /\ MaxSummaryRows \in Nat
  /\ SummaryRows \subseteq
       [schema : Nat, sqlDigest : Nat, sql : {r.sql : r \in SummaryRows},
        plan : {r.plan : r \in SummaryRows}, planDigest : Nat,
        hint : {r.hint : r \in SummaryRows}, execCount : Nat, execTime : Nat]

VARIABLES rows,        \* the snapshot as read, kept for the properties
          entries,     \* EXPLAIN entries of TiDB's own statement summary
          cancelled,   \* the request's context is done
          pc, sqlInfos, next, explained, newPlanDigest,
          totalExecCount, checkedSQLs, changedSQLs, changed,
          report       \* the changed plans in the order of the report

vars == <<rows, entries, cancelled, pc, sqlInfos, next, explained, newPlanDigest,
          totalExecCount, checkedSQLs, changedSQLs, changed, report>>
summary == <<rows, entries, cancelled>>
tallies == <<totalExecCount, checkedSQLs, changedSQLs, changed>>

NotExplained == << >>
NoDigest == 0            \* "N/A"
FirstEight(digest) == digest \div 10

Sample(info) == [schema |-> info.schema, sql |-> info.sql]
Samples == {Sample(r) : r \in SummaryRows}
SQLKey(info) == <<info.schema, info.sqlDigest>>
GroupKey(info) == <<info.schema, info.sqlDigest, info.planDigest>>

\* parsePlan and comparePlans on every text that can turn up.
PlanTexts == Plans \cup {r.plan : r \in SummaryRows} \cup {e.plan : e \in StaleExplains}

ASSUME PlanTextAssumption ==
  PlanTexts \subseteq Seq([operator : ToSet(OperatorOrder), task : ToSet(TaskOrder),
                          object : ToSet(ObjectOrder), depth : Nat])

Readable == {text \in PlanTexts : ParsePlan(text).status = "ok"}
Changes == {[old |-> one, new |-> other,
             reason |-> ComparePlans(ParsePlan(one), ParsePlan(other))] :
              one \in Readable, other \in Readable}
PlanChange(one, other) == (CHOOSE c \in Changes : c.old = one /\ c.new = other).reason
SamePlan(one, other) == [old |-> one, new |-> other, reason |-> Equal] \in Changes

-----------------------------------------------------------------------------
(* aggregateSqlInfos: one statement per schema, digest and plan digest.     *)

\* Mutant: the schema is left out of the key of a group.
SameGroupAnySchema(a, b) == a.sqlDigest = b.sqlDigest /\ a.planDigest = b.planDigest

SameGroup(a, b) == GroupKey(a) = GroupKey(b)

\* The first row of a group stays, with the counts of all of them.
AddToGroup(infos, row) ==
  LET at == SelectInSeq(infos, LAMBDA info : SameGroup(info, row))
  IN IF at = 0 THEN Append(infos, row)
     ELSE [infos EXCEPT ![at].execCount = @ + row.execCount,
                        ![at].execTime = @ + row.execTime]

Lexicographic(a, b) ==
  \E i \in 1..Len(a) : a[i] < b[i] /\ \A j \in 1..(i - 1) : a[j] = b[j]

ByDigest(a, b) == Lexicographic(<<a.sqlDigest, a.schema, a.planDigest>>,
                                <<b.sqlDigest, b.schema, b.planDigest>>)

\* The orders in which slices.SortFunc may leave a slice: it is not stable.
SortFunc(slice, Before(_, _)) ==
  LET places == DOMAIN slice
      sorted == {p \in Bijection(places, places) :
                   \A i, j \in places : i < j => ~ Before(slice[p[j]], slice[p[i]])}
  IN {[i \in places |-> slice[p[i]]] : p \in sorted}

AggregateSqlInfos(raw) == SortFunc(FoldLeft(AddToGroup, << >>, raw), ByDigest)

\* The slowest first; then by digest and plan digest.
ByExecTime(a, b) == Lexicographic(
  <<0 - a.statement.execTime, a.statement.sqlDigest, a.statement.planDigest>>,
  <<0 - b.statement.execTime, b.statement.sqlDigest, b.statement.planDigest>>)

-----------------------------------------------------------------------------
(* renderComparison: the table and the links from it into the details.      *)

\* Mutant: the anchor is the lower-case title, as often as it is asked for.
UniqueHeadingAnchorPlain(title, used) == <<title, 1>>

\* uniqueHeadingAnchor numbers the second and later uses of a title.
UniqueHeadingAnchor(title, used) ==
  <<title, 1 + Cardinality({a \in used : a[1] = title})>>

\* One table row and its sections.  Statements of one digest, schema and text
\* share the section of the SQL; the other three are the row's own.
AddTableRow(rendered, plan) ==
  LET info == plan.statement
      sqlKey == <<info.sqlDigest, info.schema, info.sql>>
      known == {s \in rendered.sqlAnchors : s.key = sqlKey}
      sql == FirstEight(info.sqlDigest)
      sqlAnchor == IF known # {} THEN (CHOOSE s \in known : TRUE).anchor
                   ELSE UniqueHeadingAnchor(<<"sql", sql>>, rendered.used)
      used1 == rendered.used \cup {sqlAnchor}
      current == UniqueHeadingAnchor(<<"current-plan", sql, FirstEight(info.planDigest)>>, used1)
      used2 == used1 \cup {current}
      new == UniqueHeadingAnchor(<<"new-plan", sql, FirstEight(plan.newPlanDigest)>>, used2)
      used3 == used2 \cup {new}
      binding == UniqueHeadingAnchor(<<"binding-stmt", sql, FirstEight(info.planDigest)>>, used3)
  IN [used |-> used3 \cup {binding},
      sqlAnchors |-> rendered.sqlAnchors \cup {[key |-> sqlKey, anchor |-> sqlAnchor]},
      table |-> Append(rendered.table, [sqlLink |-> sqlAnchor,
                                        links |-> <<current, new, binding>>])]

RenderTable(plans) ==
  FoldLeft(AddTableRow, [used |-> {}, sqlAnchors |-> {}, table |-> << >>], plans).table

-----------------------------------------------------------------------------
(* Compare.                                                                 *)

Init ==
  /\ rows = << >>
  /\ entries \in SUBSET StaleExplains
  /\ cancelled = FALSE
  /\ pc = "collect"
  /\ sqlInfos = << >>
  /\ next = 1
  /\ explained = [s \in Samples |-> NotExplained]
  /\ newPlanDigest = NoDigest
  /\ totalExecCount = 0
  /\ checkedSQLs = {} /\ changedSQLs = {} /\ changed = << >>
  /\ report = << >>

\* The loop has a statement left, and which.
Current == sqlInfos[next]
Info(at) == pc = at /\ next <= Len(sqlInfos)
NewPlan == explained[Sample(Current)]

\* compareSqlInfoQuery orders its rows, and those of one plan by instance.
InQueryOrder(snapshot) ==
  \A i, j \in 1..Len(snapshot) : i < j => ~ ByDigest(snapshot[j], snapshot[i])

\* GetSQLInfo, before EXPLAIN adds more entries to the summary.
CollectSnapshot ==
  /\ pc = "collect" /\ ~ cancelled
  /\ \E snapshot \in BoundedSeq(SummaryRows, MaxSummaryRows) :
       /\ InQueryOrder(snapshot)
       /\ rows' = snapshot
       /\ sqlInfos' \in AggregateSqlInfos(snapshot)
  /\ pc' = "statement"
  /\ UNCHANGED <<entries, cancelled, next, explained, newPlanDigest, tallies, report>>

\* Every error return of Compare: no report at all.
Fail ==
  /\ pc' = "failed"
  /\ UNCHANGED <<summary, sqlInfos, next, explained, newPlanDigest, tallies, report>>

\* Reading the summary, an EXPLAIN, or writing the binding fails; EXPLAIN
\* fails once the context is done, a statement is cut off, or TiDB refuses.
CallFails == pc \in {"collect", "explain"} /\ Fail

\* Mutant: every recorded plan is explained afresh.
AlwaysUnexplained == TRUE

Unexplained == NewPlan = NotExplained

\* The head of the loop: count the statement, then look at the context and at
\* the recorded plan.
BeginStatement ==
  /\ Info("statement")
  /\ totalExecCount' = totalExecCount + Current.execCount
  /\ checkedSQLs' = checkedSQLs \cup {SQLKey(Current)}
  /\ pc' = IF cancelled \/ Current.plan \notin Readable THEN "failed"
           ELSE IF Unexplained THEN "explain" ELSE "compare"
  /\ UNCHANGED <<summary, sqlInfos, next, explained, newPlanDigest,
                 changedSQLs, changed, report>>

ExplainEntry(plan) == [schema |-> Current.schema, sql |-> Current.sql,
                       plan |-> plan, digest |-> DigestOf[plan]]

\* executeExplainPlan; the server may keep an entry of this EXPLAIN or not.
ExplainPlan ==
  /\ Info("explain") /\ ~ cancelled
  /\ \E plan \in Plans :
       /\ explained' = [explained EXCEPT ![Sample(Current)] = plan]
       /\ entries' \in {entries, entries \cup {ExplainEntry(plan)}}
  /\ pc' = "compare"
  /\ UNCHANGED <<rows, cancelled, sqlInfos, next, newPlanDigest, tallies, report>>

\* Mutant: the statement after an equal one is left out.
SkipOnEqual == pc' = "statement" /\ next' = next + 2

NextOnEqual == pc' = "statement" /\ next' = next + 1

ComparedEqual ==
  /\ Info("compare")
  /\ NewPlan \in Readable /\ SamePlan(Current.plan, NewPlan)
  /\ NextOnEqual
  /\ UNCHANGED <<summary, sqlInfos, explained, newPlanDigest, tallies, report>>

ComparedDifferent ==
  /\ Info("compare")
  /\ NewPlan \in Readable /\ ~ SamePlan(Current.plan, NewPlan)
  /\ pc' = "digest"
  /\ UNCHANGED <<summary, sqlInfos, next, explained, newPlanDigest, tallies, report>>

NewPlanUnreadable == Info("compare") /\ NewPlan \notin Readable /\ Fail

\* Mutant: any EXPLAIN entry of the statement gives its digest.
RecordsAnyPlan(entry) == entry.sql = Current.sql

\* getNewPlanDigest: an entry for the same EXPLAIN text, in the same schema
\* when there is one, with a plan equal to the new one.
RecordsNewPlan(entry) ==
  /\ entry.sql = Current.sql
  /\ SamePlan(NewPlan, entry.plan)

InSchema(entry) == Current.schema = 0 \/ entry.schema = Current.schema

LookUpDigest ==
  /\ Info("digest") /\ ~ cancelled
  /\ \E entry \in entries : /\ InSchema(entry) /\ RecordsNewPlan(entry)
                            /\ newPlanDigest' = entry.digest
  /\ pc' = "binding"
  /\ UNCHANGED <<summary, sqlInfos, next, explained, tallies, report>>

\* planDigestUnavailable: no entry, or any error, is only logged.
DigestUnavailable ==
  /\ Info("digest")
  /\ newPlanDigest' = NoDigest
  /\ pc' = "binding"
  /\ UNCHANGED <<summary, sqlInfos, next, explained, tallies, report>>

\* getCurrentPlanBinding refuses a hint or a text it cannot combine.
BindingFails == Info("binding") /\ Current.hint = "broken" /\ Fail

ReportChange ==
  /\ Info("binding") /\ Current.hint # "broken"
  /\ changed' = Append(changed,
       [statement |-> Current, newPlan |-> NewPlan, newPlanDigest |-> newPlanDigest,
        planChange |-> PlanChange(Current.plan, NewPlan)])
  /\ changedSQLs' = changedSQLs \cup {SQLKey(Current)}
  /\ next' = next + 1
  /\ pc' = "statement"
  /\ UNCHANGED <<summary, sqlInfos, explained, newPlanDigest,
                 totalExecCount, checkedSQLs, report>>

Render ==
  /\ pc = "statement" /\ next > Len(sqlInfos)
  /\ report' \in SortFunc(changed, ByExecTime)
  /\ pc' = "reported"
  /\ UNCHANGED <<summary, sqlInfos, next, explained, newPlanDigest, tallies>>

\* The client goes away, or the server closes its connections.
Cancel ==
  /\ pc \notin {"reported", "failed"}
  /\ cancelled' = TRUE
  /\ UNCHANGED <<rows, entries, pc, sqlInfos, next, explained, newPlanDigest, tallies, report>>

Compare == \/ CollectSnapshot \/ CallFails \/ BeginStatement \/ ExplainPlan
           \/ ComparedEqual \/ ComparedDifferent \/ NewPlanUnreadable
           \/ LookUpDigest \/ DigestUnavailable \/ BindingFails \/ ReportChange
           \/ Render

\* The handler has its report or its error.
Answered == pc \in {"reported", "failed"} /\ UNCHANGED vars

Next == Compare \/ Cancel \/ Answered

Spec == Init /\ [][Next]_vars

-----------------------------------------------------------------------------
\* The loop stays within its statements, what it has found comes from those it
\* has passed, and every digest from TiDB's summary.
TypeOK ==
  /\ pc \in {"collect", "statement", "explain", "compare", "digest", "binding",
             "reported", "failed"}
  /\ cancelled \in BOOLEAN
  /\ next \in 1..(Len(sqlInfos) + 1)
  /\ explained \in [Samples -> Plans \cup {NotExplained}]
  /\ newPlanDigest \in {NoDigest} \cup {e.digest : e \in entries}
  /\ totalExecCount \in Nat
  /\ changedSQLs \subseteq checkedSQLs
  /\ checkedSQLs \subseteq {SQLKey(r) : r \in SummaryRows}
  /\ Len(changed) < next

\* The rows of the snapshot that belong to one recorded plan, and their counts.
RowsOf(key) == {i \in 1..Len(rows) : GroupKey(rows[i]) = key}
FirstOf(key) == rows[Min(RowsOf(key))]
ExecCount(indices) == MapThenSumSet(LAMBDA i : rows[i].execCount, indices)
ExecTime(indices) == MapThenSumSet(LAMBDA i : rows[i].execTime, indices)

\* A report is complete and adds up: it has a row for exactly those recorded
\* plans that differ from the one plan EXPLAIN gave for their statement, judged
\* against that plan however long the comparison took and whatever the optimizer
\* would answer later; the counts of every instance that ran a plan are in its
\* row once, with the hint of the first instance; and a plan that is neither
\* listed nor counted never was in the snapshot (compare.go:388-513,
\* README.md:46-56).
ReportIsExact ==
  pc = "reported" =>
    LET keys == {GroupKey(rows[i]) : i \in 1..Len(rows)}
        differs == {key \in keys : Outline(FirstOf(key).plan)
                                     # Outline(explained[Sample(FirstOf(key))])}
    IN /\ {GroupKey(report[i].statement) : i \in 1..Len(report)} = differs
       /\ Len(report) = Cardinality(differs)
       /\ \A i \in 1..Len(report) :
            LET info == report[i].statement
                key == GroupKey(info)
            IN /\ report[i].newPlan = explained[Sample(info)]
               /\ info.hint = FirstOf(key).hint
               /\ info.execCount = ExecCount(RowsOf(key))
               /\ info.execTime = ExecTime(RowsOf(key))
       /\ \A i \in 2..Len(report) :
            report[i - 1].statement.execTime >= report[i].statement.execTime
       /\ totalExecCount = ExecCount(1..Len(rows))
       /\ checkedSQLs = {<<key[1], key[2]>> : key \in keys}
       /\ changedSQLs = {<<key[1], key[2]>> : key \in differs}

\* A digest in the report was recorded for an EXPLAIN of the very statement it
\* stands beside, in that statement's schema when it has one, whose plan is the
\* new plan as far as the comparison reads it: never the digest of another
\* statement, of another schema, or of a plan of another outline.  It may be that
\* of an older EXPLAIN of the statement, whose outline is the same
\* (repository.go:141-212).
DigestIsOfTheNewPlan ==
  \A i \in 1..Len(changed) :
    LET info == changed[i].statement
    IN changed[i].newPlanDigest # NoDigest =>
         \E e \in entries :
           /\ e.digest = changed[i].newPlanDigest
           /\ e.sql = info.sql
           /\ info.schema # 0 => e.schema = info.schema
           /\ Outline(e.plan) = Outline(changed[i].newPlan)

\* No two sections of a report answer to the same link, even when shortened
\* digests coincide (compare.go:524-566, 585-592).
LinksLeadToTheirOwnSection ==
  LET table == RenderTable(report)
      sections == {<<i, k>> : i \in 1..Len(report), k \in 1..3}
      Target(x) == table[x[1]].links[x[2]]
  IN /\ \A x, y \in sections : Target(x) = Target(y) => x = y
     /\ \A i, j \in 1..Len(report) :
          table[i].sqlLink = table[j].sqlLink =>
            Sample(report[i].statement) = Sample(report[j].statement)

\* README.md:46-48 says a recorded plan is reported when its id or task column
\* differs from the new EXPLAIN, `while still comparing task values'.
ColumnsDiffer(a, b) ==
  [i \in 1..Len(a) |-> <<a[i].operator, a[i].task>>]
    # [i \in 1..Len(b) |-> <<b[i].operator, b[i].task>>]
EveryTaskChangeIsReported ==
  pc = "reported" =>
    \A i \in 1..Len(sqlInfos) :
      ColumnsDiffer(sqlInfos[i].plan, explained[Sample(sqlInfos[i])]) =>
        \E j \in 1..Len(report) : report[j].statement = sqlInfos[i]
=============================================================================
