--------------------------- MODULE RecommendIndex ---------------------------
(***************************************************************************)
(* One index report: RecommendIndex and RenderRecommendIndex of             *)
(* diagnosis/index_advisor/recommend_index.go.  The statements of the       *)
(* summary are taken slowest first; each is handed to TiDB's index advisor, *)
(* explained as it is and then once under every advice, and the first       *)
(* MaxResults statements with an explained advice make up the report.       *)
(*                                                                          *)
(* TiDB is external: it gives any advice, and any call may be refused for   *)
(* the statement's syntax, which skips it, or fail, which ends the report.  *)
(* The weighted averages, which no step depends on, are left out.           *)
(***************************************************************************)
EXTENDS Integers, SequencesExt

CONSTANTS SummaryRows,    \* rows of the statement summary
          MaxSummaryRows, \* bound on the rows of one snapshot
          Advices,        \* rows a RECOMMEND INDEX can return
          MaxAdvices,     \* bound on the rows it returns for one statement
          MaxResults      \* recommendIndexMaxResults

ASSUME LimitAssumption == MaxResults \in Nat \ {0}

ASSUME SummaryAssumption ==
  /\ MaxSummaryRows \in Nat /\ MaxAdvices \in Nat
  /\ SummaryRows \subseteq
       [schema : {r.schema : r \in SummaryRows}, digest : Nat, sql : {r.sql : r \in SummaryRows},
        plan : {r.plan : r \in SummaryRows}, execCount : Nat, execTime : Nat]

VARIABLES
    rows,       \* the snapshot as read, kept for the properties
    pc,
    samples,    \* the aggregated statements, slowest first
    next,       \* the one the loop is at
    advices,    \* what RECOMMEND INDEX returned for it
    tried,      \* how many of them have been explained, or skipped
    completed,
    results,
    report,     \* the results in the order of the rendered report
    answers     \* what RECOMMEND INDEX has returned, kept for the properties

vars == <<rows, pc, samples, next, advices, tried, completed, results, report, answers>>
cursor == <<rows, samples, next>>
collected == <<results, report, answers>>

Current == samples[next]

-----------------------------------------------------------------------------
(* aggregateAndSortSamples.                                                 *)

Key(row) == <<row.schema, row.digest, row.sql, row.plan>>

\* Mutant: the plan is left out of the key of a sample.
SameSampleAnyPlan(a, b) == a.schema = b.schema /\ a.digest = b.digest /\ a.sql = b.sql

SameSample(a, b) == Key(a) = Key(b)

AddToSample(infos, row) ==
  LET at == SelectInSeq(infos, LAMBDA info : SameSample(info, row))
  IN IF at = 0 THEN Append(infos, row)
     ELSE [infos EXCEPT ![at].execCount = @ + row.execCount,
                        ![at].execTime = @ + row.execTime]

\* Mutant: the fastest first.
PrecedesAscending(a, b) == a.execTime < b.execTime

Precedes(a, b) ==
  a.execTime > b.execTime \/ (a.execTime = b.execTime /\ a.digest < b.digest)

\* sort.SliceStable: in order, and those that are equal in it as they were.
SliceStable(slice, Before(_, _)) ==
  LET places == DOMAIN slice
      sorted == {p \in Bijection(places, places) :
                   \A i, j \in places : i < j =>
                     \/ Before(slice[p[i]], slice[p[j]])
                     \/ ~ Before(slice[p[j]], slice[p[i]]) /\ p[i] < p[j]}
  IN {[i \in places |-> slice[p[i]]] : p \in sorted}

\* The samples leave a map in any order.
AggregateAndSortSamples(raw) ==
  LET byKey == ToSet(FoldLeft(AddToSample, << >>, raw))
  IN UNION {SliceStable(order, Precedes) : order \in SetToSeqs(byKey)}

-----------------------------------------------------------------------------
Init ==
  /\ rows = << >>
  /\ pc = "collect"
  /\ samples = << >>
  /\ next = 1
  /\ advices = << >>
  /\ tried = 0
  /\ completed = << >>
  /\ results = << >>
  /\ report = << >>
  /\ answers = {}

CollectSamples ==
  /\ pc = "collect"
  /\ \E snapshot \in BoundedSeq(SummaryRows, MaxSummaryRows) :
       /\ rows' = snapshot
       /\ samples' \in AggregateAndSortSamples(snapshot)
  /\ pc' = "sample"
  /\ UNCHANGED <<next, advices, tried, completed, collected>>

\* A call fails other than for the statement's syntax, or an advice has no
\* place in the statement: the whole report is given up.
CallFails ==
  /\ \/ pc \in {"collect", "explain"}
     \/ (pc = "sample" /\ next <= Len(samples))
     \/ (pc = "advise" /\ tried < Len(advices))
  /\ pc' = "failed"
  /\ UNCHANGED <<cursor, advices, tried, completed, collected>>

\* recommendFor.
Recommend ==
  /\ pc = "sample" /\ next <= Len(samples)
  /\ advices' \in BoundedSeq(Advices, MaxAdvices) \ {<< >>}
  /\ answers' = answers \cup {[sample |-> Current, advices |-> advices']}
  /\ pc' = "explain"
  /\ UNCHANGED <<cursor, tried, completed, results, report>>

\* Nothing is recommended, the advisor rejects the statement, or its syntax;
\* or the statement as recorded does not explain.
SkipStatement ==
  /\ \/ (pc = "sample" /\ next <= Len(samples))
     \/ pc = "explain"
  /\ next' = next + 1
  /\ pc' = "sample"
  /\ UNCHANGED <<rows, samples, advices, tried, completed, collected>>

\* Mutant: the advice completed so far is kept for the next statement.
KeepCompleted == UNCHANGED completed

ForgetCompleted == completed' = << >>

ExplainOld ==
  /\ pc = "explain"
  /\ tried' = 0
  /\ ForgetCompleted
  /\ pc' = "advise"
  /\ UNCHANGED <<cursor, advices, collected>>

\* buildHypoIndexSQL: the statement with a hint for every advice, and as it is
\* for an advice that lacks a field.
BuildHypoIndexSQL(sample, recommendations) ==
  [sample |-> sample, hints |-> {advice \in ToSet(recommendations) : advice.complete}]

\* Mutant: every advice of the statement is hinted at once.
HintedSQLOfAll == BuildHypoIndexSQL(Current, advices)

\* What the plan of the advice at hand is explained for.
HintedSQL == BuildHypoIndexSQL(Current, <<advices[tried + 1]>>)

ExplainAdvice ==
  /\ pc = "advise" /\ tried < Len(advices)
  /\ tried' = tried + 1
  /\ completed' = Append(completed, [advice |-> advices[tried + 1], newSQL |-> HintedSQL])
  /\ UNCHANGED <<cursor, pc, advices, collected>>

SkipAdvice ==
  /\ pc = "advise" /\ tried < Len(advices)
  /\ tried' = tried + 1
  /\ UNCHANGED <<cursor, pc, advices, completed, collected>>

NothingCompleted ==
  /\ pc = "advise" /\ tried = Len(advices)
  /\ completed = << >>
  /\ next' = next + 1
  /\ pc' = "sample"
  /\ UNCHANGED <<rows, samples, advices, tried, completed, collected>>

\* Mutant: one result too many.
FullAfter(count) == count > MaxResults

Full(count) == count >= MaxResults

AddResult ==
  /\ pc = "advise" /\ tried = Len(advices)
  /\ completed # << >>
  /\ results' = Append(results, [sample |-> Current, recommendations |-> completed])
  /\ next' = next + 1
  /\ pc' = IF Full(Len(results')) THEN "render" ELSE "sample"
  /\ UNCHANGED <<rows, samples, advices, tried, completed, report, answers>>

ListEnds ==
  /\ pc = "sample" /\ next > Len(samples)
  /\ pc' = "render"
  /\ UNCHANGED <<cursor, advices, tried, completed, collected>>

\* RenderRecommendIndex sorts once more.
ResultPrecedes(a, b) == Precedes(a.sample, b.sample)

RenderRecommendIndex ==
  /\ pc = "render"
  /\ report' \in SliceStable(results, ResultPrecedes)
  /\ pc' = "reported"
  /\ UNCHANGED <<cursor, advices, tried, completed, results, answers>>

\* RecommendIndex has returned, and the report is rendered.
Returned == pc \in {"reported", "failed"} /\ UNCHANGED vars

Next == \/ CollectSamples \/ CallFails \/ Recommend \/ SkipStatement \/ ExplainOld
        \/ ExplainAdvice \/ SkipAdvice \/ NothingCompleted \/ AddResult
        \/ ListEnds \/ RenderRecommendIndex \/ Returned

Spec == Init /\ [][Next]_vars

-----------------------------------------------------------------------------
\* The rows of the snapshot that ran one plan of one statement, and their counts.
Keys == {Key(rows[i]) : i \in 1..Len(rows)}
RowsOf(key) == {i \in 1..Len(rows) : Key(rows[i]) = key}
ExecCount(indices) == MapThenSumSet(LAMBDA i : rows[i].execCount, indices)
ExecTime(indices) == MapThenSumSet(LAMBDA i : rows[i].execTime, indices)

\* The loops stay within their lists, and the report within its limit.
TypeOK ==
  /\ rows \in BoundedSeq(SummaryRows, MaxSummaryRows)
  /\ pc \in {"collect", "sample", "explain", "advise", "render", "reported", "failed"}
  /\ next \in 1..(Len(samples) + 1)
  /\ tried \in Nat
  /\ pc = "advise" => tried <= Len(advices) /\ Len(completed) <= tried
  /\ Len(results) <= MaxResults

\* The report is about the slowest statements: one that was never examined is
\* not slower than any that is reported, and only a full report leaves
\* statements unexamined (README.md:79-83, recommend_index.go:220-223).
ReportedAreTheSlowest ==
  pc = "reported" =>
    LET examined == {Key(samples[i]) : i \in 1..(next - 1)}
    IN /\ \A i \in 1..Len(report), key \in Keys \ examined :
            ExecTime(RowsOf(key)) <= ExecTime(RowsOf(Key(report[i].sample)))
       /\ Keys \ examined # {} => Len(report) = MaxResults

\* Every instance that ran a plan of a statement is counted once, and every
\* other plan of that statement stays a statement of its own
\* (recommend_index.go:228-266).
SamplesAddUp ==
  pc # "collect" /\ pc # "failed" =>
    /\ {Key(samples[i]) : i \in 1..Len(samples)} = Keys
    /\ Len(samples) = Cardinality(Keys)
    /\ \A i \in 1..Len(samples) :
         /\ samples[i].execTime = ExecTime(RowsOf(Key(samples[i])))
         /\ samples[i].execCount = ExecCount(RowsOf(Key(samples[i])))

\* These are rows of that answer in their order, no row twice.
TakenFrom(recommendations, answer) ==
  \E at \in [1..Len(recommendations) -> 1..Len(answer)] :
    /\ \A j, k \in 1..Len(recommendations) : j < k => at[j] < at[k]
    /\ \A j \in 1..Len(recommendations) : recommendations[j].advice = answer[at[j]]

\* The SQL that a plan was explained for: this statement, under this advice and
\* no other; the plain statement when the advice lacks a field.
ExplainedUnder(newSQL, sample, advice) ==
  /\ newSQL.sample = sample
  /\ newSQL.hints = IF advice.complete THEN {advice} ELSE {}

\* The advice reported beside a statement is what RECOMMEND INDEX returned for
\* that very statement, row by row, in spite of skipped statements and skipped
\* advice; and the plan beside an advice was explained for that statement under
\* that advice alone.  An advice without a table, a name or columns gets the plan
\* of the plain statement, which the report still titles a plan under the hint
\* (recommend_index.go:152-219, 420-432, 487).
AdviceIsItsOwn ==
  \A i \in 1..Len(results) :
    LET sample == results[i].sample
        recommendations == results[i].recommendations
    IN /\ \E answer \in answers : /\ answer.sample = sample
                                  /\ TakenFrom(recommendations, answer.advices)
       /\ \A j \in 1..Len(recommendations) :
            ExplainedUnder(recommendations[j].newSQL, sample, recommendations[j].advice)
=============================================================================
