-------------------------- MODULE BindingValidation --------------------------
(***************************************************************************)
(* validateTPCCBindings and explainWithSessionBinding                      *)
(* (prepare/tpcc_runner.go:121-187): on the preparer's own connection,     *)
(* every workload is explained without a binding, then under the binding   *)
(* it has drawn and, if that does not change the plan, under the other     *)
(* one.  Any statement may fail; the binding is dropped on every way out,  *)
(* under a context that the caller's cancellation does not reach.          *)
(***************************************************************************)
EXTENDS Naturals

CONSTANT N          \* number of workloads, visited in order

ASSUME NAssumption == N \in Nat \ {0}

Hints == {"use_index", "read_from_storage_tiflash"}
Plans == {"natural", "forced"}

VARIABLES
    planOf,     \* planOf[w][h]: the plan TiDB gives to w under hint h, or "unseen"
    hint,       \* tpccWorkloads[w].bindingHint: drawn, later perhaps replaced
    bound,      \* bound[w]: the hint whose binding the session has for w
    pc,         \* the program point
    w,          \* the workload being validated
    trial,      \* the hint under trial
    retrying,   \* the alternate hint is under trial
    natural,    \* naturalPlan
    result,     \* what explainWithSessionBinding has for a result: a plan or "error"
    dropFailed, \* the deferred DROP has failed
    alive       \* the session: when its connection breaks its bindings are gone

vars == <<planOf, hint, bound, pc, w, trial, retrying, natural, result, dropFailed, alive>>
session == <<bound, alive>>

Workloads == 1 .. N
Points == {"natural", "create", "explain", "drop", "deferred", "compare", "done", "failed"}

Alternate(h) == CHOOSE g \in Hints : g # h

Init ==
    /\ planOf = [x \in Workloads |-> [h \in Hints |-> "unseen"]]
    /\ hint \in [Workloads -> Hints]
    /\ bound = [x \in Workloads |-> "none"]
    /\ pc = "natural"
    /\ w = 1
    /\ trial = "use_index"
    /\ retrying = FALSE
    /\ natural = "natural"
    /\ result = "error"
    /\ dropFailed = FALSE
    /\ alive = TRUE

\* TiDB refuses a statement, or the connection is lost: by a network error, or
\* because the driver closes it when the context of a running statement ends.
StatementFails ==
    \/ UNCHANGED session
    \/ alive' = FALSE /\ bound' = [x \in Workloads |-> "none"]

StatementSucceeds == alive /\ UNCHANGED alive

\* EXPLAIN answers with the natural plan if the session has no binding for the
\* statement, and with one plan for each binding, the same every time.
Explain(x, plan) ==
    IF bound[x] = "none" THEN plan = "natural" /\ UNCHANGED planOf
    ELSE /\ planOf[x][bound[x]] \in {"unseen", plan}
         /\ planOf' = [planOf EXCEPT ![x][bound[x]] = plan]

\* A statement of validateTPCCBindings itself fails: nothing is bound.
NaturalFails ==
    /\ pc = "natural"
    /\ StatementFails
    /\ pc' = "failed"
    /\ UNCHANGED <<planOf, hint, w, trial, retrying, natural, result, dropFailed>>

ExplainNatural ==
    /\ pc = "natural"
    /\ StatementSucceeds
    /\ \E plan \in Plans : Explain(w, plan) /\ natural' = plan
    /\ trial' = hint[w]
    /\ retrying' = FALSE
    /\ pc' = "create"
    /\ UNCHANGED <<hint, bound, w, result, dropFailed>>

\* explainWithSessionBinding: CREATE SESSION BINDING.
CreateFails ==
    /\ pc = "create"
    /\ StatementFails
    /\ pc' = "failed"
    /\ UNCHANGED <<planOf, hint, w, trial, retrying, natural, result, dropFailed>>

CreateBinding ==
    /\ pc = "create"
    /\ StatementSucceeds
    /\ bound' = [bound EXCEPT ![w] = trial]
    /\ pc' = "explain"
    /\ UNCHANGED <<planOf, hint, w, trial, retrying, natural, result, dropFailed>>

ExplainFails ==
    /\ pc = "explain"
    /\ StatementFails
    /\ result' = "error"
    /\ pc' = "deferred"
    /\ UNCHANGED <<planOf, hint, w, trial, retrying, natural, dropFailed>>

ExplainBound ==
    /\ pc = "explain"
    /\ StatementSucceeds
    /\ \E plan \in Plans : Explain(w, plan) /\ result' = plan
    /\ pc' = "drop"
    /\ UNCHANGED <<hint, bound, w, trial, retrying, natural, dropFailed>>

\* Mutant: bindingActive is cleared before the DROP.
DropFailsClearsFlag ==
    /\ pc = "drop"
    /\ StatementFails
    /\ result' = "error"
    /\ pc' = "failed"
    /\ UNCHANGED <<planOf, hint, w, trial, retrying, natural, dropFailed>>

\* The regular DROP fails: the plan is thrown away, the deferred DROP follows.
DropFails ==
    /\ pc = "drop"
    /\ StatementFails
    /\ result' = "error"
    /\ pc' = "deferred"
    /\ UNCHANGED <<planOf, hint, w, trial, retrying, natural, dropFailed>>

\* bindingActive = false, and the deferred function does nothing.
DropBinding ==
    /\ pc = "drop"
    /\ StatementSucceeds
    /\ bound' = [bound EXCEPT ![w] = "none"]
    /\ pc' = "compare"
    /\ UNCHANGED <<planOf, hint, w, trial, retrying, natural, result, dropFailed>>

\* The deferred DROP, under a context of its own; its error is joined to the one
\* being returned.
DeferredDrop ==
    /\ pc = "deferred"
    /\ \/ StatementSucceeds /\ bound' = [bound EXCEPT ![w] = "none"] /\ UNCHANGED dropFailed
       \/ StatementFails /\ dropFailed' = TRUE
    /\ pc' = "failed"
    /\ UNCHANGED <<planOf, hint, w, trial, retrying, natural, result>>

\* Mutant: one workload too many.
NextWorkloadOffByOne ==
    IF w > N THEN pc' = "done" /\ UNCHANGED w
             ELSE pc' = "natural" /\ w' = w + 1

NextWorkload ==
    IF w = N THEN pc' = "done" /\ UNCHANGED w
             ELSE pc' = "natural" /\ w' = w + 1

\* Mutant: the copy of the workload is changed and never stored.
KeepHintOnCopy ==
    /\ pc = "compare"
    /\ result # natural
    /\ NextWorkload
    /\ UNCHANGED <<planOf, session, hint, trial, retrying, natural, result, dropFailed>>

\* The bound plan differs: the hint under trial is the workload's hint.
KeepHint ==
    /\ pc = "compare"
    /\ result # natural
    /\ hint' = [hint EXCEPT ![w] = trial]
    /\ NextWorkload
    /\ UNCHANGED <<planOf, session, trial, retrying, natural, result, dropFailed>>

\* It does not: try the other hint.
RetryAlternate ==
    /\ pc = "compare"
    /\ result = natural
    /\ ~retrying
    /\ trial' = Alternate(trial)
    /\ retrying' = TRUE
    /\ pc' = "create"
    /\ UNCHANGED <<planOf, session, hint, w, natural, result, dropFailed>>

\* Neither hint changes the plan: a warning, and the original hint is retained.
WarnSamePlan ==
    /\ pc = "compare"
    /\ result = natural
    /\ retrying
    /\ NextWorkload
    /\ UNCHANGED <<planOf, session, hint, trial, retrying, natural, result, dropFailed>>

Next == \/ NaturalFails \/ ExplainNatural
        \/ CreateFails \/ CreateBinding
        \/ ExplainFails \/ ExplainBound
        \/ DropFails \/ DropBinding \/ DeferredDrop
        \/ KeepHint \/ RetryAlternate \/ WarnSamePlan

\* One goroutine, and every statement it runs ends, with an error at the latest.
Spec == Init /\ [][Next]_vars /\ WF_vars(Next)
-----------------------------------------------------------------------------
\* Every variable has its type.
TypeOK ==
    /\ planOf \in [Workloads -> [Hints -> Plans \cup {"unseen"}]]
    /\ hint \in [Workloads -> Hints]
    /\ bound \in [Workloads -> Hints \cup {"none"}]
    /\ pc \in Points
    /\ w \in Workloads
    /\ trial \in Hints
    /\ retrying \in BOOLEAN
    /\ natural \in Plans
    /\ result \in Plans \cup {"error"}
    /\ dropFailed \in BOOLEAN
    /\ alive \in BOOLEAN

\* A binding outlives its validation only if the deferred DROP failed on a session
\* that lives on, and then the whole preparation fails: the workers never start
\* beside a leftover binding (tpcc_runner.go:166-186), and the natural plan is
\* really the natural one, not that of an earlier attempt (README.md:141-142).
NoBindingLeftBehind ==
    /\ pc \in {"natural", "create", "compare", "done"} => \A x \in Workloads : bound[x] = "none"
    /\ pc = "failed" /\ (\E x \in Workloads : bound[x] # "none") => dropFailed /\ alive
    /\ pc \in {"create", "explain", "drop", "compare"} => natural = "natural"

\* When validation succeeds, the hint of every workload has been tried, and one
\* that does not change the plan is kept only if the other was seen not to change
\* it either (tpcc_runner.go:132-155).
RetainedHintForcesPlanIfAny ==
    pc = "done" => \A x \in Workloads :
        planOf[x][hint[x]] # "forced" => \A h \in Hints : planOf[x][h] = "natural"

\* prepare.go:45-46: the "recorded plans intentionally differ from the optimizer's
\* natural plans" (README.md:141-142 says it is verified).
EveryPlanDiffers ==
    pc = "done" => \A x \in Workloads : planOf[x][hint[x]] # "natural"
=============================================================================
