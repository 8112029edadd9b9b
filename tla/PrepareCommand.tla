--------------------------- MODULE PrepareCommand ---------------------------
(***************************************************************************)
(* One prepare command and the runs of it that follow, prepare.Run as main *)
(* calls it (prepare/prepare.go:45-110, cmd/main.go:53-58): on one session *)
(* it prepares the schema (TableSchema), then validates the bindings       *)
(* (BindingValidation), then runs the workload (WorkloadRunner, of which   *)
(* only the verdict is left here).  A command that failed or was killed    *)
(* may be run again over whatever it left in TiDB.                         *)
(***************************************************************************)
EXTENDS BindingValidation, TableSchema

VARIABLE stage      \* "schema", "validate", "run"; then "ok", "error" or "killed"

validationVars == vars
commandVars == <<schemaVars, validationVars, stage>>

Running == {"schema", "validate", "run"}
Exited == {"ok", "error", "killed"}

\* The hints are drawn when the process starts; nothing looks at them before the
\* schema is prepared, and until then they stand here as one value.
Undrawn == [x \in Workloads |-> "use_index"]
Unseen == [x \in Workloads |-> [h \in Hints |-> "unseen"]]

PrepareInit ==
    /\ SchemaInit
    /\ Init /\ hint = Undrawn
    /\ stage = "schema"

PrepareSchema ==
    /\ stage = "schema"
    /\ SchemaStep
    /\ UNCHANGED <<validationVars, stage>>

\* The schema is prepared: the bindings are validated on the same session.
BeginValidation ==
    /\ stage = "schema" /\ point = "done"
    /\ stage' = "validate"
    /\ hint' \in [Workloads -> Hints]
    /\ UNCHANGED <<schemaVars, planOf, bound, pc, w, trial, retrying, natural, result,
                   dropFailed, alive>>

\* A statement under the command's context succeeds only while that lives; the
\* deferred DROP has a context of its own.
UnderContext == ExplainNatural \/ CreateBinding \/ ExplainBound \/ DropBinding
BesideContext == NaturalFails \/ CreateFails \/ ExplainFails \/ DropFails \/ DeferredDrop
                    \/ KeepHint \/ RetryAlternate \/ WarnSamePlan

Validate ==
    /\ stage = "validate"
    /\ (parent = "live" /\ UnderContext) \/ BesideContext
    /\ UNCHANGED <<schemaVars, stage>>

BeginWorkload ==
    /\ stage = "validate" /\ pc = "done"
    /\ stage' = "run"
    /\ UNCHANGED <<schemaVars, validationVars>>

\* Run's deferred functions close the session, and main exits.
CloseSession == alive' = FALSE /\ bound' = [x \in Workloads |-> "none"]

Exit(verdict) ==
    /\ stage' = verdict
    /\ CloseSession
    /\ UNCHANGED <<schemaVars, planOf, hint, pc, w, trial, retrying, natural, result, dropFailed>>

ReturnError ==
    /\ \/ stage = "schema" /\ point = "failed"
       \/ stage = "validate" /\ pc = "failed"
    /\ Exit("error")

\* The workload ends; its verdict is an error whenever the command was interrupted.
WorkloadEnds ==
    /\ stage = "run"
    /\ \/ parent = "live" /\ Exit("ok")
       \/ Exit("error")

KillPreparing == stage = "schema" /\ Kill /\ stage' = "killed" /\ UNCHANGED validationVars
KillLater == stage \in {"validate", "run"} /\ Exit("killed")

Interrupt == stage \in Running /\ SchemaInterrupt /\ UNCHANGED <<validationVars, stage>>

\* TiDB, and the ten minutes.
Beside == (WaitExpires \/ LateInsert \/ \E t \in Tables : ReplicaAvailable(t))
             /\ UNCHANGED <<validationVars, stage>>

\* A new process, and a new session.
Rerun ==
    /\ stage \in Exited
    /\ StartAgain
    /\ stage' = "schema"
    /\ hint' = Undrawn /\ planOf' = Unseen /\ bound' = [x \in Workloads |-> "none"]
    /\ pc' = "natural" /\ w' = 1 /\ alive' = TRUE /\ dropFailed' = FALSE
    /\ trial' = "use_index" /\ retrying' = FALSE /\ natural' = "natural" /\ result' = "error"

CommandStep == PrepareSchema \/ BeginValidation \/ Validate \/ BeginWorkload
                  \/ ReturnError \/ WorkloadEnds

PrepareNext == CommandStep \/ KillPreparing \/ KillLater \/ Interrupt \/ Beside \/ Rerun

\* Every statement ends, with its context or an error at the latest; the timer of
\* the wait fires.  TiDB need not make a replica available, and nobody has to
\* interrupt, kill or repeat the command.
PrepareSpec ==
    /\ PrepareInit
    /\ [][PrepareNext]_commandVars
    /\ WF_commandVars(CommandStep)
    /\ WF_commandVars(WaitExpires /\ UNCHANGED <<validationVars, stage>>)
-----------------------------------------------------------------------------
\* Every variable has its type.
PrepareTypeOK ==
    /\ TypeOK
    /\ SchemaTypeOK
    /\ stage \in Running \cup Exited
    /\ stage \in {"validate", "run", "ok"} => point = "done"

\* README.md:161-162: "an existing table with the same name but a different
\* definition causes preparation to fail".
OtherDefinitionFails == stage = "ok" => \A t \in Tables : definition[t] = "own"

\* Every command ends, even if a replica never becomes available and no hint ever
\* changes a plan.
CommandEnds == stage \in Running ~> stage \in Exited
=============================================================================
