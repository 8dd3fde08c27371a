---------------------------- MODULE ErrorInference ----------------------------
(***************************************************************************)
(* The errors of functions that leave them out: error_flow.rs, with the    *)
(* part of semantic.rs that installs them.  infer_signatures solves the    *)
(* errors over the call graph of the templates; a function whose set has   *)
(* one error gets it as its signature.  The program is lowered again, and  *)
(* analyze solves what is still left out, over the lowered functions, and  *)
(* looks at every `?`.  One action is one turn of a `while let` loop or    *)
(* what lies between the loops.                                            *)
(***************************************************************************)
EXTENDS ErrorPaths

CONSTANT Sources  \* programs: [function -> [params, returns, body]]

VARIABLES
  functions,
  phase,       \* "infer", "analyze", "evaluate", then "rejected", "clean" or "cancelled"
  errors,      \* the errors of every candidate so far
  waiting,     \* candidates whose errors must still reach their callers
  inferred,    \* the signatures that were inferred
  diagnostics,
  cancelled    \* the request's flag, set by another thread

inferenceVars == <<functions, phase, errors, waiting, inferred, diagnostics, cancelled>>

Candidates == {d \in DOMAIN functions : functions[d].returns = "inferred"}

Signatures(fs) == [d \in DOMAIN fs |-> fs[d].returns]

Facts(d) == IF phase = "infer" THEN ScanDefinition(functions[d], Signatures(functions))
            ELSE ScanFunction(functions[d], Signatures(functions))

(* What a candidate has before the fixpoint: its own errors and those that *)
(* the functions it depends on declare.                                    *)
Own(fs, facts) ==
  [d \in {n \in DOMAIN fs : fs[n].returns = "inferred"} |->
     facts[d].errors \cup ({fs[n].returns : n \in facts[d].dependencies} \cap Error)]

Callers(callee) == {d \in Candidates : callee \in Facts(d).dependencies}

(* Mutant: a caller is not queued again once it was taken.                 *)
GrownNever(callee) == {}

Grown(callee) == {d \in Callers(callee) : ~ (errors[callee] \subseteq errors[d])}

-----------------------------------------------------------------------------

InferenceInit ==
  /\ functions \in Sources
  /\ \A d \in DOMAIN functions : WellTyped(functions[d], Signatures(functions))
  /\ phase = "infer"
  /\ errors = Own(functions, [d \in DOMAIN functions |->
                                ScanDefinition(functions[d], Signatures(functions))])
  /\ waiting = DOMAIN errors
  /\ inferred = <<>> /\ diagnostics = {} /\ cancelled = FALSE

Solving   == phase \in {"infer", "analyze"}
Answering == Solving \/ phase = "evaluate"

Propagate(callee) ==
  /\ Solving /\ ~ cancelled
  /\ callee \in waiting /\ \A d \in waiting : callee <= d
  /\ errors' = [d \in Candidates |-> IF d \in Callers(callee) THEN errors[d] \cup errors[callee]
                                     ELSE errors[d]]
  /\ waiting' = (waiting \ {callee}) \cup Grown(callee)
  /\ UNCHANGED <<functions, phase, inferred, diagnostics, cancelled>>

Installed == [d \in {n \in Candidates : Cardinality(errors[n]) = 1} |-> CHOOSE e \in errors[d] : TRUE]

Install ==
  LET resolved == [d \in DOMAIN functions |->
                     IF d \in DOMAIN Installed THEN [functions[d] EXCEPT !.returns = Installed[d]]
                     ELSE functions[d]]
  IN /\ phase = "infer" /\ waiting = {} /\ ~ cancelled
     /\ functions' = resolved
     /\ inferred' = Installed
     /\ IF \A d \in DOMAIN resolved : WellTyped(resolved[d], Signatures(resolved))
        THEN /\ phase' = "analyze"
             /\ errors' = Own(resolved, [d \in DOMAIN resolved |->
                                           ScanFunction(resolved[d], Signatures(resolved))])
             /\ waiting' = DOMAIN errors'
             /\ UNCHANGED diagnostics
        ELSE /\ phase' = "rejected"
             /\ diagnostics' = {<<0, "type_mismatch">>}
             /\ UNCHANGED <<errors, waiting>>
     /\ UNCHANGED cancelled

Diagnosed ==
  UNION {{<<d, m>> : m \in Mismatches(functions[d], PropagatedTypes(functions[d], Signatures(functions)))} :
           d \in DOMAIN functions}
  \cup {<<d, "unconstrained_inferred_error">> : d \in {n \in Candidates : errors[n] = {}}}
  \cup {<<d, "conflicting_inferred_errors">> : d \in {n \in Candidates : Cardinality(errors[n]) > 1}}

(* Compilation goes on to the evaluation only if it is clean: neither here *)
(* nor by another pass anything was diagnosed.                             *)
Ends(found) == {"rejected"} \cup {x \in {"evaluate"} : found = {}}

Conclude == /\ phase = "analyze" /\ waiting = {}
            /\ diagnostics' = Diagnosed
            /\ phase' \in Ends(Diagnosed)
            /\ UNCHANGED <<functions, errors, waiting, inferred, cancelled>>

(* infer_signatures returns nothing and its caller polls again; analyze    *)
(* returns no diagnostics, and its caller does not.                        *)
Abandon == /\ cancelled
           /\ \/ phase = "infer" /\ phase' = "cancelled"
              \/ phase = "analyze" /\ waiting # {} /\ phase' \in Ends({})
           /\ UNCHANGED <<functions, errors, waiting, inferred, diagnostics, cancelled>>

(* Mutant: the evaluation takes what it is given.                          *)
PolledNever == "clean"

(* The first charge of the evaluation polls; a program that gets there has *)
(* an image, so that there is something to charge.                         *)
Polled == IF cancelled THEN "cancelled" ELSE "clean"

Evaluate == /\ phase = "evaluate"
            /\ phase' = Polled
            /\ UNCHANGED <<functions, errors, waiting, inferred, diagnostics, cancelled>>

(* Another thread of the host.                                             *)
Cancel == /\ Answering /\ ~ cancelled
          /\ cancelled' = TRUE
          /\ UNCHANGED <<functions, phase, errors, waiting, inferred, diagnostics>>

Infer == (\E callee \in DOMAIN functions : Propagate(callee)) \/ Install \/ Conclude \/ Abandon
         \/ Evaluate

InferenceNext == Infer \/ Cancel

InferenceSpec == InferenceInit /\ [][InferenceNext]_inferenceVars

-----------------------------------------------------------------------------

(* Functions in which no error is made and handled get exactly the errors  *)
(* that leave them in their executions, through locals, branches, `await`, *)
(* `?` and recursive groups, in whatever order they were solved; others    *)
(* get at least those.  (error_flow.rs, infer_signatures.)                 *)
ErrorsInferred ==
  phase = "infer" /\ waiting = {} /\ ~ cancelled =>
    LET flows == Flows(functions)
    IN /\ \A d \in Candidates : flows[d] \subseteq errors[d]
       /\ (\A d \in DOMAIN functions : ~ HandlesErrors(functions[d])) =>
            \A d \in Candidates : errors[d] = flows[d]

(* In a program without diagnostics, in which every error that was left    *)
(* out could be inferred, every `?` that leaves a function does so with    *)
(* the error of its Result.                                                *)
(* (error_flow.rs, analyze.)                                               *)
PropagationsChecked ==
  phase = "clean" =>
    LET flows == Flows(functions)
    IN \A d \in DOMAIN functions \ Candidates : \A x \in Ending(functions[d], flows) :
         x.exit = "propagate" /\ x.value \in Error => functions[d].returns = x.value
=============================================================================
