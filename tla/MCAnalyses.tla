------------------------------ MODULE MCAnalyses ------------------------------
(***************************************************************************)
(* What the front end computes of a program in one go, each part on        *)
(* workloads of its own: a behaviour is one run of one of them.            *)
(*                                                                         *)
(* "facts": propagate_monotone on every graph of three functions,          *)
(* whichever are analysed. The second fact makes a node wait again after   *)
(* it was propagated; both facts have one source at most then, every node  *)
(* is analysed and none calls itself. "components": the search for         *)
(* components on every graph. "costs": the weighted costs of four          *)
(* functions. "runs": what can happen in a program against the facts that  *)
(* were concluded from it. "errors": the inference of errors. "demand":    *)
(* specializations. "selection": compile-time selection. "identities": the *)
(* catalog. "construction": what an Image Constructor builds, sealed.      *)
(* "opening": the sealing of the distribution. "syntax": one source text.  *)
(***************************************************************************)
EXTENDS MonotoneFacts, StrongComponents, WeightedCosts, SpecializationDemand, DistributionSeal,
        ConstructionSeal, FunctionRuns, IdentityCatalog, SourceGrammar

CONSTANTS First, Second   \* the facts

VARIABLES
  task,
  functions, errors, waiting, inferred, diagnostics,           \* ErrorInference
  original, selected, captured, deciding, choices              \* ComptimeSelection

Programmed == INSTANCE MCPrograms
Projected  == INSTANCE MCProjects
Sourced    == INSTANCE MCSources

Errors     == INSTANCE ErrorInference WITH Error <- {"e1", "e2"}, Sources <- Programmed!ErrorSources
Selection  == INSTANCE ComptimeSelection WITH
                ComptimeSources <- Programmed!MCComptimeSources, stage <- phase

requestVars   == <<graph, cancelled, phase>>
factVars      == <<base, facts, pending, outcome>>
componentVars == <<edges, roots, stack, visited, finishOrder, component, components>>
errorVars     == <<functions, errors, waiting, inferred, diagnostics>>
analysisVars  == <<factVars, componentVars, costVars, runVars, errorVars, demandVars>>

selectedVars    == <<original, selected, captured, deciding, choices>>
programVars     == <<selectedVars, identityVars, sealVars, distributionVars, textVars>>

all == <<task, requestVars, analysisVars, programVars>>

MCNode == 1..3

MCGraphs == [MCNode -> SUBSET MCNode]

MCFunction == 1..4

(* Calls of earlier functions, of later ones, and some that make cycles.   *)
Calling == LET pairs == MCFunction \X MCFunction
           IN (SUBSET ({e \in pairs : e[1] > e[2]} \cup {<<1, 4>>, <<2, 2>>}))
              \cup SUBSET {e \in pairs : e[1] < e[2]}

Twice(pairs) == [n \in MCFunction |-> [m \in MCFunction |-> IF <<n, m>> \in pairs THEN 2 ELSE 0]]

MCCallGraphs == [calls: {Twice(pairs) : pairs \in Calling},
                 own: {<<1, 1, 1, 1>>, <<3, 1, 2, 1>>}]

MCRevisions == Projected!MCRevision

MCLowered == Projected!Programmes

MCInstallations == Projected!MCInstalled

MCConstructors == Projected!MCConstructorSteps
MCTests        == <<"passes", "fails">>

MCTexts == Sourced!MCTexts

MCDemandPrograms == Programmed!DemandSources

Having(f) == {n \in Key : f \in base[n]}

NoGraph == [n \in Node |-> {}]
Nothing == [n \in Callable |-> 0]

-----------------------------------------------------------------------------

(* What is not running has nothing to do.                                  *)
FactsIdle      == base = <<>> /\ facts = <<>> /\ pending = {} /\ outcome = "running"
ComponentsIdle == /\ edges = NoGraph /\ roots = <<>> /\ stack = <<>> /\ visited = {} /\ finishOrder = <<>>
                  /\ component = {} /\ components = {}
CostsIdle      == /\ calls = [n \in Callable |-> Nothing] /\ own = Nothing /\ recursive = {}
                  /\ costs = Nothing /\ remaining = Nothing /\ ready = {}
RunsIdle       == /\ program = [functions |-> <<>>]
                  /\ concluded = [facts |-> <<{}>>, groups |-> <<>>, unproven |-> {}]
                  /\ start = 1 /\ frames = <<>> /\ happened = {}
ErrorsIdle     == /\ functions = <<>> /\ errors = <<>> /\ waiting = {} /\ inferred = <<>>
                  /\ diagnostics = {}
DemandIdle     == /\ source = <<>> /\ mode = "" /\ lowering = "idle" /\ lowered = {}
                  /\ evaluated = {} /\ demanded = <<>> /\ records = {} /\ missing = {}
                  /\ specialized = {} /\ interrupted = FALSE

SelectionIdle    == /\ original = <<>> /\ selected = <<>> /\ captured = <<>> /\ deciding = <<>>
                    /\ choices = {}
IdentitiesIdle   == /\ revision = [modules |-> <<>>] /\ halted = FALSE /\ progress = "idle"
                    /\ at = [module |-> 1, declaration |-> 0] /\ catalog = Empty /\ fulfilled = 0
ConstructionIdle == /\ constructor = <<>> /\ values = <<>> /\ constructions = <<>>
                    /\ applications = <<>> /\ plan = <<>> /\ image = "building"
OpeningIdle      == /\ installation = <<>> /\ given = <<>> /\ parsed = <<>> /\ sealed = <<>>
                    /\ opening = [is |-> "idle", path |-> 0]

ProgramsIdle == SelectionIdle /\ IdentitiesIdle /\ ConstructionIdle /\ OpeningIdle
AnalysesIdle == /\ graph = NoGraph
                /\ FactsIdle /\ ComponentsIdle /\ CostsIdle /\ RunsIdle /\ ErrorsIdle
                /\ DemandIdle
SyntaxIdle   == /\ parsing = "idle" /\ lines = <<>> /\ next = 0 /\ indents = <<>> /\ open = <<>>
                /\ expecting = FALSE /\ layout = <<>> /\ reports = {} /\ islands = <<>> /\ kept = {}

FactsBegin == /\ task = "facts"
              /\ Init
              /\ \/ Having(Second) = {}
                 \/ /\ Key = Node /\ Cardinality(Having(Second)) = 1 /\ Cardinality(Having(First)) <= 1
                    /\ \A n \in Node : n \notin graph[n]
              /\ phase = "none"
              /\ ComponentsIdle /\ CostsIdle /\ RunsIdle /\ ErrorsIdle /\ DemandIdle

ComponentsBegin == /\ task = "components"
                   /\ SearchInit /\ graph = NoGraph /\ cancelled = FALSE
                   /\ FactsIdle /\ CostsIdle /\ RunsIdle /\ ErrorsIdle /\ DemandIdle

CostsBegin == /\ task = "costs"
              /\ CostInit
              /\ graph = NoGraph /\ cancelled = FALSE /\ phase = "none"
              /\ FactsIdle /\ ComponentsIdle /\ RunsIdle /\ ErrorsIdle /\ DemandIdle

RunsBegin == /\ task = "runs"
             /\ RunInit
             /\ graph = NoGraph /\ cancelled = FALSE /\ phase = "none"
             /\ FactsIdle /\ ComponentsIdle /\ CostsIdle /\ ErrorsIdle /\ DemandIdle

ErrorsBegin == /\ task = "errors"
               /\ Errors!InferenceInit
               /\ graph = NoGraph
               /\ FactsIdle /\ ComponentsIdle /\ CostsIdle /\ RunsIdle /\ DemandIdle

DemandBegin == /\ task = "demand"
               /\ DemandInit
               /\ graph = NoGraph /\ cancelled = FALSE /\ phase = "none"
               /\ FactsIdle /\ ComponentsIdle /\ CostsIdle /\ RunsIdle /\ ErrorsIdle

AnalysesBegin == /\ \/ FactsBegin \/ ComponentsBegin \/ CostsBegin \/ RunsBegin \/ ErrorsBegin
                    \/ DemandBegin
                 /\ ProgramsIdle

SelectionBegin == /\ task = "selection" /\ AnalysesIdle
                  /\ Selection!SelectionInit
                  /\ IdentitiesIdle /\ ConstructionIdle /\ OpeningIdle

IdentitiesBegin == /\ task = "identities" /\ AnalysesIdle /\ cancelled = FALSE /\ phase = "none"
                   /\ IdentityInit
                   /\ SelectionIdle /\ ConstructionIdle /\ OpeningIdle

ConstructionBegin == /\ task = "construction" /\ AnalysesIdle /\ cancelled = FALSE /\ phase = "none"
                     /\ SealInit
                     /\ SelectionIdle /\ IdentitiesIdle /\ OpeningIdle

OpeningBegin == /\ task = "opening" /\ AnalysesIdle /\ cancelled = FALSE /\ phase = "none"
                /\ DistributionInit
                /\ SelectionIdle /\ IdentitiesIdle /\ ConstructionIdle

SyntaxBegin == /\ task = "syntax" /\ AnalysesIdle /\ cancelled = FALSE /\ phase = "none"
               /\ TextInit
               /\ ProgramsIdle

MCInit == \/ /\ AnalysesBegin \/ SelectionBegin \/ IdentitiesBegin \/ ConstructionBegin
                \/ OpeningBegin
             /\ SyntaxIdle
          \/ SyntaxBegin

-----------------------------------------------------------------------------

SolveFacts ==
  /\ task = "facts" /\ Solve
  /\ UNCHANGED <<task, phase, componentVars, costVars, runVars, errorVars, demandVars>>
  /\ UNCHANGED programVars

FindComponents ==
  /\ task = "components" /\ SearchNext
  /\ UNCHANGED <<task, graph, cancelled, factVars, costVars, runVars, errorVars, demandVars>>
  /\ UNCHANGED programVars

SolveCosts ==
  /\ task = "costs" /\ CostNext
  /\ UNCHANGED <<task, requestVars, factVars, componentVars, runVars, errorVars, demandVars>>
  /\ UNCHANGED programVars

InferErrors ==
  /\ task = "errors" /\ Errors!Infer
  /\ UNCHANGED <<task, graph, factVars, componentVars, costVars, runVars, demandVars>>
  /\ UNCHANGED programVars

LowerDemand ==
  /\ task = "demand" /\ Lower
  /\ UNCHANGED <<task, requestVars, factVars, componentVars, costVars, runVars, errorVars>>
  /\ UNCHANGED programVars

SelectDeclarations ==
  /\ task = "selection" /\ Selection!SelectNext
  /\ UNCHANGED <<task, graph, analysisVars, identityVars, sealVars, distributionVars>>
  /\ UNCHANGED textVars

CatalogIdentities ==
  /\ task = "identities" /\ IdentityNext
  /\ UNCHANGED <<task, requestVars, analysisVars, selectedVars, sealVars, distributionVars>>
  /\ UNCHANGED textVars

SealImage ==
  /\ task = "construction" /\ SealNext
  /\ UNCHANGED <<task, requestVars, analysisVars, selectedVars, identityVars, distributionVars>>
  /\ UNCHANGED textVars

OpenDistribution ==
  /\ task = "opening" /\ SealDistribution
  /\ UNCHANGED <<task, requestVars, analysisVars, selectedVars, identityVars, sealVars>>
  /\ UNCHANGED textVars

ParseSource ==
  /\ task = "syntax" /\ TextNext
  /\ UNCHANGED <<task, requestVars, analysisVars, selectedVars, identityVars>>
  /\ UNCHANGED <<sealVars, distributionVars>>

Work == \/ SolveFacts \/ FindComponents \/ SolveCosts \/ InferErrors \/ LowerDemand
        \/ SelectDeclarations \/ CatalogIdentities \/ SealImage \/ OpenDistribution
        \/ ParseSource

Run == /\ task = "runs" /\ RunNext
       /\ UNCHANGED <<task, requestVars, factVars, componentVars, costVars, errorVars, demandVars>>
       /\ UNCHANGED programVars

(* Another thread of the host.                                             *)
CancelAnalysis ==
  /\ \/ task = "facts" /\ Cancel /\ UNCHANGED <<phase, errorVars, demandVars>>
     \/ task = "errors" /\ Errors!Cancel /\ UNCHANGED <<graph, factVars, demandVars>>
     \/ task = "demand" /\ CancelDemand /\ UNCHANGED <<requestVars, factVars, errorVars>>
  /\ UNCHANGED <<task, componentVars, costVars, runVars, programVars>>

CancelProgram ==
  /\ \/ task = "selection" /\ Selection!CancelSelection /\ UNCHANGED identityVars
     \/ task = "identities" /\ CancelIdentities /\ UNCHANGED <<cancelled, phase, selectedVars>>
  /\ UNCHANGED <<task, graph, analysisVars, sealVars, distributionVars, textVars>>

CancelRequest == CancelAnalysis \/ CancelProgram

(* The analysis has given its answer; a program may run for ever.          *)
Answered == \/ task = "facts" /\ outcome # "running"
            \/ task = "components" /\ phase = "found"
            \/ task = "costs" /\ ready = {}
            \/ task = "errors" /\ phase \in {"rejected", "clean", "cancelled"}
            \/ task = "demand" /\ DemandEnded
            \/ task = "selection" /\ ~ Selection!Selecting
            \/ task = "identities" /\ IdentityEnded
            \/ task = "construction" /\ image # "building"
            \/ task = "opening" /\ DistributionEnded
            \/ task = "syntax" /\ TextEnded
            \/ task = "runs"

Ended == Answered /\ UNCHANGED all

(* Weak fairness of Work, spelled out: the calling thread goes on until it *)
(* has its answer, as it always can (there is no deadlock).  The other     *)
(* thread's steps are those that set a flag.                               *)
Flags    == <<cancelled, halted, interrupted>>
Fairness == []<>Answered \/ []<><<Flags' = Flags>>_all

MCSpec == MCInit /\ [][Work \/ Run \/ CancelRequest \/ Ended]_all /\ Fairness

-----------------------------------------------------------------------------

(* The inferred errors are those that leave a function in its executions.  *)
(* (error_flow.rs, infer_signatures.)                                      *)
ErrorsInferred == task = "errors" => Errors!ErrorsInferred

(* Every `?` leaves a clean function with the error of its Result.         *)
(* (error_flow.rs, analyze.)                                               *)
PropagationsChecked == task = "errors" => Errors!PropagationsChecked

(* A selection decided on a part of the program is right in the whole of   *)
(* it, and nothing else gets in.  (semantic.rs,                            *)
(* select_comptime_declarations.)                                          *)
SelectionStable == task = "selection" => Selection!SelectionStable

(* Every analysis ends, on cyclic graphs and recursive programs too, and   *)
(* whether or not the request is cancelled.                                *)
AnalysesEnd == <>Answered
=============================================================================
