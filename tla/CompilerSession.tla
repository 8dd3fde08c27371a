--------------------------- MODULE CompilerSession ---------------------------
(***************************************************************************)
(* Compiler::compile (compiler.rs): several calls on one Compiler, from    *)
(* the poison check to the outcome.  What calls share is the poison flag;  *)
(* the distribution is immutable.  The host may set the cancellation flag  *)
(* of a call between any two steps.  The phases behind the front end       *)
(* (selection, identities, analysis) are one step each: what they find is  *)
(* a function of the request, and they poll before they answer.            *)
(*                                                                         *)
(* A module path is a number, in the order of the paths.  A request has    *)
(*   files      the project's files, sorted by path and bytes, each with   *)
(*              its path, validity of the path, imports, and whether its   *)
(*              syntax is clean or the file is too large to be scanned     *)
(*   root, inspectsSyntax                                                  *)
(*   selection  "none" (no compile-time selection), "selected",            *)
(*              "diagnostic" or "defect"                                   *)
(*   catalog    "identified" or "collision"                                *)
(*   analysis   "clean", "diagnostic" or "defect"                          *)
(***************************************************************************)
EXTENDS Naturals, FiniteSets, Sequences

CONSTANTS
  Call,          \* the calls a host may make
  Workloads,     \* which of them it makes, with which requests
  Distribution   \* authenticated modules: [path -> paths it imports]

ProjectFile == [path : Nat, imports : SUBSET Nat,
                valid : BOOLEAN, clean : BOOLEAN, large : BOOLEAN]

ASSUME WorkloadAssumption ==
  \A made \in Workloads :
    /\ DOMAIN made \subseteq Call
    /\ \A c \in DOMAIN made :
         /\ made[c].files \in Seq(ProjectFile)
         /\ made[c].inspectsSyntax \in BOOLEAN
         /\ made[c].selection \in {"none", "selected", "diagnostic", "defect"}
         /\ made[c].catalog \in {"identified", "collision"}
         /\ made[c].analysis \in {"clean", "diagnostic", "defect"}

ASSUME DistributionAssumption ==
  /\ IsFiniteSet(DOMAIN Distribution)
  /\ Distribution \in [DOMAIN Distribution -> SUBSET Nat]

VARIABLES
  poisoned,      \* Compiler::poisoned
  request,       \* the request of every call
  cancelled,     \* the Cancellation of every call
  call,          \* the progress of every call, see Idle
  late           \* history: the call began on a poisoned compiler

vars == <<poisoned, request, cancelled, call, late>>

(* The calls the host makes.                                               *)
Made == DOMAIN request

(* files: path -> [source, imports, clean, large, authenticated]           *)
Idle == [pc |-> "idle", index |-> 1, files |-> <<>>, pending |-> {}, parsed |-> {},
         syntax |-> <<>>, diagnostics |-> {}, outcome |-> "none"]

Returned == {"Accepted", "Rejected", "Cancelled", "Defect"}

-----------------------------------------------------------------------------
(***************************************************************************)
(* Ways for a step to end.                                                 *)
(***************************************************************************)

Files(c)    == request[c].files
Known(c)    == DOMAIN call[c].files
Imports(c, path) == call[c].files[path].imports

Becomes(c, state) == call' = [call EXCEPT ![c] = state]

Outcome(c, kind) == Becomes(c, [call[c] EXCEPT !.pc = "returned", !.outcome = kind])

(* Mutants: any call's flag counts; a cancelled call waits.                *)
CheckpointAny(c, step)   == IF \E d \in Call : cancelled[d] THEN Outcome(c, "Cancelled")
                            ELSE step
CheckpointWaits(c, step) == ~ cancelled[c] /\ step

(* A checkpoint: a cancelled call returns and publishes nothing.           *)
Checkpoint(c, step) == IF cancelled[c] THEN Outcome(c, "Cancelled") ELSE step

PublishNothing(c, state) ==                     \* mutant
  Becomes(c, [state EXCEPT !.pc = "returned"])

Publish(c, state) ==
  Becomes(c, [state EXCEPT !.pc = "returned",
                           !.outcome = IF state.diagnostics = {} THEN "Accepted"
                                       ELSE "Rejected"])

(* The syntax of unreachable files is parsed last, if it is asked for.     *)
Conclude(c, state) == IF request[c].inspectsSyntax
                      THEN Becomes(c, [state EXCEPT !.pc = "sources", !.index = 1])
                      ELSE Publish(c, state)

When(condition, diagnostic) == IF condition THEN {diagnostic} ELSE {}

Diagnosed(c, code, path) == call[c].diagnostics \cup {<<code, path>>}

(* Steps inside compile_inner change nothing that calls share.             *)
Inner(c, pc) == call[c].pc = pc /\ UNCHANGED <<poisoned, request, cancelled, late>>

-----------------------------------------------------------------------------
(***************************************************************************)
(* Entering compile.                                                       *)
(***************************************************************************)

(* Mutant: the cancellation flag is looked at before the poison flag.      *)
BeginPolling(c) == /\ call[c].pc = "idle"
                   /\ late' = [late EXCEPT ![c] = poisoned]
                   /\ Checkpoint(c, IF poisoned THEN Outcome(c, "Defect")
                                    ELSE Becomes(c, [call[c] EXCEPT !.pc = "poll"]))
                   /\ UNCHANGED <<poisoned, request, cancelled>>

Begin(c) == /\ call[c].pc = "idle"
            /\ late' = [late EXCEPT ![c] = poisoned]
            /\ IF poisoned THEN Outcome(c, "Defect")
               ELSE Becomes(c, [call[c] EXCEPT !.pc = "poll"])
            /\ UNCHANGED <<poisoned, request, cancelled>>

Poll(c) == /\ Inner(c, "poll")
           /\ Checkpoint(c, Becomes(c, [call[c] EXCEPT !.pc = "ingest"]))

(* contain: a panic anywhere in compile_inner poisons the instance.        *)
Panic(c) == /\ call[c].pc \notin {"idle", "poll", "returned"}
            /\ poisoned' = TRUE
            /\ Outcome(c, "Defect")
            /\ UNCHANGED <<request, cancelled, late>>

-----------------------------------------------------------------------------
(***************************************************************************)
(* The front end.                                                          *)
(***************************************************************************)

(* One project file: the first of a path counts.                           *)
Ingest(c) ==
  /\ Inner(c, "ingest")
  /\ call[c].index <= Len(Files(c))
  /\ LET i    == call[c].index
         file == Files(c)[i]
         seen == file.path \in Known(c)
         entry == [source |-> i, imports |-> file.imports, clean |-> file.clean,
                   large |-> file.large, authenticated |-> FALSE]
     IN Checkpoint(c, Becomes(c, [call[c] EXCEPT
          !.index = i + 1,
          !.files = IF seen THEN @
                    ELSE [p \in Known(c) \cup {file.path} |->
                            IF p = file.path THEN entry ELSE @[p]],
          !.diagnostics = @ \cup When(seen, <<"duplicate_path", file.path>>)
                            \cup When(~ file.valid, <<"invalid_module_path", file.path>>)]))

(* The authenticated modules join, unless the project has their path; then *)
(* the root has to be there.                                               *)
Join(c) ==
  /\ Inner(c, "ingest")
  /\ call[c].index > Len(Files(c))
  /\ LET new     == DOMAIN Distribution \ Known(c)
         files   == [p \in Known(c) \cup new |->
                       IF p \in new
                       THEN [source |-> 0, imports |-> Distribution[p], clean |-> TRUE,
                             large |-> FALSE, authenticated |-> TRUE]
                       ELSE call[c].files[p]]
         shadows == {<<"authenticated_module_shadow", p>> :
                       p \in DOMAIN Distribution \cap Known(c)}
         joined  == [call[c] EXCEPT !.files = files, !.diagnostics = @ \cup shadows]
         root    == request[c].root
     IN IF root \in DOMAIN files
        THEN Becomes(c, [joined EXCEPT !.pc = "closure", !.pending = {root}])
        ELSE Conclude(c, [joined EXCEPT !.diagnostics = @ \cup {<<"missing_root", root>>}])

(* The next module of the worklist is parsed.  A file that is too large is *)
(* diagnosed without being scanned, so without a checkpoint.               *)
IsFirst(c, path) == path \in call[c].pending /\ \A p \in call[c].pending : path <= p

ForbiddenNone(c, path) == {}                    \* mutant

Forbidden(c, path) == {p \in Imports(c, path) \cap Known(c) :
                         /\ call[c].files[path].authenticated
                         /\ ~ call[c].files[p].authenticated}

ParseDiagnostics(c, path) ==
  {<<"authenticated_imports_project_module", p>> : p \in Forbidden(c, path)}
  \cup {<<"missing_module", p>> : p \in Imports(c, path) \ Known(c)}
  \cup When(~ call[c].files[path].clean, <<"syntax", path>>)

Parse(c, path) ==
  /\ Inner(c, "closure")
  /\ IsFirst(c, path)
  /\ LET rest   == call[c].pending \ {path}
         next   == [call[c] EXCEPT
                     !.pending = rest \cup ((Imports(c, path) \cap Known(c))
                                             \ Forbidden(c, path)),
                     !.parsed = @ \cup {path},
                     !.diagnostics = @ \cup ParseDiagnostics(c, path)]
         large  == [call[c] EXCEPT !.pending = rest, !.parsed = @ \cup {path},
                                   !.diagnostics = Diagnosed(c, "source_too_large", path)]
     IN IF path \in call[c].parsed
        THEN Becomes(c, [call[c] EXCEPT !.pending = rest])
        ELSE IF call[c].files[path].large THEN Becomes(c, large)
        ELSE Checkpoint(c, Becomes(c, next))

(* import_cycle: a component of the import graph with more than one module,*)
(* or a module that imports itself.                                        *)
Edges(c, path) == IF call[c].files[path].large THEN {}
                  ELSE Imports(c, path) \cap call[c].parsed

Reaches(c, path) ==
  {q \in call[c].parsed :
     \A S \in SUBSET call[c].parsed :
       Edges(c, path) \subseteq S /\ (\A p \in S : Edges(c, p) \subseteq S) => q \in S}

Component(c, path) == {path} \cup {q \in Reaches(c, path) : path \in Reaches(c, q)}

(* Mutant: a module that imports itself is overlooked.                     *)
HasLongCycle(c) == \E path \in call[c].parsed : Cardinality(Component(c, path)) > 1

HasCycle(c) == \E path \in call[c].parsed :
                 Cardinality(Component(c, path)) > 1 \/ path \in Edges(c, path)

Closed(c) ==
  /\ Inner(c, "closure")
  /\ call[c].pending = {}
  /\ LET cycles == IF HasCycle(c) THEN Diagnosed(c, "import_cycle", request[c].root)
                   ELSE call[c].diagnostics
     IN Becomes(c, [call[c] EXCEPT !.diagnostics = cycles,
                                   !.pc = IF cycles = {} THEN "select" ELSE "catalog"])

-----------------------------------------------------------------------------
(***************************************************************************)
(* The phases behind the front end.                                        *)
(***************************************************************************)

Select(c) ==
  /\ Inner(c, "select")
  /\ LET found == request[c].selection
         after == [call[c] EXCEPT !.pc = "catalog"]
     IN CASE found = "none" -> Becomes(c, after)
          [] found = "selected" -> Checkpoint(c, Becomes(c, after))
          [] found = "diagnostic" ->
               Checkpoint(c, Becomes(c, [after EXCEPT
                 !.diagnostics = Diagnosed(c, "selection", request[c].root)]))
          [] found = "defect" -> Checkpoint(c, Outcome(c, "Defect"))

Catalog(c) ==
  /\ Inner(c, "catalog")
  /\ Checkpoint(c, IF request[c].catalog = "collision" THEN Outcome(c, "Defect")
                   ELSE Becomes(c, [call[c] EXCEPT !.pc = "analyze"]))

Analyze(c) ==
  /\ Inner(c, "analyze")
  /\ Checkpoint(c,
       CASE request[c].analysis = "defect"     -> Outcome(c, "Defect")
         [] request[c].analysis = "diagnostic" ->
              Conclude(c, [call[c] EXCEPT
                !.diagnostics = Diagnosed(c, "semantic", request[c].root)])
         [] request[c].analysis = "clean"      -> Conclude(c, call[c]))

(* parse_unreachable_project_syntax: every project file that is not the    *)
(* one the closure parsed under its path is parsed now.                    *)
IsParsedPath(c, i) == Files(c)[i].path \in call[c].parsed     \* mutant

IsReachable(c, i) == /\ Files(c)[i].path \in call[c].parsed
                     /\ call[c].files[Files(c)[i].path].source = i

Observe(c) ==
  /\ Inner(c, "sources")
  /\ LET i    == call[c].index
         next == [call[c] EXCEPT !.index = i + 1]
         seen == Becomes(c, [next EXCEPT !.syntax = Append(@, i)])
     IN /\ i <= Len(Files(c))
        /\ IF IsReachable(c, i) THEN Becomes(c, next)
           ELSE IF Files(c)[i].large THEN seen
           ELSE Checkpoint(c, seen)

EndObserve(c) == /\ Inner(c, "sources")
                 /\ call[c].index > Len(Files(c))
                 /\ Publish(c, call[c])

-----------------------------------------------------------------------------
(***************************************************************************)
(* The specification.                                                      *)
(***************************************************************************)

Init == /\ poisoned = FALSE
        /\ request \in Workloads
        /\ cancelled \in {f \in [Call -> BOOLEAN] : \A c \in Call \ Made : ~ f[c]}
        /\ call = [c \in Call |-> Idle]
        /\ late = [c \in Call |-> FALSE]

Cancel(c) == /\ ~ cancelled[c]
             /\ call[c].pc # "returned"
             /\ cancelled' = [cancelled EXCEPT ![c] = TRUE]
             /\ UNCHANGED <<poisoned, request, call, late>>

FrontEnd(c) == Ingest(c) \/ Join(c) \/ (\E path \in call[c].pending : Parse(c, path)) \/ Closed(c)

BackEnd(c) == Select(c) \/ Catalog(c) \/ Analyze(c) \/ Observe(c) \/ EndObserve(c)

Compile(c) == Begin(c) \/ Poll(c) \/ FrontEnd(c) \/ BackEnd(c)

Next == \E c \in Made : Compile(c) \/ Panic(c) \/ Cancel(c)

Spec == Init /\ [][Next]_vars

(* A call runs on the thread that made it.  Nothing has to panic.          *)
FairSpec == Spec /\ \A c \in Call : WF_vars(c \in Made /\ Compile(c))

-----------------------------------------------------------------------------
(***************************************************************************)
(* What a request has to answer, without an order of steps.                *)
(***************************************************************************)

Paths(r)   == {r.files[i].path : i \in DOMAIN r.files}
Present(r) == Paths(r) \cup DOMAIN Distribution

(* The file that counts under a path.                                      *)
FileAt(r, path) == r.files[CHOOSE i \in DOMAIN r.files :
                             /\ r.files[i].path = path
                             /\ \A j \in 1..(i - 1) : r.files[j].path # path]

Authenticated(r, path) == path \notin Paths(r)
Scanned(r, path)  == Authenticated(r, path) \/ ~ FileAt(r, path).large
ImportsOf(r, path) == IF ~ Scanned(r, path) THEN {}
                      ELSE IF Authenticated(r, path) THEN Distribution[path]
                      ELSE FileAt(r, path).imports

(* Authenticated modules do not import project modules.                    *)
Follows(r, path) == {p \in ImportsOf(r, path) \cap Present(r) :
                       Authenticated(r, path) => Authenticated(r, p)}

(* The least set of modules with the root and what its members import.     *)
Closure(r) == {p \in Present(r) :
                 \A S \in SUBSET Present(r) :
                   r.root \in S /\ (\A q \in S : Follows(r, q) \subseteq S) => p \in S}

(* No set of modules all of which import another one of the set.           *)
Layered(r, S) == \A T \in SUBSET S : T # {} => \E p \in T : ImportsOf(r, p) \cap T = {}

FrontEndClean(r) ==
  /\ r.root \in Present(r)
  /\ \A i, j \in DOMAIN r.files : r.files[i].path = r.files[j].path => i = j
  /\ \A i \in DOMAIN r.files : r.files[i].valid
  /\ Paths(r) \cap DOMAIN Distribution = {}
  /\ \A p \in Closure(r) : /\ ImportsOf(r, p) = Follows(r, p)
                           /\ Scanned(r, p)
                           /\ p \in Paths(r) => FileAt(r, p).clean
  /\ Layered(r, Closure(r))

Acceptable(r) == /\ FrontEndClean(r)
                 /\ r.selection \in {"none", "selected"}
                 /\ r.catalog = "identified" /\ r.analysis = "clean"

-----------------------------------------------------------------------------
(***************************************************************************)
(* Properties                                                              *)
(***************************************************************************)

Published(c) == call[c].outcome \in {"Accepted", "Rejected"}

(* Types; a call has an outcome exactly when it has returned.              *)
TypeOK == /\ poisoned \in BOOLEAN
          /\ cancelled \in [Call -> BOOLEAN]
          /\ late \in [Call -> BOOLEAN]
          /\ \A c \in Call : /\ call[c].outcome \in {"none"} \cup Returned
                            /\ call[c].pc = "returned" <=> call[c].outcome # "none"

(* Order of requests, other calls, panics elsewhere and cancellations that *)
(* come too late do not change an answer: a request is accepted or         *)
(* rejected according to its own content.                                  *)
OutcomeCanonical ==
  \A c \in Made : Published(c) =>
    (call[c].outcome = "Accepted" <=> Acceptable(request[c]))

(* What is published is the closure of the root, whole.                    *)
ClosureExact ==
  \A c \in Made : Published(c) =>
    call[c].parsed = IF request[c].root \in Present(request[c]) THEN Closure(request[c])
                     ELSE {}

(* Inspected syntax shows every captured file exactly once, reachable or   *)
(* not, duplicates and shadowed modules included.                          *)
SyntaxWhole ==
  \A c \in Made : Published(c) /\ request[c].inspectsSyntax =>
    \A i \in DOMAIN Files(c) :
      Cardinality({k \in DOMAIN call[c].syntax : call[c].syntax[k] = i})
        = IF /\ Files(c)[i].path \in call[c].parsed
             /\ \A j \in 1..(i - 1) : Files(c)[j].path # Files(c)[i].path
          THEN 0 ELSE 1

(* A call that begins after the instance was poisoned gets a Defect,       *)
(* whatever it asks and whether or not it is cancelled.                    *)
PoisonedRefuses ==
  \A c \in Made : late[c] /\ call[c].outcome # "none" => call[c].outcome = "Defect"

(* A call answers Cancelled only if its own flag was set, and Defect only  *)
(* if the instance was poisoned or its own request has a defect.           *)
OutcomeExplained ==
  \A c \in Made :
    /\ call[c].outcome = "Cancelled" => cancelled[c]
    /\ call[c].outcome = "Defect" =>
         \/ poisoned
         \/ request[c].catalog = "collision"
         \/ "defect" \in {request[c].selection, request[c].analysis}

(* Every call that is made returns.                                        *)
Terminates == \A c \in Call : <>(c \in Made => call[c].pc = "returned")
=============================================================================
