--------------------------- MODULE DistributionSeal ---------------------------
(***************************************************************************)
(* CompilerDistribution::seal (distribution.rs): what an installation      *)
(* brings is parsed, joined and analysed once, before any call, and the    *)
(* compiler opens only on what is sound.  Nothing here is ever cancelled.  *)
(*                                                                         *)
(* An installation has                                                     *)
(*   modules   in the order given: [path, valid, clean, imports], a path   *)
(*             is a number                                                 *)
(*   catalog   "identified" or "collision"                                 *)
(*   analysis  "clean", "defect" or "diagnostic"                           *)
(***************************************************************************)
EXTENDS Naturals, FiniteSets, Sequences, SequencesExt

CONSTANT Installations

Module == [path: Nat, valid: BOOLEAN, clean: BOOLEAN, imports: SUBSET Nat]

(* The installations are of this form.                                     *)
ASSUME InstallationAssumption ==
  \A candidate \in Installations :
    /\ candidate.modules \in Seq(Module)
    /\ candidate.catalog \in {"identified", "collision"}
    /\ candidate.analysis \in {"clean", "defect", "diagnostic"}

VARIABLES
  installation,
  given,      \* the modules that are not looked at yet
  parsed,     \* parsed: path -> the module
  opening,    \* what is next, or how the sealing ended: [is, path]
  sealed      \* CompilerDistribution::modules

distributionVars == <<installation, given, parsed, opening, sealed>>

At(what)     == opening.is = what
Goes(what)   == opening' = [is |-> what, path |-> 0]
Refuses(error, path) == opening' = [is |-> error, path |-> path]

OpenErrors == {"InvalidAuthenticatedModulePath", "DuplicateAuthenticatedModule",
           "MalformedAuthenticatedModule", "MissingAuthenticatedDependency",
           "AuthenticatedImportCycle", "AuthenticatedIdentityCollision",
           "AuthenticatedModuleDefect", "InvalidAuthenticatedModule"}

Least(S) == CHOOSE p \in S : \A q \in S : p <= q

(* Modules whose paths differ, sorted by path.                             *)
ByPath(modules) ==
  LET order == CHOOSE f \in [DOMAIN modules -> DOMAIN modules] :
                 \A i, k \in DOMAIN modules :
                   i < k => modules[f[i]].path < modules[f[k]].path
  IN [i \in DOMAIN modules |-> modules[order[i]]]

-----------------------------------------------------------------------------

(* The next module, in the order given.                                    *)
ParseModule ==
  /\ At("parse") /\ given # <<>>
  /\ LET module == Head(given)
     IN IF ~ module.valid
        THEN Refuses("InvalidAuthenticatedModulePath", module.path) /\ UNCHANGED parsed
        ELSE IF module.path \in DOMAIN parsed
        THEN Refuses("DuplicateAuthenticatedModule", module.path) /\ UNCHANGED parsed
        ELSE IF ~ module.clean
        THEN Refuses("MalformedAuthenticatedModule", module.path) /\ UNCHANGED parsed
        ELSE /\ parsed' = [p \in DOMAIN parsed \cup {module.path} |->
                             IF p = module.path THEN module ELSE parsed[p]]
             /\ UNCHANGED opening
  /\ given' = Tail(given)
  /\ UNCHANGED <<installation, sealed>>

(* Every import has its module.                                            *)
Unclosed == {p \in DOMAIN parsed : ~ parsed[p].imports \subseteq DOMAIN parsed}

CloseImports ==
  /\ At("parse") /\ given = <<>>
  /\ IF Unclosed = {} THEN Goes("cycles")
     ELSE Refuses("MissingAuthenticatedDependency", Least(Unclosed))
  /\ UNCHANGED <<installation, given, parsed, sealed>>

(* authenticated_import_cycle: what is in a component with others, or      *)
(* imports itself, reaches itself.                                         *)
Reaches(path) ==
  {q \in DOMAIN parsed : \A S \in SUBSET DOMAIN parsed :
     parsed[path].imports \subseteq S /\ (\A p \in S : parsed[p].imports \subseteq S)
       => q \in S}

CyclicWithOthers ==                             \* mutant
  {p \in DOMAIN parsed : \E q \in Reaches(p) \ {p} : p \in Reaches(q)}

Cyclic == {p \in DOMAIN parsed : p \in Reaches(p)}

CheckCycles ==
  /\ At("cycles")
  /\ IF Cyclic = {} THEN Goes("identities")
     ELSE Refuses("AuthenticatedImportCycle", Least(Cyclic))
  /\ UNCHANGED <<installation, given, parsed, sealed>>

Identify ==
  /\ At("identities")
  /\ IF installation.catalog = "identified" THEN Goes("analysis")
     ELSE Refuses("AuthenticatedIdentityCollision", 0)
  /\ UNCHANGED <<installation, given, parsed, sealed>>

(* The modules are analysed by themselves.  What is sealed does not depend *)
(* on the order in which they were given.                                  *)
AnalyzeModules ==
  /\ At("analysis")
  /\ CASE installation.analysis = "defect" ->
            Refuses("AuthenticatedModuleDefect", 0) /\ UNCHANGED sealed
       [] installation.analysis = "diagnostic" ->
            Refuses("InvalidAuthenticatedModule", 0) /\ UNCHANGED sealed
       [] installation.analysis = "clean" ->
            /\ Goes("open")
            /\ sealed' = ByPath(installation.modules)
  /\ UNCHANGED <<installation, given, parsed>>

-----------------------------------------------------------------------------

DistributionInit ==
  /\ installation \in Installations
  /\ given = installation.modules
  /\ parsed = <<>>
  /\ opening = [is |-> "parse", path |-> 0]
  /\ sealed = <<>>

SealDistribution == ParseModule \/ CloseImports \/ CheckCycles \/ Identify \/ AnalyzeModules

DistributionSpec == DistributionInit /\ [][SealDistribution]_distributionVars

DistributionEnded == opening.is \in {"open"} \cup OpenErrors

-----------------------------------------------------------------------------
(***************************************************************************)
(* What makes an installation sound, without an order of steps.            *)
(***************************************************************************)

Paths(modules) == {modules[i].path : i \in DOMAIN modules}

ImportsOf(modules, path) ==
  UNION {modules[i].imports : i \in {k \in DOMAIN modules : modules[k].path = path}}

(* In every set of modules there is one that imports none of the set: this *)
(* is what a sealed distribution brings into the import graph of a request.*)
Layered(modules) ==
  \A S \in SUBSET Paths(modules) :
    S # {} => \E p \in S : ImportsOf(modules, p) \cap S = {}

ModulesSound(modules) ==
  /\ \A i \in DOMAIN modules : /\ modules[i].valid /\ modules[i].clean
                               /\ modules[i].imports \subseteq Paths(modules)
  /\ \A i, k \in DOMAIN modules : modules[i].path = modules[k].path => i = k
  /\ Layered(modules)

Sound(candidate) == /\ ModulesSound(candidate.modules)
                    /\ candidate.catalog = "identified" /\ candidate.analysis = "clean"

(* The error names what is there to be found.                              *)
Explains(modules, error) ==
  LET named == {i \in DOMAIN modules : modules[i].path = error.path}
  IN CASE error.is = "InvalidAuthenticatedModulePath" -> \E i \in named : ~ modules[i].valid
       [] error.is = "DuplicateAuthenticatedModule"   -> Cardinality(named) > 1
       [] error.is = "MalformedAuthenticatedModule"   -> \E i \in named : ~ modules[i].clean
       [] error.is = "MissingAuthenticatedDependency" ->
            \E i \in named : ~ modules[i].imports \subseteq Paths(modules)
       [] error.is = "AuthenticatedImportCycle" ->
            \E S \in SUBSET Paths(modules) :
              error.path \in S /\ \A p \in S : ImportsOf(modules, p) \cap S # {}
       [] error.is = "AuthenticatedIdentityCollision" -> installation.catalog = "collision"
       [] error.is = "AuthenticatedModuleDefect"      -> installation.analysis = "defect"
       [] error.is = "InvalidAuthenticatedModule"     -> installation.analysis = "diagnostic"

(* A compiler opens exactly on a sound installation, with all its modules  *)
(* in the order of their paths, in whatever order they were given; and a   *)
(* refusal names what is wrong.                                            *)
(* (distribution.rs, CompilerDistribution::seal.)                          *)
SealedIsSound ==
  /\ At("open") => /\ Sound(installation)
                   /\ ToSet(sealed) = ToSet(installation.modules)
                   /\ \A i, k \in DOMAIN sealed : i < k => sealed[i].path < sealed[k].path
  /\ opening.is \in OpenErrors => /\ ~ Sound(installation)
                              /\ Explains(installation.modules, opening)
=============================================================================
