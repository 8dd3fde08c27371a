------------------------- MODULE SpecializationDemand -------------------------
(***************************************************************************)
(* Which specializations of functions a program demands: typed_hir.rs,     *)
(* verify_program and verify_comptime_condition with                       *)
(* materialize_missing_specializations.  Lowering a concrete body records  *)
(* a demand for every function it names; materializing a demand of a       *)
(* generic function lowers its body again, for those arguments.            *)
(*                                                                         *)
(* A function has at most one type parameter.  A type is the number of     *)
(* array constructors around a plain one; an argument is such a type       *)
(* (`own` FALSE) or so many constructors around the caller's parameter.    *)
(* The order of the identities is that of digests: any.                    *)
(***************************************************************************)
EXTENDS Integers, FiniteSets

CONSTANTS
  DemandPrograms,  \* [functions, constants, tests, condition], see MCPrograms
  TypeDepth        \* how deep their types nest

(* The calls outside of functions.                                         *)
Outside(program) ==
  (UNION {program.constants[c].calls : c \in DOMAIN program.constants})
    \cup program.condition.calls \cup program.tests

(* What is called and read is there.                                       *)
Linked(program) ==
  LET functions == DOMAIN program.functions
      constants == DOMAIN program.constants
      Call      == [callee: functions, own: BOOLEAN, wraps: Nat]
  IN /\ IsFiniteSet(functions) /\ IsFiniteSet(constants)
     /\ Outside(program) \subseteq Call /\ program.condition.constants \subseteq constants
     /\ \A c \in constants : program.constants[c].constants \subseteq constants
     /\ \A d \in functions : /\ program.functions[d].generic \in BOOLEAN
                             /\ program.functions[d].calls \subseteq Call
                             /\ program.functions[d].constants \subseteq constants

(* The parameter of the caller is an argument in generic bodies only.      *)
Scoped(program) ==
  /\ \A c \in Outside(program) : ~ c.own
  /\ \A d \in DOMAIN program.functions :
       ~ program.functions[d].generic => \A c \in program.functions[d].calls : ~ c.own

(* No parameter nests deeper: polymorphic recursion would have no end.     *)
Nested(program) ==
  \E deep \in [DOMAIN program.functions -> 0..TypeDepth] :
    /\ \A c \in Outside(program) : c.wraps <= deep[c.callee]
    /\ \A d \in DOMAIN program.functions : \A c \in program.functions[d].calls :
         c.wraps + (IF c.own THEN deep[d] ELSE 0) <= deep[c.callee]

ASSUME DemandAssumption ==
  /\ TypeDepth \in Nat
  /\ \A program \in DemandPrograms : Linked(program) /\ Scoped(program) /\ Nested(program)

VARIABLES
  source,
  mode,        \* "program" or "condition"
  lowering,    \* "start", "bodies", "tests", "turn", "materialize", then
               \* "done", "defect" or "cancelled"
  lowered,     \* functions with a lowered template
  evaluated,   \* constants that were lowered
  demanded,    \* [functions, constants] a condition was found to need
  records,     \* every specialization that was demanded
  missing,     \* those that have no body yet
  specialized, \* those that have one
  interrupted

demandVars == <<source, mode, lowering, lowered, evaluated, demanded, records, missing,
                specialized, interrupted>>

None == -1

Definitions == DOMAIN source.functions
Generic(d)  == source.functions[d].generic
Concrete    == {d \in Definitions : ~ Generic(d)}

(* The specializations that the calls of a body demand, in a body with     *)
(* type parameter `type`.                                                  *)
Demands(calls, type) ==
  {<<c.callee, IF Generic(c.callee) THEN c.wraps + (IF c.own THEN type ELSE 0) ELSE None>> : c \in calls}

Named(calls) == {c.callee : c \in calls}

Calls(definitions) == UNION {source.functions[d].calls : d \in definitions}

Reads(definitions) == UNION {source.functions[d].constants : d \in definitions}

(* Entry::Vacant: only what was not recorded before is queued.             *)
Demand(ids) == /\ records' = records \cup ids
               /\ missing' = missing \cup (ids \ records)

-----------------------------------------------------------------------------

DemandInit == /\ source \in DemandPrograms
              /\ mode \in {"program", "condition"}
              /\ lowering = "start"
              /\ lowered = {} /\ evaluated = {}
              /\ demanded = [functions |-> {}, constants |-> {}]
              /\ records = {} /\ missing = {} /\ specialized = {}
              /\ interrupted = FALSE

(* Constants, the condition and all templates; every function without a    *)
(* type parameter is demanded once, whoever names it.                      *)
LowerProgram ==
  /\ mode = "program" /\ lowering = "start" /\ ~ interrupted
  /\ lowered' = Definitions
  /\ evaluated' = DOMAIN source.constants
  /\ Demand(Demands((UNION {source.constants[c].calls : c \in DOMAIN source.constants})
                      \cup source.condition.calls \cup Calls(Concrete), None)
            \cup {<<d, None>> : d \in Concrete})
  /\ lowering' = "bodies"
  /\ UNCHANGED <<source, mode, demanded, specialized, interrupted>>

(* A turn of the `while let` loop.                                         *)
Materialize(id) ==
  /\ lowering \in {"bodies", "tests", "materialize"} /\ ~ interrupted
  /\ id \in missing
  /\ IF Generic(id[1])
     THEN LET ids == Demands(source.functions[id[1]].calls, id[2])
          IN /\ records' = records \cup ids
             /\ missing' = (missing \ {id}) \cup (ids \ records)
             /\ specialized' = specialized \cup {id}
             /\ UNCHANGED lowering
     ELSE /\ missing' = missing \ {id}
          /\ IF id[1] \in lowered
             THEN specialized' = specialized \cup {id} /\ UNCHANGED lowering
             ELSE lowering' = "defect" /\ UNCHANGED specialized
          /\ UNCHANGED records
  /\ UNCHANGED <<source, mode, lowered, evaluated, demanded, interrupted>>

(* Mutant: what only the tests demand is not materialized.                 *)
LowerTestsLast ==
  /\ lowering = "bodies" /\ missing = {}
  /\ Demand(Demands(source.tests, None))
  /\ lowering' = "done"
  /\ UNCHANGED <<source, mode, lowered, evaluated, demanded, specialized, interrupted>>

LowerTests ==
  /\ lowering = "bodies" /\ missing = {}
  /\ Demand(Demands(source.tests, None))
  /\ lowering' = "tests"
  /\ UNCHANGED <<source, mode, lowered, evaluated, demanded, specialized, interrupted>>

FinishProgram == /\ lowering = "tests" /\ missing = {}
                 /\ lowering' = "done"
                 /\ UNCHANGED <<source, mode, lowered, evaluated, demanded, records, missing,
                                specialized, interrupted>>

-----------------------------------------------------------------------------

LowerCondition ==
  /\ mode = "condition" /\ lowering = "start"
  /\ Demand(Demands(source.condition.calls, None))
  /\ demanded' = [functions |-> Named(source.condition.calls), constants |-> source.condition.constants]
  /\ lowering' = "turn"
  /\ UNCHANGED <<source, mode, lowered, evaluated, specialized, interrupted>>

(* The constants that are demanded, then the functions without a type      *)
(* parameter that are.                                                     *)
LowerDemanded ==
  LET constants == demanded.constants \ evaluated
      Of(c)     == source.constants[c]
      named     == demanded.functions \cup Named(UNION {Of(c).calls : c \in constants})
      functions == (named \cap Concrete) \ lowered
  IN /\ lowering = "turn" /\ ~ interrupted
     /\ evaluated' = evaluated \cup constants
     /\ lowered' = lowered \cup functions
     /\ demanded' = [functions |-> named \cup Named(Calls(functions)),
                     constants |-> demanded.constants \cup (UNION {Of(c).constants : c \in constants})
                                   \cup Reads(functions)]
     /\ Demand(Demands((UNION {Of(c).calls : c \in constants}) \cup Calls(functions), None))
     /\ lowering' = "materialize"
     /\ UNCHANGED <<source, mode, specialized, interrupted>>

NamedBySpecializations ==
  LET definitions == {id[1] : id \in specialized}
  IN [functions |-> Named(Calls(definitions)), constants |-> Reads(definitions)]

CollectDemands ==
  /\ lowering = "materialize" /\ missing = {}
  /\ demanded' = [functions |-> demanded.functions \cup NamedBySpecializations.functions,
                  constants |-> demanded.constants \cup NamedBySpecializations.constants]
  /\ lowering' = IF demanded'.constants \subseteq evaluated /\ demanded'.functions \cap Concrete \subseteq lowered
              THEN "done" ELSE "turn"
  /\ UNCHANGED <<source, mode, lowered, evaluated, records, missing, specialized, interrupted>>

(* The polls.                                                              *)
AbandonDemand == /\ interrupted
                 /\ lowering \in {"start", "turn"} \/ (lowering \in {"bodies", "tests", "materialize"} /\ missing # {})
                 /\ lowering # "start" \/ mode = "program"
                 /\ lowering' = "cancelled"
                 /\ UNCHANGED <<source, mode, lowered, evaluated, demanded, records, missing,
                                specialized, interrupted>>

DemandEnded == lowering \in {"done", "defect", "cancelled"}

(* Another thread of the host.                                             *)
CancelDemand == /\ ~ interrupted /\ ~ DemandEnded
                /\ interrupted' = TRUE
                /\ UNCHANGED <<source, mode, lowering, lowered, evaluated, demanded, records, missing,
                               specialized>>

Lower == \/ LowerProgram \/ LowerTests \/ FinishProgram
         \/ LowerCondition \/ LowerDemanded \/ CollectDemands
         \/ (\E id \in missing : Materialize(id)) \/ AbandonDemand

DemandNext == Lower \/ CancelDemand

DemandSpec == DemandInit /\ [][DemandNext]_demandVars

-----------------------------------------------------------------------------

(* The least set with the roots that is closed under what a body demands.  *)
Closure(roots) ==
  LET most == Cardinality(Definitions) * (TypeDepth + 2)
      grow[n \in 0 .. most] ==
        IF n = 0 THEN roots
        ELSE LET less == grow[n - 1]
             IN less \cup UNION {Demands(source.functions[id[1]].calls, id[2]) : id \in less}
  IN grow[most]

(* The constants a condition reads, itself or through what it calls.       *)
ConditionConstants(ids) ==
  LET grow[n \in 0 .. Cardinality(DOMAIN source.constants)] ==
        IF n = 0 THEN source.condition.constants \cup Reads({id[1] : id \in ids})
        ELSE LET less == grow[n - 1] IN less \cup UNION {source.constants[c].constants : c \in less}
  IN grow[Cardinality(DOMAIN source.constants)]

Roots ==
  IF mode = "program"
  THEN Demands(Outside(source), None) \cup {<<d, None>> : d \in Concrete}
  ELSE Demands(source.condition.calls
                 \cup UNION {source.constants[c].calls : c \in evaluated}, None)

Needed == Closure(Roots)

(* A program that was lowered has a body for every specialization that can *)
(* be called from its roots, functions, tests and from other bodies, once, *)
(* and for no other; a condition has those that it can call, and nothing   *)
(* of the rest of the program.                                             *)
(* (typed_hir.rs, verify_program, verify_comptime_condition.)              *)
DemandExact ==
  lowering = "done" =>
    /\ specialized = Needed /\ records = Needed
    /\ mode = "condition" =>
         /\ lowered = {id[1] : id \in Needed} \cap Concrete
         /\ \A c \in evaluated : c \in ConditionConstants(Needed)
         /\ ConditionConstants(Needed) \subseteq evaluated
=============================================================================
