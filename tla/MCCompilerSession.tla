-------------------------- MODULE MCCompilerSession --------------------------
(* Snapshots of up to three project modules (1 is the root) beside two      *)
(* authenticated ones, and small requests for several calls at once.        *)
EXTENDS CompilerSession, TLC

File(path, imports) ==
  [path |-> path, valid |-> TRUE, imports |-> imports, clean |-> TRUE, large |-> FALSE]

Request(files) ==
  [files |-> files, root |-> 1, inspectsSyntax |-> TRUE, selection |-> "none",
   catalog |-> "identified", analysis |-> "clean"]

(* Module 4 imports a project module when the project has its own 5.        *)
MCDistribution == 4 :> {5} @@ 5 :> {}

(* It is what DistributionSeal seals.                                      *)
Sealing == INSTANCE DistributionSeal WITH
             Installations <- {}, installation <- <<>>, given <- <<>>, parsed <- <<>>,
             opening <- <<>>, sealed <- <<>>

AuthenticatedModules ==
  [i \in 1..2 |-> [path |-> i + 3, valid |-> TRUE, clean |-> TRUE,
                   imports |-> MCDistribution[i + 3]]]

ASSUME DistributionIsSound == Sealing!ModulesSound(AuthenticatedModules)

Thirds ==
  { File(3, imports) : imports \in SUBSET {2, 5} }
  \cup { [File(3, {2, 5}) EXCEPT !.clean = FALSE], [File(3, {2, 5}) EXCEPT !.large = TRUE] }

(* Every graph over the project's modules, then defects of the snapshot.   *)
Graphs_ == { <<File(1, a), File(2, b), third>> :
             a \in SUBSET {2, 3, 4}, b \in SUBSET {1, 2, 3},
             third \in Thirds }
           \cup { <<File(1, a), File(2, b), File(5, c)>> :
                   a \in SUBSET {2, 4, 5}, b \in {{}, {5}}, c \in SUBSET {2, 4} }

Broken == { <<File(1, {2}), File(2, {3})>>,                        \* missing module
            <<File(2, {3}), File(3, {})>>,                         \* missing root
            <<File(1, {2}), File(2, {}), File(2, {3}), File(3, {})>>,   \* duplicate
            <<File(1, {2}), [File(2, {}) EXCEPT !.valid = FALSE]>>,
            <<File(1, {4}), File(4, {1})>> }                       \* shadow

Snapshots == { Request(files) : files \in Graphs_ \cup Broken }

(* One request of every kind, for two calls on one compiler.               *)
Small == Request(<<File(1, {2, 4}), File(2, {4})>>)
Kinds == { Small,
           [Small EXCEPT !.selection = "diagnostic", !.inspectsSyntax = FALSE],
           [Small EXCEPT !.selection = "defect"],
           [Small EXCEPT !.selection = "selected", !.analysis = "diagnostic"],
           [Small EXCEPT !.catalog = "collision"],
           [Small EXCEPT !.analysis = "defect"] }

MCCall == {"first", "second"}
MCWorkloads == [{"first"} -> Snapshots] \cup [MCCall -> Kinds]
=============================================================================
