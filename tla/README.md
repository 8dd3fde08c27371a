# A formal model of the Wrela compiler

Wrela's compiler is one Rust crate, `src/crates/wrela-compiler` (13 source
files, about 24,800 lines). A host opens a `Compiler` with a sealed
distribution and calls `compile` with a project snapshot, from as many threads
as it likes; every call ends with `Accepted`, `Rejected`, `Cancelled` or
`Defect`. The compiler promises that an answer is a function of the request:
no order of work, other call, cache or late cancellation may show in it. Most
of what is modelled here is about that promise.

Paths below are relative to `src/crates/wrela-compiler/src/`.

## Inventory

| Component | Code | State | Operations | What makes it correct |
|---|---|---|---|---|
| Compiler session | `compiler.rs` 1855-2321 | poison flag; per call: files, worklist, parsed sources, diagnostics | open, compile, contain, cancel | the answer depends on the request alone; a cancelled call publishes nothing; a poisoned instance refuses; every call returns |
| Distribution | `distribution.rs` | sealed modules, digest, authorities | seal | refuses an installation that is not closed and acyclic |
| Syntax | `syntax.rs` | scanner offset, indentation and delimiter stacks, declarations, green tree | parse | takes exactly the well-formed sources; lossless; recovers; polls often |
| Identity catalog | `identity.rs` | records, digests | catalog, intern, finalize | two keys never share an identity; stable under unrelated edits |
| Semantic analysis | `semantic.rs` | declarations, diagnostics, what is selected so far | select_comptime_declarations, analyze, plan_tests | diagnoses, never panics; polls before it answers; a condition decided on a part of the program is right in all of it |
| Typed HIR | `typed_hir.rs` | locals, moved places, known integers, specializations | lower, verify | what it accepts cannot fail one of the evaluator's checks for impossible states |
| Type semantics, model | `type_semantics.rs`, `model.rs` | none | can_unify, contains_resource, canonical keys | pure |
| Error flow | `error_flow.rs` | inferred error types, worklist | infer_signatures, analyze | one fixpoint, whatever the order |
| Function facts | `graph.rs` 103-141, `semantic.rs` 2590-2730 | accumulated facts, worklist | propagate_monotone, merge, solve costs | the least solution over the call graph |
| Graph algorithms | `graph.rs` 5-101 | explicit stacks, finish order | strongly_connected_components, recursive_nodes, reachable_from | exactly the classes of mutual reachability |
| Evaluator machine | `evaluator.rs` | frames of controls, operands and locals; fuel, memory, call stack | one handler per control | the language's semantics; exact accounts; ceilings; no Defect for a verified program |
| Evaluation engine | `evaluator.rs`, `semantic.rs` 1827-1945 | constant cache, cycle stack, dependencies, receipts | evaluate_constant, evaluate_expression, evaluate_function | the cache does not show in values, charges or receipts |
| Image evaluation | `image_evaluation.rs`, `evaluator.rs` 2072-2317 | constructions, edges, test applications | construct, finish, seal_construction_graph | one root, no dangling edge, everything reachable |

**Interaction.** `compile` drives everything on the caller's thread: ingest,
close the snapshot over imports (calling the parser), select compile-time
declarations, intern identities, analyze. `analyze` lowers and verifies typed
HIR, solves function facts and error flow with the fixpoints of `graph.rs`, and
hands the verified program to one `Engine`, which evaluates every constant,
then the assertions, then the Image Constructor. Calls share two things: the
immutable distribution and the poison flag. The host's only other influence is
the cancellation flag of a call, an atomic that is set once from any thread and
polled at checkpoints. Nothing is persisted and there are no messages, so there
is no crash recovery and no retry.

**What is hard.** (1) Exits of the evaluator: return, `?`, break, continue,
panics and ceilings leave scopes that defer expressions and bind locals, in an
explicit control stack that every handler edits. (2) Accounts kept beside the
structure they describe: memory, call stack, cycle stack. (3) The constant
cache, which replays charges and dependencies measured under other
circumstances. (4) Fixpoints over cyclic graphs. (5) Cancellation and poisoning
between any two steps. (6) Analyses of typed HIR whose mistakes surface as
Defects of the evaluator. The hazards, each at its line and with the properties
that cover it, are in `PROJECT.json`.

## Modules

| Module | Models |
|---|---|
| `FactSolver` | abstract specification: a request for facts is answered once, with the least solution or with nothing |
| `MonotoneFacts` | `propagate_monotone` with `merge_function_facts`, one action per turn of the loop; implements `FactSolver` |
| `Fundamentals` | lemmas the proofs share: least numbers, minimal sets, reachability, cycles and layers, weights of finite sets, sequences of rising numbers, flattened sequences, closures computed in rounds |
| `StrongComponents` | `strongly_connected_components` and `recursive_nodes`, one action per turn of each loop |
| `WeightedCosts` | `solve_weighted_costs`, one action per function taken |
| `GraphProofs` | theorems about `MonotoneFacts`, `StrongComponents` and `WeightedCosts`, for every graph |
| `FunctionFacts`, `FunctionRuns` | `local_facts`, `analyze_recursion` and the diagnostics they lead to; and what can happen when such bodies run |
| `ErrorFlow`, `ErrorPaths`, `ErrorInference` | the two scans of `error_flow.rs`; the errors that leave a function in its executions; both fixpoints, the signatures in between and the check of every `?` |
| `SpecializationDemand` | which specializations `verify_program` and `verify_comptime_condition` demand and give a body |
| `ComptimePrograms`, `ComptimeSelection` | the probe behind a compile-time condition; `select_comptime_declarations` |
| `IdentityCatalog` | `catalog_with_hasher`, `intern_type`, `specialization`, `finalize` |
| `IdentityProofs` | the theorem about `IdentityCatalog`, for every revision and every digest |
| `ConstructionSeal` | `construct` and what it collects, `seal_construction_graph`, `plan_tests` |
| `DistributionSeal` | `CompilerDistribution::seal` |
| `FrontEndProofs` | theorems about `DistributionSeal`, for every installation, about `SpecializationDemand`, `FunctionFacts` and `FunctionRuns`, for every program, about `ConstructionSeal`, for every evaluation, and about `Places`, for every set of moved places |
| `DeclarationSyntax`, `SourceText` | what the parser makes of the lines of a declaration; `parse` behind the lexer |
| `SourceGrammar` | the language of those sources, defined without stacks and without an order of reading |
| `SourceProofs` | the theorem about the scan of `SourceText`, for every source |
| `Places` | places, conflicts and the set of moved places: `PlaceKey`, `MoveState` |
| `FunctionLowering` | `Lowerer`: how a body is checked and lowered, with its moves, known integers and scopes |
| `ArtifactVerifier` | `verify_lowered_artifact` of one function |
| `FunctionExecution` | what the executions of a lowered function do to its places, by the rules of the language |
| `CheckedFunction` | a function from source over lowering and verification to an execution |
| `EvaluatorMachine` | values, controls and the primitives (push, pop, retain, release, bind, clear) of `evaluator.rs` |
| `Evaluator` | `run_machine`: one action per control; fuel, ceilings, cancellation |
| `EvaluatorProofs` | lemmas about the machine's data and primitives; theorems about `Evaluator`, for every program |
| `EvaluatorReference` | the big-step semantics the machine has to agree with, by recursion over the program |
| `EvaluationEngine` | `Engine` over all the roots of a compilation: EXTENDS `Evaluator` with the constant cache |
| `EngineProofs` | theorems about `EvaluationEngine`, for every list of roots |
| `EngineReference` | what a root costs and reads when nothing is cached |
| `CompilerSession` | `Compiler::compile`, several calls at once |
| `CompilerSessionProofs` | theorems about `CompilerSession`, for every set of calls and requests: when a call may refuse or fail, and what it answers |
| `MCAnalyses` | composes the modules of the front end, one task per behaviour |
| `MCSourceText` | one source text alone, for a run on its own |
| other `MC*` | workloads and instances for TLC |

### Function facts (`MonotoneFacts`)

A `FunctionFacts` value only ever gains facts in the merge, so it is the set of
those facts (not pure, may panic, suspends, not eligible, transfers ownership,
one per Build Constructor); `merge` is union and its Boolean result is "grew".
`pending`, `facts` and the early return are the variables of the source.
`pop_first` is the `IsFirst` guard. The cancellation flag may be set between
any two turns and is polled where the source polls it: after a node is taken,
not when the worklist is empty.

`WeightedCosts` has the `remaining` counters and the `ready` set of the source;
a recursive function counts as `Greatest` before any other is taken.

### Facts and runs (`FunctionFacts`, `FunctionRuns`)

`FunctionFacts` reads bodies of typed HIR, which nest no deeper than
`BodyNesting` (3 in the run: an argument of a call in an operation is an operation
again), as `visit_statements` and `visit_expression` do, with what they do not
visit left unvisited (guards, the indexes of places). `FunctionRuns` knows nothing of facts: a run enters a
function, evaluates any part of the body any number of times, and calls.
`FactsCover` relates the two for programs without the parts that are never
visited (see "Known divergences"). The own costs of functions and the
numbers of their calls are inputs of `WeightedCosts`. `CyclesEnd` says that what `analyze_recursion`
proved is true: no run nests the functions of a proven cycle deeper than its
bound, whichever arguments are passed by name or by place.

### Errors (`ErrorFlow`, `ErrorPaths`, `ErrorInference`)

`ScanDefinition` is `scan_definition`, used by `infer_signatures`; `ScanFunction`
is `walk_statements`, used by `analyze`. They follow different things, and both
are there. `Propagate` is a turn of either worklist, `Installed` the signatures
`semantic.rs` installs before it lowers again. A cancelled `analyze` hands out no
diagnostics and its caller does not poll, so a program that nothing else speaks
against goes on; `Evaluate` is the evaluation's first charge, whose poll
(`Polled`) is all that keeps it from being accepted. `PropagationsChecked` is
therefore about every program that is found clean, cancelled on the way or not.
Executions (`ErrorPaths`) take each branch and run loops at most once.

### Specializations (`SpecializationDemand`)

A program and a compile-time condition demand in different ways: the first
lowers all templates and materializes what is missing, the second lowers in
turns what it was found to need. `DemandExact` compares the bodies with the
least set that is closed under calls. `DemandAssumption` says what a program is:
what is called and read is there (`Linked`), only a generic body has a parameter
to pass on (`Scoped`), and its types nest to `TypeDepth` at most (`Nested`).
Programs whose types would grow for ever (polymorphic recursion) have no such
bound; the code does not end on them (see "Known divergences"). `interrupted` is
the cancellation, which is polled before a body.

### Selection (`ComptimePrograms`, `ComptimeSelection`)

`Probe` is `analyze_with_probe` for a condition: what it diagnoses before any
body is lowered, the functions the condition demands, and its value. The three
phases of `select_comptime_declarations` are the stages "top", "members" and
"statements". The first one captures its selections at its start and probes the
program as it is; the others look for the first selection left and probe a
program in which undecided statements panic (`Erased`). `SelectionStable` takes
the program that came out and evaluates every condition again in it.

### Identities (`IdentityCatalog`)

A canonical key is its parts with their lengths, a digest a polynomial of it
modulo `hasher`. A wide modulus has no collision among the keys of an instance,
a narrow one has one sooner or later, in every domain. `index` is
`specialization_records`: positions in `records`, filled while bodies are lowered
and rebuilt when the records are sorted. The cancellation is polled where
`catalog_with_hasher` polls. `fingerprint` is what identifies the bytes of a
declaration (module and start) or the body of a specialization.

`Entries` is what one declaration is interned as, in the order of the code, each
entry with the place where semantic analysis looks it up: the map it is put in
and its key there. The sort by keys is a stable insertion, and keys and traversals of types are
recursive functions on the depth of types (`TypeNesting`: 3 in the run, an array
of a nominal type with an argument; any in the proofs). `RevisionAssumption`
has what parsing and lowering make sure of: no two modules share a path, and
types and demands name definitions of the revision that are not malformed, a
nominal type one of the four kinds that have a type. `Malformed` is where
analysis stops before anything is lowered: a declaration that is not valid, or
whose name is taken.

### Construction (`ConstructionSeal`)

An evaluation is the sequence of its steps that make a value with handles or
test applications in it; the rest of the machine is in `Evaluator`. What a value
has in it are earlier values, by number (`ConstructorAssumption`), as the
evaluator shares them (`Arc`). `EdgesOf` and `ApplicationsOf` walk values as `collect_construction_edges` and
`collect_test_applications` do. `Verdict` has the checks of
`seal_construction_graph` in their order. `SealExact` is stated over the steps,
without handles: one Image, returned, made of everything that was built.

### Distribution (`DistributionSeal`)

One action per stage of `seal`; an error ends it. `MCCompilerSession` assumes,
with the same definition, that the two modules its calls run beside are sound.

### Syntax (`DeclarationSyntax`, `SourceText`, `SourceGrammar`)

A source is a sequence of physical lines, each an indentation and tokens. The
variables of the scan are those of `scan_layout_and_delimiters`: `indents`,
`open`, `expecting`, and what it emits (`layout`, `reports`); `ScanLine` is a
line, `Continue`, `Deepen` and `Return` the three things it can do. `ListDeclarations` is
`parse_imports` with `parse_declarations`, `ParseBody` one declaration with its
extent, `FinishParse` the rest of `parse`. The parse functions are operators over the
lines of an extent that give the index they stop at. `kept` is history: the
lines that are in some syntax. Positions are what the two comparisons of ranges
(`has_local_syntax_evidence`, `structurally_valid`) can tell apart.

`SourceGrammar` says by depth that delimiters are balanced (`Matched`,
`Delimited`), of every logical line what it stands in (`Parent`, `Takes`) and
that blocks are announced and indented (`LaidOut`). `LayoutExact` compares the
scan with it, malformed sources and their recovery included, and
`AcceptanceExact` the reports of the whole. The latter leaves out the sources that the
parser is known to misread (`Misread`) or in which it passes over a line
(`Unseen`); the finding and the divergences below are about these.

### Evaluator (`EvaluatorMachine`, `Evaluator`, `EvaluatorReference`)

The machine is a record with the source's fields: `frames`, `calls`
(`call_stack`), `memory`, `peak`; `prior` is the compilation fuel of earlier
roots and `limits` the five ceilings, which are constants of the source and are
small numbers here, chosen per workload. A frame has its `controls`, operand
`values`, `locals` (a function whose domain is the initialized ones) and
`writebacks`. Each control of the source is a record with the same name, and
each arm of the `match` in `run_machine` an action, its pushes in the source's
order. An arm that fails half way leaves the machine as it was at the failing
call, as `?` does.

Data is abstract. A value has a tag, the site that made it, the values inside it
and the logical size the tariff gives it; every outcome that depends on data (a
condition, the element that an index names or none, an overflow) is a choice
recorded in `trace`. The names of a struct's fields count for one byte each. Arms that differ only
in data are one action (`Compound`, `FinishBinary`, `FinishNegate`). `Option`
is `Result` with other names. Build Constructors (`construct`) are in
`ConstructionSeal`. Left out: Tuple, Index, BitNot, Not, Is and RepeatedArray,
which are evaluated like the expressions that are there, and places with more
than one projection.

A call goes to a function it names, or to the function or closure that is the
value of an expression (`CalleeOf`, `Call`). Arguments are evaluated in the order
they are written in and bound by `argument_order` (`InOrder`); a function value
is called by position. A place is a local, a field of it or an element of it
(`Projected`, `Stored`). A store through a projection, and the copy of a mutable
parameter back into a field of the caller's local, release the size of the whole
value and retain that of the new one (`ReplaceLocal`). The frame is pushed once all
parameters are bound, as in the source.

The constants of `Evaluator` are the workloads, `Code` (every HIR node that
occurs in a program) and `Identities` (of constants). `CodeAssumption` says what
the Rust types of `typed_hir.rs` say of a node: what kinds there are, that the
parts of a node are nodes, that lengths are numbers and that a sequence is one;
beside that only that the parameters of a function are different locals, which
`bind_local` sees to, and that the root function exists, which the planning of
roots sees to. Nothing is assumed about types: an operand of the wrong kind is
a Defect of the machine, as in the code.

`EvaluatorReference` gives programs a meaning with no stack of controls and
reads the choices from `trace` in order and by site. Agreement therefore says
that the machine evaluated the same leaves, once each, in the same order, and
ended with the same value or failure.

### Engine (`EvaluationEngine`, `EngineReference`)

`roots` is the loop of `semantic.rs` 1827-1945: constants in the order of their
identities, assertions, the image unless something was diagnosed. `cache`,
`evaluating`, `dependencies` and `retained` are `constant_values`,
`evaluating_constants`, `root_dependencies` and `compilation_memory`. A
constant is cached before its size is held against the ceiling on what the
compilation retains (`Overfills`): the root that crosses it fails, and the value
is there for the next one. `RetentionCapped` says what must hold all the same:
the size is counted once for each cached value, the ceiling is reported exactly
when it is crossed, and no later root completes with a constant that was not met
by then. `EndRoot`
is `finish` with the `start_root` of the next root. The handlers of `Evaluator`
are reused as they are. `EngineAssumption` says that the table of constants is a
finite map from identities, which are ordered (`Ascending`, the order of the
`BTreeMap` that `semantic.rs` walks), to nodes, and that assertions are a list
of nodes.

### Session (`CompilerSession`)

`call[c]` is the local state of `compile_inner`; `pc` names the phase. Paths
are numbers in path order, so the worklist takes them as `BTreeSet::pop_first`
does. `Checkpoint` is the poll of a phase: selection, identities and analysis
are one step each because what they return is a function of the request and
because each polls again after its last partial result, so a step at the
last poll represents all the earlier ones. `Panic` may happen anywhere inside
`contain`. Diagnostics are a set of code and path; their order, ranges and
wording are left out.

### Lowering and verification (`Places` to `CheckedFunction`)

`CheckedFunction` takes one function through `typed_hir.rs`: `LowerBody` is
`lower_concrete_function`, `VerifyBody` is `verify_lowered_artifact`, `Cancel`
the poll before a statement or an expression, and `RunFunction` chooses one of
the executions. The first two are recursive descents without state that anyone
else sees, so they are operators; `Lower(st, part)` and `Verify(v, part)` have
one case per kind of statement and expression and thread the flow state of the
source: `moved` (`MoveState`), `known` (`known_integers`), `locals` with their
mutability, `depth` (`loop_depth`). The HIR is the syntax with names replaced by
places. A refusal ends the lowering with the source's failure kind; only
`ReadAfterMove` lets it go on (`misused`), so that the function that was refused
can be executed and the refusal judged.

`FunctionExecution` knows nothing of the lowering's flow states. It runs the
HIR with the set of leaves (fields of fields, elements) that hold no value;
conditions, iterations and calls are chosen, integers and Booleans computed. Its
`env.detour` remembers that the path ran a loop body some other number of times
than once, or left it early, or is in a deferred expression.

The properties of the passing run say for which functions they hold, because
the code does not keep them for all; what is left out there is what the findings
are about. `NeverReadsMoved` is about paths without a detour in functions that
give no value to a part of a moved whole and take only by `take` and by cases of
a match. `VerifiesWhatItAccepts` is about matches without guards whose last case
takes what is left. `RefusalsAreEarned` leaves out assignments, elements (an
array is read as a whole before an element is looked up), deferred expressions,
and statements after one that leaves. `EndsRegularly` has no such condition, but
the programs change the counter of a `while` in the first statement of its body
only and use a name bound there only there.

The programs (`MCCheckedFunction`) are families: `Flows` puts every compound
statement, with every block of up to two or three atoms (show, drop, renew,
return) and every way to leave, before and after moves of an immutable
parameter; `Renewals` are sequences of four on a mutable one; `PairFlows` and
`TrayFlows` all sequences of three operations on fields and on elements;
`Loops` every operator, start, limit and step of a counter after ten ways to
change or to forget what is known of it; `Wrong` the other refusals. Parameters
that are not mutable stand for locals bound once as well.

Left out: types beyond what places need, assert and expect, closures, tuples and
unary operators, nested patterns, `mut` access, `await`, unification of calls,
specializations, source ranges and fingerprints.

## Runs

| Run | Instance | Shows |
|---|---|---|
| `Analyses` | eleven tasks, below | each part of the front end computes what it should, cancelled or not, and ends |
| `Evaluator` | about 60 programs with generous ceilings; recursion and growing values with tight ones in 3 states of the compilation's fuel; calls, captures and Unit functions under 37 memory ceilings | agreement with the semantics; memory and call stack exact; no Defect; ceilings, cancellation, termination |
| `Engine_receipts` | all tables of 3 constants over 14 expressions; assertions; tight ceilings | cache, cycles, dependencies, ceilings over roots, what the cache retains, order of roots |
| `CompilerSession` | import graphs of 3 project modules beside 2 authenticated ones, one of which the project may shadow; 5 broken snapshots; 2 calls with 6 kinds of request each | canonical outcome, closure, syntax, poisoning, termination |
| `CheckedFunction` | 30,000 functions in 6 families | moves, loop bounds, exhaustive matches; lowering and verifier agree |
| `Evaluator_nested_propagation` | 2 programs | finding 1 |
| `Evaluator_loop_binding` | 3 programs | finding 2 |
| `Engine_dependencies` | the instance of `Engine_receipts` | finding 3 |
| `Lowering_ownership` | the instance of `CheckedFunction` | finding 4 |
| `Lowering_verdicts` | the instance of `CheckedFunction` | finding 5 |
| `Lowering_restoring` | the instance of `CheckedFunction` | finding 6 |
| `SourceText_lowered` | the sources of `Analyses` (`MCSources`) | finding 7 |

A behaviour of `Analyses` is one task on one of its workloads:

| Task | Instance | Property |
|---|---|---|
| facts | all graphs of 3 functions, all subsets analysed, 2 facts | `WorklistCovers`, `SolvesLeast` (refinement of `FactSolver`) |
| components | all graphs of 3 functions | `ComponentsExact` |
| costs | 4 functions, acyclic graphs and graphs with cycles, 2 own costs | `CostsExact` |
| runs | programs of 2 functions: every kind of expression and statement; every pair of calls and measures | `FactsCover`, `CyclesEnd` |
| errors | programs of 2 functions beside a third | `ErrorsInferred`, `PropagationsChecked` |
| demand | 4 functions, 2 of them generic, 2 constants, a test, a condition | `DemandExact` |
| selection | 2 modules with top-level, member and statement selections whose conditions depend on each other | `SelectionStable` |
| identities | 2 modules with every kind of declaration; up to 3 demands in every order; 1 wide and 8 narrow digests | `IdentitiesUnique` |
| construction | Image Constructors of 4 steps, loops and constants included | `SealExact` |
| syntax | 9,800 sources in 10 families: functions, structs, suites and the margin, each with every sequence of three or four lines behind a beginning | `LayoutExact`, `AcceptanceExact` |
| opening | all import graphs of 3 modules, with a missing one; one defect of each kind | `SealedIsSound` |

The tasks share one state space because nothing of theirs interacts: each is a
function of the program and the cancellation flag, and what one hands to the
next is an input of the next one's workloads.

**Bounds.** Three nodes have every shape the loops of `graph.rs` distinguish:
self loops, two-cycles entered from outside, three-cycles, diamonds without a
middle; costs take four, for a diamond with a tail. One fact decides every question about the worklist, because merging
treats facts one by one; the second is there so that a node which was already
propagated receives another fact and waits again, and `FactsBegin` gives it one
source, analyses every node and lets none call itself. Two functions, one of which calls the other
in every way, are what the scans of bodies and the descent of a measure look at;
errors and specializations take one more, to hand something on. In selection the
conditions of each phase depend on what the others select, in both directions.
Four steps are enough for a construction that is built into another, a test in a
Test and what is left over. Sources have a beginning and three or four lines
behind it, at two or three indentations: blocks within blocks, several levels
that end at once, alternatives of every condition and of none, headers that go
on, and declarations with a selection or an assertion behind them. The evaluator's programs are every way to
leave a block (`return`, `return` with `?`, a bare `?`, panic, assertion, break,
continue) in every kind of block and loop, with a deferred expression before
and after it, one in the surrounding block, and one of them a call; plus
programs for write-backs (into fields too), arguments out of order, function
values, captures, evaluation order and Unit functions. Loops
run at most twice: the second iteration is what finds stale state. The tight
ceilings are such that each of the four is the first to be reached by some
behaviour. Three constants allow chains, diamonds and cycles with a tail. In
the session, paths, files and modules are small but every diagnostic of the
front end occurs; two calls are enough for a call to begin before, during and
after the poisoning.

**Fairness.** `Terminates` of `CompilerSession` assumes weak fairness of every
call, `Terminates` of `Evaluator` and `AnalysesEnd` that the loop goes on while
it has no answer. The latter two are weak fairness of a step that is enabled
until then, spelled out by what the step changes; that it is enabled is what
their runs check with deadlock. The code runs on the calling thread without
blocking or waiting for anyone. Nothing assumes that somebody cancels or panics.
The other runs do not check deadlock because every behaviour ends with an
outcome, after which the system really does nothing.

**Mutants.** Every property of a passing run is violated by a mutated operator
that stands beside the original and carries a comment saying what it forgets.

## Findings

1. `return Result.Ok(f()?)` does not return early: `?` below a scheduled return
   leaves its alternative as an operand (`evaluator.rs` 1617).
2. A binding in a loop body ends the second iteration with a Defect
   (`evaluator.rs` 1103).
3. Receipts lose dependencies of cached constants (`evaluator.rs` 2031).
4. A moved place can be read: after a part of it was assigned, in the second
   round of a loop, after `if x is take y` (`typed_hir.rs` 112, 3720, 3828).
5. Guards, Boolean matches and variants are judged differently by the lowering
   and the verifier, and a source mistake ends as a Defect (`typed_hir.rs` 2511).
6. A mutable place stays unreadable after it was assigned (`typed_hir.rs` 3676).
7. A body with an `else` or `elif` of nothing lowers without the lines from
   there on, and nothing is reported (`syntax.rs` 3288).

### Known divergences

These were met while modelling and have no run of their own. The properties
leave out the programs they need, as said beside each definition.

- Loops and recursion: a `while` whose counter is changed again later in its
  body ends as a Defect (`evaluator.rs` 1313), as does a name bound in a body
  that ran no round; polymorphic recursion demands specializations without end
  (`typed_hir.rs` 1744).
- Facts: `local_facts`, `recursive_calls_decrease` and the demands of
  specializations do not visit the guards of cases nor the indexes of places;
  shifts do not count as panics, though the machine checks them
  (`semantic.rs` 2872); a function value adds no edge to the call graph. A
  recursive function that is proven to end is bounded, while its callers keep
  the cost `u64::MAX`.
- Syntax: a declaration whose header does not end (no colon, or the next
  declaration inside its delimiters) is skipped without a diagnostic, because
  `normalize_declaration_lines` fails before anything is reported (`syntax.rs`
  2397, `semantic.rs` 686); so are an `else` at the margin and, between the
  branches of a top-level selection, lines that are no declarations. A `#` in a
  scalar or bytes literal counts as a comment (4939). A line of a body does not
  go on inside delimiters, though syntax.md:50 says it does. A struct may not be
  followed by a top-level `comptime` (2841). `else` may be followed by further
  alternatives in selections of declarations and members. A block that is
  missing at the end of a declaration is reported at the next one, which then
  counts as malformed in its place.
- Errors: a function whose error is left out may end with two different errors
  in a program without a diagnostic: `infer_signatures` follows locals,
  `walk_statements` (`error_flow.rs` 398) only calls that are returned or
  propagated directly, and compiler.md:77 wants a diagnostic for conflicting
  contributors. `x = Result.Ok(1)` has no error and unifies with any; a cancellation
  during `analyze` in a program that has another diagnostic ends as `Rejected`
  without the diagnostics of errors (`error_flow.rs` 298).
- Selection: a condition that depends on a later selection, or on a function
  with an undecided statement, is refused although there is no cycle; so is one
  in a program with a signature that names a selected type. A selection in the
  body of a `with` is never made. A member selection may add a variant under a
  name that the enum has. The modules of the distribution are sealed without
  their selections being made.
- Construction: a coordinate does not name the round of a loop, so building
  twice in a loop is a Defect (`evaluator.rs` 2099), and a handle that reaches
  the Image through a constant is one too. A test application that is given to
  `Image.new` itself and to no `Test` is reported as missing.
- Conditions: the lowering of a condition can end in a Defect where the same
  body in the program would be diagnosed (`typed_hir.rs` 1323).

## Proved

`GraphProofs` proves of `MonotoneFacts`, for every set of nodes (integers, for
the order), every set of facts and every graph:

- `TypeCorrect`: `Spec => []TypeOK`.
- `Covers`: `Spec => []WorklistCovers`, inductive together with `TypeOK`. A
  turn takes the callee off the worklist, and the callers that still lack one of
  its facts have just been given them; any node whose facts grew is put back
  (`UnchangedFacts`), so no pair that was settled becomes unsettled silently.
- `InventsNothing`: `Spec => []NothingInvented`. A turn adds to a caller only
  what every closed assignment above the local facts already has.
- `ImplementsSolver`: `Spec => Solver!Spec`. When the worklist is empty, `Covers`
  makes the facts closed and `InventsNothing` bounds them by every solution, so
  they are the least one (`EmptyWorklistIsLeast`); every other step stutters.

The only assumption is `NodeAssumption`: nodes are integers, standing for the
total order of identities.

`CompilerSessionProofs` proves, for any set of calls, any distribution and all
requests:

- `TypeCorrect`: `Spec => []TypeOK`.
- `PoisonRefuses`: `Spec => []PoisonedRefuses`.
- `OutcomesExplained`: `Spec => []OutcomeExplained`.

The inductive invariant `IInv` adds to the three that calls keep their shape (so
that an update of one of its fields leaves the outcome alone) and `Refused`: a
call that began on a poisoned instance has its Defect at once. Every step of
`compile_inner` is shown to `Advance` one call, which is what `IInv` needs of
it: the other calls and the flags stay, and the call goes on or returns with an
outcome that has a cause (one lemma per action). `Begin`, `Panic` and `Cancel`
are the only steps that write what calls share, and they never take a flag back.
The assumption is `WorkloadAssumption`: requests are made by calls, and the
results of selection and analysis are among those the code has.

Of what these calls publish, whatever the other calls and the cancellations do
in between, it proves:

- `PublishesClosure`: `Spec => []ClosureExact`.
- `AnswersCanonically`: `Spec => []OutcomeCanonical`.
- `ShowsEveryFile`: `Spec => []SyntaxWhole`.

The invariant `Answers` says of every phase what a call knows there of its
request: `AtIngest` that the files are the first ones of each path among those
seen, and that there is a diagnostic exactly if one of those is broken;
`AtClosure` that parsed and pending modules are in the closure and that imports
of a parsed module are parsed or pending, so that an empty worklist is the
closure; the later phases that the diagnostics are empty exactly if everything
so far was clean. `DistributionAssumption` is that the sealed distribution is a
finite map from modules to the modules they import.

`EvaluatorProofs` proves, for every program, all ceilings and every choice of
data:

- `MemoryIsConserved`: `Spec => []MemoryConserved`.
- `CallStackIsExact`: `Spec => []CallStackAgrees`.
- `CeilingsHold`: `Spec => []LimitsEnforced`.

The inductive invariant `IInv` is needed because each of the three speaks of
the whole machine. `Reckoned(m, off, w)` says that the frames have the shape of
the source's types, that memory is what they retain and `off` more, that the
call stack is as long as there are frames of functions, that the peak is
within the ceiling, and that the frames of the engine are those in `w`. A
handler charges before it stores or stores before it charges; `off` is the
difference, so each primitive has a lemma of its own (`PushReckoned`, ...)
and a handler is a chain of them that starts and ends with 0. Shapes are needed
since an operand's size is that of its parts (`FinishPropagate` releases a Result
and retains its payload), and a local's size is found again when it is cleared
only if every local was bound with one. `Grounded` says that the lowest frame
is a function's or a root's: returning from it ends the root. `Within` and
`OutOfFuel` say that whoever goes on has been charged within the ceilings,
and whoever stopped for fuel has not; `Unstarted` is the exception, before the
first charge. `Unmarked` says that the evaluator alone opens no frame of the
engine.

Two things take the place of induction over data. A value is a member of some
set that holds the parts of its members (`IsValue`, `Sound`), so no recursion
over values is needed; since that set is unbounded, TLC checks the consequences
of `IInv` and not `IInv` itself. What folds over sequences and sums over
finite sets compute is proved from a least counterexample
(`LeastNumber`, `MinimalSet` in `Fundamentals`).

`EngineProofs` proves, for every table of constants and every list of roots:

- `CycleStackIsExact`: `EngineSpec => []CycleStackAgrees`.
- `CeilingsStickForGood`: `EngineSpec => []CeilingsStick`.
- `EngineMemoryIsConserved`: `EngineSpec => []MemoryConserved`; the accounts of
  the machine stay exact when constants are evaluated below a root, taken from
  the cache or refused.

`EInv` adds to `IInv` that `evaluating` names the constants of the frames that
the engine opened, in their order; that they differ and are not cached
(`StackOK`), without which finishing one could take another off; that each
remembers a fuel that was charged already, so that the difference it caches is
a number (`Enters`); that what is cached is a value (`CacheOK`), since a later
root pushes it; and what the receipts say of the fuel used so far (`Recorded`),
from which a ceiling of the compilation that was reached once is reached in
every later root. `Uncharged` is the exception to `Within` in a root that was
not charged yet: `finish` starts it whatever the earlier ones used.

`FrontEndProofs` proves, for every installation that is made of modules
(`InstallationAssumption`):

- `OpensOnSound`: `DistributionSpec => []SealedIsSound`.

`DistributionInv` says what every stage of `seal` may rely on: the modules that
were looked at are in order and collected under their paths (`InOrder`,
`Collected`), then all are and their imports are closed, then the imports have
no cycle (`Layered`). A stage goes on with what the next one needs or ends with
an error that names something that is wrong. That the graph search of the code
finds a cycle exactly if the modules have no layers is `CyclesOrLayers`: a node
without layers beneath it has a successor without, and in a finite graph such
a walk comes back to itself.

For every program of `DemandAssumption`, it proves:

- `DemandsAreExact`: `DemandSpec => []DemandExact`.

`DemandInv` says that what is recorded is needed and either missing or
specialized; that a lowered body has what it calls on record; and what a program
(`ProgramPart`) and a condition (`ConditionPart`) have lowered so far. With an
empty worklist what is recorded is then closed under calls, has the roots and
nothing more. The set to compare with is computed in rounds: it is the least
closed one because each round adds something or is the last, and there are no
more specializations than rounds (`RoundsExist`, `RoundsLeast`, `RoundsClose` in
`Fundamentals`); this is where `Nested` is used. A condition adds roots while it
evaluates constants, so what is needed grows with it (`NeededGrows`).

For every program of typed HIR (`BodyAssumption`), it proves:

- `FactsCoverRuns`: `RunSpec => []FactsCover`.
- `ProvenCyclesEnd`: `RunSpec => []CyclesEnd`.

Both speak of `Plain` programs, those without the parts that the visits pass
over; there `visit_expression` sees what `visit_children` sees (`LookedAtAll`),
so the call graph has every call that can be made (`PlainEdges`). `RunInv` says
that every frame is reachable from the function that was entered first and from
every frame below it (`Chained`), and that of two frames on one cycle the inner one
has the smaller measure (`Sinking`). A call preserves it: if the callee is on a cycle
with some frame it is on one with the caller too, since the caller lies between
them, and the call was found to lessen the caller's measure, in the argument
that is bound to the callee's (`CallSinks`). The frames of a cycle then have
different measures, and there are no more than an integer type has values
(`CycleBounded`). The assumption says what `verify_program` checks of a call,
that its arguments are bound to its parameters one to one, and that no body
nests deeper than `BodyNesting`, which may be any number.

`GraphProofs` also proves, for every finite set of functions, every matrix of
calls and all own costs (`CostAssumption`):

- `CostsAreExact`: `CostSpec => []CostsExact`.

`CostInv` says that a function waits for exactly those of its callees that were
not taken (`Taken`) and has its own cost and theirs added up; saturation may cut
a sum off early because it only rises (`WeightOf` is the sum, by multiplicity).
When nothing is ready, all were taken (`AllTaken`): functions that wait would each
wait for another one, so some would be on a cycle, and those were recursive and
ready from the start.

For every finite graph (`GraphAssumption`), it proves:

- `ComponentsAreExact`: `SearchSpec => []ComponentsExact`.

`SearchInv` is about both passes. `OrderInv`, about the first: the nodes on the
stack whose edges are followed form a path; what a finished node reaches
directly was visited; and a finished node has one of its class on that path or
is `Settled`: all that it reaches is finished, and none of it after the last of
its own class. `GatherInv`, about the second: what was visited is a union of
classes, the components so far, and a part of the class of the present root, and
every node that finished after the root is visited. A predecessor that is found
reaches the root; as it is `Settled`, one of its class finished with the root or
later and was visited, so its class is a component already or that of the root
(`NewInClass`). When the stack is empty there is no predecessor left and the
component is the whole class (`ComponentIsClass`).

`IdentityProofs` proves, for every revision of `RevisionAssumption`, whatever the
modulus of the digest, the declarations and the order of demands:

- `IdentitiesAreUnique`: `IdentitySpec => []IdentitiesUnique`.

`IdentitiesUnique` is not inductive: it speaks of the records that are there and
only of the final catalog that it is whole. `IdentityInv` says what the catalog
holds at every step. At a module and a declaration of it, these are the entries
before that place (`Catalogued`, `EntriesUntil`); while the lowering asks, all
declarations and what the answered demands generate, each key once, with the
specializations where the index says (`Lowered`, `GeneratedFor`); and where it
failed, two records that should be there have one digest and two keys
(`Clashing`). Three facts carry it:

- A place has one key and, unless digests clash, a key has one place
  (`KeyAtPlace`, `PlaceAtKey`): the lengths before the parts make keys readable
  (`KeyBegins`), and the domain, the digest of the owner and the kind in a key
  tell modules, declarations and what is nested in them apart (`CaseIs`,
  `CasesDiffer`). With a valid revision a place has one record (`RecordAtPlace`),
  so removing duplicates loses nothing.
- `Before` is a strict total order of keys (`BeforeOrders`), by the first part
  where two keys differ, the end of a key being less than any part. So the
  insertion has a point (`InsertionPoint`), sorting keeps the records
  (`KeyOrderFacts`), and one record for each key is left (`DeduplicatedFacts`).
- What a demand adds depends on the identities of definitions alone, and these
  are settled before the first demand (`AddKeeps`, `InternTypesKeeps`). A type is
  looked up by its own key, so an answer may be that of another type with that
  key; it is then generated exactly if the other one is (`DeclaredAlike`,
  `GeneratedAlike`). Positions that were indexed are right for the fingerprints
  and are found again after the sort (`FingerprintedIs`, `RebuiltFinds`).

Of the digest the proof uses only that it is a number and a function of the key.

`FrontEndProofs` also proves, for every evaluation of an Image Constructor
(`ConstructorAssumption`), of any length, with loops, constants and values that
are used many times:

- `SealedIsWhole`: `SealSpec => []SealExact`.

`SealInv` says what the evaluation has recorded after each of its steps: the
values are those of the steps (`ValuesMade`); there is one construction for each
step that built something, with the handles of what went into it, and no two of
one identity (`Recorded`); every application collected is that of a step in a
Test, in the order of the Tests, and each such step was collected at least once
(`ApplicationsListed`). The walks over values are compared with what goes into a step
(`EdgesAre`, `ApplicationsAre`), from a least counterexample. When the sealer
looks at it, the constructions are the builds, an edge that leaves them is a
constant's (`OwnClosed`), and what is reached from the image is what went into it
(`ReachedAre`): downwards because what goes into a part goes into the whole,
upwards because what goes into the image is inside it or inside something that was
built into it (`PartsAre`). A test that was collected once comes from a single
step of a single Test, since each such step would have been collected
(`PlanExact`).

Of the lowering, `FrontEndProofs` proves what its move checks rest on, for every
set of moved places and every place, of any depth:

- `MovesAreExact`: a place is unreadable exactly if a part of it may have been
  moved; moving it makes its parts and no others unreadable; restoring it makes it
  readable, makes nothing else unreadable, and gives up no moved place that has no
  part in common with it.

A part is a place whose indexes are all known, as when the function runs; a place
of the source stands for the parts that its paths with unknown indexes may mean.
`ConflictsAreExact` shows that `PlaceKey::conflicts`, which compares two paths step
by step as far as both go, decides whether two places stand for a common part.
Restoring may give up more than was assigned, when the place is an element with an
unknown index or lies inside the moved one: what this lets a function read is
finding 4, and `NeverReadsMoved` leaves such functions out.

`SourceProofs` proves, for every source (`TextAssumption`: any lines of any
tokens, blank ones, broken ones and lines within delimiters included) and every
`MAX_NESTING`:

- `LayoutIsExact`: `TextSpec => []LayoutExact`.

`TextInv` has, beside `LayoutExact` itself, what the scan knows before a line
(`Scanning`). As long as nothing was reported, its stacks mean what they should:
the open delimiters are the openers of the depths reached so far (`Delved`), the
levels are four apart and each encloses what comes (`Nested`), and the lines so
far are placed, each at the level of the blocks begun and not ended before it
(`Ranked`). Once something is reported, only two facts stay: levels rise
(`Rising`), and as many were begun as ended or are still there (`Balanced`). These
are what recovery must not break, and what `EndScan` needs to end all of
them (`EndBalanced`). That a report is right follows because the language can be
put as the scan meets it, line by line (`Regular`, which is `Delimited` and
`LaidOut` by `RegularExact`): whatever makes the scan report something makes the
source irregular, and a scan that reports nothing has seen all of it. What comes
after the scan reports nothing with a code of the layout (`LaterKeeps`), the
branches of a compile-time selection included.

## Only model-checked

- Liveness: `Terminates` (twice) and `AnalysesEnd`. Liveness under fairness is out
  of the prover's reach.
- What is stated with a recursive definition, which the prover cannot expand:
  agreement with `EvaluatorReference` and `EngineReference`, and everything about
  the lowering, the verifier and the executions (`CheckedFunction`),
  `ErrorFlow` and `ComptimeSelection`, and `AcceptanceExact` of `SourceText`.
- `RetentionCapped` of the engine: its last part needs that every cached constant
  is named by some receipt, which is what finding 3 is close to; the run has tables
  of three constants whose values cross the ceiling only together.
- `NoDefect` of the evaluator: that typed HIR never meets one of the machine's
  checks for impossible states is type soundness, and the types are not in the
  model; it holds for the programs of the run.

## Not modelled

- In `syntax.rs`: the lexer, expressions, patterns and types beyond a few shapes,
  attributes and modifiers, enums, interfaces, pools and aliases, the limit of
  64 diagnostics, the polls and the green tree. What calls see of a parse is in
  `CompilerSession`.
- The declaration diagnostics of `semantic.rs`: visibility, aliases, interfaces,
  pools, attributes. They are independent checks without state.
- In `typed_hir.rs`: unification of calls and generic arguments, operators on
  types, closures' captures, access modes, fingerprints and source ranges.
- Roles, digests and authorities of the distribution; observations, labels and
  wording of diagnostics; the products that have documents but no code.

## Plan

1. `MatchCoverage` (`typed_hir.rs` 4871-5011, 6453-6488): exhaustiveness against
   all values, nested patterns included.
2. `CallUnification` (`typed_hir.rs` 5420-5930, `type_semantics.rs`).
3. The green tree of `syntax.rs` (`build_green_tree`, `merge_regions`): every
   byte owned once, branches of selections included.
4. Proofs: a form of the lowering without recursive operators, so that what it
   accepts can be proved about; `MovesAreExact` is the lemma it would rest on.
