---------------------------- MODULE FrontEndProofs ----------------------------
(***************************************************************************)
(* For every installation: the compiler opens exactly on a sound one       *)
(* (DistributionSeal).  For every program: the specializations that are    *)
(* lowered are exactly those that are needed (SpecializationDemand); what  *)
(* can happen in a run is among the facts of its functions, and cycles of  *)
(* calls that were proven to end do (FunctionFacts, FunctionRuns).  For    *)
(* every Image Constructor: what is sealed is the image that it built, and *)
(* the plan has the tests that are in it once (ConstructionSeal).  For     *)
(* every set of moved places: what may be read is what no part was moved   *)
(* of (Places).                                                            *)
(***************************************************************************)
EXTENDS DistributionSeal, SpecializationDemand, FunctionRuns, ConstructionSeal, Places, Fundamentals

Modules == installation.modules

(* How many modules were looked at.                                        *)
Looked == Len(Modules) - Len(given)

(* The first n modules are in order, and parsed.                           *)
InOrder(n) ==
  /\ \A i \in 1..n : Modules[i].valid /\ Modules[i].clean
  /\ \A i, k \in 1..n : Modules[i].path = Modules[k].path => i = k

Collected(n) ==
  /\ DOMAIN parsed = {Modules[i].path : i \in 1..n}
  /\ \A i \in 1..n : parsed[Modules[i].path] = Modules[i]

Left == /\ given \in Seq(Module) /\ Len(given) <= Len(Modules)
        /\ \A k \in 1..Len(given) : given[k] = Modules[Looked + k]

ImportsClosed == \A i \in DOMAIN Modules : Modules[i].imports \subseteq Paths(Modules)

(* The inductive invariant: what each stage knows of the installation.     *)
DistributionInv ==
  /\ installation \in Installations
  /\ opening.is \in {"parse", "cycles", "identities", "analysis", "open"} \cup OpenErrors
  /\ At("parse") => Left /\ InOrder(Looked) /\ Collected(Looked)
  /\ opening.is \in {"cycles", "identities", "analysis"} =>
       InOrder(Len(Modules)) /\ Collected(Len(Modules)) /\ ImportsClosed
  /\ opening.is \in {"identities", "analysis"} => Layered(Modules)
  /\ At("analysis") => installation.catalog = "identified"
  /\ SealedIsSound

-----------------------------------------------------------------------------

LEMMA Installed ==
  ASSUME installation \in Installations
  PROVE  /\ Modules \in Seq(Module) /\ Len(Modules) \in Nat /\ DOMAIN Modules = 1..Len(Modules)
         /\ \A i \in 1..Len(Modules) :
              /\ Modules[i] \in Module
              /\ Modules[i].path \in Nat /\ Modules[i].imports \in SUBSET Nat
              /\ Modules[i].valid \in BOOLEAN /\ Modules[i].clean \in BOOLEAN
         /\ installation.catalog \in {"identified", "collision"}
         /\ installation.analysis \in {"clean", "defect", "diagnostic"}
<1>1. Modules \in Seq(Module)
  BY InstallationAssumption DEF Modules
<1>2. DOMAIN Modules = 1..Len(Modules) /\ \A i \in 1..Len(Modules) : Modules[i] \in Module
  BY <1>1
<1>3. \A m \in Module : /\ m.path \in Nat /\ m.imports \in SUBSET Nat
                        /\ m.valid \in BOOLEAN /\ m.clean \in BOOLEAN
  BY DEF Module
<1> QED
  BY <1>1, <1>2, <1>3, InstallationAssumption DEF Modules

(* The import graph of the modules that were parsed.                       *)
LEMMA ImportGraph ==
  ASSUME installation \in Installations, InOrder(Len(Modules)), Collected(Len(Modules)),
         ImportsClosed
  PROVE  LET V == DOMAIN parsed
             e == [p \in V |-> parsed[p].imports]
         IN /\ IsFiniteSet(V) /\ V = Paths(Modules) /\ V \subseteq Nat
            /\ e \in [V -> SUBSET V]
            /\ \A p \in V : Reaches(p) = Reach(e, p) /\ ImportsOf(Modules, p) = e[p]
<1> DEFINE V == DOMAIN parsed
           e == [p \in V |-> parsed[p].imports]
           n == Len(Modules)
           paths == [i \in 1..n |-> Modules[i].path]
<1>0. /\ n \in Nat /\ DOMAIN Modules = 1..n
      /\ \A i \in 1..n : Modules[i].path \in Nat /\ Modules[i].imports \in SUBSET Nat
  BY Installed
<1>1. V = Paths(Modules)
  BY <1>0 DEF Collected, Paths
<1>2. IsFiniteSet(V)
  <2>1. IsFiniteSet(1..n)
    BY <1>0, FS_Interval
  <2>2. IsFiniteSet({paths[i] : i \in 1..n})
    BY <2>1, FiniteImage
  <2>3. V = {paths[i] : i \in 1..n}
    BY DEF Collected
  <2> QED BY <2>2, <2>3
<1>3. V \subseteq Nat
  BY <1>0 DEF Collected
<1>4. ASSUME NEW p \in V
      PROVE  \E i \in 1..n : Modules[i].path = p /\ parsed[p] = Modules[i]
                             /\ {k \in DOMAIN Modules : Modules[k].path = p} = {i}
  <2>1. PICK i \in 1..n : Modules[i].path = p
    BY <1>4 DEF Collected
  <2>2. parsed[p] = Modules[i]
    BY <2>1 DEF Collected
  <2>3. ASSUME NEW k \in 1..n, Modules[k].path = p PROVE k = i
    BY <2>1, <2>3 DEF InOrder
  <2> QED BY <1>0, <2>1, <2>2, <2>3
<1>5. ASSUME NEW p \in V PROVE e[p] \in SUBSET V /\ ImportsOf(Modules, p) = e[p]
  <2>1. PICK i \in 1..n : /\ Modules[i].path = p /\ parsed[p] = Modules[i]
                          /\ {k \in DOMAIN Modules : Modules[k].path = p} = {i}
    BY <1>4
  <2>2. e[p] = Modules[i].imports
    BY <2>1
  <2>3. Modules[i].imports \subseteq V
    BY <1>0, <1>1 DEF ImportsClosed
  <2>4. ImportsOf(Modules, p) = UNION {Modules[k].imports : k \in {i}}
    BY <2>1 DEF ImportsOf
  <2> QED BY <2>2, <2>3, <2>4
<1>6. e \in [V -> SUBSET V]
  BY <1>5
<1>7. ASSUME NEW p \in V PROVE Reaches(p) = Reach(e, p)
  BY DEF Reaches, Reach
<1> QED
  BY <1>1, <1>2, <1>3, <1>5, <1>6, <1>7

(* The least of what was found is of it.                                   *)
LEMMA LeastIn ==
  ASSUME NEW S, S \subseteq Nat, S # {}
  PROVE  Least(S) \in S
  BY LeastNumber DEF Least

LEMMA CyclicOrLayered ==
  ASSUME installation \in Installations, InOrder(Len(Modules)), Collected(Len(Modules)),
         ImportsClosed
  PROVE  /\ Cyclic = {} <=> Layered(Modules)
         /\ Cyclic # {} => \E S \in SUBSET Paths(Modules) :
              Least(Cyclic) \in S /\ \A p \in S : ImportsOf(Modules, p) \cap S # {}
<1> DEFINE V == DOMAIN parsed
           e == [p \in V |-> parsed[p].imports]
<1>1. /\ IsFiniteSet(V) /\ V = Paths(Modules) /\ V \subseteq Nat
      /\ e \in [V -> SUBSET V]
      /\ \A p \in V : Reaches(p) = Reach(e, p) /\ ImportsOf(Modules, p) = e[p]
  BY ImportGraph
<1> HIDE DEF e
<1>2. Cyclic = {p \in V : p \in Reach(e, p)}
  BY <1>1 DEF Cyclic
<1>3. Layered(Modules) <=> \A T \in SUBSET V : T # {} => \E p \in T : e[p] \cap T = {}
  BY <1>1 DEF Layered
<1>4. (\E p \in V : p \in Reach(e, p))
        <=> \E T \in SUBSET V : T # {} /\ \A p \in T : e[p] \cap T # {}
  BY <1>1, CyclesOrLayers
<1>5. ASSUME Cyclic # {}
      PROVE  \E S \in SUBSET Paths(Modules) :
               Least(Cyclic) \in S /\ \A p \in S : ImportsOf(Modules, p) \cap S # {}
  <2>1. Least(Cyclic) \in V /\ Least(Cyclic) \in Reach(e, Least(Cyclic))
    BY <1>1, <1>2, <1>5, LeastIn
  <2>2. \E S \in SUBSET V : Least(Cyclic) \in S /\ \A q \in S : e[q] \cap S # {}
    BY <1>1, <2>1, OnCycle
  <2> QED BY <1>1, <2>2
<1> QED
  BY <1>2, <1>3, <1>4, <1>5

(* The modules sorted by their paths are the modules.                      *)
LEMMA ByPathSorts ==
  ASSUME installation \in Installations, InOrder(Len(Modules))
  PROVE  /\ DOMAIN ByPath(Modules) = DOMAIN Modules
         /\ ToSet(ByPath(Modules)) = ToSet(Modules)
         /\ \A i, k \in DOMAIN ByPath(Modules) :
              i < k => ByPath(Modules)[i].path < ByPath(Modules)[k].path
<1> DEFINE n == Len(Modules)
           path == [i \in 1..n |-> Modules[i].path]
           P == {path[i] : i \in 1..n}
<1>1. n \in Nat /\ DOMAIN Modules = 1..n /\ \A i \in 1..n : Modules[i].path \in Nat
  BY Installed
<1>2. IsFiniteSet(1..n) /\ Cardinality(1..n) = n
  <2> HIDE DEF n
  <2>1. n \in Nat
    BY <1>1
  <2> QED BY <2>1, FS_Interval
<1>3. \A i \in 1..n : path[i] = Modules[i].path
  OBVIOUS
<1>4. \A i, k \in 1..n : path[i] = path[k] => i = k
  BY <1>3 DEF InOrder
<1>5. path \in [1..n -> P] /\ P \subseteq Nat
  BY <1>1
<1> HIDE DEF path
<1>6. path \in Bijection(1..n, P)
  BY <1>4, <1>5 DEF Bijection, Injection, Surjection, IsInjective
<1>7. IsFiniteSet(P) /\ Cardinality(P) = n
  BY <1>1, <1>2, <1>6, FS_Bijection DEF ExistsBijection
<1>8. PICK r : Rises(r, n, P)
  BY <1>5, <1>7, RisingExists
<1>9. \A p \in P : \E i \in 1..n : path[i] = p
  BY <1>6 DEF Bijection, Surjection
<1> DEFINE index(p) == CHOOSE i \in 1..n : path[i] = p
           f == [i \in 1..n |-> index(r[i])]
<1>10. \A p \in P : index(p) \in 1..n /\ path[index(p)] = p
  BY <1>9
<1> HIDE DEF index, P
<1>11. f \in [1..n -> 1..n] /\ \A i \in 1..n : path[f[i]] = r[i]
  BY <1>8, <1>10 DEF Rises
<1>12. \A i, k \in 1..n : i < k => path[f[i]] < path[f[k]]
  BY <1>8, <1>11 DEF Rises
<1> DEFINE Order(g) == \A i, k \in 1..n : i < k => path[g[i]] < path[g[k]]
           order == CHOOSE g \in [DOMAIN Modules -> DOMAIN Modules] :
                      \A i, k \in DOMAIN Modules :
                        i < k => Modules[g[i]].path < Modules[g[k]].path
<1>13. order \in [1..n -> 1..n] /\ Order(order)
  <2>1. \A g \in [1..n -> 1..n] :
          Order(g) <=> \A i, k \in 1..n : i < k => Modules[g[i]].path < Modules[g[k]].path
    BY <1>3
  <2>2. f \in [1..n -> 1..n] /\ Order(f)
    BY <1>11, <1>12
  <2> HIDE DEF f, Order
  <2>3. \E g \in [1..n -> 1..n] :
          \A i, k \in 1..n : i < k => Modules[g[i]].path < Modules[g[k]].path
    BY <2>1, <2>2
  <2>4. order = CHOOSE g \in [1..n -> 1..n] :
                  \A i, k \in 1..n : i < k => Modules[g[i]].path < Modules[g[k]].path
    BY <1>1
  <2> HIDE DEF order
  <2>5. /\ order \in [1..n -> 1..n]
        /\ \A i, k \in 1..n : i < k => Modules[order[i]].path < Modules[order[k]].path
    BY <2>3, <2>4
  <2> QED BY <2>1, <2>5
<1>14. ByPath(Modules) = [i \in 1..n |-> Modules[order[i]]]
  BY <1>1 DEF ByPath
<1> HIDE DEF order, f
<1>15. order \in Injection(1..n, 1..n)
  <2>1. ASSUME NEW i \in 1..n, NEW k \in 1..n, i < k PROVE order[i] # order[k]
    <3>1. path[order[i]] < path[order[k]] /\ path[order[i]] \in Nat
      BY <1>5, <1>13, <2>1
    <3> QED BY <3>1
  <2>2. \A i, k \in 1..n : order[i] = order[k] => i = k
    BY <1>1, <2>1
  <2> QED BY <1>13, <2>2 DEF Injection, IsInjective
<1>16. order \in Surjection(1..n, 1..n)
  BY <1>2, <1>15, FS_Injection
<1>17. {order[i] : i \in 1..n} = 1..n
  BY <1>13, <1>16 DEF Surjection
<1>18. ToSet(ByPath(Modules)) = {Modules[order[i]] : i \in 1..n}
  BY <1>14 DEF ToSet
<1>19. ToSet(Modules) = {Modules[i] : i \in 1..n}
  BY <1>1 DEF ToSet
<1>20. {Modules[order[i]] : i \in 1..n} = {Modules[i] : i \in 1..n}
  BY <1>13, <1>17
<1>21. \A i, k \in 1..n : i < k => ByPath(Modules)[i].path < ByPath(Modules)[k].path
  BY <1>3, <1>13, <1>14
<1> QED
  BY <1>1, <1>14, <1>18, <1>19, <1>20, <1>21

-----------------------------------------------------------------------------
(***************************************************************************)
(* The stages.                                                             *)
(***************************************************************************)

LEMMA StartInv == DistributionInit => DistributionInv
<1> SUFFICES ASSUME DistributionInit PROVE DistributionInv
  OBVIOUS
<1>1. installation \in Installations /\ given = Modules /\ opening = [is |-> "parse", path |-> 0]
  BY DEF DistributionInit, Modules
<1>2. Modules \in Seq(Module) /\ Len(Modules) \in Nat
  BY <1>1, Installed
<1>3. Looked = 0
  BY <1>1, <1>2 DEF Looked
<1>4. Left
  BY <1>1, <1>2, <1>3 DEF Left
<1>5. InOrder(0) /\ Collected(0)
  BY DEF InOrder, Collected, DistributionInit
<1>6. opening.is = "parse"
  BY <1>1
<1> QED
  BY <1>1, <1>3, <1>4, <1>5, <1>6 DEF DistributionInv, At, SealedIsSound, OpenErrors

(* An installation that is refused with an error that names what is wrong. *)
LEMMA RefusalInv ==
  ASSUME DistributionInv, installation' = installation, NEW error \in OpenErrors, NEW path,
         Refuses(error, path), ~ Sound(installation),
         Explains(Modules, [is |-> error, path |-> path])
  PROVE  DistributionInv'
<1>1. opening' = [is |-> error, path |-> path] /\ opening'.is = error
  BY DEF Refuses
<1>2. Sound(installation') = Sound(installation)
  BY DEF Sound
<1>3. Explains(Modules, opening') => Explains(Modules, opening)'
  BY DEF Explains, Modules
<1> QED
  BY <1>1, <1>2, <1>3 DEF DistributionInv, At, SealedIsSound, OpenErrors, Modules

LEMMA ParseModuleInv ==
  ASSUME DistributionInv, ParseModule
  PROVE  DistributionInv'
<1> DEFINE module == Head(given)
           n == Looked
<1>1. /\ installation \in Installations /\ installation' = installation /\ Modules' = Modules
      /\ opening.is = "parse" /\ Left /\ InOrder(n) /\ Collected(n)
      /\ given \in Seq(Module) /\ given # <<>> /\ given' = Tail(given)
  BY DEF ParseModule, DistributionInv, At, Left, Modules
<1>2. Len(Modules) \in Nat /\ DOMAIN Modules = 1..Len(Modules)
  BY <1>1, Installed
<1>3. /\ Len(given) \in Nat \ {0} /\ Len(given) <= Len(Modules)
      /\ module = given[1] /\ Len(given') = Len(given) - 1
      /\ \A k \in 1..Len(given') : given'[k] = given[k + 1]
      /\ given' \in Seq(Module)
  BY <1>1 DEF Left
<1>4. /\ n \in Nat /\ n + 1 \in 1..Len(Modules) /\ module = Modules[n + 1]
      /\ Looked' = n + 1
  BY <1>1, <1>2, <1>3 DEF Left, Looked
<1>5. /\ module \in Module /\ module.path \in Nat
      /\ module.valid \in BOOLEAN /\ module.clean \in BOOLEAN
  BY <1>1, <1>4, Installed
<1> HIDE DEF module
<1>6. CASE ~ module.valid
  <2>1. Refuses("InvalidAuthenticatedModulePath", module.path)
    BY <1>6 DEF ParseModule, module
  <2>2. n + 1 \in DOMAIN Modules /\ ~ Modules[n + 1].valid
    BY <1>2, <1>4, <1>6
  <2>3. ~ Sound(installation)
    BY <2>2 DEF Sound, ModulesSound, Modules
  <2>4. Explains(Modules, [is |-> "InvalidAuthenticatedModulePath", path |-> module.path])
    BY <1>4, <2>2 DEF Explains
  <2> QED BY <1>1, <2>1, <2>3, <2>4, RefusalInv DEF OpenErrors
<1>7. CASE module.valid /\ module.path \in DOMAIN parsed
  <2>1. Refuses("DuplicateAuthenticatedModule", module.path)
    BY <1>7 DEF ParseModule, module
  <2>2. PICK i \in 1..n : Modules[i].path = module.path
    BY <1>1, <1>7 DEF Collected
  <2>3. i \in DOMAIN Modules /\ n + 1 \in DOMAIN Modules /\ i # n + 1
        /\ Modules[n + 1].path = Modules[i].path
    BY <1>2, <1>4, <2>2
  <2>4. ~ Sound(installation)
    BY <2>3 DEF Sound, ModulesSound, Modules
  <2> DEFINE named == {k \in DOMAIN Modules : Modules[k].path = module.path}
  <2>5. Cardinality(named) > 1
    <3>1. {i, n + 1} \subseteq named /\ named \subseteq 1..Len(Modules)
      BY <1>2, <1>4, <2>2, <2>3
    <3>2. IsFiniteSet(1..Len(Modules))
      BY <1>2, FS_Interval
    <3> HIDE DEF named
    <3>3. IsFiniteSet(named)
      BY <3>1, <3>2, FS_Subset
    <3>4. Cardinality({i, n + 1}) = 2 /\ IsFiniteSet({i, n + 1})
      <4>1. IsFiniteSet({i}) /\ Cardinality({i}) = 1
        BY FS_Singleton
      <4>2. {i, n + 1} = {i} \cup {n + 1} /\ n + 1 \notin {i}
        BY <2>3
      <4>3. IsFiniteSet({i} \cup {n + 1}) /\ Cardinality({i} \cup {n + 1}) = Cardinality({i}) + 1
        BY <4>1, <4>2, FS_AddElement
      <4> QED BY <4>1, <4>2, <4>3
    <3>5. Cardinality(named) \in Nat /\ Cardinality({i, n + 1}) <= Cardinality(named)
      BY <3>1, <3>3, FS_Subset, FS_CardinalityType
    <3> QED BY <3>4, <3>5
  <2>6. Explains(Modules, [is |-> "DuplicateAuthenticatedModule", path |-> module.path])
    BY <2>5 DEF Explains
  <2> QED BY <1>1, <2>1, <2>4, <2>6, RefusalInv DEF OpenErrors
<1>8. CASE module.valid /\ module.path \notin DOMAIN parsed /\ ~ module.clean
  <2>1. Refuses("MalformedAuthenticatedModule", module.path)
    BY <1>8 DEF ParseModule, module
  <2>2. n + 1 \in DOMAIN Modules /\ ~ Modules[n + 1].clean
    BY <1>2, <1>4, <1>8
  <2>3. ~ Sound(installation)
    BY <2>2 DEF Sound, ModulesSound, Modules
  <2>4. Explains(Modules, [is |-> "MalformedAuthenticatedModule", path |-> module.path])
    BY <1>4, <2>2 DEF Explains
  <2> QED BY <1>1, <2>1, <2>3, <2>4, RefusalInv DEF OpenErrors
<1>9. CASE module.valid /\ module.path \notin DOMAIN parsed /\ module.clean
  <2>1. /\ parsed' = [p \in DOMAIN parsed \cup {module.path} |->
                      IF p = module.path THEN module ELSE parsed[p]]
        /\ opening' = opening
    BY <1>9 DEF ParseModule, module
  <2>2. Left'
    <3>1. \A k \in 1..Len(given') : given'[k] = Modules[n + (k + 1)]
      BY <1>1, <1>3 DEF Left
    <3>2. \A k \in 1..Len(given') : n + (k + 1) = (n + 1) + k
      BY <1>4
    <3>3. \A k \in 1..Len(given') : given'[k] = Modules'[Looked' + k]
      BY <1>1, <1>4, <3>1, <3>2
    <3>4. Len(given') <= Len(Modules')
      BY <1>1, <1>2, <1>3
    <3> QED BY <1>3, <3>3, <3>4 DEF Left
  <2>3. \A i \in 1..(n + 1) : i \in 1..n \/ i = n + 1
    BY <1>4
  <2>4. \A i \in 1..n : Modules[i].path # module.path
    BY <1>1, <1>9 DEF Collected
  <2>5. InOrder(n + 1)
    <3>1. \A i \in 1..(n + 1) : Modules[i].valid /\ Modules[i].clean
      BY <1>1, <1>4, <1>9, <2>3 DEF InOrder
    <3>2. \A i, k \in 1..(n + 1) : Modules[i].path = Modules[k].path => i = k
      BY <1>1, <1>4, <2>3, <2>4 DEF InOrder
    <3> QED BY <3>1, <3>2 DEF InOrder
  <2>6. DOMAIN parsed' = {Modules[i].path : i \in 1..(n + 1)}
    <3>1. DOMAIN parsed' = DOMAIN parsed \cup {module.path}
      BY <2>1
    <3>2. \A i \in 1..n : i \in 1..(n + 1)
      BY <1>4
    <3>3. n + 1 \in 1..(n + 1)
      BY <1>4
    <3>4. {Modules[i].path : i \in 1..(n + 1)} = {Modules[i].path : i \in 1..n} \cup {Modules[n + 1].path}
      BY <2>3, <3>2, <3>3
    <3> QED BY <1>1, <1>4, <3>1, <3>4 DEF Collected
  <2>7. \A i \in 1..(n + 1) : parsed'[Modules[i].path] = Modules[i]
    <3>1. \A i \in 1..n : Modules[i].path \in DOMAIN parsed /\ parsed[Modules[i].path] = Modules[i]
      BY <1>1 DEF Collected
    <3> QED BY <1>4, <2>1, <2>3, <2>4, <3>1
  <2>8. InOrder(Looked)' /\ Collected(Looked)'
    BY <1>1, <1>4, <2>5, <2>6, <2>7 DEF InOrder, Collected
  <2>9. opening'.is = "parse"
    BY <1>1, <2>1
  <2> QED BY <1>1, <2>2, <2>8, <2>9 DEF DistributionInv, At, SealedIsSound, OpenErrors
<1> QED
  BY <1>5, <1>6, <1>7, <1>8, <1>9

LEMMA CloseImportsInv ==
  ASSUME DistributionInv, CloseImports
  PROVE  DistributionInv'
<1> DEFINE n == Len(Modules)
<1>1. /\ installation \in Installations /\ installation' = installation /\ Modules' = Modules
      /\ opening.is = "parse" /\ Left /\ InOrder(Looked) /\ Collected(Looked)
      /\ given = <<>> /\ parsed' = parsed
  BY DEF CloseImports, DistributionInv, At, Left, Modules
<1>2. n \in Nat /\ DOMAIN Modules = 1..n
  BY <1>1, Installed
<1>3. Looked = n
  BY <1>1, <1>2 DEF Looked
<1>4. InOrder(n) /\ Collected(n)
  BY <1>1, <1>3
<1>5. DOMAIN parsed = Paths(Modules) /\ DOMAIN parsed \subseteq Nat
  BY <1>1, <1>2, <1>4, Installed DEF Collected, Paths
<1>6. CASE Unclosed = {}
  <2>1. ImportsClosed
    <3>1. ASSUME NEW i \in 1..n PROVE Modules[i].imports \subseteq DOMAIN parsed
      BY <1>4, <1>6, <3>1 DEF Unclosed, Collected
    <3> QED BY <1>2, <1>5, <3>1 DEF ImportsClosed
  <2>2. opening' = [is |-> "cycles", path |-> 0]
    BY <1>6 DEF CloseImports, Goes
  <2>3. Modules' = Modules /\ parsed' = parsed
    BY <1>1
  <2>4. InOrder(Len(Modules))' /\ Collected(Len(Modules))' /\ ImportsClosed'
    BY <1>4, <2>1, <2>3 DEF InOrder, Collected, ImportsClosed
  <2>5. opening'.is = "cycles"
    BY <2>2
  <2> QED BY <1>1, <2>4, <2>5 DEF DistributionInv, At, SealedIsSound, OpenErrors
<1>7. CASE Unclosed # {}
  <2> DEFINE path == Least(Unclosed)
  <2>1. Refuses("MissingAuthenticatedDependency", path)
    BY <1>7 DEF CloseImports
  <2>2. path \in Unclosed
    BY <1>5, <1>7, LeastIn DEF Unclosed
  <2> HIDE DEF path
  <2>3. path \in DOMAIN parsed /\ ~ parsed[path].imports \subseteq DOMAIN parsed
    BY <2>2 DEF Unclosed
  <2>4. PICK i \in 1..n : Modules[i].path = path /\ parsed[path] = Modules[i]
    BY <1>4, <2>3 DEF Collected
  <2>5. i \in DOMAIN Modules /\ ~ Modules[i].imports \subseteq Paths(Modules)
    BY <1>2, <1>5, <2>3, <2>4
  <2>6. ~ Sound(installation)
    BY <2>5 DEF Sound, ModulesSound, Modules
  <2>7. Explains(Modules, [is |-> "MissingAuthenticatedDependency", path |-> path])
    BY <2>4, <2>5 DEF Explains
  <2> QED BY <1>1, <2>1, <2>6, <2>7, RefusalInv DEF OpenErrors
<1> QED
  BY <1>6, <1>7

(* What the later stages keep of the modules.                              *)
LEMMA StageInv ==
  ASSUME DistributionInv, UNCHANGED <<installation, given, parsed, sealed>>,
         NEW stage \in {"identities", "analysis"}, Goes(stage),
         InOrder(Len(Modules)), Collected(Len(Modules)), ImportsClosed, Layered(Modules),
         stage = "analysis" => installation.catalog = "identified"
  PROVE  DistributionInv'
<1>1. opening'.is = stage
  BY DEF Goes
<1>2. Modules' = Modules
  BY DEF Modules
<1>3. /\ InOrder(Len(Modules))' /\ Collected(Len(Modules))' /\ ImportsClosed'
      /\ Layered(Modules')
  BY <1>2 DEF InOrder, Collected, ImportsClosed
<1> QED
  BY <1>1, <1>2, <1>3 DEF DistributionInv, At, SealedIsSound, OpenErrors

LEMMA CheckCyclesInv ==
  ASSUME DistributionInv, CheckCycles
  PROVE  DistributionInv'
<1>1. /\ installation \in Installations /\ opening.is = "cycles"
      /\ UNCHANGED <<installation, given, parsed, sealed>>
      /\ InOrder(Len(Modules)) /\ Collected(Len(Modules)) /\ ImportsClosed
  BY DEF CheckCycles, DistributionInv, At
<1>2. CASE Cyclic = {}
  <2>1. Layered(Modules) /\ Goes("identities")
    BY <1>1, <1>2, CyclicOrLayered DEF CheckCycles
  <2> QED BY <1>1, <2>1, StageInv
<1>3. CASE Cyclic # {}
  <2>1. Refuses("AuthenticatedImportCycle", Least(Cyclic))
    BY <1>3 DEF CheckCycles
  <2>2. /\ ~ Layered(Modules)
        /\ \E S \in SUBSET Paths(Modules) :
             Least(Cyclic) \in S /\ \A p \in S : ImportsOf(Modules, p) \cap S # {}
    BY <1>1, <1>3, CyclicOrLayered
  <2>3. ~ Sound(installation)
    BY <2>2 DEF Sound, ModulesSound, Modules
  <2> DEFINE path == Least(Cyclic)
  <2>4. Explains(Modules, [is |-> "AuthenticatedImportCycle", path |-> path])
    <3> HIDE DEF path
    <3>1. \E S \in SUBSET Paths(Modules) :
            path \in S /\ \A p \in S : ImportsOf(Modules, p) \cap S # {}
      BY <2>2 DEF path
    <3> QED BY <3>1 DEF Explains
  <2> QED BY <1>1, <2>1, <2>3, <2>4, RefusalInv DEF OpenErrors
<1> QED
  BY <1>2, <1>3

LEMMA IdentifyInv ==
  ASSUME DistributionInv, Identify
  PROVE  DistributionInv'
<1>1. /\ installation \in Installations /\ opening.is = "identities"
      /\ UNCHANGED <<installation, given, parsed, sealed>>
      /\ InOrder(Len(Modules)) /\ Collected(Len(Modules)) /\ ImportsClosed /\ Layered(Modules)
  BY DEF Identify, DistributionInv, At
<1>2. CASE installation.catalog = "identified"
  BY <1>1, <1>2, StageInv DEF Identify
<1>3. CASE installation.catalog # "identified"
  <2>1. Refuses("AuthenticatedIdentityCollision", 0) /\ ~ Sound(installation)
    BY <1>3 DEF Identify, Sound
  <2>2. installation.catalog = "collision"
    BY <1>1, <1>3, Installed
  <2>3. Explains(Modules, [is |-> "AuthenticatedIdentityCollision", path |-> 0])
    BY <2>2 DEF Explains
  <2> QED BY <1>1, <2>1, <2>3, RefusalInv DEF OpenErrors
<1> QED
  BY <1>2, <1>3

LEMMA AnalyzeModulesInv ==
  ASSUME DistributionInv, AnalyzeModules
  PROVE  DistributionInv'
<1>1. /\ installation \in Installations /\ opening.is = "analysis"
      /\ UNCHANGED <<installation, given, parsed>>
      /\ InOrder(Len(Modules)) /\ Collected(Len(Modules)) /\ ImportsClosed /\ Layered(Modules)
      /\ installation.catalog = "identified"
  BY DEF AnalyzeModules, DistributionInv, At
<1>2. CASE installation.analysis = "defect"
  <2>1. Refuses("AuthenticatedModuleDefect", 0) /\ ~ Sound(installation)
    BY <1>2 DEF AnalyzeModules, Sound
  <2>2. Explains(Modules, [is |-> "AuthenticatedModuleDefect", path |-> 0])
    BY <1>2 DEF Explains
  <2> QED BY <1>1, <2>1, <2>2, RefusalInv DEF OpenErrors
<1>3. CASE installation.analysis = "diagnostic"
  <2>1. Refuses("InvalidAuthenticatedModule", 0) /\ ~ Sound(installation)
    BY <1>3 DEF AnalyzeModules, Sound
  <2>2. Explains(Modules, [is |-> "InvalidAuthenticatedModule", path |-> 0])
    BY <1>3 DEF Explains
  <2> QED BY <1>1, <2>1, <2>2, RefusalInv DEF OpenErrors
<1>4. CASE installation.analysis = "clean"
  <2>1. Goes("open") /\ sealed' = ByPath(Modules)
    BY <1>4 DEF AnalyzeModules, Modules
  <2>2. opening'.is = "open"
    BY <2>1 DEF Goes
  <2>3. \A i \in DOMAIN Modules : Modules[i].valid /\ Modules[i].clean
        /\ Modules[i].imports \subseteq Paths(Modules)
    BY <1>1, Installed DEF InOrder, ImportsClosed
  <2>4. \A i, k \in DOMAIN Modules : Modules[i].path = Modules[k].path => i = k
    BY <1>1, Installed DEF InOrder
  <2>5. Sound(installation)
    BY <1>1, <1>4, <2>3, <2>4 DEF Sound, ModulesSound, Modules
  <2>6. /\ ToSet(sealed') = ToSet(installation.modules)
        /\ \A i, k \in DOMAIN sealed' : i < k => sealed'[i].path < sealed'[k].path
    BY <1>1, <2>1, ByPathSorts DEF Modules
  <2>7. SealedIsSound'
    BY <1>1, <2>2, <2>5, <2>6 DEF SealedIsSound, At, OpenErrors, Sound
  <2> QED BY <1>1, <2>2, <2>7 DEF DistributionInv, At, OpenErrors
<1> QED
  BY <1>1, <1>2, <1>3, <1>4, Installed

-----------------------------------------------------------------------------

LEMMA DistributionInductive == DistributionInv /\ [SealDistribution]_distributionVars => DistributionInv'
<1> SUFFICES ASSUME DistributionInv, [SealDistribution]_distributionVars PROVE DistributionInv'
  OBVIOUS
<1>1. CASE ParseModule
  BY <1>1, ParseModuleInv
<1>2. CASE CloseImports
  BY <1>2, CloseImportsInv
<1>3. CASE CheckCycles
  BY <1>3, CheckCyclesInv
<1>4. CASE Identify
  BY <1>4, IdentifyInv
<1>5. CASE AnalyzeModules
  BY <1>5, AnalyzeModulesInv
<1>6. CASE UNCHANGED distributionVars
  <2>1. UNCHANGED <<installation, given, parsed, opening, sealed>>
    BY <1>6 DEF distributionVars
  <2>2. Modules' = Modules /\ Looked' = Looked
    BY <2>1 DEF Modules, Looked
  <2>3. /\ Left => Left'
        /\ InOrder(Looked) => InOrder(Looked)'
        /\ Collected(Looked) => Collected(Looked)'
    BY <2>1, <2>2 DEF Left, InOrder, Collected
  <2>4. /\ InOrder(Len(Modules)) => InOrder(Len(Modules))'
        /\ Collected(Len(Modules)) => Collected(Len(Modules))'
        /\ ImportsClosed => ImportsClosed'
    BY <2>1, <2>2 DEF InOrder, Collected, ImportsClosed
  <2>5. SealedIsSound => SealedIsSound'
    BY <2>1 DEF SealedIsSound, At, Explains, Sound
  <2> QED BY <2>1, <2>2, <2>3, <2>4, <2>5 DEF DistributionInv, At
<1> QED
  BY <1>1, <1>2, <1>3, <1>4, <1>5, <1>6 DEF SealDistribution

(* Whatever is installed, in whatever order, a compiler opens exactly if   *)
(* every module is valid and clean, none is there twice, all imports are   *)
(* there and none is cyclic, and identities and analysis are in order; it  *)
(* has all the modules then, by path, and otherwise names what is wrong.   *)
(* (distribution.rs, CompilerDistribution::seal.)                          *)
THEOREM OpensOnSound == DistributionSpec => []SealedIsSound
<1>1. DistributionInv => SealedIsSound
  BY DEF DistributionInv
<1> QED
  BY <1>1, StartInv, DistributionInductive, PTL DEF DistributionSpec
-----------------------------------------------------------------------------
(***************************************************************************)
(* For every program: the specializations that get a body                  *)
(* (SpecializationDemand).                                                 *)
(***************************************************************************)

(* What the parts of the program demand.                                   *)
BodyDemands(d, type) == Demands(source.functions[d].calls, type)
CalledFrom(D)        == Demands(Calls(D), None)
ConstantDemands(C)   == Demands(UNION {source.constants[c].calls : c \in C}, None)
ConditionDemands     == Demands(source.condition.calls, None)
TestDemands          == Demands(source.tests, None)
ConcreteIds          == {<<d, None>> : d \in Concrete}

DemandClosed(S) == \A id \in S : BodyDemands(id[1], id[2]) \subseteq S

(* A finite set of specializations that is closed and has all the roots.   *)
IsUniverse(U) ==
  /\ IsFiniteSet(U) /\ Cardinality(U) <= Cardinality(Definitions) * (TypeDepth + 2)
  /\ \A id \in U : id[1] \in Definitions /\ (~ Generic(id[1]) => id = <<id[1], None>>)
  /\ DemandClosed(U)
  /\ Demands(Outside(source), None) \subseteq U /\ ConcreteIds \subseteq U

(* What the closure of the roots is.                                       *)
NeededIs ==
  /\ Roots \subseteq Needed /\ DemandClosed(Needed)
  /\ \A S : Roots \subseteq S /\ DemandClosed(S) => Needed \subseteq S
  /\ \A id \in Needed : id[1] \in Definitions /\ (~ Generic(id[1]) => id = <<id[1], None>>)

Known == source \in DemandPrograms /\ evaluated \subseteq DOMAIN source.constants

LEMMA ProgramIs ==
  ASSUME source \in DemandPrograms
  PROVE  Linked(source) /\ Scoped(source) /\ Nested(source) /\ TypeDepth \in Nat
  BY DemandAssumption

LEMMA OutsideDemands ==
  Demands(Outside(source), None)
    = ConstantDemands(DOMAIN source.constants) \cup ConditionDemands \cup TestDemands
  BY DEF Demands, Outside, ConstantDemands, ConditionDemands, TestDemands

LEMMA DemandsFrom ==
  ASSUME NEW D
  PROVE  CalledFrom(D) = UNION {BodyDemands(d, None) : d \in D}
  BY DEF CalledFrom, BodyDemands, Calls, Demands

LEMMA ConstantsJoin ==
  ASSUME NEW A, NEW B
  PROVE  ConstantDemands(A \cup B) = ConstantDemands(A) \cup ConstantDemands(B)
  BY DEF ConstantDemands, Demands

RootsAre ==
  Roots = IF mode = "program"
          THEN ConstantDemands(DOMAIN source.constants) \cup ConditionDemands \cup TestDemands
                 \cup ConcreteIds
          ELSE ConditionDemands \cup ConstantDemands(evaluated)

LEMMA RootsLaw == RootsAre
<1>1. CASE mode = "program"
  BY <1>1, OutsideDemands DEF Roots, ConcreteIds, RootsAre
<1>2. CASE mode # "program"
  <2>1. Roots = Demands(source.condition.calls
                          \cup UNION {source.constants[c].calls : c \in evaluated}, None)
    BY <1>2 DEF Roots
  <2>2. Roots = ConditionDemands \cup ConstantDemands(evaluated)
    BY <2>1 DEF Demands, ConditionDemands, ConstantDemands
  <2> QED BY <1>2, <2>2 DEF RootsAre
<1> QED BY <1>1, <1>2

(* The arguments of a call from a body whose parameter is within a bound.  *)
LEMMA CallNests ==
  ASSUME source \in DemandPrograms, NEW deep \in [Definitions -> 0..TypeDepth],
         NEW c \in [callee: Definitions, own: BOOLEAN, wraps: Nat],
         NEW type \in None..TypeDepth, NEW limit \in 0..TypeDepth,
         IF c.own THEN type \in 0..limit ELSE TRUE,
         c.wraps + (IF c.own THEN limit ELSE 0) <= deep[c.callee],
         Generic(c.callee)
  PROVE  c.wraps + (IF c.own THEN type ELSE 0) \in 0..deep[c.callee]
<1>1. /\ c.callee \in Definitions /\ c.own \in BOOLEAN /\ c.wraps \in Nat
      /\ deep[c.callee] \in 0..TypeDepth /\ TypeDepth \in Nat
  BY ProgramIs
<1>2. CASE c.own
  <2>1. type \in Nat /\ type <= limit /\ limit \in Nat
    BY <1>1, <1>2
  <2> QED BY <1>1, <1>2, <2>1
<1>3. CASE ~ c.own
  BY <1>1, <1>3
<1> QED BY <1>1, <1>2, <1>3

LEMMA UniverseExists ==
  ASSUME source \in DemandPrograms
  PROVE  \E U : IsUniverse(U)
<1>0. Linked(source) /\ Scoped(source) /\ Nested(source) /\ TypeDepth \in Nat /\ None = -1
  BY ProgramIs DEF None
<1>1. PICK deep \in [Definitions -> 0..TypeDepth] :
        /\ \A c \in Outside(source) : c.wraps <= deep[c.callee]
        /\ \A d \in Definitions : \A c \in source.functions[d].calls :
             c.wraps + (IF c.own THEN deep[d] ELSE 0) <= deep[c.callee]
  BY <1>0 DEF Nested, Definitions
<1>2. /\ IsFiniteSet(Definitions)
      /\ Outside(source) \subseteq [callee: Definitions, own: BOOLEAN, wraps: Nat]
      /\ \A d \in Definitions :
           /\ Generic(d) \in BOOLEAN
           /\ source.functions[d].calls \subseteq [callee: Definitions, own: BOOLEAN, wraps: Nat]
  BY <1>0 DEF Linked, Definitions, Generic
<1> DEFINE Allowed(d, type) == IF Generic(d) THEN type \in 0..deep[d] ELSE type = None
           Types == None..TypeDepth
           U == {id \in Definitions \X Types : Allowed(id[1], id[2])}
<1>3. ASSUME NEW d \in Definitions, NEW type, Allowed(d, type) PROVE <<d, type>> \in U
  <2>1. type \in Types
    BY <1>0, <1>1, <1>3
  <2> QED BY <1>3, <2>1
<1>4. ASSUME NEW c \in [callee: Definitions, own: BOOLEAN, wraps: Nat],
             NEW type \in Types, NEW limit \in 0..TypeDepth,
             IF c.own THEN type \in 0..limit ELSE TRUE,
             c.wraps + (IF c.own THEN limit ELSE 0) <= deep[c.callee]
      PROVE  <<c.callee, IF Generic(c.callee) THEN c.wraps + (IF c.own THEN type ELSE 0) ELSE None>> \in U
  <2>1. c.callee \in Definitions
    OBVIOUS
  <2>2. CASE Generic(c.callee)
    <3>1. c.wraps + (IF c.own THEN type ELSE 0) \in 0..deep[c.callee]
      BY <1>4, <2>2, CallNests
    <3> QED BY <1>3, <2>1, <2>2, <3>1
  <2>3. CASE ~ Generic(c.callee)
    BY <1>3, <2>1, <2>3
  <2> QED BY <2>2, <2>3
<1>5. IsFiniteSet(U) /\ Cardinality(U) <= Cardinality(Definitions) * (TypeDepth + 2)
  <2>1. IsFiniteSet(Types) /\ Cardinality(Types) = TypeDepth + 2
    BY <1>0, FS_Interval
  <2>2. /\ IsFiniteSet(Definitions \X Types)
        /\ Cardinality(Definitions \X Types) = Cardinality(Definitions) * (TypeDepth + 2)
    BY <1>2, <2>1, FS_Product
  <2>3. U \in SUBSET (Definitions \X Types)
    OBVIOUS
  <2> HIDE DEF U, Types
  <2> QED BY <2>2, <2>3, FS_Subset
<1>6. ASSUME NEW id \in U PROVE id[1] \in Definitions /\ (~ Generic(id[1]) => id = <<id[1], None>>)
  OBVIOUS
<1>7. DemandClosed(U)
  <2> SUFFICES ASSUME NEW id \in U, NEW c \in source.functions[id[1]].calls
      PROVE  <<c.callee, IF Generic(c.callee) THEN c.wraps + (IF c.own THEN id[2] ELSE 0) ELSE None>> \in U
    BY DEF DemandClosed, BodyDemands, Demands
  <2>1. id[1] \in Definitions /\ id[2] \in Types /\ Allowed(id[1], id[2])
    OBVIOUS
  <2>2. c \in [callee: Definitions, own: BOOLEAN, wraps: Nat]
    BY <1>2, <2>1
  <2>3. IF c.own THEN id[2] \in 0..deep[id[1]] ELSE TRUE
    BY <1>0, <2>1 DEF Scoped, Definitions, Generic
  <2>4. c.wraps + (IF c.own THEN deep[id[1]] ELSE 0) <= deep[c.callee] /\ deep[id[1]] \in 0..TypeDepth
    BY <1>1, <2>1
  <2> HIDE DEF U, Types
  <2> QED BY <1>4, <2>1, <2>2, <2>3, <2>4
<1>8. Demands(Outside(source), None) \subseteq U
  <2> SUFFICES ASSUME NEW c \in Outside(source)
      PROVE  <<c.callee, IF Generic(c.callee) THEN c.wraps + (IF c.own THEN None ELSE 0) ELSE None>> \in U
    BY DEF Demands
  <2>1. c \in [callee: Definitions, own: BOOLEAN, wraps: Nat] /\ ~ c.own
    BY <1>0, <1>2 DEF Scoped
  <2>2. c.wraps + (IF c.own THEN 0 ELSE 0) <= deep[c.callee]
    BY <1>1, <2>1
  <2>3. None \in Types /\ 0 \in 0..TypeDepth
    BY <1>0
  <2> HIDE DEF U, Types
  <2> QED BY <1>4, <2>1, <2>2, <2>3
<1>9. ConcreteIds \subseteq U
  BY <1>3 DEF ConcreteIds, Concrete
<1> HIDE DEF U
<1> QED
  BY <1>5, <1>6, <1>7, <1>8, <1>9 DEF IsUniverse

(* What is computed in rounds is the least closed set with the roots.      *)
LEMMA ClosureIs ==
  ASSUME source \in DemandPrograms, NEW U, IsUniverse(U), NEW R \in SUBSET U
  PROVE  /\ R \subseteq Closure(R) /\ Closure(R) \subseteq U /\ DemandClosed(Closure(R))
         /\ \A S : R \subseteq S /\ DemandClosed(S) => Closure(R) \subseteq S
<1> DEFINE most == Cardinality(Definitions) * (TypeDepth + 2)
           more(A) == A \cup UNION {BodyDemands(id[1], id[2]) : id \in A}
           s == [A \in SUBSET U |-> more(A)]
           grow == CHOOSE f : f = [n \in 0..most |-> IF n = 0 THEN R ELSE more(f[n - 1])]
<1>1. Closure(R) = grow[most]
  BY DEF Closure, BodyDemands
<1>2. most \in Nat
  <2>1. Cardinality(Definitions) \in Nat /\ TypeDepth \in Nat
    BY ProgramIs, FS_CardinalityType DEF Linked, Definitions
  <2> QED BY <2>1
<1>3. /\ IsFiniteSet(U) /\ Cardinality(U) <= most
      /\ \A id \in U : BodyDemands(id[1], id[2]) \subseteq U
  BY DEF IsUniverse, DemandClosed
<1> HIDE DEF most
<1>4. s \in [SUBSET U -> SUBSET U] /\ \A A \in SUBSET U : s[A] = more(A) /\ A \subseteq s[A]
  BY <1>3
<1> HIDE DEF s, more
<1>5. PICK g : Computes(g, U, most, R, s)
  BY <1>2, <1>4, RoundsExist
<1>6. /\ g \in [0..most -> SUBSET U]
      /\ \A n \in 0..most : g[n] = IF n = 0 THEN R ELSE s[g[n - 1]]
  BY <1>5 DEF Computes, Rounds
<1>7. \A n \in 0..most : n # 0 => n - 1 \in 0..most
  BY <1>2
<1>8. \A n \in 0..most : g[n] = IF n = 0 THEN R ELSE more(g[n - 1])
  BY <1>4, <1>6, <1>7
<1>9. g = [n \in 0..most |-> IF n = 0 THEN R ELSE more(g[n - 1])]
  BY <1>6, <1>8
<1>10. grow = [n \in 0..most |-> IF n = 0 THEN R ELSE more(grow[n - 1])]
  BY <1>9
<1> HIDE DEF grow
<1>11. ASSUME NEW n \in 0..most PROVE grow[n] = IF n = 0 THEN R ELSE more(grow[n - 1])
  BY <1>10
<1> DEFINE Same == {n \in 0..most : grow[n] = g[n]}
<1>12. most \in Same
  <2>1. 0 \in Same
    BY <1>2, <1>8, <1>11
  <2>2. ASSUME NEW n \in 1..most, n - 1 \in Same PROVE n \in Same
    <3>1. n \in 0..most /\ n # 0 /\ grow[n - 1] = g[n - 1]
      BY <2>2
    <3> QED BY <1>8, <1>11, <3>1
  <2> HIDE DEF Same
  <2> QED BY <1>2, <2>1, <2>2, Upto
<1>13. Closure(R) = g[most]
  BY <1>1, <1>12
<1>14. R \subseteq g[most] /\ s[g[most]] = g[most]
  <2>1. Inflates(s, U)
    BY <1>4 DEF Inflates
  <2> QED BY <1>3, <1>5, <2>1, RoundsClose
<1>15. g[most] \in SUBSET U
  BY <1>2, <1>6
<1>16. DemandClosed(g[most])
  <2>1. more(g[most]) = g[most]
    BY <1>4, <1>14, <1>15
  <2> QED BY <2>1 DEF more, DemandClosed
<1>17. ASSUME NEW S, R \subseteq S, DemandClosed(S) PROVE g[most] \subseteq S
  <2>1. ASSUME NEW A \in SUBSET U, A \subseteq S PROVE s[A] \subseteq S
    <3>1. more(A) \subseteq S
      BY <1>17, <2>1 DEF more, DemandClosed
    <3> QED BY <1>4, <3>1
  <2>2. StepsWithin(s, U, S)
    BY <2>1 DEF StepsWithin
  <2> QED BY <1>5, <1>17, <2>2, RoundsLeast
<1> QED
  BY <1>13, <1>14, <1>15, <1>16, <1>17

LEMMA NeededLaw == Known => NeededIs
<1> SUFFICES ASSUME Known PROVE NeededIs
  OBVIOUS
<1>1. PICK U : IsUniverse(U)
  BY UniverseExists DEF Known
<1>2. ConstantDemands(DOMAIN source.constants) \cup ConditionDemands \cup TestDemands \subseteq U
  BY <1>1, OutsideDemands DEF IsUniverse
<1>3. ConstantDemands(evaluated) \subseteq ConstantDemands(DOMAIN source.constants)
  BY DEF Known, ConstantDemands, Demands
<1>4. Roots \in SUBSET U
  BY <1>1, <1>2, <1>3, RootsLaw DEF IsUniverse, RootsAre
<1>5. \A id \in U : id[1] \in Definitions /\ (~ Generic(id[1]) => id = <<id[1], None>>)
  BY <1>1 DEF IsUniverse
<1> QED
  BY <1>1, <1>4, <1>5, ClosureIs DEF Known, Needed, NeededIs

-----------------------------------------------------------------------------

(* The constants that what is needed reads.                                *)
Read == ConditionConstants(Needed)

ReadIs ==
  /\ source.condition.constants \subseteq Read /\ Read \subseteq DOMAIN source.constants
  /\ Reads({id[1] : id \in Needed}) \subseteq Read
  /\ \A c \in Read : source.constants[c].constants \subseteq Read
  /\ \A S : /\ source.condition.constants \subseteq S /\ Reads({id[1] : id \in Needed}) \subseteq S
            /\ \A c \in S : source.constants[c].constants \subseteq S
            => Read \subseteq S

LEMMA ReadLaw == Known => ReadIs
<1> SUFFICES ASSUME Known PROVE ReadIs
  OBVIOUS
<1> DEFINE U == DOMAIN source.constants
           R == source.condition.constants \cup Reads({id[1] : id \in Needed})
           most == Cardinality(U)
           more(A) == A \cup UNION {source.constants[c].constants : c \in A}
           s == [A \in SUBSET U |-> more(A)]
           grow == CHOOSE f : f = [n \in 0..most |-> IF n = 0 THEN R ELSE more(f[n - 1])]
<1>1. Read = grow[most]
  BY DEF Read, ConditionConstants
<1>0. NeededIs /\ Linked(source)
  BY NeededLaw, ProgramIs DEF Known
<1>2. IsFiniteSet(U) /\ most \in Nat
  BY <1>0, FS_CardinalityType DEF Linked
<1>3. \A c \in U : source.constants[c].constants \subseteq U
  BY <1>0 DEF Linked
<1>4. R \in SUBSET U
  BY <1>0 DEF Linked, NeededIs, Reads, Definitions
<1> HIDE DEF U, R
<1>5. s \in [SUBSET U -> SUBSET U] /\ \A A \in SUBSET U : s[A] = more(A) /\ A \subseteq s[A]
  BY <1>3
<1> HIDE DEF s, more
<1>6. PICK g : Computes(g, U, most, R, s)
  BY <1>2, <1>4, <1>5, RoundsExist
<1> HIDE DEF most
<1>7. /\ g \in [0..most -> SUBSET U]
      /\ \A n \in 0..most : g[n] = IF n = 0 THEN R ELSE s[g[n - 1]]
  BY <1>6 DEF Computes, Rounds
<1>8. \A n \in 0..most : n # 0 => n - 1 \in 0..most
  BY <1>2
<1>9. \A n \in 0..most : g[n] = IF n = 0 THEN R ELSE more(g[n - 1])
  BY <1>5, <1>7, <1>8
<1>10. g = [n \in 0..most |-> IF n = 0 THEN R ELSE more(g[n - 1])]
  BY <1>7, <1>9
<1>11. grow = [n \in 0..most |-> IF n = 0 THEN R ELSE more(grow[n - 1])]
  BY <1>10
<1> HIDE DEF grow
<1>12. ASSUME NEW n \in 0..most PROVE grow[n] = IF n = 0 THEN R ELSE more(grow[n - 1])
  BY <1>11
<1> DEFINE Same == {n \in 0..most : grow[n] = g[n]}
<1>13. most \in Same
  <2>1. 0 \in Same
    <3>1. 0 \in 0..most
      BY <1>2
    <3> QED BY <1>9, <1>12, <3>1
  <2>2. ASSUME NEW n \in 1..most, n - 1 \in Same PROVE n \in Same
    <3>1. n \in 0..most /\ n # 0 /\ grow[n - 1] = g[n - 1]
      BY <2>2
    <3> QED BY <1>9, <1>12, <3>1
  <2> HIDE DEF Same
  <2> QED BY <1>2, <2>1, <2>2, Upto
<1>14. Read = g[most]
  BY <1>1, <1>13
<1>15. R \subseteq g[most] /\ s[g[most]] = g[most]
  <2>1. Cardinality(U) <= most
    BY <1>2 DEF most
  <2>2. Inflates(s, U)
    BY <1>5 DEF Inflates
  <2> QED BY <1>2, <1>6, <2>1, <2>2, RoundsClose
<1>16. g[most] \in SUBSET U
  BY <1>2, <1>7
<1>17. \A c \in g[most] : source.constants[c].constants \subseteq g[most]
  <2>1. more(g[most]) = g[most]
    BY <1>5, <1>15, <1>16
  <2> QED BY <2>1 DEF more
<1>18. ASSUME NEW S, R \subseteq S, \A c \in S : source.constants[c].constants \subseteq S
       PROVE  g[most] \subseteq S
  <2>1. ASSUME NEW A \in SUBSET U, A \subseteq S PROVE s[A] \subseteq S
    <3>1. more(A) \subseteq S
      BY <1>18, <2>1 DEF more
    <3> QED BY <1>5, <3>1
  <2>2. StepsWithin(s, U, S)
    BY <2>1 DEF StepsWithin
  <2> QED BY <1>6, <1>18, <2>2, RoundsLeast
<1> QED
  BY <1>14, <1>15, <1>16, <1>17, <1>18 DEF ReadIs, R, U

-----------------------------------------------------------------------------

(* A body that was lowered has what it calls recorded.                     *)
BodiesRecorded ==
  /\ CalledFrom(lowered \cap Concrete) \subseteq records
  /\ \A id \in specialized : IF Generic(id[1]) THEN BodyDemands(id[1], id[2]) \subseteq records
                             ELSE id[1] \in lowered

ProgramPart ==
  /\ lowering \in {"start", "bodies", "tests", "done", "defect", "cancelled"}
  /\ lowering \in {"bodies", "tests", "done"} =>
       ConcreteIds \cup ConstantDemands(DOMAIN source.constants) \cup ConditionDemands
         \subseteq records
  /\ lowering \in {"tests", "done"} => TestDemands \subseteq records

(* What a condition was found to need, it needs; and it has recorded what  *)
(* that demands.                                                           *)
ConditionPart ==
  /\ lowering \in {"start", "turn", "materialize", "done", "defect", "cancelled"}
  /\ demanded.functions \subseteq {id[1] : id \in records}
  /\ demanded.constants \subseteq Read
  /\ lowered \subseteq Concrete /\ lowered \subseteq {id[1] : id \in records}
  /\ evaluated \subseteq demanded.constants
  /\ \A c \in evaluated : source.constants[c].constants \subseteq demanded.constants
  /\ ConstantDemands(evaluated) \subseteq records
  /\ lowering = "start" => evaluated = {} /\ lowered = {}
  /\ lowering \in {"turn", "materialize", "done"} =>
       /\ ConditionDemands \subseteq records
       /\ source.condition.constants \subseteq demanded.constants
  /\ lowering = "done" => /\ demanded.constants \subseteq evaluated
                          /\ Reads({id[1] : id \in specialized}) \subseteq evaluated

DemandInv ==
  /\ Known /\ mode \in {"program", "condition"}
  /\ records \subseteq Needed
  /\ lowering # "defect" => records = missing \cup specialized
  /\ lowering = "done" => missing = {}
  /\ BodiesRecorded
  /\ mode = "program" => ProgramPart
  /\ mode = "condition" => ConditionPart

LEMMA DemandFinal == DemandInv => DemandExact
<1> SUFFICES ASSUME DemandInv, lowering = "done"
             PROVE  /\ specialized = Needed /\ records = Needed
                    /\ mode = "condition" =>
                         /\ lowered = {id[1] : id \in Needed} \cap Concrete
                         /\ \A c \in evaluated : c \in ConditionConstants(Needed)
                         /\ ConditionConstants(Needed) \subseteq evaluated
  BY DEF DemandExact
<1>1. NeededIs /\ ReadIs
  BY NeededLaw, ReadLaw DEF DemandInv
<1>2. records = specialized /\ records \subseteq Needed /\ BodiesRecorded
  BY DEF DemandInv
<1>3. Roots \subseteq records
  BY RootsLaw DEF RootsAre, DemandInv, ProgramPart, ConditionPart
<1>4. DemandClosed(records)
  <2> SUFFICES ASSUME NEW id \in records PROVE BodyDemands(id[1], id[2]) \subseteq records
    BY DEF DemandClosed
  <2>1. CASE Generic(id[1])
    BY <1>2, <2>1 DEF BodiesRecorded
  <2>2. CASE ~ Generic(id[1])
    <3>1. id \in Needed
      BY <1>2
    <3>2. id[1] \in Definitions /\ id = <<id[1], None>>
      BY <1>1, <2>2, <3>1 DEF NeededIs
    <3>3. id[2] = None
      BY <3>2
    <3>4. id[1] \in lowered \cap Concrete
      BY <1>2, <2>2, <3>2 DEF BodiesRecorded, Concrete
    <3>5. BodyDemands(id[1], None) \subseteq CalledFrom(lowered \cap Concrete)
      BY <3>4, DemandsFrom
    <3> QED BY <1>2, <3>3, <3>5 DEF BodiesRecorded
  <2> QED BY <2>1, <2>2
<1>5. records = Needed
  BY <1>1, <1>2, <1>3, <1>4 DEF NeededIs
<1>6. ASSUME mode = "condition"
      PROVE  /\ lowered = {id[1] : id \in Needed} \cap Concrete
             /\ evaluated \subseteq Read /\ Read \subseteq evaluated
  <2>1. ConditionPart
    BY <1>6 DEF DemandInv
  <2>2. {id[1] : id \in Needed} \cap Concrete \subseteq lowered
    BY <1>2, <1>5 DEF BodiesRecorded, Concrete
  <2>3. lowered \subseteq {id[1] : id \in Needed} \cap Concrete
    BY <1>5, <2>1 DEF ConditionPart
  <2>4. evaluated \subseteq Read
    BY <2>1 DEF ConditionPart
  <2>5. /\ source.condition.constants \subseteq evaluated
        /\ Reads({id[1] : id \in Needed}) \subseteq evaluated
        /\ \A c \in evaluated : source.constants[c].constants \subseteq evaluated
    BY <1>2, <1>5, <2>1 DEF ConditionPart
  <2>6. Read \subseteq evaluated
    BY <1>1, <2>5 DEF ReadIs
  <2> QED BY <2>2, <2>3, <2>4, <2>6
<1> QED
  BY <1>2, <1>5, <1>6 DEF Read

LEMMA DemandStarts == DemandInit => DemandInv
<1> SUFFICES ASSUME DemandInit PROVE DemandInv
  OBVIOUS
<1>1. /\ source \in DemandPrograms /\ mode \in {"program", "condition"} /\ lowering = "start"
      /\ lowered = {} /\ evaluated = {} /\ records = {} /\ missing = {} /\ specialized = {}
      /\ demanded.functions = {} /\ demanded.constants = {}
  BY DEF DemandInit
<1>2. CalledFrom({}) = {} /\ ConstantDemands({}) = {}
  BY DEF CalledFrom, Calls, ConstantDemands, Demands
<1>3. CalledFrom(lowered \cap Concrete) = {}
  <2>1. lowered \cap Concrete = {}
    BY <1>1
  <2> QED BY <1>2, <2>1
<1>4. BodiesRecorded
  BY <1>1, <1>3 DEF BodiesRecorded
<1>5. ConditionPart
  BY <1>1, <1>2 DEF ConditionPart
<1> QED
  BY <1>1, <1>4, <1>5 DEF DemandInv, Known, ProgramPart

-----------------------------------------------------------------------------

(* The program stays.                                                      *)
Stays ==
  /\ Definitions' = Definitions /\ Concrete' = Concrete /\ ConcreteIds' = ConcreteIds
  /\ ConditionDemands' = ConditionDemands /\ TestDemands' = TestDemands
  /\ \A d : Generic(d)' = Generic(d)
  /\ \A d, type : BodyDemands(d, type)' = BodyDemands(d, type)
  /\ \A D : CalledFrom(D)' = CalledFrom(D) /\ Reads(D)' = Reads(D)
  /\ \A C : ConstantDemands(C)' = ConstantDemands(C)
  /\ ConstantDemands(DOMAIN source.constants)' = ConstantDemands(DOMAIN source.constants)

LEMMA SourceStays ==
  ASSUME source' = source
  PROVE  Stays
<1>1. Definitions' = Definitions /\ Concrete' = Concrete /\ ConcreteIds' = ConcreteIds
  BY DEF Definitions, Concrete, ConcreteIds, Generic, None
<1>2. ConditionDemands' = ConditionDemands /\ TestDemands' = TestDemands
  BY DEF ConditionDemands, TestDemands, Demands, Generic, None
<1>3. \A d : Generic(d)' = Generic(d)
  BY DEF Generic
<1>4. \A d, type : BodyDemands(d, type)' = BodyDemands(d, type)
  BY DEF BodyDemands, Demands, Generic, None
<1>5. \A D : CalledFrom(D)' = CalledFrom(D) /\ Reads(D)' = Reads(D)
  BY DEF CalledFrom, Calls, Reads, Demands, Generic, None
<1>6. /\ \A C : ConstantDemands(C)' = ConstantDemands(C)
      /\ ConstantDemands(DOMAIN source.constants)' = ConstantDemands(DOMAIN source.constants)
  BY DEF ConstantDemands, Demands, Generic, None
<1> QED
  BY <1>1, <1>2, <1>3, <1>4, <1>5, <1>6 DEF Stays

(* What is needed only becomes more, as a condition evaluates constants.   *)
LEMMA NeededGrows ==
  ASSUME DemandInv, source' = source, mode' = mode,
         evaluated \subseteq evaluated', evaluated' \subseteq DOMAIN source.constants
  PROVE  Known' /\ NeededIs' /\ ReadIs' /\ Needed \subseteq Needed' /\ Read \subseteq Read'
<1>1. Known /\ NeededIs /\ ReadIs
  BY NeededLaw, ReadLaw DEF DemandInv
<1>2. Known'
  BY <1>1 DEF Known
<1>3. (Known => NeededIs)' /\ (Known => ReadIs)'
  BY NeededLaw, ReadLaw, PTL
<1>4. NeededIs' /\ ReadIs'
  BY <1>2, <1>3
<1>5. Stays
  BY SourceStays
<1>6. Roots \subseteq Roots'
  <2>1. RootsAre'
    BY RootsLaw, PTL
  <2>2. ConstantDemands(evaluated) \subseteq ConstantDemands(evaluated)'
    BY DEF ConstantDemands, Demands, Generic, None
  <2> QED BY <1>5, <2>1, <2>2, RootsLaw DEF Stays, RootsAre
<1>7. DemandClosed(Needed')
  <2>1. \A id \in Needed' : BodyDemands(id[1], id[2])' \subseteq Needed'
    BY <1>4 DEF NeededIs, DemandClosed
  <2> QED BY <1>5, <2>1 DEF Stays, DemandClosed
<1>8. Needed \subseteq Needed'
  <2>1. Roots \subseteq Needed'
    BY <1>4, <1>6 DEF NeededIs
  <2> QED BY <1>1, <1>7, <2>1 DEF NeededIs
<1>9. Read \subseteq Read'
  <2>1. /\ source.condition.constants \subseteq Read'
        /\ \A c \in Read' : source.constants[c].constants \subseteq Read'
    BY <1>4 DEF ReadIs
  <2>2. Reads({id[1] : id \in Needed}) \subseteq Read'
    <3> SUFFICES ASSUME NEW id \in Needed PROVE source.functions[id[1]].constants \subseteq Read'
      BY DEF Reads
    <3>1. id \in Needed'
      BY <1>8
    <3>2. \A other \in Needed' : source'.functions[other[1]].constants \subseteq Read'
      BY <1>4 DEF ReadIs, Reads
    <3> QED BY <3>1, <3>2
  <2> QED BY <1>1, <2>1, <2>2 DEF ReadIs
<1> QED
  BY <1>2, <1>4, <1>8, <1>9

(* Going on to a phase that claims nothing more harms nothing.             *)
LEMMA OnlyPhase ==
  ASSUME DemandInv,
         \/ lowering' = "defect"
         \/ missing' = missing /\ lowering' = lowering
         \/ missing' = missing /\ lowering' = "cancelled" /\ lowering # "defect",
         UNCHANGED <<source, mode, lowered, evaluated, demanded, records, specialized>>
  PROVE  DemandInv'
<1>1. Stays /\ Known' /\ Needed \subseteq Needed' /\ Read \subseteq Read'
  BY SourceStays, NeededGrows DEF DemandInv, Known
<1>2. /\ mode' \in {"program", "condition"} /\ records' \subseteq Needed'
      /\ lowering' # "defect" => records' = missing' \cup specialized'
      /\ lowering' = "done" => missing' = {}
  BY <1>1 DEF DemandInv
<1>3. /\ CalledFrom(lowered \cap Concrete)' = CalledFrom(lowered \cap Concrete)
      /\ ConstantDemands(evaluated)' = ConstantDemands(evaluated)
      /\ Reads({id[1] : id \in specialized})' = Reads({id[1] : id \in specialized})
      /\ ConstantDemands(DOMAIN source.constants)' = ConstantDemands(DOMAIN source.constants)
      /\ ConcreteIds' = ConcreteIds /\ ConditionDemands' = ConditionDemands
      /\ TestDemands' = TestDemands /\ Concrete' = Concrete
      /\ \A d : Generic(d)' = Generic(d)
      /\ \A d, type : BodyDemands(d, type)' = BodyDemands(d, type)
  BY <1>1 DEF Stays
<1>4. BodiesRecorded'
  BY <1>3 DEF DemandInv, BodiesRecorded
<1>5. mode' = "program" => ProgramPart'
  BY <1>3 DEF DemandInv, ProgramPart
<1>6. ASSUME mode' = "condition" PROVE ConditionPart'
  <2>1. ConditionPart /\ (lowering' = lowering \/ lowering' \in {"defect", "cancelled"})
    BY <1>6 DEF DemandInv
  <2> QED BY <1>1, <1>3, <2>1 DEF ConditionPart
<1> QED
  BY <1>1, <1>2, <1>4, <1>5, <1>6 DEF DemandInv

(* Recording more harms nothing.                                           *)
LEMMA PartsKept ==
  ASSUME DemandInv, UNCHANGED <<source, mode, lowered, evaluated, demanded>>,
         records \subseteq records', lowering' = lowering, lowering # "done"
  PROVE  /\ mode' = "program" => ProgramPart'
         /\ mode' = "condition" => ConditionPart'
         /\ CalledFrom(lowered \cap Concrete)' \subseteq records'
<1>1. Stays /\ Read \subseteq Read'
  BY SourceStays, NeededGrows DEF DemandInv, Known
<1>2. ASSUME mode' = "program" PROVE ProgramPart'
  <2>1. ProgramPart
    BY <1>2 DEF DemandInv
  <2>2. /\ ConcreteIds' = ConcreteIds /\ ConditionDemands' = ConditionDemands
        /\ TestDemands' = TestDemands
        /\ ConstantDemands(DOMAIN source.constants)' = ConstantDemands(DOMAIN source.constants)
    BY <1>1 DEF Stays
  <2> QED BY <2>1, <2>2 DEF ProgramPart
<1>3. ASSUME mode' = "condition" PROVE ConditionPart'
  <2>1. ConditionPart
    BY <1>3 DEF DemandInv
  <2>2. /\ Concrete' = Concrete /\ ConditionDemands' = ConditionDemands
        /\ ConstantDemands(evaluated)' = ConstantDemands(evaluated)
    BY <1>1 DEF Stays
  <2>3. {id[1] : id \in records} \subseteq {id[1] : id \in records'}
    OBVIOUS
  <2> QED BY <1>1, <2>1, <2>2, <2>3 DEF ConditionPart
<1>4. CalledFrom(lowered \cap Concrete)' = CalledFrom(lowered \cap Concrete)
  BY <1>1 DEF Stays
<1> QED
  BY <1>2, <1>3, <1>4 DEF DemandInv, BodiesRecorded

LEMMA MaterializeKept ==
  ASSUME DemandInv, NEW id \in missing, Materialize(id)
  PROVE  DemandInv'
<1>1. /\ lowering \in {"bodies", "tests", "materialize"}
      /\ UNCHANGED <<source, mode, lowered, evaluated, demanded>>
  BY DEF Materialize
<1>2. /\ records = missing \cup specialized /\ id \in Needed /\ NeededIs
  BY <1>1, NeededLaw DEF DemandInv
<1>3. Stays /\ Known' /\ Needed \subseteq Needed'
  BY <1>1, SourceStays, NeededGrows DEF DemandInv, Known
<1>4. mode' \in {"program", "condition"}
  BY <1>1 DEF DemandInv
<1>5. CASE Generic(id[1])
  <2> DEFINE ids == BodyDemands(id[1], id[2])
  <2>1. /\ records' = records \cup ids
        /\ missing' = (missing \ {id}) \cup (ids \ records)
        /\ specialized' = specialized \cup {id} /\ lowering' = lowering
    BY <1>5 DEF Materialize, BodyDemands
  <2>2. ids \subseteq Needed
    BY <1>2 DEF NeededIs, DemandClosed
  <2> HIDE DEF ids
  <2>3. records' \subseteq Needed' /\ records' = missing' \cup specialized' /\ lowering' # "done"
    BY <1>1, <1>2, <1>3, <2>1, <2>2 DEF DemandInv
  <2>4. /\ mode' = "program" => ProgramPart'
        /\ mode' = "condition" => ConditionPart'
        /\ CalledFrom(lowered \cap Concrete)' \subseteq records'
    BY <1>1, <2>1, PartsKept
  <2>5. ASSUME NEW x \in specialized'
        PROVE  IF Generic(x[1])' THEN BodyDemands(x[1], x[2])' \subseteq records'
               ELSE x[1] \in lowered'
    <3>1. Generic(x[1])' = Generic(x[1]) /\ BodyDemands(x[1], x[2])' = BodyDemands(x[1], x[2])
      BY <1>3 DEF Stays
    <3>2. CASE x = id
      BY <1>5, <2>1, <3>1, <3>2 DEF ids
    <3>3. CASE x \in specialized
      BY <1>1, <2>1, <3>1, <3>3 DEF DemandInv, BodiesRecorded
    <3> QED BY <2>1, <3>2, <3>3
  <2>6. BodiesRecorded'
    BY <2>4, <2>5 DEF BodiesRecorded
  <2> QED BY <1>3, <1>4, <2>3, <2>4, <2>6 DEF DemandInv
<1>6. CASE ~ Generic(id[1]) /\ id[1] \in lowered
  <2>1. /\ records' = records /\ missing' = missing \ {id}
        /\ specialized' = specialized \cup {id} /\ lowering' = lowering
    BY <1>6 DEF Materialize
  <2>2. records' \subseteq Needed' /\ records' = missing' \cup specialized' /\ lowering' # "done"
    BY <1>1, <1>2, <1>3, <2>1 DEF DemandInv
  <2>3. /\ mode' = "program" => ProgramPart'
        /\ mode' = "condition" => ConditionPart'
        /\ CalledFrom(lowered \cap Concrete)' \subseteq records'
    BY <1>1, <2>1, PartsKept
  <2>4. ASSUME NEW x \in specialized'
        PROVE  IF Generic(x[1])' THEN BodyDemands(x[1], x[2])' \subseteq records'
               ELSE x[1] \in lowered'
    <3>1. Generic(x[1])' = Generic(x[1]) /\ BodyDemands(x[1], x[2])' = BodyDemands(x[1], x[2])
      BY <1>3 DEF Stays
    <3>2. CASE x = id
      BY <1>1, <1>6, <2>1, <3>1, <3>2
    <3>3. CASE x \in specialized
      BY <1>1, <2>1, <3>1, <3>3 DEF DemandInv, BodiesRecorded
    <3> QED BY <2>1, <3>2, <3>3
  <2>5. BodiesRecorded'
    BY <2>3, <2>4 DEF BodiesRecorded
  <2> QED BY <1>3, <1>4, <2>2, <2>3, <2>5 DEF DemandInv
<1>7. CASE ~ Generic(id[1]) /\ id[1] \notin lowered
  <2>1. records' = records /\ specialized' = specialized /\ lowering' = "defect"
    BY <1>7 DEF Materialize
  <2> QED BY <1>1, <1>3, <1>4, <2>1, OnlyPhase
<1> QED
  BY <1>5, <1>6, <1>7

-----------------------------------------------------------------------------

LEMMA NamedFirst ==
  ASSUME NEW calls, NEW type
  PROVE  Named(calls) = {id[1] : id \in Demands(calls, type)}
<1> DEFINE type_(c) == IF Generic(c.callee) THEN c.wraps + (IF c.own THEN type ELSE 0) ELSE None
<1>1. Demands(calls, type) = {<<c.callee, type_(c)>> : c \in calls}
  BY DEF Demands
<1> HIDE DEF type_
<1>2. ASSUME NEW c \in calls
      PROVE  \E id \in Demands(calls, type) : id[1] = c.callee
  <2>1. <<c.callee, type_(c)>> \in Demands(calls, type) /\ <<c.callee, type_(c)>>[1] = c.callee
    BY <1>1
  <2> QED BY <2>1
<1>3. ASSUME NEW id \in Demands(calls, type)
      PROVE  \E c \in calls : id[1] = c.callee
  <2>1. PICK c \in calls : id = <<c.callee, type_(c)>>
    BY <1>1
  <2>2. id[1] = c.callee
    BY <2>1
  <2> QED BY <2>2
<1>4. Named(calls) \subseteq {id[1] : id \in Demands(calls, type)}
  BY <1>2 DEF Named
<1>5. {id[1] : id \in Demands(calls, type)} \subseteq Named(calls)
  BY <1>3 DEF Named
<1> QED
  BY <1>4, <1>5

(* What is needed after a step, in terms of the program.                   *)
LEMMA NeededNext ==
  ASSUME DemandInv, source' = source, mode' = mode,
         evaluated \subseteq evaluated', evaluated' \subseteq DOMAIN source.constants
  PROVE  /\ Stays /\ Known' /\ Needed \subseteq Needed' /\ Read \subseteq Read'
         /\ mode = "program" =>
              ConstantDemands(DOMAIN source.constants) \cup ConditionDemands \cup TestDemands
                \cup ConcreteIds \subseteq Needed'
         /\ mode # "program" => ConditionDemands \cup ConstantDemands(evaluated') \subseteq Needed'
         /\ \A id \in Needed' : /\ BodyDemands(id[1], id[2]) \subseteq Needed'
                                /\ id[1] \in Definitions
                                /\ ~ Generic(id[1]) => id = <<id[1], None>>
         /\ source.condition.constants \subseteq Read'
         /\ \A id \in Needed' : Reads({id[1]}) \subseteq Read'
         /\ \A c \in Read' : source.constants[c].constants \subseteq Read'
<1>1. Stays /\ Known' /\ NeededIs' /\ ReadIs' /\ Needed \subseteq Needed' /\ Read \subseteq Read'
  BY SourceStays, NeededGrows
<1>2. RootsAre' /\ Roots' \subseteq Needed'
  <2>1. RootsAre'
    BY RootsLaw, PTL
  <2> QED BY <1>1, <2>1 DEF NeededIs
<1>3. /\ ConstantDemands(DOMAIN source.constants)' = ConstantDemands(DOMAIN source.constants)
      /\ ConditionDemands' = ConditionDemands /\ TestDemands' = TestDemands
      /\ ConcreteIds' = ConcreteIds
      /\ ConstantDemands(evaluated)' = ConstantDemands(evaluated')
      /\ Definitions' = Definitions /\ None' = None
  BY <1>1 DEF Stays, None
<1>4. /\ mode = "program" =>
           ConstantDemands(DOMAIN source.constants) \cup ConditionDemands \cup TestDemands
             \cup ConcreteIds \subseteq Needed'
      /\ mode # "program" => ConditionDemands \cup ConstantDemands(evaluated') \subseteq Needed'
  BY <1>2, <1>3 DEF RootsAre
<1>5. ASSUME NEW id \in Needed'
      PROVE  /\ BodyDemands(id[1], id[2]) \subseteq Needed'
             /\ id[1] \in Definitions
             /\ ~ Generic(id[1]) => id = <<id[1], None>>
  <2>1. Generic(id[1])' = Generic(id[1]) /\ BodyDemands(id[1], id[2])' = BodyDemands(id[1], id[2])
    BY <1>1 DEF Stays
  <2>2. /\ BodyDemands(id[1], id[2])' \subseteq Needed'
        /\ id[1] \in Definitions' /\ (~ Generic(id[1])' => id = <<id[1], None'>>)
    BY <1>1, <1>5 DEF NeededIs, DemandClosed
  <2> QED BY <1>3, <2>1, <2>2
<1>6. /\ source.condition.constants \subseteq Read'
      /\ \A c \in Read' : source.constants[c].constants \subseteq Read'
  BY <1>1 DEF ReadIs
<1>7. ASSUME NEW id \in Needed' PROVE Reads({id[1]}) \subseteq Read'
  <2>1. \A other \in Needed' : source'.functions[other[1]].constants \subseteq Read'
    BY <1>1 DEF ReadIs, Reads
  <2> QED BY <2>1 DEF Reads
<1> QED
  BY <1>1, <1>4, <1>5, <1>6, <1>7

LEMMA LowerProgramKept ==
  ASSUME DemandInv, LowerProgram
  PROVE  DemandInv'
<1> DEFINE ids == ConstantDemands(DOMAIN source.constants) \cup ConditionDemands
                    \cup CalledFrom(Concrete) \cup ConcreteIds
<1>1. /\ mode = "program" /\ mode' = mode /\ source' = source /\ lowering = "start"
      /\ lowering' = "bodies" /\ lowered' = Definitions /\ evaluated' = DOMAIN source.constants
      /\ specialized' = specialized
  BY DEF LowerProgram
<1>2. records' = records \cup ids /\ missing' = missing \cup (ids \ records)
  <2>1. Demands((UNION {source.constants[c].calls : c \in DOMAIN source.constants})
                  \cup source.condition.calls \cup Calls(Concrete), None)
          = ConstantDemands(DOMAIN source.constants) \cup ConditionDemands \cup CalledFrom(Concrete)
    BY DEF Demands, ConstantDemands, ConditionDemands, CalledFrom
  <2> QED BY <2>1 DEF LowerProgram, Demand, ConcreteIds
<1> HIDE DEF ids
<1>3. /\ Stays /\ Known' /\ Needed \subseteq Needed'
      /\ ConstantDemands(DOMAIN source.constants) \cup ConditionDemands \cup TestDemands
           \cup ConcreteIds \subseteq Needed'
      /\ \A id \in Needed' : BodyDemands(id[1], id[2]) \subseteq Needed' /\ id[1] \in Definitions
  BY <1>1, NeededNext DEF DemandInv, Known
<1>4. CalledFrom(Concrete) \subseteq Needed'
  <2>1. ASSUME NEW d \in Concrete PROVE BodyDemands(d, None) \subseteq Needed'
    <3>1. <<d, None>> \in Needed'
      BY <1>3, <2>1 DEF ConcreteIds
    <3> QED BY <1>3, <3>1
  <2> QED BY <2>1, DemandsFrom
<1>5. records' \subseteq Needed' /\ records' = missing' \cup specialized'
  BY <1>1, <1>2, <1>3, <1>4 DEF DemandInv, ids
<1>6. BodiesRecorded'
  <2>1. CalledFrom(lowered \cap Concrete)' = CalledFrom(Concrete)
    <3>1. (lowered \cap Concrete)' = Concrete
      BY <1>1, <1>3 DEF Stays, Concrete
    <3> QED BY <1>3, <3>1 DEF Stays
  <2>2. ASSUME NEW x \in specialized
        PROVE  IF Generic(x[1])' THEN BodyDemands(x[1], x[2])' \subseteq records'
               ELSE x[1] \in lowered'
    <3>1. Generic(x[1])' = Generic(x[1]) /\ BodyDemands(x[1], x[2])' = BodyDemands(x[1], x[2])
      BY <1>3 DEF Stays
    <3>2. x[1] \in Definitions
      BY <1>3, <1>5, <1>1
    <3> QED BY <1>1, <1>2, <3>1, <3>2 DEF DemandInv, BodiesRecorded
  <2> QED BY <1>1, <1>2, <2>1, <2>2 DEF BodiesRecorded, ids
<1>7. ProgramPart'
  BY <1>1, <1>2, <1>3 DEF ProgramPart, Stays, ids
<1> QED
  BY <1>1, <1>3, <1>5, <1>6, <1>7 DEF DemandInv

LEMMA LowerTestsKept ==
  ASSUME DemandInv, LowerTests
  PROVE  DemandInv'
<1>1. /\ lowering = "bodies" /\ missing = {} /\ lowering' = "tests"
      /\ records' = records \cup TestDemands /\ missing' = missing \cup (TestDemands \ records)
      /\ UNCHANGED <<source, mode, lowered, evaluated, specialized>>
  BY DEF LowerTests, Demand, TestDemands
<1>2. mode = "program" /\ ProgramPart
  BY <1>1 DEF DemandInv, ConditionPart
<1>3. Stays /\ Known' /\ Needed \subseteq Needed' /\ TestDemands \subseteq Needed'
  BY <1>1, <1>2, NeededNext DEF DemandInv, Known
<1>4. records' \subseteq Needed' /\ records' = missing' \cup specialized'
  BY <1>1, <1>3 DEF DemandInv
<1>5. BodiesRecorded'
  <2>1. /\ CalledFrom(lowered \cap Concrete)' = CalledFrom(lowered \cap Concrete)
        /\ \A d : Generic(d)' = Generic(d)
        /\ \A d, type : BodyDemands(d, type)' = BodyDemands(d, type)
    BY <1>1, <1>3 DEF Stays
  <2> QED BY <1>1, <2>1 DEF DemandInv, BodiesRecorded
<1>6. ProgramPart'
  BY <1>1, <1>2, <1>3 DEF ProgramPart, Stays
<1> QED
  BY <1>1, <1>2, <1>3, <1>4, <1>5, <1>6 DEF DemandInv

LEMMA FinishProgramKept ==
  ASSUME DemandInv, FinishProgram
  PROVE  DemandInv'
<1>1. /\ lowering = "tests" /\ missing = {} /\ lowering' = "done"
      /\ UNCHANGED <<source, mode, lowered, evaluated, records, missing, specialized>>
  BY DEF FinishProgram
<1>2. mode = "program" /\ ProgramPart
  BY <1>1 DEF DemandInv, ConditionPart
<1>3. Stays /\ Known' /\ Needed \subseteq Needed'
  BY <1>1, <1>2, NeededNext DEF DemandInv, Known
<1>4. BodiesRecorded'
  <2>1. /\ CalledFrom(lowered \cap Concrete)' = CalledFrom(lowered \cap Concrete)
        /\ \A d : Generic(d)' = Generic(d)
        /\ \A d, type : BodyDemands(d, type)' = BodyDemands(d, type)
    BY <1>1, <1>3 DEF Stays
  <2> QED BY <1>1, <2>1 DEF DemandInv, BodiesRecorded
<1>5. ProgramPart'
  BY <1>1, <1>2, <1>3 DEF ProgramPart, Stays
<1> QED
  BY <1>1, <1>2, <1>3, <1>4, <1>5 DEF DemandInv

LEMMA LowerConditionKept ==
  ASSUME DemandInv, LowerCondition
  PROVE  DemandInv'
<1>1. /\ mode = "condition" /\ lowering = "start" /\ lowering' = "turn"
      /\ records' = records \cup ConditionDemands
      /\ missing' = missing \cup (ConditionDemands \ records)
      /\ UNCHANGED <<source, mode, lowered, evaluated, specialized>>
      /\ demanded'.functions = Named(source.condition.calls)
      /\ demanded'.constants = source.condition.constants
  BY DEF LowerCondition, Demand, ConditionDemands
<1>2. ConditionPart /\ evaluated = {} /\ lowered = {}
  BY <1>1 DEF DemandInv, ConditionPart
<1>3. /\ Stays /\ Known' /\ Needed \subseteq Needed' /\ ConditionDemands \subseteq Needed'
      /\ source.condition.constants \subseteq Read'
  BY <1>1, NeededNext DEF DemandInv, Known
<1>4. records' \subseteq Needed' /\ records' = missing' \cup specialized'
  BY <1>1, <1>3 DEF DemandInv
<1>5. BodiesRecorded'
  <2>1. /\ CalledFrom(lowered \cap Concrete)' = CalledFrom(lowered \cap Concrete)
        /\ \A d : Generic(d)' = Generic(d)
        /\ \A d, type : BodyDemands(d, type)' = BodyDemands(d, type)
    BY <1>1, <1>3 DEF Stays
  <2> QED BY <1>1, <2>1 DEF DemandInv, BodiesRecorded
<1>6. ConditionPart'
  <2>1. demanded'.functions \subseteq {id[1] : id \in records'}
    <3>1. demanded'.functions = {id[1] : id \in ConditionDemands}
      BY <1>1, NamedFirst DEF ConditionDemands
    <3> QED BY <1>1, <3>1
  <2>2. ConstantDemands(evaluated)' = ConstantDemands(evaluated) /\ ConditionDemands' = ConditionDemands
    BY <1>1, <1>3 DEF Stays
  <2> QED BY <1>1, <1>2, <1>3, <2>1, <2>2 DEF ConditionPart
<1> QED
  BY <1>1, <1>3, <1>4, <1>5, <1>6 DEF DemandInv

LEMMA LowerDemandedKept ==
  ASSUME DemandInv, LowerDemanded
  PROVE  DemandInv'
<1> DEFINE constants == demanded.constants \ evaluated
           named     == demanded.functions
                          \cup Named(UNION {source.constants[c].calls : c \in constants})
           functions == (named \cap Concrete) \ lowered
           ids       == ConstantDemands(constants) \cup CalledFrom(functions)
<1>1. /\ lowering = "turn" /\ lowering' = "materialize"
      /\ UNCHANGED <<source, mode, specialized>>
      /\ evaluated' = evaluated \cup constants /\ lowered' = lowered \cup functions
      /\ demanded'.functions = named \cup Named(Calls(functions))
      /\ demanded'.constants = demanded.constants
           \cup (UNION {source.constants[c].constants : c \in constants}) \cup Reads(functions)
  BY DEF LowerDemanded
<1>2. records' = records \cup ids /\ missing' = missing \cup (ids \ records)
  <2>1. Demands((UNION {source.constants[c].calls : c \in constants}) \cup Calls(functions), None)
          = ids
    BY DEF Demands, ConstantDemands, CalledFrom
  <2> QED BY <2>1 DEF LowerDemanded, Demand
<1>3. mode = "condition" /\ ConditionPart
  BY <1>1 DEF DemandInv, ProgramPart
<1>4. evaluated' \subseteq DOMAIN source.constants /\ evaluated \subseteq evaluated'
  <2>1. Read \subseteq DOMAIN source.constants
    BY ReadLaw DEF DemandInv, ReadIs
  <2> QED BY <1>1, <1>3, <2>1 DEF ConditionPart
<1>5. /\ Stays /\ Known' /\ Needed \subseteq Needed' /\ Read \subseteq Read'
      /\ ConditionDemands \cup ConstantDemands(evaluated') \subseteq Needed'
      /\ \A id \in Needed' : /\ BodyDemands(id[1], id[2]) \subseteq Needed'
                             /\ id[1] \in Definitions
                             /\ ~ Generic(id[1]) => id = <<id[1], None>>
      /\ \A id \in Needed' : Reads({id[1]}) \subseteq Read'
      /\ \A c \in Read' : source.constants[c].constants \subseteq Read'
  BY <1>1, <1>3, <1>4, NeededNext DEF DemandInv
<1>6. ConstantDemands(evaluated') = ConstantDemands(evaluated) \cup ConstantDemands(constants)
  BY <1>1, ConstantsJoin
<1>7. ASSUME NEW d \in named
      PROVE  \E id \in records \cup ConstantDemands(constants) : id[1] = d
  <2>1. Named(UNION {source.constants[c].calls : c \in constants})
          = {id[1] : id \in ConstantDemands(constants)}
    BY NamedFirst DEF ConstantDemands
  <2> QED BY <1>3, <1>7, <2>1 DEF ConditionPart
<1>8. Named(Calls(functions)) = {id[1] : id \in CalledFrom(functions)}
  BY NamedFirst DEF CalledFrom
<1> HIDE DEF named, constants
<1>9. ASSUME NEW d \in functions PROVE <<d, None>> \in Needed'
  <2>1. PICK id \in records \cup ConstantDemands(constants) : id[1] = d
    BY <1>7
  <2>2. id \in Needed'
    BY <1>5, <1>6, <2>1 DEF DemandInv
  <2>3. ~ Generic(d)
    BY DEF Concrete
  <2> QED BY <1>5, <2>1, <2>2, <2>3
<1> HIDE DEF functions
<1>10. CalledFrom(functions) \subseteq Needed'
  <2>1. ASSUME NEW d \in functions PROVE BodyDemands(d, None) \subseteq Needed'
    <3> DEFINE id == <<d, None>>
    <3>1. id \in Needed' /\ id[1] = d /\ id[2] = None
      BY <1>9
    <3> HIDE DEF id
    <3> QED BY <1>5, <3>1
  <2> QED BY <2>1, DemandsFrom
<1>11. records' \subseteq Needed' /\ records' = missing' \cup specialized'
  BY <1>1, <1>2, <1>5, <1>6, <1>10 DEF DemandInv, ids
<1>12. BodiesRecorded'
  <2>1. CalledFrom(lowered \cap Concrete)' \subseteq records'
    <3>1. CalledFrom(lowered \cap Concrete)' = CalledFrom(lowered' \cap Concrete)
      BY <1>5 DEF Stays
    <3>2. CalledFrom(lowered' \cap Concrete)
            \subseteq CalledFrom(lowered \cap Concrete) \cup CalledFrom(functions)
      BY <1>1, DemandsFrom
    <3> QED BY <1>2, <3>1, <3>2 DEF DemandInv, BodiesRecorded, ids
  <2>2. ASSUME NEW x \in specialized
        PROVE  IF Generic(x[1])' THEN BodyDemands(x[1], x[2])' \subseteq records'
               ELSE x[1] \in lowered'
    <3>1. Generic(x[1])' = Generic(x[1]) /\ BodyDemands(x[1], x[2])' = BodyDemands(x[1], x[2])
      BY <1>5 DEF Stays
    <3> QED BY <1>1, <1>2, <3>1 DEF DemandInv, BodiesRecorded
  <2> QED BY <1>1, <2>1, <2>2 DEF BodiesRecorded
<1>13. ConditionPart'
  <2>1. demanded'.functions \subseteq {id[1] : id \in records'}
    BY <1>1, <1>2, <1>7, <1>8 DEF ids
  <2>2. demanded'.constants \subseteq Read'
    <3>1. \A c \in constants : source.constants[c].constants \subseteq Read'
      BY <1>3, <1>5 DEF ConditionPart, constants
    <3>2. Reads(functions) \subseteq Read'
      <4>1. ASSUME NEW d \in functions PROVE Reads({d}) \subseteq Read'
        <5> DEFINE id == <<d, None>>
        <5>1. id \in Needed' /\ id[1] = d
          BY <1>9
        <5> HIDE DEF id
        <5> QED BY <1>5, <5>1
      <4> QED BY <4>1 DEF Reads
    <3> QED BY <1>1, <1>3, <1>5, <3>1, <3>2 DEF ConditionPart
  <2>3. lowered' \subseteq Concrete' /\ lowered' \subseteq {id[1] : id \in records'}
    <3>1. functions \subseteq Concrete /\ functions \subseteq {id[1] : id \in records'}
      BY <1>2, <1>7 DEF functions, ids
    <3> QED BY <1>1, <1>2, <1>3, <1>5, <3>1 DEF ConditionPart, Stays
  <2>4. /\ evaluated' \subseteq demanded'.constants
        /\ \A c \in evaluated' : source'.constants[c].constants \subseteq demanded'.constants
    BY <1>1, <1>3 DEF ConditionPart, constants
  <2>5. ConstantDemands(evaluated)' \subseteq records'
    <3>1. ConstantDemands(evaluated)' = ConstantDemands(evaluated')
      BY <1>5 DEF Stays
    <3> QED BY <1>2, <1>3, <1>6, <3>1 DEF ConditionPart, ids
  <2>6. ConditionDemands' \subseteq records' /\ source'.condition.constants \subseteq demanded'.constants
    BY <1>1, <1>2, <1>3, <1>5 DEF ConditionPart, Stays
  <2> QED BY <1>1, <2>1, <2>2, <2>3, <2>4, <2>5, <2>6 DEF ConditionPart
<1> QED
  BY <1>1, <1>3, <1>5, <1>11, <1>12, <1>13 DEF DemandInv

LEMMA CollectDemandsKept ==
  ASSUME DemandInv, CollectDemands
  PROVE  DemandInv'
<1> DEFINE D == {id[1] : id \in specialized}
<1>1. /\ lowering = "materialize" /\ missing = {} /\ lowering' \in {"turn", "done"}
      /\ UNCHANGED <<source, mode, lowered, evaluated, records, missing, specialized>>
      /\ demanded'.functions = demanded.functions \cup Named(Calls(D))
      /\ demanded'.constants = demanded.constants \cup Reads(D)
      /\ lowering' = "done" => demanded'.constants \subseteq evaluated
  BY DEF CollectDemands, NamedBySpecializations
<1>2. mode = "condition" /\ ConditionPart /\ records = specialized
  BY <1>1 DEF DemandInv, ProgramPart
<1>3. /\ Stays /\ Known' /\ Needed \subseteq Needed' /\ Read \subseteq Read'
      /\ \A id \in Needed' : /\ id[1] \in Definitions
                             /\ ~ Generic(id[1]) => id = <<id[1], None>>
      /\ \A id \in Needed' : Reads({id[1]}) \subseteq Read'
  BY <1>1, NeededNext DEF DemandInv, Known
<1>4. \A id \in specialized : id \in Needed'
  BY <1>2, <1>3 DEF DemandInv
<1>5. Reads(D) \subseteq Read'
  BY <1>3, <1>4 DEF Reads
<1>6. Named(Calls(D)) \subseteq {id[1] : id \in records}
  <2> SUFFICES ASSUME NEW id \in specialized
               PROVE  Named(source.functions[id[1]].calls) \subseteq {x[1] : x \in records}
    BY DEF Named, Calls
  <2>1. BodyDemands(id[1], id[2]) \subseteq records
    <3>1. CASE Generic(id[1])
      BY <3>1 DEF DemandInv, BodiesRecorded
    <3>2. CASE ~ Generic(id[1])
      <4>1. id[1] \in Definitions /\ id[2] = None
        BY <1>3, <1>4, <3>2
      <4>2. id[1] \in lowered \cap Concrete
        BY <3>2, <4>1 DEF DemandInv, BodiesRecorded, Concrete
      <4> QED BY <4>1, <4>2, DemandsFrom DEF DemandInv, BodiesRecorded
    <3> QED BY <3>1, <3>2
  <2> QED BY <2>1, NamedFirst DEF BodyDemands
<1>7. BodiesRecorded'
  <2>1. /\ CalledFrom(lowered \cap Concrete)' = CalledFrom(lowered \cap Concrete)
        /\ \A d : Generic(d)' = Generic(d)
        /\ \A d, type : BodyDemands(d, type)' = BodyDemands(d, type)
    BY <1>1, <1>3 DEF Stays
  <2> QED BY <1>1, <2>1 DEF DemandInv, BodiesRecorded
<1>8. ConditionPart'
  <2>1. /\ ConstantDemands(evaluated)' = ConstantDemands(evaluated)
        /\ ConditionDemands' = ConditionDemands /\ Concrete' = Concrete
        /\ Reads({id[1] : id \in specialized})' = Reads(D)
    BY <1>1, <1>3 DEF Stays
  <2>2. demanded'.functions \subseteq {id[1] : id \in records'}
    BY <1>1, <1>2, <1>6 DEF ConditionPart
  <2>3. demanded'.constants \subseteq Read'
    BY <1>1, <1>2, <1>3, <1>5 DEF ConditionPart
  <2> HIDE DEF D
  <2> QED BY <1>1, <1>2, <2>1, <2>2, <2>3 DEF ConditionPart
<1> QED
  BY <1>1, <1>2, <1>3, <1>7, <1>8 DEF DemandInv

(* A program that was lowered has a body for every specialization that can *)
(* be called, and for no other; a condition has those that it can call:    *)
(* whatever calls, types and constants there are, and however the demands  *)
(* come up.  (typed_hir.rs, verify_program, verify_comptime_condition.)    *)
THEOREM DemandsAreExact == DemandSpec => []DemandExact
<1>1. ASSUME DemandInv, [DemandNext]_demandVars PROVE DemandInv'
  <2>1. CASE UNCHANGED demandVars
    BY <1>1, <2>1, OnlyPhase DEF demandVars
  <2>2. CASE CancelDemand
    BY <1>1, <2>2, OnlyPhase DEF CancelDemand
  <2>3. CASE AbandonDemand
    BY <1>1, <2>3, OnlyPhase DEF AbandonDemand
  <2>4. CASE LowerProgram
    BY <1>1, <2>4, LowerProgramKept
  <2>5. CASE LowerTests \/ FinishProgram
    BY <1>1, <2>5, LowerTestsKept, FinishProgramKept
  <2>6. CASE LowerCondition
    BY <1>1, <2>6, LowerConditionKept
  <2>7. CASE LowerDemanded
    BY <1>1, <2>7, LowerDemandedKept
  <2>8. CASE CollectDemands
    BY <1>1, <2>8, CollectDemandsKept
  <2>9. ASSUME NEW id \in missing, Materialize(id) PROVE DemandInv'
    BY <1>1, <2>9, MaterializeKept
  <2> QED
    BY <1>1, <2>1, <2>2, <2>3, <2>4, <2>5, <2>6, <2>7, <2>8, <2>9 DEF DemandNext, Lower
<1> QED
  BY <1>1, DemandStarts, DemandFinal, PTL DEF DemandSpec

-----------------------------------------------------------------------------
(***************************************************************************)
(* Bodies of functions, and runs of them.                                  *)
(***************************************************************************)

(* The levels of an expression, as they are computed.                      *)
Levels(l, e, closed, n) ==
  l = [k \in 0..n |-> IF k = 0 THEN {e}
                      ELSE UNION {ToSet(x.args) : x \in {y \in l[k - 1] : y.kind \notin closed}}]

(* The levels exist, as far as they are computed.                          *)
LEMMA LevelsExist ==
  ASSUME NEW e, NEW closed, NEW n \in Nat
  PROVE  \E l : Levels(l, e, closed, n)
<1> DEFINE G == {k \in 0..n : \E l : Levels(l, e, closed, k)}
<1>1. 0 \in G
  <2> DEFINE l == [k \in 0..0 |-> {e}]
  <2>1. Levels(l, e, closed, 0)
    BY DEF Levels
  <2> QED BY <2>1
<1>2. ASSUME NEW m \in 1..n, m - 1 \in G PROVE m \in G
  <2>1. PICK l : Levels(l, e, closed, m - 1)
    BY <1>2
  <2> DEFINE more == UNION {ToSet(x.args) : x \in {y \in l[m - 1] : y.kind \notin closed}}
             h == [k \in 0..m |-> IF k = m THEN more ELSE l[k]]
  <2>2. ASSUME NEW k \in 0..m
        PROVE h[k] = IF k = 0 THEN {e}
                     ELSE UNION {ToSet(x.args) : x \in {y \in h[k - 1] : y.kind \notin closed}}
    <3>1. CASE k = m
      <4>1. k # 0 /\ h[k] = more /\ h[k - 1] = l[m - 1]
        BY <3>1
      <4> QED BY <4>1, <3>1
    <3>2. CASE k # m
      <4>1. k \in 0..(m - 1) /\ h[k] = l[k]
        BY <3>2
      <4>2. l[k] = IF k = 0 THEN {e}
                   ELSE UNION {ToSet(x.args) : x \in {y \in l[k - 1] : y.kind \notin closed}}
        BY <2>1, <4>1 DEF Levels
      <4>3. k # 0 => h[k - 1] = l[k - 1]
        BY <4>1
      <4> QED BY <4>1, <4>2, <4>3
    <3> QED BY <3>1, <3>2
  <2>3. h = [k \in 0..m |-> h[k]]
    OBVIOUS
  <2> HIDE DEF h
  <2>4. Levels(h, e, closed, m)
    BY <2>2, <2>3 DEF Levels
  <2> QED
    BY <2>4
<1> HIDE DEF G
<1>3. n \in G
  BY <1>1, <1>2, Upto
<1> QED
  BY <1>3 DEF G

(* What is in an expression are its levels.                                *)
LEMMA WithinIs ==
  ASSUME NEW e, NEW closed
  PROVE  \E l : /\ Levels(l, e, closed, BodyNesting)
                /\ Within(e, closed) = UNION {l[n] : n \in 0..BodyNesting}
<1> DEFINE l == CHOOSE m : Levels(m, e, closed, BodyNesting)
<1>1. Levels(l, e, closed, BodyNesting)
  <2>1. \E m : Levels(m, e, closed, BodyNesting)
    BY LevelsExist, BodyAssumption
  <2> QED BY <2>1
<1>2. Within(e, closed) = UNION {l[n] : n \in 0..BodyNesting}
  BY DEF Within, Levels
<1> QED
  BY <1>1, <1>2

(* Where the places have no indexes, nothing is passed over.               *)
LEMMA LookedAtAll ==
  ASSUME NEW e, \A x \in Reached(e) : x.kind = "Read" => x.args = <<>>
  PROVE  Looking(e) = Reached(e)
<1>1. PICK l : /\ Levels(l, e, {}, BodyNesting)
               /\ Reached(e) = UNION {l[n] : n \in 0..BodyNesting}
  BY WithinIs DEF Reached
<1>2. PICK m : /\ Levels(m, e, {"Read"}, BodyNesting)
               /\ Looking(e) = UNION {m[n] : n \in 0..BodyNesting}
  BY WithinIs DEF Looking
<1> DEFINE N == BodyNesting
           Same(k) == l[k] = m[k]
<1>3. Same(0)
  BY <1>1, <1>2, BodyAssumption DEF Levels
<1>4. ASSUME NEW n \in 1..N, Same(n - 1) PROVE Same(n)
  <2>1. N \in Nat /\ n \in 0..N /\ n # 0 /\ n - 1 \in 0..N
    BY BodyAssumption
  <2>2. l[n] = UNION {ToSet(x.args) : x \in {y \in l[n - 1] : y.kind \notin {}}}
    BY <1>1, <2>1 DEF Levels
  <2>3. m[n] = UNION {ToSet(x.args) : x \in {y \in l[n - 1] : y.kind \notin {"Read"}}}
    BY <1>2, <1>4, <2>1 DEF Levels
  <2>4. ASSUME NEW y \in l[n - 1], y.kind = "Read" PROVE ToSet(y.args) = {}
    <3>1. y.args = <<>>
      BY <1>1, <2>1, <2>4
    <3> QED BY <3>1 DEF ToSet
  <2>5. ASSUME NEW z \in l[n] PROVE z \in m[n]
    BY <2>2, <2>3, <2>4, <2>5
  <2>6. ASSUME NEW z \in m[n] PROVE z \in l[n]
    BY <2>2, <2>3, <2>6
  <2> QED
    BY <2>5, <2>6
<1>5. \A n \in 0..N : Same(n)
  <2> TAKE n \in 0..N
  <2> DEFINE G == {k \in 0..n : Same(k)}
  <2>1. n \in Nat /\ 0 \in G
    BY <1>3, BodyAssumption
  <2>2. ASSUME NEW k \in 1..n, k - 1 \in G PROVE k \in G
    <3>1. k \in 1..N /\ k \in 0..n
      BY <2>2, BodyAssumption
    <3> QED BY <1>4, <2>2, <3>1
  <2> HIDE DEF G
  <2>3. n \in G
    BY <2>1, <2>2, Upto
  <2> QED BY <2>3 DEF G
<1> QED
  BY <1>1, <1>2, <1>5

-----------------------------------------------------------------------------
CallEdges == CallGraph(program)

FrameType ==
  UNION {{Frame(d, a) : a \in [DOMAIN program.functions[d].params -> Integers_]} :
           d \in DOMAIN program.functions}

MeasureOf(x) == x.arguments[Measure(program.functions[x.function])]

(* What runs was called, one from another, by the function that started.   *)
Chained == /\ \A i \in DOMAIN frames : frames[i].function \in {start} \cup ReachableFrom(CallEdges, start)
           /\ \A i, j \in DOMAIN frames :
                i < j => frames[j].function \in ReachableFrom(CallEdges, frames[i].function)

(* Of two calls on one cycle the inner one has the smaller measure.        *)
Sinking == \A i, j \in DOMAIN frames :
             i < j /\ frames[i].function \in ReachableFrom(CallEdges, frames[j].function) =>
               /\ MeasureOf(frames[i]) \in Integers_ /\ MeasureOf(frames[j]) \in Integers_
               /\ MeasureOf(frames[j]) < MeasureOf(frames[i])

RunInv == /\ program \in UNION LoweredPrograms
          /\ concluded = Conclusions
          /\ start \in DOMAIN program.functions
          /\ frames \in Seq(FrameType)
          /\ Plain => /\ happened \subseteq FactsOf(program, start)
                      /\ Chained
                      /\ Unproven(program) = {} => Sinking

(* The edges of a plain program are the calls in all parts of the bodies.  *)
LEMMA PlainEdges ==
  ASSUME program \in UNION LoweredPrograms, Plain, NEW d \in DOMAIN program.functions
  PROVE  /\ Expressions(program.functions[d].body) = PartsOf(program.functions[d])
         /\ CallEdges[d] = UNION {CalledIn(e) : e \in PartsOf(program.functions[d])}
<1> DEFINE f == program.functions[d]
<1>1. \A s \in Statements(f.body) : AllValues(s) = ToSet(s.values)
  <2> TAKE s \in Statements(f.body)
  <2>1. s.guards = <<>> /\ s.places = <<>>
    BY DEF Plain
  <2> QED BY <2>1 DEF AllValues, ToSet
<1>2. ASSUME NEW s \in Statements(f.body), NEW v \in ToSet(s.values)
      PROVE  Looking(v) = Reached(v)
  <2>1. Reached(v) \subseteq PartsOf(f)
    BY <1>1, <1>2 DEF PartsOf
  <2>2. \A x \in Reached(v) : x.kind = "Read" => x.args = <<>>
    BY <2>1 DEF Plain
  <2> QED BY <2>2, LookedAtAll
<1>3. Expressions(f.body) = PartsOf(f)
  <2>1. ASSUME NEW x, x \in Expressions(f.body) PROVE x \in PartsOf(f)
    <3>1. PICK s \in Statements(f.body) : \E v \in ToSet(s.values) : x \in Looking(v)
      BY <2>1 DEF Expressions
    <3>2. PICK v \in ToSet(s.values) : x \in Looking(v)
      BY <3>1
    <3> QED BY <1>1, <1>2, <3>2 DEF PartsOf
  <2>2. ASSUME NEW x, x \in PartsOf(f) PROVE x \in Expressions(f.body)
    <3>1. PICK s \in Statements(f.body) : \E v \in AllValues(s) : x \in Reached(v)
      BY <2>2 DEF PartsOf
    <3>2. PICK v \in ToSet(s.values) : x \in Reached(v)
      BY <1>1, <3>1
    <3> QED BY <1>2, <3>2 DEF Expressions
  <2> QED BY <2>1, <2>2
<1>4. CallEdges[d] = UNION {CalledIn(e) : e \in Expressions(f.body)}
  BY DEF CallEdges, CallGraph, LocalFacts
<1> QED
  BY <1>3, <1>4

(* The call graph of a plain program is a graph of its functions.          *)
LEMMA PlainGraph ==
  ASSUME program \in UNION LoweredPrograms, Plain
  PROVE  /\ CallEdges \in [DOMAIN program.functions -> SUBSET DOMAIN program.functions]
         /\ \A d : ReachableFrom(CallEdges, d) = Reach(CallEdges, d)
<1>1. ASSUME NEW d \in DOMAIN program.functions PROVE CallEdges[d] \subseteq DOMAIN program.functions
  <2>1. \A e \in PartsOf(program.functions[d]) : CalledIn(e) \subseteq DOMAIN program.functions
    BY BodyAssumption DEF Links
  <2> QED BY <2>1, PlainEdges
<1>2. CallEdges = [d \in DOMAIN program.functions |-> CallEdges[d]]
  BY DEF CallEdges, CallGraph
<1>3. CallEdges \in [DOMAIN program.functions -> SUBSET DOMAIN program.functions]
  BY <1>1, <1>2
<1> QED
  BY <1>3 DEF ReachableFrom, Reach

(* The first integer parameter is one.                                     *)
LEMMA MeasureIs ==
  ASSUME program \in UNION LoweredPrograms, NEW d \in DOMAIN program.functions,
         Measured(program.functions[d])
  PROVE  Measure(program.functions[d]) \in DOMAIN program.functions[d].params
<1> DEFINE f == program.functions[d]
           S == {i \in DOMAIN f.params : f.params[i].integer}
<1>1. f.params \in Seq([integer: BOOLEAN, access: {"Copy", "Read", "Mut", "Move"}])
  BY BodyAssumption
<1>2. DOMAIN f.params = 1..Len(f.params) /\ Len(f.params) \in Nat
  BY <1>1
<1>3. S \subseteq Nat /\ S # {}
  BY <1>2 DEF Measured
<1>4. PICK i \in S : \A j \in S : i <= j
  BY <1>3, LeastNumber
<1>5. \A j \in 1 .. i - 1 : ~ f.params[j].integer
  <2> TAKE j \in 1 .. i - 1
  <2>1. j \in DOMAIN f.params /\ j < i /\ i \in Nat
    BY <1>2
  <2> QED BY <1>4, <2>1
<1>6. \E k \in DOMAIN f.params : f.params[k].integer /\ \A j \in 1 .. k - 1 : ~ f.params[j].integer
  BY <1>5
<1> QED
  BY <1>6 DEF Measure

-----------------------------------------------------------------------------
(* The frame that runs is a call of a function of the program.             *)
LEMMA TopFrame ==
  ASSUME frames \in Seq(FrameType), Running
  PROVE  /\ Len(frames) \in Nat /\ Len(frames) > 0 /\ DOMAIN frames = 1..Len(frames)
         /\ Top = frames[Len(frames)] /\ Top \in FrameType
         /\ Top.function \in DOMAIN program.functions
         /\ Top.arguments \in [DOMAIN program.functions[Top.function].params -> Integers_]
<1>1. Len(frames) \in Nat /\ Len(frames) > 0 /\ DOMAIN frames = 1..Len(frames)
  BY DEF Running
<1>2. Top = frames[Len(frames)] /\ Top \in FrameType
  BY <1>1 DEF Top, Last
<1> QED
  BY <1>1, <1>2 DEF FrameType, Frame

(* What happens in the body that runs is a fact of the function started.   *)
LEMMA HappensThere ==
  ASSUME RunInv, Plain, Running,
         NEW x, x \in LocalFacts(program.functions[Top.function]).spread
  PROVE  x \in FactsOf(program, start)
<1>1. Top.function \in {start} \cup ReachableFrom(CallEdges, start)
  BY TopFrame DEF RunInv, Chained
<1> QED
  BY <1>1 DEF FactsOf, CallEdges

(* A panic, a suspension and a construction are facts of the start.        *)
LEMMA PanicThere ==
  ASSUME RunInv, Plain, RunPanic
  PROVE  "panics" \in FactsOf(program, start)
<1> DEFINE f == program.functions[Top.function]
<1>1. Top.function \in DOMAIN program.functions /\ Running
  BY TopFrame DEF RunInv, RunPanic
<1>2. Expressions(f.body) = PartsOf(f)
  BY <1>1, PlainEdges DEF RunInv
<1>3. (\E e \in Expressions(f.body) : MayPanic(e))
      \/ \E s \in Statements(f.body) : s.kind \in {"Panic", "Assert"}
  <2>1. CASE \E e \in Here : CanPanic(e)
    <3>1. PICK e \in PartsOf(f) : CanPanic(e)
      BY <2>1 DEF Here
    <3>2. /\ e.kind = "Read" => e.args = <<>>
          /\ e.kind = "Binary" => e.operator \notin {"<<", ">>"}
      BY <1>1 DEF Plain
    <3>3. MayPanic(e)
      BY <3>1, <3>2 DEF CanPanic, MayPanic
    <3> QED BY <1>2, <3>1, <3>3
  <2>2. CASE \E s \in Statements(f.body) : s.kind \in {"Panic", "Assert"} \/ s.places # <<>>
    BY <1>1, <2>2 DEF Plain
  <2> QED BY <2>1, <2>2 DEF RunPanic
<1>4. "panics" \in LocalFacts(f).spread
  BY <1>3 DEF LocalFacts
<1> QED
  BY <1>1, <1>4, HappensThere

LEMMA SuspendThere ==
  ASSUME RunInv, Plain, Running, NEW e \in Here, e.kind = "Await"
  PROVE  "suspends" \in FactsOf(program, start)
<1> DEFINE f == program.functions[Top.function]
<1>1. Top.function \in DOMAIN program.functions
  BY TopFrame DEF RunInv
<1>2. e \in Expressions(f.body)
  BY <1>1, PlainEdges DEF RunInv, Here
<1>3. "suspends" \in LocalFacts(f).spread
  BY <1>2 DEF LocalFacts
<1> QED
  BY <1>3, HappensThere

LEMMA ConstructThere ==
  ASSUME RunInv, Plain, Running, NEW e \in Here, CallsBuild(e)
  PROVE  "constructs" \in FactsOf(program, start)
<1> DEFINE f == program.functions[Top.function]
<1>1. Top.function \in DOMAIN program.functions
  BY TopFrame DEF RunInv
<1>2. e \in Expressions(f.body)
  BY <1>1, PlainEdges DEF RunInv, Here
<1>3. "constructs" \in LocalFacts(f).spread
  BY <1>2 DEF LocalFacts
<1> QED
  BY <1>3, HappensThere

(* So is what entering a function does.                                    *)
LEMMA EnteringThere ==
  ASSUME NEW d \in {start} \cup ReachableFrom(CallEdges, start)
  PROVE  Entering(d) \subseteq FactsOf(program, start)
<1>1. Entering(d) \subseteq LocalFacts(program.functions[d]).spread
  BY DEF Entering, LocalFacts
<1> QED
  BY <1>1 DEF FactsOf, CallEdges

-----------------------------------------------------------------------------
(* A call stays below all functions that run.                              *)
LEMMA CallGoes ==
  ASSUME RunInv, Plain, Running, NEW e \in Here, NEW d \in CalledIn(e)
  PROVE  /\ d \in DOMAIN program.functions
         /\ d \in ReachableFrom(CallEdges, Top.function)
         /\ d \in {start} \cup ReachableFrom(CallEdges, start)
         /\ \A i \in DOMAIN frames : d \in ReachableFrom(CallEdges, frames[i].function)
<1> DEFINE t == Top.function
           V == DOMAIN program.functions
<1>1. /\ t \in V /\ Len(frames) \in DOMAIN frames /\ Top = frames[Len(frames)]
      /\ DOMAIN frames = 1..Len(frames) /\ Len(frames) \in Nat
  BY TopFrame DEF RunInv
<1>2. /\ CallEdges \in [V -> SUBSET V]
      /\ \A n : ReachableFrom(CallEdges, n) = Reach(CallEdges, n)
  BY PlainGraph DEF RunInv
<1>3. d \in CallEdges[t]
  BY <1>1, PlainEdges DEF RunInv, Here
<1>4. d \in V /\ d \in Reach(CallEdges, t)
  BY <1>1, <1>2, <1>3, ReachCloses
<1>5. ASSUME NEW n \in V, t \in Reach(CallEdges, n) PROVE d \in Reach(CallEdges, n)
  BY <1>2, <1>4, <1>5, ReachTransitive
<1>6. start \in V /\ t \in {start} \cup Reach(CallEdges, start)
  BY <1>1, <1>2 DEF RunInv, Chained
<1>7. d \in {start} \cup Reach(CallEdges, start)
  BY <1>4, <1>5, <1>6
<1>8. ASSUME NEW i \in DOMAIN frames PROVE d \in Reach(CallEdges, frames[i].function)
  <2>1. frames[i].function \in V
    BY DEF RunInv, FrameType, Frame
  <2>2. CASE i = Len(frames)
    BY <1>1, <1>4, <2>2
  <2>3. CASE i # Len(frames)
    <3>1. i < Len(frames)
      BY <1>1, <2>3
    <3>2. t \in Reach(CallEdges, frames[i].function)
      BY <1>1, <1>2, <3>1 DEF RunInv, Chained
    <3> QED BY <1>5, <2>1, <3>2
  <2> QED BY <2>2, <2>3
<1> QED
  BY <1>2, <1>4, <1>7, <1>8

(* A call on a proven cycle passes a smaller measure.                      *)
LEMMA CallSinks ==
  ASSUME RunInv, Plain, Running, Unproven(program) = {},
         NEW e \in Here, NEW d \in CalledIn(e),
         Top.function \in ReachableFrom(CallEdges, d),
         NEW a \in [DOMAIN program.functions[d].params -> Integers_],
         \A i \in DOMAIN e.args : a[e.order[i]] \in ValuesOf(e.args[i])
  PROVE  /\ a[Measure(program.functions[d])] \in Integers_
         /\ MeasureOf(Top) \in Integers_
         /\ a[Measure(program.functions[d])] < MeasureOf(Top)
<1> DEFINE t == Top.function
           V == DOMAIN program.functions
           group == Group(CallEdges, t)
           p == Measure(program.functions[d])
           own == Measure(program.functions[t])
<1>1. /\ t \in V /\ Top.arguments \in [DOMAIN program.functions[t].params -> Integers_]
      /\ program \in UNION LoweredPrograms
  BY TopFrame DEF RunInv
<1>2. /\ CallEdges \in [V -> SUBSET V]
      /\ \A n : ReachableFrom(CallEdges, n) = Reach(CallEdges, n)
  BY <1>1, PlainGraph
<1>3. d \in V /\ d \in Reach(CallEdges, t) /\ t \in Reach(CallEdges, d)
  BY <1>2, CallGoes
<1>4. t \in Reach(CallEdges, t)
  BY <1>1, <1>2, <1>3, ReachTransitive
<1>5. d \in group /\ t \in group /\ group \subseteq V
  BY <1>1, <1>2, <1>3, <1>4 DEF Group
<1>6. Proven(program, t)
  BY <1>1, <1>5 DEF Unproven, CallEdges
<1>7. /\ Measured(program.functions[d]) /\ Measured(program.functions[t])
      /\ Decreases(program.functions, t, group)
  BY <1>5, <1>6 DEF Proven, CallEdges
<1>8. p \in DOMAIN program.functions[d].params /\ own \in DOMAIN program.functions[t].params
  BY <1>1, <1>3, <1>7, MeasureIs
<1>9. PICK s \in Statements(program.functions[t].body) : \E v \in ToSet(s.values) : e \in Reached(v)
  <2>1. PICK s \in Statements(program.functions[t].body) : \E v \in AllValues(s) : e \in Reached(v)
    BY DEF Here, PartsOf
  <2>2. s.guards = <<>> /\ s.places = <<>>
    BY <1>1 DEF Plain
  <2>3. AllValues(s) = ToSet(s.values)
    BY <2>2 DEF AllValues, ToSet
  <2> QED BY <2>1, <2>3
<1> DEFINE i == ArgumentFor(e, p)
           argument == e.args[i]
<1>10. Lessens(argument, own)
  BY <1>5, <1>7, <1>9 DEF Decreases
<1>11. i \in DOMAIN e.args /\ e.order[i] = p
  <2>1. DOMAIN e.order = DOMAIN e.args /\ ToSet(e.order) = DOMAIN program.functions[d].params
    BY <1>1, BodyAssumption DEF Links, Here
  <2>2. \E k \in DOMAIN e.order : e.order[k] = p
    BY <1>8, <2>1 DEF ToSet
  <2> QED BY <2>1, <2>2 DEF ArgumentFor
<1>12. a[p] \in ValuesOf(argument)
  BY <1>11
<1>13. /\ argument.kind = "Binary" /\ argument.operator = "-"
       /\ argument.args[1].kind = "Read" /\ argument.args[1].local = own
       /\ argument.args[2].kind = "Literal" /\ argument.args[2].value > 0
  BY <1>10 DEF Lessens
<1>14. ValuesOf(argument) = {Top.arguments[own] - argument.args[2].value} \cap Integers_
  <2> HIDE DEF argument, own
  <2> QED BY <1>13 DEF ValuesOf
<1>15. a[p] = Top.arguments[own] - argument.args[2].value
  BY <1>12, <1>14
<1>16. argument.args[2].value \in Int
  <2>1. Shallow(program.functions[t]) /\ e \in PartsOf(program.functions[t])
    BY <1>1, BodyAssumption DEF Here
  <2>2. argument \in PartsOf(program.functions[t])
    BY <1>11, <2>1 DEF Shallow, ToSet
  <2>3. 2 \in DOMAIN argument.args
    BY <1>1, <1>13, <2>2, BodyAssumption DEF Links
  <2>4. argument.args[2] \in PartsOf(program.functions[t])
    BY <2>1, <2>2, <2>3 DEF Shallow, ToSet
  <2>5. Links(program, argument.args[2])
    BY <1>1, <2>4, BodyAssumption
  <2> QED BY <1>13, <2>5 DEF Links
<1>17. a[p] \in Integers_ /\ Top.arguments[own] \in Integers_
  BY <1>1, <1>8
<1>18. a[p] < Top.arguments[own]
  <2>1. a[p] \in Int /\ Top.arguments[own] \in Int
    BY <1>17, BodyAssumption DEF Integers_
  <2> QED BY <1>13, <1>15, <1>16, <2>1
<1> QED
  BY <1>17, <1>18 DEF MeasureOf

-----------------------------------------------------------------------------
(* The frames after a call.                                                *)
LEMMA Entered ==
  ASSUME RunInv, NEW d \in DOMAIN program.functions,
         NEW a \in [DOMAIN program.functions[d].params -> Integers_], Enter(d, a)
  PROVE  /\ frames' \in Seq(FrameType) /\ UNCHANGED <<program, concluded, start>>
         /\ Len(frames) \in Nat /\ DOMAIN frames = 1..Len(frames)
         /\ DOMAIN frames' = 1..(Len(frames) + 1)
         /\ \A i \in DOMAIN frames : frames'[i] = frames[i]
         /\ frames'[Len(frames) + 1] = Frame(d, a)
<1>1. frames \in Seq(FrameType) /\ Frame(d, a) \in FrameType
  BY DEF RunInv, FrameType
<1>2. frames' = Append(frames, Frame(d, a)) /\ UNCHANGED <<program, concluded, start>>
  BY DEF Enter
<1> QED
  BY <1>1, <1>2

(* A call keeps what holds of the frames.                                  *)
LEMMA CallKeeps ==
  ASSUME RunInv, Plain, Running, NEW e \in Here, NEW d \in CalledIn(e),
         NEW a \in [DOMAIN program.functions[d].params -> Integers_],
         \A i \in DOMAIN e.args : a[e.order[i]] \in ValuesOf(e.args[i]),
         Enter(d, a)
  PROVE  /\ happened' \subseteq FactsOf(program, start)
         /\ Chained'
         /\ Unproven(program) = {} => Sinking'
<1> DEFINE n == Len(frames)
<1>1. /\ d \in DOMAIN program.functions
      /\ d \in {start} \cup ReachableFrom(CallEdges, start)
      /\ \A i \in DOMAIN frames : d \in ReachableFrom(CallEdges, frames[i].function)
  BY CallGoes
<1>2. /\ UNCHANGED <<program, concluded, start>>
      /\ n \in Nat /\ DOMAIN frames = 1..n /\ DOMAIN frames' = 1..(n + 1)
      /\ \A i \in 1..n : frames'[i] = frames[i]
      /\ frames'[n + 1] = Frame(d, a)
  BY <1>1, Entered
<1>3. CallEdges' = CallEdges
  BY <1>2 DEF CallEdges
<1>4. happened' \subseteq FactsOf(program, start)
  <2>1. happened' = happened \cup Entering(d)
    BY DEF Enter
  <2>2. happened \subseteq FactsOf(program, start)
    BY DEF RunInv
  <2> QED BY <1>1, <2>1, <2>2, EnteringThere
<1>5. Chained'
  <2>1. ASSUME NEW i \in 1..(n + 1)
        PROVE  frames'[i].function \in {start} \cup ReachableFrom(CallEdges, start)
    <3>1. CASE i = n + 1
      BY <1>1, <1>2, <3>1 DEF Frame
    <3>2. CASE i # n + 1
      <4>1. i \in 1..n
        BY <1>2, <3>2
      <4> QED BY <1>2, <4>1 DEF RunInv, Chained
    <3> QED BY <3>1, <3>2
  <2>2. ASSUME NEW i \in 1..(n + 1), NEW j \in 1..(n + 1), i < j
        PROVE  frames'[j].function \in ReachableFrom(CallEdges, frames'[i].function)
    <3>1. i \in 1..n /\ frames'[i] = frames[i]
      BY <1>2, <2>2
    <3>2. CASE j = n + 1
      BY <1>1, <1>2, <3>1, <3>2 DEF Frame
    <3>3. CASE j # n + 1
      <4>1. j \in 1..n
        BY <1>2, <3>3
      <4> QED BY <1>2, <2>2, <3>1, <4>1 DEF RunInv, Chained
    <3> QED BY <3>2, <3>3
  <2> QED BY <1>2, <1>3, <2>1, <2>2 DEF Chained
<1>6. ASSUME Unproven(program) = {} PROVE Sinking'
  <2>1. Sinking
    BY <1>6 DEF RunInv
  <2>2. ASSUME NEW i \in 1..(n + 1), NEW j \in 1..(n + 1), i < j,
               frames'[i].function \in ReachableFrom(CallEdges, frames'[j].function)
        PROVE  /\ MeasureOf(frames'[i]) \in Integers_ /\ MeasureOf(frames'[j]) \in Integers_
               /\ MeasureOf(frames'[j]) < MeasureOf(frames'[i])
    <3>1. i \in 1..n /\ frames'[i] = frames[i]
      BY <1>2, <2>2
    <3>2. CASE j # n + 1
      <4>1. j \in 1..n /\ frames'[j] = frames[j]
        BY <1>2, <3>2
      <4> QED BY <1>2, <2>1, <2>2, <3>1, <4>1 DEF Sinking
    <3>3. CASE j = n + 1
      <4> DEFINE t == Top.function
                 fi == frames[i].function
      <4>1. /\ frames'[j].function = d /\ frames'[j].arguments = a
            /\ Top = frames[n] /\ n \in 1..n /\ n > 0
            /\ t \in DOMAIN program.functions
        BY <1>2, <3>3, TopFrame DEF Frame, RunInv
      <4>2. MeasureOf(frames'[j]) = a[Measure(program.functions[d])]
        BY <4>1 DEF MeasureOf
      <4>3. fi \in ReachableFrom(CallEdges, d)
        BY <2>2, <3>1, <4>1
      <4>4. /\ CallEdges \in [DOMAIN program.functions -> SUBSET DOMAIN program.functions]
            /\ \A m : ReachableFrom(CallEdges, m) = Reach(CallEdges, m)
        BY PlainGraph DEF RunInv
      <4>5. fi \in DOMAIN program.functions
        BY <1>2, <3>1 DEF RunInv, FrameType, Frame
      <4>6. CASE i = n
        <5>1. t \in ReachableFrom(CallEdges, d)
          BY <4>1, <4>3, <4>6
        <5>2. /\ a[Measure(program.functions[d])] \in Integers_
              /\ MeasureOf(Top) \in Integers_
              /\ a[Measure(program.functions[d])] < MeasureOf(Top)
          BY <1>6, <5>1, CallSinks
        <5> QED BY <3>1, <4>1, <4>2, <4>6, <5>2
      <4>7. CASE i # n
        <5>1. i < n
          <6>1. n \in Nat /\ i \in 1..n
            BY <1>2, <3>1
          <6> HIDE DEF n
          <6> QED BY <4>7, <6>1
        <5>2. t \in Reach(CallEdges, fi) /\ d \in Reach(CallEdges, t)
          BY <1>1, <1>2, <3>1, <4>1, <4>4, <5>1 DEF RunInv, Chained
        <5>3. t \in Reach(CallEdges, d) /\ fi \in Reach(CallEdges, t)
          BY <1>1, <4>1, <4>3, <4>4, <4>5, <5>2, ReachTransitive
        <5>4. /\ a[Measure(program.functions[d])] \in Integers_
              /\ MeasureOf(Top) \in Integers_
              /\ a[Measure(program.functions[d])] < MeasureOf(Top)
          BY <1>6, <4>4, <5>3, CallSinks
        <5>5. /\ MeasureOf(frames[i]) \in Integers_
              /\ MeasureOf(frames[n]) < MeasureOf(frames[i])
          BY <1>2, <2>1, <3>1, <4>1, <4>4, <5>1, <5>3 DEF Sinking
        <5>6. \A x \in Integers_ : x \in Int
          BY BodyAssumption DEF Integers_
        <5> QED BY <3>1, <4>1, <4>2, <5>4, <5>5, <5>6
      <4> QED BY <4>6, <4>7
    <3> QED BY <3>2, <3>3
  <2> QED BY <1>2, <1>3, <2>2 DEF Sinking, MeasureOf
<1> QED
  BY <1>4, <1>5, <1>6

(* A frame less.                                                           *)
LEMMA ReturnKeeps ==
  ASSUME RunInv, RunReturn
  PROVE  RunInv'
<1> DEFINE n == Len(frames)
<1>1. /\ n \in Nat /\ n > 0 /\ DOMAIN frames = 1..n
      /\ frames \in Seq(FrameType)
  BY TopFrame DEF RunInv, RunReturn
<1>2. frames' = SubSeq(frames, 1, n - 1)
  BY DEF RunReturn, Front
<1>3. frames' \in Seq(FrameType) /\ DOMAIN frames' = 1..(n - 1)
  BY <1>1, <1>2
<1>4. \A i \in 1..(n - 1) : i \in 1..n /\ frames'[i] = frames[i]
  BY <1>1, <1>2
<1>5. UNCHANGED <<program, concluded, start, happened>>
  BY DEF RunReturn
<1>6. ASSUME Chained PROVE Chained'
  <2>1. ASSUME NEW i \in 1..(n - 1)
        PROVE  frames'[i].function \in {start} \cup ReachableFrom(CallEdges, start)
    <3>1. i \in DOMAIN frames /\ frames'[i] = frames[i]
      BY <1>1, <1>4
    <3> QED BY <1>6, <3>1 DEF Chained
  <2>2. ASSUME NEW i \in 1..(n - 1), NEW j \in 1..(n - 1), i < j
        PROVE  frames'[j].function \in ReachableFrom(CallEdges, frames'[i].function)
    <3>1. /\ i \in DOMAIN frames /\ frames'[i] = frames[i]
          /\ j \in DOMAIN frames /\ frames'[j] = frames[j]
      BY <1>1, <1>4
    <3> QED BY <1>6, <2>2, <3>1 DEF Chained
  <2> QED BY <1>3, <1>5, <2>1, <2>2 DEF Chained, CallEdges
<1>7. ASSUME Sinking PROVE Sinking'
  BY <1>1, <1>3, <1>4, <1>5, <1>7 DEF Sinking, CallEdges, MeasureOf
<1>8. FrameType' = FrameType
  BY <1>5 DEF FrameType
<1> QED
  BY <1>3, <1>5, <1>6, <1>7, <1>8 DEF RunInv, Conclusions, Plain

(* Nothing but the facts and, in a panic, the frames changes.              *)
LEMMA HappeningKeeps ==
  ASSUME RunInv, UNCHANGED <<program, concluded, start>>,
         frames' = frames \/ frames' = <<>>,
         Plain => happened' \subseteq FactsOf(program, start)
  PROVE  RunInv'
<1>1. FrameType' = FrameType
  BY DEF FrameType
<1>2. frames' \in Seq(FrameType)
  <2>1. frames \in Seq(FrameType) /\ <<>> \in Seq(FrameType)
    BY DEF RunInv
  <2>2. CASE frames' = frames
    BY <2>1, <2>2
  <2>3. CASE frames' = <<>>
    BY <2>1, <2>3
  <2> QED BY <2>2, <2>3
<1>3. ASSUME Chained PROVE Chained'
  <2>1. CASE frames' = frames
    BY <1>3, <2>1 DEF Chained, CallEdges
  <2>2. CASE frames' = <<>>
    BY <2>2 DEF Chained
  <2> QED BY <2>1, <2>2
<1>4. ASSUME Sinking PROVE Sinking'
  <2>1. CASE frames' = frames
    BY <1>4, <2>1 DEF Sinking, CallEdges, MeasureOf
  <2>2. CASE frames' = <<>>
    BY <2>2 DEF Sinking
  <2> QED BY <2>1, <2>2
<1> QED
  BY <1>1, <1>2, <1>3, <1>4 DEF RunInv, Conclusions, Plain

(* Every step of a run keeps the invariant.                                *)
LEMMA RunStep ==
  ASSUME RunInv, [RunNext]_runVars
  PROVE  RunInv'
<1>1. CASE RunPanic
  <2>1. Plain => happened' \subseteq FactsOf(program, start)
    BY <1>1, PanicThere DEF RunPanic, RunInv
  <2> QED BY <1>1, <2>1, HappeningKeeps DEF RunPanic
<1>2. CASE RunSuspend
  <2>1. Plain => happened' \subseteq FactsOf(program, start)
    <3>1. PICK e \in Here : e.kind = "Await"
      BY <1>2 DEF RunSuspend, Happens
    <3>2. Running /\ happened' = happened \cup {"suspends"}
      BY <1>2 DEF RunSuspend, Happens
    <3> QED BY <3>1, <3>2, SuspendThere DEF RunInv
  <2>2. UNCHANGED <<program, concluded, start, frames>>
    BY <1>2 DEF RunSuspend, Happens
  <2> QED BY <2>1, <2>2, HappeningKeeps
<1>3. CASE RunConstruct
  <2>1. Plain => happened' \subseteq FactsOf(program, start)
    <3>1. PICK e \in Here : CallsBuild(e)
      BY <1>3 DEF RunConstruct, Happens
    <3>2. Running /\ happened' = happened \cup {"constructs"}
      BY <1>3 DEF RunConstruct, Happens
    <3> QED BY <3>1, <3>2, ConstructThere DEF RunInv
  <2>2. UNCHANGED <<program, concluded, start, frames>>
    BY <1>3 DEF RunConstruct, Happens
  <2> QED BY <2>1, <2>2, HappeningKeeps
<1>4. CASE RunCall
  <2>1. Running
    BY <1>4 DEF RunCall
  <2>a. PICK e \in Here : \E d \in CalledIn(e) :
          \E a \in [DOMAIN program.functions[d].params -> Integers_] :
            /\ \A i \in DOMAIN e.args : a[e.order[i]] \in ValuesOf(e.args[i])
            /\ Enter(d, a)
    BY <1>4 DEF RunCall
  <2>b. PICK d \in CalledIn(e) :
          \E a \in [DOMAIN program.functions[d].params -> Integers_] :
            /\ \A i \in DOMAIN e.args : a[e.order[i]] \in ValuesOf(e.args[i])
            /\ Enter(d, a)
    BY <2>a
  <2>2. PICK a \in [DOMAIN program.functions[d].params -> Integers_] :
          /\ \A i \in DOMAIN e.args : a[e.order[i]] \in ValuesOf(e.args[i])
          /\ Enter(d, a)
    BY <2>b
  <2>3. Top.function \in DOMAIN program.functions
    BY <2>1, TopFrame DEF RunInv
  <2>4. d \in DOMAIN program.functions
    BY <2>2, <2>3, BodyAssumption DEF RunInv, Here, Links
  <2>5. frames' \in Seq(FrameType) /\ UNCHANGED <<program, concluded, start>>
    BY <2>2, <2>4, Entered
  <2>6. Plain => /\ happened' \subseteq FactsOf(program, start)
                 /\ Chained'
                 /\ Unproven(program) = {} => Sinking'
    BY <2>1, <2>2, CallKeeps
  <2>7. FrameType' = FrameType
    BY <2>5 DEF FrameType
  <2> QED BY <2>5, <2>6, <2>7 DEF RunInv, Conclusions, Plain
<1>5. CASE RunCallable
  <2>1. Running
    BY <1>5 DEF RunCallable
  <2>2. PICK e \in Here : /\ e.kind = "Call" /\ e.target = "Callable"
                          /\ e.args[1].kind = "FunctionValue"
                          /\ \E a \in [DOMAIN program.functions[e.args[1].definition].params
                                         -> Integers_] : Enter(e.args[1].definition, a)
    BY <1>5 DEF RunCallable
  <2> DEFINE f == program.functions[Top.function]
             d == e.args[1].definition
  <2>3. Top.function \in DOMAIN program.functions
    BY <2>1, TopFrame DEF RunInv
  <2>4. e \in PartsOf(f) /\ 1 \in DOMAIN e.args
    BY <2>2, <2>3, BodyAssumption DEF RunInv, Here, Links
  <2>5. e.args[1] \in PartsOf(f)
    BY <2>3, <2>4, BodyAssumption DEF RunInv, Shallow, ToSet
  <2>6. d \in DOMAIN program.functions /\ ~ Plain
    BY <2>2, <2>3, <2>5, BodyAssumption DEF RunInv, Links, Plain
  <2>7. frames' \in Seq(FrameType) /\ UNCHANGED <<program, concluded, start>>
    BY <2>2, <2>6, Entered
  <2>8. FrameType' = FrameType
    BY <2>7 DEF FrameType
  <2> QED BY <2>6, <2>7, <2>8 DEF RunInv, Conclusions, Plain
<1>6. CASE RunReturn
  BY <1>6, ReturnKeeps
<1>7. CASE UNCHANGED runVars
  <2>1. UNCHANGED <<program, concluded, start, frames, happened>>
    BY <1>7 DEF runVars
  <2> QED BY <2>1, HappeningKeeps DEF RunInv
<1> QED
  BY <1>1, <1>2, <1>3, <1>4, <1>5, <1>6, <1>7 DEF RunNext

LEMMA RunStarts == RunInit => RunInv
<1> SUFFICES ASSUME RunInit PROVE RunInv
  OBVIOUS
<1>1. /\ program \in UNION LoweredPrograms /\ concluded = Conclusions
      /\ start \in DOMAIN program.functions /\ happened = Entering(start)
  BY DEF RunInit
<1>2. PICK a \in [DOMAIN program.functions[start].params -> Integers_] : frames = <<Frame(start, a)>>
  BY DEF RunInit
<1>3. Frame(start, a) \in FrameType
  BY <1>1 DEF FrameType
<1>4. /\ frames \in Seq(FrameType) /\ DOMAIN frames = 1..1 /\ frames[1].function = start
  BY <1>2, <1>3 DEF Frame
<1>5. happened \subseteq FactsOf(program, start)
  BY <1>1, EnteringThere
<1>6. Chained /\ Sinking
  BY <1>4 DEF Chained, Sinking
<1> QED
  BY <1>1, <1>4, <1>5, <1>6 DEF RunInv

LEMMA RunsStay == RunSpec => []RunInv
<1>1. RunInv /\ [RunNext]_runVars => RunInv'
  BY RunStep
<1> QED
  BY <1>1, RunStarts, PTL DEF RunSpec

(* Whatever can happen in a run of a function is among the facts that were *)
(* concluded, for every program in which nothing is passed over.           *)
THEOREM FactsCoverRuns == RunSpec => []FactsCover
<1>1. RunInv => FactsCover
  BY DEF RunInv, FactsCover, Conclusions
<1> QED
  BY <1>1, RunsStay, PTL

-----------------------------------------------------------------------------
(* Frames of one cycle are as many as their measures at most.              *)
LEMMA CycleBounded ==
  ASSUME RunInv, Plain, Unproven(program) = {}, NEW d \in DOMAIN program.functions,
         Group(CallEdges, d) # {}
  PROVE  NestedIn({d} \cup Group(CallEdges, d)) <= MaximumCalls
<1> DEFINE V == DOMAIN program.functions
           group == Group(CallEdges, d)
           I == {i \in DOMAIN frames : frames[i].function \in {d} \cup group}
           m == [i \in I |-> MeasureOf(frames[i])]
<1>1. /\ CallEdges \in [V -> SUBSET V]
      /\ \A n : ReachableFrom(CallEdges, n) = Reach(CallEdges, n)
      /\ DOMAIN CallEdges = V
  BY PlainGraph DEF RunInv
<1>2. d \in group /\ group \subseteq V
  <2>1. PICK n \in V : n \in Reach(CallEdges, d) /\ d \in Reach(CallEdges, n)
    BY <1>1 DEF Group
  <2>2. d \in Reach(CallEdges, d)
    BY <1>1, <2>1, ReachTransitive
  <2> QED BY <1>1, <2>2 DEF Group
<1>3. ASSUME NEW p \in group, NEW q \in group PROVE p \in Reach(CallEdges, q)
  <2>1. p \in Reach(CallEdges, d) /\ d \in Reach(CallEdges, q)
    BY <1>1, <1>3 DEF Group
  <2> QED BY <1>1, <1>2, <1>3, <2>1, ReachTransitive
<1>4. ASSUME NEW i \in I PROVE MeasureOf(frames[i]) \in Integers_
  <2>1. frames[i] \in FrameType /\ frames[i].function \in group
    BY <1>2, <1>4 DEF RunInv
  <2>2. /\ frames[i].function \in V
        /\ frames[i].arguments \in [DOMAIN program.functions[frames[i].function].params -> Integers_]
    BY <2>1 DEF FrameType, Frame
  <2>3. frames[i].function \notin Unproven(program)
    OBVIOUS
  <2>4. frames[i].function \in Group(CallEdges, frames[i].function)
    BY <1>1, <1>3, <2>1, <2>2 DEF Group
  <2>5. Measured(program.functions[frames[i].function])
    BY <2>2, <2>3, <2>4 DEF Unproven, Proven, CallEdges
  <2>6. Measure(program.functions[frames[i].function]) \in DOMAIN program.functions[frames[i].function].params
    BY <2>2, <2>5, MeasureIs DEF RunInv
  <2> QED BY <2>2, <2>6 DEF MeasureOf
<1>5. ASSUME NEW i \in I, NEW j \in I, i < j PROVE MeasureOf(frames[j]) < MeasureOf(frames[i])
  <2>1. frames[i].function \in Reach(CallEdges, frames[j].function)
    BY <1>2, <1>3
  <2> QED BY <1>1, <1>5, <2>1 DEF RunInv, Sinking
<1>6. I \subseteq Int
  <2>1. DOMAIN frames = 1..Len(frames) /\ Len(frames) \in Nat
    BY DEF RunInv
  <2> QED BY <2>1
<1>7. m \in Injection(I, Integers_)
  <2>1. m \in [I -> Integers_]
    BY <1>4
  <2>2. ASSUME NEW i \in I, NEW j \in I, m[i] = m[j] PROVE i = j
    <3> SUFFICES ASSUME i # j PROVE FALSE
      OBVIOUS
    <3>1. i \in Int /\ j \in Int /\ (i < j \/ j < i)
      BY <1>6
    <3>2. /\ MeasureOf(frames[i]) \in Int /\ MeasureOf(frames[j]) \in Int
          /\ m[i] = MeasureOf(frames[i]) /\ m[j] = MeasureOf(frames[j])
      BY <1>4, BodyAssumption DEF Integers_
    <3>3. MeasureOf(frames[i]) = MeasureOf(frames[j])
      BY <2>2, <3>2
    <3> QED BY <1>5, <3>1, <3>2, <3>3
  <2> HIDE DEF m, I
  <2> QED BY <2>1, <2>2 DEF Injection, IsInjective
<1>8. IsFiniteSet(Integers_) /\ Cardinality(Integers_) = MaximumCalls
  BY BodyAssumption, FS_Interval DEF Integers_, MaximumCalls
<1>9. Cardinality(I) <= Cardinality(Integers_)
  <2> HIDE DEF m, I
  <2> QED BY <1>7, <1>8, FS_Injection
<1> QED
  BY <1>8, <1>9 DEF NestedIn

(* A function that is on no cycle runs once at a time.                     *)
LEMMA StraightOnce ==
  ASSUME RunInv, Plain, NEW d \in DOMAIN program.functions, Group(CallEdges, d) = {}
  PROVE  NestedIn({d}) <= 1
<1> DEFINE V == DOMAIN program.functions
           I == {i \in DOMAIN frames : frames[i].function \in {d}}
<1>1. /\ CallEdges \in [V -> SUBSET V]
      /\ \A n : ReachableFrom(CallEdges, n) = Reach(CallEdges, n)
      /\ DOMAIN CallEdges = V
  BY PlainGraph DEF RunInv
<1>2. d \notin Reach(CallEdges, d)
  BY <1>1 DEF Group
<1>3. DOMAIN frames = 1..Len(frames) /\ Len(frames) \in Nat
  BY DEF RunInv
<1>4. ASSUME NEW i \in I, NEW j \in I PROVE ~ (i < j)
  BY <1>1, <1>2 DEF RunInv, Chained
<1>5. ASSUME NEW i \in I, NEW j \in I PROVE i = j
  <2>1. i \in Int /\ j \in Int
    BY <1>3
  <2>2. ~ (i < j) /\ ~ (j < i)
    BY <1>4
  <2> QED BY <2>1, <2>2
<1>6. I = {} \/ \E i : I = {i}
  <2>1. CASE I # {}
    <3>1. PICK i : i \in I
      BY <2>1
    <3>2. I = {i}
      BY <1>5, <3>1
    <3> QED BY <3>2
  <2> QED BY <2>1
<1>7. Cardinality(I) <= 1
  <2> HIDE DEF I
  <2>1. CASE I = {}
    BY <2>1, FS_EmptySet
  <2>2. CASE \E i : I = {i}
    BY <2>2, FS_Singleton
  <2> QED BY <1>6, <2>1, <2>2
<1> QED
  BY <1>7 DEF NestedIn

(* In a program without an unproven cycle no run nests the functions of a  *)
(* cycle deeper than its proven bound, and others not at all.              *)
THEOREM ProvenCyclesEnd == RunSpec => []CyclesEnd
<1>1. ASSUME RunInv PROVE CyclesEnd
  <2> SUFFICES ASSUME Plain, concluded.unproven = {}, NEW d \in DOMAIN program.functions
               PROVE  NestedIn({d} \cup concluded.groups[d])
                        <= IF concluded.groups[d] = {} THEN 1 ELSE MaximumCalls
    BY DEF CyclesEnd
  <2>1. concluded.groups[d] = Group(CallEdges, d) /\ Unproven(program) = {}
    BY <1>1 DEF RunInv, Conclusions, CallEdges
  <2>2. CASE Group(CallEdges, d) = {}
    <3>1. {d} \cup {} = {d}
      OBVIOUS
    <3> QED BY <1>1, <2>1, <2>2, <3>1, StraightOnce
  <2>3. CASE Group(CallEdges, d) # {}
    BY <1>1, <2>1, <2>3, CycleBounded
  <2> QED BY <2>2, <2>3
<1> QED
  BY <1>1, RunsStay, PTL

-----------------------------------------------------------------------------
(***************************************************************************)
(* The image that a constructor built.                                     *)
(***************************************************************************)

Evaluation == [op: {"build", "apply", "gather", "constant"}, kind: STRING, at: Nat \ {0},
               from: Seq(Nat)]

IsHandle(i) == constructor[i].op \in {"build", "constant"}

Id(i) == IF IsBuild(i) THEN <<constructor[i].at, constructor[i].kind>>
         ELSE <<0, constructor[i].kind>>

(* The value that a step makes.                                            *)
ValueOf(i) ==
  CASE IsHandle(i) -> [tag |-> "handle", kind |-> constructor[i].kind, identity |-> Id(i)]
    [] constructor[i].op = "apply"  ->
         [tag |-> "test", kind |-> constructor[i].kind, items |-> constructor[i].from]
    [] constructor[i].op = "gather" -> [tag |-> "group", items |-> constructor[i].from]

(* What a value has in it, up to what is built.                            *)
AllIn(i)  == {i} \cup (IF IsBuild(i) THEN {} ELSE Inside[i])
Handles(S) == {Id(k) : k \in {k \in S : IsHandle(k)}}
Applies(S) == {k \in S : constructor[k].op = "apply"}

Construction(b) == [identity |-> Id(b), kind |-> constructor[b].kind, edges |-> Handles(Inside[b])]

(* The steps that built something so far.                                  *)
Raised == {b \in Builds : b <= Len(values)}

ValuesMade ==
  /\ values \in Seq({ValueOf(i) : i \in DOMAIN constructor}) /\ Len(values) <= Len(constructor)
  /\ \A i \in 1..Len(values) : values[i] = ValueOf(i)

Recorded ==
  /\ constructions \in Seq({Construction(b) : b \in Builds})
  /\ \A p, q \in DOMAIN constructions :
       constructions[p].identity = constructions[q].identity => p = q
  /\ \A p \in DOMAIN constructions : \E b \in Raised : constructions[p] = Construction(b)
  /\ \A b \in Raised : \E p \in DOMAIN constructions : constructions[p] = Construction(b)
  /\ \A b, d \in Raised : Id(b) = Id(d) => b = d

(* Every application is that of a test in a Test, and has its turn with    *)
(* the Test; there is one at least for each.                               *)
Origins(w) ==
  /\ \A p \in DOMAIN applications : w[p] \in Holders(applications[p]) /\ w[p][1] \in Raised
  /\ \A test \in STRING : \A h \in Holders(test) :
       h[1] \in Raised => \E p \in DOMAIN applications : w[p] = h /\ applications[p] = test
  /\ \A p, q \in DOMAIN applications : p < q => w[p][1] <= w[q][1]

ApplicationsListed == applications \in Seq(STRING) /\ \E w : Origins(w)

SealInv ==
  /\ constructor \in Constructors
  /\ ValuesMade /\ Recorded /\ ApplicationsListed
  /\ SealExact

-----------------------------------------------------------------------------
(***************************************************************************)
(* What is computed along the steps of an evaluation.                      *)
(***************************************************************************)

LEMMA Evaluations ==
  ASSUME constructor \in Constructors
  PROVE  /\ Len(constructor) \in Nat \ {0} /\ DOMAIN constructor = 1..Len(constructor)
         /\ \A i \in DOMAIN constructor :
              /\ constructor[i].op \in {"build", "apply", "gather", "constant"}
              /\ constructor[i].kind \in STRING /\ constructor[i].at \in Nat \ {0}
              /\ constructor[i].from \in Seq(Nat)
              /\ Uses(i) \in SUBSET (1..(i - 1))
              /\ constructor[i].op = "constant" => Uses(i) = {}
         /\ constructor[Len(constructor)].op \in {"build", "constant"}
<1>1. /\ constructor \in Seq(Evaluation) /\ constructor # <<>>
      /\ Last(constructor).op \in {"build", "constant"}
      /\ \A i \in DOMAIN constructor :
           /\ ToSet(constructor[i].from) \subseteq 1..(i - 1)
           /\ constructor[i].op = "constant" => constructor[i].from = <<>>
  BY ConstructorAssumption DEF Evaluation
<1>2. Len(constructor) \in Nat \ {0} /\ DOMAIN constructor = 1..Len(constructor)
  BY <1>1
<1>3. ASSUME NEW i \in DOMAIN constructor
      PROVE  /\ constructor[i].op \in {"build", "apply", "gather", "constant"}
             /\ constructor[i].kind \in STRING /\ constructor[i].at \in Nat \ {0}
             /\ constructor[i].from \in Seq(Nat)
             /\ Uses(i) \in SUBSET (1..(i - 1))
             /\ constructor[i].op = "constant" => Uses(i) = {}
  <2>1. constructor[i] \in Evaluation
    BY <1>1
  <2>2. constructor[i].op = "constant" => Uses(i) = {}
    BY <1>1 DEF Uses, ToSet
  <2> QED BY <1>1, <2>1, <2>2 DEF Evaluation, Uses
<1> QED
  BY <1>1, <1>2, <1>3 DEF Last

(* Sets that are collected from earlier numbers.                           *)
Unites(f, n, base, of) == f = [i \in 1..n |-> base[i] \cup UNION {f[k] : k \in of[i]}]

LEMMA UnionsExist ==
  ASSUME NEW n \in Nat, NEW base, NEW of, \A i \in 1..n : of[i] \subseteq 1..(i - 1)
  PROVE  \E f : Unites(f, n, base, of)
<1> DEFINE G == {m \in 0..n : \E f : Unites(f, m, base, of)}
<1>1. 0 \in G
  <2>1. Unites([i \in 1..0 |-> base[i]], 0, base, of)
    BY DEF Unites
  <2> QED BY <2>1
<1>2. ASSUME NEW m \in 1..n, m - 1 \in G PROVE m \in G
  <2>1. PICK f : Unites(f, m - 1, base, of)
    BY <1>2
  <2> DEFINE new == base[m] \cup UNION {f[k] : k \in of[m]}
             h   == [i \in 1..m |-> IF i = m THEN new ELSE f[i]]
  <2>2. ASSUME NEW i \in 1..m PROVE h[i] = base[i] \cup UNION {h[k] : k \in of[i]}
    <3>1. of[i] \subseteq 1..(i - 1)
      BY <1>2
    <3>2. \A k \in of[i] : h[k] = f[k]
      BY <1>2, <3>1
    <3>3. CASE i = m
      BY <1>2, <3>2, <3>3
    <3>4. CASE i # m
      <4>1. i \in 1..(m - 1) /\ h[i] = f[i]
        BY <1>2, <3>4
      <4>2. f[i] = base[i] \cup UNION {f[k] : k \in of[i]}
        BY <2>1, <4>1 DEF Unites
      <4> QED BY <3>2, <4>1, <4>2
    <3> QED BY <3>3, <3>4
  <2>3. Unites(h, m, base, of)
    <3>1. h = [i \in 1..m |-> h[i]]
      OBVIOUS
    <3> HIDE DEF h
    <3>2. [i \in 1..m |-> h[i]] = [i \in 1..m |-> base[i] \cup UNION {h[k] : k \in of[i]}]
      BY <2>2
    <3> QED BY <3>1, <3>2 DEF Unites
  <2> QED BY <1>2, <2>3
<1> HIDE DEF G
<1>3. n \in G
  BY <1>1, <1>2, Upto
<1> QED
  BY <1>3 DEF G

(***************************************************************************)
(* What goes into what.                                                    *)
(***************************************************************************)

LEMMA InsideLaw ==
  ASSUME constructor \in Constructors
  PROVE  \A i \in DOMAIN constructor :
           Inside[i] = Uses(i) \cup UNION {Inside[k] : k \in {k \in Uses(i) : ~ IsBuild(k)}}
<1> DEFINE n    == Len(constructor)
           body(f, i) == Uses(i) \cup UNION {f[k] : k \in {k \in Uses(i) : ~ IsBuild(k)}}
           base == [i \in 1..n |-> Uses(i)]
           of   == [i \in 1..n |-> {k \in Uses(i) : ~ IsBuild(k)}]
<1>1. n \in Nat /\ DOMAIN constructor = 1..n /\ \A i \in 1..n : of[i] \subseteq 1..(i - 1)
  BY Evaluations
<1>2. \E f : Unites(f, n, base, of)
  <2> HIDE DEF n, base, of
  <2> QED BY <1>1, UnionsExist
<1>3. \E f : f = [i \in DOMAIN constructor |-> body(f, i)]
  <2>1. PICK f : Unites(f, n, base, of)
    BY <1>2
  <2>2. f = [i \in 1..n |-> base[i] \cup UNION {f[k] : k \in of[i]}]
    BY <2>1 DEF Unites
  <2>3. \A i \in 1..n : base[i] \cup UNION {f[k] : k \in of[i]} = body(f, i)
    OBVIOUS
  <2>4. [i \in 1..n |-> base[i] \cup UNION {f[k] : k \in of[i]}] = [i \in 1..n |-> body(f, i)]
    <3> HIDE DEF base, of, body
    <3> QED BY <2>3
  <2> HIDE DEF base, of, body, n
  <2> QED BY <1>1, <2>2, <2>4
<1>4. Inside = [i \in DOMAIN constructor |-> body(Inside, i)]
  <2> Inside = CHOOSE f : f = [i \in DOMAIN constructor |-> body(f, i)]
    BY DEF Inside
  <2> HIDE DEF body
  <2> QED BY <1>3
<1> QED
  BY <1>4

LEMMA PartsLaw ==
  ASSUME constructor \in Constructors
  PROVE  \A i \in DOMAIN constructor : Parts[i] = Uses(i) \cup UNION {Parts[k] : k \in Uses(i)}
<1> DEFINE n    == Len(constructor)
           body(f, i) == Uses(i) \cup UNION {f[k] : k \in Uses(i)}
           base == [i \in 1..n |-> Uses(i)]
<1>1. n \in Nat /\ DOMAIN constructor = 1..n /\ \A i \in 1..n : base[i] \subseteq 1..(i - 1)
  BY Evaluations
<1>2. \E f : Unites(f, n, base, base)
  <2> HIDE DEF n, base
  <2> QED BY <1>1, UnionsExist
<1>3. \E f : f = [i \in DOMAIN constructor |-> body(f, i)]
  <2>1. PICK f : Unites(f, n, base, base)
    BY <1>2
  <2>2. f = [i \in 1..n |-> base[i] \cup UNION {f[k] : k \in base[i]}]
    BY <2>1 DEF Unites
  <2>3. \A i \in 1..n : base[i] \cup UNION {f[k] : k \in base[i]} = body(f, i)
    OBVIOUS
  <2>4. [i \in 1..n |-> base[i] \cup UNION {f[k] : k \in base[i]}] = [i \in 1..n |-> body(f, i)]
    <3> HIDE DEF base, body
    <3> QED BY <2>3
  <2> HIDE DEF base, body, n
  <2> QED BY <1>1, <2>2, <2>4
<1>4. Parts = [i \in DOMAIN constructor |-> body(Parts, i)]
  <2> Parts = CHOOSE f : f = [i \in DOMAIN constructor |-> body(f, i)]
    BY DEF Parts
  <2> HIDE DEF body
  <2> QED BY <1>3
<1> QED
  BY <1>4

(* Both come before.                                                       *)
LEMMA Before ==
  ASSUME constructor \in Constructors
  PROVE  \A i \in DOMAIN constructor : Inside[i] \subseteq 1..(i - 1) /\ Parts[i] \subseteq 1..(i - 1)
<1> DEFINE Bad == {i \in DOMAIN constructor : ~ (Inside[i] \subseteq 1..(i - 1) /\ Parts[i] \subseteq 1..(i - 1))}
<1> SUFFICES ASSUME Bad # {} PROVE FALSE
  OBVIOUS
<1>1. DOMAIN constructor = 1..Len(constructor) /\ Len(constructor) \in Nat
      /\ \A i \in DOMAIN constructor : Uses(i) \in SUBSET (1..(i - 1))
  BY Evaluations
<1>2. PICK i \in Bad : \A j \in Bad : i <= j
  <2>1. Bad \subseteq Nat
    BY <1>1
  <2> HIDE DEF Bad
  <2> QED BY <2>1, LeastNumber
<1>3. \A k \in Uses(i) : k \in 1..(i - 1) /\ Inside[k] \subseteq 1..(k - 1) /\ Parts[k] \subseteq 1..(k - 1)
  BY <1>1, <1>2
<1>4. \A k \in Uses(i) : Inside[k] \subseteq 1..(i - 1) /\ Parts[k] \subseteq 1..(i - 1)
  BY <1>1, <1>2, <1>3
<1>5. Inside[i] \subseteq 1..(i - 1)
  BY <1>1, <1>4, InsideLaw
<1>6. Parts[i] \subseteq 1..(i - 1)
  BY <1>1, <1>4, PartsLaw
<1> QED
  BY <1>2, <1>5, <1>6

LEMMA InsideWithin ==
  ASSUME constructor \in Constructors, NEW i \in DOMAIN constructor
  PROVE  Inside[i] = UNION {AllIn(k) : k \in Uses(i)}
BY InsideLaw DEF AllIn

-----------------------------------------------------------------------------
(***************************************************************************)
(* What the values hold.                                                   *)
(***************************************************************************)

LEMMA Values ==
  ASSUME constructor \in Constructors, ValuesMade
  PROVE  /\ Len(values) \in Nat /\ Len(values) <= Len(constructor)
         /\ DOMAIN values = 1..Len(values) /\ 1..Len(values) \subseteq DOMAIN constructor
         /\ \A i \in 1..Len(values) :
              /\ values[i] = ValueOf(i)
              /\ values[i].tag = "handle" <=> IsHandle(i)
              /\ values[i].tag = "test" <=> constructor[i].op = "apply"
              /\ IsHandle(i) => values[i].identity = Id(i) /\ values[i].kind = constructor[i].kind
              /\ ~ IsHandle(i) => values[i].items = constructor[i].from
              /\ values[i].tag = "test" => values[i].kind = constructor[i].kind
<1>1. /\ Len(values) \in Nat /\ Len(values) <= Len(constructor) /\ DOMAIN values = 1..Len(values)
      /\ \A i \in 1..Len(values) : values[i] = ValueOf(i)
  BY DEF ValuesMade
<1>2. 1..Len(values) \subseteq DOMAIN constructor
  BY <1>1, Evaluations
<1>3. ASSUME NEW i \in 1..Len(values)
      PROVE  /\ values[i].tag = "handle" <=> IsHandle(i)
             /\ values[i].tag = "test" <=> constructor[i].op = "apply"
             /\ IsHandle(i) => values[i].identity = Id(i) /\ values[i].kind = constructor[i].kind
             /\ ~ IsHandle(i) => values[i].items = constructor[i].from
             /\ values[i].tag = "test" => values[i].kind = constructor[i].kind
  <2>1. values[i] = ValueOf(i) /\ constructor[i].op \in {"build", "apply", "gather", "constant"}
    BY <1>1, <1>2, Evaluations
  <2>2. CASE IsHandle(i)
    <3>1. values[i] = [tag |-> "handle", kind |-> constructor[i].kind, identity |-> Id(i)]
      BY <2>1, <2>2 DEF ValueOf, IsHandle
    <3> QED BY <2>2, <3>1 DEF IsHandle
  <2>3. CASE constructor[i].op = "apply"
    <3>1. values[i] = [tag |-> "test", kind |-> constructor[i].kind, items |-> constructor[i].from]
      BY <2>1, <2>3 DEF ValueOf, IsHandle
    <3> QED BY <2>3, <3>1 DEF IsHandle
  <2>4. CASE constructor[i].op = "gather"
    <3>1. values[i] = [tag |-> "group", items |-> constructor[i].from]
      BY <2>1, <2>4 DEF ValueOf, IsHandle
    <3> QED BY <2>4, <3>1 DEF IsHandle
  <2> QED BY <2>1, <2>2, <2>3, <2>4 DEF IsHandle
<1> QED
  BY <1>1, <1>2, <1>3

LEMMA EdgesOfLaw ==
  ASSUME constructor \in Constructors, ValuesMade
  PROVE  \A i \in 1..Len(values) :
           EdgesOf[i] = IF IsHandle(i) THEN {Id(i)} ELSE UNION {EdgesOf[k] : k \in Uses(i)}
<1> DEFINE n    == Len(values)
           body(f, i) == IF values[i].tag = "handle" THEN {values[i].identity}
                         ELSE UNION {f[k] : k \in ToSet(values[i].items)}
           base == [i \in 1..n |-> IF IsHandle(i) THEN {Id(i)} ELSE {}]
           of   == [i \in 1..n |-> IF IsHandle(i) THEN {} ELSE Uses(i)]
<1>1. n \in Nat /\ DOMAIN values = 1..n /\ \A i \in 1..n : of[i] \subseteq 1..(i - 1)
  BY Evaluations, Values
<1>2. \E f : Unites(f, n, base, of)
  <2> HIDE DEF n, base, of
  <2> QED BY <1>1, UnionsExist
<1>3. ASSUME NEW f, NEW i \in 1..n
      PROVE  body(f, i) = IF IsHandle(i) THEN {Id(i)} ELSE UNION {f[k] : k \in Uses(i)}
  BY Values DEF Uses
<1>4. ASSUME NEW f, NEW i \in 1..n
      PROVE  base[i] \cup UNION {f[k] : k \in of[i]} = body(f, i)
  <2>1. base[i] \cup UNION {f[k] : k \in of[i]}
          = IF IsHandle(i) THEN {Id(i)} ELSE UNION {f[k] : k \in Uses(i)}
    OBVIOUS
  <2> HIDE DEF base, of, body
  <2> QED BY <1>3, <2>1
<1>5. \E f : f = [i \in DOMAIN values |-> body(f, i)]
  <2>1. PICK f : Unites(f, n, base, of)
    BY <1>2
  <2>2. f = [i \in 1..n |-> base[i] \cup UNION {f[k] : k \in of[i]}]
    BY <2>1 DEF Unites
  <2>3. [i \in 1..n |-> base[i] \cup UNION {f[k] : k \in of[i]}] = [i \in 1..n |-> body(f, i)]
    <3> HIDE DEF base, of, body
    <3> QED BY <1>4
  <2> HIDE DEF base, of, body, n
  <2> QED BY <1>1, <2>2, <2>3
<1>6. EdgesOf = [i \in DOMAIN values |-> body(EdgesOf, i)]
  <2> EdgesOf = CHOOSE f : f = [i \in DOMAIN values |-> body(f, i)]
    BY DEF EdgesOf
  <2> HIDE DEF body
  <2> QED BY <1>5
<1> HIDE DEF body
<1> QED
  BY <1>1, <1>3, <1>6

(* The edges are the handles of what a value holds.                        *)
LEMMA EdgesAre ==
  ASSUME constructor \in Constructors, ValuesMade
  PROVE  \A i \in 1..Len(values) : EdgesOf[i] = Handles(AllIn(i))
<1> DEFINE Bad == {i \in 1..Len(values) : EdgesOf[i] # Handles(AllIn(i))}
<1> SUFFICES ASSUME Bad # {} PROVE FALSE
  OBVIOUS
<1>1. PICK i \in Bad : \A j \in Bad : i <= j
  <2>1. Bad \subseteq Nat
    BY Values
  <2> HIDE DEF Bad
  <2> QED BY <2>1, LeastNumber
<1>2. i \in 1..Len(values) /\ i \in DOMAIN constructor /\ Len(values) \in Nat
  BY Values
<1>3. EdgesOf[i] = IF IsHandle(i) THEN {Id(i)} ELSE UNION {EdgesOf[k] : k \in Uses(i)}
  BY <1>2, EdgesOfLaw
<1>4. \A k \in Uses(i) : EdgesOf[k] = Handles(AllIn(k))
  <2>1. Uses(i) \subseteq 1..(i - 1)
    BY <1>2, Evaluations
  <2> QED BY <1>1, <1>2, <2>1
<1>5. CASE IsHandle(i)
  <2>1. Handles(AllIn(i)) = {Id(i)}
    <3>1. CASE IsBuild(i)
      <4>1. AllIn(i) = {i}
        BY <3>1 DEF AllIn
      <4> QED BY <1>5, <4>1 DEF Handles
    <3>2. CASE ~ IsBuild(i)
      <4>1. Uses(i) = {}
        BY <1>2, <1>5, <3>2, Evaluations DEF IsHandle, IsBuild
      <4>2. AllIn(i) = {i}
        BY <1>2, <4>1, InsideWithin DEF AllIn
      <4> QED BY <1>5, <4>2 DEF Handles
    <3> QED BY <3>1, <3>2
  <2> QED BY <1>1, <1>3, <1>5, <2>1
<1>6. CASE ~ IsHandle(i)
  <2>1. AllIn(i) = {i} \cup UNION {AllIn(k) : k \in Uses(i)}
    <3>1. ~ IsBuild(i)
      BY <1>6 DEF IsHandle, IsBuild
    <3>2. AllIn(i) = {i} \cup Inside[i]
      BY <3>1 DEF AllIn
    <3> QED BY <1>2, <3>2, InsideWithin
  <2>2. Handles(AllIn(i)) = UNION {Handles(AllIn(k)) : k \in Uses(i)}
    <3> DEFINE W == [k \in Uses(i) |-> AllIn(k)]
    <3>1. AllIn(i) = {i} \cup UNION {W[k] : k \in Uses(i)}
      BY <2>1
    <3>2. UNION {Handles(AllIn(k)) : k \in Uses(i)} = UNION {Handles(W[k]) : k \in Uses(i)}
      OBVIOUS
    <3> HIDE DEF W
    <3>3. Handles({i} \cup UNION {W[k] : k \in Uses(i)}) = UNION {Handles(W[k]) : k \in Uses(i)}
      BY <1>6 DEF Handles
    <3> QED BY <3>1, <3>2, <3>3
  <2> QED BY <1>1, <1>3, <1>4, <1>6, <2>2
<1> QED
  BY <1>5, <1>6

(* What goes into the next step.                                           *)
LEMMA EdgesInside ==
  ASSUME constructor \in Constructors, ValuesMade,
         NEW i \in DOMAIN constructor, i = Len(values) + 1
  PROVE  Edges(constructor[i].from) = Handles(Inside[i])
<1>1. Uses(i) \subseteq 1..Len(values)
  BY Evaluations, Values
<1>2. Edges(constructor[i].from) = UNION {EdgesOf[k] : k \in Uses(i)}
  BY DEF Edges, Uses
<1>3. \A k \in Uses(i) : EdgesOf[k] = Handles(AllIn(k))
  BY <1>1, EdgesAre
<1>4. Inside[i] = UNION {AllIn(k) : k \in Uses(i)}
  BY InsideWithin
<1> DEFINE W == [k \in Uses(i) |-> AllIn(k)]
<1>5. Inside[i] = UNION {W[k] : k \in Uses(i)} /\ \A k \in Uses(i) : EdgesOf[k] = Handles(W[k])
  BY <1>3, <1>4
<1> HIDE DEF W
<1>6. Handles(UNION {W[k] : k \in Uses(i)}) = UNION {Handles(W[k]) : k \in Uses(i)}
  BY DEF Handles
<1> QED
  BY <1>2, <1>5, <1>6

-----------------------------------------------------------------------------
(***************************************************************************)
(* The applications that the values hold.  A sequence of tests lists steps *)
(* that apply them: one for every position, and every step somewhere.      *)
(***************************************************************************)

ListedBy(seq, S, v) ==
  /\ \A p \in DOMAIN seq : v[p] \in S /\ constructor[v[p]].kind = seq[p]
  /\ \A k \in S : \E p \in DOMAIN seq : v[p] = k

Lists(seq, S) == seq \in Seq(STRING) /\ \E v : ListedBy(seq, S, v)

LEMMA ListsNone == Lists(<<>>, {})
<1>1. ListedBy(<<>>, {}, <<>>)
  BY DEF ListedBy
<1> QED
  BY <1>1 DEF Lists

LEMMA ListsOne ==
  ASSUME NEW k, constructor[k].kind \in STRING
  PROVE  Lists(<<constructor[k].kind>>, {k})
<1>1. ListedBy(<<constructor[k].kind>>, {k}, <<k>>)
  BY DEF ListedBy
<1> QED
  BY <1>1 DEF Lists

LEMMA ListsJoin ==
  ASSUME NEW a, NEW b, NEW S, NEW T, Lists(a, S), Lists(b, T)
  PROVE  Lists(a \o b, S \cup T)
<1>1. PICK v : ListedBy(a, S, v)
  BY DEF Lists
<1>2. PICK w : ListedBy(b, T, w)
  BY DEF Lists
<1> DEFINE n == Len(a)
           u == [p \in 1..(Len(a) + Len(b)) |-> IF p <= n THEN v[p] ELSE w[p - n]]
<1>3. /\ a \in Seq(STRING) /\ b \in Seq(STRING)
      /\ a \o b \in Seq(STRING) /\ DOMAIN (a \o b) = 1..(n + Len(b))
      /\ n \in Nat /\ Len(b) \in Nat /\ DOMAIN a = 1..n /\ DOMAIN b = 1..Len(b)
      /\ \A p \in 1..(n + Len(b)) : (a \o b)[p] = IF p <= n THEN a[p] ELSE b[p - n]
  BY DEF Lists
<1>4. ASSUME NEW p \in 1..(n + Len(b)) PROVE u[p] \in S \cup T /\ constructor[u[p]].kind = (a \o b)[p]
  <2>1. CASE p <= n
    <3>1. p \in DOMAIN a /\ u[p] = v[p] /\ (a \o b)[p] = a[p]
      BY <1>3, <2>1
    <3> QED BY <1>1, <3>1 DEF ListedBy
  <2>2. CASE ~ (p <= n)
    <3>1. p - n \in DOMAIN b /\ u[p] = w[p - n] /\ (a \o b)[p] = b[p - n]
      BY <1>3, <2>2
    <3> QED BY <1>2, <3>1 DEF ListedBy
  <2> QED BY <2>1, <2>2
<1>5. ASSUME NEW k \in S \cup T PROVE \E p \in 1..(n + Len(b)) : u[p] = k
  <2>1. CASE k \in S
    <3>1. PICK p \in 1..n : v[p] = k
      BY <1>1, <1>3, <2>1 DEF ListedBy
    <3>2. p \in 1..(n + Len(b)) /\ u[p] = k
      BY <1>3, <3>1
    <3> QED BY <3>2
  <2>2. CASE k \in T
    <3>1. PICK p \in 1..Len(b) : w[p] = k
      BY <1>2, <1>3, <2>2 DEF ListedBy
    <3>2. p + n \in 1..(n + Len(b)) /\ ~ (p + n <= n) /\ (p + n) - n = p
      BY <1>3, <3>1
    <3>3. u[p + n] = k
      BY <3>1, <3>2
    <3> QED BY <3>2, <3>3
  <2> QED BY <2>1, <2>2
<1> HIDE DEF u
<1>6. ListedBy(a \o b, S \cup T, u)
  BY <1>3, <1>4, <1>5 DEF ListedBy
<1> QED
  BY <1>3, <1>6 DEF Lists

LEMMA ListsFlatten ==
  ASSUME NEW n \in Nat, NEW s, s = [m \in 1..n |-> s[m]], NEW sets,
         \A m \in 1..n : Lists(s[m], sets[m])
  PROVE  Lists(FlattenSeq(s), UNION {sets[m] : m \in 1..n})
<1> DEFINE t(k) == [m \in 1..k |-> s[m]]
           G    == {k \in 0..n : Lists(FlattenSeq(t(k)), UNION {sets[m] : m \in 1..k})}
<1>1. \A m \in 1..n : s[m] \in Seq(ToSet(s[m]))
  BY DEF Lists, ToSet
<1>2. 0 \in G
  <2> DEFINE e == t(0)
  <2>1. e = [m \in 1..0 |-> e[m]] /\ \A m \in 1..0 : e[m] \in Seq(ToSet(e[m]))
    OBVIOUS
  <2> HIDE DEF e
  <2>2. FlattenSeq(e) = <<>>
    BY <2>1, 0 \in Nat, FlattenLast
  <2>3. UNION {sets[m] : m \in 1..0} = {}
    OBVIOUS
  <2>4. Lists(FlattenSeq(e), UNION {sets[m] : m \in 1..0})
    BY <2>2, <2>3, ListsNone
  <2> QED BY <2>4 DEF e
<1>3. ASSUME NEW k \in 1..n, k - 1 \in G PROVE k \in G
  <2> DEFINE e == t(k)
             d == t(k - 1)
             A == UNION {sets[m] : m \in 1..(k - 1)}
  <2>1. /\ e = [m \in 1..k |-> e[m]] /\ \A m \in 1..k : e[m] = s[m]
        /\ d = [m \in 1..(k - 1) |-> e[m]]
    OBVIOUS
  <2>2. Lists(FlattenSeq(d), A)
    BY <1>3
  <2> HIDE DEF e, d, A, t, G
  <2>3. k \in Nat /\ k \in 1..k /\ k > 0 /\ 1..k \subseteq 1..n
    OBVIOUS
  <2>4. \A m \in 1..k : e[m] \in Seq(ToSet(e[m]))
    BY <1>1, <2>1, <2>3
  <2>5. FlattenSeq(e) = FlattenSeq([m \in 1..(k - 1) |-> e[m]]) \o e[k]
    BY <2>1, <2>3, <2>4, FlattenLast
  <2>6. FlattenSeq(e) = FlattenSeq(d) \o e[k]
    BY <2>1, <2>5
  <2>7. Lists(e[k], sets[k])
    BY <2>1, <2>3
  <2>8. Lists(FlattenSeq(e), A \cup sets[k])
    BY <2>2, <2>6, <2>7, ListsJoin
  <2>9. A \cup sets[k] = UNION {sets[m] : m \in 1..k}
    BY <2>3, 1..k = 1..(k - 1) \cup {k} DEF A
  <2>10. Lists(FlattenSeq(e), UNION {sets[m] : m \in 1..k})
    <3> DEFINE B == UNION {sets[m] : m \in 1..k}
    <3>1. B = A \cup sets[k]
      BY <2>9
    <3> HIDE DEF B
    <3>2. Lists(FlattenSeq(e), B)
      BY <2>8, <3>1
    <3> QED BY <3>2 DEF B
  <2>11. k \in 0..n
    OBVIOUS
  <2> QED BY <2>10, <2>11 DEF G, e
<1>4. n \in G
  <2> HIDE DEF G
  <2> QED BY <1>2, <1>3, Upto
<1>5. t(n) = s
  OBVIOUS
<1> QED
  BY <1>4, <1>5

LEMMA ApplicationsOfLaw ==
  ASSUME constructor \in Constructors, ValuesMade
  PROVE  \A i \in 1..Len(values) :
           ApplicationsOf[i] =
             IF IsHandle(i) THEN <<>>
             ELSE (IF constructor[i].op = "apply" THEN <<constructor[i].kind>> ELSE <<>>)
                  \o FlattenSeq([n \in DOMAIN constructor[i].from |-> ApplicationsOf[constructor[i].from[n]]])
<1> DEFINE own(i)    == IF constructor[i].op = "apply" THEN <<constructor[i].kind>> ELSE <<>>
           parts(f, i) == [n \in DOMAIN constructor[i].from |-> f[constructor[i].from[n]]]
           law(f, i) == IF IsHandle(i) THEN <<>> ELSE own(i) \o FlattenSeq(parts(f, i))
           body(f, i) == IF values[i].tag = "handle" THEN <<>>
                         ELSE (IF values[i].tag = "test" THEN <<values[i].kind>> ELSE <<>>)
                              \o FlattenSeq([n \in DOMAIN values[i].items |-> f[values[i].items[n]]])
           G == {m \in 0..Len(values) : \E f : f = [i \in 1..m |-> law(f, i)]}
<1>1. /\ Len(values) \in Nat /\ DOMAIN values = 1..Len(values)
      /\ \A i \in 1..Len(values) : i \in DOMAIN constructor /\ Uses(i) \subseteq 1..(i - 1)
  BY Evaluations, Values
<1>2. ASSUME NEW f, NEW i \in 1..Len(values) PROVE body(f, i) = law(f, i)
  <2>1. CASE IsHandle(i)
    BY <2>1, Values
  <2>2. CASE ~ IsHandle(i)
    <3>1. /\ values[i].tag # "handle" /\ values[i].items = constructor[i].from
          /\ values[i].tag = "test" <=> constructor[i].op = "apply"
          /\ values[i].tag = "test" => values[i].kind = constructor[i].kind
      BY <2>2, Values
    <3>2. [n \in DOMAIN values[i].items |-> f[values[i].items[n]]] = parts(f, i)
      BY <3>1
    <3>3. (IF values[i].tag = "test" THEN <<values[i].kind>> ELSE <<>>) = own(i)
      BY <3>1
    <3> HIDE DEF own, parts
    <3> QED BY <2>2, <3>1, <3>2, <3>3
  <2> QED BY <2>1, <2>2
<1>3. 0 \in G
  <2>1. [i \in 1..0 |-> law(<<>>, i)] = <<>>
    OBVIOUS
  <2> HIDE DEF law
  <2>2. 0 \in 0..Len(values)
    BY <1>1
  <2> QED BY <2>1, <2>2
<1>4. ASSUME NEW m \in 1..Len(values), m - 1 \in G PROVE m \in G
  <2>1. PICK f : f = [i \in 1..(m - 1) |-> law(f, i)]
    BY <1>4
  <2> DEFINE h == [i \in 1..m |-> IF i = m THEN law(f, m) ELSE f[i]]
  <2>2. ASSUME NEW i \in 1..m PROVE law(h, i) = law(f, i)
    <3>1. \A n \in DOMAIN constructor[i].from : constructor[i].from[n] \in 1..(i - 1)
      BY <1>1 DEF Uses, ToSet
    <3>2. \A n \in DOMAIN constructor[i].from : h[constructor[i].from[n]] = f[constructor[i].from[n]]
      <4> SUFFICES ASSUME NEW n \in DOMAIN constructor[i].from
                   PROVE  h[constructor[i].from[n]] = f[constructor[i].from[n]]
        OBVIOUS
      <4>1. constructor[i].from[n] \in 1..m /\ constructor[i].from[n] # m
        BY <1>1, <3>1
      <4> HIDE DEF law
      <4> QED BY <4>1
    <3> HIDE DEF h
    <3>3. parts(h, i) = parts(f, i)
      BY <3>2
    <3> HIDE DEF parts, own
    <3> QED BY <3>3
  <2> HIDE DEF law
  <2>3. ASSUME NEW i \in 1..m PROVE h[i] = law(h, i)
    <3>1. CASE i = m
      BY <2>2, <3>1
    <3>2. CASE i # m
      <4>1. i \in 1..(m - 1)
        BY <1>1, <3>2
      <4>2. h[i] = f[i] /\ f[i] = law(f, i)
        BY <2>1, <3>2, <4>1
      <4> QED BY <2>2, <4>2
    <3> QED BY <3>1, <3>2
  <2>4. h = [i \in 1..m |-> h[i]]
    OBVIOUS
  <2> HIDE DEF h
  <2>5. h = [i \in 1..m |-> law(h, i)]
    BY <2>3, <2>4
  <2>6. m \in 0..Len(values)
    BY <1>1
  <2> QED BY <2>5, <2>6
<1>5. Len(values) \in G
  <2> HIDE DEF G
  <2> QED BY <1>1, <1>3, <1>4, Upto
<1>6. \E f : f = [i \in DOMAIN values |-> body(f, i)]
  <2>1. PICK f : f = [i \in 1..Len(values) |-> law(f, i)]
    BY <1>5
  <2> HIDE DEF law, body
  <2>2. [i \in 1..Len(values) |-> law(f, i)] = [i \in 1..Len(values) |-> body(f, i)]
    BY <1>2
  <2> QED BY <1>1, <2>1, <2>2
<1>7. ApplicationsOf = [i \in DOMAIN values |-> body(ApplicationsOf, i)]
  <2> ApplicationsOf = CHOOSE f : f = [i \in DOMAIN values |-> body(f, i)]
    BY DEF ApplicationsOf
  <2> HIDE DEF body
  <2> QED BY <1>6
<1>8. ASSUME NEW i \in 1..Len(values) PROVE ApplicationsOf[i] = law(ApplicationsOf, i)
  <2> HIDE DEF body, law
  <2> QED BY <1>1, <1>2, <1>7
<1> QED
  BY <1>8

(* The sequences for what a step uses, one after another.                  *)
LEMMA ListsUses ==
  ASSUME constructor \in Constructors, NEW i \in DOMAIN constructor, NEW f, NEW sets,
         \A k \in Uses(i) : Lists(f[k], sets[k])
  PROVE  Lists(FlattenSeq([n \in DOMAIN constructor[i].from |-> f[constructor[i].from[n]]]),
               UNION {sets[k] : k \in Uses(i)})
<1> DEFINE n  == Len(constructor[i].from)
           s  == [m \in 1..n |-> f[constructor[i].from[m]]]
           at == [m \in 1..n |-> sets[constructor[i].from[m]]]
<1>1. n \in Nat /\ DOMAIN constructor[i].from = 1..n
  BY Evaluations
<1>2. Uses(i) = {constructor[i].from[m] : m \in 1..n}
  BY <1>1 DEF Uses, ToSet
<1>3. \A m \in 1..n : Lists(s[m], at[m])
  BY <1>2
<1>4. UNION {at[m] : m \in 1..n} = UNION {sets[k] : k \in Uses(i)}
  BY <1>2
<1>5. s = [m \in 1..n |-> s[m]] /\ s = [m \in DOMAIN constructor[i].from |-> f[constructor[i].from[m]]]
  BY <1>1
<1> HIDE DEF n, s, at
<1>6. Lists(FlattenSeq(s), UNION {at[m] : m \in 1..n})
  BY <1>1, <1>3, <1>5, ListsFlatten
<1> QED
  BY <1>4, <1>5, <1>6

LEMMA HandleWithin ==
  ASSUME constructor \in Constructors, NEW i \in DOMAIN constructor, IsHandle(i)
  PROVE  AllIn(i) = {i}
<1>1. CASE IsBuild(i)
  BY <1>1 DEF AllIn
<1>2. CASE ~ IsBuild(i)
  <2>1. Uses(i) = {}
    BY <1>2, Evaluations DEF IsHandle, IsBuild
  <2> QED BY <1>2, <2>1, InsideWithin DEF AllIn
<1> QED
  BY <1>1, <1>2

LEMMA PlainWithin ==
  ASSUME constructor \in Constructors, NEW i \in DOMAIN constructor, ~ IsBuild(i)
  PROVE  AllIn(i) = {i} \cup UNION {AllIn(k) : k \in Uses(i)}
BY InsideWithin DEF AllIn

LEMMA ApplicationsAre ==
  ASSUME constructor \in Constructors, ValuesMade
  PROVE  \A i \in 1..Len(values) : Lists(ApplicationsOf[i], Applies(AllIn(i)))
<1> DEFINE Bad == {i \in 1..Len(values) : ~ Lists(ApplicationsOf[i], Applies(AllIn(i)))}
<1> SUFFICES ASSUME Bad # {} PROVE FALSE
  OBVIOUS
<1>1. PICK i \in Bad : \A j \in Bad : i <= j
  <2>1. Bad \subseteq Nat
    BY Values
  <2> HIDE DEF Bad
  <2> QED BY <2>1, LeastNumber
<1>2. i \in 1..Len(values) /\ i \in DOMAIN constructor /\ Len(values) \in Nat
  BY Values
<1>3. \A k \in Uses(i) : Lists(ApplicationsOf[k], Applies(AllIn(k)))
  <2>1. Uses(i) \subseteq 1..(i - 1)
    BY <1>2, Evaluations
  <2> QED BY <1>1, <1>2, <2>1
<1>4. CASE IsHandle(i)
  <2>1. Applies(AllIn(i)) = {}
    BY <1>2, <1>4, HandleWithin DEF Applies, IsHandle
  <2>2. ApplicationsOf[i] = <<>>
    BY <1>2, <1>4, ApplicationsOfLaw
  <2> QED BY <1>1, <2>1, <2>2, ListsNone
<1>5. CASE ~ IsHandle(i)
  <2> DEFINE own   == IF constructor[i].op = "apply" THEN <<constructor[i].kind>> ELSE <<>>
             parts == [n \in DOMAIN constructor[i].from |-> ApplicationsOf[constructor[i].from[n]]]
             sets  == [k \in Uses(i) |-> Applies(AllIn(k))]
  <2>1. ApplicationsOf[i] = own \o FlattenSeq(parts)
    BY <1>2, <1>5, ApplicationsOfLaw
  <2>2. Lists(own, Applies({i}))
    <3>1. CASE constructor[i].op = "apply"
      <4>1. Applies({i}) = {i} /\ own = <<constructor[i].kind>>
        BY <3>1 DEF Applies
      <4>2. constructor[i].kind \in STRING
        BY <1>2, Evaluations
      <4> QED BY <4>1, <4>2, ListsOne
    <3>2. CASE constructor[i].op # "apply"
      <4>1. Applies({i}) = {} /\ own = <<>>
        BY <3>2 DEF Applies
      <4> QED BY <4>1, ListsNone
    <3> QED BY <3>1, <3>2
  <2>3. \A k \in Uses(i) : Lists(ApplicationsOf[k], sets[k])
    BY <1>3
  <2>4. Applies({i}) \cup UNION {sets[k] : k \in Uses(i)} = Applies(AllIn(i))
    <3> DEFINE W == [k \in Uses(i) |-> AllIn(k)]
    <3>1. AllIn(i) = {i} \cup UNION {W[k] : k \in Uses(i)}
      <4>1. ~ IsBuild(i)
        BY <1>5 DEF IsHandle, IsBuild
      <4> QED BY <1>2, <4>1, PlainWithin
    <3>2. \A k \in Uses(i) : sets[k] = Applies(W[k])
      OBVIOUS
    <3> HIDE DEF W, sets
    <3>3. UNION {sets[k] : k \in Uses(i)} = UNION {Applies(W[k]) : k \in Uses(i)}
      BY <3>2
    <3>4. Applies({i} \cup UNION {W[k] : k \in Uses(i)})
            = Applies({i}) \cup UNION {Applies(W[k]) : k \in Uses(i)}
      BY DEF Applies
    <3> QED BY <3>1, <3>3, <3>4
  <2> HIDE DEF own, sets
  <2>5. Lists(FlattenSeq(parts), UNION {sets[k] : k \in Uses(i)})
    BY <1>2, <2>3, ListsUses
  <2> HIDE DEF parts
  <2>6. Lists(own \o FlattenSeq(parts), Applies({i}) \cup UNION {sets[k] : k \in Uses(i)})
    BY <2>2, <2>5, ListsJoin
  <2> QED BY <1>1, <2>1, <2>4, <2>6
<1> QED
  BY <1>4, <1>5

(* What a Test collects when it is built.                                  *)
LEMMA ApplicationsInside ==
  ASSUME constructor \in Constructors, ValuesMade,
         NEW i \in DOMAIN constructor, i = Len(values) + 1
  PROVE  Lists(Applications(constructor[i].from), Applies(Inside[i]))
<1> DEFINE sets == [k \in Uses(i) |-> Applies(AllIn(k))]
           W    == [k \in Uses(i) |-> AllIn(k)]
<1>1. Uses(i) \subseteq 1..Len(values)
  BY Evaluations, Values
<1>2. \A k \in Uses(i) : Lists(ApplicationsOf[k], sets[k])
  BY <1>1, ApplicationsAre
<1>3. Inside[i] = UNION {W[k] : k \in Uses(i)}
  BY InsideWithin
<1>4. \A k \in Uses(i) : sets[k] = Applies(W[k])
  OBVIOUS
<1> HIDE DEF sets, W
<1>5. UNION {sets[k] : k \in Uses(i)} = Applies(Inside[i])
  <2>1. UNION {sets[k] : k \in Uses(i)} = UNION {Applies(W[k]) : k \in Uses(i)}
    BY <1>4
  <2>2. Applies(UNION {W[k] : k \in Uses(i)}) = UNION {Applies(W[k]) : k \in Uses(i)}
    BY DEF Applies
  <2> QED BY <1>3, <2>1, <2>2
<1>6. Lists(Applications(constructor[i].from), UNION {sets[k] : k \in Uses(i)})
  BY <1>2, ListsUses DEF Applications
<1> QED
  BY <1>5, <1>6

-----------------------------------------------------------------------------
(***************************************************************************)
(* What stays the same while the evaluation does.                          *)
(***************************************************************************)

LEMMA SameInside ==
  ASSUME UNCHANGED constructor
  PROVE  Inside' = Inside /\ Parts' = Parts
<1> DEFINE I(c) == CHOOSE f : f = [i \in DOMAIN c |->
                     ToSet(c[i].from) \cup UNION {f[k] : k \in {k \in ToSet(c[i].from) : ~ (c[k].op = "build")}}]
           P(c) == CHOOSE f : f = [i \in DOMAIN c |->
                     ToSet(c[i].from) \cup UNION {f[k] : k \in ToSet(c[i].from)}]
<1>1. Inside = I(constructor) /\ Inside' = I(constructor')
  BY DEF Inside, Uses, IsBuild
<1>2. Parts = P(constructor) /\ Parts' = P(constructor')
  BY DEF Parts, Uses
<1> HIDE DEF I, P
<1> QED
  BY <1>1, <1>2

LEMMA SameSteps ==
  ASSUME UNCHANGED constructor
  PROVE  /\ Builds' = Builds
         /\ \A i : /\ IsHandle(i)' = IsHandle(i) /\ Id(i)' = Id(i) /\ ValueOf(i)' = ValueOf(i)
                   /\ Construction(i)' = Construction(i)
         /\ \A test : Holders(test)' = Holders(test)
<1>1. Builds' = Builds
  BY DEF Builds, IsBuild
<1>2. ASSUME NEW i PROVE IsHandle(i)' = IsHandle(i) /\ Id(i)' = Id(i)
  BY DEF IsHandle, Id, IsBuild
<1>3. ASSUME NEW i PROVE ValueOf(i)' = ValueOf(i)
  BY DEF ValueOf, IsHandle, Id, IsBuild
<1>4. ASSUME NEW i PROVE Construction(i)' = Construction(i)
  <2>1. Inside' = Inside
    BY SameInside
  <2>2. Handles(Inside[i])' = Handles(Inside[i])
    BY <2>1, <1>2 DEF Handles
  <2> QED BY <1>2, <2>2 DEF Construction
<1>5. ASSUME NEW test PROVE Holders(test)' = Holders(test)
  BY <1>1, SameInside DEF Holders
<1> QED
  BY <1>1, <1>2, <1>3, <1>4, <1>5

LEMMA SameImage ==
  ASSUME UNCHANGED constructor
  PROVE  IsImage' = IsImage
<1>1. Builds' = Builds /\ Whole' = Whole
  BY SameInside, SameSteps DEF Whole
<1> QED
  BY <1>1 DEF IsImage, IsBuild, SameCoordinate

LEMMA MakesValue ==
  ASSUME constructor \in Constructors, ValuesMade, UNCHANGED constructor,
         Len(values) < Len(constructor), Makes(ValueOf(Len(values) + 1))
  PROVE  /\ ValuesMade' /\ Len(values') = Len(values) + 1
         /\ Raised' = Raised \cup {b \in Builds : b = Len(values) + 1}
<1> DEFINE n == Len(values)
           S == {ValueOf(i) : i \in DOMAIN constructor}
<1>1. n \in Nat /\ n + 1 \in DOMAIN constructor /\ Len(constructor) \in Nat
  BY Evaluations, Values
<1>2. values \in Seq(S) /\ ValueOf(n + 1) \in S
  BY <1>1 DEF ValuesMade
<1>3. values' = Append(values, ValueOf(n + 1))
  BY DEF Makes
<1>4. \A i : ValueOf(i)' = ValueOf(i)
  BY SameSteps
<1> DEFINE x == ValueOf(n + 1)
<1> HIDE DEF S, x
<1>5. /\ values' \in Seq(S) /\ Len(values') = n + 1
      /\ \A i \in 1..(n + 1) : values'[i] = IF i = n + 1 THEN x ELSE values[i]
  BY <1>1, <1>2, <1>3 DEF x
<1>6. values' \in Seq({ValueOf(i) : i \in DOMAIN constructor}')
  BY <1>4, <1>5 DEF S
<1>7. ASSUME NEW i \in 1..Len(values') PROVE values'[i] = ValueOf(i)'
  <2>1. CASE i = n + 1
    BY <1>4, <1>5, <2>1 DEF x
  <2>2. CASE i # n + 1
    <3>1. i \in 1..n
      BY <1>1, <1>5, <2>2
    <3>2. values[i] = ValueOf(i)
      BY <3>1 DEF ValuesMade
    <3> QED BY <1>4, <1>5, <2>2, <3>2
  <2> QED BY <2>1, <2>2
<1>8. ValuesMade'
  BY <1>1, <1>5, <1>6, <1>7 DEF ValuesMade
<1>9. Raised' = Raised \cup {b \in Builds : b = n + 1}
  <2>1. Builds' = Builds /\ \A b \in Builds : b \in Nat
    BY SameSteps, Evaluations DEF Builds
  <2> QED BY <1>1, <1>5, <2>1 DEF Raised
<1> QED
  BY <1>5, <1>8, <1>9

(* A step that builds nothing.                                             *)
LEMMA MakesOther ==
  ASSUME constructor \in Constructors, ValuesMade, Recorded, ApplicationsListed, UNCHANGED <<constructor, constructions, applications>>,
         Len(values) < Len(constructor), Makes(ValueOf(Len(values) + 1)), ~ IsBuild(Len(values) + 1)
  PROVE  ValuesMade' /\ Recorded' /\ ApplicationsListed'
<1>1. ValuesMade' /\ Raised' = Raised
  <2>1. {b \in Builds : b = Len(values) + 1} = {}
    BY DEF Builds
  <2> QED BY <2>1, MakesValue
<1>2. /\ Builds' = Builds /\ \A i : Id(i)' = Id(i) /\ Construction(i)' = Construction(i)
      /\ \A test : Holders(test)' = Holders(test)
  BY SameSteps
<1>3. Recorded'
  BY <1>1, <1>2 DEF Recorded
<1>4. ApplicationsListed'
  BY <1>1, <1>2 DEF ApplicationsListed, Origins
<1> QED
  BY <1>1, <1>3, <1>4

-----------------------------------------------------------------------------
(***************************************************************************)
(* A step that builds.                                                     *)
(***************************************************************************)

LEMMA RecordsIt ==
  ASSUME constructor \in Constructors, ValuesMade, Recorded, UNCHANGED constructor,
         NEW b \in Builds, b = Len(values) + 1, Id(b) \notin Built,
         Raised' = Raised \cup {b}, constructions' = Append(constructions, Construction(b))
  PROVE  Recorded'
<1> DEFINE S == {Construction(d) : d \in Builds}
           n == Len(constructions)
<1>1. constructions \in Seq(S) /\ Construction(b) \in S
  BY DEF Recorded
<1> HIDE DEF S
<1>2. /\ n \in Nat /\ DOMAIN constructions = 1..n
      /\ constructions' \in Seq(S) /\ DOMAIN constructions' = 1..(n + 1)
      /\ \A p \in 1..(n + 1) : constructions'[p] = IF p = n + 1 THEN Construction(b) ELSE constructions[p]
  BY <1>1
<1>3. Builds' = Builds /\ \A i : Id(i)' = Id(i) /\ Construction(i)' = Construction(i)
  BY SameSteps
<1>4. constructions' \in Seq({Construction(d) : d \in Builds}')
  BY <1>2, <1>3 DEF S
<1>5. \A d : Construction(d).identity = Id(d)
  BY DEF Construction
<1>6. \A p \in 1..n : constructions[p].identity # Id(b)
  BY <1>2 DEF Built
<1>7. ASSUME NEW p \in 1..(n + 1), NEW q \in 1..(n + 1),
             constructions'[p].identity = constructions'[q].identity
      PROVE  p = q
  <2>1. ASSUME NEW r \in 1..(n + 1), r # n + 1 PROVE r \in 1..n
    BY <1>2, <2>1
  <2>2. CASE p = n + 1 \/ q = n + 1
    BY <1>2, <1>5, <1>6, <1>7, <2>1, <2>2
  <2>3. CASE ~ (p = n + 1 \/ q = n + 1)
    <3>1. p \in 1..n /\ q \in 1..n /\ constructions[p].identity = constructions[q].identity
      BY <1>2, <1>7, <2>1, <2>3
    <3> QED BY <1>2, <3>1 DEF Recorded
  <2> QED BY <2>2, <2>3
<1>8. ASSUME NEW p \in 1..(n + 1) PROVE \E d \in Raised \cup {b} : constructions'[p] = Construction(d)
  <2>1. CASE p = n + 1
    BY <1>2, <2>1
  <2>2. CASE p # n + 1
    <3>1. p \in 1..n /\ constructions'[p] = constructions[p]
      BY <1>2, <2>2
    <3> QED BY <1>2, <3>1 DEF Recorded
  <2> QED BY <2>1, <2>2
<1>9. ASSUME NEW d \in Raised \cup {b} PROVE \E p \in 1..(n + 1) : constructions'[p] = Construction(d)
  <2>1. CASE d = b
    <3>1. n + 1 \in 1..(n + 1)
      BY <1>2
    <3> QED BY <1>2, <2>1, <3>1
  <2>2. CASE d # b
    <3>1. PICK p \in 1..n : constructions[p] = Construction(d)
      BY <1>2, <2>2 DEF Recorded
    <3>2. p \in 1..(n + 1) /\ p # n + 1
      BY <1>2
    <3> QED BY <1>2, <3>1, <3>2
  <2> QED BY <2>1, <2>2
<1>10. ASSUME NEW d \in Raised \cup {b}, NEW e \in Raised \cup {b}, Id(d) = Id(e) PROVE d = e
  <2>1. ASSUME NEW c \in Raised PROVE Id(c) # Id(b)
    <3>1. PICK p \in 1..n : constructions[p] = Construction(c)
      BY <1>2 DEF Recorded
    <3> QED BY <1>5, <1>6, <3>1
  <2> QED BY <1>10, <2>1 DEF Recorded
<1>11. /\ \A p, q \in DOMAIN constructions' :
            constructions'[p].identity = constructions'[q].identity => p = q
       /\ \A p \in DOMAIN constructions' : \E d \in Raised \cup {b} : constructions'[p] = Construction(d)
       /\ \A d \in Raised \cup {b} : \E p \in DOMAIN constructions' : constructions'[p] = Construction(d)
       /\ \A d, e \in Raised \cup {b} : Id(d) = Id(e) => d = e
  BY <1>2, <1>7, <1>8, <1>9, <1>10
<1>12. /\ \A p \in DOMAIN constructions' : \E d \in Raised' : constructions'[p] = Construction(d)'
       /\ \A d \in Raised' : \E p \in DOMAIN constructions' : constructions'[p] = Construction(d)'
       /\ \A d, e \in Raised' : Id(d)' = Id(e)' => d = e
  BY <1>3, <1>11
<1> QED
  BY <1>4, <1>11, <1>12 DEF Recorded

LEMMA CollectsNone ==
  ASSUME constructor \in Constructors, ApplicationsListed, UNCHANGED <<constructor, applications>>,
         NEW b \in Builds, constructor[b].kind # "Test", Raised' = Raised \cup {b}
  PROVE  ApplicationsListed'
<1>1. PICK w : Origins(w)
  BY DEF ApplicationsListed
<1>2. \A test : Holders(test)' = Holders(test)
  BY SameSteps
<1>3. \A test : \A h \in Holders(test) : h[1] # b
  BY DEF Holders
<1>4. Origins(w)'
  BY <1>1, <1>2, <1>3 DEF Origins
<1> QED
  BY <1>4 DEF ApplicationsListed

LEMMA CollectsThem ==
  ASSUME constructor \in Constructors, ValuesMade, ApplicationsListed, UNCHANGED constructor,
         NEW b \in Builds, b = Len(values) + 1, constructor[b].kind = "Test",
         Raised' = Raised \cup {b}, applications' = applications \o Applications(constructor[b].from)
  PROVE  ApplicationsListed'
<1> DEFINE a == Applications(constructor[b].from)
           n == Len(applications)
           m == Len(a)
<1>1. b \in DOMAIN constructor /\ Lists(a, Applies(Inside[b]))
  BY ApplicationsInside DEF Builds
<1>2. PICK w : Origins(w)
  BY DEF ApplicationsListed
<1>3. PICK v : ListedBy(a, Applies(Inside[b]), v)
  BY <1>1 DEF Lists
<1> HIDE DEF a
<1>4. /\ applications \in Seq(STRING) /\ a \in Seq(STRING)
      /\ n \in Nat /\ m \in Nat /\ DOMAIN applications = 1..n /\ DOMAIN a = 1..m
  BY <1>1 DEF ApplicationsListed, Lists
<1>5. /\ applications' \in Seq(STRING) /\ DOMAIN applications' = 1..(n + m)
      /\ \A p \in 1..(n + m) : applications'[p] = IF p <= n THEN applications[p] ELSE a[p - n]
  BY <1>4 DEF a
<1> HIDE DEF n, m
<1>u. PICK u : u = [p \in 1..(n + m) |-> IF p <= n THEN w[p] ELSE <<b, v[p - n]>>]
  OBVIOUS
<1>6. ASSUME NEW p \in 1..(n + m)
      PROVE  /\ p <= n => p \in DOMAIN applications /\ u[p] = w[p] /\ applications'[p] = applications[p]
             /\ ~ (p <= n) => p - n \in DOMAIN a /\ u[p] = <<b, v[p - n]>> /\ applications'[p] = a[p - n]
  <2>1. u[p] = IF p <= n THEN w[p] ELSE <<b, v[p - n]>>
    BY <1>u
  <2>2. applications'[p] = IF p <= n THEN applications[p] ELSE a[p - n]
    BY <1>5
  <2>3. p <= n => p \in 1..n
    BY <1>4
  <2>4. ~ (p <= n) => p - n \in 1..m
    BY <1>4
  <2> QED BY <1>4, <2>1, <2>2, <2>3, <2>4
<1>7. \A r \in Raised : r \in Nat /\ r < b
  BY Evaluations, Values DEF Raised, Builds
<1>8. b \in Nat
  BY <1>1, Evaluations
<1>9. ASSUME NEW p \in 1..(n + m)
      PROVE  /\ u[p] \in Holders(applications'[p]) /\ u[p][1] \in Raised \cup {b}
             /\ IF p <= n THEN u[p][1] \in Raised ELSE u[p][1] = b
  <2>1. CASE p <= n
    BY <1>2, <1>6, <2>1 DEF Origins
  <2>2. CASE ~ (p <= n)
    <3>1. v[p - n] \in Inside[b] /\ constructor[v[p - n]].op = "apply" /\ constructor[v[p - n]].kind = applications'[p]
      BY <1>3, <1>6, <2>2 DEF ListedBy, Applies
    <3>2. v[p - n] \in DOMAIN constructor
      <4>1. Inside[b] \subseteq 1..(b - 1)
        BY <1>1, Before
      <4> QED BY <1>1, <3>1, <4>1, Evaluations
    <3>3. <<b, v[p - n]>> \in Holders(applications'[p])
      BY <3>1, <3>2 DEF Holders
    <3>4. u[p] = <<b, v[p - n]>>
      BY <1>6, <2>2
    <3>5. u[p][1] = b
      BY <3>4
    <3> QED BY <2>2, <3>3, <3>4, <3>5
  <2> QED BY <2>1, <2>2
<1>10. ASSUME NEW test \in STRING, NEW h \in Holders(test), h[1] \in Raised \cup {b}
       PROVE  \E p \in 1..(n + m) : u[p] = h /\ applications'[p] = test
  <2>1. CASE h[1] \in Raised
    <3>1. PICK p \in DOMAIN applications : w[p] = h /\ applications[p] = test
      BY <1>2, <2>1 DEF Origins
    <3>2. p \in 1..(n + m) /\ p <= n
      BY <1>4, <3>1
    <3> QED BY <1>6, <3>1, <3>2
  <2>2. CASE h[1] = b
    <3>1. h = <<b, h[2]>> /\ h[2] \in Applies(Inside[b]) /\ constructor[h[2]].kind = test
      BY <2>2 DEF Holders, Applies
    <3>2. PICK q \in DOMAIN a : v[q] = h[2]
      BY <1>3, <3>1 DEF ListedBy
    <3>3. q + n \in 1..(n + m) /\ ~ (q + n <= n) /\ (q + n) - n = q
      BY <1>4, <3>2
    <3>4. a[q] = test
      BY <1>3, <3>1, <3>2 DEF ListedBy
    <3>5. u[q + n] = <<b, v[q]>> /\ applications'[q + n] = a[q]
      BY <1>6, <3>3
    <3> QED BY <3>1, <3>2, <3>3, <3>4, <3>5
  <2> QED BY <1>10, <2>1, <2>2
<1>11. ASSUME NEW p \in 1..(n + m), NEW q \in 1..(n + m), p < q PROVE u[p][1] <= u[q][1]
  <2>1. CASE q <= n
    <3>1. p <= n
      BY <1>4, <1>11, <2>1
    <3> QED BY <1>2, <1>6, <1>11, <2>1, <3>1 DEF Origins
  <2>2. CASE ~ (q <= n)
    BY <1>7, <1>8, <1>9, <2>2
  <2> QED BY <2>1, <2>2
<1>12. \A test : Holders(test)' = Holders(test)
  BY SameSteps
<1>13. ASSUME NEW p \in DOMAIN applications'
       PROVE  (u[p] \in Holders(applications[p]))' /\ u[p][1] \in Raised'
  <2>1. p \in 1..(n + m) /\ u[p] \in Holders(applications'[p])
    BY <1>5, <1>9
  <2>2. Holders(applications[p])' = Holders(applications'[p])
    BY SameInside, SameSteps DEF Holders
  <2> QED BY <1>9, <2>1, <2>2
<1>14. ASSUME NEW test \in STRING, NEW h \in Holders(test)', h[1] \in Raised'
       PROVE  \E p \in DOMAIN applications' : u[p] = h /\ applications'[p] = test
  BY <1>5, <1>10, <1>12, <1>14
<1>15. \A p, q \in DOMAIN applications' : p < q => u[p][1] <= u[q][1]
  BY <1>5, <1>11
<1>16. Origins(u)'
  BY <1>13, <1>14, <1>15 DEF Origins
<1> QED
  BY <1>5, <1>16 DEF ApplicationsListed

-----------------------------------------------------------------------------
(***************************************************************************)
(* The plan picks some of the applications, in their order.                *)
(***************************************************************************)

Picks(g, seq, n, Q, x) ==
  /\ \A i \in DOMAIN seq : g[i] \in 1..n /\ g[i] \in Q /\ seq[i] = x[g[i]]
  /\ \A i, j \in DOMAIN seq : i < j => g[i] < g[j]
  /\ \A m \in 1..n : m \in Q => \E i \in DOMAIN seq : g[i] = m

LEMMA PicksMore ==
  ASSUME NEW n \in Nat, NEW seq \in Seq(STRING), NEW Q, NEW x, NEW g, Picks(g, seq, n, Q, x),
         n + 1 \in Q, x[n + 1] \in STRING
  PROVE  \E h : Picks(h, seq \o <<x[n + 1]>>, n + 1, Q, x)
<1> DEFINE k == Len(seq)
           more == seq \o <<x[n + 1]>>
           h == [i \in 1..(k + 1) |-> IF i = k + 1 THEN n + 1 ELSE g[i]]
<1>1. /\ k \in Nat /\ DOMAIN seq = 1..k /\ DOMAIN more = 1..(k + 1)
      /\ \A i \in 1..(k + 1) : more[i] = IF i = k + 1 THEN x[n + 1] ELSE seq[i]
  OBVIOUS
<1>2. ASSUME NEW i \in 1..(k + 1)
      PROVE  /\ h[i] \in 1..(n + 1) /\ h[i] \in Q /\ more[i] = x[h[i]]
             /\ IF i = k + 1 THEN h[i] = n + 1 ELSE i \in 1..k /\ h[i] = g[i] /\ h[i] <= n
  <2>1. CASE i = k + 1
    BY <1>1, <2>1
  <2>2. CASE i # k + 1
    <3>1. i \in 1..k /\ h[i] = g[i] /\ more[i] = seq[i]
      BY <1>1, <2>2
    <3>2. g[i] \in 1..n /\ g[i] \in Q /\ seq[i] = x[g[i]]
      BY <1>1, <3>1 DEF Picks
    <3>3. g[i] \in 1..(n + 1) /\ g[i] <= n
      BY <3>2
    <3> QED BY <2>2, <3>1, <3>2, <3>3
  <2> QED BY <2>1, <2>2
<1>3. ASSUME NEW m \in 1..(n + 1), m \in Q PROVE \E i \in 1..(k + 1) : h[i] = m
  <2>1. CASE m = n + 1
    <3>1. k + 1 \in 1..(k + 1)
      BY <1>1
    <3> QED BY <2>1, <3>1
  <2>2. CASE m # n + 1
    <3>1. PICK i \in 1..k : g[i] = m
      BY <1>1, <1>3, <2>2 DEF Picks
    <3>2. i \in 1..(k + 1) /\ i # k + 1
      BY <1>1
    <3> QED BY <3>1, <3>2
  <2> QED BY <2>1, <2>2
<1> HIDE DEF h, more
<1>4. ASSUME NEW i \in 1..(k + 1), NEW j \in 1..(k + 1), i < j PROVE h[i] < h[j]
  <2>1. i # k + 1 /\ i \in 1..k
    BY <1>1, <1>4
  <2>2. CASE j = k + 1
    BY <1>2, <2>1, <2>2
  <2>3. CASE j # k + 1
    BY <1>1, <1>2, <1>4, <2>1, <2>3 DEF Picks
  <2> QED BY <2>2, <2>3
<1>5. Picks(h, more, n + 1, Q, x)
  BY <1>1, <1>2, <1>3, <1>4 DEF Picks
<1> QED
  BY <1>5 DEF more

LEMMA PicksSome ==
  ASSUME NEW n \in Nat, NEW s, s = [m \in 1..n |-> s[m]], NEW Q, NEW x,
         \A m \in 1..n : x[m] \in STRING /\ s[m] = IF m \in Q THEN <<x[m]>> ELSE <<>>
  PROVE  FlattenSeq(s) \in Seq(STRING) /\ \E g : Picks(g, FlattenSeq(s), n, Q, x)
<1> DEFINE t(k) == [m \in 1..k |-> s[m]]
           Good(seq, k) == seq \in Seq(STRING) /\ \E g : Picks(g, seq, k, Q, x)
           G == {k \in 0..n : Good(FlattenSeq(t(k)), k)}
<1>1. \A m \in 1..n : s[m] \in Seq(ToSet(s[m])) /\ s[m] \in Seq(STRING)
  <2>1. \A y \in STRING : <<y>> \in Seq(ToSet(<<y>>)) /\ <<y>> \in Seq(STRING)
    BY DEF ToSet
  <2>2. <<>> \in Seq(ToSet(<<>>)) /\ <<>> \in Seq(STRING)
    OBVIOUS
  <2> QED BY <2>1, <2>2
<1>2. 0 \in G
  <2> DEFINE e == t(0)
  <2>1. e = [m \in 1..0 |-> e[m]] /\ \A m \in 1..0 : e[m] \in Seq(ToSet(e[m]))
    OBVIOUS
  <2> HIDE DEF e
  <2>2. FlattenSeq(e) = <<>>
    BY <2>1, 0 \in Nat, FlattenLast
  <2>3. Picks(<<>>, <<>>, 0, Q, x)
    BY DEF Picks
  <2>4. Good(FlattenSeq(e), 0)
    BY <2>2, <2>3
  <2> QED BY <2>4 DEF e
<1>3. ASSUME NEW k \in 1..n, k - 1 \in G PROVE k \in G
  <2> DEFINE e == t(k)
             d == t(k - 1)
  <2>1. /\ e = [m \in 1..k |-> e[m]] /\ \A m \in 1..k : e[m] = s[m]
        /\ d = [m \in 1..(k - 1) |-> e[m]]
    OBVIOUS
  <2>2. Good(FlattenSeq(d), k - 1)
    BY <1>3
  <2> HIDE DEF e, d, t, G
  <2>3. k \in Nat /\ k \in 1..k /\ k > 0 /\ 1..k \subseteq 1..n /\ k - 1 \in Nat /\ (k - 1) + 1 = k
    OBVIOUS
  <2>4. \A m \in 1..k : e[m] \in Seq(ToSet(e[m]))
    BY <1>1, <2>1, <2>3
  <2>5. FlattenSeq(e) = FlattenSeq([m \in 1..(k - 1) |-> e[m]]) \o e[k]
    BY <2>1, <2>3, <2>4, FlattenLast
  <2> DEFINE seq == FlattenSeq(d)
  <2>6. FlattenSeq(e) = seq \o s[k] /\ seq \in Seq(STRING)
    BY <2>1, <2>2, <2>3, <2>5
  <2>7. PICK g : Picks(g, seq, k - 1, Q, x)
    BY <2>2
  <2> HIDE DEF seq
  <2>8. Good(seq \o s[k], k)
    <3>1. CASE k \in Q
      <4>1. s[k] = <<x[k]>> /\ x[k] \in STRING
        BY <2>3, <3>1
      <4>2. \E h : Picks(h, seq \o <<x[k]>>, k, Q, x)
        BY <2>3, <2>6, <2>7, <3>1, <4>1, PicksMore
      <4>3. seq \o <<x[k]>> \in Seq(STRING)
        BY <2>6, <4>1
      <4> QED BY <4>1, <4>2, <4>3
    <3>2. CASE k \notin Q
      <4>1. seq \o s[k] = seq
        BY <2>3, <2>6, <3>2
      <4>2. \A m \in 1..k : m \in Q => m \in 1..(k - 1)
        BY <3>2
      <4>3. 1..(k - 1) \subseteq 1..k
        OBVIOUS
      <4>4. Picks(g, seq, k, Q, x)
        BY <2>7, <4>2, <4>3 DEF Picks
      <4> QED BY <2>6, <4>1, <4>4
    <3> QED BY <3>1, <3>2
  <2>9. Good(FlattenSeq(e), k)
    BY <2>6, <2>8
  <2>10. k \in 0..n
    OBVIOUS
  <2> HIDE DEF Good
  <2> QED BY <2>9, <2>10 DEF G, e
<1>4. n \in G
  <2> HIDE DEF G
  <2> QED BY <1>2, <1>3, Upto
<1>5. t(n) = s
  OBVIOUS
<1> QED
  BY <1>4, <1>5

-----------------------------------------------------------------------------
(***************************************************************************)
(* All that goes into a step: what does so without being built, and what   *)
(* goes in that way into something built that goes in.                     *)
(***************************************************************************)

LEMMA InsideArePart ==
  ASSUME constructor \in Constructors
  PROVE  \A i \in DOMAIN constructor : Inside[i] \subseteq Parts[i]
<1> DEFINE Bad == {i \in DOMAIN constructor : ~ Inside[i] \subseteq Parts[i]}
<1> SUFFICES ASSUME Bad # {} PROVE FALSE
  OBVIOUS
<1>1. DOMAIN constructor = 1..Len(constructor) /\ Len(constructor) \in Nat
      /\ \A i \in DOMAIN constructor : Uses(i) \in SUBSET (1..(i - 1))
  BY Evaluations
<1>2. PICK i \in Bad : \A j \in Bad : i <= j
  <2>1. Bad \subseteq Nat
    BY <1>1
  <2> HIDE DEF Bad
  <2> QED BY <2>1, LeastNumber
<1>3. \A k \in Uses(i) : Inside[k] \subseteq Parts[k]
  BY <1>1, <1>2
<1>4. /\ Inside[i] = Uses(i) \cup UNION {Inside[k] : k \in {k \in Uses(i) : ~ IsBuild(k)}}
      /\ Parts[i] = Uses(i) \cup UNION {Parts[k] : k \in Uses(i)}
  BY <1>2, InsideLaw, PartsLaw
<1> QED
  BY <1>2, <1>3, <1>4

LEMMA PartsOfParts ==
  ASSUME constructor \in Constructors
  PROVE  \A i \in DOMAIN constructor : \A k \in Parts[i] : Parts[k] \subseteq Parts[i]
<1> DEFINE Bad == {i \in DOMAIN constructor : ~ \A k \in Parts[i] : Parts[k] \subseteq Parts[i]}
<1> SUFFICES ASSUME Bad # {} PROVE FALSE
  OBVIOUS
<1>1. DOMAIN constructor = 1..Len(constructor) /\ Len(constructor) \in Nat
      /\ \A i \in DOMAIN constructor : Uses(i) \in SUBSET (1..(i - 1))
  BY Evaluations
<1>2. PICK i \in Bad : \A j \in Bad : i <= j
  <2>1. Bad \subseteq Nat
    BY <1>1
  <2> HIDE DEF Bad
  <2> QED BY <2>1, LeastNumber
<1>3. \A u \in Uses(i) : \A k \in Parts[u] : Parts[k] \subseteq Parts[u]
  BY <1>1, <1>2
<1>4. Parts[i] = Uses(i) \cup UNION {Parts[k] : k \in Uses(i)}
  BY <1>2, PartsLaw
<1> QED
  BY <1>2, <1>3, <1>4

LEMMA PartsAre ==
  ASSUME constructor \in Constructors
  PROVE  \A i \in DOMAIN constructor : \A k \in Parts[i] :
           k \in Inside[i] \/ \E b \in Parts[i] : IsBuild(b) /\ k \in Inside[b]
<1> DEFINE Sorted(i, k) == k \in Inside[i] \/ \E b \in Parts[i] : IsBuild(b) /\ k \in Inside[b]
           Bad == {i \in DOMAIN constructor : ~ \A k \in Parts[i] : Sorted(i, k)}
<1> SUFFICES ASSUME Bad # {} PROVE FALSE
  OBVIOUS
<1>1. DOMAIN constructor = 1..Len(constructor) /\ Len(constructor) \in Nat
      /\ \A i \in DOMAIN constructor : Uses(i) \in SUBSET (1..(i - 1))
  BY Evaluations
<1>2. PICK i \in Bad : \A j \in Bad : i <= j
  <2>1. Bad \subseteq Nat
    BY <1>1
  <2> HIDE DEF Bad
  <2> QED BY <2>1, LeastNumber
<1>3. \A u \in Uses(i) : \A k \in Parts[u] : Sorted(u, k)
  BY <1>1, <1>2
<1>4. /\ Inside[i] = Uses(i) \cup UNION {Inside[k] : k \in {k \in Uses(i) : ~ IsBuild(k)}}
      /\ Parts[i] = Uses(i) \cup UNION {Parts[k] : k \in Uses(i)}
  BY <1>2, InsideLaw, PartsLaw
<1>5. ASSUME NEW u \in Uses(i), NEW k \in Parts[u] PROVE Sorted(i, k)
  <2>1. CASE k \in Inside[u]
    BY <1>4, <2>1
  <2>2. CASE \E b \in Parts[u] : IsBuild(b) /\ k \in Inside[b]
    BY <1>4, <2>2
  <2> QED BY <1>3, <2>1, <2>2
<1>6. \A k \in Parts[i] : Sorted(i, k)
  BY <1>4, <1>5
<1> QED
  BY <1>2, <1>6

-----------------------------------------------------------------------------
(***************************************************************************)
(* The graph when everything has been evaluated.                           *)
(***************************************************************************)

Complete == constructor \in Constructors /\ ValuesMade /\ Recorded /\ Len(values) = Len(constructor)

End == Len(constructor)

LEMMA CompleteGraph ==
  ASSUME Complete
  PROVE  /\ Raised = Builds /\ Built = {Id(b) : b \in Builds}
         /\ \A b \in Builds : EdgesFrom(Id(b)) = Handles(Inside[b])
         /\ \A b, d \in Builds : Id(b) = Id(d) => b = d
         /\ \A b, d \in Builds : SameCoordinate(b, d) => b = d
         /\ IsFiniteSet(Built) /\ Cardinality(Built) = Len(constructions)
<1>1. Raised = Builds
  BY Evaluations DEF Complete, Raised, Builds
<1>2. \A p \in DOMAIN constructions : \E b \in Builds : constructions[p] = Construction(b)
  BY <1>1 DEF Complete, Recorded
<1>3. \A b \in Builds : \E p \in DOMAIN constructions : constructions[p] = Construction(b)
  BY <1>1 DEF Complete, Recorded
<1>4. \A b, d \in Builds : Id(b) = Id(d) => b = d
  BY <1>1 DEF Complete, Recorded
<1>5. \A b : Construction(b).identity = Id(b) /\ Construction(b).edges = Handles(Inside[b])
  BY DEF Construction
<1>6. Built = {Id(b) : b \in Builds}
  BY <1>2, <1>3, <1>5 DEF Built
<1>7. ASSUME NEW b \in Builds PROVE EdgesFrom(Id(b)) = Handles(Inside[b])
  <2>1. PICK p \in DOMAIN constructions : constructions[p] = Construction(b)
    BY <1>3
  <2>2. \A q \in DOMAIN constructions : constructions[q].identity = Id(b) <=> q = p
    BY <1>5, <2>1 DEF Complete, Recorded
  <2>3. {k \in DOMAIN constructions : constructions[k].identity = Id(b)} = {p}
    BY <2>2
  <2>4. EdgesFrom(Id(b)) = constructions[p].edges
    BY <2>3 DEF EdgesFrom
  <2> QED BY <1>5, <2>1, <2>4
<1>8. \A b, d \in Builds : SameCoordinate(b, d) => b = d
  BY <1>4 DEF SameCoordinate, Id, Builds
<1>9. IsFiniteSet(Built) /\ Cardinality(Built) = Len(constructions)
  <2> DEFINE n == Len(constructions)
             f == [p \in 1..n |-> constructions[p].identity]
  <2>1. n \in Nat /\ DOMAIN constructions = 1..n
    BY DEF Complete, Recorded
  <2>2. f \in Bijection(1..n, Built)
    <3>1. f \in [1..n -> Built] /\ \A y \in Built : \E p \in 1..n : f[p] = y
      BY <2>1 DEF Built
    <3>2. \A p, q \in 1..n : f[p] = f[q] => p = q
      BY <2>1 DEF Complete, Recorded
    <3> HIDE DEF f, n
    <3> QED BY <3>1, <3>2 DEF Bijection, Injection, Surjection, IsInjective
  <2> HIDE DEF f, n
  <2>3. IsFiniteSet(1..n) /\ Cardinality(1..n) = n
    BY <2>1, FS_Interval
  <2>4. ExistsBijection(1..n, Built)
    BY <2>2 DEF ExistsBijection
  <2>5. IsFiniteSet(Built) /\ Cardinality(Built) = n
    BY <2>3, <2>4, FS_Bijection
  <2> QED BY <2>5 DEF n
<1> QED
  BY <1>1, <1>4, <1>6, <1>7, <1>8, <1>9

EdgesClosed(S) == \A identity \in S : EdgesFrom(identity) \subseteq S

LEMMA ReachableIs ==
  ASSUME Complete, EdgesClosed(Built), NEW root \in Built
  PROVE  /\ root \in Reachable(root) /\ Reachable(root) \subseteq Built /\ EdgesClosed(Reachable(root))
         /\ \A S : root \in S /\ EdgesClosed(S) => Reachable(root) \subseteq S
<1> DEFINE U == Built
           R == {root}
           most == Len(constructions)
           more(A) == A \cup UNION {EdgesFrom(identity) : identity \in A}
           s == [A \in SUBSET U |-> more(A)]
           reach == CHOOSE f : f = [n \in 0..most |-> IF n = 0 THEN R ELSE more(f[n - 1])]
<1>1. Reachable(root) = reach[most]
  BY DEF Reachable
<1>2. most \in Nat
  BY DEF Complete, Recorded
<1>3. IsFiniteSet(U) /\ Cardinality(U) <= most /\ R \in SUBSET U
  BY <1>2, CompleteGraph
<1>4. s \in [SUBSET U -> SUBSET U] /\ \A A \in SUBSET U : s[A] = more(A) /\ A \subseteq s[A]
  BY DEF EdgesClosed
<1> HIDE DEF most, R, U, s, more
<1>5. PICK g : Computes(g, U, most, R, s)
  BY <1>2, <1>3, <1>4, RoundsExist
<1>6. /\ g \in [0..most -> SUBSET U]
      /\ \A n \in 0..most : g[n] = IF n = 0 THEN R ELSE s[g[n - 1]]
  BY <1>5 DEF Computes, Rounds
<1>7. \A n \in 0..most : n # 0 => n - 1 \in 0..most
  BY <1>2
<1>8. \A n \in 0..most : g[n] = IF n = 0 THEN R ELSE more(g[n - 1])
  BY <1>4, <1>6, <1>7
<1>9. g = [n \in 0..most |-> IF n = 0 THEN R ELSE more(g[n - 1])]
  BY <1>6, <1>8
<1>10. reach = [n \in 0..most |-> IF n = 0 THEN R ELSE more(reach[n - 1])]
  BY <1>9
<1> HIDE DEF reach
<1>11. ASSUME NEW n \in 0..most PROVE reach[n] = IF n = 0 THEN R ELSE more(reach[n - 1])
  BY <1>10
<1> DEFINE Same == {n \in 0..most : reach[n] = g[n]}
<1>12. most \in Same
  <2>1. 0 \in Same
    BY <1>2, <1>8, <1>11
  <2>2. ASSUME NEW n \in 1..most, n - 1 \in Same PROVE n \in Same
    <3>1. n \in 0..most /\ n # 0 /\ reach[n - 1] = g[n - 1]
      BY <2>2
    <3> QED BY <1>8, <1>11, <3>1
  <2> HIDE DEF Same
  <2> QED BY <1>2, <2>1, <2>2, Upto
<1>13. Reachable(root) = g[most]
  BY <1>1, <1>12
<1>14. R \subseteq g[most] /\ s[g[most]] = g[most]
  <2>1. Inflates(s, U)
    BY <1>4 DEF Inflates
  <2> QED BY <1>3, <1>5, <2>1, RoundsClose
<1>15. g[most] \in SUBSET U
  BY <1>2, <1>6
<1>16. EdgesClosed(g[most])
  <2>1. more(g[most]) = g[most]
    BY <1>4, <1>14, <1>15
  <2> QED BY <2>1 DEF more, EdgesClosed
<1>17. ASSUME NEW S, root \in S, EdgesClosed(S) PROVE g[most] \subseteq S
  <2>1. ASSUME NEW A \in SUBSET U, A \subseteq S PROVE s[A] \subseteq S
    <3>1. more(A) \subseteq S
      BY <1>17, <2>1 DEF more, EdgesClosed
    <3> QED BY <1>4, <3>1
  <2>2. StepsWithin(s, U, S)
    BY <2>1 DEF StepsWithin
  <2>3. R \subseteq S
    BY <1>17 DEF R
  <2> QED BY <1>5, <2>2, <2>3, RoundsLeast
<1> QED
  BY <1>13, <1>14, <1>15, <1>16, <1>17 DEF R, U

(* Nothing comes from another root.                                        *)
Own == \A b \in Builds : \A k \in Inside[b] : constructor[k].op # "constant"

LEMMA OwnClosed ==
  ASSUME Complete
  PROVE  /\ \A k \in DOMAIN constructor : IsHandle(k) => (Id(k) \in Built <=> IsBuild(k))
         /\ Own <=> EdgesClosed(Built)
<1>1. Built = {Id(b) : b \in Builds} /\ \A b \in Builds : EdgesFrom(Id(b)) = Handles(Inside[b])
  BY CompleteGraph
<1>2. ASSUME NEW k \in DOMAIN constructor, IsHandle(k) PROVE Id(k) \in Built <=> IsBuild(k)
  <2>1. CASE IsBuild(k)
    BY <1>1, <2>1 DEF Builds
  <2>2. CASE ~ IsBuild(k)
    <3>1. Id(k) = <<0, constructor[k].kind>>
      BY <2>2 DEF Id
    <3>2. ASSUME NEW b \in Builds PROVE Id(b) # Id(k)
      <4>1. Id(b) = <<constructor[b].at, constructor[b].kind>> /\ constructor[b].at \in Nat \ {0}
        BY Evaluations DEF Id, Builds, Complete
      <4> QED BY <3>1, <4>1
    <3> QED BY <1>1, <2>2, <3>2
  <2> QED BY <2>1, <2>2
<1>3. ASSUME NEW b \in Builds PROVE Inside[b] \subseteq DOMAIN constructor
  <2>1. b \in DOMAIN constructor /\ Inside[b] \subseteq 1..(b - 1)
    BY Before DEF Builds, Complete
  <2> QED BY <2>1, Evaluations DEF Complete
<1>4. ASSUME NEW b \in Builds
      PROVE  EdgesFrom(Id(b)) \subseteq Built <=> \A k \in Inside[b] : constructor[k].op # "constant"
  <2>1. EdgesFrom(Id(b)) = {Id(k) : k \in {k \in Inside[b] : IsHandle(k)}}
    BY <1>1 DEF Handles
  <2> QED BY <1>2, <1>3, <2>1 DEF IsHandle, IsBuild
<1>5. Own <=> EdgesClosed(Built)
  <2>1. EdgesClosed(Built) <=> \A b \in Builds : EdgesFrom(Id(b)) \subseteq Built
    BY <1>1 DEF EdgesClosed
  <2> QED BY <1>4, <2>1 DEF Own
<1> QED
  BY <1>2, <1>5

(* What is reached is what went into the image.                            *)
LEMMA ReachedAre ==
  ASSUME Complete, Own, End \in Builds
  PROVE  Cardinality(Reachable(Id(End))) = Len(constructions) <=> Builds \subseteq Whole
<1> DEFINE R == Reachable(Id(End))
           S == {Id(b) : b \in Builds \cap Whole}
<1>1. /\ Built = {Id(b) : b \in Builds} /\ \A b \in Builds : EdgesFrom(Id(b)) = Handles(Inside[b])
      /\ \A b, d \in Builds : Id(b) = Id(d) => b = d
      /\ IsFiniteSet(Built) /\ Cardinality(Built) = Len(constructions)
  BY CompleteGraph
<1>2. /\ constructor \in Constructors /\ End \in DOMAIN constructor /\ End \in Nat
      /\ DOMAIN constructor = 1..End
  BY Evaluations DEF Complete, End
<1>3. EdgesClosed(Built) /\ Id(End) \in Built
  BY <1>1, OwnClosed
<1>4. /\ Id(End) \in R /\ R \subseteq Built /\ EdgesClosed(R)
      /\ \A T : Id(End) \in T /\ EdgesClosed(T) => R \subseteq T
  BY <1>3, ReachableIs
<1> HIDE DEF R
<1>5. Whole = {End} \cup Parts[End]
  BY DEF Whole, End
<1>6. R \subseteq S
  <2>1. Id(End) \in S
    BY <1>5
  <2>2. ASSUME NEW b \in Builds \cap Whole PROVE EdgesFrom(Id(b)) \subseteq S
    <3>1. b \in DOMAIN constructor
      BY DEF Builds
    <3>2. Inside[b] \subseteq Whole
      <4>1. Inside[b] \subseteq Parts[b]
        BY <1>2, <3>1, InsideArePart
      <4>2. Parts[b] \subseteq Parts[End]
        BY <1>2, <1>5, PartsOfParts
      <4> QED BY <1>5, <4>1, <4>2
    <3>3. Inside[b] \subseteq DOMAIN constructor
      <4>1. Inside[b] \subseteq 1..(b - 1)
        BY <1>2, <3>1, Before
      <4> QED BY <1>2, <3>1, <4>1
    <3>4. \A k \in Inside[b] : IsHandle(k) => k \in Builds
      BY <3>3 DEF Own, IsHandle, IsBuild, Builds
    <3> QED BY <1>1, <3>2, <3>4 DEF Handles
  <2>3. EdgesClosed(S)
    BY <2>2 DEF EdgesClosed
  <2> HIDE DEF S
  <2> QED BY <1>4, <2>1, <2>3
<1>7. \A b \in Builds \cap Whole : Id(b) \in R
  <2> DEFINE Far == {End - b : b \in {b \in Builds \cap Whole : Id(b) \notin R}}
  <2> SUFFICES ASSUME Far # {} PROVE FALSE
    OBVIOUS
  <2>1. \A b \in Builds : b \in 1..End
    BY <1>2 DEF Builds
  <2>2. PICK f \in Far : \A j \in Far : f <= j
    <3>1. Far \subseteq Nat
      BY <1>2, <2>1
    <3> HIDE DEF Far
    <3> QED BY <3>1, LeastNumber
  <2>3. PICK b \in Builds \cap Whole : Id(b) \notin R /\ f = End - b
    BY <2>2
  <2>4. ASSUME NEW d \in Builds \cap Whole, d > b PROVE Id(d) \in R
    <3>1. CASE Id(d) \notin R
      <4>1. End - d \in Far
        BY <3>1
      <4>2. End - b <= End - d
        BY <2>2, <2>3, <4>1
      <4>3. d \in Nat /\ b \in Nat
        BY <2>1
      <4> QED BY <1>2, <2>4, <4>2, <4>3
    <3> QED BY <3>1
  <2>5. b # End /\ b \in Parts[End]
    BY <1>4, <1>5, <2>3
  <2>6. \E d \in Builds \cap Whole : b \in Inside[d]
    <3>1. b \in Inside[End] \/ \E d \in Parts[End] : IsBuild(d) /\ b \in Inside[d]
      BY <1>2, <2>5, PartsAre
    <3>2. Parts[End] \subseteq DOMAIN constructor
      <4>1. Parts[End] \subseteq 1..(End - 1)
        BY <1>2, Before
      <4> QED BY <1>2, <4>1
    <3> QED BY <1>5, <3>1, <3>2 DEF Builds
  <2>7. PICK d \in Builds \cap Whole : b \in Inside[d]
    BY <2>6
  <2>8. d > b
    <3>1. Inside[d] \subseteq 1..(d - 1)
      BY <1>2, Before DEF Builds
    <3> QED BY <2>1, <2>7, <3>1
  <2>9. Id(b) \in EdgesFrom(Id(d))
    <3>1. IsHandle(b)
      BY <2>3 DEF Builds, IsBuild, IsHandle
    <3> QED BY <1>1, <2>7, <3>1 DEF Handles
  <2> QED BY <1>4, <2>3, <2>4, <2>7, <2>8, <2>9 DEF EdgesClosed
<1>8. R = Built <=> Builds \subseteq Whole
  <2>1. ASSUME R = Built, NEW b \in Builds PROVE b \in Whole
    BY <1>1, <1>6, <2>1
  <2>2. ASSUME Builds \subseteq Whole PROVE R = Built
    BY <1>1, <1>4, <1>7, <2>2
  <2> QED BY <2>1, <2>2
<1>9. Cardinality(R) = Cardinality(Built) <=> R = Built
  BY <1>1, <1>4, FS_Subset
<1> QED
  BY <1>1, <1>8, <1>9 DEF R

(* No constant brings anything in where all that was built went in.        *)
LEMMA OwnParts ==
  ASSUME Complete, End \in Builds
  PROVE  /\ Own => \A i \in Whole : constructor[i].op # "constant"
         /\ Builds \subseteq Whole /\ (\A i \in Whole : constructor[i].op # "constant") => Own
<1>1. /\ constructor \in Constructors /\ End \in DOMAIN constructor /\ DOMAIN constructor = 1..End
      /\ End \in Nat
  BY Evaluations DEF Complete, End
<1>2. Whole = {End} \cup Parts[End]
  BY DEF Whole, End
<1>3. ASSUME Own, NEW i \in Whole PROVE constructor[i].op # "constant"
  <2>1. CASE i = End
    BY <2>1 DEF Builds, IsBuild
  <2>2. CASE i \in Parts[End]
    <3>1. i \in Inside[End] \/ \E b \in Parts[End] : IsBuild(b) /\ i \in Inside[b]
      BY <1>1, <2>2, PartsAre
    <3>2. Parts[End] \subseteq DOMAIN constructor
      <4>1. Parts[End] \subseteq 1..(End - 1)
        BY <1>1, Before
      <4> QED BY <1>1, <4>1
    <3> QED BY <1>3, <3>1, <3>2 DEF Own, Builds
  <2> QED BY <1>2, <1>3, <2>1, <2>2
<1>4. ASSUME Builds \subseteq Whole, \A i \in Whole : constructor[i].op # "constant",
             NEW b \in Builds, NEW k \in Inside[b]
      PROVE  constructor[k].op # "constant"
  <2>1. b \in DOMAIN constructor
    BY DEF Builds
  <2>2. k \in Parts[b]
    BY <1>1, <2>1, InsideArePart
  <2>3. Parts[b] \subseteq Parts[End]
    BY <1>1, <1>2, <1>4, PartsOfParts
  <2> QED BY <1>2, <1>4, <2>2, <2>3
<1> QED
  BY <1>3, <1>4 DEF Own

(* The root is the last value, and one of the constructions is an Image's. *)
LEMMA OneImage ==
  ASSUME Complete, End \in Builds, constructor[End].kind = "Image"
  PROVE  Cardinality({i \in DOMAIN constructions : constructions[i].kind = "Image"}) = 1
           <=> \A b \in Builds : constructor[b].kind = "Image" <=> b = End
<1> DEFINE K == {i \in DOMAIN constructions : constructions[i].kind = "Image"}
<1>1. /\ \A p \in DOMAIN constructions : \E b \in Builds : constructions[p] = Construction(b)
      /\ \A b \in Builds : \E p \in DOMAIN constructions : constructions[p] = Construction(b)
      /\ \A p, q \in DOMAIN constructions :
           constructions[p].identity = constructions[q].identity => p = q
  BY CompleteGraph DEF Complete, Recorded
<1>2. \A b : Construction(b).identity = Id(b) /\ Construction(b).kind = constructor[b].kind
  BY DEF Construction
<1>3. \A b, d \in Builds : Id(b) = Id(d) => b = d
  BY CompleteGraph
<1>4. PICK e \in DOMAIN constructions : constructions[e] = Construction(End)
  BY <1>1
<1>5. e \in K
  BY <1>2, <1>4
<1>6. Cardinality(K) = 1 <=> K = {e}
  <2>1. IsFiniteSet(K)
    <3>1. DOMAIN constructions = 1..Len(constructions) /\ Len(constructions) \in Nat
      BY DEF Complete, Recorded
    <3>2. IsFiniteSet(DOMAIN constructions)
      BY <3>1, FS_Interval
    <3> QED BY <3>2, FS_Subset
  <2>2. {e} \subseteq K /\ IsFiniteSet({e}) /\ Cardinality({e}) = 1
    BY <1>5, FS_Singleton
  <2> HIDE DEF K
  <2> QED BY <2>1, <2>2, FS_Subset
<1>7. ASSUME K = {e}, NEW b \in Builds, constructor[b].kind = "Image" PROVE b = End
  <2>1. PICK p \in DOMAIN constructions : constructions[p] = Construction(b)
    BY <1>1
  <2>2. p = e
    BY <1>2, <1>7, <2>1
  <2> QED BY <1>2, <1>3, <1>4, <2>1, <2>2
<1>8. ASSUME \A b \in Builds : constructor[b].kind = "Image" <=> b = End, NEW p \in K PROVE p = e
  <2>1. PICK b \in Builds : constructions[p] = Construction(b)
    BY <1>1
  <2>2. b = End
    BY <1>2, <1>8, <2>1
  <2> QED BY <1>1, <1>2, <1>4, <2>1, <2>2
<1> HIDE DEF K
<1>9. (\A b \in Builds : constructor[b].kind = "Image" <=> b = End) => K = {e}
  BY <1>5, <1>8
<1>10. K = {e} => \A b \in Builds : constructor[b].kind = "Image" <=> b = End
  BY <1>7
<1>11. K = {e} <=> \A b \in Builds : constructor[b].kind = "Image" <=> b = End
  BY <1>9, <1>10
<1> QED
  BY <1>6, <1>11 DEF K

Foreign == \E i \in DOMAIN constructor :
             /\ constructor[i].op = "constant"
             /\ i = Len(constructor) \/ \E b \in Builds : i \in Inside[b]

(* What the sealer decides.                                                *)
LEMMA VerdictExact ==
  ASSUME Complete
  PROVE  /\ Verdict(Last(values)) = "sealed" <=> IsImage
         /\ Verdict(Last(values)) = "Defect" => Foreign
<1> DEFINE root == Last(values)
           one  == Cardinality({i \in DOMAIN constructions : constructions[i].kind = "Image"}) = 1
           all  == Cardinality(Reachable(root.identity)) = Len(constructions)
<1>1. /\ constructor \in Constructors /\ End \in DOMAIN constructor /\ DOMAIN constructor = 1..End
      /\ IsHandle(End)
  BY Evaluations DEF Complete, End, IsHandle
<1>2. root.tag = "handle" /\ root.kind = constructor[End].kind /\ root.identity = Id(End)
  <2>1. root = values[End] /\ End \in 1..Len(values)
    BY <1>1 DEF Complete, Last, End
  <2> QED BY <1>1, <2>1, Values DEF Complete
<1>3. Cardinality(Built) = Len(constructions)
  BY CompleteGraph
<1>4. /\ root.identity \in Built <=> IsBuild(End)
      /\ Own <=> \A identity \in Built : EdgesFrom(identity) \subseteq Built
  BY <1>1, <1>2, OwnClosed DEF EdgesClosed
<1>5. Verdict(root) = "sealed" <=> root.kind = "Image" /\ one /\ IsBuild(End) /\ Own /\ all
  BY <1>2, <1>3, <1>4 DEF Verdict
<1>6. Verdict(root) = "Defect" => ~ IsBuild(End) \/ ~ Own
  BY <1>2, <1>3, <1>4 DEF Verdict
<1> HIDE DEF one, all, root
<1>7. IsBuild(End) <=> End \in Builds
  BY <1>1 DEF Builds
<1>8. Verdict(root) = "sealed" => IsImage
  <2> SUFFICES ASSUME Verdict(root) = "sealed" PROVE IsImage
    OBVIOUS
  <2>1. constructor[End].kind = "Image" /\ one /\ End \in Builds /\ Own /\ all
    BY <1>2, <1>5, <1>7
  <2>2. \A b \in Builds : constructor[b].kind = "Image" <=> b = End
    BY <2>1, OneImage DEF one
  <2>3. Builds \subseteq Whole
    BY <1>2, <2>1, ReachedAre DEF all
  <2>4. \A i \in Whole : constructor[i].op # "constant"
    BY <2>1, OwnParts
  <2>5. \A b, d \in Builds : SameCoordinate(b, d) => b = d
    BY CompleteGraph
  <2> QED BY <1>7, <2>1, <2>2, <2>3, <2>4, <2>5 DEF IsImage, End
<1>9. IsImage => Verdict(root) = "sealed"
  <2> SUFFICES ASSUME IsImage PROVE Verdict(root) = "sealed"
    OBVIOUS
  <2>1. /\ IsBuild(End) /\ End \in Builds /\ Builds \subseteq Whole
        /\ \A b \in Builds : constructor[b].kind = "Image" <=> b = End
        /\ \A i \in Whole : constructor[i].op # "constant"
    BY <1>7 DEF IsImage, End
  <2>2. Own
    BY <2>1, OwnParts
  <2>3. constructor[End].kind = "Image" /\ one
    BY <2>1, OneImage DEF one
  <2>4. all
    BY <1>2, <2>1, <2>2, ReachedAre DEF all
  <2> QED BY <1>2, <1>5, <2>1, <2>2, <2>3, <2>4
<1>10. Verdict(root) = "Defect" => Foreign
  <2>1. ~ IsBuild(End) => Foreign
    BY <1>1 DEF Foreign, IsHandle, IsBuild, End
  <2>2. ~ Own => Foreign
    <3> SUFFICES ASSUME NEW b \in Builds, NEW k \in Inside[b], constructor[k].op = "constant"
                 PROVE  Foreign
      BY DEF Own
    <3>1. k \in DOMAIN constructor
      <4>1. b \in 1..End /\ Inside[b] \subseteq 1..(b - 1)
        BY <1>1, Before DEF Builds
      <4>2. End \in Nat
        BY Evaluations DEF Complete, End
      <4> QED BY <1>1, <4>1, <4>2
    <3> QED BY <3>1 DEF Foreign
  <2> QED BY <1>6, <2>1, <2>2
<1> QED
  BY <1>8, <1>9, <1>10 DEF root

PlanIs(line) ==
  /\ \A test \in ToSet(ProgramTests) :
       /\ test \in Misapplied <=> test \notin ToSet(line)
       /\ test \in ToSet(line) => Cardinality(Holders(test)) = 1
       /\ Holders(test) = {} => test \in Misapplied
  /\ Cardinality(ToSet(line)) = Len(line)
  /\ \A i, k \in DOMAIN line :
       i < k => \E a \in Holders(line[i]), b \in Holders(line[k]) : a[1] <= b[1]

(* What is planned.                                                        *)
LEMMA PlanExact ==
  ASSUME Complete, ApplicationsListed
  PROVE  PlanIs(FlattenSeq([i \in DOMAIN applications |-> Planned(applications[i])]))
<1> DEFINE n    == Len(applications)
           s    == [i \in 1..n |-> Planned(applications[i])]
           Once(test) == test \in ToSet(ProgramTests) /\ Applied(test) = 1
           Q    == {i \in 1..n : Once(applications[i])}
           line == FlattenSeq(s)
           Where(test) == {i \in DOMAIN applications : applications[i] = test}
<1>1. n \in Nat /\ DOMAIN applications = 1..n /\ \A i \in 1..n : applications[i] \in STRING
  BY DEF ApplicationsListed
<1>2. PICK w : Origins(w)
  BY DEF ApplicationsListed
<1>3. Raised = Builds
  BY CompleteGraph
<1>4. \A i \in 1..n : s[i] = IF i \in Q THEN <<applications[i]>> ELSE <<>>
  BY DEF Planned
<1>5. s = [i \in 1..n |-> s[i]] /\ s = [i \in DOMAIN applications |-> Planned(applications[i])]
  BY <1>1
<1>6. ASSUME NEW test PROVE IsFiniteSet(Where(test))
  <2>1. IsFiniteSet(1..n)
    <3> HIDE DEF n
    <3> QED BY <1>1, FS_Interval
  <2>2. Where(test) \subseteq 1..n
    BY <1>1
  <2> HIDE DEF Where, n
  <2> QED BY <2>1, <2>2, FS_Subset
<1>7. ASSUME NEW test PROVE Applied(test) = 1 <=> \E p : Where(test) = {p}
  <2>1. Applied(test) = Cardinality(Where(test))
    BY DEF Applied
  <2> HIDE DEF Where
  <2>2. ASSUME NEW p, Where(test) = {p} PROVE Cardinality(Where(test)) = 1
    BY <2>2, FS_Singleton
  <2>3. ASSUME Cardinality(Where(test)) = 1 PROVE \E p : Where(test) = {p}
    BY <1>6, <2>3, FS_Singleton
  <2> QED BY <2>1, <2>2, <2>3
<1> HIDE DEF n, s, Q
<1>8. line \in Seq(STRING) /\ \E g : Picks(g, line, n, Q, applications)
  BY <1>1, <1>4, <1>5, PicksSome
<1>9. PICK g : Picks(g, line, n, Q, applications)
  BY <1>8
<1> HIDE DEF line
<1>10. Len(line) \in Nat /\ DOMAIN line = 1..Len(line)
  BY <1>8
<1>11. ASSUME NEW i \in DOMAIN line
       PROVE  /\ g[i] \in DOMAIN applications /\ line[i] = applications[g[i]]
              /\ Once(line[i]) /\ Where(line[i]) = {g[i]} /\ w[g[i]] \in Holders(line[i])
  <2>1. g[i] \in DOMAIN applications /\ line[i] = applications[g[i]] /\ Once(line[i])
    BY <1>1, <1>9 DEF Picks, Q
  <2>2. g[i] \in Where(line[i])
    BY <2>1
  <2>3. Where(line[i]) = {g[i]}
    <3> HIDE DEF Where
    <3> QED BY <1>7, <2>1, <2>2
  <2> QED BY <1>2, <2>1, <2>3 DEF Origins
<1>12. ASSUME NEW test, Once(test) PROVE test \in ToSet(line)
  <2>1. PICK p : Where(test) = {p}
    BY <1>7, <1>12
  <2>2. p \in 1..n /\ p \in Q /\ applications[p] = test
    BY <1>1, <1>12, <2>1 DEF Q
  <2>3. PICK i \in DOMAIN line : g[i] = p
    BY <1>9, <2>2 DEF Picks
  <2>4. line[i] = test
    BY <1>11, <2>2, <2>3
  <2> QED BY <2>4 DEF ToSet
<1>13. ASSUME NEW test \in ToSet(line) PROVE Once(test) /\ Cardinality(Holders(test)) = 1
  <2>1. PICK i \in DOMAIN line : line[i] = test
    BY DEF ToSet
  <2>2. /\ Once(test) /\ Where(test) = {g[i]} /\ w[g[i]] \in Holders(test) /\ test \in STRING
    BY <1>1, <1>11, <2>1
  <2>3. ASSUME NEW h \in Holders(test) PROVE h = w[g[i]]
    <3>1. h[1] \in Raised
      BY <1>3 DEF Holders
    <3>2. PICK p \in DOMAIN applications : w[p] = h /\ applications[p] = test
      BY <1>2, <2>2, <3>1 DEF Origins
    <3> QED BY <2>2, <3>2
  <2>4. Holders(test) = {w[g[i]]}
    BY <2>2, <2>3
  <2>5. Cardinality(Holders(test)) = 1
    BY <2>4, FS_Singleton
  <2> QED BY <2>2, <2>5
<1>14. ASSUME NEW test, Holders(test) = {} PROVE Applied(test) # 1
  <2>1. Where(test) = {}
    BY <1>2, <1>14 DEF Origins
  <2> HIDE DEF Where
  <2> QED BY <1>7, <2>1
<1>15. Cardinality(ToSet(line)) = Len(line)
  <2> DEFINE k == Len(line)
             f == [i \in 1..k |-> line[i]]
             T == ToSet(line)
  <2>1. f \in [1..k -> T] /\ \A y \in T : \E i \in 1..k : f[i] = y
    BY <1>10 DEF ToSet
  <2>2. ASSUME NEW i \in 1..k, NEW j \in 1..k, f[i] = f[j] PROVE i = j
    <3>1. g[i] = g[j]
      <4>1. line[i] = line[j] /\ i \in DOMAIN line /\ j \in DOMAIN line
        BY <1>10, <2>2
      <4>2. Where(line[i]) = {g[i]} /\ Where(line[j]) = {g[j]}
        BY <1>11, <4>1
      <4> QED BY <4>1, <4>2
    <3>2. \A a, b \in 1..k : a < b => g[a] < g[b]
      BY <1>9, <1>10 DEF Picks
    <3>3. g[i] \in Nat /\ g[j] \in Nat
      BY <1>1, <1>10, <1>11
    <3> QED BY <1>10, <3>1, <3>2, <3>3
  <2> HIDE DEF f, k, T
  <2>3. f \in Bijection(1..k, T)
    BY <2>1, <2>2 DEF Bijection, Injection, Surjection, IsInjective
  <2>4. k \in Nat
    BY <1>10 DEF k
  <2>5. IsFiniteSet(1..k) /\ Cardinality(1..k) = k
    BY <2>4, FS_Interval
  <2>6. ExistsBijection(1..k, T)
    BY <2>3 DEF ExistsBijection
  <2>7. Cardinality(T) = k
    BY <2>5, <2>6, FS_Bijection
  <2> QED BY <2>7 DEF k, T
<1>16. ASSUME NEW i \in DOMAIN line, NEW k \in DOMAIN line, i < k
       PROVE  \E a \in Holders(line[i]), b \in Holders(line[k]) : a[1] <= b[1]
  <2>1. g[i] < g[k]
    BY <1>9, <1>16 DEF Picks
  <2>2. w[g[i]][1] <= w[g[k]][1]
    BY <1>2, <1>11, <2>1 DEF Origins
  <2> QED BY <1>11, <2>2
<1>17. ASSUME NEW test \in ToSet(ProgramTests)
       PROVE  /\ test \in Misapplied <=> test \notin ToSet(line)
              /\ test \in ToSet(line) => Cardinality(Holders(test)) = 1
              /\ Holders(test) = {} => test \in Misapplied
  BY <1>12, <1>13, <1>14 DEF Misapplied
<1>18. PlanIs(line)
  BY <1>15, <1>16, <1>17 DEF PlanIs
<1> QED
  BY <1>5, <1>18 DEF line

-----------------------------------------------------------------------------
(***************************************************************************)
(* Every step.                                                             *)
(***************************************************************************)

LEMMA InitSeals == SealInit => SealInv
<1> SUFFICES ASSUME SealInit PROVE SealInv
  OBVIOUS
<1>1. constructor \in Constructors /\ values = <<>> /\ constructions = <<>> /\ applications = <<>>
      /\ image = "building"
  BY DEF SealInit
<1>2. ValuesMade
  BY <1>1, Evaluations DEF ValuesMade
<1>3. Raised = {}
  BY <1>1, Evaluations DEF Raised, Builds
<1>4. Recorded
  BY <1>1, <1>3 DEF Recorded
<1>5. Origins(<<>>)
  BY <1>1, <1>3 DEF Origins
<1>6. ApplicationsListed
  BY <1>1, <1>5 DEF ApplicationsListed
<1> QED
  BY <1>1, <1>2, <1>4, <1>6 DEF SealInv, SealExact

LEMMA NextStep ==
  ASSUME SealInv, Building
  PROVE  /\ Len(values) + 1 \in DOMAIN constructor /\ Evaluated = constructor[Len(values) + 1]
         /\ Evaluated.op = "build" <=> Len(values) + 1 \in Builds
BY Evaluations, Values DEF SealInv, Building, Evaluated, Builds, IsBuild

LEMMA OthersKeep ==
  ASSUME SealInv, ApplyTest \/ Gather \/ ReadConstant
  PROVE  SealInv'
<1>1. Building /\ UNCHANGED <<constructor, constructions, applications, image>>
  BY DEF ApplyTest, Gather, ReadConstant
<1> DEFINE b == Len(values) + 1
<1>2. b \in DOMAIN constructor /\ Evaluated = constructor[b]
  BY <1>1, NextStep
<1>3. ~ IsBuild(b) /\ Makes(ValueOf(b))
  <2>1. CASE ApplyTest
    BY <1>2, <2>1 DEF ApplyTest, ValueOf, IsHandle, IsBuild
  <2>2. CASE Gather
    BY <1>2, <2>2 DEF Gather, ValueOf, IsHandle, IsBuild
  <2>3. CASE ReadConstant
    BY <1>2, <2>3 DEF ReadConstant, ValueOf, IsHandle, IsBuild, Id
  <2> QED BY <2>1, <2>2, <2>3
<1>4. ValuesMade' /\ Recorded' /\ ApplicationsListed'
  BY <1>1, <1>3, MakesOther DEF SealInv, Building
<1>5. SealExact'
  BY <1>1 DEF SealExact, Building
<1> QED
  BY <1>1, <1>4, <1>5 DEF SealInv

LEMMA ConstructKeeps ==
  ASSUME SealInv, Construct
  PROVE  SealInv'
<1> DEFINE b == Len(values) + 1
<1>1. Building /\ UNCHANGED constructor /\ Evaluated.op = "build"
  BY DEF Construct
<1>2. b \in DOMAIN constructor /\ b \in Builds /\ Evaluated = constructor[b] /\ Id(b) = <<Evaluated.at, Evaluated.kind>>
  BY <1>1, NextStep DEF Id, Builds
<1>3. constructor \in Constructors /\ ValuesMade /\ Recorded /\ ApplicationsListed
  BY DEF SealInv
<1>4. CASE Id(b) \in Built
  <2>1. image' = "Defect" /\ UNCHANGED <<values, constructions, applications>>
    BY <1>2, <1>4 DEF Construct
  <2>2. \E d \in Builds : d # b /\ SameCoordinate(d, b)
    <3>1. PICK p \in DOMAIN constructions : constructions[p].identity = Id(b)
      BY <1>4 DEF Built
    <3>2. PICK d \in Raised : constructions[p] = Construction(d)
      BY <1>3 DEF Recorded
    <3>3. Id(d) = Id(b) /\ d \in Builds
      BY <3>1, <3>2 DEF Construction, Raised
    <3>4. SameCoordinate(d, b)
      BY <1>2, <3>3 DEF SameCoordinate, Id, Builds
    <3>5. d # b
      BY <1>3, Values DEF Raised
    <3> QED BY <3>3, <3>4, <3>5
  <2>3. ~ IsImage
    BY <1>2, <2>2 DEF IsImage
  <2>4. Builds' = Builds /\ IsImage' = IsImage
    BY <1>1, SameSteps, SameImage
  <2>5. (\E i, k \in Builds : i # k /\ SameCoordinate(i, k))'
    BY <1>1, <1>2, <2>2, <2>4 DEF SameCoordinate
  <2>6. SealExact'
    BY <2>1, <2>3, <2>4, <2>5 DEF SealExact
  <2>7. ValuesMade' /\ Recorded' /\ ApplicationsListed'
    <3>1. \A i : Id(i)' = Id(i) /\ Construction(i)' = Construction(i) /\ ValueOf(i)' = ValueOf(i)
      BY <1>1, SameSteps
    <3>2. \A test : Holders(test)' = Holders(test)
      BY <1>1, SameSteps
    <3>3. Raised' = Raised
      BY <2>1, <2>4 DEF Raised
    <3>4. ValuesMade'
      BY <1>1, <1>3, <2>1, <3>1 DEF ValuesMade
    <3>5. Recorded'
      BY <1>3, <2>1, <2>4, <3>1, <3>3 DEF Recorded
    <3>6. ApplicationsListed'
      BY <1>3, <2>1, <3>2, <3>3 DEF ApplicationsListed, Origins
    <3> QED BY <3>4, <3>5, <3>6
  <2> QED BY <1>1, <1>3, <2>6, <2>7 DEF SealInv
<1>5. CASE Id(b) \notin Built
  <2>1. /\ constructions' = Append(constructions,
             [identity |-> Id(b), kind |-> constructor[b].kind, edges |-> Edges(constructor[b].from)])
        /\ applications' = IF constructor[b].kind = "Test" THEN applications \o Applications(constructor[b].from)
                           ELSE applications
        /\ Makes([tag |-> "handle", kind |-> constructor[b].kind, identity |-> Id(b)])
        /\ UNCHANGED image
    BY <1>2, <1>5 DEF Construct
  <2>2. Makes(ValueOf(b)) /\ constructions' = Append(constructions, Construction(b))
    <3>1. ValueOf(b) = [tag |-> "handle", kind |-> constructor[b].kind, identity |-> Id(b)]
      BY <1>1, <1>2 DEF ValueOf, IsHandle
    <3>2. Edges(constructor[b].from) = Handles(Inside[b])
      BY <1>2, <1>3, EdgesInside
    <3> QED BY <2>1, <3>1, <3>2 DEF Construction
  <2>3. ValuesMade' /\ Raised' = Raised \cup {b}
    <3>1. {d \in Builds : d = b} = {b}
      BY <1>2
    <3> QED BY <1>1, <1>3, <2>2, <3>1, MakesValue DEF Building
  <2>4. Recorded'
    BY <1>1, <1>2, <1>3, <1>5, <2>2, <2>3, RecordsIt
  <2>5. ApplicationsListed'
    <3>1. CASE constructor[b].kind = "Test"
      BY <1>1, <1>2, <1>3, <2>1, <2>3, <3>1, CollectsThem
    <3>2. CASE constructor[b].kind # "Test"
      BY <1>1, <1>2, <1>3, <2>1, <2>3, <3>2, CollectsNone
    <3> QED BY <3>1, <3>2
  <2>6. SealExact'
    BY <1>1, <2>1 DEF SealExact, Building
  <2> QED BY <1>1, <1>3, <2>3, <2>4, <2>5, <2>6 DEF SealInv
<1> QED
  BY <1>4, <1>5

LEMMA SealKeeps ==
  ASSUME SealInv, Seal
  PROVE  SealInv'
<1> DEFINE line == FlattenSeq([i \in DOMAIN applications |-> Planned(applications[i])])
<1>1. /\ UNCHANGED <<constructor, values, constructions, applications>>
      /\ image' = Verdict(Last(values)) /\ plan' = IF image' # "sealed" THEN <<>> ELSE line
  BY DEF Seal
<1>2. Complete /\ ApplicationsListed
  BY DEF SealInv, Seal, Complete
<1>3. /\ image' = "sealed" <=> IsImage
      /\ image' = "Defect" => Foreign
  BY <1>1, <1>2, VerdictExact
<1>4. image' = "sealed" => PlanIs(plan')
  <2>1. PlanIs(line)
    BY <1>2, PlanExact
  <2> HIDE DEF line
  <2> QED BY <1>1, <2>1
<1>5. /\ Builds' = Builds /\ IsImage' = IsImage
      /\ \A i : Id(i)' = Id(i) /\ Construction(i)' = Construction(i) /\ ValueOf(i)' = ValueOf(i)
      /\ \A test : Holders(test)' = Holders(test)
  BY <1>1, SameSteps, SameImage
<1>6. Foreign' = Foreign
  BY <1>1, <1>5, SameInside DEF Foreign
<1>7. PlanIs(plan') => (PlanIs(plan))'
  <2>1. Misapplied' = Misapplied
    BY <1>1 DEF Misapplied, Applied
  <2>2. ASSUME NEW i \in DOMAIN plan' PROVE Holders(plan[i])' = Holders(plan'[i])
    BY SameInside, <1>1, <1>5 DEF Holders
  <2> QED BY <1>5, <2>1, <2>2 DEF PlanIs
<1>8. SealExact'
  <2>1. (image # "building" =>
          /\ image = "sealed" <=> IsImage
          /\ image = "Defect" => (\E i, k \in Builds : i # k /\ SameCoordinate(i, k)) \/ Foreign
          /\ image = "sealed" => PlanIs(plan))'
    BY <1>3, <1>4, <1>5, <1>6, <1>7
  <2> QED BY <2>1 DEF SealExact, Foreign, PlanIs
<1>9. Raised' = Raised
  BY <1>1, <1>5 DEF Raised
<1>10. ValuesMade' /\ Recorded' /\ ApplicationsListed'
  <2>1. ValuesMade'
    BY <1>1, <1>5 DEF SealInv, ValuesMade
  <2>2. Recorded'
    BY <1>1, <1>5, <1>9 DEF SealInv, Recorded
  <2>3. ApplicationsListed'
    BY <1>1, <1>5, <1>9 DEF SealInv, ApplicationsListed, Origins
  <2> QED BY <2>1, <2>2, <2>3
<1> QED
  BY <1>1, <1>8, <1>10 DEF SealInv

LEMMA IdleKeeps ==
  ASSUME SealInv, UNCHANGED sealVars
  PROVE  SealInv'
<1>1. UNCHANGED <<constructor, values, constructions, applications, image, plan>>
  BY DEF sealVars
<1>2. /\ Builds' = Builds /\ IsImage' = IsImage /\ Inside' = Inside
      /\ \A i : Id(i)' = Id(i) /\ Construction(i)' = Construction(i) /\ ValueOf(i)' = ValueOf(i)
      /\ \A test : Holders(test)' = Holders(test)
  BY <1>1, SameSteps, SameImage, SameInside
<1>3. Raised' = Raised
  BY <1>1, <1>2 DEF Raised
<1>4. ValuesMade'
  BY <1>1, <1>2 DEF SealInv, ValuesMade
<1>5. Recorded'
  BY <1>1, <1>2, <1>3 DEF SealInv, Recorded
<1>6. ApplicationsListed'
  BY <1>1, <1>2, <1>3 DEF SealInv, ApplicationsListed, Origins
<1>7. SealExact'
  <2>1. Misapplied' = Misapplied
    BY <1>1 DEF Misapplied, Applied
  <2>2. \A i \in DOMAIN plan : Holders(plan[i])' = Holders(plan[i])
    BY <1>1, <1>2 DEF Holders
  <2> QED BY <1>1, <1>2, <2>1, <2>2 DEF SealInv, SealExact, SameCoordinate
<1> QED
  BY <1>1, <1>4, <1>5, <1>6, <1>7 DEF SealInv

(* The steps of an evaluation, its constructions and what its Tests        *)
(* collected are recorded as they are.                                     *)
LEMMA Seals == SealSpec => []SealInv
<1>1. SealInit => SealInv
  BY InitSeals
<1>2. SealInv /\ [SealNext]_sealVars => SealInv'
  BY ConstructKeeps, OthersKeep, SealKeeps, IdleKeeps DEF SealNext
<1> QED
  BY <1>1, <1>2, PTL DEF SealSpec

(* seal_construction_graph, for every evaluation of an Image Constructor:  *)
(* it seals exactly what is an image with all that was built in it, calls  *)
(* a Defect nothing but a coordinate used twice and what a constant brought*)
(* in, and the plan (plan_tests) has every test that one Test has once.    *)
THEOREM SealedIsWhole == SealSpec => []SealExact
<1>1. SealInv => SealExact
  BY DEF SealInv
<1> QED
  BY <1>1, Seals, PTL

-----------------------------------------------------------------------------

(***************************************************************************)
(* The places of a function, for every set of moved places.                *)
(***************************************************************************)

(* The steps of a path as the source writes them: a field, an element with *)
(* a literal index, an element with any other index.                       *)
ConcreteSteps == {Field(name) : name \in STRING \ {""}} \cup {Element(n) : n \in Int}
PathSteps     == ConcreteSteps \cup {AnyElement}
PlaceKeys     == [local : Int, path : Seq(PathSteps)]

(* A part of the values of a function as it runs, where every index is     *)
(* known, and the parts that a place of the source may stand for.          *)
ConcreteParts == [local : Int, path : Seq(ConcreteSteps)]

StandsFor(step, concrete) ==
  step.field = concrete.field /\ (step.index = {} \/ step.index = concrete.index)

Covers(place, part) ==
  /\ place.local = part.local
  /\ Len(place.path) <= Len(part.path)
  /\ \A i \in DOMAIN place.path : StandsFor(place.path[i], part.path[i])

(* One of the concrete steps that a step stands for.                       *)
Pinned(step) == IF step = AnyElement THEN Element(0) ELSE step

LEMMA StepsOfPaths ==
  ASSUME NEW step \in PathSteps
  PROVE  /\ Pinned(step) \in ConcreteSteps
         /\ StandsFor(step, Pinned(step))
         /\ step.index # {} => Pinned(step) = step
<1>1. CASE step = AnyElement
  <2>1. Pinned(step) = Element(0) /\ Element(0) \in ConcreteSteps
    <3>1. Element(0) \in {Element(n) : n \in Int}
      OBVIOUS
    <3> QED BY <1>1, <3>1 DEF Pinned, ConcreteSteps
  <2>2. step.field = "" /\ step.index = {} /\ Element(0).field = ""
    BY <1>1 DEF AnyElement, Element
  <2> QED BY <2>1, <2>2 DEF StandsFor
<1>2. CASE step # AnyElement
  <2>1. step \in ConcreteSteps
    BY <1>2 DEF PathSteps
  <2> QED BY <1>2, <2>1 DEF Pinned, StandsFor
<1> QED
  BY <1>1, <1>2

(* Two steps that meet stand for one concrete step, the more definite one. *)
LEMMA StepsMeet ==
  ASSUME NEW p \in PathSteps, NEW q \in PathSteps, Meets(p, q)
  PROVE  \E concrete \in ConcreteSteps : StandsFor(p, concrete) /\ StandsFor(q, concrete)
<1>1. CASE p.index # {}
  <2>1. StandsFor(q, p) /\ Pinned(p) = p
    BY <1>1, StepsOfPaths DEF Meets, StandsFor
  <2> QED BY <2>1, StepsOfPaths
<1>2. CASE p.index = {}
  <2>1. StandsFor(q, Pinned(q)) /\ Pinned(q).field = q.field
    BY StepsOfPaths DEF StandsFor
  <2>2. StandsFor(p, Pinned(q))
    BY <1>2, <2>1 DEF Meets, StandsFor
  <2> QED BY <2>1, <2>2, StepsOfPaths
<1> QED
  BY <1>1, <1>2

LEMMA PathsOfPlaces ==
  ASSUME NEW place \in PlaceKeys
  PROVE  /\ place.path \in Seq(PathSteps) /\ Len(place.path) \in Nat
         /\ DOMAIN place.path = 1..Len(place.path) /\ place.local \in Int
         /\ \A i \in DOMAIN place.path : place.path[i] \in PathSteps
BY DEF PlaceKeys

(* PlaceKey::conflicts: two places conflict exactly if there is a part of  *)
(* the values that both may stand for.                                     *)
LEMMA ConflictsAreExact ==
  ASSUME NEW p \in PlaceKeys, NEW q \in PlaceKeys
  PROVE  Conflicts(p, q) <=> \E part \in ConcreteParts : Covers(p, part) /\ Covers(q, part)
<1>1. ASSUME NEW part \in ConcreteParts, Covers(p, part), Covers(q, part)
      PROVE  Conflicts(p, q)
  <2>1. p.local = q.local
    BY <1>1 DEF Covers
  <2>2. ASSUME NEW i \in DOMAIN p.path \cap DOMAIN q.path
        PROVE  Meets(p.path[i], q.path[i])
    <3>1. StandsFor(p.path[i], part.path[i]) /\ StandsFor(q.path[i], part.path[i])
      BY <1>1, <2>2 DEF Covers
    <3> QED BY <3>1 DEF StandsFor, Meets
  <2> QED BY <2>1, <2>2 DEF Conflicts
<1>2. ASSUME Conflicts(p, q)
      PROVE  \E part \in ConcreteParts : Covers(p, part) /\ Covers(q, part)
  <2> DEFINE longest == IF Len(p.path) >= Len(q.path) THEN Len(p.path) ELSE Len(q.path)
             Shared(i, c) == /\ i \in DOMAIN p.path => StandsFor(p.path[i], c)
                             /\ i \in DOMAIN q.path => StandsFor(q.path[i], c)
  <2>1. longest \in Nat /\ Len(p.path) <= longest /\ Len(q.path) <= longest
    BY PathsOfPlaces
  <2>2. ASSUME NEW i \in 1..longest
        PROVE  \E c \in ConcreteSteps : Shared(i, c)
    <3>1. CASE i \in DOMAIN p.path /\ i \in DOMAIN q.path
      <4>1. Meets(p.path[i], q.path[i])
        BY <1>2, <3>1 DEF Conflicts
      <4> QED BY <3>1, <4>1, PathsOfPlaces, StepsMeet
    <3>2. CASE i \in DOMAIN p.path /\ i \notin DOMAIN q.path
      BY <3>2, PathsOfPlaces, StepsOfPaths
    <3>3. CASE i \notin DOMAIN p.path
      <4>1. i \in DOMAIN q.path
        BY <2>2, <3>3, PathsOfPlaces
      <4> QED BY <3>3, <4>1, PathsOfPlaces, StepsOfPaths
    <3> QED BY <3>1, <3>2, <3>3
  <2> DEFINE path == [i \in 1..longest |-> CHOOSE c \in ConcreteSteps : Shared(i, c)]
             part == [local |-> p.local, path |-> path]
  <2>3. \A i \in 1..longest : path[i] \in ConcreteSteps /\ Shared(i, path[i])
    <3>1. TAKE i \in 1..longest
    <3>2. \E c \in ConcreteSteps : Shared(i, c)
      BY <2>2
    <3>3. path[i] = CHOOSE c \in ConcreteSteps : Shared(i, c)
      OBVIOUS
    <3> HIDE DEF path, Shared
    <3> QED BY <3>2, <3>3
  <2>4. path \in Seq(ConcreteSteps) /\ Len(path) = longest
    <3>1. path \in [1..longest -> ConcreteSteps]
      <4>1. DOMAIN path = 1..longest /\ path = [i \in 1..longest |-> path[i]]
        OBVIOUS
      <4> HIDE DEF path
      <4> QED BY <2>3, <4>1
    <3> HIDE DEF path, longest
    <3> QED BY <2>1, <3>1
  <2> HIDE DEF path
  <2>5. part \in ConcreteParts
    BY <2>4, PathsOfPlaces DEF ConcreteParts
  <2>6. Covers(p, part) /\ Covers(q, part)
    <3>1. DOMAIN p.path \subseteq 1..longest /\ DOMAIN q.path \subseteq 1..longest
      BY <2>1, PathsOfPlaces
    <3>2. p.local = q.local
      BY <1>2 DEF Conflicts
    <3> HIDE DEF longest
    <3> QED BY <2>1, <2>3, <2>4, <3>1, <3>2 DEF Covers
  <2> QED BY <2>5, <2>6
<1> QED
  BY <1>1, <1>2

(* MoveState, for every set of moved places: a place cannot be read exactly*)
(* if a part of it may have been moved.  Moving it makes its parts and no  *)
(* other unreadable; restoring it makes it readable again, and gives up    *)
(* none of the moved places that have no part in common with it.           *)
THEOREM MovesAreExact ==
  ASSUME NEW moved \in SUBSET PlaceKeys, NEW place \in PlaceKeys
  PROVE  LET MovedIn(set, part) == \E p \in set : Covers(p, part)
             Overlap(p, q) == \E part \in ConcreteParts : Covers(p, part) /\ Covers(q, part)
         IN  /\ Unreadable(moved, place) <=>
                  \E part \in ConcreteParts : Covers(place, part) /\ MovedIn(moved, part)
             /\ \A part \in ConcreteParts :
                  MovedIn(Moved(moved, place), part) <=> MovedIn(moved, part) \/ Covers(place, part)
             /\ \A part \in ConcreteParts :
                  MovedIn(Restored(moved, place), part) => MovedIn(moved, part) /\ ~ Covers(place, part)
             /\ ~ Unreadable(Restored(moved, place), place)
             /\ \A p \in moved : ~ Overlap(p, place) => p \in Restored(moved, place)
<1>1. \A p \in moved : Conflicts(p, place) <=>
          \E part \in ConcreteParts : Covers(p, part) /\ Covers(place, part)
  BY ConflictsAreExact
<1>2. Unreadable(moved, place) <=>
          \E part \in ConcreteParts : Covers(place, part) /\ \E p \in moved : Covers(p, part)
  BY <1>1 DEF Unreadable
<1>3. \A part \in ConcreteParts :
          (\E p \in Moved(moved, place) : Covers(p, part)) <=>
             (\E p \in moved : Covers(p, part)) \/ Covers(place, part)
  BY DEF Moved
<1>4. \A part \in ConcreteParts : (\E p \in Restored(moved, place) : Covers(p, part)) =>
          (\E p \in moved : Covers(p, part)) /\ ~ Covers(place, part)
  BY <1>1 DEF Restored
<1>5. ~ Unreadable(Restored(moved, place), place)
  BY DEF Unreadable, Restored
<1>6. \A p \in moved : ~ (\E part \in ConcreteParts : Covers(p, part) /\ Covers(place, part)) =>
          p \in Restored(moved, place)
  BY <1>1 DEF Restored
<1> QED
  BY <1>2, <1>3, <1>4, <1>5, <1>6
=============================================================================
