---------------------------- MODULE IdentityCatalog ----------------------------
(***************************************************************************)
(* The catalog of identities (identity.rs): every module, declaration,     *)
(* nested declaration, type and specialization has a canonical key, and is *)
(* known by the digest of its key.  Semantic analysis looks identities up, *)
(* the lowering interns types and specializations, and the catalog is      *)
(* finalized when the bodies are known.                                    *)
(*                                                                         *)
(* A revision has                                                          *)
(*   hasher    the modulus of the digest                                   *)
(*   modules   in the order of paths: [path, origin, declarations]; a      *)
(*             declaration is [valid, kind, name, start, nested], start is *)
(*             where it is, what is nested in it is [what, name]           *)
(*   types     what the lowering asks for is made of                       *)
(*   demands   what the lowering asks for: [what "type", type] or          *)
(*             [what "specialization", function, arguments, body], where a *)
(*             body of 0 is that of a function error inference lowered but *)
(*             the program does not demand                                 *)
(* A type is [tag, definition, arguments]; a definition is given by its    *)
(* place in the source, <<path, kind, name>>.                              *)
(***************************************************************************)
EXTENDS Naturals, FiniteSets, Sequences, SequencesExt

CONSTANTS
  Revisions,
  TypeNesting   \* how deep types nest

VARIABLES
  revision,
  halted,     \* the Cancellation
  progress,   \* "catalog", "lowering", "fingerprints", or how it ended
  at,         \* the module and the declaration that are next
  catalog,    \* IdentityCatalog, see Empty
  fulfilled   \* the demands that were answered

identityVars == <<revision, halted, progress, at, catalog, fulfilled>>

(* full_keys, records, the maps from places and from types, and            *)
(* specialization_records.                                                 *)
Empty == [full |-> <<>>, records |-> <<>>, ids |-> <<>>, interned |-> <<>>,
          index |-> <<>>, clash |-> FALSE]

With(function, x, y) ==
  [k \in DOMAIN function \cup {x} |-> IF k = x THEN y ELSE function[k]]

-----------------------------------------------------------------------------
(***************************************************************************)
(* Keys and digests.  A key is a sequence of numbers, its parts prefixed   *)
(* by their lengths; a digest is a number.                                 *)
(***************************************************************************)

IdentityDomain == [module |-> 1, definition |-> 2, type |-> 3, pool |-> 4, specialization |-> 5,
                   generated |-> 6, source_site |-> 7, test |-> 8]

IdentityOrigin == [project |-> 1, authenticated |-> 2, generated |-> 3]

(* The kinds of declarations, and of what is nested in them.               *)
KindName == [function |-> 1, constant |-> 2, pool |-> 3, type_alias |-> 4, struct |-> 5,
             resource_struct |-> 6, enum |-> 7, interface |-> 8, suite |-> 9,
             test |-> 10, variant |-> 11, associated_function |-> 12]

NestedKinds == {"test", "variant", "associated_function"}

Nominals == {"struct", "resource_struct", "enum", "interface"}

Prefixed(parts) == FlattenSeq([i \in DOMAIN parts |-> <<Len(parts[i])>> \o parts[i]])

KeyOf(domain, origin, parts) ==
  <<1, IdentityDomain[domain], 1, IdentityOrigin[origin]>> \o Prefixed(parts)

Digest(key) ==
  LET hash[i \in 0..Len(key)] ==
        IF i = 0 THEN 7 ELSE (31 * hash[i - 1] + key[i] + 1) % revision.hasher
  IN hash[Len(key)]

Before(a, b) ==
  LET common == {i \in DOMAIN a \cap DOMAIN b : a[i] # b[i]}
  IN IF common = {} THEN Len(a) < Len(b)
     ELSE LET first == CHOOSE i \in common : \A k \in common : i <= k
          IN a[first] < b[first]

-----------------------------------------------------------------------------
(***************************************************************************)
(* What parsing and lowering make sure of.                                 *)
(***************************************************************************)

NestedSource == [what: NestedKinds, name: Nat]

DeclarationSource == [valid: BOOLEAN, kind: DOMAIN KindName \ NestedKinds, name: Nat, start: Nat,
                      nested: Seq(NestedSource)]

ModuleSource == [path: Nat, origin: {"project", "authenticated"},
                 declarations: Seq(DeclarationSource)]

(* Where a revision has its definitions.                                   *)
PlacesOf(candidate) ==
  UNION {{<<module.path, declaration.kind, declaration.name>> :
            declaration \in {d \in ToSet(module.declarations) : d.valid}} :
         module \in ToSet(candidate.modules)}

(* The types that nest at most so deep.                                    *)
Shallower(types) == LET upTo[n \in 0..TypeNesting] ==
                          IF n = 0 THEN {}
                          ELSE {t \in types : ToSet(t.arguments) \subseteq upTo[n - 1]}
                    IN upTo[TypeNesting]

(* A type is nominal, with the definition of a type, or has a tag alone.   *)
TypesKnown(candidate) ==
  \A t \in candidate.types :
    /\ t.tag \in Nat /\ t.arguments \in Seq(candidate.types)
    /\ t.tag = 12 <=> t.definition # <<>>
    /\ t.tag = 12 => t.definition \in {p \in PlacesOf(candidate) : p[2] \in Nominals}

DemandKnown(candidate, demand) ==
  \/ demand.what = "type" /\ demand.type \in candidate.types
  \/ /\ demand.what = "specialization"
     /\ demand.function \in PlacesOf(candidate)
     /\ demand.arguments \in Seq(candidate.types)

ASSUME RevisionAssumption ==
  /\ TypeNesting \in Nat \ {0}
  /\ \A candidate \in Revisions :
       /\ candidate.hasher \in Nat \ {0}
       /\ candidate.modules \in Seq(ModuleSource)
       /\ \A m, n \in DOMAIN candidate.modules :
            candidate.modules[m].path = candidate.modules[n].path => m = n
       /\ TypesKnown(candidate) /\ Shallower(candidate.types) = candidate.types
       /\ candidate.demands \in Seq(ToSet(candidate.demands))
       /\ \A i \in DOMAIN candidate.demands : DemandKnown(candidate, candidate.demands[i])

-----------------------------------------------------------------------------
(***************************************************************************)
(* The catalog of the declarations.                                        *)
(***************************************************************************)

Record(domain, key, fingerprint) ==
  [domain |-> domain, key |-> key, digest |-> Digest(key), fingerprint |-> fingerprint]

Aliasing(state, record) == [state EXCEPT !.full = With(@, record.digest, record.key)]   \* mutant

(* intern: a digest stands for one key, or the catalog fails.              *)
Intern(state, record) ==
  IF record.digest \in DOMAIN state.full /\ state.full[record.digest] # record.key
  THEN [state EXCEPT !.clash = TRUE]
  ELSE [state EXCEPT !.full = With(@, record.digest, record.key)]

(* A place is found by the identity that was interned for it.              *)
Declare(state, entry) ==
  IF state.clash THEN state
  ELSE LET after == Intern(state, entry.record)
       IN IF after.clash THEN after
          ELSE [after EXCEPT !.records = Append(@, entry.record),
                             !.ids = With(@, entry.place, entry.record.digest)]

ModuleKey(module) == KeyOf("module", module.origin, <<<<module.path>>>>)

DefinitionKey(module, declaration) ==
  KeyOf("definition", module.origin,
        <<<<Digest(ModuleKey(module))>>, <<KindName[declaration.kind]>>, <<declaration.name>>>>)

NestedKey(module, declaration, nested) ==
  KeyOf("definition", module.origin,
        <<<<Digest(DefinitionKey(module, declaration))>>, <<KindName[nested.what]>>,
          <<nested.name>>>>)

PlaceOf(module, declaration) == <<module.path, declaration.kind, declaration.name>>

(* What is interned, where it is found, and its record.                    *)
Entry(module, declaration, domain, what, name, key) ==
  [place  |-> <<domain, PlaceOf(module, declaration), what, name>>,
   record |-> Record(domain, key, <<module.path, declaration.start>>)]

(* What is nested in a declaration is a definition; tests and variants are *)
(* interned a second time.                                                 *)
NestedEntries(module, declaration, nested) ==
  LET key   == NestedKey(module, declaration, nested)
      owner == Digest(DefinitionKey(module, declaration))
      entry(domain, k) == Entry(module, declaration, domain, nested.what, nested.name, k)
  IN <<entry("definition", key)>>
     \o CASE nested.what = "test" ->
               <<entry("test", KeyOf("test", module.origin, <<<<owner>>, <<Digest(key)>>>>))>>
          [] nested.what = "variant" ->
               <<entry("generated", KeyOf("generated", module.origin, <<<<Digest(key)>>>>))>>
          [] nested.what = "associated_function" -> <<>>

(* What a declaration is interned as: its definition, its site, its type   *)
(* or pool, and what is nested in it.                                      *)
Entries(module, declaration) ==
  LET id == Digest(DefinitionKey(module, declaration))
      entry(domain, name, key) == Entry(module, declaration, domain, "", name, key)
      own(domain) == entry(domain, 0, KeyOf(domain, module.origin, <<<<id>>>>))
  IN <<entry("definition", 0, DefinitionKey(module, declaration)),
       entry("source_site", declaration.start,
             KeyOf("source_site", module.origin, <<<<id>>, <<declaration.start>>>>))>>
     \o (CASE declaration.kind \in Nominals -> <<own("type")>>
           [] declaration.kind = "pool"     -> <<own("pool")>>
           [] OTHER                         -> <<>>)
     \o FlattenSeq([i \in DOMAIN declaration.nested |->
                      NestedEntries(module, declaration, declaration.nested[i])])

ModuleEntry(module) == [place  |-> <<"module", <<module.path>>, "", 0>>,
                        record |-> Record("module", ModuleKey(module), <<module.path>>)]

(* One after the other.                                                    *)
Declaring(state, entries) ==
  LET after[n \in 0..Len(entries)] == IF n = 0 THEN state ELSE Declare(after[n - 1], entries[n])
  IN after[Len(entries)]

Continues(state, next) == /\ catalog' = state
                          /\ progress' = IF state.clash THEN "collision" ELSE next

ModuleHere == revision.modules[at.module]

(* Modules and declarations are catalogued one by one, each after a poll.  *)
CatalogModule ==
  /\ progress = "catalog" /\ at.module <= Len(revision.modules) /\ at.declaration = 0
  /\ IF halted THEN progress' = "cancelled" /\ UNCHANGED <<catalog, at>>
     ELSE /\ Continues(Declare(catalog, ModuleEntry(ModuleHere)), "catalog")
          /\ at' = [at EXCEPT !.declaration = 1]
  /\ UNCHANGED <<revision, halted, fulfilled>>

CatalogDeclaration ==
  /\ progress = "catalog" /\ at.module <= Len(revision.modules)
  /\ at.declaration \in DOMAIN ModuleHere.declarations
  /\ LET declaration == ModuleHere.declarations[at.declaration]
     IN IF halted THEN progress' = "cancelled" /\ UNCHANGED <<catalog, at>>
        ELSE /\ at' = [at EXCEPT !.declaration = @ + 1]
             /\ IF declaration.valid
                THEN Continues(Declaring(catalog, Entries(ModuleHere, declaration)), "catalog")
                ELSE UNCHANGED <<catalog, progress>>
  /\ UNCHANGED <<revision, halted, fulfilled>>

EndModule ==
  /\ progress = "catalog" /\ at.module <= Len(revision.modules)
  /\ at.declaration > Len(ModuleHere.declarations) /\ at.declaration > 0
  /\ at' = [module |-> at.module + 1, declaration |-> 0]
  /\ UNCHANGED <<revision, halted, progress, catalog, fulfilled>>

(* A stable sort by key: a record goes behind those that it is not before. *)
Inserted(sorted, record) ==
  LET earlier == {k \in DOMAIN sorted : ~ Before(record.key, sorted[k].key)}
      p       == CHOOSE p \in 0..Len(sorted) : earlier = 1..p
  IN InsertAt(sorted, p + 1, record)

InKeyOrder(list) ==
  LET sorted[n \in 0..Len(list)] == IF n = 0 THEN <<>> ELSE Inserted(sorted[n - 1], list[n])
  IN sorted[Len(list)]

(* dedup_by: a record goes if the one before it has its key.               *)
Deduplicated(list) ==
  LET kept[n \in 0..Len(list)] ==
        IF n = 0 THEN <<>>
        ELSE IF n > 1 /\ list[n - 1].key = list[n].key THEN kept[n - 1]
        ELSE Append(kept[n - 1], list[n])
  IN kept[Len(list)]

(* Nothing is lowered if a declaration is not valid, or declared twice.    *)
Malformed ==
  \E m \in DOMAIN revision.modules :
    LET declarations == revision.modules[m].declarations
    IN \/ \E i \in DOMAIN declarations : ~ declarations[i].valid
       \/ \E i, k \in DOMAIN declarations :
            i # k /\ declarations[i].name = declarations[k].name

EndCatalog ==
  /\ progress = "catalog" /\ at.module > Len(revision.modules)
  /\ Continues([catalog EXCEPT !.records = Deduplicated(InKeyOrder(@))],
               IF Malformed THEN "diagnosed" ELSE "lowering")
  /\ UNCHANGED <<revision, halted, at, fulfilled>>

-----------------------------------------------------------------------------
(***************************************************************************)
(* What the lowering asks for.                                             *)
(***************************************************************************)

Definition(ids, place) == ids[<<"definition", place, "", 0>>]

(* Type::canonical_key, of types that nest deeper and deeper.              *)
CanonicalKey(ids, type) ==
  LET key[n \in 0..TypeNesting] ==
        [t \in revision.types |->
           IF n = 0 THEN <<>>
           ELSE (IF t.definition = <<>> THEN <<t.tag>>
                 ELSE <<t.tag, Definition(ids, t.definition), Len(t.arguments)>>)
                \o FlattenSeq([i \in DOMAIN t.arguments |-> key[n - 1][t.arguments[i]]])]
  IN key[TypeNesting][type]

(* The types in a type, before it.                                         *)
PostOrder(type) ==
  LET order[n \in 0..TypeNesting] ==
        [t \in revision.types |->
           IF n = 0 THEN <<>>
           ELSE FlattenSeq([i \in DOMAIN t.arguments |-> order[n - 1][t.arguments[i]]])
                \o <<t>>]
  IN order[TypeNesting][type]

TypeRecord(ids, type) ==
  LET key == KeyOf("type", "generated", <<CanonicalKey(ids, type)>>)
  IN Record("type", key, key)

SpecializationRecord(ids, demand) ==
  LET key == KeyOf("specialization", "generated",
                   <<<<Definition(ids, demand.function)>>>>
                   \o [i \in DOMAIN demand.arguments |-> CanonicalKey(ids, demand.arguments[i])])
  IN Record("specialization", key, key)

(* push_record: once per key; specializations are indexed.                 *)
Push(state, record) ==
  IF state.clash \/ \E i \in DOMAIN state.records : state.records[i].key = record.key THEN state
  ELSE [state EXCEPT !.records = Append(@, record),
                     !.index = IF record.domain # "specialization" THEN @
                               ELSE With(@, record.digest, Len(state.records) + 1)]

(* intern_type: a nominal without arguments has the identity that its      *)
(* declaration was given.                                                  *)
IsDeclared(type) == type.definition # <<>> /\ type.arguments = <<>>

InternType(state, type) ==
  LET key    == CanonicalKey(state.ids, type)
      place  == <<"type", type.definition, "", 0>>
      record == TypeRecord(state.ids, type)
  IN CASE state.clash \/ key \in DOMAIN state.interned -> state
       [] OTHER ->
            IF ~ IsDeclared(type)
            THEN [Push(Intern(state, record), record) EXCEPT
                    !.interned = With(@, key, record.digest)]
            ELSE IF place \in DOMAIN state.ids
            THEN [state EXCEPT !.interned = With(@, key, state.ids[place])]
            ELSE [state EXCEPT !.clash = TRUE]

InternTypes(state, types) ==
  LET after[n \in 0..Len(types)] == IF n = 0 THEN state ELSE InternType(after[n - 1], types[n])
  IN after[Len(types)]

NextDemand == revision.demands[fulfilled + 1]

Asked(what) ==
  progress = "lowering" /\ fulfilled < Len(revision.demands) /\ NextDemand.what = what

DemandType ==
  /\ Asked("type")
  /\ Continues(InternTypes(catalog, PostOrder(NextDemand.type)), "lowering")
  /\ fulfilled' = fulfilled + 1
  /\ UNCHANGED <<revision, halted, at>>

DemandSpecialization ==
  /\ Asked("specialization")
  /\ LET record == SpecializationRecord(catalog.ids, NextDemand)
     IN Continues(Push(Intern(catalog, record), record), "lowering")
  /\ fulfilled' = fulfilled + 1
  /\ UNCHANGED <<revision, halted, at>>

(* The specializations that have a body in the program, by their identity. *)
DemandsOf(what) == {i \in DOMAIN revision.demands : revision.demands[i].what = what}

Bodies(ids) ==
  LET digest == [i \in DemandsOf("specialization") |->
                   SpecializationRecord(ids, revision.demands[i]).digest]
      whole == {i \in DOMAIN digest : revision.demands[i].body # 0}
  IN [d \in {digest[i] : i \in whole} |->
        revision.demands[CHOOSE i \in whole : digest[i] = d].body]

(* set_specialization_fingerprint, for every body                          *)
Fingerprinted(state) ==
  LET bodies == Bodies(state.ids)
      bodyAt(i) == {d \in DOMAIN bodies : state.index[d] = i}
  IN [state EXCEPT !.records = [i \in DOMAIN @ |->
        IF bodyAt(i) = {} THEN @[i]
        ELSE [@[i] EXCEPT !.fingerprint = <<"body", bodies[CHOOSE d \in bodyAt(i) : TRUE]>>]]]

RebuiltIndex(list) ==
  LET own == {i \in DOMAIN list : list[i].domain = "specialization"}
  IN [d \in {list[i].digest : i \in own} |-> CHOOSE i \in own : list[i].digest = d]

Finalize(state) == LET sorted == InKeyOrder(state.records)
                   IN [state EXCEPT !.records = sorted, !.index = RebuiltIndex(sorted)]

(* The bodies are known: their fingerprints, then the order of the keys.   *)
EndLowering ==
  /\ progress = "lowering" /\ fulfilled = Len(revision.demands)
  /\ IF DOMAIN Bodies(catalog.ids) \subseteq DOMAIN catalog.index
     THEN Continues(Finalize(Fingerprinted(catalog)), "final")
     ELSE progress' = "defect" /\ UNCHANGED catalog
  /\ UNCHANGED <<revision, halted, at, fulfilled>>

-----------------------------------------------------------------------------

IdentityInit == /\ revision \in Revisions
                /\ halted = FALSE
                /\ progress = "catalog"
                /\ at = [module |-> 1, declaration |-> 0]
                /\ catalog = Empty
                /\ fulfilled = 0

IdentityNext == \/ CatalogModule \/ CatalogDeclaration \/ EndModule \/ EndCatalog
                \/ DemandType \/ DemandSpecialization \/ EndLowering

IdentityEnded == progress \in {"final", "diagnosed", "collision", "cancelled", "defect"}

CancelIdentities == /\ ~ halted /\ progress = "catalog"
                    /\ halted' = TRUE
                    /\ UNCHANGED <<revision, progress, at, catalog, fulfilled>>

IdentitySpec == IdentityInit /\ [][IdentityNext \/ CancelIdentities]_identityVars

-----------------------------------------------------------------------------
(***************************************************************************)
(* What is identified, without an order of steps.                          *)
(***************************************************************************)

DeclaredIn(module) ==
  {ModuleEntry(module)}
  \cup UNION {ToSet(Entries(module, d)) : d \in {d \in ToSet(module.declarations) : d.valid}}

Declared == UNION {DeclaredIn(module) : module \in ToSet(revision.modules)}

(* The record of a specialization, with the fingerprint of its body.       *)
WithBody(bodies, record) ==
  IF record.domain = "specialization" /\ record.digest \in DOMAIN bodies
  THEN [record EXCEPT !.fingerprint = <<"body", bodies[record.digest]>>]
  ELSE record

(* What is generated when all declarations have their identity.            *)
Generated(ids) ==
  {SpecializationRecord(ids, revision.demands[i]) : i \in DemandsOf("specialization")}
  \cup UNION {{TypeRecord(ids, t) :
                 t \in {t \in ToSet(PostOrder(revision.demands[i].type)) : ~ IsDeclared(t)}} :
              i \in DemandsOf("type")}

Expected == {e.record : e \in Declared}
            \cup IF at.module <= Len(revision.modules) THEN {}
                 ELSE {WithBody(Bodies(catalog.ids), record) : record \in Generated(catalog.ids)}

(* A digest never stands for two keys: where two keys clash the catalog    *)
(* fails, and it fails only there.  What semantic analysis looks up is     *)
(* there and no two places share an identity.  The final                   *)
(* catalog has everything that was declared or demanded once, in the order *)
(* of the keys, whatever was demanded first; every specialization is found *)
(* at its own record, with the fingerprint of its body if it has one.      *)
IdentitiesUnique ==
  /\ \A r \in ToSet(catalog.records) : catalog.full[r.digest] = r.key
  /\ progress = "collision" =>
       \E a, b \in Expected : a.key # b.key /\ a.digest = b.digest
  /\ progress \in {"lowering", "final", "diagnosed"} =>
       /\ DOMAIN catalog.ids = {e.place : e \in Declared}
       /\ \A p, q \in DOMAIN catalog.ids : catalog.ids[p] = catalog.ids[q] => p = q
  /\ progress # "defect"
  /\ progress = "final" =>
       /\ ToSet(catalog.records) = Expected
       /\ \A i \in DOMAIN catalog.records :
            /\ i > 1 => Before(catalog.records[i - 1].key, catalog.records[i].key)
            /\ catalog.records[i].domain = "specialization" =>
                 catalog.index[catalog.records[i].digest] = i
=============================================================================
