-------------------------------- MODULE Places --------------------------------
(***************************************************************************)
(* The places of a function and the set of places that were moved from:    *)
(* typed_hir.rs, PlaceKey and MoveState.                                   *)
(*                                                                         *)
(* A place is a local and a path of projections.  A projection is a field, *)
(* [field |-> f, index |-> {}], or an array element, whose index is {n}    *)
(* when it is the literal n and {} otherwise, with the field "".           *)
(***************************************************************************)
EXTENDS Integers, Sequences

Field(name)  == [field |-> name, index |-> {}]
Element(n)   == [field |-> "", index |-> {n}]
AnyElement   == [field |-> "", index |-> {}]

Place(local) == [local |-> local, path |-> <<>>]

Meets(p, q) == /\ p.field = q.field
               /\ p.index = {} \/ q.index = {} \/ p.index = q.index

(* Mutant: a place conflicts only with itself.                             *)
ConflictsEqual(p, q) == p = q

(* Two places conflict when one contains the other, as far as is known.    *)
Conflicts(p, q) ==
  /\ p.local = q.local
  /\ \A i \in DOMAIN p.path \cap DOMAIN q.path : Meets(p.path[i], q.path[i])

Unreadable(moved, place) == \E p \in moved : Conflicts(p, place)

(* move_place of a readable place.                                         *)
Moved(moved, place) == moved \cup {place}

(* restore_place drops whatever conflicts.                                 *)
Restored(moved, place) == {p \in moved : ~ Conflicts(p, place)}
=============================================================================
