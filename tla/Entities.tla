------------------------------ MODULE Entities ------------------------------
(***************************************************************************)
(* The engineering entities of a board (shared/entities.ts) and what the   *)
(* semantic actions of the machine API write (server/canvas-api.ts).       *)
(*                                                                         *)
(* An entity is a record whose optional fields may be absent: a function   *)
(* whose domain says which there are.  Titles, authors, times, and the     *)
(* fields that no rule reads are left out; a kind of evidence is a table   *)
(* or it is not.                                                           *)
(***************************************************************************)
EXTENDS Integers, FiniteSets

CONSTANTS
  EntityIds,
  MaxEntities,     \* maxEntitiesPerBoard
  MaxRelations     \* the most relations of an entity

ASSUME EntitiesAssumption == MaxEntities \in Nat /\ MaxRelations \in Nat

EntityTypes == {"component", "experiment", "evidence"}
RelationTypes == {"tests", "supported_by"}
Archived == "archived"

\* STATUS_BY_TYPE, its first status and its last; defaultStatusFor.
DefaultStatus(type) ==
  CASE type = "component" -> "proposed"
    [] type = "experiment" -> "planned"
    [] type = "evidence" -> "active"

StatusesOf(type) ==
  {DefaultStatus(type), Archived} \cup
    CASE type = "component" -> {"active"}
      [] type = "experiment" -> {"completed"}
      [] type = "evidence" -> {}

BaseFields == {"id", "entityType", "status", "relations"}

RequiredFields(type) ==
  BaseFields \cup IF type = "evidence" THEN {"kind", "reference"} ELSE {}

FieldsOf(type) ==
  RequiredFields(type) \cup IF type = "experiment" THEN {"result"} ELSE {}

\* engineeringEntitySchema, strict: nothing missing and nothing unknown.
Valid(entity) ==
  /\ entity.entityType \in EntityTypes
  /\ RequiredFields(entity.entityType) \subseteq DOMAIN entity
  /\ DOMAIN entity \subseteq FieldsOf(entity.entityType)
  /\ entity.status \in StatusesOf(entity.entityType)
  /\ Cardinality(entity.relations) <= MaxRelations

\* { ...whole, ...patch }
Spread(whole, patch) ==
  [f \in DOMAIN whole \cup DOMAIN patch |-> IF f \in DOMAIN patch THEN patch[f] ELSE whole[f]]

\* The candidate of create_entity: the fields a request gives come last, over
\* whatever they name.
NewEntity(id, type, fields) ==
  Spread([id |-> id, entityType |-> type, status |-> DefaultStatus(type), relations |-> {}],
         fields)

\* The candidate of every update.
Patched(entity, fields) == Spread(entity, fields)

WithRelation(entity, type, target) ==
  [entity EXCEPT !.relations = @ \cup {[type |-> type, target |-> target]}]

WithoutRelation(entity, type, target) ==
  [entity EXCEPT !.relations = @ \ {[type |-> type, target |-> target]}]

IsTable(entity) ==
  entity.entityType = "evidence" /\ "kind" \in DOMAIN entity /\ entity.kind = "table"

\* txn.set under the id the record has.
Written(entities, entity) ==
  [id \in DOMAIN entities \cup {entity.id} |-> IF id = entity.id THEN entity ELSE entities[id]]
=============================================================================
