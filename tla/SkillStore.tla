----------------------------- MODULE SkillStore -----------------------------
(***************************************************************************)
(* The skills table of internal/store as a value, with one operator per    *)
(* statement.  PostgreSQL and SQLite run the same statements; each one is  *)
(* atomic, and nothing in the program groups two of them in a transaction. *)
(*                                                                         *)
(* A row keeps what the rest of the program decides on: the file snapshot  *)
(* (the SKILL.md text and everything else), the llm_checked flag, and      *)
(* whether updated_at is still younger than the freshness cutoff.  Names,  *)
(* descriptions, scores of accepted rows and audit texts are left out.     *)
(***************************************************************************)
EXTENDS Naturals, FiniteSets

CONSTANTS
  SkillIDs,       \* skill ids, as naturals so that ORDER BY id has a meaning
  Documents,      \* texts of a SKILL.md
  Extras,         \* the other files of a skill folder, as one value
  EmptyDocument,  \* a SKILL.md of length 0
  NoSkillFile,    \* what a row of an older version has when SKILL.md is missing
  Absent          \* no row

Snapshots == [primary : Documents, extras : Extras]
Row == [snapshot : Snapshots, checked : BOOLEAN, fresh : BOOLEAN]
Table == [SkillIDs -> Row \cup {Absent}]

ASSUME SkillIDsAssumption == SkillIDs \subseteq Nat /\ IsFiniteSet(SkillIDs)
ASSUME DocumentsAssumption == {EmptyDocument, NoSkillFile} \subseteq Documents
ASSUME ExtrasAssumption == Extras # {}
ASSUME AbsentAssumption == Absent \notin Row \cup Snapshots \cup SkillIDs

NewRow(snapshot, checked) ==
  [snapshot |-> snapshot, checked |-> checked, fresh |-> TRUE]

Stored(table) == {id \in SkillIDs : table[id] # Absent}
Unassessed(table) == {id \in Stored(table) : ~table[id].checked}

-----------------------------------------------------------------------------
(* The statements that write.                                              *)

UpsertSkill(table, id, row) == [table EXCEPT ![id] = row]

DeleteSkill(table, id) == [table EXCEPT ![id] = Absent]

(* WHERE id=? AND llm_checked=0: the statement does not compare contents.  *)
UpdateSkillAssessment(table, id) ==
  [table EXCEPT ![id] =
     IF id \in Unassessed(table) THEN NewRow(@.snapshot, TRUE) ELSE @]

(* Start-up removes the rows that have neither SKILL.md nor SKILLS.md.     *)
Migrate(table) ==
  [id \in SkillIDs |->
     IF id \in Stored(table) /\ table[id].snapshot.primary = NoSkillFile
     THEN Absent
     ELSE table[id]]

-----------------------------------------------------------------------------
(* The statements that read.                                               *)

FreshSkillIDs(table) == {id \in Stored(table) : table[id].fresh}

(* content_hash is SHA-256 over all files: equal hash, equal snapshot.     *)
SkillContentHashes(table) ==
  [id \in SkillIDs |->
     IF id \in Stored(table) THEN table[id].snapshot ELSE Absent]

UnassessedSkillCount(table) == Cardinality(Unassessed(table))

(* COALESCE(..., '') for a row without a skill file.                       *)
Contents(row) ==
  IF row.snapshot.primary = NoSkillFile THEN EmptyDocument ELSE row.snapshot.primary

(* ORDER BY id LIMIT limit.                                                *)
UnassessedSkills(table, limit) ==
  LET Before(id) == {other \in Unassessed(table) : other < id}
  IN  {[id |-> id, contents |-> Contents(table[id])] :
         id \in {x \in Unassessed(table) : Cardinality(Before(x)) < limit}}

(* What the catalog endpoints return: with LLM enforcement, checked rows.  *)
Visible(table, llmCheckedOnly) ==
  {id \in Stored(table) : llmCheckedOnly => table[id].checked}
=============================================================================
