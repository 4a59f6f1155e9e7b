---------------------------- MODULE Publication ----------------------------
(***************************************************************************)
(* What the catalog promises its readers when LLM enforcement is on.  The  *)
(* only thing a reader sees is which document is published for a skill;    *)
(* the only thing the program owes is that this document was approved.     *)
(* Which skill is assessed when, in which run and by which process is left *)
(* open, and so is withdrawing any skill at any time.                      *)
(***************************************************************************)
CONSTANTS SkillIDs, Documents, Nothing

VARIABLES
  published,  \* published[id]: the document readers get, or Nothing
  approved    \* documents an assessment has passed

Init ==
  /\ published = [id \in SkillIDs |-> Nothing]
  /\ approved = {}

Approve(document) ==
  /\ approved' = approved \cup {document}
  /\ UNCHANGED published

Publish(id, document) ==
  /\ document \in approved
  /\ published' = [published EXCEPT ![id] = document]
  /\ UNCHANGED approved

Withdraw(ids) ==
  /\ published' = [id \in SkillIDs |-> IF id \in ids THEN Nothing ELSE published[id]]
  /\ UNCHANGED approved

Next ==
  \/ \E document \in Documents : Approve(document)
  \/ \E id \in SkillIDs, document \in Documents : Publish(id, document)
  \/ \E ids \in SUBSET SkillIDs : Withdraw(ids)

Spec == Init /\ [][Next]_<<published, approved>>
=============================================================================
