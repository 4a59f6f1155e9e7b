------------------------------- MODULE Source -------------------------------
(***************************************************************************)
(* What an indexing run may rely on from the discovery that feeds it:      *)
(* every skill is handed over at most once per run, and never one that the *)
(* run named as fresh.                                                     *)
(***************************************************************************)
EXTENDS Naturals, Sequences, SequencesExt

CONSTANT SkillIDs

VARIABLES
  fresh,  \* freshIDs, as given by the run
  handed, \* the ids handed over, in order
  ended   \* DiscoverStream has returned

Init == fresh \in SUBSET SkillIDs /\ handed = <<>> /\ ended = FALSE

Hand(id) ==
  /\ ~ended
  /\ id \notin fresh \cup Range(handed)
  /\ handed' = Append(handed, id)
  /\ UNCHANGED <<fresh, ended>>

End == ~ended /\ ended' = TRUE /\ UNCHANGED <<fresh, handed>>

Next == End \/ \E id \in SkillIDs : Hand(id)

Spec == Init /\ [][Next]_<<fresh, handed, ended>>
=============================================================================
