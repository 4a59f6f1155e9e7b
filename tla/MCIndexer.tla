----------------------------- MODULE MCIndexer -----------------------------
(* Small instances of Indexer.  One supporting-file value changes the hash *)
(* without changing the SKILL.md.                                          *)
EXTENDS Indexer

CONSTANTS c1, c2, x1, x2

MCCandidate(id, document, extras, stars, fresh) ==
  [id |-> id, snapshot |-> [primary |-> document, extras |-> extras],
   stars |-> stars, fresh |-> fresh]

(* One skill in three versions, one of them already skipped as fresh; one  *)
(* with too few stars once; one more, so that more rows await a score than *)
(* a batch of two holds, in Reconcile as in discovery.                     *)
SingleCandidates ==
  {MCCandidate(1, c1, x1, 11, FALSE), MCCandidate(1, c2, x1, 11, FALSE),
   MCCandidate(1, c1, x2, 11, FALSE), MCCandidate(1, c2, x1, 11, TRUE),
   MCCandidate(2, c1, x1, 11, FALSE), MCCandidate(2, c2, x1, 10, FALSE),
   MCCandidate(3, c1, x1, 11, FALSE)}

(* Tables to start from: any row of skill 1; of each other skill an old    *)
(* row that a process left unassessed, or none.                            *)
OldRow == [snapshot |-> [primary |-> c1, extras |-> x1], checked |-> FALSE, fresh |-> FALSE]

SingleInit ==
  Init /\ \A id \in SkillIDs \ {1} : skills[id] \in {OldRow, Absent}

SingleSpec == SingleInit /\ [][Next]_vars /\ Fairness

SmallCandidates ==
  {MCCandidate(1, c1, x1, 11, FALSE), MCCandidate(1, c2, x1, 11, FALSE)}

BothModes == BOOLEAN
OnlyAI == {TRUE}
MCUnstorable == {[primary |-> c1, extras |-> x2]}
=============================================================================
