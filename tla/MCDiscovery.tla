---------------------------- MODULE MCDiscovery ----------------------------
(* One official repository with a folder that holds both file names and a  *)
(* deeper folder of the same slug, and another repository with a skill and *)
(* a near-match of the file name in the same folder.                       *)
EXTENDS Discovery

MCItems == {"both1", "both2", "deeper", "skill", "near"}
MCRepoOf == [i \in MCItems |-> IF i \in {"skill", "near"} THEN "other" ELSE "official"]
MCIdOf == [i \in MCItems |-> IF i \in {"skill", "near"} THEN "b" ELSE "a"]
MCNameOf == [i \in MCItems |-> CASE i = "both2" -> "SKILLS.md"
                                 [] i = "near" -> "other"
                                 [] OTHER -> "SKILL.md"]
MCDepthOf == [i \in MCItems |-> CASE i \in {"both1", "skill"} -> 1
                                  [] i \in {"both2", "near"} -> 2
                                  [] OTHER -> 3]
MCOfficial == {"official"}
=============================================================================
