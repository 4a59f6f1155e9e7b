--------------------------- MODULE DiscoveryProofs ---------------------------
(***************************************************************************)
(* Proofs about Discovery, for every set of files, repositories and ids,   *)
(* every page size and number of pages, and every answer GitHub may give.  *)
(***************************************************************************)
EXTENDS Discovery, WellFoundedInduction, TLAPS

LEMMA LeastNatural ==
  ASSUME NEW numbers \in SUBSET Nat, numbers # {}
  PROVE  \E n \in numbers : \A m \in numbers : ~(m < n)
<1> DEFINE Below == {pair \in Nat \X Nat : pair[1] < pair[2]}
<1>1. IsWellFoundedOn(Below, Nat)
  BY NatLessThanWellFounded, Zenon DEF OpToRel
<1>2. \A m, n \in Nat : m < n => <<m, n>> \in Below
  OBVIOUS
<1> HIDE DEF Below
<1>3. \E n \in numbers : \A m \in numbers : <<m, n>> \notin Below
  BY <1>1, WFMin, Zenon
<1> QED
  BY <1>2, <1>3

LEMMA TheFileNames == Range(FileNames) = {"SKILL.md", "SKILLS.md"}
BY DEF Range, FileNames

-----------------------------------------------------------------------------
(* The inductive invariant.                                                *)

QueuedIds == {IdOf[i] : i \in queue}

PageOpen == fetching => pass \in Passes /\ (~last => page < MaxPages)

(* Every id met so far is accounted for, and nothing else is.              *)
AllMet ==
  /\ pass # "failed" => seen \subseteq Range(HandedIds) \cup refused \cup QueuedIds \cup fresh
  /\ Range(HandedIds) \cup refused \cup QueuedIds \subseteq seen

(* What is queued was neither fresh nor handed over, nor is it queued twice.*)
QueuedOnce ==
  /\ QueuedIds \cap (fresh \cup Range(HandedIds)) = {}
  /\ \A i, j \in queue : IdOf[i] = IdOf[j] => i = j

DiscoveryInv ==
  /\ TypeOK
  /\ PageOpen
  /\ AllMet
  /\ QueuedOnce
  /\ FirstOfTree

LEMMA HandedType ==
  ASSUME handed \in Seq(Items)
  PROVE  HandedIds \in Seq(SkillIDs) /\ Range(HandedIds) \subseteq SkillIDs
<1>1. DOMAIN handed = 1..Len(handed) /\ Len(handed) \in Nat
  OBVIOUS
<1>2. \A k \in 1..Len(handed) : IdOf[handed[k]] \in SkillIDs
  BY DEF SkillIDs
<1>3. HandedIds \in [1..Len(handed) -> SkillIDs]
  BY <1>1, <1>2 DEF HandedIds
<1>4. HandedIds \in Seq(SkillIDs)
  BY <1>1, <1>3
<1> QED
  BY <1>3, <1>4 DEF Range

LEMMA HandedAppended ==
  ASSUME handed \in Seq(Items), NEW i \in Items, handed' = Append(handed, i)
  PROVE  /\ HandedIds' = Append(HandedIds, IdOf[i])
         /\ Range(HandedIds') = Range(HandedIds) \cup {IdOf[i]}
<1> DEFINE n == Len(handed)
<1>1. /\ n \in Nat /\ DOMAIN handed = 1..n /\ DOMAIN handed' = 1..(n + 1)
      /\ \A k \in 1..n : handed'[k] = handed[k]
      /\ handed'[n + 1] = i
  OBVIOUS
<1>2. HandedIds = [k \in 1..n |-> IdOf[handed[k]]]
  BY <1>1 DEF HandedIds
<1>3. HandedIds' = [k \in 1..(n + 1) |-> IF k = n + 1 THEN IdOf[i] ELSE HandedIds[k]]
  BY <1>1, <1>2 DEF HandedIds
<1>4. HandedIds \in Seq(SkillIDs) /\ Len(HandedIds) = n
  BY <1>1, <1>2, HandedType
<1>5. HandedIds' = Append(HandedIds, IdOf[i])
  BY <1>3, <1>4
<1>6. Range(HandedIds') = Range(HandedIds) \cup {IdOf[i]}
  <2>1. DOMAIN HandedIds = 1..n /\ DOMAIN HandedIds' = 1..(n + 1)
    BY <1>2, <1>3
  <2>2. \A k \in 1..n : HandedIds'[k] = HandedIds[k]
    BY <1>1, <1>3
  <2>3. HandedIds'[n + 1] = IdOf[i]
    BY <1>1, <1>3
  <2> HIDE DEF n
  <2>4. \A k : k \in 1..(n + 1) <=> k \in 1..n \/ k = n + 1
    BY <1>1 DEF n
  <2> QED
    BY <2>1, <2>2, <2>3, <2>4 DEF Range
<1> QED
  BY <1>5, <1>6

-----------------------------------------------------------------------------
(* A page is listed: the first position of each new id is found.           *)

LEMMA FirstPosition ==
  ASSUME NEW list \in Seq(Items), NEW names, NEW k \in Named(list, names),
         IdOf[list[k]] \notin seen
  PROVE  \E n \in New(list, names) : IdOf[list[n]] = IdOf[list[k]]
<1> DEFINE same == {n \in Named(list, names) : IdOf[list[n]] = IdOf[list[k]]}
<1>1. same \in SUBSET Nat /\ k \in same
  BY DEF Named
<1> HIDE DEF same
<1>2. PICK n \in same : \A m \in same : ~(m < n)
  BY <1>1, LeastNatural
<1> QED
  BY <1>2 DEF same, New

LEMMA EnqueueFacts ==
  ASSUME TypeOK, NEW list \in Seq(Items), NEW names, Enqueue(list, names)
  PROVE  /\ queue' \subseteq Items /\ seen \subseteq seen' /\ seen' \subseteq SkillIDs
         /\ \A i \in queue' :
              IdOf[i] \in seen' /\ IdOf[i] \notin seen /\ IdOf[i] \notin fresh
         /\ \A i, j \in queue' : IdOf[i] = IdOf[j] => i = j
         /\ \A x \in seen' : x \in seen \/ x \in fresh \/ \E i \in queue' : IdOf[i] = x
         /\ \A i \in queue' : \E k \in New(list, names) : i = list[k]
<1>1. \A k \in DOMAIN list : k \in Nat /\ list[k] \in Items /\ IdOf[list[k]] \in SkillIDs
  BY DEF SkillIDs
<1>2. /\ seen' = seen \cup {IdOf[list[k]] : k \in Named(list, names)}
      /\ queue' = {list[k] : k \in {n \in New(list, names) : IdOf[list[n]] \notin fresh}}
  BY DEF Enqueue
<1>3. \A k \in New(list, names) : k \in Named(list, names) /\ IdOf[list[k]] \notin seen
  BY DEF New
<1>4. \A k \in Named(list, names) : k \in DOMAIN list
  BY DEF Named
<1>5. \A j, k \in New(list, names) : IdOf[list[j]] = IdOf[list[k]] => j = k
  <2>1. \A j, k \in New(list, names) : IdOf[list[j]] = IdOf[list[k]] => ~(j < k)
    BY DEF New
  <2> QED
    BY <1>1, <1>3, <1>4, <2>1
<1>6. queue' \subseteq Items /\ seen \subseteq seen' /\ seen' \subseteq SkillIDs
  BY <1>1, <1>2, <1>3, <1>4 DEF TypeOK
<1>7. \A i \in queue' : IdOf[i] \in seen' /\ IdOf[i] \notin seen /\ IdOf[i] \notin fresh
  BY <1>2, <1>3
<1>8. \A i, j \in queue' : IdOf[i] = IdOf[j] => i = j
  BY <1>2, <1>5
<1>9. ASSUME NEW x \in seen', x \notin seen, x \notin fresh
      PROVE  \E i \in queue' : IdOf[i] = x
  <2>1. PICK k \in Named(list, names) : IdOf[list[k]] = x
    BY <1>2, <1>9
  <2>2. PICK n \in New(list, names) : IdOf[list[n]] = x
    BY <1>9, <2>1, FirstPosition
  <2>3. list[n] \in queue'
    BY <1>2, <1>9, <2>2
  <2> QED
    BY <2>2, <2>3
<1>10. \A i \in queue' : \E k \in New(list, names) : i = list[k]
  BY <1>2
<1> QED
  BY <1>6, <1>7, <1>8, <1>9, <1>10

(* What holds after any page has been listed, apart from the order in it.  *)
LEMMA Listed ==
  ASSUME DiscoveryInv, pass \in Passes, ~fetching,
         NEW list \in Seq(Items), NEW names, Enqueue(list, names),
         last' \in BOOLEAN, ~last' => page # MaxPages
  PROVE  (TypeOK /\ PageOpen /\ AllMet /\ QueuedOnce)'
<1>1. queue = {} /\ UNCHANGED <<fresh, pass, page, handed, refused, HandedIds>>
      /\ fetching' = TRUE /\ listed' = list
  BY DEF DiscoveryInv, TypeOK, Enqueue, HandedIds
<1>2. TypeOK
  BY DEF DiscoveryInv
<1>3. TypeOK'
  <2>1. {last', fetching'} \subseteq BOOLEAN
    BY <1>1
  <2>2. queue' \subseteq Items /\ seen' \subseteq SkillIDs
    BY <1>2, EnqueueFacts
  <2> QED
    BY <1>1, <1>2, <2>1, <2>2 DEF TypeOK
<1>4. PageOpen'
  BY <1>1, <1>2, PagesAssumption DEF PageOpen, TypeOK
<1>5. AllMet'
  <2>1. /\ pass # "failed" => seen \subseteq Range(HandedIds) \cup refused \cup fresh
        /\ Range(HandedIds) \cup refused \subseteq seen
    BY <1>1 DEF DiscoveryInv, AllMet, QueuedIds
  <2>2. seen \subseteq seen' /\ QueuedIds' \subseteq seen'
    BY <1>2, EnqueueFacts DEF QueuedIds
  <2>3. \A x \in seen' : x \in seen \/ x \in fresh \/ x \in QueuedIds'
    BY <1>2, EnqueueFacts DEF QueuedIds
  <2> QED
    BY <1>1, <2>1, <2>2, <2>3 DEF AllMet
<1>6. QueuedOnce'
  <2>1. Range(HandedIds) \subseteq seen
    BY DEF DiscoveryInv, AllMet
  <2>2. \A i \in queue' : IdOf[i] \notin seen /\ IdOf[i] \notin fresh
    BY <1>2, EnqueueFacts
  <2>3. \A i, j \in queue' : IdOf[i] = IdOf[j] => i = j
    BY <1>2, EnqueueFacts
  <2> QED
    BY <1>1, <2>1, <2>2, <2>3 DEF QueuedOnce, QueuedIds
<1> QED
  BY <1>3, <1>4, <1>5, <1>6

(* A list made of trees.                                                   *)
LEMMA TreeListType ==
  ASSUME NEW repos, NEW list \in TreeLists(repos)
  PROVE  /\ list \in Seq(Items)
         /\ \A k \in DOMAIN list : k \in Named(list, Range(FileNames))
         /\ \A j, k \in DOMAIN list :
              j < k /\ RepoOf[list[j]] = RepoOf[list[k]] => DepthOf[list[j]] < DepthOf[list[k]]
<1> DEFINE files == {i \in Items : RepoOf[i] \in repos /\ NameOf[i] # "other"}
<1>1. list \in BoundedSeq(files, Cardinality(files))
  BY DEF TreeLists
<1>2. PICK m \in 0..Cardinality(files) : list \in [1..m -> files]
  BY <1>1 DEF BoundedSeq, SeqOf
<1>3. \A i \in files : i \in Items /\ NameOf[i] \in Range(FileNames)
  BY NamesAssumption
<1>4. m \in Nat
  BY <1>2
<1> HIDE DEF files
<1>5. list \in Seq(Items) /\ \A k \in DOMAIN list : k \in Named(list, Range(FileNames))
  <2>1. list \in [1..m -> Items]
    BY <1>2, <1>3
  <2> QED
    BY <1>2, <1>3, <1>4, <2>1 DEF Named
<1>6. \A j, k \in DOMAIN list :
        j < k /\ RepoOf[list[j]] = RepoOf[list[k]] => DepthOf[list[j]] < DepthOf[list[k]]
  BY DEF TreeLists, InTreeOrder
<1> QED
  BY <1>5, <1>6

LEMMA TreeListed ==
  ASSUME DiscoveryInv, pass \in {"official", "popular"}, ~fetching,
         NEW repos, NEW list \in TreeLists(repos), Enqueue(list, Range(FileNames)),
         last' \in BOOLEAN, ~last' => page # MaxPages
  PROVE  DiscoveryInv'
<1>1. list \in Seq(Items)
  BY TreeListType
<1>2. (TypeOK /\ PageOpen /\ AllMet /\ QueuedOnce)'
  BY <1>1, Listed DEF Passes
<1>3. ASSUME NEW i \in queue', NEW j \in Range(list), IdOf[i] = IdOf[j]
      PROVE  DepthOf[i] <= DepthOf[j]
  <2>1. PICK k \in New(list, Range(FileNames)) : i = list[k]
    BY <1>1, EnqueueFacts DEF DiscoveryInv
  <2>2. PICK m \in DOMAIN list : j = list[m]
    BY DEF Range
  <2>3. k \in DOMAIN list /\ k \in Nat /\ m \in Nat /\ i \in Items /\ j \in Items
    BY <1>1, <2>1, <2>2 DEF New, Named
  <2>4. ~(m < k)
    BY <1>3, <2>1, <2>2, TreeListType DEF New
  <2>5. CASE m = k
    BY <2>1, <2>2, <2>3, <2>5, DepthsAssumption
  <2>6. CASE k < m
    <3>1. RepoOf[i] = RepoOf[j]
      BY <1>3, <2>3, IdsAssumption
    <3>2. DepthOf[i] < DepthOf[j]
      BY <2>1, <2>2, <2>3, <2>6, <3>1, TreeListType
    <3> QED
      BY <2>3, <3>2, DepthsAssumption
  <2> QED
    BY <2>3, <2>4, <2>5, <2>6
<1>4. FirstOfTree'
  BY <1>3 DEF FirstOfTree, Enqueue
<1> QED
  BY <1>2, <1>4 DEF DiscoveryInv

-----------------------------------------------------------------------------
(* Every step.                                                             *)

LEMMA StartsEmpty ==
  ASSUME DiscoveryInv, ~fetching
  PROVE  queue = {} /\ QueuedIds = {}
BY DEF DiscoveryInv, TypeOK, QueuedIds

(* A step that only moves on to another page or pass.                      *)
LEMMA MovedOn ==
  ASSUME DiscoveryInv, queue = {}, fetching' = FALSE,
         UNCHANGED <<fresh, last, listed, queue, seen, handed, refused>>,
         pass # "failed", pass' \in Passes \cup {"done"}, page' \in 1..MaxPages
  PROVE  DiscoveryInv'
<1>1. TypeOK'
  BY Zenon DEF DiscoveryInv, TypeOK
<1>2. UNCHANGED <<HandedIds, QueuedIds>>
  BY DEF HandedIds, QueuedIds
<1>3. AllMet' /\ QueuedOnce'
  BY <1>2 DEF DiscoveryInv, AllMet, QueuedOnce
<1>4. PageOpen' /\ FirstOfTree'
  BY DEF PageOpen, FirstOfTree
<1> QED
  BY <1>1, <1>3, <1>4 DEF DiscoveryInv

LEMMA HandStep ==
  ASSUME DiscoveryInv, NEW i, Hand(i)
  PROVE  DiscoveryInv'
<1>1. /\ i \in queue /\ i \in Items /\ queue' = queue \ {i}
      /\ handed' = Append(handed, i)
      /\ UNCHANGED <<fresh, pass, page, last, fetching, listed, seen, refused>>
  BY DEF Hand, DiscoveryInv, TypeOK
<1>2. handed \in Seq(Items)
  BY DEF DiscoveryInv, TypeOK
<1>3. Range(HandedIds') = Range(HandedIds) \cup {IdOf[i]}
  BY <1>1, <1>2, HandedAppended
<1>4. TypeOK'
  <2>1. handed' \in Seq(Items)
    BY <1>1, <1>2
  <2> QED
    BY <1>1, <2>1 DEF DiscoveryInv, TypeOK
<1>5. PageOpen' /\ FirstOfTree'
  BY <1>1 DEF DiscoveryInv, PageOpen, FirstOfTree
<1>6. QueuedIds' = QueuedIds \ {IdOf[i]} /\ IdOf[i] \in QueuedIds
  BY <1>1 DEF DiscoveryInv, QueuedOnce, QueuedIds
<1>7. AllMet' /\ QueuedOnce'
  BY <1>1, <1>3, <1>6 DEF DiscoveryInv, AllMet, QueuedOnce
<1> QED
  BY <1>4, <1>5, <1>7 DEF DiscoveryInv

LEMMA RefuseStep ==
  ASSUME DiscoveryInv, NEW i, Refuse(i)
  PROVE  DiscoveryInv'
<1>1. /\ i \in queue /\ i \in Items /\ queue' = queue \ {i}
      /\ refused' = refused \cup {IdOf[i]}
      /\ UNCHANGED <<fresh, pass, page, last, fetching, listed, seen, handed, HandedIds>>
  BY DEF Refuse, DiscoveryInv, TypeOK, HandedIds
<1>2. TypeOK'
  BY <1>1 DEF DiscoveryInv, TypeOK, SkillIDs
<1>3. PageOpen' /\ FirstOfTree'
  BY <1>1 DEF DiscoveryInv, PageOpen, FirstOfTree
<1>4. QueuedIds' = QueuedIds \ {IdOf[i]} /\ IdOf[i] \in QueuedIds
  BY <1>1 DEF DiscoveryInv, QueuedOnce, QueuedIds
<1>5. AllMet' /\ QueuedOnce'
  BY <1>1, <1>4 DEF DiscoveryInv, AllMet, QueuedOnce
<1> QED
  BY <1>2, <1>3, <1>5 DEF DiscoveryInv

LEMMA FailStep ==
  ASSUME DiscoveryInv, Fail
  PROVE  DiscoveryInv'
<1>1. /\ pass' = "failed" /\ fetching' = FALSE /\ queue' = {} /\ QueuedIds' = {}
      /\ UNCHANGED <<fresh, page, last, listed, seen, handed, refused, HandedIds>>
  BY DEF Fail, HandedIds, QueuedIds
<1>2. TypeOK'
  BY <1>1, Zenon DEF DiscoveryInv, TypeOK
<1>3. PageOpen' /\ FirstOfTree' /\ QueuedOnce'
  BY <1>1 DEF PageOpen, FirstOfTree, QueuedOnce
<1>4. AllMet'
  BY <1>1 DEF DiscoveryInv, AllMet
<1> QED
  BY <1>2, <1>3, <1>4 DEF DiscoveryInv

LEMMA PageDoneStep ==
  ASSUME DiscoveryInv, PageDone
  PROVE  DiscoveryInv'
<1>1. /\ pass \in Passes /\ (~last => page < MaxPages) /\ page \in 1..MaxPages
      /\ 1 \in 1..MaxPages
  BY PagesAssumption DEF DiscoveryInv, PageOpen, TypeOK, PageDone
<1>2. pass \in {"official", "popular", "SKILL.md", "SKILLS.md"}
  BY <1>1, TheFileNames DEF Passes
<1>3. Successor(pass) \in Passes \cup {"done"}
  BY <1>2, TheFileNames DEF Successor, Passes, FileNames
<1>4. pass' \in Passes \cup {"done"} /\ page' \in 1..MaxPages
  BY <1>1, <1>3, PagesAssumption DEF PageDone
<1> QED
  BY <1>2, <1>4, MovedOn DEF PageDone

LEMMA DiscoveryStep ==
  ASSUME DiscoveryInv, [Next]_vars
  PROVE  DiscoveryInv'
<1>1. CASE LoadCatalog
  <2>1. "official" \in Passes /\ page' \in 1..MaxPages
    BY <1>1 DEF LoadCatalog, Passes, DiscoveryInv, TypeOK
  <2> QED
    BY <1>1, <2>1, StartsEmpty, MovedOn DEF LoadCatalog, Listing, DiscoveryInv, TypeOK
<1>2. CASE ListOfficial
  <2>1. PICK repos \in SUBSET Official :
          \E list \in TreeLists(repos) : Enqueue(list, Range(FileNames))
    BY <1>2 DEF ListOfficial
  <2> QED
    BY <1>2, <2>1, TreeListed DEF ListOfficial, Listing
<1>3. CASE ListPopular
  <2>1. PICK repos \in SUBSET Repos :
          /\ \E list \in TreeLists(repos) : Enqueue(list, Range(FileNames))
          /\ last' \in {Cardinality(repos) < PageSize \/ page = MaxPages, TRUE}
    BY <1>3 DEF ListPopular
  <2>2. last' \in BOOLEAN /\ (~last' => page # MaxPages)
    BY <2>1
  <2> QED
    BY <1>3, <2>1, <2>2, TreeListed DEF ListPopular, Listing
<1>4. CASE PopularUnavailable
  <2>1. pass' \in Passes /\ page' \in 1..MaxPages
    BY <1>4, PagesAssumption, TheFileNames DEF PopularUnavailable, Passes, FileNames
  <2>2. /\ pass = "popular" /\ fetching = FALSE /\ fetching' = FALSE
        /\ UNCHANGED <<fresh, last, listed, queue, seen, handed, refused>>
    BY <1>4, Zenon DEF PopularUnavailable, Listing, DiscoveryInv, TypeOK
  <2> QED
    BY <2>1, <2>2, StartsEmpty, MovedOn
<1>5. CASE ListCode
  <2>1. PICK results \in BoundedSeq(Items, PageSize) :
          /\ Enqueue(results, {pass})
          /\ last' \in {Len(results) < PageSize \/ page = MaxPages, TRUE}
    BY <1>5 DEF ListCode
  <2>2. pass \in Range(FileNames) /\ ~fetching
    BY <1>5 DEF ListCode, Listing
  <2>3. results \in Seq(Items)
    BY PagesAssumption DEF BoundedSeq, SeqOf
  <2>4. last' \in BOOLEAN /\ (~last' => page # MaxPages)
    BY <2>1
  <2>5. (TypeOK /\ PageOpen /\ AllMet /\ QueuedOnce)'
    BY <2>1, <2>2, <2>3, <2>4, Listed DEF Passes
  <2>6. FirstOfTree'
    BY <2>1, <2>2, TheFileNames DEF Enqueue, FirstOfTree
  <2> QED
    BY <2>5, <2>6 DEF DiscoveryInv
<1>6. ASSUME NEW i \in queue, Hand(i) \/ Refuse(i) PROVE DiscoveryInv'
  BY <1>6, HandStep, RefuseStep
<1>7. CASE PageDone
  BY <1>7, PageDoneStep
<1>8. CASE Fail
  BY <1>8, FailStep
<1>9. CASE UNCHANGED vars
  <2>1. UNCHANGED <<HandedIds, QueuedIds>>
    BY <1>9 DEF vars, HandedIds, QueuedIds
  <2>2. TypeOK' /\ PageOpen' /\ FirstOfTree'
    BY <1>9 DEF vars, DiscoveryInv, TypeOK, PageOpen, FirstOfTree
  <2>3. AllMet' /\ QueuedOnce'
    BY <1>9, <2>1 DEF vars, DiscoveryInv, AllMet, QueuedOnce
  <2> QED
    BY <2>2, <2>3 DEF DiscoveryInv
<1> QED
  BY <1>1, <1>2, <1>3, <1>4, <1>5, <1>6, <1>7, <1>8, <1>9 DEF Next, Ended

LEMMA DiscoveryInit == Init => DiscoveryInv
<1> SUFFICES ASSUME Init PROVE DiscoveryInv
  OBVIOUS
<1>1. handed = <<>> /\ queue = {} /\ seen = {} /\ refused = {} /\ pass = "catalog"
      /\ fetching = FALSE
  BY DEF Init
<1>2. HandedIds = <<>> /\ Range(HandedIds) = {} /\ QueuedIds = {}
  BY <1>1 DEF HandedIds, QueuedIds, Range
<1>3. TypeOK
  <2>1. {last, fetching} \subseteq BOOLEAN
    BY Zenon DEF Init
  <2>2. page \in 1..MaxPages
    BY PagesAssumption DEF Init
  <2> QED
    BY <2>1, <2>2 DEF Init, TypeOK
<1>4. PageOpen /\ AllMet /\ QueuedOnce
  BY <1>1, <1>2 DEF PageOpen, AllMet, QueuedOnce
<1>5. FirstOfTree
  BY <1>1 DEF FirstOfTree
<1> QED
  BY <1>3, <1>4, <1>5 DEF DiscoveryInv

(* The inductive invariant of discovery, from which the rest is drawn.     *)
THEOREM DiscoveryInvariant == Spec => []DiscoveryInv
BY DiscoveryInit, DiscoveryStep, PTL DEF Spec

(* Every variable of DiscoverStream, client.go:141, keeps its type; the    *)
(* page number stays within its bound, and only an open page has a queue.  *)
THEOREM TypeCorrect == Spec => []TypeOK
<1>1. DiscoveryInv => TypeOK
  BY DEF DiscoveryInv
<1> QED
  BY <1>1, DiscoveryInvariant, PTL

(* client.go:194: an id is skipped as a duplicate only when a file of it   *)
(* was handed over, refused or fresh: a run that ends without an error has *)
(* accounted for every skill it met.                                       *)
THEOREM NothingIsOverlooked == Spec => []NothingOverlooked
<1>1. DiscoveryInv => NothingOverlooked
  <2> SUFFICES ASSUME DiscoveryInv, pass = "done"
               PROVE  seen = Range(HandedIds) \cup refused \cup (seen \cap fresh)
    BY DEF NothingOverlooked
  <2>1. queue = {}
    BY TheFileNames DEF DiscoveryInv, TypeOK, Passes
  <2> QED
    BY <2>1 DEF DiscoveryInv, AllMet, QueuedIds
<1> QED
  BY <1>1, DiscoveryInvariant, PTL

(* client.go:411: of the files of a tree that share an id, the first by    *)
(* depth and path is the one that is fetched.                              *)
THEOREM FirstOfTreeIsFetched == Spec => []FirstOfTree
<1>1. DiscoveryInv => FirstOfTree
  BY DEF DiscoveryInv
<1> QED
  BY <1>1, DiscoveryInvariant, PTL

LEMMA SourceStep ==
  ASSUME DiscoveryInv, [Next]_vars
  PROVE  S!Next \/ UNCHANGED <<fresh, HandedIds, pass \in {"done", "failed"}>>
<1> DEFINE ended == pass \in {"done", "failed"}
<1>1. ASSUME NEW i \in queue, Hand(i) PROVE S!Next
  <2>1. i \in Items /\ handed \in Seq(Items) /\ pass \in Passes
    BY <1>1 DEF DiscoveryInv, TypeOK
  <2>2. IdOf[i] \in SkillIDs /\ IdOf[i] \notin fresh \cup Range(HandedIds)
    BY <2>1 DEF SkillIDs, DiscoveryInv, QueuedOnce, QueuedIds
  <2>3. ~ended
    BY <2>1, TheFileNames DEF Passes
  <2>4. HandedIds' = Append(HandedIds, IdOf[i])
    BY <1>1, <2>1, HandedAppended DEF Hand
  <2>5. S!Hand(IdOf[i])
    <3>1. UNCHANGED <<fresh, ended>>
      BY <1>1 DEF Hand
    <3> QED
      BY <2>2, <2>3, <2>4, <3>1 DEF S!Hand, S!Range, Range
  <2> QED
    BY <2>2, <2>5 DEF S!Next
<1>2. ASSUME UNCHANGED <<fresh, handed>>
      PROVE  \/ S!End \/ UNCHANGED <<fresh, HandedIds, ended>>
             \/ (ended /\ ~ended')
  BY <1>2 DEF S!End, HandedIds
<1>3. ASSUME NEW list, NEW names, Enqueue(list, names) PROVE UNCHANGED <<fresh, handed, pass>>
  BY <1>3 DEF Enqueue
<1>4. ASSUME ~(\E i \in queue : Hand(i))
      PROVE  UNCHANGED <<fresh, handed>> /\ (ended => ended')
  BY <1>3, <1>4, TheFileNames DEF Next, vars, LoadCatalog, ListOfficial, ListPopular,
     PopularUnavailable, ListCode, Listing, Refuse, PageDone, Fail, Ended, DiscoveryInv,
     PageOpen, Passes
<1> QED
  BY <1>1, <1>2, <1>4 DEF S!Next

(* What Indexer assumes of its source in Yield: an id at most once per     *)
(* run, and never a fresh one.                                             *)
THEOREM ImplementsTheSource == Spec => ImplementsSource
<1>1. Init => S!Init
  BY DEF Init, S!Init, HandedIds
<1>2. DiscoveryInv /\ [Next]_vars =>
        S!Next \/ UNCHANGED <<fresh, HandedIds, pass \in {"done", "failed"}>>
  BY SourceStep
<1> QED
  BY <1>1, <1>2, DiscoveryInvariant, PTL DEF Spec, ImplementsSource, S!Spec
=============================================================================
