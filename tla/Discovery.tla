------------------------------ MODULE Discovery ------------------------------
(***************************************************************************)
(* DiscoverStream of internal/github: the repositories of the official     *)
(* catalog, the pages of the ranked repository search and the pages of the *)
(* code search for both file names, one after the other, over one set of   *)
(* ids seen.  How the candidates of a page are downloaded is FetchPool.    *)
(***************************************************************************)
EXTENDS Naturals, Sequences, FiniteSets, SequencesExt

CONSTANTS
  Items,    \* files that GitHub lists
  RepoOf,   \* RepoOf[i]: the repository of item i
  IdOf,     \* IdOf[i]: repository and slug of its folder
  NameOf,   \* NameOf[i]: "SKILL.md", "SKILLS.md" or "other"
  DepthOf,  \* DepthOf[i]: its place in the order by depth, then path
  Official, \* repositories of the official catalog
  PageSize, \* 100
  MaxPages  \* maxSearchPages, maxPopularRepositoryPages

Repos == {RepoOf[i] : i \in Items}
SkillIDs == {IdOf[i] : i \in Items}
FileNames == <<"SKILL.md", "SKILLS.md">>

ASSUME NamesAssumption == \A i \in Items : NameOf[i] \in Range(FileNames) \cup {"other"}
ASSUME DepthsAssumption ==
  /\ DepthOf \in [Items -> Nat]
  /\ \A i, j \in Items : RepoOf[i] = RepoOf[j] /\ DepthOf[i] = DepthOf[j] => i = j
ASSUME IdsAssumption == \A i, j \in Items : IdOf[i] = IdOf[j] => RepoOf[i] = RepoOf[j]
ASSUME PagesAssumption == PageSize \in Nat \ {0} /\ MaxPages \in Nat \ {0}

VARIABLES
  fresh,    \* freshIDs, the argument
  pass,     \* "catalog", "official", "popular", a file name, "done" or "failed"
  page,     \* pageNumber
  last,     \* the current page is the last one of its pass
  fetching, \* the current page has been listed
  listed,   \* history: what the current page lists, in order
  queue,    \* pageItems that have not been handled yet
  seen,     \* ids met in this run
  handed,   \* history: items handed to the indexer, in order
  refused   \* history: ids with too few stars or whose file cannot be read

vars == <<fresh, pass, page, last, fetching, listed, queue, seen, handed, refused>>

Passes == {"official", "popular"} \cup Range(FileNames)

TypeOK ==
  /\ fresh \subseteq SkillIDs
  /\ pass \in {"catalog", "done", "failed"} \cup Passes
  /\ page \in 1..MaxPages
  /\ {last, fetching} \subseteq BOOLEAN
  /\ listed \in Seq(Items)
  /\ queue \subseteq Items
  /\ seen \subseteq SkillIDs
  /\ handed \in Seq(Items)
  /\ refused \subseteq SkillIDs
  /\ queue # {} => fetching /\ pass \in Passes

Init ==
  /\ fresh \in SUBSET SkillIDs
  /\ pass = "catalog" /\ page = 1 /\ last = FALSE /\ fetching = FALSE
  /\ listed = <<>> /\ queue = {} /\ seen = {} /\ handed = <<>> /\ refused = {}

-----------------------------------------------------------------------------
(* Listing a page.                                                         *)

(* The positions of a list that count: the code search also returns        *)
(* near-matches of the file name.                                          *)
Named(list, names) == {k \in DOMAIN list : NameOf[list[k]] \in names}

(* Those at which an id appears that is new in this run.                   *)
New(list, names) ==
  {k \in Named(list, names) :
     /\ IdOf[list[k]] \notin seen
     /\ \A j \in Named(list, names) : j < k => IdOf[list[j]] # IdOf[list[k]]}

(* Mutant: what was seen is recorded when the page is done.                *)
EnqueueUnmarked(list, names) ==
  LET new == {k \in Named(list, names) : IdOf[list[k]] \notin seen}
  IN  /\ seen' = seen \cup {IdOf[list[k]] : k \in Named(list, names)}
      /\ queue' = {list[k] : k \in {n \in new : IdOf[list[n]] \notin fresh}}
      /\ listed' = list
      /\ fetching' = TRUE
      /\ UNCHANGED <<fresh, pass, page, handed, refused>>

(* An item of an id that is new in this run is fetched, unless it is fresh.*)
Enqueue(list, names) ==
  /\ seen' = seen \cup {IdOf[list[k]] : k \in Named(list, names)}
  /\ queue' = {list[k] : k \in {n \in New(list, names) : IdOf[list[n]] \notin fresh}}
  /\ listed' = list
  /\ fetching' = TRUE
  /\ UNCHANGED <<fresh, pass, page, handed, refused>>

(* Mutant: the deepest file comes first.                                   *)
DeepestFirst(i, j) == DepthOf[i] > DepthOf[j]

InTreeOrder(i, j) == DepthOf[i] < DepthOf[j]

(* What fetchRepositorySkillItems returns for some repositories: trees,    *)
(* each in its order, one after the other as they arrive.  A tree that     *)
(* cannot be read is left out, and a truncated one lists only some files.  *)
TreeLists(repos) ==
  LET files == {i \in Items : RepoOf[i] \in repos /\ NameOf[i] # "other"}
  IN  {list \in BoundedSeq(files, Cardinality(files)) :
         \A j, k \in DOMAIN list : j < k /\ RepoOf[list[j]] = RepoOf[list[k]] =>
           /\ InTreeOrder(list[j], list[k])
           /\ \A m \in j..k : RepoOf[list[m]] = RepoOf[list[k]]}

Listing(p) == pass = p /\ ~fetching

LoadCatalog ==
  /\ Listing("catalog")
  /\ pass' = "official"
  /\ UNCHANGED <<fresh, page, last, fetching, listed, queue, seen, handed, refused>>

(* Repositories whose metadata cannot be read, or with too few stars, are  *)
(* left out before their trees are read.                                   *)
ListOfficial ==
  /\ Listing("official")
  /\ \E repos \in SUBSET Official : \E list \in TreeLists(repos) : Enqueue(list, Range(FileNames))
  /\ last' = TRUE

ListPopular ==
  /\ Listing("popular")
  /\ \E repos \in SUBSET Repos :
       /\ Cardinality(repos) <= PageSize
       /\ \E list \in TreeLists(repos) : Enqueue(list, Range(FileNames))
       /\ last' \in {Cardinality(repos) < PageSize \/ page = MaxPages, TRUE}

(* The ranked search may fail for reasons other than a limit.              *)
PopularUnavailable ==
  /\ Listing("popular")
  /\ pass' = FileNames[1] /\ page' = 1
  /\ UNCHANGED <<fresh, last, fetching, listed, queue, seen, handed, refused>>

(* Mutant: near-matches of the file name count as seen.                    *)
ListCodeMarkingAll ==
  /\ \E name \in Range(FileNames) : Listing(name)
  /\ \E results \in BoundedSeq(Items, PageSize) :
       /\ seen' = seen \cup {IdOf[i] : i \in Range(results)}
       /\ queue' = {results[k] : k \in {n \in New(results, {pass}) :
                                          IdOf[results[n]] \notin fresh}}
       /\ listed' = results /\ fetching' = TRUE
       /\ last' \in {Len(results) < PageSize \/ page = MaxPages, TRUE}
  /\ UNCHANGED <<fresh, pass, page, handed, refused>>

(* A page of the code search: any files, near-matches of the name among    *)
(* them, in any order, and possibly the same ones as on an earlier page.   *)
ListCode ==
  /\ \E name \in Range(FileNames) : Listing(name)
  /\ \E results \in BoundedSeq(Items, PageSize) :
       /\ Enqueue(results, {pass})
       /\ last' \in {Len(results) < PageSize \/ page = MaxPages, TRUE}

-----------------------------------------------------------------------------
(* Fetching the page that has been listed.                                 *)

Hand(i) ==
  /\ i \in queue
  /\ queue' = queue \ {i}
  /\ handed' = Append(handed, i)
  /\ UNCHANGED <<fresh, pass, page, last, fetching, listed, seen, refused>>

Refuse(i) ==
  /\ i \in queue
  /\ queue' = queue \ {i}
  /\ refused' = refused \cup {IdOf[i]}
  /\ UNCHANGED <<fresh, pass, page, last, fetching, listed, seen, handed>>

Successor(p) ==
  CASE p = "official" -> "popular"
    [] p = "popular"  -> FileNames[1]
    [] p = FileNames[1] -> FileNames[2]
    [] p = FileNames[2] -> "done"

PageDone ==
  /\ fetching /\ queue = {}
  /\ fetching' = FALSE
  /\ IF last
     THEN pass' = Successor(pass) /\ page' = 1
     ELSE page' = page + 1 /\ UNCHANGED pass
  /\ UNCHANGED <<fresh, last, listed, queue, seen, handed, refused>>

(* Mutant: candidates of the page go on being handled.                     *)
FailKeepingQueue ==
  /\ pass \notin {"done", "failed"}
  /\ pass' = "failed"
  /\ UNCHANGED <<fresh, page, last, fetching, listed, queue, seen, handed, refused>>

(* A limit, a shutdown, a catalog or a code search that cannot be loaded,  *)
(* or an error of the indexer end the run.                                 *)
Fail ==
  /\ pass \notin {"done", "failed"}
  /\ pass' = "failed"
  /\ fetching' = FALSE /\ queue' = {}
  /\ UNCHANGED <<fresh, page, last, listed, seen, handed, refused>>

Ended == pass \in {"done", "failed"} /\ UNCHANGED vars

Next ==
  \/ LoadCatalog \/ ListOfficial \/ ListPopular \/ PopularUnavailable \/ ListCode
  \/ \E i \in queue : Hand(i) \/ Refuse(i)
  \/ PageDone \/ Fail \/ Ended

Spec == Init /\ [][Next]_vars

-----------------------------------------------------------------------------
HandedIds == [k \in DOMAIN handed |-> IdOf[handed[k]]]

(* A run that ends without an error has handed over every skill it met,    *)
(* except fresh ones and those whose file was refused: nothing is taken    *)
(* for a duplicate of something that was never fetched.                    *)
NothingOverlooked ==
  pass = "done" => seen = Range(HandedIds) \cup refused \cup (seen \cap fresh)

(* Two folders of a repository may share an id, and a folder may hold both *)
(* file names.  Of the files a tree lists for one id the first by depth    *)
(* and path is fetched, whatever order GitHub and the pool deliver.        *)
FirstOfTree ==
  pass \in {"official", "popular"} =>
    \A i \in queue, j \in Range(listed) :
      IdOf[i] = IdOf[j] => DepthOf[i] <= DepthOf[j]

(* What the indexer relies on.                                             *)
S == INSTANCE Source WITH handed <- HandedIds, ended <- pass \in {"done", "failed"}
ImplementsSource == S!Spec
=============================================================================
