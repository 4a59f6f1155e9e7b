------------------------------- MODULE HttpApi -------------------------------
(***************************************************************************)
(* The requests of internal/httpapi, statement by statement, over the      *)
(* skills, the API keys and the download counts, while the indexer writes  *)
(* skills, keys expire, and administrators create and revoke keys.         *)
(*                                                                         *)
(* A handler keeps nothing between two statements but its local variables; *)
(* no two statements of it are one transaction.  Whether the limiter       *)
(* admits a request is left open: that is the module Limiter.  Requests    *)
(* that are answered without any statement (probes, documentation,         *)
(* malformed parameters, other methods and paths) are left out.            *)
(***************************************************************************)
EXTENDS SkillStore

CONSTANTS
  Requests,   \* requests that may be in flight; each is made once
  KeyIDs,     \* ids of API keys
  Master,     \* the master token
  PerPage,    \* skills on a page
  LastPage,   \* bound on the page asked for
  MaxWrites,  \* bound on the statements of indexers
  MaxFaults   \* bound on failed statements

ASSUME RequestsAssumption == IsFiniteSet(Requests)
ASSUME KeysAssumption == Master \notin KeyIDs
ASSUME PerPageAssumption == PerPage \in Nat \ {0}
ASSUME BoundsAssumption == {LastPage, MaxWrites, MaxFaults} \subseteq Nat

VARIABLES
  skills,         \* the table of skills
  keys,           \* keys[k]: state of the row of key k
  issued,         \* keys whose token was returned to an administrator
  downloads,      \* downloads[id][k]: the count of a skill and a key, 0 for no row
  llmCheckedOnly, \* enforcement, from the settings
  pc,             \* pc[c]: the statement request c is at
  request,        \* request[c]: what it asks for
  total,          \* total[c]: local result of a first statement
  listed,         \* listed[c]: likewise
  answer,         \* answer[c]: status and body
  faulty,         \* history: requests one of whose statements failed
  erased,         \* history: downloads[id][k] lost when rows were deleted
  since,          \* history: what was so at some instant since c arrived
  writes, faults

stores == <<skills, keys, issued, downloads, erased, writes>>
locals == <<total, listed>>
vars == <<stores, locals, llmCheckedOnly, pc, request, answer, faulty, since, faults>>

Tokens == KeyIDs \cup {Master}

(* "search" stands for search and curated, which are one SELECT each.      *)
Request ==
  [endpoint : {"detail", "audit"}, token : Tokens, skill : SkillIDs]
    \cup [endpoint : {"list"}, token : Tokens, page : 0..LastPage]
    \cup [endpoint : {"search", "stats", "create"}, token : Tokens]
    \cup [endpoint : {"revoke"}, token : Tokens, key : KeyIDs]

NoRequest == [endpoint |-> "none", token |-> Master]

IsAdmin(r) == r.endpoint \in {"stats", "create", "revoke"}

Counts == [SkillIDs -> [KeyIDs -> Nat]]
NoDownloads == [k \in KeyIDs |-> 0]
NoCounts == [id \in SkillIDs |-> NoDownloads]

Answer == [status : {0, 200, 201, 204, 401, 404, 429, 503},
           shown : SUBSET SkillIDs, hasMore : BOOLEAN, downloads : Counts]
NoAnswer == [status |-> 0, shown |-> {}, hasMore |-> FALSE, downloads |-> NoCounts]

-----------------------------------------------------------------------------
(* Histories.  Catalog(c) is what request c may be answered with.          *)

Catalog(c) ==
  IF request[c].endpoint = "stats" THEN Stored(skills)
  ELSE Visible(skills, llmCheckedOnly \/ request[c].endpoint = "audit")

Usable(token) == token = Master \/ (token \in KeyIDs /\ keys[token] = "active")

Unseen == [ever |-> {}, always |-> {}, usable |-> {}, grew |-> FALSE, due |-> NoCounts]

Sight(c) ==
  [ever |-> Catalog(c), always |-> Catalog(c), usable |-> {Usable(request[c].token)},
   grew |-> FALSE,
   due |-> IF request[c].endpoint = "stats" THEN downloads ELSE NoCounts]

(* due keeps the downloads at arrival of the skills that are still there.  *)
Observe ==
  since' = [c \in Requests |->
    IF pc'[c] \in {"new", "done"} THEN Unseen
    ELSE IF pc[c] = "new" THEN Sight(c)'
    ELSE [ever |-> since[c].ever \cup Catalog(c)',
          always |-> since[c].always \cap Catalog(c)',
          usable |-> since[c].usable \cup {Usable(request[c].token)'},
          grew |-> since[c].grew \/ ~(Catalog(c)' \subseteq Catalog(c)),
          due |-> [id \in SkillIDs |->
                     IF id \in Stored(skills)' THEN since[c].due[id] ELSE NoDownloads]]]

-----------------------------------------------------------------------------
TypeOK ==
  /\ skills \in Table
  /\ keys \in [KeyIDs -> {"none", "active", "expired", "revoked"}]
  /\ issued \subseteq KeyIDs
  /\ downloads \in Counts /\ erased \in Counts
  /\ \A id \in SkillIDs \ Stored(skills) : downloads[id] = NoDownloads
  /\ llmCheckedOnly \in BOOLEAN
  /\ pc \in [Requests -> {"new", "verify", "get", "record", "count", "page", "query",
                          "skills", "clients", "insert", "revoke", "done"}]
  /\ request \in [Requests -> Request \cup {NoRequest}]
  /\ total \in [Requests -> Nat]
  /\ listed \in [Requests -> SUBSET SkillIDs]
  /\ answer \in [Requests -> Answer]
  /\ faulty \subseteq Requests
  /\ writes \in 0..MaxWrites /\ faults \in 0..MaxFaults

AnySnapshot == CHOOSE snapshot \in Snapshots : TRUE

(* Any catalog and any keys of earlier times; the tokens are with clients. *)
Init ==
  /\ skills \in [SkillIDs -> {NewRow(AnySnapshot, checked) : checked \in BOOLEAN} \cup {Absent}]
  /\ keys \in [KeyIDs -> {"none", "active"}]
  /\ issued = {k \in KeyIDs : keys[k] # "none"}
  /\ downloads = NoCounts /\ erased = NoCounts
  /\ llmCheckedOnly \in BOOLEAN
  /\ pc = [c \in Requests |-> "new"]
  /\ request = [c \in Requests |-> NoRequest]
  /\ total = [c \in Requests |-> 0]
  /\ listed = [c \in Requests |-> {}]
  /\ answer = [c \in Requests |-> NoAnswer]
  /\ faulty = {}
  /\ since = [c \in Requests |-> Unseen]
  /\ writes = 0 /\ faults = 0

-----------------------------------------------------------------------------
Goto(c, label) == pc' = [pc EXCEPT ![c] = label] /\ UNCHANGED <<answer, locals>>

(* The local variables end with the handler.                               *)
Reply(c, reply) ==
  /\ pc' = [pc EXCEPT ![c] = "done"]
  /\ total' = [total EXCEPT ![c] = 0]
  /\ listed' = [listed EXCEPT ![c] = {}]
  /\ answer' = [answer EXCEPT ![c] = reply]

Status(code) == [NoAnswer EXCEPT !.status = code]
Body(shown) == [Status(200) EXCEPT !.shown = shown]

First(endpoint) ==
  CASE endpoint \in {"detail", "audit"} -> "get"
    [] endpoint = "list" -> "count"
    [] endpoint = "search" -> "query"
    [] endpoint = "stats" -> "skills"
    [] endpoint = "create" -> "insert"
    [] endpoint = "revoke" -> "revoke"

(* The limiter admits the key and the endpoint's handler starts, or not.   *)
Admit(c, r) == Goto(c, First(r.endpoint)) \/ Reply(c, Status(429))

(* ServeHTTP up to the first statement.                                    *)
Arrive(c) ==
  /\ pc[c] = "new"
  /\ \E r \in Request :
       /\ r.token \in issued \cup {Master}
       /\ request' = [request EXCEPT ![c] = r]
       /\ CASE IsAdmin(r) /\ r.token # Master -> Reply(c, Status(401))
            [] IsAdmin(r) /\ r.token = Master -> Goto(c, First(r.endpoint))
            [] ~IsAdmin(r) /\ r.token = Master -> Admit(c, r)
            [] ~IsAdmin(r) /\ r.token # Master -> Goto(c, "verify")
  /\ UNCHANGED <<stores, llmCheckedOnly, faulty, faults>>
  /\ Observe

(* A statement of c that changes no table and meets no failure.            *)
Statement(c, label) ==
  /\ pc[c] = label
  /\ UNCHANGED <<stores, llmCheckedOnly, request, faulty, faults>>

(* Mutant: only the expiry of a key is looked at.                          *)
VerifyIgnoringRevocation(c) ==
  /\ Statement(c, "verify")
  /\ IF request[c].token \in KeyIDs /\ keys[request[c].token] \in {"active", "revoked"}
     THEN Admit(c, request[c])
     ELSE Reply(c, Status(401))
  /\ Observe

(* LookupAPIKey.  A token that was never issued is refused like a revoked  *)
(* one and is left out.                                                    *)
Verify(c) ==
  /\ Statement(c, "verify")
  /\ IF Usable(request[c].token) THEN Admit(c, request[c]) ELSE Reply(c, Status(401))
  /\ Observe

-----------------------------------------------------------------------------
(* Catalog endpoints.                                                      *)

GetSkill(c) ==
  LET id == request[c].skill
  IN  /\ Statement(c, "get")
      /\ IF id \notin Visible(skills, llmCheckedOnly) THEN Reply(c, Status(404))
         ELSE IF request[c].endpoint = "audit"
         THEN Reply(c, IF skills[id].checked THEN Body({id}) ELSE Status(404))
         ELSE IF request[c].token = Master THEN Reply(c, Body({id}))
         ELSE Goto(c, "record")
      /\ Observe

Counted(id, k) == downloads' = [downloads EXCEPT ![id][k] = @ + 1]

(* Mutant: nothing relates a count to a stored skill.                      *)
RecordWithoutForeignKey(c) ==
  /\ pc[c] = "record"
  /\ Counted(request[c].skill, request[c].token) /\ Reply(c, Body({request[c].skill}))
  /\ UNCHANGED <<skills, keys, issued, erased, writes, llmCheckedOnly, request, faulty, faults>>
  /\ Observe

(* A count refers to a skill that is stored: without it, the insert fails. *)
RecordSkillDownload(c) ==
  LET id == request[c].skill
  IN  /\ pc[c] = "record"
      /\ IF id \in Stored(skills)
         THEN Counted(id, request[c].token) /\ Reply(c, Body({id}))
         ELSE UNCHANGED downloads /\ Reply(c, Status(503))
      /\ UNCHANGED <<skills, keys, issued, erased, writes, llmCheckedOnly, request,
                     faulty, faults>>
      /\ Observe

(* ORDER BY stars DESC, id: only that the order is total matters here.     *)
Rank(id, table) == Cardinality({other \in table : other < id})

(* ListSkills, count(star)                                                 *)
CountSkills(c) ==
  /\ Statement(c, "count")
  /\ total' = [total EXCEPT ![c] = Cardinality(Visible(skills, llmCheckedOnly))]
  /\ pc' = [pc EXCEPT ![c] = "page"]
  /\ UNCHANGED <<answer, listed>>
  /\ Observe

(* ListSkills, LIMIT and OFFSET                                            *)
ReadPage(c) ==
  LET visible == Visible(skills, llmCheckedOnly)
      page == request[c].page
  IN  /\ Statement(c, "page")
      /\ Reply(c, [Body({id \in visible : Rank(id, visible) \div PerPage = page})
                     EXCEPT !.hasMore = (page + 1) * PerPage < total[c]])
      /\ Observe

(* Mutant: the page is read before the total.                              *)
ListSkillsPageFirst(c) ==
  LET visible == Visible(skills, llmCheckedOnly)
      page == request[c].page
  IN  \/ /\ Statement(c, "count")
         /\ listed' = [listed EXCEPT ![c] =
                         {id \in visible : Rank(id, visible) \div PerPage = page}]
         /\ pc' = [pc EXCEPT ![c] = "page"]
         /\ UNCHANGED <<answer, total>>
         /\ Observe
      \/ /\ Statement(c, "page")
         /\ Reply(c, [Body(listed[c])
                        EXCEPT !.hasMore = (page + 1) * PerPage < Cardinality(visible)])
         /\ Observe

(* The total first, then the page.                                         *)
ListSkills(c) == CountSkills(c) \/ ReadPage(c)

Query(c) ==
  /\ Statement(c, "query")
  /\ \E found \in SUBSET Visible(skills, llmCheckedOnly) : Reply(c, Body(found))
  /\ Observe

-----------------------------------------------------------------------------
(* Administration.                                                         *)

(* AdminStats, the skills: enforcement does not apply.                     *)
ReadSkills(c) ==
  /\ Statement(c, "skills")
  /\ listed' = [listed EXCEPT ![c] = Stored(skills)]
  /\ pc' = [pc EXCEPT ![c] = "clients"]
  /\ UNCHANGED <<answer, total>>
  /\ Observe

(* The clients of each skill; skills not listed are skipped.               *)
DownloadsOf(ids) == [id \in SkillIDs |-> IF id \in ids THEN downloads[id] ELSE NoDownloads]

(* AdminStats, skill_downloads JOIN api_keys                               *)
ReadClients(c) ==
  /\ Statement(c, "clients")
  /\ Reply(c, [Body(listed[c]) EXCEPT !.downloads = DownloadsOf(listed[c])])
  /\ Observe

(* The id is random; KeyIDs bounds how many keys are created.              *)
CreateAPIKey(c) ==
  /\ pc[c] = "insert"
  /\ \E k \in KeyIDs :
       /\ keys[k] = "none"
       /\ keys' = [keys EXCEPT ![k] = "active"]
       /\ issued' = issued \cup {k}
  /\ Reply(c, Status(201))
  /\ UNCHANGED <<skills, downloads, erased, writes, llmCheckedOnly, request,
                 faulty, faults>>
  /\ Observe

(* Mutant: the update does not look at revoked_at.                         *)
RevocableAgain(k) == keys[k] # "none"

(* revoked_at IS NULL, whatever the expiry.                                *)
Revocable(k) == keys[k] \in {"active", "expired"}
Revoked(k) == keys' = IF Revocable(k) THEN [keys EXCEPT ![k] = "revoked"] ELSE keys

RevokeAPIKey(c) ==
  LET k == request[c].key
  IN  /\ pc[c] = "revoke"
      /\ Revoked(k)
      /\ Reply(c, Status(IF Revocable(k) THEN 204 ELSE 404))
      /\ UNCHANGED <<skills, issued, downloads, erased, writes, llmCheckedOnly,
                     request, faulty, faults>>
      /\ Observe

-----------------------------------------------------------------------------
(* Failures: of the database, or because the client has gone and its       *)
(* context has ended.                                                      *)

Fault(c) ==
  /\ faults < MaxFaults
  /\ faults' = faults + 1
  /\ faulty' = faulty \cup {c}
  /\ UNCHANGED <<skills, issued, erased, writes, llmCheckedOnly, request>>

(* Every error of Verify is answered alike.                                *)
VerifyFails(c) ==
  /\ pc[c] = "verify"
  /\ Fault(c) /\ UNCHANGED <<keys, downloads>>
  /\ Reply(c, Status(401))
  /\ Observe

ReadFails(c) ==
  /\ pc[c] \in {"get", "count", "page", "query", "skills", "clients"}
  /\ Fault(c) /\ UNCHANGED <<keys, downloads>>
  /\ Reply(c, Status(503))
  /\ Observe

(* The statement may have been applied all the same.                       *)
RecordFails(c) ==
  /\ pc[c] = "record"
  /\ Fault(c) /\ UNCHANGED keys
  /\ \/ UNCHANGED downloads
     \/ request[c].skill \in Stored(skills) /\ Counted(request[c].skill, request[c].token)
  /\ Reply(c, Status(503))
  /\ Observe

KeyWriteFails(c) ==
  /\ pc[c] \in {"insert", "revoke"}
  /\ Fault(c) /\ UNCHANGED downloads
  /\ \/ UNCHANGED keys
     \/ pc[c] = "revoke" /\ Revoked(request[c].key)
     \/ \E k \in KeyIDs :
          pc[c] = "insert" /\ keys[k] = "none" /\ keys' = [keys EXCEPT ![k] = "active"]
  /\ Reply(c, Status(503))
  /\ Observe

-----------------------------------------------------------------------------
(* The rest of the world.                                                  *)

Outside == UNCHANGED <<locals, llmCheckedOnly, pc, request, answer, faulty, faults, issued>>

(* Mutant: INSERT OR REPLACE, which deletes the old row first.             *)
IndexerReplaces(id) ==
  /\ writes < MaxWrites /\ writes' = writes + 1
  /\ \E checked \in BOOLEAN : skills' = UpsertSkill(skills, id, NewRow(AnySnapshot, checked))
  /\ downloads' = [downloads EXCEPT ![id] = NoDownloads]
  /\ Outside /\ UNCHANGED <<keys, erased>>
  /\ Observe

IndexerUpserts(id) ==
  /\ writes < MaxWrites /\ writes' = writes + 1
  /\ \/ \E checked \in BOOLEAN : skills' = UpsertSkill(skills, id, NewRow(AnySnapshot, checked))
     \/ skills' = UpdateSkillAssessment(skills, id)
  /\ skills' # skills
  /\ Outside /\ UNCHANGED <<keys, downloads, erased>>
  /\ Observe

(* ON DELETE CASCADE                                                       *)
IndexerDeletes(id) ==
  /\ writes < MaxWrites /\ writes' = writes + 1
  /\ id \in Stored(skills)
  /\ skills' = DeleteSkill(skills, id)
  /\ downloads' = [downloads EXCEPT ![id] = NoDownloads]
  /\ erased' = [erased EXCEPT ![id] = [k \in KeyIDs |-> @[k] + downloads[id][k]]]
  /\ Outside /\ UNCHANGED keys
  /\ Observe

KeyExpires(k) ==
  /\ keys[k] = "active"
  /\ keys' = [keys EXCEPT ![k] = "expired"]
  /\ Outside /\ UNCHANGED <<skills, downloads, erased, writes>>
  /\ Observe

-----------------------------------------------------------------------------
CatalogStep(c) ==
  \/ Verify(c) \/ GetSkill(c) \/ RecordSkillDownload(c)
  \/ ListSkills(c) \/ Query(c)

AdminStep(c) == ReadSkills(c) \/ ReadClients(c) \/ CreateAPIKey(c) \/ RevokeAPIKey(c)

FaultStep(c) == VerifyFails(c) \/ ReadFails(c) \/ RecordFails(c) \/ KeyWriteFails(c)

Next ==
  \/ \E c \in Requests : Arrive(c) \/ CatalogStep(c) \/ AdminStep(c) \/ FaultStep(c)
  \/ \E id \in SkillIDs : IndexerUpserts(id) \/ IndexerDeletes(id)
  \/ \E k \in KeyIDs : KeyExpires(k)

Spec == Init /\ [][Next]_vars

-----------------------------------------------------------------------------
Answers(c) == pc[c] \notin {"new", "done"} /\ pc'[c] = "done"

(* What justifies an answer lies between the arrival of the request and    *)
(* the answer, whatever indexers, administrators and clocks did meanwhile. *)
Justified(c) ==
  LET r == request[c]
      a == answer'[c]
      seen == since[c]
  IN  /\ a.status \in {200, 429} => TRUE \in seen.usable
      /\ a.status = 200 => a.shown \subseteq seen.ever
      /\ a.status = 401 => FALSE \in seen.usable \/ c \in faulty'
      /\ a.status = 404 /\ ~IsAdmin(r) => r.skill \notin seen.always
      /\ a.status = 503 =>
           c \in faulty' \/ (r.endpoint = "detail" /\ r.skill \notin seen.always)
      /\ a.status = 200 /\ r.endpoint = "stats" =>
           /\ seen.always \subseteq a.shown
           /\ \A id \in SkillIDs, k \in KeyIDs : a.downloads[id][k] >= seen.due[id][k]

(* openapi.json, README.md:151, 167: no request that arrives after its key *)
(* was revoked or has expired is served, no skill is shown that            *)
(* enforcement hid all the time, no skill is denied that was there all the *)
(* time, 401 and 503 are not answered without cause, and the statistics    *)
(* include every skill and every download known when they were asked for.  *)
AnswersAreJustified == [][\A c \in Requests : Answers(c) => Justified(c)]_vars

Fetches(id, k, status) ==
  {c \in Requests : /\ request[c].endpoint = "detail" /\ request[c].skill = id
                    /\ request[c].token = k /\ answer[c].status = status}

(* README.md:165, 167: a download is counted when a key fetched a skill,   *)
(* once, and nothing but the deletion of the skill takes it back: neither  *)
(* a new version nor the revocation of the key.  Only a fetch whose        *)
(* recording failed with an unknown outcome may be counted unanswered.     *)
DownloadsAddUp ==
  \A id \in SkillIDs, k \in KeyIDs :
    LET counted == downloads[id][k] + erased[id][k]
        fetched == Cardinality(Fetches(id, k, 200))
    IN  fetched <= counted
        /\ counted <= fetched + Cardinality(Fetches(id, k, 503) \cap faulty)

(* handler.go:320-336: of several administrators that revoke one key at    *)
(* the same time, at most one is told that it did.                         *)
RevokedOnce ==
  \A k \in KeyIDs :
    Cardinality({c \in Requests : /\ request[c].endpoint = "revoke" /\ request[c].key = k
                                  /\ answer[c].status = 204}) <= 1

(* openapi.json, GET /v1/skills; sqlite.go:200-214: hasMore comes from a   *)
(* total read before the page.  When it tells a client to stop, no skill   *)
(* that was there all the time lies behind the page, unless one was        *)
(* published during the request: it is shown, or it belongs to an earlier  *)
(* page of the catalog at the answer.  So the first page, when it is the   *)
(* last, shows them all.  What an earlier page did show is not said: a     *)
(* skill moves to an earlier page when one before it is withdrawn.         *)
PagingStopsInTime ==
  [][\A c \in Requests :
       /\ Answers(c) /\ request[c].endpoint = "list" /\ answer'[c].status = 200
       /\ ~answer'[c].hasMore /\ ~since[c].grew
       => \A id \in since[c].always :
            \/ id \in answer'[c].shown
            \/ Rank(id, Visible(skills, llmCheckedOnly)) < request[c].page * PerPage]_vars
=============================================================================
