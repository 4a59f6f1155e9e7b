---------------------------- MODULE HttpApiProofs ----------------------------
(***************************************************************************)
(* Proofs about HttpApi, for any number of requests, keys and skills and   *)
(* any faults: a key is revoked once, downloads add up, every answer is    *)
(* justified, and paging stops in time.                                    *)
(***************************************************************************)
EXTENDS HttpApi, TLAPS, FiniteSetTheorems

Labels == {"new", "verify", "get", "record", "count", "page", "query",
           "skills", "clients", "insert", "revoke", "done"}

KeyStates == {"none", "active", "expired", "revoked"}

-----------------------------------------------------------------------------
(* The strengthening.                                                      *)

Shape ==
  /\ keys \in [KeyIDs -> KeyStates]
  /\ downloads \in [SkillIDs -> [KeyIDs -> Nat]]
  /\ erased \in [SkillIDs -> [KeyIDs -> Nat]]
  /\ pc \in [Requests -> Labels]
  /\ DOMAIN request = Requests
  /\ DOMAIN answer = Requests

(* What a request at a statement asks for.                                 *)
Fits(label, r) ==
  /\ label \notin {"new", "done"} => r \in Request
  /\ label = "verify" => r.token \in KeyIDs /\ ~IsAdmin(r)
  /\ label = "get" => r.endpoint \in {"detail", "audit"}
  /\ label = "record" => r.endpoint = "detail" /\ r.token \in KeyIDs
  /\ label \in {"count", "page"} => r.endpoint = "list"
  /\ label = "query" => r.endpoint = "search"
  /\ label \in {"skills", "clients"} => r.endpoint = "stats"
  /\ label = "insert" => r.endpoint = "create"
  /\ label = "revoke" => r.endpoint = "revoke"

RequestsFit == \A c \in Requests : Fits(pc[c], request[c])

Unanswered == \A c \in Requests : pc[c] # "done" => answer[c].status = 0

Revokes(c, k) ==
  request[c].endpoint = "revoke" /\ request[c].key = k /\ answer[c].status = 204

(* Who is told that a key is revoked is told so once, and it stays so.     *)
RevokedStays == \A c \in Requests, k \in KeyIDs : Revokes(c, k) => keys[k] = "revoked"

OneRevokes ==
  \A c, d \in Requests, k \in KeyIDs : Revokes(c, k) /\ Revokes(d, k) => c = d

Inv ==
  /\ Shape
  /\ RequestsFit
  /\ Unanswered
  /\ RevokedStays
  /\ OneRevokes
  /\ DownloadsAddUp

-----------------------------------------------------------------------------
(* Requests and their first statements.                                    *)

LEMMA RequestFacts ==
  ASSUME NEW r \in Request
  PROVE  /\ r.endpoint \in {"detail", "audit", "list", "search", "stats", "create", "revoke"}
         /\ r.token \in KeyIDs \cup {Master}
         /\ r.endpoint \in {"detail", "audit"} => r.skill \in SkillIDs
         /\ r.endpoint = "revoke" => r.key \in KeyIDs
  BY DEF Request, Tokens

LEMMA FirstFits ==
  ASSUME NEW r \in Request
  PROVE  First(r.endpoint) \in Labels \ {"new", "done"} /\ Fits(First(r.endpoint), r)
  <1>1. r.endpoint \in {"detail", "audit", "list", "search", "stats", "create", "revoke"}
    BY RequestFacts
  <1> QED
    BY <1>1 DEF First, Fits, Labels

-----------------------------------------------------------------------------
(* What a step of request c does to c, and that it leaves the others.      *)

Moves(c, label, status) ==
  /\ pc[c] # "done"
  /\ pc' \in [Requests -> Labels] /\ DOMAIN answer' = Requests
  /\ pc'[c] = label /\ answer'[c].status = status
  /\ label # "done" => status = 0
  /\ \A d \in Requests \ {c} : pc'[d] = pc[d] /\ answer'[d] = answer[d]

LEMMA GotoMoves ==
  ASSUME Inv, NEW c \in Requests, NEW label \in Labels, pc[c] # "done", Goto(c, label)
  PROVE  Moves(c, label, 0) \/ label = "done"
  BY DEF Inv, Shape, Unanswered, Moves, Goto

LEMMA ReplyMoves ==
  ASSUME Inv, NEW c \in Requests, NEW reply, pc[c] # "done", Reply(c, reply)
  PROVE  Moves(c, "done", reply.status)
  BY DEF Inv, Shape, Moves, Reply, Labels

LEMMA Statuses ==
  /\ \A code : Status(code).status = code
  /\ \A shown : Body(shown).status = 200
  /\ \A shown, more : [Body(shown) EXCEPT !.hasMore = more].status = 200
  /\ \A shown, n : [Body(shown) EXCEPT !.downloads = n].status = 200
  BY DEF Status, Body, NoAnswer

-----------------------------------------------------------------------------
(* Cardinalities of sets of requests.                                      *)

Uncertain(id, k) == Fetches(id, k, 503) \cap faulty

LEMMA FetchesAreFinite ==
  ASSUME NEW id, NEW k, NEW status
  PROVE  /\ IsFiniteSet(Fetches(id, k, status))
         /\ Cardinality(Fetches(id, k, status)) \in Nat
  <1>1. Fetches(id, k, status) \in SUBSET Requests
    BY DEF Fetches
  <1> QED
    BY <1>1, RequestsAssumption, FS_Subset, FS_CardinalityType

LEMMA UncertainIsFinite ==
  ASSUME NEW id, NEW k
  PROVE  IsFiniteSet(Uncertain(id, k)) /\ Cardinality(Uncertain(id, k)) \in Nat
  <1>1. Uncertain(id, k) \in SUBSET Requests
    BY DEF Fetches, Uncertain
  <1> QED
    BY <1>1, RequestsAssumption, FS_Subset, FS_CardinalityType

(* The same for the sets after a step.                                     *)
LEMMA UncertainIsFiniteNext ==
  ASSUME NEW id, NEW k
  PROVE  IsFiniteSet(Uncertain(id, k)') /\ Cardinality(Uncertain(id, k)') \in Nat
  <1>1. Uncertain(id, k)' \in SUBSET Requests
    BY DEF Fetches, Uncertain
  <1> QED
    BY <1>1, RequestsAssumption, FS_Subset, FS_CardinalityType

Recorded(id, k) == downloads[id][k] + erased[id][k]

AddsUp(id, k) ==
  /\ Cardinality(Fetches(id, k, 200)) <= Recorded(id, k)
  /\ Recorded(id, k) <= Cardinality(Fetches(id, k, 200)) + Cardinality(Uncertain(id, k))

(* Nothing is counted, and no fetch is answered.                           *)
LEMMA SameCount ==
  ASSUME NEW id \in SkillIDs, NEW k \in KeyIDs, Shape, Shape', AddsUp(id, k),
         Recorded(id, k)' = Recorded(id, k),
         Fetches(id, k, 200)' = Fetches(id, k, 200),
         Uncertain(id, k) \subseteq Uncertain(id, k)'
  PROVE  AddsUp(id, k)'
  <1>1. Cardinality(Uncertain(id, k)) <= Cardinality(Uncertain(id, k)')
    BY UncertainIsFiniteNext, FS_Subset
  <1>2. Recorded(id, k) \in Nat
    BY DEF Shape, Recorded
  <1> QED
    BY <1>1, <1>2, FetchesAreFinite, UncertainIsFinite, UncertainIsFiniteNext DEF AddsUp

(* One download is counted, and its fetch is answered.                     *)
LEMMA OneMore ==
  ASSUME NEW id \in SkillIDs, NEW k \in KeyIDs, NEW c \in Requests,
         Shape, Shape', AddsUp(id, k),
         Recorded(id, k)' = Recorded(id, k) + 1,
         c \notin Fetches(id, k, 200),
         Fetches(id, k, 200)' = Fetches(id, k, 200) \cup {c},
         Uncertain(id, k) \subseteq Uncertain(id, k)'
  PROVE  AddsUp(id, k)'
  <1>1. Cardinality(Uncertain(id, k)) <= Cardinality(Uncertain(id, k)')
    BY UncertainIsFiniteNext, FS_Subset
  <1>2. Cardinality(Fetches(id, k, 200)') = Cardinality(Fetches(id, k, 200)) + 1
    BY FetchesAreFinite, FS_AddElement
  <1>3. Recorded(id, k) \in Nat
    BY DEF Shape, Recorded
  <1> QED
    BY <1>1, <1>2, <1>3, FetchesAreFinite, UncertainIsFinite, UncertainIsFiniteNext
    DEF AddsUp

(* A recording fails, and nobody knows whether it was applied.             *)
LEMMA OneUncertain ==
  ASSUME NEW id \in SkillIDs, NEW k \in KeyIDs, NEW c \in Requests,
         Shape, Shape', AddsUp(id, k),
         Recorded(id, k)' \in {Recorded(id, k), Recorded(id, k) + 1},
         c \notin Uncertain(id, k),
         Fetches(id, k, 200)' = Fetches(id, k, 200),
         Uncertain(id, k)' = Uncertain(id, k) \cup {c}
  PROVE  AddsUp(id, k)'
  <1>1. Cardinality(Uncertain(id, k)') = Cardinality(Uncertain(id, k)) + 1
    BY UncertainIsFinite, FS_AddElement
  <1>2. Recorded(id, k) \in Nat
    BY DEF Shape, Recorded
  <1> QED
    BY <1>1, <1>2, FetchesAreFinite, UncertainIsFinite DEF AddsUp

LEMMA AddsUpIsDownloadsAddUp ==
  DownloadsAddUp <=> \A id \in SkillIDs, k \in KeyIDs : AddsUp(id, k)
  BY DEF DownloadsAddUp, AddsUp, Recorded, Uncertain

-----------------------------------------------------------------------------
(* Steps that count nothing and revoke nothing.                            *)

Quiet(c, label, status) ==
  /\ Moves(c, label, status)
  /\ keys' \in [KeyIDs -> KeyStates]
  /\ \A k \in KeyIDs : keys[k] = "revoked" => keys'[k] = "revoked"
  /\ downloads' = downloads /\ erased' = erased
  /\ faulty \subseteq faulty'

LEMMA QuietShape ==
  ASSUME Inv, NEW c, NEW label, NEW status, Quiet(c, label, status), DOMAIN request' = Requests
  PROVE  Shape'
  BY DEF Inv, Shape, Quiet, Moves

LEMMA QuietKeepsRevocations ==
  ASSUME Inv, NEW c \in Requests, NEW label, NEW status \in {0, 200, 201, 401, 404, 429, 503},
         Moves(c, label, status), keys' \in [KeyIDs -> KeyStates],
         \A k \in KeyIDs : keys[k] = "revoked" => keys'[k] = "revoked",
         \A d \in Requests \ {c} : request'[d] = request[d]
  PROVE  RevokedStays' /\ OneRevokes'
  <1>1. \A d \in Requests, k \in KeyIDs : Revokes(d, k)' => d # c /\ Revokes(d, k)
    BY DEF Moves, Revokes
  <1>2. RevokedStays'
    BY <1>1 DEF Inv, RevokedStays
  <1>3. OneRevokes'
    BY <1>1 DEF Inv, OneRevokes
  <1> QED
    BY <1>2, <1>3

LEMMA MovesFits ==
  ASSUME Inv, NEW c \in Requests, NEW label, NEW status, Moves(c, label, status),
         \A d \in Requests \ {c} : request'[d] = request[d],
         Fits(label, request'[c])
  PROVE  RequestsFit' /\ Unanswered'
  <1>1. \A d \in Requests \ {c} : Fits(pc'[d], request'[d])
    BY DEF Inv, RequestsFit, Moves
  <1>2. RequestsFit'
    BY <1>1 DEF RequestsFit, Moves
  <1>3. Unanswered'
    BY DEF Inv, Unanswered, Moves
  <1> QED
    BY <1>2, <1>3

(* A step whose answer is no 200 to a fetch leaves the counts in balance.  *)
LEMMA MovesKeepsFetches ==
  ASSUME Inv, NEW c \in Requests, NEW label, NEW status, Moves(c, label, status),
         \A d \in Requests \ {c} : request'[d] = request[d],
         faulty \subseteq faulty',
         NEW id \in SkillIDs, NEW k \in KeyIDs,
         status = 200 =>
           request'[c].endpoint # "detail" \/ request'[c].token # k \/ request'[c].skill # id
  PROVE  /\ Fetches(id, k, 200)' = Fetches(id, k, 200)
         /\ Uncertain(id, k) \subseteq Uncertain(id, k)'
  <1>1. answer[c].status = 0
    BY DEF Inv, Unanswered, Moves
  <1>2. \A d \in Requests : d \in Fetches(id, k, 200) <=> d \in Fetches(id, k, 200)'
    BY <1>1 DEF Fetches, Moves
  <1>3. \A d \in Requests : d \in Uncertain(id, k) => d \in Uncertain(id, k)'
    BY <1>1 DEF Fetches, Moves, Uncertain
  <1>4. /\ Fetches(id, k, 200) \subseteq Requests /\ Fetches(id, k, 200)' \subseteq Requests
        /\ Uncertain(id, k) \subseteq Requests
    BY DEF Fetches, Uncertain
  <1> QED
    BY <1>2, <1>3, <1>4

LEMMA QuietInv ==
  ASSUME Inv, NEW c \in Requests, NEW label,
         NEW status \in {0, 200, 201, 401, 404, 429, 503}, Quiet(c, label, status),
         DOMAIN request' = Requests,
         \A d \in Requests \ {c} : request'[d] = request[d],
         Fits(label, request'[c]),
         status = 200 => request'[c].endpoint # "detail" \/ request'[c].token \notin KeyIDs
  PROVE  Inv'
  <1>1. Shape'
    BY QuietShape
  <1>2. RequestsFit' /\ Unanswered'
    BY MovesFits DEF Quiet
  <1>3. RevokedStays' /\ OneRevokes'
    BY QuietKeepsRevocations DEF Quiet, Inv, Shape
  <1>4. ASSUME NEW id \in SkillIDs, NEW k \in KeyIDs PROVE AddsUp(id, k)'
    <2>1. Fetches(id, k, 200)' = Fetches(id, k, 200) /\ Uncertain(id, k) \subseteq Uncertain(id, k)'
      BY MovesKeepsFetches DEF Quiet
    <2>2. Recorded(id, k)' = Recorded(id, k)
      BY DEF Quiet, Recorded
    <2>3. AddsUp(id, k)
      BY AddsUpIsDownloadsAddUp DEF Inv
    <2> QED
      BY <1>1, <2>1, <2>2, <2>3, SameCount DEF Inv
  <1>5. DownloadsAddUp'
    BY <1>4 DEF DownloadsAddUp, AddsUp, Recorded, Uncertain
  <1> QED
    BY <1>1, <1>2, <1>3, <1>5 DEF Inv

-----------------------------------------------------------------------------
(* Arrivals, and the statements that change no table.                      *)

LEMMA ArriveInv ==
  ASSUME Inv, NEW c \in Requests, Arrive(c)
  PROVE  Inv'
  <1>1. PICK r \in Request :
          /\ request' = [request EXCEPT ![c] = r]
          /\ \/ Reply(c, Status(401)) \/ Reply(c, Status(429))
             \/ Goto(c, First(r.endpoint))
             \/ r.token # Master /\ ~IsAdmin(r) /\ Goto(c, "verify")
    BY DEF Arrive, Admit
  <1>2. pc[c] # "done" /\ request'[c] = r
        /\ DOMAIN request' = Requests /\ \A d \in Requests \ {c} : request'[d] = request[d]
    BY <1>1 DEF Arrive, Inv, Shape
  <1>3. PICK label \in Labels, status \in {0, 401, 429} :
          Moves(c, label, status) /\ Fits(label, r)
    <2>1. CASE Reply(c, Status(401)) \/ Reply(c, Status(429))
      <3>1. Fits("done", r) /\ "done" \in Labels
        BY DEF Fits, Labels
      <3> QED BY <1>2, <2>1, <3>1, ReplyMoves, Statuses
    <2>2. CASE Goto(c, First(r.endpoint))
      BY <1>2, <2>2, FirstFits, GotoMoves
    <2>3. CASE r.token # Master /\ ~IsAdmin(r) /\ Goto(c, "verify")
      <3>1. Fits("verify", r) /\ "verify" \in Labels
        BY <2>3, RequestFacts DEF Fits, Labels
      <3> QED BY <1>2, <2>3, <3>1, GotoMoves
    <2> QED BY <1>1, <2>1, <2>2, <2>3
  <1>4. Quiet(c, label, status)
    BY <1>3 DEF Quiet, Arrive, stores, Inv, Shape
  <1> QED
    BY <1>2, <1>3, <1>4, QuietInv

(* A statement that changes no table, counts nothing and answers.          *)
LEMMA ReadInv ==
  ASSUME Inv, NEW c \in Requests, NEW label \in Labels,
         NEW status \in {0, 200, 401, 404, 429, 503},
         Moves(c, label, status), Fits(label, request[c]),
         UNCHANGED <<keys, downloads, erased, request>>, faulty \subseteq faulty',
         status = 200 => request[c].endpoint # "detail" \/ request[c].token \notin KeyIDs
  PROVE  Inv'
  <1>1. Quiet(c, label, status)
    BY DEF Quiet, Inv, Shape
  <1>2. DOMAIN request' = Requests /\ request'[c] = request[c]
    BY DEF Inv, Shape
  <1> QED
    BY <1>1, <1>2, QuietInv

LEMMA DoneFits == \A r : Fits("done", r) /\ "done" \in Labels
  BY DEF Fits, Labels

LEMMA StatementFacts ==
  ASSUME Inv, NEW c \in Requests, NEW label \in Labels \ {"new", "done"}, Statement(c, label)
  PROVE  /\ pc[c] = label /\ pc[c] # "done" /\ request[c] \in Request
         /\ Fits(label, request[c])
         /\ UNCHANGED <<keys, downloads, erased, request>> /\ faulty \subseteq faulty'
  <1>1. Fits(pc[c], request[c])
    BY DEF Inv, RequestsFit
  <1> QED
    BY <1>1 DEF Statement, stores, Fits

LEMMA VerifyInv ==
  ASSUME Inv, NEW c \in Requests, Verify(c)
  PROVE  Inv'
  <1>1. "verify" \in Labels \ {"new", "done"} /\ Statement(c, "verify")
    BY DEF Verify, Labels
  <1>2. Reply(c, Status(401)) \/ Reply(c, Status(429)) \/ Goto(c, First(request[c].endpoint))
    BY DEF Verify, Admit
  <1>3. CASE Reply(c, Status(401)) \/ Reply(c, Status(429))
    <2>1. PICK status \in {401, 429} : Moves(c, "done", status)
      BY <1>1, <1>3, StatementFacts, ReplyMoves, Statuses
    <2> QED BY <1>1, <2>1, StatementFacts, DoneFits, ReadInv
  <1>4. CASE Goto(c, First(request[c].endpoint))
    <2>1. request[c] \in Request
      BY <1>1, StatementFacts
    <2>2. First(request[c].endpoint) \in Labels \ {"new", "done"}
          /\ Fits(First(request[c].endpoint), request[c])
      BY <2>1, FirstFits
    <2>3. Moves(c, First(request[c].endpoint), 0)
      BY <1>1, <1>4, <2>2, StatementFacts, GotoMoves
    <2> QED BY <1>1, <2>2, <2>3, StatementFacts, ReadInv
  <1> QED
    BY <1>2, <1>3, <1>4

LEMMA GetSkillInv ==
  ASSUME Inv, NEW c \in Requests, GetSkill(c)
  PROVE  Inv'
  <1>1. "get" \in Labels \ {"new", "done"} /\ Statement(c, "get")
    BY DEF GetSkill, Labels
  <1>2. request[c].endpoint \in {"detail", "audit"} /\ request[c].token \in KeyIDs \cup {Master}
    BY <1>1, StatementFacts, RequestFacts DEF Fits
  <1>3. \/ Reply(c, Status(404))
        \/ /\ request[c].endpoint = "audit" \/ request[c].token = Master
           /\ Reply(c, Body({request[c].skill}))
        \/ /\ request[c].endpoint # "audit" /\ request[c].token # Master
           /\ Goto(c, "record")
    BY DEF GetSkill
  <1>4. CASE Reply(c, Status(404))
    <2>1. Moves(c, "done", 404)
      BY <1>1, <1>4, StatementFacts, ReplyMoves, Statuses
    <2> QED BY <1>1, <2>1, StatementFacts, DoneFits, ReadInv
  <1>5. CASE /\ request[c].endpoint = "audit" \/ request[c].token = Master
             /\ Reply(c, Body({request[c].skill}))
    <2>1. Moves(c, "done", 200)
      BY <1>1, <1>5, StatementFacts, ReplyMoves, Statuses
    <2>2. request[c].endpoint # "detail" \/ request[c].token \notin KeyIDs
      BY <1>5, KeysAssumption
    <2> QED BY <1>1, <2>1, <2>2, StatementFacts, DoneFits, ReadInv
  <1>6. CASE /\ request[c].endpoint # "audit" /\ request[c].token # Master
             /\ Goto(c, "record")
    <2>1. Fits("record", request[c]) /\ "record" \in Labels
      BY <1>1, <1>2, <1>6, StatementFacts DEF Fits, Labels
    <2>2. Moves(c, "record", 0)
      BY <1>1, <1>6, <2>1, StatementFacts, GotoMoves
    <2> QED BY <1>1, <2>1, <2>2, StatementFacts, ReadInv
  <1> QED
    BY <1>3, <1>4, <1>5, <1>6

(* The two statements of ListSkills, a search, and those of AdminStats.    *)
LEMMA OtherReadsInv ==
  ASSUME Inv, NEW c \in Requests,
         CountSkills(c) \/ ReadPage(c) \/ Query(c) \/ ReadSkills(c) \/ ReadClients(c)
  PROVE  Inv'
  <1>1. PICK label \in {"count", "page", "query", "skills", "clients"} : Statement(c, label)
    BY DEF CountSkills, ReadPage, Query, ReadSkills, ReadClients
  <1>2. label \in Labels \ {"new", "done"}
    BY DEF Labels
  <1>3. pc[c] # "done" /\ request[c].endpoint # "detail" /\ request[c] \in Request
    BY <1>1, <1>2, StatementFacts DEF Fits
  <1>4. CASE CountSkills(c) \/ ReadSkills(c)
    <2>1. PICK after \in {"page", "clients"} :
            /\ pc' = [pc EXCEPT ![c] = after] /\ UNCHANGED answer
            /\ \/ label = "count" /\ after = "page"
               \/ label = "skills" /\ after = "clients"
      BY <1>1, <1>4 DEF CountSkills, ReadSkills, Statement
    <2>2. Moves(c, after, 0)
      BY <1>3, <2>1 DEF Moves, Inv, Shape, Unanswered, Labels
    <2>3. Fits(after, request[c]) /\ after \in Labels
      BY <1>1, <1>2, <1>3, <2>1, StatementFacts DEF Fits, Labels
    <2> QED BY <1>1, <1>2, <2>2, <2>3, StatementFacts, ReadInv
  <1>5. CASE ReadPage(c) \/ Query(c) \/ ReadClients(c)
    <2>1. ASSUME NEW reply, Reply(c, reply), reply.status = 200
          PROVE  Moves(c, "done", 200)
      BY <1>3, <2>1, ReplyMoves
    <2>2. ASSUME ReadPage(c) PROVE Moves(c, "done", 200)
      <3> DEFINE visible == Visible(skills, llmCheckedOnly)
                 shown == {id \in visible : Rank(id, visible) \div PerPage = request[c].page}
                 more == (request[c].page + 1) * PerPage < total[c]
                 reply == [Body(shown) EXCEPT !.hasMore = more]
      <3>1. Reply(c, reply)
        BY <2>2 DEF ReadPage
      <3>2. reply.status = 200
        <4> HIDE DEF shown, more
        <4> QED BY Statuses
      <3> QED BY <2>1, <3>1, <3>2
    <2>3. ASSUME Query(c) PROVE Moves(c, "done", 200)
      BY <2>1, <2>3, Statuses DEF Query
    <2>4. ASSUME ReadClients(c) PROVE Moves(c, "done", 200)
      <3> DEFINE reply == [Body(listed[c]) EXCEPT !.downloads = DownloadsOf(listed[c])]
      <3>1. Reply(c, reply)
        BY <2>4 DEF ReadClients
      <3>2. reply.status = 200
        BY Statuses
      <3> QED BY <2>1, <3>1, <3>2
    <2>5. Moves(c, "done", 200)
      BY <1>5, <2>2, <2>3, <2>4
    <2> QED BY <1>1, <1>2, <1>3, <2>5, StatementFacts, DoneFits, ReadInv
  <1> QED
    BY <1>4, <1>5

LEMMA ReadFaultInv ==
  ASSUME Inv, NEW c \in Requests, VerifyFails(c) \/ ReadFails(c)
  PROVE  Inv'
  <1>1. pc[c] # "done" /\ UNCHANGED <<keys, downloads, erased, request>> /\ faulty \subseteq faulty'
    BY DEF VerifyFails, ReadFails, Fault
  <1>2. PICK status \in {401, 503} : Reply(c, Status(status))
    BY DEF VerifyFails, ReadFails
  <1>3. Moves(c, "done", status)
    BY <1>1, <1>2, ReplyMoves, Statuses
  <1> QED
    BY <1>1, <1>3, DoneFits, ReadInv

-----------------------------------------------------------------------------
(* Statements on keys.                                                     *)

(* An answer that does not say "revoked", whatever happened to the keys    *)
(* that are not revoked yet.                                               *)
LEMMA KeyAnswerInv ==
  ASSUME Inv, NEW c \in Requests, NEW status \in {201, 404, 503}, pc[c] # "done",
         Reply(c, Status(status)), keys' \in [KeyIDs -> KeyStates],
         \A k \in KeyIDs : keys[k] = "revoked" => keys'[k] = "revoked",
         UNCHANGED <<downloads, erased, request>>, faulty \subseteq faulty'
  PROVE  Inv'
  <1>1. Moves(c, "done", status)
    BY ReplyMoves, Statuses
  <1>2. Quiet(c, "done", status)
    BY <1>1 DEF Quiet
  <1>3. DOMAIN request' = Requests /\ request'[c] = request[c]
    BY DEF Inv, Shape
  <1> QED
    BY <1>2, <1>3, DoneFits, QuietInv

LEMMA RevokedFacts ==
  ASSUME Inv, NEW k, Revoked(k)
  PROVE  /\ keys' \in [KeyIDs -> KeyStates]
         /\ \A j \in KeyIDs : keys[j] = "revoked" => keys'[j] = "revoked"
  BY DEF Inv, Shape, Revoked, Revocable, KeyStates

LEMMA CreateAPIKeyInv ==
  ASSUME Inv, NEW c \in Requests, CreateAPIKey(c)
  PROVE  Inv'
  <1>1. /\ keys' \in [KeyIDs -> KeyStates]
        /\ \A k \in KeyIDs : keys[k] = "revoked" => keys'[k] = "revoked"
    BY DEF CreateAPIKey, Inv, Shape, KeyStates
  <1>2. /\ pc[c] # "done" /\ Reply(c, Status(201))
        /\ UNCHANGED <<downloads, erased, request>> /\ faulty \subseteq faulty'
    BY DEF CreateAPIKey
  <1> QED
    BY <1>1, <1>2, KeyAnswerInv

LEMMA KeyWriteFailsInv ==
  ASSUME Inv, NEW c \in Requests, KeyWriteFails(c)
  PROVE  Inv'
  <1>1. /\ keys' \in [KeyIDs -> KeyStates]
        /\ \A k \in KeyIDs : keys[k] = "revoked" => keys'[k] = "revoked"
    <2>1. CASE UNCHANGED keys
      BY <2>1 DEF Inv, Shape
    <2>2. CASE Revoked(request[c].key)
      BY <2>2, RevokedFacts
    <2>3. CASE \E k \in KeyIDs : keys[k] = "none" /\ keys' = [keys EXCEPT ![k] = "active"]
      BY <2>3 DEF Inv, Shape, KeyStates
    <2> QED BY <2>1, <2>2, <2>3 DEF KeyWriteFails
  <1>2. /\ pc[c] # "done" /\ Reply(c, Status(503))
        /\ UNCHANGED <<downloads, erased, request>> /\ faulty \subseteq faulty'
    BY DEF KeyWriteFails, Fault
  <1> QED
    BY <1>1, <1>2, KeyAnswerInv

(* Only a key that nobody revoked is revoked, and the next one who asks    *)
(* finds it so.                                                            *)
LEMMA RevokeAPIKeyInv ==
  ASSUME Inv, NEW c \in Requests, RevokeAPIKey(c)
  PROVE  Inv'
  <1> DEFINE k == request[c].key
  <1>1. /\ keys' \in [KeyIDs -> KeyStates]
        /\ \A j \in KeyIDs : keys[j] = "revoked" => keys'[j] = "revoked"
    BY RevokedFacts DEF RevokeAPIKey
  <1>2. /\ pc[c] = "revoke" /\ pc[c] # "done"
        /\ UNCHANGED <<downloads, erased, request, faulty>>
    BY DEF RevokeAPIKey
  <1>3. CASE ~Revocable(k)
    BY <1>1, <1>2, <1>3, KeyAnswerInv DEF RevokeAPIKey
  <1>4. CASE Revocable(k)
    <2>1. Moves(c, "done", 204)
      <3>1. Reply(c, Status(204))
        BY <1>4 DEF RevokeAPIKey
      <3> QED BY <1>2, <3>1, ReplyMoves, Statuses
    <2>2. \A d \in Requests, j \in KeyIDs :
            Revokes(d, j)' => Revokes(d, j) \/ (d = c /\ j = k)
      BY <1>2, <2>1 DEF Moves, Revokes
    <2>3. k \in KeyIDs => keys[k] # "revoked" /\ keys'[k] = "revoked"
      BY <1>4 DEF RevokeAPIKey, Revoked, Revocable, Inv, Shape
    <2>4. Shape'
      BY <1>1, <1>2, <2>1 DEF Inv, Shape, Moves
    <2>5. RequestsFit' /\ Unanswered'
      BY <1>2, <2>1, DoneFits, MovesFits
    <2>6. RevokedStays'
      BY <1>1, <2>2, <2>3 DEF Inv, RevokedStays
    <2>7. OneRevokes'
      BY <2>2, <2>3 DEF Inv, OneRevokes, RevokedStays
    <2>8. ASSUME NEW id \in SkillIDs, NEW j \in KeyIDs PROVE AddsUp(id, j)'
      <3>1. /\ Fetches(id, j, 200)' = Fetches(id, j, 200)
            /\ Uncertain(id, j) \subseteq Uncertain(id, j)'
        BY <1>2, <2>1, MovesKeepsFetches
      <3>2. Recorded(id, j)' = Recorded(id, j)
        BY <1>2 DEF Recorded
      <3>3. AddsUp(id, j)
        BY AddsUpIsDownloadsAddUp DEF Inv
      <3> QED BY <2>4, <3>1, <3>2, <3>3, SameCount DEF Inv
    <2>9. DownloadsAddUp'
      BY <2>8 DEF DownloadsAddUp, AddsUp, Recorded, Uncertain
    <2> QED BY <2>4, <2>5, <2>6, <2>7, <2>9 DEF Inv
  <1> QED
    BY <1>3, <1>4

-----------------------------------------------------------------------------
(* Recording a download.                                                   *)

RecordFacts(c) ==
  /\ request[c].endpoint = "detail"
  /\ request[c].token \in KeyIDs
  /\ request[c].skill \in SkillIDs

LEMMA RecordFits ==
  ASSUME Inv, NEW c \in Requests, pc[c] = "record"
  PROVE  RecordFacts(c)
  <1>1. Fits("record", request[c])
    BY DEF Inv, RequestsFit
  <1> QED
    BY <1>1, RequestFacts DEF Fits, RecordFacts

(* A count that is applied concerns the skill and the key of the request.  *)
LEMMA CountedFacts ==
  ASSUME Inv, NEW c \in Requests, RecordFacts(c), UNCHANGED erased,
         Counted(request[c].skill, request[c].token)
  PROVE  /\ downloads' \in [SkillIDs -> [KeyIDs -> Nat]]
         /\ \A id \in SkillIDs, k \in KeyIDs :
              Recorded(id, k)' =
                IF id = request[c].skill /\ k = request[c].token
                THEN Recorded(id, k) + 1 ELSE Recorded(id, k)
  <1>1. PICK s \in SkillIDs, t \in KeyIDs :
          /\ s = request[c].skill /\ t = request[c].token
          /\ downloads' = [downloads EXCEPT ![s][t] = @ + 1]
    BY DEF RecordFacts, Counted
  <1>2. downloads \in [SkillIDs -> [KeyIDs -> Nat]]
    BY DEF Inv, Shape
  <1>3. downloads' \in [SkillIDs -> [KeyIDs -> Nat]]
    BY <1>1, <1>2
  <1>4. ASSUME NEW id \in SkillIDs, NEW k \in KeyIDs
        PROVE  downloads'[id][k] =
                 IF id = s /\ k = t THEN downloads[id][k] + 1 ELSE downloads[id][k]
    BY <1>1, <1>2
  <1>5. erased \in [SkillIDs -> [KeyIDs -> Nat]] /\ erased' = erased
    BY DEF Inv, Shape
  <1>6. ASSUME NEW id \in SkillIDs, NEW k \in KeyIDs
        PROVE  Recorded(id, k)' =
                 IF id = s /\ k = t THEN Recorded(id, k) + 1 ELSE Recorded(id, k)
    <2>1. downloads[id][k] \in Nat /\ erased[id][k] \in Nat
      BY <1>2, <1>5
    <2> QED BY <1>4, <1>5, <2>1 DEF Recorded
  <1> QED
    BY <1>1, <1>3, <1>6

LEMMA RecordSkillDownloadInv ==
  ASSUME Inv, NEW c \in Requests, RecordSkillDownload(c)
  PROVE  Inv'
  <1>1. /\ pc[c] # "done" /\ RecordFacts(c)
        /\ UNCHANGED <<keys, erased, request, faulty>>
    BY RecordFits DEF RecordSkillDownload
  <1>2. CASE request[c].skill \notin Stored(skills)
    <2>1. Reply(c, Status(503)) /\ UNCHANGED downloads
      BY <1>2 DEF RecordSkillDownload
    <2> QED BY <1>1, <2>1, KeyAnswerInv DEF Inv, Shape
  <1>3. CASE request[c].skill \in Stored(skills)
    <2>1. Counted(request[c].skill, request[c].token)
          /\ Reply(c, Body({request[c].skill}))
      BY <1>3 DEF RecordSkillDownload
    <2>2. Moves(c, "done", 200)
      BY <1>1, <2>1, ReplyMoves, Statuses
    <2>3. Shape'
      BY <1>1, <2>1, <2>2, CountedFacts DEF Inv, Shape, Moves
    <2>4. RequestsFit' /\ Unanswered'
      BY <1>1, <2>2, DoneFits, MovesFits
    <2>5. RevokedStays' /\ OneRevokes'
      BY <1>1, <2>2, QuietKeepsRevocations DEF Inv, Shape
    <2>6. ASSUME NEW id \in SkillIDs, NEW k \in KeyIDs PROVE AddsUp(id, k)'
      <3>1. AddsUp(id, k)
        BY AddsUpIsDownloadsAddUp DEF Inv
      <3>2. CASE id = request[c].skill /\ k = request[c].token
        <4>1. Recorded(id, k)' = Recorded(id, k) + 1
          BY <1>1, <2>1, <3>2, CountedFacts
        <4>2. answer[c].status = 0
          BY <1>1 DEF Inv, Unanswered
        <4>3. c \notin Fetches(id, k, 200)
          BY <4>2 DEF Fetches
        <4>4. Fetches(id, k, 200)' = Fetches(id, k, 200) \cup {c}
          BY <1>1, <2>2, <3>2 DEF Fetches, Moves, RecordFacts
        <4>5. Uncertain(id, k) \subseteq Uncertain(id, k)'
          BY <1>1, <2>2, <4>2 DEF Fetches, Uncertain, Moves
        <4> QED BY <2>3, <3>1, <4>1, <4>3, <4>4, <4>5, OneMore DEF Inv
      <3>3. CASE ~(id = request[c].skill /\ k = request[c].token)
        <4>1. Recorded(id, k)' = Recorded(id, k)
          BY <1>1, <2>1, <3>3, CountedFacts
        <4>2. /\ Fetches(id, k, 200)' = Fetches(id, k, 200)
              /\ Uncertain(id, k) \subseteq Uncertain(id, k)'
          BY <1>1, <2>2, <3>3, MovesKeepsFetches
        <4> QED BY <2>3, <3>1, <4>1, <4>2, SameCount DEF Inv
      <3> QED BY <3>2, <3>3
    <2>7. DownloadsAddUp'
      BY <2>6 DEF DownloadsAddUp, AddsUp, Recorded, Uncertain
    <2> QED BY <2>3, <2>4, <2>5, <2>7 DEF Inv
  <1> QED
    BY <1>2, <1>3

LEMMA RecordFailsInv ==
  ASSUME Inv, NEW c \in Requests, RecordFails(c)
  PROVE  Inv'
  <1>1. /\ pc[c] # "done" /\ RecordFacts(c)
        /\ UNCHANGED <<keys, erased, request>> /\ faulty' = faulty \cup {c}
    BY RecordFits DEF RecordFails, Fault
  <1>2. Moves(c, "done", 503)
    BY <1>1, ReplyMoves, Statuses DEF RecordFails
  <1>3. UNCHANGED downloads \/ Counted(request[c].skill, request[c].token)
    BY DEF RecordFails
  <1>4. Shape'
    BY <1>1, <1>2, <1>3, CountedFacts DEF Inv, Shape, Moves
  <1>5. RequestsFit' /\ Unanswered'
    BY <1>1, <1>2, DoneFits, MovesFits
  <1>6. RevokedStays' /\ OneRevokes'
    BY <1>1, <1>2, QuietKeepsRevocations DEF Inv, Shape
  <1>7. ASSUME NEW id \in SkillIDs, NEW k \in KeyIDs PROVE AddsUp(id, k)'
    <2>1. AddsUp(id, k)
      BY AddsUpIsDownloadsAddUp DEF Inv
    <2>2. /\ Fetches(id, k, 200)' = Fetches(id, k, 200)
          /\ Uncertain(id, k) \subseteq Uncertain(id, k)'
      BY <1>1, <1>2, MovesKeepsFetches
    <2>3. CASE id = request[c].skill /\ k = request[c].token
      <3>1. Recorded(id, k)' \in {Recorded(id, k), Recorded(id, k) + 1}
        <4>1. CASE UNCHANGED downloads
          BY <1>1, <4>1 DEF Recorded
        <4>2. CASE Counted(request[c].skill, request[c].token)
          BY <1>1, <2>3, <4>2, CountedFacts
        <4> QED BY <1>3, <4>1, <4>2
      <3>2. answer[c].status = 0
        BY <1>1 DEF Inv, Unanswered
      <3>3. c \notin Uncertain(id, k)
        BY <3>2 DEF Fetches, Uncertain
      <3>4. Uncertain(id, k)' = Uncertain(id, k) \cup {c}
        BY <1>1, <1>2, <2>3 DEF Fetches, Uncertain, Moves, RecordFacts
      <3> QED BY <1>4, <2>1, <2>2, <3>1, <3>3, <3>4, OneUncertain DEF Inv
    <2>4. CASE ~(id = request[c].skill /\ k = request[c].token)
      <3>1. Recorded(id, k)' = Recorded(id, k)
        <4>1. CASE UNCHANGED downloads
          BY <1>1, <4>1 DEF Recorded
        <4>2. CASE Counted(request[c].skill, request[c].token)
          BY <1>1, <2>4, <4>2, CountedFacts
        <4> QED BY <1>3, <4>1, <4>2
      <3> QED BY <1>4, <2>1, <2>2, <3>1, SameCount DEF Inv
    <2> QED BY <2>3, <2>4
  <1>8. DownloadsAddUp'
    BY <1>7 DEF DownloadsAddUp, AddsUp, Recorded, Uncertain
  <1> QED
    BY <1>4, <1>5, <1>6, <1>8 DEF Inv

-----------------------------------------------------------------------------
(* The indexer, the clock, and steps that leave everything as it is.       *)

LEMMA OutsideInv ==
  ASSUME Inv, UNCHANGED <<pc, request, answer, faulty>>,
         keys' \in [KeyIDs -> KeyStates],
         \A k \in KeyIDs : keys[k] = "revoked" => keys'[k] = "revoked",
         downloads' \in [SkillIDs -> [KeyIDs -> Nat]],
         erased' \in [SkillIDs -> [KeyIDs -> Nat]],
         \A id \in SkillIDs, k \in KeyIDs :
           downloads'[id][k] + erased'[id][k] = downloads[id][k] + erased[id][k]
  PROVE  Inv'
  <1>1. Shape'
    BY DEF Inv, Shape
  <1>2. RequestsFit' /\ Unanswered'
    BY DEF Inv, RequestsFit, Unanswered
  <1>3. RevokedStays' /\ OneRevokes'
    BY DEF Inv, RevokedStays, OneRevokes, Revokes
  <1>4. ASSUME NEW id \in SkillIDs, NEW k \in KeyIDs PROVE AddsUp(id, k)'
    <2>1. AddsUp(id, k)
      BY AddsUpIsDownloadsAddUp DEF Inv
    <2>2. Fetches(id, k, 200)' = Fetches(id, k, 200) /\ Uncertain(id, k)' = Uncertain(id, k)
      BY DEF Fetches, Uncertain
    <2>3. Recorded(id, k)' = Recorded(id, k)
      BY DEF Recorded
    <2> QED BY <1>1, <2>1, <2>2, <2>3, SameCount DEF Inv
  <1>5. DownloadsAddUp'
    BY <1>4 DEF DownloadsAddUp, AddsUp, Recorded, Uncertain
  <1> QED
    BY <1>1, <1>2, <1>3, <1>5 DEF Inv

(* What a deletion takes from the counts, the history keeps.               *)
LEMMA IndexerDeletesInv ==
  ASSUME Inv, NEW id \in SkillIDs, IndexerDeletes(id)
  PROVE  Inv'
  <1>1. UNCHANGED <<pc, request, answer, faulty, keys>>
    BY DEF IndexerDeletes, Outside
  <1>2. /\ downloads \in [SkillIDs -> [KeyIDs -> Nat]]
        /\ erased \in [SkillIDs -> [KeyIDs -> Nat]]
    BY DEF Inv, Shape
  <1>3. /\ downloads' = [downloads EXCEPT ![id] = [k \in KeyIDs |-> 0]]
        /\ erased' = [erased EXCEPT ![id] = [k \in KeyIDs |-> erased[id][k] + downloads[id][k]]]
    BY <1>2 DEF IndexerDeletes, NoDownloads
  <1>4. [k \in KeyIDs |-> erased[id][k] + downloads[id][k]] \in [KeyIDs -> Nat]
        /\ [k \in KeyIDs |-> 0] \in [KeyIDs -> Nat]
    BY <1>2
  <1>5. /\ downloads' \in [SkillIDs -> [KeyIDs -> Nat]]
        /\ erased' \in [SkillIDs -> [KeyIDs -> Nat]]
    BY <1>2, <1>3, <1>4
  <1>6. ASSUME NEW i \in SkillIDs, NEW k \in KeyIDs
        PROVE  downloads'[i][k] + erased'[i][k] = downloads[i][k] + erased[i][k]
    <2>1. downloads[i][k] \in Nat /\ erased[i][k] \in Nat
      BY <1>2
    <2> QED BY <1>2, <1>3, <2>1
  <1>7. keys' \in [KeyIDs -> KeyStates] /\ \A k \in KeyIDs : keys'[k] = keys[k]
    BY <1>1 DEF Inv, Shape
  <1> QED
    BY <1>1, <1>5, <1>6, <1>7, OutsideInv

LEMMA UnchangedInv ==
  ASSUME Inv, UNCHANGED <<pc, request, answer, faulty, keys, downloads, erased>>
  PROVE  Inv'
  BY OutsideInv DEF Inv, Shape

LEMMA KeyExpiresInv ==
  ASSUME Inv, NEW k \in KeyIDs, KeyExpires(k)
  PROVE  Inv'
  <1>1. /\ keys' \in [KeyIDs -> KeyStates]
        /\ \A j \in KeyIDs : keys[j] = "revoked" => keys'[j] = "revoked"
    BY DEF KeyExpires, Inv, Shape, KeyStates
  <1>2. UNCHANGED <<pc, request, answer, faulty, downloads, erased>>
    BY DEF KeyExpires, Outside
  <1> QED
    BY <1>1, <1>2, OutsideInv DEF Inv, Shape

-----------------------------------------------------------------------------
LEMMA InitInv == Init => Inv
  <1> SUFFICES ASSUME Init PROVE Inv
    OBVIOUS
  <1>1. Shape
    BY DEF Init, Shape, KeyStates, NoCounts, NoDownloads, Labels
  <1>2. \A c \in Requests : pc[c] = "new" /\ answer[c].status = 0
    BY DEF Init, NoAnswer
  <1>3. RequestsFit
    BY <1>2 DEF RequestsFit, Fits
  <1>4. Unanswered /\ RevokedStays /\ OneRevokes
    BY <1>2 DEF Unanswered, RevokedStays, OneRevokes, Revokes
  <1>5. ASSUME NEW id \in SkillIDs, NEW k \in KeyIDs PROVE AddsUp(id, k)
    <2>1. Fetches(id, k, 200) = {} /\ Uncertain(id, k) = {}
      BY <1>2 DEF Fetches, Uncertain
    <2>2. Recorded(id, k) = 0
      BY DEF Init, Recorded, NoCounts, NoDownloads
    <2> QED BY <2>1, <2>2, FS_EmptySet DEF AddsUp
  <1>6. DownloadsAddUp
    BY <1>5, AddsUpIsDownloadsAddUp
  <1> QED
    BY <1>1, <1>3, <1>4, <1>6 DEF Inv

LEMMA NextInv == Inv /\ [Next]_vars => Inv'
  <1> SUFFICES ASSUME Inv, [Next]_vars PROVE Inv'
    OBVIOUS
  <1>1. ASSUME NEW c \in Requests, Arrive(c) PROVE Inv'
    BY <1>1, ArriveInv
  <1>2. ASSUME NEW c \in Requests, CatalogStep(c) PROVE Inv'
    BY <1>2, VerifyInv, GetSkillInv, RecordSkillDownloadInv, OtherReadsInv DEF CatalogStep, ListSkills
  <1>3. ASSUME NEW c \in Requests, AdminStep(c) PROVE Inv'
    BY <1>3, OtherReadsInv, CreateAPIKeyInv, RevokeAPIKeyInv DEF AdminStep
  <1>4. ASSUME NEW c \in Requests, FaultStep(c) PROVE Inv'
    BY <1>4, ReadFaultInv, RecordFailsInv, KeyWriteFailsInv DEF FaultStep
  <1>5. ASSUME NEW id \in SkillIDs, IndexerUpserts(id) PROVE Inv'
    BY <1>5, UnchangedInv DEF IndexerUpserts, Outside
  <1>6. ASSUME NEW id \in SkillIDs, IndexerDeletes(id) PROVE Inv'
    BY <1>6, IndexerDeletesInv
  <1>7. ASSUME NEW k \in KeyIDs, KeyExpires(k) PROVE Inv'
    BY <1>7, KeyExpiresInv
  <1>8. CASE UNCHANGED vars
    BY <1>8, UnchangedInv DEF vars, stores
  <1> QED
    BY <1>1, <1>2, <1>3, <1>4, <1>5, <1>6, <1>7, <1>8 DEF Next

LEMMA Inductive == Spec => []Inv
  BY InitInv, NextInv, PTL DEF Spec

-----------------------------------------------------------------------------
(* README.md:165, 167: downloads are counted once per fetch and kept, for  *)
(* any number of requests, keys, skills and faults.                        *)
THEOREM DownloadsAlwaysAddUp == Spec => []DownloadsAddUp
  BY Inductive, PTL DEF Inv

(* handler.go:324-343: one key is never reported revoked twice.            *)
THEOREM KeysAreRevokedOnce == Spec => []RevokedOnce
  <1>1. Inv => RevokedOnce
    <2> SUFFICES ASSUME Inv, NEW k \in KeyIDs
                 PROVE  Cardinality({c \in Requests : Revokes(c, k)}) <= 1
      BY DEF RevokedOnce, Revokes
    <2> DEFINE told == {c \in Requests : Revokes(c, k)}
    <2>1. CASE told = {}
      BY <2>1, FS_EmptySet
    <2>2. CASE told # {}
      <3>1. PICK c \in told : TRUE
        BY <2>2
      <3>2. told = {c}
        BY <3>1 DEF Inv, OneRevokes
      <3> QED BY <3>2, FS_Singleton
    <2> QED BY <2>1, <2>2
  <1> QED
    BY Inductive, <1>1, PTL

-----------------------------------------------------------------------------
(* The type invariant.                                                     *)

LEMMA AnswersTyped ==
  /\ NoAnswer \in Answer
  /\ \A code \in {0, 200, 201, 204, 401, 404, 429, 503} : Status(code) \in Answer
  /\ \A shown \in SUBSET SkillIDs : Body(shown) \in Answer
  /\ \A shown \in SUBSET SkillIDs, more \in BOOLEAN :
       [Body(shown) EXCEPT !.hasMore = more] \in Answer
  /\ \A shown \in SUBSET SkillIDs, counts \in Counts :
       [Body(shown) EXCEPT !.downloads = counts] \in Answer
  <1>1. NoDownloads \in [KeyIDs -> Nat]
    BY DEF NoDownloads
  <1>2. NoCounts \in Counts
    BY <1>1 DEF NoCounts, Counts
  <1>3. NoAnswer \in Answer
    BY <1>2 DEF Answer, NoAnswer
  <1> DEFINE codes == {0, 200, 201, 204, 401, 404, 429, 503}
  <1>4. \A reply \in Answer, code \in codes : [reply EXCEPT !.status = code] \in Answer
    BY DEF Answer
  <1>5. \A reply \in Answer, shown \in SUBSET SkillIDs : [reply EXCEPT !.shown = shown] \in Answer
    BY DEF Answer
  <1>6. \A reply \in Answer, more \in BOOLEAN : [reply EXCEPT !.hasMore = more] \in Answer
    BY DEF Answer
  <1>7. \A reply \in Answer, counts \in Counts : [reply EXCEPT !.downloads = counts] \in Answer
    BY DEF Answer
  <1>8. \A code \in codes : Status(code) \in Answer
    BY <1>3, <1>4 DEF Status
  <1>9. \A shown \in SUBSET SkillIDs : Body(shown) \in Answer
    BY <1>5, <1>8 DEF Body
  <1> QED
    BY <1>3, <1>6, <1>7, <1>8, <1>9

LEMMA ReplyTyped ==
  ASSUME TypeOK, NEW c \in Requests, NEW reply \in Answer, Reply(c, reply)
  PROVE  /\ total' \in [Requests -> Nat]
         /\ listed' \in [Requests -> SUBSET SkillIDs]
         /\ answer' \in [Requests -> Answer]
  <1>1. {} \in SUBSET SkillIDs /\ 0 \in Nat
    OBVIOUS
  <1> QED
    BY <1>1 DEF TypeOK, Reply

LEMMA VisibleType ==
  ASSUME NEW only
  PROVE  /\ Visible(skills, only) \in SUBSET SkillIDs
         /\ Visible(skills, only) \subseteq Stored(skills)
         /\ Stored(skills) \in SUBSET SkillIDs
         /\ IsFiniteSet(Visible(skills, only)) /\ Cardinality(Visible(skills, only)) \in Nat
  <1>1. Visible(skills, only) \in SUBSET SkillIDs /\ Stored(skills) \in SUBSET SkillIDs
        /\ Visible(skills, only) \subseteq Stored(skills)
    BY DEF Visible, Stored
  <1> QED
    BY <1>1, SkillIDsAssumption, FS_Subset, FS_CardinalityType

(* Every step of a request answers, goes on, or reads into its locals.     *)
LEMMA LocalsTyped ==
  ASSUME Inv, TypeOK, NEW c \in Requests,
         Arrive(c) \/ CatalogStep(c) \/ AdminStep(c) \/ FaultStep(c)
  PROVE  /\ total' \in [Requests -> Nat]
         /\ listed' \in [Requests -> SUBSET SkillIDs]
         /\ answer' \in [Requests -> Answer]
  <1> DEFINE codes == {0, 200, 201, 204, 401, 404, 429, 503}
  <1>1. ASSUME NEW label, Goto(c, label)
        PROVE  UNCHANGED <<total, listed, answer>>
    BY <1>1 DEF Goto, locals
  <1>2. CASE \E reply \in Answer : Reply(c, reply)
    BY <1>2, ReplyTyped
  <1>3. CASE UNCHANGED <<total, listed, answer>>
    BY <1>3 DEF TypeOK
  <1>4. ASSUME NEW code \in codes, Reply(c, Status(code)) PROVE \E reply \in Answer : Reply(c, reply)
    BY <1>4, AnswersTyped
  <1>5. ASSUME NEW id \in SkillIDs, Reply(c, Body({id})) PROVE \E reply \in Answer : Reply(c, reply)
    BY <1>5, AnswersTyped
  <1>6. CASE Arrive(c)
    <2>1. PICK r \in Request :
            \/ Reply(c, Status(401)) \/ Reply(c, Status(429))
            \/ Goto(c, First(r.endpoint)) \/ Goto(c, "verify")
      BY <1>6 DEF Arrive, Admit
    <2> QED
      BY <1>1, <1>2, <1>3, <1>4, <2>1
  <1>7. CASE Verify(c)
    BY <1>1, <1>2, <1>3, <1>4, <1>7 DEF Verify, Admit
  <1>8. CASE GetSkill(c)
    <2>1. request[c].skill \in Visible(skills, llmCheckedOnly) => request[c].skill \in SkillIDs
      BY VisibleType
    <2> QED
      BY <1>1, <1>2, <1>3, <1>4, <1>5, <1>8, <2>1 DEF GetSkill
  <1>9. CASE RecordSkillDownload(c)
    <2>1. request[c].skill \in Stored(skills) => request[c].skill \in SkillIDs
      BY DEF Stored
    <2> QED
      BY <1>2, <1>4, <1>5, <1>9, <2>1 DEF RecordSkillDownload
  <1>10. CASE CountSkills(c)
    BY <1>10, VisibleType DEF CountSkills, TypeOK
  <1>11. CASE ReadPage(c)
    <2> DEFINE visible == Visible(skills, llmCheckedOnly)
               shown == {id \in visible : Rank(id, visible) \div PerPage = request[c].page}
               more == (request[c].page + 1) * PerPage < total[c]
    <2>1. Reply(c, [Body(shown) EXCEPT !.hasMore = more])
      BY <1>11 DEF ReadPage
    <2>2. shown \in SUBSET SkillIDs /\ more \in BOOLEAN
      BY VisibleType
    <2> HIDE DEF shown, more
    <2> QED
      BY <1>2, <2>1, <2>2, AnswersTyped
  <1>12. CASE Query(c)
    <2>1. PICK found \in SUBSET Visible(skills, llmCheckedOnly) : Reply(c, Body(found))
      BY <1>12 DEF Query
    <2>2. found \in SUBSET SkillIDs
      BY VisibleType
    <2> QED
      BY <1>2, <2>1, <2>2, AnswersTyped
  <1>13. CASE ReadSkills(c)
    BY <1>13, VisibleType DEF ReadSkills, TypeOK
  <1>14. CASE ReadClients(c)
    <2>1. listed[c] \in SUBSET SkillIDs
      BY DEF TypeOK
    <2>2. NoDownloads \in [KeyIDs -> Nat] /\ downloads \in [SkillIDs -> [KeyIDs -> Nat]]
      BY DEF NoDownloads, TypeOK, Counts
    <2>3. DownloadsOf(listed[c]) \in Counts
      BY <2>2 DEF DownloadsOf, Counts
    <2> QED
      BY <1>2, <1>14, <2>1, <2>3, AnswersTyped DEF ReadClients
  <1>15. CASE CreateAPIKey(c) \/ RevokeAPIKey(c) \/ FaultStep(c)
    BY <1>2, <1>4, <1>15 DEF CreateAPIKey, RevokeAPIKey, FaultStep, VerifyFails, ReadFails,
       RecordFails, KeyWriteFails
  <1> QED
    BY <1>6, <1>7, <1>8, <1>9, <1>10, <1>11, <1>12, <1>13, <1>14, <1>15
    DEF CatalogStep, ListSkills, AdminStep

LEMMA RowsTyped == AnySnapshot \in Snapshots /\ \A checked \in BOOLEAN : NewRow(AnySnapshot, checked) \in Row
  <1>1. \E snapshot : snapshot \in Snapshots
    <2>1. PICK extra \in Extras : TRUE
      BY ExtrasAssumption
    <2>2. [primary |-> EmptyDocument, extras |-> extra] \in Snapshots
      BY DocumentsAssumption DEF Snapshots
    <2> QED
      BY <2>2
  <1>2. AnySnapshot \in Snapshots
    BY <1>1 DEF AnySnapshot
  <1> QED
    BY <1>2 DEF NewRow, Row

(* An upsert or a mark stores a row, and removes none.                     *)
LEMMA UpsertKeeps ==
  ASSUME TypeOK, NEW id \in SkillIDs, IndexerUpserts(id)
  PROVE  skills' \in Table /\ Stored(skills) \subseteq Stored(skills')
  <1>1. skills \in [SkillIDs -> Row \cup {Absent}] /\ Absent \notin Row
    BY AbsentAssumption, Zenon DEF TypeOK, Table
  <1>2. CASE \E checked \in BOOLEAN : skills' = UpsertSkill(skills, id, NewRow(AnySnapshot, checked))
    <2>1. PICK row \in Row : skills' = [skills EXCEPT ![id] = row]
      BY <1>2, RowsTyped DEF UpsertSkill
    <2> QED
      BY <1>1, <2>1 DEF Table, Stored
  <1>3. CASE skills' = UpdateSkillAssessment(skills, id)
    <2>1. CASE id \in Unassessed(skills)
      <3>1. skills[id] \in Row
        BY <1>1, <2>1 DEF Unassessed, Stored
      <3>2. NewRow(skills[id].snapshot, TRUE) \in Row
        BY <3>1 DEF Row, NewRow
      <3>3. PICK row \in Row : skills' = [skills EXCEPT ![id] = row]
        BY <1>3, <2>1, <3>2 DEF UpdateSkillAssessment
      <3> QED
        BY <1>1, <3>3 DEF Table, Stored
    <2>2. CASE id \notin Unassessed(skills)
      BY <1>1, <1>3, <2>2 DEF UpdateSkillAssessment, Table, Stored
    <2> QED
      BY <2>1, <2>2
  <1> QED
    BY <1>2, <1>3 DEF IndexerUpserts

LEMMA DeleteRemoves ==
  ASSUME TypeOK, NEW id \in SkillIDs, IndexerDeletes(id)
  PROVE  skills' \in Table /\ Stored(skills') = Stored(skills) \ {id}
  BY DEF TypeOK, IndexerDeletes, DeleteSkill, Table, Stored

(* Only counts of stored skills change.                                    *)
StoredCounts == \A id \in SkillIDs \ Stored(skills) : downloads[id] = NoDownloads

LEMMA StoredCountsStep ==
  ASSUME Inv, TypeOK, [Next]_vars
  PROVE  StoredCounts'
  <1>1. StoredCounts /\ downloads \in [SkillIDs -> [KeyIDs -> Nat]]
    BY DEF TypeOK, StoredCounts, Counts
  <1>2. CASE UNCHANGED <<skills, downloads>>
    BY <1>1, <1>2 DEF StoredCounts
  <1>3. ASSUME NEW c \in Requests, UNCHANGED skills, request[c].skill \in Stored(skills),
               Counted(request[c].skill, request[c].token)
        PROVE  StoredCounts'
    BY <1>1, <1>3 DEF StoredCounts, Counted
  <1>4. ASSUME NEW c \in Requests, RecordSkillDownload(c) \/ RecordFails(c)
        PROVE  StoredCounts'
    BY <1>2, <1>3, <1>4 DEF RecordSkillDownload, RecordFails, Fault
  <1>5. ASSUME NEW c \in Requests,
               Arrive(c) \/ CatalogStep(c) \/ AdminStep(c) \/ FaultStep(c)
        PROVE  UNCHANGED <<skills, downloads>> \/ RecordSkillDownload(c) \/ RecordFails(c)
    BY <1>5 DEF Arrive, CatalogStep, ListSkills, AdminStep, FaultStep, Verify, GetSkill, CountSkills,
       ReadPage, Query, ReadSkills, ReadClients, Statement, stores, CreateAPIKey,
       RevokeAPIKey, VerifyFails, ReadFails, KeyWriteFails, Fault
  <1>6. ASSUME NEW id \in SkillIDs, IndexerUpserts(id) PROVE StoredCounts'
    BY <1>1, <1>6, UpsertKeeps DEF StoredCounts, IndexerUpserts
  <1>7. ASSUME NEW id \in SkillIDs, IndexerDeletes(id) PROVE StoredCounts'
    BY <1>1, <1>7, DeleteRemoves DEF StoredCounts, IndexerDeletes
  <1>8. ASSUME NEW k \in KeyIDs, KeyExpires(k) PROVE UNCHANGED <<skills, downloads>>
    BY <1>8 DEF KeyExpires
  <1> QED
    BY <1>2, <1>4, <1>5, <1>6, <1>7, <1>8 DEF Next, vars, stores

(* Arrivals, statements and failures leave the table of skills alone.      *)
LEMMA BookkeepingTyped ==
  ASSUME TypeOK, NEW c \in Requests,
         Arrive(c) \/ CatalogStep(c) \/ AdminStep(c) \/ FaultStep(c)
  PROVE  /\ skills' \in Table /\ issued' \subseteq KeyIDs /\ faulty' \subseteq Requests
         /\ llmCheckedOnly' \in BOOLEAN /\ writes' \in 0..MaxWrites /\ faults' \in 0..MaxFaults
         /\ request' \in [Requests -> Request \cup {NoRequest}]
  <1>1. CASE Arrive(c)
    BY <1>1 DEF Arrive, stores, TypeOK
  <1>2. CASE UNCHANGED <<skills, issued, faulty, llmCheckedOnly, writes, faults, request>>
    BY <1>2 DEF TypeOK
  <1>3. CASE CatalogStep(c) \/ ReadSkills(c) \/ ReadClients(c) \/ RevokeAPIKey(c)
    BY <1>2, <1>3 DEF CatalogStep, ListSkills, Verify, GetSkill, RecordSkillDownload, CountSkills, ReadPage,
       Query, ReadSkills, ReadClients, RevokeAPIKey, Statement, stores
  <1>4. CASE CreateAPIKey(c)
    BY <1>4 DEF CreateAPIKey, TypeOK
  <1>5. CASE FaultStep(c)
    <2>1. Fault(c)
      BY <1>5 DEF FaultStep, VerifyFails, ReadFails, RecordFails, KeyWriteFails
    <2> QED
      BY <2>1, BoundsAssumption DEF Fault, TypeOK
  <1> QED
    BY <1>1, <1>3, <1>4, <1>5 DEF AdminStep

RestTyped ==
  /\ skills \in Table /\ issued \subseteq KeyIDs /\ faulty \subseteq Requests
  /\ llmCheckedOnly \in BOOLEAN
  /\ writes \in 0..MaxWrites /\ faults \in 0..MaxFaults
  /\ request \in [Requests -> Request \cup {NoRequest}]
  /\ total \in [Requests -> Nat]
  /\ listed \in [Requests -> SUBSET SkillIDs]
  /\ answer \in [Requests -> Answer]

LEMMA TypeStep ==
  ASSUME Inv, TypeOK, Inv', [Next]_vars
  PROVE  TypeOK'
  <1>1. /\ keys' \in [KeyIDs -> {"none", "active", "expired", "revoked"}]
        /\ downloads' \in Counts /\ erased' \in Counts
        /\ pc' \in [Requests -> {"new", "verify", "get", "record", "count", "page", "query",
                                 "skills", "clients", "insert", "revoke", "done"}]
    BY DEF Inv, Shape, KeyStates, Labels, Counts
  <1>2. \A id \in SkillIDs \ Stored(skills') : downloads'[id] = NoDownloads
    BY StoredCountsStep DEF StoredCounts
  <1>3. ASSUME NEW c \in Requests,
               Arrive(c) \/ CatalogStep(c) \/ AdminStep(c) \/ FaultStep(c)
        PROVE  RestTyped'
    BY <1>3, LocalsTyped, BookkeepingTyped DEF RestTyped
  <1>4. ASSUME NEW id \in SkillIDs, IndexerUpserts(id) \/ IndexerDeletes(id) PROVE RestTyped'
    <2>1. skills' \in Table
      BY <1>4, UpsertKeeps, DeleteRemoves
    <2>2. writes' \in 0..MaxWrites
      BY <1>4, BoundsAssumption DEF IndexerUpserts, IndexerDeletes, TypeOK
    <2>3. UNCHANGED <<issued, faulty, llmCheckedOnly, faults, request, total, listed, answer>>
      BY <1>4 DEF IndexerUpserts, IndexerDeletes, Outside, locals
    <2> QED
      BY <2>1, <2>2, <2>3 DEF TypeOK, RestTyped
  <1>5. ASSUME NEW k \in KeyIDs, KeyExpires(k) PROVE RestTyped'
    BY <1>5 DEF KeyExpires, Outside, locals, TypeOK, RestTyped
  <1>6. ASSUME UNCHANGED vars PROVE RestTyped'
    BY <1>6 DEF vars, stores, locals, TypeOK, RestTyped
  <1>7. RestTyped'
    BY <1>3, <1>4, <1>5, <1>6 DEF Next
  <1> QED
    BY <1>1, <1>2, <1>7 DEF TypeOK, RestTyped

LEMMA TypeInit == Init => TypeOK
  <1> SUFFICES ASSUME Init PROVE TypeOK
    OBVIOUS
  <1>1. skills \in Table
    BY RowsTyped DEF Init, Table
  <1>2. NoDownloads \in [KeyIDs -> Nat]
    BY DEF NoDownloads
  <1>3. downloads \in Counts /\ erased \in Counts
        /\ \A id \in SkillIDs \ Stored(skills) : downloads[id] = NoDownloads
    BY <1>2 DEF Init, NoCounts, Counts
  <1>4. answer \in [Requests -> Answer] /\ total \in [Requests -> Nat]
        /\ listed \in [Requests -> SUBSET SkillIDs]
    BY AnswersTyped DEF Init
  <1>5. writes \in 0..MaxWrites /\ faults \in 0..MaxFaults
    BY BoundsAssumption DEF Init
  <1> QED
    BY <1>1, <1>3, <1>4, <1>5 DEF Init, TypeOK

(* Every variable of the API and its tables keeps its type, and a count    *)
(* refers to a stored skill, for any number of requests, keys and skills.  *)
THEOREM TypeCorrect == Spec => []TypeOK
  BY InitInv, NextInv, TypeInit, TypeStep, PTL DEF Spec

-----------------------------------------------------------------------------
(* What a request may rely on while it is served.                          *)

Open(c) == pc[c] \notin {"new", "done"}

(* The histories enclose the present: what c could have been shown ever    *)
(* contains the catalog of now, and what was always there is part of it.   *)
Watches(c) ==
  /\ Catalog(c) \subseteq since[c].ever
  /\ since[c].always \subseteq Catalog(c)
  /\ Usable(request[c].token) \in since[c].usable
  /\ since[c].due \in Counts
  /\ \A id \in SkillIDs, k \in KeyIDs :
       /\ since[c].due[id][k] <= downloads[id][k]
       /\ since[c].due[id][k] # 0 => id \in since[c].always /\ request[c].endpoint = "stats"

(* What a statement relies on that an earlier one of the request has read. *)
Relies(c) ==
  /\ pc[c] # "verify" => TRUE \in since[c].usable
  /\ pc[c] = "record" => request[c].skill \in since[c].ever
  /\ pc[c] = "clients" =>
       since[c].always \subseteq listed[c] /\ listed[c] \subseteq since[c].ever
  /\ pc[c] = "page" /\ ~since[c].grew => Cardinality(Catalog(c)) <= total[c]

AllWatch == \A c \in Requests : Open(c) => Watches(c) /\ Relies(c)

(* What the history of a request records when it arrives, and later.       *)
LEMMA ObservedFirst ==
  ASSUME Observe, NEW c \in Requests, Open(c)', pc[c] = "new"
  PROVE  /\ since'[c].ever = Catalog(c)' /\ since'[c].always = Catalog(c)'
         /\ since'[c].usable = {Usable(request[c].token)'}
         /\ since'[c].due = IF request'[c].endpoint = "stats" THEN downloads' ELSE NoCounts
  <1>1. since'[c] = Sight(c)'
    BY DEF Observe, Open
  <1> QED
    BY <1>1 DEF Sight

LEMMA ObservedThen ==
  ASSUME Observe, NEW c \in Requests, Open(c)', pc[c] # "new"
  PROVE  /\ since'[c].ever = since[c].ever \cup Catalog(c)'
         /\ since'[c].always = since[c].always \cap Catalog(c)'
         /\ since'[c].usable = since[c].usable \cup {Usable(request[c].token)'}
         /\ since'[c].grew = (since[c].grew \/ ~(Catalog(c)' \subseteq Catalog(c)))
         /\ since'[c].due = [id \in SkillIDs |->
               IF id \in Stored(skills') THEN since[c].due[id] ELSE NoDownloads]
  <1>1. since'[c] =
          [ever |-> since[c].ever \cup Catalog(c)',
           always |-> since[c].always \cap Catalog(c)',
           usable |-> since[c].usable \cup {Usable(request[c].token)'},
           grew |-> since[c].grew \/ ~(Catalog(c)' \subseteq Catalog(c)),
           due |-> [id \in SkillIDs |->
                      IF id \in Stored(skills)' THEN since[c].due[id] ELSE NoDownloads]]
    BY DEF Observe, Open
  <1> QED
    BY <1>1

LEMMA CatalogType ==
  ASSUME NEW c
  PROVE  /\ Catalog(c) \in SUBSET SkillIDs /\ Catalog(c) \subseteq Stored(skills)
         /\ IsFiniteSet(Catalog(c)) /\ Cardinality(Catalog(c)) \in Nat
  <1>1. Catalog(c) \in SUBSET SkillIDs /\ Catalog(c) \subseteq Stored(skills)
    BY VisibleType DEF Catalog
  <1> QED
    BY <1>1, SkillIDsAssumption, FS_Subset, FS_CardinalityType

(* A request that stays open, or becomes it, is watched.                   *)
LEMMA StaysWatched ==
  ASSUME TypeOK, TypeOK', Observe, NEW c \in Requests, Open(c)',
         pc[c] = "new" \/ (Open(c) /\ Watches(c) /\ request'[c] = request[c]),
         \A id \in Stored(skills'), k \in KeyIDs : downloads[id][k] <= downloads'[id][k]
  PROVE  Watches(c)'
  <1>1. /\ downloads \in [SkillIDs -> [KeyIDs -> Nat]]
        /\ downloads' \in [SkillIDs -> [KeyIDs -> Nat]]
        /\ \A id \in SkillIDs \ Stored(skills') : downloads'[id] = NoDownloads
    BY DEF TypeOK, Counts
  <1>2. /\ \A k \in KeyIDs : NoDownloads[k] = 0
        /\ \A id \in SkillIDs, k \in KeyIDs : NoCounts[id][k] = 0
        /\ NoDownloads \in [KeyIDs -> Nat] /\ NoCounts \in Counts
    BY DEF NoDownloads, NoCounts, Counts
  <1>3. CASE pc[c] = "new"
    <2>1. /\ since'[c].ever = Catalog(c)' /\ since'[c].always = Catalog(c)'
          /\ since'[c].usable = {Usable(request[c].token)'}
          /\ since'[c].due = IF request'[c].endpoint = "stats" THEN downloads' ELSE NoCounts
      BY <1>3, ObservedFirst
    <2>2. since'[c].due \in Counts
      BY <1>1, <1>2, <2>1 DEF Counts
    <2>3. ASSUME NEW id \in SkillIDs, NEW k \in KeyIDs
          PROVE  /\ since'[c].due[id][k] <= downloads'[id][k]
                 /\ since'[c].due[id][k] # 0 =>
                      id \in since'[c].always /\ request'[c].endpoint = "stats"
      <3>1. CASE request'[c].endpoint = "stats"
        <4>1. Catalog(c)' = Stored(skills')
          BY <3>1 DEF Catalog
        <4> QED
          BY <1>1, <1>2, <2>1, <3>1, <4>1
      <3>2. CASE request'[c].endpoint # "stats"
        BY <1>1, <1>2, <2>1, <3>2
      <3> QED
        BY <3>1, <3>2
    <2> QED
      BY <2>1, <2>2, <2>3 DEF Watches
  <1>4. CASE pc[c] # "new"
    <2>1. Watches(c) /\ request'[c] = request[c]
      BY <1>4
    <2>2. /\ since'[c].ever = since[c].ever \cup Catalog(c)'
          /\ since'[c].always = since[c].always \cap Catalog(c)'
          /\ since'[c].usable = since[c].usable \cup {Usable(request[c].token)'}
          /\ since'[c].due = [id \in SkillIDs |->
                IF id \in Stored(skills') THEN since[c].due[id] ELSE NoDownloads]
      BY <1>4, ObservedThen
    <2>3. since[c].due \in [SkillIDs -> [KeyIDs -> Nat]]
      BY <2>1 DEF Watches, Counts
    <2>4. since'[c].due \in Counts
      BY <1>2, <2>2, <2>3 DEF Counts
    <2>5. ASSUME NEW id \in SkillIDs, NEW k \in KeyIDs
          PROVE  /\ since'[c].due[id][k] <= downloads'[id][k]
                 /\ since'[c].due[id][k] # 0 =>
                      id \in since'[c].always /\ request'[c].endpoint = "stats"
      <3>1. CASE id \in Stored(skills')
        <4>1. since'[c].due[id][k] = since[c].due[id][k]
          BY <2>2, <3>1
        <4>2. /\ since[c].due[id][k] <= downloads[id][k]
              /\ since[c].due[id][k] # 0 =>
                   id \in since[c].always /\ request[c].endpoint = "stats"
          BY <2>1 DEF Watches
        <4>3. downloads[id][k] <= downloads'[id][k]
          BY <3>1
        <4>4. since[c].due[id][k] \in Nat /\ downloads[id][k] \in Nat /\ downloads'[id][k] \in Nat
          BY <1>1, <2>3
        <4>5. request'[c].endpoint = "stats" => Catalog(c)' = Stored(skills')
          BY DEF Catalog
        <4> QED
          BY <2>1, <2>2, <3>1, <4>1, <4>2, <4>3, <4>4, <4>5
      <3>2. CASE id \notin Stored(skills')
        <4>1. since'[c].due[id][k] = 0
          BY <1>2, <2>2, <3>2
        <4> QED
          BY <1>1, <4>1
      <3> QED
        BY <3>1, <3>2
    <2> QED
      BY <2>2, <2>4, <2>5 DEF Watches
  <1> QED
    BY <1>3, <1>4

(* A request that does not move keeps what it relies on.                   *)
LEMMA KeepsRelying ==
  ASSUME TypeOK, Observe, NEW c \in Requests, Open(c), Relies(c), pc'[c] = pc[c],
         total'[c] = total[c], listed'[c] = listed[c], request'[c] = request[c]
  PROVE  Relies(c)'
  <1>1. Open(c)' /\ pc[c] # "new"
    BY DEF Open
  <1>2. /\ since'[c].ever = since[c].ever \cup Catalog(c)'
        /\ since'[c].always = since[c].always \cap Catalog(c)'
        /\ since'[c].usable = since[c].usable \cup {Usable(request[c].token)'}
        /\ since'[c].grew = (since[c].grew \/ ~(Catalog(c)' \subseteq Catalog(c)))
    BY <1>1, ObservedThen
  <1>3. ASSUME pc[c] = "page", ~since'[c].grew
        PROVE  Cardinality(Catalog(c)') <= total'[c]
    <2>1. ~since[c].grew /\ Catalog(c)' \subseteq Catalog(c)
      BY <1>2, <1>3
    <2>2. Cardinality(Catalog(c)) <= total[c] /\ total[c] \in Nat
      BY <1>3, <2>1 DEF Relies, TypeOK
    <2>3. /\ IsFiniteSet(Catalog(c)) /\ Cardinality(Catalog(c)) \in Nat
      BY CatalogType
    <2>4. IsFiniteSet(Catalog(c)') /\ Cardinality(Catalog(c)') <= Cardinality(Catalog(c))
      BY <2>1, <2>3, FS_Subset
    <2>5. Cardinality(Catalog(c)') \in Nat
      BY <2>4, FS_CardinalityType
    <2> QED
      BY <2>2, <2>3, <2>4, <2>5
  <1> QED
    BY <1>2, <1>3 DEF Relies

-----------------------------------------------------------------------------
(* Answers.                                                                *)

(* What PagingStopsInTime says of one request.                             *)
Stops(c) ==
  /\ request[c].endpoint = "list" /\ answer'[c].status = 200
  /\ ~answer'[c].hasMore /\ ~since[c].grew
  => \A id \in since[c].always :
       \/ id \in answer'[c].shown
       \/ Rank(id, Visible(skills, llmCheckedOnly)) < request[c].page * PerPage

LEMMA ReplyFacts ==
  ASSUME TypeOK, NEW c \in Requests, NEW reply, Reply(c, reply)
  PROVE  pc'[c] = "done" /\ answer'[c] = reply
  BY DEF TypeOK, Reply

LEMMA GotoFacts ==
  ASSUME TypeOK, NEW c \in Requests, NEW label, Goto(c, label)
  PROVE  pc'[c] = label
  BY DEF TypeOK, Goto

(* Answers that show nothing.                                              *)
LEMMA DoneJustified ==
  ASSUME TypeOK, NEW c \in Requests, NEW code \in {201, 204}, Reply(c, Status(code))
  PROVE  Justified(c) /\ Stops(c)
  <1>1. answer'[c].status = code
    BY ReplyFacts, Statuses
  <1>2. /\ answer'[c].status # 200
        /\ answer'[c].status # 401
        /\ answer'[c].status # 404
        /\ answer'[c].status # 503
        /\ answer'[c].status \notin {200, 429}
    BY <1>1
  <1> QED
    BY <1>2, Zenon DEF Justified, Stops

LEMMA LimitedJustified ==
  ASSUME TypeOK, NEW c \in Requests, Reply(c, Status(429)), TRUE \in since[c].usable
  PROVE  Justified(c) /\ Stops(c)
  <1>1. answer'[c].status = 429
    BY ReplyFacts, Statuses
  <1>2. /\ answer'[c].status # 200
        /\ answer'[c].status # 401
        /\ answer'[c].status # 404
        /\ answer'[c].status # 503
    BY <1>1
  <1> QED
    BY <1>2, Zenon DEF Justified, Stops

LEMMA UnauthorizedJustified ==
  ASSUME TypeOK, NEW c \in Requests, Reply(c, Status(401)),
         FALSE \in since[c].usable \/ c \in faulty'
  PROVE  Justified(c) /\ Stops(c)
  <1>1. answer'[c].status = 401
    BY ReplyFacts, Statuses
  <1>2. /\ answer'[c].status # 200
        /\ answer'[c].status # 404
        /\ answer'[c].status # 503
        /\ answer'[c].status \notin {200, 429}
    BY <1>1
  <1> QED
    BY <1>2, Zenon DEF Justified, Stops

LEMMA NotFoundJustified ==
  ASSUME TypeOK, NEW c \in Requests, Reply(c, Status(404)),
         IsAdmin(request[c]) \/ request[c].skill \notin since[c].always
  PROVE  Justified(c) /\ Stops(c)
  <1>1. answer'[c].status = 404
    BY ReplyFacts, Statuses
  <1>2. /\ answer'[c].status # 200
        /\ answer'[c].status # 401
        /\ answer'[c].status # 503
        /\ answer'[c].status \notin {200, 429}
    BY <1>1
  <1> QED
    BY <1>2, Zenon DEF Justified, Stops

LEMMA UnavailableJustified ==
  ASSUME TypeOK, NEW c \in Requests, Reply(c, Status(503)),
         \/ c \in faulty'
         \/ request[c].endpoint = "detail" /\ request[c].skill \notin since[c].always
  PROVE  Justified(c) /\ Stops(c)
  <1>1. answer'[c].status = 503
    BY ReplyFacts, Statuses
  <1>2. /\ answer'[c].status # 200
        /\ answer'[c].status # 401
        /\ answer'[c].status # 404
        /\ answer'[c].status \notin {200, 429}
    BY <1>1
  <1> QED
    BY <1>2, Zenon DEF Justified, Stops

(* Answers that show skills.                                               *)
LEMMA ShownJustified ==
  ASSUME TypeOK, NEW c \in Requests, NEW shown, Reply(c, Body(shown)),
         TRUE \in since[c].usable, shown \subseteq since[c].ever,
         request[c].endpoint \notin {"stats", "list"}
  PROVE  Justified(c) /\ Stops(c)
  <1>1. answer'[c].status = 200 /\ answer'[c].shown = shown
    <2>1. answer'[c] = Body(shown)
      BY ReplyFacts
    <2> QED
      BY <2>1 DEF Body, Status, NoAnswer
  <1>2. Justified(c)
    <2>1. answer'[c].status \notin {401, 404, 503}
      BY <1>1
    <2>2. request[c].endpoint # "stats"
      OBVIOUS
    <2>3. answer'[c].status # 401 /\ answer'[c].status # 404 /\ answer'[c].status # 503
      BY <2>1
    <2> QED
      BY <1>1, <2>2, <2>3, Zenon DEF Justified
  <1>3. Stops(c)
    BY <1>1, Zenon DEF Stops
  <1> QED
    BY <1>2, <1>3

LEMMA UsableType == \A token : Usable(token) \in BOOLEAN
  BY DEF Usable

LEMMA CatalogIsVisible ==
  ASSUME NEW c, request[c].endpoint \notin {"stats", "audit"}
  PROVE  Catalog(c) = Visible(skills, llmCheckedOnly)
  BY DEF Catalog, Visible

LEMMA VerifyAnswers ==
  ASSUME Inv, TypeOK, NEW c \in Requests, Watches(c), Verify(c), Answers(c)
  PROVE  Justified(c) /\ Stops(c)
  <1>1. request[c] \in Request
    BY DEF Inv, RequestsFit, Fits, Verify, Statement
  <1>2. Usable(request[c].token) \in since[c].usable
    BY DEF Watches
  <1>3. CASE Reply(c, Status(429)) /\ Usable(request[c].token)
    <2>1. Usable(request[c].token) = TRUE
      BY <1>3, UsableType
    <2>2. TRUE \in since[c].usable
      BY <1>2, <2>1
    <2> QED
      BY <1>3, <2>2, LimitedJustified
  <1>4. CASE Reply(c, Status(401)) /\ ~Usable(request[c].token)
    <2>1. Usable(request[c].token) = FALSE
      BY <1>4, UsableType
    <2>2. FALSE \in since[c].usable
      BY <1>2, <2>1
    <2> QED
      BY <1>4, <2>2, UnauthorizedJustified
  <1>5. CASE Goto(c, First(request[c].endpoint))
    BY <1>1, <1>5, FirstFits, GotoFacts DEF Answers
  <1> QED
    BY <1>3, <1>4, <1>5 DEF Verify, Admit

LEMMA GetSkillAnswers ==
  ASSUME Inv, TypeOK, NEW c \in Requests, Watches(c), Relies(c), GetSkill(c), Answers(c)
  PROVE  Justified(c) /\ Stops(c)
  <1> DEFINE id == request[c].skill
  <1>1. pc[c] = "get" /\ request[c].endpoint \in {"detail", "audit"} /\ TRUE \in since[c].usable
    BY DEF GetSkill, Statement, Inv, RequestsFit, Fits, Relies
  <1>2. CASE id \notin Visible(skills, llmCheckedOnly)
    <2>1. id \notin Catalog(c)
      BY <1>1, <1>2 DEF Catalog, Visible
    <2>2. Reply(c, Status(404))
      BY <1>2 DEF GetSkill
    <2>3. id \notin since[c].always
      BY <2>1 DEF Watches
    <2> QED
      BY <2>2, <2>3, NotFoundJustified
  <1>3. CASE id \in Visible(skills, llmCheckedOnly) /\ request[c].endpoint = "audit"
    <2>1. id \in Catalog(c) <=> skills[id].checked
      BY <1>3 DEF Catalog, Visible
    <2>2. CASE skills[id].checked
      <3>1. Reply(c, Body({id}))
        BY <1>3, <2>2 DEF GetSkill
      <3>2. {id} \subseteq since[c].ever
        BY <2>1, <2>2 DEF Watches
      <3> QED
        BY <1>1, <3>1, <3>2, ShownJustified
    <2>3. CASE ~skills[id].checked
      <3>1. Reply(c, Status(404))
        BY <1>3, <2>3 DEF GetSkill
      <3>2. id \notin since[c].always
        BY <2>1, <2>3 DEF Watches
      <3> QED
        BY <3>1, <3>2, NotFoundJustified
    <2> QED
      BY <2>2, <2>3
  <1>4. CASE id \in Visible(skills, llmCheckedOnly) /\ request[c].endpoint = "detail"
    <2>1. id \in Catalog(c)
      BY <1>4, CatalogIsVisible
    <2>2. CASE Reply(c, Body({id}))
      <3>1. {id} \subseteq since[c].ever
        BY <2>1 DEF Watches
      <3> QED
        BY <1>1, <2>2, <3>1, ShownJustified
    <2>3. CASE Goto(c, "record")
      BY <2>3, GotoFacts DEF Answers
    <2> QED
      BY <1>4, <2>2, <2>3 DEF GetSkill
  <1> QED
    BY <1>1, <1>2, <1>3, <1>4

LEMMA RecordAnswers ==
  ASSUME Inv, TypeOK, NEW c \in Requests, Watches(c), Relies(c), RecordSkillDownload(c)
  PROVE  Justified(c) /\ Stops(c)
  <1> DEFINE id == request[c].skill
  <1>1. /\ pc[c] = "record" /\ request[c].endpoint = "detail"
        /\ TRUE \in since[c].usable /\ id \in since[c].ever
    BY RecordFits DEF RecordSkillDownload, Relies, RecordFacts
  <1>2. CASE id \in Stored(skills)
    <2>1. Reply(c, Body({id})) /\ {id} \subseteq since[c].ever
      BY <1>1, <1>2 DEF RecordSkillDownload
    <2> QED
      BY <1>1, <2>1, ShownJustified
  <1>3. CASE id \notin Stored(skills)
    <2>1. Reply(c, Status(503))
      BY <1>3 DEF RecordSkillDownload
    <2>2. id \notin since[c].always
      BY <1>3, CatalogType DEF Watches
    <2> QED
      BY <1>1, <2>1, <2>2, UnavailableJustified
  <1> QED
    BY <1>2, <1>3

(* What ends before the end of page p of size s and is not on that page    *)
(* is on an earlier one.                                                   *)
LEMMA EarlierPage ==
  ASSUME NEW n \in Nat, NEW p \in Nat, NEW s \in Nat \ {0},
         n < (p + 1) * s, n \div s # p
  PROVE  n < p * s
  <1> DEFINE q == n \div s
  <1>1. q \in Int /\ s * q <= n /\ n < s * q + s
    BY SMT
  <1> HIDE DEF q
  <1>2. n < s * p + s
    BY SMT
  <1>3. q < p + 1
    <2>1. CASE q >= p + 1
      <3>1. s * q >= s * (p + 1)
        BY <1>1, <2>1, SMT
      <3> QED
        BY <1>1, <1>2, <3>1, SMT
    <2> QED
      BY <1>1, <2>1
  <1>4. q + 1 <= p
    BY <1>1, <1>3 DEF q
  <1>5. s * (q + 1) <= s * p
    BY <1>1, <1>4, SMT
  <1> QED
    BY <1>1, <1>5, SMT

(* The client is told to go on unless the page ends where the total, which *)
(* is older, does; and since then the catalog has not grown.               *)
LEMMA ReadPageAnswers ==
  ASSUME Inv, TypeOK, NEW c \in Requests, Watches(c), Relies(c), ReadPage(c)
  PROVE  Justified(c) /\ Stops(c)
  <1> DEFINE visible == Visible(skills, llmCheckedOnly)
             shown == {id \in visible : Rank(id, visible) \div PerPage = request[c].page}
             end == (request[c].page + 1) * PerPage
             more == end < total[c]
  <1>1. /\ pc[c] = "page" /\ request[c].endpoint = "list" /\ TRUE \in since[c].usable
        /\ request[c] \in Request
    BY DEF ReadPage, Statement, Inv, RequestsFit, Fits, Relies
  <1>2. answer'[c] = [Body(shown) EXCEPT !.hasMore = more]
    BY ReplyFacts DEF ReadPage
  <1>3. Catalog(c) = visible
    BY <1>1, CatalogIsVisible
  <1>4. shown \subseteq since[c].ever
    BY <1>3 DEF Watches
  <1>5. request[c].page \in Nat
    BY <1>1, BoundsAssumption DEF Request
  <1>6. end \in Nat /\ total[c] \in Nat
    <2>1. \A x, y \in Nat : (x + 1) * y \in Nat
      OBVIOUS
    <2> QED
      BY <1>5, <2>1, PerPageAssumption DEF TypeOK
  <1> HIDE DEF shown, end, visible
  <1>7. answer'[c].status = 200 /\ answer'[c].shown = shown /\ answer'[c].hasMore = more
    <2> HIDE DEF more
    <2> QED
      BY <1>2 DEF Body, Status, NoAnswer
  <1>8. Justified(c)
    <2>1. answer'[c].status # 401 /\ answer'[c].status # 404 /\ answer'[c].status # 503
          /\ request[c].endpoint # "stats" /\ answer'[c].shown \subseteq since[c].ever
      BY <1>1, <1>4, <1>7
    <2> QED
      BY <1>1, <2>1, Zenon DEF Justified
  <1>9. ASSUME ~more, ~since[c].grew, NEW id \in since[c].always
        PROVE  Rank(id, visible) < end
    <2>1. IsFiniteSet(visible) /\ Cardinality(visible) \in Nat /\ id \in visible
      BY <1>3, CatalogType DEF Watches
    <2>2. Cardinality(visible) <= total[c]
      BY <1>1, <1>3, <1>9 DEF Relies
    <2>3. Rank(id, visible) < Cardinality(visible)
      <3> DEFINE before == {other \in visible : other < id}
      <3>1. before \subseteq visible \ {id}
        <4>1. id \in Nat
          BY <1>3, <2>1, CatalogType, SkillIDsAssumption
        <4> QED
          BY <4>1
      <3>2. IsFiniteSet(visible \ {id})
            /\ Cardinality(visible \ {id}) = Cardinality(visible) - 1
        BY <2>1, FS_RemoveElement
      <3> HIDE DEF before
      <3>3. IsFiniteSet(before) /\ Cardinality(before) <= Cardinality(visible \ {id})
        BY <3>1, <3>2, FS_Subset
      <3>4. Cardinality(before) \in Nat
        BY <3>3, FS_CardinalityType
      <3> QED
        BY <2>1, <3>2, <3>3, <3>4 DEF Rank, before
    <2>4. Rank(id, visible) \in Nat
      <3>1. {other \in visible : other < id} \subseteq visible
        OBVIOUS
      <3> QED
        BY <2>1, <3>1, FS_Subset, FS_CardinalityType DEF Rank
    <2> QED
      BY <1>6, <1>9, <2>1, <2>2, <2>3, <2>4
  <1>10. ASSUME ~more, ~since[c].grew, NEW id \in since[c].always
         PROVE  id \in shown \/ Rank(id, visible) < request[c].page * PerPage
    <2>1. IsFiniteSet(visible) /\ id \in visible
      BY <1>3, CatalogType DEF Watches
    <2>2. Rank(id, visible) \in Nat
      <3>1. {other \in visible : other < id} \subseteq visible
        OBVIOUS
      <3> QED
        BY <2>1, <3>1, FS_Subset, FS_CardinalityType DEF Rank
    <2>3. Rank(id, visible) < end
      BY <1>9, <1>10
    <2>4. CASE Rank(id, visible) \div PerPage = request[c].page
      BY <2>1, <2>4 DEF shown
    <2>5. CASE Rank(id, visible) \div PerPage # request[c].page
      BY <1>5, <2>2, <2>3, <2>5, EarlierPage, PerPageAssumption DEF end
    <2> QED
      BY <2>4, <2>5
  <1>11. Stops(c)
    BY <1>7, <1>10 DEF Stops, visible
  <1> QED
    BY <1>8, <1>11

LEMMA QueryAnswers ==
  ASSUME Inv, TypeOK, NEW c \in Requests, Watches(c), Relies(c), Query(c)
  PROVE  Justified(c) /\ Stops(c)
  <1>1. pc[c] = "query" /\ request[c].endpoint = "search" /\ TRUE \in since[c].usable
    BY DEF Query, Statement, Inv, RequestsFit, Fits, Relies
  <1>2. Catalog(c) = Visible(skills, llmCheckedOnly)
    BY <1>1, CatalogIsVisible
  <1>3. PICK found \in SUBSET Visible(skills, llmCheckedOnly) : Reply(c, Body(found))
    BY DEF Query
  <1>4. found \subseteq since[c].ever
    BY <1>2 DEF Watches
  <1> QED
    BY <1>1, <1>3, <1>4, ShownJustified

(* Every download that was due belongs to a skill that was listed.         *)
LEMMA ReadClientsAnswers ==
  ASSUME Inv, TypeOK, NEW c \in Requests, Watches(c), Relies(c), ReadClients(c)
  PROVE  Justified(c) /\ Stops(c)
  <1>1. /\ pc[c] = "clients" /\ request[c].endpoint = "stats" /\ TRUE \in since[c].usable
        /\ since[c].always \subseteq listed[c] /\ listed[c] \subseteq since[c].ever
    BY DEF ReadClients, Statement, Inv, RequestsFit, Fits, Relies
  <1>2. answer'[c] = [Body(listed[c]) EXCEPT !.downloads = DownloadsOf(listed[c])]
    BY ReplyFacts DEF ReadClients
  <1>3. /\ answer'[c].status = 200 /\ answer'[c].shown = listed[c]
        /\ answer'[c].downloads = DownloadsOf(listed[c])
    BY <1>2 DEF Body, Status, NoAnswer
  <1>4. ASSUME NEW id \in SkillIDs, NEW k \in KeyIDs
        PROVE  DownloadsOf(listed[c])[id][k] >= since[c].due[id][k]
    <2>1. /\ since[c].due[id][k] <= downloads[id][k]
          /\ since[c].due[id][k] # 0 => id \in since[c].always
      BY DEF Watches
    <2>2. downloads[id][k] \in Nat /\ since[c].due[id][k] \in Nat
      BY DEF TypeOK, Watches, Counts
    <2>3. CASE id \in listed[c]
      BY <2>1, <2>2, <2>3 DEF DownloadsOf
    <2>4. CASE id \notin listed[c]
      <3>1. DownloadsOf(listed[c])[id][k] = 0 /\ since[c].due[id][k] = 0
        BY <1>1, <2>1, <2>4 DEF DownloadsOf, NoDownloads
      <3> QED
        BY <3>1
    <2> QED
      BY <2>3, <2>4
  <1>5. Justified(c)
    <2>1. answer'[c].status # 401 /\ answer'[c].status # 404 /\ answer'[c].status # 503
      BY <1>3
    <2>2. /\ answer'[c].shown \subseteq since[c].ever
          /\ since[c].always \subseteq answer'[c].shown
      BY <1>1, <1>3
    <2>3. \A id \in SkillIDs, k \in KeyIDs :
            answer'[c].downloads[id][k] >= since[c].due[id][k]
      BY <1>3, <1>4
    <2> QED
      BY <1>1, <2>1, <2>2, <2>3, Zenon DEF Justified
  <1>6. Stops(c)
    BY <1>1 DEF Stops
  <1> QED
    BY <1>5, <1>6

LEMMA KeyAnswers ==
  ASSUME Inv, TypeOK, NEW c \in Requests, CreateAPIKey(c) \/ RevokeAPIKey(c)
  PROVE  Justified(c) /\ Stops(c)
  <1>1. CASE CreateAPIKey(c)
    <2>1. Reply(c, Status(201))
      BY <1>1 DEF CreateAPIKey
    <2> QED
      BY <2>1, DoneJustified
  <1>2. CASE RevokeAPIKey(c)
    <2>1. IsAdmin(request[c])
      BY <1>2 DEF RevokeAPIKey, Inv, RequestsFit, Fits, IsAdmin
    <2>2. Reply(c, Status(204)) \/ Reply(c, Status(404))
      BY <1>2 DEF RevokeAPIKey
    <2>3. CASE Reply(c, Status(204))
      BY <2>3, DoneJustified
    <2>4. CASE Reply(c, Status(404))
      BY <2>1, <2>4, NotFoundJustified
    <2> QED
      BY <2>2, <2>3, <2>4
  <1> QED
    BY <1>1, <1>2

LEMMA FaultAnswers ==
  ASSUME TypeOK, NEW c \in Requests, FaultStep(c)
  PROVE  Justified(c) /\ Stops(c)
  <1>1. c \in faulty' /\ (Reply(c, Status(401)) \/ Reply(c, Status(503)))
    BY DEF FaultStep, VerifyFails, ReadFails, RecordFails, KeyWriteFails, Fault
  <1>2. CASE Reply(c, Status(401))
    BY <1>1, <1>2, UnauthorizedJustified
  <1>3. CASE Reply(c, Status(503))
    BY <1>1, <1>3, UnavailableJustified
  <1> QED
    BY <1>1, <1>2, <1>3

-----------------------------------------------------------------------------
(* A step of one request, seen by itself and by the others.                *)

Steady(d) ==
  /\ pc'[d] = pc[d] /\ total'[d] = total[d] /\ listed'[d] = listed[d]
  /\ request'[d] = request[d]

LEMMA ReplySteady ==
  ASSUME TypeOK, NEW c \in Requests, NEW reply, Reply(c, reply),
         NEW d \in Requests \ {c}, request'[d] = request[d]
  PROVE  Steady(d)
  BY DEF TypeOK, Reply, Steady

LEMMA GotoSteady ==
  ASSUME TypeOK, NEW c \in Requests, NEW label, Goto(c, label),
         NEW d \in Requests \ {c}, request'[d] = request[d]
  PROVE  Steady(d)
  BY DEF TypeOK, Goto, locals, Steady

LEMMA RequestSteady ==
  ASSUME Inv, TypeOK, NEW c \in Requests,
         Arrive(c) \/ CatalogStep(c) \/ AdminStep(c) \/ FaultStep(c)
  PROVE  /\ pc[c] # "done" /\ Observe
         /\ pc[c] = "new" \/ UNCHANGED request
         /\ \A d \in Requests \ {c} : request'[d] = request[d]
  <1>1. CASE Arrive(c)
    BY <1>1 DEF Arrive, TypeOK
  <1>2. CASE CatalogStep(c)
    BY <1>2 DEF CatalogStep, ListSkills, Statement, Verify, GetSkill, RecordSkillDownload, CountSkills,
       ReadPage, Query
  <1>3. CASE AdminStep(c)
    BY <1>3 DEF AdminStep, Statement, ReadSkills, ReadClients, CreateAPIKey, RevokeAPIKey
  <1>4. CASE FaultStep(c)
    BY <1>4 DEF FaultStep, VerifyFails, ReadFails, RecordFails, KeyWriteFails, Fault
  <1> QED
    BY <1>1, <1>2, <1>3, <1>4

LEMMA OthersSteady ==
  ASSUME Inv, TypeOK, NEW c \in Requests,
         Arrive(c) \/ CatalogStep(c) \/ AdminStep(c) \/ FaultStep(c),
         NEW d \in Requests \ {c}
  PROVE  Steady(d)
  <1>1. request'[d] = request[d]
    BY RequestSteady
  <1>2. ASSUME NEW reply, Reply(c, reply) PROVE Steady(d)
    BY <1>1, <1>2, ReplySteady
  <1>3. ASSUME NEW label, Goto(c, label) PROVE Steady(d)
    BY <1>1, <1>3, GotoSteady
  <1>4. CASE Arrive(c)
    <2>1. PICK r \in Request :
            \/ Reply(c, Status(401)) \/ Reply(c, Status(429))
            \/ Goto(c, First(r.endpoint)) \/ Goto(c, "verify")
      BY <1>4 DEF Arrive, Admit
    <2> QED
      BY <1>2, <1>3, <2>1
  <1>5. CASE Verify(c) \/ GetSkill(c) \/ RecordSkillDownload(c) \/ Query(c)
    BY <1>2, <1>3, <1>5 DEF Verify, Admit, GetSkill, RecordSkillDownload, Query
  <1>6. CASE CountSkills(c) \/ ReadSkills(c)
    BY <1>1, <1>6 DEF CountSkills, ReadSkills, TypeOK, Steady
  <1>7. CASE ReadPage(c)
    BY <1>2, <1>7 DEF ReadPage
  <1>8. CASE ReadClients(c)
    BY <1>2, <1>8 DEF ReadClients
  <1>9. CASE CreateAPIKey(c) \/ RevokeAPIKey(c) \/ FaultStep(c)
    BY <1>2, <1>9 DEF CreateAPIKey, RevokeAPIKey, FaultStep, VerifyFails, ReadFails,
       RecordFails, KeyWriteFails
  <1> QED
    BY <1>4, <1>5, <1>6, <1>7, <1>8, <1>9 DEF CatalogStep, ListSkills, AdminStep

(* What the rest of the world does leaves every request where it is.       *)
LEMMA OutsideSteady ==
  ASSUME NEW id, NEW k, IndexerUpserts(id) \/ IndexerDeletes(id) \/ KeyExpires(k)
  PROVE  Observe /\ \A d \in Requests : Steady(d)
  BY DEF IndexerUpserts, IndexerDeletes, KeyExpires, Outside, locals, Steady

(* Counts only grow while the skill is stored.                             *)
LEMMA DownloadsKept ==
  ASSUME Inv, TypeOK, Next
  PROVE  \A id \in Stored(skills'), k \in KeyIDs : downloads[id][k] <= downloads'[id][k]
  <1>1. downloads \in [SkillIDs -> [KeyIDs -> Nat]] /\ skills \in [SkillIDs -> Row \cup {Absent}]
    BY DEF TypeOK, Counts, Table
  <1>2. CASE UNCHANGED downloads
    <2>1. \A id \in SkillIDs, k \in KeyIDs : downloads[id][k] \in Nat
      BY <1>1
    <2> QED
      BY <1>2, <2>1 DEF Stored
  <1>3. ASSUME NEW c \in Requests, RecordSkillDownload(c) \/ RecordFails(c), ~ UNCHANGED downloads
        PROVE  \A id \in Stored(skills'), k \in KeyIDs : downloads[id][k] <= downloads'[id][k]
    <2>1. pc[c] = "record" /\ Counted(request[c].skill, request[c].token)
      BY <1>3 DEF RecordSkillDownload, RecordFails
    <2>2. request[c].skill \in SkillIDs /\ request[c].token \in KeyIDs
      BY <2>1, RecordFits DEF RecordFacts
    <2>3. ASSUME NEW id \in SkillIDs, NEW k \in KeyIDs
          PROVE  downloads[id][k] <= downloads'[id][k]
      <3>1. downloads[id][k] \in Nat
        BY <1>1
      <3>2. downloads'[id][k] = downloads[id][k] \/ downloads'[id][k] = downloads[id][k] + 1
        BY <1>1, <2>1, <2>2 DEF Counted
      <3> QED
        BY <3>1, <3>2
    <2> QED
      BY <2>3 DEF Stored
  <1>4. ASSUME NEW id \in SkillIDs, IndexerDeletes(id)
        PROVE  \A s \in Stored(skills'), k \in KeyIDs : downloads[s][k] <= downloads'[s][k]
    <2>1. /\ skills' = [skills EXCEPT ![id] = Absent]
          /\ downloads' = [downloads EXCEPT ![id] = NoDownloads]
      BY <1>4 DEF IndexerDeletes, DeleteSkill
    <2>2. ASSUME NEW s \in Stored(skills'), NEW k \in KeyIDs
          PROVE  downloads[s][k] <= downloads'[s][k]
      <3>1. s \in SkillIDs /\ s # id
        BY <1>1, <2>1, <2>2 DEF Stored
      <3>2. downloads'[s] = downloads[s] /\ downloads[s][k] \in Nat
        BY <1>1, <2>1, <3>1
      <3> QED
        BY <3>2
    <2> QED
      BY <2>2
  <1>5. ASSUME NEW c \in Requests, Arrive(c) PROVE UNCHANGED downloads
    BY <1>5 DEF Arrive, stores
  <1>6. ASSUME NEW c \in Requests, CatalogStep(c) \/ AdminStep(c) \/ FaultStep(c),
               ~RecordSkillDownload(c), ~RecordFails(c)
        PROVE  UNCHANGED downloads
    BY <1>6 DEF CatalogStep, ListSkills, AdminStep, FaultStep, Statement, stores, Verify, GetSkill,
       CountSkills, ReadPage, Query, ReadSkills, ReadClients, CreateAPIKey, RevokeAPIKey,
       VerifyFails, ReadFails, KeyWriteFails
  <1>7. ASSUME NEW id, NEW k, IndexerUpserts(id) \/ KeyExpires(k) PROVE UNCHANGED downloads
    BY <1>7 DEF IndexerUpserts, KeyExpires
  <1> QED
    BY <1>2, <1>3, <1>4, <1>5, <1>6, <1>7 DEF Next

-----------------------------------------------------------------------------
(* A request that goes on to its next statement.                           *)

LEMMA FirstElsewhere ==
  ASSUME NEW r \in Request
  PROVE  First(r.endpoint) \notin {"record", "clients", "page"}
  BY RequestFacts DEF First

LEMMA ArriveRelies ==
  ASSUME TypeOK, NEW c \in Requests, Arrive(c), Open(c)'
  PROVE  Relies(c)'
  <1>1. Observe /\ pc[c] = "new"
    BY DEF Arrive
  <1>2. PICK r \in Request :
          /\ request' = [request EXCEPT ![c] = r]
          /\ \/ Reply(c, Status(401)) \/ Reply(c, Status(429))
             \/ r.token = Master /\ Goto(c, First(r.endpoint))
             \/ Goto(c, "verify")
    BY DEF Arrive, Admit
  <1>3. request'[c] = r
    BY <1>2 DEF TypeOK
  <1>4. CASE Reply(c, Status(401)) \/ Reply(c, Status(429))
    BY <1>4, ReplyFacts DEF Open
  <1>5. CASE Goto(c, "verify")
    <2>1. pc'[c] = "verify"
      BY <1>5, GotoFacts
    <2> QED
      BY <2>1 DEF Relies
  <1>6. CASE r.token = Master /\ Goto(c, First(r.endpoint))
    <2>1. pc'[c] = First(r.endpoint)
      BY <1>6, GotoFacts
    <2>2. pc'[c] \notin {"record", "clients", "page"}
      BY <2>1, FirstElsewhere
    <2>3. Usable(request[c].token)' = TRUE
      BY <1>3, <1>6 DEF Usable
    <2>4. since'[c].usable = {Usable(request[c].token)'}
      BY <1>1, ObservedFirst
    <2>5. TRUE \in since'[c].usable
      BY <2>3, <2>4
    <2> QED
      BY <2>2, <2>5 DEF Relies
  <1> QED
    BY <1>2, <1>4, <1>5, <1>6

LEMMA VerifyRelies ==
  ASSUME Inv, TypeOK, NEW c \in Requests, Watches(c), Verify(c), Open(c)'
  PROVE  Relies(c)'
  <1>1. Observe /\ pc[c] = "verify" /\ request[c] \in Request
    BY DEF Verify, Statement, Inv, RequestsFit, Fits
  <1>2. CASE Reply(c, Status(401)) \/ Reply(c, Status(429))
    BY <1>2, ReplyFacts DEF Open
  <1>3. CASE Usable(request[c].token) /\ Goto(c, First(request[c].endpoint))
    <2>1. pc'[c] = First(request[c].endpoint)
      BY <1>3, GotoFacts
    <2>2. pc'[c] \notin {"record", "clients", "page"}
      BY <1>1, <2>1, FirstElsewhere
    <2>3. Usable(request[c].token) = TRUE
      BY <1>3, UsableType
    <2>4. TRUE \in since[c].usable
      BY <2>3 DEF Watches
    <2>5. TRUE \in since'[c].usable
      BY <1>1, <2>4, ObservedThen
    <2> QED
      BY <2>2, <2>5 DEF Relies
  <1> QED
    BY <1>2, <1>3 DEF Verify, Admit

(* Statements that read and go on: what they have read is the catalog.     *)
LEMMA ReadingRelies ==
  ASSUME Inv, TypeOK, NEW c \in Requests, Watches(c), Relies(c), Open(c)',
         GetSkill(c) \/ CountSkills(c) \/ ReadSkills(c)
  PROVE  Relies(c)'
  <1>1. /\ Observe /\ pc[c] \notin {"new", "verify"} /\ TRUE \in since[c].usable
        /\ UNCHANGED <<skills, llmCheckedOnly, request>>
    BY DEF GetSkill, CountSkills, ReadSkills, Statement, stores, Relies
  <1>2. /\ since'[c].ever = since[c].ever \cup Catalog(c)'
        /\ since'[c].always = since[c].always \cap Catalog(c)'
        /\ since'[c].usable = since[c].usable \cup {Usable(request[c].token)'}
    BY <1>1, ObservedThen
  <1>3. TRUE \in since'[c].usable
    BY <1>1, <1>2
  <1>4. Catalog(c)' = Catalog(c)
    BY <1>1 DEF Catalog
  <1>5. Catalog(c) \subseteq since[c].ever /\ since[c].always \subseteq Catalog(c)
    BY DEF Watches
  <1>6. CASE GetSkill(c)
    <2> DEFINE id == request[c].skill
    <2>1. pc[c] = "get" /\ request[c].endpoint \in {"detail", "audit"}
      BY <1>6 DEF GetSkill, Statement, Inv, RequestsFit, Fits
    <2>2. \/ \E reply : Reply(c, reply)
          \/ /\ id \in Visible(skills, llmCheckedOnly) /\ request[c].endpoint # "audit"
             /\ Goto(c, "record")
      BY <1>6 DEF GetSkill
    <2>3. ~ \E reply : Reply(c, reply)
      BY ReplyFacts DEF Open
    <2>4. id \in Catalog(c) /\ pc'[c] = "record"
      BY <2>1, <2>2, <2>3, CatalogIsVisible, GotoFacts
    <2>5. request'[c].skill \in since'[c].ever
      BY <1>1, <1>2, <1>5, <2>4
    <2> QED
      BY <1>3, <2>4, <2>5 DEF Relies
  <1>7. CASE CountSkills(c)
    <2>1. pc[c] = "count" /\ request[c].endpoint = "list"
      BY <1>7 DEF CountSkills, Statement, Inv, RequestsFit, Fits
    <2>2. Catalog(c) = Visible(skills, llmCheckedOnly)
      BY <2>1, CatalogIsVisible
    <2>3. pc'[c] = "page" /\ total'[c] = Cardinality(Visible(skills, llmCheckedOnly))
      BY <1>7 DEF CountSkills, TypeOK
    <2>4. Cardinality(Catalog(c)') <= total'[c]
      BY <1>4, <2>2, <2>3, CatalogType
    <2> QED
      BY <1>3, <2>3, <2>4 DEF Relies
  <1>8. CASE ReadSkills(c)
    <2>1. pc[c] = "skills" /\ request[c].endpoint = "stats"
      BY <1>8 DEF ReadSkills, Statement, Inv, RequestsFit, Fits
    <2>2. Catalog(c) = Stored(skills)
      BY <2>1 DEF Catalog
    <2>3. pc'[c] = "clients" /\ listed'[c] = Stored(skills)
      BY <1>8 DEF ReadSkills, TypeOK
    <2>4. since'[c].always \subseteq listed'[c] /\ listed'[c] \subseteq since'[c].ever
      BY <1>2, <1>4, <2>2, <2>3
    <2> QED
      BY <1>3, <2>3, <2>4 DEF Relies
  <1> QED
    BY <1>6, <1>7, <1>8

(* Every other statement of a request answers it.                          *)
LEMMA LastStatements ==
  ASSUME TypeOK, NEW c \in Requests,
         RecordSkillDownload(c) \/ ReadPage(c) \/ Query(c) \/ ReadClients(c)
           \/ CreateAPIKey(c) \/ RevokeAPIKey(c) \/ FaultStep(c)
  PROVE  ~Open(c)'
  <1>1. ASSUME NEW reply, Reply(c, reply) PROVE ~Open(c)'
    BY <1>1, ReplyFacts DEF Open
  <1>2. CASE RecordSkillDownload(c) \/ Query(c) \/ CreateAPIKey(c) \/ RevokeAPIKey(c)
    BY <1>1, <1>2 DEF RecordSkillDownload, Query, CreateAPIKey, RevokeAPIKey
  <1>3. CASE ReadPage(c)
    BY <1>1, <1>3 DEF ReadPage
  <1>4. CASE ReadClients(c)
    BY <1>1, <1>4 DEF ReadClients
  <1>5. CASE FaultStep(c)
    BY <1>1, <1>5 DEF FaultStep, VerifyFails, ReadFails, RecordFails, KeyWriteFails
  <1> QED
    BY <1>2, <1>3, <1>4, <1>5

LEMMA OwnStepRelies ==
  ASSUME Inv, TypeOK, NEW c \in Requests, Open(c) => Watches(c) /\ Relies(c), Open(c)',
         Arrive(c) \/ CatalogStep(c) \/ AdminStep(c) \/ FaultStep(c)
  PROVE  Relies(c)'
  <1>1. CASE Arrive(c)
    BY <1>1, ArriveRelies
  <1>2. CASE Verify(c) \/ GetSkill(c) \/ CountSkills(c) \/ ReadSkills(c)
    <2>1. Open(c)
      BY <1>2 DEF Verify, GetSkill, CountSkills, ReadSkills, Statement, Open
    <2> QED
      BY <1>2, <2>1, VerifyRelies, ReadingRelies
  <1>3. CASE RecordSkillDownload(c) \/ ReadPage(c) \/ Query(c) \/ ReadClients(c)
             \/ CreateAPIKey(c) \/ RevokeAPIKey(c) \/ FaultStep(c)
    BY <1>3, LastStatements
  <1> QED
    BY <1>1, <1>2, <1>3 DEF CatalogStep, ListSkills, AdminStep

LEMMA AllWatchStep ==
  ASSUME Inv, TypeOK, TypeOK', AllWatch, Next
  PROVE  AllWatch'
  <1>1. \A id \in Stored(skills'), k \in KeyIDs : downloads[id][k] <= downloads'[id][k]
    BY DownloadsKept
  <1>2. ASSUME Observe, NEW d \in Requests, Steady(d), Open(d)'
        PROVE  Watches(d)' /\ Relies(d)'
    <2>1. Open(d) /\ Watches(d) /\ Relies(d)
      BY <1>2 DEF AllWatch, Open, Steady
    <2>2. Watches(d)'
      BY <1>1, <1>2, <2>1, StaysWatched DEF Steady
    <2>3. Relies(d)'
      BY <1>2, <2>1, KeepsRelying DEF Steady
    <2> QED
      BY <2>2, <2>3
  <1>3. ASSUME NEW c \in Requests, Arrive(c) \/ CatalogStep(c) \/ AdminStep(c) \/ FaultStep(c),
               NEW d \in Requests, Open(d)'
        PROVE  Watches(d)' /\ Relies(d)'
    <2>1. Observe /\ pc[c] # "done" /\ (pc[c] = "new" \/ UNCHANGED request)
      BY <1>3, RequestSteady
    <2>2. CASE d = c
      <3>1. Open(c) => Watches(c) /\ Relies(c)
        BY DEF AllWatch
      <3>2. pc[c] = "new" \/ (Open(c) /\ Watches(c) /\ request'[c] = request[c])
        BY <2>1, <3>1 DEF Open
      <3>3. Watches(c)'
        BY <1>1, <1>3, <2>1, <2>2, <3>2, StaysWatched
      <3>4. Relies(c)'
        BY <1>3, <2>2, <3>1, OwnStepRelies
      <3> QED
        BY <2>2, <3>3, <3>4
    <2>3. CASE d # c
      <3>1. Steady(d)
        BY <1>3, <2>3, OthersSteady
      <3> QED
        BY <1>2, <1>3, <2>1, <3>1
    <2> QED
      BY <2>2, <2>3
  <1>4. ASSUME NEW id, NEW k, IndexerUpserts(id) \/ IndexerDeletes(id) \/ KeyExpires(k),
               NEW d \in Requests, Open(d)'
        PROVE  Watches(d)' /\ Relies(d)'
    <2>1. Observe /\ Steady(d)
      BY <1>4, OutsideSteady
    <2> QED
      BY <1>2, <1>4, <2>1
  <1> QED
    BY <1>3, <1>4 DEF Next, AllWatch

(* An answer is justified when it is given, and told to stop in time.      *)
LEMMA StepAnswers ==
  ASSUME Inv, TypeOK, AllWatch, Next, NEW c \in Requests, Answers(c)
  PROVE  Justified(c) /\ Stops(c)
  <1>1. Open(c) /\ Watches(c) /\ Relies(c) /\ pc'[c] # pc[c]
    BY DEF Answers, Open, AllWatch
  <1>2. ASSUME NEW id, NEW k, IndexerUpserts(id) \/ IndexerDeletes(id) \/ KeyExpires(k)
        PROVE  FALSE
    BY <1>1, <1>2, OutsideSteady DEF Steady
  <1>3. ASSUME NEW d \in Requests, Arrive(d) \/ CatalogStep(d) \/ AdminStep(d) \/ FaultStep(d)
        PROVE  d = c
    BY <1>1, <1>3, OthersSteady DEF Steady
  <1>4. ~Arrive(c)
    BY <1>1 DEF Arrive, Open
  <1>5. CASE CatalogStep(c)
    <2>1. ~CountSkills(c)
      BY DEF CountSkills, Answers, TypeOK
    <2> QED
      BY <1>1, <1>5, <2>1, VerifyAnswers, GetSkillAnswers, RecordAnswers, ReadPageAnswers,
         QueryAnswers DEF CatalogStep, ListSkills
  <1>6. CASE AdminStep(c)
    <2>1. ~ReadSkills(c)
      BY DEF ReadSkills, Answers, TypeOK
    <2> QED
      BY <1>1, <1>6, <2>1, ReadClientsAnswers, KeyAnswers DEF AdminStep
  <1>7. CASE FaultStep(c)
    BY <1>7, FaultAnswers
  <1> QED
    BY <1>2, <1>3, <1>4, <1>5, <1>6, <1>7 DEF Next

LEMMA StepsJustified ==
  Inv /\ TypeOK /\ AllWatch /\ [Next]_vars
    => [\A c \in Requests : Answers(c) => Justified(c)]_vars
  BY StepAnswers

LEMMA StepsStop ==
  Inv /\ TypeOK /\ AllWatch /\ [Next]_vars
    => [\A c \in Requests :
          /\ Answers(c) /\ request[c].endpoint = "list" /\ answer'[c].status = 200
          /\ ~answer'[c].hasMore /\ ~since[c].grew
          => \A id \in since[c].always :
               \/ id \in answer'[c].shown
               \/ Rank(id, Visible(skills, llmCheckedOnly)) < request[c].page * PerPage]_vars
  BY StepAnswers, Zenon DEF Stops

LEMMA WatchedNext ==
  Inv /\ TypeOK /\ TypeOK' /\ AllWatch /\ [Next]_vars => AllWatch'
  <1>1. CASE Next
    BY <1>1, AllWatchStep
  <1>2. ASSUME AllWatch, UNCHANGED vars PROVE AllWatch'
    BY <1>2 DEF vars, stores, locals, AllWatch, Open, Watches, Relies, Catalog, Usable
  <1> QED
    BY <1>1, <1>2

LEMMA WatchedFirst == Init => AllWatch
  BY DEF Init, AllWatch, Open

LEMMA AlwaysWatched == Spec => [](Inv /\ TypeOK /\ AllWatch)
  BY Inductive, TypeCorrect, WatchedNext, WatchedFirst, PTL DEF Spec

(* README.md:151, 167: whatever indexers, administrators and clocks do     *)
(* while a request is served, its answer is justified by something that    *)
(* was so between its arrival and the answer.                              *)
THEOREM AnswersJustified == Spec => AnswersAreJustified
  BY AlwaysWatched, StepsJustified, PTL DEF Spec, AnswersAreJustified

(* openapi.json, hasMore, whose total is read before the page: a request   *)
(* told that there is no more shows every skill that was there all the     *)
(* time, up to those on earlier pages of the catalog at the answer, unless *)
(* a skill was published during the request.                               *)
THEOREM PagingIsSound == Spec => PagingStopsInTime
  BY AlwaysWatched, StepsStop, PTL DEF Spec, PagingStopsInTime

=============================================================================
