# ExitSkills: models, model checking and proofs

ExitSkills indexes public GitHub repositories that contain agent skills, lets an
OpenAI-compatible service assess them, stores them in PostgreSQL or SQLite and
serves them over an HTTP API.  This directory holds TLA+ modules for the parts
of the program where order, failure or concurrency decide whether it is correct,
TLC runs on small instances, and proofs checked by TLAPS.

Run a model with `tlc -config <run>.cfg <module>.tla`, and check proofs with
`tlapm <module>.tla`.  `PROJECT.json` lists the runs, the source lines behind
every definition, the mutants, the findings and the hazards.

## 1. The system

| Part | State it keeps | Operations | Talks to |
|---|---|---|---|
| Skill table (`internal/store`) | rows: files, content hash, `llm_checked`, `updated_at` | upsert, delete, update assessment, migrate; fresh ids, hashes, unassessed rows, list, search, get, curated | shared by all replicas; one statement at a time is atomic, nothing groups two |
| Indexing run (`internal/indexer`) | local to a run: counts, fresh ids, hashes, current batch | `Reconcile`, `Run`, `indexBatch`, `indexCandidate` | table, assessment service, discovery (calls back through `yield`) |
| Worker pool and gate (`internal/indexer`) | channels of jobs and results, `nextAssessmentStart` under `assessmentGate` | take, assess with cooldown, write, send, cancel | as above |
| Scheduler, process (`internal/scheduler`, `cmd/server`) | ticker, signal context | run on start, run on tick, shut down | indexer, HTTP server, database |
| Assessment client (`internal/audit`) | none | `Audit` | AI service |
| Discovery (`internal/github`) | `seen` ids of a run, job and result channels | official, popular and code-search passes, content download | GitHub, `yield` |
| Rate gate (`internal/github`) | `blockedUntil` per resource under a mutex | await, block, observe, retry | every GitHub request |
| HTTP API (`internal/httpapi`) | none of its own | list, search, curated, detail, audit, key administration, statistics | table, keys, limiter |
| Rate limiter (`internal/httpapi/limiter.go`) | admission times per key under a mutex | `allow` | HTTP API |
| API keys (`internal/auth`, `internal/store`) | hash, expiry, revocation, last use | create, look up, revoke | HTTP API |
| Configuration, documentation, admin command | none | read once, or plain input and output | - |

What is hard, per part:

* **Table and runs.**  Replicas interleave between any two statements; a run
  decides from sets it read hours before; statements fail, possibly after they
  were applied; processes crash between an assessment and its write and restart
  with other settings.  Correct means: nothing is published that no assessment
  passed, every unassessed row is decided in the end, every run ends.
* **Pool and gate.**  The order of results, errors and cancellation.  Correct
  means: no result lost, the cause reported, nothing left running, assessments
  one at a time and spaced by the cooldown.
* **Discovery and rate gate.**  Duplicates across passes, back pressure through
  `yield`, partial downloads, concurrent callers of one gate.  Correct means:
  each skill at most once per run, no request sent into a known limit by the
  caller that was told of it, bounded attempts, pools that end.
* **HTTP API, keys, statistics, limiter.**  A request is several statements;
  indexers publish and delete, administrators revoke, keys expire and statements
  fail between any two of them.  Correct means: every answer is justified by
  something that was so during the request, downloads are counted once and kept,
  a client that pages is not told to stop too early, and the limiter is exact at
  the borders of its window.

## 2. The modules

| Module | Models | Proofs |
|---|---|---|
| `SkillStore` | the skills table as a value, one operator per statement | |
| `Publication` | abstract: what a reader may rely on | |
| `Indexer` | runs of any number of replicas over one table; extends `SkillStore`, implements `Publication` | `IndexerProofs` |
| `MCIndexer` | small candidate sets for `Indexer` | |
| `IndexBatch` | worker pool, channels, cancellation, assessment gate of one batch | `IndexBatchProofs` |
| `Discovery` | the passes and pages of a GitHub discovery; implements `Source` | `DiscoveryProofs` |
| `MCDiscovery` | two repositories for `Discovery` | |
| `Source` | abstract: what an indexing run may rely on | |
| `FetchPool` | the download pool of one page and its consumer | `FetchPoolProofs` |
| `RateGate` | concurrent requests under GitHub's limits | `RateGateProofs` |
| `LookupPool` | the pools that look up metadata and trees; extends `RateGate`, composes both | `LookupPoolProofs` |
| `HttpApi` | requests, statement by statement, over skills, keys and downloads; extends `SkillStore` | `HttpApiProofs` |
| `MCHttpApi` | symmetry of the requests for `HttpApi` | |
| `Limiter` | the sliding-window limiter | `LimiterProofs` |

How they fit together: `Discovery` lists pages and treats the download of a page
as one `Hand` or `Refuse` per item, which `FetchPool!AllAccountedFor` justifies.
`Indexer` takes its candidates from a source that yields each id at most once,
which is `Source` and what `Discovery` implements.  `FetchPool`'s consumer calls
the indexer for each full batch, whose inside is `IndexBatch`.  Every request of
the pools goes through `RateGate`: in `LookupPool` the workers are callers of
`RateGate`, step by step; in `FetchPool` the requests of a candidate are one
step.  `HttpApi` reads and writes the table of `SkillStore` with the operators
`Indexer` uses; its indexer is cut down to single upserts, marks and deletes,
which is all a request can see of one.  Whether `Limiter` admits a request is a
free choice there.

**SkillStore.**  A row keeps its snapshot (the SKILL.md text and everything else
as one value), `checked` (`llm_checked`) and `fresh` (`updated_at` after the
cutoff).  Equal content hashes are equal snapshots.  `NoSkillFile` is the text
of a row of an older version without a skill file: `Migrate` removes it, and
`Contents` reads it as the empty string as `COALESCE` does.  PostgreSQL and
SQLite run the same statements, so one operator stands for both.

**Indexer.**  `pc[r]` is where replica `r` stands in a run: `count`, `load`,
`assess`, `record` in `Reconcile`; `snapshot`, `hashes`, `discover`, `audit`,
`write` in `Run` and `indexBatch`.  Every database statement and every answer of
the assessment service is one step.  `run[r]` holds the local variables;
`outcome[r]` how the last run ended.  `Boot` runs the migration and reads the AI
settings; `Crash` stands for a crash and for SIGTERM (a cancelled run writes
nothing more); `Age` lets a row pass the freshness cutoff.  `Fault` bounds
crashes, failed statements, failed requests and failed fetches together.  A
failed write leaves two possible tables, with and without the write.  Discovery
is a source that yields each id at most once, may fail, and may stop at any
point.  A batch is a set: which candidate of a batch comes first is left open.
The program starts the pool with one worker (`WithConcurrency(1)`), so `Indexer`
handles one job at a time; after an error it may still take further jobs until
the consumer has cancelled it, as in the code.

Histories: `approved` collects the documents some assessment passed, `rejected[r]`
the skills whose latest assessment in the current run did not pass.

**Publication.**  A reader sees a document per skill, or none.  `Publish` needs
an approved document, `Withdraw` may take any skills away.  `Indexer` maps
`published[id]` to the document of a row that is visible under enforcement.

**IndexBatch.**  Goroutines are `pc[w]` of each worker and `consumer`.  `results`
is the buffered channel, `gate` the mutex, `cooling` says that
`nextAssessmentStart` is in the future.  `cancelled` is `runCtx.Err() # nil`,
`stopping` is the parent context.  `LongCooldown` is the assumption that a
cooldown outlasts the handling of one result; see `AttemptedOnce`.

**Discovery.**  `pass` and `page` are the loops of `DiscoverStream`, `seen` its map
of ids, `queue` the `pageItems` not handled yet.  `Enqueue` is the filter that all
three passes repeat: `New` are the positions of a list at which an id appears for
the first time in the run.  What the code search lists is any sequence of files
within the page size.  What the look-up of trees returns is `TreeLists`: each tree
in its order (`InTreeOrder`, by depth, then path), one after the other in any
order; a tree may be unreadable or truncated.  An id stands for a repository and
the slug of a folder, so files can share it.

**FetchPool.**  As in `IndexBatch`, goroutines are `pc[w]` and `consumer`; `results`
has one slot per worker.  The requests behind one candidate are one step whose
outcome is nondeterministic: only the request that ends `fetchCandidate` matters.
`consumer = "index"` is the time `yield` spends in a full batch.

**RateGate.**  Instants are kept as ticks that are left, so the clock is not
bounded: `blocked[r]` for `blockedUntil`, `told[c]` for the instant the last answer
to caller `c` named, `delay[c]` for its timer.  `holder` is who sleeps with the
mutex held; all other critical sections are single steps.  A header that is
absent, unreadable or in the past is -1: the code treats the three alike.

**LookupPool.**  `fetchRepositoryMetadata` and `fetchRepositorySkillItems` have one
shape: closed channel of jobs, a slot for every result, a consumer that leaves
at the first error that must abort and cancels nobody.  `job[w]` is what worker
`w` has in hand: nothing, a name it looks up (then it is a caller of `RateGate`,
with `pc[w]`, `attempt[w]` and so on), or the result.  Callers outside `Workers`
stand for what the program does after the consumer has left: the next pass, or
the next run.

**HttpApi.**  `pc[c]` is the statement request `c` is at: `verify`, then `get` and
`record` (detail, audit), `count` and `page` (list), `query` (search and curated,
one `SELECT` each), `skills` and `clients` (statistics), `insert`, `revoke`.  A
handler has no state between statements but `total` and `listed`.  `Arrive` is
`ServeHTTP` up to the first statement; `Verify` is `LookupAPIKey`, one `UPDATE`
on PostgreSQL and one transaction on SQLite.  A key is `none`, `active`, `expired`
or `revoked`; a token stands for its key, and a client knows the tokens in
`issued`.  `downloads` follows the two foreign keys: a count needs a stored
skill, and deleting the skill deletes its counts.  Every statement may fail,
because of the database or because the client has gone; a write that fails may
have been applied.  `since[c]` records what was so at some instant, or at every
instant, since `c` arrived: what it could have been shown (`ever`, `always`), how
its token stood (`usable`), whether a skill appeared (`grew`), which downloads
were counted before it asked (`due`).  An answer of the statistics carries the
downloads per skill and client as `addClientStats` collects them; the totals the
code adds up from them are left out.  Answers that need no statement (probes,
documentation, malformed requests) are left out.

**Limiter.**  `allow` runs under a mutex and reads the clock once, so each call is
a step, `Allow` or `Deny`.  `admitted[k]` is the full history of admissions,
`retryAt[k]` the instant the last denial announced.

Definitions whose comment starts with `Mutant:` are not part of a specification.
Each is a variant of the definition after it with one plausible bug, and the
mutant list in `PROJECT.json` says which property detects it.

## 3. The runs

| Run | Module, instance | Result |
|---|---|---|
| `single` | `MCIndexer`: one replica, three skills, seven candidates, batch size 2, AI on or off at each boot, two faults; at first any row of one skill, of the others an unassessed one or none | 9 properties hold, 435 178 states |
| `replicas` | `MCIndexer`: two replicas with equal settings, one skill, two versions, batch size 1, one fault | 3 properties hold, 61 327 states |
| `batch` | `IndexBatch`: two workers, three jobs, with and without auditor | 6 properties hold, 102 883 states |
| `fetch` | `FetchPool`: two workers, four results, batches of two, an earlier batch that may be partly filled | 4 properties hold, 207 464 states |
| `gate` | `LookupPool`: one worker, two names, one other caller, two resources, three attempts, waits up to a tick or by back-off | 5 properties hold, 144 810 states |
| `api` | `MCHttpApi`: two requests of any kind, one key, two skills on pages of one, two writes of indexers, one fault | 5 properties hold, 2 252 321 states |
| `discovery` | `MCDiscovery`: two repositories, five files, three of them with one id, two pages of two | 4 properties hold, 17 990 states |
| `limiter` | `Limiter`: two keys, limit 2, window 3, second 2, clock up to 7 | 4 properties hold |
| `rolling` | as `replicas`, replicas with different AI settings may overlap | `PublishedWasApproved` violated |
| `stale_fresh` | as `replicas`, no faults | `FreshRowsUntouched` violated |
| `fails_closed` | as `single`, from any table | `FailsClosed` violated |
| `one_batch` | as `fetch`, three results | `OneBatchAtATime` violated |

What the properties say:

* `PublishedWasApproved`: the publication gate of README.md:3.  A checked row's
  document passed an assessment, whatever happened between assessment and mark.
* `ImplementsPublication`: every step of the indexer is a step, or a stutter, of
  `Publication`.
* `DiscoveryFindsNoUnassessed`: `Reconcile` leaves nothing behind, so the skips of
  fresh and unchanged candidates cannot hide an unassessed row.  One replica.
* `HealthyRunsSucceed`: the two errors that say the table changed under the run do
  not occur with a single writer.
* `RejectedIsWithdrawn`: a run that ends without an error has withdrawn every skill
  whose latest assessment in it did not pass, also when only new contents failed.
* `FreshRowsUntouched`: README.md:8 for one replica; with two it fails.
* `UnassessedIsDecided`, `RunsEnd`: every row collected without AI is decided;
  every run ends.
* `NothingLost`, `CauseIsReported`, `BatchReturns`: results, errors and the end of
  a batch.
* `SerializedAndSpaced`, `AttemptedOnce`: README.md:73.
* `CauseIsReported`, `AllAccountedFor`, `PageEnds` of `FetchPool`: a page that ends
  without an error lost no candidate, one that GitHub's limits stopped ends with
  an error, errors that only follow from cancelling are not reported, and every
  page ends.
* `InstructionKept`, `GateHonoured`: README.md:19.  A request is never repeated
  before the instant its own last answer named, and nobody leaves a gate that is
  known to be closed, also while workers without a consumer go on.
* `LookupIsComplete`: a look-up that returns has counted every name and met no
  limit: a limit always fails the run (README.md:19), whichever worker met it
  and in whatever order results arrive.
* `PoolEnds`: the consumer leaves, every worker ends even if nobody receives its
  results any more, and every request of the others ends.  This is why the
  channel has a slot per name: with an unbuffered one it fails.
* `AnswersAreJustified`: openapi.json and README.md:151, 167.  A 200 or 429 needs a
  key that was valid at some instant of the request, a 401 one that was not (or
  a failure), a 404 a skill that was not visible all the time, a 503 a failure or a
  skill deleted meanwhile; what is shown was visible at some instant; statistics
  contain every skill that was there throughout, and for each skill and client no
  fewer downloads than had been counted when they were asked for.
* `DownloadsAddUp`: counts, and those lost with deleted skills, equal the answered
  fetches of a key, up to a statement that failed with an unknown outcome.  A new
  version of a skill and the revocation of a key leave them alone.
* `RevokedOnce`: of several revocations of one key at most one is answered 204.
* `PagingStopsInTime`: when a list answer says `hasMore = false` and no skill was
  published during the request, every skill that was there all the time is shown,
  or belongs to an earlier page of the catalog at the answer.  The first page, when
  it is the last, thus shows them all.  On a later page, if nothing was withdrawn
  during the request either, the catalog was one and the same throughout and so
  the rest are what its earlier pages show.  After a withdrawal in between nothing
  is promised about what an earlier page did show: with A and B on pages of one,
  A deleted between total and page, the second page is empty, B has moved to the
  first, and the client stops (section 5).  The property depends on the order of
  the two statements of `ListSkills`: with the page read before the total
  (`ListSkillsPageFirst`) the first page shows A, A is deleted, the total is one,
  and the client stops before B.
* `NothingOverlooked`, `FirstOfTree`, `ImplementsSource`: no skill is taken for a
  duplicate of one that was never handled, the choice among files of one id
  does not depend on the order of answers, and no id is handed over twice or
  although it is fresh.
* `WindowLimit`, `NoNeedlessDenial`, `ResetIsHonest`: the limiter, from both sides.

**Bounds.**  In `single`, batches hold two and there are three skills, so with three
rows to assess `Reconcile` loads a second batch after the marks and deletions of
the first, and with three candidates discovery hands over a full batch and then
another one.  The initial tables are bounded: the first skill has any row or none,
the two others an old row without an assessment or none; their assessed and their
fresh rows come from runs.  One skill and a batch of one suffice for races on a row.
Candidates cover a new version, a change of supporting files only, too few
stars, a candidate discovery itself marks as fresh, and contents the database
refuses.  Scores 4 and 5 are the two sides of the threshold.  Two faults allow a
failure followed by a crash, or a failure in each of two runs; the number of
runs is not bounded.  In `batch`, three jobs for two workers let one worker take
a second job while the other fails.  In `fetch`, four results for two workers fill
the channel while both workers hold a further result.  In `gate`, two callers
are the one that waits and the one that learns of a later limit meanwhile; the
code's three retries are two here, which leaves a first, a middle and a last
attempt; two names let the consumer leave while the worker still has a job (an
instance with two workers, three names and one resource, 265 234 states, also
holds).  In `api`, a request reads the tables twice at most, so one other
request, a change of the catalog before and one after suffice for what can come
between; an expiry or a creation needs no second key, since keys are independent
rows; two skills on pages of one give a first, a last and an empty page; the two
requests are interchangeable, hence the symmetry set.  In `discovery`, ids are shared between two names in one folder and two
folders of one repository, and a near-match of the name lies beside a skill.  In `limiter`, the clock reaches two windows
and a second of two ticks makes the rounding of the reset matter.

**Deadlock** is checked for `single`, `replicas` and `batch` (a returned batch
repeats `Returned`), and for `fetch` and `discovery` in the same way.  `limiter`
stops at the bound of its clock, `gate` when the pool has ended and the other
callers have nothing to ask, `api` when all requests are answered.

**Fairness.**  `Indexer`: a process is restarted (`Boot`), the ticker fires
(`StartRun`), and a run that meets no fault takes its next step: requests and
statements have time-outs, and the stream of candidates is finite.  Crashes,
failures and the ageing of rows are never forced.  `IndexBatch`: each worker, the
consumer and the timer run; the mutex need not be fair.  `FetchPool`: the same, and
indexing a batch ends (`IndexBatch!BatchReturns`).  `RateGate`: time passes,
requests end, and a goroutine that waits for the mutex gets it in the end
(strong fairness), as `sync.Mutex` guarantees by its starvation mode.
`LookupPool`: the same, and workers and the consumer run; that another caller
asks for something is never forced.  `HttpApi` states none: it has no liveness
property, a request that stays unanswered harms nobody else.

## 4. What is proved

Every safety invariant and every action property that a passing run checks, and
both refinements, are theorems: they hold for every value of the constants that
satisfies the modules' `ASSUME`s, unless a hypothesis is named below.  Each proof
is `Init => Inv`, `Inv /\ [Next]_vars => Inv'` and `Inv => property` for a
strengthening `Inv`, which was model-checked on the instances of section 3 first.
Every module's `TypeOK` is one of the theorems (`TypeCorrect`).

**IndexBatchProofs**: `NoJobIsLost`, `CauseReported`, `RequestsAreSpaced`, for any
number of jobs, workers and faults, and `NoAttemptAfterFailure` under
`LongCooldown` (without it the property fails, see section 5).  `BatchInv` says
that every job is in exactly one place, as an equation of cardinalities that
turns into an inequality once the batch has failed (`AllCounted`, `AllDecided`);
that nothing but an error, a shutdown or the end cancels (`CancelledWithCause`),
so a context error on its way has a cause (`ContextHasCause`); that an error is
in somebody's hands until the consumer has it (`ErrorsArrive`); that a worker ends
only on an empty channel or after a failure (`EndsLast`, `ReturnsLast`); and who
holds the gate (`GateHeld`).  That the statistics stay within the number of jobs,
part of `TypeOK`, is not inductive alone and follows from `AllCounted`.

**FetchPoolProofs**: `AllResultsAccountedFor` and `CauseReported`, for any number of
results and workers and any batch size.  `PageInv` follows items instead of
counting them: each is with one worker, once in the channel, or settled
(`InOnePlace`), and until something stops the page none is dropped
(`NothingDropped`).  `EchoesHaveCause` orders the channel: before an error that
only follows from cancelling lies the limit that set it off, or the consumer has
already seen it.

**LookupPoolProofs**: `PoolKeepsToGate`, `PoolSpec => Spec`: every step of workers,
consumer and others is a step of `RateGate` or leaves it alone, so the pool
inherits what is proved of the gate (`PoolKeepsInstructions`, `PoolHonoursGate`)
without a new invariant.  `LookupsAreComplete`: `PoolInv` says where a name can be
(`AllSomewhere`), and that a limit once met stays with a worker or in the channel
until the consumer fails on it (`LimitSomewhere`).

**RateGateProofs**: `InstructionsAreKept` and `GateIsHonoured`, for any number of
callers, resources and retries and any waits.  `Inv` adds what the mutex is for:
a caller in front of the gate is kept there at least as long as its last answer
asked (`GateKeepsInstruction`), and whoever waits holds the mutex, so that its
timer and the gate stay in step (`WaiterHoldsMutex`).

**DiscoveryProofs**: `NothingIsOverlooked`, `FirstOfTreeIsFetched` and
`ImplementsTheSource` (`Discovery` implements `Source`), for every set of files,
repositories and ids, every page size and whatever GitHub lists.  `DiscoveryInv`
accounts for every id met (`AllMet`: handed over, refused, fresh or still queued)
and says that what is queued was neither handed over nor is queued twice
(`QueuedOnce`).  That a tree has a first file of an id is `LeastNatural`, from the
well-foundedness of the natural numbers.

**IndexerProofs**, for any number of skills, documents, candidates and faults:

* `PublicationGate` (`PublishedWasApproved`) and `ImplementsCatalog`
  (`ImplementsPublication`) under `SettingsShared`: replicas that overlap have the
  same AI setting, or there is one.  The invariant alone is not inductive,
  because the mark is written from what a run remembers.  `GateInv` adds:
  replicas that are up share one setting (`SettingsAgree`); the contents a run
  has read for a pending row are still those of the row whenever the row is
  unassessed, since only processes without an auditor write unassessed contents
  (`PendingIsCurrent`); and what a run is about to write was approved if its
  verdict passed (`Local`).  The first conjunct is what the run `rolling` lacks.
  For the refinement, each statement, also one that failed with an unknown
  outcome, is shown to publish at most one approved document or to withdraw.
* `ReconcileIsComplete`, `HealthyRuns`, `RejectedAreWithdrawn` and
  `FreshRowsAreKept` under `OneReplica`, from `SoleInv`: what a run counted and read
  stays true of the table (`RowsCounted`, `FreshKnown`), a batch holds an id once
  and only ids this run has met (`JobsOnce`), and a skill whose assessment did not
  pass is invisible or about to be deleted (`RejectedGone`).  The hypothesis is
  needed: the run `stale_fresh` shows `FreshRowsUntouched` violated by two
  replicas, and section 5 says what else a second replica breaks.

**HttpApiProofs**, for any number of requests, keys, skills, writes and faults:

* `DownloadsAlwaysAddUp` and `KeysAreRevokedOnce`.  `Inv` adds that an unfinished
  request has no answer (`Unanswered`), that a request stands only at statements
  of its endpoint (`RequestsFit`: who records a download has fetched with a key),
  and that a key whose revocation was answered stays revoked (`RevokedStays`),
  so a second revocation finds nothing to do.  Steps are sorted by what they do to
  the three cardinalities of `DownloadsAddUp`: nothing (`SameCount`), one more
  answered fetch (`OneMore`), one more of unknown outcome (`OneUncertain`).
* `AnswersJustified` and `PagingIsSound`.  `Watches(c)` says that the history of a
  request encloses the present: what could ever be shown contains the catalog of
  now, what was always there is part of it, and the downloads that are due have
  not been lost.  `Relies(c)` says what a statement may assume from an earlier
  one: after `verify` the key was usable, at `record` the skill was visible, at
  `clients` the listed skills lie between what was always and what was ever there,
  and at `page` the total is an upper bound of the catalog unless it grew.  Every
  step of anybody keeps both (`AllWatch`), whereupon each kind of answer is
  justified by a lemma of its own.  For the page, a skill of rank below the end of
  the page is on it or, by `EarlierPage`, before its beginning.

**LimiterProofs**: `RateLimitHolds`, `DenialsAreNeeded` and `ResetsAreHonest`, for
every limit, window, length of a second and set of keys.  `LimitInv` says that
`requests[k]` is a suffix of `admitted[k]`, that both are sorted and not in the
future, and that everything forgotten is at least a window old.  A denial thus
keeps exactly `Limit` admissions, all within the window (`Kept`); and from a denial
to the next admission the list stays as it is, and the announced instant is not
before its head expires (`Promise`, with `RoundedUp` for the seconds).

**Only model-checked.**  Liveness (`UnassessedIsDecided`, `RunsEnd`, `BatchReturns`,
`PageEnds`, `PoolEnds`): the prover does not treat fairness.  The four runs that
expect a violation, naturally.

## 5. Disagreements with the documentation

1. README.md:12 promises that an existing skill is removed when its assessment
   completes with an error; the code leaves it and ends the run (`fails_closed`).
2. README.md:3's gate can be passed during a rolling change of the AI settings,
   because the mark does not compare contents (`rolling`).
3. README.md:8's freshness rule does not hold between replicas (`stale_fresh`).
4. README.md:69 says discovery continues only after a batch of 10 is stored; the
   download workers go on while the indexer works on the batch, up to one result
   per worker in the channel and one in hand (`one_batch`).

Met while modelling and not runs: README.md:19 names `X-RateLimit-Resource` among
the headers the client uses, but the code only logs it and tells code search from
everything else by the URL (client.go:804, 822); with two replicas a run may end with
`ErrNotFound` or the empty-batch error because the other replica decided a row
first (`HealthyRunsSucceed` fails on the `replicas` instance); with
`AI_AUDIT_INTERVAL` shorter than the handling of a result `AttemptedOnce` fails; a
valid key is answered 401, not 503, when the database fails during verification
(handler.go:98-101), which `AnswersAreJustified` therefore allows; deleting a skill
deletes its download counts (`ON DELETE CASCADE`), so the totals of the statistics
can fall; and because pages are `OFFSET`s, a client may miss or repeat a skill
when another one is published or deleted between two of its pages, or between the
two statements of the later page.

## 6. Not modelled

* HTTP encoding, JSON, SQL text, logging, and the answers that need no statement:
  no state is involved.
* Configuration, the API documentation and the administration command: plain
  input and output, or read once before anything runs.
* Generation, hashing and encryption of API keys, and GitHub authentication:
  library calls and a header.  Keys are modelled by their rows.
* Ordering and fuzzy matching of search results, unique clients and latest
  instants in the statistics, slugs and front matter: functions of one row or
  one answer, on strings.
* `walkFolder` and its budget: sequential, and its result is one snapshot for
  everything downstream.  A listing that fails half-way yields a smaller snapshot.
* The scheduler's ticker against the freshness period: `Indexer` lets rows age
  between any two steps and runs start at any time, which contains every
  schedule; what a particular interval implies is not stated anywhere.
* The order of the last steps of `main`: `Crash` stops a run before or after any
  statement, which contains a database that is closed under it.
* The HTTP exchange with the assessment service: its outcomes are choices of
  `Indexer` and `IndexBatch`.

## 7. Plan

Done: every module of section 2, and the proofs of section 4.  What is left:

1. The safety halves of the liveness properties as theorems: which step is
   possible whenever a pool has not ended.
2. That `FetchPool` delivers what `Discovery` assumes of a page, and `IndexBatch`
   what `Indexer` assumes of a batch, as refinements instead of by the
   properties `AllAccountedFor` and `NothingLost`.
