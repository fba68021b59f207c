# Cryptracer: TLA+ specifications and proofs

Cryptracer (problem statement SIH26183) is an investigation tool for crypto fraud. A citizen's
complaint names a wallet; the backend traces where the money went, clusters addresses that share an
owner, scores them, opens a case, raises alerts, and lets officers attach exhibits, export hashed
reports and ask an exchange to freeze an account with four-eyes approval.

This directory specifies the parts of it whose correctness depends on *order*: handlers that race on
one row, a transaction that spans two databases, a stream that is read while it is trimmed, writes to
a disk, a table and an audit log that no transaction joins, graph passes that may die half-way, an
analysis that asks five questions of a graph while it changes, and workers that start together.
Paths below are relative to the repository; `app/` is `backend/app/`.

1. Inventory  2. Modules  3. Runs  4. Fairness  5. Proofs  6. Disagreements with the docs
7. What is not modelled  8. Plan  9. How to run

---

## 1. Inventory

The backend is one FastAPI application in several uvicorn worker processes (four in the production
compose file). Nearly every handler is a plain `def`, so it runs on a thread of a pool: two requests
run at once both within and across processes. PostgreSQL is at READ COMMITTED with one SQLAlchemy
session per request (`autoflush=False`, `expire_on_commit=False`), no `SELECT ... FOR UPDATE` and no
version columns; an exception closes the session and rolls back. Neo4j commits every query on its
own. Redis holds the alert stream, rate-limit counters and response caches, and may be away at any
time. Nothing is one transaction across any two of these and the storage directory.

| Component | State it keeps | Operations | Talks to | What is hard | What makes it correct |
|---|---|---|---|---|---|
| Freeze requests (`app/api/v1/freeze.py`) | `freeze_requests` rows, their `audit_log` entries | create, submit, approve, reject, dispatch | officer accounts | load, check, write are separate; UPDATE names only changed columns; audit ids are not in the order of commits | the audit log accounts for every value of a row; no dispatch without an independent approval; decisions are signed |
| Officer accounts (`app/services/auth.py`, `app/deps.py`, `scripts/manage_users.py`) | `users` rows | create, deactivate, demo seed, check per request | every handler | an account changes during a request | only an account active at the check acts; roles decide who approves |
| Alert channel (`app/services/alerts.py`, `app/api/v1/ws.py`) | capped Redis stream, `alerts` rows, one cursor per socket | publish, mirror, replay, blocking read | Redis, PostgreSQL, browser | entries added or trimmed between two reads; Redis stops at any call | order, no duplicates, no gap once live, the mirror survives an outage |
| Alerts page (`useAlerts.js`, `client.js`) | list on screen, ids seen, polls in flight | mount, open, receive, poll, close, leave | alert channel | poll answers overtake one another and the frames, newest-first meets oldest-first | nothing shown twice; a closed socket still catches up |
| Complaint intake (`app/services/ingest.py`, `wallets.py`, `ncrp.py`) | wallet, case, trace-run rows; `:Address` and `:Case` nodes | resolve wallet, number and open a case, trace, link, cluster, commit | walk, graph, clustering, risk, alerts | one long transaction across two stores, whose loss goes unnoticed until its commit; two unique indexes; failure after any step | numbers are sequential, no deadlock, intakes overlap only past a lost transaction, analysed cases are in the graph, counts do not overshoot |
| Money-flow walk (`expand_money_flow`) | frontier, seen, budget | one upstream call per address | connectors | cycles, spellings, caps and failing calls meet at boundaries | bounded; exact when it says complete |
| Transaction graph (`graph_writer.py`) | `:Address`, `:Transaction`, `TRANSFERRED`, `tx_count` | write, derive pairs, refresh counts, link case | intake, clustering, every analysis | derived values go stale between intakes; MERGE on (from, to, txid) | counts and pairs agree with the transactions, a pair never carries more than was paid |
| Clustering (`clustering.py`) | `SAME_OWNER`, `MEMBER_OF`, `:Cluster`, GDS catalogue | two heuristics, projection, components, write, prune | graph | ten separately committed queries, a named projection left by a dead pass | one cluster per address, clusters are components, change heuristic abstains |
| Case custody (`cases.py`, `reports.py`, `str_drafts.py`, `str_draft.py`) | notes, evidence, reports, STR drafts, audit entries, files | add note, upload, report, verify, draft, approve | storage directory | file, row and audit are three commits | a row's digest is of the stored bytes; a report covers the case; verdicts are sound |
| Entity exposure (`exposure.py`) | `service_exposures`, `exposure_paths` | direct rows, bounded search, arrivals, group, persist | graph, tags, pricing | three queries of a growing graph; labels repeat, paths converge, a limit applies before the label filter | no candidate counts more than was paid, no payer missed, "none" means none |
| Risk (`risk.py`, `wallet_analysis.py`) | `risk_scores`, `risk_contributions`, entity and cluster rows | reachability, enrichment, persist | graph, PostgreSQL | two stores disagree on cases and are joined by a number that is given out again; rows inserted by two analyses | every contribution is a committed case, with its own money or that of a rolled-back intake of the same number; none is missing |
| Attribution (`attribution.py`) | none | tags of the cluster, else behaviour | graph | clusters merge between the look-up and its use | a name is a curated tag's, and no tagged address goes without |
| Tracing (`tracing.py`) | none | `trace_path`, `terminal_attributions` | graph | depth and row caps, rows in no order, two queries | a trace that does not say it was cut lists all within reach |
| Indexer gateway (`connectors/`) | response cache in Redis (TTL 300 s) | GET with bounded attempts | external indexers | Retry-After, timeouts, an error inside a 200, a cache shared by threads and processes | no answer older than the TTL and the wait for its SETEX, every call ends |
| Request middleware (`middleware.py`) | counters in Redis or per process | rate limit, lockout after 8 failed sign-ins | Redis | checked before the request, counted after it; fallback per process; Redis is called on the event loop, without a time-out | overshot by no more than the requests in flight |
| Start-up (`main.py`, `migrations.py`, `neo4j.py`) | tables, schema revision, advisory lock | constraints, lock, stamp, upgrade | PostgreSQL, Neo4j | several workers start at once, fail and may die; check, stamp and upgrade use three connections, and the lock's may end first | the baseline is applied once, nobody waits for good |
| Chain detection (`chain_detect.py`), pricing, features, model | none | pure functions | - | strings and floating point | unit-tested |
| Browser application (other pages) | React state | forms, panels | API | stale panel against a racing officer | - |
| Operator scripts, training, deployment | databases as a whole | backup, demo reset, tag seeding | everything | reset clears two stores one after the other | - |

How they meet: `intake_wallet` calls the walk (which calls connectors), then the graph writer, then
links the case, then clusters, then commits; `wallet_analysis.py` traces, attributes and scores a wallet
and publishes an alert, `exposure.py` searches the same graph. The alert channel fans out to sockets.
Freeze requests and custody hang off a case and share the `audit_log` table and the account check with
everything else. Every request passes the middleware, and there is no request before start-up ends.

The full list of hazards, each at its line with the properties aimed at it, is in `PROJECT.json`.

---

## 2. Modules

| Module | Models | State | One action is |
|---|---|---|---|
| `FreezeLifecycle` | what the freeze workflow promises | status, requester, decider | one decision |
| `FreezeWorkflow` | `freeze.py`, the account check of `deps.py`, `manage_users.py` | `account`, `freeze`, `audit`, `call` | authenticate, load, refuse, the INSERT of the audit entry, or commit of one handler |
| `AlertStream` | `alerts.py`, `ws.py`, `redis_client.py` | `redisUp`, `officer`, `alert`, `stream`, `socket`, `sent` | one Redis call, frame or commit |
| `AlertFeed` | `useAlerts.js` over `AlertStream` | + `page` | one browser callback |
| `Intake` | `intake_wallet` | `complaint`, `wallets`, `cases`, `traced`, `caseNodes`, `call`, `calls` | one statement that another transaction can see or wait for |
| `MoneyFlow` | `expand_money_flow` | the function's local variables, with their names | one turn of the inner loop, or the end of a level |
| `Custody` | `cases.py`, `reports.py`, `str_drafts.py`, `str_draft.py` | `disk`, `touched`, five tables, `verdicts`, `call` | one file write, SELECT or commit |
| `Clustering` | `clustering.py`, the parts of `graph_writer.py` and `seed_tags.py` it reads | graph, projection, `cluster`, `member`, `pc` | one Neo4j query |
| `Startup` | `lifespan`, `apply_constraints`, `upgrade_to_head`, the baseline revision | `tables`, `revision`, `lock`, `orphans`, `constrained`, `boot`, `unguarded` | one statement of one worker, an error of it, its launch or death, or the arrival of a dead worker's COMMIT |
| `RateLimit` | the lockout of `RateLimitMiddleware` around `login` | + `redisUp`, `counter`, `request` | the look before a request, its end, the count after it |
| `Gateway` | `get_json` behind the live connectors | + `cache`, `fetch` | one Redis call or HTTP attempt; a tick of time |
| `Serving` | a deployment from start to answers | all of the three, `clients`, `stalled` | as above; a peer falling silent or answering again |
| `TransferPairs` | `_transfer_pairs`, `moved_value`, the `TRANSFERRED` part of `_MERGE_TX` | none | - |
| `ChainGraph` | what Cypher's patterns return: within *d* hops, shortest paths, `LIMIT`, `ORDER BY` | none | - |
| `Tracing`, `Attribution`, `Exposure`, `Risk` | the queries and pure parts of the four services | none | - |
| `Investigation` | `analyse_wallet` and `get_exposure` while intakes go on | `ledger`, `edges`, `paid`, `tags`, `member`, `case`, `request`, `saved` | one Cypher query or SQL transaction |

`*MC` modules hold the constants for TLC, `*Proofs` modules the theorems. `AlertFeed` EXTENDS
`AlertStream` and composes the two (each browser step leaves the server alone, except the poll, which
reads the stream through `Recent`). `FreezeWorkflow` instantiates `FreezeLifecycle` under a
refinement mapping. `Startup`, `RateLimit`, `Gateway` and `Serving` extend one another in that order: a
worker admits a request only once it serves, a crash takes the worker's requests, calls and counters
with it, and one outage of Redis hits the lockout and the cache alike. `Investigation` is built over the
five modules of queries, which keep no state.

What is one step in one module is opened up in another: the walk and the clustering pass of `Intake` in
`MoneyFlow` and `Clustering`, the connector call of `MoneyFlow` in `Gateway`, the tag and cluster
reads of `Investigation` in what `Clustering` leaves behind. `Clustering` assumes in return that passes do not
overlap. `OneOpenCase`, a theorem about `Intake`, gives it as long as PostgreSQL ends no session between the
INSERT of a case and its commit, and within a year (section 7); where one does, the passes of two intakes may
overlap and nothing here says what they leave. That merging never splits a
cluster, which `Recluster` of `Investigation` assumes, is `NeverSplit`, a theorem about `Clustering`; that a
case node may be left behind by a rollback, and that its number is given out again, is what `Intake` shows and
`AbandonCase` and `OpenCase` of `Investigation` have.

### How the models correspond to the code

*FreezeWorkflow.* A handler is: `Authenticate` (token's account re-read and active, role sufficient
for the endpoint), `Load` (the row becomes a private copy, 404 when missing), then either `Refuse`
(409/403/422, nothing written) or the two halves of a commit. `RecordAudit` is the INSERT of `record_audit`'s
entry, which draws its id from a sequence and is seen by nobody yet; `Commit` is the UPDATE, which names
only the columns the handler changed (`Column`, `Flush`: this is SQLAlchemy's unit of work and the reason two
racing decisions *mix*), and the COMMIT that makes both visible. Between the two another handler may draw
a later id and commit earlier: `audit` is the table by id, not by commit, and the column `created_at`, which is
the start of the transaction, is no better. `Abort` is any exception or death before the commit; the id it drew
stays unused (`Gap`). `status`, `requested_by`, `approved_by` and `rejection_reason` are kept; timestamps,
exchange names and free text are not. `MaxAudit` bounds the ids drawn.

*AlertStream.* Stream ids are consecutive numbers and the stream is `first..last`. `Add` is XADD with
`MAXLEN ~`, modelled as a choice of any trim that keeps at least `MaxLen` entries. `publish_alert` swallows
a Redis failure and still files its row. The socket handler's phases are its await points; `Answer`,
`Timeout` and `ReadFails` are the three ways XREAD can end; `blockedAt` is what Redis resolved `$` to.

*AlertFeed.* `add` keeps `seenRef` and cuts the list at `Limit`; the answer of a poll, newest first,
is added in that order; the interval polls unless the socket is open, whether or not an earlier answer is
under way, and answers arrive in any order (`polls`, at most `MaxPolls` at once); nothing reopens a socket.

*Intake.* Each action names the statement it is. An INSERT on `wallets` or `cases` waits while
`HoldsWallet` or `Open` says another open transaction has its key, and fails once that one has
committed. Neo4j steps take effect at once and survive a rollback; `CommitCase` makes the wallet's
count, the case, its trace run and its wallet link visible together. From its INSERT to its commit a handler sends
PostgreSQL nothing: `LoseSession` ends its transaction there and frees its keys, the handler goes on tracing,
linking and clustering, and hears of it from `CommitFails`. `Answer` and `AnswerFails` come after
the commit. A client whose call failed may send its complaint again.

*MoneyFlow.* The connector is a ledger chosen in Init that does not change during the walk and
answers with the newest `MaxBreadth` transactions of an address, newest first, or fails (`FetchFails`) at any
call. `Norm` maps the spelling an indexer uses to `normalize_address`'s. The synthetic index lists a transaction
once for each mention of the address (`synthetic.py:113`); here it is listed once.

*Custody.* Files are named by the call that writes them (an exhibit's name ends in random digits, a
report's in its own digest, whose PDF prints the microsecond). A digest is injective. A write may
fail and leave part of the file; a worker may die between any two steps; `Tamper` is anything outside
the system that changes or removes a file.

*Clustering.* `written` grows by whole intakes in any order. `counted` is the `tx_count > 0` filter
with what `_REFRESH_TX_COUNT` really computes. Change detection, the projection, the stream of
components, the clearing of old memberships, the drop of the projection, the write and the prune are
separate steps, and `Fail` may replace any of them.

*Startup.* The lock is held by a PostgreSQL session, `boot` says which statement a worker is at. The
revision and the table list are read under the lock on one connection (`ReadRevision`, `ListTables`); the stamp
and the upgrade run on others and the upgrade reads the revision again (`PlanUpgrade`). Errors come as the
connection has it: `ConnectFails` while waiting for the lock, `MigrationFails` on the connection that writes,
after which the lock is given up, and `ReadFails` on the one that holds the lock, whose aborted transaction
refuses the unlock too, so that the session goes back to the pool with the lock. After each the worker serves
all the same, as the code has it. The lock's session may also end by itself while the worker writes
(`LockSessionEnds`), and a worker may die with a COMMIT under way that arrives after its lock is free
(`Die`, `orphans`, `OrphanCommits`); `unguarded` records either. `UpgradeCollides` is the CREATE
of what exists. `tables` distinguishes the baseline's two SQL files, because a volume may hold only the first.

*RateLimit.* The failures of one client: two clients share nothing. `Accept` enters `dispatch`, `Admit` looks at the counter the worker
reaches now (`Current`: Redis, or its dictionary when that one call fails), `CountFailure` counts on the
one it reaches then. A failure let in by one counter and counted on another is a *stray*.

*Gateway.* One URL. A response is known by its age in ticks, whatever its body says (a provider's error message
inside a 200 is cached like data); it grows older also between its receipt and its SETEX. `Put` is SETEX over
whatever is there, be it younger; `Retry` has the attempt budget, `Fail` each of
the ways to a `ConnectorError`. Back-off and Retry-After are waits within `asking`: how long they
are is left open, that they end is in the fairness.

*Serving.* `stalled` is a peer that neither answers nor refuses. Who calls it waits: a start-up or a sign-in
for PostgreSQL, `apply_constraints` for Neo4j, a cache access for Redis on its thread. `dispatch` calls Redis
without awaiting it, so while it waits nothing else of that worker enters or leaves `dispatch` (`LoopBlocked`).

*Investigation.* The transactions intakes may write are a sequence chosen in Init; `WriteTransaction` merges
the next one's pairs as the Cypher does, where the last value of an equal (from, to, txid) wins. A case has a number,
counted from the committed rows, and perhaps a node; a rolled-back intake leaves its node, may write it even later
(`LinkCase` of a lost case), and the next case takes its number. `Contributions` joins hits with rows by that number,
as the code does, so a case may be credited with what another intake's node found. `FindTerminalsFails` is the error of
Neo4j when the address asked about carries a terminal's tag itself, for `_TERMINALS` does not exclude it. `request` is the
handler's local variables, `saved` what it stored. Where Cypher leaves the order or the choice open (a
`LIMIT` without `ORDER BY`, equal shortest paths, two rows of one address), the model allows each. `paid`
and `request.began` are bookkeeping for the properties. Amounts are whole units, a share rounded down.

---

## 3. Runs

Every property of a passing run is paired in `PROJECT.json` with a *slip*: one definition of the
model edited the way a programmer could get the code wrong (a dropped guard, a swapped order, a
forgotten filter). TLC finds the property violated with the slip in place, so none of them holds
by the shape of the model. Slips stand next to the definition they replace and are commented as such.

| Run | Question | Bounds, and why they are enough |
|---|---|---|
| `FreezeConcurrent` | Do audit log, row and independence survive racing handlers? | 3 officers (an investigator and two approvers: requester, approver and a third), 2 handlers in flight, 1 request (handlers on different rows share nothing), 5 audit ids: create, submit, two decisions and a dispatch |
| `FreezeSerial` | Without races, do the endpoints implement the documented lifecycle? | 1 handler at a time, 2 requests, 5 ids |
| `FreezeSelfApproved` | violation: "the approver must be a different person" with 2 handlers | 5 ids, which the shortest counterexample needs |
| `Alerts` | Order, gaps and duplicates, on the server and on screen; is a blocked reader woken, an outage's record kept, does polling catch up? | 2 alerts against a stream that keeps 1, replay and batch of 1, a list of 2: a trim can hit an entry not yet read, and replay and batch are overfull with the second alert; 2 answers of polls under way (`MaxPolls`), so one can overtake the other; no symmetry, because of the liveness |
| `AlertGap` | violation: "the backlog above covered history" | 2 alerts, sizes 2 |
| `Intake` | Numbers, counts, graph and deadlock | 2 complaints on one wallet (so both unique indexes are contended), 2 workers, 3 calls: one of them is a retry; either may lose its session at any step past its INSERT |
| `IntakePhantomCase` | violation: "one row per case that pushed the score up" | the same |
| `MoneyFlow` | Is a complete walk exact, a walk bounded, and does it end? | chains of 3 transactions over 4 addresses, one of them spelled two ways, cyclic ones included; depth 3, breadth 2, budget 3, level cap 4, each reached and exceeded |
| `Custody` | Are rows, files, trail and verdicts consistent under races and deaths? | 3 officers, 2 of them approvers; 2 handlers, 3 calls (write it, write another, verify or approve it); sizes below, at and above the limit |
| `Clustering` | Are clusters components, one per address, and never split? | all chains of two transactions of a few shapes over 3 addresses in either order or at one time, one address tagged; written in any order, with repeats and deaths |
| `Serving` | Is the schema built once, how far can the lockout be overshot, how old can an answer be, what can hang? | 2 workers (one may fail or die while the other waits), 2 connections; 1 failure allowed, so two sign-ins already race past it; TTL 2 ticks, `MaxDelay` 1 tick between a response and its SETEX, 2 attempts; Redis may flip until a counter has `MaxStrays` = 1 stray, which is enough to see the property need the term. `Clients` keeps the questions apart: without requests, from each of five kinds of database and with every error of a start-up; with sign-ins or with traces, from a migrated deployment, where one worker at a time is down or starting or one peer is silent (`Calm`), and where a start-up meets no error (`Falters`) |
| `Investigation` | Does what an analysis or an exposure search answers and stores hold of the graph it was asked about? | 4 addresses (the reported wallet, one behind it, two of a service), 4 ledgers of 3 transactions (a chain, converging paths, one with change and a repeated txid, one reverted), 5 tag sets (repeated labels, two types on one address, a mixer, the reported address itself tagged), 2 clusterings that merge, 2 cases, the second of which may take the number of a rolled-back first; depth 2 and 2 rows: paths at, below and beyond both. One request for each behaviour: requests share only what they store |

Deadlock checking is on in `Serving`, where a worker can always be launched or die or a silent peer answer,
and off in the others: the bounded system stops when its calls, alerts or transactions are spent. Waiting that never
ends is instead excluded by `EveryCallEnds`, `EveryPassEnds` and `WalkEnds`, and in `Serving` by
`NothingHangs` too.

What each property says is stated above it in its module. The ones worth a reader's time first:

- `DispatchIndependentlyApproved`: although two handlers can mix their decisions into one row, nothing
  is dispatched that no independent approver approved under a lower id of the log. `RowIsExplained`: racing
  commits may leave any mixture in a row, and each value of it still has an entry of the officer who set it, with
  a submission below every approval. It does *not* say that the last entry is the row's state: ids are drawn at the
  INSERT, `created_at` at the start of the transaction, and neither is the order of the commits (section 6).
  The same races break `RequesterIsNotApprover`.
- `NoGapOnceLive` against `BacklogCoversHistory`: the channel is gapless from its first live entry on, and
  loses alerts exactly in the window between the replay and the first entry.
- `OneOpenCase` and `SequentialNumbers`: the numbering code counts committed rows and looks racy; the
  unique index makes it sequential, at the price of serialising every intake of the deployment
  for the length of a trace (and answering 500 to those who waited). Two handlers are past that INSERT
  together only if one of them has lost its session without knowing.
- `ReportCoversCase`: four SELECTs at READ COMMITTED may disagree with one another, and a report still
  covers everything committed before it was asked for.
- `ClustersAreComponents`, `NeverSplit`: they hold while a pass runs and after one that died, when a
  smaller address joins and every key of a component changes.
- `SchemaBuiltOnce`: the check for an existing schema and the CREATE are on different connections, and the
  lock is on a third. Only when the lock's session ends before the writer's (`unguarded`) can a worker meet a
  schema it wanted to create, and the database it then serves is at head all the same.
- `AnswersAreFresh`: a slow request may write an older response over a younger one; what is read is within the
  TTL plus the delay of a SETEX, and TLC finds answers as old as that. `NothingHangs` names the two things that do
  hang a deployment: a silent peer, and a pooled session that kept the migration lock.
- `LockoutHolds`: the exact overshoot of a limit that is read before and counted after a request.
- `TraceCoversReach`, `ScoreNamesItsCases`, `VolumeIsConserved`: each relates an answer to the graph as it was when
  the request began *and* to the graph as it has become. A contribution is a committed case, but the money it is
  credited for may be that of a rolled-back case with the same number, and `ScoreNamesItsCases` allows just that. The
  last one depends on each transfer counting once however many
  labels its receiver has, and on MERGE overwriting rather than adding.

---

## 4. Fairness

*FreezeWorkflow*, *Custody*: none; everything stated is safety.

*AlertStream*: weak fairness on each publisher's next step and each socket handler's next step. A handler
runs on an event loop or a thread that is scheduled; nothing is assumed of officers, who may never
raise an alert, or of Redis, which may stay away. A Redis that is away refuses: XREAD returns at its block timeout
or fails. That it may also stay *silent* is not in this module: the client has no socket time-out
(`redis_client.py:18`), so a handler would wait as long as the silence lasts.

*AlertFeed*: also weak fairness on the interval timer and strong fairness on a poll's answer arriving: a
browser that asks again and again gets an answer some time. Nothing is assumed of the socket's frames.
`PollingCatchesUp` is stated under the condition that Redis stays up and the officer active from some time on.

*Intake*: weak fairness on each call's next step, waits included. Requests to an indexer have a time-out
(`live.py:48,112,168`), and PostgreSQL wakes a waiting INSERT when its blocker ends. That a query to Neo4j or
PostgreSQL returns or fails is an assumption on the environment: neither `postgres.py:14` nor
`neo4j.py` sets a time-out. A client need never file or retry.

*Serving* takes that assumption away and says what follows. Weak fairness on each worker's start-up
and each request's next step: a thread that waits for nobody goes on, an indexer call, a back-off and a
Retry-After end (`http.py` bounds each). A step that needs a peer is disabled while the peer is silent, and no
fairness makes the peer speak; `NothingHangs` has it as its hypothesis that at last none is silent. Its other
hypothesis is that the migration lock is not kept by a pooled session for good. Strong fairness on
`LocksSchema`: PostgreSQL queues the sessions that wait for an advisory lock, so one cannot be overtaken for
ever. Weak fairness on `LateCommit`: what a dead worker sent arrives. Nobody has to send a request,
relaunch a worker or bring Redis back.

*Investigation*: none; everything stated is safety. *MoneyFlow*: weak fairness on the loop. *Clustering*:
weak fairness on the running pass; nothing obliges anyone to file the next complaint.

---

## 5. Proofs

All proofs are checked by TLAPS with Z3, Zenon and LS4, for every value of the constants that meets
the named assumptions of the modules, any number of workers, officers, requests, complaints or calls. Every
invariant and every action property of a passing run is a theorem.

Most assumptions say what kind of value a constant is. Those that carry weight:

- `ApproversAssumption`, `RoleAssumption`, `SizesAssumption`, `LimitAssumption`, `GatewayAssumption`: roles and limits as
  the settings have them. `NullAssumption`s: the value for "nothing" is not one of the values it stands next to.
- `LedgerAssumption` (*MoneyFlow*): a chain is a finite sequence of transactions with finitely many outputs each;
  names, addresses and inputs may be infinitely many.
- `LedgersAssumption` (*Investigation*): transactions are records of natural amounts (satoshi, wei), written one after the
  other; nothing is assumed of txids, repeated inputs or transfers to oneself.
- `TagsAssumption`: finitely many tags, each on an address, with a name and one of the types of `models/core.py:51-60`.
- `ClusteringsAssumption`: two passes that put the same addresses together give them the same key. The key is the first of the
  sorted members (`clustering.py:248`), and `ClustersAreComponents` proves of the pass what this takes from it.
- `CasesAssumption`: finitely many cases, for numbers are counts of them.

*FreezeWorkflowProofs*
- `TypeCorrect`, `IndependentApproval`, and `RowsAreExplained` from `Attribution` and `TrailExplainsRows`: the
  invariants of `FreezeConcurrent`. None is inductive alone. A handler in flight holds a snapshot, and what its commit
  will do is settled by what it *loaded*; so the invariant also says of every loaded call that its
  snapshot is one its guard allowed, that it names the row's requester (who never changes), that what
  it holds in `approved_by` and `rejection_reason` the row holds too, if with another approver's name (they are
  never cleared), and that a snapshot showing "approved" is witnessed by an entry already committed. Ids come in
  another order than commits, so the entries a snapshot is explained by are bounded by the ids drawn so far: an entry drawn
  later is above them, whenever it commits (`CopyOnRecord`, `DrawnOnce`).
- `SerialRefinement`: `OneWorker => (Spec => SerialLifecycle)`, where `OneWorker` says there is at most one worker.
  The extra invariant is that a loaded snapshot *equals* the row; then each commit is a step of
  `FreezeLifecycle` and all other steps stutter.

*IntakeProofs*
- `Invariance`: `TypeOK /\ CallInv /\ SequentialNumbers /\ NumbersInv /\ OneTransaction` is inductive. The key
  part, `NumbersInv`, bounds a call's number by the committed cases plus one and makes it *equal* for a
  call whose transaction holds its INSERT; so two such calls would have one number, which the unique index refuses. Of
  a call that has lost its transaction nothing of the kind holds.
- `TypeCorrect`, `NumbersAreSequential`, `OverlapNeedsALostSession` follow. The last one is how far the code bears
  out what `Clustering` assumes, that passes do not overlap.
- `RecordsAlwaysAgree`. `RecordInv` adds what a call *knows* (`Known`): what it counted, cases or reports, was not more
  than there is now, since cases only grow; and past `LinkCase` its node is in the graph, since no node is
  ever removed. A commit whose count equals the one it loaded writes nothing, so the row's own bound must carry over.

*AlertProofs*
- `ChannelTypeCorrect`, `SentAlwaysInOrder`, `NeverAGapOnceLive`, of `AlertFeed`'s specification, so with the pages and their
  polls. The invariant `Line` says of a handler that what it sent is ascending and not past the id up to which
  it has read, that its batch is a run of consecutive ids after that, and that what the run leaves out
  was trimmed. `After`, the one read operation, returns such a run (`AfterShape`); a browser step leaves
  the channel alone.
- `FeedTypeCorrect`, `NeverShownTwice`. Besides the channel's invariant, a page is tidy: what is on screen is in `seenRef`,
  once, and no longer than `Limit`. A poll adds a whole answer in one step, so `AddAll`, a recursive
  function, is shown to exist and to keep pages tidy by induction on the answer's length.

*CustodyProofs*
- `Invariance`: fourteen conjuncts. Besides the five properties, they say what a call knows at each of its
  steps: its id is fresh until it writes (`FreshInv`), its file holds what it wrote unless something
  outside touched it (`DiskInv`, `TouchInv`), what a report has gathered covers what was due
  (`GatherInv`), and an approver that passed its check is not the draft's author (`ReviewInv`).
- `RowsPromiseStoredBytes`, `AttachmentsAreAudited`, `ReportsCoverTheCase`, `IndependentApproval`,
  `VerdictsAreSound`, `TypeCorrect` follow.

*ServingProofs*
- `StartTypeCorrect`, `SchemaIsBuiltOnce`. The invariant is the critical section's: whoever reads the schema
  holds the lock and whoever writes holds it or is on record as `unguarded` (`LockInv`); hence what a worker planned is
  still true of the database when it acts (`PlanInv`): a worker that is planning has stamped whatever needed it, and, as long
  as nobody wrote unguarded, a plan to build the baseline means no core table exists. A COMMIT under way at a worker's
  death leaves the lock behind and is unguarded.
- `TypeCorrect`, and `SchemaStaysBuiltOnce` from the above, since serving leaves the schema alone.
- `LockoutIsBounded`, for any number of workers and connections. `LockoutHolds` is not inductive: the
  invariant counts a counter's failures *plus the sign-ins it let in that run or have yet to be counted* (`InFlight`).
  `Admit` adds one to the second when the first is below the limit; a 401 counted where it was let in moves one over; counted
  elsewhere it adds a failure and a stray. Cardinalities of the sets in flight are handled by two lemmas.
- `AnswersStayFresh`: an entry's age plus what it has left is at most the TTL and the longest delay of a SETEX (`FreshInv`).

*ClusteringProofs*
- `ClustersAlwaysComponents`, `NeverTakenApart`, `AbstentionHolds`, `ClusteringTypeCorrect`, for every chain, every
  order of passes and every query at which one fails. The invariant: between `StreamComponents` and `WriteClusters` what
  the pass holds are the classes of *today's* assertions (`PassInv`; nothing asserts meanwhile); a member has one owner
  with its key, and both are in the graph (`MemberInv`); once written, one owner means one cluster, with the right key and
  size (`StoredInv`). `WritingReplaces` is the heart: since every member is in some component, `_WRITE_CLUSTERS`
  leaves exactly the new memberships, so a query that clears only the addresses it knows clears all.
  A set and its complement are closed together, which makes components an equivalence without induction on
  paths; the smallest member exists because `<` is well-founded.

*MoneyFlowProofs*
- `WalkTypeCorrect`, `WalkAlwaysExact`, for every chain, cyclic or not, any spelling of addresses, any bounds and any failing
  calls. The invariant `WalkInv` has four parts besides the types. `AccountInv`: one call per address asked, within the
  budget, and what is collected is what those calls returned. `ReachInv`: a level lies within its distance of
  the root, so nothing out of reach is asked. `CompleteInv`: while nothing was cut off and nothing failed, what the asked
  addresses spent into is asked or waits, and the last finished level is asked in full. `EndInv`: the
  loop ends because no address is left, the budget is spent or the depth is reached; only the last one
  leaves `complete` true with addresses waiting, and then `CompleteInv` says the depth is covered.
- `Within` (reach by depth) and `Extend` (the loop over transactions) are recursive functions: see below.

*InvestigationProofs*
- First a theory of what the queries are built from. *Sums* over finite sets: of parts, of classes, of
  bounded terms, and that shares rounded down never add up to more than the whole. *Reachability*: `Within` grows with depth and
  with the graph, ends where a level adds nothing, and `Hop` falls as the graph grows. *Transactions*: the pairs
  `_transfer_pairs` makes give no address more than its outputs were worth, and merging them replaces edges one for one.
- The invariant `IInv` has a part for each part of the state; each part has a lemma for its steps.
  `GraphInv`: one edge per (from, to, txid), none to oneself, and what the edges credit an address with is at most what its
  outputs were worth. `RequestInv`: what the handler's variables hold in each phase. `SinceInv`: the graph it began with is
  contained in today's, and clusters merged. `TraceInv`, `NameInv`, `ScoreInv`, `VolumeInv`, `NoneInv`: what each answer still
  says of the graph.
- `TracesAlwaysCover`: the trace describes the graph of the beginning exactly, since it is one query; the target comes from a later
  query, and is as near as any listed terminal because hops can only fall.
- `NamesAreAlwaysCurated`: an address the look-up left unnamed has no tag of its own, a cluster holds its own
  address, and merging takes no member away.
- `ScoresAlwaysNameTheirCases`: no two committed cases have one number, so a hit is credited to one case at most, and whoever
  else has that number was rolled back (`CaseInv`); hits stay hits (reach only grows), commits are never undone, and `Complete` says none is missing
  that reached the target when the handler began, *as long as the clusters are those of the beginning*. The last condition is
  inductive only if a clustering, once changed, cannot come back under other keys: with keys chosen freely, a pass
  could rename a cluster and the next one rename it back, and the score in between would have asked for a key that had no
  members. The proof attempt found this; `ClusteringsAssumption` states what the code does about it.
- `VolumesAreAlwaysConserved`: a candidate's volume is a sum over its addresses of what distinct edges into them carry, so at most
  `Received`, so at most `paid`. The edges are those of the second query, which has all of the first.
- `NoneAlwaysMeansNone`: the set of addresses the search looked at lies between what was within reach at the beginning and
  what is now; short of the limit it was looked at in full, and no address of it carries a service's tag.
- `TypesAreCorrect`: the types, of which the uniqueness of edges and the bound on hops need the parts above.

*Induction.* The library's induction theorems take an operator as a parameter, which none of the provers
instantiates. Here induction goes over a *set*: `NatInduct` says that a set with 0 and closed under successor holds
every natural number, and follows from `<` being well-founded. TLAPS sees a recursive function as a CHOOSE, so
lemmas (`Iterates`, `FoldExists`, `AddAllUnfolds`) first build, by the same induction, a function that meets its equation.

Only model-checked: the liveness properties, since fairness and ENABLED are beyond the prover: `AlertsArrive`,
`PollingCatchesUp`, `EveryCallEnds`, `WalkEnds`, `EveryPassEnds`, `NothingHangs`. The three properties that are meant to
fail (section 6) are counterexamples of TLC.

---

## 6. Disagreements with the docs

Each of the first three has a run that ends in a counterexample.

1. `FreezeSelfApproved`. `freeze.py:13` says the approver must be a different person. A supervisor who drafted a
   request starts to reject it and has loaded the pending row; a colleague approves it and starts to dispatch it; the
   reject commits, with its author in `approved_by`; the dispatch commits and its UPDATE names only `status`. The row
   ends `dispatched` with its requester as approver. A version column or `SELECT ... FOR UPDATE` would close it.
2. `AlertGap`. `ws.py:98` says the backlog covered history; an alert added after `read_alerts` and before the
   first XREAD resolves `$`, or between two reads that returned nothing, is neither replayed nor forwarded.
   Passing the backlog's last id instead of `$` would close it.
3. `IntakePhantomCase`. `link_case_to_address` commits the `:Case` node long before the case; after a rollback
   the node stays, the next case takes the same number, and scoring counts both (`docs/schema.md:72`).

Seen while modelling, without a run of their own:

- `freeze.py:5-6` draws no arrow out of `rejected` or `dispatched`, and line 15 says only approved requests can be
  dispatched; racing handlers decide such rows again. `freeze.py:209` rejects drafts too.
- In a race the audit entry with the highest id, or the latest `created_at`, may name another state than the row:
  the id is drawn at the INSERT and `created_at` is the start of the transaction (`init.sql:54`, `core.py:99`), so
  neither is the order in which decisions took effect. No entry is missing (`RowIsExplained`).
- `docs/schema.md:32,79` names the supervisor as the one who approves; `APPROVER_ROLES` includes `admin`.
- `ws.py:43-44` says a revoked session stops working; an open socket outlives the deactivation.
- A poll's answer is newest first and `add` puts each on top, so the screen shows it reversed; the next alert
  then cuts the newest, and `seenRef` keeps it from coming back (`useAlerts.js:42`).
- `docs/api.md:150` gives each report its own case; a failure after the commit (`ingest.py:363`, or `expansion`
  unbound at 383) answers 500 and the retry opens a second case.
- `init.sql:70` calls `report_count` the number of reports; two intakes can count the same prior cases (`ingest.py:283`).
- The walk reports `complete` although upstream calls failed: a `ConnectorError` is only logged
  (`ingest.py:151-163` against 204-206). `WalkIsExact` carries `failed = {}` for this reason.
- A report's or STR draft's row is committed before its audit entry (`deps.py:99`, `docs/schema.md:48`): a worker
  that dies between leaves an export the trail does not name.
- `cases.py:204` says the digest is of what landed on disk; line 218 hashes the bytes received. They agree
  as long as the write did (`RecordedIsStored`).
- A report may list an exhibit but not a note committed earlier, because the notes are read first.
- "Only addresses actually seen": `_REFRESH_TX_COUNT` (`graph_writer.py:129`) counts the empty row of an OPTIONAL
  MATCH, so the filter `a.tx_count > 0` at `clustering.py:206` passes tagged addresses nobody has traced.
- `infra/postgres/002_exposure.sql:3-8` says the backend adds the exposure tables to an existing volume at
  start-up. A volume made before that file is stamped at the baseline instead (`migrations.py:97`) and never gets
  them; `Startup` has that database, and such a worker reports success.
- A mixer is "flagged, never unwound" (`docs/architecture.md:151`, `docs/api.md:154`), but an address with a
  second label comes in two rows and `nodes.setdefault` keeps either: the flag may be missed
  (`TraceCoversReach` says so of addresses with a label other than mixer).
- `find_service_paths` applies its limit before the label filter: past it a service may be overlooked and "none
  found" reported (`NoneMeansNone` carries the condition). Equal shortest paths may also change a
  continuity score from one request to the next.
- An error message inside a 200 is cached like data and served for the whole TTL (`http.py:192`).
- After an SQL error on the connection that holds the advisory lock, the unlock in `finally` fails in the
  aborted transaction and the pooled session keeps the lock (`migrations.py:109`): every worker that starts later waits
  for as long as that one lives (`ReadFails`, `LockKept`).
- The middleware means not to be "a rate limiter that takes the API down with it" when Redis is away. A Redis that
  refuses does no harm, but one that is silent does: `_Counter.hit` is called without `await` in `dispatch`
  (`middleware.py:259,268`) on a client without a socket time-out (`redis_client.py:18`), and holds the event loop
  (`LoopBlocked`).
- A rolled-back intake's `:Case` node and the next case share a number, and `risk.py:253` joins on it: the committed case
  may be listed as a contribution for money that only the other intake's wallet sent (`Contributions`).
- `_TERMINALS` (`tracing.py:43-53`) does not exclude the root: an analysis of an address that carries a
  terminal's tag itself asks Neo4j for a shortest path from a node to itself, which is an error (`FindTerminalsFails`).
- An intake that loses its PostgreSQL session hears of it at `ingest.py:361`; until then it goes on writing to Neo4j and
  may cluster while another intake does.
- `get_exposure` takes `data_provenance` from DEMO_MODE (`api/v1/exposure.py:173`), which `wallet_analysis.py:203`
  explains one must not do.
- `_loaded` is set before the illicit model is loaded (`illicit_model.py:59`): an intake that runs meanwhile sees
  none and writes null over probabilities stored before (`graph_writer.py:53`).
- Two analyses may both insert an Entity row; the second answers 500 (`PersistFails`).
- A change edge, once asserted, stays when older history later shows the output was known; seeded addresses have
  no `first_seen` and never count as a debut.

---

## 7. What is not modelled, and why

Inside the modelled parts: passwords, tokens and hashing (what handlers rely on, the account re-read per
request, is modelled); texts, timestamps and layout; address syntax (an invalid address is refused before any
state changes); the year in a case number (the model is of one year: at new year two intakes with their
sessions intact may have different numbers, so `OneOpenCase` does not hold across it); ids of cases and calls, which are
fresh; the memory of the four processes other than what a handler holds.

Assumed of what is outside: a Cypher query is atomic and reads one state of the graph; Neo4j answers with an error when
asked for a shortest path from an address to itself; an advisory lock ends with its session; SETEX and the
INCR/EXPIRE pipeline are atomic. Peers that neither answer nor refuse are in `Serving` only. A file written and
recorded is still there after a loss of power, though nothing is synced (`cases.py:225`).

Left out of the newer modules: the general request ceiling (the same counter, compared after its INCR), request ids
and security headers, the bound on the fallback dictionary; parsing of the providers' bodies, and that a
Bitcoin trace uses several URLs; provenance fields of a trace; weights, prices, half-lives and the saturation curve of scores and
rankings (real arithmetic in pure functions, with unit tests of their own).

Not modelled: chain detection and address checksums, pricing, feature extraction and the classifier (pure
functions of text or floating point, which unit tests serve better), read-only endpoints, metrics and
logging, operator scripts other than `manage_users` and `migrate` (`backup.py` dumps two stores one after the
other and `load_demo.py` clears them, both meant for a quiet system), training, the pages of the
browser other than the alerts, which keep only the last answer, and deployment files except the
constraints and worker counts the modules rely on.

---

## 8. Plan

Done: what decides the evidential value of a case (freeze, custody, intake, clustering), what an officer
sees (alerts, tracing, attribution, exposure, risk), what the system depends on (gateway, lockout, start-up).

All safety properties of the runs are proved. Worth doing next:

1. Abstract specifications: an atomic `intake` that `Intake` implements when nothing fails, and a queue that
   `AlertStream` implements once live.
2. What `Clustering` proves of a pass as the refinement of `Investigation!Recluster`, in place of
   `ClusteringsAssumption`.
3. The steps behind liveness that need no ENABLED: a measure that every step of the walk, of a start-up and of a call lowers.

---

## 9. How to run

    tlc -workers 2 -config FreezeConcurrent.cfg FreezeWorkflowMC.tla
    tlapm CustodyProofs.tla

The module of each run is named in `PROJECT.json`, with the lines of source each definition translates
(`map`), the slips (`mutants`), the hazards and the theorems. On two workers the longest runs, `Clustering`,
`Investigation`, `Alerts`, `Intake` and `MoneyFlow`, take between one and a half and three minutes each, the others seconds
to a minute.
