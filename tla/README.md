# A TLA+ development of ilma

ilma is a memory service for AI agents: a Python library with an MCP server, an
HTTP API, a CLI and an in-process Hermes plug-in, all of them thin shells around
one class, `IlmaService`, over one PostgreSQL database (pgvector for embeddings,
Apache AGE for a graph). The interesting behaviour is in the database: several
processes call the same service code at once, each call is one or more
READ COMMITTED transactions, the embedder is an HTTP service that fails, and any
process may die between two transactions.

Paths below are relative to `src/src/ilma/` unless they start with `docs/`.

## 1. Inventory

| Component | State it keeps | Operations | Interacts with | What makes it correct |
|---|---|---|---|---|
| Service call (`service.py:297`) | none of its own | `call` around every tool | audit log, repositories, observations | effects only after the audit row; the row and the observation tell what happened; every call ends |
| Write-ahead audit log (`api/mcp.py:39`) | `ilma.audit_log` | begin, finish | called by `call` | a row is closed once, after the writes it stands for |
| Memory repository (`storage/postgres.py:108`) | `ilma.memories`, `ilma.memory_chunks` | remember, forget, search, status | embedder, chunker | rows complete with chunks and vectors; one forget wins; search misses nothing that stays live |
| Wiki repository (`storage/postgres.py:516`) | `wiki_docs`, `wiki_chunks` | ingest, get, search, suggest_links | embedder, chunker | body, version and chunks belong together |
| Journal, skills, metrics, kanban, observability, sessions (`storage/postgres.py:796` ff.) | a table each | single statements; kanban update is read, merge, write | – | rows are what was written |
| Graph plan (`core/graph.py:302`) | none | `plan_graph_rebuild` | rows in, vertices and edges out | closed: no edge without its ends |
| Graph repository (`storage/postgres_graph.py`) | the AGE graph | ensure, rebuild, traverse | plan, service | after a rebuild the graph is the plan |
| Recall and wiki search tools (`service.py:460`, `643`) | none | search, a traversal per hit, merge | memory, wiki and graph repositories | with a fresh graph the neighbours are what the tables say |
| Migration (`migration.py`) | writes every table | detect, dry run, migrate | users' own writes | one transaction, nothing lost, re-runs safe |
| Repair and re-embedding (`repair.py`, `service.py:1295`) | rows, chunks and indexes | three select-then-update passes; REINDEX and VACUUM | users' writes, migration, embedder, PostgreSQL's locks | a repair that commits is complete; nobody waits for ever |
| Chunker, injection block (`chunking/semantic.py`, `core/retrieval.py`) | none | `chunk_text`, `render` | memory repository | chunks cover the text; the block fits its budget |
| Embedders (`embeddings/`) | none | embed, choose by dimension | HTTP | fail loudly |
| Pools (`storage/postgres.py:45`) | process-wide cache of pools | get, close all | everything | bounded, closed only when idle |
| HTTP API (`api/http.py`, `api/hardening.py`) | the limiter's deques, request counters | middleware, dependency, routes | service, event loop, worker threads | never more than the limit in a window; counters are the answers given |
| MCP server (`api/mcp.py:160`) | a process-wide service | build tools, dispatch | service, HTTP API | one service, unless threads race |
| Hermes adapter (`adapters/hermes/`) | service, session, context; the override of Hermes' memory tool | register, tool calls, initialize, switch, shutdown, turn sync | service, host, local fallback file | replace does not lose a memory silently; turns go where the host said |
| Configuration (`config.py`) | values and their sources | from_env: defaults, files, environment | every program | each key from the source its order names |
| CLI (`api/cli.py`) | `ilma init`: compose file, `.env`, docker volume, database | nine steps; other commands are one service call | docker, database, configuration, the programs started later | success means a complete database that every reader of one environment finds; no password of a volume is lost |

Hard behaviours: overlapping transactions at READ COMMITTED (no statement but the
maintenance ones takes a lock that stops readers or writers of a table, and almost no
invariant has a constraint behind it), multi-statement reads with a snapshot each,
audit row / body / mark as separate transactions, lost acknowledgements of commits,
crashes between transactions, a graph that is dropped and rebuilt without a
transaction, a migration that is run more than once over data that users change, long
transactions that embed over HTTP between their statements, and an installer that may
be killed between any two of its effects. In an HTTP process the tool routes call the
service synchronously inside the event loop (`api/http.py:331`), so they are
serialised; the service dependency and the plain routes run in worker threads and are
not. The other concurrency modelled is that of several processes and of MCP and Hermes
threads.
`PROJECT.json` lists every hazard at its line.

## 2. The modules

| Module | Models | Builds on |
|---|---|---|
| `WriteAhead` | what a write-ahead log promises (abstract specification) | – |
| `AuditedCall` | `IlmaService.call` and `PgAuditLogger`; the body is any number of transactions | refines `WriteAhead` |
| `MemoryStore` | `PgMemoryRepo.remember`, `forget`, `search` | – |
| `MemoryStoreProofs` | TLAPS proofs about `MemoryStore` and `AuditedMemory` | `AuditedMemory` |
| `AuditedMemory` | the memory tools: `AuditedCall` around `MemoryStore` | composes both, refines `AuditedCall` |
| `VersionedPages` | what a versioned wiki promises (abstract specification) | – |
| `WikiStore` | `PgWikiRepo.ingest` and `search` | refines `VersionedPages` |
| `WikiStoreProofs` | TLAPS proofs about `WikiStore` | `WikiStore` |
| `GraphPlan` | `plan_graph_rebuild` as operators, and the batches of the bulk load | – |
| `GraphRebuild` | `ilma_graph_rebuild`, `PgGraphRepo.ensure_schema` and `rebuild` | `GraphPlan` |
| `GraphRecall` | `ilma_recall` and `ilma_wiki_search` with `expand_graph`, `traverse` | extends `GraphRebuild` |
| `GraphRebuildProofs` | TLAPS proofs about `GraphPlan`, `GraphRebuild` and `GraphRecall` | `GraphRecall` |
| `Migration` | `migrate_hermes_v2_schema` over all eight surfaces | – |
| `TransactionProofs` | TLAPS proofs about `AuditedCall` and `Migration`, which share no state | both |
| `Maintenance` | `repair_migrated_memories` and `ilma_repair --force` under PostgreSQL's locks | – |
| `MaintenanceProofs` | TLAPS proofs about `Maintenance` | `Maintenance` |
| `HttpApi` | middleware, rate limiter, counters and the process-wide service | – |
| `HttpApiProofs` | TLAPS proofs about `HttpApi` | `HttpApi` |
| `Hermes` | the memory tool override and the memory provider | – |
| `HermesProofs` | TLAPS proofs about `Hermes` | `Hermes` |
| `Config` | `IlmaConfig.from_env` | – |
| `InitWizard` | `ilma init`, ending with `Config` | extends `Config` |
| `InitWizardProofs` | TLAPS proofs about `InitWizard` and `Config` | `InitWizard` |
| `MC…` | constants for TLC | the module of that name |

**AuditedCall.** `pc[c]` is the place in `call()`; `audit[c]` the status of the
call's row; `effects[c]` how many transactions of the body are committed;
`outcome[c]` the branch taken; `observed[c]` the level of the observation. Every
database operation may take effect and still raise (its acknowledgement is lost):
`BeginRefused` may leave a row, `BodyRaises` may follow a commit, `Finish` may or
may not have marked the row. `Crash` is the end of the process.

**MemoryStore.** A session runs one repository call. `memories` holds committed
rows; the row being inserted is private (`draft`, `mid`) until `CommitRemember`, and
a row being forgotten is locked from `UpdateForget` to the commit. `CheckDuplicate`
reads committed rows, as the `SELECT` does. A search is four candidate statements
and a fetch, each reading the store as it is at that moment. Ranking is data: a
statement returns what is `Eligible`, or as many of it as its `LIMIT` allows, whichever
those are (`Selections`), and the fetch any `TopK` of the candidates. `Fail` covers the embedder, the connection
and a refused commit; an exception for an invalid argument is a `Fail` before the
first statement. `seen` is a history variable: the rows when the call first read.

**AuditedMemory.** Joins the two: `Around` is what `call()` does outside the body,
`Body` a step of the repository call, `Break` an exception out of it, `Die` the death of
the process with its connection. `effects` is not a variable here but read off the
session. Which tools write is what the names in `_READ_TOOL_ACTIONS` leave
(`WriteCalls`): that is the whole of `_infer_write_surface_action` for the three tools,
whose names have one part and whose bodies use one surface; its other cases, and the
reading of the method's source, are left out.

**WikiStore / VersionedPages.** A session runs one ingest or one search. `pages`
holds the committed rows with their chunks, `draft` what the open transaction has
written. `Upsert` waits while another transaction `Holds` the page's row, whether it
updated it or inserted one with the same slug, and reads the version when the lock is
there, as `ON CONFLICT DO UPDATE` does; `DeleteChunks`, one `EmbedPiece` per chunk and
the commit follow. A search is three candidate statements and a fetch; as in
`MemoryStore`, a statement may return fewer than there are only when it returns `Limit`
of them, so that "misses no page unless" is about snapshots and not about ranking. `log` and `began` are history
variables. `VersionedPages` knows one action only, `Put`: the page, its version and
all its chunks at once.

**GraphPlan / GraphRebuild.** Texts are abstracted to the pairs the matchers find
(`RefersTo`, `Uses`). Rows arrive in any order (`SELECT` without `ORDER BY`). A
batch is one transaction: `Load` is its statement, which sees what is committed
then, and `Commit` its commit; `drop_graph` waits for transactions that wrote to
the graph. A vertex and an edge carry the rebuild that created them, so that
overlapping `MERGE`s may double them. `alone` is a history variable: nobody else
has changed the graph since this rebuild began to replace it.

**Migration.** Memories are followed row by row (with chunks, the id map and
`seen_hashes`), a wiki page with its chunks, a kanban task with its parent; of every
other table one v2 row stands for all, and `copies` counts how often ilma has it.
`tx` is the open transaction, `Visible` what a statement in it sees. Users'
operations are one step each. `calm` and `quiet` are history variables. What the
schema initialisation and the detection do is in `Begin`, which starts with empty
tables or with what is there.

**GraphRecall.** Adds one expanding call to `GraphRebuild`: `Search` fixes the hits,
`Traverse` is the statement that reads the start vertex, `Neighbours` the one that reads
the nodes around it, in the next transaction, `Collect` the last statement of the
traversal and the merge by `seen_ids`, `Skip` whatever raises.
`trusted` is a history variable: the rebuilds that were fresh when the search ran. A
traversal stops at `Limit` nodes, 20 in both tools, the start vertex counted.

**Maintenance.** What can be wrong with a memory is a set of facts still missing (clean
tags, vector, each chunk), so that a pass of the repair is "look for the missing facts
of the live memories" (`Look`) and "put the next one right" (`Fix`, in the order of
`ORDER BY`, `Due`). `held` and `wrote` are a transaction's table, index and row locks;
`Blockers` says who keeps whom waiting, `Cycles` who waits for one another, and
`Detect` is PostgreSQL's deadlock detector. What the embedder answers with zeros is
never written (`Zero`); a chunk's INSERT at a width of 768 or 1536 is refused
(`Refused`). `Forget` and `Migrate` are the steps of others. `neat` are the memories
whose tags look clean as they come (`_looks_corrupt_tags` also doubts legitimate tags of
one letter, and more than thirty), whether a migration or a remember brings them; `late`
is a history variable: a memory with tags to clean was committed after this repair had
selected the tags it cleans (`Overtake`).

**HttpApi.** `at[r]` is where request `r` stands; a request whose `code` is set is on
its way out. `loop` is the request the event loop is busy with: tool routes and the
middleware between two awaits are not interleaved, the dependency (`build`, `publish`)
and the plain routes run in threads and are. Time is a clock in ticks, and a request
keeps the tick at which the limiter let it in. The rate is in tenths so that `int()`
has something to cut off. `raced` and `made` are history variables.

**Hermes.** A remember or a forget is one step that may fail, may take effect and fail,
and stores no live content twice: what `MemoryStore` shows of one call alone. The host
makes its calls of `initialize`, `on_session_switch` and `shutdown` one after the other,
and does not wait for turns. `initialize` is the assignments of session, context and
service as three steps (`SetSession`, `SetContext`, `Build`), by the host or, after
`_require_service` has found no service (`Reopen`), by a turn or another asker of the
provider. A turn reads in three places: the context (`SyncTurn`), the service
(`RequireService`, `TakeService`) and the session (`TakeSession`); anything may happen in
between. `turn[t]` holds what it has read, and `heard` what the host had said by each
read. `host` is what the host said last, `drift` what has happened to the provider since:
an `initialize` that raised half way (`failed`), a service opened again by another thread
(`reopened`), and a saying of the host while that went on (`raced`).

**Config / InitWizard.** A configuration file is a sequence of entries, each a key set
directly or an `env` block; `Load` applies one entry, and at the end the environment.
Passwords are numbers, the number of the wizard's run that generated them, and a DSN is
the password in it, or `External` for a database the user has. A run of the wizard is a
process: `Start` gives it a shell (any DSN the user has seen under any name of the DSN),
options and a deploy directory, `Exit` takes environment and configuration away again.
`StartProgram` is any other program of ilma, in a shell of its own, whose service looks
for its DSN (`_dsn_from_env`) and in which Hermes reads the configuration. Every
directory has a `compose` and a `dotenv`; there is one `stack` and one `volume`, as the
compose file names both globally, and the volume keeps the password it was first started
with. `clobbered` is a history variable: `--force` overwrote a deployment. The state
before a run includes what earlier runs, killed between any two steps, have left.

## 3. The checks

| Run | Properties | Bounds | States |
|---|---|---|---|
| `audited_call` | `EffectsAreLogged`, `VerdictIsTruthful`, `ImplementsWriteAhead`, `EveryCallEnds` | a write of one transaction, one of two, a read | 23 452 |
| `memory_store` | `AllOrNothing`, `OnlyRacesDuplicate`, `ReturnsTellTheTruth`, `OneForgetWins`, `SearchIsCurrent` | 4 calls of any kind, 3 ids, a short content and one of two chunks, statements of 2 rows, fetches of 1 | 1 759 254 |
| `audited_memory` | `EveryChangeIsLogged`, `SuccessIsDurable`, `ImplementsAuditedCall` | one call of each tool, 1 id, statements of 2 rows | 222 838 |
| `wiki_store` | `VersionsCountChanges`, `SearchSeesPages`, `ImplementsVersionedPages`, `EveryCallEnds` | 3 calls of any kind, 2 pages, a body of two chunks and one of one, one search whose statements return 1 page, others 2 | 338 312 |
| `graph_rebuild` | `PlanIsClosed`, `SuccessLoadsThePlan`, `GraphComesFromViews`, `OnlyRacesDouble`, `UndisturbedExpansionIsTrue` | 2 rebuilds or a rebuild and an expansion of 2 hops, 2 memories, 1 page, 1 skill, 2 sessions, a limit of 3 nodes | 1 442 229 |
| `migration` | `NothingBeforeCommit`, `NoRowTwice`, `EveryContentIsKept`, `MemoriesAreAdditive`, `RerunChangesNothing`, `ReportIsTruthful` | 2 runs, 2 user writes, every v2 table of up to 3 rows over 2 contents | 128 770 |
| `maintenance` | `RepairIsComplete`, `OnlyReindexDeadlocks`, `EveryCallEnds` | a repair; a repair or `ilma_repair`; an `ilma_repair` or remember; 3 memories (migrated, migrated meanwhile, remembered), of which the tags of one look clean, or of two, widths 1024 and 1536 | 522 352 |
| `http_api` | `RateHolds`, `TallyIsTruthful`, `OnlyRacesRebuild`, `EveryRequestEnds` | 3 requests of one client to any path, a rate of 1.9, a window of 2 ticks, 3 ticks | 566 595 |
| `hermes` | `TurnsGoWhereTheHostSaid`, `LossIsReported` | 2 sessions, 2 databases, 2 contexts, 1 turn, 1 other asker, 2 life-cycle calls; or 2 tool calls, 2 contents | 2 308 228 |
| `init_wizard` | `ConfigIsResolved`, `SuccessIsComplete`, `ConfiguredIsInitialised`, `PasswordsAgree` | 2 runs and other programs between them, 2 directories, 3 names of the DSN and 1 of the embedder; files of 1 entry, of 2 before the first run | 949 053 |

The type invariants, and `RowsOnlyAge` of `MemoryStore`, are theorems and are not run
again.

Why the bounds are enough to be interesting: three ids and two contents let a content
be stored, forgotten and stored again and let two calls race for it while a third
searches, and let a statement have more candidates than it returns: `Limit` stands for
`max(top_k * 4, top_k)` and is scaled down to 2 with `TopK` at 1, and to 1 and 2 in the
wiki, so that it binds in some searches and in others not; a content of two chunks has
an embedding that can fail between them; the body of two transactions can stop halfway; the page's id is that of a memory, so
the id-only `MATCH` meets a collision; the two memories are linked by two sessions,
so a pair is planned twice; the v2 tables hold live and deleted rows of one content
in both orders, with fewer and with more chunks than ilma's own. In `maintenance` two
repairs meet on one memory with two pieces, one of which the embedder answers with
zeros, every pair of the three tools overlaps, and the tags of the remembered memory look
corrupt in one case and clean in the other. In `graph_rebuild` the limit of 3
nodes has room for the rows as long as the page is not there, and cuts an answer off
when it is. Three requests at 1.9 per
window overrun the limit by two, and the third tick lets a hit be exactly a window
old. In `hermes` the reads of a turn come before, between and after the parts of two
life-cycle calls, beside a thread that reopens the provider; the memory tool shares with
it only the rows, so that `OneOfBoth` has behaviours of the one or of the other. Two runs
of the wizard in two directories let a deployment be made, found, overwritten by force, left half done, or made elsewhere over
the same volume; two entries let two names of one key disagree, in two files
or in one, and `Modest` has them where no run of the wizard came before. Sessions, directories,
rebuilders and calls are symmetric in the runs that declare it, none of which checks
liveness. Deadlock is checked in `init_wizard`, where other programs may always be
started; elsewhere every call is made once, or a bounded number of times, and then the
system stops.

Fairness: `AuditedCall` and `WikiStore` assume weak fairness of a call
that was started (of its own steps: a failure is possible and never counted on).
`call()` waits for no other call; the pool, the database and the embedder
answer or time out (`embeddings/__init__.py:65` has a timeout, psycopg's pool has one
of 30 s); `ingest` waits for the row of a page, which is held until the holder's end,
takes no second lock while it has the first, and there is no limit on the wait.
`HttpApi` assumes it of the steps of a request: the event loop runs what is ready, and
whoever holds the loop goes on. `Maintenance` assumes it of a call's statements and of
the deadlock detector together: the server answers what nobody blocks, and looks at
every wait that lasts `deadlock_timeout`. Nothing else forces a call to be started,
and nothing prevents a crash.

Every property of a passing run has a mutant, an operator beside the definition it
mutates, of which TLC finds the property violated.

### Where the code and its documents disagree

| Run | Property | What the code does |
|---|---|---|
| `migration_loses` | `LiveStaysLive` | a deleted v2 row before the live one of the same content makes the live one a conflict; only the deleted one is imported (`migration.py:298`, `docs/MIGRATION.md:18`) |
| `repair_width` | `AnyWidthRepairs` | with vectors of 768 or 1536 dimensions (1536 is the default) the INSERT of a missing chunk names a column twice and the whole repair is refused (`repair.py:187`, against `repair.py:5`) |

Met while modelling, built into the models, and without a run of their own:

- two overlapping remembers of one content both insert it (`storage/postgres.py:286`;
  the docstring at line 200 promises 0 for a duplicate);
- an undisturbed graph rebuild draws edges its plan does not have: ends are matched by
  id whatever their kind (`storage/postgres_graph.py:289`, `core/graph.py:13`);
- a re-run of the migration inserts metrics and observations again (`migration.py:602`,
  `713`), and overwrites an edited page while the edited text's chunks stay under the
  old body (`migration.py:421`, `476`);
- `migrate --dsn X --reembed` repairs the database of the environment, not X
  (`api/cli.py:1093`);
- `ilma_repair` reports success though its findings failed and no index was rebuilt
  (`service.py:1370`); a piece embedded as zeros in an otherwise whole memory is never
  looked for again (`repair.py:181`);
- `wiki_search` drops a neighbour of another kind that has the id of a hit
  (`service.py:695`);
- a Hermes provider that is used after `shutdown` opens its service again as
  `primary`, whatever context the host gave (`adapters/hermes/memory_provider.py:185`,
  `104`);
- `on_session_switch` beside another thread that reopens the provider is lost: the
  reopening writes back the session it began with (`adapters/hermes/memory_provider.py:185`
  and `68`, against "Track the active Hermes session id" at 132); `raced` says when;
- `ilma init` does not wait for the stack to be healthy (`api/cli.py:556`, against
  523); and `--force`, or an init in a second directory without it, writes a new password
  for the one volume `ilma-pg-data`, which keeps its old one (`api/cli.py:384`, `321`), so
  that the DSN it returns opens nothing (against `api/cli.py:359`);
- a name in the `env` block of a later configuration file does not override a key that
  an earlier file has set (`config.py:291`); a value of `None` is coerced to the string
  (`config.py:379`);
- the health route builds the service after all, by way of the access log
  (`api/http.py:162`, against the docstring at 450); the CORS middleware is inside the
  hardening one, so that preflights are limited and need a key (`api/http.py:391`).

`RerunChangesNothing` says what does hold of a re-run, `OnlyRacesDuplicate` and
`OnlyRacesDouble` what holds of duplicates.

## 4. The proofs

Each theorem holds for every value of the constants that the module's ASSUME admits.

**`TransactionProofs`**, of `AuditedCall`, from `CallsAssumption` (writes are calls; a read commits
nothing): `TypeCorrect` (`TypeOK`), `WriteAheadHolds` (`EffectsAreLogged`),
`VerdictHolds` (`VerdictIsTruthful`), `Refinement` (`ImplementsWriteAhead`).
`EffectsAreLogged` and `VerdictIsTruthful` are not inductive: neither says that a
write in its body has a pending row, or that a call about to be marked has its
outcome. `IInv` adds, for each place in `call()`, what is true of the row, of the
effects and of the outcome there. `InitIInv` and `StepIInv` (one step per action)
make it inductive, and the properties follow. For the refinement, `InitMaps` maps
the initial state and `StepMaps` maps every step, under `IInv`, to a step of
`WriteAhead` or a stutter.

**`TransactionProofs`**, of `Migration`, from `MigrationAssumption` (v2's rows are rows;
chunks, pieces and the bounds are numbers): `MigrationTypeCorrect`,
`FailedRunsLeaveNothing` (`NothingBeforeCommit`), `ImportedOnce` (`NoRowTwice`),
`ContentIsKept` (`EveryContentIsKept`), `MigrationIsAdditive` (`MemoriesAreAdditive`),
`RerunsChangeNothing` (`RerunChangesNothing`) and `ReportsAreTruthful`
(`ReportIsTruthful`), for any v2 tables and any number of runs and of users' writes. None of the invariants is inductive, since all of them speak of
what is committed and a commit adds what was written long before. `MigrationInv` says of
the open transaction: its rows are on ids that nobody else has (`RowsApart`), no v2 row
has two ids in what the transaction sees (`OneEach`), no chunk has the index of another
(`ChunksApart`), and every v2 row behind the cursor is known (`Progress`). A statement of
the migration sees more than its own snapshot began with, so each of these must also
survive a user's write in between. For the re-runs `CalmRun` says what a first run
without writes beside it has done with each row behind it, `Settled` what is then in the
tables, and `Rerun` that a run over settled tables has written nothing so far: by
`Repeats`, a row is left out only when an earlier row had its content. For the report
`Counted` relates the counters to sets: what was inserted is as many as the rows and
chunks the transaction holds (`NewRows`, `NewParts`), and what was inserted or skipped as
many as the rows and chunks of v2 behind the cursor (`DoneParts`). It needs `PartsApart`,
which is about the users: no chunk that the transaction holds gets committed to the same
row by somebody else before it does, or the commit would add less than was counted.

**`MemoryStoreProofs`**, from `StoreAssumption` (every content has at least one chunk;
short and matching contents are contents): the five properties of the `memory_store`
run and two more (types, and that rows only age): `TypeCorrect`, `AllOrNothingHolds`, `DuplicatesAreRaces`, `RepliesAreTrue`,
`OneWinner`, `SearchHolds`, `RowsAge`. Two ideas carry the invariant. `RowsInOrder`: an
id is handed out once, so that a row being inserted is absent and nobody else's, and
`OneDeleter`: a row lock has one owner, whose row is live. `SeenAged`: what a call has
read and what is there now differ by `Aged` only (absent, live, deleted, in that
order); `Aged` is transitive, so that the steps of all other calls are dealt with by
one lemma, `OthersPlaced`, and each action's lemma has only its own call to look at.
`OneForgetWins` is inductive on top of that: a memory is deleted if and only if a call was
told so or would have been, that call is one, and what each call is told is what its UPDATE
found when it had the row; `OwnMove` says that no call moves another and none that has
ended moves, `OtherSteps` that only the commit of a forget (`Deletes`) deletes. For
`SearchIsCurrent`, `SearchPlaced` keeps that before the fetch every memory that has been
live throughout is among the candidates, or these are as many as `Limit`.

The same module proves `AuditedMemory`, from `ToolAssumption` besides: `AllInvariance`,
`ComposedStore` (every behaviour of the composition is one of `MemoryStore`, so that all
of the above holds in it), `ChangesAreLogged` (`EveryChangeIsLogged`), `SuccessLasts`
(`SuccessIsDurable`) and `ComposedRefinement` (`ImplementsAuditedCall`). `CallPlaced` says
what a place in `call()` means for the body inside it, and `RowsHaveCalls` gives every row
the committed call that wrote it; `SuccessIsDurable` then follows from what
`MemoryStoreProofs` knows of a session that has returned. In the refinement the number of
transactions a body has committed is read off the session, so that the one step of the
repository that commits maps to `CommitTxn` and all its others to a stutter.

**`WikiStoreProofs`**, from `WikiAssumption` (a body has at least one chunk: the text
that is chunked begins with the title, which is not empty): `TypeCorrect`, `RowLock`
(`OneWriter`: one transaction between its upsert and its end, per page),
`VersionsHold` (`VersionsCountChanges`), `SearchHolds` (`SearchSeesPages`) and
`Implementation` (`ImplementsVersionedPages`). The invariant says that a page is what
the last entry of its log wrote, that the draft of a transaction follows on the page
it will replace, and that the lock keeps this so until the commit: without `OneWriter`
the version read by the upsert could be an old one. `PrivateStep` deals with the
steps that write no page, `WriteStep` with the two commits. The refinement maps a
commit to `Put` and everything else to a stutter.

**`HttpApiProofs`**, from `HttpAssumption`: `TypeCorrect`, `RateIsHeld` (`RateHolds`, at
every rate and for every window, not only those the limiter looks at), `TallyIsRight`
(`TallyIsTruthful`) and `OnlyRacesBuildTwice` (`OnlyRacesRebuild`). `RateHolds` follows
from `LimitKept`, which needs `Remembered`: a request let in less than a window ago is
still in the deque of its client, or the limiter could admit another in its place.
`Overlap` says of every two builds, published or under way, that one saw the other.

**`HermesProofs`**, from `HermesAssumption`: `TypeCorrect`, `TurnsAreWhereTheyBelong`
(`TurnsGoWhereTheHostSaid`) and `LossIsAlwaysReported` (`LossIsReported`). `Follows`
ties the provider's fields to what the host said, in the middle of its `initialize` too
(`HostOK`) and of another thread's (`ReopenOK`), but for the drift; `Addressed` says of
each place in a sync that what it has read is what the host had said (`Knows`), and what
it reads later only adds to `heard` and `drift` (`HeardMore`); `OfItsTurn` ties each row
to the turn it came from; `Accounted` each row that is gone to the call that took it.

**`InitWizardProofs`**, from `ConfigAssumption` and `WizardAssumption`: `TypeCorrect`,
`ConfigIsAlwaysResolved` (`ConfigIsResolved`, for files of any number of entries),
`SuccessIsAlwaysComplete`, `ConfiguredIsAlwaysInitialised` and `PasswordsAlwaysAgree`,
for any number of runs, directories and programs.
`FileInv` is the resolution of the entries read so far, the induction over the file
being that of the specification's steps; `Pointed` says that `ILMA_DSN` holds the DSN
the wizard works on, and of another program that its service has the first name that is
set; `Behind` that the pieces of all steps before the present one are made; `Deployed`
that the password docker was started with is that of a directory, and so is the volume's.
`Least`, that a set of
numbers has a least one, is what makes "the first name that is set" well defined.

**`MaintenanceProofs`**, from `MaintenanceAssumption`: `TypeCorrect`,
`RepairIsAlwaysComplete` (`RepairIsComplete`) and `OnlyReindexDeadlocksAlways`
(`OnlyReindexDeadlocks`). The invariant of the first two has two ideas. `Progress`:
what a pass of a repair has looked for is right, written, embedded as zeros or still to
come (`Settled`), and what others do never takes a fact away. `Wholes`: a repair looks
only for memories without any chunk, so there must never be one with some of its chunks
and not the others, in what is committed or in what a transaction sees and is going to
write.

That there is no other cycle of waits rests on `OrderInv`: which locks a call can hold
where it stands (`Locking`), which facts it can have written (`Kinds`), that a pass goes
through its rows in order (`InOrder`), that no two repairs have changed one row (`Apart`),
and that a repair which was not overtaken comes to the row of a memory whose tags look
corrupt with its first pass (`TagsThenVector`, `TagsFirst`, `OnTime`, and `Fresh`: what is
still to be remembered is not there), so that it never waits with its vectors for another
that still cleans tags. Of a cycle without the
two exceptions, `NoOtherCycle` then takes one place after the other away: nobody waits for
who has written nothing; of those at the tags, then at the vectors, then at the chunks, nobody
waits for the one that has come to the first row in the order, since all it has changed
is before that row (`NoChain`, on `FirstFact`); nobody is left. This is also why the initialization of the schema has to be a transaction of
its own.

**`GraphRebuildProofs`**, from `GraphAssumption` (ids are numbers from 1 on, and finitely
many) and `RecallAssumption` (1 to 3 hops, a limit of at least 1): `TypeCorrect`, `PlansAreClosed` (`PlanIsClosed`), `GraphAlwaysComesFromViews`
(`GraphComesFromViews`), `SuccessAlwaysLoadsThePlan` (`SuccessLoadsThePlan`) and
`OnlyRacesEverDouble` (`OnlyRacesDouble`), for any number of rebuilds. `Sourced` and
`Adding` say of the graph, and of what a transaction is about to add, that a rebuild
planned it whose view no longer changes; the graph cannot vanish under a transaction
that loads it, because `drop_graph` waits. `Complete` says of an undisturbed rebuild
that each planned vertex and edge is there or awaited in its batches, and `InOrder` that
no vertex is awaited any more when an edge is loaded, without which a `MATCH` could find
nothing. `ExpansionsOnlyRead` carries all of this over to `GraphRecall`, where
`UndisturbedExpansionsAreTrue` (`UndisturbedExpansionIsTrue`) needs an invariant of the
call, `CallInv`: as long as a rebuild it trusts still has the graph to itself, the nodes in
hand and the neighbours so far are of that rebuild's plan, and a memory that shares tags
with a hit already expanded is seen, in hand or still to be read (`Follows`), also when the
start vertex and its neighbours are read by two transactions. It is about the plan, which
stays, and not about the tables, which may change and change back. `AroundReaches` is
what it needs of the recursive traversal: one hop at least is made, and no node is from
elsewhere.

Each invariant was checked by TLC on the instance of the run before it was proved.

Only model-checked: the liveness properties (liveness under fairness and `ENABLED`
are beyond the prover). `LiveStaysLive` and `AnyWidthRepairs` do not hold. No module
declares a RECURSIVE operator, so that all of them may be proved about; where a proof
needs induction over numbers it takes the least of a set of them (`MinExists`,
`LeastExists`).

## 5. Not modelled

Text matching and tokenisation, vector arithmetic and ranking, the agtype and Cypher
text, `migrate_hermes_config`, Prometheus and OpenAPI text, argument parsing, the
inference of audited tools from their source text: data and wording that no property here
tells apart. Of the container scripts only what they do to the volume's password is in
`StackReady`. In `InitWizard` a name set to nothing but spaces is left out, which
`_dsn_from_env` refuses or passes on and the configuration may take. The
connection pools delay calls that the modules here let run at any time, and refuse
them after a time, which is a failure the modules have; closing the pools is one too.
The generic collections of `PgBackend` are single statements that nothing in the
service calls, as are the operations of the journal, skill, metric, observability and
session repositories.

What is left of the plan:

1. `chunk_text` and the injection block's budget as operators, against reference
   definitions.
2. The pool as a bounded resource, with calls that hold a connection while they embed.
3. The overlap of a rebuild with a traversal: what a stale expansion may still be trusted
   with.
