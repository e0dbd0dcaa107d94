------------------------------ MODULE Migration ------------------------------
(***************************************************************************)
(* migrate_hermes_v2_schema (migration.py): the rows of the hermes-memory  *)
(* v2 schemas are copied into ilma's tables by one transaction at READ     *)
(* COMMITTED, surface after surface.  The operator may run it again, after *)
(* a success or after a failure, and the users of ilma may remember,       *)
(* forget and edit between two runs and while one is under way.            *)
(*                                                                         *)
(* Memories are followed row by row, a wiki page with its chunks, a kanban *)
(* task with its parent.  Of the other tables one v2 row stands for all:   *)
(* what counts is how many copies of it ilma has.                          *)
(***************************************************************************)
EXTENDS Naturals, Sequences, FiniteSetsExt

CONSTANTS
    Keys,       \* (content, source) pairs
    NoKey,      \* the key of an id no row has
    Sources,    \* the tables agent_memory.memories may hold, by v2 id
    Chunks,     \* Chunks[k]: the chunks ilma itself cuts k's content into
    Pieces,     \* Pieces[b]: the chunks of the page's body b
    MaxId,      \* bound: ids of ilma.memories
    MaxRuns,    \* bound: runs of the migration
    MaxWrites   \* bound: writes of the users

Bodies == {"v2", "user"}

ASSUME MigrationAssumption ==
    /\ NoKey \notin Keys
    /\ \A src \in Sources : src \in Seq([key : Keys, deleted : BOOLEAN, chunks : Nat])
    /\ Chunks \in [Keys -> Nat]
    /\ Pieces \in [Bodies -> Nat]
    /\ {MaxId, MaxRuns, MaxWrites} \subseteq Nat

VARIABLES
    v2,         \* the v2 memories, with their chunks: the migration only reads them
    memories,   \* the committed rows of ilma.memories
    page,       \* the row of one wiki page, with its chunks
    task,       \* the row of one kanban task
    copies,     \* copies[t]: how often table t has the v2 row that stands for t's rows
    at,         \* the surface the running migration has reached
    next,       \* the v2 row it takes next
    tx,         \* what its transaction knows and has written; copies: the rows it adds
    runs,       \* runs begun
    commits,    \* runs committed
    writes,     \* writes of the users
    calm,       \* history: no user wrote since the last run began
    quiet       \* history: none since the run that was last committed began

tables == <<memories, page, task, copies>>
running == <<at, next, tx>>
history == <<runs, commits, writes, calm, quiet>>
migrationVars == <<v2, memories, page, task, copies, at, next, tx, runs, commits, writes, calm, quiet>>

Ids == 1..MaxId

(* A chunk is the pair of its index and the text it was cut from: the v2
   row, or 0 for ilma's own chunk_text. *)
NoRow == [state |-> "absent", key |-> NoKey, origin |-> 0, chunks |-> {}]
NoPage == [body |-> "none", version |-> 0, chunks |-> {}]
NoTask == [there |-> FALSE, parent |-> "none"]

(* The tables whose rows are recognised when they are met again, and those
   whose rows are not. *)
Recognised == {"journal", "skills", "sessions", "messages"}
Unrecognised == {"metrics", "observations"}
Tables == Recognised \cup Unrecognised

NoTx == [map |-> [r \in DOMAIN v2 |-> 0], seen |-> {},
         rows |-> [i \in Ids |-> NoRow], chunks |-> [i \in Ids |-> {}],
         page |-> NoPage, task |-> NoTask, copies |-> [t \in Tables |-> 0],
         inserted |-> 0, skipped |-> 0, conflicts |-> 0]

(***************************************************************************)
(* Type invariant.                                                         *)
(***************************************************************************)
IsRow(row) ==
    /\ row.state \in {"absent", "live", "deleted"}
    /\ row.key \in Keys \cup {NoKey}
    /\ row.origin \in 0..Len(v2)
    /\ \A c, d \in row.chunks : c[1] = d[1] => c = d

MigrationTypeOK ==
    /\ v2 \in Sources
    /\ DOMAIN memories = Ids /\ \A i \in Ids : IsRow(memories[i]) /\ IsRow(tx.rows[i])
    /\ page.body \in Bodies \cup {"none"} /\ page.version \in Nat
    /\ \A c, d \in page.chunks : c[1] = d[1] => c = d
    /\ task \in [there : BOOLEAN, parent : {"none", "v2", "user"}]
    /\ copies \in [Tables -> Nat]
    /\ at \in {"idle", "memory", "chunks", "wiki", "pieces", "kanban", "commit"} \cup Tables
    /\ tx.map \in [DOMAIN v2 -> Ids \cup {0}]
    /\ tx.seen \subseteq Keys
    /\ runs \in 0..MaxRuns /\ commits \in 0..runs /\ writes \in 0..MaxWrites

MigrationInit ==
    /\ v2 \in Sources
    /\ memories = [i \in Ids |-> NoRow]
    /\ page = NoPage
    /\ task = NoTask
    /\ copies = [t \in Tables |-> 0]
    /\ at = "idle"
    /\ next = 1
    /\ tx = NoTx
    /\ runs = 0
    /\ commits = 0
    /\ writes = 0
    /\ calm = FALSE
    /\ quiet = FALSE

-----------------------------------------------------------------------------
(* What a statement of the transaction sees: its own rows and chunks, and
   whatever else is committed by now. *)
Visible(i) == IF tx.rows[i] # NoRow THEN tx.rows[i] ELSE memories[i]

VisibleChunks(i) == Visible(i).chunks \cup tx.chunks[i]

(* bigserial: past every id in use.  An id that a rolled back transaction
   had drawn is drawn again, which nobody can tell. *)
FreshId == 1 + Max({0} \cup {i \in Ids : Visible(i) # NoRow})

Begin ==
    /\ at = "idle"
    /\ runs < MaxRuns
    /\ runs' = runs + 1
    /\ at' = IF v2 = <<>> THEN "wiki" ELSE "memory"
    /\ next' = 1
    /\ tx' = NoTx
    /\ calm' = TRUE
    /\ UNCHANGED <<v2, tables, commits, writes, quiet>>

(* The loop over the rows of a surface: on to the next one or next surface. *)
Advance(surface) ==
    IF next < Len(v2)
    THEN next' = next + 1 /\ UNCHANGED at
    ELSE next' = 1 /\ at' = surface

(* Mutant: rows that were forgotten are not looked at. *)
ExistingLive(r) ==
    {i \in Ids : Visible(i).state = "live" /\ (Visible(i).origin = r \/ Visible(i).key = v2[r].key)}

(* The row of ilma.memories that already stands for v2 row r: imported from
   it, or live with its content and source. *)
Existing(r) ==
    {i \in Ids :
        \/ Visible(i).origin = r
        \/ Visible(i).state = "live" /\ Visible(i).key = v2[r].key}

(* Mutant: the hash of the content is left out of the key. *)
IsConflictAny(r) == tx.seen # {}

IsConflict(r) == v2[r].key \in tx.seen

(* Mutants: a skipped row is counted as a conflict only; a row that is met
   again is brought back to the state it has in v2. *)
SkipUncounted(r) ==
    /\ Existing(r) # {}
    /\ tx' = [tx EXCEPT !.map[r] = Min(Existing(r)), !.seen = @ \cup {v2[r].key},
                        !.conflicts = @ + 1]

SkipRefreshes(r) ==
    /\ Existing(r) # {}
    /\ LET i == Min(Existing(r))
           state == IF v2[r].deleted THEN "deleted" ELSE "live"
       IN  tx' = [tx EXCEPT !.map[r] = i, !.seen = @ \cup {v2[r].key}, !.skipped = @ + 1,
                            !.rows[i] = [Visible(i) EXCEPT !.state = state]]

Skip(r) ==
    /\ Existing(r) # {}
    /\ tx' = [tx EXCEPT !.map[r] = Min(Existing(r)), !.seen = @ \cup {v2[r].key},
                        !.skipped = @ + 1,
                        !.conflicts = IF IsConflict(r) THEN @ + 1 ELSE @]

Conflict(r) ==
    /\ Existing(r) = {}
    /\ IsConflict(r)
    /\ tx' = [tx EXCEPT !.skipped = @ + 1, !.conflicts = @ + 1]

Import(r) ==
    /\ Existing(r) = {}
    /\ ~ IsConflict(r)
    /\ FreshId \in Ids
    /\ tx' = [tx EXCEPT
                !.rows[FreshId] = [state |-> IF v2[r].deleted THEN "deleted" ELSE "live",
                                   key |-> v2[r].key, origin |-> r, chunks |-> {}],
                !.map[r] = FreshId, !.seen = @ \cup {v2[r].key}, !.inserted = @ + 1]

MigrateMemory ==
    /\ at = "memory"
    /\ Skip(next) \/ Conflict(next) \/ Import(next)
    /\ Advance("chunks")
    /\ UNCHANGED <<v2, tables, history>>

(* ON CONFLICT (memory_id, chunk_index) DO NOTHING. *)
NewChunks(r, i) ==
    {<<c, r>> : c \in {n \in 1..v2[r].chunks : \A d \in VisibleChunks(i) : d[1] # n}}

MigrateChunks ==
    /\ at = "chunks"
    /\ LET i == tx.map[next]
           new == IF i = 0 THEN {} ELSE NewChunks(next, i)
       IN  tx' = [tx EXCEPT !.chunks = [j \in Ids |-> IF j = i THEN @[j] \cup new ELSE @[j]],
                            !.inserted = @ + Cardinality(new),
                            !.skipped = @ + v2[next].chunks - Cardinality(new)]
    /\ Advance("wiki")
    /\ UNCHANGED <<v2, tables, history>>

(* The page is inserted, or its body overwritten; it is locked from here to
   the end of the transaction. *)
MigrateWiki ==
    /\ at = "wiki"
    /\ tx' = [tx EXCEPT !.page = IF page = NoPage THEN [body |-> "v2", version |-> 1, chunks |-> {}]
                                 ELSE [page EXCEPT !.body = "v2"]]
    /\ at' = "pieces"
    /\ UNCHANGED <<v2, tables, next, history>>

NewPieces ==
    {<<n, "v2">> : n \in {m \in 1..Pieces["v2"] : \A c \in tx.page.chunks : c[1] # m}}

MigratePieces ==
    /\ at = "pieces"
    /\ tx' = [tx EXCEPT !.page.chunks = @ \cup NewPieces]
    /\ at' = "journal"
    /\ UNCHANGED <<v2, tables, next, history>>

Following ==
    [journal |-> "skills", skills |-> "metrics", metrics |-> "kanban",
     observations |-> "sessions", sessions |-> "messages", messages |-> "commit"]

(* Mutant: the journal tag that marks a copied message is not looked up. *)
CopiedTwice(t) == IF t \in Recognised \ {"journal"} /\ copies[t] > 0 THEN 0 ELSE 1

(* Journal entries by tag, messages by their fields are looked up; skills
   and sessions are upserted by name; a metric and an observation are
   inserted whatever is there. *)
Copied(t) == IF t \in Recognised /\ copies[t] > 0 THEN 0 ELSE 1

MigrateTable ==
    /\ at \in Tables
    /\ tx' = [tx EXCEPT !.copies[at] = Copied(at)]
    /\ at' = Following[at]
    /\ UNCHANGED <<v2, tables, next, history>>

(* The task is found by its v2 id or inserted; its link to a parent is set
   in either case. *)
MigrateKanban ==
    /\ at = "kanban"
    /\ tx' = [tx EXCEPT !.task = [there |-> TRUE, parent |-> "v2"]]
    /\ at' = "observations"
    /\ UNCHANGED <<v2, tables, next, history>>

(* The commit, whether or not its acknowledgement reaches the client. *)
Commit ==
    /\ at = "commit"
    /\ memories' = [i \in Ids |-> [Visible(i) EXCEPT !.chunks = VisibleChunks(i)]]
    /\ page' = tx.page
    /\ task' = tx.task
    /\ copies' = [t \in Tables |-> copies[t] + tx.copies[t]]
    /\ at' = "idle"
    /\ tx' = NoTx
    /\ commits' = commits + 1
    /\ quiet' = calm
    /\ UNCHANGED <<v2, next, runs, writes, calm>>

(* Mutant: what was inserted before the statement that failed stays. *)
AbortKeepsRows ==
    /\ at # "idle"
    /\ at' = "idle"
    /\ tx' = NoTx
    /\ memories' = [i \in Ids |-> [Visible(i) EXCEPT !.chunks = VisibleChunks(i)]]
    /\ UNCHANGED <<v2, page, task, copies, next, history>>

(* A statement raises and the transaction is rolled back, or the process
   dies and the server does it. *)
Abort ==
    /\ at # "idle"
    /\ at' = "idle"
    /\ tx' = NoTx
    /\ UNCHANGED <<v2, tables, next, history>>

-----------------------------------------------------------------------------
(* The users of ilma: one call is one step here, MemoryStore has its parts. *)

UserWrites ==
    /\ writes < MaxWrites
    /\ writes' = writes + 1
    /\ calm' = FALSE
    /\ quiet' = FALSE
    /\ UNCHANGED <<v2, running, runs, commits>>

Remember(k) ==
    /\ \A i \in Ids : ~ (memories[i].state = "live" /\ memories[i].key = k)
    /\ FreshId \in Ids
    /\ memories' = [memories EXCEPT ![FreshId] =
          [state |-> "live", key |-> k, origin |-> 0, chunks |-> {<<c, 0>> : c \in 1..Chunks[k]}]]
    /\ UserWrites
    /\ UNCHANGED <<page, task, copies>>

Forget(i) ==
    /\ memories[i].state = "live"
    /\ memories' = [memories EXCEPT ![i].state = "deleted"]
    /\ UserWrites
    /\ UNCHANGED <<page, task, copies>>

(* PgWikiRepo.ingest, which waits for the transaction that has the slug. *)
Ingest ==
    /\ tx.page = NoPage
    /\ page' = [body |-> "user", version |-> page.version + 1,
                chunks |-> {<<n, "user">> : n \in 1..Pieces["user"]}]
    /\ UserWrites
    /\ UNCHANGED <<memories, task, copies>>

(* ilma_kanban_update of parent_id. *)
Reparent ==
    /\ task.there
    /\ ~ tx.task.there
    /\ task' = [task EXCEPT !.parent = "user"]
    /\ UserWrites
    /\ UNCHANGED <<memories, page, copies>>

MigrationNext ==
    \/ Begin
    \/ MigrateMemory
    \/ MigrateChunks
    \/ MigrateWiki
    \/ MigratePieces
    \/ MigrateTable
    \/ MigrateKanban
    \/ Commit
    \/ Abort
    \/ \E k \in Keys : Remember(k)
    \/ \E i \in Ids : Forget(i)
    \/ Ingest
    \/ Reparent

MigrationSpec == MigrationInit /\ [][MigrationNext]_migrationVars

-----------------------------------------------------------------------------
Imported == {i \in Ids : memories[i].origin # 0}

(* One transaction: as long as no run was committed nothing of v2 is in any
   table, whatever surface the runs that failed had reached. *)
NothingBeforeCommit ==
    commits = 0 =>
        /\ Imported = {}
        /\ \A i \in Ids : \A c \in memories[i].chunks : c[2] = 0
        /\ page.body # "v2" /\ ~ task.there
        /\ \A t \in Tables : copies[t] = 0

(* However often it is run, and whatever the users forget and remember in
   between, no v2 row is imported twice. *)
NoRowTwice ==
    \A i, j \in Imported : memories[i].origin = memories[j].origin => i = j

(* Once a run is committed the content of every v2 row is in ilma: in the
   row imported from it or in another of the same content and source. *)
EveryContentIsKept ==
    commits > 0 =>
        \A r \in DOMAIN v2 :
            \E i \in Ids : memories[i].origin = r \/ memories[i].key = v2[r].key

(* "The migration is additive" (migration.py:166), for memories: a commit
   changes no row and no chunk that was there. *)
MemoriesAreAdditive ==
    [][commits' # commits =>
          \A i \in Ids :
              memories[i].state # "absent" =>
                  /\ memories'[i] = [memories[i] EXCEPT !.chunks = memories'[i].chunks]
                  /\ memories[i].chunks \subseteq memories'[i].chunks]_migrationVars

(* "Re-runs are safe" (migration.py:167): a run that meets what the run
   before it left changes nothing in the tables whose rows it recognises.
   A write beside the first run is excluded: a memory remembered while its
   content was being imported gets v2's chunks from the second. *)
RerunChangesNothing ==
    [][commits > 0 /\ commits' # commits /\ quiet =>
          /\ UNCHANGED <<memories, page, task>>
          /\ \A t \in Recognised : copies'[t] = copies[t]]_migrationVars

(* The counters a run returns for the memories are those of its commit:
   every v2 row and every v2 chunk was inserted or skipped, once, and what
   it says it inserted is what the commit adds to the tables, whatever the
   users wrote meanwhile. *)
ReportIsTruthful ==
    [][commits' # commits =>
          LET rows == {i \in Ids : memories[i] = NoRow /\ memories'[i] # NoRow}
              chunks == UNION {{i} \X (memories'[i].chunks \ memories[i].chunks) : i \in Ids}
              source == UNION {{r} \X (0..v2[r].chunks) : r \in DOMAIN v2}
          IN  /\ tx.inserted = Cardinality(rows) + Cardinality(chunks)
              /\ tx.inserted + tx.skipped = Cardinality(source)
              /\ tx.conflicts <= tx.skipped]_migrationVars

(* docs/MIGRATION.md:18: "only one live row per (content hash, source) is
   imported", so one is: a content that is live in v2 is live in ilma, as
   long as no user forgot it. *)
LiveStaysLive ==
    commits > 0 /\ writes = 0 =>
        \A r \in DOMAIN v2 :
            ~ v2[r].deleted =>
                \E i \in Ids : memories[i].state = "live" /\ memories[i].key = v2[r].key
=============================================================================
