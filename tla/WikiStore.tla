------------------------------ MODULE WikiStore ------------------------------
(***************************************************************************)
(* PgWikiRepo (storage/postgres.py): ingest, which ilma_wiki_create and    *)
(* ilma_wiki_update share, and search, as PostgreSQL transactions at READ  *)
(* COMMITTED.  The upsert of the page's row waits for any transaction that *)
(* has written that row, or inserted one with the same slug, and keeps it  *)
(* from others until the end; between the upsert and the commit the old    *)
(* chunks are deleted and the new ones embedded, one HTTP call after the   *)
(* other.                                                                  *)
(*                                                                         *)
(* A body stands for everything an ingest is given: title, text, tags.     *)
(***************************************************************************)
EXTENDS Naturals, Sequences, FiniteSets

CONSTANTS
    Sessions,   \* repository calls, each on a connection of its own
    Slugs,      \* the names of the pages
    NoSlug,     \* the page of a call that ingests none
    Bodies,     \* what a page may say
    NoBody,     \* what a page that is not there says
    Pieces,     \* Pieces[b]: how many chunks chunk_text cuts body b into
    Matching,   \* the bodies that match the query of a search
    Limit       \* Limit[s]: how many pages a statement of s's search returns: top_k * 4

ASSUME WikiAssumption ==
    /\ NoBody \notin Bodies
    /\ NoSlug \notin Slugs
    /\ Pieces \in [Bodies -> Nat \ {0}]
    /\ Matching \subseteq Bodies
    /\ IsFiniteSet(Slugs)
    /\ Limit \in [Sessions -> Nat]

VARIABLES
    pages,    \* the committed rows of ilma.wiki_docs with their chunks
    at,       \* where the session's call stands
    slug,     \* the page it ingests
    body,     \* and what it is to say
    draft,    \* what its transaction has written: version, chunks, pieces done
    reply,    \* the version an ingest returns
    found,    \* the candidates of its search
    answer,   \* the <<slug, version>> pairs its search returns
    log,      \* history: log[sl]: the bodies committed for sl, in that order
    began     \* history: the committed rows when the call began its search

session == <<at, slug, body, draft, reply, found, answer>>
vars == <<pages, at, slug, body, draft, reply, found, answer, log, began>>

Pages == INSTANCE VersionedPages

There == {sl \in Slugs : pages[sl].version > 0}

NoDraft == [version |-> 0, chunks |-> {}, done |-> 0]

Scans == {"scan1", "scan2", "scan3"}
Ended == {"returned", "raised", "unheard", "crashed"}

ChunksOf(b) == (1..Pieces[b]) \X {b}

AllChunks == UNION {ChunksOf(b) : b \in Bodies}

(***************************************************************************)
(* Type invariant.                                                         *)
(***************************************************************************)
TypeOK ==
    /\ pages \in [Slugs -> [version : Nat, body : Bodies \cup {NoBody}, chunks : SUBSET AllChunks]]
    /\ at \in [Sessions -> {"idle", "upsert", "delete", "embed", "commit", "fetch"}
                           \cup Scans \cup Ended]
    /\ slug \in [Sessions -> Slugs \cup {NoSlug}]
    /\ body \in [Sessions -> Bodies \cup {NoBody}]
    /\ draft \in [Sessions -> [version : Nat, chunks : SUBSET AllChunks, done : Nat]]
    /\ reply \in [Sessions -> Nat]
    /\ found \in [Sessions -> SUBSET Slugs]
    /\ answer \in [Sessions -> SUBSET (Slugs \X Nat)]
    /\ log \in [Slugs -> Seq(Bodies)]
    /\ began \in [Sessions -> [Slugs -> [version : Nat, body : Bodies \cup {NoBody},
                                         chunks : SUBSET AllChunks]]]

Init ==
    /\ pages = [sl \in Slugs |-> Pages!Absent]
    /\ at = [s \in Sessions |-> "idle"]
    /\ slug = [s \in Sessions |-> NoSlug]
    /\ body = [s \in Sessions |-> NoBody]
    /\ draft = [s \in Sessions |-> NoDraft]
    /\ reply = [s \in Sessions |-> 0]
    /\ found = [s \in Sessions |-> {}]
    /\ answer = [s \in Sessions |-> {}]
    /\ log = [sl \in Slugs |-> <<>>]
    /\ began = [s \in Sessions |-> pages]

Goto(s, label) == at' = [at EXCEPT ![s] = label]

(* An exception leaves the connection's block: psycopg rolls back. *)
RollBack(s) ==
    /\ Goto(s, "raised")
    /\ UNCHANGED <<pages, slug, body, draft, reply, found, answer, log, began>>

-----------------------------------------------------------------------------
(* ingest                                                                  *)

StartIngest(s, sl, b) ==
    /\ at[s] = "idle"
    /\ slug' = [slug EXCEPT ![s] = sl]
    /\ body' = [body EXCEPT ![s] = b]
    /\ Goto(s, "upsert")
    /\ UNCHANGED <<pages, draft, reply, found, answer, log, began>>

(* Mutant: the page is locked by a row that a dead process leaves behind. *)
HoldsWhenDead(s) == at[s] \in {"delete", "embed", "commit", "crashed"}

(* The transaction of s has written its page's row and is not over. *)
Holds(s) == at[s] \in {"delete", "embed", "commit"}

Locked(sl) == \E s \in Sessions : Holds(s) /\ slug[s] = sl

(* Mutant: the version is read by a SELECT that waits for nobody. *)
UpsertUnlocked(s) ==
    /\ at[s] = "upsert"
    /\ draft' = [draft EXCEPT ![s] =
          [version |-> pages[slug[s]].version + 1, chunks |-> pages[slug[s]].chunks, done |-> 0]]
    /\ Goto(s, "delete")
    /\ UNCHANGED <<pages, slug, body, reply, found, answer, log, began>>

(* INSERT ... ON CONFLICT (slug) DO UPDATE SET version = version + 1: the
   row is read when the lock is there. *)
Upsert(s) ==
    /\ at[s] = "upsert"
    /\ ~ Locked(slug[s])
    /\ draft' = [draft EXCEPT ![s] =
          [version |-> pages[slug[s]].version + 1, chunks |-> pages[slug[s]].chunks, done |-> 0]]
    /\ Goto(s, "delete")
    /\ UNCHANGED <<pages, slug, body, reply, found, answer, log, began>>

(* Mutant: the old chunks are deleted by a transaction of its own. *)
DeleteChunksAtOnce(s) ==
    /\ at[s] = "delete"
    /\ draft' = [draft EXCEPT ![s].chunks = {}]
    /\ pages' = [pages EXCEPT ![slug[s]].chunks = {}]
    /\ Goto(s, "embed")
    /\ UNCHANGED <<slug, body, reply, found, answer, log, began>>

DeleteChunks(s) ==
    /\ at[s] = "delete"
    /\ draft' = [draft EXCEPT ![s].chunks = {}]
    /\ Goto(s, "embed")
    /\ UNCHANGED <<pages, slug, body, reply, found, answer, log, began>>

(* One chunk is embedded and inserted. *)
EmbedPiece(s) ==
    /\ at[s] = "embed"
    /\ LET n == draft[s].done + 1
       IN  /\ draft' = [draft EXCEPT ![s].chunks = @ \cup {<<n, body[s]>>}, ![s].done = n]
           /\ Goto(s, IF n < Pieces[body[s]] THEN "embed" ELSE "commit")
    /\ UNCHANGED <<pages, slug, body, reply, found, answer, log, began>>

Write(s) ==
    /\ pages' = [pages EXCEPT ![slug[s]] =
          [version |-> draft[s].version, body |-> body[s], chunks |-> draft[s].chunks]]
    /\ log' = [log EXCEPT ![slug[s]] = Append(@, body[s])]

CommitIngest(s) ==
    /\ at[s] = "commit"
    /\ Write(s)
    /\ reply' = [reply EXCEPT ![s] = draft[s].version]
    /\ Goto(s, "returned")
    /\ UNCHANGED <<slug, body, draft, found, answer, began>>

(* The transaction is committed and the acknowledgement lost. *)
CommitIngestUnheard(s) ==
    /\ at[s] = "commit"
    /\ Write(s)
    /\ Goto(s, "unheard")
    /\ UNCHANGED <<slug, body, draft, reply, found, answer, began>>

-----------------------------------------------------------------------------
(* search                                                                  *)

(* The query is embedded before a connection is taken. *)
StartSearch(s) ==
    /\ at[s] = "idle"
    /\ began' = [began EXCEPT ![s] = pages]
    /\ Goto(s, "scan1")
    /\ UNCHANGED <<pages, slug, body, draft, reply, found, answer, log>>

(* Mutant: the vectors are asked only for pages that match as text. *)
EligibleAsText(stmt) ==
    {sl \in There :
        pages[sl].body \in Matching /\ (stmt = "scan1" \/ pages[sl].chunks # {})}

(* What the three candidate statements look for: the pages whose text matches,
   those one of whose chunks matches, and those that have a chunk. *)
Eligible(stmt) ==
    {sl \in There :
        /\ stmt \in {"scan1", "scan2"} => pages[sl].body \in Matching
        /\ stmt \in {"scan2", "scan3"} => pages[sl].chunks # {}}

(* ORDER BY score LIMIT: all of it, or as much as the limit allows. *)
Selections(s, stmt) ==
    {rows \in SUBSET Eligible(stmt) :
        \/ rows = Eligible(stmt) /\ Cardinality(rows) <= Limit[s]
        \/ Cardinality(rows) = Limit[s]}

NextStatement == [scan1 |-> "scan2", scan2 |-> "scan3", scan3 |-> "fetch"]

Scan(s) ==
    /\ at[s] \in Scans
    /\ \E rows \in Selections(s, at[s]) : found' = [found EXCEPT ![s] = @ \cup rows]
    /\ Goto(s, NextStatement[at[s]])
    /\ UNCHANGED <<pages, slug, body, draft, reply, answer, log, began>>

(* The best of the candidates are read again: as they are now. *)
Fetch(s) ==
    /\ at[s] = "fetch"
    /\ \E top \in SUBSET found[s] :
          /\ found[s] # {} => top # {}
          /\ answer' = [answer EXCEPT ![s] = {<<sl, pages[sl].version>> : sl \in top}]
    /\ Goto(s, "returned")
    /\ UNCHANGED <<pages, slug, body, draft, reply, found, log, began>>

-----------------------------------------------------------------------------
(* The embedder times out, the connection breaks, a commit is refused; an
   ingest without a slug or a title raises before its first statement. *)
Fail(s) ==
    /\ at[s] \notin Ended \cup {"idle"}
    /\ RollBack(s)

(* The process dies and the server rolls its transaction back. *)
Crash(s) ==
    /\ at[s] \notin Ended
    /\ Goto(s, "crashed")
    /\ UNCHANGED <<pages, slug, body, draft, reply, found, answer, log, began>>

Start(s) ==
    \/ \E sl \in Slugs, b \in Bodies : StartIngest(s, sl, b)
    \/ StartSearch(s)

Run(s) ==
    \/ Upsert(s)
    \/ DeleteChunks(s)
    \/ EmbedPiece(s)
    \/ CommitIngest(s)
    \/ CommitIngestUnheard(s)
    \/ Scan(s)
    \/ Fetch(s)

Next == \E s \in Sessions : Start(s) \/ Run(s) \/ Fail(s) \/ Crash(s)

Spec == Init /\ [][Next]_vars

(* A call that was started runs on when it can: the embedder answers, or
   times out, and a row is locked by a transaction that runs on itself.  No
   failure is counted on; there is no limit on how long a lock is waited for. *)
FairSpec == Spec /\ \A s \in Sessions : WF_vars(Run(s))

-----------------------------------------------------------------------------
(* However many calls ingest a page at once, each change of it is a version
   of its own: the page is at the version that counts its changes and says
   what the last of them wrote, and the version an ingest returns is the one
   under which its body was stored. *)
VersionsCountChanges ==
    /\ \A sl \in There :
          pages[sl].version = Len(log[sl]) /\ pages[sl].body = log[sl][Len(log[sl])]
    /\ \A s \in Sessions :
          reply[s] # 0 => reply[s] \in DOMAIN log[slug[s]] /\ log[slug[s]][reply[s]] = body[s]

(* A page changes as a whole: at no moment, whichever embedding fails and
   whoever crashes, do readers see a page with chunks of an older body, with
   a part of its chunks or with none, or a version that did not follow. *)
ImplementsVersionedPages == Pages!Spec

(* A search over several statements misses no page that was there when it
   began, unless it has as many candidates as one statement may return, and
   returns each in a version that is no older. *)
SearchSeesPages ==
    \A s \in Sessions :
        /\ at[s] = "fetch" =>
              \/ {sl \in Slugs : began[s][sl].version > 0} \subseteq found[s]
              \/ Cardinality(found[s]) >= Limit[s]
        /\ \A a \in answer[s] : a[2] >= began[s][a[1]].version /\ a[2] \in DOMAIN log[a[1]]

(* A call that was started ends: whoever waits for the row of a page gets
   it, also when the process that had it dies. *)
EveryCallEnds ==
    \A s \in Sessions : at[s] # "idle" ~> at[s] \in Ended
=============================================================================
