----------------------------- MODULE MemoryStore -----------------------------
(***************************************************************************)
(* PgMemoryRepo (storage/postgres.py): remember, forget and search as      *)
(* PostgreSQL transactions at READ COMMITTED.  Every statement reads what  *)
(* is committed when it runs; what a transaction inserted is private to it *)
(* until its commit; a row that it updated stays locked until it ends.     *)
(*                                                                         *)
(* A session runs one repository call on one pooled connection.  A memory  *)
(* is known by its key, the (content, source) pair the duplicate check     *)
(* compares.  The embedder is an HTTP service that may fail at every use.  *)
(***************************************************************************)
EXTENDS Naturals, FiniteSets

CONSTANTS
    Sessions,   \* repository calls, each on a connection of its own
    Keys,       \* (content, source) pairs
    NoKey,      \* the key of an id no row has
    Chunks,     \* Chunks[k]: how many chunks chunk_text cuts k's content into
    Short,      \* the keys of at most 2048 characters: they get a parent vector
    Matching,   \* the keys whose text matches the query of a search
    MaxId,      \* bound: the ids the sequence hands out
    TopK,       \* how many results a search may return
    Limit       \* how many memories each of its statements does: top_k * 4

ASSUME StoreAssumption ==
    /\ NoKey \notin Keys
    /\ Chunks \in [Keys -> Nat \ {0}]
    /\ Short \subseteq Keys
    /\ Matching \subseteq Keys
    /\ MaxId \in Nat
    /\ TopK \in Nat \ {0}
    /\ Limit \in Nat /\ Limit >= TopK

VARIABLES
    memories,   \* the committed rows of ilma.memories with their chunks, by id
    nextId,     \* the bigserial sequence: not transactional, never goes back
    at,         \* where the session's call stands
    key,        \* the key it remembers
    mid,        \* the id it inserts or forgets
    draft,      \* the private state of the row it inserts
    result,     \* what it returns: an id or 0 (remember), 1 or 0 (forget)
    found,      \* the candidate ids of its search
    answer,     \* the <<id, deleted>> pairs its search returns
    seen        \* history: the committed rows when the call first read

store == <<memories, nextId>>
session == <<at, key, mid, draft, result, found, answer, seen>>
vars == <<memories, nextId, at, key, mid, draft, result, found, answer, seen>>

Ids == 1..MaxId

NoRow == [state |-> "absent", key |-> NoKey, chunks |-> 0, vector |-> FALSE]

Row == [state : {"absent", "live", "deleted"}, key : Keys \cup {NoKey},
        chunks : Nat, vector : BOOLEAN]

Live == {i \in Ids : memories[i].state = "live"}

(* An exception reaches the caller as "raised" when the transaction was
   rolled back and as "unheard" when it is committed all the same. *)
Ended == {"returned", "raised", "unheard", "crashed"}

Scans == {"scan1", "scan2", "scan3", "scan4"}

(***************************************************************************)
(* Type invariant.                                                         *)
(***************************************************************************)
TypeOK ==
    /\ memories \in [Ids -> Row]
    /\ nextId \in 1..(MaxId + 1)
    /\ at \in [Sessions -> {"idle", "check", "insert", "embed", "vector", "commit",
                            "update", "locked", "fetch"} \cup Scans \cup Ended]
    /\ key \in [Sessions -> Keys \cup {NoKey}]
    /\ mid \in [Sessions -> 0..MaxId]
    /\ draft \in [Sessions -> [chunks : Nat, vector : BOOLEAN]]
    /\ result \in [Sessions -> 0..(MaxId + 1)]
    /\ found \in [Sessions -> SUBSET Ids]
    /\ answer \in [Sessions -> SUBSET (Ids \X BOOLEAN)]
    /\ seen \in [Sessions -> [Ids -> Row]]

Init ==
    /\ memories = [i \in Ids |-> NoRow]
    /\ nextId = 1
    /\ at = [s \in Sessions |-> "idle"]
    /\ key = [s \in Sessions |-> NoKey]
    /\ mid = [s \in Sessions |-> 0]
    /\ draft = [s \in Sessions |-> [chunks |-> 0, vector |-> FALSE]]
    /\ result = [s \in Sessions |-> 0]
    /\ found = [s \in Sessions |-> {}]
    /\ answer = [s \in Sessions |-> {}]
    /\ seen = [s \in Sessions |-> [i \in Ids |-> NoRow]]

Goto(s, label) == at' = [at EXCEPT ![s] = label]

Returns(s, value) ==
    /\ result' = [result EXCEPT ![s] = value]
    /\ Goto(s, "returned")

Remembers(s) == key[s] # NoKey

(* An exception leaves the connection's block: psycopg rolls back. *)
RollBack(s) ==
    /\ Goto(s, "raised")
    /\ UNCHANGED <<store, key, mid, draft, result, found, answer, seen>>

-----------------------------------------------------------------------------
(* remember                                                                *)

StartRemember(s, k) ==
    /\ at[s] = "idle"
    /\ key' = [key EXCEPT ![s] = k]
    /\ Goto(s, "check")
    /\ UNCHANGED <<store, mid, draft, result, found, answer, seen>>

(* Mutants: no duplicate check; one that counts forgotten memories too. *)
CheckNothing(s) ==
    /\ at[s] = "check"
    /\ seen' = [seen EXCEPT ![s] = memories]
    /\ Goto(s, "insert")
    /\ UNCHANGED <<store, key, mid, draft, result, found, answer>>

CheckDeletedToo(s) ==
    /\ at[s] = "check"
    /\ seen' = [seen EXCEPT ![s] = memories]
    /\ IF \E i \in Ids : memories[i].key = key[s]
       THEN Returns(s, 0)
       ELSE Goto(s, "insert") /\ UNCHANGED result
    /\ UNCHANGED <<store, key, mid, draft, found, answer>>

(* The duplicate check reads committed rows only: no lock is taken. *)
CheckDuplicate(s) ==
    /\ at[s] = "check"
    /\ seen' = [seen EXCEPT ![s] = memories]
    /\ \/ /\ \E i \in Live : memories[i].key = key[s]
          /\ Returns(s, 0)
       \/ /\ ~ \E i \in Live : memories[i].key = key[s]
          /\ Goto(s, "insert")
          /\ UNCHANGED result
    /\ UNCHANGED <<store, key, mid, draft, found, answer>>

InsertRow(s) ==
    /\ at[s] = "insert"
    /\ nextId \in Ids
    /\ mid' = [mid EXCEPT ![s] = nextId]
    /\ nextId' = nextId + 1
    /\ Goto(s, "embed")
    /\ UNCHANGED <<memories, key, draft, result, found, answer, seen>>

(* Mutant: a chunk that cannot be embedded is left out. *)
EmbedChunkOrSkip(s) ==
    /\ at[s] = "embed"
    /\ \/ draft' = [draft EXCEPT ![s].chunks = @ + 1]
       \/ UNCHANGED draft
    /\ Goto(s, IF key[s] \in Short THEN "vector" ELSE "commit")
    /\ UNCHANGED <<store, key, mid, result, found, answer, seen>>

(* One chunk is embedded and inserted; after the last one a short memory is
   embedded as a whole. *)
EmbedChunk(s) ==
    /\ at[s] = "embed"
    /\ draft[s].chunks < Chunks[key[s]]
    /\ draft' = [draft EXCEPT ![s].chunks = @ + 1]
    /\ Goto(s, IF draft[s].chunks + 1 < Chunks[key[s]] THEN "embed"
               ELSE IF key[s] \in Short THEN "vector" ELSE "commit")
    /\ UNCHANGED <<store, key, mid, result, found, answer, seen>>

EmbedParent(s) ==
    /\ at[s] = "vector"
    /\ draft' = [draft EXCEPT ![s].vector = TRUE]
    /\ Goto(s, "commit")
    /\ UNCHANGED <<store, key, mid, result, found, answer, seen>>

Insert(s) ==
    memories' = [memories EXCEPT ![mid[s]] =
        [state |-> "live", key |-> key[s],
         chunks |-> draft[s].chunks, vector |-> draft[s].vector]]

CommitRemember(s) ==
    /\ at[s] = "commit"
    /\ Insert(s)
    /\ Returns(s, mid[s])
    /\ UNCHANGED <<nextId, key, mid, draft, found, answer, seen>>

(* The transaction is committed and the acknowledgement lost. *)
CommitRememberUnheard(s) ==
    /\ at[s] = "commit"
    /\ Insert(s)
    /\ Goto(s, "unheard")
    /\ UNCHANGED <<nextId, key, mid, draft, result, found, answer, seen>>

-----------------------------------------------------------------------------
(* forget                                                                  *)

(* An id that is not positive raises before a connection is taken. *)
StartForget(s, i) ==
    /\ at[s] = "idle"
    /\ mid' = [mid EXCEPT ![s] = i]
    /\ Goto(s, IF i \in Ids THEN "update" ELSE "raised")
    /\ UNCHANGED <<store, key, draft, result, found, answer, seen>>

Locked(i) == \E s \in Sessions : at[s] = "locked" /\ mid[s] = i

(* Mutant: SELECT and then UPDATE by id, with no row lock in between. *)
UpdateWithoutLock(s) ==
    /\ at[s] = "update"
    /\ seen' = [seen EXCEPT ![s] = memories]
    /\ IF mid[s] \in Live
       THEN Goto(s, "locked") /\ UNCHANGED result
       ELSE Returns(s, 0)
    /\ UNCHANGED <<store, key, mid, draft, found, answer>>

(* UPDATE ... WHERE deleted_at IS NULL: waits for whoever has the row
   locked, and then looks at what that transaction left. *)
UpdateForget(s) ==
    /\ at[s] = "update"
    /\ ~ Locked(mid[s])
    /\ seen' = [seen EXCEPT ![s] = memories]
    /\ \/ /\ mid[s] \in Live
          /\ Goto(s, "locked")
          /\ UNCHANGED result
       \/ /\ mid[s] \notin Live
          /\ Returns(s, 0)
    /\ UNCHANGED <<store, key, mid, draft, found, answer>>

Delete(s) == memories' = [memories EXCEPT ![mid[s]].state = "deleted"]

(* Mutant: the block is left without a commit. *)
CommitForgotten(s) ==
    /\ at[s] = "locked"
    /\ Returns(s, 1)
    /\ UNCHANGED <<store, key, mid, draft, found, answer, seen>>

CommitForget(s) ==
    /\ at[s] = "locked"
    /\ Delete(s)
    /\ Returns(s, 1)
    /\ UNCHANGED <<nextId, key, mid, draft, found, answer, seen>>

CommitForgetUnheard(s) ==
    /\ at[s] = "locked"
    /\ Delete(s)
    /\ Goto(s, "unheard")
    /\ UNCHANGED <<nextId, key, mid, draft, result, found, answer, seen>>

-----------------------------------------------------------------------------
(* search                                                                  *)

(* The query is embedded before a connection is taken. *)
StartSearch(s) ==
    /\ at[s] = "idle"
    /\ seen' = [seen EXCEPT ![s] = memories]
    /\ Goto(s, "scan1")
    /\ UNCHANGED <<store, key, mid, draft, result, found, answer>>

(* Mutant: the last statement lost its join with the live memories. *)
EligibleUnjoined(stmt) ==
    CASE stmt = "scan1" -> {i \in Live : memories[i].key \in Matching}
      [] stmt = "scan2" -> {i \in Live : memories[i].key \in Matching /\ memories[i].chunks > 0}
      [] stmt = "scan3" -> {i \in Live : memories[i].vector}
      [] stmt = "scan4" -> {i \in Ids : memories[i].chunks > 0}

(* What the four candidate statements look for among the live rows: parent
   text, chunk text, parent vectors, chunk vectors. *)
Eligible(stmt) ==
    CASE stmt = "scan1" -> {i \in Live : memories[i].key \in Matching}
      [] stmt = "scan2" -> {i \in Live : memories[i].key \in Matching /\ memories[i].chunks > 0}
      [] stmt = "scan3" -> {i \in Live : memories[i].vector}
      [] stmt = "scan4" -> {i \in Live : memories[i].chunks > 0}

(* ORDER BY score LIMIT: all of it, or as much as the limit allows. *)
Selections(stmt) ==
    {rows \in SUBSET Eligible(stmt) :
        \/ rows = Eligible(stmt) /\ Cardinality(rows) <= Limit
        \/ Cardinality(rows) = Limit}

NextStatement == [scan1 |-> "scan2", scan2 |-> "scan3", scan3 |-> "scan4", scan4 |-> "fetch"]

Scan(s) ==
    /\ at[s] \in Scans
    /\ \E rows \in Selections(at[s]) : found' = [found EXCEPT ![s] = @ \cup rows]
    /\ Goto(s, NextStatement[at[s]])
    /\ UNCHANGED <<store, key, mid, draft, result, answer, seen>>

(* The best TopK candidates with a positive score are read again, this time
   with no filter: a row deleted meanwhile is returned, flagged. *)
Fetch(s) ==
    /\ at[s] = "fetch"
    /\ \E top \in SUBSET found[s] :
          /\ Cardinality(top) <= TopK
          /\ answer' = [answer EXCEPT ![s] =
                {<<i, memories[i].state = "deleted">> : i \in top}]
    /\ Goto(s, "returned")
    /\ UNCHANGED <<store, key, mid, draft, result, found, seen>>

-----------------------------------------------------------------------------

(* The embedder times out, the connection breaks, a commit is refused; a
   remember with arguments that are not valid raises at once. *)
Fail(s) ==
    /\ at[s] \notin Ended \cup {"idle"}
    /\ RollBack(s)

(* The process dies and the server rolls its transaction back. *)
Crash(s) ==
    /\ at[s] \notin Ended
    /\ Goto(s, "crashed")
    /\ UNCHANGED <<store, key, mid, draft, result, found, answer, seen>>

Start(s) ==
    \/ \E k \in Keys : StartRemember(s, k)
    \/ \E i \in 0..MaxId : StartForget(s, i)
    \/ StartSearch(s)

Run(s) ==
    \/ CheckDuplicate(s)
    \/ InsertRow(s)
    \/ EmbedChunk(s)
    \/ EmbedParent(s)
    \/ CommitRemember(s)
    \/ CommitRememberUnheard(s)
    \/ UpdateForget(s)
    \/ CommitForget(s)
    \/ CommitForgetUnheard(s)
    \/ Scan(s)
    \/ Fetch(s)

Next == \E s \in Sessions : Start(s) \/ Run(s) \/ Fail(s) \/ Crash(s)

Spec == Init /\ [][Next]_vars

-----------------------------------------------------------------------------
(* All or nothing: a committed memory has every chunk of its content and,
   if it is short, its parent vector, whichever embedding failed and whoever
   crashed while it was being written. *)
AllOrNothing ==
    \A i \in Ids :
        memories[i].state # "absent" =>
            /\ memories[i].chunks = Chunks[memories[i].key]
            /\ memories[i].vector <=> memories[i].key \in Short

(* Duplicates come from overlapping calls only: of two live rows with one
   key, neither was committed and live when the other's call looked. *)
OnlyRacesDuplicate ==
    \A s \in Sessions :
        Remembers(s) /\ mid[s] \in Live =>
            \A i \in Live \ {mid[s]} :
                memories[i].key = key[s] => seen[s][i].state # "live"

(* remember returns 0 only for a key that was live when the call looked,
   and another id only for a row it committed under that key. *)
ReturnsTellTheTruth ==
    \A s \in Sessions :
        at[s] = "returned" /\ Remembers(s) =>
            IF result[s] = 0
            THEN \E i \in Ids : seen[s][i].state = "live" /\ seen[s][i].key = key[s]
            ELSE memories[result[s]].state # "absent" /\ memories[result[s]].key = key[s]

(* s has committed the deletion of i, whether it was told so or not. *)
Deleted(s, i) ==
    /\ ~ Remembers(s) /\ mid[s] = i
    /\ at[s] = "unheard" \/ (at[s] = "returned" /\ result[s] = 1)

(* However many calls forget a memory at once, one of them deletes it and no
   two do; and whoever is answered is answered 1 if the memory was live when
   its UPDATE had the row, and 0 if it was not. *)
OneForgetWins ==
    \A i \in Ids :
        /\ memories[i].state = "deleted" <=> \E s \in Sessions : Deleted(s, i)
        /\ \A s, t \in Sessions : Deleted(s, i) /\ Deleted(t, i) => s = t
        /\ \A s \in Sessions :
              ~ Remembers(s) /\ mid[s] = i /\ at[s] \in {"returned", "unheard"} =>
                 (Deleted(s, i) <=> seen[s][i].state = "live")

(* A search over several statements is as good as one: it has as candidates
   every memory that was live when it began and still is, or as many as one
   statement may return, and none that was already deleted when it began; a
   result is flagged deleted only if it was deleted while the search ran. *)
SearchIsCurrent ==
    \A s \in Sessions :
        /\ at[s] = "fetch" =>
              \A i \in Ids :
                 /\ seen[s][i].state = "live" /\ i \in Live =>
                       i \in found[s] \/ Cardinality(found[s]) >= Limit
                 /\ seen[s][i].state = "deleted" => i \notin found[s]
        /\ \A i \in Ids : <<i, TRUE>> \in answer[s] =>
              seen[s][i].state # "deleted" /\ memories[i].state = "deleted"

(* A memory is deleted once and stays deleted with its key, its chunks and
   its vector: no call changes a committed row in any other way. *)
RowsOnlyAge ==
    [][\A i \in Ids :
          memories[i].state # "absent" =>
              \/ memories'[i] = memories[i]
              \/ /\ memories[i].state = "live"
                 /\ memories'[i] = [memories[i] EXCEPT !.state = "deleted"]]_vars
=============================================================================
