-------------------------- MODULE TransactionProofs --------------------------
(***************************************************************************)
(* The two protocols whose subject is the order of commits: AuditedCall,   *)
(* for any set of calls and any number of transactions in a body, and      *)
(* Migration, for any v2 tables, any runs and any writes beside them.      *)
(* They share no state.                                                    *)
(***************************************************************************)
EXTENDS AuditedCall, Migration, WellFoundedInduction, FiniteSetTheorems, TLAPS

-----------------------------------------------------------------------------
(* AuditedCall.                                                            *)

(* What relates the place a call has reached to its row, its effects and its
   outcome.  EffectsAreLogged is not inductive alone: nothing in it says
   that a call whose body runs has its row, nor that no body runs after the
   row was marked. *)
Placed(c) ==
    /\ c \in Writes /\ pc[c] \in {"body", "finish"} => audit[c] = "pending"
    /\ pc[c] = "finish" => c \in Writes
    /\ pc[c] = "idle" => audit[c] = "none" /\ effects[c] = 0
    /\ pc[c] \in {"idle", "body"} => outcome[c] = "none"
    /\ pc[c] \in {"finish", "record", "done"} => outcome[c] # "none"
    /\ pc[c] = "finish" => outcome[c] \in {"ok", "raised"}
    /\ outcome[c] = "none" => audit[c] \in {"none", "pending"} /\ observed[c] = "none"
    /\ outcome[c] = "ok" => effects[c] = Txns[c]
    /\ outcome[c] = "refused" => effects[c] = 0
    /\ effects[c] <= Txns[c]

IInv ==
    /\ TypeOK
    /\ EffectsAreLogged
    /\ VerdictIsTruthful
    /\ \A c \in Calls : Placed(c)

(* No call is under way in the initial state, so nothing is there to relate. *)
LEMMA InitIInv == Init => IInv
BY CallsAssumption
   DEF Init, IInv, TypeOK, EffectsAreLogged, VerdictIsTruthful, Placed, Terminal

(* No handler of call() and no crash breaks the invariant, action by action. *)
LEMMA StepIInv == ASSUME IInv, NEW c \in Calls, Step(c) \/ Crash(c) PROVE IInv'
<1> USE CallsAssumption
    DEF IInv, TypeOK, EffectsAreLogged, VerdictIsTruthful, Placed, Terminal, Goto, AfterBody
<1>1. CASE BeginRead(c)
  BY <1>1 DEF BeginRead
<1>2. CASE BeginWrite(c)
  BY <1>2 DEF BeginWrite
<1>3. CASE BeginRefused(c)
  BY <1>3 DEF BeginRefused
<1>4. CASE CommitTxn(c)
  BY <1>4 DEF CommitTxn
<1>5. CASE BodyRaises(c)
  BY <1>5 DEF BodyRaises
<1>6. CASE BodyReturns(c)
  BY <1>6 DEF BodyReturns
<1>7. CASE Finish(c)
  BY <1>7 DEF Finish, Mark
<1>8. CASE Record(c)
  BY <1>8 DEF Record
<1>9. CASE Crash(c)
  BY <1>9 DEF Crash
<1> QED
  BY <1>1, <1>2, <1>3, <1>4, <1>5, <1>6, <1>7, <1>8, <1>9 DEF Step

(* The invariant survives every step and every stutter of the calls. *)
LEMMA Inductive == IInv /\ [Next]_vars => IInv'
<1> SUFFICES ASSUME IInv, [Next]_vars PROVE IInv'
  OBVIOUS
<1>1. CASE Next
  BY <1>1, StepIInv DEF Next
<1>2. CASE UNCHANGED vars
  BY <1>2 DEF vars, IInv, TypeOK, EffectsAreLogged, VerdictIsTruthful, Placed
<1> QED
  BY <1>1, <1>2

(* The strengthened invariant holds of every reachable state. *)
THEOREM Invariance == Spec => []IInv
BY InitIInv, Inductive, PTL DEF Spec

(* Every variable of IlmaService.call keeps its type, for all constants. *)
THEOREM TypeCorrect == Spec => []TypeOK
BY Invariance, PTL DEF IInv

(* Write-ahead: no write tool has an effect without its audit row. *)
THEOREM WriteAheadHolds == Spec => []EffectsAreLogged
BY Invariance, PTL DEF IInv

(* The verdict in the audit row and the level of the observation agree with
   what the body did, whatever fails. *)
THEOREM VerdictHolds == Spec => []VerdictIsTruthful
BY Invariance, PTL DEF IInv

-----------------------------------------------------------------------------
(* The refinement of WriteAhead.  Only a write call moves its log entry.   *)

(* Without audit rows and effects the abstract log is in its initial state. *)
LEMMA InitMaps == Init => WA!Init
BY CallsAssumption DEF Init, WA!Init

(* Every step of a call moves its log entry as WriteAhead allows, or not at
   all: begin opens it, a commit of the body applies, finish closes. *)
LEMMA StepMaps ==
    ASSUME IInv, NEW c \in Calls, Step(c) \/ Crash(c)
    PROVE  [WA!Next]_(WA!vars)
<1> USE CallsAssumption DEF IInv, TypeOK, Placed, Goto, AfterBody
<1> DEFINE log == [o \in Writes |-> audit[o]]
           durable == [o \in Writes |-> effects[o]]
<1>1. ASSUME UNCHANGED <<audit, effects>> PROVE UNCHANGED WA!vars
  BY <1>1 DEF WA!vars
<1>2. ASSUME c \in Writes, audit[c] = "none",
             audit' = [audit EXCEPT ![c] = "pending"], UNCHANGED effects
      PROVE  WA!Next
  <2>1. log' = [log EXCEPT ![c] = "pending"] /\ durable' = durable
    BY <1>2
  <2>2. WA!Open(c)
    BY <1>2, <2>1 DEF WA!Open
  <2> QED
    BY <1>2, <2>2 DEF WA!Next
<1>3. ASSUME effects[c] < Txns[c], pc[c] = "body",
             effects' = [effects EXCEPT ![c] = @ + 1], UNCHANGED audit
      PROVE  WA!Next
  <2>1. c \in Writes
    BY <1>3
  <2>2. durable' = [durable EXCEPT ![c] = @ + 1] /\ log' = log
    BY <1>3, <2>1
  <2>3. WA!Apply(c)
    BY <1>3, <2>1, <2>2 DEF WA!Apply
  <2> QED
    BY <2>1, <2>3 DEF WA!Next
<1>4. ASSUME c \in Writes, audit[c] = "pending", NEW v \in WA!Verdict,
              v = "succeeded" => effects[c] = Txns[c],
              audit' = [audit EXCEPT ![c] = v], UNCHANGED effects
       PROVE  WA!Next
  <2>1. log' = [log EXCEPT ![c] = v] /\ durable' = durable
    BY <1>4 DEF WA!Verdict
  <2>2. WA!Close(c, v)
    BY <1>4, <2>1 DEF WA!Close
  <2> QED
    BY <1>4, <2>2 DEF WA!Next
<1>5. CASE BeginRead(c)
  BY <1>1, <1>5 DEF BeginRead
<1>6. CASE BeginWrite(c)
  BY <1>2, <1>6 DEF BeginWrite
<1>7. CASE BeginRefused(c)
  <2>1. CASE UNCHANGED audit
    BY <1>1, <1>7, <2>1 DEF BeginRefused
  <2>2. CASE audit' = [audit EXCEPT ![c] = "pending"]
    BY <1>2, <1>7, <2>2 DEF BeginRefused
  <2>3. audit[c] = "none"
    BY <1>7 DEF BeginRefused
  <2>4. UNCHANGED audit \/ audit' = [audit EXCEPT ![c] = "pending"]
    <3>1. PICK row \in {"none", "pending"} : audit' = [audit EXCEPT ![c] = row]
      BY <1>7 DEF BeginRefused
    <3>2. ASSUME row = "none" PROVE UNCHANGED audit
      BY <2>3, <3>1, <3>2
    <3> QED
      BY <3>1, <3>2
  <2> QED
    BY <2>1, <2>2, <2>4
<1>8. CASE CommitTxn(c)
  BY <1>3, <1>8 DEF CommitTxn
<1>9. CASE BodyRaises(c)
  <2>1. CASE UNCHANGED effects
    BY <1>1, <1>9, <2>1 DEF BodyRaises
  <2>2. CASE effects[c] < Txns[c] /\ effects' = [effects EXCEPT ![c] = @ + 1]
    BY <1>3, <1>9, <2>2 DEF BodyRaises
  <2> QED
    BY <1>9, <2>1, <2>2 DEF BodyRaises
<1>10. CASE BodyReturns(c)
  BY <1>1, <1>10 DEF BodyReturns
<1>11. CASE Finish(c)
  <2> DEFINE verdict == IF outcome[c] = "ok" THEN "succeeded" ELSE "failed"
  <2>1. CASE UNCHANGED audit
    BY <1>1, <1>11, <2>1 DEF Finish, Mark
  <2>2. CASE audit' = [audit EXCEPT ![c] = verdict] /\ c \in Writes
    <3>1. verdict \in WA!Verdict /\ (verdict = "succeeded" => effects[c] = Txns[c])
      BY DEF IInv, WA!Verdict
    <3> QED
      BY <1>11, <1>4, <2>2, <3>1 DEF Finish, Mark
  <2>3. c \in Writes
    BY <1>11 DEF Finish, Mark
  <2> QED
    BY <1>11, <2>1, <2>2, <2>3 DEF Finish, Mark
<1>12. CASE Record(c)
  BY <1>1, <1>12 DEF Record
<1>13. CASE Crash(c)
  <2>1. CASE UNCHANGED audit
    BY <1>1, <1>13, <2>1 DEF Crash
  <2>2. CASE pc[c] = "idle" /\ c \in Writes /\ audit' = [audit EXCEPT ![c] = "pending"]
    BY <1>2, <1>13, <2>2 DEF Crash
  <2> QED
    BY <1>13, <2>1, <2>2 DEF Crash
<1> QED
  BY <1>5, <1>6, <1>7, <1>8, <1>9, <1>10, <1>11, <1>12, <1>13 DEF Step

(* IlmaService.call over PgAuditLogger implements the abstract write-ahead
   log, for any calls and any number of transactions in a body. *)
THEOREM Refinement == Spec => ImplementsWriteAhead
<1>1. ASSUME IInv, [Next]_vars PROVE [WA!Next]_(WA!vars)
  <2>1. CASE Next
    BY <1>1, <2>1, StepMaps DEF Next
  <2>2. CASE UNCHANGED vars
    BY <2>2 DEF vars, WA!vars
  <2> QED
    BY <1>1, <2>1, <2>2
<1> QED
  BY InitMaps, Invariance, <1>1, PTL DEF Spec, ImplementsWriteAhead, WA!Spec

-----------------------------------------------------------------------------
(* Migration: the invariant.                                               *)

MemoryRow == [state : {"absent", "live", "deleted"}, key : Keys \cup {NoKey},
              origin : Nat, chunks : SUBSET (Nat \X Nat)]
PageRow == [body : Bodies \cup {"none"}, version : Nat, chunks : SUBSET (Nat \X Bodies)]
TaskRow == [there : BOOLEAN, parent : {"none", "v2", "user"}]

Places == {"idle", "memory", "chunks", "wiki", "pieces", "kanban", "commit"} \cup Tables

(* The surfaces that a run has behind it when it is at the given place. *)
PastMemory == Places \ {"idle", "memory"}
PastChunks == PastMemory \ {"chunks"}
PastWiki == PastChunks \ {"wiki"}
PastPieces == PastWiki \ {"pieces"}
PastJournal == PastPieces \ {"journal"}
PastSkills == PastJournal \ {"skills"}
PastKanban == {"observations", "sessions", "messages", "commit"}
PastSessions == {"messages", "commit"}
PastMessages == {"commit"}

PastTable(t) ==
    CASE t = "journal" -> PastJournal
      [] t = "skills" -> PastSkills
      [] t = "sessions" -> PastSessions
      [] t = "messages" -> PastMessages

(* The fields of a transaction, but for its counters. *)
TxTyped ==
    /\ tx = [map |-> tx.map, seen |-> tx.seen, rows |-> tx.rows, chunks |-> tx.chunks,
             page |-> tx.page, task |-> tx.task, copies |-> tx.copies,
             inserted |-> tx.inserted, skipped |-> tx.skipped, conflicts |-> tx.conflicts]
    /\ tx.map \in [DOMAIN v2 -> Ids \cup {0}]
    /\ tx.seen \in SUBSET Keys
    /\ tx.rows \in [Ids -> MemoryRow]
    /\ tx.chunks \in [Ids -> SUBSET (Nat \X Nat)]
    /\ tx.page \in PageRow
    /\ tx.task \in TaskRow
    /\ tx.copies \in [Tables -> Nat]

Typed ==
    /\ v2 \in Sources
    /\ memories \in [Ids -> MemoryRow]
    /\ page \in PageRow
    /\ task \in TaskRow
    /\ copies \in [Tables -> Nat]
    /\ at \in Places
    /\ next \in Nat
    /\ at = "memory" \/ at = "chunks" => next \in DOMAIN v2
    /\ TxTyped
    /\ runs \in 0..MaxRuns /\ commits \in 0..runs /\ writes \in 0..MaxWrites
    /\ at # "idle" => commits < runs
    /\ at = "idle" => tx = NoTx
    /\ calm \in BOOLEAN /\ quiet \in BOOLEAN

(* A row says what it was imported from, and an absent one says nothing. *)
Truthful(row) ==
    /\ row.state = "absent" => row = NoRow
    /\ row.state # "absent" => row.key \in Keys
    /\ row.origin # 0 => row.origin \in DOMAIN v2 /\ row.key = v2[row.origin].key

(* The rows of the transaction are on ids that nobody else has. *)
RowsApart ==
    \A i \in Ids :
        /\ Truthful(memories[i]) /\ Truthful(tx.rows[i])
        /\ tx.rows[i] # NoRow => memories[i] = NoRow
        /\ tx.rows[i] # NoRow => tx.rows[i].origin # 0 /\ tx.rows[i].chunks = {}
        /\ tx.chunks[i] # {} => Visible(i) # NoRow

(* One row for a v2 row, the transaction's own included. *)
OneEach ==
    \A i, j \in Ids :
        Visible(i).origin # 0 /\ Visible(i).origin = Visible(j).origin => i = j

Indexed(chunks) == \A c, d \in chunks : c[1] = d[1] => c = d

(* No chunk has the index of another one of its row. *)
ChunksApart ==
    /\ \A i \in Ids : Indexed(VisibleChunks(i))
    /\ Indexed(page.chunks) /\ Indexed(tx.page.chunks)

(* The content of v2 row r is there for the transaction. *)
Known(r) == \E i \in Ids : Visible(i).origin = r \/ Visible(i).key = v2[r].key

Behind(r) == at \in PastMemory \/ (at = "memory" /\ r < next)
ChunksBehind(r) == at \in PastChunks \/ (at = "chunks" /\ r < next)

Progress ==
    /\ \A r \in DOMAIN v2 : Behind(r) => Known(r) /\ v2[r].key \in tx.seen
    /\ \A k \in tx.seen : \E i \in Ids : Visible(i).key = k
    /\ \A k \in tx.seen : \E r \in DOMAIN v2 : Behind(r) /\ v2[r].key = k
    /\ \A r \in DOMAIN v2 : tx.map[r] # 0 => Behind(r) /\ Visible(tx.map[r]) # NoRow

Covers(chunks, n) == \A m \in 1..n : \E c \in chunks : c[1] = m

(* A row of v2 that no row of ilma stands for shares its key with one
   before it. *)
Repeats(r) == \E q \in DOMAIN v2 : q < r /\ v2[q].key = v2[r].key

(* What a run that no user disturbs has seen to. *)
CalmRun ==
    \A r \in DOMAIN v2 :
        /\ Behind(r) => IF Existing(r) = {} THEN Repeats(r) /\ tx.map[r] = 0
                        ELSE tx.map[r] = Min(Existing(r))
        /\ ChunksBehind(r) /\ tx.map[r] # 0 =>
               Covers(VisibleChunks(tx.map[r]), v2[r].chunks)

(* What any run has seen to on the surfaces that have one row. *)
Surfaces ==
    /\ at \in PastWiki => tx.page.body = "v2"
    /\ at \notin PastWiki => tx.page = NoPage
    /\ at \in PastPieces => Covers(tx.page.chunks, Pieces["v2"])
    /\ at \in PastKanban => tx.task = [there |-> TRUE, parent |-> "v2"]
    /\ at \notin PastKanban => tx.task = NoTask
    /\ \A t \in Recognised : at \in PastTable(t) => copies[t] + tx.copies[t] > 0
    /\ \A t \in Recognised : copies[t] > 0 => tx.copies[t] = 0

Standing(r) ==
    {i \in Ids : \/ memories[i].origin = r
                 \/ memories[i].state = "live" /\ memories[i].key = v2[r].key}

(* What a run that nobody disturbed has left, and nobody changed since. *)
Settled ==
    /\ \A r \in DOMAIN v2 :
          IF Standing(r) = {} THEN Repeats(r)
          ELSE Covers(memories[Min(Standing(r))].chunks, v2[r].chunks)
    /\ page.body = "v2" /\ Covers(page.chunks, Pieces["v2"])
    /\ task = [there |-> TRUE, parent |-> "v2"]
    /\ \A t \in Recognised : copies[t] > 0

(* And what the next run, undisturbed as well, adds to it: nothing. *)
Rerun ==
    /\ \A i \in Ids : tx.rows[i] = NoRow /\ tx.chunks[i] = {}
    /\ at \in PastWiki => tx.page = page

MigrationInv ==
    /\ Typed
    /\ RowsApart
    /\ OneEach
    /\ ChunksApart
    /\ Progress
    /\ NothingBeforeCommit
    /\ EveryContentIsKept
    /\ quiet => calm
    /\ calm => CalmRun
    /\ Surfaces
    /\ quiet /\ commits > 0 => Settled /\ Rerun
-----------------------------------------------------------------------------
(* Migration: lemmas about its operators.                                  *)

(* A set of numbers that is not empty has a least one. *)
LEMMA MinExists ==
    ASSUME NEW S \in SUBSET Nat, S # {}
    PROVE  Min(S) \in S /\ \A y \in S : Min(S) <= y
<1>1. PICK x \in S : \A y \in S : ~ (<<y, x>> \in OpToRel(<, Nat))
  BY NatLessThanWellFounded, WFMin
<1>2. \A y \in S : ~ (y < x)
  BY <1>1, Zenon DEF OpToRel
<1>3. \A y \in S : x <= y
  BY <1>2
<1> QED
  BY <1>3 DEF Min

(* And if it is bounded a greatest one. *)
LEMMA MaxExists ==
    ASSUME NEW n \in Nat, NEW S \in SUBSET (0..n), S # {}
    PROVE  Max(S) \in S /\ \A y \in S : y <= Max(S)
<1> DEFINE T == {m \in Nat : \A y \in S : y <= m}
<1>1. T \in SUBSET Nat /\ n \in T
  OBVIOUS
<1>2. Min(T) \in T /\ \A y \in T : Min(T) <= y
  BY <1>1, MinExists
<1>3. Min(T) \in Nat /\ \A y \in S : y <= Min(T)
  BY <1>2
<1>4. Min(T) \in S
  <2> SUFFICES ASSUME Min(T) \notin S PROVE FALSE
    OBVIOUS
  <2>1. \A y \in S : y < Min(T)
    BY <1>3
  <2>2. PICK y \in S : TRUE
    OBVIOUS
  <2>3. y \in Nat /\ y < Min(T)
    BY <2>1
  <2>4. Min(T) - 1 \in Nat /\ \A z \in S : z <= Min(T) - 1
    BY <1>3, <2>1, <2>3
  <2>5. Min(T) - 1 \in T
    BY <2>4
  <2> QED
    BY <1>2, <1>3, <2>5
<1>5. \A y \in S : Min(T) >= y
  BY <1>3
<1> QED
  BY <1>4, <1>5 DEF Max

(* The least of one. *)
LEMMA MinSingle == ASSUME NEW n \in Nat PROVE Min({n}) = n
BY MinExists

(* The tables of v2. *)
LEMMA SourceTyped ==
    ASSUME Typed
    PROVE  /\ Len(v2) \in Nat /\ DOMAIN v2 = 1..Len(v2)
           /\ \A r \in DOMAIN v2 :
                 /\ r \in Nat /\ r # 0
                 /\ v2[r].key \in Keys /\ v2[r].chunks \in Nat /\ v2[r].deleted \in BOOLEAN
           /\ NoKey \notin Keys
<1> DEFINE Old == [key : Keys, deleted : BOOLEAN, chunks : Nat]
<1>1. v2 \in Seq(Old)
  BY MigrationAssumption DEF Typed
<1> HIDE DEF Old
<1>2. Len(v2) \in Nat /\ DOMAIN v2 = 1..Len(v2)
  BY <1>1
<1>3. \A r \in 1..Len(v2) : v2[r] \in Old
  BY <1>1
<1>4. NoKey \notin Keys
  BY MigrationAssumption
<1> QED
  BY <1>2, <1>3, <1>4 DEF Old

(* What the transaction sees of a row. *)
LEMMA VisibleTyped ==
    ASSUME Typed, RowsApart
    PROVE  \A i \in Ids :
              /\ Visible(i) \in MemoryRow /\ Truthful(Visible(i))
              /\ memories[i] # NoRow => Visible(i) = memories[i]
              /\ VisibleChunks(i) \in SUBSET (Nat \X Nat)
<1> SUFFICES ASSUME NEW i \in Ids
             PROVE  /\ Visible(i) \in MemoryRow /\ Truthful(Visible(i))
                    /\ memories[i] # NoRow => Visible(i) = memories[i]
                    /\ VisibleChunks(i) \in SUBSET (Nat \X Nat)
  OBVIOUS
<1>1. memories[i] \in MemoryRow /\ tx.rows[i] \in MemoryRow /\ tx.chunks[i] \in SUBSET (Nat \X Nat)
  BY DEF Typed, TxTyped
<1>2. Visible(i) \in MemoryRow /\ Truthful(Visible(i))
  BY <1>1 DEF RowsApart, Visible
<1>3. memories[i] # NoRow => Visible(i) = memories[i]
  BY DEF RowsApart, Visible
<1>4. Visible(i).chunks \in SUBSET (Nat \X Nat)
  BY <1>2 DEF MemoryRow
<1>5. VisibleChunks(i) \in SUBSET (Nat \X Nat)
  BY <1>1, <1>4 DEF VisibleChunks
<1> QED
  BY <1>2, <1>3, <1>5

(* A fresh id is nobody's. *)
LEMMA FreshIdIsFree ==
    ASSUME Typed, FreshId \in Ids
    PROVE  Visible(FreshId) = NoRow /\ tx.rows[FreshId] = NoRow /\ memories[FreshId] = NoRow
<1> DEFINE S == {0} \cup {i \in Ids : Visible(i) # NoRow}
<1>1. MaxId \in Nat
  BY MigrationAssumption
<1>2. S \in SUBSET (0..MaxId) /\ S # {}
  BY <1>1 DEF Ids
<1>3. Max(S) \in 0..MaxId /\ \A y \in S : y <= Max(S)
  BY <1>1, <1>2, MaxExists
<1>4. FreshId = 1 + Max(S)
  BY DEF FreshId
<1> HIDE DEF S
<1>5. FreshId \notin S
  BY <1>1, <1>3, <1>4
<1>6. Visible(FreshId) = NoRow
  BY <1>5 DEF S
<1> QED
  BY <1>6 DEF Visible

-----------------------------------------------------------------------------
(* Migration: the invariant holds at the start.                            *)

LEMMA NoTxTyped ==
    /\ NoTx = [map |-> NoTx.map, seen |-> NoTx.seen, rows |-> NoTx.rows, chunks |-> NoTx.chunks,
               page |-> NoTx.page, task |-> NoTx.task, copies |-> NoTx.copies,
               inserted |-> NoTx.inserted, skipped |-> NoTx.skipped, conflicts |-> NoTx.conflicts]
    /\ NoTx.map \in [DOMAIN v2 -> Ids \cup {0}]
    /\ NoTx.seen \in SUBSET Keys
    /\ NoTx.rows \in [Ids -> MemoryRow]
    /\ NoTx.chunks \in [Ids -> SUBSET (Nat \X Nat)]
    /\ NoTx.page \in PageRow
    /\ NoTx.task \in TaskRow
    /\ NoTx.copies \in [Tables -> Nat]
<1>1. NoRow \in MemoryRow
  BY DEF NoRow, MemoryRow
<1>2. NoPage \in PageRow /\ NoTask \in TaskRow
  BY DEF NoPage, PageRow, NoTask, TaskRow
<1> QED
  BY <1>1, <1>2 DEF NoTx

(* What a run is without a transaction. *)
LEMMA WithoutTx ==
    ASSUME tx = NoTx
    PROVE  /\ \A i \in Ids : tx.rows[i] = NoRow /\ tx.chunks[i] = {}
           /\ \A i \in Ids : Visible(i) = memories[i]
           /\ \A r \in DOMAIN v2 : tx.map[r] = 0
           /\ tx.seen = {} /\ tx.page = NoPage /\ tx.task = NoTask
           /\ \A t \in Tables : tx.copies[t] = 0
BY DEF NoTx, Visible

(* Nothing is in any table and no run is under way. *)
LEMMA MigrationInitInv == MigrationInit => MigrationInv
<1> SUFFICES ASSUME MigrationInit PROVE MigrationInv
  OBVIOUS
<1> USE DEF MigrationInit
<1>1. tx = NoTx /\ at = "idle"
  OBVIOUS
<1>2. Typed
  <2>1. NoRow \in MemoryRow /\ NoPage \in PageRow /\ NoTask \in TaskRow
    BY DEF NoRow, MemoryRow, NoPage, PageRow, NoTask, TaskRow
  <2>2. 0 \in 0..MaxRuns /\ 0 \in 0..MaxWrites /\ 0 \in 0..0
    BY MigrationAssumption
  <2>3. memories \in [Ids -> MemoryRow] /\ copies \in [Tables -> Nat]
    BY <2>1
  <2>4. TxTyped
    BY <1>1, NoTxTyped DEF TxTyped
  <2> QED
    BY <1>1, <2>1, <2>2, <2>3, <2>4 DEF Typed, Places
<1>3. \A i \in Ids : Visible(i) = NoRow /\ memories[i] = NoRow
  BY <1>1, WithoutTx
<1>4. RowsApart /\ OneEach
  <2>1. Truthful(NoRow) /\ NoRow.origin = 0
    BY DEF Truthful, NoRow
  <2> QED
    BY <1>1, <1>3, <2>1, WithoutTx DEF RowsApart, OneEach
<1>8. NothingBeforeCommit
  BY <1>3 DEF NothingBeforeCommit, Imported, NoRow, NoPage, NoTask
<1>5. ChunksApart
  BY <1>1, <1>3, WithoutTx DEF ChunksApart, Indexed, VisibleChunks, NoRow, NoPage
<1>6. Progress /\ EveryContentIsKept
  BY <1>1, WithoutTx DEF Progress, EveryContentIsKept, Behind, PastMemory
<1>7. Surfaces
  BY <1>1, WithoutTx
     DEF Surfaces, PastWiki, PastPieces, PastKanban, PastTable, PastJournal, PastSkills,
         PastSessions, PastMessages, PastChunks, PastMemory, Recognised, Tables
<1> QED
  BY <1>2, <1>4, <1>5, <1>6, <1>7, <1>8 DEF MigrationInv

-----------------------------------------------------------------------------
(* Migration: the users.                                                   *)

(* A user adds a row on an id that is free, or changes the state of one. *)
LEMMA UserRow ==
    ASSUME MigrationInv, UserWrites, UNCHANGED <<page, task, copies>>,
           NEW i \in Ids, NEW row \in MemoryRow, memories' = [memories EXCEPT ![i] = row],
           tx.rows[i] = NoRow, row # NoRow, Truthful(row),
           memories[i] # NoRow =>
              row.key = memories[i].key /\ row.origin = memories[i].origin
              /\ row.chunks = memories[i].chunks,
           memories[i] = NoRow =>
              row.origin = 0 /\ Indexed(row.chunks) /\ \A c \in row.chunks : c[2] = 0
    PROVE  MigrationInv'
<1>0. Typed /\ RowsApart /\ OneEach /\ ChunksApart /\ Progress /\ Surfaces
  BY DEF MigrationInv
<1>1. UNCHANGED <<v2, at, next, tx, runs, commits>> /\ calm' = FALSE /\ quiet' = FALSE
      /\ writes' \in 0..MaxWrites
  BY <1>0, MigrationAssumption DEF UserWrites, running, Typed
<1>2. Typed'
  BY <1>0, <1>1 DEF Typed, TxTyped, NoTx
<1>3. memories'[i] = row /\ Visible(i)' = row /\ Visible(i) = memories[i]
      /\ \A j \in Ids \ {i} : memories'[j] = memories[j] /\ Visible(j)' = Visible(j)
  BY <1>0, <1>1 DEF Typed, Visible
<1>4. \A j \in Ids : Visible(j) # NoRow => Visible(j)' # NoRow
                     /\ Visible(j)'.key = Visible(j).key /\ Visible(j)'.origin = Visible(j).origin
  BY <1>3
<1>5. RowsApart'
  <2>1. \A j \in Ids : Truthful(memories[j])' /\ Truthful(tx.rows[j])'
    <3>1. \A j \in Ids : Truthful(memories[j]) /\ Truthful(tx.rows[j])
      BY <1>0 DEF RowsApart
    <3>2. \A j \in Ids : Truthful(tx.rows[j])'
      BY <1>1, <3>1 DEF Truthful
    <3>3. Truthful(memories[i])'
      BY <1>1, <1>3 DEF Truthful
    <3>4. \A j \in Ids \ {i} : Truthful(memories[j])'
      BY <1>1, <1>3, <3>1 DEF Truthful
    <3> QED
      BY <3>2, <3>3, <3>4
  <2>2. \A j \in Ids : tx'.rows[j] # NoRow => memories'[j] = NoRow
    BY <1>0, <1>1, <1>3 DEF RowsApart
  <2> QED
    BY <1>0, <1>1, <1>4, <2>1, <2>2 DEF RowsApart
<1>6. \A j \in Ids : Visible(j) = NoRow => Visible(j).origin = 0 /\ Visible(j)'.origin = 0
  BY <1>3 DEF NoRow
<1>7. OneEach'
  BY <1>0, <1>4, <1>6 DEF OneEach
<1>8. ChunksApart'
  <2>1. \A j \in Ids \ {i} : VisibleChunks(j)' = VisibleChunks(j)
    BY <1>1, <1>3 DEF VisibleChunks
  <2>2. CASE memories[i] # NoRow
    <3>1. VisibleChunks(i)' = VisibleChunks(i)
      BY <1>1, <1>3, <2>2 DEF VisibleChunks
    <3> QED
      BY <1>0, <1>1, <2>1, <3>1 DEF ChunksApart
  <2>3. CASE memories[i] = NoRow
    <3>1. tx.chunks[i] = {}
      BY <1>0, <1>3, <2>3 DEF RowsApart
    <3>2. VisibleChunks(i)' = row.chunks
      BY <1>1, <1>3, <3>1 DEF VisibleChunks
    <3> QED
      BY <1>0, <1>1, <2>1, <2>3, <3>2 DEF ChunksApart
  <2> QED
    BY <2>2, <2>3
<1>9. \A k \in Keys, j \in Ids : Visible(j).key = k => Visible(j)'.key = k
  BY <1>0, <1>4, SourceTyped DEF NoRow
<1>10. \A r \in DOMAIN v2 : Known(r) => Known(r)'
  <2>1. \A r \in DOMAIN v2, j \in Ids : Visible(j).origin = r => Visible(j)'.origin = r
    BY <1>0, <1>4, <1>6, SourceTyped
  <2> QED
    BY <1>0, <1>1, <1>9, <2>1, SourceTyped DEF Known
<1>11. Progress'
  <2>1. \A r \in DOMAIN v2 : Behind(r)' <=> Behind(r)
    BY <1>1 DEF Behind, PastMemory
  <2>2. \A r \in DOMAIN v2 : Behind(r)' => Known(r)' /\ v2[r].key \in tx.seen
    BY <1>0, <1>10, <2>1 DEF Progress
  <2>3. \A k \in tx.seen : \E j \in Ids : Visible(j)'.key = k
    BY <1>0, <1>9 DEF Progress, Typed, TxTyped
  <2>4. \A r \in DOMAIN v2 : tx.map[r] # 0 => Behind(r)' /\ Visible(tx.map[r])' # NoRow
    <3>1. \A r \in DOMAIN v2 : tx.map[r] \in Ids \cup {0}
      BY <1>0 DEF Typed, TxTyped
    <3> QED
      BY <1>0, <1>1, <1>4, <2>1, <3>1 DEF Progress, Visible
  <2>5. \A k \in tx.seen : \E r \in DOMAIN v2 : Behind(r)' /\ v2[r].key = k
    BY <1>0, <2>1 DEF Progress
  <2> QED
    BY <1>1, <2>2, <2>3, <2>4, <2>5 DEF Progress
<1>12. NothingBeforeCommit'
  <2> SUFFICES ASSUME commits = 0 PROVE NothingBeforeCommit'
    BY <1>1 DEF NothingBeforeCommit
  <2>1. NothingBeforeCommit
    BY DEF MigrationInv
  <2>2. \A j \in Ids : memories[j].origin = 0 /\ \A c \in memories[j].chunks : c[2] = 0
    BY <2>1 DEF NothingBeforeCommit, Imported
  <2>3. \A j \in Ids : memories'[j].origin = 0 /\ \A c \in memories'[j].chunks : c[2] = 0
    BY <1>3, <2>2
  <2> QED
    BY <1>1, <2>1, <2>3 DEF NothingBeforeCommit, Imported
<1>13. EveryContentIsKept'
  <2>1. \A j \in Ids : memories[j] # NoRow =>
           memories'[j].key = memories[j].key /\ memories'[j].origin = memories[j].origin
    BY <1>3
  <2>2. \A r \in DOMAIN v2, j \in Ids :
           memories[j].origin = r \/ memories[j].key = v2[r].key => memories[j] # NoRow
    BY <1>0, SourceTyped DEF NoRow
  <2> QED
    BY <1>1, <2>1, <2>2 DEF MigrationInv, EveryContentIsKept
<1>14. Surfaces'
  BY <1>0, <1>1 DEF Surfaces
<1> QED
  BY <1>1, <1>2, <1>5, <1>7, <1>8, <1>11, <1>12, <1>13, <1>14 DEF MigrationInv

(* remember and forget. *)
LEMMA UserMemorySteps ==
    ASSUME MigrationInv, (\E k \in Keys : Remember(k)) \/ (\E i \in Ids : Forget(i))
    PROVE  MigrationInv'
<1>0. Typed /\ RowsApart
  BY DEF MigrationInv
<1>1. ASSUME NEW k \in Keys, Remember(k) PROVE MigrationInv'
  <2> DEFINE row == [state |-> "live", key |-> k, origin |-> 0,
                     chunks |-> {<<c, 0>> : c \in 1..Chunks[k]}]
  <2>1. FreshId \in Ids /\ memories' = [memories EXCEPT ![FreshId] = row]
        /\ UserWrites /\ UNCHANGED <<page, task, copies>>
    BY <1>1 DEF Remember
  <2>2. memories[FreshId] = NoRow /\ tx.rows[FreshId] = NoRow
    BY <1>0, <2>1, FreshIdIsFree
  <2>3. Chunks[k] \in Nat
    BY MigrationAssumption
  <2>4. row \in MemoryRow
    BY <2>3 DEF MemoryRow
  <2>5. row # NoRow /\ Truthful(row) /\ row.origin = 0
    BY DEF NoRow, Truthful
  <2>6. Indexed(row.chunks) /\ \A c \in row.chunks : c[2] = 0
    BY DEF Indexed
  <2> HIDE DEF row
  <2> QED
    BY <2>1, <2>2, <2>4, <2>5, <2>6, UserRow
<1>2. ASSUME NEW i \in Ids, Forget(i) PROVE MigrationInv'
  <2> DEFINE row == [memories[i] EXCEPT !.state = "deleted"]
  <2>1. memories[i].state = "live" /\ memories' = [memories EXCEPT ![i] = row]
        /\ UserWrites /\ UNCHANGED <<page, task, copies>>
    BY <1>2 DEF Forget
  <2>2. memories[i] \in MemoryRow /\ memories[i] # NoRow /\ Truthful(memories[i])
    BY <1>0, <2>1 DEF Typed, RowsApart, NoRow
  <2>3. row \in MemoryRow /\ row.state = "deleted" /\ row.key = memories[i].key
        /\ row.origin = memories[i].origin /\ row.chunks = memories[i].chunks
    BY <2>2 DEF MemoryRow
  <2>4. tx.rows[i] = NoRow
    BY <1>0, <2>2 DEF RowsApart
  <2> HIDE DEF row
  <2>5. row # NoRow
    BY <2>3 DEF NoRow
  <2>6. Truthful(row)
    BY <2>1, <2>2, <2>3 DEF Truthful
  <2> QED
    BY <2>1, <2>2, <2>3, <2>4, <2>5, <2>6, UserRow
<1> QED
  BY <1>1, <1>2

(* The wiki page, which waits for a migration that has it locked, and the
   kanban task. *)
LEMMA UserOtherSteps == ASSUME MigrationInv, Ingest \/ Reparent PROVE MigrationInv'
<1>0. Typed /\ RowsApart /\ OneEach /\ ChunksApart /\ Progress /\ Surfaces
      /\ NothingBeforeCommit /\ EveryContentIsKept
  BY DEF MigrationInv
<1>1. UNCHANGED <<v2, memories, at, next, tx, runs, commits, copies>> /\ calm' = FALSE
      /\ quiet' = FALSE /\ writes' \in 0..MaxWrites
  BY <1>0, MigrationAssumption DEF Ingest, Reparent, UserWrites, running, Typed
<1>2. \/ page' \in PageRow /\ page'.body # "v2" /\ Indexed(page'.chunks)
      \/ page' = page
  <2>1. CASE Ingest
    <3>1. page.version + 1 \in Nat /\ Pieces["user"] \in Nat
      BY <1>0, MigrationAssumption DEF Typed, PageRow, Bodies
    <3>2. {<<n, "user">> : n \in 1..Pieces["user"]} \in SUBSET (Nat \X Bodies)
      BY <3>1 DEF Bodies
    <3>3. Indexed({<<n, "user">> : n \in 1..Pieces["user"]})
      BY DEF Indexed
    <3> QED
      BY <2>1, <3>1, <3>2, <3>3 DEF Ingest, PageRow, Bodies
  <2>2. CASE Reparent
    BY <2>2 DEF Reparent
  <2> QED
    BY <2>1, <2>2
<1>3. task' = task \/ (task' \in TaskRow /\ task.there)
  <2>1. CASE Ingest
    BY <2>1 DEF Ingest
  <2>2. CASE Reparent
    BY <1>0, <2>2 DEF Reparent, Typed, TaskRow
  <2> QED
    BY <2>1, <2>2
<1>4. Typed'
  <2>1. page' \in PageRow /\ task' \in TaskRow
    BY <1>0, <1>2, <1>3 DEF Typed
  <2> QED
    BY <1>0, <1>1, <2>1 DEF Typed, TxTyped, NoTx
<1>5. RowsApart' /\ OneEach' /\ Progress'
  BY <1>0, <1>1 DEF RowsApart, Truthful, OneEach, Progress, Known, Behind, Visible
<1>6. ChunksApart'
  BY <1>0, <1>1, <1>2 DEF ChunksApart, VisibleChunks, Visible
<1>7. NothingBeforeCommit' /\ EveryContentIsKept'
  BY <1>0, <1>1, <1>2, <1>3 DEF NothingBeforeCommit, EveryContentIsKept, Imported
<1>8. Surfaces'
  BY <1>0, <1>1 DEF Surfaces
<1> QED
  BY <1>1, <1>4, <1>5, <1>6, <1>7, <1>8 DEF MigrationInv

-----------------------------------------------------------------------------
(* Migration: the ends of a run.                                           *)

(* What is left when the transaction is gone. *)
LEMMA TxGone ==
    ASSUME tx' = NoTx, UNCHANGED v2
    PROVE  /\ TxTyped' /\ (tx = NoTx)'
           /\ \A i \in Ids : tx'.rows[i] = NoRow /\ tx'.chunks[i] = {}
           /\ \A i \in Ids : Visible(i)' = memories'[i]
           /\ \A i \in Ids : VisibleChunks(i)' = memories'[i].chunks
           /\ \A r \in DOMAIN v2 : tx'.map[r] = 0
           /\ tx'.seen = {} /\ tx'.page = NoPage /\ tx'.task = NoTask
           /\ \A t \in Tables : tx'.copies[t] = 0
<1>1. TxTyped'
  BY NoTxTyped DEF TxTyped
<1>2. (tx = NoTx)'
  BY DEF NoTx
<1>3. \A i \in Ids : tx'.rows[i] = NoRow /\ tx'.chunks[i] = {}
  BY DEF NoTx
<1>4. \A i \in Ids : Visible(i)' = memories'[i]
  BY <1>3 DEF Visible
<1>5. \A i \in Ids : VisibleChunks(i)' = memories'[i].chunks
  BY <1>3, <1>4 DEF VisibleChunks
<1>6. /\ \A r \in DOMAIN v2 : tx'.map[r] = 0
      /\ tx'.seen = {} /\ tx'.page = NoPage /\ tx'.task = NoTask
      /\ \A t \in Tables : tx'.copies[t] = 0
  BY DEF NoTx
<1> QED
  BY <1>1, <1>2, <1>3, <1>4, <1>5, <1>6

(* Without it the committed rows are as apart as they were with it. *)
LEMMA RowsOfTheTables ==
    ASSUME Typed, RowsApart, OneEach, ChunksApart, tx' = NoTx,
           UNCHANGED <<v2, memories, page>>
    PROVE  RowsApart' /\ OneEach' /\ ChunksApart'
<1>1. Truthful(NoRow)' /\ NoRow.origin = 0 /\ NoRow.chunks = {}
  BY DEF Truthful, NoRow
<1>2. \A i \in Ids : Truthful(memories[i])'
  BY DEF RowsApart, Truthful
<1>3. RowsApart'
  BY <1>1, <1>2, TxGone DEF RowsApart
<1>4. \A i \in Ids : memories[i].origin # 0 => Visible(i) = memories[i]
  BY <1>1, VisibleTyped
<1>5. OneEach'
  BY <1>4, TxGone DEF OneEach
<1>6. \A i \in Ids : memories[i].chunks \in SUBSET VisibleChunks(i)
  BY <1>1, VisibleTyped DEF VisibleChunks
<1>7. \A i \in Ids : Indexed(VisibleChunks(i)')
  BY <1>6, TxGone DEF ChunksApart, Indexed
<1>8. ChunksApart'
  BY <1>7, TxGone DEF ChunksApart, Indexed, NoPage
<1> QED
  BY <1>3, <1>5, <1>8

(* A run that has not begun its first row has seen to nothing. *)
LEMMA NothingBehind ==
    ASSUME Typed, tx' = NoTx, UNCHANGED <<v2, copies>>,
           \/ at' = "idle"
           \/ at' = "memory" /\ next' = 1
           \/ at' = "wiki" /\ DOMAIN v2 = {}
    PROVE  Progress' /\ CalmRun' /\ Surfaces'
<1>1. \A r \in DOMAIN v2 : r \in Nat /\ r # 0
  BY SourceTyped
<1>2. \A r \in DOMAIN v2 : ~ Behind(r)' /\ ~ ChunksBehind(r)'
  BY <1>1 DEF Behind, ChunksBehind, PastMemory, PastChunks
<1>3. Progress'
  BY <1>2, TxGone DEF Progress
<1>4. CalmRun'
  BY <1>2 DEF CalmRun
<1>5. at' \notin PastWiki /\ at' \notin PastPieces /\ at' \notin PastKanban
      /\ \A t \in Recognised : at' \notin PastTable(t)
  BY DEF PastWiki, PastPieces, PastKanban, PastTable, PastJournal, PastSkills,
         PastSessions, PastMessages, PastChunks, PastMemory, Recognised, Tables
<1>6. \A t \in Recognised : t \in Tables
  BY DEF Tables
<1>7. Surfaces'
  BY <1>5, <1>6, TxGone DEF Surfaces
<1> QED
  BY <1>3, <1>4, <1>7

LEMMA BeginStep == ASSUME MigrationInv, Begin PROVE MigrationInv'
<1>0. Typed /\ RowsApart /\ OneEach /\ ChunksApart
  BY DEF MigrationInv
<1>1. /\ at = "idle" /\ tx' = NoTx /\ next' = 1 /\ calm' = TRUE /\ runs < MaxRuns
      /\ runs' = runs + 1 /\ at' \in {"wiki", "memory"}
      /\ UNCHANGED <<v2, memories, page, task, copies, commits, writes, quiet>>
  BY DEF Begin, tables
<1>2. tx = NoTx /\ tx' = tx
  BY <1>0, <1>1 DEF Typed
<1>3. at' = "memory" \/ (at' = "wiki" /\ DOMAIN v2 = {})
  <2>1. v2 = <<>> => DOMAIN v2 = {}
    OBVIOUS
  <2> QED
    BY <2>1 DEF Begin
<1>4. at' = "memory" => 1 \in DOMAIN v2
  <2>1. CASE v2 = <<>>
    BY <2>1 DEF Begin
  <2>2. CASE v2 # <<>>
    <3>1. v2 \in Seq([key : Keys, deleted : BOOLEAN, chunks : Nat])
      BY <1>0, MigrationAssumption DEF Typed
    <3>2. Len(v2) # 0
      BY <2>2, <3>1
    <3> QED
      BY <1>0, <3>2, SourceTyped
  <2> QED
    BY <2>1, <2>2
<1>5. Typed'
  <2>1. runs \in 0..MaxRuns /\ commits \in 0..runs /\ MaxRuns \in Nat
    BY <1>0, MigrationAssumption DEF Typed
  <2>2. runs' \in 0..MaxRuns /\ commits' \in 0..runs' /\ commits' < runs'
    BY <1>1, <2>1
  <2>3. TxTyped'
    BY <1>1, TxGone
  <2>4. at' \in Places /\ at' # "idle" /\ at' # "chunks" /\ next' \in Nat
    BY <1>1 DEF Places
  <2> QED
    BY <1>0, <1>1, <1>4, <2>2, <2>3, <2>4 DEF Typed
<1>6. RowsApart' /\ OneEach' /\ ChunksApart'
  BY <1>0, <1>1, RowsOfTheTables
<1>7. Progress' /\ CalmRun' /\ Surfaces'
  BY <1>0, <1>1, <1>3, NothingBehind
<1>8. NothingBeforeCommit' /\ EveryContentIsKept'
  BY <1>1 DEF MigrationInv, NothingBeforeCommit, EveryContentIsKept, Imported
<1>9. (quiet /\ commits > 0 => Settled /\ Rerun)'
  <2> SUFFICES ASSUME quiet, commits > 0 PROVE Settled' /\ Rerun'
    BY <1>1
  <2>1. Settled'
    BY <1>1 DEF MigrationInv, Settled, Standing, Repeats
  <2>2. at' \notin PastWiki
    BY <1>1 DEF PastWiki, PastChunks, PastMemory
  <2>3. Rerun'
    BY <1>1, <2>2, TxGone DEF Rerun
  <2> QED
    BY <2>1, <2>3
<1> QED
  BY <1>1, <1>5, <1>6, <1>7, <1>8, <1>9 DEF MigrationInv

LEMMA AbortStep == ASSUME MigrationInv, Abort PROVE MigrationInv'
<1>0. Typed /\ RowsApart /\ OneEach /\ ChunksApart
  BY DEF MigrationInv
<1>1. /\ tx' = NoTx /\ at' = "idle"
      /\ UNCHANGED <<v2, memories, page, task, copies, next, runs, commits, writes, calm, quiet>>
  BY DEF Abort, tables, history
<1>2. Typed'
  <2>1. TxTyped' /\ (tx = NoTx)'
    BY <1>1, TxGone
  <2> QED
    BY <1>0, <1>1, <2>1 DEF Typed, Places
<1>3. RowsApart' /\ OneEach' /\ ChunksApart'
  BY <1>0, <1>1, RowsOfTheTables
<1>4. Progress' /\ CalmRun' /\ Surfaces'
  BY <1>0, <1>1, NothingBehind
<1>5. NothingBeforeCommit' /\ EveryContentIsKept'
  BY <1>1 DEF MigrationInv, NothingBeforeCommit, EveryContentIsKept, Imported
<1>6. (quiet /\ commits > 0 => Settled /\ Rerun)'
  <2> SUFFICES ASSUME quiet, commits > 0 PROVE Settled' /\ Rerun'
    BY <1>1
  <2>1. Settled'
    BY <1>1 DEF MigrationInv, Settled, Standing, Repeats
  <2>2. at' \notin PastWiki
    BY <1>1 DEF PastWiki, PastChunks, PastMemory
  <2>3. Rerun'
    BY <1>1, <2>2, TxGone DEF Rerun
  <2> QED
    BY <2>1, <2>3
<1>7. (quiet => calm)'
  BY <1>1 DEF MigrationInv
<1> QED
  BY <1>1, <1>2, <1>3, <1>4, <1>5, <1>6, <1>7 DEF MigrationInv

(* The commit makes of what the transaction saw what is there. *)
LEMMA CommitStep == ASSUME MigrationInv, Commit PROVE MigrationInv'
<1>0. Typed /\ RowsApart /\ OneEach /\ ChunksApart /\ Progress /\ Surfaces
  BY DEF MigrationInv
<1>1. /\ at = "commit" /\ at' = "idle" /\ tx' = NoTx /\ page' = tx.page /\ task' = tx.task
      /\ commits' = commits + 1 /\ quiet' = calm
      /\ UNCHANGED <<v2, next, runs, writes, calm>>
  BY DEF Commit
<1>2. \A i \in Ids : memories'[i] = [Visible(i) EXCEPT !.chunks = VisibleChunks(i)]
  BY DEF Commit
<1>3. /\ memories' \in [Ids -> MemoryRow]
      /\ \A i \in Ids :
            /\ memories'[i].state = Visible(i).state /\ memories'[i].key = Visible(i).key
            /\ memories'[i].origin = Visible(i).origin
            /\ memories'[i].chunks = VisibleChunks(i)
  <2>1. \A i \in Ids : Visible(i) \in MemoryRow /\ VisibleChunks(i) \in SUBSET (Nat \X Nat)
    BY <1>0, VisibleTyped
  <2>2. \A i \in Ids :
            /\ memories'[i] \in MemoryRow
            /\ memories'[i].state = Visible(i).state /\ memories'[i].key = Visible(i).key
            /\ memories'[i].origin = Visible(i).origin
            /\ memories'[i].chunks = VisibleChunks(i)
    BY <1>2, <2>1 DEF MemoryRow
  <2>3. memories' \in [Ids -> MemoryRow]
    BY <2>2 DEF Commit
  <2> QED
    BY <2>2, <2>3
<1>4. copies' \in [Tables -> Nat] /\ \A t \in Tables : copies'[t] = copies[t] + tx.copies[t]
  BY <1>0 DEF Commit, Typed, TxTyped
<1>5. Typed'
  <2>1. TxTyped' /\ (tx = NoTx)'
    BY <1>1, TxGone
  <2>2. commits' \in 0..runs'
    BY <1>0, <1>1, MigrationAssumption DEF Typed
  <2>3. page' \in PageRow /\ task' \in TaskRow
    BY <1>0, <1>1 DEF Typed, TxTyped
  <2> QED
    BY <1>0, <1>1, <1>3, <1>4, <2>1, <2>2, <2>3 DEF Typed, Places
<1>6. RowsApart'
  <2>1. \A i \in Ids : Truthful(Visible(i)) /\ (Visible(i) = NoRow => tx.chunks[i] = {})
    BY <1>0, VisibleTyped DEF RowsApart
  <2>2. \A i \in Ids : Visible(i) = NoRow => memories'[i] = NoRow
    BY <1>2, <2>1 DEF VisibleChunks, NoRow
  <2>3. \A i \in Ids : Truthful(memories[i])'
    BY <1>1, <1>3, <2>1, <2>2 DEF Truthful
  <2>4. Truthful(NoRow)'
    BY DEF Truthful, NoRow
  <2> QED
    BY <1>1, <2>3, <2>4, TxGone DEF RowsApart
<1>7. OneEach'
  BY <1>0, <1>1, <1>3, TxGone DEF OneEach
<1>8. ChunksApart'
  <2>1. \A i \in Ids : VisibleChunks(i)' = VisibleChunks(i)
    BY <1>1, <1>3, TxGone
  <2> QED
    BY <1>0, <1>1, <2>1, TxGone DEF ChunksApart, Indexed, NoPage
<1>9. /\ at \in PastMemory /\ at \in PastChunks /\ at \in PastWiki /\ at \in PastPieces
      /\ at \in PastKanban /\ \A t \in Recognised : at \in PastTable(t)
  BY <1>1 DEF Places, PastWiki, PastPieces, PastKanban, PastTable, PastJournal, PastSkills,
              PastSessions, PastMessages, PastChunks, PastMemory, Recognised, Tables
<1>10. \A t \in Recognised : copies'[t] > 0
  BY <1>0, <1>4, <1>9 DEF Surfaces, Tables
<1>11. Progress' /\ CalmRun' /\ Surfaces'
  <2>1. \A r \in DOMAIN v2 : ~ Behind(r)' /\ ~ ChunksBehind(r)'
    BY <1>1 DEF Behind, ChunksBehind, PastMemory, PastChunks
  <2>2. Progress' /\ CalmRun'
    BY <1>1, <2>1, TxGone DEF Progress, CalmRun
  <2>3. at' \notin PastWiki /\ at' \notin PastPieces /\ at' \notin PastKanban
        /\ \A t \in Recognised : at' \notin PastTable(t)
    BY <1>1 DEF PastWiki, PastPieces, PastKanban, PastTable, PastJournal, PastSkills,
                PastSessions, PastMessages, PastChunks, PastMemory, Recognised, Tables
  <2>4. \A t \in Recognised : t \in Tables
    BY DEF Tables
  <2>5. Surfaces'
    BY <1>1, <2>3, <2>4, TxGone DEF Surfaces
  <2> QED
    BY <2>2, <2>5
<1>12. NothingBeforeCommit'
  BY <1>0, <1>1 DEF NothingBeforeCommit, Typed
<1>13. EveryContentIsKept'
  <2>1. \A r \in DOMAIN v2 : Known(r)
    BY <1>0, <1>9 DEF Progress, Behind
  <2> QED
    BY <1>1, <1>3, <2>1 DEF EveryContentIsKept, Known
<1>14. ASSUME calm PROVE Settled' /\ Rerun'
  <2>1. \A r \in DOMAIN v2 : Standing(r)' = Existing(r)
    BY <1>1, <1>3 DEF Standing, Existing
  <2>2. \A r \in DOMAIN v2 : Existing(r) = {} => Repeats(r)'
    BY <1>1, <1>9, <1>14 DEF MigrationInv, CalmRun, Behind, Repeats
  <2>3. \A r \in DOMAIN v2 : Existing(r) # {} => 
           Covers(memories'[Min(Existing(r))].chunks, v2[r].chunks)
    <3> SUFFICES ASSUME NEW r \in DOMAIN v2, Existing(r) # {}
                 PROVE  Covers(memories'[Min(Existing(r))].chunks, v2[r].chunks)
      OBVIOUS
    <3>1. Existing(r) \in SUBSET Ids
      BY DEF Existing
    <3>2. Min(Existing(r)) \in Ids /\ Min(Existing(r)) # 0
      BY <3>1, MinExists DEF Ids
    <3>3. tx.map[r] = Min(Existing(r))
      BY <1>9, <1>14 DEF MigrationInv, CalmRun, Behind
    <3>4. Covers(VisibleChunks(tx.map[r]), v2[r].chunks)
      BY <1>9, <1>14, <3>2, <3>3 DEF MigrationInv, CalmRun, ChunksBehind
    <3> QED
      BY <1>3, <3>2, <3>3, <3>4
  <2>4. page'.body = "v2" /\ Covers(page'.chunks, Pieces["v2"])
        /\ task' = [there |-> TRUE, parent |-> "v2"]
    BY <1>0, <1>1, <1>9 DEF Surfaces
  <2>5. Settled'
    BY <1>1, <1>10, <2>1, <2>2, <2>3, <2>4 DEF Settled
  <2>6. at' \notin PastWiki
    BY <1>1 DEF PastWiki, PastChunks, PastMemory
  <2>7. Rerun'
    BY <1>1, <2>6, TxGone DEF Rerun
  <2> QED
    BY <2>5, <2>7
<1> QED
  BY <1>1, <1>5, <1>6, <1>7, <1>8, <1>11, <1>12, <1>13, <1>14 DEF MigrationInv

-----------------------------------------------------------------------------
(* Migration: a row of the v2 memories.                                    *)

(* The row that was next is behind, and no chunk is. *)
LEMMA MemoryAdvance ==
    ASSUME Typed, at = "memory", Advance("chunks"), UNCHANGED v2
    PROVE  /\ next \in DOMAIN v2 /\ next' \in DOMAIN v2 /\ at' \in {"memory", "chunks"}
           /\ ~ Behind(next)
           /\ \A r \in DOMAIN v2 : Behind(r)' <=> Behind(r) \/ r = next
           /\ \A r \in DOMAIN v2 : ~ ChunksBehind(r)'
<1>1. next \in DOMAIN v2 /\ DOMAIN v2 = 1..Len(v2) /\ Len(v2) \in Nat
  BY SourceTyped DEF Typed
<1>2. at' \in {"memory", "chunks"} /\ next' \in DOMAIN v2
  BY <1>1 DEF Advance
<1>3. \A r \in DOMAIN v2 : Behind(r) <=> r < next
  BY DEF Behind, PastMemory
<1>4. ~ Behind(next)
  BY <1>1, <1>3
<1>5. \A r \in DOMAIN v2 : Behind(r)' <=> Behind(r) \/ r = next
  <2>1. CASE next < Len(v2)
    <3>1. at' = "memory" /\ next' = next + 1
      BY <2>1 DEF Advance
    <3>2. \A r \in DOMAIN v2 : Behind(r)' <=> r < next + 1
      BY <3>1 DEF Behind, PastMemory
    <3> QED
      BY <1>1, <1>3, <3>2
  <2>2. CASE ~ (next < Len(v2))
    <3>1. at' = "chunks"
      BY <2>2 DEF Advance
    <3>2. \A r \in DOMAIN v2 : Behind(r)'
      BY <3>1 DEF Behind, PastMemory, Places
    <3> QED
      BY <1>1, <1>3, <2>2, <3>2
  <2> QED
    BY <2>1, <2>2
<1>6. \A r \in DOMAIN v2 : ~ ChunksBehind(r)'
  <2>1. CASE at' = "memory"
    BY <2>1 DEF ChunksBehind, PastMemory, PastChunks
  <2>2. CASE at' = "chunks"
    <3>1. next' = 1
      BY <2>2 DEF Advance
    <3> QED
      BY <1>1, <2>2, <3>1 DEF ChunksBehind, PastMemory, PastChunks
  <2> QED
    BY <1>2, <2>1, <2>2
<1> QED
  BY <1>1, <1>2, <1>4, <1>5, <1>6

(* A row that is skipped or in conflict: only the map and the keys seen. *)
LEMMA SkipTx ==
    ASSUME Typed, RowsApart, next \in DOMAIN v2, Skip(next), UNCHANGED v2
    PROVE  /\ TxTyped'
           /\ tx'.map = [tx.map EXCEPT ![next] = Min(Existing(next))]
           /\ tx'.seen = tx.seen \cup {v2[next].key}
           /\ tx'.rows = tx.rows /\ tx'.chunks = tx.chunks /\ tx'.page = tx.page
           /\ tx'.task = tx.task /\ tx'.copies = tx.copies
           /\ tx'.inserted = tx.inserted /\ tx'.skipped = tx.skipped + 1
           /\ tx'.conflicts \in {tx.conflicts, tx.conflicts + 1}
           /\ Min(Existing(next)) \in Existing(next) /\ Existing(next) \in SUBSET Ids
<1>0. TxTyped
  BY DEF Typed
<1>1. Existing(next) \in SUBSET Ids /\ Min(Existing(next)) \in Existing(next)
  <2>1. Existing(next) \in SUBSET Ids /\ Existing(next) # {}
    BY DEF Existing, Skip
  <2> QED
    BY <2>1, MinExists DEF Ids
<1> DEFINE m == Min(Existing(next))
           k == v2[next].key
           c == IF IsConflict(next) THEN tx.conflicts + 1 ELSE tx.conflicts
<1>2. tx' = [tx EXCEPT !.map[next] = m, !.seen = @ \cup {k}, !.skipped = @ + 1,
                       !.conflicts = c]
  BY Zenon DEF Skip
<1>3. m \in Ids /\ k \in Keys
  BY <1>1, SourceTyped
<1> HIDE DEF m, k, c
<1>4. tx' = [map |-> [tx.map EXCEPT ![next] = m], seen |-> tx.seen \cup {k}, rows |-> tx.rows,
             chunks |-> tx.chunks, page |-> tx.page, task |-> tx.task, copies |-> tx.copies,
             inserted |-> tx.inserted, skipped |-> tx.skipped + 1, conflicts |-> c]
  BY <1>0, <1>2 DEF TxTyped
<1>5. /\ tx'.map = [tx.map EXCEPT ![next] = m] /\ tx'.seen = tx.seen \cup {k}
      /\ tx'.rows = tx.rows /\ tx'.chunks = tx.chunks /\ tx'.page = tx.page
      /\ tx'.task = tx.task /\ tx'.copies = tx.copies
      /\ tx'.inserted = tx.inserted /\ tx'.skipped = tx.skipped + 1 /\ tx'.conflicts = c
  BY <1>4
<1>6. TxTyped'
  BY <1>0, <1>3, <1>4 DEF TxTyped
<1> QED
  BY <1>1, <1>5, <1>6 DEF m, k, c

LEMMA ConflictTx ==
    ASSUME Typed, next \in DOMAIN v2, Conflict(next), UNCHANGED v2
    PROVE  /\ TxTyped'
           /\ tx'.map = tx.map /\ tx'.seen = tx.seen
           /\ tx'.rows = tx.rows /\ tx'.chunks = tx.chunks /\ tx'.page = tx.page
           /\ tx'.task = tx.task /\ tx'.copies = tx.copies
           /\ tx'.inserted = tx.inserted /\ tx'.skipped = tx.skipped + 1
           /\ tx'.conflicts = tx.conflicts + 1
<1>0. TxTyped
  BY DEF Typed
<1>1. tx' = [map |-> tx.map, seen |-> tx.seen, rows |-> tx.rows,
             chunks |-> tx.chunks, page |-> tx.page, task |-> tx.task, copies |-> tx.copies,
             inserted |-> tx.inserted, skipped |-> tx.skipped + 1,
             conflicts |-> tx.conflicts + 1]
  BY <1>0 DEF TxTyped, Conflict
<1> QED
  BY <1>0, <1>1 DEF TxTyped

(* A row that is imported goes to an id that is free. *)
LEMMA ImportTx ==
    ASSUME Typed, next \in DOMAIN v2, Import(next), UNCHANGED v2
    PROVE  /\ TxTyped'
           /\ FreshId \in Ids
           /\ tx'.map = [tx.map EXCEPT ![next] = FreshId]
           /\ tx'.seen = tx.seen \cup {v2[next].key}
           /\ tx'.rows[FreshId].state \in {"live", "deleted"}
           /\ tx'.rows[FreshId].key = v2[next].key /\ tx'.rows[FreshId].origin = next
           /\ tx'.rows[FreshId].chunks = {}
           /\ \A i \in Ids \ {FreshId} : tx'.rows[i] = tx.rows[i]
           /\ tx'.chunks = tx.chunks /\ tx'.page = tx.page
           /\ tx'.task = tx.task /\ tx'.copies = tx.copies
           /\ tx'.inserted = tx.inserted + 1 /\ tx'.skipped = tx.skipped
           /\ tx'.conflicts = tx.conflicts
<1>0. TxTyped
  BY DEF Typed
<1> DEFINE f == FreshId
           k == v2[next].key
           row == [state |-> IF v2[next].deleted THEN "deleted" ELSE "live",
                   key |-> k, origin |-> next, chunks |-> {}]
<1>1. f \in Ids /\ tx' = [tx EXCEPT !.rows[f] = row, !.map[next] = f, !.seen = @ \cup {k},
                                    !.inserted = @ + 1]
  BY Zenon DEF Import
<1>2. k \in Keys /\ next \in Nat
  BY SourceTyped
<1>3. row.state \in {"live", "deleted"} /\ row.key = k /\ row.origin = next /\ row.chunks = {}
  OBVIOUS
<1>4. row \in MemoryRow
  BY <1>2 DEF MemoryRow
<1> HIDE DEF f, k, row
<1>5. tx' = [map |-> [tx.map EXCEPT ![next] = f], seen |-> tx.seen \cup {k},
             rows |-> [tx.rows EXCEPT ![f] = row],
             chunks |-> tx.chunks, page |-> tx.page, task |-> tx.task, copies |-> tx.copies,
             inserted |-> tx.inserted + 1, skipped |-> tx.skipped, conflicts |-> tx.conflicts]
  BY <1>0, <1>1 DEF TxTyped
<1>6. /\ tx'.map = [tx.map EXCEPT ![next] = f] /\ tx'.seen = tx.seen \cup {k}
      /\ tx'.rows = [tx.rows EXCEPT ![f] = row]
      /\ tx'.chunks = tx.chunks /\ tx'.page = tx.page
      /\ tx'.task = tx.task /\ tx'.copies = tx.copies
      /\ tx'.inserted = tx.inserted + 1 /\ tx'.skipped = tx.skipped
      /\ tx'.conflicts = tx.conflicts
  BY <1>5
<1>7. tx'.rows[f] = row /\ \A i \in Ids \ {f} : tx'.rows[i] = tx.rows[i]
  BY <1>0, <1>1, <1>6 DEF TxTyped
<1>8. TxTyped'
  <2>1. tx'.map \in [DOMAIN v2 -> Ids \cup {0}] /\ tx'.seen \in SUBSET Keys
    BY <1>0, <1>1, <1>2, <1>6 DEF TxTyped
  <2>2. tx'.rows \in [Ids -> MemoryRow]
    BY <1>0, <1>1, <1>4, <1>6 DEF TxTyped
  <2> QED
    BY <1>0, <1>5, <1>6, <2>1, <2>2 DEF TxTyped
<1> QED
  BY <1>1, <1>3, <1>6, <1>7, <1>8 DEF f, k

(* What a row of the memories leaves alone. *)
LEMMA MemoryFrame ==
    ASSUME MigrationInv, at = "memory", Advance("chunks"), UNCHANGED <<v2, tables, history>>,
           TxTyped', tx'.page = tx.page, tx'.task = tx.task, tx'.copies = tx.copies
    PROVE  /\ Typed' /\ Surfaces' /\ NothingBeforeCommit' /\ EveryContentIsKept'
           /\ (quiet => calm)'
           /\ quiet /\ commits > 0 => Settled'
           /\ at' \notin PastWiki
<1>0. Typed /\ Surfaces /\ NothingBeforeCommit /\ EveryContentIsKept
  BY DEF MigrationInv
<1>1. UNCHANGED <<v2, memories, page, task, copies, runs, commits, writes, calm, quiet>>
  BY DEF tables, history
<1>2. next' \in DOMAIN v2 /\ at' \in {"memory", "chunks"}
  BY <1>0, <1>1, MemoryAdvance
<1>3. Typed'
  <2>1. at' # "idle" /\ at' \in Places /\ next' \in Nat
    BY <1>0, <1>1, <1>2, SourceTyped DEF Places
  <2> QED
    BY <1>0, <1>1, <1>2, <2>1 DEF Typed
<1>4. at' \notin PastWiki /\ at' \notin PastPieces /\ at' \notin PastKanban
      /\ (\A t \in Recognised : at' \notin PastTable(t))
      /\ at \notin PastWiki /\ at \notin PastKanban
  BY <1>2 DEF PastWiki, PastPieces, PastKanban, PastTable, PastJournal, PastSkills,
              PastSessions, PastMessages, PastChunks, PastMemory, Recognised, Tables
<1>5. Surfaces'
  BY <1>0, <1>1, <1>4 DEF Surfaces
<1>6. NothingBeforeCommit' /\ EveryContentIsKept'
  BY <1>0, <1>1 DEF NothingBeforeCommit, EveryContentIsKept, Imported
<1>7. quiet /\ commits > 0 => Settled'
  BY <1>1 DEF MigrationInv, Settled, Standing, Repeats
<1> QED
  BY <1>1, <1>3, <1>4, <1>5, <1>6, <1>7 DEF MigrationInv

(* A row that stands already, or whose key was seen: no row changes. *)
LEMMA SkippedStep ==
    ASSUME MigrationInv, at = "memory", Skip(next) \/ Conflict(next), Advance("chunks"),
           UNCHANGED <<v2, tables, history>>
    PROVE  MigrationInv'
<1>0. Typed /\ RowsApart /\ OneEach /\ ChunksApart /\ Progress
  BY DEF MigrationInv
<1>1. UNCHANGED <<v2, memories, page, commits, calm, quiet>>
  BY DEF tables, history
<1>2. /\ next \in DOMAIN v2 /\ ~ Behind(next)
      /\ \A r \in DOMAIN v2 : Behind(r)' <=> Behind(r) \/ r = next
      /\ \A r \in DOMAIN v2 : ~ ChunksBehind(r)'
  BY <1>0, <1>1, MemoryAdvance
<1>3. /\ TxTyped'
      /\ tx'.rows = tx.rows /\ tx'.chunks = tx.chunks /\ tx'.page = tx.page
      /\ tx'.task = tx.task /\ tx'.copies = tx.copies
  BY <1>0, <1>1, <1>2, SkipTx, ConflictTx
<1>4. /\ Typed' /\ Surfaces' /\ NothingBeforeCommit' /\ EveryContentIsKept'
      /\ (quiet => calm)'
      /\ quiet /\ commits > 0 => Settled'
      /\ at' \notin PastWiki
  BY <1>3, MemoryFrame
<1>5. \A i \in Ids : Visible(i)' = Visible(i) /\ VisibleChunks(i)' = VisibleChunks(i)
  BY <1>1, <1>3 DEF Visible, VisibleChunks
<1>6. RowsApart' /\ OneEach'
  <2>1. \A i \in Ids : (Truthful(memories[i]) /\ Truthful(tx.rows[i]))'
    BY <1>0, <1>1, <1>3 DEF RowsApart, Truthful
  <2>2. RowsApart'
    BY <1>0, <1>1, <1>3, <1>5, <2>1 DEF RowsApart
  <2> QED
    BY <1>0, <1>5, <2>2 DEF OneEach
<1>7. ChunksApart'
  BY <1>0, <1>1, <1>3, <1>5 DEF ChunksApart
<1>8. \A r \in DOMAIN v2 : Existing(r)' = Existing(r)
  BY <1>1, <1>5 DEF Existing
<1>9. \A r \in DOMAIN v2 : Known(r) => Known(r)'
  BY <1>1, <1>5 DEF Known
<1>10. v2[next].key \in tx'.seen /\ tx'.seen = tx.seen \cup {v2[next].key}
  BY <1>0, <1>1, <1>2, SkipTx, ConflictTx DEF Conflict, IsConflict
<1>11. \E i \in Ids : Visible(i).key = v2[next].key
  <2>1. CASE Skip(next)
    <3>1. PICK i \in Ids : Visible(i).origin = next \/ Visible(i).key = v2[next].key
      BY <2>1 DEF Skip, Existing
    <3>2. Truthful(Visible(i)) /\ next # 0
      BY <1>0, <1>2, VisibleTyped, SourceTyped
    <3> QED
      BY <3>1, <3>2 DEF Truthful
  <2>2. CASE Conflict(next)
    BY <1>0, <2>2 DEF Progress, Conflict, IsConflict
  <2> QED
    BY <2>1, <2>2
<1>12. /\ \A r \in DOMAIN v2 : Behind(r) => tx'.map[r] = tx.map[r]
       /\ \A r \in DOMAIN v2 : tx'.map[r] # 0 => Behind(r)' /\ Visible(tx'.map[r]) # NoRow
  <2>0. tx.map \in [DOMAIN v2 -> Ids \cup {0}]
    BY <1>0 DEF Typed, TxTyped
  <2>1. CASE Skip(next)
    <3>1. tx'.map = [tx.map EXCEPT ![next] = Min(Existing(next))]
          /\ Min(Existing(next)) \in Existing(next)
      BY <1>0, <1>1, <1>2, <2>1, SkipTx
    <3>2. \A i \in Existing(next) : Visible(i) # NoRow
      BY <1>0, <1>2, SourceTyped DEF Existing, NoRow
    <3> QED
      BY <1>0, <1>2, <2>0, <3>1, <3>2 DEF Progress
  <2>2. CASE Conflict(next)
    <3>1. tx'.map = tx.map
      BY <1>0, <1>1, <1>2, <2>2, ConflictTx
    <3> QED
      BY <1>0, <1>2, <3>1 DEF Progress
  <2> QED
    BY <2>1, <2>2
<1>13. Progress'
  <2>1. \A r \in DOMAIN v2 : Behind(r)' => Known(r)' /\ v2[r].key \in tx'.seen
    BY <1>0, <1>2, <1>9, <1>10, <1>11 DEF Progress, Known
  <2>2. \A k \in tx'.seen : \E i \in Ids : Visible(i)'.key = k
    BY <1>0, <1>5, <1>10, <1>11 DEF Progress
  <2>3. \A k \in tx'.seen : \E r \in DOMAIN v2 : Behind(r)' /\ v2[r].key = k
    BY <1>0, <1>2, <1>10 DEF Progress
  <2>4. \A r \in DOMAIN v2 : tx'.map[r] # 0 => Visible(tx.map[r])' # NoRow
    <3>1. \A r \in DOMAIN v2 : tx'.map[r] \in Ids \cup {0}
      BY <1>1, <1>3 DEF TxTyped
    <3>2. \A r \in DOMAIN v2 : tx'.map[r] # 0 => Visible(tx.map[r])' = Visible(tx'.map[r])
      BY <1>1, <1>3, <3>1 DEF Visible
    <3> QED
      BY <1>12, <3>2
  <2> QED
    BY <1>1, <1>12, <2>1, <2>2, <2>3, <2>4 DEF Progress
<1>14. ASSUME calm PROVE CalmRun'
  <2>1. CalmRun
    BY <1>14 DEF MigrationInv
  <2>2. IF Existing(next) = {} THEN Repeats(next) /\ tx'.map[next] = 0
        ELSE tx'.map[next] = Min(Existing(next))
    <3>1. CASE Skip(next)
      <4>1. tx'.map = [tx.map EXCEPT ![next] = Min(Existing(next))]
        BY <1>0, <1>1, <1>2, <3>1, SkipTx
      <4> QED
        BY <1>0, <1>2, <3>1, <4>1 DEF Typed, TxTyped, Skip
    <3>2. CASE Conflict(next)
      <4>1. tx'.map[next] = 0
        BY <1>0, <1>1, <1>2, <3>2, ConflictTx DEF Progress
      <4>2. PICK q \in DOMAIN v2 : Behind(q) /\ v2[q].key = v2[next].key
        BY <1>0, <3>2 DEF Progress, Conflict, IsConflict
      <4>3. q < next
        BY <4>2 DEF Behind, PastMemory
      <4> QED
        BY <3>2, <4>1, <4>2, <4>3 DEF Repeats, Conflict
    <3> QED
      BY <3>1, <3>2
  <2>3. \A r \in DOMAIN v2 : Repeats(r)' <=> Repeats(r)
    BY <1>1 DEF Repeats
  <2> QED
    BY <1>1, <1>2, <1>8, <1>12, <2>1, <2>2, <2>3 DEF CalmRun
<1>15. quiet /\ commits > 0 => Rerun'
  BY <1>3, <1>4 DEF MigrationInv, Rerun
<1> QED
  BY <1>1, <1>4, <1>6, <1>7, <1>13, <1>14, <1>15 DEF MigrationInv

(* A row is imported: it stands alone for its v2 row. *)
LEMMA ImportedStep ==
    ASSUME MigrationInv, at = "memory", Import(next), Advance("chunks"),
           UNCHANGED <<v2, tables, history>>
    PROVE  MigrationInv'
<1>a. PICK f : f = FreshId
  OBVIOUS
<1>b. PICK n : n = next
  OBVIOUS
<1>0. Typed /\ RowsApart /\ OneEach /\ ChunksApart /\ Progress
  BY DEF MigrationInv
<1>1. UNCHANGED <<v2, memories, page, commits, calm, quiet>>
  BY DEF tables, history
<1>2. /\ n \in DOMAIN v2 /\ ~ Behind(n)
      /\ \A r \in DOMAIN v2 : Behind(r)' <=> Behind(r) \/ r = n
      /\ \A r \in DOMAIN v2 : ~ ChunksBehind(r)'
      /\ v2[n].key \in Keys /\ n \in Nat /\ n # 0 /\ NoKey \notin Keys
  BY <1>0, <1>1, <1>b, MemoryAdvance, SourceTyped
<1> DEFINE k == v2[n].key
<1>3. /\ TxTyped' /\ f \in Ids
      /\ tx'.map = [tx.map EXCEPT ![n] = f] /\ tx'.seen = tx.seen \cup {k}
      /\ tx'.rows[f].state \in {"live", "deleted"} /\ tx'.rows[f].key = k
      /\ tx'.rows[f].origin = n /\ tx'.rows[f].chunks = {}
      /\ \A i \in Ids \ {f} : tx'.rows[i] = tx.rows[i]
      /\ tx'.chunks = tx.chunks /\ tx'.page = tx.page
      /\ tx'.task = tx.task /\ tx'.copies = tx.copies
  BY <1>0, <1>1, <1>2, <1>a, <1>b, ImportTx
<1>4. /\ Typed' /\ Surfaces' /\ NothingBeforeCommit' /\ EveryContentIsKept'
      /\ (quiet => calm)'
      /\ quiet /\ commits > 0 => Settled'
      /\ at' \notin PastWiki
  BY <1>3, MemoryFrame
<1>5. Visible(f) = NoRow /\ tx.rows[f] = NoRow /\ memories[f] = NoRow
  BY <1>0, <1>3, <1>a, FreshIdIsFree
<1>6. Existing(n) = {} /\ k \notin tx.seen
  BY <1>b DEF Import, IsConflict
<1> HIDE DEF k
<1>7. /\ tx'.rows[f] # NoRow /\ Visible(f)' = tx'.rows[f]
      /\ \A i \in Ids \ {f} : Visible(i)' = Visible(i) /\ VisibleChunks(i)' = VisibleChunks(i)
  BY <1>1, <1>2, <1>3 DEF Visible, VisibleChunks, NoRow
<1>8. tx.chunks[f] = {} /\ VisibleChunks(f)' = {}
  BY <1>0, <1>3, <1>5, <1>7 DEF RowsApart, VisibleChunks
<1>9. \A i \in Ids : Visible(i) # NoRow => i # f
  BY <1>5
<1>10. \A i \in Ids : Visible(i).origin = n => FALSE
  BY <1>6 DEF Existing
<1>11. RowsApart'
  <2>1. \A i \in Ids : Truthful(memories[i])'
    BY <1>0, <1>1 DEF RowsApart, Truthful
  <2>2. \A i \in Ids \ {f} : Truthful(tx.rows[i])'
    BY <1>0, <1>1, <1>3 DEF RowsApart, Truthful
  <2>3. Truthful(tx.rows[f])'
    BY <1>1, <1>2, <1>3 DEF Truthful, k
  <2>4. \A i \in Ids : tx'.rows[i] # NoRow =>
           memories'[i] = NoRow /\ tx'.rows[i].origin # 0 /\ tx'.rows[i].chunks = {}
    BY <1>0, <1>1, <1>2, <1>3, <1>5 DEF RowsApart
  <2>5. \A i \in Ids : tx'.chunks[i] # {} => Visible(i)' # NoRow
    BY <1>0, <1>3, <1>7 DEF RowsApart
  <2> QED
    BY <2>1, <2>2, <2>3, <2>4, <2>5 DEF RowsApart
<1>12. OneEach'
  <2>1. \A i \in Ids \ {f} : Visible(i)'.origin = Visible(i).origin /\ Visible(i)'.origin # n
    BY <1>7, <1>10
  <2>2. Visible(f)'.origin = n
    BY <1>3, <1>7
  <2> QED
    BY <1>0, <2>1, <2>2 DEF OneEach
<1>13. ChunksApart'
  BY <1>0, <1>1, <1>3, <1>7, <1>8 DEF ChunksApart, Indexed
<1>14. Progress'
  <2>1. \A r \in DOMAIN v2 : Known(r) => Known(r)'
    <3> SUFFICES ASSUME NEW r \in DOMAIN v2, Known(r) PROVE Known(r)'
      OBVIOUS
    <3>1. PICK i \in Ids : Visible(i).origin = r \/ Visible(i).key = v2[r].key
      BY DEF Known
    <3>2. v2[r].key \in Keys /\ r # 0
      BY <1>0, SourceTyped
    <3>3. i # f
      BY <1>2, <1>5, <3>1, <3>2 DEF NoRow
    <3> QED
      BY <1>1, <1>7, <3>1, <3>3 DEF Known
  <2>2. \A r \in DOMAIN v2 : Behind(r)' => Known(r)' /\ v2[r].key \in tx'.seen
    BY <1>0, <1>1, <1>2, <1>3, <1>7, <2>1 DEF Progress, Known, k
  <2>3. \A q \in tx'.seen : \E i \in Ids : Visible(i)'.key = q
    <3>1. \A q \in tx.seen : q \in Keys /\ \E i \in Ids : Visible(i).key = q
      BY <1>0 DEF Typed, TxTyped, Progress
    <3>2. \A q \in tx.seen : \E i \in Ids \ {f} : Visible(i).key = q
      BY <1>2, <1>5, <3>1 DEF NoRow
    <3> QED
      BY <1>3, <1>7, <3>2
  <2>4. \A q \in tx'.seen : \E r \in DOMAIN v2 : Behind(r)' /\ v2[r].key = q
    BY <1>0, <1>2, <1>3 DEF Progress, k
  <2>5. \A r \in DOMAIN v2 : tx'.map[r] # 0 => Behind(r)' /\ Visible(tx.map[r])' # NoRow
    <3>0. tx.map \in [DOMAIN v2 -> Ids \cup {0}]
      BY <1>0 DEF Typed, TxTyped
    <3>1. \A i \in Ids : Visible(i) # NoRow => Visible(i)' # NoRow
      BY <1>7
    <3>2. \A i \in Ids : Visible(i)' = IF tx'.rows[i] # NoRow THEN tx'.rows[i] ELSE memories'[i]
      BY DEF Visible
    <3>3. \A r \in DOMAIN v2 \ {n} : tx'.map[r] = tx.map[r]
      BY <1>3, <3>0
    <3>4. tx'.map[n] = f
      BY <1>2, <1>3, <3>0
    <3>5. Visible(tx.map[n])' # NoRow
      BY <1>3, <1>7, <3>4 DEF Visible
    <3>6. \A r \in DOMAIN v2 \ {n} : tx'.map[r] # 0 =>
             Behind(r) /\ tx.map[r] \in Ids /\ Visible(tx.map[r]) # NoRow
      BY <1>0, <3>0, <3>3 DEF Progress
    <3>7. \A r \in DOMAIN v2 \ {n} : tx'.map[r] # 0 => Visible(tx.map[r])' # NoRow
      BY <3>1, <3>2, <3>3, <3>6 DEF Visible
    <3> QED
      BY <1>2, <3>5, <3>6, <3>7
  <2> QED
    BY <1>1, <2>2, <2>3, <2>4, <2>5 DEF Progress
<1>15. ASSUME calm PROVE CalmRun'
  <2>1. CalmRun
    BY <1>15 DEF MigrationInv
  <2>2. tx.map \in [DOMAIN v2 -> Ids \cup {0}]
    BY <1>0 DEF Typed, TxTyped
  <2>3. \A r \in DOMAIN v2 : Behind(r) => r # n /\ v2[r].key # k /\ tx'.map[r] = tx.map[r]
    BY <1>0, <1>2, <1>3, <1>6, <2>2 DEF Progress
  <2>4. ASSUME NEW r \in DOMAIN v2, Behind(r) PROVE Existing(r)' = Existing(r)
    <3>1. f \notin Existing(r)
      BY <1>0, <1>5, SourceTyped DEF Existing, NoRow
    <3>2. ~ (Visible(f)'.origin = r \/ (Visible(f)'.state = "live" /\ Visible(f)'.key = v2[r].key))
      BY <1>3, <1>7, <2>3, <2>4
    <3> QED
      BY <1>1, <1>7, <3>1, <3>2 DEF Existing
  <2>5. Existing(n)' = {f} /\ tx'.map[n] = f /\ Min({f}) = f
    <3>1. Existing(n)' = {i \in Ids : \/ Visible(i)'.origin = n
                                      \/ Visible(i)'.state = "live" /\ Visible(i)'.key = v2[n].key}
      BY <1>1 DEF Existing
    <3>2. \A i \in Ids \ {f} :
             ~ (Visible(i)'.origin = n \/ (Visible(i)'.state = "live" /\ Visible(i)'.key = v2[n].key))
      BY <1>6, <1>7 DEF Existing
    <3>3. Existing(n)' = {f}
      BY <1>3, <1>7, <3>1, <3>2
    <3>4. tx'.map[n] = f
      BY <1>2, <1>3, <2>2
    <3> QED
      BY <1>3, <3>3, <3>4, MinSingle DEF Ids
  <2>6. \A r \in DOMAIN v2 : Repeats(r)' <=> Repeats(r)
    BY <1>1 DEF Repeats
  <2> QED
    BY <1>1, <1>2, <2>1, <2>3, <2>4, <2>5, <2>6 DEF CalmRun
<1>16. ~ (quiet /\ commits > 0)
  <2> SUFFICES ASSUME quiet, commits > 0 PROVE FALSE
    OBVIOUS
  <2>1. Settled /\ Rerun
    BY DEF MigrationInv
  <2>2. Standing(n) = Existing(n)
    BY <2>1 DEF Rerun, Standing, Existing, Visible
  <2>3. Repeats(n)
    BY <1>2, <1>6, <2>1, <2>2 DEF Settled
  <2>4. PICK q \in DOMAIN v2 : q < n /\ v2[q].key = k
    BY <2>3 DEF Repeats, k
  <2>5. Behind(q)
    BY <1>b, <2>4 DEF Behind, PastMemory
  <2> QED
    BY <1>0, <1>6, <2>4, <2>5 DEF Progress
<1> QED
  BY <1>1, <1>4, <1>11, <1>12, <1>13, <1>14, <1>15, <1>16 DEF MigrationInv

LEMMA MemoryStep == ASSUME MigrationInv, MigrateMemory PROVE MigrationInv'
BY SkippedStep, ImportedStep DEF MigrateMemory

-----------------------------------------------------------------------------
(* Migration: the chunks of a v2 row, and the surfaces after them.         *)

(* A step of the run that leaves the rows, the map and the keys alone. *)
LEMMA SameRows ==
    ASSUME MigrationInv, UNCHANGED <<v2, tables, history>>,
           tx'.rows = tx.rows, tx'.map = tx.map, tx'.seen = tx.seen,
           at \in PastMemory, at' \in PastMemory
    PROVE  /\ \A i \in Ids : Visible(i)' = Visible(i)
           /\ \A i \in Ids : (Truthful(memories[i]) /\ Truthful(tx.rows[i]))'
           /\ \A r \in DOMAIN v2 : Existing(r)' = Existing(r) /\ (Repeats(r)' <=> Repeats(r))
           /\ OneEach' /\ Progress' /\ NothingBeforeCommit' /\ EveryContentIsKept'
           /\ (quiet => calm)'
           /\ quiet /\ commits > 0 => Settled'
<1>0. Typed /\ RowsApart /\ OneEach /\ Progress /\ NothingBeforeCommit /\ EveryContentIsKept
  BY DEF MigrationInv
<1>1. UNCHANGED <<v2, memories, page, task, copies, commits, calm, quiet>>
  BY DEF tables, history
<1>2. \A i \in Ids : Visible(i)' = Visible(i)
  BY <1>1 DEF Visible
<1>3. \A i \in Ids : (Truthful(memories[i]) /\ Truthful(tx.rows[i]))'
  BY <1>0, <1>1 DEF RowsApart, Truthful
<1>4. \A r \in DOMAIN v2 : Existing(r)' = Existing(r) /\ (Repeats(r)' <=> Repeats(r))
  BY <1>1, <1>2 DEF Existing, Repeats
<1>5. OneEach'
  BY <1>0, <1>2 DEF OneEach
<1>6. \A r \in DOMAIN v2 : Behind(r) /\ Behind(r)'
  BY DEF Behind
<1>7. Progress'
  <2>1. \A r \in DOMAIN v2 : Behind(r)' => Known(r)' /\ v2[r].key \in tx.seen
    BY <1>0, <1>1, <1>2, <1>6 DEF Progress, Known
  <2>2. \A k \in tx.seen : \E i \in Ids : Visible(i)'.key = k
    BY <1>0, <1>2 DEF Progress
  <2>3. \A k \in tx.seen : \E r \in DOMAIN v2 : Behind(r)' /\ v2[r].key = k
    BY <1>0, <1>6 DEF Progress
  <2>4. \A r \in DOMAIN v2 : tx.map[r] # 0 => Behind(r)' /\ Visible(tx.map[r])' # NoRow
    BY <1>0, <1>1, <1>6 DEF Progress, Visible
  <2> QED
    BY <1>1, <2>1, <2>2, <2>3, <2>4 DEF Progress
<1>8. NothingBeforeCommit' /\ EveryContentIsKept'
  BY <1>0, <1>1 DEF NothingBeforeCommit, EveryContentIsKept, Imported
<1>9. quiet /\ commits > 0 => Settled'
  BY <1>1 DEF MigrationInv, Settled, Standing, Repeats
<1> QED
  BY <1>1, <1>2, <1>3, <1>4, <1>5, <1>7, <1>8, <1>9 DEF MigrationInv

(* The row whose chunks were next is behind. *)
LEMMA ChunksAdvance ==
    ASSUME Typed, at = "chunks", Advance("wiki"), UNCHANGED v2
    PROVE  /\ next \in DOMAIN v2 /\ at' \in {"chunks", "wiki"}
           /\ next' \in Nat /\ (at' = "chunks" => next' \in DOMAIN v2)
           /\ \A r \in DOMAIN v2 : ChunksBehind(r)' <=> ChunksBehind(r) \/ r = next
           /\ ~ ChunksBehind(next)
           /\ \A r \in DOMAIN v2 : Behind(r) /\ Behind(r)'
<1>1. next \in DOMAIN v2 /\ DOMAIN v2 = 1..Len(v2) /\ Len(v2) \in Nat
  BY SourceTyped DEF Typed
<1>2. at' \in {"chunks", "wiki"} /\ next' \in Nat /\ (at' = "chunks" => next' \in DOMAIN v2)
  BY <1>1 DEF Advance
<1>3. \A r \in DOMAIN v2 : ChunksBehind(r) <=> r < next
  BY DEF ChunksBehind, PastMemory, PastChunks
<1>4. \A r \in DOMAIN v2 : ChunksBehind(r)' <=> ChunksBehind(r) \/ r = next
  <2>1. CASE next < Len(v2)
    <3>1. at' = "chunks" /\ next' = next + 1
      BY <2>1 DEF Advance
    <3>2. \A r \in DOMAIN v2 : ChunksBehind(r)' <=> r < next + 1
      BY <3>1 DEF ChunksBehind, PastMemory, PastChunks
    <3> QED
      BY <1>1, <1>3, <3>2
  <2>2. CASE ~ (next < Len(v2))
    <3>1. at' = "wiki"
      BY <2>2 DEF Advance
    <3>2. \A r \in DOMAIN v2 : ChunksBehind(r)'
      BY <3>1 DEF ChunksBehind, PastMemory, PastChunks, Places
    <3> QED
      BY <1>1, <1>3, <2>2, <3>2
  <2> QED
    BY <2>1, <2>2
<1>5. \A r \in DOMAIN v2 : Behind(r) /\ Behind(r)'
  BY <1>2 DEF Behind, PastMemory, Places
<1>6. ~ ChunksBehind(next)
  BY <1>1, <1>3
<1> QED
  BY <1>1, <1>2, <1>4, <1>5, <1>6

(* The chunks a row has not: their indices are new to it and it has all of
   them then. *)
LEMMA ChunksAdded ==
    ASSUME Typed, RowsApart, ChunksApart, NEW r \in DOMAIN v2, NEW i \in Ids
    PROVE  /\ NewChunks(r, i) \in SUBSET (Nat \X Nat)
           /\ Indexed(VisibleChunks(i) \cup NewChunks(r, i))
           /\ Covers(VisibleChunks(i) \cup NewChunks(r, i), v2[r].chunks)
           /\ Covers(VisibleChunks(i), v2[r].chunks) => NewChunks(r, i) = {}
<1>1. r \in Nat /\ v2[r].chunks \in Nat
  BY SourceTyped
<1>2. NewChunks(r, i) \in SUBSET (Nat \X Nat)
  BY <1>1 DEF NewChunks
<1>3. Indexed(VisibleChunks(i))
  BY DEF ChunksApart
<1>4. \A c \in NewChunks(r, i) : c = <<c[1], r>> /\ \A d \in VisibleChunks(i) : d[1] # c[1]
  BY DEF NewChunks
<1>5. Indexed(VisibleChunks(i) \cup NewChunks(r, i))
  BY <1>3, <1>4 DEF Indexed
<1>6. Covers(VisibleChunks(i) \cup NewChunks(r, i), v2[r].chunks)
  <2> SUFFICES ASSUME NEW m \in 1..v2[r].chunks
               PROVE  \E c \in VisibleChunks(i) \cup NewChunks(r, i) : c[1] = m
    BY DEF Covers
  <2>1. CASE \A d \in VisibleChunks(i) : d[1] # m
    <3>1. <<m, r>> \in NewChunks(r, i)
      BY <2>1 DEF NewChunks
    <3> QED
      BY <3>1
  <2> QED
    BY <2>1
<1>7. Covers(VisibleChunks(i), v2[r].chunks) => NewChunks(r, i) = {}
  BY DEF Covers, NewChunks
<1> QED
  BY <1>2, <1>5, <1>6, <1>7

LEMMA ChunksStep == ASSUME MigrationInv, MigrateChunks PROVE MigrationInv'
<1>0. Typed /\ RowsApart /\ ChunksApart /\ Progress /\ Surfaces /\ TxTyped
  BY DEF MigrationInv, Typed
<1>1. UNCHANGED <<v2, memories, page, task, copies, runs, commits, writes, calm, quiet>>
  BY DEF MigrateChunks, tables, history
<1>a. PICK n : n = next
  OBVIOUS
<1>b. PICK i : i = tx.map[n]
  OBVIOUS
<1>c. PICK new : new = IF i = 0 THEN {} ELSE NewChunks(n, i)
  OBVIOUS
<1>2. /\ n \in DOMAIN v2 /\ at' \in {"chunks", "wiki"} /\ at = "chunks"
      /\ next' \in Nat /\ (at' = "chunks" => next' \in DOMAIN v2)
      /\ \A r \in DOMAIN v2 : ChunksBehind(r)' => ChunksBehind(r) \/ r = n
      /\ \A r \in DOMAIN v2 : Behind(r) /\ Behind(r)'
  BY <1>0, <1>a, ChunksAdvance DEF MigrateChunks
<1>3. i \in Ids \cup {0} /\ (i # 0 => i \in Ids /\ Visible(i) # NoRow) /\ 0 \notin Ids
  BY <1>0, <1>2, <1>b DEF TxTyped, Progress, Ids
<1>4. new \in SUBSET (Nat \X Nat)
  BY <1>0, <1>2, <1>3, <1>c, ChunksAdded
<1> DEFINE inserted == tx.inserted + Cardinality(new)
           skipped == tx.skipped + v2[n].chunks - Cardinality(new)
           added == [j \in Ids |-> IF j = i THEN tx.chunks[j] \cup new ELSE tx.chunks[j]]
<1>5. tx' = [tx EXCEPT !.chunks = added, !.inserted = inserted, !.skipped = skipped]
  <2>1. /\ tx' = [tx EXCEPT !.chunks = [j \in Ids |-> IF j = i THEN @[j] \cup new ELSE @[j]],
                             !.inserted = @ + Cardinality(new),
                             !.skipped = @ + v2[n].chunks - Cardinality(new)]
    BY <1>a, <1>b, <1>c, Zenon DEF MigrateChunks
  <2> QED
    BY <2>1, Zenon
<1>6. added \in [Ids -> SUBSET (Nat \X Nat)]
  BY <1>0, <1>4 DEF TxTyped
<1> HIDE DEF inserted, skipped, added
<1>7. tx' = [map |-> tx.map, seen |-> tx.seen, rows |-> tx.rows, chunks |-> added,
             page |-> tx.page, task |-> tx.task, copies |-> tx.copies,
             inserted |-> inserted, skipped |-> skipped, conflicts |-> tx.conflicts]
  BY <1>0, <1>5 DEF TxTyped
<1>8. /\ tx'.map = tx.map /\ tx'.seen = tx.seen /\ tx'.rows = tx.rows /\ tx'.chunks = added
      /\ tx'.page = tx.page /\ tx'.task = tx.task /\ tx'.copies = tx.copies
  BY <1>7
<1>9. TxTyped'
  BY <1>0, <1>1, <1>6, <1>7 DEF TxTyped
<1>10. \A j \in Ids : tx'.chunks[j] = IF j = i THEN tx.chunks[j] \cup new ELSE tx.chunks[j]
  BY <1>8 DEF added
<1>11. Typed'
  BY <1>0, <1>1, <1>2, <1>9 DEF Typed, Places
<1>12. /\ \A j \in Ids : Visible(j)' = Visible(j)
       /\ \A j \in Ids : (Truthful(memories[j]) /\ Truthful(tx.rows[j]))'
       /\ \A r \in DOMAIN v2 : Existing(r)' = Existing(r) /\ (Repeats(r)' <=> Repeats(r))
       /\ OneEach' /\ Progress' /\ NothingBeforeCommit' /\ EveryContentIsKept'
       /\ (quiet => calm)'
       /\ quiet /\ commits > 0 => Settled'
  <2>1. at \in PastMemory /\ at' \in PastMemory
    BY <1>2 DEF PastMemory, Places
  <2> QED
    BY <1>8, <2>1, SameRows DEF MigrateChunks
<1>13. \A j \in Ids : VisibleChunks(j)' = IF j = i THEN VisibleChunks(j) \cup new
                                          ELSE VisibleChunks(j)
  BY <1>10, <1>12 DEF VisibleChunks
<1>14. RowsApart'
  <2>1. \A j \in Ids : tx'.chunks[j] # {} => Visible(j)' # NoRow
    BY <1>0, <1>3, <1>10, <1>12 DEF RowsApart
  <2> QED
    BY <1>0, <1>1, <1>8, <1>12, <2>1 DEF RowsApart
<1>15. ChunksApart'
  <2>1. \A j \in Ids : Indexed(VisibleChunks(j)')
    BY <1>0, <1>2, <1>3, <1>13, <1>c, ChunksAdded DEF ChunksApart
  <2>2. Indexed(page.chunks)' /\ Indexed(tx.page.chunks)'
    BY <1>0, <1>1, <1>8 DEF ChunksApart
  <2> QED
    BY <2>1, <2>2 DEF ChunksApart, Indexed
<1>16. ASSUME calm PROVE CalmRun'
  <2>1. CalmRun
    BY <1>16 DEF MigrationInv
  <2>2. ASSUME NEW r \in DOMAIN v2, ChunksBehind(r)', tx.map[r] # 0, NEW j, j = tx.map[r]
        PROVE  Covers(VisibleChunks(j), v2[r].chunks)'
    <3>1. j \in Ids
      BY <1>0, <2>2 DEF TxTyped
    <3>2. CASE r = n
      <4>1. j = i /\ new = NewChunks(n, i)
        BY <1>b, <1>c, <2>2, <3>2
      <4>2. Covers(VisibleChunks(i) \cup new, v2[n].chunks)
        BY <1>0, <1>2, <3>1, <4>1, ChunksAdded
      <4> QED
        BY <1>1, <1>13, <3>1, <3>2, <4>1, <4>2
    <3>3. CASE r # n
      <4>1. Covers(VisibleChunks(j), v2[r].chunks)
        BY <1>2, <2>1, <2>2, <3>3 DEF CalmRun
      <4> QED
        BY <1>1, <1>13, <3>1, <4>1 DEF Covers
    <3> QED
      BY <3>2, <3>3
  <2>3. \A r \in DOMAIN v2 : ChunksBehind(r)' /\ tx'.map[r] # 0 =>
           Covers(VisibleChunks(tx.map[r]), v2[r].chunks)'
    <3> SUFFICES ASSUME NEW r \in DOMAIN v2, ChunksBehind(r)', tx.map[r] # 0
                 PROVE  Covers(VisibleChunks(tx.map[r]), v2[r].chunks)'
      BY <1>8
    <3>1. PICK j : j = tx.map[r]
      OBVIOUS
    <3>2. Covers(VisibleChunks(j), v2[r].chunks)'
      BY <2>2, <3>1
    <3> QED
      BY <1>8, <3>1, <3>2 DEF VisibleChunks, Visible
  <2> QED
    BY <1>1, <1>2, <1>8, <1>12, <2>1, <2>3 DEF CalmRun
<1>17. Surfaces'
  <2>1. at' \notin PastWiki /\ at' \notin PastPieces /\ at' \notin PastKanban
        /\ (\A t \in Recognised : at' \notin PastTable(t))
        /\ at \notin PastWiki /\ at \notin PastKanban
    BY <1>2 DEF PastWiki, PastPieces, PastKanban, PastTable, PastJournal, PastSkills,
                PastSessions, PastMessages, PastChunks, PastMemory, Recognised, Tables
  <2> QED
    BY <1>0, <1>1, <1>8, <2>1 DEF Surfaces
<1>18. ASSUME quiet, commits > 0 PROVE Rerun'
  <2>1. Settled /\ Rerun /\ CalmRun
    BY <1>18 DEF MigrationInv
  <2>2. new = {}
    <3>1. CASE i = 0
      BY <1>c, <3>1
    <3>2. CASE i # 0
      <4>1. i = Min(Existing(n)) /\ Existing(n) # {}
        BY <1>2, <1>b, <2>1, <3>2 DEF CalmRun
      <4>2. Standing(n) = Existing(n)
        BY <2>1 DEF Rerun, Standing, Existing, Visible
      <4>3. Covers(memories[i].chunks, v2[n].chunks)
        BY <1>2, <2>1, <4>1, <4>2 DEF Settled
      <4>4. VisibleChunks(i) = memories[i].chunks
        BY <1>3, <2>1, <3>2 DEF Rerun, VisibleChunks, Visible
      <4> QED
        BY <1>0, <1>2, <1>3, <1>c, <3>2, <4>3, <4>4, ChunksAdded
    <3> QED
      BY <3>1, <3>2
  <2>3. \A j \in Ids : tx'.rows[j] = NoRow /\ tx'.chunks[j] = {}
    BY <1>8, <1>10, <2>1, <2>2 DEF Rerun
  <2>4. at' \notin PastWiki
    BY <1>2 DEF PastWiki, PastChunks, PastMemory
  <2> QED
    BY <2>3, <2>4 DEF Rerun
<1> QED
  BY <1>1, <1>11, <1>12, <1>14, <1>15, <1>16, <1>17, <1>18 DEF MigrationInv

(* What the surfaces after the chunks leave alone. *)
LEMMA LaterFrame ==
    ASSUME MigrationInv, UNCHANGED <<v2, tables, next, history>>, TxTyped',
           tx'.rows = tx.rows, tx'.map = tx.map, tx'.seen = tx.seen, tx'.chunks = tx.chunks,
           Indexed(tx'.page.chunks), at \in PastChunks, at' \in PastChunks
    PROVE  /\ Typed' /\ RowsApart' /\ OneEach' /\ ChunksApart' /\ Progress'
           /\ NothingBeforeCommit' /\ EveryContentIsKept'
           /\ (quiet => calm)' /\ (calm => CalmRun)'
           /\ quiet /\ commits > 0 => Settled' /\ \A i \in Ids : tx'.rows[i] = NoRow
                                                                 /\ tx'.chunks[i] = {}
<1>0. Typed /\ RowsApart /\ ChunksApart
  BY DEF MigrationInv
<1>1. UNCHANGED <<v2, memories, page, task, copies, runs, commits, writes, calm, quiet>>
  BY DEF tables, history
<1>2. at \in PastMemory /\ at' \in PastMemory
  BY DEF PastChunks
<1>3. /\ \A i \in Ids : Visible(i)' = Visible(i)
      /\ \A i \in Ids : (Truthful(memories[i]) /\ Truthful(tx.rows[i]))'
      /\ \A r \in DOMAIN v2 : Existing(r)' = Existing(r) /\ (Repeats(r)' <=> Repeats(r))
      /\ OneEach' /\ Progress' /\ NothingBeforeCommit' /\ EveryContentIsKept'
      /\ (quiet => calm)'
      /\ quiet /\ commits > 0 => Settled'
  BY <1>2, SameRows
<1>4. Typed'
  <2>1. at' \in Places /\ at # "idle" /\ at' \notin {"idle", "memory", "chunks"}
    BY DEF PastChunks, PastMemory
  <2> QED
    BY <1>0, <1>1, <2>1 DEF Typed
<1>5. RowsApart'
  BY <1>0, <1>1, <1>3 DEF RowsApart
<1>6. \A i \in Ids : VisibleChunks(i)' = VisibleChunks(i)
  BY <1>3 DEF VisibleChunks
<1>7. ChunksApart'
  BY <1>0, <1>1, <1>6 DEF ChunksApart, Indexed
<1>8. (calm => CalmRun)'
  <2> SUFFICES ASSUME calm PROVE CalmRun'
    BY <1>1
  <2>1. CalmRun
    BY DEF MigrationInv
  <2>2. \A r \in DOMAIN v2 : Behind(r) /\ ChunksBehind(r)
    BY <1>2 DEF Behind, ChunksBehind
  <2>3. \A r \in DOMAIN v2 : VisibleChunks(tx.map[r])' = VisibleChunks(tx.map[r])
    BY <1>1 DEF VisibleChunks, Visible
  <2> QED
    BY <1>1, <1>3, <2>1, <2>2, <2>3 DEF CalmRun, Covers
<1>9. quiet /\ commits > 0 => \A i \in Ids : tx'.rows[i] = NoRow /\ tx'.chunks[i] = {}
  BY DEF MigrationInv, Rerun
<1> QED
  BY <1>3, <1>4, <1>5, <1>7, <1>8, <1>9

LEMMA WikiStep == ASSUME MigrationInv, MigrateWiki PROVE MigrationInv'
<1>0. Typed /\ TxTyped /\ Surfaces /\ ChunksApart
  BY DEF MigrationInv, Typed
<1>1. at = "wiki" /\ at' = "pieces" /\ UNCHANGED <<v2, tables, next, history>>
      /\ UNCHANGED <<v2, memories, page, task, copies, commits, calm, quiet>>
  BY DEF MigrateWiki, tables, history
<1>a. PICK new : new = IF page = NoPage THEN [body |-> "v2", version |-> 1, chunks |-> {}]
                       ELSE [page EXCEPT !.body = "v2"]
  OBVIOUS
<1>2. page \in PageRow
  BY <1>0 DEF Typed
<1>3. new \in PageRow /\ new.body = "v2" /\ Indexed(new.chunks) /\ (page.body = "v2" => new = page)
  <2>1. CASE page = NoPage
    BY <1>a, <2>1 DEF PageRow, Bodies, Indexed, NoPage
  <2>2. CASE page # NoPage
    BY <1>0, <1>2, <1>a, <2>2 DEF PageRow, Bodies, ChunksApart
  <2> QED
    BY <2>1, <2>2
<1>4. tx' = [tx EXCEPT !.page = new]
  BY <1>a, Zenon DEF MigrateWiki
<1>5. tx' = [map |-> tx.map, seen |-> tx.seen, rows |-> tx.rows, chunks |-> tx.chunks,
             page |-> new, task |-> tx.task, copies |-> tx.copies,
             inserted |-> tx.inserted, skipped |-> tx.skipped, conflicts |-> tx.conflicts]
  BY <1>0, <1>4 DEF TxTyped
<1>6. /\ tx'.map = tx.map /\ tx'.seen = tx.seen /\ tx'.rows = tx.rows /\ tx'.chunks = tx.chunks
      /\ tx'.page = new /\ tx'.task = tx.task /\ tx'.copies = tx.copies
  BY <1>5
<1>7. TxTyped'
  BY <1>0, <1>1, <1>3, <1>5 DEF TxTyped
<1>8. at \in PastChunks /\ at' \in PastChunks
  BY <1>1 DEF PastChunks, PastMemory, Places
<1>9. at' \in PastWiki /\ at' \notin PastPieces /\ at' \notin PastKanban /\ at \notin PastKanban
      /\ \A t \in Recognised : at' \notin PastTable(t)
  BY <1>1 DEF Places, PastWiki, PastPieces, PastKanban, PastTable, PastJournal, PastSkills,
              PastSessions, PastMessages, PastChunks, PastMemory, Recognised, Tables
<1>10. Surfaces'
  BY <1>0, <1>1, <1>3, <1>6, <1>9 DEF Surfaces
<1>11. /\ Typed' /\ RowsApart' /\ OneEach' /\ ChunksApart' /\ Progress'
       /\ NothingBeforeCommit' /\ EveryContentIsKept'
       /\ (quiet => calm)' /\ (calm => CalmRun)'
       /\ quiet /\ commits > 0 => Settled' /\ \A i \in Ids : tx'.rows[i] = NoRow
                                                             /\ tx'.chunks[i] = {}
  BY <1>1, <1>3, <1>6, <1>7, <1>8, LaterFrame
<1>12. quiet /\ commits > 0 => Rerun'
  <2>1. quiet /\ commits > 0 => page.body = "v2"
    BY DEF MigrationInv, Settled
  <2> QED
    BY <1>1, <1>3, <1>6, <1>11, <2>1 DEF Rerun
<1> QED
  BY <1>1, <1>10, <1>11, <1>12 DEF MigrationInv

LEMMA PiecesStep == ASSUME MigrationInv, MigratePieces PROVE MigrationInv'
<1>0. Typed /\ TxTyped /\ Surfaces /\ ChunksApart
  BY DEF MigrationInv, Typed
<1>1. at = "pieces" /\ at' = "journal" /\ UNCHANGED <<v2, tables, next, history>>
      /\ UNCHANGED <<v2, memories, page, task, copies, commits, calm, quiet>>
  BY DEF MigratePieces, tables, history
<1>a. PICK new : new = [tx.page EXCEPT !.chunks = @ \cup NewPieces]
  OBVIOUS
<1>2. tx.page \in PageRow
  BY <1>0 DEF TxTyped
<1>3. /\ new \in PageRow /\ new.body = tx.page.body /\ Indexed(new.chunks)
      /\ Covers(new.chunks, Pieces["v2"])
      /\ Covers(tx.page.chunks, Pieces["v2"]) => new = tx.page
  <2>1. Pieces["v2"] \in Nat
    BY MigrationAssumption DEF Bodies
  <2>2. /\ new.body = tx.page.body /\ new.version = tx.page.version
        /\ new.chunks = tx.page.chunks \cup NewPieces
    BY <1>2, <1>a DEF PageRow
  <2>3. NewPieces \in SUBSET (Nat \X Bodies)
    BY <2>1 DEF NewPieces, Bodies
  <2>4. new \in PageRow
    BY <1>2, <1>a, <2>3 DEF PageRow, Bodies
  <2>5. \A c \in NewPieces : c = <<c[1], "v2">> /\ \A d \in tx.page.chunks : d[1] # c[1]
    BY DEF NewPieces
  <2>6. Indexed(new.chunks)
    BY <1>0, <2>2, <2>5 DEF Indexed, ChunksApart
  <2>7. Covers(new.chunks, Pieces["v2"])
    <3> SUFFICES ASSUME NEW m \in 1..Pieces["v2"] PROVE \E c \in new.chunks : c[1] = m
      BY DEF Covers
    <3>1. CASE \A d \in tx.page.chunks : d[1] # m
      <4>1. <<m, "v2">> \in NewPieces
        BY <3>1 DEF NewPieces
      <4> QED
        BY <2>2, <4>1
    <3> QED
      BY <2>2, <3>1
  <2>8. Covers(tx.page.chunks, Pieces["v2"]) => NewPieces = {}
    BY DEF Covers, NewPieces
  <2>9. NewPieces = {} => new = tx.page
    BY <1>2, <1>a DEF PageRow
  <2> QED
    BY <2>2, <2>4, <2>6, <2>7, <2>8, <2>9
<1>4. tx' = [tx EXCEPT !.page = new]
  BY <1>a, Zenon DEF MigratePieces
<1>5. tx' = [map |-> tx.map, seen |-> tx.seen, rows |-> tx.rows, chunks |-> tx.chunks,
             page |-> new, task |-> tx.task, copies |-> tx.copies,
             inserted |-> tx.inserted, skipped |-> tx.skipped, conflicts |-> tx.conflicts]
  BY <1>0, <1>4 DEF TxTyped
<1>6. /\ tx'.map = tx.map /\ tx'.seen = tx.seen /\ tx'.rows = tx.rows /\ tx'.chunks = tx.chunks
      /\ tx'.page = new /\ tx'.task = tx.task /\ tx'.copies = tx.copies
  BY <1>5
<1>7. TxTyped'
  BY <1>0, <1>1, <1>3, <1>5 DEF TxTyped
<1>8. at \in PastChunks /\ at' \in PastChunks /\ at \in PastWiki
  BY <1>1 DEF PastWiki, PastChunks, PastMemory, Places, Tables, Recognised
<1>9. at' \in PastWiki /\ at' \notin PastKanban /\ at \notin PastKanban
      /\ \A t \in Recognised : at' \notin PastTable(t)
  BY <1>1 DEF Places, PastWiki, PastPieces, PastKanban, PastTable, PastJournal, PastSkills,
              PastSessions, PastMessages, PastChunks, PastMemory, Recognised, Tables
<1>10. Surfaces'
  BY <1>0, <1>1, <1>3, <1>6, <1>8, <1>9 DEF Surfaces, Covers
<1>11. /\ Typed' /\ RowsApart' /\ OneEach' /\ ChunksApart' /\ Progress'
       /\ NothingBeforeCommit' /\ EveryContentIsKept'
       /\ (quiet => calm)' /\ (calm => CalmRun)'
       /\ quiet /\ commits > 0 => Settled' /\ \A i \in Ids : tx'.rows[i] = NoRow
                                                             /\ tx'.chunks[i] = {}
  BY <1>1, <1>3, <1>6, <1>7, <1>8, LaterFrame
<1>12. quiet /\ commits > 0 => Rerun'
  <2>1. quiet /\ commits > 0 => Covers(page.chunks, Pieces["v2"]) /\ tx.page = page
    BY <1>8 DEF MigrationInv, Settled, Rerun
  <2> QED
    BY <1>1, <1>3, <1>6, <1>11, <2>1 DEF Rerun
<1> QED
  BY <1>1, <1>10, <1>11, <1>12 DEF MigrationInv

LEMMA KanbanStep == ASSUME MigrationInv, MigrateKanban PROVE MigrationInv'
<1>0. Typed /\ TxTyped /\ Surfaces /\ ChunksApart
  BY DEF MigrationInv, Typed
<1>1. at = "kanban" /\ at' = "observations" /\ UNCHANGED <<v2, tables, next, history>>
      /\ UNCHANGED <<v2, memories, page, task, copies, commits, calm, quiet>>
  BY DEF MigrateKanban, tables, history
<1>2. tx' = [map |-> tx.map, seen |-> tx.seen, rows |-> tx.rows, chunks |-> tx.chunks,
             page |-> tx.page, task |-> [there |-> TRUE, parent |-> "v2"],
             copies |-> tx.copies, inserted |-> tx.inserted, skipped |-> tx.skipped,
             conflicts |-> tx.conflicts]
  BY <1>0 DEF TxTyped, MigrateKanban
<1>3. /\ tx'.map = tx.map /\ tx'.seen = tx.seen /\ tx'.rows = tx.rows /\ tx'.chunks = tx.chunks
      /\ tx'.page = tx.page /\ tx'.task = [there |-> TRUE, parent |-> "v2"]
      /\ tx'.copies = tx.copies
  BY <1>2
<1>4. TxTyped'
  BY <1>0, <1>1, <1>2 DEF TxTyped, TaskRow
<1>5. at \in PastChunks /\ at' \in PastChunks /\ at \in PastWiki /\ at \in PastPieces
      /\ at' \in PastWiki /\ at' \in PastKanban
      /\ \A t \in Recognised : at' \in PastTable(t) => at \in PastTable(t)
  BY <1>1 DEF Places, PastWiki, PastPieces, PastKanban, PastTable, PastJournal, PastSkills,
              PastSessions, PastMessages, PastChunks, PastMemory, Recognised, Unrecognised, Tables
<1>6. Surfaces'
  BY <1>0, <1>1, <1>3, <1>5 DEF Surfaces, Covers
<1>7. /\ Typed' /\ RowsApart' /\ OneEach' /\ ChunksApart' /\ Progress'
      /\ NothingBeforeCommit' /\ EveryContentIsKept'
      /\ (quiet => calm)' /\ (calm => CalmRun)'
      /\ quiet /\ commits > 0 => Settled' /\ \A i \in Ids : tx'.rows[i] = NoRow
                                                            /\ tx'.chunks[i] = {}
  BY <1>0, <1>1, <1>3, <1>4, <1>5, LaterFrame DEF ChunksApart
<1>8. quiet /\ commits > 0 => Rerun'
  BY <1>1, <1>3, <1>5, <1>7 DEF MigrationInv, Rerun
<1> QED
  BY <1>1, <1>6, <1>7, <1>8 DEF MigrationInv

LEMMA TableStep == ASSUME MigrationInv, MigrateTable PROVE MigrationInv'
<1>0. Typed /\ TxTyped /\ Surfaces /\ ChunksApart
  BY DEF MigrationInv, Typed
<1>1. at \in Tables /\ at' = Following[at] /\ UNCHANGED <<v2, tables, next, history>>
      /\ UNCHANGED <<v2, memories, page, task, copies, commits, calm, quiet>>
  BY DEF MigrateTable, tables, history
<1>a. PICK new : new = [tx.copies EXCEPT ![at] = Copied(at)]
  OBVIOUS
<1>2. /\ new \in [Tables -> Nat]
      /\ \A t \in Tables : new[t] = IF t = at THEN Copied(at) ELSE tx.copies[t]
  <2>1. Copied(at) \in Nat
    BY DEF Copied
  <2> QED
    BY <1>0, <1>1, <1>a, <2>1 DEF TxTyped
<1>3. tx' = [tx EXCEPT !.copies = new]
  BY <1>a, Zenon DEF MigrateTable
<1>4. tx' = [map |-> tx.map, seen |-> tx.seen, rows |-> tx.rows, chunks |-> tx.chunks,
             page |-> tx.page, task |-> tx.task, copies |-> new, inserted |-> tx.inserted,
             skipped |-> tx.skipped, conflicts |-> tx.conflicts]
  BY <1>0, <1>3 DEF TxTyped
<1>5. /\ tx'.map = tx.map /\ tx'.seen = tx.seen /\ tx'.rows = tx.rows /\ tx'.chunks = tx.chunks
      /\ tx'.page = tx.page /\ tx'.task = tx.task /\ tx'.copies = new
  BY <1>4
<1>6. TxTyped'
  BY <1>0, <1>1, <1>2, <1>4 DEF TxTyped
<1>7. at' = IF at = "journal" THEN "skills" ELSE IF at = "skills" THEN "metrics"
            ELSE IF at = "metrics" THEN "kanban" ELSE IF at = "observations" THEN "sessions"
            ELSE IF at = "sessions" THEN "messages" ELSE "commit"
  BY <1>1 DEF Following, Tables, Recognised, Unrecognised
<1>8. /\ at \in PastChunks /\ at' \in PastChunks /\ at \in PastWiki /\ at \in PastPieces
      /\ at' \in PastWiki /\ (at' \in PastKanban <=> at \in PastKanban)
  BY <1>1, <1>7 DEF Places, PastWiki, PastPieces, PastKanban, PastChunks, PastMemory,
                    Recognised, Unrecognised, Tables
<1>9. \A t \in Recognised : t # at /\ at' \in PastTable(t) => at \in PastTable(t)
  BY <1>1, <1>7 DEF Places, PastWiki, PastPieces, PastKanban, PastTable, PastJournal,
                    PastSkills, PastSessions, PastMessages, PastChunks, PastMemory,
                    Recognised, Unrecognised, Tables
<1>10. Surfaces'
  <2>1. \A t \in Recognised : t \in Tables /\ copies[t] \in Nat /\ tx.copies[t] \in Nat
    BY <1>0 DEF Tables, Typed, TxTyped
  <2>2. \A t \in Recognised : copies[t] > 0 => new[t] = 0
    BY <1>0, <1>2, <2>1 DEF Surfaces, Copied
  <2>3. \A t \in Recognised : at' \in PastTable(t) => copies[t] + new[t] > 0
    <3> SUFFICES ASSUME NEW t \in Recognised, at' \in PastTable(t) PROVE copies[t] + new[t] > 0
      OBVIOUS
    <3>1. CASE t = at
      BY <1>2, <2>1, <3>1 DEF Copied
    <3>2. CASE t # at
      BY <1>0, <1>2, <1>9, <2>1, <3>2 DEF Surfaces
    <3> QED
      BY <3>1, <3>2
  <2> QED
    BY <1>0, <1>1, <1>5, <1>8, <2>2, <2>3 DEF Surfaces, Covers
<1>11. /\ Typed' /\ RowsApart' /\ OneEach' /\ ChunksApart' /\ Progress'
       /\ NothingBeforeCommit' /\ EveryContentIsKept'
       /\ (quiet => calm)' /\ (calm => CalmRun)'
       /\ quiet /\ commits > 0 => Settled' /\ \A i \in Ids : tx'.rows[i] = NoRow
                                                             /\ tx'.chunks[i] = {}
  BY <1>0, <1>1, <1>5, <1>6, <1>8, LaterFrame DEF ChunksApart
<1>12. quiet /\ commits > 0 => Rerun'
  BY <1>1, <1>5, <1>8, <1>11 DEF MigrationInv, Rerun
<1> QED
  BY <1>1, <1>10, <1>11, <1>12 DEF MigrationInv

-----------------------------------------------------------------------------
(* Migration: every step, and the theorems.                                *)

LEMMA MigrationStep ==
    ASSUME MigrationInv, [MigrationNext]_migrationVars
    PROVE  MigrationInv'
<1>1. CASE UNCHANGED migrationVars
  <2>1. UNCHANGED <<v2, memories, page, task, copies, at, next, tx, runs, commits, writes,
                    calm, quiet>>
    BY <1>1 DEF migrationVars
  <2>2. Typed'
    BY <2>1 DEF MigrationInv, Typed, TxTyped, NoTx
  <2>3. RowsApart' /\ OneEach' /\ ChunksApart'
    BY <2>1 DEF MigrationInv, RowsApart, OneEach, ChunksApart, Truthful, Visible, VisibleChunks
  <2>4. Progress'
    BY <2>1 DEF MigrationInv, Progress, Known, Behind, Visible
  <2>5. NothingBeforeCommit' /\ EveryContentIsKept'
    BY <2>1 DEF MigrationInv, NothingBeforeCommit, EveryContentIsKept, Imported
  <2>6. (quiet => calm)' /\ (calm => CalmRun)'
    BY <2>1 DEF MigrationInv, CalmRun, Behind, ChunksBehind, Existing, Repeats, Visible,
                VisibleChunks
  <2>7. Surfaces'
    BY <2>1 DEF MigrationInv, Surfaces
  <2>8. (quiet /\ commits > 0 => Settled /\ Rerun)'
    BY <2>1 DEF MigrationInv, Settled, Rerun, Standing, Repeats
  <2> QED
    BY <2>2, <2>3, <2>4, <2>5, <2>6, <2>7, <2>8 DEF MigrationInv
<1>2. CASE MigrationNext
  BY <1>2, BeginStep, MemoryStep, ChunksStep, WikiStep, PiecesStep, TableStep, KanbanStep,
     CommitStep, AbortStep, UserMemorySteps, UserOtherSteps DEF MigrationNext
<1> QED
  BY <1>1, <1>2

(* Only the commit of a run counts it. *)
LEMMA OnlyCommitCounts ==
    ASSUME [MigrationNext]_migrationVars, commits' # commits
    PROVE  Commit
BY DEF MigrationNext, migrationVars, Begin, MigrateMemory, MigrateChunks, MigrateWiki,
       MigratePieces, MigrateTable, MigrateKanban, Abort, Remember, Forget, Ingest, Reparent,
       UserWrites, history

(* The committed rows are visible. *)
LEMMA CommittedRows ==
    ASSUME MigrationInv
    PROVE  /\ MigrationTypeOK
           /\ NoRowTwice
<1>0. Typed /\ TxTyped /\ RowsApart /\ OneEach /\ ChunksApart
  BY DEF MigrationInv, Typed
<1>1. \A i \in Ids : memories[i].chunks \in SUBSET VisibleChunks(i)
  BY <1>0, VisibleTyped DEF VisibleChunks, NoRow
<1>2. \A i \in Ids : Indexed(memories[i].chunks) /\ Indexed(tx.rows[i].chunks)
  <2>1. \A i \in Ids : Indexed(memories[i].chunks)
    BY <1>0, <1>1 DEF ChunksApart, Indexed
  <2>2. \A i \in Ids : tx.rows[i].chunks = {}
    BY <1>0 DEF RowsApart, NoRow
  <2> QED
    BY <2>1, <2>2 DEF Indexed
<1>3. \A i \in Ids : IsRow(memories[i]) /\ IsRow(tx.rows[i])
  <2> SUFFICES ASSUME NEW i \in Ids PROVE IsRow(memories[i]) /\ IsRow(tx.rows[i])
    OBVIOUS
  <2>1. ASSUME NEW row \in MemoryRow, Truthful(row), Indexed(row.chunks) PROVE IsRow(row)
    <3>1. row.origin \in 0..Len(v2)
      BY <1>0, <2>1, SourceTyped DEF Truthful
    <3> QED
      BY <2>1, <3>1 DEF IsRow, Indexed, MemoryRow
  <2>2. /\ memories[i] \in MemoryRow /\ Truthful(memories[i])
        /\ tx.rows[i] \in MemoryRow /\ Truthful(tx.rows[i])
    BY <1>0 DEF Typed, TxTyped, RowsApart
  <2> QED
    BY <1>2, <2>1, <2>2
<1>4. MigrationTypeOK
  <2>1. Indexed(page.chunks)
    BY <1>0 DEF ChunksApart
  <2>2. page.body \in Bodies \cup {"none"} /\ page.version \in Nat
    BY <1>0 DEF Typed, PageRow
  <2> QED
    BY <1>0, <1>3, <2>1, <2>2 DEF MigrationTypeOK, Typed, TxTyped, TaskRow, Places, Indexed
<1>5. NoRowTwice
  <2>1. \A i \in Imported : i \in Ids /\ memories[i].origin # 0 /\ Visible(i) = memories[i]
    BY <1>0, VisibleTyped DEF Imported, NoRow
  <2> QED
    BY <1>0, <2>1 DEF NoRowTwice, OneEach
<1> QED
  BY <1>4, <1>5

(* The inductive invariant of a run that copies v2's rows while the users of
   ilma write: what its transaction has written is on ids of its own, no v2
   row has two of them, no chunk has the index of another, and whatever it
   has behind it is there. *)
THEOREM MigrationInvariance == MigrationSpec => []MigrationInv
<1>1. MigrationInit => MigrationInv
  BY MigrationInitInv
<1>2. MigrationInv /\ [MigrationNext]_migrationVars => MigrationInv'
  BY MigrationStep
<1> QED
  BY <1>1, <1>2, PTL DEF MigrationSpec

(* The migration's rows, chunks and map have their types, for any v2 tables,
   any number of runs, of user writes and of ids. *)
THEOREM MigrationTypeCorrect == MigrationSpec => []MigrationTypeOK
<1>1. MigrationInv => MigrationTypeOK
  BY CommittedRows
<1> QED
  BY <1>1, MigrationInvariance, PTL

(* As long as no run was committed nothing of v2 is in ilma's tables: the
   runs that failed have left nothing. *)
THEOREM FailedRunsLeaveNothing == MigrationSpec => []NothingBeforeCommit
<1>1. MigrationInv => NothingBeforeCommit
  BY DEF MigrationInv
<1> QED
  BY <1>1, MigrationInvariance, PTL

(* However often it is run, and whatever the users remember and forget
   meanwhile, no v2 memory is imported twice. *)
THEOREM ImportedOnce == MigrationSpec => []NoRowTwice
<1>1. MigrationInv => NoRowTwice
  BY CommittedRows
<1> QED
  BY <1>1, MigrationInvariance, PTL

(* Once a run is committed the content of every v2 memory is in ilma. *)
THEOREM ContentIsKept == MigrationSpec => []EveryContentIsKept
<1>1. MigrationInv => EveryContentIsKept
  BY DEF MigrationInv
<1> QED
  BY <1>1, MigrationInvariance, PTL

(* A commit of the migration changes no memory and drops no chunk that was
   there. *)
THEOREM MigrationIsAdditive == MigrationSpec => MemoriesAreAdditive
<1> DEFINE Adds == commits' # commits =>
                      \A i \in Ids :
                          memories[i].state # "absent" =>
                              /\ memories'[i] = [memories[i] EXCEPT !.chunks = memories'[i].chunks]
                              /\ memories[i].chunks \subseteq memories'[i].chunks
<1>1. MigrationInv /\ [MigrationNext]_migrationVars => Adds
  <2> SUFFICES ASSUME MigrationInv, [MigrationNext]_migrationVars, commits' # commits,
                      NEW i \in Ids, memories[i].state # "absent"
               PROVE  /\ memories'[i] = [memories[i] EXCEPT !.chunks = memories'[i].chunks]
                      /\ memories[i].chunks \subseteq memories'[i].chunks
    OBVIOUS
  <2>1. memories[i] \in MemoryRow /\ Visible(i) = memories[i]
    BY VisibleTyped DEF MigrationInv, Typed, NoRow
  <2>2. memories'[i] = [memories[i] EXCEPT !.chunks = VisibleChunks(i)]
    BY <2>1, OnlyCommitCounts DEF Commit
  <2>3. memories'[i].chunks = VisibleChunks(i)
    BY <2>1, <2>2 DEF MemoryRow
  <2>4. memories[i].chunks \subseteq VisibleChunks(i)
    BY <2>1 DEF VisibleChunks
  <2> QED
    BY <2>2, <2>3, <2>4
<1>2. MigrationInv /\ [MigrationNext]_migrationVars => [Adds]_migrationVars
  BY <1>1
<1> QED
  BY <1>2, MigrationInvariance, PTL DEF MigrationSpec, MemoriesAreAdditive

(* A run that meets what the run before it left commits nothing new to the
   memories, the page, the task and the tables whose rows are recognised. *)
THEOREM RerunsChangeNothing == MigrationSpec => RerunChangesNothing
<1> DEFINE Same == commits > 0 /\ commits' # commits /\ quiet =>
                      /\ UNCHANGED <<memories, page, task>>
                      /\ \A t \in Recognised : copies'[t] = copies[t]
<1>1. MigrationInv /\ [MigrationNext]_migrationVars => Same
  <2> SUFFICES ASSUME MigrationInv, [MigrationNext]_migrationVars,
                      commits > 0, commits' # commits, quiet
               PROVE  /\ UNCHANGED <<memories, page, task>>
                      /\ \A t \in Recognised : copies'[t] = copies[t]
    OBVIOUS
  <2>1. Typed /\ Settled /\ Rerun /\ Surfaces
    BY DEF MigrationInv
  <2>2. Commit /\ at = "commit" /\ page' = tx.page /\ task' = tx.task
    BY OnlyCommitCounts DEF Commit
  <2>3. at \in PastWiki /\ at \in PastKanban
    BY <2>2 DEF PastWiki, PastKanban, PastChunks, PastMemory, Places
  <2>4. memories' = memories
    <3>1. \A i \in Ids : Visible(i) = memories[i] /\ VisibleChunks(i) = memories[i].chunks
      BY <2>1 DEF Rerun, Visible, VisibleChunks
    <3>2. memories \in [Ids -> MemoryRow]
      BY <2>1 DEF Typed
    <3>3. \A i \in Ids : [memories[i] EXCEPT !.chunks = memories[i].chunks] = memories[i]
      BY <3>2 DEF MemoryRow
    <3>4. memories' = [i \in Ids |-> [Visible(i) EXCEPT !.chunks = VisibleChunks(i)]]
      BY <2>2 DEF Commit
    <3>5. \A i \in Ids : memories'[i] = memories[i]
      BY <3>1, <3>3, <3>4
    <3> QED
      BY <3>2, <3>4, <3>5
  <2>5. page' = page /\ task' = task
    BY <2>1, <2>2, <2>3 DEF Rerun, Settled, Surfaces
  <2>6. \A t \in Recognised : copies'[t] = copies[t]
    <3>1. \A t \in Recognised : t \in Tables /\ copies[t] \in Nat /\ tx.copies[t] = 0
      BY <2>1 DEF Tables, Typed, Settled, Surfaces
    <3> QED
      BY <2>2, <3>1 DEF Commit
  <2> QED
    BY <2>4, <2>5, <2>6
<1>2. MigrationInv /\ [MigrationNext]_migrationVars => [Same]_migrationVars
  BY <1>1
<1> QED
  BY <1>2, MigrationInvariance, PTL DEF MigrationSpec, RerunChangesNothing

-----------------------------------------------------------------------------
(* Migration: the counters.  The invariant counts sets: what the counters
   have to equal is not in them but in what the transaction has written and
   in how far it has come.                                                 *)

(* The rows, and the chunks on their ids, that the transaction adds. *)
NewRows == {i \in Ids : tx.rows[i] # NoRow}
NewParts == UNION {{i} \X tx.chunks[i] : i \in Ids}

(* What v2 has, every row and every chunk of one, and what of it is behind. *)
SourceParts == UNION {{r} \X (0..v2[r].chunks) : r \in DOMAIN v2}
DoneParts == {p \in SourceParts : IF p[2] = 0 THEN Behind(p[1]) ELSE ChunksBehind(p[1])}

(* No chunk of the transaction is one that its row has already: else it
   would be counted and the commit would not add it. *)
PartsApart == \A i \in Ids : tx.chunks[i] \cap memories[i].chunks = {}

Counted ==
    /\ tx.inserted \in Nat /\ tx.skipped \in Nat /\ tx.conflicts \in 0..tx.skipped
    /\ IsFiniteSet(NewRows) /\ IsFiniteSet(NewParts) /\ IsFiniteSet(DoneParts)
    /\ tx.inserted = Cardinality(NewRows) + Cardinality(NewParts)
    /\ tx.inserted + tx.skipped = Cardinality(DoneParts)
    /\ PartsApart

(* Two sets that have nothing in common count together as they do apart. *)
LEMMA CountApart ==
    ASSUME NEW S, NEW T, IsFiniteSet(S), IsFiniteSet(T), S \cap T = {}
    PROVE  /\ IsFiniteSet(S \cup T)
           /\ Cardinality(S \cup T) = Cardinality(S) + Cardinality(T)
           /\ Cardinality(S) \in Nat /\ Cardinality(T) \in Nat
<1>1. IsFiniteSet(S \cup T)
      /\ Cardinality(S \cup T) = Cardinality(S) + Cardinality(T) - Cardinality(S \cap T)
  BY FS_Union
<1>2. Cardinality(S) \in Nat /\ Cardinality(T) \in Nat
  BY FS_CardinalityType
<1>3. Cardinality(S \cap T) = 0
  BY FS_EmptySet
<1> QED
  BY <1>1, <1>2, <1>3

(* A set counts the same when its elements are tagged. *)
LEMMA CountTagged ==
    ASSUME NEW x, NEW S, IsFiniteSet(S)
    PROVE  /\ IsFiniteSet({x} \X S) /\ Cardinality({x} \X S) = Cardinality(S)
           /\ IsFiniteSet(S \X {x}) /\ Cardinality(S \X {x}) = Cardinality(S)
<1>1. IsFiniteSet({x}) /\ Cardinality({x}) = 1
  BY FS_Singleton
<1>2. Cardinality(S) \in Nat
  BY FS_CardinalityType
<1>3. IsFiniteSet({x} \X S) /\ Cardinality({x} \X S) = Cardinality({x}) * Cardinality(S)
  BY <1>1, FS_Product
<1>4. IsFiniteSet(S \X {x}) /\ Cardinality(S \X {x}) = Cardinality(S) * Cardinality({x})
  BY <1>1, FS_Product
<1> QED
  BY <1>1, <1>2, <1>3, <1>4

(* The chunks that a v2 row adds to a row: no more than it has. *)
LEMMA NewChunksCount ==
    ASSUME Typed, NEW r \in DOMAIN v2, NEW i \in Ids
    PROVE  /\ IsFiniteSet(NewChunks(r, i))
           /\ Cardinality(NewChunks(r, i)) \in 0..v2[r].chunks
<1> DEFINE S == {n \in 1..v2[r].chunks : \A d \in VisibleChunks(i) : d[1] # n}
<1>1. v2[r].chunks \in Nat
  BY SourceTyped
<1>2. IsFiniteSet(1..v2[r].chunks) /\ Cardinality(1..v2[r].chunks) = v2[r].chunks
  BY <1>1, FS_Interval
<1>3. S \in SUBSET (1..v2[r].chunks)
  OBVIOUS
<1>4. NewChunks(r, i) = S \X {r}
  BY DEF NewChunks
<1> HIDE DEF S
<1>5. IsFiniteSet(S) /\ Cardinality(S) <= v2[r].chunks
  BY <1>2, <1>3, FS_Subset
<1>6. Cardinality(S) \in Nat
  BY <1>5, FS_CardinalityType
<1>7. IsFiniteSet(S \X {r}) /\ Cardinality(S \X {r}) = Cardinality(S)
  BY <1>5, CountTagged
<1> QED
  BY <1>1, <1>4, <1>5, <1>6, <1>7

(* A row of v2 and a chunk of one. *)
LEMMA SourcePart ==
    ASSUME Typed
    PROVE  /\ \A r \in DOMAIN v2 : <<r, 0>> \in SourceParts
           /\ \A r \in DOMAIN v2, n \in Nat : <<r, n>> \in SourceParts <=> n <= v2[r].chunks
           /\ \A p \in SourceParts : p = <<p[1], p[2]>> /\ p[1] \in DOMAIN v2 /\ p[2] \in Nat
<1>1. \A r \in DOMAIN v2 : v2[r].chunks \in Nat
  BY SourceTyped
<1>2. \A r \in DOMAIN v2, n \in Nat : n \in 0..v2[r].chunks <=> n <= v2[r].chunks
  BY <1>1
<1>3. \A r \in DOMAIN v2, n \in Nat : <<r, n>> \in SourceParts <=> n \in 0..v2[r].chunks
  BY DEF SourceParts
<1>4. \A p \in SourceParts : p = <<p[1], p[2]>> /\ p[1] \in DOMAIN v2 /\ p[2] \in 0..v2[p[1]].chunks
  BY DEF SourceParts
<1> QED
  BY <1>1, <1>2, <1>3, <1>4

(* A transaction that has begun nothing, or that is gone, has counted
   nothing. *)
LEMMA NothingCounted ==
    ASSUME tx' = NoTx, UNCHANGED v2,
           \A r \in DOMAIN v2 : ~ Behind(r)' /\ ~ ChunksBehind(r)'
    PROVE  Counted'
<1>1. \A i \in Ids : tx'.rows[i] = NoRow /\ tx'.chunks[i] = {}
  BY TxGone
<1>2. tx'.inserted = 0 /\ tx'.skipped = 0 /\ tx'.conflicts = 0
  BY DEF NoTx
<1>3. NewRows' = {} /\ NewParts' = {}
  BY <1>1 DEF NewRows, NewParts
<1>4. DoneParts' = {}
  <2>1. \A p \in SourceParts' : p[1] \in DOMAIN v2
    BY DEF SourceParts
  <2> QED
    BY <2>1 DEF DoneParts
<1>5. PartsApart'
  BY <1>1 DEF PartsApart
<1>6. IsFiniteSet({}) /\ Cardinality({}) = 0
  BY FS_EmptySet
<1> QED
  BY <1>2, <1>3, <1>4, <1>5, <1>6 DEF Counted

(* A step that adds no row and no chunk of v2, and gets no further there. *)
LEMMA NothingMoreCounted ==
    ASSUME Counted, UNCHANGED v2, PartsApart',
           tx'.rows = tx.rows, tx'.chunks = tx.chunks,
           tx'.inserted = tx.inserted, tx'.skipped = tx.skipped, tx'.conflicts = tx.conflicts,
           \A r \in DOMAIN v2 :
              (Behind(r)' <=> Behind(r)) /\ (ChunksBehind(r)' <=> ChunksBehind(r))
    PROVE  Counted'
<1>1. NewRows' = NewRows /\ NewParts' = NewParts /\ SourceParts' = SourceParts
  BY DEF NewRows, NewParts, SourceParts
<1>2. DoneParts' = DoneParts
  <2>1. \A p \in SourceParts : p[1] \in DOMAIN v2
    BY DEF SourceParts
  <2> QED
    BY <1>1, <2>1 DEF DoneParts
<1> QED
  BY <1>1, <1>2 DEF Counted

(* A row that the run puts behind it is one more part of v2. *)
LEMMA RowDone ==
    ASSUME MigrationInv, Counted, at = "memory", Advance("chunks"), UNCHANGED v2
    PROVE  /\ IsFiniteSet(DoneParts')
           /\ Cardinality(DoneParts') = Cardinality(DoneParts) + 1
<1>0. Typed /\ SourceParts' = SourceParts
  BY DEF MigrationInv, SourceParts
<1>1. /\ next \in DOMAIN v2 /\ ~ Behind(next)
      /\ \A r \in DOMAIN v2 : Behind(r)' <=> Behind(r) \/ r = next
      /\ \A r \in DOMAIN v2 : ~ ChunksBehind(r)'
  BY <1>0, MemoryAdvance
<1>2. \A r \in DOMAIN v2 : ~ ChunksBehind(r)
  BY DEF ChunksBehind, PastMemory, PastChunks
<1>3. PICK x : x = <<next, 0>>
  OBVIOUS
<1>4. x \in SourceParts /\ x[1] = next /\ x[2] = 0
  BY <1>0, <1>1, <1>3, SourcePart
<1>5. x \notin DoneParts
  BY <1>1, <1>4 DEF DoneParts
<1>6. DoneParts' = DoneParts \cup {x}
  <2>1. \A p \in SourceParts : p = x <=> p[1] = next /\ p[2] = 0
    BY <1>0, <1>3, SourcePart
  <2>2. \A p \in SourceParts : p[1] \in DOMAIN v2
    BY <1>0, SourcePart
  <2>3. \A p \in SourceParts : p \in DoneParts' <=> p \in DoneParts \/ p = x
    BY <1>0, <1>1, <1>2, <2>1, <2>2 DEF DoneParts
  <2> QED
    BY <1>0, <1>4, <2>3 DEF DoneParts
<1> QED
  BY <1>5, <1>6, FS_AddElement DEF Counted

(* A v2 row is counted once, as inserted or as skipped. *)
LEMMA MemoryCounted == ASSUME MigrationInv, Counted, MigrateMemory PROVE Counted'
<1>0. Typed /\ RowsApart /\ UNCHANGED <<v2, memories>> /\ at = "memory" /\ Advance("chunks")
      /\ (Skip(next) \/ Conflict(next) \/ Import(next)) /\ next \in DOMAIN v2
  BY DEF MigrationInv, MigrateMemory, tables, Typed
<1>1. IsFiniteSet(DoneParts') /\ Cardinality(DoneParts') = Cardinality(DoneParts) + 1
  BY <1>0, RowDone
<1>2. CASE Skip(next) \/ Conflict(next)
  <2>1. /\ tx'.rows = tx.rows /\ tx'.chunks = tx.chunks
        /\ tx'.inserted = tx.inserted /\ tx'.skipped = tx.skipped + 1
        /\ tx'.conflicts \in {tx.conflicts, tx.conflicts + 1}
    <3>1. CASE Skip(next)
      BY <1>0, <3>1, SkipTx
    <3>2. CASE Conflict(next)
      BY <1>0, <3>2, ConflictTx
    <3> QED
      BY <1>2, <3>1, <3>2
  <2>2. NewRows' = NewRows /\ NewParts' = NewParts
    BY <2>1 DEF NewRows, NewParts
  <2>3. PartsApart'
    BY <1>0, <2>1 DEF Counted, PartsApart
  <2>4. tx'.skipped \in Nat /\ tx'.conflicts \in 0..tx'.skipped
    BY <2>1 DEF Counted
  <2> QED
    BY <1>1, <2>1, <2>2, <2>3, <2>4 DEF Counted
<1>3. CASE Import(next)
  <2>a. PICK f : f = FreshId
    OBVIOUS
  <2>1. /\ f \in Ids /\ tx'.rows[f].state \in {"live", "deleted"}
        /\ \A i \in Ids \ {f} : tx'.rows[i] = tx.rows[i]
        /\ tx'.chunks = tx.chunks
        /\ tx'.inserted = tx.inserted + 1 /\ tx'.skipped = tx.skipped
        /\ tx'.conflicts = tx.conflicts
    BY <1>0, <1>3, <2>a, ImportTx
  <2>2. tx.rows[f] = NoRow
    BY <1>0, <2>a, <2>1, FreshIdIsFree
  <2>3. tx'.rows[f] # NoRow
    BY <2>1 DEF NoRow
  <2>4. NewRows' = NewRows \cup {f} /\ f \notin NewRows
    BY <2>1, <2>2, <2>3 DEF NewRows
  <2>5. IsFiniteSet(NewRows') /\ Cardinality(NewRows') = Cardinality(NewRows) + 1
    BY <2>4, FS_AddElement DEF Counted
  <2>6. NewParts' = NewParts
    BY <2>1 DEF NewParts
  <2>7. PartsApart'
    BY <1>0, <2>1 DEF Counted, PartsApart
  <2>8. Cardinality(NewRows) \in Nat /\ Cardinality(NewParts) \in Nat
        /\ Cardinality(DoneParts) \in Nat
    BY FS_CardinalityType DEF Counted
  <2>9. /\ tx'.inserted \in Nat /\ tx'.inserted = Cardinality(NewRows') + Cardinality(NewParts')
        /\ tx'.inserted + tx'.skipped = Cardinality(DoneParts')
    BY <1>1, <2>1, <2>5, <2>6, <2>8 DEF Counted
  <2> QED
    BY <1>1, <2>1, <2>5, <2>6, <2>7, <2>9 DEF Counted
<1> QED
  BY <1>0, <1>2, <1>3

(* The chunks of a row that the run puts behind it. *)
LEMMA ChunksDone ==
    ASSUME MigrationInv, Counted, at = "chunks", Advance("wiki"), UNCHANGED v2
    PROVE  /\ IsFiniteSet(DoneParts')
           /\ Cardinality(DoneParts') = Cardinality(DoneParts) + v2[next].chunks
<1>0. Typed /\ SourceParts' = SourceParts
  BY DEF MigrationInv, SourceParts
<1>a. PICK r : r = next
  OBVIOUS
<1>1. /\ r \in DOMAIN v2 /\ ~ ChunksBehind(r)
      /\ \A q \in DOMAIN v2 : ChunksBehind(q)' <=> ChunksBehind(q) \/ q = r
      /\ \A q \in DOMAIN v2 : Behind(q) /\ Behind(q)'
  BY <1>0, <1>a, ChunksAdvance
<1>2. v2[r].chunks \in Nat
  BY <1>0, <1>1, SourceTyped
<1>3. PICK n : n = v2[r].chunks
  OBVIOUS
<1>4. PICK part : part = {r} \X (1..n)
  OBVIOUS
<1>5. IsFiniteSet(part) /\ Cardinality(part) = n
  <2>1. IsFiniteSet(1..n) /\ Cardinality(1..n) = n
    <3>1. n \in Nat /\ 1 \in Int /\ n \in Int
      BY <1>2, <1>3
    <3>2. IsFiniteSet(1..n) /\ Cardinality(1..n) = IF 1 > n THEN 0 ELSE n - 1 + 1
      BY <3>1, FS_Interval
    <3> QED
      BY <3>1, <3>2
  <2> QED
    BY <1>4, <2>1, CountTagged
<1>6. \A p \in SourceParts : p \in part <=> p[1] = r /\ p[2] # 0
  <2> SUFFICES ASSUME NEW p \in SourceParts PROVE p \in part <=> p[1] = r /\ p[2] # 0
    OBVIOUS
  <2>1. p = <<p[1], p[2]>> /\ p[1] \in DOMAIN v2 /\ p[2] \in Nat
        /\ (<<p[1], p[2]>> \in SourceParts <=> p[2] <= v2[p[1]].chunks)
    BY <1>0, SourcePart
  <2>2. p \in part <=> p[1] = r /\ p[2] \in 1..n
    BY <1>4, <2>1
  <2>3. p[1] = r => p[2] <= n
    BY <1>3, <2>1
  <2> QED
    BY <1>2, <1>3, <2>1, <2>2, <2>3
<1>7. part \subseteq SourceParts
  <2> SUFFICES ASSUME NEW p \in part PROVE p \in SourceParts
    OBVIOUS
  <2>1. p = <<r, p[2]>> /\ p[2] \in 1..n
    BY <1>4
  <2>2. p[2] \in Nat /\ p[2] <= v2[r].chunks
    BY <1>2, <1>3, <2>1
  <2>3. <<r, p[2]>> \in SourceParts
    BY <1>0, <1>1, <2>2, SourcePart
  <2> QED
    BY <2>1, <2>3
<1>8. DoneParts \cap part = {}
  BY <1>1, <1>6 DEF DoneParts
<1>9. DoneParts' = DoneParts \cup part
  <2>1. \A p \in SourceParts : p[1] \in DOMAIN v2
    BY <1>0, SourcePart
  <2>2. \A p \in SourceParts : p \in DoneParts' <=> p \in DoneParts \/ p \in part
    BY <1>0, <1>1, <1>6, <2>1 DEF DoneParts
  <2> QED
    BY <1>0, <1>7, <2>2 DEF DoneParts
<1>10. IsFiniteSet(DoneParts \cup part)
       /\ Cardinality(DoneParts \cup part) = Cardinality(DoneParts) + Cardinality(part)
  BY <1>5, <1>8, CountApart DEF Counted
<1> QED
  BY <1>3, <1>5, <1>9, <1>10, <1>a

(* And so is each of its chunks: as inserted when its row has not its index. *)
LEMMA ChunksCounted == ASSUME MigrationInv, Counted, MigrateChunks PROVE Counted'
<1>0. Typed /\ TxTyped /\ RowsApart /\ ChunksApart /\ UNCHANGED <<v2, memories>>
      /\ at = "chunks" /\ Advance("wiki") /\ next \in DOMAIN v2
  BY DEF MigrationInv, MigrateChunks, tables, Typed
<1>a. PICK r : r = next
  OBVIOUS
<1>b. PICK i : i = tx.map[r]
  OBVIOUS
<1>c. PICK new : new = IF i = 0 THEN {} ELSE NewChunks(r, i)
  OBVIOUS
<1>d. PICK n : n = Cardinality(new)
  OBVIOUS
<1>1. IsFiniteSet(DoneParts') /\ Cardinality(DoneParts') = Cardinality(DoneParts) + v2[r].chunks
  BY <1>0, <1>a, ChunksDone
<1>2. i \in Ids \cup {0} /\ v2[r].chunks \in Nat
  BY <1>0, <1>a, <1>b, SourceTyped DEF TxTyped
<1>3. IsFiniteSet(new) /\ n \in 0..v2[r].chunks
  <2>1. CASE i = 0
    BY <1>2, <1>c, <1>d, <2>1, FS_EmptySet
  <2>2. CASE i # 0
    BY <1>0, <1>2, <1>a, <1>c, <1>d, <2>2, NewChunksCount
  <2> QED
    BY <2>1, <2>2
<1> DEFINE inserted == tx.inserted + n
           skipped == tx.skipped + v2[r].chunks - n
           added == [j \in Ids |-> IF j = i THEN tx.chunks[j] \cup new ELSE tx.chunks[j]]
<1>4. tx' = [tx EXCEPT !.chunks = added, !.inserted = inserted, !.skipped = skipped]
  <2>1. tx' = [tx EXCEPT !.chunks = [j \in Ids |-> IF j = i THEN @[j] \cup new ELSE @[j]],
                         !.inserted = @ + Cardinality(new),
                         !.skipped = @ + v2[r].chunks - Cardinality(new)]
    BY <1>a, <1>b, <1>c, Zenon DEF MigrateChunks
  <2> QED
    BY <1>d, <2>1, Zenon
<1>5. /\ tx'.rows = tx.rows /\ tx'.conflicts = tx.conflicts
      /\ tx'.chunks = added /\ tx'.inserted = inserted /\ tx'.skipped = skipped
  <2> HIDE DEF inserted, skipped, added
  <2>1. tx' = [map |-> tx.map, seen |-> tx.seen, rows |-> tx.rows, chunks |-> added,
               page |-> tx.page, task |-> tx.task, copies |-> tx.copies,
               inserted |-> inserted, skipped |-> skipped, conflicts |-> tx.conflicts]
    BY <1>0, <1>4 DEF TxTyped
  <2> QED
    BY <2>1
<1>6. \A j \in Ids : tx'.chunks[j] = IF j = i THEN tx.chunks[j] \cup new ELSE tx.chunks[j]
  BY <1>5
<1>7. i \in Ids => \A c \in new : c \notin VisibleChunks(i) /\ c \notin tx.chunks[i]
  BY <1>c DEF NewChunks, VisibleChunks
<1>8. i \notin Ids => new = {}
  BY <1>2, <1>c
<1>9. NewRows' = NewRows
  BY <1>5 DEF NewRows
<1>10. PICK part : part = {i} \X new
  OBVIOUS
<1>11. IsFiniteSet(part) /\ Cardinality(part) = n
  BY <1>3, <1>10, <1>d, CountTagged
<1>12. NewParts' = NewParts \cup part
  <2>1. \A p : p \in NewParts <=> \E j \in Ids : p \in {j} \X tx.chunks[j]
    BY DEF NewParts
  <2>2. \A p : p \in NewParts' <=> \E j \in Ids : p \in {j} \X tx'.chunks[j]
    BY DEF NewParts
  <2>3. \A p : \A j \in Ids :
           p \in {j} \X tx'.chunks[j] <=> p \in {j} \X tx.chunks[j] \/ (j = i /\ p \in part)
    <3> SUFFICES ASSUME NEW p, NEW j \in Ids
                 PROVE  p \in {j} \X tx'.chunks[j]
                           <=> p \in {j} \X tx.chunks[j] \/ (j = i /\ p \in part)
      OBVIOUS
    <3>1. CASE j = i
      <4>1. {j} \X tx'.chunks[j] = ({i} \X tx.chunks[i]) \cup ({i} \X new)
        BY <1>6, <3>1
      <4> QED
        BY <1>10, <3>1, <4>1
    <3>2. CASE j # i
      BY <1>6, <3>2
    <3> QED
      BY <3>1, <3>2
  <2>4. i \notin Ids => part = {}
    BY <1>8, <1>10
  <2>5. \A p : p \in NewParts' <=> p \in NewParts \/ p \in part
    BY <2>1, <2>2, <2>3, <2>4
  <2> QED
    BY <2>5
<1>13. NewParts \cap part = {}
  <2> SUFFICES ASSUME NEW p \in NewParts, p \in part PROVE FALSE
    OBVIOUS
  <2>1. PICK j \in Ids : p \in {j} \X tx.chunks[j]
    BY DEF NewParts
  <2>2. p[1] = j /\ p[2] \in tx.chunks[j] /\ p[1] = i /\ p[2] \in new
    BY <1>10, <2>1
  <2> QED
    BY <1>7, <2>2
<1>14. /\ IsFiniteSet(NewParts')
       /\ Cardinality(NewParts') = Cardinality(NewParts) + n
       /\ Cardinality(NewParts) \in Nat
  BY <1>11, <1>12, <1>13, CountApart DEF Counted
<1>15. Cardinality(NewRows) \in Nat /\ Cardinality(DoneParts) \in Nat
  BY FS_CardinalityType DEF Counted
<1>16. PartsApart'
  <2> SUFFICES ASSUME NEW j \in Ids PROVE tx'.chunks[j] \cap memories[j].chunks = {}
    BY <1>0 DEF PartsApart
  <2>1. tx.chunks[j] \cap memories[j].chunks = {}
    BY DEF Counted, PartsApart
  <2>2. ASSUME j = i PROVE new \cap memories[j].chunks = {}
    <3>1. memories[j].chunks \subseteq VisibleChunks(j)
      BY <1>0, VisibleTyped DEF VisibleChunks, NoRow
    <3> QED
      BY <1>7, <2>2, <3>1
  <2> QED
    BY <1>6, <2>1, <2>2
<1>17. /\ tx'.inserted \in Nat /\ tx'.skipped \in Nat /\ tx'.conflicts \in 0..tx'.skipped
       /\ tx'.inserted = Cardinality(NewRows') + Cardinality(NewParts')
       /\ tx'.inserted + tx'.skipped = Cardinality(DoneParts')
  <2>1. /\ tx.inserted \in Nat /\ tx.skipped \in Nat /\ tx.conflicts \in 0..tx.skipped
        /\ tx.inserted = Cardinality(NewRows) + Cardinality(NewParts)
        /\ tx.inserted + tx.skipped = Cardinality(DoneParts)
    BY DEF Counted
  <2>2. tx'.inserted = tx.inserted + n /\ tx'.skipped = tx.skipped + v2[r].chunks - n
        /\ tx'.conflicts = tx.conflicts
    BY <1>5
  <2> QED
    BY <1>1, <1>2, <1>3, <1>9, <1>14, <1>15, <2>1, <2>2
<1> QED
  BY <1>1, <1>9, <1>14, <1>16, <1>17 DEF Counted

(* The surfaces behind the memories. *)
LEMMA LaterCounted ==
    ASSUME MigrationInv, Counted, MigrateWiki \/ MigratePieces \/ MigrateTable \/ MigrateKanban
    PROVE  Counted'
<1>0. TxTyped /\ UNCHANGED <<v2, memories>>
  BY DEF MigrationInv, Typed, MigrateWiki, MigratePieces, MigrateTable, MigrateKanban, tables
<1>1. at \in PastChunks /\ at' \in PastChunks
  BY DEF MigrateWiki, MigratePieces, MigrateTable, MigrateKanban, Following, Tables, Recognised,
         Unrecognised, PastChunks, PastMemory, Places
<1>2. /\ tx'.rows = tx.rows /\ tx'.chunks = tx.chunks
      /\ tx'.inserted = tx.inserted /\ tx'.skipped = tx.skipped /\ tx'.conflicts = tx.conflicts
  <2>1. PICK p, t, c : tx' = [tx EXCEPT !.page = p, !.task = t, !.copies = c]
    <3>1. CASE MigrateWiki
      <4>1. PICK p : tx' = [tx EXCEPT !.page = p]
        BY <3>1, Zenon DEF MigrateWiki
      <4>2. tx' = [tx EXCEPT !.page = p, !.task = tx.task, !.copies = tx.copies]
        BY <1>0, <4>1 DEF TxTyped
      <4> QED
        BY <4>2
    <3>2. CASE MigratePieces
      <4>1. PICK p : tx' = [tx EXCEPT !.page = p]
        <5>1. tx' = [tx EXCEPT !.page.chunks = @ \cup NewPieces]
          BY <3>2, Zenon DEF MigratePieces
        <5> QED
          BY <5>1, Zenon
      <4>2. tx' = [tx EXCEPT !.page = p, !.task = tx.task, !.copies = tx.copies]
        BY <1>0, <4>1 DEF TxTyped
      <4> QED
        BY <4>2
    <3>3. CASE MigrateTable
      <4>1. PICK c : tx' = [tx EXCEPT !.copies = c]
        <5>1. tx' = [tx EXCEPT !.copies = [@ EXCEPT ![at] = Copied(at)]]
          BY <3>3, Zenon DEF MigrateTable
        <5> QED
          BY <5>1, Zenon
      <4>2. tx' = [tx EXCEPT !.page = tx.page, !.task = tx.task, !.copies = c]
        BY <1>0, <4>1 DEF TxTyped
      <4> QED
        BY <4>2
    <3>4. CASE MigrateKanban
      <4>1. PICK t : tx' = [tx EXCEPT !.task = t]
        BY <3>4, Zenon DEF MigrateKanban
      <4>2. tx' = [tx EXCEPT !.page = tx.page, !.task = t, !.copies = tx.copies]
        BY <1>0, <4>1 DEF TxTyped
      <4> QED
        BY <4>2
    <3> QED
      BY <3>1, <3>2, <3>3, <3>4
  <2>2. tx' = [map |-> tx.map, seen |-> tx.seen, rows |-> tx.rows, chunks |-> tx.chunks,
               page |-> p, task |-> t, copies |-> c, inserted |-> tx.inserted,
               skipped |-> tx.skipped, conflicts |-> tx.conflicts]
    BY <1>0, <2>1 DEF TxTyped
  <2> QED
    BY <2>2
<1>3. \A r \in DOMAIN v2 : Behind(r) /\ Behind(r)' /\ ChunksBehind(r) /\ ChunksBehind(r)'
  BY <1>1 DEF Behind, ChunksBehind, PastChunks
<1>4. PartsApart'
  BY <1>0, <1>2 DEF Counted, PartsApart
<1> QED
  BY <1>0, <1>2, <1>3, <1>4, NothingMoreCounted

(* The users add no chunk to a row the transaction adds one to: to remember
   takes an id that the transaction sees nothing on. *)
LEMMA UsersCounted ==
    ASSUME MigrationInv, Counted,
           \/ \E k \in Keys : Remember(k)
           \/ \E i \in Ids : Forget(i)
           \/ Ingest \/ Reparent
    PROVE  Counted'
<1>0. Typed /\ RowsApart /\ PartsApart
  BY DEF MigrationInv, Counted
<1>1. UNCHANGED <<v2, at, next, tx>>
  BY DEF Remember, Forget, Ingest, Reparent, UserWrites, running
<1>2. PartsApart'
  <2>1. CASE Ingest \/ Reparent
    BY <1>0, <1>1, <2>1 DEF Ingest, Reparent, PartsApart
  <2>2. ASSUME NEW k \in Keys, Remember(k) PROVE PartsApart'
    <3>1. FreshId \in Ids /\ \A i \in Ids \ {FreshId} : memories'[i] = memories[i]
      BY <1>0, <2>2 DEF Remember, Typed
    <3>2. tx.chunks[FreshId] = {}
      BY <1>0, <3>1, FreshIdIsFree DEF RowsApart
    <3> QED
      BY <1>0, <1>1, <3>1, <3>2 DEF PartsApart
  <2>3. ASSUME NEW i \in Ids, Forget(i) PROVE PartsApart'
    <3>1. memories' = [memories EXCEPT ![i].state = "deleted"]
      BY <2>3 DEF Forget
    <3>2. \A j \in Ids : memories'[j].chunks = memories[j].chunks
      BY <1>0, <3>1 DEF Typed, MemoryRow
    <3> QED
      BY <1>0, <1>1, <3>2 DEF PartsApart
  <2> QED
    BY <2>1, <2>2, <2>3
<1>3. \A r \in DOMAIN v2 : (Behind(r)' <=> Behind(r)) /\ (ChunksBehind(r)' <=> ChunksBehind(r))
  BY <1>1 DEF Behind, ChunksBehind
<1> QED
  BY <1>1, <1>2, <1>3, NothingMoreCounted

(* A run begins, ends or fails. *)
LEMMA EndsCounted == ASSUME MigrationInv, Begin \/ Commit \/ Abort PROVE Counted'
<1>1. tx' = NoTx /\ UNCHANGED v2
  BY DEF Begin, Commit, Abort
<1>2. \A r \in DOMAIN v2 : ~ Behind(r)' /\ ~ ChunksBehind(r)'
  <2>1. CASE Begin
    <3>1. v2 = <<>> => DOMAIN v2 = {}
      OBVIOUS
    <3>2. CASE at' = "wiki"
      BY <2>1, <3>1, <3>2 DEF Begin
    <3>3. CASE at' = "memory"
      <4>1. next' = 1 /\ \A r \in DOMAIN v2 : r \in Nat /\ r # 0
        BY <2>1, SourceTyped DEF MigrationInv, Begin
      <4> QED
        BY <3>3, <4>1 DEF Behind, ChunksBehind, PastMemory, PastChunks
    <3> QED
      BY <2>1, <3>2, <3>3 DEF Begin
  <2>2. CASE Commit \/ Abort
    <3>1. at' = "idle"
      BY <2>2 DEF Commit, Abort
    <3> QED
      BY <3>1 DEF Behind, ChunksBehind, PastMemory, PastChunks
  <2> QED
    BY <2>1, <2>2
<1> QED
  BY <1>1, <1>2, NothingCounted

(* No transaction has counted anything at the start. *)
LEMMA InitCounted == MigrationInit => Counted
<1> SUFFICES ASSUME MigrationInit PROVE Counted
  OBVIOUS
<1>1. tx = NoTx /\ at = "idle"
  BY DEF MigrationInit
<1>2. \A i \in Ids : tx.rows[i] = NoRow /\ tx.chunks[i] = {}
  BY <1>1, WithoutTx
<1>3. tx.inserted = 0 /\ tx.skipped = 0 /\ tx.conflicts = 0
  BY <1>1 DEF NoTx
<1>4. NewRows = {} /\ NewParts = {} /\ PartsApart
  BY <1>2 DEF NewRows, NewParts, PartsApart
<1>5. DoneParts = {}
  BY <1>1 DEF DoneParts, Behind, ChunksBehind, PastMemory, PastChunks
<1>6. IsFiniteSet({}) /\ Cardinality({}) = 0
  BY FS_EmptySet
<1> QED
  BY <1>3, <1>4, <1>5, <1>6 DEF Counted

(* Every step keeps the count. *)
LEMMA CountedStep ==
    ASSUME MigrationInv, Counted, [MigrationNext]_migrationVars
    PROVE  Counted'
<1>1. CASE UNCHANGED migrationVars
  <2>1. UNCHANGED <<v2, memories, at, next, tx>>
    BY <1>1 DEF migrationVars
  <2>2. PartsApart'
    BY <2>1 DEF Counted, PartsApart
  <2>3. \A r \in DOMAIN v2 : (Behind(r)' <=> Behind(r)) /\ (ChunksBehind(r)' <=> ChunksBehind(r))
    BY <2>1 DEF Behind, ChunksBehind
  <2> QED
    BY <2>1, <2>2, <2>3, NothingMoreCounted
<1>2. CASE MigrationNext
  BY <1>2, EndsCounted, MemoryCounted, ChunksCounted, LaterCounted, UsersCounted
     DEF MigrationNext
<1> QED
  BY <1>1, <1>2

(* What a commit adds to the tables is what the transaction has written. *)
LEMMA CommitAddsTx ==
    ASSUME MigrationInv, Counted, Commit
    PROVE  /\ NewRows = {i \in Ids : memories[i] = NoRow /\ memories'[i] # NoRow}
           /\ NewParts = UNION {{i} \X (memories'[i].chunks \ memories[i].chunks) : i \in Ids}
           /\ DoneParts = SourceParts
<1>0. Typed /\ RowsApart /\ PartsApart
  BY DEF MigrationInv, Counted
<1>1. \A i \in Ids : memories'[i] = [Visible(i) EXCEPT !.chunks = VisibleChunks(i)]
  BY DEF Commit
<1>2. \A i \in Ids : /\ memories'[i].chunks = VisibleChunks(i)
                     /\ memories'[i].state = Visible(i).state
  <2>1. \A i \in Ids : Visible(i) \in MemoryRow
    BY <1>0, VisibleTyped
  <2> QED
    BY <1>1, <2>1 DEF MemoryRow
<1>3. ASSUME NEW i \in Ids PROVE i \in NewRows <=> memories[i] = NoRow /\ memories'[i] # NoRow
  <2>1. CASE tx.rows[i] # NoRow
    <3>1. memories[i] = NoRow /\ Visible(i) = tx.rows[i] /\ tx.rows[i].state # "absent"
      BY <1>0, <2>1 DEF RowsApart, Visible, Truthful
    <3>2. memories'[i] # NoRow
      BY <1>2, <3>1 DEF NoRow
    <3> QED
      BY <2>1, <3>1, <3>2 DEF NewRows
  <2>2. CASE tx.rows[i] = NoRow /\ memories[i] = NoRow
    <3>1. Visible(i) = NoRow /\ tx.chunks[i] = {}
      BY <1>0, <2>2 DEF RowsApart, Visible
    <3>2. VisibleChunks(i) = {}
      BY <3>1 DEF VisibleChunks, NoRow
    <3>3. memories'[i] = NoRow
      BY <1>1, <3>1, <3>2 DEF NoRow
    <3> QED
      BY <2>2, <3>3 DEF NewRows
  <2>3. CASE tx.rows[i] = NoRow /\ memories[i] # NoRow
    BY <2>3 DEF NewRows
  <2> QED
    BY <2>1, <2>2, <2>3
<1>4. NewRows = {i \in Ids : memories[i] = NoRow /\ memories'[i] # NoRow}
  BY <1>3 DEF NewRows
<1>5. \A i \in Ids : memories'[i].chunks \ memories[i].chunks = tx.chunks[i]
  <2> SUFFICES ASSUME NEW i \in Ids
               PROVE  memories'[i].chunks \ memories[i].chunks = tx.chunks[i]
    OBVIOUS
  <2>1. tx.chunks[i] \cap memories[i].chunks = {}
    BY <1>0 DEF PartsApart
  <2>2. Visible(i).chunks \subseteq memories[i].chunks
    BY <1>0 DEF RowsApart, Visible
  <2>3. memories'[i].chunks = Visible(i).chunks \cup tx.chunks[i]
    BY <1>2 DEF VisibleChunks
  <2> QED
    BY <2>1, <2>2, <2>3
<1>6. NewParts = UNION {{i} \X (memories'[i].chunks \ memories[i].chunks) : i \in Ids}
  BY <1>5 DEF NewParts
<1>7. DoneParts = SourceParts
  <2>1. at \in PastMemory /\ at \in PastChunks
    BY DEF Commit, PastMemory, PastChunks, Places
  <2> QED
    BY <2>1 DEF DoneParts, Behind, ChunksBehind
<1> QED
  BY <1>4, <1>6, <1>7

(* The report of a run says of the memories what its commit has done: each
   v2 row and chunk is counted once, as inserted when the commit adds it and
   as skipped otherwise. *)
THEOREM ReportsAreTruthful == MigrationSpec => ReportIsTruthful
<1> DEFINE True ==
       commits' # commits =>
          LET rows == {i \in Ids : memories[i] = NoRow /\ memories'[i] # NoRow}
              chunks == UNION {{i} \X (memories'[i].chunks \ memories[i].chunks) : i \in Ids}
              source == UNION {{r} \X (0..v2[r].chunks) : r \in DOMAIN v2}
          IN  /\ tx.inserted = Cardinality(rows) + Cardinality(chunks)
              /\ tx.inserted + tx.skipped = Cardinality(source)
              /\ tx.conflicts <= tx.skipped
<1>1. MigrationSpec => [](MigrationInv /\ Counted)
  <2>1. MigrationInit => MigrationInv /\ Counted
    BY MigrationInitInv, InitCounted
  <2>2. MigrationInv /\ Counted /\ [MigrationNext]_migrationVars => (MigrationInv /\ Counted)'
    BY MigrationStep, CountedStep
  <2> QED
    BY <2>1, <2>2, PTL DEF MigrationSpec
<1>2. MigrationInv /\ Counted /\ [MigrationNext]_migrationVars => True
  <2> SUFFICES ASSUME MigrationInv, Counted, [MigrationNext]_migrationVars, commits' # commits
               PROVE  True
    OBVIOUS
  <2>1. Commit
    BY OnlyCommitCounts
  <2>2. tx.conflicts <= tx.skipped
    BY DEF Counted
  <2> QED
    BY <2>1, <2>2, CommitAddsTx DEF Counted, SourceParts
<1>3. MigrationInv /\ Counted /\ [MigrationNext]_migrationVars => [True]_migrationVars
  BY <1>2
<1> QED
  BY <1>1, <1>3, PTL DEF MigrationSpec, ReportIsTruthful

=============================================================================
