---------------------------- MODULE Maintenance ----------------------------
(***************************************************************************)
(* Maintenance of a database in use: repair_migrated_memories (repair.py), *)
(* which ilma_migrate --reembed runs in one READ COMMITTED transaction     *)
(* that embeds between its statements, and ilma_repair --force             *)
(* (service.py), which rebuilds the text indexes in one transaction,       *)
(* beside each other, remember, forget and a migration that commits.       *)
(*                                                                         *)
(* PostgreSQL's locks decide who waits for whom: a statement locks the     *)
(* tables it writes, with their indexes, the indexes of those it reads,    *)
(* and the rows it changes, all to the end of its transaction.  It ends    *)
(* one transaction of a cycle of waits.  A later request may overtake one  *)
(* that waits.                                                             *)
(*                                                                         *)
(* What can be wrong with a memory is a set of facts still missing: clean  *)
(* tags, a vector of the configured width, each of its chunks.  Of the     *)
(* eight rebuilt indexes those of memories and memory_chunks are here.     *)
(***************************************************************************)
EXTENDS Naturals, Functions

CONSTANTS
    Memories,      \* ids, numbers as in the table
    Stored,        \* the memories there at the start, migrated from v2
    Pieces,        \* Pieces[m]: the pieces the repair cuts a long content into
    Vast,          \* the contents remember gives no vector of their own
    Zero,          \* the facts for which the embedder answers with zeros
    Neats,         \* the choices of the memories whose tags look clean as they come
    Dims,          \* vectors.dim, the width the service may be configured with
    Calls,         \* the calls of the three tools
    Tools,         \* Tools[c]: those that call c may be of
    NewId          \* NewId[c]: the id a memory gets that call c remembers

ASSUME MaintenanceAssumption ==
    /\ Memories \subseteq Nat
    /\ Stored \subseteq Memories
    /\ Pieces \in [Memories -> Nat]
    /\ Neats \subseteq SUBSET Memories
    /\ Tools \in [Calls -> SUBSET {"repair", "maintain", "remember"}]
    /\ NewId \in [Calls -> Memories \ Stored]
    /\ \A c, d \in Calls :
          "remember" \in Tools[c] \cap Tools[d] /\ NewId[c] = NewId[d] => c = d

VARIABLES
    dim,      \* the configured width
    tool,     \* ilma_migrate --reembed, ilma_repair --force or ilma_remember
    neat,     \* the memories whose tags look clean as they come
    memory,   \* memory[m]: the row of m
    facts,    \* what is right with the memories, committed
    pc,       \* where each call stands
    todo,     \* what the pass of a repair has selected and not yet come to
    wrote,    \* what a transaction has put right and not committed
    held,     \* the locks it holds on tables and indexes
    late      \* history: tags it would have cleaned were committed after it looked

calls == <<pc, todo, wrote, held>>
setting == <<dim, tool, neat>>
vars == <<setting, memory, facts, pc, todo, wrote, held, late>>

Tags(m) == <<"tags", m, 0>>
Vector(m) == <<"vector", m, 0>>
Chunks(m) == {<<"chunk", m, i>> : i \in 1..Pieces[m]}

Facts == UNION {{Tags(m), Vector(m)} \cup Chunks(m) : m \in Memories}

(* _looks_corrupt_tags doubts tags of one letter and more than thirty of
   them, whoever gave them; no tags, and most others, it lets be. *)
NeatTags(S) == {Tags(m) : m \in S \cap neat}

Live == {m \in Memories : memory[m] = "live"}

Ended == {"done", "raised", "rejected"}

Tables == {"memories", "chunks"}

Lock(mode, table) == [mode |-> mode, table |-> table]

(* The statements of the passes of a repair, of the rebuilding of the
   indexes, and of remember. *)
Passes == {"look tags", "fix tags", "look vector", "fix vector", "look chunks", "fix chunks"}
Rebuilds == {"find", "share memories", "index memories", "share chunks", "index chunks",
             "vacuum", "find again"}
Inserts == {"ask", "insert", "cut"}

(***************************************************************************)
(* Type invariant.                                                         *)
(***************************************************************************)
TypeOK ==
    /\ dim \in Dims
    /\ \A c \in Calls : tool[c] \in Tools[c]
    /\ neat \in Neats
    /\ memory \in [Memories -> {"absent", "live", "deleted"}]
    /\ facts \subseteq Facts
    /\ pc \in [Calls -> {"idle", "init memories", "init chunks", "commit"}
                         \cup Passes \cup Rebuilds \cup Inserts \cup Ended]
    /\ todo \in [Calls -> SUBSET Facts]
    /\ wrote \in [Calls -> SUBSET Facts]
    /\ held \in [Calls -> SUBSET [mode : {"read", "write", "share", "index", "vacuum"}, table : Tables]]
    /\ late \in [Calls -> BOOLEAN]

Init ==
    /\ dim \in Dims
    /\ tool \in {f \in [Calls -> UNION Range(Tools)] : \A c \in Calls : f[c] \in Tools[c]}
    /\ neat \in Neats
    /\ memory = [m \in Memories |-> IF m \in Stored THEN "live" ELSE "absent"]
    /\ facts = NeatTags(Stored)
    /\ pc = [c \in Calls |-> "idle"]
    /\ todo = [c \in Calls |-> {}]
    /\ wrote = [c \in Calls |-> {}]
    /\ held = [c \in Calls |-> {}]
    /\ late = [c \in Calls |-> FALSE]

-----------------------------------------------------------------------------
(* Locks.                                                                  *)

(* CREATE INDEX IF NOT EXISTS and REINDEX share the table, which stops its
   writers; REINDEX then has the index to itself. *)
Conflicts(a, b) ==
    /\ a.table = b.table
    /\ {a.mode, b.mode} \in
          {{"share", "write"}, {"index", "write"}, {"index", "read"}, {"index"},
           {"share", "vacuum"}, {"vacuum"}}

(* The locks the next statement of a call takes. *)
Needs(c) ==
    CASE pc[c] \in {"init memories", "share memories"}     -> {Lock("share", "memories")}
      [] pc[c] \in {"init chunks", "share chunks"}         -> {Lock("share", "chunks")}
      [] pc[c] = "index memories"                         -> {Lock("index", "memories")}
      [] pc[c] = "index chunks"                           -> {Lock("index", "chunks")}
      [] pc[c] \in {"look tags", "look vector", "ask"}    -> {Lock("read", "memories")}
      [] pc[c] \in {"look chunks", "find", "find again"}  -> {Lock("read", t) : t \in Tables}
      [] pc[c] \in {"fix tags", "fix vector", "insert"}   -> {Lock("write", "memories")}
      [] pc[c] \in {"fix chunks", "cut"}                  -> {Lock("write", "chunks")}
      [] pc[c] = "vacuum"                                 -> {Lock("vacuum", t) : t \in Tables}
      [] OTHER                                            -> {}

(* ORDER BY id, and the pieces by their index. *)
Before(f, g) == f[2] < g[2] \/ (f[2] = g[2] /\ f[3] < g[3])

(* The row a pass comes to next. *)
Due(c) == {f \in todo[c] : \A g \in todo[c] : ~ Before(g, f)}

(* An UPDATE waits for whoever changed the row, an INSERT for whoever
   inserted the same chunk. *)
SameRow(f, g) == f[2] = g[2] /\ ((f[1] = "chunk" \/ g[1] = "chunk") => f = g)

RowsNeeded(c) ==
    IF pc[c] \in {"fix tags", "fix vector", "fix chunks"} THEN Due(c) \ Zero ELSE {}

Blockers(c) ==
    {d \in Calls \ {c} :
        \/ \E a \in Needs(c), b \in held[d] : Conflicts(a, b)
        \/ \E f \in RowsNeeded(c), g \in wrote[d] : SameRow(f, g)}

Waiting == {c \in Calls : Blockers(c) # {}}

Stuck(S) == S # {} /\ \A c \in S : Blockers(c) \cap S # {}

(* The sets of calls that wait for one another in a cycle. *)
Cycles == {S \in SUBSET Waiting : Stuck(S) /\ \A T \in SUBSET S : Stuck(T) => T = S}

(* A statement of c runs, and leaves its locks behind. *)
Execute(c) ==
    /\ Blockers(c) = {}
    /\ held' = [held EXCEPT ![c] = @ \cup Needs(c)]

Goto(c, label) == pc' = [pc EXCEPT ![c] = label]

(* The end of a transaction, whichever way. *)
Leave(c, label) ==
    /\ Goto(c, label)
    /\ todo' = [todo EXCEPT ![c] = {}]
    /\ wrote' = [wrote EXCEPT ![c] = {}]
    /\ held' = [held EXCEPT ![c] = {}]

(* A statement that only locks; and one that ends its transaction. *)
Take(c, from, to) ==
    /\ pc[c] = from
    /\ Execute(c)
    /\ Goto(c, to)
    /\ UNCHANGED <<setting, memory, facts, todo, wrote, late>>

Alone(c, from, to) ==
    /\ pc[c] = from
    /\ Blockers(c) = {}
    /\ Leave(c, to)
    /\ UNCHANGED <<setting, memory, facts, late>>

-----------------------------------------------------------------------------
(* Mutant: the repair goes on in the transaction that initializes. *)
InitializeAndRepair(c) ==
    \/ Take(c, "init memories", "init chunks")
    \/ /\ tool[c] = "repair"
       /\ Take(c, "init chunks", "look tags")
    \/ /\ tool[c] # "repair"
       /\ Alone(c, "init chunks", "find")

(* _initialize_all comes first in both tools: one transaction shares both
   tables, though the indexes are there. *)
Start(c) ==
    /\ pc[c] = "idle"
    /\ Goto(c, IF tool[c] = "remember" THEN "ask" ELSE "init memories")
    /\ UNCHANGED <<setting, memory, facts, todo, wrote, held, late>>

Initialize(c) ==
    \/ Take(c, "init memories", "init chunks")
    \/ Alone(c, "init chunks", IF tool[c] = "repair" THEN "look tags" ELSE "find")

(* repair_migrated_memories: each pass selects what is wrong with the live
   memories, of what is committed and of its own changes ... *)
Seen(c) == facts \cup wrote[c]

CorruptTags(c) == {Tags(m) : m \in Live} \ Seen(c)
MissingVectors(c) == {Vector(m) : m \in Live} \ Seen(c)
MissingChunks(c) == UNION {Chunks(m) : m \in {n \in Live : Chunks(n) \cap Seen(c) = {}}}

(* The pass goes on with its next row, or is over. *)
Continue(c, work, fix, next) ==
    /\ todo' = [todo EXCEPT ![c] = work]
    /\ Goto(c, IF work = {} THEN next ELSE fix)

Look(c, look, work, fix, next) ==
    /\ pc[c] = look
    /\ Execute(c)
    /\ Continue(c, work, fix, next)
    /\ UNCHANGED <<setting, memory, facts, wrote, late>>

(* The INSERT of a chunk names vector_768, vector_<dim> and vector_1536: with
   one of those two as dim it names a column twice and is refused. *)
Refused(f) == f[1] = "chunk" /\ dim \in {768, 1536}

(* ON CONFLICT DO NOTHING: a chunk that is there stays, and no lock with it. *)
Changes(f) == IF f[1] = "chunk" THEN {f} \ facts ELSE {f}

(* Mutant: a row that another transaction has locked is skipped. *)
FixUnlocked(c, fix, next) ==
    /\ pc[c] = fix
    /\ \E f \in Due(c) :
          \/ /\ f \in Zero \/ Blockers(c) # {}
             /\ Continue(c, todo[c] \ {f}, fix, next)
             /\ UNCHANGED <<wrote, held>>
          \/ /\ f \notin Zero
             /\ Refused(f)
             /\ Blockers(c) = {}
             /\ Leave(c, "rejected")
          \/ /\ f \notin Zero
             /\ ~ Refused(f)
             /\ Execute(c)
             /\ wrote' = [wrote EXCEPT ![c] = @ \cup Changes(f)]
             /\ Continue(c, todo[c] \ {f}, fix, next)
    /\ UNCHANGED <<setting, memory, facts, late>>

(* ... and puts one after the other right, each after its embedding: what is
   embedded as zeros is left as it is. *)
Fix(c, fix, next) ==
    /\ pc[c] = fix
    /\ \E f \in Due(c) :
          \/ /\ f \in Zero
             /\ Continue(c, todo[c] \ {f}, fix, next)
             /\ UNCHANGED <<wrote, held>>
          \/ /\ f \notin Zero
             /\ Refused(f)
             /\ Blockers(c) = {}
             /\ Leave(c, "rejected")
          \/ /\ f \notin Zero
             /\ ~ Refused(f)
             /\ Execute(c)
             /\ wrote' = [wrote EXCEPT ![c] = @ \cup Changes(f)]
             /\ Continue(c, todo[c] \ {f}, fix, next)
    /\ UNCHANGED <<setting, memory, facts, late>>

Repair(c) ==
    \/ Look(c, "look tags", CorruptTags(c), "fix tags", "look vector")
    \/ Fix(c, "fix tags", "look vector")
    \/ Look(c, "look vector", MissingVectors(c), "fix vector", "look chunks")
    \/ Fix(c, "fix vector", "look chunks")
    \/ Look(c, "look chunks", MissingChunks(c), "fix chunks", "commit")
    \/ Fix(c, "fix chunks", "commit")

(* ilma_repair: the findings only read, a REINDEX shares its table and then
   takes its index, the next one follows in the same transaction.  Should the
   findings fail, no index is rebuilt and the tool still succeeds. *)
Find(c, from, found, failed) ==
    /\ pc[c] = from
    /\ \/ Blockers(c) = {} /\ Leave(c, found)
       \/ Leave(c, failed)
    /\ UNCHANGED <<setting, memory, facts, late>>

Maintain(c) ==
    \/ Find(c, "find", "share memories", "vacuum")
    \/ Take(c, "share memories", "index memories")
    \/ Take(c, "index memories", "share chunks")
    \/ Take(c, "share chunks", "index chunks")
    \/ Alone(c, "index chunks", "vacuum")
    \/ Alone(c, "vacuum", "find again")
    \/ Find(c, "find again", "done", "done")

(* remember: asks for a duplicate, inserts the row, then its chunks, each
   embedded first, and its own vector unless the content is vast. *)
Remember(c) ==
    /\ \/ /\ pc[c] = "ask"
          /\ Execute(c)
          /\ Goto(c, "insert")
          /\ UNCHANGED wrote
       \/ /\ pc[c] = "insert"
          /\ Execute(c)
          /\ wrote' = [wrote EXCEPT ![c] = NeatTags({NewId[c]})]
          /\ Goto(c, "cut")
       \/ /\ pc[c] = "cut"
          /\ Execute(c)
          /\ wrote' = [wrote EXCEPT ![c] = @ \cup Chunks(NewId[c])
                          \cup {Vector(m) : m \in {NewId[c]} \ Vast}]
          /\ Goto(c, "commit")
    /\ UNCHANGED <<setting, memory, facts, todo, late>>

(* A repair has selected the tags to clean. *)
Selecting(c) ==
    tool[c] = "repair" /\ pc[c] \in Passes \cup {"commit"} /\ pc[c] # "look tags"

(* The repairs that the rows of S come too late for. *)
Overtake(S) ==
    late' = [c \in Calls |-> late[c] \/ (S \ neat # {} /\ Selecting(c))]

Commit(c) ==
    LET new == IF tool[c] = "remember" THEN {NewId[c]} ELSE {} IN
    /\ pc[c] = "commit"
    /\ facts' = facts \cup wrote[c]
    /\ memory' = [m \in Memories |-> IF m \in new THEN "live" ELSE memory[m]]
    /\ Overtake(new)
    /\ Leave(c, "done")
    /\ UNCHANGED setting

(* Mutant: the transaction is neither committed nor given up. *)
FailQuietly(c) ==
    /\ pc[c] \notin Ended \cup {"idle"}
    /\ Goto(c, "raised")
    /\ UNCHANGED <<setting, memory, facts, todo, wrote, held, late>>

(* The embedder raises, the connection or the process is lost. *)
Fail(c) ==
    /\ pc[c] \notin Ended \cup {"idle"}
    /\ Leave(c, "raised")
    /\ UNCHANGED <<setting, memory, facts, late>>

(* The deadlock detector raises in one call of a cycle. *)
Detect(c) ==
    /\ \E S \in Cycles : c \in S
    /\ Leave(c, "raised")
    /\ UNCHANGED <<setting, memory, facts, late>>

-----------------------------------------------------------------------------
(* forget, one statement, waits like any other for the row and the table. *)
Forget(m) ==
    /\ memory[m] = "live"
    /\ \A d \in Calls : \A f \in wrote[d] : ~ SameRow(f, Tags(m))
    /\ \A d \in Calls : \A b \in held[d] : ~ Conflicts(Lock("write", "memories"), b)
    /\ memory' = [memory EXCEPT ![m] = "deleted"]
    /\ UNCHANGED <<setting, facts, calls, late>>

(* A migration from v2 commits a memory as it was there. *)
Migrate(m) ==
    /\ memory[m] = "absent"
    /\ m \notin Range(NewId)
    /\ memory' = [memory EXCEPT ![m] = "live"]
    /\ facts' = facts \cup NeatTags({m})
    /\ Overtake({m})
    /\ UNCHANGED <<setting, calls>>

Step(c) == Start(c) \/ Initialize(c) \/ Repair(c) \/ Maintain(c) \/ Remember(c) \/ Commit(c)

Next ==
    \/ \E c \in Calls : Step(c) \/ Fail(c) \/ Detect(c)
    \/ \E m \in Memories : Forget(m) \/ Migrate(m)

Spec == Init /\ [][Next]_vars

(* The server answers what nobody blocks, and the detector looks at every
   wait that lasts. *)
FairSpec == Spec /\ \A c \in Calls : WF_vars(Step(c) \/ Detect(c))

-----------------------------------------------------------------------------
(* Once a repair has committed, every memory that was migrated before any
   call and is still live has clean tags, its vector and all its chunks, but
   for what the embedder answers with zeros: whatever other repairs did to
   the same rows meanwhile, and however they ended. *)
RepairIsComplete ==
    \A c \in Calls :
        tool[c] = "repair" /\ pc[c] = "done" =>
            \A m \in Stored \cap Live :
                ({Tags(m), Vector(m)} \cup Chunks(m)) \ Zero \subseteq facts

(* Repairs, remember and forget never wait for one another in a cycle, nor
   with the initialization of the schema: a cycle has a REINDEX in it, or a
   repair that was overtaken: after it selected the tags to clean a
   migration or a remember committed a memory whose tags look corrupt. *)
Rebuilding(c) == tool[c] = "maintain" /\ pc[c] \notin {"init memories", "init chunks"}

OnlyReindexDeadlocks ==
    \A S \in Cycles : \E c \in S : Rebuilding(c) \/ late[c]

(* All the calls are made and end: nobody waits for ever, for a lock that is
   not given back or in a cycle. *)
EveryCallEnds == <>(\A c \in Calls : pc[c] \in Ended)

(* What repair.py:5 states: the function "also runs standalone against any
   ilma DB": no width of the vectors makes its statements fail. *)
AnyWidthRepairs == \A c \in Calls : pc[c] # "rejected"
=============================================================================
