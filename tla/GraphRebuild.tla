---------------------------- MODULE GraphRebuild ----------------------------
(***************************************************************************)
(* ilma_graph_rebuild (service.py) and PgGraphRepo.rebuild                 *)
(* (storage/postgres_graph.py), by several clients at once and beside      *)
(* changes of the tables.  The rows are read by four statements, each with *)
(* its own snapshot; the graph is dropped and created by autocommitted     *)
(* statements; every batch of vertices or edges is a transaction of its    *)
(* own, whose one statement sees what is committed when it starts.  A      *)
(* rebuild may raise or die after any of them.                             *)
(*                                                                         *)
(* MERGE creates what its statement does not see, so two transactions that *)
(* overlap may both create a vertex or an edge: each is known with the     *)
(* rebuild that created it.  The properties of the edges are left out.     *)
(***************************************************************************)
EXTENDS GraphPlan, SequencesExt

CONSTANTS
    Memories, Wikis, Skills,   \* ids of the three tables: each counts from 1
    Stored,                    \* the memories stored before the first rebuild
    Links,                     \* the <<memory, session>> pairs of session_messages
    Rebuilders                 \* clients that call ilma_graph_rebuild once

ASSUME GraphAssumption ==
    /\ Memories \cup Wikis \cup Skills \subseteq Nat \ {0}
    /\ DOMAIN TagsOf = Memories
    /\ MinShared \in Nat
    /\ IsFiniteSet(Memories \cup Wikis \cup Skills)
    /\ Stored \subseteq Memories

VARIABLES
    memory,    \* memory[m]: the row of memory m
    pages,     \* the wiki pages there are
    exists,    \* ag_catalog has the graph
    vertices,  \* its vertices, <<kind, id, the rebuild that created it>>
    edges,     \* its edges, each with the rebuild and the planned edge it is from
    pc,        \* where the rebuild stands
    view,      \* the rows it has read
    todo,      \* the batches it has still to load
    added,     \* what the batch it is loading adds, not committed yet
    alone      \* history: nobody else touched the graph since it dropped it

tables == <<memory, pages>>
graph == <<exists, vertices, edges>>
vars == <<memory, pages, exists, vertices, edges, pc, view, todo, added, alone>>

NoView == [memories |-> <<>>, wikis |-> {}, skills |-> {}, links |-> {}]

Ended == {"done", "raised"}

LiveMemories == {m \in Memories : memory[m] = "live"}

Nothing == [vertices |-> {}, edges |-> {}]

Loading(r) == pc[r] = "commit"

(***************************************************************************)
(* Type invariant.                                                         *)
(***************************************************************************)
TypeOK ==
    /\ memory \in [Memories -> {"absent", "live", "deleted"}]
    /\ pages \subseteq Wikis
    /\ exists \in BOOLEAN
    /\ \A v \in vertices :
          <<v[1], v[2]>> \in ({"Memory"} \X Memories) \cup ({"Wiki"} \X Wikis) \cup ({"Skill"} \X Skills)
    /\ \A e \in edges : {e.src, e.dst} \subseteq vertices
    /\ pc \in [Rebuilders -> {"idle", "graph", "memories", "wikis", "skills", "drop",
                              "dropping", "create", "load", "commit"} \cup Ended]
    /\ view \in [Rebuilders -> [memories : Seq(Memories), wikis : SUBSET Wikis,
                                skills : SUBSET Skills, links : SUBSET Links]]
    /\ \A r \in Rebuilders : Loading(r) \/ added[r] = Nothing
    /\ alone \in [Rebuilders -> BOOLEAN]

Init ==
    /\ memory = [m \in Memories |-> IF m \in Stored THEN "live" ELSE "absent"]
    /\ pages = {}
    /\ exists \in BOOLEAN
    /\ vertices = {}
    /\ edges = {}
    /\ pc = [r \in Rebuilders |-> "idle"]
    /\ view = [r \in Rebuilders |-> NoView]
    /\ todo = [r \in Rebuilders |-> <<>>]
    /\ added = [r \in Rebuilders |-> Nothing]
    /\ alone = [r \in Rebuilders |-> FALSE]

Goto(r, label) == pc' = [pc EXCEPT ![r] = label]

(* An exception, or the end of the process: what it had in hand is gone. *)
Raise(r) ==
    /\ Goto(r, "raised")
    /\ todo' = [todo EXCEPT ![r] = <<>>]
    /\ added' = [added EXCEPT ![r] = Nothing]

(* History: r changed the graph, so no other rebuild has it to itself. *)
Touches(r) == alone' = [q \in Rebuilders |-> q = r /\ alone[q]]

-----------------------------------------------------------------------------
(* The tables change while the graph is rebuilt.                           *)

Remember(m) ==
    /\ memory[m] = "absent"
    /\ memory' = [memory EXCEPT ![m] = "live"]
    /\ UNCHANGED <<pages, graph, pc, view, todo, added, alone>>

Forget(m) ==
    /\ memory[m] = "live"
    /\ memory' = [memory EXCEPT ![m] = "deleted"]
    /\ UNCHANGED <<pages, graph, pc, view, todo, added, alone>>

CreatePage(w) ==
    /\ w \notin pages
    /\ pages' = pages \cup {w}
    /\ UNCHANGED <<memory, graph, pc, view, todo, added, alone>>

-----------------------------------------------------------------------------
(* ensure_graph: looks, and creates what it did not see; AGE raises when a
   graph of that name is already there. *)
Ensure(r) ==
    /\ pc[r] = "idle"
    /\ Goto(r, IF exists THEN "memories" ELSE "graph")
    /\ UNCHANGED <<tables, graph, view, todo, added, alone>>

CreateGraph(r, from, to) ==
    /\ pc[r] = from
    /\ \/ /\ exists
          /\ Raise(r)
          /\ UNCHANGED <<graph, alone>>
       \/ /\ ~ exists
          /\ exists' = TRUE
          /\ vertices' = {}
          /\ edges' = {}
          /\ Touches(r)
          /\ Goto(r, to)
          /\ UNCHANGED <<todo, added>>
    /\ UNCHANGED <<tables, view>>

(* The four SELECTs of ilma_graph_rebuild. *)
ReadMemories(r) ==
    /\ pc[r] = "memories"
    /\ \E rows \in SetToSeqs(LiveMemories) : view' = [view EXCEPT ![r].memories = rows]
    /\ Goto(r, "wikis")
    /\ UNCHANGED <<tables, graph, todo, added, alone>>

ReadWikis(r) ==
    /\ pc[r] = "wikis"
    /\ view' = [view EXCEPT ![r].wikis = pages]
    /\ Goto(r, "skills")
    /\ UNCHANGED <<tables, graph, todo, added, alone>>

(* Nothing here writes the skills or the links: one step reads both. *)
ReadSkillsAndLinks(r) ==
    /\ pc[r] = "skills"
    /\ view' = [view EXCEPT ![r].skills = Skills, ![r].links = Links]
    /\ todo' = [todo EXCEPT ![r] = Batches(view'[r])]
    /\ Goto(r, "drop")
    /\ UNCHANGED <<tables, graph, added, alone>>

(* Mutant: the graph is kept when it is there, and loaded over. *)
LookAndMerge(r) ==
    /\ pc[r] = "drop"
    /\ alone' = [alone EXCEPT ![r] = TRUE]
    /\ Goto(r, IF exists THEN "load" ELSE "create")
    /\ UNCHANGED <<tables, graph, view, todo, added>>

(* rebuild: look whether the graph is there, drop it, create it. *)
LookForGraph(r) ==
    /\ pc[r] = "drop"
    /\ alone' = [alone EXCEPT ![r] = TRUE]
    /\ Goto(r, IF exists THEN "dropping" ELSE "create")
    /\ UNCHANGED <<tables, graph, view, todo, added>>

(* drop_graph waits for the transactions that have written to the graph. *)
Drop(r) ==
    /\ pc[r] = "dropping"
    /\ \A q \in Rebuilders : ~ Loading(q)
    /\ \/ /\ exists
          /\ exists' = FALSE
          /\ vertices' = {}
          /\ edges' = {}
          /\ Touches(r)
          /\ Goto(r, "create")
          /\ UNCHANGED <<todo, added>>
       \/ /\ ~ exists
          /\ Raise(r)
          /\ UNCHANGED <<graph, alone>>
    /\ UNCHANGED <<tables, view>>

(* Mutant: the second MATCH pattern lost its id. *)
MatchesSource(r, e) ==
    {[label |-> e.label, src |-> v[1], dst |-> v[2], by |-> r, for |-> e] :
        v \in {w \in vertices \X vertices : w[1][2] = e.src[2]}}

(* MATCH (src {id: ..}), (dst {id: ..}) names no kind: every vertex that has
   the id matches, and the edge is drawn between each two that do. *)
Matches(r, e) ==
    {[label |-> e.label, src |-> v[1], dst |-> v[2], by |-> r, for |-> e] :
        v \in {w \in vertices \X vertices : w[1][2] = e.src[2] /\ w[2][2] = e.dst[2]}}

(* What MERGE finds an edge again by. *)
Ends(e) == <<e.label, e.src, e.dst>>

(* Mutant: CREATE instead of MERGE. *)
Created(r, batch) == UNION {Matches(r, e) : e \in batch}

(* The edges a batch adds: one for all its rows of the same label and ends,
   none where the statement sees one already. *)
Merged(r, batch) ==
    LET wanted == {m \in UNION {Matches(r, e) : e \in batch} :
                     \A e \in edges : Ends(e) # Ends(m)}
    IN  {CHOOSE m \in wanted : Ends(m) = ends : ends \in {Ends(m) : m \in wanted}}

(* The vertices a batch adds: those of which the statement sees none. *)
NewVertices(r, batch) ==
    {<<v[1], v[2], r>> : v \in {u \in batch : \A w \in vertices : <<w[1], w[2]>> # u}}

(* One batch of the bulk load: its statement ... *)
Load(r) ==
    /\ pc[r] = "load"
    /\ todo[r] # <<>>
    /\ LET batch == Head(todo[r])
       IN  \/ /\ ~ exists
              /\ Raise(r)
           \/ /\ exists
              /\ added' = [added EXCEPT ![r] =
                    IF batch.what = "vertices"
                    THEN [Nothing EXCEPT !.vertices = NewVertices(r, batch.items)]
                    ELSE [Nothing EXCEPT !.edges = Merged(r, batch.items)]]
              /\ Goto(r, "commit")
              /\ UNCHANGED todo
    /\ UNCHANGED <<tables, graph, view, alone>>

(* ... and its commit. *)
Commit(r) ==
    /\ Loading(r)
    /\ vertices' = vertices \cup added[r].vertices
    /\ edges' = edges \cup added[r].edges
    /\ todo' = [todo EXCEPT ![r] = Tail(@)]
    /\ added' = [added EXCEPT ![r] = Nothing]
    /\ Touches(r)
    /\ Goto(r, "load")
    /\ UNCHANGED <<tables, exists, view>>

Finish(r) ==
    /\ pc[r] = "load"
    /\ todo[r] = <<>>
    /\ Goto(r, "done")
    /\ UNCHANGED <<tables, graph, view, todo, added, alone>>

(* A statement fails, an acknowledgement is lost, the process dies. *)
Abort(r) ==
    /\ pc[r] \notin Ended \cup {"idle"}
    /\ Raise(r)
    /\ UNCHANGED <<tables, graph, view, alone>>

Next ==
    \/ \E m \in Memories : Remember(m) \/ Forget(m)
    \/ \E w \in Wikis : CreatePage(w)
    \/ \E r \in Rebuilders :
          \/ Ensure(r)
          \/ CreateGraph(r, "graph", "memories")
          \/ ReadMemories(r)
          \/ ReadWikis(r)
          \/ ReadSkillsAndLinks(r)
          \/ LookForGraph(r)
          \/ Drop(r)
          \/ CreateGraph(r, "create", "load")
          \/ Load(r)
          \/ Commit(r)
          \/ Finish(r)
          \/ Abort(r)

Spec == Init /\ [][Next]_vars

-----------------------------------------------------------------------------
Planned(r) == {<<e.label, e.src, e.dst>> : e \in PlanEdges(view[r])}

Known(v) == <<v[1], v[2]>>

Present == {<<e.label, Known(e.src), Known(e.dst)>> : e \in edges}

(* A plan is closed although its rows come from four snapshots: no planned
   edge has an end that is not a planned vertex. *)
PlanIsClosed ==
    \A r \in Rebuilders :
        pc[r] = "load" \/ pc[r] = "done" =>
            \A e \in PlanEdges(view[r]) : {e.src, e.dst} \subseteq PlanVertices(view[r])

(* A rebuild that had the graph to itself and reports success has loaded its
   plan: all its vertices, no others, and all its edges.  So one rebuild
   repairs what any crash or race before it left behind. *)
SuccessLoadsThePlan ==
    \A r \in Rebuilders :
        pc[r] = "done" /\ alone[r] =>
            /\ exists
            /\ {Known(v) : v \in vertices} = PlanVertices(view[r])
            /\ Planned(r) \subseteq Present

(* Even when rebuilds race, whatever is in the graph was read by the one that
   put it there: no vertex comes from elsewhere, and every edge has the ids
   of an edge that rebuild planned. *)
GraphComesFromViews ==
    /\ \A v \in vertices : Known(v) \in PlanVertices(view[v[3]])
    /\ \A e \in edges :
          \E p \in PlanEdges(view[e.by]) :
             p.label = e.label /\ p.src[2] = e.src[2] /\ p.dst[2] = e.dst[2]

(* A rebuild that had the graph to itself has one vertex for each row and one
   edge for each label and ordered pair of vertices, also where it planned
   the pair several times; overlapping rebuilds may double both. *)
OnlyRacesDouble ==
    \A r \in Rebuilders :
        pc[r] \in {"load", "done"} /\ alone[r] =>
            /\ \A v, w \in vertices : Known(v) = Known(w) => v = w
            /\ \A e, f \in edges : Ends(e) = Ends(f) => e = f
=============================================================================
