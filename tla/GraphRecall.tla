---------------------------- MODULE GraphRecall ----------------------------
(***************************************************************************)
(* ilma_recall and ilma_wiki_search with expand_graph=True (service.py),   *)
(* and PgGraphRepo.traverse under them (storage/postgres_graph.py), beside *)
(* the rebuilds of GraphRebuild.                                           *)
(*                                                                         *)
(* The hits come from one search of the tables; then every hit is expanded *)
(* by a traversal of a graph that may be stale, half loaded, just dropped, *)
(* or doubled by a race.  A traversal is three statements, each in a       *)
(* transaction of its own; whatever one raises, the hit is left without    *)
(* neighbours.  Of the answer of the first, the start vertex, only the     *)
(* length counts, and what the third returns is never used.                *)
(***************************************************************************)
EXTENDS GraphRebuild

CONSTANTS
    Hops,      \* graph_hops
    Limit,     \* the limit of nodes of a traversal, 20 in both tools
    MaxTools   \* bound: the rebuilds and expansions a behaviour makes

ASSUME RecallAssumption == Hops \in 1..3 /\ Limit \in Nat \ {0} /\ MaxTools \in Nat

VARIABLE call        \* the one call of recall or wiki_search

allVars == <<vars, call>>

NoCall == [tool |-> "none", hits |-> {}, todo |-> {}, at |-> 0,
           stage |-> "none", starts |-> 0, nodes |-> {}, neighbours |-> {}, skipped |-> {}, trusted |-> {}]

CallInit == Init /\ call = NoCall

(* The kind of vertex the hits of a tool are. *)
KindOf(tool) == IF tool = "recall" THEN "Memory" ELSE "Wiki"

(* The graph is what rebuild r loaded, undisturbed, and no row has come or
   gone since r read the tables. *)
Fresh(r) ==
    /\ pc[r] = "done"
    /\ alone[r]
    /\ LiveIds(view[r]) = LiveMemories
    /\ view[r].wikis = pages

(* The search of the tables: without a hit nothing is expanded. *)
Search(tool) ==
    /\ call = NoCall
    /\ \E hits \in SUBSET (IF tool = "recall" THEN LiveMemories ELSE pages) \ {{}} :
          call' = [NoCall EXCEPT !.tool = tool, !.hits = hits, !.todo = hits,
                                 !.trusted = {r \in Rebuilders : Fresh(r)}]
    /\ UNCHANGED vars

(* The vertices up to n edges away, whichever way the edges point. *)
Beside(S) == S \cup {e.dst : e \in {f \in edges : f.src \in S}}
               \cup {e.src : e \in {f \in edges : f.dst \in S}}

Around(from, n) ==
    LET reach[k \in 0..n] == IF k = 0 THEN from ELSE Beside(reach[k - 1])
    IN  reach[n]

Node(hit) == <<KindOf(call.tool), hit>>

Starts(hit) == {v \in vertices : Known(v) = Node(hit)}

(* traverse for the next hit: every vertex that is the hit ... *)
Traverse(hit) ==
    /\ hit \in call.todo
    /\ call.at = 0
    /\ exists
    /\ call' = [call EXCEPT !.at = hit, !.todo = @ \ {hit}, !.stage = "neighbours",
                            !.starts = Cardinality(Starts(hit)),
                            !.nodes = {Known(v) : v \in Starts(hit)}]
    /\ UNCHANGED vars

(* ... and, in the next transaction, the nodes around them, in the order of
   the answer, until there are Limit in all.  A path may lead back to the
   hit, which counts unless the first statement had found it. *)
Neighbours ==
    /\ call.stage = "neighbours"
    /\ exists
    /\ LET around == {Known(v) : v \in Around(Starts(call.at), Hops)} \ {Node(call.at)}
           back == IF call.nodes = {} THEN {{}, {Node(call.at)} \cap {Known(v) : v \in vertices}}
                                      ELSE {{}}
       IN  \E more \in back : \E kept \in SUBSET (around \cup more) :
              /\ kept # {} => call.starts + Cardinality(kept) <= Limit
              /\ kept # around \cup more => call.starts + Cardinality(kept) >= Limit
              /\ call' = [call EXCEPT !.stage = "edges", !.nodes = @ \cup kept]
    /\ UNCHANGED vars

(* A statement of the traversal raises: the graph is gone, or the connection. *)
Skip(hit) ==
    /\ \/ call.at = 0 /\ hit \in call.todo
       \/ call.at = hit /\ hit # 0
    /\ call' = [call EXCEPT !.at = 0, !.todo = @ \ {hit}, !.stage = "none", !.starts = 0,
                            !.nodes = {}, !.skipped = @ \cup {hit}]
    /\ UNCHANGED vars

(* seen_ids: the ids of the hits and of the neighbours so far. *)
SeenIds == call.hits \cup {n.id : n \in call.neighbours}

(* Mutant: the neighbours of any kind are taken for memories. *)
CollectAnyKind ==
    /\ call.stage = "edges"
    /\ exists
    /\ call' = [call EXCEPT !.at = 0, !.stage = "none", !.starts = 0, !.nodes = {},
                  !.neighbours = @ \cup {[kind |-> KindOf(call.tool), id |-> v[2], via |-> call.at] :
                                           v \in {w \in call.nodes : w[2] \notin SeenIds}}]
    /\ UNCHANGED vars

(* The last statement of the traversal is answered and its nodes are added:
   recall keeps the memories among them, wiki_search one node of each id. *)
Collect ==
    /\ call.stage = "edges"
    /\ exists
    /\ LET fresh == {v \in call.nodes : v[2] \notin SeenIds /\ (call.tool = "recall" => v[1] = "Memory")}
       IN  \E kept \in SUBSET fresh :
              /\ {v[2] : v \in kept} = {v[2] : v \in fresh}
              /\ \A v, w \in kept : v[2] = w[2] => v = w
              /\ call' = [call EXCEPT !.at = 0, !.stage = "none", !.starts = 0, !.nodes = {},
                            !.neighbours = @ \cup {[kind |-> v[1], id |-> v[2], via |-> call.at] : v \in kept}]
    /\ UNCHANGED vars

Bounded ==
    Cardinality({r \in Rebuilders : pc[r] # "idle"}) + (IF call = NoCall THEN 0 ELSE 1) <= MaxTools

RecallNext ==
    /\ \/ Next /\ UNCHANGED call
       \/ Search("recall")
       \/ Search("wiki_search")
       \/ \E hit \in Memories \cup Wikis : Traverse(hit) \/ Skip(hit)
       \/ Neighbours
       \/ Collect
    /\ Bounded'

RecallSpec == CallInit /\ [][RecallNext]_allVars

-----------------------------------------------------------------------------
Answered == call.tool # "none" /\ call.todo = {} /\ call.at = 0

Rows == ({"Memory"} \X LiveMemories) \cup ({"Wiki"} \X pages) \cup ({"Skill"} \X Skills)

(* When a rebuild had loaded the graph undisturbed before the search, and
   neither the graph nor a table has changed up to the answer, the expansion
   is what the tables say: every neighbour is a row, and recall has every
   memory that shares enough tags with a hit it could expand, unless there
   are more rows than the limit of a traversal.  Everything between the
   search and the answer is read by separate transactions. *)
UndisturbedExpansionIsTrue ==
    Answered /\ (\E r \in call.trusted : Fresh(r)) =>
        /\ \A n \in call.neighbours : <<n.kind, n.id>> \in Rows
        /\ call.tool = "recall" /\ Cardinality(Rows) <= Limit =>
              \A h \in call.hits \ call.skipped, m \in LiveMemories :
                  m # h /\ Cardinality(TagsOf[h] \cap TagsOf[m]) >= MinShared => m \in SeenIds
=============================================================================
