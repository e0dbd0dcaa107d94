------------------------------ MODULE GraphPlan ------------------------------
(***************************************************************************)
(* plan_graph_rebuild (core/graph.py): the vertices and edges the graph    *)
(* should have, computed from the rows of four SELECTs.  Which memory      *)
(* mentions which wiki page or skill is a constant: the text matching is   *)
(* not a subject here, the pairs it finds are.                             *)
(***************************************************************************)
EXTENDS Naturals, FiniteSets, Sequences

CONSTANTS
    TagsOf,      \* TagsOf[m]: the tags of memory m
    MinShared,   \* how many tags two memories share to be linked
    RefersTo,    \* pairs <<m, w>>: the content of m mentions page w
    Uses         \* pairs <<m, k>>: tag, body or marker of m names skill k

(* A view is what the SELECTs returned: the live memories in row order (no
   statement has an ORDER BY), pages, skills, and <<memory, session>> links. *)
LiveIds(view) == {view.memories[i] : i \in DOMAIN view.memories}

PlanVertices(view) ==
    ({"Memory"} \X LiveIds(view)) \cup ({"Wiki"} \X view.wikis) \cup ({"Skill"} \X view.skills)

Edge(label, src, dst, prop) == [label |-> label, src |-> src, dst |-> dst, prop |-> prop]

(* Each pair once, in row order. *)
SharesTag(view) ==
    {Edge("SHARES_TAG", <<"Memory", view.memories[p[1]]>>, <<"Memory", view.memories[p[2]]>>, "tags") :
        p \in {q \in (DOMAIN view.memories) \X (DOMAIN view.memories) :
                 /\ q[1] < q[2]
                 /\ Cardinality(TagsOf[view.memories[q[1]]] \cap TagsOf[view.memories[q[2]]])
                       >= MinShared}}

(* Each pair once per session; a link to a memory that is not in the view is
   skipped. *)
TogetherAlways(view) ==   \* mutant: a link to any memory counts
    {p \in view.links \X view.links : p[1][2] = p[2][2] /\ p[1][1] < p[2][1]}

Together(view) ==
    {p \in view.links \X view.links :
        /\ p[1][2] = p[2][2]
        /\ p[1][1] < p[2][1]
        /\ {p[1][1], p[2][1]} \subseteq LiveIds(view)}

CoOccurs(view) ==
    {Edge("CO_OCCURS", <<"Memory", p[1][1]>>, <<"Memory", p[2][1]>>, p[1][2]) : p \in Together(view)}

ReferencesWiki(view) ==
    {Edge("REFERENCES_WIKI", <<"Memory", p[1]>>, <<"Wiki", p[2]>>, "via") :
        p \in RefersTo \cap (LiveIds(view) \X view.wikis)}

UsesSkill(view) ==
    {Edge("USES_SKILL", <<"Memory", p[1]>>, <<"Skill", p[2]>>, "via") :
        p \in Uses \cap (LiveIds(view) \X view.skills)}

PlanEdges(view) ==
    SharesTag(view) \cup CoOccurs(view) \cup ReferencesWiki(view) \cup UsesSkill(view)

(* The batches of the bulk load: one per kind, then one per label; a kind or
   label with nothing to load has none. *)
Batch(what, name, items) ==
    IF items = {} THEN <<>> ELSE <<[what |-> what, name |-> name, items |-> items]>>

VertexBatches(view) ==
    LET batch(kind) == Batch("vertices", kind, {v \in PlanVertices(view) : v[1] = kind})
    IN  batch("Memory") \o batch("Wiki") \o batch("Skill")

EdgeBatches(view) ==
    LET batch(label) == Batch("edges", label, {e \in PlanEdges(view) : e.label = label})
    IN  batch("SHARES_TAG") \o batch("CO_OCCURS") \o batch("REFERENCES_WIKI") \o batch("USES_SKILL")

Batches(view) == VertexBatches(view) \o EdgeBatches(view)
=============================================================================
