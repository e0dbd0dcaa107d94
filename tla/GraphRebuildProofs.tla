-------------------------- MODULE GraphRebuildProofs --------------------------
(***************************************************************************)
(* GraphRebuild for any tables, pairs and rebuilders, and with it what     *)
(* GraphRecall adds.                                                       *)
(***************************************************************************)
EXTENDS GraphRecall, FiniteSetTheorems, SequenceTheorems, TLAPS

Labels == {"SHARES_TAG", "CO_OCCURS", "REFERENCES_WIKI", "USES_SKILL"}
Kinds == {"Memory", "Wiki", "Skill"}

(* The batches a plan may have. *)
LoadsVertices(vw) == [what : {"vertices"}, name : Kinds, items : SUBSET PlanVertices(vw)]
LoadsEdges(vw) == [what : {"edges"}, name : Labels, items : SUBSET PlanEdges(vw)]
Loads(vw) == LoadsVertices(vw) \cup LoadsEdges(vw)

(* All vertices come before any edge. *)
InOrder(batches) ==
    \A i, j \in DOMAIN batches : i < j /\ batches[i].what = "edges" => batches[j].what = "edges"

(* Something is still to be loaded. *)
Awaits(batches, what, item) ==
    \E i \in DOMAIN batches : batches[i].what = what /\ item \in batches[i].items

HoldsPlan(batches, vw) ==
    /\ \A v \in PlanVertices(vw) : Awaits(batches, "vertices", v)
    /\ \A e \in PlanEdges(vw) : Awaits(batches, "edges", e)

Triple(e) == <<e.label, Known(e.src), Known(e.dst)>>

Vertices(r) == {<<v[1], v[2], r>> : v \in PlanVertices(view[r])}

(* The edge joins vertices that are there, by the ids of a planned edge. *)
FromPlan(r, e) ==
    /\ {e.src, e.dst} \subseteq vertices
    /\ e.by = r
    /\ \E p \in PlanEdges(view[r]) :
          p.label = e.label /\ p.src[2] = e.src[2] /\ p.dst[2] = e.dst[2]

Replacing == {"drop", "dropping", "create"}
Loaders == {"load", "commit", "done", "raised"}

Queued(r) ==
    /\ todo[r] \in Seq(Loads(view[r]))
    /\ InOrder(todo[r])
    /\ pc[r] \notin Replacing \cup {"load", "commit"} => todo[r] = <<>>
    /\ pc[r] \in Replacing => HoldsPlan(todo[r], view[r])

(* What a transaction adds is planned, and nobody drops the graph. *)
Adding(r) ==
    pc[r] = "commit" =>
       /\ todo[r] # <<>>
       /\ exists
       /\ added[r].vertices \subseteq Vertices(r)
       /\ \A e \in added[r].edges : FromPlan(r, e)

(* Whatever is in the graph comes from the plan of who put it there. *)
Sourced ==
    /\ \A v \in vertices : \E r \in Rebuilders : pc[r] \in Loaders /\ v \in Vertices(r)
    /\ \A e \in edges : \E r \in Rebuilders : pc[r] \in Loaders /\ FromPlan(r, e)

(* With the graph to itself, what a rebuild has planned is there or to come. *)
Complete(r) ==
    /\ \A v \in PlanVertices(view[r]) :
          (\E w \in vertices : Known(w) = v) \/ Awaits(todo[r], "vertices", v)
    /\ \A e \in PlanEdges(view[r]) :
          (\E f \in edges : Triple(f) = <<e.label, e.src, e.dst>>) \/ Awaits(todo[r], "edges", e)

Single ==
    /\ \A v, w \in vertices : Known(v) = Known(w) => v = w
    /\ \A e, f \in edges : Ends(e) = Ends(f) => e = f

(* What it adds is what the first of its batches lacks. *)
Lacking(r) ==
    LET batch == Head(todo[r])
    IN  /\ batch.what = "vertices" =>
              added[r] = [Nothing EXCEPT !.vertices = NewVertices(r, batch.items)]
        /\ batch.what = "edges" =>
              added[r] = [Nothing EXCEPT !.edges = Merged(r, batch.items)]

Undisturbed(r) ==
    alone[r] /\ pc[r] \in {"load", "commit", "done"} =>
       /\ exists
       /\ vertices \subseteq Vertices(r)
       /\ Complete(r)
       /\ Single
       /\ pc[r] = "commit" => Lacking(r)

Typed ==
    /\ memory \in [Memories -> {"absent", "live", "deleted"}]
    /\ pages \subseteq Wikis
    /\ exists \in BOOLEAN
    /\ pc \in [Rebuilders -> {"idle", "graph", "memories", "wikis", "skills", "drop",
                              "dropping", "create", "load", "commit"} \cup Ended]
    /\ view \in [Rebuilders -> [memories : Seq(Memories), wikis : SUBSET Wikis,
                                skills : SUBSET Skills, links : SUBSET Links]]
    /\ todo = [r \in Rebuilders |-> todo[r]]
    /\ added = [r \in Rebuilders |-> added[r]]
    /\ \A r \in Rebuilders : Loading(r) \/ added[r] = Nothing
    /\ alone \in [Rebuilders -> BOOLEAN]

Each(r) == Queued(r) /\ Adding(r) /\ Undisturbed(r)

IInv == Typed /\ Sourced /\ \A r \in Rebuilders : Each(r)

-----------------------------------------------------------------------------
(* Plans and batches.                                                      *)

(* An edge of a plan has its ends in it, whatever the four snapshots were. *)
LEMMA Closed ==
    ASSUME NEW vw, NEW e \in PlanEdges(vw)
    PROVE  /\ {e.src, e.dst} \subseteq PlanVertices(vw)
           /\ e.label \in Labels
<1>1. CASE e \in SharesTag(vw)
  <2>1. PICK i, j \in DOMAIN vw.memories :
           e = Edge("SHARES_TAG", <<"Memory", vw.memories[i]>>, <<"Memory", vw.memories[j]>>, "tags")
    BY <1>1 DEF SharesTag
  <2>2. /\ e.src = <<"Memory", vw.memories[i]>> /\ e.dst = <<"Memory", vw.memories[j]>>
        /\ e.label = "SHARES_TAG"
    BY <2>1 DEF Edge
  <2> QED
    BY <2>2 DEF PlanVertices, LiveIds, Labels
<1>2. CASE e \in CoOccurs(vw)
  BY <1>2 DEF CoOccurs, Together, Edge, PlanVertices, Labels
<1>3. CASE e \in ReferencesWiki(vw)
  BY <1>3 DEF ReferencesWiki, Edge, PlanVertices, Labels
<1>4. CASE e \in UsesSkill(vw)
  BY <1>4 DEF UsesSkill, Edge, PlanVertices, Labels
<1> QED
  BY <1>1, <1>2, <1>3, <1>4 DEF PlanEdges

LEMMA Joined ==
    ASSUME NEW S, NEW s \in Seq(S), NEW t \in Seq(S)
    PROVE  /\ s \o t \in Seq(S)
           /\ \A i \in DOMAIN s : i \in DOMAIN (s \o t) /\ (s \o t)[i] = s[i]
           /\ \A j \in DOMAIN t : Len(s) + j \in DOMAIN (s \o t) /\ (s \o t)[Len(s) + j] = t[j]
  OBVIOUS

LEMMA AwaitsJoined ==
    ASSUME NEW S, NEW s \in Seq(S), NEW t \in Seq(S), NEW what, NEW item,
           Awaits(s, what, item) \/ Awaits(t, what, item)
    PROVE  Awaits(s \o t, what, item)
<1>1. CASE Awaits(s, what, item)
  <2>1. PICK i \in DOMAIN s : s[i].what = what /\ item \in s[i].items
    BY <1>1 DEF Awaits
  <2> QED
    BY <2>1, Joined DEF Awaits
<1>2. CASE Awaits(t, what, item)
  <2>1. PICK j \in DOMAIN t : t[j].what = what /\ item \in t[j].items
    BY <1>2 DEF Awaits
  <2>2. Len(s) + j \in DOMAIN (s \o t) /\ (s \o t)[Len(s) + j] = t[j]
    BY Joined
  <2> QED
    BY <2>1, <2>2 DEF Awaits
<1> QED
  BY <1>1, <1>2

LEMMA OneBatch ==
    ASSUME NEW what, NEW name, NEW items, NEW S, [what |-> what, name |-> name, items |-> items] \in S
    PROVE  /\ Batch(what, name, items) \in Seq(S)
           /\ \A item \in items : Awaits(Batch(what, name, items), what, item)
<1>1. CASE items = {}
  BY <1>1 DEF Batch, Awaits
<1>2. CASE items # {}
  <2> DEFINE b == [what |-> what, name |-> name, items |-> items]
  <2>1. Batch(what, name, items) = <<b>>
    BY <1>2 DEF Batch
  <2>2. <<b>> \in Seq(S) /\ 1 \in DOMAIN <<b>> /\ <<b>>[1] = b
    OBVIOUS
  <2>3. b.what = what /\ b.items = items
    OBVIOUS
  <2> QED
    BY <2>1, <2>2, <2>3 DEF Awaits
<1> QED
  BY <1>1, <1>2

LEMMA BatchesHoldThePlan ==
    ASSUME NEW vw
    PROVE  /\ Batches(vw) \in Seq(Loads(vw))
           /\ InOrder(Batches(vw))
           /\ HoldsPlan(Batches(vw), vw)
<1> DEFINE bv(kind) == Batch("vertices", kind, {v \in PlanVertices(vw) : v[1] = kind})
           be(label) == Batch("edges", label, {e \in PlanEdges(vw) : e.label = label})
           V == LoadsVertices(vw)
           E == LoadsEdges(vw)
<1>1. ASSUME NEW kind \in Kinds
      PROVE  /\ bv(kind) \in Seq(V)
             /\ \A v \in PlanVertices(vw) : v[1] = kind => Awaits(bv(kind), "vertices", v)
  <2> DEFINE items == {v \in PlanVertices(vw) : v[1] = kind}
  <2>1. [what |-> "vertices", name |-> kind, items |-> items] \in V
    BY DEF LoadsVertices
  <2> QED
    BY <2>1, OneBatch
<1>2. ASSUME NEW label \in Labels
      PROVE  /\ be(label) \in Seq(E)
             /\ \A e \in PlanEdges(vw) : e.label = label => Awaits(be(label), "edges", e)
  <2> DEFINE items == {e \in PlanEdges(vw) : e.label = label}
  <2>1. [what |-> "edges", name |-> label, items |-> items] \in E
    BY DEF LoadsEdges
  <2> QED
    BY <2>1, OneBatch
<1> DEFINE v12 == bv("Memory") \o bv("Wiki")
           e12 == be("SHARES_TAG") \o be("CO_OCCURS")
           e123 == e12 \o be("REFERENCES_WIKI")
<1>3. /\ VertexBatches(vw) = v12 \o bv("Skill")
      /\ EdgeBatches(vw) = e123 \o be("USES_SKILL")
  BY DEF VertexBatches, EdgeBatches
<1>4. /\ bv("Memory") \in Seq(V) /\ bv("Wiki") \in Seq(V) /\ bv("Skill") \in Seq(V)
      /\ be("SHARES_TAG") \in Seq(E) /\ be("CO_OCCURS") \in Seq(E)
      /\ be("REFERENCES_WIKI") \in Seq(E) /\ be("USES_SKILL") \in Seq(E)
  BY <1>1, <1>2 DEF Kinds, Labels
<1>5. \A v \in PlanVertices(vw) : v[1] \in Kinds
  BY DEF PlanVertices, Kinds
<1>6. ASSUME NEW v \in PlanVertices(vw)
      PROVE  \/ Awaits(bv("Memory"), "vertices", v)
             \/ Awaits(bv("Wiki"), "vertices", v)
             \/ Awaits(bv("Skill"), "vertices", v)
  <2>1. v[1] \in {"Memory", "Wiki", "Skill"}
    BY <1>5 DEF Kinds
  <2>2. Awaits(bv(v[1]), "vertices", v)
    BY <1>1, <1>5
  <2> HIDE DEF bv
  <2> QED
    BY <2>1, <2>2
<1>7. ASSUME NEW e \in PlanEdges(vw)
      PROVE  \/ Awaits(be("SHARES_TAG"), "edges", e)
             \/ Awaits(be("CO_OCCURS"), "edges", e)
             \/ Awaits(be("REFERENCES_WIKI"), "edges", e)
             \/ Awaits(be("USES_SKILL"), "edges", e)
  <2>1. e.label \in Labels
    BY Closed
  <2>2. Awaits(be(e.label), "edges", e)
    BY <1>2, <2>1
  <2>3. e.label \in {"SHARES_TAG", "CO_OCCURS", "REFERENCES_WIKI", "USES_SKILL"}
    BY <2>1 DEF Labels
  <2> HIDE DEF be
  <2> QED
    BY <2>2, <2>3
<1> HIDE DEF bv, be, V, E
<1>8. v12 \in Seq(V) /\ e12 \in Seq(E)
  BY <1>4, Joined
<1> HIDE DEF v12, e12
<1>9. VertexBatches(vw) \in Seq(V) /\ e123 \in Seq(E)
  BY <1>3, <1>4, <1>8, Joined
<1> HIDE DEF e123
<1>10. EdgeBatches(vw) \in Seq(E)
  BY <1>3, <1>4, <1>9, Joined
<1>11. \A v \in PlanVertices(vw) : Awaits(VertexBatches(vw), "vertices", v)
  <2> SUFFICES ASSUME NEW v \in PlanVertices(vw) PROVE Awaits(v12 \o bv("Skill"), "vertices", v)
    BY <1>3
  <2>1. CASE Awaits(bv("Skill"), "vertices", v)
    BY <2>1, <1>4, <1>8, AwaitsJoined
  <2>2. CASE Awaits(bv("Memory"), "vertices", v) \/ Awaits(bv("Wiki"), "vertices", v)
    <3>1. Awaits(v12, "vertices", v)
      BY <2>2, <1>4, AwaitsJoined DEF v12
    <3> QED
      BY <3>1, <1>4, <1>8, AwaitsJoined
  <2> QED
    BY <2>1, <2>2, <1>6
<1>12. \A e \in PlanEdges(vw) : Awaits(EdgeBatches(vw), "edges", e)
  <2> SUFFICES ASSUME NEW e \in PlanEdges(vw) PROVE Awaits(e123 \o be("USES_SKILL"), "edges", e)
    BY <1>3
  <2>1. CASE Awaits(be("USES_SKILL"), "edges", e)
    BY <2>1, <1>4, <1>9, AwaitsJoined
  <2>2. CASE Awaits(e12, "edges", e) \/ Awaits(be("REFERENCES_WIKI"), "edges", e)
    <3>1. Awaits(e123, "edges", e)
      BY <2>2, <1>4, <1>8, AwaitsJoined DEF e123
    <3> QED
      BY <3>1, <1>4, <1>9, AwaitsJoined
  <2>3. CASE Awaits(be("SHARES_TAG"), "edges", e) \/ Awaits(be("CO_OCCURS"), "edges", e)
    <3>1. Awaits(e12, "edges", e)
      BY <2>3, <1>4, AwaitsJoined DEF e12
    <3> QED
      BY <3>1, <2>2
  <2> QED
    BY <2>1, <2>2, <2>3, <1>7
<1>13. VertexBatches(vw) \in Seq(Loads(vw)) /\ EdgeBatches(vw) \in Seq(Loads(vw))
  BY <1>9, <1>10 DEF Loads, V, E
<1>14. Batches(vw) \in Seq(Loads(vw)) /\ HoldsPlan(Batches(vw), vw)
  BY <1>11, <1>12, <1>13, Joined, AwaitsJoined DEF Batches, HoldsPlan
<1>15. InOrder(Batches(vw))
  <2> DEFINE s == VertexBatches(vw)
             t == EdgeBatches(vw)
  <2>1. /\ \A i \in DOMAIN s : s[i].what = "vertices"
        /\ \A i \in DOMAIN t : t[i].what = "edges"
    <3>1. (\A b \in V : b.what = "vertices") /\ (\A b \in E : b.what = "edges")
      BY DEF LoadsVertices, LoadsEdges, V, E
    <3>2. (\A i \in DOMAIN s : s[i] \in V) /\ (\A i \in DOMAIN t : t[i] \in E)
      BY <1>9, <1>10
    <3> QED
      BY <3>1, <3>2
  <2>2. /\ DOMAIN (s \o t) = 1..(Len(s) + Len(t)) /\ DOMAIN s = 1..Len(s) /\ DOMAIN t = 1..Len(t)
        /\ Len(s) \in Nat /\ Len(t) \in Nat
        /\ \A i \in DOMAIN (s \o t) : (s \o t)[i] = IF i <= Len(s) THEN s[i] ELSE t[i - Len(s)]
    BY <1>13
  <2> HIDE DEF s, t
  <2>3. ASSUME NEW i \in DOMAIN (s \o t), NEW j \in DOMAIN (s \o t), i < j, (s \o t)[i].what = "edges"
        PROVE  (s \o t)[j].what = "edges"
    <3>1. CASE i <= Len(s)
      <4>1. i \in DOMAIN s /\ (s \o t)[i] = s[i]
        BY <2>2, <3>1
      <4> QED
        BY <4>1, <2>1, <2>3
    <3>2. CASE ~ (i <= Len(s))
      <4>1. (j - Len(s)) \in DOMAIN t /\ (s \o t)[j] = t[j - Len(s)]
        BY <2>2, <2>3, <3>2
      <4> QED
        BY <4>1, <2>1
    <3> QED
      BY <3>1, <3>2
  <2> QED
    BY <2>3 DEF InOrder, Batches, s, t
<1> QED
  BY <1>14, <1>15

LEMMA FirstOfSome ==
    ASSUME NEW S, NEW s \in Seq(S), s # <<>>
    PROVE  /\ Head(s) \in S /\ Head(s) = s[1] /\ 1 \in DOMAIN s
           /\ Tail(s) \in Seq(S)
           /\ \A i \in DOMAIN Tail(s) : i + 1 \in DOMAIN s /\ Tail(s)[i] = s[i + 1]
           /\ \A i \in DOMAIN s : i = 1 \/ (i - 1 \in DOMAIN Tail(s) /\ Tail(s)[i - 1] = s[i])
  OBVIOUS

(* What is awaited of some batches is in the first or awaited of the rest. *)
LEMMA AwaitsRest ==
    ASSUME NEW S, NEW s \in Seq(S), s # <<>>, NEW what, NEW item, Awaits(s, what, item)
    PROVE  \/ Head(s).what = what /\ item \in Head(s).items
           \/ Awaits(Tail(s), what, item)
<1>1. PICK i \in DOMAIN s : s[i].what = what /\ item \in s[i].items
  BY DEF Awaits
<1> QED
  BY <1>1, FirstOfSome DEF Awaits

LEMMA RestInOrder ==
    ASSUME NEW S, NEW s \in Seq(S), s # <<>>, InOrder(s)
    PROVE  /\ InOrder(Tail(s))
           /\ Head(s).what = "edges" => \A item : ~ Awaits(s, "vertices", item)
<1>1. ASSUME NEW i \in DOMAIN Tail(s), NEW j \in DOMAIN Tail(s), i < j, Tail(s)[i].what = "edges"
      PROVE  Tail(s)[j].what = "edges"
  <2>1. i + 1 \in DOMAIN s /\ j + 1 \in DOMAIN s /\ i + 1 < j + 1 /\ s[i + 1].what = "edges"
    BY <1>1, FirstOfSome
  <2> QED
    BY <2>1, FirstOfSome DEF InOrder
<1>2. ASSUME Head(s).what = "edges", NEW i \in DOMAIN s
      PROVE  s[i].what = "edges"
  <2>1. i = 1 \/ 1 < i
    OBVIOUS
  <2> QED
    BY <1>2, <2>1, FirstOfSome DEF InOrder
<1> QED
  BY <1>1, <1>2 DEF InOrder, Awaits

(* MERGE: one edge for each pair of ends that there is no edge between. *)
LEMMA MergeAdds ==
    ASSUME NEW r, NEW batch
    PROVE  /\ \A m \in Merged(r, batch) :
                 /\ \E e \in batch : m \in Matches(r, e)
                 /\ \A f \in edges : Ends(f) # Ends(m)
           /\ \A m, n \in Merged(r, batch) : Ends(m) = Ends(n) => m = n
           /\ \A e \in batch : \A m \in Matches(r, e) :
                 \E f \in edges \cup Merged(r, batch) : Ends(f) = Ends(m)
<1> DEFINE wanted == {m \in UNION {Matches(r, e) : e \in batch} : \A e \in edges : Ends(e) # Ends(m)}
           first(ends) == CHOOSE m \in wanted : Ends(m) = ends
<1>1. Merged(r, batch) = {first(ends) : ends \in {Ends(m) : m \in wanted}}
  BY DEF Merged
<1>2. ASSUME NEW m \in wanted
      PROVE  first(Ends(m)) \in wanted /\ Ends(first(Ends(m))) = Ends(m)
  OBVIOUS
<1>3. ASSUME NEW m \in Merged(r, batch)
      PROVE  m \in wanted /\ m = first(Ends(m))
  <2>1. PICK n \in wanted : m = first(Ends(n))
    BY <1>1
  <2> QED
    BY <2>1, <1>2
<1>4. ASSUME NEW e \in batch, NEW m \in Matches(r, e), \A f \in edges : Ends(f) # Ends(m)
      PROVE  \E f \in Merged(r, batch) : Ends(f) = Ends(m)
  <2>1. m \in wanted
    BY <1>4
  <2>2. first(Ends(m)) \in Merged(r, batch)
    BY <1>1, <2>1
  <2> QED
    BY <2>1, <2>2, <1>2
<1>5. \A m \in wanted : (\E e \in batch : m \in Matches(r, e)) /\ \A f \in edges : Ends(f) # Ends(m)
  OBVIOUS
<1> HIDE DEF wanted, first
<1> QED
  BY <1>3, <1>4, <1>5

LEMMA PlannedVertices ==
    ASSUME NEW vw, NEW v \in PlanVertices(vw)
    PROVE  v = <<v[1], v[2]>>
BY DEF PlanVertices

-----------------------------------------------------------------------------
(* Steps that leave the graph as it is.                                    *)

LEMMA InitIInv == Init => IInv
<1> SUFFICES ASSUME Init PROVE IInv
  OBVIOUS
<1>1. Typed
  <2>1. NoView \in [memories : Seq(Memories), wikis : SUBSET Wikis,
                    skills : SUBSET Skills, links : SUBSET Links]
    BY DEF NoView
  <2> QED
    BY <2>1 DEF Init, Typed, Ended
<1>2. Sourced
  BY DEF Init, Sourced
<1>3. \A r \in Rebuilders : Each(r)
  BY DEF Init, Each, Queued, Adding, Undisturbed, InOrder, Replacing
<1> QED
  BY <1>1, <1>2, <1>3 DEF IInv

LEMMA SameGraph ==
    ASSUME UNCHANGED graph, NEW r, view'[r] = view[r]
    PROVE  /\ Vertices(r)' = Vertices(r)
           /\ \A e : FromPlan(r, e)' <=> FromPlan(r, e)
           /\ Single' <=> Single
           /\ \A batch : NewVertices(r, batch)' = NewVertices(r, batch)
           /\ \A batch : Merged(r, batch)' = Merged(r, batch)
<1>0. vertices' = vertices /\ edges' = edges
  BY DEF graph
<1>1. Vertices(r)' = Vertices(r) /\ \A e : FromPlan(r, e)' <=> FromPlan(r, e)
  BY <1>0 DEF Vertices, FromPlan
<1>2. Single' <=> Single
  BY <1>0 DEF Single
<1>3. \A batch : NewVertices(r, batch)' = NewVertices(r, batch)
  BY <1>0 DEF NewVertices
<1>4. \A batch : Merged(r, batch)' = Merged(r, batch)
  BY <1>0 DEF Merged, Matches
<1> QED
  BY <1>1, <1>2, <1>3, <1>4

(* A rebuild that stands still. *)
LEMMA Aside ==
    ASSUME IInv, UNCHANGED graph, NEW r \in Rebuilders,
           pc'[r] = pc[r], view'[r] = view[r], todo'[r] = todo[r], added'[r] = added[r], alone'[r] = alone[r]
    PROVE  Each(r)'
<1>0. Each(r) /\ exists' = exists /\ vertices' = vertices /\ edges' = edges
  BY DEF IInv, graph
<1>1. Queued(r)'
  BY <1>0 DEF Each, Queued, HoldsPlan
<1>2. Adding(r)'
  BY <1>0, SameGraph DEF Each, Adding
<1>3. Undisturbed(r)'
  <2>1. Complete(r)' <=> Complete(r)
    BY <1>0 DEF Complete
  <2>2. Lacking(r)' <=> Lacking(r)
    BY <1>0, SameGraph DEF Lacking
  <2> QED
    BY <1>0, <2>1, <2>2, SameGraph DEF Each, Undisturbed
<1> QED
  BY <1>1, <1>2, <1>3 DEF Each

LEMMA TablesInv ==
    ASSUME IInv, UNCHANGED <<graph, pc, view, todo, added, alone>>,
           memory' \in [Memories -> {"absent", "live", "deleted"}], pages' \subseteq Wikis
    PROVE  IInv'
<1>1. Typed'
  BY DEF IInv, Typed, Loading, graph
<1>2. Sourced'
  BY SameGraph DEF IInv, Sourced, graph
<1>3. \A r \in Rebuilders : Each(r)'
  BY Aside
<1> QED
  BY <1>1, <1>2, <1>3 DEF IInv

(* The step of one rebuild, which keeps what it has read once it loads. *)
LEMMA OwnStep ==
    ASSUME IInv, UNCHANGED <<tables, graph>>, NEW r \in Rebuilders, Typed',
           \A q \in Rebuilders \ {r} :
              /\ pc'[q] = pc[q] /\ view'[q] = view[q] /\ todo'[q] = todo[q]
              /\ added'[q] = added[q] /\ alone'[q] = alone[q],
           pc[r] \in Loaders => pc'[r] \in Loaders /\ view'[r] = view[r],
           Each(r)'
    PROVE  IInv'
<1>1. \A q \in Rebuilders : Each(q)'
  BY Aside
<1>2. Sourced'
  <2>1. \A q \in Rebuilders : pc[q] \in Loaders => pc'[q] \in Loaders /\ view'[q] = view[q]
    OBVIOUS
  <2>2. vertices' = vertices /\ edges' = edges
    BY DEF graph
  <2>3. ASSUME NEW v \in vertices PROVE \E q \in Rebuilders : pc'[q] \in Loaders /\ v \in Vertices(q)'
    <3>1. PICK q \in Rebuilders : pc[q] \in Loaders /\ v \in Vertices(q)
      BY DEF IInv, Sourced
    <3> QED
      BY <2>1, <3>1, SameGraph
  <2>4. ASSUME NEW e \in edges PROVE \E q \in Rebuilders : pc'[q] \in Loaders /\ FromPlan(q, e)'
    <3>1. PICK q \in Rebuilders : pc[q] \in Loaders /\ FromPlan(q, e)
      BY DEF IInv, Sourced
    <3> QED
      BY <2>1, <3>1, SameGraph
  <2> QED
    BY <2>2, <2>3, <2>4 DEF Sourced
<1> QED
  BY <1>1, <1>2 DEF IInv

Places == {"idle", "graph", "memories", "wikis", "skills", "drop",
           "dropping", "create", "load", "commit"} \cup Ended

LEMMA RaiseInv ==
    ASSUME IInv, NEW r \in Rebuilders, Raise(r), UNCHANGED <<tables, graph, view, alone>>
    PROVE  IInv'
<1>1. /\ pc'[r] = "raised" /\ todo'[r] = <<>> /\ added'[r] = Nothing
      /\ \A q \in Rebuilders \ {r} : pc'[q] = pc[q] /\ todo'[q] = todo[q] /\ added'[q] = added[q]
      /\ pc' \in [Rebuilders -> Places]
      /\ todo' = [q \in Rebuilders |-> todo'[q]] /\ added' = [q \in Rebuilders |-> added'[q]]
  BY DEF IInv, Typed, Raise, Goto, Places, Ended
<1>2. Typed'
  BY <1>1 DEF IInv, Typed, Loading, graph, tables, Places
<1>3. Each(r)'
  BY <1>1 DEF Each, Queued, Adding, Undisturbed, InOrder, Replacing
<1> QED
  BY <1>1, <1>2, <1>3, OwnStep DEF Loaders

Views == [memories : Seq(Memories), wikis : SUBSET Wikis,
          skills : SUBSET Skills, links : SUBSET Links]

(* A step from one place to the next, with what is read on the way. *)
Moves(r) ==
    /\ UNCHANGED <<tables, graph, added>>
    /\ pc' \in [Rebuilders -> Places] /\ pc[r] # "commit" /\ pc'[r] # "commit"
    /\ view' \in [Rebuilders -> Views]
    /\ todo' = [q \in Rebuilders |-> todo'[q]]
    /\ alone' \in [Rebuilders -> BOOLEAN]
    /\ \A q \in Rebuilders \ {r} :
          pc'[q] = pc[q] /\ view'[q] = view[q] /\ todo'[q] = todo[q] /\ alone'[q] = alone[q]
    /\ pc[r] \in Loaders => pc'[r] \in Loaders /\ view'[r] = view[r]

LEMMA MoveInv ==
    ASSUME IInv, NEW r \in Rebuilders, Moves(r), Queued(r)', Undisturbed(r)'
    PROVE  IInv'
<1>1. Typed'
  <2>1. \A q \in Rebuilders : Loading(q)' \/ added'[q] = Nothing
    BY DEF IInv, Typed, Loading, Moves
  <2> QED
    BY <2>1 DEF IInv, Typed, graph, tables, Places, Views, Moves
<1>2. Each(r)'
  BY DEF Each, Adding, Moves
<1> QED
  BY <1>1, <1>2, OwnStep DEF Moves

(* A rebuild that has queued nothing has nothing to show. *)
LEMMA NothingQueued ==
    ASSUME NEW r \in Rebuilders, todo'[r] = <<>>,
           pc'[r] \notin Replacing, pc'[r] \notin {"load", "commit", "done"}
    PROVE  Queued(r)' /\ Undisturbed(r)'
BY DEF Queued, Undisturbed, InOrder

LEMMA ReadInv ==
    ASSUME IInv, NEW r \in Rebuilders, Ensure(r) \/ ReadMemories(r) \/ ReadWikis(r)
    PROVE  IInv'
<1>0. /\ view \in [Rebuilders -> Views] /\ pc \in [Rebuilders -> Places]
      /\ alone \in [Rebuilders -> BOOLEAN] /\ todo = [q \in Rebuilders |-> todo[q]]
      /\ pc[r] \in {"idle", "memories", "wikis"} => todo[r] = <<>>
  BY DEF IInv, Typed, Each, Queued, Replacing, Views, Places
<1>1. view' \in [Rebuilders -> Views] /\ \A q \in Rebuilders \ {r} : view'[q] = view[q]
  <2>1. CASE Ensure(r)
    BY <1>0, <2>1 DEF Ensure
  <2>2. CASE ReadMemories(r)
    <3>1. PICK rows \in SetToSeqs(LiveMemories) : view' = [view EXCEPT ![r].memories = rows]
      BY <2>2 DEF ReadMemories
    <3>2. LiveMemories \subseteq Memories /\ Cardinality(LiveMemories) \in Nat
      BY GraphAssumption, FS_Subset, FS_CardinalityType DEF LiveMemories
    <3>3. rows \in [1..Cardinality(LiveMemories) -> LiveMemories]
      BY DEF SetToSeqs
    <3>4. rows \in [1..Cardinality(LiveMemories) -> Memories]
      BY <3>2, <3>3
    <3>5. rows \in Seq(Memories)
      BY <3>2, <3>4, SeqDef
    <3> QED
      BY <1>0, <3>1, <3>5 DEF Views
  <2>3. CASE ReadWikis(r)
    BY <1>0, <2>3 DEF ReadWikis, IInv, Typed, Views
  <2> QED
    BY <2>1, <2>2, <2>3
<1>2. PICK label \in {"memories", "graph", "wikis", "skills"} : Goto(r, label)
  BY DEF Ensure, ReadMemories, ReadWikis
<1>3. pc[r] \in {"idle", "memories", "wikis"} /\ UNCHANGED <<tables, graph, todo, added, alone>>
  BY DEF Ensure, ReadMemories, ReadWikis
<1>4. pc' \in [Rebuilders -> Places] /\ pc'[r] = label /\ \A q \in Rebuilders \ {r} : pc'[q] = pc[q]
  BY <1>0, <1>2 DEF Goto, Places
<1>5. Moves(r)
  BY <1>0, <1>1, <1>3, <1>4 DEF Moves, Loaders
<1>6. Queued(r)' /\ Undisturbed(r)'
  BY <1>0, <1>3, <1>4, NothingQueued DEF Replacing
<1> QED
  BY <1>5, <1>6, MoveInv

LEMMA PlanInv ==
    ASSUME IInv, NEW r \in Rebuilders, ReadSkillsAndLinks(r)
    PROVE  IInv'
<1>0. /\ view \in [Rebuilders -> Views] /\ pc \in [Rebuilders -> Places]
      /\ alone \in [Rebuilders -> BOOLEAN] /\ todo = [q \in Rebuilders |-> todo[q]]
  BY DEF IInv, Typed, Views, Places
<1>1. view' \in [Rebuilders -> Views] /\ \A q \in Rebuilders \ {r} : view'[q] = view[q]
  BY <1>0 DEF ReadSkillsAndLinks, Views
<1>2. todo' = [todo EXCEPT ![r] = Batches(view'[r])]
  BY DEF ReadSkillsAndLinks
<1>3. todo'[r] = Batches(view'[r]) /\ todo' = [q \in Rebuilders |-> todo'[q]]
      /\ \A q \in Rebuilders \ {r} : todo'[q] = todo[q]
  BY <1>0, <1>2
<1>4. /\ pc' \in [Rebuilders -> Places] /\ pc'[r] = "drop" /\ pc[r] = "skills"
      /\ \A q \in Rebuilders \ {r} : pc'[q] = pc[q]
      /\ UNCHANGED <<tables, graph, added, alone>>
  BY <1>0 DEF ReadSkillsAndLinks, Goto, Places
<1>5. Moves(r)
  BY <1>0, <1>1, <1>3, <1>4 DEF Moves, Loaders
<1>6. Queued(r)' /\ Undisturbed(r)'
  BY <1>3, <1>4, BatchesHoldThePlan DEF Queued, Undisturbed, Replacing
<1> QED
  BY <1>5, <1>6, MoveInv

LEMMA LookInv ==
    ASSUME IInv, NEW r \in Rebuilders, LookForGraph(r)
    PROVE  IInv'
<1>0. /\ view \in [Rebuilders -> Views] /\ pc \in [Rebuilders -> Places]
      /\ alone \in [Rebuilders -> BOOLEAN] /\ todo = [q \in Rebuilders |-> todo[q]] /\ Each(r)
  BY DEF IInv, Typed, Views, Places
<1>1. PICK label \in {"dropping", "create"} : Goto(r, label)
  BY DEF LookForGraph
<1>2. /\ pc' \in [Rebuilders -> Places] /\ pc'[r] = label /\ pc[r] = "drop"
      /\ alone' \in [Rebuilders -> BOOLEAN]
      /\ \A q \in Rebuilders \ {r} : pc'[q] = pc[q] /\ alone'[q] = alone[q]
      /\ UNCHANGED <<tables, graph, view, todo, added>>
  BY <1>0, <1>1 DEF LookForGraph, Goto, Places
<1>3. Moves(r)
  BY <1>0, <1>2 DEF Moves, Loaders
<1>4. Queued(r)' /\ Undisturbed(r)'
  BY <1>0, <1>2 DEF Each, Queued, HoldsPlan, Undisturbed, Replacing
<1> QED
  BY <1>3, <1>4, MoveInv

LEMMA FinishInv ==
    ASSUME IInv, NEW r \in Rebuilders, Finish(r)
    PROVE  IInv'
<1>0. /\ view \in [Rebuilders -> Views] /\ pc \in [Rebuilders -> Places]
      /\ alone \in [Rebuilders -> BOOLEAN] /\ todo = [q \in Rebuilders |-> todo[q]] /\ Each(r)
  BY DEF IInv, Typed, Views, Places
<1>1. /\ pc' \in [Rebuilders -> Places] /\ pc'[r] = "done" /\ pc[r] = "load" /\ todo[r] = <<>>
      /\ \A q \in Rebuilders \ {r} : pc'[q] = pc[q]
      /\ UNCHANGED <<tables, graph, view, todo, added, alone>>
      /\ exists' = exists /\ vertices' = vertices /\ edges' = edges
  BY <1>0 DEF Finish, Goto, Places, Ended, graph
<1>2. Moves(r)
  BY <1>0, <1>1 DEF Moves, Loaders
<1>3. Queued(r)'
  BY <1>0, <1>1 DEF Each, Queued, Replacing
<1>4. Undisturbed(r)'
  <2>1. Complete(r)' <=> Complete(r)
    BY <1>1 DEF Complete
  <2> QED
    BY <1>0, <1>1, <2>1, SameGraph DEF Each, Undisturbed
<1> QED
  BY <1>2, <1>3, <1>4, MoveInv

LEMMA LoadInv ==
    ASSUME IInv, NEW r \in Rebuilders, Load(r)
    PROVE  IInv'
<1>0. Each(r) /\ pc[r] = "load" /\ todo[r] # <<>>
  BY DEF IInv, Load
<1> DEFINE batch == Head(todo[r])
           new == IF batch.what = "vertices"
                  THEN [Nothing EXCEPT !.vertices = NewVertices(r, batch.items)]
                  ELSE [Nothing EXCEPT !.edges = Merged(r, batch.items)]
<1>1. CASE Raise(r)
  BY <1>1, RaiseInv DEF Load
<1>2. CASE exists /\ added' = [added EXCEPT ![r] = new] /\ Goto(r, "commit") /\ UNCHANGED todo
  <2>1. /\ pc'[r] = "commit" /\ view'[r] = view[r] /\ todo'[r] = todo[r] /\ added'[r] = new
        /\ exists' /\ vertices' = vertices /\ edges' = edges /\ UNCHANGED <<tables, graph, alone>>
        /\ \A q \in Rebuilders \ {r} :
              /\ pc'[q] = pc[q] /\ view'[q] = view[q] /\ todo'[q] = todo[q]
              /\ added'[q] = added[q] /\ alone'[q] = alone[q]
    BY <1>2 DEF IInv, Typed, Load, Goto, graph, tables
  <2>2. Typed'
    <3>1. pc' \in [Rebuilders -> Places] /\ added' = [q \in Rebuilders |-> added'[q]]
      BY <1>2 DEF IInv, Typed, Goto, Places
    <3>2. \A q \in Rebuilders : Loading(q)' \/ added'[q] = Nothing
      BY <2>1 DEF IInv, Typed, Loading
    <3> QED
      BY <1>2, <2>1, <3>1, <3>2 DEF IInv, Typed, Load, graph, tables, Places
  <2>3. batch \in Loads(view[r])
    BY <1>0, FirstOfSome DEF Each, Queued
  <2>4. /\ new.vertices \subseteq Vertices(r)
        /\ \A e \in new.edges : FromPlan(r, e)
        /\ batch.what = "vertices" => new = [Nothing EXCEPT !.vertices = NewVertices(r, batch.items)]
        /\ batch.what = "edges" => new = [Nothing EXCEPT !.edges = Merged(r, batch.items)]
    <3>1. CASE batch.what = "vertices"
      <4>1. batch.items \subseteq PlanVertices(view[r])
        BY <2>3, <3>1 DEF Loads, LoadsVertices, LoadsEdges
      <4>2. new.vertices = NewVertices(r, batch.items) /\ new.edges = {}
        BY <3>1 DEF Nothing
      <4> QED
        BY <3>1, <4>1, <4>2 DEF NewVertices, Vertices
    <3>2. CASE batch.what # "vertices"
      <4>1. batch.items \subseteq PlanEdges(view[r])
        BY <2>3, <3>2 DEF Loads, LoadsVertices, LoadsEdges
      <4>2. new.edges = Merged(r, batch.items) /\ new.vertices = {}
        BY <3>2 DEF Nothing
      <4>3. ASSUME NEW m \in Merged(r, batch.items) PROVE FromPlan(r, m)
        <5>1. PICK e \in batch.items : m \in Matches(r, e)
          BY MergeAdds
        <5>2. PICK v \in vertices \X vertices :
                 /\ v[1][2] = e.src[2] /\ v[2][2] = e.dst[2]
                 /\ m = [label |-> e.label, src |-> v[1], dst |-> v[2], by |-> r, for |-> e]
          BY <5>1 DEF Matches
        <5>3. m.label = e.label /\ m.src = v[1] /\ m.dst = v[2] /\ m.by = r
          BY <5>2
        <5> QED
          BY <4>1, <5>2, <5>3 DEF FromPlan
      <4> QED
        BY <3>2, <4>2, <4>3
    <3> QED
      BY <3>1, <3>2
  <2> HIDE DEF new, batch
  <2>5. Queued(r)'
    BY <1>0, <2>1 DEF Each, Queued, Replacing
  <2>6. Adding(r)'
    BY <1>0, <2>1, <2>4, SameGraph DEF Adding
  <2>7. Undisturbed(r)'
    <3>1. Complete(r)' <=> Complete(r)
      BY <2>1 DEF Complete
    <3>2. Lacking(r)'
      BY <2>1, <2>4, SameGraph DEF Lacking, batch
    <3> QED
      BY <1>0, <2>1, <3>1, <3>2, SameGraph DEF Each, Undisturbed
  <2> QED
    BY <1>0, <2>1, <2>2, <2>5, <2>6, <2>7, OwnStep DEF Each, Loaders
<1> QED
  BY <1>0, <1>1, <1>2 DEF Load

-----------------------------------------------------------------------------
(* Steps that change the graph.                                            *)

(* The graph is empty, or not there; nobody was loading it. *)
LEMMA EmptyInv ==
    ASSUME IInv, NEW r \in Rebuilders, UNCHANGED <<tables, view, todo, added>>,
           exists' \in BOOLEAN, vertices' = {}, edges' = {}, Touches(r),
           NEW label \in {"memories", "create", "load"}, Goto(r, label),
           pc[r] \in {"graph", "dropping", "create"},
           label = "memories" => pc[r] = "graph",
           label # "memories" => pc[r] \in Replacing,
           label = "load" => exists',
           \A q \in Rebuilders : pc[q] # "commit"
    PROVE  IInv'
<1>0. /\ pc \in [Rebuilders -> Places] /\ \A q \in Rebuilders : Each(q) /\ added[q] = Nothing
      /\ alone \in [Rebuilders -> BOOLEAN]
  BY DEF IInv, Typed, Places, Loading
<1>1. /\ pc' \in [Rebuilders -> Places] /\ pc'[r] = label
      /\ \A q \in Rebuilders \ {r} : pc'[q] = pc[q] /\ alone'[q] = FALSE
      /\ alone' \in [Rebuilders -> BOOLEAN]
  BY <1>0 DEF Goto, Places, Touches
<1>2. Typed'
  BY <1>0, <1>1 DEF IInv, Typed, tables, Places
<1>3. Sourced'
  BY DEF Sourced
<1>4. ASSUME NEW q \in Rebuilders PROVE Each(q)'
  <2>1. Queued(q)'
    BY <1>0, <1>1 DEF Each, Queued, HoldsPlan, Replacing
  <2>2. Adding(q)'
    BY <1>1 DEF Adding
  <2>3. CASE q # r
    BY <1>1, <2>1, <2>2, <2>3 DEF Each, Undisturbed
  <2>4. CASE q = r
    <3>1. label = "load" => Complete(r)'
      BY <1>0 DEF Each, Queued, HoldsPlan, Complete
    <3>2. Undisturbed(r)'
      BY <1>1, <3>1 DEF Undisturbed, Single
    <3> QED
      BY <2>1, <2>2, <2>4, <3>2 DEF Each
  <2> QED
    BY <2>3, <2>4
<1> QED
  BY <1>2, <1>3, <1>4 DEF IInv

LEMMA CreateInv ==
    ASSUME IInv, NEW r \in Rebuilders, NEW from, NEW to, CreateGraph(r, from, to),
           <<from, to>> \in {<<"graph", "memories">>, <<"create", "load">>}
    PROVE  IInv'
<1>1. CASE exists
  BY <1>1, RaiseInv DEF CreateGraph
<1>2. CASE ~ exists
  <2>1. \A q \in Rebuilders : pc[q] # "commit"
    BY <1>2 DEF IInv, Each, Adding
  <2> QED
    BY <1>2, <2>1, EmptyInv DEF CreateGraph, Replacing
<1> QED
  BY <1>1, <1>2

LEMMA DropInv ==
    ASSUME IInv, NEW r \in Rebuilders, Drop(r)
    PROVE  IInv'
<1>1. CASE exists
  BY <1>1, EmptyInv DEF Drop, Loading, Replacing
<1>2. CASE ~ exists
  BY <1>2, RaiseInv DEF Drop
<1> QED
  BY <1>1, <1>2

(* The commit of a rebuild that has the graph to itself. *)
LEMMA CommitUndisturbed ==
    ASSUME IInv, NEW r \in Rebuilders, Commit(r), alone[r]
    PROVE  /\ vertices' \subseteq Vertices(r)'
           /\ Complete(r)'
           /\ Single'
<1> DEFINE batch == Head(todo[r])
           vw == view[r]
<1>0. /\ Undisturbed(r) /\ Adding(r) /\ Queued(r) /\ pc[r] = "commit" /\ todo[r] # <<>>
      /\ vertices' = vertices \cup added[r].vertices
      /\ edges' = edges \cup added[r].edges
      /\ todo'[r] = Tail(todo[r]) /\ view'[r] = vw
  BY DEF IInv, Typed, Each, Adding, Commit, Loading
<1>1. vertices' \subseteq Vertices(r)'
  BY <1>0 DEF Undisturbed, Adding, Vertices
<1>2. /\ todo[r] \in Seq(Loads(vw)) /\ batch \in Loads(vw) /\ InOrder(todo[r])
      /\ Complete(r) /\ Single /\ Lacking(r)
  BY <1>0, FirstOfSome DEF Queued, Undisturbed
<1>3. \A what, item : Awaits(todo[r], what, item) =>
         (batch.what = what /\ item \in batch.items) \/ Awaits(todo'[r], what, item)
  BY <1>0, <1>2, AwaitsRest
<1>4. CASE batch.what = "vertices"
  <2>1. added[r].vertices = NewVertices(r, batch.items) /\ added[r].edges = {}
    BY <1>2, <1>4 DEF Lacking, Nothing
  <2>2. batch.items \subseteq PlanVertices(vw)
    BY <1>2, <1>4 DEF Loads, LoadsVertices, LoadsEdges
  <2>3. ASSUME NEW v \in batch.items PROVE \E w \in vertices' : Known(w) = v
    <3>1. v = <<v[1], v[2]>>
      BY <2>2, PlannedVertices
    <3>2. CASE \E w \in vertices : <<w[1], w[2]>> = v
      BY <1>0, <3>2 DEF Known
    <3>3. CASE \A w \in vertices : <<w[1], w[2]>> # v
      <4>1. <<v[1], v[2], r>> \in NewVertices(r, batch.items)
        BY <3>3 DEF NewVertices
      <4> QED
        BY <1>0, <2>1, <3>1, <4>1 DEF Known
    <3> QED
      BY <3>2, <3>3
  <2>4. ASSUME NEW v \in PlanVertices(vw)
        PROVE  (\E w \in vertices' : Known(w) = v) \/ Awaits(todo'[r], "vertices", v)
    BY <1>0, <1>2, <1>3, <2>3 DEF Complete
  <2>5. ASSUME NEW e \in PlanEdges(vw)
        PROVE  (\E f \in edges' : Triple(f) = <<e.label, e.src, e.dst>>) \/ Awaits(todo'[r], "edges", e)
    BY <1>0, <1>2, <1>3, <1>4 DEF Complete
  <2>6. Complete(r)'
    BY <1>0, <2>4, <2>5 DEF Complete
  <2>7. ASSUME NEW v \in NewVertices(r, batch.items)
        PROVE  /\ v = <<Known(v)[1], Known(v)[2], r>>
               /\ \A w \in vertices : Known(w) # Known(v)
    <3>1. PICK u \in batch.items : v = <<u[1], u[2], r>> /\ \A w \in vertices : <<w[1], w[2]>> # u
      BY DEF NewVertices
    <3>2. u = <<u[1], u[2]>>
      BY <2>2, PlannedVertices
    <3> QED
      BY <3>1, <3>2 DEF Known
  <2>8. Single'
    <3>1. ASSUME NEW v \in vertices', NEW w \in vertices', Known(v) = Known(w) PROVE v = w
      <4>1. CASE v \in vertices /\ w \in vertices
        BY <1>2, <3>1, <4>1 DEF Single
      <4>2. CASE v \in NewVertices(r, batch.items) /\ w \in NewVertices(r, batch.items)
        BY <2>7, <3>1, <4>2
      <4>3. CASE v \in vertices /\ w \in NewVertices(r, batch.items)
        BY <2>7, <3>1, <4>3
      <4>4. CASE v \in NewVertices(r, batch.items) /\ w \in vertices
        BY <2>7, <3>1, <4>4
      <4> QED
        BY <1>0, <2>1, <4>1, <4>2, <4>3, <4>4
    <3>2. edges' = edges
      BY <1>0, <2>1
    <3> QED
      BY <1>2, <3>1, <3>2 DEF Single
  <2> QED
    BY <1>1, <2>6, <2>8
<1>5. CASE batch.what = "edges"
  <2>1. added[r].edges = Merged(r, batch.items) /\ added[r].vertices = {}
    BY <1>2, <1>5 DEF Lacking, Nothing
  <2>2. vertices' = vertices /\ edges' = edges \cup Merged(r, batch.items)
    BY <1>0, <2>1
  <2>3. batch.items \subseteq PlanEdges(vw)
    BY <1>2, <1>5 DEF Loads, LoadsVertices, LoadsEdges
  <2>4. \A v \in PlanVertices(vw) : \E w \in vertices : Known(w) = v
    <3>1. \A item : ~ Awaits(todo[r], "vertices", item)
      BY <1>0, <1>2, <1>5, RestInOrder
    <3> QED
      BY <1>2, <3>1 DEF Complete
  <2>5. ASSUME NEW e \in batch.items
        PROVE  \E f \in edges' : Triple(f) = <<e.label, e.src, e.dst>>
    <3>1. e.src \in PlanVertices(vw) /\ e.dst \in PlanVertices(vw)
      BY <2>3, Closed
    <3>2. PICK v, w \in vertices : Known(v) = e.src /\ Known(w) = e.dst
      BY <2>4, <3>1
    <3> DEFINE m == [label |-> e.label, src |-> v, dst |-> w, by |-> r, for |-> e]
    <3>3. e.src[2] = v[2] /\ e.dst[2] = w[2]
      BY <3>2 DEF Known
    <3>4. m \in Matches(r, e)
      <4>1. <<v, w>> \in {u \in vertices \X vertices : u[1][2] = e.src[2] /\ u[2][2] = e.dst[2]}
        BY <3>3
      <4>2. m = [label |-> e.label, src |-> <<v, w>>[1], dst |-> <<v, w>>[2], by |-> r, for |-> e]
        OBVIOUS
      <4> HIDE DEF m
      <4> QED
        BY <4>1, <4>2, Zenon DEF Matches
    <3>5. Ends(m) = <<e.label, v, w>>
      BY DEF Ends
    <3> HIDE DEF m
    <3>6. PICK f \in edges' : Ends(f) = Ends(m)
      BY <2>2, <3>4, MergeAdds
    <3>7. f.label = e.label /\ f.src = v /\ f.dst = w
      BY <3>5, <3>6 DEF Ends
    <3> QED
      BY <3>2, <3>7 DEF Triple
  <2>6. ASSUME NEW e \in PlanEdges(vw)
        PROVE  (\E f \in edges' : Triple(f) = <<e.label, e.src, e.dst>>) \/ Awaits(todo'[r], "edges", e)
    BY <1>0, <1>2, <1>3, <2>5 DEF Complete
  <2>7. Complete(r)'
    BY <1>0, <2>2, <2>4, <2>6 DEF Complete
  <2>8. Single'
    <3>1. ASSUME NEW e \in edges', NEW f \in edges', Ends(e) = Ends(f) PROVE e = f
      <4>1. CASE e \in edges /\ f \in edges
        BY <1>2, <3>1, <4>1 DEF Single
      <4>2. CASE e \in Merged(r, batch.items) /\ f \in Merged(r, batch.items)
        BY <3>1, <4>2, MergeAdds
      <4>3. CASE e \in edges /\ f \in Merged(r, batch.items)
        BY <3>1, <4>3, MergeAdds
      <4>4. CASE e \in Merged(r, batch.items) /\ f \in edges
        BY <3>1, <4>4, MergeAdds
      <4> QED
        BY <2>2, <4>1, <4>2, <4>3, <4>4
    <3> QED
      BY <1>2, <2>2, <3>1 DEF Single
  <2> QED
    BY <1>1, <2>7, <2>8
<1>6. batch.what = "vertices" \/ batch.what = "edges"
  BY <1>2 DEF Loads, LoadsVertices, LoadsEdges
<1> QED
  BY <1>4, <1>5, <1>6

LEMMA CommitInv ==
    ASSUME IInv, NEW r \in Rebuilders, Commit(r)
    PROVE  IInv'
<1>0. /\ Each(r) /\ pc[r] = "commit" /\ pc \in [Rebuilders -> Places]
      /\ alone \in [Rebuilders -> BOOLEAN]
  BY DEF IInv, Typed, Commit, Loading, Places
<1>1. /\ pc' \in [Rebuilders -> Places] /\ pc'[r] = "load" /\ todo'[r] = Tail(todo[r]) /\ added'[r] = Nothing
      /\ view' = view /\ exists' = exists /\ alone'[r] = alone[r]
      /\ todo' = [q \in Rebuilders |-> todo'[q]] /\ added' = [q \in Rebuilders |-> added'[q]]
      /\ alone' \in [Rebuilders -> BOOLEAN]
      /\ \A q \in Rebuilders \ {r} :
            pc'[q] = pc[q] /\ todo'[q] = todo[q] /\ added'[q] = added[q] /\ alone'[q] = FALSE
  BY <1>0 DEF IInv, Typed, Commit, Goto, Touches, Places
<1>2. vertices' = vertices \cup added[r].vertices /\ edges' = edges \cup added[r].edges
  BY DEF Commit
<1>3. Typed'
  BY <1>1 DEF IInv, Typed, Commit, tables, Places, Loading
<1>4. \A q \in Rebuilders : Vertices(q)' = Vertices(q) /\ \A e : FromPlan(q, e) => FromPlan(q, e)'
  BY <1>1, <1>2 DEF Vertices, FromPlan
<1>5. Sourced'
  <2>1. \A q \in Rebuilders : pc[q] \in Loaders => pc'[q] \in Loaders
    BY <1>1 DEF Loaders
  <2>2. ASSUME NEW v \in vertices' PROVE \E q \in Rebuilders : pc'[q] \in Loaders /\ v \in Vertices(q)'
    <3>1. \E q \in Rebuilders : pc[q] \in Loaders /\ v \in Vertices(q)
      BY <1>0, <1>2 DEF IInv, Sourced, Each, Adding, Loaders
    <3> QED
      BY <1>4, <2>1, <3>1
  <2>3. ASSUME NEW e \in edges' PROVE \E q \in Rebuilders : pc'[q] \in Loaders /\ FromPlan(q, e)'
    <3>1. \E q \in Rebuilders : pc[q] \in Loaders /\ FromPlan(q, e)
      BY <1>0, <1>2 DEF IInv, Sourced, Each, Adding, Loaders
    <3> QED
      BY <1>4, <2>1, <3>1
  <2> QED
    BY <2>2, <2>3 DEF Sourced
<1>6. ASSUME NEW q \in Rebuilders \ {r} PROVE Each(q)'
  <2>0. Each(q)
    BY DEF IInv
  <2>1. Queued(q)'
    BY <1>1, <2>0 DEF Each, Queued, HoldsPlan
  <2>2. Adding(q)'
    BY <1>1, <1>4, <2>0 DEF Each, Adding
  <2> QED
    BY <1>1, <2>1, <2>2 DEF Each, Undisturbed
<1>7. Each(r)'
  <2>1. Queued(r)'
    <3>1. todo[r] \in Seq(Loads(view[r])) /\ todo[r] # <<>> /\ InOrder(todo[r])
      BY <1>0 DEF Each, Queued, Adding
    <3>2. Tail(todo[r]) \in Seq(Loads(view[r])) /\ InOrder(Tail(todo[r]))
      BY <3>1, FirstOfSome, RestInOrder
    <3> QED
      BY <1>1, <3>2 DEF Queued, Replacing
  <2>2. Adding(r)'
    BY <1>1 DEF Adding
  <2>3. alone[r] => vertices' \subseteq Vertices(r)' /\ Complete(r)' /\ Single'
    BY CommitUndisturbed
  <2>4. exists'
    BY <1>0, <1>1 DEF Each, Adding
  <2>5. Undisturbed(r)'
    BY <1>1, <2>3, <2>4 DEF Undisturbed
  <2> QED
    BY <2>1, <2>2, <2>5 DEF Each
<1> QED
  BY <1>3, <1>5, <1>6, <1>7 DEF IInv

-----------------------------------------------------------------------------
(* Whatever a client does next, the invariant holds.                       *)

LEMMA NextIInv ==
    ASSUME IInv, [Next]_vars
    PROVE  IInv'
<1>1. CASE UNCHANGED vars
  <2>1. UNCHANGED <<tables, graph, pc, view, todo, added, alone>>
    BY <1>1 DEF vars, graph, tables
  <2> QED
    BY <2>1, TablesInv DEF IInv, Typed, tables
<1>2. ASSUME NEW m \in Memories, Remember(m) \/ Forget(m) PROVE IInv'
  BY <1>2, TablesInv DEF Remember, Forget, IInv, Typed
<1>3. ASSUME NEW w \in Wikis, CreatePage(w) PROVE IInv'
  BY <1>3, TablesInv DEF CreatePage, IInv, Typed
<1>4. ASSUME NEW r \in Rebuilders, CreateGraph(r, "graph", "memories") \/ CreateGraph(r, "create", "load")
      PROVE  IInv'
  BY <1>4, CreateInv
<1>5. ASSUME NEW r \in Rebuilders, Abort(r) PROVE IInv'
  BY <1>5, RaiseInv DEF Abort
<1>6. ASSUME NEW r \in Rebuilders,
             \/ Ensure(r) \/ ReadMemories(r) \/ ReadWikis(r) \/ ReadSkillsAndLinks(r)
             \/ LookForGraph(r) \/ Drop(r) \/ Load(r) \/ Commit(r) \/ Finish(r)
      PROVE  IInv'
  BY <1>6, ReadInv, PlanInv, LookInv, DropInv, LoadInv, CommitInv, FinishInv
<1> QED
  BY <1>1, <1>2, <1>3, <1>4, <1>5, <1>6 DEF Next

LEMMA Invariance == Spec => []IInv
<1>1. Init => IInv
  BY InitIInv
<1>2. IInv /\ [Next]_vars => IInv'
  BY NextIInv
<1> QED
  BY <1>1, <1>2, PTL DEF Spec

(* A finished rebuild that has the graph to itself: its plan is the graph. *)
LEMMA GraphIsPlan ==
    ASSUME IInv, NEW r \in Rebuilders, pc[r] = "done", alone[r]
    PROVE  /\ exists
           /\ Single
           /\ {Known(v) : v \in vertices} = PlanVertices(view[r])
           /\ \A e \in PlanEdges(view[r]) : \E f \in edges : Triple(f) = <<e.label, e.src, e.dst>>
<1>1. exists /\ vertices \subseteq Vertices(r) /\ Complete(r) /\ Single /\ todo[r] = <<>>
  BY DEF IInv, Each, Undisturbed, Queued, Replacing
<1>2. \A what, item : ~ Awaits(todo[r], what, item)
  BY <1>1 DEF Awaits
<1>3. ASSUME NEW v \in vertices PROVE Known(v) \in PlanVertices(view[r])
  <2>1. PICK u \in PlanVertices(view[r]) : v = <<u[1], u[2], r>>
    BY <1>1 DEF Vertices
  <2>2. u = <<u[1], u[2]>>
    BY PlannedVertices
  <2> QED
    BY <2>1, <2>2 DEF Known
<1>4. \A v \in PlanVertices(view[r]) : \E w \in vertices : Known(w) = v
  BY <1>1, <1>2 DEF Complete
<1>5. \A e \in PlanEdges(view[r]) : \E f \in edges : Triple(f) = <<e.label, e.src, e.dst>>
  BY <1>1, <1>2 DEF Complete
<1> QED
  BY <1>1, <1>3, <1>4, <1>5

-----------------------------------------------------------------------------
(* Every reachable state of ilma_graph_rebuild is well typed: the vertices
   are those of rows, and an edge has its ends in the graph. *)
THEOREM TypeCorrect == Spec => []TypeOK
<1>1. IInv => TypeOK
  <2> SUFFICES ASSUME IInv PROVE TypeOK
    OBVIOUS
  <2>1. ASSUME NEW v \in vertices
        PROVE  <<v[1], v[2]>> \in ({"Memory"} \X Memories) \cup ({"Wiki"} \X Wikis) \cup ({"Skill"} \X Skills)
    <3>1. PICK r \in Rebuilders : v \in Vertices(r)
      BY DEF IInv, Sourced
    <3>2. PICK u \in PlanVertices(view[r]) : v = <<u[1], u[2], r>>
      BY <3>1 DEF Vertices
    <3>3. /\ LiveIds(view[r]) \subseteq Memories
          /\ view[r].wikis \subseteq Wikis /\ view[r].skills \subseteq Skills
      BY DEF IInv, Typed, LiveIds
    <3>4. u = <<u[1], u[2]>>
      BY PlannedVertices
    <3>5. <<v[1], v[2]>> = u
      BY <3>2, <3>4
    <3> QED
      BY <3>3, <3>5 DEF PlanVertices
  <2>2. \A e \in edges : {e.src, e.dst} \subseteq vertices
    BY DEF IInv, Sourced, FromPlan
  <2> QED
    BY <2>1, <2>2 DEF IInv, Typed, TypeOK
<1> QED
  BY <1>1, Invariance, PTL

(* A plan is closed although its rows come from four snapshots. *)
THEOREM PlansAreClosed == Spec => []PlanIsClosed
<1>1. PlanIsClosed
  BY Closed DEF PlanIsClosed
<1> QED
  BY <1>1, PTL

(* However rebuilds race, whatever is in the graph was planned by the one
   that put it there. *)
THEOREM GraphAlwaysComesFromViews == Spec => []GraphComesFromViews
<1>1. IInv => GraphComesFromViews
  <2> SUFFICES ASSUME IInv PROVE GraphComesFromViews
    OBVIOUS
  <2>1. ASSUME NEW v \in vertices PROVE Known(v) \in PlanVertices(view[v[3]])
    <3>1. PICK r \in Rebuilders : v \in Vertices(r)
      BY DEF IInv, Sourced
    <3>2. PICK u \in PlanVertices(view[r]) : v = <<u[1], u[2], r>>
      BY <3>1 DEF Vertices
    <3>3. u = <<u[1], u[2]>>
      BY PlannedVertices
    <3>4. Known(v) = u /\ v[3] = r
      BY <3>2, <3>3 DEF Known
    <3> QED
      BY <3>4
  <2>2. \A e \in edges :
           \E p \in PlanEdges(view[e.by]) :
              p.label = e.label /\ p.src[2] = e.src[2] /\ p.dst[2] = e.dst[2]
    BY DEF IInv, Sourced, FromPlan
  <2> QED
    BY <2>1, <2>2 DEF GraphComesFromViews
<1> QED
  BY <1>1, Invariance, PTL

(* A rebuild that had the graph to itself and reports success has loaded its
   plan, all of it, and no vertex besides. *)
THEOREM SuccessAlwaysLoadsThePlan == Spec => []SuccessLoadsThePlan
<1>1. IInv => SuccessLoadsThePlan
  BY GraphIsPlan DEF SuccessLoadsThePlan, Planned, Present, Triple
<1> QED
  BY <1>1, Invariance, PTL

(* Only overlapping rebuilds double a vertex or an edge. *)
THEOREM OnlyRacesEverDouble == Spec => []OnlyRacesDouble
<1>1. IInv => OnlyRacesDouble
  BY DEF IInv, Each, Undisturbed, Single, OnlyRacesDouble
<1> QED
  BY <1>1, Invariance, PTL

(* ilma_recall and ilma_wiki_search change neither the graph nor a table, so
   that all of the above holds beside them. *)
THEOREM ExpansionsOnlyRead == RecallSpec => Spec
<1>1. CallInit => Init
  BY DEF CallInit
<1>2. [RecallNext]_allVars => [Next]_vars
  <2>1. CASE UNCHANGED allVars
    BY <2>1 DEF allVars
  <2>2. CASE RecallNext
    BY <2>2, Zenon DEF RecallNext, Search, Traverse, Neighbours, Skip, Collect
  <2> QED
    BY <2>1, <2>2
<1> QED
  BY <1>1, <1>2, PTL DEF RecallSpec, Spec
-----------------------------------------------------------------------------
(* Expansions of a graph that nobody touches.                              *)

CallFields == call = [tool |-> call.tool, hits |-> call.hits, todo |-> call.todo, at |-> call.at,
                      stage |-> call.stage, starts |-> call.starts, nodes |-> call.nodes,
                      neighbours |-> call.neighbours, skipped |-> call.skipped, trusted |-> call.trusted]

Shares(h, m) == m # h /\ Cardinality(TagsOf[h] \cap TagsOf[m]) >= MinShared

(* What a call has got so far of the plan that rebuild r has loaded: the
   expansion of a hit is in the answer, in hand, or being read. *)
Follows(r) ==
    /\ call.nodes \subseteq PlanVertices(view[r])
    /\ call.stage = "neighbours" =>
          /\ call.nodes = {Node(call.at)} \cap PlanVertices(view[r])
          /\ Node(call.at) \in PlanVertices(view[r]) => call.starts = 1
    /\ \A n \in call.neighbours : <<n.kind, n.id>> \in PlanVertices(view[r])
    /\ call.tool = "recall" => call.hits \subseteq LiveIds(view[r])
    /\ call.tool = "recall" /\ Cardinality(PlanVertices(view[r])) <= Limit =>
          \A h \in call.hits \ (call.skipped \cup call.todo), m \in LiveIds(view[r]) :
             Shares(h, m) => \/ m \in SeenIds
                             \/ h = call.at /\ (call.stage = "neighbours" \/ <<"Memory", m>> \in call.nodes)

CallInv ==
    /\ CallFields
    /\ call.todo \subseteq call.hits
    /\ call.hits \subseteq Memories \cup Wikis
    /\ call.stage = "neighbours" => call.at \in call.hits
    /\ \A r \in call.trusted : r \in Rebuilders /\ pc[r] = "done" /\ (alone[r] => Follows(r))

(* The graph goes on without them, and they without it. *)
LEMMA DoneStays ==
    ASSUME IInv, [Next]_vars, NEW r \in Rebuilders, pc[r] = "done"
    PROVE  pc'[r] = "done" /\ view'[r] = view[r] /\ (alone'[r] => alone[r])
<1>0. /\ pc = [q \in Rebuilders |-> pc[q]] /\ view = [q \in Rebuilders |-> view[q]]
      /\ alone = [q \in Rebuilders |-> alone[q]]
  BY DEF IInv, Typed
<1>1. CASE UNCHANGED <<pc, view, alone>>
  BY <1>1
<1>2. ASSUME NEW q \in Rebuilders, NEW label, pc[q] # "done", Goto(q, label),
             \/ UNCHANGED view
             \/ \E x, y : view' = [view EXCEPT ![q] = x] \/ view' = [view EXCEPT ![q].memories = x]
                    \/ view' = [view EXCEPT ![q].wikis = x]
                    \/ view' = [view EXCEPT ![q].skills = x, ![q].links = y],
             UNCHANGED alone \/ Touches(q) \/ alone' = [alone EXCEPT ![q] = TRUE]
      PROVE  pc'[r] = "done" /\ view'[r] = view[r] /\ (alone'[r] => alone[r])
  <2>1. q # r
    BY <1>2
  <2>2. pc'[r] = pc[r]
    BY <1>0, <1>2, <2>1 DEF Goto
  <2>3. view'[r] = view[r]
    BY <1>0, <1>2, <2>1
  <2>4. alone'[r] => alone[r]
    BY <1>0, <1>2, <2>1 DEF Touches
  <2> QED
    BY <2>2, <2>3, <2>4
<1>3. ASSUME NEW q \in Rebuilders, Ensure(q) PROVE pc'[r] = "done" /\ view'[r] = view[r] /\ (alone'[r] => alone[r])
  BY <1>2, <1>3 DEF Ensure
<1>4. ASSUME NEW q \in Rebuilders, CreateGraph(q, "graph", "memories") \/ CreateGraph(q, "create", "load")
      PROVE  pc'[r] = "done" /\ view'[r] = view[r] /\ (alone'[r] => alone[r])
  BY <1>2, <1>4 DEF CreateGraph, Raise
<1>5. ASSUME NEW q \in Rebuilders, ReadMemories(q) \/ ReadWikis(q) \/ ReadSkillsAndLinks(q)
      PROVE  pc'[r] = "done" /\ view'[r] = view[r] /\ (alone'[r] => alone[r])
  BY <1>2, <1>5 DEF ReadMemories, ReadWikis, ReadSkillsAndLinks
<1>6. ASSUME NEW q \in Rebuilders, LookForGraph(q) \/ Drop(q)
      PROVE  pc'[r] = "done" /\ view'[r] = view[r] /\ (alone'[r] => alone[r])
  BY <1>2, <1>6 DEF LookForGraph, Drop, Raise
<1>7. ASSUME NEW q \in Rebuilders, Load(q) \/ Commit(q) \/ Finish(q)
      PROVE  pc'[r] = "done" /\ view'[r] = view[r] /\ (alone'[r] => alone[r])
  BY <1>2, <1>7 DEF Load, Commit, Finish, Raise, Loading
<1>8. ASSUME NEW q \in Rebuilders, Abort(q)
      PROVE  pc'[r] = "done" /\ view'[r] = view[r] /\ (alone'[r] => alone[r])
  BY <1>2, <1>8 DEF Abort, Raise, Ended
<1>9. CASE UNCHANGED vars
  BY <1>1, <1>9 DEF vars
<1>10. ASSUME NEW m \in Memories, Remember(m) \/ Forget(m)
       PROVE  pc'[r] = "done" /\ view'[r] = view[r] /\ (alone'[r] => alone[r])
  BY <1>1, <1>10 DEF Remember, Forget
<1>11. ASSUME NEW w \in Wikis, CreatePage(w)
       PROVE  pc'[r] = "done" /\ view'[r] = view[r] /\ (alone'[r] => alone[r])
  BY <1>1, <1>11 DEF CreatePage
<1> QED
  BY <1>3, <1>4, <1>5, <1>6, <1>7, <1>8, <1>9, <1>10, <1>11 DEF Next

(* Two memories that share enough tags are joined, one way or the other. *)
LEMMA SharedTagsAreJoined ==
    ASSUME NEW vw, vw.memories \in Seq(Memories), NEW h \in LiveIds(vw), NEW m \in LiveIds(vw), Shares(h, m)
    PROVE  \E e \in PlanEdges(vw) :
              \/ e.src = <<"Memory", h>> /\ e.dst = <<"Memory", m>>
              \/ e.src = <<"Memory", m>> /\ e.dst = <<"Memory", h>>
<1>1. PICK i, j \in DOMAIN vw.memories : vw.memories[i] = h /\ vw.memories[j] = m
  BY DEF LiveIds
<1>2. i \in Nat /\ j \in Nat /\ i # j
  BY <1>1 DEF Shares
<1>3. TagsOf[h] \cap TagsOf[m] = TagsOf[m] \cap TagsOf[h]
  OBVIOUS
<1> DEFINE pairs == {q \in (DOMAIN vw.memories) \X (DOMAIN vw.memories) :
                        /\ q[1] < q[2]
                        /\ Cardinality(TagsOf[vw.memories[q[1]]] \cap TagsOf[vw.memories[q[2]]])
                              >= MinShared}
<1>4. \A p \in pairs : Edge("SHARES_TAG", <<"Memory", vw.memories[p[1]]>>, <<"Memory", vw.memories[p[2]]>>, "tags")
                        \in SharesTag(vw)
  BY DEF SharesTag
<1>5. CASE i < j
  <2> DEFINE e == Edge("SHARES_TAG", <<"Memory", h>>, <<"Memory", m>>, "tags")
  <2>1. e \in SharesTag(vw)
    <3>1. <<i, j>> \in pairs
      BY <1>1, <1>5 DEF Shares
    <3> QED
      BY <1>1, <1>4, <3>1
  <2>2. e.src = <<"Memory", h>> /\ e.dst = <<"Memory", m>>
    BY DEF Edge
  <2> QED
    BY <2>1, <2>2 DEF PlanEdges
<1>6. CASE j < i
  <2> DEFINE e == Edge("SHARES_TAG", <<"Memory", m>>, <<"Memory", h>>, "tags")
  <2>1. e \in SharesTag(vw)
    <3>1. <<j, i>> \in pairs
      BY <1>1, <1>3, <1>6 DEF Shares
    <3> QED
      BY <1>1, <1>4, <3>1
  <2>2. e.src = <<"Memory", m>> /\ e.dst = <<"Memory", h>>
    BY DEF Edge
  <2> QED
    BY <2>1, <2>2 DEF PlanEdges
<1> QED
  BY <1>2, <1>5, <1>6

(* A traversal of at least one hop comes to what is beside its start, and
   to nothing that is not in the graph. *)
LEMMA AroundReaches ==
    ASSUME NEW from \in SUBSET vertices, \A e \in edges : {e.src, e.dst} \subseteq vertices
    PROVE  Beside(from) \subseteq Around(from, Hops) /\ Around(from, Hops) \subseteq vertices
<1>1. \A S \in SUBSET vertices : S \subseteq Beside(S) /\ Beside(S) \in SUBSET vertices
  BY DEF Beside
<1> DEFINE Reaches(f) == f = [k \in 0..Hops |-> IF k = 0 THEN from ELSE Beside(f[k - 1])]
           hop1 == Beside(from)
           hop2 == Beside(hop1)
           reached == [k \in 0..Hops |-> IF k = 0 THEN from ELSE IF k = 1 THEN hop1
                                         ELSE IF k = 2 THEN hop2 ELSE Beside(hop2)]
<1>2. Reaches(reached)
  <2> SUFFICES ASSUME NEW k \in 0..Hops
               PROVE  reached[k] = IF k = 0 THEN from ELSE Beside(reached[k - 1])
    OBVIOUS
  <2>1. k \in {0, 1, 2, 3} /\ (k # 0 => k - 1 \in 0..Hops)
    BY RecallAssumption
  <2> HIDE DEF hop1, hop2
  <2> QED
    BY <2>1 DEF hop1, hop2
<1>3. PICK f : Reaches(f) /\ Around(from, Hops) = f[Hops]
  <2> HIDE DEF reached
  <2>1. Reaches(CHOOSE f : Reaches(f))
    BY <1>2
  <2>2. Around(from, Hops) = (CHOOSE f : Reaches(f))[Hops]
    BY DEF Around
  <2> QED
    BY <2>1, <2>2
<1>4. Hops \in {1, 2, 3}
  BY RecallAssumption
<1>5. f[0] = from /\ f[1] = Beside(f[0]) /\ (Hops >= 2 => f[2] = Beside(f[1])) /\ (Hops = 3 => f[3] = Beside(f[2]))
  BY <1>3, <1>4
<1> HIDE DEF Reaches
<1>6. f[1] = Beside(from) /\ f[1] \in SUBSET vertices
  BY <1>1, <1>5
<1>7. Hops >= 2 => f[1] \subseteq f[2] /\ f[2] \in SUBSET vertices
  BY <1>1, <1>5, <1>6
<1>8. Hops = 3 => f[2] \subseteq f[3] /\ f[3] \in SUBSET vertices
  BY <1>1, <1>4, <1>5, <1>7
<1> QED
  BY <1>3, <1>4, <1>6, <1>7, <1>8

LEMMA NodesAreFinite ==
    ASSUME NEW S \in SUBSET ({"Memory", "Wiki", "Skill"} \X (Memories \cup Wikis \cup Skills))
    PROVE  IsFiniteSet(S)
<1>1. IsFiniteSet({"Memory"} \cup {"Wiki"}) /\ IsFiniteSet({"Skill"})
  BY FS_Singleton, FS_Union
<1>2. IsFiniteSet(({"Memory"} \cup {"Wiki"}) \cup {"Skill"})
  BY <1>1, FS_Union
<1>3. ({"Memory"} \cup {"Wiki"}) \cup {"Skill"} = {"Memory", "Wiki", "Skill"}
  OBVIOUS
<1>4. IsFiniteSet({"Memory", "Wiki", "Skill"} \X (Memories \cup Wikis \cup Skills))
  BY <1>2, <1>3, FS_Product, GraphAssumption
<1> QED
  BY <1>4, FS_Subset

LEMMA PlanIsFinite ==
    ASSUME IInv, NEW r \in Rebuilders
    PROVE  IsFiniteSet(PlanVertices(view[r]))
<1>1. PlanVertices(view[r]) \subseteq {"Memory", "Wiki", "Skill"} \X (Memories \cup Wikis \cup Skills)
  BY DEF IInv, Typed, LiveIds, PlanVertices
<1> QED
  BY <1>1, NodesAreFinite

-----------------------------------------------------------------------------
(* The steps of a call.                                                    *)

LEMMA InitCall == CallInit => CallInv
BY DEF CallInit, CallInv, CallFields, NoCall

(* Whatever a client does to the graph or to the tables. *)
LEMMA BesideCall ==
    ASSUME IInv, CallInv, [Next]_vars, UNCHANGED call
    PROVE  CallInv'
<1>1. ASSUME NEW r \in call.trusted
      PROVE  /\ r \in Rebuilders /\ pc'[r] = "done"
             /\ view'[r] = view[r]
             /\ alone'[r] => Follows(r)
  BY DoneStays DEF CallInv
<1>2. ASSUME NEW r \in call.trusted, alone'[r] PROVE Follows(r)'
  <2>1. Follows(r) /\ view'[r] = view[r]
    BY <1>1, <1>2
  <2> QED
    BY <2>1, Zenon DEF Follows, SeenIds, Node
<1>3. CallFields'
  BY Zenon DEF CallInv, CallFields
<1> QED
  BY <1>1, <1>2, <1>3 DEF CallInv

LEMMA SearchInv ==
    ASSUME IInv, CallInv, NEW tool \in {"recall", "wiki_search"}, Search(tool)
    PROVE  CallInv'
<1>1. PICK hits \in SUBSET (IF tool = "recall" THEN LiveMemories ELSE pages) \ {{}} :
         call' = [NoCall EXCEPT !.tool = tool, !.hits = hits, !.todo = hits,
                                !.trusted = {r \in Rebuilders : Fresh(r)}]
  BY DEF Search
<1>2. call' = [tool |-> tool, hits |-> hits, todo |-> hits, at |-> 0, stage |-> "none",
               starts |-> 0, nodes |-> {}, neighbours |-> {}, skipped |-> {}, trusted |-> {r \in Rebuilders : Fresh(r)}]
  BY <1>1 DEF NoCall
<1>3. UNCHANGED <<pc, view, alone>>
  BY DEF Search, vars
<1>4. hits \subseteq Memories \cup Wikis
  BY <1>1 DEF IInv, Typed, LiveMemories
<1>5. ASSUME NEW r \in Rebuilders, Fresh(r) PROVE pc'[r] = "done" /\ Follows(r)'
  <2>1. tool = "recall" => hits \subseteq LiveIds(view[r])
    BY <1>1, <1>5 DEF Fresh
  <2>2. /\ call'.stage = "none" /\ call'.nodes = {} /\ call'.neighbours = {} /\ call'.tool = tool
        /\ call'.hits = hits /\ call'.todo = hits /\ view'[r] = view[r]
    BY <1>2, <1>3
  <2> QED
    BY <1>3, <1>5, <2>1, <2>2 DEF Follows, Fresh
<1> QED
  BY <1>2, <1>4, <1>5 DEF CallInv, CallFields

(* The nodes of a traversal are planned; with room for the whole plan they
   are all that is around the hit. *)
LEMMA NeighboursFollow ==
    ASSUME IInv, CallInv, Neighbours, call.at \in call.hits,
           NEW r \in call.trusted, alone[r]
    PROVE  /\ call'.nodes \subseteq PlanVertices(view[r])
           /\ call.tool = "recall" /\ Cardinality(PlanVertices(view[r])) <= Limit =>
                 \A m \in LiveIds(view[r]) : Shares(call.at, m) => <<"Memory", m>> \in call'.nodes
<1>1. r \in Rebuilders /\ pc[r] = "done" /\ Follows(r)
  BY DEF CallInv
<1>2. /\ Single
      /\ {Known(v) : v \in vertices} = PlanVertices(view[r])
      /\ \A e \in PlanEdges(view[r]) : \E f \in edges : Triple(f) = <<e.label, e.src, e.dst>>
  BY <1>1, GraphIsPlan
<1>3. PICK node : node = Node(call.at)
  OBVIOUS
<1>4. PICK start : start = Starts(call.at)
  OBVIOUS
<1>4a. start = {v \in vertices : Known(v) = node}
  BY <1>3, <1>4 DEF Starts
<1>5. PICK around : around = {Known(v) : v \in Around(start, Hops)} \ {node}
  OBVIOUS
<1>5a. call.nodes = {node} \cap PlanVertices(view[r]) /\ (node \in PlanVertices(view[r]) => call.starts = 1)
  BY <1>1, <1>3 DEF Neighbours, Follows
<1>6. PICK more, kept :
         /\ more \subseteq {Known(v) : v \in vertices} /\ kept \subseteq around \cup more
         /\ call.nodes # {} => more = {}
         /\ kept # around \cup more => call.starts + Cardinality(kept) >= Limit
         /\ call' = [call EXCEPT !.stage = "edges", !.nodes = @ \cup kept]
  BY <1>3, <1>4, <1>5 DEF Neighbours
<1>7. call'.nodes = call.nodes \cup kept
  BY <1>6 DEF CallInv, CallFields
<1>8. \A e \in edges : {e.src, e.dst} \subseteq vertices
  BY DEF IInv, Sourced, FromPlan
<1>9. Beside(start) \subseteq Around(start, Hops) /\ Around(start, Hops) \subseteq vertices
  BY <1>4a, <1>8, AroundReaches
<1>10. call'.nodes \subseteq PlanVertices(view[r])
  BY <1>2, <1>5, <1>6, <1>7, <1>9, <1>5a
<1>11. ASSUME call.tool = "recall", Cardinality(PlanVertices(view[r])) <= Limit,
              NEW m \in LiveIds(view[r]), Shares(call.at, m)
       PROVE  <<"Memory", m>> \in call'.nodes
  <2>1. node = <<"Memory", call.at>> /\ call.at \in LiveIds(view[r])
    BY <1>1, <1>3, <1>11 DEF KindOf, Node, CallInv, Follows
  <2>2. node \in PlanVertices(view[r]) /\ <<"Memory", m>> # node
    BY <1>11, <2>1 DEF PlanVertices, Shares
  <2>3. view[r].memories \in Seq(Memories)
    BY <1>1 DEF IInv, Typed
  <2>4. PICK e \in PlanEdges(view[r]) :
           \/ e.src = <<"Memory", call.at>> /\ e.dst = <<"Memory", m>>
           \/ e.src = <<"Memory", m>> /\ e.dst = <<"Memory", call.at>>
    <3>1. PICK hit : hit = call.at
      OBVIOUS
    <3>2. hit \in LiveIds(view[r]) /\ Shares(hit, m)
      BY <1>11, <2>1, <3>1
    <3>3. \E e \in PlanEdges(view[r]) :
             \/ e.src = <<"Memory", hit>> /\ e.dst = <<"Memory", m>>
             \/ e.src = <<"Memory", m>> /\ e.dst = <<"Memory", hit>>
      BY <1>11, <2>3, <3>2, SharedTagsAreJoined
    <3> QED
      BY <3>1, <3>3, Zenon
  <2>5. PICK f \in edges : Triple(f) = <<e.label, e.src, e.dst>>
    BY <1>2
  <2>6. Known(f.src) = e.src /\ Known(f.dst) = e.dst
    BY <2>5 DEF Triple
  <2>7. f.src \in vertices /\ f.dst \in vertices
    BY <1>8
  <2>8. \/ f.src \in start /\ Known(f.dst) = <<"Memory", m>> /\ f.dst \in Beside(start)
        \/ f.dst \in start /\ Known(f.src) = <<"Memory", m>> /\ f.src \in Beside(start)
    BY <1>4a, <2>1, <2>4, <2>6, <2>7 DEF Beside
  <2>9. <<"Memory", m>> \in around
    BY <1>5, <1>9, <2>2, <2>8
  <2>9a. more = {} /\ call.starts = 1
    BY <1>6, <1>5a, <2>2
  <2>10. kept = around
    <3> SUFFICES ASSUME kept # around PROVE FALSE
      OBVIOUS
    <3>1. kept \subseteq around /\ 1 + Cardinality(kept) >= Limit
      BY <1>6, <2>9a
    <3>3. around \subseteq PlanVertices(view[r]) \ {node}
      BY <1>2, <1>5, <1>9
    <3>4. IsFiniteSet(PlanVertices(view[r])) /\ Cardinality(PlanVertices(view[r])) \in Nat
      BY <1>1, PlanIsFinite, FS_CardinalityType
    <3>5. /\ IsFiniteSet(PlanVertices(view[r]) \ {node})
          /\ Cardinality(PlanVertices(view[r]) \ {node}) = Cardinality(PlanVertices(view[r])) - 1
      BY <2>2, <3>4, FS_RemoveElement
    <3>6. IsFiniteSet(around) /\ Cardinality(around) <= Cardinality(PlanVertices(view[r])) - 1
      BY <3>3, <3>5, FS_Subset
    <3>7. Cardinality(kept) <= Cardinality(around) /\ Cardinality(kept) # Cardinality(around)
      BY <3>1, <3>6, FS_Subset
    <3>8. Cardinality(kept) \in Nat /\ Cardinality(around) \in Nat
      BY <3>1, <3>6, FS_Subset, FS_CardinalityType
    <3>9. Limit \in Nat
      BY RecallAssumption
    <3> QED
      BY <1>11, <3>1, <3>4, <3>6, <3>7, <3>8, <3>9
  <2> QED
    BY <1>7, <2>9, <2>10
<1> QED
  BY <1>10, <1>11

LEMMA TraverseInv ==
    ASSUME IInv, CallInv, NEW hit \in Memories \cup Wikis, Traverse(hit)
    PROVE  CallInv'
<1>1. /\ hit \in call.todo /\ call.at = 0 /\ UNCHANGED <<pc, view, alone>>
  BY DEF Traverse, vars
<1>2. PICK starts : starts = Starts(hit)
  OBVIOUS
<1>3. call' = [tool |-> call.tool, hits |-> call.hits, todo |-> call.todo \ {hit}, at |-> hit,
               stage |-> "neighbours", starts |-> Cardinality(starts),
               nodes |-> {Known(v) : v \in starts}, neighbours |-> call.neighbours,
               skipped |-> call.skipped, trusted |-> call.trusted]
  BY <1>2 DEF Traverse, CallInv, CallFields
<1>4. ASSUME NEW r \in call.trusted, alone[r] PROVE Follows(r)'
  <2>1. r \in Rebuilders /\ pc[r] = "done" /\ Follows(r)
    BY <1>4 DEF CallInv
  <2>2. Single /\ {Known(v) : v \in vertices} = PlanVertices(view[r])
    BY <1>4, <2>1, GraphIsPlan
  <2>3. /\ call'.tool = call.tool /\ call'.hits = call.hits /\ call'.todo = call.todo \ {hit}
        /\ call'.at = hit /\ call'.stage = "neighbours" /\ call'.starts = Cardinality(starts)
        /\ call'.nodes = {Known(v) : v \in starts} /\ call'.neighbours = call.neighbours
        /\ call'.skipped = call.skipped /\ view'[r] = view[r]
    BY <1>1, <1>3
  <2>4. SeenIds' = SeenIds
    BY <2>3 DEF SeenIds
  <2>5. PICK node : node = Node(hit)
    OBVIOUS
  <2>6. starts = {v \in vertices : Known(v) = node}
    BY <1>2, <2>5 DEF Starts
  <2>7. Node(call.at)' = node
    BY <2>3, <2>5 DEF Node
  <2>8. {Known(v) : v \in starts} = {node} \cap PlanVertices(view[r])
    BY <2>2, <2>6
  <2>9. node \in PlanVertices(view[r]) => Cardinality(starts) = 1
    <3> SUFFICES ASSUME node \in PlanVertices(view[r]) PROVE Cardinality(starts) = 1
      OBVIOUS
    <3>1. PICK v \in vertices : starts = {v}
      BY <2>2, <2>6 DEF Single
    <3> QED
      BY <3>1, FS_Singleton
  <2>10. ASSUME call.tool = "recall", Cardinality(PlanVertices(view[r])) <= Limit,
               NEW h \in call.hits \ (call.skipped \cup (call.todo \ {hit})),
               NEW m \in LiveIds(view[r]), Shares(h, m)
         PROVE  m \in SeenIds \/ h = hit
    <3>1. 0 \notin call.hits
      BY GraphAssumption DEF CallInv
    <3> QED
      BY <1>1, <2>1, <2>10, <3>1 DEF Follows
  <2>11. /\ \A n \in call.neighbours : <<n.kind, n.id>> \in PlanVertices(view[r])
         /\ call.tool = "recall" => call.hits \subseteq LiveIds(view[r])
    BY <2>1 DEF Follows
  <2> QED
    BY <2>3, <2>4, <2>7, <2>8, <2>9, <2>10, <2>11 DEF Follows
<1>5. ASSUME NEW r \in call.trusted
      PROVE  r \in Rebuilders /\ pc'[r] = "done" /\ (alone'[r] => Follows(r)')
  BY <1>1, <1>4 DEF CallInv
<1> QED
  BY <1>1, <1>3, <1>5 DEF CallInv, CallFields

LEMMA NeighboursInv ==
    ASSUME IInv, CallInv, Neighbours
    PROVE  CallInv'
<1>1. call.stage = "neighbours" /\ UNCHANGED <<pc, view, alone>>
  BY DEF Neighbours, vars
<1>2. PICK nodes : call' = [call EXCEPT !.stage = "edges", !.nodes = nodes]
  BY DEF Neighbours
<1>3. call' = [tool |-> call.tool, hits |-> call.hits, todo |-> call.todo, at |-> call.at,
               stage |-> "edges", starts |-> call.starts, nodes |-> nodes,
               neighbours |-> call.neighbours, skipped |-> call.skipped, trusted |-> call.trusted]
  BY <1>2 DEF CallInv, CallFields
<1>4. ASSUME NEW r \in call.trusted, alone[r] PROVE Follows(r)'
  <2>1. Follows(r)
    BY <1>4 DEF CallInv
  <2>2. /\ call'.tool = call.tool /\ call'.hits = call.hits /\ call'.todo = call.todo
        /\ call'.at = call.at /\ call'.stage = "edges" /\ call'.nodes = nodes
        /\ call'.neighbours = call.neighbours /\ call'.skipped = call.skipped /\ view'[r] = view[r]
    BY <1>1, <1>3
  <2>3. SeenIds' = SeenIds
    BY <2>2 DEF SeenIds
  <2>4. call.at \in call.hits
    BY <1>1 DEF CallInv
  <2>5. /\ nodes \subseteq PlanVertices(view[r])
        /\ call.tool = "recall" /\ Cardinality(PlanVertices(view[r])) <= Limit =>
              \A m \in LiveIds(view[r]) : Shares(call.at, m) => <<"Memory", m>> \in nodes
    BY <1>4, <2>2, <2>4, NeighboursFollow
  <2>6. ASSUME call.tool = "recall", Cardinality(PlanVertices(view[r])) <= Limit,
               NEW h \in call.hits \ (call.skipped \cup call.todo),
               NEW m \in LiveIds(view[r]), Shares(h, m)
        PROVE  m \in SeenIds \/ (h = call.at /\ <<"Memory", m>> \in nodes)
    BY <2>1, <2>5, <2>6 DEF Follows
  <2>7. /\ \A n \in call.neighbours : <<n.kind, n.id>> \in PlanVertices(view[r])
        /\ call.tool = "recall" => call.hits \subseteq LiveIds(view[r])
    BY <2>1 DEF Follows
  <2> QED
    BY <2>2, <2>3, <2>5, <2>6, <2>7 DEF Follows
<1>5. ASSUME NEW r \in call.trusted
      PROVE  r \in Rebuilders /\ pc'[r] = "done" /\ (alone'[r] => Follows(r)')
  BY <1>1, <1>4 DEF CallInv
<1> QED
  BY <1>3, <1>5 DEF CallInv, CallFields

LEMMA SkipInv ==
    ASSUME IInv, CallInv, NEW hit \in Memories \cup Wikis, Skip(hit)
    PROVE  CallInv'
<1>1. (call.at = 0 \/ call.at = hit) /\ UNCHANGED <<pc, view, alone>>
  BY DEF Skip, vars
<1>2. call' = [tool |-> call.tool, hits |-> call.hits, todo |-> call.todo \ {hit}, at |-> 0,
               stage |-> "none", starts |-> 0, nodes |-> {}, neighbours |-> call.neighbours,
               skipped |-> call.skipped \cup {hit}, trusted |-> call.trusted]
  BY DEF Skip, CallInv, CallFields
<1>3. ASSUME NEW r \in call.trusted, alone[r] PROVE Follows(r)'
  <2>1. Follows(r)
    BY <1>3 DEF CallInv
  <2>2. /\ call'.tool = call.tool /\ call'.hits = call.hits /\ call'.todo = call.todo \ {hit}
        /\ call'.stage = "none" /\ call'.nodes = {} /\ call'.neighbours = call.neighbours
        /\ call'.skipped = call.skipped \cup {hit} /\ view'[r] = view[r]
    BY <1>1, <1>2
  <2>3. SeenIds' = SeenIds
    BY <2>2 DEF SeenIds
  <2>4. 0 \notin call.hits
    BY GraphAssumption DEF CallInv
  <2>5. ASSUME call.tool = "recall", Cardinality(PlanVertices(view[r])) <= Limit,
               NEW h \in call.hits \ ((call.skipped \cup {hit}) \cup (call.todo \ {hit})),
               NEW m \in LiveIds(view[r]), Shares(h, m)
        PROVE  m \in SeenIds
    BY <1>1, <2>1, <2>4, <2>5 DEF Follows
  <2> QED
    BY <2>1, <2>2, <2>3, <2>5 DEF Follows
<1> QED
  BY <1>1, <1>2, <1>3 DEF CallInv, CallFields

LEMMA CollectInv ==
    ASSUME IInv, CallInv, Collect
    PROVE  CallInv'
<1> DEFINE fresh == {v \in call.nodes : v[2] \notin SeenIds /\ (call.tool = "recall" => v[1] = "Memory")}
<1>1. PICK kept \in SUBSET fresh :
         /\ {v[2] : v \in kept} = {v[2] : v \in fresh}
         /\ call' = [call EXCEPT !.at = 0, !.stage = "none", !.starts = 0, !.nodes = {},
                        !.neighbours = @ \cup {[kind |-> v[1], id |-> v[2], via |-> call.at] : v \in kept}]
  BY DEF Collect
<1>2. PICK more : more = {[kind |-> v[1], id |-> v[2], via |-> call.at] : v \in kept}
  OBVIOUS
<1>3. call' = [tool |-> call.tool, hits |-> call.hits, todo |-> call.todo, at |-> 0,
               stage |-> "none", starts |-> 0, nodes |-> {}, neighbours |-> call.neighbours \cup more,
               skipped |-> call.skipped, trusted |-> call.trusted]
  BY <1>1, <1>2 DEF CallInv, CallFields
<1>4. UNCHANGED <<pc, view, alone>>
  BY DEF Collect, vars
<1>5. ASSUME NEW r \in call.trusted, alone[r] PROVE Follows(r)'
  <2>1. Follows(r)
    BY <1>5 DEF CallInv
  <2>2. /\ call'.tool = call.tool /\ call'.hits = call.hits /\ call'.todo = call.todo
        /\ call'.stage = "none" /\ call'.nodes = {} /\ call'.neighbours = call.neighbours \cup more
        /\ call'.skipped = call.skipped /\ view'[r] = view[r]
    BY <1>3, <1>4
  <2>3. SeenIds' = SeenIds \cup {n.id : n \in more}
    BY <2>2 DEF SeenIds
  <2>4. {n.id : n \in more} = {v[2] : v \in fresh}
    <3>1. \A n \in more : \E v \in kept : n.id = v[2]
      BY <1>2
    <3>2. ASSUME NEW v \in kept PROVE \E n \in more : n.id = v[2]
      <4>1. PICK n : n = [kind |-> v[1], id |-> v[2], via |-> call.at]
        OBVIOUS
      <4>2. n \in more
        BY <1>2, <4>1
      <4>3. n.id = v[2]
        BY <4>1
      <4> QED
        BY <4>2, <4>3
    <3>3. {n.id : n \in more} = {v[2] : v \in kept}
      BY <3>1, <3>2
    <3> QED
      BY <1>1, <3>3
  <2>5. ASSUME NEW n \in more PROVE <<n.kind, n.id>> \in PlanVertices(view[r])
    <3>1. PICK v \in kept : n.kind = v[1] /\ n.id = v[2]
      BY <1>2
    <3>2. v \in PlanVertices(view[r])
      BY <2>1 DEF Follows
    <3> QED
      BY <3>1, <3>2, PlannedVertices
  <2>6. ASSUME call.tool = "recall", Cardinality(PlanVertices(view[r])) <= Limit,
               NEW h \in call.hits \ (call.skipped \cup call.todo),
               NEW m \in LiveIds(view[r]), Shares(h, m)
        PROVE  m \in SeenIds'
    <3>1. CASE m \in SeenIds
      BY <2>3, <3>1
    <3>2. CASE <<"Memory", m>> \in call.nodes /\ m \notin SeenIds
      <4>1. <<"Memory", m>> \in fresh
        BY <3>2
      <4> QED
        BY <2>3, <2>4, <4>1
    <3>3. call.stage = "edges"
      BY DEF Collect
    <3> QED
      BY <2>1, <2>6, <3>1, <3>2, <3>3 DEF Follows
  <2> QED
    BY <2>1, <2>2, <2>5, <2>6 DEF Follows
<1> QED
  BY <1>3, <1>4, <1>5 DEF CallInv, CallFields

LEMMA CallNext ==
    ASSUME IInv, CallInv, [RecallNext]_allVars
    PROVE  CallInv'
<1>1. CASE [Next]_vars /\ UNCHANGED call
  BY <1>1, BesideCall
<1>2. CASE Search("recall") \/ Search("wiki_search")
  BY <1>2, SearchInv
<1>3. ASSUME NEW hit \in Memories \cup Wikis, Traverse(hit) \/ Skip(hit) PROVE CallInv'
  BY <1>3, TraverseInv, SkipInv
<1>4. CASE Collect
  BY <1>4, CollectInv
<1>5. CASE Neighbours
  BY <1>5, NeighboursInv
<1>6. CASE UNCHANGED allVars
  BY <1>1, <1>6 DEF allVars
<1> QED
  BY <1>1, <1>2, <1>3, <1>4, <1>5, <1>6 DEF RecallNext

(* An expansion of a graph that nobody has touched since it was loaded, nor
   the tables since the search, is what the tables say: every neighbour is
   a row, and recall misses no memory that shares enough tags with a hit,
   when the limit of a traversal has room for the rows. *)
THEOREM UndisturbedExpansionsAreTrue == RecallSpec => []UndisturbedExpansionIsTrue
<1>1. IInv /\ CallInv => UndisturbedExpansionIsTrue
  <2> SUFFICES ASSUME IInv, CallInv, Answered, NEW r \in call.trusted, Fresh(r)
               PROVE  /\ \A n \in call.neighbours : <<n.kind, n.id>> \in Rows
                      /\ call.tool = "recall" /\ Cardinality(Rows) <= Limit =>
                            \A h \in call.hits \ call.skipped, m \in LiveMemories :
                                m # h /\ Cardinality(TagsOf[h] \cap TagsOf[m]) >= MinShared => m \in SeenIds
    BY DEF UndisturbedExpansionIsTrue
  <2>1. r \in Rebuilders /\ Follows(r) /\ LiveIds(view[r]) = LiveMemories /\ view[r].wikis = pages
    BY DEF CallInv, Fresh
  <2>2. PlanVertices(view[r]) \subseteq Rows
    BY <2>1 DEF IInv, Typed, PlanVertices, Rows
  <2>3. Cardinality(Rows) <= Limit => Cardinality(PlanVertices(view[r])) <= Limit
    <3>1. Rows \subseteq {"Memory", "Wiki", "Skill"} \X (Memories \cup Wikis \cup Skills)
      BY DEF IInv, Typed, Rows, LiveMemories
    <3>2. IsFiniteSet(Rows)
      BY <3>1, NodesAreFinite
    <3>3. /\ Cardinality(Rows) \in Nat /\ Cardinality(PlanVertices(view[r])) \in Nat
          /\ Cardinality(PlanVertices(view[r])) <= Cardinality(Rows)
      BY <2>2, <3>2, FS_Subset, FS_CardinalityType
    <3> QED
      BY <3>3, RecallAssumption
  <2>4. \A n \in call.neighbours : <<n.kind, n.id>> \in Rows
    BY <2>1, <2>2 DEF Follows
  <2>5. ASSUME call.tool = "recall", Cardinality(Rows) <= Limit,
               NEW h \in call.hits \ call.skipped, NEW m \in LiveMemories, Shares(h, m)
        PROVE  m \in SeenIds
    <3>1. h # call.at
      BY GraphAssumption DEF CallInv, Answered
    <3> QED
      BY <2>1, <2>3, <2>5, <3>1 DEF Follows, Answered
  <2> QED
    BY <2>4, <2>5 DEF Shares
<1>2. CallInit => Init /\ CallInv
  BY InitCall DEF CallInit
<1>3. IInv /\ CallInv /\ [RecallNext]_allVars => CallInv'
  BY CallNext
<1>4. RecallSpec => []IInv
  BY ExpansionsOnlyRead, Invariance, PTL
<1> QED
  BY <1>1, <1>2, <1>3, <1>4, PTL DEF RecallSpec
=============================================================================
