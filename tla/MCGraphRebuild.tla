--------------------------- MODULE MCGraphRebuild ---------------------------
(* Two memories that share a tag and two sessions, a page whose id is that of
   the second, and a skill that the second uses. *)
EXTENDS GraphRecall, TLC

CONSTANTS tag, s1, s2

MCMemories == {1, 2}
MCWikis == {2}
MCSkills == {3}
MCTagsOf == [m \in MCMemories |-> {tag}]
MCRefersTo == {<<1, 2>>}
MCUses == {<<2, 3>>}
MCLinks == {<<1, s1>>, <<2, s1>>, <<1, s2>>, <<2, s2>>}

Symmetry == Permutations(Rebuilders)
=============================================================================
