--------------------------- MODULE MaintenanceProofs ---------------------------
(***************************************************************************)
(* Maintenance for any memories, pieces, calls and widths.                 *)
(***************************************************************************)
EXTENDS Maintenance, WellFoundedInduction, TLAPS

(* What a repair knows to be right, leaves, or is going to put right. *)
Settled(c) == Seen(c) \cup Zero \cup todo[c]

Fixing == {"fix tags", "fix vector", "fix chunks"}

TagsLooked == {"fix tags", "look vector", "fix vector", "look chunks", "fix chunks", "commit"}
VectorsLooked == {"fix vector", "look chunks", "fix chunks", "commit"}
ChunksLooked == {"fix chunks", "commit"}

(* Each pass that a repair has looked for is settled, and what it has
   committed is right. *)
Progress(c) ==
    tool[c] = "repair" =>
       \A m \in Stored \cap Live :
          /\ pc[c] \in TagsLooked => Tags(m) \in Settled(c)
          /\ pc[c] \in VectorsLooked => Vector(m) \in Settled(c)
          /\ pc[c] \in ChunksLooked => Chunks(m) \subseteq Settled(c)
          /\ pc[c] = "done" => ({Tags(m), Vector(m)} \cup Chunks(m)) \ Zero \subseteq facts

(* A repair looks only for memories without a chunk: there must be none
   with some of its chunks and not the others, nor may one come about. *)
Whole(m, S) == Chunks(m) \cap S = {} \/ Chunks(m) \ Zero \subseteq S

Wholes == \A m \in Memories : Whole(m, facts) /\ \A c \in Calls : Whole(m, Seen(c) \cup todo[c])

(* Where a call stands tells what it is, and when it has rows to come to. *)
Placed(c) ==
    /\ pc[c] \in Passes => tool[c] = "repair"
    /\ pc[c] \in Rebuilds => tool[c] = "maintain"
    /\ pc[c] \in Inserts => tool[c] = "remember"
    /\ pc[c] \in {"init memories", "init chunks"} => tool[c] # "remember"
    /\ pc[c] \notin Fixing => todo[c] = {}
    /\ pc[c] \notin Passes \cup {"cut", "commit"} => wrote[c] = {}

IInv ==
    /\ TypeOK
    /\ \A m \in Stored : memory[m] # "absent"
    /\ \A c \in Calls : Placed(c) /\ Progress(c)
    /\ Wholes

LEMMA FactShapes ==
    \A m, n \in Memories :
       /\ Tags(m) \notin Chunks(n) /\ Vector(m) \notin Chunks(n) /\ Tags(m) # Vector(n)
       /\ m # n => Chunks(m) \cap Chunks(n) = {}
BY DEF Tags, Vector, Chunks

LEMMA FactsFacts ==
    \A m \in Memories : Tags(m) \in Facts /\ Vector(m) \in Facts /\ Chunks(m) \subseteq Facts
BY DEF Facts

LEMMA WholeUnion ==
    ASSUME NEW m, NEW S, NEW T, Whole(m, S), Whole(m, T)
    PROVE  Whole(m, S \cup T)
BY DEF Whole

(* Clean tags are facts, and no chunks. *)
LEMMA NeatTagsFacts ==
    ASSUME NEW S \in SUBSET Memories
    PROVE  NeatTags(S) \subseteq Facts /\ \A m \in Memories : NeatTags(S) \cap Chunks(m) = {}
BY FactsFacts, FactShapes DEF NeatTags

LEMMA InitIInv == Init => IInv
<1> SUFFICES ASSUME Init PROVE IInv
  OBVIOUS
<1>0. /\ NeatTags(Stored) \subseteq Facts
      /\ \A m \in Memories : NeatTags(Stored) \cap Chunks(m) = {}
  BY NeatTagsFacts, MaintenanceAssumption
<1>1. TypeOK
  BY <1>0 DEF Init, TypeOK
<1>2. \A m \in Stored : memory[m] # "absent"
  BY MaintenanceAssumption DEF Init
<1>3. \A c \in Calls : Placed(c) /\ Progress(c)
  BY DEF Init, Placed, Progress, Passes, Rebuilds, Inserts, TagsLooked, VectorsLooked, ChunksLooked
<1>4. Wholes
  BY <1>0 DEF Init, Wholes, Whole, Seen
<1> QED
  BY <1>1, <1>2, <1>3, <1>4 DEF IInv

-----------------------------------------------------------------------------
(* Steps that touch only the call that makes them.                         *)

Labels == {"idle", "init memories", "init chunks", "commit"}
             \cup Passes \cup Rebuilds \cup Inserts \cup Ended

Locks == [mode : {"read", "write", "share", "index", "vacuum"}, table : Tables]

LEMMA OtherCall ==
    ASSUME IInv, NEW d \in Calls, UNCHANGED tool, facts \subseteq facts',
           pc'[d] = pc[d], todo'[d] = todo[d], wrote'[d] = wrote[d],
           Stored \cap Live' \subseteq Live
    PROVE  Placed(d)' /\ Progress(d)'
<1>1. Placed(d)'
  BY DEF IInv, Placed
<1>2. Settled(d) \subseteq Settled(d)'
  BY DEF Settled, Seen
<1>3. Progress(d)'
  BY <1>2 DEF IInv, Progress
<1> QED
  BY <1>1, <1>3

LEMMA OwnStep ==
    ASSUME IInv, NEW c \in Calls, UNCHANGED <<setting, memory, facts, late>>,
           NEW label \in Labels, NEW rows \in SUBSET Facts, NEW mine \in SUBSET Facts,
           Goto(c, label), todo' = [todo EXCEPT ![c] = rows], wrote' = [wrote EXCEPT ![c] = mine],
           held' \in [Calls -> SUBSET Locks],
           (pc'[c] = label /\ todo'[c] = rows /\ wrote'[c] = mine) =>
              /\ Placed(c)' /\ Progress(c)'
              /\ \A m \in Memories : Whole(m, facts \cup mine \cup rows)
    PROVE  IInv'
<1>0. TypeOK /\ Wholes
  BY DEF IInv
<1>1. /\ pc' = [pc EXCEPT ![c] = label] /\ pc \in [Calls -> Labels]
      /\ todo \in [Calls -> SUBSET Facts] /\ wrote \in [Calls -> SUBSET Facts]
  BY <1>0 DEF Goto, TypeOK, Labels
<1>2. /\ pc'[c] = label /\ todo'[c] = rows /\ wrote'[c] = mine
      /\ \A d \in Calls \ {c} : pc'[d] = pc[d] /\ todo'[d] = todo[d] /\ wrote'[d] = wrote[d]
  BY <1>1
<1>3. TypeOK'
  <2>1. /\ pc' \in [Calls -> Labels]
        /\ todo' \in [Calls -> SUBSET Facts] /\ wrote' \in [Calls -> SUBSET Facts]
    BY <1>1
  <2> QED
    BY <1>0, <2>1 DEF TypeOK, Labels, Locks, setting
<1>4. Live' = Live
  BY DEF Live
<1>5. \A d \in Calls : Placed(d)' /\ Progress(d)'
  BY <1>2, <1>4, OtherCall DEF setting
<1>6. Wholes'
  <2>1. \A d \in Calls \ {c} : Seen(d)' = Seen(d) /\ todo'[d] = todo[d]
    BY <1>2 DEF Seen
  <2>2. \A m \in Memories : Whole(m, Seen(c)' \cup todo'[c])
    BY <1>2 DEF Seen
  <2> QED
    BY <1>0, <2>1, <2>2 DEF Wholes
<1> QED
  BY <1>3, <1>5, <1>6 DEF IInv

LEMMA LeaveInv ==
    ASSUME IInv, NEW c \in Calls, UNCHANGED <<setting, memory, facts, late>>,
           NEW label \in Labels, Leave(c, label),
           label \notin Fixing \cup {"commit"},
           label \in Passes => tool[c] = "repair" /\ label = "look tags",
           label \in Rebuilds => tool[c] = "maintain",
           label \notin Inserts \cup {"init memories", "init chunks"},
           label = "done" => tool[c] # "repair"
    PROVE  IInv'
<1>1. /\ Goto(c, label) /\ todo' = [todo EXCEPT ![c] = {}] /\ wrote' = [wrote EXCEPT ![c] = {}]
      /\ held' \in [Calls -> SUBSET Locks]
  BY DEF Leave, IInv, TypeOK, Locks
<1>2. ASSUME pc'[c] = label, todo'[c] = {}, wrote'[c] = {} PROVE Placed(c)' /\ Progress(c)'
  <2>1. Placed(c)'
    BY <1>2 DEF Placed, setting
  <2>2. Progress(c)'
    BY <1>2 DEF Progress, TagsLooked, VectorsLooked, ChunksLooked, setting, Passes, Fixing
  <2> QED
    BY <2>1, <2>2
<1>3. \A m \in Memories : Whole(m, facts \cup {} \cup {})
  BY DEF IInv, Wholes, Whole
<1>4. {} \in SUBSET Facts
  OBVIOUS
<1> QED
  BY <1>1, <1>2, <1>3, <1>4, OwnStep

LEMMA NeedsTyped == ASSUME NEW c PROVE Needs(c) \subseteq Locks
<1>1. \A mode \in {"read", "write", "share", "index", "vacuum"}, t \in Tables : Lock(mode, t) \in Locks
  BY DEF Lock, Locks
<1>2. "memories" \in Tables /\ "chunks" \in Tables
  BY DEF Tables
<1>3. \A x \in Needs(c) : \E mode \in {"read", "write", "share", "index", "vacuum"}, t \in Tables : x = Lock(mode, t)
  BY <1>2 DEF Needs
<1> QED
  BY <1>1, <1>3

LEMMA HeldTyped ==
    ASSUME TypeOK, NEW c \in Calls, held' = [held EXCEPT ![c] = @ \cup Needs(c)]
    PROVE  held' \in [Calls -> SUBSET Locks]
BY NeedsTyped DEF TypeOK, Locks

(* A statement that only locks, of ilma_repair or of the initialization. *)
LEMMA TakeInv ==
    ASSUME IInv, NEW c \in Calls, NEW from \in Labels, NEW to \in Labels, Take(c, from, to),
           from \notin Passes \cup {"cut", "commit"},
           to = "init chunks" => from = "init memories",
           to \in {"init chunks"} \cup Rebuilds,
           to \in Rebuilds => from \in Rebuilds
    PROVE  IInv'
<1>0. TypeOK /\ Placed(c) /\ Wholes /\ pc[c] = from
  BY DEF IInv, Take
<1>1. Goto(c, to) /\ held' \in [Calls -> SUBSET Locks] /\ UNCHANGED <<setting, memory, facts, todo, wrote, late>>
  BY <1>0, HeldTyped DEF Take, Execute
<1>2. todo[c] = {} /\ wrote[c] = {}
  BY <1>0 DEF Placed, Fixing, Passes
<1>3. todo' = [todo EXCEPT ![c] = {}] /\ wrote' = [wrote EXCEPT ![c] = {}]
  BY <1>0, <1>1, <1>2 DEF TypeOK
<1>4. ASSUME pc'[c] = to, todo'[c] = {}, wrote'[c] = {} PROVE Placed(c)' /\ Progress(c)'
  <2>1. Placed(c)'
    BY <1>0, <1>1, <1>4 DEF Placed, setting, Passes, Rebuilds, Inserts
  <2>2. Progress(c)'
    BY <1>4 DEF Progress, TagsLooked, VectorsLooked, ChunksLooked, Rebuilds
  <2> QED
    BY <2>1, <2>2
<1>5. \A m \in Memories : Whole(m, facts \cup {} \cup {})
  BY <1>0 DEF Wholes, Whole
<1> QED
  BY <1>1, <1>3, <1>4, <1>5, OwnStep

-----------------------------------------------------------------------------
(* The passes of a repair.                                                 *)

LEMMA LookStep ==
    ASSUME IInv, NEW c \in Calls, NEW look \in Passes \ Fixing, NEW work \in SUBSET Facts,
           NEW fix \in Fixing, NEW next \in (Passes \ Fixing) \cup {"commit"},
           Look(c, look, work, fix, next),
           \A m \in Memories : Whole(m, Seen(c) \cup work),
           \A m \in Stored \cap Live, label \in {fix, next} :
              /\ label \in TagsLooked => Tags(m) \in Seen(c) \cup Zero \cup work
              /\ label \in VectorsLooked => Vector(m) \in Seen(c) \cup Zero \cup work
              /\ label \in ChunksLooked => Chunks(m) \subseteq Seen(c) \cup Zero \cup work
    PROVE  IInv'
<1> DEFINE label == IF work = {} THEN next ELSE fix
<1>0. TypeOK /\ Placed(c) /\ pc[c] = look
  BY DEF IInv, Look
<1>1. label \in Labels /\ label \in {fix, next} /\ label # "done"
  BY DEF Labels, Passes, Fixing
<1>2. /\ Goto(c, label) /\ todo' = [todo EXCEPT ![c] = work]
      /\ held' \in [Calls -> SUBSET Locks] /\ UNCHANGED <<setting, memory, facts, wrote, late>>
  BY <1>0, HeldTyped DEF Look, Execute, Continue
<1>3. wrote' = [wrote EXCEPT ![c] = wrote[c]] /\ wrote[c] \in SUBSET Facts
  BY <1>0, <1>2 DEF TypeOK
<1>4. tool[c] = "repair"
  BY <1>0 DEF Placed
<1>5. ASSUME pc'[c] = label, todo'[c] = work, wrote'[c] = wrote[c] PROVE Placed(c)' /\ Progress(c)'
  <2>1. tool'[c] = "repair" /\ Live' = Live /\ Settled(c)' = Seen(c) \cup Zero \cup work
    BY <1>2, <1>4, <1>5 DEF setting, Live, Settled, Seen
  <2>2. Placed(c)'
    BY <1>5, <2>1 DEF Placed, Passes, Fixing, Rebuilds, Inserts
  <2>3. Progress(c)'
    <3> HIDE DEF label
    <3> QED
      BY <1>1, <1>5, <2>1 DEF Progress
  <2> QED
    BY <2>2, <2>3
<1>6. \A m \in Memories : Whole(m, facts \cup wrote[c] \cup work)
  BY DEF Seen
<1> HIDE DEF label
<1> QED
  BY <1>1, <1>2, <1>3, <1>5, <1>6, OwnStep

LEMMA FixStep ==
    ASSUME IInv, NEW c \in Calls, NEW fix \in Fixing,
           NEW next \in (Passes \ Fixing) \cup {"commit"}, Fix(c, fix, next),
           next \in TagsLooked => fix \in TagsLooked,
           next \in VectorsLooked => fix \in VectorsLooked,
           next \in ChunksLooked => fix \in ChunksLooked
    PROVE  IInv'
<1>0. TypeOK /\ Placed(c) /\ Progress(c) /\ Wholes /\ pc[c] = fix
      /\ UNCHANGED <<setting, memory, facts, late>>
  BY DEF IInv, Fix
<1>1. tool[c] = "repair"
  BY <1>0 DEF Placed, Fixing, Passes
<1>2. PICK f \in Due(c) :
         \/ /\ f \in Zero
            /\ Continue(c, todo[c] \ {f}, fix, next)
            /\ UNCHANGED <<wrote, held>>
         \/ Leave(c, "rejected")
         \/ /\ Execute(c)
            /\ wrote' = [wrote EXCEPT ![c] = @ \cup Changes(f)]
            /\ Continue(c, todo[c] \ {f}, fix, next)
  BY DEF Fix
<1> DEFINE rows == todo[c] \ {f}
           label == IF rows = {} THEN next ELSE fix
<1>3. f \in todo[c] /\ f \in Facts /\ rows \in SUBSET Facts
  BY <1>0 DEF Due, TypeOK
<1>4. label \in Labels /\ label \in {fix, next} /\ label # "done"
  BY DEF Labels, Passes, Fixing
<1>5. CASE Leave(c, "rejected")
  BY <1>0, <1>5, LeaveInv DEF Labels, Ended, Passes, Rebuilds, Inserts, Fixing
<1>6. ASSUME NEW mine \in SUBSET Facts, wrote' = [wrote EXCEPT ![c] = mine],
             held' \in [Calls -> SUBSET Locks], Continue(c, rows, fix, next),
             wrote[c] \subseteq mine, f \in facts \cup mine \cup Zero,
             \A m \in Memories : Whole(m, facts \cup mine \cup rows)
      PROVE  IInv'
  <2>1. Goto(c, label) /\ todo' = [todo EXCEPT ![c] = rows]
    BY <1>6 DEF Continue
  <2>2. ASSUME pc'[c] = label, todo'[c] = rows, wrote'[c] = mine PROVE Placed(c)' /\ Progress(c)'
    <3>1. /\ tool'[c] = "repair" /\ Live' = Live /\ Settled(c) \subseteq Settled(c)'
      BY <1>0, <1>1, <1>6, <2>2 DEF setting, Live, Settled, Seen
    <3>2. Placed(c)'
      BY <2>2, <3>1 DEF Placed, Passes, Fixing, Rebuilds, Inserts
    <3>3. Progress(c)'
      <4> HIDE DEF label
      <4> QED
        BY <1>0, <1>1, <1>4, <2>2, <3>1 DEF Progress
    <3> QED
      BY <3>2, <3>3
  <2> HIDE DEF label, rows
  <2> QED
    BY <1>0, <1>3, <1>4, <1>6, <2>1, <2>2, OwnStep
<1>7. CASE f \in Zero /\ Continue(c, rows, fix, next) /\ UNCHANGED <<wrote, held>>
  <2>1. wrote' = [wrote EXCEPT ![c] = wrote[c]] /\ wrote[c] \in SUBSET Facts
    BY <1>0, <1>7 DEF TypeOK
  <2>2. held' \in [Calls -> SUBSET Locks]
    BY <1>0, <1>7 DEF TypeOK, Locks
  <2>3. ASSUME NEW m \in Memories PROVE Whole(m, facts \cup wrote[c] \cup rows)
    <3>1. Whole(m, facts \cup wrote[c] \cup todo[c])
      BY <1>0 DEF Wholes, Seen
    <3> QED
      BY <1>7, <3>1 DEF Whole
  <2> HIDE DEF rows
  <2> QED
    BY <1>6, <1>7, <2>1, <2>2, <2>3
<1>8. CASE /\ Execute(c)
           /\ wrote' = [wrote EXCEPT ![c] = @ \cup Changes(f)]
           /\ Continue(c, rows, fix, next)
  <2> DEFINE mine == wrote[c] \cup Changes(f)
  <2>1. Changes(f) \subseteq {f} /\ f \in facts \cup Changes(f)
    BY DEF Changes
  <2>2. mine \in SUBSET Facts /\ wrote[c] \subseteq mine /\ f \in facts \cup mine \cup Zero
    BY <1>0, <1>3, <2>1 DEF TypeOK
  <2>3. wrote' = [wrote EXCEPT ![c] = mine]
    BY <1>0, <1>8 DEF TypeOK
  <2>4. held' \in [Calls -> SUBSET Locks]
    BY <1>0, <1>8, HeldTyped DEF Execute
  <2>5. ASSUME NEW m \in Memories PROVE Whole(m, facts \cup mine \cup rows)
    <3>1. Whole(m, facts \cup wrote[c] \cup todo[c])
      BY <1>0 DEF Wholes, Seen
    <3>2. facts \cup mine \cup rows = facts \cup wrote[c] \cup todo[c]
      BY <1>3, <2>1
    <3> HIDE DEF mine, rows
    <3> QED
      BY <3>1, <3>2
  <2> HIDE DEF mine, rows
  <2> QED
    BY <1>6, <1>8, <2>2, <2>3, <2>4, <2>5
<1> QED
  BY <1>2, <1>5, <1>7, <1>8

LEMMA RepairInv ==
    ASSUME IInv, NEW c \in Calls, Repair(c)
    PROVE  IInv'
<1>0. Placed(c) /\ Progress(c) /\ Wholes
  BY DEF IInv
<1> USE DEF Passes, Fixing, TagsLooked, VectorsLooked, ChunksLooked
<1>1. ASSUME todo[c] = {}
      PROVE  \A m \in Memories : Whole(m, Seen(c))
  BY <1>0, <1>1 DEF Wholes
<1>2. Live \subseteq Memories
  BY DEF Live
<1>3. CASE Look(c, "look tags", CorruptTags(c), "fix tags", "look vector")
  <2>1. pc[c] = "look tags" /\ todo[c] = {}
    BY <1>0, <1>3 DEF Look, Placed
  <2>2. CorruptTags(c) \in SUBSET Facts
    BY <1>2, FactsFacts DEF CorruptTags
  <2>3. ASSUME NEW m \in Memories PROVE Whole(m, Seen(c) \cup CorruptTags(c))
    <3>1. Chunks(m) \cap CorruptTags(c) = {}
      BY <1>2, FactShapes DEF CorruptTags
    <3> QED
      BY <1>1, <2>1, <3>1 DEF Whole
  <2>4. \A m \in Stored \cap Live : Tags(m) \in Seen(c) \cup CorruptTags(c)
    BY DEF CorruptTags
  <2> QED
    BY <1>3, <2>2, <2>3, <2>4, LookStep
<1>4. CASE Look(c, "look vector", MissingVectors(c), "fix vector", "look chunks")
  <2>1. pc[c] = "look vector" /\ todo[c] = {} /\ tool[c] = "repair"
    BY <1>0, <1>4 DEF Look, Placed
  <2>2. MissingVectors(c) \in SUBSET Facts
    BY <1>2, FactsFacts DEF MissingVectors
  <2>3. ASSUME NEW m \in Memories PROVE Whole(m, Seen(c) \cup MissingVectors(c))
    <3>1. Chunks(m) \cap MissingVectors(c) = {}
      BY <1>2, FactShapes DEF MissingVectors
    <3> QED
      BY <1>1, <2>1, <3>1 DEF Whole
  <2>4. \A m \in Stored \cap Live :
           Vector(m) \in Seen(c) \cup MissingVectors(c) /\ Tags(m) \in Seen(c) \cup Zero
    BY <1>0, <2>1 DEF MissingVectors, Progress, Settled
  <2> QED
    BY <1>4, <2>2, <2>3, <2>4, LookStep
<1>5. CASE Look(c, "look chunks", MissingChunks(c), "fix chunks", "commit")
  <2>1. pc[c] = "look chunks" /\ todo[c] = {} /\ tool[c] = "repair"
    BY <1>0, <1>5 DEF Look, Placed
  <2>2. MissingChunks(c) \in SUBSET Facts
    BY <1>2, FactsFacts DEF MissingChunks
  <2>3. ASSUME NEW m \in Memories PROVE Whole(m, Seen(c) \cup MissingChunks(c))
    <3>1. CASE m \in Live /\ Chunks(m) \cap Seen(c) = {}
      <4>1. Chunks(m) \subseteq MissingChunks(c)
        BY <3>1 DEF MissingChunks
      <4> QED
        BY <4>1 DEF Whole
    <3>2. CASE ~ (m \in Live /\ Chunks(m) \cap Seen(c) = {})
      <4>1. Chunks(m) \cap MissingChunks(c) = {}
        BY <1>2, <3>2, FactShapes DEF MissingChunks
      <4> QED
        BY <1>1, <2>1, <4>1 DEF Whole
    <3> QED
      BY <3>1, <3>2
  <2>4. ASSUME NEW m \in Stored \cap Live
        PROVE  /\ Tags(m) \in Seen(c) \cup Zero /\ Vector(m) \in Seen(c) \cup Zero
               /\ Chunks(m) \subseteq Seen(c) \cup Zero \cup MissingChunks(c)
    <3>1. Tags(m) \in Seen(c) \cup Zero /\ Vector(m) \in Seen(c) \cup Zero
      BY <1>0, <2>1 DEF Progress, Settled
    <3>2. CASE Chunks(m) \cap Seen(c) = {}
      BY <3>1, <3>2 DEF MissingChunks
    <3>3. CASE Chunks(m) \cap Seen(c) # {}
      BY <1>1, <1>2, <2>1, <3>1, <3>3 DEF Whole
    <3> QED
      BY <3>2, <3>3
  <2> QED
    BY <1>5, <2>2, <2>3, <2>4, LookStep
<1>6. CASE Fix(c, "fix tags", "look vector")
  BY <1>6, FixStep
<1>7. CASE Fix(c, "fix vector", "look chunks")
  BY <1>7, FixStep
<1>8. CASE Fix(c, "fix chunks", "commit")
  BY <1>8, FixStep
<1> QED
  BY <1>3, <1>4, <1>5, <1>6, <1>7, <1>8 DEF Repair

-----------------------------------------------------------------------------
(* The other steps.                                                        *)

LEMMA RememberInv ==
    ASSUME IInv, NEW c \in Calls, Remember(c)
    PROVE  IInv'
<1> DEFINE new == NewId[c]
           rest == Chunks(new) \cup {Vector(m) : m \in {new} \ Vast}
<1>0. TypeOK /\ Placed(c) /\ Wholes /\ new \in Memories
  BY MaintenanceAssumption DEF IInv
<1>1. /\ UNCHANGED <<setting, memory, facts, todo, late>>
      /\ held' \in [Calls -> SUBSET Locks]
      /\ pc[c] \in Inserts
  BY <1>0, HeldTyped DEF Remember, Execute, Inserts
<1>2. tool[c] = "remember" /\ todo[c] = {} /\ pc[c] \notin Passes
  BY <1>0, <1>1 DEF Placed, Inserts, Fixing, Passes
<1>3. todo' = [todo EXCEPT ![c] = {}] /\ {} \in SUBSET Facts
  BY <1>0, <1>1, <1>2 DEF TypeOK
<1>4. ASSUME NEW label \in {"insert", "cut", "commit"}, NEW mine \in SUBSET Facts, Goto(c, label),
             wrote' = [wrote EXCEPT ![c] = mine], label = "insert" => mine = {},
             \A m \in Memories : Whole(m, facts \cup mine \cup {})
      PROVE  IInv'
  <2>1. ASSUME pc'[c] = label, todo'[c] = {}, wrote'[c] = mine PROVE Placed(c)' /\ Progress(c)'
    <3>1. tool'[c] = "remember"
      BY <1>1, <1>2 DEF setting
    <3> QED
      BY <1>4, <2>1, <3>1 DEF Placed, Progress, Passes, Rebuilds, Fixing
  <2>2. label \in Labels
    BY DEF Labels, Inserts
  <2> QED
    BY <1>1, <1>3, <1>4, <2>1, <2>2, OwnStep
<1>5. \A m \in Memories : Whole(m, facts \cup wrote[c])
  BY <1>0, <1>2 DEF Wholes, Seen
<1>6. CASE pc[c] = "ask" /\ Goto(c, "insert") /\ UNCHANGED wrote
  <2>1. wrote[c] = {}
    BY <1>0, <1>6, <1>2 DEF Placed
  <2>2. wrote' = [wrote EXCEPT ![c] = {}]
    BY <1>0, <1>6, <2>1 DEF TypeOK
  <2>3. \A m \in Memories : Whole(m, facts \cup {} \cup {})
    BY <1>5, <2>1 DEF Whole
  <2> QED
    BY <1>3, <1>4, <1>6, <2>2, <2>3
<1>7. CASE pc[c] = "insert" /\ Goto(c, "cut") /\ wrote' = [wrote EXCEPT ![c] = NeatTags({new})]
  <2>1. NeatTags({new}) \in SUBSET Facts
    BY <1>0, NeatTagsFacts
  <2>2. ASSUME NEW m \in Memories PROVE Whole(m, facts \cup NeatTags({new}) \cup {})
    <3>1. wrote[c] = {}
      BY <1>0, <1>2, <1>7 DEF Placed
    <3>2. NeatTags({new}) \cap Chunks(m) = {}
      BY <1>0, NeatTagsFacts
    <3> QED
      BY <1>5, <3>1, <3>2 DEF Whole
  <2> QED
    BY <1>4, <1>7, <2>1, <2>2
<1>8. CASE pc[c] = "cut" /\ Goto(c, "commit") /\ wrote' = [wrote EXCEPT ![c] = @ \cup rest]
  <2> DEFINE mine == wrote[c] \cup rest
  <2>1. mine \in SUBSET Facts /\ wrote' = [wrote EXCEPT ![c] = mine]
    BY <1>0, <1>8, FactsFacts DEF TypeOK
  <2>2. ASSUME NEW m \in Memories PROVE Whole(m, facts \cup mine \cup {})
    <3>1. CASE m = new
      BY <3>1 DEF Whole
    <3>2. CASE m # new
      <4>1. Chunks(m) \cap rest = {}
        BY <1>0, <3>2, FactShapes
      <4> HIDE DEF rest
      <4> QED
        BY <1>5, <4>1 DEF Whole
    <3> QED
      BY <3>1, <3>2
  <2> HIDE DEF mine
  <2> QED
    BY <1>4, <1>8, <2>1, <2>2
<1> QED
  <2>1. \/ pc[c] = "ask" /\ Goto(c, "insert") /\ UNCHANGED wrote
        \/ pc[c] = "insert" /\ Goto(c, "cut") /\ wrote' = [wrote EXCEPT ![c] = NeatTags({new})]
        \/ pc[c] = "cut" /\ Goto(c, "commit")
           /\ wrote' = [wrote EXCEPT ![c] = @ \cup Chunks(new) \cup {Vector(m) : m \in {new} \ Vast}]
    BY DEF Remember
  <2>2. (wrote[c] \cup Chunks(new)) \cup {Vector(m) : m \in {new} \ Vast} = wrote[c] \cup rest
    OBVIOUS
  <2>3. ASSUME wrote' = [wrote EXCEPT ![c] = @ \cup Chunks(new) \cup {Vector(m) : m \in {new} \ Vast}]
        PROVE  wrote' = [wrote EXCEPT ![c] = @ \cup rest]
    BY <2>2, <2>3
  <2> HIDE DEF rest
  <2> QED
    BY <1>6, <1>7, <1>8, <2>1, <2>3

LEMMA CommitInv ==
    ASSUME IInv, NEW c \in Calls, Commit(c)
    PROVE  IInv'
<1>0. /\ TypeOK /\ Placed(c) /\ Progress(c) /\ Wholes /\ pc[c] = "commit"
      /\ facts' = facts \cup wrote[c] /\ UNCHANGED setting
      /\ late' \in [Calls -> BOOLEAN]
      /\ \A m \in Memories : memory'[m] = IF tool[c] = "remember" /\ m = NewId[c] THEN "live" ELSE memory[m]
  BY DEF IInv, Commit, Overtake, TypeOK, Selecting
<1>1. todo[c] = {}
  BY <1>0 DEF Placed, Fixing
<1>2. /\ pc'[c] = "done" /\ todo'[c] = {} /\ wrote'[c] = {}
      /\ \A d \in Calls \ {c} : pc'[d] = pc[d] /\ todo'[d] = todo[d] /\ wrote'[d] = wrote[d]
  BY <1>0 DEF Commit, Leave, Goto, TypeOK
<1>3. TypeOK'
  <2>1. /\ pc' = [pc EXCEPT ![c] = "done"] /\ todo' = [todo EXCEPT ![c] = {}]
        /\ wrote' = [wrote EXCEPT ![c] = {}] /\ held' = [held EXCEPT ![c] = {}]
    BY DEF Commit, Leave, Goto
  <2>2. /\ todo' \in [Calls -> SUBSET Facts] /\ wrote' \in [Calls -> SUBSET Facts]
        /\ held' \in [Calls -> SUBSET Locks] /\ pc' \in [Calls -> Labels] /\ facts' \subseteq Facts
    BY <1>0, <2>1 DEF TypeOK, Labels, Ended, Locks
  <2>3. memory' \in [Memories -> {"absent", "live", "deleted"}]
    BY <1>0 DEF Commit, TypeOK
  <2> QED
    BY <1>0, <2>2, <2>3 DEF TypeOK, Labels, Locks, setting
<1>4. Stored \cap Live' = Stored \cap Live /\ \A m \in Stored : memory'[m] # "absent"
  <2>1. NewId[c] \notin Stored /\ Stored \subseteq Memories
    BY MaintenanceAssumption
  <2>2. ASSUME NEW m \in Stored PROVE memory'[m] = memory[m] /\ memory[m] # "absent"
    BY <1>0, <2>1 DEF IInv
  <2> QED
    BY <2>1, <2>2 DEF Live
<1>5. \A d \in Calls \ {c} : Placed(d)' /\ Progress(d)'
  BY <1>0, <1>2, <1>4, OtherCall DEF setting
<1>6. Placed(c)' /\ Progress(c)'
  <2>1. Placed(c)'
    BY <1>2 DEF Placed, Passes, Rebuilds, Inserts
  <2>2. Progress(c)'
    BY <1>0, <1>1, <1>2, <1>4 DEF Progress, TagsLooked, VectorsLooked, ChunksLooked, Settled, Seen, setting
  <2> QED
    BY <2>1, <2>2
<1>7. Wholes'
  <2>1. ASSUME NEW m \in Memories PROVE Whole(m, facts')
    BY <1>0, <1>1 DEF Wholes, Seen
  <2>2. ASSUME NEW m \in Memories, NEW d \in Calls PROVE Whole(m, Seen(d)' \cup todo'[d])
    <3>1. CASE d = c
      BY <1>2, <2>1, <3>1 DEF Seen
    <3>2. CASE d # c
      <4>1. Whole(m, facts') /\ Whole(m, Seen(d) \cup todo[d])
        BY <1>0, <2>1 DEF Wholes
      <4>2. Seen(d)' \cup todo'[d] = facts' \cup (Seen(d) \cup todo[d])
        BY <1>0, <1>2, <3>2 DEF Seen
      <4> QED
        BY <4>1, <4>2, WholeUnion
    <3> QED
      BY <3>1, <3>2
  <2> QED
    BY <2>1, <2>2 DEF Wholes
<1> QED
  BY <1>3, <1>4, <1>5, <1>6, <1>7 DEF IInv

(* forget, and a migration that commits: the calls stand where they stood. *)
LEMMA RowInv ==
    ASSUME IInv, NEW m \in Memories, Forget(m) \/ Migrate(m)
    PROVE  IInv'
<1>0. /\ TypeOK /\ Wholes /\ UNCHANGED <<setting, pc, todo, wrote, held>>
  BY DEF IInv, Forget, Migrate, calls
<1>1. /\ memory' \in [Memories -> {"absent", "live", "deleted"}]
      /\ late' \in [Calls -> BOOLEAN]
  BY <1>0 DEF Forget, Migrate, TypeOK, Overtake, Selecting
<1>6. PICK new \in SUBSET Facts :
         facts' = facts \cup new /\ \A n \in Memories : new \cap Chunks(n) = {}
  <2>1. facts' = facts \/ facts' = facts \cup NeatTags({m})
    BY DEF Forget, Migrate
  <2>2. facts \cup {} = facts
    OBVIOUS
  <2> QED
    BY <2>1, <2>2, NeatTagsFacts
<1>2. Stored \cap Live' \subseteq Live /\ \A n \in Stored : memory'[n] # "absent"
  BY <1>0, MaintenanceAssumption DEF Forget, Migrate, Live, IInv, TypeOK
<1>3. TypeOK'
  BY <1>0, <1>1, <1>6 DEF TypeOK, setting
<1>4. \A d \in Calls : Placed(d)' /\ Progress(d)'
  BY <1>0, <1>2, <1>6, OtherCall DEF setting
<1>5. Wholes'
  BY <1>0, <1>6 DEF Wholes, Whole, Seen
<1> QED
  BY <1>2, <1>3, <1>4, <1>5 DEF IInv

LEMMA StartInv ==
    ASSUME IInv, NEW c \in Calls, Start(c)
    PROVE  IInv'
<1> DEFINE label == IF tool[c] = "remember" THEN "ask" ELSE "init memories"
<1>0. /\ TypeOK /\ Placed(c) /\ Wholes /\ pc[c] = "idle" /\ Goto(c, label)
      /\ UNCHANGED <<setting, memory, facts, todo, wrote, held, late>>
  BY DEF IInv, Start
<1>1. todo[c] = {} /\ wrote[c] = {} /\ {} \in SUBSET Facts
  BY <1>0 DEF Placed, Fixing, Passes
<1>2. /\ todo' = [todo EXCEPT ![c] = {}] /\ wrote' = [wrote EXCEPT ![c] = {}]
      /\ held' \in [Calls -> SUBSET Locks] /\ label \in Labels
  BY <1>0, <1>1 DEF TypeOK, Locks, Labels, Inserts
<1>3. ASSUME pc'[c] = label, todo'[c] = {}, wrote'[c] = {} PROVE Placed(c)' /\ Progress(c)'
  <2>1. tool'[c] = tool[c]
    BY <1>0 DEF setting
  <2> QED
    BY <1>3, <2>1 DEF Placed, Progress, Passes, Rebuilds, Inserts, TagsLooked, VectorsLooked, ChunksLooked
<1>4. \A m \in Memories : Whole(m, facts \cup {} \cup {})
  BY <1>0 DEF Wholes, Whole
<1> HIDE DEF label
<1> QED
  BY <1>0, <1>1, <1>2, <1>3, <1>4, OwnStep

LEMMA Inductive == IInv /\ [Next]_vars => IInv'
<1> SUFFICES ASSUME IInv, [Next]_vars PROVE IInv'
  OBVIOUS
<1>1. CASE UNCHANGED vars
  BY <1>1 DEF vars, setting, IInv, TypeOK, Placed, Progress, Wholes, Settled, Seen, Live
<1>2. ASSUME NEW c \in Calls, Step(c) \/ Fail(c) \/ Detect(c) PROVE IInv'
  <2>0. Placed(c)
    BY DEF IInv
  <2> USE DEF Labels, Ended, Passes, Rebuilds, Inserts, Fixing
  <2>1. CASE Start(c)
    BY <2>1, StartInv
  <2>2. CASE Initialize(c)
    <3>1. CASE Take(c, "init memories", "init chunks")
      BY <3>1, TakeInv
    <3>2. CASE Alone(c, "init chunks", IF tool[c] = "repair" THEN "look tags" ELSE "find")
      <4>1. CASE tool[c] = "repair" /\ Leave(c, "look tags")
        BY <3>2, <4>1, LeaveInv DEF Alone
      <4>2. CASE tool[c] # "repair" /\ Leave(c, "find")
        <5>1. tool[c] = "maintain"
          BY <2>0, <3>2, <4>2, MaintenanceAssumption DEF Alone, Placed, IInv, TypeOK
        <5> QED
          BY <3>2, <4>2, <5>1, LeaveInv DEF Alone
      <4> QED
        BY <3>2, <4>1, <4>2 DEF Alone
    <3> QED
      BY <2>2, <3>1, <3>2 DEF Initialize
  <2>3. CASE Repair(c)
    BY <2>3, RepairInv
  <2>4. CASE Maintain(c)
    <3>1. tool[c] = "maintain"
      BY <2>0, <2>4 DEF Maintain, Find, Take, Alone, Placed
    <3>2. CASE \/ Find(c, "find", "share memories", "vacuum") \/ Find(c, "find again", "done", "done")
               \/ Alone(c, "index chunks", "vacuum") \/ Alone(c, "vacuum", "find again")
      BY <3>1, <3>2, LeaveInv DEF Find, Alone
    <3>3. CASE Take(c, "share memories", "index memories")
      BY <3>3, TakeInv
    <3>4. CASE Take(c, "index memories", "share chunks")
      BY <3>4, TakeInv
    <3>5. CASE Take(c, "share chunks", "index chunks")
      BY <3>5, TakeInv
    <3> QED
      BY <2>4, <3>2, <3>3, <3>4, <3>5 DEF Maintain
  <2>5. CASE Remember(c)
    BY <2>5, RememberInv
  <2>6. CASE Commit(c)
    BY <2>6, CommitInv
  <2>7. CASE Fail(c) \/ Detect(c)
    BY <2>7, LeaveInv DEF Fail, Detect
  <2> QED
    BY <1>2, <2>1, <2>2, <2>3, <2>4, <2>5, <2>6, <2>7 DEF Step
<1> QED
  BY <1>1, <1>2, RowInv DEF Next

(* Every reachable state of the maintenance is well typed. *)
THEOREM TypeCorrect == Spec => []TypeOK
<1> QED
  BY InitIInv, Inductive, PTL DEF Spec, IInv

(* However many repairs, memories and pieces, whatever fails or is rolled
   back and whoever else writes the rows meanwhile: a repair that says it
   is done has left no migrated memory half repaired. *)
THEOREM RepairIsAlwaysComplete == Spec => []RepairIsComplete
<1>1. IInv => RepairIsComplete
  BY DEF IInv, Progress, RepairIsComplete
<1> QED
  BY <1>1, InitIInv, Inductive, PTL DEF Spec
-----------------------------------------------------------------------------
(* The order in which locks and rows are taken.                            *)

MemoriesWritten == {"fix tags", "look vector", "fix vector", "look chunks", "fix chunks",
                    "cut", "commit"}

(* Where a call stands when it holds a lock. *)
Locking(c) ==
    /\ pc[c] = "idle" => held[c] = {}
    /\ \A b \in held[c] :
          /\ b.mode \in {"index", "vacuum"} \/ b = Lock("share", "chunks") => Rebuilding(c)
          /\ b = Lock("share", "memories") => pc[c] = "init chunks" \/ Rebuilding(c)
          /\ b = Lock("write", "memories") => pc[c] \in MemoriesWritten
          /\ b = Lock("write", "chunks") => pc[c] \in ChunksLooked

(* What a call has written, and what is due, is of the passes it has come
   to, and a repair leaves tags that look clean alone. *)
Kinds(c) ==
    /\ pc[c] = "fix tags" => \A f \in todo[c] : f[1] = "tags"
    /\ pc[c] = "fix vector" => \A f \in todo[c] : f[1] = "vector"
    /\ pc[c] = "fix chunks" => \A f \in todo[c] : f[1] = "chunk"
    /\ \A g \in wrote[c] : /\ g[1] = "tags" => pc[c] \in TagsLooked \cup {"cut"}
                           /\ g[1] = "vector" => pc[c] \in VectorsLooked
                           /\ g[1] = "chunk" => pc[c] \in ChunksLooked
    /\ tool[c] = "repair" =>
          /\ wrote[c] \cap Zero = {}
          /\ \A m \in Memories : Tags(m) \in wrote[c] \cup todo[c] =>
                memory[m] # "absent" /\ m \notin neat
    /\ tool[c] = "remember" =>
          /\ \A m \in Memories : Tags(m) \in wrote[c] => m = NewId[c] /\ m \in neat
          /\ pc[c] \in {"cut", "commit"} /\ NewId[c] \in neat => Tags(NewId[c]) \in wrote[c]
    /\ pc[c] = "commit" => tool[c] # "maintain"

(* A pass has behind it what comes before the rows it has still to do. *)
InOrder(c) == \A g \in wrote[c], f \in todo[c] : g[1] = f[1] => Before(g, f)

(* No two repairs have changed the same row. *)
Apart ==
    \A c, d \in Calls :
       c # d /\ tool[c] = "repair" /\ tool[d] = "repair" =>
          \A g \in wrote[c], h \in wrote[d] : ~ SameRow(g, h)

(* Whoever commits clean tags has seen to the vector as well. *)
TagsThenVector ==
    \A m \in Memories :
       /\ m \notin neat /\ Tags(m) \in facts =>
             memory[m] # "absent" /\ (memory[m] = "live" => Vector(m) \in facts \cup Zero)
       /\ m \in neat /\ memory[m] # "absent" => Tags(m) \in facts

(* A memory that is still to be committed is not there. *)
Fresh(c) == tool[c] = "remember" /\ pc[c] \notin Ended => memory[NewId[c]] = "absent"

TagsFirst(c) ==
    tool[c] = "repair" /\ pc[c] \in VectorsLooked =>
       \A m \in Live : Tags(m) \in wrote[c] => Vector(m) \in Settled(c)

(* A repair that was not overtaken comes to the row of a memory whose tags
   look corrupt with its first pass, whatever it finds wrong with it. *)
OnTime(c) ==
    tool[c] = "repair" /\ ~ late[c] =>
       /\ pc[c] \in TagsLooked => \A m \in Live : m \in neat \/ Tags(m) \in Settled(c)
       /\ \A m \in Memories :
             Vector(m) \in todo[c] \ Zero => m \in neat \/ Tags(m) \in wrote[c] \cup Zero

OrderInv ==
    /\ Apart
    /\ TagsThenVector
    /\ \A c \in Calls : /\ Locking(c) /\ Kinds(c) /\ InOrder(c) /\ TagsFirst(c) /\ OnTime(c)
                       /\ Fresh(c)

LEMMA InitOrder == Init => OrderInv
<1> SUFFICES ASSUME Init PROVE OrderInv
  OBVIOUS
<1>1. \A c \in Calls : pc[c] = "idle" /\ todo[c] = {} /\ wrote[c] = {} /\ held[c] = {}
  BY DEF Init
<1>2. \A c \in Calls : Locking(c) /\ Kinds(c) /\ InOrder(c) /\ TagsFirst(c) /\ OnTime(c) /\ Fresh(c)
  <2>1. \A c \in Calls : NewId[c] \in Memories \ Stored
    BY MaintenanceAssumption
  <2>2. \A c \in Calls : Fresh(c)
    BY <2>1 DEF Init, Fresh
  <2> QED
    BY <1>1, <2>2 DEF Locking, Kinds, InOrder, TagsFirst, OnTime, TagsLooked, VectorsLooked
<1>3. Apart
  BY <1>1 DEF Apart
<1>4. TagsThenVector
  <2>1. \A m \in Memories : Tags(m) \in facts <=> m \in Stored \cap neat
    BY DEF Init, NeatTags, Tags
  <2>2. \A m \in Memories : memory[m] # "absent" => m \in Stored
    BY DEF Init
  <2> QED
    BY <2>1, <2>2 DEF TagsThenVector
<1> QED
  BY <1>2, <1>3, <1>4 DEF OrderInv

(* What a fact is. *)
LEMMA FactKinds ==
    \A f \in Facts :
       /\ f[2] \in Nat /\ f[3] \in Nat /\ f[2] \in Memories
       /\ f[1] \in {"tags", "vector", "chunk"}
       /\ f[1] = "tags" => f = Tags(f[2])
       /\ f[1] = "vector" => f = Vector(f[2])
       /\ f = <<f[1], f[2], f[3]>>
<1> SUFFICES ASSUME NEW m \in Memories, NEW f \in {Tags(m), Vector(m)} \cup Chunks(m)
             PROVE  /\ f[2] \in Nat /\ f[3] \in Nat /\ f[2] \in Memories
                    /\ f[1] \in {"tags", "vector", "chunk"}
                    /\ f[1] = "tags" => f = Tags(f[2])
                    /\ f[1] = "vector" => f = Vector(f[2])
                    /\ f = <<f[1], f[2], f[3]>>
  BY DEF Facts
<1>1. m \in Nat /\ Pieces[m] \in Nat
  BY MaintenanceAssumption
<1>2. CASE f = Tags(m)
  BY <1>1, <1>2 DEF Tags
<1>3. CASE f = Vector(m)
  BY <1>1, <1>3 DEF Vector
<1>4. CASE f \in Chunks(m)
  <2>1. PICK i \in 1..Pieces[m] : f = <<"chunk", m, i>>
    BY <1>4 DEF Chunks
  <2> QED
    BY <1>1, <2>1
<1> QED
  BY <1>2, <1>3, <1>4

(* Of two facts of one kind one is before the other. *)
LEMMA KindOrder ==
    ASSUME NEW f \in Facts, NEW g \in Facts, f[1] = g[1], f # g, ~ Before(g, f)
    PROVE  Before(f, g)
<1>1. /\ f[2] \in Nat /\ f[3] \in Nat /\ g[2] \in Nat /\ g[3] \in Nat
      /\ f = <<f[1], f[2], f[3]>> /\ g = <<g[1], g[2], g[3]>>
  BY FactKinds
<1>2. f[2] # g[2] \/ f[3] # g[3]
  BY <1>1
<1> QED
  BY <1>1, <1>2 DEF Before

(* The other calls, when one has taken a step of its own. *)
LEMMA OwnOrder ==
    ASSUME IInv, OrderInv, NEW c \in Calls, UNCHANGED <<setting, memory, facts, late>>,
           NEW label, NEW rows, NEW mine, NEW locks,
           Goto(c, label), todo' = [todo EXCEPT ![c] = rows], wrote' = [wrote EXCEPT ![c] = mine],
           held' = [held EXCEPT ![c] = locks],
           (pc'[c] = label /\ todo'[c] = rows /\ wrote'[c] = mine /\ held'[c] = locks) =>
              Locking(c)' /\ Kinds(c)' /\ InOrder(c)' /\ TagsFirst(c)' /\ OnTime(c)',
           label \in Ended \/ tool[c] # "remember" \/ pc[c] \notin Ended,
           tool[c] = "repair" =>
              \A d \in Calls \ {c} : tool[d] = "repair" =>
                 \A g \in mine, h \in wrote[d] : ~ SameRow(g, h)
    PROVE  OrderInv'
<1>0. TypeOK /\ UNCHANGED <<tool, dim, neat>>
  BY DEF IInv, setting
<1>1. /\ pc'[c] = label /\ todo'[c] = rows /\ wrote'[c] = mine /\ held'[c] = locks
      /\ \A d \in Calls \ {c} : pc'[d] = pc[d] /\ todo'[d] = todo[d] /\ wrote'[d] = wrote[d]
                                /\ held'[d] = held[d]
  BY <1>0 DEF Goto, TypeOK
<1>2. Live' = Live
  BY DEF Live
<1>3. ASSUME NEW d \in Calls \ {c}
      PROVE  Locking(d)' /\ Kinds(d)' /\ InOrder(d)' /\ TagsFirst(d)' /\ OnTime(d)'
  <2>1. Locking(d) /\ Kinds(d) /\ InOrder(d) /\ TagsFirst(d) /\ OnTime(d)
    BY DEF OrderInv
  <2>2. Locking(d)'
    BY <1>0, <1>1, <2>1 DEF Locking, Rebuilding
  <2>3. Kinds(d)'
    BY <1>0, <1>1, <2>1 DEF Kinds
  <2>4. InOrder(d)'
    BY <1>1, <2>1 DEF InOrder
  <2>5. TagsFirst(d)' /\ OnTime(d)'
    BY <1>0, <1>1, <1>2, <2>1 DEF TagsFirst, OnTime, Settled, Seen
  <2> QED
    BY <2>2, <2>3, <2>4, <2>5
<1>4. Apart'
  <2>1. Apart
    BY DEF OrderInv
  <2>2. \A f, g : SameRow(f, g) <=> SameRow(g, f)
    BY DEF SameRow
  <2> QED
    BY <1>0, <1>1, <2>1, <2>2 DEF Apart
<1>5. TagsThenVector'
  BY <1>0 DEF OrderInv, TagsThenVector
<1>6. \A d \in Calls : Fresh(d)'
  BY <1>0, <1>1 DEF OrderInv, Fresh
<1> QED
  BY <1>1, <1>3, <1>4, <1>5, <1>6 DEF OrderInv

LEMMA LeaveOrder ==
    ASSUME IInv, OrderInv, NEW c \in Calls, UNCHANGED <<setting, memory, facts, late>>,
           NEW label, Leave(c, label), label \notin TagsLooked \cup {"cut", "idle"} \cup Fixing,
           label \in Ended \/ tool[c] # "remember"
    PROVE  OrderInv'
<1>1. UNCHANGED tool
  BY DEF setting
<1>2. ASSUME pc'[c] = label, todo'[c] = {}, wrote'[c] = {}, held'[c] = {}
      PROVE  Locking(c)' /\ Kinds(c)' /\ InOrder(c)' /\ TagsFirst(c)' /\ OnTime(c)'
  BY <1>1, <1>2 DEF Locking, Kinds, InOrder, TagsFirst, OnTime, TagsLooked, VectorsLooked, Fixing
<1> QED
  BY <1>2, OwnOrder DEF Leave

(* A statement that only locks. *)
LEMMA TakeOrder ==
    ASSUME IInv, OrderInv, NEW c \in Calls, NEW from, NEW to, Take(c, from, to),
           \/ from = "init memories" /\ to = "init chunks"
           \/ from \in Rebuilds /\ to \in Rebuilds
    PROVE  OrderInv'
<1>0. /\ TypeOK /\ Placed(c) /\ Locking(c) /\ pc[c] = from /\ Goto(c, to)
      /\ UNCHANGED <<setting, memory, facts, todo, wrote, late>>
      /\ held' = [held EXCEPT ![c] = held[c] \cup Needs(c)]
  BY DEF IInv, OrderInv, Take, Execute
<1>1. todo[c] = {} /\ wrote[c] = {} /\ UNCHANGED tool /\ tool[c] # "remember"
  BY <1>0 DEF Placed, Fixing, Passes, Rebuilds, setting
<1>2. todo' = [todo EXCEPT ![c] = {}] /\ wrote' = [wrote EXCEPT ![c] = {}]
  BY <1>0, <1>1 DEF TypeOK
<1>3. ASSUME pc'[c] = to, todo'[c] = {}, wrote'[c] = {}, held'[c] = held[c] \cup Needs(c)
      PROVE  Locking(c)' /\ Kinds(c)' /\ InOrder(c)' /\ TagsFirst(c)' /\ OnTime(c)'
  <2>1. Kinds(c)' /\ InOrder(c)' /\ TagsFirst(c)' /\ OnTime(c)'
    BY <1>0, <1>1, <1>3 DEF Kinds, InOrder, TagsFirst, OnTime, TagsLooked, VectorsLooked, Rebuilds
  <2>2. CASE from = "init memories" /\ to = "init chunks"
    <3>1. Needs(c) = {Lock("share", "memories")}
      BY <1>0, <2>2 DEF Needs
    <3>2. ~ Rebuilding(c)
      BY <1>0, <2>2 DEF Rebuilding
    <3>3. \A b \in held[c] :
             /\ b.mode \notin {"index", "vacuum"} /\ b # Lock("share", "chunks")
             /\ b # Lock("write", "memories") /\ b # Lock("write", "chunks")
      BY <1>0, <2>2, <3>2 DEF Locking, MemoriesWritten, ChunksLooked
    <3>4. /\ Lock("share", "memories").mode = "share"
          /\ Lock("share", "memories") # Lock("share", "chunks")
          /\ Lock("share", "memories") # Lock("write", "memories")
          /\ Lock("share", "memories") # Lock("write", "chunks")
      BY DEF Lock
    <3>5. Locking(c)'
      BY <1>3, <2>2, <3>1, <3>3, <3>4 DEF Locking
    <3> QED
      BY <2>1, <3>5
  <2>3. CASE from \in Rebuilds /\ to \in Rebuilds
    <3>1. Rebuilding(c)'
      BY <1>0, <1>1, <1>3, <2>3 DEF Rebuilding, Placed, Rebuilds
    <3>2. \A b \in held[c] : b # Lock("write", "memories") /\ b # Lock("write", "chunks")
      BY <1>0, <2>3 DEF Locking, MemoriesWritten, ChunksLooked, Rebuilds
    <3>3. \A b \in Needs(c) : b # Lock("write", "memories") /\ b # Lock("write", "chunks")
      <4>1. \A b \in Needs(c) : \E mode \in {"read", "share", "index", "vacuum"}, t \in Tables :
               b = Lock(mode, t)
        BY <1>0, <2>3 DEF Needs, Rebuilds, Tables
      <4>2. \A mode \in {"read", "share", "index", "vacuum"}, t \in Tables :
               Lock(mode, t) # Lock("write", "memories") /\ Lock(mode, t) # Lock("write", "chunks")
        BY DEF Lock
      <4> QED
        BY <4>1, <4>2
    <3>4. to # "idle"
      BY <2>3 DEF Rebuilds
    <3> QED
      BY <1>3, <2>1, <3>1, <3>2, <3>3, <3>4 DEF Locking
  <2> QED
    BY <2>2, <2>3
<1> QED
  BY <1>0, <1>1, <1>2, <1>3, OwnOrder

LEMMA StartOrder ==
    ASSUME IInv, OrderInv, NEW c \in Calls, Start(c)
    PROVE  OrderInv'
<1> DEFINE label == IF tool[c] = "remember" THEN "ask" ELSE "init memories"
<1>0. /\ TypeOK /\ Placed(c) /\ Locking(c) /\ pc[c] = "idle" /\ Goto(c, label)
      /\ UNCHANGED <<setting, memory, facts, todo, wrote, held, late>>
  BY DEF IInv, OrderInv, Start
<1>1. todo[c] = {} /\ wrote[c] = {} /\ held[c] = {} /\ UNCHANGED tool
  BY <1>0 DEF Placed, Fixing, Passes, Locking, setting
<1>2. /\ todo' = [todo EXCEPT ![c] = {}] /\ wrote' = [wrote EXCEPT ![c] = {}]
      /\ held' = [held EXCEPT ![c] = {}]
  BY <1>0, <1>1 DEF TypeOK
<1>3. ASSUME pc'[c] = label, todo'[c] = {}, wrote'[c] = {}, held'[c] = {}
      PROVE  Locking(c)' /\ Kinds(c)' /\ InOrder(c)' /\ TagsFirst(c)' /\ OnTime(c)'
  BY <1>1, <1>3 DEF Locking, Kinds, InOrder, TagsFirst, OnTime, TagsLooked, VectorsLooked
<1>4. pc[c] \notin Ended
  BY <1>0 DEF Ended
<1> HIDE DEF label
<1> QED
  BY <1>0, <1>2, <1>3, <1>4, OwnOrder

(* The passes of a repair, each with the facts it is about. *)
PassOf(look, fix, next, kind) ==
    \/ look = "look tags" /\ fix = "fix tags" /\ next = "look vector" /\ kind = "tags"
    \/ look = "look vector" /\ fix = "fix vector" /\ next = "look chunks" /\ kind = "vector"
    \/ look = "look chunks" /\ fix = "fix chunks" /\ next = "commit" /\ kind = "chunk"

LEMMA LookOrder ==
    ASSUME IInv, OrderInv, NEW c \in Calls, NEW look, NEW work \in SUBSET Facts, NEW fix, NEW next,
           NEW kind, PassOf(look, fix, next, kind), Look(c, look, work, fix, next),
           \A f \in work : f[1] = kind,
           \A m \in Memories : Tags(m) \in work => memory[m] # "absent" /\ m \notin neat,
           kind # "tags" => \A m \in Live : Tags(m) \in wrote[c] =>
                               Vector(m) \in Seen(c) \cup Zero \cup work,
           ~ late[c] => /\ \A m \in Live : m \in neat \/ Tags(m) \in Seen(c) \cup Zero \cup work
                        /\ \A m \in Memories : Vector(m) \in work \ Zero =>
                              m \in neat \/ Tags(m) \in wrote[c] \cup Zero
    PROVE  OrderInv'
<1> DEFINE label == IF work = {} THEN next ELSE fix
<1>0. /\ TypeOK /\ Placed(c) /\ Locking(c) /\ Kinds(c) /\ pc[c] = look /\ Goto(c, label)
      /\ todo' = [todo EXCEPT ![c] = work] /\ UNCHANGED <<setting, memory, facts, wrote, late>>
      /\ held' = [held EXCEPT ![c] = held[c] \cup Needs(c)]
  BY DEF IInv, OrderInv, Look, Execute, Continue
<1>1. tool[c] = "repair" /\ UNCHANGED <<tool, neat>> /\ Live' = Live
  BY <1>0 DEF PassOf, Placed, Passes, setting, Live
<1>2. wrote' = [wrote EXCEPT ![c] = wrote[c]] /\ wrote[c] \in SUBSET Facts
  BY <1>0 DEF TypeOK
<1>3. label \in {fix, next} /\ (label = next => work = {})
  BY DEF PassOf
<1>4. ASSUME pc'[c] = label, todo'[c] = work, wrote'[c] = wrote[c],
             held'[c] = held[c] \cup Needs(c)
      PROVE  Locking(c)' /\ Kinds(c)' /\ InOrder(c)' /\ TagsFirst(c)' /\ OnTime(c)'
  <2>1. Locking(c)'
    <3>1. \A b \in Needs(c) : \E t \in Tables : b = Lock("read", t)
      BY <1>0 DEF PassOf, Needs, Tables
    <3>2. \A t \in Tables : Lock("read", t).mode = "read"
      BY DEF Lock
    <3>3. \A b \in Needs(c) : b.mode = "read"
      BY <3>1, <3>2
    <3>4. /\ Lock("share", "memories").mode = "share" /\ Lock("share", "chunks").mode = "share"
          /\ Lock("write", "memories").mode = "write" /\ Lock("write", "chunks").mode = "write"
      BY DEF Lock
    <3>5. \A b \in held[c] :
             /\ b.mode \notin {"index", "vacuum"} /\ b # Lock("share", "chunks")
             /\ b # Lock("share", "memories") /\ b # Lock("write", "chunks")
             /\ b = Lock("write", "memories") => look # "look tags"
      BY <1>0, <1>1 DEF PassOf, Locking, Rebuilding, ChunksLooked, MemoriesWritten
    <3>6. look # "look tags" => label \in MemoriesWritten
      BY <1>3 DEF PassOf, MemoriesWritten
    <3>7. label # "idle"
      BY <1>3 DEF PassOf
    <3> HIDE DEF label
    <3> QED
      BY <1>4, <3>3, <3>4, <3>5, <3>6, <3>7 DEF Locking
  <2>2. Kinds(c)'
    <3>1. \A g \in wrote[c] :
             /\ g[1] = "tags" => look # "look tags"
             /\ g[1] = "vector" => look = "look chunks"
             /\ g[1] # "chunk"
      BY <1>0, <1>2, FactKinds DEF PassOf, Kinds, TagsLooked, VectorsLooked, ChunksLooked
    <3>2. /\ look # "look tags" => label \in TagsLooked
          /\ look = "look chunks" => label \in VectorsLooked
      BY <1>3 DEF PassOf, TagsLooked, VectorsLooked
    <3>3. /\ label = "fix tags" => kind = "tags"
          /\ label = "fix vector" => kind = "vector"
          /\ label = "fix chunks" => kind = "chunk"
      BY <1>3 DEF PassOf
    <3> HIDE DEF label
    <3> QED
      BY <1>0, <1>1, <1>4, <3>1, <3>2, <3>3 DEF Kinds
  <2>3. InOrder(c)'
    <3>1. \A g \in wrote[c] : g[1] # kind
      BY <1>0, <1>2, FactKinds DEF PassOf, Kinds, TagsLooked, VectorsLooked, ChunksLooked
    <3> QED
      BY <1>4, <3>1 DEF InOrder
  <2>4. TagsFirst(c)' /\ OnTime(c)'
    <3>1. Settled(c)' = Seen(c) \cup Zero \cup work
      BY <1>0, <1>4 DEF Settled, Seen
    <3>2. label \in VectorsLooked => kind # "tags"
      BY <1>3 DEF PassOf, VectorsLooked
    <3> HIDE DEF label
    <3> QED
      BY <1>0, <1>1, <1>4, <3>1, <3>2 DEF TagsFirst, OnTime
  <2> QED
    BY <2>1, <2>2, <2>3, <2>4
<1>5. \A d \in Calls \ {c} : tool[d] = "repair" => \A g \in wrote[c], h \in wrote[d] : ~ SameRow(g, h)
  BY <1>1 DEF OrderInv, Apart
<1> HIDE DEF label
<1> QED
  BY <1>0, <1>1, <1>2, <1>4, <1>5, OwnOrder

LEMMA FixOrder ==
    ASSUME IInv, OrderInv, NEW c \in Calls, NEW look, NEW fix, NEW next, NEW kind,
           PassOf(look, fix, next, kind), Fix(c, fix, next)
    PROVE  OrderInv'
<1>0. /\ TypeOK /\ Placed(c) /\ Locking(c) /\ Kinds(c) /\ InOrder(c) /\ TagsFirst(c) /\ OnTime(c)
      /\ pc[c] = fix /\ UNCHANGED <<setting, memory, facts, late>>
  BY DEF IInv, OrderInv, Fix
<1>1. tool[c] = "repair" /\ UNCHANGED <<tool, neat>> /\ Live' = Live
  BY <1>0 DEF PassOf, Placed, Passes, setting, Live
<1>2. PICK f \in Due(c) :
         \/ /\ f \in Zero
            /\ Continue(c, todo[c] \ {f}, fix, next)
            /\ UNCHANGED <<wrote, held>>
         \/ Leave(c, "rejected")
         \/ /\ f \notin Zero
            /\ Execute(c)
            /\ wrote' = [wrote EXCEPT ![c] = @ \cup Changes(f)]
            /\ Continue(c, todo[c] \ {f}, fix, next)
  BY DEF Fix
<1> DEFINE rows == todo[c] \ {f}
           label == IF rows = {} THEN next ELSE fix
<1>3. /\ f \in todo[c] /\ f \in Facts /\ \A g \in todo[c] : g \in Facts /\ ~ Before(g, f)
      /\ \A g \in todo[c] : g[1] = kind
  BY <1>0 DEF Due, TypeOK, Kinds, PassOf
<1>4. label \in {fix, next} /\ (label = next => rows = {})
  BY DEF PassOf
<1>5. CASE Leave(c, "rejected")
  BY <1>0, <1>5, LeaveOrder DEF TagsLooked, Fixing, Ended
<1>6. ASSUME NEW mine \in SUBSET (wrote[c] \cup {f}), wrote' = [wrote EXCEPT ![c] = mine],
             NEW locks \in SUBSET (held[c] \cup Needs(c)), held' = [held EXCEPT ![c] = locks],
             Continue(c, rows, fix, next), wrote[c] \subseteq mine,
             f \in facts \cup mine \cup Zero, f \in mine => f \in wrote[c] \/ f \notin Zero,
             \A d \in Calls \ {c} : tool[d] = "repair" =>
                \A h \in wrote[d] : f \in mine \ wrote[c] => ~ SameRow(f, h)
      PROVE  OrderInv'
  <2>1. Goto(c, label) /\ todo' = [todo EXCEPT ![c] = rows]
    BY <1>6 DEF Continue
  <2>2. ASSUME pc'[c] = label, todo'[c] = rows, wrote'[c] = mine, held'[c] = locks
        PROVE  Locking(c)' /\ Kinds(c)' /\ InOrder(c)' /\ TagsFirst(c)' /\ OnTime(c)'
    <3>1. Locking(c)'
      <4>1. \/ kind # "chunk" /\ Needs(c) = {Lock("write", "memories")}
            \/ kind = "chunk" /\ Needs(c) = {Lock("write", "chunks")}
        BY <1>0 DEF PassOf, Needs
      <4>2. /\ Lock("write", "memories").mode = "write" /\ Lock("write", "chunks").mode = "write"
            /\ Lock("share", "memories").mode = "share" /\ Lock("share", "chunks").mode = "share"
            /\ Lock("write", "memories") # Lock("write", "chunks")
        BY DEF Lock
      <4>3. \A b \in held[c] :
               /\ b.mode \notin {"index", "vacuum"} /\ b # Lock("share", "chunks")
               /\ b # Lock("share", "memories")
               /\ b = Lock("write", "chunks") => kind = "chunk"
        BY <1>0, <1>1 DEF PassOf, Locking, Rebuilding, ChunksLooked
      <4>4. /\ label \in MemoriesWritten /\ label # "idle"
            /\ kind = "chunk" => label \in ChunksLooked
        BY <1>4 DEF PassOf, MemoriesWritten, ChunksLooked
      <4> HIDE DEF label
      <4> QED
        BY <1>6, <2>2, <4>1, <4>2, <4>3, <4>4 DEF Locking
    <3>2. Kinds(c)'
      <4>1. \A g \in wrote[c] :
               /\ g[1] = "tags" => fix \in TagsLooked \cup {"cut"}
               /\ g[1] = "vector" => fix \in VectorsLooked
               /\ g[1] = "chunk" => fix \in ChunksLooked
        BY <1>0 DEF Kinds
      <4>2. /\ \A g \in mine : /\ g[1] = "tags" => label \in TagsLooked
                               /\ g[1] = "vector" => label \in VectorsLooked
                               /\ g[1] = "chunk" => label \in ChunksLooked
        <5>1. /\ fix \in TagsLooked \cup {"cut"} => label \in TagsLooked
              /\ fix \in VectorsLooked => label \in VectorsLooked
              /\ fix \in ChunksLooked => label \in ChunksLooked
          BY <1>4 DEF PassOf, TagsLooked, VectorsLooked, ChunksLooked
        <5>2. /\ kind = "tags" => label \in TagsLooked
              /\ kind = "vector" => label \in VectorsLooked
              /\ kind = "chunk" => label \in ChunksLooked
          BY <1>4 DEF PassOf, TagsLooked, VectorsLooked, ChunksLooked
        <5> HIDE DEF label
        <5> QED
          BY <1>3, <1>6, <4>1, <5>1, <5>2
      <4>3. /\ label = "fix tags" => kind = "tags"
            /\ label = "fix vector" => kind = "vector"
            /\ label = "fix chunks" => kind = "chunk"
        BY <1>4 DEF PassOf
      <4>4. mine \cap Zero = {}
        BY <1>0, <1>1, <1>6 DEF Kinds
      <4>5. \A m \in Memories : Tags(m) \in mine \cup rows => memory[m] # "absent" /\ m \notin neat
        BY <1>0, <1>1, <1>3, <1>6 DEF Kinds
      <4>6. \A g \in rows : g[1] = kind
        BY <1>3
      <4> HIDE DEF label, rows
      <4> QED
        BY <1>0, <1>1, <2>2, <4>2, <4>3, <4>4, <4>5, <4>6 DEF Kinds
    <3>3. InOrder(c)'
      <4>1. \A h \in rows : h # f /\ h \in Facts /\ h[1] = f[1] /\ ~ Before(h, f)
        BY <1>3
      <4>2. \A h \in rows : Before(f, h)
        BY <1>3, <4>1, KindOrder
      <4>3. \A g \in wrote[c], h \in rows : g[1] = h[1] => Before(g, h)
        BY <1>0 DEF InOrder
      <4> HIDE DEF rows, label
      <4> QED
        BY <1>6, <2>2, <4>2, <4>3 DEF InOrder
    <3>4. Settled(c) \subseteq Settled(c)'
      BY <1>0, <1>6, <2>2 DEF Settled, Seen
    <3>5. TagsFirst(c)'
      <4>1. label \in VectorsLooked => kind # "tags" /\ fix \in VectorsLooked
        BY <1>4 DEF PassOf, VectorsLooked
      <4>2. \A m \in Memories : Tags(m)[1] = "tags"
        BY DEF Tags
      <4>3. kind # "tags" => \A m \in Live : Tags(m) \in mine => Tags(m) \in wrote[c]
        BY <1>3, <1>6, <4>2 DEF Live
      <4> HIDE DEF label
      <4> QED
        BY <1>0, <1>1, <2>2, <3>4, <4>1, <4>3 DEF TagsFirst
    <3>6. OnTime(c)'
      <4>1. fix \in TagsLooked
        BY DEF PassOf, TagsLooked
      <4> HIDE DEF label
      <4> QED
        BY <1>0, <1>1, <1>6, <2>2, <3>4, <4>1 DEF OnTime
    <3> QED
      BY <3>1, <3>2, <3>3, <3>5, <3>6
  <2>3. \A d \in Calls \ {c} : tool[d] = "repair" => \A g \in mine, h \in wrote[d] : ~ SameRow(g, h)
    BY <1>1, <1>6 DEF OrderInv, Apart
  <2> HIDE DEF label, rows
  <2> QED
    BY <1>0, <1>1, <1>6, <2>1, <2>2, <2>3, OwnOrder
<1>7. CASE f \in Zero /\ Continue(c, rows, fix, next) /\ UNCHANGED <<wrote, held>>
  <2>1. wrote' = [wrote EXCEPT ![c] = wrote[c]] /\ held' = [held EXCEPT ![c] = held[c]]
    BY <1>0, <1>7 DEF TypeOK
  <2> HIDE DEF rows
  <2> QED
    BY <1>6, <1>7, <2>1
<1>8. CASE /\ f \notin Zero
           /\ Execute(c)
           /\ wrote' = [wrote EXCEPT ![c] = @ \cup Changes(f)]
           /\ Continue(c, rows, fix, next)
  <2> DEFINE mine == wrote[c] \cup Changes(f)
  <2>1. Changes(f) \subseteq {f} /\ f \in facts \cup Changes(f)
    BY DEF Changes
  <2>2. mine \in SUBSET (wrote[c] \cup {f}) /\ wrote[c] \subseteq mine /\ f \in facts \cup mine \cup Zero
    BY <2>1
  <2>3. wrote' = [wrote EXCEPT ![c] = mine] /\ held' = [held EXCEPT ![c] = held[c] \cup Needs(c)]
    BY <1>8 DEF Execute
  <2>4. \A d \in Calls \ {c} : \A h \in wrote[d] : ~ SameRow(f, h)
    <3>1. f \in RowsNeeded(c)
      BY <1>0, <1>2, <1>8 DEF PassOf, RowsNeeded
    <3> QED
      BY <1>8, <3>1 DEF Execute, Blockers
  <2> HIDE DEF mine, rows
  <2> QED
    BY <1>6, <1>8, <2>2, <2>3, <2>4
<1> QED
  BY <1>2, <1>5, <1>7, <1>8

LEMMA RepairOrder == ASSUME IInv, OrderInv, NEW c \in Calls, Repair(c) PROVE OrderInv'
<1>0. /\ Placed(c) /\ Kinds(c) /\ TagsFirst(c) /\ OnTime(c) /\ TagsThenVector
      /\ Live \subseteq Memories /\ facts \subseteq Facts
  BY DEF IInv, OrderInv, TypeOK, Live
<1>1. \A m \in Memories : /\ Tags(m)[1] = "tags" /\ Vector(m)[1] = "vector"
                          /\ \A f \in Chunks(m) : f[1] = "chunk"
  BY DEF Tags, Vector, Chunks
<1>2. CASE Look(c, "look tags", CorruptTags(c), "fix tags", "look vector")
  <2>1. PassOf("look tags", "fix tags", "look vector", "tags")
    BY DEF PassOf
  <2>2. CorruptTags(c) \in SUBSET Facts /\ \A f \in CorruptTags(c) : f[1] = "tags"
    BY <1>0, <1>1, FactsFacts DEF CorruptTags
  <2>3. ASSUME NEW m \in Memories, Tags(m) \in CorruptTags(c)
        PROVE  memory[m] # "absent" /\ m \notin neat
    <3>1. PICK n \in Live : Tags(m) = Tags(n) /\ Tags(n) \notin facts
      BY <2>3 DEF CorruptTags, Seen
    <3>2. m = n
      BY <3>1 DEF Tags
    <3> QED
      BY <1>0, <3>1, <3>2 DEF TagsThenVector, Live
  <2>4. \A m \in Live : Tags(m) \in Seen(c) \cup CorruptTags(c)
    BY DEF CorruptTags
  <2>5. \A m \in Memories : Vector(m) \notin CorruptTags(c)
    BY <1>1, <2>2
  <2> QED
    BY <1>2, <2>1, <2>2, <2>3, <2>4, <2>5, LookOrder
<1>3. CASE Look(c, "look vector", MissingVectors(c), "fix vector", "look chunks")
  <2>1. PassOf("look vector", "fix vector", "look chunks", "vector")
    BY DEF PassOf
  <2>2. MissingVectors(c) \in SUBSET Facts /\ \A f \in MissingVectors(c) : f[1] = "vector"
    BY <1>0, <1>1, FactsFacts DEF MissingVectors
  <2>3. \A m \in Memories : Tags(m) \notin MissingVectors(c)
    BY <1>1, <2>2
  <2>4. \A m \in Live : Vector(m) \in Seen(c) \cup MissingVectors(c)
    BY DEF MissingVectors
  <2>5. pc[c] = "look vector" /\ tool[c] = "repair" /\ todo[c] = {}
    BY <1>0, <1>3 DEF Look, Placed, Passes, Fixing
  <2>6. ~ late[c] => \A m \in Live : m \in neat \/ Tags(m) \in Seen(c) \cup Zero
    BY <1>0, <2>5 DEF OnTime, TagsLooked, Settled
  <2>7. ASSUME ~ late[c], NEW m \in Memories, Vector(m) \in MissingVectors(c) \ Zero
        PROVE  m \in neat \/ Tags(m) \in wrote[c] \cup Zero
    <3>1. PICK n \in Live : Vector(m) = Vector(n) /\ Vector(n) \notin facts
      BY <2>7 DEF MissingVectors, Seen
    <3>2. m = n
      BY <3>1 DEF Vector
    <3>3. m \in neat \/ Tags(m) \notin facts
      BY <1>0, <2>7, <3>1, <3>2 DEF TagsThenVector, Live
    <3> QED
      BY <2>6, <2>7, <3>1, <3>2, <3>3 DEF Seen
  <2> QED
    BY <1>3, <2>1, <2>2, <2>3, <2>4, <2>6, <2>7, LookOrder
<1>4. CASE Look(c, "look chunks", MissingChunks(c), "fix chunks", "commit")
  <2>1. PassOf("look chunks", "fix chunks", "commit", "chunk")
    BY DEF PassOf
  <2>2. MissingChunks(c) \in SUBSET Facts /\ \A f \in MissingChunks(c) : f[1] = "chunk"
    BY <1>0, <1>1, FactsFacts DEF MissingChunks
  <2>3. \A m \in Memories : Tags(m) \notin MissingChunks(c) /\ Vector(m) \notin MissingChunks(c)
    BY <1>1, <2>2
  <2>4. pc[c] = "look chunks" /\ tool[c] = "repair" /\ todo[c] = {}
    BY <1>0, <1>4 DEF Look, Placed, Passes, Fixing
  <2>5. \A m \in Live : Tags(m) \in wrote[c] => Vector(m) \in Seen(c) \cup Zero
    BY <1>0, <2>4 DEF TagsFirst, VectorsLooked, Settled
  <2>6. ~ late[c] => \A m \in Live : m \in neat \/ Tags(m) \in Seen(c) \cup Zero
    BY <1>0, <2>4 DEF OnTime, TagsLooked, Settled
  <2> QED
    BY <1>4, <2>1, <2>2, <2>3, <2>5, <2>6, LookOrder
<1>5. CASE Fix(c, "fix tags", "look vector") \/ Fix(c, "fix vector", "look chunks")
           \/ Fix(c, "fix chunks", "commit")
  <2>1. /\ PassOf("look tags", "fix tags", "look vector", "tags")
        /\ PassOf("look vector", "fix vector", "look chunks", "vector")
        /\ PassOf("look chunks", "fix chunks", "commit", "chunk")
    BY DEF PassOf
  <2> QED
    BY <1>5, <2>1, FixOrder
<1> QED
  BY <1>2, <1>3, <1>4, <1>5 DEF Repair

LEMMA RememberOrder == ASSUME IInv, OrderInv, NEW c \in Calls, Remember(c) PROVE OrderInv'
<1> DEFINE new == NewId[c]
<1>0. /\ TypeOK /\ Placed(c) /\ Locking(c) /\ Kinds(c) /\ pc[c] \in Inserts
      /\ UNCHANGED <<setting, memory, facts, todo, late>>
      /\ held' = [held EXCEPT ![c] = held[c] \cup Needs(c)]
      /\ new \in Memories
  BY MaintenanceAssumption DEF IInv, OrderInv, Remember, Execute, Inserts
<1>1. /\ tool[c] = "remember" /\ UNCHANGED <<tool, neat>> /\ todo[c] = {}
      /\ todo' = [todo EXCEPT ![c] = {}] /\ pc[c] \notin Ended
  BY <1>0 DEF Placed, Inserts, Fixing, TypeOK, setting, Ended
<1>2. \A m \in Memories : /\ Tags(m)[1] = "tags" /\ Vector(m)[1] = "vector"
                          /\ \A f \in Chunks(m) : f[1] = "chunk"
                          /\ (Tags(m) \in NeatTags({new}) <=> m = new /\ m \in neat)
                          /\ \A f \in NeatTags({new}) : f[1] = "tags"
  BY <1>0 DEF Tags, Vector, Chunks, NeatTags
<1>3. ASSUME NEW label \in {"insert", "cut", "commit"}, NEW mine, Goto(c, label),
             wrote' = [wrote EXCEPT ![c] = mine],
             \/ label = "insert" /\ pc[c] = "ask" /\ mine = {}
             \/ label = "cut" /\ pc[c] = "insert" /\ mine = NeatTags({new})
             \/ label = "commit" /\ pc[c] = "cut"
                /\ mine = wrote[c] \cup Chunks(new) \cup {Vector(m) : m \in {new} \ Vast}
      PROVE  OrderInv'
  <2>1. ASSUME pc'[c] = label, todo'[c] = {}, wrote'[c] = mine,
               held'[c] = held[c] \cup Needs(c)
        PROVE  Locking(c)' /\ Kinds(c)' /\ InOrder(c)' /\ TagsFirst(c)' /\ OnTime(c)'
    <3>1. InOrder(c)' /\ TagsFirst(c)' /\ OnTime(c)'
      BY <1>1, <2>1 DEF InOrder, TagsFirst, OnTime
    <3>2. Locking(c)'
      <4>1. \/ label = "insert" /\ Needs(c) = {Lock("read", "memories")}
            \/ label = "cut" /\ Needs(c) = {Lock("write", "memories")}
            \/ label = "commit" /\ Needs(c) = {Lock("write", "chunks")}
        BY <1>3 DEF Needs
      <4>2. /\ Lock("read", "memories").mode = "read"
            /\ Lock("write", "memories").mode = "write" /\ Lock("write", "chunks").mode = "write"
            /\ Lock("share", "memories").mode = "share" /\ Lock("share", "chunks").mode = "share"
            /\ Lock("write", "memories") # Lock("write", "chunks")
        BY DEF Lock
      <4>3. \A b \in held[c] :
               /\ b.mode \notin {"index", "vacuum"} /\ b # Lock("share", "chunks")
               /\ b # Lock("share", "memories") /\ b # Lock("write", "chunks")
               /\ b = Lock("write", "memories") => pc[c] = "cut"
        BY <1>0, <1>1 DEF Locking, Rebuilding, ChunksLooked, MemoriesWritten, Inserts
      <4>4. /\ label # "insert" => label \in MemoriesWritten
            /\ label = "commit" => label \in ChunksLooked
        BY DEF MemoriesWritten, ChunksLooked
      <4> QED
        BY <1>3, <2>1, <4>1, <4>2, <4>3, <4>4 DEF Locking
    <3>3. Kinds(c)'
      <4>1. /\ \A g \in mine : /\ g[1] = "tags" => label \in TagsLooked \cup {"cut"}
                               /\ g[1] = "vector" => label \in VectorsLooked
                               /\ g[1] = "chunk" => label \in ChunksLooked
        BY <1>0, <1>2, <1>3 DEF TagsLooked, VectorsLooked, ChunksLooked
      <4>2. \A m \in Memories : Tags(m) \in mine => m = new /\ m \in neat
        <5>1. \A m \in Memories : /\ Tags(m) \notin Chunks(new)
                                  /\ Tags(m) \notin {Vector(n) : n \in {new} \ Vast}
          BY <1>0, <1>2
        <5>2. \A m \in Memories : Tags(m) \in wrote[c] => m = new /\ m \in neat
          BY <1>0, <1>1 DEF Kinds
        <5> QED
          BY <1>2, <1>3, <5>1, <5>2
      <4>3. label \in {"cut", "commit"} /\ new \in neat => Tags(new) \in mine
        BY <1>0, <1>1, <1>2, <1>3 DEF Kinds
      <4> QED
        BY <1>1, <2>1, <4>1, <4>2, <4>3 DEF Kinds
    <3> QED
      BY <3>1, <3>2, <3>3
  <2> QED
    BY <1>0, <1>1, <1>3, <2>1, OwnOrder
<1>4. CASE pc[c] = "ask" /\ Goto(c, "insert") /\ UNCHANGED wrote
  <2>1. wrote[c] = {}
    BY <1>0, <1>4 DEF Placed, Passes
  <2>2. wrote' = [wrote EXCEPT ![c] = {}]
    BY <1>0, <1>4, <2>1 DEF TypeOK
  <2> QED
    BY <1>3, <1>4, <2>2
<1>5. CASE pc[c] = "insert" /\ Goto(c, "cut") /\ wrote' = [wrote EXCEPT ![c] = NeatTags({new})]
  BY <1>3, <1>5
<1>6. CASE /\ pc[c] = "cut" /\ Goto(c, "commit")
           /\ wrote' = [wrote EXCEPT ![c] = @ \cup Chunks(new)
                           \cup {Vector(m) : m \in {new} \ Vast}]
  BY <1>3, <1>6
<1> QED
  BY <1>4, <1>5, <1>6 DEF Remember

LEMMA CommitOrder == ASSUME IInv, OrderInv, NEW c \in Calls, Commit(c) PROVE OrderInv'
<1>0. /\ TypeOK /\ Placed(c) /\ Kinds(c) /\ TagsFirst(c) /\ Apart /\ TagsThenVector
      /\ pc[c] = "commit" /\ UNCHANGED <<tool, neat>> /\ facts' = facts \cup wrote[c]
      /\ Fresh(c) /\ pc[c] \notin Ended
      /\ \A m \in Memories : memory'[m] = IF tool[c] = "remember" /\ m = NewId[c] THEN "live" ELSE memory[m]
  BY DEF IInv, OrderInv, Commit, setting, Ended
<1>1. /\ pc'[c] = "done" /\ todo'[c] = {} /\ wrote'[c] = {} /\ held'[c] = {}
      /\ \A d \in Calls \ {c} : pc'[d] = pc[d] /\ todo'[d] = todo[d] /\ wrote'[d] = wrote[d]
                                /\ held'[d] = held[d]
  BY <1>0 DEF Commit, Leave, Goto, TypeOK
<1>2. tool[c] \in {"repair", "remember"} /\ todo[c] = {} /\ NewId[c] \in Memories
  <2>1. tool[c] \in {"repair", "maintain", "remember"} /\ NewId[c] \in Memories
    BY <1>0, MaintenanceAssumption DEF TypeOK
  <2> QED
    BY <1>0, <2>1 DEF Kinds, Placed, Fixing
<1>3. \A m \in Live' : m \in Live \/ (tool[c] = "remember" /\ m = NewId[c] /\ memory[m] = "absent")
  BY <1>0, <1>2 DEF Live, Fresh
<1>4. \A m \in Memories : memory[m] # "absent" => memory'[m] # "absent"
  BY <1>0
<1>9. \A d \in Calls :
         late'[d] <=> late[d] \/ (tool[c] = "remember" /\ NewId[c] \notin neat /\ Selecting(d))
  BY DEF Commit, Overtake
<1>10. ASSUME NEW d \in Calls PROVE Fresh(d)'
  <2>1. CASE d = c
    BY <1>1, <2>1 DEF Fresh, Ended
  <2>2. CASE d # c
    <3>1. tool[c] = "remember" /\ tool[d] = "remember" => NewId[c] # NewId[d]
      BY <1>0, <2>2, MaintenanceAssumption DEF TypeOK
    <3>2. NewId[d] \in Memories
      BY MaintenanceAssumption
    <3> QED
      BY <1>0, <1>1, <2>2, <3>1, <3>2 DEF OrderInv, Fresh
  <2> QED
    BY <2>1, <2>2
<1>5. Locking(c)' /\ Kinds(c)' /\ InOrder(c)' /\ TagsFirst(c)' /\ OnTime(c)'
  BY <1>1 DEF Locking, Kinds, InOrder, TagsFirst, OnTime, TagsLooked, VectorsLooked
<1>6. ASSUME NEW d \in Calls \ {c}
      PROVE  Locking(d)' /\ Kinds(d)' /\ InOrder(d)' /\ TagsFirst(d)' /\ OnTime(d)'
  <2>1. Locking(d) /\ Kinds(d) /\ InOrder(d) /\ TagsFirst(d) /\ OnTime(d)
    BY DEF OrderInv
  <2>2. Locking(d)' /\ InOrder(d)'
    BY <1>0, <1>1, <2>1 DEF Locking, Rebuilding, InOrder
  <2>3. Kinds(d)'
    BY <1>0, <1>1, <1>4, <2>1 DEF Kinds
  <2>4. Settled(d) \subseteq Settled(d)'
    BY <1>0, <1>1 DEF Settled, Seen
  <2>5. TagsFirst(d)'
    <3>1. tool[d] = "repair" => \A m \in Live' : Tags(m) \in wrote[d] => m \in Live
      BY <1>3, <2>1 DEF Kinds, Live
    <3> QED
      BY <1>0, <1>1, <2>1, <2>4, <3>1 DEF TagsFirst
  <2>6. OnTime(d)'
    <3>1. tool[d] = "repair" /\ pc[d] \in TagsLooked => Selecting(d)
      BY DEF Selecting, TagsLooked, Passes
    <3>2. ASSUME tool[d] = "repair", ~ late'[d], pc[d] \in TagsLooked, NEW m \in Live'
          PROVE  m \in neat \/ Tags(m) \in Settled(d)
      BY <1>3, <1>9, <2>1, <3>1, <3>2 DEF OnTime
    <3>3. ~ late'[d] => ~ late[d]
      BY <1>9
    <3> QED
      BY <1>0, <1>1, <2>1, <2>4, <3>2, <3>3 DEF OnTime
  <2> QED
    BY <2>2, <2>3, <2>5, <2>6
<1>7. Apart'
  BY <1>0, <1>1 DEF Apart
<1>8. TagsThenVector'
  <2>1. ASSUME NEW m \in Memories, m \notin neat, Tags(m) \in facts'
        PROVE  memory'[m] # "absent" /\ (memory'[m] = "live" => Vector(m) \in facts' \cup Zero)
    <3>2. CASE Tags(m) \in facts
      <4>1. memory[m] # "absent" /\ (memory[m] = "live" => Vector(m) \in facts \cup Zero)
        BY <1>0, <2>1, <3>2 DEF TagsThenVector
      <4>2. memory'[m] = memory[m]
        BY <1>0, <4>1 DEF Fresh
      <4> QED
        BY <1>0, <4>1, <4>2
    <3>3. CASE Tags(m) \in wrote[c]
      <4>1. tool[c] = "repair"
        BY <1>0, <1>2, <2>1, <3>3 DEF Kinds
      <4>4. memory'[m] = memory[m]
        BY <1>0, <4>1
      <4>2. memory[m] # "absent"
        BY <1>0, <3>3, <4>1 DEF Kinds
      <4>3. memory[m] = "live" => Vector(m) \in Settled(c)
        BY <1>0, <3>3, <4>1 DEF TagsFirst, VectorsLooked, Live
      <4> QED
        BY <1>0, <1>2, <4>2, <4>3, <4>4 DEF Settled, Seen
    <3> QED
      BY <1>0, <2>1, <3>2, <3>3
  <2>2. ASSUME NEW m \in Memories, m \in neat, memory'[m] # "absent" PROVE Tags(m) \in facts'
    BY <1>0, <2>2 DEF TagsThenVector, Kinds
  <2> QED
    BY <1>0, <2>1, <2>2 DEF TagsThenVector
<1> QED
  BY <1>5, <1>6, <1>7, <1>8, <1>10 DEF OrderInv

LEMMA RowOrder == ASSUME IInv, OrderInv, NEW m \in Memories, Forget(m) \/ Migrate(m) PROVE OrderInv'
<1>0. TypeOK /\ TagsThenVector /\ UNCHANGED <<tool, neat, pc, todo, wrote, held>>
  BY DEF IInv, OrderInv, Forget, Migrate, setting, calls
<1>1. Apart'
  BY <1>0 DEF OrderInv, Apart
<1>2. \A n \in Memories \ {m} : memory'[n] = memory[n]
  BY <1>0 DEF Forget, Migrate, TypeOK
<1>3. memory[m] # "absent" => /\ memory'[m] = "deleted" /\ UNCHANGED <<facts, late>>
                              /\ \A n \in Memories : memory[n] # "absent" => memory'[n] # "absent"
  BY <1>0, <1>2 DEF Forget, Migrate, TypeOK
<1>4. memory[m] = "absent" => /\ memory'[m] = "live" /\ m \notin Range(NewId)
                              /\ \A d \in Calls : late'[d] <=> late[d] \/ (m \notin neat /\ Selecting(d))
                              /\ facts' = facts \cup NeatTags({m})
  BY <1>0 DEF Forget, Migrate, TypeOK, Overtake
<1>7. \A n \in Memories : /\ Tags(n) \in NeatTags({m}) <=> n = m /\ n \in neat
                          /\ Vector(n) \notin NeatTags({m})
  BY DEF NeatTags, Tags, Vector
<1>5. TagsThenVector'
  <2>1. CASE memory[m] # "absent"
    BY <1>0, <1>2, <1>3, <2>1 DEF TagsThenVector
  <2>2. CASE memory[m] = "absent"
    <3>1. ASSUME NEW n \in Memories, n \notin neat, Tags(n) \in facts'
          PROVE  memory'[n] # "absent" /\ (memory'[n] = "live" => Vector(n) \in facts' \cup Zero)
      <4>1. Tags(n) \in facts
        BY <1>4, <1>7, <2>2, <3>1
      <4>2. n # m
        BY <1>0, <2>2, <3>1, <4>1 DEF TagsThenVector
      <4> QED
        BY <1>0, <1>2, <1>4, <2>2, <3>1, <4>1, <4>2 DEF TagsThenVector
    <3>2. ASSUME NEW n \in Memories, n \in neat, memory'[n] # "absent" PROVE Tags(n) \in facts'
      BY <1>0, <1>2, <1>4, <1>7, <2>2, <3>2 DEF TagsThenVector
    <3> QED
      BY <1>0, <3>1, <3>2 DEF TagsThenVector
  <2> QED
    BY <2>1, <2>2
<1>8. facts \subseteq facts'
  BY <1>3, <1>4
<1>9. ASSUME NEW d \in Calls PROVE Fresh(d)'
  <2>1. NewId[d] \in Memories /\ NewId[d] \in Range(NewId)
    BY MaintenanceAssumption DEF Range
  <2> QED
    BY <1>0, <1>2, <1>3, <1>4, <2>1 DEF OrderInv, Fresh
<1>6. ASSUME NEW d \in Calls
      PROVE  Locking(d)' /\ Kinds(d)' /\ InOrder(d)' /\ TagsFirst(d)' /\ OnTime(d)'
  <2>1. Locking(d) /\ Kinds(d) /\ InOrder(d) /\ TagsFirst(d) /\ OnTime(d)
    BY DEF OrderInv
  <2>2. Locking(d)' /\ InOrder(d)'
    BY <1>0, <2>1 DEF Locking, Rebuilding, InOrder
  <2>3. Kinds(d)'
    <3>1. \A n \in Memories : memory[n] # "absent" => memory'[n] # "absent"
      BY <1>2, <1>3, <1>4
    <3> QED
      BY <1>0, <2>1, <3>1 DEF Kinds
  <2>4. Settled(d) \subseteq Settled(d)'
    BY <1>0, <1>8 DEF Settled, Seen
  <2>5. TagsFirst(d)'
    <3>1. tool[d] = "repair" => \A n \in Live' : Tags(n) \in wrote[d] => n \in Live
      BY <1>2, <1>3, <1>4, <2>1 DEF Kinds, Live
    <3> QED
      BY <1>0, <2>1, <2>4, <3>1 DEF TagsFirst
  <2>6. OnTime(d)'
    <3>1. CASE memory[m] # "absent"
      <4>1. Live' \subseteq Live /\ UNCHANGED late
        BY <1>2, <1>3, <3>1 DEF Live
      <4> QED
        BY <1>0, <2>1, <2>4, <4>1 DEF OnTime
    <3>2. CASE memory[m] = "absent"
      <4>1. late'[d] <=> late[d] \/ (m \notin neat /\ Selecting(d))
        BY <1>4, <3>2
      <4>2. tool[d] = "repair" /\ pc[d] \in TagsLooked => Selecting(d)
        BY DEF Selecting, TagsLooked, Passes
      <4>3. \A n \in Live' : n = m \/ n \in Live
        BY <1>2 DEF Live
      <4>4. ASSUME tool[d] = "repair", ~ late'[d], pc[d] \in TagsLooked, NEW n \in Live'
            PROVE  n \in neat \/ Tags(n) \in Settled(d)
        BY <2>1, <4>1, <4>2, <4>3, <4>4 DEF OnTime
      <4> QED
        BY <1>0, <2>1, <2>4, <4>1, <4>4 DEF OnTime
    <3> QED
      BY <3>1, <3>2
  <2> QED
    BY <2>2, <2>3, <2>5, <2>6
<1> QED
  BY <1>1, <1>5, <1>6, <1>9 DEF OrderInv

LEMMA OrderInductive == IInv /\ OrderInv /\ [Next]_vars => OrderInv'
<1> SUFFICES ASSUME IInv, OrderInv, [Next]_vars PROVE OrderInv'
  OBVIOUS
<1>1. CASE UNCHANGED vars
  <2>1. UNCHANGED <<dim, tool, neat, memory, facts, pc, todo, wrote, held, late>>
    BY <1>1 DEF vars, setting, calls
  <2>2. Apart' /\ TagsThenVector'
    BY <2>1 DEF OrderInv, Apart, TagsThenVector
  <2>3. \A c \in Calls : Locking(c)' /\ InOrder(c)'
    BY <2>1 DEF OrderInv, Locking, InOrder, Rebuilding
  <2>4. \A c \in Calls : TagsFirst(c)' /\ OnTime(c)'
    BY <2>1 DEF OrderInv, TagsFirst, OnTime, Settled, Seen, Live
  <2>5. ASSUME NEW c \in Calls PROVE Kinds(c)'
    <3>1. Kinds(c)
      BY DEF OrderInv
    <3> QED
      BY <2>1, <3>1 DEF Kinds
  <2>6. \A c \in Calls : Fresh(c)'
    BY <2>1 DEF OrderInv, Fresh
  <2> QED
    BY <2>2, <2>3, <2>4, <2>5, <2>6 DEF OrderInv
<1>2. ASSUME NEW c \in Calls, Step(c) \/ Fail(c) \/ Detect(c) PROVE OrderInv'
  <2>1. CASE Initialize(c)
    <3>1. CASE Take(c, "init memories", "init chunks")
      BY <3>1, TakeOrder
    <3>2. CASE Alone(c, "init chunks", IF tool[c] = "repair" THEN "look tags" ELSE "find")
      <4> DEFINE label == IF tool[c] = "repair" THEN "look tags" ELSE "find"
      <4>1. label \notin TagsLooked \cup {"cut", "idle"} \cup Fixing
        BY DEF TagsLooked, Fixing
      <4>2. /\ Leave(c, label) /\ UNCHANGED <<setting, memory, facts, late>>
            /\ tool[c] # "remember"
        BY <3>2 DEF Alone, IInv, Placed
      <4> HIDE DEF label
      <4> QED
        BY <4>1, <4>2, LeaveOrder
    <3> QED
      BY <2>1, <3>1, <3>2 DEF Initialize
  <2>2. CASE Maintain(c)
    <3>1. ASSUME NEW label \in {"share memories", "vacuum", "done", "find again"}, Leave(c, label),
                 UNCHANGED <<setting, memory, facts, late>>
          PROVE  OrderInv'
      <4>1. label \notin TagsLooked \cup {"cut", "idle"} \cup Fixing
        BY DEF TagsLooked, Fixing
      <4>2. tool[c] # "remember"
        BY <2>2 DEF Maintain, Find, Take, Alone, IInv, Placed, Rebuilds
      <4> QED
        BY <3>1, <4>1, <4>2, LeaveOrder
    <3>2. ASSUME NEW from \in Rebuilds, NEW to \in Rebuilds, Take(c, from, to) PROVE OrderInv'
      BY <3>2, TakeOrder
    <3>3. {"share memories", "index memories", "share chunks", "index chunks"} \subseteq Rebuilds
      BY DEF Rebuilds
    <3>4. CASE \/ Find(c, "find", "share memories", "vacuum") \/ Find(c, "find again", "done", "done")
               \/ Alone(c, "index chunks", "vacuum") \/ Alone(c, "vacuum", "find again")
      BY <3>1, <3>4 DEF Find, Alone
    <3>5. CASE \/ Take(c, "share memories", "index memories")
               \/ Take(c, "index memories", "share chunks")
               \/ Take(c, "share chunks", "index chunks")
      BY <3>2, <3>3, <3>5
    <3> QED
      BY <2>2, <3>4, <3>5 DEF Maintain
  <2>3. CASE Fail(c) \/ Detect(c)
    <3>1. "raised" \notin TagsLooked \cup {"cut", "idle"} \cup Fixing /\ "raised" \in Ended
      BY DEF TagsLooked, Fixing, Ended
    <3> QED
      BY <2>3, <3>1, LeaveOrder DEF Fail, Detect
  <2> QED
    BY <1>2, <2>1, <2>2, <2>3, StartOrder, RepairOrder, RememberOrder, CommitOrder DEF Step
<1> QED
  BY <1>1, <1>2, RowOrder DEF Next

-----------------------------------------------------------------------------
(* Cycles.                                                                 *)

(* Somebody in a cycle waits for each of its calls. *)
LEMMA NoSource ==
    ASSUME NEW S \in Cycles, NEW c \in S
    PROVE  \E d \in S : c \in Blockers(d)
<1> SUFFICES ASSUME \A d \in S : c \notin Blockers(d) PROVE FALSE
  OBVIOUS
<1> DEFINE T == S \ {c}
<1>1. Stuck(S) /\ \A U \in SUBSET S : Stuck(U) => U = S
  BY DEF Cycles
<1>2. \A d \in S : \E e \in S : e \in Blockers(d) /\ e # d
  BY <1>1 DEF Stuck, Blockers
<1>3. T # {} /\ \A d \in T : Blockers(d) \cap T # {}
  BY <1>2
<1>4. Stuck(T)
  BY <1>3 DEF Stuck
<1> QED
  BY <1>1, <1>4

(* A set of numbers that is not empty has a least one. *)
LEMMA LeastExists ==
    ASSUME NEW S \in SUBSET Nat, S # {}
    PROVE  \E x \in S : \A y \in S : x <= y
<1>1. PICK x \in S : \A y \in S : ~ (<<y, x>> \in OpToRel(<, Nat))
  BY NatLessThanWellFounded, WFMin
<1>2. \A y \in S : ~ (y < x)
  BY <1>1, Zenon DEF OpToRel
<1> QED
  BY <1>2

(* A set of facts that is not empty has one that no other is before. *)
LEMMA FirstFact ==
    ASSUME NEW F \in SUBSET Facts, F # {}
    PROVE  \E f \in F : \A g \in F : ~ Before(g, f)
<1> DEFINE M == {f[2] : f \in F}
<1>1. M \in SUBSET Nat /\ M # {}
  BY FactKinds
<1>2. PICK m \in M : \A n \in M : m <= n
  BY <1>1, LeastExists
<1> DEFINE G == {f \in F : f[2] = m}
           I == {f[3] : f \in G}
<1>3. G # {} /\ I \in SUBSET Nat /\ I # {}
  BY <1>2, FactKinds
<1>4. PICK i \in I : \A j \in I : i <= j
  BY <1>3, LeastExists
<1>5. PICK f \in F : f[2] = m /\ f[3] = i
  BY <1>4
<1>6. ASSUME NEW g \in F PROVE ~ Before(g, f)
  <2>1. m <= g[2] /\ g[2] \in Nat /\ g[3] \in Nat /\ m \in Nat /\ i \in Nat
    BY <1>1, <1>2, <1>3, <1>4, FactKinds
  <2>2. g[2] = m => i <= g[3]
    BY <1>4
  <2> QED
    BY <1>5, <2>1, <2>2 DEF Before
<1> QED
  BY <1>6

(* No calls of one pass wait for one another: the one whose row comes first
   has changed none that another still waits for. *)
LEMMA NoChain ==
    ASSUME IInv, OrderInv, NEW A \in SUBSET Calls, NEW kind,
           \A c \in A : \A f \in todo[c] : f[1] = kind,
           \A c \in A : \E d \in A : \E f \in Due(d), g \in wrote[c] :
              g[1] = kind /\ f[2] = g[2] /\ f[3] = g[3]
    PROVE  A = {}
<1> SUFFICES ASSUME A # {} PROVE FALSE
  OBVIOUS
<1> DEFINE F == UNION {Due(d) : d \in A}
<1>1. \A d \in A : Due(d) \subseteq todo[d] /\ todo[d] \subseteq Facts
  BY DEF Due, IInv, TypeOK
<1>2. F \in SUBSET Facts /\ F # {}
  BY <1>1
<1>3. PICK f \in F : \A g \in F : ~ Before(g, f)
  BY <1>2, FirstFact
<1>4. PICK c \in A : f \in Due(c)
  BY <1>3
<1>5. PICK d \in A : \E h \in Due(d), g \in wrote[c] : g[1] = kind /\ h[2] = g[2] /\ h[3] = g[3]
  OBVIOUS
<1>6. PICK h \in Due(d), g \in wrote[c] : g[1] = kind /\ h[2] = g[2] /\ h[3] = g[3]
  BY <1>5
<1>7. Before(g, f)
  BY <1>1, <1>4, <1>6 DEF OrderInv, InOrder
<1>8. Before(h, f)
  BY <1>6, <1>7 DEF Before
<1> QED
  BY <1>3, <1>5, <1>6, <1>8

(* What one call can wait for of another, when neither rebuilds an index. *)
LEMMA Waits ==
    ASSUME IInv, OrderInv, NEW d \in Calls, NEW c \in Blockers(d),
           ~ Rebuilding(c), ~ Rebuilding(d)
    PROVE  /\ c \in Calls \ {d}
           /\ \/ pc[d] = "init memories" /\ pc[c] \in MemoriesWritten
              \/ pc[d] = "init chunks" /\ pc[c] \in ChunksLooked
              \/ pc[d] \in {"fix tags", "fix vector", "insert"} /\ pc[c] = "init chunks"
              \/ pc[d] \in Fixing /\ \E f \in Due(d) \ Zero, g \in wrote[c] : SameRow(f, g)
<1>1. c \in Calls \ {d}
  BY DEF Blockers
<1>2. Locking(c) /\ Placed(d) /\ TypeOK
  BY <1>1 DEF IInv, OrderInv
<1>3. CASE \E f \in RowsNeeded(d), g \in wrote[c] : SameRow(f, g)
  BY <1>1, <1>3 DEF RowsNeeded, Fixing
<1>4. CASE \E a \in Needs(d), b \in held[c] : Conflicts(a, b)
  <2>1. PICK a \in Needs(d), b \in held[c] : Conflicts(a, b)
    BY <1>4
  <2>2. /\ a.table = b.table
        /\ \/ a.mode = "share" /\ b.mode = "write"
           \/ a.mode = "write" /\ b.mode = "share"
           \/ a.mode \in {"index", "vacuum"}
           \/ b.mode \in {"index", "vacuum"}
    BY <2>1 DEF Conflicts
  <2>3. b.mode \notin {"index", "vacuum"}
    BY <1>2 DEF Locking
  <2>4. /\ pc[d] \notin {"share memories", "share chunks", "index memories", "index chunks", "vacuum"}
    <3>1. pc[d] \in Rebuilds => tool[d] = "maintain"
      BY <1>2 DEF Placed
    <3> QED
      BY <3>1 DEF Rebuilding, Rebuilds
  <2>5. \/ pc[d] = "init memories" /\ a = Lock("share", "memories")
        \/ pc[d] = "init chunks" /\ a = Lock("share", "chunks")
        \/ \E t \in Tables : a = Lock("read", t)
        \/ pc[d] \in {"fix tags", "fix vector", "insert"} /\ a = Lock("write", "memories")
        \/ pc[d] \in {"fix chunks", "cut"} /\ a = Lock("write", "chunks")
    BY <2>1, <2>4 DEF Needs, Tables
  <2>6. b = Lock(b.mode, b.table)
    <3>1. c \in Calls /\ held[c] \in SUBSET Locks
      BY <1>1, <1>2 DEF TypeOK, Locks
    <3>2. b \in Locks
      BY <2>1, <3>1
    <3> QED
      BY <3>2 DEF Locks, Lock
  <2>7. \A mode, t : Lock(mode, t).mode = mode /\ Lock(mode, t).table = t
    BY DEF Lock
  <2>8. /\ b # Lock("share", "chunks")
        /\ b = Lock("share", "memories") => pc[c] = "init chunks"
        /\ b = Lock("write", "memories") => pc[c] \in MemoriesWritten
        /\ b = Lock("write", "chunks") => pc[c] \in ChunksLooked
    BY <1>2 DEF Locking
  <2>9. CASE pc[d] = "init memories" /\ a = Lock("share", "memories")
    <3>0. a.mode = "share" /\ a.table = "memories"
      BY <2>7, <2>9
    <3>1. b = Lock("write", "memories")
      BY <2>2, <2>3, <2>6, <3>0
    <3> QED
      BY <1>1, <2>8, <2>9, <3>1
  <2>10. CASE pc[d] = "init chunks" /\ a = Lock("share", "chunks")
    <3>0. a.mode = "share" /\ a.table = "chunks"
      BY <2>7, <2>10
    <3>1. b = Lock("write", "chunks")
      BY <2>2, <2>3, <2>6, <3>0
    <3> QED
      BY <1>1, <2>8, <2>10, <3>1
  <2>11. CASE \E t \in Tables : a = Lock("read", t)
    <3>1. a.mode = "read"
      BY <2>7, <2>11
    <3> QED
      BY <2>2, <2>3, <3>1
  <2>12. CASE pc[d] \in {"fix tags", "fix vector", "insert"} /\ a = Lock("write", "memories")
    <3>0. a.mode = "write" /\ a.table = "memories"
      BY <2>7, <2>12
    <3>1. b = Lock("share", "memories")
      BY <2>2, <2>3, <2>6, <3>0
    <3> QED
      BY <1>1, <2>8, <2>12, <3>1
  <2>13. CASE pc[d] \in {"fix chunks", "cut"} /\ a = Lock("write", "chunks")
    <3>0. a.mode = "write" /\ a.table = "chunks"
      BY <2>7, <2>13
    <3>1. b = Lock("share", "chunks")
      BY <2>2, <2>3, <2>6, <3>0
    <3> QED
      BY <2>8, <3>1
  <2> QED
    BY <2>5, <2>9, <2>10, <2>11, <2>12, <2>13
<1> QED
  BY <1>3, <1>4 DEF Blockers

(* A repair on time that waits for a row waits for another in its own pass,
   unless it still cleans tags where the other is at the vectors: it would
   have met the tags before. *)
LEMMA SamePass ==
    ASSUME IInv, OrderInv, NEW c \in Calls, NEW d \in Calls, c # d,
           pc[c] \in Fixing, pc[d] \in Fixing, ~ late[d],
           NEW f \in Due(d) \ Zero, NEW g \in wrote[c], SameRow(f, g),
           f[1] = "tags" => g[1] # "vector"
    PROVE  f[1] = g[1] /\ f[2] = g[2] /\ f[3] = g[3]
<1>1. tool[c] = "repair" /\ tool[d] = "repair"
  BY DEF IInv, Placed, Fixing, Passes
<1>2. f \in todo[d] /\ f \in Facts /\ g \in Facts
  BY DEF Due, IInv, TypeOK
<1>3. f[2] = g[2] /\ (f[1] = "chunk" \/ g[1] = "chunk" => f = g)
  BY DEF SameRow
<1>4. CASE f[1] = "chunk" \/ g[1] = "chunk"
  BY <1>3, <1>4
<1>5. CASE f[1] = g[1] /\ f[1] \in {"tags", "vector"}
  BY <1>2, <1>3, <1>5, FactKinds
<1>6. CASE f[1] = "vector" /\ g[1] = "tags"
  <2>1. f = Vector(f[2]) /\ g = Tags(f[2]) /\ f[2] \in Memories
    BY <1>2, <1>3, <1>6, FactKinds
  <2>2. f[2] \in neat \/ g \in wrote[d] \cup Zero
    BY <1>1, <1>2, <2>1 DEF OrderInv, OnTime
  <2>3. f[2] \notin neat /\ g \notin Zero
    <3>1. Kinds(c)
      BY DEF OrderInv
    <3> QED
      BY <1>1, <2>1, <3>1 DEF Kinds
  <2>4. g \notin wrote[d]
    <3>1. SameRow(g, g)
      BY DEF SameRow
    <3> QED
      BY <1>1, <3>1 DEF OrderInv, Apart
  <2> QED
    BY <2>2, <2>3, <2>4
<1>7. f[1] \in {"tags", "vector", "chunk"} /\ g[1] \in {"tags", "vector", "chunk"}
  BY <1>2, FactKinds
<1> QED
  BY <1>4, <1>5, <1>6, <1>7

(* Of the calls of a cycle without the two exceptions none can be left. *)
LEMMA NoOtherCycle ==
    ASSUME IInv, OrderInv, NEW S \in Cycles
    PROVE  \E c \in S : Rebuilding(c) \/ late[c]
<1> SUFFICES ASSUME \A c \in S : ~ Rebuilding(c) /\ ~ late[c] PROVE FALSE
  OBVIOUS
<1>1. S # {} /\ S \subseteq Calls
  BY DEF Cycles, Stuck, Waiting
<1> DEFINE Met(d, c) == \E f \in Due(d) \ Zero, g \in wrote[c] : SameRow(f, g)
           At(where) == {c \in S : pc[c] = where}
<1>2. ASSUME NEW c \in S
      PROVE  \E d \in S :
                /\ c # d
                /\ \/ pc[d] = "init memories" /\ pc[c] \in MemoriesWritten
                   \/ pc[d] = "init chunks" /\ pc[c] \in ChunksLooked
                   \/ pc[d] \in {"fix tags", "fix vector", "insert"} /\ pc[c] = "init chunks"
                   \/ pc[d] \in Fixing /\ Met(d, c)
  <2>1. PICK d \in S : c \in Blockers(d)
    BY NoSource
  <2>2. c \in Calls /\ d \in Calls /\ ~ Rebuilding(c) /\ ~ Rebuilding(d)
    BY <1>1
  <2>3. /\ c # d
        /\ \/ pc[d] = "init memories" /\ pc[c] \in MemoriesWritten
           \/ pc[d] = "init chunks" /\ pc[c] \in ChunksLooked
           \/ pc[d] \in {"fix tags", "fix vector", "insert"} /\ pc[c] = "init chunks"
           \/ pc[d] \in Fixing /\ Met(d, c)
    BY <2>1, <2>2, Waits
  <2> QED
    BY <2>3
<1> HIDE DEF Met
<1>3. ASSUME NEW d \in S
      PROVE  pc[d] \in {"init memories", "init chunks", "insert"} \cup Fixing
  <2>1. PICK c \in S : c \in Blockers(d)
    BY DEF Cycles, Stuck
  <2>2. c \in Calls /\ d \in Calls /\ ~ Rebuilding(c) /\ ~ Rebuilding(d)
    BY <1>1
  <2>3. \/ pc[d] \in {"init memories", "init chunks"}
        \/ pc[d] \in {"fix tags", "fix vector", "insert"}
        \/ pc[d] \in Fixing
    BY <2>1, <2>2, Waits
  <2> QED
    BY <2>3 DEF Fixing
<1>4. \A c \in S : Kinds(c) /\ wrote[c] \subseteq Facts /\ todo[c] \subseteq Facts
  BY <1>1 DEF OrderInv, IInv, TypeOK
<1>5. ASSUME NEW c \in S, wrote[c] # {} PROVE pc[c] \notin {"init memories", "init chunks", "insert"}
  <2>1. PICK g \in wrote[c] : g \in Facts
    BY <1>4, <1>5
  <2>2. g[1] \in {"tags", "vector", "chunk"}
    BY <2>1, FactKinds
  <2> QED
    BY <1>4, <2>2 DEF Kinds, TagsLooked, VectorsLooked, ChunksLooked
<1>6. ASSUME NEW c \in S PROVE pc[c] \notin {"init memories", "insert"}
  <2>1. PICK d \in S :
           \/ pc[c] \in MemoriesWritten \cup ChunksLooked \cup {"init chunks"}
           \/ Met(d, c)
    BY <1>2
  <2>2. Met(d, c) => wrote[c] # {}
    BY DEF Met
  <2> QED
    BY <1>5, <2>1, <2>2 DEF MemoriesWritten, ChunksLooked
<1>7. ASSUME NEW c \in S, pc[c] \in Fixing
      PROVE  \E d \in S :
                /\ c # d
                /\ \/ pc[d] = "init chunks" /\ pc[c] = "fix chunks"
                   \/ pc[d] \in Fixing /\ Met(d, c)
  <2>1. PICK d \in S :
           /\ c # d
           /\ \/ pc[d] = "init chunks" /\ pc[c] \in ChunksLooked
              \/ pc[d] \in Fixing /\ Met(d, c)
    BY <1>2, <1>6, <1>7 DEF Fixing
  <2> QED
    BY <1>7, <2>1 DEF Fixing, ChunksLooked
<1>8. ASSUME NEW c \in S, NEW d \in S, c # d, pc[c] \in Fixing, pc[d] \in Fixing,
             NEW f \in Due(d) \ Zero, NEW g \in wrote[c], SameRow(f, g)
      PROVE  \/ /\ f[1] = g[1] /\ f[2] = g[2] /\ f[3] = g[3]
                /\ f[1] = "tags" <=> pc[d] = "fix tags"
                /\ f[1] = "vector" <=> pc[d] = "fix vector"
                /\ f[1] = "chunk" <=> pc[d] = "fix chunks"
             \/ pc[d] = "fix tags" /\ g[1] = "vector"
  <2>1. f \in todo[d]
    BY DEF Due
  <2>2. \/ f[1] = "tags" /\ pc[d] = "fix tags"
        \/ f[1] = "vector" /\ pc[d] = "fix vector"
        \/ f[1] = "chunk" /\ pc[d] = "fix chunks"
    <3>1. /\ pc[d] = "fix tags" => f[1] = "tags"
          /\ pc[d] = "fix vector" => f[1] = "vector"
          /\ pc[d] = "fix chunks" => f[1] = "chunk"
      BY <1>4, <2>1 DEF Kinds
    <3> QED
      BY <1>8, <3>1 DEF Fixing
  <2>3. CASE f[1] = "tags" /\ g[1] = "vector"
    BY <2>2, <2>3
  <2>4. CASE ~ (f[1] = "tags" /\ g[1] = "vector")
    <3>1. f[1] = g[1] /\ f[2] = g[2] /\ f[3] = g[3]
      BY <1>1, <1>8, <2>4, SamePass
    <3> QED
      BY <2>2, <3>1
  <2> QED
    BY <2>3, <2>4
<1>9. At("fix tags") = {}
  <2>1. \A c \in At("fix tags") : \A f \in todo[c] : f[1] = "tags"
    BY <1>4 DEF Kinds
  <2>2. ASSUME NEW c \in At("fix tags")
        PROVE  \E d \in At("fix tags") : \E f \in Due(d), g \in wrote[c] :
                  g[1] = "tags" /\ f[2] = g[2] /\ f[3] = g[3]
    <3>1. PICK d \in S : c # d /\ pc[d] \in Fixing /\ Met(d, c)
      BY <1>7 DEF Fixing
    <3>2. PICK f \in Due(d) \ Zero, g \in wrote[c] : SameRow(f, g)
      BY <3>1 DEF Met
    <3>3. g[1] = "tags"
      <4>1. g[1] \in {"tags", "vector", "chunk"}
        BY <1>4, FactKinds
      <4> QED
        BY <1>4, <4>1 DEF Kinds, VectorsLooked, ChunksLooked
    <3>4. f[1] = g[1] /\ f[2] = g[2] /\ f[3] = g[3] /\ pc[d] = "fix tags"
      BY <1>8, <3>1, <3>2, <3>3 DEF Fixing
    <3> QED
      BY <3>2, <3>3, <3>4
  <2>3. At("fix tags") \in SUBSET Calls
    BY <1>1
  <2> HIDE DEF At
  <2> QED
    BY <2>1, <2>2, <2>3, NoChain
<1>10. At("fix vector") = {}
  <2>1. \A c \in At("fix vector") : \A f \in todo[c] : f[1] = "vector"
    BY <1>4 DEF Kinds
  <2>2. ASSUME NEW c \in At("fix vector")
        PROVE  \E d \in At("fix vector") : \E f \in Due(d), g \in wrote[c] :
                  g[1] = "vector" /\ f[2] = g[2] /\ f[3] = g[3]
    <3>1. PICK d \in S : c # d /\ pc[d] \in Fixing /\ pc[d] # "fix tags" /\ Met(d, c)
      BY <1>7, <1>9 DEF Fixing
    <3>2. PICK f \in Due(d) \ Zero, g \in wrote[c] : SameRow(f, g)
      BY <3>1 DEF Met
    <3>3. g[1] # "chunk"
      BY <1>4 DEF Kinds, ChunksLooked
    <3>4. f[1] = g[1] /\ f[2] = g[2] /\ f[3] = g[3] /\ pc[d] = "fix vector" /\ f[1] = "vector"
      BY <1>8, <3>1, <3>2, <3>3 DEF Fixing
    <3> QED
      BY <3>2, <3>4
  <2>3. At("fix vector") \in SUBSET Calls
    BY <1>1
  <2> HIDE DEF At
  <2> QED
    BY <2>1, <2>2, <2>3, NoChain
<1>11. \A c \in S : pc[c] \notin {"fix tags", "fix vector"}
  BY <1>9, <1>10
<1>12. ASSUME NEW c \in S PROVE pc[c] # "init chunks"
  <2>1. PICK d \in S :
           \/ pc[c] \in MemoriesWritten \cup ChunksLooked
           \/ pc[d] \in {"fix tags", "fix vector", "insert"}
           \/ Met(d, c)
    BY <1>2
  <2>2. Met(d, c) => wrote[c] # {}
    BY DEF Met
  <2> QED
    BY <1>5, <1>6, <1>11, <2>1, <2>2 DEF MemoriesWritten, ChunksLooked
<1>13. At("fix chunks") = {}
  <2>1. \A c \in At("fix chunks") : \A f \in todo[c] : f[1] = "chunk"
    BY <1>4 DEF Kinds
  <2>2. ASSUME NEW c \in At("fix chunks")
        PROVE  \E d \in At("fix chunks") : \E f \in Due(d), g \in wrote[c] :
                  g[1] = "chunk" /\ f[2] = g[2] /\ f[3] = g[3]
    <3>1. PICK d \in S : c # d /\ pc[d] = "fix chunks" /\ Met(d, c)
      BY <1>7, <1>11, <1>12 DEF Fixing
    <3>2. PICK f \in Due(d) \ Zero, g \in wrote[c] : SameRow(f, g)
      BY <3>1 DEF Met
    <3>3. f[1] = g[1] /\ f[2] = g[2] /\ f[3] = g[3] /\ f[1] = "chunk"
      BY <1>8, <3>1, <3>2 DEF Fixing
    <3> QED
      BY <3>1, <3>2, <3>3
  <2>3. At("fix chunks") \in SUBSET Calls
    BY <1>1
  <2> HIDE DEF At
  <2> QED
    BY <2>1, <2>2, <2>3, NoChain
<1> QED
  BY <1>1, <1>3, <1>6, <1>11, <1>12, <1>13 DEF Fixing

(* OnlyReindexDeadlocks, for every set of calls and of memories: whatever
   repairs, remember and forget do beside one another, the deadlock detector
   has nobody to end but in a cycle with a REINDEX, or with a repair that
   selected the tags to clean before a memory with such tags was committed. *)
THEOREM OnlyReindexDeadlocksAlways == Spec => []OnlyReindexDeadlocks
<1>1. Init => IInv /\ OrderInv
  BY InitIInv, InitOrder
<1>2. IInv /\ OrderInv /\ [Next]_vars => (IInv /\ OrderInv)'
  BY Inductive, OrderInductive
<1>3. IInv /\ OrderInv => OnlyReindexDeadlocks
  BY NoOtherCycle DEF OnlyReindexDeadlocks
<1> QED
  BY <1>1, <1>2, <1>3, PTL DEF Spec
=============================================================================
