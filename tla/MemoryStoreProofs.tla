-------------------------- MODULE MemoryStoreProofs --------------------------
(***************************************************************************)
(* MemoryStore for any memories and calls, and any bound on the ids, and   *)
(* AuditedMemory, its composition with the audit log, for any tools.       *)
(***************************************************************************)
EXTENDS AuditedMemory, FiniteSetTheorems, TLAPS

(* The lives of a row: absent, live, deleted. *)
Aged(old, new) ==
    \/ old.state = "absent"
    \/ new = old
    \/ old.state = "live" /\ new = [old EXCEPT !.state = "deleted"]

Writing == {"embed", "vector", "commit"}

Searching == Scans \cup {"fetch"}

(* The rows and the sequence: an id is used once. *)
RowsInOrder ==
    /\ \A i \in Ids : memories[i].state = "absent" => memories[i] = NoRow
    /\ \A i \in Ids : memories[i].state # "absent" => memories[i].key \in Keys
    /\ \A i \in Ids : i >= nextId => memories[i].state = "absent"
    /\ \A s \in Sessions : Remembers(s) => mid[s] < nextId
    /\ \A s, t \in Sessions :
          Remembers(s) /\ Remembers(t) /\ mid[s] # 0 /\ mid[s] = mid[t] => s = t

(* UPDATE's row lock: one transaction at a time is deleting a row. *)
OneDeleter ==
    \A s, t \in Sessions : at[s] = "locked" /\ at[t] = "locked" /\ mid[s] = mid[t] => s = t

(* The call looked when no live row had its key. *)
LookedFree(s) == \A i \in Ids : seen[s][i].state = "live" => seen[s][i].key # key[s]

RememberPlaced(s) ==
    /\ at[s] \in {"idle", "check", "insert"} =>
          mid[s] = 0 /\ draft[s] = [chunks |-> 0, vector |-> FALSE]
    /\ at[s] \in {"check", "insert"} \cup Writing => Remembers(s)
    /\ at[s] = "insert" \/ (Remembers(s) /\ mid[s] # 0) => LookedFree(s)
    /\ at[s] \in Writing => mid[s] \in Ids /\ memories[mid[s]].state = "absent"
    /\ at[s] = "embed" => draft[s].chunks < Chunks[key[s]] /\ ~ draft[s].vector
    /\ at[s] \in {"vector", "commit"} => draft[s].chunks = Chunks[key[s]]
    /\ at[s] = "vector" => key[s] \in Short
    /\ at[s] = "commit" => (draft[s].vector <=> key[s] \in Short)
    /\ at[s] # "returned" => result[s] = 0
    /\ Remembers(s) /\ result[s] # 0 =>
          /\ result[s] \in Ids
          /\ memories[result[s]].state # "absent"
          /\ memories[result[s]].key = key[s]
    /\ Remembers(s) /\ at[s] = "returned" /\ result[s] = 0 =>
          \E i \in Ids : seen[s][i].state = "live" /\ seen[s][i].key = key[s]

ForgetPlaced(s) ==
    /\ at[s] \in {"idle", "update", "locked"} \cup Searching => ~ Remembers(s)
    /\ at[s] \in {"update", "locked"} => mid[s] \in Ids
    /\ at[s] = "locked" => memories[mid[s]].state = "live" /\ seen[s][mid[s]].state = "live"
    /\ ~ Remembers(s) /\ result[s] # 0 =>
          mid[s] \in Ids /\ memories[mid[s]].state = "deleted"

(* What a search has found lies between what was there when it began and
   what is there now. *)
SearchPlaced(s) ==
    /\ at[s] \notin Searching \cup Ended => found[s] = {}
    /\ at[s] # "returned" => answer[s] = {}
    /\ at[s] \in Searching => mid[s] = 0
    /\ at[s] \in Searching =>
          \A i \in found[s] : seen[s][i].state # "deleted" /\ memories[i].state # "absent"
    /\ at[s] = "fetch" =>
          \A i \in Ids : seen[s][i].state = "live" /\ i \in Live =>
             i \in found[s] \/ Cardinality(found[s]) >= Limit
    /\ \A i \in Ids : <<i, TRUE>> \in answer[s] =>
          seen[s][i].state # "deleted" /\ memories[i].state = "deleted"

SeenAged(s) == \A i \in Ids : Aged(seen[s][i], memories[i])

Placed(s) == RememberPlaced(s) /\ ForgetPlaced(s) /\ SearchPlaced(s) /\ SeenAged(s)

IInv ==
    /\ TypeOK
    /\ AllOrNothing
    /\ RowsInOrder
    /\ OneDeleter
    /\ \A s \in Sessions : Placed(s)

-----------------------------------------------------------------------------
(* Ageing.                                                                 *)

(* Ageing keeps what a row says. *)
LEMMA AgedKeeps ==
    ASSUME NEW a \in Row, NEW b \in Row, Aged(a, b), a.state # "absent"
    PROVE  /\ b.state # "absent"
           /\ b.key = a.key /\ b.chunks = a.chunks /\ b.vector = a.vector
           /\ a.state = "deleted" => b.state = "deleted"
           /\ b.state = "live" => a.state = "live"
BY DEF Aged, Row

(* Ageing twice is ageing. *)
LEMMA AgedTransitive ==
    ASSUME NEW a \in Row, NEW b \in Row, NEW c \in Row, Aged(a, b), Aged(b, c)
    PROVE  Aged(a, c)
<1>1. CASE a.state = "absent"
  BY <1>1 DEF Aged
<1>2. CASE b = a
  BY <1>2
<1>3. CASE a.state = "live" /\ b = [a EXCEPT !.state = "deleted"]
  <2>1. b.state = "deleted"
    BY <1>3 DEF Row
  <2>2. c = b
    BY <2>1 DEF Aged
  <2> QED
    BY <1>3, <2>2
<1> QED
  BY <1>1, <1>2, <1>3 DEF Aged

(* No call but one's own and the ageing of rows changes where a call is. *)
LEMMA OthersPlaced ==
    ASSUME IInv, NEW t \in Sessions, memories' \in [Ids -> Row],
           \A i \in Ids : Aged(memories[i], memories'[i]),
           UNCHANGED <<at[t], key[t], mid[t], draft[t], result[t], found[t], answer[t], seen[t]>>,
           at[t] \in Writing \cup {"locked"} => memories'[mid[t]] = memories[mid[t]]
    PROVE  Placed(t)'
<1>1. Placed(t) /\ TypeOK
  BY DEF IInv
<1>2. \A i \in Ids : memories[i].state # "absent" =>
          /\ memories'[i].state # "absent"
          /\ memories'[i].key = memories[i].key
          /\ memories[i].state = "deleted" => memories'[i].state = "deleted"
          /\ memories'[i].state = "live" => memories[i].state = "live"
  BY <1>1, AgedKeeps DEF TypeOK
<1>3. \A i \in Ids : seen[t][i] \in Row /\ memories[i] \in Row /\ memories'[i] \in Row
  BY <1>1 DEF TypeOK
<1>4. SeenAged(t)'
  BY <1>1, <1>3, AgedTransitive DEF Placed, SeenAged
<1>5. RememberPlaced(t)'
  BY <1>1, <1>2 DEF Placed, RememberPlaced, LookedFree, Remembers, Writing
<1>6. ForgetPlaced(t)'
  BY <1>1, <1>2 DEF Placed, ForgetPlaced, Remembers, Searching, Scans
<1>7. SearchPlaced(t)'
  <2>1. \A i \in Ids : seen[t][i].state = "live" => memories[i].state # "absent"
    BY <1>1, <1>3, AgedKeeps DEF Placed, SeenAged
  <2>2. \A i \in Ids : seen[t][i].state = "live" /\ i \in Live' => i \in Live
    BY <1>2, <2>1 DEF Live
  <2>3. found[t] \subseteq Ids
    BY <1>1 DEF TypeOK
  <2> QED
    BY <1>1, <1>2, <2>2, <2>3 DEF Placed, SearchPlaced, Searching, Ended, Scans
<1> QED
  BY <1>4, <1>5, <1>6, <1>7 DEF Placed

(* What remains to be shown of a step that leaves the rows as they are. *)
LEMMA QuietStep ==
    ASSUME IInv, NEW s \in Sessions, TypeOK', UNCHANGED memories,
           \A t \in Sessions \ {s} :
              UNCHANGED <<at[t], key[t], mid[t], draft[t], result[t], found[t], answer[t], seen[t]>>,
           RowsInOrder', OneDeleter', Placed(s)'
    PROVE  IInv'
<1>1. \A i \in Ids : Aged(memories[i], memories'[i])
  BY DEF Aged
<1>2. \A t \in Sessions \ {s} : Placed(t)'
  BY <1>1, OthersPlaced DEF IInv, TypeOK
<1>3. AllOrNothing'
  BY DEF IInv, AllOrNothing
<1> QED
  BY <1>2, <1>3 DEF IInv

-----------------------------------------------------------------------------
(* The invariant.                                                          *)

(* No id is used and no call is under way. *)
LEMMA InitIInv == Init => IInv
<1> SUFFICES ASSUME Init PROVE IInv
  OBVIOUS
<1>1. TypeOK
  BY StoreAssumption DEF Init, TypeOK, NoRow, Row, Ids, Scans, Ended
<1>2. AllOrNothing /\ RowsInOrder /\ OneDeleter
  BY DEF Init, AllOrNothing, RowsInOrder, OneDeleter, NoRow, Ids, Remembers
<1>3. \A s \in Sessions : Placed(s)
  BY DEF Init, Placed, RememberPlaced, ForgetPlaced, SearchPlaced, SeenAged, Aged, Remembers,
         Writing, Searching, Scans, Ended, NoRow, LookedFree, Live
<1> QED
  BY <1>1, <1>2, <1>3 DEF IInv

(* Calls that keep their key and their id, or give the id up to no one, keep
   the order of the ids. *)
LEMMA OrderKept ==
    ASSUME IInv, UNCHANGED <<memories, nextId, key, mid>>
    PROVE  RowsInOrder'
BY DEF IInv, RowsInOrder, Remembers, Ids

(* What a call that is not a search knows of a search. *)
LEMMA NotSearching ==
    ASSUME IInv, NEW s \in Sessions, at[s] \notin Searching \cup Ended,
           at'[s] \notin Searching, UNCHANGED <<found, answer>>
    PROVE  SearchPlaced(s)'
BY DEF IInv, Placed, SearchPlaced, Searching, Scans, Ended

(* remember, up to its commit. *)
LEMMA RememberSteps ==
    ASSUME IInv, NEW s \in Sessions,
           \/ \E k \in Keys : StartRemember(s, k)
           \/ CheckDuplicate(s) \/ InsertRow(s) \/ EmbedChunk(s) \/ EmbedParent(s)
    PROVE  IInv'
<1> USE DEF Goto, Returns, store
<1>0. RememberPlaced(s) /\ ForgetPlaced(s) /\ SearchPlaced(s) /\ SeenAged(s)
  BY DEF IInv, Placed
<1>1. ASSUME NEW k \in Keys, StartRemember(s, k) PROVE IInv'
  <2>1. TypeOK'
    BY <1>1 DEF StartRemember, IInv, TypeOK
  <2>2. at'[s] = "check" /\ key'[s] = k /\ k # NoKey /\ at[s] = "idle"
        /\ UNCHANGED <<memories, mid, draft, result, found, answer, seen>>
    BY <1>1, StoreAssumption DEF StartRemember, IInv, TypeOK
  <2>3. mid[s] = 0 /\ result[s] = 0
    BY <1>0, <2>2 DEF RememberPlaced
  <2>4. RowsInOrder'
    BY <1>1, <2>3 DEF StartRemember, IInv, TypeOK, RowsInOrder, Remembers, Ids
  <2>5. OneDeleter'
    BY <1>1 DEF StartRemember, IInv, TypeOK, OneDeleter
  <2>6. RememberPlaced(s)' /\ ForgetPlaced(s)'
    BY <1>0, <2>2, <2>3 DEF RememberPlaced, ForgetPlaced, Remembers, Writing, Searching, Scans
  <2>7. SearchPlaced(s)' /\ SeenAged(s)'
    BY <1>0, <2>2, NotSearching DEF SeenAged, Aged, Searching, Scans, Ended
  <2> QED
    BY <1>1, <2>1, <2>4, <2>5, <2>6, <2>7, QuietStep DEF StartRemember, IInv, TypeOK, Placed
<1>2. CASE CheckDuplicate(s)
  <2>1. at'[s] \in {"insert", "returned"} /\ seen'[s] = memories /\ at[s] = "check"
        /\ UNCHANGED <<memories, key, mid, draft, found, answer>>
    BY <1>2 DEF CheckDuplicate, IInv, TypeOK
  <2>2. at'[s] = "insert" => ~ \E i \in Live : memories[i].key = key[s]
    BY <1>2 DEF CheckDuplicate, IInv, TypeOK
  <2>3. at'[s] = "returned" => \E i \in Live : memories[i].key = key[s]
    BY <1>2 DEF CheckDuplicate, IInv, TypeOK
  <2>4. result'[s] = 0
    BY <1>0, <1>2 DEF CheckDuplicate, IInv, TypeOK, RememberPlaced
  <2>5. TypeOK'
    <3>1. at' \in [Sessions -> {"idle", "check", "insert", "embed", "vector", "commit",
                               "update", "locked", "fetch"} \cup Scans \cup Ended]
      BY <1>2 DEF CheckDuplicate, IInv, TypeOK, Ended
    <3>2. result' \in [Sessions -> 0..(MaxId + 1)] /\ seen' \in [Sessions -> [Ids -> Row]]
      BY <1>2, StoreAssumption DEF CheckDuplicate, IInv, TypeOK
    <3> QED
      BY <1>2, <3>1, <3>2 DEF CheckDuplicate, IInv, TypeOK
  <2>6. RowsInOrder'
    BY <1>2, OrderKept DEF CheckDuplicate
  <2>7. OneDeleter'
    BY <1>2 DEF CheckDuplicate, IInv, TypeOK, OneDeleter
  <2>8. RememberPlaced(s)' /\ ForgetPlaced(s)'
    BY <1>0, <2>1, <2>2, <2>3, <2>4
       DEF RememberPlaced, ForgetPlaced, Remembers, Writing, Searching, Scans, LookedFree, Live
  <2>9. SearchPlaced(s)' /\ SeenAged(s)'
    BY <2>1, NotSearching DEF SeenAged, Aged, Searching, Scans, Ended
  <2> QED
    BY <1>2, <2>5, <2>6, <2>7, <2>8, <2>9, QuietStep DEF CheckDuplicate, IInv, TypeOK, Placed
<1>3. CASE InsertRow(s)
  <2>1. TypeOK'
    BY <1>3, StoreAssumption DEF InsertRow, IInv, TypeOK, Ids
  <2>2. at'[s] = "embed" /\ mid'[s] = nextId /\ at[s] = "insert" /\ nextId \in Ids
        /\ UNCHANGED <<memories, key, draft, result, found, answer, seen>>
    BY <1>3 DEF InsertRow, IInv, TypeOK
  <2>3. Remembers(s) /\ memories[nextId].state = "absent" /\ 0 < Chunks[key[s]]
        /\ LookedFree(s) /\ draft[s] = [chunks |-> 0, vector |-> FALSE]
    BY <1>0, <2>2, StoreAssumption DEF IInv, TypeOK, RememberPlaced, RowsInOrder, Ids, Remembers
  <2>4. RowsInOrder'
    <3>1. nextId' = nextId + 1 /\ nextId \in Nat /\ Ids \subseteq Nat /\ nextId # 0
      BY <1>3, StoreAssumption DEF InsertRow, IInv, TypeOK, Ids
    <3>2. ASSUME NEW i \in Ids, i >= nextId' PROVE memories'[i].state = "absent"
      <4>1. i >= nextId
        BY <3>1, <3>2
      <4> QED
        BY <2>2, <4>1 DEF IInv, RowsInOrder
    <3>3. \A t \in Sessions \ {s} : mid'[t] = mid[t] /\ mid[t] \in Nat
      BY <1>3, StoreAssumption DEF InsertRow, IInv, TypeOK
    <3>4. \A t \in Sessions : Remembers(t)' => mid'[t] < nextId'
      BY <2>2, <3>1, <3>3 DEF IInv, RowsInOrder, Remembers
    <3>5. \A t \in Sessions \ {s} : Remembers(t)' => mid'[t] # mid'[s]
      BY <2>2, <3>1, <3>3 DEF IInv, RowsInOrder, Remembers
    <3>6. \A t, u \in Sessions :
             Remembers(t)' /\ Remembers(u)' /\ mid'[t] # 0 /\ mid'[t] = mid'[u] => t = u
      BY <2>2, <3>3, <3>5 DEF IInv, RowsInOrder, Remembers
    <3> QED
      BY <2>2, <3>2, <3>4, <3>6 DEF IInv, RowsInOrder
  <2>5. OneDeleter'
    BY <1>3 DEF InsertRow, IInv, TypeOK, OneDeleter
  <2>6. RememberPlaced(s)' /\ ForgetPlaced(s)'
    BY <1>0, <2>2, <2>3
       DEF RememberPlaced, ForgetPlaced, Remembers, Writing, Searching, Scans, LookedFree
  <2>7. SearchPlaced(s)' /\ SeenAged(s)'
    BY <1>0, <2>2, NotSearching DEF SeenAged, Aged, Searching, Scans, Ended
  <2> QED
    BY <1>3, <2>1, <2>4, <2>5, <2>6, <2>7, QuietStep DEF InsertRow, IInv, TypeOK, Placed
<1>4. ASSUME at[s] \in {"embed", "vector"}, NEW d \in [chunks : Nat, vector : BOOLEAN],
             draft' = [draft EXCEPT ![s] = d],
             NEW label \in {"embed", "vector", "commit"}, at' = [at EXCEPT ![s] = label],
             UNCHANGED <<store, key, mid, result, found, answer, seen>>,
             label = "embed" => d.chunks < Chunks[key[s]] /\ ~ d.vector,
             label \in {"vector", "commit"} => d.chunks = Chunks[key[s]],
             label = "vector" => key[s] \in Short,
             label = "commit" => (d.vector <=> key[s] \in Short)
      PROVE  IInv'
  <2>1. TypeOK'
    BY <1>4 DEF IInv, TypeOK
  <2>2. at'[s] = label /\ draft'[s] = d
        /\ UNCHANGED <<memories, key, mid, result, found, answer, seen>>
    BY <1>4 DEF IInv, TypeOK
  <2>3. RowsInOrder'
    BY <1>4, OrderKept
  <2>4. OneDeleter'
    BY <1>4 DEF IInv, TypeOK, OneDeleter
  <2>5. RememberPlaced(s)' /\ ForgetPlaced(s)'
    BY <1>0, <1>4, <2>2
       DEF RememberPlaced, ForgetPlaced, Remembers, Writing, Searching, Scans, LookedFree
  <2>6. SearchPlaced(s)' /\ SeenAged(s)'
    BY <1>0, <1>4, <2>2, NotSearching DEF SeenAged, Aged, Searching, Scans, Ended
  <2> QED
    BY <1>4, <2>1, <2>3, <2>4, <2>5, <2>6, QuietStep DEF IInv, TypeOK, Placed
<1>5. CASE EmbedChunk(s)
  <2> DEFINE d == [draft[s] EXCEPT !.chunks = draft[s].chunks + 1]
  <2>1. /\ Chunks[key[s]] \in Nat /\ draft[s].chunks \in Nat
        /\ draft[s].chunks < Chunks[key[s]] /\ at[s] = "embed"
        /\ draft[s] \in [chunks : Nat, vector : BOOLEAN] /\ ~ draft[s].vector
    BY <1>0, <1>5, StoreAssumption
       DEF EmbedChunk, IInv, TypeOK, RememberPlaced, Remembers, Writing
  <2>2. /\ draft' = [draft EXCEPT ![s] = d]
        /\ d \in [chunks : Nat, vector : BOOLEAN]
        /\ d.chunks = draft[s].chunks + 1 /\ ~ d.vector
    <3>1. draft' = [draft EXCEPT ![s] = d]
      BY <1>5 DEF EmbedChunk
    <3> QED
      BY <2>1, <3>1
  <2>3. UNCHANGED <<store, key, mid, result, found, answer, seen>>
    BY <1>5 DEF EmbedChunk
  <2> HIDE DEF d
  <2>4. CASE draft[s].chunks + 1 < Chunks[key[s]]
    <3>1. at' = [at EXCEPT ![s] = "embed"]
      BY <1>5, <2>4 DEF EmbedChunk
    <3> QED
      BY <1>4, <2>1, <2>2, <2>3, <2>4, <3>1
  <2>5. CASE draft[s].chunks + 1 = Chunks[key[s]] /\ key[s] \in Short
    <3>1. at' = [at EXCEPT ![s] = "vector"]
      <4>1. ~ (draft[s].chunks + 1 < Chunks[key[s]])
        BY <2>1, <2>5
      <4> QED
        BY <1>5, <2>5, <4>1 DEF EmbedChunk
    <3> QED
      BY <1>4, <2>1, <2>2, <2>3, <2>5, <3>1
  <2>6. CASE draft[s].chunks + 1 = Chunks[key[s]] /\ key[s] \notin Short
    <3>1. at' = [at EXCEPT ![s] = "commit"]
      <4>1. ~ (draft[s].chunks + 1 < Chunks[key[s]])
        BY <2>1, <2>6
      <4> QED
        BY <1>5, <2>6, <4>1 DEF EmbedChunk
    <3> QED
      BY <1>4, <2>1, <2>2, <2>3, <2>6, <3>1
  <2> QED
    BY <2>1, <2>4, <2>5, <2>6
<1>6. CASE EmbedParent(s)
  <2> DEFINE d == [draft[s] EXCEPT !.vector = TRUE]
  <2>1. /\ draft[s].chunks \in Nat /\ draft[s].chunks = Chunks[key[s]]
        /\ key[s] \in Short /\ at[s] = "vector"
    BY <1>0, <1>6 DEF EmbedParent, IInv, TypeOK, RememberPlaced
  <2>2. /\ draft' = [draft EXCEPT ![s] = d]
        /\ d \in [chunks : Nat, vector : BOOLEAN]
        /\ d.chunks = draft[s].chunks /\ d.vector
    <3>1. draft' = [draft EXCEPT ![s] = d]
      BY <1>6 DEF EmbedParent
    <3>2. draft[s] \in [chunks : Nat, vector : BOOLEAN]
      BY DEF IInv, TypeOK
    <3> QED
      BY <3>1, <3>2
  <2>3. at' = [at EXCEPT ![s] = "commit"]
        /\ UNCHANGED <<store, key, mid, result, found, answer, seen>>
    BY <1>6 DEF EmbedParent
  <2> HIDE DEF d
  <2> QED
    BY <1>4, <2>1, <2>2, <2>3
<1> QED
  BY <1>1, <1>2, <1>3, <1>5, <1>6

(* A commit of remember: the row was absent, and no other call inserts or
   deletes it. *)
LEMMA CommitRememberSteps ==
    ASSUME IInv, NEW s \in Sessions, CommitRemember(s) \/ CommitRememberUnheard(s)
    PROVE  IInv'
<1> DEFINE r == [state |-> "live", key |-> key[s],
                 chunks |-> draft[s].chunks, vector |-> draft[s].vector]
<1>0. RememberPlaced(s) /\ ForgetPlaced(s) /\ SearchPlaced(s) /\ SeenAged(s)
  BY DEF IInv, Placed
<1>1. at[s] = "commit" /\ memories' = [memories EXCEPT ![mid[s]] = r]
      /\ UNCHANGED <<nextId, key, mid, draft, found, answer, seen>>
  BY DEF CommitRemember, CommitRememberUnheard, Insert
<1>2. PICK label \in {"returned", "unheard"} :
          /\ at' = [at EXCEPT ![s] = label]
          /\ label = "returned" => result' = [result EXCEPT ![s] = mid[s]]
          /\ label = "unheard" => result' = result
  BY DEF CommitRemember, CommitRememberUnheard, Returns, Goto
<1>3. Remembers(s) /\ mid[s] \in Ids /\ memories[mid[s]].state = "absent" /\ LookedFree(s)
      /\ draft[s].chunks = Chunks[key[s]] /\ (draft[s].vector <=> key[s] \in Short)
  BY <1>0, <1>1 DEF RememberPlaced, Writing, Ids
<1>4. r \in Row /\ r.state = "live" /\ r.key = key[s]
      /\ r.chunks = Chunks[r.key] /\ (r.vector <=> r.key \in Short)
  BY <1>3 DEF IInv, TypeOK, Row
<1> HIDE DEF r
<1>5. memories' \in [Ids -> Row] /\ memories'[mid[s]] = r
      /\ \A i \in Ids \ {mid[s]} : memories'[i] = memories[i]
  BY <1>1, <1>3, <1>4 DEF IInv, TypeOK
<1>6. \A i \in Ids : Aged(memories[i], memories'[i])
  BY <1>3, <1>5 DEF Aged
<1>7. TypeOK'
  <2>1. at' \in [Sessions -> {"idle", "check", "insert", "embed", "vector", "commit",
                             "update", "locked", "fetch"} \cup Scans \cup Ended]
    BY <1>2 DEF IInv, TypeOK, Ended
  <2>2. result' \in [Sessions -> 0..(MaxId + 1)]
    <3>1. mid[s] \in 0..(MaxId + 1) /\ result \in [Sessions -> 0..(MaxId + 1)]
      BY <1>3, StoreAssumption DEF IInv, TypeOK, Ids
    <3> QED
      BY <1>2, <3>1
  <2> QED
    BY <1>1, <1>5, <2>1, <2>2 DEF IInv, TypeOK
<1>8. AllOrNothing'
  BY <1>4, <1>5 DEF IInv, AllOrNothing
<1>9. RowsInOrder'
  BY <1>1, <1>3, <1>4, <1>5 DEF IInv, TypeOK, RowsInOrder, Remembers, Ids
<1>10. OneDeleter'
  BY <1>1, <1>2 DEF IInv, TypeOK, OneDeleter
<1>11. ASSUME NEW t \in Sessions \ {s} PROVE Placed(t)'
  <2>1. UNCHANGED <<at[t], key[t], mid[t], draft[t], result[t], found[t], answer[t], seen[t]>>
    BY <1>1, <1>2 DEF IInv, TypeOK
  <2>2. ASSUME at[t] \in Writing \cup {"locked"} PROVE memories'[mid[t]] = memories[mid[t]]
    <3>1. mid[t] \in Ids /\ mid[t] # mid[s]
      BY <1>3, <2>2
         DEF IInv, Placed, RememberPlaced, ForgetPlaced, RowsInOrder, Writing, Ids
    <3> QED
      BY <1>5, <3>1
  <2> QED
    BY <1>5, <1>6, <2>1, <2>2, OthersPlaced
<1>12. Placed(s)'
  <2>1. at'[s] = label /\ (label = "returned" => result'[s] = mid[s])
        /\ (label = "unheard" => result'[s] = 0)
    BY <1>0, <1>1, <1>2 DEF IInv, TypeOK, RememberPlaced
  <2>2. RememberPlaced(s)'
    BY <1>0, <1>1, <1>3, <1>4, <1>5, <2>1
       DEF RememberPlaced, Remembers, Writing, LookedFree, Ids
  <2>3. ForgetPlaced(s)'
    BY <1>1, <1>3, <2>1 DEF ForgetPlaced, Remembers, Searching, Scans
  <2>4. SearchPlaced(s)'
    BY <1>1, <2>1, NotSearching DEF IInv, TypeOK, Searching, Scans, Ended
  <2>5. SeenAged(s)'
    BY <1>0, <1>1, <1>5, <1>6, AgedTransitive DEF SeenAged, IInv, TypeOK
  <2> QED
    BY <2>2, <2>3, <2>4, <2>5 DEF Placed
<1> QED
  BY <1>7, <1>8, <1>9, <1>10, <1>11, <1>12 DEF IInv

(* forget, up to its commit. *)
LEMMA ForgetSteps ==
    ASSUME IInv, NEW s \in Sessions,
           (\E i \in 0..MaxId : StartForget(s, i)) \/ UpdateForget(s)
    PROVE  IInv'
<1> USE DEF Goto, Returns, store
<1>0. RememberPlaced(s) /\ ForgetPlaced(s) /\ SearchPlaced(s) /\ SeenAged(s)
  BY DEF IInv, Placed
<1>1. ASSUME NEW i \in 0..MaxId, StartForget(s, i) PROVE IInv'
  <2>1. TypeOK'
    BY <1>1 DEF StartForget, IInv, TypeOK, Ended
  <2>2. at'[s] \in {"update", "raised"} /\ (at'[s] = "update" => i \in Ids) /\ mid'[s] = i
        /\ at[s] = "idle" /\ UNCHANGED <<memories, key, draft, result, found, answer, seen>>
    BY <1>1 DEF StartForget, IInv, TypeOK
  <2>3. ~ Remembers(s) /\ result[s] = 0
    BY <1>0, <2>2 DEF RememberPlaced, ForgetPlaced
  <2>4. RowsInOrder'
    BY <1>1, <2>3 DEF StartForget, IInv, TypeOK, RowsInOrder, Remembers, Ids
  <2>5. OneDeleter'
    BY <1>1, <2>2 DEF StartForget, IInv, TypeOK, OneDeleter
  <2>6. RememberPlaced(s)' /\ ForgetPlaced(s)'
    BY <1>0, <2>2, <2>3 DEF RememberPlaced, ForgetPlaced, Remembers, Writing, Searching, Scans
  <2>7. SearchPlaced(s)' /\ SeenAged(s)'
    BY <1>0, <2>2, NotSearching DEF SeenAged, Aged, Searching, Scans, Ended
  <2> QED
    BY <1>1, <2>1, <2>4, <2>5, <2>6, <2>7, QuietStep DEF StartForget, IInv, TypeOK, Placed
<1>2. CASE UpdateForget(s)
  <2>1. at'[s] \in {"locked", "returned"} /\ seen'[s] = memories /\ at[s] = "update"
        /\ UNCHANGED <<memories, key, mid, draft, found, answer>>
        /\ (at'[s] = "locked" => mid[s] \in Live) /\ ~ Locked(mid[s])
    BY <1>2 DEF UpdateForget, IInv, TypeOK
  <2>2. result'[s] = 0 /\ ~ Remembers(s)
    BY <1>0, <1>2 DEF UpdateForget, IInv, TypeOK, RememberPlaced, ForgetPlaced
  <2>3. TypeOK'
    <3>1. at' \in [Sessions -> {"idle", "check", "insert", "embed", "vector", "commit",
                               "update", "locked", "fetch"} \cup Scans \cup Ended]
      BY <1>2 DEF UpdateForget, IInv, TypeOK, Ended
    <3>2. result' \in [Sessions -> 0..(MaxId + 1)] /\ seen' \in [Sessions -> [Ids -> Row]]
      BY <1>2, StoreAssumption DEF UpdateForget, IInv, TypeOK
    <3> QED
      BY <1>2, <3>1, <3>2 DEF UpdateForget, IInv, TypeOK
  <2>4. RowsInOrder'
    BY <1>2, OrderKept DEF UpdateForget
  <2>5. OneDeleter'
    BY <1>2, <2>1 DEF UpdateForget, IInv, TypeOK, OneDeleter, Locked
  <2>6. RememberPlaced(s)' /\ ForgetPlaced(s)'
    BY <1>0, <2>1, <2>2
       DEF RememberPlaced, ForgetPlaced, Remembers, Writing, Searching, Scans, LookedFree, Live
  <2>7. SearchPlaced(s)' /\ SeenAged(s)'
    BY <2>1, NotSearching DEF SeenAged, Aged, Searching, Scans, Ended
  <2> QED
    BY <1>2, <2>3, <2>4, <2>5, <2>6, <2>7, QuietStep DEF UpdateForget, IInv, TypeOK, Placed
<1> QED
  BY <1>1, <1>2

(* A commit of forget: the row is live, and no other call has it locked. *)
LEMMA CommitForgetSteps ==
    ASSUME IInv, NEW s \in Sessions, CommitForget(s) \/ CommitForgetUnheard(s)
    PROVE  IInv'
<1> DEFINE r == [memories[mid[s]] EXCEPT !.state = "deleted"]
<1>0. RememberPlaced(s) /\ ForgetPlaced(s) /\ SearchPlaced(s) /\ SeenAged(s)
  BY DEF IInv, Placed
<1>1. at[s] = "locked" /\ memories' = [memories EXCEPT ![mid[s]] = r]
      /\ UNCHANGED <<nextId, key, mid, draft, found, answer, seen>>
  BY DEF CommitForget, CommitForgetUnheard, Delete
<1>2. PICK label \in {"returned", "unheard"} :
          /\ at' = [at EXCEPT ![s] = label]
          /\ label = "returned" => result' = [result EXCEPT ![s] = 1]
          /\ label = "unheard" => result' = result
  BY DEF CommitForget, CommitForgetUnheard, Returns, Goto
<1>3. ~ Remembers(s) /\ mid[s] \in Ids /\ memories[mid[s]].state = "live"
  BY <1>0, <1>1 DEF ForgetPlaced, Ids
<1>4. r \in Row /\ r.state = "deleted" /\ r.key = memories[mid[s]].key
      /\ r.chunks = memories[mid[s]].chunks /\ r.vector = memories[mid[s]].vector
      /\ Aged(memories[mid[s]], r)
  BY <1>3 DEF IInv, TypeOK, Row, Aged
<1> HIDE DEF r
<1>5. memories' \in [Ids -> Row] /\ memories'[mid[s]] = r
      /\ \A i \in Ids \ {mid[s]} : memories'[i] = memories[i]
  BY <1>1, <1>3, <1>4 DEF IInv, TypeOK
<1>6. \A i \in Ids : Aged(memories[i], memories'[i])
  BY <1>4, <1>5 DEF Aged
<1>7. TypeOK'
  <2>1. at' \in [Sessions -> {"idle", "check", "insert", "embed", "vector", "commit",
                             "update", "locked", "fetch"} \cup Scans \cup Ended]
    BY <1>2 DEF IInv, TypeOK, Ended
  <2>2. result' \in [Sessions -> 0..(MaxId + 1)]
    <3>1. 1 \in 0..(MaxId + 1) /\ result \in [Sessions -> 0..(MaxId + 1)]
      BY StoreAssumption DEF IInv, TypeOK
    <3> QED
      BY <1>2, <3>1
  <2> QED
    BY <1>1, <1>5, <2>1, <2>2 DEF IInv, TypeOK
<1>8. AllOrNothing'
  BY <1>3, <1>4, <1>5 DEF IInv, AllOrNothing
<1>9. RowsInOrder'
  BY <1>1, <1>3, <1>4, <1>5 DEF IInv, TypeOK, RowsInOrder, Remembers, Ids
<1>10. OneDeleter'
  BY <1>1, <1>2 DEF IInv, TypeOK, OneDeleter
<1>11. ASSUME NEW t \in Sessions \ {s} PROVE Placed(t)'
  <2>1. UNCHANGED <<at[t], key[t], mid[t], draft[t], result[t], found[t], answer[t], seen[t]>>
    BY <1>1, <1>2 DEF IInv, TypeOK
  <2>2. ASSUME at[t] \in Writing \cup {"locked"} PROVE memories'[mid[t]] = memories[mid[t]]
    <3>1. mid[t] \in Ids /\ mid[t] # mid[s]
      BY <1>1, <1>3, <2>2
         DEF IInv, Placed, RememberPlaced, ForgetPlaced, OneDeleter, Writing, Ids
    <3> QED
      BY <1>5, <3>1
  <2> QED
    BY <1>5, <1>6, <2>1, <2>2, OthersPlaced
<1>12. Placed(s)'
  <2>1. at'[s] = label /\ (label = "unheard" => result'[s] = 0)
    BY <1>0, <1>1, <1>2 DEF IInv, TypeOK, RememberPlaced
  <2>2. RememberPlaced(s)'
    BY <1>0, <1>1, <1>3, <2>1 DEF RememberPlaced, Remembers, Writing, LookedFree
  <2>3. ForgetPlaced(s)'
    BY <1>1, <1>3, <1>4, <1>5, <2>1 DEF ForgetPlaced, Remembers, Searching, Scans
  <2>4. SearchPlaced(s)'
    BY <1>1, <2>1, NotSearching DEF IInv, TypeOK, Searching, Scans, Ended
  <2>5. SeenAged(s)'
    BY <1>0, <1>1, <1>5, <1>6, AgedTransitive DEF SeenAged, IInv, TypeOK
  <2> QED
    BY <2>2, <2>3, <2>4, <2>5 DEF Placed
<1> QED
  BY <1>7, <1>8, <1>9, <1>10, <1>11, <1>12 DEF IInv

(* A live row has a chunk, so that the last statement selects it. *)
LEMMA LiveIsEligible == IInv => \A i \in Live : i \in Eligible("scan4")
<1> SUFFICES ASSUME IInv, NEW i \in Live PROVE i \in Eligible("scan4")
  OBVIOUS
<1>1. i \in Ids /\ memories[i] \in Row /\ memories[i].state = "live"
  BY DEF Live, IInv, TypeOK
<1>2. memories[i].chunks = Chunks[memories[i].key]
  BY <1>1 DEF IInv, AllOrNothing
<1>3. memories[i].chunks > 0
  BY <1>1, <1>2, StoreAssumption DEF IInv, RowsInOrder
<1> QED
  BY <1>3 DEF Eligible

(* The more candidates, the more of them. *)
LEMMA CardinalityGrows ==
    ASSUME NEW all \in SUBSET Ids, NEW some \in SUBSET all, Cardinality(some) = Limit
    PROVE  Cardinality(all) >= Limit
<1>1. IsFiniteSet(Ids)
  BY FS_Interval, StoreAssumption DEF Ids
<1>2. IsFiniteSet(all)
  BY <1>1, FS_Subset
<1>3. Cardinality(some) <= Cardinality(all) /\ Cardinality(all) \in Nat
  BY <1>2, FS_Subset, FS_CardinalityType
<1> QED
  BY <1>3, StoreAssumption

(* search. *)
LEMMA SearchSteps ==
    ASSUME IInv, NEW s \in Sessions, StartSearch(s) \/ Scan(s) \/ Fetch(s)
    PROVE  IInv'
<1> USE DEF Goto, store
<1>0. RememberPlaced(s) /\ ForgetPlaced(s) /\ SearchPlaced(s) /\ SeenAged(s)
  BY DEF IInv, Placed
<1>1. CASE StartSearch(s)
  <2>1. TypeOK'
    BY <1>1 DEF StartSearch, IInv, TypeOK, Scans
  <2>2. at'[s] = "scan1" /\ at[s] = "idle" /\ seen'[s] = memories
        /\ UNCHANGED <<memories, key, mid, draft, result, found, answer>>
    BY <1>1 DEF StartSearch, IInv, TypeOK
  <2>3. RowsInOrder'
    BY <1>1, OrderKept DEF StartSearch
  <2>4. OneDeleter'
    BY <1>1 DEF StartSearch, IInv, TypeOK, OneDeleter
  <2>5. RememberPlaced(s)' /\ ForgetPlaced(s)'
    BY <1>0, <2>2 DEF RememberPlaced, ForgetPlaced, Remembers, Writing, Searching, Scans
  <2>6. SearchPlaced(s)' /\ SeenAged(s)'
    BY <1>0, <2>2 DEF RememberPlaced, SearchPlaced, SeenAged, Aged, Searching, Scans, Ended
  <2> QED
    BY <1>1, <2>1, <2>3, <2>4, <2>5, <2>6, QuietStep DEF StartSearch, IInv, TypeOK, Placed
<1>2. CASE Scan(s)
  <2>0. PICK new \in Selections(at[s]) : found' = [found EXCEPT ![s] = @ \cup new]
    BY <1>2 DEF Scan
  <2>1. at[s] \in Scans /\ found'[s] = found[s] \cup new /\ at'[s] = NextStatement[at[s]]
        /\ UNCHANGED <<memories, key, mid, draft, result, answer, seen>>
    BY <1>2, <2>0 DEF Scan, IInv, TypeOK
  <2>2. at'[s] \in Searching /\ (at'[s] = "fetch" => at[s] = "scan4")
    BY <2>1 DEF NextStatement, Scans, Searching
  <2>3. new \subseteq Live
    BY <2>1 DEF Selections, Eligible, Scans, Live
  <2>4. at[s] = "scan4" => Live \subseteq new \/ Cardinality(found'[s]) >= Limit
    <3>1. CASE new = Eligible(at[s])
      BY <3>1, LiveIsEligible
    <3>2. CASE Cardinality(new) = Limit
      <4>1. found'[s] \subseteq Ids /\ new \subseteq found'[s]
        BY <2>1, <2>3 DEF Live, IInv, TypeOK
      <4> QED
        BY <3>2, <4>1, CardinalityGrows
    <3> QED
      BY <2>0, <3>1, <3>2 DEF Selections
  <2>5. TypeOK'
    <3>1. found' = [found EXCEPT ![s] = @ \cup new]
      BY <2>0
    <3>2. at' = [at EXCEPT ![s] = at'[s]]
      BY <1>2, <2>1 DEF Scan
    <3>3. Live \subseteq Ids
      BY DEF Live
    <3> QED
      BY <1>2, <2>2, <2>3, <3>1, <3>2, <3>3 DEF Scan, IInv, TypeOK, Searching
  <2>6. RowsInOrder'
    BY <1>2, OrderKept DEF Scan
  <2>7. OneDeleter'
    BY <1>2, <2>2 DEF Scan, IInv, TypeOK, OneDeleter, Searching, Scans
  <2>8. RememberPlaced(s)' /\ ForgetPlaced(s)'
    BY <1>0, <2>1, <2>2
       DEF RememberPlaced, ForgetPlaced, Remembers, Writing, Searching, Scans, LookedFree
  <2>9. \A i \in Live : seen[s][i].state # "deleted"
    <3>1. ASSUME NEW i \in Live PROVE seen[s][i].state # "deleted"
      BY <1>0, AgedKeeps DEF SeenAged, IInv, TypeOK, Live
    <3> QED
      BY <3>1
  <2>10. SearchPlaced(s)'
    BY <1>0, <2>1, <2>2, <2>3, <2>4, <2>9 DEF SearchPlaced, Searching, Scans, Ended, Live
  <2>11. SeenAged(s)'
    BY <1>0, <2>1 DEF SeenAged, Aged
  <2> QED
    BY <1>2, <2>5, <2>6, <2>7, <2>8, <2>10, <2>11, QuietStep DEF Scan, IInv, TypeOK, Placed
<1>3. CASE Fetch(s)
  <2>1. PICK top \in SUBSET found[s] :
           answer' = [answer EXCEPT ![s] = {<<i, memories[i].state = "deleted">> : i \in top}]
    BY <1>3 DEF Fetch
  <2>2. at[s] = "fetch" /\ at'[s] = "returned"
        /\ UNCHANGED <<memories, key, mid, draft, result, found, seen>>
    BY <1>3 DEF Fetch, IInv, TypeOK
  <2>3. {<<i, memories[i].state = "deleted">> : i \in top} \in SUBSET (Ids \X BOOLEAN)
    <3>1. top \subseteq Ids
      BY DEF IInv, TypeOK
    <3>2. \A i \in top : (memories[i].state = "deleted") \in BOOLEAN
      OBVIOUS
    <3>3. \A i \in top : <<i, memories[i].state = "deleted">> \in Ids \X BOOLEAN
      BY <3>1, <3>2, Zenon
    <3> QED
      BY <3>3, Zenon
  <2>4. TypeOK'
    BY <1>3, <2>1, <2>3 DEF Fetch, IInv, TypeOK, Ended
  <2>5. RowsInOrder'
    BY <1>3, OrderKept DEF Fetch
  <2>6. OneDeleter'
    BY <1>3 DEF Fetch, IInv, TypeOK, OneDeleter
  <2>7. ~ Remembers(s)
    BY <1>0, <2>2 DEF ForgetPlaced, Searching
  <2>8. RememberPlaced(s)' /\ ForgetPlaced(s)'
    BY <1>0, <2>2, <2>7
       DEF RememberPlaced, ForgetPlaced, Remembers, Writing, Searching, Scans, LookedFree
  <2>9. \A i \in Ids : <<i, TRUE>> \in answer'[s] => i \in found[s] /\ memories[i].state = "deleted"
    BY <2>1 DEF IInv, TypeOK
  <2>10. SearchPlaced(s)'
    BY <1>0, <2>2, <2>9 DEF SearchPlaced, Searching, Scans, Ended
  <2>11. SeenAged(s)'
    BY <1>0, <2>2 DEF SeenAged, Aged
  <2> QED
    BY <1>3, <2>4, <2>5, <2>6, <2>8, <2>10, <2>11, QuietStep DEF Fetch, IInv, TypeOK, Placed
<1> QED
  BY <1>1, <1>2, <1>3

(* A failure and a crash end the call and leave everything else alone. *)
LEMMA EndSteps ==
    ASSUME IInv, NEW s \in Sessions, Fail(s) \/ Crash(s)
    PROVE  IInv'
<1>0. RememberPlaced(s) /\ ForgetPlaced(s) /\ SearchPlaced(s) /\ SeenAged(s)
  BY DEF IInv, Placed
<1>1. PICK end \in {"raised", "crashed"} : at' = [at EXCEPT ![s] = end]
  BY DEF Fail, RollBack, Crash, Goto
<1>2. at[s] \notin Ended
      /\ UNCHANGED <<memories, nextId, key, mid, draft, result, found, answer, seen>>
  BY DEF Fail, RollBack, Crash, store
<1>3. TypeOK'
  BY <1>1, <1>2 DEF IInv, TypeOK, Ended
<1>4. at'[s] = end
  BY <1>1 DEF IInv, TypeOK
<1>5. RowsInOrder'
  BY <1>2, OrderKept
<1>6. OneDeleter'
  BY <1>1, <1>2 DEF IInv, TypeOK, OneDeleter
<1>7. Placed(s)'
  BY <1>0, <1>2, <1>4
     DEF Placed, RememberPlaced, ForgetPlaced, SearchPlaced, SeenAged, Aged, Remembers, Writing,
         Searching, Scans, Ended, LookedFree
<1> QED
  BY <1>1, <1>2, <1>3, <1>5, <1>6, <1>7, QuietStep DEF IInv, TypeOK

(* The invariant survives every step and every stutter. *)
LEMMA Inductive == IInv /\ [Next]_vars => IInv'
<1> SUFFICES ASSUME IInv, [Next]_vars PROVE IInv'
  OBVIOUS
<1>1. ASSUME NEW s \in Sessions, Start(s) \/ Run(s) \/ Fail(s) \/ Crash(s) PROVE IInv'
  BY <1>1, RememberSteps, CommitRememberSteps, ForgetSteps, CommitForgetSteps, SearchSteps,
     EndSteps DEF Start, Run
<1>2. CASE UNCHANGED vars
  <2>1. TypeOK' /\ AllOrNothing' /\ OneDeleter'
    BY <1>2 DEF vars, IInv, TypeOK, AllOrNothing, OneDeleter
  <2>2. RowsInOrder'
    BY <1>2, OrderKept DEF vars
  <2>3. \A s \in Sessions : Placed(s)'
    BY <1>2, OthersPlaced DEF vars, IInv, TypeOK, Aged
  <2> QED
    BY <2>1, <2>2, <2>3 DEF IInv
<1> QED
  BY <1>1, <1>2 DEF Next

(* The strengthened invariant holds of every reachable state. *)
THEOREM Invariance == Spec => []IInv
BY InitIInv, Inductive, PTL DEF Spec

-----------------------------------------------------------------------------
(* What follows from it.                                                   *)

(* Every variable of the memory repository keeps its type. *)
THEOREM TypeCorrect == Spec => []TypeOK
BY Invariance, PTL DEF IInv

(* A committed memory has all its chunks and the vector it should have,
   whatever fails and whoever crashes while it is written. *)
THEOREM AllOrNothingHolds == Spec => []AllOrNothing
BY Invariance, PTL DEF IInv

(* Two live rows of one content come from calls that overlapped. *)
THEOREM DuplicatesAreRaces == Spec => []OnlyRacesDuplicate
<1>1. IInv => OnlyRacesDuplicate
  <2> SUFFICES ASSUME IInv, NEW s \in Sessions, Remembers(s), mid[s] \in Live,
                      NEW i \in Live \ {mid[s]}, memories[i].key = key[s],
                      seen[s][i].state = "live"
               PROVE  FALSE
    BY DEF OnlyRacesDuplicate
  <2>1. i \in Ids /\ seen[s][i] \in Row /\ memories[i] \in Row
    BY DEF Live, IInv, TypeOK
  <2>2. seen[s][i].key = memories[i].key
    BY <2>1, AgedKeeps DEF IInv, Placed, SeenAged
  <2>3. LookedFree(s)
    BY DEF IInv, Placed, RememberPlaced, Live, Ids
  <2> QED
    BY <2>1, <2>2, <2>3 DEF LookedFree
<1> QED
  BY Invariance, <1>1, PTL

(* What remember returns is true: 0 for a content that was there when it
   looked, an id of a row with that content otherwise. *)
THEOREM RepliesAreTrue == Spec => []ReturnsTellTheTruth
<1>1. IInv => ReturnsTellTheTruth
  BY DEF IInv, Placed, RememberPlaced, ReturnsTellTheTruth
<1> QED
  BY Invariance, <1>1, PTL

(* A search misses a memory that was live when it began and still is only
   when it has as many candidates as one statement may return. *)
THEOREM SearchHolds == Spec => []SearchIsCurrent
<1>1. IInv => SearchIsCurrent
  BY DEF IInv, Placed, SearchPlaced, SearchIsCurrent, Searching
<1> QED
  BY Invariance, <1>1, PTL

(* No step changes a committed row but to delete it, for good. *)
THEOREM RowsAge == Spec => RowsOnlyAge
<1> DEFINE Ages == \A i \in Ids :
              memories[i].state # "absent" =>
                  \/ memories'[i] = memories[i]
                  \/ /\ memories[i].state = "live"
                     /\ memories'[i] = [memories[i] EXCEPT !.state = "deleted"]
<1>1. IInv /\ [Next]_vars => [Ages]_vars
  <2> SUFFICES ASSUME IInv, NEW s \in Sessions, Start(s) \/ Run(s) \/ Fail(s) \/ Crash(s)
               PROVE  Ages
    BY DEF Next
  <2>1. ASSUME UNCHANGED memories PROVE Ages
    BY <2>1
  <2>2. ASSUME Insert(s), at[s] = "commit" PROVE Ages
    <3>1. mid[s] \in Ids /\ memories[mid[s]].state = "absent"
      BY <2>2 DEF IInv, Placed, RememberPlaced, Writing, Ids
    <3> QED
      BY <2>2, <3>1 DEF Insert, IInv, TypeOK
  <2>3. ASSUME Delete(s), at[s] = "locked" PROVE Ages
    <3>1. mid[s] \in Ids /\ memories[mid[s]].state = "live"
      BY <2>3 DEF IInv, Placed, ForgetPlaced, Ids
    <3> QED
      BY <2>3, <3>1 DEF Delete, IInv, TypeOK
  <2>4. CASE CommitRemember(s) \/ CommitRememberUnheard(s)
    BY <2>2, <2>4 DEF CommitRemember, CommitRememberUnheard
  <2>5. CASE CommitForget(s) \/ CommitForgetUnheard(s)
    BY <2>3, <2>5 DEF CommitForget, CommitForgetUnheard
  <2>6. CASE ~ (\/ CommitRemember(s) \/ CommitRememberUnheard(s)
                \/ CommitForget(s) \/ CommitForgetUnheard(s))
    <3>1. UNCHANGED memories
      BY <2>6 DEF Start, Run, StartRemember, CheckDuplicate, InsertRow, EmbedChunk, EmbedParent,
                  StartForget, UpdateForget, StartSearch, Scan, Fetch, Fail, RollBack, Crash, store
    <3> QED
      BY <2>1, <3>1
  <2> QED
    BY <2>4, <2>5, <2>6
<1> QED
  BY Invariance, <1>1, PTL DEF Spec, RowsOnlyAge

(* What a step does to the calls: it moves its own, which has not ended, and
   takes its key from StartRemember only. *)
LEMMA OwnMove ==
    ASSUME IInv, NEW s \in Sessions, Start(s) \/ Run(s) \/ Fail(s) \/ Crash(s)
    PROVE  /\ at[s] \notin Ended
           /\ \A t \in Sessions \ {s} : UNCHANGED <<at[t], key[t], mid[t], result[t], seen[t]>>
           /\ at'[s] # "idle"
           /\ key'[s] = key[s] \/ \E k \in Keys : StartRemember(s, k)
           /\ at'[s] \in {"update", "locked"} =>
                 at[s] = "update" \/ \E i \in 0..MaxId : StartForget(s, i)
           /\ at[s] = "idle" => Start(s) \/ at'[s] = "crashed"
<1> USE DEF IInv, TypeOK, Goto, Returns, Ended, Scans
<1>1. CASE Start(s)
  BY <1>1 DEF Start, StartRemember, StartForget, StartSearch
<1>2. CASE CheckDuplicate(s) \/ InsertRow(s) \/ EmbedChunk(s) \/ EmbedParent(s)
  BY <1>2 DEF CheckDuplicate, InsertRow, EmbedChunk, EmbedParent
<1>3. CASE \/ CommitRemember(s) \/ CommitRememberUnheard(s) \/ UpdateForget(s)
           \/ CommitForget(s) \/ CommitForgetUnheard(s)
  BY <1>3 DEF CommitRemember, CommitRememberUnheard, UpdateForget, CommitForget,
              CommitForgetUnheard
<1>4. CASE Scan(s) \/ Fetch(s)
  BY <1>4 DEF Scan, Fetch, NextStatement
<1>5. CASE Fail(s) \/ Crash(s)
  BY <1>5 DEF Fail, RollBack, Crash
<1> QED
  BY <1>1, <1>2, <1>3, <1>4, <1>5 DEF Run

Deletes(s) == CommitForget(s) \/ CommitForgetUnheard(s)

(* Of the other steps none deletes a memory, and none but UPDATE answers a
   forget. *)
LEMMA OtherSteps ==
    ASSUME IInv, NEW s \in Sessions, Start(s) \/ Run(s) \/ Fail(s) \/ Crash(s), ~ Deletes(s)
    PROVE  /\ \A i \in Ids : memories'[i].state = "deleted" <=> memories[i].state = "deleted"
           /\ \/ UpdateForget(s)
              \/ Remembers(s)' \/ mid'[s] = 0 \/ at'[s] \notin {"returned", "unheard"}
<1> USE DEF Goto, Returns, store
<1>0. RememberPlaced(s) /\ ForgetPlaced(s) /\ SearchPlaced(s)
  BY DEF IInv, Placed
<1>1. CASE CommitRemember(s) \/ CommitRememberUnheard(s)
  <2>1. Remembers(s)' /\ mid[s] \in Ids /\ memories[mid[s]].state = "absent"
    BY <1>0, <1>1 DEF CommitRemember, CommitRememberUnheard, RememberPlaced, Writing, Remembers, Ids
  <2>2. Insert(s)
    BY <1>1 DEF CommitRemember, CommitRememberUnheard
  <2> QED
    BY <2>1, <2>2 DEF Insert, IInv, TypeOK
<1>2. CASE UNCHANGED memories
  <2>1. CASE CheckDuplicate(s)
    BY <1>0, <1>2, <2>1 DEF CheckDuplicate, RememberPlaced, Remembers
  <2>2. CASE Fetch(s)
    BY <1>0, <1>2, <2>2 DEF Fetch, SearchPlaced, Searching
  <2>3. CASE ~ (CheckDuplicate(s) \/ Fetch(s) \/ UpdateForget(s) \/ CommitRemember(s)
                \/ CommitRememberUnheard(s))
    <3>1. ASSUME NEW i \in 0..MaxId, StartForget(s, i) PROVE at'[s] \notin {"returned", "unheard"}
      BY <3>1 DEF StartForget, IInv, TypeOK
    <3>2. ASSUME Scan(s) PROVE at'[s] \notin {"returned", "unheard"}
      BY <3>2 DEF Scan, NextStatement, Scans, IInv, TypeOK
    <3>3. ASSUME EmbedChunk(s) PROVE at'[s] \notin {"returned", "unheard"}
      BY <3>3 DEF EmbedChunk, IInv, TypeOK
    <3>4. at'[s] \notin {"returned", "unheard"}
      BY <2>3, <3>1, <3>2, <3>3
         DEF Deletes, Start, Run, StartRemember, InsertRow, EmbedParent, StartSearch, Fail,
             RollBack, Crash, IInv, TypeOK
    <3> QED
      BY <1>2, <3>4
  <2> QED
    BY <1>1, <1>2, <2>1, <2>2, <2>3
<1> QED
  BY <1>1, <1>2
     DEF Deletes, Start, Run, StartRemember, CheckDuplicate, InsertRow, EmbedChunk, EmbedParent,
         StartForget, UpdateForget, StartSearch, Scan, Fetch, Fail, RollBack, Crash

(* However many calls forget a memory at once, one of them deletes it, and
   each is told what it found. *)
THEOREM OneWinner == Spec => []OneForgetWins
<1>1. Init => OneForgetWins
  BY DEF Init, OneForgetWins, Deleted, NoRow
<1>2. ASSUME IInv, OneForgetWins, [Next]_vars PROVE OneForgetWins'
  <2>1. CASE UNCHANGED vars
    BY <1>2, <2>1 DEF vars, OneForgetWins, Deleted, Remembers
  <2>2. ASSUME NEW u \in Sessions, Start(u) \/ Run(u) \/ Fail(u) \/ Crash(u)
        PROVE  OneForgetWins'
    <3>0. ForgetPlaced(u) /\ IInv
      BY <1>2 DEF IInv, Placed
    <3>1. /\ at[u] \notin Ended
          /\ \A t \in Sessions \ {u} : UNCHANGED <<at[t], key[t], mid[t], result[t], seen[t]>>
      BY <2>2, <3>0, OwnMove
    <3>2. /\ \A i : ~ Deleted(u, i)
          /\ \A t \in Sessions \ {u} : (Remembers(t)' = Remembers(t)) /\ \A i : Deleted(t, i)' = Deleted(t, i)
      BY <3>1 DEF Deleted, Remembers, Ended
    <3> SUFFICES ASSUME NEW i \in Ids
                 PROVE  /\ memories'[i].state = "deleted" <=> \E s \in Sessions : Deleted(s, i)'
                        /\ \A s, t \in Sessions : Deleted(s, i)' /\ Deleted(t, i)' => s = t
                        /\ ~ Remembers(u)' /\ mid'[u] = i /\ at'[u] \in {"returned", "unheard"} =>
                              (Deleted(u, i)' <=> seen'[u][i].state = "live")
      BY <1>2, <3>1, <3>2 DEF OneForgetWins
    <3>3. /\ memories[i].state = "deleted" <=> \E s \in Sessions : Deleted(s, i)
          /\ \A s, t \in Sessions : Deleted(s, i) /\ Deleted(t, i) => s = t
      BY <1>2 DEF OneForgetWins
    <3>4. CASE Deletes(u)
      <4>1. /\ mid'[u] = mid[u] /\ mid[u] \in Ids /\ memories[mid[u]].state = "live"
            /\ ~ Remembers(u)' /\ seen'[u] = seen[u] /\ seen[u][mid[u]].state = "live"
        BY <3>0, <3>4 DEF Deletes, CommitForget, CommitForgetUnheard, ForgetPlaced, Remembers, Ids
      <4>2. Deleted(u, mid[u])' /\ (i # mid[u] => ~ Deleted(u, i)')
        BY <3>0, <3>4, <4>1
           DEF Deletes, CommitForget, CommitForgetUnheard, Deleted, Returns, Goto, IInv, TypeOK
      <4>3. /\ memories'[mid[u]].state = "deleted"
            /\ i # mid[u] => memories'[i] = memories[i]
        BY <3>0, <3>4, <4>1
           DEF Deletes, CommitForget, CommitForgetUnheard, Delete, IInv, TypeOK, Row
      <4> QED
        BY <3>2, <3>3, <4>1, <4>2, <4>3
    <3>5. CASE ~ Deletes(u)
      <4>1. memories'[i].state = "deleted" <=> memories[i].state = "deleted"
        BY <2>2, <3>0, <3>5, OtherSteps
      <4>2. /\ ~ Deleted(u, i)'
            /\ ~ Remembers(u)' /\ mid'[u] = i /\ at'[u] \in {"returned", "unheard"} =>
                  seen'[u][i].state # "live"
        <5>1. CASE UpdateForget(u)
          BY <3>0, <5>1 DEF UpdateForget, Deleted, Returns, Goto, Live, IInv, TypeOK
        <5>2. CASE ~ UpdateForget(u)
          BY <2>2, <3>0, <3>5, <5>2, OtherSteps DEF Deleted, Ids
        <5> QED
          BY <5>1, <5>2
      <4> QED
        BY <3>2, <3>3, <4>1, <4>2
    <3> QED
      BY <3>4, <3>5
  <2> QED
    BY <1>2, <2>1, <2>2 DEF Next
<1> QED
  BY Invariance, <1>1, <1>2, PTL DEF Spec

-----------------------------------------------------------------------------
(* AuditedMemory: the same calls under the audit log.                      *)

(* The rows that a remember and a forget have behind them. *)
RowsHaveCalls ==
    \A i \in Ids :
        /\ memories[i].state # "absent" =>
              \E s \in Sessions : Tool[s] = "remember" /\ mid[s] = i /\ Committed(s)
        /\ memories[i].state = "deleted" =>
              \E s \in Sessions : Tool[s] = "forget" /\ mid[s] = i /\ Committed(s)

(* What the place of a call in IlmaService.call says of its body, and what
   the tool says of it. *)
CallPlaced(s) ==
    /\ phase[s] = "idle" => at[s] = "idle" /\ outcome[s] = "none" /\ audit[s] = "none"
    /\ at[s] # "idle" => outcome[s] # "refused" /\ (s \in WriteCalls => audit[s] # "none")
    /\ phase[s] = "body" => outcome[s] = "none" /\ (s \in WriteCalls => audit[s] = "pending")
    /\ phase[s] = "finish" => s \in WriteCalls
    /\ outcome[s] = "ok" => at[s] = "returned"
    /\ audit[s] = "succeeded" => outcome[s] = "ok" /\ s \in WriteCalls
    /\ Remembers(s) => Tool[s] = "remember"
    /\ Tool[s] = "remember" /\ at[s] \notin {"idle", "crashed"} => Remembers(s)
    /\ at[s] \in {"update", "locked"} => Tool[s] = "forget"

CallTypeOK ==
    /\ phase \in [Sessions -> {"idle", "body", "finish", "record", "done", "crashed"}]
    /\ audit \in [Sessions -> {"none", "pending", "succeeded", "failed"}]
    /\ outcome \in [Sessions -> {"none", "ok", "raised", "refused"}]
    /\ observed \in [Sessions -> {"none", "info", "error"}]

AllInv ==
    /\ IInv
    /\ CallTypeOK
    /\ RowsHaveCalls
    /\ \A s \in Sessions : CallPlaced(s)

(* A step of the composed system is a step of the repository, or leaves it
   alone. *)
LEMMA StepsOfStore == NextAll => [Next]_vars
<1> SUFFICES ASSUME NEW s \in Sessions, Around(s) \/ Body(s) \/ Break(s) \/ Die(s)
             PROVE  [Next]_vars
  BY DEF NextAll
<1>1. CASE Around(s)
  BY <1>1 DEF Around
<1>2. CASE Body(s)
  BY <1>2 DEF Body, Start, Next
<1>3. CASE Break(s)
  BY <1>3 DEF Break, Next
<1>4. CASE Die(s)
  BY <1>4 DEF Die, Next
<1> QED
  BY <1>1, <1>2, <1>3, <1>4

(* The rows a step changes, and who did it. *)
LEMMA OwnRows ==
    ASSUME IInv, NEW s \in Sessions, Start(s) \/ Run(s) \/ Fail(s) \/ Crash(s)
    PROVE  \/ UNCHANGED memories
           \/ /\ Remembers(s) /\ mid'[s] = mid[s] /\ Committed(s)'
              /\ \A i \in Ids \ {mid[s]} : memories'[i] = memories[i]
              /\ memories'[mid[s]].state = "live"
           \/ /\ at[s] = "locked" /\ mid'[s] = mid[s] /\ Committed(s)'
              /\ \A i \in Ids \ {mid[s]} : memories'[i] = memories[i]
              /\ memories[mid[s]].state = "live"
<1> USE DEF IInv, TypeOK, Goto, Returns, Committed
<1>1. CASE CommitRemember(s) \/ CommitRememberUnheard(s)
  <2>1. Remembers(s) /\ mid[s] \in Ids
    BY <1>1 DEF CommitRemember, CommitRememberUnheard, Placed, RememberPlaced, Writing, Ids
  <2> QED
    BY <1>1, <2>1 DEF CommitRemember, CommitRememberUnheard, Insert
<1>2. CASE CommitForget(s) \/ CommitForgetUnheard(s)
  <2>1. mid[s] \in Ids /\ memories[mid[s]].state = "live"
    BY <1>2 DEF CommitForget, CommitForgetUnheard, Placed, ForgetPlaced, Ids
  <2> QED
    BY <1>2, <2>1 DEF CommitForget, CommitForgetUnheard, Delete
<1>3. CASE ~ (\/ CommitRemember(s) \/ CommitRememberUnheard(s)
              \/ CommitForget(s) \/ CommitForgetUnheard(s))
  BY <1>3 DEF Start, Run, StartRemember, CheckDuplicate, InsertRow, EmbedChunk, EmbedParent,
              StartForget, UpdateForget, StartSearch, Scan, Fetch, Fail, RollBack, Crash, store
<1> QED
  BY <1>1, <1>2, <1>3

(* Rows keep their calls, whatever a body does. *)
LEMMA BodyKeepsRows ==
    ASSUME AllInv, NEW s \in Sessions, Start(s) \/ Run(s) \/ Fail(s) \/ Crash(s)
    PROVE  RowsHaveCalls'
<1>1. IInv /\ RowsHaveCalls /\ CallPlaced(s)
  BY DEF AllInv
<1>2. \A t \in Sessions : Committed(t) => t # s /\ mid'[t] = mid[t] /\ Committed(t)'
  BY <1>1, OwnMove DEF Committed, Ended
<1>3. CASE UNCHANGED memories
  BY <1>1, <1>2, <1>3 DEF RowsHaveCalls
<1>4. CASE /\ Remembers(s) /\ mid'[s] = mid[s] /\ Committed(s)'
           /\ \A i \in Ids \ {mid[s]} : memories'[i] = memories[i]
           /\ memories'[mid[s]].state = "live"
  BY <1>1, <1>2, <1>4 DEF RowsHaveCalls, CallPlaced
<1>5. CASE /\ at[s] = "locked" /\ mid'[s] = mid[s] /\ Committed(s)'
           /\ \A i \in Ids \ {mid[s]} : memories'[i] = memories[i]
           /\ memories[mid[s]].state = "live"
  BY <1>1, <1>2, <1>5 DEF RowsHaveCalls, CallPlaced
<1> QED
  BY <1>1, <1>3, <1>4, <1>5, OwnRows

(* The body of a call. *)
LEMMA BodySteps == ASSUME AllInv, NEW s \in Sessions, Body(s) \/ Break(s) PROVE AllInv'
<1>1. IInv /\ CallTypeOK /\ phase[s] = "body" /\ UNCHANGED callVars
  BY DEF AllInv, Body, Break
<1>2. Start(s) \/ Run(s) \/ Fail(s) \/ Crash(s)
  BY DEF Body, Break, Start
<1>3. IInv'
  BY <1>1, <1>2, Inductive DEF Next
<1>4. CallTypeOK'
  BY <1>1 DEF CallTypeOK, callVars
<1>5. RowsHaveCalls'
  BY <1>2, BodyKeepsRows
<1>6. \A t \in Sessions \ {s} : CallPlaced(t)'
  BY <1>1, <1>2, OwnMove DEF AllInv, CallPlaced, callVars, Remembers
<1>7. CallPlaced(s)'
  <2>1. CallPlaced(s) /\ UNCHANGED <<phase[s], audit[s], outcome[s]>>
    BY <1>1 DEF AllInv, callVars
  <2>2. \A k \in Keys : StartRemember(s, k) => Tool[s] = "remember" /\ key'[s] = k
    <3>1. ASSUME NEW k \in Keys, StartRemember(s, k) PROVE Tool[s] = "remember"
      <4>1. at[s] = "idle" /\ at'[s] = "check"
        BY <1>1, <3>1 DEF StartRemember, Goto, IInv, TypeOK
      <4>2. ~ Run(s) /\ ~ Fail(s) /\ ~ (\E i \in 0..MaxId : StartForget(s, i)) /\ ~ StartSearch(s)
        BY <1>1, <4>1
           DEF Run, CheckDuplicate, InsertRow, EmbedChunk, EmbedParent, CommitRemember,
               CommitRememberUnheard, UpdateForget, CommitForget, CommitForgetUnheard, Scan, Scans,
               Fetch, Fail, StartForget, StartSearch, Goto, IInv, TypeOK
      <4> QED
        BY <4>2 DEF Body, Break
    <3> QED
      BY <1>1, <3>1 DEF StartRemember, IInv, TypeOK
  <2>3. \A i \in 0..MaxId : StartForget(s, i) => Tool[s] = "forget"
    <3>1. ASSUME NEW i \in 0..MaxId, StartForget(s, i) PROVE Tool[s] = "forget"
      <4>1. at[s] = "idle" /\ at'[s] \in {"update", "raised"}
        BY <1>1, <3>1 DEF StartForget, Goto, IInv, TypeOK
      <4>2. ~ Run(s) /\ ~ Fail(s) /\ ~ (\E k \in Keys : StartRemember(s, k)) /\ ~ StartSearch(s)
        BY <1>1, <4>1
           DEF Run, CheckDuplicate, InsertRow, EmbedChunk, EmbedParent, CommitRemember,
               CommitRememberUnheard, UpdateForget, CommitForget, CommitForgetUnheard, Scan, Scans,
               Fetch, Fail, StartRemember, StartSearch, Goto, IInv, TypeOK
      <4> QED
        BY <4>2 DEF Body, Break
    <3> QED
      BY <3>1
  <2>4. at[s] = "idle" /\ Tool[s] = "remember" => \E k \in Keys : StartRemember(s, k)
    <3>1. ASSUME at[s] = "idle" PROVE ~ Run(s) /\ ~ Fail(s)
      BY <3>1 DEF Run, CheckDuplicate, InsertRow, EmbedChunk, EmbedParent, CommitRemember,
               CommitRememberUnheard, UpdateForget, CommitForget, CommitForgetUnheard, Scan, Scans,
               Fetch, Fail
    <3> QED
      BY <3>1 DEF Body, Break
  <2>5. at[s] \notin Ended /\ at'[s] # "idle"
    BY <1>1, <1>2, OwnMove
  <2>6. key'[s] = key[s] \/ \E k \in Keys : StartRemember(s, k)
    BY <1>1, <1>2, OwnMove
  <2>7. \A k \in Keys : k # NoKey
    BY StoreAssumption
  <2>8. Remembers(s)' => Tool[s] = "remember"
    BY <2>1, <2>2, <2>6 DEF CallPlaced, Remembers
  <2>9. Tool[s] = "remember" /\ at'[s] \notin {"idle", "crashed"} => Remembers(s)'
    BY <2>1, <2>2, <2>4, <2>5, <2>6, <2>7 DEF CallPlaced, Remembers, Ended
  <2>10. at'[s] \in {"update", "locked"} => Tool[s] = "forget"
    BY <1>1, <1>2, <2>1, <2>3, OwnMove DEF CallPlaced
  <2> QED
    BY <1>1, <2>1, <2>5, <2>8, <2>9, <2>10 DEF CallPlaced
<1> QED
  BY <1>3, <1>4, <1>5, <1>6, <1>7 DEF AllInv

(* What call() does outside the body: it begins it only from the idle call,
   and marks a success only for a body that returned. *)
LEMMA AroundSteps ==
    ASSUME AllInv, NEW s \in Sessions, UNCHANGED vars,
           \/ Call!BeginRead(s) \/ Call!BeginWrite(s) \/ Call!BeginRefused(s)
           \/ at[s] = "returned" /\ Call!BodyReturns(s)
           \/ at[s] \in {"raised", "unheard"} /\ Call!BodyRaises(s)
           \/ Call!Finish(s) \/ Call!Record(s) \/ Call!Crash(s)
    PROVE  AllInv'
<1> USE DEF Call!Goto, Call!AfterBody, Call!Terminal
<1>1. IInv /\ CallTypeOK /\ RowsHaveCalls /\ CallPlaced(s)
  BY DEF AllInv
<1>2. IInv'
  BY <1>1, Inductive
<1>3. RowsHaveCalls'
  BY <1>1 DEF RowsHaveCalls, Committed, vars
<1>4. CallTypeOK'
  BY <1>1
     DEF CallTypeOK, Call!BeginRead, Call!BeginWrite, Call!BeginRefused, Call!BodyReturns,
         Call!BodyRaises, Call!Finish, Call!Mark, Call!Record, Call!Crash
<1>5. \A t \in Sessions \ {s} : UNCHANGED <<phase[t], audit[t], outcome[t]>>
  BY <1>1
     DEF CallTypeOK, Call!BeginRead, Call!BeginWrite, Call!BeginRefused, Call!BodyReturns,
         Call!BodyRaises, Call!Finish, Call!Mark, Call!Record, Call!Crash
<1>6. \A t \in Sessions \ {s} : CallPlaced(t)'
  BY <1>5 DEF AllInv, CallPlaced, vars, Remembers
<1>7. CallPlaced(s)'
  <2> USE <1>1 DEF CallTypeOK, CallPlaced, vars, Remembers
  <2>1. CASE Call!BeginRead(s) \/ Call!BeginWrite(s) \/ Call!BeginRefused(s)
    BY <2>1 DEF Call!BeginRead, Call!BeginWrite, Call!BeginRefused
  <2>2. CASE at[s] = "returned" /\ Call!BodyReturns(s)
    BY <2>2 DEF Call!BodyReturns
  <2>3. CASE at[s] \in {"raised", "unheard"} /\ Call!BodyRaises(s)
    BY <2>3 DEF Call!BodyRaises
  <2>4. CASE Call!Finish(s)
    BY <2>4 DEF Call!Finish, Call!Mark
  <2>5. CASE Call!Record(s)
    BY <2>5 DEF Call!Record
  <2>6. CASE Call!Crash(s)
    BY <2>6 DEF Call!Crash
  <2> QED
    BY <2>1, <2>2, <2>3, <2>4, <2>5, <2>6
<1> QED
  BY <1>2, <1>3, <1>4, <1>6, <1>7 DEF AllInv

(* A process that dies takes its body with it: no row loses its call. *)
LEMMA DieSteps == ASSUME AllInv, NEW s \in Sessions, Die(s) PROVE AllInv'
<1>1. CASE UNCHANGED vars
  BY <1>1, AroundSteps DEF Die
<1>2. CASE Crash(s) /\ phase[s] = "body"
  <2>1. IInv /\ CallTypeOK /\ CallPlaced(s)
    BY DEF AllInv
  <2>2. at' = [at EXCEPT ![s] = "crashed"] /\ UNCHANGED <<key, mid>>
    BY <1>2 DEF Crash, Goto
  <2>3. phase' = [phase EXCEPT ![s] = "crashed"] /\ UNCHANGED <<audit, outcome, observed>>
    BY <1>2 DEF Die, Call!Crash, Call!Goto
  <2>4. IInv'
    BY <1>2, <2>1, Inductive DEF Next
  <2>5. CallTypeOK'
    BY <2>1, <2>3 DEF CallTypeOK
  <2>6. RowsHaveCalls'
    BY <1>2, BodyKeepsRows
  <2>7. \A t \in Sessions \ {s} : CallPlaced(t)'
    <3>1. \A t \in Sessions \ {s} : at'[t] = at[t] /\ phase'[t] = phase[t]
      BY <2>1, <2>2, <2>3 DEF CallTypeOK, IInv, TypeOK
    <3> QED
      BY <2>2, <2>3, <3>1 DEF AllInv, CallPlaced, Remembers
  <2>8. CallPlaced(s)'
    <3>1. at'[s] = "crashed" /\ phase'[s] = "crashed"
      BY <2>1, <2>2, <2>3 DEF CallTypeOK, IInv, TypeOK
    <3> QED
      BY <1>2, <2>1, <2>2, <2>3, <3>1 DEF CallPlaced, Remembers
  <2> QED
    BY <2>4, <2>5, <2>6, <2>7, <2>8 DEF AllInv
<1> QED
  BY <1>1, <1>2 DEF Die

(* No row is there and no call is under way. *)
LEMMA InitAllInv == InitAll => AllInv
<1> SUFFICES ASSUME InitAll PROVE AllInv
  OBVIOUS
<1>1. IInv
  BY InitIInv DEF InitAll
<1>2. CallTypeOK
  BY DEF InitAll, Call!Init, CallTypeOK
<1>3. RowsHaveCalls
  BY DEF InitAll, Init, RowsHaveCalls, NoRow
<1>4. \A s \in Sessions : CallPlaced(s)
  BY DEF InitAll, Init, Call!Init, CallPlaced, Remembers
<1> QED
  BY <1>1, <1>2, <1>3, <1>4 DEF AllInv

LEMMA AllInductive == AllInv /\ [NextAll]_allVars => AllInv'
<1> SUFFICES ASSUME AllInv, [NextAll]_allVars PROVE AllInv'
  OBVIOUS
<1>1. ASSUME NEW s \in Sessions, Around(s) PROVE AllInv'
  BY <1>1, AroundSteps DEF Around
<1>2. ASSUME NEW s \in Sessions, Body(s) \/ Break(s) PROVE AllInv'
  BY <1>2, BodySteps
<1>3. ASSUME NEW s \in Sessions, Die(s) PROVE AllInv'
  BY <1>3, DieSteps
<1>4. CASE UNCHANGED allVars
  <2>1. UNCHANGED vars /\ UNCHANGED <<phase, audit, outcome, observed>>
    BY <1>4 DEF allVars, callVars
  <2>2. IInv'
    BY <2>1, Inductive DEF AllInv
  <2>3. CallTypeOK' /\ RowsHaveCalls' /\ \A s \in Sessions : CallPlaced(s)'
    BY <2>1 DEF AllInv, CallTypeOK, RowsHaveCalls, CallPlaced, Committed, Remembers, vars
  <2> QED
    BY <2>2, <2>3 DEF AllInv
<1> QED
  BY <1>1, <1>2, <1>3, <1>4 DEF NextAll

(* The memory tools under the audit log keep the invariant of the repository
   and what relates each call to its row. *)
THEOREM AllInvariance == SpecAll => []AllInv
BY InitAllInv, AllInductive, PTL DEF SpecAll

(* The repository under the audit log is still the repository: everything
   proved of MemoryStore holds of it. *)
THEOREM ComposedStore == SpecAll => Spec
<1>1. [NextAll]_allVars => [Next]_vars
  BY StepsOfStore DEF allVars, vars
<1> QED
  BY <1>1, PTL DEF SpecAll, InitAll, Spec

(* Behind every row and every deletion there is a call with an audit row
   that was not refused. *)
THEOREM ChangesAreLogged == SpecAll => []EveryChangeIsLogged
<1>1. AllInv => EveryChangeIsLogged
  <2> SUFFICES ASSUME AllInv PROVE EveryChangeIsLogged
    OBVIOUS
  <2>1. \A s \in Sessions :
           Tool[s] \in {"remember", "forget"} /\ Committed(s) =>
               audit[s] # "none" /\ outcome[s] # "refused"
    BY DEF AllInv, CallPlaced, Committed, WriteCalls, ReadActions
  <2> QED
    BY <2>1 DEF AllInv, RowsHaveCalls, EveryChangeIsLogged
<1> QED
  BY AllInvariance, <1>1, PTL

(* What a row marked succeeded says is never taken back by the store. *)
THEOREM SuccessLasts == SpecAll => []SuccessIsDurable
<1>1. AllInv => SuccessIsDurable
  <2> SUFFICES ASSUME AllInv, NEW s \in Sessions, audit[s] = "succeeded", result[s] # 0
               PROVE  IF Tool[s] = "remember"
                      THEN /\ memories[result[s]].state # "absent"
                           /\ memories[result[s]].key = key[s]
                           /\ memories[result[s]].chunks = Chunks[key[s]]
                      ELSE memories[mid[s]].state = "deleted"
    BY DEF SuccessIsDurable
  <2>1. /\ at[s] = "returned" /\ (Remembers(s) <=> Tool[s] = "remember")
        /\ RememberPlaced(s) /\ ForgetPlaced(s)
    BY DEF AllInv, CallPlaced, IInv, Placed
  <2> QED
    BY <2>1 DEF RememberPlaced, ForgetPlaced, AllInv, IInv, AllOrNothing
<1> QED
  BY AllInvariance, <1>1, PTL

-----------------------------------------------------------------------------
(* The refinement of AuditedCall: the commit of a body is its effect.      *)

LEMMA InitAllMaps == InitAll => Call!Init
BY DEF InitAll

LEMMA EffectMaps ==
    ASSUME AllInv, NEW s \in Sessions, Start(s) \/ Run(s) \/ Fail(s) \/ Crash(s),
           phase[s] = "body", UNCHANGED callVars
    PROVE  [Call!Next]_(Call!vars)
<1> DEFINE eff == [t \in Sessions |-> IF t \in WriteCalls /\ Committed(t) THEN 1 ELSE 0]
<1>1. IInv /\ UNCHANGED <<phase, audit, outcome, observed>>
  BY DEF AllInv, callVars
<1>2. \A t \in Sessions \ {s} : Committed(t)' <=> Committed(t)
  BY <1>1, OwnMove DEF Committed
<1>3. ~ Committed(s)
  BY <1>1, OwnMove DEF Committed, Ended
<1>4. CASE s \in WriteCalls /\ Committed(s)'
  <2>1. eff' = [eff EXCEPT ![s] = eff[s] + 1] /\ eff[s] = 0
    <3>1. eff[s] = 0 /\ eff'[s] = 1
      BY <1>3, <1>4 DEF WriteCalls, ReadActions
    <3>2. \A t \in Sessions \ {s} : eff'[t] = eff[t]
      BY <1>2 DEF WriteCalls, ReadActions
    <3>3. eff' = [t \in Sessions |-> IF t = s THEN 1 ELSE eff[t]]
      BY <1>2, <1>3, <1>4 DEF WriteCalls, ReadActions
    <3>4. [eff EXCEPT ![s] = 1] = [t \in Sessions |-> IF t = s THEN 1 ELSE eff[t]]
      OBVIOUS
    <3> HIDE DEF eff
    <3> QED
      BY <3>1, <3>3, <3>4
  <2>2. [t \in Sessions |-> IF t \in WriteCalls THEN 1 ELSE 0][s] = 1
    BY <1>4
  <2> HIDE DEF eff
  <2>3. Call!CommitTxn(s)
    BY <1>1, <2>1, <2>2 DEF Call!CommitTxn, eff
  <2> QED
    BY <2>3 DEF Call!Next, Call!Step
<1>5. CASE ~ (s \in WriteCalls /\ Committed(s)')
  <2>1. eff' = eff
    BY <1>2, <1>3, <1>5
  <2> QED
    BY <1>1, <2>1 DEF Call!vars
<1> QED
  BY <1>4, <1>5

(* The memory tools implement the audited call, and with it the write-ahead
   log: one transaction for each write. *)
THEOREM ComposedRefinement == SpecAll => ImplementsAuditedCall
<1>1. ASSUME AllInv, [NextAll]_allVars PROVE [Call!Next]_(Call!vars)
  <2>1. ASSUME NEW s \in Sessions, Around(s) PROVE Call!Next
    BY <2>1 DEF Around, Call!Next, Call!Step
  <2>2. ASSUME NEW s \in Sessions, Body(s) \/ Break(s) PROVE [Call!Next]_(Call!vars)
    BY <1>1, <2>2, EffectMaps DEF Body, Break, Start
  <2>3. ASSUME NEW s \in Sessions, Die(s) PROVE Call!Next
    BY <2>3 DEF Die, Call!Next
  <2>4. CASE UNCHANGED allVars
    BY <2>4 DEF allVars, vars, callVars, Call!vars, Committed
  <2> QED
    BY <1>1, <2>1, <2>2, <2>3, <2>4 DEF NextAll
<1> QED
  BY AllInvariance, InitAllMaps, <1>1, PTL DEF SpecAll, ImplementsAuditedCall, Call!Spec

=============================================================================
