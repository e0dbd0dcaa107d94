--------------------------- MODULE WikiStoreProofs ---------------------------
(***************************************************************************)
(* WikiStore for any pages, bodies and calls.                              *)
(***************************************************************************)
EXTENDS WikiStore, FiniteSetTheorems, TLAPS

(* The row lock at work: of the transactions that have written a page's row
   and are not over there is one at most. *)
OneWriter ==
    \A s, t \in Sessions : Holds(s) /\ Holds(t) /\ slug[s] = slug[t] => s = t

(* A page is what the last of its committed ingests wrote. *)
PageFollowsLog(sl) ==
    pages[sl] = IF log[sl] = <<>> THEN Pages!Absent
                ELSE Pages!Page(Len(log[sl]), log[sl][Len(log[sl])])

(* What a transaction is about to commit follows on what is committed: the
   next version, with the chunks embedded so far and no others. *)
DraftFollowsPage(s) ==
    /\ at[s] = "upsert" \/ Holds(s) => slug[s] \in Slugs /\ body[s] \in Bodies
    /\ Holds(s) => draft[s].version = pages[slug[s]].version + 1
    /\ at[s] = "delete" => draft[s].done = 0
    /\ at[s] = "embed" =>
          /\ draft[s].done < Pieces[body[s]]
          /\ draft[s].chunks = (1..draft[s].done) \X {body[s]}
    /\ at[s] = "commit" => draft[s].chunks = ChunksOf(body[s])

(* The version a call returned is in the log, with what the call wrote. *)
ReplyIsLogged(s) ==
    reply[s] # 0 =>
        /\ slug[s] \in Slugs
        /\ reply[s] \in DOMAIN log[slug[s]]
        /\ log[slug[s]][reply[s]] = body[s]
        /\ at[s] = "returned"

IInv ==
    /\ TypeOK
    /\ OneWriter
    /\ \A sl \in Slugs : PageFollowsLog(sl)
    /\ \A s \in Sessions : DraftFollowsPage(s)
    /\ \A s \in Sessions : ReplyIsLogged(s)

(* Nothing is written yet. *)
LEMMA InitIInv == Init => IInv
<1> SUFFICES ASSUME Init PROVE IInv
  OBVIOUS
<1>1. Pages!Absent \in [version : Nat, body : Bodies \cup {NoBody}, chunks : SUBSET AllChunks]
  BY DEF Pages!Absent
<1>2. TypeOK
  BY <1>1 DEF Init, TypeOK, NoDraft
<1>3. OneWriter /\ \A s \in Sessions : DraftFollowsPage(s) /\ ReplyIsLogged(s)
  BY DEF Init, OneWriter, Holds, DraftFollowsPage, ReplyIsLogged
<1>4. \A sl \in Slugs : PageFollowsLog(sl)
  BY DEF Init, PageFollowsLog
<1> QED
  BY <1>2, <1>3, <1>4 DEF IInv

(* The chunks of a body are what a page may hold. *)
LEMMA ChunksTyped ==
    ASSUME NEW b \in Bodies, NEW n \in 0..Pieces[b]
    PROVE  (1..n) \X {b} \in SUBSET AllChunks
<1>1. Pieces[b] \in Nat
  BY WikiAssumption
<1>2. (1..n) \X {b} \subseteq ChunksOf(b)
  BY <1>1 DEF ChunksOf
<1> QED
  BY <1>2 DEF AllChunks

(* What Append does to a log. *)
LEMMA AppendFacts ==
    ASSUME NEW S, NEW q \in Seq(S), NEW e \in S
    PROVE  /\ Append(q, e) \in Seq(S) /\ Append(q, e) # <<>>
           /\ Len(q) \in Nat /\ Len(Append(q, e)) = Len(q) + 1
           /\ Append(q, e)[Len(q) + 1] = e
           /\ Len(q) + 1 \in DOMAIN Append(q, e)
           /\ DOMAIN q \subseteq DOMAIN Append(q, e)
           /\ \A i \in DOMAIN q : Append(q, e)[i] = q[i]
<1>1. Len(Append(q, e)) = Len(q) + 1 /\ Len(q) \in Nat
  OBVIOUS
<1>2. Append(q, e) # <<>>
  <2>1. Len(<<>>) = 0
    OBVIOUS
  <2> QED
    BY <1>1, <2>1
<1> QED
  BY <1>1, <1>2

(* Steps that write no page: what is committed stays as it was, and the rest
   of the invariant is about the session that took the step. *)
LEMMA PrivateStep ==
    ASSUME IInv, NEW s \in Sessions, UNCHANGED <<pages, log>>, TypeOK',
           \A t \in Sessions \ {s} :
              at'[t] = at[t] /\ slug'[t] = slug[t] /\ body'[t] = body[t]
              /\ draft'[t] = draft[t] /\ reply'[t] = reply[t],
           Holds(s)' => slug'[s] = slug[s] /\ (Holds(s) \/ ~ Locked(slug[s])),
           DraftFollowsPage(s)', ReplyIsLogged(s)'
    PROVE  IInv'
<1>1. OneWriter'
  BY DEF IInv, OneWriter, Holds, Locked
<1>2. \A sl \in Slugs : PageFollowsLog(sl)'
  BY DEF IInv, PageFollowsLog, Pages!Absent, Pages!Page
<1>3. \A t \in Sessions : DraftFollowsPage(t)'
  BY DEF IInv, DraftFollowsPage, Holds, ChunksOf
<1>4. \A t \in Sessions : ReplyIsLogged(t)'
  BY DEF IInv, ReplyIsLogged
<1> QED
  BY <1>1, <1>2, <1>3, <1>4 DEF IInv

(* The step that writes a page: it appends to the page's log what it writes,
   and nobody else was about to write it. *)
LEMMA WriteStep ==
    ASSUME IInv, NEW s \in Sessions, at[s] = "commit", Write(s),
           NEW label \in {"returned", "unheard"}, Goto(s, label),
           reply' \in {reply, [reply EXCEPT ![s] = draft[s].version]},
           label = "unheard" => reply' = reply,
           UNCHANGED <<slug, body, draft, found, answer, began>>
    PROVE  IInv'
<1> DEFINE sl == slug[s]
           p == pages[sl]
<1>1. sl \in Slugs /\ body[s] \in Bodies /\ draft[s].version = p.version + 1
      /\ draft[s].chunks = ChunksOf(body[s])
  BY DEF IInv, DraftFollowsPage, Holds
<1>2. log[sl] \in Seq(Bodies) /\ p.version = Len(log[sl]) /\ Len(log[sl]) \in Nat
  BY <1>1 DEF IInv, TypeOK, PageFollowsLog, Pages!Absent, Pages!Page
<1>3. pages' = [pages EXCEPT ![sl] = Pages!Page(Len(log[sl]) + 1, body[s])]
  BY <1>1, <1>2 DEF Write, Pages!Page, ChunksOf
<1>4. log' = [log EXCEPT ![sl] = Append(log[sl], body[s])]
      /\ log'[sl] = Append(log[sl], body[s])
  BY <1>1 DEF Write, IInv, TypeOK
<1>5. TypeOK'
  <2>1. ChunksOf(body[s]) \in SUBSET AllChunks
    BY <1>1 DEF AllChunks
  <2>2. Pages!Page(Len(log[sl]) + 1, body[s])
          \in [version : Nat, body : Bodies \cup {NoBody}, chunks : SUBSET AllChunks]
    BY <1>1, <1>2, <2>1 DEF Pages!Page, ChunksOf
  <2>3. pages' \in [Slugs -> [version : Nat, body : Bodies \cup {NoBody}, chunks : SUBSET AllChunks]]
    BY <1>3, <2>2 DEF IInv, TypeOK
  <2>4. log' \in [Slugs -> Seq(Bodies)]
    BY <1>1, <1>2, <1>4 DEF IInv, TypeOK
  <2>5. at' \in [Sessions -> {"idle", "upsert", "delete", "embed", "commit", "fetch"}
                             \cup Scans \cup Ended]
    BY DEF Goto, IInv, TypeOK, Ended
  <2>6. reply' \in [Sessions -> Nat]
    BY DEF IInv, TypeOK
  <2> QED
    BY <2>3, <2>4, <2>5, <2>6 DEF IInv, TypeOK
<1>6. at' = [at EXCEPT ![s] = label] /\ ~ Holds(s)' /\ at'[s] # "upsert"
      /\ at'[s] = label
  BY DEF Goto, IInv, TypeOK, Holds
<1>7. \A t \in Sessions \ {s} : at'[t] = at[t] /\ reply'[t] = reply[t]
  BY <1>6 DEF IInv, TypeOK
<1>8. OneWriter'
  BY <1>6, <1>7 DEF IInv, OneWriter, Holds
<1>9. \A x \in Slugs : PageFollowsLog(x)'
  <2>1. ASSUME NEW x \in Slugs, x # sl PROVE PageFollowsLog(x)'
    BY <1>3, <1>4, <2>1 DEF IInv, TypeOK, PageFollowsLog, Pages!Absent, Pages!Page
  <2>2. PageFollowsLog(sl)'
    <3>1. Len(log'[sl]) = Len(log[sl]) + 1 /\ log'[sl] # <<>>
          /\ log'[sl][Len(log[sl]) + 1] = body[s]
      BY <1>1, <1>2, <1>4, AppendFacts
    <3>2. pages'[sl] = Pages!Page(Len(log[sl]) + 1, body[s])
      BY <1>1, <1>3 DEF IInv, TypeOK
    <3> QED
      BY <3>1, <3>2 DEF PageFollowsLog, Pages!Page
  <2> QED
    BY <2>1, <2>2
<1>10. \A t \in Sessions : DraftFollowsPage(t)'
  <2>1. DraftFollowsPage(s)'
    BY <1>6 DEF DraftFollowsPage, Holds
  <2>2. ASSUME NEW t \in Sessions \ {s} PROVE DraftFollowsPage(t)'
    <3>1. Holds(t) => slug[t] # sl
      BY DEF IInv, OneWriter, Holds
    <3>2. Holds(t) => pages'[slug[t]] = pages[slug[t]]
      BY <1>3, <3>1 DEF IInv, TypeOK, DraftFollowsPage
    <3> QED
      BY <1>7, <3>2 DEF IInv, DraftFollowsPage, Holds, ChunksOf
  <2> QED
    BY <2>1, <2>2
<1>11. \A t \in Sessions : ReplyIsLogged(t)'
  <2>1. \A x \in Slugs : /\ DOMAIN log[x] \subseteq DOMAIN log'[x]
                         /\ \A i \in DOMAIN log[x] : log'[x][i] = log[x][i]
    BY <1>1, <1>2, <1>4 DEF IInv, TypeOK
  <2>2. ASSUME NEW t \in Sessions \ {s} PROVE ReplyIsLogged(t)'
    BY <1>7, <2>1 DEF IInv, ReplyIsLogged
  <2>3. ReplyIsLogged(s)'
    <3>1. reply[s] = 0
      BY DEF IInv, ReplyIsLogged
    <3>2. CASE reply' = reply
      BY <3>1, <3>2 DEF ReplyIsLogged
    <3>3. CASE reply' # reply
      <4>1. reply'[s] = Len(log[sl]) + 1 /\ at'[s] = "returned"
        BY <1>1, <1>2, <1>6, <3>3 DEF IInv, TypeOK
      <4>2. Len(log[sl]) + 1 \in DOMAIN log'[sl] /\ log'[sl][Len(log[sl]) + 1] = body[s]
        BY <1>1, <1>2, <1>4
      <4> QED
        BY <1>1, <4>1, <4>2 DEF ReplyIsLogged
    <3> QED
      BY <3>2, <3>3
  <2> QED
    BY <2>2, <2>3
<1> QED
  BY <1>5, <1>8, <1>9, <1>10, <1>11 DEF IInv

(* No step of a call breaks the invariant, action by action. *)
LEMMA StepIInv ==
    ASSUME IInv, NEW s \in Sessions, Start(s) \/ Run(s) \/ Fail(s) \/ Crash(s)
    PROVE  IInv'
<1> USE DEF Goto
<1>1. ASSUME NEW sl \in Slugs, NEW b \in Bodies, StartIngest(s, sl, b) PROVE IInv'
  <2>1. TypeOK'
    BY <1>1 DEF StartIngest, IInv, TypeOK
  <2>2. reply[s] = 0
    BY <1>1 DEF StartIngest, IInv, ReplyIsLogged
  <2>3. DraftFollowsPage(s)' /\ ReplyIsLogged(s)' /\ ~ Holds(s)'
    BY <1>1, <2>2 DEF StartIngest, IInv, TypeOK, DraftFollowsPage, ReplyIsLogged, Holds
  <2> QED
    BY <1>1, <2>1, <2>3, PrivateStep DEF StartIngest, IInv, TypeOK
<1>2. CASE StartSearch(s)
  <2>1. TypeOK'
    BY <1>2 DEF StartSearch, IInv, TypeOK, Scans
  <2>2. DraftFollowsPage(s)' /\ ReplyIsLogged(s)' /\ ~ Holds(s)'
    BY <1>2 DEF StartSearch, IInv, TypeOK, DraftFollowsPage, ReplyIsLogged, Holds
  <2> QED
    BY <1>2, <2>1, <2>2, PrivateStep DEF StartSearch, IInv, TypeOK
<1>3. CASE Upsert(s)
  <2>1. slug[s] \in Slugs /\ body[s] \in Bodies
    BY <1>3 DEF Upsert, IInv, DraftFollowsPage
  <2>2. TypeOK'
    BY <1>3, <2>1 DEF Upsert, IInv, TypeOK
  <2>3. DraftFollowsPage(s)' /\ ReplyIsLogged(s)'
    BY <1>3, <2>1 DEF Upsert, IInv, TypeOK, DraftFollowsPage, ReplyIsLogged, Holds
  <2> QED
    BY <1>3, <2>2, <2>3, PrivateStep DEF Upsert, IInv, TypeOK
<1>4. CASE DeleteChunks(s)
  <2>1. slug[s] \in Slugs /\ body[s] \in Bodies /\ draft[s].done = 0
    BY <1>4 DEF DeleteChunks, IInv, DraftFollowsPage, Holds
  <2>2. TypeOK'
    BY <1>4 DEF DeleteChunks, IInv, TypeOK
  <2>3. draft'[s] = [draft[s] EXCEPT !.chunks = {}] /\ at'[s] = "embed"
    BY <1>4 DEF DeleteChunks, IInv, TypeOK
  <2>4. {} = (1..0) \X {body[s]} /\ 0 < Pieces[body[s]]
    BY <2>1, WikiAssumption
  <2>5. DraftFollowsPage(s)' /\ ReplyIsLogged(s)' /\ Holds(s)
    BY <1>4, <2>1, <2>3, <2>4
       DEF DeleteChunks, IInv, TypeOK, DraftFollowsPage, ReplyIsLogged, Holds
  <2> QED
    BY <1>4, <2>2, <2>5, PrivateStep DEF DeleteChunks, IInv, TypeOK
<1>5. CASE EmbedPiece(s)
  <2> DEFINE n == draft[s].done + 1
             b == body[s]
  <2>1. slug[s] \in Slugs /\ b \in Bodies /\ draft[s].done \in Nat
        /\ draft[s].done < Pieces[b] /\ draft[s].chunks = (1..draft[s].done) \X {b}
    BY <1>5 DEF EmbedPiece, IInv, TypeOK, DraftFollowsPage, Holds
  <2>2. Pieces[b] \in Nat /\ n \in 0..Pieces[b]
    BY <2>1, WikiAssumption
  <2>3. draft[s].chunks \cup {<<n, b>>} = (1..n) \X {b}
    BY <2>1
  <2>4. draft' = [draft EXCEPT ![s] = [draft[s] EXCEPT !.chunks = (1..n) \X {b}, !.done = n]]
        /\ at' = [at EXCEPT ![s] = IF n < Pieces[b] THEN "embed" ELSE "commit"]
    BY <1>5, <2>3 DEF EmbedPiece, IInv, TypeOK
  <2>5. TypeOK'
    <3>1. (1..n) \X {b} \in SUBSET AllChunks
      BY <2>1, <2>2, ChunksTyped
    <3>2. ASSUME NEW c \in SUBSET AllChunks, NEW k \in Nat
          PROVE  [draft EXCEPT ![s] = [draft[s] EXCEPT !.chunks = c, !.done = k]]
                   \in [Sessions -> [version : Nat, chunks : SUBSET AllChunks, done : Nat]]
      BY DEF IInv, TypeOK
    <3>3. draft' \in [Sessions -> [version : Nat, chunks : SUBSET AllChunks, done : Nat]]
      <4>1. n \in Nat
        BY <2>1
      <4> HIDE DEF n, b
      <4>2. [draft EXCEPT ![s] = [draft[s] EXCEPT !.chunks = (1..n) \X {b}, !.done = n]]
              \in [Sessions -> [version : Nat, chunks : SUBSET AllChunks, done : Nat]]
        BY <3>1, <3>2, <4>1
      <4> QED
        BY ONLY <2>4, <4>2
    <3>4. at' \in [Sessions -> {"idle", "upsert", "delete", "embed", "commit", "fetch"}
                               \cup Scans \cup Ended]
      BY <2>4 DEF IInv, TypeOK
    <3> QED
      BY <1>5, <3>3, <3>4 DEF EmbedPiece, IInv, TypeOK
  <2>6. DraftFollowsPage(s)'
    <3>1. CASE n < Pieces[b]
      BY <1>5, <2>1, <2>4, <3>1
         DEF EmbedPiece, IInv, TypeOK, DraftFollowsPage, Holds
    <3>2. CASE ~ (n < Pieces[b])
      <4>1. n = Pieces[b]
        BY <2>2, <3>2
      <4> QED
        BY <1>5, <2>1, <2>4, <3>2, <4>1
           DEF EmbedPiece, IInv, TypeOK, DraftFollowsPage, Holds, ChunksOf
    <3> QED
      BY <3>1, <3>2
  <2>7. ReplyIsLogged(s)' /\ Holds(s)
    BY <1>5 DEF EmbedPiece, IInv, TypeOK, ReplyIsLogged, Holds
  <2> QED
    BY <1>5, <2>5, <2>6, <2>7, PrivateStep DEF EmbedPiece, IInv, TypeOK
<1>6. CASE CommitIngest(s)
  BY <1>6, WriteStep DEF CommitIngest
<1>7. CASE CommitIngestUnheard(s)
  BY <1>7, WriteStep DEF CommitIngestUnheard
<1>8. CASE Scan(s)
  <2>1. TypeOK'
    BY <1>8 DEF Scan, Selections, IInv, TypeOK, Scans, NextStatement, Eligible, There
  <2>2. DraftFollowsPage(s)' /\ ReplyIsLogged(s)' /\ ~ Holds(s)'
    BY <1>8 DEF Scan, IInv, TypeOK, DraftFollowsPage, ReplyIsLogged, Holds, Scans, NextStatement
  <2> QED
    BY <1>8, <2>1, <2>2, PrivateStep DEF Scan, IInv, TypeOK
<1>9. CASE Fetch(s)
  <2>1. PICK top \in SUBSET found[s] :
           answer' = [answer EXCEPT ![s] = {<<sl, pages[sl].version>> : sl \in top}]
    BY <1>9 DEF Fetch
  <2>2. {<<sl, pages[sl].version>> : sl \in top} \in SUBSET (Slugs \X Nat)
    BY DEF IInv, TypeOK
  <2>3. TypeOK'
    BY <1>9, <2>1, <2>2 DEF Fetch, IInv, TypeOK, Ended
  <2>4. DraftFollowsPage(s)' /\ ReplyIsLogged(s)' /\ ~ Holds(s)'
    BY <1>9 DEF Fetch, IInv, TypeOK, DraftFollowsPage, ReplyIsLogged, Holds
  <2> QED
    BY <1>9, <2>3, <2>4, PrivateStep DEF Fetch, IInv, TypeOK
<1>10. ASSUME NEW end \in {"raised", "crashed"}, at[s] \notin Ended,
              Goto(s, end),
              UNCHANGED <<pages, slug, body, draft, reply, found, answer, log, began>>
       PROVE  IInv'
  <2>1. TypeOK'
    BY <1>10 DEF IInv, TypeOK, Ended
  <2>2. DraftFollowsPage(s)' /\ ReplyIsLogged(s)' /\ ~ Holds(s)'
    BY <1>10 DEF IInv, TypeOK, DraftFollowsPage, ReplyIsLogged, Holds, Ended
  <2> QED
    BY <1>10, <2>1, <2>2, PrivateStep DEF IInv, TypeOK
<1>11. CASE Fail(s)
  BY <1>10, <1>11 DEF Fail, RollBack
<1>12. CASE Crash(s)
  BY <1>10, <1>12 DEF Crash
<1> QED
  BY <1>1, <1>2, <1>3, <1>4, <1>5, <1>6, <1>7, <1>8, <1>9, <1>11, <1>12 DEF Start, Run

(* The invariant survives every step and every stutter. *)
LEMMA Inductive == IInv /\ [Next]_vars => IInv'
<1> SUFFICES ASSUME IInv, [Next]_vars PROVE IInv'
  OBVIOUS
<1>1. CASE Next
  BY <1>1, StepIInv DEF Next
<1>2. CASE UNCHANGED vars
  BY <1>2 DEF vars, IInv, TypeOK, OneWriter, PageFollowsLog, DraftFollowsPage, ReplyIsLogged,
              Holds, ChunksOf, Pages!Absent, Pages!Page
<1> QED
  BY <1>1, <1>2

(* The strengthened invariant holds of every reachable state. *)
THEOREM Invariance == Spec => []IInv
BY InitIInv, Inductive, PTL DEF Spec

(* Every variable of the wiki's repository keeps its type, whatever the pages,
   the bodies and the number of calls; so no chunk is stored past the last
   window of its body. *)
THEOREM TypeCorrect == Spec => []TypeOK
BY Invariance, PTL DEF IInv

(* The upsert's row lock lets one ingest at a time between its upsert and its
   commit. *)
THEOREM RowLock == Spec => []OneWriter
BY Invariance, PTL DEF IInv

(* What is committed is counted by its versions. *)
LEMMA IInvCounts == IInv => VersionsCountChanges
<1> SUFFICES ASSUME IInv PROVE VersionsCountChanges
  OBVIOUS
<1>1. ASSUME NEW sl \in There
      PROVE  pages[sl].version = Len(log[sl]) /\ pages[sl].body = log[sl][Len(log[sl])]
  <2>1. sl \in Slugs /\ pages[sl].version # 0 /\ PageFollowsLog(sl)
    BY <1>1 DEF There, IInv, TypeOK
  <2>2. log[sl] # <<>>
    BY <2>1 DEF PageFollowsLog, Pages!Absent
  <2> QED
    BY <2>1, <2>2 DEF PageFollowsLog, Pages!Page
<1>2. \A s \in Sessions :
          reply[s] # 0 => reply[s] \in DOMAIN log[slug[s]] /\ log[slug[s]][reply[s]] = body[s]
  BY DEF IInv, ReplyIsLogged
<1> QED
  BY <1>1, <1>2 DEF VersionsCountChanges

(* However many ingests run at once, a page's version counts its changes and
   an ingest returns the version under which its body was stored. *)
THEOREM VersionsHold == Spec => []VersionsCountChanges
BY Invariance, IInvCounts, PTL

-----------------------------------------------------------------------------
(* The refinement of VersionedPages: only a commit moves a page, and it moves
   it to the next version with all its chunks.                             *)

(* A commit puts the page as a whole. *)
LEMMA WriteMaps ==
    ASSUME IInv, NEW s \in Sessions, at[s] = "commit", Write(s)
    PROVE  Pages!Put(slug[s], body[s]) /\ slug[s] \in Slugs /\ body[s] \in Bodies
BY DEF IInv, DraftFollowsPage, Holds, Write, ChunksOf, Pages!Put, Pages!Page

(* Every step of a call puts a page or leaves all pages as they are. *)
LEMMA StepMaps == IInv /\ [Next]_vars => [Pages!Next]_pages
<1> SUFFICES ASSUME IInv, [Next]_vars PROVE [Pages!Next]_pages
  OBVIOUS
<1>1. CASE UNCHANGED vars
  BY <1>1 DEF vars
<1>2. ASSUME NEW s \in Sessions, Start(s) \/ Run(s) \/ Fail(s) \/ Crash(s)
      PROVE  [Pages!Next]_pages
  <2>1. CASE CommitIngest(s) \/ CommitIngestUnheard(s)
    BY <2>1, WriteMaps DEF CommitIngest, CommitIngestUnheard, Pages!Next
  <2>2. CASE ~ (CommitIngest(s) \/ CommitIngestUnheard(s))
    BY <1>2, <2>2 DEF Start, Run, StartIngest, StartSearch, Upsert, DeleteChunks, EmbedPiece,
                      Scan, Fetch, Fail, RollBack, Crash
  <2> QED
    BY <2>1, <2>2
<1> QED
  BY <1>1, <1>2 DEF Next

(* PgWikiRepo keeps versioned pages that change at once and as a whole,
   whatever fails in the middle of an ingest. *)
THEOREM Implementation == Spec => ImplementsVersionedPages
<1>1. Init => Pages!Init
  BY DEF Init, Pages!Init
<1> QED
  BY <1>1, Invariance, StepMaps, PTL DEF Spec, ImplementsVersionedPages, Pages!Spec

-----------------------------------------------------------------------------
(* Searches.                                                               *)

(* What a search has seen lies between what was committed when it began and
   what is committed now. *)
SearchFollows(s) ==
    /\ at[s] = "idle" => found[s] = {} /\ answer[s] = {}
    /\ \A sl \in Slugs : began[s][sl].version <= pages[sl].version
    /\ found[s] \subseteq There
    /\ at[s] = "fetch" =>
          \/ {sl \in Slugs : began[s][sl].version > 0} \subseteq found[s]
          \/ Cardinality(found[s]) >= Limit[s]
    /\ \A a \in answer[s] :
          /\ a[1] \in Slugs
          /\ a[2] >= began[s][a[1]].version
          /\ a[2] \in 1..pages[a[1]].version

(* A page that is there has chunks, so the vector statement selects it. *)
LEMMA ThereHasChunks ==
    ASSUME IInv, NEW sl \in There PROVE pages[sl].chunks # {}
<1>1. sl \in Slugs /\ pages[sl].version # 0 /\ PageFollowsLog(sl) /\ log[sl] \in Seq(Bodies)
  BY DEF There, IInv, TypeOK
<1>2. log[sl] # <<>>
  BY <1>1 DEF PageFollowsLog, Pages!Absent
<1>3. PICK b \in Bodies : pages[sl].chunks = (1..Pieces[b]) \X {b}
  BY <1>1, <1>2 DEF PageFollowsLog, Pages!Page
<1>4. 1 \in 1..Pieces[b]
  BY WikiAssumption
<1>5. <<1, b>> \in pages[sl].chunks
  BY <1>3, <1>4
<1> QED
  BY <1>5

(* The more candidates, the more of them. *)
LEMMA CardinalityGrows ==
    ASSUME NEW s \in Sessions, NEW all \in SUBSET Slugs, NEW some \in SUBSET all,
           Cardinality(some) = Limit[s]
    PROVE  Cardinality(all) >= Limit[s]
<1>1. IsFiniteSet(all)
  BY FS_Subset, WikiAssumption
<1>2. Cardinality(some) <= Cardinality(all) /\ Cardinality(all) \in Nat
  BY <1>1, FS_Subset, FS_CardinalityType
<1> QED
  BY <1>2, WikiAssumption

(* Versions only grow, one commit at a time. *)
LEMMA VersionsGrow ==
    ASSUME IInv, [Pages!Next]_pages
    PROVE  \A sl \in Slugs : pages'[sl].version \in Nat /\ pages[sl].version <= pages'[sl].version
<1>1. CASE UNCHANGED pages
  BY <1>1 DEF IInv, TypeOK
<1>2. ASSUME NEW x \in Slugs, NEW b \in Bodies, Pages!Put(x, b)
      PROVE  \A sl \in Slugs : pages'[sl].version \in Nat /\ pages[sl].version <= pages'[sl].version
  BY <1>2 DEF Pages!Put, Pages!Page, IInv, TypeOK
<1> QED
  BY <1>1, <1>2 DEF Pages!Next

(* No step of any call takes back what a search has seen. *)
LEMMA SearchStep ==
    ASSUME IInv, NEW s \in Sessions, SearchFollows(s), [Next]_vars
    PROVE  SearchFollows(s)'
<1>1. \A sl \in Slugs : /\ pages[sl].version \in Nat /\ began[s][sl].version \in Nat
                        /\ pages'[sl].version \in Nat
                        /\ pages[sl].version <= pages'[sl].version
  BY StepMaps, VersionsGrow DEF IInv, TypeOK
<1>2. ASSUME UNCHANGED <<found[s], answer[s], began[s]>>, at'[s] \notin {"idle", "fetch"} \/ at'[s] = at[s]
      PROVE  SearchFollows(s)'
  BY <1>1, <1>2 DEF SearchFollows, There
<1>3. CASE StartSearch(s)
  BY <1>1, <1>3 DEF StartSearch, SearchFollows, There, Goto, IInv, TypeOK
<1>4. CASE Scan(s)
  <2>0. PICK rows \in Selections(s, at[s]) : found' = [found EXCEPT ![s] = @ \cup rows]
    BY <1>4 DEF Scan
  <2>1. There = There' /\ rows \subseteq There
    BY <1>4 DEF Scan, There, Selections, Eligible
  <2>2. found'[s] = found[s] \cup rows /\ at'[s] = NextStatement[at[s]]
        /\ at[s] \in Scans
    BY <1>4, <2>0 DEF Scan, Goto, IInv, TypeOK
  <2>3. at[s] = "scan3" => There \subseteq found'[s] \/ Cardinality(found'[s]) >= Limit[s]
    <3>1. CASE rows = Eligible(at[s])
      BY <2>2, <3>1, ThereHasChunks DEF Eligible
    <3>2. CASE Cardinality(rows) = Limit[s]
      <4>1. found'[s] \subseteq Slugs /\ rows \subseteq found'[s]
        BY <2>1, <2>2 DEF There, IInv, TypeOK
      <4> QED
        BY <3>2, <4>1, CardinalityGrows
    <3> QED
      BY <3>1, <3>2 DEF Selections
  <2>4. at'[s] = "fetch" => at[s] = "scan3"
    BY <2>2 DEF NextStatement, Scans
  <2>5. {sl \in Slugs : began[s][sl].version > 0} \subseteq There
    BY <1>1 DEF SearchFollows, There
  <2>6. at'[s] # "idle"
    BY <2>2 DEF NextStatement, Scans
  <2> QED
    BY <1>4, <2>1, <2>2, <2>3, <2>4, <2>5, <2>6 DEF Scan, SearchFollows
<1>5. CASE Fetch(s)
  <2>1. PICK top \in SUBSET found[s] :
           answer' = [answer EXCEPT ![s] = {<<sl, pages[sl].version>> : sl \in top}]
    BY <1>5 DEF Fetch
  <2>2. answer'[s] = {<<sl, pages[sl].version>> : sl \in top} /\ at'[s] = "returned"
    BY <1>5, <2>1 DEF Fetch, Goto, IInv, TypeOK
  <2>3. top \subseteq There
    BY DEF SearchFollows
  <2>4. \A a \in answer'[s] : /\ a[1] \in Slugs
                              /\ a[2] >= began[s][a[1]].version
                              /\ a[2] \in 1..pages[a[1]].version
    BY <1>1, <2>2, <2>3 DEF SearchFollows, There
  <2> QED
    BY <1>5, <2>2, <2>4 DEF Fetch, SearchFollows, There
<1>6. CASE UNCHANGED vars
  BY <1>2, <1>6 DEF vars
<1>7. ASSUME NEW t \in Sessions, Start(t) \/ Run(t) \/ Fail(t) \/ Crash(t)
      PROVE  SearchFollows(s)'
  <2>1. CASE t = s
    <3>1. CASE StartSearch(s) \/ Scan(s) \/ Fetch(s)
      BY <1>3, <1>4, <1>5, <3>1
    <3>2. CASE ~ (StartSearch(s) \/ Scan(s) \/ Fetch(s))
      <4>1. UNCHANGED <<found, answer, began>> /\ at'[s] \notin {"idle", "fetch"}
        BY <1>7, <2>1, <3>2
           DEF Start, Run, StartIngest, Upsert, DeleteChunks, EmbedPiece, CommitIngest,
               CommitIngestUnheard, Fail, RollBack, Crash, Goto, IInv, TypeOK
      <4> QED
        BY <1>2, <4>1
    <3> QED
      BY <3>1, <3>2
  <2>2. CASE t # s
    <3>1. UNCHANGED <<found[s], answer[s], began[s], at[s]>>
      BY <1>7, <2>2
         DEF Start, Run, StartIngest, StartSearch, Upsert, DeleteChunks, EmbedPiece, CommitIngest,
             CommitIngestUnheard, Scan, Fetch, Fail, RollBack, Crash, Goto, IInv, TypeOK
    <3> QED
      BY <1>2, <3>1
  <2> QED
    BY <2>1, <2>2
<1> QED
  BY <1>6, <1>7 DEF Next

(* A search misses a page that was there when it began only when it has as
   many candidates as one statement may return, and returns none in a version
   that is older or that was never committed. *)
THEOREM SearchHolds == Spec => []SearchSeesPages
<1> DEFINE SInv == IInv /\ \A s \in Sessions : SearchFollows(s)
<1>1. Init => SInv
  BY InitIInv DEF Init, SearchFollows, Pages!Absent, There
<1>2. SInv /\ [Next]_vars => SInv'
  BY Inductive, SearchStep
<1>3. SInv => SearchSeesPages
  <2> SUFFICES ASSUME SInv PROVE SearchSeesPages
    OBVIOUS
  <2>1. ASSUME NEW s \in Sessions, NEW a \in answer[s]
        PROVE  a[2] \in DOMAIN log[a[1]]
    <3>1. a[1] \in There /\ a[1] \in Slugs /\ log[a[1]] \in Seq(Bodies) /\ a[2] \in 1..pages[a[1]].version
      BY DEF SearchFollows, There, IInv, TypeOK
    <3>2. pages[a[1]].version = Len(log[a[1]])
      BY <3>1, IInvCounts DEF VersionsCountChanges
    <3> QED
      BY <3>1, <3>2
  <2> QED
    BY <2>1 DEF SearchFollows, SearchSeesPages
<1> QED
  BY <1>1, <1>2, <1>3, PTL DEF Spec
=============================================================================
