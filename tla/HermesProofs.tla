----------------------------- MODULE HermesProofs -----------------------------
(***************************************************************************)
(* Hermes for any databases, sessions, turns and calls, and any number of  *)
(* the host's calls.                                                       *)
(***************************************************************************)
EXTENDS Hermes, TLAPS

(* What is still to be stored is a content. *)
Storable(c) ==
    /\ call[c].at = "forgot" => call[c].action = "replace"
    /\ call[c].at \in {"called", "forgot"} /\ call[c].action # "remove"
          => call[c].content \in Contents

(* A thread that initializes the provider again gives it the session it has
   and the configured database. *)
ReopenOK ==
    \A a \in Threads \ {"host"} : Opens(a) =>
       /\ "reopened" \in drift
       /\ opening[a].said.db = Home
       /\ "raced" \in drift \/ (~ Opens("host") /\ opening[a].said.session = session)

(* The host's initialize, as far as it has got. *)
HostOK ==
    Opens("host") =>
       LET o == opening["host"]
       IN  /\ o.alone => /\ ~ Reopening
                         /\ o.at # "session" => session = o.said.session
                         /\ o.at = "service" => context = o.said.context
           /\ ~ o.alone => "raced" \in drift /\ "reopened" \in drift

HostAt(where) == Opens("host") /\ opening["host"].at \in where

(* The provider is what the host said, as far as it has not drifted. *)
CurrentOK ==
    /\ "raced" \notin drift /\ ~ HostAt({"context", "service"}) => session = host.session
    /\ "reopened" \notin drift /\ ~ HostAt({"service"}) => context = host.context
    /\ "failed" \notin drift => service \in {NoDb, Home, host.db}
    /\ drift = {} => service \in {NoDb, host.db}

Follows == ReopenOK /\ HostOK /\ CurrentOK

Sourced(t) == turn[t].at \in {"remember", "stored", "lost"}

Served(t) == turn[t].at = "served" \/ Sourced(t)

Looked(t) == turn[t].at \in {"looked", "opening", "opened"} \/ Served(t)

(* What a sync has read is what the host has said. *)
InContext(u) == "reopened" \notin u.drift => \E h \in u.heard : h.context \notin NonPrimary

InDatabase(u) ==
    /\ u.db \in Databases
    /\ "failed" \notin u.drift => u.db \in {Home} \cup {h.db : h \in u.heard}
    /\ u.drift = {} => \E h \in u.heard : h.db = u.db

InSession(u) ==
    /\ u.source \in Hosted
    /\ u.asked # NoSession => u.source = u.asked
    /\ "raced" \notin u.drift => \E h \in u.heard : u.source = Of(u.asked, h.session)

Addressed(t) ==
    /\ Opens(t) => turn[t].at = "opening"
    /\ Looked(t) => InContext(turn[t])
    /\ Served(t) => InDatabase(turn[t])
    /\ Sourced(t) => InSession(turn[t])

(* A row that holds a turn is of that turn. *)
OfItsTurn(d, i) ==
    LET k == rows[d][i].content
    IN  k \in Turns => Sourced(k) /\ turn[k].db = d /\ turn[k].source = rows[d][i].source

(* A call that has taken memory i away, and may still have to store. *)
Took(c, i) ==
    /\ call[c].id = i
    /\ call[c].at \in {"forgot", "ok", "failed"}
    /\ call[c].at = "ok" /\ call[c].action = "replace" =>
          /\ call[c].row \in DOMAIN rows[Home]
          /\ rows[Home][call[c].row].content = call[c].content

Accounted(i) == rows[Home][i].live \/ \E c \in Calls : Took(c, i)

IInv ==
    /\ TypeOK
    /\ \A c \in Calls : Storable(c)
    /\ Follows
    /\ \A t \in Turns : Addressed(t)
    /\ \A d \in Databases : \A i \in DOMAIN rows[d] : OfItsTurn(d, i)
    /\ \A i \in DOMAIN rows[Home] : Accounted(i)

-----------------------------------------------------------------------------
(* The two operations on the rows.                                         *)

RowsOK == rows \in [Databases -> Seq(Row)]

(* Every row keeps what it says and who said it. *)
RowsStay ==
    \A d \in Databases : \A i \in DOMAIN rows[d] :
       /\ i \in DOMAIN rows'[d]
       /\ rows'[d][i].content = rows[d][i].content
       /\ rows'[d][i].source = rows[d][i].source

LEMMA RememberFacts ==
    ASSUME RowsOK, NEW d \in Databases, NEW k \in Stored, NEW src \in Hosted \cup {Tool},
           Remember(d, k, src)
    PROVE  /\ RowsOK' /\ RowsStay
           /\ \A e \in Databases : \A i \in DOMAIN rows'[e] :
                 \/ i \in DOMAIN rows[e] /\ rows'[e][i] = rows[e][i]
                 \/ e = d /\ rows'[e][i] = [content |-> k, source |-> src, live |-> TRUE]
<1> DEFINE new == [content |-> k, source |-> src, live |-> TRUE]
<1>1. new \in Row
  BY DEF Row
<1>2. CASE rows' = rows
  BY <1>2 DEF RowsOK, RowsStay
<1>3. CASE rows' = [rows EXCEPT ![d] = Append(@, new)]
  <2> HIDE DEF new
  <2>1. RowsOK'
    BY <1>1, <1>3 DEF RowsOK
  <2>2. \A e \in Databases \ {d} : rows'[e] = rows[e]
    BY <1>3 DEF RowsOK
  <2>3. /\ rows'[d] = Append(rows[d], new) /\ rows[d] \in Seq(Row)
        /\ DOMAIN rows'[d] = 1..(Len(rows[d]) + 1) /\ DOMAIN rows[d] = 1..Len(rows[d])
    BY <1>1, <1>3 DEF RowsOK
  <2>4. \A i \in DOMAIN rows[d] : i \in DOMAIN rows'[d] /\ rows'[d][i] = rows[d][i]
    BY <1>1, <2>3
  <2>5. \A i \in DOMAIN rows'[d] : i \in DOMAIN rows[d] \/ rows'[d][i] = new
    BY <1>1, <2>3
  <2> QED
    BY <2>1, <2>2, <2>4, <2>5 DEF RowsStay, new
<1> QED
  BY <1>2, <1>3 DEF Remember

LEMMA ForgetFacts ==
    ASSUME RowsOK, NEW d \in Databases, NEW i \in Nat, Forget(d, i)
    PROVE  /\ RowsOK' /\ RowsStay
           /\ \A e \in Databases : \A j \in DOMAIN rows'[e] :
                 /\ j \in DOMAIN rows[e]
                 /\ rows'[e][j].live = rows[e][j].live \/ (e = d /\ j = i)
<1>1. CASE rows' = rows
  BY <1>1 DEF RowsOK, RowsStay
<1>2. CASE i \in DOMAIN rows[d] /\ rows' = [rows EXCEPT ![d][i].live = FALSE]
  <2> DEFINE old == rows[d]
             dead == [old[i] EXCEPT !.live = FALSE]
  <2>1. old \in Seq(Row) /\ i \in DOMAIN old /\ old[i] \in Row
    BY <1>2 DEF RowsOK
  <2>2. dead \in Row /\ dead.content = old[i].content /\ dead.source = old[i].source
    BY <2>1 DEF Row
  <2>3. rows' = [rows EXCEPT ![d] = [old EXCEPT ![i] = dead]]
    BY <1>2
  <2> HIDE DEF dead
  <2>4. [old EXCEPT ![i] = dead] \in Seq(Row)
    BY <2>1, <2>2
  <2>5. RowsOK'
    BY <2>3, <2>4 DEF RowsOK
  <2>6. \A e \in Databases \ {d} : rows'[e] = rows[e]
    BY <2>3 DEF RowsOK
  <2>7. /\ rows'[d] = [old EXCEPT ![i] = dead]
        /\ DOMAIN rows'[d] = DOMAIN old
        /\ rows'[d][i] = dead
        /\ \A j \in DOMAIN old \ {i} : rows'[d][j] = old[j]
    BY <2>1, <2>3 DEF RowsOK
  <2> QED
    BY <2>2, <2>5, <2>6, <2>7 DEF RowsStay
<1> QED
  BY <1>1, <1>2 DEF Forget

-----------------------------------------------------------------------------
(* The calls of the memory tool.                                           *)

CallsOK == call \in [Calls -> Call]

OthersStay(c) == \A e \in Calls \ {c} : call'[e] = call[e]

LEMMA ReplyFacts ==
    ASSUME CallsOK, NEW c \in Calls, NEW status \in {"forgot", "ok", "failed"}, Reply(c, status)
    PROVE  /\ CallsOK' /\ OthersStay(c)
           /\ call'[c].at = status
           /\ call'[c].action = call[c].action /\ call'[c].content = call[c].content
           /\ call'[c].id = call[c].id /\ call'[c].row = call[c].row
<1> DEFINE now == [call[c] EXCEPT !.at = status]
<1>1. /\ now \in Call /\ now.at = status
      /\ now.action = call[c].action /\ now.content = call[c].content
      /\ now.id = call[c].id /\ now.row = call[c].row
  BY DEF CallsOK, Call
<1>2. call' = [call EXCEPT ![c] = now]
  BY DEF Reply
<1> HIDE DEF now
<1> QED
  BY <1>1, <1>2 DEF CallsOK, OthersStay

(* A call keeps what it was asked, and touches nothing but the rows, the
   file and itself; only its own content is added. *)
LEMMA CallFrame ==
    ASSUME TypeOK, NEW c \in Calls, Storable(c), CallStep(c)
    PROVE  /\ UNCHANGED <<mode, provider, opening, turn, moves, host, drift>>
           /\ file' \in Seq(Contents)
           /\ CallsOK' /\ OthersStay(c) /\ Storable(c)'
           /\ RowsOK' /\ RowsStay
           /\ \A d \in Databases : \A i \in DOMAIN rows'[d] :
                 i \in DOMAIN rows[d] \/ rows'[d][i].content \in Contents
<1> USE DEF provider
<1>0. RowsOK /\ CallsOK /\ call[c].id \in Nat /\ Contents \subseteq Stored
  BY DEF TypeOK, RowsOK, CallsOK, Call, Stored
<1>1. CASE StartCall(c)
  <2>1. PICK action \in {"add", "remove", "replace"} : \E ask \in Asks(action) : call' = [call EXCEPT ![c] = ask]
    BY <1>1 DEF StartCall
  <2>2. PICK ask \in Asks(action) : call' = [call EXCEPT ![c] = ask]
    BY <2>1
  <2>3. DOMAIN rows[Home] \subseteq Nat
    BY <1>0, HermesAssumption DEF RowsOK
  <2>4. ask \in Call /\ ask.at = "called" /\ (ask.action # "remove" => ask.content \in Contents)
    BY <2>1, <2>2, <2>3 DEF Asks, Call
  <2>5. CallsOK' /\ OthersStay(c) /\ Storable(c)'
    BY <1>0, <2>2, <2>4 DEF CallsOK, OthersStay, Storable
  <2> QED
    BY <1>0, <1>1, <2>5 DEF StartCall, RowsOK, RowsStay, TypeOK
<1>2. CASE Local(c)
  <2>1. CASE call[c].action = "add" /\ file' = Append(file, call[c].content) /\ Reply(c, "ok")
    <3>1. call[c].content \in Contents
      BY <1>2, <2>1 DEF Local, Storable
    <3> QED
      BY <1>0, <1>2, <2>1, <3>1, ReplyFacts DEF Local, Storable, RowsOK, RowsStay, TypeOK
  <2>2. CASE Reply(c, "failed") /\ UNCHANGED file
    BY <1>0, <1>2, <2>2, ReplyFacts DEF Local, Storable, RowsOK, RowsStay, TypeOK
  <2> QED
    BY <1>2, <2>1, <2>2 DEF Local
<1>3. CASE Store(c)
  <2>0. UNCHANGED <<file, mode, provider, opening, turn, moves, host, drift>>
    BY <1>3 DEF Store
  <2>1. CASE Remember(Home, call[c].content, Tool)
    <3>1. call[c].content \in Contents /\ call[c].at \in {"called", "forgot"}
      BY <1>3 DEF Store, Storable
    <3>2. /\ RowsOK' /\ RowsStay
          /\ \A d \in Databases : \A i \in DOMAIN rows'[d] :
                 i \in DOMAIN rows[d] \/ rows'[d][i].content \in Contents
      <4>1. call[c].content \in Stored
        BY <1>0, <3>1
      <4>2. /\ RowsOK' /\ RowsStay
            /\ \A d \in Databases : \A i \in DOMAIN rows'[d] :
                 \/ i \in DOMAIN rows[d] /\ rows'[d][i] = rows[d][i]
                 \/ d = Home /\ rows'[d][i] = [content |-> call[c].content, source |-> Tool, live |-> TRUE]
        BY <1>0, <2>1, <4>1, RememberFacts, HermesAssumption
      <4> QED
        BY <3>1, <4>2
    <3>3. CASE Reply(c, "failed")
      BY <1>0, <2>0, <3>2, <3>3, ReplyFacts DEF Storable, TypeOK
    <3>4. CASE \E i \in DOMAIN rows'[Home] : call' = [call EXCEPT ![c].at = "ok", ![c].row = i]
      <4>1. PICK i \in DOMAIN rows'[Home] : call' = [call EXCEPT ![c].at = "ok", ![c].row = i]
        BY <3>4
      <4>2. i \in Nat
        BY <3>2, HermesAssumption DEF RowsOK
      <4> DEFINE now == [call[c] EXCEPT !.at = "ok", !.row = i]
      <4>3. now \in Call /\ now.at = "ok"
        BY <1>0, <4>2 DEF CallsOK, Call
      <4>4. call' = [call EXCEPT ![c] = now]
        BY <1>0, <4>1 DEF CallsOK
      <4> HIDE DEF now
      <4>5. CallsOK' /\ OthersStay(c) /\ call'[c].at = "ok"
        BY <1>0, <4>3, <4>4 DEF CallsOK, OthersStay
      <4> QED
        BY <2>0, <3>2, <4>5 DEF Storable, TypeOK
    <3> QED
      BY <1>3, <3>3, <3>4 DEF Store
  <2>2. CASE Reply(c, "failed") /\ UNCHANGED rows
    BY <1>0, <2>0, <2>2, ReplyFacts DEF Storable, RowsOK, RowsStay, TypeOK
  <2> QED
    BY <1>3, <2>1, <2>2 DEF Store
<1>4. CASE Remove(c) \/ ReplaceForgets(c)
  <2>0. /\ UNCHANGED <<file, mode, provider, opening, turn, moves, host, drift>>
        /\ call[c].at = "called"
        /\ Forget(Home, call[c].id) \/ UNCHANGED rows
        /\ \/ call[c].action = "replace" /\ Reply(c, "forgot")
           \/ \E status \in {"ok", "failed"} : Reply(c, status)
    BY <1>4 DEF Remove, ReplaceForgets
  <2>1. /\ RowsOK' /\ RowsStay
        /\ \A d \in Databases : \A i \in DOMAIN rows'[d] : i \in DOMAIN rows[d]
    BY <1>0, <2>0, ForgetFacts, HermesAssumption DEF RowsOK, RowsStay
  <2>2. CallsOK' /\ OthersStay(c) /\ Storable(c)'
    BY <1>0, <2>0, ReplyFacts DEF Storable
  <2> QED
    BY <2>0, <2>1, <2>2 DEF TypeOK
<1>5. CASE Die(c)
  BY <1>0, <1>5, ReplyFacts DEF Die, Storable, RowsOK, RowsStay, TypeOK
<1> QED
  BY <1>1, <1>2, <1>3, <1>4, <1>5 DEF CallStep

(* What a call has taken stays its own, and what it takes is its own. *)
LEMMA CallAccounted ==
    ASSUME TypeOK, NEW c \in Calls, Storable(c), CallStep(c),
           \A i \in DOMAIN rows[Home] : Accounted(i)
    PROVE  \A i \in DOMAIN rows'[Home] : Accounted(i)'
<1>0. RowsOK /\ CallsOK /\ RowsStay /\ OthersStay(c) /\ Home \in Databases
  BY CallFrame, HermesAssumption DEF TypeOK, RowsOK, CallsOK
<1>1. ASSUME NEW e \in Calls \ {c}, NEW i, Took(e, i) PROVE Took(e, i)'
  BY <1>0, <1>1 DEF Took, OthersStay, RowsStay
<1>2. ASSUME NEW i, Took(c, i) PROVE Took(c, i)'
  <2>1. CASE StartCall(c) \/ Local(c) \/ Remove(c) \/ ReplaceForgets(c)
    BY <1>2, <2>1 DEF StartCall, Local, Remove, ReplaceForgets, Took
  <2>2. CASE Reply(c, "failed")
    BY <1>0, <1>2, <2>2, ReplyFacts DEF Took
  <2>3. CASE Store(c) /\ ~ Reply(c, "failed")
    <3>1. PICK j \in DOMAIN rows'[Home] :
             /\ rows'[Home][j].content = call[c].content
             /\ call' = [call EXCEPT ![c].at = "ok", ![c].row = j]
      BY <2>3 DEF Store
    <3> DEFINE now == [call[c] EXCEPT !.at = "ok", !.row = j]
    <3>2. /\ now.at = "ok" /\ now.row = j
          /\ now.id = call[c].id /\ now.content = call[c].content /\ now.action = call[c].action
      BY <1>0 DEF CallsOK, Call
    <3>3. call'[c] = now
      BY <1>0, <3>1 DEF CallsOK
    <3> HIDE DEF now
    <3> QED
      BY <1>2, <3>1, <3>2, <3>3 DEF Took
  <2> QED
    BY <2>1, <2>2, <2>3 DEF CallStep, Die
<1>3. ASSUME NEW i \in DOMAIN rows'[Home]
      PROVE  rows'[Home][i].live \/ (i \in DOMAIN rows[Home] /\ ~ rows[Home][i].live) \/ Took(c, i)'
  <2>1. CASE UNCHANGED rows
    BY <1>3, <2>1
  <2>2. CASE Store(c) /\ ~ UNCHANGED rows
    <3>1. call[c].content \in Stored /\ Remember(Home, call[c].content, Tool)
      BY <2>2 DEF Store, Storable, Stored
    <3>2. \/ i \in DOMAIN rows[Home] /\ rows'[Home][i] = rows[Home][i]
          \/ rows'[Home][i] = [content |-> call[c].content, source |-> Tool, live |-> TRUE]
      BY <1>0, <1>3, <3>1, RememberFacts
    <3> QED
      BY <3>2
  <2>3. CASE (Remove(c) \/ ReplaceForgets(c)) /\ ~ UNCHANGED rows
    <3>1. /\ Forget(Home, call[c].id)
          /\ \/ Reply(c, "forgot")
             \/ call[c].action = "remove" /\ \E status \in {"ok", "failed"} : Reply(c, status)
      BY <2>3 DEF Remove, ReplaceForgets
    <3>2. call[c].id \in Nat
      BY <1>0 DEF CallsOK, Call
    <3>3. i \in DOMAIN rows[Home] /\ (rows'[Home][i].live = rows[Home][i].live \/ i = call[c].id)
      BY <1>0, <1>3, <3>1, <3>2, ForgetFacts
    <3>4. CASE i = call[c].id
      BY <1>0, <3>1, <3>4, ReplyFacts DEF Took
    <3> QED
      BY <3>3, <3>4
  <2> QED
    BY <2>1, <2>2, <2>3 DEF CallStep, StartCall, Local, Die
<1> QED
  BY <1>1, <1>2, <1>3 DEF Accounted

-----------------------------------------------------------------------------
(* The provider.                                                           *)

LEMMA HostIsNoOther == "host" \in Threads /\ Turns \subseteq Threads \ {"host"} /\ "asker" \in Threads \ {"host"}
BY HermesAssumption DEF Threads

LEMMA OpeningFacts ==
    ASSUME TypeOK, NEW a \in Threads, Opens(a)
    PROVE  /\ opening[a].said \in Said /\ opening[a].alone \in BOOLEAN
           /\ opening[a].at \in {"session", "context", "service"}
           /\ opening[a].said.session \in Hosted /\ opening[a].said.context \in Contexts
           /\ opening[a].said.db \in Databases
BY DEF TypeOK, Opening, Opens, Said

OtherOpeningsStay(a) == \A b \in Threads \ {a} : opening'[b] = opening[b]

LEMMA PutOpening ==
    ASSUME TypeOK, NEW a \in Threads, NEW o \in Opening, opening' = [opening EXCEPT ![a] = o]
    PROVE  opening' \in [Threads -> Opening] /\ opening'[a] = o /\ OtherOpeningsStay(a)
BY DEF TypeOK, OtherOpeningsStay

LEMMA MoveOpening ==
    ASSUME TypeOK, NEW a \in Threads, Opens(a), NEW next \in {"context", "service"},
           opening' = [opening EXCEPT ![a].at = next]
    PROVE  /\ opening' \in [Threads -> Opening] /\ OtherOpeningsStay(a)
           /\ opening'[a].at = next /\ Opens(a)'
           /\ opening'[a].said = opening[a].said /\ opening'[a].alone = opening[a].alone
<1>1. opening[a] \in [at : {"session", "context", "service"}, said : Said, alone : BOOLEAN]
  BY DEF TypeOK, Opening, Opens
<1> DEFINE o == [opening[a] EXCEPT !.at = next]
<1>2. o \in Opening /\ o.at = next /\ o.said = opening[a].said /\ o.alone = opening[a].alone
  BY <1>1 DEF Opening
<1>3. opening' = [opening EXCEPT ![a] = o]
  OBVIOUS
<1> HIDE DEF o
<1> QED
  BY <1>2, <1>3, PutOpening DEF Opens

(* The assignments of initialize, by whatever thread. *)
LEMMA FieldFollows ==
    ASSUME TypeOK, Follows, NEW a \in Threads, SetSession(a) \/ SetContext(a)
    PROVE  TypeOK' /\ Follows' /\ (\A b \in Threads : Opens(b)' = Opens(b))
<1>0. Opens(a) /\ UNCHANGED <<rows, file, mode, service, turn, call, moves, host, drift>>
  BY DEF SetSession, SetContext, Opens
<1>1. PICK next \in {"context", "service"} : opening' = [opening EXCEPT ![a].at = next]
  BY DEF SetSession, SetContext
<1>2. /\ opening' \in [Threads -> Opening] /\ OtherOpeningsStay(a)
      /\ opening'[a].at = next /\ Opens(a)'
      /\ opening'[a].said = opening[a].said /\ opening'[a].alone = opening[a].alone
  BY <1>0, <1>1, MoveOpening
<1>3. \A b \in Threads : /\ Opens(b)' = Opens(b)
                         /\ opening'[b].said = opening[b].said /\ opening'[b].alone = opening[b].alone
  BY <1>0, <1>2 DEF OtherOpeningsStay, Opens
<1>4. Reopening' = Reopening
  BY <1>3 DEF Reopening
<1>5. TypeOK'
  <2>1. session' \in Hosted /\ context' \in Contexts
    BY <1>0, OpeningFacts DEF SetSession, SetContext, TypeOK
  <2> QED
    BY <1>0, <1>2, <2>1 DEF TypeOK
<1>6. CASE a = "host"
  <2>1. ReopenOK'
    BY <1>0, <1>3, <1>6, HostIsNoOther DEF Follows, ReopenOK
  <2>2. opening["host"].alone \in BOOLEAN
    BY <1>0, <1>6, OpeningFacts, HostIsNoOther
  <2>3. CASE SetSession(a)
    <3>0. opening' = [opening EXCEPT !["host"].at = "context"]
      BY <1>6, <2>3 DEF SetSession
    <3>1. opening'["host"].at = "context"
      BY <1>0, <1>6, <3>0, MoveOpening
    <3>2. /\ opening["host"].at = "session" /\ session' = opening["host"].said.session
          /\ context' = context
      BY <1>6, <2>3 DEF SetSession
    <3>3. HostOK'
      BY <1>0, <1>3, <1>4, <1>6, <3>1, <3>2, HostIsNoOther DEF Follows, HostOK
    <3>4. CurrentOK'
      BY <1>0, <1>3, <1>6, <3>1, <3>2, HostIsNoOther DEF Follows, CurrentOK, HostAt
    <3> QED
      BY <1>3, <1>5, <2>1, <3>3, <3>4 DEF Follows
  <2>4. CASE SetContext(a)
    <3>0. opening' = [opening EXCEPT !["host"].at = "service"]
      BY <1>6, <2>4 DEF SetContext
    <3>1. opening'["host"].at = "service"
      BY <1>0, <1>6, <3>0, MoveOpening
    <3>2. /\ opening["host"].at = "context" /\ context' = opening["host"].said.context
          /\ session' = session
      BY <1>6, <2>4 DEF SetContext
    <3>3. HostOK'
      BY <1>0, <1>3, <1>4, <1>6, <3>1, <3>2, HostIsNoOther DEF Follows, HostOK
    <3>4. CurrentOK'
      BY <1>0, <1>3, <1>6, <3>1, <3>2, HostIsNoOther DEF Follows, CurrentOK, HostAt
    <3> QED
      BY <1>3, <1>5, <2>1, <3>3, <3>4 DEF Follows
  <2> QED
    BY <2>3, <2>4
<1>7. CASE a # "host"
  <2>1. /\ opening'["host"] = opening["host"] /\ Reopening /\ "reopened" \in drift
        /\ Opens("host") => "raced" \in drift /\ ~ opening["host"].alone
        /\ "raced" \in drift \/ session' = session
    <3>1. opening'["host"] = opening["host"] /\ Reopening
      BY <1>0, <1>2, <1>7, HostIsNoOther DEF OtherOpeningsStay, Reopening
    <3>2. "reopened" \in drift /\ ("raced" \in drift \/ opening[a].said.session = session)
      BY <1>0, <1>7 DEF Follows, ReopenOK
    <3>3. Opens("host") => "raced" \in drift /\ ~ opening["host"].alone
      BY <1>0, <1>7, <3>1, HostIsNoOther DEF Follows, ReopenOK, HostOK
    <3> QED
      BY <3>1, <3>2, <3>3 DEF SetSession, SetContext
  <2>2. ReopenOK'
    BY <1>0, <1>3, <2>1, HostIsNoOther DEF Follows, ReopenOK
  <2>3. HostOK' /\ CurrentOK'
    BY <1>0, <1>3, <2>1, HostIsNoOther DEF Follows, HostOK, CurrentOK, HostAt, Opens
  <2> QED
    BY <1>3, <1>5, <2>2, <2>3 DEF Follows
<1> QED
  BY <1>3, <1>5, <1>6, <1>7 DEF Follows

(* A thread other than the host's starts or ends to initialize. *)
LEMMA ReopenFollows ==
    ASSUME TypeOK, Follows, NEW a \in Threads \ {"host"}, ~ Opens(a), Reopen(a), turn' \in [Turns -> Turn]
    PROVE  TypeOK' /\ Follows' /\ (\A b \in Threads \ {a} : Opens(b)' = Opens(b))
<1> DEFINE said == [session |-> session, context |-> "primary", db |-> Home]
           o == [at |-> "session", alone |-> FALSE, said |-> said]
           h == IF Opens("host") THEN [opening["host"] EXCEPT !.alone = FALSE] ELSE opening["host"]
<1>0. UNCHANGED <<rows, file, mode, session, context, service, call, moves, host>>
  BY DEF Reopen, provider
<1>1. said \in Said /\ o \in Opening
  BY HermesAssumption DEF TypeOK, Said, Opening
<1>2. /\ h \in Opening /\ h.at = opening["host"].at
      /\ Opens("host") => h.said = opening["host"].said /\ ~ h.alone
  <2>1. CASE Opens("host")
    <3>1. opening["host"] \in [at : {"session", "context", "service"}, said : Said, alone : BOOLEAN]
      BY <2>1, HostIsNoOther DEF TypeOK, Opening, Opens
    <3> QED
      BY <2>1, <3>1 DEF Opening
  <2>2. CASE ~ Opens("host")
    BY <2>2, HostIsNoOther DEF TypeOK, Opening
  <2> QED
    BY <2>1, <2>2
<1>3. opening' = [b \in Threads |-> IF b = a THEN o ELSE IF b = "host" THEN h ELSE opening[b]]
  BY DEF Reopen
<1>4. drift' = drift \cup {"reopened"} \cup (IF Opens("host") THEN {"raced"} ELSE {})
  BY DEF Reopen
<1> HIDE DEF h, o
<1>5. /\ opening' \in [Threads -> Opening]
      /\ opening'[a] = o /\ opening'["host"] = h
      /\ \A b \in Threads \ {a, "host"} : opening'[b] = opening[b]
  BY <1>1, <1>2, <1>3, HostIsNoOther DEF TypeOK
<1>6. /\ Opens(a)' /\ Opens("host")' = Opens("host")
      /\ opening'[a].said.db = Home /\ opening'[a].said.session = session
      /\ \A b \in Threads \ {a} : Opens(b)' = Opens(b)
  BY <1>2, <1>5 DEF Opens, o
<1>7. TypeOK'
  BY <1>0, <1>4, <1>5 DEF TypeOK, Drifts
<1>8. ReopenOK'
  BY <1>0, <1>4, <1>5, <1>6 DEF Follows, ReopenOK
<1>9. HostOK'
  BY <1>2, <1>4, <1>5, <1>6 DEF HostOK
<1>10. CurrentOK'
  BY <1>0, <1>2, <1>4, <1>5, <1>6 DEF Follows, CurrentOK, HostAt
<1> QED
  BY <1>6, <1>7, <1>8, <1>9, <1>10 DEF Follows

LEMMA BuildFacts ==
    ASSUME TypeOK, NEW a \in Threads, NEW built \in BOOLEAN, Build(a, built)
    PROVE  /\ Opens(a) /\ opening[a].at = "service" /\ ~ Opens(a)' /\ OtherOpeningsStay(a)
           /\ \A b \in Threads \ {a} : Opens(b)' = Opens(b)
           /\ opening' \in [Threads -> Opening] /\ service' \in Databases \cup {NoDb}
           /\ UNCHANGED <<rows, file, mode, context, session, call, moves>>
<1>1. NotOpening \in Opening /\ NotOpening.at = "no"
  BY DEF Opening, NotOpening
<1>2. opening' \in [Threads -> Opening] /\ opening'[a] = NotOpening /\ OtherOpeningsStay(a)
  BY <1>1, PutOpening DEF Build
<1>3. Opens(a) /\ ~ Opens(a)'
  BY <1>1, <1>2 DEF Build, Opens
<1>4. service' \in Databases \cup {NoDb}
  BY <1>3, OpeningFacts DEF Build, TypeOK
<1> QED
  BY <1>2, <1>3, <1>4 DEF Build, OtherOpeningsStay, Opens

LEMMA ReopenedFollows ==
    ASSUME TypeOK, Follows, NEW a \in Threads \ {"host"}, NEW built \in BOOLEAN,
           Build(a, built), UNCHANGED <<host, drift>>
    PROVE  Follows'
<1>1. /\ Opens(a) /\ ~ Opens(a)' /\ OtherOpeningsStay(a)
      /\ \A b \in Threads \ {a} : Opens(b)' = Opens(b)
      /\ UNCHANGED <<context, session>>
  BY BuildFacts
<1>2. /\ opening'["host"] = opening["host"] /\ Opens("host")' = Opens("host")
      /\ Reopening' => Reopening
  BY <1>1, HostIsNoOther DEF OtherOpeningsStay, Reopening
<1>3. "reopened" \in drift /\ service' \in {service, Home}
  BY <1>1 DEF Follows, ReopenOK, Build
<1>4. ReopenOK'
  BY <1>1, <1>2 DEF Follows, ReopenOK, OtherOpeningsStay
<1>5. HostOK'
  BY <1>1, <1>2 DEF Follows, HostOK
<1>6. CurrentOK'
  BY <1>1, <1>2, <1>3 DEF Follows, CurrentOK, HostAt
<1> QED
  BY <1>4, <1>5, <1>6 DEF Follows

LEMMA EndFollows ==
    ASSUME TypeOK, Follows, NEW built \in BOOLEAN, EndInitialize(built)
    PROVE  TypeOK' /\ Follows' /\ (\A b \in Threads \ {"host"} : Opens(b)' = Opens(b))
           /\ UNCHANGED <<rows, file, mode, turn, call>>
<1> DEFINE o == opening["host"]
<1>1. /\ Opens("host") /\ o.at = "service" /\ ~ Opens("host")' /\ OtherOpeningsStay("host")
      /\ \A b \in Threads \ {"host"} : Opens(b)' = Opens(b)
      /\ opening' \in [Threads -> Opening] /\ service' \in Databases \cup {NoDb}
      /\ UNCHANGED <<rows, file, mode, context, session, turn, call, moves>>
  BY BuildFacts, HostIsNoOther DEF EndInitialize
<1>2. /\ o.said \in Said /\ o.alone \in BOOLEAN /\ host' = o.said
      /\ o.said.db \in Databases
  BY <1>1, OpeningFacts, HostIsNoOther DEF EndInitialize
<1>3. /\ service' = IF built THEN o.said.db ELSE service
      /\ drift' = IF ~ built THEN drift \cup {"failed"} ELSE IF o.alone THEN {} ELSE drift
  BY DEF EndInitialize, Build
<1>4. TypeOK'
  BY <1>1, <1>2, <1>3 DEF TypeOK, Drifts
<1>5. /\ o.alone => ~ Reopening /\ session = o.said.session /\ context = o.said.context
      /\ ~ o.alone => "raced" \in drift /\ "reopened" \in drift
  BY <1>1 DEF Follows, HostOK
<1> HIDE DEF o
<1>6. ReopenOK'
  <2> SUFFICES ASSUME NEW a \in Threads \ {"host"}, Opens(a)'
               PROVE  /\ "reopened" \in drift'
                      /\ opening'[a].said.db = Home
                      /\ "raced" \in drift' \/ (~ Opens("host")' /\ opening'[a].said.session = session')
    BY DEF ReopenOK
  <2>1. Opens(a) /\ opening'[a] = opening[a] /\ ~ o.alone
    BY <1>1, <1>2, <1>5 DEF OtherOpeningsStay, Reopening
  <2> QED
    BY <1>1, <1>2, <1>3, <1>5, <2>1 DEF Follows, ReopenOK
<1>7. HostOK'
  BY <1>1 DEF HostOK
<1>8. CurrentOK'
  BY <1>1, <1>2, <1>3, <1>5 DEF CurrentOK, HostAt
<1> QED
  BY <1>1, <1>4, <1>6, <1>7, <1>8 DEF Follows

LEMMA SayFollows ==
    ASSUME TypeOK, Follows,
           Shutdown \/ (\E said \in Said : StartInitialize(said)) \/ (\E s \in Hosted : Switch(s))
    PROVE  TypeOK' /\ Follows' /\ (\A b \in Threads \ {"host"} : Opens(b)' = Opens(b))
           /\ UNCHANGED <<rows, file, mode, turn, call>>
<1>0. ~ Opens("host") /\ moves' \in 0..MaxMoves /\ UNCHANGED <<rows, file, mode, turn, call>>
  BY HermesAssumption DEF Shutdown, StartInitialize, Switch, HostFree, TypeOK
<1>1. CASE Shutdown
  <2>1. service' = NoDb /\ UNCHANGED <<context, session, opening, host, drift>>
    BY <1>1 DEF Shutdown
  <2> QED
    BY <1>0, <2>1 DEF TypeOK, Follows, ReopenOK, HostOK, CurrentOK, HostAt, Opens, Reopening
<1>2. ASSUME NEW s \in Hosted, Switch(s)
      PROVE  TypeOK' /\ Follows' /\ UNCHANGED opening
  <2>1. /\ session' = s /\ host' = [host EXCEPT !.session = s] /\ UNCHANGED <<service, context, opening>>
        /\ drift' = drift \cup (IF Reopening THEN {"raced"} ELSE {})
    BY <1>2 DEF Switch
  <2>2. host' \in Said /\ host'.session = s /\ host'.context = host.context /\ host'.db = host.db
    BY <2>1 DEF TypeOK, Said
  <2>3. TypeOK'
    BY <1>0, <1>2, <2>1, <2>2 DEF TypeOK, Drifts
  <2>4. (\A b \in Threads : Opens(b)' = Opens(b)) /\ ~ Opens("host")'
    BY <1>0, <2>1 DEF Opens
  <2>5. ReopenOK'
    BY <2>1, <2>4 DEF Follows, ReopenOK, Reopening
  <2>6. HostOK' /\ CurrentOK'
    BY <1>0, <2>1, <2>2, <2>4 DEF Follows, HostOK, CurrentOK, HostAt
  <2> QED
    BY <2>1, <2>3, <2>5, <2>6 DEF Follows
<1>3. ASSUME NEW said \in Said, StartInitialize(said)
      PROVE  TypeOK' /\ Follows' /\ OtherOpeningsStay("host")
  <2> DEFINE o == [at |-> "session", said |-> said, alone |-> ~ Reopening]
  <2>1. /\ opening' = [opening EXCEPT !["host"] = o] /\ UNCHANGED <<service, context, session, host>>
        /\ drift' = drift \cup (IF Reopening THEN {"raced"} ELSE {})
    BY <1>3 DEF StartInitialize, provider
  <2>2. o \in Opening /\ o.at = "session" /\ o.alone = ~ Reopening
    BY DEF Opening, Reopening
  <2> HIDE DEF o
  <2>3. opening' \in [Threads -> Opening] /\ opening'["host"] = o /\ OtherOpeningsStay("host")
    BY <2>1, <2>2, PutOpening, HostIsNoOther
  <2>4. TypeOK'
    BY <1>0, <2>1, <2>3 DEF TypeOK, Drifts
  <2>5. (\A b \in Threads \ {"host"} : Opens(b)' = Opens(b)) /\ Opens("host")' /\ Reopening' = Reopening
    BY <2>2, <2>3 DEF OtherOpeningsStay, Opens, Reopening
  <2>6. ReopenOK'
    BY <2>1, <2>3, <2>5 DEF Follows, ReopenOK, OtherOpeningsStay, Reopening
  <2>7. Reopening => "reopened" \in drift
    BY DEF Follows, ReopenOK, Reopening
  <2>8. HostOK'
    BY <2>1, <2>2, <2>3, <2>5, <2>7 DEF HostOK
  <2>9. CurrentOK'
    BY <1>0, <2>1, <2>2, <2>3 DEF Follows, CurrentOK, HostAt
  <2> QED
    BY <2>3, <2>4, <2>6, <2>8, <2>9 DEF Follows
<1> QED
  <2>1. CASE Shutdown
    BY <1>0, <1>1, <2>1 DEF Shutdown, Opens
  <2>2. CASE \E s \in Hosted : Switch(s)
    BY <1>0, <1>2, <2>2 DEF Opens
  <2>3. CASE \E said \in Said : StartInitialize(said)
    BY <1>0, <1>3, <2>3 DEF OtherOpeningsStay, Opens
  <2> QED
    BY <2>1, <2>2, <2>3

-----------------------------------------------------------------------------
(* The turns.                                                              *)

(* What the provider is, is among what the host has said. *)
LEMMA Knows ==
    ASSUME TypeOK, Follows
    PROVE  /\ Sayings \subseteq Said
           /\ "raced" \notin drift => \E h \in Sayings : session = h.session
           /\ "reopened" \notin drift => \E h \in Sayings : context = h.context
           /\ "failed" \notin drift => service \in {NoDb, Home} \cup {h.db : h \in Sayings}
           /\ drift = {} => service = NoDb \/ \E h \in Sayings : service = h.db
<1>1. /\ host \in Sayings /\ Sayings \subseteq Said
      /\ Opens("host") => opening["host"].said \in Sayings
  BY OpeningFacts, HostIsNoOther DEF Sayings, TypeOK
<1>2. Opens("host") => opening["host"].alone \in BOOLEAN
  BY OpeningFacts, HostIsNoOther
<1>3. "raced" \notin drift => \E h \in Sayings : session = h.session
  BY <1>1, <1>2 DEF Follows, HostOK, CurrentOK, HostAt
<1>4. "reopened" \notin drift => \E h \in Sayings : context = h.context
  BY <1>1, <1>2 DEF Follows, HostOK, CurrentOK, HostAt
<1> QED
  BY <1>1, <1>3, <1>4 DEF Follows, CurrentOK

OtherTurnsStay(t) == \A u \in Turns \ {t} : turn'[u] = turn[u]

LEMMA PutTurn ==
    ASSUME TypeOK, NEW t \in Turns, NEW now \in Turn, turn' = [turn EXCEPT ![t] = now]
    PROVE  turn' \in [Turns -> Turn] /\ turn'[t] = now /\ OtherTurnsStay(t)
BY DEF TypeOK, OtherTurnsStay

LEMMA MoveTurn ==
    ASSUME TypeOK, NEW t \in Turns,
           NEW next \in {"opening", "opened", "raised", "stored", "lost"},
           turn' = [turn EXCEPT ![t].at = next]
    PROVE  /\ turn' \in [Turns -> Turn] /\ OtherTurnsStay(t) /\ turn'[t].at = next
           /\ turn'[t].asked = turn[t].asked /\ turn'[t].db = turn[t].db
           /\ turn'[t].source = turn[t].source
           /\ turn'[t].heard = turn[t].heard /\ turn'[t].drift = turn[t].drift
<1> DEFINE now == [turn[t] EXCEPT !.at = next]
<1>1. /\ now \in Turn /\ now.at = next /\ now.asked = turn[t].asked /\ now.db = turn[t].db
      /\ now.source = turn[t].source /\ now.heard = turn[t].heard /\ now.drift = turn[t].drift
  BY DEF TypeOK, Turn
<1>2. turn' = [turn EXCEPT ![t] = now]
  OBVIOUS
<1> HIDE DEF now
<1> QED
  BY <1>1, <1>2, PutTurn

LEMMA ReadsFacts ==
    ASSUME TypeOK, Follows, NEW t \in Turns, NEW now \in Turn, Reads(t, now)
    PROVE  /\ turn' \in [Turns -> Turn] /\ OtherTurnsStay(t)
           /\ turn'[t].at = now.at /\ turn'[t].asked = now.asked
           /\ turn'[t].db = now.db /\ turn'[t].source = now.source
           /\ turn'[t].heard = now.heard \cup Sayings
           /\ turn'[t].drift = now.drift \cup drift
<1> DEFINE new == [now EXCEPT !.heard = @ \cup Sayings, !.drift = @ \cup drift]
<1>1. Sayings \subseteq Said /\ drift \subseteq Drifts
  BY Knows DEF TypeOK
<1>2. /\ new \in Turn /\ new.at = now.at /\ new.asked = now.asked /\ new.db = now.db
      /\ new.source = now.source
      /\ new.heard = now.heard \cup Sayings /\ new.drift = now.drift \cup drift
  BY <1>1 DEF Turn
<1>3. turn' = [turn EXCEPT ![t] = new]
  BY DEF Reads
<1> HIDE DEF new
<1> QED
  BY <1>2, <1>3, PutTurn

(* What was read before stays good while more is heard. *)
LEMMA HeardMore ==
    ASSUME NEW u, NEW v, u.heard \subseteq v.heard, u.drift \subseteq v.drift
    PROVE  /\ InContext(u) => InContext(v)
           /\ u.db = v.db /\ InDatabase(u) => InDatabase(v)
           /\ u.source = v.source /\ u.asked = v.asked /\ InSession(u) => InSession(v)
<1>1. InContext(u) => InContext(v)
  BY DEF InContext
<1>2. u.db = v.db /\ InDatabase(u) => InDatabase(v)
  BY DEF InDatabase
<1>3. u.source = v.source /\ u.asked = v.asked /\ InSession(u) => InSession(v)
  BY DEF InSession
<1> QED
  BY <1>1, <1>2, <1>3

Keeps(t) ==
    /\ TypeOK' /\ Follows'
    /\ OtherTurnsStay(t) /\ Addressed(t)'
    /\ \A u \in Turns \ {t} : Opens(u)' = Opens(u)

LEMMA SyncTurnKeeps ==
    ASSUME TypeOK, Follows, NEW t \in Turns, Addressed(t),
           NEW asked \in Hosted \cup {NoSession}, SyncTurn(t, asked)
    PROVE  Keeps(t) /\ UNCHANGED <<rows, call>> /\ ~ Sourced(t)
<1>0. UNCHANGED <<rows, file, mode, provider, opening, call, moves, host, drift>> /\ turn[t].at = "idle"
  BY DEF SyncTurn
<1> DEFINE now == [NoTurn EXCEPT !.asked = asked,
                      !.at = IF context \in NonPrimary THEN "skipped" ELSE "looked"]
<1>1. /\ now \in Turn /\ now.heard = {} /\ now.drift = {}
      /\ now.at = IF context \in NonPrimary THEN "skipped" ELSE "looked"
  BY DEF Turn, NoTurn
<1>2. Reads(t, now)
  BY DEF SyncTurn
<1> HIDE DEF now
<1>3. /\ turn' \in [Turns -> Turn] /\ OtherTurnsStay(t)
      /\ turn'[t].at = now.at /\ turn'[t].heard = Sayings /\ turn'[t].drift = drift
  BY <1>1, <1>2, ReadsFacts
<1>4. Follows' /\ TypeOK' /\ \A b : Opens(b)' = Opens(b)
  BY <1>0, <1>3 DEF TypeOK, Follows, ReopenOK, HostOK, CurrentOK, HostAt, Opens, Reopening, provider
<1>5. Addressed(t)'
  <2>1. ~ Opens(t)
    BY <1>0 DEF Addressed
  <2>2. ~ Served(t)' /\ ~ Sourced(t)'
    BY <1>1, <1>3 DEF Served, Sourced
  <2>3. Looked(t)' => InContext(turn'[t])
    BY <1>1, <1>3, Knows DEF Looked, Served, Sourced, InContext
  <2> QED
    BY <1>4, <2>1, <2>2, <2>3 DEF Addressed
<1> QED
  BY <1>0, <1>3, <1>4, <1>5 DEF Keeps, Sourced

LEMMA RequireKeeps ==
    ASSUME TypeOK, Follows, NEW t \in Turns, Addressed(t), RequireService(t)
    PROVE  Keeps(t) /\ UNCHANGED <<rows, call>> /\ ~ Sourced(t)
<1>0. turn[t].at = "looked" /\ ~ Opens(t) /\ InContext(turn[t])
  BY DEF RequireService, Addressed, Looked
<1>1. PICK next \in {"opening", "opened"} : turn' = [turn EXCEPT ![t].at = next]
  BY DEF RequireService
<1>2. /\ turn' \in [Turns -> Turn] /\ OtherTurnsStay(t) /\ turn'[t].at = next
      /\ turn'[t].heard = turn[t].heard /\ turn'[t].drift = turn[t].drift
  BY <1>1, MoveTurn
<1>3. InContext(turn'[t]) /\ ~ Served(t)' /\ ~ Sourced(t)'
  BY <1>0, <1>2, HeardMore DEF Served, Sourced
<1>4. CASE UNCHANGED <<rows, file, mode, provider, opening, call, moves, host, drift>>
  <2>1. Follows' /\ TypeOK' /\ \A b : Opens(b)' = Opens(b)
    BY <1>2, <1>4 DEF TypeOK, Follows, ReopenOK, HostOK, CurrentOK, HostAt, Opens, Reopening, provider
  <2> QED
    BY <1>0, <1>2, <1>3, <1>4, <2>1 DEF Keeps, Addressed, Sourced
<1>5. CASE Reopen(t) /\ turn' = [turn EXCEPT ![t].at = "opening"]
  <2>1. t \in Threads \ {"host"}
    BY HostIsNoOther
  <2>2. Follows' /\ TypeOK' /\ \A b \in Threads \ {t} : Opens(b)' = Opens(b)
    BY <1>0, <1>2, <1>5, <2>1, MoveTurn, ReopenFollows
  <2>3. turn'[t].at = "opening" /\ UNCHANGED <<rows, call>>
    BY <1>5, MoveTurn DEF Reopen
  <2> QED
    BY <1>0, <1>2, <1>3, <2>2, <2>3, HostIsNoOther DEF Keeps, Addressed, Sourced
<1> QED
  BY <1>4, <1>5 DEF RequireService

LEMMA OpenedKeeps ==
    ASSUME TypeOK, Follows, NEW t \in Turns, Addressed(t), NEW built \in BOOLEAN,
           ServiceOpened(t, built)
    PROVE  Keeps(t) /\ UNCHANGED <<rows, call>> /\ ~ Sourced(t)
<1>0. t \in Threads \ {"host"} /\ Build(t, built) /\ UNCHANGED <<host, drift>>
  BY HostIsNoOther DEF ServiceOpened
<1>1. /\ Opens(t) /\ ~ Opens(t)'
      /\ \A b \in Threads \ {t} : Opens(b)' = Opens(b)
      /\ opening' \in [Threads -> Opening] /\ service' \in Databases \cup {NoDb}
      /\ UNCHANGED <<rows, file, mode, context, session, call, moves>>
  BY <1>0, BuildFacts
<1>2. turn[t].at = "opening" /\ InContext(turn[t])
  BY <1>1 DEF Addressed, Looked
<1>3. PICK next \in {"opened", "raised"} : turn' = [turn EXCEPT ![t].at = next]
  BY DEF ServiceOpened
<1>4. /\ turn' \in [Turns -> Turn] /\ OtherTurnsStay(t) /\ turn'[t].at = next
      /\ turn'[t].heard = turn[t].heard /\ turn'[t].drift = turn[t].drift
  BY <1>3, MoveTurn
<1>5. Follows'
  BY <1>0, ReopenedFollows
<1>6. TypeOK'
  BY <1>0, <1>1, <1>4 DEF TypeOK
<1>7. Addressed(t)'
  BY <1>1, <1>2, <1>4, HeardMore DEF Addressed, Looked, Served, Sourced
<1> QED
  BY <1>1, <1>2, <1>4, <1>5, <1>6, <1>7, HostIsNoOther DEF Keeps, Sourced

LEMMA TakeServiceKeeps ==
    ASSUME TypeOK, Follows, NEW t \in Turns, Addressed(t), TakeService(t)
    PROVE  Keeps(t) /\ UNCHANGED <<rows, call>> /\ ~ Sourced(t)
<1>0. /\ UNCHANGED <<rows, file, mode, provider, opening, call, moves, host, drift>>
      /\ turn[t].at = "opened" /\ ~ Opens(t) /\ InContext(turn[t]) /\ turn[t] \in Turn
  BY DEF TakeService, Addressed, Looked, TypeOK
<1> DEFINE now == [turn[t] EXCEPT !.db = service,
                      !.at = IF service = NoDb THEN "raised" ELSE "served"]
<1>1. /\ now \in Turn /\ now.heard = turn[t].heard /\ now.drift = turn[t].drift /\ now.db = service
      /\ now.at = IF service = NoDb THEN "raised" ELSE "served"
  BY <1>0 DEF Turn, TypeOK
<1>2. Reads(t, now)
  BY DEF TakeService
<1> HIDE DEF now
<1>3. /\ turn' \in [Turns -> Turn] /\ OtherTurnsStay(t)
      /\ turn'[t].at = now.at /\ turn'[t].db = service
      /\ turn'[t].heard = turn[t].heard \cup Sayings /\ turn'[t].drift = turn[t].drift \cup drift
  BY <1>1, <1>2, ReadsFacts
<1>4. Follows' /\ TypeOK' /\ \A b : Opens(b)' = Opens(b)
  BY <1>0, <1>3 DEF TypeOK, Follows, ReopenOK, HostOK, CurrentOK, HostAt, Opens, Reopening, provider
<1>5. Addressed(t)'
  <2>1. InContext(turn'[t])
    BY <1>0, <1>3, HeardMore
  <2>2. service # NoDb => InDatabase(turn'[t])
    BY <1>3, Knows DEF InDatabase, TypeOK
  <2>3. ~ Sourced(t)' /\ (Served(t)' => service # NoDb)
    BY <1>1, <1>3 DEF Served, Sourced
  <2> QED
    BY <1>0, <1>4, <2>1, <2>2, <2>3 DEF Addressed
<1> QED
  BY <1>0, <1>3, <1>4, <1>5 DEF Keeps, Sourced

LEMMA TakeSessionKeeps ==
    ASSUME TypeOK, Follows, NEW t \in Turns, Addressed(t), TakeSession(t)
    PROVE  Keeps(t) /\ UNCHANGED <<rows, call>> /\ ~ Sourced(t)
<1>0. /\ UNCHANGED <<rows, file, mode, provider, opening, call, moves, host, drift>>
      /\ turn[t].at = "served" /\ ~ Opens(t) /\ turn[t] \in Turn
      /\ InContext(turn[t]) /\ InDatabase(turn[t])
  BY DEF TakeSession, Addressed, Looked, Served, TypeOK
<1> DEFINE src == Of(turn[t].asked, session)
           now == [turn[t] EXCEPT !.source = src, !.at = "remember"]
<1>1. src \in Hosted /\ (turn[t].asked # NoSession => src = turn[t].asked)
  BY <1>0, HermesAssumption DEF Of, Turn, TypeOK
<1>2. /\ now \in Turn /\ now.heard = turn[t].heard /\ now.drift = turn[t].drift
      /\ now.db = turn[t].db /\ now.at = "remember" /\ now.source = src /\ now.asked = turn[t].asked
  BY <1>0, <1>1 DEF Turn
<1>3. Reads(t, now)
  BY DEF TakeSession
<1> HIDE DEF now, src
<1>4. /\ turn' \in [Turns -> Turn] /\ OtherTurnsStay(t)
      /\ turn'[t].at = "remember" /\ turn'[t].db = turn[t].db
      /\ turn'[t].source = src /\ turn'[t].asked = turn[t].asked
      /\ turn'[t].heard = turn[t].heard \cup Sayings /\ turn'[t].drift = turn[t].drift \cup drift
  BY <1>2, <1>3, ReadsFacts
<1>5. Follows' /\ TypeOK' /\ \A b : Opens(b)' = Opens(b)
  BY <1>0, <1>4 DEF TypeOK, Follows, ReopenOK, HostOK, CurrentOK, HostAt, Opens, Reopening, provider
<1>6. InContext(turn'[t]) /\ InDatabase(turn'[t])
  BY <1>0, <1>4, HeardMore
<1>7. InSession(turn'[t])
  <2>1. "raced" \notin drift => \E h \in Sayings : src = Of(turn[t].asked, h.session)
    BY Knows DEF src
  <2> QED
    BY <1>1, <1>4, <2>1 DEF InSession
<1> QED
  BY <1>0, <1>4, <1>5, <1>6, <1>7 DEF Keeps, Addressed, Sourced

LEMMA StoreTurnFrame ==
    ASSUME TypeOK, Follows, NEW t \in Turns, Addressed(t), StoreTurn(t)
    PROVE  /\ Keeps(t) /\ UNCHANGED call /\ RowsStay
           /\ Sourced(t) /\ Sourced(t)'
           /\ turn'[t].db = turn[t].db /\ turn'[t].source = turn[t].source
           /\ \A d \in Databases : \A i \in DOMAIN rows'[d] :
                 \/ i \in DOMAIN rows[d] /\ rows'[d][i] = rows[d][i]
                 \/ d = turn[t].db /\ rows'[d][i] = [content |-> t, source |-> turn[t].source, live |-> TRUE]
<1>0. /\ UNCHANGED <<file, mode, provider, opening, call, moves, host, drift>>
      /\ turn[t].at = "remember" /\ ~ Opens(t)
      /\ InContext(turn[t]) /\ InDatabase(turn[t]) /\ InSession(turn[t])
  BY DEF StoreTurn, Addressed, Looked, Served, Sourced
<1>1. PICK end \in {"stored", "lost"} : turn' = [turn EXCEPT ![t].at = end]
  BY DEF StoreTurn
<1>2. /\ turn' \in [Turns -> Turn] /\ OtherTurnsStay(t) /\ turn'[t].at = end
      /\ turn'[t].asked = turn[t].asked /\ turn'[t].db = turn[t].db
      /\ turn'[t].source = turn[t].source
      /\ turn'[t].heard = turn[t].heard /\ turn'[t].drift = turn[t].drift
  BY <1>1, MoveTurn
<1>3. /\ RowsOK' /\ RowsStay
      /\ \A d \in Databases : \A i \in DOMAIN rows'[d] :
            \/ i \in DOMAIN rows[d] /\ rows'[d][i] = rows[d][i]
            \/ d = turn[t].db /\ rows'[d][i] = [content |-> t, source |-> turn[t].source, live |-> TRUE]
  <2>1. RowsOK /\ turn[t].db \in Databases /\ turn[t].source \in Hosted \cup {Tool} /\ t \in Stored
    BY <1>0 DEF TypeOK, RowsOK, Stored, InDatabase, InSession
  <2>2. CASE UNCHANGED rows
    BY <2>1, <2>2 DEF RowsOK, RowsStay
  <2>3. CASE Remember(turn[t].db, t, turn[t].source)
    BY <2>1, <2>3, RememberFacts
  <2> QED
    BY <2>2, <2>3 DEF StoreTurn
<1>4. TypeOK'
  BY <1>0, <1>2, <1>3 DEF TypeOK, RowsOK, provider
<1>5. Follows' /\ \A b : Opens(b)' = Opens(b)
  BY <1>0 DEF Follows, ReopenOK, HostOK, CurrentOK, HostAt, Opens, Reopening, provider
<1>6. InContext(turn'[t]) /\ InDatabase(turn'[t]) /\ InSession(turn'[t])
  BY <1>0, <1>2, HeardMore
<1> QED
  BY <1>0, <1>2, <1>3, <1>4, <1>5, <1>6 DEF Keeps, Addressed, Sourced

-----------------------------------------------------------------------------
(* The inductive invariant holds, and what the run checks follows.         *)

LEMMA InitIInv == Init => IInv
<1> SUFFICES ASSUME Init PROVE IInv
  OBVIOUS
<1> DEFINE first == [content |-> Initial, source |-> Tool, live |-> TRUE]
<1>1. \A d \in Databases : rows[d] = IF d = Home THEN <<first>> ELSE <<>>
  BY DEF Init
<1>2. RowsOK
  <2>1. first \in Row
    BY HermesAssumption DEF Row, Stored
  <2>2. rows = [d \in Databases |-> IF d = Home THEN <<first>> ELSE <<>>]
    BY DEF Init
  <2> HIDE DEF first
  <2>3. <<first>> \in Seq(Row) /\ <<>> \in Seq(Row)
    BY <2>1
  <2> QED
    BY <2>2, <2>3 DEF RowsOK
<1>3. TypeOK
  <2>1. turn \in [Turns -> Turn]
    BY DEF Init, Turn, NoTurn
  <2>2. call \in [Calls -> Call]
    BY DEF Init, Call, NoCall
  <2>3. host \in Said /\ session \in Hosted /\ moves \in 0..MaxMoves
    BY HermesAssumption DEF Init, Said
  <2>4. /\ file \in Seq(Contents) /\ mode = "unregistered" /\ service = NoDb
        /\ context \in Contexts /\ drift = {}
    BY HermesAssumption DEF Init
  <2>5. opening \in [Threads -> Opening]
    BY DEF Init, Opening, NotOpening
  <2> QED
    BY <1>2, <2>1, <2>2, <2>3, <2>4, <2>5 DEF TypeOK, RowsOK
<1>4. (\A c \in Calls : Storable(c)) /\ (\A t \in Turns : Addressed(t)) /\ Follows
  <2>1. \A a \in Threads : ~ Opens(a)
    BY DEF Init, NotOpening, Opens
  <2>2. \A t \in Turns : turn[t].at = "idle"
    BY DEF Init, NoTurn
  <2>3. \A t \in Turns : Addressed(t)
    BY <2>1, <2>2, HostIsNoOther DEF Addressed, Looked, Served, Sourced
  <2>4. Follows
    BY <2>1, HostIsNoOther DEF Init, Follows, ReopenOK, HostOK, CurrentOK, HostAt
  <2>5. \A c \in Calls : Storable(c)
    BY DEF Init, NoCall, Storable
  <2> QED
    BY <2>3, <2>4, <2>5
<1>5. ASSUME NEW d \in Databases, NEW i \in DOMAIN rows[d]
      PROVE  OfItsTurn(d, i) /\ (d = Home => Accounted(i))
  <2>1. rows[d][i] = first
    <3>1. CASE d = Home
      <4>1. rows[d] = <<first>>
        BY <1>1, <3>1
      <4> HIDE DEF first
      <4> QED
        BY <1>5, <4>1
    <3>2. CASE d # Home
      <4>1. rows[d] = <<>>
        BY <1>1, <3>2
      <4> QED
        BY <1>5, <4>1
    <3> QED
      BY <3>1, <3>2
  <2> QED
    BY <2>1, HermesAssumption DEF OfItsTurn, Accounted
<1> QED
  BY <1>3, <1>4, <1>5, HermesAssumption DEF IInv

(* A sync that has not come to its remember touches no row. *)
LEMMA SyncInv ==
    ASSUME IInv, NEW t \in Turns, Keeps(t), UNCHANGED <<rows, call>>, ~ Sourced(t)
    PROVE  IInv'
<1>1. \A u \in Turns : Addressed(u)'
  BY DEF IInv, Keeps, OtherTurnsStay, Addressed, Looked, Served, Sourced
<1>2. ASSUME NEW d \in Databases, NEW i \in DOMAIN rows'[d] PROVE OfItsTurn(d, i)'
  BY <1>2 DEF IInv, Keeps, OfItsTurn, OtherTurnsStay, Sourced
<1>3. (\A c \in Calls : Storable(c)') /\ \A i \in DOMAIN rows'[Home] : Accounted(i)'
  BY DEF IInv, Storable, Accounted, Took
<1> QED
  BY <1>1, <1>2, <1>3 DEF IInv, Keeps

(* A step of the provider alone. *)
LEMMA ProviderInv ==
    ASSUME IInv, TypeOK', Follows', UNCHANGED <<rows, turn, call>>,
           \A u \in Turns : Opens(u)' => Opens(u)
    PROVE  IInv'
BY DEF IInv, Storable, Addressed, Looked, Served, Sourced, OfItsTurn, Accounted, Took

LEMMA Inductive == IInv /\ [Next]_vars => IInv'
<1> SUFFICES ASSUME IInv, [Next]_vars PROVE IInv'
  OBVIOUS
<1>0. /\ TypeOK /\ Follows
      /\ \A c \in Calls : Storable(c)
      /\ \A t \in Turns : Addressed(t)
      /\ \A d \in Databases : \A i \in DOMAIN rows[d] : OfItsTurn(d, i)
      /\ \A i \in DOMAIN rows[Home] : Accounted(i)
  BY DEF IInv
<1>1. CASE UNCHANGED vars \/ Register
  <2>1. UNCHANGED <<rows, file, provider, opening, turn, call, moves, host, drift>> /\ TypeOK'
    BY <1>0, <1>1 DEF vars, provider, Register, TypeOK
  <2>2. Follows' /\ \A b : Opens(b)' = Opens(b)
    BY <1>0, <2>1 DEF Follows, ReopenOK, HostOK, CurrentOK, HostAt, Opens, Reopening, provider
  <2> QED
    BY <2>1, <2>2, ProviderInv
<1>2. ASSUME NEW c \in Calls, CallStep(c) PROVE IInv'
  <2>1. /\ UNCHANGED <<mode, provider, opening, turn, moves, host, drift>>
        /\ file' \in Seq(Contents)
        /\ CallsOK' /\ OthersStay(c) /\ Storable(c)'
        /\ RowsOK' /\ RowsStay
        /\ \A d \in Databases : \A i \in DOMAIN rows'[d] :
              i \in DOMAIN rows[d] \/ rows'[d][i].content \in Contents
    BY <1>0, <1>2, CallFrame
  <2>2. TypeOK'
    BY <1>0, <2>1 DEF TypeOK, CallsOK, RowsOK, provider
  <2>3. Follows' /\ \A b : Opens(b)' = Opens(b)
    BY <1>0, <2>1 DEF Follows, ReopenOK, HostOK, CurrentOK, HostAt, Opens, Reopening, provider
  <2>4. (\A e \in Calls : Storable(e)') /\ (\A t \in Turns : Addressed(t)')
    BY <1>0, <2>1, <2>3 DEF OthersStay, Storable, Addressed, Looked, Served, Sourced
  <2>5. \A i \in DOMAIN rows'[Home] : Accounted(i)'
    BY <1>0, <1>2, CallAccounted
  <2>6. ASSUME NEW d \in Databases, NEW i \in DOMAIN rows'[d] PROVE OfItsTurn(d, i)'
    <3>1. CASE rows'[d][i].content \in Contents
      BY <3>1, HermesAssumption DEF OfItsTurn
    <3>2. CASE i \in DOMAIN rows[d]
      BY <1>0, <2>1, <3>2 DEF RowsStay, OfItsTurn, Sourced
    <3> QED
      BY <2>1, <3>1, <3>2
  <2> QED
    BY <2>2, <2>3, <2>4, <2>5, <2>6 DEF IInv
<1>3. CASE HostStep
  <2>1. ASSUME NEW built \in BOOLEAN, EndInitialize(built) PROVE IInv'
    BY <1>0, <2>1, EndFollows, ProviderInv, HostIsNoOther
  <2>2. CASE Shutdown \/ (\E said \in Said : StartInitialize(said)) \/ (\E s \in Hosted : Switch(s))
    BY <1>0, <2>2, SayFollows, ProviderInv, HostIsNoOther
  <2> QED
    BY <1>3, <2>1, <2>2 DEF HostStep
<1>4. CASE Ask
  <2>0. "asker" \in Threads \ {"host"} /\ \A u \in Turns : u \in Threads \ {"asker"}
    BY HermesAssumption DEF Threads
  <2>1. CASE ~ Opens("asker") /\ Reopen("asker") /\ UNCHANGED turn
    <3>1. TypeOK' /\ Follows' /\ \A b \in Threads \ {"asker"} : Opens(b)' = Opens(b)
      BY <1>0, <2>0, <2>1, ReopenFollows DEF TypeOK
    <3>2. UNCHANGED <<rows, call>>
      BY <2>1 DEF Reopen
    <3> QED
      BY <2>0, <2>1, <3>1, <3>2, ProviderInv
  <2>2. ASSUME NEW built \in BOOLEAN, Build("asker", built), UNCHANGED <<turn, host, drift>> PROVE IInv'
    <3>1. /\ \A b \in Threads \ {"asker"} : Opens(b)' = Opens(b)
          /\ opening' \in [Threads -> Opening] /\ service' \in Databases \cup {NoDb}
          /\ UNCHANGED <<rows, file, mode, context, session, call, moves>>
      BY <1>0, <2>0, <2>2, BuildFacts
    <3>2. Follows'
      BY <1>0, <2>0, <2>2, ReopenedFollows
    <3>3. TypeOK'
      BY <1>0, <2>2, <3>1 DEF TypeOK
    <3> QED
      BY <2>0, <2>2, <3>1, <3>2, <3>3, ProviderInv
  <2> QED
    BY <1>4, <2>1, <2>2 DEF Ask
<1>5. ASSUME NEW a \in Threads, SetSession(a) \/ SetContext(a) PROVE IInv'
  <2>1. TypeOK' /\ Follows' /\ \A b \in Threads : Opens(b)' = Opens(b)
    BY <1>0, <1>5, FieldFollows
  <2>2. UNCHANGED <<rows, turn, call>>
    BY <1>5 DEF SetSession, SetContext
  <2> QED
    BY <2>1, <2>2, ProviderInv, HostIsNoOther
<1>6. ASSUME NEW t \in Turns, TurnStep(t) PROVE IInv'
  <2>0. Addressed(t)
    BY <1>0
  <2>1. CASE \E asked \in Hosted \cup {NoSession} : SyncTurn(t, asked)
    BY <1>0, <2>0, <2>1, SyncTurnKeeps, SyncInv
  <2>2. CASE RequireService(t)
    BY <1>0, <2>0, <2>2, RequireKeeps, SyncInv
  <2>3. CASE \E built \in BOOLEAN : ServiceOpened(t, built)
    BY <1>0, <2>0, <2>3, OpenedKeeps, SyncInv
  <2>4. CASE TakeService(t)
    BY <1>0, <2>0, <2>4, TakeServiceKeeps, SyncInv
  <2>5. CASE TakeSession(t)
    BY <1>0, <2>0, <2>5, TakeSessionKeeps, SyncInv
  <2>6. CASE StoreTurn(t)
    <3>1. /\ Keeps(t) /\ UNCHANGED call /\ RowsStay
          /\ Sourced(t) /\ Sourced(t)'
          /\ turn'[t].db = turn[t].db /\ turn'[t].source = turn[t].source
          /\ \A d \in Databases : \A i \in DOMAIN rows'[d] :
                \/ i \in DOMAIN rows[d] /\ rows'[d][i] = rows[d][i]
                \/ d = turn[t].db /\ rows'[d][i] = [content |-> t, source |-> turn[t].source, live |-> TRUE]
      BY <1>0, <2>0, <2>6, StoreTurnFrame
    <3>2. \A u \in Turns : Addressed(u)' /\ (Sourced(u) => /\ Sourced(u)' /\ turn'[u].db = turn[u].db
                                                           /\ turn'[u].source = turn[u].source)
      BY <1>0, <3>1 DEF Keeps, Addressed, OtherTurnsStay, Looked, Served, Sourced
    <3>3. ASSUME NEW d \in Databases, NEW i \in DOMAIN rows'[d] PROVE OfItsTurn(d, i)'
      <4>1. CASE i \in DOMAIN rows[d] /\ rows'[d][i] = rows[d][i]
        BY <1>0, <3>2, <4>1 DEF OfItsTurn
      <4>2. CASE d = turn[t].db /\ rows'[d][i] = [content |-> t, source |-> turn[t].source, live |-> TRUE]
        BY <3>1, <4>2 DEF OfItsTurn
      <4> QED
        BY <3>1, <3>3, <4>1, <4>2
    <3>4. ASSUME NEW i \in DOMAIN rows'[Home] PROVE Accounted(i)'
      <4>0. Home \in Databases
        BY HermesAssumption
      <4>1. ASSUME NEW c \in Calls, Took(c, i) PROVE Took(c, i)'
        BY <3>1, <4>0, <4>1 DEF Took, RowsStay
      <4>2. rows'[Home][i].live \/ (i \in DOMAIN rows[Home] /\ rows'[Home][i] = rows[Home][i])
        BY <3>1, <3>4, <4>0
      <4> QED
        BY <1>0, <4>1, <4>2 DEF Accounted
    <3> QED
      BY <1>0, <3>1, <3>2, <3>3, <3>4 DEF IInv, Keeps, Storable
  <2> QED
    BY <1>6, <2>1, <2>2, <2>3, <2>4, <2>5, <2>6 DEF TurnStep
<1> QED
  BY <1>1, <1>2, <1>3, <1>4, <1>5, <1>6 DEF Next

(* Every reachable state of the adapter is well typed. *)
THEOREM TypeCorrect == Spec => []TypeOK
<1> QED
  BY InitIInv, Inductive, PTL DEF Spec, IInv

(* However the host's calls come between the steps by which turns are stored
   and by which other threads open the provider again: a turn goes where the
   host had named, as far as the provider had not drifted. *)
THEOREM TurnsAreWhereTheyBelong == Spec => []TurnsGoWhereTheHostSaid
<1>1. IInv => TurnsGoWhereTheHostSaid
  <2> SUFFICES ASSUME IInv, NEW d \in Databases, NEW i \in DOMAIN rows[d], rows[d][i].content \in Turns
               PROVE  LET t == turn[rows[d][i].content]
                      IN  /\ t.asked # NoSession => rows[d][i].source = t.asked
                          /\ "raced" \notin t.drift =>
                                \E h \in t.heard : rows[d][i].source = Of(t.asked, h.session)
                          /\ "reopened" \notin t.drift => \E h \in t.heard : h.context \notin NonPrimary
                          /\ "failed" \notin t.drift => d \in {Home} \cup {h.db : h \in t.heard}
                          /\ t.drift = {} => \E h \in t.heard : h.db = d
    BY DEF TurnsGoWhereTheHostSaid
  <2>1. PICK k \in Turns : k = rows[d][i].content
    OBVIOUS
  <2>2. Sourced(k) /\ turn[k].db = d /\ turn[k].source = rows[d][i].source
    BY <2>1 DEF IInv, OfItsTurn
  <2>3. InContext(turn[k]) /\ InDatabase(turn[k]) /\ InSession(turn[k])
    BY <2>2 DEF IInv, Addressed, Looked, Served
  <2> QED
    BY <2>1, <2>2, <2>3 DEF InContext, InDatabase, InSession
<1> QED
  BY <1>1, InitIInv, Inductive, PTL DEF Spec

(* Whatever calls of the memory tool overlap and wherever they stop, no
   memory is gone unless some call was told to take it, and none of them
   said it had replaced what it had not. *)
THEOREM LossIsAlwaysReported == Spec => []LossIsReported
<1>1. IInv => LossIsReported
  BY DEF IInv, Accounted, Took, LossIsReported
<1> QED
  BY <1>1, InitIInv, Inductive, PTL DEF Spec
=============================================================================
