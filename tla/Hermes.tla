-------------------------------- MODULE Hermes --------------------------------
(***************************************************************************)
(* ilma inside the Hermes agent (adapters/hermes): the plugin that         *)
(* overrides Hermes' memory tool (register.py), and the memory provider    *)
(* that keeps the turns of the conversation (memory_provider.py).  Both    *)
(* write to a database through the service; a remember or a forget is one  *)
(* step here, which may fail, may take effect and fail, and stores no live *)
(* content twice.  The host calls the provider's life cycle one call after *)
(* the other, but does not wait for a turn to be stored: what a turn needs *)
(* is read field by field, and the host's calls come in between.           *)
(***************************************************************************)
EXTENDS Naturals, Sequences

CONSTANTS
    Home,         \* the database the configuration names
    Databases,    \* the databases a host may name
    NoDb,         \* no service
    Hosted,       \* the sessions of the agent
    NoSession,    \* a turn whose session is not given
    Contexts,     \* the contexts it runs in
    NonPrimary,   \* _NON_PRIMARY_CONTEXTS
    Turns,        \* the turns the host syncs
    Calls,        \* the calls of the memory tool
    Contents,     \* what a memory may say, beside the turns
    Tool,         \* the source of what the memory tool stores
    Initial,      \* the content of the memory that is there from the start
    NoContent,    \* what a call without a content is given
    MaxMoves      \* bound: the host's life-cycle calls

ASSUME HermesAssumption ==
    /\ Home \in Databases
    /\ NoDb \notin Databases
    /\ NonPrimary \subseteq Contexts \ {"primary"}
    /\ "primary" \in Contexts
    /\ Tool \notin Hosted
    /\ NoSession \notin Hosted
    /\ Initial \in Contents
    /\ NoContent \notin Contents
    /\ Turns \cap (Contents \cup {"host", "asker"}) = {}
    /\ MaxMoves \in Nat

VARIABLES
    rows,      \* rows[d]: the memories of database d, the id is the index
    file,      \* the lines of the local fallback file
    mode,      \* what register left behind: whose the memory tool is
    service,   \* the database of the provider's _service
    context,   \* _agent_context
    session,   \* _session_id
    opening,   \* opening[a]: where thread a stands in initialize, with which arguments
    turn,      \* turn[t]: where the sync of turn t stands, and what it has read
    call,      \* call[c]: the same of a call of the memory tool
    moves,     \* the host's life-cycle calls so far
    host,      \* history: what the host has said in initialize and switch
    drift      \* history: what happened to the provider since

provider == <<service, context, session>>
vars == <<rows, file, mode, provider, opening, turn, call, moves, host, drift>>

Stored == Contents \cup Turns

Row == [content : Stored, source : Hosted \cup {Tool}, live : BOOLEAN]

Said == [session : Hosted, context : Contexts, db : Databases]

(* The threads that may be in initialize: the host's, that of a turn, and
   one that asks for the provider's tools or for its context. *)
Threads == Turns \cup {"host", "asker"}

NotOpening == [at |-> "no"]

(* alone: no other thread has been in initialize meanwhile. *)
Opening ==
    [at : {"no"}]
    \cup [at : {"session", "context", "service"}, said : Said, alone : BOOLEAN]

(* failed: an initialize of the host raised.  reopened: another thread has
   initialized the provider.  raced: and the host has spoken meanwhile. *)
Drifts == {"failed", "reopened", "raced"}

NoTurn == [at |-> "idle", asked |-> NoSession, db |-> NoDb, source |-> NoSession,
           heard |-> {}, drift |-> {}]

(* heard: what the host had said when the sync read a field; drift: what had
   happened to the provider by then. *)
Turn ==
    [at : {"idle", "skipped", "looked", "opening", "opened", "served", "raised",
           "remember", "stored", "lost"},
     asked : Hosted \cup {NoSession}, db : Databases \cup {NoDb},
     source : Hosted \cup {NoSession}, heard : SUBSET Said, drift : SUBSET Drifts]

NoCall == [at |-> "idle", action |-> "none", content |-> NoContent, id |-> 0, row |-> 0]

Call ==
    [at : {"idle", "called", "forgot", "ok", "failed"},
     action : {"none", "add", "remove", "replace"},
     content : Contents \cup {NoContent}, id : Nat, row : Nat]

(***************************************************************************)
(* Type invariant.                                                         *)
(***************************************************************************)
TypeOK ==
    /\ rows \in [Databases -> Seq(Row)]
    /\ file \in Seq(Contents)
    /\ mode \in {"unregistered", "builtin", "local", "service"}
    /\ service \in Databases \cup {NoDb}
    /\ context \in Contexts
    /\ session \in Hosted
    /\ opening \in [Threads -> Opening]
    /\ turn \in [Turns -> Turn]
    /\ call \in [Calls -> Call]
    /\ moves \in 0..MaxMoves
    /\ host \in Said
    /\ drift \subseteq Drifts

(* The host begins with a session of its own in the primary context. *)
Init ==
    /\ rows = [d \in Databases |->
                 IF d = Home THEN <<[content |-> Initial, source |-> Tool, live |-> TRUE]>>
                             ELSE <<>>]
    /\ file = <<>>
    /\ mode = "unregistered"
    /\ service = NoDb
    /\ context = "primary"
    /\ session \in Hosted
    /\ opening = [a \in Threads |-> NotOpening]
    /\ turn = [t \in Turns |-> NoTurn]
    /\ call = [c \in Calls |-> NoCall]
    /\ moves = 0
    /\ host = [session |-> session, context |-> "primary", db |-> Home]
    /\ drift = {}

-----------------------------------------------------------------------------
(* The service, as the adapter meets it.                                   *)

LiveIds(d, k) == {i \in DOMAIN rows[d] : rows[d][i].live /\ rows[d][i].content = k}

(* ilma_remember adds a row, or answers 0 when the content is there. *)
Remember(d, k, src) ==
    rows' = IF LiveIds(d, k) # {} THEN rows
            ELSE [rows EXCEPT ![d] = Append(@, [content |-> k, source |-> src, live |-> TRUE])]

Forget(d, i) ==
    rows' = IF i \in DOMAIN rows[d] THEN [rows EXCEPT ![d][i].live = FALSE] ELSE rows

-----------------------------------------------------------------------------
(* register and the memory tool                                            *)

(* provider: ilma, auto, postgres or local (anything else is local); the
   service is built for the first two, from the configured DSN. *)
Register ==
    /\ mode = "unregistered"
    /\ \E wanted \in {"ilma", "auto", "postgres", "local"}, built \in BOOLEAN :
          mode' = CASE wanted = "postgres" -> "builtin"
                    [] wanted \in {"ilma", "auto"} /\ built -> "service"
                    [] wanted = "ilma" /\ ~ built -> "local"
                    [] OTHER -> "builtin"
    /\ UNCHANGED <<rows, file, provider, opening, turn, call, moves, host, drift>>

(* add, remove and replace with their arguments (search and list only read;
   a call with an argument missing is refused and changes nothing).  The id
   is that of a memory there has been, or of none. *)
Asks(action) ==
    [at : {"called"}, action : {action},
     content : IF action = "remove" THEN {NoContent} ELSE Contents,
     id : IF action = "add" THEN {0} ELSE {0} \cup DOMAIN rows[Home],
     row : {0}]

StartCall(c) ==
    /\ mode \in {"service", "local"}
    /\ call[c].at = "idle"
    /\ \E action \in {"add", "remove", "replace"} :
          \E ask \in Asks(action) : call' = [call EXCEPT ![c] = ask]
    /\ UNCHANGED <<rows, file, mode, provider, opening, turn, moves, host, drift>>

Reply(c, status) == call' = [call EXCEPT ![c].at = status]

(* _route_local_memory: add appends a line, if the file can be written; the
   other two are not implemented there. *)
Local(c) ==
    /\ mode = "local"
    /\ call[c].at = "called"
    /\ \/ /\ call[c].action = "add"
          /\ file' = Append(file, call[c].content)
          /\ Reply(c, "ok")
       \/ Reply(c, "failed") /\ UNCHANGED file
    /\ UNCHANGED <<rows, mode, provider, opening, turn, moves, host, drift>>

(* ilma_remember at the end of add and of replace: the reply is its result. *)
Store(c) ==
    /\ mode = "service"
    /\ \/ call[c].at = "called" /\ call[c].action = "add"
       \/ call[c].at = "forgot"
    /\ \/ /\ Remember(Home, call[c].content, Tool)
          /\ \/ \E i \in DOMAIN rows'[Home] :
                   /\ rows'[Home][i].live
                   /\ rows'[Home][i].content = call[c].content
                   /\ call' = [call EXCEPT ![c].at = "ok", ![c].row = i]
             \/ Reply(c, "failed")
       \/ Reply(c, "failed") /\ UNCHANGED rows
    /\ UNCHANGED <<file, mode, provider, opening, turn, moves, host, drift>>

(* ilma_forget: the whole of remove. *)
Remove(c) ==
    /\ mode = "service"
    /\ call[c].at = "called"
    /\ call[c].action = "remove"
    /\ \/ /\ Forget(Home, call[c].id)
          /\ \E status \in {"ok", "failed"} : Reply(c, status)
       \/ Reply(c, "failed") /\ UNCHANGED rows
    /\ UNCHANGED <<file, mode, provider, opening, turn, moves, host, drift>>

(* Mutant: replace answers with the result of its ilma_forget. *)
ReplaceForgetsAndAnswers(c) ==
    /\ mode = "service"
    /\ call[c].at = "called"
    /\ call[c].action = "replace"
    /\ \/ Forget(Home, call[c].id) /\ Reply(c, "ok")
       \/ Reply(c, "failed") /\ UNCHANGED rows
    /\ UNCHANGED <<file, mode, provider, opening, turn, moves, host, drift>>

(* The first half of replace.  Nobody looks at the result: it goes on
   whether the memory was forgotten, was not there, or the call failed. *)
ReplaceForgets(c) ==
    /\ mode = "service"
    /\ call[c].at = "called"
    /\ call[c].action = "replace"
    /\ Forget(Home, call[c].id) \/ UNCHANGED rows
    /\ Reply(c, "forgot")
    /\ UNCHANGED <<file, mode, provider, opening, turn, moves, host, drift>>

(* The agent's process is gone in the middle of a call. *)
Die(c) ==
    /\ call[c].at \in {"called", "forgot"}
    /\ Reply(c, "failed")
    /\ UNCHANGED <<rows, file, mode, provider, opening, turn, moves, host, drift>>

-----------------------------------------------------------------------------
(* The provider's life cycle                                               *)

Opens(a) == opening[a].at # "no"

(* Another thread than the host's is in initialize. *)
Reopening == \E a \in Threads \ {"host"} : Opens(a)

(* What the host has said: while it is in initialize, both what it says
   there and what it said before. *)
Sayings == {host} \cup (IF Opens("host") THEN {opening["host"].said} ELSE {})

(* initialize, assignment by assignment: the fields, and when it is built
   the service. *)
SetSession(a) ==
    /\ opening[a].at = "session"
    /\ session' = opening[a].said.session
    /\ opening' = [opening EXCEPT ![a].at = "context"]
    /\ UNCHANGED <<rows, file, mode, service, context, turn, call, moves, host, drift>>

SetContext(a) ==
    /\ opening[a].at = "context"
    /\ context' = opening[a].said.context
    /\ opening' = [opening EXCEPT ![a].at = "service"]
    /\ UNCHANGED <<rows, file, mode, service, session, turn, call, moves, host, drift>>

(* Building the service may raise, and leaves the service of before. *)
Build(a, built) ==
    /\ opening[a].at = "service"
    /\ service' = IF built THEN opening[a].said.db ELSE service
    /\ opening' = [opening EXCEPT ![a] = NotOpening]
    /\ UNCHANGED <<rows, file, mode, context, session, call, moves>>

HostFree == ~ Opens("host") /\ moves < MaxMoves /\ moves' = moves + 1

StartInitialize(said) ==
    /\ HostFree
    /\ opening' = [opening EXCEPT !["host"] =
          [at |-> "session", said |-> said, alone |-> ~ Reopening]]
    /\ drift' = drift \cup (IF Reopening THEN {"raced"} ELSE {})
    /\ UNCHANGED <<rows, file, mode, provider, turn, call, host>>

EndInitialize(built) ==
    /\ Build("host", built)
    /\ host' = opening["host"].said
    /\ drift' = IF ~ built THEN drift \cup {"failed"}
                ELSE IF opening["host"].alone THEN {} ELSE drift
    /\ UNCHANGED turn

(* Mutant: a new session begins in the primary context, as initialize does. *)
SwitchAsInitialize(s) ==
    /\ HostFree
    /\ session' = s
    /\ context' = "primary"
    /\ host' = [host EXCEPT !.session = s]
    /\ drift' = drift \cup (IF Reopening THEN {"raced"} ELSE {})
    /\ UNCHANGED <<rows, file, mode, service, opening, turn, call>>

(* on_session_switch *)
Switch(s) ==
    /\ HostFree
    /\ session' = s
    /\ host' = [host EXCEPT !.session = s]
    /\ drift' = drift \cup (IF Reopening THEN {"raced"} ELSE {})
    /\ UNCHANGED <<rows, file, mode, service, context, opening, turn, call>>

Shutdown ==
    /\ HostFree
    /\ service' = NoDb
    /\ UNCHANGED <<rows, file, mode, context, session, opening, turn, call, host, drift>>

(* _require_service without a service: initialize, with the session and the
   home the provider has, but without platform, context and DSN. *)
Reopen(a) ==
    /\ service = NoDb
    /\ opening' = [b \in Threads |->
          IF b = a
          THEN [at |-> "session", alone |-> FALSE,
                said |-> [session |-> session, context |-> "primary", db |-> Home]]
          ELSE IF b = "host" /\ Opens(b) THEN [opening[b] EXCEPT !.alone = FALSE]
          ELSE opening[b]]
    /\ drift' = drift \cup {"reopened"} \cup (IF Opens("host") THEN {"raced"} ELSE {})
    /\ UNCHANGED <<rows, file, mode, provider, call, moves, host>>

(* prefetch, get_tool_schemas, handle_tool_call: what else needs a service. *)
Ask ==
    \/ ~ Opens("asker") /\ Reopen("asker") /\ UNCHANGED turn
    \/ \E built \in BOOLEAN : Build("asker", built) /\ UNCHANGED <<turn, host, drift>>

(* What sync_turn knows after it has read a field. *)
Reads(t, now) ==
    turn' = [turn EXCEPT ![t] =
       [now EXCEPT !.heard = @ \cup Sayings, !.drift = @ \cup drift]]

(* sync_turn, from its first line; asked is its session_id. *)
SyncTurn(t, asked) ==
    /\ turn[t].at = "idle"
    /\ Reads(t, [NoTurn EXCEPT !.asked = asked,
                 !.at = IF context \in NonPrimary THEN "skipped" ELSE "looked"])
    /\ UNCHANGED <<rows, file, mode, provider, opening, call, moves, host, drift>>

(* _require_service looks for a service, opens one if there is none ... *)
RequireService(t) ==
    /\ turn[t].at = "looked"
    /\ \/ /\ service # NoDb
          /\ turn' = [turn EXCEPT ![t].at = "opened"]
          /\ UNCHANGED <<rows, file, mode, provider, opening, call, moves, host, drift>>
       \/ Reopen(t) /\ turn' = [turn EXCEPT ![t].at = "opening"]

ServiceOpened(t, built) ==
    /\ Build(t, built)
    /\ turn' = [turn EXCEPT ![t].at = IF built THEN "opened" ELSE "raised"]
    /\ UNCHANGED <<host, drift>>

(* ... and returns the one there is then; raises, if it is gone again. *)
TakeService(t) ==
    /\ turn[t].at = "opened"
    /\ Reads(t, [turn[t] EXCEPT !.db = service,
                                !.at = IF service = NoDb THEN "raised" ELSE "served"])
    /\ UNCHANGED <<rows, file, mode, provider, opening, call, moves, host, drift>>

Of(asked, current) == IF asked = NoSession THEN current ELSE asked

TakeSession(t) ==
    /\ turn[t].at = "served"
    /\ Reads(t, [turn[t] EXCEPT !.source = Of(turn[t].asked, session), !.at = "remember"])
    /\ UNCHANGED <<rows, file, mode, provider, opening, call, moves, host, drift>>

(* The remember of sync_turn, which embeds the turn first; its result is
   not looked at. *)
StoreTurn(t) ==
    /\ turn[t].at = "remember"
    /\ \/ /\ Remember(turn[t].db, t, turn[t].source)
          /\ \E end \in {"stored", "lost"} : turn' = [turn EXCEPT ![t].at = end]
       \/ turn' = [turn EXCEPT ![t].at = "lost"] /\ UNCHANGED rows
    /\ UNCHANGED <<file, mode, provider, opening, call, moves, host, drift>>

CallStep(c) ==
    \/ StartCall(c)
    \/ Local(c)
    \/ Store(c)
    \/ Remove(c)
    \/ ReplaceForgets(c)
    \/ Die(c)

HostStep ==
    \/ \E said \in Said : StartInitialize(said)
    \/ \E built \in BOOLEAN : EndInitialize(built)
    \/ \E s \in Hosted : Switch(s)
    \/ Shutdown

TurnStep(t) ==
    \/ \E asked \in Hosted \cup {NoSession} : SyncTurn(t, asked)
    \/ RequireService(t)
    \/ \E built \in BOOLEAN : ServiceOpened(t, built)
    \/ TakeService(t)
    \/ TakeSession(t)
    \/ StoreTurn(t)

Next ==
    \/ Register
    \/ \E c \in Calls : CallStep(c)
    \/ HostStep
    \/ Ask
    \/ \E a \in Threads : SetSession(a) \/ SetContext(a)
    \/ \E t \in Turns : TurnStep(t)

Spec == Init /\ [][Next]_vars

-----------------------------------------------------------------------------
(* What must hold.                                                         *)

(* A turn is stored under a session, in a database and out of a context that
   the host had named when it was synced: all three as the host said them
   last when it said nothing meanwhile, each perhaps from another of its
   sayings when it did.  A session that the caller gave is kept.  Otherwise
   the provider had drifted: it had been opened again by some other call
   (then the context was lost and the database is the configured one, and
   the session is wrong only if the host spoke meanwhile), or the host's
   last initialize had raised. *)
TurnsGoWhereTheHostSaid ==
    \A d \in Databases : \A i \in DOMAIN rows[d] :
       rows[d][i].content \in Turns =>
          LET t == turn[rows[d][i].content]
          IN  /\ t.asked # NoSession => rows[d][i].source = t.asked
              /\ "raced" \notin t.drift =>
                    \E h \in t.heard : rows[d][i].source = Of(t.asked, h.session)
              /\ "reopened" \notin t.drift => \E h \in t.heard : h.context \notin NonPrimary
              /\ "failed" \notin t.drift => d \in {Home} \cup {h.db : h \in t.heard}
              /\ t.drift = {} => \E h \in t.heard : h.db = d

(* replace is two transactions, the first of which takes the memory away.
   A memory that is gone was removed, or replaced by a call that has stored
   what it was asked to, or that did not say it succeeded. *)
LossIsReported ==
    \A i \in DOMAIN rows[Home] :
       ~ rows[Home][i].live =>
          \E c \in Calls :
             /\ call[c].id = i
             /\ call[c].at = "ok" /\ call[c].action = "replace" =>
                   /\ call[c].row \in DOMAIN rows[Home]
                   /\ rows[Home][call[c].row].content = call[c].content
=============================================================================
