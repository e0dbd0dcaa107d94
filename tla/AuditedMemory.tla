---------------------------- MODULE AuditedMemory ----------------------------
(***************************************************************************)
(* The memory tools as a client meets them: IlmaService.call (AuditedCall) *)
(* with the repository calls of MemoryStore as the bodies.  ilma_remember  *)
(* and ilma_forget are write tools, ilma_recall is not.  A call is a       *)
(* session: its body runs in phase "body", and the one transaction of a    *)
(* write is the effect the audit row stands for.                           *)
(***************************************************************************)
EXTENDS MemoryStore

CONSTANT Tool   \* Tool[s]: the tool that call s is made with

ASSUME ToolAssumption == Tool \in [Sessions -> {"remember", "forget", "recall"}]

VARIABLES phase, audit, outcome, observed

callVars == <<phase, audit, outcome, observed>>
allVars == <<vars, callVars>>

(* _READ_TOOL_ACTIONS *)
ReadActions ==
    {"audit", "doctor", "get", "health", "list", "query", "recall", "recent", "status"}

(* Mutant: remember is listed as a read action. *)
WriteCallsShort == {s \in Sessions : Tool[s] \notin ReadActions \cup {"remember"}}

(* WRITE_TOOLS, for tools whose name has one part and whose body uses one
   surface: what the name of a read action does not exclude. *)
WriteCalls == {s \in Sessions : Tool[s] \notin ReadActions}

Committed(s) == at[s] \in {"returned", "unheard"}

Call == INSTANCE AuditedCall WITH
            Calls <- Sessions,
            Writes <- WriteCalls,
            Txns <- [s \in Sessions |-> IF s \in WriteCalls THEN 1 ELSE 0],
            pc <- phase,
            effects <- [s \in Sessions |->
                          IF s \in WriteCalls /\ Committed(s) THEN 1 ELSE 0]

(* Everything call() does outside the body. *)
Around(s) ==
    /\ UNCHANGED vars
    /\ \/ Call!BeginRead(s)
       \/ Call!BeginWrite(s)
       \/ Call!BeginRefused(s)
       \/ at[s] = "returned" /\ Call!BodyReturns(s)
       \/ at[s] \in {"raised", "unheard"} /\ Call!BodyRaises(s)
       \/ Call!Finish(s)
       \/ Call!Record(s)

(* Mutant: the body runs on after the process of its call is gone. *)
BodyDetached(s) ==
    /\ phase[s] \in {"body", "crashed"}
    /\ \/ Tool[s] = "remember" /\ \E k \in Keys : StartRemember(s, k)
       \/ Tool[s] = "forget" /\ \E i \in 0..MaxId : StartForget(s, i)
       \/ Tool[s] = "recall" /\ StartSearch(s)
       \/ Run(s)
    /\ UNCHANGED callVars

(* The body: lambda: self.memory.remember / forget / search. *)
Body(s) ==
    /\ phase[s] = "body"
    /\ \/ Tool[s] = "remember" /\ \E k \in Keys : StartRemember(s, k)
       \/ Tool[s] = "forget" /\ \E i \in 0..MaxId : StartForget(s, i)
       \/ Tool[s] = "recall" /\ StartSearch(s)
       \/ Run(s)
    /\ UNCHANGED callVars

(* The body raises. *)
Break(s) ==
    /\ phase[s] = "body"
    /\ Fail(s)
    /\ UNCHANGED callVars

(* The process dies, and with it the connection of the body. *)
Die(s) ==
    /\ IF phase[s] = "body" /\ at[s] \notin Ended
       THEN Crash(s)
       ELSE UNCHANGED vars
    /\ Call!Crash(s)

InitAll == Init /\ Call!Init

NextAll == \E s \in Sessions : Around(s) \/ Body(s) \/ Break(s) \/ Die(s)

SpecAll == InitAll /\ [][NextAll]_allVars

-----------------------------------------------------------------------------
(* The composed system implements AuditedCall, and so the write-ahead log:
   the one transaction of a body is what its row stands for. *)
ImplementsAuditedCall == Call!Spec

(* Every change of the store is accounted for: behind each row there is a
   remember call with an audit row that inserted it, behind each deletion a
   forget call with an audit row that named it. *)
EveryChangeIsLogged ==
    \A i \in Ids :
        /\ memories[i].state # "absent" =>
              \E s \in Sessions :
                 Tool[s] = "remember" /\ mid[s] = i /\ audit[s] # "none" /\ outcome[s] # "refused"
        /\ memories[i].state = "deleted" =>
              \E s \in Sessions :
                 Tool[s] = "forget" /\ mid[s] = i /\ audit[s] # "none" /\ outcome[s] # "refused"

(* A row marked succeeded is never contradicted by the store, whatever the
   other calls do: the id a remember returned is a complete row, and the
   memory a forget said it deleted is deleted. *)
SuccessIsDurable ==
    \A s \in Sessions :
        audit[s] = "succeeded" /\ result[s] # 0 =>
            IF Tool[s] = "remember"
            THEN /\ memories[result[s]].state # "absent"
                 /\ memories[result[s]].key = key[s]
                 /\ memories[result[s]].chunks = Chunks[key[s]]
            ELSE memories[mid[s]].state = "deleted"
=============================================================================
