----------------------------- MODULE AuditedCall -----------------------------
(***************************************************************************)
(* IlmaService.call (service.py) around the write-ahead log PgAuditLogger  *)
(* (api/mcp.py).  A call of a write tool inserts a pending audit row, runs *)
(* the tool's body, marks the row and records an observation; every one of *)
(* these is a transaction of its own.  A commit whose acknowledgement is   *)
(* lost raises in the client although the transaction took effect, and the *)
(* process that serves the call may die between any two steps.             *)
(*                                                                         *)
(* The body is abstract: before it returns it commits Txns[c] transactions *)
(* (one for a memory write, several for a graph rebuild or a repair, none  *)
(* for an update whose arguments leave nothing to do).                     *)
(***************************************************************************)
EXTENDS Naturals

CONSTANTS
    Calls,    \* occurrences of a tool call
    Writes,   \* the calls whose tool is in WRITE_TOOLS
    Txns      \* Txns[c]: the transactions c's body has committed when it returns

ASSUME CallsAssumption ==
    /\ Writes \subseteq Calls
    /\ Txns \in [Calls -> Nat]
    /\ \A c \in Calls \ Writes : Txns[c] = 0

VARIABLES
    pc,        \* where the call stands in IlmaService.call
    audit,     \* the status of its row in ilma.audit_log, "none" without a row
    effects,   \* how many transactions of its body are committed
    outcome,   \* how the call ended: the branch of call() that was taken
    observed   \* the level of its row in ilma.observations

vars == <<pc, audit, effects, outcome, observed>>

Terminal == {"done", "crashed"}

(***************************************************************************)
(* Type invariant.                                                         *)
(***************************************************************************)
TypeOK ==
    /\ pc \in [Calls -> {"idle", "body", "finish", "record"} \cup Terminal]
    /\ audit \in [Calls -> {"none", "pending", "succeeded", "failed"}]
    /\ effects \in [Calls -> Nat]
    /\ outcome \in [Calls -> {"none", "ok", "raised", "refused"}]
    /\ observed \in [Calls -> {"none", "info", "error"}]

Init ==
    /\ pc = [c \in Calls |-> "idle"]
    /\ audit = [c \in Calls |-> "none"]
    /\ effects = [c \in Calls |-> 0]
    /\ outcome = [c \in Calls |-> "none"]
    /\ observed = [c \in Calls |-> "none"]

Goto(c, label) == pc' = [pc EXCEPT ![c] = label]

(* A tool that is not in WRITE_TOOLS runs without an audit row. *)
BeginRead(c) ==
    /\ pc[c] = "idle"
    /\ c \notin Writes
    /\ Goto(c, "body")
    /\ UNCHANGED <<audit, effects, outcome, observed>>

(* PgAuditLogger.begin: the schema transaction, then the pending row. *)
BeginWrite(c) ==
    /\ pc[c] = "idle"
    /\ c \in Writes
    /\ audit' = [audit EXCEPT ![c] = "pending"]
    /\ Goto(c, "body")
    /\ UNCHANGED <<effects, outcome, observed>>

(* Mutant: the audit log is best effort, the body runs without its row. *)
BeginGoesOn(c) ==
    /\ pc[c] = "idle"
    /\ c \in Writes
    /\ Goto(c, "body")
    /\ UNCHANGED <<audit, effects, outcome, observed>>

(* begin raises, and the body is not run.  The row is there all the same
   when the acknowledgement of its commit was what got lost. *)
BeginRefused(c) ==
    /\ pc[c] = "idle"
    /\ c \in Writes
    /\ \E row \in {"none", "pending"} : audit' = [audit EXCEPT ![c] = row]
    /\ outcome' = [outcome EXCEPT ![c] = "refused"]
    /\ Goto(c, "record")
    /\ UNCHANGED <<effects, observed>>

(* Mutant: the body hands its writes to a thread that outlives the call. *)
CommitTxnInBackground(c) ==
    /\ pc[c] \in {"body", "finish", "record"}
    /\ effects[c] < Txns[c]
    /\ effects' = [effects EXCEPT ![c] = @ + 1]
    /\ UNCHANGED <<pc, audit, outcome, observed>>

(* The body commits one of its transactions and goes on. *)
CommitTxn(c) ==
    /\ pc[c] = "body"
    /\ effects[c] < Txns[c]
    /\ effects' = [effects EXCEPT ![c] = @ + 1]
    /\ UNCHANGED <<pc, audit, outcome, observed>>

AfterBody(c) == Goto(c, IF c \in Writes THEN "finish" ELSE "record")

(* The body raises: before a commit, or from one that took effect. *)
BodyRaises(c) ==
    /\ pc[c] = "body"
    /\ \/ UNCHANGED effects
       \/ /\ effects[c] < Txns[c]
          /\ effects' = [effects EXCEPT ![c] = @ + 1]
    /\ outcome' = [outcome EXCEPT ![c] = "raised"]
    /\ AfterBody(c)
    /\ UNCHANGED <<audit, observed>>

BodyReturns(c) ==
    /\ pc[c] = "body"
    /\ effects[c] = Txns[c]
    /\ outcome' = [outcome EXCEPT ![c] = "ok"]
    /\ AfterBody(c)
    /\ UNCHANGED <<audit, effects, observed>>

(* Mutants: the except branch marks success too; a row that could not be
   marked sends the call back to its body. *)

FinishSucceeded(c) ==
    /\ pc[c] = "finish"
    /\ audit' = [audit EXCEPT ![c] = "succeeded"]
    /\ Goto(c, "record")
    /\ UNCHANGED <<effects, outcome, observed>>

(* PgAuditLogger.finish: one UPDATE of the row. *)
Mark(c) ==
    audit' = [audit EXCEPT ![c] = IF outcome[c] = "ok" THEN "succeeded" ELSE "failed"]

FinishRetries(c) ==
    /\ pc[c] = "finish"
    /\ \/ /\ Mark(c)
          /\ Goto(c, "record")
       \/ /\ Goto(c, "body")
          /\ UNCHANGED audit
    /\ UNCHANGED <<effects, outcome, observed>>

(* _safe_audit_finish: the row is marked, or the exception is swallowed and
   the row may stay pending. *)
Finish(c) ==
    /\ pc[c] = "finish"
    /\ \/ Mark(c)
       \/ UNCHANGED audit
    /\ Goto(c, "record")
    /\ UNCHANGED <<effects, outcome, observed>>

(* _record_tool_call, in the finally clause: a best-effort observation. *)
Record(c) ==
    /\ pc[c] = "record"
    /\ \/ observed' = [observed EXCEPT ![c] =
                          IF outcome[c] = "ok" THEN "info" ELSE "error"]
       \/ UNCHANGED observed
    /\ Goto(c, "done")
    /\ UNCHANGED <<audit, effects, outcome>>

(* The process that serves the call dies: it may have committed the pending
   row an instant before. *)
Crash(c) ==
    /\ pc[c] \notin Terminal
    /\ \/ UNCHANGED audit
       \/ /\ pc[c] = "idle"
          /\ c \in Writes
          /\ audit' = [audit EXCEPT ![c] = "pending"]
    /\ Goto(c, "crashed")
    /\ UNCHANGED <<effects, outcome, observed>>

Step(c) ==
    \/ BeginRead(c)
    \/ BeginWrite(c)
    \/ BeginRefused(c)
    \/ CommitTxn(c)
    \/ BodyRaises(c)
    \/ BodyReturns(c)
    \/ Finish(c)
    \/ Record(c)

Next == \E c \in Calls : Step(c) \/ Crash(c)

Spec == Init /\ [][Next]_vars

(* A call that was started runs on: nothing in call() waits for another
   call, and the embedder and the pool answer or time out. *)
Fairness == \A c \in Calls : WF_vars(pc[c] # "idle" /\ Step(c))

FairSpec == Spec /\ Fairness

-----------------------------------------------------------------------------
(* Write-ahead: a write tool has changed the store only if its audit row is
   there (mcp.py: "If insertion fails, the write is not performed"). *)
EffectsAreLogged ==
    \A c \in Writes : effects[c] > 0 => audit[c] # "none"

(* What is left behind agrees with what happened: a row marked succeeded
   stands for a body that committed all it had to, failed for one that
   raised, a refused call changed nothing and its row is never marked, and
   the observation has the level of the reply the client got. *)
VerdictIsTruthful ==
    \A c \in Calls :
        /\ audit[c] = "succeeded" => outcome[c] = "ok" /\ effects[c] = Txns[c]
        /\ audit[c] = "failed" => outcome[c] = "raised"
        /\ outcome[c] = "refused" => effects[c] = 0 /\ audit[c] \in {"none", "pending"}
        /\ observed[c] = "info" => outcome[c] = "ok" /\ effects[c] = Txns[c]
        /\ observed[c] = "error" => outcome[c] \in {"raised", "refused"}

(* The calls of write tools implement the abstract log: no effect before
   the row, none after the verdict, no verdict that is taken back. *)
WA == INSTANCE WriteAhead WITH
          Ops <- Writes,
          Size <- [c \in Writes |-> Txns[c]],
          log <- [c \in Writes |-> audit[c]],
          durable <- [c \in Writes |-> effects[c]]

ImplementsWriteAhead == WA!Spec

(* A call that was started ends, with a reply or with its process, whatever
   fails on the way: no failure of the audit log blocks it. *)
EveryCallEnds ==
    \A c \in Calls : pc[c] # "idle" ~> pc[c] \in Terminal
=============================================================================
