----------------------------- MODULE WriteAhead -----------------------------
(***************************************************************************)
(* What the write-ahead audit log promises, without saying how: a write    *)
(* becomes durable only while its log entry is open, and an entry that was *)
(* closed keeps its verdict and covers a write that is over.               *)
(***************************************************************************)
EXTENDS Naturals

CONSTANTS
    Ops,    \* the write operations
    Size    \* Size[o]: the number of durable steps operation o consists of

VARIABLES
    log,      \* log[o]: the state of o's entry
    durable   \* durable[o]: how many steps of o are durable

vars == <<log, durable>>

Verdict == {"succeeded", "failed"}

TypeOK ==
    /\ log \in [Ops -> {"none", "pending"} \cup Verdict]
    /\ durable \in [Ops -> Nat]

Init ==
    /\ log = [o \in Ops |-> "none"]
    /\ durable = [o \in Ops |-> 0]

Open(o) ==
    /\ log[o] = "none"
    /\ log' = [log EXCEPT ![o] = "pending"]
    /\ UNCHANGED durable

Apply(o) ==
    /\ log[o] = "pending"
    /\ durable[o] < Size[o]
    /\ durable' = [durable EXCEPT ![o] = @ + 1]
    /\ UNCHANGED log

Close(o, verdict) ==
    /\ log[o] = "pending"
    /\ verdict = "succeeded" => durable[o] = Size[o]
    /\ log' = [log EXCEPT ![o] = verdict]
    /\ UNCHANGED durable

Next ==
    \E o \in Ops :
        \/ Open(o)
        \/ Apply(o)
        \/ \E verdict \in Verdict : Close(o, verdict)

Spec == Init /\ [][Next]_vars
=============================================================================
