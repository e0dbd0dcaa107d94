------------------------------- MODULE HttpApi -------------------------------
(***************************************************************************)
(* The HTTP API in front of the service (api/http.py): the middleware that *)
(* limits, authorises, counts and logs every request, the sliding-window   *)
(* limiter and the metrics registry (api/hardening.py), and the service of *)
(* the process that whoever first needs it builds (api/mcp.py).            *)
(*                                                                         *)
(* One event loop runs the middleware and the tool routes: what happens on *)
(* it between two awaits is not interleaved with other requests on it, but *)
(* FastAPI resolves the service and runs the plain routes in worker        *)
(* threads, which are.  A request whose code is set is on its way out.     *)
(***************************************************************************)
EXTENDS Naturals, FiniteSets

CONSTANTS
    Total,      \* bound: how many requests there are
    Clients,    \* the addresses they come from
    NoClient,   \* the client of a request that has not come
    Rate,       \* rate_limit_rps in tenths; 0 turns the limiter off
    Window,     \* window_seconds in ticks of the clock
    Horizon     \* bound: the last tick of the clock

ASSUME HttpAssumption ==
    /\ Total \in Nat
    /\ NoClient \notin Clients
    /\ Rate \in Nat
    /\ Window \in Nat \ {0}
    /\ Horizon \in Nat

(* The requests, numbered as they come in, and nobody: no service is there,
   nobody holds the loop. *)
Requests == 1..Total
None == 0

(* "bare" stands for what FastAPI and CORSMiddleware answer themselves: the
   pages of the documentation, a preflight, a path that is not there; 200
   for whatever a route answers that ran. *)
Paths == {"health", "bare", "read", "tool"}
RateLimitExempt == {"health"}
AuthExempt == {"health"}
NeedService == {"read", "tool"}

Codes == {200, 401, 422, 429, 500}

VARIABLES
    clock,      \* now_monotonic
    hits,       \* hits[c]: the requests in the limiter's deque of client c
    service,    \* _SERVICE: the request whose thread built it
    at,         \* where the request stands
    client,     \* who sent it
    path,       \* and for what
    code,       \* the status code it is answered with, 0 before there is one
    loop,       \* the request that holds the event loop
    tally,      \* METRICS: request_count by path and status
    came,       \* the tick that the limiter noted when it let the request in
    raced,      \* history: the builds under way when the request began one
    made        \* history: the requests that have published a service

input == <<client, path>>
notes == <<came, raced, made>>
vars == <<clock, hits, service, at, input, code, loop, tally, notes>>

(* Where a request can stand, on its way in and on its way out. *)
Inside == {"route", "build", "publish", "handle", "run"}
Ready == {"idle", "count", "done"}

(***************************************************************************)
(* Type invariant.                                                         *)
(***************************************************************************)
TypeOK ==
    /\ clock \in 0..Horizon
    /\ hits \in [Clients -> SUBSET Requests]
    /\ service \in Requests \cup {None}
    /\ at \in [Requests -> Inside \cup Ready]
    /\ client \in [Requests -> Clients \cup {NoClient}]
    /\ path \in [Requests -> Paths \cup {"none"}]
    /\ code \in [Requests -> Codes \cup {0}]
    /\ loop \in Requests \cup {None}
    /\ tally \in [Paths \X Codes -> Nat]
    /\ came \in [Requests -> 0..Horizon]
    /\ raced \in [Requests -> SUBSET Requests]
    /\ made \subseteq Requests

Init ==
    /\ clock = 0
    /\ hits = [c \in Clients |-> {}]
    /\ service = None
    /\ at = [r \in Requests |-> "idle"]
    /\ client = [r \in Requests |-> NoClient]
    /\ path = [r \in Requests |-> "none"]
    /\ code = [r \in Requests |-> 0]
    /\ loop = None
    /\ tally = [x \in Paths \X Codes |-> 0]
    /\ came = [r \in Requests |-> 0]
    /\ raced = [r \in Requests |-> {}]
    /\ made = {}

Goto(r, label) == at' = [at EXCEPT ![r] = label]

Answer(r, status) ==
    /\ code' = [code EXCEPT ![r] = status]
    /\ Goto(r, "count")

-----------------------------------------------------------------------------
(* The way in.                                                             *)

Limited == Rate > 0

(* Mutant: a fractional rate is rounded up. *)
LimitUp == Rate \div 10 + 1

(* max(1, int(requests_per_second)) *)
Limit == IF Rate < 10 THEN 1 ELSE Rate \div 10

(* What the deque keeps once the hits at or before the cutoff are dropped
   from its left end: it is in the order of time. *)
Fresh(c) == {r \in hits[c] : came[r] + Window > clock}

(* SlidingWindowRateLimiter.allow *)
Allow(r, c, p) ==
    IF Limited /\ p \notin RateLimitExempt
    THEN /\ Cardinality(Fresh(c)) < Limit
         /\ hits' = [hits EXCEPT ![c] = Fresh(c) \cup {r}]
         /\ came' = [came EXCEPT ![r] = clock]
    ELSE UNCHANGED <<hits, came>>

Deny(c, p) ==
    /\ Limited
    /\ p \notin RateLimitExempt
    /\ Cardinality(Fresh(c)) >= Limit
    /\ hits' = [hits EXCEPT ![c] = Fresh(c)]
    /\ UNCHANGED came

(* valid: no key is configured at this moment, or the request sends it.
   (/openapi.json, which is exempt too, is a bare path with a valid key.) *)
IsAuthorized(p, valid) == p \in AuthExempt \/ valid

(* hardening_middleware up to its await.  The configuration is read anew for
   the key: that may raise, and the exception passes through. *)
Arrive(r, c, p, valid) ==
    /\ at[r] = "idle"
    /\ \A q \in 1..(r - 1) : at[q] # "idle"
    /\ loop = None
    /\ client' = [client EXCEPT ![r] = c]
    /\ path' = [path EXCEPT ![r] = p]
    /\ \/ /\ Deny(c, p)
          /\ Answer(r, 429)
          /\ loop' = r
       \/ /\ Allow(r, c, p)
          /\ \/ /\ Answer(r, 500)
                /\ loop' = r
             \/ /\ ~ IsAuthorized(p, valid)
                /\ Answer(r, 401)
                /\ loop' = r
             \/ /\ IsAuthorized(p, valid)
                /\ Goto(r, "route")
                /\ UNCHANGED <<code, loop>>
    /\ UNCHANGED <<clock, service, tally, raced, made>>

-----------------------------------------------------------------------------
(* get_service: in a worker thread for service_dependency, on the loop for
   _log_http_access.                                                       *)

Leaving(r) == code[r] # 0

Building == {r \in Requests : at[r] \in {"build", "publish"}}

(* On the way in the route goes on.  On the way out log_observation writes a
   row to ilma.observations, or fails to and nobody hears of it; then the
   response goes out, and the loop is free. *)
Served(r) ==
    IF Leaving(r)
    THEN Goto(r, "done") /\ loop' = None
    ELSE Goto(r, "handle") /\ UNCHANGED loop

(* Mutant: every request builds a service of its own. *)
GetServiceAnew(r) ==
    /\ raced' = [raced EXCEPT ![r] = Building]
    /\ Goto(r, "build")
    /\ loop' = IF Leaving(r) THEN r ELSE loop

(* if _SERVICE is None *)
GetService(r) ==
    IF service = None
    THEN /\ raced' = [raced EXCEPT ![r] = Building]
         /\ Goto(r, "build")
         /\ loop' = IF Leaving(r) THEN r ELSE loop
    ELSE Served(r) /\ UNCHANGED raced

(* IlmaService.from_env.  Without a service a route answers 500, and the
   access log goes without its row. *)
Build(r) ==
    /\ at[r] = "build"
    /\ \/ Goto(r, "publish") /\ UNCHANGED <<code, loop>>
       \/ Leaving(r) /\ Served(r) /\ UNCHANGED code
       \/ ~ Leaving(r) /\ Answer(r, 500) /\ UNCHANGED loop
    /\ UNCHANGED <<clock, hits, service, input, tally, notes>>

(* _SERVICE = ...; return _SERVICE *)
Publish(r) ==
    /\ at[r] = "publish"
    /\ service' = r
    /\ made' = made \cup {r}
    /\ Served(r)
    /\ UNCHANGED <<clock, hits, input, code, tally, came, raced>>

-----------------------------------------------------------------------------
(* The routes, and the way out.                                            *)

(* Routes without a service, and parameters that do not fit the signature of
   the tool's route (422).  health asks the service only if there is one already. *)
Bare(r) ==
    /\ at[r] = "route"
    /\ \/ path[r] = "tool" /\ Answer(r, 422)
       \/ path[r] \notin NeedService /\ Answer(r, 200)
       \/ path[r] = "health" /\ service # None /\ Answer(r, 500)
    /\ UNCHANGED <<clock, hits, service, input, loop, tally, notes>>

(* service_dependency *)
Depend(r) ==
    /\ at[r] = "route"
    /\ path[r] \in NeedService
    /\ GetService(r)
    /\ UNCHANGED <<clock, hits, service, input, code, tally, came, made>>

(* scrape_metrics and status, in a worker thread. *)
Read(r) ==
    /\ at[r] = "handle"
    /\ path[r] = "read"
    /\ \E status \in {200, 500} : Answer(r, status)
    /\ UNCHANGED <<clock, hits, service, input, loop, tally, notes>>

(* service_route calls the tool on the loop: the loop waits for it. *)
EnterTool(r) ==
    /\ at[r] = "handle"
    /\ path[r] = "tool"
    /\ loop = None
    /\ loop' = r
    /\ Goto(r, "run")
    /\ UNCHANGED <<clock, hits, service, input, code, tally, notes>>

(* Mutant: a tool that raises is called again, as often as it takes. *)
LeaveToolOrRetry(r) ==
    /\ at[r] = "run"
    /\ \/ Answer(r, 200)
       \/ Goto(r, "handle") /\ UNCHANGED code
    /\ loop' = None
    /\ UNCHANGED <<clock, hits, service, input, tally, notes>>

(* The arguments do not fit the tool's own model, or the tool answers or raises. *)
LeaveTool(r) ==
    /\ at[r] = "run"
    /\ \E status \in {200, 422, 500} : Answer(r, status)
    /\ loop' = None
    /\ UNCHANGED <<clock, hits, service, input, tally, notes>>

(* Mutant: what the limiter refuses is not counted. *)
CountAdmitted(r) ==
    /\ at[r] = "count"
    /\ loop \in {None, r}
    /\ tally' = IF code[r] = 429 THEN tally ELSE [tally EXCEPT ![<<path[r], code[r]>>] = @ + 1]
    /\ GetService(r)
    /\ UNCHANGED <<clock, hits, service, input, code, came, made>>

(* The finally block: request_count and request_duration, then the access
   log, and no await between them. *)
Count(r) ==
    /\ at[r] = "count"
    /\ loop \in {None, r}
    /\ tally' = [tally EXCEPT ![<<path[r], code[r]>>] = @ + 1]
    /\ GetService(r)
    /\ UNCHANGED <<clock, hits, service, input, code, came, made>>

Tick ==
    /\ clock < Horizon
    /\ clock' = clock + 1
    /\ UNCHANGED <<hits, service, at, input, code, loop, tally, notes>>

Step(r) ==
    \/ Bare(r)
    \/ Depend(r)
    \/ Build(r)
    \/ Publish(r)
    \/ Read(r)
    \/ EnterTool(r)
    \/ LeaveTool(r)
    \/ Count(r)

Next ==
    \/ \E r \in Requests :
          \/ \E c \in Clients, p \in Paths, valid \in BOOLEAN : Arrive(r, c, p, valid)
          \/ Step(r)
    \/ Tick

Spec == Init /\ [][Next]_vars

(* Threads are scheduled, and the loop runs whatever is ready on it. *)
FairSpec == Spec /\ \A r \in Requests : WF_vars(Step(r))

-----------------------------------------------------------------------------
(* What must hold.                                                         *)

Admitted(c, t) ==
    {r \in Requests : /\ at[r] # "idle"
                      /\ client[r] = c
                      /\ path[r] \notin RateLimitExempt
                      /\ code[r] # 429
                      /\ came[r] <= t
                      /\ came[r] + Window > t}

(* Whatever window of time one looks at, and however the requests fall into
   it, a client got no more of them past the limiter than the configured
   rate allows (at least one). *)
RateHolds ==
    Limited => \A c \in Clients, t \in 0..Horizon :
                  \/ Cardinality(Admitted(c, t)) <= 1
                  \/ Cardinality(Admitted(c, t)) * 10 <= Rate

Counted(p, status) ==
    {r \in Requests : /\ path[r] = p
                      /\ code[r] = status
                      /\ at[r] # "count"}

(* request_count tells what the clients saw: for every path and status it
   is the number of requests so answered, whether a check refused them, a
   route answered or anything raised. *)
TallyIsTruthful ==
    \A p \in Paths, status \in Codes :
       tally[<<p, status>>] = Cardinality(Counted(p, status))

(* get_service takes no lock, so that two threads may each build a service,
   but no more than that: of any two that were built, one was begun while
   the other was under way. *)
OnlyRacesRebuild ==
    \A r, s \in made : r = s \/ r \in raced[s] \/ s \in raced[r]

(* Every request that came in is answered. *)
EveryRequestEnds ==
    \A r \in Requests : at[r] # "idle" ~> at[r] = "done"
=============================================================================
