---------------------------- MODULE HttpApiProofs ----------------------------
(***************************************************************************)
(* HttpApi for any number of requests and clients, any rate and window.    *)
(***************************************************************************)
EXTENDS HttpApi, FiniteSetTheorems, TLAPS

(* What has come says where a request stands: who sent it and for what, and
   whether it is on its way out. *)
Placed(r) ==
    /\ at[r] = "idle" <=> path[r] = "none"
    /\ at[r] \in {"idle", "route", "handle", "run"} => code[r] = 0
    /\ at[r] \in {"count", "done"} => code[r] # 0

(* The builds that are under way or published: of two of them, one was begun
   while the other was under way. *)
Overlap ==
    /\ service = None <=> made = {}
    /\ \A r, s \in made \cup Building : r = s \/ r \in raced[s] \/ s \in raced[r]

(* A request that the limiter let in. *)
Passed(r) == at[r] # "idle" /\ path[r] \notin RateLimitExempt /\ code[r] # 429

(* The deque of a client has all the hits that still count, and no window of
   time has more of them than the limit. *)
Remembered(r) == Passed(r) /\ came[r] + Window > clock => r \in hits[client[r]]

InWindow(c, t) == Cardinality(Admitted(c, t)) <= Limit

LimitKept ==
    /\ \A r \in Requests : Remembered(r)
    /\ \A c \in Clients, t \in 0..Horizon : InWindow(c, t)

IInv ==
    /\ TypeOK
    /\ \A r \in Requests : Placed(r)
    /\ Overlap
    /\ TallyIsTruthful
    /\ Limited => LimitKept

(* Constants. *)
LEMMA RequestsFinite ==
    ASSUME NEW S \in SUBSET Requests
    PROVE  IsFiniteSet(S) /\ Cardinality(S) \in Nat
<1>1. IsFiniteSet(Requests)
  BY HttpAssumption, FS_Interval DEF Requests
<1> QED
  BY <1>1, FS_Subset, FS_CardinalityType

LEMMA LimitFacts == Limit \in Nat /\ Limit >= 1 /\ (Limit <= 1 \/ Limit * 10 <= Rate)
  BY HttpAssumption DEF Limit

LEMMA Bumped ==
    ASSUME NEW D, NEW x, NEW f \in [D -> Nat]
    PROVE  /\ [f EXCEPT ![x] = @ + 1] \in [D -> Nat]
           /\ \A y \in D : [f EXCEPT ![x] = @ + 1][y] = IF y = x THEN f[y] + 1 ELSE f[y]
<1> DEFINE g == [f EXCEPT ![x] = @ + 1]
<1>1. g = [y \in D |-> IF y = x THEN f[y] + 1 ELSE f[y]]
  OBVIOUS
<1>2. \A y \in D : (IF y = x THEN f[y] + 1 ELSE f[y]) \in Nat
  OBVIOUS
<1> QED
  BY <1>1, <1>2

(* Nothing has come, nothing is counted. *)
LEMMA InitIInv == Init => IInv
<1> SUFFICES ASSUME Init PROVE IInv
  OBVIOUS
<1>1. TypeOK
  BY HttpAssumption DEF Init, TypeOK, Inside, Ready
<1>2. (\A r \in Requests : Placed(r) /\ Remembered(r)) /\ Overlap
  BY DEF Init, Placed, Remembered, Passed, Overlap, Building
<1>3. TallyIsTruthful
  <2> SUFFICES ASSUME NEW p \in Paths, NEW status \in Codes
               PROVE  tally[<<p, status>>] = Cardinality(Counted(p, status))
    BY DEF TallyIsTruthful
  <2>1. Counted(p, status) = {}
    BY DEF Init, Counted, Codes
  <2>2. <<p, status>> \in Paths \X Codes
    OBVIOUS
  <2> QED
    BY <2>1, <2>2, FS_EmptySet DEF Init
<1>4. \A c \in Clients, t \in 0..Horizon : InWindow(c, t)
  <2> SUFFICES ASSUME NEW c \in Clients, NEW t \in 0..Horizon PROVE InWindow(c, t)
    OBVIOUS
  <2>1. Admitted(c, t) = {}
    BY DEF Init, Admitted
  <2> QED
    BY <2>1, FS_EmptySet, LimitFacts DEF InWindow
<1> QED
  BY <1>1, <1>2, <1>3, <1>4 DEF IInv, LimitKept

-----------------------------------------------------------------------------
(* Type correctness.                                                       *)

LEMMA GetServiceTyped ==
    ASSUME TypeOK, NEW r \in Requests, GetService(r)
    PROVE  /\ at' \in [Requests -> Inside \cup Ready]
           /\ loop' \in Requests \cup {None}
           /\ raced' \in [Requests -> SUBSET Requests]
<1>1. Building \in SUBSET Requests
  BY DEF Building
<1> QED
  BY <1>1 DEF TypeOK, GetService, Served, Goto, Inside, Ready

LEMMA StepTyped == TypeOK /\ [Next]_vars => TypeOK'
<1> SUFFICES ASSUME TypeOK, [Next]_vars PROVE TypeOK'
  OBVIOUS
<1>1. CASE UNCHANGED vars
  BY <1>1 DEF TypeOK, input, notes, vars
<1>2. CASE Tick
  BY <1>2, HttpAssumption DEF TypeOK, input, notes, Tick
<1>3. ASSUME NEW r \in Requests, NEW c \in Clients, NEW p \in Paths, NEW valid \in BOOLEAN,
             Arrive(r, c, p, valid)
      PROVE  TypeOK'
  <2>1. Fresh(c) \subseteq Requests
    BY DEF TypeOK, Fresh
  <2>2. hits' \in [Clients -> SUBSET Requests] /\ came' \in [Requests -> 0..Horizon]
    BY <1>3, <2>1 DEF TypeOK, Arrive, Allow, Deny
  <2>3. /\ at' \in [Requests -> Inside \cup Ready]
        /\ code' \in [Requests -> Codes \cup {0}]
        /\ loop' \in Requests \cup {None}
    BY <1>3 DEF TypeOK, input, notes, Arrive, Answer, Goto, Inside, Ready, Codes
  <2> QED
    BY <1>3, <2>2, <2>3 DEF TypeOK, input, notes, Arrive
<1>4. ASSUME NEW r \in Requests, Step(r) PROVE TypeOK'
  <2>1. CASE Bare(r)
    BY <2>1 DEF TypeOK, input, notes, Bare, Answer, Goto, Inside, Ready, Codes
  <2>2. CASE Depend(r)
    BY <2>2, GetServiceTyped DEF TypeOK, input, notes, Depend
  <2>3. CASE Build(r)
    BY <2>3 DEF TypeOK, input, notes, Build, Served, Answer, Goto, Inside, Ready, Codes
  <2>4. CASE Publish(r)
    BY <2>4 DEF TypeOK, input, notes, Publish, Served, Goto, Inside, Ready
  <2>5. CASE Read(r)
    BY <2>5 DEF TypeOK, input, notes, Read, Answer, Goto, Inside, Ready, Codes
  <2>6. CASE EnterTool(r)
    BY <2>6 DEF TypeOK, input, notes, EnterTool, Goto, Inside, Ready
  <2>7. CASE LeaveTool(r)
    BY <2>7 DEF TypeOK, input, notes, LeaveTool, Answer, Goto, Inside, Ready, Codes
  <2>8. CASE Count(r)
    <3>1. tally' \in [Paths \X Codes -> Nat]
      BY <2>8, Bumped, Zenon DEF Count, TypeOK
    <3>2. GetService(r) /\ UNCHANGED <<clock, hits, service, input, code, came, made>>
      BY <2>8 DEF Count
    <3> QED
      BY <3>1, <3>2, GetServiceTyped DEF TypeOK, input
  <2> QED
    BY <1>4, <2>1, <2>2, <2>3, <2>4, <2>5, <2>6, <2>7, <2>8 DEF Step
<1> QED
  BY <1>1, <1>2, <1>3, <1>4 DEF Next

-----------------------------------------------------------------------------
(* Where a request stands.                                                 *)

(* A step takes its request further, never back, and refuses nothing. *)
LEMMA StepFrame ==
    ASSUME TypeOK, \A q \in Requests : Placed(q), NEW r \in Requests, Step(r)
    PROVE  /\ UNCHANGED <<clock, hits, client, path, came>>
           /\ \A q \in Requests : Placed(q)'
           /\ at[r] # "idle" /\ at'[r] # "idle"
           /\ code[r] = code'[r] \/ (code[r] = 0 /\ code'[r] # 429)
           /\ \A q \in Requests \ {r} : at'[q] = at[q] /\ code'[q] = code[q]
<1> USE DEF Goto, Answer, GetService, Served, Leaving, NeedService, Codes
<1>1. /\ UNCHANGED <<clock, hits, client, path, came>>
      /\ at[r] # "idle" /\ at'[r] # "idle"
  BY DEF Step, Bare, Depend, Build, Publish, Read, EnterTool, LeaveTool, Count, TypeOK, input, notes
<1>2. Placed(r)
  OBVIOUS
<1>3. Placed(r)' /\ (code[r] = code'[r] \/ (code[r] = 0 /\ code'[r] # 429))
  <2>1. CASE Bare(r)
    BY <1>1, <1>2, <2>1 DEF Bare, Placed, TypeOK
  <2>2. CASE Depend(r)
    BY <1>1, <1>2, <2>2 DEF Depend, Placed, TypeOK
  <2>3. CASE Build(r)
    BY <1>1, <1>2, <2>3 DEF Build, Placed, TypeOK
  <2>4. CASE Publish(r)
    BY <1>1, <1>2, <2>4 DEF Publish, Placed, TypeOK
  <2>5. CASE Read(r)
    BY <1>1, <1>2, <2>5 DEF Read, Placed, TypeOK
  <2>6. CASE EnterTool(r)
    BY <1>1, <1>2, <2>6 DEF EnterTool, Placed, TypeOK
  <2>7. CASE LeaveTool(r)
    BY <1>1, <1>2, <2>7 DEF LeaveTool, Placed, TypeOK
  <2>8. CASE Count(r)
    BY <1>1, <1>2, <2>8 DEF Count, Placed, TypeOK
  <2> QED
    BY <2>1, <2>2, <2>3, <2>4, <2>5, <2>6, <2>7, <2>8 DEF Step
<1>4. \A q \in Requests \ {r} : at'[q] = at[q] /\ code'[q] = code[q]
  BY DEF Step, Bare, Depend, Build, Publish, Read, EnterTool, LeaveTool, Count, TypeOK
<1>5. \A q \in Requests \ {r} : Placed(q)'
  BY <1>1, <1>4 DEF Placed
<1> QED
  BY <1>1, <1>3, <1>4, <1>5

LEMMA StepPlaced ==
    TypeOK /\ (\A r \in Requests : Placed(r)) /\ [Next]_vars => \A r \in Requests : Placed(r)'
<1> SUFFICES ASSUME TypeOK, \A r \in Requests : Placed(r), [Next]_vars
             PROVE  \A r \in Requests : Placed(r)'
  OBVIOUS
<1>1. CASE UNCHANGED vars \/ Tick
  BY <1>1 DEF Placed, Tick, vars, input
<1>2. ASSUME NEW r \in Requests, NEW c \in Clients, NEW p \in Paths, NEW valid \in BOOLEAN,
             Arrive(r, c, p, valid)
      PROVE  \A q \in Requests : Placed(q)'
  <2>1. Placed(r)'
    BY <1>2 DEF Arrive, Answer, Goto, Placed, TypeOK, Paths
  <2>2. \A q \in Requests \ {r} : Placed(q)'
    BY <1>2 DEF Arrive, Answer, Goto, Placed, TypeOK
  <2> QED
    BY <2>1, <2>2
<1> QED
  BY <1>1, <1>2, StepFrame DEF Next

-----------------------------------------------------------------------------
(* The service is built again only by who raced for it.                    *)

LEMMA GetServiceOverlap ==
    ASSUME TypeOK, Overlap, NEW r \in Requests, at[r] \notin {"build", "publish"},
           GetService(r), UNCHANGED <<service, made>>
    PROVE  Overlap'
<1>1. CASE service = None
  <2>1. made' = {} /\ service' = None
    BY <1>1 DEF Overlap
  <2>2. Building' = Building \cup {r} /\ r \notin Building
    BY <1>1 DEF GetService, Goto, Building, TypeOK
  <2>3. raced'[r] = Building /\ \A q \in Requests \ {r} : raced'[q] = raced[q]
    BY <1>1 DEF GetService, TypeOK
  <2>4. Building \subseteq Requests
    BY DEF Building
  <2> QED
    BY <2>1, <2>2, <2>3, <2>4 DEF Overlap
<1>2. CASE service # None
  <2>1. Building' = Building /\ UNCHANGED raced
    BY <1>2 DEF GetService, Served, Goto, Building, TypeOK
  <2> QED
    BY <2>1 DEF Overlap
<1> QED
  BY <1>1, <1>2

LEMMA StepOverlap == TypeOK /\ Overlap /\ [Next]_vars => Overlap'
<1> SUFFICES ASSUME TypeOK, Overlap, [Next]_vars PROVE Overlap'
  OBVIOUS
<1>0. ASSUME Building' \subseteq Building, UNCHANGED <<service, raced, made>> PROVE Overlap'
  BY <1>0 DEF Overlap
<1>1. CASE UNCHANGED vars \/ Tick
  BY <1>0, <1>1 DEF Tick, vars, notes, Building
<1>2. ASSUME NEW r \in Requests, NEW c \in Clients, NEW p \in Paths, NEW valid \in BOOLEAN,
             Arrive(r, c, p, valid)
      PROVE  Overlap'
  BY <1>0, <1>2 DEF Arrive, Answer, Goto, TypeOK, Building
<1>3. ASSUME NEW r \in Requests, Step(r) PROVE Overlap'
  <2> USE DEF Answer, Goto, TypeOK, Building, notes
  <2>1. CASE Bare(r)
    BY <1>0, <2>1 DEF Bare
  <2>2. CASE Depend(r)
    BY <2>2, GetServiceOverlap DEF Depend
  <2>3. CASE Build(r)
    BY <1>0, <2>3 DEF Build, Served
  <2>4. CASE Publish(r)
    <3>1. made' \cup Building' \subseteq made \cup Building
      BY <2>4 DEF Publish, Served
    <3>2. made' # {} /\ service' # None /\ UNCHANGED raced
      BY <2>4, HttpAssumption DEF Publish, Requests, None
    <3> QED
      BY <3>1, <3>2 DEF Overlap
  <2>5. CASE Read(r)
    BY <1>0, <2>5 DEF Read
  <2>6. CASE EnterTool(r)
    BY <1>0, <2>6 DEF EnterTool
  <2>7. CASE LeaveTool(r)
    BY <1>0, <2>7 DEF LeaveTool
  <2>8. CASE Count(r)
    BY <2>8, GetServiceOverlap DEF Count
  <2> QED
    BY <1>3, <2>1, <2>2, <2>3, <2>4, <2>5, <2>6, <2>7, <2>8 DEF Step
<1> QED
  BY <1>1, <1>2, <1>3 DEF Next

-----------------------------------------------------------------------------
(* The counter counts what was answered.                                   *)

LEMMA CountTruthful ==
    ASSUME TypeOK, TallyIsTruthful, NEW r \in Requests, Count(r), UNCHANGED path
    PROVE  TallyIsTruthful'
<1> SUFFICES ASSUME NEW p \in Paths, NEW status \in Codes
             PROVE  tally'[<<p, status>>] = Cardinality(Counted(p, status)')
  BY DEF TallyIsTruthful
<1> DEFINE D == Paths \X Codes
           x == <<path[r], code[r]>>
           y == <<p, status>>
<1>1. /\ at[r] = "count" /\ at'[r] # "count" /\ code' = code
      /\ \A q \in Requests \ {r} : at'[q] = at[q]
  BY DEF Count, GetService, Served, Goto, TypeOK
<1>2. tally'[y] = IF y = x THEN tally[y] + 1 ELSE tally[y]
  <2>1. tally \in [D -> Nat] /\ y \in D
    BY DEF TypeOK
  <2>2. tally' = [tally EXCEPT ![x] = @ + 1]
    BY DEF Count
  <2> HIDE DEF D, x, y
  <2> QED
    BY <2>1, <2>2, Bumped
<1>3. tally[y] = Cardinality(Counted(p, status))
  BY DEF TallyIsTruthful
<1>4. Counted(p, status) \in SUBSET Requests /\ IsFiniteSet(Counted(p, status))
  <2>1. Counted(p, status) \in SUBSET Requests
    BY DEF Counted
  <2> QED
    BY <2>1, RequestsFinite
<1>5. CASE y = x
  <2>0. path[r] = p /\ code[r] = status
    BY <1>5
  <2>1. Counted(p, status)' = Counted(p, status) \cup {r} /\ r \notin Counted(p, status)
    <3>1. r \in Counted(p, status)' /\ r \notin Counted(p, status)
      BY <1>1, <2>0 DEF Counted
    <3>2. \A q \in Requests \ {r} : q \in Counted(p, status)' <=> q \in Counted(p, status)
      BY <1>1 DEF Counted
    <3>3. Counted(p, status)' \subseteq Requests /\ Counted(p, status) \subseteq Requests
      BY DEF Counted
    <3> QED
      BY <3>1, <3>2, <3>3
  <2> QED
    <3>1. Cardinality(Counted(p, status) \cup {r}) = Cardinality(Counted(p, status)) + 1
      BY <1>4, <2>1, FS_AddElement
    <3>2. tally'[y] = tally[y] + 1
      BY <1>2, <1>5, Zenon
    <3> QED
      BY <1>3, <2>1, <3>1, <3>2, Zenon
<1>6. CASE y # x
  <2>1. Counted(p, status)' = Counted(p, status)
    BY <1>1, <1>6 DEF Counted
  <2> QED
    BY <1>2, <1>3, <1>6, <2>1
<1> QED
  BY <1>5, <1>6

LEMMA StepTruthful ==
    TypeOK /\ (\A r \in Requests : Placed(r)) /\ TallyIsTruthful /\ [Next]_vars
      => TallyIsTruthful'
<1> SUFFICES ASSUME TypeOK, \A r \in Requests : Placed(r), TallyIsTruthful, [Next]_vars
             PROVE  TallyIsTruthful'
  OBVIOUS
<1>0. ASSUME UNCHANGED tally,
             \A q \in Requests, p \in Paths, status \in Codes :
                q \in Counted(p, status)' <=> q \in Counted(p, status)
      PROVE  TallyIsTruthful'
  <2>1. ASSUME NEW p \in Paths, NEW status \in Codes
        PROVE  Counted(p, status)' = Counted(p, status)
    <3>1. Counted(p, status)' \subseteq Requests /\ Counted(p, status) \subseteq Requests
      BY DEF Counted
    <3> QED
      BY <1>0, <2>1, <3>1
  <2> QED
    BY <1>0, <2>1 DEF TallyIsTruthful
<1>1. CASE UNCHANGED vars \/ Tick
  BY <1>0, <1>1 DEF Tick, vars, input, Counted
<1>2. ASSUME NEW r \in Requests, NEW c \in Clients, NEW p \in Paths, NEW valid \in BOOLEAN,
             Arrive(r, c, p, valid)
      PROVE  TallyIsTruthful'
  <2>1. /\ path[r] = "none"
        /\ at'[r] = "count" \/ code'[r] = 0
        /\ \A q \in Requests \ {r} : at'[q] = at[q] /\ code'[q] = code[q] /\ path'[q] = path[q]
    BY <1>2 DEF Arrive, Answer, Goto, TypeOK, Placed
  <2> QED
    BY <1>0, <1>2, <2>1 DEF Arrive, Counted, Codes, Paths
<1>3. ASSUME NEW r \in Requests, Step(r) PROVE TallyIsTruthful'
  <2>0. /\ UNCHANGED path
        /\ Placed(r)
        /\ \A q \in Requests \ {r} : at'[q] = at[q] /\ code'[q] = code[q]
    BY <1>3, StepFrame
  <2>1. CASE Count(r)
    BY <2>0, <2>1, CountTruthful
  <2>2. CASE ~ Count(r)
    <3>1. /\ UNCHANGED tally
          /\ at[r] # "count"
          /\ code'[r] = code[r] => at'[r] # "count"
          /\ code'[r] = code[r] \/ (code[r] = 0 /\ at'[r] = "count")
      <4> USE <2>0 DEF Goto, Answer, GetService, Served, Leaving, NeedService, TypeOK, Placed
      <4>1. CASE Bare(r)
        BY <4>1 DEF Bare
      <4>2. CASE Depend(r)
        BY <4>2 DEF Depend
      <4>3. CASE Build(r)
        BY <4>3 DEF Build
      <4>4. CASE Publish(r)
        BY <4>4 DEF Publish
      <4>5. CASE Read(r)
        BY <4>5 DEF Read
      <4>6. CASE EnterTool(r)
        BY <4>6 DEF EnterTool
      <4>7. CASE LeaveTool(r)
        BY <4>7 DEF LeaveTool
      <4> QED
        BY <1>3, <2>2, <4>1, <4>2, <4>3, <4>4, <4>5, <4>6, <4>7 DEF Step
    <3>2. 0 \notin Codes
      BY DEF Codes
    <3> QED
      BY <1>0, <2>0, <3>1, <3>2 DEF Counted
  <2> QED
    BY <2>1, <2>2
<1> QED
  BY <1>1, <1>2, <1>3 DEF Next

-----------------------------------------------------------------------------
(* The rate.                                                               *)

(* Who was let in, and when, changes only as a request arrives, and time
   only lets hits fall out of the window. *)
LEMMA SameRate ==
    ASSUME TypeOK, LimitKept, clock' \in Nat, clock' >= clock, UNCHANGED <<hits, client, path, came>>,
           \A q \in Requests : Passed(q)' = Passed(q)
    PROVE  LimitKept'
<1>1. \A r \in Requests : Remembered(r)'
  <2> SUFFICES ASSUME NEW r \in Requests, Passed(r)', came'[r] + Window > clock'
               PROVE  r \in hits'[client'[r]]
    BY DEF Remembered
  <2>1. clock \in Nat /\ came[r] \in Nat
    BY HttpAssumption DEF TypeOK
  <2>2. Passed(r) /\ came[r] + Window > clock
    BY <2>1, HttpAssumption
  <2> QED
    BY <2>2 DEF LimitKept, Remembered
<1>2. ASSUME NEW c \in Clients, NEW t \in 0..Horizon PROVE InWindow(c, t)'
  <2>1. Admitted(c, t)' = Admitted(c, t)
    BY DEF Admitted, Passed
  <2> QED
    BY <2>1 DEF LimitKept, InWindow
<1> QED
  BY <1>1, <1>2 DEF LimitKept

LEMMA ArriveRate ==
    ASSUME TypeOK, LimitKept, Limited, NEW r \in Requests, NEW c \in Clients, NEW p \in Paths,
           NEW valid \in BOOLEAN, Arrive(r, c, p, valid)
    PROVE  LimitKept'
<1>1. /\ at[r] = "idle" /\ ~ Passed(r)
      /\ client'[r] = c /\ path'[r] = p /\ UNCHANGED clock
      /\ \A q \in Requests \ {r} : /\ Passed(q)' = Passed(q)
                                   /\ client'[q] = client[q]
                                   /\ at'[q] = at[q] /\ path'[q] = path[q] /\ code'[q] = code[q]
  BY DEF Arrive, Answer, Goto, Passed, TypeOK
<1>2. CASE hits' = [hits EXCEPT ![c] = Fresh(c)] /\ UNCHANGED came /\ ~ Passed(r)'
  <2>1. ASSUME NEW q \in Requests PROVE Remembered(q)'
    BY <1>1, <1>2 DEF LimitKept, Remembered, Fresh, TypeOK
  <2>2. ASSUME NEW d \in Clients, NEW t \in 0..Horizon PROVE InWindow(d, t)'
    <3>1. Admitted(d, t)' = Admitted(d, t)
      BY <1>1, <1>2 DEF Admitted, Passed
    <3> QED
      BY <3>1 DEF LimitKept, InWindow
  <2> QED
    BY <2>1, <2>2 DEF LimitKept
<1>3. CASE UNCHANGED <<hits, came>> /\ ~ Passed(r)'
  <2>1. ASSUME NEW q \in Requests PROVE Remembered(q)'
    BY <1>1, <1>3 DEF LimitKept, Remembered
  <2>2. ASSUME NEW d \in Clients, NEW t \in 0..Horizon PROVE InWindow(d, t)'
    <3>1. Admitted(d, t)' = Admitted(d, t)
      BY <1>1, <1>3 DEF Admitted, Passed
    <3> QED
      BY <3>1 DEF LimitKept, InWindow
  <2> QED
    BY <2>1, <2>2 DEF LimitKept
<1>4. CASE /\ Cardinality(Fresh(c)) < Limit
           /\ hits' = [hits EXCEPT ![c] = Fresh(c) \cup {r}]
           /\ came' = [came EXCEPT ![r] = clock]
  <2>0. came'[r] = clock /\ \A q \in Requests \ {r} : came'[q] = came[q]
    BY <1>4 DEF TypeOK
  <2>1. ASSUME NEW q \in Requests PROVE Remembered(q)'
    <3>1. CASE q = r
      BY <1>1, <1>4, <3>1 DEF Remembered, TypeOK
    <3>2. CASE q # r
      BY <1>1, <1>4, <2>0, <3>2 DEF LimitKept, Remembered, Fresh, TypeOK
    <3> QED
      BY <3>1, <3>2
  <2>2. ASSUME NEW d \in Clients, NEW t \in 0..Horizon PROVE InWindow(d, t)'
    <3>1. CASE d # c \/ t < clock
      <4>1. Admitted(d, t)' = Admitted(d, t)
        <5>1. r \notin Admitted(d, t)' /\ r \notin Admitted(d, t)
          BY <1>1, <2>0, <3>1, HttpAssumption DEF Admitted, TypeOK
        <5>2. \A q \in Requests \ {r} : q \in Admitted(d, t)' <=> q \in Admitted(d, t)
          BY <1>1, <2>0 DEF Admitted
        <5> QED
          BY <5>1, <5>2 DEF Admitted
      <4> QED
        BY <4>1 DEF LimitKept, InWindow
    <3>2. CASE d = c /\ t >= clock
      <4>1. Admitted(c, t)' \subseteq Fresh(c) \cup {r}
        <5> SUFFICES ASSUME NEW q \in Requests \ {r}, q \in Admitted(c, t)' PROVE q \in Fresh(c)
          BY DEF Admitted
        <5>1. Passed(q) /\ client[q] = c /\ came[q] + Window > t
          BY <1>1, <2>0 DEF Admitted, Passed
        <5>2. came[q] + Window > clock
          BY <3>2, <5>1, HttpAssumption DEF TypeOK
        <5> QED
          BY <5>1, <5>2 DEF LimitKept, Remembered, Fresh
      <4>2. Fresh(c) \in SUBSET Requests /\ Fresh(c) \cup {r} \in SUBSET Requests
        BY DEF Fresh, TypeOK
      <4>3. Admitted(c, t)' \in SUBSET Requests
        BY DEF Admitted
      <4>4. /\ IsFiniteSet(Fresh(c)) /\ Cardinality(Fresh(c)) \in Nat
            /\ IsFiniteSet(Fresh(c) \cup {r}) /\ Cardinality(Fresh(c) \cup {r}) \in Nat
            /\ Cardinality(Admitted(c, t)') \in Nat
        BY <4>2, <4>3, RequestsFinite
      <4>5. Cardinality(Fresh(c) \cup {r}) <= Limit
        BY <1>4, <4>4, LimitFacts, FS_AddElement
      <4>6. Cardinality(Admitted(c, t)') <= Cardinality(Fresh(c) \cup {r})
        BY <4>1, <4>4, FS_Subset
      <4> QED
        BY <3>2, <4>4, <4>5, <4>6, LimitFacts DEF InWindow
    <3> QED
      BY <3>1, <3>2 DEF TypeOK
  <2> QED
    BY <2>1, <2>2 DEF LimitKept
<1> QED
  <2>1. (Deny(c, p) /\ Answer(r, 429)) \/ Allow(r, c, p)
    BY DEF Arrive
  <2>2. CASE Deny(c, p) /\ Answer(r, 429)
    BY <1>2, <2>2 DEF Deny, Answer, Passed, TypeOK
  <2>3. CASE Allow(r, c, p)
    BY <1>1, <1>3, <1>4, <2>3 DEF Allow, Passed
  <2> QED
    BY <2>1, <2>2, <2>3

LEMMA StepRate ==
    /\ TypeOK /\ (\A r \in Requests : Placed(r)) /\ LimitKept
    /\ Limited /\ [Next]_vars
    => LimitKept'
<1> SUFFICES ASSUME TypeOK, \A r \in Requests : Placed(r), LimitKept, Limited, [Next]_vars
             PROVE  LimitKept'
  OBVIOUS
<1>0. clock \in Nat
  BY HttpAssumption DEF TypeOK
<1>1. CASE UNCHANGED vars \/ Tick
  BY <1>0, <1>1, SameRate DEF Tick, vars, input, notes, Passed
<1>2. ASSUME NEW r \in Requests, Step(r) PROVE LimitKept'
  <2>1. \A q \in Requests : Passed(q)' = Passed(q)
    BY <1>2, StepFrame DEF Passed
  <2> QED
    BY <1>0, <1>2, <2>1, StepFrame, SameRate
<1> QED
  BY <1>1, <1>2, ArriveRate DEF Next

-----------------------------------------------------------------------------
(* The inductive invariant holds, and what the runs check follows.         *)

LEMMA Inductive == IInv /\ [Next]_vars => IInv'
<1> SUFFICES ASSUME IInv, [Next]_vars PROVE IInv'
  OBVIOUS
<1>1. Limited' = Limited
  BY DEF Limited
<1> QED
  BY <1>1, StepTyped, StepPlaced, StepOverlap, StepTruthful, StepRate DEF IInv

(* Every reachable state of the HTTP API is well typed. *)
THEOREM TypeCorrect == Spec => []TypeOK
<1> QED
  BY InitIInv, Inductive, PTL DEF Spec, IInv

(* However many requests come and whenever: no client gets more of them
   through the middleware, in any window of time, than the rate allows. *)
THEOREM RateIsHeld == Spec => []RateHolds
<1>1. IInv => RateHolds
  <2> SUFFICES ASSUME IInv, Limited, NEW c \in Clients, NEW t \in 0..Horizon
               PROVE  \/ Cardinality(Admitted(c, t)) <= 1
                      \/ Cardinality(Admitted(c, t)) * 10 <= Rate
    BY DEF RateHolds
  <2>1. Cardinality(Admitted(c, t)) <= Limit
    BY DEF IInv, LimitKept, InWindow
  <2>2. Cardinality(Admitted(c, t)) \in Nat
    <3>1. Admitted(c, t) \in SUBSET Requests
      BY DEF Admitted
    <3> QED
      BY <3>1, RequestsFinite
  <2> QED
    BY <2>1, <2>2, LimitFacts, HttpAssumption
<1> QED
  BY <1>1, InitIInv, Inductive, PTL DEF Spec

(* The request counter is what the clients saw, with every interleaving of
   the loop and the worker threads. *)
THEOREM TallyIsRight == Spec => []TallyIsTruthful
<1>1. IInv => TallyIsTruthful
  BY DEF IInv
<1> QED
  BY <1>1, InitIInv, Inductive, PTL DEF Spec

(* Two services of one process are only ever built by threads that raced,
   however many threads there are. *)
THEOREM OnlyRacesBuildTwice == Spec => []OnlyRacesRebuild
<1>1. IInv => OnlyRacesRebuild
  BY DEF IInv, Overlap, OnlyRacesRebuild
<1> QED
  BY <1>1, InitIInv, Inductive, PTL DEF Spec
=============================================================================
