------------------------------- MODULE Answers_proofs -------------------------------
(***************************************************************************)
(* What holds of the answers for any events, corridors, requests, moves of *)
(* the writers and lag of the index.                                       *)
(***************************************************************************)
EXTENDS Answers, SequenceTheorems, FiniteSetTheorems, WellFoundedInduction, TLAPS

AnyState == LifecycleStates \cup {"none"}

LEMMA WhereMovesLead ==
    ASSUME NEW s \in AnyState, NEW to \in Forward[s]
    PROVE  \/ s = "none" /\ to = "reported"
           \/ s = "reported" /\ to \in {"validated", "cleared"}
           \/ s = "validated" /\ to \in {"active", "merged"}
           \/ s = "active" /\ to = "clearing"
           \/ s = "clearing" /\ to = "cleared"
<1>1. s \in LifecycleStates \cup {"none"}
  BY DEF AnyState
<1>2. Forward[s] = CASE s = "none" -> {"reported"}
                     [] s = "reported" -> {"validated", "cleared"}
                     [] s = "validated" -> {"active", "merged"}
                     [] OTHER -> IF OnLadder(s) THEN {TTL_LADDER[s]} ELSE {}
  BY <1>1 DEF Forward
<1>3. OnLadder(s) <=> s \in {"reported", "validated", "active", "clearing"}
  BY DEF OnLadder, TTL_LADDER
<1>4. TTL_LADDER["active"] = "clearing" /\ TTL_LADDER["clearing"] = "cleared"
  BY DEF TTL_LADDER
<1>5. CASE s = "none"
  BY <1>2, <1>5
<1>6. CASE s = "reported"
  BY <1>2, <1>6
<1>7. CASE s = "validated"
  BY <1>2, <1>7
<1>8. CASE s = "active"
  BY <1>2, <1>3, <1>4, <1>8
<1>9. CASE s = "clearing"
  BY <1>2, <1>3, <1>4, <1>9
<1>10. CASE s \notin {"none", "reported", "validated", "active", "clearing"}
  BY <1>2, <1>3, <1>10
<1> QED
  BY <1>5, <1>6, <1>7, <1>8, <1>9, <1>10

\* A move leads to a state, and to another one.
LEMMA MovesChangeState ==
    ASSUME NEW s \in AnyState, NEW to \in Forward[s]
    PROVE  to \in LifecycleStates /\ to # s
BY WhereMovesLead DEF LifecycleStates

\* The live states, and the publishable ones, are named in the order events move.
LEMMA LiveStates ==
    /\ LIVE_STATES \in Seq(LifecycleStates) /\ PUBLISHABLE_STATES \in Seq(LifecycleStates)
    /\ ToSet(PUBLISHABLE_STATES) = {"active", "clearing"}
    /\ InOrder(LIVE_STATES)
<1>1. LIVE_STATES \in Seq(LifecycleStates) /\ PUBLISHABLE_STATES \in Seq(LifecycleStates)
  BY DEF LIVE_STATES, PUBLISHABLE_STATES, LifecycleStates
<1>2. ToSet(PUBLISHABLE_STATES) = {"active", "clearing"}
  <2> DEFINE s == PUBLISHABLE_STATES
  <2>1. s \in Seq({"active", "clearing"}) /\ Len(s) = 2 /\ 1..2 = {1, 2}
        /\ s[1] = "active" /\ s[2] = "clearing"
    BY DEF PUBLISHABLE_STATES
  <2> HIDE DEF s
  <2>2. DOMAIN s = {1, 2}
    BY <2>1, LenProperties
  <2>3. ToSet(s) = {s[i] : i \in {1, 2}}
    BY <2>2 DEF ToSet
  <2> QED
    BY <2>1, <2>3 DEF s
<1>3. InOrder(LIVE_STATES)
  <2> DEFINE s == LIVE_STATES
  <2>1. s \in Seq(LifecycleStates) /\ Len(s) = 4 /\ 1..4 = {1, 2, 3, 4}
    BY <1>1 DEF LIVE_STATES
  <2>2. s[1] = "reported" /\ s[2] = "validated" /\ s[3] = "active" /\ s[4] = "clearing"
    BY DEF LIVE_STATES
  <2> HIDE DEF s
  <2>3. DOMAIN s = {1, 2, 3, 4}
    BY <2>1, LenProperties
  <2>4. \A k \in DOMAIN s : s[k] \in AnyState
    BY <2>1, <2>3, LenProperties DEF AnyState
  <2>5. ASSUME NEW i \in DOMAIN s, NEW k \in DOMAIN s, i < k, s[i] \in Forward[s[k]]
        PROVE  FALSE
    <3>1. \/ s[k] = "none" /\ s[i] = "reported"
          \/ s[k] = "reported" /\ s[i] \in {"validated", "cleared"}
          \/ s[k] = "validated" /\ s[i] \in {"active", "merged"}
          \/ s[k] = "active" /\ s[i] = "clearing"
          \/ s[k] = "clearing" /\ s[i] = "cleared"
      BY <2>4, <2>5, WhereMovesLead
    <3>2. i \in {1, 2, 3, 4} /\ k \in {1, 2, 3, 4}
      BY <2>3
    <3> QED
      BY <3>1, <3>2, <2>2, <2>5
  <2> QED
    BY <2>5 DEF InOrder, s
<1> QED
  BY <1>1, <1>2, <1>3

LEMMA StatesAreStates ==
    ASSUME NEW q \in Requests
    PROVE  StatesOf(q) \in Seq(LifecycleStates)
BY LiveStates, RequestsAssumption DEF StatesOf

(***************************************************************************)
(* The invariant.                                                          *)
(***************************************************************************)

Fields == {"status", "asks", "corridor", "position", "lo", "hi", "states", "pending", "passed",
           "found", "held", "answer", "count", "moves"}

InRange(id) ==
    /\ Length(EventOf[id]) <= Lookback
    /\ EventOf[id].begin <= request.hi /\ EventOf[id].end >= request.lo

\* Where an event may go from a state still to be read is read later.
Onward ==
    \A i \in DOMAIN request.pending : \A to \in ToSet(request.states) :
        to \in Forward[request.pending[i]] =>
            \E k \in DOMAIN request.pending : i < k /\ request.pending[k] = to

\* The event is in a state still to be read, and the query under way has not come by it.
ToRead(id) ==
    \E i \in DOMAIN request.pending :
        request.pending[i] = state[id] /\ (i = 1 => id \notin request.passed)

\* An event held in range was found or has still to be read.
ScanIsWhole ==
    request.lo <= request.hi /\ InOrder(request.states) =>
        /\ Onward
        /\ \A id \in request.held : InRange(id) => id \in DOMAIN request.found \/ ToRead(id)

\* The look-ahead reads the miles it will answer for.
MilesAreAsked ==
    LET q == request.asks
    IN  /\ request.position \in Int /\ DistanceOf(q) \in Int /\ DistanceOf(q) >= 0
        /\ DirectionOf(q) \in {"EB", "WB", "BOTH"}
        /\ request.lo = (IF DirectionOf(q) = "EB" THEN request.position
                         ELSE request.position - DistanceOf(q))
        /\ request.hi = (IF DirectionOf(q) = "WB" THEN request.position
                         ELSE request.position + DistanceOf(q))

FoundIsAsked ==
    /\ DOMAIN request.found \subseteq EventIds
    /\ \A id \in DOMAIN request.found : request.found[id] \in ToSet(request.states)

HeldIsAsked == \A id \in request.held : state[id] \in ToSet(request.states)

ReadingInv ==
    request.status = "reading" =>
        /\ request.asks \in Requests /\ request.lo \in Int /\ request.hi \in Int
        /\ request.states = StatesOf(request.asks)
        /\ request.pending \in Seq(LifecycleStates)
        /\ ToSet(request.pending) \subseteq ToSet(request.states)
        /\ FoundIsAsked /\ HeldIsAsked /\ ScanIsWhole
        /\ request.asks.kind = "ahead" => MilesAreAsked
        /\ request.asks.kind = "wzdx" => request.corridor \in Corridors

RInv ==
    /\ state \in [EventIds -> AnyState] /\ corridor \in Corridors \cup {None}
    /\ DOMAIN request = Fields /\ request.held \subseteq EventIds /\ ReadingInv

(***************************************************************************)
(* The greatest and the least of finitely many.                            *)
(***************************************************************************)

LEMMA GreatestKey ==
    ASSUME NEW S, IsFiniteSet(S), S # {}, NEW key, \A x \in S : key[x] \in Int
    PROVE  \E x \in S : \A y \in S : key[y] <= key[x]
<1> DEFINE Above(x) == {y \in S : key[y] > key[x]}
           Sizes == {Cardinality(Above(x)) : x \in S}
<1>1. ASSUME NEW x \in S PROVE IsFiniteSet(Above(x)) /\ Cardinality(Above(x)) \in Nat
  <2>1. Above(x) \in SUBSET S
    OBVIOUS
  <2>2. IsFiniteSet(Above(x))
    BY <2>1, FS_Subset
  <2> QED
    BY <2>2, FS_CardinalityType
<1>2. ASSUME NEW x \in S, NEW y \in Above(x)
      PROVE  y \in S /\ Cardinality(Above(y)) < Cardinality(Above(x))
  <2>1. y \in S /\ y \notin Above(y) /\ Above(y) \in SUBSET Above(x)
    OBVIOUS
  <2>2. Cardinality(Above(y)) <= Cardinality(Above(x))
    BY <2>1, <1>1, FS_Subset
  <2>3. Cardinality(Above(y)) # Cardinality(Above(x))
    BY <2>1, <1>1, FS_Subset
  <2> QED
    BY <2>1, <2>2, <2>3, <1>1
<1>3. Sizes \subseteq Nat /\ Sizes # {}
  BY <1>1
<1>4. PICK n \in Sizes : \A m \in Sizes : ~ (<<m, n>> \in OpToRel(<, Nat))
  <2> HIDE DEF Sizes
  <2> QED
    BY <1>3, NatLessThanWellFounded, WFMin
<1>5. PICK x \in S : n = Cardinality(Above(x))
  OBVIOUS
<1>6. Above(x) = {}
  <2> SUFFICES ASSUME NEW y \in Above(x) PROVE FALSE
    OBVIOUS
  <2>1. y \in S /\ Cardinality(Above(y)) < Cardinality(Above(x))
    BY <1>2
  <2>2. Cardinality(Above(y)) \in Sizes /\ Cardinality(Above(y)) \in Nat /\ n \in Nat
    BY <2>1, <1>1, <1>5
  <2> HIDE DEF Above, Sizes
  <2> QED
    BY <2>1, <2>2, <1>4, <1>5 DEF OpToRel
<1>7. \A y \in S : key[y] <= key[x]
  BY <1>6
<1> QED
  BY <1>7

LEMMA GreatestNumber ==
    ASSUME NEW S, IsFiniteSet(S), S # {}, S \subseteq Int
    PROVE  Max(S) \in S /\ \A y \in S : Max(S) >= y
<1> DEFINE key == [x \in S |-> x]
<1>1. \A x \in S : key[x] \in Int
  OBVIOUS
<1>2. \E x \in S : \A y \in S : key[y] <= key[x]
  <2> HIDE DEF key
  <2> QED
    BY <1>1, GreatestKey
<1>3. \E x \in S : \A y \in S : x >= y
  BY <1>2
<1> QED
  BY <1>3 DEF Max

LEMMA LeastNumber ==
    ASSUME NEW S, IsFiniteSet(S), S # {}, S \subseteq Int
    PROVE  Min(S) \in S /\ \A y \in S : Min(S) =< y
<1> DEFINE key == [x \in S |-> -x]
<1>1. \A x \in S : key[x] \in Int
  OBVIOUS
<1>2. \E x \in S : \A y \in S : key[y] <= key[x]
  <2> HIDE DEF key
  <2> QED
    BY <1>1, GreatestKey
<1>3. \E x \in S : \A y \in S : x =< y
  <2>1. PICK x \in S : \A y \in S : key[y] <= key[x]
    BY <1>2
  <2>2. ASSUME NEW y \in S PROVE x =< y
    <3>1. key[y] = -y /\ key[x] = -x /\ x \in Int /\ y \in Int /\ key[y] <= key[x]
      BY <2>1
    <3> QED
      BY <3>1
  <2> QED
    BY <2>2
<1> QED
  BY <1>3 DEF Min

LEMMA TheGreaterOfTwo ==
    ASSUME NEW S, S # {}, S \subseteq Int, NEW a, NEW b, S \subseteq {a, b}
    PROVE  IsFiniteSet(S) /\ Max(S) \in Int /\ Min(S) \in Int
<1>1. IsFiniteSet({} \cup {a})
  BY FS_EmptySet, FS_AddElement
<1>2. IsFiniteSet(({} \cup {a}) \cup {b})
  BY <1>1, FS_AddElement
<1>3. S \in SUBSET (({} \cup {a}) \cup {b})
  OBVIOUS
<1>4. IsFiniteSet(S)
  BY <1>2, <1>3, FS_Subset
<1> QED
  BY <1>4, GreatestNumber, LeastNumber

(***************************************************************************)
(* Each kind of step keeps the invariant.                                  *)
(***************************************************************************)

(***************************************************************************)
(* Each kind of step keeps the invariant.                                  *)
(***************************************************************************)

LEMMA FreshRequest ==
    ASSUME NEW q, NEW status
    PROVE  LET r == Asked(q, status)
           IN  /\ DOMAIN r = Fields /\ r.status = status /\ r.asks = q /\ r.found = <<>>
               /\ r.held = In(ToSet(StatesOf(q))) /\ r.states = StatesOf(q)
               /\ r.corridor = corridor /\ r.passed = {}
BY DEF Asked, Idle, Fields

LEMMA FreshScan ==
    ASSUME NEW q, NEW lo, NEW hi
    PROVE  LET r == Scan(q, lo, hi)
           IN  /\ DOMAIN r = Fields /\ r.status = "reading" /\ r.asks = q /\ r.found = <<>>
               /\ r.held = In(ToSet(StatesOf(q))) /\ r.states = StatesOf(q)
               /\ r.corridor = corridor /\ r.passed = {}
               /\ r.lo = lo /\ r.hi = hi
               /\ r.pending = (IF hi < lo THEN <<>> ELSE StatesOf(q))
BY DEF Scan, Asked, Idle, Fields

\* A request that is refused, or answered at once, reads nothing.
LEMMA AskedKeepsRInv ==
    ASSUME RInv, NEW q, NEW status, status # "reading", UNCHANGED <<state, corridor>>,
           DOMAIN request' = Fields, request'.status = status,
           request'.held = In(ToSet(StatesOf(q)))
    PROVE  RInv'
<1>1. request'.held \subseteq EventIds
  BY DEF In
<1>2. ReadingInv'
  BY DEF ReadingInv
<1> QED
  BY <1>1, <1>2 DEF RInv

\* A read that starts has found nothing yet, and has all its states to read or no range.
LEMMA ScanKeepsRInv ==
    ASSUME RInv, NEW q \in Requests, NEW lo \in Int, NEW hi \in Int,
           UNCHANGED <<state, corridor>>, DOMAIN request' = Fields, request'.status = "reading",
           request'.asks = q, request'.found = <<>>, request'.held = In(ToSet(StatesOf(q))),
           request'.states = StatesOf(q), request'.passed = {},
           request'.lo = lo, request'.hi = hi,
           request'.pending = (IF hi < lo THEN <<>> ELSE StatesOf(q)),
           q.kind = "ahead" => MilesAreAsked', q.kind = "wzdx" => request'.corridor \in Corridors
    PROVE  RInv'
<1> DEFINE states == StatesOf(q)
<1>1. states \in Seq(LifecycleStates)
  BY StatesAreStates
<1>2. request'.held \subseteq EventIds /\ HeldIsAsked'
  BY DEF In, HeldIsAsked
<1>3. FoundIsAsked'
  <2>1. DOMAIN <<>> = {}
    OBVIOUS
  <2> QED
    BY <2>1 DEF FoundIsAsked
<1>4. request'.pending \in Seq(LifecycleStates) /\ ToSet(request'.pending) \subseteq ToSet(states)
  <2>1. <<>> \in Seq(LifecycleStates) /\ DOMAIN <<>> = {}
    OBVIOUS
  <2> QED
    BY <1>1, <2>1 DEF ToSet
<1>5. ScanIsWhole'
  <2> HIDE DEF states
  <2> SUFFICES ASSUME lo <= hi, InOrder(states) PROVE ScanIsWhole'
    BY DEF ScanIsWhole, states
  <2>1. ~ (hi < lo)
    OBVIOUS
  <2>2. request'.pending = states /\ request'.states = states
    BY <2>1 DEF states
  <2>3. DOMAIN states = 1..Len(states) /\ Len(states) \in Nat
        /\ \A i \in DOMAIN states : states[i] \in LifecycleStates
    BY <1>1, LenProperties
  <2>4. Onward'
    <3> SUFFICES ASSUME NEW i \in DOMAIN states, NEW to \in ToSet(states), to \in Forward[states[i]]
                 PROVE  \E k \in DOMAIN states : i < k /\ states[k] = to
      BY <2>2 DEF Onward
    <3>1. PICK k \in DOMAIN states : states[k] = to
      BY DEF ToSet
    <3>2. k # i
      BY <3>1, <2>3, MovesChangeState DEF AnyState
    <3>3. ~ (k < i)
      BY <3>1 DEF InOrder
    <3> QED
      BY <3>1, <3>2, <3>3, <2>3
  <2>5. ASSUME NEW id \in In(ToSet(states)) PROVE ToRead(id)'
    <3>1. PICK i \in DOMAIN states : states[i] = state[id]
      BY DEF In, ToSet
    <3> QED
      BY <3>1, <2>2 DEF ToRead
  <2> QED
    BY <2>4, <2>5 DEF ScanIsWhole, states
<1>6. ReadingInv'
  BY <1>2, <1>3, <1>4, <1>5 DEF ReadingInv
<1> QED
  BY <1>2, <1>6 DEF RInv

LEMMA AheadKeepsRInv ==
    ASSUME RInv, NEW q \in Requests, q.kind = "ahead", look_ahead(q),
           UNCHANGED <<state, corridor>>
    PROVE  RInv'
<1> DEFINE direction == DirectionOf(q)
           distance  == DistanceOf(q)
           position  == PositionOf(q)
           refused   == direction = None \/ distance < 0 \/ position \in {None, NoMeasure}
           lo == IF direction = "EB" THEN position ELSE position - distance
           hi == IF direction = "WB" THEN position ELSE position + distance
<1>1. CASE refused
  <2>1. request' = Asked(q, "refused")
    BY <1>1 DEF look_ahead
  <2>2. /\ DOMAIN request' = Fields /\ request'.status = "refused"
        /\ request'.held = In(ToSet(StatesOf(q)))
    BY <2>1, FreshRequest
  <2> QED
    BY <2>2, AskedKeepsRInv
<1>2. CASE ~refused
  <2>1. request' = [Scan(q, lo, hi) EXCEPT !.position = position]
    BY <1>2 DEF look_ahead
  <2>2. /\ DOMAIN request' = Fields /\ request'.status = "reading" /\ request'.asks = q
        /\ request'.found = <<>> /\ request'.held = In(ToSet(StatesOf(q)))
        /\ request'.states = StatesOf(q) /\ request'.passed = {}
        /\ request'.lo = lo /\ request'.hi = hi /\ request'.position = position
        /\ request'.pending = (IF hi < lo THEN <<>> ELSE StatesOf(q))
    <3> DEFINE r == Scan(q, lo, hi)
    <3>1. /\ DOMAIN r = Fields /\ r.status = "reading" /\ r.asks = q /\ r.found = <<>>
          /\ r.held = In(ToSet(StatesOf(q))) /\ r.states = StatesOf(q) /\ r.passed = {}
          /\ r.lo = lo /\ r.hi = hi /\ r.pending = (IF hi < lo THEN <<>> ELSE StatesOf(q))
      BY FreshScan
    <3>2. request' = [r EXCEPT !.position = position]
      BY <2>1
    <3> HIDE DEF r, lo, hi, position
    <3> QED
      BY <3>1, <3>2 DEF Fields
  <2>3. q.position \in Numbers /\ q.distance \in Numbers /\ q.direction \in {None, "EB", "WB", "BOTH"}
        /\ (q.point # None => \A road \in Corridors :
               FromCoordinate(road, q.point).begin \in Int \cup {NoMeasure})
    BY RequestsAssumption
  <2>4. position \in Int
    <3>1. corridor \in Corridors \cup {None}
      BY DEF RInv
    <3> QED
      BY <1>2, <2>3, <3>1 DEF PositionOf, Numbers
  <2>5. distance \in Int /\ distance >= 0
    <3>1. distance \in Int
      BY <2>3, EventsAssumption DEF DistanceOf, Numbers
    <3> QED
      BY <1>2, <3>1
  <2>6. direction \in {"EB", "WB", "BOTH"}
    BY <1>2, <2>3 DEF DirectionOf
  <2>7. lo \in Int /\ hi \in Int
    BY <2>4, <2>5
  <2>8. MilesAreAsked'
    BY <2>2, <2>4, <2>5, <2>6 DEF MilesAreAsked
  <2> HIDE DEF lo, hi, direction, distance, position, refused
  <2> QED
    BY <2>2, <2>7, <2>8, ScanKeepsRInv
<1> QED
  BY <1>1, <1>2

LEMMA BoxIsNumbers ==
    ASSUME NEW q, corridor \in Corridors, BoxOf(q) # {}
    PROVE  Min(BoxOf(q)) \in Int /\ Max(BoxOf(q)) \in Int
<1> DEFINE inside == Inside(q) \cap DOMAIN corridor.ys
           key  == [i \in inside |-> corridor.ys[i]]
           down == [i \in inside |-> -corridor.ys[i]]
<1>1. inside \in SUBSET (1..Len(corridor.ys)) /\ Len(corridor.ys) \in Nat
      /\ \A i \in inside : corridor.ys[i] \in Int
  BY CorridorAssumption
<1>2. IsFiniteSet(1..Len(corridor.ys))
  BY <1>1, FS_Interval
<1>3. IsFiniteSet(inside) /\ inside # {}
  <2>1. IsFiniteSet(inside)
    BY <1>1, <1>2, FS_Subset
  <2>2. inside # {}
    BY DEF BoxOf
  <2> QED
    BY <2>1, <2>2
<1>4. BoxOf(q) = {corridor.ys[i] : i \in inside}
  BY DEF BoxOf
<1>5. PICK i \in inside : \A j \in inside : corridor.ys[j] <= corridor.ys[i]
  <2>1. \A j \in inside : key[j] \in Int /\ key[j] = corridor.ys[j]
    BY <1>1
  <2> HIDE DEF inside, key
  <2>2. \E i \in inside : \A j \in inside : key[j] <= key[i]
    BY <1>3, <2>1, GreatestKey
  <2> QED
    BY <2>1, <2>2
<1>6. PICK k \in inside : \A j \in inside : corridor.ys[k] <= corridor.ys[j]
  <2>1. \A j \in inside : down[j] \in Int /\ down[j] = -corridor.ys[j]
    BY <1>1
  <2> HIDE DEF inside, down
  <2>2. PICK k \in inside : \A j \in inside : down[j] <= down[k]
    BY <1>3, <2>1, GreatestKey
  <2>3. ASSUME NEW j \in inside PROVE corridor.ys[k] <= corridor.ys[j]
    <3>1. /\ corridor.ys[k] \in Int /\ corridor.ys[j] \in Int
          /\ down[j] = -corridor.ys[j] /\ down[k] = -corridor.ys[k] /\ down[j] <= down[k]
      BY <1>1, <2>1, <2>2
    <3> QED
      BY <3>1
  <2> QED
    BY <2>3
<1> HIDE DEF inside
<1>7. Max(BoxOf(q)) \in BoxOf(q) /\ Min(BoxOf(q)) \in BoxOf(q)
  <2>1. \E x \in BoxOf(q) : \A y \in BoxOf(q) : x >= y
    <3>1. corridor.ys[i] \in BoxOf(q) /\ \A y \in BoxOf(q) : corridor.ys[i] >= y
      BY <1>1, <1>4, <1>5
    <3> QED
      BY <3>1
  <2>2. \E x \in BoxOf(q) : \A y \in BoxOf(q) : x =< y
    <3>1. corridor.ys[k] \in BoxOf(q) /\ \A y \in BoxOf(q) : corridor.ys[k] =< y
      BY <1>1, <1>4, <1>6
    <3> QED
      BY <3>1
  <2> QED
    BY <2>1, <2>2 DEF Max, Min
<1> QED
  BY <1>1, <1>4, <1>7

LEMMA ListKeepsRInv ==
    ASSUME RInv, NEW q \in Requests, q.kind = "list", list_events(q),
           UNCHANGED <<state, corridor>>
    PROVE  RInv'
<1> DEFINE box   == IF q.bbox = None THEN {} ELSE BoxOf(q)
           lows  == ({q.begin} \ {None}) \cup (IF box = {} THEN {} ELSE {Min(box)})
           highs == ({q.end} \ {None}) \cup (IF box = {} THEN {} ELSE {Max(box)})
           lo    == IF lows = {} THEN 0 ELSE Max(lows)
           hi    == IF highs = {} THEN total_miles(corridor) ELSE Min(highs)
<1>1. ASSUME corridor # None \/ (q.bbox = None /\ q.end # None)
      PROVE  lo \in Int /\ hi \in Int
  <2>1. q.begin \in Numbers /\ q.end \in Numbers
    BY RequestsAssumption
  <2>2. corridor \in Corridors \/ (q.bbox = None /\ q.end # None)
    BY <1>1 DEF RInv
  <2>3. box # {} => Min(box) \in Int /\ Max(box) \in Int
    BY <2>2, BoxIsNumbers
  <2>4. lows \subseteq Int /\ highs \subseteq Int
    BY <2>1, <2>3 DEF Numbers
  <2>5. lows \subseteq {q.begin, Min(box)} /\ highs \subseteq {q.end, Max(box)}
    OBVIOUS
  <2>6. highs = {} => total_miles(corridor) \in Int
    BY <2>2, CorridorAssumption
  <2> HIDE DEF lows, highs, box
  <2>7. lows # {} => Max(lows) \in Int
    BY <2>4, <2>5, TheGreaterOfTwo
  <2>8. highs # {} => Min(highs) \in Int
    BY <2>4, <2>5, TheGreaterOfTwo
  <2> QED
    BY <2>6, <2>7, <2>8
<1>2. ASSUME NEW from \in Int, NEW to \in Int, request' = Scan(q, from, to)
      PROVE  RInv'
  <2>1. /\ DOMAIN request' = Fields /\ request'.status = "reading" /\ request'.asks = q
        /\ request'.found = <<>> /\ request'.held = In(ToSet(StatesOf(q)))
        /\ request'.states = StatesOf(q) /\ request'.passed = {}
        /\ request'.lo = from /\ request'.hi = to
        /\ request'.pending = (IF to < from THEN <<>> ELSE StatesOf(q))
    BY <1>2, FreshScan
  <2> QED
    BY <2>1, ScanKeepsRInv
<1>3. ASSUME NEW status, status # "reading", request' = Asked(q, status)
      PROVE  RInv'
  <2>1. /\ DOMAIN request' = Fields /\ request'.status = status
        /\ request'.held = In(ToSet(StatesOf(q)))
    BY <1>3, FreshRequest
  <2> QED
    BY <2>1, <1>3, AskedKeepsRInv
<1>4. \/ request' = Asked(q, "refused") \/ request' = Asked(q, "failed")
      \/ request' = Scan(q, 1, 0)
      \/ /\ request' = Scan(q, lo, hi)
         /\ corridor # None \/ (q.bbox = None /\ q.end # None)
  BY DEF list_events
<1> HIDE DEF lo, hi
<1>5. CASE request' = Asked(q, "refused") \/ request' = Asked(q, "failed")
  BY <1>3, <1>5
<1>6. CASE request' = Scan(q, 1, 0)
  BY <1>2, <1>6
<1>7. CASE /\ request' = Scan(q, lo, hi)
           /\ corridor # None \/ (q.bbox = None /\ q.end # None)
  BY <1>1, <1>2, <1>7
<1> QED
  BY <1>4, <1>5, <1>6, <1>7

LEMMA FeedKeepsRInv ==
    ASSUME RInv, NEW q \in Requests, q.kind = "wzdx", wzdx_feed(q), UNCHANGED <<state, corridor>>
    PROVE  RInv'
<1>1. CASE corridor # None
  <2>1. corridor \in Corridors /\ total_miles(corridor) \in Int /\ 0 \in Int
    BY <1>1, CorridorAssumption DEF RInv
  <2> DEFINE hi == total_miles(corridor)
  <2>2. request' = Scan(q, 0, hi)
    BY <1>1 DEF wzdx_feed
  <2> HIDE DEF hi
  <2>3. /\ DOMAIN request' = Fields /\ request'.status = "reading" /\ request'.asks = q
        /\ request'.found = <<>> /\ request'.held = In(ToSet(StatesOf(q)))
        /\ request'.states = StatesOf(q) /\ request'.passed = {} /\ request'.corridor = corridor
        /\ request'.lo = 0 /\ request'.hi = hi
        /\ request'.pending = (IF hi < 0 THEN <<>> ELSE StatesOf(q))
    BY <2>2, FreshScan
  <2>4. hi \in Int
    BY <2>1 DEF hi
  <2> QED
    BY <2>1, <2>3, <2>4, ScanKeepsRInv
<1>2. CASE corridor = None
  <2>1. request' = Asked(q, "failed")
    BY <1>2 DEF wzdx_feed
  <2>2. /\ DOMAIN request' = Fields /\ request'.status = "failed"
        /\ request'.held = In(ToSet(StatesOf(q)))
    BY <2>1, FreshRequest
  <2> QED
    BY <2>2, AskedKeepsRInv
<1> QED
  BY <1>1, <1>2

LEMMA AskKeepsRInv ==
    ASSUME RInv, NEW q \in Requests, Ask(q)
    PROVE  RInv'
BY AheadKeepsRInv, ListKeepsRInv, FeedKeepsRInv DEF Ask

LEMMA StripKeepsRInv ==
    ASSUME RInv, NEW reports \in Snapshots, Strip(reports)
    PROVE  RInv'
<1> DEFINE q == [kind |-> "strip", reports |-> reports]
           r == Asked(q, "answered")
           clusters == {ClusterOut(reports, c) : c \in cluster_candidates(reports)}
<1>1. request' = [r EXCEPT !.answer = clusters] /\ UNCHANGED <<state, corridor>>
  BY DEF Strip
<1>2. /\ DOMAIN r = Fields /\ r.status = "answered" /\ r.held = In(ToSet(StatesOf(q)))
  BY FreshRequest
<1> HIDE DEF q, r, clusters
<1>3. /\ DOMAIN request' = Fields /\ request'.status = "answered"
      /\ request'.held = In(ToSet(StatesOf(q)))
  BY <1>1, <1>2 DEF Fields
<1> QED
  BY <1>1, <1>3, AskedKeepsRInv

\* A move takes no event that stays held behind what is still to be read.
LEMMA MoveKeepsRInv ==
    ASSUME RInv, NEW id \in EventIds, Move(id)
    PROVE  RInv'
<1>1. PICK to \in Forward[state[id]] :
          /\ state' = [state EXCEPT ![id] = to]
          /\ request' = [request EXCEPT
                            !.moves = request.moves + 1,
                            !.held = IF to \in ToSet(request.states) THEN request.held
                                     ELSE request.held \ {id}]
  BY DEF Move
<1>2. request.status = "reading" /\ corridor' = corridor
  BY DEF Move
<1>3. state \in [EventIds -> AnyState] /\ state[id] \in AnyState
  BY DEF RInv
<1>4. to \in LifecycleStates /\ to # state[id]
  BY <1>3, MovesChangeState
<1>5. /\ DOMAIN request' = Fields /\ request'.status = request.status
      /\ request'.asks = request.asks /\ request'.lo = request.lo /\ request'.hi = request.hi
      /\ request'.states = request.states /\ request'.passed = request.passed
      /\ request'.pending = request.pending /\ request'.found = request.found
      /\ request'.corridor = request.corridor /\ request'.position = request.position
      /\ request'.held = (IF to \in ToSet(request.states) THEN request.held
                          ELSE request.held \ {id})
  BY <1>1 DEF RInv, Fields
<1>6. state' \in [EventIds -> AnyState] /\ state'[id] = to
      /\ \A other \in EventIds : other # id => state'[other] = state[other]
  BY <1>1, <1>3, <1>4 DEF AnyState
<1>7. request'.held \subseteq request.held /\ (id \in request'.held => to \in ToSet(request.states))
  BY <1>5
<1>8. /\ request.pending \in Seq(LifecycleStates) /\ FoundIsAsked /\ HeldIsAsked /\ ScanIsWhole
      /\ request.held \subseteq EventIds
  BY <1>2 DEF RInv, ReadingInv
<1>9. HeldIsAsked' /\ FoundIsAsked'
  BY <1>5, <1>6, <1>7, <1>8 DEF HeldIsAsked, FoundIsAsked
<1>10. ScanIsWhole'
  <2> SUFFICES ASSUME request.lo <= request.hi, InOrder(request.states) PROVE ScanIsWhole'
    BY <1>5 DEF ScanIsWhole
  <2>1. Onward
    BY <1>8 DEF ScanIsWhole
  <2>2. Onward'
    BY <2>1, <1>5 DEF Onward
  <2>3. ASSUME NEW other \in request'.held, InRange(other)
        PROVE  other \in DOMAIN request.found \/ ToRead(other)'
    <3>1. other \in EventIds /\ other \in request.held
      BY <1>7, <1>8
    <3>2. other \in DOMAIN request.found \/ ToRead(other)
      BY <2>3, <3>1, <1>8 DEF ScanIsWhole
    <3>3. CASE other # id
      BY <3>1, <3>2, <3>3, <1>5, <1>6 DEF ToRead
    <3>4. CASE other = id /\ ToRead(id)
      <4>1. PICK i \in DOMAIN request.pending : request.pending[i] = state[id]
        BY <3>4 DEF ToRead
      <4>2. to \in ToSet(request.states)
        BY <3>4, <1>7
      <4>3. PICK k \in DOMAIN request.pending : i < k /\ request.pending[k] = to
        BY <4>1, <4>2, <2>1 DEF Onward
      <4>4. k # 1
        <5>1. DOMAIN request.pending = 1..Len(request.pending) /\ Len(request.pending) \in Nat
          BY <1>8, LenProperties
        <5> QED
          BY <4>1, <4>3, <5>1
      <4> QED
        BY <4>3, <4>4, <3>4, <1>5, <1>6 DEF ToRead
    <3> QED
      BY <3>2, <3>3, <3>4
  <2>4. \A other : InRange(other)' <=> InRange(other)
    BY <1>5 DEF InRange
  <2> QED
    BY <2>2, <2>3, <2>4, <1>5 DEF ScanIsWhole
<1>11. MilesAreAsked => MilesAreAsked'
  BY <1>5 DEF MilesAreAsked
<1>12. ReadingInv'
  BY <1>2, <1>5, <1>8, <1>9, <1>10, <1>11 DEF RInv, ReadingInv
<1> QED
  BY <1>2, <1>5, <1>6, <1>7, <1>12 DEF RInv

\* A page loses no event that stays held: what it passes by is found, or was withheld by the
\* index, or is in a state still to be read.
LEMMA ReadKeepsRInv ==
    ASSUME RInv, ReadPage
    PROVE  RInv'
<1>1. request.status = "reading" /\ request.pending # <<>> /\ UNCHANGED <<state, lag, corridor>>
  BY DEF ReadPage
<1> DEFINE s == Head(request.pending)
<1>2. PICK page \in SUBSET Unpassed, shown \in SUBSET EventIds :
          /\ shown \subseteq page /\ \A id \in page : (id \in shown) \in Shown(id, s)
          /\ request' = [request EXCEPT
                !.pending = IF page = Unpassed THEN Tail(request.pending) ELSE request.pending,
                !.passed = IF page = Unpassed THEN {} ELSE request.passed \cup page,
                !.found = [id \in DOMAIN request.found
                                   \cup {id \in shown : EventOf[id].end >= request.lo} |->
                              IF id \in {e \in shown : EventOf[e].end >= request.lo} THEN s
                              ELSE request.found[id]],
                !.held = request.held \ {id \in page \ shown : state[id] = s /\ s \in lag[id]}]
  BY DEF ReadPage, Unpassed
<1> DEFINE hits  == {id \in shown : EventOf[id].end >= request.lo}
           found == [id \in DOMAIN request.found \cup hits |->
                        IF id \in hits THEN s ELSE request.found[id]]
           lost  == {id \in page \ shown : state[id] = s /\ s \in lag[id]}
           ends  == page = Unpassed
<1>3. page \subseteq EventIds /\ hits \subseteq EventIds /\ hits \subseteq shown
  BY <1>2 DEF Unpassed
<1>4. /\ DOMAIN found = DOMAIN request.found \cup hits
      /\ \A id \in DOMAIN found : \/ id \in hits /\ found[id] = s
                                  \/ id \in DOMAIN request.found /\ found[id] = request.found[id]
  OBVIOUS
<1>5. request' = [request EXCEPT
            !.pending = IF ends THEN Tail(request.pending) ELSE request.pending,
            !.passed = IF ends THEN {} ELSE request.passed \cup page,
            !.found = found, !.held = request.held \ lost]
  BY <1>2
<1> HIDE DEF found, ends
<1>6. /\ DOMAIN request' = Fields /\ request'.status = "reading"
      /\ request'.asks = request.asks /\ request'.lo = request.lo /\ request'.hi = request.hi
      /\ request'.states = request.states /\ request'.position = request.position
      /\ request'.corridor = request.corridor
      /\ request'.pending = (IF ends THEN Tail(request.pending) ELSE request.pending)
      /\ request'.passed = (IF ends THEN {} ELSE request.passed \cup page)
      /\ request'.found = found /\ request'.held = request.held \ lost
  <2> HIDE DEF lost, s
  <2> QED
    BY <1>1, <1>5 DEF RInv, Fields
<1>7. /\ request.asks \in Requests /\ request.lo \in Int /\ request.hi \in Int
      /\ request.states = StatesOf(request.asks)
      /\ request.pending \in Seq(LifecycleStates)
      /\ ToSet(request.pending) \subseteq ToSet(request.states)
      /\ FoundIsAsked /\ HeldIsAsked /\ ScanIsWhole /\ request.held \subseteq EventIds
      /\ request.asks.kind = "ahead" => MilesAreAsked
      /\ request.asks.kind = "wzdx" => request.corridor \in Corridors
  BY <1>1 DEF RInv, ReadingInv
<1> DEFINE n == Len(request.pending)
<1>8. /\ n \in Nat /\ n >= 1 /\ DOMAIN request.pending = 1..n /\ s = request.pending[1]
      /\ Tail(request.pending) \in Seq(LifecycleStates)
      /\ DOMAIN Tail(request.pending) = 1..(n - 1)
      /\ \A i \in 1..(n - 1) : Tail(request.pending)[i] = request.pending[i + 1]
  <2>1. n \in Nat /\ n # 0 /\ DOMAIN request.pending = 1..n
    BY <1>1, <1>7, LenProperties, EmptySeq
  <2>2. /\ Tail(request.pending) \in Seq(LifecycleStates)
        /\ Len(Tail(request.pending)) = n - 1
        /\ \A i \in 1..Len(Tail(request.pending)) :
               Tail(request.pending)[i] = request.pending[i + 1]
    BY <1>1, <1>7, HeadTailProperties
  <2>3. DOMAIN Tail(request.pending) = 1..(n - 1)
    BY <2>2, LenProperties
  <2> QED
    BY <2>1, <2>2, <2>3
<1>9. s \in ToSet(request.pending) /\ s \in ToSet(request.states)
  <2>1. 1 \in DOMAIN request.pending /\ s = request.pending[1]
    BY <1>8
  <2>2. s \in ToSet(request.pending)
    BY <2>1 DEF ToSet
  <2> QED
    BY <2>2, <1>7
<1> HIDE DEF n, s
<1>10. /\ request'.pending \in Seq(LifecycleStates)
       /\ ToSet(request'.pending) \subseteq ToSet(request.pending)
  <2>1. ToSet(Tail(request.pending)) \subseteq ToSet(request.pending)
    <3>1. ASSUME NEW i \in 1..(n - 1) PROVE i + 1 \in 1..n
      BY <1>8
    <3> QED
      BY <3>1, <1>8 DEF ToSet
  <2> QED
    BY <2>1, <1>6, <1>7, <1>8
<1>11. FoundIsAsked'
  <2> HIDE DEF hits
  <2> QED
    BY <1>3, <1>4, <1>6, <1>7, <1>9 DEF FoundIsAsked
<1>12. HeldIsAsked' /\ request'.held \subseteq request.held
  <2>1. request'.held \subseteq request.held
    BY <1>6
  <2> QED
    BY <2>1, <1>1, <1>6, <1>7 DEF HeldIsAsked
<1>13. ScanIsWhole'
  <2> SUFFICES ASSUME request.lo <= request.hi, InOrder(request.states) PROVE ScanIsWhole'
    BY <1>6 DEF ScanIsWhole
  <2>1. Onward
    BY <1>7 DEF ScanIsWhole
  <2>2. Onward'
    <3>1. CASE ~ends
      BY <3>1, <2>1, <1>6 DEF Onward
    <3>2. CASE ends
      <4>1. /\ request'.pending = Tail(request.pending) /\ request'.states = request.states
            /\ DOMAIN request'.pending = 1..(n - 1)
            /\ \A i \in 1..(n - 1) : request'.pending[i] = request.pending[i + 1]
        BY <3>2, <1>6, <1>8
      <4>2. ASSUME NEW i \in 1..(n - 1), NEW to \in ToSet(request.states),
                   to \in Forward[request'.pending[i]]
            PROVE  \E k \in 1..(n - 1) : i < k /\ request'.pending[k] = to
        <5>1. i + 1 \in DOMAIN request.pending /\ to \in Forward[request.pending[i + 1]]
          BY <4>1, <4>2, <1>8
        <5>2. PICK k \in DOMAIN request.pending : i + 1 < k /\ request.pending[k] = to
          BY <5>1, <2>1 DEF Onward
        <5>3. k - 1 \in 1..(n - 1) /\ i < k - 1 /\ (k - 1) + 1 = k
          BY <5>2, <1>8
        <5> QED
          BY <4>1, <5>2, <5>3
      <4> QED
        BY <4>1, <4>2 DEF Onward
    <3> QED
      BY <3>1, <3>2
  <2>3. ASSUME NEW id \in request'.held, InRange(id)
        PROVE  id \in DOMAIN found \/ ToRead(id)'
    <3>1. id \in request.held /\ id \notin lost /\ id \in EventIds
      BY <1>6, <1>7
    <3>2. /\ EventOf[id].end >= request.lo
          /\ request.lo - Lookback <= EventOf[id].begin /\ EventOf[id].begin <= request.hi
      <4>1. EventOf[id].begin \in Int /\ EventOf[id].end \in Int /\ Lookback \in Int
        BY <3>1, EventsAssumption
      <4>2. /\ EventOf[id].end - EventOf[id].begin <= Lookback
            /\ EventOf[id].begin <= request.hi /\ EventOf[id].end >= request.lo
        <5>1. Length(EventOf[id]) <= Lookback
              /\ EventOf[id].begin <= request.hi /\ EventOf[id].end >= request.lo
          BY <2>3 DEF InRange
        <5>2. EventOf[id].end - EventOf[id].begin <= Length(EventOf[id])
          BY <4>1 DEF Length, Greater
        <5>3. Length(EventOf[id]) \in Int
          BY <4>1 DEF Length, Greater
        <5> QED
          BY <4>1, <5>1, <5>2, <5>3
      <4> QED
        BY <4>1, <4>2, <1>7
    <3>3. id \in DOMAIN request.found \/ ToRead(id)
      BY <2>3, <3>1, <1>7 DEF ScanIsWhole
    <3>4. CASE id \in DOMAIN request.found
      BY <3>4, <1>4
    <3>5. CASE ToRead(id)
      <4>1. PICK i \in 1..n : request.pending[i] = state[id] /\ (i = 1 => id \notin request.passed)
        BY <3>5, <1>8 DEF ToRead
      <4>2. CASE i = 1 /\ id \in page
        <5>1. state[id] = s
          BY <4>1, <4>2, <1>8
        <5>2. id \in shown
          <6> SUFFICES ASSUME id \notin shown PROVE FALSE
            OBVIOUS
          <6>1. s \notin lag[id]
            BY <3>1, <4>2, <5>1
          <6>2. Shown(id, s) = {state[id] = s}
            BY <6>1 DEF Shown
          <6>3. (id \in shown) \in {state[id] = s}
            BY <6>2, <4>2, <1>2
          <6> QED
            BY <6>3, <5>1
        <5> QED
          BY <5>2, <3>2, <1>4
      <4>3. CASE i = 1 /\ id \notin page
        <5>1. id \in Unpassed
          BY <3>1, <3>2, <4>1, <4>3 DEF Unpassed
        <5>2. ~ends
          BY <4>3, <5>1 DEF ends
        <5>3. request'.pending = request.pending /\ request'.passed = request.passed \cup page
          BY <5>2, <1>6
        <5> QED
          BY <5>3, <4>1, <4>3, <1>1, <1>8 DEF ToRead
      <4>4. CASE i # 1 /\ ~ends
        <5>1. request'.pending = request.pending
          BY <4>4, <1>6
        <5> QED
          BY <5>1, <4>1, <4>4, <1>1, <1>8 DEF ToRead
      <4>5. CASE i # 1 /\ ends
        <5>1. i - 1 \in 1..(n - 1) /\ (i - 1) + 1 = i
          BY <4>5, <1>8
        <5>2. request'.pending = Tail(request.pending) /\ request'.passed = {}
          BY <4>5, <1>6
        <5>3. Tail(request.pending)[i - 1] = state'[id]
          BY <5>1, <4>1, <1>1, <1>8
        <5> QED
          BY <5>1, <5>2, <5>3, <1>8 DEF ToRead
      <4> QED
        BY <4>2, <4>3, <4>4, <4>5
    <3> QED
      BY <3>3, <3>4, <3>5
  <2>4. \A id : InRange(id)' <=> InRange(id)
    BY <1>6 DEF InRange
  <2> QED
    BY <2>2, <2>3, <2>4, <1>6 DEF ScanIsWhole
<1>14. MilesAreAsked => MilesAreAsked'
  BY <1>6 DEF MilesAreAsked
<1>15. ReadingInv'
  BY <1>6, <1>7, <1>10, <1>11, <1>12, <1>13, <1>14 DEF ReadingInv
<1> QED
  BY <1>1, <1>6, <1>7, <1>12, <1>15 DEF RInv

LEMMA AnswerKeepsRInv ==
    ASSUME RInv, Answer
    PROVE  RInv'
<1>1. PICK answer \in Replies(request.asks) :
          request' = [request EXCEPT !.status = "answered", !.answer = answer]
  BY DEF Answer
<1>2. UNCHANGED <<state, corridor>>
  BY DEF Answer
<1>3. DOMAIN request' = Fields /\ request'.status = "answered" /\ request'.held = request.held
  BY <1>1 DEF RInv, Fields
<1>4. ReadingInv'
  BY <1>3 DEF ReadingInv
<1> QED
  BY <1>2, <1>3, <1>4 DEF RInv

LEMMA InitEstablishesRInv ==
    ASSUME Init
    PROVE  RInv
<1>1. /\ request = Idle /\ corridor \in Corridors \cup {None}
      /\ state \in [EventIds -> {"none"} \cup ToSet(LIVE_STATES)]
  BY DEF Init
<1>2. {"none"} \cup ToSet(LIVE_STATES) \subseteq AnyState
  <2>1. \A i \in DOMAIN LIVE_STATES : LIVE_STATES[i] \in LifecycleStates
    BY LiveStates, LenProperties
  <2> QED
    BY <2>1 DEF AnyState, ToSet
<1>3. DOMAIN request = Fields /\ request.held = {} /\ request.status = "idle"
  BY <1>1 DEF Idle, Fields
<1>4. state \in [EventIds -> AnyState]
  BY <1>1, <1>2
<1> QED
  BY <1>1, <1>3, <1>4 DEF RInv, ReadingInv

LEMMA StepKeepsRInv ==
    ASSUME RInv, [Next]_vars
    PROVE  RInv'
<1>1. CASE UNCHANGED <<state, corridor, request>>
  BY <1>1 DEF RInv, ReadingInv, FoundIsAsked, HeldIsAsked, ScanIsWhole, Onward, ToRead,
              InRange, MilesAreAsked
<1>2. CASE CorridorComesOrGoes
  BY <1>2 DEF CorridorComesOrGoes, RInv, ReadingInv
<1>3. ASSUME NEW id \in EventIds, CatchUp(id) PROVE RInv'
  BY <1>1, <1>3 DEF CatchUp
<1> QED
  BY <1>1, <1>2, <1>3, MoveKeepsRInv, AskKeepsRInv, ReadKeepsRInv, AnswerKeepsRInv, StripKeepsRInv
     DEF Next, vars

LEMMA ReadsAreWhole == Spec => []RInv
BY InitEstablishesRInv, StepKeepsRInv, PTL DEF Spec

(***************************************************************************)
(* Nothing live is missed.                                                 *)
(***************************************************************************)

\* What an order holds is what it orders.
LEMMA OrdersHoldAll ==
    ASSUME NEW S, NEW key, NEW s \in Orders(S, key)
    PROVE  ToSet(s) = S /\ s \in [1..Cardinality(S) -> S]
BY DEF Orders

\* When everything has been read, an event held in range was found.
LEMMA AllIsFound ==
    ASSUME RInv, request.status = "reading", request.pending = <<>>,
           InOrder(request.states), request.lo <= request.hi, NEW id \in request.held, InRange(id)
    PROVE  id \in DOMAIN request.found
<1>1. ScanIsWhole
  BY DEF RInv, ReadingInv
<1>2. DOMAIN request.pending = {}
  OBVIOUS
<1> QED
  BY <1>1, <1>2 DEF ScanIsWhole, ToRead

LEMMA EventInMiles ==
    ASSUME NEW id \in EventIds, NEW lo \in Int, NEW hi \in Int, Miles(id) \cap (lo..hi) # {}
    PROVE  /\ EventOf[id].begin \in Int /\ EventOf[id].end \in Int
           /\ EventOf[id].begin <= EventOf[id].end
           /\ lo <= hi /\ EventOf[id].begin <= hi /\ EventOf[id].end >= lo
<1>1. EventOf[id].begin \in Int /\ EventOf[id].end \in Int /\ EventOf[id].begin <= EventOf[id].end
  BY EventsAssumption
<1>2. PICK m \in Int : /\ EventOf[id].begin <= m /\ m <= EventOf[id].end
                        /\ lo <= m /\ m <= hi
  BY <1>1 DEF Miles
<1> QED
  BY <1>1, <1>2

LEMMA AheadMissesNothing ==
    ASSUME RInv, request.status = "reading", request.pending = <<>>,
           request.asks.kind = "ahead", NEW answer \in Ahead(request.asks),
           NEW id \in request.held,
           Length(EventOf[id]) <= Lookback, DirectionOf(request.asks) # "BOTH",
           SameWay(EventOf[id].direction, DirectionOf(request.asks)), Sure(request.asks, id),
           OnTheWay(id, request.position, DirectionOf(request.asks), DistanceOf(request.asks))
    PROVE  id \in ToSet(answer)
<1> DEFINE q == request.asks
           direction == DirectionOf(q)
           distance == DistanceOf(q)
           ids == {e \in DOMAIN request.found :
                       is_ahead_of(EventOf[e], request.position, direction, distance) /\ Sure(q, e)}
           lo == IF direction = "WB" THEN request.position - distance ELSE request.position
           hi == IF direction = "WB" THEN request.position ELSE request.position + distance
<1>1. /\ request.position \in Int /\ distance \in Int /\ distance >= 0
      /\ direction \in {"EB", "WB"} /\ request.lo = lo /\ request.hi = hi
  BY DEF RInv, ReadingInv, MilesAreAsked
<1>2. lo \in Int /\ hi \in Int /\ Miles(id) \cap (lo..hi) # {}
  BY <1>1 DEF OnTheWay
<1>3. id \in EventIds /\ InOrder(request.states)
  <2>1. request.states = LIVE_STATES
    BY DEF RInv, ReadingInv, StatesOf
  <2> QED
    BY <2>1, LiveStates DEF RInv
<1> HIDE DEF lo, hi
<1>4. /\ EventOf[id].begin \in Int /\ EventOf[id].end \in Int
      /\ EventOf[id].begin <= EventOf[id].end
      /\ lo <= hi /\ EventOf[id].begin <= hi /\ EventOf[id].end >= lo
  BY <1>2, <1>3, EventInMiles
<1>5. id \in DOMAIN request.found
  BY <1>1, <1>3, <1>4, AllIsFound DEF InRange
<1>6. is_ahead_of(EventOf[id], request.position, direction, distance)
  <2>1. /\ Lesser(EventOf[id].begin, EventOf[id].end) = EventOf[id].begin
        /\ Greater(EventOf[id].begin, EventOf[id].end) = EventOf[id].end
    BY <1>4 DEF Lesser, Greater
  <2>2. CASE direction = "WB"
    <3>1. EventOf[id].begin <= request.position /\ EventOf[id].end >= request.position - distance
      BY <1>4, <2>2 DEF lo, hi
    <3> QED
      BY <2>1, <2>2, <3>1 DEF is_ahead_of
  <2>3. CASE direction = "EB"
    <3>1. EventOf[id].end >= request.position /\ EventOf[id].begin <= request.position + distance
      BY <1>4, <2>3 DEF lo, hi
    <3> QED
      BY <2>1, <2>3, <3>1 DEF is_ahead_of
  <2> QED
    BY <1>1, <2>2, <2>3
<1>7. id \in ids
  BY <1>5, <1>6
<1>8. answer \in Orders(ids, [e \in ids |-> DistanceTo(e, request.position, direction)])
  BY DEF Ahead
<1> HIDE DEF ids
<1> QED
  BY <1>7, <1>8, OrdersHoldAll

LEMMA ListMissesNothing ==
    ASSUME RInv, request.status = "reading", request.pending = <<>>,
           request.asks.kind = "list", NEW answer \in Listed(request.asks),
           NEW id \in request.held, InOrder(request.asks.lifecycle),
           Length(EventOf[id]) <= Lookback, Miles(id) \cap (request.lo..request.hi) # {},
           OverlapsWindow(request.asks, id), Sure(request.asks, id),
           request.asks.classes = {} \/ EventOf[id].class \in request.asks.classes,
           request.asks.states = {} \/ request.asks.states \cap EventOf[id].states # {}
    PROVE  id \in ToSet(answer.events) \/ answer.truncated
<1> DEFINE q == request.asks
           kept == {e \in DOMAIN request.found :
                       /\ q.classes = {} \/ EventOf[e].class \in q.classes
                       /\ q.states = {} \/ q.states \cap EventOf[e].states # {}
                       /\ Sure(q, e) /\ OverlapsWindow(q, e)}
           matched == Cardinality(kept)
           limit   == IF q.limit = None THEN DefaultLimit ELSE Lesser(q.limit, MaxLimit)
           cap     == Lesser(limit, matched)
<1>1. PICK order \in Orders(kept, Begins) :
          answer = [events |-> SubSeq(order, 1, cap), matched |-> matched, truncated |-> cap < matched]
  BY DEF Listed
<1>2. request.asks \in Requests /\ request.lo \in Int /\ request.hi \in Int
      /\ DOMAIN request.found \subseteq EventIds
  BY DEF RInv, ReadingInv, FoundIsAsked
<1>3. id \in EventIds /\ InOrder(request.states)
  <2>1. request.states = LIVE_STATES \/ request.states = q.lifecycle
    BY DEF RInv, ReadingInv, StatesOf
  <2> QED
    BY <2>1, LiveStates DEF RInv
<1>4. /\ EventOf[id].begin \in Int /\ EventOf[id].end \in Int
      /\ EventOf[id].begin <= EventOf[id].end
      /\ request.lo <= request.hi
      /\ EventOf[id].begin <= request.hi /\ EventOf[id].end >= request.lo
  BY <1>2, <1>3, EventInMiles
<1>5. id \in kept
  <2>1. id \in DOMAIN request.found
    BY <1>3, <1>4, AllIsFound DEF InRange
  <2> QED
    BY <2>1
<1>6. matched \in Nat
  <2>1. kept \in SUBSET EventIds
    BY <1>2
  <2>2. IsFiniteSet(kept)
    BY <2>1, EventsAssumption, FS_Subset
  <2> QED
    BY <2>2, FS_CardinalityType
<1>7. limit \in Int
  <2>1. q.limit = None \/ q.limit \in Int
    BY <1>2, RequestsAssumption DEF Numbers
  <2> QED
    BY <2>1, EventsAssumption DEF Lesser
<1> HIDE DEF limit
<1>8. cap \in Int /\ cap <= matched
  BY <1>6, <1>7 DEF Lesser
<1>9. ToSet(order) = kept /\ order \in [1..matched -> kept]
  BY <1>1, OrdersHoldAll
<1> HIDE DEF cap, matched, kept
<1>10. CASE cap < matched
  BY <1>1, <1>10
<1>11. CASE cap = matched
  <2>1. order \in Seq(kept) /\ Len(order) = matched
    BY <1>6, <1>9
  <2>2. SubSeq(order, 1, cap) = order
    BY <1>6, <1>11, <2>1
  <2> QED
    BY <1>1, <1>5, <1>9, <2>2
<1> QED
  BY <1>6, <1>8, <1>10, <1>11

LEMMA AnswerMissesNothing ==
    ASSUME RInv, Answer
    PROVE  NothingLiveIsMissed'
<1>1. PICK answer \in Replies(request.asks) :
          request' = [request EXCEPT !.status = "answered", !.answer = answer]
  BY DEF Answer
<1>2. request.status = "reading" /\ request.pending = <<>> /\ UNCHANGED <<state, lag, corridor>>
  BY DEF Answer
<1>3. /\ request'.status = "answered" /\ request'.asks = request.asks
      /\ request'.position = request.position /\ request'.answer = answer
      /\ request'.lo = request.lo /\ request'.hi = request.hi
      /\ request'.held = request.held
  BY <1>1 DEF RInv, Fields
<1>4. AheadIsWhole'
  <2> SUFFICES ASSUME NEW id \in request'.held, request.asks.kind = "ahead",
                      Length(EventOf[id]) <= Lookback, DirectionOf(request.asks) # "BOTH",
                      SameWay(EventOf[id].direction, DirectionOf(request.asks)),
                      Sure(request.asks, id),
                      OnTheWay(id, request.position, DirectionOf(request.asks),
                               DistanceOf(request.asks))
               PROVE  id \in ToSet(answer)
    BY <1>3 DEF AheadIsWhole, Answering
  <2>1. answer \in Ahead(request.asks)
    BY DEF Replies
  <2> QED
    BY <1>2, <1>3, <2>1, AheadMissesNothing
<1>5. ListIsWhole'
  <2> SUFFICES ASSUME NEW id \in request'.held, request.asks.kind = "list",
                      Length(EventOf[id]) <= Lookback, InOrder(request.asks.lifecycle),
                      Miles(id) \cap (request.lo..request.hi) # {},
                      OverlapsWindow(request.asks, id), Sure(request.asks, id),
                      request.asks.classes = {} \/ EventOf[id].class \in request.asks.classes,
                      \/ request.asks.states = {}
                      \/ request.asks.states \cap EventOf[id].states # {}
               PROVE  id \in ToSet(answer.events) \/ answer.truncated
    BY <1>3 DEF ListIsWhole, Answering
  <2>1. answer \in Listed(request.asks)
    BY DEF Replies
  <2> QED
    BY <1>2, <1>3, <2>1, ListMissesNothing
<1> QED
  BY <1>4, <1>5 DEF NothingLiveIsMissed

\* Only Answer answers what was asked of the store.
LEMMA OnlyAnswerAnswers ==
    ASSUME RInv, Next, request'.status = "answered"
    PROVE  \/ Answer \/ UNCHANGED request
           \/ request'.asks.kind = "strip" /\ \E reports \in Snapshots : Strip(reports)
<1>1. ASSUME NEW id \in EventIds, Move(id) PROVE FALSE
  <2>1. /\ request.status = "reading"
        /\ \E held : request' = [request EXCEPT !.moves = request.moves + 1, !.held = held]
    BY <1>1 DEF Move
  <2>2. request'.status = "reading"
    BY <2>1 DEF RInv, Fields
  <2> QED
    BY <2>2
<1>2. ASSUME ReadPage PROVE FALSE
  <2>1. /\ request.status = "reading"
        /\ \E pending, passed, found, held :
               request' = [request EXCEPT !.pending = pending, !.passed = passed,
                                          !.found = found, !.held = held]
    <3>1. request.status = "reading"
      BY <1>2 DEF ReadPage
    <3>2. PICK page \in SUBSET EventIds, shown \in SUBSET EventIds :
              request' = [request EXCEPT
                !.pending = IF page = Unpassed THEN Tail(request.pending) ELSE request.pending,
                !.passed = IF page = Unpassed THEN {} ELSE request.passed \cup page,
                !.found = [id \in DOMAIN request.found
                                   \cup {id \in shown : EventOf[id].end >= request.lo} |->
                              IF id \in {e \in shown : EventOf[e].end >= request.lo}
                              THEN Head(request.pending) ELSE request.found[id]],
                !.held = request.held \ {id \in page \ shown :
                             state[id] = Head(request.pending) /\ Head(request.pending) \in lag[id]}]
      BY <1>2 DEF ReadPage, Unpassed
    <3> QED
      BY <3>1, <3>2
  <2>2. request'.status = "reading"
    BY <2>1 DEF RInv, Fields
  <2> QED
    BY <2>2
<1>3. ASSUME NEW q \in Requests, Ask(q) PROVE FALSE
  <2>1. ASSUME NEW status, request' = Asked(q, status) PROVE request'.status = status
    BY <2>1, FreshRequest
  <2>2. ASSUME NEW lo, NEW hi, request' = Scan(q, lo, hi)
        PROVE  request'.status = "reading"
    BY <2>2, FreshScan
  <2>3. ASSUME NEW lo, NEW hi, NEW position,
               request' = [Scan(q, lo, hi) EXCEPT !.position = position]
        PROVE  request'.status = "reading"
    <3>1. Scan(q, lo, hi).status = "reading" /\ DOMAIN Scan(q, lo, hi) = Fields
      BY FreshScan
    <3> QED
      BY <2>3, <3>1 DEF Fields
  <2>4. CASE look_ahead(q)
    BY <2>1, <2>3, <2>4 DEF look_ahead
  <2>5. CASE list_events(q)
    BY <2>1, <2>2, <2>5 DEF list_events
  <2>6. CASE wzdx_feed(q)
    BY <2>1, <2>2, <2>6 DEF wzdx_feed
  <2> QED
    BY <1>3, <2>4, <2>5, <2>6 DEF Ask
<1>4. ASSUME NEW reports \in Snapshots, Strip(reports) PROVE request'.asks.kind = "strip"
  <2> DEFINE q == [kind |-> "strip", reports |-> reports]
             r == Asked(q, "answered")
  <2>1. \E answer : request' = [r EXCEPT !.answer = answer]
    BY <1>4 DEF Strip
  <2>2. DOMAIN r = Fields /\ r.asks = q /\ q.kind = "strip"
    BY FreshRequest
  <2> HIDE DEF q, r
  <2>3. request'.asks = q
    BY <2>1, <2>2 DEF Fields
  <2> QED
    BY <2>2, <2>3
<1>5. ASSUME CorridorComesOrGoes \/ \E id \in EventIds : CatchUp(id) PROVE UNCHANGED request
  BY <1>5 DEF CorridorComesOrGoes, CatchUp
<1> QED
  BY <1>1, <1>2, <1>3, <1>4, <1>5 DEF Next

\* An event that stays in the states and the range a reader asks for is in the answer, unless
\* the index had yet to show it where it had moved: for any events, corridors, requests and
\* lookback, whatever the writers do while the states are read one by one and page by page,
\* and however far the index lags (query.py look_ahead and list_events, eventstore.py
\* events_overlapping).
THEOREM NothingLiveIsEverMissed == Spec => []NothingLiveIsMissed
<1>1. Init => NothingLiveIsMissed
  <2> SUFFICES ASSUME Init PROVE NothingLiveIsMissed
    OBVIOUS
  <2>1. request.held = {}
    BY DEF Init, Idle
  <2> QED
    BY <2>1 DEF NothingLiveIsMissed, AheadIsWhole, ListIsWhole
<1>2. RInv /\ NothingLiveIsMissed /\ [Next]_vars => NothingLiveIsMissed'
  <2> SUFFICES ASSUME RInv, NothingLiveIsMissed, [Next]_vars PROVE NothingLiveIsMissed'
    OBVIOUS
  <2>1. CASE UNCHANGED request
    BY <2>1 DEF NothingLiveIsMissed, AheadIsWhole, ListIsWhole, Answering, OnTheWay, Sure,
                OverlapsWindow, Miles
  <2>2. CASE request'.status # "answered"
    BY <2>2 DEF NothingLiveIsMissed, AheadIsWhole, ListIsWhole, Answering
  <2>3. CASE request'.asks.kind = "strip"
    BY <2>3 DEF NothingLiveIsMissed, AheadIsWhole, ListIsWhole, Answering
  <2>4. CASE UNCHANGED vars
    BY <2>1, <2>4 DEF vars
  <2> QED
    BY <2>1, <2>2, <2>3, <2>4, OnlyAnswerAnswers, AnswerMissesNothing
<1> QED
  BY <1>1, <1>2, ReadsAreWhole, PTL DEF Spec

(***************************************************************************)
(* Every read is answered: finitely many can always be put in order.       *)
(***************************************************************************)

LEMMA AnOrderExists ==
    ASSUME NEW S, IsFiniteSet(S), NEW key, \A x \in S : key[x] \in Int
    PROVE  Orders(S, key) # {}
<1> DEFINE Unordered == {T \in SUBSET S : Orders(T, key) = {}}
           Sizes == {Cardinality(T) : T \in Unordered}
<1> SUFFICES ASSUME Orders(S, key) = {} PROVE FALSE
  OBVIOUS
<1>1. ASSUME NEW T \in SUBSET S PROVE IsFiniteSet(T) /\ Cardinality(T) \in Nat
  <2>1. IsFiniteSet(T)
    BY FS_Subset
  <2> QED
    BY <2>1, FS_CardinalityType
<1>2. Sizes \subseteq Nat /\ Sizes # {}
  BY <1>1
<1>3. PICK n \in Sizes : \A m \in Sizes : ~ (<<m, n>> \in OpToRel(<, Nat))
  <2> HIDE DEF Sizes
  <2> QED
    BY <1>2, NatLessThanWellFounded, WFMin
<1>4. PICK T \in SUBSET S : Orders(T, key) = {} /\ n = Cardinality(T)
  OBVIOUS
<1>5. n \in Nat /\ IsFiniteSet(T)
  BY <1>1, <1>4
<1>6. T # {}
  <2> SUFFICES ASSUME T = {} PROVE FALSE
    OBVIOUS
  <2>1. Cardinality(T) = 0
    BY FS_EmptySet
  <2> DEFINE s == [i \in 1..0 |-> i]
  <2>2. DOMAIN s = {} /\ 1..0 = {}
    OBVIOUS
  <2>3. s \in [1..0 -> T] /\ ToSet(s) = T
    BY <2>2 DEF ToSet
  <2>4. s \in Orders(T, key)
    BY <2>1, <2>2, <2>3 DEF Orders
  <2> QED
    BY <1>4, <2>4
<1>7. PICK x \in T : \A y \in T : key[y] <= key[x]
  BY <1>5, <1>6, GreatestKey
<1> DEFINE U == T \ {x}
<1>8. IsFiniteSet(U) /\ Cardinality(U) = n - 1 /\ U \in SUBSET S
  BY <1>4, <1>5, FS_RemoveElement
<1>9. n - 1 \in Nat /\ n - 1 < n
  BY <1>1, <1>5, <1>8
<1>10. Orders(U, key) # {}
  <2> SUFFICES ASSUME Orders(U, key) = {} PROVE FALSE
    OBVIOUS
  <2>1. n - 1 \in Sizes
    BY <1>8
  <2> HIDE DEF Sizes
  <2> QED
    BY <2>1, <1>3, <1>5, <1>9 DEF OpToRel
<1>11. PICK s \in [1..(n - 1) -> U] :
          ToSet(s) = U /\ \A i, j \in DOMAIN s : i < j => key[s[i]] <= key[s[j]]
  BY <1>8, <1>10 DEF Orders
<1> DEFINE t == [i \in 1..n |-> IF i = n THEN x ELSE s[i]]
<1>12. \A i \in 1..n : i # n => i \in 1..(n - 1)
  BY <1>5
<1>13. n \in 1..n /\ 1..(n - 1) \subseteq 1..n /\ n \notin 1..(n - 1)
  BY <1>5, <1>9
<1>14. t \in [1..n -> T] /\ DOMAIN t = 1..n /\ t[n] = x
       /\ \A i \in 1..(n - 1) : t[i] = s[i] /\ s[i] \in U
  BY <1>11, <1>12, <1>13
<1> HIDE DEF t
<1>15. ToSet(t) = T
  <2>1. \A y \in T : \E i \in 1..n : t[i] = y
    <3> TAKE y \in T
    <3>1. CASE y = x
      BY <3>1, <1>13, <1>14
    <3>2. CASE y # x
      <4>1. y \in ToSet(s)
        BY <3>2, <1>11
      <4>2. PICK i \in 1..(n - 1) : s[i] = y
        BY <4>1, <1>11 DEF ToSet
      <4> QED
        BY <4>2, <1>13, <1>14
    <3> QED
      BY <3>1, <3>2
  <2> QED
    BY <2>1, <1>14 DEF ToSet
<1>16. ASSUME NEW i \in 1..n, NEW j \in 1..n, i < j PROVE key[t[i]] <= key[t[j]]
  <2>1. i \in 1..(n - 1)
    BY <1>16, <1>5
  <2>2. CASE j = n
    <3>1. t[j] = x /\ t[i] \in T
      BY <2>2, <1>14
    <3> QED
      BY <3>1, <1>7
  <2>3. CASE j # n
    <3>1. j \in 1..(n - 1) /\ DOMAIN s = 1..(n - 1)
      BY <2>3, <1>11, <1>12
    <3> QED
      BY <3>1, <2>1, <1>16, <1>11, <1>14
  <2> QED
    BY <2>2, <2>3
<1>17. t \in Orders(T, key)
  BY <1>4, <1>14, <1>15, <1>16 DEF Orders
<1> QED
  BY <1>4, <1>17

\* Whatever was found, there is an answer to give (query.py, the sort of the look-ahead; eventstore.py, the store's own order).
ReadIsAnswerable ==
    request.status = "reading" /\ request.pending = <<>> => Replies(request.asks) # {}

LEMMA ReadsCanBeAnswered ==
    ASSUME RInv
    PROVE  ReadIsAnswerable
<1> SUFFICES ASSUME request.status = "reading", request.pending = <<>>
             PROVE  Replies(request.asks) # {}
  BY DEF ReadIsAnswerable
<1> DEFINE q == request.asks
<1>1. /\ q \in Requests /\ DOMAIN request.found \in SUBSET EventIds
      /\ q.kind = "ahead" => MilesAreAsked
  BY DEF RInv, ReadingInv, FoundIsAsked
<1>2. \A S \in SUBSET DOMAIN request.found : IsFiniteSet(S)
  BY <1>1, EventsAssumption, FS_Subset
<1>3. \A id \in EventIds : EventOf[id].begin \in Int /\ EventOf[id].end \in Int
  BY EventsAssumption
<1>4. ASSUME NEW S \in SUBSET DOMAIN request.found PROVE Orders(S, Begins) # {}
  <2>1. \A id \in S : Begins[id] \in Int
    BY <1>1, <1>3 DEF Begins
  <2> QED
    BY <1>2, <2>1, AnOrderExists
<1>5. CASE q.kind = "ahead"
  <2> DEFINE ids == {id \in DOMAIN request.found :
                        is_ahead_of(EventOf[id], request.position, DirectionOf(q), DistanceOf(q))
                        /\ Sure(q, id)}
             key == [id \in ids |-> DistanceTo(id, request.position, DirectionOf(q))]
  <2>1. request.position \in Int
    BY <1>1, <1>5 DEF MilesAreAsked
  <2>2. \A id \in ids : key[id] \in Int
    BY <1>1, <1>3, <2>1 DEF DistanceTo, Greater
  <2>3. IsFiniteSet(ids)
    BY <1>2
  <2>4. Ahead(q) = Orders(ids, key)
    BY DEF Ahead
  <2>5. Replies(q) = Ahead(q)
    BY <1>5 DEF Replies
  <2> HIDE DEF ids, key
  <2> QED
    BY <2>2, <2>3, <2>4, <2>5, AnOrderExists
<1>6. CASE q.kind = "list"
  <2> DEFINE kept == {id \in DOMAIN request.found :
                         /\ q.classes = {} \/ EventOf[id].class \in q.classes
                         /\ q.states = {} \/ q.states \cap EventOf[id].states # {}
                         /\ Sure(q, id) /\ OverlapsWindow(q, id)}
  <2>1. PICK order : order \in Orders(kept, Begins)
    <3>1. kept \in SUBSET DOMAIN request.found
      OBVIOUS
    <3> HIDE DEF kept
    <3> QED
      BY <1>4, <3>1
  <2>2. Listed(q) # {}
    BY <2>1 DEF Listed
  <2> QED
    BY <1>6, <2>2 DEF Replies
<1>7. CASE q.kind = "wzdx"
  <2>1. PICK order : order \in Orders(DOMAIN request.found, Begins)
    BY <1>4
  <2>2. Feeds # {}
    BY <2>1 DEF Feeds
  <2> QED
    BY <1>7, <2>2 DEF Replies
<1> QED
  BY <1>1, <1>5, <1>6, <1>7, RequestsAssumption

THEOREM EveryReadIsAnswerable == Spec => []ReadIsAnswerable
BY ReadsAreWhole, ReadsCanBeAnswered, PTL

(***************************************************************************)
(* The feed.                                                               *)
(***************************************************************************)

LEMMA OrdersHoldOnce ==
    ASSUME NEW S, IsFiniteSet(S), NEW key, NEW s \in Orders(S, key)
    PROVE  /\ DOMAIN s = 1..Cardinality(S) /\ \A i \in DOMAIN s : s[i] \in S
           /\ \A x \in S : \E i \in DOMAIN s : s[i] = x
           /\ \A i, j \in DOMAIN s : s[i] = s[j] => i = j
<1> DEFINE n == Cardinality(S)
<1>1. n \in Nat
  BY FS_CardinalityType
<1>2. s \in [1..n -> S] /\ ToSet(s) = S
  BY DEF Orders
<1>3. \A x \in S : \E i \in 1..n : s[i] = x
  BY <1>2 DEF ToSet
<1>4. s \in Surjection(1..n, S)
  BY <1>2, <1>3 DEF Surjection
<1>5. IsFiniteSet(1..n) /\ Cardinality(1..n) = n
  <2>1. 1 \in Int /\ n \in Int
    BY <1>1
  <2>2. IsFiniteSet(1..n) /\ Cardinality(1..n) = IF 1 > n THEN 0 ELSE n - 1 + 1
    BY <2>1, FS_Interval
  <2> QED
    BY <2>2, <1>1
<1>6. s \in Injection(1..n, S)
  BY <1>4, <1>5, FS_SurjSameCardinalityImpliesInj
<1>7. \A i, j \in 1..n : s[i] = s[j] => i = j
  BY <1>6 DEF Injection, IsInjective
<1> QED
  BY <1>2, <1>3, <1>7

\* A calibrated corridor cuts a line of its own vertices, however short the extent.
LEMMA ASliceIsALine ==
    ASSUME NEW road \in Corridors, NEW begin \in Int, NEW end \in Int,
           corridor_slice(road, begin, end) # <<>>
    PROVE  /\ corridor_slice(road, begin, end) \in Seq(Int)
           /\ Len(corridor_slice(road, begin, end)) >= 2
<1> DEFINE n     == Len(road.ys)
           below(m) == Cardinality({i \in 1..n : road.ys[i] < m})
           start == Greater(1, below(Lesser(begin, end)))
           stop  == Lesser(n, below(Greater(begin, end)) + 2)
           slice == SubSeq(road.xs, start, stop)
<1>1. n \in Nat /\ road.xs \in Seq(Int) /\ n \in {0, Len(road.xs)}
      /\ \A i \in 1..n : road.ys[i] \in Int
  BY CorridorAssumption
<1>2. n # 0 /\ corridor_slice(road, begin, end) = IF Len(slice) = 1 THEN slice \o slice ELSE slice
  BY DEF corridor_slice
<1>3. ASSUME NEW m \in Int PROVE below(m) \in Nat /\ below(m) <= n
  <2>1. {i \in 1..n : road.ys[i] < m} \in SUBSET (1..n)
    OBVIOUS
  <2>2. IsFiniteSet(1..n) /\ Cardinality(1..n) = IF 1 > n THEN 0 ELSE n - 1 + 1
    <3>1. 1 \in Int /\ n \in Int
      BY <1>1
    <3> QED
      BY <3>1, FS_Interval
  <2>3. Cardinality(1..n) = n
    BY <2>2, <1>1
  <2>4. IsFiniteSet({i \in 1..n : road.ys[i] < m})
        /\ Cardinality({i \in 1..n : road.ys[i] < m}) <= Cardinality(1..n)
    BY <2>1, <2>2, FS_Subset
  <2>5. Cardinality({i \in 1..n : road.ys[i] < m}) \in Nat
    BY <2>4, FS_CardinalityType
  <2> QED
    BY <2>3, <2>4, <2>5
<1>4. ASSUME NEW l \in Int, NEW m \in Int, l <= m PROVE below(l) <= below(m)
  <2>1. {i \in 1..n : road.ys[i] < l} \in SUBSET {i \in 1..n : road.ys[i] < m}
    BY <1>1, <1>4
  <2>2. IsFiniteSet({i \in 1..n : road.ys[i] < m})
    <3>1. IsFiniteSet(1..n)
      BY <1>1, FS_Interval
    <3> QED
      BY <3>1, FS_Subset
  <2> QED
    BY <2>1, <2>2, FS_Subset
<1>5. Lesser(begin, end) \in Int /\ Greater(begin, end) \in Int
      /\ Lesser(begin, end) <= Greater(begin, end)
  BY DEF Lesser, Greater
<1> DEFINE low == below(Lesser(begin, end))
           high == below(Greater(begin, end))
<1>6. low \in Nat /\ high \in Nat /\ low <= high /\ low <= n /\ high <= n
  BY <1>3, <1>4, <1>5
<1>7. start = Greater(1, low) /\ stop = Lesser(n, high + 2)
  OBVIOUS
<1> HIDE DEF low, high, below, start, stop
<1>8. start \in 1..n /\ stop \in 1..n /\ start <= stop
  <2> HIDE DEF n
  <2>1. n \in Nat /\ n >= 1
    BY <1>1, <1>2
  <2>2. start \in 1..n /\ (start = 1 \/ start = low)
    BY <1>6, <1>7, <2>1 DEF Greater
  <2>3. stop \in 1..n /\ (stop = n \/ stop = high + 2)
    BY <1>6, <1>7, <2>1 DEF Lesser
  <2> QED
    BY <1>6, <2>1, <2>2, <2>3
<1>9. slice \in Seq(Int) /\ Len(slice) = stop - start + 1 /\ Len(slice) >= 1
  <2>1. Len(road.xs) = n
    BY <1>1, <1>2
  <2> QED
    BY <1>1, <1>8, <2>1
<1> HIDE DEF slice
<1>10. Len(slice \o slice) = Len(slice) + Len(slice) /\ slice \o slice \in Seq(Int)
  BY <1>9
<1> QED
  BY <1>2, <1>9, <1>10

LEMMA WhatIsStored ==
    ASSUME NEW id \in EventIds
    PROVE  LET e == Stored(id)
           IN  /\ e.id = id /\ e.class = EventOf[id].class /\ e.state = request.found[id]
               /\ e.sources = EventOf[id].sources /\ e.geometry = EventOf[id].geometry
               /\ e.sources \in Seq(ToSet(e.sources)) /\ e.sources # <<>>
               /\ e.begin \in Int /\ e.end \in Int
<1> DEFINE e == EventOf[id]
<1>1. /\ {"id", "class", "state", "begin", "end", "direction", "start", "until",
           "geometry", "sources", "lanes"} \subseteq DOMAIN e
      /\ e.id = id /\ e.begin \in Int /\ e.end \in Int
      /\ e.sources \in Seq(ToSet(e.sources)) /\ e.sources # <<>>
  BY EventsAssumption
<1>2. Stored(id) = [e EXCEPT !.state = request.found[id]]
  BY DEF Stored
<1> HIDE DEF e
<1>3. /\ Stored(id).id = e.id /\ Stored(id).class = e.class /\ Stored(id).state = request.found[id]
      /\ Stored(id).sources = e.sources /\ Stored(id).geometry = e.geometry
      /\ Stored(id).begin = e.begin /\ Stored(id).end = e.end
  BY <1>1, <1>2
<1> QED
  BY <1>1, <1>3 DEF e

LEMMA SomeHaveAFirst ==
    ASSUME NEW S, NEW s \in Seq(S), s # <<>>
    PROVE  Len(s) \in Nat /\ Len(s) # 0 /\ Head(s) \in ToSet(s)
<1>1. Len(s) \in Nat /\ Len(s) # 0 /\ DOMAIN s = 1..Len(s) /\ Head(s) = s[1]
  BY LenProperties, EmptySeq
<1> QED
  BY <1>1 DEF ToSet

\* A record that can be a feature and brings no geometry has a line of the corridor's.
LEMMA FeaturesHaveALine ==
    ASSUME NEW road \in Corridors, NEW id \in EventIds,
           Unpublishable(Stored(id), road) = None, EventOf[id].geometry = None
    PROVE  Conforms(GeometryOf(Stored(id), road))
<1> DEFINE e == Stored(id)
           points == corridor_slice(road, e.begin, e.end)
<1>1. e.geometry = None /\ e.begin \in Int /\ e.end \in Int
  BY WhatIsStored
<1>2. GeometryOf(e, road) # None
  BY RequestsAssumption DEF Unpublishable
<1> HIDE DEF e
<1>3. GeometryOf(e, road) = [type |-> "LineString", points |-> points] /\ points # <<>>
  BY <1>1, <1>2 DEF GeometryOf
<1>4. points \in Seq(Int) /\ Len(points) >= 2
  BY <1>1, <1>3, ASliceIsALine
<1> HIDE DEF points
<1>5. NoMeasure \notin ToSet(points)
  <2>1. \A i \in DOMAIN points : points[i] \in Int
    BY <1>4, LenProperties
  <2> QED
    BY <2>1, RequestsAssumption DEF ToSet
<1>6. Conforms([type |-> "LineString", points |-> points])
  BY <1>4, <1>5 DEF Conforms
<1> QED
  BY <1>3, <1>6 DEF e

Ours(events) == {i \in DOMAIN events : events[i].class = "work_zone"}

Published(events, road) ==
    {i \in Ours(events) : Forbidden(events[i]) = {} /\ Unpublishable(events[i], road) = None}

\* The features are the published events, each once; the exclusions are the rest of ours.
Shows(feed, events, road) ==
    /\ \E order : /\ DOMAIN order = DOMAIN feed.features
                  /\ \A k \in DOMAIN order : order[k] \in Published(events, road)
                  /\ \A k, l \in DOMAIN order : order[k] = order[l] => k = l
                  /\ \A i \in Published(events, road) : \E k \in DOMAIN order : order[k] = i
                  /\ \A k \in DOMAIN order :
                         feed.features[k] = Feature(events[order[k]], road)
    /\ {e.id : e \in feed.excluded} = {events[i].id : i \in Ours(events) \ Published(events, road)}
    /\ \A i \in Published(events, road) : ToSet(events[i].sources) \subseteq feed.data_sources
    /\ feed.data_sources # {}

LEMMA FeedOfOneOrder ==
    ASSUME NEW n \in Nat, NEW events, NEW road, DOMAIN events = 1..n,
           \A i \in 1..n : events[i].state \in {"active", "clearing"}
    PROVE  Shows(to_wzdx_feed(events, road), events, road)
<1> DEFINE ours      == {i \in DOMAIN events : /\ events[i].class \in PUBLISHABLE_CLASSES
                                              /\ events[i].state \in ToSet(PUBLISHABLE_STATES)}
           licensed  == {i \in ours : Forbidden(events[i]) = {}}
           published == {i \in licensed : Unpublishable(events[i], road) = None}
           key       == [i \in published |-> i]
           order     == CHOOSE s \in Orders(published, key) : TRUE
           sources   == UNION {ToSet(events[i].sources) : i \in published}
           feed      == to_wzdx_feed(events, road)
<1>1. ours = Ours(events)
  <2>1. ToSet(PUBLISHABLE_STATES) = {"active", "clearing"}
    BY LiveStates
  <2>2. ASSUME NEW i \in 1..n PROVE events[i].state \in ToSet(PUBLISHABLE_STATES)
    BY <2>1
  <2> QED
    BY <2>2 DEF PUBLISHABLE_CLASSES, Ours
<1>2. feed.features = [k \in DOMAIN order |-> Feature(events[order[k]], road)]
  BY DEF to_wzdx_feed
<1>3. feed.data_sources = IF sources = {} THEN {"publisher"} ELSE sources
  BY DEF to_wzdx_feed
<1>4. feed.excluded = {Excluded(events[i], "not redistributable") : i \in ours \ licensed}
                      \cup {Excluded(events[i], Unpublishable(events[i], road)) :
                                i \in licensed \ published}
  BY DEF to_wzdx_feed
<1>5. IsFiniteSet(published) /\ \A i \in published : key[i] \in Int
  <2>1. 1 \in Int /\ n \in Int
    OBVIOUS
  <2>2. IsFiniteSet(1..n)
    BY <2>1, FS_Interval
  <2>3. published \in SUBSET (1..n)
    OBVIOUS
  <2> HIDE DEF published
  <2>4. IsFiniteSet(published)
    BY <2>2, <2>3, FS_Subset
  <2> QED
    BY <2>3, <2>4
<1>6. order \in Orders(published, key)
  <2>1. Orders(published, key) # {}
    <3> HIDE DEF published, key
    <3> QED
      BY <1>5, AnOrderExists
  <2> QED
    BY <2>1
<1>7. {e.id : e \in feed.excluded} = {events[i].id : i \in ours \ published}
  <2>1. \A e, reason : Excluded(e, reason).id = e.id
    BY DEF Excluded
  <2>2. licensed \subseteq ours /\ published \subseteq licensed
    OBVIOUS
  <2> HIDE DEF ours, licensed, published, feed
  <2>3. ASSUME NEW e \in feed.excluded PROVE e.id \in {events[i].id : i \in ours \ published}
    <3>1. PICK i \in ours \ published : \E reason : e = Excluded(events[i], reason)
      BY <1>4, <2>2
    <3>2. e.id = events[i].id
      BY <2>1, <3>1
    <3> QED
      BY <3>2
  <2>4. ASSUME NEW i \in ours \ published PROVE \E e \in feed.excluded : e.id = events[i].id
    <3>1. CASE i \in licensed
      <4>1. Excluded(events[i], Unpublishable(events[i], road)) \in feed.excluded
        BY <1>4, <2>4, <3>1
      <4> QED
        BY <4>1, <2>1, <2>4
    <3>2. CASE i \notin licensed
      <4>1. Excluded(events[i], "not redistributable") \in feed.excluded
        BY <1>4, <2>4, <3>2
      <4> QED
        BY <4>1, <2>1, <2>4
    <3> QED
      BY <3>1, <3>2
  <2> QED
    BY <2>3, <2>4
<1>8. \A i \in published : ToSet(events[i].sources) \subseteq feed.data_sources
  <2> SUFFICES ASSUME NEW i \in published, NEW s \in ToSet(events[i].sources)
               PROVE  s \in feed.data_sources
    OBVIOUS
  <2>1. s \in sources
    OBVIOUS
  <2> HIDE DEF sources, feed, published
  <2> QED
    BY <1>3, <2>1
<1>9. feed.data_sources # {}
  <2> HIDE DEF sources, feed
  <2> QED
    BY <1>3
<1> HIDE DEF order, key, feed, published
<1>10. /\ \A k \in DOMAIN order : order[k] \in published
       /\ \A i \in published : \E k \in DOMAIN order : order[k] = i
       /\ \A k, l \in DOMAIN order : order[k] = order[l] => k = l
  BY <1>5, <1>6, OrdersHoldOnce
<1>11. DOMAIN order = DOMAIN feed.features
       /\ \A k \in DOMAIN order : feed.features[k] = Feature(events[order[k]], road)
  BY <1>2
<1>12. published = Published(events, road)
  BY <1>1 DEF published, Published
<1>13. Shows(feed, events, road)
  <2>1. {e.id : e \in feed.excluded} = {events[i].id : i \in Ours(events) \ Published(events, road)}
    BY <1>1, <1>7, <1>12
  <2>2. \A i \in Published(events, road) : ToSet(events[i].sources) \subseteq feed.data_sources
    BY <1>8, <1>12
  <2>3. /\ \A k \in DOMAIN order : order[k] \in Published(events, road)
        /\ \A i \in Published(events, road) : \E k \in DOMAIN order : order[k] = i
    BY <1>10, <1>12
  <2> QED
    BY <2>1, <2>2, <2>3, <1>9, <1>10, <1>11 DEF Shows
<1> QED
  BY <1>13 DEF feed

\* The answer to a request for the feed, from the events that were found.
LEMMA FeedKeepsItsWord ==
    ASSUME RInv, request.status = "reading", request.asks.kind = "wzdx",
           NEW feed \in Feeds
    PROVE  LET shown    == {feed.features[i].id : i \in DOMAIN feed.features}
               excluded == {e.id : e \in feed.excluded}
           IN  /\ \A id \in shown : \A s \in ToSet(EventOf[id].sources) :
                      s \in DOMAIN Redistributable /\ Redistributable[s]
               /\ \A id \in DOMAIN request.found :
                      EventOf[id].class = "work_zone" =>
                          Cardinality({x \in {"feature", "exclusion"} :
                                         \/ x = "feature" /\ id \in shown
                                         \/ x = "exclusion" /\ id \in excluded}) = 1
               /\ validate_feed(feed) \subseteq {"dates", "order", "geometry"}
               /\ \A i \in DOMAIN feed.features :
                      "geometry" \in FeatureProblems(feed.features[i], feed.data_sources) =>
                          EventOf[feed.features[i].id].geometry # None
<1> DEFINE road == request.corridor
            ids == DOMAIN request.found
           n == Cardinality(ids)
           shown    == {feed.features[i].id : i \in DOMAIN feed.features}
           excluded == {e.id : e \in feed.excluded}
<1>1. /\ ids \in SUBSET EventIds /\ road \in Corridors
      /\ \A id \in ids : request.found[id] \in {"active", "clearing"}
  <2>1. FoundIsAsked /\ road \in Corridors /\ request.states = PUBLISHABLE_STATES
    BY DEF RInv, ReadingInv, StatesOf
  <2> QED
    BY <2>1, LiveStates DEF FoundIsAsked
<1>2. IsFiniteSet(ids) /\ n \in Nat
  <2>1. IsFiniteSet(ids)
    BY <1>1, EventsAssumption, FS_Subset
  <2> QED
    BY <2>1, FS_CardinalityType
<1>3. PICK place \in Orders(ids, Begins) :
          feed = to_wzdx_feed([i \in DOMAIN place |-> Stored(place[i])], road)
  BY DEF Feeds
<1> HIDE DEF road
<1>4. /\ DOMAIN place = 1..n /\ \A i \in DOMAIN place : place[i] \in ids
      /\ \A id \in ids : \E i \in DOMAIN place : place[i] = id
      /\ \A i, j \in DOMAIN place : place[i] = place[j] => i = j
  BY <1>2, OrdersHoldOnce
<1> DEFINE events == [i \in DOMAIN place |-> Stored(place[i])]
<1>5. /\ DOMAIN events = 1..n
      /\ \A i \in 1..n : /\ events[i] = Stored(place[i]) /\ place[i] \in EventIds
                          /\ events[i].id = place[i] /\ events[i].class = EventOf[place[i]].class
                          /\ events[i].state \in {"active", "clearing"}
                          /\ events[i].sources = EventOf[place[i]].sources
  <2>1. DOMAIN events = 1..n /\ \A i \in 1..n : events[i] = Stored(place[i])
    BY <1>4
  <2>2. \A i \in 1..n : place[i] \in ids /\ place[i] \in EventIds
    BY <1>1, <1>4
  <2> HIDE DEF events
  <2> QED
    BY <1>1, <2>1, <2>2, WhatIsStored
<1>6. feed = to_wzdx_feed(events, road)
  BY <1>3
<1> HIDE DEF events
<1>7. Shows(feed, events, road)
  BY <1>2, <1>5, <1>6, FeedOfOneOrder
<1> DEFINE ours == Ours(events)
           published == Published(events, road)
<1>8. PICK order : /\ DOMAIN order = DOMAIN feed.features
                   /\ \A k \in DOMAIN order : order[k] \in published
                   /\ \A k, l \in DOMAIN order : order[k] = order[l] => k = l
                   /\ \A i \in published : \E k \in DOMAIN order : order[k] = i
                   /\ \A k \in DOMAIN order :
                          feed.features[k] = Feature(events[order[k]], road)
  BY <1>7 DEF Shows
<1>9. ASSUME NEW i \in published
      PROVE  /\ i \in 1..n /\ i \in ours /\ Forbidden(events[i]) = {}
             /\ Unpublishable(events[i], road) = None
             /\ ToSet(events[i].sources) \subseteq feed.data_sources
  BY <1>5, <1>7 DEF Ours, Published, Shows
<1>10. ours \subseteq 1..n /\ \A i \in 1..n : EventOf[place[i]].class = "work_zone" => i \in ours
  BY <1>5 DEF Ours
<1>11. excluded = {events[i].id : i \in ours \ published} /\ feed.data_sources # {}
  BY <1>7 DEF Shows
<1> HIDE DEF published, ours
<1>12. ASSUME NEW k \in DOMAIN feed.features
       PROVE  /\ order[k] \in published /\ order[k] \in 1..n
              /\ feed.features[k].id = place[order[k]]
              /\ feed.features[k].geometry = GeometryOf(Stored(place[order[k]]), road)
              /\ feed.features[k].data_source_id =
                    (IF EventOf[place[order[k]]].sources = <<>> THEN "unknown"
                     ELSE Head(EventOf[place[order[k]]].sources))
  <2>1. order[k] \in published /\ order[k] \in 1..n
    BY <1>8, <1>9
  <2>2. feed.features[k] = Feature(events[order[k]], road)
    BY <1>8
  <2> QED
    BY <2>1, <2>2, <1>5 DEF Feature
<1>13. shown = {place[i] : i \in published}
  <2>1. \A k \in DOMAIN feed.features : \E i \in published : feed.features[k].id = place[i]
    BY <1>12
  <2>2. \A i \in published : \E k \in DOMAIN feed.features : feed.features[k].id = place[i]
    BY <1>8, <1>12
  <2> QED
    BY <2>1, <2>2
<1>14. excluded = {place[i] : i \in ours \ published}
  <2>1. \A i \in ours \ published : events[i].id = place[i]
    BY <1>5, <1>10
  <2> HIDE DEF excluded
  <2> QED
    BY <1>11, <2>1
<1> HIDE DEF shown, excluded
<1>15. ASSUME NEW id \in shown, NEW s \in ToSet(EventOf[id].sources)
       PROVE  s \in DOMAIN Redistributable /\ Redistributable[s]
  <2>1. PICK i \in published : id = place[i]
    BY <1>13
  <2>2. Forbidden(events[i]) = {} /\ s \in ToSet(events[i].sources)
    BY <2>1, <1>5, <1>9
  <2> QED
    BY <2>2 DEF Forbidden, may_republish
<1>16. ASSUME NEW id \in ids, EventOf[id].class = "work_zone"
       PROVE  Cardinality({x \in {"feature", "exclusion"} :
                             \/ x = "feature" /\ id \in shown
                             \/ x = "exclusion" /\ id \in excluded}) = 1
  <2> DEFINE told == {x \in {"feature", "exclusion"} :
                        \/ x = "feature" /\ id \in shown
                        \/ x = "exclusion" /\ id \in excluded}
  <2>1. PICK i \in 1..n : place[i] = id
    BY <1>4
  <2>2. i \in ours
    BY <1>10, <1>16, <2>1
  <2>3. \A j \in 1..n : place[j] = id => j = i
    BY <1>4, <2>1
  <2>4. CASE i \in published
    <3>1. id \in shown /\ id \notin excluded
      BY <1>10, <1>13, <1>14, <2>1, <2>3, <2>4
    <3>2. told = {"feature"}
      BY <3>1
    <3> QED
      BY <3>2, FS_Singleton
  <2>5. CASE i \notin published
    <3>1. id \notin shown /\ id \in excluded
      BY <1>9, <1>13, <1>14, <2>1, <2>2, <2>3, <2>5
    <3>2. told = {"exclusion"}
      BY <3>1
    <3> QED
      BY <3>2, FS_Singleton
  <2> QED
    BY <2>4, <2>5
<1>17. ASSUME NEW k \in DOMAIN feed.features
       PROVE  LET p == FeatureProblems(feed.features[k], feed.data_sources)
              IN  /\ p \subseteq {"dates", "order", "geometry"}
                  /\ "geometry" \in p => EventOf[feed.features[k].id].geometry # None
  <2> DEFINE id == place[order[k]]
  <2>1. order[k] \in published /\ order[k] \in 1..n /\ id \in EventIds
    BY <1>5, <1>12
  <2>2. EventOf[id].geometry = None => Conforms(feed.features[k].geometry)
    <3>1. Unpublishable(Stored(id), road) = None
      BY <2>1, <1>5, <1>9
    <3>2. feed.features[k].geometry = GeometryOf(Stored(id), road)
      BY <1>12
    <3> QED
      BY <1>1, <2>1, <3>1, <3>2, FeaturesHaveALine
  <2>3. feed.features[k].data_source_id \in feed.data_sources
    <3>1. EventOf[id].sources \in Seq(ToSet(EventOf[id].sources)) /\ EventOf[id].sources # <<>>
      BY <2>1, EventsAssumption
    <3>2. Head(EventOf[id].sources) \in ToSet(EventOf[id].sources)
      BY <3>1, SomeHaveAFirst
    <3>3. ToSet(EventOf[id].sources) \subseteq feed.data_sources
      BY <2>1, <1>5, <1>9
    <3> QED
      BY <3>1, <3>2, <3>3, <1>12
  <2>4. feed.features[k].id = id
    BY <1>12
  <2> HIDE DEF id
  <2> QED
    BY <2>2, <2>3, <2>4 DEF FeatureProblems
<1>18. validate_feed(feed) \subseteq {"dates", "order", "geometry"}
  <2>1. \A k, l \in DOMAIN feed.features :
            k # l => feed.features[k].id # feed.features[l].id
    BY <1>4, <1>8, <1>12
  <2> DEFINE problems(k) == FeatureProblems(feed.features[k], feed.data_sources)
  <2>2. validate_feed(feed) = UNION {problems(k) : k \in DOMAIN feed.features}
    <3>1. ~ \E k, l \in DOMAIN feed.features : k # l /\ feed.features[k].id = feed.features[l].id
      BY <2>1
    <3> QED
      BY <1>11, <3>1 DEF validate_feed
  <2>3. \A k \in DOMAIN feed.features : problems(k) \subseteq {"dates", "order", "geometry"}
    BY <1>17
  <2> HIDE DEF problems
  <2> QED
    BY <2>2, <2>3
<1> QED
  BY <1>15, <1>16, <1>17, <1>18 DEF shown, excluded

\* The feed answers for every publishable work zone it read, breaks no licence, and passes its
\* own conformance check but for what an event says of its dates and lanes and for a geometry
\* it brought along: for any events, corridors and catalog (wzdx.py to_wzdx_feed and
\* validate_feed, query.py wzdx_feed).
THEOREM FeedIsAlwaysLicensedAndWhole == Spec => []FeedIsLicensedAndWhole
<1>1. Init => FeedIsLicensedAndWhole
  BY DEF Init, Idle, FeedIsLicensedAndWhole, Answering
<1>2. RInv /\ FeedIsLicensedAndWhole /\ [Next]_vars => FeedIsLicensedAndWhole'
  <2> SUFFICES ASSUME RInv, FeedIsLicensedAndWhole, [Next]_vars PROVE FeedIsLicensedAndWhole'
    OBVIOUS
  <2>1. CASE UNCHANGED request
    BY <2>1 DEF FeedIsLicensedAndWhole, Answering
  <2>2. CASE request'.status # "answered" \/ request'.asks.kind = "strip"
    BY <2>2 DEF FeedIsLicensedAndWhole, Answering
  <2>3. CASE Answer
    <3>1. PICK answer \in Replies(request.asks) :
              request' = [request EXCEPT !.status = "answered", !.answer = answer]
      BY <2>3 DEF Answer
    <3>2. request.status = "reading"
      BY <2>3 DEF Answer
    <3>3. /\ request'.asks = request.asks /\ request'.answer = answer
          /\ request'.found = request.found
      BY <3>1 DEF RInv, Fields
    <3>4. request.asks.kind = "wzdx" => answer \in Feeds
      BY DEF Replies
    <3> QED
      BY <3>2, <3>3, <3>4, FeedKeepsItsWord DEF FeedIsLicensedAndWhole, Answering
  <2>4. CASE UNCHANGED vars
    BY <2>1, <2>4 DEF vars
  <2> QED

    BY <2>1, <2>2, <2>3, <2>4, OnlyAnswerAnswers
<1> QED
  BY <1>1, <1>2, ReadsAreWhole, PTL DEF Spec

(***************************************************************************)
(* The strip's scores.                                                     *)
(***************************************************************************)

LEMMA HalvedFalls ==
    /\ Len(Halved) = 14 /\ \A i \in 1..14 : Halved[i] \in Nat
    /\ \A i, j \in 1..14 : i <= j => Halved[j] <= Halved[i]
<1>1. /\ Len(Halved) = 14
      /\ Halved[1] = 10000 /\ Halved[2] = 5000 /\ Halved[3] = 2500 /\ Halved[4] = 1250
      /\ Halved[5] = 625 /\ Halved[6] = 312 /\ Halved[7] = 156 /\ Halved[8] = 78
      /\ Halved[9] = 39 /\ Halved[10] = 19 /\ Halved[11] = 9 /\ Halved[12] = 4
      /\ Halved[13] = 2 /\ Halved[14] = 1
  BY DEF Halved, Whole
<1>2. \A i \in 1..14 : i \in {1, 2, 3, 4, 5, 6, 7, 8, 9, 10, 11, 12, 13, 14}
  OBVIOUS
<1>3. \A i \in 1..14 : Halved[i] \in Nat
  BY <1>1, <1>2
<1>4. \A i \in 1..13 : Halved[i + 1] <= Halved[i]
  BY <1>1
<1>5. \A i, j \in 1..14 : i <= j => Halved[j] <= Halved[i]
  BY <1>1, <1>2
<1> QED
  BY <1>1, <1>3, <1>5

LEMMA SharesGrow ==
    ASSUME NEW a \in Nat, NEW b \in Nat, NEW h \in Nat \ {0}, a <= b
    PROVE  a \div h \in Nat /\ b \div h \in Nat /\ a \div h <= b \div h
OBVIOUS

\* The fresher the confirmation, the more it counts.
LEMMA FresherCountsMore ==
    ASSUME NEW c \in Int, NEW d \in Int, c <= d, NEW class, HalfLife[class] \in Nat \ {0}
    PROVE  /\ score_recency(c, class, Now) \in Nat /\ score_recency(d, class, Now) \in Nat
           /\ score_recency(c, class, Now) <= score_recency(d, class, Now)
<1> DEFINE old == Greater(0, Now - c)
           new == Greater(0, Now - d)
           h == HalfLife[class]
<1>1. Now \in Int /\ c # None /\ d # None
  BY ReportsAssumption, RequestsAssumption
<1>2. old \in Nat /\ new \in Nat /\ new <= old
  BY <1>1 DEF Greater
<1> HIDE DEF old, new
<1>3. old \div h \in Nat /\ new \div h \in Nat /\ new \div h <= old \div h
  BY <1>2, SharesGrow
<1> DEFINE lives == old \div h
           fewer == new \div h
<1>4. /\ score_recency(c, class, Now) = (IF lives >= 14 THEN 0 ELSE Halved[lives + 1])
      /\ score_recency(d, class, Now) = (IF fewer >= 14 THEN 0 ELSE Halved[fewer + 1])
  BY <1>1, HalvedFalls DEF score_recency, old, new
<1> HIDE DEF lives, fewer
<1>5. CASE lives >= 14
  <2>1. fewer < 14 => fewer + 1 \in 1..14
    BY <1>3 DEF fewer
  <2>2. score_recency(d, class, Now) \in Nat /\ score_recency(c, class, Now) = 0
    BY <1>4, <1>5, <2>1, <1>3, HalvedFalls DEF fewer
  <2> QED
    BY <2>2
<1>6. CASE ~(lives >= 14)
  <2>1. lives + 1 \in 1..14 /\ fewer + 1 \in 1..14 /\ fewer + 1 <= lives + 1 /\ ~(fewer >= 14)
    BY <1>3, <1>6 DEF lives, fewer
  <2> QED
    BY <1>4, <1>6, <2>1, HalvedFalls
<1> QED
  BY <1>5, <1>6

LEMMA PriorsAreNumbers == \A s : Prior(s) \in Nat
BY ReportsAssumption DEF Prior, DEFAULT_RELIABILITY

LEMMA TheBestSourceSpeaks ==
    ASSUME NEW S, IsFiniteSet(S), S # {}
    PROVE  /\ score_source_reliability(S) \in Nat
           /\ \A s \in S : Prior(s) <= score_source_reliability(S)
           /\ \E s \in S : Prior(s) = score_source_reliability(S)
<1> DEFINE key == [s \in S |-> Prior(s)]
           all == {0} \cup {Prior(s) : s \in S}
<1>1. \A s \in S : key[s] \in Int /\ key[s] = Prior(s)
  BY PriorsAreNumbers
<1>2. PICK best \in S : \A s \in S : Prior(s) <= Prior(best)
  <2> HIDE DEF key
  <2>1. \E best \in S : \A s \in S : key[s] <= key[best]
    BY <1>1, GreatestKey
  <2> QED
    BY <1>1, <2>1
<1>3. Prior(best) \in all /\ \A x \in all : Prior(best) >= x
  BY <1>2, PriorsAreNumbers
<1>4. all \subseteq Nat
  BY PriorsAreNumbers
<1>5. Max(all) \in all /\ \A x \in all : Max(all) >= x
  <2> HIDE DEF all
  <2>1. \E x \in all : \A y \in all : x >= y
    BY <1>3
  <2> QED
    BY <2>1 DEF Max
<1>6. Max(all) = Prior(best)
  <2>1. Max(all) \in Nat /\ Prior(best) \in Nat
    BY <1>4, <1>5, PriorsAreNumbers
  <2>2. Max(all) >= Prior(best) /\ Prior(best) >= Max(all)
    BY <1>3, <1>5
  <2> QED
    BY <2>1, <2>2
<1>7. score_source_reliability(S) = Max(all)
  BY DEF score_source_reliability
<1> QED
  BY <1>2, <1>6, <1>7, PriorsAreNumbers

LEMMA OneSourceSpeaks ==
    ASSUME NEW s
    PROVE  score_source_reliability({s}) = Prior(s) /\ score_corroboration({s}) = 5000
<1>1. IsFiniteSet({s}) /\ {s} # {}
  BY FS_Singleton
<1>2. score_source_reliability({s}) = Prior(s)
  BY <1>1, TheBestSourceSpeaks
<1>3. {GroupOf[x.source] : x \in {s}} = {GroupOf[s.source]}
  OBVIOUS
<1>4. Cardinality({GroupOf[x.source] : x \in {s}}) = 1
  BY <1>3, FS_Singleton
<1>5. score_corroboration({s}) = 5000
  BY <1>4 DEF score_corroboration
<1> QED
  BY <1>2, <1>5

\* Another witness never counts against an event, and of one group all are one.
LEMMA WitnessesAdd ==
    ASSUME NEW S, IsFiniteSet(S), S # {}
    PROVE  /\ score_corroboration(S) \in Nat /\ score_corroboration(S) >= 5000
           /\ \A g : (\A s \in S : GroupOf[s.source] = g) => score_corroboration(S) = 5000
<1> DEFINE groups == {GroupOf[s.source] : s \in S}
           f == [s \in S |-> GroupOf[s.source]]
<1>1. f \in Surjection(S, groups)
  BY DEF Surjection
<1>2. IsFiniteSet(groups)
  <2> HIDE DEF f, groups
  <2> QED
    BY <1>1, FS_Surjection
<1>3. groups # {}
  OBVIOUS
<1>4. score_corroboration(S) = LET n == Cardinality(groups)
                               IN  CASE n = 0 -> 0
                                     [] n = 1 -> 5000
                                     [] n = 2 -> 8500
                                     [] OTHER -> Whole
  BY DEF score_corroboration
<1>5. ASSUME NEW g, \A s \in S : GroupOf[s.source] = g PROVE groups = {g}
  BY <1>5
<1> HIDE DEF groups
<1>6. Cardinality(groups) \in Nat /\ Cardinality(groups) # 0
  BY <1>2, <1>3, FS_CardinalityType, FS_EmptySet
<1>7. score_corroboration(S) \in Nat /\ score_corroboration(S) >= 5000
  BY <1>4, <1>6 DEF Whole
<1>8. ASSUME NEW g, \A s \in S : GroupOf[s.source] = g PROVE score_corroboration(S) = 5000
  <2>1. Cardinality(groups) = 1
    BY <1>5, <1>8, FS_Singleton
  <2> QED
    BY <1>4, <2>1
<1> QED
  BY <1>7, <1>8

\* What a report says for itself is a number.
LEMMA OwnScoresAreNumbers ==
    ASSUME NEW r, r.accuracy \in Nat \cup {None}
    PROVE  /\ score_spatial_precision(r) \in Int /\ score_completeness(r) \in Int
           /\ score_internal_consistency(r, 0) \in Int
<1>1. score_spatial_precision(r) \in Int
  <2> DEFINE base == PRECISION_BY_METHOD(r.method)
  <2>1. base \in Int
    BY DEF PRECISION_BY_METHOD, Whole
  <2> HIDE DEF base
  <2>2. ASSUME r.accuracy \in Nat PROVE
          Greater(0, base - Lesser(4000, Greater(0, 2 * (r.accuracy - 500)))) \in Int
    <3>1. Greater(0, 2 * (r.accuracy - 500)) \in Int
      BY <2>2 DEF Greater
    <3>2. Lesser(4000, Greater(0, 2 * (r.accuracy - 500))) \in Int
      BY <3>1 DEF Lesser
    <3> QED
      BY <2>1, <3>2 DEF Greater
  <2>3. score_spatial_precision(r) =
            IF r.accuracy = None THEN base
            ELSE Greater(0, base - Lesser(4000, Greater(0, 2 * (r.accuracy - 500))))
    BY DEF score_spatial_precision, base
  <2> QED
    BY <2>1, <2>2, <2>3
<1>2. score_completeness(r) \in Int
  <2> DEFINE required == REQUIRED_FIELDS(r.class)
             present  == {f \in required :
                            \/ f = "extent" /\ r.begin # NoMeasure
                            \/ f = "start_time" /\ r.start # None
                            \/ f = "lane_impacts" /\ r.lanes # {}
                            \/ f = "event_subtype" /\ r.subtype \notin {None, "advisory"}}
  <2>1. required \subseteq {"extent", "start_time", "lane_impacts", "event_subtype"}
        /\ "extent" \in required
    BY DEF REQUIRED_FIELDS
  <2>2. IsFiniteSet({"extent", "start_time", "lane_impacts", "event_subtype"})
    <3>1. IsFiniteSet({} \cup {"extent"})
      BY FS_EmptySet, FS_AddElement
    <3>2. IsFiniteSet({} \cup {"extent"} \cup {"start_time"})
      BY <3>1, FS_AddElement
    <3>3. IsFiniteSet({} \cup {"extent"} \cup {"start_time"} \cup {"lane_impacts"})
      BY <3>2, FS_AddElement
    <3>4. IsFiniteSet({} \cup {"extent"} \cup {"start_time"} \cup {"lane_impacts"}
                      \cup {"event_subtype"})
      BY <3>3, FS_AddElement
    <3>5. {} \cup {"extent"} \cup {"start_time"} \cup {"lane_impacts"} \cup {"event_subtype"}
          = {"extent", "start_time", "lane_impacts", "event_subtype"}
      OBVIOUS
    <3> QED
      BY <3>4, <3>5
  <2>3. score_completeness(r) = (Cardinality(present) * Whole) \div Cardinality(required)
    BY DEF score_completeness
  <2>4. present \in SUBSET required
    OBVIOUS
  <2> HIDE DEF required, present
  <2>5. IsFiniteSet(required) /\ IsFiniteSet(present)
    <3>1. IsFiniteSet(required)
      BY <2>1, <2>2, FS_Subset
    <3> QED
      BY <3>1, <2>4, FS_Subset
  <2>6. Cardinality(required) \in Nat /\ Cardinality(required) # 0 /\ Cardinality(present) \in Nat
    BY <2>1, <2>5, FS_CardinalityType, FS_EmptySet
  <2> QED
    BY <2>3, <2>6 DEF Whole
<1>3. score_internal_consistency(r, 0) \in Int
  BY DEF score_internal_consistency, Greater, Lesser, Whole
<1> QED
  BY <1>1, <1>2, <1>3

LEMMA TheFreshestCounts ==
    ASSUME NEW S, IsFiniteSet(S), S # {}, \A s \in S : Confirmed(s) \in Int
    PROVE  LET newest == Max({Confirmed(s) : s \in S})
           IN  newest \in Int /\ (\A s \in S : Confirmed(s) <= newest)
               /\ \E s \in S : Confirmed(s) = newest
<1> DEFINE key == [s \in S |-> Confirmed(s)]
           all == {Confirmed(s) : s \in S}
<1>1. PICK best \in S : \A s \in S : Confirmed(s) <= Confirmed(best)
  <2>1. \A s \in S : key[s] \in Int /\ key[s] = Confirmed(s)
    OBVIOUS
  <2> HIDE DEF key
  <2>2. \E best \in S : \A s \in S : key[s] <= key[best]
    BY <2>1, GreatestKey
  <2> QED
    BY <2>1, <2>2
<1>2. Confirmed(best) \in all /\ \A x \in all : Confirmed(best) >= x
  BY <1>1
<1>3. Max(all) \in all /\ \A x \in all : Max(all) >= x
  <2> HIDE DEF all
  <2>1. \E x \in all : \A y \in all : x >= y
    BY <1>2
  <2> QED
    BY <2>1 DEF Max
<1> QED
  BY <1>3

\* The report that speaks for an event, and the sources the event rests on.
LEMMA AWitnessNeverHurts ==
    ASSUME NEW r, NEW S, IsFiniteSet(S), SourceRef(r) \in S,
           \A s \in S : Confirmed(s) \in Int, r.accuracy \in Nat \cup {None},
           HalfLife[r.class] \in Nat \ {0}
    PROVE  LET scored == score_confidence(r, S, Max({Confirmed(s) : s \in S}), Now)
           IN  /\ scored >= Alone(r)
               /\ (\A s \in S : /\ GroupOf[s.source] = GroupOf[r.source]
                                 /\ Prior(s) <= Prior(SourceRef(r))
                                 /\ Confirmed(s) <= Confirmed(SourceRef(r)))
                     => scored = Alone(r)
<1> DEFINE own == SourceRef(r)
           newest == Max({Confirmed(s) : s \in S})
           rel == score_source_reliability(S)
           cor == score_corroboration(S)
           rec == score_recency(newest, r.class, Now)
           was == score_recency(Confirmed(own), r.class, Now)
           sp == score_spatial_precision(r)
           com == score_completeness(r)
           con == score_internal_consistency(r, 0)
<1>1. /\ score_confidence(r, S, newest, Now)
            = (25 * rel + 20 * cor + 20 * rec + 15 * sp + 10 * com + 10 * con) \div 100
      /\ Alone(r) = (25 * Prior(own) + 20 * 5000 + 20 * was + 15 * sp + 10 * com + 10 * con) \div 100
  BY OneSourceSpeaks DEF score_confidence, Alone
<1>2. /\ rel \in Nat /\ Prior(own) \in Nat /\ Prior(own) <= rel
      /\ \E s \in S : Prior(s) = rel
  BY TheBestSourceSpeaks, PriorsAreNumbers
<1>3. cor \in Nat /\ cor >= 5000
      /\ \A g : (\A s \in S : GroupOf[s.source] = g) => cor = 5000
  BY WitnessesAdd
<1>4. /\ newest \in Int /\ Confirmed(own) \in Int /\ Confirmed(own) <= newest
      /\ \E s \in S : Confirmed(s) = newest
  BY TheFreshestCounts
<1>5. was \in Nat /\ rec \in Nat /\ was <= rec
  <2> HIDE DEF newest, own
  <2> QED
    BY <1>4, FresherCountsMore
<1>6. sp \in Int /\ com \in Int /\ con \in Int
  BY OwnScoresAreNumbers
<1>7. ASSUME \A s \in S : /\ GroupOf[s.source] = GroupOf[r.source]
                           /\ Prior(s) <= Prior(own) /\ Confirmed(s) <= Confirmed(own)
      PROVE  rel = Prior(own) /\ cor = 5000 /\ rec = was
  <2>1. cor = 5000
    BY <1>3, <1>7
  <2>2. rel <= Prior(own) /\ newest <= Confirmed(own)
    BY <1>2, <1>4, <1>7
  <2> DEFINE before == Confirmed(own)
  <2>3. newest = before /\ rel = Prior(own)
    <3> HIDE DEF newest, before, rel
    <3> QED
      BY <1>2, <1>4, <2>2 DEF before
  <2> QED
    BY <2>1, <2>3
<1> DEFINE scored == score_confidence(r, S, newest, Now)
           alone == Alone(r)
           prior == Prior(own)
<1> HIDE DEF rel, cor, rec, was, sp, com, con, scored, alone, prior
<1>8. /\ scored = (25 * rel + 20 * cor + 20 * rec + 15 * sp + 10 * com + 10 * con) \div 100
      /\ alone = (25 * prior + 20 * 5000 + 20 * was + 15 * sp + 10 * com + 10 * con) \div 100
      /\ prior \in Nat /\ prior <= rel
  BY <1>1, <1>2 DEF scored, alone, prior
<1>9. scored >= alone
  BY <1>2, <1>3, <1>5, <1>6, <1>8
<1>10. rel = prior /\ cor = 5000 /\ rec = was => scored = alone
  BY <1>8
<1> QED
  BY <1>7, <1>9, <1>10 DEF scored, alone, prior

\* Clusters are of the reports, and none is empty.
LEMMA ClustersAreOfReports ==
    ASSUME NEW reports, NEW c \in cluster_candidates(reports)
    PROVE  c.members \subseteq DOMAIN reports /\ c.members # {}
<1> DEFINE root == Roots(Down(reports)[Len(reports)])
           cluster(r) ==
               [members |-> {i \in DOMAIN reports : root[i] = r},
                joins   |-> {p \in Pairs(reports, "merge") : root[p[1]] = r},
                reviews |-> {p \in Pairs(reports, "review") : r \in {root[p[1]], root[p[2]]}}]
<1>1. cluster_candidates(reports) = {cluster(r) : r \in {root[i] : i \in DOMAIN reports}}
  BY DEF cluster_candidates
<1>2. \A r : cluster(r).members = {i \in DOMAIN reports : root[i] = r}
  OBVIOUS
<1> HIDE DEF root, cluster
<1>3. PICK r \in {root[i] : i \in DOMAIN reports} : c = cluster(r)
  BY <1>1
<1>4. c.members = {i \in DOMAIN reports : root[i] = r}
  BY <1>2, <1>3
<1> QED
  BY <1>4

LEMMA StripAddsWitnesses ==
    ASSUME NEW reports \in Snapshots, NEW cluster \in cluster_candidates(reports)
    PROVE  LET c == ClusterOut(reports, cluster)
               own == reports[Min(c.members)]
           IN  /\ c.confidence >= Alone(own)
               /\ (\A i \in c.members :
                      /\ GroupOf[reports[i].source] = GroupOf[own.source]
                      /\ score_source_reliability({SourceRef(reports[i])})
                            <= score_source_reliability({SourceRef(own)})
                      /\ Confirmed(SourceRef(reports[i])) <= Confirmed(SourceRef(own)))
                     => c.confidence = Alone(own)
<1> DEFINE members == cluster.members
           own == reports[Min(members)]
           S == {SourceRef(reports[i]) : i \in members}
           f == [i \in members |-> SourceRef(reports[i])]
<1>1. members \subseteq 1..Len(reports) /\ members # {} /\ Len(reports) \in Nat
      /\ DOMAIN reports = 1..Len(reports)
  BY ClustersAreOfReports, ReportsAssumption
<1>2. IsFiniteSet(members)
  <2>1. IsFiniteSet(1..Len(reports))
    BY <1>1, FS_Interval
  <2>2. members \in SUBSET (1..Len(reports))
    BY <1>1
  <2> QED
    BY <2>1, <2>2, FS_Subset
<1>3. Min(members) \in members
  <2>1. members \subseteq Int
    BY <1>1
  <2> QED
    BY <1>1, <1>2, <2>1, LeastNumber
<1>4. IsFiniteSet(S) /\ SourceRef(own) \in S
  <2>1. f \in Surjection(members, S)
    BY DEF Surjection
  <2>2. IsFiniteSet(S)
    <3> HIDE DEF f, S, members
    <3> QED
      BY <1>2, <2>1, FS_Surjection
  <2> QED
    BY <1>3, <2>2
<1>5. ASSUME NEW i \in members
      PROVE  /\ Confirmed(SourceRef(reports[i])) \in Int
             /\ SourceRef(reports[i]).source = reports[i].source
             /\ reports[i].accuracy \in Nat \cup {None} /\ HalfLife[reports[i].class] \in Nat \ {0}
  <2>1. /\ reports[i].fetched \in Int /\ reports[i].said \in Int \cup {None}
        /\ reports[i].accuracy \in Nat \cup {None} /\ HalfLife[reports[i].class] \in Nat \ {0}
    BY <1>1, ReportsAssumption
  <2> QED
    BY <2>1 DEF Confirmed, SourceRef
<1>6. \A s \in S : Confirmed(s) \in Int
  BY <1>5
<1>7. own.accuracy \in Nat \cup {None} /\ HalfLife[own.class] \in Nat \ {0}
  BY <1>3, <1>5
<1> DEFINE scored == score_confidence(own, S, Max({Confirmed(s) : s \in S}), Now)
<1>8. /\ ClusterOut(reports, cluster).members = members
      /\ ClusterOut(reports, cluster).confidence = scored
  BY DEF ClusterOut
<1>9. /\ scored >= Alone(own)
      /\ (\A s \in S : /\ GroupOf[s.source] = GroupOf[own.source]
                        /\ Prior(s) <= Prior(SourceRef(own))
                        /\ Confirmed(s) <= Confirmed(SourceRef(own)))
            => scored = Alone(own)
  <2> HIDE DEF S, own
  <2> QED
    BY <1>4, <1>6, <1>7, AWitnessNeverHurts
<1> HIDE DEF scored
<1>10. ASSUME \A i \in members :
                /\ GroupOf[reports[i].source] = GroupOf[own.source]
                /\ score_source_reliability({SourceRef(reports[i])})
                      <= score_source_reliability({SourceRef(own)})
                /\ Confirmed(SourceRef(reports[i])) <= Confirmed(SourceRef(own))
       PROVE  scored = Alone(own)
  <2>1. \A s : score_source_reliability({s}) = Prior(s)
    BY OneSourceSpeaks
  <2>2. ASSUME NEW i \in members
        PROVE  LET s == SourceRef(reports[i])
               IN  /\ GroupOf[s.source] = GroupOf[own.source]
                   /\ Prior(s) <= Prior(SourceRef(own))
                   /\ Confirmed(s) <= Confirmed(SourceRef(own))
    <3> DEFINE s == SourceRef(reports[i])
               o == SourceRef(own)
    <3>1. /\ GroupOf[reports[i].source] = GroupOf[own.source]
          /\ score_source_reliability({s}) <= score_source_reliability({o})
          /\ Confirmed(s) <= Confirmed(o) /\ s.source = reports[i].source
      BY <1>5, <1>10
    <3>2. score_source_reliability({s}) = Prior(s) /\ score_source_reliability({o}) = Prior(o)
      BY <2>1
    <3> HIDE DEF s, o
    <3>3. /\ GroupOf[s.source] = GroupOf[own.source] /\ Prior(s) <= Prior(o)
          /\ Confirmed(s) <= Confirmed(o)
      BY <3>1, <3>2
    <3> QED
      BY <3>3 DEF s, o
  <2>3. \A s \in S : /\ GroupOf[s.source] = GroupOf[own.source]
                     /\ Prior(s) <= Prior(SourceRef(own))
                     /\ Confirmed(s) <= Confirmed(SourceRef(own))
    BY <2>2
  <2> QED
    BY <1>9, <2>3
<1> QED
  BY <1>8, <1>9, <1>10

\* A source of the same group, no more reliable and no fresher, adds nothing, and no witness
\* takes anything away: for any reports and any catalog (confidence.py, strip_export.py).
THEOREM OnlyIndependentWitnessesEverAdd == Spec => []OnlyIndependentWitnessesAdd
<1>1. Init => OnlyIndependentWitnessesAdd
  BY DEF Init, Idle, OnlyIndependentWitnessesAdd, Answering
<1>2. RInv /\ OnlyIndependentWitnessesAdd /\ [Next]_vars => OnlyIndependentWitnessesAdd'
  <2> SUFFICES ASSUME RInv, OnlyIndependentWitnessesAdd, [Next]_vars
               PROVE  OnlyIndependentWitnessesAdd'
    OBVIOUS
  <2>1. CASE UNCHANGED request
    BY <2>1 DEF OnlyIndependentWitnessesAdd, Answering
  <2>2. CASE request'.status # "answered"
    BY <2>2 DEF OnlyIndependentWitnessesAdd, Answering
  <2>3. CASE Answer
    <3>1. request.asks \in Requests /\ request'.asks = request.asks
      BY <2>3 DEF Answer, RInv, ReadingInv, Fields
    <3>2. request'.asks.kind # "strip"
      BY <3>1, RequestsAssumption
    <3> QED
      BY <3>2 DEF OnlyIndependentWitnessesAdd, Answering
  <2>4. ASSUME NEW reports \in Snapshots, Strip(reports) PROVE OnlyIndependentWitnessesAdd'
    <3> DEFINE q == [kind |-> "strip", reports |-> reports]
               r == Asked(q, "answered")
               clusters == {ClusterOut(reports, c) : c \in cluster_candidates(reports)}
    <3>1. request' = [r EXCEPT !.answer = clusters]
      BY <2>4 DEF Strip
    <3>2. DOMAIN r = Fields /\ r.asks = q /\ q.reports = reports
      BY FreshRequest
    <3> HIDE DEF q, r, clusters
    <3>3. request'.asks.reports = reports /\ request'.answer = clusters
      BY <3>1, <3>2 DEF Fields
    <3>4. ASSUME NEW c \in clusters
          PROVE  LET own == reports[Min(c.members)]
                 IN  /\ c.confidence >= Alone(own)
                     /\ (\A i \in c.members :
                            /\ GroupOf[reports[i].source] = GroupOf[own.source]
                            /\ score_source_reliability({SourceRef(reports[i])})
                                  <= score_source_reliability({SourceRef(own)})
                            /\ Confirmed(SourceRef(reports[i])) <= Confirmed(SourceRef(own)))
                           => c.confidence = Alone(own)
      BY StripAddsWitnesses DEF clusters
    <3> QED
      BY <3>3, <3>4 DEF OnlyIndependentWitnessesAdd
  <2> QED
    BY <2>1, <2>2, <2>3, <2>4, OnlyAnswerAnswers DEF vars
<1> QED
  BY <1>1, <1>2, ReadsAreWhole, PTL DEF Spec

(***************************************************************************)
(* Clusters.  The parents the two loops leave are a forest, whose roots    *)
(* are what the recursive function computes, and whose trees are joined    *)
(* by merges and by nothing else.                                          *)
(***************************************************************************)

\* r gives every node its root, and every node is further from it than its parent is.
RootsOf(p, r, rank) ==
    /\ p \in [DOMAIN p -> DOMAIN p] /\ r \in [DOMAIN p -> DOMAIN p] /\ rank \in [DOMAIN p -> Nat]
    /\ \A j \in DOMAIN p : /\ r[j] = IF p[j] = j THEN j ELSE r[p[j]]
                           /\ p[r[j]] = r[j]
                           /\ p[j] # j => rank[p[j]] < rank[j]

LEMMA TheRootsAreFound ==
    ASSUME NEW p, NEW r, NEW rank, RootsOf(p, r, rank)
    PROVE  Roots(p) = r
<1> DEFINE D == DOMAIN p
           f == Roots(p)
<1>1. r = [j \in D |-> IF p[j] = j THEN j ELSE r[p[j]]]
  BY DEF RootsOf
<1>2. f = [j \in D |-> IF p[j] = j THEN j ELSE f[p[j]]]
  BY <1>1 DEF Roots
<1>3. p \in [D -> D] /\ r \in [D -> D] /\ rank \in [D -> Nat]
      /\ \A j \in D : p[j] # j => rank[p[j]] < rank[j]
  BY DEF RootsOf
<1> HIDE DEF D, f
<1> DEFINE wrong == {j \in D : f[j] # r[j]}
           ranks == {rank[j] : j \in wrong}
<1>4. wrong = {}
  <2> SUFFICES ASSUME wrong # {} PROVE FALSE
    OBVIOUS
  <2>1. ranks \subseteq Nat /\ ranks # {}
    BY <1>3
  <2>2. PICK n \in ranks : \A m \in ranks : ~ (<<m, n>> \in OpToRel(<, Nat))
    <3> HIDE DEF ranks
    <3> QED
      BY <2>1, NatLessThanWellFounded, WFMin
  <2>3. PICK j \in wrong : n = rank[j]
    OBVIOUS
  <2>4. f[j] # r[j] /\ j \in D
    OBVIOUS
  <2>5. p[j] # j /\ f[p[j]] # r[p[j]] /\ p[j] \in D
    BY <1>1, <1>2, <1>3, <2>4
  <2>6. rank[p[j]] \in ranks /\ rank[p[j]] < n /\ rank[p[j]] \in Nat /\ n \in Nat
    BY <1>3, <2>3, <2>4, <2>5
  <2> QED
    BY <2>2, <2>6 DEF OpToRel
<1>5. \A j \in D : f[j] = r[j]
  BY <1>4
<1>6. f = r
  BY <1>1, <1>2, <1>3, <1>5
<1> QED
  BY <1>6 DEF f

\* S has both sides of every merge of M or neither.
Closed(S, M) == \A e \in M : e[1] \in S <=> e[2] \in S

\* The trees of p join what the merges M join, and no more.
JoinedBy(p, r, M) ==
    /\ \A e \in M : r[e[1]] = r[e[2]]
    /\ \A S \in SUBSET DOMAIN p : Closed(S, M) =>
           \A i, j \in DOMAIN p : r[i] = r[j] => (i \in S <=> j \in S)

Joins(D, p, M) ==
    /\ p \in [D -> D]
    /\ \E r, rank : RootsOf(p, r, rank) /\ JoinedBy(p, r, M)

LEMMA UnionJoins ==
    ASSUME NEW D, NEW p, NEW M \in SUBSET (D \X D), Joins(D, p, M), NEW i \in D, NEW j \in D
    PROVE  Joins(D, union(p, i, j), M \cup {<<i, j>>})
<1>1. PICK r, rank : RootsOf(p, r, rank) /\ JoinedBy(p, r, M)
  BY DEF Joins
<1>2. p \in [D -> D] /\ DOMAIN p = D
  BY DEF Joins
<1>3. find(p, i) = r[i] /\ find(p, j) = r[j]
  BY <1>1, TheRootsAreFound DEF find
<1> DEFINE N == M \cup {<<i, j>>}
           ri == r[i]
           rj == r[j]
           q == [p EXCEPT ![rj] = ri]
<1>4. union(p, i, j) = q
  BY <1>3 DEF union
<1>5. /\ r \in [D -> D] /\ rank \in [D -> Nat]
      /\ \A k \in D : /\ r[k] = IF p[k] = k THEN k ELSE r[p[k]]
                      /\ p[r[k]] = r[k]
                      /\ p[k] # k => rank[p[k]] < rank[k]
  BY <1>1, <1>2 DEF RootsOf
<1>6. ri \in D /\ rj \in D /\ p[ri] = ri /\ p[rj] = rj /\ r[ri] = ri /\ r[rj] = rj
  BY <1>5
<1>7. /\ \A e \in M : r[e[1]] = r[e[2]] /\ e[1] \in D /\ e[2] \in D
      /\ \A S \in SUBSET D : Closed(S, M) =>
             \A x, y \in D : r[x] = r[y] => (x \in S <=> y \in S)
  BY <1>1, <1>2 DEF JoinedBy
<1>8. ASSUME NEW S \in SUBSET D, Closed(S, N) PROVE Closed(S, M) /\ (i \in S <=> j \in S)
  <2>1. \A e \in N : e[1] \in S <=> e[2] \in S
    BY <1>8 DEF Closed
  <2>2. <<i, j>> \in N /\ M \subseteq N
    OBVIOUS
  <2>3. <<i, j>>[1] \in S <=> <<i, j>>[2] \in S
    BY <2>1, <2>2
  <2> HIDE DEF N
  <2> QED
    BY <2>1, <2>2, <2>3 DEF Closed
<1>9. CASE ri = rj
  <2>1. q = p
    BY <1>2, <1>6, <1>9
  <2>2. \A e \in N : r[e[1]] = r[e[2]]
    BY <1>7, <1>9
  <2> HIDE DEF N
  <2>3. JoinedBy(p, r, N)
    BY <1>2, <1>7, <1>8, <2>2 DEF JoinedBy
  <2>4. RootsOf(p, r, rank) /\ JoinedBy(p, r, N)
    BY <1>1, <2>3
  <2>5. Joins(D, p, N)
    BY <1>2, <2>4 DEF Joins
  <2> QED
    BY <1>4, <2>1, <2>5 DEF N
<1>10. CASE ri # rj
  <2> DEFINE s == [k \in D |-> IF r[k] = rj THEN ri ELSE r[k]]
             far == [k \in D |-> IF r[k] = rj THEN rank[k] + rank[ri] + 1 ELSE rank[k]]
  <2>1. q \in [D -> D] /\ DOMAIN q = D /\ q[rj] = ri /\ \A k \in D : k # rj => q[k] = p[k]
    BY <1>2, <1>6
  <2>2. s \in [D -> D] /\ \A k \in D : s[k] = IF r[k] = rj THEN ri ELSE r[k]
    BY <1>5, <1>6
  <2>3. /\ far \in [D -> Nat]
        /\ \A k \in D : far[k] = IF r[k] = rj THEN rank[k] + rank[ri] + 1 ELSE rank[k]
    BY <1>5, <1>6
  <2> HIDE DEF q, s, far, N, ri, rj
  <2>4. ASSUME NEW k \in D
        PROVE  /\ s[k] = IF q[k] = k THEN k ELSE s[q[k]]
               /\ q[s[k]] = s[k]
               /\ q[k] # k => far[q[k]] < far[k]
    <3>1. q[s[k]] = s[k]
      BY <1>5, <1>6, <1>10, <2>1, <2>2
    <3>2. CASE k = rj
      <4>1. q[k] = ri /\ ri # k /\ s[k] = ri /\ s[ri] = ri
        BY <1>6, <1>10, <2>1, <2>2, <3>2
      <4>2. rank[k] \in Nat /\ rank[ri] \in Nat /\ far[k] = rank[k] + rank[ri] + 1 /\ far[ri] = rank[ri]
        BY <1>5, <1>6, <1>10, <2>3, <3>2
      <4> QED
        BY <3>1, <4>1, <4>2
    <3>3. CASE k # rj /\ p[k] = k
      <4>1. q[k] = k /\ r[k] = k /\ s[k] = k
        BY <1>5, <2>1, <2>2, <3>3
      <4> QED
        BY <3>1, <4>1
    <3>4. CASE k # rj /\ p[k] # k
      <4>1. q[k] = p[k] /\ p[k] \in D /\ r[k] = r[p[k]] /\ rank[p[k]] < rank[k]
        BY <1>2, <1>5, <2>1, <3>4
      <4>2. rank[k] \in Nat /\ rank[p[k]] \in Nat /\ rank[ri] \in Nat
        BY <1>5, <1>6, <4>1
      <4>3. s[k] = s[p[k]]
        BY <2>2, <4>1
      <4>4. far[p[k]] < far[k]
        BY <2>3, <4>1, <4>2
      <4> QED
        BY <3>1, <3>4, <4>1, <4>3, <4>4
    <3> QED
      BY <3>2, <3>3, <3>4
  <2>5. RootsOf(q, s, far)
    BY <2>1, <2>2, <2>3, <2>4 DEF RootsOf
  <2>6. ASSUME NEW e \in N PROVE s[e[1]] = s[e[2]]
    <3>1. CASE e \in M
      BY <1>7, <2>2, <3>1
    <3>2. CASE e = <<i, j>>
      <4>1. s[i] = ri /\ s[j] = ri
        BY <1>10, <2>2 DEF ri, rj
      <4> QED
        BY <3>2, <4>1
    <3> QED
      BY <3>1, <3>2 DEF N
  <2>7. ASSUME NEW S \in SUBSET D, Closed(S, N), NEW x \in D, NEW y \in D, s[x] = s[y]
        PROVE  x \in S <=> y \in S
    <3>1. Closed(S, M) /\ (i \in S <=> j \in S)
      BY <1>8, <2>7
    <3>2. \A u, v \in D : r[u] = r[v] => (u \in S <=> v \in S)
      BY <1>7, <3>1
    <3>3. CASE r[x] = r[y]
      BY <3>2, <3>3
    <3>4. CASE r[x] = rj /\ r[y] = ri
      <4>1. (x \in S <=> j \in S) /\ (y \in S <=> i \in S)
        BY <3>2, <3>4 DEF ri, rj
      <4> QED
        BY <3>1, <4>1
    <3>5. CASE r[x] = ri /\ r[y] = rj
      <4>1. (x \in S <=> i \in S) /\ (y \in S <=> j \in S)
        BY <3>2, <3>5 DEF ri, rj
      <4> QED
        BY <3>1, <4>1
    <3> QED
      BY <2>2, <2>7, <3>3, <3>4, <3>5
  <2>8. JoinedBy(q, s, N)
    BY <2>1, <2>6, <2>7 DEF JoinedBy
  <2>9. Joins(D, q, N)
    BY <2>1, <2>5, <2>8 DEF Joins
  <2> QED
    BY <1>4, <2>9 DEF N
<1> QED
  BY <1>9, <1>10

Loop(N, start, step, g) ==
    g = [k \in 0..N |-> IF k = 0 THEN start ELSE step[<<g[k - 1], k>>]]

\* A loop of N steps runs to its end: what its body keeps, from good[k - 1] to good[k],
\* holds after each of them.
LEMMA LoopsRun ==
    ASSUME NEW X, NEW N \in Nat, NEW start, NEW step, NEW good \in [0..N -> SUBSET X],
           start \in good[0],
           \A k \in 1..N : \A x \in good[k - 1] : step[<<x, k>>] \in good[k]
    PROVE  \E g : Loop(N, start, step, g) /\ \A k \in 0..N : g[k] \in good[k]
<1> DEFINE Runs(n, g) == /\ g \in [0..n -> X] /\ g[0] = start
                         /\ \A k \in 1..n : g[k] = step[<<g[k - 1], k>>]
                         /\ \A k \in 0..n : g[k] \in good[k]
           stuck == {n \in 0..N : ~ \E g : Runs(n, g)}
<1>1. Runs(0, [k \in 0..0 |-> start])
  OBVIOUS
<1>2. ASSUME NEW n \in 1..N, NEW g, Runs(n - 1, g) PROVE \E h : Runs(n, h)
  <2>1. n \in Nat /\ n - 1 \in 0..(n - 1) /\ n # 0 /\ n \in 0..N /\ n - 1 \in Nat
    OBVIOUS
  <2> DEFINE last == step[<<g[n - 1], n>>]
             h == [k \in 0..n |-> IF k = n THEN last ELSE g[k]]
  <2>2. last \in good[n] /\ good[n] \subseteq X
    BY <1>2, <2>1
  <2> HIDE DEF last
  <2>3. \A k \in 0..n : k # n => k \in 0..(n - 1) /\ h[k] = g[k]
    BY <2>1
  <2>4. h[n] = last
    BY <2>1
  <2>5. h \in [0..n -> X]
    BY <1>2, <2>2, <2>3
  <2>6. h[0] = start /\ \A k \in 0..n : h[k] \in good[k]
    BY <1>2, <2>1, <2>2, <2>3, <2>4
  <2>7. ASSUME NEW k \in 1..n PROVE h[k] = step[<<h[k - 1], k>>]
    <3>1. k - 1 \in 0..n /\ k - 1 # n /\ h[k - 1] = g[k - 1]
      BY <2>1, <2>3
    <3>2. CASE k = n
      BY <2>4, <3>1, <3>2 DEF last
    <3>3. CASE k # n
      <4>1. k \in 1..(n - 1) /\ h[k] = g[k]
        BY <2>1, <2>3, <3>3
      <4> QED
        BY <1>2, <3>1, <4>1
    <3> QED
      BY <3>2, <3>3
  <2> HIDE DEF h
  <2> QED
    BY <2>5, <2>6, <2>7
<1>3. stuck = {}
  <2> SUFFICES ASSUME stuck # {} PROVE FALSE
    OBVIOUS
  <2>1. PICK n \in stuck : \A m \in stuck : ~ (<<m, n>> \in OpToRel(<, Nat))
    <3>1. stuck \subseteq Nat
      OBVIOUS
    <3> HIDE DEF stuck
    <3> QED
      BY <3>1, NatLessThanWellFounded, WFMin
  <2>2. n \in 0..N /\ ~ \E g : Runs(n, g)
    OBVIOUS
  <2> HIDE DEF Runs
  <2>3. n # 0
    BY <1>1, <2>2
  <2>4. n \in 1..N /\ n - 1 \in 0..N /\ n - 1 < n /\ n - 1 \in Nat /\ n \in Nat
    BY <2>2, <2>3
  <2>5. n - 1 \notin stuck
    BY <2>1, <2>4 DEF OpToRel
  <2>6. PICK g : Runs(n - 1, g)
    BY <2>4, <2>5
  <2> QED
    BY <1>2, <2>2, <2>4, <2>6
<1>4. PICK g : Runs(N, g)
  <2> HIDE DEF Runs
  <2>1. N \in 0..N
    OBVIOUS
  <2>2. ~ (N \in stuck)
    BY <1>3, Zenon
  <2> QED
    BY <2>1, <2>2
<1>5. \A k \in 0..N : g[k] = IF k = 0 THEN start ELSE step[<<g[k - 1], k>>]
  BY <1>4
<1>6. g = [k \in 0..N |-> IF k = 0 THEN start ELSE step[<<g[k - 1], k>>]]
  <2>1. g \in [0..N -> X]
    BY <1>4
  <2> QED
    BY <1>5, <2>1
<1> QED
  BY <1>4, <1>6 DEF Loop

LEMMA LoopsKeep ==
    ASSUME NEW N \in Nat, NEW good, NEW f, f[0] \in good[0],
           \A k \in 1..N : f[k - 1] \in good[k - 1] => f[k] \in good[k]
    PROVE  \A k \in 0..N : f[k] \in good[k]
<1> DEFINE wrong == {k \in 0..N : f[k] \notin good[k]}
<1> SUFFICES ASSUME wrong # {} PROVE FALSE
  OBVIOUS
<1>1. PICK n \in wrong : \A m \in wrong : ~ (<<m, n>> \in OpToRel(<, Nat))
  <2>1. wrong \subseteq Nat
    OBVIOUS
  <2> HIDE DEF wrong
  <2> QED
    BY <2>1, NatLessThanWellFounded, WFMin
<1>2. n \in 0..N /\ f[n] \notin good[n]
  OBVIOUS
<1>3. n \in 1..N /\ n - 1 \in 0..N /\ n - 1 < n /\ n - 1 \in Nat /\ n \in Nat
  BY <1>2
<1>4. f[n - 1] \in good[n - 1]
  BY <1>1, <1>3 DEF OpToRel
<1> QED
  BY <1>2, <1>3, <1>4

LEMMA VisitJoins ==
    ASSUME NEW reports, NEW D, D = DOMAIN reports, NEW p, NEW M \in SUBSET (D \X D),
           Joins(D, p, M), NEW i \in D, NEW j \in D
    PROVE  Joins(D, Visited(reports, p, i, j), M \cup ({<<i, j>>} \cap Pairs(reports, "merge")))
<1> DEFINE merges == Pairs(reports, "merge")
<1> HIDE DEF merges
<1>1. CASE <<i, j>> \in merges
  <2>1. M \cup ({<<i, j>>} \cap merges) = M \cup {<<i, j>>}
    BY <1>1
  <2>2. Visited(reports, p, i, j) = union(p, i, j)
    BY <1>1 DEF Visited, merges
  <2> QED
    BY <2>1, <2>2, UnionJoins DEF merges
<1>2. CASE <<i, j>> \notin merges
  <2>1. M \cup ({<<i, j>>} \cap merges) = M
    BY <1>2
  <2>2. Visited(reports, p, i, j) = p
    BY <1>2 DEF Visited, merges
  <2> QED
    BY <2>1, <2>2 DEF merges
<1> QED
  BY <1>1, <1>2

MergesOf(reports, i, j) == {e \in Pairs(reports, "merge") : e[1] = i /\ e[2] <= j}

\* The inner loop adds the merges of i.
LEMMA AcrossJoins ==
    ASSUME NEW reports, NEW D, D = DOMAIN reports, Len(reports) \in Nat, D = 1..Len(reports),
           NEW p, NEW M \in SUBSET (D \X D), Joins(D, p, M), NEW i \in D
    PROVE  Joins(D, Across(reports, p, i)[Len(reports)], M \cup MergesOf(reports, i, Len(reports)))
<1> DEFINE N == Len(reports)
           X == [D -> D]
           merges == Pairs(reports, "merge")
           sofar(j) == M \cup MergesOf(reports, i, j)
           good == [j \in 0..N |-> {q \in X : Joins(D, q, sofar(j))}]
           step == [xk \in X \X (1..N) |-> Visited(reports, xk[1], i, xk[2])]
           f == Across(reports, p, i)
<1>1. merges \subseteq D \X D /\ \A e \in merges : e[1] \in D /\ e[2] \in D /\ e = <<e[1], e[2]>>
  BY DEF Pairs
<1>2. \A j \in 0..N : sofar(j) \in SUBSET (D \X D)
  BY <1>1 DEF MergesOf
<1>3. sofar(0) = M
  <2>1. \A e \in merges : ~ (e[2] <= 0)
    BY <1>1
  <2> QED
    BY <2>1 DEF MergesOf
<1>4. ASSUME NEW j \in 1..N
      PROVE  sofar(j) = sofar(j - 1) \cup ({<<i, j>>} \cap merges)
  <2> HIDE DEF merges
  <2>1. \A e \in merges : e[2] \in Nat /\ (e[2] <= j <=> e[2] <= j - 1 \/ e[2] = j)
    BY <1>1
  <2>2. \A e \in merges : e[1] = i /\ e[2] = j <=> e = <<i, j>>
    BY <1>1
  <2>3. MergesOf(reports, i, j) = MergesOf(reports, i, j - 1) \cup {e \in merges : e[1] = i /\ e[2] = j}
    BY <2>1 DEF MergesOf, merges
  <2>4. {e \in merges : e[1] = i /\ e[2] = j} = {<<i, j>>} \cap merges
    BY <2>2
  <2> QED
    BY <2>3, <2>4
<1> HIDE DEF sofar, merges
<1>5. p \in good[0]
  BY <1>3 DEF Joins
<1>6. ASSUME NEW j \in 1..N, NEW q \in good[j - 1]
      PROVE  step[<<q, j>>] \in good[j] /\ step[<<q, j>>] = Visited(reports, q, i, j)
  <2>1. j - 1 \in 0..N /\ j \in 0..N /\ j \in D
    OBVIOUS
  <2>2. q \in X /\ Joins(D, q, sofar(j - 1)) /\ sofar(j - 1) \in SUBSET (D \X D)
    BY <1>2, <2>1
  <2>3. step[<<q, j>>] = Visited(reports, q, i, j)
    BY <2>2
  <2>4. Joins(D, Visited(reports, q, i, j), sofar(j - 1) \cup ({<<i, j>>} \cap merges))
    BY <2>1, <2>2, VisitJoins DEF merges
  <2>5. Joins(D, Visited(reports, q, i, j), sofar(j))
    BY <1>4, <2>4
  <2>6. Visited(reports, q, i, j) \in X
    BY <2>5 DEF Joins
  <2> QED
    BY <2>1, <2>3, <2>5, <2>6
<1>7. good \in [0..N -> SUBSET X]
  OBVIOUS
<1> HIDE DEF good, step
<1>8. PICK g : Loop(N, p, step, g) /\ \A k \in 0..N : g[k] \in good[k]
  <2>1. \A k \in 1..N : \A x \in good[k - 1] : step[<<x, k>>] \in good[k]
    BY <1>6
  <2>2. N \in Nat
    OBVIOUS
  <2> HIDE DEF N, X
  <2> QED
    BY <1>5, <1>7, <2>1, <2>2, LoopsRun
<1>9. g = [k \in 0..N |-> IF k = 0 THEN p ELSE Visited(reports, g[k - 1], i, k)]
  <2>1. ASSUME NEW k \in 1..N PROVE step[<<g[k - 1], k>>] = Visited(reports, g[k - 1], i, k)
    <3>1. k - 1 \in 0..N
      OBVIOUS
    <3> QED
      BY <1>6, <1>8, <3>1
  <2>2. \A k \in 0..N : k # 0 => k \in 1..N
    OBVIOUS
  <2> QED
    BY <1>8, <2>1, <2>2 DEF Loop
<1>10. f = [k \in 0..N |-> IF k = 0 THEN p ELSE Visited(reports, f[k - 1], i, k)]
  BY <1>9 DEF Across
<1>11. f[0] \in good[0] /\ \A k \in 1..N : f[k - 1] \in good[k - 1] => f[k] \in good[k]
  <2> HIDE DEF f
  <2>1. f[0] = p
    BY <1>10
  <2>2. ASSUME NEW k \in 1..N, f[k - 1] \in good[k - 1] PROVE f[k] \in good[k]
    <3>1. k \in 0..N /\ k # 0
      OBVIOUS
    <3>2. f[k] = Visited(reports, f[k - 1], i, k)
      BY <1>10, <3>1
    <3> QED
      BY <1>6, <2>2, <3>2
  <2> QED
    BY <1>5, <2>1, <2>2
<1>12. f[N] \in good[N]
  <2>1. N \in Nat /\ N \in 0..N
    OBVIOUS
  <2> HIDE DEF f, N
  <2> QED
    BY <1>11, <2>1, LoopsKeep
<1> QED
  BY <1>12 DEF good, sofar

\* The outer loop adds the merges of every report.
LEMMA DownJoins ==
    ASSUME NEW reports, Len(reports) \in Nat, DOMAIN reports = 1..Len(reports)
    PROVE  Joins(DOMAIN reports, Down(reports)[Len(reports)], Pairs(reports, "merge"))
<1> DEFINE D == DOMAIN reports
           N == Len(reports)
           X == [D -> D]
           merges == Pairs(reports, "merge")
           sofar(i) == {e \in merges : e[1] <= i}
           good == [i \in 0..N |-> {q \in X : Joins(D, q, sofar(i))}]
           step == [xk \in X \X (1..N) |-> Across(reports, xk[1], xk[2])[N]]
           apart == [k \in D |-> k]
           f == Down(reports)
<1>1. merges \subseteq D \X D /\ \A e \in merges : e[1] \in D /\ e[2] \in D
  BY DEF Pairs
<1>2. sofar(0) = {} /\ sofar(N) = merges
  <2>1. \A e \in merges : ~ (e[1] <= 0) /\ e[1] <= N
    BY <1>1
  <2> QED
    BY <2>1
<1>3. ASSUME NEW i \in 1..N PROVE sofar(i) = sofar(i - 1) \cup MergesOf(reports, i, N)
  <2>1. \A e \in merges : (e[1] <= i <=> e[1] <= i - 1 \/ e[1] = i) /\ e[2] <= N
    BY <1>1
  <2>2. MergesOf(reports, i, N) = {e \in merges : e[1] = i}
    <3> HIDE DEF merges
    <3> QED
      BY <2>1 DEF MergesOf, merges
  <2> HIDE DEF merges
  <2> QED
    BY <2>1, <2>2
<1>4. \A i \in 0..N : sofar(i) \in SUBSET (D \X D)
  BY <1>1
<1> HIDE DEF sofar, merges
<1>5. apart \in good[0]
  <2>1. apart \in X /\ DOMAIN apart = D /\ \A k \in D : apart[k] = k
    OBVIOUS
  <2> DEFINE rank == [k \in D |-> 0]
  <2>2. rank \in [D -> Nat]
    OBVIOUS
  <2> HIDE DEF apart, rank
  <2>3. RootsOf(apart, apart, rank)
    BY <2>1, <2>2 DEF RootsOf
  <2>4. JoinedBy(apart, apart, {})
    BY <2>1 DEF JoinedBy
  <2>5. Joins(D, apart, {})
    BY <2>1, <2>3, <2>4 DEF Joins
  <2>6. Joins(D, apart, sofar(0))
    <3> HIDE DEF D
    <3> QED
      BY <1>2, <2>5
  <2>7. 0 \in 0..N
    OBVIOUS
  <2> QED
    BY <2>1, <2>6, <2>7
<1>6. ASSUME NEW i \in 1..N, NEW q \in good[i - 1]
      PROVE  step[<<q, i>>] \in good[i] /\ step[<<q, i>>] = Across(reports, q, i)[N]
  <2>1. i - 1 \in 0..N /\ i \in 0..N /\ i \in D
    OBVIOUS
  <2>2. q \in X /\ Joins(D, q, sofar(i - 1)) /\ sofar(i - 1) \in SUBSET (D \X D)
    BY <1>4, <2>1
  <2>3. step[<<q, i>>] = Across(reports, q, i)[N]
    BY <2>2
  <2>4. Joins(D, Across(reports, q, i)[N], sofar(i - 1) \cup MergesOf(reports, i, N))
    BY <2>1, <2>2, AcrossJoins
  <2>5. Joins(D, Across(reports, q, i)[N], sofar(i))
    BY <1>3, <2>4
  <2>6. Across(reports, q, i)[N] \in X
    BY <2>5 DEF Joins
  <2> QED
    BY <2>1, <2>3, <2>5, <2>6
<1>7. good \in [0..N -> SUBSET X]
  OBVIOUS
<1> HIDE DEF good, step
<1>8. PICK g : Loop(N, apart, step, g) /\ \A k \in 0..N : g[k] \in good[k]
  <2>1. \A k \in 1..N : \A x \in good[k - 1] : step[<<x, k>>] \in good[k]
    BY <1>6
  <2>2. N \in Nat
    OBVIOUS
  <2> HIDE DEF N, X, apart
  <2> QED
    BY <1>5, <1>7, <2>1, <2>2, LoopsRun
<1>9. g = [k \in 0..N |-> IF k = 0 THEN apart ELSE Across(reports, g[k - 1], k)[N]]
  <2>1. ASSUME NEW k \in 1..N PROVE step[<<g[k - 1], k>>] = Across(reports, g[k - 1], k)[N]
    <3>1. k - 1 \in 0..N
      OBVIOUS
    <3> QED
      BY <1>6, <1>8, <3>1
  <2>2. \A k \in 0..N : k # 0 => k \in 1..N
    OBVIOUS
  <2> QED
    BY <1>8, <2>1, <2>2 DEF Loop
<1>10. f = [k \in 0..N |-> IF k = 0 THEN apart ELSE Across(reports, f[k - 1], k)[N]]
  BY <1>9 DEF Down
<1>11. f[0] \in good[0] /\ \A k \in 1..N : f[k - 1] \in good[k - 1] => f[k] \in good[k]
  <2> HIDE DEF f
  <2>1. f[0] = apart
    BY <1>10
  <2>2. ASSUME NEW k \in 1..N, f[k - 1] \in good[k - 1] PROVE f[k] \in good[k]
    <3>1. k \in 0..N /\ k # 0
      OBVIOUS
    <3>2. f[k] = Across(reports, f[k - 1], k)[N]
      BY <1>10, <3>1
    <3> QED
      BY <1>6, <2>2, <3>2
  <2> QED
    BY <1>5, <2>1, <2>2
<1>12. f[N] \in good[N]
  <2>1. N \in Nat /\ N \in 0..N
    OBVIOUS
  <2> HIDE DEF f, N
  <2> QED
    BY <1>11, <2>1, LoopsKeep
<1> QED
  BY <1>2, <1>12 DEF good, merges

\* ClustersAreConnected, of these clusters.
Connected(reports, found) ==
    LET clusters == {c.members : c \in found}
        joined(i, j) == decision(reports[i], reports[j]) = "merge"
        meet(S, T) == \E i \in S, j \in T : (i < j /\ joined(i, j)) \/ (j < i /\ joined(j, i))
    IN  /\ UNION clusters = DOMAIN reports
        /\ \A S, T \in clusters : S # T => S \cap T = {} /\ ~meet(S, T)
        /\ \A S \in clusters : \A T \in SUBSET S : T \in {{}, S} \/ meet(T, S \ T)
        /\ \A p \in (DOMAIN reports) \X (DOMAIN reports) :
               p[1] < p[2] /\ decision(reports[p[1]], reports[p[2]]) = "review" =>
                   \A c \in found : c.members \cap {p[1], p[2]} # {} => p \in c.reviews

LEMMA TheTreesAreTheClusters ==
    ASSUME NEW reports, Len(reports) \in Nat, DOMAIN reports = 1..Len(reports)
    PROVE  Connected(reports, cluster_candidates(reports))
<1> DEFINE D == DOMAIN reports
           p == Down(reports)[Len(reports)]
           root == Roots(p)
           tree(x) == {i \in D : root[i] = x}
           cluster(x) ==
               [members |-> tree(x),
                joins   |-> {e \in Pairs(reports, "merge") : root[e[1]] = x},
                reviews |-> {e \in Pairs(reports, "review") : x \in {root[e[1]], root[e[2]]}}]
           tops == {root[i] : i \in D}
           found == cluster_candidates(reports)
           clusters == {c.members : c \in found}
           joined(i, j) == decision(reports[i], reports[j]) = "merge"
           meet(S, T) == \E i \in S, j \in T : (i < j /\ joined(i, j)) \/ (j < i /\ joined(j, i))
<1>1. found = {cluster(x) : x \in tops}
  BY DEF cluster_candidates
<1>2. PICK r, rank : RootsOf(p, r, rank) /\ JoinedBy(p, r, Pairs(reports, "merge"))
  BY DownJoins DEF Joins
<1>3. root = r
  BY <1>2, TheRootsAreFound
<1>4. p \in [D -> D] /\ DOMAIN p = D
  BY DownJoins DEF Joins
<1>5. /\ \A e \in Pairs(reports, "merge") : root[e[1]] = root[e[2]]
      /\ \A S \in SUBSET D : Closed(S, Pairs(reports, "merge")) =>
             \A i, j \in D : root[i] = root[j] => (i \in S <=> j \in S)
  BY <1>2, <1>3, <1>4 DEF JoinedBy
<1>6. \A x : /\ cluster(x).members = tree(x)
             /\ cluster(x).reviews =
                    {e \in Pairs(reports, "review") : x \in {root[e[1]], root[e[2]]}}
  OBVIOUS
<1> HIDE DEF root, cluster, p, found
<1>7. clusters = {tree(x) : x \in tops}
  <2> HIDE DEF tree, tops
  <2>1. \A c \in found : \E x \in tops : c.members = tree(x)
    BY <1>1, <1>6
  <2>2. \A x \in tops : \E c \in found : c.members = tree(x)
    BY <1>1, <1>6
  <2> QED
    BY <2>1, <2>2
<1>8. \A i, j \in D : i < j /\ joined(i, j) => root[i] = root[j]
  <2>1. ASSUME NEW i \in D, NEW j \in D, i < j, joined(i, j) PROVE root[i] = root[j]
    <3>1. <<i, j>> \in Pairs(reports, "merge")
      BY <2>1 DEF Pairs
    <3> QED
      BY <1>5, <3>1
  <2> QED
    BY <2>1
<1>9. UNION clusters = D
  <2>1. \A i \in D : i \in tree(root[i]) /\ root[i] \in tops
    OBVIOUS
  <2>2. \A i \in D : \E S \in clusters : i \in S
    BY <1>7, <2>1
  <2>3. \A S \in clusters : S \subseteq D
    BY <1>7
  <2> QED
    BY <2>2, <2>3
<1>10. ASSUME NEW S \in clusters, NEW T \in clusters, S # T
       PROVE  S \cap T = {} /\ ~meet(S, T)
  <2>1. PICK x \in tops : S = tree(x)
    BY <1>7
  <2>2. PICK y \in tops : T = tree(y)
    BY <1>7
  <2>3. x # y
    BY <1>10, <2>1, <2>2
  <2>4. \A i \in S, j \in T : i \in D /\ j \in D /\ root[i] # root[j]
    BY <2>1, <2>2, <2>3
  <2>5. S \cap T = {}
    BY <2>4
  <2>6. ~meet(S, T)
    BY <1>8, <2>4
  <2> QED
    BY <2>5, <2>6
<1>11. ASSUME NEW S \in clusters, NEW T \in SUBSET S, T \notin {{}, S}, ~meet(T, S \ T)
       PROVE  FALSE
  <2>1. PICK x \in tops : S = tree(x)
    BY <1>7
  <2>2. \A i \in D : i \in S <=> root[i] = x
    BY <2>1
  <2>3. T \in SUBSET D /\ S \subseteq D
    BY <2>1
  <2>4. ASSUME NEW e \in Pairs(reports, "merge") PROVE e[1] \in T <=> e[2] \in T
    <3>1. e[1] \in D /\ e[2] \in D /\ e[1] < e[2] /\ joined(e[1], e[2]) /\ root[e[1]] = root[e[2]]
      BY <1>5 DEF Pairs
    <3>2. e[1] \in S <=> e[2] \in S
      BY <2>2, <3>1
    <3>3. ~ (e[1] \in T /\ e[2] \in S \ T) /\ ~ (e[2] \in T /\ e[1] \in S \ T)
      BY <1>11, <3>1
    <3> QED
      BY <3>2, <3>3
  <2>5. Closed(T, Pairs(reports, "merge"))
    BY <2>4 DEF Closed
  <2>6. \A i, j \in D : root[i] = root[j] => (i \in T <=> j \in T)
    BY <1>5, <2>3, <2>5
  <2>7. PICK t \in T, u \in S : u \notin T
    BY <1>11
  <2> QED
    BY <2>2, <2>3, <2>6, <2>7
<1>12. ASSUME NEW e \in D \X D, e[1] < e[2],
              decision(reports[e[1]], reports[e[2]]) = "review",
              NEW c \in found, c.members \cap {e[1], e[2]} # {}
       PROVE  e \in c.reviews
  <2>1. PICK x \in tops : c = cluster(x)
    BY <1>1
  <2>2. e \in Pairs(reports, "review")
    BY <1>12 DEF Pairs
  <2>3. x \in {root[e[1]], root[e[2]]}
    BY <1>6, <1>12, <2>1
  <2> QED
    BY <1>6, <2>1, <2>2, <2>3
<1>13. \A S \in clusters : \A T \in SUBSET S : T \in {{}, S} \/ meet(T, S \ T)
  BY <1>11
<1>14. \A e \in D \X D : e[1] < e[2] /\ decision(reports[e[1]], reports[e[2]]) = "review" =>
           \A c \in found : c.members \cap {e[1], e[2]} # {} => e \in c.reviews
  BY <1>12
<1>15. \A S, T \in clusters : S # T => S \cap T = {} /\ ~meet(S, T)
  BY <1>10
<1> QED
  BY <1>9, <1>13, <1>14, <1>15 DEF Connected, found

\* Two reports of a strip are one event exactly when merges lead from one to the other,
\* whatever the reports and the order they came in (matcher.py cluster_candidates).
THEOREM ClustersAreAlwaysConnected == Spec => []ClustersAreConnected
<1> DEFINE Stated ==
        Answering("strip") => Connected(request.asks.reports, request.answer)
<1>0. ClustersAreConnected <=> Stated
  BY DEF ClustersAreConnected, Connected
<1>00. ClustersAreConnected' <=> Stated'
  <2> HIDE DEF Stated
  <2> QED
    BY <1>0, PTL
<1>1. Init => ClustersAreConnected
  BY DEF Init, Idle, ClustersAreConnected, Answering
<1>2. RInv /\ ClustersAreConnected /\ [Next]_vars => ClustersAreConnected'
  <2> SUFFICES ASSUME RInv, ClustersAreConnected, [Next]_vars
               PROVE  ClustersAreConnected'
    OBVIOUS
  <2>1. CASE UNCHANGED request
    <3>1. Stated => Stated'
      BY <2>1 DEF Answering
    <3> HIDE DEF Stated
    <3> QED
      BY <3>1, <1>0, <1>00
  <2>2. CASE request'.status # "answered"
    BY <2>2 DEF ClustersAreConnected, Answering
  <2>3. CASE Answer
    <3>1. request.asks \in Requests /\ request'.asks = request.asks
      BY <2>3 DEF Answer, RInv, ReadingInv, Fields
    <3>2. request'.asks.kind # "strip"
      BY <3>1, RequestsAssumption
    <3> QED
      BY <3>2 DEF ClustersAreConnected, Answering
  <2>4. ASSUME NEW reports \in Snapshots, Strip(reports) PROVE ClustersAreConnected'
    <3> DEFINE q == [kind |-> "strip", reports |-> reports]
               r == Asked(q, "answered")
               found == cluster_candidates(reports)
               shown == {ClusterOut(reports, c) : c \in found}
    <3>1. request' = [r EXCEPT !.answer = shown]
      BY <2>4 DEF Strip
    <3>2. DOMAIN r = Fields /\ r.asks = q /\ q.reports = reports
      BY FreshRequest
    <3>3. \A c : ClusterOut(reports, c).members = c.members /\ ClusterOut(reports, c).reviews = c.reviews
      BY DEF ClusterOut
    <3> HIDE DEF q, r
    <3>4. request'.asks.reports = reports /\ request'.answer = shown
      BY <3>1, <3>2 DEF Fields
    <3>5. Connected(reports, found)
      <4>1. Len(reports) \in Nat /\ DOMAIN reports = 1..Len(reports)
        BY ReportsAssumption
      <4> QED
        BY <4>1, TheTreesAreTheClusters
    <3>6. Connected(reports, shown)
      <4> HIDE DEF found
      <4>1. {c.members : c \in shown} = {c.members : c \in found}
        BY <3>3
      <4> HIDE DEF shown
      <4>2. \A c \in shown : \E d \in found : c.members = d.members /\ c.reviews = d.reviews
        BY <3>3 DEF shown
      <4> QED
        BY <3>5, <4>1, <4>2 DEF Connected
    <3> HIDE DEF shown
    <3> QED
      BY <3>4, <3>6, <1>00
  <2> QED
    BY <2>1, <2>2, <2>3, <2>4, OnlyAnswerAnswers DEF vars
<1> QED
  BY <1>1, <1>2, ReadsAreWhole, PTL DEF Spec
================================================================================
