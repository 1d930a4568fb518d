--------------------------- MODULE LifecycleTimer_proofs ---------------------------
(***************************************************************************)
(* The safety of the timer chain for any class profile, any bounds, any    *)
(* number of writes and failures.                                          *)
(*                                                                         *)
(* Everything rests on what a tick still knows when it acts: its reading   *)
(* is good as long as the version it read is the version there is          *)
(* (ReadingHolds), because nothing but a write changes the state and       *)
(* nothing but a write makes the event younger.                            *)
(***************************************************************************)
EXTENDS LifecycleTimer, TLAPS

\* How far along the ladder a state is: what the timer can still add to a version.
Rank(s) == CASE s \in {"reported", "validated"} -> 0
             [] s = "active"   -> 1
             [] s = "clearing" -> 2
             [] OTHER          -> 3

VersionBound == version <= MaxUpdates - updates + 1 + Rank(state)

\* Who may be where: the first execution exists, and a successor that was started is there.
ChainShape ==
    /\ status["first"] # "unstarted"
    /\ status["successor"] = "unstarted" => tick["successor"] = 0
    /\ \A x \in Executions :
          /\ status[x] # "handed_off" => tick[x] < MAX_TICKS_PER_EXECUTION
          /\ status[x] \in {"started", "handed_off"} => status["successor"] # "unstarted"

\* A chain that ended had nothing left to wait for.
EndsForGood ==
    \A x \in Executions :
        /\ status[x] = "done" => ~CanLapse
        /\ status[x] = "returning" /\ (held[x].action = "terminal" \/ held[x].remaining = Never)
              => ~CanLapse
        /\ status[x] = "ticking" => held[x].action = "expired" /\ held[x].remaining # Never

\* What a tick read is still true while nobody has written since.
ReadingHolds ==
    \A x \in Executions :
        /\ held[x].version <= version
        /\ held[x].version = version /\ status[x] = "ticking" =>
              /\ Stale(state, age)
              /\ TTL_LADDER[state] = "active" => window # "before"

\* The wait that is left covers the time to live that is left.
WaitCovers ==
    \A x \in Executions :
        held[x].version = version =>
            /\ GoesOn(x) => CanLapse /\ age + held[x].remaining >= TtlSeconds[state]
            /\ status[x] = "waiting" /\ tick[x] > 0
                  => CanLapse /\ age + wait[x] > TtlSeconds[state]

IInv == TypeOK /\ VersionBound /\ ChainShape /\ EndsForGood /\ ReadingHolds

WaitInv == IInv /\ WaitCovers

-----------------------------------------------------------------------------------
(***************************************************************************)
(* The data                                                                *)
(***************************************************************************)

LEMMA LadderFacts ==
    /\ DOMAIN TTL_LADDER = {"reported", "validated", "active", "clearing"}
    /\ \A s \in DOMAIN TTL_LADDER :
          /\ s \in LifecycleStates /\ TTL_LADDER[s] \in LifecycleStates
          /\ Rank(s) + 1 <= Rank(TTL_LADDER[s])
    /\ TTL_LADDER["validated"] = "active"
    /\ \A s : Rank(s) \in 0..3
    /\ Rank("validated") = 0 /\ Rank("active") = 1
BY DEF TTL_LADDER, LifecycleStates, Rank

LEMMA ProfileFacts ==
    /\ DOMAIN TtlSeconds \subseteq DOMAIN TTL_LADDER
    /\ "validated" \in DOMAIN TtlSeconds /\ "active" \in DOMAIN TtlSeconds
    /\ \A s \in DOMAIN TtlSeconds : TtlSeconds[s] \in Nat
    /\ MIN_WAIT_SECONDS \in Nat \ {0} /\ WAIT_SLACK_SECONDS \in Nat \ {0}
    /\ MAX_TICKS_PER_EXECUTION \in Nat \ {0}
    /\ MaxAttempts \in Nat /\ MaxUpdates \in Nat /\ MaxFailures \in Nat
    /\ Windows \subseteq {"before", "open", "past"}
    /\ Never \notin Nat
BY TimerAssumption

\* The longest time-to-live is one of the profile's, and none is longer.
LEMMA MaxTtlBounds ==
    MaxTtl \in Nat /\ \A s \in DOMAIN TtlSeconds : TtlSeconds[s] <= MaxTtl
<1> DEFINE Times(D) == {TtlSeconds[s] : s \in D}
           HasMax(D) == \E n \in Times(D) : \A s \in D : TtlSeconds[s] <= n
           D1 == DOMAIN TtlSeconds \ {"reported", "clearing"}
           D2 == DOMAIN TtlSeconds \ {"clearing"}
<1>1. D1 = {"validated", "active"}
    BY ProfileFacts, LadderFacts
<1>2. HasMax(D1)
    <2>1. CASE TtlSeconds["validated"] <= TtlSeconds["active"]
        BY <1>1, <2>1, ProfileFacts
    <2>2. CASE ~(TtlSeconds["validated"] <= TtlSeconds["active"])
        BY <1>1, <2>2, ProfileFacts
    <2> QED BY <2>1, <2>2
<1>3. ASSUME NEW D, NEW t, D \subseteq DOMAIN TtlSeconds, t \in DOMAIN TtlSeconds, HasMax(D)
      PROVE  HasMax(D \cup {t})
    <2>1. PICK n \in Times(D) : \A s \in D : TtlSeconds[s] <= n
        BY <1>3
    <2>2. n \in Nat /\ n \in Times(D \cup {t}) /\ TtlSeconds[t] \in Times(D \cup {t})
        BY <1>3, <2>1, ProfileFacts
    <2>3. CASE TtlSeconds[t] <= n
        BY <2>1, <2>2, <2>3
    <2>4. CASE ~(TtlSeconds[t] <= n)
        <3>1. \A s \in D \cup {t} : TtlSeconds[s] <= TtlSeconds[t]
            BY <1>3, <2>1, <2>2, <2>4, ProfileFacts
        <3> QED BY <2>2, <3>1
    <2> QED BY <2>3, <2>4
<1> HIDE DEF HasMax
<1>4. HasMax(D2)
    <2>1. D2 = D1 \/ (D2 = D1 \cup {"reported"} /\ "reported" \in DOMAIN TtlSeconds)
        OBVIOUS
    <2>2. D1 \subseteq DOMAIN TtlSeconds
        OBVIOUS
    <2> HIDE DEF D1, D2
    <2> QED BY <1>2, <1>3, <2>1, <2>2
<1>5. HasMax(DOMAIN TtlSeconds)
    <2>1. \/ DOMAIN TtlSeconds = D2
          \/ DOMAIN TtlSeconds = D2 \cup {"clearing"} /\ "clearing" \in DOMAIN TtlSeconds
        OBVIOUS
    <2>2. D2 \subseteq DOMAIN TtlSeconds
        OBVIOUS
    <2> HIDE DEF D2
    <2> QED BY <1>3, <1>4, <2>1, <2>2
<1>6. \E n \in {TtlSeconds[s] : s \in DOMAIN TtlSeconds} :
          \A s \in DOMAIN TtlSeconds : TtlSeconds[s] <= n
    BY <1>5 DEF HasMax
<1>7. /\ MaxTtl \in {TtlSeconds[s] : s \in DOMAIN TtlSeconds}
      /\ \A s \in DOMAIN TtlSeconds : TtlSeconds[s] <= MaxTtl
    BY <1>6 DEF MaxTtl
<1> QED BY <1>7, ProfileFacts

LEMMA RemainingType ==
    ASSUME NEW s, NEW a \in Nat
    PROVE  /\ Remaining(s, a) \in 0..MaxTtl \cup {Never}
           /\ s \notin DOMAIN TtlSeconds <=> Remaining(s, a) = Never
           /\ s \in DOMAIN TtlSeconds => /\ Remaining(s, a) \in Nat
                                         /\ a + Remaining(s, a) >= TtlSeconds[s]
BY ProfileFacts, MaxTtlBounds DEF Remaining

LEMMA AgeFacts ==
    /\ MaxAge \in Nat /\ MaxVersion \in Nat
    /\ \A a \in 0..MaxAge : Older(a) \in 0..MaxAge /\ Older(a) >= a
    /\ \A a \in 0..MaxAge : \A s \in DOMAIN TtlSeconds :
          Older(a) = a => a > TtlSeconds[s]
    /\ \A a \in 0..MaxAge : Older(a) # a => Older(a) = a + 1
BY ProfileFacts, MaxTtlBounds DEF MaxAge, MaxVersion, Older

\* What expire decides, and when.
LEMMA ActionFacts ==
    ASSUME NEW s, NEW a \in Nat, NEW w
    PROVE  /\ Action(s, a, w) \in Actions
           /\ Action(s, a, w) = "terminal" <=> ~OnLadder(s)
           /\ Action(s, a, w) = "waiting" <=> OnLadder(s) /\ ~Stale(s, a)
           /\ Action(s, a, w) = "expired" =>
                 /\ Stale(s, a)
                 /\ TTL_LADDER[s] = "active" => PublishableNow(w)
<1>1. Stale(s, a) => OnLadder(s)
    BY ProfileFacts DEF Stale, OnLadder
<1>2. CASE ~OnLadder(s)
    BY <1>1, <1>2 DEF Action, Actions
<1>3. CASE OnLadder(s) /\ ~Stale(s, a)
    BY <1>3 DEF Action, Actions
<1>4. CASE Stale(s, a)
    <2>1. CASE TTL_LADDER[s] = "active" /\ ~PublishableNow(w)
        BY <1>1, <1>4, <2>1 DEF Action, Actions
    <2>2. CASE ~(TTL_LADDER[s] = "active" /\ ~PublishableNow(w))
        BY <1>1, <1>4, <2>2 DEF Action, Actions
    <2> QED BY <2>1, <2>2
<1> QED BY <1>1, <1>2, <1>3, <1>4

LEMMA WaitType ==
    ASSUME NEW remaining \in Nat
    PROVE  WaitSeconds(remaining) \in Nat /\ WaitSeconds(remaining) > remaining
BY ProfileFacts DEF WaitSeconds

-----------------------------------------------------------------------------------
(***************************************************************************)
(* The steps                                                               *)
(***************************************************************************)

LEMMA InitWaitInv == Init => WaitInv
<1> SUFFICES ASSUME Init PROVE WaitInv
    OBVIOUS
<1> USE ProfileFacts, AgeFacts, MaxTtlBounds, LadderFacts DEF Init
<1>1. state \in {"active", "validated"}
    BY DEF PublishableNow
<1>2. TypeOK
    <2>1. Remaining(state, 0) \in Nat
        BY <1>1, RemainingType
    <2>2. wait \in [Executions -> Nat]
        BY <2>1
    <2>3. NothingHeld \in Held
        BY DEF NothingHeld, Held, Actions, MaxVersion
    <2>4. held \in [Executions -> Held]
        BY <2>3
    <2>5. state \in LifecycleStates /\ version \in 1..MaxVersion /\ age \in 0..MaxAge
        BY <1>1 DEF LifecycleStates, MaxVersion
    <2>6. status \in [Executions -> Statuses]
        BY DEF Statuses
    <2> QED BY <2>2, <2>4, <2>5, <2>6 DEF TypeOK
<1>3. VersionBound
    BY <1>1 DEF VersionBound
<1>4. ChainShape
    BY DEF ChainShape, Executions
<1>5. \A x \in Executions : /\ status[x] \in {"waiting", "unstarted"}
                              /\ tick[x] = 0 /\ held[x].version = 1
    BY DEF NothingHeld
<1>6. EndsForGood /\ ReadingHolds
    BY <1>5 DEF EndsForGood, ReadingHolds
<1>7. WaitCovers
    BY <1>5 DEF WaitCovers, GoesOn
<1> QED BY <1>2, <1>3, <1>4, <1>6, <1>7 DEF WaitInv, IInv

LEMMA ElapseKeeps ==
    ASSUME WaitInv, Elapse PROVE WaitInv'
<1> USE ProfileFacts, AgeFacts DEF Elapse
<1>t. TypeOK /\ VersionBound /\ ChainShape /\ EndsForGood /\ ReadingHolds /\ WaitCovers
    BY DEF WaitInv, IInv
<1>1. TypeOK'
    <2>1. wait' \in [Executions -> Nat]
        BY <1>t DEF TypeOK
    <2>2. age' \in 0..MaxAge
        BY <1>t DEF TypeOK
    <2> QED BY <1>t, <2>1, <2>2 DEF TypeOK
<1>2. VersionBound'
    BY <1>t DEF VersionBound
<1>3. ChainShape'
    BY <1>t DEF ChainShape
<1>4. EndsForGood'
    BY <1>t DEF EndsForGood, CanLapse
<1>5. ReadingHolds'
    BY <1>t DEF ReadingHolds, Busy
<1>6. WaitCovers'
    <2> SUFFICES ASSUME NEW x \in Executions, held[x].version = version,
                        status[x] = "waiting", tick[x] > 0
                 PROVE  CanLapse /\ age' + wait'[x] > TtlSeconds[state]
        BY <1>t DEF WaitCovers, Busy, CanLapse, GoesOn
    <2>1. CanLapse /\ age + wait[x] > TtlSeconds[state]
        BY <1>t DEF WaitCovers
    <2>2. wait'[x] = IF wait[x] > 0 THEN wait[x] - 1 ELSE 0
        OBVIOUS
    <2>3. age \in 0..MaxAge /\ wait[x] \in Nat
        BY <1>t DEF TypeOK
    <2>4. age' \in Nat /\ (age' = age + 1 \/ (age' = age /\ age > TtlSeconds[state]))
        BY <2>1, <2>3 DEF CanLapse
    <2>5. TtlSeconds[state] \in Nat
        BY <2>1 DEF CanLapse
    <2> QED BY <2>1, <2>2, <2>3, <2>4, <2>5
<1> QED BY <1>1, <1>2, <1>3, <1>4, <1>5, <1>6 DEF WaitInv, IInv

\* The event's start or end time goes by.
LEMMA ClockKeeps ==
    ASSUME WaitInv, StartsNow \/ EndsNow PROVE WaitInv'
<1>w. /\ window' \in Windows /\ window' # "before"
      /\ UNCHANGED <<state, version, age, updates, failures, status, wait, tick, retries, held>>
    BY DEF StartsNow, EndsNow
<1>t. TypeOK /\ VersionBound /\ ChainShape /\ EndsForGood /\ ReadingHolds /\ WaitCovers
    BY DEF WaitInv, IInv
<1>1. TypeOK'
    BY <1>t, <1>w DEF TypeOK
<1>2. VersionBound' /\ ChainShape' /\ EndsForGood'
    BY <1>t, <1>w DEF VersionBound, ChainShape, EndsForGood, CanLapse
<1>3. ReadingHolds'
    BY <1>t, <1>w DEF ReadingHolds
<1>4. WaitCovers'
    BY <1>t, <1>w DEF WaitCovers, CanLapse, GoesOn
<1> QED BY <1>1, <1>2, <1>3, <1>4 DEF WaitInv, IInv

\* A write by anybody leaves every reading behind.
LEMMA OutdatedReadings ==
    ASSUME TypeOK, ReadingHolds, version' = version + 1, NEW x \in Executions,
           held'[x].version = held[x].version
    PROVE  held'[x].version < version'
<1>1. held[x] \in Held /\ version \in Nat
    BY DEF TypeOK
<1>2. held[x].version \in Nat
    BY <1>1 DEF Held
<1> QED BY <1>1, <1>2 DEF ReadingHolds

LEMMA SourceKeeps ==
    ASSUME WaitInv, SourceWrites PROVE WaitInv'
<1> USE ProfileFacts, AgeFacts, LadderFacts DEF SourceWrites
<1>t. TypeOK /\ VersionBound /\ ChainShape /\ EndsForGood /\ ReadingHolds /\ WaitCovers
    BY DEF WaitInv, IInv
<1>v. VersionBound'
    BY <1>t DEF VersionBound, TypeOK
<1>1. TypeOK'
    <2>1. state' \in LifecycleStates
        BY <1>t DEF TypeOK, LifecycleStates
    <2>2. version' \in 1..MaxVersion
        BY <1>t, <1>v DEF TypeOK, VersionBound, MaxVersion
    <2> QED BY <1>t, <2>1, <2>2 DEF TypeOK
<1>3. ChainShape'
    BY <1>t DEF ChainShape
<1>4. EndsForGood'
    BY <1>t DEF EndsForGood, CanLapse
<1>5. \A x \in Executions : held'[x].version < version'
    BY <1>t, OutdatedReadings
<1>6. ReadingHolds' /\ WaitCovers'
    <2>1. \A x \in Executions : held'[x].version \in Nat /\ version' \in Nat
        BY <1>1 DEF TypeOK, Held
    <2> QED BY <1>5, <2>1 DEF ReadingHolds, WaitCovers
<1> QED BY <1>1, <1>v, <1>3, <1>4, <1>6 DEF WaitInv, IInv

-----------------------------------------------------------------------------------
(***************************************************************************)
(* The tick                                                                *)
(***************************************************************************)

LEMMA TickReadsKeeps ==
    ASSUME WaitInv, NEW x \in Executions, TickReads(x) PROVE WaitInv'
<1> USE ProfileFacts, AgeFacts
<1>t. TypeOK /\ VersionBound /\ ChainShape /\ EndsForGood /\ ReadingHolds /\ WaitCovers
    BY DEF WaitInv, IInv
<1> DEFINE read == [version   |-> version,
                    action    |-> Action(state, age, window),
                    remaining |-> Remaining(state, age)]
<1>r. /\ held' = [held EXCEPT ![x] = read]
      /\ status' = [status EXCEPT ![x] =
                        IF held'[x].action = "expired" THEN "ticking" ELSE "returning"]
      /\ status[x] \in {"waiting", "retrying"}
      /\ UNCHANGED <<eventVars, updates, failures, wait, tick, retries>>
    BY DEF TickReads
<1>a. age \in Nat /\ held \in [Executions -> Held] /\ status \in [Executions -> Statuses]
      /\ version \in Nat
    BY <1>t DEF TypeOK
<1>h. /\ held'[x].version = version /\ held'[x].action = Action(state, age, window)
      /\ held'[x].remaining = Remaining(state, age)
    BY <1>r, <1>a
<1>s. /\ status'[x] = IF Action(state, age, window) = "expired" THEN "ticking" ELSE "returning"
      /\ \A y \in Executions \ {x} : status'[y] = status[y] /\ held'[y] = held[y]
      /\ UNCHANGED <<state, version, age, window, updates, failures, wait, tick, retries>>
    BY <1>r, <1>a, <1>h DEF eventVars
<1> HIDE DEF read
<1>1. TypeOK'
    <2>1. read \in Held
        BY <1>t, <1>a, ActionFacts, RemainingType DEF read, Held, TypeOK
    <2>2. held' \in [Executions -> Held]
        BY <1>r, <1>a, <2>1
    <2>3. status' \in [Executions -> Statuses]
        BY <1>r, <1>a DEF Statuses
    <2> QED BY <1>t, <1>s, <2>2, <2>3 DEF TypeOK
<1>2. VersionBound'
    BY <1>t, <1>s DEF VersionBound
<1>3. ChainShape'
    BY <1>t, <1>r, <1>s, <1>a DEF ChainShape
<1>4. EndsForGood'
    <2>1. /\ Action(state, age, window) = "terminal" => ~CanLapse
          /\ Remaining(state, age) = Never <=> ~CanLapse
          /\ Action(state, age, window) = "expired" => CanLapse
        BY <1>a, ActionFacts, RemainingType DEF CanLapse, OnLadder, Stale
    <2> QED BY <1>t, <1>h, <1>s, <2>1 DEF EndsForGood, CanLapse
<1>5. ReadingHolds'
    <2>1. Action(state, age, window) = "expired" =>
              Stale(state, age) /\ (TTL_LADDER[state] = "active" => window # "before")
        BY <1>a, ActionFacts DEF PublishableNow
    <2> QED BY <1>t, <1>a, <1>h, <1>s, <2>1 DEF ReadingHolds
<1>6. WaitCovers'
    <2>1. Remaining(state, age) # Never =>
              CanLapse /\ age + Remaining(state, age) >= TtlSeconds[state]
        BY <1>a, RemainingType DEF CanLapse
    <2>2. status'[x] # "waiting"
        BY <1>s
    <2> QED BY <1>t, <1>h, <1>s, <2>1, <2>2 DEF WaitCovers, CanLapse, GoesOn
<1> QED BY <1>1, <1>2, <1>3, <1>4, <1>5, <1>6 DEF WaitInv, IInv

LEMMA TickWritesKeeps ==
    ASSUME WaitInv, NEW x \in Executions, TickWrites(x) PROVE WaitInv'
<1> USE ProfileFacts, AgeFacts, LadderFacts
<1>t. TypeOK /\ VersionBound /\ ChainShape /\ EndsForGood /\ ReadingHolds /\ WaitCovers
    BY DEF WaitInv, IInv
<1>w. /\ status[x] = "ticking" /\ held[x].version = version
      /\ state' = TTL_LADDER[state] /\ version' = version + 1 /\ age' = 0
      /\ held' = [held EXCEPT ![x].remaining = Remaining(state', 0)]
      /\ status' = [status EXCEPT ![x] = "returning"]
      /\ UNCHANGED <<window, updates, failures, wait, tick, retries>>
    BY DEF TickWrites, Advance
<1>a. /\ held \in [Executions -> Held] /\ status \in [Executions -> Statuses]
      /\ version \in Nat /\ updates \in 0..MaxUpdates
    BY <1>t DEF TypeOK
<1>b. Stale(state, age) /\ state \in DOMAIN TTL_LADDER
    BY <1>t, <1>w DEF ReadingHolds, Stale
<1>h. /\ held'[x].version = held[x].version /\ held'[x].action = held[x].action
      /\ held'[x].remaining = Remaining(state', 0)
      /\ \A y \in Executions \ {x} : held'[y] = held[y] /\ status'[y] = status[y]
      /\ status'[x] = "returning"
    BY <1>w, <1>a DEF Held
<1>v. VersionBound'
    BY <1>t, <1>w, <1>a, <1>b DEF VersionBound
<1>1. TypeOK'
    <2>1. state' \in LifecycleStates
        BY <1>w, <1>b
    <2>2. version' \in 1..MaxVersion
        <3>1. Rank(state') \in 0..3
            OBVIOUS
        <3> QED BY <1>a, <1>w, <1>v, <3>1 DEF VersionBound, MaxVersion
    <2>3. held' \in [Executions -> Held]
        <3>1. Remaining(state', 0) \in 0..MaxTtl \cup {Never}
            BY RemainingType
        <3> QED BY <1>w, <1>a, <3>1 DEF Held
    <2>4. status' \in [Executions -> Statuses]
        BY <1>w, <1>a DEF Statuses
    <2> QED BY <1>t, <1>w, <2>1, <2>2, <2>3, <2>4 DEF TypeOK
<1>3. ChainShape'
    BY <1>t, <1>w, <1>a DEF ChainShape
<1>4. EndsForGood'
    <2>1. Remaining(state', 0) = Never => ~CanLapse'
        BY RemainingType DEF CanLapse
    <2>2. held'[x].action = "expired"
        BY <1>t, <1>w, <1>h DEF EndsForGood
    <2>3. CanLapse
        BY <1>b DEF CanLapse, Stale
    <2> QED BY <1>t, <1>h, <2>1, <2>2, <2>3 DEF EndsForGood
<1>5. \A y \in Executions : held'[y].version < version'
    BY <1>t, <1>w, <1>h, OutdatedReadings
<1>6. ReadingHolds' /\ WaitCovers'
    <2>1. \A y \in Executions : held'[y].version \in Nat /\ version' \in Nat
        BY <1>1 DEF TypeOK, Held
    <2> QED BY <1>5, <2>1 DEF ReadingHolds, WaitCovers
<1> QED BY <1>1, <1>v, <1>3, <1>4, <1>6 DEF WaitInv, IInv

\* What the steps of an execution that touch neither the event nor a reading have to show.
LEMMA QuietStep ==
    ASSUME WaitInv, UNCHANGED <<state, version, age, window, updates, held>>,
           failures' \in 0..MaxFailures, status' \in [Executions -> Statuses],
           wait' \in [Executions -> Nat],
           tick' \in [Executions -> 0..MAX_TICKS_PER_EXECUTION],
           retries' \in [Executions -> 0..MaxAttempts],
           ChainShape',
           \A y \in Executions : status'[y] = "ticking" => status[y] = "ticking",
           \A y \in Executions : status'[y] = "returning" =>
              status[y] = "returning" \/ (status[y] = "ticking" /\ held[y].version # version),
           \A y \in Executions : status'[y] = "done" =>
              \/ status[y] = "done"
              \/ /\ status[y] = "returning"
                 /\ held[y].action = "terminal" \/ held[y].remaining = Never,
           \A y \in Executions : status'[y] = "waiting" /\ tick'[y] > 0 =>
              \/ status[y] = "waiting" /\ tick'[y] = tick[y] /\ wait'[y] = wait[y]
              \/ /\ status[y] = "returning"
                 /\ held[y].action # "terminal" /\ held[y].remaining \in Nat
                 /\ wait'[y] > held[y].remaining
    PROVE  WaitInv'
<1> USE ProfileFacts, AgeFacts
<1>t. TypeOK /\ VersionBound /\ ChainShape /\ EndsForGood /\ ReadingHolds /\ WaitCovers
    BY DEF WaitInv, IInv
<1>1. TypeOK'
    BY <1>t DEF TypeOK
<1>2. VersionBound'
    BY <1>t DEF VersionBound
<1>3. EndsForGood'
    BY <1>t DEF EndsForGood, CanLapse
<1>4. ReadingHolds'
    BY <1>t DEF ReadingHolds
<1>5. WaitCovers'
    <2> SUFFICES ASSUME NEW y \in Executions, held[y].version = version
                 PROVE  /\ GoesOn(y)' => CanLapse /\ age + held[y].remaining >= TtlSeconds[state]
                        /\ status'[y] = "waiting" /\ tick'[y] > 0
                              => CanLapse /\ age + wait'[y] > TtlSeconds[state]
        BY DEF WaitCovers, CanLapse
    <2>1. GoesOn(y)' => CanLapse /\ age + held[y].remaining >= TtlSeconds[state]
        BY <1>t DEF WaitCovers, GoesOn
    <2>2. ASSUME status'[y] = "waiting", tick'[y] > 0
          PROVE  CanLapse /\ age + wait'[y] > TtlSeconds[state]
        <3>1. CASE status[y] = "waiting" /\ tick'[y] = tick[y] /\ wait'[y] = wait[y]
            BY <1>t, <2>2, <3>1 DEF WaitCovers
        <3>2. CASE /\ status[y] = "returning"
                   /\ held[y].action # "terminal" /\ held[y].remaining \in Nat
                   /\ wait'[y] > held[y].remaining
            <4>1. CanLapse /\ age + held[y].remaining >= TtlSeconds[state]
                BY <1>t, <3>2, ProfileFacts DEF WaitCovers, GoesOn
            <4>2. age \in Nat /\ TtlSeconds[state] \in Nat /\ wait'[y] \in Nat
                BY <1>t, <4>1 DEF TypeOK, CanLapse
            <4> QED BY <3>2, <4>1, <4>2
        <3> QED BY <2>2, <3>1, <3>2
    <2> QED BY <2>1, <2>2
<1> QED BY <1>1, <1>2, <1>3, <1>4, <1>5 DEF WaitInv, IInv

LEMMA QuietTickKeeps ==
    ASSUME WaitInv, NEW x \in Executions,
           TickSuperseded(x) \/ TickEnds(x) \/ TickWaits(x)
    PROVE  WaitInv'
<1> USE ProfileFacts
<1>t. TypeOK /\ ChainShape /\ EndsForGood
    BY DEF WaitInv, IInv
<1>a. /\ status \in [Executions -> Statuses] /\ wait \in [Executions -> Nat]
      /\ tick \in [Executions -> 0..MAX_TICKS_PER_EXECUTION]
      /\ retries \in [Executions -> 0..MaxAttempts] /\ failures \in 0..MaxFailures
    BY <1>t DEF TypeOK
<1>1. CASE TickSuperseded(x)
    <2>1. status' \in [Executions -> Statuses] /\ ChainShape'
        BY <1>1, <1>t, <1>a DEF TickSuperseded, Statuses, ChainShape
    <2> QED BY <1>1, <1>a, <2>1, QuietStep DEF TickSuperseded, eventVars
<1>2. CASE TickEnds(x)
    <2>1. status' \in [Executions -> Statuses] /\ ChainShape'
        BY <1>2, <1>t, <1>a DEF TickEnds, Statuses, ChainShape
    <2> QED BY <1>2, <1>a, <2>1, QuietStep DEF TickEnds, eventVars
<1>3. CASE TickWaits(x)
    <2>1. held[x] \in Held /\ held[x].remaining \in Nat
        BY <1>3, <1>t, MaxTtlBounds DEF TickWaits, GoesOn, TypeOK, Held
    <2>2. WaitSeconds(held[x].remaining) \in Nat
          /\ WaitSeconds(held[x].remaining) > held[x].remaining
        BY <2>1, WaitType
    <2>3. status' \in [Executions -> Statuses] /\ wait' \in [Executions -> Nat]
        BY <1>3, <1>a, <2>2 DEF TickWaits, Statuses
    <2>4. tick' \in [Executions -> 0..MAX_TICKS_PER_EXECUTION]
        BY <1>3, <1>a DEF TickWaits
    <2>5. retries' \in [Executions -> 0..MaxAttempts]
        BY <1>3, <1>a DEF TickWaits
    <2>6. ChainShape'
        BY <1>3, <1>t, <1>a DEF TickWaits, ChainShape
    <2>7. \A y \in Executions \ {x} : status'[y] = status[y] /\ tick'[y] = tick[y]
                                      /\ wait'[y] = wait[y]
        BY <1>3, <1>a DEF TickWaits
    <2>8. /\ status'[x] = "waiting" /\ status[x] = "returning" /\ held[x].action # "terminal"
          /\ wait'[x] > held[x].remaining
          /\ UNCHANGED <<state, version, age, window, updates, failures, held>>
        BY <1>3, <1>a, <2>2 DEF TickWaits, GoesOn, eventVars
    <2> QED BY <1>a, <2>1, <2>3, <2>4, <2>5, <2>6, <2>7, <2>8, QuietStep
<1> QED BY <1>1, <1>2, <1>3

\* A handoff: the successor begins its first wait, at its tick 0.
LEMMA HandoffKeeps ==
    ASSUME WaitInv, NEW x \in Executions,
           StartSuccessor(x) \/ HandsOff(x) \/ HandoffFails(x)
    PROVE  WaitInv'
<1> USE ProfileFacts
<1>t. TypeOK /\ ChainShape /\ EndsForGood
    BY DEF WaitInv, IInv
<1>a. /\ status \in [Executions -> Statuses] /\ wait \in [Executions -> Nat]
      /\ tick \in [Executions -> 0..MAX_TICKS_PER_EXECUTION]
      /\ retries \in [Executions -> 0..MaxAttempts] /\ failures \in 0..MaxFailures
    BY <1>t DEF TypeOK
<1>1. CASE StartSuccessor(x)
    <2>1. WaitSeconds(held[x].remaining) \in Nat
        <3>1. held[x].remaining \in Nat
            BY <1>1, <1>t, MaxTtlBounds DEF StartSuccessor, GoesOn, TypeOK, Held
        <3> QED BY <3>1, WaitType
    <2>2. CASE status["successor"] = "unstarted"
        <3> USE <1>1, <2>2 DEF StartSuccessor, GoesOn
        <3>1. /\ status' = [status EXCEPT ![x] = "started", !["successor"] = "waiting"]
              /\ status[x] = "returning"
              /\ UNCHANGED <<state, version, age, window, updates, failures, held, tick, retries>>
            BY DEF eventVars
        <3>2. x # "successor" /\ "successor" \in Executions
            BY DEF Executions
        <3>3. status' \in [Executions -> Statuses] /\ wait' \in [Executions -> Nat]
            BY <1>a, <2>1, <3>1 DEF Statuses
        <3>4. ChainShape'
            BY <1>t, <1>a, <3>1, <3>2 DEF ChainShape, Executions
        <3>5. tick["successor"] = 0
            BY <1>t, <2>2 DEF ChainShape
        <3>6. \A y \in Executions : status'[y] = IF y = "successor" THEN "waiting"
                                                  ELSE IF y = x THEN "started" ELSE status[y]
            BY <1>a, <3>1, <3>2
        <3>7. \A y \in Executions \ {"successor"} : wait'[y] = wait[y]
            BY <1>a
        <3> HIDE <1>1, <2>2
        <3> QED BY <1>a, <3>1, <3>3, <3>4, <3>5, <3>6, <3>7, QuietStep
    <2>3. CASE status["successor"] # "unstarted"
        <3>1. status' = [status EXCEPT ![x] = "started"] /\ status[x] = "returning"
              /\ UNCHANGED <<state, version, age, window, updates, failures, held, wait,
                             tick, retries>>
            BY <1>1, <2>3 DEF StartSuccessor, GoesOn, eventVars
        <3>2. status' \in [Executions -> Statuses] /\ ChainShape'
            BY <1>t, <1>a, <2>3, <3>1 DEF Statuses, ChainShape, Executions
        <3> QED BY <1>a, <3>1, <3>2, QuietStep
    <2> QED BY <2>2, <2>3
<1>2. CASE HandsOff(x)
    <2>1. /\ status' = [status EXCEPT ![x] = "handed_off"] /\ status[x] = "started"
          /\ tick' = [tick EXCEPT ![x] = @ + 1]
          /\ UNCHANGED <<state, version, age, window, updates, failures, held, wait, retries>>
        BY <1>2 DEF HandsOff, eventVars
    <2>2. tick[x] < MAX_TICKS_PER_EXECUTION
        BY <1>t, <2>1 DEF ChainShape
    <2>3. /\ status' \in [Executions -> Statuses]
          /\ tick' \in [Executions -> 0..MAX_TICKS_PER_EXECUTION]
        BY <1>a, <2>1, <2>2 DEF Statuses
    <2>4. \A y \in Executions \ {x} : status'[y] = status[y] /\ tick'[y] = tick[y]
        BY <1>a, <2>1
    <2>5. status'[x] = "handed_off"
        BY <1>a, <2>1
    <2>6. ChainShape'
        BY <1>t, <1>a, <2>1, <2>4, <2>5 DEF ChainShape, Executions
    <2> QED BY <1>a, <2>1, <2>3, <2>4, <2>5, <2>6, QuietStep
<1>3. CASE HandoffFails(x)
    <2>1. status' = [status EXCEPT ![x] = "handoff_failed"] /\ failures' \in 0..MaxFailures
          /\ UNCHANGED <<state, version, age, window, updates, held, wait, tick, retries>>
        BY <1>3, <1>a DEF HandoffFails, eventVars
    <2>2. status' \in [Executions -> Statuses]
        BY <1>a, <2>1 DEF Statuses
    <2>3. status[x] = "returning"
        BY <1>3 DEF HandoffFails, GoesOn
    <2>4. \A y \in Executions : status'[y] = IF y = x THEN "handoff_failed" ELSE status[y]
        BY <1>a, <2>1
    <2>5. ChainShape'
        BY <1>t, <1>a, <2>1, <2>3, <2>4 DEF ChainShape, Executions
    <2> QED BY <1>a, <2>1, <2>2, <2>5, QuietStep
<1> QED BY <1>1, <1>2, <1>3

LEMMA TickFailsKeeps ==
    ASSUME WaitInv, NEW x \in Executions, TickFails(x) PROVE WaitInv'
<1> USE ProfileFacts
<1>t. TypeOK /\ ChainShape
    BY DEF WaitInv, IInv
<1>a. /\ status \in [Executions -> Statuses] /\ wait \in [Executions -> Nat]
      /\ tick \in [Executions -> 0..MAX_TICKS_PER_EXECUTION]
      /\ retries \in [Executions -> 0..MaxAttempts] /\ failures \in 0..MaxFailures
    BY <1>t DEF TypeOK
<1>1. /\ \E to \in {"retrying", "failed"} : status' = [status EXCEPT ![x] = to]
      /\ status[x] \in Busy /\ failures' = failures - 1 /\ failures > 0
      /\ UNCHANGED <<state, version, age, window, updates, held, wait, tick>>
    BY DEF TickFails, eventVars
<1>2. retries' \in [Executions -> 0..MaxAttempts]
    BY <1>a DEF TickFails
<1>3. status' \in [Executions -> Statuses] /\ failures' \in 0..MaxFailures
    BY <1>a, <1>1 DEF Statuses
<1>4. /\ status'[x] \in {"retrying", "failed"}
      /\ \A y \in Executions \ {x} : status'[y] = status[y]
      /\ tick[x] < MAX_TICKS_PER_EXECUTION
    BY <1>t, <1>a, <1>1 DEF ChainShape, Busy
<1>5. ChainShape'
    BY <1>t, <1>1, <1>4 DEF ChainShape, Executions
<1> QED BY <1>a, <1>1, <1>2, <1>3, <1>4, <1>5, QuietStep

LEMMA NextWaitInv == WaitInv /\ [Next]_vars => WaitInv'
<1> SUFFICES ASSUME WaitInv, [Next]_vars PROVE WaitInv'
    OBVIOUS
<1>1. CASE UNCHANGED vars
    BY <1>1 DEF vars, eventVars, WaitInv, IInv, TypeOK, VersionBound, ChainShape, EndsForGood,
                ReadingHolds, WaitCovers, CanLapse, GoesOn
<1>2. CASE Next
    BY <1>2, ElapseKeeps, ClockKeeps, SourceKeeps, TickReadsKeeps, TickWritesKeeps,
       QuietTickKeeps, HandoffKeeps, TickFailsKeeps DEF Next, Tick
<1> QED BY <1>1, <1>2

LEMMA SpecWaitInv == Spec => []WaitInv
BY InitWaitInv, NextWaitInv, PTL DEF Spec

-----------------------------------------------------------------------------------
(***************************************************************************)
(* The theorems                                                            *)
(***************************************************************************)

\* The chain's state keeps its shape: no version runs past what writes and ladder allow, no
\* execution ticks past its cap (handlers/lifecycle.py: handler, MAX_TICKS_PER_EXECUTION).
THEOREM TypeCorrect == Spec => []TypeOK
<1>1. WaitInv => TypeOK
    BY DEF WaitInv, IInv
<1> QED BY <1>1, SpecWaitInv, PTL

\* The chain goes on across lost races, retried ticks and one handoff
\* (handlers/lifecycle.py: handler, _start_successor).
THEOREM ChainGoesOn == Spec => []ChainSurvives
<1>1. WaitInv => ChainSurvives
    <2> SUFFICES ASSUME WaitInv, CanLapse, ~Watched
                 PROVE  \/ \E x \in Executions : status[x] \in {"failed", "handoff_failed"}
                        \/ status["successor"] = "handed_off"
        BY DEF ChainSurvives
    <2>1. "first" \in Executions /\ "successor" \in Executions
        BY DEF Executions
    <2>2. \A x \in Executions : status[x] \in {"unstarted", "done", "handed_off",
                                               "handoff_failed", "failed"}
        BY DEF WaitInv, IInv, TypeOK, Watched, Running, Busy, Statuses
    <2>3. \A x \in Executions : status[x] # "done"
        BY DEF WaitInv, IInv, EndsForGood
    <2>4. status["first"] # "unstarted"
          /\ (status["first"] = "handed_off" => status["successor"] # "unstarted")
        BY <2>1 DEF WaitInv, IInv, ChainShape
    <2> QED BY <2>1, <2>2, <2>3, <2>4
<1> QED BY <1>1, SpecWaitInv, PTL

\* A step of the timer on the event is a tick's write, on a reading that still holds.
LEMMA TimerWritesOnAReading ==
    ASSUME WaitInv, [Next]_vars, TimerWrites
    PROVE  /\ Stale(state, age)
           /\ state' = TTL_LADDER[state]
           /\ TTL_LADDER[state] = "active" => window # "before"
<1>1. PICK x \in Executions : TickWrites(x)
    <2>1. CASE UNCHANGED vars
        BY <2>1 DEF vars, eventVars, TimerWrites
    <2>2. CASE SourceWrites
        BY <2>2 DEF SourceWrites, TimerWrites, WaitInv, IInv, TypeOK
    <2>3. CASE Elapse \/ StartsNow \/ EndsNow
        BY <2>3 DEF Elapse, StartsNow, EndsNow, TimerWrites
    <2>4. ASSUME NEW x \in Executions,
                 \/ TickReads(x) \/ TickSuperseded(x) \/ TickEnds(x) \/ TickWaits(x)
                 \/ StartSuccessor(x) \/ HandsOff(x) \/ HandoffFails(x) \/ TickFails(x)
          PROVE  version' = version
        BY <2>4 DEF TickReads, TickSuperseded, TickEnds, TickWaits, StartSuccessor, HandsOff,
                    HandoffFails, TickFails, eventVars
    <2> QED BY <2>1, <2>2, <2>3, <2>4 DEF Next, Tick, TimerWrites
<1> QED BY <1>1 DEF TickWrites, Advance, WaitInv, IInv, ReadingHolds

\* Silence, and nothing else, expires an event (handlers/lifecycle.py: the conditional put
\* on the version the tick read; resolution.py: expire).
THEOREM SilenceExpires == Spec => OnlySilenceExpires
<1> DEFINE Step == TimerWrites => Stale(state, age)
<1>1. WaitInv /\ [Next]_vars => [Step]_vars
    BY TimerWritesOnAReading
<1> HIDE DEF Step
<1>2. Spec => [][Step]_vars
    BY <1>1, InitWaitInv, NextWaitInv, PTL DEF Spec
<1> QED BY <1>2 DEF Step, OnlySilenceExpires

\* A validated event is not published before its start time (resolution.py: expire,
\* publishable_now), although the start may move between the tick's read and its write.
THEOREM PublishedInTime == Spec => NotPublishedEarly
<1> DEFINE Step == TimerWrites /\ state' = "active" => window # "before"
<1>1. WaitInv /\ [Next]_vars => [Step]_vars
    BY TimerWritesOnAReading
<1> HIDE DEF Step
<1>2. Spec => [][Step]_vars
    BY <1>1, InitWaitInv, NextWaitInv, PTL DEF Spec
<1> QED BY <1>2 DEF Step, NotPublishedEarly

\* The slack is enough, for every profile and every least wait: a tick after the first
\* finds its event lapsed or touched (handlers/lifecycle.py: WAIT_SLACK_SECONDS).
THEOREM SlackIsEnough == Spec => NoIdleTick
<1> DEFINE Step ==
        \A x \in Executions :
            status[x] = "waiting" /\ status'[x] \in Busy /\ tick[x] > 0
               => held'[x].action # "waiting" \/ version # held[x].version
<1>1. WaitInv /\ [Next]_vars => [Step]_vars
    <2> SUFFICES ASSUME WaitInv, [Next]_vars, NEW x \in Executions,
                        status[x] = "waiting", status'[x] \in Busy, tick[x] > 0,
                        version = held[x].version
                 PROVE  held'[x].action # "waiting"
        OBVIOUS
    <2>a. /\ status \in [Executions -> Statuses] /\ held \in [Executions -> Held]
          /\ age \in Nat /\ age \in 0..MaxAge /\ wait \in [Executions -> Nat]
        BY AgeFacts DEF WaitInv, IInv, TypeOK
    <2>1. TickReads(x)
        <3>1. status'[x] # status[x]
            BY DEF Busy
        <3>2. CASE UNCHANGED vars
            BY <3>1, <3>2 DEF vars
        <3>3. CASE Elapse \/ StartsNow \/ EndsNow \/ SourceWrites
            BY <3>1, <3>3 DEF Elapse, StartsNow, EndsNow, SourceWrites
        <3>4. ASSUME NEW y \in Executions, TickReads(y) PROVE y = x
            BY <2>a, <3>1, <3>4 DEF TickReads
        <3>5. ASSUME NEW y \in Executions,
                     \/ TickWrites(y) \/ TickSuperseded(y) \/ TickEnds(y) \/ TickWaits(y)
                     \/ HandsOff(y) \/ HandoffFails(y) \/ TickFails(y)
              PROVE  FALSE
            <4>1. status[y] \in Busy /\ \E to : status' = [status EXCEPT ![y] = to]
                BY <3>5 DEF TickWrites, Advance, TickSuperseded, TickEnds, TickWaits, GoesOn,
                            HandsOff, HandoffFails, TickFails, Busy
            <4> QED BY <2>a, <3>1, <4>1 DEF Busy
        <3>6. ASSUME NEW y \in Executions, StartSuccessor(y) PROVE FALSE
            <4>1. CASE status["successor"] = "unstarted"
                BY <2>a, <3>1, <3>6, <4>1 DEF StartSuccessor, GoesOn, Busy, Executions
            <4>2. CASE status["successor"] # "unstarted"
                BY <2>a, <3>1, <3>6, <4>2 DEF StartSuccessor, GoesOn, Busy, Executions
            <4> QED BY <4>1, <4>2
        <3> QED BY <3>2, <3>3, <3>4, <3>5, <3>6 DEF Next, Tick
    <2>2. wait[x] = 0 /\ held'[x].action = Action(state, age, window)
        BY <2>1, <2>a DEF TickReads
    <2>3. CanLapse /\ age + wait[x] > TtlSeconds[state]
        BY DEF WaitInv, WaitCovers
    <2>4. Stale(state, age)
        BY <2>2, <2>3, <2>a DEF Stale, CanLapse
    <2> QED BY <2>2, <2>4, <2>a, ActionFacts
<1> HIDE DEF Step
<1>2. Spec => [][Step]_vars
    BY <1>1, InitWaitInv, NextWaitInv, PTL DEF Spec
<1> QED BY <1>2 DEF Step, NoIdleTick
===================================================================================
