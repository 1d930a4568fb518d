----------------------------- MODULE LifecycleTimer -----------------------------
(***************************************************************************)
(* The timer chain of one event, with the clock: the Step Functions        *)
(* executions (Wait -> Tick -> Choice -> Wait) whose tick is               *)
(* handlers/lifecycle.py, the time-to-live rule of core/resolution.py, and *)
(* the resolver's writes on the same event.                                *)
(*                                                                         *)
(* Time is in units longer than a tick and no longer than the slack, and   *)
(* is relative: the age of the event's last write, what is left of each    *)
(* wait, and which side of its start and end time the event is on.         *)
(***************************************************************************)
EXTENDS Lifecycle

CONSTANTS
    TtlSeconds,   \* the class profile: lifecycle states -> time-to-live; may lack a state
    MIN_WAIT_SECONDS,
    WAIT_SLACK_SECONDS,
    MAX_TICKS_PER_EXECUTION,
    MaxAttempts,  \* times a failed tick is retried
    Windows,      \* subset of {"before", "open", "past"} the event's times may put it in
    MaxUpdates,   \* bound: writes of the resolver
    MaxFailures,  \* bound: failed ticks and failed starts
    Never         \* no time-to-live

ASSUME TimerAssumption ==
    /\ DOMAIN TtlSeconds \subseteq DOMAIN TTL_LADDER
    /\ {"validated", "active"} \subseteq DOMAIN TtlSeconds
    /\ \A s \in DOMAIN TtlSeconds : TtlSeconds[s] \in Nat
    /\ {MIN_WAIT_SECONDS, WAIT_SLACK_SECONDS, MAX_TICKS_PER_EXECUTION} \subseteq Nat \ {0}
    /\ {MaxAttempts, MaxUpdates, MaxFailures} \subseteq Nat
    /\ Windows \subseteq {"before", "open", "past"}
    /\ Never \notin Nat

\* The names StartExecution is called with: the event id, and `{id}-{tick}` at the cap.
\* The successor's ticks count from 0 again, so its own successor has its own name.
Executions == {"first", "successor"}

VARIABLES
    state,     \* the event's lifecycle state
    version,   \* its version, counted from the timer's start
    age,       \* time since updated_at; no larger than ages can matter
    window,    \* which side of the event's start and end time now is
    updates,   \* resolver writes left
    failures,  \* failures left
    status,    \* Executions -> where the execution is
    wait,      \* Executions -> what is left of the Wait state
    tick,      \* Executions -> ticks it has completed
    retries,   \* Executions -> failed tries of the tick at hand
    held       \* Executions -> what the tick at hand read and decided

eventVars == <<state, version, age, window>>
vars == <<eventVars, updates, failures, status, wait, tick, retries, held>>

Statuses == {"unstarted", "waiting", "ticking", "returning", "started", "retrying",
             "done", "handed_off", "handoff_failed", "failed"}
Busy == {"ticking", "returning", "started"}
Running == Busy \cup {"waiting", "retrying"}
Actions == {"terminal", "waiting", "not_yet_due", "expired"}

MaxTtl == CHOOSE n \in {TtlSeconds[s] : s \in DOMAIN TtlSeconds} :
              \A s \in DOMAIN TtlSeconds : TtlSeconds[s] <= n
MaxAge == MaxTtl + 1
MaxVersion == MaxUpdates + 4

\* Past the longest time-to-live, older is no different.
Older(a) == IF a < MaxAge THEN a + 1 ELSE a

(***************************************************************************)
(* The time-to-live rule                                                   *)
(***************************************************************************)

Stale(s, a) == s \in DOMAIN TtlSeconds /\ a > TtlSeconds[s]

\* Time left in a state (seconds_until_ttl).
Remaining(s, a) ==
    IF s \notin DOMAIN TtlSeconds THEN Never
    ELSE IF a < TtlSeconds[s] THEN TtlSeconds[s] - a ELSE 0

PublishableNow(w) == w = "open"

\* A lapsed time-to-live publishes a validated event whatever its times say.
ActionPublishingEarly(s, a, w) ==
    CASE ~OnLadder(s)               -> "terminal"
      [] OnLadder(s) /\ ~Stale(s, a) -> "waiting"
      [] OnLadder(s) /\ Stale(s, a)  -> "expired"

\* Nothing lapses outside the event's window.
ActionInWindowOnly(s, a, w) ==
    CASE ~OnLadder(s)                                      -> "terminal"
      [] OnLadder(s) /\ ~Stale(s, a)                        -> "waiting"
      [] OnLadder(s) /\ Stale(s, a) /\ ~PublishableNow(w)   -> "not_yet_due"
      [] OnLadder(s) /\ Stale(s, a) /\ PublishableNow(w)    -> "expired"

\* What expire decides for an event in state s, of age a, on side w of its times.
Action(s, a, w) ==
    LET publishes == OnLadder(s) /\ TTL_LADDER[s] = "active"
    IN  CASE ~OnLadder(s)                                   -> "terminal"
          [] OnLadder(s) /\ ~Stale(s, a)                     -> "waiting"
          [] Stale(s, a) /\ publishes /\ ~PublishableNow(w)  -> "not_yet_due"
          [] Stale(s, a) /\ (publishes => PublishableNow(w)) -> "expired"

WaitWithoutSlack(remaining) ==
    IF remaining > MIN_WAIT_SECONDS THEN remaining ELSE MIN_WAIT_SECONDS

\* max(MIN_WAIT_SECONDS, remaining + WAIT_SLACK_SECONDS)
WaitSeconds(remaining) ==
    IF remaining + WAIT_SLACK_SECONDS > MIN_WAIT_SECONDS
    THEN remaining + WAIT_SLACK_SECONDS ELSE MIN_WAIT_SECONDS

Held == [version : 1..MaxVersion, action : Actions, remaining : 0..MaxTtl \cup {Never}]
NothingHeld == [version |-> 1, action |-> "waiting", remaining |-> Never]

TypeOK ==
    /\ state \in LifecycleStates
    /\ version \in 1..MaxVersion
    /\ age \in 0..MaxAge
    /\ window \in Windows
    /\ updates \in 0..MaxUpdates
    /\ failures \in 0..MaxFailures
    /\ status \in [Executions -> Statuses]
    /\ wait \in [Executions -> Nat]
    /\ tick \in [Executions -> 0..MAX_TICKS_PER_EXECUTION]
    /\ retries \in [Executions -> 0..MaxAttempts]
    /\ held \in [Executions -> Held]

\* The resolver has just created the event and armed its timer: active if it is inside
\* its window, validated if not. This first wait has no slack.
Init ==
    /\ window \in Windows
    /\ state = IF PublishableNow(window) THEN "active" ELSE "validated"
    /\ version = 1 /\ age = 0
    /\ updates = MaxUpdates /\ failures = MaxFailures
    /\ status = [x \in Executions |-> IF x = "first" THEN "waiting" ELSE "unstarted"]
    /\ wait = [x \in Executions |-> IF x = "first" THEN Remaining(state, 0) ELSE 0]
    /\ tick = [x \in Executions |-> 0]
    /\ retries = [x \in Executions |-> 0]
    /\ held = [x \in Executions |-> NothingHeld]

(***************************************************************************)
(* Time, and the resolver                                                  *)
(***************************************************************************)

Elapse ==
    /\ \A x \in Executions : status[x] \notin Busy
    /\ age' = Older(age)
    /\ wait' = [x \in Executions |-> IF wait[x] > 0 THEN wait[x] - 1 ELSE 0]
    /\ UNCHANGED <<state, version, window, updates, failures, status, tick, retries, held>>

\* The event's start time comes, or its end time goes by.
StartsNow ==
    /\ window = "before" /\ "open" \in Windows
    /\ window' = "open"
    /\ UNCHANGED <<state, version, age, updates, failures, status, wait, tick, retries, held>>

EndsNow ==
    /\ window = "open" /\ "past" \in Windows
    /\ window' = "past"
    /\ UNCHANGED <<state, version, age, updates, failures, status, wait, tick, retries, held>>

\* An update, a late report or a merge: a new version with a fresh updated_at, whose times
\* may have moved. Only an update starts a validated event whose window is open.
SourceWrites ==
    /\ updates > 0
    /\ updates' = updates - 1
    /\ version' = version + 1
    /\ age' = 0
    /\ window' \in Windows
    /\ \/ state' = state
       \/ state = "validated" /\ PublishableNow(window') /\ state' = "active"
    /\ UNCHANGED <<failures, status, wait, tick, retries, held>>

(***************************************************************************)
(* The tick                                                                *)
(***************************************************************************)

\* The event is read fresh; nothing comes from the execution's input but the id.
TickReads(x) ==
    /\ \/ status[x] = "waiting" /\ wait[x] = 0
       \/ status[x] = "retrying"
    /\ held' = [held EXCEPT ![x] = [version   |-> version,
                                    action    |-> Action(state, age, window),
                                    remaining |-> Remaining(state, age)]]
    /\ status' = [status EXCEPT ![x] =
                     IF held'[x].action = "expired" THEN "ticking" ELSE "returning"]
    /\ UNCHANGED <<eventVars, updates, failures, wait, tick, retries>>

Advance(x) ==
    /\ state' = TTL_LADDER[state]
    /\ version' = version + 1
    /\ age' = 0
    /\ held' = [held EXCEPT ![x].remaining = Remaining(state', 0)]
    /\ status' = [status EXCEPT ![x] = "returning"]
    /\ UNCHANGED <<window, updates, failures, wait, tick, retries>>

\* The tick writes over whatever is there.
TickWritesBlindly(x) ==
    /\ status[x] = "ticking" /\ OnLadder(state)
    /\ Advance(x)

\* The conditional write lands on the version the tick read.
TickWrites(x) ==
    /\ status[x] = "ticking"
    /\ held[x].version = version
    /\ Advance(x)

\* A lost race ends the execution.
TickSupersededEnds(x) ==
    /\ status[x] = "ticking"
    /\ held[x].version # version
    /\ status' = [status EXCEPT ![x] = "done"]
    /\ UNCHANGED <<eventVars, updates, failures, wait, tick, retries, held>>

\* The resolver got there first: re-arm, on what the tick had read.
TickSuperseded(x) ==
    /\ status[x] = "ticking"
    /\ held[x].version # version
    /\ status' = [status EXCEPT ![x] = "returning"]
    /\ UNCHANGED <<eventVars, updates, failures, wait, tick, retries, held>>

\* Terminal, or a state the profile gives no time-to-live: no more timers.
TickEnds(x) ==
    /\ status[x] = "returning"
    /\ held[x].action = "terminal" \/ held[x].remaining = Never
    /\ status' = [status EXCEPT ![x] = "done"]
    /\ UNCHANGED <<eventVars, updates, failures, wait, tick, retries, held>>

\* The tick has more to wait for.
GoesOn(x) ==
    /\ status[x] = "returning"
    /\ held[x].action # "terminal" /\ held[x].remaining # Never

\* The cap is checked one tick late.
TickWaitsPastTheCap(x) ==
    /\ GoesOn(x)
    /\ tick[x] < MAX_TICKS_PER_EXECUTION
    /\ status' = [status EXCEPT ![x] = "waiting"]
    /\ wait' = [wait EXCEPT ![x] = WaitSeconds(held[x].remaining)]
    /\ tick' = [tick EXCEPT ![x] = @ + 1]
    /\ retries' = [retries EXCEPT ![x] = 0]
    /\ UNCHANGED <<eventVars, updates, failures, held>>

TickWaits(x) ==
    /\ GoesOn(x)
    /\ tick[x] + 1 < MAX_TICKS_PER_EXECUTION
    /\ status' = [status EXCEPT ![x] = "waiting"]
    /\ wait' = [wait EXCEPT ![x] = WaitSeconds(held[x].remaining)]
    /\ tick' = [tick EXCEPT ![x] = @ + 1]
    /\ retries' = [retries EXCEPT ![x] = 0]
    /\ UNCHANGED <<eventVars, updates, failures, held>>

\* At the cap the successor is started, unless its name has been used, which is taken
\* for a retry of this very tick.
StartSuccessor(x) ==
    /\ GoesOn(x)
    /\ tick[x] + 1 >= MAX_TICKS_PER_EXECUTION
    /\ IF status["successor"] = "unstarted"
       THEN /\ status' = [status EXCEPT ![x] = "started", !["successor"] = "waiting"]
            /\ wait' = [wait EXCEPT !["successor"] = WaitSeconds(held[x].remaining)]
       ELSE /\ status' = [status EXCEPT ![x] = "started"]
            /\ UNCHANGED wait
    /\ UNCHANGED <<eventVars, updates, failures, tick, retries, held>>

HandsOff(x) ==
    /\ status[x] = "started"
    /\ status' = [status EXCEPT ![x] = "handed_off"]
    /\ tick' = [tick EXCEPT ![x] = @ + 1]
    /\ UNCHANGED <<eventVars, updates, failures, wait, retries, held>>

\* Any other error of the start is logged, and the execution ends without a successor.
HandoffFails(x) ==
    /\ GoesOn(x)
    /\ tick[x] + 1 >= MAX_TICKS_PER_EXECUTION
    /\ failures > 0
    /\ failures' = failures - 1
    /\ status' = [status EXCEPT ![x] = "handoff_failed"]
    /\ UNCHANGED <<eventVars, updates, wait, tick, retries, held>>

\* The invocation fails between two of its calls. The machine retries the whole tick, and
\* fails the execution when the retries run out.
TickFails(x) ==
    /\ status[x] \in Busy
    /\ failures > 0
    /\ failures' = failures - 1
    /\ IF retries[x] < MaxAttempts
       THEN /\ retries' = [retries EXCEPT ![x] = @ + 1]
            /\ status' = [status EXCEPT ![x] = "retrying"]
       ELSE /\ status' = [status EXCEPT ![x] = "failed"]
            /\ UNCHANGED retries
    /\ UNCHANGED <<eventVars, updates, wait, tick, held>>

(***************************************************************************)
(* Specification                                                           *)
(***************************************************************************)

Tick(x) ==
    \/ TickReads(x) \/ TickWrites(x) \/ TickSuperseded(x) \/ TickEnds(x)
    \/ TickWaits(x) \/ StartSuccessor(x) \/ HandsOff(x)

Next ==
    \/ Elapse \/ StartsNow \/ EndsNow \/ SourceWrites
    \/ \E x \in Executions : Tick(x) \/ HandoffFails(x) \/ TickFails(x)

\* Time passes, a start time comes, and Step Functions drives every execution it has.
\* Nothing makes a source report, an end time exist, or a call fail.
Fairness ==
    /\ WF_vars(Elapse) /\ WF_vars(StartsNow)
    /\ \A x \in Executions : WF_vars(Tick(x))

Spec == Init /\ [][Next]_vars /\ Fairness

(***************************************************************************)
(* Properties                                                              *)
(***************************************************************************)

CanLapse == state \in DOMAIN TtlSeconds
Watched == \E x \in Executions : status[x] \in Running

\* A write that is not a source's is the timer's.
TimerWrites == version' # version /\ updates' = updates

\* Silence, and nothing else, expires an event: when the timer moves it, its own time-to-live
\* has lapsed at that moment, so a report that confirmed it between the tick's read and the
\* tick's write keeps it where it is.
OnlySilenceExpires == [][TimerWrites => Stale(state, age)]_vars

\* A validated event that has gone quiet is not published before its start time, although
\* the start may move between the tick's read and its write.
NotPublishedEarly == [][TimerWrites /\ state' = "active" => window # "before"]_vars

\* The slack is enough: a tick finds its event lapsed, or touched by somebody since the
\* tick before it. Only the first wait, which has no slack, and a tick that failed can
\* wake for nothing.
NoIdleTick ==
    [][\A x \in Executions :
          status[x] = "waiting" /\ status'[x] \in Busy /\ tick[x] > 0
             => held'[x].action # "waiting" \/ version # held[x].version]_vars

\* The chain goes on across lost races, retried ticks and one handoff: an event that can
\* lapse loses its timer only when a tick fails for good, a handoff cannot start its
\* successor, or a second handoff comes round.
ChainSurvives ==
    CanLapse /\ ~Watched =>
        \/ \E x \in Executions : status[x] \in {"failed", "handoff_failed"}
        \/ status["successor"] = "handed_off"

\* A condition that is no longer reported does not stay published: it is closed in the end,
\* whatever races and retries its timer went through, unless a call failed for good or
\* the event was left validated outside its window.
QuietEventsClose ==
    [](/\ state = "validated" => PublishableNow(window)
       /\ \A x \in Executions : status[x] \notin {"failed", "handoff_failed"})
    => <>~CanLapse

\* "So a bounded execution hands off to a successor and the chain continues"
\* (handlers/lifecycle.py:74-75): an event that can lapse always has a live execution,
\* when no call fails.
ChainContinues == CanLapse => Watched

\* "An event whose end time has passed ... goes to `clearing` on its own edge"
\* (core/resolution.py:804-805).
PastEndClears ==
    (state = "validated" /\ window = "past") ~> (state # "validated" \/ window # "past")
================================================================================
