------------------------------- MODULE Intake_proofs -------------------------------
(***************************************************************************)
(* What holds of the intake for any corridors, payloads, outages and       *)
(* contents of the database: what explains a failed invocation of the      *)
(* normalizer (part 1), what an adapter answers for a record (part 2), and *)
(* that by the end of a payload every record was answered and every issue  *)
(* is with its own record's candidates (part 3); that what the conflator   *)
(* puts on the corridor is a range of its measure (part 4), and so every   *)
(* candidate lies on the corridor from west to east (part 5).              *)
(***************************************************************************)
EXTENDS Intake, SequenceTheorems, FiniteSetTheorems, WellFoundedInduction, TLAPS

(***************************************************************************)
(* Part 1.  Which invocations fail.                                        *)
(***************************************************************************)

InProgress == run.status \in {"preparing", "loading", "parsing"}

RunShape ==
    /\ run = [status |-> run.status, payload |-> run.payload, next |-> run.next,
              seen |-> run.seen, issues |-> run.issues, candidates |-> run.candidates,
              off |-> run.off, unserved |-> run.unserved, count |-> run.count]
    /\ run.status \in Statuses

DbShape == db = [up |-> db.up, holds |-> db.holds, loaded |-> db.loaded, life |-> db.life]

\* A container without a database has its corridors from the offline file.
IsConfigured(c) ==
    /\ c = [database |-> c.database, routed |-> c.routed, source |-> c.source,
            cache |-> c.cache, connection |-> c.connection, conflator |-> c.conflator]
    /\ ~c.database => c.source = "json"

\* What is read next is a record of a payload that may arrive.
PayloadArrived == run.status # "idle" => run.payload \in Payloads /\ run.next \in Nat \ {0}

LoadsFromTheDatabase == run.status = "loading" => container.database

\* An invocation knows of every moment it was not served: the database served it when it
\* began, or ceased to since.
ServiceIsKnown == InProgress /\ ~Served(container) => run.unserved

IInv ==
    /\ RunShape /\ DbShape /\ IsConfigured(container) /\ PayloadArrived
    /\ LoadsFromTheDatabase /\ ServiceIsKnown /\ FailuresAreExplained

\* A container keeps what its environment configured, whatever becomes of its globals.
SameEnvironment(c, d) == IsConfigured(d) /\ d.database = c.database /\ d.routed = c.routed

LEMMA EnvironmentIsKept ==
    ASSUME NEW c, IsConfigured(c)
    PROVE  /\ c.database => SameEnvironment(c, set_corridor_source(c))
           /\ SameEnvironment(c, Connected(c))
           /\ SameEnvironment(c, corridor_for(c))
           /\ \A k : SameEnvironment(c, [c EXCEPT !.conflator = k])
           /\ SameEnvironment(c, Cold(c.database, c.routed))
<1>1. ASSUME NEW b, IsConfigured(b), NEW k, NEW d
      PROVE  /\ d = [b EXCEPT !.cache = k] => SameEnvironment(b, d)
             /\ d = [b EXCEPT !.conflator = k] => SameEnvironment(b, d)
             /\ d = [b EXCEPT !.connection = k] => SameEnvironment(b, d)
  BY <1>1 DEF IsConfigured, SameEnvironment
<1>2. c.database => SameEnvironment(c, set_corridor_source(c))
  <2>1. ASSUME NEW d, d = [c EXCEPT !.source = "database", !.cache = Unset], c.database
        PROVE  SameEnvironment(c, d)
    BY <2>1 DEF IsConfigured, SameEnvironment
  <2> QED
    BY <2>1 DEF set_corridor_source
<1>3. SameEnvironment(c, Connected(c))
  BY <1>1 DEF Connected
<1>4. SameEnvironment(c, corridor_for(c))
  <2>1. \/ corridor_for(c) = c
        \/ corridor_for(c) = [c EXCEPT !.cache = Offline]
        \/ corridor_for(c) = [Connected(c) EXCEPT !.cache = db.loaded]
    BY DEF corridor_for
  <2>2. PICK b : b = Connected(c)
    OBVIOUS
  <2>3. IsConfigured(b) /\ b.database = c.database /\ b.routed = c.routed
    BY <1>3, <2>2 DEF SameEnvironment
  <2>4. PICK d : d = corridor_for(c)
    OBVIOUS
  <2>5. \/ d = c \/ d = [c EXCEPT !.cache = Offline] \/ d = [b EXCEPT !.cache = db.loaded]
    BY <2>1, <2>2, <2>4
  <2>6. SameEnvironment(c, d)
    BY <1>1, <2>3, <2>5 DEF SameEnvironment
  <2> QED
    BY <2>4, <2>6
<1>5. \A k : SameEnvironment(c, [c EXCEPT !.conflator = k])
  BY <1>1
<1>6. SameEnvironment(c, Cold(c.database, c.routed))
  BY DEF SameEnvironment, IsConfigured, Cold
<1> QED
  BY <1>2, <1>3, <1>4, <1>5, <1>6

\* Where a step raises, the payload explains it, or the database the container has.
LEMMA RaisedKeeps ==
    ASSUME IInv, Raised, InProgress, db' = db, SameEnvironment(container, container'),
           Malformed(run.payload) \/ (container.database /\ ~Served(container))
    PROVE  IInv'
<1>1. /\ run'.status = "failed" /\ run'.unserved = run.unserved
      /\ run'.payload = run.payload /\ run'.next = run.next /\ RunShape'
    BY DEF Raised, IInv, RunShape, Statuses
<1>2. DbShape' /\ IsConfigured(container')
    BY DEF IInv, DbShape, SameEnvironment
<1>3. PayloadArrived'
    BY <1>1 DEF IInv, PayloadArrived, InProgress
<1>4. ServiceIsKnown'
    BY <1>1 DEF ServiceIsKnown, InProgress
<1>5. FailuresAreExplained'
    BY <1>1 DEF IInv, ServiceIsKnown, FailuresAreExplained, SameEnvironment
<1> QED BY <1>1, <1>2, <1>3, <1>4, <1>5 DEF IInv, LoadsFromTheDatabase

\* A step that goes on leaves what is known of the service.
LEMMA GoesOnKeeps ==
    ASSUME IInv, InProgress, db' = db, SameEnvironment(container, container'),
           run'.unserved = run.unserved, run'.payload = run.payload, run'.next \in Nat \ {0},
           RunShape', run'.status \in Statuses \ {"failed", "idle"},
           run'.status = "loading" => container.database
    PROVE  IInv'
<1>1. Served(container)' <=> Served(container)
    BY DEF Served, SameEnvironment
<1>2. DbShape' /\ IsConfigured(container')
    BY DEF IInv, DbShape, SameEnvironment
<1>3. PayloadArrived'
    BY DEF IInv, PayloadArrived, InProgress
<1>4. ServiceIsKnown' /\ FailuresAreExplained'
    BY <1>1 DEF IInv, ServiceIsKnown, InProgress, FailuresAreExplained
<1> QED BY <1>2, <1>3, <1>4 DEF IInv, LoadsFromTheDatabase, SameEnvironment

LEMMA InitIInv == Init => IInv
<1> SUFFICES ASSUME Init PROVE IInv
    OBVIOUS
<1>1. RunShape /\ run.status = "idle"
    BY DEF Init, NoRun, RunShape, Statuses
<1>2. DbShape
    BY DEF Init, DbShape
<1>3. IsConfigured(container)
    BY DEF Init, IsConfigured, Cold
<1> QED BY <1>1, <1>2, <1>3 DEF IInv, PayloadArrived, LoadsFromTheDatabase, ServiceIsKnown,
                                 InProgress, FailuresAreExplained

\* The container is prepared.
LEMMA PreparationKeeps == IInv /\ (Prepare \/ Load \/ PrepareOffline) => IInv'
<1> SUFFICES ASSUME IInv, Prepare \/ Load \/ PrepareOffline PROVE IInv'
    OBVIOUS
<1>s. /\ RunShape /\ IsConfigured(container) /\ db' = db /\ InProgress
      /\ run.payload \in Payloads /\ run.next \in Nat \ {0}
    BY DEF IInv, PayloadArrived, Prepare, Load, PrepareOffline, InProgress
<1>0. ASSUME NEW status \in {"loading", "parsing"}, run' = [run EXCEPT !.status = status]
      PROVE  /\ run'.unserved = run.unserved /\ run'.payload = run.payload
             /\ run'.next \in Nat \ {0} /\ RunShape' /\ run'.status \in Statuses \ {"failed", "idle"}
             /\ run'.status = status
    BY <1>s, <1>0 DEF RunShape, Statuses
<1>1. CASE Prepare
    <2>1. PICK installed : /\ installed = set_corridor_source(container)
                           /\ SameEnvironment(container, installed)
        BY <1>1, <1>s, EnvironmentIsKept DEF Prepare
    <2>2. SameEnvironment(container, Connected(installed))
        BY <2>1, EnvironmentIsKept DEF SameEnvironment
    <2>3. SameEnvironment(container, container')
        BY <1>1, <2>1, <2>2 DEF Prepare
    <2>4. CASE Routable(container)
        <3>1. run' = [run EXCEPT !.status = "loading"] /\ container.database
            BY <1>1, <2>4 DEF Prepare
        <3> QED BY <1>0, <1>s, <2>3, <3>1, GoesOnKeeps
    <2>5. CASE ~Routable(container)
        <3>1. Raised /\ container.database /\ ~Served(container)
            BY <1>1, <2>5 DEF Prepare, Routable, Served, connect
        <3> QED BY <1>s, <2>3, <3>1, RaisedKeeps
    <2> QED BY <2>4, <2>5
<1>2. CASE Load
    <2>1. CASE load_corridor(container)
        <3>1. run' = [run EXCEPT !.status = "parsing"]
            BY <1>2, <2>1 DEF Load
        <3>2. PICK connected : /\ connected = Connected(container)
                               /\ SameEnvironment(container, connected)
            BY <1>s, EnvironmentIsKept
        <3>3. PICK k : k = db.loaded
            OBVIOUS
        <3>4. container' = [connected EXCEPT !.conflator = k]
            BY <1>2, <2>1, <3>2, <3>3 DEF Load
        <3>5. SameEnvironment(connected, container')
            BY <3>2, <3>4, EnvironmentIsKept DEF SameEnvironment
        <3>6. SameEnvironment(container, container')
            BY <3>2, <3>5 DEF SameEnvironment
        <3> QED BY <1>0, <1>s, <3>1, <3>6, GoesOnKeeps
    <2>2. CASE ~load_corridor(container)
        <3>1. Raised /\ container' = container /\ ~Served(container)
            BY <1>2, <2>2 DEF Load, load_corridor, Served, connect
        <3>2. container.database
            BY <1>2 DEF IInv, LoadsFromTheDatabase, Load
        <3> QED BY <1>s, <3>1, <3>2, RaisedKeeps DEF SameEnvironment
    <2> QED BY <2>1, <2>2
<1>3. CASE PrepareOffline
    <2>1. run' = [run EXCEPT !.status = "parsing"]
        BY <1>3 DEF PrepareOffline
    <2>2. PICK loaded : loaded = corridor_for(container) /\ SameEnvironment(container, loaded)
        BY <1>s, EnvironmentIsKept
    <2>3. container' = [loaded EXCEPT !.conflator = Offline]
        BY <1>3, <2>2 DEF PrepareOffline
    <2>4. SameEnvironment(container, container')
        BY <2>2, <2>3, EnvironmentIsKept DEF SameEnvironment
    <2> QED BY <1>0, <1>s, <2>1, <2>4, GoesOnKeeps
<1> QED BY <1>1, <1>2, <1>3

\* The payload is read.
LEMMA ReadingKeeps == IInv /\ (Read \/ Parse \/ Finish) => IInv'
<1> SUFFICES ASSUME IInv, Read \/ Parse \/ Finish PROVE IInv'
    OBVIOUS
<1>s. /\ RunShape /\ IsConfigured(container) /\ db' = db /\ InProgress
      /\ run.payload \in Payloads /\ run.next \in Nat \ {0} /\ run.status = "parsing"
    BY DEF IInv, PayloadArrived, Read, Parse, Finish, InProgress
<1>1. CASE Read
    <2>1. SameEnvironment(container, container')
        BY <1>1, <1>s DEF Read, SameEnvironment
    <2>2. CASE RaisesAtOnce(run.payload)
        BY <1>1, <1>s, <2>1, <2>2, RaisedKeeps DEF Read, Malformed
    <2>3. CASE ~RaisesAtOnce(run.payload)
        <3>1. /\ run'.unserved = run.unserved /\ run'.payload = run.payload
              /\ run'.next \in Nat \ {0} /\ RunShape' /\ run'.status \in {"parsing", "done"}
            BY <1>1, <1>s, <2>3 DEF Read, RunShape, Statuses
        <3> QED BY <1>s, <2>1, <3>1, GoesOnKeeps DEF Statuses
    <2> QED BY <2>2, <2>3
<1>2. CASE Parse
    <2> DEFINE r == run.payload.records[run.next]
    <2>1. CASE Raises(r)
        <3>0. run.next \in DOMAIN run.payload.records
            <4>1. run.next <= Len(run.payload.records)
                BY <1>2 DEF Parse
            <4>2. /\ Len(run.payload.records) \in Nat
                  /\ DOMAIN run.payload.records = 1..Len(run.payload.records)
                BY <1>s, IntakeAssumption
            <4> QED BY <1>s, <4>1, <4>2
        <3>1. Raised /\ container' = container
            BY <1>2, <2>1 DEF Parse
        <3>2. CASE Trips(run.payload.source, r)
            BY <1>s, <3>0, <3>1, <3>2, RaisedKeeps DEF Malformed, SameEnvironment
        <3>3. CASE ~Loadable(container)
            <4>1. container.database /\ ~Served(container)
                BY <1>s, <3>3 DEF Loadable, load_corridor, connect, Served, IsConfigured
            <4> QED BY <1>s, <3>1, <4>1, RaisedKeeps DEF SameEnvironment
        <3> QED BY <2>1, <3>2, <3>3 DEF Raises
    <2>2. CASE ~Raises(r)
        <3> DEFINE out == MapOf(r)
                   issues == run.issues \o About(run.next, out.issues)
                   seen == IF run.payload.source = "tiles" THEN SegmentsSeen(r, run.seen)
                           ELSE run.seen
                   candidates == run.candidates \o
                       [i \in DOMAIN out.candidates |->
                          [record |-> run.next, says |-> out.candidates[i],
                           mapping_issues |-> record_issues(issues, Len(run.issues))]]
        <3>0. run' = [run EXCEPT !.next = run.next + 1, !.issues = issues,
                                 !.off = run.off + out.off, !.seen = seen,
                                 !.candidates = candidates]
            BY <1>2, <2>2, Zenon DEF Parse
        <3> HIDE DEF out, issues, seen, candidates
        <3>1. \E iss, off, sn, cs :
                  run' = [run EXCEPT !.next = run.next + 1, !.issues = iss, !.off = off,
                                     !.seen = sn, !.candidates = cs]
            BY <3>0
        <3>2. /\ run'.unserved = run.unserved /\ run'.payload = run.payload
              /\ run'.next = run.next + 1 /\ RunShape' /\ run'.status = "parsing"
            BY <1>s, <3>1 DEF RunShape, Statuses
        <3>5. run'.next \in Nat \ {0}
            BY <1>s, <3>2
        <3>3. \/ container' = container \/ container' = corridor_for(container)
              \/ container' = Connected(container)
            BY <1>2, <2>2 DEF Parse
        <3>4. SameEnvironment(container, container')
            BY <1>s, <3>3, EnvironmentIsKept DEF SameEnvironment
        <3> QED BY <1>s, <3>2, <3>4, <3>5, GoesOnKeeps DEF Statuses
    <2> QED BY <2>1, <2>2
<1>3. CASE Finish
    <2>1. run' = [run EXCEPT !.status = "done"] /\ container' = container
        BY <1>3 DEF Finish
    <2>2. /\ run'.unserved = run.unserved /\ run'.payload = run.payload
          /\ run'.next \in Nat \ {0} /\ RunShape' /\ run'.status = "done"
        BY <1>s, <2>1 DEF RunShape, Statuses
    <2> QED BY <1>s, <2>1, <2>2, GoesOnKeeps DEF Statuses, SameEnvironment
<1> QED BY <1>1, <1>2, <1>3

\* What happens to the database, which the invocation in progress is told of.
LEMMA ServiceKeeps ==
    ASSUME IInv, container' = container, DbShape', NEW known,
           run' = [run EXCEPT !.unserved = known], run.unserved => known,
           ~Served(container)' => known \/ ~Served(container)
    PROVE  IInv'
<1>1. /\ run'.status = run.status /\ run'.payload = run.payload /\ run'.next = run.next
      /\ run'.unserved = known /\ RunShape'
    BY DEF IInv, RunShape
<1>2. PayloadArrived' /\ LoadsFromTheDatabase' /\ IsConfigured(container)'
    BY <1>1 DEF IInv, PayloadArrived, LoadsFromTheDatabase
<1>3. ServiceIsKnown' /\ FailuresAreExplained'
    BY <1>1 DEF IInv, ServiceIsKnown, InProgress, FailuresAreExplained
<1> QED BY <1>1, <1>2, <1>3 DEF IInv

LEMMA NextIInv == IInv /\ [Next]_vars => IInv'
<1> SUFFICES ASSUME IInv, [Next]_vars PROVE IInv'
    OBVIOUS
<1>s. RunShape /\ DbShape /\ IsConfigured(container)
    BY DEF IInv
<1>1. CASE UNCHANGED vars
    BY <1>1 DEF vars, IInv, RunShape, DbShape, PayloadArrived, LoadsFromTheDatabase,
               ServiceIsKnown, Served, InProgress, FailuresAreExplained
<1>2. ASSUME NEW p \in Payloads, Begin(p) PROVE IInv'
    <2>1. /\ run'.unserved = ~Served(container) /\ db' = db /\ container' = container
          /\ run'.payload = p /\ run'.next = 1 /\ run'.status \in {"preparing", "parsing"}
          /\ RunShape'
        BY <1>2 DEF Begin, NoRun, RunShape, Statuses
    <2>2. Served(container)' <=> Served(container)
        BY <2>1 DEF Served
    <2>3. PayloadArrived' /\ DbShape' /\ IsConfigured(container)'
        BY <1>s, <2>1 DEF PayloadArrived, DbShape
    <2> QED BY <2>1, <2>2, <2>3 DEF IInv, LoadsFromTheDatabase, ServiceIsKnown, FailuresAreExplained
<1>3. CASE Prepare \/ Load \/ PrepareOffline
    BY <1>3, PreparationKeeps
<1>4. CASE Read \/ Parse \/ Finish
    BY <1>4, ReadingKeeps
<1>5. CASE GoDown
    <2>1. DbShape'
        BY <1>s, <1>5 DEF GoDown, DbShape
    <2>2. PICK known : known = TRUE
        OBVIOUS
    <2>3. /\ run' = [run EXCEPT !.unserved = known] /\ container' = container
          /\ (run.unserved => known) /\ (~Served(container)' => known)
        BY <1>5, <2>2 DEF GoDown
    <2> QED BY <2>1, <2>3, ServiceKeeps
<1>6. CASE ComeBack
    <2>1. DbShape' /\ db'.holds = db.holds
        BY <1>s, <1>6 DEF ComeBack, DbShape
    <2>2. ~Served(container)
        BY <1>6 DEF ComeBack, Served
    <2>3. run' = [run EXCEPT !.unserved = run.unserved]
        BY <1>s, <1>6 DEF ComeBack, RunShape
    <2> QED BY <1>6, <2>1, <2>2, <2>3, ServiceKeeps DEF ComeBack
<1>7. CASE Fill
    <2>1. DbShape'
        BY <1>s, <1>7 DEF Fill, DbShape
    <2>2. PICK known : known = (run.unserved \/ ~Served(container)')
        OBVIOUS
    <2>3. /\ run' = [run EXCEPT !.unserved = known] /\ container' = container
          /\ (run.unserved => known) /\ (~Served(container)' => known)
        BY <1>7, <2>2 DEF Fill
    <2> QED BY <2>1, <2>3, ServiceKeeps
<1>8. CASE Reload
    <2>1. DbShape' /\ db'.holds = db.holds /\ db'.up = db.up
        BY <1>s, <1>8 DEF Reload, DbShape
    <2>2. Served(container)' <=> Served(container)
        BY <1>8, <2>1 DEF Reload, Served
    <2>3. run' = [run EXCEPT !.unserved = run.unserved]
        BY <1>s, <1>8 DEF Reload, RunShape
    <2> QED BY <1>8, <2>1, <2>2, <2>3, ServiceKeeps DEF Reload
<1>9. CASE Recycle
    <2>1. /\ SameEnvironment(container, container') /\ run' = run /\ db' = db
          /\ run.status \in {"done", "failed"}
        BY <1>s, <1>9, EnvironmentIsKept DEF Recycle
    <2>2. ServiceIsKnown' /\ LoadsFromTheDatabase'
        BY <2>1 DEF ServiceIsKnown, InProgress, LoadsFromTheDatabase
    <2>3. FailuresAreExplained'
        BY <2>1 DEF IInv, FailuresAreExplained, SameEnvironment
    <2>4. RunShape' /\ DbShape' /\ PayloadArrived' /\ IsConfigured(container')
        BY <2>1 DEF IInv, RunShape, DbShape, PayloadArrived, SameEnvironment
    <2> QED BY <2>2, <2>3, <2>4 DEF IInv
<1> QED BY <1>1, <1>2, <1>3, <1>4, <1>5, <1>6, <1>7, <1>8, <1>9 DEF Next

\* An invocation fails for its own payload's sake, or because the database it needs was away
\* during it or did not hold the corridor; never for what an earlier invocation left behind,
\* whatever it was given (core/dbconn.py: connect; handlers/normalizer.py: _conflator, _route,
\* handler; core/postgis.py: load_corridor).
THEOREM FailuresAreAlwaysExplained == Spec => []FailuresAreExplained
<1>1. IInv => FailuresAreExplained
    BY DEF IInv
<1> QED BY <1>1, InitIInv, NextIInv, PTL DEF Spec

(***************************************************************************)
(* Part 2.  What an adapter answers for one record.                        *)
(***************************************************************************)

\* A function on 1..n.
IsSeq(s) == Len(s) \in Nat /\ s = [i \in 1..Len(s) |-> s[i]]

LEMMA SeqJoined ==
    ASSUME NEW s, NEW t, IsSeq(s), IsSeq(t)
    PROVE  /\ IsSeq(s \o t) /\ Len(s \o t) = Len(s) + Len(t)
           /\ \A i \in 1..Len(s) : (s \o t)[i] = s[i]
           /\ \A i \in 1..Len(t) : (s \o t)[Len(s) + i] = t[i]
<1> DEFINE S == {s[i] : i \in 1..Len(s)} \cup {t[i] : i \in 1..Len(t)}
<1>1. s \in Seq(S) /\ t \in Seq(S)
  <2>1. s \in [1..Len(s) -> S] /\ t \in [1..Len(t) -> S]
    BY DEF IsSeq
  <2> QED
    BY <2>1, SeqDef DEF IsSeq
<1> HIDE DEF S
<1>2. /\ s \o t \in Seq(S) /\ Len(s \o t) = Len(s) + Len(t)
      /\ \A i \in 1..Len(s) + Len(t) : (s \o t)[i] = IF i <= Len(s) THEN s[i] ELSE t[i - Len(s)]
  BY <1>1, ConcatProperties
<1>3. s \o t = [i \in 1..Len(s \o t) |-> (s \o t)[i]] /\ Len(s \o t) \in Nat
  BY <1>2, LenProperties
<1>4. Len(s) \in Nat /\ Len(t) \in Nat
  BY DEF IsSeq
<1>5. ASSUME NEW i \in 1..Len(s) PROVE (s \o t)[i] = s[i]
  BY <1>2, <1>4
<1>6. ASSUME NEW i \in 1..Len(t) PROVE (s \o t)[Len(s) + i] = t[i]
  <2>1. Len(s) + i \in 1..Len(s) + Len(t) /\ ~(Len(s) + i <= Len(s)) /\ Len(s) + i - Len(s) = i
    BY <1>4
  <2> QED
    BY <1>2, <2>1
<1> QED
  BY <1>2, <1>3, <1>5, <1>6 DEF IsSeq

LEMMA SeqIsSeq ==
    ASSUME NEW S, NEW s \in Seq(S)
    PROVE  IsSeq(s)
BY LenProperties DEF IsSeq

LEMMA ShortSeqs ==
    /\ IsSeq(<<>>) /\ Len(<<>>) = 0
    /\ \A x : IsSeq(<<x>>) /\ Len(<<x>>) = 1
    /\ \A x, y : IsSeq(<<x, y>>) /\ Len(<<x, y>>) = 2
<1>1. <<>> \in Seq({}) /\ Len(<<>>) = 0
  OBVIOUS
<1>2. ASSUME NEW x PROVE <<x>> \in Seq({x}) /\ Len(<<x>>) = 1
  OBVIOUS
<1>3. ASSUME NEW x, NEW y PROVE <<x, y>> \in Seq({x, y}) /\ Len(<<x, y>>) = 2
  OBVIOUS
<1> QED
  BY <1>1, <1>2, <1>3, SeqIsSeq

\* The names an issue is filed under.
FieldNames ==
    {"ends", "severity", "geometry", "direction", "lanes[]", "lanes"}
    \cup {"end_date", "vehicle_impact", "EncodedPolyline", "LanesAffected", "StartDate",
          "PlannedEndDate"}
    \cup {"Restrictions", "EventType", "Latitude", "milepost", "milepost gap", "off-axis"}
    \cup {"description", "starttime", "endtime", "updated", "$[]", "eventType"}
    \cup {"longitude/latitude", "times", "tile", "layer", "kind"}

LEMMA FieldNamesAreFew == IsFiniteSet(FieldNames)
<1>1. \A a, b, c, d, e, f : IsFiniteSet({a, b, c, d, e, f})
  <2> TAKE a, b, c, d, e, f
  <2>1. IsFiniteSet({a})
    BY FS_Singleton
  <2>2. IsFiniteSet({a} \cup {b})
    BY <2>1, FS_AddElement
  <2>3. IsFiniteSet({a} \cup {b} \cup {c})
    BY <2>2, FS_AddElement
  <2>4. IsFiniteSet({a} \cup {b} \cup {c} \cup {d})
    BY <2>3, FS_AddElement
  <2>5. IsFiniteSet({a} \cup {b} \cup {c} \cup {d} \cup {e})
    BY <2>4, FS_AddElement
  <2>6. IsFiniteSet({a} \cup {b} \cup {c} \cup {d} \cup {e} \cup {f})
    BY <2>5, FS_AddElement
  <2>7. {a} \cup {b} \cup {c} \cup {d} \cup {e} \cup {f} = {a, b, c, d, e, f}
    OBVIOUS
  <2> QED
    BY <2>6, <2>7
<1>2. {"longitude/latitude", "times", "tile", "layer", "kind"}
      = {"longitude/latitude", "times", "tile", "layer", "kind", "kind"}
  OBVIOUS
<1>3. IsFiniteSet({"longitude/latitude", "times", "tile", "layer", "kind"})
  BY <1>1, <1>2
<1>4. \A S, T : IsFiniteSet(S) /\ IsFiniteSet(T) => IsFiniteSet(S \cup T)
  BY FS_Union
<1> QED
  BY <1>1, <1>3, <1>4 DEF FieldNames

LEMMA Named ==
    /\ "ends" \in FieldNames /\ "severity" \in FieldNames /\ "geometry" \in FieldNames
    /\ "direction" \in FieldNames /\ "lanes[]" \in FieldNames /\ "lanes" \in FieldNames
    /\ "end_date" \in FieldNames /\ "vehicle_impact" \in FieldNames
    /\ "EncodedPolyline" \in FieldNames /\ "LanesAffected" \in FieldNames
    /\ "StartDate" \in FieldNames /\ "PlannedEndDate" \in FieldNames
    /\ "Restrictions" \in FieldNames /\ "EventType" \in FieldNames
    /\ "Latitude" \in FieldNames /\ "milepost" \in FieldNames
    /\ "milepost gap" \in FieldNames /\ "off-axis" \in FieldNames
    /\ "description" \in FieldNames /\ "starttime" \in FieldNames
    /\ "endtime" \in FieldNames /\ "updated" \in FieldNames /\ "$[]" \in FieldNames
    /\ "eventType" \in FieldNames /\ "longitude/latitude" \in FieldNames
    /\ "times" \in FieldNames /\ "tile" \in FieldNames /\ "layer" \in FieldNames
    /\ "kind" \in FieldNames
BY DEF FieldNames

LEMMA NotedIsNamed ==
    ASSUME NEW field \in FieldNames
    PROVE  \A condition \in BOOLEAN : Noted(condition, field) \subseteq FieldNames
BY DEF Noted


\* Candidates or none, with issues by name; what is off the corridor has no candidate.
IsAnswer(out) ==
    /\ IsSeq(out.candidates) /\ out.issues \subseteq FieldNames /\ out.off \in {0, 1}
    /\ out.off = 1 => out.candidates = <<>>

IsMapped(out) ==
    IsSeq(out.candidates) /\ out.candidates # <<>> /\ out.issues \subseteq FieldNames /\ out.off = 0

IsNothing(out) == out.candidates = <<>> /\ out.issues = {} /\ out.off = 0

LEMMA Answers ==
    /\ IsAnswer(Skipped) /\ Skipped.off = 0
    /\ IsAnswer(OffCorridor) /\ ~IsNothing(OffCorridor)
    /\ \A field \in FieldNames :
          IsAnswer(Refused(field)) /\ Refused(field).off = 0 /\ ~IsNothing(Refused(field))
    /\ \A issues \in SUBSET FieldNames :
          IsAnswer(Outcome(<<>>, issues, 1)) /\ ~IsNothing(Outcome(<<>>, issues, 1))
BY ShortSeqs DEF IsAnswer, IsNothing, Skipped, OffCorridor, Refused, Outcome

LEMMA MappedIsAnswer ==
    ASSUME NEW out, IsMapped(out)
    PROVE  IsAnswer(out) /\ ~IsNothing(out) /\ out.off = 0
BY DEF IsMapped, IsAnswer, IsNothing

LEMMA MappedOne ==
    ASSUME NEW c, NEW issues \in SUBSET FieldNames
    PROVE  IsMapped(Mapped(<<c>>, issues))
<1>1. IsSeq(<<c>>) /\ <<c>> # <<>>
  BY ShortSeqs
<1> QED
  BY <1>1 DEF IsMapped, Mapped, Outcome

\* What the filter of each feed keeps.
NwsWants(r) == r.alert # "rip current"

LEMMA NwsAnswers ==
    ASSUME NEW r, NEW at
    PROVE  LET out == MapNws(r, at)
           IN  /\ IsAnswer(out)
               /\ out.off = 1 => NwsWants(r)
               /\ IsNothing(out) => ~NwsWants(r)
<1> DEFINE classes == WeatherClasses(r.alert)
           some == [i \in DOMAIN classes |-> Candidate(classes[i], at, "BOTH", {})]
<1>1. IsSeq(some) /\ some # <<>>
  <2>1. DOMAIN classes = 1..1 \/ DOMAIN classes = 1..2
    <3>1. \/ classes = <<"weather", "road_surface">> \/ classes = <<"weather">>
      BY DEF WeatherClasses
    <3>2. \A x, y : DOMAIN <<x>> = 1..1 /\ DOMAIN <<x, y>> = 1..2
      BY ShortSeqs DEF IsSeq
    <3> QED
      BY <3>1, <3>2
  <2>2. ASSUME NEW n \in Nat \ {0}, DOMAIN classes = 1..n PROVE IsSeq(some) /\ some # <<>>
    <3>1. some \in [1..n -> {Candidate(classes[i], at, "BOTH", {}) : i \in 1..n}]
      BY <2>2
    <3> HIDE DEF some
    <3>2. some \in Seq({Candidate(classes[i], at, "BOTH", {}) : i \in 1..n})
      BY <3>1, SeqDef
    <3>3. Len(some) = n
      BY <3>1, <3>2, LenProperties
    <3> QED
      BY <3>2, <3>3, SeqIsSeq, ShortSeqs
  <2> QED
    BY <2>1, <2>2
<1>2. IsMapped(NwsAlert(r, at))
  <2>1. /\ NwsAlert(r, at).candidates = some /\ NwsAlert(r, at).off = 0
        /\ NwsAlert(r, at).issues \subseteq FieldNames
    BY Named DEF NwsAlert, Mapped, Outcome, Noted
  <2> HIDE DEF some
  <2> QED
    BY <1>1, <2>1 DEF IsMapped
<1> QED
  <2> DEFINE out == MapNws(r, at)
  <2>1. \/ ~NwsWants(r) /\ out = Skipped
        \/ /\ NwsWants(r)
           /\ out = Refused("geometry") \/ out = OffCorridor \/ out = NwsAlert(r, at)
    BY DEF MapNws, NwsWants
  <2>2. IsAnswer(NwsAlert(r, at)) /\ ~IsNothing(NwsAlert(r, at)) /\ NwsAlert(r, at).off = 0
    BY <1>2, MappedIsAnswer
  <2> HIDE DEF out
  <2>3. IsAnswer(out)
    BY <2>2, <2>1, Answers, Named
  <2>4. IsNothing(out) => ~NwsWants(r)
    BY <2>2, <2>1, Answers, Named
  <2>5. ~NwsWants(r) => out.off = 0
    BY <2>2, <2>1, Answers, Named
  <2> QED
    BY <2>3, <2>4, <2>5 DEF out

LEMMA OkAnswers ==
    ASSUME NEW r, NEW at, NEW regenerated
    PROVE  LET out == MapOk(r, at, regenerated)
           IN  IsAnswer(out) /\ (out.off = 1 => r.here) /\ (IsNothing(out) => ~r.here)
<1>1. IsMapped(OkWorkZone(r, at, regenerated))
  <2> DEFINE c == OkWorkZone(r, at, regenerated).candidates[1]
             issues == OkWorkZone(r, at, regenerated).issues
  <2>1. issues \in SUBSET FieldNames
    BY Named DEF OkWorkZone, Mapped, Outcome, Known, Noted
  <2>2. OkWorkZone(r, at, regenerated) = Mapped(<<c>>, issues)
    BY DEF OkWorkZone, Mapped, Outcome
  <2> QED
    BY <2>1, <2>2, MappedOne
<1> QED
  <2> DEFINE out == MapOk(r, at, regenerated)
  <2>1. \/ ~r.here /\ out = Skipped
        \/ r.here /\ (out = Outcome(<<>>, {"geometry"}, 1) \/ out = OkWorkZone(r, at, regenerated))
    BY DEF MapOk
  <2>2. IsAnswer(OkWorkZone(r, at, regenerated)) /\ ~IsNothing(OkWorkZone(r, at, regenerated)) /\ OkWorkZone(r, at, regenerated).off = 0
    BY <1>1, MappedIsAnswer
  <2> HIDE DEF out
  <2>3. IsAnswer(out)
    BY <2>2, <2>1, Answers, Named
  <2>4. IsNothing(out) => ~r.here
    BY <2>2, <2>1, Answers, Named
  <2>5. ~r.here => out.off = 0
    BY <2>2, <2>1, Answers, Named
  <2> QED
    BY <2>3, <2>4, <2>5 DEF out

LEMMA TxAnswers ==
    ASSUME NEW r, NEW at
    PROVE  LET out == MapTx(r, at)
           IN  IsAnswer(out) /\ (out.off = 1 => r.here) /\ (IsNothing(out) => ~r.here)
<1>1. IsMapped(TxWorkZone(r, at))
  <2> DEFINE c == TxWorkZone(r, at).candidates[1]
             issues == TxWorkZone(r, at).issues
  <2>1. issues \in SUBSET FieldNames
    BY Named DEF TxWorkZone, Mapped, Outcome, Known, Noted
  <2>2. TxWorkZone(r, at) = Mapped(<<c>>, issues)
    BY DEF TxWorkZone, Mapped, Outcome
  <2> QED
    BY <2>1, <2>2, MappedOne
<1> QED
  <2> DEFINE out == MapTx(r, at)
  <2>1. \/ ~r.here /\ out = Skipped
        \/ r.here /\ (out = OffCorridor \/ out = TxWorkZone(r, at))
    BY DEF MapTx
  <2>2. IsAnswer(TxWorkZone(r, at)) /\ ~IsNothing(TxWorkZone(r, at)) /\ TxWorkZone(r, at).off = 0
    BY <1>1, MappedIsAnswer
  <2> HIDE DEF out
  <2>3. IsAnswer(out)
    BY <2>2, <2>1, Answers, Named
  <2>4. IsNothing(out) => ~r.here
    BY <2>2, <2>1, Answers, Named
  <2>5. ~r.here => out.off = 0
    BY <2>2, <2>1, Answers, Named
  <2> QED
    BY <2>3, <2>4, <2>5 DEF out

LEMMA AzAnswers ==
    ASSUME NEW r, NEW at
    PROVE  LET out == MapAz(r, at)
           IN  IsAnswer(out) /\ (out.off = 1 => r.here) /\ (IsNothing(out) => ~r.here)
<1>1. IsMapped(AzEvent(r, at))
  <2> DEFINE c == AzEvent(r, at).candidates[1]
             issues == AzEvent(r, at).issues
  <2>1. issues \in SUBSET FieldNames
    BY Named DEF AzEvent, Mapped, Outcome, Known, Noted
  <2>2. AzEvent(r, at) = Mapped(<<c>>, issues)
    BY DEF AzEvent, Mapped, Outcome
  <2> QED
    BY <2>1, <2>2, MappedOne
<1> QED
  <2> DEFINE out == MapAz(r, at)
  <2>1. \/ ~r.here /\ out = Skipped
        \/ /\ r.here
           /\ \/ out = Refused("EventType") \/ out = Refused("Latitude")
              \/ out = OffCorridor \/ out = AzEvent(r, at)
    BY DEF MapAz
  <2>2. IsAnswer(AzEvent(r, at)) /\ ~IsNothing(AzEvent(r, at)) /\ AzEvent(r, at).off = 0
    BY <1>1, MappedIsAnswer
  <2> HIDE DEF out
  <2>3. IsAnswer(out)
    BY <2>2, <2>1, Answers, Named
  <2>4. IsNothing(out) => ~r.here
    BY <2>2, <2>1, Answers, Named
  <2>5. ~r.here => out.off = 0
    BY <2>2, <2>1, Answers, Named
  <2> QED
    BY <2>3, <2>4, <2>5 DEF out

\* A record that is no object is refused, another agency's is not this feed's to report.
NmWants(r) == r.upstream = "not an object" \/ (r.upstream = "NMDOT" /\ r.here)

LEMMA NmAnswers ==
    ASSUME NEW r, NEW at, NEW named
    PROVE  LET out == MapNm(r, at, named)
           IN  IsAnswer(out) /\ (out.off = 1 => NmWants(r)) /\ (IsNothing(out) => ~NmWants(r))
<1> DEFINE extent == ResolveExtent(r, at, named)
<1>1. extent.issues \subseteq FieldNames
  BY Named DEF ResolveExtent, Noted
<1>2. MapNm(r, at, named) =
        IF r.upstream = "not an object" THEN Refused("$[]")
        ELSE IF r.upstream # "NMDOT" \/ ~r.here THEN Skipped
        ELSE IF NmClass(r.type) = None THEN Refused("eventType")
        ELSE IF r.place = None THEN Refused("longitude/latitude")
        ELSE IF ~extent.at.on THEN Outcome(<<>>, extent.issues, 1)
        ELSE NmEvent(r, extent)
  BY DEF MapNm
<1> HIDE DEF extent
<1>3. IsMapped(NmEvent(r, extent))
  <2> DEFINE c == NmEvent(r, extent).candidates[1]
             issues == NmEvent(r, extent).issues
  <2>1. issues \in SUBSET FieldNames
    BY <1>1, Named DEF NmEvent, Mapped, Outcome, Known, Noted
  <2>2. NmEvent(r, extent) = Mapped(<<c>>, issues)
    BY DEF NmEvent, Mapped, Outcome
  <2> QED
    BY <2>1, <2>2, MappedOne
<1> QED
  <2> DEFINE out == MapNm(r, at, named)
  <2>1. \/ ~NmWants(r) /\ out = Skipped
        \/ /\ NmWants(r)
           /\ \/ out = Refused("$[]") \/ out = Refused("eventType")
              \/ out = Refused("longitude/latitude")
              \/ out = Outcome(<<>>, extent.issues, 1) \/ out = NmEvent(r, extent)
    BY <1>2 DEF NmWants
  <2>2. IsAnswer(NmEvent(r, extent)) /\ ~IsNothing(NmEvent(r, extent)) /\ NmEvent(r, extent).off = 0
    BY <1>3, MappedIsAnswer
  <2> HIDE DEF out
  <2>3. IsAnswer(out)
    BY <1>1, <2>2, <2>1, Answers, Named
  <2>4. IsNothing(out) => ~NmWants(r)
    BY <1>1, <2>2, <2>1, Answers, Named
  <2>5. ~NmWants(r) => out.off = 0
    BY <1>1, <2>2, <2>1, Answers, Named
  <2> QED
    BY <2>3, <2>4, <2>5 DEF out

\* A tile's segment is looked at once.
TileWants(r, seen) == ~TileFilters(r) /\ ~(r.segment # None /\ SegmentOf(r) \in seen)

LEMMA TileAnswers ==
    ASSUME NEW r, NEW at, NEW seen
    PROVE  LET out == MapTile(r, at, seen)
           IN  /\ IsAnswer(out)
               /\ out.off = 1 => TileWants(r, seen)
               /\ IsNothing(out) => ~TileWants(r, seen)
<1>1. IsMapped(TileEvent(r, at))
  <2> DEFINE c == TileEvent(r, at).candidates[1]
             issues == TileEvent(r, at).issues
  <2>1. issues \in SUBSET FieldNames
    BY Named DEF TileEvent, Mapped, Outcome, Known, Noted
  <2>2. TileEvent(r, at) = Mapped(<<c>>, issues)
    BY DEF TileEvent, Mapped, Outcome
  <2> QED
    BY <2>1, <2>2, MappedOne
<1> QED
  <2> DEFINE out == MapTile(r, at, seen)
  <2>1. \/ ~TileWants(r, seen) /\ out = Skipped
        \/ out = Refused("tile") \/ out = Refused("layer") \/ out = Refused("kind")
        \/ out = Refused("geometry")
        \/ TileWants(r, seen) /\ (out = OffCorridor \/ out = TileEvent(r, at))
    BY DEF MapTile, TileWants
  <2>2. IsAnswer(TileEvent(r, at)) /\ ~IsNothing(TileEvent(r, at)) /\ TileEvent(r, at).off = 0
    BY <1>1, MappedIsAnswer
  <2> HIDE DEF out
  <2>3. IsAnswer(out)
    BY <2>2, <2>1, Answers, Named
  <2>4. IsNothing(out) => ~TileWants(r, seen)
    BY <2>2, <2>1, Answers, Named
  <2>5. ~TileWants(r, seen) => out.off = 0
    BY <2>2, <2>1, Answers, Named
  <2> QED
    BY <2>3, <2>4, <2>5 DEF out

(***************************************************************************)
(* Part 3.  The payload record by record.                                  *)
(***************************************************************************)

\* The records behind the reader.
Behind == 1..(run.next - 1)

Without == {m \in Behind : Wanted(m) /\ Produced(m) = {}}
Silent  == {m \in Without : Fields(m) = {}}

PayloadIsGiven ==
    /\ run.next \in Nat \ {0} /\ run.off \in Nat
    /\ run.status # "idle" => /\ run.payload \in Payloads
                              /\ run.next <= Len(run.payload.records) + 1

RecordsAreRead ==
    /\ IsSeq(run.issues) /\ IsSeq(run.candidates)
    /\ \A i \in 1..Len(run.issues) : run.issues[i].record \in 0..(run.next - 1)
    /\ \A i \in 1..Len(run.candidates) : run.candidates[i].record \in Behind

SeenWereLookedAt ==
    run.status # "idle" /\ run.payload.source = "tiles" =>
        run.seen = {SegmentOf(run.payload.records[m]) :
                      m \in {k \in Behind : /\ LookedAt(run.payload.records[k])
                                           /\ run.payload.records[k].segment # None}}

OffAreCounted ==
    Cardinality(Silent) <= run.off /\ run.off <= Cardinality(Without)

DoneIsThrough ==
    run.status = "done" /\ run.payload.shape = "payload" => run.next = Len(run.payload.records) + 1

AInv ==
    /\ PayloadIsGiven /\ RecordsAreRead /\ SeenWereLookedAt /\ OffAreCounted
    /\ DoneIsThrough /\ IssuesFollowTheirRecord

LEMMA FunctionIsSeq ==
    ASSUME NEW k \in Nat, NEW f, f = [i \in 1..k |-> f[i]]
    PROVE  IsSeq(f) /\ Len(f) = k
<1> DEFINE S == {f[i] : i \in 1..k}
<1>1. f \in [1..k -> S]
  OBVIOUS
<1>2. f \in Seq(S)
  BY <1>1, SeqDef
<1>3. Len(f) = k
  BY <1>1, <1>2, LenProperties
<1> QED
  BY <1>2, <1>3, SeqIsSeq

LEMMA LengthlessIsEmpty == ASSUME NEW s, IsSeq(s), Len(s) = 0 PROVE s = <<>>
BY ShortSeqs DEF IsSeq

\* The issues about a record are as many as their names.
LEMMA AboutARecord ==
    ASSUME NEW n, NEW fields \in SUBSET FieldNames
    PROVE  /\ IsSeq(About(n, fields))
           /\ \A i \in 1..Len(About(n, fields)) : About(n, fields)[i].record = n
           /\ Len(About(n, fields)) = 0 => fields = {}
<1>1. IsFiniteSet(fields)
  BY FieldNamesAreFew, FS_Subset
<1>2. Cardinality(fields) \in Nat /\ (Cardinality(fields) = 0 => fields = {})
  BY <1>1, FS_CardinalityType, FS_EmptySet
<1> DEFINE about == About(n, fields)
           k == Cardinality(fields)
<1>3. about = [i \in 1..k |-> about[i]] /\ \A i \in 1..k : about[i].record = n
  BY DEF About
<1> HIDE DEF about, k
<1>4. IsSeq(about) /\ Len(about) = k
  BY <1>2, <1>3, FunctionIsSeq DEF k
<1> QED
  BY <1>2, <1>3, <1>4 DEF about, k

\* What every adapter answers, whatever its source.
LEMMA EveryAnswer ==
    ASSUME PayloadIsGiven, SeenWereLookedAt, run.status = "parsing",
           run.next <= Len(run.payload.records)
    PROVE  LET out == MapOf(run.payload.records[run.next])
           IN  /\ IsAnswer(out)
               /\ out.off = 1 => Wanted(run.next)
               /\ IsNothing(out) => ~Wanted(run.next)
<1> DEFINE r  == run.payload.records[run.next]
           at == Placement(r)
           regenerated == regenerated_end_date_minutes(Ends(run.payload.records))
           named == IF ReadsMilepost(r) THEN ConflateMilepost(r.mileposts) ELSE None
           out == MapOf(r)
<1>1. run.payload \in Payloads /\ run.payload.source \in {"nws", "ok", "tx", "az", "nm", "tiles"}
  BY IntakeAssumption DEF PayloadIsGiven
<1>2. CASE run.payload.source = "nws"
  <2>1. out = MapNws(r, at) /\ Wanted(run.next) = NwsWants(r)
    BY <1>2, Zenon DEF MapOf, Wanted, NwsWants
  <2> QED
    BY <2>1, NwsAnswers
<1>3. CASE run.payload.source = "ok"
  <2>1. out = MapOk(r, at, regenerated) /\ Wanted(run.next) = r.here
    BY <1>3 DEF MapOf, Wanted
  <2> QED
    BY <2>1, OkAnswers
<1>4. CASE run.payload.source = "tx"
  <2>1. out = MapTx(r, at) /\ Wanted(run.next) = r.here
    BY <1>4 DEF MapOf, Wanted
  <2> QED
    BY <2>1, TxAnswers
<1>5. CASE run.payload.source = "az"
  <2>1. out = MapAz(r, at) /\ Wanted(run.next) = r.here
    BY <1>5 DEF MapOf, Wanted
  <2> QED
    BY <2>1, AzAnswers
<1>6. CASE run.payload.source = "nm"
  <2>1. out = MapNm(r, at, named) /\ Wanted(run.next) = NmWants(r)
    BY <1>6 DEF MapOf, Wanted, NmWants
  <2> QED
    BY <2>1, NmAnswers
<1>7. CASE run.payload.source = "tiles"
  <2>1. out = MapTile(r, at, run.seen)
    BY <1>7 DEF MapOf
  <2>2. Wanted(run.next) <=> TileWants(r, run.seen)
    <3>1. Wanted(run.next) <=>
            /\ ~TileFilters(r)
            /\ ~\E m \in Behind : /\ r.segment # None /\ LookedAt(run.payload.records[m])
                                  /\ SegmentOf(run.payload.records[m]) = SegmentOf(r)
      BY <1>7 DEF Wanted, Behind
    <3>2. run.seen = {SegmentOf(run.payload.records[m]) :
                        m \in {k \in Behind : /\ LookedAt(run.payload.records[k])
                                              /\ run.payload.records[k].segment # None}}
      BY <1>7 DEF SeenWereLookedAt
    <3>3. \A m \in Behind : SegmentOf(run.payload.records[m]) = SegmentOf(r)
                            => run.payload.records[m].segment = r.segment
      BY DEF SegmentOf
    <3> QED
      BY <3>1, <3>2, <3>3 DEF TileWants
  <2> QED
    BY <2>1, <2>2, TileAnswers
<1> QED
  BY <1>1, <1>2, <1>3, <1>4, <1>5, <1>6, <1>7

\* A step that leaves what was read as it is.
LEMMA NothingReadKeeps ==
    ASSUME AInv, run'.payload = run.payload, run'.next = run.next, run'.seen = run.seen,
           run'.issues = run.issues, run'.candidates = run.candidates, run'.off = run.off,
           run'.status # "idle" => run.status # "idle",
           run'.status = "done" => \/ run.status = "done" \/ run.payload.shape # "payload"
                                   \/ run.next = Len(run.payload.records) + 1
    PROVE  AInv'
<1>1. Behind' = Behind /\ \A m : Fields(m)' = Fields(m) /\ Produced(m)' = Produced(m)
  BY DEF Behind, Fields, Produced
<1>2. \A m : Wanted(m)' = Wanted(m)
  BY DEF Wanted
<1>3. Without' = Without /\ Silent' = Silent
  BY <1>1, <1>2 DEF Without, Silent
<1>4. PayloadIsGiven' /\ RecordsAreRead'
  BY <1>1 DEF AInv, PayloadIsGiven, RecordsAreRead
<1>5. SeenWereLookedAt'
  BY <1>1 DEF AInv, SeenWereLookedAt
<1>6. OffAreCounted'
  BY <1>3 DEF AInv, OffAreCounted
<1>7. DoneIsThrough'
  BY DEF AInv, DoneIsThrough
<1>8. IssuesFollowTheirRecord'
  BY DEF AInv, IssuesFollowTheirRecord
<1> QED
  BY <1>4, <1>5, <1>6, <1>7, <1>8 DEF AInv

\* Before the first record there is nothing to answer for.
LEMMA NothingReadYet ==
    ASSUME run'.next = 1, run'.off = 0, run'.candidates = <<>>, IsSeq(run'.issues),
           \A i \in 1..Len(run'.issues) : run'.issues[i].record = 0,
           run'.status # "idle" => run'.payload \in Payloads,
           run'.status # "idle" /\ run'.payload.source = "tiles" => run'.seen = {},
           run'.status = "done" => run'.payload.shape # "payload"
    PROVE  AInv'
<1>1. Behind' = {} /\ Without' = {} /\ Silent' = {} /\ Cardinality({}) = 0
  BY FS_EmptySet DEF Behind, Without, Silent
<1>2. run'.status # "idle" => Len(run'.payload.records) \in Nat
  BY IntakeAssumption
<1>3. PayloadIsGiven'
  BY <1>2 DEF PayloadIsGiven
<1>4. RecordsAreRead'
  BY ShortSeqs DEF RecordsAreRead
<1>5. SeenWereLookedAt'
  BY <1>1 DEF SeenWereLookedAt
<1>6. OffAreCounted'
  BY <1>1 DEF OffAreCounted
<1>7. DoneIsThrough'
  BY DEF DoneIsThrough
<1>8. IssuesFollowTheirRecord'
  <2>1. DOMAIN run'.candidates = {}
    BY ShortSeqs DEF IsSeq
  <2> QED
    BY <2>1 DEF IssuesFollowTheirRecord
<1> QED
  BY <1>3, <1>4, <1>5, <1>6, <1>7, <1>8 DEF AInv

\* What a record adds to what was read: issues and candidates of its own.
LEMMA ARecordIsRead ==
    ASSUME AInv, NEW n, n = run.next, NEW about, NEW more, NEW off,
           n \in Nat \ {0}, n <= Len(run.payload.records), run.payload \in Payloads,
           run.off \in Nat, off \in {0, 1}, run.status = "parsing",
           run'.status = "parsing", run'.payload = run.payload, run'.next = n + 1,
           run'.issues = run.issues \o about, run'.candidates = run.candidates \o more,
           run'.off = run.off + off,
           run'.seen = IF run.payload.source = "tiles"
                       THEN SegmentsSeen(run.payload.records[n], run.seen) ELSE run.seen,
           IsSeq(about), \A i \in 1..Len(about) : about[i].record = n,
           IsSeq(more), \A i \in 1..Len(more) : more[i].record = n,
           \A i \in 1..Len(more) : more[i].mapping_issues
                                     = record_issues(run.issues \o about, Len(run.issues)),
           off = 1 => more = <<>> /\ Wanted(n),
           more = <<>> /\ about = <<>> /\ off = 0 => ~Wanted(n)
    PROVE  AInv'
<1>b. Len(run.payload.records) \in Nat
  BY IntakeAssumption
<1>e. /\ IsSeq(run.issues) /\ IsSeq(run.candidates)
      /\ \A i \in 1..Len(run.issues) : run.issues[i].record \in 0..(n - 1)
      /\ \A i \in 1..Len(run.candidates) : run.candidates[i].record \in 1..(n - 1)
  BY DEF AInv, RecordsAreRead, Behind
<1> DEFINE li == Len(run.issues)
           la == Len(about)
           lc == Len(run.candidates)
           lm == Len(more)
<1>g. /\ IsSeq(run'.issues) /\ Len(run'.issues) = li + la /\ li \in Nat /\ la \in Nat
      /\ \A i \in 1..li : run'.issues[i] = run.issues[i]
      /\ \A i \in 1..la : run'.issues[li + i] = about[i]
  <2>1. li \in Nat /\ la \in Nat
    BY <1>e DEF IsSeq
  <2>2. /\ IsSeq(run.issues \o about) /\ Len(run.issues \o about) = li + la
        /\ \A i \in 1..li : (run.issues \o about)[i] = run.issues[i]
        /\ \A i \in 1..la : (run.issues \o about)[li + i] = about[i]
    BY <1>e, SeqJoined
  <2> QED
    BY <2>1, <2>2
<1>h. /\ IsSeq(run'.candidates) /\ Len(run'.candidates) = lc + lm /\ lc \in Nat /\ lm \in Nat
      /\ \A i \in 1..lc : run'.candidates[i] = run.candidates[i]
      /\ \A i \in 1..lm : run'.candidates[lc + i] = more[i]
  <2>1. lc \in Nat /\ lm \in Nat
    BY <1>e DEF IsSeq
  <2>2. /\ IsSeq(run.candidates \o more) /\ Len(run.candidates \o more) = lc + lm
        /\ \A i \in 1..lc : (run.candidates \o more)[i] = run.candidates[i]
        /\ \A i \in 1..lm : (run.candidates \o more)[lc + i] = more[i]
    BY <1>e, SeqJoined
  <2> QED
    BY <2>1, <2>2
<1> HIDE DEF li, la, lc, lm
\* Where the new ones lie.
<1>i. ASSUME NEW i \in 1..(li + la), i \notin 1..li
      PROVE  run'.issues[i].record = n
  <2>1. i - li \in 1..la /\ li + (i - li) = i
    BY <1>g, <1>i
  <2>2. run'.issues[i] = about[i - li]
    BY <1>g, <2>1
  <2> QED
    BY <2>1, <2>2 DEF la
<1>j. ASSUME NEW i \in 1..(lc + lm), i \notin 1..lc
      PROVE  /\ run'.candidates[i].record = n
             /\ run'.candidates[i].mapping_issues
                  = record_issues(run'.issues, li)
  <2>1. i - lc \in 1..lm /\ lc + (i - lc) = i
    BY <1>h, <1>j
  <2>2. run'.candidates[i] = more[i - lc]
    BY <1>h, <2>1
  <2> QED
    BY <2>1, <2>2 DEF lm, li
<1>k. /\ DOMAIN run.issues = 1..li /\ DOMAIN run'.issues = 1..(li + la)
      /\ DOMAIN run.candidates = 1..lc /\ DOMAIN run'.candidates = 1..(lc + lm)
  BY <1>e, <1>g, <1>h DEF IsSeq, li, lc
<1>l. Behind = 1..(n - 1) /\ Behind' = 1..n
  BY <1>b DEF Behind
<1>1. PayloadIsGiven'
  <2>1. run.off + off \in Nat
    OBVIOUS
  <2> QED
    BY <2>1, <1>b DEF PayloadIsGiven
<1>2. RecordsAreRead'
  <2>1. ASSUME NEW i \in 1..(li + la) PROVE run'.issues[i].record \in 0..n
    <3>1. CASE i \in 1..li
      <4>1. run'.issues[i] = run.issues[i] /\ run.issues[i].record \in 0..(n - 1)
        BY <3>1, <1>e, <1>g DEF li
      <4>2. \A x \in 0..(n - 1) : x \in 0..n
        OBVIOUS
      <4> QED
        BY <4>1, <4>2
    <3>2. CASE i \notin 1..li
      <4>1. run'.issues[i].record = n
        BY <3>2, <1>i
      <4>2. n \in 0..n
        OBVIOUS
      <4> QED
        BY <4>1, <4>2
    <3> QED
      BY <3>1, <3>2
  <2>2. ASSUME NEW i \in 1..(lc + lm) PROVE run'.candidates[i].record \in 1..n
    <3>1. CASE i \in 1..lc
      <4>1. /\ run'.candidates[i] = run.candidates[i]
            /\ run.candidates[i].record \in 1..(n - 1)
        BY <3>1, <1>e, <1>h DEF lc
      <4>2. \A x \in 1..(n - 1) : x \in 1..n
        OBVIOUS
      <4> QED
        BY <4>1, <4>2
    <3>2. CASE i \notin 1..lc
      <4>1. run'.candidates[i].record = n
        BY <3>2, <1>j
      <4>2. n \in 1..n
        OBVIOUS
      <4> QED
        BY <4>1, <4>2
    <3> QED
      BY <3>1, <3>2
  <2>3. run'.next - 1 = n
    BY <1>b
  <2> QED
    BY <2>1, <2>2, <2>3, <1>g, <1>h, <1>l DEF RecordsAreRead
<1>3. SeenWereLookedAt'
  <2> SUFFICES ASSUME run.payload.source = "tiles"
               PROVE  run'.seen = {SegmentOf(run.payload.records[m]) :
                          m \in {k \in 1..n : /\ LookedAt(run.payload.records[k])
                                              /\ run.payload.records[k].segment # None}}
    BY <1>l DEF SeenWereLookedAt
  <2> DEFINE r == run.payload.records[n]
             old == {k \in 1..(n - 1) : /\ LookedAt(run.payload.records[k])
                                        /\ run.payload.records[k].segment # None}
             new == {k \in 1..n : /\ LookedAt(run.payload.records[k])
                                  /\ run.payload.records[k].segment # None}
  <2>1. run.seen = {SegmentOf(run.payload.records[m]) : m \in old}
    BY <1>l DEF AInv, SeenWereLookedAt
  <2>2. new = IF LookedAt(r) /\ r.segment # None THEN old \cup {n} ELSE old
    <3>1. \A k : k \in 1..n <=> k \in 1..(n - 1) \/ k = n
      OBVIOUS
    <3> QED
      BY <3>1
  <2>3. run'.seen = IF LookedAt(r) /\ r.segment # None THEN run.seen \cup {SegmentOf(r)}
                    ELSE run.seen
    BY DEF SegmentsSeen
  <2> HIDE DEF old, new
  <2> QED
    BY <2>1, <2>2, <2>3 DEF new
<1>4. ASSUME NEW m \in 1..(n - 1)
      PROVE  Fields(m)' = Fields(m) /\ Produced(m)' = Produced(m) /\ Wanted(m)' = Wanted(m)
  <2>1. {j \in 1..(li + la) : run'.issues[j].record = m}
          = {j \in 1..li : run.issues[j].record = m}
    <3>1. 1..li \subseteq 1..(li + la) /\ m # n
      BY <1>g
    <3> QED
      BY <3>1, <1>g, <1>i
  <2>2. Fields(m)' = Fields(m)
    <3>1. \A j \in {k \in 1..li : run.issues[k].record = m} : run'.issues[j] = run.issues[j]
      BY <1>g
    <3> QED
      BY <2>1, <3>1, <1>k DEF Fields
  <2>3. Produced(m)' = Produced(m)
    <3>1. 1..lc \subseteq 1..(lc + lm) /\ m # n
      BY <1>h
    <3> QED
      BY <3>1, <1>h, <1>j, <1>k DEF Produced
  <2>4. Wanted(m)' = Wanted(m)
    BY DEF Wanted
  <2> QED
    BY <2>2, <2>3, <2>4
<1>5. Wanted(n)' = Wanted(n)
  BY DEF Wanted
<1>6. Produced(n)' = {} => more = <<>>
  <2>1. ASSUME lm # 0 PROVE lc + 1 \in Produced(n)'
    <3>1. lc + 1 \in 1..(lc + lm) /\ lc + 1 \notin 1..lc
      BY <1>h, <2>1
    <3> QED
      BY <3>1, <1>j, <1>k DEF Produced
  <2> QED
    BY <2>1, LengthlessIsEmpty DEF lm
<1>7. Fields(n)' = {} => about = <<>>
  <2>1. ASSUME la # 0 PROVE run'.issues[li + 1].field \in Fields(n)'
    <3>1. li + 1 \in 1..(li + la) /\ li + 1 \notin 1..li
      BY <1>g, <2>1
    <3> QED
      BY <3>1, <1>i, <1>k DEF Fields
  <2> QED
    BY <2>1, LengthlessIsEmpty DEF la
<1>8. OffAreCounted'
  <2>1. IsFiniteSet(Behind)
    <3>1. 1 \in Int /\ n - 1 \in Int
      OBVIOUS
    <3>2. IsFiniteSet(1..(n - 1))
      BY <3>1, FS_Interval
    <3> QED
      BY <3>2, <1>l
  <2>2. Without \subseteq Behind /\ Silent \subseteq Without
    BY DEF Without, Silent
  <2>3. /\ IsFiniteSet(Without) /\ IsFiniteSet(Silent) /\ n \notin Without /\ n \notin Silent
    <3>1. IsFiniteSet(Without)
      BY <2>1, <2>2, FS_Subset
    <3>2. IsFiniteSet(Silent)
      BY <3>1, <2>2, FS_Subset
    <3>3. n \notin Behind
      BY <1>l
    <3> QED
      BY <3>1, <3>2, <3>3, <2>2
  <2>4. /\ Cardinality(Without) \in Nat /\ Cardinality(Without \cup {n}) = Cardinality(Without) + 1
        /\ Cardinality(Silent) \in Nat /\ Cardinality(Silent \cup {n}) = Cardinality(Silent) + 1
        /\ IsFiniteSet(Without \cup {n}) /\ IsFiniteSet(Silent \cup {n})
    BY <2>3, FS_AddElement, FS_CardinalityType
  <2>5. Cardinality(Silent) <= run.off /\ run.off <= Cardinality(Without)
    BY DEF AInv, OffAreCounted
  <2>6. \A m : m \in Behind' <=> m \in Behind \/ m = n
    BY <1>l
  <2>7. /\ \A m \in Behind : m \in Without' <=> m \in Without
        /\ \A m \in Behind : m \in Silent' <=> m \in Silent
    BY <2>6, <1>4, <1>l DEF Without, Silent
  <2>8. /\ n \in Without' <=> Wanted(n) /\ Produced(n)' = {}
        /\ n \in Silent' <=> Wanted(n) /\ Produced(n)' = {} /\ Fields(n)' = {}
    BY <2>6, <1>5 DEF Without, Silent
  <2>9. Without' \subseteq Behind' /\ Silent' \subseteq Behind'
    BY DEF Without, Silent
  <2>10. CASE off = 1
    <3>1. Produced(n)' = {}
      <4>1. lm = 0
        BY <2>10, ShortSeqs DEF lm
      <4>2. \A i \in 1..(lc + lm) : run'.candidates[i].record # n
        <5>1. \A i \in 1..lc : run'.candidates[i].record # n
          BY <1>e, <1>h DEF lc
        <5> QED
          BY <4>1, <5>1, <1>h
      <4> QED
        BY <4>2, <1>k DEF Produced
    <3>2. Without' = Without \cup {n}
      BY <3>1, <2>2, <2>6, <2>7, <2>8, <2>9, <2>10
    <3>3. Silent' \subseteq Silent \cup {n}
      BY <2>6, <2>7, <2>9
    <3>4. Cardinality(Silent') <= Cardinality(Silent \cup {n}) /\ Cardinality(Silent') \in Nat
      BY <3>3, <2>4, FS_Subset, FS_CardinalityType
    <3>5. Cardinality(Without') = Cardinality(Without) + 1
      BY <3>2, <2>4
    <3>6. run'.off = run.off + 1
      BY <2>10
    <3> QED
      BY <3>4, <3>5, <3>6, <2>4, <2>5 DEF OffAreCounted
  <2>11. CASE off = 0
    <3>1. n \notin Silent'
      BY <2>8, <2>11, <1>6, <1>7
    <3>2. Silent' = Silent
      BY <3>1, <2>2, <2>6, <2>7, <2>9
    <3>3. Without \subseteq Without' /\ Without' \subseteq Without \cup {n}
      BY <2>2, <2>6, <2>7, <2>9
    <3>4. Cardinality(Without) <= Cardinality(Without') /\ Cardinality(Without') \in Nat
      BY <3>3, <2>4, FS_Subset, FS_CardinalityType
    <3>5. run'.off = run.off
      BY <2>11
    <3> QED
      BY <3>2, <3>4, <3>5, <2>4, <2>5 DEF OffAreCounted
  <2> QED
    BY <2>10, <2>11
<1>9. IssuesFollowTheirRecord'
  <2> SUFFICES ASSUME NEW i \in 1..(lc + lm)
               PROVE  \E first \in 1..(li + la + 1), last \in 0..(li + la) :
                         /\ run'.candidates[i].mapping_issues = SubSeq(run'.issues, first, last)
                         /\ \A j \in 1..(li + la) :
                               run'.issues[j].record = run'.candidates[i].record
                                 <=> j \in first..last
    BY <1>g, <1>k DEF IssuesFollowTheirRecord
  <2>1. CASE i \in 1..lc
    <3> DEFINE c == run.candidates[i]
    <3>1. run'.candidates[i] = c /\ c.record \in 1..(n - 1) /\ c.record # n
      BY <2>1, <1>e, <1>h DEF lc
    <3>2. PICK first \in 1..(li + 1), last \in 0..li :
              /\ c.mapping_issues = SubSeq(run.issues, first, last)
              /\ \A j \in 1..li : run.issues[j].record = c.record <=> j \in first..last
      BY <2>1, <1>k DEF AInv, IssuesFollowTheirRecord, li
    <3>3. first \in 1..(li + la + 1) /\ last \in 0..(li + la) /\ last <= li
      BY <1>g
    <3>4. SubSeq(run.issues, first, last) = SubSeq(run'.issues, first, last)
      <4>1. \A k \in 1..(1 + last - first) : k + first - 1 \in 1..li
        BY <1>g
      <4> QED
        BY <4>1, <1>g DEF SubSeq
    <3>5. ASSUME NEW j \in 1..(li + la)
          PROVE  run'.issues[j].record = c.record <=> j \in first..last
      <4>1. CASE j \in 1..li
        BY <4>1, <3>2, <1>g
      <4>2. CASE j \notin 1..li
        <5>1. j \notin first..last
          BY <4>2, <1>g
        <5> QED
          BY <5>1, <4>2, <3>1, <1>i
      <4> QED
        BY <4>1, <4>2
    <3> HIDE DEF c
    <3> QED
      BY <3>1, <3>2, <3>3, <3>4, <3>5
  <2>2. CASE i \notin 1..lc
    <3>1. /\ run'.candidates[i].record = n
          /\ run'.candidates[i].mapping_issues = SubSeq(run'.issues, li + 1, li + la)
      BY <2>2, <1>j, <1>g DEF record_issues
    <3>2. li + 1 \in 1..(li + la + 1) /\ li + la \in 0..(li + la)
      BY <1>g
    <3>3. ASSUME NEW j \in 1..(li + la)
          PROVE  run'.issues[j].record = n <=> j \in (li + 1)..(li + la)
      <4>1. CASE j \in 1..li
        <5>1. run'.issues[j].record # n
          BY <4>1, <1>e, <1>g DEF li
        <5>2. j \notin (li + 1)..(li + la)
          BY <4>1, <1>g
        <5> QED
          BY <5>1, <5>2
      <4>2. CASE j \notin 1..li
        <5>1. j \in (li + 1)..(li + la)
          BY <4>2, <1>g
        <5> QED
          BY <5>1, <4>2, <1>i
      <4> QED
        BY <4>1, <4>2
    <3> QED
      BY <3>1, <3>2, <3>3
  <2> QED
    BY <2>1, <2>2
<1>10. DoneIsThrough'
  BY DEF DoneIsThrough
<1> QED
  BY <1>1, <1>2, <1>3, <1>8, <1>9, <1>10 DEF AInv

LEMMA InitAInv == Init => AInv
<1> SUFFICES ASSUME Init PROVE AInv
  OBVIOUS
<1>1. Behind = {} /\ Without = {} /\ Silent = {} /\ Cardinality({}) = 0
  BY FS_EmptySet DEF Init, NoRun, Behind, Without, Silent
<1>2. PayloadIsGiven /\ SeenWereLookedAt /\ DoneIsThrough
  BY DEF Init, NoRun, PayloadIsGiven, SeenWereLookedAt, DoneIsThrough
<1>3. RecordsAreRead
  BY ShortSeqs DEF Init, NoRun, RecordsAreRead
<1>4. OffAreCounted
  BY <1>1 DEF Init, NoRun, OffAreCounted
<1>5. IssuesFollowTheirRecord
  <2>1. DOMAIN run.candidates = {}
    BY ShortSeqs DEF Init, NoRun, IsSeq
  <2> QED
    BY <2>1 DEF IssuesFollowTheirRecord
<1> QED
  BY <1>2, <1>3, <1>4, <1>5 DEF AInv

\* The record that is read: what its adapter answers, and the issues it was given.
LEMMA ParseKeeps == AInv /\ IInv /\ Parse => AInv'
<1> SUFFICES ASSUME AInv, IInv, Parse PROVE AInv'
  OBVIOUS
<1> DEFINE n == run.next
           r == run.payload.records[n]
           out == MapOf(r)
           about == About(n, out.issues)
           more == [i \in DOMAIN out.candidates |->
                      [record |-> n, says |-> out.candidates[i],
                       mapping_issues |-> record_issues(run.issues \o about, Len(run.issues))]]
<1>1. run.status = "parsing" /\ n <= Len(run.payload.records)
  BY DEF Parse
<1>2. CASE Raises(r)
  <2>1. run' = [run EXCEPT !.status = "failed"]
    BY <1>2 DEF Parse, Raised
  <2>2. /\ run'.payload = run.payload /\ run'.next = run.next /\ run'.seen = run.seen
        /\ run'.issues = run.issues /\ run'.candidates = run.candidates /\ run'.off = run.off
        /\ run'.status = "failed"
    BY <2>1 DEF IInv, RunShape
  <2> QED
    BY <1>1, <2>2, NothingReadKeeps
<1>3. CASE ~Raises(r)
  <2>1. run' = [run EXCEPT !.next = n + 1, !.issues = run.issues \o about,
                           !.off = run.off + out.off,
                           !.seen = IF run.payload.source = "tiles"
                                    THEN SegmentsSeen(r, run.seen) ELSE run.seen,
                           !.candidates = run.candidates \o more]
    BY <1>3, Zenon DEF Parse
  <2>2. /\ IsAnswer(out) /\ (out.off = 1 => Wanted(n)) /\ (IsNothing(out) => ~Wanted(n))
    BY <1>1, EveryAnswer DEF AInv
  <2>3. /\ n \in Nat \ {0} /\ run.off \in Nat /\ run.payload \in Payloads
    BY <1>1 DEF AInv, PayloadIsGiven
  <2>4. out.issues \in SUBSET FieldNames /\ IsSeq(out.candidates) /\ out.off \in {0, 1}
        /\ (out.off = 1 => out.candidates = <<>>)
    BY <2>2 DEF IsAnswer
  <2>5. /\ IsSeq(about) /\ \A i \in 1..Len(about) : about[i].record = n
        /\ Len(about) = 0 => out.issues = {}
    BY <2>4, AboutARecord
  <2>6. /\ IsSeq(more) /\ Len(more) = Len(out.candidates)
        /\ \A i \in 1..Len(more) : more[i].record = n
        /\ \A i \in 1..Len(more) :
              more[i].mapping_issues = record_issues(run.issues \o about, Len(run.issues))
    <3> DEFINE k == Len(out.candidates)
    <3> HIDE DEF out, about
    <3>1. k \in Nat /\ DOMAIN out.candidates = 1..k
      BY <2>4 DEF IsSeq
    <3>2. more = [i \in 1..k |-> more[i]]
      BY <3>1
    <3>3. \A i \in 1..k :
             /\ more[i].record = n
             /\ more[i].mapping_issues = record_issues(run.issues \o about, Len(run.issues))
      BY <3>1
    <3> HIDE DEF more, k
    <3>4. IsSeq(more) /\ Len(more) = k
      BY <3>1, <3>2, FunctionIsSeq
    <3> QED
      BY <3>3, <3>4 DEF k
  <2> HIDE DEF out, about, more
  <2>7. more = <<>> => out.candidates = <<>>
    BY <2>4, <2>6, LengthlessIsEmpty, ShortSeqs
  <2>8. out.candidates = <<>> => more = <<>>
    BY <2>6, LengthlessIsEmpty, ShortSeqs
  <2>9. more = <<>> /\ about = <<>> /\ out.off = 0 => ~Wanted(n)
    BY <2>2, <2>5, <2>7, ShortSeqs DEF IsNothing
  <2>10. out.off = 1 => more = <<>> /\ Wanted(n)
    BY <2>2, <2>4, <2>8
  <2>11. /\ run'.status = "parsing" /\ run'.payload = run.payload /\ run'.next = n + 1
         /\ run'.issues = run.issues \o about /\ run'.candidates = run.candidates \o more
         /\ run'.off = run.off + out.off
         /\ run'.seen = IF run.payload.source = "tiles" THEN SegmentsSeen(r, run.seen)
                        ELSE run.seen
    BY <1>1, <2>1 DEF IInv, RunShape
  <2> QED
    BY <1>1, <2>3, <2>4, <2>5, <2>6, <2>9, <2>10, <2>11, ARecordIsRead
<1> QED
  BY <1>2, <1>3

LEMMA NextAInv == AInv /\ IInv /\ [Next]_vars => AInv'
<1> SUFFICES ASSUME AInv, IInv, [Next]_vars PROVE AInv'
  OBVIOUS
<1>s. RunShape
  BY DEF IInv
<1> DEFINE Left == /\ run'.payload = run.payload /\ run'.next = run.next
                   /\ run'.seen = run.seen /\ run'.issues = run.issues
                   /\ run'.candidates = run.candidates /\ run'.off = run.off
<1>0. ASSUME Left, run'.status = run.status PROVE AInv'
  BY <1>0, NothingReadKeeps DEF AInv, DoneIsThrough
<1>1. CASE run' = run
  BY <1>0, <1>1
<1>2. ASSUME NEW p \in Payloads, Begin(p) PROVE AInv'
  <2>1. /\ run'.next = 1 /\ run'.off = 0 /\ run'.candidates = <<>> /\ run'.issues = <<>>
        /\ run'.payload = p /\ run'.seen = {} /\ run'.status # "done"
    BY <1>2 DEF Begin, NoRun
  <2> QED
    BY <2>1, NothingReadYet, ShortSeqs
<1>3. ASSUME NEW status \in {"loading", "parsing", "failed"}, run.status # "idle",
             run' = [run EXCEPT !.status = status]
      PROVE  AInv'
  <2>1. Left /\ run'.status = status
    BY <1>s, <1>3 DEF RunShape
  <2> HIDE DEF Left
  <2> QED
    BY <1>3, <2>1, NothingReadKeeps DEF Left
<1>4. CASE Prepare \/ Load \/ PrepareOffline
  <2>1. run.status # "idle"
        /\ \E status \in {"loading", "parsing", "failed"} : run' = [run EXCEPT !.status = status]
    BY <1>4 DEF Prepare, Load, PrepareOffline, Raised
  <2> QED
    BY <1>3, <2>1
<1>5. CASE Read /\ RaisesAtOnce(run.payload)
  <2>1. run.status # "idle" /\ run' = [run EXCEPT !.status = "failed"]
    BY <1>5 DEF Read, Raised
  <2> QED
    BY <1>3, <2>1
<1>10. CASE Read /\ ~RaisesAtOnce(run.payload)
  <2>1. /\ run.next = 1 /\ run.status = "parsing"
        /\ run'.issues = About(0, {"$"}) /\ run'.payload = run.payload
        /\ run'.next = 1 /\ run'.off = run.off /\ run'.seen = run.seen
        /\ run'.candidates = run.candidates
        /\ run'.status = IF run.payload.shape = "payload" THEN "parsing" ELSE "done"
    BY <1>s, <1>10 DEF Read, RunShape
  <2>2. Behind = {} /\ Without = {} /\ Cardinality({}) = 0
    BY <2>1, FS_EmptySet DEF Behind, Without
  <2>3. run.off = 0
    BY <2>2 DEF AInv, PayloadIsGiven, OffAreCounted
  <2>4. run.candidates = <<>>
    <3>1. IsSeq(run.candidates) /\ \A i \in 1..Len(run.candidates) : FALSE
      BY <2>2 DEF AInv, RecordsAreRead
    <3>2. Len(run.candidates) \in Nat
      BY <3>1 DEF IsSeq
    <3>3. Len(run.candidates) = 0
      BY <3>1, <3>2
    <3> QED
      BY <3>1, <3>3, LengthlessIsEmpty
  <2>5. run.payload.source = "tiles" => run.seen = {}
    BY <2>1, <2>2 DEF AInv, SeenWereLookedAt
  <2>6. IsSeq(run'.issues) /\ \A i \in 1..Len(run'.issues) : run'.issues[i].record = 0
    <3>1. Cardinality({"$"}) \in Nat
      <4>1. Cardinality({"$"}) = 1
        BY FS_Singleton
      <4> QED
        BY <4>1
    <3> DEFINE about == About(0, {"$"})
    <3>2. /\ about = [i \in 1..Cardinality({"$"}) |-> about[i]]
          /\ \A i \in 1..Cardinality({"$"}) : about[i].record = 0
      BY DEF About
    <3> HIDE DEF about
    <3>3. IsSeq(about) /\ Len(about) = Cardinality({"$"})
      BY <3>1, <3>2, FunctionIsSeq
    <3> QED
      BY <2>1, <3>2, <3>3 DEF about
  <2>7. run.payload \in Payloads
    BY <2>1 DEF AInv, PayloadIsGiven
  <2>8. run'.status = "done" => run'.payload.shape # "payload"
    BY <2>1
  <2> QED
    BY <2>1, <2>3, <2>4, <2>5, <2>6, <2>7, <2>8, NothingReadYet
<1>6. CASE Parse
  BY <1>6, ParseKeeps
<1>7. CASE Finish
  <2>1. /\ Left /\ run'.status = "done" /\ run.status = "parsing"
        /\ run.next > Len(run.payload.records)
    BY <1>s, <1>7 DEF Finish, RunShape
  <2>3. run.payload \in Payloads /\ run.next \in 1..(Len(run.payload.records) + 1)
    BY <2>1 DEF AInv, PayloadIsGiven
  <2>4. Len(run.payload.records) \in Nat
    BY <2>3, IntakeAssumption
  <2>2. run.next = Len(run.payload.records) + 1
    BY <2>1, <2>3, <2>4
  <2> HIDE DEF Left
  <2> QED
    BY <2>1, <2>2, NothingReadKeeps DEF Left
<1>8. CASE GoDown \/ Fill
  <2>1. Left /\ run'.status = run.status
    BY <1>s, <1>8 DEF GoDown, Fill, RunShape
  <2> QED
    BY <2>1, <1>0
<1> QED
  BY <1>1, <1>2, <1>4, <1>5, <1>6, <1>7, <1>8, <1>10 DEF Next, ComeBack, Reload, Recycle, vars

\* A candidate carries the issues about its own record, all of them and no other, however
\* many records and issues came before it (adapters/adapter.py: record_issues).
THEOREM IssuesStayWithTheirRecord == Spec => []IssuesFollowTheirRecord
<1>1. AInv => IssuesFollowTheirRecord
  BY DEF AInv
<1> QED
  BY <1>1, InitIInv, NextIInv, InitAInv, NextAInv, PTL DEF Spec

\* Whatever a payload holds, by its end each record that is about this corridor's road has
\* become a candidate, an issue or one of the counted (the loops of adapters/*.py).
THEOREM RecordsAreAnswered == Spec => []EveryRecordIsAnswered
<1>1. AInv => EveryRecordIsAnswered
  <2> SUFFICES ASSUME AInv, run.status = "done", run.payload.shape = "payload"
               PROVE  EveryRecordIsAnswered
    BY DEF EveryRecordIsAnswered
  <2>1. DOMAIN run.payload.records = 1..Len(run.payload.records)
        /\ Len(run.payload.records) \in Nat
    BY IntakeAssumption DEF AInv, PayloadIsGiven
  <2>2. Behind = DOMAIN run.payload.records
    BY <2>1 DEF AInv, DoneIsThrough, Behind
  <2> DEFINE without == {n \in DOMAIN run.payload.records : Wanted(n) /\ Produced(n) = {}}
  <2>3. without = Without /\ {n \in without : Fields(n) = {}} = Silent
    BY <2>2 DEF Without, Silent
  <2> QED
    BY <2>3, Zenon DEF AInv, OffAreCounted, EveryRecordIsAnswered
<1> QED
  BY <1>1, InitIInv, NextIInv, InitAInv, NextAInv, PTL DEF Spec

(***************************************************************************)
(* Part 4.  Every extent a candidate carries is a range of the corridor's  *)
(* measure, whatever the source said of the place.                         *)
(***************************************************************************)

\* A set of naturals has a least one.
LEMMA LeastOfNat ==
    ASSUME NEW S, S \subseteq Nat, S # {}
    PROVE  \E n \in S : \A m \in S : n <= m
<1>1. PICK n \in S : \A m \in S : ~ (<<m, n>> \in OpToRel(<, Nat))
  BY NatLessThanWellFounded, WFMin
<1>2. ASSUME NEW m \in S PROVE n <= m
  <2>1. m \in Nat /\ n \in Nat /\ ~(m < n)
    BY <1>1 DEF OpToRel
  <2> QED
    BY <2>1
<1> QED
  BY <1>2

\* A finite set has an element whose key no other exceeds: the one with the fewest above it.
LEMMA FiniteHasBound ==
    ASSUME NEW S, IsFiniteSet(S), S # {}, NEW key, \A x \in S : key[x] \in Int
    PROVE  \E x \in S : \A y \in S : key[y] <= key[x]
<1> DEFINE Above(x) == {y \in S : key[y] > key[x]}
           Sizes == {Cardinality(Above(x)) : x \in S}
<1>1. ASSUME NEW x \in S
      PROVE  IsFiniteSet(Above(x)) /\ Cardinality(Above(x)) \in Nat
  BY FS_Subset, FS_CardinalityType
<1>2. PICK n \in Sizes : \A m \in Sizes : n <= m
  <2>1. Sizes \subseteq Nat /\ Sizes # {}
    BY <1>1
  <2> HIDE DEF Sizes
  <2> QED
    BY <2>1, LeastOfNat
<1>3. PICK x \in S : n = Cardinality(Above(x))
  OBVIOUS
<1>4. ASSUME NEW y \in S, key[y] > key[x] PROVE FALSE
  <2>1. key[x] \in Int /\ key[y] \in Int
    BY <1>3
  <2>2. ASSUME NEW z \in Above(y) PROVE z \in Above(x)
    BY <1>4, <2>1
  <2>3. Above(y) \subseteq Above(x) /\ y \in Above(x) /\ y \notin Above(y)
    BY <1>4, <2>1, <2>2
  <2>4. Above(y) # Above(x)
    BY <2>3
  <2> HIDE DEF Above, Sizes
  <2>5. Cardinality(Above(y)) < Cardinality(Above(x))
    BY <1>1, <1>3, <1>4, <2>3, <2>4, FS_Subset
  <2>6. Cardinality(Above(y)) \in Sizes
    BY DEF Sizes
  <2> QED
    BY <1>1, <1>2, <1>3, <2>5, <2>6
<1> QED
  BY <1>4

LEMMA NumbersHaveEnds ==
    ASSUME NEW S, IsFiniteSet(S), S # {}, S \subseteq Int
    PROVE  /\ Max(S) \in S /\ \A y \in S : Max(S) >= y
           /\ Min(S) \in S /\ \A y \in S : Min(S) =< y
<1>1. \E x \in S : \A y \in S : x >= y
  <2> DEFINE key == [x \in S |-> x]
  <2>1. \A x \in S : key[x] \in Int /\ key[x] = x
    OBVIOUS
  <2> HIDE DEF key
  <2>2. PICK x \in S : \A y \in S : key[y] <= key[x]
    BY <2>1, FiniteHasBound
  <2> QED
    BY <2>1, <2>2
<1>2. \E x \in S : \A y \in S : x =< y
  <2> DEFINE key == [x \in S |-> -x]
  <2>1. \A x \in S : key[x] \in Int /\ key[x] = -x
    OBVIOUS
  <2> HIDE DEF key
  <2>2. PICK x \in S : \A y \in S : key[y] <= key[x]
    BY <2>1, FiniteHasBound
  <2> QED
    BY <2>1, <2>2
<1> QED
  BY <1>1, <1>2 DEF Max, Min

LEMMA IndicesHaveEnds ==
    ASSUME NEW n \in Nat, NEW S, S \subseteq 1..n, S # {}
    PROVE  /\ Max(S) \in S /\ \A y \in S : Max(S) >= y
           /\ Min(S) \in S /\ \A y \in S : Min(S) =< y
<1>1. IsFiniteSet(1..n)
  BY FS_Interval
<1>2. S \in SUBSET (1..n)
  OBVIOUS
<1>3. IsFiniteSet(S)
  BY <1>1, <1>2, FS_Subset
<1>4. S \subseteq Int
  BY <1>2
<1> QED
  BY <1>3, <1>4, NumbersHaveEnds

IsSurveyed(corridor) ==
    /\ corridor.xs \in Seq(Nat) /\ corridor.xs # <<>>
    /\ corridor.ys \in Seq(Int) /\ Len(corridor.ys) \in {0, Len(corridor.xs)}
    /\ total_miles(corridor) \in Int
    /\ corridor.segments \in Seq(ToSet(corridor.segments))
    /\ \A seg \in ToSet(corridor.segments) : {seg.lo, seg.hi, seg.offset} \subseteq Int

LEMMA EveryCorridor ==
    /\ Len(Corridors) \in Nat /\ Len(Corridors) > 1
    /\ \A i \in 1..Len(Corridors) : IsSurveyed(Corridors[i])
<1>1. Corridors \in Seq(ToSet(Corridors)) /\ Len(Corridors) > 1
  BY SurveyAssumption
<1>2. Len(Corridors) \in Nat /\ \A i \in 1..Len(Corridors) : Corridors[i] \in ToSet(Corridors)
  BY <1>1, LenProperties, ElementOfSeq
<1> QED
  BY <1>1, <1>2, SurveyAssumption DEF IsSurveyed

\* Between two vertices there is a measure, and beyond the ends that of the end.
LEMMA InterpolatedIsMeasure ==
    ASSUME NEW xs \in Seq(Nat), NEW ys \in Seq(Int), xs # <<>>, Len(ys) = Len(xs), NEW x \in Int
    PROVE  Interpolate(xs, ys, x) \in Int
<1> DEFINE n == Len(xs)
           below == {j \in DOMAIN xs : xs[j] <= x}
<1>1. /\ n \in Nat \ {0} /\ DOMAIN xs = 1..n /\ \A j \in 1..n : xs[j] \in Nat /\ ys[j] \in Int
      /\ Last(xs) = xs[n] /\ Last(ys) = ys[n]
  <2>1. n \in Nat /\ DOMAIN xs = 1..n /\ DOMAIN ys = 1..n /\ n # 0
    BY LenProperties, EmptySeq
  <2>2. \A j \in 1..n : xs[j] \in Nat /\ ys[j] \in Int
    BY <2>1, ElementOfSeq
  <2> QED
    BY <2>1, <2>2 DEF Last
<1>2. CASE ~(x <= xs[1]) /\ ~(x >= xs[n])
  <2>1. 1 \in below /\ below \subseteq 1..n /\ n \notin below
    <3>1. xs[1] \in Nat /\ xs[n] \in Nat
      BY <1>1
    <3> QED
      BY <1>1, <1>2, <3>1
  <2> HIDE DEF below
  <2>2. PICK i : i = Max(below)
    OBVIOUS
  <2>3. i \in below /\ \A j \in below : i >= j
    <3>1. PICK k \in Nat : k = n
      BY <1>1
    <3> QED
      BY <2>1, <2>2, <3>1, IndicesHaveEnds
  <2>4. i \in 1..n /\ i + 1 \in 1..n /\ i + 1 \notin below
    <3>1. i \in 1..n /\ i # n
      BY <2>1, <2>3
    <3>2. i + 1 \in 1..n /\ ~(i >= i + 1)
      BY <1>1, <3>1
    <3> QED
      BY <2>3, <3>1, <3>2
  <2>5. PICK low \in Int, high \in Int : low = xs[i] /\ high = xs[i + 1]
    BY <1>1, <2>4
  <2>6. PICK at \in Int, then \in Int : at = ys[i] /\ then = ys[i + 1]
    BY <1>1, <2>4
  <2>7. low <= x /\ x < high
    BY <2>3, <2>4, <2>5, <1>1 DEF below
  <2>8. Interpolate(xs, ys, x) = at + ((x - low) * (then - at)) \div (high - low)
    BY <1>1, <1>2, <2>2, <2>5, <2>6 DEF Interpolate, below
  <2>9. PICK rise \in Int : rise = (x - low) * (then - at)
    OBVIOUS
  <2>10. PICK length \in Nat \ {0} : length = high - low
    BY <2>7
  <2> QED
    BY <2>8, <2>9, <2>10
<1>3. CASE x <= xs[1] \/ x >= xs[n]
  <2>1. 1 \in 1..n /\ n \in 1..n
    BY <1>1
  <2> QED
    BY <1>1, <1>3, <2>1 DEF Interpolate
<1> QED
  BY <1>2, <1>3

LEMMA ScaledIsMeasure ==
    ASSUME NEW corridor, IsSurveyed(corridor), NEW along \in Int
    PROVE  ScaleToCorridor(corridor, along) \in Int
<1>1. /\ corridor.xs \in Seq(Nat) /\ corridor.xs # <<>> /\ corridor.ys \in Seq(Int)
      /\ Len(corridor.ys) \in {0, Len(corridor.xs)} /\ total_miles(corridor) \in Int
  BY DEF IsSurveyed
<1>2. CASE corridor.ys # <<>>
  <2>1. Len(corridor.ys) = Len(corridor.xs)
    BY <1>1, <1>2, EmptySeq
  <2> QED
    BY <1>1, <1>2, <2>1, InterpolatedIsMeasure DEF ScaleToCorridor
<1>3. CASE corridor.ys = <<>>
  <2>1. Last(corridor.xs) \in Nat
    <3>1. Len(corridor.xs) \in Nat \ {0}
      BY <1>1, LenProperties, EmptySeq
    <3> QED
      BY <1>1, <3>1, ElementOfSeq DEF Last
  <2>2. PICK long \in Nat : long = Last(corridor.xs)
    BY <2>1
  <2>3. PICK miles \in Int : miles = total_miles(corridor)
    BY <1>1
  <2>4. ScaleToCorridor(corridor, along) = IF long = 0 THEN 0 ELSE (along * miles) \div long
    BY <1>3, <2>2, <2>3 DEF ScaleToCorridor
  <2>5. long # 0 => (along * miles) \div long \in Int
    <3>1. along * miles \in Int
      OBVIOUS
    <3> QED
      BY <3>1
  <2> QED
    BY <2>4, <2>5
<1> QED
  BY <1>2, <1>3

\* An extent on the corridor runs from one measure to one no less.
IsExtent(at) == at.begin \in Int /\ at.end \in Int /\ at.begin <= at.end

LEMMA InOrder ==
    ASSUME NEW a \in Int, NEW b \in Int
    PROVE  /\ Lesser(a, b) \in Int /\ Greater(a, b) \in Int /\ Lesser(a, b) <= Greater(a, b)
BY DEF Lesser, Greater

\* The mileposts of one state are measured along one segment, in their order.
LEMMA MilepostsKeepTheirOrder ==
    ASSUME NEW corridor, IsSurveyed(corridor), NEW state, NEW low \in Int, NEW high \in Int,
           low <= high,
           NoMeasure \notin {measure_for(corridor, state, low), measure_for(corridor, state, high)}
    PROVE  /\ measure_for(corridor, state, low) \in Int
           /\ measure_for(corridor, state, high) \in Int
           /\ measure_for(corridor, state, low) <= measure_for(corridor, state, high)
<1> DEFINE own == {i \in DOMAIN corridor.segments : corridor.segments[i].state = state}
           seg == corridor.segments[Min(own)]
<1>1. own # {}
  BY DEF measure_for
<1>2. corridor.segments \in Seq(ToSet(corridor.segments))
  BY DEF IsSurveyed
<1>3. PICK n \in Nat : n = Len(corridor.segments) /\ DOMAIN corridor.segments = 1..n
  BY <1>2, LenProperties
<1>4. Min(own) \in 1..n
  <2>1. own \subseteq 1..n
    BY <1>3
  <2> HIDE DEF own
  <2> QED
    BY <1>1, <2>1, IndicesHaveEnds
<1>5. seg \in ToSet(corridor.segments)
  BY <1>2, <1>3, <1>4, ElementOfSeq
<1>6. seg.lo \in Int /\ seg.offset \in Int
  BY <1>5 DEF IsSurveyed
<1>7. /\ measure_for(corridor, state, low) = seg.offset + (low - seg.lo)
      /\ measure_for(corridor, state, high) = seg.offset + (high - seg.lo)
  BY DEF measure_for
<1> HIDE DEF seg
<1> QED
  BY <1>6, <1>7

LEMMA MilepostExtent ==
    ASSUME NEW corridor, NEW active, IsSurveyed(active), NEW place, Placeable(place),
           place.kind = "milepost", FromMilepost(corridor, active, place).on
    PROVE  IsExtent(FromMilepost(corridor, active, place))
<1> DEFINE begin == measure_for(active, place.state, place.begin)
           end   == IF place.end = NoMeasure THEN begin
                    ELSE measure_for(active, place.state, place.end)
           placed == Placed(corridor, begin, end, "milepost", TRUE)
<1>1. place.begin \in Int /\ (place.end = NoMeasure \/ (place.end \in Int /\ place.begin <= place.end))
  BY DEF Placeable
<1>2. NoMeasure \notin {begin, end}
  BY DEF FromMilepost, Unplaced
<1>3. begin \in Int /\ end \in Int /\ begin <= end
  <2>1. CASE place.end = NoMeasure
    <3>1. place.begin <= place.begin /\ end = begin
      BY <1>1, <2>1
    <3>2. begin \in Int
      BY <1>1, <1>2, <3>1, MilepostsKeepTheirOrder
    <3> QED
      BY <3>1, <3>2
  <2>2. CASE place.end # NoMeasure
    BY <1>1, <1>2, <2>2, MilepostsKeepTheirOrder
  <2> QED
    BY <2>1, <2>2
<1>4. FromMilepost(corridor, active, place) = placed
  BY <1>2 DEF FromMilepost
<1>5. placed.begin = begin /\ placed.end = end
  BY DEF Placed
<1> QED
  BY <1>3, <1>4, <1>5 DEF IsExtent

LEMMA CoordinateExtent ==
    ASSUME NEW corridor, IsSurveyed(corridor), NEW point, point.along \in Int
    PROVE  IsExtent(FromCoordinate(corridor, point))
<1>1. PICK measure \in Int : measure = ScaleToCorridor(corridor, point.along)
  BY ScaledIsMeasure
<1>2. /\ FromCoordinate(corridor, point).begin = measure
      /\ FromCoordinate(corridor, point).end = measure
  BY <1>1 DEF FromCoordinate, Placed
<1> QED
  BY <1>2 DEF IsExtent

LEMMA LineExtent ==
    ASSUME NEW corridor, IsSurveyed(corridor), NEW points, points \in Seq(ToSet(points)),
           points # <<>> => {Head(points).along, Last(points).along} \subseteq Int,
           FromLineString(corridor, points).on
    PROVE  IsExtent(FromLineString(corridor, points))
<1> DEFINE first == FromCoordinate(corridor, Head(points))
           last  == FromCoordinate(corridor, Last(points))
           placed == Placed(corridor, Lesser(first.begin, last.begin),
                            Greater(first.begin, last.begin), "coordinate", first.on \/ last.on)
<1>1. points # <<>>
  BY DEF FromLineString, Unplaced
<1>5. first.begin \in Int /\ last.begin \in Int
  BY <1>1, CoordinateExtent DEF IsExtent
<1>6. FromLineString(corridor, points) = placed
  BY <1>1 DEF FromLineString
<1>7. placed.begin = Lesser(first.begin, last.begin) /\ placed.end = Greater(first.begin, last.begin)
  BY DEF Placed
<1> HIDE DEF first, last, placed
<1> QED
  BY <1>5, <1>6, <1>7, InOrder DEF IsExtent

\* What a polygon covers is from its westernmost measure to its easternmost.
LEMMA HitsExtent ==
    ASSUME NEW corridor, NEW hits, IsFiniteSet(hits), hits \subseteq Int, hits # {}
    PROVE  IsExtent(Placed(corridor, Min(hits), Max(hits), "polygon_intersect", TRUE))
<1>1. Min(hits) \in Int /\ Max(hits) \in Int /\ Min(hits) <= Max(hits)
  BY NumbersHaveEnds
<1> QED
  BY <1>1 DEF IsExtent, Placed

LEMMA ScaledAreMeasures ==
    ASSUME NEW corridor, IsSurveyed(corridor), NEW S, IsFiniteSet(S), NEW at,
           \A i \in S : at[i] \in Int
    PROVE  LET hits == {ScaleToCorridor(corridor, at[i]) : i \in S}
           IN  IsFiniteSet(hits) /\ hits \subseteq Int
<1> DEFINE hits == {ScaleToCorridor(corridor, at[i]) : i \in S}
           f == [i \in S |-> ScaleToCorridor(corridor, at[i])]
<1>1. hits \subseteq Int
  BY ScaledIsMeasure
<1>2. f \in Surjection(S, hits)
  BY DEF Surjection
<1>3. IsFiniteSet(hits)
  BY <1>2, FS_Surjection
<1> QED
  BY <1>1, <1>3

LEMMA LongIsNumber ==
    ASSUME NEW corridor, IsSurveyed(corridor) PROVE Last(corridor.xs) \in Nat
<1>1. corridor.xs \in Seq(Nat) /\ Len(corridor.xs) \in Nat \ {0}
  BY EmptySeq DEF IsSurveyed
<1> QED
  BY <1>1, ElementOfSeq DEF Last

LEMMA SampledExtent ==
    ASSUME NEW corridor, IsSurveyed(corridor), NEW covers, FromPolygon(corridor, covers).on
    PROVE  IsExtent(FromPolygon(corridor, covers))
<1> DEFINE at == [i \in 0..Samples |-> (i * Last(corridor.xs)) \div Samples]
           S == {j \in 0..Samples : at[j] \in covers}
           hits == {ScaleToCorridor(corridor, at[i]) : i \in S}
<1>1. FromPolygon(corridor, covers) =
         IF hits = {} THEN Unplaced(NoMeasure, "polygon_intersect")
         ELSE Placed(corridor, Min(hits), Max(hits), "polygon_intersect", TRUE)
  BY DEF FromPolygon
<1>2. ASSUME hits = {} PROVE FALSE
  <2>1. FromPolygon(corridor, covers) = Unplaced(NoMeasure, "polygon_intersect")
    BY <1>1, <1>2
  <2> QED
    BY <2>1 DEF Unplaced
<1>3. IsFiniteSet(S)
  <2>1. IsFiniteSet(0..Samples)
    BY SurveyAssumption, FS_Interval
  <2>2. S \in SUBSET (0..Samples)
    OBVIOUS
  <2> QED
    BY <2>1, <2>2, FS_Subset
<1>4. \A i \in S : at[i] \in Int
  BY SurveyAssumption, LongIsNumber
<1> HIDE DEF at, S
<1>5. IsFiniteSet(hits) /\ hits \subseteq Int
  BY <1>3, <1>4, ScaledAreMeasures
<1> QED
  BY <1>1, <1>2, <1>5, HitsExtent

LEMMA ClippedExtent ==
    ASSUME NEW corridor, IsSurveyed(corridor), NEW covers, RemotePolygon(corridor, covers).on
    PROVE  IsExtent(RemotePolygon(corridor, covers))
<1> DEFINE S == covers \cap (0..Last(corridor.xs))
           at == [i \in S |-> i]
           hits == {ScaleToCorridor(corridor, at[i]) : i \in S}
           clipped == {ScaleToCorridor(corridor, x) : x \in S}
<1>0. hits = clipped
  OBVIOUS
<1>1. RemotePolygon(corridor, covers) =
         IF clipped = {} THEN Unplaced(0, "polygon_intersect")
         ELSE Placed(corridor, Min(clipped), Max(clipped), "polygon_intersect", TRUE)
  BY DEF RemotePolygon
<1>2. ASSUME clipped = {} PROVE FALSE
  <2>1. RemotePolygon(corridor, covers) = Unplaced(0, "polygon_intersect")
    BY <1>1, <1>2
  <2> QED
    BY <2>1 DEF Unplaced
<1>3. IsFiniteSet(S)
  <2>1. IsFiniteSet(0..Last(corridor.xs)) /\ S \in SUBSET (0..Last(corridor.xs))
    BY LongIsNumber, FS_Interval
  <2> QED
    BY <2>1, FS_Subset
<1>4. \A i \in S : at[i] \in Int
  BY LongIsNumber
<1> HIDE DEF at, S
<1>5. IsFiniteSet(hits) /\ hits \subseteq Int
  BY <1>3, <1>4, ScaledAreMeasures
<1> QED
  BY <1>0, <1>1, <1>2, <1>5, HitsExtent

LEMMA LocalExtent ==
    ASSUME NEW corridor, IsSurveyed(corridor), NEW active, IsSurveyed(active),
           NEW place, Placeable(place), LocalConflate(corridor, active, place).on
    PROVE  IsExtent(LocalConflate(corridor, active, place))
<1>u. \A measure, method : ~Unplaced(measure, method).on
  BY DEF Unplaced
<1>1. CASE place.kind = "milepost"
  BY <1>1, MilepostExtent DEF LocalConflate
<1>2. CASE place.kind = "coordinate"
  BY <1>2, CoordinateExtent DEF LocalConflate, Placeable
<1>3. CASE place.kind = "linestring"
  BY <1>3, LineExtent DEF LocalConflate, Placeable
<1>4. CASE place.kind = "polygon"
  BY <1>4, <1>u, SampledExtent DEF LocalConflate
<1>5. CASE place.kind \notin {"milepost", "coordinate", "linestring", "polygon"}
  BY <1>5, <1>u DEF LocalConflate
<1> QED
  BY <1>1, <1>2, <1>3, <1>4, <1>5

\* What the conflator makes of a place is an extent whenever it is on the corridor.
IsPlacement(at) == at.on => IsExtent(at)

AreSound(out) == \A i \in DOMAIN out.candidates : CandidateOK(out.candidates[i])

Directions == {"EB", "WB", "BOTH", "UNKNOWN"}

AreLanes(lanes) == \A lane \in lanes : lane.ordinal \in Int

LEMMA SoundCandidate ==
    ASSUME NEW class, NEW at, IsExtent(at), NEW direction \in Directions,
           NEW lanes, AreLanes(lanes)
    PROVE  CandidateOK(Candidate(class, at, direction, lanes))
BY DEF CandidateOK, Candidate, IsExtent, AreLanes, Directions

LEMMA SoundWhenMapped ==
    ASSUME NEW c, CandidateOK(c), NEW issues
    PROVE  AreSound(Mapped(<<c>>, issues))
<1>1. DOMAIN <<c>> = 1..1 /\ <<c>>[1] = c
  BY ShortSeqs DEF IsSeq
<1> QED
  BY <1>1 DEF AreSound, Mapped, Outcome

LEMMA SoundWhenNone ==
    /\ AreSound(Skipped) /\ AreSound(OffCorridor)
    /\ \A field : AreSound(Refused(field))
    /\ \A issues : AreSound(Outcome(<<>>, issues, 1))
<1>1. DOMAIN <<>> = {}
  BY ShortSeqs DEF IsSeq
<1> QED
  BY <1>1 DEF AreSound, Skipped, OffCorridor, Refused, Outcome

\* Whatever word an agency uses for a way, the hub has one of four for it.
LEMMA HeadingsAreDirections ==
    ASSUME NEW word, NEW both PROVE Heading(word, both) \in Directions
BY DEF Heading, Directions

\* Whatever an agency says of its lanes, an impact is on a numbered lane.
LEMMA NoLanes == AreLanes({})
BY DEF AreLanes

LEMMA ResolvedLane ==
    ASSUME NEW ordinal \in Int, NEW status PROVE AreLanes(Resolved({Lane(ordinal, status)}).impacts)
BY DEF AreLanes, Resolved, Lane

LEMMA UnresolvedLanes == AreLanes(Unresolved.impacts) /\ AreLanes(Resolved({}).impacts)
BY DEF AreLanes, Unresolved, Resolved

LEMMA ImpactLanes ==
    ASSUME NEW impact PROVE AreLanes(lane_impacts_from_vehicle_impact(impact).impacts)
<1> DEFINE lanes == lane_impacts_from_vehicle_impact(impact)
<1>1. \/ lanes = Resolved({}) \/ lanes = Unresolved
      \/ \E status : lanes = Resolved({Lane(1, status)})
  BY DEF lane_impacts_from_vehicle_impact
<1>2. ASSUME NEW status PROVE AreLanes(Resolved({Lane(1, status)}).impacts)
  BY ResolvedLane
<1> HIDE DEF lanes
<1>3. AreLanes(lanes.impacts)
  BY <1>1, <1>2, UnresolvedLanes, Zenon
<1> QED
  BY <1>3 DEF lanes

LEMMA PhraseLanes == ASSUME NEW phrase PROVE AreLanes(parse_lane_impacts(phrase).impacts)
<1> DEFINE lanes == parse_lane_impacts(phrase)
<1>1. lanes = Resolved({}) \/ lanes = Unresolved \/ lanes = Resolved({Lane(1, "closed")})
  BY DEF parse_lane_impacts
<1> HIDE DEF lanes
<1> QED
  BY <1>1, ResolvedLane, UnresolvedLanes DEF lanes

LEMMA ProseLanes ==
    ASSUME NEW prose, prose.count \in Int, NEW total \in Int \cup {None}, NEW full
    PROVE  AreLanes(parse_lanes_affected(prose, total, full).impacts)
<1> DEFINE closedLanes(first) == {Lane(first + k, "closed") : k \in 0..(prose.count - 1)}
           lanes == parse_lanes_affected(prose, total, full)
<1>1. \/ lanes = Unresolved
      \/ \E status : lanes = Resolved({Lane(1, status)})
      \/ lanes = Resolved(closedLanes(1))
      \/ total # None /\ lanes = Resolved(closedLanes(total - prose.count + 1))
  BY DEF parse_lanes_affected
<1>2. ASSUME NEW first \in Int PROVE AreLanes(Resolved(closedLanes(first)).impacts)
  <2>1. Resolved(closedLanes(first)).impacts = closedLanes(first)
    BY DEF Resolved
  <2>2. ASSUME NEW lane \in closedLanes(first) PROVE lane.ordinal \in Int
    <3>1. PICK k \in 0..(prose.count - 1) : lane = Lane(first + k, "closed")
      OBVIOUS
    <3>2. lane.ordinal = first + k
      BY <3>1 DEF Lane
    <3> QED
      BY <3>2
  <2> QED
    BY <2>1, <2>2 DEF AreLanes
<1>3. total # None => total - prose.count + 1 \in Int
  OBVIOUS
<1>4. ASSUME NEW status PROVE AreLanes(Resolved({Lane(1, status)}).impacts)
  BY ResolvedLane
<1>5. /\ AreLanes(Resolved(closedLanes(1)).impacts)
      /\ total # None => AreLanes(Resolved(closedLanes(total - prose.count + 1)).impacts)
  <2>1. 1 \in Int
    OBVIOUS
  <2> HIDE DEF closedLanes
  <2> QED
    BY <2>1, <1>2, <1>3
<1> HIDE DEF lanes, closedLanes
<1>6. AreLanes(lanes.impacts)
  BY <1>1, <1>4, <1>5, UnresolvedLanes, Zenon
<1> QED
  BY <1>6 DEF lanes

LEMMA NwsIsSound ==
    ASSUME NEW r, NEW at, r.place # None => IsPlacement(at)
    PROVE  AreSound(MapNws(r, at))
<1> DEFINE classes == WeatherClasses(r.alert)
           some == [i \in DOMAIN classes |-> Candidate(classes[i], at, "BOTH", {})]
           out == MapNws(r, at)
<1>1. \/ out = Skipped \/ out = Refused("geometry") \/ out = OffCorridor
      \/ at.on /\ r.place # None /\ out = NwsAlert(r, at)
  BY DEF MapNws
<1>2. ASSUME at.on, r.place # None PROVE AreSound(NwsAlert(r, at))
  <2>1. NwsAlert(r, at).candidates = some
    BY DEF NwsAlert, Mapped, Outcome
  <2>2. \A class : CandidateOK(Candidate(class, at, "BOTH", {}))
    BY <1>2, SoundCandidate, NoLanes DEF IsPlacement, Directions
  <2>3. \A i \in DOMAIN some : CandidateOK(some[i])
    BY <2>2
  <2> HIDE DEF some
  <2> QED
    BY <2>1, <2>3 DEF AreSound
<1> HIDE DEF out
<1> QED
  BY <1>1, <1>2, SoundWhenNone DEF out

LEMMA OkIsSound ==
    ASSUME NEW r, NEW at, IsPlacement(at), NEW regenerated, r.lanes \in Seq(ToSet(r.lanes))
    PROVE  AreSound(MapOk(r, at, regenerated))
<1> DEFINE out == MapOk(r, at, regenerated)
           way   == normalize_direction(r.direction, r.suffix)
           lanes == {[ordinal |-> i, inferred |-> FALSE,
                      status |-> IF r.lanes[i] = "unmapped" THEN "open" ELSE r.lanes[i]] :
                       i \in DOMAIN r.lanes}
           c == Candidate("work_zone", at, way.direction, lanes)
<1>1. \/ out = Skipped \/ out = Outcome(<<>>, {"geometry"}, 1)
      \/ at.on /\ out = OkWorkZone(r, at, regenerated)
  BY DEF MapOk
<1>2. ASSUME at.on PROVE AreSound(OkWorkZone(r, at, regenerated))
  <2>1. PICK issues : OkWorkZone(r, at, regenerated) = Mapped(<<c>>, issues)
    BY DEF OkWorkZone
  <2>2. way.direction \in Directions
    BY HeadingsAreDirections DEF normalize_direction, Directions
  <2>3. AreLanes(lanes)
    <3>1. \A i \in DOMAIN r.lanes : i \in Int
      BY LenProperties
    <3> QED
      BY <3>1 DEF AreLanes
  <2>4. CandidateOK(c)
    <3> HIDE DEF way, lanes
    <3> QED
      BY <1>2, <2>2, <2>3, SoundCandidate DEF IsPlacement
  <2> HIDE DEF c
  <2> QED
    BY <2>1, <2>4, SoundWhenMapped
<1> HIDE DEF out
<1> QED
  BY <1>1, <1>2, SoundWhenNone DEF out

LEMMA TxIsSound ==
    ASSUME NEW r, NEW at, IsPlacement(at) PROVE AreSound(MapTx(r, at))
<1> DEFINE out == MapTx(r, at)
           c == Candidate("work_zone", at, TxDirection(r.direction),
                          lane_impacts_from_vehicle_impact(r.impact).impacts)
<1>1. out = Skipped \/ out = OffCorridor \/ (at.on /\ out = TxWorkZone(r, at))
  BY DEF MapTx
<1>2. ASSUME at.on PROVE AreSound(TxWorkZone(r, at))
  <2>1. PICK issues : TxWorkZone(r, at) = Mapped(<<c>>, issues)
    BY DEF TxWorkZone
  <2>2. TxDirection(r.direction) \in Directions
    BY HeadingsAreDirections DEF TxDirection
  <2>3. CandidateOK(c)
    BY <1>2, <2>2, ImpactLanes, SoundCandidate DEF IsPlacement
  <2> HIDE DEF c
  <2> QED
    BY <2>1, <2>3, SoundWhenMapped
<1> HIDE DEF out
<1> QED
  BY <1>1, <1>2, SoundWhenNone DEF out

LEMMA AzIsSound ==
    ASSUME NEW r, NEW at, r.place # None => IsPlacement(at), r.prose.count \in Int, r.total \in Int \cup {None}
    PROVE  AreSound(MapAz(r, at))
<1> DEFINE out == MapAz(r, at)
           c == Candidate(AzClass(r.type), at, AzDirection(r.direction, r.named),
                          parse_lanes_affected(r.prose, r.total, r.full).impacts)
<1>1. \/ out = Skipped \/ out = Refused("EventType") \/ out = Refused("Latitude")
      \/ out = OffCorridor \/ (at.on /\ r.place # None /\ out = AzEvent(r, at))
  BY DEF MapAz
<1>2. ASSUME at.on, r.place # None PROVE AreSound(AzEvent(r, at))
  <2>1. PICK issues : AzEvent(r, at) = Mapped(<<c>>, issues)
    BY DEF AzEvent
  <2>2. AzDirection(r.direction, r.named) \in Directions
    BY HeadingsAreDirections DEF AzDirection
  <2>3. AreLanes(parse_lanes_affected(r.prose, r.total, r.full).impacts)
    BY ProseLanes
  <2>4. CandidateOK(c)
    BY <1>2, <2>2, <2>3, SoundCandidate DEF IsPlacement
  <2> HIDE DEF c
  <2> QED
    BY <2>1, <2>4, SoundWhenMapped
<1> HIDE DEF out
<1> QED
  BY <1>1, <1>2, SoundWhenNone DEF out

LEMMA NmIsSound ==
    ASSUME NEW r, NEW at, r.place # None => IsPlacement(at), NEW named,
           r.mileposts # None /\ r.place # None => IsPlacement(named)
    PROVE  AreSound(MapNm(r, at, named))
<1> DEFINE out == MapNm(r, at, named)
           extent == ResolveExtent(r, at, named)
           c == Candidate(NmClass(r.type), extent.at, NmDirection(r.words),
                          parse_lane_impacts(r.phrase).impacts)
<1>1. \/ out = Skipped \/ out = Outcome(<<>>, extent.issues, 1)
      \/ \E field : out = Refused(field)
      \/ extent.at.on /\ r.place # None /\ out = NmEvent(r, extent)
  BY DEF MapNm
<1>2. r.place # None => IsPlacement(extent.at)
  BY DEF ResolveExtent
<1>3. ASSUME extent.at.on, r.place # None PROVE AreSound(NmEvent(r, extent))
  <2>1. PICK issues : NmEvent(r, extent) = Mapped(<<c>>, issues)
    BY DEF NmEvent
  <2>2. NmDirection(r.words) \in Directions
    BY DEF NmDirection, Directions
  <2>3. CandidateOK(c)
    <3> HIDE DEF extent
    <3> QED
      BY <1>2, <1>3, <2>2, PhraseLanes, SoundCandidate DEF IsPlacement
  <2> HIDE DEF c
  <2> QED
    BY <2>1, <2>3, SoundWhenMapped
<1> HIDE DEF out, extent
<1> QED
  BY <1>1, <1>3, SoundWhenNone DEF out

LEMMA TileIsSound ==
    ASSUME NEW r, NEW at, r.place # None => IsPlacement(at), NEW seen
    PROVE  AreSound(MapTile(r, at, seen))
<1> DEFINE out == MapTile(r, at, seen)
           c == Candidate(TileClass(r.layer, r.kind), at, "UNKNOWN", {})
<1>1. \/ out = Skipped \/ out = OffCorridor \/ \E field : out = Refused(field)
      \/ at.on /\ r.place # None /\ out = TileEvent(r, at)
  BY DEF MapTile
<1>2. ASSUME at.on, r.place # None PROVE AreSound(TileEvent(r, at))
  <2>1. PICK issues : TileEvent(r, at) = Mapped(<<c>>, issues)
    BY DEF TileEvent
  <2>2. CandidateOK(c)
    BY <1>2, NoLanes, SoundCandidate DEF IsPlacement, Directions
  <2> HIDE DEF c
  <2> QED
    BY <2>1, <2>2, SoundWhenMapped
<1> HIDE DEF out
<1> QED
  BY <1>1, <1>2, SoundWhenNone DEF out

(***************************************************************************)
(* Part 5.  The database, the container and the candidates.                *)
(***************************************************************************)

DbOK ==
    /\ DbShape /\ db.up \in BOOLEAN /\ db.holds \in Contents
    /\ db.life \in 1..(MaxOutages + 1) /\ (~db.up => db.life <= MaxOutages)
    /\ db.loaded \in (Offline + 1)..Len(Corridors)

ContainerOK ==
    /\ container = [database |-> container.database, routed |-> container.routed,
                    source |-> container.source, cache |-> container.cache,
                    connection |-> container.connection, conflator |-> container.conflator]
    /\ container.cache \in 0..Len(Corridors) /\ container.conflator \in 0..Len(Corridors)
    /\ container.source \in {"json", "database"} /\ container.connection \in 0..db.life

\* Nothing is parsed without a conflator.
ParsesWithAConflator == run.status = "parsing" => container.conflator # Unset

CandidatesOK ==
    /\ run.count \in 0..MaxInvocations
    /\ \A i \in DOMAIN run.candidates : CandidateOK(run.candidates[i].says)

TInv == DbOK /\ ContainerOK /\ ParsesWithAConflator /\ CandidatesOK

LEMMA Numbers ==
    MaxOutages \in Nat /\ MaxInvocations \in Nat /\ Offline = 1 /\ Unset = 0
    /\ Len(Corridors) \in Nat /\ Len(Corridors) > 1
BY SurveyAssumption, EveryCorridor DEF Offline, Unset

\* A place is conflated with a surveyed corridor, the database's or the container's.
LEMMA PlacementIsSound ==
    ASSUME TInv, run.status = "parsing", NEW r, r.place # None => Placeable(r.place)
    PROVE  r.place # None => IsPlacement(Placement(r))
<1> SUFFICES ASSUME r.place # None PROVE IsPlacement(Conflate(r.place))
  BY DEF Placement
<1>1. /\ db.loaded \in 1..Len(Corridors) /\ container.conflator \in 1..Len(Corridors)
  BY Numbers DEF TInv, DbOK, ContainerOK, ParsesWithAConflator
<1>2. IsSurveyed(Corridors[db.loaded]) /\ IsSurveyed(Corridors[container.conflator])
  BY <1>1, EveryCorridor
<1> DEFINE remote == RemotePolygon(Corridors[db.loaded], r.place.covers)
           local == LocalConflate(Corridors[container.conflator],
                                  Corridors[container.conflator], r.place)
<1>3. IsPlacement(remote) /\ IsPlacement(local)
  BY <1>2, ClippedExtent, LocalExtent DEF IsPlacement
<1>4. Conflate(r.place) = remote \/ Conflate(r.place) = local
  BY DEF Conflate
<1> HIDE DEF remote, local
<1> QED
  BY <1>3, <1>4

LEMMA MilepostIsSound ==
    ASSUME TInv, run.status = "parsing", NEW place, Placeable(place)
    PROVE  IsPlacement(ConflateMilepost(place))
<1>1. container.conflator \in 1..Len(Corridors)
  BY Numbers DEF TInv, ContainerOK, ParsesWithAConflator
<1>2. corridor_for(container).cache \in 1..Len(Corridors)
  BY Numbers DEF TInv, DbOK, ContainerOK, corridor_for, Connected
<1>3. /\ IsSurveyed(Corridors[container.conflator])
      /\ IsSurveyed(Corridors[corridor_for(container).cache])
  BY <1>1, <1>2, EveryCorridor
<1> QED
  BY <1>3, LocalExtent DEF ConflateMilepost, IsPlacement

\* Whatever the source, its adapter places every candidate on the corridor.
LEMMA EveryAnswerIsSound ==
    ASSUME TInv, PayloadIsGiven, run.status = "parsing", run.next <= Len(run.payload.records),
           ~Trips(run.payload.source, run.payload.records[run.next])
    PROVE  AreSound(MapOf(run.payload.records[run.next]))
<1> DEFINE r  == run.payload.records[run.next]
           at == Placement(r)
           regenerated == regenerated_end_date_minutes(Ends(run.payload.records))
           named == IF ReadsMilepost(r) THEN ConflateMilepost(r.mileposts) ELSE None
           out == MapOf(r)
           source == run.payload.source
<1>1. run.payload \in Payloads /\ run.next \in DOMAIN run.payload.records
      /\ source \in {"nws", "ok", "tx", "az", "nm", "tiles"}
  <2>1. run.payload \in Payloads /\ run.next \in 1..(Len(run.payload.records) + 1)
    BY DEF PayloadIsGiven
  <2>2. /\ Len(run.payload.records) \in Nat
        /\ DOMAIN run.payload.records = 1..Len(run.payload.records)
        /\ source \in {"nws", "ok", "tx", "az", "nm", "tiles"}
    BY <2>1, IntakeAssumption
  <2> QED
    BY <2>1, <2>2
<1>2. /\ r.place # None /\ (source \in {"ok", "tx"} => r.here) => Placeable(r.place)
      /\ source \in {"ok", "tx"} => r.place # None
      /\ source = "ok" => r.lanes \in Seq(ToSet(r.lanes))
      /\ source = "az" => r.prose.count \in Int /\ r.total \in Int \cup {None}
      /\ source = "nm" /\ r.mileposts # None => Placeable(r.mileposts)
  BY <1>1, RecordsAssumption
<1>3. r.place # None /\ (source \in {"ok", "tx"} => r.here) => IsPlacement(at)
  BY <1>2, PlacementIsSound
<1>4. CASE source = "nws"
  BY <1>3, <1>4, NwsIsSound, Zenon DEF MapOf
<1>5. CASE source = "ok"
  <2>1. out = MapOk(r, at, regenerated)
    BY <1>5 DEF MapOf
  <2>2. CASE r.here
    BY <1>2, <1>3, <1>5, <2>1, <2>2, OkIsSound
  <2>3. CASE ~r.here
    <3>1. out = Skipped
      BY <2>1, <2>3 DEF MapOk
    <3> HIDE DEF out
    <3> QED
      BY <3>1, SoundWhenNone DEF out
  <2> QED
    BY <2>2, <2>3
<1>6. CASE source = "tx"
  <2>1. out = MapTx(r, at)
    BY <1>6 DEF MapOf
  <2>2. CASE r.here
    BY <1>2, <1>3, <1>6, <2>1, <2>2, TxIsSound
  <2>3. CASE ~r.here
    <3>1. out = Skipped
      BY <2>1, <2>3 DEF MapTx
    <3> HIDE DEF out
    <3> QED
      BY <3>1, SoundWhenNone DEF out
  <2> QED
    BY <2>2, <2>3
<1>7. CASE source = "az"
  <2>1. out = MapAz(r, at)
    BY <1>7 DEF MapOf
  <2> QED
    BY <1>2, <1>3, <1>7, <2>1, AzIsSound
<1>8. CASE source = "nm"
  <2>1. out = MapNm(r, at, named)
    BY <1>8 DEF MapOf
  <2>2. CASE ReadsMilepost(r)
    <3>1. IsPlacement(named)
      BY <1>2, <1>8, <2>2, MilepostIsSound DEF ReadsMilepost
    <3> HIDE DEF named
    <3> QED
      BY <1>3, <1>8, <2>1, <3>1, NmIsSound
  <2>3. CASE ~ReadsMilepost(r)
    <3>1. \/ r.mileposts = None \/ r.place = None
          \/ r.upstream # "NMDOT" \/ ~r.here \/ NmClass(r.type) = None
      BY <1>8, <2>3 DEF ReadsMilepost
    <3>2. CASE r.mileposts = None \/ r.place = None
      <4> HIDE DEF named
      <4> QED
        BY <1>3, <1>8, <2>1, <3>2, NmIsSound
    <3>3. CASE r.upstream # "NMDOT" \/ ~r.here \/ NmClass(r.type) = None
      <4>1. out = Skipped \/ \E field : out = Refused(field)
        BY <2>1, <3>3 DEF MapNm
      <4> HIDE DEF out
      <4> QED
        BY <4>1, SoundWhenNone DEF out
    <3> QED
      BY <3>1, <3>2, <3>3
  <2> QED
    BY <2>2, <2>3
<1>9. CASE source = "tiles"
  <2>1. out = MapTile(r, at, run.seen)
    BY <1>9 DEF MapOf
  <2> QED
    BY <1>3, <1>9, <2>1, TileIsSound
<1> QED
  BY <1>1, <1>4, <1>5, <1>6, <1>7, <1>8, <1>9

\* A container's globals are of these kinds.
IsContainer(c) ==
    /\ c = [database |-> c.database, routed |-> c.routed, source |-> c.source,
            cache |-> c.cache, connection |-> c.connection, conflator |-> c.conflator]
    /\ c.cache \in 0..Len(Corridors) /\ c.conflator \in 0..Len(Corridors)
    /\ c.source \in {"json", "database"} /\ c.connection \in 0..db.life

LEMMA ContainerSteps ==
    ASSUME DbOK, NEW c, IsContainer(c)
    PROVE  /\ IsContainer(set_corridor_source(c)) /\ set_corridor_source(c).conflator = c.conflator
           /\ IsContainer(Connected(c)) /\ Connected(c).conflator = c.conflator
           /\ IsContainer(corridor_for(c)) /\ corridor_for(c).conflator = c.conflator
           /\ \A k \in 1..Len(Corridors) : /\ IsContainer([c EXCEPT !.conflator = k])
                                           /\ [c EXCEPT !.conflator = k].conflator = k
           /\ IsContainer(Cold(c.database, c.routed))
<1>1. /\ db.life \in 0..db.life /\ Unset \in 0..db.life
      /\ db.loaded \in 0..Len(Corridors) /\ Offline \in 0..Len(Corridors)
      /\ Unset \in 0..Len(Corridors) /\ \A k \in 1..Len(Corridors) : k \in 0..Len(Corridors)
  BY Numbers DEF DbOK
<1>2. /\ IsContainer(set_corridor_source(c))
      /\ set_corridor_source(c).conflator = c.conflator
  <2>1. ASSUME NEW k \in 0..Len(Corridors), NEW b, b = [c EXCEPT !.source = "database", !.cache = k]
        PROVE  IsContainer(b) /\ b.conflator = c.conflator
    BY <2>1 DEF IsContainer
  <2> QED
    BY <1>1, <2>1 DEF set_corridor_source
<1>3. ASSUME NEW b, IsContainer(b)
      PROVE  IsContainer(Connected(b)) /\ Connected(b).conflator = b.conflator
  BY <1>1, <1>3 DEF IsContainer, Connected
<1>4. ASSUME NEW b, IsContainer(b), NEW k \in 0..Len(Corridors), NEW d
      PROVE  /\ d = [b EXCEPT !.cache = k] => IsContainer(d) /\ d.conflator = b.conflator
             /\ d = [b EXCEPT !.conflator = k] => IsContainer(d) /\ d.conflator = k
  BY <1>4 DEF IsContainer
<1> HIDE DEF IsContainer
<1>5. IsContainer(corridor_for(c)) /\ corridor_for(c).conflator = c.conflator
  <2>1. \/ corridor_for(c) = c
        \/ corridor_for(c) = [c EXCEPT !.cache = Offline]
        \/ corridor_for(c) = [Connected(c) EXCEPT !.cache = db.loaded]
    BY DEF corridor_for
  <2>2. CASE corridor_for(c) = c
    BY <2>2
  <2>3. CASE corridor_for(c) = [c EXCEPT !.cache = Offline]
    <3>1. PICK k \in 0..Len(Corridors) : k = Offline
      BY <1>1
    <3> QED
      BY <1>4, <2>3, <3>1
  <2>4. CASE corridor_for(c) = [Connected(c) EXCEPT !.cache = db.loaded]
    <3>1. PICK b : b = Connected(c)
      OBVIOUS
    <3>2. PICK k \in 0..Len(Corridors) : k = db.loaded
      BY <1>1
    <3>3. IsContainer(b) /\ b.conflator = c.conflator
      BY <1>3, <3>1
    <3>4. corridor_for(c) = [b EXCEPT !.cache = k]
      BY <2>4, <3>1, <3>2
    <3> QED
      BY <1>4, <3>3, <3>4
  <2> QED
    BY <2>1, <2>2, <2>3, <2>4
<1>6. IsContainer(Cold(c.database, c.routed))
  BY <1>1 DEF IsContainer, Cold
<1> QED
  BY <1>1, <1>2, <1>3, <1>4, <1>5, <1>6

\* A step in the container that leaves what was read.
LEMMA RunKeeps ==
    ASSUME TInv, db' = db, IsContainer(container'),
           run'.status = "parsing" => container'.conflator # Unset,
           run'.count \in 0..MaxInvocations,
           run'.candidates = run.candidates \/ run'.candidates = <<>>
    PROVE  TInv'
<1>1. DOMAIN <<>> = {}
  BY ShortSeqs DEF IsSeq
<1>2. DbOK' /\ ContainerOK'
  BY DEF TInv, DbOK, DbShape, ContainerOK, IsContainer
<1>3. CandidatesOK'
  <2>1. CASE run'.candidates = run.candidates
    BY <2>1 DEF TInv, CandidatesOK
  <2>2. CASE run'.candidates = <<>>
    BY <1>1, <2>2 DEF CandidatesOK
  <2> QED
    BY <2>1, <2>2
<1>4. ParsesWithAConflator'
  BY DEF ParsesWithAConflator
<1> QED
  BY <1>2, <1>3, <1>4 DEF TInv

LEMMA InitTInv == Init => TInv
<1> SUFFICES ASSUME Init PROVE TInv
  OBVIOUS
<1>1. DOMAIN <<>> = {}
  BY ShortSeqs DEF IsSeq
<1>2. DbOK
  <2>1. PICK holds \in Contents :
            db = [up |-> TRUE, holds |-> holds, loaded |-> Offline + 1, life |-> 1]
    BY DEF Init
  <2>2. DbShape /\ db.up /\ db.holds \in Contents /\ db.loaded = Offline + 1 /\ db.life = 1
    BY <2>1 DEF DbShape
  <2> QED
    BY <2>2, Numbers DEF DbOK
<1>3. ContainerOK /\ ParsesWithAConflator
  BY Numbers, <1>2 DEF Init, NoRun, Cold, DbOK, ContainerOK, ParsesWithAConflator
<1>4. CandidatesOK
  BY Numbers, <1>1 DEF Init, NoRun, CandidatesOK
<1> QED
  BY <1>2, <1>3, <1>4 DEF TInv

\* What an invocation does before it reads.
LEMMA PreparingKeeps == TInv /\ IInv /\ (Prepare \/ Load \/ PrepareOffline) => TInv'
<1> SUFFICES ASSUME TInv, IInv, Prepare \/ Load \/ PrepareOffline PROVE TInv'
  OBVIOUS
<1>1. DbOK /\ IsContainer(container)
  BY DEF TInv, ContainerOK, IsContainer
<1>2. run.count \in 0..MaxInvocations
  BY DEF TInv, CandidatesOK
<1>3. /\ db' = db
      /\ \E status : run' = [run EXCEPT !.status = status]
    BY DEF Prepare, Load, PrepareOffline, Raised
<1>4. run'.count = run.count /\ run'.candidates = run.candidates
  BY <1>3 DEF IInv, RunShape
<1>5. CASE Prepare
  <2>1. /\ run'.status \in {"loading", "failed"}
        /\ \/ container' = set_corridor_source(container)
           \/ container' = Connected(set_corridor_source(container))
    BY <1>5 DEF Prepare, Raised, IInv, RunShape
  <2>2. PICK installed : installed = set_corridor_source(container) /\ IsContainer(installed)
    BY <1>1, ContainerSteps
  <2>3. IsContainer(container')
    BY <1>1, <2>1, <2>2, ContainerSteps
  <2> QED
    BY <1>2, <1>3, <1>4, <2>1, <2>3, RunKeeps
<1>6. CASE Load
  <2>1. \/ run'.status = "failed" /\ container' = container
        \/ container' = [Connected(container) EXCEPT !.conflator = db.loaded]
    BY <1>6 DEF Load, Raised, IInv, RunShape
  <2>2. PICK connected : connected = Connected(container) /\ IsContainer(connected)
    BY <1>1, ContainerSteps
  <2>3. db.loaded \in 1..Len(Corridors)
    BY <1>1, Numbers DEF DbOK
  <2>4. PICK k \in 1..Len(Corridors) : k = db.loaded
    BY <2>3
  <2>5. CASE container' = [Connected(container) EXCEPT !.conflator = db.loaded]
    <3>1. container' = [connected EXCEPT !.conflator = k]
      BY <2>2, <2>4, <2>5
    <3>2. IsContainer(container') /\ container'.conflator = k
      BY <1>1, <2>2, <3>1, ContainerSteps
    <3> QED
      BY <1>2, <1>3, <1>4, <3>2, Numbers, RunKeeps
  <2>6. CASE run'.status = "failed" /\ container' = container
    BY <1>1, <1>2, <1>3, <1>4, <2>6, RunKeeps
  <2> QED
    BY <2>1, <2>5, <2>6
<1>7. CASE PrepareOffline
  <2>1. container' = [corridor_for(container) EXCEPT !.conflator = Offline]
    BY <1>7 DEF PrepareOffline
  <2>2. PICK loaded : loaded = corridor_for(container) /\ IsContainer(loaded)
    BY <1>1, ContainerSteps
  <2>3. Offline \in 1..Len(Corridors) /\ Offline # Unset
    BY Numbers
  <2>4. IsContainer(container') /\ container'.conflator # Unset
    BY <1>1, <2>1, <2>2, <2>3, ContainerSteps
  <2> QED
    BY <1>2, <1>3, <1>4, <2>4, RunKeeps
<1> QED
  BY <1>5, <1>6, <1>7

\* A record's candidates join the ones before it.
LEMMA JoinedAreSound ==
    ASSUME NEW s, NEW t, IsSeq(s), IsSeq(t),
           \A i \in DOMAIN s : CandidateOK(s[i].says), \A i \in DOMAIN t : CandidateOK(t[i].says)
    PROVE  \A i \in DOMAIN (s \o t) : CandidateOK((s \o t)[i].says)
<1>1. /\ DOMAIN s = 1..Len(s) /\ DOMAIN t = 1..Len(t) /\ Len(s) \in Nat /\ Len(t) \in Nat
      /\ DOMAIN (s \o t) = 1..(Len(s) + Len(t))
  BY SeqJoined DEF IsSeq
<1> SUFFICES ASSUME NEW i \in 1..(Len(s) + Len(t)) PROVE CandidateOK((s \o t)[i].says)
  BY <1>1
<1>2. CASE i \in 1..Len(s)
  BY <1>1, <1>2, SeqJoined
<1>3. CASE i \notin 1..Len(s)
  <2>1. PICK j \in 1..Len(t) : i = Len(s) + j
    <3>1. i - Len(s) \in 1..Len(t) /\ i = Len(s) + (i - Len(s))
      BY <1>1, <1>3
    <3> QED
      BY <3>1
  <2>2. (s \o t)[i] = t[j]
    BY <2>1, SeqJoined
  <2> QED
    BY <1>1, <2>1, <2>2
<1> QED
  BY <1>2, <1>3

LEMMA ParseKeepsSound == TInv /\ IInv /\ AInv /\ Parse => TInv'
<1> SUFFICES ASSUME TInv, IInv, AInv, Parse PROVE TInv'
  OBVIOUS
<1> DEFINE n == run.next
           r == run.payload.records[n]
           out == MapOf(r)
           issues == run.issues \o About(n, out.issues)
           more == [i \in DOMAIN out.candidates |->
                      [record |-> n, says |-> out.candidates[i],
                       mapping_issues |-> record_issues(issues, Len(run.issues))]]
<1>1. DbOK /\ IsContainer(container) /\ run.count \in 0..MaxInvocations
  BY DEF TInv, ContainerOK, IsContainer, CandidatesOK
<1>2. run.status = "parsing" /\ n <= Len(run.payload.records) /\ db' = db
      /\ container.conflator # Unset
  BY DEF Parse, TInv, ParsesWithAConflator
<1>3. \/ container' = container \/ container' = corridor_for(container)
      \/ container' = Connected(container)
  BY DEF Parse
<1>4. IsContainer(container') /\ container'.conflator # Unset
  BY <1>1, <1>2, <1>3, ContainerSteps
<1>5. CASE Raises(r)
  <2>1. run' = [run EXCEPT !.status = "failed"]
    BY <1>5 DEF Parse, Raised
  <2>2. run'.count = run.count /\ run'.candidates = run.candidates
    BY <2>1 DEF IInv, RunShape
  <2> QED
    BY <1>1, <1>2, <1>4, <2>2, RunKeeps
<1>6. CASE ~Raises(r)
  <2>1. run' = [run EXCEPT !.next = n + 1, !.issues = issues,
                           !.off = run.off + out.off,
                           !.seen = IF run.payload.source = "tiles"
                                    THEN SegmentsSeen(r, run.seen) ELSE run.seen,
                           !.candidates = run.candidates \o more]
    BY <1>6, Zenon DEF Parse
  <2>2. IsSeq(out.candidates) /\ AreSound(out) /\ IsSeq(run.candidates)
    BY <1>2, <1>6, EveryAnswer, EveryAnswerIsSound DEF AInv, RecordsAreRead, IsAnswer, Raises
  <2> HIDE DEF out, issues
  <2>3. IsSeq(more) /\ \A i \in DOMAIN more : CandidateOK(more[i].says)
    <3>1. PICK k \in Nat : k = Len(out.candidates) /\ DOMAIN out.candidates = 1..k
      BY <2>2 DEF IsSeq
    <3>2. more = [i \in 1..k |-> more[i]] /\ DOMAIN more = 1..k
      BY <3>1
    <3>3. \A i \in 1..k : more[i].says = out.candidates[i] /\ CandidateOK(out.candidates[i])
      BY <2>2, <3>1 DEF AreSound
    <3> HIDE DEF more
    <3> QED
      BY <3>2, <3>3, FunctionIsSeq
  <2> HIDE DEF more
  <2>4. /\ run'.count = run.count /\ run'.candidates = run.candidates \o more
        /\ run'.status = "parsing"
    BY <1>2, <2>1 DEF IInv, RunShape
  <2>5. CandidatesOK'
    BY <1>1, <2>2, <2>3, <2>4, JoinedAreSound DEF TInv, CandidatesOK
  <2>6. DbOK' /\ ContainerOK' /\ ParsesWithAConflator'
    BY <1>1, <1>2, <1>4 DEF DbOK, DbShape, ContainerOK, IsContainer, ParsesWithAConflator
  <2> QED
    BY <2>5, <2>6 DEF TInv
<1> QED
  BY <1>5, <1>6

\* What happens to the database happens to no container.
LEMMA DatabaseKeeps ==
    ASSUME TInv, container' = container, DbOK', db'.life >= db.life,
           run'.status = run.status, run'.count = run.count, run'.candidates = run.candidates
    PROVE  TInv'
<1>1. \A k \in 0..db.life : k \in 0..db'.life
  BY DEF TInv, DbOK
<1>2. ContainerOK'
  BY <1>1 DEF TInv, ContainerOK
<1> QED
  BY <1>2 DEF TInv, CandidatesOK, ParsesWithAConflator

LEMMA NextTInv == TInv /\ IInv /\ AInv /\ [Next]_vars => TInv'
<1> SUFFICES ASSUME TInv, IInv, AInv, [Next]_vars PROVE TInv'
  OBVIOUS
<1>s. RunShape /\ DbOK /\ IsContainer(container) /\ run.count \in 0..MaxInvocations
  BY DEF IInv, TInv, ContainerOK, IsContainer, CandidatesOK
<1>1. CASE UNCHANGED vars
  BY <1>1 DEF vars, TInv, DbOK, DbShape, ContainerOK, ParsesWithAConflator, CandidatesOK
<1>2. ASSUME NEW p \in Payloads, Begin(p) PROVE TInv'
  <2>1. /\ run'.candidates = <<>> /\ run'.count = run.count + 1 /\ run.count < MaxInvocations
        /\ run'.status = "parsing" => container.conflator # Unset
        /\ db' = db /\ container' = container
    BY <1>2 DEF Begin, NoRun
  <2>2. run'.count \in 0..MaxInvocations
    BY <1>s, <2>1, Numbers
  <2> QED
    BY <1>s, <2>1, <2>2, RunKeeps
<1>3. CASE Prepare \/ Load \/ PrepareOffline
  BY <1>3, PreparingKeeps
<1>4. CASE Read \/ Finish
  <2>1. /\ run'.candidates = run.candidates /\ run'.count = run.count
        /\ db' = db /\ container' = container /\ run.status = "parsing"
    BY <1>s, <1>4 DEF Read, Finish, Raised, RunShape
  <2>2. container.conflator # Unset
    BY <2>1 DEF TInv, ParsesWithAConflator
  <2> QED
    BY <1>s, <2>1, <2>2, RunKeeps
<1>5. CASE Parse
  BY <1>5, ParseKeepsSound
<1>6. CASE GoDown
  <2>1. /\ run'.status = run.status /\ run'.count = run.count
        /\ run'.candidates = run.candidates /\ container' = container
    BY <1>s, <1>6 DEF GoDown, RunShape
  <2>2. /\ db' = [up |-> FALSE, holds |-> db.holds, loaded |-> db.loaded, life |-> db.life]
        /\ db.life <= MaxOutages
    BY <1>s, <1>6 DEF GoDown, DbOK, DbShape
  <2>3. DbOK' /\ db'.life >= db.life
    BY <1>s, <2>2, Numbers DEF DbOK, DbShape
  <2> QED
    BY <2>1, <2>3, DatabaseKeeps
<1>7. CASE ComeBack
  <2>1. /\ db' = [up |-> TRUE, holds |-> db.holds, loaded |-> db.loaded, life |-> db.life + 1]
        /\ db.life <= MaxOutages
    BY <1>s, <1>7 DEF ComeBack, DbOK, DbShape
  <2>2. DbOK' /\ db'.life >= db.life
    BY <1>s, <2>1, Numbers DEF DbOK, DbShape
  <2> QED
    BY <1>7, <2>2, DatabaseKeeps DEF ComeBack
<1>8. CASE Reload
  <2>1. /\ db' = [up |-> db.up, holds |-> db.holds, loaded |-> db.loaded + 1, life |-> db.life]
        /\ db.loaded < Len(Corridors)
    BY <1>s, <1>8 DEF Reload, DbOK, DbShape
  <2>2. DbOK' /\ db'.life >= db.life
    BY <1>s, <2>1, Numbers DEF DbOK, DbShape
  <2> QED
    BY <1>8, <2>2, DatabaseKeeps DEF Reload
<1>10. CASE Fill
  <2>1. /\ run'.status = run.status /\ run'.count = run.count
        /\ run'.candidates = run.candidates /\ container' = container
    BY <1>s, <1>10 DEF Fill, RunShape
  <2>2. PICK more : more = Grown[db.holds] /\ more \in Contents
    BY <1>10 DEF Fill, Grown, Contents
  <2>3. db' = [up |-> db.up, holds |-> more, loaded |-> db.loaded, life |-> db.life]
    BY <1>s, <1>10, <2>2 DEF Fill, DbOK, DbShape
  <2>4. DbOK' /\ db'.life >= db.life
    BY <1>s, <2>2, <2>3, Numbers DEF DbOK, DbShape
  <2> QED
    BY <2>1, <2>4, DatabaseKeeps
<1>9. CASE Recycle
  <2>1. /\ IsContainer(container') /\ db' = db /\ run' = run /\ run.status # "parsing"
    BY <1>s, <1>9, ContainerSteps DEF Recycle
  <2> QED
    BY <1>s, <2>1, RunKeeps
<1> QED
  BY <1>1, <1>2, <1>3, <1>4, <1>5, <1>6, <1>7, <1>8, <1>9, <1>10 DEF Next

\* Whatever the sources send and whenever the database is away, a candidate that is announced
\* lies on the corridor from west to east, in a direction and on lanes the hub knows, and the
\* container's globals stay what its functions expect (core/lrs.py and core/postgis.py:
\* conflate; adapters/*.py; handlers/normalizer.py).
THEOREM TypeCorrect == Spec => []TypeOK
<1>1. TInv /\ IInv => TypeOK
  BY DEF TInv, DbOK, ContainerOK, CandidatesOK, IInv, RunShape, TypeOK
<1> QED
  BY <1>1, InitIInv, NextIInv, InitAInv, NextAInv, InitTInv, NextTInv, PTL DEF Spec
====================================================================================
