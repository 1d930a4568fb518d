------------------------------ MODULE Tracker_proofs ------------------------------
(***************************************************************************)
(* The tracker, for any number of threads, records, requests and writes,   *)
(* and for tables of any content.  First its threads, locks and caches:    *)
(* the lock discipline, the bound of the caches, how old an answer may be  *)
(* (IInv).  Then what a thread has read: each read of a trace kept exactly *)
(* what the table holds while nobody writes to the event, and an event     *)
(* that stayed in its state is among a listing's rows once its state's     *)
(* query went past it (CInv).  From these, what an answer says: a trace    *)
(* finds the damage there is and no other, a listing misses nobody.        *)
(***************************************************************************)
EXTENDS Tracker, FiniteSetTheorems, SequenceTheorems, TLAPS

\* A thread is idle, or has a request it came to in the past.
RequestOK(r, now) ==
    /\ r = [pc |-> r.pc, key |-> r.key, force |-> r.force, since |-> r.since, got |-> r.got]
    /\ r.pc \in PCs \ {"idle"} /\ r.key \in Keys /\ r.force \in BOOLEAN
    /\ r.since \in 0..now

ThreadShape ==
    /\ thread = [t \in Threads |-> thread[t]]
    /\ \A t \in Threads : thread[t] = Idle \/ RequestOK(thread[t], clock)

\* Who builds holds the lock of its key, and who holds a lock builds that key.
LockShape ==
    /\ busy = [k \in Keys |-> busy[k]]
    /\ \A t \in Threads : Building(t) => busy[thread[t].key] = t
    /\ \A k \in Keys : busy[k] # None =>
          busy[k] \in Threads /\ Building(busy[k]) /\ thread[busy[k]].key = k

EntryOK(k) ==
    entries[k] = None \/ entries[k].at \in 0..clock

CacheShape ==
    /\ entries = [k \in Keys |-> entries[k]]
    /\ \A k \in Keys : EntryOK(k)
    /\ \A k \in Keys : IsFiniteSet(Held(k)) /\ Cardinality(Held(k)) <= MaxEntries

RestShape ==
    /\ clock \in 0..MaxClock /\ writes \in Nat /\ requests \in Seq(Keys \X BOOLEAN)
    /\ lagging \subseteq Events

IInv == ThreadShape /\ LockShape /\ CacheShape /\ RestShape /\ AnswersAreRecent

-----------------------------------------------------------------------------------

LEMMA Constants ==
    /\ ListKey \in Keys /\ Events \subseteq Keys /\ ListKey \notin Events
    /\ None \notin Keys /\ None \notin Threads
    /\ TTL \in Nat \ {0} /\ MaxEntries \in Nat \ {0} /\ MaxClock \in Nat
BY TrackerAssumption DEF Keys

\* A thread that is not idle has a request.
LEMMA ThreadParts ==
    ASSUME ThreadShape, NEW t \in Threads, thread[t].pc # "idle"
    PROVE  /\ RequestOK(thread[t], clock)
           /\ thread[t].pc \in PCs /\ thread[t].key \in Keys /\ thread[t].force \in BOOLEAN
           /\ thread[t].since \in 0..clock
BY DEF ThreadShape, Idle, RequestOK

\* A request stays one when its thread finds something.
LEMMA RequestFinds ==
    ASSUME NEW r, NEW now, RequestOK(r, now), NEW got, NEW s, s = [r EXCEPT !.got = got]
    PROVE  RequestOK(s, now) /\ s.pc = r.pc /\ s.key = r.key
BY DEF RequestOK

LEMMA AddBound ==
    ASSUME NEW S, IsFiniteSet(S), NEW b, NEW T, T \subseteq S \cup {b}
    PROVE  IsFiniteSet(T) /\ Cardinality(T) \in Nat /\ Cardinality(T) <= Cardinality(S) + 1
<1>1. /\ IsFiniteSet(S \cup {b}) /\ Cardinality(S) \in Nat
      /\ Cardinality(S \cup {b}) <= Cardinality(S) + 1
    BY FS_AddElement, FS_CardinalityType
<1>2. IsFiniteSet(T) /\ Cardinality(T) <= Cardinality(S \cup {b})
    BY <1>1, FS_Subset
<1>3. Cardinality(T) \in Nat /\ Cardinality(S \cup {b}) \in Nat
    BY <1>1, <1>2, FS_CardinalityType
<1> QED BY <1>1, <1>2, <1>3

LEMMA SwapBound ==
    ASSUME NEW S, IsFiniteSet(S), NEW a \in S, NEW b, NEW T, T \subseteq (S \ {a}) \cup {b}
    PROVE  IsFiniteSet(T) /\ Cardinality(T) \in Nat /\ Cardinality(T) <= Cardinality(S)
<1> DEFINE R == S \ {a}
<1>1. IsFiniteSet(R) /\ Cardinality(R) = Cardinality(S) - 1 /\ Cardinality(S) \in Nat
    BY FS_RemoveElement, FS_CardinalityType
<1>2. T \subseteq R \cup {b}
    OBVIOUS
<1> HIDE DEF R
<1>3. IsFiniteSet(T) /\ Cardinality(T) \in Nat /\ Cardinality(T) <= Cardinality(R) + 1
    BY <1>1, <1>2, AddBound
<1> QED BY <1>1, <1>3

LEMMA InitIInv == Init => IInv
<1> SUFFICES ASSUME Init PROVE IInv
    OBVIOUS
<1> USE Constants DEF Init
<1>1. ThreadShape
    BY DEF ThreadShape
<1>2. LockShape
    BY DEF LockShape, Building, Idle
<1>3. CacheShape
    <2>1. \A k \in Keys : Held(k) = {}
        BY DEF Held, CacheOf
    <2> QED BY <2>1, FS_EmptySet DEF CacheShape, EntryOK
<1>4. RestShape
    BY TrackerAssumption DEF RestShape
<1>5. AnswersAreRecent
    BY DEF AnswersAreRecent, Answered
<1> QED BY <1>1, <1>2, <1>3, <1>4, <1>5 DEF IInv

\* A step of a thread that keeps its request and neither takes nor frees a lock.
LEMMA GotoKeeps ==
    ASSUME IInv, NEW t \in Threads, NEW where, NEW got, Building(t),
           Goto(t, where, got), where \in PCs \ {"idle", "locking"}, answer' = None,
           UNCHANGED <<store, entries, busy, clock, writes, requests>>
    PROVE  IInv'
<1>s. ThreadShape /\ LockShape /\ CacheShape /\ RestShape
    BY DEF IInv
<1>0. RequestOK(thread[t], clock)
    BY <1>s, ThreadParts DEF Building
<1>1. /\ thread'[t] = [thread[t] EXCEPT !.pc = where, !.got = got]
      /\ \A u \in Threads \ {t} : thread'[u] = thread[u]
      /\ thread' = [u \in Threads |-> thread'[u]]
    BY <1>s DEF Goto, ThreadShape
<1>2. /\ thread'[t].pc = where /\ thread'[t].key = thread[t].key
      /\ RequestOK(thread'[t], clock)
    BY <1>0, <1>1 DEF RequestOK
<1>c. clock' = clock /\ busy' = busy /\ entries' = entries /\ lagging' = lagging
    BY DEF store
<1>3. ThreadShape'
    BY <1>s, <1>1, <1>2, <1>c DEF ThreadShape
<1>4. \A u \in Threads : (Building(u)' <=> Building(u)) /\ (Building(u) => thread'[u].key = thread[u].key)
    BY <1>1, <1>2 DEF Building
<1>5. LockShape'
    BY <1>s, <1>4, <1>c DEF LockShape
<1>6. CacheShape' /\ RestShape' /\ AnswersAreRecent'
    BY <1>s, <1>c DEF CacheShape, EntryOK, Held, RestShape, AnswersAreRecent, Answered
<1> QED BY <1>3, <1>5, <1>6 DEF IInv

\* A thread that answers is idle afterwards.
LEMMA ReplyThread ==
    ASSUME ThreadShape, NEW t \in Threads, NEW status, NEW at, NEW value,
           Reply(t, status, at, value), clock' = clock
    PROVE  /\ ThreadShape' /\ thread'[t] = Idle
           /\ \A u \in Threads \ {t} : thread'[u] = thread[u]
           /\ answer'.status = status /\ answer'.force = thread[t].force
           /\ answer'.since = thread[t].since /\ answer'.at = at
<1>1. thread' = [thread EXCEPT ![t] = Idle]
    BY DEF Reply
<1>2. /\ thread'[t] = Idle
      /\ \A u \in Threads \ {t} : thread'[u] = thread[u]
    BY <1>1 DEF ThreadShape
<1>3. ThreadShape'
    BY <1>1, <1>2 DEF ThreadShape
<1> QED BY <1>2, <1>3 DEF Reply

LEMMA AskKeeps ==
    ASSUME IInv, NEW t \in Threads, Ask(t) PROVE IInv'
<1>s. ThreadShape /\ LockShape /\ CacheShape /\ RestShape
    BY DEF IInv
<1> DEFINE new == [pc |-> "locking", key |-> Head(requests)[1], force |-> Head(requests)[2],
                   since |-> clock, got |-> None]
<1>1. /\ thread' = [thread EXCEPT ![t] = new] /\ thread[t] = Idle
      /\ requests # <<>> /\ requests' = Tail(requests) /\ answer' = None
      /\ UNCHANGED <<store, entries, busy, clock, writes>>
    BY DEF Ask
<1>2. Head(requests) \in Keys \X BOOLEAN /\ requests' \in Seq(Keys \X BOOLEAN)
    BY <1>1, <1>s DEF RestShape
<1>3. /\ Head(requests)[1] \in Keys /\ Head(requests)[2] \in BOOLEAN
    BY <1>2
<1>4. RequestOK(new, clock) /\ new.pc = "locking"
    <2>1. clock \in 0..clock
        BY <1>s, Constants DEF RestShape
    <2>2. "locking" \in PCs \ {"idle"}
        BY DEF PCs
    <2> QED BY <1>3, <2>1, <2>2 DEF RequestOK
<1> HIDE DEF new
<1>5. /\ thread'[t] = new /\ \A u \in Threads \ {t} : thread'[u] = thread[u]
      /\ thread' = [u \in Threads |-> thread'[u]]
    BY <1>1, <1>s DEF ThreadShape
<1>6. ThreadShape'
    BY <1>1, <1>4, <1>5, <1>s DEF ThreadShape
<1>7. LockShape'
    <2>1. \A u \in Threads : (Building(u)' <=> Building(u)) /\ (Building(u) => thread'[u] = thread[u])
        BY <1>1, <1>4, <1>5 DEF Building, Idle
    <2> QED BY <1>1, <2>1, <1>s DEF LockShape
<1>8. CacheShape' /\ RestShape' /\ AnswersAreRecent'
    BY <1>1, <1>2, <1>s
       DEF CacheShape, EntryOK, Held, RestShape, store, AnswersAreRecent, Answered
<1> QED BY <1>6, <1>7, <1>8 DEF IInv

LEMMA HitKeeps ==
    ASSUME IInv, NEW t \in Threads, Hit(t) PROVE IInv'
<1>s. ThreadShape /\ LockShape /\ CacheShape /\ RestShape
    BY DEF IInv
<1> DEFINE k == thread[t].key
<1>1. /\ thread[t].pc = "locking" /\ Fresh(t, k)
      /\ Reply(t, 200, entries[k].at, entries[k].value)
      /\ UNCHANGED <<store, entries, busy, clock, writes, requests>>
    BY DEF Hit
<1>2. /\ ThreadShape' /\ thread'[t] = Idle
      /\ \A u \in Threads \ {t} : thread'[u] = thread[u]
      /\ answer'.status = 200 /\ answer'.force = thread[t].force /\ answer'.at = entries[k].at
    BY <1>1, <1>s, ReplyThread
<1>3. LockShape'
    BY <1>1, <1>2, <1>s DEF LockShape, Building, Idle
<1>4. CacheShape' /\ RestShape'
    BY <1>1, <1>s DEF CacheShape, EntryOK, Held, RestShape, store
<1>5. AnswersAreRecent'
    BY <1>1, <1>2 DEF AnswersAreRecent, Answered, Fresh
<1> QED BY <1>2, <1>3, <1>4, <1>5 DEF IInv

LEMMA MissKeeps ==
    ASSUME IInv, NEW t \in Threads, Miss(t) PROVE IInv'
<1>s. ThreadShape /\ LockShape /\ CacheShape /\ RestShape
    BY DEF IInv
<1>k. RequestOK(thread[t], clock) /\ thread[t].key \in Keys
    BY <1>s, ThreadParts DEF Miss
<1>0. PICK k \in Keys : k = thread[t].key
    BY <1>k
<1>1. /\ thread[t].pc = "locking" /\ busy[k] = None /\ busy' = [busy EXCEPT ![k] = t]
      /\ \E where \in {"querying", "current"} : \E got : Goto(t, where, got)
      /\ answer' = None
      /\ UNCHANGED <<store, entries, clock, writes, requests>>
    BY <1>0 DEF Miss
<1>3. PICK where \in {"querying", "current"} : \E got : Goto(t, where, got)
    BY <1>1
<1>2. PICK got : Goto(t, where, got)
    BY <1>3
<1>4. /\ thread'[t] = [thread[t] EXCEPT !.pc = where, !.got = got]
      /\ \A u \in Threads \ {t} : thread'[u] = thread[u]
      /\ thread' = [u \in Threads |-> thread'[u]]
    BY <1>2, <1>s DEF Goto, ThreadShape
<1>5. thread'[t].pc = where /\ thread'[t].key = k /\ RequestOK(thread'[t], clock)
    <2>1. where \in PCs \ {"idle"}
        BY DEF PCs
    <2> QED BY <1>0, <1>k, <1>4, <2>1 DEF RequestOK
<1>6. ThreadShape'
    BY <1>s, <1>1, <1>4, <1>5 DEF ThreadShape
<1>7. LockShape'
    <2>1. /\ busy' = [j \in Keys |-> busy'[j]] /\ busy'[k] = t
          /\ \A j \in Keys \ {k} : busy'[j] = busy[j]
        BY <1>1, <1>5, <1>s DEF LockShape
    <2>2. \A u \in Threads : Building(u) => thread[u].key # k
        BY <1>1, <1>s, Constants DEF LockShape
    <2>3. ~Building(t) /\ Building(t)'
        BY <1>1, <1>5 DEF Building
    <2>4. ASSUME NEW u \in Threads, Building(u)' PROVE busy'[thread'[u].key] = u
        <3>1. CASE u = t
            BY <2>1, <1>5, <3>1
        <3>2. CASE u # t
            <4>1. Building(u) /\ thread'[u] = thread[u] /\ thread[u].key # k
                BY <1>4, <2>2, <2>4, <3>2 DEF Building
            <4>2. thread[u].key \in Keys
                BY <1>s, <4>1, ThreadParts DEF Building
            <4> QED BY <4>1, <4>2, <2>1, <1>s DEF LockShape
        <3> QED BY <3>1, <3>2
    <2>5. ASSUME NEW j \in Keys, busy'[j] # None
          PROVE  busy'[j] \in Threads /\ Building(busy[j])' /\ thread'[busy'[j]].key = j
        <3>1. CASE j = k
            BY <2>1, <2>3, <1>5, <3>1 DEF Building
        <3>2. CASE j # k
            <4>1. busy'[j] = busy[j] /\ busy[j] \in Threads /\ Building(busy[j])
                  /\ thread[busy[j]].key = j
                BY <2>1, <2>5, <3>2, <1>s DEF LockShape
            <4>2. busy[j] # t
                BY <4>1, <2>3
            <4> QED BY <4>1, <4>2, <1>4 DEF Building
        <3> QED BY <3>1, <3>2
    <2> QED BY <2>1, <2>4, <2>5 DEF LockShape
<1>8. CacheShape' /\ RestShape' /\ AnswersAreRecent'
    BY <1>1, <1>s DEF CacheShape, EntryOK, Held, RestShape, store, AnswersAreRecent, Answered
<1> QED BY <1>6, <1>7, <1>8 DEF IInv

\* What a thread leaves behind that answers and frees the lock of its key.
LEMMA ReleaseKeepsLocks ==
    ASSUME IInv, NEW t \in Threads, Building(t),
           busy' = [busy EXCEPT ![thread[t].key] = None], thread'[t] = Idle,
           \A u \in Threads \ {t} : thread'[u] = thread[u]
    PROVE  LockShape'
<1>s. ThreadShape /\ LockShape
    BY DEF IInv
<1>0. thread[t].key \in Keys
    BY <1>s, ThreadParts DEF Building
<1>k. PICK k \in Keys : k = thread[t].key
    BY <1>0
<1>1. busy[k] = t
    BY <1>s, <1>k DEF LockShape
<1>2. /\ busy' = [j \in Keys |-> busy'[j]] /\ busy'[k] = None
      /\ \A j \in Keys \ {k} : busy'[j] = busy[j]
    BY <1>k, <1>s DEF LockShape
<1>3. ASSUME NEW u \in Threads, Building(u)' PROVE busy'[thread'[u].key] = u
    <2>1. u # t /\ Building(u) /\ thread'[u] = thread[u]
        BY <1>3 DEF Building, Idle
    <2>2. thread[u].key \in Keys /\ busy[thread[u].key] = u
        BY <2>1, <1>s, ThreadParts DEF LockShape, Building
    <2>3. thread[u].key # k
        BY <2>1, <2>2, <1>1, <1>k
    <2> QED BY <2>1, <2>2, <2>3, <1>2
<1>4. ASSUME NEW j \in Keys, busy'[j] # None
      PROVE  busy'[j] \in Threads /\ Building(busy[j])' /\ thread'[busy'[j]].key = j
    <2>1. j # k /\ busy'[j] = busy[j]
        BY <1>2, <1>4
    <2>2. busy[j] \in Threads /\ Building(busy[j]) /\ thread[busy[j]].key = j
        BY <1>4, <2>1, <1>s DEF LockShape
    <2>3. busy[j] # t
        BY <2>1, <2>2, <1>k
    <2> QED BY <2>1, <2>2, <2>3 DEF Building
<1> QED BY <1>2, <1>3, <1>4 DEF LockShape

\* What a store leaves in the caches.
LEMMA StoreKeepsBound ==
    ASSUME IInv, NEW t \in Threads, Store(t) PROVE CacheShape'
<1> DEFINE new == [at |-> clock, value |-> thread[t].got.value]
<1>s. ThreadShape /\ LockShape /\ CacheShape /\ RestShape
    BY DEF IInv
<1>0. thread[t].key \in Keys
    BY <1>s, ThreadParts DEF Store
<1>k. PICK k \in Keys : k = thread[t].key
    BY <1>0
<1>1. /\ clock' = clock
      /\ \/ /\ Cardinality(Held(k)) < MaxEntries
            /\ entries' = [entries EXCEPT ![k] = new]
         \/ /\ Cardinality(Held(k)) >= MaxEntries
            /\ \E oldest \in Held(k) :
                   entries' = [entries EXCEPT ![oldest] = None, ![k] = new]
    BY <1>k DEF Store
<1>3. new.at \in 0..clock
    BY <1>s, Constants DEF RestShape
<1>4. /\ IsFiniteSet(Held(k)) /\ Cardinality(Held(k)) \in Nat
      /\ Cardinality(Held(k)) <= MaxEntries
    BY <1>s, FS_CardinalityType DEF CacheShape
<1>n. PICK entry : entry = new
    OBVIOUS
<1> HIDE DEF new
<1>c. k \in CacheOf(k) /\ CacheOf(k) \subseteq Keys
    BY Constants DEF CacheOf, Keys
<1>5. /\ entries' = [j \in Keys |-> entries'[j]]
      /\ \A j \in Keys : entries'[j] \in {entries[j], None, entry}
      /\ \A j \in Keys \ CacheOf(k) : entries'[j] = entries[j]
      /\ IsFiniteSet(Held(k)') /\ Cardinality(Held(k)') <= MaxEntries
    <2>1. CASE /\ Cardinality(Held(k)) < MaxEntries
               /\ entries' = [entries EXCEPT ![k] = new]
        <3>1. \A j \in Keys : entries'[j] = IF j = k THEN entry ELSE entries[j]
            BY <2>1, <1>n, <1>s DEF CacheShape
        <3>2. Held(k)' \subseteq Held(k) \cup {k}
            BY <3>1, <1>c DEF Held, CacheOf
        <3>3. /\ IsFiniteSet(Held(k)') /\ Cardinality(Held(k)') \in Nat
              /\ Cardinality(Held(k)') <= Cardinality(Held(k)) + 1
            BY <3>2, <1>4, AddBound
        <3>4. Cardinality(Held(k)') <= MaxEntries
            BY <3>3, <1>4, <2>1, Constants
        <3>5. entries' = [j \in Keys |-> entries'[j]]
            BY <2>1, <1>s DEF CacheShape
        <3> QED BY <3>1, <3>3, <3>4, <3>5, <1>c
    <2>2. CASE /\ Cardinality(Held(k)) >= MaxEntries
               /\ \E oldest \in Held(k) :
                      entries' = [entries EXCEPT ![oldest] = None, ![k] = new]
        <3>1. PICK oldest \in Held(k) : entries' = [entries EXCEPT ![oldest] = None, ![k] = new]
            BY <2>2
        <3>2. oldest \in Keys /\ oldest \in CacheOf(k)
            BY <1>c DEF Held
        <3>3. \A j \in Keys : entries'[j] = IF j = k THEN entry
                                             ELSE IF j = oldest THEN None ELSE entries[j]
            BY <3>1, <3>2, <1>n, <1>s DEF CacheShape
        <3>4. Held(k)' \subseteq (Held(k) \ {oldest}) \cup {k}
            BY <3>3, <1>c DEF Held, CacheOf
        <3>5. /\ IsFiniteSet(Held(k)') /\ Cardinality(Held(k)') \in Nat
              /\ Cardinality(Held(k)') <= Cardinality(Held(k))
            BY <3>4, <1>4, SwapBound
        <3>6. Cardinality(Held(k)') <= MaxEntries
            BY <3>5, <1>4, Constants
        <3>7. entries' = [j \in Keys |-> entries'[j]]
            BY <3>1, <1>s DEF CacheShape
        <3> QED BY <3>2, <3>3, <3>5, <3>6, <3>7, <1>c
    <2> QED BY <1>1, <2>1, <2>2
<1>6. \A j \in Keys : EntryOK(j)'
    BY <1>1, <1>3, <1>n, <1>5, <1>s DEF CacheShape, EntryOK
<1>7. ASSUME NEW j \in Keys
      PROVE  IsFiniteSet(Held(j)') /\ Cardinality(Held(j)') <= MaxEntries
    <2>1. CASE CacheOf(j) = CacheOf(k)
        <3>1. Held(j)' = Held(k)'
            BY <2>1 DEF Held, CacheOf
        <3> QED BY <3>1, <1>5
    <2>2. CASE CacheOf(j) # CacheOf(k)
        <3>1. \A i \in CacheOf(j) : i \in Keys /\ i \notin CacheOf(k)
            BY <2>2, Constants DEF CacheOf, Keys
        <3>2. Held(j)' = Held(j)
            BY <3>1, <1>5 DEF Held, CacheOf
        <3> QED BY <3>2, <1>s DEF CacheShape
    <2> QED BY <2>1, <2>2
<1> QED BY <1>5, <1>6, <1>7 DEF CacheShape

LEMMA StoreKeeps ==
    ASSUME IInv, NEW t \in Threads, Store(t) PROVE IInv'
<1>s. ThreadShape /\ LockShape /\ CacheShape /\ RestShape
    BY DEF IInv
<1>1. /\ thread[t].pc = "storing" /\ busy' = [busy EXCEPT ![thread[t].key] = None]
      /\ Reply(t, 200, clock, thread[t].got.value)
      /\ UNCHANGED <<store, clock, writes, requests>>
    BY DEF Store
<1>2. /\ ThreadShape' /\ thread'[t] = Idle
      /\ \A u \in Threads \ {t} : thread'[u] = thread[u]
      /\ answer'.since = thread[t].since /\ answer'.at = clock
    BY <1>1, <1>s, ReplyThread
<1>3. LockShape'
    BY <1>1, <1>2, ReleaseKeepsLocks DEF Building
<1>4. RestShape'
    BY <1>1, <1>s DEF RestShape, store
<1>5. AnswersAreRecent'
    <2>1. thread[t].since \in 0..clock /\ clock \in Nat
        BY <1>1, <1>s, ThreadParts, Constants DEF RestShape
    <2> QED BY <1>1, <1>2, <2>1, Constants DEF AnswersAreRecent, Answered
<1> QED BY <1>2, <1>3, <1>4, <1>5, StoreKeepsBound DEF IInv

LEMMA FailKeeps ==
    ASSUME IInv, NEW t \in Threads, Fail(t) PROVE IInv'
<1>s. ThreadShape /\ LockShape /\ CacheShape /\ RestShape
    BY DEF IInv
<1>1. /\ Building(t) /\ busy' = [busy EXCEPT ![thread[t].key] = None]
      /\ Reply(t, 503, clock, None)
      /\ UNCHANGED <<store, entries, clock, writes, requests>>
    BY DEF Fail
<1>2. /\ ThreadShape' /\ thread'[t] = Idle
      /\ \A u \in Threads \ {t} : thread'[u] = thread[u]
      /\ answer'.status = 503
    BY <1>1, <1>s, ReplyThread
<1>3. LockShape'
    BY <1>1, <1>2, ReleaseKeepsLocks
<1>4. CacheShape' /\ RestShape'
    BY <1>1, <1>s DEF CacheShape, EntryOK, Held, RestShape, store
<1>5. AnswersAreRecent'
    BY <1>2 DEF AnswersAreRecent, Answered
<1> QED BY <1>2, <1>3, <1>4, <1>5 DEF IInv

\* The reads: each moves its thread on, and keeps its request.
LEMMA ReadKeeps ==
    ASSUME IInv, NEW t \in Threads,
           \/ ReadCurrent(t) \/ ReadVersions(t) \/ ReadAudit(t)
           \/ CountVersions(t) \/ CountAudit(t) \/ Query(t)
    PROVE  IInv'
<1>1. /\ Building(t) /\ answer' = None
      /\ \E where \in PCs \ {"idle", "locking"} : \E got : Goto(t, where, got)
      /\ UNCHANGED <<store, entries, busy, clock, writes, requests>>
    <2>1. CASE ReadCurrent(t)
        BY <2>1 DEF ReadCurrent, Building, PCs
    <2>2. CASE ReadVersions(t)
        BY <2>2 DEF ReadVersions, Building, PCs
    <2>3. CASE ReadAudit(t)
        BY <2>3 DEF ReadAudit, Building, PCs
    <2>4. CASE CountVersions(t)
        BY <2>4 DEF CountVersions, Building, PCs
    <2>5. CASE CountAudit(t)
        BY <2>5 DEF CountAudit, Building, PCs
    <2>6. CASE Query(t)
        <3>1. \E got : Goto(t, "storing", got) \/ Goto(t, "querying", got)
            BY <2>6, Zenon DEF Query
        <3> QED BY <2>6, <3>1 DEF Query, Building, PCs
    <2> QED BY <2>1, <2>2, <2>3, <2>4, <2>5, <2>6
<1> QED BY <1>1, GotoKeeps

LEMMA WriteKeeps ==
    ASSUME IInv, NEW e \in Events, Write(e) PROVE IInv'
<1>s. ThreadShape /\ LockShape /\ CacheShape /\ RestShape
    BY DEF IInv
<1>1. /\ DOMAIN thread' = Threads /\ thread' = [t \in Threads |-> thread'[t]]
      /\ UNCHANGED <<entries, busy, clock, requests>> /\ answer' = None
      /\ writes > 0 /\ writes' = writes - 1 /\ lagging' = lagging \cup {e}
    BY DEF Write
<1>2. ASSUME NEW t \in Threads
      PROVE  thread'[t] = thread[t] \/ (Building(t) /\ \E got : thread'[t] = [thread[t] EXCEPT !.got = got])
    BY DEF Write
<1>3. ASSUME NEW t \in Threads
      PROVE  /\ thread'[t].pc = thread[t].pc /\ (Building(t)' <=> Building(t))
             /\ Building(t) => thread'[t].key = thread[t].key
             /\ thread'[t] = Idle \/ RequestOK(thread'[t], clock)
    <2>1. CASE thread'[t] = thread[t]
        BY <2>1, <1>s DEF ThreadShape, Building
    <2>2. CASE Building(t) /\ \E got : thread'[t] = [thread[t] EXCEPT !.got = got]
        <3>1. RequestOK(thread[t], clock)
            BY <2>2, <1>s, ThreadParts DEF Building
        <3>2. PICK got : thread'[t] = [thread[t] EXCEPT !.got = got]
            BY <2>2
        <3>3. RequestOK(thread'[t], clock) /\ thread'[t].pc = thread[t].pc
              /\ thread'[t].key = thread[t].key
            BY <3>1, <3>2, RequestFinds
        <3> QED BY <3>3 DEF Building
    <2> QED BY <1>2, <2>1, <2>2
<1>4. ThreadShape'
    BY <1>1, <1>3 DEF ThreadShape
<1>5. LockShape'
    BY <1>1, <1>3, <1>s DEF LockShape
<1>6. CacheShape' /\ AnswersAreRecent'
    BY <1>1, <1>s DEF CacheShape, EntryOK, Held, AnswersAreRecent, Answered
<1>7. RestShape'
    BY <1>1, <1>s DEF RestShape
<1> QED BY <1>4, <1>5, <1>6, <1>7 DEF IInv

LEMMA TimeKeeps ==
    ASSUME IInv, Pass \/ (\E e \in Events : CatchUp(e)) PROVE IInv'
<1>s. ThreadShape /\ LockShape /\ CacheShape /\ RestShape
    BY DEF IInv
<1>1. /\ UNCHANGED <<entries, busy, thread, writes, requests>> /\ answer' = None
      /\ clock' \in 0..MaxClock /\ clock' >= clock /\ lagging' \subseteq Events
    BY <1>s, Constants DEF Pass, CatchUp, RestShape, store
<1>2. \A n \in 0..clock : n \in 0..clock'
    BY <1>1, <1>s, Constants DEF RestShape
<1>3. ThreadShape' /\ LockShape'
    <2>1. \A t \in Threads : RequestOK(thread[t], clock) => RequestOK(thread[t], clock')
        BY <1>2 DEF RequestOK
    <2> QED BY <1>1, <2>1, <1>s DEF ThreadShape, LockShape, Building
<1>4. CacheShape' /\ RestShape' /\ AnswersAreRecent'
    BY <1>1, <1>2, <1>s DEF CacheShape, EntryOK, Held, RestShape, AnswersAreRecent, Answered
<1> QED BY <1>3, <1>4 DEF IInv

LEMMA NextIInv == IInv /\ [Next]_vars => IInv'
<1> SUFFICES ASSUME IInv, [Next]_vars PROVE IInv'
    OBVIOUS
<1>1. CASE UNCHANGED vars
    <2>1. ThreadShape' /\ LockShape'
        BY <1>1 DEF vars, IInv, ThreadShape, LockShape, Building
    <2>2. CacheShape' /\ RestShape' /\ AnswersAreRecent'
        BY <1>1 DEF vars, IInv, CacheShape, EntryOK, Held, RestShape, AnswersAreRecent, Answered
    <2> QED BY <2>1, <2>2 DEF IInv
<1>2. CASE Next
    BY <1>2, AskKeeps, HitKeeps, MissKeeps, StoreKeeps, FailKeeps, ReadKeeps, WriteKeeps,
       TimeKeeps DEF Next, Serve
<1> QED BY <1>1, <1>2

LEMMA SpecIInv == Spec => []IInv
BY InitIInv, NextIInv, PTL DEF Spec

\* The threads, the locks and the caches are in order, however many threads ask: no key is
\* built twice at a time, a lock ends with its build, and no cache outgrows its bound
\* (scripts/trace_server.py: _cached, its lock per key and its eviction).
THEOREM TypeCorrect == Spec => []TypeOK
<1>1. IInv => TypeOK
    <2> SUFFICES ASSUME IInv PROVE TypeOK
        OBVIOUS
    <2>1. \A t \in Threads : thread[t].pc \in PCs
        <3>1. \A t \in Threads : thread[t].pc = "idle" \/ thread[t].pc \in PCs
            BY ThreadParts DEF IInv
        <3> QED BY <3>1 DEF PCs
    <2>2. ASSUME NEW t \in Threads PROVE Building(t) <=> \E k \in Keys : busy[k] = t
        <3>1. Building(t) => thread[t].key \in Keys
            BY ThreadParts DEF IInv, Building
        <3> QED BY <3>1, Constants DEF IInv, LockShape
    <2> QED BY <2>1, <2>2 DEF TypeOK, IInv, LockShape, CacheShape, EntryOK, RestShape
<1> QED BY <1>1, SpecIInv, PTL

\* No answer is older than the time to live, and one asked to be fresh was read after it was
\* asked for, however long its thread waited (scripts/trace_server.py: _cached, which looks
\* at the age after it has the lock).
THEOREM NoOldAnswer == Spec => []AnswersAreRecent
<1>1. IInv => AnswersAreRecent
    BY DEF IInv
<1> QED BY <1>1, SpecIInv, PTL

(***************************************************************************)
(* Numbers in order.                                                       *)
(***************************************************************************)

Rank(S, x) == Cardinality({m \in S : m < x})

LEMMA RankGrows ==
    ASSUME NEW S, IsFiniteSet(S), S \subseteq Int, NEW x \in S
    PROVE  /\ Cardinality(S) \in Nat /\ Rank(S, x) \in 0..(Cardinality(S) - 1)
           /\ \A y \in S : x < y => Rank(S, x) < Rank(S, y)
<1> DEFINE Below(y) == {m \in S : m < y}
<1>1. ASSUME NEW y \in S
      PROVE  IsFiniteSet(Below(y)) /\ Cardinality(Below(y)) \in Nat
  <2>1. Below(y) \in SUBSET S
    OBVIOUS
  <2> QED
    BY <2>1, FS_Subset, FS_CardinalityType
<1>2. Cardinality(S) \in Nat /\ Cardinality(S \ {x}) = Cardinality(S) - 1 /\ IsFiniteSet(S \ {x})
  BY FS_CardinalityType, FS_RemoveElement
<1>3. Below(x) \in SUBSET (S \ {x})
  OBVIOUS
<1>4. Cardinality(Below(x)) <= Cardinality(S) - 1
  BY <1>2, <1>3, FS_Subset
<1>5. ASSUME NEW y \in S, x < y PROVE Cardinality(Below(x)) < Cardinality(Below(y))
  <2>0. x \in Int /\ y \in Int
    OBVIOUS
  <2>a. ASSUME NEW m \in Below(x) PROVE m \in Below(y)
    <3>1. m \in S /\ m \in Int /\ m < x
      OBVIOUS
    <3>2. m < y
      BY <1>5, <2>0, <3>1
    <3> QED
      BY <3>1, <3>2
  <2>b. x \in Below(y)
    BY <1>5
  <2>c. x \notin Below(x)
    BY <2>0
  <2> HIDE DEF Below
  <2>1. Below(x) \in SUBSET Below(y) /\ x \in Below(y) /\ x \notin Below(x)
    BY <2>a, <2>b, <2>c
  <2>2. Cardinality(Below(x)) <= Cardinality(Below(y)) /\ Cardinality(Below(x)) # Cardinality(Below(y))
    BY <1>1, <2>1, FS_Subset
  <2> QED
    BY <1>1, <2>2
<1> QED
  BY <1>1, <1>2, <1>4, <1>5 DEF Rank

\* Each rank is taken, by one number.
LEMMA RanksFill ==
    ASSUME NEW S, IsFiniteSet(S), S \subseteq Int
    PROVE  /\ Cardinality(S) \in Nat
           /\ \A k \in 0..(Cardinality(S) - 1) : \E x \in S : Rank(S, x) = k
           /\ \A x \in S : \A y \in S : Rank(S, x) = Rank(S, y) => x = y
<1> DEFINE c == Cardinality(S)
           f == [x \in S |-> Rank(S, x)]
<1>1. c \in Nat
  BY FS_CardinalityType
<1>2. \A x \in S : Rank(S, x) \in 0..(c - 1)
  BY RankGrows
<1>3. \A x \in S : \A y \in S : x # y => Rank(S, x) # Rank(S, y)
  <2> SUFFICES ASSUME NEW x \in S, NEW y \in S, x < y PROVE Rank(S, x) # Rank(S, y)
    OBVIOUS
  <2>1. Rank(S, x) < Rank(S, y)
    BY RankGrows
  <2> QED
    BY <1>2, <2>1
<1>4. f \in Injection(S, 0..(c - 1))
  BY <1>2, <1>3 DEF Injection, IsInjective
<1>5. IsFiniteSet(0..(c - 1)) /\ Cardinality(0..(c - 1)) = c
  BY <1>1, FS_Interval
<1> HIDE DEF f
<1>6. f \in Surjection(S, 0..(c - 1))
  BY <1>4, <1>5, FS_Injection
<1>7. \A k \in 0..(c - 1) : \E x \in S : Rank(S, x) = k
  BY <1>6 DEF Surjection, f
<1> QED
  BY <1>1, <1>3, <1>7

\* Ascending lists each of the numbers once, in order.
LEMMA AscendingOf ==
    ASSUME NEW S, IsFiniteSet(S), S \subseteq Int, NEW q, q = Ascending(S)
    PROVE  /\ Cardinality(S) \in Nat /\ q \in Seq(S) /\ Len(q) = Cardinality(S)
           /\ DOMAIN q = 1..Len(q)
           /\ \A i \in 1..Len(q) : Rank(S, q[i]) = i - 1
           /\ \A i, j \in 1..Len(q) : i < j => q[i] < q[j]
           /\ \A i, j \in 1..Len(q) : q[i] <= q[j] => i <= j
           /\ \A n \in S : \E i \in 1..Len(q) : q[i] = n
<1> DEFINE c == Cardinality(S)
<1>1. c \in Nat
  BY FS_CardinalityType
<1>2. \A x \in S : Rank(S, x) \in 0..(c - 1)
  BY RankGrows
<1>3. \A x \in S : \A y \in S : Rank(S, x) = Rank(S, y) => x = y
  BY RanksFill
<1>7. \A k \in 0..(c - 1) : \E x \in S : Rank(S, x) = k
  BY RanksFill
<1>8. q = [i \in 1..c |-> CHOOSE n \in S : Rank(S, n) = i - 1]
  BY DEF Ascending, Rank
<1>9. ASSUME NEW i \in 1..c PROVE q[i] \in S /\ Rank(S, q[i]) = i - 1
  <2>1. \E n \in S : Rank(S, n) = i - 1
    BY <1>1, <1>7
  <2>2. q[i] = CHOOSE n \in S : Rank(S, n) = i - 1
    BY <1>8
  <2> HIDE DEF c
  <2> QED
    BY <2>1, <2>2
<1>10. q \in [1..c -> S]
  BY <1>8, <1>9
<1>11. q \in Seq(S) /\ Len(q) = c /\ DOMAIN q = 1..c
  BY <1>1, <1>10, SeqDef, LenProperties
<1>12. ASSUME NEW i \in 1..c, NEW j \in 1..c, q[i] <= q[j] PROVE i <= j
  <2>1. PICK x \in S : x = q[i] /\ Rank(S, x) = i - 1
    BY <1>9
  <2>2. PICK y \in S : y = q[j] /\ Rank(S, y) = j - 1
    BY <1>9
  <2>3. CASE x = y
    BY <1>1, <2>1, <2>2, <2>3
  <2>4. CASE x < y
    <3>1. Rank(S, x) < Rank(S, y)
      BY <2>4, RankGrows
    <3> QED
      BY <1>1, <2>1, <2>2, <3>1
  <2>5. x \in Int /\ y \in Int /\ x <= y
    BY <1>12, <2>1, <2>2
  <2> QED
    BY <2>3, <2>4, <2>5
<1>13. ASSUME NEW i \in 1..c, NEW j \in 1..c, i < j PROVE q[i] < q[j]
  <2>1. q[i] \in Int /\ q[j] \in Int
    BY <1>9
  <2>2. ~(q[j] <= q[i])
    BY <1>1, <1>12, <1>13
  <2> QED
    BY <2>1, <2>2
<1>14. ASSUME NEW n \in S PROVE \E i \in 1..c : q[i] = n
  <2>1. Rank(S, n) + 1 \in 1..c
    BY <1>1, <1>2
  <2>2. q[Rank(S, n) + 1] \in S /\ Rank(S, q[Rank(S, n) + 1]) = Rank(S, n)
    BY <1>2, <1>9, <2>1
  <2> QED
    BY <1>3, <2>1, <2>2
<1> HIDE DEF c
<1>15. c = Cardinality(S)
  BY DEF c
<1> QED
  BY <1>1, <1>9, <1>11, <1>12, <1>13, <1>14, <1>15

\* A page is the first so many of what is there, each once.  If there is more, it is all
\* beyond the page's last.
IsPage(page, S) ==
    /\ page \in Seq(S) /\ Cardinality(S) \in Nat
    /\ \A i, j \in 1..Len(page) : page[i] = page[j] => i = j
    /\ Cardinality(S) > Len(page) =>
         /\ Last(page) \in S
         /\ \A n \in S : n <= Last(page) <=> \E i \in 1..Len(page) : page[i] = n
    /\ ~(Cardinality(S) > Len(page)) => \A n \in S : \E i \in 1..Len(page) : page[i] = n

LEMMA PageIsFirst ==
    ASSUME NEW S, IsFiniteSet(S), S \subseteq Int, NEW many \in Nat \ {0},
           NEW page, page = Oldest(S, many)
    PROVE  IsPage(page, S)
<1> DEFINE first == {n \in S : Rank(S, n) < many}
<1>1. page = Ascending(first)
  BY DEF Oldest, Rank
<1>2. first \in SUBSET S /\ Cardinality(S) \in Nat
  BY FS_CardinalityType
<1>3. IsFiniteSet(first) /\ Cardinality(first) <= Cardinality(S)
      /\ (Cardinality(S) = Cardinality(first) => S = first)
  BY <1>2, FS_Subset
<1>4. ASSUME NEW m \in S, NEW n \in first, m <= n PROVE m \in first
  <2>1. n \in S /\ Rank(S, n) < many
    OBVIOUS
  <2>2. Rank(S, m) \in 0..(Cardinality(S) - 1) /\ (m < n => Rank(S, m) < Rank(S, n))
    BY <2>1, RankGrows
  <2>3. Rank(S, n) \in 0..(Cardinality(S) - 1)
    BY <2>1, RankGrows
  <2>4. m = n \/ m < n
    BY <1>4, <2>1
  <2> QED
    BY <1>2, <2>1, <2>2, <2>3, <2>4
<1>5. S # {} => first # {}
  <2> SUFFICES ASSUME S # {} PROVE \E n \in S : Rank(S, n) = 0
    OBVIOUS
  <2>1. Cardinality(S) # 0
    BY FS_EmptySet
  <2>2. 0 \in 0..(Cardinality(S) - 1)
    BY <1>2, <2>1
  <2> QED
    BY <2>2, RanksFill
<1> HIDE DEF first
<1>6. /\ page \in Seq(first) /\ Len(page) = Cardinality(first) /\ Len(page) \in Nat
      /\ \A i, j \in 1..Len(page) : page[i] <= page[j] => i <= j
      /\ \A i, j \in 1..Len(page) : i < j => page[i] < page[j]
      /\ \A n \in first : \E i \in 1..Len(page) : page[i] = n
  <2>1. first \subseteq Int
    BY <1>2
  <2> QED
    BY <1>1, <1>3, <2>1, AscendingOf
<1>7. ASSUME NEW i \in 1..Len(page) PROVE page[i] \in first /\ page[i] \in Int
  <2>1. page[i] \in first
    BY <1>6
  <2> QED
    BY <1>2, <2>1
<1>8. page \in Seq(S)
  <2>1. page \in [1..Len(page) -> S] /\ Len(page) \in Nat
    BY <1>2, <1>6, <1>7
  <2> QED
    BY <2>1, SeqDef
<1>9. \A i, j \in 1..Len(page) : page[i] = page[j] => i = j
  BY <1>6, <1>7
<1>10. ASSUME Cardinality(S) > Len(page)
       PROVE  /\ Last(page) \in S
              /\ \A n \in S : n <= Last(page) <=> \E i \in 1..Len(page) : page[i] = n
  <2>1. S # {}
    <3> SUFFICES ASSUME S = {} PROVE FALSE
      OBVIOUS
    <3>1. Cardinality(S) = 0
      BY FS_EmptySet
    <3> QED
      BY <1>6, <1>10, <3>1
  <2>2. Len(page) \in 1..Len(page)
    <3>1. \E i \in 1..Len(page) : TRUE
      BY <1>5, <1>6, <2>1
    <3> QED
      BY <1>6, <3>1
  <2>3. Last(page) = page[Len(page)]
    BY DEF Last
  <2>4. Last(page) \in first /\ Last(page) \in S
    BY <1>2, <1>7, <2>2, <2>3
  <2>5. ASSUME NEW n \in S, n <= Last(page) PROVE \E i \in 1..Len(page) : page[i] = n
    BY <1>4, <1>6, <2>4, <2>5
  <2>6. ASSUME NEW i \in 1..Len(page) PROVE page[i] <= Last(page)
    <3>1. i = Len(page) \/ i < Len(page)
      BY <1>6
    <3> QED
      BY <1>6, <1>7, <2>2, <2>3, <3>1
  <2> QED
    BY <2>4, <2>5, <2>6
<1>11. ASSUME ~(Cardinality(S) > Len(page)) PROVE \A n \in S : \E i \in 1..Len(page) : page[i] = n
  <2>1. S = first
    BY <1>2, <1>3, <1>6, <1>11
  <2> QED
    BY <1>6, <2>1
<1> QED
  BY <1>2, <1>8, <1>9, <1>10, <1>11 DEF IsPage

(***************************************************************************)
(* What threads have read.  The operators take the histories, the items    *)
(* that are gone and the events whose last write is not seen yet as        *)
(* parameters, so that they can be compared before and after a step.       *)
(***************************************************************************)

\* No state is asked for twice.  The tracker does not see to that: a state named twice in the
\* address is queried twice, and its records are listed twice.
NoStateTwice == \A i, j \in 1..Len(Wanted) : Wanted[i] = Wanted[j] => i = j

StoreShape ==
    /\ steps = [e \in Events |-> steps[e]]
    /\ \A e \in Events : steps[e] \in Seq(ToSet(steps[e]))
    /\ missing \subseteq Events \X {"version", "audit"} \X (Nat \ {0})
    /\ \A m \in missing : m[3] <= Committed(m[1])

\* The places where e stands among the rows.
At(rows, e) == {i \in DOMAIN rows : rows[i] = e}
Once(rows, e) == \A i, j \in At(rows, e) : i = j

\* The queries up to this page have passed event e: it is of a state asked for before, or of
\* the one asked for now and not beyond the last page's end.
Passed(hist, e, query, start) ==
    /\ e \notin Unresolved /\ Len(hist[e]) > 0
    /\ \E j \in 1..query : /\ Wanted[j] = hist[e][Len(hist[e])].to
                           /\ j = query => e <= start

\* An event that stayed is among the rows once it was passed, and at most once.
RowsAreSound(hist, got) ==
    \A e \in got.still : /\ Once(got.rows, e)
                         /\ At(got.rows, e) # {} <=> Passed(hist, e, got.query, got.start)

ListingOK(hist, late, got) ==
    /\ got = [rows |-> got.rows, query |-> got.query, start |-> got.start, still |-> got.still]
    /\ got.rows \in Seq(Events) /\ got.query \in 1..Len(Wanted) /\ got.start \in Int
    /\ got.still \subseteq Events \ late
    /\ NoStateTwice => RowsAreSound(hist, got)

NumbersOf(gone, e, item, n) == {m \in 1..n : <<e, item, m>> \notin gone}

\* What a trace of e keeps from each of the reads that are done.
Reads(gone, e, got, done) ==
    /\ "current" \in done =>
          got.current \in Nat \ {0} /\ \A m \in gone : m[1] = e => m[3] <= got.current
    /\ "versions" \in done =>
          got.versions = Newest(NumbersOf(gone, e, "version", got.current), VersionsRead)
    /\ "audit" \in done =>
          got.audit = Newest(NumbersOf(gone, e, "audit", got.current), Window)
    /\ "total" \in done =>
          got.total = Cardinality(NumbersOf(gone, e, "version", got.current))
    /\ "recorded" \in done =>
          got.recorded = Cardinality(NumbersOf(gone, e, "audit", got.current))

Reading == {"current", "versions", "audit", "count versions", "count audit"}

\* The reads behind a thread that builds a trace.
ReadSoFar(where) ==
    (IF where = "current" THEN {} ELSE {"current"})
    \cup (IF where \in {"current", "versions"} THEN {} ELSE {"versions"})
    \cup (IF where \in {"count versions", "count audit"} THEN {"audit"} ELSE {})
    \cup (IF where = "count audit" THEN {"total"} ELSE {})

AllReads == {"current", "versions", "audit", "total", "recorded"}

IsReading(got) ==
    got = [quiet |-> got.quiet, current |-> got.current, versions |-> got.versions,
           audit |-> got.audit, total |-> got.total, recorded |-> got.recorded]

TraceOK(hist, gone, late, e, where, got) ==
    /\ IsReading(got)
    /\ got.quiet =>
          /\ e \notin late /\ Reads(gone, e, got, ReadSoFar(where))
          /\ where # "current" => got.current = Len(hist[e])

HonestListing(v) ==
    ~v.truncated =>
        \A e \in v.still :
            Cardinality({i \in DOMAIN v.rows : v.rows[i] = e}) = IF e \in v.listed THEN 1 ELSE 0

HonestTrace(gone, e, v) ==
    v # NotFound /\ v.quiet => Reads(gone, e, v, AllReads)

Honest(gone, k, v) ==
    IF k = ListKey THEN NoStateTwice => HonestListing(v) ELSE HonestTrace(gone, k, v)

\* The request of a thread, with what it has found.
Sound(hist, gone, late, r) ==
    /\ r.pc = "querying" => r.key = ListKey /\ ListingOK(hist, late, r.got)
    /\ r.pc \in Reading => r.key \in Events /\ TraceOK(hist, gone, late, r.key, r.pc, r.got)
    /\ r.pc = "storing" => Honest(gone, r.key, r.got.value)

ThreadsAreSound == \A t \in Threads : Sound(steps, missing, lagging, thread[t])

EntriesAreHonest ==
    \A k \in Keys : entries[k] # None => Honest(missing, k, entries[k].value)

AnswerIsHonest == Answered => answer.key \in Keys /\ Honest(missing, answer.key, answer.value)

CInv == IInv /\ StoreShape /\ ThreadsAreSound /\ EntriesAreHonest /\ AnswerIsHonest

(***************************************************************************)
(* A listing.                                                              *)
(***************************************************************************)

LEMMA ListConstants ==
    /\ IsFiniteSet(Events) /\ Events \subseteq Nat /\ Len(Wanted) \in Nat \ {0}
    /\ DOMAIN Wanted = 1..Len(Wanted) /\ Limit \in Nat \ {0} /\ PageRows \in Nat \ {0}
    /\ Window \in Nat \ {0} /\ VersionsRead \in Nat \ {0}
<1>1. Wanted \in Seq(ToSet(Wanted)) /\ Wanted # <<>>
  BY TableAssumption
<1>2. Len(Wanted) \in Nat \ {0} /\ DOMAIN Wanted = 1..Len(Wanted)
  BY <1>1
<1> QED
  BY <1>2, TableAssumption, TrackerAssumption DEF VersionsRead

\* The rows after a page: an event that stayed is there if it was there or is on the page,
\* and still only once.
GrownBy(all, hist, got, page, e) ==
    /\ Once(all, e)
    /\ At(all, e) # {} <=>
         Passed(hist, e, got.query, got.start) \/ \E i \in 1..Len(page) : page[i] = e

LEMMA RowsGrow ==
    ASSUME NoStateTwice, NEW hist, NEW late, NEW got, ListingOK(hist, late, got), NEW page,
           page \in Seq(Events), \A i, j \in 1..Len(page) : page[i] = page[j] => i = j,
           NEW e \in got.still,
           \A i \in 1..Len(page) : page[i] = e =>
                e > got.start /\ Wanted[got.query] = hist[e][Len(hist[e])].to,
           NEW all, all = got.rows \o page
    PROVE  GrownBy(all, hist, got, page, e)
<1> DEFINE rows == got.rows \o page
           n == Len(got.rows)
<1>1. /\ got.rows \in Seq(Events) /\ n \in Nat /\ Len(page) \in Nat /\ DOMAIN got.rows = 1..n
      /\ rows \in Seq(Events) /\ Len(rows) = n + Len(page) /\ DOMAIN rows = 1..Len(rows)
      /\ got.query \in 1..Len(Wanted) /\ got.start \in Int /\ e \in Nat
  BY ListConstants DEF ListingOK
<1>2. ASSUME NEW i \in 1..Len(rows)
      PROVE  rows[i] = IF i <= n THEN got.rows[i] ELSE page[i - n]
  BY <1>1, <1>2
<1>3. /\ Once(got.rows, e)
      /\ At(got.rows, e) # {} <=> Passed(hist, e, got.query, got.start)
  BY DEF ListingOK, RowsAreSound
<1>4. ASSUME NEW i \in 1..n, got.rows[i] = e, NEW j \in 1..Len(page), page[j] = e
      PROVE  FALSE
  <2>1. i \in At(got.rows, e)
    BY <1>1, <1>4 DEF At
  <2>2. Passed(hist, e, got.query, got.start)
    BY <1>3, <2>1
  <2>3. PICK k \in 1..got.query : /\ Wanted[k] = hist[e][Len(hist[e])].to
                                  /\ k = got.query => e <= got.start
    BY <2>2 DEF Passed
  <2>4. e > got.start /\ Wanted[got.query] = hist[e][Len(hist[e])].to
    BY <1>4
  <2>a. Wanted[got.query] = Wanted[k]
    BY <2>3, <2>4
  <2>5. k \in 1..Len(Wanted)
    BY <1>1, <2>3, ListConstants
  <2>6. k = got.query
    BY <1>1, <2>a, <2>5 DEF NoStateTwice
  <2>7. e <= got.start
    BY <2>3, <2>6
  <2>8. e > got.start
    BY <2>4
  <2> QED
    BY <1>1, <2>7, <2>8
<1>5. \A i \in At(rows, e) : /\ i \in 1..Len(rows)
                             /\ \/ i \in 1..n /\ got.rows[i] = e
                                \/ i > n /\ i - n \in 1..Len(page) /\ page[i - n] = e
  BY <1>1, <1>2 DEF At
<1>6. Once(rows, e)
  <2> SUFFICES ASSUME NEW i \in At(rows, e), NEW j \in At(rows, e) PROVE i = j
    BY DEF Once
  <2>1. CASE i \in 1..n /\ got.rows[i] = e /\ j \in 1..n /\ got.rows[j] = e
    BY <1>1, <1>3, <2>1 DEF Once, At
  <2>2. CASE i > n /\ i - n \in 1..Len(page) /\ j > n /\ j - n \in 1..Len(page)
             /\ page[i - n] = e /\ page[j - n] = e
    <3>1. i - n = j - n
      BY <2>2
    <3> QED
      BY <1>1, <1>5, <3>1
  <2> QED
    BY <1>4, <1>5, <2>1, <2>2
<1>7. ASSUME At(rows, e) # {}
      PROVE  Passed(hist, e, got.query, got.start) \/ \E i \in 1..Len(page) : page[i] = e
  <2>1. PICK i \in At(rows, e) : TRUE
    BY <1>7
  <2>2. CASE i \in 1..n /\ got.rows[i] = e
    BY <1>1, <1>3, <2>2 DEF At
  <2> QED
    BY <1>5, <2>2
<1>8. ASSUME Passed(hist, e, got.query, got.start) PROVE At(rows, e) # {}
  <2>1. PICK i \in At(got.rows, e) : TRUE
    BY <1>3, <1>8
  <2>2. i \in 1..n /\ i \in 1..Len(rows) /\ i <= n /\ got.rows[i] = e
    BY <1>1 DEF At
  <2> QED
    BY <1>1, <1>2, <2>2 DEF At
<1>9. ASSUME NEW i \in 1..Len(page), page[i] = e PROVE At(rows, e) # {}
  <2>1. i + n \in 1..Len(rows) /\ ~(i + n <= n) /\ (i + n) - n = i
    BY <1>1
  <2> QED
    BY <1>1, <1>2, <1>9, <2>1 DEF At
<1>10. all = rows
  OBVIOUS
<1> HIDE DEF rows
<1> QED
  BY <1>6, <1>7, <1>8, <1>9, <1>10 DEF GrownBy

\* A query of one state's page: where the thread goes on, and where it has done.
LEMMA QueryFinds ==
    ASSUME CInv, NEW t \in Threads, Query(t)
    PROVE  Sound(steps, missing, lagging, thread'[t])
<1> DEFINE got == thread[t].got
           State(e) == steps[e][Committed(e)].to
<1>1. /\ thread[t].pc = "querying" /\ thread[t].key = ListKey
      /\ ListingOK(steps, lagging, got) /\ RequestOK(thread[t], clock)
      /\ thread = [u \in Threads |-> thread[u]]
  BY ThreadParts DEF Query, CInv, ThreadsAreSound, Sound, IInv, ThreadShape
<1>2. /\ got = [rows |-> got.rows, query |-> got.query, start |-> got.start, still |-> got.still]
      /\ got.rows \in Seq(Events) /\ got.query \in 1..Len(Wanted) /\ got.start \in Int
      /\ got.still \subseteq Events \ lagging
  BY <1>1 DEF ListingOK
<1>3. PICK missed \in SUBSET lagging :
        LET shown == [e \in Events |-> Committed(e) - (IF e \in missed THEN 1 ELSE 0)]
            found == {e \in Events \ Unresolved :
                         /\ e > got.start /\ shown[e] > 0
                         /\ steps[e][shown[e]].to = Wanted[got.query]}
            page  == Oldest(found, PageRows)
            rows  == got.rows \o page
            more  == Cardinality(found) > Len(page)
            done  == Len(rows) >= Ceiling \/ (~more /\ got.query = Len(Wanted))
        IN  IF done
            THEN Goto(t, "storing", [value |-> [rows |-> FirstRows(rows),
                                                truncated |-> Len(rows) > Limit,
                                                still |-> got.still,
                                                listed |-> {e \in Events : InWantedState(e)}]])
            ELSE Goto(t, "querying",
                      [got EXCEPT !.rows = rows,
                                  !.query = IF more THEN @ ELSE @ + 1,
                                  !.start = IF more THEN Last(page) ELSE -1])
  BY DEF Query
<1> DEFINE shown == [e \in Events |-> Committed(e) - (IF e \in missed THEN 1 ELSE 0)]
           found == {e \in Events \ Unresolved :
                        /\ e > got.start /\ shown[e] > 0
                        /\ steps[e][shown[e]].to = Wanted[got.query]}
           page  == Oldest(found, PageRows)
           rows  == got.rows \o page
           more  == Cardinality(found) > Len(page)
           listing == [rows |-> FirstRows(rows), truncated |-> Len(rows) > Limit,
                       still |-> got.still, listed |-> {e \in Events : InWantedState(e)}]
           on == [got EXCEPT !.rows = rows, !.query = IF more THEN @ ELSE @ + 1,
                             !.start = IF more THEN Last(page) ELSE -1]
<1>4. \A e \in Events : Committed(e) \in Nat
  BY DEF CInv, StoreShape, Committed
<1>5. found \in SUBSET Events /\ found \subseteq Int /\ IsFiniteSet(found)
  <2>1. found \in SUBSET Events
    OBVIOUS
  <2> HIDE DEF found
  <2>2. IsFiniteSet(found)
    BY <2>1, ListConstants, FS_Subset
  <2>3. found \subseteq Int
    BY <2>1, ListConstants
  <2> QED
    BY <2>1, <2>2, <2>3
<1>6. ASSUME NEW e \in got.still
      PROVE  e \in found <=> /\ e \notin Unresolved /\ e > got.start /\ Committed(e) > 0
                             /\ State(e) = Wanted[got.query]
  <2>1. e \in Events /\ e \notin missed
    BY <1>2
  <2>2. shown[e] = Committed(e)
    BY <1>4, <2>1
  <2> QED
    BY <2>1, <2>2
<1>7. \A e \in found : e > got.start
  OBVIOUS
<1>8. IF Len(rows) >= Ceiling \/ (~more /\ got.query = Len(Wanted))
      THEN Goto(t, "storing", [value |-> listing]) ELSE Goto(t, "querying", on)
  BY <1>3
<1> HIDE DEF found
<1>a. PageRows \in Nat \ {0}
  BY ListConstants
<1>9. /\ page \in Seq(found) /\ Cardinality(found) \in Nat
      /\ \A i, j \in 1..Len(page) : page[i] = page[j] => i = j
      /\ more => /\ Last(page) \in found
                 /\ \A n \in found : n <= Last(page) <=> \E i \in 1..Len(page) : page[i] = n
      /\ ~more => \A n \in found : \E i \in 1..Len(page) : page[i] = n
  <2>1. IsPage(page, found)
    BY <1>5, <1>a, PageIsFirst
  <2> HIDE DEF page
  <2> QED
    BY <2>1 DEF IsPage
<1> HIDE DEF page
<1>10. page \in Seq(Events) /\ Len(page) \in Nat /\ \A i \in 1..Len(page) : page[i] \in found
  <2>1. Len(page) \in Nat /\ page \in [1..Len(page) -> found]
    BY <1>9
  <2>2. \A i \in 1..Len(page) : page[i] \in found
    BY <2>1
  <2>3. page \in [1..Len(page) -> Events]
    BY <1>5, <2>1
  <2> QED
    BY <2>1, <2>2, <2>3, SeqDef
<1>11. rows \in Seq(Events) /\ DOMAIN rows = 1..Len(rows) /\ Len(rows) \in Nat
  BY <1>2, <1>10
<1>12. ASSUME NoStateTwice, NEW e \in got.still
       PROVE  /\ Once(rows, e)
              /\ At(rows, e) # {} <=>
                    Passed(steps, e, got.query, got.start) \/ \E i \in 1..Len(page) : page[i] = e
  <2>1. ASSUME NEW i \in 1..Len(page), page[i] = e
        PROVE  e > got.start /\ Wanted[got.query] = steps[e][Len(steps[e])].to
    <3>1. e \in found
      BY <1>10, <2>1
    <3> QED
      BY <1>6, <3>1 DEF Committed
  <2>2. PICK all : all = got.rows \o page
    OBVIOUS
  <2>3. /\ Once(all, e)
        /\ At(all, e) # {} <=>
              Passed(steps, e, got.query, got.start) \/ \E i \in 1..Len(page) : page[i] = e
    <3>1. PICK g : g = got
      OBVIOUS
    <3>2. /\ ListingOK(steps, lagging, g) /\ page \in Seq(Events) /\ e \in g.still
          /\ all = g.rows \o page
      BY <1>1, <1>10, <1>12, <2>2, <3>1
    <3>3. \A i, j \in 1..Len(page) : page[i] = page[j] => i = j
      BY <1>9
    <3>4. \A i \in 1..Len(page) : page[i] = e =>
             e > g.start /\ Wanted[g.query] = steps[e][Len(steps[e])].to
      BY <2>1, <3>1
    <3>5. GrownBy(all, steps, g, page, e)
      BY <1>12, <3>2, <3>3, <3>4, RowsGrow
    <3> QED
      BY <3>1, <3>5 DEF GrownBy
  <2> QED
    BY <2>2, <2>3
<1> HIDE DEF rows, more
<1>13. ASSUME NEW e \in got.still
       PROVE  e \in Nat /\ (Passed(steps, e, got.query, got.start) <=>
                  /\ e \notin Unresolved /\ Committed(e) > 0
                  /\ \E j \in 1..got.query : Wanted[j] = State(e) /\ (j = got.query => e <= got.start))
  BY <1>2, ListConstants DEF Passed, Committed
<1>14. ASSUME more, NoStateTwice, NEW e \in got.still
       PROVE  At(rows, e) # {} <=> Passed(steps, e, got.query, Last(page))
  <2>1. Last(page) \in Int /\ Last(page) > got.start
    BY <1>5, <1>7, <1>9, <1>14
  <2>2. Passed(steps, e, got.query, Last(page)) <=>
              /\ e \notin Unresolved /\ Committed(e) > 0
              /\ \E j \in 1..got.query : Wanted[j] = State(e) /\ (j = got.query => e <= Last(page))
    BY DEF Passed, Committed
  <2>3. (\E i \in 1..Len(page) : page[i] = e) <=> e \in found /\ e <= Last(page)
    BY <1>9, <1>10, <1>14
  <2> QED
    BY <1>2, <1>6, <1>12, <1>13, <1>14, <2>1, <2>2, <2>3, ListConstants
<1>15. ASSUME ~more, NoStateTwice, NEW e \in got.still
       PROVE  At(rows, e) # {} <=>
                /\ e \notin Unresolved /\ Committed(e) > 0
                /\ \E j \in 1..got.query : Wanted[j] = State(e)
  <2>1. (\E i \in 1..Len(page) : page[i] = e) <=> e \in found
    BY <1>9, <1>10, <1>15
  <2>2. At(rows, e) # {} <=> Passed(steps, e, got.query, got.start) \/ e \in found
    BY <1>12, <1>15, <2>1
  <2>3. e \in Nat /\ got.start \in Int /\ got.query \in 1..got.query
    BY <1>2, <1>13, <1>15, ListConstants
  <2>4. ASSUME NEW j \in 1..got.query, Wanted[j] = State(e), e \notin Unresolved, Committed(e) > 0
        PROVE  Passed(steps, e, got.query, got.start) \/ e \in found
    <3>1. CASE j = got.query /\ ~(e <= got.start)
      BY <1>6, <1>15, <2>3, <2>4, <3>1
    <3>2. CASE ~(j = got.query /\ ~(e <= got.start))
      BY <1>13, <1>15, <2>4, <3>2
    <3> QED
      BY <3>1, <3>2
  <2>5. ASSUME Passed(steps, e, got.query, got.start) \/ e \in found
        PROVE  /\ e \notin Unresolved /\ Committed(e) > 0
               /\ \E j \in 1..got.query : Wanted[j] = State(e)
    BY <1>6, <1>13, <1>15, <2>3, <2>5
  <2> QED
    BY <2>2, <2>4, <2>5
<1>16. ASSUME Goto(t, "querying", on), ~(~more /\ got.query = Len(Wanted))
       PROVE  Sound(steps, missing, lagging, thread'[t])
  <2>1. thread'[t].pc = "querying" /\ thread'[t].got = on /\ thread'[t].key = ListKey
    BY <1>1, <1>16 DEF Goto, RequestOK
  <2>2. /\ on.rows = rows /\ on.query = (IF more THEN got.query ELSE got.query + 1)
        /\ on.start = (IF more THEN Last(page) ELSE -1) /\ on.still = got.still
        /\ on = [rows |-> on.rows, query |-> on.query, start |-> on.start, still |-> on.still]
    <3>1. PICK g : g = got
      OBVIOUS
    <3>2. PICK q : q = (IF more THEN g.query ELSE g.query + 1)
      OBVIOUS
    <3>3. PICK b : b = (IF more THEN Last(page) ELSE -1)
      OBVIOUS
    <3>4. on = [g EXCEPT !.rows = rows, !.query = q, !.start = b]
      BY <3>1, <3>2, <3>3
    <3>5. g = [rows |-> g.rows, query |-> g.query, start |-> g.start, still |-> g.still]
      BY <1>2, <3>1
    <3> HIDE DEF on
    <3>6. /\ on.rows = rows /\ on.query = q /\ on.start = b /\ on.still = g.still
          /\ on = [rows |-> on.rows, query |-> on.query, start |-> on.start, still |-> on.still]
      BY <3>4, <3>5
    <3> QED
      BY <3>1, <3>2, <3>3, <3>6
  <2>3. on.query \in 1..Len(Wanted) /\ on.start \in Int
    <3> HIDE DEF on
    <3>1. Len(Wanted) \in Nat /\ got.query \in 1..Len(Wanted)
      BY <1>2, ListConstants
    <3>2. CASE more
      BY <1>5, <1>9, <2>2, <3>1, <3>2 DEF more
    <3>3. CASE ~more
      BY <1>16, <2>2, <3>1, <3>3
    <3> QED
      BY <3>2, <3>3
  <2> HIDE DEF on
  <2>4. ASSUME NoStateTwice, NEW e \in on.still
        PROVE  Once(on.rows, e) /\ (At(on.rows, e) # {} <=> Passed(steps, e, on.query, on.start))
    <3>1. CASE more
      BY <1>12, <1>14, <2>2, <2>4, <3>1
    <3>2. CASE ~more
      <4>1. e \in Nat /\ on.query = got.query + 1 /\ on.start = -1
        BY <1>13, <2>2, <2>4, <3>2
      <4>2. Passed(steps, e, on.query, on.start) <=>
              /\ e \notin Unresolved /\ Committed(e) > 0
              /\ \E j \in 1..got.query : Wanted[j] = State(e)
        <5>1. Passed(steps, e, on.query, on.start) <=>
                /\ e \notin Unresolved /\ Committed(e) > 0
                /\ \E j \in 1..(got.query + 1) :
                      Wanted[j] = State(e) /\ (j = got.query + 1 => e <= -1)
          BY <4>1 DEF Passed, Committed
        <5>2. got.query \in Nat /\ ~(e <= -1)
          BY <1>2, <4>1, ListConstants
        <5>3. \A j \in 1..(got.query + 1) : j # got.query + 1 <=> j \in 1..got.query
          BY <5>2
        <5>4. \A j \in 1..got.query : j \in 1..(got.query + 1)
          BY <5>2
        <5> QED
          BY <5>1, <5>2, <5>3, <5>4
      <4> QED
        BY <1>12, <1>15, <2>2, <2>4, <3>2, <4>2
    <3> QED
      BY <3>1, <3>2
  <2>5. ListingOK(steps, lagging, on)
    BY <1>2, <1>11, <2>2, <2>3, <2>4 DEF ListingOK, RowsAreSound
  <2> QED
    BY <2>1, <2>5 DEF Sound, Reading
<1>17. ASSUME Goto(t, "storing", [value |-> listing]),
              Len(rows) >= Ceiling \/ (~more /\ got.query = Len(Wanted))
       PROVE  Sound(steps, missing, lagging, thread'[t])
  <2>1. /\ thread'[t].pc = "storing" /\ thread'[t].got.value = listing
        /\ thread'[t].key = ListKey
    BY <1>1, <1>17 DEF Goto, RequestOK
  <2>2. ASSUME NoStateTwice PROVE HonestListing(listing)
    <3>a. /\ (listing.truncated <=> Len(rows) > Limit) /\ listing.still = got.still
          /\ listing.rows = FirstRows(rows) /\ listing.listed = {e \in Events : InWantedState(e)}
      OBVIOUS
    <3> HIDE DEF listing
    <3> SUFFICES ASSUME ~listing.truncated, NEW e \in listing.still
                 PROVE  Cardinality({i \in DOMAIN listing.rows : listing.rows[i] = e})
                          = IF e \in listing.listed THEN 1 ELSE 0
      BY DEF HonestListing
    <3>0. Len(rows) <= Limit /\ e \in got.still
      BY <1>11, <3>a, ListConstants
    <3>1. ~more /\ got.query = Len(Wanted)
      BY <1>11, <1>17, <3>0, ListConstants DEF Ceiling
    <3>2. listing.rows = FirstRows(rows) /\ FirstRows(rows) = [i \in DOMAIN rows |-> rows[i]]
      BY <1>11, <3>0, <3>a, ListConstants DEF FirstRows
    <3>3. {i \in DOMAIN listing.rows : listing.rows[i] = e} = At(rows, e)
      BY <3>2 DEF At
    <3>4. e \in listing.listed <=> At(rows, e) # {}
      <4>1. e \in Events
        BY <1>2, <3>0
      <4>2. e \in listing.listed <=> /\ e \notin Unresolved /\ Committed(e) > 0
                                     /\ \E j \in 1..Len(Wanted) : Wanted[j] = State(e)
        BY <3>a, <4>1, ListConstants DEF InWantedState, ToSet
      <4> QED
        BY <1>15, <2>2, <3>0, <3>1, <4>2
    <3>5. At(rows, e) = {} \/ \E i : At(rows, e) = {i}
      <4>1. \A i, j \in At(rows, e) : i = j
        BY <1>12, <2>2, <3>0 DEF Once
      <4>2. CASE At(rows, e) # {}
        <5>1. PICK i \in At(rows, e) : TRUE
          BY <4>2
        <5>2. At(rows, e) = {i}
          BY <4>1, <5>1
        <5> QED
          BY <5>2
      <4> QED
        BY <4>2
    <3> QED
      BY <3>3, <3>4, <3>5, FS_EmptySet, FS_Singleton
  <2> HIDE DEF listing
  <2> QED
    BY <2>1, <2>2 DEF Sound, Reading, Honest
<1> QED
  BY <1>8, <1>16, <1>17

(***************************************************************************)
(* A trace.                                                                *)
(***************************************************************************)

LEMMA NumbersAre ==
    \A e, item, n : Numbers(e, item, n) = NumbersOf(missing, e, item, n)
BY DEF Numbers, NumbersOf

\* What a read of an event sees that was left alone: all of it.
LEMMA QuietReads ==
    ASSUME CInv, NEW t \in Threads, thread[t].pc \in Reading,
           NEW n \in Seen(thread[t].key), thread[t].got.quiet
    PROVE  n = Committed(thread[t].key)
BY DEF CInv, ThreadsAreSound, Sound, TraceOK, Seen

\* Where a thread stands that reads for a trace.
LEMMA TraceParts ==
    ASSUME CInv, NEW t \in Threads, thread[t].pc \in Reading
    PROVE  /\ thread[t].key \in Events /\ RequestOK(thread[t], clock)
           /\ thread = [u \in Threads |-> thread[u]]
           /\ TraceOK(steps, missing, lagging, thread[t].key, thread[t].pc, thread[t].got)
<1>1. thread[t].pc # "idle"
  BY DEF Reading
<1>2. TraceOK(steps, missing, lagging, thread[t].key, thread[t].pc, thread[t].got)
      /\ thread[t].key \in Events
  BY DEF CInv, ThreadsAreSound, Sound
<1> QED
  BY <1>1, <1>2, ThreadParts DEF CInv, IInv, ThreadShape

LEMMA GoneUnto ==
    ASSUME CInv, NEW e \in Events
    PROVE  Committed(e) \in Nat /\ \A m \in missing : m[1] = e => m[3] <= Committed(e)
BY DEF CInv, StoreShape, Committed

LEMMA CurrentIsRead ==
    ASSUME CInv, NEW t \in Threads, ReadCurrent(t)
    PROVE  Sound(steps, missing, lagging, thread'[t])
<1> DEFINE e == thread[t].key
           got == thread[t].got
<1>1. thread[t].pc = "current" /\ thread[t].pc \in Reading
  BY DEF ReadCurrent, Reading
<1>2. PICK n \in Seen(e) : IF n = 0 THEN Goto(t, "storing", [value |-> NotFound])
                           ELSE Goto(t, "versions", [got EXCEPT !.current = n])
  BY DEF ReadCurrent
<1>3. /\ e \in Events /\ IsReading(got) /\ (got.quiet => e \notin lagging)
      /\ thread = [u \in Threads |-> thread[u]] /\ RequestOK(thread[t], clock)
  BY <1>1, TraceParts DEF TraceOK
<1>4. CASE n = 0
  <2>0. PICK new : new = [value |-> NotFound]
    OBVIOUS
  <2>1. thread'[t].pc = "storing" /\ thread'[t].key = e /\ thread'[t].got = new
    BY <1>2, <1>3, <1>4, <2>0 DEF Goto, RequestOK
  <2>2. e # ListKey
    BY <1>3, Constants
  <2> QED
    BY <2>0, <2>1, <2>2 DEF Sound, Reading, Honest, HonestTrace
<1>5. CASE n # 0
  <2>0. PICK new : new = [got EXCEPT !.current = n]
    OBVIOUS
  <2>1. thread'[t].pc = "versions" /\ thread'[t].key = e /\ thread'[t].got = new
    BY <1>2, <1>3, <1>5, <2>0 DEF Goto, RequestOK
  <2>2. IsReading(new) /\ new.quiet = got.quiet /\ new.current = n
    BY <1>3, <2>0 DEF IsReading
  <2>3. got.quiet => n = Committed(e) /\ n \in Nat \ {0} /\ \A m \in missing : m[1] = e => m[3] <= n
    BY <1>1, <1>3, <1>5, QuietReads, GoneUnto
  <2>4. new.quiet => Reads(missing, e, new, ReadSoFar("versions"))
    BY <2>2, <2>3 DEF Reads, ReadSoFar
  <2>5. TraceOK(steps, missing, lagging, e, "versions", new)
    BY <1>3, <2>2, <2>3, <2>4 DEF TraceOK, Committed
  <2> QED
    BY <1>3, <2>1, <2>5 DEF Sound, Reading
<1> QED
  BY <1>4, <1>5

LEMMA VersionsAreRead ==
    ASSUME CInv, NEW t \in Threads, ReadVersions(t)
    PROVE  Sound(steps, missing, lagging, thread'[t])
<1> DEFINE e == thread[t].key
           got == thread[t].got
<1>1. thread[t].pc = "versions" /\ thread[t].pc \in Reading
  BY DEF ReadVersions, Reading
<1>2. PICK n \in Seen(e) :
        Goto(t, "audit", [got EXCEPT !.versions = Newest(Numbers(e, "version", n), VersionsRead)])
  BY DEF ReadVersions
<1>3. /\ e \in Events /\ TraceOK(steps, missing, lagging, e, "versions", got)
      /\ thread = [u \in Threads |-> thread[u]] /\ RequestOK(thread[t], clock)
  BY <1>1, TraceParts
<1>4. PICK new : new = [got EXCEPT !.versions = Newest(Numbers(e, "version", n), VersionsRead)]
  OBVIOUS
<1>5. thread'[t].pc = "audit" /\ thread'[t].key = e /\ thread'[t].got = new
  BY <1>2, <1>3, <1>4 DEF Goto, RequestOK
<1>6. /\ IsReading(new) /\ new.quiet = got.quiet
      /\ new.versions = Newest(Numbers(e, "version", n), VersionsRead)
      /\ new.current = got.current
  BY <1>3, <1>4 DEF TraceOK, IsReading
<1>7. ASSUME got.quiet
      PROVE  /\ e \notin lagging /\ Reads(missing, e, got, ReadSoFar("versions"))
             /\ got.current = Len(steps[e]) /\ n = got.current
  BY <1>1, <1>3, <1>7, QuietReads DEF TraceOK, Committed
<1>8. ASSUME got.quiet PROVE Reads(missing, e, new, ReadSoFar("audit"))
  <2>1. new.versions = Newest(NumbersOf(missing, e, "version", new.current), VersionsRead)
    BY <1>6, <1>7, <1>8, NumbersAre
  <2>2. Reads(missing, e, got, ReadSoFar("versions"))
    BY <1>7, <1>8
  <2> QED
    BY <1>6, <2>1, <2>2 DEF Reads, ReadSoFar, AllReads
<1>9. TraceOK(steps, missing, lagging, e, "audit", new)
  BY <1>6, <1>7, <1>8 DEF TraceOK
<1> QED
  BY <1>3, <1>5, <1>9 DEF Sound, Reading

LEMMA AuditIsRead ==
    ASSUME CInv, NEW t \in Threads, ReadAudit(t)
    PROVE  Sound(steps, missing, lagging, thread'[t])
<1> DEFINE e == thread[t].key
           got == thread[t].got
<1>1. thread[t].pc = "audit" /\ thread[t].pc \in Reading
  BY DEF ReadAudit, Reading
<1>2. PICK n \in Seen(e) :
        Goto(t, "count versions", [got EXCEPT !.audit = Newest(Numbers(e, "audit", n), Window)])
  BY DEF ReadAudit
<1>3. /\ e \in Events /\ TraceOK(steps, missing, lagging, e, "audit", got)
      /\ thread = [u \in Threads |-> thread[u]] /\ RequestOK(thread[t], clock)
  BY <1>1, TraceParts
<1>4. PICK new : new = [got EXCEPT !.audit = Newest(Numbers(e, "audit", n), Window)]
  OBVIOUS
<1>5. thread'[t].pc = "count versions" /\ thread'[t].key = e /\ thread'[t].got = new
  BY <1>2, <1>3, <1>4 DEF Goto, RequestOK
<1>6. /\ IsReading(new) /\ new.quiet = got.quiet
      /\ new.audit = Newest(Numbers(e, "audit", n), Window)
      /\ new.current = got.current /\ new.versions = got.versions
  BY <1>3, <1>4 DEF TraceOK, IsReading
<1>7. ASSUME got.quiet
      PROVE  /\ e \notin lagging /\ Reads(missing, e, got, ReadSoFar("audit"))
             /\ got.current = Len(steps[e]) /\ n = got.current
  BY <1>1, <1>3, <1>7, QuietReads DEF TraceOK, Committed
<1>8. ASSUME got.quiet PROVE Reads(missing, e, new, ReadSoFar("count versions"))
  <2>1. new.audit = Newest(NumbersOf(missing, e, "audit", new.current), Window)
    BY <1>6, <1>7, <1>8, NumbersAre
  <2>2. Reads(missing, e, got, ReadSoFar("audit"))
    BY <1>7, <1>8
  <2> QED
    BY <1>6, <2>1, <2>2 DEF Reads, ReadSoFar, AllReads
<1>9. TraceOK(steps, missing, lagging, e, "count versions", new)
  BY <1>6, <1>7, <1>8 DEF TraceOK
<1> QED
  BY <1>3, <1>5, <1>9 DEF Sound, Reading

LEMMA VersionsAreCounted ==
    ASSUME CInv, NEW t \in Threads, CountVersions(t)
    PROVE  Sound(steps, missing, lagging, thread'[t])
<1> DEFINE e == thread[t].key
           got == thread[t].got
<1>1. thread[t].pc = "count versions" /\ thread[t].pc \in Reading
  BY DEF CountVersions, Reading
<1>2. PICK n \in Seen(e) :
        Goto(t, "count audit", [got EXCEPT !.total = Cardinality(Numbers(e, "version", n))])
  BY DEF CountVersions
<1>3. /\ e \in Events /\ TraceOK(steps, missing, lagging, e, "count versions", got)
      /\ thread = [u \in Threads |-> thread[u]] /\ RequestOK(thread[t], clock)
  BY <1>1, TraceParts
<1>4. PICK new : new = [got EXCEPT !.total = Cardinality(Numbers(e, "version", n))]
  OBVIOUS
<1>5. thread'[t].pc = "count audit" /\ thread'[t].key = e /\ thread'[t].got = new
  BY <1>2, <1>3, <1>4 DEF Goto, RequestOK
<1>6. /\ IsReading(new) /\ new.quiet = got.quiet
      /\ new.total = Cardinality(Numbers(e, "version", n))
      /\ new.current = got.current /\ new.versions = got.versions /\ new.audit = got.audit
  BY <1>3, <1>4 DEF TraceOK, IsReading
<1>7. ASSUME got.quiet
      PROVE  /\ e \notin lagging /\ Reads(missing, e, got, ReadSoFar("count versions"))
             /\ got.current = Len(steps[e]) /\ n = got.current
  BY <1>1, <1>3, <1>7, QuietReads DEF TraceOK, Committed
<1>8. ASSUME got.quiet PROVE Reads(missing, e, new, ReadSoFar("count audit"))
  <2>1. new.total = Cardinality(NumbersOf(missing, e, "version", new.current))
    BY <1>6, <1>7, <1>8, NumbersAre
  <2>2. Reads(missing, e, got, ReadSoFar("count versions"))
    BY <1>7, <1>8
  <2> QED
    BY <1>6, <2>1, <2>2 DEF Reads, ReadSoFar, AllReads
<1>9. TraceOK(steps, missing, lagging, e, "count audit", new)
  BY <1>6, <1>7, <1>8 DEF TraceOK
<1> QED
  BY <1>3, <1>5, <1>9 DEF Sound, Reading

LEMMA AuditIsCounted ==
    ASSUME CInv, NEW t \in Threads, CountAudit(t)
    PROVE  Sound(steps, missing, lagging, thread'[t])
<1> DEFINE e == thread[t].key
           got == thread[t].got
<1>1. thread[t].pc = "count audit" /\ thread[t].pc \in Reading
  BY DEF CountAudit, Reading
<1>2. PICK n \in Seen(e) :
        Goto(t, "storing", [value |-> [got EXCEPT !.recorded = Cardinality(Numbers(e, "audit", n))]])
  BY DEF CountAudit
<1>3. /\ e \in Events /\ TraceOK(steps, missing, lagging, e, "count audit", got)
      /\ thread = [u \in Threads |-> thread[u]] /\ RequestOK(thread[t], clock)
  BY <1>1, TraceParts
<1>4. PICK new : new = [got EXCEPT !.recorded = Cardinality(Numbers(e, "audit", n))]
  OBVIOUS
<1>5. thread'[t].pc = "storing" /\ thread'[t].key = e /\ thread'[t].got.value = new
  BY <1>2, <1>3, <1>4 DEF Goto, RequestOK
<1>6. /\ IsReading(new) /\ new.quiet = got.quiet
      /\ new.recorded = Cardinality(Numbers(e, "audit", n))
      /\ new.current = got.current /\ new.versions = got.versions /\ new.audit = got.audit /\ new.total = got.total
  BY <1>3, <1>4 DEF TraceOK, IsReading
<1>7. ASSUME got.quiet
      PROVE  /\ e \notin lagging /\ Reads(missing, e, got, ReadSoFar("count audit"))
             /\ got.current = Len(steps[e]) /\ n = got.current
  BY <1>1, <1>3, <1>7, QuietReads DEF TraceOK, Committed
<1>8. ASSUME got.quiet PROVE Reads(missing, e, new, AllReads)
  <2>1. new.recorded = Cardinality(NumbersOf(missing, e, "audit", new.current))
    BY <1>6, <1>7, <1>8, NumbersAre
  <2>2. Reads(missing, e, got, ReadSoFar("count audit"))
    BY <1>7, <1>8
  <2> QED
    BY <1>6, <2>1, <2>2 DEF Reads, ReadSoFar, AllReads
<1>9. e # ListKey
  BY <1>3, Constants
<1> QED
  BY <1>5, <1>6, <1>8, <1>9 DEF Sound, Reading, Honest, HonestTrace

(***************************************************************************)
(* Every step keeps what was read.                                         *)
(***************************************************************************)

\* A thread that finds nothing, or answers, has nothing that could be unsound.
LEMMA SoundAtRest ==
    ASSUME NEW hist, NEW gone, NEW late, NEW r, r.pc \in {"idle", "locking"}
    PROVE  Sound(hist, gone, late, r)
BY DEF Sound, Reading

\* Of a step of one thread that leaves the table alone, only that thread is to be looked at.
LEMMA OneThreadMoves ==
    ASSUME CInv, NEW t \in Threads, UNCHANGED store,
           \A u \in Threads \ {t} : thread'[u] = thread[u],
           Sound(steps, missing, lagging, thread'[t])
    PROVE  StoreShape' /\ ThreadsAreSound'
<1>1. steps' = steps /\ missing' = missing /\ lagging' = lagging
  BY DEF store
<1>2. StoreShape'
  BY <1>1 DEF CInv, StoreShape, Committed
<1>3. ASSUME NEW u \in Threads PROVE Sound(steps', missing', lagging', thread'[u])
  BY <1>1 DEF CInv, ThreadsAreSound
<1> QED
  BY <1>2, <1>3 DEF ThreadsAreSound

LEMMA NothingStored ==
    ASSUME CInv, UNCHANGED <<missing, entries>>, answer' = None \/ answer'.status = 503
    PROVE  EntriesAreHonest' /\ AnswerIsHonest'
<1>1. EntriesAreHonest'
  BY DEF CInv, EntriesAreHonest
<1>2. ~Answered'
  BY DEF Answered
<1> QED
  BY <1>1, <1>2 DEF AnswerIsHonest

LEMMA MissStartsSound ==
    ASSUME CInv, NEW t \in Threads, Miss(t)
    PROVE  Sound(steps, missing, lagging, thread'[t])
<1>1. /\ thread[t].key \in Keys /\ RequestOK(thread[t], clock)
      /\ thread = [u \in Threads |-> thread[u]]
  BY ThreadParts DEF CInv, IInv, ThreadShape, Miss
<1>2. CASE thread[t].key = ListKey
  <2> DEFINE got == [rows |-> <<>>, query |-> 1, start |-> -1, still |-> Events \ lagging]
  <2>1. thread'[t].pc = "querying" /\ thread'[t].key = ListKey /\ thread'[t].got = got
    <3> HIDE DEF got
    <3>1. thread' = [thread EXCEPT ![t].pc = "querying", ![t].got = got]
      BY <1>2, Zenon DEF Miss, Goto, got
    <3>2. thread'[t] = [thread[t] EXCEPT !.pc = "querying", !.got = got]
      BY <1>1, <3>1
    <3>3. thread[t] = [pc |-> thread[t].pc, key |-> thread[t].key, force |-> thread[t].force,
                       since |-> thread[t].since, got |-> thread[t].got]
      BY <1>1 DEF RequestOK
    <3> QED
      BY <1>2, <3>2, <3>3
  <2>2. got.query \in 1..Len(Wanted) /\ got.rows = <<>> /\ got.rows \in Seq(Events)
    BY ListConstants
  <2>3. ASSUME NEW e \in got.still
        PROVE  Once(got.rows, e) /\ (At(got.rows, e) # {} <=> Passed(steps, e, got.query, got.start))
    <3>1. e \in Nat
      BY ListConstants
    <3>2. At(got.rows, e) = {}
      BY DEF At
    <3>3. ~Passed(steps, e, got.query, got.start)
      BY <3>1 DEF Passed
    <3> QED
      BY <3>2, <3>3 DEF Once
  <2>4. ListingOK(steps, lagging, got)
    BY <2>2, <2>3 DEF ListingOK, RowsAreSound
  <2> QED
    BY <2>1, <2>4 DEF Sound, Reading
<1>3. CASE thread[t].key # ListKey
  <2> DEFINE e == thread[t].key
  <2>1. PICK got : got = [Unread EXCEPT !.quiet = e \notin lagging]
    OBVIOUS
  <2>2. Goto(t, "current", got)
    BY <1>3, <2>1 DEF Miss
  <2>3. thread'[t].pc = "current" /\ thread'[t].key = e /\ thread'[t].got = got /\ e \in Events
    BY <1>1, <1>3, <2>2 DEF Goto, RequestOK, Keys
  <2>4. IsReading(got) /\ (got.quiet <=> e \notin lagging)
    BY <2>1 DEF Unread, IsReading
  <2>5. Reads(missing, e, got, ReadSoFar("current"))
    BY DEF Reads, ReadSoFar
  <2>6. TraceOK(steps, missing, lagging, e, "current", got)
    BY <2>4, <2>5 DEF TraceOK
  <2> QED
    BY <2>3, <2>6 DEF Sound, Reading
<1> QED
  BY <1>2, <1>3

\* What a thread stores and answers is what it has found.
LEMMA StoreIsHonest ==
    ASSUME CInv, NEW t \in Threads, Store(t)
    PROVE  EntriesAreHonest' /\ AnswerIsHonest'
<1>1. /\ thread[t].pc = "storing" /\ thread[t].key \in Keys
      /\ Honest(missing, thread[t].key, thread[t].got.value)
      /\ entries = [k \in Keys |-> entries[k]] /\ missing' = missing
  BY ThreadParts DEF CInv, IInv, CacheShape, ThreadsAreSound, Sound, Store, store
<1>2. PICK k \in Keys : k = thread[t].key
  BY <1>1
<1>3. PICK new : new = [at |-> clock, value |-> thread[t].got.value]
  OBVIOUS
<1>4. new.value = thread[t].got.value
  BY <1>3
<1>5. \/ entries' = [entries EXCEPT ![k] = new]
      \/ \E oldest \in Held(k) : entries' = [entries EXCEPT ![oldest] = None, ![k] = new]
  BY <1>2, <1>3 DEF Store
<1>6. ASSUME NEW j \in Keys PROVE entries'[j] \in {entries[j], None} \/ (j = k /\ entries'[j] = new)
  BY <1>1, <1>5
<1>7. EntriesAreHonest'
  BY <1>1, <1>2, <1>4, <1>6 DEF CInv, EntriesAreHonest
<1>8. answer'.key = thread[t].key /\ answer'.value = thread[t].got.value
  BY DEF Store, Reply
<1> QED
  BY <1>1, <1>7, <1>8 DEF AnswerIsHonest

LEMMA HitIsHonest ==
    ASSUME CInv, NEW t \in Threads, Hit(t)
    PROVE  EntriesAreHonest' /\ AnswerIsHonest'
<1>1. /\ thread[t].key \in Keys /\ entries[thread[t].key] # None
      /\ missing' = missing /\ entries' = entries
  BY ThreadParts DEF CInv, IInv, Hit, Fresh, store
<1>2. answer'.key = thread[t].key /\ answer'.value = entries[thread[t].key].value
  BY DEF Hit, Reply
<1>3. EntriesAreHonest'
  BY <1>1 DEF CInv, EntriesAreHonest
<1>4. Honest(missing, thread[t].key, entries[thread[t].key].value)
  BY <1>1 DEF CInv, EntriesAreHonest
<1> QED
  BY <1>1, <1>2, <1>3, <1>4 DEF AnswerIsHonest

LEMMA ServeKeepsCInv ==
    ASSUME CInv, NEW t \in Threads, Ask(t) \/ Serve(t) \/ Fail(t)
    PROVE  StoreShape' /\ ThreadsAreSound' /\ EntriesAreHonest' /\ AnswerIsHonest'
<1>1. thread = [u \in Threads |-> thread[u]]
  BY DEF CInv, IInv, ThreadShape
<1>2. UNCHANGED store /\ missing' = missing
  BY DEF Serve, Ask, Hit, Miss, Store, Fail, ReadCurrent, ReadVersions, ReadAudit, CountVersions,
         CountAudit, Query, store
<1>3. CASE Ask(t)
  <2>1. thread'[t].pc = "locking" /\ \A u \in Threads \ {t} : thread'[u] = thread[u]
    BY <1>1, <1>3 DEF Ask
  <2>2. entries' = entries /\ answer' = None
    BY <1>3 DEF Ask
  <2> QED
    BY <1>2, <2>1, <2>2, OneThreadMoves, SoundAtRest, NothingStored
<1>4. CASE Hit(t)
  <2>1. thread'[t].pc = "idle" /\ \A u \in Threads \ {t} : thread'[u] = thread[u]
    BY <1>1, <1>4 DEF Hit, Reply, Idle
  <2> QED
    BY <1>2, <1>4, <2>1, OneThreadMoves, SoundAtRest, HitIsHonest
<1>5. CASE Store(t)
  <2>1. thread'[t].pc = "idle" /\ \A u \in Threads \ {t} : thread'[u] = thread[u]
    BY <1>1, <1>5 DEF Store, Reply, Idle
  <2> QED
    BY <1>2, <1>5, <2>1, OneThreadMoves, SoundAtRest, StoreIsHonest
<1>6. CASE Fail(t)
  <2>1. thread'[t].pc = "idle" /\ \A u \in Threads \ {t} : thread'[u] = thread[u]
    BY <1>1, <1>6 DEF Fail, Reply, Idle
  <2>2. entries' = entries /\ answer'.status = 503
    BY <1>6 DEF Fail, Reply
  <2> QED
    BY <1>2, <2>1, <2>2, OneThreadMoves, SoundAtRest, NothingStored
<1>7. CASE \/ Miss(t) \/ ReadCurrent(t) \/ ReadVersions(t) \/ ReadAudit(t)
           \/ CountVersions(t) \/ CountAudit(t) \/ Query(t)
  <2>1. Sound(steps, missing, lagging, thread'[t])
    BY <1>7, MissStartsSound, CurrentIsRead, VersionsAreRead, AuditIsRead, VersionsAreCounted,
       AuditIsCounted, QueryFinds
  <2>2. entries' = entries /\ answer' = None /\ \E where : \E got : Goto(t, where, got)
    <3>1. CASE Query(t)
      BY <3>1, Zenon DEF Query
    <3>2. CASE \/ Miss(t) \/ ReadCurrent(t) \/ ReadVersions(t) \/ ReadAudit(t)
               \/ CountVersions(t) \/ CountAudit(t)
      BY <3>2 DEF Miss, ReadCurrent, ReadVersions, ReadAudit, CountVersions, CountAudit
    <3> QED
      BY <1>7, <3>1, <3>2
  <2>3. \A u \in Threads \ {t} : thread'[u] = thread[u]
    BY <1>1, <2>2 DEF Goto
  <2> QED
    BY <1>2, <2>1, <2>2, <2>3, OneThreadMoves, NothingStored
<1> QED
  BY <1>3, <1>4, <1>5, <1>6, <1>7 DEF Serve

\* A write under the readers: its event is no longer one that stayed.
LEMMA WriteKeepsCInv ==
    ASSUME CInv, NEW e \in Events, Write(e)
    PROVE  StoreShape' /\ ThreadsAreSound' /\ EntriesAreHonest' /\ AnswerIsHonest'
<1>1. PICK s : steps' = [steps EXCEPT ![e] = Append(@, s)]
  BY DEF Write
<1>2. missing' = missing /\ entries' = entries /\ answer' = None /\ lagging' = lagging \cup {e}
      /\ e \notin lagging
  BY DEF Write
<1>3. /\ steps' = [f \in Events |-> steps'[f]] /\ steps'[e] = Append(steps[e], s)
      /\ \A f \in Events \ {e} : steps'[f] = steps[f]
  BY <1>1 DEF CInv, StoreShape
<1>4. steps'[e] \in Seq(ToSet(steps'[e])) /\ Len(steps'[e]) = Len(steps[e]) + 1
      /\ Len(steps[e]) \in Nat
  <2>1. PICK S : S = ToSet(steps[e]) \cup {s}
    OBVIOUS
  <2>2. steps[e] \in Seq(ToSet(steps[e])) /\ Len(steps[e]) \in Nat
    BY DEF CInv, StoreShape
  <2>3. steps[e] \in Seq(S)
    BY <2>1, <2>2
  <2>4. s \in S
    BY <2>1
  <2>5. Append(steps[e], s) \in Seq(S) /\ Len(Append(steps[e], s)) = Len(steps[e]) + 1
    BY <2>3, <2>4
  <2>6. PICK q : q = Append(steps[e], s)
    OBVIOUS
  <2>7. q \in Seq(ToSet(q))
    <3>1. q \in Seq(S)
      BY <2>5, <2>6
    <3>2. Len(q) \in Nat /\ q = [i \in 1..Len(q) |-> q[i]] /\ DOMAIN q = 1..Len(q)
      BY <3>1
    <3>3. \A i \in 1..Len(q) : q[i] \in ToSet(q)
      BY <3>2 DEF ToSet
    <3>4. q \in [1..Len(q) -> ToSet(q)]
      BY <3>2, <3>3
    <3> QED
      BY <3>2, <3>4, SeqDef
  <2> QED
    BY <1>3, <2>2, <2>5, <2>6, <2>7
<1>5. StoreShape'
  <2>1. ASSUME NEW m \in missing PROVE m[3] <= Len(steps'[m[1]])
    <3>1. m[1] \in Events /\ m[3] \in Nat /\ m[3] <= Len(steps[m[1]])
      BY <2>1 DEF CInv, StoreShape, Committed
    <3> QED
      BY <1>3, <1>4, <3>1
  <2>2. missing \subseteq Events \X {"version", "audit"} \X (Nat \ {0})
    BY DEF CInv, StoreShape
  <2>3. \A f \in Events : steps'[f] \in Seq(ToSet(steps'[f]))
    BY <1>3, <1>4 DEF CInv, StoreShape
  <2> QED
    BY <1>2, <1>3, <2>1, <2>2, <2>3 DEF StoreShape, Committed
<1>6. ASSUME NEW u \in Threads PROVE Sound(steps', missing', lagging', thread'[u])
  <2>1. thread'[u] =
           IF ~Building(u) \/ thread[u].pc = "storing" THEN thread[u]
           ELSE IF thread[u].key = ListKey THEN [thread[u] EXCEPT !.got.still = @ \ {e}]
           ELSE IF thread[u].key = e THEN [thread[u] EXCEPT !.got.quiet = FALSE]
           ELSE thread[u]
    BY DEF Write
  <2>2. Sound(steps, missing, lagging, thread[u])
    BY DEF CInv, ThreadsAreSound
  <2>3. CASE ~Building(u) \/ thread[u].pc = "storing"
    BY <1>2, <2>1, <2>2, <2>3 DEF Sound, Building, Reading
  <2>a. ASSUME Building(u), thread[u].pc # "storing"
        PROVE  /\ RequestOK(thread[u], clock)
               /\ thread[u].pc = "querying" \/ thread[u].pc \in Reading
    BY <2>a, ThreadParts DEF CInv, IInv, Building, PCs, Reading
  <2>4. CASE Building(u) /\ thread[u].pc # "storing" /\ thread[u].key = ListKey
    <3> DEFINE got == thread[u].got
    <3>1. thread[u].pc = "querying" /\ ListingOK(steps, lagging, got) /\ RequestOK(thread[u], clock)
      BY <2>2, <2>4, <2>a, Constants DEF Sound
    <3>2. /\ got = [rows |-> got.rows, query |-> got.query, start |-> got.start, still |-> got.still]
          /\ got.still \subseteq Events \ lagging
      BY <3>1 DEF ListingOK
    <3>3. /\ thread'[u].pc = "querying" /\ thread'[u].key = ListKey
          /\ thread'[u].got = [got EXCEPT !.still = got.still \ {e}]
      BY <2>1, <2>4, <3>1 DEF RequestOK
    <3>4. PICK new : new = thread'[u].got
      OBVIOUS
    <3>5. /\ new.rows = got.rows /\ new.query = got.query /\ new.start = got.start
          /\ new.still = got.still \ {e}
          /\ new = [rows |-> new.rows, query |-> new.query, start |-> new.start,
                    still |-> new.still]
      BY <3>2, <3>3, <3>4
    <3>6. ASSUME NoStateTwice, NEW f \in new.still
          PROVE  /\ Once(new.rows, f)
                 /\ At(new.rows, f) # {} <=> Passed(steps', f, new.query, new.start)
      <4>1. f \in Events \ {e} /\ f \in got.still
        BY <3>2, <3>5, <3>6
      <4>2. steps'[f] = steps[f]
        BY <1>3, <4>1
      <4> QED
        BY <3>1, <3>5, <3>6, <4>1, <4>2 DEF ListingOK, RowsAreSound, Passed
    <3>7. ListingOK(steps', lagging', new)
      BY <1>2, <3>1, <3>5, <3>6 DEF ListingOK, RowsAreSound
    <3> QED
      BY <3>3, <3>4, <3>7 DEF Sound, Reading
  <2>5. CASE Building(u) /\ thread[u].pc # "storing" /\ thread[u].key # ListKey
    <3> DEFINE got == thread[u].got
    <3>1. thread[u].pc \in Reading /\ thread[u].key \in Events /\ RequestOK(thread[u], clock)
          /\ TraceOK(steps, missing, lagging, thread[u].key, thread[u].pc, got)
      BY <2>2, <2>5, <2>a DEF Sound
    <3>2. CASE thread[u].key = e
      <4>1. /\ thread'[u].pc = thread[u].pc /\ thread'[u].key = e
            /\ thread'[u].got = [got EXCEPT !.quiet = FALSE]
        BY <2>1, <2>5, <3>1, <3>2 DEF RequestOK
      <4>2. PICK new : new = thread'[u].got
        OBVIOUS
      <4>3. IsReading(got)
        BY <3>1 DEF TraceOK
      <4>4. IsReading(new) /\ new.quiet = FALSE
        BY <4>1, <4>2, <4>3 DEF IsReading
      <4>5. TraceOK(steps', missing', lagging', e, thread[u].pc, new)
        BY <4>4 DEF TraceOK
      <4> QED
        BY <3>1, <4>1, <4>2, <4>5 DEF Sound, Reading
    <3>3. CASE thread[u].key # e
      <4>1. thread'[u] = thread[u]
        BY <2>1, <2>5, <3>3
      <4>2. steps'[thread[u].key] = steps[thread[u].key]
            /\ (thread[u].key \in lagging' <=> thread[u].key \in lagging)
        BY <1>2, <1>3, <3>1, <3>3
      <4>3. TraceOK(steps', missing', lagging', thread[u].key, thread[u].pc, got)
        BY <1>2, <3>1, <4>2 DEF TraceOK
      <4> QED
        BY <3>1, <4>1, <4>3 DEF Sound, Reading
    <3> QED
      BY <3>2, <3>3
  <2> QED
    BY <2>3, <2>4, <2>5
<1>7. ThreadsAreSound'
  BY <1>6 DEF ThreadsAreSound
<1> QED
  BY <1>2, <1>5, <1>7, NothingStored

LEMMA TimeKeepsCInv ==
    ASSUME CInv, Pass \/ (\E e \in Events : CatchUp(e)) \/ UNCHANGED vars
    PROVE  StoreShape' /\ ThreadsAreSound' /\ EntriesAreHonest' /\ AnswerIsHonest'
<1>1. /\ steps' = steps /\ missing' = missing /\ lagging' \subseteq lagging
      /\ entries' = entries /\ thread' = thread
      /\ answer' = None \/ answer' = answer
  BY DEF Pass, CatchUp, vars, store
<1>2. StoreShape'
  BY <1>1 DEF CInv, StoreShape, Committed
<1>3. ASSUME NEW u \in Threads PROVE Sound(steps', missing', lagging', thread'[u])
  <2>1. Sound(steps, missing, lagging, thread[u])
    BY DEF CInv, ThreadsAreSound
  <2>2. ASSUME NEW got, ListingOK(steps, lagging, got) PROVE ListingOK(steps, lagging', got)
    BY <1>1, <2>2 DEF ListingOK
  <2>3. ASSUME NEW e, NEW where, NEW got, TraceOK(steps, missing, lagging, e, where, got)
        PROVE  TraceOK(steps, missing, lagging', e, where, got)
    BY <1>1, <2>3 DEF TraceOK
  <2> QED
    BY <1>1, <2>1, <2>2, <2>3 DEF Sound
<1>4. EntriesAreHonest'
  BY <1>1 DEF CInv, EntriesAreHonest
<1>5. AnswerIsHonest'
  BY <1>1 DEF CInv, AnswerIsHonest, Answered
<1> QED
  BY <1>2, <1>3, <1>4, <1>5 DEF ThreadsAreSound

LEMMA InitCInv == Init => CInv
<1> SUFFICES ASSUME Init PROVE CInv
  OBVIOUS
<1>1. PICK start \in Starts : steps = start.steps /\ missing = start.missing
  BY DEF Init
<1>2. StoreShape
  BY <1>1, TableAssumption DEF StoreShape, Committed
<1>3. ThreadsAreSound
  BY SoundAtRest DEF Init, ThreadsAreSound, Idle
<1>4. EntriesAreHonest /\ AnswerIsHonest
  BY DEF Init, EntriesAreHonest, AnswerIsHonest, Answered
<1> QED
  BY <1>2, <1>3, <1>4, InitIInv DEF CInv

LEMMA NextCInv == CInv /\ [Next]_vars => CInv'
<1> SUFFICES ASSUME CInv, [Next]_vars PROVE CInv'
  OBVIOUS
<1>1. IInv'
  BY NextIInv DEF CInv
<1>2. StoreShape' /\ ThreadsAreSound' /\ EntriesAreHonest' /\ AnswerIsHonest'
  BY ServeKeepsCInv, WriteKeepsCInv, TimeKeepsCInv DEF Next
<1> QED
  BY <1>1, <1>2 DEF CInv

\* What the threads read, the caches hold and the answers say is sound: of a listing, the rows
\* passed so far; of a trace that was left alone, the items the table holds
\* (core/cloud.py: list_current, history_window; trace_server.py: Cache.get).
THEOREM ReadingsAreSound == Spec => []CInv
BY InitCInv, NextCInv, PTL DEF Spec

\* Where no state is asked for twice, a listing that is not cut holds each event that stayed
\* in one of the states exactly once, and none that stayed outside them, for any number of
\* pages and whatever is written, cached or asked meanwhile (core/cloud.py: list_current).
THEOREM ListingsAreHonest ==
    ASSUME NoStateTwice PROVE Spec => []ListingIsHonest
<1>1. CInv => ListingIsHonest
  <2> SUFFICES ASSUME CInv, Answered, answer.key = ListKey, ~answer.value.truncated,
                      NEW e \in answer.value.still
               PROVE  Cardinality({i \in DOMAIN answer.value.rows : answer.value.rows[i] = e})
                        = IF e \in answer.value.listed THEN 1 ELSE 0
    BY DEF ListingIsHonest
  <2>1. HonestListing(answer.value)
    BY DEF CInv, AnswerIsHonest, Honest
  <2> QED
    BY <2>1 DEF HonestListing
<1> QED
  BY <1>1, ReadingsAreSound, PTL

(***************************************************************************)
(* What a trace's document says of the items that were read.               *)
(***************************************************************************)

LEMMA Extremes ==
    ASSUME NEW S, IsFiniteSet(S), S \subseteq Int, S # {}
    PROVE  /\ \E x \in S : \A y \in S : x <= y
           /\ \E x \in S : \A y \in S : y <= x
<1>1. Cardinality(S) \in Nat \ {0}
  BY FS_CardinalityType, FS_EmptySet
<1>2. 0 \in 0..(Cardinality(S) - 1) /\ Cardinality(S) - 1 \in 0..(Cardinality(S) - 1)
  BY <1>1
<1>3. PICK a \in S : Rank(S, a) = 0
  BY <1>2, RanksFill
<1>4. PICK b \in S : Rank(S, b) = Cardinality(S) - 1
  BY <1>2, RanksFill
<1>5. ASSUME NEW y \in S PROVE a <= y /\ y <= b
  <2>1. Rank(S, y) \in 0..(Cardinality(S) - 1) /\ (y < a => Rank(S, y) < Rank(S, a))
    BY RankGrows
  <2>2. b < y => Rank(S, b) < Rank(S, y)
    BY RankGrows
  <2>3. a \in Int /\ b \in Int /\ y \in Int
    OBVIOUS
  <2> QED
    BY <1>1, <1>3, <1>4, <2>1, <2>2, <2>3
<1> QED
  BY <1>5

\* The newest are the upper end of what is there.
LEMMA NewestOf ==
    ASSUME NEW c \in Nat, NEW S, S \subseteq 1..c, NEW many \in Nat \ {0},
           NEW top, top = Newest(S, many)
    PROVE  /\ IsFiniteSet(S) /\ top \subseteq S /\ IsFiniteSet(top)
           /\ S = 1..c => Contiguous(top) /\ (c > 0 => top # {})
<1> DEFINE Above(x) == {m \in S : m > x}
<1>1. IsFiniteSet(S)
  <2>1. IsFiniteSet(1..c) /\ S \in SUBSET (1..c)
    BY FS_Interval
  <2> QED
    BY <2>1, FS_Subset
<1>2. top \in SUBSET S /\ \A n \in S : n \in top <=> Cardinality(Above(n)) < many
  BY DEF Newest
<1>3. IsFiniteSet(top)
  BY <1>1, <1>2, FS_Subset
<1>4. ASSUME NEW n \in S PROVE IsFiniteSet(Above(n)) /\ Cardinality(Above(n)) \in Nat
  <2>1. Above(n) \in SUBSET S
    OBVIOUS
  <2> QED
    BY <1>1, <2>1, FS_Subset, FS_CardinalityType
<1>5. ASSUME NEW n \in top, NEW m \in S, n <= m PROVE m \in top
  <2>1. n \in S /\ n \in Int /\ m \in Int
    BY <1>2
  <2>2. \A x \in Above(m) : x \in S /\ x \in Int /\ x > m
    OBVIOUS
  <2>3. \A x \in Above(m) : x \in Above(n)
    BY <1>5, <2>1, <2>2
  <2> HIDE DEF Above
  <2>4. Cardinality(Above(m)) <= Cardinality(Above(n))
    BY <1>4, <2>1, <2>3, FS_Subset
  <2> QED
    BY <1>2, <1>4, <2>1, <2>4
<1>6. ASSUME S = 1..c PROVE Contiguous(top)
  <2> SUFFICES ASSUME NEW lo \in top, NEW hi \in top, NEW n \in lo..hi PROVE n \in top
    BY DEF Contiguous
  <2>1. lo \in 1..c /\ hi \in 1..c
    BY <1>2, <1>6
  <2>2. n \in 1..c /\ lo <= n
    BY <2>1
  <2> QED
    BY <1>5, <1>6, <2>2
<1>7. ASSUME S = 1..c, c > 0 PROVE top # {}
  <2>1. c \in S /\ Above(c) = {}
    BY <1>7
  <2>2. Cardinality(Above(c)) = 0
    BY <2>1, FS_EmptySet
  <2> QED
    BY <1>2, <2>1, <2>2
<1> QED
  BY <1>1, <1>2, <1>3, <1>6, <1>7

LEMMA Counts ==
    ASSUME NEW gone, NEW e, NEW item, NEW c \in Nat,
           NEW S, S = NumbersOf(gone, e, item, c)
    PROVE  /\ S \subseteq 1..c /\ Cardinality(S) \in Nat
           /\ (\A n \in 1..c : <<e, item, n>> \notin gone) => S = 1..c /\ Cardinality(S) = c
           /\ (\E n \in 1..c : <<e, item, n>> \in gone) => Cardinality(S) # c
<1>1. S \in SUBSET (1..c)
  BY DEF NumbersOf
<1>2. IsFiniteSet(1..c) /\ Cardinality(1..c) = c
  BY FS_Interval
<1>3. Cardinality(S) \in Nat /\ (Cardinality(S) = c => S = 1..c)
  BY <1>1, <1>2, FS_Subset, FS_CardinalityType
<1>4. (\A n \in 1..c : <<e, item, n>> \notin gone) => S = 1..c
  BY DEF NumbersOf
<1>5. (\E n \in 1..c : <<e, item, n>> \in gone) => S # 1..c
  BY DEF NumbersOf
<1> QED
  BY <1>1, <1>2, <1>3, <1>4, <1>5

LEMMA AuditParts ==
    ASSUME NEW e, NEW n
    PROVE  AuditAt(e, n).sequence = n /\ AuditAt(e, n).to = steps[e][n].to
BY DEF AuditAt

\* The other findings do not speak of holes; those of the trail speak of nothing else.
LEMMA FindingsApart ==
    ASSUME NEW current, NEW audit, NEW rows, NEW totals,
           NEW f \in findings(current, audit, rows, totals)
    PROVE  /\ f \in IntegrityFindings <=> f \in TrailFindings(current, audit, totals)
           /\ f = "illegal_transition_stored" => f \in StepFindings(audit)
<1>1. \/ f \in TrailFindings(current, audit, totals) \/ f \in StepFindings(audit)
      \/ f \in ChurnFindings(rows) \/ f \in RecordFindings(current)
  BY DEF findings
<1>2. ASSUME f \in TrailFindings(current, audit, totals)
      PROVE  f \in IntegrityFindings /\ f # "illegal_transition_stored"
  BY <1>2 DEF TrailFindings, IntegrityFindings
<1>3. ASSUME f \in StepFindings(audit) PROVE f \notin IntegrityFindings
  BY <1>3 DEF StepFindings, IntegrityFindings
<1>4. ASSUME f \in ChurnFindings(rows)
      PROVE  f \notin IntegrityFindings /\ f # "illegal_transition_stored"
  <2>1. f = "version_churn"
    BY <1>4 DEF ChurnFindings
  <2> QED
    BY <2>1 DEF IntegrityFindings
<1>5. ASSUME f \in RecordFindings(current)
      PROVE  f \notin IntegrityFindings /\ f # "illegal_transition_stored"
  <2>1. f \in {"ttl_expired_not_moved", "unresolved_extent", "merged_without_parent",
               "single_witness"}
    BY <1>5 DEF RecordFindings
  <2> QED
    BY <2>1 DEF IntegrityFindings
<1> QED
  BY <1>1, <1>2, <1>3, <1>4, <1>5

(***************************************************************************)
(* The spans of a trail, by the places of its steps.                       *)
(***************************************************************************)

EndOf(trail, begin, k) == IF k = Len(begin) THEN Len(trail) ELSE begin[k + 1] - 1

Within(trail, begin, k, i) == begin[k] <= i /\ i <= EndOf(trail, begin, k)

\* Each place is within one span, whose state its step led to.
LEMMA OneSpan ==
    ASSUME NEW trail, Len(trail) \in Nat, DOMAIN trail = 1..Len(trail),
           NEW begin, begin = Ascending(Begins(trail)), NEW i \in 1..Len(trail)
    PROVE  \E k \in 1..Len(begin) :
              /\ Within(trail, begin, k, i) /\ trail[begin[k]].to = trail[i].to
              /\ \A j \in 1..Len(begin) : Within(trail, begin, j, i) => j = k
<1> DEFINE L == Len(trail)
           B == Begins(trail)
<1>1. L \in Nat /\ B \in SUBSET (1..L) /\ 1 \in B /\ i \in 1..L
  BY DEF Begins
<1>2. IsFiniteSet(B) /\ B \subseteq Int
  <2>1. IsFiniteSet(1..L)
    BY <1>1, FS_Interval
  <2> QED
    BY <1>1, <2>1, FS_Subset
<1>3. \A m \in 1..L : m = 1 \/ trail[m].to # trail[m - 1].to <=> m \in B
  BY DEF Begins
<1> HIDE DEF B
<1>4. begin = Ascending(B)
  BY DEF B
<1>5. /\ begin \in Seq(B) /\ Len(begin) \in Nat
      /\ \A j, k \in 1..Len(begin) : j < k => begin[j] < begin[k]
      /\ \A j, k \in 1..Len(begin) : begin[j] <= begin[k] => j <= k
      /\ \A n \in B : \E k \in 1..Len(begin) : begin[k] = n
  BY <1>2, <1>4, AscendingOf
<1>6. ASSUME NEW k \in 1..Len(begin) PROVE begin[k] \in 1..L /\ begin[k] \in Int
  <2>1. begin[k] \in B
    BY <1>5
  <2>2. begin[k] \in 1..L
    BY <1>1, <2>1
  <2>3. begin[k] \in Int
    BY <1>2, <2>1
  <2> QED
    BY <2>2, <2>3
<1>7. PICK k \in 1..Len(begin) : /\ begin[k] <= i
                                 /\ \A j \in 1..Len(begin) : begin[j] <= i => j <= k
  <2> DEFINE S == {j \in 1..Len(begin) : begin[j] <= i}
  <2>1. S # {}
    <3>1. PICK j \in 1..Len(begin) : begin[j] = 1
      BY <1>1, <1>5
    <3>2. begin[j] <= i
      BY <1>1, <3>1
    <3> QED
      BY <3>2
  <2>2. S \in SUBSET (1..Len(begin)) /\ IsFiniteSet(1..Len(begin))
    BY <1>5, FS_Interval
  <2>3. \A x \in S : x \in 1..Len(begin) /\ begin[x] <= i
    OBVIOUS
  <2>4. \A x \in 1..Len(begin) : begin[x] <= i => x \in S
    OBVIOUS
  <2> HIDE DEF S
  <2>5. IsFiniteSet(S) /\ S \subseteq Int
    <3>1. IsFiniteSet(S)
      BY <2>2, FS_Subset
    <3> QED
      BY <1>5, <2>2, <3>1
  <2>6. PICK x \in S : \A y \in S : y <= x
    BY <2>1, <2>5, Extremes
  <2> QED
    BY <2>3, <2>4, <2>6
<1>8. ASSUME NEW j \in 1..Len(begin), j < k PROVE begin[j + 1] <= begin[k] /\ j + 1 \in 1..Len(begin)
  <2>1. j + 1 \in 1..Len(begin) /\ (j + 1 < k \/ j + 1 = k)
    BY <1>5, <1>8
  <2> QED
    BY <1>5, <1>6, <2>1
<1>9. ASSUME NEW j \in 1..Len(begin), k < j PROVE i < begin[j]
  BY <1>1, <1>6, <1>7, <1>9
<1>10. Within(trail, begin, k, i)
  <2>1. CASE k = Len(begin)
    BY <1>1, <1>7, <2>1 DEF Within, EndOf
  <2>2. CASE k # Len(begin)
    <3>1. k + 1 \in 1..Len(begin) /\ k < k + 1
      BY <1>5, <2>2
    <3>2. i < begin[k + 1] /\ begin[k + 1] \in Int
      BY <1>6, <1>9, <3>1
    <3> QED
      BY <1>1, <1>7, <2>2, <3>2 DEF Within, EndOf
  <2> QED
    BY <2>1, <2>2
<1>11. ASSUME NEW j \in 1..Len(begin), Within(trail, begin, j, i) PROVE j = k
  <2>1. CASE j < k
    <3>1. j # Len(begin)
      BY <1>5, <2>1
    <3>2. i <= begin[j + 1] - 1
      BY <1>11, <3>1 DEF Within, EndOf
    <3>3. begin[j + 1] <= begin[k] /\ begin[j + 1] \in Int /\ begin[k] \in Int
      BY <1>6, <1>8, <2>1
    <3> QED
      BY <1>1, <1>7, <3>2, <3>3
  <2>2. CASE k < j
    <3>1. i < begin[j] /\ begin[j] <= i /\ begin[j] \in Int
      BY <1>6, <1>9, <1>11, <2>2 DEF Within
    <3> QED
      BY <1>1, <3>1
  <2> QED
    BY <1>5, <2>1, <2>2
<1>12. trail[begin[k]].to = trail[i].to
  <2> DEFINE Bad == {m \in begin[k]..i : trail[m].to # trail[begin[k]].to}
  <2>1. begin[k] \in 1..L /\ begin[k] <= i
    BY <1>6, <1>7
  <2>2. Bad \in SUBSET (1..L) /\ IsFiniteSet(1..L)
    <3>1. \A m \in begin[k]..i : m \in 1..L
      BY <1>1, <2>1
    <3>2. IsFiniteSet(1..L)
      BY <1>1, FS_Interval
    <3> QED
      BY <3>1, <3>2
  <2>3. \A m : m \in Bad <=> m \in begin[k]..i /\ trail[m].to # trail[begin[k]].to
    OBVIOUS
  <2> HIDE DEF Bad
  <2>4. IsFiniteSet(Bad) /\ Bad \subseteq Int
    <3>1. IsFiniteSet(Bad)
      BY <2>2, FS_Subset
    <3> QED
      BY <1>1, <2>2, <3>1
  <2>5. ASSUME Bad # {} PROVE FALSE
    <3>1. PICK m \in Bad : \A y \in Bad : m <= y
      BY <2>4, <2>5, Extremes
    <3>2. m \in begin[k]..i /\ trail[m].to # trail[begin[k]].to /\ m # begin[k]
      BY <2>3, <3>1
    <3>3. m - 1 \in begin[k]..i /\ m \in 1..L /\ m # 1
      BY <1>1, <2>1, <3>2
    <3>4. m - 1 \notin Bad
      BY <1>1, <2>1, <3>1, <3>3
    <3>5. trail[m].to # trail[m - 1].to
      BY <2>3, <3>2, <3>3, <3>4
    <3>6. m \in B
      BY <1>3, <3>3, <3>5
    <3>7. PICK j \in 1..Len(begin) : begin[j] = m
      BY <1>5, <3>6
    <3>8. ~(j <= k)
      <4>1. ASSUME j <= k PROVE FALSE
        <5>1. j = k \/ j < k
          BY <1>5, <4>1
        <5>2. begin[j] <= begin[k]
          BY <1>5, <1>6, <5>1
        <5> QED
          BY <2>1, <3>2, <3>7, <5>2
      <4> QED
        BY <4>1
    <3>9. i < begin[j]
      BY <1>5, <1>9, <3>8
    <3> QED
      BY <1>1, <2>1, <3>2, <3>7, <3>9
  <2>6. i \in begin[k]..i
    BY <1>1, <2>1
  <2> QED
    BY <2>3, <2>5, <2>6
<1> QED
  BY <1>10, <1>11, <1>12

\* Where a span begins and ends.
LEMMA SpanEnds ==
    ASSUME NEW trail, Len(trail) \in Nat, DOMAIN trail = 1..Len(trail),
           NEW begin, begin = Ascending(Begins(trail)), NEW k \in 1..Len(begin)
    PROVE  begin[k] \in 1..Len(trail) /\ EndOf(trail, begin, k) \in 1..Len(trail)
<1> DEFINE L == Len(trail)
           B == Begins(trail)
<1>1. L \in Nat /\ B \in SUBSET (1..L)
  BY DEF Begins
<1>2. IsFiniteSet(B) /\ B \subseteq Int
  <2>1. IsFiniteSet(1..L)
    BY <1>1, FS_Interval
  <2> QED
    BY <1>1, <2>1, FS_Subset
<1>3. /\ begin \in Seq(B) /\ Len(begin) \in Nat
      /\ \A j, m \in 1..Len(begin) : j < m => begin[j] < begin[m]
  BY <1>2, AscendingOf
<1>4. begin[k] \in 1..L
  BY <1>1, <1>3
<1>5. CASE k = Len(begin)
  BY <1>1, <1>4, <1>5 DEF EndOf
<1>6. CASE k # Len(begin)
  <2>1. k + 1 \in 1..Len(begin) /\ k < k + 1
    BY <1>3, <1>6
  <2>2. begin[k + 1] \in 1..L
    BY <1>1, <1>3, <2>1
  <2>3. begin[k] < begin[k + 1]
    BY <1>3, <2>1
  <2> QED
    BY <1>1, <1>4, <1>6, <2>2, <2>3 DEF EndOf
<1> QED
  BY <1>5, <1>6

LEMMA SequencesOf ==
    ASSUME NEW e, NEW N PROVE Sequences({AuditAt(e, n) : n \in N}) = N
<1>1. PICK audit : audit = {AuditAt(e, n) : n \in N}
  OBVIOUS
<1>2. \A a \in audit : a.sequence \in N
  BY <1>1, AuditParts
<1>3. \A n \in N : AuditAt(e, n) \in audit /\ AuditAt(e, n).sequence = n
  BY <1>1, AuditParts
<1>4. Sequences(audit) = N
  BY <1>2, <1>3 DEF Sequences
<1> QED
  BY <1>1, <1>4

\* The trail of the audit records of some numbers is in their order.
IsTrail(trail, e, N, numbers) ==
    /\ Len(trail) \in Nat /\ DOMAIN trail = 1..Len(trail)
    /\ \A i \in 1..Len(trail) : trail[i] = AuditAt(e, numbers[i]) /\ numbers[i] \in N
    /\ \A i, j \in 1..Len(trail) : i < j => numbers[i] < numbers[j]
    /\ \A i, j \in 1..Len(trail) : numbers[i] <= numbers[j] => i <= j

LEMMA TrailOf ==
    ASSUME NEW e, NEW N, IsFiniteSet(N), N \subseteq Int,
           NEW audit, audit = {AuditAt(e, n) : n \in N},
           NEW trail, trail = InOrder(audit), NEW numbers, numbers = Ascending(N)
    PROVE  IsTrail(trail, e, N, numbers)
<1>1. Sequences(audit) = N
  BY SequencesOf
<1>2. /\ numbers \in Seq(N) /\ Len(numbers) \in Nat /\ DOMAIN numbers = 1..Len(numbers)
      /\ \A i, j \in 1..Len(numbers) : i < j => numbers[i] < numbers[j]
      /\ \A i, j \in 1..Len(numbers) : numbers[i] <= numbers[j] => i <= j
  BY AscendingOf
<1>3. trail = [i \in 1..Len(numbers) |-> RecordNumbered(audit, numbers[i])]
  BY <1>1, <1>2 DEF InOrder
<1>4. ASSUME NEW i \in 1..Len(numbers)
      PROVE  trail[i] = AuditAt(e, numbers[i]) /\ numbers[i] \in N
  <2>1. numbers[i] \in N
    BY <1>2
  <2>2. AuditAt(e, numbers[i]) \in audit /\ AuditAt(e, numbers[i]).sequence = numbers[i]
    BY <2>1, AuditParts
  <2>3. trail[i] = CHOOSE a \in audit : a.sequence = numbers[i]
    BY <1>3 DEF RecordNumbered
  <2>4. trail[i] \in audit /\ trail[i].sequence = numbers[i]
    BY <2>2, <2>3
  <2>5. PICK n \in N : trail[i] = AuditAt(e, n)
    BY <2>4
  <2>6. n = numbers[i]
    BY <2>4, <2>5, AuditParts
  <2> QED
    BY <2>1, <2>5, <2>6
<1>5. Len(trail) = Len(numbers) /\ DOMAIN trail = 1..Len(numbers)
  <2>1. PICK T : T = {trail[i] : i \in 1..Len(numbers)}
    OBVIOUS
  <2>2. trail \in [1..Len(numbers) -> T]
    BY <1>3, <2>1
  <2> QED
    BY <1>2, <2>2, LenProperties, SeqDef
<1> QED
  BY <1>1, <1>2, <1>4, <1>5 DEF IsTrail

\* Every step of the trail lies in exactly one span, of the state it led to; the span that
\* the current state adds has no steps.
LEMMA SpansCover ==
    ASSUME NEW e, NEW N, IsFiniteSet(N), N \subseteq Nat \ {0},
           NEW audit, audit = {AuditAt(e, n) : n \in N}, NEW versions, NEW current,
           NEW doc, doc.steps = build_steps(versions, audit),
           doc.states = state_durations(audit, current)
    PROVE  SpansCoverSteps(doc, e)
<1> DEFINE numbers == Ascending(N)
<1>1. PICK trail : trail = InOrder(audit)
  OBVIOUS
<1>2. N \subseteq Int
  OBVIOUS
<1>3. /\ Len(trail) \in Nat /\ DOMAIN trail = 1..Len(trail)
      /\ \A i \in 1..Len(trail) : trail[i] = AuditAt(e, numbers[i]) /\ numbers[i] \in N
      /\ \A i, j \in 1..Len(trail) : i < j => numbers[i] < numbers[j]
      /\ \A i, j \in 1..Len(trail) : numbers[i] <= numbers[j] => i <= j
  <2>1. PICK q : q = numbers
    OBVIOUS
  <2>2. IsTrail(trail, e, N, q)
    BY <1>1, <1>2, <2>1, TrailOf
  <2> HIDE DEF numbers
  <2> QED
    BY <2>1, <2>2 DEF IsTrail
<1> HIDE DEF numbers
<1>4. ASSUME NEW i \in 1..Len(trail)
      PROVE  /\ trail[i].sequence = numbers[i] /\ numbers[i] \in Nat \ {0}
             /\ trail[i].to = steps[e][numbers[i]].to
  <2>1. PICK n \in N : n = numbers[i] /\ trail[i] = AuditAt(e, n)
    BY <1>3
  <2>2. AuditAt(e, n).sequence = n /\ AuditAt(e, n).to = steps[e][n].to
    BY AuditParts
  <2>3. n \in Nat \ {0}
    BY <2>1
  <2> QED
    BY <2>1, <2>2, <2>3
<1>5. /\ DOMAIN doc.steps = 1..Len(trail)
      /\ \A i \in 1..Len(trail) : doc.steps[i].sequence = numbers[i]
  BY <1>1, <1>3, <1>4 DEF build_steps, Step
<1>6. PICK begin : begin = Ascending(Begins(trail))
  OBVIOUS
<1>7. Len(begin) \in Nat /\ DOMAIN begin = 1..Len(begin)
  <2>1. IsFiniteSet(1..Len(trail)) /\ Begins(trail) \in SUBSET (1..Len(trail))
    BY <1>3, FS_Interval DEF Begins
  <2>2. IsFiniteSet(Begins(trail)) /\ Begins(trail) \subseteq Int
    <3>1. IsFiniteSet(Begins(trail))
      BY <2>1, FS_Subset
    <3> QED
      BY <1>3, <2>1, <3>1
  <2>3. begin \in Seq(Begins(trail)) /\ DOMAIN begin = 1..Len(begin)
    BY <1>6, <2>2, AscendingOf
  <2> QED
    BY <2>3
<1>8. PICK spans : spans = Spans(trail)
  OBVIOUS
<1>9. spans = [k \in 1..Len(begin) |->
                 Span(trail[begin[k]].to, trail[begin[k]].sequence,
                      trail[EndOf(trail, begin, k)].sequence, EndOf(trail, begin, k) - begin[k])]
  BY <1>6, <1>7, <1>8 DEF Spans, EndOf
<1>10. ASSUME NEW k \in 1..Len(begin)
       PROVE  /\ spans[k].state = trail[begin[k]].to /\ spans[k].first = numbers[begin[k]]
              /\ spans[k].last = numbers[EndOf(trail, begin, k)]
              /\ begin[k] \in 1..Len(trail) /\ EndOf(trail, begin, k) \in 1..Len(trail)
  <2>1. begin[k] \in 1..Len(trail) /\ EndOf(trail, begin, k) \in 1..Len(trail)
    BY <1>3, <1>6, SpanEnds
  <2>2. /\ spans[k].state = trail[begin[k]].to /\ spans[k].first = trail[begin[k]].sequence
        /\ spans[k].last = trail[EndOf(trail, begin, k)].sequence
    BY <1>9 DEF Span
  <2> QED
    BY <1>4, <2>1, <2>2
<1>11. Len(spans) = Len(begin) /\ DOMAIN spans = 1..Len(begin)
  <2>1. PICK T : T = {spans[k] : k \in 1..Len(begin)}
    OBVIOUS
  <2>2. spans \in [1..Len(begin) -> T]
    BY <1>9, <2>1
  <2> QED
    BY <1>7, <2>2, LenProperties, SeqDef
<1>12. PICK states : states = doc.states
  OBVIOUS
<1>13. /\ \A k \in 1..Len(begin) : k \in DOMAIN states /\ states[k] = spans[k]
       /\ \A j \in DOMAIN states \ 1..Len(begin) : states[j].first = 0 /\ states[j].last = 0
  <2>1. states = spans \/ states = Append(spans, Span(current.state, 0, 0, 0))
    BY <1>1, <1>8, <1>12 DEF state_durations
  <2>2. CASE states = spans
    BY <1>11, <2>2
  <2>3. CASE states = Append(spans, Span(current.state, 0, 0, 0))
    <3>1. PICK T : T = {spans[k] : k \in 1..Len(begin)} \cup {Span(current.state, 0, 0, 0)}
      OBVIOUS
    <3>2. spans \in Seq(T) /\ Span(current.state, 0, 0, 0) \in T
      <4>1. spans \in [1..Len(begin) -> T]
        BY <1>9, <3>1
      <4> QED
        BY <1>7, <3>1, <4>1, SeqDef
    <3>3. /\ Len(states) = Len(begin) + 1 /\ DOMAIN states = 1..(Len(begin) + 1)
          /\ \A k \in 1..Len(begin) : states[k] = spans[k]
          /\ states[Len(begin) + 1] = Span(current.state, 0, 0, 0)
      BY <1>7, <1>11, <2>3, <3>2
    <3>4. \A j \in DOMAIN states \ 1..Len(begin) : j = Len(begin) + 1
      BY <1>7, <3>3
    <3>5. \A k \in 1..Len(begin) : k \in DOMAIN states
      BY <1>7, <3>3
    <3> QED
      BY <3>3, <3>4, <3>5 DEF Span
  <2> QED
    BY <2>1, <2>2, <2>3
<1>14. ASSUME NEW i \in 1..Len(trail)
       PROVE  LET covering == {j \in DOMAIN states : numbers[i] \in states[j].first..states[j].last}
              IN  \E j \in covering : covering = {j} /\ states[j].state = steps[e][numbers[i]].to
  <2> DEFINE covering == {j \in DOMAIN states : numbers[i] \in states[j].first..states[j].last}
  <2>1. numbers[i] \in Nat \ {0} /\ trail[i].to = steps[e][numbers[i]].to
    BY <1>4
  <2>2. ASSUME NEW j \in 1..Len(begin) PROVE j \in covering <=> Within(trail, begin, j, i)
    <3>1. /\ states[j] = spans[j] /\ j \in DOMAIN states
          /\ begin[j] \in 1..Len(trail) /\ EndOf(trail, begin, j) \in 1..Len(trail)
      BY <1>10, <1>13
    <3>2. states[j].first = numbers[begin[j]] /\ states[j].last = numbers[EndOf(trail, begin, j)]
      BY <1>10, <3>1
    <3>3. \A m \in 1..Len(trail) : numbers[m] \in Nat
      BY <1>4
    <3>4. j \in covering <=> /\ numbers[begin[j]] <= numbers[i]
                             /\ numbers[i] <= numbers[EndOf(trail, begin, j)]
      BY <3>1, <3>2, <3>3
    <3>5. \A m, n \in 1..Len(trail) : numbers[m] <= numbers[n] <=> m <= n
      <4> SUFFICES ASSUME NEW m \in 1..Len(trail), NEW n \in 1..Len(trail), m <= n
                   PROVE  numbers[m] <= numbers[n]
        BY <1>3
      <4>1. m = n \/ m < n
        BY <1>3
      <4> QED
        BY <1>3, <3>3, <4>1
    <3> QED
      BY <3>1, <3>4, <3>5 DEF Within
  <2>3. ASSUME NEW j \in covering PROVE j \in 1..Len(begin)
    BY <1>13, <2>1
  <2> HIDE DEF covering
  <2>4. PICK k \in 1..Len(begin) :
              /\ Within(trail, begin, k, i) /\ trail[begin[k]].to = trail[i].to
              /\ \A j \in 1..Len(begin) : Within(trail, begin, j, i) => j = k
    BY <1>3, <1>6, OneSpan
  <2>5. k \in covering /\ covering = {k}
    BY <2>2, <2>3, <2>4
  <2>6. states[k].state = steps[e][numbers[i]].to
    BY <1>10, <1>13, <2>1, <2>4
  <2> QED
    BY <2>5, <2>6 DEF covering
<1>15. ASSUME NEW i \in DOMAIN doc.steps
       PROVE  LET n == doc.steps[i].sequence
                  covering == {j \in DOMAIN doc.states :
                                 n \in doc.states[j].first..doc.states[j].last}
              IN  \E j \in covering : covering = {j} /\ doc.states[j].state = steps[e][n].to
  <2>1. i \in 1..Len(trail) /\ doc.steps[i].sequence = numbers[i]
    BY <1>5
  <2> QED
    BY <1>12, <1>14, <2>1
<1> QED
  BY <1>15 DEF SpansCoverSteps

\* A trace that was left alone while it was read finds a hole exactly when an item is gone.
LEMMA HolesAreFound ==
    ASSUME NEW e \in Events, StoreShape, NEW v, Reads(missing, e, v, AllReads),
           NEW audit, audit = {AuditAt(e, n) : n \in v.audit},
           NEW current, current.version = v.current,
           NEW totals, totals.versions = v.total, totals.audit = v.recorded
    PROVE  TrailFindings(current, audit, totals) # {} <=> Gone(e) # {}
<1>1. /\ v.current \in Nat \ {0} /\ \A m \in missing : m[1] = e => m[3] <= v.current
      /\ v.audit = Newest(NumbersOf(missing, e, "audit", v.current), Window)
      /\ v.total = Cardinality(NumbersOf(missing, e, "version", v.current))
      /\ v.recorded = Cardinality(NumbersOf(missing, e, "audit", v.current))
  BY DEF Reads, AllReads
<1>c. PICK c : c = v.current
  OBVIOUS
<1>t. PICK top : top = v.audit
  OBVIOUS
<1>2. PICK S : S = NumbersOf(missing, e, "audit", c)
  OBVIOUS
<1>3. PICK T : T = NumbersOf(missing, e, "version", c)
  OBVIOUS
<1>4. Window \in Nat \ {0} /\ c \in Nat \ {0}
  BY <1>1, <1>c, ListConstants
<1>5. /\ IsFiniteSet(top) /\ top \subseteq S /\ S \subseteq 1..c
      /\ S = 1..c => Contiguous(top) /\ top # {}
  <2>1. S \subseteq 1..c
    BY <1>2, <1>4, Counts
  <2>2. top = Newest(S, Window)
    BY <1>1, <1>2, <1>c, <1>t
  <2>3. IsFiniteSet(top) /\ top \subseteq S
    BY <1>4, <2>1, <2>2, NewestOf
  <2>4. S = 1..c => Contiguous(top) /\ top # {}
    BY <1>4, <2>1, <2>2, NewestOf
  <2> QED
    BY <2>1, <2>3, <2>4
<1>6. Sequences(audit) = top
  BY <1>t, SequencesOf
<1>7. ASSUME Gone(e) = {} PROVE TrailFindings(current, audit, totals) = {}
  <2>1. \A item, n : <<e, item, n>> \notin missing
    BY <1>7 DEF Gone
  <2>2. S = 1..c /\ Cardinality(S) = c /\ Cardinality(T) = c
    BY <1>2, <1>3, <1>4, <2>1, Counts
  <2>3. top # {} /\ Contiguous(top)
    BY <1>5, <2>2
  <2>4. audit # {}
    BY <1>t, <2>3
  <2>5. totals.versions = c /\ totals.audit = c /\ current.version = c
    BY <1>1, <1>2, <1>3, <1>c, <2>2
  <2> QED
    BY <1>6, <2>3, <2>4, <2>5 DEF TrailFindings
<1>8. ASSUME Gone(e) # {} PROVE TrailFindings(current, audit, totals) # {}
  <2>1. PICK m \in missing : m[1] = e
    BY <1>8 DEF Gone
  <2>2. m \in Events \X {"version", "audit"} \X (Nat \ {0})
    BY DEF StoreShape
  <2>3. PICK item \in {"version", "audit"}, n \in Nat \ {0} : m = <<e, item, n>>
    BY <2>1, <2>2
  <2>4. n <= c
    BY <1>1, <1>c, <2>1, <2>3
  <2>5. n \in 1..c /\ <<e, item, n>> \in missing
    BY <1>4, <2>1, <2>3, <2>4
  <2>6. item = "version" => totals.versions # c
    BY <1>1, <1>3, <1>4, <1>c, <2>5, Counts
  <2>7. item = "audit" => totals.audit # c
    BY <1>1, <1>2, <1>4, <1>c, <2>5, Counts
  <2>8. totals.versions # c \/ totals.versions # totals.audit
    BY <2>6, <2>7
  <2>9. current.version = c
    BY <1>c
  <2> QED
    BY <2>8, <2>9 DEF TrailFindings
<1> QED
  BY <1>7, <1>8

LEMMA DocumentParts ==
    ASSUME NEW e, NEW v, NEW doc, doc = Document(e, v)
    PROVE  \E current, versions, audit, rows, totals :
              /\ current.version = v.current /\ audit = {AuditAt(e, n) : n \in v.audit}
              /\ totals.versions = v.total /\ totals.audit = v.recorded
              /\ doc.current = v.current /\ doc.steps = build_steps(versions, audit)
              /\ doc.states = state_durations(audit, current)
              /\ doc.findings = findings(current, audit, rows, totals)
<1>1. PICK current : current = EventAt(e, v.current)
  OBVIOUS
<1>2. PICK versions : versions = {EventAt(e, n) : n \in v.versions}
  OBVIOUS
<1>3. PICK audit : audit = {AuditAt(e, n) : n \in v.audit}
  OBVIOUS
<1>4. PICK totals : totals = [versions |-> v.total, audit |-> v.recorded,
                              windowed |-> \/ v.recorded > Cardinality(v.audit)
                                           \/ v.total > Cardinality(v.versions)]
  OBVIOUS
<1>5. doc = build_trace(current, versions, audit, totals)
  BY <1>1, <1>2, <1>3, <1>4, Zenon DEF Document
<1>6. current.version = v.current
  BY <1>1 DEF EventAt
<1>7. totals.versions = v.total /\ totals.audit = v.recorded
  BY <1>4
<1>8. /\ doc.current = current.version /\ doc.steps = build_steps(versions, audit)
      /\ doc.states = state_durations(audit, current)
      /\ doc.findings = findings(current, audit, build_steps(versions, audit), totals)
  BY <1>5 DEF build_trace
<1> QED
  BY <1>3, <1>6, <1>7, <1>8

\* A trace that nobody wrote under reports a hole exactly when an item is missing, however far
\* outside the window; an illegal edge exactly when a step it shows has one; and its spans
\* put each step it shows into the state that step led to (core/cloud.py: history_window;
\* core/trace.py: findings, state_durations).
THEOREM TracesAreTrue == Spec => []TraceTellsTheTruth
<1>1. CInv => TraceTellsTheTruth
  <2> SUFFICES ASSUME CInv, TraceAnswered, answer.value.quiet
               PROVE  LET e == answer.key  doc == Document(e, answer.value)
                      IN  /\ (doc.findings \cap IntegrityFindings # {}) <=> (Gone(e) # {})
                          /\ "illegal_transition_stored" \in doc.findings
                               <=> \E n \in Newest(Numbers(e, "audit", doc.current), Window) :
                                      IllegalAt(e, n)
                          /\ SpansCoverSteps(doc, e)
    BY DEF TraceTellsTheTruth
  <2> DEFINE e == answer.key
             v == answer.value
  <2>1. e \in Events /\ Reads(missing, e, v, AllReads) /\ StoreShape
    BY Constants DEF TraceAnswered, CInv, AnswerIsHonest, Honest, HonestTrace
  <2>2. PICK doc : doc = Document(e, v)
    OBVIOUS
  <2>3. PICK current, versions, audit, rows, totals :
              /\ current.version = v.current /\ audit = {AuditAt(e, n) : n \in v.audit}
              /\ totals.versions = v.total /\ totals.audit = v.recorded
              /\ doc.current = v.current /\ doc.steps = build_steps(versions, audit)
              /\ doc.states = state_durations(audit, current)
              /\ doc.findings = findings(current, audit, rows, totals)
    BY <2>2, DocumentParts
  <2>4. (doc.findings \cap IntegrityFindings # {}) <=> (Gone(e) # {})
    <3>1. TrailFindings(current, audit, totals) # {} <=> Gone(e) # {}
      BY <2>1, <2>3, HolesAreFound
    <3>2. \A f \in doc.findings :
             f \in IntegrityFindings <=> f \in TrailFindings(current, audit, totals)
      BY <2>3, FindingsApart
    <3>3. TrailFindings(current, audit, totals) \subseteq doc.findings
      BY <2>3 DEF findings
    <3> QED
      BY <3>1, <3>2, <3>3
  <2>5. v.audit = Newest(Numbers(e, "audit", doc.current), Window)
    BY <2>1, <2>3, NumbersAre DEF Reads, AllReads
  <2>6. "illegal_transition_stored" \in doc.findings <=> \E n \in v.audit : IllegalAt(e, n)
    <3>1. "illegal_transition_stored" \in doc.findings
            <=> "illegal_transition_stored" \in StepFindings(audit)
      BY <2>3, FindingsApart DEF findings
    <3>2. "illegal_transition_stored" \in StepFindings(audit)
            <=> \E a \in audit : is_transition(a) /\ ~IsLegalTransition(a.from, a.to, a.trigger)
      BY DEF StepFindings
    <3> QED
      BY <2>3, <3>1, <3>2 DEF IllegalAt
  <2>7. SpansCoverSteps(doc, e)
    <3>1. v.current \in Nat \ {0} /\ Window \in Nat \ {0}
      BY <2>1, ListConstants DEF Reads, AllReads
    <3>2. PICK S : S = NumbersOf(missing, e, "audit", v.current)
      OBVIOUS
    <3>3. PICK c : c = v.current
      OBVIOUS
    <3>4. PICK top : top = v.audit
      OBVIOUS
    <3>5. c \in Nat /\ S \subseteq 1..c /\ top = Newest(S, Window)
      BY <2>1, <3>1, <3>2, <3>3, <3>4 DEF Reads, AllReads, NumbersOf
    <3>6. IsFiniteSet(top) /\ top \subseteq S
      BY <3>1, <3>5, NewestOf
    <3>7. ASSUME NEW n \in top PROVE n \in Nat \ {0}
      <4>1. n \in 1..c
        BY <3>5, <3>6
      <4> QED
        BY <4>1
    <3>8. audit = {AuditAt(e, n) : n \in top}
      BY <2>3, <3>4
    <3> QED
      BY <2>3, <3>6, <3>7, <3>8, SpansCover
  <2> QED
    BY <2>2, <2>4, <2>5, <2>6, <2>7
<1> QED
  BY <1>1, ReadingsAreSound, PTL
===================================================================================
