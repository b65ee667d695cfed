-------------------------- MODULE TelemetryProofs ---------------------------
(***************************************************************************)
(* What the telemetry of the HUD promises, for every set of process        *)
(* instances, PIDs and users of them, every hold, threshold and window,    *)
(* and whatever the PresentMon service refuses: who tracks what in the     *)
(* shared session, whose numbers the HUD shows and the verification takes, *)
(* that the battery history never spans a recharge, and that a metric is   *)
(* retained for exactly the promised number of empty polls; and that a     *)
(* read of the EC gets its own answer, for any number of helper processes. *)
(***************************************************************************)
EXTENDS FpsTelemetry, SystemTelemetry, EcHelper, FiniteSetTheorems, TLAPS

-----------------------------------------------------------------------------
(* The frame rate.                                                         *)

Users == {"query", "verifier", "activity"}

\* What each of the three users of the session holds.
Held == [k \in Users |-> CASE k = "query" -> session.query
                           [] k = "verifier" -> verifier.pid
                           [] OTHER -> activity.leased]

Using(h, p) == {k \in Users : h[k] = p}

\* Every reference is some user's, and nothing else is tracked.
Counted(s, h) ==
    /\ h \in [Users -> Targets]
    /\ s.refs \in [Pids -> Nat]
    /\ \A p \in Pids : s.refs[p] = Cardinality(Using(h, p))
    /\ s.tracked = {p \in Pids : Using(h, p) # {}}

\* A session is a record of these fields.
Shape(s) ==
    s = [ready |-> s.ready, processReady |-> s.processReady, frameReady |-> s.frameReady,
         refs |-> s.refs, query |-> s.query, sources |-> s.sources, armed |-> s.armed,
         seen |-> s.seen, tracked |-> s.tracked, queued |-> s.queued]

\* What no operation on the session changes.
Same(s, t) == t.ready = s.ready /\ t.processReady = s.processReady

-----------------------------------------------------------------------------
LEMMA UsingIsFinite ==
    ASSUME NEW h, NEW p
    PROVE  IsFiniteSet(Using(h, p)) /\ Cardinality(Using(h, p)) \in Nat
<1>1. IsFiniteSet(Users)
  <2>1. IsFiniteSet({"query"})
    BY FS_Singleton
  <2>2. IsFiniteSet({"query"} \cup {"verifier"})
    BY <2>1, FS_AddElement
  <2>3. IsFiniteSet(({"query"} \cup {"verifier"}) \cup {"activity"})
    BY <2>2, FS_AddElement
  <2>4. Users = ({"query"} \cup {"verifier"}) \cup {"activity"}
    BY DEF Users
  <2> QED BY <2>3, <2>4
<1>2. Using(h, p) \subseteq Users
  BY DEF Using
<1> QED BY <1>1, <1>2, FS_Subset, FS_CardinalityType

\* User k, who held nothing in h, holds p in g.
Takes(h, k, p, g) ==
    /\ h \in [Users -> Targets] /\ h[k] = NoPid
    /\ k \in Users /\ p \in Pids
    /\ g = [h EXCEPT ![k] = p]

\* It adds one to the count of p, and to no other.
LEMMA OneMore ==
    ASSUME NEW h, NEW k, NEW p, NEW g, Takes(h, k, p, g)
    PROVE  /\ g \in [Users -> Targets] /\ p \in Pids
           /\ \A q \in Pids : q # p => Using(g, q) = Using(h, q)
           /\ Using(g, p) # {}
           /\ Cardinality(Using(h, p)) \in Nat
           /\ Cardinality(Using(h, p)) = 0 <=> Using(h, p) = {}
           /\ Cardinality(Using(g, p)) = Cardinality(Using(h, p)) + 1
<1>1. NoPid \notin Pids
  BY PidAssumption DEF NoPid
<1>2. g \in [Users -> Targets] /\ p \in Pids
  BY DEF Takes, Targets
<1>3. \A q \in Pids : q # p => Using(g, q) = Using(h, q)
  BY <1>1 DEF Using, Takes
<1>4. Using(g, p) = Using(h, p) \cup {k}
  BY <1>1 DEF Using, Takes
<1>5. k \notin Using(h, p)
  BY <1>1 DEF Using, Takes
<1>6. Cardinality(Using(h, p) \cup {k}) = Cardinality(Using(h, p)) + 1
  BY <1>5, UsingIsFinite, FS_AddElement
<1>7. Cardinality(Using(h, p)) \in Nat
  BY UsingIsFinite
<1>8. Cardinality(Using(h, p)) = 0 <=> Using(h, p) = {}
  BY UsingIsFinite, FS_EmptySet
<1> QED BY <1>2, <1>3, <1>4, <1>6, <1>7, <1>8

-----------------------------------------------------------------------------
(* Tracking.                                                               *)

LEMMA TrackingStarts ==
    ASSUME NEW s, Shape(s), NEW h, Counted(s, h), NEW k, NEW p, NEW g, Takes(h, k, p, g),
           NEW r \in StartTracking(s, p)
    PROVE  /\ Shape(r.session) /\ Same(s, r.session) /\ r.session.query = s.query
           /\ r.ok \in BOOLEAN
           /\ r.ok => Counted(r.session, g)
           /\ ~r.ok => r.session = s
<1> DEFINE old == Cardinality(Using(h, p))
           new == Cardinality(Using(g, p))
<1>1. /\ g \in [Users -> Targets] /\ p \in Pids /\ s.refs \in [Pids -> Nat]
      /\ Using(g, p) # {}
  BY OneMore DEF Counted
<1>2. \A q \in Pids : q # p => Using(g, q) = Using(h, q)
  BY OneMore
<1>3. old \in Nat /\ new = old + 1 /\ s.refs[p] = old
  BY OneMore DEF Counted
<1>4. old = 0 <=> Using(h, p) = {}
  BY OneMore
<1>5. \A q \in Pids : s.refs[q] = Cardinality(Using(h, q))
  BY DEF Counted
<1>6. s.tracked = {q \in Pids : Using(h, q) # {}}
  BY DEF Counted
<1> HIDE DEF old, new
<1>7. \A t : /\ t.refs = [s.refs EXCEPT ![p] = old + 1]
             /\ t.tracked = s.tracked \cup {p}
             => Counted(t, g)
  <2> TAKE t
  <2> HAVE /\ t.refs = [s.refs EXCEPT ![p] = old + 1]
           /\ t.tracked = s.tracked \cup {p}
  <2>1. t.refs \in [Pids -> Nat]
    BY <1>1, <1>3
  <2>2. ASSUME NEW q \in Pids PROVE t.refs[q] = Cardinality(Using(g, q))
    <3>1. CASE q = p
      BY <3>1, <1>1, <1>3 DEF new
    <3>2. CASE q # p
      BY <3>2, <1>1, <1>2, <1>5
    <3> QED BY <3>1, <3>2
  <2>3. t.tracked = {q \in Pids : Using(g, q) # {}}
    BY <1>1, <1>2, <1>6
  <2> QED BY <1>1, <2>1, <2>2, <2>3 DEF Counted
<1>8. CASE s.refs[p] > 0
  <2>1. r = Done([s EXCEPT !.refs[p] = @ + 1])
    BY <1>8 DEF StartTracking
  <2>2. /\ r.ok = TRUE /\ Shape(r.session) /\ Same(s, r.session) /\ r.session.query = s.query
        /\ r.session.refs = [s.refs EXCEPT ![p] = s.refs[p] + 1] /\ r.session.tracked = s.tracked
    BY <2>1 DEF Done, Shape, Same
  <2>3. Using(h, p) # {}
    BY <1>3, <1>4, <1>8
  <2>4. s.tracked = s.tracked \cup {p}
    BY <1>1, <1>6, <2>3
  <2> QED BY <1>3, <1>7, <2>2, <2>4
<1>9. CASE ~(s.refs[p] > 0)
  <2>1. CASE r = NotDone(s)
    BY <2>1 DEF NotDone, Same
  <2>2. CASE r = Done([s EXCEPT !.refs[p] = 1, !.tracked = @ \cup {p}])
    <3>1. /\ r.ok = TRUE /\ Shape(r.session) /\ Same(s, r.session) /\ r.session.query = s.query
          /\ r.session.refs = [s.refs EXCEPT ![p] = 1] /\ r.session.tracked = s.tracked \cup {p}
      BY <2>2 DEF Done, Shape, Same
    <3>2. old + 1 = 1
      BY <1>3, <1>9
    <3> QED BY <1>7, <3>1, <3>2
  <2> QED BY <1>9, <2>1, <2>2 DEF StartTracking
<1> QED BY <1>8, <1>9

LEMMA TrackingStops ==
    ASSUME NEW s, Shape(s), NEW h, Counted(s, h), NEW k, NEW p, NEW g, Takes(g, k, p, h)
    PROVE  LET t == StopTracking(s, p)
           IN  Shape(t) /\ Same(s, t) /\ t.query = s.query /\ Counted(t, g)
<1> DEFINE old == Cardinality(Using(h, p))
           new == Cardinality(Using(g, p))
           t == StopTracking(s, p)
<1>1. /\ g \in [Users -> Targets] /\ p \in Pids /\ s.refs \in [Pids -> Nat]
      /\ Using(h, p) # {}
  <2>1. g \in [Users -> Targets] /\ p \in Pids
    BY DEF Takes
  <2>2. Using(h, p) # {}
    BY OneMore
  <2>3. s.refs \in [Pids -> Nat]
    BY DEF Counted
  <2> QED BY <2>1, <2>2, <2>3
<1>2. \A q \in Pids : q # p => Using(h, q) = Using(g, q)
  BY OneMore
<1>3. new \in Nat /\ old = new + 1 /\ s.refs[p] = old
  BY OneMore DEF Counted
<1>4. new = 0 <=> Using(g, p) = {}
  BY OneMore
<1>5. \A q \in Pids : s.refs[q] = Cardinality(Using(h, q))
  BY DEF Counted
<1>6. s.tracked = {q \in Pids : Using(h, q) # {}}
  BY DEF Counted
<1> HIDE DEF old, new
<1>7. ASSUME t.refs = [s.refs EXCEPT ![p] = new],
             t.tracked = IF new = 0 THEN s.tracked \ {p} ELSE s.tracked
      PROVE  Counted(t, g)
  <2> HIDE DEF t
  <2>1. t.refs \in [Pids -> Nat]
    BY <1>1, <1>3, <1>7
  <2>2. ASSUME NEW q \in Pids PROVE t.refs[q] = Cardinality(Using(g, q))
    <3>1. CASE q = p
      BY <3>1, <1>1, <1>3, <1>7 DEF new
    <3>2. CASE q # p
      BY <3>2, <1>1, <1>2, <1>5, <1>7
    <3> QED BY <3>1, <3>2
  <2>3. t.tracked = {q \in Pids : Using(g, q) # {}}
    BY <1>1, <1>2, <1>4, <1>6, <1>7
  <2> QED BY <1>1, <2>1, <2>2, <2>3 DEF Counted
<1>8. CASE s.refs[p] = 1
  <2>1. t = [s EXCEPT !.refs[p] = 0, !.tracked = @ \ {p}, !.queued[p] = {}]
    BY <1>8 DEF StopTracking
  <2>2. /\ Shape(t) /\ Same(s, t) /\ t.query = s.query
        /\ t.refs = [s.refs EXCEPT ![p] = 0] /\ t.tracked = s.tracked \ {p}
    BY <2>1 DEF Shape, Same
  <2>3. new = 0
    BY <1>3, <1>8
  <2> QED BY <1>7, <2>2, <2>3
<1>9. CASE s.refs[p] # 1
  <2>1. s.refs[p] # 0 /\ new # 0 /\ s.refs[p] - 1 = new
    BY <1>3, <1>9
  <2>2. t = [s EXCEPT !.refs[p] = @ - 1]
    BY <1>9, <2>1 DEF StopTracking
  <2>3. /\ Shape(t) /\ Same(s, t) /\ t.query = s.query
        /\ t.refs = [s.refs EXCEPT ![p] = s.refs[p] - 1] /\ t.tracked = s.tracked
    BY <2>2 DEF Shape, Same
  <2> QED BY <1>7, <2>1, <2>3
<1> QED BY <1>8, <1>9

\* User k has given back what it held; nothing else happened.
GivenBack(s, h, k, t) ==
    /\ Shape(t) /\ Same(s, t) /\ t.query = s.query
    /\ Counted(t, [h EXCEPT ![k] = NoPid])

LEMMA NoPidIsTarget == NoPid \in Targets /\ NoPid \notin Pids
BY PidAssumption DEF NoPid, Targets

LEMMA LeaseIsGivenBack ==
    ASSUME NEW s, Shape(s), NEW h, Counted(s, h), NEW k \in Users,
           ~s.ready => h[k] = NoPid
    PROVE  GivenBack(s, h, k, IF h[k] = NoPid THEN s ELSE ReleaseProcess(s, h[k]))
<1> DEFINE g == [h EXCEPT ![k] = NoPid]
<1>1. h \in [Users -> Targets]
  BY DEF Counted
<1>2. CASE h[k] = NoPid
  <2>1. g = h
    BY <1>1, <1>2
  <2> QED BY <1>2, <2>1 DEF GivenBack, Same
<1>3. CASE h[k] # NoPid
  <2>1. g \in [Users -> Targets] /\ g[k] = NoPid
    BY <1>1, NoPidIsTarget
  <2>2. h[k] \in Pids /\ h = [g EXCEPT ![k] = h[k]]
    BY <1>1, <1>3 DEF Targets
  <2>3. Takes(g, k, h[k], h)
    BY <2>1, <2>2 DEF Takes
  <2>4. ReleaseProcess(s, h[k]) = StopTracking(s, h[k])
    BY <1>3 DEF ReleaseProcess
  <2> HIDE DEF g
  <2>5. GivenBack(s, h, k, StopTracking(s, h[k]))
    BY <2>3, TrackingStops DEF GivenBack, g
  <2> QED BY <1>3, <2>4, <2>5
<1> QED BY <1>2, <1>3

Requery(s, p, owners) == [s EXCEPT !.query = p, !.sources = owners]

\* To set the query is to leave the tracking alone.
LEMMA QueryOnly ==
    ASSUME NEW s, Shape(s), NEW p, NEW owners
    PROVE  LET t == Requery(s, p, owners)
           IN  /\ Shape(t) /\ Same(s, t) /\ t.query = p
               /\ t.refs = s.refs /\ t.tracked = s.tracked
<1> DEFINE u == [s EXCEPT !.query = p]
<1>1. /\ Shape(u) /\ Same(s, u) /\ u.query = p
      /\ u.refs = s.refs /\ u.tracked = s.tracked
  BY DEF Shape, Same
<1>2. Requery(s, p, owners) = [u EXCEPT !.sources = owners]
  BY DEF Requery
<1> HIDE DEF u
<1> DEFINE t == [u EXCEPT !.sources = owners]
<1>3. /\ Shape(t) /\ Same(u, t) /\ t.query = u.query
      /\ t.refs = u.refs /\ t.tracked = u.tracked
  BY <1>1 DEF Shape, Same
<1> QED BY <1>1, <1>2, <1>3 DEF Same

LEMMA TargetIsReleased ==
    ASSUME NEW s, Shape(s), NEW h, Counted(s, h), h["query"] = s.query
    PROVE  /\ Shape(ReleaseTarget(s)) /\ Same(s, ReleaseTarget(s))
           /\ ReleaseTarget(s).query = NoPid
           /\ Counted(ReleaseTarget(s), [h EXCEPT !["query"] = NoPid])
<1> DEFINE g == [h EXCEPT !["query"] = NoPid]
           b == Requery(s, NoPid, {})
<1>1. h \in [Users -> Targets] /\ "query" \in Users
  BY DEF Counted, Users
<1>2. CASE s.query = NoPid
  <2>1. g = h
    BY <1>1, <1>2
  <2>2. ReleaseTarget(s) = s
    BY <1>2 DEF ReleaseTarget
  <2> QED BY <1>2, <2>1, <2>2 DEF Same
<1>3. CASE s.query # NoPid
  <2>1. g \in [Users -> Targets] /\ g["query"] = NoPid
    BY <1>1, NoPidIsTarget
  <2>2. s.query \in Pids /\ h = [g EXCEPT !["query"] = s.query]
    BY <1>1, <1>3 DEF Targets
  <2>3. Takes(g, "query", s.query, h)
    BY <1>1, <2>1, <2>2 DEF Takes
  <2>4. /\ Shape(b) /\ Same(s, b) /\ b.query = NoPid
        /\ b.refs = s.refs /\ b.tracked = s.tracked
    BY QueryOnly DEF Same
  <2>5. ReleaseTarget(s) = StopTracking(b, s.query)
    BY <1>3 DEF ReleaseTarget, Requery
  <2> HIDE DEF g, b
  <2>6. Counted(b, h)
    BY <2>4 DEF Counted
  <2>7. LET t == StopTracking(b, s.query)
        IN  Shape(t) /\ Same(b, t) /\ t.query = b.query /\ Counted(t, g)
    BY <2>3, <2>4, <2>6, TrackingStops
  <2> QED BY <2>4, <2>5, <2>7 DEF Same, g
<1> QED BY <1>2, <1>3

-----------------------------------------------------------------------------
(* The FPS query.                                                          *)

\* The query is for another target, or for none; the leases are untouched.
Requeried(s, h, t) ==
    /\ Shape(t) /\ Same(s, t)
    /\ Counted(t, [h EXCEPT !["query"] = t.query])
    /\ ~s.processReady => t.query = s.query
    /\ ~s.ready => t.query = s.query

LEMMA RetargetIsCounted ==
    ASSUME NEW s, Shape(s), NEW h, Counted(s, h), h["query"] = s.query,
           s.ready, s.processReady,
           NEW p \in Pids, NEW owners, NEW r \in RetargetProcess(s, p, owners)
    PROVE  Requeried(s, h, r.session)
<1> DEFINE free == ReleaseTarget(s)
           g == [h EXCEPT !["query"] = NoPid]
           k == [h EXCEPT !["query"] = p]
<1>1. /\ Shape(free) /\ Same(s, free) /\ free.query = NoPid /\ Counted(free, g)
  BY TargetIsReleased
<1>2. h \in [Users -> Targets] /\ "query" \in Users
  BY DEF Counted, Users
<1>3. Takes(g, "query", p, k)
  BY <1>2, NoPidIsTarget DEF Takes
<1>4. PICK q \in StartTracking(free, p) :
         r \in IF ~q.ok THEN {q}
                 ELSE {Done(Requery(q.session, p, owners)),
                       NotDone(StopTracking(q.session, p))}
  BY DEF RetargetProcess, Requery
<1> HIDE DEF free, k
<1>5. /\ Shape(q.session) /\ Same(free, q.session) /\ q.session.query = free.query
      /\ q.ok => Counted(q.session, k)
      /\ ~q.ok => q.session = free
  <2> HIDE DEF g
  <2> QED BY <1>1, <1>3, TrackingStarts
<1>6. CASE ~q.ok
  <2>1. r.session = free
    BY <1>4, <1>5, <1>6
  <2> QED BY <1>1, <2>1 DEF Requeried
<1>7. CASE q.ok /\ r = Done(Requery(q.session, p, owners))
  <2>1. /\ r.session.query = p /\ r.session.refs = q.session.refs
        /\ r.session.tracked = q.session.tracked
        /\ Shape(r.session) /\ Same(q.session, r.session)
    BY <1>5, <1>7, QueryOnly DEF Done
  <2>2. Counted(r.session, k)
    BY <1>5, <1>7, <2>1 DEF Counted
  <2> QED BY <1>1, <1>5, <2>1, <2>2 DEF Requeried, Same, k
<1>8. CASE q.ok /\ r = NotDone(StopTracking(q.session, p))
  <2>1. r.session = StopTracking(q.session, p)
    BY <1>8 DEF NotDone
  <2>2. /\ Shape(r.session) /\ Same(q.session, r.session)
        /\ r.session.query = q.session.query /\ Counted(r.session, g)
    <3> HIDE DEF g
    <3> QED BY <1>3, <1>5, <1>8, <2>1, TrackingStops
  <2> QED BY <1>1, <1>5, <2>2 DEF Requeried, Same
<1> QED BY <1>4, <1>6, <1>7, <1>8

LEMMA NothingRequeried ==
    ASSUME NEW s, Shape(s), NEW h, Counted(s, h), h["query"] = s.query
    PROVE  Requeried(s, h, s)
<1>1. [h EXCEPT !["query"] = s.query] = h
  BY DEF Counted
<1> QED BY <1>1 DEF Requeried, Same

LEMMA ReleaseIsCounted ==
    ASSUME NEW s, Shape(s), NEW h, Counted(s, h), h["query"] = s.query,
           s.ready, s.processReady
    PROVE  Requeried(s, h, ReleaseTarget(s))
BY TargetIsReleased DEF Requeried

LEMMA PollIsCounted ==
    ASSUME NEW s, Shape(s), NEW h, Counted(s, h), h["query"] = s.query,
           s.ready, s.processReady, NEW r \in PollQuery(s)
    PROVE  Requeried(s, h, r.session)
<1>1. r.session = s \/ r.session = ReleaseTarget(s)
  BY DEF PollQuery, Value
<1> QED BY <1>1, NothingRequeried, ReleaseIsCounted

LEMMA ReadIsCounted ==
    ASSUME NEW s, Shape(s), NEW h, Counted(s, h), h["query"] = s.query,
           NEW p \in Targets, NEW owners, NEW r \in ReadProcess(s, p, owners)
    PROVE  Requeried(s, h, r.session)
<1>1. CASE ~s.ready \/ ~s.processReady
  <2>1. r.session = s
    BY <1>1 DEF ReadProcess, Value
  <2> QED BY <2>1, NothingRequeried
<1>2. CASE s.ready /\ s.processReady /\ p = NoPid
  <2>1. r.session = ReleaseTarget(s)
    BY <1>2 DEF ReadProcess, Value
  <2> QED BY <1>2, <2>1, ReleaseIsCounted
<1>3. CASE s.ready /\ s.processReady /\ p # NoPid /\ s.query = p
  <2>1. r \in PollQuery(s)
    BY <1>3 DEF ReadProcess
  <2> QED BY <1>3, <2>1, PollIsCounted
<1>4. CASE s.ready /\ s.processReady /\ p # NoPid /\ s.query # p
  <2>1. p \in Pids
    BY <1>4 DEF Targets
  <2>2. PICK q \in RetargetProcess(s, p, owners) :
           r \in IF q.ok THEN PollQuery(q.session) ELSE {Value(NoInstance, q.session)}
    BY <1>4 DEF ReadProcess
  <2>3. Requeried(s, h, q.session)
    BY <1>4, <2>1, RetargetIsCounted
  <2>4. CASE q.ok
    <3> DEFINE g == [h EXCEPT !["query"] = q.session.query]
    <3>1. /\ Shape(q.session) /\ Counted(q.session, g) /\ Same(s, q.session)
          /\ q.session.ready /\ q.session.processReady
      BY <1>4, <2>3 DEF Requeried, Same
    <3>2. g["query"] = q.session.query
      BY DEF Counted, Users
    <3>3. r \in PollQuery(q.session)
      BY <2>2, <2>4
    <3>4. Requeried(q.session, g, r.session)
      <4> HIDE DEF g
      <4> QED BY <3>1, <3>2, <3>3, PollIsCounted
    <3>5. [g EXCEPT !["query"] = r.session.query] = [h EXCEPT !["query"] = r.session.query]
      BY DEF Counted, Users
    <3> QED BY <1>4, <3>1, <3>4, <3>5 DEF Requeried, Same
  <2>5. CASE ~q.ok
    <3>1. r.session = q.session
      BY <2>2, <2>5 DEF Value
    <3> QED BY <2>3, <3>1
  <2> QED BY <2>4, <2>5
<1> QED BY <1>1, <1>2, <1>3, <1>4

LEMMA ReleaseQueryIsOneSession ==
    ASSUME NEW s
    PROVE  ReleaseQuery(s) = IF s.ready /\ s.processReady THEN ReleaseTarget(s) ELSE s
<1> DEFINE t == IF s.ready /\ s.processReady THEN ReleaseTarget(s) ELSE s
<1>1. ReadProcess(s, NoPid, {}) = {Value(NoInstance, t)}
  BY DEF ReadProcess
<1>2. Value(NoInstance, t).session = t
  BY DEF Value
<1> HIDE DEF t
<1>3. {r.session : r \in ReadProcess(s, NoPid, {})} = {t}
  BY <1>1, <1>2
<1>4. ReleaseQuery(s) = t
  BY <1>3 DEF ReleaseQuery
<1> QED BY <1>4 DEF t

-----------------------------------------------------------------------------
(* What is true of a session and its users between two steps.              *)

Sound(s, h) ==
    /\ Shape(s) /\ Counted(s, h) /\ h["query"] = s.query
    /\ ~s.ready => \A k \in Users : h[k] = NoPid
    /\ ~s.processReady => s.query = NoPid

\* The tracking is left alone.
Alike(s, t) ==
    /\ Shape(t) /\ Same(s, t) /\ t.query = s.query
    /\ t.refs = s.refs /\ t.tracked = s.tracked

LEMMA AlikeIsSound ==
    ASSUME NEW s, NEW h, Sound(s, h), NEW t, Alike(s, t)
    PROVE  Sound(t, h)
BY DEF Sound, Alike, Same, Counted

LEMMA RequeriedIsSound ==
    ASSUME NEW s, NEW h, Sound(s, h), NEW t, Requeried(s, h, t)
    PROVE  Sound(t, [h EXCEPT !["query"] = t.query])
<1> DEFINE g == [h EXCEPT !["query"] = t.query]
<1>1. h \in [Users -> Targets] /\ "query" \in Users
  BY DEF Sound, Counted, Users
<1>2. g["query"] = t.query /\ \A k \in Users : k # "query" => g[k] = h[k]
  BY <1>1
<1>3. Shape(t) /\ Same(s, t) /\ Counted(t, g)
  BY DEF Requeried
<1> HIDE DEF g
<1>4. ~t.ready => \A k \in Users : g[k] = NoPid
  BY <1>1, <1>2 DEF Sound, Requeried, Same
<1>5. ~t.processReady => t.query = NoPid
  BY DEF Sound, Requeried, Same
<1>6. Sound(t, g)
  BY <1>2, <1>3, <1>4, <1>5 DEF Sound
<1> QED BY <1>6 DEF g

LEMMA ReadIsSound ==
    ASSUME NEW s, NEW h, Sound(s, h), NEW p \in Targets, NEW owners,
           NEW r \in ReadProcess(s, p, owners)
    PROVE  Sound(r.session, [h EXCEPT !["query"] = r.session.query])
<1>1. Requeried(s, h, r.session)
  BY ReadIsCounted DEF Sound
<1> QED BY <1>1, RequeriedIsSound

LEMMA ReleaseQueryIsSound ==
    ASSUME NEW s, NEW h, Sound(s, h)
    PROVE  /\ Sound(ReleaseQuery(s), [h EXCEPT !["query"] = NoPid])
           /\ ReleaseQuery(s).query = NoPid
<1>1. CASE s.ready /\ s.processReady
  <2>1. ReleaseQuery(s) = ReleaseTarget(s)
    BY <1>1, ReleaseQueryIsOneSession
  <2>2. ReleaseQuery(s).query = NoPid
    <3>1. ReleaseTarget(s).query = NoPid
      BY TargetIsReleased DEF Sound
    <3> QED BY <2>1, <3>1
  <2>3. Requeried(s, h, ReleaseQuery(s))
    BY <1>1, <2>1, ReleaseIsCounted DEF Sound
  <2> QED BY <2>2, <2>3, RequeriedIsSound
<1>2. CASE ~(s.ready /\ s.processReady)
  <2>1. ReleaseQuery(s) = s
    BY <1>2, ReleaseQueryIsOneSession
  <2>2. s.query = NoPid
    BY <1>2 DEF Sound, Users
  <2>3. [h EXCEPT !["query"] = NoPid] = h
    BY <2>2 DEF Sound, Counted
  <2> QED BY <2>1, <2>2, <2>3
<1> QED BY <1>1, <1>2

LEMMA GivenBackIsSound ==
    ASSUME NEW s, NEW h, Sound(s, h), NEW k \in {"verifier", "activity"}
    PROVE  LET t == IF h[k] = NoPid THEN s ELSE ReleaseProcess(s, h[k])
           IN  Sound(t, [h EXCEPT ![k] = NoPid]) /\ t.query = s.query
<1> DEFINE g == [h EXCEPT ![k] = NoPid]
           t == IF h[k] = NoPid THEN s ELSE ReleaseProcess(s, h[k])
<1>1. k \in Users /\ k # "query" /\ h \in [Users -> Targets] /\ "query" \in Users
  BY DEF Users, Sound, Counted
<1>2. GivenBack(s, h, k, t)
  BY <1>1, LeaseIsGivenBack DEF Sound
<1> HIDE DEF t
<1>3. Shape(t) /\ Same(s, t) /\ t.query = s.query /\ Counted(t, g)
  BY <1>2 DEF GivenBack
<1>4. g["query"] = h["query"] /\ \A j \in Users : g[j] = h[j] \/ g[j] = NoPid
  BY <1>1
<1> HIDE DEF g
<1>5. Sound(t, g)
  BY <1>3, <1>4 DEF Sound, Same
<1> QED BY <1>3, <1>5 DEF g, t

\* A result of a lease: taken, or nothing happened to the tracking.
Leased(s, h, k, p, r) ==
    /\ r.session.query = s.query
    /\ r.ok => Sound(r.session, [h EXCEPT ![k] = p])
    /\ ~r.ok => Sound(r.session, h)

LEMMA StartIsSound ==
    ASSUME NEW s, NEW h, Sound(s, h), s.ready, NEW k \in {"verifier", "activity"},
           h[k] = NoPid, NEW p \in Pids, NEW r \in StartTracking(s, p)
    PROVE  /\ Leased(s, h, k, p, r)
           /\ Takes(h, k, p, [h EXCEPT ![k] = p])
           /\ Same(s, r.session) /\ r.ok \in BOOLEAN
<1> DEFINE g == [h EXCEPT ![k] = p]
<1>1. k \in Users /\ k # "query" /\ h \in [Users -> Targets] /\ "query" \in Users
  BY DEF Users, Sound, Counted
<1>2. Takes(h, k, p, g)
  BY <1>1 DEF Takes
<1>3. g["query"] = h["query"]
  BY <1>1
<1> HIDE DEF g
<1>4. /\ Shape(r.session) /\ Same(s, r.session) /\ r.session.query = s.query
      /\ r.ok \in BOOLEAN
      /\ r.ok => Counted(r.session, g)
      /\ ~r.ok => r.session = s
  BY <1>2, TrackingStarts DEF Sound
<1>5. r.ok => Sound(r.session, g)
  BY <1>3, <1>4 DEF Sound, Same
<1>6. Leased(s, h, k, p, r)
  BY <1>4, <1>5 DEF Leased, g
<1> QED BY <1>2, <1>4, <1>6 DEF g

LEMMA AcquireIsSound ==
    ASSUME NEW s, NEW h, Sound(s, h), h["activity"] = NoPid, NEW p \in Pids,
           NEW r \in AcquireProcess(s, p)
    PROVE  Leased(s, h, "activity", p, r)
<1>1. CASE s.ready
  BY <1>1, StartIsSound DEF AcquireProcess
<1>2. CASE ~s.ready
  BY <1>2 DEF AcquireProcess, NotDone, Leased
<1> QED BY <1>1, <1>2

LEMMA LookingIsAlike ==
    ASSUME NEW s, Shape(s), NEW p
    PROVE  /\ \A b \in BeginVerification(s, p) : Alike(s, b.session)
           /\ \A t \in PollDisplayedFrame(s, p) : Alike(s, t)
           /\ \A t \in ReadDebugFrameActivity(s, p) : Alike(s, t)
<1>1. Alike(s, s)
  BY DEF Alike, Same
<1>2. ASSUME NEW t, Alike(s, t)
      PROVE  /\ Alike(s, [t EXCEPT !.queued[p] = {}])
             /\ \A i : Alike(s, [t EXCEPT !.seen = i])
             /\ \A i : Alike(s, [t EXCEPT !.armed = i])
  <2>1. Shape(t)
    BY <1>2 DEF Alike
  <2>2. Alike(t, [t EXCEPT !.queued[p] = {}])
    BY <2>1 DEF Alike, Same, Shape
  <2>3. \A i : Alike(t, [t EXCEPT !.seen = i])
    BY <2>1 DEF Alike, Same, Shape
  <2>4. \A i : Alike(t, [t EXCEPT !.armed = i])
    BY <2>1 DEF Alike, Same, Shape
  <2>5. \A u : Alike(t, u) => Alike(s, u)
    BY <1>2 DEF Alike, Same
  <2> QED BY <2>2, <2>3, <2>4, <2>5
<1>3. \A i : Alike(s, [s EXCEPT !.queued[p] = {}, !.seen = i])
  <2> DEFINE t == [s EXCEPT !.queued[p] = {}]
  <2>1. Alike(s, t)
    BY <1>1, <1>2
  <2>2. \A i : [s EXCEPT !.queued[p] = {}, !.seen = i] = [t EXCEPT !.seen = i]
    OBVIOUS
  <2> HIDE DEF t
  <2>3. \A i : Alike(s, [t EXCEPT !.seen = i])
    BY <1>2, <2>1
  <2> QED BY <2>2, <2>3
<1>4. Alike(s, [s EXCEPT !.armed = p, !.seen = NoInstance, !.queued[p] = {}])
  <2> DEFINE t == [s EXCEPT !.armed = p]
             u == [t EXCEPT !.seen = NoInstance]
  <2>1. Alike(s, t)
    BY <1>1, <1>2
  <2>2. [s EXCEPT !.armed = p, !.seen = NoInstance, !.queued[p] = {}] =
          [u EXCEPT !.queued[p] = {}]
    OBVIOUS
  <2> HIDE DEF t
  <2>3. Alike(s, u)
    BY <1>2, <2>1
  <2> HIDE DEF u
  <2>4. Alike(s, [u EXCEPT !.queued[p] = {}])
    BY <1>2, <2>3
  <2> QED BY <2>2, <2>4
<1>5. Alike(s, [s EXCEPT !.armed = NoPid, !.seen = NoInstance])
  <2> DEFINE t == [s EXCEPT !.armed = NoPid]
  <2>1. Alike(s, t)
    BY <1>1, <1>2
  <2>2. [s EXCEPT !.armed = NoPid, !.seen = NoInstance] = [t EXCEPT !.seen = NoInstance]
    OBVIOUS
  <2> HIDE DEF t
  <2> QED BY <1>2, <2>1, <2>2
<1>6. \A b \in BeginVerification(s, p) : Alike(s, b.session)
  <2> DEFINE t == [s EXCEPT !.armed = p, !.seen = NoInstance, !.queued[p] = {}]
             u == [s EXCEPT !.armed = NoPid, !.seen = NoInstance]
  <2>1. BeginVerification(s, p) = {Done(t), NotDone(u)}
    BY DEF BeginVerification
  <2>2. Alike(s, t) /\ Alike(s, u)
    BY <1>4, <1>5
  <2> HIDE DEF t, u
  <2> QED BY <2>1, <2>2 DEF Done, NotDone
<1>7. \A t \in PollDisplayedFrame(s, p) : Alike(s, t)
  BY <1>1, <1>2, <1>3 DEF PollDisplayedFrame
<1>8. \A t \in ReadDebugFrameActivity(s, p) : Alike(s, t)
  BY <1>1, <1>2 DEF ReadDebugFrameActivity
<1> QED BY <1>6, <1>7, <1>8

LEMMA BeginIsSound ==
    ASSUME NEW s, NEW h, Sound(s, h), h["verifier"] = NoPid, NEW p \in Pids,
           NEW r \in BeginGameRenderVerification(s, p)
    PROVE  Leased(s, h, "verifier", p, r)
<1> DEFINE g == [h EXCEPT !["verifier"] = p]
<1>1. CASE ~s.ready \/ ~s.frameReady
  <2>1. r = NotDone(s)
    BY <1>1 DEF BeginGameRenderVerification
  <2> QED BY <2>1 DEF NotDone, Leased
<1>2. CASE s.ready /\ s.frameReady
  <2>1. PICK q \in StartTracking(s, p) :
           r \in IF ~q.ok THEN {q}
                   ELSE {IF b.ok THEN b ELSE NotDone(StopTracking(b.session, p)) :
                           b \in BeginVerification(q.session, p)}
    BY <1>2 DEF BeginGameRenderVerification
  <2>2. /\ Leased(s, h, "verifier", p, q) /\ Takes(h, "verifier", p, g)
        /\ Same(s, q.session)
    BY <1>2, StartIsSound
  <2>3. CASE ~q.ok
    BY <2>1, <2>2, <2>3
  <2>4. CASE q.ok
    <3>1. PICK b \in BeginVerification(q.session, p) :
             r = IF b.ok THEN b ELSE NotDone(StopTracking(b.session, p))
      BY <2>1, <2>4
    <3> HIDE DEF g
    <3>2. Sound(q.session, g) /\ q.session.query = s.query
      BY <2>2, <2>4 DEF Leased, g
    <3>3. Alike(q.session, b.session)
      BY <3>2, LookingIsAlike DEF Sound
    <3>4. Sound(b.session, g) /\ b.session.query = s.query
      BY <3>2, <3>3, AlikeIsSound DEF Alike
    <3>5. CASE b.ok
      <4>1. r = b
        BY <3>1, <3>5
      <4> QED BY <3>4, <3>5, <4>1 DEF Leased, g
    <3>6. CASE ~b.ok
      <4> DEFINE t == StopTracking(b.session, p)
      <4>1. r.ok = FALSE /\ r.session = t
        BY <3>1, <3>6 DEF NotDone
      <4>2. Shape(t) /\ Same(b.session, t) /\ t.query = b.session.query /\ Counted(t, h)
        BY <2>2, <3>4, TrackingStops DEF Sound
      <4>3. Same(s, t)
        BY <2>2, <3>3, <4>2 DEF Same, Alike
      <4> HIDE DEF t
      <4>4. Sound(t, h)
        BY <3>4, <4>2, <4>3 DEF Sound, Same
      <4> QED BY <3>4, <4>1, <4>2, <4>4 DEF Leased
    <3> QED BY <3>5, <3>6
  <2> QED BY <2>3, <2>4
<1> QED BY <1>1, <1>2

-----------------------------------------------------------------------------
(* The FPS members and the sampling.                                       *)

FpsShape(f) ==
    /\ f = [mode |-> f.mode, always |-> f.always, ingame |-> f.ingame,
            latest |-> f.latest, hold |-> f.hold]
    /\ f.always \in Targets /\ f.ingame \in Targets

LEMMA FpsMembers ==
    ASSUME NEW f, FpsShape(f), NEW v
    PROVE  /\ FpsShape([f EXCEPT !.mode = v])
           /\ FpsShape([f EXCEPT !.latest = v])
           /\ FpsShape([f EXCEPT !.hold = v])
           /\ v \in Targets => FpsShape([f EXCEPT !.always = v])
           /\ v \in Targets => FpsShape([f EXCEPT !.ingame = v])
<1>1. FpsShape([f EXCEPT !.mode = v])
  BY DEF FpsShape
<1>2. FpsShape([f EXCEPT !.latest = v])
  BY DEF FpsShape
<1>3. FpsShape([f EXCEPT !.hold = v])
  BY DEF FpsShape
<1>4. v \in Targets => FpsShape([f EXCEPT !.always = v])
  BY DEF FpsShape
<1>5. v \in Targets => FpsShape([f EXCEPT !.ingame = v])
  BY DEF FpsShape
<1> QED BY <1>1, <1>2, <1>3, <1>4, <1>5

LEMMA ShownShape ==
    ASSUME NEW f, FpsShape(f), NEW v, NEW w
    PROVE  /\ FpsShape([f EXCEPT !.latest = v, !.hold = w])
           /\ FpsShape([f EXCEPT !.hold = w, !.latest = v])
<1> DEFINE t == [f EXCEPT !.latest = v]
           u == [f EXCEPT !.hold = w]
<1>1. FpsShape(t) /\ FpsShape(u)
  BY FpsMembers
<1>2. /\ [f EXCEPT !.latest = v, !.hold = w] = [t EXCEPT !.hold = w]
      /\ [f EXCEPT !.hold = w, !.latest = v] = [u EXCEPT !.latest = v]
  OBVIOUS
<1> HIDE DEF t, u
<1>3. FpsShape([t EXCEPT !.hold = w]) /\ FpsShape([u EXCEPT !.latest = v])
  BY <1>1, FpsMembers
<1> QED BY <1>2, <1>3

LEMMA InvalidateShape ==
    ASSUME NEW f, FpsShape(f)
    PROVE  FpsShape(Invalidate(f))
BY ShownShape DEF Invalidate

LEMMA RetargetShape ==
    ASSUME NEW f, FpsShape(f), NEW p \in Targets
    PROVE  /\ FpsShape([f EXCEPT !.always = p]) /\ FpsShape([Invalidate(f) EXCEPT !.always = p])
           /\ FpsShape([f EXCEPT !.ingame = p]) /\ FpsShape([Invalidate(f) EXCEPT !.ingame = p])
<1> DEFINE g == Invalidate(f)
<1>1. FpsShape(g)
  BY InvalidateShape
<1> HIDE DEF g
<1>2. FpsShape([g EXCEPT !.always = p]) /\ FpsShape([g EXCEPT !.ingame = p])
  BY <1>1, FpsMembers
<1>3. FpsShape([f EXCEPT !.always = p]) /\ FpsShape([f EXCEPT !.ingame = p])
  BY FpsMembers
<1> QED BY <1>2, <1>3 DEF g

LEMMA ResolvedIsTarget ==
    ASSUME NEW f, FpsShape(f)
    PROVE  ResolveTarget(f) \in Targets
BY DEF FpsShape, ResolveTarget

LEMMA SampleIsSound ==
    ASSUME NEW f, FpsShape(f), NEW s, NEW h, Sound(s, h), NEW r \in SampleFps(f, s)
    PROVE  /\ FpsShape(r.fps)
           /\ Sound(r.session, [h EXCEPT !["query"] = r.session.query])
<1> DEFINE p == ResolveTarget(f)
<1>1. p \in Targets
  BY ResolvedIsTarget
<1>2. CASE p = NoPid
  <2>1. r.fps = Invalidate(f) /\ r.session = ReleaseQuery(s)
    BY <1>2 DEF SampleFps
  <2> QED BY <2>1, InvalidateShape, ReleaseQueryIsSound
<1>3. CASE p # NoPid
  <2> HIDE DEF p
  <2>1. PICK q \in ReadProcess(s, p, OwnersOf(p)) :
           r = LET h1 == Observe(f.hold, p, AcceptSample(f, p, q.fps))
               IN  [fps |-> [f EXCEPT !.hold = h1, !.latest = Shown(h1)],
                    session |-> q.session]
    BY <1>3 DEF SampleFps, p
  <2>2. Sound(q.session, [h EXCEPT !["query"] = q.session.query])
    BY <1>1, ReadIsSound
  <2>3. \A h1 : FpsShape([f EXCEPT !.hold = h1, !.latest = Shown(h1)])
    BY ShownShape
  <2> QED BY <2>1, <2>2, <2>3
<1> QED BY <1>2, <1>3

-----------------------------------------------------------------------------
(* The inductive invariant.                                                *)

VerifierShape ==
    /\ verifier = [pid |-> verifier.pid, found |-> verifier.found,
                   armedFor |-> verifier.armedFor]
    /\ verifier.pid \in Targets
    /\ verifier.found # NoInstance => verifier.pid # NoPid

ActivityShape ==
    /\ activity = [watched |-> activity.watched, leased |-> activity.leased]
    /\ activity.watched \in Targets /\ activity.leased \in Targets

IInv ==
    /\ Sound(session, Held)
    /\ ~shown => session.query = NoPid
    /\ FpsShape(fps)
    /\ VerifierShape
    /\ ActivityShape


\* The users after a step, from what changed.
LEMMA HeldMembers ==
    /\ Held["query"] = session.query
    /\ Held["verifier"] = verifier.pid
    /\ Held["activity"] = activity.leased
BY DEF Held, Users

LEMMA HeldAfter ==
    /\ verifier'.pid = verifier.pid /\ activity'.leased = activity.leased
          => Held' = [Held EXCEPT !["query"] = session'.query]
    /\ session'.query = session.query /\ activity'.leased = activity.leased
          => Held' = [Held EXCEPT !["verifier"] = verifier'.pid]
    /\ session'.query = session.query /\ verifier'.pid = verifier.pid
          => Held' = [Held EXCEPT !["activity"] = activity'.leased]
BY DEF Held, Users

LEMMA HeldTheSame ==
    ASSUME session'.query = session.query, verifier'.pid = verifier.pid,
           activity'.leased = activity.leased
    PROVE  Held' = Held
BY DEF Held, Users

\* A step of the UI thread.
LEMMA UiStep ==
    ASSUME IInv, UNCHANGED workers,
           \/ session' = session
           \/ session' = ReleaseQuery(session)
           \/ \E r \in SampleFps(fps, session) : session' = r.session
    PROVE  /\ Sound(session, Held)' /\ VerifierShape' /\ ActivityShape'
           /\ session' = ReleaseQuery(session) => session'.query = NoPid
<1>1. VerifierShape' /\ ActivityShape'
  BY DEF IInv, VerifierShape, ActivityShape, workers
<1>2. Held' = [Held EXCEPT !["query"] = session'.query]
  BY HeldAfter DEF workers
<1>3. CASE session' = session
  <2>1. Held' = Held
    BY <1>3, HeldTheSame DEF workers
  <2>2. Sound(session', Held')
    BY <1>3, <2>1 DEF IInv
  <2>3. session' = ReleaseQuery(session) => session'.query = NoPid
    BY ReleaseQueryIsSound DEF IInv
  <2> QED BY <1>1, <2>2, <2>3
<1>4. CASE session' = ReleaseQuery(session)
  <2>1. Sound(session', [Held EXCEPT !["query"] = NoPid]) /\ session'.query = NoPid
    BY <1>4, ReleaseQueryIsSound DEF IInv
  <2> QED BY <1>1, <1>2, <2>1
<1>5. CASE \E r \in SampleFps(fps, session) : session' = r.session
  <2>1. Sound(session', [Held EXCEPT !["query"] = session'.query])
    BY <1>5, SampleIsSound DEF IInv
  <2>2. session' = ReleaseQuery(session) => session'.query = NoPid
    BY ReleaseQueryIsSound DEF IInv
  <2> QED BY <1>1, <1>2, <2>1, <2>2
<1> QED BY <1>3, <1>4, <1>5

\* A step that leaves the tracking and its users alone.
LEMMA QuietStep ==
    ASSUME IInv, Alike(session, session'), shown' = shown, fps' = fps,
           verifier'.pid = verifier.pid, activity'.leased = activity.leased,
           VerifierShape', ActivityShape'
    PROVE  IInv'
<1>1. Held' = Held
  BY HeldTheSame DEF Alike
<1>2. Sound(session', Held')
  BY <1>1, AlikeIsSound DEF IInv
<1>3. ~shown' => session'.query = NoPid
  BY DEF IInv, Alike
<1>4. FpsShape(fps)'
  BY DEF IInv
<1> QED BY <1>2, <1>3, <1>4 DEF IInv

-----------------------------------------------------------------------------
(* The steps of the UI thread.                                             *)

LEMMA PidsAreTargets ==
    /\ \A p \in Pids : p \in Targets
    /\ \A i \in Instances : PidOf[i] \in Targets
BY PidAssumption DEF Targets

LEMMA ForegroundStep ==
    ASSUME IInv, NEW p \in Targets, OnForegroundProcessChanged(p)
    PROVE  IInv'
<1>1. UNCHANGED workers /\ session' = session /\ shown' = shown /\ SetForegroundProcess(p)
  BY DEF OnForegroundProcessChanged
<1>2. FpsShape(fps)
  BY DEF IInv
<1>3. \/ fps' = fps
      \/ fps' = [fps EXCEPT !.always = p]
      \/ fps' = [Invalidate(fps) EXCEPT !.always = p]
  BY <1>1 DEF SetForegroundProcess
<1>4. FpsShape(fps')
  <2>1. /\ FpsShape([fps EXCEPT !.always = p])
        /\ FpsShape([Invalidate(fps) EXCEPT !.always = p])
    BY <1>2, RetargetShape
  <2>2. CASE fps' = fps
    BY <1>2, <2>2
  <2>3. CASE fps' = [fps EXCEPT !.always = p]
    BY <2>1, <2>3
  <2>4. CASE fps' = [Invalidate(fps) EXCEPT !.always = p]
    BY <2>1, <2>4
  <2> QED BY <1>3, <2>2, <2>3, <2>4
<1>5. Sound(session, Held)' /\ VerifierShape' /\ ActivityShape'
  BY <1>1, UiStep
<1>6. ~shown' => session'.query = NoPid
  BY <1>1 DEF IInv
<1> QED BY <1>4, <1>5, <1>6 DEF IInv

LEMMA InGameStep ==
    ASSUME IInv,
           ClearInGameForegroundProcess
             \/ \E i \in Instances : SetInGameForegroundProcess(i)
    PROVE  IInv'
<1>1. /\ UNCHANGED workers /\ shown' = shown
      /\ session' = session \/ session' = ReleaseQuery(session)
  BY DEF ClearInGameForegroundProcess, SetInGameForegroundProcess
<1>2. \E q \in Targets : \/ fps' = [fps EXCEPT !.ingame = q]
                         \/ fps' = [Invalidate(fps) EXCEPT !.ingame = q]
  BY PidsAreTargets, NoPidIsTarget
     DEF ClearInGameForegroundProcess, SetInGameForegroundProcess
<1>3. FpsShape(fps)
  BY DEF IInv
<1>4. FpsShape(fps')
  <2>1. PICK q \in Targets : \/ fps' = [fps EXCEPT !.ingame = q]
                             \/ fps' = [Invalidate(fps) EXCEPT !.ingame = q]
    BY <1>2
  <2>2. /\ FpsShape([fps EXCEPT !.ingame = q])
        /\ FpsShape([Invalidate(fps) EXCEPT !.ingame = q])
    BY <1>3, RetargetShape
  <2>3. CASE fps' = [fps EXCEPT !.ingame = q]
    BY <2>2, <2>3
  <2>4. CASE fps' = [Invalidate(fps) EXCEPT !.ingame = q]
    BY <2>2, <2>4
  <2> QED BY <2>1, <2>3, <2>4
<1>5. /\ Sound(session, Held)' /\ VerifierShape' /\ ActivityShape'
      /\ session' = ReleaseQuery(session) => session'.query = NoPid
  BY <1>1, UiStep
<1>6. ~shown' => session'.query = NoPid
  BY <1>1, <1>5 DEF IInv
<1> QED BY <1>4, <1>5, <1>6 DEF IInv

LEMMA ModeStep ==
    ASSUME IInv, NEW m \in FpsModes, NEW p \in Targets, SetVisibilityMode(m, p)
    PROVE  IInv'
<1>1. UNCHANGED workers /\ shown' = shown /\ session' = ReleaseQuery(session)
  BY DEF SetVisibilityMode
<1>2. fps' = [Invalidate(fps) EXCEPT !.mode = m, !.always = p]
  BY DEF SetVisibilityMode
<1>3. FpsShape(fps')
  <2> DEFINE f == Invalidate(fps)
             g == [f EXCEPT !.mode = m]
  <2>1. FpsShape(f)
    BY InvalidateShape DEF IInv
  <2>2. fps' = [g EXCEPT !.always = p]
    BY <1>2
  <2> HIDE DEF f
  <2>3. FpsShape(g)
    BY <2>1, FpsMembers
  <2> HIDE DEF g
  <2> QED BY <2>2, <2>3, FpsMembers
<1>4. /\ Sound(session, Held)' /\ VerifierShape' /\ ActivityShape'
      /\ session'.query = NoPid
  BY <1>1, UiStep
<1> QED BY <1>3, <1>4 DEF IInv

LEMMA ReconcileStep ==
    ASSUME IInv, ReconcileShow \/ ReconcileHide \/ ReconcileNothing
    PROVE  IInv'
<1>1. CASE ReconcileShow
  <2>1. UNCHANGED workers /\ shown' = TRUE
    BY <1>1 DEF ReconcileShow
  <2>2. \/ fps' = fps /\ session' = session
        \/ \E r \in SampleFps(fps, session) : fps' = r.fps /\ session' = r.session
    BY <1>1 DEF ReconcileShow
  <2>3. FpsShape(fps')
    BY <2>2, SampleIsSound DEF IInv
  <2>4. Sound(session, Held)' /\ VerifierShape' /\ ActivityShape'
    BY <2>1, <2>2, UiStep
  <2> QED BY <2>1, <2>3, <2>4 DEF IInv
<1>2. CASE ReconcileHide
  <2>1. UNCHANGED workers /\ fps' = Invalidate(fps) /\ session' = ReleaseQuery(session)
    BY <1>2 DEF ReconcileHide
  <2>2. FpsShape(fps')
    BY <2>1, InvalidateShape DEF IInv
  <2>3. /\ Sound(session, Held)' /\ VerifierShape' /\ ActivityShape'
        /\ session'.query = NoPid
    BY <2>1, UiStep
  <2> QED BY <2>2, <2>3 DEF IInv
<1>3. CASE ReconcileNothing
  <2>1. /\ UNCHANGED workers /\ session' = session /\ fps' = fps /\ shown' = shown
    BY <1>3 DEF ReconcileNothing
  <2>2. Sound(session, Held)' /\ VerifierShape' /\ ActivityShape'
    BY <2>1, UiStep
  <2> QED BY <2>1, <2>2 DEF IInv
<1> QED BY <1>1, <1>2, <1>3

LEMMA TimerStep ==
    ASSUME IInv, FpsTimer
    PROVE  IInv'
<1>1. UNCHANGED workers /\ shown /\ shown' = shown
  BY DEF FpsTimer
<1>2. \E r \in SampleFps(fps, session) : fps' = r.fps /\ session' = r.session
  BY DEF FpsTimer
<1>3. FpsShape(fps')
  BY <1>2, SampleIsSound DEF IInv
<1>4. Sound(session, Held)' /\ VerifierShape' /\ ActivityShape'
  BY <1>1, <1>2, UiStep
<1> QED BY <1>1, <1>3, <1>4 DEF IInv

-----------------------------------------------------------------------------
(* The steps of the verifier.                                              *)

LEMMA StoppedIsSound ==
    ASSUME IInv
    PROVE  /\ Sound(StoppedVerifier, [Held EXCEPT !["verifier"] = NoPid])
           /\ StoppedVerifier.query = session.query
<1>1. Sound(session, Held) /\ "verifier" \in {"verifier", "activity"}
  BY DEF IInv
<1> DEFINE t == IF Held["verifier"] = NoPid THEN session
                  ELSE ReleaseProcess(session, Held["verifier"])
<1>2. /\ Sound(t, [Held EXCEPT !["verifier"] = NoPid])
      /\ t.query = session.query
  BY <1>1, GivenBackIsSound
<1>3. t = StoppedVerifier
  BY HeldMembers DEF StoppedVerifier
<1> QED BY <1>2, <1>3

LEMMA NoVerificationShape ==
    /\ NoVerification.pid = NoPid /\ NoVerification.found = NoInstance
    /\ NoVerification = [pid |-> NoVerification.pid, found |-> NoVerification.found,
                         armedFor |-> NoVerification.armedFor]
BY DEF NoVerification

\* A step that ends in a sound session with the same query, whatever the
\* verifier now holds.
LEMMA VerifierStep ==
    ASSUME IInv, shown' = shown, fps' = fps, activity' = activity,
           session'.query = session.query, VerifierShape',
           Sound(session', [Held EXCEPT !["verifier"] = verifier'.pid])
    PROVE  IInv'
<1>1. Held' = [Held EXCEPT !["verifier"] = verifier'.pid]
  BY HeldAfter
<1>2. ActivityShape' /\ FpsShape(fps)'
  BY DEF IInv, ActivityShape
<1>3. ~shown' => session'.query = NoPid
  BY DEF IInv
<1> QED BY <1>1, <1>2, <1>3 DEF IInv

LEMMA VerifierStarts ==
    ASSUME IInv, NEW p \in Pids, VerifierStart(p)
    PROVE  IInv'
<1> DEFINE h == [Held EXCEPT !["verifier"] = NoPid]
           s == StoppedVerifier
<1>1. PICK r \in BeginGameRenderVerification(s, p) :
         /\ session' = r.session
         /\ verifier' = IF r.ok THEN [NoVerification EXCEPT !.pid = p,
                                                            !.armedFor = OwnersOf(p)]
                                ELSE NoVerification
  BY DEF VerifierStart
<1>2. shown' = shown /\ fps' = fps /\ activity' = activity
  BY DEF VerifierStart
<1>3. Sound(s, h) /\ s.query = session.query
  BY StoppedIsSound
<1>4. Held \in [Users -> Targets] /\ "verifier" \in Users
  BY DEF IInv, Sound, Counted, Users
<1>5. h["verifier"] = NoPid /\ [h EXCEPT !["verifier"] = p] = [Held EXCEPT !["verifier"] = p]
  BY <1>4
<1> HIDE DEF h, s
<1>6. Leased(s, h, "verifier", p, r)
  BY <1>3, <1>5, BeginIsSound
<1>7. session'.query = session.query
  BY <1>1, <1>3, <1>6 DEF Leased
<1>8. CASE r.ok
  <2>1. verifier' = [NoVerification EXCEPT !.pid = p, !.armedFor = OwnersOf(p)]
    BY <1>1, <1>8
  <2>2. verifier' = [pid |-> p, found |-> NoInstance, armedFor |-> OwnersOf(p)]
    BY <2>1 DEF NoVerification
  <2>3. verifier'.pid = p /\ VerifierShape'
    BY <2>2, PidsAreTargets DEF VerifierShape
  <2>4. Sound(session', [Held EXCEPT !["verifier"] = verifier'.pid])
    BY <1>1, <1>5, <1>6, <1>8, <2>3 DEF Leased
  <2> QED BY <1>2, <1>7, <2>3, <2>4, VerifierStep
<1>9. CASE ~r.ok
  <2>1. verifier' = NoVerification
    BY <1>1, <1>9
  <2>2. verifier'.pid = NoPid /\ VerifierShape'
    BY <2>1, NoVerificationShape, NoPidIsTarget DEF VerifierShape
  <2>3. Sound(session', [Held EXCEPT !["verifier"] = verifier'.pid])
    BY <1>1, <1>6, <1>9, <2>2 DEF Leased, h
  <2> QED BY <1>2, <1>7, <2>2, <2>3, VerifierStep
<1> QED BY <1>8, <1>9

LEMMA VerifierEnds ==
    ASSUME IInv, VerifierStop \/ VerifierWorkerEnds
    PROVE  IInv'
<1>1. verifier.pid # NoPid
  BY DEF VerifierStop, VerifierWorkerEnds, IInv, VerifierShape
<1>2. session' = StoppedVerifier
  BY <1>1 DEF VerifierStop, VerifierWorkerEnds, StoppedVerifier
<1>3. /\ verifier' = NoVerification
      /\ shown' = shown /\ fps' = fps /\ activity' = activity
  BY DEF VerifierStop, VerifierWorkerEnds
<1>4. verifier'.pid = NoPid /\ VerifierShape'
  BY <1>3, NoVerificationShape, NoPidIsTarget DEF VerifierShape
<1>5. /\ Sound(session', [Held EXCEPT !["verifier"] = verifier'.pid])
      /\ session'.query = session.query
  BY <1>2, <1>4, StoppedIsSound
<1> QED BY <1>3, <1>4, <1>5, VerifierStep

LEMMA VerifierPolls ==
    ASSUME IInv, VerifierPoll
    PROVE  IInv'
<1>1. PICK s \in PollDisplayedFrame(session, verifier.pid) :
         session' = s /\ verifier' = [verifier EXCEPT !.found = s.seen]
  BY DEF VerifierPoll
<1>2. /\ verifier.pid # NoPid
      /\ shown' = shown /\ fps' = fps /\ activity' = activity
  BY DEF VerifierPoll
<1>3. Alike(session, session')
  BY <1>1, LookingIsAlike DEF IInv, Sound
<1>4. verifier'.pid = verifier.pid /\ VerifierShape'
  BY <1>1, <1>2 DEF IInv, VerifierShape
<1>5. ActivityShape'
  BY <1>2 DEF IInv, ActivityShape
<1> QED BY <1>2, <1>3, <1>4, <1>5, QuietStep

-----------------------------------------------------------------------------
(* The steps of the present-activity source.                               *)

LEMMA SameIsAlike ==
    ASSUME IInv, session' = session
    PROVE  Alike(session, session')
BY DEF IInv, Sound, Alike, Same

LEMMA WatchStep ==
    ASSUME IInv, NEW p \in Targets, Watch(p)
    PROVE  IInv'
<1>1. /\ activity' = [activity EXCEPT !.watched = p]
      /\ shown' = shown /\ fps' = fps /\ verifier' = verifier /\ session' = session
  BY DEF Watch
<1>2. activity'.leased = activity.leased /\ ActivityShape'
  BY <1>1 DEF IInv, ActivityShape
<1>3. VerifierShape'
  BY <1>1 DEF IInv, VerifierShape
<1> QED BY <1>1, <1>2, <1>3, SameIsAlike, QuietStep

LEMMA LeaseStep ==
    ASSUME IInv, PollLease
    PROVE  IInv'
<1> DEFINE free == IF activity.leased = NoPid THEN session
                     ELSE ReleaseProcess(session, activity.leased)
           h == [Held EXCEPT !["activity"] = NoPid]
           p == activity.watched
<1>1. PICK r \in IF p = NoPid THEN {NotDone(free)} ELSE AcquireProcess(free, p) :
         /\ session' = r.session
         /\ activity' = [activity EXCEPT !.leased = IF r.ok THEN p ELSE NoPid]
  BY DEF PollLease
<1>2. shown' = shown /\ fps' = fps /\ verifier' = verifier
  BY DEF PollLease
<1>3. Sound(free, h) /\ free.query = session.query
  <2>1. Sound(session, Held) /\ "activity" \in {"verifier", "activity"}
    BY DEF IInv
  <2> DEFINE t == IF Held["activity"] = NoPid THEN session
                    ELSE ReleaseProcess(session, Held["activity"])
  <2>2. Sound(t, h) /\ t.query = session.query
    BY <2>1, GivenBackIsSound
  <2>3. t = free
    BY HeldMembers
  <2> QED BY <2>2, <2>3
<1>4. Held \in [Users -> Targets] /\ "activity" \in Users
  BY DEF IInv, Sound, Counted, Users
<1>5. /\ h["activity"] = NoPid
      /\ [h EXCEPT !["activity"] = p] = [Held EXCEPT !["activity"] = p]
  BY <1>4
<1>6. p \in Targets
  BY DEF IInv, ActivityShape
<1> HIDE DEF h, free
<1>7. Leased(free, h, "activity", p, r)
  <2>1. CASE p = NoPid
    <3>1. r = NotDone(free)
      BY <1>1, <2>1
    <3> QED BY <1>3, <3>1 DEF NotDone, Leased
  <2>2. CASE p # NoPid
    <3>1. p \in Pids /\ r \in AcquireProcess(free, p)
      BY <1>1, <1>6, <2>2 DEF Targets
    <3> QED BY <1>3, <1>5, <3>1, AcquireIsSound
  <2> QED BY <2>1, <2>2
<1> HIDE DEF p
<1>8. /\ activity'.leased = IF r.ok THEN p ELSE NoPid
      /\ ActivityShape'
  BY <1>1, <1>6, NoPidIsTarget DEF IInv, ActivityShape
<1>9. Sound(session', [Held EXCEPT !["activity"] = activity'.leased])
  <2>1. CASE r.ok
    BY <1>1, <1>5, <1>7, <1>8, <2>1 DEF Leased
  <2>2. CASE ~r.ok
    BY <1>1, <1>7, <1>8, <2>2 DEF Leased, h
  <2> QED BY <2>1, <2>2
<1>10. session'.query = session.query
  BY <1>1, <1>3, <1>7 DEF Leased
<1>11. Held' = [Held EXCEPT !["activity"] = activity'.leased]
  BY <1>2, <1>10, HeldAfter
<1>12. VerifierShape' /\ FpsShape(fps)' /\ (~shown' => session'.query = NoPid)
  BY <1>2, <1>10 DEF IInv, VerifierShape
<1> QED BY <1>8, <1>9, <1>11, <1>12 DEF IInv

LEMMA ReadStep ==
    ASSUME IInv, PollRead
    PROVE  IInv'
<1>1. /\ session' \in ReadDebugFrameActivity(session, activity.leased)
      /\ shown' = shown /\ fps' = fps /\ verifier' = verifier /\ activity' = activity
  BY DEF PollRead, workers
<1>2. Alike(session, session')
  BY <1>1, LookingIsAlike DEF IInv, Sound
<1>3. VerifierShape' /\ ActivityShape'
  BY <1>1 DEF IInv, VerifierShape, ActivityShape
<1> QED BY <1>1, <1>2, <1>3, QuietStep

-----------------------------------------------------------------------------
(* The steps of the world.                                                 *)

LEMMA WorldStep ==
    ASSUME IInv, NEW i \in Instances, ProcessStarts(i) \/ Exit(i) \/ Display(i)
    PROVE  IInv'
<1>1. shown' = shown /\ fps' = fps /\ activity' = activity
  BY DEF ProcessStarts, Exit, Display, workers
<1>2. Shape(session)
  BY DEF IInv, Sound
<1>3. \/ session' = session
      \/ session' = [session EXCEPT !.sources = @ \cup {i}]
      \/ session' = [session EXCEPT !.queued[PidOf[i]] = @ \cup {i}]
  BY DEF ProcessStarts, Exit, Display
<1>4. Alike(session, session')
  <2>1. CASE session' = session
    BY <2>1, SameIsAlike
  <2>2. CASE session' = [session EXCEPT !.sources = @ \cup {i}]
    BY <1>2, <2>2 DEF Alike, Same, Shape
  <2>3. CASE session' = [session EXCEPT !.queued[PidOf[i]] = @ \cup {i}]
    BY <1>2, <2>3 DEF Alike, Same, Shape
  <2> QED BY <1>3, <2>1, <2>2, <2>3
<1>5. \/ verifier' = verifier
      \/ verifier' = [verifier EXCEPT !.armedFor = @ \cup {i}]
  BY DEF ProcessStarts, Exit, Display, workers
<1>6. verifier'.pid = verifier.pid /\ VerifierShape'
  BY <1>5 DEF IInv, VerifierShape
<1>7. ActivityShape'
  BY <1>1 DEF IInv, ActivityShape
<1> QED BY <1>1, <1>4, <1>6, <1>7, QuietStep

LEMMA TickStep ==
    ASSUME IInv, Tick
    PROVE  IInv'
<1>1. /\ UNCHANGED workers /\ session' = session /\ shown' = shown
      /\ fps' = [fps EXCEPT !.hold.age = Older(@), !.hold.tick = Older(@)]
  BY DEF Tick
<1>2. \E v : fps' = [fps EXCEPT !.hold = v]
  <2>1. FpsShape(fps)
    BY DEF IInv
  <2>2. fps' = [fps EXCEPT !.hold = [[fps.hold EXCEPT !.age = Older(@)]
                                        EXCEPT !.tick = Older(fps.hold.tick)]]
    BY <1>1, <2>1 DEF FpsShape
  <2> QED BY <2>2
<1>3. FpsShape(fps')
  <2>1. PICK v : fps' = [fps EXCEPT !.hold = v]
    BY <1>2
  <2>2. FpsShape([fps EXCEPT !.hold = v])
    BY FpsMembers DEF IInv
  <2> QED BY <2>1, <2>2
<1>4. Sound(session, Held)' /\ VerifierShape' /\ ActivityShape'
  BY <1>1, UiStep
<1> QED BY <1>1, <1>3, <1>4 DEF IInv

-----------------------------------------------------------------------------
Opened(opened, process, frame) ==
    [Closed EXCEPT !.ready = opened, !.processReady = process, !.frameReady = frame]

LEMMA IInvInit == FpsInit => IInv
<1> SUFFICES ASSUME FpsInit
             PROVE  IInv
  OBVIOUS
<1>1. /\ verifier = NoVerification /\ ~shown
      /\ activity = [watched |-> NoPid, leased |-> NoPid]
  BY DEF FpsInit
<1>2. VerifierShape /\ ActivityShape
  BY <1>1, NoVerificationShape, NoPidIsTarget DEF VerifierShape, ActivityShape
<1>3. PICK m \in FpsModes : fps = [mode |-> m, always |-> NoPid, ingame |-> NoPid,
                                latest |-> Unused, hold |-> NoHold]
  BY DEF FpsInit
<1>4. FpsShape(fps)
  BY <1>3, NoPidIsTarget DEF FpsShape
<1>5. PICK opened, ready, frame :
         session = [Closed EXCEPT !.ready = opened, !.processReady = ready,
                                  !.frameReady = frame]
  <2>1. session \in Initialized
    BY DEF FpsInit
  <2>2. Initialized = UNION {{Opened(opened, process, frame) :
                                 process \in ProcessTelemetryReady(opened),
                                 frame \in FrameTelemetryReady(opened)} :
                                opened \in ClientOpens}
    BY DEF Initialized, Opened
  <2>3. \E opened, process, frame : session = Opened(opened, process, frame)
    BY <2>1, <2>2
  <2> QED BY <2>3 DEF Opened
<1>6. session = [ready |-> opened, processReady |-> ready, frameReady |-> frame,
                 refs |-> [p \in Pids |-> 0], query |-> NoPid, sources |-> {},
                 armed |-> NoPid, seen |-> NoInstance, tracked |-> {},
                 queued |-> [p \in Pids |-> {}]]
  BY <1>5 DEF Closed
<1>7. /\ Shape(session) /\ session.query = NoPid
      /\ session.refs = [p \in Pids |-> 0] /\ session.tracked = {}
  BY <1>6 DEF Shape
<1>8. \A k \in Users : Held[k] = NoPid
  BY <1>1, <1>7, NoVerificationShape DEF Held, Users
<1>9. Held \in [Users -> Targets]
  <2>1. Held = [k \in Users |-> Held[k]]
    BY DEF Held
  <2> QED BY <1>8, <2>1, NoPidIsTarget
<1>10. \A p \in Pids : Using(Held, p) = {}
  BY <1>8, NoPidIsTarget DEF Using
<1>11. Counted(session, Held)
  BY <1>7, <1>9, <1>10, FS_EmptySet DEF Counted
<1>12. Sound(session, Held)
  BY <1>7, <1>8, <1>11, HeldMembers DEF Sound
<1> QED BY <1>2, <1>4, <1>7, <1>12 DEF IInv

LEMMA IInvStep == IInv /\ [FpsNext]_fpsVars => IInv'
<1> SUFFICES ASSUME IInv, [FpsNext]_fpsVars
             PROVE  IInv'
  OBVIOUS
<1>1. CASE \E p \in Targets : OnForegroundProcessChanged(p)
  BY <1>1, ForegroundStep
<1>2. CASE ClearInGameForegroundProcess
             \/ \E i \in Instances : SetInGameForegroundProcess(i)
  BY <1>2, InGameStep
<1>3. CASE \E m \in FpsModes, p \in Targets : SetVisibilityMode(m, p)
  BY <1>3, ModeStep
<1>4. CASE ReconcileShow \/ ReconcileHide \/ ReconcileNothing
  BY <1>4, ReconcileStep
<1>5. CASE FpsTimer
  BY <1>5, TimerStep
<1>6. CASE \E p \in Pids : VerifierStart(p)
  BY <1>6, VerifierStarts
<1>7. CASE VerifierStop \/ VerifierWorkerEnds
  BY <1>7, VerifierEnds
<1>8. CASE VerifierPoll
  BY <1>8, VerifierPolls
<1>9. CASE \E p \in Targets : Watch(p)
  BY <1>9, WatchStep
<1>10. CASE PollLease
  BY <1>10, LeaseStep
<1>11. CASE PollRead
  BY <1>11, ReadStep
<1>12. CASE \E i \in Instances : ProcessStarts(i) \/ Exit(i) \/ Display(i)
  BY <1>12, WorldStep
<1>13. CASE Tick
  BY <1>13, TickStep
<1>14. CASE UNCHANGED fpsVars
  <2>1. /\ session' = session /\ fps' = fps /\ shown' = shown
        /\ verifier' = verifier /\ activity' = activity
    BY <1>14 DEF fpsVars
  <2>2. VerifierShape' /\ ActivityShape'
    BY <2>1 DEF IInv, VerifierShape, ActivityShape
  <2> QED BY <2>1, <2>2, SameIsAlike, QuietStep
<1> QED BY <1>1, <1>2, <1>3, <1>4, <1>5, <1>6, <1>7, <1>8, <1>9, <1>10, <1>11,
           <1>12, <1>13, <1>14 DEF FpsNext

LEMMA IInvImplies == IInv => TrackingMatchesHolders
<1> SUFFICES ASSUME IInv
             PROVE  TrackingMatchesHolders
  OBVIOUS
<1>1. ASSUME NEW p PROVE Holders(p) = Using(Held, p)
  BY HeldMembers DEF Holders, Using, Users
<1>2. Counted(session, Held) /\ (~shown => session.query = NoPid)
  BY DEF IInv, Sound
<1>3. \A p \in Pids : session.refs[p] = Cardinality(Holders(p))
  BY <1>1, <1>2 DEF Counted
<1>4. session.tracked = {p \in Pids : Holders(p) # {}}
  BY <1>1, <1>2 DEF Counted
<1> QED BY <1>2, <1>3, <1>4 DEF TrackingMatchesHolders

\* Three users of the PresentMon session - the FPS query of the UI thread, the
\* lease of the render verifier and that of the present-activity source - take
\* and give back processes in any order, targets change, services refuse and
\* processes die: a process is tracked exactly as long as one of them holds it,
\* its count is the number of its holders, and a hidden HUD holds no query
\* (ProcessTrackingRefCounts, PresentMonProcessTelemetry::ReleaseTarget).
THEOREM TrackingIsExact == FpsSpec => []TrackingMatchesHolders
<1>1. FpsInit => IInv
  BY IInvInit
<1>2. IInv /\ [FpsNext]_fpsVars => IInv'
  BY IInvStep
<1>3. IInv => TrackingMatchesHolders
  BY IInvImplies
<1> QED BY <1>1, <1>2, <1>3, PTL DEF FpsSpec

-----------------------------------------------------------------------------
(* Whose numbers: what the operations on the session leave of its frames.  *)

\* A session whose frames and values are of process instances.
Framed(s) ==
    /\ Shape(s)
    /\ s.ready \in BOOLEAN /\ s.processReady \in BOOLEAN /\ s.frameReady \in BOOLEAN
    /\ s.sources \in SUBSET Instances
    /\ s.armed \in Targets /\ s.seen \in Measured
    /\ s.queued \in [Pids -> SUBSET Instances]

\* t has the verification of s, with no frame that s did not have.
Beside(s, t) ==
    /\ Framed(t)
    /\ t.armed = s.armed /\ t.seen = s.seen
    /\ \A p \in Pids : t.queued[p] \subseteq s.queued[p]

\* ... and its query.
Keeps(s, t) == Beside(s, t) /\ t.query = s.query /\ t.sources = s.sources

LEMMA KeepsSelf ==
    ASSUME NEW s, Framed(s)
    PROVE  Keeps(s, s)
BY DEF Keeps, Beside

LEMMA BesideTwice ==
    ASSUME NEW s, NEW t, NEW u, Beside(s, t), Beside(t, u)
    PROVE  Beside(s, u)
BY DEF Beside

\* The members that tracking writes.
LEMMA FramedMembers ==
    ASSUME NEW s, Framed(s), NEW v, NEW p
    PROVE  /\ Keeps(s, [s EXCEPT !.refs = v])
           /\ Keeps(s, [s EXCEPT !.tracked = v])
           /\ Keeps(s, [s EXCEPT !.queued[p] = {}])
           /\ Beside(s, [s EXCEPT !.query = v])
           /\ v \in SUBSET Instances => Beside(s, [s EXCEPT !.sources = v])
<1>1. Keeps(s, [s EXCEPT !.refs = v])
  BY DEF Framed, Keeps, Beside, Shape
<1>2. Keeps(s, [s EXCEPT !.tracked = v])
  BY DEF Framed, Keeps, Beside, Shape
<1>3. Keeps(s, [s EXCEPT !.queued[p] = {}])
  <2> DEFINE q == [s.queued EXCEPT ![p] = {}]
             t == [s EXCEPT !.queued[p] = {}]
  <2>1. /\ Shape(t) /\ t.queued = q
        /\ t.ready = s.ready /\ t.processReady = s.processReady
        /\ t.frameReady = s.frameReady /\ t.sources = s.sources
        /\ t.armed = s.armed /\ t.seen = s.seen /\ t.query = s.query
    BY DEF Framed, Shape
  <2>2. q \in [Pids -> SUBSET Instances] /\ \A k \in Pids : q[k] \subseteq s.queued[k]
    BY DEF Framed
  <2> HIDE DEF q, t
  <2>3. Framed(t)
    BY <2>1, <2>2 DEF Framed
  <2>4. Keeps(s, t)
    BY <2>1, <2>2, <2>3 DEF Keeps, Beside
  <2> QED BY <2>4 DEF t
<1>4. Beside(s, [s EXCEPT !.query = v])
  BY DEF Framed, Beside, Shape
<1>5. v \in SUBSET Instances => Beside(s, [s EXCEPT !.sources = v])
  BY DEF Framed, Beside, Shape
<1> QED BY <1>1, <1>2, <1>3, <1>4, <1>5

LEMMA KeepsTwice ==
    ASSUME NEW s, NEW t, NEW u, Keeps(s, t), Keeps(t, u)
    PROVE  Keeps(s, u)
BY BesideTwice DEF Keeps

LEMMA StartKeeps ==
    ASSUME NEW s, Framed(s), NEW p, NEW r \in StartTracking(s, p)
    PROVE  Keeps(s, r.session)
<1>1. CASE r = NotDone(s)
  BY <1>1, KeepsSelf DEF NotDone
<1>2. CASE r = Done([s EXCEPT !.refs[p] = @ + 1])
  <2> DEFINE v == [s.refs EXCEPT ![p] = s.refs[p] + 1]
  <2>1. r.session = [s EXCEPT !.refs = v]
    BY <1>2 DEF Done
  <2> HIDE DEF v
  <2>2. Keeps(s, [s EXCEPT !.refs = v])
    BY FramedMembers
  <2> QED BY <2>1, <2>2
<1>3. CASE r = Done([s EXCEPT !.refs[p] = 1, !.tracked = @ \cup {p}])
  <2> DEFINE v == [s.refs EXCEPT ![p] = 1]
             w == s.tracked \cup {p}
             t == [s EXCEPT !.refs = v]
             u == [t EXCEPT !.tracked = w]
  <2>1. r.session = [s EXCEPT !.refs[p] = 1, !.tracked = @ \cup {p}]
    BY <1>3 DEF Done
  <2>2. [s EXCEPT !.refs[p] = 1, !.tracked = @ \cup {p}] = u
    BY DEF Framed, Shape
  <2> HIDE DEF v, w
  <2>3. Keeps(s, t)
    BY FramedMembers
  <2>4. Framed(t)
    BY <2>3 DEF Keeps, Beside
  <2> HIDE DEF t
  <2>5. Keeps(t, u)
    BY <2>4, FramedMembers
  <2> HIDE DEF u
  <2> QED BY <2>1, <2>2, <2>3, <2>5, KeepsTwice
<1> QED BY <1>1, <1>2, <1>3 DEF StartTracking

LEMMA StopKeeps ==
    ASSUME NEW s, Framed(s), NEW p
    PROVE  Keeps(s, StopTracking(s, p))
<1>1. CASE s.refs[p] = 0
  BY <1>1, KeepsSelf DEF StopTracking
<1>2. CASE s.refs[p] = 1
  <2> DEFINE v == [s.refs EXCEPT ![p] = 0]
             w == s.tracked \ {p}
             t == [s EXCEPT !.refs = v]
             u == [t EXCEPT !.tracked = w]
             x == [u EXCEPT !.queued[p] = {}]
  <2>1. StopTracking(s, p) = [s EXCEPT !.refs[p] = 0, !.tracked = @ \ {p}, !.queued[p] = {}]
    BY <1>2 DEF StopTracking
  <2>2. [s EXCEPT !.refs[p] = 0, !.tracked = @ \ {p}, !.queued[p] = {}] = x
    BY DEF Framed, Shape
  <2> HIDE DEF v, w
  <2>3. Keeps(s, t)
    BY FramedMembers
  <2>4. Framed(t)
    BY <2>3 DEF Keeps, Beside
  <2> HIDE DEF t
  <2>5. Keeps(t, u)
    BY <2>4, FramedMembers
  <2>6. Framed(u)
    BY <2>5 DEF Keeps, Beside
  <2> HIDE DEF u
  <2>7. Keeps(u, x)
    BY <2>6, FramedMembers
  <2> HIDE DEF x
  <2> QED BY <2>1, <2>2, <2>3, <2>5, <2>7, KeepsTwice
<1>3. CASE s.refs[p] # 0 /\ s.refs[p] # 1
  <2> DEFINE v == [s.refs EXCEPT ![p] = s.refs[p] - 1]
  <2>1. StopTracking(s, p) = [s EXCEPT !.refs = v]
    BY <1>3 DEF StopTracking
  <2> HIDE DEF v
  <2>2. Keeps(s, [s EXCEPT !.refs = v])
    BY FramedMembers
  <2> QED BY <2>1, <2>2
<1> QED BY <1>1, <1>2, <1>3

LEMMA RequeryBeside ==
    ASSUME NEW s, Framed(s), NEW p, NEW owners \in SUBSET Instances
    PROVE  LET t == Requery(s, p, owners)
           IN  Beside(s, t) /\ t.query = p /\ t.sources = owners
<1> DEFINE u == [s EXCEPT !.query = p]
           t == [u EXCEPT !.sources = owners]
<1>1. Beside(s, u) /\ u.query = p
  <2>1. u.query = p
    BY DEF Framed, Shape
  <2> QED BY <2>1, FramedMembers
<1>2. Requery(s, p, owners) = t
  BY DEF Requery
<1> HIDE DEF u
<1>3. Framed(u)
  BY <1>1 DEF Beside
<1>4. Beside(u, t)
  BY <1>3, FramedMembers
<1>5. t.query = u.query /\ t.sources = owners
  BY <1>3 DEF Framed, Shape
<1> HIDE DEF t
<1> QED BY <1>1, <1>2, <1>4, <1>5, BesideTwice

LEMMA ReleaseBeside ==
    ASSUME NEW s, Framed(s)
    PROVE  Beside(s, ReleaseTarget(s)) /\ ReleaseTarget(s).query = NoPid
<1>1. CASE s.query = NoPid
  <2>1. ReleaseTarget(s) = s
    BY <1>1 DEF ReleaseTarget
  <2> QED BY <1>1, <2>1, KeepsSelf DEF Keeps
<1>2. CASE s.query # NoPid
  <2> DEFINE t == Requery(s, NoPid, {})
             u == StopTracking(t, s.query)
  <2>1. ReleaseTarget(s) = u
    BY <1>2 DEF ReleaseTarget, Requery
  <2>2. Beside(s, t) /\ t.query = NoPid
    BY RequeryBeside
  <2> HIDE DEF t
  <2>3. Framed(t)
    BY <2>2 DEF Beside
  <2>4. Keeps(t, u)
    BY <2>3, StopKeeps
  <2> HIDE DEF u
  <2> QED BY <2>1, <2>2, <2>4, BesideTwice DEF Keeps
<1> QED BY <1>1, <1>2

\* The query, if it is for p, averages frames of A only.
From(s, p, A) == s.query = p => s.sources \subseteq A

LEMMA RetargetFrom ==
    ASSUME NEW s, Framed(s), NEW p \in Pids, NEW A \in SUBSET Instances,
           NEW owners \in SUBSET A, NEW r \in RetargetProcess(s, p, owners)
    PROVE  Beside(s, r.session) /\ From(r.session, p, A) /\ (r.ok => r.session.query = p)
<1> DEFINE free == ReleaseTarget(s)
<1>1. Beside(s, free) /\ free.query = NoPid
  BY ReleaseBeside
<1>2. PICK q \in StartTracking(free, p) :
         r \in IF ~q.ok THEN {q}
                 ELSE {Done(Requery(q.session, p, owners)),
                       NotDone(StopTracking(q.session, p))}
  BY DEF RetargetProcess, Requery
<1> HIDE DEF free
<1>3. Framed(free)
  BY <1>1 DEF Beside
<1>4. Keeps(free, q.session)
  BY <1>3, StartKeeps
<1>5. Beside(s, q.session) /\ q.session.query = NoPid /\ Framed(q.session)
  BY <1>1, <1>4, BesideTwice DEF Keeps, Beside
<1>6. NoPid # p
  BY NoPidIsTarget
<1>7. CASE r = q /\ ~q.ok
  BY <1>5, <1>6, <1>7 DEF From
<1>8. CASE r = Done(Requery(q.session, p, owners))
  <2>1. r.session = Requery(q.session, p, owners)
    BY <1>8 DEF Done
  <2>2. /\ Beside(q.session, r.session)
        /\ r.session.query = p /\ r.session.sources = owners
    BY <1>5, <2>1, RequeryBeside
  <2> QED BY <1>5, <2>2, BesideTwice DEF From
<1>9. CASE r = NotDone(StopTracking(q.session, p))
  <2>1. r.session = StopTracking(q.session, p) /\ r.ok = FALSE
    BY <1>9 DEF NotDone
  <2>2. Keeps(q.session, r.session)
    BY <1>5, <2>1, StopKeeps
  <2> QED BY <1>5, <1>6, <2>1, <2>2, BesideTwice DEF From, Keeps
<1> QED BY <1>2, <1>7, <1>8, <1>9

\* A value is of one of the instances.
OfOne(i, A) == i = NoInstance \/ i \in A

LEMMA PollFrom ==
    ASSUME NEW s, Framed(s), NEW p \in Pids, NEW A \in SUBSET Instances,
           s.query = p, From(s, p, A), NEW r \in PollQuery(s)
    PROVE  Beside(s, r.session) /\ From(r.session, p, A) /\ OfOne(r.fps, A)
<1>1. \/ r = Value(NoInstance, s)
      \/ r = Value(NoInstance, ReleaseTarget(s))
      \/ \E i \in s.sources : r = Value(i, s)
  BY DEF PollQuery
<1>2. NoPid # p /\ Beside(s, ReleaseTarget(s)) /\ ReleaseTarget(s).query = NoPid
  BY NoPidIsTarget, ReleaseBeside
<1>3. CASE r = Value(NoInstance, ReleaseTarget(s))
  <2>1. r.session = ReleaseTarget(s) /\ r.fps = NoInstance
    BY <1>3 DEF Value
  <2> QED BY <1>2, <2>1 DEF From, OfOne
<1>4. CASE \E i \in s.sources \cup {NoInstance} : r = Value(i, s)
  <2>1. r.session = s /\ r.fps \in s.sources \cup {NoInstance}
    BY <1>4 DEF Value
  <2> QED BY <2>1, KeepsSelf DEF From, OfOne, Keeps
<1> QED BY <1>1, <1>3, <1>4

LEMMA ReadFrom ==
    ASSUME NEW s, Framed(s), NEW p \in Pids, NEW A \in SUBSET Instances,
           From(s, p, A), NEW owners \in SUBSET A, NEW r \in ReadProcess(s, p, owners)
    PROVE  Beside(s, r.session) /\ From(r.session, p, A) /\ OfOne(r.fps, A)
<1>0. p # NoPid
  BY NoPidIsTarget
<1>1. CASE ~s.ready \/ ~s.processReady
  <2>1. r.session = s /\ r.fps = NoInstance
    BY <1>1 DEF ReadProcess, Value
  <2> QED BY <2>1, KeepsSelf DEF OfOne, Keeps
<1>2. CASE s.ready /\ s.processReady /\ s.query = p
  <2>1. r \in PollQuery(s)
    BY <1>0, <1>2 DEF ReadProcess
  <2> QED BY <1>2, <2>1, PollFrom
<1>3. CASE s.ready /\ s.processReady /\ s.query # p
  <2>1. PICK q \in RetargetProcess(s, p, owners) :
           r \in IF q.ok THEN PollQuery(q.session) ELSE {Value(NoInstance, q.session)}
    BY <1>0, <1>3 DEF ReadProcess
  <2>2. /\ Beside(s, q.session) /\ From(q.session, p, A) /\ Framed(q.session)
        /\ q.ok => q.session.query = p
    <3>1. /\ Beside(s, q.session) /\ From(q.session, p, A)
          /\ q.ok => q.session.query = p
      BY RetargetFrom
    <3> QED BY <3>1 DEF Beside
  <2>3. CASE r = Value(NoInstance, q.session)
    <3>1. r.session = q.session /\ r.fps = NoInstance
      BY <2>3 DEF Value
    <3> QED BY <2>2, <3>1 DEF OfOne
  <2>4. CASE q.ok
    <3>1. Beside(q.session, r.session) /\ From(r.session, p, A) /\ OfOne(r.fps, A)
      BY <2>1, <2>2, <2>4, PollFrom
    <3> QED BY <2>2, <3>1, BesideTwice
  <2> QED BY <2>1, <2>3, <2>4
<1> QED BY <1>1, <1>2, <1>3

-----------------------------------------------------------------------------
(* The FPS members: whose value, and how old.                              *)

Holds == [pid: Targets, of: Measured, age: 0 .. HoldTicks, tick: 0 .. HoldTicks]
Values == [of: Measured, age: 0 .. HoldTicks]

\* A held value is of one of A, and its age is the time since it was fresh.
HoldOf(h, A) == h \in Holds /\ OfOne(h.of, A) /\ h.age = h.tick

\* A shown value is of one of A and younger than the hold.
ShownOf(v, A) ==
    /\ v \in Values /\ OfOne(v.of, A)
    /\ v.of # NoInstance => v.age < HoldTicks

FpsOf(f, A) == f \in FpsStates /\ HoldOf(f.hold, A) /\ ShownOf(f.latest, A)

LEMMA NothingIsOfOne ==
    ASSUME NEW A
    PROVE  HoldOf(NoHold, A) /\ ShownOf(Unused, A)
<1>1. 0 \in 0 .. HoldTicks
  BY HoldAssumption
<1>2. NoHold \in Holds /\ NoHold.of = NoInstance /\ NoHold.age = NoHold.tick
  BY <1>1, NoPidIsTarget DEF NoHold, Holds, Measured
<1>3. Unused \in Values /\ Unused.of = NoInstance
  BY <1>1 DEF Unused, Values, Measured
<1> QED BY <1>2, <1>3 DEF HoldOf, ShownOf, OfOne

LEMMA NoHoldFor ==
    ASSUME NEW A, NEW p \in Targets
    PROVE  HoldOf([NoHold EXCEPT !.pid = p], A) /\ [NoHold EXCEPT !.pid = p].of = NoInstance
<1> DEFINE h == [NoHold EXCEPT !.pid = p]
<1>1. 0 \in 0 .. HoldTicks
  BY HoldAssumption
<1>2. h = [pid |-> p, of |-> NoInstance, age |-> 0, tick |-> 0]
  BY DEF NoHold
<1> HIDE DEF h
<1>3. h \in Holds /\ h.of = NoInstance /\ h.age = h.tick
  BY <1>1, <1>2 DEF Holds, Measured
<1>4. HoldOf(h, A) /\ h.of = NoInstance
  BY <1>3 DEF HoldOf, OfOne
<1> QED BY <1>4 DEF h

LEMMA ObserveOf ==
    ASSUME NEW A \in SUBSET Instances, NEW h, HoldOf(h, A), NEW p \in Targets,
           NEW fresh, OfOne(fresh, A)
    PROVE  HoldOf(Observe(h, p, fresh), A) /\ ShownOf(Shown(Observe(h, p, fresh)), A)
<1> DEFINE kept == IF h.pid = p THEN h ELSE [NoHold EXCEPT !.pid = p]
           none == [NoHold EXCEPT !.pid = p]
           o == Observe(h, p, fresh)
           new == [pid |-> p, of |-> fresh, age |-> 0, tick |-> 0]
<1>1. HoldOf(none, A) /\ none.of = NoInstance
  BY NoHoldFor
<1>2. HoldOf(kept, A)
  BY <1>1
<1>3. fresh \in Measured /\ 0 \in 0 .. HoldTicks /\ 0 < HoldTicks
  BY HoldAssumption DEF OfOne, Measured
<1>4. HoldOf(new, A) /\ new.age < HoldTicks
  <2>1. new \in Holds
    BY <1>3 DEF Holds
  <2>2. new.of = fresh /\ new.age = 0 /\ new.tick = 0
    OBVIOUS
  <2> HIDE DEF new
  <2> QED BY <1>3, <2>1, <2>2 DEF HoldOf
<1>5. \/ fresh # NoInstance /\ o = new
      \/ kept.of # NoInstance /\ kept.tick < HoldTicks /\ o = kept
      \/ o = none
  BY DEF Observe
<1> HIDE DEF kept, none, new, o
<1>6. HoldOf(o, A) /\ (o.of # NoInstance => o.age < HoldTicks)
  <2>1. CASE o = new
    BY <1>4, <2>1
  <2>2. CASE kept.tick < HoldTicks /\ o = kept
    BY <1>2, <2>2 DEF HoldOf
  <2>3. CASE o = none
    BY <1>1, <2>3
  <2> QED BY <1>5, <2>1, <2>2, <2>3
<1>7. ShownOf(Shown(o), A)
  <2>1. o \in Holds /\ OfOne(o.of, A)
    BY <1>6 DEF HoldOf
  <2>2. Shown(o) \in Values /\ Shown(o).of = o.of /\ Shown(o).age = o.age
    BY <2>1 DEF Shown, Values, Holds
  <2> QED BY <1>6, <2>1, <2>2 DEF ShownOf
<1> QED BY <1>6, <1>7 DEF o

With(f, v, h) == [f EXCEPT !.hold = h, !.latest = v]

LEMMA SetMembersOf ==
    ASSUME NEW f, NEW A, NEW B, FpsOf(f, A),
           NEW v, ShownOf(v, B), NEW h, HoldOf(h, B)
    PROVE  LET g == With(f, v, h)
           IN  /\ FpsOf(g, B)
               /\ g.mode = f.mode /\ g.always = f.always /\ g.ingame = f.ingame
<1> DEFINE t == [f EXCEPT !.hold = h]
           g == [t EXCEPT !.latest = v]
<1>1. f \in FpsStates /\ h \in Holds /\ v \in Values
  BY DEF FpsOf, HoldOf, ShownOf
<1>2. /\ t \in FpsStates /\ t.hold = h
      /\ t.mode = f.mode /\ t.always = f.always /\ t.ingame = f.ingame
  BY <1>1 DEF FpsStates, Holds
<1>3. With(f, v, h) = g
  BY DEF With
<1> HIDE DEF t
<1>4. /\ g \in FpsStates /\ g.latest = v /\ g.hold = t.hold
      /\ g.mode = t.mode /\ g.always = t.always /\ g.ingame = t.ingame
  BY <1>1, <1>2 DEF FpsStates, Values
<1> HIDE DEF g
<1>5. FpsOf(g, B)
  BY <1>2, <1>4 DEF FpsOf
<1> QED BY <1>2, <1>3, <1>4, <1>5

LEMMA InvalidateOf ==
    ASSUME NEW f, NEW A, FpsOf(f, A), NEW B
    PROVE  LET g == Invalidate(f)
           IN  /\ FpsOf(g, B)
               /\ g.mode = f.mode /\ g.always = f.always /\ g.ingame = f.ingame
<1>1. Invalidate(f) = With(f, Unused, NoHold)
  <2>1. f \in FpsStates
    BY DEF FpsOf
  <2> QED BY <2>1 DEF FpsStates, Invalidate, With
<1> QED BY <1>1, NothingIsOfOne, SetMembersOf

LEMMA ReleaseQueryBeside ==
    ASSUME NEW s, Framed(s)
    PROVE  Beside(s, ReleaseQuery(s))
BY ReleaseQueryIsOneSession, ReleaseBeside, KeepsSelf DEF Keeps

\* A sample of the target p shows one of A, if the query for p does.
LEMMA SampleOf ==
    ASSUME NEW f, NEW A \in SUBSET Instances, FpsOf(f, A), NEW s, Framed(s),
           ResolveTarget(f) # NoPid => From(s, ResolveTarget(f), A),
           OwnersOf(ResolveTarget(f)) \subseteq A, NEW r \in SampleFps(f, s)
    PROVE  /\ FpsOf(r.fps, A) /\ ResolveTarget(r.fps) = ResolveTarget(f)
           /\ Beside(s, r.session)
           /\ ResolveTarget(f) # NoPid => From(r.session, ResolveTarget(f), A)
<1> DEFINE p == ResolveTarget(f)
<1>1. p \in Targets
  BY DEF FpsOf, FpsStates, ResolveTarget
<1>2. CASE p = NoPid
  <2>1. r.fps = Invalidate(f) /\ r.session = ReleaseQuery(s)
    BY <1>2 DEF SampleFps
  <2>2. FpsOf(r.fps, A) /\ ResolveTarget(r.fps) = p
    BY <2>1, InvalidateOf DEF ResolveTarget
  <2> QED BY <1>2, <2>1, <2>2, ReleaseQueryBeside
<1>3. CASE p # NoPid
  <2>1. p \in Pids /\ From(s, p, A) /\ OwnersOf(p) \in SUBSET A
    BY <1>1, <1>3 DEF Targets
  <2>2. PICK q \in ReadProcess(s, p, OwnersOf(p)) :
           LET h == Observe(f.hold, p, AcceptSample(f, p, q.fps))
           IN  r = [fps |-> With(f, Shown(h), h), session |-> q.session]
    BY <1>3 DEF SampleFps, With
  <2> HIDE DEF p
  <2>3. Beside(s, q.session) /\ From(q.session, p, A) /\ OfOne(q.fps, A)
    BY <2>1, ReadFrom
  <2> DEFINE fresh == AcceptSample(f, p, q.fps)
             h == Observe(f.hold, p, fresh)
  <2>4. OfOne(fresh, A)
    BY <2>3 DEF AcceptSample, OfOne
  <2> HIDE DEF fresh
  <2>5. HoldOf(f.hold, A)
    BY DEF FpsOf
  <2>6. HoldOf(h, A) /\ ShownOf(Shown(h), A)
    BY <1>1, <2>4, <2>5, ObserveOf
  <2>7. r.fps = With(f, Shown(h), h) /\ r.session = q.session
    BY <2>2 DEF fresh
  <2> HIDE DEF h
  <2>8. FpsOf(r.fps, A) /\ ResolveTarget(r.fps) = ResolveTarget(f)
    BY <2>6, <2>7, SetMembersOf DEF ResolveTarget
  <2> QED BY <2>3, <2>7, <2>8 DEF p
<1> QED BY <1>2, <1>3

-----------------------------------------------------------------------------
(* The inductive invariant of what is shown and of the evidence.           *)

Target == ResolveTarget(fps)

FpsOwn ==
    /\ adopted \in SUBSET Instances
    /\ FpsOf(fps, adopted)
    /\ OwnersOf(Target) \subseteq adopted
    /\ Target # NoPid => From(session, Target, adopted)

VerifierOwn ==
    /\ OfOne(verifier.found, verifier.armedFor)
    /\ verifier.pid # NoPid =>
          /\ session.armed = verifier.pid
          /\ OfOne(session.seen, verifier.armedFor)
          /\ session.queued[verifier.pid] \subseteq verifier.armedFor
          /\ OwnersOf(verifier.pid) \subseteq verifier.armedFor

OwnInv ==
    /\ IInv
    /\ owner \in [Pids -> Measured]
    /\ Framed(session)
    /\ FpsOwn
    /\ VerifierOwn

\* A step of the UI thread leaves the verification alone.
LEMMA VerifierBeside ==
    ASSUME OwnInv, verifier' = verifier, owner' = owner, Beside(session, session')
    PROVE  VerifierOwn' /\ (owner \in [Pids -> Measured])' /\ Framed(session')
<1>1. Framed(session')
  BY DEF Beside
<1>2. verifier.pid \in Targets /\ VerifierOwn
  BY DEF OwnInv, IInv, VerifierShape
<1>3. CASE verifier.pid = NoPid
  BY <1>1, <1>2, <1>3 DEF VerifierOwn, OwnInv
<1>4. CASE verifier.pid # NoPid
  <2>1. verifier.pid \in Pids
    BY <1>2, <1>4 DEF Targets
  <2>2. /\ session'.armed = session.armed /\ session'.seen = session.seen
        /\ session'.queued[verifier.pid] \subseteq session.queued[verifier.pid]
    BY <2>1 DEF Beside
  <2>3. OwnersOf(verifier.pid)' = OwnersOf(verifier.pid)
    BY DEF OwnersOf
  <2> QED BY <1>1, <1>2, <1>4, <2>2, <2>3 DEF VerifierOwn, OwnInv
<1> QED BY <1>3, <1>4

\* A step of a worker leaves the query alone.
LEMMA FpsKept ==
    ASSUME OwnInv, fps' = fps, adopted' = adopted, owner' = owner,
           session'.query = session.query, session'.sources = session.sources
    PROVE  FpsOwn'
<1>1. Target' = Target
  BY DEF Target
<1>2. OwnersOf(Target)' = OwnersOf(Target)
  BY <1>1 DEF OwnersOf
<1> QED BY <1>1, <1>2 DEF OwnInv, FpsOwn, From

LEMMA UiOwn ==
    ASSUME OwnInv, IInv', owner' = owner, verifier' = verifier,
           Beside(session, session'), FpsOwn'
    PROVE  OwnInv'
BY VerifierBeside DEF OwnInv

LEMMA WorkerOwn ==
    ASSUME OwnInv, IInv', fps' = fps, adopted' = adopted, owner' = owner,
           session'.query = session.query, session'.sources = session.sources,
           Framed(session'), VerifierOwn'
    PROVE  OwnInv'
BY FpsKept DEF OwnInv

LEMMA OwnersAreInstances ==
    ASSUME OwnInv, NEW p \in Targets
    PROVE  OwnersOf(p) \in SUBSET Instances
BY DEF OwnInv, OwnersOf, Targets, Measured

\* Releasing the query leaves none, and no frame that was not there.
LEMMA Released ==
    ASSUME OwnInv
    PROVE  Beside(session, ReleaseQuery(session)) /\ ReleaseQuery(session).query = NoPid
<1>1. Framed(session) /\ Sound(session, Held)
  BY DEF OwnInv, IInv
<1> QED BY <1>1, ReleaseQueryBeside, ReleaseQueryIsSound

LEMMA SetTargetOf ==
    ASSUME NEW f, NEW A, FpsOf(f, A), NEW p \in Targets
    PROVE  LET g == [f EXCEPT !.always = p]
               k == [f EXCEPT !.ingame = p]
           IN  /\ FpsOf(g, A) /\ g.mode = f.mode /\ g.always = p /\ g.ingame = f.ingame
               /\ FpsOf(k, A) /\ k.mode = f.mode /\ k.always = f.always /\ k.ingame = p
<1> DEFINE g == [f EXCEPT !.always = p]
           k == [f EXCEPT !.ingame = p]
<1>1. f \in FpsStates
  BY DEF FpsOf
<1>2. /\ g \in FpsStates /\ g.hold = f.hold /\ g.latest = f.latest
      /\ g.mode = f.mode /\ g.always = p /\ g.ingame = f.ingame
  BY <1>1 DEF FpsStates
<1>3. /\ k \in FpsStates /\ k.hold = f.hold /\ k.latest = f.latest
      /\ k.mode = f.mode /\ k.always = f.always /\ k.ingame = p
  BY <1>1 DEF FpsStates
<1> HIDE DEF g, k
<1>4. FpsOf(g, A) /\ FpsOf(k, A)
  BY <1>2, <1>3 DEF FpsOf
<1> QED BY <1>2, <1>3, <1>4 DEF g, k

\* An authority that is not in force may change its target.
LEMMA OtherTarget ==
    ASSUME OwnInv, adopted' = adopted, owner' = owner, session' = session,
           FpsOf(fps', adopted), Target' = Target
    PROVE  FpsOwn'
<1>1. OwnersOf(Target)' = OwnersOf(Target)
  BY DEF OwnersOf
<1> QED BY <1>1 DEF OwnInv, FpsOwn

\* A new target is adopted with those who had its PID.
LEMMA NewTarget ==
    ASSUME OwnInv, owner' = owner, NEW p \in Targets, Target' = p,
           adopted' \in SUBSET Instances, FpsOf(fps', adopted'),
           OwnersOf(p) \subseteq adopted',
           p # NoPid => From(session', p, adopted')
    PROVE  FpsOwn'
<1>1. OwnersOf(Target)' = OwnersOf(p)
  BY DEF OwnersOf
<1> QED BY <1>1 DEF FpsOwn

LEMMA ForegroundOwn ==
    ASSUME OwnInv, IInv', NEW p \in Targets, OnForegroundProcessChanged(p)
    PROVE  OwnInv'
<1>1. /\ owner' = owner /\ verifier' = verifier /\ session' = session
      /\ SetForegroundProcess(p)
  BY DEF OnForegroundProcessChanged, world, workers
<1>2. FpsOf(fps, adopted) /\ Framed(session) /\ fps \in FpsStates
  BY DEF OwnInv, FpsOwn, FpsOf
<1>3. Beside(session, session')
  BY <1>1, <1>2, KeepsSelf DEF Keeps
<1>4. CASE fps' = fps /\ adopted' = adopted
  <2>1. Target' = Target
    BY <1>4 DEF Target
  <2> QED BY <1>1, <1>2, <1>3, <1>4, <2>1, OtherTarget, UiOwn
<1>5. CASE fps.mode = "Always" /\ fps' = [Invalidate(fps) EXCEPT !.always = p]
           /\ adopted' = OwnersOf(p) \cup
                          (IF session.query = p THEN session.sources ELSE {})
  <2> DEFINE f == Invalidate(fps)
  <2>1. FpsOf(f, adopted') /\ f.mode = fps.mode
    BY <1>2, InvalidateOf
  <2>2. fps' = [f EXCEPT !.always = p]
    BY <1>5
  <2> HIDE DEF f
  <2>3. FpsOf(fps', adopted') /\ fps'.mode = fps.mode /\ fps'.always = p
    BY <2>1, <2>2, SetTargetOf
  <2>4. Target' = p
    BY <1>5, <2>3 DEF Target, ResolveTarget
  <2>5. adopted' \in SUBSET Instances
    BY <1>2, <1>5, OwnersAreInstances DEF Framed
  <2>6. OwnersOf(p) \subseteq adopted' /\ From(session', p, adopted')
    BY <1>1, <1>5 DEF From
  <2>7. FpsOwn'
    BY <1>1, <2>3, <2>4, <2>5, <2>6, NewTarget
  <2> QED BY <1>1, <1>3, <2>7, UiOwn
<1>6. CASE fps.mode # "Always" /\ fps' = [fps EXCEPT !.always = p] /\ adopted' = adopted
  <2>1. FpsOf(fps', adopted) /\ fps'.mode = fps.mode /\ fps'.ingame = fps.ingame
    BY <1>2, <1>6, SetTargetOf
  <2>2. Target' = Target
    BY <1>6, <2>1 DEF Target, ResolveTarget
  <2>3. FpsOwn'
    BY <1>1, <1>6, <2>1, <2>2, OtherTarget
  <2> QED BY <1>1, <1>3, <2>3, UiOwn
<1> QED BY <1>1, <1>4, <1>5, <1>6 DEF SetForegroundProcess

\* Both change the in-game target: to i's PID, or to none.
LEMMA InGameOwn ==
    ASSUME OwnInv, IInv', owner' = owner, verifier' = verifier,
           NEW p \in Targets, NEW B \in SUBSET Instances, OwnersOf(p) \subseteq B,
           \/ /\ fps.mode = "InGameOnly"
              /\ fps' = [Invalidate(fps) EXCEPT !.ingame = p]
              /\ adopted' = B /\ session' = ReleaseQuery(session)
           \/ /\ fps.mode # "InGameOnly"
              /\ fps' = [fps EXCEPT !.ingame = p]
              /\ adopted' = adopted /\ session' = session
    PROVE  OwnInv'
<1>1. FpsOf(fps, adopted) /\ Framed(session) /\ fps \in FpsStates
  BY DEF OwnInv, FpsOwn, FpsOf
<1>2. CASE fps.mode = "InGameOnly" /\ fps' = [Invalidate(fps) EXCEPT !.ingame = p]
           /\ adopted' = B /\ session' = ReleaseQuery(session)
  <2> DEFINE f == Invalidate(fps)
  <2>1. FpsOf(f, B) /\ f.mode = fps.mode
    BY <1>1, InvalidateOf
  <2>2. fps' = [f EXCEPT !.ingame = p] /\ adopted' = B
    BY <1>2
  <2> HIDE DEF f
  <2>3. FpsOf(fps', adopted') /\ fps'.mode = fps.mode /\ fps'.ingame = p
    <3>1. LET k == [f EXCEPT !.ingame = p]
          IN  FpsOf(k, B) /\ k.mode = f.mode /\ k.ingame = p
      BY <2>1, SetTargetOf
    <3> QED BY <2>1, <2>2, <3>1
  <2>4. Target' = p
    BY <1>2, <2>3 DEF Target, ResolveTarget
  <2>5. Beside(session, session') /\ session'.query = NoPid
    BY <1>2, Released
  <2>6. p # NoPid => From(session', p, adopted')
    BY <2>5 DEF From
  <2>7. FpsOwn'
    BY <1>2, <2>3, <2>4, <2>6, NewTarget
  <2> QED BY <2>5, <2>7, UiOwn
<1>3. CASE fps.mode # "InGameOnly" /\ fps' = [fps EXCEPT !.ingame = p]
           /\ adopted' = adopted /\ session' = session
  <2>1. FpsOf(fps', adopted) /\ fps'.mode = fps.mode /\ fps'.always = fps.always
    BY <1>1, <1>3, SetTargetOf
  <2>2. fps.mode = "Always"
    BY <1>1, <1>3 DEF FpsStates, FpsModes
  <2>3. Target' = Target
    BY <2>1, <2>2 DEF Target, ResolveTarget
  <2>4. FpsOwn'
    BY <1>3, <2>1, <2>3, OtherTarget
  <2>5. Beside(session, session')
    BY <1>1, <1>3, KeepsSelf DEF Keeps
  <2> QED BY <2>4, <2>5, UiOwn
<1> QED BY <1>2, <1>3

LEMMA InGameSteps ==
    ASSUME OwnInv, IInv',
           ClearInGameForegroundProcess
             \/ \E i \in Instances : SetInGameForegroundProcess(i)
    PROVE  OwnInv'
<1>1. CASE ClearInGameForegroundProcess
  <2>1. owner' = owner /\ verifier' = verifier
    BY <1>1 DEF ClearInGameForegroundProcess, world, workers
  <2>2. OwnersOf(NoPid) \subseteq {} /\ {} \in SUBSET Instances
    BY DEF OwnersOf
  <2>3. \/ /\ fps.mode = "InGameOnly"
           /\ fps' = [Invalidate(fps) EXCEPT !.ingame = NoPid]
           /\ adopted' = {} /\ session' = ReleaseQuery(session)
        \/ /\ fps.mode # "InGameOnly"
           /\ fps' = [fps EXCEPT !.ingame = NoPid]
           /\ adopted' = adopted /\ session' = session
    BY <1>1 DEF ClearInGameForegroundProcess
  <2> QED BY <2>1, <2>2, <2>3, NoPidIsTarget, InGameOwn
<1>2. ASSUME NEW i \in Instances, SetInGameForegroundProcess(i)
      PROVE  OwnInv'
  <2>1. owner' = owner /\ verifier' = verifier /\ owner[PidOf[i]] = i
    BY <1>2 DEF SetInGameForegroundProcess, world, workers
  <2>2. PidOf[i] \in Targets /\ OwnersOf(PidOf[i]) \subseteq {i} /\ {i} \in SUBSET Instances
    BY <2>1, PidsAreTargets DEF OwnersOf
  <2>3. \/ /\ fps.mode = "InGameOnly"
           /\ fps' = [Invalidate(fps) EXCEPT !.ingame = PidOf[i]]
           /\ adopted' = {i} /\ session' = ReleaseQuery(session)
        \/ /\ fps.mode # "InGameOnly"
           /\ fps' = [fps EXCEPT !.ingame = PidOf[i]]
           /\ adopted' = adopted /\ session' = session
    BY <1>2 DEF SetInGameForegroundProcess
  <2> QED BY <2>1, <2>2, <2>3, InGameOwn
<1> QED BY <1>1, <1>2

LEMMA ModeOwn ==
    ASSUME OwnInv, IInv', NEW m \in FpsModes, NEW p \in Targets, SetVisibilityMode(m, p)
    PROVE  OwnInv'
<1> DEFINE f == Invalidate(fps)
           g == [f EXCEPT !.mode = m]
<1>1. /\ owner' = owner /\ verifier' = verifier /\ session' = ReleaseQuery(session)
      /\ adopted' = OwnersOf(ResolveTarget(fps'))
      /\ fps' = [Invalidate(fps) EXCEPT !.mode = m, !.always = p]
  BY DEF SetVisibilityMode, world, workers
<1>2. FpsOf(f, {}) /\ FpsOf(fps, adopted)
  BY InvalidateOf DEF OwnInv, FpsOwn
<1>3. fps' = [g EXCEPT !.always = p]
  BY <1>1
<1> HIDE DEF f
<1>4. FpsOf(g, {})
  <2>1. f \in FpsStates
    BY <1>2 DEF FpsOf
  <2>2. g \in FpsStates /\ g.hold = f.hold /\ g.latest = f.latest
    BY <2>1 DEF FpsStates
  <2> HIDE DEF g
  <2> QED BY <1>2, <2>2 DEF FpsOf
<1> HIDE DEF g
<1>5. FpsOf(fps', {})
  BY <1>3, <1>4, SetTargetOf
<1>6. FpsOf(fps', adopted')
  BY <1>5 DEF FpsOf, HoldOf, ShownOf, OfOne
<1>7. Target' \in Targets
  BY <1>5 DEF Target, ResolveTarget, FpsOf, FpsStates
<1>8. adopted' = OwnersOf(Target')
  BY <1>1 DEF Target
<1>9. adopted' \in SUBSET Instances
  BY <1>7, <1>8, OwnersAreInstances
<1>10. Beside(session, session') /\ session'.query = NoPid
  BY <1>1, Released
<1>11. FpsOwn'
  BY <1>1, <1>6, <1>7, <1>8, <1>9, <1>10, NewTarget DEF From
<1> QED BY <1>1, <1>10, <1>11, UiOwn

LEMMA SampleOwn ==
    ASSUME OwnInv, IInv', owner' = owner, verifier' = verifier, adopted' = adopted,
           NEW r \in SampleFps(fps, session), fps' = r.fps, session' = r.session
    PROVE  OwnInv'
<1>1. /\ adopted \in SUBSET Instances /\ FpsOf(fps, adopted) /\ Framed(session)
      /\ OwnersOf(ResolveTarget(fps)) \subseteq adopted
      /\ ResolveTarget(fps) # NoPid => From(session, ResolveTarget(fps), adopted)
  BY DEF OwnInv, FpsOwn, Target
<1>2. /\ FpsOf(fps', adopted) /\ ResolveTarget(fps') = ResolveTarget(fps)
      /\ Beside(session, session')
      /\ ResolveTarget(fps) # NoPid => From(session', ResolveTarget(fps), adopted)
  BY <1>1, SampleOf
<1>3. Target' = ResolveTarget(fps) /\ ResolveTarget(fps) \in Targets
  BY <1>1, <1>2 DEF Target, ResolveTarget, FpsOf, FpsStates
<1>4. FpsOwn'
  BY <1>1, <1>2, <1>3, NewTarget
<1> QED BY <1>2, <1>4, UiOwn

\* Nothing the numbers depend on moves.
LEMMA StillOwn ==
    ASSUME OwnInv, IInv', owner' = owner, verifier' = verifier, adopted' = adopted,
           fps' = fps, session' = session
    PROVE  OwnInv'
<1>1. Beside(session, session')
  BY KeepsSelf DEF OwnInv, Keeps
<1>2. FpsOwn'
  BY FpsKept
<1> QED BY <1>1, <1>2, UiOwn

LEMMA ReconcileOwn ==
    ASSUME OwnInv, IInv', ReconcileShow \/ ReconcileHide \/ ReconcileNothing \/ FpsTimer
    PROVE  OwnInv'
<1>1. owner' = owner /\ verifier' = verifier /\ adopted' = adopted
  BY DEF ReconcileShow, ReconcileHide, ReconcileNothing, FpsTimer, world, workers
<1>2. CASE fps' = fps /\ session' = session
  BY <1>1, <1>2, StillOwn
<1>3. CASE \E r \in SampleFps(fps, session) : fps' = r.fps /\ session' = r.session
  BY <1>1, <1>3, SampleOwn
<1>4. CASE ReconcileHide
  <2>1. fps' = Invalidate(fps) /\ session' = ReleaseQuery(session)
    BY <1>4 DEF ReconcileHide
  <2>2. /\ FpsOf(fps', adopted) /\ fps'.mode = fps.mode
        /\ fps'.always = fps.always /\ fps'.ingame = fps.ingame
    BY <2>1, InvalidateOf DEF OwnInv, FpsOwn
  <2>3. Target' = Target /\ Target \in Targets
    BY <2>2 DEF Target, ResolveTarget, FpsOf, FpsStates
  <2>4. Beside(session, session') /\ session'.query = NoPid
    BY <2>1, Released
  <2>5. adopted \in SUBSET Instances /\ OwnersOf(Target) \subseteq adopted
    BY DEF OwnInv, FpsOwn
  <2>6. Target # NoPid => From(session', Target, adopted')
    BY <2>4 DEF From
  <2>7. FpsOwn'
    BY <1>1, <2>2, <2>3, <2>5, <2>6, NewTarget
  <2> QED BY <1>1, <2>4, <2>7, UiOwn
<1>5. CASE ReconcileShow
  BY <1>2, <1>3, <1>5 DEF ReconcileShow
<1>6. CASE ReconcileNothing
  BY <1>2, <1>6 DEF ReconcileNothing
<1>7. CASE FpsTimer
  BY <1>3, <1>7 DEF FpsTimer
<1> QED BY <1>4, <1>5, <1>6, <1>7

-----------------------------------------------------------------------------
(* The verification.                                                       *)

\* The query and what it averages.
SameQuery(s, t) == Framed(t) /\ t.query = s.query /\ t.sources = s.sources

LEMMA ArmedMember ==
    ASSUME NEW s, Framed(s), NEW v \in Targets
    PROVE  LET t == [s EXCEPT !.armed = v]
           IN  SameQuery(s, t) /\ t.armed = v /\ t.queued = s.queued
BY DEF Framed, SameQuery, Shape

LEMMA SeenMember ==
    ASSUME NEW s, Framed(s), NEW v \in Measured
    PROVE  LET t == [s EXCEPT !.seen = v]
           IN  /\ SameQuery(s, t) /\ t.seen = v
               /\ t.armed = s.armed /\ t.queued = s.queued
BY DEF Framed, SameQuery, Shape

\* The queue of p is consumed.
LEMMA ConsumedQueue ==
    ASSUME NEW s, Framed(s), NEW p \in Pids
    PROVE  LET t == [s EXCEPT !.queued[p] = {}]
           IN  Keeps(s, t) /\ t.queued[p] = {}
<1> DEFINE t == [s EXCEPT !.queued[p] = {}]
<1>1. t.queued[p] = {}
  BY DEF Framed, Shape
<1>2. Keeps(s, t)
  BY FramedMembers
<1> QED BY <1>1, <1>2

LEMMA FlushedFrames ==
    ASSUME NEW s, Framed(s), NEW p \in Pids, NEW b \in BeginVerification(s, p)
    PROVE  /\ SameQuery(s, b.session)
           /\ b.ok => /\ b.session.armed = p /\ b.session.seen = NoInstance
                      /\ b.session.queued[p] = {}
<1> DEFINE t == [s EXCEPT !.armed = p]
           u == [t EXCEPT !.seen = NoInstance]
           x == [u EXCEPT !.queued[p] = {}]
           y == [s EXCEPT !.armed = NoPid]
           z == [y EXCEPT !.seen = NoInstance]
<1>1. BeginVerification(s, p) = {Done(x), NotDone(z)}
  <2>1. [s EXCEPT !.armed = p, !.seen = NoInstance, !.queued[p] = {}] = x
    OBVIOUS
  <2>2. [s EXCEPT !.armed = NoPid, !.seen = NoInstance] = z
    OBVIOUS
  <2> HIDE DEF x, z
  <2> QED BY <2>1, <2>2 DEF BeginVerification
<1>2. p \in Targets /\ NoPid \in Targets /\ NoInstance \in Measured
  BY PidsAreTargets, NoPidIsTarget DEF Measured
<1>3. SameQuery(s, t) /\ t.armed = p
  BY <1>2, ArmedMember
<1>4. SameQuery(s, y)
  BY <1>2, ArmedMember
<1>5. Framed(t) /\ Framed(y)
  BY <1>3, <1>4 DEF SameQuery
<1> HIDE DEF t, y
<1>6. SameQuery(t, u) /\ u.seen = NoInstance /\ u.armed = t.armed
  BY <1>2, <1>5, SeenMember
<1>7. SameQuery(y, z)
  BY <1>2, <1>5, SeenMember
<1>8. Framed(u)
  BY <1>6 DEF SameQuery
<1> HIDE DEF u, z
<1>9. Keeps(u, x) /\ x.queued[p] = {}
  BY <1>8, ConsumedQueue
<1> HIDE DEF x
<1>10. SameQuery(s, x) /\ x.armed = p /\ x.seen = NoInstance /\ x.queued[p] = {}
  BY <1>3, <1>6, <1>9 DEF SameQuery, Keeps, Beside
<1>11. SameQuery(s, z)
  BY <1>4, <1>7 DEF SameQuery
<1>12. CASE b = Done(x)
  BY <1>10, <1>12 DEF Done
<1>13. CASE b = NotDone(z)
  BY <1>11, <1>13 DEF NotDone
<1> QED BY <1>1, <1>12, <1>13

LEMMA BeginFrames ==
    ASSUME NEW s, Framed(s), NEW p \in Pids, NEW r \in BeginGameRenderVerification(s, p)
    PROVE  /\ SameQuery(s, r.session)
           /\ r.ok => /\ r.session.armed = p /\ r.session.seen = NoInstance
                      /\ r.session.queued[p] = {}
<1>1. CASE r = NotDone(s)
  BY <1>1 DEF NotDone, SameQuery
<1>2. ASSUME NEW q \in StartTracking(s, p),
             r \in IF ~q.ok THEN {q}
                     ELSE {IF b.ok THEN b ELSE NotDone(StopTracking(b.session, p)) :
                             b \in BeginVerification(q.session, p)}
      PROVE  /\ SameQuery(s, r.session)
             /\ r.ok => /\ r.session.armed = p /\ r.session.seen = NoInstance
                        /\ r.session.queued[p] = {}
  <2>1. Keeps(s, q.session)
    BY StartKeeps
  <2>2. SameQuery(s, q.session) /\ Framed(q.session)
    BY <2>1 DEF Keeps, Beside, SameQuery
  <2>3. CASE ~q.ok
    BY <1>2, <2>2, <2>3
  <2>4. CASE q.ok
    <3>1. PICK b \in BeginVerification(q.session, p) :
             r = IF b.ok THEN b ELSE NotDone(StopTracking(b.session, p))
      BY <1>2, <2>4
    <3>2. /\ SameQuery(q.session, b.session) /\ Framed(b.session)
          /\ b.ok => /\ b.session.armed = p /\ b.session.seen = NoInstance
                     /\ b.session.queued[p] = {}
      <4>1. /\ SameQuery(q.session, b.session)
            /\ b.ok => /\ b.session.armed = p /\ b.session.seen = NoInstance
                       /\ b.session.queued[p] = {}
        BY <2>2, FlushedFrames
      <4> QED BY <4>1 DEF SameQuery
    <3>3. CASE b.ok
      <4>1. r = b
        BY <3>1, <3>3
      <4> QED BY <2>2, <3>2, <3>3, <4>1 DEF SameQuery
    <3>4. CASE ~b.ok
      <4>1. r.session = StopTracking(b.session, p) /\ r.ok = FALSE
        BY <3>1, <3>4 DEF NotDone
      <4>2. Keeps(b.session, r.session)
        BY <3>2, <4>1, StopKeeps
      <4> QED BY <2>2, <3>2, <4>1, <4>2 DEF SameQuery, Keeps, Beside
    <3> QED BY <3>3, <3>4
  <2> QED BY <2>3, <2>4
<1> QED BY <1>1, <1>2 DEF BeginGameRenderVerification

LEMMA VerifierStartOwn ==
    ASSUME OwnInv, IInv', NEW p \in Pids, VerifierStart(p)
    PROVE  OwnInv'
<1> DEFINE s == StoppedVerifier
<1>1. owner' = owner /\ fps' = fps /\ adopted' = adopted
  BY DEF VerifierStart, world
<1>2. PICK r \in BeginGameRenderVerification(s, p) :
         /\ session' = r.session
         /\ verifier' = IF r.ok THEN [NoVerification EXCEPT !.pid = p,
                                                            !.armedFor = OwnersOf(p)]
                                ELSE NoVerification
  BY DEF VerifierStart
<1>3. Keeps(session, s) /\ Framed(s)
  <2>1. Framed(session)
    BY DEF OwnInv
  <2>2. Keeps(session, s)
    BY <2>1, KeepsSelf, StopKeeps DEF StoppedVerifier, ReleaseProcess
  <2> QED BY <2>2 DEF Keeps, Beside
<1> HIDE DEF s
<1>4. /\ SameQuery(s, session')
      /\ r.ok => /\ session'.armed = p /\ session'.seen = NoInstance
                 /\ session'.queued[p] = {}
  BY <1>2, <1>3, BeginFrames
<1>5. /\ Framed(session') /\ session'.query = session.query
      /\ session'.sources = session.sources
  BY <1>3, <1>4 DEF SameQuery, Keeps
<1>6. VerifierOwn'
  <2>1. CASE r.ok
    <3>1. verifier' = [pid |-> p, found |-> NoInstance, armedFor |-> OwnersOf(p)]
      BY <1>2, <2>1 DEF NoVerification
    <3>2. /\ verifier'.pid = p /\ verifier'.found = NoInstance
          /\ verifier'.armedFor = OwnersOf(p)
      BY <3>1
    <3>3. OwnersOf(p)' = OwnersOf(p)
      BY <1>1 DEF OwnersOf
    <3>4. OwnersOf(verifier.pid)' = OwnersOf(p)
      BY <3>2, <3>3 DEF OwnersOf
    <3> QED BY <1>4, <2>1, <3>2, <3>4 DEF VerifierOwn, OfOne
  <2>2. CASE ~r.ok
    <3>1. verifier'.pid = NoPid /\ verifier'.found = NoInstance
      BY <1>2, <2>2, NoVerificationShape
    <3> QED BY <3>1 DEF VerifierOwn, OfOne
  <2> QED BY <2>1, <2>2
<1> QED BY <1>1, <1>5, <1>6, WorkerOwn

LEMMA VerifierEndOwn ==
    ASSUME OwnInv, IInv', VerifierStop \/ VerifierWorkerEnds
    PROVE  OwnInv'
<1>1. owner' = owner /\ fps' = fps /\ adopted' = adopted /\ verifier' = NoVerification
  BY DEF VerifierStop, VerifierWorkerEnds, world
<1>2. session' = session \/ session' = StopTracking(session, verifier.pid)
  BY DEF VerifierStop, VerifierWorkerEnds, StoppedVerifier, ReleaseProcess
<1>3. Keeps(session, session')
  BY <1>2, KeepsSelf, StopKeeps DEF OwnInv
<1>4. VerifierOwn'
  BY <1>1, NoVerificationShape DEF VerifierOwn, OfOne
<1> QED BY <1>1, <1>3, <1>4, WorkerOwn DEF Keeps, Beside

LEMMA VerifierPollOwn ==
    ASSUME OwnInv, IInv', VerifierPoll
    PROVE  OwnInv'
<1> DEFINE p == verifier.pid
           A == verifier.armedFor
           t == [session EXCEPT !.queued[p] = {}]
<1>1. PICK s \in PollDisplayedFrame(session, p) :
         session' = s /\ verifier' = [verifier EXCEPT !.found = s.seen]
  BY DEF VerifierPoll
<1>2. owner' = owner /\ fps' = fps /\ adopted' = adopted /\ p # NoPid
  BY DEF VerifierPoll, world
<1>3. p \in Pids /\ Framed(session)
  BY <1>2 DEF OwnInv, IInv, VerifierShape, Targets
<1>4. /\ session.armed = p /\ OfOne(session.seen, A) /\ session.queued[p] \subseteq A
      /\ OwnersOf(p) \subseteq A
  BY <1>2 DEF OwnInv, VerifierOwn
<1>5. Keeps(session, t) /\ t.queued[p] = {} /\ Framed(t)
  <2>1. Keeps(session, t) /\ t.queued[p] = {}
    BY <1>3, ConsumedQueue
  <2> HIDE DEF t
  <2> QED BY <2>1 DEF Keeps, Beside
<1>6. \/ session' = session
      \/ session' = t
      \/ \E i \in session.queued[p] : session' = [t EXCEPT !.seen = i]
  <2>1. \A i : [session EXCEPT !.queued[p] = {}, !.seen = i] = [t EXCEPT !.seen = i]
    OBVIOUS
  <2>2. \/ session' = session
        \/ session' = t
        \/ \E i \in session.queued[p] :
              session' = [session EXCEPT !.queued[p] = {}, !.seen = i]
    BY <1>1 DEF PollDisplayedFrame
  <2> HIDE DEF t
  <2> QED BY <2>1, <2>2
<1> HIDE DEF t
<1>7. /\ SameQuery(session, session') /\ session'.armed = p
      /\ OfOne(session'.seen, A) /\ session'.queued[p] \subseteq A
  <2>1. CASE session' = session
    BY <1>3, <1>4, <2>1 DEF SameQuery
  <2>2. CASE session' = t
    BY <1>4, <1>5, <2>2 DEF SameQuery, Keeps, Beside
  <2>3. ASSUME NEW i \in session.queued[p], session' = [t EXCEPT !.seen = i]
        PROVE  /\ SameQuery(session, session') /\ session'.armed = p
               /\ OfOne(session'.seen, A) /\ session'.queued[p] \subseteq A
    <3>1. i \in Measured /\ i \in A
      BY <1>3, <1>4 DEF Framed, Measured
    <3>2. LET u == [t EXCEPT !.seen = i]
          IN  /\ SameQuery(t, u) /\ u.seen = i
              /\ u.armed = t.armed /\ u.queued = t.queued
      BY <1>5, <3>1, SeenMember
    <3>3. /\ SameQuery(t, session') /\ session'.seen = i
          /\ session'.armed = t.armed /\ session'.queued = t.queued
      BY <2>3, <3>2
    <3>4. t.armed = p /\ t.query = session.query /\ t.sources = session.sources
      BY <1>4, <1>5 DEF Keeps, Beside
    <3> QED BY <1>5, <3>1, <3>3, <3>4 DEF SameQuery, OfOne
  <2> QED BY <1>6, <2>1, <2>2, <2>3
<1>8. verifier'.pid = p /\ verifier'.found = session'.seen /\ verifier'.armedFor = A
  <2>1. verifier = [pid |-> p, found |-> verifier.found, armedFor |-> A]
    BY DEF OwnInv, IInv, VerifierShape
  <2> HIDE DEF p, A
  <2>2. verifier' = [pid |-> p, found |-> session'.seen, armedFor |-> A]
    BY <1>1, <2>1
  <2> QED BY <2>2
<1> HIDE DEF p, A
<1>9. OwnersOf(verifier.pid)' = OwnersOf(p)
  BY <1>2, <1>8 DEF OwnersOf
<1>10. VerifierOwn'
  BY <1>4, <1>7, <1>8, <1>9 DEF VerifierOwn
<1> QED BY <1>2, <1>7, <1>10, WorkerOwn DEF SameQuery

-----------------------------------------------------------------------------
(* The debug watch and the world.                                          *)

LEMMA KeepsOwn ==
    ASSUME OwnInv, IInv', owner' = owner, fps' = fps, adopted' = adopted,
           verifier' = verifier, Keeps(session, session')
    PROVE  OwnInv'
<1>1. VerifierOwn'
  BY VerifierBeside DEF Keeps
<1> QED BY <1>1, WorkerOwn DEF Keeps, Beside

LEMMA ActivityOwn ==
    ASSUME OwnInv, IInv', PollRead \/ PollLease \/ \E p \in Targets : Watch(p)
    PROVE  OwnInv'
<1>0. Framed(session)
  BY DEF OwnInv
<1>1. owner' = owner /\ fps' = fps /\ adopted' = adopted /\ verifier' = verifier
  BY DEF PollRead, PollLease, Watch, world, workers
<1>2. CASE \E p \in Targets : Watch(p)
  <2>1. session' = session
    BY <1>2 DEF Watch
  <2> QED BY <1>1, <2>1, StillOwn
<1>3. CASE PollRead
  <2>1. \/ session' = session
        \/ session' = [session EXCEPT !.queued[activity.leased] = {}]
    BY <1>3 DEF PollRead, ReadDebugFrameActivity
  <2>2. Keeps(session, [session EXCEPT !.queued[activity.leased] = {}])
    BY <1>0, FramedMembers
  <2>3. Keeps(session, session')
    BY <1>0, <2>1, <2>2, KeepsSelf
  <2> QED BY <1>1, <2>3, KeepsOwn
<1>4. CASE PollLease
  <2> DEFINE free == IF activity.leased = NoPid THEN session
                       ELSE ReleaseProcess(session, activity.leased)
  <2>1. PICK r \in IF activity.watched = NoPid THEN {NotDone(free)}
                     ELSE AcquireProcess(free, activity.watched) :
           session' = r.session
    BY <1>4 DEF PollLease
  <2>2. Keeps(session, free)
    BY <1>0, KeepsSelf, StopKeeps DEF ReleaseProcess
  <2> HIDE DEF free
  <2>3. Framed(free)
    BY <2>2 DEF Keeps, Beside
  <2>4. r = NotDone(free) \/ r \in StartTracking(free, activity.watched)
    BY <2>1 DEF AcquireProcess
  <2>5. Keeps(free, session')
    <3>1. CASE r = NotDone(free)
      <4>1. session' = free
        BY <2>1, <3>1 DEF NotDone
      <4> QED BY <2>3, <4>1, KeepsSelf
    <3>2. CASE r \in StartTracking(free, activity.watched)
      <4>1. Keeps(free, r.session)
        BY <2>3, <3>2, StartKeeps
      <4> QED BY <2>1, <4>1
    <3> QED BY <2>4, <3>1, <3>2
  <2>6. Keeps(session, session')
    BY <2>2, <2>5, KeepsTwice
  <2> QED BY <1>1, <2>6, KeepsOwn
<1> QED BY <1>2, <1>3, <1>4

LEMMA MoreInstances ==
    ASSUME NEW f, NEW A, FpsOf(f, A), NEW B, A \subseteq B
    PROVE  FpsOf(f, B)
BY DEF FpsOf, HoldOf, ShownOf, OfOne

LEMMA LaunchOwn ==
    ASSUME OwnInv, IInv', NEW i \in Instances, ProcessStarts(i)
    PROVE  OwnInv'
<1> DEFINE p == PidOf[i]
<1>1. /\ owner' = [owner EXCEPT ![p] = i]
      /\ session' = IF session.query = p
                      THEN [session EXCEPT !.sources = @ \cup {i}] ELSE session
      /\ adopted' = IF Target = p THEN adopted \cup {i} ELSE adopted
      /\ verifier' = IF verifier.pid = p
                       THEN [verifier EXCEPT !.armedFor = @ \cup {i}] ELSE verifier
      /\ fps' = fps
  BY DEF ProcessStarts, Target
<1>2. p \in Pids
  BY PidAssumption
<1>3. Framed(session) /\ FpsOwn /\ VerifierOwn /\ owner \in [Pids -> Measured]
  BY DEF OwnInv
<1>4. owner' \in [Pids -> Measured]
  BY <1>1, <1>2, <1>3 DEF Measured
<1>5. \A q \in Pids : q # p => OwnersOf(q)' = OwnersOf(q)
  BY <1>1, <1>3 DEF OwnersOf
<1>6. OwnersOf(p)' \subseteq {i}
  BY <1>1, <1>2, <1>3 DEF OwnersOf
<1> HIDE DEF p
<1>7. Beside(session, session') /\ session'.query = session.query
      /\ session'.sources \subseteq session.sources \cup (IF session.query = p THEN {i} ELSE {})
  <2> DEFINE v == session.sources \cup {i}
  <2>1. CASE session.query # p
    BY <1>1, <1>3, <2>1, KeepsSelf DEF Keeps
  <2>2. CASE session.query = p
    <3>1. v \in SUBSET Instances /\ session' = [session EXCEPT !.sources = v]
      BY <1>1, <1>3, <2>2 DEF Framed
    <3> HIDE DEF v
    <3>2. Beside(session, [session EXCEPT !.sources = v])
      BY <1>3, <3>1, FramedMembers
    <3>3. session'.query = session.query /\ session'.sources = v
      BY <1>3, <3>1 DEF Framed, Shape
    <3> QED BY <2>2, <3>1, <3>2, <3>3 DEF v
  <2> QED BY <2>1, <2>2
<1>8. FpsOwn'
  <2>1. /\ adopted \subseteq adopted' /\ adopted' \in SUBSET Instances
        /\ Target = p => i \in adopted'
    BY <1>1, <1>3 DEF FpsOwn
  <2>2. FpsOf(fps', adopted')
    BY <1>1, <1>3, <2>1, MoreInstances DEF FpsOwn
  <2>3. Target' = Target /\ Target \in Targets
    BY <1>1, <1>3 DEF Target, FpsOwn, FpsOf, FpsStates, ResolveTarget
  <2>4. OwnersOf(Target)' \subseteq adopted'
    <3>1. CASE Target = NoPid
      BY <2>3, <3>1 DEF OwnersOf
    <3>2. CASE Target = p
      <4>1. OwnersOf(Target)' = OwnersOf(p)'
        BY <2>3, <3>2 DEF OwnersOf, p
      <4> QED BY <1>6, <2>1, <3>2, <4>1
    <3>3. CASE Target # NoPid /\ Target # p
      <4>1. Target \in Pids
        BY <2>3, <3>3 DEF Targets
      <4>2. owner'[Target] = owner[Target]
        BY <1>1, <1>3, <3>3, <4>1
      <4>3. OwnersOf(Target)' = OwnersOf(Target)
        BY <2>3, <4>2 DEF OwnersOf
      <4> QED BY <1>3, <2>1, <4>3 DEF FpsOwn
    <3> QED BY <3>1, <3>2, <3>3
  <2>5. Target # NoPid => From(session', Target, adopted')
    BY <1>3, <1>7, <2>1 DEF FpsOwn, From
  <2> QED BY <2>1, <2>2, <2>3, <2>4, <2>5 DEF FpsOwn
<1>9. VerifierOwn'
  <2>1. /\ verifier'.pid = verifier.pid /\ verifier'.found = verifier.found
        /\ verifier.armedFor \subseteq verifier'.armedFor
        /\ verifier.pid = p => i \in verifier'.armedFor
    BY <1>1 DEF OwnInv, IInv, VerifierShape
  <2>2. OfOne(verifier'.found, verifier'.armedFor)
    BY <1>3, <2>1 DEF VerifierOwn, OfOne
  <2>3. CASE verifier.pid = NoPid
    BY <2>1, <2>2, <2>3 DEF VerifierOwn
  <2>4. CASE verifier.pid # NoPid
    <3>1. verifier.pid \in Pids
      BY <2>4 DEF OwnInv, IInv, VerifierShape, Targets
    <3>2. /\ session'.armed = verifier'.pid
          /\ OfOne(session'.seen, verifier'.armedFor)
          /\ session'.queued[verifier'.pid] \subseteq verifier'.armedFor
      BY <1>3, <1>7, <2>1, <2>4, <3>1 DEF VerifierOwn, OfOne, Beside
    <3>3. OwnersOf(verifier.pid)' \subseteq verifier'.armedFor
      <4>1. CASE verifier.pid = p
        <5>1. OwnersOf(verifier.pid)' = OwnersOf(p)'
          BY <2>1, <4>1 DEF OwnersOf, p
        <5> QED BY <1>6, <2>1, <4>1, <5>1
      <4>2. CASE verifier.pid # p
        <5>1. owner'[verifier.pid] = owner[verifier.pid]
          BY <1>1, <1>3, <3>1, <4>2
        <5>2. OwnersOf(verifier.pid)' = OwnersOf(verifier.pid)
          BY <2>1, <5>1 DEF OwnersOf
        <5> QED BY <1>3, <2>1, <2>4, <5>2 DEF VerifierOwn
      <4> QED BY <4>1, <4>2
    <3> QED BY <2>2, <3>2, <3>3 DEF VerifierOwn
  <2> QED BY <2>3, <2>4
<1> QED BY <1>4, <1>7, <1>8, <1>9 DEF OwnInv, Beside

LEMMA ExitOwn ==
    ASSUME OwnInv, IInv', NEW i \in Instances, Exit(i)
    PROVE  OwnInv'
<1>1. /\ owner' = [owner EXCEPT ![PidOf[i]] = NoInstance]
      /\ session' = session /\ adopted' = adopted /\ verifier' = verifier /\ fps' = fps
  BY DEF Exit, workers
<1>2. Framed(session) /\ FpsOwn /\ VerifierOwn /\ owner \in [Pids -> Measured]
  BY DEF OwnInv
<1>3. owner' \in [Pids -> Measured]
  BY <1>1, <1>2 DEF Measured
<1>4. \A q \in Pids : owner'[q] = owner[q] \/ owner'[q] = NoInstance
  BY <1>1, <1>2
<1>5. Target' = Target /\ Target \in Targets
  BY <1>1, <1>2 DEF Target, FpsOwn, FpsOf, FpsStates, ResolveTarget
<1>6. OwnersOf(Target)' \subseteq OwnersOf(Target)
  BY <1>4, <1>5 DEF OwnersOf, Targets
<1>7. FpsOwn'
  BY <1>1, <1>2, <1>5, <1>6 DEF FpsOwn
<1>8. verifier.pid \in Targets
  BY DEF OwnInv, IInv, VerifierShape
<1>9. OwnersOf(verifier.pid)' \subseteq OwnersOf(verifier.pid)
  BY <1>1, <1>4, <1>8 DEF OwnersOf, Targets
<1>10. VerifierOwn'
  BY <1>1, <1>2, <1>9 DEF VerifierOwn
<1> QED BY <1>1, <1>2, <1>3, <1>7, <1>10 DEF OwnInv

LEMMA DisplayOwn ==
    ASSUME OwnInv, IInv', NEW i \in Instances, Display(i)
    PROVE  OwnInv'
<1> DEFINE p == PidOf[i]
           q == [session.queued EXCEPT ![p] = @ \cup {i}]
<1>1. /\ owner[p] = i /\ session' = [session EXCEPT !.queued[p] = @ \cup {i}]
      /\ owner' = owner /\ adopted' = adopted /\ verifier' = verifier /\ fps' = fps
  BY DEF Display, world, workers
<1>2. p \in Pids /\ Framed(session) /\ VerifierOwn
  BY PidAssumption DEF OwnInv
<1>3. session' = [session EXCEPT !.queued = q]
  BY <1>1, <1>2 DEF Framed, Shape
<1>4. q \in [Pids -> SUBSET Instances]
  BY <1>2 DEF Framed
<1>5. /\ \A k \in Pids : k # p => q[k] = session.queued[k]
      /\ q[p] = session.queued[p] \cup {i}
  BY <1>2 DEF Framed
<1> HIDE DEF q
<1>6. /\ SameQuery(session, session') /\ session'.queued = q
      /\ session'.armed = session.armed /\ session'.seen = session.seen
  BY <1>2, <1>3, <1>4 DEF Framed, SameQuery, Shape
<1>7. VerifierOwn'
  <2>1. CASE verifier.pid = NoPid
    BY <1>1, <1>2, <2>1 DEF VerifierOwn
  <2>2. CASE verifier.pid # NoPid
    <3>1. verifier.pid \in Pids
      BY <2>2 DEF OwnInv, IInv, VerifierShape, Targets
    <3>2. OwnersOf(verifier.pid)' = OwnersOf(verifier.pid)
      BY <1>1 DEF OwnersOf
    <3>3. session'.queued[verifier.pid] \subseteq verifier.armedFor
      <4>1. CASE verifier.pid = p
        <5>1. OwnersOf(p) = {i}
          <6>1. i # NoInstance /\ p # NoPid
            BY PidAssumption, <1>2, NoPidIsTarget
          <6> QED BY <1>1, <6>1 DEF OwnersOf
        <5> QED BY <1>2, <1>5, <1>6, <2>2, <4>1, <5>1 DEF VerifierOwn
      <4>2. CASE verifier.pid # p
        BY <1>2, <1>5, <1>6, <2>2, <3>1, <4>2 DEF VerifierOwn
      <4> QED BY <4>1, <4>2
    <3> QED BY <1>1, <1>2, <1>6, <2>2, <3>2, <3>3 DEF VerifierOwn
  <2> QED BY <2>1, <2>2
<1> QED BY <1>1, <1>6, <1>7, WorkerOwn DEF SameQuery

LEMMA TickOwn ==
    ASSUME OwnInv, IInv', Tick
    PROVE  OwnInv'
<1> DEFINE h == fps.hold
           k == [[h EXCEPT !.age = Older(h.age)] EXCEPT !.tick = Older(h.tick)]
<1>1. /\ owner' = owner /\ session' = session /\ adopted' = adopted /\ verifier' = verifier
      /\ fps' = [fps EXCEPT !.hold.age = Older(@), !.hold.tick = Older(@)]
  BY DEF Tick, world, workers
<1>2. FpsOf(fps, adopted) /\ fps \in FpsStates /\ Framed(session)
  BY DEF OwnInv, FpsOwn, FpsOf
<1>3. fps' = [fps EXCEPT !.hold = k]
  BY <1>1, <1>2 DEF FpsStates
<1>4. h \in Holds /\ h.age = h.tick /\ OfOne(h.of, adopted)
  BY <1>2 DEF FpsOf, HoldOf
<1>5. Older(h.age) \in 0 .. HoldTicks
  BY <1>4, HoldAssumption DEF Holds, Older
<1>6. k = [pid |-> h.pid, of |-> h.of, age |-> Older(h.age), tick |-> Older(h.age)]
  <2> DEFINE j == [h EXCEPT !.age = Older(h.age)]
             l == [j EXCEPT !.tick = Older(h.tick)]
  <2>1. j = [pid |-> h.pid, of |-> h.of, age |-> Older(h.age), tick |-> h.tick]
    BY <1>4 DEF Holds
  <2>2. k = l
    OBVIOUS
  <2> HIDE DEF h, j, k
  <2>3. l = [pid |-> h.pid, of |-> h.of, age |-> Older(h.age), tick |-> Older(h.tick)]
    BY <2>1
  <2> QED BY <1>4, <2>2, <2>3
<1> HIDE DEF h, k
<1>7. k \in Holds /\ k.age = k.tick /\ k.of = h.of
  BY <1>4, <1>5, <1>6 DEF Holds
<1>8. HoldOf(k, adopted)
  BY <1>4, <1>7 DEF HoldOf
<1>9. /\ fps' \in FpsStates /\ fps'.hold = k /\ fps'.latest = fps.latest
      /\ fps'.mode = fps.mode /\ fps'.always = fps.always /\ fps'.ingame = fps.ingame
  BY <1>2, <1>3, <1>7 DEF FpsStates, Holds
<1>10. FpsOf(fps', adopted)
  BY <1>2, <1>8, <1>9 DEF FpsOf
<1>11. Target' = Target
  BY <1>9 DEF Target, ResolveTarget
<1>12. FpsOwn'
  BY <1>1, <1>10, <1>11, OtherTarget
<1>13. Beside(session, session')
  BY <1>1, <1>2, KeepsSelf DEF Keeps
<1> QED BY <1>1, <1>12, <1>13, UiOwn

-----------------------------------------------------------------------------
LEMMA OwnInit == FpsInit => OwnInv
<1> SUFFICES ASSUME FpsInit
             PROVE  OwnInv
  OBVIOUS
<1>1. IInv
  BY IInvInit
<1>2. /\ verifier = NoVerification /\ adopted = {}
      /\ owner = [p \in Pids |-> IF \E i \in Lasting : PidOf[i] = p
                                   THEN CHOOSE i \in Lasting : PidOf[i] = p
                                   ELSE NoInstance]
  BY DEF FpsInit
<1>3. owner \in [Pids -> Measured]
  <2>1. ASSUME NEW p \in Pids, \E i \in Lasting : PidOf[i] = p
        PROVE  (CHOOSE i \in Lasting : PidOf[i] = p) \in Measured
    BY <2>1, LastingAssumption DEF Measured
  <2>2. \A p \in Pids : owner[p] \in Measured
    BY <1>2, <2>1 DEF Measured
  <2> HIDE DEF OwnInv
  <2> QED BY <1>2, <2>2
<1>4. VerifierOwn
  BY <1>2, NoVerificationShape DEF VerifierOwn, OfOne
<1>5. PICK m \in FpsModes : fps = [mode |-> m, always |-> NoPid, ingame |-> NoPid,
                                latest |-> Unused, hold |-> NoHold]
  BY DEF FpsInit
<1>6. FpsOf(fps, adopted) /\ Target = NoPid
  <2>1. HoldOf(NoHold, adopted) /\ ShownOf(Unused, adopted)
    BY NothingIsOfOne
  <2>2. NoHold \in Holds /\ Unused \in Values
    BY <2>1 DEF HoldOf, ShownOf
  <2>3. fps \in FpsStates
    BY <1>5, <2>2, NoPidIsTarget DEF FpsStates, Holds, Values
  <2> QED BY <1>5, <2>1, <2>3 DEF FpsOf, Target, ResolveTarget
<1>7. FpsOwn
  BY <1>2, <1>6 DEF FpsOwn, OwnersOf
<1>8. PICK opened \in BOOLEAN, process \in BOOLEAN, frame \in BOOLEAN :
         session = Opened(opened, process, frame)
  <2>1. session \in Initialized
    BY DEF FpsInit
  <2>2. Initialized = UNION {{Opened(opened, process, frame) :
                                 process \in ProcessTelemetryReady(opened),
                                 frame \in FrameTelemetryReady(opened)} :
                                opened \in ClientOpens}
    BY DEF Initialized, Opened
  <2>3. PICK opened \in ClientOpens :
           session \in {Opened(opened, process, frame) :
                          process \in ProcessTelemetryReady(opened),
                          frame \in FrameTelemetryReady(opened)}
    BY <2>1, <2>2
  <2>4. /\ ProcessTelemetryReady(opened) \subseteq BOOLEAN
        /\ FrameTelemetryReady(opened) \subseteq BOOLEAN /\ opened \in BOOLEAN
    BY DEF ProcessTelemetryReady, FrameTelemetryReady, ClientOpens
  <2> QED BY <2>3, <2>4
<1>9. session = [ready |-> opened, processReady |-> process, frameReady |-> frame,
                 refs |-> [p \in Pids |-> 0], query |-> NoPid, sources |-> {},
                 armed |-> NoPid, seen |-> NoInstance, tracked |-> {},
                 queued |-> [p \in Pids |-> {}]]
  BY <1>8 DEF Opened, Closed
<1>10. Framed(session)
  <2>1. Shape(session)
    BY <1>9 DEF Shape
  <2>2. /\ session.ready = opened /\ session.processReady = process
        /\ session.frameReady = frame /\ session.sources = {}
        /\ session.armed = NoPid /\ session.seen = NoInstance
        /\ session.queued = [p \in Pids |-> {}]
    BY <1>9
  <2>3. session.queued \in [Pids -> SUBSET Instances]
    BY <2>2
  <2> QED BY <2>1, <2>2, <2>3, NoPidIsTarget DEF Framed, Measured
<1> QED BY <1>1, <1>3, <1>4, <1>7, <1>10 DEF OwnInv

LEMMA OwnStep == OwnInv /\ [FpsNext]_fpsVars => OwnInv'
<1> SUFFICES ASSUME OwnInv, [FpsNext]_fpsVars
             PROVE  OwnInv'
  OBVIOUS
<1>0. IInv'
  BY IInvStep DEF OwnInv
<1>1. CASE \E p \in Targets : OnForegroundProcessChanged(p)
  BY <1>0, <1>1, ForegroundOwn
<1>2. CASE ClearInGameForegroundProcess
             \/ \E i \in Instances : SetInGameForegroundProcess(i)
  BY <1>0, <1>2, InGameSteps
<1>3. CASE \E m \in FpsModes, p \in Targets : SetVisibilityMode(m, p)
  BY <1>0, <1>3, ModeOwn
<1>4. CASE ReconcileShow \/ ReconcileHide \/ ReconcileNothing \/ FpsTimer
  BY <1>0, <1>4, ReconcileOwn
<1>5. CASE \E p \in Pids : VerifierStart(p)
  BY <1>0, <1>5, VerifierStartOwn
<1>6. CASE VerifierStop \/ VerifierWorkerEnds
  BY <1>0, <1>6, VerifierEndOwn
<1>7. CASE VerifierPoll
  BY <1>0, <1>7, VerifierPollOwn
<1>8. CASE PollRead \/ PollLease \/ \E p \in Targets : Watch(p)
  BY <1>0, <1>8, ActivityOwn
<1>9. CASE \E i \in Instances : ProcessStarts(i) \/ Exit(i) \/ Display(i)
  BY <1>0, <1>9, LaunchOwn, ExitOwn, DisplayOwn
<1>10. CASE Tick
  BY <1>0, <1>10, TickOwn
<1>11. CASE UNCHANGED fpsVars
  BY <1>0, <1>11, StillOwn DEF fpsVars
<1> QED BY <1>1, <1>2, <1>3, <1>4, <1>5, <1>6, <1>7, <1>8, <1>9, <1>10, <1>11 DEF FpsNext

\* Three users hold a process at most three times.
LEMMA ThreeUsers ==
    ASSUME NEW h, NEW p
    PROVE  Cardinality(Using(h, p)) \in 0 .. 3
<1>1. IsFiniteSet(Users) /\ Cardinality(Users) \in Nat /\ Cardinality(Users) <= 3
  <2>1. IsFiniteSet({"query"}) /\ Cardinality({"query"}) = 1
    BY FS_Singleton
  <2>2. /\ IsFiniteSet({"query"} \cup {"verifier"})
        /\ Cardinality({"query"} \cup {"verifier"}) = 2
    BY <2>1, FS_AddElement
  <2>3. /\ IsFiniteSet(({"query"} \cup {"verifier"}) \cup {"activity"})
        /\ Cardinality(({"query"} \cup {"verifier"}) \cup {"activity"}) = 3
    BY <2>2, FS_AddElement
  <2>4. Users = ({"query"} \cup {"verifier"}) \cup {"activity"}
    BY DEF Users
  <2> QED BY <2>3, <2>4
<1>2. Using(h, p) \subseteq Users
  BY DEF Using
<1>3. Cardinality(Using(h, p)) <= Cardinality(Users)
  BY <1>1, <1>2, FS_Subset
<1>4. Cardinality(Using(h, p)) \in Nat
  BY UsingIsFinite
<1> QED BY <1>1, <1>3, <1>4

LEMMA OwnImplies == OwnInv => MeasurementsAreOwn
<1> SUFFICES ASSUME OwnInv
             PROVE  MeasurementsAreOwn
  OBVIOUS
<1>1. /\ Framed(session) /\ Counted(session, Held) /\ session.query = Held["query"]
      /\ FpsOf(fps, adopted) /\ VerifierOwn
  BY DEF OwnInv, IInv, Sound, FpsOwn
<1>2. FpsTypeOK
  <2>1. session.refs \in [Pids -> 0 .. 3]
    <3>1. /\ session.refs \in [Pids -> Nat]
          /\ \A p \in Pids : session.refs[p] = Cardinality(Using(Held, p))
      BY <1>1 DEF Counted
    <3>2. \A p \in Pids : session.refs[p] \in 0 .. 3
      BY <3>1, ThreeUsers
    <3> QED BY <3>1, <3>2
  <2>2. session.query \in Targets /\ session.tracked \in SUBSET Pids
    BY <1>1 DEF Counted, Users
  <2>3. /\ Shape(session)
        /\ session.ready \in BOOLEAN /\ session.processReady \in BOOLEAN
        /\ session.frameReady \in BOOLEAN /\ session.sources \in SUBSET Instances
        /\ session.armed \in Targets /\ session.seen \in Measured
        /\ session.queued \in [Pids -> SUBSET Instances]
    BY <1>1 DEF Framed
  <2>4. session \in Sessions
    BY <2>1, <2>2, <2>3 DEF Sessions, Shape
  <2> QED BY <1>1, <2>4 DEF FpsTypeOK, FpsOf
<1>3. FpsIsTargets /\ HoldExpires
  BY <1>1 DEF FpsIsTargets, HoldExpires, FpsOf, ShownOf, OfOne
<1>4. EvidenceIsFresh
  BY <1>1 DEF EvidenceIsFresh, VerifierOwn, OfOne
<1> QED BY <1>2, <1>3, <1>4 DEF MeasurementsAreOwn

\* However targets change, PIDs are reused, samples are late and the users of
\* the session interleave: the HUD shows a value of a process that had the
\* target's PID since the target was adopted, for less than kFpsStaleHoldMs
\* after it was fresh, and a frame counts as evidence only for a verification
\* that began before it was displayed (SampleFps, FpsStaleHold::Observe,
\* BeginVerification), for every HoldTicks.
THEOREM NumbersAreOwn == FpsSpec => []MeasurementsAreOwn
<1>1. FpsInit => OwnInv
  BY OwnInit
<1>2. OwnInv /\ [FpsNext]_fpsVars => OwnInv'
  BY OwnStep
<1>3. OwnInv => MeasurementsAreOwn
  BY OwnImplies
<1> QED BY <1>1, <1>2, <1>3, PTL DEF FpsSpec

-----------------------------------------------------------------------------
(* The system metrics.                                                     *)

HistoryOK == history \subseteq Samples
PowerOK == sampling \in BOOLEAN /\ plugged \in BOOLEAN /\ power \in Powers

Retainable ==
    [cached: BOOLEAN, missing: 0 .. MissingThreshold - 1,
     had: BOOLEAN, misses: 0 .. MissingThreshold]

\* While a value is retained the code's count is the true one.
Exact(r) ==
    /\ r \in Retainable
    /\ r.cached <=> r.had /\ r.misses < MissingThreshold
    /\ r.cached => r.missing = r.misses

SystemInv == PowerOK /\ HistoryOK /\ OneDischargeOnly /\ Exact(retained)

\* A poll keeps the count exact, whether it brings a value or not.
LEMMA RetainedStaysExact ==
    ASSUME NEW r, Exact(r), NEW current \in BOOLEAN
    PROVE  Exact(UpdateRetainedTelemetryField(r, current))
<1>1. MissingThreshold \in Nat \ {0}
  BY SystemAssumption
<1>2. CASE current
  BY <1>1, <1>2 DEF Exact, Retainable, UpdateRetainedTelemetryField
<1>3. CASE ~current
  <2>1. r.misses \in 0 .. MissingThreshold /\ r.missing \in 0 .. MissingThreshold - 1
        /\ r.cached \in BOOLEAN /\ r.had \in BOOLEAN
    BY DEF Exact, Retainable
  <2>2. Missed(r) \in 0 .. MissingThreshold
        /\ (r.misses < MissingThreshold => Missed(r) = r.misses + 1)
        /\ (r.misses = MissingThreshold => Missed(r) = MissingThreshold)
    BY <1>1, <2>1 DEF Missed
  <2>a. r = [cached |-> r.cached, missing |-> r.missing, had |-> r.had, misses |-> r.misses]
        /\ (r.cached <=> r.had /\ r.misses < MissingThreshold)
        /\ (r.cached => r.missing = r.misses)
    BY DEF Exact, Retainable
  <2>3. CASE r.cached /\ r.missing + 1 >= MissingThreshold
    <3>1. UpdateRetainedTelemetryField(r, current) =
            [cached |-> FALSE, missing |-> 0, had |-> r.had, misses |-> Missed(r)]
      BY <1>3, <2>3, <2>a DEF UpdateRetainedTelemetryField
    <3>2. Missed(r) = MissingThreshold
      BY <1>1, <2>1, <2>2, <2>3, <2>a
    <3>3. QED
      BY <1>1, <2>1, <2>2, <3>1, <3>2 DEF Exact, Retainable
  <2>4. CASE r.cached /\ ~(r.missing + 1 >= MissingThreshold)
    <3>1. UpdateRetainedTelemetryField(r, current) =
            [cached |-> r.cached, missing |-> r.missing + 1, had |-> r.had,
             misses |-> Missed(r)]
      BY <1>3, <2>4, <2>a DEF UpdateRetainedTelemetryField
    <3>2. Missed(r) = r.missing + 1 /\ Missed(r) < MissingThreshold
          /\ r.missing + 1 \in 0 .. MissingThreshold - 1
      BY <1>1, <2>1, <2>2, <2>4, <2>a
    <3>3. QED
      BY <1>1, <2>1, <2>2, <2>4, <2>a, <3>1, <3>2 DEF Exact, Retainable
  <2>5. CASE ~r.cached
    <3>1. UpdateRetainedTelemetryField(r, current) =
            [cached |-> r.cached, missing |-> r.missing, had |-> r.had,
             misses |-> Missed(r)]
      BY <1>3, <2>5, <2>a DEF UpdateRetainedTelemetryField
    <3>2. ~(r.had /\ Missed(r) < MissingThreshold)
      BY <1>1, <2>1, <2>2, <2>5, <2>a
    <3>3. QED
      BY <1>1, <2>1, <2>2, <2>5, <2>a, <3>1, <3>2 DEF Exact, Retainable
  <2>6. QED
    BY <2>1, <2>3, <2>4, <2>5
<1>4. QED
  BY <1>2, <1>3

\* A pushed history holds samples of the old one and the new sample.
LEMMA PushIsHistory ==
    ASSUME NEW h \in SUBSET Samples, \A s \in h : ~s.recharged
    PROVE  Push(h) \subseteq Samples /\ \A s \in Push(h) : ~s.recharged
<1> DEFINE new == [age |-> 0, recharged |-> FALSE]
<1>1. new \in Samples /\ ~new.recharged
  BY DEF Samples
<1>2. Push(h) = {s \in h : s.age <= Window} \cup {new}
  BY DEF Push
<1>3. QED
  BY <1>1, <1>2

LEMMA InitSystemInv == SystemInit => SystemInv
<1>1. MissingThreshold \in Nat \ {0}
  BY SystemAssumption
<1>3. Exact(NothingRetained)
  BY <1>1 DEF Exact, Retainable, NothingRetained
<1>4. NoPower \in Powers
  BY DEF NoPower, Powers
<1>5. QED
  BY <1>3, <1>4 DEF SystemInit, SystemInv, PowerOK, HistoryOK, OneDischargeOnly

\* A sample of the EC: what is left of the history was taken on this
\* discharge.
LEMMA EcSampleKeepsDischarge ==
    ASSUME SystemInv, NEW reading \in DischargeReadings
    PROVE  /\ HistoryAfter(Witnessed, reading) \subseteq Samples
           /\ \A s \in HistoryAfter(Witnessed, reading) : ~s.recharged
<1>1. /\ history \subseteq Samples /\ plugged \in BOOLEAN
      /\ \A s \in history : ~s.recharged
      /\ power.onBattery \in BOOLEAN
  BY DEF SystemInv, PowerOK, HistoryOK, OneDischargeOnly, Powers
<1>2. ASSUME NEW s \in history
      PROVE  [age |-> s.age, recharged |-> s.recharged \/ plugged] \in Samples
  <2>1. s.age \in Nat /\ s.recharged \in BOOLEAN
    BY <1>1 DEF Samples
  <2>2. (s.recharged \/ plugged) \in BOOLEAN
    OBVIOUS
  <2>3. QED
    BY <2>1, <2>2 DEF Samples
<1>3. Witnessed \subseteq Samples
  BY <1>2 DEF Witnessed
<1>4. ASSUME ~plugged PROVE \A s \in Witnessed : ~s.recharged
  BY <1>1, <1>4 DEF Witnessed
<1>5. reading => power.onBattery /\ ~plugged
  BY DEF DischargeReadings
<1>6. CASE power.onBattery /\ reading
  <2>1. HistoryAfter(Witnessed, reading) = Push(Witnessed)
    BY <1>6 DEF HistoryAfter, ObserveBattery
  <2>2. QED
    BY <1>3, <1>4, <1>5, <1>6, <2>1, PushIsHistory
<1>7. CASE ~(power.onBattery /\ reading)
  <2>1. HistoryAfter(Witnessed, reading) = {}
    BY <1>5, <1>7 DEF HistoryAfter, ObserveBattery
  <2>2. QED
    BY <2>1
<1>8. QED
  BY <1>6, <1>7

LEMMA NextSystemInv == SystemInv /\ [SystemNext]_systemVars => SystemInv'
<1> SUFFICES ASSUME SystemInv, [SystemNext]_systemVars PROVE SystemInv'
  OBVIOUS
<1> USE SystemAssumption
<1>a. /\ sampling \in BOOLEAN /\ plugged \in BOOLEAN /\ power \in Powers
      /\ history \subseteq Samples /\ Exact(retained)
      /\ \A s \in history : ~s.recharged
  BY DEF SystemInv, PowerOK, HistoryOK, OneDischargeOnly
<1>c. NoPower \in Powers
  BY DEF NoPower, Powers
<1>d. ASSUME NEW h, SampleBattery(h)
      PROVE  power' \in Powers /\ (history' = {} \/ history' = h)
  <2>1. CASE power' = NoPower /\ history' = {}
    BY <2>1, <1>c
  <2>2. CASE /\ \E onBattery \in {~plugged, FALSE} :
                  power' = [known |-> TRUE, onBattery |-> onBattery, minutes |-> Ready(h)]
             /\ history' = h
    <3>1. PICK onBattery \in {~plugged, FALSE} :
            power' = [known |-> TRUE, onBattery |-> onBattery, minutes |-> Ready(h)]
      BY <2>2
    <3>2. onBattery \in BOOLEAN
      BY <1>a
    <3>3. Ready(h) \in BOOLEAN
      BY DEF Ready
    <3>4. QED
      BY <2>2, <3>1, <3>2, <3>3 DEF Powers
  <2>3. QED
    BY <1>d, <2>1, <2>2 DEF SampleBattery
<1>1. CASE StartBaseSampling
  <2>1. power' \in Powers /\ history' = {}
    BY <1>1, <1>d DEF StartBaseSampling
  <2>2. Exact(retained')
    BY <1>1, <1>a, RetainedStaysExact DEF StartBaseSampling
  <2>3. sampling' \in BOOLEAN /\ plugged' \in BOOLEAN
    BY <1>1, <1>a DEF StartBaseSampling
  <2>4. QED
    BY <2>1, <2>2, <2>3 DEF SystemInv, PowerOK, HistoryOK, OneDischargeOnly
<1>2. CASE EcTimer
  <2>1. PICK reading \in DischargeReadings : history' = HistoryAfter(Witnessed, reading)
    BY <1>2 DEF EcTimer, SampleSystemEc
  <2>2. Exact(retained')
    BY <1>2, <1>a, RetainedStaysExact DEF EcTimer, SampleSystemEc
  <2>3. HistoryOK' /\ OneDischargeOnly'
    BY <2>1, EcSampleKeepsDischarge DEF HistoryOK, OneDischargeOnly
  <2>4. QED
    BY <1>2, <1>a, <2>2, <2>3 DEF EcTimer, SystemInv, PowerOK
<1>3. CASE BatteryTimer
  <2>1. power' \in Powers /\ (history' = {} \/ history' = history)
    BY <1>3, <1>a, <1>d DEF BatteryTimer
  <2>2. HistoryOK' /\ OneDischargeOnly'
    BY <2>1, <1>a DEF HistoryOK, OneDischargeOnly
  <2>3. QED
    BY <1>3, <1>a, <2>1, <2>2 DEF BatteryTimer, SystemInv, PowerOK
<1>4. CASE ResetSamplingState
  <2>1. Exact(NothingRetained)
    BY DEF Exact, Retainable, NothingRetained
  <2>2. QED
    BY <1>4, <1>a, <1>c, <2>1
    DEF ResetSamplingState, SystemInv, PowerOK, HistoryOK, OneDischargeOnly
<1>5. CASE Elapse
  <2>1. history' = {[s EXCEPT !.age = @ + 1] : s \in history}
    BY <1>5 DEF Elapse
  <2>2. \A s \in history : /\ [s EXCEPT !.age = @ + 1] \in Samples
                            /\ [s EXCEPT !.age = @ + 1].recharged = s.recharged
    BY <1>a DEF Samples
  <2>3. HistoryOK' /\ OneDischargeOnly'
    BY <1>a, <2>1, <2>2 DEF HistoryOK, OneDischargeOnly
  <2>4. QED
    BY <1>5, <1>a, <2>3 DEF Elapse, SystemInv, PowerOK
<1>6. CASE Charger
  BY <1>6, <1>a DEF Charger, SystemInv, PowerOK, HistoryOK, OneDischargeOnly
<1>7. CASE UNCHANGED systemVars
  BY <1>7, <1>a DEF systemVars, SystemInv, PowerOK, HistoryOK, OneDischargeOnly
<1>8. QED
  BY <1>1, <1>2, <1>3, <1>4, <1>5, <1>6, <1>7 DEF SystemNext

\* The variables of the system samples keep their types, whatever the
\* thresholds and the window.
THEOREM SystemTypeCorrect == SystemSpec => []SystemTypeOK
<1>1. SystemInv => SystemTypeOK
  BY DEF SystemInv, SystemTypeOK, PowerOK, HistoryOK, Exact, Retainable
<1>2. QED
  BY <1>1, InitSystemInv, NextSystemInv, PTL DEF SystemSpec

\* The battery history never spans a recharge that a sample has seen.
THEOREM HistoryIsOneDischarge == SystemSpec => []OneDischargeOnly
<1>1. SystemInv => OneDischargeOnly
  BY DEF SystemInv
<1>2. QED
  BY <1>1, InitSystemInv, NextSystemInv, PTL DEF SystemSpec

\* A metric is shown for exactly the promised number of empty polls.
THEOREM RetainedExactly == SystemSpec => []RetentionIsExact
<1>1. SystemInv => RetentionIsExact
  BY DEF SystemInv, Exact, RetentionIsExact
<1>2. QED
  BY <1>1, InitSystemInv, NextSystemInv, PTL DEF SystemSpec

\* Types, one discharge and exact retention together, for every threshold and
\* window.
THEOREM BatteryStaysHonest == SystemSpec => []BatteryIsHonest
<1>1. SystemInv => BatteryIsHonest
  <2>1. SystemInv => SystemTypeOK
    BY DEF SystemInv, SystemTypeOK, PowerOK, HistoryOK, Exact, Retainable
  <2>2. SystemInv => OneDischargeOnly
    BY DEF SystemInv
  <2>3. SystemInv => RetentionIsExact
    BY DEF SystemInv, Exact, RetentionIsExact
  <2>4. QED
    BY <2>1, <2>2, <2>3 DEF BatteryIsHonest
<1>2. QED
  BY <1>1, InitSystemInv, NextSystemInv, PTL DEF SystemSpec

-----------------------------------------------------------------------------
(* The EC helper.                                                          *)

\* A client in the middle of a Send past EnsureConnected has a pipe, and one
\* that has a pipe has made its launch and has not timed out.
Latched ==
    /\ at \in {"prompt", "connect", "write", "read"} => pipe # None
    /\ pipe # None => attempted /\ timeouts = 0
    /\ ~attempted => prompts = 0 /\ timeouts = 0
    /\ FailsOnce

\* Nothing is left in a pipe whose server's end is closed.
ClosedIsEmpty ==
    \A h \in Helpers : h # pipe => toHelper[h] = {} /\ toClient[h] = {}

\* Between two exchanges nothing is on its way: no response but the one of a
\* helper that could not be set up and left, and no request it might still read.
NothingOnItsWay ==
    (pipe # None /\ at # "read") =>
        /\ helper[pipe] # "working"
        /\ toHelper[pipe] = {} \/ helper[pipe] = "left"
        /\ \A r \in toClient[pipe] : r.request = None

\* During an exchange the request is in one place: in the pipe, with the helper,
\* or answered.
OneExchange ==
    at = "read" =>
        /\ request # None
        /\ toHelper[pipe] \subseteq {request}
        /\ helper[pipe] = "working" => toHelper[pipe] = {} /\ serving[pipe] = request
        /\ \A r \in toClient[pipe] :
              /\ r.request \in {None, request}
              /\ r.request = request =>
                    /\ helper[pipe] # "working"
                    /\ toHelper[pipe] = {} \/ helper[pipe] = "left"
                    /\ \A t \in toClient[pipe] : t.request = request => t = r

\* A helper that has not been set up has written nothing, and one that could not
\* be has written one response to no request and left.
SetUpFirst ==
    pipe # None =>
        /\ at = "prompt" => helper[pipe] = "absent"
        /\ helper[pipe] \in {"absent", "starting", "opened"} => toClient[pipe] = {}
        /\ \A r \in toClient[pipe] :
              r.request = None => helper[pipe] = "left" /\ toClient[pipe] = {r}

Answered == payload # None => payload = request /\ at \in {"idle", "ensure"}

EcInv == /\ TypeOK
        /\ Latched
        /\ ClosedIsEmpty
        /\ NothingOnItsWay
        /\ OneExchange
        /\ SetUpFirst
        /\ Answered

\* A read leads to the next one or to the end of the sample.
LEMMA NextReadType ==
    ASSUME NEW ok \in BOOLEAN, read \in 0 .. LastRead, NextRead(ok)
    PROVE  read' \in 0 .. LastRead /\ at' \in {"idle", "ensure"}
BY DEF NextRead, Continues, LastRead

\* Type correctness of the two pipes after the server's end is closed.
LEMMA ClosePipeType ==
    ASSUME TypeOK, ClosePipe
    PROVE  /\ toHelper' \in [Helpers -> SUBSET Requests]
           /\ toClient' \in [Helpers -> SUBSET Responses]
BY DEF ClosePipe, TypeOK

\* The runtime starts without a pipe and without a helper.
LEMMA InitIInv == Init => EcInv
<1> SUFFICES ASSUME Init PROVE EcInv
  OBVIOUS
<1>1. TypeOK
  <2>1. read \in 0 .. LastRead /\ prompts \in Nat /\ timeouts \in Nat
    BY DEF Init, LastRead
  <2>2. at \in ClientStates /\ stage \in Stages /\ attempted \in BOOLEAN
    BY DEF Init, ClientStates, Stages
  <2>3. /\ helper \in [Helpers -> HelperStates]
        /\ serving \in [Helpers -> Requests \cup {None}]
        /\ toHelper \in [Helpers -> SUBSET Requests]
        /\ toClient \in [Helpers -> SUBSET Responses]
    BY DEF Init, HelperStates
  <2>4. /\ pipe \in Helpers \cup {None}
        /\ request \in Requests \cup {None} /\ payload \in Requests \cup {None}
    BY DEF Init
  <2>5. QED
    BY <2>1, <2>2, <2>3, <2>4 DEF TypeOK
<1>2. Latched /\ ClosedIsEmpty
  BY DEF Init, Latched, ClosedIsEmpty, FailsOnce
<1>3. NothingOnItsWay /\ OneExchange /\ SetUpFirst /\ Answered
  BY DEF Init, NothingOnItsWay, OneExchange, SetUpFirst, Answered
<1>4. QED
  BY <1>1, <1>2, <1>3 DEF EcInv

\* A failure of the session leaves no pipe, so that there is nothing left to
\* take for an answer.
LEMMA SessionFailsIInv ==
    ASSUME EcInv, SessionFails, at \notin {"idle", "ensure"},
           timeouts' \in {timeouts, timeouts + 1}
    PROVE  EcInv'
<1> USE NoneAssumption
<1>1. pipe # None /\ timeouts = 0 /\ attempted
  BY DEF EcInv, TypeOK, Latched, ClientStates
<1>2. at' \in {"idle", "ensure"} /\ read' \in 0 .. LastRead
  BY NextReadType DEF EcInv, TypeOK, SessionFails
<1>3. /\ pipe' = None /\ attempted' = attempted /\ prompts' = prompts
      /\ request' = request /\ payload' = None /\ stage' = "session"
      /\ helper' = helper /\ serving' = serving
  BY DEF SessionFails, CloseTransport, ClosePipe, helperVars
<1>4. \A h \in Helpers : toHelper'[h] = {} /\ toClient'[h] = {}
  BY DEF SessionFails, CloseTransport, ClosePipe, EcInv, ClosedIsEmpty
<1>5. TypeOK'
  <2>1. /\ toHelper' \in [Helpers -> SUBSET Requests]
        /\ toClient' \in [Helpers -> SUBSET Responses]
    BY ClosePipeType DEF EcInv, SessionFails, CloseTransport
  <2>2. at' \in ClientStates /\ stage' \in Stages /\ timeouts' \in Nat
    BY <1>1, <1>2, <1>3 DEF ClientStates, Stages
  <2>3. QED
    BY <1>2, <1>3, <2>1, <2>2 DEF EcInv, TypeOK
<1>6. Latched'
  BY <1>1, <1>2, <1>3 DEF EcInv, Latched, FailsOnce
<1>7. ClosedIsEmpty'
  BY <1>4 DEF ClosedIsEmpty
<1>8. (NothingOnItsWay /\ OneExchange /\ SetUpFirst /\ Answered)'
  BY <1>2, <1>3 DEF NothingOnItsWay, OneExchange, SetUpFirst, Answered
<1>9. QED
  BY <1>5, <1>6, <1>7, <1>8 DEF EcInv

\* A new client starts as the first one did, except for the helpers that may
\* still run.
LEMMA RestartIInv == ASSUME EcInv, Restart PROVE EcInv'
<1> USE NoneAssumption
<1>1. /\ pipe' = None /\ attempted' = FALSE /\ stage' = "None" /\ payload' = None
      /\ prompts' = 0 /\ timeouts' = 0 /\ at' = "idle" /\ read' = 0
      /\ request' = request /\ helper' = helper /\ serving' = serving
  BY DEF Restart, ClosePipe, helperVars
<1>2. TypeOK'
  <2>1. /\ toHelper' \in [Helpers -> SUBSET Requests]
        /\ toClient' \in [Helpers -> SUBSET Responses]
    BY ClosePipeType DEF EcInv, Restart
  <2>2. at' \in ClientStates /\ stage' \in Stages /\ read' \in 0 .. LastRead
    BY <1>1 DEF ClientStates, Stages, LastRead
  <2>3. QED
    BY <1>1, <2>1, <2>2 DEF EcInv, TypeOK
<1>3. Latched' /\ Answered'
  BY <1>1 DEF Latched, FailsOnce, Answered
<1>4. ClosedIsEmpty'
  BY DEF EcInv, ClosedIsEmpty, Restart, ClosePipe
<1>5. NothingOnItsWay' /\ OneExchange' /\ SetUpFirst'
  BY <1>1 DEF NothingOnItsWay, OneExchange, SetUpFirst
<1>6. QED
  BY <1>2, <1>3, <1>4, <1>5 DEF EcInv

\* Entering a Send: with a pipe, latched, or with the one launch of the client.
LEMMA EnsureIInv ==
    ASSUME EcInv, AlreadyConnected \/ AlreadyAttempted \/ CreatePipeFails
    PROVE  EcInv'
<1> USE NoneAssumption
<1>1. /\ at = "ensure" /\ payload' = None /\ pipe' = pipe /\ request' = request
      /\ prompts' = prompts /\ timeouts' = timeouts
      /\ helper' = helper /\ serving' = serving
      /\ toHelper' = toHelper /\ toClient' = toClient
  BY DEF AlreadyConnected, AlreadyAttempted, CreatePipeFails, helperVars, pipeVars
<1>2. /\ at' \in {"idle", "ensure", "write"} /\ read' \in 0 .. LastRead
      /\ stage' \in Stages /\ attempted' \in BOOLEAN
      /\ attempted => attempted'
      /\ at' = "write" => pipe # None
  <2>1. CASE AlreadyConnected
    BY <2>1 DEF AlreadyConnected, EcInv, TypeOK
  <2>2. CASE AlreadyAttempted
    BY <2>2, NextReadType DEF AlreadyAttempted, EcInv, TypeOK
  <2>3. CASE CreatePipeFails
    BY <2>3, NextReadType DEF CreatePipeFails, EcInv, TypeOK, Stages
  <2>4. QED
    BY <2>1, <2>2, <2>3
<1>3. TypeOK'
  <2>1. at' \in ClientStates
    BY <1>2 DEF ClientStates
  <2>2. QED
    BY <1>1, <1>2, <2>1 DEF EcInv, TypeOK
<1>4. Latched'
  BY <1>1, <1>2 DEF EcInv, Latched, FailsOnce
<1>5. ClosedIsEmpty' /\ SetUpFirst'
  BY <1>1, <1>2 DEF EcInv, ClosedIsEmpty, SetUpFirst
<1>6. NothingOnItsWay' /\ OneExchange' /\ Answered'
  BY <1>1, <1>2 DEF EcInv, NothingOnItsWay, OneExchange, Answered
<1>7. QED
  BY <1>3, <1>4, <1>5, <1>6 DEF EcInv

\* The pipe of a launch is empty, and its helper has not begun.
LEMMA LaunchIInv == ASSUME EcInv, NEW h \in Helpers, Launch(h) PROVE EcInv'
<1> USE NoneAssumption
<1>1. /\ ~attempted /\ pipe = None /\ at' = "prompt" /\ pipe' = h
      /\ attempted' = TRUE /\ payload' = None
      /\ prompts = 0 /\ prompts' = 1 /\ timeouts = 0 /\ timeouts' = 0
      /\ read' = read /\ stage' = stage /\ request' = request
      /\ serving' = serving /\ toHelper' = toHelper /\ toClient' = toClient
      /\ helper' = [helper EXCEPT ![h] = "absent"]
  BY DEF Launch, EcInv, Latched, pipeVars
<1>2. \A g \in Helpers : toHelper[g] = {} /\ toClient[g] = {}
  BY <1>1 DEF EcInv, ClosedIsEmpty
<1>3. helper' \in [Helpers -> HelperStates] /\ helper'[h] = "absent"
  BY <1>1 DEF EcInv, TypeOK, HelperStates
<1>4. TypeOK'
  <2>1. at' \in ClientStates
    BY <1>1 DEF ClientStates
  <2>2. QED
    BY <1>1, <1>3, <2>1 DEF EcInv, TypeOK
<1>5. Latched'
  BY <1>1 DEF Latched, FailsOnce
<1>6. ClosedIsEmpty' /\ NothingOnItsWay' /\ SetUpFirst'
  BY <1>1, <1>2, <1>3 DEF ClosedIsEmpty, NothingOnItsWay, SetUpFirst
<1>7. OneExchange' /\ Answered'
  BY <1>1 DEF OneExchange, Answered
<1>8. QED
  BY <1>4, <1>5, <1>6, <1>7 DEF EcInv

\* The prompt is accepted; the helper connects.
LEMMA ConnectIInv ==
    ASSUME EcInv, LaunchSucceeds \/ ConnectSucceeds PROVE EcInv'
<1> USE NoneAssumption
<1>1. /\ at \in {"prompt", "connect"} /\ at' \in {"connect", "write"}
      /\ pipe # None /\ pipe' = pipe /\ attempted' = attempted
      /\ read' = read /\ request' = request /\ payload' = payload
      /\ prompts' = prompts /\ timeouts' = timeouts
      /\ serving' = serving /\ toHelper' = toHelper /\ toClient' = toClient
  BY DEF LaunchSucceeds, ConnectSucceeds, EcInv, Latched, helperVars, pipeVars
<1>2. helper' \in [Helpers -> HelperStates] /\ stage' \in Stages
  BY DEF LaunchSucceeds, ConnectSucceeds, helperVars, EcInv, TypeOK,
     HelperStates, Stages
<1>3. \/ /\ helper[pipe] = "absent" /\ helper'[pipe] = "starting"
         /\ toClient[pipe] = {} /\ toHelper[pipe] = {}
      \/ helper' = helper
  <2>1. CASE LaunchSucceeds
    <3>1. helper[pipe] = "absent" /\ toClient[pipe] = {}
      BY <1>1, <2>1 DEF LaunchSucceeds, EcInv, SetUpFirst
    <3>2. toHelper[pipe] = {}
      BY <1>1, <2>1, <3>1 DEF LaunchSucceeds, EcInv, NothingOnItsWay
    <3>3. helper'[pipe] = "starting"
      BY <1>1, <2>1 DEF LaunchSucceeds, EcInv, TypeOK
    <3>4. QED
      BY <3>1, <3>2, <3>3
  <2>2. CASE ConnectSucceeds
    BY <2>2 DEF ConnectSucceeds, helperVars
  <2>3. QED
    BY <2>1, <2>2
<1>4. TypeOK'
  <2>1. at' \in ClientStates
    BY <1>1 DEF ClientStates
  <2>2. QED
    BY <1>1, <1>2, <2>1 DEF EcInv, TypeOK
<1>5. Latched' /\ ClosedIsEmpty' /\ OneExchange' /\ Answered'
  BY <1>1 DEF EcInv, Latched, FailsOnce, ClosedIsEmpty, OneExchange, Answered
<1>6. NothingOnItsWay' /\ SetUpFirst'
  <2>1. CASE helper' = helper
    BY <1>1, <2>1 DEF EcInv, NothingOnItsWay, SetUpFirst
  <2>2. CASE /\ helper'[pipe] = "starting"
             /\ toClient[pipe] = {} /\ toHelper[pipe] = {}
    BY <1>1, <2>2 DEF NothingOnItsWay, SetUpFirst
  <2>3. QED
    BY <1>3, <2>1, <2>2
<1>7. QED
  BY <1>4, <1>5, <1>6 DEF EcInv

\* A request is written into a pipe from which nothing is due.
LEMMA WriteRequestIInv ==
    ASSUME EcInv, NEW q \in Requests, WriteRequest(q) PROVE EcInv'
<1> USE NoneAssumption
<1>1. /\ at = "write" /\ at' = "read" /\ request' = q /\ q # None
      /\ pipe # None /\ pipe' = pipe /\ pipe \in Helpers
      /\ attempted' = attempted /\ read' = read /\ stage' = stage
      /\ payload' = payload /\ prompts' = prompts /\ timeouts' = timeouts
      /\ helper' = helper /\ serving' = serving /\ toClient' = toClient
      /\ toHelper' = [toHelper EXCEPT ![pipe] = @ \cup {q}]
      /\ helper[pipe] # "left"
  BY DEF WriteRequest, EcInv, TypeOK, Latched, helperVars
<1>2. toHelper' \in [Helpers -> SUBSET Requests]
  BY <1>1 DEF EcInv, TypeOK
<1>3. toHelper'[pipe] = {q} /\ \A h \in Helpers : h # pipe => toHelper'[h] = {}
  BY <1>1 DEF EcInv, TypeOK, ClosedIsEmpty, NothingOnItsWay
<1>4. helper[pipe] # "working" /\ \A r \in toClient[pipe] : r.request = None
  BY <1>1 DEF EcInv, NothingOnItsWay
<1>5. TypeOK'
  <2>1. at' \in ClientStates
    BY <1>1 DEF ClientStates
  <2>2. QED
    BY <1>1, <1>2, <2>1 DEF EcInv, TypeOK
<1>6. Latched' /\ Answered' /\ NothingOnItsWay' /\ SetUpFirst'
  BY <1>1 DEF EcInv, Latched, FailsOnce, Answered, NothingOnItsWay,
     SetUpFirst
<1>7. ClosedIsEmpty' /\ OneExchange'
  BY <1>1, <1>3, <1>4 DEF EcInv, ClosedIsEmpty, OneExchange
<1>8. QED
  BY <1>5, <1>6, <1>7 DEF EcInv

\* A response that carries data is the answer to the request, and it is the
\* last thing on its way.
LEMMA ReadResponseIInv ==
    ASSUME EcInv, NEW r \in Responses, ReadResponse(r) PROVE EcInv'
<1> USE NoneAssumption
<1>1. /\ at = "read" /\ r \in toClient[pipe]
      /\ pipe # None /\ pipe' = pipe /\ pipe \in Helpers
      /\ attempted' = attempted /\ request' = request
      /\ prompts' = prompts /\ timeouts' = timeouts
      /\ helper' = helper /\ serving' = serving /\ toHelper' = toHelper
      /\ toClient' = [toClient EXCEPT ![pipe] = @ \ {r}]
      /\ payload' \in {None, r.request}
  BY DEF ReadResponse, EcInv, TypeOK, Latched, helperVars
<1>2. at' \in {"idle", "ensure"} /\ read' \in 0 .. LastRead
  <2>1. NextRead(r.result = "data")
    BY DEF ReadResponse
  <2>2. (r.result = "data") \in BOOLEAN
    OBVIOUS
  <2>3. QED
    BY <2>1, <2>2, NextReadType DEF EcInv, TypeOK
<1>3. r.request \in {None, request} /\ r.request \in Requests \cup {None}
  BY <1>1 DEF EcInv, OneExchange, Responses
<1>4. /\ toClient' \in [Helpers -> SUBSET Responses]
      /\ toClient'[pipe] = toClient[pipe] \ {r}
      /\ \A h \in Helpers : h # pipe => toClient'[h] = toClient[h]
  BY <1>1 DEF EcInv, TypeOK
<1>5. TypeOK'
  <2>1. at' \in ClientStates
    BY <1>2 DEF ClientStates
  <2>2. stage' \in Stages
    BY DEF ReadResponse, Stages
  <2>3. QED
    BY <1>1, <1>2, <1>3, <1>4, <2>1, <2>2 DEF EcInv, TypeOK
<1>6. Latched' /\ ClosedIsEmpty' /\ SetUpFirst'
  BY <1>1, <1>2, <1>4 DEF EcInv, Latched, FailsOnce, ClosedIsEmpty,
     SetUpFirst
<1>7. OneExchange' /\ Answered'
  BY <1>1, <1>2, <1>3 DEF OneExchange, Answered
<1>8. NothingOnItsWay'
  <2>1. /\ helper[pipe] # "working"
        /\ toHelper[pipe] = {} \/ helper[pipe] = "left"
    <3>1. CASE r.request = None
      BY <1>1, <3>1 DEF EcInv, SetUpFirst
    <3>2. CASE r.request = request
      BY <1>1, <3>2 DEF EcInv, OneExchange
    <3>3. QED
      BY <1>3, <3>1, <3>2
  <2>2. ASSUME NEW t \in toClient'[pipe] PROVE t.request = None
    <3>1. t \in toClient[pipe] /\ t # r
      BY <1>4, <2>2
    <3>2. r.request # None
      BY <1>1, <3>1 DEF EcInv, SetUpFirst
    <3>3. t.request \in {None, request}
      BY <1>1, <3>1 DEF EcInv, OneExchange
    <3>4. t.request # request
      BY <1>1, <1>3, <3>1, <3>2 DEF EcInv, OneExchange
    <3>5. QED
      BY <3>3, <3>4
  <2>3. QED
    BY <1>1, <2>1, <2>2 DEF NothingOnItsWay
<1>9. QED
  BY <1>5, <1>6, <1>7, <1>8 DEF EcInv

\* The client, which no step of a helper touches.
LEMMA ClientFrame ==
    ASSUME TypeOK, Latched, Answered, UNCHANGED clientVars,
           helper' \in [Helpers -> HelperStates],
           serving' \in [Helpers -> Requests \cup {None}],
           toHelper' \in [Helpers -> SUBSET Requests],
           toClient' \in [Helpers -> SUBSET Responses]
    PROVE  TypeOK' /\ Latched' /\ Answered'
<1>1. TypeOK'
  BY DEF clientVars, TypeOK
<1>2. Latched' /\ Answered'
  BY DEF clientVars, Latched, FailsOnce, Answered
<1>3. QED
  BY <1>1, <1>2

\* A helper that starts and has nothing to do with requests yet.
LEMMA StartUpIInv ==
    ASSUME EcInv, NEW h \in Helpers, OpenPipe(h) \/ Initialize(h)
    PROVE  EcInv'
<1>1. /\ UNCHANGED clientVars /\ UNCHANGED serving /\ UNCHANGED pipeVars
      /\ helper[h] \in {"starting", "opened"}
      /\ helper' \in [Helpers -> HelperStates]
      /\ \A g \in Helpers : g # h => helper'[g] = helper[g]
      /\ h = pipe => helper'[h] \in {"opened", "ready"}
  BY DEF OpenPipe, Initialize, EcInv, TypeOK, HelperStates
<1>2. TypeOK' /\ Latched' /\ Answered'
  BY <1>1, ClientFrame DEF EcInv, TypeOK, pipeVars
<1>3. pipe # None => pipe \in Helpers
  BY DEF EcInv, TypeOK
<1>4. ClosedIsEmpty'
  BY <1>1 DEF clientVars, pipeVars, EcInv, ClosedIsEmpty
<1>5. NothingOnItsWay'
  BY <1>1, <1>3 DEF clientVars, pipeVars, EcInv, NothingOnItsWay
<1>6. SetUpFirst'
  BY <1>1, <1>3 DEF clientVars, pipeVars, EcInv, SetUpFirst
<1>7. OneExchange'
  BY <1>1, <1>3 DEF clientVars, pipeVars, EcInv, OneExchange, Latched
<1>8. QED
  BY <1>2, <1>4, <1>5, <1>6, <1>7 DEF EcInv

\* A helper that leaves, without a response.
LEMMA LeaveIInv ==
    ASSUME EcInv, NEW h \in Helpers, ReadRequestFails(h) \/ Die(h)
    PROVE  EcInv'
<1>1. /\ UNCHANGED clientVars /\ UNCHANGED pipeVars
      /\ helper' \in [Helpers -> HelperStates]
      /\ serving' \in [Helpers -> Requests \cup {None}]
      /\ \A g \in Helpers : g # h => helper'[g] = helper[g] /\ serving'[g] = serving[g]
      /\ helper'[h] \in {"absent", "left"}
      /\ helper'[h] = "absent" => helper[h] = "starting"
      /\ helper[h] # "absent"
  BY DEF ReadRequestFails, Die, EcInv, TypeOK, HelperStates
<1>2. TypeOK' /\ Latched' /\ Answered'
  BY <1>1, ClientFrame DEF EcInv, TypeOK, pipeVars
<1>3. pipe # None => pipe \in Helpers
  BY DEF EcInv, TypeOK
<1>4. ClosedIsEmpty'
  BY <1>1 DEF clientVars, pipeVars, EcInv, ClosedIsEmpty
<1>5. NothingOnItsWay'
  BY <1>1, <1>3 DEF clientVars, pipeVars, EcInv, NothingOnItsWay
<1>6. SetUpFirst'
  BY <1>1, <1>3 DEF clientVars, pipeVars, EcInv, SetUpFirst
<1>7. OneExchange'
  BY <1>1, <1>3 DEF clientVars, pipeVars, EcInv, OneExchange, Latched
<1>8. QED
  BY <1>2, <1>4, <1>5, <1>6, <1>7 DEF EcInv

\* A helper that cannot be set up writes the one message in its pipe.
LEMMA InitializeFailsIInv ==
    ASSUME EcInv, NEW h \in Helpers, InitializeFails(h)
    PROVE  EcInv'
<1> DEFINE failure == [request |-> None, result |-> "session"]
<1>1. /\ UNCHANGED clientVars /\ UNCHANGED serving /\ UNCHANGED toHelper
      /\ helper[h] = "opened"
      /\ helper' \in [Helpers -> HelperStates]
      /\ \A g \in Helpers : g # h => helper'[g] = helper[g]
      /\ helper'[h] = "left"
  BY DEF InitializeFails, EcInv, TypeOK, HelperStates
<1>2. /\ failure \in Responses /\ failure.request = None
      /\ toClient' = IF pipe = h THEN [toClient EXCEPT ![h] = @ \cup {failure}]
                                 ELSE toClient
  BY DEF InitializeFails, Write, Responses
<1> HIDE DEF failure
<1>3. /\ toClient' \in [Helpers -> SUBSET Responses]
      /\ \A g \in Helpers : g # pipe => toClient'[g] = toClient[g]
      /\ h # pipe => toClient' = toClient
      /\ h = pipe => toClient'[h] = toClient[h] \cup {failure}
  BY <1>2 DEF EcInv, TypeOK
<1>4. TypeOK' /\ Latched' /\ Answered'
  BY <1>1, <1>3, ClientFrame DEF EcInv, TypeOK
<1>5. pipe # None => pipe \in Helpers
  BY DEF EcInv, TypeOK
<1>6. ClosedIsEmpty'
  BY <1>1, <1>3 DEF clientVars, EcInv, ClosedIsEmpty
<1>7. CASE h # pipe
  <2>1. NothingOnItsWay' /\ SetUpFirst'
    BY <1>1, <1>3, <1>5, <1>7 DEF clientVars, EcInv, NothingOnItsWay, SetUpFirst
  <2>2. OneExchange'
    BY <1>1, <1>3, <1>5, <1>7 DEF clientVars, EcInv, OneExchange, Latched
  <2>3. QED
    BY <1>4, <1>6, <2>1, <2>2 DEF EcInv
<1>8. CASE h = pipe /\ pipe # None
  <2>1. toClient[h] = {} /\ toClient'[h] = {failure}
    BY <1>1, <1>3, <1>8 DEF EcInv, SetUpFirst
  <2>2. NothingOnItsWay' /\ SetUpFirst'
    BY <1>1, <1>2, <1>8, <2>1 DEF clientVars, EcInv, NothingOnItsWay, SetUpFirst
  <2>3. OneExchange'
    BY <1>1, <1>2, <1>8, <2>1 DEF clientVars, EcInv, OneExchange
  <2>4. QED
    BY <1>4, <1>6, <2>2, <2>3 DEF EcInv
<1>9. QED
  BY <1>7, <1>8, NoneAssumption

\* A request passes from the pipe to the helper.
LEMMA ReadRequestIInv ==
    ASSUME EcInv, NEW h \in Helpers, NEW q \in Requests, ReadRequest(h, q)
    PROVE  EcInv'
<1> USE NoneAssumption
<1>1. /\ UNCHANGED clientVars /\ UNCHANGED toClient
      /\ helper[h] = "ready" /\ q \in toHelper[h]
      /\ helper' \in [Helpers -> HelperStates]
      /\ serving' \in [Helpers -> Requests \cup {None}]
      /\ toHelper' \in [Helpers -> SUBSET Requests]
      /\ helper'[h] = "working" /\ serving'[h] = q
      /\ toHelper'[h] = toHelper[h] \ {q}
      /\ \A g \in Helpers : g # h => toHelper'[g] = toHelper[g]
  BY DEF ReadRequest, EcInv, TypeOK, HelperStates
<1>2. h = pipe /\ at = "read"
  BY <1>1 DEF EcInv, ClosedIsEmpty, NothingOnItsWay
<1>3. toHelper[h] = {request} /\ q = request
  BY <1>1, <1>2 DEF EcInv, OneExchange
<1>4. toClient[h] = {}
  <2> SUFFICES ASSUME NEW r \in toClient[h] PROVE FALSE
    OBVIOUS
  <2>1. r.request # None
    BY <1>1, <1>2 DEF EcInv, SetUpFirst
  <2>2. r.request # request
    BY <1>1, <1>2, <1>3 DEF EcInv, OneExchange
  <2>3. QED
    BY <1>2, <2>1, <2>2 DEF EcInv, OneExchange
<1>5. TypeOK' /\ Latched' /\ Answered'
  BY <1>1, ClientFrame DEF EcInv, TypeOK
<1>6. ClosedIsEmpty' /\ NothingOnItsWay' /\ SetUpFirst'
  BY <1>1, <1>2, <1>4 DEF clientVars, EcInv, ClosedIsEmpty, NothingOnItsWay,
     SetUpFirst
<1>7. OneExchange'
  BY <1>1, <1>2, <1>3, <1>4 DEF clientVars, OneExchange
<1>8. QED
  BY <1>5, <1>6, <1>7 DEF EcInv

\* A helper answers the request it works on, and no response was on its way.
LEMMA RespondIInv ==
    ASSUME EcInv, NEW h \in Helpers,
           NEW result \in {"data", "method", "foreign"}, Respond(h, result)
    PROVE  EcInv'
<1> USE NoneAssumption
<1> DEFINE response == [request |-> serving[h], result |-> result]
<1>1. /\ UNCHANGED clientVars /\ UNCHANGED toHelper
      /\ helper[h] = "working"
      /\ helper' \in [Helpers -> HelperStates]
      /\ serving' \in [Helpers -> Requests \cup {None}]
      /\ \A g \in Helpers : g # h => helper'[g] = helper[g] /\ serving'[g] = serving[g]
      /\ helper'[h] = IF pipe = h THEN "ready" ELSE "left"
  BY DEF Respond, EcInv, TypeOK, HelperStates
<1>2. /\ response \in Responses /\ response.request = serving[h]
      /\ toClient' = IF pipe = h THEN [toClient EXCEPT ![h] = @ \cup {response}]
                                 ELSE toClient
  BY DEF Respond, Write, Responses, EcInv, TypeOK
<1> HIDE DEF response
<1>3. /\ toClient' \in [Helpers -> SUBSET Responses]
      /\ \A g \in Helpers : g # pipe => toClient'[g] = toClient[g]
      /\ h # pipe => toClient' = toClient
      /\ h = pipe => toClient'[h] = toClient[h] \cup {response}
  BY <1>2 DEF EcInv, TypeOK
<1>4. TypeOK' /\ Latched' /\ Answered'
  BY <1>1, <1>3, ClientFrame DEF EcInv, TypeOK
<1>5. pipe # None => pipe \in Helpers
  BY DEF EcInv, TypeOK
<1>6. ClosedIsEmpty'
  BY <1>1, <1>3 DEF clientVars, EcInv, ClosedIsEmpty
<1>7. CASE h # pipe
  <2>1. NothingOnItsWay' /\ SetUpFirst'
    BY <1>1, <1>3, <1>5, <1>7 DEF clientVars, EcInv, NothingOnItsWay, SetUpFirst
  <2>2. OneExchange'
    BY <1>1, <1>3, <1>5, <1>7 DEF clientVars, EcInv, OneExchange, Latched
  <2>3. QED
    BY <1>4, <1>6, <2>1, <2>2 DEF EcInv
<1>8. CASE h = pipe
  <2>1. at = "read" /\ pipe # None
    BY <1>1, <1>8 DEF EcInv, NothingOnItsWay
  <2>2. toHelper[h] = {} /\ response.request = request /\ request # None
    BY <1>1, <1>2, <1>8, <2>1 DEF EcInv, OneExchange
  <2>3. toClient[h] = {}
    <3> SUFFICES ASSUME NEW r \in toClient[h] PROVE FALSE
      OBVIOUS
    <3>1. r.request # None
      BY <1>1, <1>8 DEF EcInv, SetUpFirst
    <3>2. QED
      BY <1>1, <1>8, <2>1, <3>1 DEF EcInv, OneExchange
  <2>4. toClient'[h] = {response} /\ helper'[h] = "ready"
    BY <1>1, <1>3, <1>8, <2>3
  <2>5. NothingOnItsWay' /\ SetUpFirst'
    BY <1>1, <1>8, <2>1, <2>2, <2>4 DEF clientVars, NothingOnItsWay, SetUpFirst
  <2>6. OneExchange'
    BY <1>1, <1>8, <2>2, <2>4 DEF clientVars, OneExchange
  <2>7. QED
    BY <1>4, <1>6, <2>5, <2>6 DEF EcInv
<1>9. QED
  BY <1>7, <1>8

\* The beginning of a sample.
LEMMA StartSampleIInv == ASSUME EcInv, StartSample PROVE EcInv'
<1>1. /\ at = "idle" /\ at' = "ensure" /\ read' = 1
      /\ UNCHANGED <<pipe, attempted, stage, request, payload, prompts, timeouts>>
      /\ UNCHANGED <<helper, serving, toHelper, toClient>>
  BY DEF StartSample, helperVars, pipeVars
<1>2. TypeOK'
  <2>1. read' \in 0 .. LastRead /\ at' \in ClientStates
    BY <1>1 DEF LastRead, ClientStates
  <2>2. QED
    BY <1>1, <2>1 DEF EcInv, TypeOK
<1>3. Latched' /\ Answered' /\ ClosedIsEmpty'
  BY <1>1 DEF EcInv, Latched, FailsOnce, Answered, ClosedIsEmpty
<1>4. NothingOnItsWay' /\ OneExchange' /\ SetUpFirst'
  BY <1>1 DEF EcInv, NothingOnItsWay, OneExchange, SetUpFirst
<1>5. QED
  BY <1>2, <1>3, <1>4 DEF EcInv

\* A client that waits, and times out, has not timed out before.
LEMMA ClientStepIInv == ASSUME EcInv, ClientStep PROVE EcInv'
<1>1. timeouts \in Nat
  BY DEF EcInv, TypeOK
<1>2. CASE AlreadyConnected \/ AlreadyAttempted \/ CreatePipeFails
  BY <1>2, EnsureIInv
<1>3. CASE \E h \in Helpers : Launch(h)
  BY <1>3, LaunchIInv
<1>4. CASE LaunchSucceeds \/ ConnectSucceeds
  BY <1>4, ConnectIInv
<1>5. CASE LaunchFails
  BY <1>1, <1>5, SessionFailsIInv DEF LaunchFails
<1>6. CASE ConnectTimesOut
  BY <1>1, <1>6, SessionFailsIInv DEF ConnectTimesOut
<1>7. CASE WriteFails
  BY <1>1, <1>7, SessionFailsIInv DEF WriteFails
<1>8. CASE \E q \in Requests : WriteRequest(q)
  BY <1>8, WriteRequestIInv
<1>9. CASE ReadTimesOut
  BY <1>1, <1>9, SessionFailsIInv DEF ReadTimesOut
<1>10. CASE ReadFails
  BY <1>1, <1>10, SessionFailsIInv DEF ReadFails
<1>11. CASE \E r \in Responses : ReadResponse(r)
  BY <1>11, ReadResponseIInv
<1>12. QED
  BY <1>2, <1>3, <1>4, <1>5, <1>6, <1>7, <1>8, <1>9, <1>10, <1>11 DEF ClientStep

\* A helper's own steps, and its death.
LEMMA HelperStepIInv ==
    ASSUME EcInv, NEW h \in Helpers, HelperStep(h) \/ Die(h) PROVE EcInv'
<1>1. CASE OpenPipe(h) \/ Initialize(h)
  BY <1>1, StartUpIInv
<1>2. CASE InitializeFails(h)
  BY <1>2, InitializeFailsIInv
<1>3. CASE ReadRequestFails(h) \/ Die(h)
  BY <1>3, LeaveIInv
<1>4. CASE \E q \in Requests : ReadRequest(h, q)
  BY <1>4, ReadRequestIInv
<1>5. CASE \E result \in {"data", "method", "foreign"} : Respond(h, result)
  BY <1>5, RespondIInv
<1>6. QED
  BY <1>1, <1>2, <1>3, <1>4, <1>5 DEF HelperStep

\* A step that changes nothing.
LEMMA StutterIInv == ASSUME EcInv, UNCHANGED vars PROVE EcInv'
<1>1. UNCHANGED <<clientVars, helperVars, pipeVars>>
  BY DEF vars
<1>2. /\ UNCHANGED <<at, read, pipe, attempted, stage, request, payload>>
      /\ UNCHANGED <<prompts, timeouts>>
      /\ UNCHANGED <<helper, serving, toHelper, toClient>>
  BY <1>1 DEF clientVars, helperVars, pipeVars
<1>3. TypeOK' /\ Latched' /\ Answered' /\ ClosedIsEmpty'
  BY <1>2 DEF EcInv, TypeOK, Latched, FailsOnce, Answered, ClosedIsEmpty
<1>4. NothingOnItsWay' /\ OneExchange' /\ SetUpFirst'
  BY <1>2 DEF EcInv, NothingOnItsWay, OneExchange, SetUpFirst
<1>5. QED
  BY <1>3, <1>4 DEF EcInv

\* The strengthened invariant holds in every reachable state: at most one
\* exchange is open, and a pipe that is given up is empty.
THEOREM Exchanges == Spec => []EcInv
<1>1. Init => EcInv
  BY InitIInv
<1>2. EcInv /\ [Next]_vars => EcInv'
  <2> SUFFICES ASSUME EcInv, [Next]_vars PROVE EcInv'
    OBVIOUS
  <2>1. CASE StartSample
    BY <2>1, StartSampleIInv
  <2>2. CASE ClientStep
    BY <2>2, ClientStepIInv
  <2>3. CASE PipeFails
    <3>1. timeouts' \in {timeouts, timeouts + 1} /\ at \notin {"idle", "ensure"}
      BY <2>3 DEF PipeFails
    <3>2. QED
      BY <2>3, <3>1, SessionFailsIInv DEF PipeFails
  <2>4. CASE Release \/ RuntimeDies
    BY <2>4, RestartIInv DEF Release, RuntimeDies
  <2>5. CASE \E h \in Helpers : HelperStep(h) \/ Die(h)
    BY <2>5, HelperStepIInv
  <2>6. CASE UNCHANGED vars
    BY <2>6, StutterIInv
  <2>7. QED
    BY <2>1, <2>2, <2>3, <2>4, <2>5, <2>6 DEF Next
<1>3. QED
  BY <1>1, <1>2, PTL DEF Spec

\* The state of the client, of every helper and of every pipe has its type.
THEOREM EcTypeCorrect == Spec => []TypeOK
<1>1. EcInv => TypeOK
  BY DEF EcInv
<1>2. QED
  BY <1>1, Exchanges, PTL

\* EcHelperClient::Send never takes a late, stale or unasked response for the
\* answer to its request, though the protocol carries no request identity.
THEOREM AnswersAreOwn == Spec => []AnswerIsOwn
<1>1. EcInv => AnswerIsOwn
  BY DEF EcInv, Answered, AnswerIsOwn
<1>2. QED
  BY <1>1, Exchanges, PTL

\* One lifetime of EcHelperClient raises one UAC prompt and waits for the full
\* time of the pipe once.
THEOREM FailsOnceHolds == Spec => []FailsOnce
<1>1. EcInv => FailsOnce
  BY DEF EcInv, Latched
<1>2. QED
  BY <1>1, Exchanges, PTL
=============================================================================
