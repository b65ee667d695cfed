------------------------- MODULE GameSessionProofs --------------------------
(***************************************************************************)
(* The foreground-first detection of games, for any processes, PIDs,       *)
(* machines and bounds of the queues; and the event sources that feed it,  *)
(* for every queue capacity, every set of application ids and every number *)
(* of events, writes and faults.                                           *)
(*                                                                         *)
(* As for the HUD, a handler is a composition of operators on the state of *)
(* the controller, so every operator has a lemma that says what holds of   *)
(* the states it can leave behind.                                         *)
(***************************************************************************)
EXTENDS GameSession, EventSources, FiniteSetTheorems, SequenceTheorems, TLAPS

\* The machine: at most one process that runs has a PID.
WorldInv ==
    /\ life \in [Processes -> {"unborn", "alive", "dead"}]
    /\ fullscreen \subseteq Processes
    /\ foreground \in Processes \cup {None}
    /\ machine \in Scenarios
    /\ \A p, q \in Processes : Alive(p) /\ Alive(q) /\ PidOf(p) = PidOf(q) => p = q

\* What evidence says of a process: it displayed frames, and if it runs it still
\* is the process that did.
Deserves(p) == life[p] # "unborn" /\ (life[p] = "alive" => machine.kind[p] # "app")

-----------------------------------------------------------------------------
(* What holds of a session before and after every operator.                *)

Typed(s) ==
    /\ s \in Sessions
    /\ IsFiniteSet(s.posted) /\ Cardinality(s.posted) <= MaxPosted + 1

\* The verifier has a request exactly when it has a worker.
Paired(s) == s.polled = None <=> s.worker = "none"

\* RequestsAgree.
Agree(s) ==
    /\ s.outstanding # None => s.outstanding = s.active
    /\ s.active # None => s.polled = s.active

\* No evidence is kept, reported or acted on for a process that did not earn it.
Honest(s) ==
    /\ \A n \in Pids : IsKnownGame(s.cache[n]) => Deserves(s.cache[n].process)
    /\ s.target # None => Deserves(s.target)
    /\ s.polled # None => life[s.polled.process] # "unborn"
    /\ \A r \in s.posted : Deserves(r.process)

Core(s) == Typed(s) /\ Paired(s) /\ Agree(s) /\ Honest(s)

\* The target is the eligible process of the last evaluation, or none.
Follows(s) == s.target = IF s.decision = "Eligible" THEN s.window ELSE None

\* Members that an operator leaves alone.
SameState(s, t) ==
    /\ t.enabled = s.enabled /\ t.suspended = s.suspended /\ t.recovering = s.recovering
    /\ t.steam = s.steam /\ t.tracked = s.tracked
    /\ t.messages = s.messages /\ t.windows = s.windows
SameVerdict(s, t) == t.decision = s.decision /\ t.window = s.window
SameVerifier(s, t) ==
    /\ t.active = s.active /\ t.worker = s.worker /\ t.polled = s.polled
    /\ t.posted = s.posted

-----------------------------------------------------------------------------
(* KnownGameProcessCache.                                                  *)

\* An entry is written.
Cached(s, t, n, v) ==
    /\ t \in Sessions
    /\ SameState(s, t) /\ SameVerdict(s, t) /\ SameVerifier(s, t)
    /\ t.target = s.target /\ t.outstanding = s.outstanding
    /\ \A k \in Pids : t.cache[k] = IF k = n THEN v ELSE s.cache[k]

LEMMA EntryIsCached ==
    ASSUME NEW s \in Sessions, NEW n \in Pids, NEW v \in Entries \cup {None}
    PROVE  Cached(s, [s EXCEPT !.cache[n] = v], n, v)
<1> DEFINE c == [s.cache EXCEPT ![n] = v]
<1>1. c \in [Pids -> Entries \cup {None}] /\ \A k \in Pids : c[k] = IF k = n THEN v ELSE s.cache[k]
  BY DEF Sessions
<1>2. [s EXCEPT !.cache[n] = v] = [s EXCEPT !.cache = c]
  BY DEF Sessions
<1> HIDE DEF c
<1> DEFINE t == [s EXCEPT !.cache = c]
<1>3. t \in Sessions /\ t.cache = c
  BY <1>1 DEF Sessions
<1>4. SameState(s, t) /\ SameVerdict(s, t) /\ SameVerifier(s, t) /\ t.target = s.target
      /\ t.outstanding = s.outstanding
  BY DEF Sessions, SameState, SameVerdict, SameVerifier
<1> HIDE DEF t
<1>5. Cached(s, t, n, v)
  BY <1>1, <1>3, <1>4 DEF Cached
<1> QED BY <1>2, <1>5 DEF t

LEMMA PidsAreInRange ==
    ASSUME WorldInv, NEW p \in Processes
    PROVE  PidOf(p) \in Pids /\ Entry(p) \in Entries /\ machine.kind[p] \in Kinds
BY ScenarioAssumption DEF WorldInv, Machines, PidOf, Entry, Entries

\* Evidence that is earned may be written.
LEMMA CachedIsCore ==
    ASSUME NEW s, Core(s), NEW t, NEW n \in Pids, NEW v \in Entries \cup {None}, Cached(s, t, n, v),
           IsKnownGame(v) => Deserves(v.process)
    PROVE  Core(t)
<1>1. Typed(t) /\ Paired(t) /\ Agree(t)
  BY DEF Cached, Core, Typed, Paired, Agree, SameVerifier
<1>2. Honest(t)
  BY DEF Cached, Core, Honest, SameVerifier
<1> QED BY <1>1, <1>2 DEF Core

\* Only evidence has changed.
Recorded(s, t) ==
    /\ Core(t)
    /\ SameState(s, t) /\ SameVerdict(s, t) /\ SameVerifier(s, t)
    /\ t.target = s.target /\ t.outstanding = s.outstanding

LEMMA RecordedTransitive ==
    ASSUME NEW s, NEW t, NEW u, Recorded(s, t), Recorded(t, u)
    PROVE  Recorded(s, u)
BY DEF Recorded, SameState, SameVerdict, SameVerifier

LEMMA RecordedReflexive ==
    ASSUME NEW s, Core(s)
    PROVE  Recorded(s, s)
BY DEF Recorded, SameState, SameVerdict, SameVerifier

LEMMA EntryRecords ==
    ASSUME WorldInv, NEW s, Core(s), NEW n \in Pids, NEW v \in Entries \cup {None},
           IsKnownGame(v) => Deserves(v.process)
    PROVE  LET t == [s EXCEPT !.cache[n] = v]
           IN  Recorded(s, t) /\ t.cache[n] = v
<1> DEFINE t == [s EXCEPT !.cache[n] = v]
<1>1. Cached(s, t, n, v)
  BY EntryIsCached DEF Core, Typed
<1> HIDE DEF t
<1>2. Core(t)
  BY <1>1, CachedIsCore
<1> QED BY <1>1, <1>2 DEF Recorded, Cached, t

LEMMA EntriesAreTyped ==
    ASSUME NEW s, Core(s), NEW n \in Pids
    PROVE  s.cache[n] \in Entries \cup {None}
BY DEF Core, Typed, Sessions

\* An entry of another instance with the PID is dropped.
LEMMA LookupRecords ==
    ASSUME WorldInv, NEW s, Core(s), NEW p \in Processes
    PROVE  LET t == Lookup(s, p)
           IN  Recorded(s, t) /\ (t.cache[PidOf(p)] # None => t.cache[PidOf(p)].process = p)
<1> DEFINE n == PidOf(p)
           e == s.cache[n]
           v == IF e # None /\ e.process = p THEN e ELSE None
<1>1. n \in Pids
  BY PidsAreInRange
<1>2. e \in Entries \cup {None} /\ (IsKnownGame(e) => Deserves(e.process))
  BY <1>1, EntriesAreTyped DEF Core, Honest
<1>3. v \in Entries \cup {None} /\ (IsKnownGame(v) => Deserves(v.process))
  BY <1>2 DEF IsKnownGame
<1>4. Lookup(s, p) = [s EXCEPT !.cache[n] = v]
  BY DEF Lookup
<1>5. v # None => v.process = p
  OBVIOUS
<1> HIDE DEF v, n
<1> QED BY <1>1, <1>3, <1>4, <1>5, EntryRecords DEF n

LEMMA MarkRecords ==
    ASSUME WorldInv, NEW s, Core(s), NEW p \in Processes
    PROVE  LET t == Mark(s, p)
           IN  /\ Recorded(s, t)
               /\ t.cache[PidOf(p)] \in Entries /\ t.cache[PidOf(p)].process = p
<1> DEFINE n == PidOf(p)
           e == s.cache[n]
           v == IF e # None /\ e.process = p THEN e ELSE Entry(p)
<1>1. n \in Pids /\ Entry(p) \in Entries /\ ~IsKnownGame(Entry(p)) /\ Entry(p).process = p
  BY PidsAreInRange DEF Entry, IsKnownGame
<1>2. e \in Entries \cup {None} /\ (IsKnownGame(e) => Deserves(e.process))
  BY <1>1, EntriesAreTyped DEF Core, Honest
<1>3. v \in Entries /\ (IsKnownGame(v) => Deserves(v.process)) /\ v.process = p
  BY <1>1, <1>2
<1>4. Mark(s, p) = [s EXCEPT !.cache[n] = v]
  BY DEF Mark
<1> HIDE DEF v, n
<1> QED BY <1>1, <1>3, <1>4, EntryRecords DEF n

LEMMA MarkMicrosoftGameRecords ==
    ASSUME WorldInv, NEW s, Core(s), NEW p \in Processes, Deserves(p)
    PROVE  Recorded(s, MarkMicrosoftGame(s, p))
<1> DEFINE m == Mark(s, p)
           n == PidOf(p)
           v == [m.cache[n] EXCEPT !.store = TRUE]
<1>1. Recorded(s, m) /\ m.cache[n] \in Entries /\ m.cache[n].process = p
  BY MarkRecords
<1>2. MarkMicrosoftGame(s, p) = [m EXCEPT !.cache[n].store = TRUE]
  BY DEF MarkMicrosoftGame
<1> HIDE DEF m
<1>3. v \in Entries /\ v.process = p
  BY <1>1 DEF Entries
<1>4. n \in Pids
  BY PidsAreInRange
<1>5. m \in Sessions
  BY <1>1 DEF Recorded, Core, Typed
<1>6. [m EXCEPT !.cache[n].store = TRUE] = [m EXCEPT !.cache[n] = v]
  BY <1>4, <1>5 DEF Sessions
<1> HIDE DEF v, n
<1>7. Recorded(m, [m EXCEPT !.cache[n] = v])
  BY <1>1, <1>3, <1>4, EntryRecords DEF Recorded
<1> QED BY <1>1, <1>2, <1>6, <1>7, RecordedTransitive

LEMMA TryMarkRecords ==
    ASSUME WorldInv, NEW s, Core(s), NEW p \in Processes, Deserves(p)
    PROVE  Recorded(s, TryMarkRendererVerified(s, p))
<1> DEFINE n == PidOf(p)
           e == s.cache[n]
           v == [(IF e = None THEN Entry(p) ELSE e) EXCEPT !.verified = TRUE]
<1>1. n \in Pids /\ Entry(p) \in Entries /\ Entry(p).process = p
  BY PidsAreInRange DEF Entry
<1>2. e \in Entries \cup {None}
  BY <1>1, EntriesAreTyped
<1>3. CASE e # None /\ e.process # p
  <2>1. TryMarkRendererVerified(s, p) = s
    BY <1>3 DEF TryMarkRendererVerified
  <2> QED BY <2>1, RecordedReflexive
<1>4. CASE ~(e # None /\ e.process # p)
  <2>1. TryMarkRendererVerified(s, p) = [s EXCEPT !.cache[n] = v]
    BY <1>4 DEF TryMarkRendererVerified
  <2>2. v \in Entries /\ v.process = p
    BY <1>1, <1>2, <1>4 DEF Entries
  <2> HIDE DEF v, n
  <2> QED BY <1>1, <2>1, <2>2, EntryRecords
<1> QED BY <1>3, <1>4

-----------------------------------------------------------------------------
(* Requests and the detector.                                              *)

LEMMA ReferredIsSmall ==
    ASSUME NEW s, Typed(s)
    PROVE  IsFiniteSet(Referred(s)) /\ Cardinality(Referred(s)) <= MaxPosted + 4
<1> DEFINE A == {s.active}
           B == A \cup {s.outstanding}
           D == B \cup {s.polled}
           E == D \ {None}
<1>0. ASSUME NEW S, IsFiniteSet(S), NEW n \in Nat, Cardinality(S) <= n, NEW x
      PROVE  IsFiniteSet(S \cup {x}) /\ Cardinality(S \cup {x}) <= n + 1
  <2>1. /\ IsFiniteSet(S \cup {x})
        /\ \/ Cardinality(S \cup {x}) = Cardinality(S)
           \/ Cardinality(S \cup {x}) = Cardinality(S) + 1
    BY <1>0, FS_AddElement
  <2>2. Cardinality(S) \in Nat
    BY <1>0, FS_CardinalityType
  <2> QED BY <1>0, <2>1, <2>2
<1>1. IsFiniteSet(A) /\ Cardinality(A) <= 1
  <2>1. IsFiniteSet({s.active}) /\ Cardinality({s.active}) = 1
    BY FS_Singleton
  <2> QED BY <2>1
<1> HIDE DEF A
<1>2. IsFiniteSet(B) /\ Cardinality(B) <= 2
  <2>1. IsFiniteSet(A \cup {s.outstanding}) /\ Cardinality(A \cup {s.outstanding}) <= 1 + 1
    BY <1>0, <1>1
  <2> QED BY <2>1
<1> HIDE DEF B
<1>3. IsFiniteSet(D) /\ Cardinality(D) <= 3 /\ Cardinality(D) \in Nat
  <2>1. IsFiniteSet(B \cup {s.polled}) /\ Cardinality(B \cup {s.polled}) <= 2 + 1
    BY <1>0, <1>2
  <2> QED BY <2>1, FS_CardinalityType
<1> HIDE DEF D
<1>4. IsFiniteSet(E) /\ Cardinality(E) <= 3 /\ Cardinality(E) \in Nat
  <2>1. E \in SUBSET D
    OBVIOUS
  <2> HIDE DEF E
  <2>2. IsFiniteSet(E) /\ Cardinality(E) <= Cardinality(D)
    BY <1>3, <2>1, FS_Subset
  <2> QED BY <1>3, <2>2, FS_CardinalityType
<1>5. Referred(s) = E \cup s.posted
  BY DEF Referred, A, B, D, E
<1> HIDE DEF E
<1>6. /\ IsFiniteSet(E \cup s.posted)
      /\ Cardinality(E \cup s.posted) = Cardinality(E) + Cardinality(s.posted) - Cardinality(E \cap s.posted)
  BY <1>4, FS_Union DEF Typed
<1>7. Cardinality(E \cap s.posted) \in Nat
  <2>1. E \cap s.posted \in SUBSET E
    OBVIOUS
  <2> QED BY <1>4, <2>1, FS_Subset, FS_CardinalityType
<1>8. Cardinality(s.posted) \in Nat
  BY FS_CardinalityType DEF Typed
<1> QED BY <1>4, <1>5, <1>6, <1>7, <1>8, BoundsAssumption DEF Typed

\* There is always an identity that no request of the process uses.
LEMMA FreshIsRequest ==
    ASSUME NEW s, Typed(s), NEW p \in Processes
    PROVE  FreshRequest(s, p) \in Requests /\ FreshRequest(s, p).process = p
<1> DEFINE Of(i) == [id |-> i, process |-> p]
           f == [i \in Ids |-> Of(i)]
<1>1. \E i \in Ids : Of(i) \notin Referred(s)
  <2> SUFFICES ASSUME \A i \in Ids : Of(i) \in Referred(s) PROVE FALSE
    OBVIOUS
  <2>1. f \in [Ids -> Referred(s)]
    OBVIOUS
  <2>2. IsFiniteSet(Ids) /\ Cardinality(Ids) = MaxPosted + 5
    BY BoundsAssumption, FS_Interval DEF Ids
  <2>3. Cardinality(Referred(s)) \in Nat
    BY ReferredIsSmall, FS_CardinalityType
  <2>4. Cardinality(Referred(s)) < Cardinality(Ids)
    BY <2>2, <2>3, ReferredIsSmall, BoundsAssumption
  <2> HIDE DEF f
  <2>5. PICK i \in Ids, j \in Ids : i # j /\ f[i] = f[j]
    BY <2>1, <2>2, <2>4, ReferredIsSmall, FS_PigeonHole
  <2>6. Of(i) = Of(j)
    BY <2>5 DEF f
  <2>7. Of(i).id = i /\ Of(j).id = j
    OBVIOUS
  <2> QED BY <2>5, <2>6, <2>7
<1> DEFINE i == CHOOSE i \in Ids : Of(i) \notin Referred(s)
<1>2. i \in Ids
  BY <1>1
<1>3. FreshRequest(s, p) = Of(i)
  BY DEF FreshRequest
<1> HIDE DEF i
<1> QED BY <1>2, <1>3 DEF Requests

LEMMA RequestForIsRequest ==
    ASSUME NEW s, Typed(s), NEW p \in Processes
    PROVE  RequestFor(s, p) \in Requests /\ RequestFor(s, p).process = p
BY FreshIsRequest DEF RequestFor, Typed, Sessions

\* What the detector leaves behind when it has judged a window.
Judged(s, t, w) ==
    /\ Typed(t) /\ Paired(t) /\ Honest(t)
    /\ SameState(s, t) /\ SameVerifier(s, t)
    /\ t.target = s.target /\ t.window = w
    /\ t.decision \in {"Hidden", "Eligible", "NeedsRendererVerification"}
    /\ t.decision # "NeedsRendererVerification" => t.outstanding = s.outstanding
    /\ t.decision = "Eligible" => w \in Processes /\ Deserves(w)
    /\ t.decision = "NeedsRendererVerification" =>
         /\ w \in Processes /\ Alive(w)
         /\ t.outstanding \in Requests /\ t.outstanding.process = w

\* A decision changes nothing that was found out or is under way.
LEMMA Decided ==
    ASSUME NEW s, Core(s), NEW t \in Sessions, SameVerifier(s, t),
           t.target = s.target, t.cache = s.cache
    PROVE  Typed(t) /\ Paired(t) /\ Honest(t)
BY DEF Core, Typed, Paired, Honest, SameVerifier

LEMMA JudgeDecides ==
    ASSUME WorldInv, NEW s, Core(s), NEW w \in Processes \cup {None}
    PROVE  Judged(s, Judge(s, w), w)
<1>0. s \in Sessions
  BY DEF Core, Typed
<1> DEFINE j == Judge(s, w)
<1>1. CASE ~Admitted(w)
  <2>1. j = [s EXCEPT !.decision = "Hidden", !.window = w]
    BY <1>1 DEF Judge
  <2> HIDE DEF j
  <2>2. /\ j \in Sessions /\ SameState(s, j) /\ SameVerifier(s, j)
        /\ j.target = s.target /\ j.cache = s.cache /\ j.outstanding = s.outstanding
        /\ j.window = w /\ j.decision = "Hidden"
    BY <1>0, <2>1 DEF Sessions, SameState, SameVerifier
  <2>3. Judged(s, j, w)
    BY <2>2, Decided DEF Judged
  <2> QED BY <2>3 DEF j
<1>2. CASE Admitted(w)
  <2>0. w \in Processes /\ Alive(w)
    BY <1>2 DEF Admitted, Alive
  <2> DEFINE m == IF s.steam THEN Mark(s, w) ELSE s
             l == Lookup(m, w)
             t == [l EXCEPT !.window = w]
             n == PidOf(w)
  <2>1. Recorded(s, m)
    BY <2>0, MarkRecords, RecordedReflexive
  <2>2. Recorded(m, l) /\ (l.cache[n] # None => l.cache[n].process = w)
    BY <2>0, <2>1, LookupRecords DEF Recorded
  <2>3. Recorded(s, l)
    BY <2>1, <2>2, RecordedTransitive
  <2>4. j = IF IsKnownGame(t.cache[n])
              THEN [t EXCEPT !.decision = "Eligible"]
              ELSE [t EXCEPT !.decision = "NeedsRendererVerification",
                             !.outstanding = RequestFor(t, w)]
    BY <1>2 DEF Judge
  <2> HIDE DEF l, j
  <2>5. /\ l \in Sessions /\ Core(l) /\ SameState(s, l) /\ SameVerifier(s, l)
        /\ l.target = s.target /\ l.outstanding = s.outstanding
    BY <2>3 DEF Recorded, Core, Typed
  <2>6. /\ Typed(t) /\ t \in Sessions /\ SameState(l, t) /\ SameVerifier(l, t)
        /\ t.target = l.target /\ t.cache = l.cache /\ t.outstanding = l.outstanding
        /\ t.window = w
    BY <2>0, <2>5 DEF Core, Typed, Sessions, SameState, SameVerifier
  <2> HIDE DEF t
  <2>7. CASE IsKnownGame(t.cache[n])
    <3>1. j = [t EXCEPT !.decision = "Eligible"]
      BY <2>4, <2>7
    <3>2. /\ j \in Sessions /\ SameState(t, j) /\ SameVerifier(t, j)
          /\ j.target = t.target /\ j.cache = t.cache /\ j.outstanding = t.outstanding
          /\ j.window = t.window /\ j.decision = "Eligible"
      BY <2>6, <3>1 DEF Sessions, SameState, SameVerifier
    <3>3. Deserves(w)
      <4>1. n \in Pids
        BY <2>0, PidsAreInRange
      <4> QED BY <2>2, <2>5, <2>6, <2>7, <4>1 DEF Core, Honest, IsKnownGame
    <3>4. SameState(s, j) /\ SameVerifier(s, j) /\ SameVerifier(l, j)
      BY <2>5, <2>6, <3>2 DEF SameState, SameVerifier
    <3>5. Typed(j) /\ Paired(j) /\ Honest(j)
      BY <2>5, <2>6, <3>2, <3>4, Decided
    <3>6. Judged(s, j, w)
      BY <2>0, <2>5, <2>6, <3>2, <3>3, <3>4, <3>5 DEF Judged
    <3> QED BY <3>6 DEF j
  <2>8. CASE ~IsKnownGame(t.cache[n])
    <3> DEFINE o == RequestFor(t, w)
    <3>1. o \in Requests /\ o.process = w
      BY <2>0, <2>6, RequestForIsRequest
    <3>2. j = [t EXCEPT !.decision = "NeedsRendererVerification", !.outstanding = o]
      BY <2>4, <2>8
    <3> HIDE DEF o
    <3>3. /\ j \in Sessions /\ SameState(t, j) /\ SameVerifier(t, j)
          /\ j.target = t.target /\ j.cache = t.cache /\ j.outstanding = o
          /\ j.window = t.window /\ j.decision = "NeedsRendererVerification"
      BY <2>6, <3>1, <3>2 DEF Sessions, SameState, SameVerifier
    <3>4. SameState(s, j) /\ SameVerifier(s, j) /\ SameVerifier(l, j)
      BY <2>5, <2>6, <3>3 DEF SameState, SameVerifier
    <3>5. Typed(j) /\ Paired(j) /\ Honest(j)
      BY <2>5, <2>6, <3>3, <3>4, Decided
    <3>6. Judged(s, j, w)
      BY <2>0, <2>5, <2>6, <3>1, <3>3, <3>4, <3>5 DEF Judged
    <3> QED BY <3>6 DEF j
  <2> QED BY <2>7, <2>8
<1> QED BY <1>1, <1>2

-----------------------------------------------------------------------------
(* The verifier and its worker.                                            *)

\* What the verifier leaves alone.
Kept(s, t) ==
    SameState(s, t) /\ SameVerdict(s, t) /\ t.target = s.target /\ t.cache = s.cache

Formed(s) == Typed(s) /\ Paired(s) /\ Honest(s)

\* The frame a worker finds is one of its process, or of one that has taken its
\* PID, and then its process is gone.
LEMMA FramesAreEarned ==
    ASSUME WorldInv, NEW p \in Processes, life[p] # "unborn", DisplaysFrame(PidOf(p))
    PROVE  Deserves(p)
<1>1. PICK q \in Processes : PidOf(q) = PidOf(p) /\ Alive(q) /\ machine.kind[q] # "app"
  BY DEF DisplaysFrame
<1>2. life[p] = "alive" => p = q
  BY <1>1, NoneAssumption DEF WorldInv, Alive
<1> QED BY <1>1, <1>2 DEF Deserves

LEMMA StopWorkerLeaves ==
    ASSUME WorldInv, NEW s, Formed(s), NEW t \in StopWorker(s)
    PROVE  /\ Formed(t) /\ Kept(s, t)
           /\ t.outstanding = s.outstanding /\ t.active = s.active
           /\ t.worker = "none" /\ t.polled = None
           /\ s.worker # "polling" => t.posted = s.posted
<1> DEFINE off == [s EXCEPT !.worker = "none", !.polled = None]
           more == [off EXCEPT !.posted = @ \cup {s.polled}]
<1>0. s \in Sessions
  BY DEF Formed, Typed
<1>1. \/ t = off
      \/ /\ s.worker = "polling" /\ DisplaysFrame(PidOf(s.polled.process))
         /\ Cardinality(s.posted) <= MaxPosted
         /\ t = more
  BY DEF StopWorker
<1>2. /\ off \in Sessions /\ Kept(s, off) /\ off.posted = s.posted
      /\ off.outstanding = s.outstanding /\ off.active = s.active
      /\ off.worker = "none" /\ off.polled = None
  <2> DEFINE idle == [s EXCEPT !.worker = "none"]
  <2>1. /\ idle \in Sessions /\ Kept(s, idle) /\ idle.posted = s.posted
        /\ idle.outstanding = s.outstanding /\ idle.active = s.active /\ idle.worker = "none"
    BY <1>0 DEF Sessions, Kept, SameState, SameVerdict
  <2>2. off = [idle EXCEPT !.polled = None]
    BY <1>0 DEF Sessions
  <2> HIDE DEF idle
  <2> QED BY <2>1, <2>2, ZenonT(40) DEF Sessions, Kept, SameState, SameVerdict
<1> HIDE DEF off
<1>3. Formed(off)
  BY <1>2 DEF Formed, Typed, Paired, Honest, Kept
<1>4. CASE t = off
  BY <1>2, <1>3, <1>4
<1>5. CASE s.worker = "polling" /\ DisplaysFrame(PidOf(s.polled.process))
           /\ Cardinality(s.posted) <= MaxPosted /\ t = more
  <2>1. s.polled \in Requests /\ s.polled.process \in Processes /\ life[s.polled.process] # "unborn"
    BY <1>0, <1>5 DEF Formed, Paired, Honest, Sessions, Requests
  <2>2. Deserves(s.polled.process)
    BY <1>5, <2>1, FramesAreEarned
  <2>3. /\ t \in Sessions /\ Kept(off, t) /\ t.posted = s.posted \cup {s.polled}
        /\ t.outstanding = off.outstanding /\ t.active = off.active
        /\ t.worker = off.worker /\ t.polled = off.polled
    BY <1>2, <1>5, <2>1 DEF Sessions, Kept, SameState, SameVerdict
  <2>4. IsFiniteSet(t.posted) /\ Cardinality(t.posted) <= MaxPosted + 1
    <3>1. Cardinality(s.posted) \in Nat
      BY FS_CardinalityType DEF Formed, Typed
    <3>2. /\ IsFiniteSet(s.posted \cup {s.polled})
          /\ Cardinality(s.posted \cup {s.polled}) =
               IF s.polled \in s.posted THEN Cardinality(s.posted) ELSE Cardinality(s.posted) + 1
      BY FS_AddElement DEF Formed, Typed
    <3> QED BY <1>5, <2>3, <3>1, <3>2, BoundsAssumption
  <2>5. Honest(t)
    BY <1>2, <1>3, <2>2, <2>3 DEF Formed, Honest, Kept
  <2>6. Formed(t)
    BY <1>2, <2>3, <2>4, <2>5 DEF Formed, Typed, Paired
  <2>7. Kept(s, t)
    BY <1>2, <2>3 DEF Kept, SameState, SameVerdict
  <2> QED BY <1>2, <1>5, <2>3, <2>6, <2>7
<1> QED BY <1>1, <1>4, <1>5

\* A completion without a frame closes the request it answers.
LEMMA CompletionCloses ==
    ASSUME NEW s, Formed(s), NEW r
    PROVE  LET t == CompleteRendererVerification(s, r, FALSE)
           IN  /\ Formed(t) /\ Kept(s, t) /\ SameVerifier(s, t)
               /\ t.outstanding = IF s.outstanding = r THEN None ELSE s.outstanding
<1> DEFINE t == CompleteRendererVerification(s, r, FALSE)
<1>0. s \in Sessions
  BY DEF Formed, Typed
<1>1. t = [s EXCEPT !.outstanding = IF @ = r THEN None ELSE @]
  BY DEF CompleteRendererVerification
<1> HIDE DEF t
<1>2. /\ t \in Sessions /\ Kept(s, t) /\ SameVerifier(s, t)
      /\ t.outstanding = IF s.outstanding = r THEN None ELSE s.outstanding
  BY <1>0, <1>1 DEF Sessions, Kept, SameState, SameVerdict, SameVerifier
<1>3. Formed(t)
  BY <1>2 DEF Formed, Typed, Paired, Honest, Kept, SameVerifier
<1> QED BY <1>2, <1>3 DEF t

\* The active request is dropped.
LEMMA DroppedIsFormed ==
    ASSUME NEW s, Formed(s), NEW r \in Requests \cup {None}
    PROVE  LET t == [s EXCEPT !.active = r]
           IN  /\ Formed(t) /\ Kept(s, t)
               /\ t.outstanding = s.outstanding /\ t.active = r
               /\ t.worker = s.worker /\ t.polled = s.polled /\ t.posted = s.posted
<1> DEFINE t == [s EXCEPT !.active = r]
<1>0. s \in Sessions
  BY DEF Formed, Typed
<1>1. /\ t \in Sessions /\ Kept(s, t)
      /\ t.outstanding = s.outstanding /\ t.active = r
      /\ t.worker = s.worker /\ t.polled = s.polled /\ t.posted = s.posted
  BY <1>0 DEF Sessions, Kept, SameState, SameVerdict
<1> HIDE DEF t
<1>2. Formed(t)
  BY <1>1 DEF Formed, Typed, Paired, Honest, Kept
<1> QED BY <1>1, <1>2 DEF t

\* A verifier that is stopped has no worker and no request.
Halted(s, t) ==
    /\ Formed(t) /\ Kept(s, t)
    /\ t.worker = "none" /\ t.polled = None /\ t.active = None
    /\ t.outstanding = IF s.active # None /\ s.outstanding = s.active THEN None
                       ELSE s.outstanding
    /\ s.worker # "polling" => t.posted = s.posted

LEMMA StopHalts ==
    ASSUME WorldInv, NEW s, Formed(s), NEW t \in StopRenderVerification(s)
    PROVE  Halted(s, t)
<1>1. PICK u \in StopWorker(s) :
             t = IF s.active = None THEN u
                 ELSE CompleteRendererVerification([u EXCEPT !.active = None], s.active, FALSE)
  BY DEF StopRenderVerification
<1>2. /\ Formed(u) /\ Kept(s, u)
      /\ u.outstanding = s.outstanding /\ u.active = s.active
      /\ u.worker = "none" /\ u.polled = None
      /\ s.worker # "polling" => u.posted = s.posted
  BY <1>1, StopWorkerLeaves
<1>3. CASE s.active = None
  BY <1>1, <1>2, <1>3 DEF Halted
<1>4. CASE s.active # None
  <2> DEFINE v == [u EXCEPT !.active = None]
  <2>1. t = CompleteRendererVerification(v, s.active, FALSE)
    BY <1>1, <1>4
  <2>2. /\ Formed(v) /\ Kept(u, v)
        /\ v.outstanding = u.outstanding /\ v.active = None
        /\ v.worker = u.worker /\ v.polled = u.polled /\ v.posted = u.posted
    BY <1>2, DroppedIsFormed
  <2> HIDE DEF v
  <2>3. /\ Formed(t) /\ Kept(v, t) /\ SameVerifier(v, t)
        /\ t.outstanding = IF v.outstanding = s.active THEN None ELSE v.outstanding
    BY <2>1, <2>2, CompletionCloses
  <2>4. Kept(s, t)
    BY <1>2, <2>2, <2>3 DEF Kept, SameState, SameVerdict
  <2> QED BY <1>2, <1>4, <2>2, <2>3, <2>4 DEF Halted, SameVerifier
<1> QED BY <1>3, <1>4

LEMMA StartVerifierLeaves ==
    ASSUME WorldInv, NEW s, Formed(s), NEW r \in Requests, life[r.process] # "unborn",
           NEW t \in StartVerifier(s, r)
    PROVE  /\ Formed(t) /\ Kept(s, t)
           /\ \/ t.active = r /\ t.polled = r /\ t.outstanding = s.outstanding
              \/ /\ t.active = None
                 /\ t.outstanding = IF s.outstanding = r THEN None ELSE s.outstanding
<1>1. PICK u \in StopWorker(s) :
             \/ t = [u EXCEPT !.active = r, !.worker = "polling", !.polled = r]
             \/ t = [CompleteRendererVerification(u, r, FALSE) EXCEPT !.active = None]
  BY DEF StartVerifier
<1>2. /\ Formed(u) /\ Kept(s, u)
      /\ u.outstanding = s.outstanding /\ u.active = s.active
      /\ u.worker = "none" /\ u.polled = None
  BY <1>1, StopWorkerLeaves
<1>3. CASE t = [u EXCEPT !.active = r, !.worker = "polling", !.polled = r]
  <2>0. u \in Sessions
    BY <1>2 DEF Formed, Typed
  <2>1. /\ t \in Sessions /\ Kept(u, t) /\ t.posted = u.posted /\ t.outstanding = u.outstanding
        /\ t.active = r /\ t.worker = "polling" /\ t.polled = r
    BY <1>3, <2>0 DEF Sessions, Kept, SameState, SameVerdict
  <2>2. Formed(t)
    BY <1>2, <2>1, NoneAssumption DEF Formed, Typed, Paired, Honest, Kept
  <2>3. Kept(s, t)
    BY <1>2, <2>1 DEF Kept, SameState, SameVerdict
  <2> QED BY <1>2, <2>1, <2>2, <2>3
<1>4. CASE t = [CompleteRendererVerification(u, r, FALSE) EXCEPT !.active = None]
  <2> DEFINE v == CompleteRendererVerification(u, r, FALSE)
  <2>1. /\ Formed(v) /\ Kept(u, v)
        /\ v.outstanding = IF u.outstanding = r THEN None ELSE u.outstanding
    BY <1>2, CompletionCloses
  <2>2. t = [v EXCEPT !.active = None]
    BY <1>4
  <2> HIDE DEF v
  <2>3. Formed(t) /\ Kept(v, t) /\ t.outstanding = v.outstanding /\ t.active = None
    BY <2>1, <2>2, DroppedIsFormed
  <2>4. Kept(s, t)
    BY <1>2, <2>1, <2>3 DEF Kept, SameState, SameVerdict
  <2> QED BY <1>2, <2>1, <2>3, <2>4
<1> QED BY <1>1, <1>3, <1>4

LEMMA StartIfNeededAgrees ==
    ASSUME WorldInv, NEW s, Formed(s), NEW r \in Requests, life[r.process] # "unborn",
           s.outstanding \in {r, None}, s.active # None => s.polled = s.active,
           NEW t \in StartIfNeeded(s, r)
    PROVE  Formed(t) /\ Kept(s, t) /\ Agree(t) /\ t.outstanding \in {r, None}
<1>1. CASE s.active = r /\ Running(s)
  <2>1. t = s
    BY <1>1 DEF StartIfNeeded
  <2> QED BY <1>1, <2>1 DEF Agree, Kept, SameState, SameVerdict
<1>2. CASE ~(s.active = r /\ Running(s))
  <2>1. PICK u \in IF s.active = None THEN {s} ELSE StopRenderVerification(s) : t \in StartVerifier(u, r)
    BY <1>2 DEF StartIfNeeded
  <2>2. Formed(u) /\ Kept(s, u) /\ u.outstanding \in {r, None}
    <3>1. CASE s.active = None
      BY <2>1, <3>1 DEF Kept, SameState, SameVerdict
    <3>2. CASE s.active # None
      BY <2>1, <3>2, StopHalts DEF Halted
    <3> QED BY <3>1, <3>2
  <2>3. /\ Formed(t) /\ Kept(u, t)
        /\ \/ t.active = r /\ t.polled = r /\ t.outstanding = u.outstanding
           \/ /\ t.active = None
              /\ t.outstanding = IF u.outstanding = r THEN None ELSE u.outstanding
    BY <2>1, <2>2, StartVerifierLeaves
  <2>4. Kept(s, t)
    BY <2>2, <2>3 DEF Kept, SameState, SameVerdict
  <2> QED BY <2>2, <2>3, <2>4, NoneAssumption DEF Agree
<1> QED BY <1>1, <1>2

-----------------------------------------------------------------------------
(* Evaluations.                                                            *)

LEMMA TargetIsFormed ==
    ASSUME NEW s, Formed(s), NEW p \in Processes \cup {None}, p # None => Deserves(p)
    PROVE  LET t == [s EXCEPT !.target = p]
           IN  /\ Formed(t) /\ SameState(s, t) /\ SameVerdict(s, t) /\ SameVerifier(s, t)
               /\ t.target = p /\ t.cache = s.cache /\ t.outstanding = s.outstanding
<1> DEFINE t == [s EXCEPT !.target = p]
<1>0. s \in Sessions
  BY DEF Formed, Typed
<1>1. /\ t \in Sessions /\ SameState(s, t) /\ SameVerdict(s, t) /\ SameVerifier(s, t)
      /\ t.target = p /\ t.cache = s.cache /\ t.outstanding = s.outstanding
  BY <1>0 DEF Sessions, SameState, SameVerdict, SameVerifier
<1> HIDE DEF t
<1>2. Formed(t)
  BY <1>1 DEF Formed, Typed, Paired, Honest, SameVerifier
<1> QED BY <1>1, <1>2 DEF t

\* The target that an evaluation of window w leaves behind is w or none, as the
\* detector decided, and every request that is open is worked on.
Evaluated(s, t, w) ==
    /\ Core(t) /\ SameState(s, t) /\ Follows(t)
    /\ t.window = w

LEMMA ApplyFollows ==
    ASSUME WorldInv, NEW s, Core(s), NEW w, NEW j, Judged(s, j, w), NEW t \in Apply(j)
    PROVE  Evaluated(s, t, w)
<1>0. /\ Formed(j) /\ SameState(s, j) /\ SameVerifier(s, j) /\ j.window = w
      /\ s.active # None => s.polled = s.active
      /\ s.outstanding # None => s.outstanding = s.active
  BY DEF Judged, Formed, Core, Agree
<1>1. CASE j.decision = "Eligible"
  <2> DEFINE a == [j EXCEPT !.target = j.window]
  <2>1. w \in Processes /\ Deserves(w) /\ j.outstanding = s.outstanding
    BY <1>1 DEF Judged
  <2>2. t \in IF j.active = None THEN {a} ELSE StopRenderVerification(a)
    BY <1>1 DEF Apply
  <2>3. /\ Formed(a) /\ SameState(j, a) /\ SameVerdict(j, a) /\ SameVerifier(j, a)
        /\ a.target = w /\ a.outstanding = j.outstanding
    BY <1>0, <2>1, TargetIsFormed
  <2> HIDE DEF a
  <2>4. a.outstanding # None => a.outstanding = a.active
    BY <1>0, <2>1, <2>3 DEF SameVerifier
  <2>5. CASE j.active = None
    <3>1. t = a
      BY <2>2, <2>5
    <3>2. Core(t)
      BY <2>3, <2>4, <2>5, <3>1 DEF Formed, Core, Agree, SameVerifier
    <3> QED BY <1>0, <1>1, <2>3, <3>1, <3>2 DEF Evaluated, Follows, SameState, SameVerdict
  <2>6. CASE j.active # None
    <3>1. Halted(a, t)
      BY <2>2, <2>3, <2>6, StopHalts
    <3>2. Core(t)
      BY <2>3, <2>4, <2>6, <3>1 DEF Halted, Formed, Core, Agree
    <3> QED BY <1>0, <1>1, <2>3, <3>1, <3>2 DEF Evaluated, Follows, SameState, SameVerdict, Halted, Kept
  <2> QED BY <2>5, <2>6
<1> DEFINE c == [j EXCEPT !.target = None]
<1>2. /\ Formed(c) /\ SameState(j, c) /\ SameVerdict(j, c) /\ SameVerifier(j, c)
      /\ c.target = None /\ c.outstanding = j.outstanding
  BY <1>0, TargetIsFormed
<1>3. CASE j.decision = "Hidden"
  <2>1. t = c
    BY <1>3 DEF Apply
  <2> HIDE DEF c
  <2>2. c.outstanding = s.outstanding
    BY <1>2, <1>3 DEF Judged
  <2>3. Core(c)
    BY <1>0, <1>2, <2>2 DEF Formed, Core, Agree, SameVerifier
  <2> QED BY <1>0, <1>2, <1>3, <2>1, <2>3 DEF Evaluated, Follows, SameState, SameVerdict
<1>4. CASE j.decision = "NeedsRendererVerification"
  <2> DEFINE r == j.outstanding
             ensured == IF j.target = None THEN {c} ELSE {c} \cup StartIfNeeded(c, r)
  <2>1. PICK u \in ensured : t \in StartIfNeeded(u, r)
    BY <1>4 DEF Apply
  <2> HIDE DEF c
  <2>2. r \in Requests /\ life[r.process] # "unborn"
    BY <1>4 DEF Judged, Alive
  <2>3. c.active # None => c.polled = c.active
    BY <1>0, <1>2 DEF SameVerifier
  <2>4. /\ Formed(u) /\ Kept(c, u) /\ u.outstanding \in {r, None}
        /\ u.active # None => u.polled = u.active
    <3>1. CASE u = c
      BY <1>2, <2>3, <3>1 DEF Kept, SameState, SameVerdict
    <3>2. CASE u \in StartIfNeeded(c, r)
      BY <1>2, <2>2, <2>3, <3>2, StartIfNeededAgrees DEF Agree
    <3> QED BY <2>1, <3>1, <3>2
  <2>5. Formed(t) /\ Kept(u, t) /\ Agree(t)
    BY <2>1, <2>2, <2>4, StartIfNeededAgrees
  <2>6. Core(t)
    BY <2>5 DEF Formed, Core
  <2> QED BY <1>0, <1>2, <1>4, <2>4, <2>5, <2>6 DEF Evaluated, Follows, SameState, SameVerdict, Kept
<1> QED BY <1>1, <1>3, <1>4 DEF Judged

\* No verifier runs for a HUD that is off or suspended, and nothing from before a
\* suspend is left to be handled.
Quiet(s) ==
    /\ s.suspended \/ ~s.enabled => s.worker = "none"
    /\ s.suspended => s.posted = {}
    /\ s.recovering => ~s.suspended

Good(s) == Core(s) /\ Quiet(s)
Live(s) == s.enabled /\ ~s.suspended

LEMMA EvaluateFollows ==
    ASSUME WorldInv, NEW s, Good(s), NEW t \in Evaluate(s)
    PROVE  /\ Good(t) /\ SameState(s, t)
           /\ Live(s) => Follows(t) /\ t.window = foreground
           /\ ~Live(s) => t = s
<1>1. CASE Live(s)
  <2>1. t \in Apply(Judge(s, foreground))
    BY <1>1 DEF Evaluate, Live
  <2>2. Judged(s, Judge(s, foreground), foreground)
    BY JudgeDecides DEF WorldInv, Good
  <2>3. Evaluated(s, t, foreground)
    BY <2>1, <2>2, ApplyFollows DEF Good
  <2> QED BY <1>1, <2>3 DEF Evaluated, Good, Quiet, SameState, Live
<1>2. CASE ~Live(s)
  <2>1. t = s
    BY <1>2 DEF Evaluate, Live
  <2> QED BY <1>2, <2>1 DEF SameState
<1> QED BY <1>1, <1>2

LEMMA EnsureFollows ==
    ASSUME WorldInv, NEW s, Good(s), NEW t \in EnsureRenderVerification(s)
    PROVE  /\ Good(t) /\ SameState(s, t) /\ t.window = s.window
           /\ t = s \/ Follows(t)
<1>1. CASE Live(s) /\ s.decision = "NeedsRendererVerification"
  <2>1. t \in Apply(Judge(s, s.window))
    BY <1>1 DEF EnsureRenderVerification, Live
  <2>2. s.window \in Processes \cup {None}
    BY DEF Good, Core, Typed, Sessions
  <2>3. Judged(s, Judge(s, s.window), s.window)
    BY <2>2, JudgeDecides DEF Good
  <2>4. Evaluated(s, t, s.window)
    BY <2>1, <2>3, ApplyFollows DEF Good
  <2> QED BY <1>1, <2>4 DEF Evaluated, Good, Quiet, SameState, Live
<1>2. CASE ~(Live(s) /\ s.decision = "NeedsRendererVerification")
  <2>1. t = s
    BY <1>2 DEF EnsureRenderVerification, Live
  <2> QED BY <2>1 DEF SameState
<1> QED BY <1>1, <1>2

-----------------------------------------------------------------------------
(* Reconciliations.                                                        *)

\* What a handler achieves: it has evaluated the foreground, or the target is the
\* one there was.
SameGate(s, t) ==
    t.enabled = s.enabled /\ t.suspended = s.suspended /\ t.recovering = s.recovering
Outcome(s, t) ==
    /\ Good(t) /\ SameGate(s, t)
    /\ \/ Live(t) /\ Follows(t) /\ t.window = foreground
       \/ t.target = s.target /\ SameVerdict(s, t)

LEMMA OutcomeTransitive ==
    ASSUME NEW s, NEW t, NEW u, Outcome(s, t), Outcome(t, u)
    PROVE  Outcome(s, u)
BY DEF Outcome, SameGate, SameVerdict, Live, Follows

\* Only the queues, the flag of Steam and the tracked foreground are others.
Alike(s, t) ==
    /\ t \in Sessions
    /\ SameGate(s, t) /\ SameVerdict(s, t) /\ SameVerifier(s, t)
    /\ t.target = s.target /\ t.cache = s.cache /\ t.outstanding = s.outstanding

LEMMA AlikeIsGood ==
    ASSUME NEW s, Good(s), NEW t, Alike(s, t)
    PROVE  Good(t) /\ Outcome(s, t)
<1>1. Core(t)
  BY DEF Good, Core, Typed, Paired, Agree, Honest, Alike, SameVerifier
<1>2. Quiet(t)
  BY DEF Good, Quiet, Alike, SameVerifier, SameGate
<1> QED BY <1>1, <1>2 DEF Good, Outcome, Alike

LEMMA EvaluateOutcome ==
    ASSUME WorldInv, NEW s, Good(s), NEW t \in Evaluate(s)
    PROVE  Outcome(s, t) /\ (Live(s) => Follows(t) /\ t.window = foreground)
<1>1. /\ Good(t) /\ SameState(s, t)
      /\ Live(s) => Follows(t) /\ t.window = foreground
      /\ ~Live(s) => t = s
  BY EvaluateFollows
<1> QED BY <1>1 DEF Outcome, SameGate, SameState, SameVerdict, Live

LEMMA ReconcileFollows ==
    ASSUME WorldInv, NEW s, Good(s), NEW t \in ReconcileHudVisibility(s)
    PROVE  /\ Good(t) /\ SameState(s, t)
           /\ t = s \/ (Live(s) /\ Follows(t))
           /\ t.window \in {s.window, foreground}
<1>1. CASE ~s.enabled \/ s.suspended \/ s.recovering
  <2>1. t = s
    BY <1>1 DEF ReconcileHudVisibility
  <2> QED BY <2>1 DEF SameState
<1>2. CASE ~(~s.enabled \/ s.suspended \/ s.recovering)
  <2>1. PICK u \in Revalidate(s) : t \in {u} \cup EnsureRenderVerification(u)
    BY <1>2 DEF ReconcileHudVisibility
  <2>2. /\ Good(u) /\ SameState(s, u) /\ (u = s \/ Follows(u))
        /\ u.window \in {s.window, foreground}
    BY <1>2, <2>1, EvaluateFollows DEF Revalidate, SameState, Live
  <2>3. Good(t) /\ SameState(u, t) /\ t.window = u.window /\ (t = u \/ Follows(t))
    BY <2>1, <2>2, EnsureFollows DEF SameState
  <2> QED BY <1>2, <2>2, <2>3 DEF SameState, Live
<1> QED BY <1>1, <1>2

\* After an evaluation a reconciliation can only choose the foreground.
LEMMA ReconcileOutcome ==
    ASSUME WorldInv, NEW s, Good(s), Live(s) => s.window = foreground,
           NEW t \in ReconcileHudVisibility(s)
    PROVE  Outcome(s, t) /\ (Live(t) => t.window = foreground)
<1>1. /\ Good(t) /\ SameState(s, t)
      /\ t = s \/ (Live(s) /\ Follows(t))
      /\ t.window \in {s.window, foreground}
  BY ReconcileFollows
<1> QED BY <1>1 DEF Outcome, SameGate, SameState, SameVerdict, Live

LEMMA ReconcileForegroundOutcome ==
    ASSUME WorldInv, NEW s, Good(s), NEW t \in ReconcileForeground(s)
    PROVE  Outcome(s, t)
<1>1. CASE s.tracked = foreground
  <2>1. t = s
    BY <1>1 DEF ReconcileForeground
  <2> QED BY <2>1 DEF Outcome, SameGate, SameVerdict
<1>2. CASE s.tracked # foreground
  <2> DEFINE a == [s EXCEPT !.tracked = foreground]
  <2>1. PICK u \in ReconcileHudVisibility(a) : t \in Evaluate(u)
    BY <1>2 DEF ReconcileForeground
  <2>2. Alike(s, a)
    BY DEF WorldInv, Good, Core, Typed, Sessions, Alike, SameGate, SameVerdict, SameVerifier
  <2> HIDE DEF a
  <2>3. Good(a) /\ Outcome(s, a)
    BY <2>2, AlikeIsGood
  <2>4. Good(u) /\ SameState(a, u) /\ (u = a \/ Live(a))
    BY <2>1, <2>3, ReconcileFollows
  <2>5. Outcome(u, t) /\ (Live(u) => Follows(t) /\ t.window = foreground)
    BY <2>1, <2>4, EvaluateOutcome
  <2>6. CASE Live(u)
    BY <2>3, <2>4, <2>5, <2>6 DEF Outcome, SameGate, SameState, Live
  <2>7. CASE ~Live(u)
    <3>1. u = a
      BY <2>4, <2>7 DEF SameState, Live
    <3> QED BY <2>3, <2>5, <3>1, OutcomeTransitive
  <2> QED BY <2>6, <2>7
<1> QED BY <1>1, <1>2

-----------------------------------------------------------------------------
(* Handlers.                                                               *)

SessionInv(s) ==
    Good(s) /\ (Live(s) /\ ~s.recovering => Follows(s))

\* A new target is the foreground of a HUD that is on and not suspended.
Chosen(s, t) ==
    t.target \in {s.target, None} \/ (t.target = foreground /\ Live(t))

Handled(s, t) == SessionInv(t) /\ Chosen(s, t)

LEMMA OutcomeIsHandled ==
    ASSUME NEW s, SessionInv(s), NEW t, Outcome(s, t)
    PROVE  Handled(s, t)
BY DEF Outcome, SessionInv, Handled, Chosen, SameGate, SameVerdict, Live, Follows

LEMMA AlikeIsHandled ==
    ASSUME WorldInv, NEW s, SessionInv(s), NEW a, Alike(s, a), NEW t, Outcome(a, t)
    PROVE  Handled(s, t)
<1>1. Outcome(s, a)
  BY AlikeIsGood DEF SessionInv
<1> QED BY <1>1, OutcomeTransitive, OutcomeIsHandled

LEMMA HudOnIsHandled ==
    ASSUME WorldInv, NEW s, SessionInv(s),
           NEW t \in UNION {ReconcileHudVisibility(u) : u \in Evaluate([s EXCEPT !.enabled = TRUE])}
    PROVE  Handled(s, t)
<1> DEFINE a == [s EXCEPT !.enabled = TRUE]
<1>1. PICK u \in Evaluate(a) : t \in ReconcileHudVisibility(u)
  OBVIOUS
<1>2. /\ a \in Sessions /\ a.enabled
      /\ a.suspended = s.suspended /\ a.recovering = s.recovering /\ a.target = s.target
      /\ SameVerdict(s, a) /\ SameVerifier(s, a) /\ a.cache = s.cache
      /\ a.outstanding = s.outstanding
  BY DEF SessionInv, Good, Core, Typed, Sessions, SameVerdict, SameVerifier
<1> HIDE DEF a
<1>3. Good(a)
  BY <1>2 DEF SessionInv, Good, Core, Typed, Paired, Agree, Honest, Quiet, SameVerifier
<1>4. Outcome(a, u) /\ (Live(a) => Follows(u) /\ u.window = foreground)
  BY <1>1, <1>3, EvaluateOutcome
<1>5. Good(u) /\ SameGate(a, u)
  BY <1>4 DEF Outcome
<1>6. Outcome(u, t) /\ (Live(t) => t.window = foreground)
  BY <1>1, <1>4, <1>5, ReconcileOutcome DEF SameGate, Live
<1>7. CASE Live(a)
  <2>1. Live(t) /\ Follows(t) /\ t.window = foreground
    BY <1>4, <1>5, <1>6, <1>7 DEF Outcome, SameGate, SameVerdict, Live, Follows
  <2> QED BY <1>6, <2>1 DEF Handled, SessionInv, Chosen, Outcome, Follows
<1>8. CASE ~Live(a)
  <2>1. ~Live(u) /\ ~Live(t)
    BY <1>5, <1>6, <1>8 DEF Outcome, SameGate, Live
  <2>2. t.target = s.target
    BY <1>2, <1>4, <1>6, <2>1 DEF Outcome, SameGate, Live
  <2> QED BY <1>6, <2>1, <2>2 DEF Handled, SessionInv, Chosen, Outcome
<1> QED BY <1>7, <1>8

LEMMA HudOffIsHandled ==
    ASSUME WorldInv, NEW s, SessionInv(s),
           NEW t \in ResetForegroundGameSession([s EXCEPT !.enabled = FALSE])
    PROVE  Handled(s, t)
<1> DEFINE a == [s EXCEPT !.enabled = FALSE]
<1>1. PICK u \in StopRenderVerification(a) : t = [u EXCEPT !.target = None]
  BY DEF ResetForegroundGameSession
<1>0. s \in Sessions
  BY DEF SessionInv, Good, Core, Typed
<1>2. /\ a \in Sessions /\ ~a.enabled
      /\ a.suspended = s.suspended /\ a.recovering = s.recovering
      /\ SameVerifier(s, a) /\ a.cache = s.cache /\ a.target = s.target
      /\ a.outstanding = s.outstanding
  BY <1>0, ZenonT(40) DEF Sessions, SameVerifier
<1> HIDE DEF a
<1>3. Formed(a)
  BY <1>2 DEF SessionInv, Good, Core, Formed, Typed, Paired, Honest, SameVerifier
<1>4. Halted(a, u)
  BY <1>1, <1>3, StopHalts
<1>5. /\ Formed(t) /\ SameState(u, t) /\ SameVerifier(u, t)
      /\ t.target = None /\ t.outstanding = u.outstanding
  BY <1>1, <1>4, TargetIsFormed DEF Halted
<1>6. Core(t)
  BY <1>2, <1>4, <1>5 DEF SessionInv, Good, Core, Agree, Formed, Halted, SameVerifier
<1>7. /\ ~t.enabled /\ t.suspended = s.suspended /\ t.recovering = s.recovering
      /\ t.worker = "none" /\ (s.worker = "none" => t.posted = s.posted)
  BY <1>2, <1>4, <1>5 DEF Halted, Kept, SameState, SameVerifier
<1>8. Quiet(t)
  BY <1>7 DEF SessionInv, Good, Quiet
<1> QED BY <1>5, <1>6, <1>7, <1>8 DEF Handled, SessionInv, Good, Chosen, Live

\* What is found out about a window is evidence of the process that has it.
LEMMA InspectRecords ==
    ASSUME WorldInv, NEW s, Core(s), NEW e \in WindowEvents
    PROVE  LET t == InspectWindowEvent(s, e)
           IN  /\ t \in Sessions /\ Core(t) /\ SameGate(s, t) /\ SameVerdict(s, t)
               /\ SameVerifier(s, t) /\ t.target = s.target /\ t.outstanding = s.outstanding
<1> DEFINE now == {p \in Processes : PidOf(p) = PidOf(e[1]) /\ Alive(p)}
           p == CHOOSE p \in now : TRUE
           t == InspectWindowEvent(s, e)
<1>1. CASE e[2] = "change" \/ now = {}
  <2>1. t = s
    BY <1>1 DEF InspectWindowEvent
  <2> QED BY <2>1 DEF Core, Typed, SameGate, SameVerdict, SameVerifier
<1>2. CASE ~(e[2] = "change" \/ now = {})
  <2>1. p \in Processes /\ Alive(p)
    <3>1. p \in now
      BY <1>2
    <3> QED BY <3>1
  <2> DEFINE m == MarkMicrosoftGame(s, p)
             a == [m EXCEPT !.messages = @ \cup {"evidence"}]
  <2>2. t = IF machine.kind[p] = "store" THEN a ELSE Lookup(s, p)
    BY <1>2 DEF InspectWindowEvent
  <2> HIDE DEF p, t
  <2>3. CASE machine.kind[p] = "store"
    <3>1. Deserves(p)
      BY <2>1, <2>3 DEF Deserves, Alive
    <3>2. Recorded(s, m)
      BY <2>1, <3>1, MarkMicrosoftGameRecords
    <3>3. t = a
      BY <2>2, <2>3
    <3> HIDE DEF m
    <3>4. m \in Sessions
      BY <3>2 DEF Recorded, Core, Typed
    <3>5. /\ a \in Sessions /\ SameGate(m, a) /\ SameVerdict(m, a) /\ SameVerifier(m, a)
          /\ a.target = m.target /\ a.cache = m.cache /\ a.outstanding = m.outstanding
      BY <3>4 DEF Sessions, SameGate, SameVerdict, SameVerifier
    <3> HIDE DEF a
    <3>6. Core(a)
      BY <3>2, <3>5 DEF Recorded, Core, Typed, Paired, Agree, Honest, SameVerifier
    <3>7. /\ t \in Sessions /\ Core(t) /\ SameGate(s, t) /\ SameVerdict(s, t)
          /\ SameVerifier(s, t) /\ t.target = s.target /\ t.outstanding = s.outstanding
      BY <3>2, <3>3, <3>5, <3>6 DEF Recorded, SameState, SameGate, SameVerdict, SameVerifier
    <3> QED BY <3>7 DEF t
  <2>4. CASE machine.kind[p] # "store"
    <3>1. t = Lookup(s, p)
      BY <2>2, <2>4
    <3>2. Recorded(s, t)
      BY <2>1, <3>1, LookupRecords
    <3>3. /\ t \in Sessions /\ Core(t) /\ SameGate(s, t) /\ SameVerdict(s, t)
          /\ SameVerifier(s, t) /\ t.target = s.target /\ t.outstanding = s.outstanding
      BY <3>2 DEF Recorded, Core, Typed, SameState, SameGate
    <3> QED BY <3>3 DEF t
  <2> QED BY <2>3, <2>4
<1> QED BY <1>1, <1>2

LEMMA WindowEventIsHandled ==
    ASSUME WorldInv, NEW s, SessionInv(s), NEW e \in WindowEvents,
           NEW t \in ProductionWindowEvent([s EXCEPT !.windows = @ \ {e}], e)
    PROVE  Handled(s, t)
<1> DEFINE a == [s EXCEPT !.windows = @ \ {e}]
           i == InspectWindowEvent(a, e)
<1>1. PICK u \in ReconcileForeground(i) :
             t \in IF e[1] \in {foreground, u.window} THEN Evaluate(u) ELSE {u}
  BY DEF ProductionWindowEvent
<1>2. Alike(s, a)
  BY DEF SessionInv, Good, Core, Typed, Sessions, Alike, SameGate, SameVerdict, SameVerifier
<1> HIDE DEF a
<1>3. Good(a) /\ Outcome(s, a)
  BY <1>2, AlikeIsGood DEF SessionInv
<1>4. /\ i \in Sessions /\ Core(i) /\ SameGate(a, i) /\ SameVerdict(a, i)
      /\ SameVerifier(a, i) /\ i.target = a.target /\ i.outstanding = a.outstanding
  BY <1>3, InspectRecords DEF Good
<1> HIDE DEF i
<1>5. Good(i) /\ Outcome(a, i)
  BY <1>3, <1>4 DEF Good, Quiet, SameGate, SameVerifier, Outcome
<1>6. Outcome(i, u)
  BY <1>1, <1>5, ReconcileForegroundOutcome DEF i
<1>7. Outcome(u, t)
  <2>1. Good(u)
    BY <1>6 DEF Outcome
  <2>2. CASE t \in Evaluate(u)
    BY <2>1, <2>2, EvaluateOutcome
  <2>3. CASE t = u
    BY <2>1, <2>3 DEF Outcome, SameGate, SameVerdict
  <2> QED BY <1>1, <2>2, <2>3
<1>8. Outcome(s, t)
  BY <1>3, <1>5, <1>6, <1>7, OutcomeTransitive
<1> QED BY <1>8, OutcomeIsHandled

\* A completion counts for the process it names, and for no other request.
LEMMA VerifierUpdateIsHandled ==
    ASSUME WorldInv, NEW s, SessionInv(s), NEW r \in s.posted,
           NEW t \in VerifierUpdate([s EXCEPT !.posted = @ \ {r}], r)
    PROVE  Handled(s, t)
<1>0. s \in Sessions /\ r \in Requests /\ r.process \in Processes /\ Deserves(r.process)
  BY DEF SessionInv, Good, Core, Typed, Honest, Sessions, Requests
<1> DEFINE a == [s EXCEPT !.posted = @ \ {r}]
           b == TryMarkRendererVerified(a, r.process)
           c == [b EXCEPT !.outstanding = IF @ = r THEN None ELSE @]
           d == [c EXCEPT !.active = IF @ = r THEN None ELSE @]
<1>1. t \in IF a.suspended \/ a.recovering THEN {d} ELSE Evaluate(d)
  BY DEF VerifierUpdate, CompleteRendererVerification
<1>2. /\ a \in Sessions /\ SameState(s, a) /\ SameVerdict(s, a)
      /\ a.target = s.target /\ a.cache = s.cache /\ a.outstanding = s.outstanding
      /\ a.active = s.active /\ a.worker = s.worker /\ a.polled = s.polled
      /\ a.posted = s.posted \ {r}
  BY <1>0 DEF Sessions, SameState, SameVerdict
<1> HIDE DEF a
<1>3. IsFiniteSet(a.posted) /\ Cardinality(a.posted) <= MaxPosted + 1
  <2>1. IsFiniteSet(s.posted) /\ Cardinality(s.posted) \in Nat /\ Cardinality(s.posted) <= MaxPosted + 1
    BY FS_CardinalityType DEF SessionInv, Good, Core, Typed
  <2>2. /\ IsFiniteSet(s.posted \ {r})
        /\ Cardinality(s.posted \ {r}) = Cardinality(s.posted) - 1
    BY <2>1, FS_RemoveElement
  <2> QED BY <1>2, <2>1, <2>2, BoundsAssumption
<1>4. Core(a)
  BY <1>2, <1>3 DEF SessionInv, Good, Core, Typed, Paired, Agree, Honest
<1>5. Recorded(a, b)
  BY <1>0, <1>4, TryMarkRecords
<1> HIDE DEF b
<1>6. b \in Sessions /\ Core(b)
  BY <1>5 DEF Recorded, Core, Typed
<1>7. /\ c \in Sessions /\ Kept(b, c) /\ SameVerifier(b, c)
      /\ c.outstanding = IF b.outstanding = r THEN None ELSE b.outstanding
  BY <1>6 DEF Sessions, Kept, SameState, SameVerdict, SameVerifier
<1> HIDE DEF c
<1>8. /\ d \in Sessions /\ Kept(c, d) /\ d.outstanding = c.outstanding
      /\ d.worker = c.worker /\ d.polled = c.polled /\ d.posted = c.posted
      /\ d.active = IF c.active = r THEN None ELSE c.active
  BY <1>7 DEF Sessions, Kept, SameState, SameVerdict
<1> HIDE DEF d
<1>9. Core(d)
  BY <1>6, <1>7, <1>8 DEF Core, Typed, Paired, Agree, Honest, Kept, SameVerifier
<1>10. Good(d) /\ Outcome(s, d)
  <2>1. /\ SameGate(s, d) /\ SameVerdict(s, d) /\ d.target = s.target
        /\ d.worker = s.worker /\ d.posted = s.posted \ {r}
    BY <1>2, <1>5, <1>7, <1>8
       DEF Recorded, Kept, SameState, SameGate, SameVerdict, SameVerifier
  <2> QED BY <1>9, <2>1 DEF SessionInv, Good, Quiet, SameGate, Outcome
<1>11. Outcome(d, t)
  <2>1. CASE t \in Evaluate(d)
    BY <1>10, <2>1, EvaluateOutcome
  <2>2. CASE t = d
    BY <1>10, <2>2 DEF Outcome, SameGate, SameVerdict
  <2> QED BY <1>1, <2>1, <2>2
<1>12. Outcome(s, t)
  BY <1>10, <1>11, OutcomeTransitive
<1> QED BY <1>12, OutcomeIsHandled

\* A suspend that has joined the worker and then drained the queue is quiet.
LEMMA QuiesceLeaves ==
    ASSUME WorldInv, NEW s, Formed(s), Agree(s), NEW t \in Quiesce(s)
    PROVE  /\ Core(t) /\ SameGate(s, t) /\ t.target = s.target
           /\ t.worker = "none" /\ t.posted = {}
<1>1. PICK u \in StopRenderVerification(s) : t = DiscardPendingSuspendEvents(u)
  BY DEF Quiesce
<1>2. Halted(s, u)
  BY <1>1, StopHalts
<1>3. u \in Sessions
  BY <1>2 DEF Halted, Formed, Typed
<1>4. /\ t \in Sessions /\ SameGate(u, t) /\ t.target = u.target /\ t.cache = u.cache
      /\ t.outstanding = u.outstanding /\ t.active = u.active
      /\ t.worker = u.worker /\ t.polled = u.polled /\ t.posted = {}
  BY <1>1, <1>3 DEF DiscardPendingSuspendEvents, Sessions, SameGate
<1>5. IsFiniteSet(t.posted) /\ Cardinality(t.posted) <= MaxPosted + 1
  BY <1>4, FS_EmptySet, BoundsAssumption
<1>6. Core(t)
  BY <1>2, <1>4, <1>5 DEF Halted, Formed, Core, Typed, Paired, Agree, Honest
<1> QED BY <1>2, <1>4, <1>6 DEF Halted, Kept, SameState, SameGate

LEMMA SystemSuspendIsHandled ==
    ASSUME WorldInv, NEW s, SessionInv(s),
           NEW t \in Quiesce([s EXCEPT !.suspended = TRUE, !.recovering = FALSE])
    PROVE  Handled(s, t)
<1> DEFINE a == [s EXCEPT !.suspended = TRUE, !.recovering = FALSE]
<1>0. s \in Sessions
  BY DEF SessionInv, Good, Core, Typed
<1>1. /\ a \in Sessions /\ a.suspended /\ ~a.recovering /\ a.target = s.target
      /\ SameVerifier(s, a) /\ a.cache = s.cache /\ a.outstanding = s.outstanding
  BY <1>0, ZenonT(40) DEF Sessions, SameVerifier
<1> HIDE DEF a
<1>2. Formed(a) /\ Agree(a)
  BY <1>1 DEF SessionInv, Good, Core, Formed, Typed, Paired, Agree, Honest, SameVerifier
<1>3. /\ Core(t) /\ SameGate(a, t) /\ t.target = a.target
      /\ t.worker = "none" /\ t.posted = {}
  BY <1>2, QuiesceLeaves DEF a
<1> QED BY <1>1, <1>3 DEF Handled, SessionInv, Good, Quiet, SameGate, Chosen, Live

LEMMA SystemResumeIsHandled ==
    ASSUME WorldInv, NEW s, SessionInv(s), NEW u,
           u \in IF s.suspended THEN {s} ELSE Quiesce(s),
           NEW t, t = [u EXCEPT !.suspended = FALSE, !.recovering = TRUE]
    PROVE  Handled(s, t)
<1>1. Core(u) /\ u.enabled = s.enabled /\ u.target = s.target /\ (~u.enabled => u.worker = "none")
  <2>1. CASE s.suspended
    BY <2>1 DEF SessionInv, Good, Quiet
  <2>2. CASE ~s.suspended
    BY <2>2, QuiesceLeaves DEF SessionInv, Good, Core, Formed, SameGate
  <2> QED BY <2>1, <2>2
<1>2. u \in Sessions
  BY <1>1 DEF Core, Typed
<1>3. /\ t \in Sessions /\ t.enabled = u.enabled /\ ~t.suspended /\ t.recovering
      /\ t.target = u.target /\ t.cache = u.cache /\ t.outstanding = u.outstanding
      /\ SameVerifier(u, t)
  BY <1>2 DEF Sessions, SameVerifier
<1>4. Core(t)
  BY <1>1, <1>3 DEF Core, Typed, Paired, Agree, Honest, SameVerifier
<1>5. Quiet(t)
  BY <1>1, <1>3 DEF Quiet, SameVerifier
<1> QED BY <1>1, <1>3, <1>4, <1>5 DEF Handled, SessionInv, Good, Chosen, Live

\* The gate of a recovery opens and closes.
LEMMA GateMoves ==
    ASSUME NEW s, Good(s), ~s.suspended, NEW b \in BOOLEAN
    PROVE  LET t == [s EXCEPT !.recovering = b]
           IN  /\ Good(t) /\ t.enabled = s.enabled /\ t.suspended = s.suspended
               /\ SameVerdict(s, t) /\ t.target = s.target
<1> DEFINE t == [s EXCEPT !.recovering = b]
<1>1. /\ t \in Sessions /\ t.enabled = s.enabled /\ t.suspended = s.suspended
      /\ SameVerdict(s, t) /\ SameVerifier(s, t) /\ t.target = s.target
      /\ t.cache = s.cache /\ t.outstanding = s.outstanding
  BY DEF Good, Core, Typed, Sessions, SameVerdict, SameVerifier
<1> HIDE DEF t
<1>2. Good(t)
  BY <1>1 DEF Good, Core, Typed, Paired, Agree, Honest, Quiet, SameVerifier
<1> QED BY <1>1, <1>2 DEF t

\* What an attempt of the recovery has at each of its stages.
Attempted(s, t) ==
    /\ Good(t) /\ t.enabled = s.enabled /\ t.suspended = s.suspended
    /\ Live(s) => Follows(t) /\ t.window = foreground
    /\ ~Live(s) => t.target = s.target

LEMMA AttemptGoesOn ==
    ASSUME NEW s, NEW t, NEW u, Attempted(s, t), Outcome(t, u), Live(u) => u.window = foreground
    PROVE  Attempted(s, u)
BY DEF Attempted, Outcome, SameGate, SameVerdict, Live, Follows

LEMMA AttemptIsHandled ==
    ASSUME NEW s, NEW t, Attempted(s, t)
    PROVE  Handled(s, t)
BY DEF Attempted, Handled, SessionInv, Chosen, Live, Follows

LEMMA ResumeRecoveryIsHandled ==
    ASSUME WorldInv, SessionInv(session), ResumeRecovery
    PROVE  Handled(session, session')
<1> DEFINE Drained(v) == [v EXCEPT !.posted = {}]
           Opened(w) == [w EXCEPT !.recovering = FALSE]
           Closed(x) == [x EXCEPT !.recovering = TRUE]
<1>0. session.recovering /\ ~session.suspended /\ Good(session)
  BY DEF ResumeRecovery, SessionInv, Good, Quiet
<1> DEFINE Looked == UNION {Evaluate(u) : u \in ReconcileForeground(session)}
           Seen == {Drained(t) : t \in Looked}
           Lifted == {Opened(t) : t \in Seen}
           Shown == UNION {ReconcileHudVisibility(t) : t \in Lifted}
           Retried == {Closed(t) : t \in Shown}
           Final == UNION {Evaluate(t) : t \in Shown}
<1>1. PICK v \in Looked :
             \/ session' = Drained(v)
             \/ session' = Opened(Drained(v))
             \/ \E x \in ReconcileHudVisibility(Opened(Drained(v))) :
                  session' = x \/ session' = Closed(x) \/ session' \in Evaluate(x)
  <2>1. session' \in Final \cup IF machine.faulty THEN Seen \cup Lifted \cup Shown \cup Retried ELSE {}
    <3>1. session' \in (UNION {Evaluate(t) : t \in Shown})
                       \cup IF machine.faulty THEN Seen \cup Lifted \cup Shown \cup Retried ELSE {}
      BY DEF ResumeRecovery, Handle
    <3> QED BY <3>1
  <2> HIDE DEF Looked
  <2>2. CASE session' \in Seen
    BY <2>2
  <2>3. CASE session' \in Lifted
    BY <2>3, ZenonT(30)
  <2>4. ASSUME NEW x \in Shown, session' = x \/ session' = Closed(x) \/ session' \in Evaluate(x)
        PROVE  \E v \in Looked : \E y \in ReconcileHudVisibility(Opened(Drained(v))) :
                  session' = y \/ session' = Closed(y) \/ session' \in Evaluate(y)
    <3>1. PICK v \in Looked : x \in ReconcileHudVisibility(Opened(Drained(v)))
      <4>1. PICK o \in Lifted : x \in ReconcileHudVisibility(o)
        OBVIOUS
      <4>2. PICK d \in Seen : o = Opened(d)
        OBVIOUS
      <4>3. PICK v \in Looked : d = Drained(v)
        OBVIOUS
      <4> QED BY <4>1, <4>2, <4>3
    <3> QED BY <2>4, <3>1
  <2>5. CASE session' \in Shown
    BY <2>4, <2>5
  <2>6. CASE session' \in Retried
    <3>1. PICK x \in Shown : session' = Closed(x)
      BY <2>6
    <3> QED BY <2>4, <3>1
  <2>7. CASE session' \in Final
    <3>1. PICK x \in Shown : session' \in Evaluate(x)
      BY <2>7
    <3> QED BY <2>4, <3>1
  <2>8. \/ session' \in Seen \/ session' \in Lifted \/ session' \in Shown
        \/ session' \in Retried \/ session' \in Final
    <3> HIDE DEF Final, Seen, Lifted, Shown, Retried
    <3> QED BY <2>1
  <2> QED BY <2>2, <2>3, <2>5, <2>6, <2>7, <2>8
<1>2. PICK u \in ReconcileForeground(session) : v \in Evaluate(u)
  BY <1>1
<1>3. Outcome(session, u)
  BY <1>0, <1>2, ReconcileForegroundOutcome
<1>4. Outcome(u, v) /\ (Live(u) => Follows(v) /\ v.window = foreground)
  BY <1>2, <1>3, EvaluateOutcome DEF Outcome
<1> DEFINE w == Drained(v)
<1>5. /\ w \in Sessions /\ SameGate(v, w) /\ SameVerdict(v, w) /\ w.posted = {}
      /\ w.target = v.target /\ w.cache = v.cache /\ w.outstanding = v.outstanding
      /\ w.active = v.active /\ w.worker = v.worker /\ w.polled = v.polled
  BY <1>4 DEF Outcome, Good, Core, Typed, Sessions, SameGate, SameVerdict
<1> HIDE DEF w
<1>6. Good(w)
  <2>1. IsFiniteSet(w.posted) /\ Cardinality(w.posted) <= MaxPosted + 1
    BY <1>5, FS_EmptySet, BoundsAssumption
  <2>2. Core(w)
    BY <1>4, <1>5, <2>1 DEF Outcome, Good, Core, Typed, Paired, Agree, Honest
  <2> QED BY <1>4, <1>5, <2>2 DEF Outcome, Good, Quiet, SameGate
<1>7. Attempted(session, w)
  <2>1. /\ w.enabled = session.enabled /\ w.suspended = session.suspended
        /\ u.enabled = session.enabled /\ u.suspended = session.suspended
    BY <1>3, <1>4, <1>5 DEF Outcome, SameGate
  <2>2. CASE Live(session)
    BY <1>4, <1>5, <1>6, <2>1, <2>2 DEF Attempted, Live, Follows, SameVerdict
  <2>3. CASE ~Live(session)
    <3>1. v.target = u.target /\ u.target = session.target
      BY <1>3, <1>4, <2>1, <2>3 DEF Outcome, Live, SameGate
    <3> QED BY <1>5, <1>6, <2>1, <2>3, <3>1 DEF Attempted, Live
  <2> QED BY <2>2, <2>3
<1> DEFINE l == Opened(w)
<1>8. /\ Good(l) /\ l.enabled = w.enabled /\ l.suspended = w.suspended
      /\ SameVerdict(w, l) /\ l.target = w.target
  <2>1. ~w.suspended
    BY <1>0, <1>7 DEF Attempted
  <2> QED BY <1>6, <2>1, GateMoves
<1> HIDE DEF l
<1>9. Attempted(session, l)
  BY <1>7, <1>8 DEF Attempted, SameVerdict, Follows
<1>10. CASE session' = w \/ session' = l
  BY <1>7, <1>9, <1>10, AttemptIsHandled
<1>11. CASE ~(session' = w \/ session' = l)
  <2>1. PICK x \in ReconcileHudVisibility(l) :
               session' = x \/ session' = Closed(x) \/ session' \in Evaluate(x)
    BY <1>1, <1>11 DEF w, l
  <2>2. Live(l) => l.window = foreground
    BY <1>8, <1>9 DEF Attempted, Live
  <2>3. Outcome(l, x) /\ (Live(x) => x.window = foreground)
    BY <1>8, <2>1, <2>2, ReconcileOutcome
  <2>4. Attempted(session, x)
    BY <1>9, <2>3, AttemptGoesOn
  <2>5. CASE session' = x
    BY <2>4, <2>5, AttemptIsHandled
  <2>6. CASE session' = Closed(x)
    <3> DEFINE y == Closed(x)
    <3>1. ~x.suspended /\ Good(x)
      BY <1>0, <2>4 DEF Attempted
    <3>2. /\ Good(y) /\ y.enabled = x.enabled /\ y.suspended = x.suspended
          /\ SameVerdict(x, y) /\ y.target = x.target
      BY <3>1, GateMoves
    <3> HIDE DEF y
    <3>3. Attempted(session, y)
      BY <2>4, <3>2 DEF Attempted, SameVerdict, Follows
    <3>4. session' = y
      BY <2>6 DEF y
    <3> QED BY <3>3, <3>4, AttemptIsHandled
  <2>7. CASE session' \in Evaluate(x)
    <3>1. /\ Outcome(x, session')
          /\ Live(x) => Follows(session') /\ session'.window = foreground
      BY <2>4, <2>7, EvaluateOutcome DEF Attempted
    <3>2. Live(session') => session'.window = foreground
      BY <3>1 DEF Outcome, SameGate, Live
    <3> QED BY <2>4, <3>1, <3>2, AttemptGoesOn, AttemptIsHandled
  <2> QED BY <2>1, <2>5, <2>6, <2>7
<1> QED BY <1>10, <1>11

LEMMA WorkerIsHandled ==
    ASSUME WorldInv, SessionInv(session), WorkerFindsFrame \/ WorkerEnds
    PROVE  Handled(session, session')
<1>0. session \in Sessions /\ Good(session) /\ Core(session)
  BY DEF SessionInv, Good, Core, Typed
<1>1. session.worker \in {"polling", "posted"}
  BY DEF WorkerFindsFrame, WorkerEnds
<1>2. session.polled \in Requests
  BY <1>0, <1>1 DEF Core, Paired, Sessions
<1>3. ~session.suspended /\ session.enabled
  BY <1>0, <1>1 DEF Good, Quiet, Sessions
<1> DEFINE s == [session EXCEPT !.worker = "posted"]
           t == [s EXCEPT !.posted = @ \cup {session.polled}]
           e == [session EXCEPT !.worker = "ended"]
<1>4. CASE session' = s \/ session' = e
  <2>1. /\ session' \in Sessions /\ SameGate(session, session') /\ SameVerdict(session, session')
        /\ session'.target = session.target /\ session'.cache = session.cache
        /\ session'.outstanding = session.outstanding /\ session'.active = session.active
        /\ session'.worker # "none" /\ session'.polled = session.polled
        /\ session'.posted = session.posted
    BY <1>0, <1>4 DEF Sessions, SameGate, SameVerdict
  <2>2. Core(session')
    BY <1>0, <1>1, <2>1 DEF Core, Typed, Paired, Agree, Honest
  <2>3. Good(session')
    BY <1>0, <1>3, <2>1, <2>2 DEF Good, Quiet, SameGate
  <2>4. Outcome(session, session')
    BY <2>1, <2>3 DEF Outcome
  <2> QED BY <2>4, OutcomeIsHandled
<1>5. CASE WorkerFindsFrame /\ session' = t
  <2>1. s \in Sessions
    BY <1>0 DEF Sessions
  <2>2. /\ session' \in Sessions /\ SameGate(session, session') /\ SameVerdict(session, session')
        /\ session'.target = session.target /\ session'.cache = session.cache
        /\ session'.outstanding = session.outstanding /\ session'.active = session.active
        /\ session'.worker # "none" /\ session'.polled = session.polled
        /\ session'.posted = session.posted \cup {session.polled}
    <3>1. /\ s.posted = session.posted /\ s.worker = "posted" /\ s.polled = session.polled
          /\ SameGate(session, s) /\ SameVerdict(session, s) /\ s.target = session.target
          /\ s.cache = session.cache /\ s.outstanding = session.outstanding
          /\ s.active = session.active
      BY <1>0 DEF Sessions, SameGate, SameVerdict
    <3> HIDE DEF s
    <3>2. /\ t \in Sessions /\ SameGate(s, t) /\ SameVerdict(s, t) /\ t.target = s.target
          /\ t.cache = s.cache /\ t.outstanding = s.outstanding /\ t.active = s.active
          /\ t.worker = s.worker /\ t.polled = s.polled
          /\ t.posted = s.posted \cup {session.polled}
      BY <1>2, <2>1 DEF Sessions, SameGate, SameVerdict
    <3> HIDE DEF t
    <3> QED BY <1>5, <3>1, <3>2 DEF SameGate, SameVerdict
  <2>3. session.polled.process \in Processes /\ life[session.polled.process] # "unborn"
    BY <1>0, <1>2, NoneAssumption DEF Core, Honest, Requests
  <2>4. Deserves(session.polled.process)
    BY <1>5, <2>3, FramesAreEarned DEF WorkerFindsFrame
  <2>5. IsFiniteSet(session'.posted) /\ Cardinality(session'.posted) <= MaxPosted + 1
    <3>1. Cardinality(session.posted) \in Nat
      BY <1>0, FS_CardinalityType DEF Core, Typed
    <3>2. /\ IsFiniteSet(session.posted \cup {session.polled})
          /\ Cardinality(session.posted \cup {session.polled}) =
               IF session.polled \in session.posted THEN Cardinality(session.posted)
                                                    ELSE Cardinality(session.posted) + 1
      BY <1>0, FS_AddElement DEF Core, Typed
    <3> QED BY <1>5, <2>2, <3>1, <3>2, BoundsAssumption DEF WorkerFindsFrame
  <2>6. Core(session')
    BY <1>0, <1>1, <2>2, <2>4, <2>5 DEF Core, Typed, Paired, Agree, Honest
  <2>7. Good(session')
    BY <1>0, <1>3, <2>2, <2>6 DEF Good, Quiet, SameGate
  <2>8. Outcome(session, session')
    BY <2>2, <2>7 DEF Outcome
  <2> QED BY <2>8, OutcomeIsHandled
<1> QED BY <1>4, <1>5 DEF WorkerFindsFrame, WorkerEnds, Handle

-----------------------------------------------------------------------------
(* The machine moves on, and the session with it.                          *)

\* Processes start and end, once each.
Ages ==
    /\ machine' = machine
    /\ \A p \in Processes :
         \/ life'[p] = life[p]
         \/ life[p] = "unborn" /\ life'[p] = "alive"
         \/ life[p] = "alive" /\ life'[p] = "dead"

LEMMA DesertLasts ==
    ASSUME Ages, NEW p \in Processes
    PROVE  /\ Deserves(p) => Deserves(p)'
           /\ life[p] # "unborn" => life'[p] # "unborn"
BY DEF Ages, Deserves

LEMMA SessionAges ==
    ASSUME Ages, SessionInv(session')
    PROVE  SessionInv(session)'
<1> DEFINE s == session'
<1>1. s \in Sessions /\ Good(s) /\ Core(s) /\ Honest(s)
  BY DEF SessionInv, Good, Core, Typed
<1>2. \A n \in Pids : s.cache[n] = None \/ s.cache[n].process \in Processes
  BY <1>1 DEF Sessions, Entries
<1>3. /\ s.target \in Processes \cup {None}
      /\ s.polled = None \/ s.polled.process \in Processes
      /\ \A r \in s.posted : r.process \in Processes
  BY <1>1 DEF Sessions, Requests
<1>4. Honest(session)'
  <2>1. ASSUME NEW n \in Pids, IsKnownGame(session'.cache[n])
        PROVE  Deserves(session.cache[n].process)'
    <3>1. PICK p \in Processes : p = session'.cache[n].process
      BY <1>2, <2>1 DEF IsKnownGame
    <3>2. Deserves(p)
      BY <1>1, <2>1, <3>1 DEF Honest
    <3> QED BY <3>1, <3>2, DesertLasts DEF Deserves
  <2>2. ASSUME session'.target # None
        PROVE  Deserves(session.target)'
    <3>1. PICK p \in Processes : p = session'.target
      BY <1>3, <2>2
    <3>2. Deserves(p)
      BY <1>1, <2>2, <3>1 DEF Honest
    <3> QED BY <3>1, <3>2, DesertLasts DEF Deserves
  <2>3. session'.polled # None => life'[session'.polled.process] # "unborn"
    BY <1>1, <1>3, DesertLasts DEF Honest
  <2>4. ASSUME NEW r \in session'.posted
        PROVE  Deserves(r.process)'
    <3>1. PICK p \in Processes : p = r.process
      BY <1>3
    <3>2. Deserves(p)
      BY <1>1, <3>1 DEF Honest
    <3> QED BY <3>1, <3>2, DesertLasts DEF Deserves
  <2> QED BY <2>1, <2>2, <2>3, <2>4 DEF Honest
<1>5. /\ Typed(session)' /\ Paired(session)' /\ Agree(session)' /\ Quiet(session)'
      /\ (Live(session) /\ ~session.recovering => Follows(session))'
  BY DEF SessionInv, Good, Core
<1> QED BY <1>4, <1>5 DEF SessionInv, Good, Core

LEMMA TellIsHandled ==
    ASSUME SessionInv(session), NEW messages \in SUBSET {"foreground", "evidence"},
           NEW windows \in SUBSET WindowEvents, Tell(messages, windows)
    PROVE  Handled(session, session')
<1>1. session \in Sessions /\ Good(session)
  BY DEF SessionInv, Good, Core, Typed
<1>2. CASE session' = session
  BY <1>2 DEF Handled, Chosen
<1>3. CASE session' # session
  <2> DEFINE m == session.messages \cup messages
             w == session.windows \cup windows
             a == [session EXCEPT !.messages = m]
             t == [a EXCEPT !.windows = w]
  <2>1. m \in SUBSET {"foreground", "evidence"} /\ w \in SUBSET WindowEvents
    BY <1>1 DEF Sessions
  <2>2. session' = [session EXCEPT !.messages = m, !.windows = w]
    BY <1>3 DEF Tell
  <2> HIDE DEF m, w
  <2>3. session' = t
    BY <1>1, <2>2 DEF Sessions
  <2>4. Alike(session, a)
    BY <1>1, <2>1 DEF Sessions, Alike, SameGate, SameVerdict, SameVerifier
  <2> HIDE DEF a
  <2>5. Alike(a, t)
    BY <2>1, <2>4 DEF Sessions, Alike, SameGate, SameVerdict, SameVerifier
  <2> HIDE DEF t
  <2>6. Alike(session, t)
    BY <2>4, <2>5 DEF Alike, SameGate, SameVerdict, SameVerifier
  <2> QED BY <1>1, <2>3, <2>6, AlikeIsGood, OutcomeIsHandled
<1> QED BY <1>2, <1>3

\* A process starts when no other one has its PID, or ends.
LEMMA MachineMoves ==
    ASSUME WorldInv, SessionInv(session), Machine
    PROVE  WorldInv' /\ Ages /\ Handled(session, session')
<1>1. ASSUME NEW p \in Processes, Launch(p)
      PROVE  WorldInv' /\ Ages /\ Handled(session, session')
  <2>1. Ages
    BY <1>1 DEF Launch, Ages, WorldInv
  <2>2. WorldInv'
    <3>1. /\ life' \in [Processes -> {"unborn", "alive", "dead"}]
          /\ fullscreen' = fullscreen /\ foreground' = foreground /\ machine' = machine
      BY <1>1 DEF Launch, WorldInv
    <3>2. ASSUME NEW q \in Processes, NEW r \in Processes,
                 Alive(q)', Alive(r)', machine.pid[q] = machine.pid[r]
          PROVE  q = r
      BY <1>1, <3>2 DEF Launch, WorldInv, Alive, PidOf
    <3> QED BY <3>1, <3>2 DEF WorldInv, Alive, PidOf
  <2>3. <<p, "show">> \in WindowEvents
    BY DEF WindowEvents
  <2>4. Handled(session, session')
    BY <1>1, <2>3, TellIsHandled DEF Launch
  <2> QED BY <2>1, <2>2, <2>4
<1>2. ASSUME NEW p \in Processes, Exit(p)
      PROVE  WorldInv' /\ Ages /\ Handled(session, session')
  <2>1. Ages
    BY <1>2 DEF Exit, Ages, WorldInv, Alive
  <2>2. WorldInv'
    <3>1. /\ life' \in [Processes -> {"unborn", "alive", "dead"}] /\ machine' = machine
          /\ fullscreen' \subseteq Processes /\ foreground' \in Processes \cup {None}
      BY <1>2 DEF Exit, WorldInv
    <3>2. \A q \in Processes : Alive(q)' => Alive(q)
      BY <1>2 DEF Exit, WorldInv, Alive
    <3> QED BY <3>1, <3>2 DEF WorldInv, PidOf
  <2>3. <<p, "change">> \in WindowEvents
    BY DEF WindowEvents
  <2>4. Handled(session, session')
    <3>1. CASE foreground = p
      BY <1>2, <2>3, <3>1, TellIsHandled DEF Exit
    <3>2. CASE foreground # p
      BY <1>2, <2>3, <3>2, TellIsHandled DEF Exit
    <3> QED BY <3>1, <3>2
  <2> QED BY <2>1, <2>2, <2>4
<1>3. ASSUME NEW p \in Processes, Resize(p)
      PROVE  WorldInv' /\ Ages /\ Handled(session, session')
  <2>1. Ages
    BY <1>3 DEF Resize, Ages
  <2>2. fullscreen' \subseteq Processes /\ UNCHANGED <<life, foreground, machine>>
    BY <1>3 DEF Resize, WorldInv
  <2>3. WorldInv'
    BY <2>2 DEF WorldInv, Alive, PidOf
  <2>4. <<p, "change">> \in WindowEvents
    BY DEF WindowEvents
  <2>5. Handled(session, session')
    BY <1>3, <2>4, TellIsHandled DEF Resize
  <2> QED BY <2>1, <2>3, <2>5
<1>4. ASSUME NEW p \in Processes, Retitle(p)
      PROVE  WorldInv' /\ Ages /\ Handled(session, session')
  <2>1. UNCHANGED world
    BY <1>4 DEF Retitle
  <2>2. <<p, "change">> \in WindowEvents
    BY DEF WindowEvents
  <2>3. Handled(session, session')
    BY <1>4, <2>2, TellIsHandled DEF Retitle
  <2> QED BY <2>1, <2>3 DEF world, WorldInv, Alive, PidOf, Ages
<1>5. ASSUME NEW p \in Processes \cup {None}, Switch(p)
      PROVE  WorldInv' /\ Ages /\ Handled(session, session')
  <2>1. foreground' \in Processes \cup {None} /\ UNCHANGED <<life, fullscreen, machine>>
    BY <1>5 DEF Switch
  <2>2. Handled(session, session')
    BY <1>5, TellIsHandled DEF Switch
  <2> QED BY <2>1, <2>2 DEF WorldInv, Alive, PidOf, Ages
<1> QED BY <1>1, <1>2, <1>3, <1>4, <1>5 DEF Machine

-----------------------------------------------------------------------------
(* The specification.                                                      *)

LEMMA MessageIsHandled ==
    ASSUME WorldInv, SessionInv(session), Messages \/ SteamMessage
    PROVE  Handled(session, session')
<1>1. session \in Sessions /\ Good(session)
  BY DEF SessionInv, Good, Core, Typed
<1>2. CASE ForegroundMessage
  <2> DEFINE a == [session EXCEPT !.messages = @ \ {"foreground"}]
  <2>1. session' \in ReconcileForeground(a)
    BY <1>2 DEF ForegroundMessage, Handle
  <2>2. Alike(session, a)
    BY <1>1 DEF Sessions, Alike, SameGate, SameVerdict, SameVerifier
  <2> HIDE DEF a
  <2>3. Outcome(a, session')
    BY <1>1, <2>1, <2>2, AlikeIsGood, ReconcileForegroundOutcome
  <2> QED BY <2>2, <2>3, AlikeIsHandled
<1>3. CASE EvidenceMessage
  <2> DEFINE a == [session EXCEPT !.messages = @ \ {"evidence"}]
  <2>1. session' \in Evaluate(a)
    BY <1>3 DEF EvidenceMessage, Handle
  <2>2. Alike(session, a)
    BY <1>1 DEF Sessions, Alike, SameGate, SameVerdict, SameVerifier
  <2> HIDE DEF a
  <2>3. Outcome(a, session')
    BY <1>1, <2>1, <2>2, AlikeIsGood, EvaluateOutcome
  <2> QED BY <2>2, <2>3, AlikeIsHandled
<1>4. CASE SteamMessage
  <2> DEFINE steam == ~session.steam
             a == [session EXCEPT !.steam = steam]
  <2>1. session' \in Evaluate(a)
    BY <1>4 DEF SteamMessage, Handle
  <2>. steam \in BOOLEAN
    OBVIOUS
  <2> HIDE DEF steam
  <2>2. Alike(session, a)
    BY <1>1 DEF Sessions, Alike, SameGate, SameVerdict, SameVerifier
  <2> HIDE DEF a
  <2>3. Outcome(a, session')
    BY <1>1, <2>1, <2>2, AlikeIsGood, EvaluateOutcome
  <2> QED BY <2>2, <2>3, AlikeIsHandled
<1>5. ASSUME NEW e \in WindowEvents, WindowMessage(e)
      PROVE  Handled(session, session')
  <2>1. session' \in ProductionWindowEvent([session EXCEPT !.windows = @ \ {e}], e)
    BY <1>5 DEF WindowMessage, Handle
  <2> QED BY <2>1, WindowEventIsHandled
<1>6. ASSUME NEW r \in Requests, VerifierMessage(r)
      PROVE  Handled(session, session')
  <2>1. r \in session.posted /\ session' \in VerifierUpdate([session EXCEPT !.posted = @ \ {r}], r)
    BY <1>6 DEF VerifierMessage, Handle
  <2> QED BY <2>1, VerifierUpdateIsHandled
<1> QED BY <1>2, <1>3, <1>4, <1>5, <1>6 DEF Messages

LEMMA CommandIsHandled ==
    ASSUME WorldInv, SessionInv(session), HudOn \/ HudOff \/ SystemSuspend \/ SystemResume
    PROVE  Handled(session, session')
<1>1. CASE HudOn
  BY <1>1, HudOnIsHandled DEF HudOn, Handle
<1>2. CASE HudOff
  BY <1>2, HudOffIsHandled DEF HudOff, Handle
<1>3. CASE SystemSuspend
  BY <1>3, SystemSuspendIsHandled DEF SystemSuspend, Handle
<1>4. CASE SystemResume
  <2>1. PICK u \in IF session.suspended THEN {session} ELSE Quiesce(session) :
               session' = [u EXCEPT !.suspended = FALSE, !.recovering = TRUE]
    BY <1>4 DEF SystemResume, Handle
  <2> QED BY <2>1, SystemResumeIsHandled
<1> QED BY <1>1, <1>2, <1>3, <1>4

Inv == WorldInv /\ SessionInv(session)

LEMMA StepIsHandled ==
    ASSUME Inv, Next
    PROVE  Inv' /\ Handled(session, session')
<1>1. CASE Machine
  <2>1. WorldInv' /\ Ages /\ Handled(session, session')
    BY <1>1, MachineMoves DEF Inv
  <2>2. SessionInv(session)'
    BY <2>1, SessionAges DEF Handled
  <2> QED BY <2>1, <2>2 DEF Inv
<1>2. CASE ~Machine
  <2>1. Handled(session, session')
    BY <1>2, MessageIsHandled, CommandIsHandled, ResumeRecoveryIsHandled, WorkerIsHandled
       DEF Next, Inv
  <2>2. UNCHANGED world
    <3>1. CASE HudOn \/ HudOff \/ SteamMessage \/ SystemSuspend \/ SystemResume
      BY <3>1 DEF HudOn, HudOff, SteamMessage, SystemSuspend, SystemResume, Handle
    <3>2. CASE Messages
      BY <3>2 DEF Messages, ForegroundMessage, EvidenceMessage, WindowMessage, VerifierMessage,
           Handle
    <3>3. CASE ResumeRecovery
      BY <3>3 DEF ResumeRecovery, Handle
    <3>4. CASE WorkerFindsFrame \/ WorkerEnds
      BY <3>4 DEF WorkerFindsFrame, WorkerEnds, Handle
    <3> QED BY <1>2, <3>1, <3>2, <3>3, <3>4 DEF Next
  <2>3. WorldInv' /\ Ages
    BY <2>2 DEF Inv, world, WorldInv, Alive, PidOf, Ages
  <2>4. SessionInv(session)'
    BY <2>1, <2>3, SessionAges DEF Handled
  <2> QED BY <2>1, <2>3, <2>4 DEF Inv
<1> QED BY <1>1, <1>2

LEMMA InitIsSound ==
    ASSUME Init
    PROVE  Inv
<1>1. machine \in Scenarios /\ machine.transient \subseteq Processes
  BY ScenarioAssumption DEF Init, Machines
<1>2. WorldInv
  <2>1. /\ life \in [Processes -> {"unborn", "alive", "dead"}]
        /\ fullscreen \subseteq Processes /\ foreground \in Processes \cup {None}
    BY DEF Init
  <2>2. \A p \in Processes : Alive(p) => p \in Processes \ machine.transient
    BY DEF Init, Alive
  <2>3. \A p, q \in Processes : Alive(p) /\ Alive(q) /\ PidOf(p) = PidOf(q) => p = q
    BY <1>1, <2>2, DistinctAssumption DEF PidOf
  <2> QED BY <1>1, <2>1, <2>3 DEF WorldInv
<1>3. /\ session \in Sessions /\ session.posted = {} /\ session.worker = "none"
      /\ session.polled = None /\ session.outstanding = None /\ session.active = None
      /\ session.target = None /\ ~session.enabled /\ ~session.recovering
      /\ \A n \in Pids : session.cache[n] = None
  BY DEF Init, Sessions
<1>4. IsFiniteSet(session.posted) /\ Cardinality(session.posted) <= MaxPosted + 1
  BY <1>3, FS_EmptySet, BoundsAssumption
<1>5. Core(session)
  BY <1>3, <1>4 DEF Core, Typed, Paired, Agree, Honest, IsKnownGame
<1> QED BY <1>2, <1>3, <1>5 DEF Inv, SessionInv, Good, Quiet, Live

LEMMA StutterIsHandled ==
    ASSUME Inv, UNCHANGED vars
    PROVE  Inv' /\ Handled(session, session')
<1>1. session' = session /\ UNCHANGED world
  BY DEF vars
<1>2. Handled(session, session')
  BY <1>1 DEF Inv, Handled, Chosen
<1>3. WorldInv' /\ Ages
  BY <1>1 DEF Inv, world, WorldInv, Alive, PidOf, Ages
<1>4. SessionInv(session)'
  BY <1>2, <1>3, SessionAges DEF Handled
<1> QED BY <1>2, <1>3, <1>4 DEF Inv

\* At most one process that runs has a PID, and the members of the controller,
\* its detector and its verifier are paired, hold only earned evidence and are
\* quiet when the HUD is off or the machine suspended.
THEOREM GameSessionIsSound == Spec => []Inv
<1>1. Init => Inv
  BY InitIsSound
<1>2. Inv /\ [Next]_vars => Inv'
  BY StepIsHandled, StutterIsHandled
<1> QED BY <1>1, <1>2, PTL DEF Spec

\* The controller, its detector and its verifier are well formed and agree on the
\* target and on the open request.
THEOREM ControllerAlwaysAgrees == Spec => []ControllerAgreesWithDetector
<1>1. Inv => ControllerAgreesWithDetector
  BY DEF Inv, WorldInv, SessionInv, Good, Core, Typed, Paired, Agree, Live, Follows, Gated,
     ControllerAgreesWithDetector, TypeOK, TargetFollowsEvaluation, RequestsAgree
<1> QED BY <1>1, GameSessionIsSound, PTL

\* A process that displays no frames is never the target, whatever its PID has
\* earned before.
THEOREM TargetIsAlwaysGame == Spec => []TargetIsGame
<1>1. Inv => TargetIsGame
  <2> SUFFICES ASSUME Inv, Alive(session.target)
               PROVE  machine.kind[session.target] # "app"
    BY DEF TargetIsGame
  <2>1. session.target # None /\ life[session.target] = "alive"
    BY DEF Alive
  <2> QED BY <2>1 DEF Inv, SessionInv, Good, Core, Honest, Deserves
<1> QED BY <1>1, GameSessionIsSound, PTL

\* A suspended machine and a disabled HUD run no verifier, and no completion from
\* before a suspend is handled after it.
THEOREM SuspendIsAlwaysQuiet == Spec => []SuspendIsQuiet
<1>1. Inv => SuspendIsQuiet
  BY DEF Inv, SessionInv, Good, Quiet, SuspendIsQuiet
<1> QED BY <1>1, GameSessionIsSound, PTL

\* A process becomes the target only while it is in the foreground of an enabled,
\* running HUD.
THEOREM TargetIsAlwaysSelectedInForeground == Spec => TargetIsSelectedInForeground
<1>1. Inv /\ [Next]_vars =>
        [session'.target \notin {session.target, None} =>
           /\ session'.target = foreground
           /\ session'.enabled /\ ~session'.suspended]_vars
  <2> SUFFICES ASSUME Inv, [Next]_vars, session'.target \notin {session.target, None}
               PROVE  /\ session'.target = foreground
                      /\ session'.enabled /\ ~session'.suspended
    OBVIOUS
  <2>1. Handled(session, session')
    BY StepIsHandled, StutterIsHandled
  <2> QED BY <2>1 DEF Handled, Chosen, Live
<1> QED BY <1>1, GameSessionIsSound, PTL DEF Spec, TargetIsSelectedInForeground

-----------------------------------------------------------------------------
(* The event sources.                                                      *)

-----------------------------------------------------------------------------
(* The Steam watch.                                                        *)

Watching == steamPc \in {"recheck", "armed", "wait"}

\* The watched key exists, since keys are never deleted, and between arming
\* and waking the watch is armed or has fired; a watch on a parent is moved
\* down before it is waited for.
WatchInv ==
    /\ depth \in Targets /\ watched \in Targets
    /\ (Watching \/ steamPc = "arm") => watched <= depth
    /\ Watching /\ ~changed => armed
    /\ steamPc \in {"armed", "wait"} /\ ~changed => watched = depth

LEMMA InitWatchInv == SourcesInit => WatchInv
BY DEF SourcesInit, WatchInv, Watching, Targets, Software, Steam

LEMMA WriteKeepsWatchInv == WatchInv /\ WriteRegistry => WatchInv'
<1> SUFFICES ASSUME WatchInv, WriteRegistry PROVE WatchInv'
  OBVIOUS
<1> USE DEF WatchInv, Watching, Targets, Software, Valve, Steam, Notify
<1>1. CASE depth = Steam /\ UNCHANGED depth /\ Notify(Steam)
  BY <1>1 DEF WriteRegistry
<1>2. CASE depth < Steam /\ depth' = depth + 1 /\ Notify(depth)
  BY <1>2 DEF WriteRegistry
<1>3. CASE UNCHANGED depth /\ \E key \in Software .. Valve : key <= depth /\ Notify(key)
  BY <1>3 DEF WriteRegistry
<1>4. QED
  BY <1>1, <1>2, <1>3 DEF WriteRegistry

LEMMA LoopKeepsWatchInv == WatchInv /\ WatchLoop => WatchInv'
<1> SUFFICES ASSUME WatchInv, WatchLoop PROVE WatchInv'
  OBVIOUS
<1> USE DEF WatchInv, Watching, Targets, Steam, registry, WatchEnds
<1>1. CASE OpenKey
  BY <1>1 DEF OpenKey
<1>2. CASE IdleEnds
  BY <1>2 DEF IdleEnds
<1>3. CASE ArmWatch
  BY <1>3 DEF ArmWatch
<1>4. CASE RecheckKey
  BY <1>4 DEF RecheckKey
<1>5. CASE WatchIsArmed
  BY <1>5 DEF WatchIsArmed
<1>6. CASE WatchWakes
  BY <1>6 DEF WatchWakes
<1>7. CASE PostChange
  BY <1>7 DEF PostChange
<1>8. QED
  BY <1>1, <1>2, <1>3, <1>4, <1>5, <1>6, <1>7 DEF WatchLoop

\* No other action touches the registry or the key that is watched; one starts
\* the worker.
WatchIsLeft == UNCHANGED <<depth, watched, armed, changed>> /\ steamPc' \in {steamPc, "open"}

\* Sleep and wake drain the window events and leave the watcher alone.
LEMMA PowerIsOfWindows ==
    ASSUME PowerChange
    PROVE  UNCHANGED steamVars /\ ui = "on" /\ ui' = ui
BY DEF PowerChange, HandleSystemSuspend, HandleSystemResume, FinishRecovery,
       DrainWindowEvents, steamVars

LEMMA OthersLeaveTheWatch ==
    ASSUME \/ AcceptCallback \/ PowerChange \/ StopSources \/ UiThread \/ WindowWorker
           \/ UNCHANGED sourceVars
    PROVE  WatchIsLeft
<1> USE DEF WatchIsLeft, steamVars, registry, watchVars
<1>1. CASE AcceptCallback
  BY <1>1 DEF AcceptCallback
<1>2. CASE StopSources
  BY <1>2 DEF StopSources
<1>3. CASE Starting
  BY <1>3 DEF Starting, StartWindowSource, UndoWindowSource, JoinWindowWorker, StartSteamWatcher,
              AwaitReady, UndoSteamWatcher, JoinSteamWorker, InitializeSteamSession
<1>4. CASE Stopping
  BY <1>4 DEF Stopping, FinishWindowSource, JoinWindowWorker, StopSteamWatcher,
              FinishSteamWatcher, JoinSteamWorker, DiscardPendingEvents, DrainWindowEvents
<1>5. CASE Handling
  BY <1>5 DEF Handling, HandleProductionWindowEvent, HandleSteamRunningAppIdChanged
<1>6. CASE WindowWorker
  BY <1>6 DEF WindowWorker, WorkerTakes, WorkerPosts
<1>7. CASE PowerChange
  BY <1>7, PowerIsOfWindows
<1>8. CASE UNCHANGED sourceVars
  BY <1>8 DEF sourceVars
<1>9. QED
  BY <1>1, <1>2, <1>3, <1>4, <1>5, <1>6, <1>7, <1>8 DEF UiThread

LEMMA NextWatchInv == WatchInv /\ [SourcesNext]_sourceVars => WatchInv'
<1> SUFFICES ASSUME WatchInv, [SourcesNext]_sourceVars PROVE WatchInv'
  OBVIOUS
<1>1. CASE WriteRegistry
  BY <1>1, WriteKeepsWatchInv
<1>2. CASE WatchLoop
  BY <1>2, LoopKeepsWatchInv
<1>3. CASE WatchIsLeft
  BY <1>3 DEF WatchIsLeft, WatchInv, Watching
<1>4. QED
  BY <1>1, <1>2, <1>3, OthersLeaveTheWatch DEF SourcesNext, Stopped

\* A watch that waits is armed on the deepest key there is: the Steam key is
\* found however its creation and the watch of its parents interleave.
THEOREM WatchStaysDeepest == SourcesSpec => []WatchIsDeepest
<1>1. WatchInv => WatchIsDeepest
  BY DEF WatchInv, Watching, WatchIsDeepest
<1>2. QED
  BY <1>1, InitWatchInv, NextWatchInv, PTL DEF SourcesSpec

-----------------------------------------------------------------------------
(* What the watch posts.                                                   *)

\* A notification that will be posted; the one that closing a key leaves is
\* reset before the next watch.
Notified == steamPc = "post" \/ (Watching /\ changed)

PostsInv ==
    /\ posts \in Nat /\ written \in Nat
    /\ posts <= written
    /\ Notified => posts < written

LEMMA InitPostsInv == SourcesInit => PostsInv
BY DEF SourcesInit, PostsInv, Notified, Watching

LEMMA NextPostsInv == PostsInv /\ [SourcesNext]_sourceVars => PostsInv'
<1> SUFFICES ASSUME PostsInv, [SourcesNext]_sourceVars PROVE PostsInv'
  OBVIOUS
<1> USE DEF PostsInv, Notified, Watching
<1>1. CASE WriteRegistry
  BY <1>1 DEF WriteRegistry
<1>2. CASE WatchLoop
  <2> USE DEF registry, WatchEnds
  <2>1. CASE OpenKey \/ IdleEnds \/ WatchIsArmed
    BY <2>1 DEF OpenKey, IdleEnds, WatchIsArmed
  <2>2. CASE ArmWatch
    BY <2>2 DEF ArmWatch
  <2>3. CASE RecheckKey
    BY <2>3 DEF RecheckKey
  <2>4. CASE WatchWakes
    BY <2>4 DEF WatchWakes
  <2>5. CASE PostChange
    BY <2>5 DEF PostChange
  <2>6. QED
    BY <1>2, <2>1, <2>2, <2>3, <2>4, <2>5 DEF WatchLoop
<1>3. CASE \/ AcceptCallback \/ PowerChange \/ StopSources \/ UiThread \/ WindowWorker
           \/ UNCHANGED sourceVars
  <2>1. WatchIsLeft
    BY <1>3, OthersLeaveTheWatch
  <2>2. UNCHANGED <<posts, written>>
    BY <1>3, PowerIsOfWindows DEF AcceptCallback, StopSources, UiThread, Starting, Stopping, Handling,
        StartWindowSource, UndoWindowSource, JoinWindowWorker, StartSteamWatcher, AwaitReady,
        UndoSteamWatcher, JoinSteamWorker, InitializeSteamSession, FinishWindowSource,
        StopSteamWatcher, FinishSteamWatcher, DiscardPendingEvents, DrainWindowEvents,
        HandleProductionWindowEvent, HandleSteamRunningAppIdChanged, WindowWorker, WorkerTakes, WorkerPosts, sourceVars,
        steamVars, registry, watchVars
  <2>3. QED
    BY <2>1, <2>2 DEF WatchIsLeft
<1>4. QED
  BY <1>1, <1>2, <1>3 DEF SourcesNext, Stopped

\* The watch posts at most one message for each registry write, whatever it
\* closes and opens in between.
THEOREM WatchPostsNoMoreThanWritten == SourcesSpec => []NoSpuriousWake
<1>1. PostsInv => NoSpuriousWake
  BY DEF PostsInv, NoSpuriousWake
<1>2. QED
  BY <1>1, InitPostsInv, NextPostsInv, PTL DEF SourcesSpec

-----------------------------------------------------------------------------
(* What the controller knows of the registry.                              *)

WatchKept == steamPc \notin {"none", "idle", "ended"}

\* A watch that is kept once Start has returned was armed before the value was
\* read, so that a write is noticed or counted as missed; only a watch that was
\* armed and has not woken can be notified.
StaleInv ==
    /\ wakes \in Nat
    /\ ui \in {"startWindows", "undoWindows", "startSteam"} => steamPc = "none"
    /\ ui \in {"readSteam", "on"} /\ WatchKept => watchArmed
    /\ depth # Steam => appId = 0
    /\ armed => Watching
    /\ steamPc = "recheck" => watched # Steam
    /\ StaleOnlyAfterGap

LEMMA InitStaleInv == SourcesInit => StaleInv
BY DEF SourcesInit, StaleInv, WatchKept, Watching, StaleOnlyAfterGap

LEMMA WriteKeepsStaleInv == StaleInv /\ WriteRegistry => StaleInv'
<1> SUFFICES ASSUME StaleInv, WriteRegistry PROVE StaleInv'
  OBVIOUS
<1>0. UNCHANGED <<ui, watched, steamPc, watchArmed, wakes, steamAppId>>
  BY DEF WriteRegistry
<1> USE DEF StaleInv, WatchKept, Watching, StaleOnlyAfterGap, ReadUnderWay
<1>n. ASSUME NEW key, Notify(key)
      PROVE  (armed' => armed) /\ (changed => changed') /\ (ReadUnderWay => ReadUnderWay')
  BY <1>0, <1>n DEF Notify
<1>1. CASE depth = Steam /\ UNCHANGED depth /\ Notify(Steam)
           /\ missed' = (missed \/ (watchArmed /\ ~(armed /\ watched = Steam) /\ ~ReadUnderWay))
  <2>1. (armed' => armed) /\ (ReadUnderWay => ReadUnderWay')
    BY <1>1, <1>n
  <2>2. ui = "on" /\ WatchKept => ReadUnderWay' \/ missed'
    <3>1. CASE armed /\ watched = Steam
      <4>1. steamPc \in {"armed", "wait"} /\ changed'
        BY <1>1, <3>1 DEF Notify
      <4>2. QED
        BY <1>0, <4>1
    <3>2. CASE ~(armed /\ watched = Steam)
      BY <1>1, <2>1, <3>2
    <3>3. QED
      BY <3>1, <3>2
  <2>3. StaleOnlyAfterGap'
    BY <1>0, <2>2
  <2>4. QED
    BY <1>0, <1>1, <2>1, <2>3
<1>2. CASE /\ UNCHANGED <<appId, missed>>
           /\ (depth < Steam /\ depth' = depth + 1) \/ UNCHANGED depth
           /\ \E key : Notify(key)
  <2>1. (armed' => armed) /\ (ReadUnderWay => ReadUnderWay')
    BY <1>2, <1>n
  <2>2. RunningAppId' = RunningAppId /\ (depth' # Steam => appId' = 0)
    BY <1>2 DEF RunningAppId, Steam
  <2>3. StaleOnlyAfterGap'
    BY <1>0, <1>2, <2>1, <2>2
  <2>4. QED
    BY <1>0, <1>2, <2>1, <2>2, <2>3
<1>3. QED
  BY <1>1, <1>2 DEF WriteRegistry

LEMMA LoopKeepsStaleInv == StaleInv /\ WatchLoop => StaleInv'
<1> SUFFICES ASSUME StaleInv, WatchLoop PROVE StaleInv'
  OBVIOUS
<1> USE DEF StaleInv, WatchKept, Watching, StaleOnlyAfterGap, ReadUnderWay, RunningAppId, registry, WatchEnds
<1>1. CASE OpenKey
  BY <1>1 DEF OpenKey
<1>2. CASE IdleEnds
  BY <1>2 DEF IdleEnds
<1>3. CASE ArmWatch
  BY <1>3 DEF ArmWatch
<1>4. CASE RecheckKey
  BY <1>4 DEF RecheckKey
<1>5. CASE WatchIsArmed
  BY <1>5 DEF WatchIsArmed
<1>6. CASE WatchWakes
  BY <1>6 DEF WatchWakes
<1>7. CASE PostChange
  BY <1>7 DEF PostChange
<1>8. QED
  BY <1>1, <1>2, <1>3, <1>4, <1>5, <1>6, <1>7 DEF WatchLoop

LEMMA UiKeepsStaleInv == StaleInv /\ UiThread => StaleInv'
<1> SUFFICES ASSUME StaleInv, UiThread PROVE StaleInv'
  OBVIOUS
<1> USE DEF StaleInv, WatchKept, Watching, StaleOnlyAfterGap, ReadUnderWay, RunningAppId, steamVars,
            registry, watchVars
<1>1. CASE StartWindowSource \/ UndoWindowSource
  BY <1>1 DEF StartWindowSource, UndoWindowSource, JoinWindowWorker
<1>2. CASE StartSteamWatcher
  BY <1>2 DEF StartSteamWatcher
<1>3. CASE AwaitReady
  BY <1>3 DEF AwaitReady
<1>4. CASE UndoSteamWatcher
  BY <1>4 DEF UndoSteamWatcher, JoinSteamWorker, SteamThread
<1>5. CASE InitializeSteamSession
  BY <1>5 DEF InitializeSteamSession
<1>6. CASE Stopping
  BY <1>6 DEF Stopping, FinishWindowSource, JoinWindowWorker, StopSteamWatcher,
              FinishSteamWatcher, JoinSteamWorker, DiscardPendingEvents, DrainWindowEvents
<1>7. CASE HandleProductionWindowEvent
  BY <1>7 DEF HandleProductionWindowEvent
<1>8. CASE HandleSteamRunningAppIdChanged
  BY <1>8 DEF HandleSteamRunningAppIdChanged
<1>9. QED
  BY <1>1, <1>2, <1>3, <1>4, <1>5, <1>6, <1>7, <1>8 DEF UiThread, Starting, Handling

LEMMA NextStaleInv == StaleInv /\ [SourcesNext]_sourceVars => StaleInv'
<1> SUFFICES ASSUME StaleInv, [SourcesNext]_sourceVars PROVE StaleInv'
  OBVIOUS
<1>1. CASE AcceptCallback \/ PowerChange \/ StopSources \/ WindowWorker \/ UNCHANGED sourceVars
  <2>1. UNCHANGED steamVars /\ (ui' = ui \/ ui' = "joinWindows")
    BY <1>1, PowerIsOfWindows DEF AcceptCallback, StopSources, WindowWorker, WorkerTakes, WorkerPosts, sourceVars
  <2>2. QED
    BY <2>1 DEF StaleInv, WatchKept, Watching, StaleOnlyAfterGap, ReadUnderWay, RunningAppId, steamVars,
                registry, watchVars
<1>2. QED
  BY <1>1, WriteKeepsStaleInv, LoopKeepsStaleInv, UiKeepsStaleInv DEF SourcesNext, Stopped

\* While a watch is kept, the controller's AppID differs from the registry's only
\* with a read under way, or after a write or a post that the design loses.
THEOREM AppIdIsStaleOnlyAfterGap == SourcesSpec => []StaleOnlyAfterGap
<1>1. StaleInv => StaleOnlyAfterGap
  BY DEF StaleInv
<1>2. QED
  BY <1>1, InitStaleInv, NextStaleInv, PTL DEF SourcesSpec

-----------------------------------------------------------------------------
(* The end of the sources.                                                 *)

\* What holds from each step of StopSources on.
QuietInv ==
    /\ ui = "startWindows" => winPc = "none"
    /\ inHand # 0 => winPc = "call"
    /\ ui \in {"stopSteam", "joinSteam", "discard", "stopped"} => ~WinThread /\ pending = <<>>
    /\ ui \in {"discard", "stopped"} => ~SteamThread
    /\ ui = "stopped" => inbox = <<>>

LEMMA InitQuietInv == SourcesInit => QuietInv
BY DEF SourcesInit, QuietInv

LEMMA UiKeepsQuietInv == QuietInv /\ UiThread => QuietInv'
<1> SUFFICES ASSUME QuietInv, UiThread PROVE QuietInv'
  OBVIOUS
<1> USE DEF QuietInv, WinThread, SteamThread, steamVars, windowVars, watchVars
<1>1. CASE Starting
  BY <1>1 DEF Starting, StartWindowSource, UndoWindowSource, JoinWindowWorker, StartSteamWatcher,
              AwaitReady, UndoSteamWatcher, JoinSteamWorker, InitializeSteamSession
<1>2. CASE FinishWindowSource
  BY <1>2 DEF FinishWindowSource, JoinWindowWorker
<1>3. CASE StopSteamWatcher
  BY <1>3 DEF StopSteamWatcher
<1>4. CASE FinishSteamWatcher
  BY <1>4 DEF FinishSteamWatcher, JoinSteamWorker
<1>5. CASE DiscardPendingEvents
  BY <1>5 DEF DiscardPendingEvents, DrainWindowEvents
<1>6. CASE Handling
  BY <1>6 DEF Handling, HandleProductionWindowEvent, HandleSteamRunningAppIdChanged
<1>7. QED
  BY <1>1, <1>2, <1>3, <1>4, <1>5, <1>6 DEF UiThread, Stopping

LEMMA WorkersKeepQuietInv == QuietInv /\ (WindowWorker \/ WatchLoop) => QuietInv'
<1> SUFFICES ASSUME QuietInv, WindowWorker \/ WatchLoop PROVE QuietInv'
  OBVIOUS
<1> USE DEF QuietInv, WinThread, SteamThread, steamVars, windowVars, watchVars
<1>1. CASE WorkerTakes
  BY <1>1 DEF WorkerTakes
<1>2. CASE WorkerPosts
  BY <1>2 DEF WorkerPosts
<1>3. CASE WatchLoop
  <2>1. SteamThread /\ UNCHANGED <<ui, windowVars>>
    BY <1>3 DEF WatchLoop, OpenKey, IdleEnds, ArmWatch, RecheckKey, WatchIsArmed, WatchWakes,
                PostChange
  <2>2. QED
    BY <2>1
<1>4. QED
  BY <1>1, <1>2, <1>3 DEF WindowWorker

LEMMA NextQuietInv == QuietInv /\ [SourcesNext]_sourceVars => QuietInv'
<1> SUFFICES ASSUME QuietInv, [SourcesNext]_sourceVars PROVE QuietInv'
  OBVIOUS
<1> USE DEF QuietInv, WinThread, SteamThread, steamVars, windowVars, watchVars
<1>1. CASE AcceptCallback
  BY <1>1 DEF AcceptCallback
<1>2. CASE WriteRegistry
  BY <1>2 DEF WriteRegistry
<1>3. CASE StopSources
  BY <1>3 DEF StopSources
<1>4. CASE PowerChange
  <2>1. UNCHANGED <<winPc, inHand, pending>>
    BY <1>4 DEF PowerChange, HandleSystemSuspend, HandleSystemResume, FinishRecovery,
                DrainWindowEvents
  <2>2. QED
    BY <1>4, <2>1, PowerIsOfWindows
<1>5. CASE UNCHANGED sourceVars
  BY <1>5 DEF sourceVars
<1>6. QED
  BY <1>1, <1>2, <1>3, <1>4, <1>5, UiKeepsQuietInv, WorkersKeepQuietInv DEF SourcesNext, Stopped

\* After StopSources nothing runs and nothing is left, whichever source failed
\* to start and whatever its worker held when it was told to stop.
THEOREM StopLeavesNothing == SourcesSpec => []QuietAfterStop
<1>1. QuietInv => QuietAfterStop
  BY DEF QuietInv, QuietAfterStop, WinThread
<1>2. QED
  BY <1>1, InitQuietInv, NextQuietInv, PTL DEF SourcesSpec

-----------------------------------------------------------------------------
(* Increasing sequences of numbers.                                        *)

Increasing(s) == \A i, j \in 1 .. Len(s) : i < j => s[i] < s[j]
Above(n, s) == \A i \in 1 .. Len(s) : n < s[i]
Below(s, n) == \A i \in 1 .. Len(s) : s[i] < n

LEMMA AppendIncreases ==
    ASSUME NEW s \in Seq(Nat), NEW n \in Nat, Increasing(s), Below(s, n)
    PROVE  /\ Append(s, n) \in Seq(Nat)
           /\ Len(Append(s, n)) = Len(s) + 1
           /\ Increasing(Append(s, n))
           /\ \A m \in Nat : Above(m, s) /\ m < n => Above(m, Append(s, n))
           /\ \A m \in Nat : Below(s, m) /\ n < m => Below(Append(s, n), m)
<1>1. /\ Append(s, n) \in Seq(Nat)
      /\ Len(Append(s, n)) = Len(s) + 1
      /\ \A i \in 1 .. Len(s) + 1 : Append(s, n)[i] = IF i <= Len(s) THEN s[i] ELSE n
  OBVIOUS
<1>2. Len(s) \in Nat /\ \A i \in 1 .. Len(s) : s[i] \in Nat
  OBVIOUS
<1>3. QED
  BY <1>1, <1>2 DEF Increasing, Above, Below

LEMMA TailIncreases ==
    ASSUME NEW s \in Seq(Nat), s # <<>>, Increasing(s)
    PROVE  /\ Head(s) \in Nat
           /\ Tail(s) \in Seq(Nat)
           /\ Len(s) = Len(Tail(s)) + 1
           /\ Increasing(Tail(s))
           /\ Above(Head(s), Tail(s))
           /\ \A m \in Nat : Above(m, s) => m < Head(s) /\ Above(m, Tail(s))
           /\ \A m \in Nat : Below(s, m) => Head(s) < m /\ Below(Tail(s), m)
<1>1. /\ Head(s) \in Nat /\ Head(s) = s[1]
      /\ Tail(s) \in Seq(Nat) /\ Len(Tail(s)) = Len(s) - 1
      /\ \A i \in 1 .. Len(Tail(s)) : Tail(s)[i] = s[i + 1]
  BY HeadTailProperties
<1>2. Len(s) \in Nat \ {0} /\ \A i \in 1 .. Len(s) : s[i] \in Nat
  BY EmptySeq
<1>3. QED
  BY <1>1, <1>2 DEF Increasing, Above, Below

LEMMA ConcatIncreases ==
    ASSUME NEW s \in Seq(Nat), NEW t \in Seq(Nat), Increasing(s), Increasing(t),
           \A i \in 1 .. Len(t) : Below(s, t[i])
    PROVE  /\ s \o t \in Seq(Nat)
           /\ Len(s \o t) = Len(s) + Len(t)
           /\ Increasing(s \o t)
           /\ \A m \in Nat : Above(m, s) /\ Above(m, t) => Above(m, s \o t)
<1>1. /\ s \o t \in Seq(Nat)
      /\ Len(s \o t) = Len(s) + Len(t)
      /\ \A i \in 1 .. Len(s) + Len(t) : (s \o t)[i] = IF i <= Len(s) THEN s[i] ELSE t[i - Len(s)]
  BY ConcatProperties
<1>2. /\ Len(s) \in Nat /\ Len(t) \in Nat
      /\ \A i \in 1 .. Len(s) : s[i] \in Nat
      /\ \A i \in 1 .. Len(t) : t[i] \in Nat
  OBVIOUS
<1>3. Increasing(s \o t)
  <2> SUFFICES ASSUME NEW i \in 1 .. Len(s) + Len(t), NEW j \in 1 .. Len(s) + Len(t), i < j
               PROVE  (s \o t)[i] < (s \o t)[j]
    BY <1>1 DEF Increasing
  <2>1. CASE j <= Len(s)
    BY <2>1, <1>1, <1>2 DEF Increasing
  <2>2. CASE i <= Len(s) /\ j > Len(s)
    <3>1. j - Len(s) \in 1 .. Len(t) /\ i \in 1 .. Len(s)
      BY <2>2, <1>2
    <3>2. s[i] < t[j - Len(s)]
      BY <3>1 DEF Below
    <3>3. (s \o t)[i] = s[i] /\ (s \o t)[j] = t[j - Len(s)]
      BY <2>2, <1>1, <1>2
    <3>4. QED
      BY <3>2, <3>3
  <2>3. CASE i > Len(s)
    <3>1. /\ i - Len(s) \in 1 .. Len(t) /\ j - Len(s) \in 1 .. Len(t)
          /\ i - Len(s) < j - Len(s)
      BY <2>3, <1>2
    <3>2. t[i - Len(s)] < t[j - Len(s)]
      BY <3>1 DEF Increasing
    <3>3. (s \o t)[i] = t[i - Len(s)] /\ (s \o t)[j] = t[j - Len(s)]
      BY <2>3, <1>1, <1>2
    <3>4. QED
      BY <3>2, <3>3
  <2>4. QED
    BY <2>1, <2>2, <2>3, <1>2
<1>4. \A m \in Nat : Above(m, s) /\ Above(m, t) => Above(m, s \o t)
  BY <1>1, <1>2 DEF Above
<1>5. QED
  BY <1>1, <1>3, <1>4

-----------------------------------------------------------------------------
(* The window events.                                                      *)

QueueTypes ==
    /\ pending \in Seq(Nat) /\ inbox \in Seq(Nat)
    /\ nextSequence \in Nat \ {0} /\ lost \in Nat /\ discarded \in Nat /\ inHand \in Nat
    /\ handled \in [count: Nat, last: Nat]
    /\ winPc \in {"none", "run", "asleep", "call", "ended"}
    /\ {hooked, winStop} \subseteq BOOLEAN

\* A worker that has not started or has ended left nothing behind, and no hook
\* is set any more: what a Stop clears is already empty.
WorkerInv ==
    /\ ui = "startWindows" => winPc = "none" /\ ~winStop
    /\ winPc = "call" <=> inHand # 0
    /\ winPc \in {"none", "ended"} => ~hooked /\ pending = <<>>
    /\ winPc = "ended" => winStop
    /\ winStop => ~hooked

Held == IF inHand = 0 THEN 0 ELSE 1

\* The events that nobody will handle.
Dropped == lost + discarded

EventsAddUp ==
    /\ Len(pending) <= Capacity
    /\ nextSequence - 1 = handled.count + Len(inbox) + Held + Len(pending) + Dropped

\* What was posted is older than what the worker holds, and that than what is
\* pending.
OldestFirst ==
    /\ Increasing(inbox) /\ Increasing(pending)
    /\ Below(inbox, nextSequence) /\ Below(pending, nextSequence)
    /\ inHand < nextSequence /\ handled.last < nextSequence
    /\ inHand # 0 => Below(inbox, inHand) /\ handled.last < inHand
    /\ Above(inHand, pending)
    /\ Above(handled.last, inbox) /\ Above(handled.last, pending)
    /\ \A i \in 1 .. Len(pending) : Below(inbox, pending[i])

QueueInv == QueueTypes /\ WorkerInv /\ EventsAddUp /\ OldestFirst

LEMMA EmptyQueue == /\ <<>> \in Seq(Nat) /\ Len(<<>>) = 0
                    /\ Increasing(<<>>) /\ \A n \in Nat : Above(n, <<>>) /\ Below(<<>>, n)
BY DEF Increasing, Above, Below

LEMMA InitQueueInv == SourcesInit => QueueInv
<1> SUFFICES ASSUME SourcesInit PROVE QueueInv
  OBVIOUS
<1>1. /\ pending = <<>> /\ inbox = <<>> /\ nextSequence = 1 /\ lost = 0 /\ discarded = 0 /\ inHand = 0
      /\ handled = [count |-> 0, last |-> 0] /\ winPc = "none" /\ ~hooked /\ ~winStop
      /\ hooked \in BOOLEAN /\ winStop \in BOOLEAN
  BY DEF SourcesInit
<1>2. QueueTypes
  BY <1>1, EmptyQueue DEF QueueTypes
<1>3. WorkerInv
  BY <1>1 DEF WorkerInv
<1>4. EventsAddUp
  BY <1>1, EmptyQueue, CapacityAssumption DEF EventsAddUp, Held, Dropped
<1>5. OldestFirst
  BY <1>1, EmptyQueue DEF OldestFirst
<1>6. QED
  BY <1>2, <1>3, <1>4, <1>5 DEF QueueInv

LEMMA Numbers ==
    ASSUME QueueInv
    PROVE  /\ handled.count \in Nat /\ handled.last \in Nat /\ Dropped \in Nat
           /\ nextSequence \in Nat /\ Held \in Nat
           /\ Len(pending) \in Nat /\ Len(inbox) \in Nat
           /\ Capacity \in Nat
BY CapacityAssumption DEF QueueInv, QueueTypes, Held, Dropped

LEMMA LossCounts ==
    ASSUME QueueInv, discarded' = discarded
    PROVE  /\ lost' = lost => Dropped' = Dropped
           /\ lost' = lost + 1 => Dropped' = Dropped + 1
<1>1. lost \in Nat /\ discarded \in Nat
  BY DEF QueueInv, QueueTypes
<1>2. QED
  BY <1>1 DEF Dropped

LEMMA AcceptKeepsQueueInv == QueueInv /\ AcceptCallback => QueueInv'
<1> SUFFICES ASSUME QueueInv, AcceptCallback PROVE QueueInv'
  OBVIOUS
<1> USE DEF QueueInv
<1>1. /\ ui = "on" /\ hooked /\ nextSequence' = nextSequence + 1
      /\ UNCHANGED <<ui, hooked, inHand, winStop, inbox, handled, discarded>>
  BY DEF AcceptCallback, powerVars
<1>2. winPc \in {"run", "asleep", "call"}
  BY <1>1 DEF WorkerInv, QueueTypes
<1>a. /\ Len(pending) \in Nat /\ Len(inbox) \in Nat
      /\ Below(inbox, nextSequence') /\ Below(pending, nextSequence')
      /\ inHand < nextSequence' /\ handled.last < nextSequence'
  BY <1>1 DEF QueueTypes, OldestFirst, Below
<1>3. CASE QueueIsFull
  <2>1. lost' = lost + 1 /\ UNCHANGED <<pending, winPc>>
    BY <1>3 DEF AcceptCallback
  <2>2. QueueTypes' /\ WorkerInv'
    BY <1>1, <1>2, <2>1 DEF QueueTypes, WorkerInv
  <2>3. EventsAddUp'
    <3>1. /\ handled' = handled /\ ui' = ui /\ inbox' = inbox /\ pending' = pending
          /\ Held' = Held
      BY <1>1, <2>1 DEF Held
    <3>n. /\ handled.count \in Nat /\ Dropped \in Nat /\ nextSequence \in Nat
          /\ Len(pending) \in Nat /\ Len(inbox) \in Nat /\ Capacity \in Nat /\ Held \in Nat
      BY Numbers
    <3>2. nextSequence' = nextSequence + 1 /\ Dropped' = Dropped + 1
      BY <1>1, <2>1, LossCounts
    <3>a. Len(pending') <= Capacity
      BY <3>1, <3>n DEF EventsAddUp
    <3>b. nextSequence' - 1 = handled'.count + Len(inbox') + Held' + Len(pending') + Dropped'
      <4> DEFINE a == handled.count
                 b == Len(inbox)
                 c == Held
                 d == Len(pending)
                 e == Dropped
      <4>1. nextSequence - 1 = a + b + c + d + e
        BY <3>1 DEF EventsAddUp
      <4>2. a \in Nat /\ b \in Nat /\ c \in Nat /\ d \in Nat /\ e \in Nat /\ nextSequence \in Nat
        BY <3>n
      <4>3. handled'.count = a /\ Len(inbox') = b /\ Held' = c /\ Len(pending') = d /\ Dropped' = e + 1
        BY <3>1, <3>2
      <4> HIDE DEF a, b, c, d, e
      <4>4. (nextSequence + 1) - 1 = a + b + c + d + (e + 1)
        BY <4>1, <4>2
      <4>5. QED
        BY <4>3, <4>4, <3>2
    <3>c. QED
      BY <3>a, <3>b DEF EventsAddUp
  <2>4. OldestFirst'
    BY <1>1, <1>a, <2>1 DEF OldestFirst
  <2>5. QED
    BY <2>2, <2>3, <2>4
<1>4. CASE ~QueueIsFull
  <2>1. /\ pending' = Append(pending, nextSequence) /\ UNCHANGED lost
        /\ winPc' = IF winPc = "asleep" THEN "run" ELSE winPc
    BY <1>4 DEF AcceptCallback
  <2>2. /\ pending' \in Seq(Nat) /\ Len(pending') = Len(pending) + 1
        /\ Increasing(pending')
        /\ \A m \in Nat : Above(m, pending) /\ m < nextSequence => Above(m, pending')
        /\ \A m \in Nat : Below(pending, m) /\ nextSequence < m => Below(pending', m)
    BY <2>1, AppendIncreases DEF QueueTypes, OldestFirst
  <2>3. QueueTypes' /\ WorkerInv'
    BY <1>1, <1>2, <2>1, <2>2 DEF QueueTypes, WorkerInv
  <2>4. EventsAddUp'
    <3>1. /\ handled' = handled /\ ui' = ui /\ inbox' = inbox /\ Dropped' = Dropped
          /\ Held' = Held
      BY <1>1, <2>1, LossCounts DEF Held
    <3>2. Len(pending') <= Capacity
      BY <1>4, <2>2, Numbers DEF QueueIsFull
    <3>n. /\ handled.count \in Nat /\ Dropped \in Nat /\ nextSequence \in Nat
          /\ Len(pending) \in Nat /\ Len(inbox) \in Nat /\ Capacity \in Nat /\ Held \in Nat
      BY Numbers
    <3>3. nextSequence' = nextSequence + 1 /\ Len(pending') = Len(pending) + 1
      BY <1>1, <2>2
    <3>a. Len(pending') <= Capacity
      BY <3>2 DEF EventsAddUp
    <3>b. nextSequence' - 1 = handled'.count + Len(inbox') + Held' + Len(pending') + Dropped'
      <4> DEFINE a == handled.count
                 b == Len(inbox)
                 c == Held
                 d == Len(pending)
                 e == Dropped
      <4>1. nextSequence - 1 = a + b + c + d + e
        BY <3>1 DEF EventsAddUp
      <4>2. a \in Nat /\ b \in Nat /\ c \in Nat /\ d \in Nat /\ e \in Nat /\ nextSequence \in Nat
        BY <3>n
      <4>3. handled'.count = a /\ Len(inbox') = b /\ Held' = c /\ Len(pending') = d + 1 /\ Dropped' = e
        BY <3>1, <3>3
      <4> HIDE DEF a, b, c, d, e
      <4>4. (nextSequence + 1) - 1 = a + b + c + (d + 1) + e
        BY <4>1, <4>2
      <4>5. QED
        BY <4>3, <4>4, <3>3
    <3>c. QED
      BY <3>a, <3>b DEF EventsAddUp
  <2>5. \A i \in 1 .. Len(pending') : Below(inbox', pending'[i])
    BY <1>1, <1>a, <2>1, <2>2 DEF OldestFirst, QueueTypes
  <2>6. /\ Above(inHand, pending') /\ Above(handled.last, pending')
        /\ Below(pending', nextSequence')
    BY <1>1, <1>a, <2>2 DEF OldestFirst, QueueTypes
  <2>7. OldestFirst'
    BY <1>1, <1>a, <2>2, <2>5, <2>6 DEF OldestFirst
  <2>8. QED
    BY <2>3, <2>4, <2>7
<1>5. QED
  BY <1>3, <1>4

LEMMA TakeKeepsQueueInv == QueueInv /\ WorkerTakes => QueueInv'
<1> SUFFICES ASSUME QueueInv, WorkerTakes PROVE QueueInv'
  OBVIOUS
<1> USE DEF QueueInv
<1>1. /\ winPc \in {"run", "asleep"} /\ inHand = 0
      /\ UNCHANGED <<ui, hooked, nextSequence, lost, discarded, winStop, inbox, handled>>
  BY DEF WorkerTakes, WorkerInv, powerVars
<1>2. CASE pending # <<>>
  <2>1. winPc' = "call" /\ inHand' = Head(pending) /\ pending' = Tail(pending)
    BY <1>2 DEF WorkerTakes
  <2>2. /\ inHand' \in Nat /\ pending' \in Seq(Nat) /\ Len(pending) = Len(pending') + 1
        /\ Increasing(pending') /\ Above(inHand', pending')
        /\ \A m \in Nat : Above(m, pending) => m < inHand' /\ Above(m, pending')
        /\ \A m \in Nat : Below(pending, m) => inHand' < m /\ Below(pending', m)
    BY <1>2, <2>1, TailIncreases DEF QueueTypes, OldestFirst
  <2>3. inHand' # 0 /\ handled.last < inHand' /\ inHand' < nextSequence
    BY <1>1, <2>2 DEF QueueTypes, OldestFirst
  <2>4. QueueTypes' /\ WorkerInv'
    BY <1>1, <2>1, <2>2, <2>3 DEF QueueTypes, WorkerInv
  <2>5. EventsAddUp'
    <3>1. Len(pending') \in Nat
      BY <2>2
    <3>2. Held = 0 /\ Held' = 1
      BY <1>1, <2>3 DEF Held
    <3>3. handled' = handled /\ ui' = ui /\ inbox' = inbox /\ Dropped' = Dropped
          /\ nextSequence' = nextSequence
      BY <1>1, LossCounts
    <3>n. /\ handled.count \in Nat /\ Dropped \in Nat /\ nextSequence \in Nat
          /\ Len(pending) \in Nat /\ Len(inbox) \in Nat /\ Capacity \in Nat /\ Held \in Nat
      BY Numbers
    <3>a. Len(pending') <= Capacity
      BY <2>2, <3>1, <3>n DEF EventsAddUp
    <3>b. nextSequence' - 1 = handled'.count + Len(inbox') + Held' + Len(pending') + Dropped'
      <4> DEFINE a == handled.count
                 b == Len(inbox)
                 d == Len(pending')
                 e == Dropped
                 n == nextSequence
      <4>1. n - 1 = a + b + Held + (d + 1) + e
        BY <2>2, <3>3 DEF EventsAddUp
      <4>2. a \in Nat /\ b \in Nat /\ d \in Nat /\ e \in Nat /\ n \in Nat
        BY <3>1, <3>n
      <4>3. handled'.count = a /\ Len(inbox') = b /\ Dropped' = e /\ nextSequence' = n
        BY <3>3
      <4> HIDE DEF a, b, e, n
      <4>4. n - 1 = a + b + 1 + d + e
        BY <4>1, <4>2, <3>2
      <4>5. QED
        BY <4>3, <4>4, <3>2
    <3>c. QED
      BY <3>a, <3>b DEF EventsAddUp
  <2>6. /\ Below(inbox, inHand')
        /\ \A i \in 1 .. Len(pending') : Below(inbox, pending'[i])
    <3>1. /\ Head(pending) = pending[1] /\ 1 \in 1 .. Len(pending)
          /\ \A i \in 1 .. Len(pending') : pending'[i] = pending[i + 1] /\ i + 1 \in 1 .. Len(pending)
      BY <1>2, <2>1, <2>2, HeadTailProperties, EmptySeq DEF QueueTypes
    <3>2. QED
      BY <2>1, <3>1 DEF OldestFirst
  <2>7. /\ Above(handled.last, pending') /\ Below(pending', nextSequence)
    BY <2>2 DEF OldestFirst, QueueTypes
  <2>8. OldestFirst'
    BY <1>1, <2>2, <2>3, <2>6, <2>7 DEF OldestFirst
  <2>9. QED
    BY <2>4, <2>5, <2>8
<1>3. CASE pending = <<>>
  <2>1. winPc' = (IF winStop THEN "ended" ELSE "asleep") /\ UNCHANGED <<inHand, pending>>
    BY <1>3 DEF WorkerTakes
  <2>2. QueueTypes' /\ WorkerInv'
    BY <1>1, <1>3, <2>1 DEF QueueTypes, WorkerInv
  <2>3. EventsAddUp' /\ OldestFirst'
    BY <1>1, <2>1 DEF EventsAddUp, OldestFirst, Held, Dropped
  <2>4. QED
    BY <2>2, <2>3
<1>4. QED
  BY <1>2, <1>3

LEMMA PostKeepsQueueInv == QueueInv /\ WorkerPosts => QueueInv'
<1> SUFFICES ASSUME QueueInv, WorkerPosts PROVE QueueInv'
  OBVIOUS
<1> USE DEF QueueInv
<1>1. /\ winPc = "call" /\ inHand # 0 /\ winPc' = "run" /\ inHand' = 0
      /\ UNCHANGED <<ui, hooked, pending, nextSequence, winStop, handled, discarded>>
  BY DEF WorkerPosts, WorkerInv, powerVars
<1>2. /\ Len(pending) \in Nat /\ Len(inbox) \in Nat /\ Above(0, pending)
      /\ Above(inHand, pending)
  BY DEF QueueTypes, OldestFirst, Above
<1>3. CASE inbox' = Append(inbox, inHand) /\ UNCHANGED lost
  <2>1. /\ inbox' \in Seq(Nat) /\ Len(inbox') = Len(inbox) + 1 /\ Increasing(inbox')
        /\ \A m \in Nat : Above(m, inbox) /\ m < inHand => Above(m, inbox')
        /\ \A m \in Nat : Below(inbox, m) /\ inHand < m => Below(inbox', m)
    BY <1>1, <1>3, AppendIncreases DEF QueueTypes, OldestFirst
  <2>2. QueueTypes' /\ WorkerInv'
    BY <1>1, <1>3, <2>1 DEF QueueTypes, WorkerInv
  <2>3. EventsAddUp'
    <3>1. /\ handled' = handled /\ ui' = ui /\ pending' = pending /\ Dropped' = Dropped
          /\ nextSequence' = nextSequence
          /\ Held = 1 /\ Held' = 0
      BY <1>1, <1>3, LossCounts DEF Held
    <3>n. /\ handled.count \in Nat /\ Dropped \in Nat /\ nextSequence \in Nat
          /\ Len(pending) \in Nat /\ Len(inbox) \in Nat /\ Capacity \in Nat /\ Held \in Nat
      BY Numbers
    <3>a. Len(pending') <= Capacity
      BY <3>1, <3>n DEF EventsAddUp
    <3>b. nextSequence' - 1 = handled'.count + Len(inbox') + Held' + Len(pending') + Dropped'
      <4> DEFINE a == handled.count
                 b == Len(inbox)
                 d == Len(pending)
                 e == Dropped
                 n == nextSequence
      <4>1. n - 1 = a + b + Held + d + e
        BY <3>1 DEF EventsAddUp
      <4>2. a \in Nat /\ b \in Nat /\ d \in Nat /\ e \in Nat /\ n \in Nat
        BY <3>n
      <4>3. handled'.count = a /\ Len(inbox') = b + 1 /\ Len(pending') = d /\ Dropped' = e /\ nextSequence' = n
        BY <2>1, <3>1
      <4> HIDE DEF a, b, d, e, n
      <4>4. n - 1 = a + (b + 1) + 0 + d + e
        BY <4>1, <4>2, <3>1
      <4>5. QED
        BY <4>3, <4>4, <3>1
    <3>c. QED
      BY <3>a, <3>b DEF EventsAddUp
  <2>4. \A i \in 1 .. Len(pending) : Below(inbox', pending[i])
    BY <1>2, <2>1 DEF OldestFirst, QueueTypes, Above
  <2>5. Above(handled.last, inbox') /\ Below(inbox', nextSequence)
    BY <1>1, <2>1 DEF OldestFirst, QueueTypes
  <2>6. OldestFirst'
    BY <1>1, <1>2, <2>1, <2>4, <2>5 DEF OldestFirst, QueueTypes
  <2>7. QED
    BY <2>2, <2>3, <2>6
<1>4. CASE lost' = lost + 1 /\ UNCHANGED inbox
  <2>1. QueueTypes' /\ WorkerInv'
    BY <1>1, <1>4 DEF QueueTypes, WorkerInv
  <2>2. EventsAddUp'
    <3>1. /\ handled' = handled /\ ui' = ui /\ pending' = pending /\ inbox' = inbox
          /\ nextSequence' = nextSequence /\ Dropped' = Dropped + 1
          /\ Held = 1 /\ Held' = 0
      BY <1>1, <1>4, LossCounts DEF Held
    <3>n. /\ handled.count \in Nat /\ Dropped \in Nat /\ nextSequence \in Nat
          /\ Len(pending) \in Nat /\ Len(inbox) \in Nat /\ Capacity \in Nat /\ Held \in Nat
      BY Numbers
    <3>a. Len(pending') <= Capacity
      BY <3>1, <3>n DEF EventsAddUp
    <3>b. nextSequence' - 1 = handled'.count + Len(inbox') + Held' + Len(pending') + Dropped'
      <4> DEFINE a == handled.count
                 b == Len(inbox)
                 d == Len(pending)
                 e == Dropped
                 n == nextSequence
      <4>1. n - 1 = a + b + Held + d + e
        BY <3>1 DEF EventsAddUp
      <4>2. a \in Nat /\ b \in Nat /\ d \in Nat /\ e \in Nat /\ n \in Nat
        BY <3>n
      <4>3. handled'.count = a /\ Len(inbox') = b /\ Len(pending') = d /\ Dropped' = e + 1 /\ nextSequence' = n
        BY <1>4, <3>1
      <4> HIDE DEF a, b, d, e, n
      <4>4. n - 1 = a + b + 0 + d + (e + 1)
        BY <4>1, <4>2, <3>1
      <4>5. QED
        BY <4>3, <4>4, <3>1
    <3>c. QED
      BY <3>a, <3>b DEF EventsAddUp
  <2>3. OldestFirst'
    BY <1>1, <1>2, <1>4 DEF OldestFirst, QueueTypes
  <2>4. QED
    BY <2>1, <2>2, <2>3
<1>5. QED
  BY <1>3, <1>4 DEF WorkerPosts

LEMMA HandleKeepsQueueInv == QueueInv /\ HandleProductionWindowEvent => QueueInv'
<1> SUFFICES ASSUME QueueInv, HandleProductionWindowEvent PROVE QueueInv'
  OBVIOUS
<1> USE DEF QueueInv
<1>1. /\ ui = "on" /\ inbox # <<>>
      /\ inbox' = Tail(inbox)
      /\ handled' = [count |-> handled.count + 1, last |-> Head(inbox)]
      /\ ui' = ui /\ hooked' = hooked /\ pending' = pending /\ nextSequence' = nextSequence
      /\ lost' = lost /\ discarded' = discarded /\ winPc' = winPc /\ inHand' = inHand /\ winStop' = winStop
  BY DEF HandleProductionWindowEvent, powerVars
<1>2. handled'.count = handled.count + 1 /\ handled'.last = Head(inbox)
  BY <1>1
<1>3. /\ Head(inbox) \in Nat /\ inbox' \in Seq(Nat) /\ Len(inbox) = Len(inbox') + 1
      /\ Increasing(inbox') /\ Above(Head(inbox), inbox')
      /\ \A m \in Nat : Below(inbox, m) => Head(inbox) < m /\ Below(inbox', m)
  BY <1>1, TailIncreases DEF QueueTypes, OldestFirst
<1>4. Len(inbox') \in Nat
  BY <1>3
<1>5. QueueTypes'
  BY <1>1, <1>3, Numbers DEF QueueTypes
<1>6. WorkerInv'
  BY <1>1 DEF WorkerInv
<1>7. EventsAddUp'
  <2>1. Held' = Held /\ Dropped' = Dropped
    BY <1>1 DEF Held, Dropped
  <2>2. Len(pending') <= Capacity
    BY <1>1 DEF EventsAddUp
  <2>3. nextSequence' - 1 = handled'.count + Len(inbox') + Held' + Len(pending') + Dropped'
    <3> DEFINE a == handled.count
               b == Len(inbox')
               c == Held
               d == Len(pending)
               e == Dropped
               n == nextSequence
    <3>1. n - 1 = a + (b + 1) + c + d + e
      BY <1>1, <1>3, <2>3 DEF EventsAddUp
    <3>2. a \in Nat /\ b \in Nat /\ c \in Nat /\ d \in Nat /\ e \in Nat /\ n \in Nat
      BY <1>4, Numbers
    <3>3. /\ handled'.count = a + 1 /\ Held' = c /\ Len(pending') = d /\ Dropped' = e
          /\ nextSequence' = n
      BY <1>1, <1>2, <2>1
    <3> HIDE DEF a, b, c, d, e, n
    <3>4. n - 1 = (a + 1) + b + c + d + e
      BY <3>1, <3>2
    <3>5. QED
      BY <3>3, <3>4 DEF b
  <2>4. QED
    BY <2>2, <2>3 DEF EventsAddUp
<1>8. Below(inbox', nextSequence) /\ Head(inbox) < nextSequence
  BY <1>3 DEF QueueTypes, OldestFirst
<1>9. inHand # 0 => Below(inbox', inHand) /\ Head(inbox) < inHand
  BY <1>3 DEF QueueTypes, OldestFirst
<1>10. /\ \A i \in 1 .. Len(pending) : Below(inbox', pending[i])
       /\ Above(Head(inbox), pending)
  <2>1. \A i \in 1 .. Len(pending) : pending[i] \in Nat /\ Below(inbox, pending[i])
    BY DEF QueueTypes, OldestFirst
  <2>2. QED
    BY <1>3, <2>1 DEF Above
<1>11. OldestFirst'
  BY <1>1, <1>2, <1>3, <1>8, <1>9, <1>10 DEF OldestFirst
<1>12. QED
  BY <1>5, <1>6, <1>7, <1>11

\* A drain of the message queue moves what was posted from the one side of the
\* count to the other, and leaves what the hook and the worker hold.
LEMMA DrainKeepsQueueInv ==
    QueueInv /\ DrainWindowEvents /\ {ui, ui'} \subseteq {"on", "discard", "stopped"}
        => QueueInv'
<1> SUFFICES ASSUME QueueInv, DrainWindowEvents,
                    {ui, ui'} \subseteq {"on", "discard", "stopped"}
             PROVE  QueueInv'
  OBVIOUS
<1> USE DEF QueueInv
<1>1. /\ inbox' = <<>> /\ discarded' = discarded + Len(inbox)
      /\ UNCHANGED <<hooked, pending, nextSequence, lost, winPc, inHand, winStop, handled>>
  BY DEF DrainWindowEvents
<1>2. lost \in Nat /\ discarded \in Nat /\ Len(inbox) \in Nat
  BY DEF QueueTypes
<1>3. QueueTypes'
  BY <1>1, <1>2, EmptyQueue DEF QueueTypes
<1>4. WorkerInv'
  BY <1>1 DEF WorkerInv
<1>5. EventsAddUp'
  <2>1. Dropped' = Dropped + Len(inbox)
    BY <1>1, <1>2 DEF Dropped
  <2>2. Held' = Held /\ Len(inbox') = 0 /\ Len(pending') = Len(pending)
    BY <1>1, EmptyQueue DEF Held
  <2>3. nextSequence - 1 = handled.count + 0 + Held + Len(pending) + (Dropped + Len(inbox))
    <3> DEFINE a == handled.count
               b == Len(inbox)
               c == Held
               d == Len(pending)
               e == Dropped
               n == nextSequence
    <3>1. n - 1 = a + b + c + d + e
      BY DEF EventsAddUp
    <3>2. a \in Nat /\ b \in Nat /\ c \in Nat /\ d \in Nat /\ e \in Nat /\ n \in Nat
      BY Numbers
    <3> HIDE DEF a, b, c, d, e, n
    <3>3. n - 1 = a + 0 + c + d + (e + b)
      BY <3>1, <3>2
    <3>4. QED
      BY <3>3 DEF a, b, c, d, e, n
  <2>4. QED
    BY <1>1, <2>1, <2>2, <2>3 DEF EventsAddUp
<1>6. OldestFirst'
  <2>1. \A n \in Nat : Below(inbox', n) /\ Above(n, inbox')
    BY <1>1, EmptyQueue
  <2>2. \A i \in 1 .. Len(pending) : pending[i] \in Nat
    BY DEF QueueTypes
  <2>3. QED
    BY <1>1, <2>1, <2>2, EmptyQueue DEF QueueTypes, OldestFirst
<1>7. QED
  BY <1>3, <1>4, <1>5, <1>6

LEMMA PowerKeepsQueueInv == QueueInv /\ PowerChange => QueueInv'
<1> SUFFICES ASSUME QueueInv, PowerChange PROVE QueueInv'
  OBVIOUS
<1>1. ui = "on" /\ ui' = ui
  BY PowerIsOfWindows
<1>2. CASE DrainWindowEvents
  BY <1>1, <1>2, DrainKeepsQueueInv
<1>3. CASE UNCHANGED <<hooked, pending, nextSequence, lost, winPc, inHand, winStop, inbox, handled,
                       discarded>>
  BY <1>1, <1>3 DEF QueueInv, QueueTypes, WorkerInv, EventsAddUp, Held, Dropped, OldestFirst
<1>4. QED
  BY <1>2, <1>3 DEF PowerChange, HandleSystemSuspend, HandleSystemResume, FinishRecovery

LEMMA UiKeepsQueueInv == QueueInv /\ UiThread => QueueInv'
<1> SUFFICES ASSUME QueueInv, UiThread PROVE QueueInv'
  OBVIOUS
<1>1. CASE UNCHANGED <<windowVars>> /\ ui \notin {"startWindows", "stopped"}
           /\ ui' \notin {"startWindows", "stopped"}
  <2>1. UNCHANGED <<hooked, pending, nextSequence, lost, discarded, winPc, inHand, winStop, inbox, handled>>
    BY <1>1 DEF windowVars, powerVars
  <2>2. QED
    BY <1>1, <2>1 DEF QueueInv, QueueTypes, WorkerInv, EventsAddUp, Held, Dropped, OldestFirst
<1>2. CASE StartWindowSource
  <2>1. /\ ui = "startWindows" /\ ui' \notin {"startWindows", "stopped"}
        /\ UNCHANGED <<pending, nextSequence, lost, discarded, inHand, inbox, handled>>
    BY <1>2 DEF StartWindowSource, powerVars
  <2>2. QueueTypes' /\ WorkerInv'
    <3>1. winPc = "none" /\ ~winStop /\ ~hooked /\ inHand = 0
      BY <2>1 DEF QueueInv, WorkerInv
    <3>2. \/ winPc' = "run" /\ hooked' = TRUE /\ winStop' = winStop
          \/ winPc' = "run" /\ winStop' = TRUE /\ hooked' = hooked
          \/ winPc' = winPc /\ winStop' = winStop /\ hooked' = hooked
      BY <1>2 DEF StartWindowSource
    <3>3. {hooked', winStop'} \subseteq BOOLEAN /\ winPc' \in {"none", "run"}
      BY <3>1, <3>2 DEF QueueInv, QueueTypes
    <3>4. QueueTypes'
      BY <2>1, <3>3 DEF QueueInv, QueueTypes
    <3>5. pending = <<>>
      BY <3>1 DEF QueueInv, WorkerInv
    <3>6. WorkerInv'
      BY <2>1, <3>1, <3>2, <3>5 DEF WorkerInv
    <3>7. QED
      BY <3>4, <3>6
  <2>3. EventsAddUp' /\ OldestFirst'
    BY <2>1 DEF QueueInv, EventsAddUp, Held, Dropped, OldestFirst
  <2>4. QED
    BY <2>2, <2>3 DEF QueueInv
<1>3. CASE UndoWindowSource \/ FinishWindowSource
  <2>1. /\ ui \notin {"startWindows", "stopped"} /\ ui' \notin {"startWindows", "stopped"}
        /\ winPc \notin {"run", "asleep", "call"} /\ pending' = <<>>
        /\ UNCHANGED <<hooked, nextSequence, lost, discarded, winPc, inHand, winStop, inbox, handled>>
    BY <1>3 DEF UndoWindowSource, FinishWindowSource, JoinWindowWorker, WinThread, powerVars
  <2>2. pending = <<>>
    BY <2>1 DEF QueueInv, QueueTypes, WorkerInv
  <2>3. QED
    BY <2>1, <2>2 DEF QueueInv, QueueTypes, WorkerInv, EventsAddUp, Held, Dropped, OldestFirst
<1>4. CASE HandleProductionWindowEvent
  BY <1>4, HandleKeepsQueueInv
<1>5. CASE DiscardPendingEvents
  BY <1>5, DrainKeepsQueueInv DEF DiscardPendingEvents
<1>6. QED
  <2>1. CASE StartSteamWatcher \/ AwaitReady \/ UndoSteamWatcher \/ InitializeSteamSession
             \/ StopSteamWatcher \/ FinishSteamWatcher \/ HandleSteamRunningAppIdChanged
    BY <1>1, <2>1 DEF StartSteamWatcher, AwaitReady, UndoSteamWatcher, JoinSteamWorker,
        InitializeSteamSession, StopSteamWatcher, FinishSteamWatcher, HandleSteamRunningAppIdChanged
  <2>2. QED
    BY <1>2, <1>3, <1>4, <1>5, <2>1 DEF UiThread, Starting, Stopping, Handling

LEMMA NextQueueInv == QueueInv /\ [SourcesNext]_sourceVars => QueueInv'
<1> SUFFICES ASSUME QueueInv, [SourcesNext]_sourceVars PROVE QueueInv'
  OBVIOUS
<1>1. CASE UNCHANGED windowVars /\ ui' = ui
  <2>1. UNCHANGED <<hooked, pending, nextSequence, lost, discarded, winPc, inHand, winStop, inbox, handled>>
    BY <1>1 DEF windowVars, powerVars
  <2>2. QED
    BY <1>1, <2>1 DEF QueueInv, QueueTypes, WorkerInv, EventsAddUp, Held, Dropped, OldestFirst
<1>2. CASE WatchLoop
  BY <1>1, <1>2 DEF WatchLoop, OpenKey, IdleEnds, ArmWatch, RecheckKey, WatchIsArmed, WatchWakes,
                    PostChange
<1>3. CASE WriteRegistry
  BY <1>1, <1>3 DEF WriteRegistry
<1>4. CASE UNCHANGED sourceVars
  BY <1>1, <1>4 DEF sourceVars
<1>5. CASE StopSources
  <2>1. /\ ui = "on" /\ ui' = "joinWindows" /\ hooked' = FALSE /\ winStop' = TRUE
        /\ UNCHANGED <<pending, nextSequence, lost, discarded, winPc, inHand, inbox, handled>>
    BY <1>5 DEF StopSources, powerVars
  <2>2. QED
    BY <2>1 DEF QueueInv, QueueTypes, WorkerInv, EventsAddUp, Held, Dropped, OldestFirst
<1>6. QED
  BY <1>2, <1>3, <1>4, <1>5, AcceptKeepsQueueInv, TakeKeepsQueueInv, PostKeepsQueueInv,
     UiKeepsQueueInv, PowerKeepsQueueInv DEF SourcesNext, Stopped, WindowWorker

-----------------------------------------------------------------------------
(* The other variables.                                                    *)

OtherTypes ==
    /\ budget \in [events: Nat, writes: Nat, faults: Nat, powers: Nat]
    /\ power \in {"awake", "suspended", "recovering"}
    /\ ui \in UiStates
    /\ {armed, changed, watchArmed, ready, steamStop, missed} \subseteq BOOLEAN
    /\ wakes \in Nat /\ posts \in Nat /\ written \in Nat
    /\ steamPc \in {"none", "open", "arm", "recheck", "armed", "wait", "post", "idle", "ended"}
    /\ depth \in Targets /\ watched \in Targets /\ appId \in AppIds /\ steamAppId \in AppIds

LEMMA InitOtherTypes == SourcesInit => OtherTypes
<1> SUFFICES ASSUME SourcesInit PROVE OtherTypes
  OBVIOUS
<1>1. budget \in [events: Nat, writes: Nat, faults: Nat, powers: Nat]
  BY BudgetAssumption DEF SourcesInit
<1>2. /\ wakes \in Nat /\ posts \in Nat /\ written \in Nat /\ ui \in UiStates
      /\ depth \in Targets /\ watched \in Targets /\ appId \in AppIds /\ steamAppId \in AppIds
  BY AppIdAssumption DEF SourcesInit, UiStates, Targets, Software, Steam
<1>3. {armed, changed, watchArmed, ready, steamStop, missed} \subseteq BOOLEAN
  BY DEF SourcesInit
<1>4. steamPc = "none" /\ power = "awake"
  BY DEF SourcesInit
<1>5. QED
  BY <1>1, <1>2, <1>3, <1>4 DEF OtherTypes

LEMMA SpendKeepsBudget ==
    ASSUME budget \in [events: Nat, writes: Nat, faults: Nat, powers: Nat],
           NEW what \in {"events", "writes", "faults", "powers"}, Spend(what)
    PROVE  budget' \in [events: Nat, writes: Nat, faults: Nat, powers: Nat]
BY DEF Spend

LEMMA NextOtherTypes == OtherTypes /\ [SourcesNext]_sourceVars => OtherTypes'
<1> SUFFICES ASSUME OtherTypes, [SourcesNext]_sourceVars PROVE OtherTypes'
  OBVIOUS
<1>b. budget' \in [events: Nat, writes: Nat, faults: Nat, powers: Nat]
  <2>1. \/ budget' = budget \/ Spend("events") \/ Spend("writes") \/ Spend("faults")
        \/ Spend("powers")
    <3>1. CASE AcceptCallback \/ StopSources \/ WriteRegistry \/ WindowWorker \/ UNCHANGED sourceVars
      BY <3>1 DEF AcceptCallback, StopSources, WriteRegistry, WindowWorker, WorkerTakes,
                  WorkerPosts, sourceVars
    <3>2. CASE UiThread
      BY <3>2 DEF UiThread, Starting, Stopping, Handling, StartWindowSource, UndoWindowSource,
         JoinWindowWorker, StartSteamWatcher, AwaitReady, UndoSteamWatcher, JoinSteamWorker,
         InitializeSteamSession, FinishWindowSource, StopSteamWatcher, FinishSteamWatcher,
         DiscardPendingEvents, HandleProductionWindowEvent, HandleSteamRunningAppIdChanged
    <3>p. CASE PowerChange
      BY <3>p DEF PowerChange, HandleSystemSuspend, HandleSystemResume, FinishRecovery
    <3>3. CASE WatchLoop
      BY <3>3 DEF WatchLoop, OpenKey, IdleEnds, ArmWatch, RecheckKey, WatchIsArmed, WatchWakes,
                  PostChange
    <3>4. QED
      BY <3>1, <3>2, <3>p, <3>3 DEF SourcesNext, Stopped
  <2>2. QED
    BY <2>1, SpendKeepsBudget DEF OtherTypes
<1>r. RunningAppId \in AppIds
  BY AppIdAssumption DEF RunningAppId, OtherTypes
<1> USE DEF OtherTypes, steamVars, registry, watchVars, windowVars, powerVars
<1>1. CASE WriteRegistry
  <2>1. depth' \in Targets /\ appId' \in AppIds
    BY <1>1 DEF WriteRegistry, Targets, Steam
  <2>2. {armed', changed', missed'} \subseteq BOOLEAN
    <3>1. \E key \in Targets : Notify(key)
      BY <1>1 DEF WriteRegistry, Targets, Software, Valve, Steam
    <3>2. {armed', changed'} \subseteq BOOLEAN
      BY <3>1 DEF Notify
    <3>3. missed' \in BOOLEAN
      BY <1>1 DEF WriteRegistry
    <3>4. QED
      BY <3>2, <3>3
  <2>3. QED
    BY <1>b, <1>1, <2>1, <2>2 DEF WriteRegistry
<1>2. CASE WatchLoop
  <2> USE DEF WatchEnds
  <2>1. CASE OpenKey
    BY <1>b, <2>1 DEF OpenKey
  <2>2. CASE IdleEnds \/ WatchIsArmed \/ RecheckKey \/ WatchWakes
    BY <1>b, <2>2 DEF IdleEnds, WatchIsArmed, RecheckKey, WatchWakes
  <2>3. CASE ArmWatch
    BY <1>b, <2>3 DEF ArmWatch
  <2>4. CASE PostChange
    <3>1. missed' \in BOOLEAN /\ wakes' \in Nat
      <4>1. CASE wakes' = wakes + 1 /\ UNCHANGED <<budget, missed>>
        BY <4>1
      <4>2. CASE missed' = TRUE /\ UNCHANGED wakes
        BY <4>2
      <4>3. QED
        BY <2>4, <4>1, <4>2 DEF PostChange
    <3>2. /\ steamPc' = "open" /\ posts' = posts + 1
          /\ UNCHANGED <<ui, power, depth, appId, written, watched, armed, changed, watchArmed,
                         ready, steamStop, steamAppId>>
      BY <2>4 DEF PostChange
    <3>3. QED
      BY <1>b, <3>1, <3>2
  <2>5. QED
    BY <1>2, <2>1, <2>2, <2>3, <2>4 DEF WatchLoop
<1>3. CASE UiThread
  <2> USE DEF UiStates
  <2>1. CASE Starting
    BY <1>b, <1>r, <2>1 DEF Starting, StartWindowSource, UndoWindowSource, JoinWindowWorker,
        StartSteamWatcher, AwaitReady, UndoSteamWatcher, JoinSteamWorker, InitializeSteamSession
  <2>2. CASE Stopping
    BY <1>b, <2>2 DEF Stopping, FinishWindowSource, JoinWindowWorker, StopSteamWatcher,
        FinishSteamWatcher, JoinSteamWorker, DiscardPendingEvents, DrainWindowEvents
  <2>3. CASE Handling
    <3>1. missed' \in BOOLEAN /\ wakes' \in Nat /\ steamAppId' \in AppIds
      <4>1. CASE HandleProductionWindowEvent
        <5>1. UNCHANGED <<missed, wakes, steamAppId>>
          BY <4>1 DEF HandleProductionWindowEvent
        <5>2. QED
          BY <5>1
      <4>2. CASE HandleSteamRunningAppIdChanged
        <5>1. wakes > 0 /\ wakes' = wakes - 1 /\ steamAppId' = RunningAppId /\ missed' = FALSE
          BY <4>2 DEF HandleSteamRunningAppIdChanged
        <5>2. missed' \in BOOLEAN
          BY <5>1
        <5>3. wakes' \in Nat
          BY <5>1
        <5>4. QED
          BY <1>r, <5>1, <5>2, <5>3
      <4>3. QED
        BY <2>3, <4>1, <4>2 DEF Handling
    <3>2. UNCHANGED <<ui, power, depth, appId, written, steamPc, posts, watched, armed, changed,
                      watchArmed, ready, steamStop>>
      BY <2>3 DEF Handling, HandleProductionWindowEvent, HandleSteamRunningAppIdChanged
    <3>3. QED
      BY <1>b, <3>1, <3>2
  <2>4. QED
    BY <1>3, <2>1, <2>2, <2>3 DEF UiThread
<1>4. CASE AcceptCallback \/ StopSources \/ WindowWorker \/ UNCHANGED sourceVars
  BY <1>b, <1>4 DEF AcceptCallback, StopSources, WindowWorker, WorkerTakes, WorkerPosts, sourceVars,
      UiStates
<1>5. CASE PowerChange
  <2>1. power' \in {"awake", "suspended", "recovering"}
    BY <1>5 DEF PowerChange, HandleSystemSuspend, HandleSystemResume, FinishRecovery
  <2>2. UNCHANGED <<ui, steamVars>>
    BY <1>5, PowerIsOfWindows
  <2>3. QED
    BY <1>b, <2>1, <2>2
<1>6. QED
  BY <1>1, <1>2, <1>3, <1>4, <1>5 DEF SourcesNext, Stopped

-----------------------------------------------------------------------------
(* The two halves together.                                                *)

LEMMA FlightIncreases ==
    ASSUME QueueInv
    PROVE  /\ InFlight \in Seq(Nat)
           /\ Len(InFlight) = Len(inbox) + Held + Len(pending)
           /\ Increasing(InFlight)
           /\ Above(handled.last, InFlight)
<1> DEFINE hand == IF inHand = 0 THEN <<>> ELSE <<inHand>>
<1>1. /\ hand \in Seq(Nat) /\ Len(hand) = Held /\ Increasing(hand)
      /\ \A i \in 1 .. Len(hand) : hand[i] = inHand /\ inHand # 0
  BY DEF QueueInv, QueueTypes, Held, Increasing
<1>2. /\ inbox \in Seq(Nat) /\ pending \in Seq(Nat)
      /\ Increasing(inbox) /\ Increasing(pending) /\ handled.last \in Nat
      /\ Above(handled.last, inbox) /\ Above(handled.last, pending)
      /\ \A i \in 1 .. Len(pending) : inHand < pending[i] /\ Below(inbox, pending[i])
  BY DEF QueueInv, QueueTypes, OldestFirst, Above
<1>3. /\ \A i \in 1 .. Len(hand) : Below(inbox, hand[i])
      /\ Above(handled.last, hand)
  BY <1>1 DEF QueueInv, OldestFirst, Above
<1> HIDE DEF hand
<1>4. /\ inbox \o hand \in Seq(Nat)
      /\ Len(inbox \o hand) = Len(inbox) + Held
      /\ Increasing(inbox \o hand)
      /\ Above(handled.last, inbox \o hand)
  BY <1>1, <1>2, <1>3, ConcatIncreases
<1>5. \A i \in 1 .. Len(pending) : Below(inbox \o hand, pending[i])
  <2>1. \A i \in 1 .. Len(inbox) + Len(hand) :
            (inbox \o hand)[i] = IF i <= Len(inbox) THEN inbox[i] ELSE hand[i - Len(inbox)]
    BY <1>1, <1>2, ConcatProperties
  <2>2. Len(inbox) \in Nat /\ Len(hand) \in Nat
    BY <1>1, <1>2
  <2>3. QED
    BY <1>1, <1>2, <1>4, <2>1, <2>2 DEF Below
<1>6. InFlight = (inbox \o hand) \o pending
  BY DEF InFlight, hand
<1>7. QED
  BY <1>2, <1>4, <1>5, <1>6, ConcatIncreases

LEMMA QueueInvSuffices == QueueInv /\ OtherTypes => EventsAreKept
<1> SUFFICES ASSUME QueueInv, OtherTypes PROVE EventsAreKept
  OBVIOUS
<1>1. SourcesTypeOK
  BY DEF QueueInv, QueueTypes, EventsAddUp, OtherTypes, SourcesTypeOK
<1>2. nextSequence - 1 = handled.count + Len(InFlight) + lost + discarded
  <2>1. Len(InFlight) = Len(inbox) + Held + Len(pending)
    BY FlightIncreases
  <2>2. nextSequence - 1 = handled.count + Len(inbox) + Held + Len(pending) + Dropped
    BY DEF QueueInv, EventsAddUp
  <2>3. Dropped = lost + discarded /\ lost \in Nat /\ discarded \in Nat
    BY DEF Dropped, QueueInv, QueueTypes
  <2>4. /\ handled.count \in Nat /\ Len(inbox) \in Nat /\ Held \in Nat /\ Len(pending) \in Nat
        /\ lost \in Nat /\ discarded \in Nat
    BY <2>3, Numbers
  <2>5. handled.count + Len(inbox) + Held + Len(pending) + Dropped
          = handled.count + (Len(inbox) + Held + Len(pending)) + lost + discarded
    <3> DEFINE a == handled.count
               b == Len(inbox)
               c == Held
               d == Len(pending)
    <3> HIDE DEF a, b, c, d
    <3>1. a \in Nat /\ b \in Nat /\ c \in Nat /\ d \in Nat
      BY <2>4 DEF a, b, c, d
    <3>2. a + b + c + d + (lost + discarded) = a + (b + c + d) + lost + discarded
      BY <2>4, <3>1
    <3>3. QED
      BY <2>3, <3>2 DEF a, b, c, d
  <2>6. QED
    BY <2>1, <2>2, <2>5
<1>3. InFlight # <<>> => handled.last < Head(InFlight)
  BY FlightIncreases, HeadTailProperties, EmptySeq DEF Above
<1>4. QED
  BY <1>1, <1>2, <1>3, FlightIncreases DEF EventsAreKept, Increasing

\* Every window event the hook accepted is handled, in flight, was lost to a full
\* queue or a failed post, or was drained unhandled by a suspend, a resume without
\* one or the end of StopSources; and events are handled oldest first, whatever the
\* capacity and however often the machine sleeps.
THEOREM EventsKept == SourcesSpec => []EventsAreKept
<1>1. QED
  BY InitQueueInv, NextQueueInv, InitOtherTypes, NextOtherTypes, QueueInvSuffices, PTL
     DEF SourcesSpec
=============================================================================
