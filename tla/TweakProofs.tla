--------------------------- MODULE TweakProofs ---------------------------
(***************************************************************************)
(* The display tweaks: what stopping the runtime may wait for and what the *)
(* refresh stage reports, for every desktop and any number of changes and  *)
(* failures; and what a run of the Intel stage writes and reports, for any *)
(* panels, displays and changes of the world.                              *)
(***************************************************************************)
EXTENDS TweakStartup, IntelVrr, FiniteSetTheorems, TLAPS

-----------------------------------------------------------------------------
(* TweakStartup.                                                           *)

\* `startup` is a record of these fields, whatever the desktop they hold.
Shape ==
    startup = [at |-> startup.at, enabled |-> startup.enabled,
               app |-> startup.app, drr |-> startup.drr,
               before |-> startup.before, beforeModes |-> startup.beforeModes,
               attempts |-> startup.attempts, late |-> startup.late]

\* An attempt is late only after Stop, and the late one is the last: the worker
\* is over or in a wait that will see the stop.
LateIsLast ==
    /\ startup.late \in {0, 1}
    /\ startup.app = "up" => startup.late = 0
    /\ startup.late = 1 => startup.at \in {"wait", "done"}

LateInv == Shape /\ LateIsLast

LEMMA InitLate == Init => LateInv
  BY DEF Init, LateInv, Shape, LateIsLast

\* The DRR stage moves `at` and its own results, before any attempt.
LEMMA DrrLate ==
    ASSUME LateInv,
           DrrRead \/ DrrReadFails \/ DrrValidate \/ DrrApply \/ DrrVerify \/ DrrFails
    PROVE  LateInv'
<1>1. CASE DrrRead
  BY <1>1 DEF LateInv, Shape, LateIsLast, DrrRead, DrrEnds
<1>2. CASE DrrReadFails
  BY <1>2 DEF LateInv, Shape, LateIsLast, DrrReadFails
<1>3. CASE DrrValidate
  BY <1>3 DEF LateInv, Shape, LateIsLast, DrrValidate, DrrEnds
<1>4. CASE DrrApply
  BY <1>4 DEF LateInv, Shape, LateIsLast, DrrApply, DrrEnds
<1>5. CASE DrrVerify
  BY <1>5 DEF LateInv, Shape, LateIsLast, DrrVerify, DrrEnds
<1>6. CASE DrrFails
  BY <1>6 DEF LateInv, Shape, LateIsLast, DrrFails
<1>7. QED
  BY <1>1, <1>2, <1>3, <1>4, <1>5, <1>6

\* An attempt adds to `late` only when the application is not up, and then
\* `late` was 0, since the worker was neither waiting nor done.
LEMMA AttemptLate ==
    ASSUME LateInv, Attempt
    PROVE  LateInv'
<1>1. startup.late = 0
  BY DEF LateInv, LateIsLast, Attempt
<1>2. startup'.late = IF startup.app = "up" THEN 0 ELSE 1
  BY <1>1 DEF LateInv, Shape, Attempt
<1>3. startup'.at \in {"wait", "done"} /\ startup'.app = startup.app
  BY DEF LateInv, Shape, Attempt
<1>4. Shape'
  BY DEF LateInv, Shape, Attempt
<1>5. QED
  BY <1>2, <1>3, <1>4 DEF LateInv, LateIsLast

\* Everything else leaves `late` alone; a wait that sees the stop ends the worker.
LEMMA OthersLate ==
    ASSUME LateInv, Refresh \/ Wait \/ Stop \/ Joined \/ Others \/ UNCHANGED vars
    PROVE  LateInv'
<1>1. CASE Refresh
  BY <1>1 DEF LateInv, Shape, LateIsLast, Refresh
<1>2. CASE Wait
  BY <1>2 DEF LateInv, Shape, LateIsLast, Wait
<1>3. CASE Stop
  BY <1>3 DEF LateInv, Shape, LateIsLast, Stop
<1>4. CASE Joined
  BY <1>4 DEF LateInv, Shape, LateIsLast, Joined
<1>5. CASE Others
  BY <1>5 DEF LateInv, Shape, LateIsLast, Others
<1>6. CASE UNCHANGED vars
  BY <1>6 DEF LateInv, Shape, LateIsLast, vars
<1>7. QED
  BY <1>1, <1>2, <1>3, <1>4, <1>5, <1>6

\* The late attempt is the last one, for any desktop: Stop, which the UI thread
\* calls and which joins the worker, waits for at most one attempt to begin and
\* to end.
THEOREM LateAttemptIsLast == Spec => []LateInv
<1>1. Init => LateInv
  BY InitLate
<1>2. LateInv /\ [Next]_vars => LateInv'
  BY DrrLate, AttemptLate, OthersLate DEF Next, Worker
<1>3. QED
  BY <1>1, <1>2, PTL DEF Spec

\* Of the attempts that remain at a stop, one begins at most.
THEOREM OneAttempt == Spec => []OneAttemptAfterStop
<1>1. LateInv => OneAttemptAfterStop
  BY DEF LateInv, LateIsLast, OneAttemptAfterStop
<1>2. QED
  BY <1>1, LateAttemptIsLast, PTL

-----------------------------------------------------------------------------
(* The refresh stage.                                                      *)

Partial(S) == UNION {[D -> S] : D \in SUBSET Sources}

Runs ==
    [at : Steps, drrOk : BOOLEAN, status : Statuses,
     original : Desks, modes : Partial(Mode), target : Partial(Statuses), request : Partial(Rates),
     todo : SUBSET Sources, complete : BOOLEAN, matches : BOOLEAN,
     recent : Desks, batch : BOOLEAN, staged : BOOLEAN,
     applied : Nat, alreadyMax : Nat, skipped : Nat, failed : Nat,
     checked : BOOLEAN, boosted : BOOLEAN, mark : 0 .. MaxDrift]

StageTypeOK ==
    /\ desk \in Desks
    /\ mode \in [Sources -> Mode] /\ registry \in [Sources -> Mode]
    /\ drift \in 0 .. MaxDrift /\ faults \in 0 .. MaxFaults
    /\ startup \in Startups

\* The devices of a status, and the counters that count them.
With(r, S) == {s \in DOMAIN r.target : r.target[s] \in S}
Failures == {"NoCompatibleMode", "ValidateFailed", "ApplyFailed", "VerifyFailed"}
Counted(r) ==
    /\ r.applied = Cardinality(With(r, {"Applied"}))
    /\ r.alreadyMax = Cardinality(With(r, {"AlreadyMax"}))
    /\ r.skipped = Cardinality(With(r, {"SkippedUnsafeTopology"}))
    /\ r.failed = Cardinality(With(r, Failures))

\* The steps between the choice of the rates and the verdict, and those that put
\* the original modes back.
Choosing == {"prepare", "fresh", "freshModes", "retest"}
Trying == {"fresh", "freshModes", "retest", "write", "commit", "after", "afterModes"}
Undoing == {"rollback", "rollbackModes", "restore", "rollbackCommit", "restored", "restoredModes"}

\* Which devices have a status, and which are left to do.
Marked(r) ==
    /\ r.at \in {"idle", "read"} => r = [NoRun EXCEPT !.at = r.at, !.drrOk = r.drrOk]
    /\ r.at = "prepare" => /\ r.todo # {} /\ r.todo \subseteq Groups(r.original)
                           /\ DOMAIN r.target = Groups(r.original) \ r.todo
    /\ r.at \notin {"idle", "read", "prepare"} /\ r.original # <<>> => DOMAIN r.target = Groups(r.original)
    /\ DOMAIN r.modes \subseteq DOMAIN r.target
    /\ With(r, {"Unavailable"}) = IF r.at \in Trying \cup {"prepare"} THEN Prepared(r) ELSE {}
    /\ r.at # "done" => With(r, {"Applied"}) = {}
    /\ With(r, {"Applied"}) \subseteq Prepared(r)
    /\ r.at \in Trying \cup Undoing => Prepared(r) # {}
    /\ r.at \in {"retest", "write"} => r.todo # {} /\ r.todo \subseteq Prepared(r)
    /\ r.at = "restore" => r.todo # {} /\ r.todo \subseteq DOMAIN r.modes
    /\ r.at \in Undoing => r.status \in {"ApplyFailed", "VerifyFailed"}

\* The devices whose saved mode is not the one they show.
Apart == {s \in Sources : registry[s] # mode[s]}
Staged ==
    /\ run.at \notin {"write", "commit", "done"} \cup Undoing => Apart = {}
    /\ run.at = "write" => Apart \subseteq IF run.batch THEN Prepared(run) ELSE {}
    /\ run.at \in {"commit", "rollback", "rollbackModes"} => Apart \subseteq Prepared(run)
    /\ run.at = "restore" /\ run.matches /\ ~run.staged => Apart \subseteq run.todo
    /\ run.at \in {"restored", "restoredModes"} /\ run.matches => Apart = {}

\* What was read at the mark is what Windows has until somebody changes it.
Looked ==
    /\ run.at \notin {"idle", "read"} => drift <= run.mark
    /\ drift = run.mark =>
          /\ run.at \in Choosing => /\ desk = run.original
                                    /\ \A s \in DOMAIN run.modes : mode[s] = run.modes[s]
          /\ run.at \in {"afterModes", "restoredModes"} /\ run.matches => desk = run.original
          /\ run.at = "done" /\ ~RollbackFailed =>
                /\ \A s \in DOMAIN run.modes :
                      mode[s] = IF run.target[s] = "Applied"
                                THEN [run.modes[s] EXCEPT !.hz = run.request[s]]
                                ELSE run.modes[s]
                /\ Apart = {}
                /\ run.checked => desk = run.original
    /\ run.checked => run.drrOk
    /\ run.at \in Choosing \cup {"write", "commit", "after"} => run.checked = run.drrOk
    /\ run.checked /\ ~run.boosted => ~Boosted(run.original)

\* The worker is in one stage at a time.
InTurn ==
    /\ startup.at \in {"drrRead", "drrValidate", "drrApply", "drrVerify"} => run.at = "idle"
    /\ startup.at = "refresh" => run.at # "idle"
    /\ startup.at \in {"attempt", "wait", "done"} => run.at \in {"idle", "done"}
    /\ startup.at # "done" => startup.attempts < MaxAttempts
    /\ startup.late <= startup.attempts

RunOK(r) == r \in Runs /\ Prepared(r) \subseteq DOMAIN r.modes /\ Counted(r) /\ Marked(r)

StageInv == StageTypeOK /\ RunOK(run) /\ Staged /\ Looked /\ InTurn

-----------------------------------------------------------------------------
(* Functions on a part of the devices, and the smallest of a set.          *)

LEMMA MinIsOne ==
    ASSUME NEW S, S \subseteq Nat, S # {}
    PROVE  Min(S) \in S
<1>1. PICK m \in S : \A n \in S : ~(<<n, m>> \in OpToRel(<, Nat))
  BY NatLessThanWellFounded, WFMin
<1>2. \A n, k \in Nat : n < k => <<n, k>> \in OpToRel(<, Nat)
  BY DEF OpToRel
<1>3. \A n \in S : ~(n < m)
  BY <1>1, <1>2, Zenon
<1>4. \A n \in S : m =< n
  <2> SUFFICES ASSUME NEW n \in S PROVE m =< n
    OBVIOUS
  <2>1. m \in Nat /\ n \in Nat
    OBVIOUS
  <2>2. QED
    BY <1>3, <2>1
<1>5. QED
  BY <1>4 DEF Min

LEMMA PartialIs ==
    ASSUME NEW S, NEW f
    PROVE  f \in Partial(S) <=> /\ f = [x \in DOMAIN f |-> f[x]]
                                /\ DOMAIN f \subseteq Sources
                                /\ \A x \in DOMAIN f : f[x] \in S
BY DEF Partial

LEMMA PutIs ==
    ASSUME NEW f, NEW S, NEW v
    PROVE  /\ DOMAIN PutAll(f, S, v) = S \cup DOMAIN f
           /\ \A x \in S : PutAll(f, S, v)[x] = v
           /\ \A x \in DOMAIN f \ S : PutAll(f, S, v)[x] = f[x]
BY DEF PutAll

LEMMA PutPartial ==
    ASSUME NEW T, NEW f \in Partial(T), NEW S \in SUBSET Sources, NEW v \in T
    PROVE  PutAll(f, S, v) \in Partial(T)
<1>1. DOMAIN f \subseteq Sources /\ \A y \in DOMAIN f : f[y] \in T
  BY PartialIs
<1>2. PutAll(f, S, v) \in [S \cup DOMAIN f -> T]
  BY <1>1 DEF PutAll
<1>3. S \cup DOMAIN f \in SUBSET Sources
  BY <1>1
<1>4. QED
  BY <1>2, <1>3, Zenon DEF Partial

-----------------------------------------------------------------------------
(* The record of a run.                                                    *)

\* What the stage has read and noted stays.
Kept(q, r) ==
    /\ q.original = r.original /\ q.modes = r.modes /\ q.request = r.request
    /\ q.drrOk = r.drrOk /\ q.checked = r.checked /\ q.boosted = r.boosted /\ q.mark = r.mark

\* The same statuses, counted alike.
LEMMA SameCount ==
    ASSUME NEW r, NEW q, q.target = r.target
    PROVE  /\ \A S : With(q, S) = With(r, S)
           /\ q.applied = r.applied /\ q.alreadyMax = r.alreadyMax /\ q.skipped = r.skipped
              /\ q.failed = r.failed /\ Counted(r) => Counted(q)
<1>1. \A S : With(q, S) = With(r, S)
  BY DEF With
<1>2. QED
  BY <1>1 DEF Counted

LEMMA FinishIs ==
    ASSUME NEW r \in Runs, NEW status \in Statuses
    PROVE  /\ Finish(r, status) \in Runs /\ Kept(Finish(r, status), r)
           /\ Finish(r, status).at = "done" /\ Finish(r, status).status = status
           /\ Finish(r, status).target = r.target /\ Finish(r, status).matches = r.matches
           /\ Finish(r, status).applied = r.applied
           /\ Counted(r) => Counted(Finish(r, status))
           /\ \A S : With(Finish(r, status), S) = With(r, S)
<1> DEFINE q == Finish(r, status)
<1>1. q \in Runs
  BY DEF Finish, Runs, Steps
<1>2. Kept(q, r)
  BY DEF Finish, Runs, Kept
<1>3. /\ q.at = "done" /\ q.status = status /\ q.target = r.target /\ q.matches = r.matches
      /\ q.applied = r.applied /\ q.alreadyMax = r.alreadyMax /\ q.skipped = r.skipped
      /\ q.failed = r.failed
  BY DEF Finish, Runs
<1>4. (Counted(r) => Counted(q)) /\ \A S : With(q, S) = With(r, S)
  BY <1>3, SameCount
<1>5. QED
  BY <1>1, <1>2, <1>3, <1>4

LEMMA MarkIs ==
    ASSUME NEW r \in Runs, NEW S \in SUBSET Sources, NEW status \in Statuses,
           NEW m, m = Mark(r, S, status)
    PROVE  /\ m \in Runs /\ Kept(m, r)
           /\ m.target = PutAll(r.target, S, status)
           /\ m.at = r.at /\ m.status = r.status /\ m.todo = r.todo /\ m.complete = r.complete
           /\ m.matches = r.matches /\ m.recent = r.recent /\ m.batch = r.batch /\ m.staged = r.staged
           /\ m.applied = r.applied /\ m.alreadyMax = r.alreadyMax /\ m.skipped = r.skipped
           /\ m.failed = r.failed
<1> DEFINE t == PutAll(r.target, S, status)
<1>1. r.target \in Partial(Statuses)
  BY DEF Runs
<1>2. t \in Partial(Statuses)
  BY <1>1, PutPartial
<1>3. m = [r EXCEPT !.target = t]
  BY DEF Mark
<1> HIDE DEF t
<1>4. m \in Runs
  BY <1>2, <1>3 DEF Runs
<1>5. Kept(m, r)
  BY <1>3 DEF Runs, Kept
<1>6. m.target = t
  BY <1>3 DEF Runs
<1>7. /\ m.at = r.at /\ m.status = r.status /\ m.todo = r.todo /\ m.complete = r.complete
      /\ m.matches = r.matches /\ m.recent = r.recent /\ m.batch = r.batch /\ m.staged = r.staged
      /\ m.applied = r.applied /\ m.alreadyMax = r.alreadyMax /\ m.skipped = r.skipped
      /\ m.failed = r.failed
  BY <1>3 DEF Runs
<1>8. QED
  BY <1>4, <1>5, <1>6, <1>7 DEF t

\* New statuses are counted.
LEMMA WithMarked ==
    ASSUME NEW r \in Runs, NEW q \in Runs, NEW S \in SUBSET Sources, NEW status \in Statuses,
           q.target = PutAll(r.target, S, status),
           \A s \in S \cap DOMAIN r.target : r.target[s] = "Unavailable",
           NEW T, "Unavailable" \notin T
    PROVE  /\ With(q, T) = With(r, T) \cup (IF status \in T THEN S ELSE {})
           /\ Cardinality(With(q, T)) = Cardinality(With(r, T)) + (IF status \in T THEN Cardinality(S) ELSE 0)
           /\ Cardinality(S) \in Nat
<1>0. /\ DOMAIN q.target = S \cup DOMAIN r.target
      /\ \A s \in S : q.target[s] = status
      /\ \A s \in DOMAIN r.target \ S : q.target[s] = r.target[s]
  BY DEF PutAll
<1>1. With(q, T) = With(r, T) \cup (IF status \in T THEN S ELSE {})
  <2>1. CASE status \in T
    BY <1>0, <2>1 DEF With
  <2>2. CASE status \notin T
    <3>1. \A s \in S : s \notin With(q, T) /\ s \notin With(r, T)
      BY <1>0, <2>2 DEF With
    <3>2. \A s : s \notin S => (s \in With(q, T) <=> s \in With(r, T))
      BY <1>0 DEF With
    <3>3. QED
      BY <2>2, <3>1, <3>2
  <2>3. QED
    BY <2>1, <2>2
<1>2. DOMAIN r.target \subseteq Sources
  BY PartialIs DEF Runs
<1>3. IsFiniteSet(S) /\ IsFiniteSet(With(r, T))
  <2>1. S \subseteq Sources /\ With(r, T) \subseteq Sources
    BY <1>2 DEF With
  <2>2. QED
    BY <2>1, FS_Subset, ConstantsAssumption
<1>4. With(r, T) \cap S = {}
  BY DEF With
<1>5. Cardinality(With(r, T)) \in Nat /\ Cardinality(S) \in Nat
  BY <1>3, FS_CardinalityType
<1>6. CASE status \in T
  <2>1. Cardinality(With(r, T) \cup S) = Cardinality(With(r, T)) + Cardinality(S)
                                         - Cardinality(With(r, T) \cap S)
    BY <1>3, FS_Union
  <2>2. Cardinality(With(r, T) \cap S) = 0
    BY <1>4, FS_EmptySet
  <2>3. With(q, T) = With(r, T) \cup S
    BY <1>1, <1>6
  <2>4. Cardinality(With(q, T)) = Cardinality(With(r, T)) + Cardinality(S)
    BY <1>5, <2>1, <2>2, <2>3
  <2>5. QED
    BY <1>1, <1>5, <1>6, <2>4
<1>7. CASE status \notin T
  BY <1>1, <1>5, <1>7
<1>8. QED
  BY <1>6, <1>7, <1>1, <1>5

LEMMA CountedMarked ==
    ASSUME NEW r \in Runs, NEW q \in Runs, NEW S \in SUBSET Sources, NEW status \in Statuses,
           Counted(r), q.target = PutAll(r.target, S, status),
           \A s \in S \cap DOMAIN r.target : r.target[s] = "Unavailable",
           q.applied = r.applied + (IF status = "Applied" THEN Cardinality(S) ELSE 0),
           q.alreadyMax = r.alreadyMax + (IF status = "AlreadyMax" THEN Cardinality(S) ELSE 0),
           q.skipped = r.skipped + (IF status = "SkippedUnsafeTopology" THEN Cardinality(S) ELSE 0),
           q.failed = r.failed + (IF status \in Failures THEN Cardinality(S) ELSE 0)
    PROVE  Counted(q)
<1>1. \A T : "Unavailable" \notin T =>
         Cardinality(With(q, T)) = Cardinality(With(r, T)) + (IF status \in T THEN Cardinality(S) ELSE 0)
  BY WithMarked
<1>2. "Unavailable" \notin Failures /\ "Unavailable" \notin {"Applied"} /\ "Unavailable" \notin {"AlreadyMax"}
      /\ "Unavailable" \notin {"SkippedUnsafeTopology"}
  BY DEF Failures
<1>3. /\ Cardinality(With(q, {"Applied"})) = q.applied
      /\ Cardinality(With(q, {"AlreadyMax"})) = q.alreadyMax
  BY <1>1, <1>2 DEF Counted
<1>4. /\ Cardinality(With(q, {"SkippedUnsafeTopology"})) = q.skipped
      /\ Cardinality(With(q, Failures)) = q.failed
  BY <1>1, <1>2 DEF Counted
<1>5. QED
  BY <1>3, <1>4 DEF Counted

\* Every device has a status, the pending ones are prepared ones, none is applied.
AllMarked(r) ==
    /\ r \in Runs /\ Counted(r)
    /\ Prepared(r) \subseteq DOMAIN r.modes /\ DOMAIN r.modes \subseteq DOMAIN r.target
    /\ r.original # <<>> => DOMAIN r.target = Groups(r.original)
    /\ With(r, {"Unavailable"}) \subseteq Prepared(r)
    /\ With(r, {"Applied"}) = {}

\* What a skip or a rollback comes to.
LEMMA SkippedIs ==
    ASSUME NEW r, AllMarked(r), NEW status \in Statuses,
           NEW q, q = SkipPrepared(r, status)
    PROVE  /\ q \in Runs /\ Kept(q, r) /\ Counted(q)
           /\ q.at = "done" /\ q.status = status /\ q.matches = r.matches /\ q.applied = r.applied
           /\ DOMAIN q.target = DOMAIN r.target
           /\ With(q, {"Unavailable"}) = {} /\ With(q, {"Applied"}) = {}
<1> DEFINE P == {s \in Prepared(r) : r.target[s] = "Unavailable"}
           m == Mark(r, P, "SkippedUnsafeTopology")
           k == [m EXCEPT !.skipped = @ + Cardinality(P)]
<1>1. /\ r \in Runs /\ Prepared(r) \subseteq DOMAIN r.target /\ DOMAIN r.target \subseteq Sources
      /\ Counted(r)
  BY PartialIs DEF AllMarked, Runs
<1>2. P \in SUBSET Sources /\ "SkippedUnsafeTopology" \in Statuses
  BY <1>1 DEF Statuses
<1>3. q = Finish(k, status)
  BY DEF SkipPrepared
<1>4. Cardinality(P) \in Nat
  <2>1. IsFiniteSet(P)
    BY <1>2, FS_Subset, ConstantsAssumption
  <2>2. QED
    BY <2>1, FS_CardinalityType
<1> HIDE DEF P
<1>5. /\ m \in Runs /\ Kept(m, r) /\ m.matches = r.matches
      /\ m.applied = r.applied /\ m.alreadyMax = r.alreadyMax /\ m.skipped = r.skipped
      /\ m.failed = r.failed
      /\ m.target = PutAll(r.target, P, "SkippedUnsafeTopology")
  BY <1>1, <1>2, MarkIs
<1>6. /\ DOMAIN m.target = P \cup DOMAIN r.target
      /\ \A s \in P : m.target[s] = "SkippedUnsafeTopology"
      /\ \A s \in DOMAIN r.target \ P : m.target[s] = r.target[s]
  BY <1>5 DEF PutAll
<1> HIDE DEF m
<1>7. /\ k \in Runs /\ k.target = m.target /\ k.skipped = r.skipped + Cardinality(P)
      /\ k.applied = r.applied /\ k.alreadyMax = r.alreadyMax /\ k.failed = r.failed
      /\ k.matches = r.matches
  BY <1>4, <1>5 DEF Runs
<1>8. Kept(k, r)
  BY <1>5 DEF Runs, Kept
<1> HIDE DEF k
<1>9. Counted(k)
  <2>1. \A s \in P \cap DOMAIN r.target : r.target[s] = "Unavailable"
    BY DEF P
  <2>2. k.target = PutAll(r.target, P, "SkippedUnsafeTopology")
    BY <1>5, <1>7
  <2>3. /\ k.applied = r.applied + (IF "SkippedUnsafeTopology" = "Applied" THEN Cardinality(P) ELSE 0)
        /\ k.alreadyMax = r.alreadyMax + (IF "SkippedUnsafeTopology" = "AlreadyMax" THEN Cardinality(P) ELSE 0)
        /\ k.skipped = r.skipped
                       + (IF "SkippedUnsafeTopology" = "SkippedUnsafeTopology" THEN Cardinality(P) ELSE 0)
        /\ k.failed = r.failed + (IF "SkippedUnsafeTopology" \in Failures THEN Cardinality(P) ELSE 0)
    BY <1>1, <1>7 DEF Failures, Runs
  <2>4. QED
    BY <1>1, <1>2, <1>7, <2>1, <2>2, <2>3, CountedMarked
<1>10. /\ q \in Runs /\ Kept(q, k) /\ Counted(q)
       /\ q.at = "done" /\ q.status = status /\ q.target = k.target /\ q.matches = k.matches
       /\ q.applied = k.applied
  BY <1>3, <1>7, <1>9, FinishIs
<1>11. Kept(q, r)
  BY <1>8, <1>10 DEF Kept
<1>12. P \subseteq DOMAIN r.target /\ q.target = m.target
  BY <1>1, <1>7, <1>10 DEF P
<1>13. With(q, {"Unavailable"}) = {}
  <2> SUFFICES ASSUME NEW s \in With(q, {"Unavailable"}) PROVE FALSE
    OBVIOUS
  <2>1. s \in DOMAIN r.target /\ s \notin P /\ r.target[s] = "Unavailable"
    BY <1>6, <1>12 DEF With
  <2>2. s \in Prepared(r)
    BY <2>1 DEF AllMarked, With
  <2>3. QED
    BY <2>1, <2>2 DEF P
<1>14. With(q, {"Applied"}) = {}
  <2> SUFFICES ASSUME NEW s \in With(q, {"Applied"}) PROVE FALSE
    OBVIOUS
  <2>1. s \in DOMAIN r.target /\ r.target[s] = "Applied"
    BY <1>6, <1>12 DEF With
  <2>2. QED
    BY <2>1 DEF AllMarked, With
<1>15. QED
  BY <1>6, <1>7, <1>10, <1>11, <1>12, <1>13, <1>14

LEMMA SkippedOK ==
    ASSUME NEW r, AllMarked(r), NEW status \in Statuses,
           NEW q, q = SkipPrepared(r, status)
    PROVE  RunOK(q) /\ Kept(q, r) /\ q.at = "done" /\ q.status = status /\ With(q, {"Applied"}) = {}
           /\ q.matches = r.matches /\ q.applied = r.applied
<1>1. /\ q \in Runs /\ Kept(q, r) /\ Counted(q)
      /\ q.at = "done" /\ q.status = status /\ q.matches = r.matches /\ q.applied = r.applied
      /\ DOMAIN q.target = DOMAIN r.target
      /\ With(q, {"Unavailable"}) = {} /\ With(q, {"Applied"}) = {}
  BY SkippedIs
<1>2. Marked(q)
  BY <1>1 DEF Marked, AllMarked, Kept, Trying, Undoing
<1>3. Prepared(q) \subseteq DOMAIN q.modes
  BY <1>1 DEF AllMarked, Kept, Prepared
<1>4. QED
  BY <1>1, <1>2, <1>3 DEF RunOK

LEMMA RolledOK ==
    ASSUME NEW r, AllMarked(r), Prepared(r) # {}, NEW status \in {"ApplyFailed", "VerifyFailed"},
           NEW q, q = RollBack(r, status)
    PROVE  RunOK(q) /\ Kept(q, r) /\ q.at = "rollback"
<1> DEFINE k == SkipPrepared(r, status)
<1>1. status \in Statuses
  BY DEF Statuses
<1>2. /\ k \in Runs /\ Kept(k, r) /\ Counted(k) /\ k.status = status
      /\ DOMAIN k.target = DOMAIN r.target
      /\ With(k, {"Unavailable"}) = {} /\ With(k, {"Applied"}) = {}
  BY <1>1, SkippedIs
<1>3. q = [k EXCEPT !.at = "rollback", !.matches = TRUE]
  BY DEF RollBack
<1> HIDE DEF k
<1>4. /\ q \in Runs /\ q.at = "rollback" /\ q.status = status /\ q.target = k.target
      /\ q.applied = k.applied /\ q.alreadyMax = k.alreadyMax /\ q.skipped = k.skipped
      /\ q.failed = k.failed
  BY <1>2, <1>3 DEF Runs, Steps
<1>5. Kept(q, r)
  BY <1>2, <1>3 DEF Runs, Kept
<1>6. Counted(q) /\ With(q, {"Unavailable"}) = {} /\ With(q, {"Applied"}) = {}
  BY <1>2, <1>4, SameCount
<1>7. Marked(q)
  BY <1>2, <1>4, <1>5, <1>6 DEF Marked, AllMarked, Kept, Trying, Undoing, Prepared
<1>8. Prepared(q) \subseteq DOMAIN q.modes
  BY <1>5 DEF AllMarked, Kept, Prepared
<1>9. QED
  BY <1>4, <1>5, <1>6, <1>7, <1>8 DEF RunOK

LEMMA NothingIs ==
    ASSUME NEW r PROVE NothingPrepared(r) \in Statuses
BY DEF NothingPrepared, Statuses

\* After a device, or the last one.
LEMMA AfterPreparingOK ==
    ASSUME NEW r, r \in Runs, Counted(r), r.at = "prepare", r.todo \subseteq Groups(r.original),
           DOMAIN r.target = Groups(r.original) \ r.todo,
           Prepared(r) \subseteq DOMAIN r.modes, DOMAIN r.modes \subseteq DOMAIN r.target,
           With(r, {"Unavailable"}) = Prepared(r), With(r, {"Applied"}) = {},
           NEW q, q = AfterPreparing(r)
    PROVE  /\ RunOK(q) /\ Kept(q, r) /\ q.at \in {"prepare", "fresh", "done"}
           /\ With(q, {"Applied"}) = {}
<1>1. CASE r.todo # {}
  <2>1. q = r
    BY <1>1 DEF AfterPreparing
  <2>2. Marked(r)
    BY <1>1 DEF Marked, Trying, Undoing
  <2>3. QED
    BY <2>1, <2>2 DEF RunOK, Kept
<1>2. CASE r.todo = {} /\ Prepared(r) = {}
  <2>1. q = Finish(r, NothingPrepared(r)) /\ NothingPrepared(r) \in Statuses
    BY <1>2, NothingIs DEF AfterPreparing
  <2>2. /\ q \in Runs /\ Kept(q, r) /\ Counted(q) /\ q.at = "done" /\ q.target = r.target
        /\ With(q, {"Unavailable"}) = {} /\ With(q, {"Applied"}) = {}
    BY <1>2, <2>1, FinishIs
  <2>3. Marked(q)
    BY <1>2, <2>2 DEF Marked, Kept, Trying, Undoing
  <2>4. Prepared(q) \subseteq DOMAIN q.modes
    BY <2>2 DEF Kept, Prepared
  <2>5. QED
    BY <2>2, <2>3, <2>4 DEF RunOK
<1>3. CASE r.todo = {} /\ Prepared(r) # {} /\ ~r.complete
  <2>1. q = SkipPrepared(r, "SkippedUnsafeTopology")
    BY <1>3 DEF AfterPreparing
  <2>2. AllMarked(r)
    BY <1>3 DEF AllMarked
  <2>3. "SkippedUnsafeTopology" \in Statuses
    BY DEF Statuses
  <2>4. QED
    BY <2>1, <2>2, <2>3, SkippedOK
<1>4. CASE r.todo = {} /\ Prepared(r) # {} /\ r.complete
  <2>1. q = [r EXCEPT !.at = "fresh"]
    BY <1>4 DEF AfterPreparing
  <2>2. /\ q \in Runs /\ q.at = "fresh" /\ q.target = r.target
        /\ q.applied = r.applied /\ q.alreadyMax = r.alreadyMax /\ q.skipped = r.skipped
        /\ q.failed = r.failed
    BY <2>1 DEF Runs, Steps
  <2>3. Kept(q, r)
    BY <2>1 DEF Runs, Kept
  <2>4. Counted(q) /\ With(q, {"Unavailable"}) = Prepared(r) /\ With(q, {"Applied"}) = {}
    BY <2>2, SameCount
  <2>5. Marked(q)
    BY <1>4, <2>2, <2>3, <2>4 DEF Marked, Kept, Trying, Undoing, Prepared
  <2>6. Prepared(q) \subseteq DOMAIN q.modes
    BY <2>3 DEF Kept, Prepared
  <2>7. QED
    BY <2>2, <2>3, <2>4, <2>5, <2>6 DEF RunOK
<1>5. QED
  BY <1>1, <1>2, <1>3, <1>4

-----------------------------------------------------------------------------
(* The steps that only read.                                               *)

\* What has been read is of the same desktop.
Alike(q, r) ==
    /\ q.original = r.original /\ q.mark = r.mark
    /\ q.drrOk = r.drrOk /\ q.checked = r.checked /\ q.boosted = r.boosted

LEMMA KeptAlike == ASSUME NEW q, NEW r, Kept(q, r) PROVE Alike(q, r) /\ q.modes = r.modes
BY DEF Kept, Alike

LEMMA FaultsStay ==
    ASSUME StageTypeOK, Succeeds \/ Fails PROVE faults' \in 0 .. MaxFaults
BY ConstantsAssumption DEF StageTypeOK, Succeeds, Fails

LEMMA StageStep ==
    ASSUME StageInv, startup.at = "refresh", UNCHANGED <<desk, drift, startup>>,
           mode' \in [Sources -> Mode], registry' \in [Sources -> Mode],
           Succeeds \/ Fails, RunOK(run'), Staged', Looked', run'.at # "idle"
    PROVE  StageInv'
<1>1. StageTypeOK'
  BY FaultsStay DEF StageInv, StageTypeOK
<1>2. InTurn'
  BY DEF StageInv, InTurn
<1>3. QED
  BY <1>1, <1>2 DEF StageInv

LEMMA ReadStep ==
    ASSUME StageInv, startup.at = "refresh", UNCHANGED <<windows, drift, startup>>,
           Succeeds \/ Fails, RunOK(run'), Staged', Looked', run'.at # "idle"
    PROVE  StageInv'
<1>1. StageTypeOK'
  BY FaultsStay DEF StageInv, StageTypeOK, windows
<1>2. InTurn'
  BY DEF StageInv, InTurn
<1>3. QED
  BY <1>1, <1>2 DEF StageInv

LEMMA SameApart ==
    ASSUME UNCHANGED windows PROVE Apart' = Apart
BY DEF Apart, windows

\* A run that ends before it writes, or goes on choosing.
LEMMA NothingWritten ==
    ASSUME StageInv, run.at \in Choosing, UNCHANGED <<windows, drift>>,
           Alike(run', run),
           \A s \in DOMAIN run'.modes :
               \/ s \in DOMAIN run.modes /\ run'.modes[s] = run.modes[s]
               \/ run'.modes[s] = mode[s],
           run'.at \in Choosing \cup {"write"} \/ (run'.at = "done" /\ With(run', {"Applied"}) = {}),
           RunOK(run')
    PROVE  Staged' /\ Looked'
<1>1. Apart' = Apart
  BY SameApart
<1>2. Apart = {}
  BY DEF StageInv, Staged, Choosing, Undoing
<1>3. Staged'
  BY <1>1, <1>2 DEF Staged, Choosing, Undoing
<1>4. drift' <= run'.mark
  BY DEF StageInv, Looked, Alike, Choosing
<1>5. ASSUME drift' = run'.mark
      PROVE  desk' = run'.original /\ \A s \in DOMAIN run'.modes : mode'[s] = run'.modes[s]
  <2>1. drift = run.mark
    BY <1>5 DEF Alike
  <2>2. desk = run.original /\ \A s \in DOMAIN run.modes : mode[s] = run.modes[s]
    BY <2>1 DEF StageInv, Looked
  <2>3. desk' = desk /\ mode' = mode
    BY DEF windows
  <2>4. QED
    BY <2>2, <2>3 DEF Alike
<1>6. ASSUME run'.at = "done", NEW s \in DOMAIN run'.modes
      PROVE  run'.target[s] # "Applied"
  <2>1. s \in DOMAIN run'.target
    BY DEF RunOK, Marked
  <2>2. With(run', {"Applied"}) = {}
    BY <1>6 DEF Choosing
  <2>3. QED
    BY <2>1, <2>2 DEF With
<1>7. (run'.checked => run'.drrOk) /\ (run'.checked /\ ~run'.boosted => ~Boosted(run'.original))
  BY DEF StageInv, Looked, Alike
<1>8. run'.at \in Choosing \cup {"write", "commit", "after"} => run'.checked = run'.drrOk
  BY DEF StageInv, Looked, Alike
<1>9. QED
  BY <1>1, <1>2, <1>3, <1>4, <1>5, <1>6, <1>7, <1>8 DEF Looked, Choosing

LEMMA NoneIs == <<>> \in Desks /\ \A S : <<>> \in Partial(S)
<1>1. \A S : <<>> \in [{} -> S]
  OBVIOUS
<1>2. {} \in SUBSET Sources /\ {} \in SUBSET Targets
  OBVIOUS
<1>3. QED
  BY <1>1, <1>2, Zenon DEF Desks, Partial

LEMMA NoRunOK ==
    ASSUME NEW at \in {"idle", "read"}, NEW ok \in BOOLEAN,
           NEW r, r = [NoRun EXCEPT !.at = at, !.drrOk = ok]
    PROVE  /\ RunOK(r) /\ r.at = at /\ r.drrOk = ok /\ r.modes = <<>> /\ r.target = <<>>
           /\ r.original = <<>> /\ r.request = <<>> /\ r.todo = {}
           /\ ~r.checked /\ ~r.boosted
           /\ r.applied = 0 /\ r.alreadyMax = 0 /\ r.skipped = 0 /\ r.failed = 0
<1>1. /\ r.at = at /\ r.drrOk = ok /\ r.modes = <<>> /\ r.target = <<>>
      /\ r.original = <<>> /\ r.request = <<>> /\ r.todo = {}
      /\ ~r.checked /\ ~r.boosted
      /\ r.applied = 0 /\ r.alreadyMax = 0 /\ r.skipped = 0 /\ r.failed = 0
  BY DEF NoRun
<1>2. <<>> \in Desks /\ <<>> \in Partial(Mode) /\ <<>> \in Partial(Statuses) /\ <<>> \in Partial(Rates)
  BY NoneIs
<1>3. at \in Steps /\ "Unavailable" \in Statuses /\ 0 \in 0 .. MaxDrift
  BY ConstantsAssumption DEF Steps, Statuses
<1>4. r \in Runs
  BY <1>2, <1>3 DEF Runs, NoRun
<1>5. \A S : With(r, S) = {}
  BY <1>1 DEF With
<1>6. Counted(r)
  BY <1>1, <1>5, FS_EmptySet DEF Counted
<1>7. Prepared(r) = {} /\ DOMAIN r.modes = {}
  BY <1>1 DEF Prepared
<1>8. Marked(r)
  BY <1>1, <1>5, <1>7 DEF Marked, Trying, Undoing
<1>9. QED
  BY <1>1, <1>4, <1>6, <1>7, <1>8 DEF RunOK

LEMMA GroupsIs ==
    ASSUME NEW paths \in Desks
    PROVE  Groups(paths) \subseteq Sources
BY DEF Groups, Desks, Path

\* The run before the first reading.
LEMMA BeforeReading ==
    ASSUME StageInv, run.at = "read"
    PROVE  /\ run \in Runs /\ desk \in Desks /\ drift \in 0 .. MaxDrift /\ run.drrOk \in BOOLEAN
           /\ run.modes = <<>> /\ run.target = <<>> /\ run.request = <<>> /\ run.original = <<>>
           /\ run.applied = 0 /\ run.alreadyMax = 0 /\ run.failed = 0
           /\ ~run.checked
<1>1. run = [NoRun EXCEPT !.at = "read", !.drrOk = run.drrOk] /\ run \in Runs
  BY DEF StageInv, RunOK, Marked
<1>2. run.drrOk \in BOOLEAN
  BY <1>1 DEF Runs
<1>3. QED
  BY <1>1, <1>2, NoRunOK DEF StageInv, StageTypeOK

\* There is nothing to read, or it cannot be read.
LEMMA UnreadOK ==
    ASSUME StageInv, run.at = "read",
           NEW q, q = Finish([run EXCEPT !.mark = drift], "Unavailable")
    PROVE  /\ RunOK(q) /\ q.at = "done" /\ q.modes = <<>> /\ q.mark = drift /\ q.original = <<>>
           /\ With(q, {"Applied"}) = {} /\ q.drrOk = run.drrOk /\ ~q.checked
<1> DEFINE k == [run EXCEPT !.mark = drift]
<1>1. /\ run \in Runs /\ run.modes = <<>> /\ run.target = <<>> /\ run.request = <<>>
      /\ run.original = <<>> /\ ~run.checked
  BY BeforeReading
<1>2. drift \in 0 .. MaxDrift /\ "Unavailable" \in Statuses
  BY DEF StageInv, StageTypeOK, Statuses
<1>3. /\ k \in Runs /\ k.target = run.target /\ k.modes = run.modes /\ k.request = run.request
      /\ k.original = run.original /\ k.mark = drift /\ k.drrOk = run.drrOk /\ k.checked = run.checked
      /\ k.applied = run.applied /\ k.alreadyMax = run.alreadyMax /\ k.skipped = run.skipped
      /\ k.failed = run.failed
  BY <1>1, <1>2 DEF Runs
<1>4. q = Finish(k, "Unavailable")
  OBVIOUS
<1> HIDE DEF k
<1>5. Counted(k)
  BY <1>3, SameCount DEF StageInv, RunOK
<1>6. /\ q \in Runs /\ Kept(q, k) /\ q.at = "done" /\ q.target = k.target /\ Counted(q)
  BY <1>2, <1>3, <1>4, <1>5, FinishIs
<1>7. \A S : With(q, S) = {}
  BY <1>1, <1>3, <1>6 DEF With
<1>8. Marked(q)
  BY <1>1, <1>3, <1>6, <1>7 DEF Marked, Kept, Trying, Undoing
<1>9. Prepared(q) \subseteq DOMAIN q.modes
  BY <1>1, <1>3, <1>6 DEF Prepared, Kept
<1>10. RunOK(q)
  BY <1>6, <1>8, <1>9 DEF RunOK
<1>11. QED
  BY <1>1, <1>3, <1>6, <1>7, <1>10 DEF Kept

\* The first reading.
LEMMA GroupedOK ==
    ASSUME StageInv, run.at = "read", NEW q, q = Grouped(desk)
    PROVE  /\ RunOK(q) /\ q.at \in {"prepare", "done"} /\ q.modes = <<>> /\ q.mark = drift
           /\ q.original = desk /\ With(q, {"Applied"}) = {}
           /\ q.drrOk = run.drrOk /\ (q.at = "prepare" => q.checked = q.drrOk)
           /\ (q.checked => q.drrOk) /\ (q.checked /\ ~q.boosted => ~Boosted(q.original))
<1> DEFINE unsafe == {s \in Groups(desk) : Unsafe(desk, s)}
           m == Mark(run, unsafe, "SkippedUnsafeTopology")
           todo == Groups(desk) \ unsafe
           r == [m EXCEPT
                    !.at = "prepare", !.original = desk, !.mark = drift,
                    !.skipped = Cardinality(unsafe),
                    !.todo = todo,
                    !.checked = run.drrOk,
                    !.boosted = run.drrOk /\ Boosted(desk)]
<1>1. /\ run \in Runs /\ desk \in Desks /\ drift \in 0 .. MaxDrift /\ run.drrOk \in BOOLEAN
      /\ run.modes = <<>> /\ run.target = <<>> /\ run.request = <<>> /\ run.original = <<>>
      /\ run.applied = 0 /\ run.alreadyMax = 0 /\ run.failed = 0
      /\ ~run.checked
  BY BeforeReading
<1>2. unsafe \in SUBSET Sources /\ todo \subseteq Sources
  BY <1>1, GroupsIs
<1>3. Cardinality(unsafe) \in Nat
  <2>1. IsFiniteSet(unsafe)
    BY <1>2, FS_Subset, ConstantsAssumption
  <2>2. QED
    BY <2>1, FS_CardinalityType
<1>4. "SkippedUnsafeTopology" \in Statuses /\ "Unavailable" \in Statuses
  BY DEF Statuses
<1>5. Boosted(desk) \in BOOLEAN
  BY DEF Boosted
<1>6. CASE desk = <<>>
  <2>1. q = Finish([run EXCEPT !.mark = drift], "Unavailable")
    BY <1>6 DEF Grouped
  <2>2. QED
    BY <1>6, <2>1, UnreadOK
<1>7. CASE desk # <<>>
  <2>1. q = IF r.todo = {} THEN Finish(r, "SkippedUnsafeTopology") ELSE r
    BY <1>7 DEF Grouped
  <2> HIDE DEF unsafe
  <2>2. /\ m \in Runs /\ Kept(m, run)
        /\ m.target = PutAll(run.target, unsafe, "SkippedUnsafeTopology")
        /\ m.applied = 0 /\ m.alreadyMax = 0 /\ m.failed = 0
    BY <1>1, <1>2, <1>4, MarkIs
  <2> HIDE DEF m, todo
  <2>3. r \in Runs
    <3> DEFINE b == run.drrOk /\ Boosted(desk)
               n == Cardinality(unsafe)
    <3>1. m \in Runs /\ "prepare" \in Steps /\ n \in Nat /\ todo \in SUBSET Sources /\ b \in BOOLEAN
      BY <1>2, <1>3, <2>2 DEF Steps
    <3>2. desk \in Desks /\ drift \in 0 .. MaxDrift /\ run.drrOk \in BOOLEAN
      BY <1>1
    <3> HIDE DEF b, n
    <3>3. [m EXCEPT !.at = "prepare", !.original = desk, !.mark = drift, !.skipped = n, !.todo = todo,
                    !.checked = run.drrOk, !.boosted = b] \in Runs
      BY <3>1, <3>2 DEF Runs
    <3>4. QED
      BY <3>3 DEF b, n
  <2>4. /\ r.at = "prepare" /\ r.original = desk /\ r.mark = drift /\ r.skipped = Cardinality(unsafe)
        /\ r.todo = todo /\ r.checked = run.drrOk /\ r.boosted = (run.drrOk /\ Boosted(desk))
        /\ r.target = m.target /\ r.applied = 0 /\ r.alreadyMax = 0 /\ r.failed = 0
    BY <1>1, <2>2 DEF Runs
  <2>5. r.modes = <<>> /\ r.request = <<>> /\ r.drrOk = run.drrOk
    BY <1>1, <2>2 DEF Runs, Kept
  <2> HIDE DEF r
  <2>6. DOMAIN r.target = unsafe /\ \A s \in unsafe : r.target[s] = "SkippedUnsafeTopology"
    BY <1>1, <2>2, <2>4 DEF PutAll
  <2>7. Counted(r) /\ With(r, {"Unavailable"}) = {} /\ With(r, {"Applied"}) = {}
    <3>1. With(r, {"SkippedUnsafeTopology"}) = unsafe
      BY <2>6 DEF With
    <3>2. With(r, {"Unavailable"}) = {} /\ With(r, {"Applied"}) = {} /\ With(r, {"AlreadyMax"}) = {}
      BY <2>6 DEF With
    <3>3. With(r, Failures) = {}
      BY <2>6 DEF With, Failures
    <3>4. QED
      BY <2>4, <3>1, <3>2, <3>3, FS_EmptySet DEF Counted
  <2>8. Prepared(r) = {} /\ DOMAIN r.modes = {}
    BY <2>5 DEF Prepared
  <2>9. unsafe \cup todo = Groups(desk) /\ unsafe \cap todo = {}
    BY DEF unsafe, todo
  <2>10. CASE todo # {}
    <3>1. q = r
      BY <2>1, <2>4, <2>10
    <3>2. Marked(r)
      BY <2>4, <2>6, <2>7, <2>8, <2>9, <2>10 DEF Marked, Trying, Undoing
    <3>3. RunOK(q)
      BY <2>3, <2>7, <2>8, <3>1, <3>2 DEF RunOK
    <3>4. QED
      BY <2>4, <2>5, <2>7, <3>1, <3>3
  <2>11. CASE todo = {}
    <3>1. q = Finish(r, "SkippedUnsafeTopology")
      BY <2>1, <2>4, <2>11
    <3>2. /\ q \in Runs /\ Kept(q, r) /\ q.at = "done" /\ q.target = r.target /\ Counted(q)
          /\ With(q, {"Unavailable"}) = {} /\ With(q, {"Applied"}) = {}
      BY <1>4, <2>3, <2>7, <3>1, FinishIs
    <3>3. DOMAIN q.modes = {} /\ Prepared(q) = {} /\ q.original = desk
      BY <2>4, <2>8, <3>2 DEF Kept, Prepared
    <3>4. Marked(q)
      BY <2>6, <2>9, <2>11, <3>2, <3>3 DEF Marked, Trying, Undoing
    <3>5. RunOK(q)
      BY <3>2, <3>3, <3>4 DEF RunOK
    <3>6. QED
      BY <2>4, <2>5, <3>2, <3>3, <3>5 DEF Kept
  <2>12. QED
    BY <2>10, <2>11
<1>8. QED
  BY <1>6, <1>7

LEMMA ReadOriginalOK ==
    ASSUME StageInv, startup.at = "refresh", UNCHANGED startup, ReadOriginal
    PROVE  StageInv'
<1>1. run.at = "read" /\ UNCHANGED <<windows, drift, startup>> /\ (Succeeds \/ Fails)
  BY DEF ReadOriginal, ReadPaths
<1>2. Apart' = Apart /\ Apart = {}
  BY <1>1, SameApart DEF StageInv, Staged, Undoing
<1>3. /\ RunOK(run') /\ run'.at \in {"prepare", "done"} /\ run'.modes = <<>> /\ run'.mark = drift
      /\ With(run', {"Applied"}) = {}
      /\ (run'.at = "prepare" \/ run'.checked) => run'.original = desk
      /\ run'.at = "prepare" => run'.checked = run'.drrOk
      /\ (run'.checked => run'.drrOk) /\ (run'.checked /\ ~run'.boosted => ~Boosted(run'.original))
  <2>1. CASE run' = Grouped(desk)
    <3> PICK q : q = run'
      OBVIOUS
    <3>1. /\ RunOK(q) /\ q.at \in {"prepare", "done"} /\ q.modes = <<>> /\ q.mark = drift
          /\ q.original = desk /\ With(q, {"Applied"}) = {}
          /\ (q.at = "prepare" => q.checked = q.drrOk)
          /\ (q.checked => q.drrOk) /\ (q.checked /\ ~q.boosted => ~Boosted(q.original))
      BY <1>1, <2>1, GroupedOK
    <3>2. QED
      BY <3>1
  <2>2. CASE run' = Finish([run EXCEPT !.mark = drift], "Unavailable")
    <3> PICK q : q = run'
      OBVIOUS
    <3>1. /\ RunOK(q) /\ q.at = "done" /\ q.modes = <<>> /\ q.mark = drift /\ ~q.checked
          /\ With(q, {"Applied"}) = {}
      BY <1>1, <2>2, UnreadOK
    <3>2. QED
      BY <3>1
  <2>3. QED
    BY <2>1, <2>2 DEF ReadOriginal, ReadPaths
<1>4. \A s \in DOMAIN run'.modes : FALSE
  BY <1>3
<1>5. Staged'
  BY <1>2, <1>3 DEF Staged, Undoing
<1>6. drift' = drift /\ desk' = desk
  BY <1>1 DEF windows
<1>7. drift' <= run'.mark
  BY <1>3, <1>6 DEF StageInv, StageTypeOK
<1>8. Looked'
  BY <1>2, <1>3, <1>4, <1>6, <1>7 DEF Looked, Choosing
<1>9. QED
  BY <1>1, <1>3, <1>5, <1>8, ReadStep

\* One device of the choice, whatever comes of it.
LEMMA OneDevice ==
    ASSUME StageInv, startup.at = "refresh", UNCHANGED <<windows, drift, startup>>,
           Succeeds \/ Fails, run.at = "prepare",
           NEW s, s = Min(run.todo),
           NEW status \in {"NoCompatibleMode", "AlreadyMax", "ValidateFailed", "Unavailable"},
           NEW q \in Runs, Alike(q, run), q.at = "prepare", q.todo = run.todo \ {s},
           q.target = PutAll(run.target, {s}, status),
           q.modes = run.modes \/ q.modes = Put(run.modes, s, mode[s]),
           \/ status # "Unavailable" /\ q.request = run.request
           \/ status = "Unavailable" /\ s \in DOMAIN q.modes /\ \E hz : q.request = Put(run.request, s, hz),
           q.applied = run.applied, q.skipped = run.skipped,
           q.alreadyMax = run.alreadyMax + (IF status = "AlreadyMax" THEN 1 ELSE 0),
           q.failed = run.failed + (IF status \in Failures THEN 1 ELSE 0),
           run' = AfterPreparing(q)
    PROVE  StageInv'
<1>1. /\ run \in Runs /\ run.todo # {} /\ run.todo \subseteq Groups(run.original)
      /\ DOMAIN run.target = Groups(run.original) \ run.todo
      /\ Prepared(run) \subseteq DOMAIN run.modes /\ DOMAIN run.modes \subseteq DOMAIN run.target
      /\ With(run, {"Unavailable"}) = Prepared(run) /\ With(run, {"Applied"}) = {}
      /\ Counted(run)
  BY DEF StageInv, RunOK, Marked
<1>2. s \in run.todo /\ s \in Sources
  <2>1. run.todo \subseteq Sources
    BY <1>1 DEF Runs
  <2>2. run.todo \subseteq Nat
    BY <2>1, ConstantsAssumption
  <2>3. QED
    BY <1>1, <2>1, <2>2, MinIsOne
<1>3. /\ DOMAIN q.target = {s} \cup DOMAIN run.target /\ q.target[s] = status
      /\ \A x \in DOMAIN run.target : q.target[x] = run.target[x]
  BY <1>1, <1>2 DEF PutAll
<1>4. Counted(q)
  <2>1. Cardinality({s}) = 1
    BY FS_Singleton
  <2>2. \A x \in {s} \cap DOMAIN run.target : run.target[x] = "Unavailable"
    BY <1>1, <1>2
  <2>3. {s} \in SUBSET Sources /\ status \in Statuses
    BY <1>2 DEF Statuses
  <2>4. run.applied \in Nat /\ run.skipped \in Nat
    BY <1>1 DEF Runs
  <2>5. /\ q.applied = run.applied + (IF status = "Applied" THEN Cardinality({s}) ELSE 0)
        /\ q.alreadyMax = run.alreadyMax + (IF status = "AlreadyMax" THEN Cardinality({s}) ELSE 0)
        /\ q.skipped = run.skipped + (IF status = "SkippedUnsafeTopology" THEN Cardinality({s}) ELSE 0)
        /\ q.failed = run.failed + (IF status \in Failures THEN Cardinality({s}) ELSE 0)
    BY <2>1, <2>4
  <2>6. QED
    BY <1>1, <2>2, <2>3, <2>5, CountedMarked
<1>5. DOMAIN q.modes = DOMAIN run.modes \/ DOMAIN q.modes = {s} \cup DOMAIN run.modes
  BY DEF Put, PutAll
<1>6. DOMAIN q.modes \subseteq DOMAIN q.target
  BY <1>1, <1>3, <1>5
<1>7. /\ status = "Unavailable" => s \in DOMAIN q.modes /\ Prepared(q) = {s} \cup Prepared(run)
      /\ status # "Unavailable" => Prepared(q) = Prepared(run)
  BY DEF Put, PutAll, Prepared
<1>8. Prepared(q) \subseteq DOMAIN q.modes
  BY <1>1, <1>5, <1>7
<1>9. With(q, {"Unavailable"}) = Prepared(q)
  <2>1. CASE status = "Unavailable"
    BY <1>1, <1>3, <1>7, <2>1 DEF With
  <2>2. CASE status # "Unavailable"
    BY <1>1, <1>2, <1>3, <1>7, <2>2 DEF With
  <2>3. QED
    BY <2>1, <2>2
<1>10. With(q, {"Applied"}) = {}
  BY <1>1, <1>3 DEF With
<1>11. q.original = run.original /\ q.todo \subseteq Groups(q.original)
       /\ DOMAIN q.target = Groups(q.original) \ q.todo
  BY <1>1, <1>2, <1>3 DEF Alike
<1>12. /\ RunOK(run') /\ Kept(run', q) /\ run'.at \in {"prepare", "fresh", "done"}
       /\ With(run', {"Applied"}) = {}
  <2> PICK p : p = run'
    OBVIOUS
  <2>1. RunOK(p) /\ Kept(p, q) /\ p.at \in {"prepare", "fresh", "done"} /\ With(p, {"Applied"}) = {}
    BY <1>4, <1>6, <1>8, <1>9, <1>10, <1>11, AfterPreparingOK
  <2>2. QED
    BY <2>1
<1>13. Alike(run', run) /\ run'.modes = q.modes
  BY <1>12 DEF Alike, Kept
<1>14. \A x \in DOMAIN run'.modes :
          \/ x \in DOMAIN run.modes /\ run'.modes[x] = run.modes[x]
          \/ run'.modes[x] = mode[x]
  <2>1. CASE q.modes = run.modes
    BY <1>13, <2>1
  <2>2. CASE q.modes = Put(run.modes, s, mode[s])
    BY <1>13, <2>2 DEF Put, PutAll
  <2>3. QED
    BY <2>1, <2>2
<1>15. Staged' /\ Looked'
  BY <1>12, <1>13, <1>14, NothingWritten DEF Choosing
<1>16. QED
  BY <1>12, <1>15, ReadStep

LEMMA PrepareOK ==
    ASSUME StageInv, startup.at = "refresh", UNCHANGED startup, Prepare
    PROVE  StageInv'
<1> DEFINE s == Min(run.todo)
           rest == [run EXCEPT !.todo = @ \ {s}]
           read == [rest EXCEPT !.modes = Put(@, s, mode[s])]
           none == Mark(rest, {s}, "NoCompatibleMode")
           some(status) == Mark(read, {s}, status)
           q1 == [none EXCEPT !.complete = FALSE, !.failed = @ + 1]
           q2 == [some("NoCompatibleMode") EXCEPT !.failed = @ + 1]
           q3 == [some("AlreadyMax") EXCEPT !.alreadyMax = @ + 1]
           q4 == [some("ValidateFailed") EXCEPT !.failed = @ + 1]
           q5(hz) == [some("Unavailable") EXCEPT !.request = Put(@, s, hz)]
<1>1. run.at = "prepare" /\ UNCHANGED <<windows, drift, startup>> /\ (Succeeds \/ Fails)
  BY DEF Prepare
<1>2. \/ run' = AfterPreparing(q1) \/ run' = AfterPreparing(q2) \/ run' = AfterPreparing(q3)
      \/ run' = AfterPreparing(q4)
      \/ \E hz \in Rates : run' = AfterPreparing(q5(hz))
  BY DEF Prepare, Candidates
<1>3. run \in Runs /\ s \in Sources /\ run.at = "prepare"
  <2>1. run \in Runs /\ run.todo # {}
    BY <1>1 DEF StageInv, RunOK, Marked
  <2>2. run.todo \subseteq Sources
    BY <2>1 DEF Runs
  <2>3. run.todo \subseteq Nat
    BY <2>2, ConstantsAssumption
  <2>4. s \in run.todo
    BY <2>1, <2>3, MinIsOne
  <2>5. QED
    BY <1>1, <2>1, <2>2, <2>4
<1>4. mode[s] \in Mode /\ run.modes \in Partial(Mode) /\ run.request \in Partial(Rates)
      /\ run.todo \in SUBSET Sources
  BY <1>3 DEF StageInv, StageTypeOK, Runs
<1>5. Put(run.modes, s, mode[s]) \in Partial(Mode) /\ s \in DOMAIN Put(run.modes, s, mode[s])
  <2>1. {s} \in SUBSET Sources
    BY <1>3
  <2>2. PutAll(run.modes, {s}, mode[s]) \in Partial(Mode)
    BY <1>4, <2>1, PutPartial
  <2>3. QED
    BY <2>2 DEF Put, PutAll
<1>6. \A hz \in Rates : Put(run.request, s, hz) \in Partial(Rates)
  <2>1. {s} \in SUBSET Sources
    BY <1>3
  <2>2. QED
    BY <1>4, <2>1, PutPartial DEF Put
<1>7. {s} \in SUBSET Sources
  BY <1>3
<1> HIDE DEF s
<1>8. /\ rest \in Runs /\ rest.todo = run.todo \ {s} /\ rest.at = "prepare"
      /\ rest.target = run.target /\ rest.modes = run.modes /\ rest.request = run.request
      /\ rest.applied = run.applied /\ rest.alreadyMax = run.alreadyMax /\ rest.skipped = run.skipped
      /\ rest.failed = run.failed
  BY <1>3, <1>4 DEF Runs
<1>9. Alike(rest, run)
  BY <1>3 DEF Runs, Alike
<1> HIDE DEF rest
<1>10. /\ read \in Runs /\ read.todo = run.todo \ {s} /\ read.at = "prepare"
       /\ read.target = run.target /\ read.modes = Put(run.modes, s, mode[s])
       /\ read.request = run.request
       /\ read.applied = run.applied /\ read.alreadyMax = run.alreadyMax /\ read.skipped = run.skipped
       /\ read.failed = run.failed
  BY <1>5, <1>8 DEF Runs
<1>11. Alike(read, run)
  BY <1>8, <1>9 DEF Runs, Alike
<1> HIDE DEF read
<1>12. /\ none \in Runs /\ none.todo = run.todo \ {s} /\ none.at = "prepare"
       /\ none.target = PutAll(run.target, {s}, "NoCompatibleMode")
       /\ none.applied = run.applied /\ none.alreadyMax = run.alreadyMax /\ none.skipped = run.skipped
       /\ none.failed = run.failed /\ Kept(none, rest)
  <2>1. "NoCompatibleMode" \in Statuses
    BY DEF Statuses
  <2>2. QED
    BY <1>7, <1>8, <2>1, MarkIs
<1> HIDE DEF none
<1>13. \A status \in Statuses :
       /\ some(status) \in Runs /\ some(status).todo = run.todo \ {s} /\ some(status).at = "prepare"
       /\ some(status).target = PutAll(run.target, {s}, status)
       /\ some(status).applied = run.applied /\ some(status).alreadyMax = run.alreadyMax
       /\ some(status).skipped = run.skipped /\ some(status).failed = run.failed
       /\ Kept(some(status), read)
  BY <1>7, <1>10, MarkIs
<1> HIDE DEF some
<1>14. CASE run' = AfterPreparing(q1)
  <2>1. none \in Runs
    BY <1>12
  <2>2. q1 \in Runs
    <3> DEFINE n == [none EXCEPT !.failed = @ + 1]
    <3>1. n \in Runs
      BY <2>1 DEF Runs
    <3>2. q1 = [n EXCEPT !.complete = FALSE]
      BY <2>1 DEF Runs
    <3> HIDE DEF n, q1
    <3>3. QED
      BY <3>1, <3>2 DEF Runs
  <2>3. /\ q1.at = none.at /\ q1.todo = none.todo /\ q1.target = none.target
        /\ q1.applied = none.applied /\ q1.alreadyMax = none.alreadyMax
        /\ q1.skipped = none.skipped /\ q1.failed = none.failed + 1
    BY <2>1 DEF Runs
  <2>4. Kept(q1, none)
    BY <2>1 DEF Runs, Kept
  <2> HIDE DEF q1
  <2>5. /\ q1.at = "prepare" /\ q1.todo = run.todo \ {s}
        /\ q1.target = PutAll(run.target, {s}, "NoCompatibleMode")
        /\ q1.applied = run.applied /\ q1.alreadyMax = run.alreadyMax
        /\ q1.skipped = run.skipped /\ q1.failed = run.failed + 1
    BY <1>12, <2>3 DEF Statuses
  <2>6. Alike(q1, run) /\ q1.modes = run.modes /\ q1.request = run.request
    BY <1>12, <1>8, <1>9, <1>10, <1>11, <2>4 DEF Statuses, Kept, Alike
  <2>7. run.alreadyMax \in Nat /\ run.failed \in Nat
    BY <1>3 DEF Runs
  <2> PICK status : status = "NoCompatibleMode"
    OBVIOUS
  <2>8. /\ status \in {"NoCompatibleMode", "AlreadyMax", "ValidateFailed", "Unavailable"}
        /\ status # "Unavailable" /\ q1.target = PutAll(run.target, {s}, status)
        /\ q1.alreadyMax = run.alreadyMax + (IF status = "AlreadyMax" THEN 1 ELSE 0)
        /\ q1.failed = run.failed + (IF status \in Failures THEN 1 ELSE 0)
    BY <2>5, <2>7 DEF Failures
  <2>9. QED
    BY <1>1, <1>14, <2>2, <2>5, <2>6, <2>8, OneDevice DEF s
<1>15. CASE run' = AfterPreparing(q2)
  <2>1. some("NoCompatibleMode") \in Runs
    BY <1>13 DEF Statuses
  <2>2. q2 \in Runs
    BY <2>1 DEF Runs
  <2>3. /\ q2.at = some("NoCompatibleMode").at /\ q2.todo = some("NoCompatibleMode").todo /\ q2.target = some("NoCompatibleMode").target
        /\ q2.applied = some("NoCompatibleMode").applied /\ q2.alreadyMax = some("NoCompatibleMode").alreadyMax
        /\ q2.skipped = some("NoCompatibleMode").skipped /\ q2.failed = some("NoCompatibleMode").failed + 1
    BY <2>1 DEF Runs
  <2>4. Kept(q2, some("NoCompatibleMode"))
    BY <2>1 DEF Runs, Kept
  <2> HIDE DEF q2
  <2>5. /\ q2.at = "prepare" /\ q2.todo = run.todo \ {s}
        /\ q2.target = PutAll(run.target, {s}, "NoCompatibleMode")
        /\ q2.applied = run.applied /\ q2.alreadyMax = run.alreadyMax
        /\ q2.skipped = run.skipped /\ q2.failed = run.failed + 1
    BY <1>13, <2>3 DEF Statuses
  <2>6. Alike(q2, run) /\ q2.modes = Put(run.modes, s, mode[s]) /\ q2.request = run.request
    BY <1>13, <1>8, <1>9, <1>10, <1>11, <2>4 DEF Statuses, Kept, Alike
  <2>7. run.alreadyMax \in Nat /\ run.failed \in Nat
    BY <1>3 DEF Runs
  <2> PICK status : status = "NoCompatibleMode"
    OBVIOUS
  <2>8. /\ status \in {"NoCompatibleMode", "AlreadyMax", "ValidateFailed", "Unavailable"}
        /\ status # "Unavailable" /\ q2.target = PutAll(run.target, {s}, status)
        /\ q2.alreadyMax = run.alreadyMax + (IF status = "AlreadyMax" THEN 1 ELSE 0)
        /\ q2.failed = run.failed + (IF status \in Failures THEN 1 ELSE 0)
    BY <2>5, <2>7 DEF Failures
  <2>9. QED
    BY <1>1, <1>15, <2>2, <2>5, <2>6, <2>8, OneDevice DEF s
<1>16. CASE run' = AfterPreparing(q3)
  <2>1. some("AlreadyMax") \in Runs
    BY <1>13 DEF Statuses
  <2>2. q3 \in Runs
    BY <2>1 DEF Runs
  <2>3. /\ q3.at = some("AlreadyMax").at /\ q3.todo = some("AlreadyMax").todo /\ q3.target = some("AlreadyMax").target
        /\ q3.applied = some("AlreadyMax").applied /\ q3.alreadyMax = some("AlreadyMax").alreadyMax + 1
        /\ q3.skipped = some("AlreadyMax").skipped /\ q3.failed = some("AlreadyMax").failed
    BY <2>1 DEF Runs
  <2>4. Kept(q3, some("AlreadyMax"))
    BY <2>1 DEF Runs, Kept
  <2> HIDE DEF q3
  <2>5. /\ q3.at = "prepare" /\ q3.todo = run.todo \ {s}
        /\ q3.target = PutAll(run.target, {s}, "AlreadyMax")
        /\ q3.applied = run.applied /\ q3.alreadyMax = run.alreadyMax + 1
        /\ q3.skipped = run.skipped /\ q3.failed = run.failed
    BY <1>13, <2>3 DEF Statuses
  <2>6. Alike(q3, run) /\ q3.modes = Put(run.modes, s, mode[s]) /\ q3.request = run.request
    BY <1>13, <1>8, <1>9, <1>10, <1>11, <2>4 DEF Statuses, Kept, Alike
  <2>7. run.alreadyMax \in Nat /\ run.failed \in Nat
    BY <1>3 DEF Runs
  <2> PICK status : status = "AlreadyMax"
    OBVIOUS
  <2>8. /\ status \in {"NoCompatibleMode", "AlreadyMax", "ValidateFailed", "Unavailable"}
        /\ status # "Unavailable" /\ q3.target = PutAll(run.target, {s}, status)
        /\ q3.alreadyMax = run.alreadyMax + (IF status = "AlreadyMax" THEN 1 ELSE 0)
        /\ q3.failed = run.failed + (IF status \in Failures THEN 1 ELSE 0)
    BY <2>5, <2>7 DEF Failures
  <2>9. QED
    BY <1>1, <1>16, <2>2, <2>5, <2>6, <2>8, OneDevice DEF s
<1>17. CASE run' = AfterPreparing(q4)
  <2>1. some("ValidateFailed") \in Runs
    BY <1>13 DEF Statuses
  <2>2. q4 \in Runs
    BY <2>1 DEF Runs
  <2>3. /\ q4.at = some("ValidateFailed").at /\ q4.todo = some("ValidateFailed").todo /\ q4.target = some("ValidateFailed").target
        /\ q4.applied = some("ValidateFailed").applied /\ q4.alreadyMax = some("ValidateFailed").alreadyMax
        /\ q4.skipped = some("ValidateFailed").skipped /\ q4.failed = some("ValidateFailed").failed + 1
    BY <2>1 DEF Runs
  <2>4. Kept(q4, some("ValidateFailed"))
    BY <2>1 DEF Runs, Kept
  <2> HIDE DEF q4
  <2>5. /\ q4.at = "prepare" /\ q4.todo = run.todo \ {s}
        /\ q4.target = PutAll(run.target, {s}, "ValidateFailed")
        /\ q4.applied = run.applied /\ q4.alreadyMax = run.alreadyMax
        /\ q4.skipped = run.skipped /\ q4.failed = run.failed + 1
    BY <1>13, <2>3 DEF Statuses
  <2>6. Alike(q4, run) /\ q4.modes = Put(run.modes, s, mode[s]) /\ q4.request = run.request
    BY <1>13, <1>8, <1>9, <1>10, <1>11, <2>4 DEF Statuses, Kept, Alike
  <2>7. run.alreadyMax \in Nat /\ run.failed \in Nat
    BY <1>3 DEF Runs
  <2> PICK status : status = "ValidateFailed"
    OBVIOUS
  <2>8. /\ status \in {"NoCompatibleMode", "AlreadyMax", "ValidateFailed", "Unavailable"}
        /\ status # "Unavailable" /\ q4.target = PutAll(run.target, {s}, status)
        /\ q4.alreadyMax = run.alreadyMax + (IF status = "AlreadyMax" THEN 1 ELSE 0)
        /\ q4.failed = run.failed + (IF status \in Failures THEN 1 ELSE 0)
    BY <2>5, <2>7 DEF Failures
  <2>9. QED
    BY <1>1, <1>17, <2>2, <2>5, <2>6, <2>8, OneDevice DEF s
<1>18. ASSUME NEW hz \in Rates, run' = AfterPreparing(q5(hz)) PROVE StageInv'
  <2> DEFINE m == some("Unavailable")
             q == q5(hz)
             request == Put(run.request, s, hz)
  <2>1. m \in Runs /\ m.request = run.request /\ request \in Partial(Rates)
    BY <1>6, <1>10, <1>13 DEF Statuses, Kept
  <2>2. q = [m EXCEPT !.request = request]
    BY <2>1
  <2>3. run' = AfterPreparing(q)
    BY <1>18
  <2>4. /\ m.todo = run.todo \ {s} /\ m.at = "prepare"
        /\ m.target = PutAll(run.target, {s}, "Unavailable")
        /\ m.applied = run.applied /\ m.alreadyMax = run.alreadyMax
        /\ m.skipped = run.skipped /\ m.failed = run.failed
        /\ m.modes = Put(run.modes, s, mode[s])
    BY <1>10, <1>13 DEF Statuses, Kept
  <2>5. Alike(m, run)
    BY <1>11, <1>13 DEF Statuses, Kept, Alike
  <2> HIDE DEF m, q, request
  <2>6. q \in Runs
    BY <2>1, <2>2 DEF Runs
  <2>7. /\ q.at = m.at /\ q.todo = m.todo /\ q.target = m.target /\ q.modes = m.modes
        /\ q.applied = m.applied /\ q.alreadyMax = m.alreadyMax
        /\ q.skipped = m.skipped /\ q.failed = m.failed /\ q.request = request
    BY <2>1, <2>2 DEF Runs
  <2>8. Alike(q, m)
    BY <2>1, <2>2 DEF Runs, Alike
  <2>9. /\ q.at = "prepare" /\ q.todo = run.todo \ {s}
        /\ q.target = PutAll(run.target, {s}, "Unavailable")
        /\ q.applied = run.applied /\ q.alreadyMax = run.alreadyMax
        /\ q.skipped = run.skipped /\ q.failed = run.failed
        /\ Alike(q, run) /\ q.modes = Put(run.modes, s, mode[s])
    BY <2>4, <2>5, <2>7, <2>8 DEF Alike
  <2>10. \E h : q.request = Put(run.request, s, h)
    BY <2>7 DEF request
  <2>11. run.alreadyMax \in Nat /\ run.failed \in Nat
    BY <1>3 DEF Runs
  <2>12. s \in DOMAIN q.modes
    BY <1>5, <2>9
  <2> PICK status : status = "Unavailable"
    OBVIOUS
  <2>13. /\ status \in {"NoCompatibleMode", "AlreadyMax", "ValidateFailed", "Unavailable"}
         /\ status = "Unavailable" /\ q.target = PutAll(run.target, {s}, status)
         /\ q.alreadyMax = run.alreadyMax + (IF status = "AlreadyMax" THEN 1 ELSE 0)
         /\ q.failed = run.failed + (IF status \in Failures THEN 1 ELSE 0)
    BY <2>9, <2>11 DEF Failures
  <2>14. QED
    BY <1>1, <2>3, <2>6, <2>9, <2>10, <2>12, <2>13, OneDevice DEF s
<1>19. QED
  BY <1>2, <1>14, <1>15, <1>16, <1>17, <1>18

-----------------------------------------------------------------------------
(* The steps that move on, and those that mark what failed.                *)

SameMarks(q, r) ==
    /\ q.original = r.original /\ q.modes = r.modes /\ q.request = r.request
    /\ q.target = r.target /\ q.status = r.status
    /\ q.applied = r.applied /\ q.alreadyMax = r.alreadyMax /\ q.skipped = r.skipped
    /\ q.failed = r.failed

LEMMA MovedOK ==
    ASSUME NEW r, RunOK(r), NEW q \in Runs, SameMarks(q, r),
           \/ r.at \in Trying /\ q.at \in Trying
           \/ r.at \in Undoing /\ q.at \in Undoing,
           q.at \in {"retest", "write"} => q.todo # {} /\ q.todo \subseteq Prepared(r),
           q.at = "restore" => q.todo # {} /\ q.todo \subseteq DOMAIN r.modes
    PROVE  RunOK(q)
<1>1. Counted(q) /\ \A S : With(q, S) = With(r, S)
  BY SameCount DEF SameMarks, RunOK
<1>2. Prepared(q) = Prepared(r) /\ Prepared(q) \subseteq DOMAIN q.modes
  BY DEF SameMarks, Prepared, RunOK
<1>3. CASE r.at \in Trying /\ q.at \in Trying
  <2>1. Marked(q)
    BY <1>1, <1>2, <1>3 DEF RunOK, Marked, SameMarks, Trying, Undoing
  <2>2. QED
    BY <1>1, <1>2, <2>1 DEF RunOK
<1>4. CASE r.at \in Undoing /\ q.at \in Undoing
  <2>1. Marked(q)
    BY <1>1, <1>2, <1>4 DEF RunOK, Marked, SameMarks, Trying, Undoing
  <2>2. QED
    BY <1>1, <1>2, <2>1 DEF RunOK
<1>5. QED
  BY <1>3, <1>4

LEMMA PreparedAre ==
    ASSUME NEW r, RunOK(r), r.at \in Trying \cup Undoing
    PROVE  /\ r \in Runs /\ Counted(r)
           /\ Prepared(r) # {} /\ Prepared(r) \subseteq DOMAIN r.modes
           /\ DOMAIN r.modes \subseteq DOMAIN r.target /\ DOMAIN r.target \subseteq Sources
           /\ r.original # <<>> => DOMAIN r.target = Groups(r.original)
           /\ With(r, {"Applied"}) = {}
           /\ r.at \in Trying => With(r, {"Unavailable"}) = Prepared(r)
<1>1. r \in Runs /\ Counted(r) /\ Prepared(r) \subseteq DOMAIN r.modes /\ Marked(r)
  BY DEF RunOK
<1>2. DOMAIN r.target \subseteq Sources
  BY <1>1, PartialIs DEF Runs
<1>3. QED
  BY <1>1, <1>2 DEF Marked, Trying, Undoing

LEMMA TryingMarked ==
    ASSUME NEW r, RunOK(r), r.at \in Trying PROVE AllMarked(r)
<1>1. With(r, {"Unavailable"}) = Prepared(r)
  BY PreparedAre
<1>2. QED
  BY <1>1, PreparedAre DEF AllMarked

LEMMA CountedFailed ==
    ASSUME NEW r \in Runs, NEW q \in Runs, NEW S \in SUBSET Sources, NEW status \in Failures,
           Counted(r), q.target = PutAll(r.target, S, status),
           \A s \in S \cap DOMAIN r.target : r.target[s] = "Unavailable",
           q.applied = r.applied, q.alreadyMax = r.alreadyMax, q.skipped = r.skipped,
           q.failed = r.failed + Cardinality(S)
    PROVE  Counted(q)
<1>1. status \in Statuses
  BY DEF Failures, Statuses
<1>2. r.applied \in Nat /\ r.alreadyMax \in Nat /\ r.skipped \in Nat
  BY DEF Runs
<1>3. /\ q.applied = r.applied + (IF status = "Applied" THEN Cardinality(S) ELSE 0)
      /\ q.alreadyMax = r.alreadyMax + (IF status = "AlreadyMax" THEN Cardinality(S) ELSE 0)
      /\ q.skipped = r.skipped + (IF status = "SkippedUnsafeTopology" THEN Cardinality(S) ELSE 0)
      /\ q.failed = r.failed + (IF status \in Failures THEN Cardinality(S) ELSE 0)
  BY <1>2 DEF Failures
<1>4. QED
  BY <1>1, <1>3, CountedMarked

\* Some of the prepared devices fail.
Failing(r, S, status, n) == [Mark(r, S, status) EXCEPT !.failed = @ + n]

LEMMA FailedIs ==
    ASSUME NEW r \in Runs, NEW S \in SUBSET Sources, NEW status \in Statuses, NEW n \in Nat,
           NEW q, q = Failing(r, S, status, n)
    PROVE  /\ q \in Runs /\ Kept(q, r) /\ q.target = PutAll(r.target, S, status)
           /\ q.matches = r.matches /\ q.applied = r.applied /\ q.alreadyMax = r.alreadyMax
           /\ q.skipped = r.skipped /\ q.failed = r.failed + n
<1> DEFINE m == Mark(r, S, status)
<1>0. q = [m EXCEPT !.failed = @ + n]
  BY DEF Failing
<1>1. m \in Runs
  BY MarkIs
<1>2. /\ Kept(m, r) /\ m.target = PutAll(r.target, S, status)
      /\ m.matches = r.matches /\ m.applied = r.applied /\ m.alreadyMax = r.alreadyMax
      /\ m.skipped = r.skipped /\ m.failed = r.failed
  BY MarkIs
<1> HIDE DEF m
<1>3. q \in Runs
  BY <1>0, <1>1 DEF Runs
<1>4. /\ q.target = m.target /\ q.matches = m.matches /\ q.applied = m.applied
      /\ q.alreadyMax = m.alreadyMax /\ q.skipped = m.skipped /\ q.failed = m.failed + n
  BY <1>0, <1>1 DEF Runs
<1>5. Kept(q, m)
  BY <1>0, <1>1 DEF Runs, Kept
<1>6. Kept(q, r)
  BY <1>2, <1>5 DEF Kept
<1>7. QED
  BY <1>2, <1>3, <1>4, <1>6

LEMMA FailedMarked ==
    ASSUME NEW r, RunOK(r), r.at \in Trying, NEW S, S \subseteq Prepared(r),
           NEW status \in {"ValidateFailed", "ApplyFailed", "VerifyFailed"},
           NEW q \in Runs, Kept(q, r), q.target = PutAll(r.target, S, status),
           q.applied = r.applied, q.alreadyMax = r.alreadyMax, q.skipped = r.skipped,
           q.failed = r.failed + Cardinality(S)
    PROVE  AllMarked(q)
<1>1. /\ r \in Runs /\ Counted(r)
      /\ Prepared(r) # {} /\ Prepared(r) \subseteq DOMAIN r.modes
      /\ DOMAIN r.modes \subseteq DOMAIN r.target /\ DOMAIN r.target \subseteq Sources
      /\ r.original # <<>> => DOMAIN r.target = Groups(r.original)
      /\ With(r, {"Applied"}) = {} /\ With(r, {"Unavailable"}) = Prepared(r)
  BY PreparedAre
<1>2. S \in SUBSET Sources /\ S \subseteq DOMAIN r.target /\ \A s \in S : r.target[s] = "Unavailable"
  BY <1>1 DEF With
<1>3. status \in Failures /\ status \notin {"Applied", "Unavailable"}
  BY DEF Failures
<1>4. Counted(q)
  BY <1>1, <1>2, <1>3, CountedFailed
<1>5. /\ DOMAIN q.target = DOMAIN r.target
      /\ \A s \in S : q.target[s] = status
      /\ \A s \in DOMAIN r.target \ S : q.target[s] = r.target[s]
  BY <1>2 DEF PutAll
<1>6. With(q, {"Applied"}) = {}
  BY <1>1, <1>3, <1>5 DEF With
<1>7. With(q, {"Unavailable"}) \subseteq Prepared(r)
  <2>1. \A s \in With(q, {"Unavailable"}) : s \in With(r, {"Unavailable"})
    BY <1>3, <1>5 DEF With
  <2>2. QED
    BY <1>1, <2>1
<1>8. Prepared(q) = Prepared(r) /\ q.modes = r.modes /\ q.original = r.original
  BY DEF Kept, Prepared
<1>9. QED
  BY <1>1, <1>4, <1>5, <1>6, <1>7, <1>8 DEF AllMarked

-----------------------------------------------------------------------------
(* Looking again.                                                          *)

LEMMA FreshPathsOK ==
    ASSUME StageInv, startup.at = "refresh", UNCHANGED startup, FreshPaths
    PROVE  StageInv'
<1>1. run.at = "fresh" /\ UNCHANGED <<windows, drift, startup>> /\ (Succeeds \/ Fails)
  BY DEF FreshPaths, ReadPaths
<1>2. run \in Runs /\ RunOK(run)
  BY DEF StageInv, RunOK
<1>3. PICK ok \in BOOLEAN : run' = [run EXCEPT !.at = "freshModes", !.matches = ok]
  BY DEF FreshPaths, ReadPaths, SameTopology
<1>4. PICK q : q = run'
  OBVIOUS
<1>5. /\ q \in Runs /\ q.at = "freshModes"
  <2>1. run \in Runs /\ q = [run EXCEPT !.at = "freshModes", !.matches = ok] /\ "freshModes" \in Steps
    BY <1>2, <1>3, <1>4 DEF Steps
  <2>2. QED
    BY <2>1 DEF Runs
<1>6. Kept(q, run) /\ SameMarks(q, run)
  BY <1>2, <1>3, <1>4 DEF Runs, Kept, SameMarks
<1>7. RunOK(q)
  BY <1>1, <1>2, <1>5, <1>6, MovedOK DEF Trying
<1>8. Alike(run', run) /\ run'.modes = run.modes /\ RunOK(run') /\ run'.at = "freshModes"
  BY <1>4, <1>5, <1>6, <1>7, KeptAlike
<1>9. Staged' /\ Looked'
  BY <1>1, <1>8, NothingWritten DEF Choosing
<1>10. QED
  BY <1>1, <1>8, <1>9, ReadStep

LEMMA FreshModesOK ==
    ASSUME StageInv, startup.at = "refresh", UNCHANGED startup, FreshModes
    PROVE  StageInv'
<1>1. run.at = "freshModes" /\ UNCHANGED <<windows, drift, startup>> /\ (Succeeds \/ Fails)
  BY DEF FreshModes, Readable
<1>2. run \in Runs /\ RunOK(run)
  BY DEF StageInv, RunOK
<1>3. \/ run' = [run EXCEPT !.at = "retest", !.todo = Prepared(run)]
      \/ run' = SkipPrepared(run, "SkippedUnsafeTopology")
  BY DEF FreshModes
<1>4. PICK q : q = run'
  OBVIOUS
<1>5. /\ RunOK(q) /\ Kept(q, run)
      /\ q.at = "retest" \/ (q.at = "done" /\ With(q, {"Applied"}) = {})
  <2>1. CASE q = [run EXCEPT !.at = "retest", !.todo = Prepared(run)]
    <3>1. Prepared(run) # {} /\ Prepared(run) \in SUBSET Sources
      BY <1>1, <1>2, PreparedAre DEF Trying
    <3>2. q \in Runs /\ q.at = "retest" /\ q.todo = Prepared(run)
      BY <1>2, <2>1, <3>1 DEF Runs, Steps
    <3>3. Kept(q, run) /\ SameMarks(q, run)
      BY <1>2, <2>1 DEF Runs, Kept, SameMarks
    <3>4. QED
      BY <1>1, <1>2, <3>1, <3>2, <3>3, MovedOK DEF Trying
  <2>2. CASE q = SkipPrepared(run, "SkippedUnsafeTopology")
    <3>1. AllMarked(run) /\ "SkippedUnsafeTopology" \in Statuses
      BY <1>1, <1>2, TryingMarked DEF Trying, Statuses
    <3>2. QED
      BY <2>2, <3>1, SkippedOK
  <2>3. QED
    BY <1>3, <1>4, <2>1, <2>2
<1>6. Alike(run', run) /\ run'.modes = run.modes /\ RunOK(run')
  BY <1>4, <1>5, KeptAlike
<1>7. run'.at = "retest" \/ (run'.at = "done" /\ With(run', {"Applied"}) = {})
  BY <1>4, <1>5
<1>8. Staged' /\ Looked'
  BY <1>1, <1>6, <1>7, NothingWritten DEF Choosing
<1>9. QED
  BY <1>1, <1>6, <1>7, <1>8, ReadStep

LEMMA RetestOK ==
    ASSUME StageInv, startup.at = "refresh", UNCHANGED startup, Retest
    PROVE  StageInv'
<1> DEFINE s == Min(run.todo)
           batch == Cardinality(Prepared(run)) > 1
           failed == [Mark(run, {s}, "ValidateFailed") EXCEPT !.failed = @ + 1]
<1>1. run.at = "retest" /\ UNCHANGED <<windows, drift, startup>> /\ (Succeeds \/ Fails)
  BY DEF Retest
<1>2. run \in Runs /\ RunOK(run) /\ run.todo # {} /\ run.todo \subseteq Prepared(run)
  BY <1>1 DEF StageInv, RunOK, Marked
<1>3. Prepared(run) # {} /\ Prepared(run) \in SUBSET Sources
  BY <1>1, <1>2, PreparedAre DEF Trying
<1>4. s \in run.todo
  BY <1>2, <1>3, MinIsOne, ConstantsAssumption
<1>5. \/ run.todo # {s} /\ run' = [run EXCEPT !.todo = @ \ {s}]
      \/ run' = [run EXCEPT !.at = "write", !.todo = Prepared(run), !.batch = batch]
      \/ run' = SkipPrepared(failed, "ValidateFailed")
  BY DEF Retest
<1>6. PICK q : q = run'
  OBVIOUS
<1> HIDE DEF s
<1>7. /\ RunOK(q) /\ Kept(q, run)
      /\ q.at \in {"retest", "write"} \/ (q.at = "done" /\ With(q, {"Applied"}) = {})
  <2>1. CASE run.todo # {s} /\ q = [run EXCEPT !.todo = @ \ {s}]
    <3>1. q \in Runs /\ q.at = "retest" /\ q.todo = run.todo \ {s}
      BY <1>1, <1>2, <1>3, <2>1 DEF Runs
    <3>2. Kept(q, run) /\ SameMarks(q, run)
      BY <1>2, <2>1 DEF Runs, Kept, SameMarks
    <3>3. q.todo # {} /\ q.todo \subseteq Prepared(run)
      BY <1>2, <1>4, <2>1, <3>1
    <3>4. QED
      BY <1>1, <1>2, <3>1, <3>2, <3>3, MovedOK DEF Trying
  <2>2. CASE q = [run EXCEPT !.at = "write", !.todo = Prepared(run), !.batch = batch]
    <3>1. batch \in BOOLEAN
      OBVIOUS
    <3> HIDE DEF batch
    <3>2. q \in Runs /\ q.at = "write" /\ q.todo = Prepared(run)
      BY <1>2, <1>3, <2>2, <3>1 DEF Runs, Steps
    <3>3. Kept(q, run) /\ SameMarks(q, run)
      BY <1>2, <2>2 DEF Runs, Kept, SameMarks
    <3>4. QED
      BY <1>1, <1>2, <1>3, <3>2, <3>3, MovedOK DEF Trying
  <2>3. CASE q = SkipPrepared(failed, "ValidateFailed")
    <3>1. Cardinality({s}) = 1 /\ {s} \subseteq Prepared(run)
      BY <1>2, <1>4, FS_Singleton
    <3>2. AllMarked(failed) /\ Kept(failed, run)
      <4>1. PICK n \in Nat : n = 1
        OBVIOUS
      <4>2. PICK status \in Statuses : status = "ValidateFailed"
        BY DEF Statuses
      <4>3. failed = Failing(run, {s}, status, n)
        BY <4>1, <4>2 DEF Failing
      <4> HIDE DEF failed
      <4>4. {s} \in SUBSET Sources
        BY <1>3, <3>1
      <4>5. /\ failed \in Runs /\ Kept(failed, run)
            /\ failed.target = PutAll(run.target, {s}, status)
            /\ failed.applied = run.applied /\ failed.alreadyMax = run.alreadyMax
            /\ failed.skipped = run.skipped /\ failed.failed = run.failed + n
        BY <1>2, <4>3, <4>4, FailedIs
      <4>6. status \in {"ValidateFailed", "ApplyFailed", "VerifyFailed"} /\ n = Cardinality({s})
        BY <3>1, <4>1, <4>2
      <4>7. QED
        BY <1>1, <1>2, <3>1, <4>5, <4>6, FailedMarked DEF Trying
    <3> HIDE DEF failed
    <3>4. RunOK(q) /\ Kept(q, failed) /\ q.at = "done" /\ With(q, {"Applied"}) = {}
      BY <2>3, <3>2, SkippedOK DEF Statuses
    <3>5. QED
      BY <3>2, <3>4 DEF Kept
  <2>4. QED
    BY <1>5, <1>6, <2>1, <2>2, <2>3
<1>8. Alike(run', run) /\ run'.modes = run.modes /\ RunOK(run')
  BY <1>6, <1>7, KeptAlike
<1>9. run'.at \in {"retest", "write"} \/ (run'.at = "done" /\ With(run', {"Applied"}) = {})
  BY <1>6, <1>7
<1>10. Staged' /\ Looked'
  BY <1>1, <1>8, <1>9, NothingWritten DEF Choosing
<1>11. QED
  BY <1>1, <1>8, <1>9, <1>10, ReadStep

-----------------------------------------------------------------------------
(* Writing and verifying.                                                  *)

\* A change of one device leaves at most that one apart.
LEMMA ChangeIs ==
    ASSUME StageTypeOK, NEW s \in Sources, NEW to \in Mode, NEW batch,
           Change(s, to, batch) \/ ChangeFails(s, to)
    PROVE  /\ mode' \in [Sources -> Mode] /\ registry' \in [Sources -> Mode]
           /\ Apart' \subseteq Apart \cup {s}
           /\ Change(s, to, batch) /\ ~batch => Apart' = Apart \ {s}
<1>1. mode \in [Sources -> Mode] /\ registry \in [Sources -> Mode]
  BY DEF StageTypeOK
<1>2. CASE Change(s, to, batch)
  BY <1>1, <1>2 DEF Change, Apart
<1>3. CASE ChangeFails(s, to) /\ ~Change(s, to, batch)
  BY <1>1, <1>3 DEF ChangeFails, Apart
<1>4. QED
  BY <1>2, <1>3

\* Between the choice and the verdict nothing is promised about the desktop.
LEMMA BetweenLooks ==
    ASSUME StageInv, UNCHANGED drift, Alike(run', run),
           run.at \in {"write", "commit", "after", "afterModes"} \cup Undoing,
           \/ run'.at \in {"rollback", "rollbackModes", "restore", "rollbackCommit", "restored"}
           \/ run.at \in {"write", "commit"} /\ run'.at \in {"write", "commit", "after"}
    PROVE  Looked'
<1>1. drift' <= run'.mark
  BY DEF StageInv, Looked, Alike, Undoing
<1>2. (run'.checked => run'.drrOk) /\ (run'.checked /\ ~run'.boosted => ~Boosted(run'.original))
  BY DEF StageInv, Looked, Alike
<1>3. run'.at \in Choosing \cup {"write", "commit", "after"} => run'.checked = run'.drrOk
  BY DEF StageInv, Looked, Alike, Choosing
<1>4. QED
  BY <1>1, <1>2, <1>3 DEF Looked, Choosing

\* Some of what was prepared fails, and the rollback begins.
LEMMA FailingOK ==
    ASSUME NEW r, RunOK(r), r.at \in Trying, NEW S, S \subseteq Prepared(r),
           NEW status \in {"ApplyFailed", "VerifyFailed"}, NEW n, n = Cardinality(S),
           NEW q, q = RollBack(Failing(r, S, status, n), status)
    PROVE  RunOK(q) /\ Kept(q, r) /\ q.at = "rollback"
<1> DEFINE k == Failing(r, S, status, n)
<1>1. r \in Runs /\ Prepared(r) # {} /\ Prepared(r) \subseteq Sources
  BY PreparedAre
<1>2. S \in SUBSET Sources /\ status \in Statuses
  BY <1>1 DEF Statuses
<1>3. n \in Nat
  BY <1>2, FS_Subset, FS_CardinalityType, ConstantsAssumption
<1>4. /\ k \in Runs /\ Kept(k, r) /\ k.target = PutAll(r.target, S, status)
      /\ k.applied = r.applied /\ k.alreadyMax = r.alreadyMax /\ k.skipped = r.skipped
      /\ k.failed = r.failed + n
  BY <1>1, <1>2, <1>3, FailedIs
<1> HIDE DEF k
<1>5. AllMarked(k)
  BY <1>4, FailedMarked
<1>6. Prepared(k) # {}
  BY <1>1, <1>4 DEF Kept, Prepared
<1>7. q = RollBack(k, status)
  BY DEF k
<1>8. RunOK(q) /\ Kept(q, k) /\ q.at = "rollback"
  BY <1>5, <1>6, <1>7, RolledOK
<1>9. QED
  BY <1>4, <1>8 DEF Kept

LEMMA WriteOK ==
    ASSUME StageInv, startup.at = "refresh", UNCHANGED startup, Write
    PROVE  StageInv'
<1> DEFINE s == Min(run.todo)
           to == Requested(s)
           next == IF run.batch THEN "commit" ELSE "after"
           failing == [Mark(run, {s}, "ApplyFailed") EXCEPT !.failed = @ + 1]
<1>1. run.at = "write" /\ UNCHANGED <<desk, drift, startup>> /\ (Succeeds \/ Fails)
  BY DEF Write
<1>2. run \in Runs /\ RunOK(run) /\ run.todo # {} /\ run.todo \subseteq Prepared(run)
  BY <1>1 DEF StageInv, RunOK, Marked
<1>3. Prepared(run) # {} /\ Prepared(run) \in SUBSET Sources
  BY <1>1, <1>2, PreparedAre DEF Trying
<1>4. s \in run.todo /\ s \in Sources
  BY <1>2, <1>3, MinIsOne, ConstantsAssumption
<1>5. to \in Mode
  <2>1. run.request[s] \in Rates
    <3>1. run.request \in Partial(Rates)
      BY <1>2 DEF Runs
    <3>2. s \in DOMAIN run.request
      BY <1>2, <1>4 DEF Prepared
    <3>3. QED
      BY <3>1, <3>2, PartialIs
  <2>2. mode[s] \in Mode
    BY <1>4 DEF StageInv, StageTypeOK
  <2>3. QED
    BY <2>1, <2>2 DEF Requested, Mode
<1>6. \/ /\ Change(s, to, run.batch)
         /\ \/ run.todo # {s} /\ run' = [run EXCEPT !.todo = @ \ {s}]
            \/ run' = [run EXCEPT !.todo = {}, !.at = next]
      \/ ChangeFails(s, to) /\ run' = RollBack(failing, "ApplyFailed")
  BY DEF Write
<1>7. PICK q : q = run'
  OBVIOUS
<1> HIDE DEF s, to
<1>8. /\ mode' \in [Sources -> Mode] /\ registry' \in [Sources -> Mode]
      /\ Apart' \subseteq Apart \cup {s}
      /\ Change(s, to, run.batch) /\ ~run.batch => Apart' = Apart \ {s}
  BY <1>4, <1>5, <1>6, ChangeIs DEF StageInv
<1>9. /\ Apart \subseteq IF run.batch THEN Prepared(run) ELSE {}
      /\ s \in Prepared(run)
  BY <1>1, <1>2, <1>4 DEF StageInv, Staged
<1>10. CASE Change(s, to, run.batch) /\ run.todo # {s} /\ run' = [run EXCEPT !.todo = @ \ {s}]
  <2>1. q \in Runs /\ q.at = "write" /\ q.todo = run.todo \ {s} /\ q.batch = run.batch
    BY <1>1, <1>2, <1>3, <1>7, <1>10 DEF Runs
  <2>2. Kept(q, run) /\ SameMarks(q, run)
    BY <1>2, <1>7, <1>10 DEF Runs, Kept, SameMarks
  <2>3. q.todo # {} /\ q.todo \subseteq Prepared(run)
    BY <1>2, <1>4, <1>10, <2>1
  <2>4. RunOK(q)
    BY <1>1, <1>2, <2>1, <2>2, <2>3, MovedOK DEF Trying
  <2>5. Prepared(run') = Prepared(run) /\ run'.at = "write" /\ run'.batch = run.batch
    BY <1>7, <2>1, <2>2 DEF Kept, Prepared
  <2>6. Staged'
    BY <1>8, <1>9, <1>10, <2>5 DEF Staged, Undoing
  <2>7. Looked'
    BY <1>1, <1>7, <2>2, <2>5, BetweenLooks, KeptAlike
  <2>8. QED
    BY <1>1, <1>7, <1>8, <2>4, <2>5, <2>6, <2>7, StageStep
<1>11. CASE Change(s, to, run.batch) /\ run' = [run EXCEPT !.todo = {}, !.at = next]
  <2>1. next \in Steps /\ next \in {"commit", "after"}
    BY DEF Steps
  <2> HIDE DEF next
  <2>2. q \in Runs /\ q.at = next
    BY <1>2, <1>7, <1>11, <2>1 DEF Runs
  <2>3. Kept(q, run) /\ SameMarks(q, run)
    BY <1>2, <1>7, <1>11 DEF Runs, Kept, SameMarks
  <2>4. RunOK(q)
    BY <1>1, <1>2, <2>1, <2>2, <2>3, MovedOK DEF Trying
  <2>5. Prepared(run') = Prepared(run) /\ run'.at = next
    BY <1>7, <2>2, <2>3 DEF Kept, Prepared
  <2>6. Staged'
    BY <1>8, <1>9, <1>11, <2>5 DEF Staged, Undoing, next
  <2>7. Looked'
    BY <1>1, <1>7, <2>1, <2>3, <2>5, BetweenLooks, KeptAlike
  <2>8. QED
    BY <1>1, <1>7, <1>8, <2>1, <2>4, <2>5, <2>6, <2>7, StageStep
<1>12. CASE ChangeFails(s, to) /\ run' = RollBack(failing, "ApplyFailed")
  <2>1. Cardinality({s}) = 1 /\ {s} \subseteq Prepared(run)
    BY <1>9, FS_Singleton
  <2>2. PICK n \in Nat : n = 1
    OBVIOUS
  <2>3. PICK status : status = "ApplyFailed"
    OBVIOUS
  <2>4. q = RollBack(Failing(run, {s}, status, n), status)
    BY <1>7, <1>12, <2>2, <2>3 DEF Failing
  <2>5. status \in {"ApplyFailed", "VerifyFailed"} /\ n = Cardinality({s}) /\ run.at \in Trying
    BY <1>1, <2>1, <2>2, <2>3 DEF Trying
  <2>6. RunOK(q) /\ Kept(q, run) /\ q.at = "rollback"
    BY <1>2, <2>1, <2>4, <2>5, FailingOK
  <2>7. Prepared(run') = Prepared(run) /\ run'.at = "rollback"
    BY <1>7, <2>6 DEF Kept, Prepared
  <2>8. Staged'
    BY <1>8, <1>9, <2>7 DEF Staged, Undoing
  <2>9. Looked'
    BY <1>1, <1>7, <2>6, BetweenLooks, KeptAlike
  <2>10. QED
    BY <1>1, <1>7, <1>8, <2>6, <2>8, <2>9, StageStep
<1>13. QED
  BY <1>6, <1>10, <1>11, <1>12

LEMMA CommitOK ==
    ASSUME StageInv, startup.at = "refresh", UNCHANGED startup, Commit
    PROVE  StageInv'
<1> DEFINE n == Cardinality(Prepared(run))
           failing == [Mark(run, Prepared(run), "ApplyFailed") EXCEPT !.failed = @ + n]
<1>1. run.at = "commit" /\ UNCHANGED <<desk, registry, drift, startup>> /\ (Succeeds \/ Fails)
  BY DEF Commit
<1>2. run \in Runs /\ RunOK(run) /\ Apart \subseteq Prepared(run)
      /\ mode \in [Sources -> Mode] /\ registry \in [Sources -> Mode]
  BY <1>1 DEF StageInv, RunOK, Staged, StageTypeOK
<1>3. PICK q : q = run'
  OBVIOUS
<1>4. \/ CommitAll /\ run' = [run EXCEPT !.at = "after"]
      \/ CommitFails /\ run' = RollBack(failing, "ApplyFailed")
  BY DEF Commit
<1>5. CASE CommitAll /\ run' = [run EXCEPT !.at = "after"]
  <2>1. q \in Runs /\ q.at = "after"
    BY <1>2, <1>3, <1>5 DEF Runs, Steps
  <2>2. Kept(q, run) /\ SameMarks(q, run)
    BY <1>2, <1>3, <1>5 DEF Runs, Kept, SameMarks
  <2>3. RunOK(q)
    BY <1>1, <1>2, <2>1, <2>2, MovedOK DEF Trying
  <2>4. Apart' = {} /\ mode' \in [Sources -> Mode] /\ registry' \in [Sources -> Mode]
    BY <1>1, <1>2, <1>5 DEF CommitAll, Apart
  <2>5. Staged'
    BY <2>4 DEF Staged
  <2>6. Looked'
    BY <1>1, <1>3, <2>1, <2>2, BetweenLooks, KeptAlike
  <2>7. QED
    BY <1>1, <1>3, <2>1, <2>3, <2>4, <2>5, <2>6, StageStep
<1>6. CASE CommitFails /\ run' = RollBack(failing, "ApplyFailed")
  <2>1. PICK status : status = "ApplyFailed"
    OBVIOUS
  <2>2. q = RollBack(Failing(run, Prepared(run), status, n), status)
    BY <1>3, <1>6, <2>1 DEF Failing
  <2> HIDE DEF failing
  <2>3. status \in {"ApplyFailed", "VerifyFailed"} /\ run.at \in Trying
    BY <1>1, <2>1 DEF Trying
  <2>4. RunOK(q) /\ Kept(q, run) /\ q.at = "rollback"
    BY <1>2, <2>2, <2>3, FailingOK
  <2>5. Prepared(run') = Prepared(run) /\ run'.at = "rollback"
    BY <1>3, <2>4 DEF Kept, Prepared
  <2>6. Apart' \subseteq Apart /\ mode' \in [Sources -> Mode] /\ registry' \in [Sources -> Mode]
    BY <1>1, <1>2, <1>6 DEF CommitFails, Apart
  <2>7. Staged'
    BY <1>2, <2>5, <2>6 DEF Staged, Undoing
  <2>8. Looked'
    BY <1>1, <1>3, <2>4, BetweenLooks, KeptAlike
  <2>9. QED
    BY <1>1, <1>3, <2>4, <2>6, <2>7, <2>8, StageStep
<1>7. QED
  BY <1>4, <1>5, <1>6

LEMMA AfterPathsOK ==
    ASSUME StageInv, startup.at = "refresh", UNCHANGED startup, AfterPaths
    PROVE  StageInv'
<1> DEFINE moved(paths) ==
               \E t \in DOMAIN run.original :
                  \/ t \notin DOMAIN paths
                  \/ paths[t].source # run.original[t].source
                  \/ paths[t].boost /\ ~run.original[t].boost
           seen(m, c, b) == [run EXCEPT !.at = "afterModes", !.mark = drift, !.matches = m,
                                        !.checked = c, !.boosted = b]
<1>1. run.at = "after" /\ UNCHANGED <<windows, drift, startup>> /\ (Succeeds \/ Fails)
  BY DEF AfterPaths, ReadPaths
<1>2. run \in Runs /\ RunOK(run) /\ drift \in 0 .. MaxDrift
  BY DEF StageInv, RunOK, StageTypeOK
<1>3. /\ run.drrOk \in BOOLEAN /\ run.boosted \in BOOLEAN /\ run.checked = run.drrOk
      /\ (run.checked /\ ~run.boosted => ~Boosted(run.original))
  BY <1>1, <1>2 DEF Runs, StageInv, Looked
<1>4. PICK m \in BOOLEAN, c \in BOOLEAN, b \in BOOLEAN :
          /\ run' = seen(m, c, b)
          /\ m => desk = run.original
          /\ c => run.drrOk
          /\ run.boosted => b
  <2>1. CASE run' = seen(run.original = desk, run.drrOk, run.boosted \/ (run.drrOk /\ moved(desk)))
    <3>1. (run.original = desk) \in BOOLEAN /\ (run.boosted \/ (run.drrOk /\ moved(desk))) \in BOOLEAN
      OBVIOUS
    <3>2. QED
      BY <1>3, <2>1, <3>1
  <2>2. CASE run' = seen(FALSE, FALSE, run.boosted \/ (run.drrOk /\ moved(<<>>)))
    <3>1. (run.boosted \/ (run.drrOk /\ moved(<<>>))) \in BOOLEAN
      OBVIOUS
    <3>2. QED
      BY <1>3, <2>2, <3>1
  <2>3. \/ run' = seen(run.original = desk, run.drrOk, run.boosted \/ (run.drrOk /\ moved(desk)))
        \/ run' = seen(FALSE, FALSE, run.boosted \/ (run.drrOk /\ moved(<<>>)))
    BY <1>3 DEF AfterPaths, ReadPaths, SameTopology
  <2>4. QED
    BY <2>1, <2>2, <2>3
<1>5. PICK q : q = run'
  OBVIOUS
<1>6. q = seen(m, c, b)
  BY <1>4, <1>5
<1>7. q \in Runs
  <2>1. run \in Runs /\ drift \in 0 .. MaxDrift /\ "afterModes" \in Steps
    BY <1>2 DEF Steps
  <2>2. QED
    BY <1>6, <2>1 DEF Runs
<1>8. /\ q.at = "afterModes" /\ q.mark = drift /\ q.matches = m /\ q.checked = c /\ q.boosted = b
      /\ q.drrOk = run.drrOk /\ q.original = run.original
  BY <1>2, <1>6 DEF Runs
<1>9. SameMarks(q, run)
  BY <1>2, <1>6 DEF Runs, SameMarks
<1> HIDE DEF seen
<1>10. RunOK(q)
  BY <1>1, <1>2, <1>7, <1>8, <1>9, MovedOK DEF Trying
<1>11. Apart' = Apart /\ Apart = {}
  BY <1>1, SameApart DEF StageInv, Staged, Undoing
<1>12. Staged'
  BY <1>11 DEF Staged
<1>13. /\ drift' = drift /\ desk' = desk /\ drift <= drift
  BY <1>1, <1>2 DEF windows
<1>14. /\ run'.at = "afterModes" /\ run'.mark = drift /\ run'.original = run.original
       /\ run'.matches => desk = run.original
       /\ run'.checked => run'.drrOk
       /\ run'.checked /\ ~run'.boosted => ~Boosted(run'.original)
  BY <1>3, <1>4, <1>5, <1>8
<1>15. Looked'
  BY <1>13, <1>14 DEF Looked, Choosing
<1>16. QED
  BY <1>1, <1>5, <1>10, <1>12, <1>14, <1>15, ReadStep

\* Every prepared device is verified.
LEMMA AppliedOK ==
    ASSUME NEW r, RunOK(r), r.at = "afterModes", NEW S, S = Prepared(r),
           NEW n, n = Cardinality(S), NEW status, status = "Applied",
           NEW k \in Runs, k.target = PutAll(r.target, S, status), Kept(k, r),
           k.applied = n, k.alreadyMax = r.alreadyMax, k.skipped = r.skipped, k.failed = r.failed,
           NEW outcome \in {"Partial", "Applied"}, NEW q, q = Finish(k, outcome)
    PROVE  RunOK(q) /\ Kept(q, r) /\ q.at = "done" /\ With(q, {"Applied"}) = Prepared(r)
<1>1. /\ r \in Runs /\ Counted(r)
      /\ Prepared(r) # {} /\ Prepared(r) \subseteq DOMAIN r.modes
      /\ DOMAIN r.modes \subseteq DOMAIN r.target /\ DOMAIN r.target \subseteq Sources
      /\ r.original # <<>> => DOMAIN r.target = Groups(r.original)
      /\ With(r, {"Applied"}) = {} /\ With(r, {"Unavailable"}) = Prepared(r)
  BY PreparedAre DEF Trying
<1>2. S \in SUBSET Sources /\ S \subseteq DOMAIN r.target /\ \A s \in S : r.target[s] = "Unavailable"
  BY <1>1 DEF With
<1>3. status \in Statuses /\ outcome \in Statuses
  BY DEF Statuses
<1>4. Counted(k)
  <2>1. r.applied = 0
    BY <1>1, FS_EmptySet DEF Counted
  <2>2. n \in Nat /\ r.alreadyMax \in Nat /\ r.skipped \in Nat /\ r.failed \in Nat
    BY <1>1 DEF Runs
  <2>3. /\ k.applied = r.applied + (IF status = "Applied" THEN Cardinality(S) ELSE 0)
        /\ k.alreadyMax = r.alreadyMax + (IF status = "AlreadyMax" THEN Cardinality(S) ELSE 0)
        /\ k.skipped = r.skipped + (IF status = "SkippedUnsafeTopology" THEN Cardinality(S) ELSE 0)
        /\ k.failed = r.failed + (IF status \in Failures THEN Cardinality(S) ELSE 0)
    BY <2>1, <2>2 DEF Failures
  <2>4. \A s \in S \cap DOMAIN r.target : r.target[s] = "Unavailable"
    BY <1>2
  <2>5. QED
    BY <1>1, <1>2, <1>3, <2>3, <2>4, CountedMarked
<1>5. /\ DOMAIN k.target = DOMAIN r.target
      /\ \A s \in S : k.target[s] = "Applied"
      /\ \A s \in DOMAIN r.target \ S : k.target[s] = r.target[s]
  BY <1>2 DEF PutAll
<1>6. With(k, {"Applied"}) = S
  <2>1. \A s \in DOMAIN r.target \ S : r.target[s] # "Applied"
    BY <1>1 DEF With
  <2>2. QED
    BY <1>2, <1>5, <2>1 DEF With
<1>7. With(k, {"Unavailable"}) = {}
  <2>1. \A s \in DOMAIN r.target \ S : r.target[s] # "Unavailable"
    BY <1>1 DEF With
  <2>2. QED
    BY <1>2, <1>5, <2>1 DEF With
<1>8. /\ q \in Runs /\ Kept(q, k) /\ q.at = "done" /\ q.target = k.target /\ Counted(q)
      /\ With(q, {"Applied"}) = S /\ With(q, {"Unavailable"}) = {}
  BY <1>3, <1>4, <1>6, <1>7, FinishIs
<1>9. Kept(q, r)
  BY <1>8 DEF Kept
<1>10. Prepared(q) = S /\ q.modes = r.modes /\ q.original = r.original
  BY <1>9 DEF Kept, Prepared
<1>11. Marked(q)
  BY <1>1, <1>5, <1>8, <1>10 DEF Marked, Trying, Undoing
<1>12. QED
  BY <1>1, <1>8, <1>9, <1>10, <1>11 DEF RunOK

LEMMA AfterModesOK ==
    ASSUME StageInv, startup.at = "refresh", UNCHANGED startup, AfterModes
    PROVE  StageInv'
<1> DEFINE wanted(s) == IF s \in Prepared(run) THEN [run.modes[s] EXCEPT !.hz = run.request[s]]
                        ELSE run.modes[s]
           n == Cardinality(Prepared(run))
           good == [Mark(run, Prepared(run), "Applied") EXCEPT !.applied = n]
           bad == [Mark(run, Prepared(run), "VerifyFailed") EXCEPT !.failed = @ + n]
           outcome == IF run.failed + run.skipped > 0 THEN "Partial" ELSE "Applied"
<1>1. run.at = "afterModes" /\ UNCHANGED <<windows, drift, startup>> /\ (Succeeds \/ Fails)
  BY DEF AfterModes, Readable
<1>2. /\ run \in Runs /\ RunOK(run) /\ Prepared(run) \subseteq Sources
      /\ Prepared(run) \subseteq DOMAIN run.modes
  BY <1>1, PreparedAre DEF StageInv, RunOK, Trying
<1>3. PICK q : q = run'
  OBVIOUS
<1>4. \/ /\ run' = Finish(good, outcome) /\ run.matches
         /\ \A s \in DOMAIN run.modes : mode[s] = wanted(s)
      \/ run' = RollBack(bad, "VerifyFailed")
  BY DEF AfterModes
<1>5. Apart' = Apart /\ Apart = {}
  BY <1>1, SameApart DEF StageInv, Staged, Undoing
<1>6. drift' = drift /\ desk' = desk /\ mode' = mode
  BY <1>1 DEF windows
<1>7. CASE run' = RollBack(bad, "VerifyFailed")
  <2>1. PICK status : status = "VerifyFailed"
    OBVIOUS
  <2>2. q = RollBack(Failing(run, Prepared(run), status, n), status)
    BY <1>3, <1>7, <2>1 DEF Failing
  <2> HIDE DEF bad
  <2>3. status \in {"ApplyFailed", "VerifyFailed"} /\ run.at \in Trying
    BY <1>1, <2>1 DEF Trying
  <2>4. RunOK(q) /\ Kept(q, run) /\ q.at = "rollback"
    BY <1>2, <2>2, <2>3, FailingOK
  <2>5. Staged'
    BY <1>5 DEF Staged
  <2>6. Looked'
    BY <1>1, <1>3, <2>4, BetweenLooks, KeptAlike
  <2>7. QED
    BY <1>1, <1>3, <2>4, <2>5, <2>6, ReadStep
<1>8. CASE /\ run' = Finish(good, outcome) /\ run.matches
           /\ \A s \in DOMAIN run.modes : mode[s] = wanted(s)
  <2>1. PICK status \in Statuses : status = "Applied"
    BY DEF Statuses
  <2> DEFINE m == Mark(run, Prepared(run), status)
             k == [m EXCEPT !.applied = n]
  <2>2. n \in Nat
    BY <1>2, FS_Subset, FS_CardinalityType, ConstantsAssumption
  <2>3. /\ m \in Runs /\ Kept(m, run) /\ m.target = PutAll(run.target, Prepared(run), status)
        /\ m.alreadyMax = run.alreadyMax /\ m.skipped = run.skipped /\ m.failed = run.failed
    BY <1>2, MarkIs
  <2>4. q = Finish(k, outcome)
    BY <1>3, <1>8, <2>1
  <2> HIDE DEF m, n
  <2>5. k \in Runs
    BY <2>2, <2>3 DEF Runs
  <2>6. /\ k.target = m.target /\ k.applied = n /\ k.alreadyMax = m.alreadyMax
        /\ k.skipped = m.skipped /\ k.failed = m.failed
    BY <2>3 DEF Runs
  <2>7. Kept(k, m)
    BY <2>3 DEF Runs, Kept
  <2>8. Kept(k, run) /\ outcome \in {"Partial", "Applied"}
    BY <2>3, <2>7 DEF Kept
  <2> HIDE DEF k, outcome
  <2>9. RunOK(q) /\ Kept(q, run) /\ q.at = "done" /\ With(q, {"Applied"}) = Prepared(run)
    BY <1>1, <1>2, <2>1, <2>3, <2>4, <2>5, <2>6, <2>8, AppliedOK DEF n
  <2>10. DOMAIN run.modes \subseteq DOMAIN q.target
    BY <2>9 DEF RunOK, Marked, Kept
  <2>11. \A s \in DOMAIN run.modes :
            mode[s] = IF q.target[s] = "Applied" THEN [run.modes[s] EXCEPT !.hz = run.request[s]]
                      ELSE run.modes[s]
    <3> SUFFICES ASSUME NEW s \in DOMAIN run.modes
                 PROVE  mode[s] = IF q.target[s] = "Applied"
                                  THEN [run.modes[s] EXCEPT !.hz = run.request[s]]
                                  ELSE run.modes[s]
      OBVIOUS
    <3>1. q.target[s] = "Applied" <=> s \in Prepared(run)
      BY <2>9, <2>10 DEF With
    <3>2. mode[s] = wanted(s)
      BY <1>8
    <3>3. QED
      BY <3>1, <3>2
  <2>12. Staged'
    BY <1>5 DEF Staged
  <2>13. /\ run'.original = run.original /\ run'.modes = run.modes /\ run'.request = run.request
         /\ run'.mark = run.mark /\ run'.drrOk = run.drrOk /\ run'.checked = run.checked
         /\ run'.boosted = run.boosted /\ run'.at = "done"
    BY <1>3, <2>9 DEF Kept
  <2>14. /\ drift <= run.mark
         /\ drift = run.mark => desk = run.original
         /\ run.checked => run.drrOk
         /\ run.checked /\ ~run.boosted => ~Boosted(run.original)
    BY <1>1, <1>8 DEF StageInv, Looked
  <2>15. Looked'
    <3>1. \A s \in DOMAIN run'.modes :
            mode'[s] = IF run'.target[s] = "Applied"
                       THEN [run'.modes[s] EXCEPT !.hz = run'.request[s]]
                       ELSE run'.modes[s]
      BY <1>3, <1>6, <2>11, <2>13
    <3>2. QED
      BY <1>5, <1>6, <2>13, <2>14, <3>1 DEF Looked, Choosing
  <2>16. QED
    BY <1>1, <1>3, <2>9, <2>12, <2>15, ReadStep
<1>9. QED
  BY <1>4, <1>7, <1>8

-----------------------------------------------------------------------------
(* RestoreChanges.                                                         *)

\* The run ends after a rollback: one that failed is known to have failed.
LEMMA RolledBackOK ==
    ASSUME NEW r, RunOK(r), r.at \in Undoing, NEW q, q = RolledBack(r)
    PROVE  /\ RunOK(q) /\ Kept(q, r) /\ q.at = "done" /\ With(q, {"Applied"}) = {}
           /\ DOMAIN q.modes \subseteq DOMAIN q.target
           /\ ~r.matches => \/ q.status = "ApplyFailed" /\ ~q.matches
                            \/ q.status = "Partial" /\ q.applied = 0 /\ q.request # <<>>
<1> DEFINE status == IF r.status = "VerifyFailed" /\ ~r.matches THEN "Partial" ELSE r.status
<1>1. /\ r \in Runs /\ Counted(r) /\ Prepared(r) # {} /\ Prepared(r) \subseteq DOMAIN r.modes
      /\ DOMAIN r.modes \subseteq DOMAIN r.target
      /\ r.original # <<>> => DOMAIN r.target = Groups(r.original)
      /\ With(r, {"Applied"}) = {}
  BY PreparedAre
<1>2. r.status \in {"ApplyFailed", "VerifyFailed"} /\ With(r, {"Unavailable"}) = {}
  BY DEF RunOK, Marked, Undoing, Trying
<1>3. status \in Statuses /\ status \in {"ApplyFailed", "VerifyFailed", "Partial"}
      /\ (~r.matches => status \in {"ApplyFailed", "Partial"})
  BY <1>2 DEF Statuses
<1>4. q = Finish(r, status)
  BY DEF RolledBack
<1> HIDE DEF status
<1>5. /\ q \in Runs /\ Kept(q, r) /\ q.at = "done" /\ q.status = status
      /\ q.target = r.target /\ q.matches = r.matches /\ q.applied = r.applied /\ Counted(q)
      /\ With(q, {"Applied"}) = {} /\ With(q, {"Unavailable"}) = {}
  BY <1>1, <1>2, <1>3, <1>4, FinishIs
<1>6. Prepared(q) = Prepared(r) /\ q.modes = r.modes /\ q.original = r.original
      /\ q.request = r.request
  BY <1>5 DEF Kept, Prepared
<1>7. Marked(q)
  BY <1>1, <1>5, <1>6 DEF Marked, Trying, Undoing
<1>8. RunOK(q)
  BY <1>1, <1>5, <1>6, <1>7 DEF RunOK
<1>9. q.applied = 0
  BY <1>1, <1>5, FS_EmptySet DEF Counted
<1>10. q.request # <<>>
  BY <1>1, <1>6 DEF Prepared
<1>11. QED
  BY <1>1, <1>3, <1>5, <1>6, <1>8, <1>9, <1>10

\* A rollback that failed ends the run.
LEMMA LostOK ==
    ASSUME StageInv, startup.at = "refresh", UNCHANGED startup,
           UNCHANGED <<windows, drift>>, Succeeds \/ Fails,
           NEW r, RunOK(r), r.at \in Undoing, run.at \in Undoing, ~r.matches, Kept(r, run), run' = RolledBack(r)
    PROVE  StageInv'
<1>1. PICK q : q = run'
  OBVIOUS
<1>2. /\ RunOK(q) /\ Kept(q, r) /\ q.at = "done"
      /\ \/ q.status = "ApplyFailed" /\ ~q.matches
         \/ q.status = "Partial" /\ q.applied = 0 /\ q.request # <<>>
  BY <1>1, RolledBackOK
<1>3. Alike(run', run)
  BY <1>1, <1>2 DEF Kept, Alike
<1>4. RollbackFailed'
  BY <1>1, <1>2 DEF RollbackFailed
<1>5. Staged'
  BY <1>1, <1>2 DEF Staged, Undoing
<1>6. /\ drift' = drift /\ drift <= run.mark
      /\ run.checked => run.drrOk
      /\ run.checked /\ ~run.boosted => ~Boosted(run.original)
  BY DEF StageInv, Looked, Undoing
<1>7. run'.at = "done"
  BY <1>1, <1>2
<1>8. Looked'
  BY <1>3, <1>4, <1>6, <1>7 DEF Looked, Alike, Choosing
<1>9. QED
  BY <1>1, <1>2, <1>5, <1>7, <1>8, ReadStep

LEMMA RollbackPathsOK ==
    ASSUME StageInv, startup.at = "refresh", UNCHANGED startup, RollbackPaths
    PROVE  StageInv'
<1>1. run.at = "rollback" /\ UNCHANGED <<windows, drift, startup>> /\ (Succeeds \/ Fails)
  BY DEF RollbackPaths, ReadPaths
<1>2. run \in Runs /\ RunOK(run) /\ desk \in Desks /\ run.at \in Undoing
  BY <1>1 DEF StageInv, RunOK, StageTypeOK, Undoing
<1>3. Apart' = Apart /\ Apart \subseteq Prepared(run)
  BY <1>1, SameApart DEF StageInv, Staged
<1>4. CASE run' = [run EXCEPT !.at = "rollbackModes", !.recent = desk]
  <2>1. PICK q : q = run'
    OBVIOUS
  <2>2. q \in Runs /\ q.at = "rollbackModes"
    BY <1>2, <1>4, <2>1 DEF Runs, Steps
  <2>3. Kept(q, run) /\ SameMarks(q, run)
    BY <1>2, <1>4, <2>1 DEF Runs, Kept, SameMarks
  <2>4. RunOK(q)
    BY <1>2, <2>2, <2>3, MovedOK DEF Undoing
  <2>5. Prepared(run') = Prepared(run) /\ run'.at = "rollbackModes"
    BY <2>1, <2>2, <2>3 DEF Kept, Prepared
  <2>6. Staged'
    BY <1>3, <2>5 DEF Staged, Undoing
  <2>7. Looked'
    BY <1>1, <1>2, <2>1, <2>3, <2>5, BetweenLooks, KeptAlike
  <2>8. QED
    BY <1>1, <2>1, <2>4, <2>5, <2>6, <2>7, ReadStep
<1>5. CASE run' = RolledBack([run EXCEPT !.matches = FALSE])
  <2> DEFINE r == [run EXCEPT !.matches = FALSE]
  <2>1. r \in Runs /\ r.at = run.at /\ ~r.matches
    BY <1>2 DEF Runs
  <2>2. Kept(r, run) /\ SameMarks(r, run)
    BY <1>2 DEF Runs, Kept, SameMarks
  <2>3. run' = RolledBack(r)
    BY <1>5
  <2> HIDE DEF r
  <2>4. RunOK(r)
    BY <1>1, <1>2, <2>1, <2>2, MovedOK
  <2>5. QED
    BY <1>1, <1>2, <2>1, <2>2, <2>3, <2>4, LostOK
<1>6. QED
  BY <1>4, <1>5 DEF RollbackPaths, ReadPaths

LEMMA RollbackModesOK ==
    ASSUME StageInv, startup.at = "refresh", UNCHANGED startup, RollbackModes
    PROVE  StageInv'
<1>1. run.at = "rollbackModes" /\ UNCHANGED <<windows, drift, startup>>
  BY DEF RollbackModes
<1>2. run \in Runs /\ RunOK(run) /\ run.at \in Undoing
  BY <1>1 DEF StageInv, RunOK, Undoing
<1>3. Apart' = Apart /\ Apart \subseteq Prepared(run)
  BY <1>1, SameApart DEF StageInv, Staged
<1>4. PICK readable \in SUBSET Sources :
          /\ Readable(DOMAIN run.modes, readable)
          /\ LET restore == {s \in ToRestore(readable) : SameDisplay(s)}
             IN  run' = [run EXCEPT
                            !.at = IF restore = {} THEN "restored" ELSE "restore",
                            !.todo = restore,
                            !.batch = Cardinality(restore) > 1, !.staged = FALSE,
                            !.matches = /\ readable = DOMAIN run.modes
                                        /\ restore = ToRestore(readable)]
  BY DEF RollbackModes
<1>5. (Succeeds \/ Fails) /\ readable \subseteq DOMAIN run.modes
  BY <1>4 DEF Readable
<1> DEFINE restore == {s \in ToRestore(readable) : SameDisplay(s)}
           at == IF restore = {} THEN "restored" ELSE "restore"
           batch == Cardinality(restore) > 1
           matches == readable = DOMAIN run.modes /\ restore = ToRestore(readable)
<1>6. run' = [run EXCEPT !.at = at, !.todo = restore, !.batch = batch, !.staged = FALSE,
                         !.matches = matches]
  BY <1>4
<1>7. /\ at \in Steps /\ at \in {"restored", "restore"} /\ (at = "restore" => restore # {})
      /\ batch \in BOOLEAN /\ matches \in BOOLEAN
      /\ restore \in SUBSET Sources /\ restore \subseteq DOMAIN run.modes
  BY <1>5 DEF Steps, ToRestore
<1>8. matches => restore # {} /\ Apart \subseteq restore
  <2>1. Prepared(run) # {} /\ Prepared(run) \subseteq DOMAIN run.modes
    BY <1>2, PreparedAre
  <2>2. readable = DOMAIN run.modes => Prepared(run) \subseteq ToRestore(readable)
    BY <2>1 DEF ToRestore
  <2>3. QED
    BY <1>3, <2>1, <2>2
<1>9. matches => at = "restore"
  BY <1>8
<1>10. PICK q : q = run'
  OBVIOUS
<1> HIDE DEF restore, at, batch, matches
<1>11. q \in Runs
  BY <1>2, <1>6, <1>7, <1>10 DEF Runs
<1>12. q.at = at /\ q.todo = restore /\ q.matches = matches
  BY <1>2, <1>6, <1>10 DEF Runs
<1>13. Kept(q, run) /\ SameMarks(q, run)
  BY <1>2, <1>6, <1>10 DEF Runs, Kept, SameMarks
<1>14. RunOK(q)
  BY <1>2, <1>7, <1>11, <1>12, <1>13, MovedOK DEF Undoing
<1>15. run'.at = at /\ run'.todo = restore /\ run'.matches = matches
  BY <1>10, <1>12
<1>16. Staged'
  BY <1>3, <1>7, <1>8, <1>9, <1>15 DEF Staged, Undoing
<1>17. Looked'
  BY <1>1, <1>2, <1>7, <1>10, <1>13, <1>15, BetweenLooks, KeptAlike
<1>18. QED
  BY <1>1, <1>5, <1>7, <1>10, <1>14, <1>15, <1>16, <1>17, ReadStep

LEMMA RestoreOK ==
    ASSUME StageInv, startup.at = "refresh", UNCHANGED startup, Restore
    PROVE  StageInv'
<1> DEFINE s == Min(run.todo)
           to == run.modes[s]
           next(left, ok) ==
               [run EXCEPT !.todo = @ \ {s}, !.staged = left,
                           !.matches = @ /\ ok,
                           !.at = IF run.todo # {s} THEN @
                                  ELSE IF left THEN "rollbackCommit" ELSE "restored"]
<1>1. run.at = "restore" /\ UNCHANGED <<desk, drift, startup>> /\ (Succeeds \/ Fails)
  BY DEF Restore
<1>2. run \in Runs /\ RunOK(run) /\ run.todo # {} /\ run.todo \subseteq DOMAIN run.modes
      /\ run.at \in Undoing
  BY <1>1 DEF StageInv, RunOK, Marked, Undoing
<1>3. DOMAIN run.modes \subseteq Sources /\ \A d \in DOMAIN run.modes : run.modes[d] \in Mode
  <2>1. run.modes \in Partial(Mode)
    BY <1>2 DEF Runs
  <2>2. QED
    BY <2>1, PartialIs
<1>4. s \in run.todo /\ s \in Sources /\ to \in Mode
  <2>1. run.todo \subseteq Nat
    BY <1>2, <1>3, ConstantsAssumption
  <2>2. s \in run.todo
    BY <1>2, <2>1, MinIsOne
  <2>3. QED
    BY <1>2, <1>3, <2>2
<1>5. run.staged \in BOOLEAN /\ run.batch \in BOOLEAN /\ run.matches \in BOOLEAN
  BY <1>2 DEF Runs
<1>6. \/ Change(s, to, run.batch) /\ run' = next(run.staged \/ run.batch, TRUE)
      \/ ChangeFails(s, to) /\ run' = next(run.staged, FALSE)
  BY DEF Restore
<1> HIDE DEF s, to
<1>7. PICK left \in BOOLEAN, ok \in BOOLEAN :
          /\ run' = next(left, ok)
          /\ ok => Change(s, to, run.batch) /\ left = (run.staged \/ run.batch)
  <2>1. (run.staged \/ run.batch) \in BOOLEAN
    OBVIOUS
  <2>2. QED
    BY <1>5, <1>6, <2>1
<1>8. /\ mode' \in [Sources -> Mode] /\ registry' \in [Sources -> Mode]
      /\ Change(s, to, run.batch) /\ ~run.batch => Apart' = Apart \ {s}
  BY <1>4, <1>6, ChangeIs DEF StageInv
<1> DEFINE at == IF run.todo # {s} THEN run.at ELSE IF left THEN "rollbackCommit" ELSE "restored"
           matches == run.matches /\ ok
           todo == run.todo \ {s}
<1>9. run' = [run EXCEPT !.todo = todo, !.staged = left, !.matches = matches, !.at = at]
  BY <1>7
<1>10. /\ at \in Steps /\ at \in {"restore", "rollbackCommit", "restored"} /\ matches \in BOOLEAN
       /\ todo \in SUBSET Sources /\ todo \subseteq DOMAIN run.modes
       /\ at = "restore" => todo # {}
       /\ at = "restored" => todo = {} /\ ~left
  BY <1>1, <1>2, <1>3, <1>4 DEF Steps
<1>11. PICK q : q = run'
  OBVIOUS
<1> HIDE DEF at, matches, todo, next
<1>12. q \in Runs
  BY <1>2, <1>9, <1>10, <1>11 DEF Runs
<1>13. q.at = at /\ q.todo = todo /\ q.matches = matches /\ q.staged = left
  BY <1>2, <1>9, <1>11 DEF Runs
<1>14. Kept(q, run) /\ SameMarks(q, run)
  BY <1>2, <1>9, <1>11 DEF Runs, Kept, SameMarks
<1>15. RunOK(q)
  BY <1>2, <1>10, <1>12, <1>13, <1>14, MovedOK DEF Undoing
<1>16. run'.at = at /\ run'.todo = todo /\ run'.matches = matches /\ run'.staged = left
  BY <1>11, <1>13
<1>17. matches /\ ~left => Apart' \subseteq todo
  <2> SUFFICES ASSUME matches, ~left PROVE Apart' \subseteq todo
    OBVIOUS
  <2>1. ok /\ run.matches
    BY DEF matches
  <2>2. Change(s, to, run.batch) /\ ~run.batch /\ ~run.staged
    BY <1>5, <1>7, <2>1
  <2>3. Apart \subseteq run.todo
    BY <1>1, <2>1, <2>2 DEF StageInv, Staged
  <2>4. QED
    BY <1>8, <2>2, <2>3 DEF todo
<1>18. Staged'
  BY <1>10, <1>16, <1>17 DEF Staged, Undoing
<1>19. Looked'
  BY <1>1, <1>2, <1>10, <1>11, <1>14, <1>16, BetweenLooks, KeptAlike
<1>20. QED
  BY <1>1, <1>8, <1>10, <1>11, <1>15, <1>16, <1>18, <1>19, StageStep

LEMMA RollbackCommitOK ==
    ASSUME StageInv, startup.at = "refresh", UNCHANGED startup, RollbackCommit
    PROVE  StageInv'
<1>1. run.at = "rollbackCommit" /\ UNCHANGED <<desk, registry, drift, startup>> /\ (Succeeds \/ Fails)
  BY DEF RollbackCommit
<1>2. /\ run \in Runs /\ RunOK(run) /\ run.at \in Undoing
      /\ mode \in [Sources -> Mode] /\ registry \in [Sources -> Mode]
  BY <1>1 DEF StageInv, RunOK, StageTypeOK, Undoing
<1>3. run.matches \in BOOLEAN
  BY <1>2 DEF Runs
<1>4. PICK matches \in BOOLEAN :
          /\ run' = [run EXCEPT !.at = "restored", !.matches = matches]
          /\ (CommitAll \/ (CommitFails /\ ~matches))
  <2>1. CASE CommitAll /\ run' = [run EXCEPT !.at = "restored"]
    <3>1. run' = [run EXCEPT !.at = "restored", !.matches = run.matches]
      BY <1>2, <2>1 DEF Runs
    <3>2. QED
      BY <1>3, <2>1, <3>1
  <2>2. CASE CommitFails /\ run' = [run EXCEPT !.at = "restored", !.matches = FALSE]
    BY <2>2
  <2>3. QED
    BY <2>1, <2>2 DEF RollbackCommit
<1>5. /\ mode' \in [Sources -> Mode] /\ registry' \in [Sources -> Mode]
      /\ matches => Apart' = {}
  BY <1>1, <1>2, <1>4 DEF CommitAll, CommitFails, Apart
<1>6. PICK q : q = run'
  OBVIOUS
<1>7. q \in Runs /\ q.at = "restored" /\ q.matches = matches
  BY <1>2, <1>4, <1>6 DEF Runs, Steps
<1>8. Kept(q, run) /\ SameMarks(q, run)
  BY <1>2, <1>4, <1>6 DEF Runs, Kept, SameMarks
<1>9. RunOK(q)
  BY <1>2, <1>7, <1>8, MovedOK DEF Undoing
<1>10. run'.at = "restored" /\ run'.matches = matches
  BY <1>6, <1>7
<1>11. Staged'
  BY <1>5, <1>10 DEF Staged, Undoing
<1>12. Looked'
  BY <1>1, <1>2, <1>6, <1>8, <1>10, BetweenLooks, KeptAlike
<1>13. QED
  BY <1>1, <1>5, <1>6, <1>9, <1>10, <1>11, <1>12, StageStep

LEMMA RestoredPathsOK ==
    ASSUME StageInv, startup.at = "refresh", UNCHANGED startup, RestoredPaths
    PROVE  StageInv'
<1>1. run.at = "restored" /\ UNCHANGED <<windows, drift, startup>> /\ (Succeeds \/ Fails)
  BY DEF RestoredPaths, ReadPaths
<1>2. run \in Runs /\ RunOK(run) /\ run.at \in Undoing /\ drift \in 0 .. MaxDrift
  BY <1>1 DEF StageInv, RunOK, StageTypeOK, Undoing
<1>3. run.matches \in BOOLEAN
  BY <1>2 DEF Runs
<1>4. Apart' = Apart /\ (run.matches => Apart = {})
  BY <1>1, SameApart DEF StageInv, Staged
<1>5. PICK matches \in BOOLEAN :
          /\ run' = [run EXCEPT !.at = "restoredModes", !.mark = drift, !.matches = matches]
          /\ matches => run.matches /\ run.original = desk
  <2>1. CASE run' = [run EXCEPT !.at = "restoredModes", !.mark = drift,
                                !.matches = @ /\ SameTopology(run.original, desk)]
    BY <1>3, <2>1 DEF SameTopology
  <2>2. CASE run' = [run EXCEPT !.at = "restoredModes", !.mark = drift, !.matches = FALSE]
    BY <2>2
  <2>3. QED
    BY <2>1, <2>2 DEF RestoredPaths, ReadPaths
<1>6. PICK q : q = run'
  OBVIOUS
<1>7. q \in Runs
  BY <1>2, <1>5, <1>6 DEF Runs, Steps
<1>8. /\ q.at = "restoredModes" /\ q.mark = drift /\ q.matches = matches
      /\ q.checked = run.checked /\ q.drrOk = run.drrOk /\ q.boosted = run.boosted
  BY <1>2, <1>5, <1>6 DEF Runs
<1>9. SameMarks(q, run)
  BY <1>2, <1>5, <1>6 DEF Runs, SameMarks
<1>10. RunOK(q)
  BY <1>2, <1>7, <1>8, <1>9, MovedOK DEF Undoing
<1>11. /\ run'.at = "restoredModes" /\ run'.mark = drift /\ run'.matches = matches
       /\ run'.checked = run.checked /\ run'.drrOk = run.drrOk /\ run'.boosted = run.boosted
       /\ run'.original = run.original
  BY <1>6, <1>8, <1>9 DEF SameMarks
<1>12. Staged'
  BY <1>4, <1>5, <1>11 DEF Staged, Undoing
<1>13. Looked'
  <2>1. drift' = drift /\ desk' = desk /\ drift <= drift
    BY <1>1, <1>2 DEF windows
  <2>2. (run.checked => run.drrOk) /\ (run.checked /\ ~run.boosted => ~Boosted(run.original))
    BY DEF StageInv, Looked
  <2>3. QED
    BY <1>5, <1>11, <2>1, <2>2 DEF Looked, Choosing
<1>14. QED
  BY <1>1, <1>6, <1>10, <1>11, <1>12, <1>13, ReadStep

LEMMA RestoredModesOK ==
    ASSUME StageInv, startup.at = "refresh", UNCHANGED startup, RestoredModes
    PROVE  StageInv'
<1>1. run.at = "restoredModes" /\ UNCHANGED <<windows, drift, startup>> /\ (Succeeds \/ Fails)
  BY DEF RestoredModes, Readable
<1>2. run \in Runs /\ RunOK(run) /\ run.at \in Undoing
  BY <1>1 DEF StageInv, RunOK, Undoing
<1>3. run.matches \in BOOLEAN
  BY <1>2 DEF Runs
<1>4. PICK matches \in BOOLEAN :
          /\ run' = RolledBack([run EXCEPT !.matches = matches])
          /\ matches => run.matches /\ \A s \in DOMAIN run.modes : mode[s] = run.modes[s]
  <2>1. PICK readable \in SUBSET Sources :
          run' = RolledBack([run EXCEPT !.matches =
                    @ /\ \A s \in DOMAIN run.modes : s \in readable /\ mode[s] = run.modes[s]])
    BY DEF RestoredModes
  <2> DEFINE good == run.matches /\ \A s \in DOMAIN run.modes : s \in readable /\ mode[s] = run.modes[s]
  <2>2. good \in BOOLEAN
    OBVIOUS
  <2>3. run' = RolledBack([run EXCEPT !.matches = good])
    BY <2>1
  <2>4. good => run.matches /\ \A s \in DOMAIN run.modes : mode[s] = run.modes[s]
    OBVIOUS
  <2> HIDE DEF good
  <2>5. QED
    BY <2>2, <2>3, <2>4
<1> DEFINE r == [run EXCEPT !.matches = matches]
<1>5. r \in Runs /\ r.at = run.at /\ r.matches = matches
  BY <1>2 DEF Runs
<1>6. Kept(r, run) /\ SameMarks(r, run)
  BY <1>2 DEF Runs, Kept, SameMarks
<1>7. run' = RolledBack(r)
  BY <1>4
<1> HIDE DEF r
<1>8. RunOK(r)
  BY <1>1, <1>2, <1>5, <1>6, MovedOK
<1>9. CASE ~matches
  BY <1>1, <1>2, <1>5, <1>6, <1>7, <1>8, <1>9, LostOK
<1>10. CASE matches
  <2>1. PICK q : q = run'
    OBVIOUS
  <2>2. /\ RunOK(q) /\ Kept(q, r) /\ q.at = "done" /\ With(q, {"Applied"}) = {}
        /\ DOMAIN q.modes \subseteq DOMAIN q.target
    BY <1>2, <1>5, <1>7, <1>8, <2>1, RolledBackOK
  <2>3. Alike(run', run) /\ run'.modes = run.modes /\ run'.at = "done"
    BY <1>6, <2>1, <2>2 DEF Kept, Alike
  <2>4. \A s \in DOMAIN run'.modes : run'.target[s] # "Applied"
    BY <2>1, <2>2 DEF With
  <2>5. /\ run.matches /\ \A s \in DOMAIN run.modes : mode[s] = run.modes[s]
    BY <1>4, <1>10
  <2>6. Apart' = {}
    BY <1>1, <2>5, SameApart DEF StageInv, Staged
  <2>7. Staged'
    BY <2>6 DEF Staged
  <2>8. /\ drift <= run.mark
        /\ drift = run.mark => desk = run.original
        /\ run.checked => run.drrOk
        /\ run.checked /\ ~run.boosted => ~Boosted(run.original)
    BY <1>1, <2>5 DEF StageInv, Looked
  <2>9. drift' = drift /\ desk' = desk /\ mode' = mode
    BY <1>1 DEF windows
  <2>10. Looked'
    BY <2>3, <2>4, <2>5, <2>6, <2>8, <2>9 DEF Looked, Alike, Choosing
  <2>11. QED
    BY <1>1, <2>1, <2>2, <2>3, <2>7, <2>10, ReadStep
<1>11. QED
  BY <1>9, <1>10

-----------------------------------------------------------------------------
(* The other stages, and the others.                                       *)

LEMMA RefreshStepOK ==
    ASSUME StageInv, startup.at = "refresh", UNCHANGED startup, RefreshStep
    PROVE  StageInv'
BY ReadOriginalOK, PrepareOK, FreshPathsOK, FreshModesOK, RetestOK, WriteOK, CommitOK, AfterPathsOK,
   AfterModesOK, RollbackPathsOK, RollbackModesOK, RestoreOK, RollbackCommitOK, RestoredPathsOK,
   RestoredModesOK DEF RefreshStep

\* A step that leaves the desktop and the run alone.
LEMMA WorkerStep ==
    ASSUME StageInv, UNCHANGED <<windows, run, drift, faults>>, startup' \in Startups, InTurn'
    PROVE  StageInv'
<1>1. StageTypeOK'
  BY DEF StageInv, StageTypeOK, windows
<1>2. Apart' = Apart
  BY SameApart
<1>3. Staged'
  BY <1>2 DEF StageInv, Staged, Prepared
<1>4. RollbackFailed' <=> RollbackFailed
  BY DEF RollbackFailed
<1>5. desk' = desk /\ mode' = mode
  BY DEF windows
<1>6. Looked'
  BY <1>2, <1>4, <1>5 DEF StageInv, Looked
<1>7. QED
  BY <1>1, <1>3, <1>6 DEF StageInv

\* The DRR stage ends, and the run begins.
LEMMA RunBegins ==
    ASSUME StageInv, run.at = "idle", UNCHANGED <<windows, drift>>, faults' \in 0 .. MaxFaults,
           NEW ok \in BOOLEAN, run' = [NoRun EXCEPT !.at = "read", !.drrOk = ok],
           NEW status \in DrrStatuses,
           startup' = [startup EXCEPT !.at = "refresh", !.drr = status],
           startup.at # "done"
    PROVE  StageInv'
<1>1. startup \in Startups
  BY DEF StageInv, StageTypeOK
<1>2. /\ startup' \in Startups /\ startup'.at = "refresh"
      /\ startup'.attempts = startup.attempts /\ startup'.late = startup.late
  BY <1>1 DEF Startups
<1>3. StageTypeOK'
  BY <1>2 DEF StageInv, StageTypeOK, windows
<1>4. PICK q : q = run'
  OBVIOUS
<1>5. RunOK(q) /\ q.at = "read" /\ ~q.checked
  <2>1. PICK at \in {"idle", "read"} : at = "read"
    OBVIOUS
  <2>2. q = [NoRun EXCEPT !.at = at, !.drrOk = ok]
    BY <1>4, <2>1
  <2>3. RunOK(q) /\ q.at = at /\ ~q.checked
    BY <2>2, NoRunOK
  <2>4. QED
    BY <2>1, <2>3
<1>6. Apart' = Apart /\ Apart = {}
  BY SameApart DEF StageInv, Staged, Undoing
<1>7. Staged'
  BY <1>6 DEF Staged
<1>8. run'.at = "read" /\ ~run'.checked
  BY <1>4, <1>5
<1>9. Looked'
  BY <1>8 DEF Looked, Choosing
<1>10. InTurn'
  BY <1>2, <1>8 DEF StageInv, InTurn
<1>11. QED
  BY <1>3, <1>4, <1>5, <1>7, <1>9, <1>10 DEF StageInv

LEMMA DrrEndsOK ==
    ASSUME StageInv, run.at = "idle", startup.at # "done", NEW status \in DrrStatuses, DrrEnds(status)
    PROVE  StageInv'
<1>1. PICK ok \in BOOLEAN : run' = [NoRun EXCEPT !.at = "read", !.drrOk = ok]
  <2>1. (status \in {"Applied", "AlreadyOff"}) \in BOOLEAN
    OBVIOUS
  <2>2. QED
    BY <2>1 DEF DrrEnds, Begin
<1>2. UNCHANGED <<windows, drift, faults>>
  BY DEF DrrEnds, Begin
<1>3. faults' \in 0 .. MaxFaults
  BY <1>2 DEF StageInv, StageTypeOK
<1>4. startup' = [startup EXCEPT !.at = "refresh", !.drr = status]
  BY DEF DrrEnds
<1>5. QED
  BY <1>1, <1>2, <1>3, <1>4, RunBegins

LEMMA NoRunRead == [NoRun EXCEPT !.at = "read"] = [NoRun EXCEPT !.at = "read", !.drrOk = FALSE]
<1>1. NoRun.drrOk = FALSE /\ NoRun = [f \in DOMAIN NoRun |-> NoRun[f]] /\ "drrOk" \in DOMAIN NoRun
  BY DEF NoRun
<1>2. QED
  BY <1>1

LEMMA DrrFailureOK ==
    ASSUME StageInv, run.at = "idle", startup.at # "done", NEW status \in DrrStatuses,
           UNCHANGED <<windows, drift>>, faults > 0, faults' = faults - 1,
           startup' = [startup EXCEPT !.at = "refresh", !.drr = status],
           run' = [NoRun EXCEPT !.at = "read"]
    PROVE  StageInv'
<1>1. faults' \in 0 .. MaxFaults
  BY ConstantsAssumption DEF StageInv, StageTypeOK
<1>2. run' = [NoRun EXCEPT !.at = "read", !.drrOk = FALSE]
  BY NoRunRead
<1>3. PICK ok \in BOOLEAN : run' = [NoRun EXCEPT !.at = "read", !.drrOk = ok]
  BY <1>2
<1>4. QED
  BY <1>1, <1>3, RunBegins

LEMMA DrrReadOK ==
    ASSUME StageInv, DrrRead \/ DrrReadFails
    PROVE  StageInv'
<1>1. startup.at = "drrRead" /\ run.at = "idle" /\ startup \in Startups /\ desk \in Desks
      /\ mode \in [Sources -> Mode]
  BY DEF DrrRead, DrrReadFails, StageInv, InTurn, StageTypeOK
<1>2. CASE startup' = [startup EXCEPT !.at = "drrValidate", !.before = desk, !.beforeModes = mode]
           /\ UNCHANGED <<windows, run, drift, faults>>
  <2>1. startup' \in Startups
    BY <1>1, <1>2 DEF Startups
  <2>2. startup'.at = "drrValidate" /\ startup'.attempts = startup.attempts
        /\ startup'.late = startup.late
    BY <1>1, <1>2 DEF Startups
  <2>3. InTurn'
    BY <1>1, <1>2, <2>2 DEF StageInv, InTurn
  <2>4. QED
    BY <1>2, <2>1, <2>3, WorkerStep
<1>3. ASSUME NEW status \in DrrStatuses, DrrEnds(status) PROVE StageInv'
  BY <1>1, <1>3, DrrEndsOK
<1>4. CASE DrrReadFails
  <2>1. PICK status \in DrrStatuses : status = "Unavailable"
    BY DEF DrrStatuses
  <2>2. startup' = [startup EXCEPT !.at = "refresh", !.drr = status]
    BY <1>4, <2>1 DEF DrrReadFails
  <2>3. /\ UNCHANGED <<windows, drift>> /\ faults > 0 /\ faults' = faults - 1
        /\ run' = [NoRun EXCEPT !.at = "read"]
    BY <1>4 DEF DrrReadFails
  <2>4. QED
    BY <1>1, <2>2, <2>3, DrrFailureOK
<1>5. "AlreadyOff" \in DrrStatuses /\ "Unavailable" \in DrrStatuses
  BY DEF DrrStatuses
<1>6. QED
  BY <1>2, <1>3, <1>4, <1>5 DEF DrrRead

LEMMA DrrValidateOK ==
    ASSUME StageInv, DrrValidate
    PROVE  StageInv'
<1>1. startup.at = "drrValidate" /\ run.at = "idle" /\ startup \in Startups
  BY DEF DrrValidate, StageInv, InTurn, StageTypeOK
<1>2. CASE startup' = [startup EXCEPT !.at = "drrApply"] /\ UNCHANGED <<windows, run, drift, faults>>
  <2>1. startup' \in Startups
    BY <1>1, <1>2 DEF Startups
  <2>2. startup'.at = "drrApply" /\ startup'.attempts = startup.attempts
        /\ startup'.late = startup.late
    BY <1>1, <1>2 DEF Startups
  <2>3. InTurn'
    BY <1>1, <1>2, <2>2 DEF StageInv, InTurn
  <2>4. QED
    BY <1>2, <2>1, <2>3, WorkerStep
<1>3. CASE DrrEnds("ValidateFailed")
  <2>1. "ValidateFailed" \in DrrStatuses
    BY DEF DrrStatuses
  <2>2. QED
    BY <1>1, <1>3, <2>1, DrrEndsOK
<1>4. QED
  BY <1>2, <1>3 DEF DrrValidate

LEMMA DrrApplyOK ==
    ASSUME StageInv, DrrApply
    PROVE  StageInv'
<1>1. /\ startup.at = "drrApply" /\ run.at = "idle" /\ startup \in Startups
      /\ desk \in Desks /\ mode \in [Sources -> Mode] /\ registry \in [Sources -> Mode] /\ Apart = {}
  BY DEF DrrApply, StageInv, InTurn, StageTypeOK, Staged, Undoing
<1>2. CASE DrrEnds("ApplyFailed")
  <2>1. "ApplyFailed" \in DrrStatuses
    BY DEF DrrStatuses
  <2>2. QED
    BY <1>1, <1>2, <2>1, DrrEndsOK
<1>3. CASE ~DrrEnds("ApplyFailed")
  <2>1. /\ desk' = [t \in DOMAIN startup.before |->
                       [desk[t] EXCEPT !.source = startup.before[t].source, !.boost = FALSE]]
        /\ mode' = [s \in Sources |-> IF s \in Groups(startup.before)
                                      THEN startup.beforeModes[s] ELSE mode[s]]
        /\ registry' = [s \in Sources |-> IF s \in Groups(startup.before)
                                          THEN startup.beforeModes[s] ELSE registry[s]]
        /\ startup' = [startup EXCEPT !.at = "drrVerify"]
        /\ UNCHANGED <<run, drift, faults>>
        /\ Possible
    BY <1>3 DEF DrrApply
  <2>2. startup.before \in Desks /\ startup.beforeModes \in [Sources -> Mode]
    BY <1>1 DEF Startups
  <2>3. desk' \in Desks
    <3> DEFINE B == DOMAIN startup.before
    <3>1. B \in SUBSET Targets /\ \A t \in B : startup.before[t] \in Path
      BY <2>2 DEF Desks
    <3>2. \A t \in B : desk[t] \in Path
      BY <1>1, <2>1 DEF Possible, Desks
    <3>3. \A t \in B : [desk[t] EXCEPT !.source = startup.before[t].source, !.boost = FALSE] \in Path
      BY <3>1, <3>2 DEF Path
    <3>4. desk' \in [B -> Path]
      BY <2>1, <3>3
    <3>5. QED
      BY <3>1, <3>4, Zenon DEF Desks
  <2>4. mode' \in [Sources -> Mode] /\ registry' \in [Sources -> Mode] /\ Apart' = {}
    BY <1>1, <2>1, <2>2 DEF Apart
  <2>5. startup' \in Startups
    BY <1>1, <2>1 DEF Startups
  <2>6. startup'.at = "drrVerify" /\ startup'.attempts = startup.attempts
        /\ startup'.late = startup.late
    BY <1>1, <2>1 DEF Startups
  <2>7. InTurn'
    BY <1>1, <2>1, <2>6 DEF StageInv, InTurn
  <2>8. StageTypeOK'
    BY <2>1, <2>3, <2>4, <2>5 DEF StageInv, StageTypeOK
  <2>9. run' = run /\ run.at = "idle"
    BY <1>1, <2>1
  <2>10. Staged'
    BY <2>4 DEF Staged
  <2>11. Looked'
    BY <2>9 DEF StageInv, Looked, Choosing
  <2>12. RunOK(run')
    BY <2>9 DEF StageInv
  <2>13. QED
    BY <2>7, <2>8, <2>10, <2>11, <2>12 DEF StageInv
<1>4. QED
  BY <1>2, <1>3

LEMMA DrrVerifyOK ==
    ASSUME StageInv, DrrVerify
    PROVE  StageInv'
<1>1. startup.at = "drrVerify" /\ run.at = "idle"
  BY DEF DrrVerify, StageInv, InTurn
<1>2. PICK status \in DrrStatuses : DrrEnds(status)
  BY DEF DrrVerify, DrrStatuses
<1>3. QED
  BY <1>1, <1>2, DrrEndsOK

LEMMA DrrFailsOK ==
    ASSUME StageInv, DrrFails
    PROVE  StageInv'
<1>1. PICK status \in {"ValidateFailed", "ApplyFailed", "VerifyFailed"} :
          /\ startup.at = CASE status = "ValidateFailed" -> "drrValidate"
                            [] status = "ApplyFailed" -> "drrApply"
                            [] status = "VerifyFailed" -> "drrVerify"
          /\ startup' = [startup EXCEPT !.at = "refresh", !.drr = status]
  BY DEF DrrFails
<1>2. startup.at \in {"drrValidate", "drrApply", "drrVerify"}
  <2>1. CASE status = "ValidateFailed"
    BY <1>1, <2>1
  <2>2. CASE status = "ApplyFailed"
    BY <1>1, <2>2
  <2>3. CASE status = "VerifyFailed"
    BY <1>1, <2>3
  <2>4. QED
    BY <2>1, <2>2, <2>3
<1>3. run.at = "idle" /\ startup.at # "done" /\ status \in DrrStatuses
  BY <1>2 DEF StageInv, InTurn, DrrStatuses
<1>4. /\ UNCHANGED <<windows, drift>> /\ faults > 0 /\ faults' = faults - 1
      /\ run' = [NoRun EXCEPT !.at = "read"]
  BY DEF DrrFails
<1>5. QED
  BY <1>1, <1>3, <1>4, DrrFailureOK

\* The refresh stage, and its end.
LEMMA RefreshOK ==
    ASSUME StageInv, Refresh
    PROVE  StageInv'
<1>1. startup.at = "refresh" /\ startup \in Startups
  BY DEF Refresh, StageInv, StageTypeOK
<1>2. CASE RefreshStep /\ UNCHANGED startup
  BY <1>1, <1>2, RefreshStepOK
<1>3. CASE /\ Finished /\ startup' = [startup EXCEPT !.at = "attempt"]
           /\ UNCHANGED <<windows, run, drift, faults>>
  <2>1. startup' \in Startups
    BY <1>1, <1>3 DEF Startups
  <2>2. startup'.at = "attempt" /\ startup'.attempts = startup.attempts
        /\ startup'.late = startup.late
    BY <1>1, <1>3 DEF Startups
  <2>3. InTurn'
    BY <1>1, <1>3, <2>2 DEF StageInv, InTurn, Finished
  <2>4. QED
    BY <1>3, <2>1, <2>3, WorkerStep
<1>4. QED
  BY <1>2, <1>3 DEF Refresh

\* The steps of the coordinator.
LEMMA CoordinatorOK ==
    ASSUME StageInv, Attempt \/ Wait \/ Stop \/ Joined
    PROVE  StageInv'
<1>1. startup \in Startups /\ UNCHANGED <<windows, run, drift, faults>> /\ InTurn
  BY DEF StageInv, StageTypeOK, Attempt, Wait, Stop, Joined
<1>2. CASE Attempt
  <2>1. startup.at = "attempt" /\ startup.attempts < 4 /\ startup.late <= startup.attempts
        /\ startup.attempts \in 0 .. 4 /\ startup.late \in 0 .. 4 /\ run.at \in {"idle", "done"}
    BY <1>1, <1>2 DEF Attempt, InTurn, Startups, MaxAttempts
  <2>2. PICK at \in {"wait", "done"}, late \in {startup.late, startup.late + 1} :
            /\ startup' = [startup EXCEPT !.attempts = @ + 1, !.late = late, !.at = at]
            /\ at = "wait" => startup.attempts + 1 < 4
    <3>1. PICK again \in BOOLEAN :
              startup' = [startup EXCEPT
                         !.attempts = @ + 1,
                         !.late = IF startup.app = "up" THEN @ ELSE @ + 1,
                         !.at = IF again /\ startup.attempts + 1 < 4
                                THEN "wait" ELSE "done"]
      BY <1>2 DEF Attempt, MaxAttempts
    <3> DEFINE late == IF startup.app = "up" THEN startup.late ELSE startup.late + 1
               at == IF again /\ startup.attempts + 1 < 4 THEN "wait" ELSE "done"
    <3>2. startup' = [startup EXCEPT !.attempts = @ + 1, !.late = late, !.at = at]
      BY <3>1
    <3>3. /\ late \in {startup.late, startup.late + 1} /\ at \in {"wait", "done"}
          /\ at = "wait" => startup.attempts + 1 < 4
      OBVIOUS
    <3> HIDE DEF late, at
    <3>4. QED
      BY <3>2, <3>3
  <2>3. late \in 0 .. 4 /\ startup.attempts + 1 \in 0 .. 4
    BY <2>1, <2>2
  <2>4. startup' \in Startups
    BY <1>1, <2>2, <2>3 DEF Startups, MaxAttempts
  <2>5. startup'.at = at /\ startup'.attempts = startup.attempts + 1 /\ startup'.late = late
    BY <1>1, <2>2 DEF Startups
  <2>6. InTurn'
    BY <1>1, <2>1, <2>2, <2>5 DEF InTurn, MaxAttempts
  <2>7. QED
    BY <1>1, <2>4, <2>6, WorkerStep
<1>3. CASE Wait
  <2>1. PICK at \in {"attempt", "done"} : startup' = [startup EXCEPT !.at = at]
    BY <1>3 DEF Wait
  <2>2. startup' \in Startups
    BY <1>1, <2>1 DEF Startups
  <2>3. startup'.at = at /\ startup'.attempts = startup.attempts /\ startup'.late = startup.late
    BY <1>1, <2>1 DEF Startups
  <2>4. startup.at = "wait"
    BY <1>3 DEF Wait
  <2>5. InTurn'
    BY <1>1, <2>1, <2>3, <2>4 DEF InTurn
  <2>6. QED
    BY <1>1, <2>2, <2>5, WorkerStep
<1>4. CASE Stop \/ Joined
  <2>1. PICK app \in {"stopping", "down"} : startup' = [startup EXCEPT !.app = app]
    BY <1>4 DEF Stop, Joined
  <2>2. startup' \in Startups
    BY <1>1, <2>1 DEF Startups
  <2>3. startup'.at = startup.at /\ startup'.attempts = startup.attempts
        /\ startup'.late = startup.late
    BY <1>1, <2>1 DEF Startups
  <2>4. InTurn'
    BY <1>1, <2>3 DEF InTurn
  <2>5. QED
    BY <1>1, <2>2, <2>4, WorkerStep
<1>5. QED
  BY <1>2, <1>3, <1>4

\* A change by others comes after the last look, and leaves nothing staged.
LEMMA DriftOK ==
    ASSUME StageInv, Drift, UNCHANGED startup
    PROVE  StageInv'
<1>1. /\ drift > 0 /\ drift' = drift - 1 /\ UNCHANGED <<run, faults, startup>>
      /\ drift \in 0 .. MaxDrift /\ desk \in Desks
      /\ mode \in [Sources -> Mode] /\ registry \in [Sources -> Mode]
  BY DEF Drift, StageInv, StageTypeOK
<1>2. desk' \in Desks
  <2>1. PICK active \in SUBSET Targets : desk \in [active -> Path]
    BY <1>1 DEF Desks
  <2>2. ASSUME NEW t \in DOMAIN desk, desk' = Restrict(desk, DOMAIN desk \ {t}) PROVE desk' \in Desks
    <3>1. desk' \in [active \ {t} -> Path]
      BY <2>1, <2>2 DEF Restrict
    <3>2. active \ {t} \in SUBSET Targets
      BY <2>1
    <3>3. QED
      BY <3>1, <3>2, Zenon DEF Desks
  <2>3. ASSUME NEW t \in DOMAIN desk, NEW field \in {"boost", "fit", "color"},
               desk' = [desk EXCEPT ![t][field] = ~@]
        PROVE  desk' \in Desks
    <3>1. desk[t] \in Path
      BY <2>1
    <3>2. [desk[t] EXCEPT ![field] = ~@] \in Path
      <4>1. CASE field = "boost"
        BY <3>1, <4>1 DEF Path
      <4>2. CASE field = "fit"
        BY <3>1, <4>2 DEF Path
      <4>3. CASE field = "color"
        BY <3>1, <4>3 DEF Path
      <4>4. QED
        BY <4>1, <4>2, <4>3
    <3> DEFINE path == [desk[t] EXCEPT ![field] = ~@]
    <3>3. desk' = [desk EXCEPT ![t] = path]
      BY <2>3
    <3>4. path \in Path
      BY <3>2
    <3> HIDE DEF path
    <3>5. desk' \in [active -> Path]
      BY <2>1, <3>3, <3>4
    <3>6. QED
      BY <3>5, Zenon DEF Desks
  <2>4. ASSUME NEW t \in Targets, NEW path \in Path, desk' = Put(desk, t, path) PROVE desk' \in Desks
    <3>1. desk' \in [active \cup {t} -> Path]
      BY <2>1, <2>4 DEF Put, PutAll
    <3>2. active \cup {t} \in SUBSET Targets
      BY <2>1
    <3>3. QED
      BY <3>1, <3>2, Zenon DEF Desks
  <2>5. QED
    BY <1>1, <2>2, <2>3, <2>4 DEF Drift
<1>3. mode' \in [Sources -> Mode] /\ registry' \in [Sources -> Mode] /\ Apart' \subseteq Apart
  <2>1. CASE UNCHANGED <<mode, registry>>
    BY <1>1, <2>1 DEF Apart
  <2>2. ASSUME NEW s \in Sources, NEW m \in Mode, mode' = [mode EXCEPT ![s] = m],
               registry' = [registry EXCEPT ![s] = m]
        PROVE  mode' \in [Sources -> Mode] /\ registry' \in [Sources -> Mode] /\ Apart' \subseteq Apart
    BY <1>1, <2>2 DEF Apart
  <2>3. QED
    BY <2>1, <2>2 DEF Drift
<1>4. StageTypeOK'
  <2>1. drift' \in 0 .. MaxDrift
    BY <1>1, ConstantsAssumption
  <2>2. QED
    BY <1>1, <1>2, <1>3, <2>1 DEF StageInv, StageTypeOK
<1>5. RunOK(run') /\ InTurn' /\ run' = run
  BY <1>1 DEF StageInv, InTurn
<1>6. Staged'
  BY <1>3, <1>5 DEF StageInv, Staged, Prepared
<1>7. Looked'
  <2>1. run.at \notin {"idle", "read"} => drift' <= run.mark /\ drift' # run.mark
    <3>1. run.at \notin {"idle", "read"} => drift <= run.mark
      BY DEF StageInv, Looked
    <3>2. run.mark \in 0 .. MaxDrift
      BY DEF StageInv, RunOK, Runs
    <3>3. QED
      BY <1>1, <3>1, <3>2, ConstantsAssumption
  <2>2. run.at \notin {"afterModes", "restoredModes", "done"} \cup Choosing \/ drift' # run.mark
    BY <2>1 DEF Choosing
  <2>3. QED
    BY <1>5, <2>1, <2>2 DEF StageInv, Looked, Choosing
<1>8. QED
  BY <1>4, <1>5, <1>6, <1>7 DEF StageInv

LEMMA InitStage == Init => StageInv
<1> SUFFICES ASSUME Init PROVE StageInv
  OBVIOUS
<1>1. Min(Rates) \in Rates
  BY MinIsOne, ConstantsAssumption
<1>2. /\ desk \in Desks /\ mode \in [Sources -> Mode] /\ registry = mode
      /\ drift \in 0 .. MaxDrift /\ faults \in 0 .. MaxFaults /\ run = NoRun
  BY <1>1, ConstantsAssumption DEF Init, Mode
<1>3. PICK enabled \in BOOLEAN :
          startup = [at |-> IF enabled THEN "drrRead" ELSE "attempt",
                     enabled |-> enabled, app |-> "up", drr |-> "none",
                     before |-> desk, beforeModes |-> mode,
                     attempts |-> 0, late |-> 0]
  BY DEF Init
<1>4. startup \in Startups
  BY <1>2, <1>3 DEF Startups, DrrStatuses, MaxAttempts
<1>5. RunOK(run) /\ run.at = "idle" /\ ~run.checked
  <2>1. NoRun = [NoRun EXCEPT !.at = "idle", !.drrOk = FALSE]
    <3>1. /\ NoRun.drrOk = FALSE /\ NoRun.at = "idle" /\ NoRun = [f \in DOMAIN NoRun |-> NoRun[f]]
          /\ "drrOk" \in DOMAIN NoRun /\ "at" \in DOMAIN NoRun
      BY DEF NoRun
    <3>2. QED
      BY <3>1
  <2>2. PICK at \in {"idle", "read"} : at = "idle"
    OBVIOUS
  <2>3. PICK ok \in BOOLEAN : run = [NoRun EXCEPT !.at = at, !.drrOk = ok]
    BY <1>2, <2>1, <2>2
  <2>4. PICK q : q = run
    OBVIOUS
  <2>5. RunOK(q) /\ q.at = at /\ ~q.checked
    BY <2>3, <2>4, NoRunOK
  <2>6. QED
    BY <2>2, <2>4, <2>5
<1>6. Apart = {}
  BY <1>2 DEF Apart
<1>7. Staged
  BY <1>6 DEF Staged
<1>8. Looked
  BY <1>5 DEF Looked, Choosing
<1>9. startup.at \in {"drrRead", "attempt"} /\ startup.attempts = 0 /\ startup.late = 0
  BY <1>3
<1>10. InTurn
  BY <1>5, <1>9 DEF InTurn, MaxAttempts
<1>11. QED
  BY <1>2, <1>4, <1>5, <1>7, <1>8, <1>10 DEF StageInv, StageTypeOK

LEMMA NextStage == StageInv /\ [Next]_vars => StageInv'
<1> SUFFICES ASSUME StageInv, [Next]_vars PROVE StageInv'
  OBVIOUS
<1>1. CASE UNCHANGED vars
  <2>1. UNCHANGED <<windows, run, drift, faults>> /\ startup' = startup
    BY <1>1 DEF vars, windows
  <2>2. startup' \in Startups /\ InTurn'
    BY <2>1 DEF StageInv, StageTypeOK, InTurn
  <2>3. QED
    BY <2>1, <2>2, WorkerStep
<1>2. CASE Others
  BY <1>2, DriftOK DEF Others
<1>3. CASE Worker
  BY <1>3, DrrReadOK, DrrValidateOK, DrrApplyOK, DrrVerifyOK, DrrFailsOK, RefreshOK, CoordinatorOK
     DEF Worker
<1>4. CASE Stop \/ Joined
  BY <1>4, CoordinatorOK
<1>5. QED
  BY <1>1, <1>2, <1>3, <1>4 DEF Next

LEMMA StageMeansSound == StageInv => ResultIsSound
<1> SUFFICES ASSUME StageInv PROVE ResultIsSound
  OBVIOUS
<1>1. run \in Runs /\ Counted(run) /\ Marked(run) /\ Prepared(run) \subseteq DOMAIN run.modes
  BY DEF StageInv, RunOK
<1>2. /\ run.modes \in Partial(Mode) /\ run.target \in Partial(Statuses) /\ run.request \in Partial(Rates)
  BY <1>1 DEF Runs
<1>3. /\ DOMAIN run.modes \subseteq Sources /\ \A s \in DOMAIN run.modes : run.modes[s] \in Mode
      /\ DOMAIN run.target \subseteq Sources /\ \A s \in DOMAIN run.target : run.target[s] \in Statuses
      /\ \A s \in DOMAIN run.request : run.request[s] \in Rates
  BY <1>2, PartialIs
<1>4. {run.applied, run.alreadyMax, run.skipped, run.failed} \subseteq Counters
  <2>1. \A S : Cardinality(With(run, S)) \in Counters
    <3> SUFFICES ASSUME NEW S PROVE Cardinality(With(run, S)) \in Counters
      OBVIOUS
    <3>1. With(run, S) \subseteq Sources
      BY <1>3 DEF With
    <3>2. /\ Cardinality(With(run, S)) <= Cardinality(Sources)
          /\ IsFiniteSet(With(run, S))
      BY <3>1, FS_Subset, ConstantsAssumption
    <3>3. Cardinality(With(run, S)) \in Nat /\ Cardinality(Sources) \in Nat
      BY <3>2, FS_CardinalityType, ConstantsAssumption
    <3>4. QED
      BY <3>2, <3>3 DEF Counters
  <2>2. QED
    BY <1>1, <2>1 DEF Counted
<1>5. DOMAIN run = DOMAIN NoRun
  BY <1>1 DEF Runs, NoRun
<1>6. /\ run.at \in Steps /\ run.status \in Statuses
      /\ run.original \in Desks /\ run.recent \in Desks
      /\ run.todo \subseteq Sources
      /\ {run.drrOk, run.complete, run.matches, run.batch, run.staged,
          run.checked, run.boosted} \subseteq BOOLEAN
      /\ run.mark \in 0 .. MaxDrift
  BY <1>1 DEF Runs
<1>7. StartupTypeOK
  BY <1>1, <1>3, <1>4, <1>5, <1>6 DEF StartupTypeOK, TypeOK, StageInv, StageTypeOK, Prepared
<1>8. CountersAgree
  BY <1>1 DEF CountersAgree, Finished, Marked, Counted, With, Failures, Trying, Undoing
<1>9. ResultIsTrue
  <2> SUFFICES ASSUME Finished, drift = run.mark, ~RollbackFailed
               PROVE  /\ \A s \in DOMAIN run.modes :
                            mode[s] = IF run.target[s] = "Applied"
                                      THEN [run.modes[s] EXCEPT !.hz = run.request[s]]
                                      ELSE run.modes[s]
                      /\ registry = mode
                      /\ DrrInvariant = "Verified" => ~Boosted(desk)
    BY DEF ResultIsTrue
  <2>1. /\ \A s \in DOMAIN run.modes :
              mode[s] = IF run.target[s] = "Applied"
                        THEN [run.modes[s] EXCEPT !.hz = run.request[s]]
                        ELSE run.modes[s]
        /\ Apart = {} /\ (run.checked => desk = run.original)
    BY DEF StageInv, Looked, Finished
  <2>2. registry = mode
    BY <2>1 DEF StageInv, StageTypeOK, Apart
  <2>3. DrrInvariant = "Verified" => run.checked /\ ~run.boosted
    BY DEF DrrInvariant
  <2>4. DrrInvariant = "Verified" => ~Boosted(desk)
    BY <2>1, <2>3 DEF StageInv, Looked
  <2>5. QED
    BY <2>1, <2>2, <2>4
<1>10. QED
  BY <1>7, <1>8, <1>9 DEF ResultIsSound

\* The inductive invariant.
THEOREM StageIsSound == Spec => []StageInv
<1>1. QED
  BY InitStage, NextStage, PTL DEF Spec

\* What the stage reports is what Windows has.
THEOREM ResultsAreSound == Spec => []ResultIsSound
<1>1. QED
  BY StageIsSound, StageMeansSound, PTL

-----------------------------------------------------------------------------
(* The Intel VRR range.                                                    *)

Looking == {"evidence", "decide", "revalidate", "confirm", "compare", "write"}
Written == {"recheck", "readback", "reconfirm", "verify", "unapply", "uncompare", "unwrite"}
Busy == Looking \cup Written \cup {"unwritten"}

Queried == [exact: BOOLEAN, ambiguous: BOOLEAN, cap: {"none", "native", "half"},
            profile: Profiles, range: Ranges]
VrrRuns ==
    [pc: Busy \cup {"idle", "targets", "probe", "next", "done"}, supported: SUBSET Monitors,
     at: [Monitors -> TargetIds \cup {NoTarget}], todo: SUBSET Monitors,
     item: Monitors \cup {NoMonitor}, before: Queried, after: Queried,
     evidence: [physical: BOOLEAN, direct: BOOLEAN], handle: TargetIds \cup {NoTarget},
     requested: Profiles, results: [Monitors -> VrrStatuses \cup {NoStatus}],
     status: VrrStatuses \cup {NoStatus}]

WorldTypes ==
    /\ kind \in [Monitors -> PanelKinds]
    /\ cap \in [Monitors -> {"native", "half"}]
    /\ port \in [TargetIds -> Monitors \cup {NoMonitor}]
    /\ driver \in [Monitors -> InForce] /\ original \in [Monitors -> InForce]
    /\ staged \subseteq Monitors /\ touched \subseteq Monitors /\ settled \subseteq Monitors
    /\ runs \in Nat /\ changes \in Nat

\* Where the run believes a panel, it is; or it and what is there instead were
\* touched.
Located(m) ==
    /\ vrr.at[m] \in TargetIds
    /\ vrr.results[m] = NoStatus
    /\ \/ port[vrr.at[m]] = m
       \/ m \in touched /\ port[vrr.at[m]] \in touched \cup {NoMonitor}

\* How far the run is: what is to do, in hand and done.
Progress ==
    /\ vrr.pc \in Busy => vrr.item \in Monitors \ vrr.todo /\ Located(vrr.item)
    /\ \A m \in vrr.todo : Located(m)
    /\ vrr.pc \in {"probe", "next"} => vrr.todo # {}
    /\ vrr.pc \in {"idle", "targets"} => vrr.results = NoResults
    /\ vrr.pc = "done" => vrr.status # NoStatus
    /\ vrr.handle # NoTarget => vrr.pc \in Busy /\ vrr.handle = Target

\* What a status says of what is in force now and was before the run.
Fits(status, now, then) ==
    CASE status = "Applied" -> now.profile = "Excellent" /\ Native(now.range)
      [] status = "AlreadyCorrect" -> now = then /\ Native(now.range)
      [] status = "VerificationFailed" -> now.profile \in {"Excellent", then.profile}
      [] OTHER -> now = then

Reported ==
    \A m \in Monitors \ touched :
        \/ vrr.pc \in Written \cup {"unwritten"} /\ m = vrr.item
        \/ Fits(vrr.results[m], driver[m], original[m])

\* What the run knows of an untouched panel in hand.
Understood ==
    vrr.pc \in Busy /\ vrr.item \notin touched =>
        /\ vrr.before.exact => /\ vrr.before.profile = original[vrr.item].profile
                               /\ vrr.before.range = original[vrr.item].range
        /\ vrr.pc \in Written => driver[vrr.item].profile = "Excellent"
        /\ vrr.pc = "unwritten" => driver[vrr.item].profile = original[vrr.item].profile
        /\ vrr.pc \in {"reconfirm", "verify"} /\ vrr.after.exact =>
              vrr.after.profile = driver[vrr.item].profile /\ vrr.after.range = driver[vrr.item].range

\* What was decided before a write is asked for.
Decided ==
    /\ vrr.pc \in Busy \ {"evidence", "decide"} => vrr.before.exact
    /\ vrr.pc \in Looking \cup {"next", "probe", "targets"} => vrr.requested = "Excellent"
    /\ vrr.pc \in {"uncompare", "unwrite"} => vrr.requested = vrr.before.profile
    /\ vrr.pc \in {"unapply", "uncompare", "unwrite"} =>
          kind[vrr.item] = "Lg" /\ ~Native(vrr.after.range)

\* What a write will meet, but for the changes that come after the last look.
Aimed ==
    /\ vrr.pc \in {"confirm", "compare", "write", "uncompare", "unwrite"} =>
          "target" \in excused \/ port[Target] = vrr.item
    /\ vrr.pc \in {"compare", "write"} =>
          "edid" \in excused \/ kind[vrr.item] # "Claw7" \/ vrr.item \notin staged
    /\ vrr.pc \in {"write", "unwrite"} =>
          /\ excused \cap {"target", "profile"} # {} \/ driver[vrr.item].profile \in Standard
          /\ port[Target] \notin settled

SettledStay == \A m \in settled : Native(driver[m].range)

VrrInv ==
    /\ vrr \in VrrRuns /\ WorldTypes
    /\ Progress /\ Reported /\ Understood /\ Decided /\ Aimed /\ SettledStay

LEMMA NotRunIsTyped ==
    /\ NotRun \in VrrRuns /\ NotRun.results = NoResults /\ NotRun.todo = {}
    /\ NotRun.handle = NoTarget /\ NotRun.pc = "idle" /\ NotRun.requested = "Excellent"
    /\ NotRun.supported = {}
BY DEF NotRun, VrrRuns, NoResults, Queried, NoState, NoEvidence, Profiles, Standard, Ranges,
       VrrStatuses, NoStatus, Busy, Looking, Written

\* The worst of the statuses is one of them.
LEMMA SummaryIsAStatus ==
    ASSUME NEW results \in [Monitors -> VrrStatuses \cup {NoStatus}], results # NoResults
    PROVE  Summarize(results) \in VrrStatuses
<1> DEFINE found == {results[m] : m \in Monitors} \ {NoStatus}
<1>1. found # {}
  <2>1. PICK m \in Monitors : results[m] # NoStatus
    BY DEF NoResults
  <2> QED BY <2>1
<1>2. found \subseteq VrrStatuses
  OBVIOUS
<1>3. \A s \in found : SummaryPriority(s) \in {0, 1, 2, 3, 4, 5, 6}
  BY DEF SummaryPriority
<1>4. \E s \in found : \A r \in found : SummaryPriority(r) <= SummaryPriority(s)
  <2> HIDE DEF found
  <2>6. CASE \E s \in found : SummaryPriority(s) = 6
    BY <1>3, <2>6
  <2>5. CASE \E s \in found : SummaryPriority(s) = 5
    BY <1>3, <2>6, <2>5
  <2>4. CASE \E s \in found : SummaryPriority(s) = 4
    BY <1>3, <2>6, <2>5, <2>4
  <2>3. CASE \E s \in found : SummaryPriority(s) = 3
    BY <1>3, <2>6, <2>5, <2>4, <2>3
  <2>2. CASE \E s \in found : SummaryPriority(s) = 2
    BY <1>3, <2>6, <2>5, <2>4, <2>3, <2>2
  <2>1. CASE \E s \in found : SummaryPriority(s) = 1
    BY <1>3, <2>6, <2>5, <2>4, <2>3, <2>2, <2>1
  <2> QED BY <1>1, <1>3, <2>6, <2>5, <2>4, <2>3, <2>2, <2>1
<1>5. Summarize(results) = CHOOSE s \in found : \A r \in found : SummaryPriority(r) <= SummaryPriority(s)
  BY DEF Summarize
<1> HIDE DEF found
<1>6. Summarize(results) \in found
  BY <1>4, <1>5
<1> QED BY <1>2, <1>6

LEMMA InitVrrInv == VrrInit => VrrInv
<1> SUFFICES ASSUME VrrInit PROVE VrrInv
  OBVIOUS
<1>1. vrr = NotRun /\ vrr \in VrrRuns
  BY NotRunIsTyped DEF VrrInit
<1>2. WorldTypes
  BY PanelAssumption DEF VrrInit, WorldTypes, PanelKinds, InForce, Profiles, Standard, Ranges
<1>3. Progress
  BY <1>1, NotRunIsTyped DEF Progress, Busy, Looking, Written
<1>4. Reported
  BY <1>1, <1>2, NotRunIsTyped DEF Reported, NoResults, Fits, NoStatus, VrrInit, Busy, Written
<1>5. Understood /\ Decided /\ Aimed /\ SettledStay
  BY <1>1, NotRunIsTyped DEF Understood, Decided, Aimed, SettledStay, VrrInit, Busy, Looking, Written
<1> QED BY <1>1, <1>2, <1>3, <1>4, <1>5 DEF VrrInv

\* A run that ends with what fits of every panel that nobody else touched.
LEMMA EndsKeeps ==
    ASSUME VrrInv, NEW results \in [Monitors -> VrrStatuses \cup {NoStatus}],
           NEW status \in VrrStatuses,
           \A m \in Monitors \ touched : Fits(results[m], driver[m], original[m]),
           Ends(results, status)
    PROVE  VrrInv'
<1>1. /\ vrr' = [NotRun EXCEPT !.pc = "done", !.results = results, !.status = status]
      /\ settled' = settled \cup
                  {m \in Monitors \ touched : results[m] \in {"Applied", "AlreadyCorrect"}}
      /\ UNCHANGED <<world, runs, changes, original, excused, touched>>
  BY DEF Ends
<1>2. vrr' \in VrrRuns
  BY <1>1, NotRunIsTyped DEF VrrRuns
<1>3. /\ vrr'.pc = "done" /\ vrr'.results = results /\ vrr'.status = status
      /\ vrr'.todo = {} /\ vrr'.handle = NoTarget
  BY <1>1, NotRunIsTyped DEF VrrRuns
<1>4. WorldTypes'
  BY <1>1 DEF VrrInv, WorldTypes, world
<1>5. Progress'
  BY <1>3 DEF Progress, Busy, Looking, Written, VrrStatuses, NoStatus
<1>6. Reported'
  BY <1>1, <1>3 DEF Reported, world
<1>7. Understood' /\ Decided' /\ Aimed'
  BY <1>3 DEF Understood, Decided, Aimed, Busy, Looking, Written
<1>8. SettledStay'
  BY <1>1 DEF VrrInv, SettledStay, world, Fits, VrrStatuses
<1> QED BY <1>2, <1>4, <1>5, <1>6, <1>7, <1>8 DEF VrrInv

\* A panel is done, with a status that fits if nobody else touched it.
LEMMA SettlesKeeps ==
    ASSUME VrrInv, vrr.pc \in Busy, NEW status \in VrrStatuses,
           vrr.item \notin touched => Fits(status, driver[vrr.item], original[vrr.item]),
           Settles(status)
    PROVE  VrrInv'
<1> DEFINE results == [vrr.results EXCEPT ![vrr.item] = status]
<1>0. vrr \in VrrRuns /\ vrr.item \in Monitors \ vrr.todo
  BY DEF VrrInv, Progress
<1>1. /\ results \in [Monitors -> VrrStatuses \cup {NoStatus}]
      /\ results[vrr.item] = status
      /\ \A m \in Monitors : m # vrr.item => results[m] = vrr.results[m]
  BY <1>0 DEF VrrRuns
<1>2. \A m \in Monitors \ touched : Fits(results[m], driver[m], original[m])
  BY <1>0, <1>1 DEF VrrInv, Reported
<1>3. CASE vrr.todo = {}
  <2>1. results # NoResults
    BY <1>0, <1>1 DEF NoResults, VrrStatuses, NoStatus
  <2>2. Ends(results, Summarize(results))
    BY <1>3 DEF Settles
  <2> HIDE DEF results
  <2>3. Summarize(results) \in VrrStatuses
    BY <1>1, <2>1, SummaryIsAStatus
  <2> QED BY <1>1, <1>2, <2>2, <2>3, EndsKeeps
<1>4. CASE vrr.todo # {}
  <2>1. /\ vrr' = [NotRun EXCEPT !.pc = "next", !.todo = vrr.todo, !.at = vrr.at,
                                 !.supported = vrr.supported, !.results = results]
        /\ UNCHANGED Unrelated
    BY <1>4 DEF Settles
  <2> HIDE DEF results
  <2>2. vrr' \in VrrRuns
    BY <1>0, <1>1, <2>1, NotRunIsTyped DEF VrrRuns
  <2>3. /\ vrr'.pc = "next" /\ vrr'.results = results /\ vrr'.todo = vrr.todo
        /\ vrr'.at = vrr.at /\ vrr'.handle = NoTarget /\ vrr'.requested = "Excellent"
    BY <2>1, NotRunIsTyped DEF VrrRuns
  <2>4. WorldTypes' /\ SettledStay'
    BY <2>1 DEF VrrInv, WorldTypes, SettledStay, Unrelated, world
  <2>5. Progress'
    <3>1. \A m \in vrr.todo : results[m] = vrr.results[m]
      BY <1>0, <1>1 DEF VrrRuns
    <3>2. \A m \in vrr.todo : Located(m)
      BY DEF VrrInv, Progress
    <3>3. \A m \in vrr'.todo : Located(m)'
      BY <2>1, <2>3, <3>1, <3>2 DEF Located, Unrelated, world
    <3> QED BY <1>4, <2>3, <3>3 DEF Progress, Busy, Looking, Written
  <2>6. Reported'
    BY <1>2, <2>1, <2>3 DEF Reported, Unrelated, world
  <2>7. Understood' /\ Decided' /\ Aimed'
    BY <2>3 DEF Understood, Decided, Aimed, Busy, Looking, Written
  <2> QED BY <2>2, <2>4, <2>5, <2>6, <2>7 DEF VrrInv
<1> QED BY <1>3, <1>4

LEMMA BeginKeeps == VrrInv /\ BeginVrr => VrrInv'
<1> SUFFICES ASSUME VrrInv, BeginVrr PROVE VrrInv'
  OBVIOUS
<1>1. /\ runs' = runs + 1 /\ original' = driver /\ excused' = {} /\ touched' = {}
      /\ UNCHANGED <<world, changes, settled>>
  BY DEF BeginVrr
<1>2. \/ \E s \in {"Disabled", "Unavailable", "UnsupportedPanel"} :
            vrr' = [NotRun EXCEPT !.pc = "done", !.status = s]
      \/ \E p \in SUBSET Monitors : vrr' = [NotRun EXCEPT !.pc = "targets", !.supported = p]
  BY DEF BeginVrr, ListedPanels
<1>3. vrr' \in VrrRuns
  <2>1. ASSUME NEW s \in VrrStatuses PROVE [NotRun EXCEPT !.pc = "done", !.status = s] \in VrrRuns
    BY NotRunIsTyped DEF VrrRuns
  <2>2. ASSUME NEW p \in SUBSET Monitors
        PROVE  [NotRun EXCEPT !.pc = "targets", !.supported = p] \in VrrRuns
    BY NotRunIsTyped DEF VrrRuns
  <2> QED BY <1>2, <2>1, <2>2 DEF VrrStatuses
<1>4. /\ vrr'.pc \in {"done", "targets"} /\ vrr'.results = NoResults /\ vrr'.todo = {}
      /\ vrr'.handle = NoTarget /\ vrr'.requested = "Excellent"
      /\ vrr'.pc = "done" => vrr'.status # NoStatus
  <2>1. CASE \E s \in {"Disabled", "Unavailable", "UnsupportedPanel"} :
               vrr' = [NotRun EXCEPT !.pc = "done", !.status = s]
    BY <2>1, NotRunIsTyped DEF VrrRuns, NoStatus
  <2>2. CASE \E p \in SUBSET Monitors : vrr' = [NotRun EXCEPT !.pc = "targets", !.supported = p]
    BY <2>2, NotRunIsTyped DEF VrrRuns
  <2> QED BY <1>2, <2>1, <2>2
<1>5. WorldTypes' /\ SettledStay'
  BY <1>1 DEF VrrInv, WorldTypes, SettledStay, world
<1>6. Progress'
  BY <1>4 DEF Progress, Busy, Looking, Written
<1>7. Reported'
  BY <1>1, <1>4 DEF Reported, NoResults, Fits, NoStatus, world
<1>8. Understood' /\ Decided' /\ Aimed'
  BY <1>4 DEF Understood, Decided, Aimed, Busy, Looking, Written
<1> QED BY <1>3, <1>5, <1>6, <1>7, <1>8 DEF VrrInv

\* The display on which Windows has a panel, if it is one and all were listed.
LEMMA ExactMatch ==
    ASSUME NEW m \in Monitors, NEW targets \in WindowsTargets,
           ResolvePanelWindowsTarget(m, targets).status = "Exact"
    PROVE  /\ ResolvePanelWindowsTarget(m, targets).target \in TargetIds
           /\ port[ResolvePanelWindowsTarget(m, targets).target] = m
<1> DEFINE matches == {t \in TargetIds : targets.on[t] = m}
<1>1. /\ targets.complete /\ matches # {}
      /\ ResolvePanelWindowsTarget(m, targets).target = CHOOSE t \in matches : TRUE
  BY DEF ResolvePanelWindowsTarget, WindowsTargets
<1>2. (CHOOSE t \in matches : TRUE) \in matches
  BY <1>1
<1>3. targets.on = port
  BY <1>1 DEF WindowsTargets
<1> QED BY <1>1, <1>2, <1>3

LEMMA MapKeeps == VrrInv /\ MapTargets => VrrInv'
<1> SUFFICES ASSUME VrrInv, MapTargets PROVE VrrInv'
  OBVIOUS
<1>0. vrr.pc = "targets" /\ vrr \in VrrRuns /\ vrr.results = NoResults
  BY DEF MapTargets, VrrInv, Progress
<1>1. PICK targets \in WindowsTargets :
          LET match == [m \in Monitors |-> ResolvePanelWindowsTarget(m, targets)]
              work == {m \in vrr.supported : match[m].status = "Exact"}
              results == [m \in Monitors |->
                            CASE m \in vrr.supported /\ match[m].status = "Unavailable" ->
                                    "Unavailable"
                              [] m \in vrr.supported /\ match[m].status = "Ambiguous" ->
                                    "AmbiguousDisplay"
                              [] OTHER -> NoStatus]
          IN  IF work # {}
                THEN /\ vrr' = [vrr EXCEPT !.pc = "probe", !.todo = work, !.results = results,
                                           !.at = [m \in Monitors |-> match[m].target]]
                     /\ UNCHANGED Unrelated
                ELSE Ends(results, IF results = NoResults THEN "UnsupportedPanel"
                                                          ELSE Summarize(results))
  BY DEF MapTargets
<1> DEFINE match == [m \in Monitors |-> ResolvePanelWindowsTarget(m, targets)]
           work == {m \in vrr.supported : match[m].status = "Exact"}
           results == [m \in Monitors |->
                         CASE m \in vrr.supported /\ match[m].status = "Unavailable" -> "Unavailable"
                           [] m \in vrr.supported /\ match[m].status = "Ambiguous" -> "AmbiguousDisplay"
                           [] OTHER -> NoStatus]
           at == [m \in Monitors |-> match[m].target]
<1>2. \A m \in Monitors : results[m] \in {"Unavailable", "AmbiguousDisplay", NoStatus}
  OBVIOUS
<1>3. results \in [Monitors -> VrrStatuses \cup {NoStatus}]
  BY <1>2 DEF VrrStatuses
<1>4. \A m \in Monitors \ touched : Fits(results[m], driver[m], original[m])
  <2>1. \A m \in Monitors \ touched : Fits(NoStatus, driver[m], original[m])
    BY <1>0 DEF VrrInv, Reported, NoResults, Written
  <2> QED BY <1>2, <2>1 DEF Fits, NoStatus
<1>5. work \subseteq Monitors /\ \A m \in work : results[m] = NoStatus
  BY <1>0 DEF VrrRuns
<1>6. at \in [Monitors -> TargetIds \cup {NoTarget}]
  <2>1. \A m \in Monitors : match[m].status = "Exact" \/ match[m].target = NoTarget
    BY DEF ResolvePanelWindowsTarget
  <2>2. \A m \in Monitors : match[m].target \in TargetIds \cup {NoTarget}
    BY <2>1, ExactMatch
  <2> QED BY <2>2
<1>7. \A m \in work : at[m] \in TargetIds /\ port[at[m]] = m
  BY <1>5, ExactMatch
<1>8. CASE work = {}
  <2>1. Ends(results, IF results = NoResults THEN "UnsupportedPanel" ELSE Summarize(results))
    BY <1>1, <1>8
  <2> HIDE DEF results
  <2>2. (IF results = NoResults THEN "UnsupportedPanel" ELSE Summarize(results)) \in VrrStatuses
    BY <1>3, SummaryIsAStatus DEF VrrStatuses
  <2> QED BY <1>3, <1>4, <2>1, <2>2, EndsKeeps
<1>9. CASE work # {}
  <2>1. /\ vrr' = [vrr EXCEPT !.pc = "probe", !.todo = work, !.results = results, !.at = at]
        /\ UNCHANGED Unrelated
    BY <1>1, <1>9
  <2> HIDE DEF work, results, match, at
  <2>2. vrr' \in VrrRuns
    BY <1>0, <1>3, <1>5, <1>6, <2>1 DEF VrrRuns
  <2>3. /\ vrr'.pc = "probe" /\ vrr'.todo = work /\ vrr'.results = results /\ vrr'.at = at
        /\ vrr'.handle = vrr.handle /\ vrr'.requested = vrr.requested
    BY <1>0, <2>1 DEF VrrRuns
  <2>4. WorldTypes' /\ SettledStay'
    BY <2>1 DEF VrrInv, WorldTypes, SettledStay, Unrelated, world
  <2>5. Progress'
    <3>1. vrr.handle = NoTarget
      BY <1>0 DEF VrrInv, Progress, Busy, Looking, Written
    <3>2. \A m \in work : Located(m)'
      BY <1>5, <1>7, <2>1, <2>3 DEF Located, Unrelated, world
    <3> QED BY <1>9, <2>3, <3>1, <3>2 DEF Progress, Busy, Looking, Written
  <2>6. Reported'
    BY <1>4, <2>1, <2>3 DEF Reported, Unrelated, world
  <2>7. Understood' /\ Aimed'
    BY <2>3 DEF Understood, Aimed, Busy, Looking, Written
  <2>8. Decided'
    BY <1>0, <2>3 DEF VrrInv, Decided, Busy, Looking, Written
  <2> QED BY <2>2, <2>4, <2>5, <2>6, <2>7, <2>8 DEF VrrInv
<1> QED BY <1>8, <1>9

LEMMA ProbeKeeps == VrrInv /\ InitializeProbe => VrrInv'
<1> SUFFICES ASSUME VrrInv, InitializeProbe PROVE VrrInv'
  OBVIOUS
<1>0. vrr.pc = "probe" /\ vrr \in VrrRuns /\ vrr.todo # {}
  BY DEF InitializeProbe, VrrInv, Progress
<1> DEFINE results == [m \in Monitors |-> IF m \in vrr.todo THEN "Unavailable" ELSE vrr.results[m]]
<1>1. CASE Ends(results, Summarize(results))
  <2>1. results \in [Monitors -> VrrStatuses \cup {NoStatus}]
    BY <1>0 DEF VrrRuns, VrrStatuses
  <2>2. results # NoResults
    <3>1. PICK m \in vrr.todo : m \in Monitors
      BY <1>0 DEF VrrRuns
    <3>2. results[m] = "Unavailable"
      BY <3>1
    <3> QED BY <3>1, <3>2 DEF NoResults, NoStatus
  <2>3. \A m \in Monitors \ touched : Fits(results[m], driver[m], original[m])
    <3>1. \A m \in Monitors \ touched : Fits(vrr.results[m], driver[m], original[m])
      BY <1>0 DEF VrrInv, Reported, Written
    <3>2. \A m \in vrr.todo : vrr.results[m] = NoStatus
      BY DEF VrrInv, Progress, Located
    <3> QED BY <3>1, <3>2 DEF Fits, NoStatus
  <2> HIDE DEF results
  <2>4. Summarize(results) \in VrrStatuses
    BY <2>1, <2>2, SummaryIsAStatus
  <2> QED BY <1>1, <2>1, <2>3, <2>4, EndsKeeps
<1>2. CASE vrr' = [vrr EXCEPT !.pc = "next"] /\ UNCHANGED Unrelated
  <2>1. vrr' \in VrrRuns
    BY <1>0, <1>2 DEF VrrRuns
  <2>2. /\ vrr'.pc = "next" /\ vrr'.todo = vrr.todo /\ vrr'.results = vrr.results
        /\ vrr'.at = vrr.at /\ vrr'.handle = vrr.handle /\ vrr'.requested = vrr.requested
    BY <1>0, <1>2 DEF VrrRuns
  <2>3. WorldTypes' /\ SettledStay'
    BY <1>2 DEF VrrInv, WorldTypes, SettledStay, Unrelated, world
  <2>4. Progress'
    BY <1>0, <1>2, <2>2 DEF VrrInv, Progress, Located, Busy, Looking, Written, Unrelated, world
  <2>5. Reported'
    BY <1>0, <1>2, <2>2 DEF VrrInv, Reported, Written, Unrelated, world
  <2>6. Understood' /\ Decided' /\ Aimed'
    BY <1>0, <2>2 DEF VrrInv, Understood, Decided, Aimed, Busy, Looking, Written
  <2> QED BY <2>1, <2>3, <2>4, <2>5, <2>6 DEF VrrInv
<1> QED BY <1>1, <1>2 DEF InitializeProbe

\* What a query that succeeds returns is in force for the panel on the display.
LEMMA QueryIsTrue ==
    ASSUME WorldTypes, NEW t \in TargetIds, NEW s \in QueryResults(t)
    PROVE  /\ s \in Queried
           /\ s.exact => /\ port[t] \in Monitors
                         /\ s.profile = driver[port[t]].profile /\ s.range = driver[port[t]].range
<1>1. NoState \in Queried /\ [NoState EXCEPT !.ambiguous = TRUE] \in Queried
  BY DEF Queried, NoState, Profiles, Standard, Ranges
<1>2. ~NoState.exact /\ ~([NoState EXCEPT !.ambiguous = TRUE]).exact
  BY DEF NoState
<1>3. CASE s = IntelState(t) /\ port[t] # NoMonitor
  <2>1. port[t] \in Monitors
    BY <1>3 DEF WorldTypes
  <2>2. /\ driver[port[t]].profile \in Profiles /\ driver[port[t]].range \in Ranges
        /\ cap[port[t]] \in {"none", "native", "half"}
    BY <2>1 DEF WorldTypes, InForce
  <2> QED BY <1>3, <2>1, <2>2 DEF IntelState, Queried
<1> QED BY <1>1, <1>2, <1>3 DEF QueryResults

\* A step that stays with the panel in hand, on the same side of the write.
LEMMA GoesOn ==
    ASSUME VrrInv, vrr.pc \in Looking \cup Written,
           vrr'.pc \in IF vrr.pc \in Looking THEN Looking ELSE Written,
           vrr'.item = vrr.item, vrr'.todo = vrr.todo, vrr'.at = vrr.at,
           vrr'.results = vrr.results, vrr'.handle \in {vrr.handle, NoTarget, Target},
           UNCHANGED Unrelated
    PROVE  WorldTypes' /\ Progress' /\ Reported' /\ SettledStay'
<1>1. WorldTypes' /\ SettledStay'
  BY DEF VrrInv, WorldTypes, SettledStay, Unrelated, world
<1>2. Progress'
  <2>1. vrr.pc \in Busy /\ vrr'.pc \in Busy
        /\ vrr'.pc \notin {"probe", "next", "idle", "targets", "done"}
    BY DEF Busy, Looking, Written
  <2>2. \A m \in Monitors : Located(m) => Located(m)'
    BY DEF Located, Unrelated, world
  <2>3. vrr.item \in Monitors /\ vrr.todo \subseteq Monitors
    BY <2>1 DEF VrrInv, Progress, VrrRuns
  <2>4. Target' = Target
    BY DEF Target
  <2>5. vrr'.handle # NoTarget => vrr'.handle = Target
    BY DEF VrrInv, Progress
  <2> QED BY <2>1, <2>2, <2>3, <2>4, <2>5 DEF VrrInv, Progress
<1>3. Reported'
  BY DEF VrrInv, Reported, Unrelated, world, Looking, Written
<1> QED BY <1>1, <1>2, <1>3

\* A run that has looked at a panel is a run.
LEMMA QueriedIsTyped ==
    ASSUME NEW v \in VrrRuns, NEW pc \in Busy, NEW todo \in SUBSET Monitors, NEW m \in Monitors,
           NEW s \in Queried, NEW handle \in TargetIds \cup {NoTarget}
    PROVE  [v EXCEPT !.pc = pc, !.todo = todo, !.item = m, !.before = s, !.handle = handle]
             \in VrrRuns
BY DEF VrrRuns

LEMMA QueryKeeps == VrrInv /\ QueryTarget => VrrInv'
<1> SUFFICES ASSUME VrrInv, QueryTarget PROVE VrrInv'
  OBVIOUS
<1>0. vrr.pc = "next" /\ vrr \in VrrRuns
  BY DEF QueryTarget, VrrInv
<1>m. PICK m \in vrr.todo : \E s \in QueryResults(vrr.at[m]) :
        vrr' = [vrr EXCEPT !.pc = IF kind[m] = "Claw7" THEN "evidence" ELSE "decide",
                           !.todo = @ \ {m}, !.item = m, !.before = s,
                           !.handle = IF s.exact THEN vrr.at[m] ELSE NoTarget]
  BY DEF QueryTarget
<1>1. PICK s \in QueryResults(vrr.at[m]) :
        vrr' = [vrr EXCEPT !.pc = IF kind[m] = "Claw7" THEN "evidence" ELSE "decide",
                           !.todo = @ \ {m}, !.item = m, !.before = s,
                           !.handle = IF s.exact THEN vrr.at[m] ELSE NoTarget]
  BY <1>m
<1>u. UNCHANGED Unrelated
  BY DEF QueryTarget
<1>2. Located(m) /\ m \in Monitors /\ WorldTypes
  BY <1>0 DEF VrrInv, Progress, VrrRuns
<1>3. /\ s \in Queried
      /\ s.exact => /\ s.profile = driver[port[vrr.at[m]]].profile
                    /\ s.range = driver[port[vrr.at[m]]].range
  BY <1>2, QueryIsTrue DEF Located
<1> DEFINE pc == IF kind[m] = "Claw7" THEN "evidence" ELSE "decide"
           handle == IF s.exact THEN vrr.at[m] ELSE NoTarget
           todo == vrr.todo \ {m}
<1>a. vrr' = [vrr EXCEPT !.pc = pc, !.todo = todo, !.item = m, !.before = s, !.handle = handle]
  BY <1>1
<1>b. /\ pc \in {"evidence", "decide"} /\ handle \in {NoTarget, vrr.at[m]}
      /\ todo \subseteq Monitors /\ todo = vrr.todo \ {m}
  BY <1>0 DEF VrrRuns
<1> HIDE DEF pc, handle, todo
<1>4. vrr' \in VrrRuns
  <2>1. pc \in Busy /\ handle \in TargetIds \cup {NoTarget} /\ m \in Monitors \cup {NoMonitor}
    BY <1>2, <1>b DEF Busy, Looking, Located
  <2>2. todo \in SUBSET Monitors
    BY <1>b
  <2>3. [vrr EXCEPT !.pc = pc, !.todo = todo, !.item = m, !.before = s, !.handle = handle]
          \in VrrRuns
    BY <1>0, <1>2, <1>3, <2>1, <2>2, QueriedIsTyped
  <2> QED BY <1>a, <2>3
<1>5. /\ vrr'.pc \in {"evidence", "decide"} /\ vrr'.todo = vrr.todo \ {m} /\ vrr'.item = m
      /\ vrr'.before = s /\ vrr'.at = vrr.at /\ vrr'.results = vrr.results
      /\ vrr'.handle \in {NoTarget, vrr.at[m]} /\ vrr'.requested = vrr.requested
  BY <1>0, <1>a, <1>b DEF VrrRuns
<1>6. WorldTypes' /\ SettledStay'
  BY <1>u DEF VrrInv, WorldTypes, SettledStay, Unrelated, world
<1>7. Progress'
  <2>1. \A n \in vrr.todo : Located(n)'
    BY <1>u, <1>5 DEF VrrInv, Progress, Located, Unrelated, world
  <2> QED BY <1>2, <1>5, <2>1 DEF Progress, Target, Busy, Looking
<1>8. Reported'
  BY <1>0, <1>u, <1>5 DEF VrrInv, Reported, Written, Unrelated, world
<1>9. Understood'
  <2>1. m \notin touched => port[vrr.at[m]] = m /\ driver[m] = original[m]
    BY <1>0, <1>2 DEF Located, VrrInv, Reported, Fits, NoStatus, Written
  <2>2. m \notin touched /\ s.exact =>
           s.profile = original[m].profile /\ s.range = original[m].range
    BY <1>3, <2>1
  <2> QED BY <1>u, <1>5, <2>2 DEF Understood, Written, Unrelated, world
<1>10. Decided' /\ Aimed'
  BY <1>0, <1>5 DEF VrrInv, Decided, Aimed, Busy, Looking, Written
<1> QED BY <1>4, <1>6, <1>7, <1>8, <1>9, <1>10 DEF VrrInv

\* Before its write, the run has changed nothing of the panel in hand.
LEMMA LookingFits ==
    ASSUME VrrInv, vrr.pc \in Looking
    PROVE  /\ vrr.item \in Monitors /\ vrr.pc \in Busy
           /\ vrr.item \notin touched => /\ driver[vrr.item] = original[vrr.item]
                                         /\ port[Target] = vrr.item
           /\ \A status \in {"Unavailable", "AmbiguousDisplay", "UnsupportedPanel",
                             "SkippedUserProfile", "ApplyFailed"} :
                 vrr.item \notin touched => Fits(status, driver[vrr.item], original[vrr.item])
<1>1. vrr.pc \in Busy /\ vrr.pc \notin Written \cup {"unwritten"}
  BY DEF Busy, Looking, Written
<1>2. vrr.item \in Monitors /\ Located(vrr.item)
  BY <1>1 DEF VrrInv, Progress
<1>3. vrr.item \notin touched => driver[vrr.item] = original[vrr.item]
  BY <1>1, <1>2 DEF VrrInv, Reported, Located, Fits, NoStatus
<1> QED BY <1>1, <1>2, <1>3 DEF Fits, Located, Target

LEMMA EvidenceIsTrue ==
    ASSUME NEW m, NEW t, NEW b \in BOOLEAN, NEW e \in Evidence(m, t, b)
    PROVE  e \in [physical: BOOLEAN, direct: BOOLEAN] /\ (e.physical => m \notin staged)
<1> DEFINE D == IF b THEN DirectRange(t) ELSE {FALSE}
<1>0. Evidence(m, t, b) = {[physical |-> p, direct |-> d] : p \in PhysicalEdid(m), d \in D}
  BY DEF Evidence
<1>a. D \subseteq BOOLEAN
  BY DEF DirectRange
<1> HIDE DEF D
<1>1. PICK p \in PhysicalEdid(m), d \in D : e = [physical |-> p, direct |-> d]
  BY <1>0
<1>2. p \in BOOLEAN /\ (p => m \notin staged)
  <2>1. (m \notin staged) \in BOOLEAN
    OBVIOUS
  <2> QED BY <1>1, <2>1 DEF PhysicalEdid
<1>3. d \in BOOLEAN
  BY <1>a, <1>1
<1> QED BY <1>1, <1>2, <1>3

LEMMA CollectKeeps == VrrInv /\ CollectEvidence => VrrInv'
<1> SUFFICES ASSUME VrrInv, CollectEvidence PROVE VrrInv'
  OBVIOUS
<1>0. vrr.pc = "evidence" /\ vrr \in VrrRuns /\ UNCHANGED Unrelated
  BY DEF CollectEvidence, VrrInv
<1>1. PICK e \in Evidence(vrr.item, Target, vrr.before.cap = "half") :
        vrr' = [vrr EXCEPT !.pc = "decide", !.evidence = e]
  BY DEF CollectEvidence
<1>2. e \in [physical: BOOLEAN, direct: BOOLEAN]
  BY EvidenceIsTrue
<1>3. vrr' \in VrrRuns
  BY <1>0, <1>1, <1>2 DEF VrrRuns, Busy, Looking
<1>4. /\ vrr'.pc = "decide" /\ vrr'.item = vrr.item /\ vrr'.todo = vrr.todo
      /\ vrr'.at = vrr.at /\ vrr'.results = vrr.results /\ vrr'.handle = vrr.handle
      /\ vrr'.before = vrr.before /\ vrr'.requested = vrr.requested
  BY <1>0, <1>1 DEF VrrRuns
<1>5. WorldTypes' /\ Progress' /\ Reported' /\ SettledStay'
  <2>1. vrr.pc \in Looking /\ vrr'.pc \in Looking
    BY <1>0, <1>4 DEF Looking
  <2> QED BY <1>0, <1>4, <2>1, GoesOn
<1>6. Understood' /\ Decided' /\ Aimed'
  BY <1>0, <1>4 DEF VrrInv, Understood, Decided, Aimed, Busy, Looking, Written, Unrelated, world
<1> QED BY <1>3, <1>5, <1>6 DEF VrrInv

\* What each policy answers, and from what.
LEMMA DecisionIsSound ==
    ASSUME NEW m \in Monitors, NEW s \in Queried, NEW e
    PROVE  LET status == Decision(m, s, e)
           IN  /\ status \in {"Unavailable", "AmbiguousDisplay", "UnsupportedPanel",
                              "SkippedUserProfile", "AlreadyCorrect", "Applied"}
               /\ status \in {"AlreadyCorrect", "Applied"} => s.exact
               /\ status = "AlreadyCorrect" => Native(s.range)
BY DEF Decision, EvaluateClawInternalProfile, EvaluateTma2027Profile,
       EvaluateLg27gs65fProductionProfile, Native, Queried, Ranges, Profiles

LEMMA DecideKeeps == VrrInv /\ Decide => VrrInv'
<1> SUFFICES ASSUME VrrInv, Decide PROVE VrrInv'
  OBVIOUS
<1> DEFINE status == Decision(vrr.item, vrr.before, vrr.evidence)
<1>0. /\ vrr.pc = "decide" /\ vrr \in VrrRuns /\ vrr.pc \in Looking
      /\ IF status = "Applied"
           THEN vrr' = [vrr EXCEPT !.pc = "revalidate"] /\ UNCHANGED Unrelated
           ELSE Settles(status)
  BY DEF Decide, VrrInv, Looking
<1>1. vrr.item \in Monitors /\ vrr.pc \in Busy
  BY <1>0, LookingFits
<1>2. /\ status \in {"Unavailable", "AmbiguousDisplay", "UnsupportedPanel",
                     "SkippedUserProfile", "AlreadyCorrect", "Applied"}
      /\ status \in {"AlreadyCorrect", "Applied"} => vrr.before.exact
      /\ status = "AlreadyCorrect" => Native(vrr.before.range)
  BY <1>0, <1>1, DecisionIsSound DEF VrrRuns
<1> HIDE DEF status
<1>3. CASE status # "Applied"
  <2>1. vrr.item \notin touched => Fits(status, driver[vrr.item], original[vrr.item])
    <3>1. CASE status = "AlreadyCorrect"
      <4>1. vrr.item \notin touched => /\ vrr.before.range = original[vrr.item].range
                                       /\ driver[vrr.item] = original[vrr.item]
        BY <1>0, <1>1, <1>2, <3>1, LookingFits DEF VrrInv, Understood
      <4> QED BY <1>2, <3>1, <4>1 DEF Fits
    <3> QED BY <1>0, <1>2, <1>3, <3>1, LookingFits
  <2>2. status \in VrrStatuses
    BY <1>2 DEF VrrStatuses
  <2> QED BY <1>0, <1>1, <1>3, <2>1, <2>2, SettlesKeeps
<1>4. CASE status = "Applied"
  <2>1. vrr' = [vrr EXCEPT !.pc = "revalidate"] /\ UNCHANGED Unrelated
    BY <1>0, <1>4
  <2>2. vrr' \in VrrRuns
    BY <1>0, <2>1 DEF VrrRuns, Busy, Looking
  <2>3. /\ vrr'.pc = "revalidate" /\ vrr'.item = vrr.item /\ vrr'.todo = vrr.todo
        /\ vrr'.at = vrr.at /\ vrr'.results = vrr.results /\ vrr'.handle = vrr.handle
        /\ vrr'.before = vrr.before /\ vrr'.requested = vrr.requested
    BY <1>0, <2>1 DEF VrrRuns
  <2>4. WorldTypes' /\ Progress' /\ Reported' /\ SettledStay'
    <3>1. vrr'.pc \in Looking
      BY <2>3 DEF Looking
    <3> QED BY <1>0, <2>1, <2>3, <3>1, GoesOn
  <2>5. Understood' /\ Decided' /\ Aimed'
    BY <1>0, <1>2, <1>4, <2>1, <2>3 DEF VrrInv, Understood, Decided, Aimed, Busy, Looking, Written,
       Unrelated, world
  <2> QED BY <2>2, <2>4, <2>5 DEF VrrInv
<1> QED BY <1>3, <1>4

LEMMA RevalidateKeeps == VrrInv /\ RevalidateTarget => VrrInv'
<1> SUFFICES ASSUME VrrInv, RevalidateTarget PROVE VrrInv'
  OBVIOUS
<1>0. vrr.pc = "revalidate" /\ vrr \in VrrRuns /\ vrr.pc \in Looking
  BY DEF RevalidateTarget, VrrInv, Looking
<1>1. PICK targets \in WindowsTargets :
        LET match == ResolvePanelWindowsTarget(vrr.item, targets)
        IN  IF match.status = "Exact" /\ match.target = Target
              THEN /\ vrr' = [vrr EXCEPT !.pc = IF kind[vrr.item] = "Claw7"
                                                  THEN "confirm" ELSE "compare"]
                   /\ UNCHANGED Unrelated
              ELSE Settles("AmbiguousDisplay")
  BY DEF RevalidateTarget
<1>2. CASE Settles("AmbiguousDisplay")
  BY <1>0, <1>2, LookingFits, SettlesKeeps DEF VrrStatuses
<1> DEFINE pc == IF kind[vrr.item] = "Claw7" THEN "confirm" ELSE "compare"
<1>3. CASE /\ ResolvePanelWindowsTarget(vrr.item, targets).status = "Exact"
           /\ ResolvePanelWindowsTarget(vrr.item, targets).target = Target
           /\ vrr' = [vrr EXCEPT !.pc = pc] /\ UNCHANGED Unrelated
  <2>1. port[Target] = vrr.item
    BY <1>0, <1>3, LookingFits, ExactMatch
  <2>2. pc \in {"confirm", "compare"} /\ (pc = "compare" => kind[vrr.item] # "Claw7")
    OBVIOUS
  <2> HIDE DEF pc
  <2>3. vrr' \in VrrRuns
    BY <1>0, <1>3, <2>2 DEF VrrRuns, Busy, Looking
  <2>4. /\ vrr'.pc = pc /\ vrr'.item = vrr.item /\ vrr'.todo = vrr.todo
        /\ vrr'.at = vrr.at /\ vrr'.results = vrr.results /\ vrr'.handle = vrr.handle
        /\ vrr'.before = vrr.before /\ vrr'.requested = vrr.requested
    BY <1>0, <1>3 DEF VrrRuns
  <2>5. WorldTypes' /\ Progress' /\ Reported' /\ SettledStay'
    <3>1. vrr'.pc \in Looking
      BY <2>2, <2>4 DEF Looking
    <3> QED BY <1>0, <1>3, <2>4, <3>1, GoesOn
  <2>6. Understood' /\ Decided'
    BY <1>0, <1>3, <2>2, <2>4 DEF VrrInv, Understood, Decided, Busy, Looking, Written,
       Unrelated, world
  <2>7. Aimed'
    BY <1>3, <2>1, <2>2, <2>4 DEF Aimed, Target, Unrelated, world
  <2> QED BY <2>3, <2>5, <2>6, <2>7 DEF VrrInv
<1> QED BY <1>1, <1>2, <1>3

LEMMA ConfirmKeeps == VrrInv /\ ConfirmEvidence => VrrInv'
<1> SUFFICES ASSUME VrrInv, ConfirmEvidence PROVE VrrInv'
  OBVIOUS
<1>0. vrr.pc = "confirm" /\ vrr \in VrrRuns /\ vrr.pc \in Looking
  BY DEF ConfirmEvidence, VrrInv, Looking
<1>1. PICK e \in Evidence(vrr.item, Target, vrr.before.cap = "half") :
        IF Verifies(vrr.before, e)
          THEN vrr' = [vrr EXCEPT !.pc = "compare", !.evidence = e] /\ UNCHANGED Unrelated
          ELSE Settles("Unavailable")
  BY DEF ConfirmEvidence
<1>2. CASE Settles("Unavailable")
  BY <1>0, <1>2, LookingFits, SettlesKeeps DEF VrrStatuses
<1>3. CASE /\ Verifies(vrr.before, e) /\ UNCHANGED Unrelated
           /\ vrr' = [vrr EXCEPT !.pc = "compare", !.evidence = e]
  <2>1. e \in [physical: BOOLEAN, direct: BOOLEAN] /\ vrr.item \notin staged
    BY <1>3, EvidenceIsTrue DEF Verifies
  <2>2. vrr' \in VrrRuns
    BY <1>0, <1>3, <2>1 DEF VrrRuns, Busy, Looking
  <2>3. /\ vrr'.pc = "compare" /\ vrr'.item = vrr.item /\ vrr'.todo = vrr.todo
        /\ vrr'.at = vrr.at /\ vrr'.results = vrr.results /\ vrr'.handle = vrr.handle
        /\ vrr'.before = vrr.before /\ vrr'.requested = vrr.requested
    BY <1>0, <1>3 DEF VrrRuns
  <2>4. WorldTypes' /\ Progress' /\ Reported' /\ SettledStay'
    <3>1. vrr'.pc \in Looking
      BY <2>3 DEF Looking
    <3> QED BY <1>0, <1>3, <2>3, <3>1, GoesOn
  <2>5. Understood' /\ Decided'
    BY <1>0, <1>3, <2>3 DEF VrrInv, Understood, Decided, Busy, Looking, Written,
       Unrelated, world
  <2>6. Aimed'
    BY <1>0, <1>3, <2>1, <2>3 DEF VrrInv, Aimed, Target, Unrelated, world
  <2> QED BY <2>2, <2>4, <2>5, <2>6 DEF VrrInv
<1> QED BY <1>1, <1>2, <1>3

\* What a change was allowed on: the profile in force is a standard one, and a
\* change to EXCELLENT meets a narrowed range.
LEMMA AllowedMeans ==
    ASSUME WorldTypes, vrr.item \in Monitors, Target \in TargetIds,
           NEW expected \in Queried, MayWrite(expected)
    PROVE  /\ port[Target] \in Monitors
           /\ driver[port[Target]].profile = expected.profile
           /\ driver[port[Target]].range = expected.range
           /\ expected.profile \in Standard
           /\ vrr.requested = "Excellent" => ~Native(expected.range)
<1>1. /\ port[Target] \in Monitors
      /\ driver[port[Target]].profile = expected.profile
      /\ driver[port[Target]].range = expected.range
  BY DEF MayWrite, IntelState, WorldTypes
<1>2. IsIntelVrrProfileChangeAllowed(vrr.item, expected, vrr.requested, vrr.evidence)
  BY DEF MayWrite
<1>3. expected.profile \in Standard /\ (vrr.requested = "Excellent" => ~Native(expected.range))
  BY <1>2 DEF IsIntelVrrProfileChangeAllowed, Native, Standard, Queried
<1> QED BY <1>1, <1>3

LEMMA CompareKeeps == VrrInv /\ CompareBeforeApply => VrrInv'
<1> SUFFICES ASSUME VrrInv, CompareBeforeApply PROVE VrrInv'
  OBVIOUS
<1>0. vrr.pc = "compare" /\ vrr \in VrrRuns /\ vrr.pc \in Looking
  BY DEF CompareBeforeApply, VrrInv, Looking
<1>1. CASE Settles("Unavailable")
  BY <1>0, <1>1, LookingFits, SettlesKeeps DEF VrrStatuses
<1>2. CASE /\ MayWrite(vrr.before)
           /\ vrr' = [vrr EXCEPT !.pc = "write", !.handle = NoTarget]
           /\ UNCHANGED Unrelated
  <2>1. vrr' \in VrrRuns
    BY <1>0, <1>2 DEF VrrRuns, Busy, Looking
  <2>2. /\ vrr'.pc = "write" /\ vrr'.item = vrr.item /\ vrr'.todo = vrr.todo
        /\ vrr'.at = vrr.at /\ vrr'.results = vrr.results /\ vrr'.handle = NoTarget
        /\ vrr'.before = vrr.before /\ vrr'.requested = vrr.requested
    BY <1>0, <1>2 DEF VrrRuns
  <2>3. WorldTypes' /\ Progress' /\ Reported' /\ SettledStay'
    <3>1. vrr'.pc \in Looking
      BY <2>2 DEF Looking
    <3> QED BY <1>0, <1>2, <2>2, <3>1, GoesOn
  <2>4. Understood' /\ Decided'
    BY <1>0, <1>2, <2>2 DEF VrrInv, Understood, Decided, Busy, Looking, Written, Unrelated, world
  <2>5. Aimed'
    <3>1. vrr.item \in Monitors /\ Target \in TargetIds /\ vrr.before \in Queried
          /\ vrr.requested = "Excellent"
      BY <1>0, LookingFits DEF VrrInv, Progress, Located, Target, VrrRuns, Decided
    <3>2. /\ port[Target] \in Monitors
          /\ driver[port[Target]].profile \in Standard
          /\ ~Native(driver[port[Target]].range)
      BY <1>2, <3>1, AllowedMeans DEF VrrInv
    <3>3. port[Target] \notin settled
      BY <3>2 DEF VrrInv, SettledStay
    <3>4. excused \cap {"target", "profile"} # {} \/ driver[vrr.item].profile \in Standard
      BY <1>0, <3>2 DEF VrrInv, Aimed
    <3> QED BY <1>0, <1>2, <2>2, <3>3, <3>4 DEF VrrInv, Aimed, Target, Unrelated, world
  <2> QED BY <2>1, <2>3, <2>4, <2>5 DEF VrrInv
<1> QED BY <1>1, <1>2 DEF CompareBeforeApply

\* A write changes the panel in hand, or one that was touched; and never one
\* that was settled.
LEMMA SetsKeeps ==
    ASSUME VrrInv, vrr.pc \in {"write", "unwrite"}, NEW profile \in Profiles, DriverSets(profile),
           UNCHANGED <<runs, changes, history>>,
           vrr'.pc \in Written \cup {"unwritten"}, vrr'.item = vrr.item, vrr'.todo = vrr.todo,
           vrr'.at = vrr.at, vrr'.results = vrr.results, vrr'.handle = vrr.handle
    PROVE  /\ WorldTypes' /\ Progress' /\ Reported' /\ SettledStay'
           /\ vrr.item \notin touched => driver'[vrr.item].profile = profile
<1> DEFINE m == port[Target]
<1>0. /\ vrr.pc \in Busy /\ vrr'.pc \in Busy
      /\ vrr'.pc \notin {"probe", "next", "idle", "targets", "done"}
  BY DEF Busy, Looking, Written
<1>1. vrr.item \in Monitors /\ Located(vrr.item) /\ WorldTypes /\ Target \in TargetIds
  BY <1>0 DEF VrrInv, Progress, Located, Target
<1>2. PICK range \in {"full", "near", "narrow"} :
        driver' = [driver EXCEPT ![m] = [profile |-> profile, range |-> range]]
  BY DEF DriverSets
<1>3. UNCHANGED <<kind, cap, port, staged, runs, changes, original, touched, settled, excused>>
      /\ m \in Monitors
  BY <1>1 DEF DriverSets, history, WorldTypes
<1>4. m = vrr.item \/ (m \in touched /\ vrr.item \in touched)
  BY <1>1, <1>3, PanelAssumption DEF Located, Target
<1>5. m \notin settled
  BY DEF VrrInv, Aimed
<1> HIDE DEF m
<1>6. /\ driver'[m].profile = profile
      /\ \A n \in Monitors : n # m => driver'[n] = driver[n]
  BY <1>1, <1>2, <1>3 DEF WorldTypes
<1>7. WorldTypes'
  <2>1. [profile |-> profile, range |-> range] \in InForce
    BY DEF InForce, Ranges
  <2>2. driver' \in [Monitors -> InForce]
    BY <1>1, <1>2, <1>3, <2>1 DEF WorldTypes
  <2> QED BY <1>1, <1>3, <2>2 DEF WorldTypes
<1>8. Progress'
  <2>1. \A n : Located(n) => Located(n)'
    BY <1>3 DEF Located
  <2>2. Target' = Target
    BY DEF Target
  <2> QED BY <1>0, <2>1, <2>2 DEF VrrInv, Progress
<1>9. Reported'
  <2>1. \A n \in Monitors \ touched : n = vrr.item \/ Fits(vrr.results[n], driver[n], original[n])
    BY DEF VrrInv, Reported
  <2> QED BY <1>3, <1>4, <1>6, <2>1 DEF Reported
<1>10. SettledStay'
  BY <1>1, <1>3, <1>5, <1>6 DEF VrrInv, SettledStay, WorldTypes
<1>11. vrr.item \notin touched => driver'[vrr.item].profile = profile
  BY <1>4, <1>6
<1> QED BY <1>7, <1>8, <1>9, <1>10, <1>11

LEMMA WriteKeeps == VrrInv /\ WriteProfile => VrrInv'
<1> SUFFICES ASSUME VrrInv, WriteProfile PROVE VrrInv'
  OBVIOUS
<1>0. vrr.pc = "write" /\ vrr \in VrrRuns /\ vrr.pc \in Looking
  BY DEF WriteProfile, VrrInv, Looking
<1>1. CASE Settles("ApplyFailed")
  BY <1>0, <1>1, LookingFits, SettlesKeeps DEF VrrStatuses
<1>2. CASE /\ DriverSets("Excellent") /\ vrr' = [vrr EXCEPT !.pc = "recheck"]
           /\ UNCHANGED <<runs, changes, history>>
  <2>1. vrr' \in VrrRuns
    BY <1>0, <1>2 DEF VrrRuns, Busy, Written
  <2>2. /\ vrr'.pc = "recheck" /\ vrr'.item = vrr.item /\ vrr'.todo = vrr.todo
        /\ vrr'.at = vrr.at /\ vrr'.results = vrr.results /\ vrr'.handle = vrr.handle
        /\ vrr'.before = vrr.before /\ vrr'.requested = vrr.requested
    BY <1>0, <1>2 DEF VrrRuns
  <2>3. /\ WorldTypes' /\ Progress' /\ Reported' /\ SettledStay'
        /\ vrr.item \notin touched => driver'[vrr.item].profile = "Excellent"
    <3>1. vrr'.pc \in Written \cup {"unwritten"} /\ "Excellent" \in Profiles
      BY <2>2 DEF Written, Profiles, Standard
    <3> QED BY <1>0, <1>2, <2>2, <3>1, SetsKeeps
  <2>4. Understood'
    BY <1>0, <1>2, <2>2, <2>3 DEF VrrInv, Understood, Busy, history
  <2>5. Decided' /\ Aimed'
    BY <1>0, <1>2, <2>2 DEF VrrInv, Decided, Aimed, Busy, Looking
  <2> QED BY <2>1, <2>3, <2>4, <2>5 DEF VrrInv
<1> QED BY <1>1, <1>2 DEF WriteProfile

\* After its write, a panel that is left to VerificationFailed has EXCELLENT in
\* force, or what it had.
LEMMA WrittenFits ==
    ASSUME VrrInv, vrr.pc \in Written \cup {"unwritten"}
    PROVE  /\ vrr.item \in Monitors /\ vrr.pc \in Busy /\ Target \in TargetIds
           /\ "VerificationFailed" \in VrrStatuses
           /\ vrr.item \notin touched =>
                /\ port[Target] = vrr.item
                /\ Fits("VerificationFailed", driver[vrr.item], original[vrr.item])
<1>1. vrr.pc \in Busy
  BY DEF Busy
<1>2. vrr.item \in Monitors /\ Located(vrr.item)
  BY <1>1 DEF VrrInv, Progress
<1>3. vrr.item \notin touched =>
         driver[vrr.item].profile \in {"Excellent", original[vrr.item].profile}
  BY <1>1 DEF VrrInv, Understood
<1> QED BY <1>1, <1>2, <1>3 DEF Fits, Located, Target, VrrStatuses

LEMMA RecheckKeeps == VrrInv /\ RevalidateAfterApply => VrrInv'
<1> SUFFICES ASSUME VrrInv, RevalidateAfterApply PROVE VrrInv'
  OBVIOUS
<1>0. vrr.pc = "recheck" /\ vrr \in VrrRuns /\ vrr.pc \in Written
  BY DEF RevalidateAfterApply, VrrInv, Written
<1>1. CASE Settles("VerificationFailed")
  BY <1>0, <1>1, WrittenFits, SettlesKeeps
<1>2. CASE vrr' = [vrr EXCEPT !.pc = "readback"] /\ UNCHANGED Unrelated
  <2>1. vrr' \in VrrRuns
    BY <1>0, <1>2 DEF VrrRuns, Busy, Written
  <2>2. /\ vrr'.pc = "readback" /\ vrr'.item = vrr.item /\ vrr'.todo = vrr.todo
        /\ vrr'.at = vrr.at /\ vrr'.results = vrr.results /\ vrr'.handle = vrr.handle
        /\ vrr'.before = vrr.before /\ vrr'.requested = vrr.requested
    BY <1>0, <1>2 DEF VrrRuns
  <2>3. WorldTypes' /\ Progress' /\ Reported' /\ SettledStay'
    <3>1. vrr'.pc \in Written /\ vrr.pc \notin Looking
      BY <1>0, <2>2 DEF Looking, Written
    <3> QED BY <1>0, <1>2, <2>2, <3>1, GoesOn
  <2>4. Understood' /\ Decided' /\ Aimed'
    BY <1>0, <1>2, <2>2 DEF VrrInv, Understood, Decided, Aimed, Busy, Looking, Written,
       Unrelated, world
  <2> QED BY <2>1, <2>3, <2>4 DEF VrrInv
<1> QED BY <1>1, <1>2 DEF RevalidateAfterApply

LEMMA ReadBackKeeps == VrrInv /\ ReadBack => VrrInv'
<1> SUFFICES ASSUME VrrInv, ReadBack PROVE VrrInv'
  OBVIOUS
<1>0. vrr.pc = "readback" /\ vrr \in VrrRuns /\ vrr.pc \in Written /\ UNCHANGED Unrelated
  BY DEF ReadBack, VrrInv, Written
<1> DEFINE pc == IF kind[vrr.item] = "Claw7" THEN "reconfirm" ELSE "verify"
<1>1. PICK s \in QueryResults(Target) :
        vrr' = [vrr EXCEPT !.pc = pc, !.after = s,
                           !.handle = IF s.exact THEN Target ELSE NoTarget]
  BY DEF ReadBack
<1> DEFINE handle == IF s.exact THEN Target ELSE NoTarget
<1>2. vrr.item \in Monitors /\ Target \in TargetIds
      /\ (vrr.item \notin touched => port[Target] = vrr.item)
  BY <1>0, WrittenFits
<1>3. /\ s \in Queried
      /\ s.exact => /\ s.profile = driver[port[Target]].profile
                    /\ s.range = driver[port[Target]].range
  BY <1>2, QueryIsTrue DEF VrrInv
<1>4. pc \in {"reconfirm", "verify"} /\ handle \in {NoTarget, Target}
  OBVIOUS
<1>5. vrr' = [vrr EXCEPT !.pc = pc, !.after = s, !.handle = handle]
  BY <1>1
<1> HIDE DEF pc, handle
<1>6. vrr' \in VrrRuns
  BY <1>0, <1>2, <1>3, <1>4, <1>5 DEF VrrRuns, Busy, Written
<1>7. /\ vrr'.pc = pc /\ vrr'.item = vrr.item /\ vrr'.todo = vrr.todo
      /\ vrr'.at = vrr.at /\ vrr'.results = vrr.results /\ vrr'.handle = handle
      /\ vrr'.before = vrr.before /\ vrr'.after = s /\ vrr'.requested = vrr.requested
  BY <1>0, <1>5 DEF VrrRuns
<1>8. WorldTypes' /\ Progress' /\ Reported' /\ SettledStay'
  <2>1. vrr'.pc \in Written /\ vrr.pc \notin Looking
    BY <1>0, <1>4, <1>7 DEF Looking, Written
  <2> QED BY <1>0, <1>4, <1>7, <2>1, GoesOn
<1>9. Understood'
  BY <1>0, <1>2, <1>3, <1>4, <1>7 DEF VrrInv, Understood, Busy, Written, Unrelated, world
<1>10. Decided' /\ Aimed'
  BY <1>0, <1>4, <1>7 DEF VrrInv, Decided, Aimed, Busy, Looking, Written, Unrelated, world
<1> QED BY <1>6, <1>8, <1>9, <1>10 DEF VrrInv

LEMMA CollectAfterKeeps == VrrInv /\ CollectEvidenceAfter => VrrInv'
<1> SUFFICES ASSUME VrrInv, CollectEvidenceAfter PROVE VrrInv'
  OBVIOUS
<1>0. vrr.pc = "reconfirm" /\ vrr \in VrrRuns /\ vrr.pc \in Written /\ UNCHANGED Unrelated
  BY DEF CollectEvidenceAfter, VrrInv, Written
<1>1. PICK e \in Evidence(vrr.item, Target, vrr.after.cap = "half") :
        vrr' = [vrr EXCEPT !.pc = "verify", !.evidence = e]
  BY DEF CollectEvidenceAfter
<1>2. e \in [physical: BOOLEAN, direct: BOOLEAN]
  BY EvidenceIsTrue
<1>3. vrr' \in VrrRuns
  BY <1>0, <1>1, <1>2 DEF VrrRuns, Busy, Written
<1>4. /\ vrr'.pc = "verify" /\ vrr'.item = vrr.item /\ vrr'.todo = vrr.todo
      /\ vrr'.at = vrr.at /\ vrr'.results = vrr.results /\ vrr'.handle = vrr.handle
      /\ vrr'.before = vrr.before /\ vrr'.after = vrr.after /\ vrr'.requested = vrr.requested
  BY <1>0, <1>1 DEF VrrRuns
<1>5. WorldTypes' /\ Progress' /\ Reported' /\ SettledStay'
  <2>1. vrr'.pc \in Written /\ vrr.pc \notin Looking
    BY <1>0, <1>4 DEF Looking, Written
  <2> QED BY <1>0, <1>4, <2>1, GoesOn
<1>6. Understood' /\ Decided' /\ Aimed'
  BY <1>0, <1>4 DEF VrrInv, Understood, Decided, Aimed, Busy, Looking, Written, Unrelated, world
<1> QED BY <1>3, <1>5, <1>6 DEF VrrInv

LEMMA VerifyKeeps == VrrInv /\ Verify => VrrInv'
<1> SUFFICES ASSUME VrrInv, Verify PROVE VrrInv'
  OBVIOUS
<1>0. vrr.pc = "verify" /\ vrr \in VrrRuns /\ vrr.pc \in Written
  BY DEF Verify, VrrInv, Written
<1>1. CASE Settles("VerificationFailed")
  BY <1>0, <1>1, WrittenFits, SettlesKeeps
<1>2. CASE Verified(vrr.item, vrr.after, vrr.evidence) /\ Settles("Applied")
  <2>1. vrr.item \notin touched => Fits("Applied", driver[vrr.item], original[vrr.item])
    <3>1. vrr.pc \in Busy
      BY <1>0, WrittenFits
    <3>2. vrr.after.exact /\ vrr.after.profile = "Excellent" /\ Native(vrr.after.range)
      BY <1>2 DEF Verified
    <3> QED BY <1>0, <3>1, <3>2 DEF VrrInv, Understood, Fits
  <2> QED BY <1>0, <1>2, <2>1, WrittenFits, SettlesKeeps DEF VrrStatuses
<1>3. CASE /\ ~Verified(vrr.item, vrr.after, vrr.evidence)
           /\ kind[vrr.item] = "Lg" /\ vrr.after.exact /\ vrr.after.cap = "native"
           /\ vrr.after.profile = "Excellent"
           /\ vrr' = [vrr EXCEPT !.pc = "unapply"] /\ UNCHANGED Unrelated
  <2>1. vrr' \in VrrRuns
    BY <1>0, <1>3 DEF VrrRuns, Busy, Written
  <2>2. /\ vrr'.pc = "unapply" /\ vrr'.item = vrr.item /\ vrr'.todo = vrr.todo
        /\ vrr'.at = vrr.at /\ vrr'.results = vrr.results /\ vrr'.handle = vrr.handle
        /\ vrr'.before = vrr.before /\ vrr'.after = vrr.after /\ vrr'.requested = vrr.requested
    BY <1>0, <1>3 DEF VrrRuns
  <2>3. WorldTypes' /\ Progress' /\ Reported' /\ SettledStay'
    <3>1. vrr'.pc \in Written /\ vrr.pc \notin Looking
      BY <1>0, <2>2 DEF Looking, Written
    <3> QED BY <1>0, <1>3, <2>2, <3>1, GoesOn
  <2>4. ~Native(vrr.after.range)
    BY <1>3 DEF Verified
  <2>5. Understood' /\ Decided' /\ Aimed'
    BY <1>0, <1>3, <2>2, <2>4 DEF VrrInv, Understood, Decided, Aimed, Busy, Looking, Written,
       Unrelated, world
  <2> QED BY <2>1, <2>3, <2>5 DEF VrrInv
<1> QED BY <1>1, <1>2, <1>3 DEF Verify

LEMMA BeforeRollbackKeeps == VrrInv /\ RevalidateBeforeRollback => VrrInv'
<1> SUFFICES ASSUME VrrInv, RevalidateBeforeRollback PROVE VrrInv'
  OBVIOUS
<1>0. vrr.pc = "unapply" /\ vrr \in VrrRuns /\ vrr.pc \in Written
  BY DEF RevalidateBeforeRollback, VrrInv, Written
<1>1. PICK targets \in WindowsTargets :
        LET match == ResolvePanelWindowsTarget(vrr.item, targets)
        IN  IF match.status = "Exact" /\ match.target = Target
              THEN /\ vrr' = [vrr EXCEPT !.pc = "uncompare", !.requested = vrr.before.profile]
                   /\ UNCHANGED Unrelated
              ELSE Settles("VerificationFailed")
  BY DEF RevalidateBeforeRollback
<1>2. CASE Settles("VerificationFailed")
  BY <1>0, <1>2, WrittenFits, SettlesKeeps
<1>3. CASE /\ ResolvePanelWindowsTarget(vrr.item, targets).status = "Exact"
           /\ ResolvePanelWindowsTarget(vrr.item, targets).target = Target
           /\ vrr' = [vrr EXCEPT !.pc = "uncompare", !.requested = vrr.before.profile]
           /\ UNCHANGED Unrelated
  <2>1. port[Target] = vrr.item
    BY <1>0, <1>3, WrittenFits, ExactMatch
  <2>2. vrr.before.profile \in Profiles
    BY <1>0 DEF VrrRuns, Queried
  <2>3. vrr' \in VrrRuns
    BY <1>0, <1>3, <2>2 DEF VrrRuns, Busy, Written
  <2>4. /\ vrr'.pc = "uncompare" /\ vrr'.item = vrr.item /\ vrr'.todo = vrr.todo
        /\ vrr'.at = vrr.at /\ vrr'.results = vrr.results /\ vrr'.handle = vrr.handle
        /\ vrr'.before = vrr.before /\ vrr'.after = vrr.after
        /\ vrr'.requested = vrr.before.profile
    BY <1>0, <1>3 DEF VrrRuns
  <2>5. WorldTypes' /\ Progress' /\ Reported' /\ SettledStay'
    <3>1. vrr'.pc \in Written /\ vrr.pc \notin Looking
      BY <1>0, <2>4 DEF Looking, Written
    <3> QED BY <1>0, <1>3, <2>4, <3>1, GoesOn
  <2>6. Understood' /\ Decided'
    BY <1>0, <1>3, <2>4 DEF VrrInv, Understood, Decided, Busy, Looking, Written, Unrelated, world
  <2>7. Aimed'
    BY <1>3, <2>1, <2>4 DEF Aimed, Target, Unrelated, world
  <2> QED BY <2>3, <2>5, <2>6, <2>7 DEF VrrInv
<1> QED BY <1>1, <1>2, <1>3

LEMMA CompareAfterKeeps == VrrInv /\ CompareBeforeRollback => VrrInv'
<1> SUFFICES ASSUME VrrInv, CompareBeforeRollback PROVE VrrInv'
  OBVIOUS
<1>0. vrr.pc = "uncompare" /\ vrr \in VrrRuns /\ vrr.pc \in Written
  BY DEF CompareBeforeRollback, VrrInv, Written
<1>1. CASE Settles("VerificationFailed")
  BY <1>0, <1>1, WrittenFits, SettlesKeeps
<1>2. CASE /\ MayWrite(vrr.after)
           /\ vrr' = [vrr EXCEPT !.pc = "unwrite", !.handle = NoTarget]
           /\ UNCHANGED Unrelated
  <2>1. vrr' \in VrrRuns
    BY <1>0, <1>2 DEF VrrRuns, Busy, Written
  <2>2. /\ vrr'.pc = "unwrite" /\ vrr'.item = vrr.item /\ vrr'.todo = vrr.todo
        /\ vrr'.at = vrr.at /\ vrr'.results = vrr.results /\ vrr'.handle = NoTarget
        /\ vrr'.before = vrr.before /\ vrr'.after = vrr.after /\ vrr'.requested = vrr.requested
    BY <1>0, <1>2 DEF VrrRuns
  <2>3. WorldTypes' /\ Progress' /\ Reported' /\ SettledStay'
    <3>1. vrr'.pc \in Written /\ vrr.pc \notin Looking
      BY <1>0, <2>2 DEF Looking, Written
    <3> QED BY <1>0, <1>2, <2>2, <3>1, GoesOn
  <2>4. Understood' /\ Decided'
    BY <1>0, <1>2, <2>2 DEF VrrInv, Understood, Decided, Busy, Looking, Written, Unrelated, world
  <2>5. Aimed'
    <3>1. /\ vrr.item \in Monitors /\ Target \in TargetIds /\ vrr.after \in Queried
          /\ ~Native(vrr.after.range)
      BY <1>0, WrittenFits DEF VrrInv, VrrRuns, Decided
    <3>2. /\ port[Target] \in Monitors
          /\ driver[port[Target]].profile \in Standard
          /\ ~Native(driver[port[Target]].range)
      BY <1>2, <3>1, AllowedMeans DEF VrrInv
    <3>3. port[Target] \notin settled
      BY <3>2 DEF VrrInv, SettledStay
    <3>4. excused \cap {"target", "profile"} # {} \/ driver[vrr.item].profile \in Standard
      BY <1>0, <3>2 DEF VrrInv, Aimed
    <3> QED BY <1>0, <1>2, <2>2, <3>3, <3>4 DEF VrrInv, Aimed, Target, Unrelated, world
  <2> QED BY <2>1, <2>3, <2>4, <2>5 DEF VrrInv
<1> QED BY <1>1, <1>2 DEF CompareBeforeRollback

LEMMA RollbackKeeps == VrrInv /\ Rollback => VrrInv'
<1> SUFFICES ASSUME VrrInv, Rollback PROVE VrrInv'
  OBVIOUS
<1>0. /\ vrr.pc = "unwrite" /\ vrr \in VrrRuns /\ vrr.pc \in Written
      /\ DriverSets(vrr.requested) /\ vrr' = [vrr EXCEPT !.pc = "unwritten"]
      /\ UNCHANGED <<runs, changes, history>>
  BY DEF Rollback, VrrInv, Written
<1>1. vrr' \in VrrRuns
  BY <1>0 DEF VrrRuns, Busy
<1>2. /\ vrr'.pc = "unwritten" /\ vrr'.item = vrr.item /\ vrr'.todo = vrr.todo
      /\ vrr'.at = vrr.at /\ vrr'.results = vrr.results /\ vrr'.handle = vrr.handle
      /\ vrr'.before = vrr.before /\ vrr'.requested = vrr.requested
  BY <1>0 DEF VrrRuns
<1>3. /\ WorldTypes' /\ Progress' /\ Reported' /\ SettledStay'
      /\ vrr.item \notin touched => driver'[vrr.item].profile = vrr.requested
  <2>1. vrr.requested \in Profiles
    BY <1>0 DEF VrrRuns
  <2> QED BY <1>0, <1>2, <2>1, SetsKeeps
<1>4. vrr.pc \in Busy
  BY <1>0, WrittenFits
<1>5. vrr.before.exact /\ vrr.requested = vrr.before.profile
  BY <1>0, <1>4 DEF VrrInv, Decided
<1>6. Understood'
  BY <1>0, <1>2, <1>3, <1>4, <1>5 DEF VrrInv, Understood, Written, history
<1>7. Decided' /\ Aimed'
  BY <1>2, <1>5 DEF Decided, Aimed, Looking
<1> QED BY <1>1, <1>3, <1>6, <1>7 DEF VrrInv

LEMMA RollbackEndsKeeps == VrrInv /\ RollbackEnds => VrrInv'
<1> SUFFICES ASSUME VrrInv, RollbackEnds PROVE VrrInv'
  OBVIOUS
<1>1. vrr.pc \in Written \cup {"unwritten"} /\ Settles("VerificationFailed")
  BY DEF RollbackEnds, Written
<1> QED BY <1>1, WrittenFits, SettlesKeeps

\* What the world changes is touched, no longer settled, and excused where the
\* code has looked for the last time.
LEMMA PlugKeeps ==
    ASSUME VrrInv, NEW t \in TargetIds, NEW m \in Monitors \cup {NoMonitor}, Plug(t, m)
    PROVE  VrrInv'
<1>1. /\ port' = [port EXCEPT ![t] = m] /\ changes' = changes + 1
      /\ touched' = touched \cup ({m, port[t]} \cap Monitors)
      /\ settled' = settled \ {m, port[t]}
      /\ UNCHANGED <<kind, cap, driver, staged, vrr, runs, original>>
      /\ Excuse("target", {"confirm", "compare", "write", "uncompare", "unwrite"})
  BY DEF Plug
<1>2. /\ excused \subseteq excused'
      /\ vrr.pc \in {"confirm", "compare", "write", "uncompare", "unwrite"} => "target" \in excused'
  BY <1>1 DEF Excuse
<1>3. WorldTypes /\ port[t] \in Monitors \cup {NoMonitor}
  BY DEF VrrInv, WorldTypes
<1>4. port'[t] = m /\ \A u \in TargetIds : u # t => port'[u] = port[u]
  BY <1>1, <1>3 DEF WorldTypes
<1>5. WorldTypes'
  BY <1>1, <1>3 DEF WorldTypes
<1>6. \A n \in Monitors : Located(n) => Located(n)'
  <2> SUFFICES ASSUME NEW n \in Monitors, Located(n) PROVE Located(n)'
    OBVIOUS
  <2>1. CASE vrr.at[n] = t
    BY <1>1, <1>3, <1>4, <2>1 DEF Located
  <2>2. CASE vrr.at[n] # t
    BY <1>1, <1>4, <2>2 DEF Located
  <2> QED BY <2>1, <2>2
<1>7. Progress'
  <2>1. vrr.todo \subseteq Monitors /\ Target' = Target
    BY <1>1 DEF VrrInv, VrrRuns, Target
  <2> QED BY <1>1, <1>6, <2>1 DEF VrrInv, Progress
<1>8. Reported' /\ Understood' /\ SettledStay'
  BY <1>1 DEF VrrInv, Reported, Understood, SettledStay
<1>9. Decided'
  BY <1>1 DEF VrrInv, Decided
<1>10. Aimed'
  <2>1. vrr.pc \in {"write", "unwrite"} => Target \in TargetIds
    BY DEF VrrInv, Progress, Located, Target, Busy, Looking, Written
  <2>2. vrr.pc \in {"write", "unwrite"} => port'[Target] \notin settled'
    BY <1>1, <1>4, <2>1 DEF VrrInv, Aimed
  <2> QED BY <1>1, <1>2, <2>2 DEF VrrInv, Aimed, Target
<1> QED BY <1>1, <1>5, <1>7, <1>8, <1>9, <1>10 DEF VrrInv

LEMMA ChoiceKeeps ==
    ASSUME VrrInv, NEW m \in Monitors, NEW choice \in UserChoices, UserChooses(m, choice)
    PROVE  VrrInv'
<1>1. /\ driver' = [driver EXCEPT ![m] = choice] /\ changes' = changes + 1
      /\ touched' = touched \cup {m} /\ settled' = settled \ {m}
      /\ UNCHANGED <<kind, cap, port, staged, vrr, runs, original>>
      /\ Excuse("profile", {"write", "unwrite"})
  BY DEF UserChooses
<1>2. /\ excused \subseteq excused'
      /\ vrr.pc \in {"write", "unwrite"} => "profile" \in excused'
  BY <1>1 DEF Excuse
<1>3. WorldTypes /\ choice \in InForce
  BY DEF VrrInv, UserChoices, InForce, Profiles, Standard, Ranges
<1>4. \A n \in Monitors : n # m => driver'[n] = driver[n]
  BY <1>1, <1>3 DEF WorldTypes
<1>5. WorldTypes'
  BY <1>1, <1>3 DEF WorldTypes
<1>6. Progress'
  BY <1>1 DEF VrrInv, Progress, Located, Target
<1>7. Reported' /\ SettledStay'
  BY <1>1, <1>3, <1>4 DEF VrrInv, Reported, SettledStay, WorldTypes
<1>8. Understood'
  <2>1. vrr.pc \in Busy => vrr.item \in Monitors
    BY DEF VrrInv, Progress
  <2> QED BY <1>1, <1>4, <2>1 DEF VrrInv, Understood
<1>9. Decided'
  BY <1>1 DEF VrrInv, Decided
<1>10. Aimed'
  BY <1>1, <1>2 DEF VrrInv, Aimed, Target
<1> QED BY <1>1, <1>5, <1>6, <1>7, <1>8, <1>9, <1>10 DEF VrrInv

LEMMA OverrideKeeps ==
    ASSUME VrrInv, NEW m \in Monitors, StageOverride(m)
    PROVE  VrrInv'
<1>1. /\ staged' = staged \cup {m} /\ changes' = changes + 1
      /\ touched' = touched \cup {m} /\ settled' = settled \ {m}
      /\ UNCHANGED <<kind, cap, port, driver, vrr, runs, original>>
      /\ Excuse("edid", {"compare", "write"})
  BY DEF StageOverride
<1>2. /\ excused \subseteq excused'
      /\ vrr.pc \in {"compare", "write"} => "edid" \in excused'
  BY <1>1 DEF Excuse
<1>3. WorldTypes'
  BY <1>1 DEF VrrInv, WorldTypes
<1>4. Progress' /\ Decided'
  BY <1>1 DEF VrrInv, Progress, Located, Target, Decided
<1>5. Reported' /\ Understood' /\ SettledStay'
  BY <1>1 DEF VrrInv, Reported, Understood, SettledStay
<1>6. Aimed'
  BY <1>1, <1>2 DEF VrrInv, Aimed, Target
<1> QED BY <1>1, <1>3, <1>4, <1>5, <1>6 DEF VrrInv

LEMMA NextVrrInv == VrrInv /\ [VrrNext]_vrrVars => VrrInv'
<1> SUFFICES ASSUME VrrInv, [VrrNext]_vrrVars PROVE VrrInv'
  OBVIOUS
<1>1. CASE Step
  BY <1>1, BeginKeeps, MapKeeps, ProbeKeeps, QueryKeeps, CollectKeeps, DecideKeeps,
     RevalidateKeeps, ConfirmKeeps, CompareKeeps, WriteKeeps, RecheckKeeps, ReadBackKeeps,
     CollectAfterKeeps, VerifyKeeps, BeforeRollbackKeeps, CompareAfterKeeps, RollbackKeeps,
     RollbackEndsKeeps DEF Step
<1>2. CASE World
  BY <1>2, PlugKeeps, ChoiceKeeps, OverrideKeeps DEF World
<1>3. CASE UNCHANGED vrrVars
  BY <1>3 DEF vrrVars, world, history, VrrInv, WorldTypes, Progress, Located, Target, Reported,
     Understood, Decided, Aimed, SettledStay
<1> QED BY <1>1, <1>2, <1>3 DEF VrrNext

LEMMA SettlesLeavesDriver ==
    ASSUME NEW status, Settles(status)
    PROVE  UNCHANGED driver
BY DEF Settles, Ends, Unrelated, world

\* While a write is due, only it, or a call that failed, comes from the run.
LEMMA OnlyTheWrite ==
    ASSUME Step, vrr.pc \in {"write", "unwrite"}
    PROVE  UNCHANGED driver \/ WriteProfile \/ Rollback
<1>1. ~BeginVrr /\ ~MapTargets /\ ~InitializeProbe /\ ~QueryTarget /\ ~CollectEvidence /\ ~Decide
  BY DEF BeginVrr, MapTargets, InitializeProbe, QueryTarget, CollectEvidence, Decide
<1>2. ~RevalidateTarget /\ ~ConfirmEvidence /\ ~CompareBeforeApply /\ ~RevalidateAfterApply
  BY DEF RevalidateTarget, ConfirmEvidence, CompareBeforeApply, RevalidateAfterApply
<1>3. ~ReadBack /\ ~CollectEvidenceAfter /\ ~Verify
  BY DEF ReadBack, CollectEvidenceAfter, Verify
<1>4. ~RevalidateBeforeRollback /\ ~CompareBeforeRollback
  BY DEF RevalidateBeforeRollback, CompareBeforeRollback
<1>5. RollbackEnds => UNCHANGED driver
  BY SettlesLeavesDriver DEF RollbackEnds
<1> QED BY <1>1, <1>2, <1>3, <1>4, <1>5 DEF Step

\* A write of the run changes the panel on the display it aims at, to a range of
\* the driver's choice.
LEMMA WritesAim ==
    ASSUME VrrInv, [VrrNext]_vrrVars, Writes
    PROVE  /\ vrr.item \in Monitors
           /\ \A m \in Monitors : driver'[m] # driver[m] => m = port[Target]
           /\ port[Target] \notin settled
<1>1. vrr.pc \in {"write", "unwrite"} /\ driver' # driver /\ changes' = changes
  BY DEF Writes
<1>2. ~World
  BY <1>1 DEF World, Plug, StageOverride, UserChooses, VrrInv, WorldTypes
<1>3. Step
  BY <1>1, <1>2 DEF VrrNext, vrrVars, world
<1>4. WriteProfile \/ Rollback
  BY <1>1, <1>3, OnlyTheWrite
<1>5. \E profile : DriverSets(profile)
  BY <1>1, <1>4, SettlesLeavesDriver DEF WriteProfile, Rollback
<1>6. \A m \in Monitors : driver'[m] # driver[m] => m = port[Target]
  BY <1>5 DEF DriverSets, VrrInv, WorldTypes
<1>7. vrr.item \in Monitors /\ port[Target] \notin settled
  BY <1>1 DEF VrrInv, Progress, Aimed, Busy, Looking, Written
<1> QED BY <1>6, <1>7

\* The inductive invariant holds: where a run believes a panel, what it reports,
\* understands, has decided and aims at are so, but for what changed in the
\* world since it looked.
THEOREM VrrIsSound == VrrSpec => []VrrInv
BY InitVrrInv, NextVrrInv, PTL DEF VrrSpec

\* What a run reports of every panel that nobody else changed is so, however
\* many panels, displays, runs and changes of the world there are.
THEOREM ReportsAreTrue == VrrSpec => []ReportIsTrue
<1>1. VrrInv => ReportIsTrue
  <2> SUFFICES ASSUME VrrInv, vrr.pc = "done", NEW m \in Monitors \ touched
               PROVE  CASE vrr.results[m] = "Applied" ->
                             driver[m].profile = "Excellent" /\ Native(driver[m].range)
                        [] vrr.results[m] = "AlreadyCorrect" ->
                             driver[m] = original[m] /\ Native(driver[m].range)
                        [] vrr.results[m] = "VerificationFailed" ->
                             driver[m].profile \in {"Excellent", original[m].profile}
                        [] OTHER -> driver[m] = original[m]
    BY DEF ReportIsTrue
  <2>1. Fits(vrr.results[m], driver[m], original[m])
    BY DEF VrrInv, Reported, Written
  <2> QED BY <2>1 DEF Fits
<1> QED BY <1>1, VrrIsSound, PTL

\* A write has its reasons when it is made: it changes the panel that the run
\* means, from a standard profile, without an EDID override on a Claw 7, up to
\* changes after the code's last look; and never one that a run has settled.
THEOREM VrrWritesAreJustified == VrrSpec => WritesAreJustified
<1>1. VrrInv => VrrTypeOK
  BY PanelAssumption DEF VrrInv, VrrTypeOK, WorldTypes, VrrRuns, Progress
<1>2. VrrInv /\ [VrrNext]_vrrVars =>
        [Writes =>
         /\ "target" \in excused \/ \A m \in Monitors : driver'[m] # driver[m] => m = vrr.item
         /\ excused \cap {"target", "profile"} # {} \/ driver[vrr.item].profile \in Standard
         /\ "edid" \in excused \/ kind[vrr.item] # "Claw7" \/ vrr.item \notin staged]_vrrVars
  <2> SUFFICES ASSUME VrrInv, [VrrNext]_vrrVars, Writes
               PROVE
         /\ "target" \in excused \/ \A m \in Monitors : driver'[m] # driver[m] => m = vrr.item
         /\ excused \cap {"target", "profile"} # {} \/ driver[vrr.item].profile \in Standard
         /\ "edid" \in excused \/ kind[vrr.item] # "Claw7" \/ vrr.item \notin staged
    OBVIOUS
  <2>1. vrr.pc \in {"write", "unwrite"}
    BY DEF Writes
  <2>2. "target" \in excused \/ \A m \in Monitors : driver'[m] # driver[m] => m = vrr.item
    BY <2>1, WritesAim DEF VrrInv, Aimed
  <2>3. excused \cap {"target", "profile"} # {} \/ driver[vrr.item].profile \in Standard
    BY <2>1 DEF VrrInv, Aimed
  <2>4. "edid" \in excused \/ kind[vrr.item] # "Claw7" \/ vrr.item \notin staged
    BY <2>1 DEF VrrInv, Aimed, Decided
  <2> QED BY <2>2, <2>3, <2>4
<1>3. VrrInv /\ [VrrNext]_vrrVars => [Writes => \A m \in settled : driver'[m] = driver[m]]_vrrVars
  <2> SUFFICES ASSUME VrrInv, [VrrNext]_vrrVars, Writes
               PROVE  \A m \in settled : driver'[m] = driver[m]
    OBVIOUS
  <2>1. settled \subseteq Monitors
    BY DEF VrrInv, WorldTypes
  <2> QED BY <2>1, WritesAim
<1> QED BY <1>1, <1>2, <1>3, VrrIsSound, PTL DEF VrrSpec, WritesAreJustified, WritesAreInformed,
           NoSecondWrite

=============================================================================
