--------------------------- MODULE FrontEndProofs ---------------------------
(***************************************************************************)
(* The Settings front end: what its window shows and asks for, the single  *)
(* window, for any number of launches and of processes that are terminated *)
(* at any step, and the protocol it speaks with the runtime, for any texts *)
(* and any altered byte.                                                   *)
(***************************************************************************)
EXTENDS FrontEnd, FrontEndProcess, WireProtocol, WellFoundedInduction, SequenceTheorems,
        TLAPS

-----------------------------------------------------------------------------
(* The window.                                                             *)

\* The window waits for the answer of a flow.
Waits(f) ==
    \/ f = "load" /\ load # "done" /\ window # "closed"
    \/ f = "pump" /\ g.pumping
    \/ f = "commit" /\ (g.ending = "committing" \/ g.discrete)
    \/ f = "mutation" /\ flags.mutation
    \/ f = "refresh" /\ flags.refresh

\* What it has asked for.
Asks(f, o, v) ==
    \/ f = "load" /\ o = IF load = "info" THEN "GetRuntimeInfo" ELSE "GetSettingsSnapshot"
    \/ f = "pump" /\ o = "PreviewHudOpacity" /\ v \in Opacities
    \/ f = "commit" /\ o = "CommitHudOpacity" /\ v = wanted
    \/ f = "mutation" /\ o = "Set" /\ v \in Others
    \/ f = "refresh" /\ o = "GetSettingsSnapshot"

\* The calls are those the window waits for, and the pipe holds the one that was
\* sent.
CallsMatch ==
    \A f \in Flows :
        /\ call[f].stage # "idle" <=> Waits(f)
        /\ call[f].stage = "answered" <=> call[f].outcome # "none"
        /\ Waits(f) => Asks(f, call[f].operation, call[f].value)
        /\ call[f].outcome = "Success" => call[f].snapshot \in Snapshots
        /\ call[f].stage = "sent" <=> slot.owner = f
        /\ slot.owner = f => /\ slot.operation = call[f].operation
                             /\ slot.value = call[f].value

OpacityOperations == {"PreviewHudOpacity", "CommitHudOpacity"}
SlotIsTyped ==
    /\ slot.operation \in OpacityOperations => slot.value \in Opacities
    /\ slot.operation = "Set" => slot.value \in Others

\* One thing at a time: a gesture of the opacity, a gesture of the size, a change
\* or a refresh.
OneInteraction ==
    /\ snapshot = NoSnapshot <=> load # "done" \/ window = "closed"
    /\ snapshot = NoSnapshot => g = NoGesture /\ flags = NoFlags
    /\ IsBusy(g) => flags = NoFlags
    /\ g.ending # "no" => g.dirty
    /\ g.dirty => g.active
    /\ g.pumping => g.dirty /\ g.ending # "committing"
    /\ g.active => ~g.discrete /\ g.value \in Opacities
    /\ g.dirty => g.value = wanted
    /\ flags.refresh => ~flags.mutation /\ ~flags.sizing
    /\ flags.sizing => (hand = "size" <=> ~flags.mutation)

Agreed == live = wanted /\ saved = wanted
Failing(f) == call[f].outcome \notin {"none", "Success"}

\* Without a value in hand the opacity is the one wanted, in the runtime and in
\* settings.ini, and so it is once the commit has succeeded. An opacity that may
\* still be applied behind the window's back is a failure it knows of, or is about
\* to.
OpacityFollows ==
    window # "closed" =>
        /\ ~failed /\ ~g.dirty /\ ~g.discrete => Agreed
        /\ call["commit"].outcome = "Success" => Agreed
        /\ slot.owner = "orphan" /\ slot.operation \in OpacityOperations =>
              /\ failed \/ Failing("pump") \/ Failing("commit")
              /\ call["commit"].outcome # "Success"

\* The newest answer, or else what the window shows, is the runtime's state,
\* unless that changed without a word to the window.
Fresh == [opacity |-> live, other |-> other]
SnapshotFollows ==
    ~stale =>
        /\ \A f \in Flows : call[f].outcome = "Success" /\ call[f].operation # "GetRuntimeInfo"
                              => call[f].snapshot = Fresh
        /\ snapshot # NoSnapshot /\ (\A f \in Flows : call[f].outcome # "Success")
              => snapshot = Fresh

\* Out of a gesture the slider stands where the view model has it.
ThumbFollows ==
    ~g.active /\ ~g.discrete => thumb = SliderOpacityValue(g, snapshot)

WindowInv ==
    /\ TypeOK /\ CallsMatch /\ SlotIsTyped /\ OneInteraction
    /\ OpacityFollows /\ SnapshotFollows /\ ThumbFollows

-----------------------------------------------------------------------------
\* The least opacity is one of them.
LEMMA MinOpacity == Opacities # {} => MinOpacityPercent \in Opacities
<1> SUFFICES ASSUME Opacities # {} PROVE MinOpacityPercent \in Opacities
  OBVIOUS
<1>1. PICK m \in Opacities : \A n \in Opacities : ~(<<n, m>> \in OpToRel(<, Nat))
  BY OpacitiesAssumption, NatLessThanWellFounded, WFMin
<1>2. \A n, k \in Nat : n < k => <<n, k>> \in OpToRel(<, Nat)
  BY DEF OpToRel
<1>3. \A n \in Opacities : ~(n < m)
  <2>1. \A n \in Opacities : n \in Nat
    BY OpacitiesAssumption
  <2>2. QED
    BY <1>1, <1>2, <2>1, Zenon
<1>4. \A n \in Opacities : m <= n
  <2> SUFFICES ASSUME NEW n \in Opacities PROVE m <= n
    OBVIOUS
  <2>1. m \in Nat /\ n \in Nat
    BY OpacitiesAssumption
  <2>2. QED
    BY <1>3, <2>1
<1>5. QED
  BY <1>4 DEF MinOpacityPercent

LEMMA RequestIsTyped ==
    ASSUME NEW o \in Operations, NEW v \in Opacities \cup Others \cup {None}
    PROVE  Idle \in Calls /\ Request(o, v) \in Calls
BY DEF Calls, Idle, Request, Operations, Outcomes

LEMMA InitCall == Init => call \in [Flows -> Calls]
<1>1. Idle \in Calls /\ Request("GetRuntimeInfo", None) \in Calls
  BY RequestIsTyped DEF Operations
<1>2. QED
  BY <1>1 DEF Init

LEMMA InitWindowInv == Init => WindowInv
<1> SUFFICES ASSUME Init PROVE WindowInv
  OBVIOUS
<1> USE DEF Init, None, Idle, Request, NoSnapshot, NoGesture, NoFlags, Free
<1>1. TypeOK
  <2>1. MinOpacityPercent \in Opacities
    BY MinOpacity
  <2>2. call \in [Flows -> Calls]
    BY InitCall
  <2>3. /\ slot \in [owner : Flows \cup {"nobody", "orphan"}, operation : Operations \cup {"none"},
                     value : Opacities \cup Others \cup {None}]
        /\ g \in Coordinators /\ flags \in Flags
    BY DEF Coordinators, Flags
  <2>4. acts \in 0..MaxActs /\ faults \in 0..MaxFaults
    BY ActsAssumption
  <2>5. snapshot \in Snapshots \cup {NoSnapshot} /\ thumb \in Opacities /\ wanted \in Opacities
    BY <2>1
  <2>6. QED
    BY <2>2, <2>3, <2>4, <2>5 DEF TypeOK
<1>2. CallsMatch
  BY DEF CallsMatch, Waits, Asks, Flows
<1>3. SlotIsTyped /\ OneInteraction
  BY DEF SlotIsTyped, OpacityOperations, OneInteraction, IsBusy
<1>4. OpacityFollows /\ SnapshotFollows /\ ThumbFollows
  BY DEF OpacityFollows, Agreed, SnapshotFollows, ThumbFollows, SliderOpacityValue, Flows, OpacityOperations
<1>5. QED
  BY <1>1, <1>2, <1>3, <1>4 DEF WindowInv

\* Each flow waits for itself alone.
LEMMA OneCall ==
    ASSUME WindowInv, NEW f \in Flows, NEW h \in Flows, Waits(f), Waits(h)
    PROVE  f = h
<1>1. g \in Coordinators /\ flags \in Flags
  BY DEF WindowInv, TypeOK
<1>2. \/ snapshot = NoSnapshot /\ g = NoGesture /\ flags = NoFlags
      \/ load = "done" /\ window # "closed" /\ IsBusy(g) /\ flags = NoFlags
      \/ load = "done" /\ window # "closed" /\ ~IsBusy(g)
  BY DEF WindowInv, OneInteraction
<1>3. CASE g = NoGesture /\ flags = NoFlags
  BY <1>3 DEF Waits, NoGesture, NoFlags
<1>4. CASE load = "done" /\ IsBusy(g) /\ flags = NoFlags
  BY <1>1, <1>4 DEF WindowInv, OneInteraction, Waits, NoFlags, Coordinators, Flags
<1>5. CASE load = "done" /\ ~IsBusy(g)
  BY <1>1, <1>5 DEF WindowInv, OneInteraction, Waits, IsBusy, Coordinators, Flags
<1>6. QED
  BY <1>2, <1>3, <1>4, <1>5

LEMMA Alone ==
    ASSUME WindowInv, NEW f \in Flows, call[f].stage # "idle", NEW h \in Flows \ {f}
    PROVE  call[h].stage = "idle" /\ call[h].outcome = "none" /\ slot.owner # h /\ ~Waits(h)
<1>1. ~Waits(h)
  BY OneCall DEF WindowInv, CallsMatch
<1>2. QED
  BY <1>1 DEF WindowInv, CallsMatch

LEMMA CallSet ==
    ASSUME TypeOK, NEW f \in Flows, NEW c, call' = [call EXCEPT ![f] = c]
    PROVE  /\ call'[f] = c
           /\ \A h \in Flows \ {f} : call'[h] = call[h]
           /\ c \in Calls => call' \in [Flows -> Calls]
BY DEF TypeOK

-----------------------------------------------------------------------------
\* The pipe and the runtime: nothing of the window changes but the call.

LEMMA ConnectKeepsInv ==
    ASSUME WindowInv, NEW f \in Flows, Connect(f)
    PROVE  WindowInv'
<1> DEFINE c == [call[f] EXCEPT !.stage = "sent"]
<1>0. UNCHANGED <<runtimeVars, windowVars, ghosts, acts, faults>>
  BY DEF Connect
<1> USE <1>0 DEF runtimeVars, windowVars, ghosts
<1>1. TypeOK /\ call[f] \in Calls
  BY DEF WindowInv, TypeOK
<1>2. call[f].stage = "connecting" /\ call' = [call EXCEPT ![f] = c]
  BY <1>1 DEF Connect, TypeOK
<1>3. /\ call'[f] = c /\ c \in Calls
      /\ \A h \in Flows \ {f} : call'[h] = call[h]
      /\ call' \in [Flows -> Calls]
  BY <1>1, <1>2, CallSet DEF Calls
<1>4. /\ c.stage = "sent" /\ c.operation = call[f].operation /\ c.value = call[f].value
      /\ c.outcome = call[f].outcome /\ c.snapshot = call[f].snapshot
  BY <1>1 DEF Calls
<1>5. slot' = [owner |-> f, operation |-> call[f].operation, value |-> call[f].value]
  BY DEF Connect
<1>6. /\ Waits(f) /\ Asks(f, call[f].operation, call[f].value) /\ call[f].outcome = "none"
  BY <1>2 DEF WindowInv, CallsMatch
<1>7. TypeOK'
  BY <1>1, <1>3, <1>5 DEF TypeOK, Calls
<1>8. CallsMatch'
  <2> SUFFICES ASSUME NEW h \in Flows PROVE CallsMatch!(h)'
    BY DEF CallsMatch
  <2>1. CASE h = f
    BY <1>3, <1>4, <1>5, <1>6, <2>1 DEF Waits, Asks
  <2>2. CASE h # f
    BY <1>2, <1>3, <1>5, <2>2, Alone DEF WindowInv, CallsMatch, Waits, Asks
  <2>3. QED
    BY <2>1, <2>2
<1>9. SlotIsTyped'
  BY <1>5, <1>6 DEF SlotIsTyped, OpacityOperations, Asks, WindowInv, TypeOK
<1>10. OneInteraction'
  BY DEF WindowInv, OneInteraction
<1>11. \A h \in Flows : call'[h].outcome = call[h].outcome /\ call'[h].snapshot = call[h].snapshot
                        /\ call'[h].operation = call[h].operation
  BY <1>3, <1>4
<1>12. OpacityFollows'
  BY <1>5, <1>11 DEF WindowInv, OpacityFollows, Agreed, Failing, Flows
<1>13. SnapshotFollows'
  BY <1>11 DEF WindowInv, SnapshotFollows, Fresh
<1>14. ThumbFollows'
  BY DEF WindowInv, ThumbFollows, SliderOpacityValue
<1>15. QED
  BY <1>7, <1>8, <1>9, <1>10, <1>12, <1>13, <1>14 DEF WindowInv

\* What the pipe holds for a flow.
LEMMA Sent ==
    ASSUME WindowInv, NEW f \in Flows, slot.owner = f
    PROVE  /\ call[f].stage = "sent" /\ call[f].outcome = "none" /\ Waits(f)
           /\ slot.operation = call[f].operation /\ slot.value = call[f].value
           /\ Asks(f, slot.operation, slot.value)
BY DEF WindowInv, CallsMatch

\* What an operation leaves: an opacity, and a setting of the other control.
LEMMA ExecuteIsTyped ==
    ASSUME WindowInv, Execute(slot.operation, slot.value)
    PROVE  live' \in Opacities /\ saved' \in Opacities /\ other' \in Others
BY DEF WindowInv, TypeOK, SlotIsTyped, OpacityOperations, Execute

\* A request that is over, one way or the other, stays the request it was.
AnswerOf(f, outcome, s) ==
    call' = [call EXCEPT ![f].stage = "answered", ![f].outcome = outcome, ![f].snapshot = s]

LEMMA AnswerKeepsCalls ==
    ASSUME WindowInv, NEW f \in Flows, call[f].stage \in {"connecting", "sent"},
           NEW outcome \in Outcomes, NEW s \in Snapshots \cup {NoSnapshot},
           outcome = "Success" => s \in Snapshots,
           AnswerOf(f, outcome, s),
           slot'.owner \notin Flows,
           UNCHANGED windowVars, UNCHANGED wanted
    PROVE  /\ call' \in [Flows -> Calls] /\ CallsMatch'
           /\ call'[f].outcome = outcome /\ call'[f].snapshot = s
           /\ call'[f].operation = call[f].operation
           /\ \A h \in Flows \ {f} : call'[h] = call[h] /\ call[h].outcome = "none"
<1> USE DEF windowVars
<1>1. TypeOK /\ call[f] \in Calls
  BY DEF WindowInv, TypeOK
<1> DEFINE c == [call[f] EXCEPT !.stage = "answered", !.outcome = outcome, !.snapshot = s]
<1>2. call' = [call EXCEPT ![f] = c]
  BY <1>1 DEF AnswerOf, TypeOK
<1>3. c \in Calls /\ c.stage = "answered" /\ c.outcome = outcome /\ c.snapshot = s
      /\ c.operation = call[f].operation /\ c.value = call[f].value
  BY <1>1 DEF Calls
<1>4. /\ call'[f] = c
      /\ \A h \in Flows \ {f} : call'[h] = call[h]
      /\ call' \in [Flows -> Calls]
  BY <1>1, <1>2, <1>3, CallSet
<1>5. Waits(f) /\ Asks(f, call[f].operation, call[f].value)
  BY DEF WindowInv, CallsMatch
<1>6. CallsMatch'
  <2> SUFFICES ASSUME NEW h \in Flows PROVE CallsMatch!(h)'
    BY DEF CallsMatch
  <2>1. CASE h = f
    BY <1>3, <1>4, <1>5, <2>1 DEF Waits, Asks, Outcomes
  <2>2. CASE h # f
    BY <1>4, <2>2, Alone DEF WindowInv, CallsMatch, Waits, Asks
  <2>3. QED
    BY <2>1, <2>2
<1>7. QED
  BY <1>3, <1>4, <1>6, Alone

LEMMA ServeKeepsInv ==
    ASSUME WindowInv, NEW f \in Flows, Serve(f)
    PROVE  WindowInv'
<1>0. slot.owner = f /\ slot' = Free /\ UNCHANGED <<rt, windowVars, wanted, failed, acts>>
  BY DEF Serve
<1> USE <1>0
<1>1. TypeOK /\ call[f] \in Calls /\ f \notin {"nobody", "orphan"}
  BY DEF WindowInv, TypeOK, Flows
<1>2. slot'.owner \notin Flows \cup {"orphan"} /\ slot'.operation = "none"
  BY DEF Free, Flows
<1>3. PICK outcome \in Outcomes, s \in Snapshots \cup {NoSnapshot} :
        /\ AnswerOf(f, outcome, s)
        /\ live' \in Opacities /\ saved' \in Opacities /\ other' \in Others
        /\ stale' \in BOOLEAN /\ faults' \in 0..MaxFaults
        /\ outcome = "Success" => s \in Snapshots
        /\ \/ /\ outcome = "Success" /\ Execute(slot.operation, slot.value)
              /\ s = [opacity |-> live', other |-> other']
              /\ stale' = (slot.operation = "GetRuntimeInfo" /\ stale)
           \/ outcome # "Success" /\ UNCHANGED <<live, saved, other, stale>>
  <2>1. CASE Execute(slot.operation, slot.value) /\ Answered(f, "Success")
             /\ stale' = (slot.operation = "GetRuntimeInfo" /\ stale) /\ UNCHANGED faults
    <3>1. [opacity |-> live', other |-> other'] \in Snapshots
      BY <2>1, ExecuteIsTyped DEF Snapshots
    <3>2. AnswerOf(f, "Success", [opacity |-> live', other |-> other'])
      BY <2>1 DEF Answered, AnswerOf
    <3>3. stale' \in BOOLEAN /\ faults' \in 0..MaxFaults
      BY <1>1, <2>1 DEF TypeOK
    <3>4. QED
      BY <2>1, <3>1, <3>2, <3>3, ExecuteIsTyped DEF Outcomes
  <2>2. CASE \E o \in Outcomes \ {"Success"} :
               /\ Answered(f, o) /\ UNCHANGED <<live, saved, other, stale>>
               /\ faults' \in 0..MaxFaults
    <3>1. PICK o \in Outcomes \ {"Success"} : Answered(f, o)
      BY <2>2
    <3>2. AnswerOf(f, o, NoSnapshot)
      BY <3>1 DEF Answered, AnswerOf
    <3>3. QED
      BY <1>1, <2>2, <3>1, <3>2 DEF TypeOK
  <2>3. faults < MaxFaults /\ faults' = faults + 1 => faults' \in 0..MaxFaults
    BY <1>1, ActsAssumption DEF TypeOK
  <2>4. UNCHANGED faults => faults' \in 0..MaxFaults
    BY <1>1 DEF TypeOK
  <2>5. QED
    BY <2>1, <2>2, <2>3, <2>4 DEF Serve, Outcomes
<1>4. call[f].outcome = "none" /\ Waits(f) /\ slot.operation = call[f].operation
      /\ call[f].stage = "sent" /\ Asks(f, slot.operation, slot.value)
  BY Sent
<1>5. /\ call' \in [Flows -> Calls] /\ CallsMatch'
      /\ call'[f].outcome = outcome /\ call'[f].snapshot = s
      /\ call'[f].operation = call[f].operation
      /\ \A h \in Flows \ {f} : call'[h] = call[h] /\ call[h].outcome = "none"
  BY <1>2, <1>3, <1>4, AnswerKeepsCalls
<1>6. TypeOK'
  BY <1>1, <1>3, <1>5 DEF TypeOK, Free, windowVars
<1>7. SlotIsTyped'
  BY <1>2 DEF SlotIsTyped, OpacityOperations
<1>8. OneInteraction' /\ ThumbFollows'
  BY DEF WindowInv, OneInteraction, ThumbFollows, SliderOpacityValue, windowVars
<1>9. OpacityFollows'
  <2>1. \A h \in Flows : call[h].outcome = "none"
    BY <1>4, <1>5
  <2>2. CASE outcome # "Success"
    BY <1>0, <1>2, <1>3, <1>5, <2>1, <2>2 DEF WindowInv, OpacityFollows, Agreed, windowVars, Flows
  <2>3. CASE outcome = "Success" /\ f = "pump"
    BY <1>2, <1>4, <1>5, <2>1, <2>3 DEF WindowInv, OneInteraction, OpacityFollows, Waits, windowVars, Flows
  <2>4. CASE outcome = "Success" /\ f = "commit"
    BY <1>2, <1>3, <1>4, <2>4 DEF OpacityFollows, Agreed, Asks, Execute
  <2>5. CASE outcome = "Success" /\ f \notin {"pump", "commit"}
    <3>1. live' = live /\ saved' \in {live, saved}
      BY <1>3, <1>4, <2>5 DEF Asks, Execute
    <3>2. call'["commit"].outcome # "Success"
      BY <1>5, <2>5 DEF Flows
    <3>3. QED
      BY <1>0, <1>2, <3>1, <3>2 DEF WindowInv, OpacityFollows, Agreed, windowVars
  <2>6. QED
    BY <2>2, <2>3, <2>4, <2>5
<1>10. SnapshotFollows'
  BY <1>3, <1>4, <1>5 DEF WindowInv, SnapshotFollows, Fresh, windowVars
<1>11. QED
  BY <1>5, <1>6, <1>7, <1>8, <1>9, <1>10 DEF WindowInv

LEMMA TimeOutKeepsInv ==
    ASSUME WindowInv, NEW f \in Flows, TimeOut(f)
    PROVE  WindowInv'
<1>0. UNCHANGED <<runtimeVars, windowVars, ghosts, acts>>
  BY DEF TimeOut
<1> USE <1>0 DEF runtimeVars, ghosts
<1>1. TypeOK /\ call[f] \in Calls /\ f \notin {"nobody", "orphan"}
  BY DEF WindowInv, TypeOK, Flows
<1>2. call[f].stage \in {"connecting", "sent"} /\ call[f].outcome = "none" /\ Waits(f)
      /\ Asks(f, call[f].operation, call[f].value)
  BY DEF TimeOut, WindowInv, CallsMatch
<1> DEFINE s == call[f].snapshot
<1>3. AnswerOf(f, "TimedOut", s) /\ s \in Snapshots \cup {NoSnapshot}
  BY <1>1 DEF TimeOut, AnswerOf, Calls, TypeOK
<1>4. /\ slot'.owner \notin Flows
      /\ slot' \in [owner : Flows \cup {"nobody", "orphan"}, operation : Operations \cup {"none"},
                    value : Opacities \cup Others \cup {None}]
      /\ slot'.operation = slot.operation /\ slot'.value = slot.value
      /\ slot'.owner = "orphan" => slot.owner = "orphan" \/ slot.owner = f
  <2>1. CASE call[f].stage = "connecting" /\ UNCHANGED slot
    <3>1. \A h \in Flows : slot.owner # h
      BY <2>1, Alone DEF WindowInv, CallsMatch
    <3>2. QED
      BY <1>1, <2>1, <3>1 DEF TypeOK
  <2>2. CASE call[f].stage = "sent" /\ slot' = [slot EXCEPT !.owner = "orphan"]
    BY <1>1, <2>2 DEF TypeOK, WindowInv, CallsMatch, Flows
  <2>3. QED
    BY <2>1, <2>2 DEF TimeOut
<1>5. /\ call' \in [Flows -> Calls] /\ CallsMatch'
      /\ call'[f].outcome = "TimedOut"
      /\ \A h \in Flows \ {f} : call'[h] = call[h] /\ call[h].outcome = "none"
  BY <1>2, <1>3, <1>4, AnswerKeepsCalls DEF Outcomes
<1>6. faults' \in 0..MaxFaults
  BY <1>1, ActsAssumption DEF TypeOK, TimeOut
<1>7. TypeOK'
  BY <1>1, <1>4, <1>5, <1>6 DEF TypeOK, windowVars
<1>8. SlotIsTyped'
  BY <1>4 DEF WindowInv, SlotIsTyped
<1>9. OneInteraction' /\ ThumbFollows'
  BY DEF WindowInv, OneInteraction, ThumbFollows, SliderOpacityValue, windowVars
<1>10. OpacityFollows'
  <2>1. call'["commit"].outcome # "Success" /\ \A h \in Flows : call[h].outcome = "none"
    BY <1>2, <1>5 DEF Flows
  <2>2. ASSUME slot'.owner = "orphan", slot'.operation \in OpacityOperations, window # "closed"
        PROVE  failed \/ Failing("pump")' \/ Failing("commit")'
    <3>1. CASE slot.owner = "orphan"
      BY <1>4, <2>1, <2>2, <3>1 DEF WindowInv, OpacityFollows, Failing, Flows
    <3>2. CASE slot.owner = f
      BY <1>4, <1>5, <2>2, <3>2, Sent DEF Asks, OpacityOperations, Failing
    <3>3. QED
      BY <1>4, <2>2, <3>1, <3>2
  <2>3. QED
    BY <1>0, <2>1, <2>2 DEF WindowInv, OpacityFollows, Agreed, windowVars
<1>11. SnapshotFollows'
  BY <1>2, <1>5 DEF WindowInv, SnapshotFollows, Fresh, windowVars
<1>12. QED
  BY <1>5, <1>7, <1>8, <1>9, <1>10, <1>11 DEF WindowInv

LEMMA ServeOrphanKeepsInv ==
    ASSUME WindowInv, ServeOrphan
    PROVE  WindowInv'
<1>0. /\ slot.owner = "orphan" /\ slot' = Free
      /\ UNCHANGED <<rt, call, windowVars, wanted, failed, acts, faults>>
  BY DEF ServeOrphan
<1> USE <1>0
<1>1. slot'.owner \notin Flows \cup {"orphan"} /\ slot'.operation = "none"
  BY DEF Free, Flows
<1>2. TypeOK /\ slot.owner \notin Flows
  BY DEF WindowInv, TypeOK, Flows
<1>3. \/ Execute(slot.operation, slot.value) /\ stale' = TRUE
      \/ UNCHANGED <<live, saved, other, stale>>
  BY DEF ServeOrphan
<1>4. live' \in Opacities /\ saved' \in Opacities /\ other' \in Others /\ stale' \in BOOLEAN
  BY <1>2, <1>3, ExecuteIsTyped DEF TypeOK
<1>5. TypeOK'
  BY <1>2, <1>4 DEF TypeOK, Free, windowVars
<1>6. CallsMatch'
  BY <1>1, <1>2 DEF WindowInv, CallsMatch, Waits, Asks, windowVars
<1>7. SlotIsTyped'
  BY <1>1 DEF SlotIsTyped, OpacityOperations
<1>8. OneInteraction' /\ ThumbFollows'
  BY DEF WindowInv, OneInteraction, ThumbFollows, SliderOpacityValue, windowVars
<1>9. OpacityFollows'
  <2>1. CASE UNCHANGED <<live, saved>>
    BY <1>1, <2>1 DEF WindowInv, OpacityFollows, Agreed, windowVars
  <2>2. CASE Execute(slot.operation, slot.value) /\ slot.operation \notin OpacityOperations
    <3>1. live' = live /\ saved' \in {live, saved}
      BY <2>2 DEF Execute, OpacityOperations
    <3>2. QED
      BY <1>1, <3>1 DEF WindowInv, OpacityFollows, Agreed, windowVars
  <2>3. CASE slot.operation \in OpacityOperations
    <3>1. Failing("pump") \/ Failing("commit") => Waits("pump") \/ Waits("commit")
      BY <1>2 DEF WindowInv, CallsMatch, Failing, TypeOK, Calls, Flows
    <3>2. Waits("pump") \/ Waits("commit") => g.dirty \/ g.discrete
      BY DEF WindowInv, OneInteraction, Waits
    <3>3. QED
      BY <1>1, <2>3, <3>1, <3>2 DEF WindowInv, OpacityFollows, windowVars
  <2>4. QED
    BY <1>3, <2>1, <2>2, <2>3
<1>10. SnapshotFollows'
  BY <1>3 DEF WindowInv, SnapshotFollows, Fresh, windowVars
<1>11. QED
  BY <1>5, <1>6, <1>7, <1>8, <1>9, <1>10 DEF WindowInv

LEMMA RuntimeChangeKeepsInv ==
    ASSUME WindowInv, OtherClientChange \/ RuntimeStops
    PROVE  WindowInv'
<1>0. /\ UNCHANGED <<live, saved, slot, call, windowVars, wanted, failed, acts>>
      /\ stale' = TRUE \/ UNCHANGED <<other, stale>>
  BY DEF OtherClientChange, RuntimeStops, ghosts
<1> USE <1>0 DEF windowVars
<1>1. TypeOK'
  <2>1. rt' \in {"up", "stopping", "down"} /\ other' \in Others /\ faults' \in 0..MaxFaults
        /\ stale' \in BOOLEAN
    <3>1. CASE OtherClientChange
      BY <3>1, ActsAssumption DEF WindowInv, TypeOK, OtherClientChange
    <3>2. CASE RuntimeStops
      BY <3>2 DEF WindowInv, TypeOK, RuntimeStops, ghosts
    <3>3. QED
      BY <3>1, <3>2
  <2>2. QED
    BY <2>1 DEF WindowInv, TypeOK
<1>2. CallsMatch' /\ SlotIsTyped' /\ OneInteraction'
  BY DEF WindowInv, CallsMatch, Waits, Asks, SlotIsTyped, OneInteraction
<1>3. OpacityFollows' /\ ThumbFollows'
  BY DEF WindowInv, OpacityFollows, Agreed, Failing, ThumbFollows, SliderOpacityValue
<1>4. SnapshotFollows'
  BY DEF WindowInv, SnapshotFollows, Fresh
<1>5. QED
  BY <1>1, <1>2, <1>3, <1>4 DEF WindowInv

\* A window that closes, wherever it stands.
LEMMA CloseKeepsInv ==
    ASSUME WindowInv, Close
    PROVE  WindowInv'
<1> USE DEF Close, runtimeVars, ghosts
<1>1. TypeOK
  BY DEF WindowInv
<1>2. slot' \in [owner : {"nobody", "orphan"}, operation : Operations \cup {"none"},
                 value : Opacities \cup Others \cup {None}]
      /\ slot'.operation = slot.operation /\ slot'.value = slot.value
  BY <1>1 DEF TypeOK
<1>3. TypeOK'
  <2>1. Idle \in Calls /\ NoGesture \in Coordinators /\ NoFlags \in Flags
    BY DEF Idle, Calls, NoGesture, Coordinators, NoFlags, Flags
  <2>2. MinOpacityPercent \in Opacities
    BY <1>1, MinOpacity DEF TypeOK
  <2>3. QED
    BY <1>1, <1>2, <2>1, <2>2 DEF TypeOK
<1>4. CallsMatch'
  BY <1>2 DEF CallsMatch, Waits, Idle, NoGesture, NoFlags, Flows
<1>5. SlotIsTyped'
  BY <1>2 DEF WindowInv, SlotIsTyped
<1>6. OneInteraction'
  BY DEF OneInteraction, IsBusy, NoGesture, NoFlags
<1>7. OpacityFollows' /\ ThumbFollows'
  BY DEF OpacityFollows, ThumbFollows, SliderOpacityValue, NoGesture
<1>8. SnapshotFollows'
  BY DEF SnapshotFollows, Idle
<1>9. QED
  BY <1>3, <1>4, <1>5, <1>6, <1>7, <1>8 DEF WindowInv

-----------------------------------------------------------------------------
\* The window: what its steps do to the calls.

LEMMA IssueKeepsCalls ==
    ASSUME WindowInv, NEW f \in Flows, NEW o \in Operations,
           NEW v \in Opacities \cup Others \cup {None},
           call[f].stage \in {"idle", "answered"}, Issue(f, o, v), UNCHANGED slot,
           Waits(f)', Asks(f, o, v)', \A h \in Flows \ {f} : ~Waits(h) /\ ~Waits(h)'
    PROVE  /\ call' \in [Flows -> Calls] /\ CallsMatch'
           /\ \A h \in Flows : call'[h].outcome = "none"
<1> DEFINE c == Request(o, v)
<1>1. TypeOK /\ c \in Calls
  BY RequestIsTyped DEF WindowInv
<1>2. /\ call'[f] = c /\ call' \in [Flows -> Calls]
      /\ \A h \in Flows \ {f} : call'[h] = call[h]
  BY <1>1, CallSet DEF Issue
<1>3. c.stage = "connecting" /\ c.operation = o /\ c.value = v /\ c.outcome = "none"
  BY DEF Request, Idle
<1>4. \A h \in Flows \ {f} : call[h].stage = "idle" /\ call[h].outcome = "none"
  BY DEF WindowInv, CallsMatch
<1>5. slot.owner # f
  BY DEF WindowInv, CallsMatch
<1> HIDE DEF c
<1>6. CallsMatch'
  <2> SUFFICES ASSUME NEW h \in Flows PROVE CallsMatch!(h)'
    BY DEF CallsMatch
  <2>1. CASE h = f
    BY <1>2, <1>3, <1>5, <2>1
  <2>2. CASE h # f
    BY <1>2, <1>4, <2>2 DEF WindowInv, CallsMatch
  <2>3. QED
    BY <2>1, <2>2
<1>7. QED
  BY <1>2, <1>3, <1>4, <1>6

LEMMA FinishKeepsCalls ==
    ASSUME WindowInv, NEW f \in Flows, call[f].stage = "answered", Finish(f), UNCHANGED slot,
           \A h \in Flows : ~Waits(h)'
    PROVE  /\ call' \in [Flows -> Calls] /\ CallsMatch'
           /\ \A h \in Flows : call'[h].outcome = "none"
<1>1. TypeOK /\ Idle \in Calls
  BY RequestIsTyped DEF WindowInv, Idle, Calls
<1>2. /\ call'[f] = Idle /\ call' \in [Flows -> Calls]
      /\ \A h \in Flows \ {f} : call'[h] = call[h]
  BY <1>1, CallSet DEF Finish
<1>3. Idle.stage = "idle" /\ Idle.outcome = "none"
  BY DEF Idle
<1>4. \A h \in Flows : slot.owner # h
  BY Alone DEF WindowInv, CallsMatch
<1>5. \A h \in Flows : call'[h].stage = "idle" /\ call'[h].outcome = "none"
  BY <1>2, <1>3, Alone
<1>6. CallsMatch'
  BY <1>4, <1>5 DEF CallsMatch
<1>7. QED
  BY <1>2, <1>5, <1>6

\* A call that was answered is the only one, and what it says is true.
LEMMA AnsweredAlone ==
    ASSUME WindowInv, NEW f \in Flows, call[f].stage = "answered"
    PROVE  /\ Waits(f) /\ Asks(f, call[f].operation, call[f].value)
           /\ call[f].outcome \in Outcomes
           /\ call[f].outcome = "Success" => call[f].snapshot \in Snapshots
           /\ \A h \in Flows \ {f} : ~Waits(h) /\ call[h].outcome = "none"
           /\ f # "load" => load = "done" /\ window # "closed" /\ snapshot # NoSnapshot
<1>1. call[f] \in Calls /\ Waits(f) /\ Asks(f, call[f].operation, call[f].value)
      /\ call[f].outcome # "none" /\ (call[f].outcome = "Success" => call[f].snapshot \in Snapshots)
  BY DEF WindowInv, TypeOK, CallsMatch
<1>2. f # "load" => snapshot # NoSnapshot
  BY <1>1 DEF WindowInv, OneInteraction, Waits, NoGesture, NoFlags
<1>3. QED
  BY <1>1, <1>2, Alone DEF Calls, WindowInv, OneInteraction

LEMMA SnapshotsAreReal == NoSnapshot \notin Snapshots
BY OpacitiesAssumption DEF NoSnapshot, Snapshots, None

LEMMA SliderIsTyped ==
    ASSUME NEW c, c.active => c.value \in Opacities, NEW s \in Snapshots \cup {NoSnapshot},
           Opacities # {}
    PROVE  SliderOpacityValue(c, s) \in Opacities
BY MinOpacity DEF SliderOpacityValue, Snapshots

\* A step after which no answer is waiting to be taken.
LEMMA SettledKeepsInv ==
    ASSUME WindowInv, UNCHANGED <<runtimeVars, slot, stale>>,
           TypeOK', CallsMatch', OneInteraction', ThumbFollows',
           \A h \in Flows : call'[h].outcome = "none",
           \/ snapshot' = NoSnapshot
           \/ snapshot' = snapshot /\ \A h \in Flows : call[h].outcome # "Success"
           \/ \E h \in Flows : /\ call[h].outcome = "Success" /\ call[h].operation # "GetRuntimeInfo"
                               /\ snapshot' = call[h].snapshot,
           window' # "closed" =>
               /\ ~failed' /\ ~g'.dirty /\ ~g'.discrete => Agreed'
               /\ slot.owner = "orphan" /\ slot.operation \in OpacityOperations => failed'
    PROVE  WindowInv'
<1>1. SlotIsTyped'
  BY DEF WindowInv, SlotIsTyped
<1>2. OpacityFollows'
  BY DEF OpacityFollows, Agreed, Flows
<1>3. SnapshotFollows'
  <2>1. ASSUME ~stale, snapshot' # NoSnapshot PROVE snapshot' = Fresh
    BY <2>1 DEF WindowInv, SnapshotFollows
  <2>2. Fresh' = Fresh
    BY DEF Fresh, runtimeVars
  <2>3. QED
    BY <2>1, <2>2 DEF SnapshotFollows
<1>4. QED
  BY <1>1, <1>2, <1>3 DEF WindowInv

\* A step that leaves every call where it is.
LEMMA WaitingKeepsInv ==
    ASSUME WindowInv, UNCHANGED <<runtimeVars, slot, stale, call, load, window, snapshot, failed>>,
           TypeOK', OneInteraction', ThumbFollows',
           \A h \in Flows : Waits(h)' <=> Waits(h),
           wanted' = wanted \/ ~Waits("commit"),
           ~g'.dirty /\ ~g'.discrete => ~g.dirty /\ ~g.discrete /\ wanted' = wanted
    PROVE  WindowInv'
<1>1. CallsMatch'
  <2> SUFFICES ASSUME NEW h \in Flows PROVE CallsMatch!(h)'
    BY DEF CallsMatch
  <2>1. CASE Waits(h)
    BY <2>1 DEF WindowInv, CallsMatch, Asks
  <2>2. CASE ~Waits(h)
    BY <2>2 DEF WindowInv, CallsMatch
  <2>3. QED
    BY <2>1, <2>2
<1>2. SlotIsTyped'
  BY DEF WindowInv, SlotIsTyped
<1>3. OpacityFollows'
  <2>1. call["commit"].outcome = "Success" => wanted' = wanted
    BY DEF WindowInv, CallsMatch, Flows
  <2>2. QED
    BY <2>1 DEF WindowInv, OpacityFollows, Agreed, Failing, runtimeVars
<1>4. SnapshotFollows'
  BY DEF WindowInv, SnapshotFollows, Fresh, runtimeVars
<1>5. QED
  BY <1>1, <1>2, <1>3, <1>4 DEF WindowInv

-----------------------------------------------------------------------------
\* When an interaction can start nobody waits.
LEMMA NobodyWaits ==
    ASSUME WindowInv, snapshot # NoSnapshot, ~IsBusy(g), ~flags.mutation, ~flags.refresh,
           NEW h \in Flows
    PROVE  ~Waits(h) /\ call[h].stage = "idle" /\ call[h].outcome = "none" /\ ~g.dirty
<1>1. g.ending = "no" /\ ~g.dirty /\ ~g.pumping /\ ~g.discrete /\ load = "done"
  BY DEF WindowInv, OneInteraction, IsBusy
<1>2. ~Waits(h)
  BY <1>1 DEF Waits
<1>3. QED
  BY <1>1, <1>2 DEF WindowInv, CallsMatch

LEMMA ActsAreCounted ==
    ASSUME TypeOK, Acting
    PROVE  /\ acts' \in 0..MaxActs /\ window = "open"
           /\ UNCHANGED <<runtimeVars, slot, load, window, snapshot, failed, stale, faults>>
BY ActsAssumption DEF TypeOK, Acting

LEMMA OnLoadedKeepsInv ==
    ASSUME WindowInv, OnLoaded
    PROVE  WindowInv'
<1> DEFINE answer == call["load"]
<1>0. answer.stage = "answered" /\ "load" \in Flows
  BY DEF OnLoaded, Flows
<1>1. CASE Close
  BY <1>1, CloseKeepsInv
<1>2. CASE ~Close
  <2>0. /\ answer.outcome = "Success"
        /\ UNCHANGED <<runtimeVars, slot, window, g, flags, size, hand, ghosts, acts, faults>>
    BY <1>2 DEF OnLoaded
  <2> USE <2>0 DEF runtimeVars, ghosts
  <2>1. /\ load # "done" /\ window # "closed" /\ answer.snapshot \in Snapshots
        /\ snapshot = NoSnapshot /\ g = NoGesture /\ flags = NoFlags
        /\ answer.operation = IF load = "info" THEN "GetRuntimeInfo" ELSE "GetSettingsSnapshot"
        /\ \A h \in Flows \ {"load"} : ~Waits(h) /\ call[h].outcome = "none"
    BY <1>0, AnsweredAlone DEF Waits, Asks, WindowInv, OneInteraction
  <2>2. ~NoGesture.pumping /\ NoGesture.ending = "no" /\ ~NoGesture.discrete
        /\ ~NoGesture.active /\ ~NoGesture.dirty /\ ~NoFlags.mutation /\ ~NoFlags.refresh
    BY DEF NoGesture, NoFlags
  <2>3. TypeOK
    BY DEF WindowInv
  <2>4. /\ ~failed => Agreed'
        /\ slot.owner = "orphan" /\ slot.operation \in OpacityOperations => failed
    BY <2>1, <2>2 DEF WindowInv, OpacityFollows, Agreed, Failing, Flows
  <2>5. CASE load = "info"
    <3>1. load' = "snapshot" /\ Issue("load", "GetSettingsSnapshot", None)
          /\ UNCHANGED <<snapshot, thumb>>
      BY <1>2, <2>5 DEF OnLoaded
    <3>2. /\ call' \in [Flows -> Calls] /\ CallsMatch'
          /\ \A h \in Flows : call'[h].outcome = "none"
      <4>1. Waits("load")' /\ Asks("load", "GetSettingsSnapshot", None)'
            /\ \A h \in Flows \ {"load"} : ~Waits(h)'
        BY <2>1, <2>2, <3>1 DEF Waits, Asks
      <4>2. QED
        BY <1>0, <2>1, <3>1, <4>1, IssueKeepsCalls DEF Operations
    <3>3. TypeOK'
      BY <2>3, <3>1, <3>2 DEF TypeOK
    <3>4. OneInteraction' /\ ThumbFollows'
      BY <2>5, <3>1 DEF WindowInv, OneInteraction, ThumbFollows, SliderOpacityValue
    <3>5. QED
      BY <2>1, <2>4, <3>1, <3>2, <3>3, <3>4, SettledKeepsInv
  <2>6. CASE load = "snapshot"
    <3>1. /\ load' = "done" /\ Finish("load") /\ snapshot' = answer.snapshot
          /\ thumb' = SliderOpacityValue(g, snapshot')
      BY <1>2, <2>6 DEF OnLoaded
    <3>2. /\ call' \in [Flows -> Calls] /\ CallsMatch'
          /\ \A h \in Flows : call'[h].outcome = "none"
      <4>1. \A h \in Flows : ~Waits(h)'
        BY <2>1, <2>2, <3>1 DEF Waits
      <4>2. QED
        BY <1>0, <3>1, <4>1, FinishKeepsCalls
    <3>3. TypeOK'
      <4>1. thumb' \in Opacities
        BY <2>1, <2>2, <2>3, <3>1, SliderIsTyped DEF TypeOK
      <4>2. QED
        BY <2>1, <2>3, <3>1, <3>2, <4>1 DEF TypeOK
    <3>4. OneInteraction' /\ ThumbFollows'
      BY <2>1, <2>2, <3>1, SnapshotsAreReal DEF WindowInv, OneInteraction, ThumbFollows, SliderOpacityValue
    <3>5. QED
      BY <1>0, <2>1, <2>4, <2>6, <3>1, <3>2, <3>3, <3>4, SettledKeepsInv
  <2>7. QED
    BY <2>1, <2>3, <2>5, <2>6 DEF TypeOK
<1>3. QED
  BY <1>1, <1>2

\* A discrete control that starts: nothing else is under way.
LEMMA MutateKeepsInv ==
    ASSUME WindowInv, snapshot # NoSnapshot, ~IsBusy(g), ~flags.mutation, ~flags.refresh,
           NEW v \in Others, Issue("mutation", "Set", v),
           flags' = [flags EXCEPT !.mutation = TRUE],
           UNCHANGED <<runtimeVars, slot, load, window, snapshot, failed, stale, faults, g, wanted>>,
           size' \in Others, hand' \in {"off", "size"}, flags.sizing => hand' = "off",
           acts' \in 0..MaxActs,
           RaiseAllChanged
    PROVE  WindowInv'
<1>1. "mutation" \in Flows /\ \A h \in Flows : ~Waits(h) /\ call[h].stage = "idle" /\ call[h].outcome = "none"
  BY NobodyWaits DEF Flows
<1>2. TypeOK /\ flags \in Flags /\ flags' \in Flags
      /\ flags'.mutation /\ flags'.refresh = flags.refresh /\ flags'.sizing = flags.sizing
  BY DEF WindowInv, TypeOK, Flags
<1>3. /\ call' \in [Flows -> Calls] /\ CallsMatch'
      /\ \A h \in Flows : call'[h].outcome = "none"
  <2>1. Waits("mutation")' /\ Asks("mutation", "Set", v)'
        /\ \A h \in Flows \ {"mutation"} : ~Waits(h)'
    BY <1>1, <1>2 DEF Waits, Asks
  <2>2. QED
    BY <1>1, <2>1, IssueKeepsCalls DEF Operations
<1>4. thumb' \in Opacities
  BY SliderIsTyped DEF WindowInv, OneInteraction, TypeOK, RaiseAllChanged
<1>5. TypeOK'
  BY <1>2, <1>3, <1>4 DEF TypeOK, runtimeVars
<1>6. OneInteraction'
  BY <1>2 DEF WindowInv, OneInteraction, IsBusy
<1>7. ThumbFollows'
  BY DEF ThumbFollows, RaiseAllChanged
<1>8. window # "closed" =>
        /\ ~failed /\ ~g.dirty /\ ~g.discrete => Agreed'
        /\ slot.owner = "orphan" /\ slot.operation \in OpacityOperations => failed
  BY <1>1 DEF WindowInv, OpacityFollows, Agreed, Failing, Flows, runtimeVars
<1>9. QED
  BY <1>1, <1>3, <1>5, <1>6, <1>7, <1>8, SettledKeepsInv

LEMMA ChooseKeepsInv ==
    ASSUME WindowInv, NEW v \in Others, Choose(v)
    PROVE  WindowInv'
<1>1. /\ acts' \in 0..MaxActs /\ window = "open"
      /\ UNCHANGED <<runtimeVars, slot, load, window, snapshot, failed, stale, faults>>
      /\ UNCHANGED <<g, size, hand, wanted>> /\ hand = "off" /\ RaiseAllChanged
      /\ snapshot # NoSnapshot /\ flags = NoFlags /\ ~IsBusy(g)
  BY ActsAreCounted DEF WindowInv, Choose, CanStartInteraction, Occupied
<1>2. CASE Issue("mutation", "Set", v) /\ flags' = [flags EXCEPT !.mutation = TRUE]
  BY <1>1, <1>2, MutateKeepsInv DEF NoFlags, WindowInv, TypeOK
<1>3. CASE UNCHANGED <<call, flags>>
  <2>1. thumb' \in Opacities
    BY <1>1, SliderIsTyped DEF WindowInv, OneInteraction, TypeOK, RaiseAllChanged
  <2>2. TypeOK' /\ OneInteraction' /\ ThumbFollows' /\ \A h \in Flows : Waits(h)' <=> Waits(h)
    BY <1>1, <1>3, <2>1
       DEF WindowInv, TypeOK, OneInteraction, ThumbFollows, RaiseAllChanged, Waits, runtimeVars
  <2>3. QED
    BY <1>1, <1>3, <2>2, WaitingKeepsInv
<1>4. QED
  BY <1>2, <1>3 DEF Choose, Mutate

LEMMA BeginHudSizeKeepsInv ==
    ASSUME WindowInv, BeginHudSizeInteraction
    PROVE  WindowInv'
<1>1. /\ acts' \in 0..MaxActs /\ window = "open"
      /\ UNCHANGED <<runtimeVars, slot, load, window, snapshot, failed, stale, faults>>
      /\ UNCHANGED <<call, g, thumb, wanted>> /\ hand = "off" /\ hand' = "size"
      /\ snapshot # NoSnapshot /\ ~flags.mutation /\ ~flags.refresh
  BY ActsAreCounted DEF WindowInv, BeginHudSizeInteraction, IsHudSizeSliderEnabled
<1>2. ~flags.sizing /\ flags \in Flags
  BY <1>1 DEF WindowInv, OneInteraction, TypeOK
<1>3. /\ flags' \in Flags /\ size' \in Others /\ ~flags'.mutation /\ ~flags'.refresh
      /\ IsBusy(g) => flags' = flags
  BY <1>1, <1>2 DEF BeginHudSizeInteraction, CanStartInteraction, Occupied, WindowInv, TypeOK, Flags, Snapshots
<1>4. TypeOK' /\ ThumbFollows' /\ \A h \in Flows : Waits(h)' <=> Waits(h)
  BY <1>1, <1>3 DEF WindowInv, TypeOK, ThumbFollows, SliderOpacityValue, Waits, runtimeVars
<1>5. OneInteraction'
  BY <1>1, <1>3 DEF WindowInv, OneInteraction
<1>6. QED
  BY <1>1, <1>4, <1>5, WaitingKeepsInv

LEMMA OnHudSizeKeepsInv ==
    ASSUME WindowInv, NEW v \in Others, OnHudSizeValueChanged(v)
    PROVE  WindowInv'
<1>1. /\ acts' \in 0..MaxActs /\ window = "open"
      /\ UNCHANGED <<runtimeVars, slot, load, window, snapshot, failed, stale, faults>>
      /\ UNCHANGED <<g, hand, wanted>> /\ hand = "size" /\ RaiseAllChanged
      /\ snapshot # NoSnapshot /\ ~flags.mutation /\ ~flags.refresh
  BY ActsAreCounted DEF WindowInv, OnHudSizeValueChanged, IsHudSizeSliderEnabled
<1>2. CASE Issue("mutation", "Set", v) /\ flags' = [flags EXCEPT !.mutation = TRUE]
           /\ UNCHANGED size /\ ~flags.sizing
  <2>1. ~IsBusy(g)
    BY <1>2 DEF OnHudSizeValueChanged, IsHudSizeSliderEnabled
  <2>2. QED
    BY <1>1, <1>2, <2>1, MutateKeepsInv DEF WindowInv, TypeOK
<1>3. CASE UNCHANGED <<call, flags>> /\ size' \in Others
  <2>1. thumb' \in Opacities
    BY <1>1, SliderIsTyped DEF WindowInv, OneInteraction, TypeOK, RaiseAllChanged
  <2>2. TypeOK' /\ OneInteraction' /\ ThumbFollows' /\ \A h \in Flows : Waits(h)' <=> Waits(h)
    BY <1>1, <1>3, <2>1
       DEF WindowInv, TypeOK, OneInteraction, ThumbFollows, RaiseAllChanged, Waits, runtimeVars
  <2>3. QED
    BY <1>1, <1>3, <2>2, WaitingKeepsInv
<1>4. QED
  BY <1>2, <1>3 DEF OnHudSizeValueChanged, Mutate, WindowInv, TypeOK

LEMMA EndHudSizeKeepsInv ==
    ASSUME WindowInv, EndHudSizeInteraction
    PROVE  WindowInv'
<1>1. /\ window = "open" /\ hand = "size" /\ hand' = "off" /\ RaiseAllChanged
      /\ UNCHANGED <<runtimeVars, slot, load, window, snapshot, g, size, ghosts, acts, faults>>
  BY DEF EndHudSizeInteraction
<1>2. TypeOK /\ flags \in Flags
  BY DEF WindowInv, TypeOK
<1>3. thumb' \in Opacities
  BY <1>1, SliderIsTyped DEF WindowInv, OneInteraction, TypeOK, RaiseAllChanged
<1>4. CASE UNCHANGED call /\ flags' \in Flags /\ ~flags'.sizing
           /\ flags'.mutation = flags.mutation /\ flags'.refresh = flags.refresh
           /\ (flags = NoFlags => flags' = NoFlags)
  <2>1. TypeOK' /\ ThumbFollows' /\ \A h \in Flows : Waits(h)' <=> Waits(h)
    BY <1>1, <1>2, <1>3, <1>4
       DEF TypeOK, ThumbFollows, RaiseAllChanged, Waits, runtimeVars, ghosts
  <2>2. OneInteraction'
    BY <1>1, <1>4 DEF WindowInv, OneInteraction, ghosts
  <2>3. QED
    BY <1>1, <1>4, <2>1, <2>2, WaitingKeepsInv DEF ghosts
<1>5. CASE flags' = [flags EXCEPT !.mutation = TRUE] /\ Issue("mutation", "Set", size) /\ flags.sizing
  <2>1. ~flags.mutation /\ ~flags.refresh /\ snapshot # NoSnapshot /\ ~IsBusy(g)
    BY <1>1, <1>5 DEF WindowInv, OneInteraction, NoFlags
  <2>2. QED
    BY <1>1, <1>2, <1>5, <2>1, MutateKeepsInv DEF TypeOK, ghosts
<1>6. QED
  <2>1. CASE ~flags.sizing
    BY <1>2, <1>4, <2>1 DEF EndHudSizeInteraction
  <2>2. CASE flags.sizing
    <3>1. flags # NoFlags
      BY <2>2 DEF NoFlags
    <3>2. CASE size = snapshot.other
      <4>1. flags' = [flags EXCEPT !.sizing = FALSE] /\ UNCHANGED call
        BY <2>2, <3>2 DEF EndHudSizeInteraction
      <4>2. QED
        BY <1>2, <1>4, <3>1, <4>1 DEF Flags
    <3>3. CASE size # snapshot.other
      BY <1>5, <2>2, <3>3 DEF EndHudSizeInteraction
    <3>4. QED
      BY <3>2, <3>3
  <2>3. QED
    BY <2>1, <2>2

\* What an answer that is taken leaves.
LEMMA AcceptTakes ==
    ASSUME WindowInv, NEW f \in Flows \ {"load"}, call[f].stage = "answered", Accept(call[f])
    PROVE  /\ snapshot' \in Snapshots /\ snapshot' # NoSnapshot
           /\ window' \in {window, "lost"} /\ window # "closed" /\ load = "done"
           /\ \/ snapshot' = snapshot /\ \A h \in Flows : call[h].outcome # "Success"
              \/ \E h \in Flows : /\ call[h].outcome = "Success"
                                  /\ call[h].operation # "GetRuntimeInfo"
                                  /\ snapshot' = call[h].snapshot
           /\ call[f].outcome = "Success" => snapshot' = call[f].snapshot
<1>1. /\ call[f].outcome = "Success" => call[f].snapshot \in Snapshots
      /\ Asks(f, call[f].operation, call[f].value)
      /\ \A h \in Flows \ {f} : call[h].outcome = "none"
      /\ load = "done" /\ window # "closed" /\ snapshot \in Snapshots
  BY AnsweredAlone DEF WindowInv, TypeOK
<1>2. CASE call[f].outcome = "Success"
  <2>1. call[f].operation # "GetRuntimeInfo"
    BY <1>1 DEF Asks
  <2>2. QED
    BY <1>1, <1>2, <2>1, SnapshotsAreReal DEF Accept
<1>3. CASE call[f].outcome # "Success"
  BY <1>1, <1>3, SnapshotsAreReal DEF Accept
<1>4. QED
  BY <1>2, <1>3

\* The answer to a change, or to a refresh: nothing else is under way.
LEMMA ControlAnsweredKeepsInv ==
    ASSUME WindowInv, NEW f \in {"mutation", "refresh"}, call[f].stage = "answered",
           Accept(call[f]), Finish(f), flags' = NoFlags,
           UNCHANGED <<runtimeVars, slot, load, g, size, hand, ghosts, acts, faults>>,
           RaiseAllChanged
    PROVE  WindowInv'
<1>0. f \in Flows \ {"load"} /\ f \notin {"pump", "commit"}
  BY DEF Flows
<1>1. Waits(f) /\ \A h \in Flows \ {f} : ~Waits(h) /\ call[h].outcome = "none"
  BY <1>0, AnsweredAlone
<1>2. ~IsBusy(g)
  BY <1>1 DEF Waits, WindowInv, OneInteraction, NoFlags
<1>3. g.ending = "no" /\ ~g.pumping /\ ~g.discrete /\ ~g.dirty /\ ~g.active
  BY <1>2 DEF WindowInv, OneInteraction, IsBusy
<1>4. ~NoFlags.mutation /\ ~NoFlags.refresh /\ ~NoFlags.sizing /\ NoFlags \in Flags
  BY DEF NoFlags, Flags
<1>5. /\ snapshot' \in Snapshots /\ snapshot' # NoSnapshot
      /\ window' \in {window, "lost"} /\ window # "closed" /\ load = "done"
      /\ \/ snapshot' = snapshot /\ \A h \in Flows : call[h].outcome # "Success"
         \/ \E h \in Flows : /\ call[h].outcome = "Success"
                             /\ call[h].operation # "GetRuntimeInfo"
                             /\ snapshot' = call[h].snapshot
  BY <1>0, AcceptTakes
<1>6. /\ call' \in [Flows -> Calls] /\ CallsMatch'
      /\ \A h \in Flows : call'[h].outcome = "none"
  <2>1. \A h \in Flows : ~Waits(h)'
    BY <1>3, <1>4, <1>5 DEF Waits
  <2>2. QED
    BY <1>0, <2>1, FinishKeepsCalls
<1>7. TypeOK /\ thumb' \in Opacities
  BY <1>3, <1>5, SliderIsTyped DEF WindowInv, TypeOK, RaiseAllChanged
<1>8. TypeOK'
  BY <1>4, <1>5, <1>6, <1>7 DEF TypeOK, runtimeVars, ghosts
<1>9. OneInteraction'
  BY <1>3, <1>4, <1>5 DEF OneInteraction, IsBusy
<1>10. ThumbFollows'
  BY DEF ThumbFollows, RaiseAllChanged
<1>11. /\ ~failed => Agreed'
       /\ slot.owner = "orphan" /\ slot.operation \in OpacityOperations => failed
  <2>1. call["pump"].outcome = "none" /\ call["commit"].outcome = "none"
    BY <1>0, <1>1 DEF Flows
  <2>2. QED
    BY <1>3, <1>5, <2>1 DEF WindowInv, OpacityFollows, Agreed, Failing, runtimeVars, ghosts
<1>12. QED
  BY <1>5, <1>6, <1>8, <1>9, <1>10, <1>11, SettledKeepsInv DEF ghosts

LEMMA MutationAnsweredKeepsInv ==
    ASSUME WindowInv, MutationAnswered
    PROVE  WindowInv'
<1>1. call["mutation"].stage = "answered"
  BY DEF MutationAnswered
<1>2. flags.mutation /\ flags \in Flags
  BY <1>1, AnsweredAlone DEF Flows, Waits, WindowInv, TypeOK
<1>3. flags' = NoFlags
  BY <1>2 DEF MutationAnswered, WindowInv, OneInteraction, NoFlags, Flags
<1>4. QED
  BY <1>1, <1>3, ControlAnsweredKeepsInv DEF MutationAnswered

LEMMA RefreshAnsweredKeepsInv ==
    ASSUME WindowInv, RefreshAnswered
    PROVE  WindowInv'
<1>1. call["refresh"].stage = "answered"
  BY DEF RefreshAnswered
<1>2. flags.refresh /\ flags \in Flags
  BY <1>1, AnsweredAlone DEF Flows, Waits, WindowInv, TypeOK
<1>3. flags' = NoFlags
  BY <1>2 DEF RefreshAnswered, WindowInv, OneInteraction, NoFlags, Flags
<1>4. QED
  BY <1>1, <1>3, ControlAnsweredKeepsInv DEF RefreshAnswered

LEMMA RefreshOnActivationKeepsInv ==
    ASSUME WindowInv, RefreshOnActivation
    PROVE  WindowInv'
<1>1. /\ acts' \in 0..MaxActs /\ window = "open"
      /\ UNCHANGED <<runtimeVars, slot, load, window, snapshot, failed, stale, faults>>
      /\ UNCHANGED <<g, size, hand, wanted>> /\ hand = "off" /\ RaiseAllChanged
      /\ snapshot # NoSnapshot /\ flags = NoFlags /\ ~IsBusy(g)
      /\ flags' = [flags EXCEPT !.refresh = TRUE]
      /\ Issue("refresh", "GetSettingsSnapshot", None)
  BY ActsAreCounted DEF WindowInv, RefreshOnActivation, CanStartInteraction, Occupied
<1>2. /\ flags' \in Flags /\ flags'.refresh /\ ~flags'.mutation /\ ~flags'.sizing
      /\ ~flags.mutation /\ ~flags.refresh
  BY <1>1 DEF NoFlags, Flags
<1>3. "refresh" \in Flows /\ \A h \in Flows : ~Waits(h) /\ call[h].stage = "idle" /\ call[h].outcome = "none"
  BY <1>1, <1>2, NobodyWaits DEF Flows
<1>4. /\ call' \in [Flows -> Calls] /\ CallsMatch'
      /\ \A h \in Flows : call'[h].outcome = "none"
  <2>1. Waits("refresh")' /\ Asks("refresh", "GetSettingsSnapshot", None)'
        /\ \A h \in Flows \ {"refresh"} : ~Waits(h)'
    BY <1>1, <1>2, <1>3 DEF Waits, Asks
  <2>2. QED
    BY <1>1, <1>3, <2>1, IssueKeepsCalls DEF Operations
<1>5. TypeOK /\ thumb' \in Opacities
  BY <1>1, SliderIsTyped DEF WindowInv, OneInteraction, TypeOK, RaiseAllChanged
<1>6. TypeOK'
  BY <1>1, <1>2, <1>4, <1>5 DEF TypeOK, runtimeVars
<1>7. OneInteraction' /\ ThumbFollows'
  BY <1>1, <1>2 DEF WindowInv, OneInteraction, ThumbFollows, IsBusy, RaiseAllChanged
<1>8. /\ ~failed /\ ~g.dirty /\ ~g.discrete => Agreed'
      /\ slot.owner = "orphan" /\ slot.operation \in OpacityOperations => failed
  BY <1>1, <1>3 DEF WindowInv, OpacityFollows, Agreed, Failing, Flows, runtimeVars
<1>9. QED
  BY <1>1, <1>3, <1>4, <1>6, <1>7, <1>8, SettledKeepsInv

-----------------------------------------------------------------------------
\* The opacity slider.

LEMMA BeginOpacityKeepsInv ==
    ASSUME WindowInv, BeginOpacityInteraction
    PROVE  WindowInv'
<1>1. /\ acts' \in 0..MaxActs /\ window = "open"
      /\ UNCHANGED <<runtimeVars, slot, load, window, snapshot, failed, stale, faults>>
      /\ UNCHANGED <<call, flags, size, wanted>> /\ hand' = "opacity" /\ RaiseAllChanged
      /\ snapshot # NoSnapshot /\ flags = NoFlags
  BY ActsAreCounted DEF WindowInv, BeginOpacityInteraction, IsOpacitySliderEnabled
<1>2. CASE UNCHANGED g
  <2>1. thumb' \in Opacities
    BY <1>1, <1>2, SliderIsTyped DEF WindowInv, OneInteraction, TypeOK, RaiseAllChanged
  <2>2. TypeOK' /\ OneInteraction' /\ ThumbFollows' /\ \A h \in Flows : Waits(h)' <=> Waits(h)
    BY <1>1, <1>2, <2>1
       DEF WindowInv, TypeOK, OneInteraction, ThumbFollows, RaiseAllChanged, Waits, runtimeVars, NoFlags
  <2>3. QED
    BY <1>1, <1>2, <2>2, WaitingKeepsInv
<1>3. CASE ~IsBusy(g) /\ g' = [NoGesture EXCEPT !.active = TRUE, !.value = snapshot.opacity]
  <2>1. /\ g' \in Coordinators /\ g'.active /\ g'.value \in Opacities /\ g'.ending = "no"
        /\ ~g'.dirty /\ ~g'.pumping /\ ~g'.discrete
    BY <1>1, <1>3 DEF WindowInv, TypeOK, Snapshots, NoGesture, Coordinators
  <2>2. ~flags.mutation /\ ~flags.refresh /\ ~flags.sizing
    BY <1>1 DEF NoFlags
  <2>3. ~g.dirty /\ ~g.discrete /\ \A h \in Flows : ~Waits(h)
    BY <1>1, <1>3, <2>2, NobodyWaits DEF IsBusy, Flows
  <2>4. thumb' \in Opacities
    BY <1>1, <2>1, SliderIsTyped DEF WindowInv, TypeOK, RaiseAllChanged
  <2>5. TypeOK' /\ ThumbFollows'
    BY <1>1, <2>1, <2>4 DEF WindowInv, TypeOK, ThumbFollows, RaiseAllChanged, runtimeVars
  <2>6. OneInteraction'
    BY <1>1, <2>1, <2>2 DEF WindowInv, OneInteraction
  <2>7. \A h \in Flows : ~Waits(h)'
    BY <1>1, <2>1, <2>2, <2>3 DEF Waits
  <2>8. QED
    BY <1>1, <2>3, <2>5, <2>6, <2>7, WaitingKeepsInv
<1>4. QED
  BY <1>2, <1>3 DEF BeginOpacityInteraction, CanStartInteraction, Occupied

\* A value the gesture takes.
LEMMA UpdateKeepsInv ==
    ASSUME WindowInv, NEW v \in Opacities, g.active, Update(v),
           UNCHANGED <<runtimeVars, slot, load, window, snapshot, failed, stale, faults>>,
           UNCHANGED <<flags, size, hand>>, acts' \in 0..MaxActs, window = "open"
    PROVE  WindowInv'
<1>1. TypeOK /\ g \in Coordinators /\ ~g.discrete /\ flags = NoFlags /\ snapshot # NoSnapshot
  BY DEF WindowInv, TypeOK, OneInteraction, IsBusy, NoGesture
<1>2. load = "done" /\ ~flags.mutation /\ ~flags.refresh /\ ~flags.sizing
  BY <1>1 DEF WindowInv, OneInteraction, NoFlags
<1>3. CASE g.ending # "no" \/ v = g.value
  <2>1. UNCHANGED <<g, call, wanted>> /\ thumb' = v
    BY <1>3 DEF Update
  <2>2. TypeOK' /\ OneInteraction' /\ ThumbFollows' /\ \A h \in Flows : Waits(h)' <=> Waits(h)
    BY <1>1, <2>1 DEF WindowInv, TypeOK, OneInteraction, ThumbFollows, Waits, runtimeVars
  <2>3. QED
    BY <2>1, <2>2, WaitingKeepsInv
<1>4. CASE g.ending = "no" /\ v # g.value
  <2> DEFINE after == [g EXCEPT !.value = v, !.dirty = TRUE]
             start == ~g.pumping /\ v # g.last
  <2>1. /\ g' = IF start THEN [after EXCEPT !.pumping = TRUE, !.pending = None]
                ELSE IF g.pumping THEN [after EXCEPT !.pending = v] ELSE after
        /\ IF start THEN Issue("pump", "PreviewHudOpacity", v) ELSE UNCHANGED call
        /\ wanted' = v /\ thumb' = v
    BY <1>4 DEF Update
  <2>2. /\ g' \in Coordinators /\ g'.active /\ g'.dirty /\ g'.value = v /\ ~g'.discrete
        /\ g'.ending = "no" /\ g'.pumping = (start \/ g.pumping)
    BY <1>1, <1>4, <2>1 DEF Coordinators
  <2>3. OneInteraction' /\ ThumbFollows'
    BY <1>1, <2>1, <2>2 DEF WindowInv, OneInteraction, ThumbFollows
  <2>4. CASE start
    <3>1. \A h \in Flows : ~Waits(h) /\ call[h].stage = "idle" /\ call[h].outcome = "none"
      BY <1>1, <1>2, <1>4, <2>4 DEF Waits, WindowInv, CallsMatch
    <3>2. /\ Waits("pump")' /\ Asks("pump", "PreviewHudOpacity", v)' /\ "pump" \in Flows
          /\ \A h \in Flows \ {"pump"} : ~Waits(h)'
      BY <1>2, <2>2, <2>4 DEF Waits, Asks, Flows
    <3>3. /\ call' \in [Flows -> Calls] /\ CallsMatch'
          /\ \A h \in Flows : call'[h].outcome = "none"
      BY <2>1, <2>4, <3>1, <3>2, IssueKeepsCalls DEF Operations
    <3>4. TypeOK'
      BY <1>1, <2>1, <2>2, <3>3 DEF TypeOK, runtimeVars
    <3>5. slot.owner = "orphan" /\ slot.operation \in OpacityOperations => failed
      BY <3>1 DEF WindowInv, OpacityFollows, Failing, Flows
    <3>6. QED
      BY <2>2, <2>3, <3>1, <3>3, <3>4, <3>5, SettledKeepsInv
  <2>5. CASE ~start
    <3>1. UNCHANGED call /\ g'.pumping = g.pumping
      BY <1>1, <2>1, <2>2, <2>5 DEF Coordinators
    <3>2. TypeOK'
      BY <1>1, <2>1, <2>2, <3>1 DEF TypeOK, runtimeVars
    <3>3. \A h \in Flows : Waits(h)' <=> Waits(h)
      BY <1>1, <1>4, <2>2, <3>1 DEF Waits
    <3>4. ~Waits("commit")
      BY <1>1, <1>4 DEF Waits
    <3>5. QED
      BY <2>2, <2>3, <3>1, <3>2, <3>3, <3>4, WaitingKeepsInv
  <2>6. QED
    BY <2>4, <2>5
<1>5. QED
  BY <1>3, <1>4

\* A value without a gesture.
LEMMA ChangeAndCommitKeepsInv ==
    ASSUME WindowInv, NEW v \in Opacities, ~g.active, ChangeAndCommit(v), flags = NoFlags,
           snapshot # NoSnapshot,
           UNCHANGED <<runtimeVars, slot, load, window, snapshot, failed, stale, faults>>,
           UNCHANGED <<flags, size, hand>>, acts' \in 0..MaxActs, window = "open"
    PROVE  WindowInv'
<1>1. TypeOK /\ g \in Coordinators /\ ~g.dirty /\ g.ending = "no" /\ ~g.pumping
      /\ snapshot \in Snapshots
  BY DEF WindowInv, TypeOK, OneInteraction
<1>2. CASE ~CanStartInteraction \/ v = snapshot.opacity
  <2>1. UNCHANGED <<g, call, wanted>> /\ thumb' = v
    BY <1>2 DEF ChangeAndCommit
  <2>2. g.discrete \/ v = snapshot.opacity
    BY <1>1, <1>2 DEF CanStartInteraction, Occupied, IsBusy
  <2>3. TypeOK' /\ OneInteraction' /\ ThumbFollows' /\ \A h \in Flows : Waits(h)' <=> Waits(h)
    BY <1>1, <2>1, <2>2
       DEF WindowInv, TypeOK, OneInteraction, ThumbFollows, SliderOpacityValue, Waits, runtimeVars
  <2>4. QED
    BY <2>1, <2>3, WaitingKeepsInv
<1>3. CASE ~(~CanStartInteraction \/ v = snapshot.opacity)
  <2>1. /\ g' = [g EXCEPT !.discrete = TRUE] /\ Issue("commit", "CommitHudOpacity", v)
        /\ wanted' = v /\ thumb' = snapshot.opacity
    BY <1>3 DEF ChangeAndCommit
  <2>2. /\ g' \in Coordinators /\ g'.discrete /\ ~g'.active /\ ~g'.dirty /\ ~g'.pumping
        /\ g'.ending = "no"
    BY <1>1, <2>1 DEF Coordinators
  <2>3. ~IsBusy(g) /\ ~flags.mutation /\ ~flags.refresh /\ ~flags.sizing
    BY <1>3 DEF CanStartInteraction, Occupied, NoFlags
  <2>4. "commit" \in Flows /\ \A h \in Flows : ~Waits(h) /\ call[h].stage = "idle" /\ call[h].outcome = "none"
    BY <2>3, NobodyWaits DEF Flows
  <2>5. /\ Waits("commit")' /\ Asks("commit", "CommitHudOpacity", v)'
        /\ \A h \in Flows \ {"commit"} : ~Waits(h)'
    BY <2>1, <2>2, <2>3, <2>4 DEF Waits, Asks
  <2>6. /\ call' \in [Flows -> Calls] /\ CallsMatch'
        /\ \A h \in Flows : call'[h].outcome = "none"
    BY <2>1, <2>4, <2>5, IssueKeepsCalls DEF Operations
  <2>7. TypeOK'
    BY <1>1, <2>1, <2>2, <2>6 DEF TypeOK, Snapshots, runtimeVars
  <2>8. OneInteraction' /\ ThumbFollows'
    BY <2>2 DEF WindowInv, OneInteraction, ThumbFollows
  <2>9. slot.owner = "orphan" /\ slot.operation \in OpacityOperations => failed
    BY <2>4 DEF WindowInv, OpacityFollows, Failing, Flows
  <2>10. QED
    BY <2>2, <2>4, <2>6, <2>7, <2>8, <2>9, SettledKeepsInv
<1>4. QED
  BY <1>2, <1>3

LEMMA OnOpacityKeepsInv ==
    ASSUME WindowInv, NEW v \in Opacities, OnOpacityValueChanged(v)
    PROVE  WindowInv'
<1>1. /\ acts' \in 0..MaxActs /\ window = "open"
      /\ UNCHANGED <<runtimeVars, slot, load, window, snapshot, failed, stale, faults>>
      /\ UNCHANGED <<flags, size, hand>> /\ snapshot # NoSnapshot /\ flags = NoFlags
      /\ IF g.active THEN Update(v) ELSE ChangeAndCommit(v)
  BY ActsAreCounted DEF WindowInv, OnOpacityValueChanged, IsOpacitySliderEnabled
<1>2. CASE g.active
  BY <1>1, <1>2, UpdateKeepsInv
<1>3. CASE ~g.active
  BY <1>1, <1>3, ChangeAndCommitKeepsInv
<1>4. QED
  BY <1>2, <1>3

\* The end of a gesture whose pump is over.
LEMMA CommitGestureKeepsInv ==
    ASSUME WindowInv, NEW c \in Coordinators, CommitGesture(c),
           g.active, g.ending # "committing", ~g.pumping,
           c.active, c.dirty = g.dirty, c.value = g.value, ~c.pumping, ~c.discrete,
           UNCHANGED <<runtimeVars, slot, load, window, snapshot, flags, size, ghosts, acts, faults>>,
           hand' \in {"off", "opacity", "size"}, RaiseAllChanged
    PROVE  WindowInv'
<1>1. TypeOK /\ ~g.discrete /\ g.value \in Opacities /\ flags = NoFlags
      /\ snapshot # NoSnapshot /\ load = "done"
  BY DEF WindowInv, OneInteraction, IsBusy, NoGesture
<1>2. ~flags.mutation /\ ~flags.refresh /\ ~flags.sizing
  BY <1>1 DEF NoFlags
<1>3. "commit" \in Flows /\ \A h \in Flows : ~Waits(h) /\ call[h].stage = "idle" /\ call[h].outcome = "none"
  BY <1>1, <1>2 DEF Waits, WindowInv, CallsMatch, Flows
<1>4. CASE c.dirty
  <2>1. g' = [c EXCEPT !.ending = "committing"] /\ Issue("commit", "CommitHudOpacity", c.value)
    BY <1>4 DEF CommitGesture
  <2>2. /\ g' \in Coordinators /\ g'.active /\ g'.dirty /\ ~g'.pumping /\ ~g'.discrete
        /\ g'.ending = "committing" /\ g'.value = g.value /\ g.value = wanted
    BY <1>4, <2>1 DEF Coordinators, WindowInv, OneInteraction
  <2>3. /\ Waits("commit")' /\ Asks("commit", "CommitHudOpacity", c.value)'
        /\ \A h \in Flows \ {"commit"} : ~Waits(h)'
    BY <1>1, <1>2, <2>2 DEF Waits, Asks, ghosts
  <2>4. /\ call' \in [Flows -> Calls] /\ CallsMatch'
        /\ \A h \in Flows : call'[h].outcome = "none"
    BY <1>1, <1>3, <2>1, <2>3, IssueKeepsCalls DEF Operations
  <2>5. thumb' \in Opacities
    BY <1>1, <2>2, SliderIsTyped DEF TypeOK, RaiseAllChanged
  <2>6. TypeOK'
    BY <1>1, <2>2, <2>4, <2>5 DEF TypeOK, runtimeVars, ghosts
  <2>7. OneInteraction' /\ ThumbFollows'
    BY <1>1, <1>2, <2>2 DEF WindowInv, OneInteraction, ThumbFollows, ghosts
  <2>8. slot.owner = "orphan" /\ slot.operation \in OpacityOperations /\ window # "closed" => failed
    BY <1>3 DEF WindowInv, OpacityFollows, Failing, Flows
  <2>9. QED
    BY <1>3, <2>2, <2>4, <2>6, <2>7, <2>8, SettledKeepsInv DEF ghosts
<1>5. CASE ~c.dirty
  <2>1. g' = NoGesture /\ UNCHANGED call
    BY <1>5 DEF CommitGesture
  <2>2. /\ g' \in Coordinators /\ ~g'.active /\ ~g'.dirty /\ ~g'.pumping /\ ~g'.discrete
        /\ g'.ending = "no"
    BY <2>1 DEF NoGesture, Coordinators
  <2>3. thumb' \in Opacities
    BY <1>1, <2>2, SliderIsTyped DEF TypeOK, RaiseAllChanged
  <2>4. TypeOK'
    BY <1>1, <2>1, <2>2, <2>3 DEF TypeOK, runtimeVars, ghosts
  <2>5. OneInteraction' /\ ThumbFollows'
    BY <1>1, <1>2, <2>2 DEF WindowInv, OneInteraction, ThumbFollows, RaiseAllChanged, IsBusy
  <2>6. \A h \in Flows : ~Waits(h)'
    BY <1>1, <1>2, <2>2 DEF Waits
  <2>7. QED
    BY <1>1, <1>3, <1>5, <2>1, <2>4, <2>5, <2>6, WaitingKeepsInv DEF ghosts
<1>6. QED
  BY <1>4, <1>5

LEMMA EndOpacityKeepsInv ==
    ASSUME WindowInv, EndOpacityInteraction
    PROVE  WindowInv'
<1>1. /\ hand = "opacity" /\ hand' = "off" /\ RaiseAllChanged
      /\ UNCHANGED <<runtimeVars, slot, load, window, snapshot, flags, size, ghosts, acts, faults>>
  BY DEF EndOpacityInteraction
<1>2. TypeOK /\ g \in Coordinators
  BY DEF WindowInv, TypeOK
<1>3. CASE ~g.active \/ g.ending # "no" \/ g.pumping
  <2>1. /\ UNCHANGED call /\ g' \in Coordinators
        /\ g' = g \/ (g.pumping /\ g.active /\ g.ending = "no" /\ g'.ending = "draining")
        /\ g'.active = g.active /\ g'.dirty = g.dirty /\ g'.pumping = g.pumping
        /\ g'.discrete = g.discrete /\ g'.value = g.value
    <3>1. CASE ~g.active \/ g.ending # "no"
      BY <1>2, <3>1 DEF EndOpacityInteraction
    <3>2. CASE g.active /\ g.ending = "no"
      <4>1. g' = [g EXCEPT !.ending = "draining", !.pending = None] /\ UNCHANGED call
        BY <1>3, <3>2 DEF EndOpacityInteraction
      <4>2. QED
        BY <1>2, <1>3, <3>2, <4>1 DEF Coordinators
    <3>3. QED
      BY <3>1, <3>2
  <2>2. thumb' \in Opacities
    BY <1>1, <2>1, SliderIsTyped DEF WindowInv, OneInteraction, TypeOK, RaiseAllChanged
  <2>3. TypeOK'
    BY <1>1, <1>2, <2>1, <2>2 DEF TypeOK, runtimeVars, ghosts
  <2>4. OneInteraction' /\ ThumbFollows'
    <3>1. CASE g' = g
      BY <1>1, <3>1 DEF WindowInv, OneInteraction, ThumbFollows, RaiseAllChanged, ghosts
    <3>2. CASE g' # g
      <4>1. flags = NoFlags /\ snapshot # NoSnapshot /\ g.active /\ g.pumping /\ g'.ending = "draining"
        BY <2>1, <3>2 DEF WindowInv, OneInteraction, IsBusy, NoGesture
      <4>2. ~flags.refresh /\ ~flags.sizing
        BY <4>1 DEF NoFlags
      <4>3. QED
        BY <1>1, <2>1, <4>1, <4>2 DEF WindowInv, OneInteraction, ThumbFollows, RaiseAllChanged, ghosts
    <3>3. QED
      BY <3>1, <3>2
  <2>5. \A h \in Flows : Waits(h)' <=> Waits(h)
    BY <1>1, <2>1 DEF Waits
  <2>6. QED
    BY <1>1, <2>1, <2>3, <2>4, <2>5, WaitingKeepsInv DEF ghosts
<1>4. CASE ~(~g.active \/ g.ending # "no" \/ g.pumping)
  <2> DEFINE c == [g EXCEPT !.pending = None]
  <2>1. CommitGesture(c)
    BY <1>4 DEF EndOpacityInteraction
  <2>2. /\ c \in Coordinators /\ c.active /\ c.dirty = g.dirty /\ c.value = g.value
        /\ ~c.pumping /\ ~c.discrete
    BY <1>2, <1>4 DEF Coordinators, WindowInv, OneInteraction
  <2> HIDE DEF c
  <2>3. QED
    BY <1>1, <1>4, <2>1, <2>2, CommitGestureKeepsInv
<1>5. QED
  BY <1>3, <1>4

LEMMA EndAfterPumpKeepsInv ==
    ASSUME WindowInv, EndAfterPump
    PROVE  WindowInv'
<1>1. g \in Coordinators /\ g.active /\ ~g.discrete /\ g.ending = "draining" /\ ~g.pumping
  BY DEF WindowInv, TypeOK, OneInteraction, EndAfterPump
<1>2. hand' \in {"off", "opacity", "size"}
  BY DEF WindowInv, TypeOK, EndAfterPump
<1>3. QED
  BY <1>1, <1>2, CommitGestureKeepsInv DEF EndAfterPump

LEMMA PreviewAnsweredKeepsInv ==
    ASSUME WindowInv, PreviewAnswered
    PROVE  WindowInv'
<1> DEFINE answer == call["pump"]
           last == IF answer.outcome = "Success" THEN answer.value ELSE g.last
           over == g.ending # "no" \/ g.pending \in {None, last}
<1>1. /\ answer.stage = "answered" /\ Accept(answer) /\ "pump" \in Flows \ {"load"}
      /\ failed' = (failed \/ answer.outcome # "Success")
      /\ g' = [g EXCEPT !.last = last, !.pending = None, !.pumping = ~over]
      /\ IF over THEN Finish("pump") ELSE Issue("pump", "PreviewHudOpacity", g.pending)
      /\ UNCHANGED <<runtimeVars, slot, load, flags, size, hand, wanted, stale, acts, faults>>
      /\ RaiseAllChanged
  BY DEF PreviewAnswered, Flows
<1>2. /\ g.pumping /\ answer.value \in Opacities /\ answer.outcome \in Outcomes
      /\ \A h \in Flows \ {"pump"} : ~Waits(h) /\ call[h].outcome = "none"
  BY <1>1, AnsweredAlone DEF Waits, Asks
<1>3. TypeOK /\ g \in Coordinators
  BY DEF WindowInv, TypeOK
<1>4. /\ g.active /\ g.dirty /\ ~g.discrete /\ g.ending # "committing" /\ flags = NoFlags
      /\ g.value \in Opacities
  BY <1>2 DEF WindowInv, OneInteraction, IsBusy
<1>5. ~flags.mutation /\ ~flags.refresh /\ ~flags.sizing
  BY <1>4 DEF NoFlags
<1>6. /\ snapshot' \in Snapshots /\ snapshot' # NoSnapshot
      /\ window' \in {window, "lost"} /\ window # "closed" /\ load = "done"
      /\ \/ snapshot' = snapshot /\ \A h \in Flows : call[h].outcome # "Success"
         \/ \E h \in Flows : /\ call[h].outcome = "Success"
                             /\ call[h].operation # "GetRuntimeInfo"
                             /\ snapshot' = call[h].snapshot
  BY <1>1, AcceptTakes
<1>7. last \in Opacities \cup {None} /\ (~over => g.pending \in Opacities /\ g.ending = "no")
  BY <1>2, <1>3 DEF Coordinators
<1> HIDE DEF last, over, answer
<1>8. over \in BOOLEAN
  BY DEF over
<1>9. /\ g' \in Coordinators /\ g'.active /\ g'.dirty /\ ~g'.discrete
      /\ g'.ending = g.ending /\ g'.value = g.value /\ g'.pumping = ~over
  BY <1>1, <1>3, <1>4, <1>7, <1>8 DEF Coordinators
<1>10. /\ call' \in [Flows -> Calls] /\ CallsMatch'
       /\ \A h \in Flows : call'[h].outcome = "none"
  <2>1. \A h \in Flows \ {"pump"} : ~Waits(h)'
    BY <1>1, <1>4, <1>5, <1>6, <1>9 DEF Waits
  <2>2. CASE over
    <3>1. \A h \in Flows : ~Waits(h)'
      BY <1>9, <2>1, <2>2 DEF Waits
    <3>2. QED
      BY <1>1, <2>2, <3>1, FinishKeepsCalls DEF answer
  <2>3. CASE ~over
    <3>1. PICK v \in Opacities : v = g.pending
      BY <1>7, <2>3
    <3>2. Waits("pump")' /\ Asks("pump", "PreviewHudOpacity", v)'
      BY <1>8, <1>9, <2>3 DEF Waits, Asks
    <3>3. /\ Issue("pump", "PreviewHudOpacity", v) /\ "PreviewHudOpacity" \in Operations
          /\ v \in Opacities \cup Others \cup {None}
          /\ call["pump"].stage = "answered" /\ UNCHANGED slot
      BY <1>1, <2>3, <3>1 DEF Operations, answer
    <3>4. QED
      BY <1>1, <1>2, <2>1, <3>2, <3>3, IssueKeepsCalls
  <2>4. QED
    BY <2>2, <2>3
<1>11. thumb' \in Opacities
  BY <1>1, <1>3, <1>4, <1>6, <1>9, SliderIsTyped DEF TypeOK, RaiseAllChanged
<1>12. TypeOK'
  BY <1>1, <1>3, <1>6, <1>9, <1>10, <1>11 DEF TypeOK, runtimeVars
<1>13. OneInteraction' /\ ThumbFollows'
  BY <1>1, <1>4, <1>6, <1>9 DEF WindowInv, OneInteraction, ThumbFollows
<1>14. slot.owner = "orphan" /\ slot.operation \in OpacityOperations => failed'
  BY <1>1, <1>2, <1>6 DEF WindowInv, OpacityFollows, Failing, Flows, Outcomes, answer
<1>15. QED
  BY <1>1, <1>6, <1>9, <1>10, <1>12, <1>13, <1>14, SettledKeepsInv

LEMMA CommitAnsweredKeepsInv ==
    ASSUME WindowInv, CommitAnswered
    PROVE  WindowInv'
<1> DEFINE answer == call["commit"]
<1>1. /\ answer.stage = "answered" /\ Accept(answer) /\ "commit" \in Flows \ {"load"}
      /\ failed' = (answer.outcome # "Success") /\ Finish("commit") /\ g' = NoGesture
      /\ UNCHANGED <<runtimeVars, slot, load, flags, size, hand, wanted, stale, acts, faults>>
      /\ RaiseAllChanged
  BY DEF CommitAnswered, Flows
<1>2. /\ Waits("commit")
      /\ \A h \in Flows \ {"commit"} : ~Waits(h) /\ call[h].outcome = "none"
  BY <1>1, AnsweredAlone
<1>3. TypeOK
  BY DEF WindowInv
<1>4. flags = NoFlags /\ ~flags.mutation /\ ~flags.refresh /\ ~flags.sizing
  BY <1>2 DEF WindowInv, OneInteraction, IsBusy, Waits, NoFlags
<1>5. /\ snapshot' \in Snapshots /\ snapshot' # NoSnapshot
      /\ window' \in {window, "lost"} /\ window # "closed" /\ load = "done"
      /\ \/ snapshot' = snapshot /\ \A h \in Flows : call[h].outcome # "Success"
         \/ \E h \in Flows : /\ call[h].outcome = "Success"
                             /\ call[h].operation # "GetRuntimeInfo"
                             /\ snapshot' = call[h].snapshot
  BY <1>1, AcceptTakes
<1>6. /\ g' \in Coordinators /\ ~g'.active /\ ~g'.dirty /\ ~g'.pumping /\ ~g'.discrete
      /\ g'.ending = "no"
  BY <1>1 DEF NoGesture, Coordinators
<1>7. /\ call' \in [Flows -> Calls] /\ CallsMatch'
      /\ \A h \in Flows : call'[h].outcome = "none"
  <2>1. \A h \in Flows : ~Waits(h)'
    BY <1>1, <1>4, <1>5, <1>6 DEF Waits
  <2>2. QED
    BY <1>1, <2>1, FinishKeepsCalls
<1>8. thumb' \in Opacities
  BY <1>1, <1>3, <1>5, <1>6, SliderIsTyped DEF TypeOK, RaiseAllChanged
<1>9. TypeOK'
  BY <1>1, <1>3, <1>5, <1>6, <1>7, <1>8 DEF TypeOK, runtimeVars
<1>10. OneInteraction' /\ ThumbFollows'
  BY <1>1, <1>4, <1>5, <1>6 DEF WindowInv, OneInteraction, ThumbFollows, IsBusy, RaiseAllChanged
<1>11. /\ ~failed' => Agreed'
       /\ slot.owner = "orphan" /\ slot.operation \in OpacityOperations => failed'
  BY <1>1, <1>5 DEF WindowInv, OpacityFollows, Agreed, runtimeVars
<1>12. QED
  BY <1>1, <1>5, <1>7, <1>9, <1>10, <1>11, SettledKeepsInv

-----------------------------------------------------------------------------
LEMMA StutterKeepsWindowInv == WindowInv /\ UNCHANGED vars => WindowInv'
<1> SUFFICES ASSUME WindowInv, UNCHANGED vars PROVE WindowInv'
  OBVIOUS
<1> USE DEF vars, runtimeVars, windowVars, ghosts
<1>1. TypeOK' /\ CallsMatch' /\ SlotIsTyped' /\ OneInteraction'
  BY DEF WindowInv, TypeOK, CallsMatch, Waits, Asks, SlotIsTyped, OneInteraction
<1>2. OpacityFollows' /\ SnapshotFollows' /\ ThumbFollows'
  BY DEF WindowInv, OpacityFollows, Agreed, Failing, SnapshotFollows, Fresh, ThumbFollows,
         SliderOpacityValue
<1>3. QED
  BY <1>1, <1>2 DEF WindowInv

LEMMA NextWindowInv == WindowInv /\ [Next]_vars => WindowInv'
<1> SUFFICES ASSUME WindowInv, [Next]_vars PROVE WindowInv'
  OBVIOUS
<1>1. CASE UserStep
  BY <1>1, BeginHudSizeKeepsInv, EndHudSizeKeepsInv, RefreshOnActivationKeepsInv,
     BeginOpacityKeepsInv, EndOpacityKeepsInv, CloseKeepsInv, ChooseKeepsInv, OnHudSizeKeepsInv,
     OnOpacityKeepsInv
     DEF UserStep, CloseWindow
<1>2. CASE WindowStep
  BY <1>2, OnLoadedKeepsInv, CloseKeepsInv, MutationAnsweredKeepsInv, RefreshAnsweredKeepsInv,
     PreviewAnsweredKeepsInv, CommitAnsweredKeepsInv, EndAfterPumpKeepsInv
     DEF WindowStep, IncompatibleRuntime, CloseFromRuntimeLoss
<1>3. CASE PipeStep
  BY <1>3, ServeOrphanKeepsInv, ConnectKeepsInv, ServeKeepsInv DEF PipeStep
<1>4. CASE OtherClientChange \/ RuntimeStops
  BY <1>4, RuntimeChangeKeepsInv
<1>5. CASE \E f \in Flows : TimeOut(f)
  BY <1>5, TimeOutKeepsInv
<1>6. CASE UNCHANGED vars
  BY <1>6, StutterKeepsWindowInv
<1>7. QED
  BY <1>1, <1>2, <1>3, <1>4, <1>5, <1>6 DEF Next

\* Whatever the user does, however late the runtime answers and whenever it
\* goes, the calls are those the window waits for, one interaction is under
\* way, and opacity, snapshot and slider follow the runtime.
THEOREM WindowIsSound == Spec => []WindowInv
<1>1. QED
  BY InitWindowInv, NextWindowInv, PTL DEF Spec

\* At rest and without a failed request, the last value the window took from
\* the opacity slider is shown by the HUD and stands in settings.ini.
THEOREM LastOpacityAlwaysWins == Spec => []LastOpacityWins
<1>1. WindowInv => LastOpacityWins
  <2> SUFFICES ASSUME WindowInv, AtRest, ~failed PROVE Agreed
    BY DEF LastOpacityWins, Agreed
  <2>1. ~IsBusy(g) /\ window # "closed"
    BY DEF AtRest, Occupied
  <2>2. ~g.dirty /\ ~g.discrete
    BY <2>1 DEF IsBusy, WindowInv, OneInteraction
  <2>3. QED
    BY <2>1, <2>2 DEF WindowInv, OpacityFollows
<1>2. QED
  BY <1>1, WindowIsSound, PTL

\* At rest the window, its slider included, shows what the runtime has, unless
\* that changed without a word to the window.
THEOREM WindowAlwaysShowsRuntime == Spec => []WindowShowsRuntime
<1>1. WindowInv => WindowShowsRuntime
  <2> SUFFICES ASSUME WindowInv, AtRest
               PROVE  /\ ~stale => snapshot = Fresh
                      /\ thumb = snapshot.opacity
    BY DEF WindowShowsRuntime, Fresh
  <2>1. ~IsBusy(g) /\ flags = NoFlags /\ load = "done" /\ window # "closed"
    BY DEF AtRest, Occupied
  <2>2. snapshot # NoSnapshot /\ ~flags.mutation /\ ~flags.refresh
    BY <2>1 DEF WindowInv, OneInteraction, NoFlags
  <2>3. \A h \in Flows : call[h].outcome = "none"
    BY <2>1, <2>2, NobodyWaits
  <2>4. ~stale => snapshot = Fresh
    BY <2>2, <2>3 DEF WindowInv, SnapshotFollows
  <2>5. thumb = snapshot.opacity
    BY <2>1, <2>2 DEF WindowInv, ThumbFollows, SliderOpacityValue, IsBusy
  <2>6. QED
    BY <2>4, <2>5
<1>2. QED
  BY <1>1, WindowIsSound, PTL

-----------------------------------------------------------------------------
(* FrontEndProcess.                                                        *)

\* Who holds the primary role has a handle to the mutex, so the mutex exists
\* for as long as there is a primary, and a newcomer finds it.
PrimaryInv ==
    /\ proc \in [Launches -> Processes]
    /\ OnePrimary

LEMMA InitPrimaryInv == ProcInit => PrimaryInv
BY DEF ProcInit, PrimaryInv, OnePrimary, Processes, NotLaunched, Stages, Primary, Waiting

\* One process moves, nobody becomes primary and no other handle is closed.
Demotes(p) ==
    /\ proc' \in [Launches -> Processes]
    /\ \A q \in Launches \ {p} : proc'[q].stage = proc[q].stage
    /\ proc'[p].stage \in Primary => proc[p].stage \in Primary /\ p \in mutexHandles'
    /\ mutexHandles \ {p} \subseteq mutexHandles'

LEMMA DemotesKeepsInv ==
    ASSUME PrimaryInv, NEW p \in Launches, Demotes(p)
    PROVE  PrimaryInv'
BY DEF PrimaryInv, OnePrimary, Demotes

\* A process that moves on with its handle to the mutex.
LEMMA GotoDemotes ==
    ASSUME PrimaryInv, NEW p \in Launches, NEW stage \in Stages, Goto(p, stage),
           stage \in Primary => proc[p].stage \in Primary, mutexHandles' = mutexHandles
    PROVE  PrimaryInv'
<1>1. /\ proc' \in [Launches -> Processes]
      /\ \A q \in Launches \ {p} : proc'[q].stage = proc[q].stage
      /\ proc'[p].stage = stage
  BY DEF PrimaryInv, Goto, Processes
<1>2. proc[p].stage \in Primary => p \in mutexHandles
  BY DEF PrimaryInv, OnePrimary
<1>3. QED
  BY <1>1, <1>2, DemotesKeepsInv DEF Demotes

\* A process that is gone: its handles are closed.
LEMMA EndedDemotes ==
    ASSUME PrimaryInv, NEW p \in Launches, proc' = [proc EXCEPT ![p] = Ended(p)],
           mutexHandles' = mutexHandles \/ mutexHandles' = mutexHandles \ {p}
    PROVE  PrimaryInv'
<1>1. Ended(p) \in Processes /\ Ended(p).stage = "gone"
  BY DEF Ended, NotLaunched, Processes, Stages, PrimaryInv
<1>2. proc' \in [Launches -> Processes] /\ proc'[p].stage = "gone"
      /\ \A q \in Launches \ {p} : proc'[q].stage = proc[q].stage
  BY <1>1 DEF PrimaryInv
<1>3. QED
  BY <1>2, DemotesKeepsInv DEF Demotes, Primary, Waiting

\* Only a process that finds no mutex becomes primary, and then there is none.
LEMMA AcquireKeepsInv ==
    ASSUME PrimaryInv, NEW p \in Launches, TryAcquirePrimary(p)
    PROVE  PrimaryInv'
<1> DEFINE stage == IF mutexHandles = {} THEN "registered" ELSE "opened"
<1>1. /\ proc' \in [Launches -> Processes]
      /\ \A q \in Launches \ {p} : proc'[q].stage = proc[q].stage
      /\ proc'[p].stage = stage
      /\ mutexHandles' = mutexHandles \cup {p}
  BY DEF PrimaryInv, TryAcquirePrimary, Goto, Processes, Stages
<1>2. CASE mutexHandles = {}
  <2>1. \A q \in Launches \ {p} : proc'[q].stage \notin Primary
    BY <1>1, <1>2 DEF PrimaryInv, OnePrimary
  <2>2. QED
    BY <1>1, <2>1 DEF PrimaryInv, OnePrimary
<1>3. CASE mutexHandles # {}
  BY <1>1, <1>3, DemotesKeepsInv DEF Demotes, Primary, Waiting
<1>4. QED
  BY <1>2, <1>3

\* The steps that set a field other than the stage.
LEMMA FieldsKeepInv ==
    ASSUME PrimaryInv, NEW p \in Launches,
           WaitFires(p) \/ CheckHasExited(p) \/ ExitedRaised(p) \/ BringToFront(p)
    PROVE  PrimaryInv'
<1>1. proc[p] \in Processes /\ mutexHandles' = mutexHandles
  BY DEF PrimaryInv, WaitFires, CheckHasExited, ExitedRaised, BringToFront
<1>2. proc[p].stage \in Primary => p \in mutexHandles
  BY DEF PrimaryInv, OnePrimary
<1>3. CASE WaitFires(p)
  <2>1. proc' = [proc EXCEPT ![p].activation = proc[p].stage # "registered"]
    BY <1>3 DEF WaitFires
  <2>2. QED
    BY <1>1, <1>2, <2>1, DemotesKeepsInv DEF PrimaryInv, Demotes, Processes
<1>4. CASE CheckHasExited(p)
  BY <1>1, <1>2, <1>4, DemotesKeepsInv
     DEF PrimaryInv, Demotes, CheckHasExited, At, Processes, Stages, Primary, Waiting
<1>5. CASE ExitedRaised(p)
  BY <1>1, <1>2, <1>5, DemotesKeepsInv DEF PrimaryInv, Demotes, ExitedRaised, Processes
<1>6. CASE BringToFront(p)
  BY <1>1, <1>2, <1>6, DemotesKeepsInv DEF PrimaryInv, Demotes, BringToFront, Processes
<1>7. QED
  BY <1>3, <1>4, <1>5, <1>6

LEMMA StepKeepsInv ==
    ASSUME PrimaryInv, NEW p \in Launches, ProcStep(p) \/ CloseShown(p) \/ Kill(p)
    PROVE  PrimaryInv'
<1> USE DEF At, Stages, Primary, Waiting
<1>1. CASE CreateEvent(p)
  BY <1>1, GotoDemotes DEF CreateEvent
<1>2. CASE TryAcquirePrimary(p)
  BY <1>2, AcquireKeepsInv
<1>3. CASE LosePrimary(p) \/ ReleaseMutex(p)
  <2>1. PICK stage \in {"relay", "released"} : Goto(p, stage) /\ CloseMutex(p)
    BY <1>3 DEF LosePrimary, ReleaseMutex
  <2>2. /\ proc' \in [Launches -> Processes] /\ proc'[p].stage = stage
        /\ \A q \in Launches \ {p} : proc'[q].stage = proc[q].stage
    BY <2>1 DEF PrimaryInv, Goto, Processes
  <2>3. QED
    BY <2>1, <2>2, DemotesKeepsInv DEF Demotes, CloseMutex
<1>4. CASE SignalPrimary(p) \/ DisposeEvent(p) \/ Kill(p)
  BY <1>4, EndedDemotes DEF SignalPrimary, DisposeEvent, Kill, CloseMutex
<1>5. CASE WaitFires(p) \/ CheckHasExited(p) \/ ExitedRaised(p) \/ BringToFront(p)
  BY <1>5, FieldsKeepInv
<1>6. CASE Subscribe(p) \/ OpenRuntime(p) \/ HookExited(p)
  BY <1>6, GotoDemotes DEF Subscribe, OpenRuntime, HookExited
<1>7. CASE ConstructWindow(p) \/ ShowWindow(p) \/ CloseShown(p) \/ OnRuntimeExit(p) \/ Unregister(p)
  BY <1>7, GotoDemotes DEF ConstructWindow, ShowWindow, CloseShown, OnRuntimeExit, Unregister
<1>8. QED
  BY <1>1, <1>2, <1>3, <1>4, <1>5, <1>6, <1>7 DEF ProcStep

LEMMA NextPrimaryInv == PrimaryInv /\ [ProcNext]_procVars => PrimaryInv'
<1> SUFFICES ASSUME PrimaryInv, [ProcNext]_procVars PROVE PrimaryInv'
  OBVIOUS
<1>1. CASE Launch
  <2>1. PICK pid \in BOOLEAN :
          proc' = [proc EXCEPT ![launched + 1] =
                      [NotLaunched EXCEPT !.stage = "created", !.pid = pid]]
    BY <1>1 DEF Launch
  <2>2. launched + 1 \in Launches /\ mutexHandles' = mutexHandles
    BY <1>1 DEF Launch
  <2> DEFINE new == [NotLaunched EXCEPT !.stage = "created", !.pid = pid]
  <2>3. new \in Processes /\ new.stage = "created"
    BY DEF NotLaunched, Processes, Stages
  <2>4. /\ proc' \in [Launches -> Processes] /\ proc'[launched + 1].stage = "created"
        /\ \A q \in Launches \ {launched + 1} : proc'[q].stage = proc[q].stage
    BY <2>1, <2>2, <2>3 DEF PrimaryInv
  <2>5. QED
    BY <2>2, <2>4, DemotesKeepsInv DEF Demotes, Primary, Waiting
<1>2. CASE RuntimeExits
  BY <1>2 DEF RuntimeExits, PrimaryInv, OnePrimary
<1>3. CASE UNCHANGED procVars
  BY <1>3 DEF procVars, PrimaryInv, OnePrimary
<1>4. QED
  BY <1>1, <1>2, <1>3, StepKeepsInv DEF ProcNext

\* However many times the front end is launched, and wherever one of its
\* processes is terminated, at most one is the primary, and it has the mutex.
THEOREM OnePrimaryHolds == ProcSpec => []OnePrimary
<1>1. PrimaryInv => OnePrimary
  BY DEF PrimaryInv
<1>2. QED
  BY <1>1, InitPrimaryInv, NextPrimaryInv, PTL DEF ProcSpec

-----------------------------------------------------------------------------
(* Numbers.                                                                *)

LEMMA ByteIs == \A x : x \in Byte <=> x \in Int /\ 0 <= x /\ x <= 255
BY SMT DEF Byte

\* A number is the sum of its bytes, and its bytes can be told from the sum.
LEMMA LowByte ==
    ASSUME NEW x \in Int, NEW q \in Int, 0 <= x, x <= 255
    PROVE  (x + 256 * q) % 256 = x /\ (x + 256 * q) \div 256 = q
BY SMT

LEMMA LowBytes ==
    ASSUME NEW x \in Int, NEW q \in Int, 0 <= x, x <= 65535
    PROVE  (x + 65536 * q) \div 65536 = q
BY SMT

LEMMA LowThree ==
    ASSUME NEW x \in Int, NEW q \in Int, 0 <= x, x <= 16777215
    PROVE  (x + 16777216 * q) \div 16777216 = q
BY SMT

LEMMA Signed ==
    ASSUME NEW w \in Int, 0 <= w, w <= 255
    PROVE  (IF w < 128 THEN w ELSE w - 256) % 256 = w
BY SMT

LEMMA OneByte ==
    ASSUME NEW v \in Int, 0 <= v, v <= 255
    PROVE  v % 256 = v
BY SMT

LEMMA TwoBytes ==
    ASSUME NEW v \in Int, 0 <= v, v < 65536
    PROVE  (v % 256) + 256 * ((v \div 256) % 256) = v
BY SMT

LEMMA FourBytes ==
    ASSUME NEW v \in Int, -2147483648 <= v, v < 2147483648
    PROVE  (v % 256) + 256 * ((v \div 256) % 256) + 65536 * ((v \div 65536) % 256)
              + 16777216 * (IF (v \div 16777216) % 256 < 128 THEN (v \div 16777216) % 256
                            ELSE ((v \div 16777216) % 256) - 256) = v
<1>1. v \div 16777216 < 128 /\ -128 <= v \div 16777216 /\ v \div 16777216 \in Int
  BY SMT
<1>2. (IF (v \div 16777216) % 256 < 128 THEN (v \div 16777216) % 256
       ELSE ((v \div 16777216) % 256) - 256) = v \div 16777216
  BY <1>1, SMT
<1>3. (v % 256) + 256 * ((v \div 256) % 256) + 65536 * ((v \div 65536) % 256)
              + 16777216 * (v \div 16777216) = v
  BY SMT
<1>4. QED
  BY <1>2, <1>3, SMT

\* The bytes of a number, and the number of bytes, in two and in four.
Pair(v, x, y) == v % 256 = x /\ (v \div 256) % 256 = y
Quad(v, x, y, z, w) ==
    /\ v % 256 = x /\ (v \div 256) % 256 = y
    /\ (v \div 65536) % 256 = z /\ (v \div 16777216) % 256 = w
PairSum(x, y) == x + 256 * y
QuadSum(x, y, z, w) == x + 256 * y + 65536 * z + 16777216 * (IF w < 128 THEN w ELSE w - 256)

\* The bytes of a number.
LEMMA LEIs ==
    ASSUME NEW v \in Int, NEW n \in 0..4
    PROVE  /\ LE(v, n) \in Seq(Byte) /\ Len(LE(v, n)) = n
           /\ n = 1 => LE(v, n)[1] = v % 256
           /\ n = 2 => Pair(v, LE(v, n)[1], LE(v, n)[2])
           /\ n = 4 => Quad(v, LE(v, n)[1], LE(v, n)[2], LE(v, n)[3], LE(v, n)[4])
<1>1. PICK x \in Byte : x = v % 256
  BY SMT DEF Byte
<1>2. PICK y \in Byte : y = (v \div 256) % 256
  BY SMT DEF Byte
<1>3. PICK z \in Byte : z = (v \div 65536) % 256
  BY SMT DEF Byte
<1>4. PICK t \in Byte : t = (v \div 16777216) % 256
  BY SMT DEF Byte
<1>5. LE(v, n) = SubSeq(<<x, y, z, t>>, 1, n)
  BY <1>1, <1>2, <1>3, <1>4 DEF LE
<1>6. PICK s \in Seq(Byte) : /\ s = <<x, y, z, t>> /\ Len(s) = 4
                             /\ s[1] = x /\ s[2] = y /\ s[3] = z /\ s[4] = t
  <2>1. <<x, y, z, t>> \in Seq(Byte)
    OBVIOUS
  <2>2. Len(<<x, y, z, t>>) = 4
    OBVIOUS
  <2>3. QED
    BY <2>1, <2>2
<1>7. \A i \in 1..n : i \in 1..Len(s)
  BY <1>6, SMT
<1>8. /\ SubSeq(s, 1, n) \in Seq(Byte) /\ Len(SubSeq(s, 1, n)) = IF 1 <= n THEN n - 1 + 1 ELSE 0
      /\ \A i \in 1..(n - 1 + 1) : SubSeq(s, 1, n)[i] = s[1 + i - 1]
  <2>1. n \in 0..Len(s) /\ 1 \in 1..(Len(s) + 1) /\ n \in 1-1..Len(s)
    BY <1>6, SMT
  <2>2. QED
    BY <2>1, SubSeqProperties, SMT
<1>9. PICK l : l = LE(v, n)
  OBVIOUS
<1>10. l \in Seq(Byte) /\ Len(l) = n /\ \A i \in 1..n : l[i] = s[i]
  BY <1>5, <1>6, <1>8, <1>9, SMT
<1>11. /\ l \in Seq(Byte) /\ Len(l) = n /\ (n >= 1 => l[1] = x) /\ (n >= 2 => l[2] = y)
       /\ n = 4 => l[3] = z /\ l[4] = t
  BY <1>6, <1>10, SMT
<1>12. QED
  BY <1>1, <1>2, <1>3, <1>4, <1>9, <1>11 DEF Pair, Quad

\* A number is told from its bytes, and its bytes from the number.
LEMMA TwoBytesAre ==
    ASSUME NEW v \in Int, 0 <= v, v < 65536,
           NEW x \in Int, NEW y \in Int, 0 <= x, x <= 255, 0 <= y, y <= 255
    PROVE  Pair(v, x, y) <=> PairSum(x, y) = v
<1>1. (v % 256) + 256 * ((v \div 256) % 256) = v
  BY TwoBytes
<1>2. ASSUME x + 256 * y = v PROVE v % 256 = x /\ v \div 256 = y
  <2>1. (x + 256 * y) % 256 = x /\ (x + 256 * y) \div 256 = y
    BY LowByte
  <2>2. QED
    BY <1>2, <2>1
<1>3. y % 256 = y
  BY OneByte
<1>4. QED
  BY <1>1, <1>2, <1>3 DEF Pair, PairSum

LEMMA FourBytesAre ==
    ASSUME NEW v \in Int, -2147483648 <= v, v < 2147483648,
           NEW x \in Int, NEW y \in Int, 0 <= x, x <= 255, 0 <= y, y <= 255,
           NEW z \in Int, NEW w \in Int, 0 <= z, z <= 255, 0 <= w, w <= 255
    PROVE  Quad(v, x, y, z, w) <=> QuadSum(x, y, z, w) = v
<1>1. PICK s \in Int : s = (IF w < 128 THEN w ELSE w - 256)
  BY SMT
<1>2. -128 <= s /\ s < 128 /\ s % 256 = w
  <2>1. -128 <= s /\ s < 128
    BY <1>1, SMT
  <2>2. s % 256 = w
    BY <1>1, Signed
  <2>3. QED
    BY <2>1, <2>2
<1>3. ASSUME /\ v % 256 = x /\ (v \div 256) % 256 = y
             /\ (v \div 65536) % 256 = z /\ (v \div 16777216) % 256 = w
      PROVE  x + 256 * y + 65536 * z + 16777216 * s = v
  BY <1>1, <1>3, FourBytes, SMT
<1>4. ASSUME x + 256 * y + 65536 * z + 16777216 * s = v
      PROVE  /\ v % 256 = x /\ (v \div 256) % 256 = y
             /\ (v \div 65536) % 256 = z /\ (v \div 16777216) % 256 = w
  <2>1. PICK q \in Int : q = y + 256 * (z + 256 * s)
    BY SMT
  <2>2. PICK r \in Int : r = z + 256 * s
    BY SMT
  <2>3. x + 256 * q = v /\ y + 256 * r = q
    BY <1>4, <2>1, <2>2, SMT
  <2>4. v % 256 = x /\ v \div 256 = q /\ q % 256 = y /\ r % 256 = z
    <3>1. (x + 256 * q) % 256 = x /\ (x + 256 * q) \div 256 = q
      BY LowByte
    <3>2. (y + 256 * r) % 256 = y
      BY LowByte
    <3>3. (z + 256 * s) % 256 = z
      BY LowByte
    <3>4. QED
      BY <2>2, <2>3, <3>1, <3>2, <3>3
  <2>5. v \div 65536 = r
    <3>1. PICK u \in Int : u = x + 256 * y
      BY SMT
    <3>2. 0 <= u /\ u <= 65535 /\ u + 65536 * r = v
      BY <1>4, <2>2, <3>1, SMT
    <3>3. (u + 65536 * r) \div 65536 = r
      BY <3>2, LowBytes, SMT
    <3>4. QED
      BY <3>2, <3>3, SMT
  <2>6. v \div 16777216 = s
    <3>1. PICK u \in Int : u = x + 256 * y + 65536 * z
      BY SMT
    <3>2. 0 <= u /\ u <= 16777215 /\ u + 16777216 * s = v
      BY <1>4, <3>1, SMT
    <3>3. (u + 16777216 * s) \div 16777216 = s
      BY <3>2, LowThree, SMT
    <3>4. QED
      BY <3>2, <3>3, SMT
  <2>7. QED
    BY <1>2, <2>4, <2>5, <2>6, SMT
<1>5. QED
  BY <1>1, <1>3, <1>4, SMT DEF Quad, QuadSum

\* The numbers a width can hold, the widest one signed.
Fits(v, width) ==
    /\ v \in Int
    /\ width = 1 => 0 <= v /\ v <= 255
    /\ width = 2 => 0 <= v /\ v < 65536
    /\ width = 4 => -2147483648 <= v /\ v < 2147483648
Widths == {1, 2, 4}

LEMMA FitsInt == \A v, width : Fits(v, width) => v \in Int
BY DEF Fits

LEMMA SmallFits ==
    /\ \A v \in Int : 0 <= v /\ v <= 255 => Fits(v, 1)
    /\ \A v \in Int : 0 <= v /\ v < 65536 => Fits(v, 2)
    /\ \A v \in Int : -100000 <= v /\ v <= 100000 => Fits(v, 4)
BY SMT DEF Fits

\* The piece y is in b at position k.
Holds(b, k, y) == k - 1 + Len(y) <= Len(b) /\ \A i \in 1..Len(y) : b[k - 1 + i] = y[i]

\* A piece of so many bytes.
LEMMA HoldsOne ==
    ASSUME NEW b \in Seq(Byte), NEW at \in Nat, at >= 1, NEW l \in Seq(Byte), Len(l) = 1
    PROVE  Holds(b, at, l) <=> at <= Len(b) /\ b[at] = l[1]
BY SMT DEF Holds

LEMMA HoldsTwo ==
    ASSUME NEW b \in Seq(Byte), NEW at \in Nat, at >= 1, NEW l \in Seq(Byte), Len(l) = 2
    PROVE  Holds(b, at, l) <=> at + 1 <= Len(b) /\ b[at] = l[1] /\ b[at + 1] = l[2]
BY SMT DEF Holds

LEMMA HoldsFour ==
    ASSUME NEW b \in Seq(Byte), NEW at \in Nat, at >= 1, NEW l \in Seq(Byte), Len(l) = 4
    PROVE  Holds(b, at, l) <=> /\ at + 3 <= Len(b) /\ b[at] = l[1] /\ b[at + 1] = l[2]
                               /\ b[at + 2] = l[3] /\ b[at + 3] = l[4]
BY SMT DEF Holds

\* The pieces that are numbers, whose literals stay in these.
LEMMA PairIs ==
    ASSUME NEW v, Fits(v, 2), NEW x \in Byte, NEW y \in Byte
    PROVE  Pair(v, x, y) <=> PairSum(x, y) = v
<1>1. v \in Int /\ 0 <= v /\ v < 65536
  BY SMT DEF Fits
<1>2. x \in Int /\ 0 <= x /\ x <= 255 /\ y \in Int /\ 0 <= y /\ y <= 255
  BY ByteIs
<1>3. ASSUME NEW n \in Int, 0 <= n, n < 65536,
             NEW c \in Int, NEW d \in Int, 0 <= c, c <= 255, 0 <= d, d <= 255
      PROVE  Pair(n, c, d) <=> PairSum(c, d) = n
  BY <1>3, TwoBytesAre, SMT
<1>4. QED
  BY <1>1, <1>2, <1>3, SMT

LEMMA QuadIs ==
    ASSUME NEW v, Fits(v, 4), NEW x \in Byte, NEW y \in Byte, NEW z \in Byte, NEW w \in Byte
    PROVE  Quad(v, x, y, z, w) <=> QuadSum(x, y, z, w) = v
<1>1. v \in Int /\ -2147483648 <= v /\ v < 2147483648
  BY SMT DEF Fits
<1>2. /\ x \in Int /\ 0 <= x /\ x <= 255 /\ y \in Int /\ 0 <= y /\ y <= 255
      /\ z \in Int /\ 0 <= z /\ z <= 255 /\ w \in Int /\ 0 <= w /\ w <= 255
  BY ByteIs
<1>3. QED
  BY <1>1, <1>2, FourBytesAre, SMT

LEMMA BytesAt ==
    ASSUME NEW b \in Seq(Byte), NEW i \in Int, 1 <= i, i <= Len(b)
    PROVE  b[i] \in Byte
BY SMT

\* Where a number is written it is read, and where it is read it is written.
LEMMA NumberOne ==
    ASSUME NEW b \in Seq(Byte), NEW at \in Nat, at >= 1, NEW v, Fits(v, 1)
    PROVE  Holds(b, at, LE(v, 1)) <=> at <= Len(b) /\ Num(b, at, 1) = v
<1>1. v \in Int /\ 0 <= v /\ v <= 255
  BY SMT DEF Fits
<1>2. PICK l \in Seq(Byte) : l = LE(v, 1) /\ Len(l) = 1 /\ l[1] = v % 256
  BY <1>1, LEIs, SMT
<1>3. v % 256 = v
  BY <1>1, OneByte
<1>4. Num(b, at, 1) = b[at]
  BY DEF Num
<1>5. Holds(b, at, l) <=> at <= Len(b) /\ b[at] = l[1]
  BY <1>2, HoldsOne
<1>6. QED
  BY <1>2, <1>3, <1>4, <1>5

LEMMA NumberTwo ==
    ASSUME NEW b \in Seq(Byte), NEW at \in Nat, at >= 1, NEW v, Fits(v, 2)
    PROVE  Holds(b, at, LE(v, 2)) <=> at + 1 <= Len(b) /\ Num(b, at, 2) = v
<1>1. v \in Int
  BY DEF Fits
<1>2. PICK l \in Seq(Byte) : l = LE(v, 2) /\ Len(l) = 2 /\ Pair(v, l[1], l[2])
  BY <1>1, LEIs, SMT
<1>3. l[1] \in Byte /\ l[2] \in Byte
  BY <1>2, SMT
<1>4. Num(b, at, 2) = PairSum(b[at], b[at + 1])
  BY SMT DEF Num, PairSum
<1>5. Holds(b, at, l) <=> at + 1 <= Len(b) /\ b[at] = l[1] /\ b[at + 1] = l[2]
  BY <1>2, HoldsTwo
<1>6. CASE at + 1 <= Len(b)
  <2>1. b[at] \in Byte /\ b[at + 1] \in Byte
    BY <1>6, BytesAt, SMT
  <2>2. Pair(v, b[at], b[at + 1]) <=> PairSum(b[at], b[at + 1]) = v
    BY <2>1, PairIs
  <2>3. Pair(v, b[at], b[at + 1]) <=> b[at] = l[1] /\ b[at + 1] = l[2]
    BY <1>2 DEF Pair
  <2>4. QED
    BY <1>2, <1>4, <1>5, <1>6, <2>2, <2>3
<1>7. QED
  BY <1>2, <1>5, <1>6

LEMMA NumberFour ==
    ASSUME NEW b \in Seq(Byte), NEW at \in Nat, at >= 1, NEW v, Fits(v, 4)
    PROVE  Holds(b, at, LE(v, 4)) <=> at + 3 <= Len(b) /\ Num(b, at, 4) = v
<1>1. v \in Int
  BY DEF Fits
<1>2. PICK l \in Seq(Byte) : l = LE(v, 4) /\ Len(l) = 4 /\ Quad(v, l[1], l[2], l[3], l[4])
  BY <1>1, LEIs, SMT
<1>4. Num(b, at, 4) = QuadSum(b[at], b[at + 1], b[at + 2], b[at + 3])
  BY SMT DEF Num, QuadSum
<1>5. Holds(b, at, l) <=> /\ at + 3 <= Len(b) /\ b[at] = l[1] /\ b[at + 1] = l[2]
                          /\ b[at + 2] = l[3] /\ b[at + 3] = l[4]
  BY <1>2, HoldsFour
<1>6. CASE at + 3 <= Len(b)
  <2>1. b[at] \in Byte /\ b[at + 1] \in Byte /\ b[at + 2] \in Byte /\ b[at + 3] \in Byte
    BY <1>6, BytesAt, SMT
  <2>2. Quad(v, b[at], b[at + 1], b[at + 2], b[at + 3])
           <=> QuadSum(b[at], b[at + 1], b[at + 2], b[at + 3]) = v
    BY <2>1, QuadIs
  <2>3. Quad(v, b[at], b[at + 1], b[at + 2], b[at + 3])
           <=> b[at] = l[1] /\ b[at + 1] = l[2] /\ b[at + 2] = l[3] /\ b[at + 3] = l[4]
    <3> DEFINE q == v % 256
               r == (v \div 256) % 256
               s == (v \div 65536) % 256
               t == (v \div 16777216) % 256
    <3>1. \A x, y, z, w : Quad(v, x, y, z, w) <=> q = x /\ r = y /\ s = z /\ t = w
      BY SMT DEF Quad
    <3> HIDE DEF q, r, s, t
    <3>2. QED
      BY <1>2, <3>1
  <2>4. QED
    BY <1>2, <1>4, <1>5, <1>6, <2>2, <2>3
<1>7. QED
  BY <1>2, <1>5, <1>6

\* Whatever is read fits.
LEMMA NumberFits ==
    ASSUME NEW b \in Seq(Byte), NEW at \in Nat, at >= 1
    PROVE  /\ at <= Len(b) => Fits(Num(b, at, 1), 1)
           /\ at + 1 <= Len(b) => Fits(Num(b, at, 2), 2)
           /\ at + 3 <= Len(b) => Fits(Num(b, at, 4), 4)
<1>1. /\ \A x \in Byte : Fits(x, 1)
      /\ \A x, y \in Byte : Fits(PairSum(x, y), 2)
      /\ \A x, y, z, w \in Byte : Fits(QuadSum(x, y, z, w), 4)
  <2>1. \A x \in Byte : Fits(x, 1)
    BY ByteIs, SMT DEF Fits
  <2>2. ASSUME NEW x \in Byte, NEW y \in Byte PROVE Fits(PairSum(x, y), 2)
    BY ByteIs, SMT DEF Fits, PairSum
  <2>3. ASSUME NEW x \in Byte, NEW y \in Byte, NEW z \in Byte, NEW w \in Byte
        PROVE  Fits(QuadSum(x, y, z, w), 4)
    <3>1. /\ x \in Int /\ 0 <= x /\ x <= 255 /\ y \in Int /\ 0 <= y /\ y <= 255
          /\ z \in Int /\ 0 <= z /\ z <= 255 /\ w \in Int /\ 0 <= w /\ w <= 255
      BY ByteIs
    <3>2. PICK s \in Int : s = (IF w < 128 THEN w ELSE w - 256) /\ -128 <= s /\ s < 128
      BY <3>1, SMT
    <3>3. PICK n \in Int : n = x + 256 * y + 65536 * z + 16777216 * s
      BY <3>1, SMT
    <3>4. -2147483648 <= n /\ n < 2147483648
      BY <3>1, <3>2, <3>3, SMT
    <3>5. QuadSum(x, y, z, w) = n
      BY <3>2, <3>3, SMT DEF QuadSum
    <3>6. QED
      BY <3>4, <3>5, SMT DEF Fits
  <2>4. QED
    BY <2>1, <2>2, <2>3
<1>2. Num(b, at, 1) = b[at] /\ Num(b, at, 2) = PairSum(b[at], b[at + 1])
      /\ Num(b, at, 4) = QuadSum(b[at], b[at + 1], b[at + 2], b[at + 3])
  BY SMT DEF Num, PairSum, QuadSum
<1>3. /\ at <= Len(b) => b[at] \in Byte
      /\ at + 1 <= Len(b) => b[at] \in Byte /\ b[at + 1] \in Byte
      /\ at + 3 <= Len(b) => b[at] \in Byte /\ b[at + 1] \in Byte /\ b[at + 2] \in Byte /\ b[at + 3] \in Byte
  BY BytesAt, SMT
<1>4. QED
  BY <1>1, <1>2, <1>3

-----------------------------------------------------------------------------
(* Pieces of a frame.                                                      *)

LEMMA Joined ==
    ASSUME NEW y \in Seq(Byte), NEW z \in Seq(Byte)
    PROVE  /\ y \o z \in Seq(Byte) /\ Len(y \o z) = Len(y) + Len(z)
           /\ \A i \in 1..Len(y) : (y \o z)[i] = y[i]
           /\ \A i \in 1..Len(z) : (y \o z)[Len(y) + i] = z[i]
<1>1. /\ y \o z \in Seq(Byte) /\ Len(y \o z) = Len(y) + Len(z)
      /\ \A i \in 1..(Len(y) + Len(z)) : (y \o z)[i] = IF i <= Len(y) THEN y[i] ELSE z[i - Len(y)]
  BY ConcatProperties
<1>2. Len(y) \in Nat /\ Len(z) \in Nat
  OBVIOUS
<1>3. QED
  BY <1>1, <1>2, SMT

\* Two pieces one after the other.
LEMMA Cut ==
    ASSUME NEW b \in Seq(Byte), NEW k \in Nat, k >= 1, NEW y \in Seq(Byte), NEW z \in Seq(Byte)
    PROVE  Holds(b, k, y \o z) <=> Holds(b, k, y) /\ Holds(b, k + Len(y), z)
<1>1. PICK m \in Nat, n \in Nat, c \in Seq(Byte) :
          /\ m = Len(y) /\ n = Len(z) /\ c = y \o z /\ Len(c) = m + n
          /\ \A i \in 1..m : c[i] = y[i]
          /\ \A i \in 1..n : c[m + i] = z[i]
  <2>1. PICK m \in Nat, n \in Nat : m = Len(y) /\ n = Len(z)
    OBVIOUS
  <2>2. /\ y \o z \in Seq(Byte) /\ Len(y \o z) = m + n
        /\ \A i \in 1..m : (y \o z)[i] = y[i]
        /\ \A i \in 1..n : (y \o z)[m + i] = z[i]
    BY <2>1, Joined, Zenon
  <2>3. QED
    BY <2>1, <2>2, Zenon
<1>2. Len(b) \in Nat
  OBVIOUS
<1>3. ASSUME Holds(b, k, c) PROVE Holds(b, k, y) /\ Holds(b, k + m, z)
  <2>1. k - 1 + (m + n) <= Len(b) /\ \A i \in 1..(m + n) : b[k - 1 + i] = c[i]
    BY <1>1, <1>3 DEF Holds
  <2>2. Holds(b, k, y)
    BY <1>1, <1>2, <2>1, SMT DEF Holds
  <2>3. ASSUME NEW i \in 1..n PROVE b[k + m - 1 + i] = z[i]
    <3>1. m + i \in 1..(m + n) /\ k - 1 + (m + i) = k + m - 1 + i
      BY SMT
    <3>2. b[k - 1 + (m + i)] = c[m + i]
      BY <2>1, <3>1
    <3>3. QED
      BY <1>1, <3>1, <3>2
  <2>4. k + m - 1 + n <= Len(b)
    BY <1>2, <2>1, SMT
  <2>5. QED
    BY <1>1, <2>2, <2>3, <2>4 DEF Holds
<1>4. ASSUME Holds(b, k, y), Holds(b, k + m, z) PROVE Holds(b, k, c)
  <2>1. /\ k - 1 + m <= Len(b) /\ \A i \in 1..m : b[k - 1 + i] = y[i]
        /\ k + m - 1 + n <= Len(b) /\ \A i \in 1..n : b[k + m - 1 + i] = z[i]
    BY <1>1, <1>4 DEF Holds
  <2>2. ASSUME NEW i \in 1..(m + n) PROVE b[k - 1 + i] = c[i]
    <3>1. CASE i <= m
      BY <1>1, <2>1, <3>1, SMT
    <3>2. CASE i > m
      <4>1. PICK j \in 1..n : i = m + j
        BY <3>2, SMT
      <4>2. k + m - 1 + j = k - 1 + i
        BY <4>1, SMT
      <4>3. QED
        BY <1>1, <2>1, <4>1, <4>2
    <3>3. QED
      BY <3>1, <3>2, SMT
  <2>3. k - 1 + (m + n) <= Len(b)
    BY <1>2, <2>1, SMT
  <2>4. QED
    BY <1>1, <2>2, <2>3 DEF Holds
<1>5. QED
  BY <1>1, <1>3, <1>4

\* A frame that holds a piece of its own length is that piece.
LEMMA Whole ==
    ASSUME NEW b \in Seq(Byte), NEW y \in Seq(Byte)
    PROVE  b = y <=> Len(b) = Len(y) /\ Holds(b, 1, y)
<1>1. Holds(b, 1, y) <=> Len(y) <= Len(b) /\ \A i \in 1..Len(y) : b[i] = y[i]
  BY SMT DEF Holds
<1>2. Len(b) = Len(y) /\ (\A i \in 1..Len(y) : b[i] = y[i]) => b = y
  BY SMT
<1>3. QED
  BY <1>1, <1>2, SMT

\* What comes first, and what comes after it.
LEMMA First ==
    ASSUME NEW b \in Seq(Byte), NEW y \in Seq(Byte), Len(y) <= Len(b)
    PROVE  SubSeq(b, 1, Len(y)) = y <=> Holds(b, 1, y)
<1>1. PICK m \in Nat : m = Len(y) /\ m <= Len(b)
  OBVIOUS
<1>2. PICK s \in Seq(Byte) : /\ s = SubSeq(b, 1, m) /\ Len(s) = m
                             /\ \A i \in 1..m : s[i] = b[i]
  <2>1. \A i \in 1..m : b[i] \in Byte
    BY <1>1, SMT
  <2>2. /\ SubSeq(b, 1, m) \in Seq(Byte)
        /\ Len(SubSeq(b, 1, m)) = IF 1 <= m THEN m - 1 + 1 ELSE 0
        /\ \A i \in 1..(m - 1 + 1) : SubSeq(b, 1, m)[i] = b[1 + i - 1]
    BY <2>1, SubSeqProperties, SMT
  <2>3. Len(SubSeq(b, 1, m)) = m
    BY <2>2, SMT
  <2>4. \A i \in 1..m : SubSeq(b, 1, m)[i] = b[i]
    <3>1. \A i \in 1..m : i \in 1..(m - 1 + 1) /\ 1 + i - 1 = i
      BY SMT
    <3>2. QED
      BY <2>2, <3>1, Zenon
  <2>5. QED
    BY <2>2, <2>3, <2>4, Zenon
<1>3. Holds(b, 1, y) <=> \A i \in 1..m : b[i] = y[i]
  BY <1>1, SMT DEF Holds
<1>4. (\A i \in 1..m : s[i] = y[i]) => s = y
  BY <1>1, <1>2, SMT
<1>5. QED
  BY <1>1, <1>2, <1>3, <1>4, SMT

LEMMA Rest ==
    ASSUME NEW b \in Seq(Byte), NEW h \in Seq(Byte), Len(h) <= Len(b)
    PROVE  /\ SubSeq(b, Len(h) + 1, Len(b)) \in Seq(Byte)
           /\ Len(SubSeq(b, Len(h) + 1, Len(b))) = Len(b) - Len(h)
           /\ Holds(b, 1, h) => b = h \o SubSeq(b, Len(h) + 1, Len(b))
           /\ \A p \in Seq(Byte) : b = h \o p => SubSeq(b, Len(h) + 1, Len(b)) = p
<1>1. PICK m \in Nat, n \in Nat : m = Len(h) /\ n = Len(b) /\ m <= n
  OBVIOUS
<1>2. PICK s \in Seq(Byte) : /\ s = SubSeq(b, m + 1, n) /\ Len(s) = n - m
                             /\ \A i \in 1..(n - m) : s[i] = b[m + i]
  <2>1. \A i \in (m + 1)..n : b[i] \in Byte
    BY <1>1, SMT
  <2>2. /\ SubSeq(b, m + 1, n) \in Seq(Byte)
        /\ Len(SubSeq(b, m + 1, n)) = IF m + 1 <= n THEN n - (m + 1) + 1 ELSE 0
        /\ \A i \in 1..(n - (m + 1) + 1) : SubSeq(b, m + 1, n)[i] = b[m + 1 + i - 1]
    <3>1. PICK k \in Int : k = m + 1
      BY SMT
    <3>2. \A i \in k..n : b[i] \in Byte
      BY <2>1, <3>1, Zenon
    <3>3. /\ SubSeq(b, k, n) \in Seq(Byte)
          /\ Len(SubSeq(b, k, n)) = IF k <= n THEN n - k + 1 ELSE 0
          /\ \A i \in 1..(n - k + 1) : SubSeq(b, k, n)[i] = b[k + i - 1]
      BY <3>2, SubSeqProperties
    <3>4. QED
      BY <3>1, <3>3
  <2>3. Len(SubSeq(b, m + 1, n)) = n - m
    BY <1>1, <2>2, SMT
  <2>4. ASSUME NEW i \in 1..(n - m) PROVE SubSeq(b, m + 1, n)[i] = b[m + i]
    <3>1. i \in 1..(n - (m + 1) + 1) /\ m + 1 + i - 1 = m + i
      BY SMT
    <3>2. QED
      BY <2>2, <3>1
  <2>5. QED
    BY <2>2, <2>3, <2>4
<1>3. ASSUME Holds(b, 1, h) PROVE b = h \o s
  <2>1. Holds(b, m + 1, s)
    <3>1. \A i \in 1..(n - m) : m + 1 - 1 + i = m + i
      BY SMT
    <3>2. m + 1 - 1 + (n - m) <= n
      BY SMT
    <3>3. QED
      BY <1>1, <1>2, <3>1, <3>2 DEF Holds
  <2>2. Holds(b, 1, h \o s)
    <3>1. 1 + m = m + 1
      BY SMT
    <3>2. QED
      BY <1>1, <1>3, <2>1, <3>1, Cut, SMT
  <2>3. h \o s \in Seq(Byte) /\ Len(h \o s) = n
    BY <1>1, <1>2, Joined, SMT
  <2>4. QED
    BY <1>1, <2>2, <2>3, Whole
<1>4. ASSUME NEW p \in Seq(Byte), b = h \o p PROVE s = p
  <2>1. Len(p) = n - m /\ \A i \in 1..(n - m) : b[m + i] = p[i]
    BY <1>1, <1>4, Joined, SMT
  <2>2. QED
    BY <1>2, <2>1, SMT
<1>5. QED
  BY <1>1, <1>2, <1>3, <1>4

LEMMA NumberIs ==
    ASSUME NEW b \in Seq(Byte), NEW at \in Nat, at >= 1, NEW w \in Widths, NEW v, Fits(v, w)
    PROVE  Holds(b, at, LE(v, w)) <=> at - 1 + w <= Len(b) /\ Num(b, at, w) = v
<1>1. Len(b) \in Nat
  OBVIOUS
<1>2. CASE w = 1
  BY <1>1, <1>2, NumberOne, SMT
<1>3. CASE w = 2
  BY <1>1, <1>3, NumberTwo, SMT
<1>4. CASE w = 4
  BY <1>1, <1>4, NumberFour, SMT
<1>5. QED
  BY <1>2, <1>3, <1>4 DEF Widths

LEMMA NumberBytes ==
    ASSUME NEW w \in Widths, NEW v, Fits(v, w)
    PROVE  LE(v, w) \in Seq(Byte) /\ Len(LE(v, w)) = w
<1>1. v \in Int /\ w \in 0..4
  BY FitsInt, SMT DEF Widths
<1>2. QED
  BY <1>1, LEIs

\* A number of w bytes after a piece of n, read at k, reaches to m.
Adds(n, w, m, k) ==
    \A y \in Seq(Byte) : Len(y) = n => \A v : Fits(v, w) =>
        /\ y \o LE(v, w) \in Seq(Byte) /\ Len(y \o LE(v, w)) = m
        /\ \A b \in Seq(Byte) : Holds(b, 1, y \o LE(v, w))
               <=> Holds(b, 1, y) /\ m <= Len(b) /\ Num(b, k, w) = v

LEMMA AddNumber ==
    ASSUME NEW n \in Nat, NEW w \in Widths, NEW m, m = n + w, NEW k, k = n + 1
    PROVE  Adds(n, w, m, k)
<1> SUFFICES ASSUME NEW y \in Seq(Byte), Len(y) = n, NEW v, Fits(v, w)
             PROVE  /\ y \o LE(v, w) \in Seq(Byte) /\ Len(y \o LE(v, w)) = m
                    /\ \A b \in Seq(Byte) : Holds(b, 1, y \o LE(v, w))
                           <=> Holds(b, 1, y) /\ m <= Len(b) /\ Num(b, k, w) = v
  BY Zenon DEF Adds
<1>1. LE(v, w) \in Seq(Byte) /\ Len(LE(v, w)) = w
  BY NumberBytes
<1>2. y \o LE(v, w) \in Seq(Byte) /\ Len(y \o LE(v, w)) = m
  BY <1>1, Joined
<1>3. ASSUME NEW b \in Seq(Byte)
      PROVE  Holds(b, 1, y \o LE(v, w)) <=> Holds(b, 1, y) /\ m <= Len(b) /\ Num(b, k, w) = v
  <2>1. k \in Nat /\ k >= 1 /\ k = 1 + n /\ k - 1 + w = m /\ 1 \in Nat /\ 1 >= 1
    BY SMT DEF Widths
  <2>2. Holds(b, 1, y \o LE(v, w)) <=> Holds(b, 1, y) /\ Holds(b, 1 + Len(y), LE(v, w))
    BY <1>1, <2>1, Cut, Zenon
  <2>3. Holds(b, k, LE(v, w)) <=> k - 1 + w <= Len(b) /\ Num(b, k, w) = v
    BY <2>1, NumberIs, Zenon
  <2>4. QED
    BY <2>1, <2>2, <2>3, Zenon
<1>4. QED
  BY <1>2, <1>3, Zenon

LEMMA HeaderAdds ==
    /\ Adds(4, 2, 6, 5) /\ Adds(6, 2, 8, 7) /\ Adds(8, 2, 10, 9) /\ Adds(10, 2, 12, 11)
    /\ Adds(12, 4, 16, 13) /\ Adds(16, 4, 20, 17) /\ Adds(20, 4, 24, 21)
<1>1. 2 \in Widths /\ 4 \in Widths
  BY DEF Widths
<1>2. /\ 4 + 2 = 6 /\ 4 + 1 = 5 /\ 6 + 2 = 8 /\ 6 + 1 = 7
      /\ 8 + 2 = 10 /\ 8 + 1 = 9 /\ 10 + 2 = 12 /\ 10 + 1 = 11
      /\ 12 + 4 = 16 /\ 12 + 1 = 13 /\ 16 + 4 = 20 /\ 16 + 1 = 17
      /\ 20 + 4 = 24 /\ 20 + 1 = 21
  BY SMT
<1>3. Adds(4, 2, 6, 5) /\ Adds(6, 2, 8, 7) /\ Adds(8, 2, 10, 9) /\ Adds(10, 2, 12, 11)
  BY <1>1, <1>2, AddNumber, SMT
<1>4. Adds(12, 4, 16, 13) /\ Adds(16, 4, 20, 17) /\ Adds(20, 4, 24, 21)
  BY <1>1, <1>2, AddNumber, SMT
<1>5. QED
  BY <1>3, <1>4

LEMMA MagicIs == Magic \in Seq(Byte) /\ Len(Magic) = 4
<1>1. 67 \in Byte /\ 72 \in Byte /\ 85 \in Byte /\ 68 \in Byte
  BY SMT DEF Byte
<1>2. QED
  BY <1>1, SMT DEF Magic

\* A frame begins with the header when each of its fields is read back.
HeaderRead(b, kind, op, id, status, length) ==
    /\ 24 <= Len(b) /\ SubSeq(b, 1, 4) = Magic
    /\ Num(b, 5, 2) = ProtocolVersion /\ Num(b, 7, 2) = HeaderSize
    /\ Num(b, 9, 2) = kind /\ Num(b, 11, 2) = op /\ Num(b, 13, 4) = id
    /\ Num(b, 17, 4) = status /\ Num(b, 21, 4) = length

LEMMA HeaderIs ==
    ASSUME NEW kind, Fits(kind, 2), NEW op, Fits(op, 2), NEW id, Fits(id, 4),
           NEW status, Fits(status, 4), NEW length, Fits(length, 4)
    PROVE  /\ WriteHeader(kind, op, id, status, length) \in Seq(Byte)
           /\ Len(WriteHeader(kind, op, id, status, length)) = 24
           /\ \A b \in Seq(Byte) : Holds(b, 1, WriteHeader(kind, op, id, status, length))
                                       <=> HeaderRead(b, kind, op, id, status, length)
<1> DEFINE h1 == Magic \o LE(ProtocolVersion, 2)
           h2 == h1 \o LE(HeaderSize, 2)
           h3 == h2 \o LE(kind, 2)
           h4 == h3 \o LE(op, 2)
           h5 == h4 \o LE(id, 4)
           h6 == h5 \o LE(status, 4)
           h7 == h6 \o LE(length, 4)
<1>1. WriteHeader(kind, op, id, status, length) = h7
  BY DEF WriteHeader
<1>2. Fits(ProtocolVersion, 2) /\ Fits(HeaderSize, 2) /\ 2 \in Widths /\ 4 \in Widths
  BY SmallFits, SMT DEF ProtocolVersion, HeaderSize, Widths
<1>4. /\ h1 \in Seq(Byte) /\ Len(h1) = 6
      /\ \A b \in Seq(Byte) : Holds(b, 1, h1)
             <=> Holds(b, 1, Magic) /\ 6 <= Len(b) /\ Num(b, 5, 2) = ProtocolVersion
  BY <1>2, MagicIs, HeaderAdds, Zenon DEF Adds
<1> HIDE DEF h1
<1>5. /\ h2 \in Seq(Byte) /\ Len(h2) = 8
      /\ \A b \in Seq(Byte) : Holds(b, 1, h2)
             <=> Holds(b, 1, h1) /\ 8 <= Len(b) /\ Num(b, 7, 2) = HeaderSize
  BY <1>2, <1>4, HeaderAdds, Zenon DEF Adds
<1> HIDE DEF h2
<1>6. /\ h3 \in Seq(Byte) /\ Len(h3) = 10
      /\ \A b \in Seq(Byte) : Holds(b, 1, h3)
             <=> Holds(b, 1, h2) /\ 10 <= Len(b) /\ Num(b, 9, 2) = kind
  BY <1>2, <1>5, HeaderAdds, Zenon DEF Adds
<1> HIDE DEF h3
<1>7. /\ h4 \in Seq(Byte) /\ Len(h4) = 12
      /\ \A b \in Seq(Byte) : Holds(b, 1, h4)
             <=> Holds(b, 1, h3) /\ 12 <= Len(b) /\ Num(b, 11, 2) = op
  BY <1>2, <1>6, HeaderAdds, Zenon DEF Adds
<1> HIDE DEF h4
<1>8. /\ h5 \in Seq(Byte) /\ Len(h5) = 16
      /\ \A b \in Seq(Byte) : Holds(b, 1, h5)
             <=> Holds(b, 1, h4) /\ 16 <= Len(b) /\ Num(b, 13, 4) = id
  BY <1>2, <1>7, HeaderAdds, Zenon DEF Adds
<1> HIDE DEF h5
<1>9. /\ h6 \in Seq(Byte) /\ Len(h6) = 20
      /\ \A b \in Seq(Byte) : Holds(b, 1, h6)
             <=> Holds(b, 1, h5) /\ 20 <= Len(b) /\ Num(b, 17, 4) = status
  BY <1>2, <1>8, HeaderAdds, Zenon DEF Adds
<1> HIDE DEF h6
<1>10. /\ h7 \in Seq(Byte) /\ Len(h7) = 24
       /\ \A b \in Seq(Byte) : Holds(b, 1, h7)
             <=> Holds(b, 1, h6) /\ 24 <= Len(b) /\ Num(b, 21, 4) = length
  BY <1>2, <1>9, HeaderAdds, Zenon DEF Adds
<1> HIDE DEF h7
<1>11. ASSUME NEW b \in Seq(Byte), 24 <= Len(b)
       PROVE  /\ SubSeq(b, 1, 4) = Magic <=> Holds(b, 1, Magic)
              /\ 6 <= Len(b) /\ 8 <= Len(b) /\ 10 <= Len(b) /\ 12 <= Len(b) /\ 16 <= Len(b)
              /\ 20 <= Len(b)
  <2>1. Len(b) \in Nat
    OBVIOUS
  <2>2. /\ 4 <= Len(b) /\ 6 <= Len(b) /\ 8 <= Len(b) /\ 10 <= Len(b) /\ 12 <= Len(b)
        /\ 16 <= Len(b) /\ 20 <= Len(b)
    BY <1>11, <2>1, SMT
  <2>3. QED
    BY <2>2, MagicIs, First
<1>12. ASSUME NEW b \in Seq(Byte)
       PROVE  Holds(b, 1, h7) <=> HeaderRead(b, kind, op, id, status, length)
  BY <1>4, <1>5, <1>6, <1>7, <1>8, <1>9, <1>10, <1>11 DEF HeaderRead
<1>13. QED
  BY <1>1, <1>10, <1>12

-----------------------------------------------------------------------------
(* Texts.                                                                  *)

LEMMA Slice ==
    ASSUME NEW b \in Seq(Byte), NEW k \in Nat, k >= 1, NEW n \in Nat, NEW e \in Int,
           e = k - 1 + n, e <= Len(b)
    PROVE  /\ SubSeq(b, k, e) \in Seq(Byte) /\ Len(SubSeq(b, k, e)) = n
           /\ \A t \in Seq(Byte) : Len(t) = n => (Holds(b, k, t) <=> SubSeq(b, k, e) = t)
<1>1. \A i \in k..e : b[i] \in Byte
  BY SMT
<1>2. /\ SubSeq(b, k, e) \in Seq(Byte) /\ Len(SubSeq(b, k, e)) = IF k <= e THEN e - k + 1 ELSE 0
      /\ \A i \in 1..(e - k + 1) : SubSeq(b, k, e)[i] = b[k + i - 1]
  <2>1. k \in Int
    OBVIOUS
  <2>2. QED
    BY <1>1, <2>1, SubSeqProperties
<1>3. Len(SubSeq(b, k, e)) = n
  BY <1>2, SMT
<1>4. PICK s \in Seq(Byte) : s = SubSeq(b, k, e) /\ Len(s) = n /\ \A i \in 1..n : s[i] = b[k - 1 + i]
  <2>1. \A i \in 1..n : i \in 1..(e - k + 1) /\ k + i - 1 = k - 1 + i
    BY SMT
  <2>2. \A i \in 1..n : SubSeq(b, k, e)[i] = b[k - 1 + i]
    BY <1>2, <2>1, Zenon
  <2>3. QED
    BY <1>2, <1>3, <2>2, Zenon
<1>5. ASSUME NEW t \in Seq(Byte), Len(t) = n PROVE Holds(b, k, t) <=> s = t
  <2>1. Holds(b, k, t) <=> \A i \in 1..n : b[k - 1 + i] = t[i]
    BY <1>5 DEF Holds
  <2>2. (\A i \in 1..n : s[i] = t[i]) => s = t
    BY <1>4, <1>5, SMT
  <2>3. QED
    BY <1>4, <2>1, <2>2, Zenon
<1>6. QED
  BY <1>2, <1>3, <1>4, <1>5, Zenon

LEMMA TextBytes ==
    ASSUME NEW t \in Seq(Byte), IsValidWireString(t)
    PROVE  /\ Len(t) \in Nat /\ Len(t) <= MaxStringBytes /\ Fits(Len(t), 2)
           /\ Text(t) \in Seq(Byte) /\ Len(Text(t)) = 2 + Len(t)
<1>1. Len(t) <= MaxStringBytes
  BY Zenon DEF IsValidWireString
<1>2. PICK n \in Nat : n = Len(t)
  OBVIOUS
<1>3. n <= 4096
  BY <1>1, <1>2, SMT DEF MaxStringBytes
<1>4. Fits(n, 2)
  BY <1>3, SMT DEF Fits
<1>5. 2 \in Widths
  BY SMT DEF Widths
<1>6. LE(n, 2) \in Seq(Byte) /\ Len(LE(n, 2)) = 2
  BY <1>4, <1>5, NumberBytes, Zenon
<1>7. LE(n, 2) \o t \in Seq(Byte) /\ Len(LE(n, 2) \o t) = 2 + n
  <2>1. PICK l \in Seq(Byte) : l = LE(n, 2) /\ Len(l) = 2
    BY <1>6
  <2>2. l \o t \in Seq(Byte) /\ Len(l \o t) = Len(l) + Len(t)
    BY Joined
  <2>3. QED
    BY <1>2, <2>1, <2>2
<1>8. QED
  BY <1>1, <1>2, <1>4, <1>7 DEF Text

\* The two cases of a read.
Readable(b, k) ==
    /\ k + 1 <= Len(b) /\ Num(b, k, 2) <= MaxStringBytes /\ k + 1 + Num(b, k, 2) <= Len(b)
    /\ IsValidWireString(TextAt(b, k))

LEMMA ReadTextIs ==
    ASSUME NEW b, NEW k
    PROVE  /\ Readable(b, k) => /\ ReadText(b, k).ok /\ ReadText(b, k).text = TextAt(b, k)
                                /\ ReadText(b, k).at = k + 2 + Num(b, k, 2)
           /\ ReadText(b, k).ok => Readable(b, k)
<1> DEFINE r == ReadText(b, k)
           n == k + 2 + Num(b, k, 2)
           s == TextAt(b, k)
<1>1. CASE Readable(b, k)
  <2>1. r = [ok |-> TRUE, at |-> n, text |-> s]
    BY <1>1, Zenon DEF ReadText, Readable
  <2> HIDE DEF r, n, s
  <2>2. r.ok /\ r.text = s /\ r.at = n
    BY <2>1
  <2>3. QED
    BY <1>1, <2>2, Zenon DEF r, n, s
<1>2. CASE ~Readable(b, k)
  <2>1. r = [ok |-> FALSE, at |-> k, text |-> <<>>]
    BY <1>2, Zenon DEF ReadText, Readable
  <2> HIDE DEF r
  <2>2. r.ok = FALSE
    BY <2>1
  <2>3. QED
    BY <1>2, <2>2, Zenon DEF r
<1>3. QED
  BY <1>1, <1>2, Zenon

\* What a text is read from, and where it ends.
LEMMA TextReadIs ==
    ASSUME NEW b \in Seq(Byte), NEW k \in Nat, k >= 1, NEW r, r = ReadText(b, k)
    PROVE  r.ok => /\ r.text \in Seq(Byte) /\ IsValidWireString(r.text)
                   /\ r.at = k + 2 + Len(r.text) /\ r.at \in Nat /\ r.at >= 1
                   /\ r.at <= Len(b) + 1 /\ Holds(b, k, Text(r.text))
<1> SUFFICES ASSUME r.ok
             PROVE  /\ r.text \in Seq(Byte) /\ IsValidWireString(r.text)
                    /\ r.at = k + 2 + Len(r.text) /\ r.at \in Nat /\ r.at >= 1
                    /\ r.at <= Len(b) + 1 /\ Holds(b, k, Text(r.text))
  OBVIOUS
<1>1. Readable(b, k) /\ r.text = TextAt(b, k) /\ r.at = k + 2 + Num(b, k, 2)
  BY ReadTextIs, Zenon
<1>2. PICK n, m, e, s : /\ n = Num(b, k, 2) /\ m = k + 2 /\ e = k + 1 + n
                        /\ s = TextAt(b, k) /\ s = SubSeq(b, m, e)
  BY Zenon DEF TextAt
<1>3. /\ Len(b) \in Nat /\ k + 1 <= Len(b) /\ e <= Len(b) /\ IsValidWireString(s)
      /\ r.text = s /\ r.at = k + 2 + n
  BY <1>1, <1>2 DEF Readable
<1>4. n \in Nat /\ Fits(n, 2)
  BY <1>2, <1>3, NumberFits, SMT DEF Fits
<1>5. m \in Nat /\ m >= 1 /\ e \in Int /\ e = m - 1 + n /\ m = k + 2
  BY <1>2, <1>4, SMT
<1>6. s \in Seq(Byte) /\ Len(s) = n /\ Holds(b, m, s)
  <2>1. /\ SubSeq(b, m, e) \in Seq(Byte) /\ Len(SubSeq(b, m, e)) = n
        /\ \A t \in Seq(Byte) : Len(t) = n => (Holds(b, m, t) <=> SubSeq(b, m, e) = t)
    BY <1>3, <1>4, <1>5, Slice
  <2>2. QED
    BY <1>2, <2>1, Zenon
<1>7. Holds(b, k, Text(s))
  <2>1. LE(n, 2) \in Seq(Byte) /\ Len(LE(n, 2)) = 2
    <3>1. 2 \in Widths
      BY SMT DEF Widths
    <3>2. QED
      BY <1>4, <3>1, NumberBytes, Zenon
  <2>2. Holds(b, k, LE(n, 2))
    BY <1>2, <1>3, <1>4, NumberTwo, Zenon
  <2>3. Holds(b, k, LE(n, 2) \o s)
    BY <1>5, <1>6, <2>1, <2>2, Cut, Zenon
  <2>4. QED
    BY <1>6, <2>3, Zenon DEF Text
<1>8. k + 2 + n \in Nat /\ k + 2 + n >= 1 /\ k + 2 + n <= Len(b) + 1
  <2>1. PICK z \in Nat : z = Len(b)
    BY <1>3
  <2>2. e <= z /\ e = k + 1 + n
    BY <1>2, <1>3, <2>1
  <2>3. QED
    BY <1>4, <2>1, <2>2, SMT
<1>9. QED
  BY <1>3, <1>6, <1>7, <1>8, Zenon

\* A text is read where it is written, and written where it is read.
LEMMA TextIs ==
    ASSUME NEW b \in Seq(Byte), NEW k \in Nat, k >= 1, NEW t \in Seq(Byte), IsValidWireString(t),
           NEW r, r = ReadText(b, k)
    PROVE  /\ Holds(b, k, Text(t)) <=> r.ok /\ r.text = t
           /\ r.ok /\ r.text = t => r.at = k + Len(Text(t))
<1>1. PICK n \in Nat : n = Len(t) /\ n <= MaxStringBytes /\ Fits(n, 2) /\ Len(Text(t)) = 2 + n
  BY TextBytes, Zenon
<1>2. LE(n, 2) \in Seq(Byte) /\ Len(LE(n, 2)) = 2
  <2>1. 2 \in Widths
    BY SMT DEF Widths
  <2>2. QED
    BY <1>1, <2>1, NumberBytes, Zenon
<1>3. PICK m \in Nat, e \in Int : m = k + 2 /\ m >= 1 /\ e = m - 1 + n /\ e = k + 1 + n
  BY SMT
<1>4. ASSUME Holds(b, k, Text(t)) PROVE r.ok /\ r.text = t
  <2>1. Holds(b, k, LE(n, 2)) /\ Holds(b, m, t)
    BY <1>1, <1>2, <1>3, <1>4, Cut, Zenon DEF Text
  <2>2. k + 1 <= Len(b) /\ Num(b, k, 2) = n
    BY <1>1, <2>1, NumberTwo, Zenon
  <2>3. e <= Len(b)
    BY <1>1, <1>3, <2>1, Zenon DEF Holds
  <2>4. SubSeq(b, m, e) = t
    BY <1>1, <1>3, <2>1, <2>3, Slice, Zenon
  <2>5. TextAt(b, k) = t
    BY <1>3, <2>2, <2>4, Zenon DEF TextAt
  <2>6. Readable(b, k)
    BY <1>1, <1>3, <2>2, <2>3, <2>5, Zenon DEF Readable
  <2>7. QED
    BY <2>5, <2>6, ReadTextIs, Zenon
<1>5. ASSUME r.ok, r.text = t PROVE Holds(b, k, Text(t)) /\ r.at = k + Len(Text(t))
  <2>1. Holds(b, k, Text(t)) /\ r.at = k + 2 + n
    BY <1>1, <1>5, TextReadIs, Zenon
  <2>2. k + 2 + n = k + (2 + n)
    BY SMT
  <2>3. QED
    BY <1>1, <2>1, <2>2, Zenon
<1>6. QED
  BY <1>4, <1>5, Zenon

\* A text behind a piece, read where the piece ends.
TextAdds(b, k, y, z, t, at) ==
    /\ Holds(b, k, z) <=> Holds(b, k, y) /\ ReadText(b, at).ok /\ ReadText(b, at).text = t
    /\ ReadText(b, at).ok /\ ReadText(b, at).text = t => ReadText(b, at).at = k + Len(z)

LEMMA AddText ==
    ASSUME NEW b \in Seq(Byte), NEW k \in Nat, k >= 1, NEW y \in Seq(Byte), NEW t \in Seq(Byte),
           IsValidWireString(t), NEW at, at = k + Len(y)
    PROVE  TextAdds(b, k, y, y \o Text(t), t, at)
<1> DEFINE r == ReadText(b, at)
<1> HIDE DEF r
<1>1. PICK l \in Nat : l = Len(y)
  OBVIOUS
<1>2. at \in Nat /\ at >= 1 /\ at = k + l
  BY <1>1, SMT
<1>3. PICK n \in Nat : Text(t) \in Seq(Byte) /\ Len(Text(t)) = n
  <2>1. Text(t) \in Seq(Byte)
    BY TextBytes, Zenon
  <2>2. QED
    BY <2>1
<1>4. y \o Text(t) \in Seq(Byte) /\ Len(y \o Text(t)) = l + n
  BY <1>1, <1>3, Joined, Zenon
<1>5. Holds(b, k, y \o Text(t)) <=> Holds(b, k, y) /\ Holds(b, at, Text(t))
  BY <1>3, Cut, Zenon
<1>6. /\ Holds(b, at, Text(t)) <=> r.ok /\ r.text = t
      /\ r.ok /\ r.text = t => r.at = at + n
  <2>1. /\ Holds(b, at, Text(t)) <=> r.ok /\ r.text = t
        /\ r.ok /\ r.text = t => r.at = at + Len(Text(t))
    BY <1>2, TextIs DEF r
  <2>2. QED
    BY <1>3, <2>1, Zenon
<1>7. at + n = k + (l + n)
  BY <1>2, SMT
<1>8. QED
  BY <1>4, <1>5, <1>6, <1>7, Zenon DEF r, TextAdds

-----------------------------------------------------------------------------
(* The result of a snapshot: no result, or a status and five texts.        *)

IsText(t) == t \in Seq(Byte) /\ IsValidWireString(t)

Grows(b, k, y, z, t, at) ==
    /\ z \in Seq(Byte) /\ (Holds(b, k, z) => Holds(b, k, y))
    /\ at = k + Len(y) => TextAdds(b, k, y, z, t, at)

LEMMA AddMore ==
    ASSUME NEW b \in Seq(Byte), NEW k \in Nat, k >= 1, NEW y \in Seq(Byte), NEW t, IsText(t), NEW at
    PROVE  Grows(b, k, y, y \o Text(t), t, at)
<1>1. t \in Seq(Byte) /\ IsValidWireString(t)
  BY DEF IsText
<1>2. PICK x \in Seq(Byte) : x = Text(t)
  BY <1>1, TextBytes, Zenon
<1>3. y \o x \in Seq(Byte) /\ (Holds(b, k, y \o x) => Holds(b, k, y))
  BY Joined, Cut
<1>4. at = k + Len(y) => TextAdds(b, k, y, y \o Text(t), t, at)
  BY <1>1, AddText, Zenon
<1>5. QED
  BY <1>2, <1>3, <1>4, Zenon DEF Grows

\* The texts behind a piece are read where they are written.
TextsAdd(b, k, y, z, texts, at) ==
    /\ z \in Seq(Byte)
    /\ Holds(b, k, z) <=> Holds(b, k, y) /\ ReadTexts(b, at).ok /\ ReadTexts(b, at).texts = texts
    /\ ReadTexts(b, at).ok /\ ReadTexts(b, at).texts = texts => ReadTexts(b, at).at = k + Len(z)

LEMMA TextsAre ==
    ASSUME NEW b \in Seq(Byte), NEW k \in Nat, k >= 1, NEW y \in Seq(Byte), NEW at, at = k + Len(y),
           NEW t1, NEW t2, NEW t3, NEW t4, NEW t5,
           IsText(t1), IsText(t2), IsText(t3), IsText(t4), IsText(t5)
    PROVE  TextsAdd(b, k, y, y \o Text(t1) \o Text(t2) \o Text(t3) \o Text(t4) \o Text(t5),
                    <<t1, t2, t3, t4, t5>>, at)
<1> DEFINE y1 == y \o Text(t1)
           y2 == y1 \o Text(t2)
           y3 == y2 \o Text(t3)
           y4 == y3 \o Text(t4)
           y5 == y4 \o Text(t5)
           r1 == ReadText(b, at)
           r2 == ReadText(b, r1.at)
           r3 == ReadText(b, r2.at)
           r4 == ReadText(b, r3.at)
           r5 == ReadText(b, r4.at)
           rs == ReadTexts(b, at)
<1>1. y \o Text(t1) \o Text(t2) \o Text(t3) \o Text(t4) \o Text(t5) = y5
  OBVIOUS
<1>2. /\ rs.ok <=> r1.ok /\ r2.ok /\ r3.ok /\ r4.ok /\ r5.ok
      /\ rs.at = r5.at /\ rs.texts = <<r1.text, r2.text, r3.text, r4.text, r5.text>>
  <2>1. rs = [ok |-> r1.ok /\ r2.ok /\ r3.ok /\ r4.ok /\ r5.ok, at |-> r5.at,
              texts |-> <<r1.text, r2.text, r3.text, r4.text, r5.text>>]
    BY Zenon DEF ReadTexts
  <2> HIDE DEF rs
  <2> DEFINE every == r1.ok /\ r2.ok /\ r3.ok /\ r4.ok /\ r5.ok
             all == <<r1.text, r2.text, r3.text, r4.text, r5.text>>
             last == r5.at
  <2>2. rs = [ok |-> every, at |-> last, texts |-> all]
    BY <2>1
  <2> HIDE DEF every, all, last
  <2>3. rs.ok = every /\ rs.at = last /\ rs.texts = all
    BY <2>2
  <2>4. QED
    BY <2>3, Zenon DEF every, all, last, rs
<1> HIDE DEF r1, r2, r3, r4, r5, rs
<1>3. rs.texts = <<t1, t2, t3, t4, t5>> <=> /\ r1.text = t1 /\ r2.text = t2 /\ r3.text = t3
                                            /\ r4.text = t4 /\ r5.text = t5
  BY <1>2
<1>4. Grows(b, k, y, y1, t1, at)
  BY AddMore, Zenon
<1>5. y1 \in Seq(Byte)
  BY <1>4, Zenon DEF Grows
<1> HIDE DEF y1
<1>6. Grows(b, k, y1, y2, t2, r1.at)
  BY <1>5, AddMore, Zenon
<1>7. y2 \in Seq(Byte)
  BY <1>6, Zenon DEF Grows
<1> HIDE DEF y2
<1>8. Grows(b, k, y2, y3, t3, r2.at)
  BY <1>7, AddMore, Zenon
<1>9. y3 \in Seq(Byte)
  BY <1>8, Zenon DEF Grows
<1> HIDE DEF y3
<1>10. Grows(b, k, y3, y4, t4, r3.at)
  BY <1>9, AddMore, Zenon
<1>11. y4 \in Seq(Byte)
  BY <1>10, Zenon DEF Grows
<1> HIDE DEF y4
<1>12. Grows(b, k, y4, y5, t5, r4.at)
  BY <1>11, AddMore, Zenon
<1> HIDE DEF y5
<1> DEFINE g1 == r1.ok /\ r1.text = t1
           g2 == g1 /\ r2.ok /\ r2.text = t2
           g3 == g2 /\ r3.ok /\ r3.text = t3
           g4 == g3 /\ r4.ok /\ r4.text = t4
           g5 == g4 /\ r5.ok /\ r5.text = t5
<1>13. (Holds(b, k, y1) <=> Holds(b, k, y) /\ g1) /\ (g1 => r1.at = k + Len(y1))
  BY <1>4, Zenon DEF Grows, TextAdds, r1
<1>14. (Holds(b, k, y2) <=> Holds(b, k, y) /\ g2) /\ (g2 => r2.at = k + Len(y2))
  BY <1>6, <1>13, Zenon DEF Grows, TextAdds, r2
<1>15. (Holds(b, k, y3) <=> Holds(b, k, y) /\ g3) /\ (g3 => r3.at = k + Len(y3))
  BY <1>8, <1>14, Zenon DEF Grows, TextAdds, r3
<1>16. (Holds(b, k, y4) <=> Holds(b, k, y) /\ g4) /\ (g4 => r4.at = k + Len(y4))
  BY <1>10, <1>15, Zenon DEF Grows, TextAdds, r4
<1>17. (Holds(b, k, y5) <=> Holds(b, k, y) /\ g5) /\ (g5 => r5.at = k + Len(y5)) /\ y5 \in Seq(Byte)
  BY <1>12, <1>16, Zenon DEF Grows, TextAdds, r5
<1>18. rs.ok /\ rs.texts = <<t1, t2, t3, t4, t5>> <=> g5
  BY <1>2, <1>3, Zenon
<1>19. QED
  BY <1>1, <1>2, <1>17, <1>18, Zenon DEF TextsAdd, rs

\* What is read as five texts is five texts.
LEMMA OneText ==
    ASSUME NEW b \in Seq(Byte), NEW k \in Nat, k >= 1
    PROVE  ReadText(b, k).ok => /\ IsText(ReadText(b, k).text)
                                /\ ReadText(b, k).at \in Nat /\ ReadText(b, k).at >= 1
BY TextReadIs, Zenon DEF IsText

LEMMA TextsAreTexts ==
    ASSUME NEW b \in Seq(Byte), NEW k \in Nat, k >= 1, ReadTexts(b, k).ok
    PROVE  \E t1, t2, t3, t4, t5 :
              /\ IsText(t1) /\ IsText(t2) /\ IsText(t3) /\ IsText(t4) /\ IsText(t5)
              /\ ReadTexts(b, k).texts = <<t1, t2, t3, t4, t5>>
<1> DEFINE r1 == ReadText(b, k)
           r2 == ReadText(b, r1.at)
           r3 == ReadText(b, r2.at)
           r4 == ReadText(b, r3.at)
           r5 == ReadText(b, r4.at)
           rs == ReadTexts(b, k)
<1>1. /\ r1.ok /\ r2.ok /\ r3.ok /\ r4.ok /\ r5.ok
      /\ rs.texts = <<r1.text, r2.text, r3.text, r4.text, r5.text>>
  <2> DEFINE every == r1.ok /\ r2.ok /\ r3.ok /\ r4.ok /\ r5.ok
             all == <<r1.text, r2.text, r3.text, r4.text, r5.text>>
             last == r5.at
  <2>1. rs = [ok |-> every, at |-> last, texts |-> all]
    BY Zenon DEF ReadTexts
  <2> HIDE DEF every, all, last, rs
  <2>2. rs.ok = every /\ rs.texts = all
    BY <2>1
  <2>3. QED
    BY <2>2, Zenon DEF every, all, rs
<1>2. IsText(r1.text) /\ r1.at \in Nat /\ r1.at >= 1
  BY <1>1, OneText, Zenon
<1> HIDE DEF r1
<1>3. IsText(r2.text) /\ r2.at \in Nat /\ r2.at >= 1
  BY <1>1, <1>2, OneText, Zenon
<1> HIDE DEF r2
<1>4. IsText(r3.text) /\ r3.at \in Nat /\ r3.at >= 1
  BY <1>1, <1>3, OneText, Zenon
<1> HIDE DEF r3
<1>5. IsText(r4.text) /\ r4.at \in Nat /\ r4.at >= 1
  BY <1>1, <1>4, OneText, Zenon
<1> HIDE DEF r4
<1>6. IsText(r5.text)
  BY <1>1, <1>5, OneText, Zenon
<1>7. QED
  BY <1>1, <1>2, <1>3, <1>4, <1>5, <1>6, Zenon

LEMMA SmallBytes ==
    /\ \A x \in Byte : <<x>> \in Seq(Byte) /\ Len(<<x>>) = 1 /\ <<x>>[1] = x
    /\ \A x, y \in Byte : /\ <<x, y>> \in Seq(Byte) /\ Len(<<x, y>>) = 2
                          /\ <<x, y>>[1] = x /\ <<x, y>>[2] = y
    /\ 0 \in Byte /\ 1 \in Byte /\ \A x \in 1..9 : x \in Byte
<1>1. 0 \in Byte /\ 1 \in Byte /\ \A x \in 1..9 : x \in Byte
  BY SMT DEF Byte
<1>2. QED
  BY <1>1

\* A result, of a status and five texts, is read where it is written.
ResultOf(r, x, t1, t2, t3, t4, t5) ==
    /\ x \in 1..9 /\ IsText(t1) /\ IsText(t2) /\ IsText(t3) /\ IsText(t4) /\ IsText(t5)
    /\ r = [status |-> x, texts |-> <<t1, t2, t3, t4, t5>>]

ResultIn(p, r) ==
    /\ 15 <= Len(p) /\ p[14] = 1 /\ p[15] = r.status
    /\ ReadTexts(p, 16).ok /\ ReadTexts(p, 16).texts = r.texts

LEMMA ResultRead ==
    ASSUME NEW p \in Seq(Byte), NEW r, NEW x, NEW t1, NEW t2, NEW t3, NEW t4, NEW t5,
           ResultOf(r, x, t1, t2, t3, t4, t5)
    PROVE  /\ EncodeResult(r) \in Seq(Byte)
           /\ Holds(p, 14, EncodeResult(r)) <=> ResultIn(p, r)
           /\ ResultIn(p, r) => ReadTexts(p, 16).at = 14 + Len(EncodeResult(r))
           /\ r # NoResult /\ r.status = x
<1> DEFINE y == <<1, x>>
           z == y \o Text(t1) \o Text(t2) \o Text(t3) \o Text(t4) \o Text(t5)
           rs == ReadTexts(p, 16)
           e == EncodeResult(r)
<1>0. /\ x \in 1..9 /\ IsText(t1) /\ IsText(t2) /\ IsText(t3) /\ IsText(t4) /\ IsText(t5)
      /\ r = [status |-> x, texts |-> <<t1, t2, t3, t4, t5>>]
  BY Zenon DEF ResultOf
<1>1. /\ r.status = x /\ r.texts = <<t1, t2, t3, t4, t5>>
      /\ r.texts[1] = t1 /\ r.texts[2] = t2 /\ r.texts[3] = t3 /\ r.texts[4] = t4 /\ r.texts[5] = t5
  BY <1>0
<1>2. r # NoResult
  <2>1. NoResult.status = 0
    BY DEF NoResult
  <2>2. x # 0
    BY <1>0, SMT
  <2>3. QED
    BY <1>1, <2>1, <2>2, Zenon
<1>3. e = z
  BY <1>1, <1>2, Zenon DEF EncodeResult
<1>4. y \in Seq(Byte) /\ Len(y) = 2 /\ y[1] = 1 /\ y[2] = x
  BY <1>0, SmallBytes, Zenon
<1> HIDE DEF y
<1>5. 14 \in Nat /\ 14 >= 1 /\ 16 = 14 + 2 /\ 15 = 14 + 1
  BY SMT
<1>6. Holds(p, 14, y) <=> 15 <= Len(p) /\ p[14] = 1 /\ p[15] = x
  BY <1>4, <1>5, HoldsTwo
<1>7. /\ z \in Seq(Byte)
      /\ Holds(p, 14, z) <=> Holds(p, 14, y) /\ rs.ok /\ rs.texts = <<t1, t2, t3, t4, t5>>
      /\ rs.ok /\ rs.texts = <<t1, t2, t3, t4, t5>> => rs.at = 14 + Len(z)
  <2>1. 16 = 14 + Len(y)
    BY <1>4, <1>5
  <2>2. TextsAdd(p, 14, y, z, <<t1, t2, t3, t4, t5>>, 16)
    BY <1>0, <1>4, <1>5, <2>1, TextsAre, Zenon
  <2>3. QED
    BY <2>2, Zenon DEF TextsAdd
<1> HIDE DEF z
<1>8. QED
  BY <1>1, <1>2, <1>3, <1>6, <1>7, Zenon DEF ResultIn

LEMMA NoResultRead ==
    ASSUME NEW p \in Seq(Byte)
    PROVE  /\ EncodeResult(NoResult) \in Seq(Byte) /\ Len(EncodeResult(NoResult)) = 1
           /\ Holds(p, 14, EncodeResult(NoResult)) <=> 14 <= Len(p) /\ p[14] = 0
<1>1. PICK y \in Seq(Byte) : y = <<0>> /\ Len(y) = 1 /\ y[1] = 0
  BY SmallBytes
<1>2. EncodeResult(NoResult) = y
  BY <1>1 DEF EncodeResult
<1>3. 14 \in Nat /\ 14 >= 1
  BY SMT
<1>4. Holds(p, 14, y) <=> 14 <= Len(p) /\ p[14] = y[1]
  BY <1>1, <1>3, HoldsOne
<1>5. QED
  BY <1>1, <1>2, <1>4, Zenon

-----------------------------------------------------------------------------
(* The payload of a snapshot.                                              *)

SettingFits(s) ==
    /\ Fits(s.startWithWindows, 1) /\ Fits(s.hudEnabled, 1) /\ Fits(s.hudSizeOffset, 4)
    /\ Fits(s.hudFont, 1) /\ Fits(s.visibilityMode, 1) /\ Fits(s.alignment, 1)
    /\ Fits(s.backgroundMode, 1) /\ Fits(s.backgroundOpacityPercent, 2)
    /\ Fits(s.intelVrrRangeFixEnabled, 1)

FieldBytes(s) ==
    LE(s.startWithWindows, 1) \o LE(s.hudEnabled, 1) \o LE(s.hudSizeOffset, 4)
    \o LE(s.hudFont, 1) \o LE(s.visibilityMode, 1) \o LE(s.alignment, 1)
    \o LE(s.backgroundMode, 1) \o LE(s.backgroundOpacityPercent, 2)
    \o LE(s.intelVrrRangeFixEnabled, 1)

FieldsRead(b, s) ==
    /\ 13 <= Len(b)
    /\ b[1] = s.startWithWindows /\ b[2] = s.hudEnabled /\ Num(b, 3, 4) = s.hudSizeOffset
    /\ b[7] = s.hudFont /\ b[8] = s.visibilityMode /\ b[9] = s.alignment
    /\ b[10] = s.backgroundMode /\ Num(b, 11, 2) = s.backgroundOpacityPercent
    /\ b[13] = s.intelVrrRangeFixEnabled

LEMMA FieldAdds ==
    /\ Adds(1, 1, 2, 2) /\ Adds(2, 4, 6, 3) /\ Adds(6, 1, 7, 7) /\ Adds(7, 1, 8, 8)
    /\ Adds(8, 1, 9, 9) /\ Adds(9, 1, 10, 10) /\ Adds(10, 2, 12, 11) /\ Adds(12, 1, 13, 13)
<1>1. 1 \in Widths /\ 2 \in Widths /\ 4 \in Widths
  BY DEF Widths
<1>2. /\ 2 = 1 + 1 /\ 6 = 2 + 4 /\ 3 = 2 + 1 /\ 7 = 6 + 1 /\ 8 = 7 + 1
      /\ 9 = 8 + 1 /\ 10 = 9 + 1 /\ 12 = 10 + 2 /\ 11 = 10 + 1 /\ 13 = 12 + 1
  BY SMT
<1>3. Adds(1, 1, 2, 2) /\ Adds(2, 4, 6, 3) /\ Adds(6, 1, 7, 7) /\ Adds(7, 1, 8, 8)
  BY <1>1, <1>2, AddNumber, SMT
<1>4. Adds(8, 1, 9, 9) /\ Adds(9, 1, 10, 10) /\ Adds(10, 2, 12, 11) /\ Adds(12, 1, 13, 13)
  BY <1>1, <1>2, AddNumber, SMT
<1>5. QED
  BY <1>3, <1>4, Zenon

LEMMA FieldsAre ==
    ASSUME NEW s, SettingFits(s)
    PROVE  /\ FieldBytes(s) \in Seq(Byte) /\ Len(FieldBytes(s)) = 13
           /\ \A b \in Seq(Byte) : Holds(b, 1, FieldBytes(s)) <=> FieldsRead(b, s)
<1> DEFINE v1 == s.startWithWindows
           v2 == s.hudEnabled
           v3 == s.hudSizeOffset
           v4 == s.hudFont
           v5 == s.visibilityMode
           v6 == s.alignment
           v7 == s.backgroundMode
           v8 == s.backgroundOpacityPercent
           v9 == s.intelVrrRangeFixEnabled
           f1 == LE(v1, 1)
           f2 == f1 \o LE(v2, 1)
           f3 == f2 \o LE(v3, 4)
           f4 == f3 \o LE(v4, 1)
           f5 == f4 \o LE(v5, 1)
           f6 == f5 \o LE(v6, 1)
           f7 == f6 \o LE(v7, 1)
           f8 == f7 \o LE(v8, 2)
           f9 == f8 \o LE(v9, 1)
<1>1. FieldBytes(s) = f9
  BY DEF FieldBytes
<1>2. /\ Fits(v1, 1) /\ Fits(v2, 1) /\ Fits(v3, 4) /\ Fits(v4, 1) /\ Fits(v5, 1)
      /\ Fits(v6, 1) /\ Fits(v7, 1) /\ Fits(v8, 2) /\ Fits(v9, 1)
  BY Zenon DEF SettingFits
<1>3. ASSUME NEW b \in Seq(Byte)
      PROVE  FieldsRead(b, s) <=> /\ 13 <= Len(b)
                                  /\ b[1] = v1 /\ b[2] = v2 /\ Num(b, 3, 4) = v3
                                  /\ b[7] = v4 /\ b[8] = v5 /\ b[9] = v6
                                  /\ b[10] = v7 /\ Num(b, 11, 2) = v8 /\ b[13] = v9
  BY Zenon DEF FieldsRead
<1> HIDE DEF v1, v2, v3, v4, v5, v6, v7, v8, v9
<1>4. /\ f1 \in Seq(Byte) /\ Len(f1) = 1
      /\ \A b \in Seq(Byte) : Holds(b, 1, f1) <=> 1 <= Len(b) /\ Num(b, 1, 1) = v1
  <2>1. 1 \in Widths /\ 1 \in Nat /\ 1 >= 1
    BY SMT DEF Widths
  <2>2. ASSUME NEW b \in Seq(Byte)
        PROVE  Holds(b, 1, f1) <=> 1 <= Len(b) /\ Num(b, 1, 1) = v1
    BY <1>2, <2>1, NumberOne
  <2>3. QED
    BY <1>2, <2>1, <2>2, NumberBytes, Zenon
<1> HIDE DEF f1
<1>5. /\ f2 \in Seq(Byte) /\ Len(f2) = 2
      /\ \A b \in Seq(Byte) : Holds(b, 1, f2)
             <=> Holds(b, 1, f1) /\ 2 <= Len(b) /\ Num(b, 2, 1) = v2
  <2>1. Fits(v2, 1) /\ Adds(1, 1, 2, 2)
    BY <1>2, FieldAdds, Zenon
  <2>2. QED
    BY <1>4, <2>1, Zenon DEF Adds
<1> HIDE DEF f2
<1>6. /\ f3 \in Seq(Byte) /\ Len(f3) = 6
      /\ \A b \in Seq(Byte) : Holds(b, 1, f3)
             <=> Holds(b, 1, f2) /\ 6 <= Len(b) /\ Num(b, 3, 4) = v3
  <2>1. Fits(v3, 4) /\ Adds(2, 4, 6, 3)
    BY <1>2, FieldAdds, Zenon
  <2>2. QED
    BY <1>5, <2>1, Zenon DEF Adds
<1> HIDE DEF f3
<1>7. /\ f4 \in Seq(Byte) /\ Len(f4) = 7
      /\ \A b \in Seq(Byte) : Holds(b, 1, f4)
             <=> Holds(b, 1, f3) /\ 7 <= Len(b) /\ Num(b, 7, 1) = v4
  <2>1. Fits(v4, 1) /\ Adds(6, 1, 7, 7)
    BY <1>2, FieldAdds, Zenon
  <2>2. QED
    BY <1>6, <2>1, Zenon DEF Adds
<1> HIDE DEF f4
<1>8. /\ f5 \in Seq(Byte) /\ Len(f5) = 8
      /\ \A b \in Seq(Byte) : Holds(b, 1, f5)
             <=> Holds(b, 1, f4) /\ 8 <= Len(b) /\ Num(b, 8, 1) = v5
  <2>1. Fits(v5, 1) /\ Adds(7, 1, 8, 8)
    BY <1>2, FieldAdds, Zenon
  <2>2. QED
    BY <1>7, <2>1, Zenon DEF Adds
<1> HIDE DEF f5
<1>9. /\ f6 \in Seq(Byte) /\ Len(f6) = 9
      /\ \A b \in Seq(Byte) : Holds(b, 1, f6)
             <=> Holds(b, 1, f5) /\ 9 <= Len(b) /\ Num(b, 9, 1) = v6
  <2>1. Fits(v6, 1) /\ Adds(8, 1, 9, 9)
    BY <1>2, FieldAdds, Zenon
  <2>2. QED
    BY <1>8, <2>1, Zenon DEF Adds
<1> HIDE DEF f6
<1>10. /\ f7 \in Seq(Byte) /\ Len(f7) = 10
       /\ \A b \in Seq(Byte) : Holds(b, 1, f7)
              <=> Holds(b, 1, f6) /\ 10 <= Len(b) /\ Num(b, 10, 1) = v7
  <2>1. Fits(v7, 1) /\ Adds(9, 1, 10, 10)
    BY <1>2, FieldAdds, Zenon
  <2>2. QED
    BY <1>9, <2>1, Zenon DEF Adds
<1> HIDE DEF f7
<1>11. /\ f8 \in Seq(Byte) /\ Len(f8) = 12
       /\ \A b \in Seq(Byte) : Holds(b, 1, f8)
              <=> Holds(b, 1, f7) /\ 12 <= Len(b) /\ Num(b, 11, 2) = v8
  <2>1. Fits(v8, 2) /\ Adds(10, 2, 12, 11)
    BY <1>2, FieldAdds, Zenon
  <2>2. QED
    BY <1>10, <2>1, Zenon DEF Adds
<1> HIDE DEF f8
<1>12. /\ f9 \in Seq(Byte) /\ Len(f9) = 13
       /\ \A b \in Seq(Byte) : Holds(b, 1, f9)
              <=> Holds(b, 1, f8) /\ 13 <= Len(b) /\ Num(b, 13, 1) = v9
  <2>1. Fits(v9, 1) /\ Adds(12, 1, 13, 13)
    BY <1>2, FieldAdds, Zenon
  <2>2. QED
    BY <1>11, <2>1, Zenon DEF Adds
<1> HIDE DEF f9
<1>13. ASSUME NEW b \in Seq(Byte), 13 <= Len(b)
       PROVE  /\ 1 <= Len(b) /\ 2 <= Len(b) /\ 6 <= Len(b) /\ 7 <= Len(b) /\ 8 <= Len(b)
              /\ 9 <= Len(b) /\ 10 <= Len(b) /\ 12 <= Len(b)
  <2>1. PICK n \in Nat : n = Len(b)
    OBVIOUS
  <2>2. QED
    BY <1>13, <2>1, SMT
<1>14. \A b, at : Num(b, at, 1) = b[at]
  BY DEF Num
<1>15. ASSUME NEW b \in Seq(Byte) PROVE Holds(b, 1, f9) <=> FieldsRead(b, s)
  <2>1. CASE 13 <= Len(b)
    <3>1. Holds(b, 1, f1) <=> b[1] = v1
      BY <1>4, <1>13, <1>14, <2>1, Zenon
    <3>2. Holds(b, 1, f2) <=> Holds(b, 1, f1) /\ b[2] = v2
      BY <1>5, <1>13, <1>14, <2>1, Zenon
    <3>3. Holds(b, 1, f3) <=> Holds(b, 1, f2) /\ Num(b, 3, 4) = v3
      BY <1>6, <1>13, <1>14, <2>1, Zenon
    <3>4. Holds(b, 1, f4) <=> Holds(b, 1, f3) /\ b[7] = v4
      BY <1>7, <1>13, <1>14, <2>1, Zenon
    <3>5. Holds(b, 1, f5) <=> Holds(b, 1, f4) /\ b[8] = v5
      BY <1>8, <1>13, <1>14, <2>1, Zenon
    <3>6. Holds(b, 1, f6) <=> Holds(b, 1, f5) /\ b[9] = v6
      BY <1>9, <1>13, <1>14, <2>1, Zenon
    <3>7. Holds(b, 1, f7) <=> Holds(b, 1, f6) /\ b[10] = v7
      BY <1>10, <1>13, <1>14, <2>1, Zenon
    <3>8. Holds(b, 1, f8) <=> Holds(b, 1, f7) /\ Num(b, 11, 2) = v8
      BY <1>11, <1>13, <1>14, <2>1, Zenon
    <3>9. Holds(b, 1, f9) <=> Holds(b, 1, f8) /\ b[13] = v9
      BY <1>12, <1>13, <1>14, <2>1, Zenon
    <3>10. QED
      BY <1>3, <2>1, <3>1, <3>2, <3>3, <3>4, <3>5, <3>6, <3>7, <3>8, <3>9, Zenon
  <2>2. CASE ~(13 <= Len(b))
    BY <1>3, <1>12, <2>2, Zenon
  <2>3. QED
    BY <2>1, <2>2
<1>16. QED
  BY <1>1, <1>12, <1>15, Zenon

\* A payload is that of the settings when each field and the result are read.
LEMMA PayloadIs ==
    ASSUME NEW s, SettingFits(s), NEW e, e = EncodeResult(s.result), e \in Seq(Byte)
    PROVE  /\ EncodeSnapshotPayload(s) \in Seq(Byte)
           /\ Len(EncodeSnapshotPayload(s)) = 13 + Len(e)
           /\ \A p \in Seq(Byte) : p = EncodeSnapshotPayload(s)
                  <=> FieldsRead(p, s) /\ Holds(p, 14, e) /\ Len(p) = 13 + Len(e)
<1>1. PICK f \in Seq(Byte) : f = FieldBytes(s) /\ Len(f) = 13
  BY FieldsAre, Zenon
<1>2. EncodeSnapshotPayload(s) = f \o e
  BY <1>1, Zenon DEF EncodeSnapshotPayload, FieldBytes
<1>3. f \o e \in Seq(Byte) /\ Len(f \o e) = 13 + Len(e)
  <2>1. f \o e \in Seq(Byte) /\ Len(f \o e) = Len(f) + Len(e)
    BY Joined, Zenon
  <2>2. QED
    BY <1>1, <2>1, Zenon
<1>4. ASSUME NEW p \in Seq(Byte)
      PROVE  p = f \o e <=> FieldsRead(p, s) /\ Holds(p, 14, e) /\ Len(p) = 13 + Len(e)
  <2>1. p = f \o e <=> Len(p) = 13 + Len(e) /\ Holds(p, 1, f \o e)
    BY <1>3, Whole, Zenon
  <2>2. 1 \in Nat /\ 1 >= 1 /\ 1 + Len(f) = 14
    BY <1>1, SMT
  <2>3. Holds(p, 1, f \o e) <=> Holds(p, 1, f) /\ Holds(p, 14, e)
    <3>1. Holds(p, 1, f \o e) <=> Holds(p, 1, f) /\ Holds(p, 1 + Len(f), e)
      BY <2>2, Cut, Zenon
    <3>2. QED
      BY <2>2, <3>1, Zenon
  <2>4. Holds(p, 1, f) <=> FieldsRead(p, s)
    BY <1>1, FieldsAre, Zenon
  <2>5. QED
    BY <2>1, <2>3, <2>4, Zenon
<1>5. QED
  BY <1>2, <1>3, <1>4, Zenon

\* The values of the two programs are the same.
LEMMA WireValues ==
    /\ WireValue.flag = {0, 1} /\ WireValue.visibilityMode = {1, 2}
    /\ WireValue.alignment = {1, 2, 3} /\ WireValue.font = {1, 2}
    /\ WireValue.backgroundMode = {1, 2} /\ WireValue.hudSizeOffset = {-2, -1, 0, 1, 2}
    /\ WireValue.opacityPercent = {50, 55, 60, 65, 70, 75, 80, 85, 90, 95, 100}
    /\ WireValue.intelVrrStatus = 1..9
BY DEF WireValue

LEMMA ValidValues ==
    /\ DOMAIN IsValid = {"startWithWindows", "hudEnabled", "hudSizeOffset", "hudFont",
                         "visibilityMode", "alignment", "backgroundMode",
                         "backgroundOpacityPercent", "intelVrrRangeFixEnabled"}
    /\ IsValid.startWithWindows = WireValue.flag /\ IsValid.hudEnabled = WireValue.flag
    /\ IsValid.hudSizeOffset = WireValue.hudSizeOffset /\ IsValid.hudFont = WireValue.font
    /\ IsValid.visibilityMode = WireValue.visibilityMode
    /\ IsValid.alignment = WireValue.alignment
    /\ IsValid.backgroundMode = WireValue.backgroundMode
    /\ IsValid.backgroundOpacityPercent = WireValue.opacityPercent
    /\ IsValid.intelVrrRangeFixEnabled = WireValue.flag
<1>1. {5 * k : k \in 10..20} = {50, 55, 60, 65, 70, 75, 80, 85, 90, 95, 100}
  <2>1. ASSUME NEW k \in 10..20
        PROVE  5 * k \in {50, 55, 60, 65, 70, 75, 80, 85, 90, 95, 100}
    BY SMT
  <2>2. /\ 50 = 5 * 10 /\ 55 = 5 * 11 /\ 60 = 5 * 12 /\ 65 = 5 * 13 /\ 70 = 5 * 14 /\ 75 = 5 * 15
        /\ 80 = 5 * 16 /\ 85 = 5 * 17 /\ 90 = 5 * 18 /\ 95 = 5 * 19 /\ 100 = 5 * 20
        /\ \A j \in {10, 11, 12, 13, 14, 15, 16, 17, 18, 19, 20} : j \in 10..20
    BY SMT
  <2>3. ASSUME NEW v \in {50, 55, 60, 65, 70, 75, 80, 85, 90, 95, 100}
        PROVE  v \in {5 * k : k \in 10..20}
    <3>1. \E j \in {10, 11, 12, 13, 14, 15, 16, 17, 18, 19, 20} : v = 5 * j
      BY <2>2
    <3>2. QED
      BY <2>2, <3>1, Zenon
  <2>4. QED
    BY <2>1, <2>3, Zenon
<1>2. -2..2 = {-2, -1, 0, 1, 2} /\ 1..2 = {1, 2} /\ 1..3 = {1, 2, 3}
  BY SMT
<1> DEFINE steps == {5 * k : k \in 10..20}
<1>3. IsValid = [startWithWindows |-> Bool, hudEnabled |-> Bool, hudSizeOffset |-> -2..2,
                 hudFont |-> 1..2, visibilityMode |-> 1..2, alignment |-> 1..3,
                 backgroundMode |-> 1..2, backgroundOpacityPercent |-> steps,
                 intelVrrRangeFixEnabled |-> Bool]
  BY Zenon DEF IsValid
<1> HIDE DEF steps
<1>4. /\ DOMAIN IsValid = {"startWithWindows", "hudEnabled", "hudSizeOffset", "hudFont",
                           "visibilityMode", "alignment", "backgroundMode",
                           "backgroundOpacityPercent", "intelVrrRangeFixEnabled"}
      /\ IsValid.startWithWindows = Bool /\ IsValid.hudEnabled = Bool
      /\ IsValid.hudSizeOffset = -2..2 /\ IsValid.hudFont = 1..2
      /\ IsValid.visibilityMode = 1..2 /\ IsValid.alignment = 1..3
      /\ IsValid.backgroundMode = 1..2 /\ IsValid.backgroundOpacityPercent = steps
      /\ IsValid.intelVrrRangeFixEnabled = Bool
  BY <1>3
<1>5. QED
  BY <1>1, <1>2, <1>4, WireValues, Zenon DEF Bool, steps

LEMMA ValidFits ==
    ASSUME NEW s, FieldsAreValid(s)
    PROVE  SettingFits(s)
<1>1. /\ \A v \in {0, 1} : Fits(v, 1)
      /\ \A v \in {1, 2} : Fits(v, 1)
      /\ \A v \in {1, 2, 3} : Fits(v, 1)
      /\ \A v \in {-2, -1, 0, 1, 2} : Fits(v, 4)
      /\ \A v \in {50, 55, 60, 65, 70, 75, 80, 85, 90, 95, 100} : Fits(v, 2)
  BY SMT DEF Fits
<1>2. /\ \A v \in WireValue.flag : Fits(v, 1)
      /\ \A v \in WireValue.visibilityMode : Fits(v, 1)
      /\ \A v \in WireValue.font : Fits(v, 1)
      /\ \A v \in WireValue.backgroundMode : Fits(v, 1)
      /\ \A v \in WireValue.alignment : Fits(v, 1)
      /\ \A v \in WireValue.hudSizeOffset : Fits(v, 4)
      /\ \A v \in WireValue.opacityPercent : Fits(v, 2)
  BY <1>1, WireValues
<1>3. QED
  BY <1>2, Zenon DEF FieldsAreValid, SettingFits

\* The settings as they are built from what is read.
Built(s) ==
    s = [startWithWindows |-> s.startWithWindows, hudEnabled |-> s.hudEnabled,
         hudSizeOffset |-> s.hudSizeOffset, hudFont |-> s.hudFont,
         visibilityMode |-> s.visibilityMode, alignment |-> s.alignment,
         backgroundMode |-> s.backgroundMode,
         backgroundOpacityPercent |-> s.backgroundOpacityPercent,
         intelVrrRangeFixEnabled |-> s.intelVrrRangeFixEnabled, result |-> s.result]

WithResult(p, r) == [FieldsOf(p) EXCEPT !.result = r]

AsRead(f, p, r) ==
    /\ f.startWithWindows = p[1] /\ f.hudEnabled = p[2] /\ f.hudSizeOffset = Num(p, 3, 4)
    /\ f.hudFont = p[7] /\ f.visibilityMode = p[8] /\ f.alignment = p[9]
    /\ f.backgroundMode = p[10] /\ f.backgroundOpacityPercent = Num(p, 11, 2)
    /\ f.intelVrrRangeFixEnabled = p[13] /\ f.result = r

LEMMA FieldsOfIs ==
    ASSUME NEW p, NEW r
    PROVE  /\ AsRead(WithResult(p, r), p, r) /\ Built(WithResult(p, r))
           /\ FieldsAreValid(WithResult(p, r)) <=> FieldsAreValid(FieldsOf(p))
<1> DEFINE f == WithResult(p, r)
<1> DEFINE first == FieldsOf(p)
<1> DEFINE a == Num(p, 3, 4)
           c == Num(p, 11, 2)
<1>1. first = [startWithWindows |-> p[1], hudEnabled |-> p[2], hudSizeOffset |-> a,
           hudFont |-> p[7], visibilityMode |-> p[8], alignment |-> p[9],
           backgroundMode |-> p[10], backgroundOpacityPercent |-> c,
           intelVrrRangeFixEnabled |-> p[13], result |-> NoResult]
  BY Zenon DEF FieldsOf
<1>2. f = [first EXCEPT !.result = r]
  BY Zenon DEF WithResult
<1> HIDE DEF f, first, a, c
<1>3. f = [startWithWindows |-> p[1], hudEnabled |-> p[2], hudSizeOffset |-> a,
           hudFont |-> p[7], visibilityMode |-> p[8], alignment |-> p[9],
           backgroundMode |-> p[10], backgroundOpacityPercent |-> c,
           intelVrrRangeFixEnabled |-> p[13], result |-> r]
  BY <1>1, <1>2
<1>4. /\ f.startWithWindows = p[1] /\ f.hudEnabled = p[2] /\ f.hudSizeOffset = a
      /\ f.hudFont = p[7] /\ f.visibilityMode = p[8] /\ f.alignment = p[9]
      /\ f.backgroundMode = p[10] /\ f.backgroundOpacityPercent = c
      /\ f.intelVrrRangeFixEnabled = p[13] /\ f.result = r
  BY <1>3
<1>5. /\ first.startWithWindows = p[1] /\ first.hudEnabled = p[2] /\ first.hudSizeOffset = a
      /\ first.hudFont = p[7] /\ first.visibilityMode = p[8] /\ first.alignment = p[9]
      /\ first.backgroundMode = p[10] /\ first.backgroundOpacityPercent = c
      /\ first.intelVrrRangeFixEnabled = p[13]
  BY <1>1
<1>6. Built(f)
  BY <1>3, <1>4, Zenon DEF Built
<1>7. FieldsAreValid(f) <=> FieldsAreValid(first)
  BY <1>4, <1>5, Zenon DEF FieldsAreValid
<1>8. QED
  BY <1>4, <1>6, <1>7, Zenon DEF AsRead, a, c, f, first

IsResult(r) ==
    \/ r = NoResult
    \/ \E x, t1, t2, t3, t4, t5 : ResultOf(r, x, t1, t2, t3, t4, t5)

LEMMA ResultBytes ==
    ASSUME NEW r, IsResult(r)
    PROVE  EncodeResult(r) \in Seq(Byte)
<1>1. <<>> \in Seq(Byte)
  OBVIOUS
<1>2. CASE r = NoResult
  BY <1>1, <1>2, NoResultRead, Zenon
<1>3. CASE r # NoResult
  <2>1. PICK x, t1, t2, t3, t4, t5 : ResultOf(r, x, t1, t2, t3, t4, t5)
    BY <1>3, Zenon DEF IsResult
  <2>2. QED
    BY <1>1, <2>1, ResultRead, Zenon
<1>4. QED
  BY <1>2, <1>3, Zenon

LEMMA SnapshotFields ==
    ASSUME NEW p, NEW r
    PROVE  /\ Snapshot(p, r).outcome = "Ok" /\ Snapshot(p, r).status = 0
           /\ Snapshot(p, r).snapshot = <<WithResult(p, r)>>
           /\ Malformed.outcome = "Malformed" /\ Malformed.outcome # "Ok"
<1> DEFINE f == WithResult(p, r)
<1>1. Malformed = [outcome |-> "Malformed", status |-> 1, info |-> NoInfo, snapshot |-> <<>>]
  BY Zenon DEF Malformed
<1>2. Snapshot(p, r) = [Malformed EXCEPT !.outcome = "Ok", !.status = 0, !.snapshot = <<f>>]
  BY Zenon DEF Snapshot, WithResult
<1> HIDE DEF f
<1>3. Snapshot(p, r) = [outcome |-> "Ok", status |-> 0, info |-> NoInfo, snapshot |-> <<f>>]
  BY <1>1, <1>2
<1>4. Snapshot(p, r).outcome = "Ok" /\ Snapshot(p, r).status = 0 /\ Snapshot(p, r).snapshot = <<f>>
  BY <1>3
<1>5. Malformed.outcome = "Malformed" /\ "Malformed" # "Ok"
  BY <1>1
<1>6. QED
  BY <1>4, <1>5, Zenon DEF f

\* Settings that are valid are read as they were written.
LEMMA SnapshotDecoded ==
    ASSUME NEW s, Built(s), FieldsAreValid(s), IsResult(s.result),
           NEW p, p = EncodeSnapshotPayload(s)
    PROVE  /\ p \in Seq(Byte)
           /\ DecodeSnapshot(p).outcome = "Ok" /\ DecodeSnapshot(p).status = 0
           /\ DecodeSnapshot(p).snapshot = <<s>>
<1> DEFINE e == EncodeResult(s.result)
           f == WithResult(p, s.result)
<1>1. p \in Seq(Byte) /\ FieldsRead(p, s) /\ Holds(p, 14, e) /\ Len(p) = 13 + Len(e)
  BY ValidFits, ResultBytes, PayloadIs, Zenon
<1>2. f = s /\ FieldsAreValid(FieldsOf(p))
  <2>1. AsRead(f, p, s.result) /\ Built(f) /\ (FieldsAreValid(f) <=> FieldsAreValid(FieldsOf(p)))
    BY FieldsOfIs, Zenon
  <2> HIDE DEF f
  <2>2. /\ f.startWithWindows = s.startWithWindows /\ f.hudEnabled = s.hudEnabled
        /\ f.hudSizeOffset = s.hudSizeOffset /\ f.hudFont = s.hudFont
        /\ f.visibilityMode = s.visibilityMode /\ f.alignment = s.alignment
        /\ f.backgroundMode = s.backgroundMode
        /\ f.backgroundOpacityPercent = s.backgroundOpacityPercent
        /\ f.intelVrrRangeFixEnabled = s.intelVrrRangeFixEnabled /\ f.result = s.result
    BY <1>1, <2>1, Zenon DEF AsRead, FieldsRead
  <2>3. f = s
    BY <2>1, <2>2, Zenon DEF Built
  <2>4. QED
    BY <2>1, <2>3, Zenon
<1>3. DecodeSnapshot(p) = Snapshot(p, s.result)
  <2>1. CASE s.result = NoResult
    <3>1. Len(e) = 1 /\ 14 <= Len(p) /\ p[14] = 0
      BY <1>1, <2>1, NoResultRead, Zenon
    <3>2. Len(p) = 14 /\ ~(Len(p) < 14)
      BY <1>1, <3>1
    <3>3. QED
      BY <1>2, <2>1, <3>1, <3>2, Zenon DEF DecodeSnapshot
  <2>2. CASE s.result # NoResult
    <3>1. PICK x, t1, t2, t3, t4, t5 : ResultOf(s.result, x, t1, t2, t3, t4, t5)
      BY <2>2, Zenon DEF IsResult
    <3>2. /\ e \in Seq(Byte) /\ 15 <= Len(p) /\ p[14] = 1 /\ p[15] = s.result.status
          /\ ReadTexts(p, 16).ok /\ ReadTexts(p, 16).texts = s.result.texts
          /\ ReadTexts(p, 16).at = 14 + Len(e) /\ p[15] \in 1..9
          /\ s.result = [status |-> x, texts |-> <<t1, t2, t3, t4, t5>>]
      <4>1. ResultIn(p, s.result) /\ ReadTexts(p, 16).at = 14 + Len(e) /\ e \in Seq(Byte)
            /\ s.result.status = x
        BY <1>1, <3>1, ResultRead, Zenon
      <4>2. x \in 1..9 /\ s.result = [status |-> x, texts |-> <<t1, t2, t3, t4, t5>>]
        BY <3>1, Zenon DEF ResultOf
      <4>3. QED
        BY <4>1, <4>2, Zenon DEF ResultIn
    <3>3. PICK n \in Nat, l \in Nat : n = Len(p) /\ l = Len(e)
      BY <1>1, <3>2
    <3>4. ~(Len(p) < 14) /\ Len(p) >= 15 /\ p[14] # 0 /\ 14 + Len(e) = Len(p) + 1
      <4>1. n = 13 + l /\ 15 <= n
        BY <1>1, <3>2, <3>3, Zenon
      <4>2. ~(n < 14) /\ n >= 15 /\ 1 # 0 /\ 14 + l = n + 1
        BY <4>1, SMT
      <4>3. QED
        BY <3>2, <3>3, <4>2, Zenon
    <3>5. HasResult(p)
      BY <3>2, <3>4, WireValues, Zenon DEF HasResult
    <3>6. s.result = [status |-> p[15], texts |-> ReadTexts(p, 16).texts]
      <4>1. s.result.texts = <<t1, t2, t3, t4, t5>> /\ s.result.status = x
        BY <3>2
      <4>2. QED
        BY <3>2, <4>1, Zenon
    <3>7. QED
      BY <1>2, <3>4, <3>5, <3>6, Zenon DEF DecodeSnapshot
  <2>3. QED
    BY <2>1, <2>2, Zenon
<1>4. QED
  <2>1. /\ Snapshot(p, s.result).outcome = "Ok" /\ Snapshot(p, s.result).status = 0
        /\ Snapshot(p, s.result).snapshot = <<f>>
    BY SnapshotFields, Zenon
  <2>2. QED
    BY <1>1, <1>2, <1>3, <2>1, Zenon

\* What is read as a snapshot is, byte for byte, the payload of what was read.
LEMMA SnapshotExact ==
    ASSUME NEW p \in Seq(Byte), DecodeSnapshot(p).outcome # "Malformed"
    PROVE  /\ DecodeSnapshot(p).status = 0
           /\ \E s : DecodeSnapshot(p).snapshot = <<s>> /\ p = EncodeSnapshotPayload(s)
<1>1. ASSUME NEW r, DecodeSnapshot(p) = Snapshot(p, r), FieldsAreValid(FieldsOf(p)), 14 <= Len(p),
             EncodeResult(r) \in Seq(Byte), Holds(p, 14, EncodeResult(r)),
             Len(p) = 13 + Len(EncodeResult(r))
      PROVE  /\ DecodeSnapshot(p).status = 0
             /\ \E s : DecodeSnapshot(p).snapshot = <<s>> /\ p = EncodeSnapshotPayload(s)
  <2> DEFINE f == WithResult(p, r)
  <2>1. AsRead(f, p, r) /\ FieldsAreValid(f)
    BY <1>1, FieldsOfIs, Zenon
  <2>2. DecodeSnapshot(p).status = 0 /\ DecodeSnapshot(p).snapshot = <<f>>
    BY <1>1, SnapshotFields, Zenon
  <2> HIDE DEF f
  <2>3. 13 <= Len(p)
    <3>1. PICK n \in Nat : n = Len(p)
      OBVIOUS
    <3>2. QED
      BY <1>1, <3>1, SMT
  <2>4. FieldsRead(p, f)
    BY <2>1, <2>3, Zenon DEF AsRead, FieldsRead
  <2>5. p = EncodeSnapshotPayload(f)
    BY <1>1, <2>1, <2>4, ValidFits, PayloadIs, Zenon DEF AsRead
  <2>6. QED
    BY <2>2, <2>5, Zenon
<1>2. PICK n \in Nat : n = Len(p)
  OBVIOUS
<1>3. ~(Len(p) < 14) /\ FieldsAreValid(FieldsOf(p)) /\ 14 <= Len(p)
  <2>1. ~(Len(p) < 14) /\ FieldsAreValid(FieldsOf(p))
    BY SnapshotFields, Zenon DEF DecodeSnapshot
  <2>2. ~(n < 14) => 14 <= n
    BY SMT
  <2>3. QED
    BY <1>2, <2>1, <2>2, Zenon
<1>4. CASE p[14] = 0 /\ Len(p) = 14
  <2>1. DecodeSnapshot(p) = Snapshot(p, NoResult)
    BY <1>3, <1>4, Zenon DEF DecodeSnapshot
  <2>2. /\ EncodeResult(NoResult) \in Seq(Byte) /\ Len(EncodeResult(NoResult)) = 1
        /\ Holds(p, 14, EncodeResult(NoResult))
    BY <1>3, <1>4, NoResultRead, Zenon
  <2>3. Len(p) = 13 + Len(EncodeResult(NoResult))
    BY <1>4, <2>2
  <2>4. QED
    BY <1>1, <1>3, <2>1, <2>2, <2>3, Zenon
<1>5. CASE ~(p[14] = 0 /\ Len(p) = 14)
  <2> DEFINE r == [status |-> p[15], texts |-> ReadTexts(p, 16).texts]
  <2>1. HasResult(p) /\ DecodeSnapshot(p) = Snapshot(p, r)
    <3>1. CASE HasResult(p)
      BY <1>3, <1>5, <3>1, Zenon DEF DecodeSnapshot
    <3>2. CASE ~HasResult(p)
      <4>1. DecodeSnapshot(p) = Malformed
        BY <1>3, <1>5, <3>2, Zenon DEF DecodeSnapshot
      <4>2. QED
        BY <4>1, SnapshotFields, Zenon
    <3>3. QED
      BY <3>1, <3>2, Zenon
  <2>2. /\ Len(p) >= 15 /\ p[14] = 1 /\ p[15] \in 1..9
        /\ ReadTexts(p, 16).ok /\ ReadTexts(p, 16).at = Len(p) + 1
    BY <2>1, WireValues, Zenon DEF HasResult
  <2>3. 16 \in Nat /\ 16 >= 1 /\ 15 <= Len(p)
    <3>1. n >= 15 => 15 <= n
      BY SMT
    <3>2. 16 \in Nat /\ 16 >= 1
      BY SMT
    <3>3. QED
      BY <1>2, <2>2, <3>1, <3>2, Zenon
  <2>4. PICK t1, t2, t3, t4, t5 :
            /\ IsText(t1) /\ IsText(t2) /\ IsText(t3) /\ IsText(t4) /\ IsText(t5)
            /\ ReadTexts(p, 16).texts = <<t1, t2, t3, t4, t5>>
    BY <2>2, <2>3, TextsAreTexts, Zenon
  <2>5. r = [status |-> p[15], texts |-> <<t1, t2, t3, t4, t5>>] /\ r.texts = ReadTexts(p, 16).texts /\ r.status = p[15]
    BY <2>4
  <2> HIDE DEF r
  <2>6. /\ EncodeResult(r) \in Seq(Byte) /\ Holds(p, 14, EncodeResult(r))
        /\ ReadTexts(p, 16).at = 14 + Len(EncodeResult(r))
    <3>1. ResultOf(r, p[15], t1, t2, t3, t4, t5)
      BY <2>2, <2>4, <2>5, Zenon DEF ResultOf
    <3>2. ResultIn(p, r)
      BY <2>2, <2>3, <2>5, Zenon DEF ResultIn
    <3>3. QED
      BY <3>1, <3>2, ResultRead, Zenon
  <2>7. Len(p) = 13 + Len(EncodeResult(r))
    <3>1. PICK l \in Nat : l = Len(EncodeResult(r))
      BY <2>6
    <3>2. n + 1 = 14 + l
      BY <1>2, <2>2, <2>6, <3>1, Zenon
    <3>3. n = 13 + l
      BY <3>2, SMT
    <3>4. QED
      BY <1>2, <3>1, <3>3, Zenon
  <2>8. QED
    BY <1>1, <1>3, <2>1, <2>6, <2>7, Zenon
<1>6. QED
  BY <1>4, <1>5, Zenon

-----------------------------------------------------------------------------
(* The information about the runtime.                                      *)

InfoRead(p, info, at) ==
    /\ ReadText(p, 1).ok /\ ReadText(p, 1).text = info.version
    /\ Num(p, at, 2) = info.minimum /\ Num(p, at + 2, 2) = info.maximum
    /\ p[at + 4] = info.launchMode /\ p[at + 5] = info.runtimeState
    /\ Len(p) = at + 5

LEMMA InfoIs ==
    ASSUME NEW info, IsText(info.version), Fits(info.minimum, 2), Fits(info.maximum, 2),
           info.launchMode \in Byte, info.runtimeState \in Byte
    PROVE  /\ EncodeRuntimeInfoPayload(info) \in Seq(Byte)
           /\ Len(EncodeRuntimeInfoPayload(info)) = 8 + Len(info.version)
           /\ \A p \in Seq(Byte) : p = EncodeRuntimeInfoPayload(info)
                                       <=> InfoRead(p, info, ReadText(p, 1).at)
<1> DEFINE v == info.version
           lo == info.minimum
           hi == info.maximum
           i1 == Text(v)
           i2 == i1 \o LE(lo, 2)
           i3 == i2 \o LE(hi, 2)
           i4 == <<info.launchMode, info.runtimeState>>
<1>1. EncodeRuntimeInfoPayload(info) = i3 \o i4
  BY Zenon DEF EncodeRuntimeInfoPayload
<1>2. v \in Seq(Byte) /\ IsValidWireString(v)
  BY Zenon DEF IsText
<1>3. PICK l \in Nat, n \in Nat : l = Len(v) /\ n = 2 + l /\ i1 \in Seq(Byte) /\ Len(i1) = n
  <2>1. Len(v) \in Nat /\ i1 \in Seq(Byte) /\ Len(i1) = 2 + Len(v)
    BY <1>2, TextBytes, Zenon
  <2>2. 2 + Len(v) \in Nat
    BY <2>1, SMT
  <2>3. QED
    BY <2>1, <2>2, Zenon
<1>4. i4 \in Seq(Byte) /\ Len(i4) = 2 /\ i4[1] = info.launchMode /\ i4[2] = info.runtimeState
  BY SmallBytes, Zenon
<1> HIDE DEF v, lo, hi, i1, i4
<1>5. PICK n2, n4, n6, k1, k3, k5, k6 :
          /\ n2 = n + 2 /\ n4 = n2 + 2 /\ n6 = n4 + 2 /\ k1 = n + 1 /\ k3 = n2 + 1
          /\ k5 = n4 + 1 /\ k6 = k5 + 1
  OBVIOUS
<1>6. /\ n2 \in Nat /\ n4 \in Nat /\ n6 \in Nat /\ k1 \in Nat /\ k3 \in Nat /\ k5 \in Nat
      /\ k5 >= 1 /\ k1 = 1 + n /\ k3 = k1 + 2 /\ k5 = k1 + 4 /\ k6 = k1 + 5 /\ n6 = k6
      /\ n6 = 8 + l /\ n2 <= n6 /\ n4 <= n6 /\ k5 = 1 + n4
  BY <1>3, <1>5, SMT
<1>7. Adds(n, 2, n2, k1) /\ Adds(n2, 2, n4, k3) /\ Fits(lo, 2) /\ Fits(hi, 2)
  <2>1. 2 \in Widths
    BY SMT DEF Widths
  <2>2. Adds(n, 2, n2, k1) /\ Adds(n2, 2, n4, k3)
    BY <1>5, <1>6, <2>1, AddNumber, Zenon
  <2>3. QED
    BY <2>2, Zenon DEF lo, hi
<1>8. /\ i2 \in Seq(Byte) /\ Len(i2) = n2
      /\ \A p \in Seq(Byte) : Holds(p, 1, i2)
             <=> Holds(p, 1, i1) /\ n2 <= Len(p) /\ Num(p, k1, 2) = lo
  BY <1>3, <1>7, Zenon DEF Adds
<1> HIDE DEF i2
<1>9. /\ i3 \in Seq(Byte) /\ Len(i3) = n4
      /\ \A p \in Seq(Byte) : Holds(p, 1, i3)
             <=> Holds(p, 1, i2) /\ n4 <= Len(p) /\ Num(p, k3, 2) = hi
  BY <1>7, <1>8, Zenon DEF Adds
<1> HIDE DEF i3
<1>10. i3 \o i4 \in Seq(Byte) /\ Len(i3 \o i4) = n6
  <2>1. i3 \o i4 \in Seq(Byte) /\ Len(i3 \o i4) = Len(i3) + Len(i4)
    BY <1>4, <1>9, Joined, Zenon
  <2>2. QED
    BY <1>4, <1>5, <1>9, <2>1, Zenon
<1>11. ASSUME NEW p \in Seq(Byte)
       PROVE  p = i3 \o i4 <=> InfoRead(p, info, ReadText(p, 1).at)
  <2> DEFINE at == ReadText(p, 1).at
             r == ReadText(p, 1)
  <2>1. 1 \in Nat /\ 1 >= 1
    BY SMT
  <2>2. p = i3 \o i4 <=> Len(p) = n6 /\ Holds(p, 1, i3 \o i4)
    BY <1>10, Whole, Zenon
  <2>3. Holds(p, 1, i3 \o i4) <=> Holds(p, 1, i3) /\ Holds(p, k5, i4)
    <3>1. Holds(p, 1, i3 \o i4) <=> Holds(p, 1, i3) /\ Holds(p, 1 + Len(i3), i4)
      BY <1>4, <1>9, <2>1, Cut, Zenon
    <3>2. QED
      BY <1>6, <1>9, <3>1, Zenon
  <2>4. Holds(p, k5, i4) <=> k6 <= Len(p) /\ p[k5] = info.launchMode /\ p[k6] = info.runtimeState
    <3>1. Holds(p, k5, i4) <=> k5 + 1 <= Len(p) /\ p[k5] = i4[1] /\ p[k5 + 1] = i4[2]
      BY <1>4, <1>6, HoldsTwo
    <3>2. QED
      BY <1>4, <1>5, <3>1, Zenon
  <2>5. /\ Holds(p, 1, i1) <=> r.ok /\ r.text = v
        /\ r.ok /\ r.text = v => r.at = k1
    <3>1. /\ Holds(p, 1, Text(v)) <=> r.ok /\ r.text = v
          /\ r.ok /\ r.text = v => r.at = 1 + Len(Text(v))
      BY <1>2, <2>1, TextIs
    <3>2. QED
      BY <1>3, <1>6, <3>1, Zenon DEF i1
  <2>6. Len(p) = n6 => n2 <= Len(p) /\ n4 <= Len(p) /\ k6 <= Len(p)
    <3>1. n6 <= n6
      BY <1>6, SMT
    <3>2. QED
      BY <1>6, <3>1, Zenon
  <2>7. p = i3 \o i4 <=> /\ r.ok /\ r.text = v /\ Num(p, k1, 2) = lo /\ Num(p, k3, 2) = hi
                         /\ p[k5] = info.launchMode /\ p[k6] = info.runtimeState /\ Len(p) = n6
    BY <1>8, <1>9, <2>2, <2>3, <2>4, <2>5, <2>6, Zenon
  <2>8. r.at = k1 => (InfoRead(p, info, r.at) <=>
                         /\ r.ok /\ r.text = v /\ Num(p, k1, 2) = lo /\ Num(p, k3, 2) = hi
                         /\ p[k5] = info.launchMode /\ p[k6] = info.runtimeState /\ Len(p) = n6)
    BY <1>6, Zenon DEF InfoRead, v, lo, hi
  <2>9. InfoRead(p, info, r.at) => r.ok /\ r.text = v
    BY Zenon DEF InfoRead, v
  <2>10. QED
    BY <2>5, <2>7, <2>8, <2>9, Zenon
<1>12. QED
  BY <1>1, <1>3, <1>6, <1>10, <1>11, Zenon DEF v

LEMMA InfoFields ==
    ASSUME NEW p, NEW at
    PROVE  /\ InfoAt(p, at).version = ReadText(p, 1).text /\ InfoAt(p, at).minimum = Num(p, at, 2)
           /\ InfoAt(p, at).maximum = Num(p, at + 2, 2)
           /\ InfoAt(p, at).launchMode = p[at + 4] /\ InfoAt(p, at).runtimeState = p[at + 5]
BY DEF InfoAt

InfoDecoded(c, i) ==
    c.outcome = "Ok" /\ c.status = 0 /\ c.info = i /\ c.snapshot = <<>>

LEMMA InfoOutcome ==
    ASSUME NEW p
    PROVE  /\ IsInfo(p, ReadText(p, 1).at)
                  => InfoDecoded(DecodeRuntimeInfo(p), InfoAt(p, ReadText(p, 1).at))
           /\ DecodeRuntimeInfo(p).outcome # "Malformed" => IsInfo(p, ReadText(p, 1).at)
<1> DEFINE i == InfoAt(p, ReadText(p, 1).at)
<1>1. Malformed = [outcome |-> "Malformed", status |-> 1, info |-> NoInfo, snapshot |-> <<>>]
  BY Zenon DEF Malformed
<1>2. DecodeRuntimeInfo(p) = IF IsInfo(p, ReadText(p, 1).at)
                             THEN [Malformed EXCEPT !.outcome = "Ok", !.status = 0, !.info = i]
                             ELSE Malformed
  BY Zenon DEF DecodeRuntimeInfo
<1> HIDE DEF i
<1>3. InfoDecoded([Malformed EXCEPT !.outcome = "Ok", !.status = 0, !.info = i], i)
  BY <1>1 DEF InfoDecoded
<1>4. Malformed.outcome = "Malformed"
  BY <1>1
<1>5. QED
  BY <1>2, <1>3, <1>4, Zenon DEF i

\* What is read as information is, byte for byte, the payload of what was read.
LEMMA InfoExact ==
    ASSUME NEW p \in Seq(Byte), DecodeRuntimeInfo(p).outcome # "Malformed"
    PROVE  \E i : InfoDecoded(DecodeRuntimeInfo(p), i) /\ p = EncodeRuntimeInfoPayload(i)
<1> DEFINE r == ReadText(p, 1)
           i == InfoAt(p, r.at)
<1>1. IsInfo(p, r.at) /\ InfoDecoded(DecodeRuntimeInfo(p), i)
  BY InfoOutcome, Zenon
<1>2. r.ok /\ Len(p) = r.at + 5 /\ p[r.at + 4] \in {1, 2} /\ p[r.at + 5] \in {1, 2, 3}
  <2>1. WireValue.launchMode = {1, 2} /\ WireValue.runtimeState = {1, 2, 3}
    BY DEF WireValue
  <2>2. QED
    BY <1>1, <2>1, Zenon DEF IsInfo
<1>3. IsText(r.text) /\ r.at \in Nat /\ r.at >= 1
  <2>1. 1 \in Nat /\ 1 >= 1
    BY SMT
  <2>2. QED
    BY <1>2, <2>1, OneText, Zenon
<1>4. PICK a \in Nat, a2 \in Nat : a = r.at /\ a2 = a + 2 /\ a >= 1 /\ a2 >= 1
  <2>1. \A a \in Nat : a >= 1 => a + 2 \in Nat /\ a + 2 >= 1
    BY SMT
  <2>2. QED
    BY <1>3, <2>1, Zenon
<1>5. Fits(Num(p, a, 2), 2) /\ Fits(Num(p, a + 2, 2), 2)
  <2>1. a + 1 <= Len(p) /\ a2 + 1 <= Len(p)
    <3>1. PICK n \in Nat : n = Len(p)
      OBVIOUS
    <3>2. n = a + 5
      BY <1>2, <1>4, <3>1, Zenon
    <3>3. a + 1 <= n /\ a2 + 1 <= n
      BY <1>4, <3>2, SMT
    <3>4. QED
      BY <3>1, <3>3, Zenon
  <2>2. Fits(Num(p, a, 2), 2) /\ Fits(Num(p, a2, 2), 2)
    BY <1>4, <2>1, NumberFits, Zenon
  <2>3. QED
    BY <1>4, <2>2, Zenon
<1>6. p[a + 4] \in Byte /\ p[a + 5] \in Byte
  <2>1. \A x : x \in {1, 2} \/ x \in {1, 2, 3} => x \in Byte
    BY SMT DEF Byte
  <2>2. QED
    BY <1>2, <1>4, <2>1, Zenon
<1>7. /\ i.version = r.text /\ i.minimum = Num(p, a, 2) /\ i.maximum = Num(p, a + 2, 2)
      /\ i.launchMode = p[a + 4] /\ i.runtimeState = p[a + 5]
  <2>1. /\ i.version = r.text /\ i.minimum = Num(p, r.at, 2) /\ i.maximum = Num(p, r.at + 2, 2)
        /\ i.launchMode = p[r.at + 4] /\ i.runtimeState = p[r.at + 5]
    BY InfoFields
  <2> HIDE DEF i
  <2>2. QED
    BY <1>4, <2>1, Zenon
<1> HIDE DEF i
<1>8. p = EncodeRuntimeInfoPayload(i) <=> InfoRead(p, i, r.at)
  BY <1>3, <1>5, <1>6, <1>7, InfoIs, Zenon
<1>9. InfoRead(p, i, r.at)
  BY <1>2, <1>4, <1>7, Zenon DEF InfoRead
<1>10. QED
  BY <1>1, <1>8, <1>9, Zenon

LEMMA RuntimeInfoFields ==
    /\ RuntimeInfo.version = <<49>> /\ RuntimeInfo.minimum = 1 /\ RuntimeInfo.maximum = 1
    /\ RuntimeInfo.launchMode = 1 /\ RuntimeInfo.runtimeState = 2
    /\ RuntimeInfo = [version |-> <<49>>, minimum |-> 1, maximum |-> 1, launchMode |-> 1,
                      runtimeState |-> 2]
<1>1. NoInfo = [version |-> <<>>, minimum |-> 0, maximum |-> 0, launchMode |-> 0,
                runtimeState |-> 0]
  BY DEF NoInfo
<1>2. RuntimeInfo = [NoInfo EXCEPT !.version = <<49>>, !.minimum = 1, !.maximum = 1,
                                   !.launchMode = 1, !.runtimeState = 2]
  BY Zenon DEF RuntimeInfo, ProtocolVersion
<1>3. PICK v : v = <<49>>
  OBVIOUS
<1>4. RuntimeInfo = [version |-> v, minimum |-> 1, maximum |-> 1, launchMode |-> 1,
                     runtimeState |-> 2]
  BY <1>1, <1>2, <1>3
<1>5. /\ RuntimeInfo.version = v /\ RuntimeInfo.minimum = 1 /\ RuntimeInfo.maximum = 1
      /\ RuntimeInfo.launchMode = 1 /\ RuntimeInfo.runtimeState = 2
  BY <1>4
<1>6. QED
  BY <1>3, <1>4, <1>5, Zenon

LEMMA VersionIsText == IsText(<<49>>) /\ Len(<<49>>) = 1
<1>1. <<49>> \in Seq(Byte) /\ Len(<<49>>) = 1 /\ <<49>>[1] = 49
  BY SMT DEF Byte
<1>2. PICK t : t = <<49>> /\ t \in Seq(Byte) /\ Len(t) = 1 /\ t[1] = 49
  BY <1>1, Zenon
<1>3. \A i \in DOMAIN t : i = 1
  BY <1>2, SMT
<1>4. IsFirstByte(49) /\ Follow(49) = 0 /\ 49 # 0
  BY SMT DEF IsFirstByte, Follow
<1>5. IsCharacter(t, 1)
  <2>1. Follow(t[1]) = 0 /\ t[1] # 0
    BY <1>2, <1>4, Zenon
  <2>2. 0 # 4 /\ 0 # 1 /\ 0 # 2 /\ 0 # 3 /\ 1 + 0 <= 1
    BY SMT
  <2>3. \A k \in (1 + 1)..(1 + 0) : ~IsFirstByte(t[k])
    BY SMT
  <2>4. \A code : IsAllowed(code, 0)
    BY <2>2, SMT DEF IsAllowed
  <2>5. QED
    BY <1>2, <2>1, <2>2, <2>3, <2>4, Zenon DEF IsCharacter
<1>6. IsStrictUtf8(<<49>>)
  BY <1>2, <1>3, <1>4, <1>5, Zenon DEF IsStrictUtf8
<1>7. IsValidWireString(<<49>>)
  <2>1. 1 <= 4096
    BY SMT
  <2>2. QED
    BY <1>2, <1>6, <2>1 DEF IsValidWireString, MaxStringBytes
<1>8. QED
  BY <1>1, <1>7, Zenon DEF IsText

\* The information of the runtime is read as it was written.
LEMMA InfoUnderstood ==
    /\ EncodeRuntimeInfoPayload(RuntimeInfo) \in Seq(Byte)
    /\ Len(EncodeRuntimeInfoPayload(RuntimeInfo)) = 9
    /\ InfoDecoded(DecodeRuntimeInfo(EncodeRuntimeInfoPayload(RuntimeInfo)), RuntimeInfo)
<1> DEFINE p == EncodeRuntimeInfoPayload(RuntimeInfo)
           r == ReadText(p, 1)
           i == InfoAt(p, r.at)
<1>1. p \in Seq(Byte) /\ Len(p) = 8 + Len(RuntimeInfo.version) /\ InfoRead(p, RuntimeInfo, r.at)
  <2>1. Fits(1, 2) /\ 1 \in Byte /\ 2 \in Byte
    BY SMT DEF Fits, Byte
  <2>2. QED
    BY <2>1, RuntimeInfoFields, VersionIsText, InfoIs, Zenon
<1>2. Len(p) = 9
  BY <1>1, RuntimeInfoFields, VersionIsText
<1> HIDE DEF p
<1>3. /\ r.ok /\ r.text = <<49>> /\ Num(p, r.at, 2) = 1 /\ Num(p, r.at + 2, 2) = 1
      /\ p[r.at + 4] = 1 /\ p[r.at + 5] = 2 /\ Len(p) = r.at + 5
  BY <1>1, RuntimeInfoFields, Zenon DEF InfoRead
<1>4. i = RuntimeInfo
  BY <1>3, RuntimeInfoFields, Zenon DEF InfoAt
<1>5. IsInfo(p, r.at)
  <2>1. 1 \in WireValue.launchMode /\ 2 \in WireValue.runtimeState
    BY DEF WireValue
  <2>2. QED
    BY <1>3, <2>1, Zenon DEF IsInfo
<1>6. QED
  BY <1>1, <1>2, <1>4, <1>5, InfoOutcome, Zenon DEF p

-----------------------------------------------------------------------------
(* A frame is its header and its payload.                                  *)

FrameRead(b, kind, op, id, status, payload) ==
    /\ HeaderRead(b, kind, op, id, status, Len(payload))
    /\ Len(b) = 24 + Len(payload) /\ SubSeq(b, 25, Len(b)) = payload

LEMMA FrameIs ==
    ASSUME NEW kind, Fits(kind, 2), NEW op, Fits(op, 2), NEW id, Fits(id, 4),
           NEW status, Fits(status, 4), NEW payload \in Seq(Byte), Fits(Len(payload), 4)
    PROVE  /\ WriteHeader(kind, op, id, status, Len(payload)) \o payload \in Seq(Byte)
           /\ \A b \in Seq(Byte) : b = WriteHeader(kind, op, id, status, Len(payload)) \o payload
                                       <=> FrameRead(b, kind, op, id, status, payload)
<1> DEFINE head == WriteHeader(kind, op, id, status, Len(payload))
<1>1. /\ head \in Seq(Byte) /\ Len(head) = 24
      /\ \A b \in Seq(Byte) : Holds(b, 1, head) <=> HeaderRead(b, kind, op, id, status, Len(payload))
  BY HeaderIs, Zenon
<1> HIDE DEF head
<1>2. head \o payload \in Seq(Byte) /\ Len(head \o payload) = 24 + Len(payload)
  <2>1. head \o payload \in Seq(Byte) /\ Len(head \o payload) = Len(head) + Len(payload)
    BY <1>1, Joined
  <2>2. QED
    BY <1>1, <2>1, Zenon
<1>3. 1 \in Nat /\ 1 >= 1 /\ 24 + 1 = 25
  BY SMT
<1>4. ASSUME NEW b \in Seq(Byte), b = head \o payload
      PROVE  FrameRead(b, kind, op, id, status, payload)
  <2>1. Len(b) = 24 + Len(payload) /\ Holds(b, 1, head \o payload)
    BY <1>2, <1>4, Whole, Zenon
  <2>2. Holds(b, 1, head)
    BY <1>1, <1>3, <2>1, Cut, Zenon
  <2>3. Len(head) <= Len(b)
    <3>1. PICK n \in Nat : n = Len(payload)
      OBVIOUS
    <3>2. 24 <= 24 + n
      BY SMT
    <3>3. QED
      BY <1>1, <2>1, <3>1, <3>2, Zenon
  <2>4. SubSeq(b, 25, Len(b)) = payload
    <3>1. \A p \in Seq(Byte) : b = head \o p => SubSeq(b, Len(head) + 1, Len(b)) = p
      BY <1>1, <2>3, Rest
    <3>2. SubSeq(b, Len(head) + 1, Len(b)) = payload
      BY <1>4, <3>1, Zenon
    <3>3. QED
      BY <1>1, <1>3, <3>2, Zenon
  <2>5. QED
    BY <1>1, <2>1, <2>2, <2>4, Zenon DEF FrameRead
<1>5. ASSUME NEW b \in Seq(Byte), FrameRead(b, kind, op, id, status, payload)
      PROVE  b = head \o payload
  <2>1. Holds(b, 1, head) /\ SubSeq(b, 25, Len(b)) = payload /\ 24 <= Len(b)
    BY <1>1, <1>5, Zenon DEF FrameRead, HeaderRead
  <2>2. b = head \o SubSeq(b, 25, Len(b))
    <3>1. Len(head) <= Len(b)
      BY <1>1, <2>1, Zenon
    <3>2. Holds(b, 1, head) => b = head \o SubSeq(b, Len(head) + 1, Len(b))
      BY <1>1, <3>1, Rest
    <3>3. QED
      BY <1>1, <1>3, <2>1, <3>2, Zenon
  <2>3. QED
    BY <2>1, <2>2, Zenon
<1>6. QED
  BY <1>2, <1>4, <1>5, Zenon DEF head

\* What a frame of some length is read as.
LEMMA Fields ==
    ASSUME NEW b \in Seq(Byte), 24 <= Len(b)
    PROVE  /\ Fits(Num(b, 11, 2), 2) /\ Fits(Num(b, 13, 4), 4) /\ Fits(Num(b, 17, 4), 4)
           /\ SubSeq(b, 25, Len(b)) \in Seq(Byte)
           /\ Len(b) = 24 + Len(SubSeq(b, 25, Len(b)))
<1>1. PICK n \in Nat : n = Len(b) /\ 24 <= n
  OBVIOUS
<1>2. /\ 11 + 1 <= n /\ 13 + 3 <= n /\ 17 + 3 <= n
      /\ 11 \in Nat /\ 11 >= 1 /\ 13 \in Nat /\ 13 >= 1 /\ 17 \in Nat /\ 17 >= 1
      /\ 25 \in Nat /\ 25 >= 1 /\ 25 - 1 = 24
  BY <1>1, SMT
<1>3. Fits(Num(b, 11, 2), 2) /\ Fits(Num(b, 13, 4), 4) /\ Fits(Num(b, 17, 4), 4)
  BY <1>1, <1>2, NumberFits, Zenon
<1>4. PICK k \in Nat : n = 24 + k /\ n \in Int /\ n <= n
  <2>1. n - 24 \in Nat /\ n = 24 + (n - 24) /\ n \in Int /\ n <= n
    BY <1>1, SMT
  <2>2. QED
    BY <2>1, Zenon
<1>5. SubSeq(b, 25, n) \in Seq(Byte) /\ Len(SubSeq(b, 25, n)) = k
  <2>1. n = 25 - 1 + k /\ n <= Len(b)
    BY <1>1, <1>2, <1>4, Zenon
  <2>2. QED
    <3>1. \A e \in Int : e = 25 - 1 + k /\ e <= Len(b) =>
              SubSeq(b, 25, e) \in Seq(Byte) /\ Len(SubSeq(b, 25, e)) = k
      BY <1>2, Slice
    <3>2. QED
      BY <1>4, <2>1, <3>1, Zenon
<1>6. QED
  BY <1>1, <1>3, <1>4, <1>5, Zenon

-----------------------------------------------------------------------------
(* The requests.                                                           *)

LEMMA Statuses ==
    /\ Status.Ok = 0 /\ Status.InvalidFrame = 1 /\ Status.UnsupportedVersion = 2
    /\ Status.UnknownOperation = 3 /\ Status.InvalidPayload = 4 /\ Status.InvalidValue = 5
    /\ Status.OperationFailed = 7
BY DEF Status

LEMMA StatusesDiffer == 1 # 0 /\ 2 # 0 /\ 3 # 0 /\ 4 # 0 /\ 5 # 0 /\ 7 # 0 /\ 2 # 1
BY SMT

RequestFrame(b) ==
    /\ ~(Len(b) < HeaderSize) /\ SubSeq(b, 1, 4) = Magic /\ Num(b, 5, 2) = ProtocolVersion
    /\ Num(b, 7, 2) = HeaderSize /\ Num(b, 9, 2) = 1
    /\ Num(b, 13, 4) # 0 /\ Num(b, 17, 4) = 0
    /\ Num(b, 21, 4) \in 0..MaxPayloadBytes /\ Len(b) = HeaderSize + Num(b, 21, 4)

LEMMA HeaderParsed ==
    ASSUME NEW b
    PROVE  /\ ParseHeader(b) = 0 <=> RequestFrame(b)
           /\ ParseHeader(b) \in {0, 1, 2}
<1>1. ParseHeader(b) = 0 <=> RequestFrame(b)
  BY Statuses, StatusesDiffer, Zenon DEF ParseHeader, RequestFrame
<1>2. ParseHeader(b) \in {0, 1, 2}
  BY Statuses, Zenon DEF ParseHeader
<1>3. QED
  BY <1>1, <1>2, Zenon

\* The value of a request, as its operation reads it.
Carried(b) == IF ShapeOf(Num(b, 11, 2)) = 0 THEN 0 ELSE Num(b, 25, ShapeOf(Num(b, 11, 2)))
ErrorOf(b) == RequestError(Num(b, 11, 2), Len(b) - HeaderSize, Carried(b))

LEMMA RequestDecoded ==
    ASSUME NEW b
    PROVE  /\ ParseHeader(b) # 0 =>
                 /\ DecodeControlRequest(b).error = ParseHeader(b)
                 /\ DecodeControlRequest(b).identity = NoIdentity
           /\ ParseHeader(b) = 0 =>
                 /\ DecodeControlRequest(b).error = ErrorOf(b)
                 /\ DecodeControlRequest(b).identity = [operation |-> Num(b, 11, 2), id |-> Num(b, 13, 4)]
                 /\ ErrorOf(b) = 0 => DecodeControlRequest(b).value = Carried(b)
<1> DEFINE head == ParseHeader(b)
           error == ErrorOf(b)
           value == Carried(b)
           name == [operation |-> Num(b, 11, 2), id |-> Num(b, 13, 4)]
           wrong == [error |-> head, identity |-> NoIdentity, value |-> 0]
           right == [error |-> error, identity |-> name, value |-> IF error = 0 THEN value ELSE 0]
<1>1. DecodeControlRequest(b) = IF head # 0 THEN wrong ELSE right
  BY Statuses, Zenon DEF DecodeControlRequest, ErrorOf, Carried
<1> HIDE DEF head, error, value, name
<1>2. wrong.error = head /\ wrong.identity = NoIdentity
  OBVIOUS
<1>3. right.error = error /\ right.identity = name /\ (error = 0 => right.value = value)
  OBVIOUS
<1> HIDE DEF wrong, right
<1>4. /\ head # 0 => /\ DecodeControlRequest(b).error = head
                     /\ DecodeControlRequest(b).identity = NoIdentity
      /\ head = 0 => /\ DecodeControlRequest(b).error = error
                     /\ DecodeControlRequest(b).identity = name
                     /\ error = 0 => DecodeControlRequest(b).value = value
  BY <1>1, <1>2, <1>3, Zenon
<1>5. QED
  BY <1>4, Zenon DEF head, error, value, name

LEMMA ErrorIs ==
    ASSUME NEW op, NEW bytes, NEW value
    PROVE  /\ RequestError(op, bytes, value) = 0
                 <=> /\ IsKnownOperation(op) /\ bytes = ShapeOf(op)
                     /\ ShapeOf(op) # 0 => value \in IsValid[Setting(op)]
           /\ RequestError(op, bytes, value) \in {0, 3, 4, 5}
           /\ RequestError(op, bytes, value) # 3 => IsKnownOperation(op)
<1>1. RequestError(op, bytes, value) = 0
         <=> /\ IsKnownOperation(op) /\ bytes = ShapeOf(op)
             /\ ShapeOf(op) # 0 => value \in IsValid[Setting(op)]
  BY Statuses, StatusesDiffer, Zenon DEF RequestError
<1>2. RequestError(op, bytes, value) \in {0, 3, 4, 5}
  BY Statuses, Zenon DEF RequestError
<1>3. RequestError(op, bytes, value) # 3 => IsKnownOperation(op)
  BY Statuses, Zenon DEF RequestError
<1>4. QED
  BY <1>1, <1>2, <1>3, Zenon

LEMMA Shapes ==
    ASSUME NEW op
    PROVE  ShapeOf(op) \in {0, 1, 2, 4}
BY Zenon DEF ShapeOf

\* The bytes of a value, which are those behind the header.
LEMMA NoBytes ==
    ASSUME NEW v \in Int
    PROVE  LE(v, 0) = <<>>
<1>1. LE(v, 0) \in Seq(Byte) /\ Len(LE(v, 0)) = 0
  BY LEIs, SMT
<1>2. QED
  BY <1>1

ValueIs(b, w, v) ==
    /\ LE(v, w) \in Seq(Byte) /\ Len(LE(v, w)) = w
    /\ Len(b) = 24 + w /\ SubSeq(b, 25, Len(b)) = LE(v, w)

LEMMA ValueRead ==
    ASSUME NEW b \in Seq(Byte), NEW w \in {0, 1, 2, 4}, NEW v \in Int, Len(b) = 24 + w,
           w # 0 => Fits(v, w)
    PROVE  /\ w = 0 => ValueIs(b, w, v)
           /\ w # 0 => (ValueIs(b, w, v) <=> Num(b, 25, w) = v)
           /\ LE(v, w) \in Seq(Byte) /\ Len(LE(v, w)) = w
<1>1. /\ w \in Nat /\ 25 \in Nat /\ 25 >= 1 /\ 24 + w \in Int /\ 25 - 1 + w = 24 + w
      /\ 24 + w <= 24 + w
  BY SMT
<1>2. LE(v, w) \in Seq(Byte) /\ Len(LE(v, w)) = w
  <2>1. w \in 0..4
    BY SMT
  <2>2. QED
    BY <2>1, LEIs, Zenon
<1>3. /\ SubSeq(b, 25, Len(b)) \in Seq(Byte) /\ Len(SubSeq(b, 25, Len(b))) = w
      /\ Holds(b, 25, LE(v, w)) <=> SubSeq(b, 25, Len(b)) = LE(v, w)
  <2>1. /\ SubSeq(b, 25, 24 + w) \in Seq(Byte) /\ Len(SubSeq(b, 25, 24 + w)) = w
        /\ \A t \in Seq(Byte) : Len(t) = w => (Holds(b, 25, t) <=> SubSeq(b, 25, 24 + w) = t)
    BY <1>1, Slice
  <2>2. QED
    BY <1>2, <2>1, Zenon
<1>4. CASE w = 0
  <2>1. LE(v, w) = <<>>
    BY <1>4, NoBytes
  <2>2. SubSeq(b, 25, Len(b)) = <<>>
    BY <1>3, <1>4
  <2>3. QED
    BY <1>2, <1>4, <2>1, <2>2, Zenon DEF ValueIs
<1>5. CASE w # 0
  <2>1. w \in Widths
    BY <1>5, SMT DEF Widths
  <2>2. Holds(b, 25, LE(v, w)) <=> 25 - 1 + w <= Len(b) /\ Num(b, 25, w) = v
    BY <1>1, <1>5, <2>1, NumberIs
  <2>3. Holds(b, 25, LE(v, w)) <=> Num(b, 25, w) = v
    BY <1>1, <2>2, Zenon
  <2>4. QED
    BY <1>2, <1>3, <1>5, <2>3, Zenon DEF ValueIs
<1>6. QED
  BY <1>2, <1>4, <1>5, Zenon

\* A request that is accepted is the frame of the request it is taken for.
LEMMA RequestExact ==
    ASSUME NEW b \in Seq(Byte), DecodeControlRequest(b).error = Status.Ok
    PROVE  b = EncodeControlRequest(DecodeControlRequest(b).identity.operation,
                                    DecodeControlRequest(b).identity.id,
                                    DecodeControlRequest(b).value)
<1> DEFINE op == Num(b, 11, 2)
           id == Num(b, 13, 4)
           w == ShapeOf(op)
           v == Carried(b)
           rest == SubSeq(b, 25, Len(b))
<1>1. ParseHeader(b) = 0 /\ RequestFrame(b)
  BY Statuses, RequestDecoded, HeaderParsed, Zenon
<1>2. ErrorOf(b) = 0 /\ DecodeControlRequest(b).value = v
      /\ DecodeControlRequest(b).identity = [operation |-> op, id |-> id]
  BY <1>1, Statuses, RequestDecoded, Zenon
<1>3. DecodeControlRequest(b).identity.operation = op /\ DecodeControlRequest(b).identity.id = id
  <2> HIDE DEF op, id
  <2>1. QED
    BY <1>2
<1>4. IsKnownOperation(op) /\ Len(b) - 24 = w /\ (w # 0 => v \in IsValid[Setting(op)])
  BY <1>2, ErrorIs, Zenon DEF ErrorOf, HeaderSize
<1>5. /\ ~(Len(b) < 24) /\ SubSeq(b, 1, 4) = Magic /\ Num(b, 5, 2) = ProtocolVersion
      /\ Num(b, 7, 2) = HeaderSize /\ Num(b, 9, 2) = 1 /\ id # 0 /\ Num(b, 17, 4) = 0
      /\ Num(b, 21, 4) \in 0..MaxPayloadBytes /\ Len(b) = 24 + Num(b, 21, 4)
  BY <1>1, Zenon DEF RequestFrame, HeaderSize
<1>6. 24 <= Len(b) /\ Len(b) = 24 + w /\ w \in {0, 1, 2, 4} /\ Num(b, 21, 4) = w
  <2>1. PICK n \in Nat : n = Len(b)
    OBVIOUS
  <2>2. w \in {0, 1, 2, 4}
    BY Shapes
  <2>3. Num(b, 21, 4) \in Int
    <3>1. \A x : x \in 0..MaxPayloadBytes => x \in Int
      BY SMT
    <3>2. QED
      BY <1>5, <3>1, Zenon
  <2> HIDE DEF w
  <2>4. PICK k \in Int : k = Num(b, 21, 4)
    BY <2>3, Zenon
  <2>5. ~(n < 24) /\ n - 24 = w /\ n = 24 + k
    BY <1>4, <1>5, <2>1, <2>4, Zenon
  <2>6. 24 <= n /\ n = 24 + w /\ k = w
    BY <2>2, <2>5, SMT
  <2>7. QED
    BY <2>1, <2>2, <2>4, <2>6, Zenon
<1>7. /\ Fits(op, 2) /\ Fits(id, 4) /\ rest \in Seq(Byte) /\ Fits(1, 2) /\ Fits(0, 4)
      /\ w # 0 => Fits(Num(b, 25, w), w)
  <2>1. Fits(op, 2) /\ Fits(id, 4) /\ rest \in Seq(Byte)
    BY <1>6, Fields, Zenon
  <2>2. Fits(1, 2) /\ Fits(0, 4)
    BY SMT DEF Fits
  <2>3. ASSUME NEW u \in {1, 2, 4}, u = w PROVE Fits(Num(b, 25, u), u)
    <3>1. 25 \in Nat /\ 25 >= 1 /\ 25 <= 24 + 1 /\ 25 + 1 <= 24 + 2 /\ 25 + 3 <= 24 + 4
      BY SMT
    <3>2. /\ 25 <= Len(b) => Fits(Num(b, 25, 1), 1)
          /\ 25 + 1 <= Len(b) => Fits(Num(b, 25, 2), 2)
          /\ 25 + 3 <= Len(b) => Fits(Num(b, 25, 4), 4)
      BY <3>1, NumberFits
    <3> HIDE DEF w
    <3>3. Len(b) = 24 + u
      BY <1>6, <2>3, Zenon
    <3>4. CASE u = 1
      BY <3>1, <3>2, <3>3, <3>4, Zenon
    <3>5. CASE u = 2
      BY <3>1, <3>2, <3>3, <3>5, Zenon
    <3>6. CASE u = 4
      BY <3>1, <3>2, <3>3, <3>6, Zenon
    <3>7. QED
      BY <3>4, <3>5, <3>6
  <2> HIDE DEF w
  <2>4. w # 0 => w \in {1, 2, 4}
    BY <1>6
  <2>5. w # 0 => Fits(Num(b, 25, w), w)
    BY <2>3, <2>4, Zenon
  <2>6. QED
    BY <2>1, <2>2, <2>5, Zenon
<1>8. ValueIs(b, w, v)
  <2>1. CASE w = 0
    <3>1. v = 0
      BY <2>1, Zenon DEF Carried
    <3>2. 0 \in Int
      BY SMT
    <3>3. QED
      BY <1>6, <2>1, <3>1, <3>2, ValueRead, Zenon
  <2>2. CASE w # 0
    <3>1. v = Num(b, 25, w)
      BY <2>2, Zenon DEF Carried
    <3>2. v \in Int /\ Fits(v, w)
      BY <1>7, <2>2, <3>1, FitsInt, Zenon
    <3>3. QED
      BY <1>6, <2>2, <3>1, <3>2, ValueRead, Zenon
  <2>3. QED
    BY <2>1, <2>2, Zenon
<1> HIDE DEF op, id, w, v
<1>9. rest = LE(v, w) /\ Len(rest) = w /\ LE(v, w) \in Seq(Byte)
  BY <1>8, Zenon DEF ValueIs
<1>10. b = WriteHeader(1, op, id, 0, w) \o LE(v, w)
  <2> HIDE DEF rest
  <2>1. Fits(Len(rest), 4)
    <3>1. \A x \in {0, 1, 2, 4} : Fits(x, 4)
      BY SMT DEF Fits
    <3>2. QED
      BY <1>6, <1>9, <3>1, Zenon
  <2>2. \A c \in Seq(Byte) : c = WriteHeader(1, op, id, 0, Len(rest)) \o rest
                                <=> FrameRead(c, 1, op, id, 0, rest)
    BY <1>7, <2>1, FrameIs
  <2>3. FrameRead(b, 1, op, id, 0, rest)
    <3>1. HeaderRead(b, 1, op, id, 0, Len(rest))
      BY <1>5, <1>6, <1>9, Zenon DEF HeaderRead, op, id
    <3>2. QED
      BY <1>6, <1>9, <3>1, Zenon DEF FrameRead, rest
  <2>4. QED
    BY <1>9, <2>2, <2>3, Zenon
<1>11. b = EncodeControlRequest(op, id, v)
  BY <1>4, <1>5, <1>10, Statuses, Zenon DEF EncodeControlRequest, w
<1>12. QED
  BY <1>2, <1>3, <1>11, Zenon

-----------------------------------------------------------------------------
(* The operations.                                                         *)

\* An operation: its number, the setting it carries and the width of its value.
Known(op, f, w) == IsKnownOperation(op) /\ Setting(op) = f /\ ShapeOf(op) = w

LEMMA OperationTable ==
    /\ Known(1, "none", 0) /\ Known(2, "none", 0) /\ Known(20, "none", 0)
    /\ Known(10, "startWithWindows", 1) /\ Known(11, "hudEnabled", 1)
    /\ Known(12, "visibilityMode", 1) /\ Known(13, "hudSizeOffset", 4)
    /\ Known(14, "hudFont", 1) /\ Known(15, "alignment", 1) /\ Known(16, "backgroundMode", 1)
    /\ Known(17, "backgroundOpacityPercent", 2) /\ Known(18, "backgroundOpacityPercent", 2)
    /\ Known(19, "intelVrrRangeFixEnabled", 1)
<1>1. /\ IsKnownOperation(1) /\ IsKnownOperation(2) /\ IsKnownOperation(10)
      /\ IsKnownOperation(11) /\ IsKnownOperation(12) /\ IsKnownOperation(13)
      /\ IsKnownOperation(14) /\ IsKnownOperation(15) /\ IsKnownOperation(16)
      /\ IsKnownOperation(17) /\ IsKnownOperation(18) /\ IsKnownOperation(19)
      /\ IsKnownOperation(20)
  BY DEF IsKnownOperation, Operation
<1>2. /\ Setting(1) = "none" /\ Setting(2) = "none" /\ Setting(20) = "none"
      /\ Setting(10) = "startWithWindows" /\ Setting(11) = "hudEnabled"
      /\ Setting(12) = "visibilityMode" /\ Setting(13) = "hudSizeOffset"
      /\ Setting(14) = "hudFont" /\ Setting(15) = "alignment" /\ Setting(16) = "backgroundMode"
      /\ Setting(17) = "backgroundOpacityPercent" /\ Setting(18) = "backgroundOpacityPercent"
      /\ Setting(19) = "intelVrrRangeFixEnabled"
  BY SMT DEF Setting
<1>3. /\ ShapeOf(1) = 0 /\ ShapeOf(2) = 0 /\ ShapeOf(20) = 0 /\ ShapeOf(10) = 1
      /\ ShapeOf(11) = 1 /\ ShapeOf(12) = 1 /\ ShapeOf(13) = 4 /\ ShapeOf(14) = 1
      /\ ShapeOf(15) = 1 /\ ShapeOf(16) = 1 /\ ShapeOf(17) = 2 /\ ShapeOf(18) = 2
      /\ ShapeOf(19) = 1
  BY <1>2, SMT DEF ShapeOf
<1>4. QED
  BY <1>1, <1>2, <1>3, Zenon DEF Known

FrontEndOperations == {1, 2, 10, 11, 12, 13, 14, 15, 16, 17, 18, 19}

LEMMA OperationsOfFrontEnd ==
    /\ \A name \in DOMAIN ControlOperation : ControlOperation[name] \in FrontEndOperations
    /\ \A op \in FrontEndOperations :
          \E name \in DOMAIN ControlOperation : ControlOperation[name] = op
    /\ ControlOperation.GetRuntimeInfo = 1
BY DEF ControlOperation, FrontEndOperations

LEMMA OperationsAreAnswered ==
    ASSUME NEW op \in FrontEndOperations
    PROVE  IsKnownOperation(op) /\ (op = 1 \/ ResponseCarriesSnapshot(op))
<1>1. /\ "none" # "startWithWindows" /\ "none" # "hudEnabled" /\ "none" # "visibilityMode"
      /\ "none" # "hudSizeOffset" /\ "none" # "hudFont" /\ "none" # "alignment"
      /\ "none" # "backgroundMode" /\ "none" # "backgroundOpacityPercent"
      /\ "none" # "intelVrrRangeFixEnabled"
  OBVIOUS
<1>2. op \in {1, 2, 10, 11, 12, 13, 14, 15, 16, 17, 18, 19}
  BY Zenon DEF FrontEndOperations
<1>3. QED
  BY <1>1, <1>2, OperationTable, Zenon DEF Known, ResponseCarriesSnapshot

\* The operations the runtime knows are those of the front end and the shutdown.
LEMMA KnownOperations ==
    ASSUME NEW op, IsKnownOperation(op)
    PROVE  op \in FrontEndOperations \/ op = 20
BY DEF IsKnownOperation, Operation, FrontEndOperations

-----------------------------------------------------------------------------
(* The answers.                                                            *)

Answer(op, id, status, info, have) ==
    [operation |-> op, id |-> id, status |-> status, info |-> info, snapshot |-> have]

LEMMA AnswerFields ==
    ASSUME NEW op, NEW id, NEW status, NEW info, NEW have
    PROVE  /\ Answer(op, id, status, info, have).operation = op
           /\ Answer(op, id, status, info, have).id = id
           /\ Answer(op, id, status, info, have).status = status
           /\ Answer(op, id, status, info, have).info = info
           /\ Answer(op, id, status, info, have).snapshot = have
BY DEF Answer

\* An answer that is accepted is the frame of what it is taken for.
IsExact(b, id, op, s, c) ==
    c.outcome # "Malformed" =>
        b = EncodeControlResponse(Answer(op, id, c.status, c.info,
                                         IF c.snapshot = <<>> THEN s ELSE c.snapshot[1]))

\* The frame of an answer that can be encoded.
LEMMA AnswerEncoded ==
    ASSUME NEW r, NEW payload, payload = ResponsePayload(r), r.id # 0, IsKnownStatus(r.status),
           IsKnownOperation(r.operation) \/ r.status = 3, ~(Len(payload) > MaxPayloadBytes)
    PROVE  EncodeControlResponse(r) =
               WriteHeader(2, r.operation, r.id, r.status, Len(payload)) \o payload
BY Statuses, Zenon DEF EncodeControlResponse

LEMMA SizesFit ==
    ASSUME NEW n, n \in 0..MaxPayloadBytes
    PROVE  n \in Int /\ Fits(n, 4) /\ ~(n > MaxPayloadBytes)
BY SMT DEF Fits, MaxPayloadBytes

LEMMA StatusesFit ==
    ASSUME NEW status \in 0..8
    PROVE  Fits(status, 4)
BY SMT DEF Fits

\* A frame that answers is a header and a payload.
LEMMA AnswerFrame ==
    ASSUME NEW b \in Seq(Byte), NEW id, NEW op, IsAnswer(b, id, op)
    PROVE  /\ id # 0 /\ IsKnownStatus(Num(b, 17, 4)) /\ SubSeq(b, 25, Len(b)) \in Seq(Byte)
           /\ ~(Len(SubSeq(b, 25, Len(b))) > MaxPayloadBytes)
           /\ b = WriteHeader(2, op, id, Num(b, 17, 4), Len(SubSeq(b, 25, Len(b))))
                     \o SubSeq(b, 25, Len(b))
<1> DEFINE p == SubSeq(b, 25, Len(b))
           status == Num(b, 17, 4)
<1>1. /\ Len(b) >= 24 /\ SubSeq(b, 1, 4) = Magic /\ Num(b, 5, 2) = ProtocolVersion
      /\ Num(b, 7, 2) = HeaderSize /\ Num(b, 9, 2) = 2
      /\ Num(b, 13, 4) # 0 /\ Num(b, 13, 4) = id /\ Num(b, 11, 2) = op /\ status \in 0..8
      /\ Num(b, 21, 4) \in 0..MaxPayloadBytes /\ Len(b) = 24 + Num(b, 21, 4)
  BY Zenon DEF IsAnswer, HeaderSize, ControlStatuses
<1>2. 24 <= Len(b)
  <2>1. PICK n \in Nat : n = Len(b)
    OBVIOUS
  <2>2. n >= 24 => 24 <= n
    BY SMT
  <2>3. QED
    BY <1>1, <2>1, <2>2, Zenon
<1>3. Fits(op, 2) /\ Fits(id, 4) /\ p \in Seq(Byte) /\ Len(b) = 24 + Len(p)
  BY <1>1, <1>2, Fields, Zenon
<1>4. Num(b, 21, 4) = Len(p) /\ Fits(Len(p), 4) /\ ~(Len(p) > MaxPayloadBytes)
  <2> HIDE DEF p
  <2>1. PICK n \in Nat, k \in Int : n = Len(p) /\ k = Num(b, 21, 4)
    <3>1. Len(p) \in Nat
      BY <1>3
    <3>2. Num(b, 21, 4) \in Int
      BY <1>1, SizesFit, Zenon
    <3>3. QED
      BY <3>1, <3>2, Zenon
  <2>2. 24 + n = 24 + k
    BY <1>1, <1>3, <2>1, Zenon
  <2>3. n = k
    BY <2>2, SMT
  <2>4. QED
    BY <1>1, <2>1, <2>3, SizesFit, Zenon
<1>5. Fits(2, 2) /\ Fits(status, 4)
  <2>1. Fits(2, 2)
    BY SMT DEF Fits
  <2>2. Fits(status, 4)
    BY <1>1, StatusesFit, Zenon
  <2>3. QED
    BY <2>1, <2>2
<1> HIDE DEF p, status
<1>6. b = WriteHeader(2, op, id, status, Len(p)) \o p
  <2>1. \A c \in Seq(Byte) : c = WriteHeader(2, op, id, status, Len(p)) \o p
                                <=> FrameRead(c, 2, op, id, status, p)
    BY <1>3, <1>4, <1>5, FrameIs
  <2>2. FrameRead(b, 2, op, id, status, p)
    <3>1. HeaderRead(b, 2, op, id, status, Len(p))
      BY <1>1, <1>2, <1>4, Zenon DEF HeaderRead, status
    <3>2. QED
      BY <1>3, <3>1, Zenon DEF FrameRead, p
  <2>3. QED
    BY <2>1, <2>2, Zenon
<1>7. id # 0 /\ IsKnownStatus(status)
  BY <1>1, Zenon DEF IsKnownStatus
<1>8. QED
  BY <1>3, <1>4, <1>6, <1>7, Zenon DEF p, status

LEMMA AnswerExact ==
    ASSUME NEW b \in Seq(Byte), NEW id, NEW op, IsAnswer(b, id, op), IsKnownOperation(op), NEW r,
           r.operation = op, r.id = id, r.status = Num(b, 17, 4),
           ResponsePayload(r) = SubSeq(b, 25, Len(b))
    PROVE  b = EncodeControlResponse(r)
<1> DEFINE p == SubSeq(b, 25, Len(b))
           status == Num(b, 17, 4)
<1>1. /\ id # 0 /\ IsKnownStatus(status) /\ ~(Len(p) > MaxPayloadBytes)
      /\ b = WriteHeader(2, op, id, status, Len(p)) \o p
  BY AnswerFrame, Zenon
<1>2. p = ResponsePayload(r) /\ r.status = status
  OBVIOUS
<1> HIDE DEF p, status
<1>3. EncodeControlResponse(r) = WriteHeader(2, r.operation, r.id, r.status, Len(p)) \o p
  BY <1>1, <1>2, AnswerEncoded
<1>4. QED
  BY <1>1, <1>2, <1>3, Zenon

LEMMA PayloadOf ==
    ASSUME NEW r
    PROVE  /\ r.status # 0 => ResponsePayload(r) = <<>>
           /\ r.status = 0 /\ r.operation = 1 => ResponsePayload(r) = EncodeRuntimeInfoPayload(r.info)
           /\ r.status = 0 /\ r.operation # 1 /\ ResponseCarriesSnapshot(r.operation)
                 => ResponsePayload(r) = EncodeSnapshotPayload(r.snapshot)
           /\ r.status = 0 /\ r.operation # 1 /\ ~ResponseCarriesSnapshot(r.operation)
                 => ResponsePayload(r) = <<>>
BY Statuses, Zenon DEF ResponsePayload

LEMMA MalformedIs ==
    /\ Malformed.outcome = "Malformed" /\ Malformed.outcome # "Ok" /\ Malformed.outcome # "ProtocolError"
    /\ \A status : LET c == [Malformed EXCEPT !.outcome = "ProtocolError", !.status = status]
                   IN  c.outcome = "ProtocolError" /\ c.status = status /\ c.snapshot = <<>>
BY DEF Malformed

\* What becomes of a frame that answers the request.
BecomesOf(c, op, status, p) ==
    /\ status # 0 /\ p = <<>> => c.outcome = "ProtocolError" /\ c.status = status /\ c.snapshot = <<>>
    /\ status # 0 /\ p # <<>> => c = Malformed
    /\ status = 0 /\ op = 1 => c = DecodeRuntimeInfo(p)
    /\ status = 0 /\ op # 1 /\ op \in FrontEndOperations => c = DecodeSnapshot(p)

LEMMA ResponseDecoded ==
    ASSUME NEW b \in Seq(Byte), NEW id, NEW op, IsAnswer(b, id, op)
    PROVE  BecomesOf(DecodeResponse(b, id, op), op, Num(b, 17, 4), SubSeq(b, 25, Len(b)))
<1> DEFINE status == Num(b, 17, 4)
           p == SubSeq(b, 25, Len(b))
           c == DecodeResponse(b, id, op)
<1>1. HeaderSize + 1 = 25
  BY SMT DEF HeaderSize
<1>2. SubSeq(b, HeaderSize + 1, Len(b)) = p
  BY <1>1, Zenon
<1>3. /\ op \in FrontEndOperations => \E name \in DOMAIN ControlOperation : ControlOperation[name] = op
      /\ ControlOperation.GetRuntimeInfo = 1
  BY OperationsOfFrontEnd, Zenon
<1> DEFINE error == [Malformed EXCEPT !.outcome = "ProtocolError", !.status = status]
<1>4. error.outcome = "ProtocolError" /\ error.status = status /\ error.snapshot = <<>>
  BY MalformedIs, Zenon
<1>5. /\ status # 0 => c = IF p = <<>> THEN error ELSE Malformed
      /\ status = 0 /\ op = 1 => c = DecodeRuntimeInfo(p)
      /\ status = 0 /\ op # 1 /\ op \in FrontEndOperations => c = DecodeSnapshot(p)
  BY <1>2, <1>3, Zenon DEF DecodeResponse
<1> HIDE DEF error, status, p, c
<1>6. QED
  BY <1>4, <1>5, Zenon DEF BecomesOf, status, p, c

\* What the front end accepts is the frame of the answer it takes it for.
LEMMA ResponseExact ==
    ASSUME NEW b \in Seq(Byte), NEW id, NEW op \in FrontEndOperations, NEW s
    PROVE  IsExact(b, id, op, s, DecodeResponse(b, id, op))
<1> PICK c : c = DecodeResponse(b, id, op)
  OBVIOUS
<1> SUFFICES ASSUME c.outcome # "Malformed"
             PROVE  b = EncodeControlResponse(Answer(op, id, c.status, c.info,
                                                     IF c.snapshot = <<>> THEN s ELSE c.snapshot[1]))
  BY Zenon DEF IsExact
<1> DEFINE x == IF c.snapshot = <<>> THEN s ELSE c.snapshot[1]
           r == Answer(op, id, c.status, c.info, x)
           p == SubSeq(b, 25, Len(b))
           status == Num(b, 17, 4)
<1>1. IsAnswer(b, id, op)
  BY MalformedIs, Zenon DEF DecodeResponse
<1>2. /\ IsKnownOperation(op) /\ (op = 1 \/ ResponseCarriesSnapshot(op))
      /\ r.operation = op /\ r.id = id /\ r.status = c.status /\ r.info = c.info /\ r.snapshot = x
  <2>1. IsKnownOperation(op) /\ (op = 1 \/ ResponseCarriesSnapshot(op))
    BY OperationsAreAnswered
  <2> HIDE DEF x
  <2>2. r.operation = op /\ r.id = id /\ r.status = c.status /\ r.info = c.info /\ r.snapshot = x
    BY AnswerFields
  <2>3. QED
    BY <2>1, <2>2, Zenon
<1>3. p \in Seq(Byte)
  <2>1. PICK n \in Nat : n = Len(b)
    OBVIOUS
  <2>2. n >= 24
    BY <1>1, <2>1, Zenon DEF IsAnswer, HeaderSize
  <2>3. 24 <= n
    BY <2>2, SMT
  <2>4. QED
    BY <2>1, <2>3, Fields, Zenon
<1>4. /\ status # 0 /\ p = <<>> => c.status = status /\ c.snapshot = <<>>
      /\ status # 0 /\ p # <<>> => c = Malformed
      /\ status = 0 /\ op = 1 => c = DecodeRuntimeInfo(p)
      /\ status = 0 /\ op # 1 => c = DecodeSnapshot(p)
  <2>1. BecomesOf(c, op, status, p)
    BY <1>1, ResponseDecoded
  <2>2. QED
    BY <2>1, Zenon DEF BecomesOf
<1> HIDE DEF r, x, p, status
<1>5. c.status = status /\ ResponsePayload(r) = p
  <2>1. CASE status # 0
    BY <1>2, <1>4, <2>1, MalformedIs, PayloadOf, Zenon
  <2>2. CASE status = 0 /\ op = 1
    <3>1. PICK i : InfoDecoded(c, i) /\ p = EncodeRuntimeInfoPayload(i)
      BY <1>3, <1>4, <2>2, InfoExact, Zenon
    <3>2. QED
      BY <1>2, <2>2, <3>1, PayloadOf, Zenon DEF InfoDecoded
  <2>3. CASE status = 0 /\ op # 1
    <3>1. c.status = 0 /\ \E y : c.snapshot = <<y>> /\ p = EncodeSnapshotPayload(y)
      BY <1>3, <1>4, <2>3, SnapshotExact, Zenon
    <3>2. PICK y : c.snapshot = <<y>> /\ p = EncodeSnapshotPayload(y)
      BY <3>1, Zenon
    <3>3. <<y>> # <<>> /\ <<y>>[1] = y
      OBVIOUS
    <3>4. x = y
      BY <3>2, <3>3, Zenon DEF x
    <3>5. QED
      BY <1>2, <2>3, <3>1, <3>2, <3>4, PayloadOf, Zenon
  <2>4. QED
    BY <2>1, <2>2, <2>3, Zenon
<1>6. b = EncodeControlResponse(r)
  <2>1. r.status = Num(b, 17, 4) /\ ResponsePayload(r) = SubSeq(b, 25, Len(b))
    BY <1>2, <1>5, Zenon DEF status, p
  <2>2. QED
    BY <1>1, <1>2, <2>1, AnswerExact, Zenon
<1>7. QED
  BY <1>6, Zenon DEF r, x

-----------------------------------------------------------------------------
(* The results of the bound.                                               *)

ShortResult == 5000

LEMMA NoText == <<>> \in Seq(Byte) /\ Len(<<>>) = 0
OBVIOUS

LEMMA ResultBytesAre ==
    ASSUME NEW r, NEW x, NEW t1, NEW t2, NEW t3, NEW t4, NEW t5,
           ResultOf(r, x, t1, t2, t3, t4, t5)
    PROVE  /\ IsResult(r)
           /\ Len(EncodeResult(r)) = 12 + Len(t1) + Len(t2) + Len(t3) + Len(t4) + Len(t5)
<1>1. /\ t1 \in Seq(Byte) /\ t2 \in Seq(Byte) /\ t3 \in Seq(Byte) /\ t4 \in Seq(Byte)
      /\ t5 \in Seq(Byte) /\ IsValidWireString(t1) /\ IsValidWireString(t2)
      /\ IsValidWireString(t3) /\ IsValidWireString(t4) /\ IsValidWireString(t5)
      /\ x \in 1..9 /\ r = [status |-> x, texts |-> <<t1, t2, t3, t4, t5>>]
  BY Zenon DEF ResultOf, IsText
<1>2. r # NoResult /\ r.status = x
  BY NoText, ResultRead, Zenon
<1>3. r.texts = <<t1, t2, t3, t4, t5>>
  BY <1>1
<1>4. PICK s : s = <<t1, t2, t3, t4, t5>>
  OBVIOUS
<1>5. /\ r.texts[1] = t1 /\ r.texts[2] = t2 /\ r.texts[3] = t3
      /\ r.texts[4] = t4 /\ r.texts[5] = t5
  <2>1. s[1] = t1 /\ s[2] = t2 /\ s[3] = t3 /\ s[4] = t4 /\ s[5] = t5
    BY <1>4
  <2>2. QED
    BY <1>3, <1>4, <2>1, Zenon
<1>6. EncodeResult(r) = <<1, x>> \o Text(t1) \o Text(t2) \o Text(t3) \o Text(t4) \o Text(t5)
  BY <1>2, <1>5, Zenon DEF EncodeResult
<1> DEFINE head == <<1, x>>
<1>7. head \in Seq(Byte) /\ Len(head) = 2
  BY <1>1, SmallBytes, Zenon
<1> HIDE DEF head
<1>8. ASSUME NEW y \in Seq(Byte), NEW t \in Seq(Byte), IsValidWireString(t), NEW n \in Nat, Len(y) = n
      PROVE  y \o Text(t) \in Seq(Byte) /\ Len(y \o Text(t)) = n + 2 + Len(t)
  <2>1. Text(t) \in Seq(Byte) /\ Len(Text(t)) = 2 + Len(t) /\ Len(t) \in Nat
    BY <1>8, TextBytes
  <2>2. y \o Text(t) \in Seq(Byte) /\ Len(y \o Text(t)) = Len(y) + Len(Text(t))
    BY <2>1, Joined
  <2>3. PICK k \in Nat : k = Len(t)
    BY <2>1
  <2>4. n + (2 + k) = n + 2 + k
    BY SMT
  <2>5. QED
    BY <1>8, <2>1, <2>2, <2>3, <2>4, Zenon
<1>9. PICK n1 \in Nat, n2 \in Nat, n3 \in Nat, n4 \in Nat, n5 \in Nat :
          n1 = Len(t1) /\ n2 = Len(t2) /\ n3 = Len(t3) /\ n4 = Len(t4) /\ n5 = Len(t5)
  BY <1>1
<1> DEFINE y1 == head \o Text(t1)
           y2 == y1 \o Text(t2)
           y3 == y2 \o Text(t3)
           y4 == y3 \o Text(t4)
           y5 == y4 \o Text(t5)
<1>10. /\ 2 \in Nat /\ 2 + 2 + n1 \in Nat /\ 2 + 2 + n1 + 2 + n2 \in Nat
       /\ 2 + 2 + n1 + 2 + n2 + 2 + n3 \in Nat /\ 2 + 2 + n1 + 2 + n2 + 2 + n3 + 2 + n4 \in Nat
  BY SMT
<1>11. y1 \in Seq(Byte) /\ Len(y1) = 2 + 2 + n1
  BY <1>1, <1>7, <1>8, <1>9, <1>10, Zenon
<1> HIDE DEF y1
<1>12. y2 \in Seq(Byte) /\ Len(y2) = 2 + 2 + n1 + 2 + n2
  BY <1>1, <1>8, <1>9, <1>10, <1>11, Zenon
<1> HIDE DEF y2
<1>13. y3 \in Seq(Byte) /\ Len(y3) = 2 + 2 + n1 + 2 + n2 + 2 + n3
  BY <1>1, <1>8, <1>9, <1>10, <1>12, Zenon
<1> HIDE DEF y3
<1>14. y4 \in Seq(Byte) /\ Len(y4) = 2 + 2 + n1 + 2 + n2 + 2 + n3 + 2 + n4
  BY <1>1, <1>8, <1>9, <1>10, <1>13, Zenon
<1> HIDE DEF y4
<1>15. Len(y5) = 2 + 2 + n1 + 2 + n2 + 2 + n3 + 2 + n4 + 2 + n5
  BY <1>1, <1>8, <1>9, <1>10, <1>14, Zenon
<1>16. Len(EncodeResult(r)) = Len(y5)
  BY <1>6, Zenon DEF y1, y2, y3, y4, head
<1>17. 2 + 2 + n1 + 2 + n2 + 2 + n3 + 2 + n4 + 2 + n5 = 12 + n1 + n2 + n3 + n4 + n5
  BY SMT
<1>18. QED
  BY <1>9, <1>15, <1>16, <1>17, Zenon DEF IsResult

AllValid(texts) == \A i \in DOMAIN texts : IsValidWireString(texts[i])

LEMMA FiveTexts ==
    ASSUME NEW t1, NEW t2, NEW t3, NEW t4, NEW t5, AllValid(<<t1, t2, t3, t4, t5>>)
    PROVE  /\ IsValidWireString(t1) /\ IsValidWireString(t2) /\ IsValidWireString(t3)
           /\ IsValidWireString(t4) /\ IsValidWireString(t5)
<1>1. PICK s : s = <<t1, t2, t3, t4, t5>>
  OBVIOUS
<1>2. 1 \in DOMAIN s /\ 2 \in DOMAIN s /\ 3 \in DOMAIN s /\ 4 \in DOMAIN s /\ 5 \in DOMAIN s
  BY <1>1
<1>3. s[1] = t1 /\ s[2] = t2 /\ s[3] = t3 /\ s[4] = t4 /\ s[5] = t5
  BY <1>1
<1>4. QED
  BY <1>1, <1>2, <1>3, Zenon DEF AllValid

LEMMA LongestText ==
    ASSUME NEW t, IsValidWireString(t)
    PROVE  Len(t) <= 4096
BY SMT DEF IsValidWireString, MaxStringBytes

\* Five texts of which one may be long.
Short(r, x, t1, t2, t3, t4, t5) ==
    /\ t1 \in Seq(Byte) /\ t2 \in Seq(Byte) /\ t3 \in Seq(Byte) /\ t4 \in Seq(Byte)
    /\ t5 \in Seq(Byte) /\ Len(t1) <= 2 /\ Len(t2) <= 2 /\ Len(t4) <= 2 /\ Len(t5) <= 2
    /\ x \in 1..9 /\ r = [status |-> x, texts |-> <<t1, t2, t3, t4, t5>>]

LEMMA ShortIs ==
    ASSUME NEW r, AllValid(r.texts), NEW x, NEW t1, NEW t2, NEW t3, NEW t4, NEW t5,
           Short(r, x, t1, t2, t3, t4, t5)
    PROVE  IsResult(r) /\ Len(EncodeResult(r)) <= ShortResult
<1>0. /\ t1 \in Seq(Byte) /\ t2 \in Seq(Byte) /\ t3 \in Seq(Byte) /\ t4 \in Seq(Byte)
      /\ t5 \in Seq(Byte) /\ Len(t1) <= 2 /\ Len(t2) <= 2 /\ Len(t4) <= 2 /\ Len(t5) <= 2
      /\ x \in 1..9 /\ r = [status |-> x, texts |-> <<t1, t2, t3, t4, t5>>]
  BY Zenon DEF Short
<1>1. r.texts = <<t1, t2, t3, t4, t5>>
  BY <1>0
<1>2. /\ IsValidWireString(t1) /\ IsValidWireString(t2) /\ IsValidWireString(t3)
      /\ IsValidWireString(t4) /\ IsValidWireString(t5)
  <2>1. AllValid(<<t1, t2, t3, t4, t5>>)
    BY <1>1, Zenon
  <2>2. QED
    BY <2>1, FiveTexts
<1>3. /\ IsResult(r)
      /\ Len(EncodeResult(r)) = 12 + Len(t1) + Len(t2) + Len(t3) + Len(t4) + Len(t5)
  <2>1. ResultOf(r, x, t1, t2, t3, t4, t5)
    BY <1>0, <1>2, Zenon DEF ResultOf, IsText
  <2>2. QED
    BY <2>1, ResultBytesAre
<1>4. Len(t3) <= 4096
  BY <1>2, LongestText
<1>5. PICK n1 \in Nat, n2 \in Nat, n3 \in Nat, n4 \in Nat, n5 \in Nat :
          n1 = Len(t1) /\ n2 = Len(t2) /\ n3 = Len(t3) /\ n4 = Len(t4) /\ n5 = Len(t5)
  BY <1>0
<1>6. 12 + n1 + n2 + n3 + n4 + n5 <= ShortResult
  BY <1>0, <1>4, <1>5, SMT DEF ShortResult
<1>7. QED
  BY <1>3, <1>5, <1>6

\* Every result of the bound that has texts the protocol allows has a short payload.
LEMMA ResultsAreShort ==
    ASSUME NEW r \in Results, AllValid(r.texts)
    PROVE  IsResult(r) /\ Len(EncodeResult(r)) <= ShortResult
<1>1. CASE r = NoResult
  <2>1. Len(EncodeResult(r)) = 1
    BY <1>1, NoText, NoResultRead, Zenon
  <2>2. 1 <= ShortResult
    BY SMT DEF ShortResult
  <2>3. QED
    BY <1>1, <2>1, <2>2, Zenon DEF IsResult
<1>3. CASE r = [status |-> 7, texts |-> <<<<>>, <<65>>, <<195, 169>>, <<>>, <<65, 66>>>>]
  <2>1. /\ <<65>> \in Seq(Byte) /\ Len(<<65>>) <= 2
        /\ <<195, 169>> \in Seq(Byte)
        /\ <<65, 66>> \in Seq(Byte) /\ Len(<<65, 66>>) <= 2
    BY SMT DEF Byte
  <2>2. 7 \in 1..9 /\ <<>> \in Seq(Byte) /\ Len(<<>>) <= 2
    OBVIOUS
  <2>3. PICK a \in Seq(Byte), b \in Seq(Byte), c \in Seq(Byte), e \in Seq(Byte), x \in 1..9 :
            /\ a = <<65>> /\ b = <<195, 169>> /\ c = <<65, 66>> /\ e = <<>> /\ x = 7
            /\ Len(a) <= 2 /\ Len(c) <= 2 /\ Len(e) <= 2
    BY <2>1, <2>2, Zenon
  <2>4. r = [status |-> x, texts |-> <<e, a, b, e, c>>]
    BY <1>3, <2>3, Zenon
  <2>5. QED
    <3>1. Short(r, x, e, a, b, e, c)
      BY <2>3, <2>4, Zenon DEF Short
    <3>2. QED
      BY <3>1, ShortIs
<1>4. ASSUME NEW t \in Texts,
             r = [status |-> 1, texts |-> [i \in 1..5 |-> IF i = 3 THEN t ELSE <<>>]]
      PROVE  IsResult(r) /\ Len(EncodeResult(r)) <= ShortResult
  <2>1. [i \in 1..5 |-> IF i = 3 THEN t ELSE <<>>] = <<<<>>, <<>>, t, <<>>, <<>>>>
    <3>1. PICK e : e = <<>>
      OBVIOUS
    <3>2. [i \in 1..5 |-> IF i = 3 THEN t ELSE e] = <<e, e, t, e, e>>
      OBVIOUS
    <3>3. QED
      BY <3>1, <3>2, Zenon
  <2>2. 1 \in 1..9 /\ <<>> \in Seq(Byte) /\ Len(<<>>) <= 2
    OBVIOUS
  <2>3. t \in Seq(Byte)
    BY BytesAssumption
  <2>4. r = [status |-> 1, texts |-> <<<<>>, <<>>, t, <<>>, <<>>>>]
    BY <1>4, <2>1, Zenon
  <2>5. QED
    <3>1. Short(r, 1, <<>>, <<>>, t, <<>>, <<>>)
      BY <2>2, <2>3, <2>4, Zenon DEF Short
    <3>2. QED
      BY <3>1, ShortIs
<1>5. QED
  <2>1. \/ r = NoResult
        \/ r = [status |-> 7, texts |-> <<<<>>, <<65>>, <<195, 169>>, <<>>, <<65, 66>>>>]
        \/ \E t \in Texts : r = [status |-> 1, texts |-> [i \in 1..5 |-> IF i = 3 THEN t ELSE <<>>]]
    BY Zenon DEF Results
  <2>2. QED
    BY <1>1, <1>3, <1>4, <2>1, Zenon

-----------------------------------------------------------------------------
(* The replies of the runtime.                                             *)

IsSettings(s) == Built(s) /\ s.result \in Results

LEMMA SnapshotIsSound ==
    ASSUME NEW s, IsSettings(s), ToWireSnapshot(s) # <<>>
    PROVE  /\ FieldsAreValid(s) /\ IsResult(s.result)
           /\ EncodeSnapshotPayload(s) \in Seq(Byte)
           /\ Len(EncodeSnapshotPayload(s)) \in 0..MaxPayloadBytes
<1>1. /\ \A f \in DOMAIN IsValid : s[f] \in IsValid[f]
      /\ AllValid(s.result.texts)
  BY Zenon DEF ToWireSnapshot, AllValid
<1>2. FieldsAreValid(s)
  <2>1. /\ s.startWithWindows \in IsValid.startWithWindows /\ s.hudEnabled \in IsValid.hudEnabled
        /\ s.hudSizeOffset \in IsValid.hudSizeOffset /\ s.hudFont \in IsValid.hudFont
        /\ s.visibilityMode \in IsValid.visibilityMode /\ s.alignment \in IsValid.alignment
        /\ s.backgroundMode \in IsValid.backgroundMode
        /\ s.backgroundOpacityPercent \in IsValid.backgroundOpacityPercent
        /\ s.intelVrrRangeFixEnabled \in IsValid.intelVrrRangeFixEnabled
    BY <1>1, ValidValues
  <2>2. QED
    BY <2>1, ValidValues, Zenon DEF FieldsAreValid
<1>3. IsResult(s.result) /\ Len(EncodeResult(s.result)) <= ShortResult
  BY <1>1, ResultsAreShort, Zenon DEF IsSettings
<1> DEFINE e == EncodeResult(s.result)
<1>4. e \in Seq(Byte)
  BY <1>3, ResultBytes
<1>5. EncodeSnapshotPayload(s) \in Seq(Byte) /\ Len(EncodeSnapshotPayload(s)) = 13 + Len(e)
  BY <1>2, <1>4, ValidFits, PayloadIs
<1>6. Len(EncodeSnapshotPayload(s)) \in 0..MaxPayloadBytes
  <2> HIDE DEF e
  <2>1. PICK n \in Nat : n = Len(e)
    BY <1>4
  <2>2. n <= ShortResult
    BY <1>3, <2>1, Zenon DEF e
  <2>3. 13 + n \in 0..MaxPayloadBytes
    <3>1. PICK m \in Int, k \in Int : m = MaxPayloadBytes /\ k = 13 + n
      BY SMT DEF MaxPayloadBytes
    <3>2. 0 <= k /\ k <= m
      BY <2>2, <3>1, SMT DEF ShortResult, MaxPayloadBytes
    <3>3. k \in 0..m
      BY <3>2, SMT
    <3>4. QED
      BY <3>1, <3>3, Zenon
  <2>4. QED
    BY <1>5, <2>1, <2>3, Zenon
<1>7. QED
  BY <1>2, <1>3, <1>5, <1>6

\* An answer of the runtime which has the settings s.
IsReply(r, s) ==
    /\ r.id # 0 /\ Fits(r.id, 4) /\ Fits(r.operation, 2) /\ r.status \in 0..8
    /\ IsKnownOperation(r.operation) \/ r.status = 3
    /\ r.status = 0 /\ r.operation = 1 => r.info = RuntimeInfo
    /\ r.status = 0 /\ r.operation \notin {1, 20} => r.snapshot = s /\ ToWireSnapshot(s) # <<>>

LEMMA ReplyOperation ==
    ASSUME NEW r, NEW s, IsReply(r, s), r.status = 0
    PROVE  r.operation \in FrontEndOperations \/ r.operation = 20
<1>1. 0 # 3
  BY SMT
<1>2. QED
  BY <1>1, KnownOperations, Zenon DEF IsReply

LEMMA ShutdownHasNoSnapshot == ~ResponseCarriesSnapshot(20) /\ 20 # 1 /\ 20 # 2
<1>1. 20 # 1 /\ 20 # 2
  BY SMT
<1>2. QED
  BY <1>1, OperationTable, Zenon DEF Known, ResponseCarriesSnapshot

LEMMA ReplyPayload ==
    ASSUME NEW r, NEW s, IsReply(r, s), IsSettings(s)
    PROVE  /\ ResponsePayload(r) \in Seq(Byte)
           /\ Len(ResponsePayload(r)) \in 0..MaxPayloadBytes
<1>1. 0 \in 0..MaxPayloadBytes /\ 9 \in 0..MaxPayloadBytes
  BY SMT DEF MaxPayloadBytes
<1>2. CASE r.status # 0
  BY <1>1, <1>2, NoText, PayloadOf, Zenon
<1>3. CASE r.status = 0 /\ r.operation = 1
  <2>1. ResponsePayload(r) = EncodeRuntimeInfoPayload(RuntimeInfo)
    BY <1>3, PayloadOf, Zenon DEF IsReply
  <2>2. QED
    BY <1>1, <2>1, InfoUnderstood, Zenon
<1>4. CASE r.status = 0 /\ r.operation = 20
  BY <1>1, <1>4, NoText, ShutdownHasNoSnapshot, PayloadOf, Zenon
<1>5. CASE r.status = 0 /\ r.operation # 1 /\ r.operation # 20
  <2>1. r.operation \in FrontEndOperations
    BY <1>5, ReplyOperation, Zenon
  <2>2. ResponseCarriesSnapshot(r.operation)
    BY <1>5, <2>1, OperationsAreAnswered, Zenon
  <2>3. r.snapshot = s /\ ToWireSnapshot(s) # <<>>
    BY <1>5, Zenon DEF IsReply
  <2>4. ResponsePayload(r) = EncodeSnapshotPayload(s)
    BY <1>5, <2>2, <2>3, PayloadOf, Zenon
  <2>5. QED
    BY <2>3, <2>4, SnapshotIsSound, Zenon
<1>6. QED
  BY <1>2, <1>3, <1>4, <1>5, Zenon

\* The frame of an answer, which the front end takes for its answer.
LEMMA ReplyFrame ==
    ASSUME NEW r, NEW s, IsReply(r, s), IsSettings(s)
    PROVE  /\ EncodeControlResponse(r) \in Seq(Byte)
           /\ FrameRead(EncodeControlResponse(r), 2, r.operation, r.id, r.status, ResponsePayload(r))
<1> DEFINE p == ResponsePayload(r)
           b == EncodeControlResponse(r)
           op == r.operation
           id == r.id
           status == r.status
<1>1. p \in Seq(Byte) /\ Fits(Len(p), 4) /\ ~(Len(p) > MaxPayloadBytes)
  BY ReplyPayload, SizesFit, Zenon
<1>2. /\ id # 0 /\ Fits(id, 4) /\ Fits(op, 2) /\ status \in 0..8
      /\ IsKnownOperation(op) \/ status = 3
  BY Zenon DEF IsReply
<1>3. Fits(2, 2) /\ Fits(status, 4)
  <2>1. Fits(2, 2)
    BY SMT DEF Fits
  <2>2. QED
    BY <1>2, <2>1, StatusesFit
<1>4. b = WriteHeader(2, op, id, status, Len(p)) \o p
  <2>1. IsKnownStatus(status)
    BY <1>2, Zenon DEF IsKnownStatus
  <2>2. QED
    BY <1>1, <1>2, <2>1, AnswerEncoded, Zenon
<1> HIDE DEF p, b, op, id, status
<1>5. /\ WriteHeader(2, op, id, status, Len(p)) \o p \in Seq(Byte)
      /\ \A c \in Seq(Byte) : c = WriteHeader(2, op, id, status, Len(p)) \o p
                                <=> FrameRead(c, 2, op, id, status, p)
  BY <1>1, <1>2, <1>3, FrameIs
<1>6. b \in Seq(Byte) /\ FrameRead(b, 2, op, id, status, p)
  BY <1>4, <1>5, Zenon
<1>7. QED
  BY <1>6, Zenon DEF b, op, id, status, p

LEMMA ReplyIsAnswer ==
    ASSUME NEW r, NEW s, IsReply(r, s), IsSettings(s),
           NEW b, b = EncodeControlResponse(r)
    PROVE  /\ IsAnswer(b, r.id, r.operation) /\ Num(b, 17, 4) = r.status
           /\ SubSeq(b, 25, Len(b)) = ResponsePayload(r)
<1> DEFINE p == ResponsePayload(r)
<1>1. /\ b \in Seq(Byte) /\ FrameRead(b, 2, r.operation, r.id, r.status, p)
      /\ p \in Seq(Byte) /\ Len(p) \in 0..MaxPayloadBytes
  BY ReplyFrame, ReplyPayload, Zenon
<1> HIDE DEF p
<1>2. /\ HeaderRead(b, 2, r.operation, r.id, r.status, Len(p))
      /\ Len(b) = 24 + Len(p) /\ SubSeq(b, 25, Len(b)) = p
  BY <1>1, Zenon DEF FrameRead
<1>3. Len(b) >= 24
  <2>1. PICK n \in Nat : n = Len(p)
    BY <1>1
  <2>2. 24 + n >= 24
    BY SMT
  <2>3. QED
    BY <1>2, <2>1, <2>2, Zenon
<1>4. r.id # 0 /\ r.status \in 0..8
  BY Zenon DEF IsReply
<1>5. IsAnswer(b, r.id, r.operation) /\ Num(b, 17, 4) = r.status
  BY <1>1, <1>2, <1>3, <1>4, Zenon DEF IsAnswer, HeaderRead, HeaderSize, ControlStatuses
<1>6. QED
  BY <1>2, <1>5, Zenon DEF p

Understood(c, r, s) ==
    /\ c.outcome = (IF r.status = 0 THEN "Ok" ELSE "ProtocolError")
    /\ c.status = r.status
    /\ r.status = 0 => IF r.operation = 1 THEN c.info = RuntimeInfo ELSE c.snapshot = <<s>>

LEMMA ReplyUnderstood ==
    ASSUME NEW r, NEW s, IsReply(r, s), IsSettings(s), r.operation # 20
    PROVE  Understood(DecodeResponse(EncodeControlResponse(r), r.id, r.operation), r, s)
<1> DEFINE b == EncodeControlResponse(r)
           c == DecodeResponse(b, r.id, r.operation)
           p == ResponsePayload(r)
<1>1. b \in Seq(Byte) /\ IsAnswer(b, r.id, r.operation)
  BY ReplyFrame, ReplyIsAnswer, Zenon
<1>2. Num(b, 17, 4) = r.status /\ SubSeq(b, 25, Len(b)) = p
  BY ReplyIsAnswer, Zenon
<1>3. BecomesOf(c, r.operation, r.status, p)
  <2>1. BecomesOf(c, r.operation, Num(b, 17, 4), SubSeq(b, 25, Len(b)))
    BY <1>1, ResponseDecoded
  <2>2. QED
    BY <1>2, <2>1, Zenon
<1> HIDE DEF b, c, p
<1>4. CASE r.status # 0
  <2>1. p = <<>>
    BY <1>4, PayloadOf, Zenon DEF p
  <2>2. QED
    BY <1>3, <1>4, <2>1, Zenon DEF BecomesOf, Understood, c, b
<1>5. CASE r.status = 0 /\ r.operation = 1
  <2>1. p = EncodeRuntimeInfoPayload(RuntimeInfo)
    BY <1>5, PayloadOf, Zenon DEF IsReply, p
  <2>2. InfoDecoded(c, RuntimeInfo)
    BY <1>3, <1>5, <2>1, InfoUnderstood, Zenon DEF BecomesOf
  <2>3. c.outcome = "Ok" /\ c.status = 0 /\ c.info = RuntimeInfo
    BY <2>2, Zenon DEF InfoDecoded
  <2>4. QED
    BY <1>5, <2>3, Zenon DEF Understood, c, b
<1>6. CASE r.status = 0 /\ r.operation # 1
  <2>1. r.operation \in FrontEndOperations
    BY <1>6, ReplyOperation, Zenon
  <2>2. ResponseCarriesSnapshot(r.operation)
    BY <1>6, <2>1, OperationsAreAnswered, Zenon
  <2>3. r.snapshot = s /\ ToWireSnapshot(s) # <<>>
    BY <1>6, Zenon DEF IsReply
  <2>4. p = EncodeSnapshotPayload(s)
    BY <1>6, <2>2, <2>3, PayloadOf, Zenon DEF p
  <2>5. c = DecodeSnapshot(p)
    BY <1>3, <1>6, <2>1, Zenon DEF BecomesOf
  <2>6. Built(s) /\ FieldsAreValid(s) /\ IsResult(s.result)
    BY <2>3, SnapshotIsSound, Zenon DEF IsSettings
  <2>7. c.outcome = "Ok" /\ c.status = 0 /\ c.snapshot = <<s>>
    BY <2>4, <2>5, <2>6, SnapshotDecoded
  <2>8. QED
    BY <1>6, <2>7, Zenon DEF Understood, c, b
<1>7. QED
  BY <1>4, <1>5, <1>6, Zenon DEF c, b

-----------------------------------------------------------------------------
(* The requests of the front end.                                          *)

\* What a request says, and its frame.
Says(r, op, f, w) ==
    /\ op = ControlOperation[r.name] /\ Known(op, f, w) /\ r.id # 0 /\ Fits(r.id, 4)
    /\ r.value \in Int /\ (w # 0 => r.value \in IsValid[f] /\ Fits(r.value, w))
    /\ EncodeRequest(r) = WriteHeader(1, op, r.id, 0, w) \o LE(r.value, w)

LEMMA NumbersOfNames ==
    /\ ControlOperation["GetRuntimeInfo"] = 1 /\ ControlOperation["GetSettingsSnapshot"] = 2
    /\ ControlOperation["SetStartWithWindows"] = 10 /\ ControlOperation["SetHudEnabled"] = 11
    /\ ControlOperation["SetHudVisibilityMode"] = 12 /\ ControlOperation["SetHudSizeOffset"] = 13
    /\ ControlOperation["SetHudFont"] = 14 /\ ControlOperation["SetHudAlignment"] = 15
    /\ ControlOperation["SetHudBackgroundMode"] = 16 /\ ControlOperation["PreviewHudOpacity"] = 17
    /\ ControlOperation["CommitHudOpacity"] = 18
    /\ ControlOperation["SetIntelVrrRangeFixEnabled"] = 19
BY DEF ControlOperation

Setters == {"SetStartWithWindows", "SetHudEnabled", "SetIntelVrrRangeFixEnabled",
            "SetHudVisibilityMode", "SetHudFont", "SetHudAlignment", "SetHudBackgroundMode",
            "SetHudSizeOffset", "PreviewHudOpacity", "CommitHudOpacity"}

LEMMA NamesCarry ==
    /\ DOMAIN Carries = Setters
    /\ Carries["SetStartWithWindows"] = "flag" /\ Carries["SetHudEnabled"] = "flag"
    /\ Carries["SetIntelVrrRangeFixEnabled"] = "flag"
    /\ Carries["SetHudVisibilityMode"] = "visibilityMode" /\ Carries["SetHudFont"] = "font"
    /\ Carries["SetHudAlignment"] = "alignment" /\ Carries["SetHudBackgroundMode"] = "backgroundMode"
    /\ Carries["SetHudSizeOffset"] = "hudSizeOffset"
    /\ Carries["PreviewHudOpacity"] = "opacityPercent" /\ Carries["CommitHudOpacity"] = "opacityPercent"
BY DEF Carries, Setters

LEMMA WireWidths ==
    /\ \A v \in WireValue["flag"] : v \in Int /\ Fits(v, 1) /\ v \in Byte
    /\ \A v \in WireValue["visibilityMode"] : v \in Int /\ Fits(v, 1) /\ v \in Byte
    /\ \A v \in WireValue["font"] : v \in Int /\ Fits(v, 1) /\ v \in Byte
    /\ \A v \in WireValue["alignment"] : v \in Int /\ Fits(v, 1) /\ v \in Byte
    /\ \A v \in WireValue["backgroundMode"] : v \in Int /\ Fits(v, 1) /\ v \in Byte
    /\ \A v \in WireValue["hudSizeOffset"] : v \in Int /\ Fits(v, 4)
    /\ \A v \in WireValue["opacityPercent"] : v \in Int /\ Fits(v, 2)
<1>1. /\ \A v \in {0, 1} : v \in Int /\ Fits(v, 1) /\ v \in Byte
      /\ \A v \in {1, 2} : v \in Int /\ Fits(v, 1) /\ v \in Byte
      /\ \A v \in {1, 2, 3} : v \in Int /\ Fits(v, 1) /\ v \in Byte
      /\ \A v \in {-2, -1, 0, 1, 2} : v \in Int /\ Fits(v, 4)
  BY SMT DEF Fits, Byte
<1>2. \A v \in {50, 55, 60, 65, 70, 75, 80, 85, 90, 95, 100} : v \in Int /\ Fits(v, 2)
  BY SMT DEF Fits
<1>3. /\ WireValue["flag"] = {0, 1} /\ WireValue["visibilityMode"] = {1, 2}
      /\ WireValue["alignment"] = {1, 2, 3} /\ WireValue["font"] = {1, 2}
      /\ WireValue["backgroundMode"] = {1, 2} /\ WireValue["hudSizeOffset"] = {-2, -1, 0, 1, 2}
      /\ WireValue["opacityPercent"] = {50, 55, 60, 65, 70, 75, 80, 85, 90, 95, 100}
  BY DEF WireValue
<1>4. QED
  BY <1>1, <1>2, <1>3, Zenon

LEMMA OneByteOf ==
    ASSUME NEW v \in Byte
    PROVE  LE(v, 1) = <<v>>
<1>1. v \in Int /\ 0 <= v /\ v <= 255 /\ 1 \in 0..4
  BY SMT DEF Byte
<1>2. LE(v, 1) \in Seq(Byte) /\ Len(LE(v, 1)) = 1 /\ LE(v, 1)[1] = v % 256
  BY <1>1, LEIs
<1>3. v % 256 = v
  BY <1>1, OneByte
<1>4. PICK s : s = LE(v, 1)
  OBVIOUS
<1>5. s = <<v>>
  BY <1>2, <1>3, <1>4
<1>6. QED
  BY <1>4, <1>5

\* The frame of a request, by the kind of its value.
FramedAs(r, op) ==
    /\ r.name \notin Setters =>
          EncodeRequest(r) = WriteHeader(1, op, r.id, 0, 0) \o LE(r.value, 0)
    /\ r.name \in Setters /\ Carries[r.name] = "hudSizeOffset" =>
          EncodeRequest(r) = WriteHeader(1, op, r.id, 0, 4) \o LE(r.value, 4)
    /\ r.name \in Setters /\ Carries[r.name] = "opacityPercent" =>
          EncodeRequest(r) = WriteHeader(1, op, r.id, 0, 2) \o LE(r.value, 2)
    /\ r.name \in Setters /\ Carries[r.name] \notin {"hudSizeOffset", "opacityPercent"}
          /\ r.value \in Byte =>
          EncodeRequest(r) = WriteHeader(1, op, r.id, 0, 1) \o LE(r.value, 1)

LEMMA FrameOfRequest ==
    ASSUME NEW r, r.value \in Int
    PROVE  FramedAs(r, ControlOperation[r.name])
<1> DEFINE op == ControlOperation[r.name]
<1> DEFINE frameOf(p) ==
               Magic \o LE(ProtocolVersion, 2) \o LE(HeaderSize, 2) \o LE(1, 2)
               \o LE(ControlOperation[r.name], 2) \o LE(r.id, 4) \o LE(0, 4) \o LE(Len(p), 4) \o p
           payload == IF r.name \notin DOMAIN Carries THEN <<>>
                      ELSE CASE Carries[r.name] = "hudSizeOffset" -> LE(r.value, 4)
                             [] Carries[r.name] = "opacityPercent" -> LE(r.value, 2)
                             [] OTHER -> <<r.value>>
<1>1. EncodeRequest(r) = frameOf(payload)
  BY Zenon DEF EncodeRequest
<1>2. \A p, n : n = Len(p) => frameOf(p) = WriteHeader(1, op, r.id, 0, n) \o p
  BY Zenon DEF WriteHeader
<1> HIDE DEF frameOf
<1>3. /\ LE(r.value, 0) = <<>> /\ Len(LE(r.value, 2)) = 2 /\ Len(LE(r.value, 4)) = 4
      /\ r.value \in Byte => LE(r.value, 1) = <<r.value>> /\ Len(<<r.value>>) = 1
  <2>1. PICK v \in Int : v = r.value
    OBVIOUS
  <2>2. 2 \in 0..4 /\ 4 \in 0..4
    BY SMT
  <2>3. Len(LE(v, 2)) = 2 /\ Len(LE(v, 4)) = 4
    BY <2>2, LEIs, Zenon
  <2>4. LE(v, 0) = <<>>
    BY NoBytes
  <2>5. v \in Byte => LE(v, 1) = <<v>> /\ Len(<<v>>) = 1
    BY OneByteOf
  <2>6. QED
    BY <2>1, <2>3, <2>4, <2>5, Zenon
<1> SUFFICES FramedAs(r, op)
  BY Zenon DEF op
<1> HIDE DEF op
<1>4. DOMAIN Carries = Setters /\ "hudSizeOffset" # "opacityPercent"
  BY NamesCarry
<1>5. CASE r.name \notin Setters
  <2>1. payload = <<>>
    BY <1>4, <1>5, Zenon
  <2> HIDE DEF payload
  <2>2. frameOf(payload) = WriteHeader(1, op, r.id, 0, 0) \o payload
    BY <1>2, <2>1, NoText, Zenon
  <2>3. QED
    BY <1>1, <1>3, <1>5, <2>1, <2>2, Zenon DEF FramedAs
<1>6. CASE r.name \in Setters /\ Carries[r.name] = "hudSizeOffset"
  BY <1>1, <1>2, <1>3, <1>4, <1>6, Zenon DEF FramedAs
<1>7. CASE r.name \in Setters /\ Carries[r.name] = "opacityPercent"
  BY <1>1, <1>2, <1>3, <1>4, <1>7, Zenon DEF FramedAs
<1>8. CASE r.name \in Setters /\ Carries[r.name] \notin {"hudSizeOffset", "opacityPercent"}
  BY <1>1, <1>2, <1>3, <1>4, <1>8, Zenon DEF FramedAs
<1>9. QED
  BY <1>5, <1>6, <1>7, <1>8, Zenon

LEMMA RequestsAre ==
    ASSUME NEW r \in Requests
    PROVE  \/ /\ r.name \in {"GetRuntimeInfo", "GetSettingsSnapshot"}
              /\ r.id = 1 /\ r.value = 0
           \/ r.name \in Setters /\ r.id = 258 /\ r.value \in WireValue[Carries[r.name]]
<1>1. CASE r \in {[name |-> name, id |-> 1, value |-> 0] :
                     name \in {"GetRuntimeInfo", "GetSettingsSnapshot"}}
  <2>1. PICK name \in {"GetRuntimeInfo", "GetSettingsSnapshot"} :
            r = [name |-> name, id |-> 1, value |-> 0]
    BY <1>1, Zenon
  <2>2. r.name = name /\ r.id = 1 /\ r.value = 0
    BY <2>1
  <2>3. QED
    BY <2>2, Zenon
<1>2. CASE r \in UNION {{[name |-> name, id |-> 258, value |-> v] : v \in WireValue[Carries[name]]} :
                            name \in DOMAIN Carries}
  <2>1. PICK name \in DOMAIN Carries :
            r \in {[name |-> name, id |-> 258, value |-> v] : v \in WireValue[Carries[name]]}
    BY <1>2, Zenon
  <2>2. PICK v \in WireValue[Carries[name]] : r = [name |-> name, id |-> 258, value |-> v]
    BY <2>1, Zenon
  <2>3. r.name = name /\ r.id = 258 /\ r.value = v
    BY <2>2
  <2>4. QED
    BY <2>1, <2>2, <2>3, NamesCarry, Zenon
<1>3. QED
  BY <1>1, <1>2, Zenon DEF Requests

LEMMA QuestionSays ==
    ASSUME NEW r, r.name \notin Setters, r.id = 1, r.value = 0,
           NEW op, ControlOperation[r.name] = op, Known(op, "none", 0)
    PROVE  Says(r, op, "none", 0)
<1>1. r.id # 0 /\ Fits(r.id, 4) /\ r.value \in Int
  BY SMT DEF Fits
<1>2. EncodeRequest(r) = WriteHeader(1, op, r.id, 0, 0) \o LE(r.value, 0)
  <2>1. EncodeRequest(r) = WriteHeader(1, ControlOperation[r.name], r.id, 0, 0) \o LE(r.value, 0)
    BY <1>1, FrameOfRequest, Zenon DEF FramedAs
  <2>2. QED
    BY <2>1, Zenon
<1>3. QED
  BY <1>1, <1>2, Zenon DEF Says

\* The kinds of values, and their widths.
KindWidth(k, w) ==
    /\ w # 0 /\ \A v \in WireValue[k] : v \in Int /\ Fits(v, w)
    /\ \/ k = "hudSizeOffset" /\ w = 4
       \/ k = "opacityPercent" /\ w = 2
       \/ /\ k \notin {"hudSizeOffset", "opacityPercent"} /\ w = 1
          /\ \A v \in WireValue[k] : v \in Byte

LEMMA KindWidths ==
    /\ KindWidth("flag", 1) /\ KindWidth("visibilityMode", 1) /\ KindWidth("font", 1)
    /\ KindWidth("alignment", 1) /\ KindWidth("backgroundMode", 1)
    /\ KindWidth("hudSizeOffset", 4) /\ KindWidth("opacityPercent", 2)
<1>1. 1 # 0 /\ 2 # 0 /\ 4 # 0
  BY SMT
<1>2. /\ "flag" \notin {"hudSizeOffset", "opacityPercent"}
      /\ "visibilityMode" \notin {"hudSizeOffset", "opacityPercent"}
      /\ "font" \notin {"hudSizeOffset", "opacityPercent"}
      /\ "alignment" \notin {"hudSizeOffset", "opacityPercent"}
      /\ "backgroundMode" \notin {"hudSizeOffset", "opacityPercent"}
  OBVIOUS
<1>3. KindWidth("flag", 1) /\ KindWidth("visibilityMode", 1) /\ KindWidth("font", 1)
  BY <1>1, <1>2, WireWidths, Zenon DEF KindWidth
<1>4. KindWidth("alignment", 1) /\ KindWidth("backgroundMode", 1)
  BY <1>1, <1>2, WireWidths, Zenon DEF KindWidth
<1>5. KindWidth("hudSizeOffset", 4) /\ KindWidth("opacityPercent", 2)
  BY <1>1, WireWidths, Zenon DEF KindWidth
<1>6. QED
  BY <1>3, <1>4, <1>5

\* A request that sets a setting, with a value of some kind.
Sets(r, op, f, k, w) ==
    /\ r.name \in Setters /\ ControlOperation[r.name] = op /\ Known(op, f, w)
    /\ Carries[r.name] = k /\ IsValid[f] = WireValue[k] /\ KindWidth(k, w)

LEMMA SetterSays ==
    ASSUME NEW r \in Requests, NEW op, NEW f, NEW k, NEW w, Sets(r, op, f, k, w)
    PROVE  Says(r, op, f, w)
<1>1. 258 # 0 /\ Fits(258, 4)
  BY SMT DEF Fits
<1>2. /\ r.name \in Setters /\ ControlOperation[r.name] = op /\ Known(op, f, w)
      /\ Carries[r.name] = k /\ IsValid[f] = WireValue[k] /\ KindWidth(k, w)
  BY Zenon DEF Sets
<1>3. r.id = 258 /\ r.value \in WireValue[k]
  <2>1. "GetRuntimeInfo" \notin Setters /\ "GetSettingsSnapshot" \notin Setters
    BY DEF Setters
  <2>2. r.name \notin {"GetRuntimeInfo", "GetSettingsSnapshot"}
    BY <1>2, <2>1
  <2>3. r.id = 258 /\ r.value \in WireValue[Carries[r.name]]
    BY <2>2, RequestsAre
  <2>4. QED
    BY <1>2, <2>3, Zenon
<1>4. w # 0 /\ r.value \in IsValid[f] /\ r.value \in Int /\ Fits(r.value, w)
  BY <1>2, <1>3, Zenon DEF KindWidth
<1>5. EncodeRequest(r) = WriteHeader(1, op, r.id, 0, w) \o LE(r.value, w)
  <2> DEFINE o == ControlOperation[r.name]
             c == Carries[r.name]
  <2>1. /\ c = "hudSizeOffset" =>
               EncodeRequest(r) = WriteHeader(1, o, r.id, 0, 4) \o LE(r.value, 4)
        /\ c = "opacityPercent" =>
               EncodeRequest(r) = WriteHeader(1, o, r.id, 0, 2) \o LE(r.value, 2)
        /\ c \notin {"hudSizeOffset", "opacityPercent"} /\ r.value \in Byte =>
               EncodeRequest(r) = WriteHeader(1, o, r.id, 0, 1) \o LE(r.value, 1)
    BY <1>2, <1>4, FrameOfRequest, Zenon DEF FramedAs
  <2>2. o = op /\ c = k
    BY <1>2
  <2> HIDE DEF o, c
  <2>3. QED
    BY <1>2, <1>3, <2>1, <2>2, Zenon DEF KindWidth
<1>6. QED
  BY <1>1, <1>2, <1>3, <1>4, <1>5, Zenon DEF Says

\* Every request of the front end is that of an operation with a value it allows.
LEMMA RequestsSay ==
    ASSUME NEW r \in Requests
    PROVE  /\ r.name = "GetRuntimeInfo" => Says(r, 1, "none", 0)
           /\ r.name = "GetSettingsSnapshot" => Says(r, 2, "none", 0)
           /\ r.name = "SetStartWithWindows" => Says(r, 10, "startWithWindows", 1)
           /\ r.name = "SetHudEnabled" => Says(r, 11, "hudEnabled", 1)
           /\ r.name = "SetHudVisibilityMode" => Says(r, 12, "visibilityMode", 1)
           /\ r.name = "SetHudSizeOffset" => Says(r, 13, "hudSizeOffset", 4)
           /\ r.name = "SetHudFont" => Says(r, 14, "hudFont", 1)
           /\ r.name = "SetHudAlignment" => Says(r, 15, "alignment", 1)
           /\ r.name = "SetHudBackgroundMode" => Says(r, 16, "backgroundMode", 1)
           /\ r.name = "PreviewHudOpacity" => Says(r, 17, "backgroundOpacityPercent", 2)
           /\ r.name = "CommitHudOpacity" => Says(r, 18, "backgroundOpacityPercent", 2)
           /\ r.name = "SetIntelVrrRangeFixEnabled" => Says(r, 19, "intelVrrRangeFixEnabled", 1)
<1>1. r.name = "GetRuntimeInfo" \/ r.name = "GetSettingsSnapshot" => r.name \notin Setters
  BY DEF Setters
<1>2. ASSUME r.name = "GetRuntimeInfo" \/ r.name = "GetSettingsSnapshot"
      PROVE  r.id = 1 /\ r.value = 0
  BY <1>1, <1>2, RequestsAre
<1>3. r.name = "GetRuntimeInfo" => Says(r, 1, "none", 0)
  BY <1>1, <1>2, QuestionSays, NumbersOfNames, OperationTable, Zenon
<1>4. r.name = "GetSettingsSnapshot" => Says(r, 2, "none", 0)
  BY <1>1, <1>2, QuestionSays, NumbersOfNames, OperationTable, Zenon
<1>5. /\ IsValid["startWithWindows"] = WireValue["flag"] /\ IsValid["hudEnabled"] = WireValue["flag"]
      /\ IsValid["intelVrrRangeFixEnabled"] = WireValue["flag"]
      /\ IsValid["hudFont"] = WireValue["font"] /\ IsValid["alignment"] = WireValue["alignment"]
      /\ IsValid["visibilityMode"] = WireValue["visibilityMode"]
      /\ IsValid["backgroundMode"] = WireValue["backgroundMode"]
      /\ IsValid["hudSizeOffset"] = WireValue["hudSizeOffset"]
      /\ IsValid["backgroundOpacityPercent"] = WireValue["opacityPercent"]
  BY ValidValues
<1>6. /\ "SetStartWithWindows" \in Setters /\ "SetHudEnabled" \in Setters
      /\ "SetIntelVrrRangeFixEnabled" \in Setters /\ "SetHudVisibilityMode" \in Setters
      /\ "SetHudFont" \in Setters /\ "SetHudAlignment" \in Setters
      /\ "SetHudBackgroundMode" \in Setters /\ "SetHudSizeOffset" \in Setters
      /\ "PreviewHudOpacity" \in Setters /\ "CommitHudOpacity" \in Setters
  BY DEF Setters
<1>7. r.name = "SetStartWithWindows" => Sets(r, 10, "startWithWindows", "flag", 1)
  BY <1>5, <1>6, NamesCarry, NumbersOfNames, OperationTable, KindWidths, Zenon DEF Sets
<1>8. r.name = "SetHudEnabled" => Sets(r, 11, "hudEnabled", "flag", 1)
  BY <1>5, <1>6, NamesCarry, NumbersOfNames, OperationTable, KindWidths, Zenon DEF Sets
<1>9. r.name = "SetHudVisibilityMode" => Sets(r, 12, "visibilityMode", "visibilityMode", 1)
  BY <1>5, <1>6, NamesCarry, NumbersOfNames, OperationTable, KindWidths, Zenon DEF Sets
<1>10. r.name = "SetHudSizeOffset" => Sets(r, 13, "hudSizeOffset", "hudSizeOffset", 4)
  BY <1>5, <1>6, NamesCarry, NumbersOfNames, OperationTable, KindWidths, Zenon DEF Sets
<1>11. r.name = "SetHudFont" => Sets(r, 14, "hudFont", "font", 1)
  BY <1>5, <1>6, NamesCarry, NumbersOfNames, OperationTable, KindWidths, Zenon DEF Sets
<1>12. r.name = "SetHudAlignment" => Sets(r, 15, "alignment", "alignment", 1)
  BY <1>5, <1>6, NamesCarry, NumbersOfNames, OperationTable, KindWidths, Zenon DEF Sets
<1>13. r.name = "SetHudBackgroundMode" => Sets(r, 16, "backgroundMode", "backgroundMode", 1)
  BY <1>5, <1>6, NamesCarry, NumbersOfNames, OperationTable, KindWidths, Zenon DEF Sets
<1>14. r.name = "PreviewHudOpacity" => Sets(r, 17, "backgroundOpacityPercent", "opacityPercent", 2)
  BY <1>5, <1>6, NamesCarry, NumbersOfNames, OperationTable, KindWidths, Zenon DEF Sets
<1>15. r.name = "CommitHudOpacity" => Sets(r, 18, "backgroundOpacityPercent", "opacityPercent", 2)
  BY <1>5, <1>6, NamesCarry, NumbersOfNames, OperationTable, KindWidths, Zenon DEF Sets
<1>16. r.name = "SetIntelVrrRangeFixEnabled" => Sets(r, 19, "intelVrrRangeFixEnabled", "flag", 1)
  BY <1>5, <1>6, NamesCarry, NumbersOfNames, OperationTable, KindWidths, Zenon DEF Sets
<1>17. QED
  BY <1>3, <1>4, <1>7, <1>8, <1>9, <1>10, <1>11, <1>12, <1>13, <1>14, <1>15, <1>16, SetterSays, Zenon

\* What the runtime makes of the frame of a request.
Accepted(d, op, id, w, v) ==
    /\ d.error = 0 /\ d.identity = [operation |-> op, id |-> id]
    /\ w # 0 => d.value = v

LEMMA OperationsFit ==
    ASSUME NEW op, IsKnownOperation(op)
    PROVE  Fits(op, 2)
<1>1. \A n \in {1, 2, 10, 11, 12, 13, 14, 15, 16, 17, 18, 19, 20} : Fits(n, 2)
  BY SMT DEF Fits
<1>2. op \in {1, 2, 10, 11, 12, 13, 14, 15, 16, 17, 18, 19, 20}
  BY KnownOperations DEF FrontEndOperations
<1>3. QED
  BY <1>1, <1>2, Zenon

LEMMA ValueNumber ==
    ASSUME NEW b \in Seq(Byte), NEW w \in {0, 1, 2, 4}, NEW v \in Int, w # 0, Fits(v, w),
           ValueIs(b, w, v)
    PROVE  Num(b, 25, w) = v
<1>1. /\ LE(v, w) \in Seq(Byte) /\ Len(LE(v, w)) = w /\ Len(b) = 24 + w
      /\ SubSeq(b, 25, Len(b)) = LE(v, w)
  BY Zenon DEF ValueIs
<1>2. /\ w \in Nat /\ 25 \in Nat /\ 25 >= 1 /\ 24 + w \in Int /\ 25 - 1 + w = 24 + w
      /\ 24 + w <= 24 + w /\ w \in {1, 2, 4}
  BY SMT
<1>3. Holds(b, 25, LE(v, w))
  <2>1. 24 + w <= Len(b) /\ b \in Seq(Byte)
    BY <1>1, <1>2, Zenon
  <2>2. /\ SubSeq(b, 25, 24 + w) \in Seq(Byte) /\ Len(SubSeq(b, 25, 24 + w)) = w
        /\ \A t \in Seq(Byte) : Len(t) = w => (Holds(b, 25, t) <=> SubSeq(b, 25, 24 + w) = t)
    BY <1>2, <2>1, Slice
  <2>3. QED
    BY <1>1, <2>2, Zenon
<1>4. w \in Widths
  BY <1>2 DEF Widths
<1>5. Holds(b, 25, LE(v, w)) <=> 25 - 1 + w <= Len(b) /\ Num(b, 25, w) = v
  BY <1>2, <1>4, NumberIs
<1>6. QED
  BY <1>3, <1>5, Zenon

LEMMA RequestAccepted ==
    ASSUME NEW r, NEW op, NEW f, NEW w, Says(r, op, f, w)
    PROVE  /\ EncodeRequest(r) \in Seq(Byte)
           /\ Accepted(DecodeControlRequest(EncodeRequest(r)), op, r.id, w, r.value)
<1> DEFINE b == EncodeRequest(r)
           id == r.id
           v == r.value
           p == LE(v, w)
<1>1. /\ IsKnownOperation(op) /\ Setting(op) = f /\ ShapeOf(op) = w /\ id # 0 /\ Fits(id, 4)
      /\ v \in Int /\ (w # 0 => v \in IsValid[f] /\ Fits(v, w))
      /\ b = WriteHeader(1, op, id, 0, w) \o p
  BY Zenon DEF Says, Known
<1>2. w \in {0, 1, 2, 4} /\ w \in 0..4 /\ w \in Int /\ Fits(w, 4) /\ Fits(1, 2) /\ Fits(0, 4)
  <2>1. \A x \in {0, 1, 2, 4} : x \in 0..4 /\ x \in Int /\ Fits(x, 4)
    BY SMT DEF Fits
  <2>2. Fits(1, 2) /\ Fits(0, 4)
    BY SMT DEF Fits
  <2>3. ShapeOf(op) \in {0, 1, 2, 4}
    BY Shapes
  <2>4. w \in {0, 1, 2, 4}
    BY <1>1, <2>3
  <2>5. QED
    BY <2>1, <2>2, <2>4, Zenon
<1> HIDE DEF b, id, v
<1>3. p \in Seq(Byte) /\ Len(p) = w
  BY <1>1, <1>2, LEIs, Zenon
<1>4. Fits(op, 2)
  BY <1>1, OperationsFit
<1>5. b \in Seq(Byte) /\ FrameRead(b, 1, op, id, 0, p)
  <2> HIDE DEF p
  <2>1. Fits(Len(p), 4)
    BY <1>2, <1>3, Zenon
  <2>2. /\ WriteHeader(1, op, id, 0, Len(p)) \o p \in Seq(Byte)
        /\ \A c \in Seq(Byte) : c = WriteHeader(1, op, id, 0, Len(p)) \o p
                                  <=> FrameRead(c, 1, op, id, 0, p)
    BY <1>1, <1>2, <1>3, <1>4, <2>1, FrameIs
  <2>3. QED
    BY <1>1, <1>3, <2>2, Zenon
<1>6. /\ HeaderRead(b, 1, op, id, 0, w) /\ Len(b) = 24 + w /\ SubSeq(b, 25, Len(b)) = p
  BY <1>3, <1>5, Zenon DEF FrameRead
<1>7. ParseHeader(b) = 0
  <2>1. ~(24 + w < 24) /\ w \in 0..MaxPayloadBytes
    BY <1>2, SMT DEF MaxPayloadBytes
  <2>2. RequestFrame(b)
    BY <1>1, <1>6, <2>1, Zenon DEF RequestFrame, HeaderRead, HeaderSize
  <2>3. QED
    BY <2>2, HeaderParsed
<1>8. Num(b, 11, 2) = op /\ Num(b, 13, 4) = id
  BY <1>6, Zenon DEF HeaderRead
<1>9. w # 0 => Num(b, 25, w) = v
  <2>1. ValueIs(b, w, v)
    BY <1>3, <1>6, Zenon DEF ValueIs
  <2>2. ASSUME w # 0
        PROVE  Num(b, 25, w) = v
    <3>1. v \in Int /\ Fits(v, w) /\ Len(b) = 24 + w
      BY <1>1, <1>6, <2>2, Zenon
    <3>2. w \in {0, 1, 2, 4} /\ b \in Seq(Byte)
      BY <1>2, <1>5, Zenon
    <3>3. QED
      BY <2>1, <2>2, <3>1, <3>2, ValueNumber, Zenon
  <2>3. QED
    BY <2>2, Zenon
<1>10. w # 0 => Carried(b) = v
  BY <1>1, <1>8, <1>9, Zenon DEF Carried
<1>11. ErrorOf(b) = 0
  <2>1. Len(b) - 24 = w
    <3>1. \A x \in Int : (24 + x) - 24 = x
      BY SMT
    <3>2. QED
      BY <1>2, <1>6, <3>1, Zenon
  <2>2. RequestError(op, w, Carried(b)) = 0
    BY <1>1, <1>10, ErrorIs, Zenon
  <2>3. QED
    BY <1>8, <2>1, <2>2, Zenon DEF ErrorOf, HeaderSize
<1>12. Accepted(DecodeControlRequest(b), op, id, w, v)
  BY <1>7, <1>8, <1>10, <1>11, RequestDecoded, Zenon DEF Accepted
<1>13. QED
  BY <1>5, <1>12, Zenon DEF b, id, v

-----------------------------------------------------------------------------
(* What the runtime answers.                                               *)

\* The identity of a request.
IsIdentity(n) == n.id # 0 /\ Fits(n.id, 4) /\ Fits(n.operation, 2)

HasStatus(r, n, e) == r.operation = n.operation /\ r.id = n.id /\ r.status = e
HasInfo(r, n, e) == HasStatus(r, n, e) /\ r.info = RuntimeInfo
HasSnapshot(r, n, e, s) == HasStatus(r, n, e) /\ r.snapshot = s

LEMMA StatusAnswer ==
    ASSUME NEW n, NEW e, NEW s
    PROVE  /\ HasStatus(StatusResponse(n, e), n, e)
           /\ HasInfo([StatusResponse(n, e) EXCEPT !.info = RuntimeInfo], n, e)
           /\ HasSnapshot([StatusResponse(n, e) EXCEPT !.snapshot = s], n, e, s)
<1> DEFINE op == n.operation
           id == n.id
           i == RuntimeInfo
           j == NoInfo
           r == [operation |-> op, id |-> id, status |-> e, info |-> j, snapshot |-> settings]
<1>1. StatusResponse(n, e) = r
  BY Zenon DEF StatusResponse
<1> HIDE DEF op, id, i, j
<1>2. /\ r.operation = op /\ r.id = id /\ r.status = e /\ r.info = j
      /\ [r EXCEPT !.info = i].operation = op /\ [r EXCEPT !.info = i].id = id
      /\ [r EXCEPT !.info = i].status = e /\ [r EXCEPT !.info = i].info = i
  OBVIOUS
<1>3. /\ [r EXCEPT !.snapshot = s].operation = op /\ [r EXCEPT !.snapshot = s].id = id
      /\ [r EXCEPT !.snapshot = s].status = e /\ [r EXCEPT !.snapshot = s].snapshot = s
  OBVIOUS
<1> HIDE DEF r
<1>4. QED
  BY <1>1, <1>2, <1>3, Zenon DEF HasStatus, HasInfo, HasSnapshot, op, id, i, j

LEMMA StatusIsReply ==
    ASSUME NEW n, IsIdentity(n), NEW e \in {3, 4, 5, 7}, IsKnownOperation(n.operation) \/ e = 3, NEW s
    PROVE  IsReply(StatusResponse(n, e), s)
<1>1. e \in 0..8 /\ e # 0
  BY SMT
<1> DEFINE r == StatusResponse(n, e)
<1>2. HasStatus(r, n, e)
  BY StatusAnswer
<1> HIDE DEF r
<1>3. IsReply(r, s)
  BY <1>1, <1>2, Zenon DEF IsReply, IsIdentity, HasStatus, HasInfo, HasSnapshot
<1>4. QED
  BY <1>3, Zenon DEF r

LEMMA InfoIsReply ==
    ASSUME NEW n, IsIdentity(n), n.operation = 1, NEW s
    PROVE  IsReply([StatusResponse(n, 0) EXCEPT !.info = RuntimeInfo], s)
<1>1. 0 \in 0..8 /\ IsKnownOperation(1)
  BY OperationTable, SMT DEF Known
<1> DEFINE r == [StatusResponse(n, 0) EXCEPT !.info = RuntimeInfo]
<1>2. HasInfo(r, n, 0)
  BY StatusAnswer
<1> HIDE DEF r
<1>3. IsReply(r, s)
  BY <1>1, <1>2, Zenon DEF IsReply, IsIdentity, HasStatus, HasInfo, HasSnapshot
<1>4. QED
  BY <1>3, Zenon DEF r

LEMMA ShutdownIsReply ==
    ASSUME NEW n, IsIdentity(n), n.operation = 20, NEW s
    PROVE  IsReply(StatusResponse(n, 0), s)
<1>1. 0 \in 0..8 /\ IsKnownOperation(20) /\ 20 # 1
  BY OperationTable, ShutdownHasNoSnapshot, SMT DEF Known
<1> DEFINE r == StatusResponse(n, 0)
<1>2. HasStatus(r, n, 0)
  BY StatusAnswer
<1> HIDE DEF r
<1>3. IsReply(r, s)
  BY <1>1, <1>2, Zenon DEF IsReply, IsIdentity, HasStatus, HasInfo, HasSnapshot
<1>4. QED
  BY <1>3, Zenon DEF r

LEMMA SnapshotIsReply ==
    ASSUME NEW n, IsIdentity(n), IsKnownOperation(n.operation), n.operation # 1, NEW s
    PROVE  /\ IsReply(SnapshotResponse(n, s), s)
           /\ SnapshotResponse(n, s).operation = n.operation /\ SnapshotResponse(n, s).id = n.id
           /\ SnapshotResponse(n, s).status \in {0, 7}
<1>1. CASE ToWireSnapshot(s) = <<>>
  <2>1. SnapshotResponse(n, s) = StatusResponse(n, 7)
    BY <1>1, Statuses, Zenon DEF SnapshotResponse
  <2>2. IsReply(StatusResponse(n, 7), s)
    BY StatusIsReply
  <2>3. HasStatus(StatusResponse(n, 7), n, 7)
    BY StatusAnswer
  <2>4. QED
    BY <2>1, <2>2, <2>3, Zenon DEF HasStatus
<1>2. CASE ToWireSnapshot(s) # <<>>
  <2> DEFINE r == [StatusResponse(n, 0) EXCEPT !.snapshot = s]
  <2>1. SnapshotResponse(n, s) = r
    BY <1>2, Statuses, Zenon DEF SnapshotResponse
  <2>2. HasSnapshot(r, n, 0, s)
    BY StatusAnswer
  <2>3. 0 \in 0..8
    BY SMT
  <2> HIDE DEF r
  <2>4. IsReply(r, s)
    BY <1>2, <2>2, <2>3, Zenon DEF IsReply, IsIdentity, HasStatus, HasInfo, HasSnapshot
  <2>5. QED
    BY <2>1, <2>2, <2>4, Zenon DEF HasStatus, HasSnapshot
<1>3. QED
  BY <1>1, <1>2, Zenon

-----------------------------------------------------------------------------
(* The settings of the runtime.                                            *)

SettingNames == {"startWithWindows", "hudEnabled", "hudSizeOffset", "hudFont", "visibilityMode",
                 "alignment", "backgroundMode", "backgroundOpacityPercent", "intelVrrRangeFixEnabled"}

LEMMA SettingChanged ==
    ASSUME NEW s, IsSettings(s), NEW f \in SettingNames, NEW v
    PROVE  IsSettings([s EXCEPT ![f] = v])
<1>1. PICK a, b, c, d, e, h, i, j, k, m :
          /\ s = [startWithWindows |-> a, hudEnabled |-> b, hudSizeOffset |-> c, hudFont |-> d,
                  visibilityMode |-> e, alignment |-> h, backgroundMode |-> i,
                  backgroundOpacityPercent |-> j, intelVrrRangeFixEnabled |-> k, result |-> m]
          /\ m \in Results
  BY Zenon DEF IsSettings, Built
<1> DEFINE t == [s EXCEPT ![f] = v]
<1>2. /\ t = [startWithWindows |-> t.startWithWindows, hudEnabled |-> t.hudEnabled,
              hudSizeOffset |-> t.hudSizeOffset, hudFont |-> t.hudFont,
              visibilityMode |-> t.visibilityMode, alignment |-> t.alignment,
              backgroundMode |-> t.backgroundMode,
              backgroundOpacityPercent |-> t.backgroundOpacityPercent,
              intelVrrRangeFixEnabled |-> t.intelVrrRangeFixEnabled, result |-> t.result]
      /\ t.result = m
  BY <1>1 DEF SettingNames
<1> HIDE DEF t
<1>3. IsSettings(t)
  BY <1>1, <1>2, Zenon DEF IsSettings, Built
<1>4. QED
  BY <1>3, Zenon DEF t

LEMMA SettingsAtStart ==
    ASSUME NEW s \in WireSettings
    PROVE  IsSettings(s)
<1>1. s = [startWithWindows |-> s.startWithWindows, hudEnabled |-> s.hudEnabled,
         hudSizeOffset |-> s.hudSizeOffset, hudFont |-> s.hudFont,
         visibilityMode |-> s.visibilityMode, alignment |-> s.alignment,
         backgroundMode |-> s.backgroundMode,
         backgroundOpacityPercent |-> s.backgroundOpacityPercent,
         intelVrrRangeFixEnabled |-> s.intelVrrRangeFixEnabled, result |-> s.result]
      /\ s.result \in Results
  BY DEF WireSettings
<1>2. QED
  BY <1>1, Zenon DEF IsSettings, Built

\* What an operation does: the setting f may get the value v, and the answer is
\* that of the settings the runtime then has.
Executes(n, f, v) ==
    /\ did'.operation = n.operation /\ did'.id = n.id /\ did'.status \in {0, 7}
    /\ IsReply(did', settings') /\ IsSettings(settings')
    /\ \/ settings' = settings
       \/ f \in SettingNames /\ settings' = [settings EXCEPT ![f] = v]

LEMMA ShapeNamesSetting ==
    ASSUME NEW op \in FrontEndOperations, op # 1, op # 2
    PROVE  Setting(op) \in SettingNames
<1>1. op \in {1, 2, 10, 11, 12, 13, 14, 15, 16, 17, 18, 19}
  BY Zenon DEF FrontEndOperations
<1>2. /\ "startWithWindows" \in SettingNames /\ "hudEnabled" \in SettingNames
      /\ "visibilityMode" \in SettingNames /\ "hudSizeOffset" \in SettingNames
      /\ "hudFont" \in SettingNames /\ "alignment" \in SettingNames
      /\ "backgroundMode" \in SettingNames /\ "backgroundOpacityPercent" \in SettingNames
      /\ "intelVrrRangeFixEnabled" \in SettingNames
  BY DEF SettingNames
<1>3. QED
  BY <1>1, <1>2, OperationTable, Zenon DEF Known

LEMMA OperationExecuted ==
    ASSUME NEW n, IsIdentity(n), IsKnownOperation(n.operation), NEW v, IsSettings(settings),
           ExecuteControlResponse(n, v)
    PROVE  Executes(n, Setting(n.operation), v)
<1> DEFINE op == n.operation
           f == Setting(op)
           changed == [settings EXCEPT ![f] = v]
<1>1. /\ op = 1 => did' = [StatusResponse(n, 0) EXCEPT !.info = RuntimeInfo] /\ settings' = settings
      /\ op = 20 => did' = StatusResponse(n, 0) /\ settings' = settings
      /\ op = 2 => did' = SnapshotResponse(n, settings) /\ settings' = settings
      /\ op # 1 /\ op # 20 /\ op # 2 =>
            \/ settings' = changed /\ did' = SnapshotResponse(n, changed)
            \/ /\ settings' = settings
               /\ \/ did' = StatusResponse(n, 7)
                  \/ did' = SnapshotResponse(n, settings)
  <2>1. /\ 1 # 2 /\ 1 # 20 /\ 2 # 20
    BY SMT
  <2>2. /\ Status.Ok = 0 /\ Status.OperationFailed = 7
    BY Statuses
  <2>3. CASE op = 1
    BY <2>1, <2>2, <2>3, Zenon DEF ExecuteControlResponse
  <2>4. CASE op = 20
    BY <2>1, <2>2, <2>4, Zenon DEF ExecuteControlResponse
  <2>5. CASE op = 2
    BY <2>1, <2>2, <2>5, Zenon DEF ExecuteControlResponse
  <2>6. CASE op # 1 /\ op # 20 /\ op # 2
    BY <2>2, <2>6, Zenon DEF ExecuteControlResponse
  <2>7. QED
    BY <2>1, <2>3, <2>4, <2>5, <2>6, Zenon
<1>2. CASE op = 1
  <2>1. HasInfo([StatusResponse(n, 0) EXCEPT !.info = RuntimeInfo], n, 0)
    BY StatusAnswer
  <2>2. IsReply([StatusResponse(n, 0) EXCEPT !.info = RuntimeInfo], settings)
    BY <1>2, InfoIsReply
  <2>3. 0 \in {0, 7}
    OBVIOUS
  <2>4. QED
    BY <1>1, <1>2, <2>1, <2>2, <2>3, Zenon DEF Executes, HasInfo, HasStatus
<1>3. CASE op = 20
  <2>1. HasStatus(StatusResponse(n, 0), n, 0)
    BY StatusAnswer
  <2>2. IsReply(StatusResponse(n, 0), settings)
    BY <1>3, ShutdownIsReply
  <2>3. QED
    BY <1>1, <1>3, <2>1, <2>2, Zenon DEF Executes, HasStatus
<1>4. CASE op = 2
  <2>1. op # 1
    BY <1>4, SMT
  <2>2. /\ IsReply(SnapshotResponse(n, settings), settings)
        /\ SnapshotResponse(n, settings).operation = n.operation
        /\ SnapshotResponse(n, settings).id = n.id
        /\ SnapshotResponse(n, settings).status \in {0, 7}
    BY <2>1, SnapshotIsReply
  <2>3. QED
    BY <1>1, <1>4, <2>2, Zenon DEF Executes
<1>5. CASE op # 1 /\ op # 20 /\ op # 2
  <2>1. f \in SettingNames
    BY <1>5, KnownOperations, ShapeNamesSetting, Zenon
  <2>2. IsSettings(changed)
    BY <2>1, SettingChanged
  <2>3. ASSUME NEW s
        PROVE  /\ IsReply(SnapshotResponse(n, s), s)
               /\ SnapshotResponse(n, s).operation = n.operation
               /\ SnapshotResponse(n, s).id = n.id
               /\ SnapshotResponse(n, s).status \in {0, 7}
    BY <1>5, SnapshotIsReply
  <2>4. CASE settings' = changed /\ did' = SnapshotResponse(n, changed)
    BY <2>1, <2>2, <2>3, <2>4, Zenon DEF Executes
  <2>5. CASE settings' = settings /\ did' = StatusResponse(n, 7)
    <3>1. HasStatus(StatusResponse(n, 7), n, 7)
      BY StatusAnswer
    <3>2. IsReply(StatusResponse(n, 7), settings)
      BY StatusIsReply
    <3>3. QED
      BY <2>5, <3>1, <3>2, Zenon DEF Executes, HasStatus
  <2>6. CASE settings' = settings /\ did' = SnapshotResponse(n, settings)
    BY <2>3, <2>6, Zenon DEF Executes
  <2>7. QED
    BY <1>1, <1>5, <2>4, <2>5, <2>6, Zenon
<1>6. QED
  BY <1>2, <1>3, <1>4, <1>5, Zenon

-----------------------------------------------------------------------------
(* The exchange.                                                           *)

\* The frame of an answer; no answer has no frame.
FrameSent(r) == IF r.id = 0 THEN <<>> ELSE EncodeControlResponse(r)

\* The inductive invariant of an exchange: a frame that nobody altered is that of
\* the request asked, or of what the runtime did, which is an answer of the
\* settings it has.
WireInv ==
    /\ IsSettings(settings) /\ frame \in Seq(Byte) /\ asked \in Requests
    /\ phase \in {"request", "response"}
    /\ phase = "request" /\ altered = "no" => frame = EncodeRequest(asked)
    /\ phase = "response" =>
          /\ did.id # 0 => IsReply(did, settings)
          /\ altered # "response" => frame = FrameSent(did)
          /\ altered = "no" =>
                did.status \in {0, 7} /\ did.operation = ControlOperation[asked.name]
                /\ did.id = asked.id

\* Every name of a request is one of the twelve.
LEMMA RequestNames ==
    ASSUME NEW r \in Requests
    PROVE  \E op, f, w : Says(r, op, f, w)
<1>1. r.name \in {"GetRuntimeInfo", "GetSettingsSnapshot"} \cup Setters
  BY RequestsAre
<1>2. r.name \in {"GetRuntimeInfo", "GetSettingsSnapshot", "SetStartWithWindows",
            "SetHudEnabled", "SetIntelVrrRangeFixEnabled",
            "SetHudVisibilityMode", "SetHudFont", "SetHudAlignment", "SetHudBackgroundMode",
            "SetHudSizeOffset", "PreviewHudOpacity", "CommitHudOpacity"}
  BY <1>1 DEF Setters
<1>3. QED
  BY <1>2, RequestsSay, Zenon

LEMMA WireStarts ==
    ASSUME WireInit
    PROVE  WireInv
<1>1. /\ phase = "request" /\ asked \in Requests /\ settings \in WireSettings
      /\ frame = EncodeRequest(asked)
  BY Zenon DEF WireInit
<1>2. IsSettings(settings)
  BY <1>1, SettingsAtStart
<1>3. PICK op, f, w : Says(asked, op, f, w)
  BY <1>1, RequestNames
<1>4. frame \in Seq(Byte)
  BY <1>1, <1>3, RequestAccepted, Zenon
<1>5. "request" # "response"
  OBVIOUS
<1>6. QED
  BY <1>1, <1>2, <1>4, <1>5, Zenon DEF WireInv

LEMMA AlterKeeps ==
    ASSUME WireInv, Alter
    PROVE  WireInv'
<1>1. /\ altered = "no" /\ frame # <<>> /\ altered' = phase
      /\ phase' = phase /\ asked' = asked /\ settings' = settings /\ did' = did
  BY Zenon DEF Alter
<1>2. frame \in Seq(Byte)
  BY Zenon DEF WireInv
<1>3. frame' \in Seq(Byte)
  <2>1. CASE \E i \in DOMAIN frame, b \in Damages : frame' = [frame EXCEPT ![i] = b]
    <3>1. PICK i \in DOMAIN frame, b \in Damages : frame' = [frame EXCEPT ![i] = b]
      BY <2>1, Zenon
    <3>2. b \in Byte
      BY BytesAssumption
    <3>3. QED
      BY <1>2, <3>1, <3>2
  <2>2. CASE frame' = SubSeq(frame, 1, Len(frame) - 1)
    <3>1. PICK n \in Nat : n = Len(frame)
      BY <1>2
    <3>2. \A x \in 1..(n - 1) : x \in 1..n
      BY SMT
    <3>3. QED
      BY <1>2, <2>2, <3>1, <3>2
  <2>3. CASE frame' = Append(frame, 0)
    <3>1. 0 \in Byte
      BY SMT DEF Byte
    <3>2. QED
      BY <1>2, <2>3, <3>1
  <2>4. QED
    BY <2>1, <2>2, <2>3, Zenon DEF Alter
<1>4. "request" # "no" /\ "request" # "response"
  OBVIOUS
<1>5. QED
  BY <1>1, <1>3, <1>4, Zenon DEF WireInv

\* The frame of the runtime is the one of what it did.
LEMMA SentIsBytes ==
    ASSUME NEW r, NEW s, IsSettings(s), r.id # 0 => IsReply(r, s)
    PROVE  FrameSent(r) \in Seq(Byte)
BY ReplyFrame, NoText, Zenon DEF FrameSent

LEMMA NumbersOfFrame ==
    ASSUME NEW b \in Seq(Byte), ParseHeader(b) = 0
    PROVE  /\ Num(b, 13, 4) # 0 /\ Fits(Num(b, 13, 4), 4) /\ Fits(Num(b, 11, 2), 2)
           /\ DecodeControlRequest(b).error = ErrorOf(b)
           /\ DecodeControlRequest(b).identity = [operation |-> Num(b, 11, 2), id |-> Num(b, 13, 4)]
           /\ IsIdentity(DecodeControlRequest(b).identity)
           /\ DecodeControlRequest(b).identity.operation = Num(b, 11, 2)
           /\ DecodeControlRequest(b).identity # NoIdentity
<1> DEFINE op == Num(b, 11, 2)
           id == Num(b, 13, 4)
           n == DecodeControlRequest(b).identity
<1>1. RequestFrame(b)
  BY HeaderParsed
<1>2. ~(Len(b) < 24) /\ id # 0
  BY <1>1, Zenon DEF RequestFrame, HeaderSize
<1>3. 24 <= Len(b)
  <2>1. PICK k \in Nat : k = Len(b)
    OBVIOUS
  <2>2. ~(k < 24) => 24 <= k
    BY SMT
  <2>3. QED
    BY <1>2, <2>1, <2>2, Zenon
<1>4. Fits(op, 2) /\ Fits(id, 4)
  BY <1>3, Fields, Zenon
<1>5. DecodeControlRequest(b).error = ErrorOf(b) /\ n = [operation |-> op, id |-> id]
  BY RequestDecoded, Zenon
<1> HIDE DEF op, id, n
<1>6. n.operation = op /\ n.id = id
  BY <1>5
<1>7. n # NoIdentity
  BY <1>2, <1>5, <1>6 DEF NoIdentity
<1>8. IsIdentity(n)
  BY <1>2, <1>4, <1>6, Zenon DEF IsIdentity
<1>9. QED
  BY <1>2, <1>4, <1>5, <1>6, <1>7, <1>8, Zenon DEF op, id, n

\* What the runtime does with a frame: it refuses it or it executes it.
Handles(d) ==
    \/ did' = Nothing /\ settings' = settings /\ d.identity = NoIdentity
    \/ /\ did' = StatusResponse(d.identity, d.error) /\ settings' = settings
       /\ d.error # 0 /\ IsIdentity(d.identity)
    \/ /\ d.error = 0 /\ IsIdentity(d.identity)
       /\ Executes(d.identity, Setting(d.identity.operation), d.value)

LEMMA FrameHandled ==
    ASSUME IsSettings(settings), frame \in Seq(Byte), HandleFrame
    PROVE  /\ Handles(DecodeControlRequest(frame)) /\ IsSettings(settings')
           /\ did'.id # 0 => IsReply(did', settings')
<1> DEFINE d == DecodeControlRequest(frame)
           n == d.identity
<1>1. /\ d.error # 0 => /\ did' = IF n = NoIdentity THEN Nothing ELSE StatusResponse(n, d.error)
                        /\ settings' = settings
      /\ d.error = 0 => ExecuteControlResponse(n, d.value)
  BY Statuses, Zenon DEF HandleFrame
<1>2. CASE ParseHeader(frame) # 0
  <2>1. d.error # 0 /\ n = NoIdentity
    BY <1>2, RequestDecoded, Zenon
  <2>2. did' = Nothing /\ settings' = settings
    BY <1>1, <2>1, Zenon
  <2>3. did'.id = 0
    BY <2>2 DEF Nothing
  <2>4. QED
    BY <2>1, <2>2, <2>3, Zenon DEF Handles
<1>3. CASE ParseHeader(frame) = 0
  <2>1. d.error = ErrorOf(frame) /\ IsIdentity(n) /\ n # NoIdentity
        /\ n.operation = Num(frame, 11, 2)
    BY <1>3, NumbersOfFrame, Zenon
  <2>2. d.error \in {0, 3, 4, 5} /\ (d.error # 3 => IsKnownOperation(n.operation))
    BY <2>1, ErrorIs, Zenon DEF ErrorOf
  <2> HIDE DEF d, n
  <2>3. CASE d.error # 0
    <3>1. d.error \in {3, 4, 5, 7}
      BY <2>2, <2>3
    <3>2. did' = StatusResponse(n, d.error) /\ settings' = settings
      BY <1>1, <2>1, <2>3, Zenon
    <3>3. IsReply(StatusResponse(n, d.error), settings)
      BY <2>1, <2>2, <3>1, StatusIsReply
    <3>4. QED
      BY <2>1, <2>3, <3>2, <3>3, Zenon DEF Handles, d, n
  <2>4. CASE d.error = 0
    <3>1. IsKnownOperation(n.operation)
      <4>1. 0 # 3
        BY SMT
      <4>2. QED
        BY <2>2, <2>4, <4>1, Zenon
    <3>2. Executes(n, Setting(n.operation), d.value)
      BY <1>1, <2>1, <2>4, <3>1, OperationExecuted
    <3>3. IsSettings(settings') /\ IsReply(did', settings')
      BY <3>2, Zenon DEF Executes
    <3>4. QED
      BY <2>1, <2>4, <3>2, <3>3, Zenon DEF Handles, d, n
  <2>5. QED
    BY <2>3, <2>4, Zenon
<1>4. QED
  BY <1>2, <1>3, Zenon DEF d

\* An intact request is executed for the setting it is about, with its value.
Meets(r, f) ==
    /\ did'.status \in {0, 7} /\ did'.operation = ControlOperation[r.name] /\ did'.id = r.id
    /\ \/ settings' = settings
       \/ f \in SettingNames /\ settings' = [settings EXCEPT ![f] = r.value]

LEMMA RequestMet ==
    ASSUME NEW r, NEW op, NEW f, NEW w, Says(r, op, f, w), f # "none" => w # 0,
           Handles(DecodeControlRequest(EncodeRequest(r)))
    PROVE  Meets(r, f)
<1> DEFINE d == DecodeControlRequest(EncodeRequest(r))
           n == d.identity
           id == r.id
<1>0. Accepted(DecodeControlRequest(EncodeRequest(r)), op, r.id, w, r.value)
  BY RequestAccepted
<1>1. d.error = 0 /\ n = [operation |-> op, id |-> id] /\ (w # 0 => d.value = r.value)
  BY <1>0, Zenon DEF Accepted
<1>2. op = ControlOperation[r.name] /\ Setting(op) = f /\ id # 0
  BY Zenon DEF Says, Known
<1> HIDE DEF d, n, id
<1>3. n.operation = op /\ n.id = id
  BY <1>1
<1>4. n # NoIdentity
  BY <1>1, <1>2, <1>3 DEF NoIdentity
<1>5. Executes(n, f, d.value)
  <2>1. Handles(d)
    BY Zenon DEF d
  <2>2. n = d.identity
    BY DEF n
  <2>3. QED
    BY <1>1, <1>2, <1>3, <1>4, <2>1, <2>2, Zenon DEF Handles
<1>6. "none" \notin SettingNames
  BY DEF SettingNames
<1>7. QED
  BY <1>1, <1>2, <1>3, <1>5, <1>6, Zenon DEF Executes, Meets, id

LEMMA NamesMean ==
    ASSUME NEW r \in Requests
    PROVE  \E f : /\ f \in SettingNames => f \in Meant(r.name)
                  /\ Handles(DecodeControlRequest(EncodeRequest(r))) => Meets(r, f)
<1>1. /\ Meant("SetStartWithWindows") = {"startWithWindows"}
      /\ Meant("SetHudEnabled") = {"hudEnabled"}
      /\ Meant("SetHudVisibilityMode") = {"visibilityMode"}
      /\ Meant("SetHudSizeOffset") = {"hudSizeOffset"} /\ Meant("SetHudFont") = {"hudFont"}
      /\ Meant("SetHudAlignment") = {"alignment"}
      /\ Meant("SetHudBackgroundMode") = {"backgroundMode"}
      /\ Meant("SetIntelVrrRangeFixEnabled") = {"intelVrrRangeFixEnabled"}
      /\ Meant("PreviewHudOpacity") = {"backgroundOpacityPercent"}
      /\ Meant("CommitHudOpacity") = {"backgroundOpacityPercent"}
  BY DEF Meant
<1>2. r.name \in {"GetRuntimeInfo", "GetSettingsSnapshot", "SetStartWithWindows",
            "SetHudEnabled", "SetIntelVrrRangeFixEnabled",
            "SetHudVisibilityMode", "SetHudFont", "SetHudAlignment", "SetHudBackgroundMode",
            "SetHudSizeOffset", "PreviewHudOpacity", "CommitHudOpacity"}
  BY RequestsAre DEF Setters
<1>3. "none" \notin SettingNames
  BY DEF SettingNames
<1>4. 1 # 0 /\ 2 # 0 /\ 4 # 0
  BY SMT
<1>5. ASSUME NEW f, NEW op, NEW w, Says(r, op, f, w), f = "none" \/ w # 0,
             f = "none" \/ f \in Meant(r.name)
      PROVE  /\ f \in SettingNames => f \in Meant(r.name)
             /\ Handles(DecodeControlRequest(EncodeRequest(r))) => Meets(r, f)
  <2>1. f # "none" => w # 0
    BY <1>5, Zenon
  <2>2. Handles(DecodeControlRequest(EncodeRequest(r))) => Meets(r, f)
    BY <1>5, <2>1, RequestMet
  <2>3. QED
    BY <1>3, <1>5, <2>2, Zenon
<1>6. \E f, op, w : Says(r, op, f, w) /\ (f = "none" \/ w # 0) /\ (f = "none" \/ f \in Meant(r.name))
  <2>1. \E f, op, w : Says(r, op, f, w) /\ (f = "none" \/ w # 0)
                      /\ (f = "none" \/ Meant(r.name) = {f})
    BY <1>1, <1>2, <1>4, RequestsSay, Zenon
  <2>2. QED
    BY <2>1, Zenon
<1>7. QED
  BY <1>5, <1>6, Zenon

LEMMA HandleFrameKeeps ==
    ASSUME WireInv, HandleFrame
    PROVE  /\ WireInv'
           /\ altered = "no" => \E f : Meets(asked, f) /\ (f \in SettingNames => f \in Meant(asked.name))
<1>1. IsSettings(settings) /\ frame \in Seq(Byte) /\ asked \in Requests
  BY Zenon DEF WireInv
<1>2. /\ Handles(DecodeControlRequest(frame)) /\ IsSettings(settings')
      /\ did'.id # 0 => IsReply(did', settings')
  BY <1>1, FrameHandled
<1>3. /\ phase = "request" /\ phase' = "response" /\ frame' = FrameSent(did')
      /\ asked' = asked /\ altered' = altered
  BY Zenon DEF HandleFrame, FrameSent
<1>4. frame' \in Seq(Byte)
  BY <1>2, <1>3, SentIsBytes, Zenon
<1>5. "request" # "response"
  OBVIOUS
<1>6. altered = "no" => \E f : Meets(asked, f) /\ (f \in SettingNames => f \in Meant(asked.name))
  <2>1. altered = "no" => frame = EncodeRequest(asked)
    BY <1>3, Zenon DEF WireInv
  <2>2. QED
    BY <1>1, <1>2, <2>1, NamesMean, Zenon
<1>7. WireInv'
  <2>1. altered = "no" => /\ did'.status \in {0, 7} /\ did'.operation = ControlOperation[asked.name]
                          /\ did'.id = asked.id
    BY <1>6, Zenon DEF Meets
  <2>2. QED
    BY <1>1, <1>2, <1>3, <1>4, <1>5, <2>1, Zenon DEF WireInv, FrameSent
<1>8. QED
  BY <1>6, <1>7

LEMMA WireStepKeeps ==
    ASSUME WireInv, [WireNext]_wireVars
    PROVE  WireInv'
<1>1. CASE Alter
  BY <1>1, AlterKeeps
<1>2. CASE HandleFrame
  BY <1>2, HandleFrameKeeps
<1>3. CASE UNCHANGED wireVars
  BY <1>3, Zenon DEF wireVars, WireInv, FrameSent
<1>4. QED
  BY <1>1, <1>2, <1>3, Zenon DEF WireNext

LEMMA WireInvHolds == WireSpec => []WireInv
<1>1. WireInit => WireInv
  BY WireStarts
<1>2. WireInv /\ [WireNext]_wireVars => WireInv'
  BY WireStepKeeps
<1>3. QED
  BY <1>1, <1>2, PTL DEF WireSpec

-----------------------------------------------------------------------------
(* The two implementations agree.                                          *)

LEMMA AnswersAreUnderstood ==
    ASSUME WireInv
    PROVE  AnswerIsUnderstood
<1> DEFINE c == DecodeResponse(frame, did.id, did.operation)
<1>1. SUFFICES ASSUME AnsweredIntact
               PROVE  Understood(c, did, settings)
  BY Zenon DEF AnswerIsUnderstood, Understood
<1>2. /\ phase = "response" /\ altered # "response" /\ did.id # 0 /\ did.operation # 20
  BY <1>1, Zenon DEF AnsweredIntact
<1>3. IsSettings(settings) /\ IsReply(did, settings) /\ frame = EncodeControlResponse(did)
  BY <1>2, Zenon DEF WireInv, FrameSent
<1>4. Understood(DecodeResponse(EncodeControlResponse(did), did.id, did.operation), did, settings)
  BY <1>2, <1>3, ReplyUnderstood
<1>5. QED
  BY <1>3, <1>4, Zenon

LEMMA NameIsOperation ==
    ASSUME NEW r \in Requests
    PROVE  ControlOperation[r.name] \in FrontEndOperations
<1>1. r.name \in {"GetRuntimeInfo", "GetSettingsSnapshot"} \cup Setters
  BY RequestsAre
<1>2. r.name \in DOMAIN ControlOperation
  BY <1>1 DEF Setters, ControlOperation
<1>3. QED
  BY <1>2, OperationsOfFrontEnd, Zenon

LEMMA OnlyExactFramesAreRead ==
    ASSUME WireInv
    PROVE  OnlyExactFrames
<1> DEFINE op == ControlOperation[asked.name]
           d == DecodeControlRequest(frame)
           c == DecodeResponse(frame, asked.id, op)
<1>1. frame \in Seq(Byte) /\ asked \in Requests
  BY Zenon DEF WireInv
<1>2. d.error = Status.Ok =>
          frame = EncodeControlRequest(d.identity.operation, d.identity.id, d.value)
  BY <1>1, RequestExact
<1>3. IsExact(frame, asked.id, op, settings, c)
  BY <1>1, NameIsOperation, ResponseExact, Zenon
<1>4. QED
  BY <1>2, <1>3, Zenon DEF OnlyExactFrames, IsExact, Answer

\* The two implementations of the codec agree: what one encodes the other reads
\* as it was meant, and nothing that is not an exact frame is accepted
\* (ClawHudControlCodec.cpp and ControlCodec.cs).
THEOREM WireIsAlwaysFaithful == WireSpec => []WireIsFaithful
<1>1. WireInv => WireIsFaithful
  BY AnswersAreUnderstood, OnlyExactFramesAreRead, Zenon DEF WireIsFaithful
<1>2. QED
  BY <1>1, WireInvHolds, PTL

LEMMA StepTakesEffect ==
    ASSUME WireInv, [WireNext]_wireVars, phase' = "response", altered = "no"
    PROVE  TakesEffect \/ UNCHANGED wireVars
<1>1. Status.Ok = 0 /\ Status.OperationFailed = 7
  BY Statuses
<1>2. CASE Alter
  <2>1. /\ phase' = phase /\ asked' = asked /\ settings' = settings /\ did' = did
    BY <1>2, Zenon DEF Alter
  <2>2. did.status \in {0, 7} /\ did.operation = ControlOperation[asked.name] /\ did.id = asked.id
    BY <2>1, Zenon DEF WireInv
  <2>3. QED
    BY <1>1, <2>1, <2>2, Zenon DEF TakesEffect
<1>3. CASE HandleFrame
  <2>1. PICK f : Meets(asked, f) /\ (f \in SettingNames => f \in Meant(asked.name))
    BY <1>3, HandleFrameKeeps
  <2>2. QED
    BY <1>1, <2>1, Zenon DEF Meets, TakesEffect
<1>4. QED
  BY <1>2, <1>3, Zenon DEF WireNext

\* An intact request takes effect on the setting the front end means, with its
\* value, and on nothing else (RuntimeControlAppEndpoint behind the codec).
THEOREM EffectIsAlwaysAsAsked == WireSpec => EffectIsAsAsked
<1>1. WireInv /\ [WireNext]_wireVars =>
          [phase' = "response" /\ altered = "no" => TakesEffect]_wireVars
  BY StepTakesEffect
<1>2. QED
  BY <1>1, WireInvHolds, PTL DEF WireSpec, EffectIsAsAsked
=============================================================================
