----------------------------- MODULE MCSources ------------------------------
(***************************************************************************)
(* Model checking of EventSources and EcHelper in one run: what runs       *)
(* beside the UI thread and feeds it.  The two share nothing, so a         *)
(* behaviour moves one of them, chosen in Init.                            *)
(***************************************************************************)
EXTENDS EventSources, EcHelper

VARIABLE part

\* Many window events, a suspend or resume and one fault; fewer of them over three
\* changes of power (asleep, awake and asleep again during the recovery, or a
\* resume whose suspend was missed); many registry writes, or a few of both, and
\* one fault.
MCBudgets == {[events |-> 4, writes |-> 0, faults |-> 1, powers |-> 1],
              [events |-> 3, writes |-> 0, faults |-> 0, powers |-> 3],
              [events |-> 0, writes |-> 4, faults |-> 1, powers |-> 0],
              [events |-> 2, writes |-> 2, faults |-> 1, powers |-> 0]}

MCSteamBudgets == {[events |-> 0, writes |-> 3, faults |-> 0, powers |-> 0]}

allVars == <<part, sourceVars, vars>>

MCInit ==
    /\ part \in {"sources", "ec"}
    /\ SourcesInit /\ Init
    /\ part = "ec" => budget.writes = 4 /\ depth = Steam /\ appId = 0

MCNext ==
    /\ UNCHANGED part
    /\ \/ part = "sources" /\ SourcesNext /\ UNCHANGED vars
       \/ part = "ec" /\ Next /\ UNCHANGED sourceVars

(* The fairness of both; either client blocks the UI thread.               *)
MCSpec ==
    /\ MCInit
    /\ [][MCNext]_allVars
    /\ WF_allVars(\/ part = "sources" /\ UiThread /\ UNCHANGED <<part, vars>>
                  \/ part = "ec" /\ ClientStep /\ UNCHANGED <<part, sourceVars>>)
    /\ WF_allVars(part = "sources" /\ WindowWorker /\ UNCHANGED <<part, vars>>)
    /\ WF_allVars(part = "sources" /\ WatchLoop /\ UNCHANGED <<part, vars>>)

(* The UI thread gets away from everything it waits for: the sources start, *)
(* deliver and stop, a sample of the EC ends, and a helper that lost its   *)
(* client ends.                                                            *)
FeedersSettle ==
    /\ part = "sources" => SourcesSettle
    /\ SampleEnds /\ HelperEnds
=============================================================================
