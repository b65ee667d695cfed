--------------------------- MODULE MCGameSession ---------------------------
(***************************************************************************)
(* Model-checking instance of GameSession: two process instances, which    *)
(* share a PID or not, on sound and on faulty machines.                    *)
(***************************************************************************)
EXTENDS GameSession

CONSTANTS proc1, proc2

TwoProcesses == {proc1, proc2}

OnePid == [x \in TwoProcesses |-> 1]
TwoPids == [x \in TwoProcesses |-> IF x = proc1 THEN 1 ELSE 2]
Kind(k, l) == [x \in TwoProcesses |-> IF x = proc1 THEN k ELSE l]

\* One PID: a store game takes over the PID of an application, and an
\* application that of a game while Steam runs games. Two PIDs: handoffs
\* between two games, on a sound machine and when anything may fail.
MachineOf(pid, kind, transient, steam, faulty) ==
    [pid |-> pid, kind |-> kind, transient |-> transient, steam |-> steam,
     faulty |-> faulty]

TwoProcessScenarios ==
    {MachineOf(OnePid, Kind("app", "store"), {proc1, proc2}, FALSE, FALSE),
     MachineOf(OnePid, Kind("game", "app"), {proc1, proc2}, TRUE, FALSE),
     MachineOf(TwoPids, Kind("game", "game"), {}, FALSE, FALSE),
     MachineOf(TwoPids, Kind("game", "game"), {}, FALSE, TRUE)}
=============================================================================
