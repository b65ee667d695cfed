-------------------------- MODULE MCDispatchBridge --------------------------
(***************************************************************************)
(* The instance of DispatchBridge that TLC checks.  The runtime has one    *)
(* background producer, the pipe worker; the header promises "any thread", *)
(* so there are two here, and Main makes one call itself.                  *)
(***************************************************************************)
EXTENDS DispatchBridge, TLC

CONSTANTS Main, Worker, Other, c1, c2, c3, c4

TwoProducers == c1 :> Worker @@ c2 :> Other @@ c3 :> Worker @@ c4 :> Main
=============================================================================
