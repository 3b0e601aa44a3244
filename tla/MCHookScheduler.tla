-------------------------- MODULE MCHookScheduler --------------------------
(***************************************************************************)
(* Small instances of HookScheduler.  In the first, two requests of client *)
(* A share one group of the decision lane and compete with a request of    *)
(* client B in the evidence lane; in the second, the second request of A   *)
(* comes through the harness of B.                                         *)
(***************************************************************************)
EXTENDS HookScheduler

CONSTANTS h1, h2, h3

OneGroup == (h1 :> "pi" @@ h2 :> "pi" @@ h3 :> "codex")
SharedHarness == (h1 :> "pi" @@ h2 :> "codex" @@ h3 :> "codex")
Client == (h1 :> "A" @@ h2 :> "A" @@ h3 :> "B")
Lane == (h1 :> "decision" @@ h2 :> "decision" @@ h3 :> "evidence")
Payload == (h1 :> 1 @@ h2 :> 1 @@ h3 :> 1)
============================================================================
