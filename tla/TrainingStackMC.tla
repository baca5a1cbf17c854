--------------------------- MODULE TrainingStackMC ---------------------------
(***************************************************************************)
(* The values of TrainingStack's constants that a configuration file       *)
(* cannot write down.                                                      *)
(***************************************************************************)
EXTENDS TrainingStack

CONSTANTS search, sandbox, e1, e2, e3, e4

\* Two tools with different limits; the one created first decides.
Limits == (search :> 2) @@ (sandbox :> 1)
Calls == (e1 :> search) @@ (e2 :> search) @@ (e3 :> sandbox) @@ (e4 :> sandbox)
ActorAndCritic == <<"actor", "critic">>
\* Two responses to one prompt with a response to another one between them.
Interleaved == <<1, 2, 1>>
=============================================================================
