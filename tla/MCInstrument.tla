---------------------------- MODULE MCInstrument ----------------------------
(* Instances of Instrument for TLC. *)
EXTENDS Instrument, TLC

CONSTANTS t1, t2, openai, google, completions, beta, models

\* As in PATCH_TARGETS; openai's beta module imports the completions module.
ThreeTargets == <<completions, models, beta>>
TwoTargets   == <<completions, beta>>

RootOf == completions :> openai @@ beta :> openai @@ models :> google

Imported == [m \in {completions, beta, models} |-> IF m = beta THEN completions ELSE None]
=============================================================================
