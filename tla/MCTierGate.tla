------------------------------ MODULE MCTierGate ------------------------------
(***************************************************************************)
(* An instance of TierGate for TLC: an Apple laptop with 16 GB and the two *)
(* smaller general tiers, and the roleplay tier of the same size as Alice, *)
(* which has no build for MLX, with the tables of model_catalog.py.  A     *)
(* context is counted in thousands of tokens, memory in units of 1/400 GB: *)
(* a thousand tokens of KV cache take 0.012 or 0.02 GB and a quarter more  *)
(* (context.py), which is 6 or 10 units.                                   *)
(***************************************************************************)
EXTENDS TierGate, TLC

CONSTANTS lite, std, rp

GB == 400
Table(forLite, forStd, forRp) == lite :> forLite @@ std :> forStd @@ rp :> forRp

BestFirst == <<std, lite>>
Laptop == 16 * GB
Comforts == Table(16 * GB, 16 * GB, 16 * GB)
Floors == Table(4 * GB, 10 * GB, 8 * GB)
Heuristics == Table(6, 10, 10)

\* MLX snapshots bring a configuration, a GGUF file does not.  Alice Lite declares what
\* test_model_manager.py:143 reads from its snapshot: its longest context fits the
\* laptop by the parameter count and not by the configuration.  The other declares less
\* than the shortest context.
Geometries == Table(60, 80, 10)
Declared == Table(262, 2, 0)
=============================================================================
