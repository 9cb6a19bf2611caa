-------------------------- MODULE MCEngineCounters --------------------------
(* Requests that hit all, some or none of their prompt in the cache, with  *)
(* and without generation, and totals that no share divides.               *)
EXTENDS EngineCounters

R(hits, prompt, generation, prefill, decode) ==
  [ hits |-> hits, prompt |-> prompt, generation |-> generation,
    prefill |-> prefill, decode |-> decode ]

SomeRequests == { R(0, 1, 1, 1, 1), R(1, 2, 0, 1, 0), R(2, 2, 3, 0, 2) }
=============================================================================
