-------------------------------- MODULE Cost --------------------------------
(***************************************************************************)
(* The price of a trajectory at a declared rate (is-report, cost.rs) and   *)
(* its rendering (inferscope, main.rs).  Nothing is measured here.         *)
(*                                                                         *)
(* A price is the rate times the quantity: the units of an hour and of a   *)
(* kilowatt-hour are left out, and a price per token is the pair of what   *)
(* is divided and by what.  An Option is a set of at most one value.       *)
(***************************************************************************)
EXTENDS Integers, Sequences, FiniteSetsExt

\* CostBasis: one of the two, with its rate.
Occupancy(rate) == [basis |-> "occupancy", rate |-> rate]
PerEnergy(rate) == [basis |-> "energy", rate |-> rate]

\* Mutant: a step is priced from the start of the run.
QuantitiesFromStart(t, basis) ==
  IF basis.basis = "occupancy"
  THEN [ run |-> t.run_duration, unattributed |-> t.unattributed_duration,
         steps |-> [i \in DOMAIN t.steps |-> t.steps[i].end] ]
  ELSE [ run |-> t.total_energy, unattributed |-> t.unattributed_energy,
         steps |-> [i \in DOMAIN t.steps |-> t.steps[i].energy_mj] ]

\* What the basis has a price for.
Quantities(t, basis) ==
  IF basis.basis = "occupancy"
  THEN [ run |-> t.run_duration, unattributed |-> t.unattributed_duration,
         steps |-> [i \in DOMAIN t.steps |-> t.steps[i].end - t.steps[i].start] ]
  ELSE [ run |-> t.total_energy, unattributed |-> t.unattributed_energy,
         steps |-> [i \in DOMAIN t.steps |-> t.steps[i].energy_mj] ]

Summed(steps, kinds) ==
  SumFunction([i \in {j \in DOMAIN steps : steps[j].kind \in kinds} |-> steps[i].usd])

\* Mutant: what was not measured costs nothing.
DeriveCostAtZero(t, basis) ==
  LET q     == Quantities(t, basis)
      steps == [ i \in DOMAIN t.steps |->
                   [ step_id |-> t.steps[i].step_id, kind |-> t.steps[i].kind,
                     usd |-> basis.rate * q.steps[i], per_token |-> {} ] ]
  IN { [ basis |-> basis, run_usd |-> basis.rate * q.run, attributed_usd |-> 0, llm_usd |-> 0,
         tool_usd |-> 0, unattributed_usd |-> basis.rate * q.unattributed, steps |-> steps,
         per_token |-> {} ] }

\* derive_cost, an Option: a quantity of zero is one that was not measured.
\* Neither a tool nor a step without tokens has a price per token.
DeriveCost(t, basis) ==
  LET q     == Quantities(t, basis)
      usd   == [i \in DOMAIN t.steps |-> basis.rate * q.steps[i]]
      steps == [ i \in DOMAIN t.steps |->
                   [ step_id |-> t.steps[i].step_id, kind |-> t.steps[i].kind, usd |-> usd[i],
                     per_token |-> { <<usd[i], g>> : g \in
                       {n \in t.steps[i].deltas.generation : n # 0 /\ t.steps[i].kind # "tool"} } ] ]
  IN IF q.run = 0 THEN {}
     ELSE { [ basis            |-> basis,
              run_usd          |-> basis.rate * q.run,
              attributed_usd   |-> Summed(steps, {"llm_call", "tool"}),
              llm_usd          |-> Summed(steps, {"llm_call"}),
              tool_usd         |-> Summed(steps, {"tool"}),
              unattributed_usd |-> basis.rate * q.unattributed,
              steps            |-> steps,
              per_token        |-> { <<basis.rate * q.run, g>> :
                                       g \in {t.total_generation_tokens} \ {0} } ] }

-----------------------------------------------------------------------------
(* render_cost: the basis beside the figures, each part with its share.    *)

\* The part and the whole, or zero of an unpriced whole.
ShareOf(part, whole) == IF whole > 0 THEN <<part, whole>> ELSE <<0, 1>>

RenderCost(c) ==
  [ basis        |-> c.basis,
    run          |-> c.run_usd,
    attributed   |-> c.attributed_usd,
    generating   |-> ShareOf(c.llm_usd, c.attributed_usd),
    in_tools     |-> ShareOf(c.tool_usd, c.attributed_usd),
    unattributed |-> ShareOf(c.unattributed_usd, c.run_usd),
    per_token    |-> IF c.per_token = {} THEN "withheld" ELSE "priced",
    steps        |-> [ i \in DOMAIN c.steps |->
                         [ usd |-> c.steps[i].usd,
                           per_token |-> IF c.steps[i].per_token = {} THEN "-" ELSE "priced" ] ] ]
=============================================================================
