-------------------------- MODULE PricedTrajectory --------------------------
(***************************************************************************)
(* The prices of a derived trajectory: module Cost on what module          *)
(* Trajectory has attributed.                                              *)
(***************************************************************************)
EXTENDS Trajectory, Cost

CONSTANT Bases    \* the rates a user may declare

ASSUME BasesAssumption ==
  \A basis \in Bases :
    basis.rate \in Nat /\ basis \in {Occupancy(basis.rate), PerEnergy(basis.rate)}

(* The figures reconcile and so do their prices ("a reader cannot mistake  *)
(* a declared rate for a measurement", cost.rs): on either basis what is   *)
(* attributed and what is not make up the run, generating and tools make   *)
(* up what is attributed, no price is below zero, and the prices per token *)
(* never charge the tokens of the steps more than the run cost.            *)
PricesReconcile ==
  outcome = "derived" =>
    /\ Reconciles
    /\ \A basis \in Bases : \A c \in DeriveCost(metrics, basis) :
         LET charged == [i \in DOMAIN c.steps |-> SumSet({p[1] : p \in c.steps[i].per_token})]
         IN /\ c.attributed_usd + c.unattributed_usd = c.run_usd
            /\ c.llm_usd + c.tool_usd = c.attributed_usd
            /\ \A i \in DOMAIN c.steps : c.steps[i].usd >= 0
            /\ SumFunction(charged) <= c.run_usd
=============================================================================
