---------------------------- MODULE MCTrajectory ----------------------------
(* A run of five instants sampled every second one.  The reference instant *)
(* is at 1 on the wall clock, so that a step can start before it.          *)
EXTENDS PricedTrajectory

S(at, device, power) == [at |-> at, device |-> device, power |-> power]
K(at, hits, queries) == [at |-> at, hits |-> hits, queries |-> queries]
P(at, prompt, generation, prefill, decode) ==
  [ at |-> at, prompt |-> prompt, generation |-> generation,
    prefill_ns |-> prefill, decode_ns |-> decode ]

\* Two devices; in the second timeline each misses a tick.
BothDevices == << S(0,0,3), S(0,1,1), S(2,0,5), S(2,1,2), S(4,0,4), S(4,1,2) >>
MissedTicks == << S(0,0,3), S(0,1,1), S(2,0,5), S(4,1,2) >>

Rising  == << K(0,0,1), K(2,1,3), K(3,1,4), K(4,3,6) >>
Dips    == << K(0,1,1), K(2,0,3), K(3,1,4) >>
Phases  == << P(1,1,0,2,0), P(2,1,2,2,3), P(4,2,3,4,5) >>
NoLegs  == << P(0,1,0,None,None), P(3,2,3,None,None) >>
Resets  == << P(0,2,2,2,0), P(2,0,0,0,0), P(4,3,3,3,3) >>

\* Windows on the wall clock: before the anchor, touching, nested, crossing,
\* empty, and past the end.
Windows ==
  { <<0, 2>>, <<1, 2>>, <<1, 3>>, <<1, 5>>, <<2, 3>>, <<2, 4>>, <<3, 3>>, <<3, 5>>,
    <<4, 5>>, <<5, 5>>, <<4, 6>> }

Step(id, w) ==
  [ step_id |-> id, kind |-> IF w[1] % 2 = 1 THEN "llm_call" ELSE "tool",
    t_start |-> w[1], t_end |-> w[2] ]

GoodFiles ==
  { << Step(id[1], u), Blank, Step(id[2], v), Step(id[3], w) >> :
      u \in Windows, v \in Windows, w \in Windows, id \in {<<1, 2, 3>>, <<3, 1, 2>>} }

OtherFiles ==
  { <<>>,
    << Step(1, <<1, 3>>), Malformed >>,
    << Step(1, <<1, 3>>), Step(2, <<3, 2>>), Step(3, <<3, 5>>) >>,
    << Step(1, <<1, 3>>), Step(2, <<5, 2>>) >>,
    << Step(1, <<1, 3>>), Step(2, <<3, 4>>), Step(1, <<4, 5>>) >> }

Case(file, anchor, gpu, kv, phase) ==
  [file |-> file, anchor |-> anchor, gpu |-> gpu, kv |-> kv, phase |-> phase]

FewFiles == OtherFiles \cup {<<Step(1, <<1, 4>>), Step(2, <<4, 5>>)>>, <<Step(1, <<2, 5>>)>>}

\* The two bases at rates of their own.
AllBases == {Occupancy(3), PerEnergy(2)}

AllCases ==
  { Case(f, 1, gpu, Rising, Phases) : f \in GoodFiles, gpu \in {BothDevices, MissedTicks} }
  \cup { Case(f, anchor, gpu, kv, phase) :
           f \in FewFiles, anchor \in {1, None},
           gpu \in {BothDevices, <<S(0,0,3)>>, <<>>},
           kv \in {Rising, Dips, <<>>}, phase \in {Phases, NoLegs, Resets, <<>>} }
=============================================================================
