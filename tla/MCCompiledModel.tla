-------------------------- MODULE MCCompiledModel --------------------------
(***************************************************************************)
(* Every plan of NumSteps steps whose first step is a constant or an input, *)
(* whose dispatches have one or two inputs and outputs of one unit, or of   *)
(* two up to the third step, and whose last step reads one step; the last   *)
(* step and at most one other are outputs.                                  *)
(***************************************************************************)
EXTENDS CompiledModel

CONSTANT NumSteps

Single(i) == {{j} : j \in 1..(i - 1)}
Pick(i) == Single(i) \union {{j, k} : j, k \in 1..(i - 1)}

StepsAt(i) ==
  IF i = 1 THEN ({"dispatch"} \X {1, 2} \X {{}}) \union {<<"input", 0, {}>>}
  ELSE IF i = NumSteps
  THEN ({"dispatch"} \X {1} \X Single(i)) \union ({"runtime"} \X {0} \X Single(i))
  ELSE ({"dispatch"} \X (IF i <= 3 THEN {1, 2} ELSE {1}) \X Pick(i))
       \union ({"view", "runtime"} \X {0} \X Single(i))

PlanOf(s) == [kind   |-> [i \in 1..NumSteps |-> s[i][1]],
              bytes  |-> [i \in 1..NumSteps |-> s[i][2]],
              inputs |-> [i \in 1..NumSteps |-> s[i][3]]]

SmallPlans ==
  LET prefix[n \in 0..NumSteps] ==
        IF n = 0 THEN {<<>>}
        ELSE {Append(p, s) : p \in prefix[n - 1], s \in StepsAt(n)}
  IN  {PlanOf(p) : p \in prefix[NumSteps]}

LastOnly(p) == {{Len(p.kind)}}

LastAndAnother(p) == {{Len(p.kind), i} : i \in DOMAIN p.kind}
=============================================================================
