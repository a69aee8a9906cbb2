---------------------------- MODULE MCCaseRunner ----------------------------
(* A case with two retrievals side by side, one of them soft, as in        *)
(* ov-search-compare, a conditional retrieval, and a node that no edge     *)
(* orders before the judge.                                                *)
EXTENDS CaseRunnerProps

MCNodes == {"seed", "find", "search", "audit", "judge"}
MCPosition ==
  [n \in MCNodes |-> CASE n = "seed" -> 1 [] n = "find" -> 2 [] n = "search" -> 3
                       [] n = "audit" -> 4 [] n = "judge" -> 5]

Edge(p) == [producers |-> <<p>>, collect |-> FALSE]

MCInputs ==
  [n \in MCNodes |->
     CASE n = "seed" -> {}
       [] n = "judge" -> {Edge("find"), Edge("search")}
       [] OTHER -> {Edge("seed")}]
MCConditions ==
  [n \in MCNodes |-> IF n = "search" THEN {[ref |-> Edge("seed"), want |-> TRUE]} ELSE {}]

MCValues == {"Plain", "Softened", "Passing", "Failing"}
MCTruthy == {"Plain", "Passing"}

MCGateConfig ==
  [n \in MCNodes |-> CASE n \in {"seed", "search", "judge"} -> "soft" [] OTHER -> "unset"]
=============================================================================
