---------------------------- MODULE MCDagExecutor ----------------------------
(***************************************************************************)
(* A workflow for TLC with every shape the Builder can make: three roots   *)
(* for two slots, an If with both branches over the value of "probe", a    *)
(* Select over the branches, and a node whose condition asks whether a     *)
(* Merge has an active value.  When "probe" is true, "no" is skipped, past *)
(* the cap when both slots are taken, and may be the last thing "pick"     *)
(* waits for; the third root makes nodes wait at the head of the queue.    *)
(***************************************************************************)
EXTENDS DagExecutorProps

One(n) == [producers |-> <<n>>, collect |-> FALSE]
Select(s) == [producers |-> s, collect |-> FALSE]
Merge(s) == [producers |-> s, collect |-> TRUE]
When(ref, want) == [ref |-> ref, want |-> want]

MCNodes == {"seed", "probe", "spare", "yes", "no", "pick", "tail"}
MCPosition ==
  [seed |-> 1, probe |-> 2, spare |-> 3, yes |-> 4, no |-> 5, pick |-> 6, tail |-> 7]
MCInputs ==
  [seed |-> {}, probe |-> {}, spare |-> {}, yes |-> {}, no |-> {One("seed")},
   pick |-> {Select(<<"yes", "no">>)},
   tail |-> {Merge(<<"seed", "pick">>), One("spare")}]
MCConditions ==
  [seed |-> {}, probe |-> {}, spare |-> {}, pick |-> {},
   yes |-> {When(One("probe"), TRUE)},
   no |-> {When(One("probe"), FALSE)},
   tail |-> {When(Merge(<<"yes">>), TRUE), When(One("spare"), TRUE)}]

MCValues == {"T", Nil}
MCTruthyValues == {"T"}
=============================================================================
