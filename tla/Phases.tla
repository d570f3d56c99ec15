------------------------------- MODULE Phases -------------------------------
(* The phases of a session (cmd_phase.rs). *)

Phase == {"orient", "plan", "agree", "execute", "reflect", "replan", "report"}

\* Phase::valid_transitions
Transitions(phase) ==
  CASE phase = "orient"  -> {"plan"}
    [] phase = "plan"    -> {"agree"}
    [] phase = "agree"   -> {"execute"}
    [] phase = "execute" -> {"reflect", "report"}
    [] phase = "reflect" -> {"execute", "replan", "report"}
    [] phase = "replan"  -> {"agree"}
    [] phase = "report"  -> {}

\* The commands that check_phase refuses in each phase.
PhaseForbids(phase, key) ==
  \/ phase \in {"orient", "agree", "report"}
  \/ phase = "plan" /\ key \in {"task"} \X {"claim", "done", "block"}
  \/ phase = "execute" /\ key \in {<<"task", "add">>, <<"task", "cancel">>, <<"spec", "add">>}
  \/ phase \in {"reflect", "replan"} /\ key = <<"task", "claim">>
=============================================================================
