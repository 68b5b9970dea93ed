-------------------------- MODULE MCScenarioEngine --------------------------
(* Load profiles and configurations for model checking ScenarioEngine. *)
EXTENDS ScenarioEngine

GrowingUsers == <<1, 2>>
DefaultUsers == <<0, 1>>

(* Both stages timed, nothing else special. *)
Plain == [timed |-> <<TRUE, TRUE>>, capped |-> FALSE, any_steps |-> TRUE,
          may_throw |-> FALSE]

(* A global cap that ends the second stage; an exception; a configuration  *)
(* without steps; a last stage, or a first one, that runs until stop().    *)
AllConfigs ==
  {[Plain EXCEPT !.timed = <<TRUE, FALSE>>, !.capped = TRUE],
   [Plain EXCEPT !.may_throw = TRUE],
   [Plain EXCEPT !.any_steps = FALSE],
   [Plain EXCEPT !.timed = <<TRUE, FALSE>>],
   [Plain EXCEPT !.timed = <<FALSE, TRUE>>, !.any_steps = FALSE]}

UntimedLast == {[Plain EXCEPT !.timed = <<TRUE, FALSE>>]}
=============================================================================
