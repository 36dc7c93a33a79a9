------------------------- MODULE MCReleasePromotion -------------------------
(* A small instance of ReleasePromotion: the selections of steps an operator  *)
(* may ask for.                                                               *)
EXTENDS ReleasePromotion

Selection(how, step) == [how |-> how, step |-> step]
AllSteps == {Selection("all", "x"), Selection("resume", "x")}
=============================================================================
