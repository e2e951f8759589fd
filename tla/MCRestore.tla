----------------------------- MODULE MCRestore -----------------------------
(* Restores over the instance, with an operation that undoes them or       *)
(* without a backup first; and into a new instance, for practice or not.   *)
EXTENDS Restore

Over == [same |-> TRUE, dry |-> FALSE, strict |-> TRUE, overwrite |-> FALSE,
         undo |-> TRUE, save |-> TRUE, extras |-> {"media"}]

MCPlans == {Over,
            [Over EXCEPT !.save = FALSE, !.undo = FALSE, !.extras = {}],
            [Over EXCEPT !.same = FALSE, !.dry = TRUE, !.save = FALSE, !.extras = {}],
            [Over EXCEPT !.same = FALSE, !.undo = FALSE, !.strict = FALSE,
                         !.extras = {"gate"}]}
=============================================================================
