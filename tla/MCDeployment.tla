---------------------------- MODULE MCDeployment ----------------------------
(* Instances of Deployment for TLC.                                        *)
EXTENDS Deployment, TLC

CONSTANTS c1, good, bad, torn, h1, h2

Full == [droplet |-> TRUE, temporary |-> FALSE, confirmed |-> TRUE, only |-> FALSE, capsule |-> c1, build |-> good,
         host |-> h1, verify |-> TRUE, copy |-> TRUE, update |-> FALSE,
         gate |-> TRUE, start |-> TRUE, plan |-> FALSE]

MCDeployments ==
    {Full,
     [Full EXCEPT !.build = bad, !.host = h2],
     [Full EXCEPT !.build = bad, !.gate = FALSE, !.host = h2],
     [Full EXCEPT !.build = torn],
     [Full EXCEPT !.copy = FALSE, !.update = TRUE],
     [Full EXCEPT !.copy = FALSE, !.start = FALSE],
     [Full EXCEPT !.copy = FALSE, !.gate = FALSE, !.host = h2],
     [Full EXCEPT !.plan = TRUE], [Full EXCEPT !.confirmed = FALSE],
     [Full EXCEPT !.only = TRUE], [Full EXCEPT !.droplet = FALSE],
     [Full EXCEPT !.droplet = FALSE, !.temporary = TRUE]}
=============================================================================
