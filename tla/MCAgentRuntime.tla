--------------------------- MODULE MCAgentRuntime ---------------------------
(* Instances of AgentRuntime for TLC.                                      *)
EXTENDS AgentRuntime, TLC

\* Besides the defaults of the other calls, for which a named host is missing.
MCRequests == {[profile |-> "intranet_private", mode |-> "private", public |-> FALSE,
                expires |-> "none", host |-> "named"]}

\* Settings by which EnvironmentNamesProfile and RevertedIsPrivate fail.
MCPublicRequests == {[profile |-> "public_temporary", mode |-> "temporary_tunnel", public |-> TRUE,
                      expires |-> "ahead", host |-> "loopback"],
                     [profile |-> "public_vps", mode |-> "public", public |-> TRUE,
                      expires |-> "over", host |-> "named"]}

Interchangeable == Permutations(Passwords)
=============================================================================
