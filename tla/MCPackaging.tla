---------------------------- MODULE MCPackaging ----------------------------
EXTENDS Packaging, TLC

CONSTANTS j1, j2, k1

Ask(from, key, verify) == [from |-> from, key |-> key, verify |-> verify]
MCRequests ==
    (j1 :> {Ask("source", NoKey, TRUE), Ask(Prepared, k1, TRUE)})
    @@ (j2 :> {Ask(Prepared, k1, FALSE)})
=============================================================================
