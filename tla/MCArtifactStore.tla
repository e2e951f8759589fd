-------------------------- MODULE MCArtifactStore --------------------------
(* Instances of ArtifactStore for TLC: a library that products depend on,  *)
(* and a product, each with two builds.                                    *)
EXTENDS ArtifactStore

CONSTANTS koali, orgo,           \* artifacts
          ckoali, corgo,         \* capsule ids
          koali1, koali2, orgo1, orgo2,  \* builds
          widgets                \* a capability

\* koali2 drops the capability that orgo1 uses; orgo2, which the verifier
\* rejects, requires the newer koali itself.
MCDescriptor ==
    LET lib(v, caps) == [artifact |-> koali, version |-> v, requires |-> {},
                         provides |-> caps, uses |-> {}, removable |-> TRUE,
                         integrated |-> FALSE]
        product(v, required, used) ==
            [artifact |-> orgo, version |-> v, requires |-> required,
             provides |-> {}, uses |-> used, removable |-> TRUE, integrated |-> TRUE]
    IN [b \in Builds |-> CASE b = koali1 -> lib(1, {widgets})
                           [] b = koali2 -> lib(2, {})
                           [] b = orgo1  -> product(1, {}, {widgets})
                           [] OTHER      -> product(2, {[artifact |-> koali, accepts |-> {2}]}, {})]

\* A capsule id is used for one artifact.
MCSupply == {<<ckoali, koali1>>, <<ckoali, koali2>>, <<corgo, orgo1>>, <<corgo, orgo2>>}
\* The product's build is also offered under the library's capsule id: RemovalSparesOthers
\* fails with this supply.
SharedSupply == {<<ckoali, koali1>>, <<ckoali, orgo1>>}
=============================================================================
