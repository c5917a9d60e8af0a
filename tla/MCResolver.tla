---------------------------- MODULE MCResolver ----------------------------
(***************************************************************************)
(* A directory of up to three volume files: f1 and f2 hold the same        *)
(* volume, one of them with its description not at its beginning.          *)
(***************************************************************************)
EXTENDS Resolver, TLC

CONSTANTS f1, f2, f3, r1, r2

MCContent ==
    f1 :> [id |-> r1, large |-> TRUE, first |-> TRUE]
    @@ f2 :> [id |-> r1, large |-> TRUE, first |-> FALSE]
    @@ f3 :> [id |-> r2, large |-> FALSE, first |-> TRUE]
=============================================================================
