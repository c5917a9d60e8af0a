----------------------------- MODULE MCHandles -----------------------------
(***************************************************************************)
(* Image "split" keeps part of its data in a second container, which has   *)
(* no image of its own; "whole" does not.                                  *)
(***************************************************************************)
EXTENDS Handles, TLC

CONSTANTS split, whole, second

MCFiles == {split, whole, second}
MCKinds == split :> "image" @@ whole :> "image" @@ second :> "empty"
MCParts == [f \in MCFiles |-> IF f = split THEN <<split, second>> ELSE <<f>>]
=============================================================================
