-------------------------- MODULE MCBlockLocalStrage ---------------------------
(***************************************************************************)
(* The instance of BlockLocalStrage for model checking: one block fills    *)
(* its blk file first, the other its rev file.                             *)
(***************************************************************************)
EXTENDS BlockLocalStrage, TLC

CONSTANTS b1, b2

MCBlkSize == b1 :> 2 @@ b2 :> 1
MCRevSize == b1 :> 1 @@ b2 :> 2

=============================================================================
