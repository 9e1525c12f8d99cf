--------------------------- MODULE MCTransactionPool ---------------------------
(***************************************************************************)
(* The instance of TransactionPool for model checking: IDs of three half   *)
(* bytes, three of them equal in the first two, so that one addition can   *)
(* split a bucket twice.                                                   *)
(***************************************************************************)
EXTENDS TransactionPool

MCTxIDs == {<<0, 0, 0>>, <<0, 0, 1>>, <<0, 0, 2>>, <<0, 1, 0>>}
MCBlocks == {<<<<0, 0, 1>>, <<0, 1, 0>>>>}

=============================================================================
