----------------------------- MODULE RowLocksMC ------------------------------
(* Values of the constants of RowLocks: tag lists in opposite orders. *)
EXTENDS RowLocks

MCTagLists == {<<"x", "y">>, <<"y", "x">>}
=============================================================================
