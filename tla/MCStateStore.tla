---------------------------- MODULE MCStateStore ----------------------------
(* Two jobs for model checking.                                              *)
EXTENDS StateStore

MCNames == <<"request-1", "request-2">>
=============================================================================
