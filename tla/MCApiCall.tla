----------------------------- MODULE MCApiCall -----------------------------
(* ApiCall on two concurrent calls.                                        *)
EXTENDS ApiCall
=============================================================================
