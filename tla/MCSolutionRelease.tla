------------------------- MODULE MCSolutionRelease -------------------------
(* SolutionRelease with two users and one tag of their own: the first has a  *)
(* template in the manifest, the second the later version.  The solution     *)
(* without a tag is a system solution.                                       *)
EXTENDS SolutionRelease, TLC

CONSTANTS u1, u2

MCUsers == {u1, u2}
MCSystem == {<<"", "">>}
MCTemplated == {u1}
MCVersion == (u1 :> 0) @@ (u2 :> 1)
=============================================================================
