-------------------------- MODULE MCSolutionFiles --------------------------
(* SolutionFiles with one name and one kind of component of every treatment. *)
EXTENDS SolutionFiles
=============================================================================
