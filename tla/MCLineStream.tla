---------------------------- MODULE MCLineStream ----------------------------
(* LineStream with the second line of stdout as the one WaitForLine accepts. *)
EXTENDS LineStream

MCMatching == {<<"stdout", 2>>}
=============================================================================
