----------------------------- MODULE MCDoubles ------------------------------
(* A script for two commands: a sequence for the first, which the second    *)
(* shares, then a rule of the second that the first rule shadows.           *)
EXTENDS Doubles, TLC

MCKeys == {"status", "diff", "push"}
MCRules == <<[accepts |-> {"status"}, replies |-> <<"fail", "err", "ok">>],
             [accepts |-> {"status", "diff"}, replies |-> <<"timedOut", "pending">>]>>

\* Two results are small enough for Replay, three are not.
MCFits == {n \in [MCKeys -> 0 .. 2] : n["status"] + n["diff"] + n["push"] <= 2}

\* Both sorts of goroutine are interchangeable, and only invariants are checked.
Symmetry == Permutations(Callers) \cup Permutations(Savers)
=============================================================================
