---------------------------- MODULE MCMacroTable ----------------------------
(* A program with an ordinary macro, a configured one, a feature query and *)
(* the __pragma operator, each pushed, popped, redefined and undefined.    *)
EXTENDS MacroTable

MCNames == {"m", "__has_feature", "__pragma", "__FILE__"}
MCDefines == [n \in {"m"} |-> "v1"]
MCValueBytes == [v \in Values |-> IF v = "v1" THEN 1 ELSE 2]

\* The records of written definitions have a budget of their own; it ends a
\* run of the environment after a bounded number of directives.
=============================================================================
