----------------------------- MODULE ScopeStack -----------------------------
(***************************************************************************)
(* What lexical scoping promises: environments are stacked, a declaration  *)
(* changes the innermost one only, and leaving a scope brings back the     *)
(* environment around it exactly as it was when the scope was entered.     *)
(***************************************************************************)
EXTENDS Naturals, Sequences

VARIABLE stack  \* environments, the one of the file first

Init == Len(stack) = 1

\* The new scope may start with declarations of its own.
Enter ==
    /\ Len(stack') = Len(stack) + 1
    /\ \A i \in 1..Len(stack) : stack'[i] = stack[i]

Declare ==
    /\ Len(stack') = Len(stack)
    /\ \A i \in 1..(Len(stack) - 1) : stack'[i] = stack[i]

Leave ==
    /\ Len(stack) > 1
    /\ Len(stack') = Len(stack) - 1
    /\ \A i \in 1..Len(stack') : stack'[i] = stack[i]

Next == Enter \/ Declare \/ Leave

Spec == Init /\ [][Next]_stack
=============================================================================
