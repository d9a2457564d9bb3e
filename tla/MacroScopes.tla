---------------------------- MODULE MacroScopes ----------------------------
(***************************************************************************)
(* What the macro environment of one translation unit promises: every name *)
(* has exactly one meaning, a name's meanings can be saved and brought     *)
(* back in last-in first-out order and independently of the other names,   *)
(* and a new translation unit starts from the configured meanings with     *)
(* nothing saved.                                                          *)
(***************************************************************************)
EXTENDS Naturals, Sequences

CONSTANTS Names,     \* identifiers
          Meanings,  \* what an identifier can stand for
          Initial    \* the configured meaning of each name

VARIABLES meaning,   \* [Names -> Meanings]
          saved      \* [Names -> Seq(Meanings)]

vars == <<meaning, saved>>

Init ==
    /\ meaning = Initial
    /\ saved = [n \in Names |-> <<>>]

Bind(n, m) ==
    /\ meaning' = [meaning EXCEPT ![n] = m]
    /\ UNCHANGED saved

Save(n) ==
    /\ saved' = [saved EXCEPT ![n] = Append(@, meaning[n])]
    /\ UNCHANGED meaning

Restore(n) ==
    /\ saved[n] # <<>>
    /\ meaning' = [meaning EXCEPT ![n] = saved[n][Len(saved[n])]]
    /\ saved' = [saved EXCEPT ![n] = SubSeq(@, 1, Len(@) - 1)]

Restart ==
    /\ meaning' = Initial
    /\ saved' = [n \in Names |-> <<>>]

Next ==
    \/ \E n \in Names : Save(n) \/ Restore(n) \/ \E m \in Meanings : Bind(n, m)
    \/ Restart

Spec == Init /\ [][Next]_vars
=============================================================================
