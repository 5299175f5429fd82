-------------------------- MODULE MCStatefulSessions --------------------------
EXTENDS StatefulContract, TLC

Draws == Permutations(Request)

Scene(o, l, e, d) ==
    [flights |-> 2, renewals |-> 0, ops |-> o \cup {"end"}, logins |-> l, rows |-> l + 1, epochs |-> e, lasts |-> d, time |-> IF l = 1 THEN 3 ELSE 2]

\* Two sessions while a factor is enrolled; one session under every other change.
Scenes ==
    {Scene({"enrol"}, 2, 2, 0), Scene({"enrol", "remove"}, 1, 3, 1), Scene({"password"}, 1, 3, 1),
     Scene({"disable", "reauth"}, 1, 2, 1), Scene({"must_change", "replace_password"}, 1, 2, 0)}

=============================================================================
