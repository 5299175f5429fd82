---------------------------- MODULE MCJWTSessions ----------------------------
EXTENDS JWTContract, TLC

Draws == Permutations(Request) \cup Permutations(Renewal)

Scene(o, l, n, e, p, d, t) ==
    [ops |-> o \cup {"end"}, logins |-> l, rows |-> n, epochs |-> e, flights |-> p, lasts |-> d,
     renewals |-> 0, time |-> t]

KeyScene(l, k, t) ==
    [ops |-> {"mint"}, logins |-> l, rows |-> l, epochs |-> 1, flights |-> 1, lasts |-> 0,
     renewals |-> k, time |-> t]

\* Two requests that race to rotate one session, or under each change of the
\* account; tokens signed while a key is renewed; two renewals that race.
Scenes ==
    {Scene({}, 1, 3, 1, 2, 0, 3), Scene({}, 1, 2, 1, 2, 1, 3), Scene({"enrol"}, 1, 2, 2, 2, 0, 2),
     Scene({"password"}, 1, 2, 2, 2, 0, 3), Scene({"must_change"}, 1, 2, 1, 2, 0, 3),
     Scene({"disable"}, 1, 2, 2, 2, 1, 2), Scene({"reauth"}, 1, 2, 1, 2, 0, 2),
     KeyScene(1, 1, 3), KeyScene(0, 2, 3)}

=============================================================================
