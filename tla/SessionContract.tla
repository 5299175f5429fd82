--------------------------- MODULE SessionContract ---------------------------
(***************************************************************************)
(* What a session backend promises of the sessions of one account          *)
(* (internal/session/backend.go, internal/session/backendtest): a session  *)
(* is admitted once and ends once; a change of password or factors leaves  *)
(* at most the session that made it; that session alone takes up the epoch *)
(* the change made, one change at a time; and a session that has shown a   *)
(* second factor never loses it.                                           *)
(***************************************************************************)
EXTENDS Integers

CONSTANTS
    Lineage,    \* session ids
    NoLineage,  \* a change that keeps no session
    Epoch       \* security epochs of the account

VARIABLES
    epoch,      \* the epoch of the account
    kept,       \* the session that the change out of each epoch kept
    session     \* the sessions

vars == <<epoch, kept, session>>

None == [stage |-> "none", epoch |-> 0, multi |-> FALSE]
Ended == [stage |-> "ended", epoch |-> 0, multi |-> FALSE]
Live(e, m) == [stage |-> "live", epoch |-> e, multi |-> m]

Init ==
    /\ epoch = 1
    /\ kept = [e \in Epoch |-> NoLineage]
    /\ session = [l \in Lineage |-> None]

\* A login; the epoch may have moved on since the login read it.
Admit(l) ==
    /\ session[l] = None
    /\ \E e \in 1 .. epoch, m \in BOOLEAN : session' = [session EXCEPT ![l] = Live(e, m)]

\* A change of password, factors or account state, made by a session or by none.
Change(l) ==
    /\ epoch' = epoch + 1 /\ epoch' \in Epoch
    /\ l = NoLineage \/ session[l] # None
    /\ kept' = [kept EXCEPT ![epoch] = l]
    /\ UNCHANGED session

\* The session that made the change out of its epoch takes up the next one.
Follow(l) ==
    /\ session[l].stage = "live"
    /\ kept[session[l].epoch] = l
    /\ \E m \in BOOLEAN :
         /\ session[l].multi => m
         /\ session' = [session EXCEPT ![l] = Live(session[l].epoch + 1, m)]

\* A second factor is shown.
Prove(l) ==
    /\ session[l].stage = "live"
    /\ session' = [session EXCEPT ![l] = Live(session[l].epoch, TRUE)]

\* Logout, revocation and expiry.
End ==
    \E S \in SUBSET {l \in Lineage : session[l].stage = "live"} :
        session' = [l \in Lineage |-> IF l \in S THEN Ended ELSE session[l]]

Next ==
    \/ \E l \in Lineage \cup {NoLineage} : Change(l)
    \/ /\ session' # session
       /\ End \/ \E l \in Lineage : Admit(l) \/ Follow(l) \/ Prove(l)
       /\ UNCHANGED <<epoch, kept>>

Spec == Init /\ [][Next]_vars

=============================================================================
