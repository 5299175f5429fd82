------------------------------ MODULE MCSignIn ------------------------------
(***************************************************************************)
(* The situations TLC explores.  Each enables some of the operations and    *)
(* bounds the clock, the handles drawn and the epochs, so that their state  *)
(* spaces add up instead of multiplying.                                    *)
(***************************************************************************)
EXTENDS FactorChanges

TTLs == [k \in {"MFAFlow", "MFAPasskey", "Passkey", "EmailCode", "MagicLink",
                "PasswordReset", "PasskeyRegistration"} |-> 2]
Attempts == [k \in DOMAIN TTLs |-> 2]
Caps == [k \in DOMAIN TTLs |-> 2]

None == [c \in {} |-> 0]
Enrolled == [secret |-> 1, confirmed |-> TRUE, used |-> 0, counter |-> NoCounter]
Situation == [ops |-> {}, time |-> 2, handles |-> 2, epochs |-> 2, secrets |-> 4,
              factors |-> {"totp", "recovery"},
              totp |-> NoTOTP, codes |-> {}, keys |-> None, generated |-> 0, spent |-> {},
              records |-> None]

\* Codes for one account: the cap and the attempts, then the epochs and time.
CodesMany == [Situation EXCEPT !.ops = {"code", "verify_code"}, !.handles = 3, !.time = 1]
CodesLate == [Situation EXCEPT !.ops = {"code", "verify_code", "change"}, !.handles = 1, !.time = 3]
Links == [Situation EXCEPT !.ops = {"link", "use_link", "change", "erase"}]
Reset == [Situation EXCEPT !.ops = {"forgot", "reset", "login", "erase"}, !.epochs = 3]
Lock == [Situation EXCEPT !.ops = {"login"}, !.time = 5]
WithTOTP == [Situation EXCEPT !.totp = Enrolled, !.codes = {2}, !.generated = 2]
\* A flow a password login has parked.
Parked == 1 :> [kind |-> "MFAFlow", attempts |-> 0, expires |-> 3,
                pending |-> [epoch |-> 1, expires |-> 4,
                             proofs |-> {[f |-> "pwd", epoch |-> 1, binds |-> TRUE]}]]
OneKey == "k1" :> [count |-> 0, active |-> TRUE]

Park == [WithTOTP EXCEPT !.ops = {"login", "challenge"}, !.time = 1, !.handles = 2, !.factors = {"recovery"}]
Flow == [WithTOTP EXCEPT !.ops = {"challenge", "change"}, !.time = 1, !.records = Parked]
TOTPLock == [WithTOTP EXCEPT !.ops = {"reauth"}, !.time = 3, !.factors = {"totp"}]
CodeLock == [WithTOTP EXCEPT !.ops = {"reauth"}, !.time = 4, !.factors = {"recovery"}]
Passkeys == [Situation EXCEPT !.ops = {"pk_login", "change", "remove"}, !.time = 3, !.handles = 1, !.keys = OneKey]
StepUp == [Situation EXCEPT !.ops = {"stepup_begin", "stepup"}, !.time = 2, !.handles = 4, !.keys = OneKey,
                            !.records = Parked]
Enrol == [Situation EXCEPT !.ops = {"enroll", "confirm"}, !.time = 1, !.epochs = 3, !.secrets = 3,
                          !.factors = {"totp"}]
\* The step that confirms an enrolment, presented again once it is confirmed.
Again == [Situation EXCEPT !.ops = {"enroll", "confirm", "challenge"}, !.time = 1, !.secrets = 3,
                           !.factors = {"totp"}, !.totp = [Enrolled EXCEPT !.confirmed = FALSE],
                           !.generated = 1, !.records = Parked]
Unenrol == [WithTOTP EXCEPT !.ops = {"disable", "remove", "regenerate"}, !.time = 1, !.epochs = 3,
                            !.keys = OneKey, !.factors = {"totp"}]
Registration == [Situation EXCEPT !.ops = {"register", "remove", "change"}, !.epochs = 3, !.keys = OneKey]
Gone == [WithTOTP EXCEPT !.ops = {"challenge", "disable", "erase"}, !.records = Parked, !.time = 1,
                         !.factors = {"recovery"}]

AllScenes == {CodesMany, CodesLate, Links, Reset, Lock, Park, Flow, TOTPLock, CodeLock, Passkeys,
              StepUp, Enrol, Again, Unenrol, Registration, Gone}
SameRequests == Permutations(Request)
=============================================================================
