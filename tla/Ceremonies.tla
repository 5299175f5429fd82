----------------------------- MODULE Ceremonies -----------------------------
(***************************************************************************)
(* The ceremony store (store/ceremony and store/ceremony/memory): the       *)
(* stored records of one account's unfinished journeys, capped per kind,    *)
(* charged for wrong codes, consumed once; and the consumption marks of the *)
(* stateless handles, which have no record.                                 *)
(*                                                                          *)
(* A record seals a Pending.  A handle is the number of its record in the   *)
(* order of the Puts, so it also stands for the store's sequence number;    *)
(* the clock is read in the step of the Put, so CreatedAt and the sequence  *)
(* number order the records alike.                                          *)
(***************************************************************************)
EXTENDS Integers, FiniteSets, FiniteSetsExt, Functions, TLC

CONSTANTS
    TTL,           \* kind -> lifetime of a record or stateless handle
    MaxAttempts,   \* kind -> failures after which a record is deleted
    MaxLive,       \* kind -> live records kept per scope
    PendingTTL     \* lifetime of a Pending

VARIABLES
    now,           \* the clock
    drawn,         \* number of handles drawn so far
    records,       \* handle -> stored record
    marks          \* stateless handle -> until when its consumption is kept

ceremonyVars == <<now, drawn, records, marks>>

\* The kinds whose artefacts feed their Pending to an admission.
AdmitsSession(k) == k \notin {"PasskeyRegistration", "PasswordReset"}

\* When an artefact of kind k sealing p now stops being usable.
ExpiresAt(k, p) ==
    IF AdmitsSession(k) THEN Min({now + TTL[k], p.expires}) ELSE now + TTL[k]

Live(k) == {h \in DOMAIN records : records[h].kind = k /\ records[h].expires > now}

\* The records a Put of kind k evicts once the scope holds more rows than its
\* cap: every other live one but the newest MaxLive[k] - 1.
Evicted(k) ==
    LET same == {h \in DOMAIN records : records[h].kind = k}
    IN  IF Cardinality(same) + 1 > MaxLive[k]
          THEN {h \in Live(k) : Cardinality({g \in Live(k) : g > h}) >= MaxLive[k] - 1}
          ELSE {}

\* NewRecord refuses a Pending that has expired.
Storable(p) == p.expires > now

Put(k, p) ==
    /\ drawn' = drawn + 1
    /\ records' = Restrict(records, DOMAIN records \ Evicted(k))
                    @@ (drawn + 1 :> [kind |-> k, pending |-> p, attempts |-> 0,
                                      expires |-> ExpiresAt(k, p)])
    /\ UNCHANGED marks

Without(h) == Restrict(records, DOMAIN records \ {h})

Consume(h) ==
    /\ records' = Without(h)
    /\ UNCHANGED <<drawn, marks>>

\* Mutant: the failure being charged is not counted.
RemainingLate(h) == MaxAttempts[records[h].kind] - records[h].attempts

\* What is left of a record's attempts once one more failure is charged to it.
Remaining(h) == MaxAttempts[records[h].kind] - records[h].attempts - 1

RecordFailure(h) ==
    /\ records' = IF Remaining(h) <= 0 THEN Without(h)
                                       ELSE [records EXCEPT ![h].attempts = @ + 1]
    /\ UNCHANGED <<drawn, marks>>

\* Whether MarkConsumed reports the first consumption: an unexpired mark
\* refuses it.
FirstMark(h) == ~ (h \in DOMAIN marks /\ marks[h] > now)

MarkConsumed(h, until) ==
    /\ marks' = IF FirstMark(h) THEN (h :> until) @@ marks ELSE marks
    /\ UNCHANGED <<drawn, records>>

ReapExpired ==
    /\ records' = Restrict(records, {h \in DOMAIN records : records[h].expires > now})
    /\ marks' = Restrict(marks, {h \in DOMAIN marks : marks[h] > now})
    /\ <<records, marks>>' # <<records, marks>>
    /\ UNCHANGED <<now, drawn>>

\* The records of the account's scopes go; marks have no scope and stay.
EraseRecords ==
    /\ DOMAIN records # {}
    /\ records' = <<>>
    /\ UNCHANGED <<now, drawn, marks>>
=============================================================================
