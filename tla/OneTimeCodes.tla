---------------------------- MODULE OneTimeCodes ----------------------------
(***************************************************************************)
(* The one-time codes of one address: the verifications row of its login   *)
(* or of its signup, the requests that issue codes, and the requests that  *)
(* try one.  The row is keyed by the address, so a code that replaces      *)
(* another keeps the id of the row; a row that was deleted comes back with *)
(* a new id.                                                               *)
(***************************************************************************)
EXTENDS Naturals

CONSTANTS
    Tries,       \* slots of requests that try a code
    Resends,     \* slots of requests that ask for another code
    MaxAttempts, \* MAX_OTP_ATTEMPTS
    MaxCodes,    \* bound of the model: how many codes are issued
    MaxCounted   \* bound of the model: a row with more attempts is not tried again

ASSUME CodesAssumption == MaxAttempts \in Nat /\ MaxCodes \in Nat /\ MaxCounted \in Nat

VARIABLES
    purpose,  \* what the codes of the row are for: login, signup
    entry,    \* the row: whether it exists, id, code (value), attempts (data._attempts),
              \* within 60 s of its updatedAt, not expired
    codes,    \* the number of the newest code
    ids,      \* the number of the newest id
    try,      \* what each request that tries a code knows and does
    resend,   \* what each request for another code has read of data
    tries,    \* history: how often a code was compared with the one of the row
    used,     \* history: codes that signed somebody in
    reused    \* history: a code signed in twice

ocVars == <<purpose, entry, codes, ids, try, resend, tries, used, reused>>

Wrong == 0  \* a guess that is no code
NotReading == [pc |-> "idle", attempts |-> 0]
NotTrying == [pc |-> "idle", code |-> Wrong, id |-> 0]

OcTypeOK ==
    /\ purpose \in {"login", "signup"}
    /\ entry \in [exists : BOOLEAN, id : Nat, code : Nat, attempts : Nat, cooling : BOOLEAN,
                  valid : BOOLEAN]
    /\ codes \in Nat /\ ids \in Nat /\ tries \in Nat
    /\ try \in [Tries -> [pc : {"idle", "counting", "consuming"}, code : Nat, id : Nat]]
    /\ resend \in [Resends -> [pc : {"idle", "writing"}, attempts : Nat]]
    /\ used \subseteq Nat /\ reused \in BOOLEAN

OcInit ==
    /\ purpose \in {"login", "signup"}
    /\ entry = [exists |-> FALSE, id |-> 0, code |-> 0, attempts |-> 0, cooling |-> FALSE,
                valid |-> FALSE]
    /\ codes = 0 /\ ids = 0 /\ tries = 0 /\ used = {} /\ reused = FALSE
    /\ try = [r \in Tries |-> NotTrying]
    /\ resend = [r \in Resends |-> NotReading]

-----------------------------------------------------------------------------

\* The upsert of a new code: the row is inserted, or replaced when setWhere allows it.
Upsert(allowed, attempts) ==
    IF entry.exists /\ ~allowed
    THEN UNCHANGED <<entry, codes, ids, tries>>
    ELSE /\ codes' = codes + 1 /\ ids' = IF entry.exists THEN ids ELSE ids + 1
         /\ entry' = [exists |-> TRUE, id |-> ids', code |-> codes', attempts |-> attempts,
                      cooling |-> TRUE, valid |-> TRUE]
         /\ tries' = 0

\* login waits for the cooldown of the last code, signUp for its expiry.
Ask ==
    /\ codes < MaxCodes
    /\ Upsert(IF purpose = "login" THEN ~entry.cooling ELSE ~entry.valid, 0)
    /\ UNCHANGED <<purpose, try, resend, used, reused>>

\* resendLoginOtp and resendOTP: the second writes back the data it has read, attempts
\* included.
ResendReads(r) ==
    /\ resend[r].pc = "idle" /\ entry.exists
    /\ resend' = [resend EXCEPT ![r] = [pc |-> "writing", attempts |-> entry.attempts]]
    /\ UNCHANGED <<purpose, entry, codes, ids, try, tries, used, reused>>

ResendWrites(r) ==
    /\ resend[r].pc = "writing" /\ codes < MaxCodes
    /\ Upsert(~entry.cooling, IF purpose = "login" THEN 0 ELSE resend[r].attempts)
    /\ resend' = [resend EXCEPT ![r] = NotReading]
    /\ UNCHANGED <<purpose, try, used, reused>>

\* verifyLoginOtp and verifyOTP read the row; the code given is the newest, an older one or
\* none.
TryReads(r, code) ==
    /\ try[r].pc = "idle" /\ entry.exists /\ entry.valid /\ entry.attempts <= MaxCounted
    /\ try' = [try EXCEPT ![r] = [pc |-> "counting", code |-> code, id |-> entry.id]]
    /\ UNCHANGED <<purpose, entry, codes, ids, resend, tries, used, reused>>

\* A variant of TryCounts: the attempts before this one are checked.
TryCountsLate(r, counted, deleted) ==
    LET mine == entry.exists /\ entry.id = try[r].id
        compared == mine /\ entry.attempts <= MaxAttempts
    IN  /\ try[r].pc = "counting"
        /\ entry' = IF ~mine THEN entry
                    ELSE [entry EXCEPT !.attempts = @ + counted, !.cooling = TRUE,
                                       !.exists = compared \/ ~deleted]
        /\ tries' = IF compared THEN tries + 1 ELSE tries
        /\ try' = [try EXCEPT ![r] = IF compared /\ entry.code = @.code
                                     THEN [@ EXCEPT !.pc = "consuming"]
                                     ELSE NotTrying]
        /\ UNCHANGED <<purpose, codes, ids, resend, used, reused>>

\* verifyOtpWithAttempts: the attempt is counted, again when the answer of the database was
\* lost; then the code of the row as it is now is compared, or the row deleted, or not (a
\* failed delete is ignored).
TryCounts(r, counted, deleted) ==
    LET attempts == entry.attempts + counted
        mine == entry.exists /\ entry.id = try[r].id
        compared == mine /\ attempts <= MaxAttempts
    IN  /\ try[r].pc = "counting"
        /\ entry' = IF ~mine THEN entry
                    ELSE [entry EXCEPT !.attempts = attempts, !.cooling = TRUE,
                                       !.exists = compared \/ ~deleted]
        /\ tries' = IF compared THEN tries + 1 ELSE tries
        /\ try' = [try EXCEPT ![r] = IF compared /\ entry.code = @.code
                                     THEN [@ EXCEPT !.pc = "consuming"]
                                     ELSE NotTrying]
        /\ UNCHANGED <<purpose, codes, ids, resend, used, reused>>

\* A variant of TryConsumes: the row is deleted by its address.
TryConsumesAny(r, answered) ==
    LET signedIn == entry.exists /\ answered
    IN  /\ try[r].pc = "consuming"
        /\ entry' = [entry EXCEPT !.exists = FALSE]
        /\ used' = IF signedIn THEN used \cup {try[r].code} ELSE used
        /\ reused' = (reused \/ (signedIn /\ try[r].code \in used))
        /\ try' = [try EXCEPT ![r] = NotTrying]
        /\ UNCHANGED <<purpose, codes, ids, resend, tries>>

\* consumeVerificationById and the sign-in, unless the answer of the delete was lost: then
\* its retry deletes nothing and the code is spent.
TryConsumes(r, answered) ==
    LET deleted == entry.exists /\ entry.id = try[r].id
        signedIn == deleted /\ answered
    IN  /\ try[r].pc = "consuming"
        /\ entry' = [entry EXCEPT !.exists = @ /\ ~deleted]
        /\ used' = IF signedIn THEN used \cup {try[r].code} ELSE used
        /\ reused' = (reused \/ (signedIn /\ try[r].code \in used))
        /\ try' = [try EXCEPT ![r] = NotTrying]
        /\ UNCHANGED <<purpose, codes, ids, resend, tries>>

Cooled ==
    /\ entry.cooling
    /\ entry' = [entry EXCEPT !.cooling = FALSE]
    /\ UNCHANGED <<purpose, codes, ids, try, resend, tries, used, reused>>

\* OTP_EXPIRY_MS is ten minutes; requests may be slower than either time.
Expired ==
    /\ entry.valid
    /\ entry' = [entry EXCEPT !.valid = FALSE, !.cooling = FALSE]
    /\ UNCHANGED <<purpose, codes, ids, try, resend, tries, used, reused>>

OcNext ==
    \/ Ask \/ Cooled \/ Expired
    \/ \E r \in Resends : ResendReads(r) \/ ResendWrites(r)
    \/ \E r \in Tries :
        \/ \E code \in 0..codes : TryReads(r, code)
        \/ \E counted \in 1..2, deleted \in BOOLEAN : TryCounts(r, counted, deleted)
        \/ \E answered \in BOOLEAN : TryConsumes(r, answered)

OcSpec == OcInit /\ [][OcNext]_ocVars

-----------------------------------------------------------------------------

\* A code signs in at most once, however many requests present it at the same time.
CodeUsedOnce == ~reused

\* No more than MAX_OTP_ATTEMPTS guesses are compared with a code, although they are tried
\* concurrently and the row is written by requests for other codes between them.
GuessesBounded == tries <= MaxAttempts

=============================================================================
