--------------------------- MODULE ServicesProofs ---------------------------
(***************************************************************************)
(* Proofs about services around a meeting: the plan of a user, one-time    *)
(* codes, session tokens and raised hands; for any number of events,       *)
(* requests, codes, rotations, members and messages.  What is limited by a *)
(* number is proved in LimitsProofs, the whiteboard and the rooms in       *)
(* modules of their own; the last theorems bring all of them together.     *)
(***************************************************************************)
EXTENDS MCServices, WhiteboardProofs, RoomProofs, LimitsProofs, TLAPS

LOCAL INSTANCE SequencesExt

-----------------------------------------------------------------------------
(* Billing.  Whatever handlers overlap, the condition of the update keeps  *)
(* the user at the newest event.                                           *)

BillingInv == BiTypeOK /\ NewestEventStands

\* No step of a handler leaves the invariant.
LEMMA BillingInvariant == BiSpec => []BillingInv
<1>1. BiInit => BillingInv
  BY DEF BiInit, BillingInv, BiTypeOK, NewestEventStands
<1>2. BillingInv /\ [BiNext]_biVars => BillingInv'
  <2> SUFFICES ASSUME BillingInv, [BiNext]_biVars PROVE BillingInv'
    OBVIOUS
  <2> USE BillingAssumption DEF BillingInv, BiTypeOK, NewestEventStands
  <2>1. ASSUME NEW e \in Events, Finds(e) PROVE BillingInv'
    BY <2>1 DEF Finds
  <2>2. ASSUME NEW e \in Events, Writes(e) PROVE BillingInv'
    <3>1. Applied(e) \in [plan : {"free", "paid"}, sub : Subscriptions \cup {NoSubscription},
                          at : Nat]
      BY DEF Applied, ByCustomer, Effects
    <3>2. Applied(e).at = EventTime[e] /\ Says(e, Applied(e).plan)
      BY DEF Applied, Says
    <3>3. EventTime[e] \in Nat /\ user.at \in Nat /\ \A d \in settled : EventTime[d] \in Nat
      OBVIOUS
    <3>4. CASE user.at <= EventTime[e]
      <4>1. user' = Applied(e) /\ settled' = settled \cup {e}
        BY <2>2, <3>4 DEF Writes
      <4>2. \A d \in settled' : EventTime[d] <= user'.at
        BY <3>2, <3>3, <3>4, <4>1
      <4>3. e \in settled' /\ EventTime[e] = user'.at /\ Says(e, user'.plan)
        BY <3>2, <4>1
      <4>4. NewestEventStands'
        BY <4>2, <4>3 DEF Says
      <4> QED
        BY <2>2, <3>1, <4>1, <4>4 DEF Writes
    <3>5. CASE ~(user.at <= EventTime[e])
      BY <2>2, <3>3, <3>5 DEF Writes
    <3> QED
      BY <3>4, <3>5
  <2>3. ASSUME NEW e \in Events, Fails(e) PROVE BillingInv'
    BY <2>3 DEF Fails
  <2>4. CASE UNCHANGED biVars
    BY <2>4 DEF biVars
  <2> QED
    BY <2>1, <2>2, <2>3, <2>4 DEF BiNext
<1> QED
  BY <1>1, <1>2, PTL DEF BiSpec

\* handlePaddleEvent never lets an event older than one it has taken in set the plan: it is
\* the one that a newest event taken in gives, when that event gives any.
THEOREM BillingNewest == BiSpec => []NewestEventStands
<1>1. BillingInv => NewestEventStands
  BY DEF BillingInv
<1> QED
  BY <1>1, BillingInvariant, PTL

-----------------------------------------------------------------------------
(* One-time codes.                                                         *)

\* Codes and ids are numbered as they are issued; a code that signed in has left the row,
\* and so has the id of every other request that holds it.
CodesInv ==
    /\ OcTypeOK
    /\ entry.code <= codes /\ entry.id = ids /\ \A c \in used : c <= codes
    /\ \A r \in Tries : try[r].code <= codes /\ try[r].id <= ids
    /\ entry.exists => entry.code \notin used
    /\ \A r \in Tries : try[r].pc = "consuming" /\ try[r].code \in used
                            => ~(entry.exists /\ entry.id = try[r].id)
    /\ CodeUsedOnce
    /\ tries <= entry.attempts /\ GuessesBounded

LEMMA CodesStart == OcInit => CodesInv
<1> SUFFICES ASSUME OcInit PROVE CodesInv
  OBVIOUS
<1>1. OcTypeOK
  BY DEF OcInit, OcTypeOK, NotTrying, NotReading, Wrong
<1>2. /\ used = {} /\ reused = FALSE /\ tries = 0 /\ codes = 0 /\ ids = 0
      /\ entry.code = 0 /\ entry.id = 0 /\ entry.attempts = 0 /\ entry.exists = FALSE
      /\ \A r \in Tries : try[r].code = 0 /\ try[r].id = 0
  BY DEF OcInit, NotTrying, Wrong
<1> QED
  BY <1>1, <1>2, CodesAssumption DEF CodesInv, CodeUsedOnce, GuessesBounded

\* A code that is issued is new.
LEMMA CodeIssued ==
    ASSUME CodesInv, NEW allowed \in BOOLEAN, NEW attempts \in Nat, Upsert(allowed, attempts),
           UNCHANGED <<purpose, try, used, reused>>,
           resend' \in [Resends -> [pc : {"idle", "writing"}, attempts : Nat]]
    PROVE  CodesInv'
<1> USE CodesAssumption DEF CodesInv, OcTypeOK, CodeUsedOnce, GuessesBounded
<1>1. CASE UNCHANGED <<entry, codes, ids, tries>>
  BY <1>1
<1>2. CASE /\ codes' = codes + 1 /\ ids' = (IF entry.exists THEN ids ELSE ids + 1)
           /\ entry' = [exists |-> TRUE, id |-> ids', code |-> codes', attempts |-> attempts,
                        cooling |-> TRUE, valid |-> TRUE]
           /\ tries' = 0
  <2>1. entry' \in [exists : BOOLEAN, id : Nat, code : Nat, attempts : Nat, cooling : BOOLEAN,
                    valid : BOOLEAN] /\ codes' \in Nat /\ ids' \in Nat
    BY <1>2
  <2>2. /\ entry'.code = codes + 1 /\ entry'.id = ids' /\ entry'.attempts = attempts
        /\ ids' >= ids /\ (~entry.exists => ids' = ids + 1)
    BY <1>2
  <2>3. OcTypeOK'
    BY <1>2, <2>1
  <2>4. /\ \A c \in used' : c <= codes'
        /\ \A r \in Tries : try'[r].code <= codes' /\ try'[r].id <= ids'
        /\ entry'.code \notin used'
    BY <1>2, <2>1, <2>2
  <2>5. ASSUME NEW r \in Tries, try'[r].pc = "consuming", try'[r].code \in used'
        PROVE  ~(entry'.exists /\ entry'.id = try'[r].id)
    <3>1. CASE entry.exists
      BY <1>2, <2>2, <2>5, <3>1
    <3>2. CASE ~entry.exists
      BY <1>2, <2>2, <2>5, <3>2
    <3> QED
      BY <3>1, <3>2
  <2> QED
    BY <1>2, <2>1, <2>2, <2>3, <2>4, <2>5
<1> QED
  BY <1>1, <1>2 DEF Upsert

LEMMA CodesStep == CodesInv /\ [OcNext]_ocVars => CodesInv'
<1> SUFFICES ASSUME CodesInv, [OcNext]_ocVars PROVE CodesInv'
  OBVIOUS
<1> USE CodesAssumption DEF CodesInv, OcTypeOK, CodeUsedOnce, GuessesBounded
<1>1. CASE Ask
  <2>1. CASE purpose = "login"
    BY <1>1, <2>1, CodeIssued DEF Ask
  <2>2. CASE purpose # "login"
    BY <1>1, <2>2, CodeIssued DEF Ask
  <2> QED
    BY <2>1, <2>2
<1>2. ASSUME NEW r \in Resends, ResendReads(r) PROVE CodesInv'
  BY <1>2 DEF ResendReads
<1>3. ASSUME NEW r \in Resends, ResendWrites(r) PROVE CodesInv'
  BY <1>3, CodeIssued DEF ResendWrites, NotReading
<1>4. ASSUME NEW r \in Tries, NEW code \in 0..codes, TryReads(r, code) PROVE CodesInv'
  BY <1>4 DEF TryReads
<1>5. ASSUME NEW r \in Tries, NEW counted \in 1..2, NEW deleted \in BOOLEAN,
             TryCounts(r, counted, deleted)
      PROVE  CodesInv'
  <2> DEFINE mine == entry.exists /\ entry.id = try[r].id
             compared == mine /\ entry.attempts + counted <= MaxAttempts
  <2>1. UNCHANGED <<purpose, codes, ids, resend, used, reused>>
    BY <1>5 DEF TryCounts
  <2>2. /\ entry' \in [exists : BOOLEAN, id : Nat, code : Nat, attempts : Nat, cooling : BOOLEAN,
                       valid : BOOLEAN]
        /\ entry'.id = entry.id /\ entry'.code = entry.code
        /\ entry'.attempts = IF mine THEN entry.attempts + counted ELSE entry.attempts
        /\ entry'.exists => entry.exists
    <3>1. CASE mine
      <4>1. entry' = [entry EXCEPT !.attempts = entry.attempts + counted, !.cooling = TRUE,
                                   !.exists = compared \/ ~deleted]
        BY <1>5, <3>1 DEF TryCounts
      <4>2. (compared \/ ~deleted) \in BOOLEAN /\ entry.attempts + counted \in Nat
        OBVIOUS
      <4> HIDE DEF compared
      <4> QED
        BY <3>1, <4>1, <4>2
    <3>2. CASE ~mine
      BY <1>5, <3>2 DEF TryCounts
    <3> QED
      BY <3>1, <3>2
  <2>3. tries' = IF compared THEN tries + 1 ELSE tries
    BY <1>5 DEF TryCounts
  <2>4. tries' \in Nat /\ tries' <= entry'.attempts /\ tries' <= MaxAttempts
    BY <2>2, <2>3
  <2>5. CASE compared /\ entry.code = try[r].code
    <3>1. try' = [try EXCEPT ![r].pc = "consuming"] /\ try[r].code \notin used
      BY <1>5, <2>5 DEF TryCounts
    <3>2. try' \in [Tries -> [pc : {"idle", "counting", "consuming"}, code : Nat, id : Nat]]
      BY <3>1
    <3>3. \A q \in Tries : try'[q].code = try[q].code /\ try'[q].id = try[q].id
      BY <3>1
    <3>4. ASSUME NEW q \in Tries, try'[q].pc = "consuming", try'[q].code \in used
          PROVE  try[q].pc = "consuming"
      BY <3>1, <3>4
    <3> QED
      BY <2>1, <2>2, <2>4, <3>2, <3>3, <3>4
  <2>6. CASE ~(compared /\ entry.code = try[r].code)
    <3>1. try' = [try EXCEPT ![r] = [pc |-> "idle", code |-> 0, id |-> 0]]
      BY <1>5, <2>6 DEF TryCounts, NotTrying, Wrong
    <3> QED
      BY <2>1, <2>2, <2>4, <3>1
  <2> QED
    BY <2>5, <2>6
<1>6. ASSUME NEW r \in Tries, NEW answered \in BOOLEAN, TryConsumes(r, answered)
      PROVE  CodesInv'
  BY <1>6 DEF TryConsumes, NotTrying, Wrong
<1>7. CASE Cooled
  BY <1>7 DEF Cooled
<1>8. CASE Expired
  BY <1>8 DEF Expired
<1>9. CASE UNCHANGED ocVars
  BY <1>9 DEF ocVars
<1> QED
  BY <1>1, <1>2, <1>3, <1>4, <1>5, <1>6, <1>7, <1>8, <1>9 DEF OcNext

LEMMA CodesInvariant == OcSpec => []CodesInv
BY CodesStart, CodesStep, PTL DEF OcSpec

\* verifyLoginOtp and verifyOTP sign in with a code once, although the code is compared in
\* one statement and consumed in another.
THEOREM CodeOnce == OcSpec => []CodeUsedOnce
<1>1. CodesInv => CodeUsedOnce
  BY DEF CodesInv
<1> QED
  BY <1>1, CodesInvariant, PTL

\* verifyOtpWithAttempts compares at most MAX_OTP_ATTEMPTS guesses with a code.
THEOREM FewGuesses == OcSpec => []GuessesBounded
<1>1. CodesInv => GuessesBounded
  BY DEF CodesInv
<1> QED
  BY <1>1, CodesInvariant, PTL

-----------------------------------------------------------------------------
(* The rotation of session tokens.                                         *)

\* Requests whose token is still to be matched.
Flying(r) == req[r].pc \in {"sent", "rotating", "extending", "logout"}

\* Requests whose conditional update would succeed.
MayRotate(r) == req[r].pc = "rotating" /\ req[r].version = session.version

\* The tokens are numbered as they are issued.
TokensCounted ==
    /\ session.token = issued
    /\ session.previous = IF session.token = 0 THEN NoToken ELSE session.token - 1
    /\ \A r \in Requests : req[r].pc # "idle" => req[r].token \in 0..issued

\* A token that is on its way to the browser is the newest and nobody presents it yet; so it
\* is not replaced before it arrives, and the cookie is always in the row.
CookieKnown ==
    /\ \/ cookie = NoToken
       \/ cookie \in 0..issued /\ cookie \in {session.token, session.previous}
    /\ \A r \in Requests : req[r].pc = "answered" =>
        /\ req[r].token = issued /\ cookie # issued /\ (near => last)
        /\ \A q \in Requests : q # r /\ req[q].pc # "idle" => req[q].token # issued
    /\ \A r \in Requests :
        req[r].pc \notin {"idle", "answered"} /\ req[r].token = issued
            => cookie \in {NoToken, issued}

\* Whoever may rotate presents the newest token.
RotatesNewest ==
    \A r \in Requests : req[r].pc = "rotating" =>
        req[r].version <= session.version /\ (MayRotate(r) => req[r].token = issued)

\* Before the last window every token in use is in the row.
TokensKnown ==
    (alive /\ ~last)
        => \A r \in Requests : Flying(r) => req[r].token \in {session.token, session.previous}

\* From the moment at which the expiry is near to the rotation, all requests present the
\* cookie: so the one that rotates leaves behind a token that is remembered.
TokensAgree ==
    (alive /\ ~last /\ (near \/ \E r \in Requests : MayRotate(r)))
        => \A q \in Requests : Flying(q) => req[q].token = cookie

RotationInv ==
    /\ RoTypeOK /\ TokensCounted /\ CookieKnown /\ RotatesNewest /\ TokensKnown /\ TokensAgree
    /\ NoSpuriousLogout /\ LogoutEnds

LEMMA RotationStarts == RoInit => RotationInv
<1> SUFFICES ASSUME RoInit PROVE RotationInv
  OBVIOUS
<1>1. RoTypeOK
  BY RotationAssumption DEF RoInit, RoTypeOK, Tokens, Pcs, Idle
<1>2. cookie = session.token /\ \A r \in Requests : req[r].pc = "idle"
  BY DEF RoInit, Idle
<1> QED
  BY <1>1, <1>2 DEF RotationInv, TokensCounted, CookieKnown, RotatesNewest, TokensKnown,
     TokensAgree, Flying, MayRotate, NoSpuriousLogout, LogoutEnds, Matches, RoInit

\* A token in use that is not in the row was overtaken.
LEMMA UnknownIsOvertaken ==
    ASSUME RotationInv, NEW r \in Requests, Flying(r), alive, ~Matches(req[r].token)
    PROVE  Overtaken(r)
<1>1. last
  BY DEF RotationInv, TokensKnown, Matches
<1>2. /\ req[r].token \in 0..session.token /\ session.token \in Nat
      /\ req[r].token # session.token
      /\ session.token # 0 => req[r].token # session.token - 1
  BY DEF RotationInv, RoTypeOK, TokensCounted, Flying, Matches
<1> QED
  BY <1>1, <1>2 DEF Overtaken

LEMMA RotationStep == RotationInv /\ [RoNext]_roVars => RotationInv'
<1> SUFFICES ASSUME RotationInv, [RoNext]_roVars PROVE RotationInv'
  OBVIOUS
<1> USE RotationAssumption
    DEF RotationInv, RoTypeOK, Tokens, Pcs, Idle, TokensCounted, CookieKnown, RotatesNewest,
        TokensKnown, TokensAgree, Flying, MayRotate, NoSpuriousLogout, LogoutEnds, Overtaken,
        Becomes
<1>1. ASSUME NEW r \in Requests, NEW kind \in {"sent", "logout"}, Send(r, kind)
      PROVE  RotationInv'
  BY <1>1 DEF Send, Matches
<1>2. ASSUME NEW r \in Requests, Resolve(r) PROVE RotationInv'
  <2> DEFINE answer == req'[r]
  <2>1. /\ req' = [req EXCEPT ![r] = answer]
        /\ answer \in [pc : Pcs, token : Tokens, version : Nat]
        /\ answer.pc # "idle" => answer.token = req[r].token
        /\ answer.pc \in {"rejected", "extending", "rotating", "idle"}
        /\ answer.pc = "rejected" => ~Matches(req[r].token)
        /\ answer.pc = "rotating" => near /\ answer.version = session.version
                                     /\ req[r].token = session.token
    <3>1. CASE ~Matches(req[r].token)
      BY <1>2, <3>1 DEF Resolve
    <3>2. CASE Matches(req[r].token) /\ req[r].token # session.token
      BY <1>2, <3>2 DEF Resolve
    <3>3. CASE Matches(req[r].token) /\ req[r].token = session.token /\ near
      BY <1>2, <3>3 DEF Resolve
    <3>4. CASE Matches(req[r].token) /\ req[r].token = session.token /\ ~near
      BY <1>2, <3>4 DEF Resolve
    <3> QED
      BY <3>1, <3>2, <3>3, <3>4
  <2>2. req[r].pc = "sent" /\ UNCHANGED <<session, alive, near, last, cookie, issued>>
    BY <1>2 DEF Resolve
  <2>3. RoTypeOK' /\ TokensCounted'
    BY <2>1, <2>2
  <2>4. NoSpuriousLogout' /\ LogoutEnds'
    <3>1. (alive /\ ~Matches(req[r].token)) => Overtaken(r)
      BY <2>2, UnknownIsOvertaken
    <3> QED
      BY <2>1, <2>2, <3>1 DEF Matches
  <2>5. CookieKnown' /\ RotatesNewest'
    BY <2>1, <2>2
  <2>6. TokensKnown'
    BY <2>1, <2>2
  <2>7. TokensAgree'
    BY <2>1, <2>2
  <2> QED
    BY <2>3, <2>4, <2>5, <2>6, <2>7
<1>3. ASSUME NEW r \in Requests, VerifyRaw(r) PROVE RotationInv'
  <2>1. (alive /\ ~Matches(req[r].token)) => Overtaken(r)
    BY <1>3, UnknownIsOvertaken DEF VerifyRaw
  <2> QED
    BY <1>3, <2>1 DEF VerifyRaw, Matches
<1>4. ASSUME NEW r \in Requests, NEW ok \in BOOLEAN, Rotate(r, ok) PROVE RotationInv'
  <2>1. /\ req[r].pc = "rotating" /\ alive /\ session.version = req[r].version
        /\ session' = [token |-> issued + 1, previous |-> req[r].token,
                       version |-> session.version + 1]
        /\ issued' = issued + 1 /\ near' = last /\ UNCHANGED <<alive, last, cookie>>
        /\ \A q \in Requests : q # r => req'[q] = req[q]
        /\ \/ req'[r].pc = "answered" /\ req'[r].token = issued + 1
           \/ req'[r].pc = "idle"
    BY <1>4 DEF Rotate
  <2>2. RoTypeOK'
    <3>1. session' \in [token : Nat, previous : Tokens, version : Nat] /\ issued' \in Nat
      BY <2>1
    <3>2. req' \in [Requests -> [pc : Pcs, token : Tokens, version : Nat]]
      <4>1. CASE ok
        <5>1. req' = [req EXCEPT ![r] = [@ EXCEPT !.pc = "answered", !.token = issued + 1]]
          BY <1>4, <4>1 DEF Rotate
        <5>2. issued + 1 \in Tokens
          OBVIOUS
        <5> QED
          BY <5>1, <5>2
      <4>2. CASE ~ok
        BY <1>4, <4>2 DEF Rotate
      <4> QED
        BY <4>1, <4>2
    <3> QED
      BY <2>1, <3>1, <3>2
  <2>3. req[r].token = issued /\ session'.token = issued + 1 /\ session'.previous = issued
    BY <2>1
  <2>4. TokensCounted'
    BY <2>1, <2>3
  <2>5. \A q \in Requests : req[q].pc # "answered"
    BY <2>1, <2>3
  <2>6. cookie \in {NoToken, issued}
    BY <2>1, <2>3
  <2>7. CookieKnown'
    <3>1. issued \in Nat /\ issued' = issued + 1 /\ cookie' = cookie
      BY <2>1
    <3>2. \A q \in Requests : q # r /\ req'[q].pc # "idle" => req'[q].token \in 0..issued
      BY <2>1
    <3>3. ASSUME NEW q \in Requests, req'[q].pc = "answered"
          PROVE  q = r /\ req'[q].token = issued'
      <4>1. q = r
        BY <2>1, <2>5, <3>3
      <4>2. req'[r].pc = "answered" => req'[r].token = issued + 1
        BY <2>1
      <4>3. req'[r].pc = "answered"
        BY <3>3, <4>1, Zenon
      <4> QED
        BY <3>1, <4>1, <4>2, <4>3, Zenon
    <3>4. cookie' = NoToken \/ (cookie' \in 0..issued' /\ cookie' = session'.previous)
      BY <2>3, <2>6, <3>1
    <3>5. cookie' # issued'
      BY <2>6, <3>1
    <3>6. \A q \in Requests : q # r /\ req'[q].pc # "idle" => req'[q].token # issued'
      BY <3>1, <3>2
    <3>7. req'[r].pc \in {"idle", "answered"}
      BY <2>1
    <3>8. near' => last'
      BY <2>1
    <3> QED
      BY <3>1, <3>3, <3>4, <3>5, <3>6, <3>7, <3>8
  <2>8. RotatesNewest'
    BY <2>1
  <2>9. TokensKnown'
    BY <2>1, <2>3, <2>6
  <2>10. TokensAgree'
    BY <2>1
  <2>11. NoSpuriousLogout' /\ LogoutEnds'
    BY <2>1, <2>3, <2>6 DEF Matches
  <2> QED
    BY <2>2, <2>4, <2>7, <2>8, <2>9, <2>10, <2>11
<1>5. ASSUME NEW r \in Requests, NotRotated(r) PROVE RotationInv'
  BY <1>5 DEF NotRotated, Matches
<1>6. ASSUME NEW r \in Requests, NEW ok \in BOOLEAN, Extend(r, ok) PROVE RotationInv'
  <2>1. /\ req[r].pc = "extending" /\ req' = [req EXCEPT ![r] = Idle]
        /\ UNCHANGED <<session, alive, last, cookie, issued>>
        /\ near' \in BOOLEAN /\ (near' => near \/ last)
    BY <1>6 DEF Extend
  <2>2. RoTypeOK' /\ TokensCounted' /\ CookieKnown' /\ RotatesNewest' /\ TokensKnown'
    BY <2>1
  <2>3. TokensAgree'
    BY <2>1
  <2>4. NoSpuriousLogout' /\ LogoutEnds'
    BY <2>1 DEF Matches
  <2> QED
    BY <2>2, <2>3, <2>4
<1>7. ASSUME NEW r \in Requests, NEW ok \in BOOLEAN, Delivered(r, ok) PROVE RotationInv'
  <2>1. /\ req[r].pc = "answered" /\ req[r].token = issued
        /\ req' = [req EXCEPT ![r] = Idle]
        /\ UNCHANGED <<session, alive, near, last, issued>>
        /\ cookie' \in {cookie, issued}
    BY <1>7 DEF Delivered
  <2>2. \A q \in Requests : req'[q].pc # "idle" => q # r /\ req'[q] = req[q]
    BY <2>1
  <2>3. \A q \in Requests : Flying(q)' => req'[q].token # issued
    BY <2>1, <2>2
  <2>4. RoTypeOK' /\ TokensCounted' /\ RotatesNewest' /\ TokensKnown'
    BY <2>1
  <2>5. CookieKnown'
    BY <2>1, <2>2
  <2>6. TokensAgree'
    <3>1. near' => last'
      BY <2>1
    <3>2. \A q \in Requests : ~MayRotate(q)'
      BY <2>1, <2>2
    <3> QED
      BY <3>1, <3>2
  <2>7. NoSpuriousLogout' /\ LogoutEnds'
    BY <2>1 DEF Matches
  <2> QED
    BY <2>4, <2>5, <2>6, <2>7
<1>8. ASSUME NEW r \in Requests, Logout(r) PROVE RotationInv'
  <2>1. (alive /\ ~Matches(req[r].token)) => Overtaken(r)
    BY <1>8, UnknownIsOvertaken DEF Logout
  <2>2. /\ req[r].pc = "logout" /\ req' = [req EXCEPT ![r].pc = "loggedout"]
        /\ UNCHANGED <<session, near, last, cookie, issued>>
        /\ alive' = (alive /\ ~Matches(req[r].token))
    BY <1>8 DEF Logout
  <2>3. RoTypeOK' /\ TokensCounted' /\ CookieKnown' /\ RotatesNewest'
    BY <2>2
  <2>4. TokensKnown' /\ TokensAgree'
    BY <2>2
  <2>5. NoSpuriousLogout' /\ LogoutEnds'
    BY <2>1, <2>2 DEF Matches
  <2> QED
    BY <2>3, <2>4, <2>5
<1>9. ASSUME NEW r \in Requests, LoggedOut(r) PROVE RotationInv'
  <2>1. /\ req[r].pc = "loggedout" /\ cookie' = NoToken
        /\ req' = [req EXCEPT ![r] = Idle]
        /\ UNCHANGED <<session, alive, near, last, issued>>
    BY <1>9 DEF LoggedOut
  <2>2. \A q \in Requests : req'[q].pc # "idle" => q # r /\ req'[q] = req[q]
    BY <2>1
  <2>3. RoTypeOK' /\ TokensCounted'
    BY <2>1, <2>2
  <2>4. CookieKnown'
    BY <2>1, <2>2
  <2>5. RotatesNewest' /\ TokensKnown'
    BY <2>1, <2>2
  <2>6. TokensAgree'
    <3>1. ~(alive' /\ ~last')
      BY <2>1
    <3> QED
      BY <3>1
  <2>7. NoSpuriousLogout' /\ LogoutEnds'
    BY <2>1 DEF Matches
  <2> QED
    BY <2>3, <2>4, <2>5, <2>6, <2>7
<1>10. CASE NearExpiry
  BY <1>10 DEF NearExpiry, Recent, Matches
<1>11. CASE LastWindow
  BY <1>11 DEF LastWindow, Matches
<1>12. CASE SessionExpires
  BY <1>12 DEF SessionExpires, Matches
<1>13. CASE UNCHANGED roVars
  BY <1>13 DEF roVars, Matches
<1> QED
  BY <1>1, <1>2, <1>3, <1>4, <1>5, <1>6, <1>7, <1>8, <1>9, <1>10, <1>11, <1>12, <1>13
     DEF RoNext

LEMMA RotationInvariant == RoSpec => []RotationInv
BY RotationStarts, RotationStep, PTL DEF RoSpec

\* resolveSession turns no request away while the session lives, however its requests
\* interleave with rotations and whether or not the new cookie arrives, but one that two
\* rotations of the last window overtook; and the cookie always resolves.
THEOREM NobodyTurnedAway == RoSpec => []NoSpuriousLogout
<1>1. RotationInv => NoSpuriousLogout
  BY DEF RotationInv
<1> QED
  BY <1>1, RotationInvariant, PTL

\* logout ends the session although the token it carries has been replaced, unless it was
\* replaced twice in the last window.
THEOREM LogoutHolds == RoSpec => []LogoutEnds
<1>1. RotationInv => LogoutEnds
  BY DEF RotationInv
<1> QED
  BY <1>1, RotationInvariant, PTL

-----------------------------------------------------------------------------
(* Raised hands.  Who is not shown the newest queue has it under way to    *)
(* her, and whatever is numbered like the newest is the newest.            *)

Newest(sent) == sent.seq = sequence => sent.queue = queue

HandInv ==
    /\ sequence \in Nat /\ attending \subseteq Members
    /\ shown = [m \in Members |-> shown[m]]
    /\ \A m \in Members : shown[m].seq \in 0..sequence /\ Newest(shown[m])
    /\ \A u \in updates : u.to \in Members /\ u.seq \in 0..sequence /\ Newest(u)
    /\ \A m \in attending : \/ shown[m].seq = sequence
                            \/ \E u \in updates : u.to = m /\ u.seq = sequence

\* An update of the queue is on its way to everybody who is in the room.
LEMMA BroadcastKeeps ==
    ASSUME HandInv, NEW q, NEW present, present \subseteq Members, BroadcastQueue(q, present),
           attending' \subseteq present, UNCHANGED shown
    PROVE  HandInv'
<1>1. sequence' = sequence + 1 /\ sequence' \in Nat /\ queue' = q
  BY DEF BroadcastQueue, HandInv
<1>2. /\ \A u \in updates' : \/ u \in updates
                             \/ \E m \in present : u = [to |-> m, seq |-> sequence + 1, queue |-> q]
      /\ \A m \in present : [to |-> m, seq |-> sequence + 1, queue |-> q] \in updates'
  BY DEF BroadcastQueue
<1>3. ASSUME NEW u \in updates'
      PROVE  u.to \in Members /\ u.seq \in 0..sequence' /\ (u.seq = sequence' => u.queue = queue')
  BY <1>1, <1>2 DEF HandInv
<1>4. ASSUME NEW m \in Members
      PROVE  shown[m].seq \in 0..sequence' /\ shown[m].seq # sequence'
  BY <1>1 DEF HandInv
<1>5. ASSUME NEW m \in attending' PROVE \E u \in updates' : u.to = m /\ u.seq = sequence'
  <2>1. [to |-> m, seq |-> sequence + 1, queue |-> q] \in updates'
    BY <1>2
  <2> QED
    BY <1>1, <2>1
<1> QED
  BY <1>1, <1>3, <1>4, <1>5 DEF HandInv, Newest

\* A queue of hands in which nobody is twice.
Once(q) == q \in Seq(Hands) /\ \A i, j \in DOMAIN q : q[i].who = q[j].who => i = j

\* A raised hand joins the queue, one that is lowered leaves it, one that is approved stays.
LEMMA QueueWithout ==
    ASSUME Once(queue), NEW m \in Members
    PROVE  Once(Without(m))
<1>1. CASE ~InQueue(m)
  BY <1>1 DEF Without
<1>2. CASE InQueue(m)
  <2> DEFINE k == CHOOSE i \in DOMAIN queue : queue[i].who = m
             q == SubSeq(queue, 1, k - 1) \o SubSeq(queue, k + 1, Len(queue))
             From(i) == IF i < k THEN i ELSE i + 1
  <2>1. k \in 1..Len(queue) /\ Len(queue) \in Nat /\ queue \in Seq(Hands)
    BY <1>2 DEF InQueue, Once
  <2>2. Without(m) = q
    BY <1>2 DEF Without, RemoveAt
  <2> HIDE DEF k
  <2>3. /\ SubSeq(queue, 1, k - 1) \in Seq(Hands) /\ Len(SubSeq(queue, 1, k - 1)) = k - 1
        /\ \A i \in 1..(k - 1) : SubSeq(queue, 1, k - 1)[i] = queue[i]
    BY <2>1
  <2>4. /\ SubSeq(queue, k + 1, Len(queue)) \in Seq(Hands)
        /\ Len(SubSeq(queue, k + 1, Len(queue))) = Len(queue) - k
        /\ \A i \in 1..(Len(queue) - k) : SubSeq(queue, k + 1, Len(queue))[i] = queue[k + i]
    BY <2>1
  <2>5. /\ q \in Seq(Hands) /\ Len(q) = Len(queue) - 1
        /\ \A i \in 1..Len(q) : q[i] = queue[From(i)]
    <3> DEFINE a == SubSeq(queue, 1, k - 1)
               b == SubSeq(queue, k + 1, Len(queue))
    <3>1. /\ a \in Seq(Hands) /\ b \in Seq(Hands) /\ Len(a) = k - 1 /\ Len(b) = Len(queue) - k
          /\ \A i \in 1..Len(a) : a[i] = queue[i]
          /\ \A i \in 1..Len(b) : b[i] = queue[k + i]
          /\ q = a \o b
      BY <2>1, <2>3, <2>4
    <3> HIDE DEF a, b, q
    <3>2. /\ q \in Seq(Hands) /\ Len(q) = Len(queue) - 1
          /\ \A i \in 1..Len(a) : q[i] = a[i]
          /\ \A i \in (Len(a) + 1)..Len(q) : q[i] = b[i - Len(a)]
      BY <2>1, <3>1
    <3>3. ASSUME NEW i \in 1..Len(q), i < k PROVE q[i] = queue[From(i)]
      BY <2>1, <3>1, <3>2, <3>3
    <3>4. ASSUME NEW i \in 1..Len(q), ~(i < k) PROVE q[i] = queue[From(i)]
      <4>1. i \in (Len(a) + 1)..Len(q) /\ i - Len(a) \in 1..Len(b) /\ k + (i - Len(a)) = i + 1
        BY <2>1, <3>1, <3>2, <3>4
      <4> QED
        BY <3>1, <3>2, <3>4, <4>1
    <3> QED
      BY <3>2, <3>3, <3>4
  <2> HIDE DEF q
  <2>6. ASSUME NEW i \in 1..Len(q), NEW j \in 1..Len(q), q[i].who = q[j].who PROVE i = j
    <3>1. From(i) \in 1..Len(queue) /\ From(j) \in 1..Len(queue)
      BY <2>1, <2>5
    <3>2. q[i] = queue[From(i)] /\ q[j] = queue[From(j)]
      BY <2>5
    <3>3. From(i) = From(j)
      <4> HIDE DEF From
      <4> QED
        BY <2>1, <2>6, <3>1, <3>2 DEF Once
    <3> QED
      BY <2>1, <3>3
  <2>7. DOMAIN q = 1..Len(q)
    BY <2>5
  <2> QED
    BY <2>2, <2>5, <2>6, <2>7 DEF Once
<1> QED
  BY <1>1, <1>2

LEMMA QueueAppends ==
    ASSUME Once(queue), NEW m \in Members, ~InQueue(m)
    PROVE  Once(Append(queue, [who |-> m, status |-> "pending"]))
<1> DEFINE hand == [who |-> m, status |-> "pending"]
           q == Append(queue, hand)
<1>1. hand \in Hands /\ hand.who = m
  BY DEF Hands
<1>2. queue \in Seq(Hands) /\ Len(queue) \in Nat /\ DOMAIN queue = 1..Len(queue)
  BY DEF Once
<1> HIDE DEF hand
<1>3. /\ q \in Seq(Hands) /\ Len(q) = Len(queue) + 1 /\ DOMAIN q = 1..Len(q)
      /\ q[Len(queue) + 1] = hand /\ \A i \in 1..Len(queue) : q[i] = queue[i]
  BY <1>1, <1>2
<1> HIDE DEF q
<1>4. \A i \in 1..Len(queue) : q[i].who # m
  BY <1>2, <1>3 DEF InQueue
<1>5. \A i, j \in DOMAIN q : q[i].who = q[j].who => i = j
  BY <1>1, <1>2, <1>3, <1>4 DEF Once
<1> QED
  BY <1>3, <1>5 DEF Once, q, hand

LEMMA QueueApproves ==
    ASSUME Once(queue), NEW m \in Members
    PROVE  Once([i \in DOMAIN queue |->
                   IF queue[i].who = m THEN [queue[i] EXCEPT !.status = "approved"] ELSE queue[i]])
<1> DEFINE q == [i \in DOMAIN queue |->
                   IF queue[i].who = m THEN [queue[i] EXCEPT !.status = "approved"] ELSE queue[i]]
<1>1. queue \in Seq(Hands) /\ Len(queue) \in Nat /\ DOMAIN queue = 1..Len(queue)
  BY DEF Once
<1>2. ASSUME NEW i \in DOMAIN queue PROVE q[i] \in Hands /\ q[i].who = queue[i].who
  <2>1. queue[i] \in Hands
    BY <1>1
  <2> QED
    BY <2>1 DEF Hands
<1>3. q \in [1..Len(queue) -> Hands]
  BY <1>1, <1>2
<1> HIDE DEF q
<1>4. q \in Seq(Hands) /\ DOMAIN q = DOMAIN queue
  BY <1>1, <1>3
<1> QED
  BY <1>2, <1>4 DEF Once, q

\* Everybody in the room is shown the host's queue, or has it under way to her: updates that
\* arrive out of order, and members who leave, never make a browser stop at an older queue.
THEOREM QueuesAgree == HaSpec => []QueueAgrees
<1>1. HaInit => HandInv
  <2> SUFFICES ASSUME HaInit PROVE HandInv
    OBVIOUS
  <2>1. \A m \in Members : shown[m].seq = 0 /\ shown[m].queue = <<>>
    BY DEF HaInit
  <2> QED
    BY <2>1 DEF HaInit, HandInv, Newest
<1>2. HandInv /\ [HaNext]_handVars => HandInv'
  <2> SUFFICES ASSUME HandInv, [HaNext]_handVars PROVE HandInv'
    OBVIOUS
  <2>1. ASSUME UNCHANGED <<updates, queue, sequence, shown, attending>> PROVE HandInv'
    BY <2>1 DEF HandInv, Newest
  <2>2. ASSUME NEW m \in Members, SendsHand(m, "raise") \/ SendsHand(m, "lower") PROVE HandInv'
    BY <2>1, <2>2 DEF SendsHand
  <2>3. ASSUME NEW m \in Members, NEW q, Answers(m, q) PROVE HandInv'
    BY <2>3, BroadcastKeeps DEF Answers, HandInv
  <2>4. ASSUME NEW m \in Members, MemberLeaves(m) PROVE HandInv'
    <3>1. attending' \subseteq attending /\ m \notin attending' /\ UNCHANGED shown
      BY <2>4 DEF MemberLeaves
    <3>2. CASE InQueue(m)
      <4>1. BroadcastQueue(Without(m), attending')
        BY <2>4, <3>2 DEF MemberLeaves
      <4> QED
        BY <3>1, <4>1, BroadcastKeeps DEF HandInv
    <3>3. CASE ~InQueue(m)
      <4>1. UNCHANGED <<queue, sequence>> /\ updates' = {u \in updates : u.to # m}
        BY <2>4, <3>3 DEF MemberLeaves
      <4> QED
        BY <3>1, <4>1 DEF HandInv, Newest
    <3> QED
      BY <3>2, <3>3
  <2>5. ASSUME NEW message \in asking, HearsRaise(message) \/ HearsLower(message) PROVE HandInv'
    <3>1. UNCHANGED <<shown, attending>>
      BY <2>5 DEF HearsRaise, HearsLower
    <3>2. UNCHANGED <<queue, sequence, updates>> \/ \E q : BroadcastQueue(q, attending)
      BY <2>5 DEF HearsRaise, HearsLower
    <3> QED
      BY <2>1, <3>1, <3>2, BroadcastKeeps DEF HandInv
  <2>6. ASSUME NEW u \in updates, HearsQueue(u) PROVE HandInv'
    <3>1. UNCHANGED <<queue, sequence, attending>> /\ updates' = updates \ {u}
      BY <2>6 DEF HearsQueue
    <3>2. CASE u.seq > shown[u.to].seq
      <4>1. shown' = [shown EXCEPT ![u.to] = [seq |-> u.seq, queue |-> u.queue]]
        BY <2>6, <3>2 DEF HearsQueue
      <4>2. /\ shown' = [m \in Members |-> shown'[m]] /\ u.to \in Members
            /\ shown'[u.to].seq = u.seq /\ shown'[u.to].queue = u.queue
            /\ \A m \in Members \ {u.to} : shown'[m] = shown[m]
        BY <4>1 DEF HandInv
      <4>3. ASSUME NEW m \in attending
            PROVE  shown'[m].seq = sequence \/ \E v \in updates' : v.to = m /\ v.seq = sequence
        <5>1. CASE m = u.to /\ u.seq = sequence
          BY <4>2, <5>1
        <5>2. CASE m = u.to /\ u.seq # sequence
          <6>1. shown[m].seq # sequence
            BY <3>2, <5>2 DEF HandInv
          <6>2. PICK v \in updates : v.to = m /\ v.seq = sequence
            BY <6>1 DEF HandInv
          <6> QED
            BY <3>1, <5>2, <6>2
        <5>3. CASE m # u.to
          <6>1. shown'[m] = shown[m] /\ m \in Members
            BY <4>2, <5>3 DEF HandInv
          <6>2. shown[m].seq = sequence \/ \E v \in updates : v.to = m /\ v.seq = sequence
            BY DEF HandInv
          <6> QED
            BY <3>1, <5>3, <6>1, <6>2
        <5> QED
          BY <5>1, <5>2, <5>3
      <4> QED
        BY <3>1, <4>2, <4>3 DEF HandInv, Newest
    <3>3. CASE ~(u.seq > shown[u.to].seq)
      <4>1. UNCHANGED shown
        BY <2>6, <3>3 DEF HearsQueue
      <4>2. u.seq = sequence => shown[u.to].seq = sequence
        BY <3>3 DEF HandInv
      <4> QED
        BY <3>1, <4>1, <4>2 DEF HandInv, Newest
    <3> QED
      BY <3>2, <3>3
  <2>7. ASSUME NEW n \in notices, HearsAnswer(n) PROVE HandInv'
    BY <2>1, <2>7 DEF HearsAnswer
  <2>8. CASE UNCHANGED handVars
    BY <2>1, <2>8 DEF handVars
  <2> QED
    BY <2>2, <2>3, <2>4, <2>5, <2>6, <2>7, <2>8 DEF HaNext, Approves, Dismisses
<1>3. HandInv => QueueAgrees
  BY DEF HandInv, Newest, QueueAgrees
<1> QED
  BY <1>1, <1>2, <1>3, PTL DEF HaSpec

\* A broadcast of a queue of hands.
LEMMA BroadcastTypes ==
    ASSUME HaTypeOK, NEW q, Once(q), NEW present, present \subseteq Members,
           BroadcastQueue(q, present)
    PROVE  /\ Once(queue') /\ sequence' \in Nat /\ sequence' = sequence + 1
           /\ \A u \in updates' : u.to \in Members /\ u.seq \in 1..sequence' /\ u.queue \in Seq(Hands)
           /\ notices \subseteq [to : Members, seq : 1..sequence']
           /\ shown \in [Members -> [seq : 0..sequence', queue : Seq(Hands)]]
<1>1. queue' = q /\ sequence' = sequence + 1 /\ sequence \in Nat
  BY DEF BroadcastQueue, HaTypeOK
<1>2. ASSUME NEW u \in updates'
      PROVE  u.to \in Members /\ u.seq \in 1..sequence' /\ u.queue \in Seq(Hands)
  <2>1. CASE u \in updates
    BY <1>1, <2>1 DEF HaTypeOK
  <2>2. CASE \E m \in present : u = [to |-> m, seq |-> sequence + 1, queue |-> q]
    BY <1>1, <2>2 DEF Once
  <2> QED
    BY <2>1, <2>2 DEF BroadcastQueue
<1>3. 1..sequence \subseteq 1..sequence' /\ 0..sequence \subseteq 0..sequence'
  BY <1>1
<1>4. notices \subseteq [to : Members, seq : 1..sequence']
  BY <1>3 DEF HaTypeOK
<1>5. shown \in [Members -> [seq : 0..sequence', queue : Seq(Hands)]]
  BY <1>3 DEF HaTypeOK
<1> QED
  BY <1>1, <1>2, <1>4, <1>5

\* Every variable of the raised hands keeps its type, and nobody is in the queue twice.
LEMMA HandTypesStep == HaTypeOK /\ [HaNext]_handVars => HaTypeOK'
<1> SUFFICES ASSUME HaTypeOK, [HaNext]_handVars PROVE HaTypeOK'
  OBVIOUS
<1> DEFINE Counted == gestures' \in 0..MaxGestures
           Messages == [who : Members, type : {"raise", "lower"}, nonce : 1..MaxGestures]
<1>1. Once(queue) /\ attending \subseteq Members /\ asking \subseteq Messages
  BY DEF HaTypeOK, Once
<1>2. Gesture => Counted /\ gestures + 1 \in 1..MaxGestures
  BY HandAssumption DEF Gesture, HaTypeOK
<1>3. ASSUME NEW m \in Members, NEW type \in {"raise", "lower"}, SendsHand(m, type)
      PROVE  HaTypeOK'
  <2>1. /\ asking' = asking \cup {[who |-> m, type |-> type, nonce |-> gestures + 1]}
        /\ raised' = [raised EXCEPT ![m] = type = "raise"] /\ Gesture
        /\ UNCHANGED <<updates, notices, queue, sequence, shown, attending>>
    BY <1>3 DEF SendsHand
  <2>2. Counted /\ asking' \subseteq Messages
    BY <1>1, <1>2, <2>1
  <2>3. raised' \in [Members -> BOOLEAN]
    <3>1. (type = "raise") \in BOOLEAN /\ raised \in [Members -> BOOLEAN]
      BY DEF HaTypeOK
    <3> QED
      BY <2>1, <3>1, Zenon
  <2> QED
    BY <2>1, <2>2, <2>3 DEF HaTypeOK
<1>4. ASSUME NEW m \in Members, NEW q, Once(q), Answers(m, q) PROVE HaTypeOK'
  <2>1. /\ notices' = notices \cup {[to |-> k, seq |-> sequence + 1] : k \in {m} \cap attending}
        /\ BroadcastQueue(q, attending) /\ Counted
        /\ UNCHANGED <<asking, shown, raised, attending>>
    BY <1>2, <1>4 DEF Answers
  <2>2. /\ Once(queue') /\ sequence' \in Nat /\ sequence' = sequence + 1
        /\ \A u \in updates' : u.to \in Members /\ u.seq \in 1..sequence' /\ u.queue \in Seq(Hands)
        /\ notices \subseteq [to : Members, seq : 1..sequence']
        /\ shown \in [Members -> [seq : 0..sequence', queue : Seq(Hands)]]
    BY <1>1, <1>4, <2>1, BroadcastTypes
  <2>3. notices' \subseteq [to : Members, seq : 1..sequence']
    BY <2>1, <2>2 DEF HaTypeOK
  <2> QED
    BY <2>1, <2>2, <2>3 DEF HaTypeOK, Once
<1>5. ASSUME NEW m \in Members, Approves(m) PROVE HaTypeOK'
  BY <1>1, <1>4, <1>5, QueueApproves DEF Approves
<1>6. ASSUME NEW m \in Members, Dismisses(m) PROVE HaTypeOK'
  BY <1>1, <1>4, <1>6, QueueWithout DEF Dismisses
<1>7. ASSUME NEW m \in Members, MemberLeaves(m) PROVE HaTypeOK'
  <2>1. /\ attending' \subseteq Members /\ notices' \subseteq notices
        /\ UNCHANGED <<gestures, asking, shown, raised>>
    BY <1>1, <1>7 DEF MemberLeaves
  <2>2. CASE InQueue(m)
    <3>1. BroadcastQueue(Without(m), attending') /\ Once(Without(m))
      BY <1>1, <1>7, <2>2, QueueWithout DEF MemberLeaves
    <3>2. /\ Once(queue') /\ sequence' \in Nat
          /\ \A u \in updates' : u.to \in Members /\ u.seq \in 1..sequence' /\ u.queue \in Seq(Hands)
          /\ notices \subseteq [to : Members, seq : 1..sequence']
          /\ shown \in [Members -> [seq : 0..sequence', queue : Seq(Hands)]]
      BY <2>1, <3>1, BroadcastTypes
    <3> QED
      BY <2>1, <3>2 DEF HaTypeOK, Once
  <2>3. CASE ~InQueue(m)
    BY <1>7, <2>1, <2>3 DEF MemberLeaves, HaTypeOK
  <2> QED
    BY <2>2, <2>3
<1>8. ASSUME NEW message \in asking, HearsRaise(message) \/ HearsLower(message) PROVE HaTypeOK'
  <2>1. /\ asking' \subseteq Messages /\ message.who \in Members
        /\ UNCHANGED <<gestures, notices, shown, raised, attending>>
    BY <1>1, <1>8 DEF HearsRaise, HearsLower
  <2>2. \/ UNCHANGED <<queue, sequence, updates>>
        \/ \E q : Once(q) /\ BroadcastQueue(q, attending)
    BY <1>1, <1>8, <2>1, QueueAppends, QueueWithout DEF HearsRaise, HearsLower
  <2>3. CASE UNCHANGED <<queue, sequence, updates>>
    BY <2>1, <2>3 DEF HaTypeOK
  <2>4. ASSUME NEW q, Once(q), BroadcastQueue(q, attending) PROVE HaTypeOK'
    <3>1. /\ Once(queue') /\ sequence' \in Nat
          /\ \A u \in updates' : u.to \in Members /\ u.seq \in 1..sequence' /\ u.queue \in Seq(Hands)
          /\ notices \subseteq [to : Members, seq : 1..sequence']
          /\ shown \in [Members -> [seq : 0..sequence', queue : Seq(Hands)]]
      BY <1>1, <2>4, BroadcastTypes
    <3> QED
      BY <2>1, <3>1 DEF HaTypeOK, Once
  <2> QED
    BY <2>2, <2>3, <2>4
<1>9. ASSUME NEW u \in updates, HearsQueue(u) PROVE HaTypeOK'
  <2>1. /\ updates' \subseteq updates
        /\ UNCHANGED <<gestures, asking, notices, queue, sequence, attending>>
    BY <1>9 DEF HearsQueue
  <2>2. u.to \in Members /\ u.seq \in 0..sequence /\ u.queue \in Seq(Hands)
    BY DEF HaTypeOK
  <2>3. shown' \in [Members -> [seq : 0..sequence, queue : Seq(Hands)]]
    <3>1. [seq |-> u.seq, queue |-> u.queue] \in [seq : 0..sequence, queue : Seq(Hands)]
      BY <2>2
    <3>2. \/ shown' = shown
          \/ shown' = [shown EXCEPT ![u.to] = [seq |-> u.seq, queue |-> u.queue]]
      BY <1>9 DEF HearsQueue
    <3> QED
      BY <3>1, <3>2, Zenon DEF HaTypeOK
  <2>4. raised' \in [Members -> BOOLEAN]
    <3> DEFINE up == [who |-> u.to, status |-> "pending"] \in ToSet(u.queue)
    <3>1. up \in BOOLEAN /\ raised \in [Members -> BOOLEAN]
      BY DEF HaTypeOK
    <3>2. raised' = raised \/ raised' = [raised EXCEPT ![u.to] = up]
      BY <1>9 DEF HearsQueue
    <3> HIDE DEF up
    <3> QED
      BY <3>1, <3>2, Zenon
  <2> QED
    BY <2>1, <2>3, <2>4 DEF HaTypeOK
<1>10. ASSUME NEW n \in notices, HearsAnswer(n) PROVE HaTypeOK'
  BY <1>10 DEF HearsAnswer, HaTypeOK
<1>11. CASE UNCHANGED handVars
  BY <1>11 DEF handVars, HaTypeOK
<1> QED
  BY <1>3, <1>5, <1>6, <1>7, <1>8, <1>9, <1>10, <1>11 DEF HaNext

LEMMA HandTypes == HaSpec => []HaTypeOK
<1>1. HaInit => HaTypeOK
  <2> SUFFICES ASSUME HaInit PROVE HaTypeOK
    OBVIOUS
  <2>1. <<>> \in Seq(Hands) /\ DOMAIN <<>> = {} /\ 0 \in 0..MaxGestures
    BY HandAssumption
  <2>2. shown \in [Members -> [seq : 0..0, queue : Seq(Hands)]]
    BY <2>1 DEF HaInit
  <2>3. raised \in [Members -> BOOLEAN]
    BY DEF HaInit
  <2> QED
    BY <2>1, <2>2, <2>3 DEF HaInit, HaTypeOK
<1> QED
  BY <1>1, HandTypesStep, PTL DEF HaSpec

-----------------------------------------------------------------------------
(* The parts of MCServices.  Only one of them moves in a behaviour, and it *)
(* moves as it does alone: what is proved of each holds of what TLC checks.*)

\* Every service of MCServices follows its own specification.
THEOREM ServicesFollow ==
    Spec => /\ WbSpec /\ RoSpec /\ OcSpec /\ SpSpec
            /\ UqSpec /\ RlSpec /\ BiSpec /\ HaSpec
<1>1. Init => /\ WbInit /\ RoInit /\ OcInit /\ SpInit
              /\ UqInit /\ RlInit /\ BiInit /\ HaInit
  BY DEF Init
<1>2. [Next]_<<part, whiteboard, others>> =>
          /\ [WbNext]_wbVars /\ [RoNext]_roVars /\ [OcNext]_ocVars /\ [SpNext]_spVars
          /\ [UqNext]_uqVars /\ [RlNext]_rlVars /\ [BiNext]_biVars /\ [HaNext]_handVars
  BY DEF Next, whiteboard, others
<1> QED
  BY <1>1, <1>2, PTL DEF Spec, WbSpec, RoSpec, OcSpec, SpSpec, UqSpec, RlSpec, BiSpec, HaSpec

\* What every part keeps has the type it declares, for any number of users, requests and
\* messages; of the raised hands, that nobody is in the queue twice.
THEOREM ServiceTypes == Spec => []TypesOK
<1>1. /\ WhiteboardInv => WbTypeOK
      /\ RotationInv => RoTypeOK
      /\ CodesInv => OcTypeOK
      /\ InvitesInv => SpTypeOK
      /\ QuotaInv => UqTypeOK
      /\ RoomsInv => RlTypeOK
      /\ BillingInv => BiTypeOK
  BY DEF WhiteboardInv, RotationInv, CodesInv, InvitesInv, QuotaInv, RoomsInv, BillingInv
<1>2. WbTypeOK /\ RoTypeOK /\ OcTypeOK /\ SpTypeOK /\ UqTypeOK /\ RlTypeOK /\ BiTypeOK
          /\ HaTypeOK => TypesOK
  BY DEF TypesOK
<1> QED
  BY <1>1, <1>2, ServicesFollow, WhiteboardInvariant, RotationInvariant, CodesInvariant,
     InvitesInvariant, QuotaInvariant, RoomsInvariant, BillingInvariant, HandTypes, PTL

\* Side by side, as MCServices runs them, the services keep every promise that has been
\* proved of each of them alone.
THEOREM ServicesKeep ==
    Spec => /\ [](WritersMatchGrants /\ ControllerIsHere)
            /\ [](NoSpuriousLogout /\ LogoutEnds)
            /\ [](CodeUsedOnce /\ GuessesBounded)
            /\ [](InviteLimitKept /\ QuotaKept)
            /\ LiveRoomStays /\ []CapacityKept
            /\ [](NewestEventStands /\ QueueAgrees)
BY ServicesFollow, WritersMatch, ControllerHere, NobodyTurnedAway, LogoutHolds, CodeOnce,
   FewGuesses, InviteLimit, Quota, LiveRooms, Capacity, BillingNewest, QueuesAgree, PTL

=============================================================================
