-------------------------- MODULE SessionRotation --------------------------
(***************************************************************************)
(* The login session of one browser: its row, the cookie, and requests     *)
(* that present the cookie concurrently.  When the session is close to its *)
(* sliding expiry a request replaces the token; the row remembers the      *)
(* token before it for the browsers that missed the new cookie.            *)
(*                                                                         *)
(* Time is abstract: near says that the sliding expiry is within           *)
(* SESSION_REFRESH_THRESHOLD_MS.  A refresh moves it SESSION_EXPIRY_MS     *)
(* ahead, days that outlast every request, but never past the absolute     *)
(* expiry: in the last window before that (last) a refreshed session is    *)
(* due again at once.                                                      *)
(***************************************************************************)
EXTENDS Naturals

CONSTANTS
    Requests,     \* request slots, used again and again
    NoToken,      \* no cookie, no previous token
    MaxRotations  \* bound of the model: how many tokens are issued after the first

ASSUME RotationAssumption == NoToken \notin Nat /\ MaxRotations \in Nat

VARIABLES
    session, \* the sessions row: token and previous token (hashes), rotationVersion
    alive,   \* it exists and has not expired
    near,    \* it is to be refreshed
    last,    \* its absolute expiry is within the threshold too
    cookie,  \* the session cookie of the browser
    issued,  \* the number of the newest token
    req      \* what each request knows and does

roVars == <<session, alive, near, last, cookie, issued, req>>

Tokens == Nat \cup {NoToken}
Idle == [pc |-> "idle", token |-> NoToken, version |-> 0]
Pcs == {"idle", "sent", "rotating", "extending", "answered", "rejected", "logout",
        "loggedout"}

RoTypeOK ==
    /\ session \in [token : Nat, previous : Tokens, version : Nat]
    /\ alive \in BOOLEAN /\ near \in BOOLEAN /\ last \in BOOLEAN
    /\ cookie \in Tokens /\ issued \in Nat
    /\ req \in [Requests -> [pc : Pcs, token : Tokens, version : Nat]]

RoInit ==
    /\ session = [token |-> 0, previous |-> NoToken, version |-> 0]
    /\ alive = TRUE /\ near = FALSE /\ last = FALSE
    /\ cookie = 0 /\ issued = 0
    /\ req = [r \in Requests |-> Idle]

Becomes(r, pc) == req' = [req EXCEPT ![r].pc = pc]
Matches(token) == alive /\ token \in {session.token, session.previous}

-----------------------------------------------------------------------------

Send(r, kind) ==
    /\ req[r].pc = "idle" /\ cookie # NoToken
    /\ req' = [req EXCEPT ![r] = [Idle EXCEPT !.pc = kind, !.token = cookie]]
    /\ UNCHANGED <<session, alive, near, last, cookie, issued>>

\* resolveSession up to the choice of maybeRefreshSession.
Resolve(r) ==
    /\ req[r].pc = "sent"
    /\ req' = [req EXCEPT ![r] =
            IF ~Matches(req[r].token) THEN [@ EXCEPT !.pc = "rejected"]
            ELSE IF req[r].token # session.token THEN [@ EXCEPT !.pc = "extending"]
            ELSE IF near THEN [@ EXCEPT !.pc = "rotating", !.version = session.version]
            ELSE Idle]
    /\ UNCHANGED <<session, alive, near, last, cookie, issued>>

\* verifySessionFromRawRequest, in the handlers that never refresh.
VerifyRaw(r) ==
    /\ req[r].pc = "sent"
    /\ IF Matches(req[r].token) THEN req' = [req EXCEPT ![r] = Idle] ELSE Becomes(r, "rejected")
    /\ UNCHANGED <<session, alive, near, last, cookie, issued>>

\* A variant of Rotate without the condition on the version.
RotateUnconditional(r, answered) ==
    /\ req[r].pc = "rotating" /\ issued < MaxRotations
    /\ alive
    /\ issued' = issued + 1
    /\ session' = [token |-> issued', previous |-> req[r].token, version |-> session.version + 1]
    /\ near' = last
    /\ req' = [req EXCEPT ![r] = IF answered THEN [@ EXCEPT !.pc = "answered", !.token = issued']
                                             ELSE Idle]
    /\ UNCHANGED <<alive, last, cookie>>

\* The conditional update of the rotation, when this request is the first.  The answer of
\* the database may be lost: the attempts that follow fail their condition, and no cookie is
\* set.  The new expiry is capped at the absolute one.
Rotate(r, answered) ==
    /\ req[r].pc = "rotating" /\ issued < MaxRotations
    /\ alive /\ session.version = req[r].version
    /\ issued' = issued + 1
    /\ session' = [token |-> issued', previous |-> req[r].token, version |-> session.version + 1]
    /\ near' = last
    /\ req' = [req EXCEPT ![r] = IF answered THEN [@ EXCEPT !.pc = "answered", !.token = issued']
                                             ELSE Idle]
    /\ UNCHANGED <<alive, last, cookie>>

\* It fails its condition, or the database is away: the request goes on without a cookie.
NotRotated(r) ==
    /\ req[r].pc = "rotating"
    /\ req' = [req EXCEPT ![r] = Idle]
    /\ UNCHANGED <<session, alive, near, last, cookie, issued>>

\* The update of the expiry for a request with the previous token; it may fail.
Extend(r, done) ==
    /\ req[r].pc = "extending"
    /\ near' = ((near /\ ~done) \/ last)
    /\ req' = [req EXCEPT ![r] = Idle]
    /\ UNCHANGED <<session, alive, last, cookie, issued>>

\* The browser gets the answer with the new cookie, or never does.
Delivered(r, arrives) ==
    /\ req[r].pc = "answered"
    /\ cookie' = IF arrives THEN req[r].token ELSE cookie
    /\ req' = [req EXCEPT ![r] = Idle]
    /\ UNCHANGED <<session, alive, near, last, issued>>

\* Variants of Logout: by the current token alone; the row is emptied instead of deleted.
LogoutByCurrent(r) ==
    /\ req[r].pc = "logout"
    /\ alive' = (alive /\ req[r].token # session.token)
    /\ Becomes(r, "loggedout")
    /\ UNCHANGED <<session, near, last, cookie, issued>>

LogoutEmpties(r) ==
    /\ req[r].pc = "logout"
    /\ session' = [session EXCEPT !.token = NoToken]
    /\ Becomes(r, "loggedout")
    /\ UNCHANGED <<alive, near, last, cookie, issued>>

\* The delete of logout, by either token; then its answer clears the cookie.
Logout(r) ==
    /\ req[r].pc = "logout"
    /\ alive' = (alive /\ ~Matches(req[r].token))
    /\ Becomes(r, "loggedout")
    /\ UNCHANGED <<session, near, last, cookie, issued>>

LoggedOut(r) ==
    /\ req[r].pc = "loggedout"
    /\ cookie' = NoToken
    /\ req' = [req EXCEPT ![r] = Idle]
    /\ UNCHANGED <<session, alive, near, last, issued>>

\* Sent since the last rotation, that is, with the cookie of today.
Recent(r) ==
    \/ req[r].pc \in {"idle", "rejected"}
    \/ req[r].pc \in {"sent", "extending", "logout"} /\ req[r].token = cookie

\* More than three weeks after a refresh the session is due again.
NearExpiry ==
    /\ \A r \in Requests : Recent(r)
    /\ near' = TRUE
    /\ UNCHANGED <<session, alive, last, cookie, issued, req>>

\* The absolute expiry comes within the threshold, whatever is under way.
LastWindow ==
    /\ ~last
    /\ last' = TRUE /\ near' = TRUE
    /\ UNCHANGED <<session, alive, cookie, issued, req>>

\* The absolute expiry, the session cap, or the end of the account.
SessionExpires ==
    /\ alive
    /\ alive' = FALSE
    /\ UNCHANGED <<session, near, last, cookie, issued, req>>

RoNext ==
    \/ \E r \in Requests :
        \/ \E kind \in {"sent", "logout"} : Send(r, kind)
        \/ Resolve(r) \/ VerifyRaw(r) \/ NotRotated(r) \/ Logout(r) \/ LoggedOut(r)
        \/ \E ok \in BOOLEAN : Rotate(r, ok) \/ Extend(r, ok) \/ Delivered(r, ok)
    \/ NearExpiry \/ LastWindow \/ SessionExpires

RoSpec == RoInit /\ [][RoNext]_roVars

-----------------------------------------------------------------------------

\* In the last window the token may be replaced twice while a request is under way.
Overtaken(r) == last /\ req[r].token + 1 < session.token

\* While the session lives the cookie of its browser is good, and no request is turned away
\* that was not overtaken by two rotations in the last window: whichever of the concurrent
\* requests rotates, and whether or not its cookie arrives, the tokens in use are in its row.
NoSpuriousLogout ==
    alive => /\ cookie = NoToken \/ Matches(cookie)
             /\ \A r \in Requests : req[r].pc = "rejected" => Overtaken(r)

\* A logout that was handled has ended the session, although a rotation may have replaced
\* the token it carries; only two rotations in the last window can take the session from it.
LogoutEnds == \A r \in Requests : req[r].pc = "loggedout" => ~alive \/ Overtaken(r)

=============================================================================
