--------------------------- MODULE WhiteboardRoom ---------------------------
(***************************************************************************)
(* Who may draw on the whiteboard of a meeting, and who runs it: the       *)
(* sessions, canvas edit grants, acting manager and navigation control of  *)
(* one Room of the sync server.  Its end is in WhiteboardSnapshots.         *)
(*                                                                         *)
(* Node runs one handler at a time, so a handler is one action; what       *)
(* interleaves is handlers, timers and the sockets themselves.  A tldraw   *)
(* session is read-only or not from its connection to its end, which is    *)
(* why a change of access closes the sessions of the user 200 ms later.    *)
(***************************************************************************)
EXTENDS Naturals, FiniteSets

CONSTANTS
    WbHosts,    \* users whose token says "host"
    WbMembers,  \* users whose token says "participant"
    WbGuests,   \* users whose token says "guest"
    WbNobody,   \* null
    WbConnects, \* how often each user may connect
    WbLimit     \* MAX_CONNECTIONS_PER_USER

Users == WbHosts \cup WbMembers \cup WbGuests

ASSUME WhiteboardAssumption ==
    /\ WbHosts \cap (WbMembers \cup WbGuests) = {} /\ WbMembers \cap WbGuests = {}
    /\ WbNobody \notin WbHosts \cup WbMembers \cup WbGuests
    /\ WbConnects \in [WbHosts \cup WbMembers \cup WbGuests -> Nat]
    /\ WbLimit \in Nat \ {0}

\* The n-th connection of a user: tldrawSessionId is fresh each time.
Connections == UNION {{u} \X (1..WbConnects[u]) : u \in Users}
Of(u) == {s \in Connections : s[1] = u}

VARIABLES
    socket,       \* what the server knows of each connection
    writable,     \* live sessions that were connected with isReadonly = false
    reconnecting, \* live sessions a running scheduleCanvasAccessReconnect will close
    editors,      \* canvasEditorUserIds                       (persisted)
    acting,       \* actingManagerId                           (persisted)
    requests,     \* pendingEditorRequests
    controller,   \* navigationControllerUserId
    departure     \* hostDepartureTimer is running

grants == <<editors, acting, requests, controller, departure>>
wbVars == <<socket, writable, reconnecting, grants>>

\* "stale": the socket is gone, its close event is not handled.  "closing": closeSession
\* removed the session, the close event is not handled.
Live == {s \in Connections : socket[s] \in {"open", "stale"}}
Connected(u) == \E s \in Live : s[1] = u
Here(sessions) == {s[1] : s \in sessions}

WbTypeOK ==
    /\ socket \in [Connections -> {"none", "open", "stale", "closing", "closed"}]
    /\ writable \subseteq Connections /\ reconnecting \subseteq Connections
    /\ editors \subseteq Users /\ requests \subseteq Users
    /\ acting \in Users \cup {WbNobody} /\ controller \in Users \cup {WbNobody}
    /\ departure \in BOOLEAN

WbInit ==
    /\ socket = [s \in Connections |-> "none"]
    /\ writable = {} /\ reconnecting = {}
    /\ editors = {} /\ requests = {}
    /\ acting = WbNobody /\ controller = WbNobody
    /\ departure = FALSE

CanEdit(u) == u \in WbHosts \cup editors
CanManage(u) == Connected(u) /\ (u \in WbHosts \/ u = acting)
ManagerHere == \E u \in Users : CanManage(u)
OtherManager(u) == \E v \in Users \ {u} : CanManage(v)

\* scheduleCanvasAccessReconnect: the sessions that exist when it is called.
Scheduled(us) == {s \in Live : s[1] \in us}

-----------------------------------------------------------------------------
(* Connections.                                                            *)

\* handleConnect: sockets known to be gone are evicted, then the limit is checked.
Connect(s) ==
    LET u == s[1]
        evicted == {t \in Of(u) : socket[t] = "stale"}
        left == {t \in Of(u) : socket[t] = "open"}
    IN  /\ socket[s] = "none"
        /\ s[2] > 1 => socket[<<u, s[2] - 1>>] # "none"
        /\ LET admitted == Cardinality(left) < WbLimit
           IN  /\ socket' = [t \in Connections |->
                                IF t \in evicted THEN "closed"
                                ELSE IF t # s THEN socket[t]
                                ELSE IF admitted THEN "open" ELSE "closed"]
               /\ writable' = (writable \ evicted)
                              \cup (IF admitted /\ CanEdit(u) THEN {s} ELSE {})
               /\ IF admitted /\ u \in WbHosts
                  THEN acting' = WbNobody /\ departure' = FALSE
                  ELSE UNCHANGED <<acting, departure>>
        /\ reconnecting' = reconnecting \ evicted
        /\ UNCHANGED <<editors, requests, controller>>

\* A browser closes its socket, or the network does (the server learns of it later).
Drops(s) ==
    /\ socket[s] = "open"
    /\ socket' = [socket EXCEPT ![s] = "stale"]
    /\ UNCHANGED <<writable, reconnecting, grants>>

\* promoteNextActingManager, over the sessions left and the acting manager it finds: an
\* editor if there is one, else somebody who is not a guest.
Successors(sessions) ==
    IF Here(sessions) \cap editors # {} THEN Here(sessions) \cap editors
                                        ELSE Here(sessions) \ WbGuests

\* A variant of PromoteNext: the sessions of the new manager stay as they are.
PromoteNextQuietly(sessions) ==
    /\ reconnecting' = reconnecting \cap sessions
    /\ IF Here(sessions) \cap WbHosts # {} \/ Successors(sessions) = {}
       THEN acting' = WbNobody /\ UNCHANGED editors
       ELSE \E u \in Successors(sessions) : acting' = u /\ editors' = editors \cup {u}

PromoteNext(sessions) ==
    IF Here(sessions) \cap WbHosts # {} \/ Successors(sessions) = {}
    THEN acting' = WbNobody /\ reconnecting' = reconnecting \cap sessions /\ UNCHANGED editors
    ELSE \E u \in Successors(sessions) :
            /\ acting' = u
            /\ editors' = editors \cup {u}
            /\ reconnecting' = {s \in sessions : \/ s \in reconnecting
                                                 \/ s[1] = u /\ u \notin editors}

\* handleClose and handleError, with handleDisconnect.
Closed(s) ==
    LET u == s[1]
        left == Live \ {s}
        gone == u \notin Here(left)
    IN  /\ socket[s] \in {"stale", "closing"}
        /\ socket' = [socket EXCEPT ![s] = "closed"]
        /\ departure' = (departure \/ (gone /\ u \in WbHosts /\ Here(left) \cap WbHosts = {}))
        /\ IF gone /\ u = acting
           THEN PromoteNext(left)
           ELSE reconnecting' = reconnecting \ {s} /\ UNCHANGED <<acting, editors>>
        /\ controller' = IF gone /\ u = controller THEN WbNobody ELSE controller
        /\ writable' = writable \ {s}
        /\ UNCHANGED <<requests>>

\* The timer of handleHostDeparture.
GraceElapses ==
    /\ departure
    /\ departure' = FALSE
    /\ IF Here(Live) \cap WbHosts = {} /\ acting = WbNobody
       THEN PromoteNext(Live)
       ELSE UNCHANGED <<acting, editors, reconnecting>>
    /\ UNCHANGED <<socket, writable, requests, controller>>

\* The timer of scheduleCanvasAccessReconnect, with the sessions it was set for.
Reconnects(mine) ==
    /\ mine \in SUBSET reconnecting \ {{}}
    /\ \A s, t \in mine : s[1] = t[1]
    /\ socket' = [s \in Connections |-> IF s \in mine \cap Live THEN "closing" ELSE socket[s]]
    /\ writable' = writable \ mine
    /\ reconnecting' = reconnecting \ mine
    /\ UNCHANGED <<grants>>

-----------------------------------------------------------------------------
(* Calls of the web application.                                           *)

\* requestCanvasEditAccess, by the answer it gives.
RequestPends(u) ==
    /\ Connected(u) /\ u \notin requests
    /\ IF ManagerHere THEN u \notin editors ELSE u \in WbGuests
    /\ requests' = requests \cup {u}
    /\ UNCHANGED <<socket, writable, reconnecting, editors, acting, controller, departure>>

RequestAlready(u) ==
    /\ Connected(u) /\ u \in editors
    /\ u \in WbGuests => ManagerHere
    /\ reconnecting' = reconnecting \cup Scheduled({u})
    /\ UNCHANGED <<socket, writable, grants>>

RequestApproved(u) ==
    /\ Connected(u) /\ u \notin editors \cup requests \cup WbGuests
    /\ ~ManagerHere
    /\ editors' = editors \cup {u}
    /\ reconnecting' = reconnecting \cup Scheduled({u})
    \* The only editors PromoteNext can find are those connected and u.
    /\ IF acting = WbNobody
       THEN acting' \in Here(Live) \cap editors'
       ELSE UNCHANGED acting
    /\ UNCHANGED <<socket, writable, requests, controller, departure>>

\* grantCanvasEditAccess, by whoever manages the board; and denyCanvasEditAccessRequest.
Grant(u) ==
    /\ ManagerHere
    /\ requests' = requests \ {u}
    /\ editors' = editors \cup {u}
    /\ reconnecting' = reconnecting \cup Scheduled({u})
    /\ UNCHANGED <<socket, writable, acting, controller, departure>>

Deny(u) ==
    /\ ManagerHere /\ u \in requests
    /\ requests' = requests \ {u}
    /\ UNCHANGED <<socket, writable, reconnecting, editors, acting, controller, departure>>

\* promoteActingManager: the notice of an election in the web application.
Promote(u) ==
    /\ Connected(u)
    /\ acting' = u
    /\ editors' = editors \cup {u}
    /\ reconnecting' = reconnecting \cup Scheduled({u})
    /\ UNCHANGED <<socket, writable, requests, controller, departure>>

\* revokeCanvasEditAccess, by the user (own) or by a manager.
Revoke(u, own) ==
    /\ own \/ OtherManager(u)
    /\ editors' = editors \ {u}
    /\ requests' = requests \ {u}
    /\ acting' = IF own /\ acting = u THEN WbNobody ELSE acting
    /\ reconnecting' = reconnecting \cup Scheduled({u})
    /\ UNCHANGED <<socket, writable, controller, departure>>

\* A variant of SetController that does not look for a session of the user.
SetControllerUnseen(u) ==
    /\ OtherManager(u)
    /\ controller' = u
    /\ UNCHANGED <<socket, writable, reconnecting, editors, acting, requests, departure>>

SetController(u) ==
    /\ OtherManager(u) /\ Connected(u)
    /\ controller' = u
    /\ UNCHANGED <<socket, writable, reconnecting, editors, acting, requests, departure>>

ReleaseController(u) ==
    /\ CanManage(u) \/ (Connected(u) /\ u = controller)
    /\ controller' = WbNobody
    /\ UNCHANGED <<socket, writable, reconnecting, editors, acting, requests, departure>>

-----------------------------------------------------------------------------
(* The server.                                                             *)

\* The room is closed while nobody is there, or the process restarts; the constructor of the
\* next Room finds what was persisted.
Reopens ==
    /\ socket' = [s \in Connections |-> IF socket[s] = "none" THEN "none" ELSE "closed"]
    /\ writable' = {} /\ reconnecting' = {}
    /\ requests' = {} /\ controller' = WbNobody /\ departure' = FALSE
    /\ UNCHANGED <<editors, acting>>

Timers == GraceElapses \/ \E mine \in SUBSET Connections : Reconnects(mine)

\* A host is not shown the button that asks for access.
Asks == \E u \in Users \ WbHosts : RequestPends(u) \/ RequestAlready(u) \/ RequestApproved(u)

WbNext ==
    \/ \E s \in Connections : Connect(s) \/ Drops(s) \/ Closed(s)
    \/ Timers
    \/ Asks
    \/ \E u \in Users : \/ Grant(u) \/ Deny(u) \/ Promote(u)
                        \/ SetController(u) \/ ReleaseController(u)
                        \/ \E own \in BOOLEAN : Revoke(u, own)
    \/ Reopens

WbSpec == WbInit /\ [][WbNext]_wbVars

-----------------------------------------------------------------------------
(* Properties.                                                             *)

\* A live session accepts drawing exactly when its user may edit
\* the canvas, or the timer that closes it for its user to reconnect is running: every
\* change of canvasEditorUserIds finds all the sessions it concerns.
WritersMatchGrants ==
    \A s \in Live \ reconnecting : s \in writable <=> CanEdit(s[1])

\* Whoever drives the pages of everybody has a session, or one whose close event is still
\* to be handled; otherwise syncPage would refuse everybody else for good.
ControllerIsHere ==
    controller # WbNobody =>
        \E s \in Of(controller) : socket[s] \in {"open", "stale", "closing"}

====
