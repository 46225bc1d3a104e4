--------------------------- MODULE RoomLifecycle ---------------------------
(***************************************************************************)
(* The rooms of one host: created with a first session, reopened by the    *)
(* host while they are permanent, and deleted by the daily clean-up when   *)
(* they have expired (permanent) or their history has (instant).           *)
(***************************************************************************)
EXTENDS Naturals, FiniteSets

CONSTANTS
    RoomIds,
    Creates,     \* requests to create a meeting
    Reopeners,    \* requests of the host to join a room without a session
    NoRoom,
    HostLimit,   \* maxConcurrentMeetings
    MaxSessions  \* bound of the model: how often the host starts a session

ASSUME RoomsAssumption == NoRoom \notin RoomIds /\ HostLimit \in Nat /\ MaxSessions \in Nat

VARIABLES
    edge,     \* whether a room may expire while a request that has read it is under way
    room,     \* the rows of rooms: none, instant, permanent
    fresh,    \* permanent rooms with expiresAt in the future
    active,   \* rooms with an active session
    history,  \* rooms with an ended session that is retained, or past retainUntil
    create,   \* what each request to create knows
    reopen,   \* which room each request to join has read
    links,    \* cleanupStaleLinks: its step and its rooms
    retain,   \* cleanupExpiredMeetings: its step and its rooms
    reopened, \* history: rooms with a session that was not started by createMeeting
    started   \* how many sessions were started

cron == <<links, retain>>
rlVars == <<edge, room, fresh, active, history, create, reopen, cron, reopened, started>>

RlTypeOK ==
    /\ edge \in BOOLEAN
    /\ room \in [RoomIds -> {"none", "instant", "permanent"}]
    /\ fresh \subseteq RoomIds /\ active \subseteq RoomIds /\ reopened \subseteq RoomIds
    /\ history \in [RoomIds -> {"none", "kept", "expired"}]
    /\ create \in [Creates -> [pc : {"new", "inserting", "created", "refused"},
                               room : RoomIds \cup {NoRoom}, kind : {"instant", "permanent"}]]
    /\ reopen \in [Reopeners -> RoomIds \cup {NoRoom}]
    /\ links \in [pc : {"idle", "checking", "deleting"}, rooms : SUBSET RoomIds]
    /\ retain \in [pc : {"idle", "deleting", "checking", "rooms"}, rooms : SUBSET RoomIds]
    /\ started \in Nat

RlInit ==
    /\ edge \in BOOLEAN
    /\ room = [r \in RoomIds |-> "none"]
    /\ fresh = {} /\ active = {} /\ reopened = {} /\ started = 0
    /\ history = [r \in RoomIds |-> "none"]
    /\ create = [c \in Creates |-> [pc |-> "new", room |-> NoRoom, kind |-> "instant"]]
    /\ reopen = [j \in Reopeners |-> NoRoom]
    /\ links = [pc |-> "idle", rooms |-> {}]
    /\ retain = [pc |-> "idle", rooms |-> {}]

\* The ids of a request are new.
Unused(r) ==
    /\ room[r] = "none" /\ r \notin links.rooms \cup retain.rooms
    /\ \A c \in Creates : create[c].room # r

-----------------------------------------------------------------------------
(* Sessions.                                                               *)

Starts(c, r, kind) ==
    /\ create[c].pc = "new" /\ Unused(r)
    /\ create' = [create EXCEPT ![c] = [pc |-> "inserting", room |-> r, kind |-> kind]]
    /\ UNCHANGED <<edge, room, fresh, active, history, reopen, cron, reopened, started>>

\* The condition of the batch, and a variant of it that is off by one.
AtMostLimit == Cardinality(active) <= HostLimit
BelowLimit == Cardinality(active) < HostLimit

\* insertRoomAndInitialSession: the batch with its condition.  When its answer is lost it is
\* tried again and fails on the ids it has inserted, and createMeeting takes other ids.
Inserts(c, answered) ==
    LET r == create[c].room
        inserted == room[r] = "none" /\ BelowLimit
    IN  /\ create[c].pc = "inserting" /\ started < MaxSessions
        /\ IF inserted
           THEN /\ room' = [room EXCEPT ![r] = create[c].kind]
                /\ fresh' = fresh \cup (IF create[c].kind = "permanent" THEN {r} ELSE {})
                /\ active' = active \cup {r}
                /\ started' = started + 1
           ELSE UNCHANGED <<room, fresh, active, started>>
        /\ answered \/ inserted
        /\ \/ /\ ~answered \/ room[r] # "none"
              /\ \E s \in RoomIds : Unused(s) /\ create' = [create EXCEPT ![c].room = s]
           \/ create' = [create EXCEPT ![c].pc = IF answered /\ inserted THEN "created"
                                                                         ELSE "refused"]
        /\ UNCHANGED <<edge, history, reopen, cron, reopened>>

\* joinMeeting by the host of a permanent room that has no session.
ReopenReads(j, r) ==
    /\ reopen[j] = NoRoom
    /\ room[r] = "permanent" /\ r \in fresh \ active
    /\ reopen' = [reopen EXCEPT ![j] = r]
    /\ UNCHANGED <<edge, room, fresh, active, history, create, cron, reopened, started>>

\* The batch fails if the room is gone, or has got a session meanwhile: then that one is
\* joined.  It does not count the sessions of the host.
ReopenInserts(j) ==
    LET r == reopen[j]
    IN  /\ r # NoRoom /\ started < MaxSessions
        /\ reopen' = [reopen EXCEPT ![j] = NoRoom]
        /\ IF room[r] # "none" /\ r \notin active
           THEN /\ active' = active \cup {r} /\ fresh' = fresh \cup {r}
                /\ reopened' = reopened \cup {r} /\ started' = started + 1
           ELSE UNCHANGED <<active, fresh, reopened, started>>
        /\ UNCHANGED <<edge, room, history, create, cron>>

\* A join or a token refresh renews the room of an active session; it is a year from then.
\* The end of the session starts its retention.
Ends(r) ==
    /\ r \in active
    /\ active' = active \ {r} /\ reopened' = reopened \ {r}
    /\ history' = [history EXCEPT ![r] = "kept"]
    /\ UNCHANGED <<edge, room, fresh, create, reopen, cron, started>>

RoomExpires(r) ==
    /\ r \in fresh \ active
    /\ edge \/ \A j \in Reopeners : reopen[j] # r
    /\ fresh' = fresh \ {r}
    /\ UNCHANGED <<edge, room, active, history, create, reopen, cron, reopened, started>>

\* Retention takes days: no request lasts that long.
RetentionEnds(r) ==
    /\ history[r] = "kept"
    /\ \A c \in Creates : create[c].room = r => create[c].pc # "inserting"
    /\ history' = [history EXCEPT ![r] = "expired"]
    /\ UNCHANGED <<edge, room, fresh, active, create, reopen, cron, reopened, started>>

-----------------------------------------------------------------------------
(* The daily clean-up.                                                     *)

\* Rows of sessions go with their room (ON DELETE CASCADE).
DeleteRooms(rs) ==
    /\ room' = [r \in RoomIds |-> IF r \in rs THEN "none" ELSE room[r]]
    /\ fresh' = fresh \ rs /\ active' = active \ rs /\ reopened' = reopened \ rs
    /\ history' = [r \in RoomIds |-> IF r \in rs THEN "none" ELSE history[r]]

LinksRead ==
    /\ links.pc = "idle"
    /\ LET stale == {r \in RoomIds : room[r] = "permanent" /\ r \notin fresh}
       IN  stale # {} /\ links' = [pc |-> "checking", rooms |-> stale]
    /\ UNCHANGED <<edge, room, fresh, active, history, create, reopen, retain, reopened, started>>

LinksCheck ==
    /\ links.pc = "checking"
    /\ links' = [pc |-> "deleting", rooms |-> links.rooms \ active]
    /\ UNCHANGED <<edge, room, fresh, active, history, create, reopen, retain, reopened, started>>

LinksDelete ==
    /\ links.pc = "deleting"
    /\ links' = [pc |-> "idle", rooms |-> {}]
    /\ DeleteRooms(links.rooms)
    /\ UNCHANGED <<edge, create, reopen, retain, started>>

RetainRead ==
    /\ retain.pc = "idle"
    /\ LET past == {r \in RoomIds : history[r] = "expired"}
       IN  past # {} /\ retain' = [pc |-> "deleting", rooms |-> past]
    /\ UNCHANGED <<edge, room, fresh, active, history, create, reopen, links, reopened, started>>

RetainDelete ==
    /\ retain.pc = "deleting"
    /\ retain' = [retain EXCEPT !.pc = "checking"]
    /\ history' = [r \in RoomIds |-> IF r \in retain.rooms /\ history[r] = "expired" THEN "none"
                                     ELSE history[r]]
    /\ UNCHANGED <<edge, room, fresh, active, create, reopen, links, reopened, started>>

\* Rooms with remaining sessions are kept.
RetainCheck ==
    /\ retain.pc = "checking"
    /\ retain' = [pc |-> "rooms",
                  rooms |-> {r \in retain.rooms \ active : history[r] = "none"}]
    /\ UNCHANGED <<edge, room, fresh, active, history, create, reopen, links, reopened, started>>

\* A variant of RetainRooms that deletes permanent rooms as well.
RetainRoomsOfAnyType ==
    /\ retain.pc = "rooms"
    /\ retain' = [pc |-> "idle", rooms |-> {}]
    /\ DeleteRooms(retain.rooms)
    /\ UNCHANGED <<edge, create, reopen, links, started>>

RetainRooms ==
    /\ retain.pc = "rooms"
    /\ retain' = [pc |-> "idle", rooms |-> {}]
    /\ DeleteRooms({r \in retain.rooms : room[r] = "instant"})
    /\ UNCHANGED <<edge, create, reopen, links, started>>

RlNext ==
    \/ \E c \in Creates : \/ \E r \in RoomIds, k \in {"instant", "permanent"} : Starts(c, r, k)
                          \/ \E answered \in BOOLEAN : Inserts(c, answered)
    \/ \E j \in Reopeners : ReopenInserts(j) \/ \E r \in RoomIds : ReopenReads(j, r)
    \/ \E r \in RoomIds : Ends(r) \/ RoomExpires(r) \/ RetentionEnds(r)
    \/ LinksRead \/ LinksCheck \/ LinksDelete
    \/ RetainRead \/ RetainDelete \/ RetainCheck \/ RetainRooms

RlSpec == RlInit /\ [][RlNext]_rlVars

-----------------------------------------------------------------------------

\* The clean-up never deletes a room whose session is active, which would delete the
\* session with it, although it checks for one before it deletes; a request that read the
\* room just before it expired is the exception.
LiveRoomStays ==
    [][~edge => \A r \in active : room'[r] # "none"]_rlVars

\* However many meetings a host creates at the same time, and whichever answers are lost,
\* createMeeting keeps within the limit of the plan.
CapacityKept == Cardinality(active \ reopened) <= HostLimit

=============================================================================
