SPECIFICATION Spec
CONSTANTS
    host = host
    member = member
    guest = guest
    WbHosts = {host}
    WbMembers = {member}
    WbGuests = {guest}
    WbNobody = WbNobody
    WbConnects <- WbOnceTwice
    WbLimit = 1
    Requests = {q1, q2, q3}
    NoToken = NoToken
    MaxRotations = 3
    Tries = {t1, t2}
    Resends = {n1}
    MaxAttempts = 2
    MaxCodes = 2
    MaxCounted = 2
    Joiners = {u1, u2, u3}
    JoinReqs = {j1, j2, j3}
    Removals = {v1}
    SpNobody = SpNobody
    InviteLimits = {0, 1, 2}
    Uploads = {a1, a2, a3, a4}
    QuotaLimit = 2
    RoomIds = {r1, r2}
    Creates = {c1, c2}
    Reopeners = {o1}
    NoRoom = NoRoom
    HostLimit = 1
    MaxSessions = 3
    e1 = e1
    e2 = e2
    e3 = e3
    e4 = e4
    e5 = e5
    s1 = s1
    s2 = s2
    Events = {e1, e2, e3, e4, e5}
    Subscriptions = {s1, s2}
    NoSubscription = NoSubscription
    EventTime <- BiTimes
    EventSub <- BiSubs
    EventEffect <- BiEffects
    Members = {m1, m2}
    MaxGestures = 3
INVARIANTS TypesOK WritersMatchGrants ControllerIsHere NoSpuriousLogout LogoutEnds CodeUsedOnce GuessesBounded InviteLimitKept QuotaKept CapacityKept NewestEventStands QueueAgrees
PROPERTIES LiveRoomStays
CHECK_DEADLOCK FALSE
