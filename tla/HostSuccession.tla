-------------------------- MODULE HostSuccession --------------------------
(***************************************************************************)
(* Who runs an active meeting.  When the host is gone an election makes a  *)
(* connected member the acting host; when the host comes back the acting   *)
(* hosts are demoted.  Whoever leaves holds the election, in the leave     *)
(* endpoint and again in the participant_left webhook.  With the host gone *)
(* and nobody to elect, the waiting room is opened.                        *)
(*                                                                         *)
(* Every session keeps rooms.hostId as its hostId; a host may enter from   *)
(* several devices.  The session stays active here: its end is in          *)
(* MeetingSession.  What updateParticipant tells LiveKit is left out, that *)
(* the call may fail is not.                                               *)
(***************************************************************************)
EXTENDS Naturals

CONSTANTS
    Hosts,    \* participations of the room's host, one per device
    Members,  \* participations of everybody else
    Nobody,   \* no one elected
    MaxConns, \* how often each may connect to LiveKit
    MaxJoins, \* how often each may join or refresh its token
    Leavers,  \* who may call the leave endpoint
    Approval, \* whether the session may require approval
    Faults    \* the faults the environment may inject

People == Hosts \cup Members

\* The leave request of each person, and the participant_left of each of its connections.
Departures == UNION {{p} \X (0..MaxConns[p]) : p \in People}

FaultKinds == {
    "livekit_rejects", \* updateParticipant or getParticipant fails
    "db_down",         \* a D1 write fails for good, and the handler carries on
    "response_lost",   \* D1 applies the upsert of a first join's admission but its
                       \* response is lost, and withD1Retry repeats it
    "worker_dies" }    \* a request or a webhook handler is cancelled, or throws

ASSUME SuccessionAssumption ==
    /\ Hosts \cap Members = {}
    /\ Nobody \notin Hosts \cup Members
    /\ MaxConns \in [Hosts \cup Members -> Nat]
    /\ MaxJoins \in [Hosts \cup Members -> Nat]
    /\ Leavers \subseteq Hosts \cup Members
    /\ Approval \subseteq BOOLEAN
    /\ Faults \subseteq FaultKinds

VARIABLES
    requireApproval, \* the session's column
    adm,      \* admissionStatus of each member
    old,      \* members who have waited for AWAITING_APPROVAL_TTL_MS
    deciding, \* decision on each member read as waiting and not written yet
    row,      \* presenceStatus of each presence row
    role,     \* role of each member's presence row
    entry,    \* program counter, or the role read, of each join or refresh
    joins,    \* how often each has joined or refreshed
    inRoom,   \* who LiveKit has in the room                (external)
    conns,    \* how often each has connected               (external)
    leaving,  \* being removed, or closing the tab          (external)
    joined,   \* outstanding participant_joined webhooks    (external)
    at,       \* program counter of each departure
    pick,     \* whom each departure has elected
    seated    \* history: connected since the host last left, see NoHeadlessMeeting

waiting == <<requireApproval, adm, old, deciding>>
requests == <<entry, joins>>
livekit == <<inRoom, conns, leaving>>
elections == <<at, pick>>
vars == <<waiting, row, role, requests, livekit, joined, elections, seated>>

Live == {"token_issued", "connected"}

TypeOK ==
    /\ requireApproval \in Approval
    /\ adm \in [Members -> {"none", "awaiting", "approved", "denied"}]
    /\ old \in SUBSET Members
    /\ deciding \in [Members -> {"none", "approved", "denied"}]
    /\ row \in [People -> Live \cup {"absent", "disconnected"}]
    /\ role \in [Members -> {"participant", "host"}]
    /\ entry \in [People -> {"idle", "retry", "demote", "participant", "host"}]
    /\ joins \in [People -> Nat]
    /\ inRoom \in SUBSET People
    /\ conns \in [People -> Nat]
    /\ leaving \in SUBSET inRoom
    /\ joined \in SUBSET Departures
    /\ at \in [Departures -> {"idle", "left", "mark", "recheck", "restore", "elect", "select",
                              "open", "write", "push", "rollback"}]
    /\ pick \in [Departures -> Members \cup {Nobody}]
    /\ seated \in SUBSET Members

Init ==
    /\ requireApproval \in Approval
    /\ adm = [m \in Members |-> "none"]
    /\ old = {}
    /\ deciding = [m \in Members |-> "none"]
    /\ row = [p \in People |-> "absent"]
    /\ role = [m \in Members |-> "participant"]
    /\ entry = [p \in People |-> "idle"]
    /\ joins = [p \in People |-> 0]
    /\ inRoom = {}
    /\ conns = [p \in People |-> 0]
    /\ leaving = {}
    /\ joined = {}
    /\ at = [d \in Departures |-> "idle"]
    /\ pick = [d \in Departures |-> Nobody]
    /\ seated = {}

EntryGoes(p, pc) == entry' = [entry EXCEPT ![p] = pc]
Goes(d, pc) == at' = [at EXCEPT ![d] = pc]

HostConnected == \E h \in Hosts : row[h] = "connected"
Acting == {m \in Members : role[m] = "host"}

(***************************************************************************)
(* The waiting room.                                                       *)
(***************************************************************************)

\* expireStaleAwaitingParticipants
Expired == [m \in Members |-> IF adm[m] = "awaiting" /\ m \in old THEN "denied" ELSE adm[m]]

Ages(m) ==
    /\ adm[m] = "awaiting"
    /\ m \notin old
    /\ entry[m] # "retry"   \* which takes less than a second
    /\ old' = old \cup {m}
    /\ UNCHANGED <<requireApproval, adm, deciding, row, role, requests, livekit, joined, elections,
                   seated>>

\* listPendingAdmissions and checkAdmissionStatus change nothing else.
ListPending ==
    /\ adm' = Expired
    /\ UNCHANGED <<requireApproval, old, deciding, row, role, requests, livekit, joined, elections,
                   seated>>

\* admitParticipant and denyParticipant, up to the read of the admission
DecideRead(m, decision) ==
    /\ deciding[m] = "none"
    /\ adm' = Expired
    /\ adm'[m] = "awaiting"
    /\ deciding' = [deciding EXCEPT ![m] = decision]
    /\ UNCHANGED <<requireApproval, old, row, role, requests, livekit, joined, elections, seated>>

\* (mutant) the update has no condition on the status
DecideUnconditional(m) ==
    /\ deciding[m] # "none"
    /\ adm' = [adm EXCEPT ![m] = deciding[m]]
    /\ deciding' = [deciding EXCEPT ![m] = "none"]
    /\ UNCHANGED <<requireApproval, old, row, role, requests, livekit, joined, elections, seated>>

\* Both update the admission only WHERE it is still awaiting approval.
DecideWrite(m) ==
    /\ deciding[m] # "none"
    /\ adm' = IF adm[m] = "awaiting" THEN [adm EXCEPT ![m] = deciding[m]] ELSE adm
    /\ deciding' = [deciding EXCEPT ![m] = "none"]
    /\ UNCHANGED <<requireApproval, old, row, role, requests, livekit, joined, elections, seated>>

(***************************************************************************)
(* joinMeeting and refreshMeetingToken.                                    *)
(***************************************************************************)

JoinBegins(p) ==
    /\ entry[p] = "idle"
    /\ joins[p] < MaxJoins[p]
    /\ joins' = [joins EXCEPT ![p] = @ + 1]

\* expireStaleAwaitingParticipants, in a session that requires approval
JoinExpired == IF requireApproval THEN Expired ELSE adm

\* reclaimRoomHostIfReturning looks for acting hosts who are live.
HostReturns(h) ==
    /\ JoinBegins(h)
    /\ \/ /\ \E m \in Acting : row[m] \in Live
          /\ EntryGoes(h, "demote")
          /\ UNCHANGED adm
       \/ /\ ~\E m \in Acting : row[m] \in Live
          /\ EntryGoes(h, "host")
          /\ adm' = JoinExpired
    /\ UNCHANGED <<requireApproval, old, deciding, row, role, livekit, joined, elections, seated>>

\* Every acting host is demoted; telling LiveKit is best effort.
HostReclaims(h) ==
    /\ entry[h] = "demote"
    /\ role' = [m \in Members |-> "participant"]
    /\ seated' = IF Acting = {} THEN seated ELSE {}
    /\ adm' = JoinExpired
    /\ EntryGoes(h, "host")
    /\ UNCHANGED <<requireApproval, old, deciding, row, joins, livekit, joined, elections>>

\* ensureMeetingAdmission has been answered, or is about to be repeated.
AdmissionAnswered(m) ==
    \/ EntryGoes(m, IF requireApproval THEN "idle" ELSE "participant")
    \/ "response_lost" \in Faults /\ EntryGoes(m, "retry")

\* The admissionStatus a first join writes.
FirstStatus == IF requireApproval THEN "awaiting" ELSE "approved"

\* A first join creates the admission.
JoinFirst(m) ==
    /\ JoinBegins(m)
    /\ adm[m] = "none"
    /\ adm' = [JoinExpired EXCEPT ![m] = FirstStatus]
    /\ AdmissionAnswered(m)
    /\ UNCHANGED <<requireApproval, old, deciding, row, role, livekit, joined, elections, seated>>

\* The repeated upsert finds its own row and writes the same status over whatever has been
\* decided since.
JoinRetries(m) ==
    /\ entry[m] = "retry"
    /\ adm' = [adm EXCEPT ![m] = FirstStatus]
    /\ AdmissionAnswered(m)
    /\ UNCHANGED <<requireApproval, old, deciding, row, role, joins, livekit, joined, elections,
                   seated>>

\* A member who waits joins again to see what was decided; one who was in the meeting
\* returns to it, in the role its presence row has by now.  One who was denied gets a new
\* admission, and is another member from then on.
JoinAgain(m) ==
    /\ JoinBegins(m)
    /\ adm[m] # "none"
    /\ adm' = JoinExpired
    /\ EntryGoes(m, IF adm'[m] = "approved" THEN role[m] ELSE "idle")
    /\ UNCHANGED <<requireApproval, old, deciding, row, role, livekit, joined, elections, seated>>

\* refreshMeetingToken keeps the role it reads.
RefreshRead(m) ==
    /\ JoinBegins(m)
    /\ row[m] \in Live
    /\ adm[m] = "approved"
    /\ EntryGoes(m, role[m])
    /\ UNCHANGED <<waiting, row, role, livekit, joined, elections, seated>>

\* (mutant) a status the column does not know
EnterPending(p) ==
    /\ entry[p] \in {"participant", "host"}
    /\ row' = [row EXCEPT ![p] = IF row[p] = "connected" THEN "connected" ELSE "pending"]
    /\ EntryGoes(p, "idle")
    /\ UNCHANGED <<waiting, role, joins, livekit, joined, elections, seated>>

\* upsertMeetingLivekitPresence with the role read before, then a token for that role.
Enter(p) ==
    /\ entry[p] \in {"participant", "host"}
    /\ row' = [row EXCEPT ![p] = IF row[p] = "connected" THEN "connected" ELSE "token_issued"]
    /\ role' = [m \in Members |-> IF m = p THEN entry[p] ELSE role[m]]
    /\ seated' = IF p \in Acting /\ entry[p] = "participant" THEN {} ELSE seated
    /\ EntryGoes(p, "idle")
    /\ UNCHANGED <<waiting, joins, livekit, joined, elections>>

(***************************************************************************)
(* LiveKit and the participant_joined webhook.                             *)
(***************************************************************************)

\* With a token, that is with a presence row; nobody who is on the way out comes back.
Connects(p) ==
    /\ row[p] # "absent"
    /\ p \notin inRoom
    /\ conns[p] < MaxConns[p]
    /\ conns' = [conns EXCEPT ![p] = @ + 1]
    /\ inRoom' = inRoom \cup {p}
    /\ joined' = joined \cup {<<p, conns'[p]>>}
    /\ UNCHANGED <<waiting, row, role, requests, leaving, elections, seated>>

Disconnects(p) ==
    /\ p \in inRoom
    /\ inRoom' = inRoom \ {p}
    /\ leaving' = leaving \ {p}
    /\ Goes(<<p, conns[p]>>, "left")
    /\ UNCHANGED <<waiting, row, role, requests, conns, joined, pick, seated>>

HandleJoined(d) ==
    /\ d \in joined
    /\ joined' = joined \ {d}
    /\ \/ row' = [row EXCEPT ![d[1]] = "connected"]
       \/ "db_down" \in Faults /\ UNCHANGED row
    /\ UNCHANGED <<waiting, role, requests, livekit, elections, seated>>

(***************************************************************************)
(* Departures: executeLeaveMeeting and participant_left.                   *)
(***************************************************************************)

Marked(p) == [row EXCEPT ![p] = "disconnected"]

\* Who is seated once a departure of p is recorded that holds an election.
SeatedAfter(p) ==
    IF p \in Hosts THEN {m \in Members : row[m] = "connected"} ELSE seated \ {p}

LeaveRead(p) ==
    /\ p \in Leavers
    /\ at[<<p, 0>>] = "idle"
    /\ row[p] \in Live
    /\ Goes(<<p, 0>>, "mark")
    /\ UNCHANGED <<waiting, row, role, requests, livekit, joined, pick, seated>>

\* The leave endpoint has the participant removed from LiveKit and holds an election; the
\* beacon of a tab that closes does neither.
LeaveMark(p) ==
    /\ at[<<p, 0>>] = "mark"
    /\ row' = Marked(p)
    /\ leaving' = leaving \cup (inRoom \cap {p})
    /\ \/ Goes(<<p, 0>>, "elect") /\ seated' = SeatedAfter(p)
       \/ Goes(<<p, 0>>, "idle") /\ seated' = {}
    /\ UNCHANGED <<waiting, role, requests, inRoom, conns, joined, pick>>

\* participant_left: a participant who is back is left alone.
LeftCheck(d) ==
    /\ at[d] = "left"
    /\ \/ d[1] \in inRoom /\ Goes(d, "idle")
       \/ d[1] \notin inRoom /\ Goes(d, "mark")
       \/ "livekit_rejects" \in Faults /\ Goes(d, "mark")
    /\ UNCHANGED <<waiting, row, role, requests, livekit, joined, pick, seated>>

LeftMark(d) ==
    /\ d[2] # 0
    /\ at[d] = "mark"
    /\ \/ row' = Marked(d[1]) /\ seated' = SeatedAfter(d[1])
       \/ "db_down" \in Faults /\ UNCHANGED <<row, seated>>
    /\ Goes(d, "recheck")
    /\ UNCHANGED <<waiting, role, requests, livekit, joined, pick>>

LeftRecheck(d) ==
    /\ at[d] = "recheck"
    /\ \/ d[1] \in inRoom /\ Goes(d, "restore")
       \/ d[1] \notin inRoom /\ Goes(d, "elect")
       \/ "livekit_rejects" \in Faults /\ Goes(d, "elect")
    /\ UNCHANGED <<waiting, row, role, requests, livekit, joined, pick, seated>>

\* The election follows when the row cannot be restored.
LeftRestore(d) ==
    /\ at[d] = "restore"
    /\ \/ row' = [row EXCEPT ![d[1]] = "connected"] /\ Goes(d, "idle")
       \/ "db_down" \in Faults /\ Goes(d, "elect") /\ UNCHANGED row
    /\ UNCHANGED <<waiting, role, requests, livekit, joined, pick, seated>>

(***************************************************************************)
(* maybePromoteSuccessorHost, held by either departure.                    *)
(***************************************************************************)

\* A handler that fails: the leave request is over, the webhook is delivered again.
Over(d) == IF d[2] = 0 THEN "idle" ELSE "left"

\* (mutant) any presence row of the host's counts, whatever its status
ElectHostAnyRow(d) ==
    /\ at[d] = "elect"
    /\ adm' = Expired
    /\ Goes(d, IF \E h \in Hosts : row[h] # "absent" THEN "idle" ELSE "select")
    /\ UNCHANGED <<requireApproval, old, deciding, row, role, requests, livekit, joined, pick,
                   seated>>

ElectHost(d) ==
    /\ at[d] = "elect"
    /\ adm' = Expired
    /\ Goes(d, IF HostConnected THEN "idle" ELSE "select")
    /\ UNCHANGED <<requireApproval, old, deciding, row, role, requests, livekit, joined, pick,
                   seated>>

\* The code takes the candidate who connected first; here, any.
ElectSelect(d) ==
    LET Candidates == {m \in Members : row[m] = "connected" /\ role[m] = "participant"} IN
    /\ at[d] = "select"
    /\ \/ \E m \in Candidates : pick' = [pick EXCEPT ![d] = m] /\ Goes(d, "write")
       \/ Candidates = {} /\ Goes(d, "open") /\ UNCHANGED pick
    /\ UNCHANGED <<waiting, row, role, requests, livekit, joined, seated>>

\* Nobody is left to decide: whoever waits is let in.
ElectOpen(d) ==
    /\ at[d] = "open"
    /\ adm' = [m \in Members |-> IF adm[m] = "awaiting" THEN "approved" ELSE adm[m]]
    /\ Goes(d, "idle")
    /\ UNCHANGED <<requireApproval, old, deciding, row, role, requests, livekit, joined, pick,
                   seated>>

ElectWrite(d) ==
    /\ at[d] = "write"
    /\ role' = [role EXCEPT ![pick[d]] = "host"]
    /\ Goes(d, "push")
    /\ UNCHANGED <<waiting, row, requests, livekit, joined, pick, seated>>

\* promoteHost: LiveKit does not know a participant who is not in the room.
ElectPush(d) ==
    /\ at[d] = "push"
    /\ \/ /\ pick[d] \in inRoom
          /\ Goes(d, "idle")
          /\ pick' = [pick EXCEPT ![d] = Nobody]
       \/ /\ pick[d] \notin inRoom \/ "livekit_rejects" \in Faults
          /\ Goes(d, "rollback")
          /\ UNCHANGED pick
    /\ UNCHANGED <<waiting, row, role, requests, livekit, joined, seated>>

\* The role goes back to what it was when it was selected, then the handler fails.
ElectRollback(d) ==
    /\ at[d] = "rollback"
    /\ \/ /\ role' = [role EXCEPT ![pick[d]] = "participant"]
          /\ seated' = IF pick[d] \in Acting THEN {} ELSE seated
       \/ "db_down" \in Faults /\ UNCHANGED <<role, seated>>
    /\ Goes(d, Over(d))
    /\ pick' = [pick EXCEPT ![d] = Nobody]
    /\ UNCHANGED <<waiting, row, requests, livekit, joined>>

EntryDies(p) ==
    /\ "worker_dies" \in Faults
    /\ entry[p] # "idle"
    /\ EntryGoes(p, "idle")
    /\ UNCHANGED <<waiting, row, role, joins, livekit, joined, elections, seated>>

\* A leave request that dies may leave its election unheld.
DepartureDies(d) ==
    /\ "worker_dies" \in Faults
    /\ at[d] \notin {"idle", "left"}
    /\ Goes(d, Over(d))
    /\ pick' = [pick EXCEPT ![d] = Nobody]
    /\ seated' = IF d[2] = 0 THEN {} ELSE seated
    /\ UNCHANGED <<waiting, row, role, requests, livekit, joined>>

-----------------------------------------------------------------------------

Waits(m) ==
    \/ Ages(m) \/ DecideWrite(m)
    \/ \E decision \in {"approved", "denied"} : DecideRead(m, decision)
Elects(d) ==
    \/ ElectHost(d) \/ ElectSelect(d) \/ ElectOpen(d) \/ ElectWrite(d) \/ ElectPush(d)
    \/ ElectRollback(d)

Next ==
    \/ ListPending
    \/ \E m \in Members :
        \/ Waits(m) \/ JoinFirst(m) \/ JoinRetries(m) \/ JoinAgain(m) \/ RefreshRead(m)
    \/ \E h \in Hosts : HostReturns(h) \/ HostReclaims(h)
    \/ \E p \in People :
        \/ Enter(p) \/ EntryDies(p)
        \/ Connects(p) \/ Disconnects(p) \/ LeaveRead(p) \/ LeaveMark(p)
    \/ \E d \in Departures :
        \/ HandleJoined(d) \/ LeftCheck(d) \/ LeftMark(d) \/ LeftRecheck(d) \/ LeftRestore(d)
        \/ Elects(d) \/ DepartureDies(d)

Spec == Init /\ [][Next]_vars

-----------------------------------------------------------------------------

\* However the host, the clock, the listing of the waiting room and an election race over
\* it, an admission is decided once and only the admitted get a presence row and a token;
\* unless the upsert of a first join is repeated after a lost response: it resets what was
\* decided in the meantime.
Admission == INSTANCE AdmissionDecision WITH entered <- {m \in Members : row[m] # "absent"}

AdmissionSpec == Admission!Spec

\* Every departure, and every arrival in the room, has been dealt with.
Settled ==
    /\ \A d \in Departures : at[d] = "idle"
    /\ joined = {}
    /\ leaving = {}

\* "promotes a successor when a host leaves": a host's departure leaves nobody behind
\* without a host.  When all departures are dealt with, no host is in the room or marked
\* connected, and somebody has been connected ever since a host last left, then somebody
\* in the room or marked connected has the role of the host; provided that, since then, no
\* acting host was demoted (a returning host, a refresh with a stale role, a failed
\* promotion) and nobody left without an election (the beacon, a leave request that died).
NoHeadlessMeeting ==
    Settled /\ ~HostConnected /\ Hosts \cap inRoom = {} /\ seated # {}
        => \E m \in Acting : row[m] = "connected" \/ m \in inRoom

\* "restores the original room host and demotes the acting host": with the host back in
\* the room and everything dealt with, nobody else in the room still has its role.
ActingHostYields ==
    Settled /\ (\A p \in People : entry[p] = "idle")
        => ~\E h \in Hosts, m \in Acting : {h, m} \subseteq inRoom
                                           /\ row[h] = "connected" /\ row[m] = "connected"

=============================================================================
