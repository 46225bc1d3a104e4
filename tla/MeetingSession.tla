--------------------------- MODULE MeetingSession ---------------------------
(***************************************************************************)
(* The life of one meeting session: joining, token refresh, leaving, the   *)
(* participant webhooks that keep the presence rows in step with LiveKit,  *)
(* and the four ways the session ends.                                     *)
(*                                                                         *)
(*   "host"    endMeeting, "End for everyone"                              *)
(*   "system"  endSession from the duration limit, a deleted space, ...    *)
(*   "natural" the room_finished webhook                                   *)
(*   "stale"   the reconciler of sessions whose LiveKit room is gone       *)
(*                                                                         *)
(* A person here is one participation: one admission, one presence row and *)
(* one LiveKit identity.  The n-th time it connects to LiveKit gives rise  *)
(* to one participant_joined and one participant_left webhook, delivered   *)
(* in any order; Conns bounds how often it connects.                       *)
(***************************************************************************)
EXTENDS Naturals

CONSTANTS
    People,  \* participations
    Conns,   \* how often each may connect: 1..n
    Endings, \* the ways of ending that may occur
    Faults   \* the faults the environment may inject

Reasons == {"host", "system", "natural", "stale"}
FaultKinds == {
    "livekit_rejects",  \* a LiveKit call fails
    "response_lost",    \* D1 applies an update but its response is lost
    "db_down",          \* a D1 write fails for good, unapplied
    "issue_fails",      \* issueMeetingAccess throws
    "webhook_lost",     \* a room_finished webhook is never delivered
    "crowded",          \* STALE_SESSION_BATCH_LIMIT other old sessions are active
    "worker_dies" }     \* the invocation that ends the session is cancelled

ASSUME EndingsAssumption == Endings \subseteq Reasons
ASSUME SessionFaultsAssumption == Faults \subseteq FaultKinds

VARIABLES
    active,   \* meetingSessions.status = "active"
    endedBy,  \* the ending whose update ended the session
    tasks,    \* how often runPostMeetingTasks has run
    ender,    \* program counter of each ending
    young,    \* the session is within the grace period of a missing room
    row,      \* presenceStatus of each presence row
    recent,   \* rows issued or connected within that grace period
    admitted, \* approved admissions
    token,    \* LiveKit token of each person
    join,     \* program counter of the join or refresh request of each person
    fresh,    \* whether that join created its admission
    leave,    \* program counter of each person's leave request
    room,     \* the LiveKit room exists                       (external)
    inRoom,   \* who LiveKit has in the room                   (external)
    conns,    \* how often each person has connected           (external)
    closed,   \* a room_finished webhook is outstanding        (external)
    joined,   \* outstanding participant_joined webhooks       (external)
    left      \* participant_left webhooks: undelivered, or where their handler is

ends == <<active, endedBy, tasks, ender>>
requests == <<join, fresh, leave>>
livekit == <<room, inRoom, conns, closed>>
hooks == <<joined, left>>
vars == <<ends, young, row, recent, admitted, token, requests, livekit, hooks>>

Live == {"token_issued", "connected"}

TypeOK ==
    /\ active \in BOOLEAN
    /\ endedBy \in Endings \cup {"nobody"}
    /\ tasks \in Nat
    /\ ender \in [Endings -> {"idle", "listed", "finalize", "teardown", "tasks", "done"}]
    /\ young \in BOOLEAN
    /\ row \in [People -> Live \cup {"absent", "disconnected"}]
    /\ recent \in SUBSET People
    /\ admitted \in SUBSET People
    /\ token \in [People -> {"none", "valid", "expired"}]
    /\ join \in [People -> {"idle", "admit", "upsert", "check", "issue", "rollback",
                            "refresh", "reissue"}]
    /\ fresh \in [People -> BOOLEAN]
    /\ leave \in [People -> {"idle", "mark", "remove"}]
    /\ room \in BOOLEAN
    /\ inRoom \in SUBSET People
    /\ conns \in [People -> Conns \cup {0}]
    /\ closed \in BOOLEAN
    /\ joined \in SUBSET (People \X Conns)
    /\ left \in [People \X Conns -> {"none", "pending", "mark", "recheck", "restore"}]

\* A session just created by its host, who has not entered it yet.
Init ==
    /\ active = TRUE
    /\ endedBy = "nobody"
    /\ tasks = 0
    /\ ender = [r \in Endings |-> "idle"]
    /\ young = TRUE
    /\ row = [p \in People |-> "absent"]
    /\ recent = {}
    /\ admitted = {}
    /\ token = [p \in People |-> "none"]
    /\ join = [p \in People |-> "idle"]
    /\ fresh = [p \in People |-> TRUE]
    /\ leave = [p \in People |-> "idle"]
    /\ room = FALSE
    /\ inRoom = {}
    /\ conns = [p \in People |-> 0]
    /\ closed = FALSE
    /\ joined = {}
    /\ left = [h \in People \X Conns |-> "none"]

JoinGoes(p, pc) == join' = [join EXCEPT ![p] = pc]
LeaveGoes(p, pc) == leave' = [leave EXCEPT ![p] = pc]
LeftGoes(h, pc) == left' = [left EXCEPT ![h] = pc]
EnderGoes(r, pc) == ender' = [ender EXCEPT ![r] = pc]

\* A user's request is over for good; a webhook and the cron job come back.
Over(r) == IF r \in {"host", "system"} THEN "done" ELSE "idle"

\* UPDATE ... SET presenceStatus = s WHERE the row exists
Marked(p, s) == IF row[p] = "absent" THEN row ELSE [row EXCEPT ![p] = s]

(***************************************************************************)
(* joinMeeting.                                                            *)
(***************************************************************************)

\* Without reconnectAdmissionId the join creates an admission, with it the approved
\* admission is looked up.
JoinRead(p) ==
    /\ join[p] = "idle"
    /\ active
    /\ fresh' = [fresh EXCEPT ![p] = p \notin admitted]
    /\ JoinGoes(p, IF p \in admitted THEN "upsert" ELSE "admit")
    /\ UNCHANGED <<ends, young, row, recent, admitted, token, leave, livekit, hooks>>

JoinAdmit(p) ==
    /\ join[p] = "admit"
    /\ \/ admitted' = admitted \cup {p} /\ JoinGoes(p, "upsert")
       \/ "db_down" \in Faults /\ JoinGoes(p, "idle") /\ UNCHANGED admitted
    /\ UNCHANGED <<ends, young, row, recent, token, fresh, leave, livekit, hooks>>

\* (mutant) writes a status of the occupant snapshots into the row
UpsertPending(p) ==
    /\ row' = [row EXCEPT ![p] = "pending"]
    /\ recent' = recent \cup {p}

\* upsertMeetingLivekitPresence with "token_issued": a connected row keeps its status
\* and its times, any other row starts over.
Upsert(p) ==
    IF row[p] = "connected"
    THEN UNCHANGED <<row, recent>>
    ELSE /\ row' = [row EXCEPT ![p] = "token_issued"]
         /\ recent' = recent \cup {p}

\* The upsert is outside the block that cleans up: when it fails the admission stays.
JoinUpsert(p) ==
    /\ join[p] = "upsert"
    /\ \/ Upsert(p) /\ JoinGoes(p, "check")
       \/ "db_down" \in Faults /\ JoinGoes(p, "idle") /\ UNCHANGED <<row, recent>>
    /\ UNCHANGED <<ends, young, admitted, token, fresh, leave, livekit, hooks>>

\* (mutant) a refused join cleans nothing up
JoinCheckNoRollback(p) ==
    /\ join[p] = "check"
    /\ JoinGoes(p, IF active THEN "issue" ELSE "idle")
    /\ UNCHANGED <<ends, young, row, recent, admitted, token, fresh, leave, livekit, hooks>>

\* (mutant) the second look at the session is left out
JoinCheckSkipped(p) ==
    /\ join[p] = "check"
    /\ JoinGoes(p, "issue")
    /\ UNCHANGED <<ends, young, row, recent, admitted, token, fresh, leave, livekit, hooks>>

\* issueMeetingAccessIfActive reads the session once more; only the path that created
\* an admission cleans up after a refusal.
JoinCheck(p) ==
    /\ join[p] = "check"
    /\ JoinGoes(p, CASE active -> "issue"
                     [] ~active /\ fresh[p] -> "rollback"
                     [] OTHER -> "idle")
    /\ UNCHANGED <<ends, young, row, recent, admitted, token, fresh, leave, livekit, hooks>>

JoinIssue(p) ==
    /\ join[p] = "issue"
    /\ \/ token' = [token EXCEPT ![p] = "valid"] /\ JoinGoes(p, "idle")
       \/ /\ "issue_fails" \in Faults
          /\ JoinGoes(p, IF fresh[p] THEN "rollback" ELSE "idle")
          /\ UNCHANGED token
    /\ UNCHANGED <<ends, young, row, recent, admitted, fresh, leave, livekit, hooks>>

\* Row and admission are deleted side by side; a failed delete is ignored.
JoinRollback(p) ==
    /\ join[p] = "rollback"
    /\ \/ row' = [row EXCEPT ![p] = "absent"]
       \/ "db_down" \in Faults /\ UNCHANGED row
    /\ \/ admitted' = admitted \ {p}
       \/ "db_down" \in Faults /\ UNCHANGED admitted
    /\ JoinGoes(p, "idle")
    /\ UNCHANGED <<ends, young, recent, token, fresh, leave, livekit, hooks>>

(***************************************************************************)
(* refreshMeetingToken: it does not look at the session again.             *)
(***************************************************************************)

RefreshRead(p) ==
    /\ join[p] = "idle"
    /\ active
    /\ row[p] \in Live
    /\ p \in admitted
    /\ JoinGoes(p, "refresh")
    /\ UNCHANGED <<ends, young, row, recent, admitted, token, fresh, leave, livekit, hooks>>

RefreshUpsert(p) ==
    /\ join[p] = "refresh"
    /\ \/ Upsert(p) /\ JoinGoes(p, "reissue")
       \/ "db_down" \in Faults /\ JoinGoes(p, "idle") /\ UNCHANGED <<row, recent>>
    /\ UNCHANGED <<ends, young, admitted, token, fresh, leave, livekit, hooks>>

RefreshIssue(p) ==
    /\ join[p] = "reissue"
    /\ \/ token' = [token EXCEPT ![p] = "valid"]
       \/ "issue_fails" \in Faults /\ UNCHANGED token
    /\ JoinGoes(p, "idle")
    /\ UNCHANGED <<ends, young, row, recent, admitted, fresh, leave, livekit, hooks>>

(***************************************************************************)
(* LiveKit, an external service.  A token opens the room, and connecting   *)
(* creates the room when there is none.                                    *)
(***************************************************************************)

Connects(p) ==
    /\ token[p] = "valid"
    /\ p \notin inRoom
    /\ conns[p] + 1 \in Conns
    /\ conns' = [conns EXCEPT ![p] = @ + 1]
    /\ inRoom' = inRoom \cup {p}
    /\ room' = TRUE
    /\ joined' = joined \cup {<<p, conns[p] + 1>>}
    /\ UNCHANGED <<ends, young, row, recent, admitted, token, requests, closed, left>>

\* The people of P are out of the room, each with a participant_left to come.
Out(P) ==
    /\ inRoom' = inRoom \ P
    /\ left' = [h \in People \X Conns |->
                    IF h[1] \in P \cap inRoom /\ h[2] = conns[h[1]] THEN "pending" ELSE left[h]]

Disconnects(p) ==
    /\ p \in inRoom
    /\ Out({p})
    /\ UNCHANGED <<ends, young, row, recent, admitted, token, requests, room, conns, closed,
                   joined>>

\* departure_timeout has elapsed with nobody back.
RoomFinishes ==
    /\ room
    /\ inRoom = {}
    /\ room' = FALSE
    /\ closed' = TRUE
    /\ UNCHANGED <<ends, young, row, recent, admitted, token, requests, inRoom, conns, hooks>>

TokenExpires(p) ==
    /\ token[p] = "valid"
    /\ token' = [token EXCEPT ![p] = "expired"]
    /\ UNCHANGED <<ends, young, row, recent, admitted, requests, livekit, hooks>>

WebhookLost ==
    /\ "webhook_lost" \in Faults
    /\ closed
    /\ closed' = FALSE
    /\ UNCHANGED <<ends, young, row, recent, admitted, token, requests, room, inRoom, conns,
                   hooks>>

\* The grace periods run out.
Matures ==
    /\ young
    /\ young' = FALSE
    /\ UNCHANGED <<ends, row, recent, admitted, token, requests, livekit, hooks>>

Ages(p) ==
    /\ p \in recent
    /\ recent' = recent \ {p}
    /\ UNCHANGED <<ends, young, row, admitted, token, requests, livekit, hooks>>

(***************************************************************************)
(* executeLeaveMeeting.                                                    *)
(***************************************************************************)

LeaveRead(p) ==
    /\ leave[p] = "idle"
    /\ row[p] \in Live
    /\ LeaveGoes(p, "mark")
    /\ UNCHANGED <<ends, young, row, recent, admitted, token, join, fresh, livekit, hooks>>

\* The update is by row id; only a row that is still there is removed from LiveKit.
LeaveMark(p) ==
    /\ leave[p] = "mark"
    /\ \/ /\ row' = Marked(p, "disconnected")
          /\ LeaveGoes(p, IF row[p] = "absent" THEN "idle" ELSE "remove")
       \/ "db_down" \in Faults /\ LeaveGoes(p, "idle") /\ UNCHANGED row
    /\ UNCHANGED <<ends, young, recent, admitted, token, join, fresh, livekit, hooks>>

\* removeParticipant is fired and forgotten.  The beacon of a tab that closes does not
\* call it; there the tab itself goes away.
LeaveRemove(p) ==
    /\ leave[p] = "remove"
    /\ \/ Out({p})
       \/ "livekit_rejects" \in Faults /\ UNCHANGED <<inRoom, left>>
    /\ LeaveGoes(p, "idle")
    /\ UNCHANGED <<ends, young, row, recent, admitted, token, join, fresh, room, conns, closed,
                   joined>>

(***************************************************************************)
(* participant_joined, participant_left, participant_connection_aborted.   *)
(***************************************************************************)

\* Marks the row connected, whoever is in the room by now.  An update that fails is
\* logged and the webhook acknowledged.
HandleJoined(h) ==
    /\ h \in joined
    /\ joined' = joined \ {h}
    /\ \/ /\ row' = Marked(h[1], "connected")
          /\ recent' = recent \cup {h[1]}
       \/ "db_down" \in Faults /\ UNCHANGED <<row, recent>>
    /\ UNCHANGED <<ends, young, admitted, token, requests, livekit, left>>

\* isIdentityStillPresent: an identity that is back makes the webhook stale; when
\* LiveKit cannot tell, the handler goes on.
LeftCheck(h) ==
    /\ left[h] = "pending"
    /\ \/ h[1] \in inRoom /\ LeftGoes(h, "none")
       \/ h[1] \notin inRoom /\ LeftGoes(h, "mark")
       \/ "livekit_rejects" \in Faults /\ LeftGoes(h, "mark")
    /\ UNCHANGED <<ends, young, row, recent, admitted, token, requests, livekit, joined>>

LeftMark(h) ==
    /\ left[h] = "mark"
    /\ \/ row' = Marked(h[1], "disconnected")
       \/ "db_down" \in Faults /\ UNCHANGED row
    /\ LeftGoes(h, "recheck")
    /\ UNCHANGED <<ends, young, recent, admitted, token, requests, livekit, joined>>

\* (mutant) no look at the room after the row was marked
LeftRecheckSkipped(h) ==
    /\ left[h] = "recheck"
    /\ LeftGoes(h, "none")
    /\ UNCHANGED <<ends, young, row, recent, admitted, token, requests, livekit, joined>>

LeftRecheck(h) ==
    /\ left[h] = "recheck"
    /\ \/ h[1] \in inRoom /\ LeftGoes(h, "restore")
       \/ h[1] \notin inRoom /\ LeftGoes(h, "none")
       \/ "livekit_rejects" \in Faults /\ LeftGoes(h, "none")
    /\ UNCHANGED <<ends, young, row, recent, admitted, token, requests, livekit, joined>>

LeftRestore(h) ==
    /\ left[h] = "restore"
    /\ \/ row' = Marked(h[1], "connected")
       \/ "db_down" \in Faults /\ UNCHANGED row
    /\ LeftGoes(h, "none")
    /\ UNCHANGED <<ends, young, recent, admitted, token, requests, livekit, joined>>

(***************************************************************************)
(* The end of the session.                                                 *)
(***************************************************************************)

\* endMeeting and endSession read an active session; the room_finished handler looks
\* the session up too, and finds nothing to do once it has ended.
EndRead(r) ==
    /\ r \in {"host", "system"}
    /\ ender[r] = "idle"
    /\ active
    /\ EnderGoes(r, "finalize")
    /\ UNCHANGED <<active, endedBy, tasks, young, row, recent, admitted, token, requests,
                   livekit, hooks>>

RoomFinished(r) ==
    /\ r = "natural"
    /\ ender[r] = "idle"
    /\ closed
    /\ \/ active /\ EnderGoes(r, "finalize") /\ UNCHANGED closed
       \/ ~active /\ closed' = FALSE /\ UNCHANGED ender
    /\ UNCHANGED <<active, endedBy, tasks, young, row, recent, admitted, token, requests,
                   room, inRoom, conns, hooks>>

\* cleanupStaleSessionsWithoutLiveKitRoom: candidates, then listRooms, ...  The candidates
\* are any STALE_SESSION_BATCH_LIMIT old sessions, in no order: among more of them this
\* session may be left out, a run without an effect, and nothing keeps it from being left
\* out every time.
StaleList(r) ==
    /\ r = "stale"
    /\ ender[r] = "idle"
    /\ active
    /\ ~young
    /\ ~room
    /\ EnderGoes(r, "listed")
    /\ UNCHANGED <<active, endedBy, tasks, young, row, recent, admitted, token, requests,
                   livekit, hooks>>

\* (mutant) any live row keeps the session, however old
StaleOccupantsAgeless(r) ==
    /\ ender[r] = "listed"
    /\ EnderGoes(r, IF \E p \in People : row[p] \in Live THEN "idle" ELSE "finalize")
    /\ UNCHANGED <<active, endedBy, tasks, young, row, recent, admitted, token, requests,
                   livekit, hooks>>

\* ... then the occupants, and getMissingRoomFinalizeReason keeps the session while one
\* of them is recent.
StaleOccupants(r) ==
    /\ ender[r] = "listed"
    /\ EnderGoes(r, IF \E p \in recent : row[p] \in Live THEN "idle" ELSE "finalize")
    /\ UNCHANGED <<active, endedBy, tasks, young, row, recent, admitted, token, requests,
                   livekit, hooks>>

\* finalizeMeetingsEnd: one batch ends the active session and disconnects its rows.  The
\* rows are swept whether or not the session was still active.
EndRow(r) ==
    /\ active' = FALSE
    /\ endedBy' = IF active THEN r ELSE endedBy
    /\ row' = [p \in People |-> IF row[p] \in Live THEN "disconnected" ELSE row[p]]

\* (mutant) goes on without looking at the number of changed rows
FinalizeUncounted(r) ==
    /\ ender[r] = "finalize"
    /\ EndRow(r)
    /\ EnderGoes(r, IF r \in {"host", "system"} THEN "teardown" ELSE "tasks")
    /\ UNCHANGED <<closed, tasks, young, recent, admitted, token, requests, room, inRoom, conns,
                   hooks>>

\* (mutant) finalizeSession called without env runs no tasks
FinalizeWithoutEnv(r) ==
    /\ ender[r] = "finalize"
    /\ EndRow(r)
    /\ EnderGoes(r, IF active /\ r \in {"host", "system"} THEN "teardown" ELSE Over(r))
    /\ closed' = (closed /\ r # "natural")
    /\ UNCHANGED <<tasks, young, recent, admitted, token, requests, room, inRoom, conns, hooks>>

\* The caller whose update changed a row goes on; every other caller stops, and so does
\* one whose applied update lost its response, because the retry changes nothing.  A
\* caller whose lookup already finds the session ended does not get to the batch.
Finalize(r) ==
    /\ ender[r] = "finalize"
    /\ \/ /\ EndRow(r)
          /\ \/ /\ active
                /\ EnderGoes(r, IF r \in {"host", "system"} THEN "teardown" ELSE "tasks")
             \/ /\ ~active \/ "response_lost" \in Faults
                /\ EnderGoes(r, Over(r))
       \/ /\ ~active \/ "db_down" \in Faults
          /\ EnderGoes(r, Over(r))
          /\ UNCHANGED <<active, endedBy, row>>
    /\ closed' = (closed /\ (r # "natural" \/ ender'[r] = "tasks"))
    /\ UNCHANGED <<tasks, young, recent, admitted, token, requests, room, inRoom, conns, hooks>>

\* tearDownLiveKitRoom.
Teardown(r) ==
    /\ ender[r] = "teardown"
    /\ \/ /\ room' = FALSE
          /\ closed' = (closed \/ room)
          /\ Out(inRoom)
       \/ "livekit_rejects" \in Faults /\ UNCHANGED <<room, closed, inRoom, left>>
    /\ EnderGoes(r, "tasks")
    /\ UNCHANGED <<active, endedBy, tasks, young, row, recent, admitted, token, requests,
                   conns, joined>>

\* runPostMeetingTasks.
RunTasks(r) ==
    /\ ender[r] = "tasks"
    /\ tasks' = tasks + 1
    /\ EnderGoes(r, Over(r))
    /\ closed' = (closed /\ r # "natural")
    /\ UNCHANGED <<active, endedBy, young, row, recent, admitted, token, requests, room,
                   inRoom, conns, hooks>>

\* The invocation dies; an unanswered room_finished is delivered again.
WorkerDies(r) ==
    /\ "worker_dies" \in Faults
    /\ ender[r] \notin {"idle", "done"}
    /\ EnderGoes(r, Over(r))
    /\ UNCHANGED <<active, endedBy, tasks, young, row, recent, admitted, token, requests,
                   livekit, hooks>>

-----------------------------------------------------------------------------

JoinStep(p) ==
    \/ JoinAdmit(p) \/ JoinUpsert(p) \/ JoinCheck(p) \/ JoinIssue(p) \/ JoinRollback(p)
    \/ RefreshUpsert(p) \/ RefreshIssue(p)
LeaveStep(p) == LeaveMark(p) \/ LeaveRemove(p)
LeftStep(h) == LeftCheck(h) \/ LeftMark(h) \/ LeftRecheck(h) \/ LeftRestore(h)
EndStep(r) == StaleOccupants(r) \/ Finalize(r) \/ Teardown(r) \/ RunTasks(r)
EndBegins(r) == EndRead(r) \/ RoomFinished(r) \/ StaleList(r)

Next ==
    \/ \E p \in People :
        \/ JoinRead(p) \/ RefreshRead(p) \/ JoinStep(p)
        \/ LeaveRead(p) \/ LeaveStep(p)
        \/ Connects(p) \/ Disconnects(p) \/ TokenExpires(p) \/ Ages(p)
    \/ \E h \in People \X Conns : HandleJoined(h) \/ LeftStep(h)
    \/ \E r \in Endings : EndBegins(r) \/ EndStep(r) \/ WorkerDies(r)
    \/ RoomFinishes \/ WebhookLost \/ Matures

Spec == Init /\ [][Next]_vars

\* Time passes, a running request or handler takes its next step, LiveKit delivers its
\* webhooks and the cron job keeps coming back.  No user has to do anything.  That the
\* cron job lists this session is certain only as long as all old sessions fit its query.
Fairness ==
    /\ WF_vars(Matures)
    /\ \A p \in People : WF_vars(Ages(p)) /\ WF_vars(JoinStep(p)) /\ WF_vars(LeaveStep(p))
    /\ \A h \in People \X Conns : WF_vars(HandleJoined(h)) /\ WF_vars(LeftStep(h))
    /\ \A r \in Endings :
        /\ WF_vars(RoomFinished(r) \/ ("crowded" \notin Faults /\ StaleList(r)))
        /\ WF_vars(EndStep(r))

FairSpec == Spec /\ Fairness

-----------------------------------------------------------------------------

\* However many callers race to end the session, and whatever is lost on the way, the
\* side effects that may "fire exactly once" never fire twice.
TasksAtMostOnce == tasks <= 1

\* The session row and the tasks keep the promise of SessionEnding.
Ending == INSTANCE SessionEnding WITH open <- active, runs <- tasks

\* An ended session never becomes active again and its tasks never precede its end.
EndingSpec == Ending!Spec

\* A join that was refused, because the session ended or no token could be made, leaves
\* neither the presence row nor the admission it had created for it.
RefusedJoinLeavesNothing ==
    \A p \in People :
        join[p] = "idle" /\ token[p] = "none" => row[p] = "absent" /\ p \notin admitted

\* Nothing that could still change the row of p is under way.
Quiet(p) ==
    /\ join[p] = "idle"
    /\ leave[p] = "idle"
    /\ \A n \in Conns : <<p, n>> \notin joined /\ left[<<p, n>>] = "none"

\* "Marking the row left ... kicks a connected user on their next token refresh": once
\* requests and webhooks are handled, in whatever order, nobody in the room of an
\* active session is marked as gone.
InRoomIsConnected ==
    \A p \in People : active /\ Quiet(p) /\ p \in inRoom => row[p] = "connected"

\* A fresh join that still gets a token although the session has ended was swept by the
\* end: its row existed when finalizeMeetingsEnd disconnected the rows of the session.
SweptBeforeToken ==
    \A p \in People : ~active /\ join[p] = "issue" /\ fresh[p] => row[p] = "disconnected"

\* A session whose room is gone for good, with nobody trying to enter, is ended even if
\* room_finished never arrives, unless the query of the reconciler is crowded with other
\* old sessions.
AbandonedSessionEnds ==
    <>[](~room /\ \A p \in People : join[p] = "idle" /\ p \notin recent) => <>~active

\* Between the end of the session and its tasks there is always a caller that has still to
\* run them: no other caller, no webhook and no failed call takes them from it.
TasksHaveOwner ==
    ~active => tasks = 1 \/ \E r \in Endings : ender[r] \in {"teardown", "tasks"}

\* Once the session has ended its post-meeting tasks run ("fire exactly once").
EndedRunsTasks == ~active ~> tasks = 1

=============================================================================
