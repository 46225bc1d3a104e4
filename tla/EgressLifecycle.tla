-------------------------- MODULE EgressLifecycle --------------------------
(***************************************************************************)
(* Recording and live streaming of one meeting session.                    *)
(*                                                                         *)
(* The session row of D1 holds two columns, activeEgressId and             *)
(* activeStreamEgressId.  A toggle request claims its column with a        *)
(* "__starting__:<uuid>" sentinel, asks LiveKit to start an egress, waits  *)
(* until it is active, and swaps the sentinel for the egress id.  Every    *)
(* await of the request handler is a step here, because the handlers of    *)
(* other requests, the end of the session and LiveKit's own webhooks all   *)
(* run between two of them.                                                *)
(*                                                                         *)
(* A start request and the egress it launches share one name, so <<egress  *)
(* id of request r>> is r.                                                 *)
(***************************************************************************)
EXTENDS FiniteSets

CONSTANTS
    Starts,   \* start requests (toggleRecording / toggleStreaming, "start")
    Stops,    \* stop requests
    NoEgress, \* what a null column refers to
    Faults    \* the faults the environment may inject

FaultKinds == {
    "livekit_rejects",   \* a LiveKit call fails at once
    "start_times_out",   \* startRoomCompositeEgress times out, yet may launch later
    "egress_fails",      \* a running egress fails by itself
    "stop_fails",        \* stopEgress fails or times out, carried out or not
    "no_storage",        \* the deployment has no storage settings for recordings
    "completes_empty",   \* a recording completes without a file
    "response_lost",     \* D1 applies a write but its response is lost
    "db_down",           \* a D1 write fails for good, unapplied
    "worker_dies" }      \* the Worker invocation is cancelled between two awaits

ASSUME FaultsAssumption == Faults \subseteq FaultKinds
ASSUME NoEgressAssumption == NoEgress \notin Starts

Kinds == {"recording", "streaming"}

VARIABLES
    active,   \* meetingSessions.status = "active"
    column,   \* column["recording"] is activeEgressId, column["streaming"] activeStreamEgressId
    room,     \* the LiveKit room exists                               (external)
    egress,   \* state of each egress in LiveKit                       (external)
    mode,     \* egressMode of the LiveKit room metadata               (external)
    ended,    \* egress_ended webhooks not yet acknowledged            (external)
    kind,     \* what each start request starts
    start,    \* program counter of each start request
    stop,     \* program counter of each stop request
    target,   \* storedEgressId of each stop request
    hook,     \* program counter of the egress_ended handler of each egress
    ender,    \* program counter of endSession
    captured, \* egress ids finalizeSession read before its update
    closer    \* program counter of the room_finished handler

vars == <<active, column, room, egress, mode, ended, kind, start, stop, target,
          hook, ender, captured, closer>>
livekit == <<room, egress, ended>>
ending == <<ender, captured, closer>>

None == [stage |-> "none", of |-> NoEgress]
Sentinel(r) == [stage |-> "starting", of |-> r]
Live(e) == [stage |-> "live", of |-> e]

Running == {"starting", "active", "ending"}   \* ACTIVE_EGRESS_STATUSES
Finished == {"done", "failed"}
Launched(e) == egress[e] \notin {"none", "requested"}

TypeOK ==
    /\ active \in BOOLEAN
    /\ column \in [Kinds -> {None} \cup {Sentinel(r) : r \in Starts}
                                   \cup {Live(e) : e \in Starts}]
    /\ room \in BOOLEAN
    /\ egress \in [Starts -> {"none", "requested", "ended"} \cup Running]
    /\ mode \in Kinds \cup {"none"}
    /\ ended \in SUBSET Starts
    /\ kind \in [Starts -> Kinds]
    /\ start \in [Starts -> {"idle", "claimed", "list", "launch", "verify", "commit",
                             "metadata", "stop_all", "stop_one", "clear", "disown",
                             "catch"} \cup Finished]
    /\ stop \in [Stops -> {"idle", "stop", "clear", "metadata"} \cup Finished]
    /\ target \in [Stops -> [kind : Kinds, of : Starts \cup {NoEgress}]]
    /\ hook \in [Starts -> {"idle", "clear_streaming", "clear_recording", "metadata"}]
    /\ ender \in {"idle", "finalize", "teardown", "delete", "done"}
    /\ captured \in SUBSET Starts
    /\ closer \in {"idle", "notified", "finalize", "done"}

Init ==
    /\ active = TRUE
    /\ column = [k \in Kinds |-> None]
    /\ room = TRUE
    /\ egress = [r \in Starts |-> "none"]
    /\ mode = "none"
    /\ ended = {}
    /\ kind \in [Starts -> Kinds]
    /\ start = [r \in Starts |-> "idle"]
    /\ stop = [t \in Stops |-> "idle"]
    /\ target = [t \in Stops |-> [kind |-> "recording", of |-> NoEgress]]
    /\ hook = [e \in Starts |-> "idle"]
    /\ ender = "idle"
    /\ captured = {}
    /\ closer = "idle"

(***************************************************************************)
(* Effects shared by several handlers.                                     *)
(***************************************************************************)

\* stopEgress on every egress of E: a running one starts to end.
Stopped(E) ==
    [e \in Starts |-> IF e \in E /\ egress[e] \in Running THEN "ending" ELSE egress[e]]

\* (mutant) the column forgets its stage and keeps the id
ClearedHalf(k, v) == IF column[k] = v THEN [column EXCEPT ![k].stage = "none"] ELSE column

\* UPDATE ... SET column k = null WHERE column k = v
Cleared(k, v) == IF column[k] = v THEN [column EXCEPT ![k] = None] ELSE column

\* The conditional clear either runs (withD1Retry repeats a lost response, and
\* repeating it is harmless) or fails for good.
ClearColumn(k, v) ==
    \/ column' = Cleared(k, v)
    \/ "db_down" \in Faults /\ UNCHANGED column

\* Best-effort stops: those that fail are logged and ignored.
TryStop(E) ==
    \E done \in IF "stop_fails" \in Faults THEN SUBSET E ELSE {E} :
        egress' = Stopped(done)

StartGoes(r, pc) == start' = [start EXCEPT ![r] = pc]
StopGoes(t, pc) == stop' = [stop EXCEPT ![t] = pc]

(***************************************************************************)
(* toggleRecording / toggleStreaming with action "start".                  *)
(***************************************************************************)

\* (mutant) the claim looks at its own column only
ClaimOwnColumn(r) ==
    /\ start[r] = "idle"
    /\ active
    /\ column[kind[r]] = None
    /\ column' = [column EXCEPT ![kind[r]] = Sentinel(r)]
    /\ StartGoes(r, "claimed")
    /\ UNCHANGED <<active, livekit, mode, kind, stop, target, hook, ending>>

\* The handler's read repeats the guards of the conditional UPDATE that claims
\* the column, so read and claim are one step.  The claim is not retried: when
\* its response is lost the request fails and the sentinel stays behind.
Claim(r) ==
    /\ start[r] = "idle"
    /\ active
    /\ \A k \in Kinds : column[k] = None
    /\ column' = [column EXCEPT ![kind[r]] = Sentinel(r)]
    /\ \/ StartGoes(r, "claimed")
       \/ "response_lost" \in Faults /\ StartGoes(r, "failed")
    /\ UNCHANGED <<active, livekit, mode, kind, stop, target, hook, ending>>

\* startRecordingTask re-reads the row and gives up when it lost the claim.
TaskRead(r) ==
    /\ start[r] = "claimed"
    /\ StartGoes(r, IF active /\ column[kind[r]] = Sentinel(r) THEN "list" ELSE "failed")
    /\ UNCHANGED <<active, column, livekit, mode, kind, stop, target, hook, ending>>

\* (mutant) a missing room is an error of the request, which leaves without a clear
ListRoomsLeaves(r) ==
    /\ start[r] = "list"
    /\ \/ room /\ StartGoes(r, "launch")
       \/ ~room /\ StartGoes(r, "failed")
    /\ UNCHANGED <<active, column, livekit, mode, kind, stop, target, hook, ending>>

\* listRooms: an error escapes to the caller's catch block; a missing room, and for a
\* recording missing storage settings, clears the sentinel and fails.
ListRooms(r) ==
    /\ start[r] = "list"
    /\ \/ room /\ StartGoes(r, "launch")
       \/ ~room /\ StartGoes(r, "clear")
       \/ kind[r] = "recording" /\ "no_storage" \in Faults /\ StartGoes(r, "clear")
       \/ "livekit_rejects" \in Faults /\ StartGoes(r, "catch")
    /\ UNCHANGED <<active, column, livekit, mode, kind, stop, target, hook, ending>>

Launch(r) ==
    /\ start[r] = "launch"
    /\ \/ /\ room
          /\ egress' = [egress EXCEPT ![r] = "starting"]
          /\ StartGoes(r, "verify")
       \/ /\ ~room \/ "livekit_rejects" \in Faults
          /\ StartGoes(r, "stop_all")
          /\ UNCHANGED egress
       \/ /\ "start_times_out" \in Faults
          /\ egress' = [egress EXCEPT ![r] = "requested"]
          /\ StartGoes(r, "stop_all")
    /\ UNCHANGED <<active, column, room, ended, mode, kind, stop, target, hook, ending>>

\* (mutant) an error of the clean-up leaves the handler before the sentinel is cleared
StopAllThrows(r) ==
    /\ start[r] = "stop_all"
    /\ TryStop(Starts)
    /\ StartGoes(r, "failed")
    /\ UNCHANGED <<active, column, room, ended, mode, kind, stop, target, hook, ending>>

\* stopActiveRoomEgresses: whatever runs in the room is stopped, best effort.
StopAll(r) ==
    /\ start[r] = "stop_all"
    /\ \/ TryStop(Starts)
       \/ "livekit_rejects" \in Faults /\ UNCHANGED egress
    /\ StartGoes(r, "clear")
    /\ UNCHANGED <<active, column, room, ended, mode, kind, stop, target, hook, ending>>

\* (mutant) an egress that is still starting is left alone at the deadline
VerifyLeavesRunning(r) ==
    /\ start[r] = "verify"
    /\ StartGoes(r, IF egress[r] = "active" THEN "commit" ELSE "clear")
    /\ UNCHANGED <<active, column, livekit, mode, kind, stop, target, hook, ending>>

\* waitForEgressStartup: active means success; a failed or vanished egress, a
\* listing error or the 30 s deadline mean failure, and then an egress that
\* last looked running is stopped.
Verify(r) ==
    /\ start[r] = "verify"
    /\ \/ egress[r] = "active" /\ StartGoes(r, "commit")
       \/ egress[r] \notin Running /\ StartGoes(r, "clear")
       \/ /\ egress[r] # "active" \/ kind[r] = "streaming"   \* no output by the deadline
          /\ StartGoes(r, "stop_one")
       \/ "livekit_rejects" \in Faults /\ StartGoes(r, "stop_one")
    /\ UNCHANGED <<active, column, livekit, mode, kind, stop, target, hook, ending>>

StopOne(r) ==
    /\ start[r] = "stop_one"
    /\ TryStop({r})
    /\ StartGoes(r, "clear")
    /\ UNCHANGED <<active, column, room, ended, mode, kind, stop, target, hook, ending>>

\* clearStartingState, and the clear in the caller's catch block.
ClearSentinel(r) ==
    /\ start[r] \in {"clear", "catch"}
    /\ ClearColumn(kind[r], Sentinel(r))
    /\ StartGoes(r, "failed")
    /\ UNCHANGED <<active, livekit, mode, kind, stop, target, hook, ending>>

\* (mutant) the commit does not ask whether the sentinel is still there
CommitUnconditional(r) ==
    /\ start[r] = "commit"
    /\ column' = [column EXCEPT ![kind[r]] = Live(r)]
    /\ StartGoes(r, "metadata")
    /\ UNCHANGED <<active, livekit, mode, kind, stop, target, hook, ending>>

\* commitStartedEgress: UPDATE ... SET column = id WHERE column = sentinel,
\* inside withD1Retry.  When the response of an applied update is lost, the
\* retry changes no row and the caller believes it lost the claim.
Commit(r) ==
    LET owned == column[kind[r]] = Sentinel(r)
        committed == [column EXCEPT ![kind[r]] = Live(r)]
    IN
    /\ start[r] = "commit"
    /\ \/ owned /\ column' = committed /\ StartGoes(r, "metadata")
       \/ ~owned /\ StartGoes(r, "disown") /\ UNCHANGED column
       \/ owned /\ "response_lost" \in Faults /\ column' = committed /\ StartGoes(r, "disown")
       \/ "db_down" \in Faults /\ StartGoes(r, "catch") /\ UNCHANGED column
    /\ UNCHANGED <<active, livekit, mode, kind, stop, target, hook, ending>>

\* The egress of a lost claim is stopped, best effort.
Disown(r) ==
    /\ start[r] = "disown"
    /\ TryStop({r})
    /\ StartGoes(r, "failed")
    /\ UNCHANGED <<active, column, room, ended, mode, kind, stop, target, hook, ending>>

\* updateRoomMetadata: best effort, and void without a room.
Announce(m) ==
    \/ room /\ mode' = m
    \/ (~room \/ "livekit_rejects" \in Faults) /\ UNCHANGED mode

StartMetadata(r) ==
    /\ start[r] = "metadata"
    /\ Announce(kind[r])
    /\ StartGoes(r, "done")
    /\ UNCHANGED <<active, column, livekit, kind, stop, target, hook, ending>>

(***************************************************************************)
(* toggleRecording / toggleStreaming with action "stop".                   *)
(***************************************************************************)

StopRead(t) ==
    /\ stop[t] = "idle"
    /\ active
    /\ \E k \in Kinds :
        /\ column[k].stage = "live"
        /\ target' = [target EXCEPT ![t] = [kind |-> k, of |-> column[k].of]]
    /\ StopGoes(t, "stop")
    /\ UNCHANGED <<active, column, livekit, mode, kind, start, hook, ending>>

\* (mutant) every error of stopEgress counts as "stopped already"
StopCallForgives(t) ==
    /\ stop[t] = "stop"
    /\ TryStop({target[t].of})
    /\ StopGoes(t, "clear")
    /\ UNCHANGED <<active, column, room, ended, mode, kind, start, target, hook, ending>>

\* A missing egress counts as stopped; any other error fails the request, and a call
\* that timed out may have been carried out all the same.
StopCall(t) ==
    /\ stop[t] = "stop"
    /\ \/ egress' = Stopped({target[t].of}) /\ StopGoes(t, "clear")
       \/ "stop_fails" \in Faults /\ StopGoes(t, "failed") /\ TryStop({target[t].of})
    /\ UNCHANGED <<active, column, room, ended, mode, kind, start, target, hook, ending>>

StopClear(t) ==
    /\ stop[t] = "clear"
    /\ \/ column' = Cleared(target[t].kind, Live(target[t].of)) /\ StopGoes(t, "metadata")
       \/ "db_down" \in Faults /\ StopGoes(t, "failed") /\ UNCHANGED column
    /\ UNCHANGED <<active, livekit, mode, kind, start, target, hook, ending>>

StopMetadata(t) ==
    /\ stop[t] = "metadata"
    /\ Announce("none")
    /\ StopGoes(t, "done")
    /\ UNCHANGED <<active, column, livekit, kind, start, target, hook, ending>>

(***************************************************************************)
(* The egress_ended webhook, delivered at least once and in any order.     *)
(***************************************************************************)

HookGoes(e, pc) == hook' = [hook EXCEPT ![e] = pc]

\* The stream column is looked up by id; every other egress is a recording, or a stream
\* that was stopped.  One that completed without a file is taken for such a stream, and
\* no column is cleared.  Without its session row the webhook is answered at once.
HookRead(e) ==
    LET streams == column["streaming"] = Live(e) IN
    /\ e \in ended
    /\ hook[e] = "idle"
    /\ \/ streams /\ HookGoes(e, "clear_streaming") /\ UNCHANGED ended
       \/ ~streams /\ HookGoes(e, "clear_recording") /\ UNCHANGED ended
       \/ /\ ~streams
          /\ kind[e] = "streaming" \/ "completes_empty" \in Faults
          /\ HookGoes(e, "metadata")
          /\ UNCHANGED ended
       \/ ~active /\ ended' = ended \ {e} /\ UNCHANGED hook
    /\ UNCHANGED <<active, column, room, egress, mode, kind, start, stop, target, ending>>

HookClear(e) ==
    /\ \/ hook[e] = "clear_streaming" /\ ClearColumn("streaming", Live(e))
       \/ hook[e] = "clear_recording" /\ ClearColumn("recording", Live(e))
    /\ HookGoes(e, "metadata")
    /\ UNCHANGED <<active, livekit, mode, kind, start, stop, target, ending>>

\* clearEgressMetadata and the 200; when that answer is lost LiveKit redelivers.
HookMetadata(e) ==
    /\ hook[e] = "metadata"
    /\ Announce("none")
    /\ HookGoes(e, "idle")
    /\ \/ ended' = ended \ {e}
       \/ "response_lost" \in Faults /\ UNCHANGED ended
    /\ UNCHANGED <<active, column, room, egress, kind, start, stop, target, ending>>

(***************************************************************************)
(* The end of the session.  endSession runs for "End for everyone" and the *)
(* other forced ends: finalizeSession, then tearDownLiveKitRoom.           *)
(***************************************************************************)

Tracked == {column[k].of : k \in {j \in Kinds : column[j].stage = "live"}}

\* finalizeMeetingsEnd: one conditional UPDATE ends the session and clears both
\* columns.
EndRow ==
    /\ active' = FALSE
    /\ column' = [k \in Kinds |-> None]

EndRead ==
    /\ ender = "idle"
    /\ active
    /\ captured' = Tracked
    /\ ender' = "finalize"
    /\ UNCHANGED <<active, column, livekit, mode, kind, start, stop, target, hook, closer>>

\* A finalizer that changed no row leaves the teardown to whoever did; so does
\* one whose applied update lost its response.
EndFinalize ==
    /\ ender = "finalize"
    /\ \/ active /\ EndRow /\ ender' = "teardown"
       \/ ~active /\ ender' = "done" /\ UNCHANGED <<active, column>>
       \/ active /\ "response_lost" \in Faults /\ EndRow /\ ender' = "done"
    /\ UNCHANGED <<livekit, mode, kind, start, stop, target, hook, captured, closer>>

\* Stop every running egress of the room; when they cannot be listed, those
\* that finalizeSession had read.
EndTeardown ==
    /\ ender = "teardown"
    /\ \/ TryStop(Starts)
       \/ "livekit_rejects" \in Faults /\ TryStop(captured)
    /\ ender' = "delete"
    /\ UNCHANGED <<active, column, room, ended, mode, kind, start, stop, target, hook,
                   captured, closer>>

CloseRoom ==
    /\ room' = FALSE
    /\ mode' = "none"
    /\ closer' = IF room THEN "notified" ELSE closer

EndDelete ==
    /\ ender = "delete"
    /\ \/ CloseRoom
       \/ "livekit_rejects" \in Faults /\ UNCHANGED <<room, mode, closer>>
    /\ ender' = "done"
    /\ UNCHANGED <<active, column, egress, ended, kind, start, stop, target, hook, captured>>

\* room_finished: the handler stops the tracked egresses, skipping sentinels,
\* and then finalizes the session.
CloserStop ==
    /\ closer = "notified"
    /\ TryStop(Tracked)
    /\ closer' = "finalize"
    /\ UNCHANGED <<active, column, room, ended, mode, kind, start, stop, target, hook,
                   ender, captured>>

CloserFinalize ==
    /\ closer = "finalize"
    /\ closer' = "done"
    /\ \/ active /\ EndRow
       \/ (~active \/ "db_down" \in Faults) /\ UNCHANGED <<active, column>>
    /\ UNCHANGED <<livekit, mode, kind, start, stop, target, hook, ender, captured>>

(***************************************************************************)
(* A Worker invocation dies between two awaits.  The request of a user is  *)
(* lost with it; LiveKit redelivers a webhook that was not answered.       *)
(***************************************************************************)

StartDies(r) ==
    /\ start[r] \notin Finished \cup {"idle"}
    /\ StartGoes(r, "failed")
    /\ UNCHANGED <<stop, hook, ender, closer>>

StopDies(t) ==
    /\ stop[t] \notin Finished \cup {"idle"}
    /\ StopGoes(t, "failed")
    /\ UNCHANGED <<start, hook, ender, closer>>

HookDies(e) ==
    /\ hook[e] # "idle"
    /\ HookGoes(e, "idle")
    /\ UNCHANGED <<start, stop, ender, closer>>

EndDies ==
    /\ ender \notin {"idle", "done"}
    /\ ender' = "done"
    /\ UNCHANGED <<start, stop, hook, closer>>

CloserDies ==
    /\ closer = "finalize"
    /\ closer' = "notified"
    /\ UNCHANGED <<start, stop, hook, ender>>

WorkerDies ==
    /\ "worker_dies" \in Faults
    /\ \/ \E r \in Starts : StartDies(r) \/ HookDies(r)
       \/ \E t \in Stops : StopDies(t)
       \/ EndDies \/ CloserDies
    /\ UNCHANGED <<active, column, livekit, mode, kind, target, captured>>

(***************************************************************************)
(* LiveKit, an external service.                                           *)
(***************************************************************************)

EgressMoves(r, from, to) ==
    /\ egress[r] = from
    /\ egress' = [egress EXCEPT ![r] = to]
    /\ ended' = IF to = "ended" THEN ended \cup {r} ELSE ended
    /\ UNCHANGED <<active, column, room, mode, kind, start, stop, target, hook, ending>>

EgressActivates(r) == room /\ EgressMoves(r, "starting", "active")
EgressEnds(r) == EgressMoves(r, "ending", "ended")

\* A start whose caller has timed out is carried out late, or not at all.
LateLaunch(r) ==
    \/ room /\ EgressMoves(r, "requested", "starting")
    \/ EgressMoves(r, "requested", "none")

EgressFails(r) ==
    /\ "egress_fails" \in Faults \/ ~room
    /\ \E s \in {"starting", "active"} : EgressMoves(r, s, "ended")

\* departure_timeout has elapsed with nobody back.
RoomFinishes ==
    /\ room
    /\ CloseRoom
    /\ UNCHANGED <<active, column, egress, ended, kind, start, stop, target, hook,
                   ender, captured>>

-----------------------------------------------------------------------------

StartStep(r) ==
    \/ TaskRead(r) \/ ListRooms(r) \/ Launch(r) \/ StopAll(r) \/ Verify(r)
    \/ StopOne(r) \/ ClearSentinel(r) \/ Commit(r) \/ Disown(r) \/ StartMetadata(r)
StopStep(t) == StopCall(t) \/ StopClear(t) \/ StopMetadata(t)
HookStep(e) == HookRead(e) \/ HookClear(e) \/ HookMetadata(e)
EndStep == EndFinalize \/ EndTeardown \/ EndDelete
CloserStep == CloserStop \/ CloserFinalize

Next ==
    \/ \E r \in Starts :
        \/ Claim(r) \/ StartStep(r) \/ HookStep(r)
        \/ EgressActivates(r) \/ EgressEnds(r) \/ LateLaunch(r) \/ EgressFails(r)
    \/ \E t \in Stops : StopRead(t) \/ StopStep(t)
    \/ EndRead \/ EndStep \/ CloserStep \/ WorkerDies \/ RoomFinishes

Spec == Init /\ [][Next]_vars

\* A running Worker invocation keeps taking its next step.  Nothing is assumed
\* of the users, who need not press anything, nor of LiveKit.
Fairness ==
    /\ \A r \in Starts : WF_vars(StartStep(r)) /\ WF_vars(HookStep(r))
    /\ \A t \in Stops : WF_vars(StopStep(t))
    /\ WF_vars(EndStep)
    /\ WF_vars(CloserStep)

FairSpec == Spec /\ Fairness

-----------------------------------------------------------------------------

\* Recording and streaming exclude each other ("Cannot stream while recording is
\* active"): whatever the interleaving of toggles, webhooks and session end, at most
\* one of the two columns is in use.
OneEgressMode == \E k \in Kinds : column[k] = None

\* An ended session refers to no egress and to no start in progress (the schema's
\* meeting_sessions_ended_egress_cleared_check): no late commit, clear or webhook of a
\* request that was under way when the session ended puts one back.
EndedSessionTracksNothing == active \/ \A k \in Kinds : column[k] = None

\* What the host sees is what LiveKit does: while the session is active, an egress drops
\* out of its column, by a stop request, by its webhook or by the clear of any failed
\* start, only when it does not run any more.  A stop that failed, a webhook that is late
\* or repeated and a start that gives up never hide a recording that goes on.
TrackedUntilStopped ==
    [][\A k \in Kinds, e \in Starts :
          column[k] = Live(e) /\ column'[k] # Live(e) /\ active'
              => egress[e] \notin {"starting", "active"}]_vars

\* stopActiveRoomEgresses stops whatever runs in the room, so a failed start must never
\* get there while a column tracks the running egress of another request.
NoCollateralStop ==
    [][\A r \in Starts : start[r] = "stop_all" /\ start[r] # start'[r] =>
            \A e \in Tracked : egress'[e] = egress[e]]_vars

\* Running and with nobody left to look after it but its column.
LeftRunning(r) == room /\ start[r] \in Finished /\ egress[r] \in {"starting", "active"}

\* While the session is active a start request that is over leaves no egress running
\* unseen, whether LiveKit rejects calls, an egress fails or a commit response is lost:
\* whoever does not see its commit succeed stops the egress.
NoOrphanWhileActive ==
    active => \A r \in Starts : LeftRunning(r) => column[kind[r]] = Live(r)

\* A sentinel is temporary: every start request that knows it holds the claim commits
\* it or gives it up, so that "Recording is already starting" does not block the host for
\* good.  (A request whose claim was applied but not acknowledged does not know.)
SentinelResolves ==
    \A r \in Starts :
        start[r] = "claimed" /\ column[kind[r]] = Sentinel(r) ~> column[kind[r]] # Sentinel(r)

\* Whatever fails on the way, a start request that knows of its claim does not end before
\* its sentinel is out of the column: what is left of SentinelResolves without the time.
SentinelGivenUp ==
    [][\A r \in Starts :
          column[kind[r]] = Sentinel(r) /\ start[r] \notin Finished /\ start'[r] \in Finished
              => column'[kind[r]] # Sentinel(r)]_vars

\* The columns of the row behave as one slot that is reserved, confirmed and released.
Slot == INSTANCE EgressSlot WITH
    Requests <- Starts,
    open <- active,
    slot <- IF column["recording"] # None THEN column["recording"] ELSE column["streaming"],
    spent <- {r \in Starts : start[r] # "idle"}

\* The two columns implement the abstract slot: a request holds the slot at most once,
\* and no step after the end of the session, or after a release, brings it back.
SlotSpec == Slot!Spec

(***************************************************************************)
(* What a test of the code says, and the code does not keep.               *)
(***************************************************************************)

AllRequestsOver ==
    /\ \A r \in Starts : start[r] \in Finished \cup {"idle"} /\ hook[r] = "idle"
    /\ \A t \in Stops : stop[t] \in Finished \cup {"idle"}
    /\ ended = {}

\* "clears active stream egress state when a stream egress ends": once every request
\* and webhook has been handled, no column tracks an egress that has ended.
EndedEgressNotTracked ==
    AllRequestsOver => \A e \in Tracked : egress[e] # "ended"

=============================================================================
