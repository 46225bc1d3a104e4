# OSSMeet in TLA+

OSSMeet is a meeting service: a TanStack Start application on Cloudflare Workers
(`src/apps/web`, with D1 and R2 behind it), and a VPS that runs LiveKit, LiveKit Egress and
a whiteboard sync server (`src/packages/whiteboard`, `src/infra/vps`). D1 has no
transactions that span a request: a handler is a chain of awaits, and between two of them
run the handlers of other requests, LiveKit's webhooks and the cron job. What keeps the
system right is conditional updates ("compare and swap" on a status or a sentinel),
retries that may repeat an applied update, best-effort clean-up, and webhooks that may come
late, twice or never. That is what these modules model: one action per await.

## Inventory

| component | state | operations | hard behaviours |
|---|---|---|---|
| recording and streaming (`server/meetings/recording*.ts`, `streaming*.ts`, `egress-startup.server.ts`) | `activeEgressId`, `activeStreamEgressId` of the session row; LiveKit's egresses and room metadata | toggle on and off, `egress_ended` | claim races, lost responses, late launches, the session ending half-way |
| session life (`join.ts`, `tokens.ts`, `leave-end*.ts`, `finalize.ts`, `session-finalizer.ts`, `stale-sessions.ts`, `routes/api/livekit/-webhook.server.ts`) | status of the session, presence rows, approved admissions; LiveKit's room, tokens, outstanding webhooks | join, refresh, leave, joined/left webhooks, four endings, post-meeting tasks | reordered webhooks, four racing endings, joins against the end, lost `room_finished` |
| host succession (`leave-end.server.ts`, `host-reclaim.server.ts`) | role of each presence row, LiveKit grants, role in tokens | promote on departure, reclaim on return, refresh | stale reads of roles, several acting hosts |
| waiting room (`admission.ts`, `waiting-room.ts`) | admission status, `locked` | admit, deny, expire, approve all | four deciders of one admission |
| rooms and creation (`crud.ts`) | rooms, sessions | create with a cap on concurrent meetings, reopen | cap and code collisions |
| cleanup (`server/cleanup.ts`) | rows and R2 objects past their time | cron every 5 minutes and daily | read-then-delete |
| recording registration (webhook, `assets/register.ts`, `cleanup.ts`) | artifacts, R2 objects, stored bytes | register, delete over quota, reconcile | redelivery, quota race |
| auth sessions (`server/auth/helpers.ts`) | token hash, previous hash, rotation version | resolve, rotate, cap | concurrent rotation |
| login, signup, passkeys, OAuth (`server/auth`) | verification codes, challenges | one-time consumption | double use |
| spaces (`server/spaces`) | members, roles, invites | add, remove, leave, accept | use counter, eviction from live meetings |
| transcripts and notes (`server/transcripts`, `lib/meeting/use-transcript-buffer.ts`) | unsaved segments in the browser, transcripts, notes | buffer, save in chunks, generate | failed and repeated batches, a flush that meets another, leaving |
| uploads and quota (`upload.ts`, `upload-reservations.ts`) | reservations, stored bytes | reserve, register | check-then-act |
| whiteboard room (`packages/whiteboard/src/room-manager.ts`) | editors, acting manager, timers, snapshots | connect, promote, grant, end, push | departure timer, double preparation, pending snapshots |
| billing (`routes/api/billing/webhook.ts`) | plan, subscription timestamp | apply event | out-of-order events |
| raised hands (`lib/meeting/use-livekit-hand-raises.ts`) | the host's queue, each browser's copy | raise, lower, approve, dismiss, broadcast | reordered messages, people who leave |
| screen share, dashboard, other client hooks, UI, schema, shared limits, infrastructure | - | - | not modelled (one LiveKit call, reads, one browser, rendering, declarations, configuration) |

How they interact: a browser calls server functions; these read and write D1 and call
LiveKit; LiveKit answers with webhooks that write D1 again; the cron job repairs what
webhooks missed; the whiteboard server is told of promotions and of the end of a session
and pushes snapshots back. The session row is the shared state of the first four parts.

## Plan

1. `EgressSlot`, `EgressLifecycle`, `EgressProofs` (done): the two egress columns.
2. `SessionEnding`, `MeetingSession`, `SessionProofs` (done): life and end of a session. Open: the
   death of the Worker in a left webhook, whose redelivery finds the person back and leaves the
   row that the first delivery marked.
3. `AdmissionDecision`, `HostSuccession`, `SuccessionProofs` (done): promotion, reclaim, stale
   roles, the deciders of an admission. Open: whether the waiting are eventually decided.
4. `WhiteboardRoom`, `WhiteboardProofs`; `SnapshotCustody`, `WhiteboardSnapshots` (done): roles, and
   where the drawing is kept.
5. `SessionRotation`, `OneTimeCodes`, `Billing`, `HandRaises`, all proved about in `ServicesProofs`
   (done): what a browser and what an address signs in with, plans, raised hands.
6. `Recordings`, `Transcripts`, and with `WhiteboardSnapshots` their proofs in `ArchiveProofs` (done):
   what is kept of a meeting.
7. `RoomLifecycle`, `RoomProofs`; `SpaceInvites`, `UploadQuota`, `LimitsProofs` (done): what is created,
   and what may be used up.

Open: an abstract specification of what the recordings and the transcripts promise, refined by their
modules as the first three parts and the drawing refine theirs.

Composition: `MeetingSession` and `EgressLifecycle` share the session row; each holds the
other's part as an environment step (the end of the session in `EgressLifecycle` is one of
the endings of `MeetingSession`). A composed model of both is possible and, for the
properties at hand, says nothing more: no egress property depends on presence rows. The
components of plan items 4 to 7 share no state with each other that a property is about. They are checked
together all the same, in `MCServices` and `MCArchives`: the initial states choose one component (`part`),
which alone moves in that behaviour. `ServicesFollow` and `PartsFollow` prove that each component keeps its own specification
in there, and `ServicesKeep` and `ArchivesKeep` that it keeps its properties, so what is proved of a component holds of what TLC checks. This is not a composition and shows nothing about interactions; it
spares a run for each.

## The modules

### EgressSlot and EgressLifecycle

`EgressSlot` is what the two columns promise: one slot, reserved, confirmed, released, and
closed for good by the end of the session. `EgressLifecycle` is the code.

| code | model |
|---|---|
| `activeEgressId`, `activeStreamEgressId` | `column["recording"]`, `column["streaming"]`: `None`, `Sentinel(r)`, `Live(e)` |
| `toggleRecording`/`toggleStreaming` "start" and their tasks | `start[r]`: `Claim`, `TaskRead`, `ListRooms`, `Launch`, `StopAll`, `Verify`, `StopOne`, `ClearSentinel`, `Commit`, `Disown`, `StartMetadata` |
| "stop" | `stop[t]`: `StopRead`, `StopCall`, `StopClear`, `StopMetadata` |
| `egress_ended` | `hook[e]`: `HookRead`, `HookClear`, `HookMetadata`, redelivered when unanswered |
| `endSession` | `ender`: `EndRead`, `EndFinalize`, `EndTeardown`, `EndDelete` |
| `room_finished` | `closer`: `CloserStop`, `CloserFinalize` |
| LiveKit | `room`, `egress`, `mode` (metadata), `ended` (webhooks): `EgressActivates`, `EgressEnds`, `LateLaunch`, `EgressFails`, `RoomFinishes` |

A start request and its egress share a name, which stands for the fresh uuid and egress id: that the id in a
column is the one LiveKit returned is therefore not a question the model can ask, and no property asks it.
The recording and streaming paths have the same control flow, so `kind[r]` selects the
column; what differs (streaming checks for output before it believes an active egress)
is a disjunct of `Verify`.

### SessionEnding and MeetingSession

`SessionEnding` says that a session ends once and its tasks run at most once, after the end.
`MeetingSession` has one participation per member of `People` (admission, presence row,
LiveKit identity), its join or refresh request (`join[p]`), its leave request (`leave[p]`),
the two webhooks of each of its connections (`joined`, `left[<<p, n>>]`), and one process
per ending (`ender[r]`): `"host"` and `"system"` are `endSession`, `"natural"` is
`room_finished`, `"stale"` is the reconciler. Time is two flags: `young` (the session is
within the grace period of the reconciler) and `recent` (rows within theirs). The reconciler's query returns 50 old
sessions in no order (`stale-sessions.ts:195`); the fault `crowded` says that there are more, so that a run of it need not see this one.

### AdmissionDecision and HostSuccession

`AdmissionDecision` is what the waiting room promises: an admission goes from nothing to
waiting or approved, from waiting to approved or denied, and stays there; only the approved
get a presence row. `HostSuccession` is who runs a meeting, and who lets people in.

| code | model |
|---|---|
| `meetingAdmissions.admissionStatus` and its age | `adm[m]`, `old`; `Ages` |
| `meetingLivekitPresences.presenceStatus`, `role` | `row[p]`, `role[m]` (the rows of the host's own devices are always "host") |
| `admitParticipant`, `denyParticipant`, `listPendingAdmissions` | `deciding[m]`: `DecideRead`, `DecideWrite`; `ListPending` |
| `joinMeeting` of the host, with `reclaimRoomHostIfReturning` | `entry[h]`: `HostReturns`, `HostReclaims`, `Enter` |
| `joinMeeting` of a member, `refreshMeetingToken` | `entry[m]`, the role read: `JoinFirst` and, when its answer is lost, `JoinRetries` (the upsert of `ensureMeetingAdmission` and its repetition), `JoinAgain`, `RefreshRead`, `Enter` |
| `participant_joined` | `joined`: `HandleJoined` |
| `executeLeaveMeeting` (departure `<<p, 0>>`) | `at[d]`: `LeaveRead`, `LeaveMark`, then the election (the endpoint) or nothing (the beacon) |
| `participant_left` (departure `<<p, n>>` of the n-th connection) | `at[d]`: `LeftCheck`, `LeftMark`, `LeftRecheck`, `LeftRestore`, then the election |
| `maybePromoteSuccessorHost` | `ElectHost`, `ElectSelect`, `ElectWrite`, `ElectPush`, `ElectRollback`, or `ElectOpen` |
| LiveKit | `inRoom`, `conns`, `leaving`: `Connects`, `Disconnects` |

The election reads the host's row, selects, writes and calls LiveKit in separate awaits, and
several departures hold elections at once. The code takes the candidate who connected first;
the model takes any, which allows more behaviours. `seated` is a history variable: the
members connected without a break since a host's departure was last recorded. It is emptied
by what the code itself does to the result of an election (a reclaim, a refresh with a stale
role, a rollback) and by departures that hold none; the proviso of `NoHeadlessMeeting` is
read from it, and no action's guard mentions it.

### WhiteboardRoom, SnapshotCustody and WhiteboardSnapshots

`WhiteboardRoom` is one `Room` of the sync server and the people connected to it. Node runs a handler to its
end, so a handler is one action; sockets close, timers fire and handlers run in any order.

| code | model |
|---|---|
| sessions of the room, their sockets and `isReadonly` | `socket`, `writable`: `Connect`, `Drops`, `Closed` |
| `canvasEditorUserIds`, `actingManagerId` (persisted) | `editors`, `acting` |
| `scheduleCanvasAccessReconnect` and its timer of 200 ms | `reconnecting`: `Scheduled`, `Reconnects` |
| `pendingEditorRequests`, grant, deny, revoke, promote | `requests`: `RequestPends`, `RequestAlready`, `RequestApproved`, `Grant`, `Deny`, `Revoke`, `Promote` |
| `navigationControllerUserId` | `controller`: `SetController`, `ReleaseController` |
| `handleHostDeparture` | `departure`: `GraceElapses`, with `PromoteNext` |
| the constructor, after a restart | `Reopens` |

It assumes that tldraw reports a session it removes at once (`onSessionRemoved` inside
`handleSocketClose`), as the comment at `room-manager.ts:502` has it.

`WhiteboardSnapshots` follows the content of one board through the room's database file, its pushes
(`push["room"]`, `push["final"]`, `push["flush"]`), the pending file, and the archive of the web
application. Content is the set of strokes.

| code | model |
|---|---|
| `/connect` (`index.ts`), `getOrCreateRoom`, `handleConnect` | `MayEnter`, `Connects` |
| `prepareRoom`: a room opens from its file or from the archive | `Prepares`, `Prepared`; `fetching` counts the connections that wait for the archive |
| autosnapshot, idle timer, `closeAll` | `Autosnapshot`, `IdleFires`, `Shutdown`, `RoomAnswered` |
| `endSession` and `/session-end` | `MeetingEnds`, `EndBegins`, `EndCaptures`, `FinalAnswered`, `EndFinishes`, `NoticeLost` |
| `flushPendingSnapshots`, `pruneStaleRoomFiles`, restart | `FlushStarts`, `FlushAnswered`, `Prune`, `Crash` |

After the end of a session people still come: the recorder is not asked (`index.ts:167`), and a token is good by itself when the
web application cannot be asked (`:326`). `visits` counts them,
with those who were let in before the end and arrive after it, and `MayEnter` lets them in whatever room or file they find, also into a room
whose files the flush is about to delete; `unlinked` is the database file that was deleted under an open room, which goes when the room is closed.

`SnapshotCustody` is what is promised of the drawing that the end of a meeting has captured: it is first kept at the sync server, in
the room's database and the pending file; neither goes before the archive has it, the archive keeps it, the database comes
back only from the archive, and the drawing itself does not change. `Custody` maps `captured` to its `board`, and `Copies` names the places whose
content has every captured stroke. It speaks of orderly behaviours (`Orderly`: none of `overtakes`, `overlaps`, `disk_fails`,
`late_fetch_fails`); in the others the code keeps no such promise, see the findings.

### SessionRotation and OneTimeCodes

`SessionRotation` is one login session: its row with token, previous token and version, the browser's
cookie, and request slots that are used again and again. `resolveSession` is `Resolve`, then `Rotate`
(the conditional update; its answer may be lost), `NotRotated` or `Extend`, then `Delivered`. A refresh makes the session last for weeks
(`NearExpiry` comes when every request under way was sent since the last rotation, `Recent`), but never past its absolute expiry (`helpers.ts:462`): from
`LastWindow` on, which comes whatever is under way, a rotated session is due again at once (`near' = last`), and every request with the newest
token rotates. Two rotations within the lifetime of one request then take its token out of the row. `Overtaken` names exactly
these requests; `NoSpuriousLogout` and `LogoutEnds` except them, and nothing else. `OneTimeCodes` is the verification row of one address: `Ask` issues, `ResendReads`
and `ResendWrites` replace the code and carry the attempts over, `TryReads`, `TryCounts`, `TryConsumes` try one.

### Recordings, UploadQuota, Transcripts

`Recordings` is one file in R2 and its row, between overlapping deliveries of `egress_ended`
(`HookFinds`, `HookMeasures`, `HookDeletes`, `HookRegisters`), the daily reconciliation (`CronLists`, `CronCompares`,
`CronRegisters`; `CronMisses` when its listing stops at the page cap before the object, it fails at once or is not triggered, `CronBreaks` when it fails later) and the retention (`RetentionSelects`, `RetentionReads`, `RetentionDrops`, `RetentionRemoves`); any step may fail. The reconciliation looks back 48 hours
(`cleanup.ts:339`), which is `Runs` runs of it; after them `Ages` takes the object out of its sight, registered or not. `UploadQuota` is
`getWhiteboardUploadUrl`: `Measure`, `Reserve`, then `Sign` or `Refuse`. `Transcripts` is the buffer of one speaker's
browser (`Speaks`, `FlushBegins`, `FlushQueues`, `BatchSaved`, `BatchFailed`, `AnswerLost`), the leave handler and the closing of the tab
(`LeaveBegins`, `Departs`, `PageCloses`), and `saveTranscriptSegments` with its inserts of one chunk each (`SaveFinds`, `SaveInserts`); a save the browser has
given up goes on at the server. `refused` is a history variable: what was given to a save that found no connected presence row.

### RoomLifecycle, SpaceInvites, Billing, HandRaises

`RoomLifecycle` has the rooms of one host: creation under the limit of the plan (one conditional batch, `Inserts`),
reopening (`ReopenReads`, `ReopenInserts`), and the two clean-ups that delete rooms, statement by statement. `SpaceInvites` has
joins through one invite (`JoinReads`, `JoinInserts`) beside additions and removals. `Billing` has one user's
events, each read and written by its handler (`Finds`, `Writes`, `Fails`), in any order and again. `HandRaises` has the
host's queue of raised hands and what each member's browser shows, with messages that arrive in any order.

### Faults

Each module takes a set `Faults` of what the environment may do, so that a property is
checked, or proved, under exactly the faults the code answers: `livekit_rejects`,
`start_times_out`, `stop_fails`, `egress_fails`, `no_storage` and `completes_empty` (a deployment without storage, a recording
without a file: webhooks that clear nothing), `response_lost` (D1 applied the update,
its response is lost, `withD1Retry` repeats it: a conditional update changes 0 rows, an upsert writes again), `db_down`,
`worker_dies`, `issue_fails`, `webhook_lost`, `crowded`. In `HostSuccession` webhooks are delivered until
they are answered, and whoever calls the leave endpoint does go away: what happens when they
do not is in `MeetingSession`. `WhiteboardSnapshots` has its own
set, chosen at the start of a behaviour (`FaultChoices`): `push_fails`, `response_lost`, `overtakes`, `crash`,
`fetch_fails`, `late_fetch_fails` (the same after the end of the session), `disk_fails`, `overlaps`, `returns`, `notice_lost`. In the other modules of items 5 to 7 failures and lost answers are
always on; three choices at the start of a behaviour mark what is assumed away in a property: `slow` (a request outlasts its reservation),
`edge` (a room expires while a request that has read it is under way), `full` (the host is over quota).

## Runs

| run | shows | faults |
|---|---|---|
| `egress_faults` | type, `OneEgressMode`, `TrackedUntilStopped` (no egress drops out of its column while it runs), `NoCollateralStop`, refinement of `EgressSlot` (which has it that an ended session tracks nothing) | all |
| `egress_recovery` | `NoOrphanWhileActive`; `SentinelGivenUp`, and under fairness `SentinelResolves` | egress failures, rejected calls, no storage, recordings without a file, lost responses |
| `session_faults` | type, refinement of `SessionEnding` (which has it that the tasks run at most once) | all |
| `session_presence` | `InRoomIsConnected`, `RefusedJoinLeavesNothing`, `SweptBeforeToken` | failing token creation |
| `session_liveness` | `TasksHaveOwner`; `AbandonedSessionEnds`, `EndedRunsTasks` under fairness, as long as the reconciler's query holds all old sessions | lost `room_finished` |
| `egress_ended_tracked` | violated: an egress that ended before its commit stays tracked | egress failures |
| `session_lost_tasks` | violated: a lost response of the ending update drops the tasks | lost responses |
| `succession_departures` | `NoHeadlessMeeting`: a departure of the host leaves nobody who stays without a host | all |
| `succession_waiting` | type, refinement of `AdmissionDecision` | all but `response_lost` |
| `succession_acting_stays` | violated: an election finishes after the host is back, and its winner stays acting host | none |
| `services` | types; `WritersMatchGrants`, `ControllerIsHere` (whiteboard); `NoSpuriousLogout`, `LogoutEnds` (login session); `CodeUsedOnce`, `GuessesBounded` (codes); `InviteLimitKept`; `QuotaKept`; `CapacityKept`, `LiveRoomStays` (rooms); `NewestEventStands` (billing); `QueueAgrees` (raised hands) | lost answers, repeated requests |
| `archives` | types; refinement of `SnapshotCustody`, `BoardResumes`, `CapturedIsArchived` (drawing); `RowHasObject`, `OneRunSuffices` (recording); `SpeechKept`, `SpeechIsSaved` (transcript) | by behaviour, see below |

**Bounds.** Two start requests are the smallest number that can race, and each may be of
either kind (`kind` is chosen in `Init`); one stop request and one end of the session are added
in `egress_faults`. `SYMMETRY` over the requests is sound because no property or action names one. A third
start adds only a later turn of the same race: the invariants are proved for any number.
In `MeetingSession`, one person suffices for its properties, because people meet only in
the ending of the session; two connections (`Conns`) are what reordering a joined and a left
webhook takes, and again the theorems hold for any number of both. Each start or stop request runs once,
a person joins again any number of times, connects `Conns` times, and a session ends once.
In `HostSuccession`, joins and connections are bounded for each person (`MaxJoins`,
`MaxConns`), and `Leavers` says who may use the leave endpoint. `succession_departures` has a host
and the two members it takes for one to be promoted and leave while the other stays; each
connects once, the host may leave by the endpoint as well, so that two elections of one
departure overlap. (With a host who connects twice and no use of the endpoint, `MaxConns <- HostTwice`
and `Leavers = {}`, the invariant holds as well; the 7.2 million states take too long for a
run of every day.) `succession_waiting` has one member (admissions do not depend on each other) who
joins and connects twice, in a session with or without approval; the host joins and does not connect, so
that no connected host calls an election off. `succession_acting_stays` lets the host connect
twice. The theorems hold for any number of people, joins and connections.
In `services`: a host and a guest of the whiteboard connect once and a member twice (one user with two
connections is what `reconnecting` and the limit of connections are about), and a host, who is not shown the button, does not ask for access; three requests rotate a session, one more than can hold its two
tokens; two requests try codes while one asks for another, and two attempts are allowed; three people and three requests meet an invite of
no, one or two uses; four uploads share room for two; two rooms, two requests to create and one to reopen meet a limit of one
meeting, with three sessions in all; five events of two subscriptions, the first of which is canceled late; two members and three gestures for raised hands. In
`archives`: three strokes, two deliveries, and two segments in batches of two with two requests and chunks of one row, so that a batch can fail half-way
and be repeated while its first request still runs. (Three segments, which leave one waiting behind a full batch, pass as well, but the temporal
part then takes minutes.) The drawing has one visitor after the end (`MaxVisits`; the invariants pass with two), two connections that prepare a room at the same time
(`MaxFetching`), and four choices of faults: the four that lose a captured snapshot; all the others; the lost notice alone; none.
The daily reconciliation runs twice in the 48 hours it looks back (`Runs`).
The theorems hold for any of these numbers.

`CHECK_DEADLOCK FALSE` in the egress and session runs, in `services` and in `archives`: they may come to rest when all requests
are over. The succession runs keep the check.

**Fairness.** Weak fairness is given only to steps something really drives: the next step of
a Worker invocation that is running, the passing of time (`Matures`, `Ages`), the delivery of
webhooks, and the cron job that comes back every five minutes. Users and LiveKit's egress
service owe nothing. A lost webhook is a step of its own that competes with its delivery. The reconciler of old sessions owes a session its turn only while its query
holds all of them: with `crowded` in `Faults` its listing has no fairness.
In `archives`: pushes are answered or time out, the end of a session goes on, the autosnapshot and the idle timer of a room fire, the hourly flush comes
back, the buffer's timer fires. Strong fairness, "what is tried again and again succeeds some time", is given to the push of a pending file, to
the pushes of a room, and to each statement of a transcript save: the hourly flush, the autosnapshot and the timer of the buffer repeat without end. The daily reconciliation has no fairness;
it has two runs, either of which may fail, and `OneRunSuffices` says what one of them achieves.

## Proofs

`EgressProofs` (for any set of requests, every fault unless stated):

* `Typing`, `ModesExclude`, `EndedIsClear` are conjuncts of one inductive
  invariant, proved in `SlotInvariance`. On its own "one column is in use" is not
  inductive: a commit writes the column of its request without looking at the other one. The
  invariant adds that a sentinel belongs to a request that has begun, that a request past
  `verify` has launched its egress, and that an id in a column belongs to a request of that
  column's kind that is past its commit.
* `NoCollateral`: a failed start stops every egress of the room, and that hits no tracked one. `ClaimInv`
  says why: from its claim until it commits or gives up, a request holds its sentinel, unless the session has
  ended; and with a sentinel in one column (`ModesExclude`), or after the end (`EndedIsClear`), nothing is tracked.
* `ImplementsSlot`: every step is a step of `EgressSlot` or leaves the slot alone. It needs the
  same invariant, so that the slot expression reads the column that is in use.
* `HostSeesRunning`: `TrackedUntilStopped`, under every fault. The three who clear a column, a stop request, a webhook and a start that gives up,
  do so several awaits after they looked: the first two clear by the id of an egress that had stopped by then and never starts again,
  and the last clears its own sentinel, which is no other request's egress.
* `NoOrphans`: `NoOrphanWhileActive`, assuming none of `start_times_out`, `stop_fails`, `db_down`, `worker_dies`.
  Each of these breaks it in the code too: a late launch, a
  stop that fails, a failed commit and a dead Worker all leave an egress behind.
* `SentinelsGivenUp`: `SentinelGivenUp`, assuming neither `db_down` nor `worker_dies`, each of which leaves the sentinel where it
  is in the code too. It is the part of `SentinelResolves` that needs no time: no path of a start request, however it fails, ends
  with its sentinel in the column. `OnlyClaimWrites` says that no other step writes a sentinel, `PastCommit` that a request past its commit has
  none, so that the one step that ends a request with a sentinel is the clear.

`SessionProofs`:

* `SessionTyping`; `TasksOnce` and `ImplementsEnding` from an invariant that counts: `tasks`
  plus the endings in `teardown` or `tasks` is at most one, and is zero while the session is active (stated
  without cardinalities: any two such endings are equal, and none exists once the tasks ran).
* `TasksOwned`: `TasksHaveOwner`, assuming neither `response_lost` (the run `session_lost_tasks` shows what it does) nor
  `worker_dies`. It is the part of `EndedRunsTasks` that needs no time; with `EndingInv` there is exactly one owner.
* `RefusalsLeaveNothing`, assuming no `db_down`: a trace (row or admission) of a
  person without a token belongs to a join that is still under way.
* `PresenceAgrees`, assuming neither `livekit_rejects` nor `db_down`: whoever is in the room
  while their row says otherwise has a joined webhook or a left handler that will repair it; at
  most the last connection of a person can be the present one.
* `SweptFirst`, under every fault: a fresh join that gets its token after the end was swept by that end. Not inductive
  by itself: between its upsert and its token the row may be rewritten. `SweptInv` adds that webhooks and
  connections, the only ones to mark a row connected, belong to people who have had a token, which a fresh join has not;
  so its row is the one its upsert wrote, or what the end or a leave made of it.

`WhiteboardProofs` (any users, connections and limit): `WritersMatch` and `ControllerHere`, from one
invariant that says nothing but their two statements, the types and that a writable session has connected. The argument is that every
change of `editors` or `acting` schedules the closing of exactly the sessions it concerns; the lemmas `GrantsChange`, `SessionsEnd` and
`PromotionCloses` say what a step must keep, and each action is shown to be one of the two.

`RoomProofs` (any rooms, requests and limit): `LiveRooms` needs that what either clean-up is about to delete is not active
and that a reopening request has a room that has not expired; `Capacity` needs the finite cardinality of the active set.

`ServicesProofs`:

* `NobodyTurnedAway` and `LogoutHolds` (any number of requests and rotations). Inductive is not "the token of every request is in
  the row", because a rotation forgets the previous token: `TokensAgree` adds that, before the last window, between the moment at which the session is due and the
  rotation every request carries the cookie, so the token that is forgotten is nobody's. In the last window that fails, and what is left is that a
  request whose token is not in the row is two rotations behind (`Overtaken`); the cookie is good in either case.
* `CodeOnce` and `FewGuesses` (any number of codes, requests and attempts). The invariant numbers codes and
  ids: a code that has signed in has left the row, and whoever still holds its id finds nothing to consume.
* `BillingNewest` (any events): the user is as new as every event that was taken, and has the plan that an event of just that time gives.
  It is inductive as it stands, because of the condition on the timestamp in the update; without it the read before the await would decide.
* `QueuesAgree` (any members and gestures): that the newest queue is under way to everybody who is not shown it is not
  inductive, because an update with the newest number could carry another queue; `HandInv` adds that a queue numbered like the
  host's is the host's, on its way and where it is shown. `BroadcastKeeps` is the one step that raises, lowers, answers and departures share.
* `ServicesFollow`: every component keeps its own specification in `MCServices`; `ServicesKeep` and `ServiceTypes` bring together there what
  is proved of each. The type of the raised hands includes that nobody is in the queue twice; a member is removed from it at a position that exists
  (`QueueWithout`), added at its end only when absent (`QueueAppends`).

`LimitsProofs`: `InviteLimit` (any people, requests and limits), `Quota` (any number of uploads). The last counts
what each granted upload saw: every other one was stored when it measured or reserved when it summed up.

`ArchiveProofs` (any faults; any number of deliveries, of segments, requests and sizes of batches and chunks, of strokes):

* `RowsHaveObjects`: whoever deletes the object is over quota or has removed the session first, and a session that is gone
  is given no row. The invariant follows this through the program points of the deliveries and of the retention.
* `NetHolds`: `OneRunSuffices`, for any number of runs. The invariant counts: as long as
  the recording is there without a row, every run so far has missed it, but the one that may be under way and has it listed.
* `SpeechIsKept`: the buffer, the batch in flight and what each request at the server still has to insert are runs of consecutive
  segments (`Until`), and what precedes such a run is saved or refused. `SpeechKept` says this of the buffer alone; but the
  requests the browser has given up go on at the server, and one of them could leave a hole behind if its own rest were not such a
  run. The lemmas `Cut` and `Joined` say what taking a batch and putting it back do to a run, for sequences of any length.
* `CapturedIsSafe`: once a snapshot is captured, no file is written without it (`KeptInv`), whoever comes back: a late visitor finds the
  room's file, which has it, or no file, and then the archive, which has it because the files go only after it has (`Archived`: also no older push
  is under way there). That needs to know when a room may be
  there at all and who deletes files (`RoomInv`, `EndInv`, `FileInv`), and holds unless an older push overtakes the
  final one, the pending file has two writers or cannot be written, or a late visitor cannot be shown the archive. The proof showed that the board's own database
  file, which the property first named as a third place, is not needed: the property now says that what was captured is archived or pending.
* `ImplementsCustody`: in orderly behaviours every step is a step of `SnapshotCustody` or leaves the captured drawing where it is, for any number of late visitors. That the archive never
  loses it (`HeldInv`) is not inductive by itself: an archive that already has the drawing when it is captured could be replaced by a push
  of the room that is still under way with less. `FreshInv` excludes it: what was drawn since the room began its push is in its database
  only, so an archive that has all of the database leaves no push with less behind. That in turn needs to know that no file holds what
  was not drawn (`WrittenInv`).
* `BoardsResume`: without these faults every file and every push that is not empty has all that was drawn (`ResumeInv`).
* `ArchiveTypes`, `PartsFollow` and `ArchivesKeep` as above.

`SuccessionProofs` (for any number of devices and members, any bounds, every fault unless stated):

* `Typing`, and `AdmittedInvariance`: whoever has a presence row, or a join or refresh on its way to
  one, is approved. That the row implies the approval is not inductive by itself, because
  `Enter` writes a row several awaits after the admission was read; the invariant follows the
  request in between, and holds because an approval is final.
* `AdmissionRefinement`: every step is a step of `AdmissionDecision` or changes neither
  admissions nor the set of rows, assuming no `response_lost`: the repeated upsert of a first join resets a decision, see the findings. The lemma `StepDecides` shows this for each action; the
  conditional update of `DecideWrite` is what keeps a late decision from replacing an earlier one.
* `MeetingIsLed`: `NoHeadlessMeeting`, for any number of members, connections and overlapping elections. A departure of
  the host is followed by an election; but the member it picks may be leaving when the role is written, and then it is her
  departure that has to elect the next. `Led` says that a leader is there or that these chains come to something: every set of
  departures that holds the leaders', and with an election about to write also those of whom it picked, holds one that still
  has its election before it or has picked somebody who is there. Each step advances one departure, drops one whose person is back, writes a role
  or rests (`AdvanceLeads`, `DropLeads`, `WriteLeads`, `RestLeads`), and the lemmas say that each keeps `Led`.
  The attempt to prove the first form of the property, in which the acting host was marked connected, failed for a reason: a Worker that dies between
  its mark and its second look at the room has its webhook redelivered; by then the acting host is back, the redelivery finds her in
  the room and stops, and her row stays "disconnected" until her own joined webhook is handled, which may have come before the
  mark. The property therefore asks for an acting host who is in the room or marked connected.

Only model-checked: liveness (`SentinelResolves`, `AbandonedSessionEnds`, `EndedRunsTasks`, `CapturedIsArchived`,
`SpeechIsSaved`), which is out of the prover's reach (as are ENABLED and induction over data). Of the first and the
third what needs no time is proved (`SentinelsGivenUp`, `TasksOwned`).
Every other property of a passing run is proved. `EndedSessionTracksNothing`, `TasksAtMostOnce` and `CapturedSurvives` are proved and
no longer run on their own, because the refinement that a run checks implies them.

## What is left out of the modelled parts

* Who may call a handler (host checks, plan limits, rate limits): properties here are about
  interleavings of calls that were allowed.
* The contents of tokens and metadata beyond what a property tells apart.
* Duplicate delivery of joined and left webhooks; that of `egress_ended` and `room_finished` is in.
* In `MeetingSession`, the death of the Worker in a join or a leave; it is in for egress
  requests, endings and, in `HostSuccession`, for joins, leaves and webhooks.
* In `HostSuccession`, the end of the session, the permissions LiveKit holds for a participant, the
  meeting lock, soft capacity and the `participant_left` of a connection whose `participant_joined` is lost.
* A request timeout inside `withD1Retry` other than the loss of the response.
* In `WhiteboardRoom`, the time to live of grants, rate limits and message validation; in `WhiteboardSnapshots`, tldraw's
  merge of concurrent strokes and the byte budget of archives.
* Passkeys, OAuth, account deletion, AI notes, screen share: each is a guarded statement or two around a foreign call.
* In `HandRaises`, a change of host, late joiners and the limit of ten messages a second.

## Findings

The three violated runs are disagreements between the code and its comments or tests; each
quotes the line in `PROJECT.json`: `egress_ended_tracked`, `session_lost_tasks` and
`succession_acting_stays`, all of them defects.

What else came up while modelling, without a run of its own. A property that would be violated
has a proviso instead, named in its comment, or is not stated:

* Egress: the comment that `room_finished` may skip a sentinel because no egress is behind it (`-webhook.server.ts:228`) claims
  more than the code knows; the late webhook of an old stream clears the room metadata of the new one (`:301`).
* Session: a Worker that dies in `participant_left` between marking the row and looking at the room again leaves the row of
  somebody who is back marked as disconnected; the redelivered webhook finds her in the room and does nothing (`-webhook.server.ts:149`).
* Session: the reconciler's query takes 50 old sessions in no order (`stale-sessions.ts:195`); with more of them that are still alive, an abandoned one
  need never be among them.
* Waiting room: `ensureMeetingAdmission` is an upsert inside `withD1Retry` (`runtime-projection.ts:27`). When the answer to the insert of a first join is lost, the
  repetition sets the status again (`:63`), and somebody the host has admitted or denied in between is awaiting approval once more. With all of
  `FaultKinds` in `succession_waiting.cfg`, TLC finds `AdmissionSpec` violated by `JoinFirst`, `DecideWrite`, `JoinRetries`.
* Whiteboard: somebody who enters after the end, whom the code lets in when it cannot ask, or the recorder, gets an empty room when the archive cannot be
  fetched (`room-manager.ts:1484` takes a failure for nothing), and its push replaces the archive; a pending file that cannot be written is only logged (`:247`), so a
  failing final push then loses the drawing; a flush that succeeds deletes the files of a room that was opened meanwhile.
* Whiteboard: the pending file of a failed idle push is not cleared by a later successful push of other content, and its flush then replaces
  a newer archive; the flush deletes the pending file whatever it holds by then (`room-manager.ts:1560`); a forced push under way at the end of the session
  overwrites the final pending file when it fails (`:342`), and an autosnapshot can overtake the final push; the idle timer does not look again for people who
  came back during its push (`:668`); an acting manager who is promoted loses the role by her own access reconnect; after a restart an absent acting
  manager is not replaced.
* Codes: a code that is sent again inherits the attempts of the one before, so after five wrong tries "Please request a new code." (`signup.ts:71`)
  does not help until the row expires; a signup whose email could not be sent blocks the next one for ten minutes.
* Invites: a lost answer to the last use is repeated and told "used up" although the person is a member; the second
  delete of a removal also removes somebody who rejoined meanwhile; a meeting join that read the membership before the removal enters after the eviction.
* Rooms: a reopened permanent room does not count towards the limit of simultaneous meetings; a creation whose answer is lost leaves an
  active session nobody knows. What protects a live room from the clean-up is that its expiry was renewed, not the check at `cleanup.ts:291`: without it `LiveRoomStays` still holds, and
  with it a room that expires just after a request has read it is deleted with its new session.
* Recordings: an over-quota delivery deletes the object although the reconciliation or another delivery has registered it
  since its check (`-webhook.server.ts:366`); the reconciliation registers without a quota check. It lists 5,000 objects in the order of their keys and looks back 48
  hours (`cleanup.ts:339`, `:346`): in a larger bucket a recording behind the cap is missed by both runs and has no row for good.
* Login sessions: of a request that lost the race for the rotation a comment says that its token still resolves through the previous one (`helpers.ts:502`). In the last window
  before the absolute expiry it need not: the next token rotates with its first request, and the row forgets the one before. A parallel request with
  that token is then answered as not signed in, and a logout with it deletes nothing (`Overtaken`); the cookie itself stays good.
* Login sessions: only the holder of the current token rotates; given that the row remembers the token of the request that rotated,
  the previous one might as well. What `NoSpuriousLogout` rests on is the version in the condition of the update.
* Billing: a cancellation that arrives before the creation is dropped, and so is an event that changes the plan and is older than a
  scheduled cancellation; an update that fails after the answer 200 is lost.
* Transcripts: a save that finds no connected row answers `saved: 0` without an error (`save-client.ts:208`) and the browser drops the batch; the leave
  handler does not wait for a flush that is under way (`use-transcript-buffer.ts:68`), so the tail may be refused that way.
* Raised hands: a new host, or one who reloads, numbers from 1 and is ignored (`use-livekit-hand-raises.ts:63`); a raise after an
  approval is dropped without an answer (`:245`); somebody whose raise is handled after her departure stays in the queue.
