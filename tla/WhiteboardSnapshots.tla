------------------------ MODULE WhiteboardSnapshots ------------------------
(***************************************************************************)
(* Where the drawing of one whiteboard is kept: in the SQLite file of its  *)
(* room on the sync server, in the archive of the web application (an R2   *)
(* object and its row), and, while it could not be pushed there, in a      *)
(* pending file beside the database.  The process may die between any two  *)
(* awaits; the files stay.                                                 *)
(*                                                                         *)
(* The content of a board is the set of the strokes it has.  The digest    *)
(* of a snapshot is awaited with its push, except at the end of the        *)
(* session, where it comes before the pending file is written.             *)
(***************************************************************************)
EXTENDS Naturals

CONSTANTS
    Strokes,     \* how many strokes are drawn
    NoBoard,     \* a file or an object that does not exist
    MaxVisits,   \* how often somebody comes back after the end, while tokens are good
    MaxFetching, \* how many connections prepare a room at the same time
    FaultChoices \* the sets of faults a behaviour may have

SnapshotFaults == {
    "push_fails",    \* a push fails without effect
    "response_lost", \* a push is applied, the sync server sees a failure
    "overtakes",     \* of two pushes under way the older one is applied last
    "crash",         \* the process dies or is asked to stop, and is started again
    "fetch_fails",   \* the archive cannot be read when a room is opened,
    "late_fetch_fails", \* ... when that is after the end of the session
    "disk_fails",    \* the pending file cannot be written
    "overlaps",      \* the pending file has two writers: a room is opened while the file is
                     \* flushed, or a session ends while a forced push is under way
    "returns",       \* somebody comes back while the push of an idle room is under way, and
                     \* has the room closed under her
    "notice_lost" }  \* the call of /session-end fails

ASSUME SnapshotAssumption ==
    /\ {Strokes, MaxVisits, MaxFetching} \subseteq Nat
    /\ \A b \in SUBSET (1..Strokes) : b # NoBoard
    /\ FaultChoices \subseteq SUBSET SnapshotFaults

Boards == SUBSET (1..Strokes)

\* Who pushes: a room (autosnapshot, idle clean-up, shutdown), the end of its session, and
\* the manager that flushes pending files.
Pushers == {"room", "final", "flush"}

VARIABLES
    faults,    \* what may go wrong in this behaviour
    over,      \* the meeting session has ended                     (web application)
    notice,    \* the call of /session-end                          (web application)
    visits,    \* how often somebody has come since the end
    archive,   \* the archived snapshot                             (web application)
    room,      \* the Room object: none, open, ending
    connected, \* it has sessions
    idle,      \* its cleanupTimer is running
    unlinked,  \* its database file was deleted under it: the file goes when it is closed
    pushed,    \* content it last pushed with success
    why,       \* what its push under way is for
    fetching,  \* connections that wait for the archived snapshot in prepareRoom
    db,        \* content of the room's database file
    drawn,     \* strokes drawn so far
    pending,   \* the pending file: content, and deleteRoomFilesOnSuccess
    push,      \* content of each push under way
    deletes,   \* deleteRoomFilesOnSuccess of the pending file being flushed
    final,     \* progress of endSession
    captured   \* history: the content endSession captured and wrote to the pending file

web == <<over, notice, visits>>
roomObject == <<room, connected, idle, unlinked, pushed>>
snVars == <<faults, web, archive, roomObject, why, fetching, db, drawn, pending, push, deletes,
            final, captured>>

NoFile == [board |-> NoBoard, delete |-> FALSE]

SnTypeOK ==
    /\ faults \in FaultChoices
    /\ over \in BOOLEAN /\ notice \in {"none", "sent", "done"} /\ visits \in 0..MaxVisits
    /\ room \in {"none", "open", "ending"}
    /\ connected \in BOOLEAN /\ idle \in BOOLEAN /\ unlinked \in BOOLEAN
    /\ fetching \in 0..MaxFetching
    /\ why \in {"auto", "idle", "shutdown", "orphan"} /\ deletes \in BOOLEAN
    /\ {archive, db, captured, pushed, pending.board} \subseteq {NoBoard} \cup Boards
    /\ pending.delete \in BOOLEAN /\ drawn \in 0..Strokes
    /\ push \in [Pushers -> {NoBoard} \cup Boards]
    /\ final \in {"none", "digest", "pushing", "archived", "failed"}

SnInit ==
    /\ faults \in FaultChoices
    /\ over = FALSE /\ notice = "none" /\ visits = 0 /\ archive = NoBoard
    /\ room = "none" /\ connected = FALSE /\ idle = FALSE /\ unlinked = FALSE
    /\ pushed = NoBoard
    /\ why = "auto" /\ fetching = 0
    /\ db = NoBoard /\ drawn = 0 /\ pending = NoFile
    /\ push = [p \in Pushers |-> NoBoard] /\ deletes = FALSE
    /\ final = "none" /\ captured = NoBoard

-----------------------------------------------------------------------------
(* Connections.                                                            *)

UnderWay(p) == push[p] # NoBoard

\* A variant of MayEnter: tokens are good for ever.
MayEnterForEver == visits' = IF over THEN visits + 1 ELSE visits

\* Who has a token may enter: while the session runs as a participant of it, and after its end
\* as the recorder, who is not asked, or when the web application cannot be asked.
MayEnter == /\ over => visits < MaxVisits
            /\ visits' = IF over THEN visits + 1 ELSE visits

\* When a room may be opened or joined without one of the faults.
Undisturbed ==
    /\ UnderWay("flush") => "overlaps" \in faults
    /\ UnderWay("room") /\ why = "idle" => "returns" \in faults

\* A variant of Enter: a new room starts empty.
EnterEmpty(initial) ==
    /\ room # "ending" /\ Undisturbed
    /\ room' = "open" /\ connected' = TRUE /\ idle' = FALSE /\ UNCHANGED unlinked
    /\ pushed' = IF room = "none" THEN NoBoard ELSE pushed
    /\ db' = IF db = NoBoard THEN {} ELSE db

\* getOrCreateRoom and handleConnect, with the snapshot the room starts from if it is new.
Enter(initial) ==
    /\ room # "ending" /\ Undisturbed
    /\ room' = "open" /\ connected' = TRUE /\ idle' = FALSE /\ UNCHANGED unlinked
    /\ pushed' = IF room = "none" THEN NoBoard ELSE pushed
    /\ db' = IF db = NoBoard THEN initial ELSE db

\* /connect when prepareRoom has nothing to fetch.
Connects ==
    /\ MayEnter /\ ~connected
    /\ room # "none" \/ db # NoBoard
    /\ Enter({})
    /\ UNCHANGED <<faults, over, notice, archive, why, fetching, drawn, pending, push, deletes,
                   final, captured>>

Prepares ==
    /\ MayEnter /\ fetching < MaxFetching
    /\ room = "none" /\ db = NoBoard
    /\ fetching' = fetching + 1
    /\ UNCHANGED <<faults, over, notice, archive, roomObject, why, db, drawn, pending, push,
                   deletes, final, captured>>

FetchMayFail == (IF over THEN "late_fetch_fails" ELSE "fetch_fails") \in faults

\* fetchPersistedSnapshot answers: the archive, nothing (204), or a failure taken for nothing.
\* Meanwhile another connection may have opened the room, or have seen it end.
Prepared ==
    /\ fetching > 0
    /\ fetching' = fetching - 1
    /\ IF room = "ending" THEN UNCHANGED <<roomObject, db>>
       ELSE \E initial \in {IF archive = NoBoard THEN {} ELSE archive}
                           \cup (IF FetchMayFail THEN {{}} ELSE {}) : Enter(initial)
    /\ UNCHANGED <<faults, web, archive, why, drawn, pending, push, deletes, final, captured>>

Draws ==
    /\ connected /\ room = "open" /\ drawn < Strokes
    /\ drawn' = drawn + 1
    /\ db' = db \cup {drawn + 1}
    /\ UNCHANGED <<faults, web, archive, roomObject, why, fetching, pending, push, deletes, final,
                   captured>>

\* handleDisconnect of the last session.
Leaves ==
    /\ connected
    /\ connected' = FALSE
    /\ idle' = (room = "open")
    /\ UNCHANGED <<faults, web, archive, room, unlinked, pushed, why, fetching, db, drawn, pending,
                   push, deletes, final, captured>>

-----------------------------------------------------------------------------
(* Pushes.                                                                 *)

InOrder(p) == "overtakes" \in faults \/ \A q \in Pushers : UnderWay(q) => push[p] \subseteq push[q]

\* handleSnapshot of the web application: what is archived, and what the sync server hears.
Answer(p, ok) ==
    /\ UnderWay(p) /\ InOrder(p)
    /\ push' = [push EXCEPT ![p] = NoBoard]
    /\ IF ok
       THEN archive' = push[p]
       ELSE \/ "push_fails" \in faults /\ UNCHANGED archive
            \/ "response_lost" \in faults /\ archive' = push[p]

\* persistPendingSnapshot: a write that fails is logged.
Persist(file) == \/ pending' = file
                 \/ "disk_fails" \in faults /\ UNCHANGED pending

\* clearPendingSnapshot(hash).
ClearPending(board) == pending' = IF pending.board = board THEN NoFile ELSE pending

\* close and onEmpty leave the file: nobody waits any longer for the requests under way.
Close(file) ==
    /\ room' = "none" /\ connected' = FALSE /\ idle' = FALSE /\ unlinked' = FALSE
    /\ why' = "orphan"
    /\ final' = "none"
    /\ db' = IF unlinked THEN NoBoard ELSE file

\* maybePushSnapshot: the autosnapshot skips what was pushed, the others are forced.  A push
\* times out long before a new room pushes, so the request of a closed one is waited for.
Pushes(reason) ==
    /\ push' = [push EXCEPT !["room"] = db]
    /\ why' = reason

Autosnapshot ==
    /\ room # "none" /\ connected /\ ~UnderWay("room") /\ pushed # db
    /\ Pushes("auto")
    /\ UNCHANGED <<faults, web, archive, roomObject, fetching, db, drawn, pending, deletes, final,
                   captured>>

\* The idle timer runs for 15 minutes without a session, so no autosnapshot is under way.
IdleFires ==
    /\ idle /\ room = "open" /\ ~UnderWay("room")
    /\ idle' = FALSE
    /\ Pushes("idle")
    /\ UNCHANGED <<faults, web, archive, room, connected, unlinked, pushed, fetching, db, drawn,
                   pending, deletes, final, captured>>

\* SIGTERM: closeAll pushes, unless a push is under way, and closes.
Shutdown ==
    /\ "crash" \in faults /\ room # "none" /\ final # "digest" /\ why \notin {"idle", "shutdown"}
    /\ IF UnderWay("room") THEN why = "auto" /\ Close(db) /\ UNCHANGED <<push, pushed>>
       ELSE Pushes("shutdown") /\ UNCHANGED <<roomObject, db, final>>
    /\ UNCHANGED <<faults, web, archive, fetching, drawn, pending, deletes, captured>>

\* maybePushSnapshot after its await, and what its caller does next: a forced push is
\* followed by the close of the room, whoever has come back meanwhile.
RoomAnswered(ok) ==
    /\ Answer("room", ok)
    /\ UNCHANGED <<faults, web, fetching, drawn, deletes, captured>>
    /\ CASE why = "orphan" -> UNCHANGED <<roomObject, why, db, pending, final>>
         [] why = "auto" ->
              /\ pushed' = IF ok THEN push["room"] ELSE pushed
              /\ IF ok THEN ClearPending(push["room"]) ELSE UNCHANGED pending
              /\ UNCHANGED <<room, connected, idle, unlinked, why, db, final>>
         [] OTHER ->
              /\ final # "digest"
              /\ IF ok THEN ClearPending(push["room"])
                 ELSE Persist([board |-> push["room"], delete |-> FALSE])
              /\ Close(db) /\ UNCHANGED pushed

-----------------------------------------------------------------------------
(* The end of the session.                                                 *)

MeetingEnds ==
    /\ ~over
    /\ over' = TRUE /\ notice' = "sent"
    /\ UNCHANGED <<faults, visits, archive, roomObject, why, fetching, db, drawn, pending, push,
                   deletes, final, captured>>

NoticeLost ==
    /\ "notice_lost" \in faults /\ notice = "sent"
    /\ notice' = "done"
    /\ UNCHANGED <<faults, over, visits, archive, roomObject, why, fetching, db, drawn, pending,
                   push, deletes, final, captured>>

\* handleSessionEnd and endSession, up to the digest of the final snapshot.
EndBegins ==
    /\ notice = "sent"
    /\ (UnderWay("room") /\ why \in {"idle", "shutdown"}) => "overlaps" \in faults
    /\ notice' = "done"
    /\ IF room = "open"
       THEN room' = "ending" /\ idle' = FALSE /\ final' = "digest"
       ELSE UNCHANGED <<room, idle, final>>
    /\ UNCHANGED <<faults, over, visits, archive, connected, unlinked, pushed, why, fetching, db,
                   drawn, pending, push, deletes, captured>>

\* A variant of EndCaptures: the pending file is left to a push that fails.
EndPushes ==
    /\ final = "digest"
    /\ final' = "pushing"
    /\ push' = [push EXCEPT !["final"] = db]
    /\ captured' = db
    /\ UNCHANGED <<faults, web, archive, roomObject, why, fetching, db, drawn, pending, deletes>>

\* persistPendingSnapshot, then the push.
EndCaptures ==
    /\ final = "digest"
    /\ final' = "pushing"
    /\ Persist([board |-> db, delete |-> TRUE])
    /\ push' = [push EXCEPT !["final"] = db]
    /\ captured' = db
    /\ UNCHANGED <<faults, web, archive, roomObject, why, fetching, db, drawn, deletes>>

FinalAnswered(ok) ==
    /\ Answer("final", ok)
    /\ final' = IF final # "pushing" THEN final ELSE IF ok THEN "archived" ELSE "failed"
    /\ UNCHANGED <<faults, web, roomObject, why, fetching, db, drawn, pending, deletes, captured>>

\* A variant of EndFinishes: the files go in any case.
EndDeletes ==
    /\ final \in {"archived", "failed"}
    /\ Close(NoBoard) /\ pending' = NoFile
    /\ UNCHANGED <<faults, web, archive, pushed, fetching, drawn, push, deletes, captured>>

\* Two seconds later: the files go once the snapshot is archived.
EndFinishes ==
    /\ final \in {"archived", "failed"}
    /\ IF final = "archived" THEN Close(NoBoard) /\ pending' = NoFile
                             ELSE Close(db) /\ UNCHANGED pending
    /\ UNCHANGED <<faults, web, archive, pushed, fetching, drawn, push, deletes, captured>>

-----------------------------------------------------------------------------
(* Pending files, old files, and the process.                              *)

FlushStarts ==
    /\ pending # NoFile /\ room = "none" /\ ~UnderWay("flush")
    /\ push' = [push EXCEPT !["flush"] = pending.board]
    /\ deletes' = pending.delete
    /\ UNCHANGED <<faults, web, archive, roomObject, why, fetching, db, drawn, pending, final,
                   captured>>

\* The file is deleted whatever it holds by now, and the database whoever has opened it.
FlushAnswered(ok) ==
    /\ Answer("flush", ok)
    /\ pending' = IF ok THEN NoFile ELSE pending
    /\ db' = IF ok /\ deletes /\ room = "none" THEN NoBoard ELSE db
    /\ unlinked' = (unlinked \/ (ok /\ deletes /\ room # "none"))
    /\ UNCHANGED <<faults, web, room, connected, idle, pushed, why, fetching, drawn, deletes, final,
                   captured>>

\* pruneStaleRoomFiles, a day after the last change: long after any request.
Prune ==
    /\ room = "none" /\ db # NoBoard /\ pending = NoFile
    /\ \A p \in Pushers : ~UnderWay(p)
    /\ db' = NoBoard
    /\ UNCHANGED <<faults, web, archive, roomObject, why, fetching, drawn, pending, push, deletes,
                   final, captured>>

\* The requests under way may have arrived.
Crash ==
    /\ "crash" \in faults
    /\ Close(db) /\ fetching' = 0 /\ deletes' = FALSE
    /\ archive' \in {archive} \cup {push[p] : p \in {q \in Pushers : UnderWay(q)}}
    /\ push' = [p \in Pushers |-> NoBoard]
    /\ UNCHANGED <<faults, web, pushed, drawn, pending, captured>>

SnNext ==
    \/ Connects \/ Prepares \/ Prepared \/ Draws \/ Leaves
    \/ Autosnapshot \/ IdleFires \/ Shutdown
    \/ MeetingEnds \/ NoticeLost \/ EndBegins \/ EndCaptures \/ EndFinishes
    \/ FlushStarts \/ Prune \/ Crash
    \/ \E ok \in BOOLEAN : RoomAnswered(ok) \/ FinalAnswered(ok) \/ FlushAnswered(ok)

\* Requests are answered or time out, timers fire, the manager flushes every hour; a push
\* that is tried again and again succeeds.
SnFairness ==
    /\ WF_snVars(\E ok \in BOOLEAN : RoomAnswered(ok)) /\ SF_snVars(RoomAnswered(TRUE))
    /\ WF_snVars(Autosnapshot) /\ WF_snVars(IdleFires)
    /\ WF_snVars(\E ok \in BOOLEAN : FinalAnswered(ok))
    /\ WF_snVars(\E ok \in BOOLEAN : FlushAnswered(ok)) /\ SF_snVars(FlushAnswered(TRUE))
    /\ WF_snVars(EndCaptures) /\ WF_snVars(EndFinishes)
    /\ WF_snVars(FlushStarts)

SnSpec == SnInit /\ [][SnNext]_snVars /\ SnFairness

-----------------------------------------------------------------------------
(* Properties.                                                             *)

Has(file, board) == NoBoard \notin {file, board} /\ board \subseteq file

\* No older push overtakes the final one, the pending file has one writer and can be written,
\* and who comes back after the end is shown the archive.
Orderly == faults \cap {"overtakes", "overlaps", "disk_fails", "late_fetch_fails"} = {}

\* What endSession captured is never nowhere: it is archived, or in the pending file that will
\* be flushed, whatever else fails and whenever the process dies.
CapturedSurvives ==
    Orderly /\ captured # NoBoard => Has(archive, captured) \/ Has(pending.board, captured)

\* A room that is opened again shows everything that was drawn, whether its file is still
\* there or was pruned, when pushes succeed and the process stays up.
BoardResumes ==
    [][(faults \subseteq {"notice_lost"} /\ room = "none" /\ room' = "open")
            => Has(db', 1..drawn)]_snVars

\* What was captured is archived in the end, through failed pushes and restarts.
CapturedIsArchived == (Orderly /\ captured # NoBoard) ~> Has(archive, captured)

\* Where the drawing is that was captured in an orderly behaviour.
Copies == {place \in {"database", "file", "archive"} :
              Orderly /\ Has(CASE place = "database" -> db
                               [] place = "file" -> pending.board
                               [] place = "archive" -> archive, captured)}

Custody == INSTANCE SnapshotCustody WITH
    Drawings <- Boards,
    board <- IF Orderly THEN captured ELSE NoBoard,
    copies <- Copies

\* From the capture on, neither the database nor the pending file goes before the archive has
\* the drawing, the archive never loses it again to an older push, and the drawing captured
\* stays the same: through failed pushes, lost answers, idle clean-up, shutdown and crashes.
CustodySpec == Custody!Spec

=============================================================================
