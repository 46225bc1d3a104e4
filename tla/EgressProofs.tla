--------------------------- MODULE EgressProofs ---------------------------
(***************************************************************************)
(* Proofs about EgressLifecycle, for any number of start and stop requests *)
(* and any set of faults.                                                  *)
(***************************************************************************)
EXTENDS EgressLifecycle, TLAPS

\* The type of every variable is kept: the columns hold null, a sentinel or an egress
\* id, and every handler stays on one of its program points.
THEOREM Typing == Spec => []TypeOK
<1>1. Init => TypeOK
  BY DEF Init, TypeOK, Kinds, Running, Finished, None
<1>2. TypeOK /\ [Next]_vars => TypeOK'
  <2> SUFFICES ASSUME TypeOK, [Next]_vars PROVE TypeOK'
    OBVIOUS
  <2> USE DEF TypeOK, Kinds, Running, Finished, None, Sentinel, Live, livekit, ending,
              StartGoes, StopGoes
  <2>1. ASSUME NEW r \in Starts, Claim(r) PROVE TypeOK'
    BY <2>1 DEF Claim
  <2>2. ASSUME NEW r \in Starts, TaskRead(r) PROVE TypeOK'
    BY <2>2 DEF TaskRead
  <2>3. ASSUME NEW r \in Starts, ListRooms(r) PROVE TypeOK'
    BY <2>3 DEF ListRooms
  <2>4. ASSUME NEW r \in Starts, Launch(r) PROVE TypeOK'
    BY <2>4 DEF Launch
  <2>5. ASSUME NEW r \in Starts, StopAll(r) PROVE TypeOK'
    BY <2>5 DEF StopAll, TryStop, Stopped
  <2>6. ASSUME NEW r \in Starts, Verify(r) PROVE TypeOK'
    BY <2>6 DEF Verify
  <2>7. ASSUME NEW r \in Starts, StopOne(r) PROVE TypeOK'
    BY <2>7 DEF StopOne, TryStop, Stopped
  <2>8. ASSUME NEW r \in Starts, ClearSentinel(r) PROVE TypeOK'
    BY <2>8 DEF ClearSentinel, ClearColumn, Cleared
  <2>9. ASSUME NEW r \in Starts, Commit(r) PROVE TypeOK'
    BY <2>9 DEF Commit
  <2>10. ASSUME NEW r \in Starts, Disown(r) PROVE TypeOK'
    BY <2>10 DEF Disown, TryStop, Stopped
  <2>11. ASSUME NEW r \in Starts, StartMetadata(r) PROVE TypeOK'
    BY <2>11 DEF StartMetadata, Announce
  <2>12. ASSUME NEW t \in Stops, StopRead(t) PROVE TypeOK'
    BY <2>12 DEF StopRead
  <2>13. ASSUME NEW t \in Stops, StopCall(t) PROVE TypeOK'
    BY <2>13 DEF StopCall, TryStop, Stopped
  <2>14. ASSUME NEW t \in Stops, StopClear(t) PROVE TypeOK'
    BY <2>14 DEF StopClear, Cleared
  <2>15. ASSUME NEW t \in Stops, StopMetadata(t) PROVE TypeOK'
    BY <2>15 DEF StopMetadata, Announce
  <2>16. ASSUME NEW e \in Starts, HookRead(e) PROVE TypeOK'
    BY <2>16 DEF HookRead, HookGoes
  <2>17. ASSUME NEW e \in Starts, HookClear(e) PROVE TypeOK'
    BY <2>17 DEF HookClear, HookGoes, ClearColumn, Cleared
  <2>18. ASSUME NEW e \in Starts, HookMetadata(e) PROVE TypeOK'
    BY <2>18 DEF HookMetadata, HookGoes, Announce
  <2>19. CASE EndRead
    BY <2>19 DEF EndRead, Tracked
  <2>20. CASE EndFinalize
    <3>1. CASE EndRow
      BY <2>20, <3>1 DEF EndFinalize, EndRow
    <3>2. CASE UNCHANGED <<active, column>>
      BY <2>20, <3>2 DEF EndFinalize
    <3> QED
      BY <2>20, <3>1, <3>2 DEF EndFinalize
  <2>21. CASE EndTeardown
    BY <2>21 DEF EndTeardown, TryStop, Stopped
  <2>22. CASE EndDelete
    BY <2>22 DEF EndDelete, CloseRoom
  <2>23. CASE CloserStop
    BY <2>23 DEF CloserStop, TryStop, Stopped
  <2>24. CASE CloserFinalize
    BY <2>24 DEF CloserFinalize, EndRow
  <2>25. CASE WorkerDies
    BY <2>25 DEF WorkerDies, StartDies, StopDies, HookDies, HookGoes, EndDies, CloserDies
  <2>26. ASSUME NEW r \in Starts,
                EgressActivates(r) \/ EgressEnds(r) \/ LateLaunch(r) \/ EgressFails(r)
         PROVE  TypeOK'
    BY <2>26 DEF EgressActivates, EgressEnds, LateLaunch, EgressFails, EgressMoves
  <2>27. CASE RoomFinishes
    BY <2>27 DEF RoomFinishes, CloseRoom
  <2>28. CASE UNCHANGED vars
    BY <2>28 DEF vars
  <2> QED
    BY <2>1, <2>2, <2>3, <2>4, <2>5, <2>6, <2>7, <2>8, <2>9, <2>10, <2>11, <2>12, <2>13,
       <2>14, <2>15, <2>16, <2>17, <2>18, <2>19, <2>20, <2>21, <2>22, <2>23, <2>24, <2>25,
       <2>26, <2>27, <2>28
       DEF Next, StartStep, StopStep, HookStep, EndStep, CloserStep
<1> QED
  BY <1>1, <1>2, PTL DEF Spec


\* A column names an egress that LiveKit launched for a start of that column's kind.
TrackedWasLaunched ==
    \A k \in Kinds, e \in Starts : column[k] = Live(e) => kind[e] = k /\ Launched(e)

\* A column that is in use belongs to a request of its kind that has begun, and the
\* egress it names was launched.
SlotInv ==
    /\ OneEgressMode
    /\ EndedSessionTracksNothing
    /\ TrackedWasLaunched
    /\ \A k \in Kinds, r \in Starts :
        /\ column[k] = Sentinel(r) => kind[r] = k /\ start[r] # "idle"
        /\ column[k] = Live(r) => start[r] \in {"disown", "metadata", "done", "failed"}
    /\ \A r \in Starts : start[r] = "commit" => Launched(r)

\* SlotInv is kept by every step of the requests, the webhooks, the end of the session
\* and LiveKit.
LEMMA SlotInvariance == Spec => []SlotInv
<1>1. Init => SlotInv
  BY DEF Init, SlotInv, OneEgressMode, EndedSessionTracksNothing, TrackedWasLaunched,
         Kinds, None, Sentinel, Live
<1>2. TypeOK /\ SlotInv /\ [Next]_vars => SlotInv'
  <2> SUFFICES ASSUME TypeOK, SlotInv, [Next]_vars PROVE SlotInv'
    OBVIOUS
  <2> USE DEF TypeOK, SlotInv, OneEgressMode, EndedSessionTracksNothing,
              TrackedWasLaunched, Launched, Kinds, Running, Finished, None, Sentinel, Live,
              livekit, ending, StartGoes, StopGoes
  <2>1. ASSUME NEW r \in Starts, Claim(r) PROVE SlotInv'
    BY <2>1 DEF Claim
  <2>2. ASSUME NEW r \in Starts, TaskRead(r) PROVE SlotInv'
    BY <2>2 DEF TaskRead
  <2>3. ASSUME NEW r \in Starts, ListRooms(r) PROVE SlotInv'
    BY <2>3 DEF ListRooms
  <2>4. ASSUME NEW r \in Starts, Launch(r) PROVE SlotInv'
    BY <2>4 DEF Launch
  <2>5. ASSUME NEW r \in Starts, StopAll(r) PROVE SlotInv'
    BY <2>5 DEF StopAll, TryStop, Stopped
  <2>6. ASSUME NEW r \in Starts, Verify(r) PROVE SlotInv'
    BY <2>6 DEF Verify
  <2>7. ASSUME NEW r \in Starts, StopOne(r) PROVE SlotInv'
    BY <2>7 DEF StopOne, TryStop, Stopped
  <2>8. ASSUME NEW r \in Starts, ClearSentinel(r) PROVE SlotInv'
    BY <2>8 DEF ClearSentinel, ClearColumn, Cleared
  <2>9. ASSUME NEW r \in Starts, Commit(r) PROVE SlotInv'
    BY <2>9 DEF Commit
  <2>10. ASSUME NEW r \in Starts, Disown(r) PROVE SlotInv'
    BY <2>10 DEF Disown, TryStop, Stopped
  <2>11. ASSUME NEW r \in Starts, StartMetadata(r) PROVE SlotInv'
    BY <2>11 DEF StartMetadata
  <2>12. ASSUME NEW t \in Stops, StopRead(t) PROVE SlotInv'
    BY <2>12 DEF StopRead
  <2>13. ASSUME NEW t \in Stops, StopCall(t) PROVE SlotInv'
    BY <2>13 DEF StopCall, TryStop, Stopped
  <2>14. ASSUME NEW t \in Stops, StopClear(t) PROVE SlotInv'
    BY <2>14 DEF StopClear, Cleared
  <2>15. ASSUME NEW t \in Stops, StopMetadata(t) PROVE SlotInv'
    BY <2>15 DEF StopMetadata
  <2>16. ASSUME NEW e \in Starts, HookRead(e) PROVE SlotInv'
    BY <2>16 DEF HookRead, HookGoes
  <2>17. ASSUME NEW e \in Starts, HookClear(e) PROVE SlotInv'
    BY <2>17 DEF HookClear, HookGoes, ClearColumn, Cleared
  <2>18. ASSUME NEW e \in Starts, HookMetadata(e) PROVE SlotInv'
    BY <2>18 DEF HookMetadata, HookGoes
  <2>19. CASE EndRead
    BY <2>19 DEF EndRead
  <2>20. CASE EndFinalize
    BY <2>20 DEF EndFinalize, EndRow
  <2>21. CASE EndTeardown
    BY <2>21 DEF EndTeardown, TryStop, Stopped
  <2>22. CASE EndDelete
    BY <2>22 DEF EndDelete
  <2>23. CASE CloserStop
    BY <2>23 DEF CloserStop, TryStop, Stopped
  <2>24. CASE CloserFinalize
    BY <2>24 DEF CloserFinalize, EndRow
  <2>25. CASE WorkerDies
    BY <2>25 DEF WorkerDies, StartDies, StopDies, HookDies, HookGoes, EndDies, CloserDies
  <2>26. ASSUME NEW r \in Starts,
                EgressActivates(r) \/ EgressEnds(r) \/ LateLaunch(r) \/ EgressFails(r)
         PROVE  SlotInv'
    BY <2>26 DEF EgressActivates, EgressEnds, LateLaunch, EgressFails, EgressMoves
  <2>27. CASE RoomFinishes
    BY <2>27 DEF RoomFinishes
  <2>28. CASE UNCHANGED vars
    BY <2>28 DEF vars
  <2> QED
    BY <2>1, <2>2, <2>3, <2>4, <2>5, <2>6, <2>7, <2>8, <2>9, <2>10, <2>11, <2>12, <2>13, <2>14,
       <2>15, <2>16, <2>17, <2>18, <2>19, <2>20, <2>21, <2>22, <2>23, <2>24, <2>25,
       <2>26, <2>27, <2>28
       DEF Next, StartStep, StopStep, HookStep, EndStep, CloserStep
<1> QED
  BY <1>1, <1>2, Typing, PTL DEF Spec

\* Recording and streaming never hold a column each, whatever the interleaving.
THEOREM ModesExclude == Spec => []OneEgressMode
BY SlotInvariance, PTL DEF SlotInv

\* Nothing puts an egress back on an ended session.
THEOREM EndedIsClear == Spec => []EndedSessionTracksNothing
BY SlotInvariance, PTL DEF SlotInv

\* From its claim until it commits or gives up, a start request holds its sentinel, unless
\* the session has ended and emptied both columns.
ClaimInv ==
    \A r \in Starts :
        start[r] \in {"claimed", "list", "launch", "verify", "commit", "stop_all", "stop_one",
                      "clear", "catch"}
            => column[kind[r]] = Sentinel(r) \/ ~active

\* No step of another handler takes the sentinel away: they clear the ids they know.
LEMMA ClaimInvariance == Spec => []ClaimInv
<1>1. Init => ClaimInv
  BY DEF Init, ClaimInv
<1>2. TypeOK /\ SlotInv /\ ClaimInv /\ [Next]_vars => ClaimInv'
  <2> SUFFICES ASSUME TypeOK, SlotInv, ClaimInv, [Next]_vars PROVE ClaimInv'
    OBVIOUS
  <2> USE DEF TypeOK, ClaimInv, Kinds, None, Sentinel, Live, livekit, ending, StartGoes,
              StopGoes
  <2>1. ASSUME NEW r \in Starts, Claim(r) PROVE ClaimInv'
    BY <2>1 DEF Claim
  <2>2. ASSUME NEW r \in Starts, TaskRead(r) PROVE ClaimInv'
    BY <2>2 DEF TaskRead
  <2>3. ASSUME NEW r \in Starts, ListRooms(r) PROVE ClaimInv'
    BY <2>3 DEF ListRooms
  <2>4. ASSUME NEW r \in Starts, Launch(r) PROVE ClaimInv'
    BY <2>4 DEF Launch
  <2>5. ASSUME NEW r \in Starts, StopAll(r) PROVE ClaimInv'
    BY <2>5 DEF StopAll, TryStop, Stopped
  <2>6. ASSUME NEW r \in Starts, Verify(r) PROVE ClaimInv'
    BY <2>6 DEF Verify
  <2>7. ASSUME NEW r \in Starts, StopOne(r) PROVE ClaimInv'
    BY <2>7 DEF StopOne, TryStop, Stopped
  <2>8. ASSUME NEW r \in Starts, ClearSentinel(r) PROVE ClaimInv'
    BY <2>8 DEF ClearSentinel, ClearColumn, Cleared
  <2>9. ASSUME NEW r \in Starts, Commit(r) PROVE ClaimInv'
    BY <2>9 DEF Commit
  <2>10. ASSUME NEW r \in Starts, Disown(r) PROVE ClaimInv'
    BY <2>10 DEF Disown, TryStop, Stopped
  <2>11. ASSUME NEW r \in Starts, StartMetadata(r) PROVE ClaimInv'
    BY <2>11 DEF StartMetadata
  <2>12. ASSUME NEW t \in Stops, StopRead(t) PROVE ClaimInv'
    BY <2>12 DEF StopRead
  <2>13. ASSUME NEW t \in Stops, StopCall(t) PROVE ClaimInv'
    BY <2>13 DEF StopCall, TryStop, Stopped
  <2>14. ASSUME NEW t \in Stops, StopClear(t) PROVE ClaimInv'
    BY <2>14 DEF StopClear, Cleared
  <2>15. ASSUME NEW t \in Stops, StopMetadata(t) PROVE ClaimInv'
    BY <2>15 DEF StopMetadata
  <2>16. ASSUME NEW e \in Starts, HookRead(e) PROVE ClaimInv'
    BY <2>16 DEF HookRead, HookGoes
  <2>17. ASSUME NEW e \in Starts, HookClear(e) PROVE ClaimInv'
    BY <2>17 DEF HookClear, HookGoes, ClearColumn, Cleared
  <2>18. ASSUME NEW e \in Starts, HookMetadata(e) PROVE ClaimInv'
    BY <2>18 DEF HookMetadata, HookGoes
  <2>19. CASE EndRead
    BY <2>19 DEF EndRead
  <2>20. CASE EndFinalize
    BY <2>20 DEF EndFinalize, EndRow
  <2>21. CASE EndTeardown
    BY <2>21 DEF EndTeardown, TryStop, Stopped
  <2>22. CASE EndDelete
    BY <2>22 DEF EndDelete
  <2>23. CASE CloserStop
    BY <2>23 DEF CloserStop, TryStop, Stopped
  <2>24. CASE CloserFinalize
    BY <2>24 DEF CloserFinalize, EndRow
  <2>25. CASE WorkerDies
    BY <2>25 DEF WorkerDies, StartDies, StopDies, HookDies, HookGoes, EndDies, CloserDies
  <2>26. ASSUME NEW r \in Starts,
                EgressActivates(r) \/ EgressEnds(r) \/ LateLaunch(r) \/ EgressFails(r)
         PROVE  ClaimInv'
    BY <2>26 DEF EgressActivates, EgressEnds, LateLaunch, EgressFails, EgressMoves
  <2>27. CASE RoomFinishes
    BY <2>27 DEF RoomFinishes
  <2>28. CASE UNCHANGED vars
    BY <2>28 DEF vars
  <2> QED
    BY <2>1, <2>2, <2>3, <2>4, <2>5, <2>6, <2>7, <2>8, <2>9, <2>10, <2>11, <2>12, <2>13, <2>14,
       <2>15, <2>16, <2>17, <2>18, <2>19, <2>20, <2>21, <2>22, <2>23, <2>24, <2>25,
       <2>26, <2>27, <2>28
       DEF Next, StartStep, StopStep, HookStep, EndStep, CloserStep
<1> QED
  BY <1>1, <1>2, Typing, SlotInvariance, PTL DEF Spec


\* The sentinel of a failed start keeps every other egress out of the columns, so that
\* stopActiveRoomEgresses stops none that is tracked.
THEOREM NoCollateral == Spec => NoCollateralStop
<1> DEFINE Harmless(r) == start[r] = "stop_all" /\ start[r] # start'[r] =>
                              \A e \in Tracked : egress'[e] = egress[e]
<1>1. TypeOK /\ SlotInv /\ ClaimInv /\ [Next]_vars => \A r \in Starts : Harmless(r)
  <2> SUFFICES ASSUME TypeOK, SlotInv, ClaimInv,
                      NEW r \in Starts, start[r] = "stop_all"
               PROVE  Tracked = {}
    OBVIOUS
  <2>1. CASE column[kind[r]] = Sentinel(r)
    BY <2>1 DEF TypeOK, SlotInv, OneEgressMode, Kinds, None, Sentinel, Live, Tracked
  <2>2. CASE ~active
    BY <2>2 DEF SlotInv, EndedSessionTracksNothing, Kinds, None, Tracked
  <2> QED
    BY <2>1, <2>2 DEF ClaimInv
<1> QED
  BY <1>1, Typing, SlotInvariance, ClaimInvariance, PTL DEF Spec, NoCollateralStop

\* Only the claim of a start request writes its sentinel.
LEMMA OnlyClaimWrites ==
    ASSUME TypeOK, [Next]_vars, NEW r \in Starts, NEW k \in Kinds,
           column'[k] = Sentinel(r), column[k] # Sentinel(r)
    PROVE  Claim(r)
<1> USE DEF TypeOK, None, Sentinel, Live
<1>1. column' # column
  OBVIOUS
<1>2. ASSUME NEW j \in Kinds, NEW v PROVE column' # Cleared(j, v)
  BY DEF Cleared
<1>3. ~EndRow
  BY DEF EndRow
<1>4. ASSUME NEW s \in Starts PROVE column' # [column EXCEPT ![kind[s]] = Live(s)]
  OBVIOUS
<1>5. ASSUME NEW s \in Starts, StartStep(s) \/ HookStep(s) PROVE FALSE
  <2>1. ~ClearSentinel(s) /\ ~HookClear(s)
    BY <1>1, <1>2 DEF ClearSentinel, HookClear, ClearColumn, Kinds
  <2>2. ~Commit(s)
    BY <1>1, <1>4 DEF Commit
  <2> QED
    BY <1>1, <1>5, <2>1, <2>2
       DEF StartStep, TaskRead, ListRooms, Launch, StopAll, Verify, StopOne, Disown,
           StartMetadata, HookStep, HookRead, HookMetadata
<1>6. ASSUME NEW t \in Stops, StopRead(t) \/ StopStep(t) PROVE FALSE
  BY <1>1, <1>2, <1>6 DEF StopRead, StopStep, StopCall, StopClear, StopMetadata
<1>7. ~(EndRead \/ EndStep \/ CloserStep \/ WorkerDies \/ RoomFinishes)
  BY <1>1, <1>3
     DEF EndRead, EndStep, EndFinalize, EndTeardown, EndDelete, CloserStep, CloserStop,
         CloserFinalize, WorkerDies, RoomFinishes
<1>8. PICK s \in Starts : Claim(s)
  BY <1>1, <1>5, <1>6, <1>7
     DEF Next, vars, EgressActivates, EgressEnds, LateLaunch, EgressFails, EgressMoves
<1>9. s = r
  BY <1>8 DEF Claim
<1> QED
  BY <1>8, <1>9

\* A start request that is past its commit holds no sentinel.
PastCommit == \A r \in Starts : start[r] \in {"disown", "metadata"} => column[kind[r]] # Sentinel(r)

\* PastCommit is inductive: the commit takes the sentinel out or finds it gone.
LEMMA PastCommitInvariance == Spec => []PastCommit
<1>1. Init => PastCommit
  BY DEF Init, PastCommit
<1>2. TypeOK /\ PastCommit /\ [Next]_vars => PastCommit'
  <2> SUFFICES ASSUME TypeOK, PastCommit, [Next]_vars, NEW r \in Starts,
                      start'[r] \in {"disown", "metadata"}, column'[kind'[r]] = Sentinel(r)
               PROVE  FALSE
    BY DEF PastCommit
  <2>1. kind' = kind
    BY DEF Next, vars, StartStep, Claim, TaskRead, ListRooms, Launch, StopAll, Verify, StopOne,
           ClearSentinel, Commit, Disown, StartMetadata, HookStep, HookRead, HookClear,
           HookMetadata, EgressActivates, EgressEnds, LateLaunch, EgressFails, EgressMoves,
           StopRead, StopStep, StopCall, StopClear, StopMetadata, EndRead, EndStep,
           EndFinalize, EndTeardown, EndDelete, CloserStep, CloserStop, CloserFinalize,
           WorkerDies, RoomFinishes
  <2>2. column[kind[r]] = Sentinel(r)
    <3>1. ~Claim(r)
      BY DEF TypeOK, Claim, StartGoes
    <3> QED
      BY <2>1, <3>1, OnlyClaimWrites DEF TypeOK
  <2>3. start[r] \notin {"disown", "metadata"}
    BY <2>2 DEF PastCommit
  <2>4. PICK s \in Starts : Claim(s) \/ StartStep(s) \/ (WorkerDies /\ StartDies(s))
    BY <2>3
       DEF Next, vars, HookStep, HookRead, HookClear, HookMetadata, EgressActivates,
           EgressEnds, LateLaunch, EgressFails, EgressMoves, StopRead, StopStep, StopCall,
           StopClear, StopMetadata, EndRead, EndStep, EndFinalize, EndTeardown, EndDelete,
           CloserStep, CloserStop, CloserFinalize, WorkerDies, HookDies, StopDies, EndDies,
           CloserDies, RoomFinishes
  <2>5. Commit(r)
    BY <2>3, <2>4
       DEF TypeOK, StartGoes, StartDies, Claim, StartStep, TaskRead, ListRooms, Launch,
           StopAll, Verify, StopOne, ClearSentinel, Commit, Disown, StartMetadata
  <2> QED
    BY <2>1, <2>2, <2>5 DEF Commit, TypeOK, StartGoes, Sentinel, Live
<1> QED
  BY <1>1, <1>2, Typing, PTL DEF Spec

\* A start request that knows of its claim takes its sentinel out of the column before it
\* ends, also when LiveKit rejects its calls or the response of its commit is lost: only a
\* D1 that fails the clear for good, or the death of the Worker, leaves it there.
THEOREM SentinelsGivenUp ==
    ASSUME Faults \cap {"db_down", "worker_dies"} = {}
    PROVE  Spec => SentinelGivenUp
<1> DEFINE GivesUp(r) ==
        column[kind[r]] = Sentinel(r) /\ start[r] \notin Finished /\ start'[r] \in Finished
            => column'[kind[r]] # Sentinel(r)
<1>1. TypeOK /\ SlotInv /\ PastCommit /\ [Next]_vars => \A r \in Starts : GivesUp(r)
  <2> SUFFICES ASSUME TypeOK, SlotInv, PastCommit, [Next]_vars,
                      NEW r \in Starts, column[kind[r]] = Sentinel(r),
                      start[r] \notin Finished, start'[r] \in Finished
               PROVE  column'[kind[r]] # Sentinel(r)
    OBVIOUS
  <2>1. start[r] # "idle" /\ active
    BY DEF TypeOK, SlotInv, EndedSessionTracksNothing, None, Sentinel
  <2>2. start[r] \notin {"disown", "metadata"}
    BY DEF PastCommit
  <2>3. PICK s \in Starts : Claim(s) \/ StartStep(s)
    <3>1. start' # start
      BY DEF Finished
    <3> QED
      BY <3>1
         DEF Next, vars, HookStep, HookRead, HookClear, HookMetadata, EgressActivates,
             EgressEnds, LateLaunch, EgressFails, EgressMoves, StopRead, StopStep, StopCall,
             StopClear, StopMetadata, EndRead, EndStep, EndFinalize, EndTeardown, EndDelete,
             CloserStep, CloserStop, CloserFinalize, WorkerDies, RoomFinishes
  <2>4. s = r
    BY <2>3
       DEF TypeOK, Finished, StartGoes, Claim, StartStep, TaskRead, ListRooms, Launch,
           StopAll, Verify, StopOne, ClearSentinel, Commit, Disown, StartMetadata
  <2>5. ClearSentinel(r)
    BY <2>1, <2>2, <2>3, <2>4
       DEF TypeOK, Finished, StartGoes, Claim, StartStep, TaskRead, ListRooms, Launch,
           StopAll, Verify, StopOne, Commit, Disown, StartMetadata
  <2> QED
    BY <2>5 DEF ClearSentinel, ClearColumn, Cleared, TypeOK, None, Sentinel
<1> QED
  BY <1>1, Typing, SlotInvariance, PastCommitInvariance, PTL DEF Spec, SentinelGivenUp

\* The session row keeps the promise of the abstract slot: a request reserves it once,
\* confirms it at most once, and the end of the session closes it for good.
THEOREM ImplementsSlot == Spec => SlotSpec
<1> DEFINE abstract == IF column["recording"] # None THEN column["recording"]
                       ELSE column["streaming"]
           begun == {r \in Starts : start[r] # "idle"}
<1>1. Init => Slot!Init
  BY DEF Init, Slot!Init, Slot!Free, Kinds, None
<1>2. TypeOK /\ SlotInv /\ [Next]_vars => [Slot!Next]_(Slot!vars)
  <2> SUFFICES ASSUME TypeOK, SlotInv, [Next]_vars
               PROVE  Slot!Next \/ UNCHANGED <<active, abstract, begun>>
    BY DEF Slot!vars
  <2> USE DEF TypeOK, Kinds, None, Sentinel, Live
  <2>1. ASSUME NEW r \in Starts, Claim(r) PROVE Slot!Reserve(r)
    BY <2>1 DEF Claim, StartGoes, Slot!Reserve, Slot!Free, Slot!Reserved
  <2>2. ASSUME NEW r \in Starts, Commit(r)
        PROVE  Slot!Confirm(r) \/ UNCHANGED <<active, abstract, begun>>
    <3>1. begun' = begun /\ active' = active
      BY <2>2 DEF Commit, StartGoes
    <3>2. CASE column' = column
      BY <3>1, <3>2
    <3>3. CASE column[kind[r]] = Sentinel(r) /\ column' = [column EXCEPT ![kind[r]] = Live(r)]
      BY <3>1, <3>3 DEF SlotInv, OneEgressMode, EndedSessionTracksNothing, Slot!Confirm,
                        Slot!Reserved, Slot!Confirmed
    <3> QED
      BY <2>2, <3>2, <3>3 DEF Commit
  <2>3. ASSUME NEW k \in Kinds, NEW r \in Starts, NEW v \in {Sentinel(r), Live(r)},
               column' = Cleared(k, v), active' = active, begun' = begun
        PROVE  Slot!Release(r) \/ UNCHANGED <<active, abstract, begun>>
    BY <2>3 DEF Cleared, SlotInv, OneEgressMode, EndedSessionTracksNothing, Slot!Release,
                Slot!Reserved, Slot!Confirmed, Slot!Free
  <2>4. ASSUME active, EndRow, begun' = begun PROVE Slot!Close
    BY <2>4 DEF EndRow, Slot!Close, Slot!Free
  <2>5. ASSUME UNCHANGED <<active, column, begun>>
        PROVE  UNCHANGED <<active, abstract, begun>>
    BY <2>5
  <2>6. ASSUME NEW r \in Starts, StartStep(r)
        PROVE  Slot!Next \/ UNCHANGED <<active, abstract, begun>>
    <3>1. begun' = begun /\ active' = active
      BY <2>6 DEF StartStep, TaskRead, ListRooms, Launch, StopAll, Verify, StopOne,
                  ClearSentinel, Commit, Disown, StartMetadata, StartGoes
    <3>2. CASE ClearSentinel(r)
      BY <3>1, <3>2, <2>3, <2>5 DEF ClearSentinel, ClearColumn, Slot!Next
    <3>3. CASE Commit(r)
      BY <3>3, <2>2 DEF Slot!Next
    <3>4. CASE column' = column
      BY <3>1, <3>4
    <3> QED
      BY <2>6, <3>2, <3>3, <3>4
         DEF StartStep, TaskRead, ListRooms, Launch, StopAll, Verify, StopOne, Disown,
             StartMetadata
  <2>7. ASSUME NEW t \in Stops, StopRead(t) \/ StopStep(t)
        PROVE  Slot!Next \/ UNCHANGED <<active, abstract, begun>>
    <3>1. begun' = begun /\ active' = active
      BY <2>7 DEF StopStep, StopRead, StopCall, StopClear, StopMetadata
    <3>2. CASE column' = column
      BY <3>1, <3>2
    <3>3. CASE StopClear(t) /\ column' = Cleared(target[t].kind, Live(target[t].of))
               /\ target[t].of \in Starts
      BY <3>1, <3>3, <2>3 DEF Slot!Next
    <3>4. CASE target[t].of = NoEgress /\ StopClear(t)
      <4>1. column[target[t].kind] # Live(target[t].of)
        BY <3>4, NoEgressAssumption
      <4> QED
        BY <3>1, <3>4, <4>1 DEF StopClear, Cleared
    <3> QED
      BY <2>7, <3>2, <3>3, <3>4 DEF StopStep, StopRead, StopCall, StopClear, StopMetadata
  <2>8. ASSUME NEW e \in Starts, HookStep(e)
        PROVE  Slot!Next \/ UNCHANGED <<active, abstract, begun>>
    <3>1. begun' = begun /\ active' = active
      BY <2>8 DEF HookStep, HookRead, HookClear, HookMetadata
    <3>2. CASE column' = column
      BY <3>1, <3>2
    <3>3. CASE HookClear(e)
      BY <3>1, <3>2, <3>3, <2>3 DEF HookClear, ClearColumn, Slot!Next
    <3> QED
      BY <2>8, <3>2, <3>3 DEF HookStep, HookRead, HookMetadata
  <2>9. CASE EndRead \/ EndStep \/ CloserStep
    <3>1. begun' = begun
      BY <2>9 DEF EndRead, EndStep, EndFinalize, EndTeardown, EndDelete, CloserStep,
                  CloserStop, CloserFinalize
    <3> QED
      BY <2>9, <3>1, <2>4, <2>5
         DEF EndRead, EndStep, EndFinalize, EndTeardown, EndDelete, CloserStep,
             CloserStop, CloserFinalize, Slot!Next
  <2>10. CASE WorkerDies
    BY <2>10 DEF WorkerDies, StartDies, StopDies, HookDies, EndDies, CloserDies,
                 StartGoes, Finished
  <2>11. ASSUME NEW r \in Starts,
                EgressActivates(r) \/ EgressEnds(r) \/ LateLaunch(r) \/ EgressFails(r)
         PROVE  UNCHANGED <<active, abstract, begun>>
    BY <2>11 DEF EgressActivates, EgressEnds, LateLaunch, EgressFails, EgressMoves
  <2>12. CASE RoomFinishes
    BY <2>12 DEF RoomFinishes
  <2>13. CASE UNCHANGED vars
    BY <2>13 DEF vars
  <2> QED
    BY <2>1, <2>6, <2>7, <2>8, <2>9, <2>10, <2>11, <2>12, <2>13 DEF Next, Slot!Next
<1> QED
  BY <1>1, <1>2, Typing, SlotInvariance, PTL DEF Spec, SlotSpec, Slot!Spec

\* What a stop request and a webhook know of their egress: it was launched, and it runs no
\* more once the stop has been acknowledged or the webhook sent.  No fault undoes it,
\* because LiveKit starts no egress twice.
TrackInv ==
    /\ \A r \in Starts :
        /\ start[r] \in {"idle", "claimed", "list", "launch"} => egress[r] = "none"
        /\ r \in ended => egress[r] = "ended"
        /\ hook[r] # "idle" => egress[r] = "ended"
    /\ \A t \in Stops, r \in Starts : target[t].of = r =>
        /\ stop[t] \in {"stop", "clear"} => Launched(r)
        /\ stop[t] = "clear" => egress[r] \notin {"starting", "active"}

\* TrackInv is kept under every fault.
LEMMA TrackInvariance == Spec => []TrackInv
<1>1. Init => TrackInv
  BY DEF Init, TrackInv
<1>2. TypeOK /\ SlotInv /\ TrackInv /\ [Next]_vars => TrackInv'
  <2> SUFFICES ASSUME TypeOK, SlotInv, TrackInv, [Next]_vars PROVE TrackInv'
    OBVIOUS
  <2> USE DEF TypeOK, TrackInv, Launched, Kinds, Running, Finished, None, Sentinel, Live,
              livekit, ending, StartGoes, StopGoes
  <2>1. ASSUME NEW r \in Starts, Claim(r) PROVE TrackInv'
    BY <2>1 DEF Claim
  <2>2. ASSUME NEW r \in Starts, TaskRead(r) PROVE TrackInv'
    BY <2>2 DEF TaskRead
  <2>3. ASSUME NEW r \in Starts, ListRooms(r) PROVE TrackInv'
    BY <2>3 DEF ListRooms
  <2>4. ASSUME NEW r \in Starts, Launch(r) PROVE TrackInv'
    <3>1. CASE UNCHANGED egress
      BY <2>4, <3>1 DEF Launch
    <3>2. CASE egress' = [egress EXCEPT ![r] = "starting"] /\ StartGoes(r, "verify")
      <4>1. r \notin ended /\ hook[r] = "idle"
        BY <2>4 DEF Launch
      <4>2. \A t \in Stops : target[t].of = r => stop[t] \notin {"stop", "clear"}
        BY <2>4 DEF Launch
      <4>3. UNCHANGED <<active, column, ended, kind, stop, target, hook>>
        BY <2>4 DEF Launch
      <4>4. TrackInv!1'
        BY <3>2, <4>1, <4>3, ZenonT(60)
      <4>5. TrackInv!2'
        BY <3>2, <4>2, <4>3
      <4> QED
        BY <4>4, <4>5
    <3> QED
      BY <2>4, <3>1, <3>2 DEF Launch
  <2>5. ASSUME NEW r \in Starts, StopAll(r) PROVE TrackInv'
    BY <2>5 DEF StopAll, TryStop, Stopped
  <2>6. ASSUME NEW r \in Starts, Verify(r) PROVE TrackInv'
    BY <2>6 DEF Verify
  <2>7. ASSUME NEW r \in Starts, StopOne(r) PROVE TrackInv'
    BY <2>7 DEF StopOne, TryStop, Stopped
  <2>8. ASSUME NEW r \in Starts, ClearSentinel(r) PROVE TrackInv'
    BY <2>8 DEF ClearSentinel, ClearColumn, Cleared
  <2>9. ASSUME NEW r \in Starts, Commit(r) PROVE TrackInv'
    BY <2>9 DEF Commit
  <2>10. ASSUME NEW r \in Starts, Disown(r) PROVE TrackInv'
    BY <2>10 DEF Disown, TryStop, Stopped
  <2>11. ASSUME NEW r \in Starts, StartMetadata(r) PROVE TrackInv'
    BY <2>11 DEF StartMetadata
  <2>12. ASSUME NEW t \in Stops, StopRead(t) PROVE TrackInv'
    BY <2>12 DEF StopRead, SlotInv, TrackedWasLaunched
  <2>13. ASSUME NEW t \in Stops, StopCall(t) PROVE TrackInv'
    BY <2>13 DEF StopCall, TryStop, Stopped
  <2>14. ASSUME NEW t \in Stops, StopClear(t) PROVE TrackInv'
    BY <2>14 DEF StopClear, Cleared
  <2>15. ASSUME NEW t \in Stops, StopMetadata(t) PROVE TrackInv'
    BY <2>15 DEF StopMetadata
  <2>16. ASSUME NEW e \in Starts, HookRead(e) PROVE TrackInv'
    BY <2>16 DEF HookRead, HookGoes
  <2>17. ASSUME NEW e \in Starts, HookClear(e) PROVE TrackInv'
    BY <2>17 DEF HookClear, HookGoes, ClearColumn, Cleared
  <2>18. ASSUME NEW e \in Starts, HookMetadata(e) PROVE TrackInv'
    BY <2>18 DEF HookMetadata, HookGoes
  <2>19. CASE EndRead
    BY <2>19 DEF EndRead
  <2>20. CASE EndFinalize
    BY <2>20 DEF EndFinalize, EndRow
  <2>21. CASE EndTeardown
    BY <2>21 DEF EndTeardown, TryStop, Stopped
  <2>22. CASE EndDelete
    BY <2>22 DEF EndDelete
  <2>23. CASE CloserStop
    BY <2>23 DEF CloserStop, TryStop, Stopped
  <2>24. CASE CloserFinalize
    BY <2>24 DEF CloserFinalize, EndRow
  <2>25. CASE WorkerDies
    BY <2>25 DEF WorkerDies, StartDies, StopDies, HookDies, HookGoes, EndDies, CloserDies
  <2>26. ASSUME NEW r \in Starts,
                EgressActivates(r) \/ EgressEnds(r) \/ LateLaunch(r) \/ EgressFails(r)
         PROVE  TrackInv'
    <3>1. CASE EgressActivates(r)
      BY <3>1 DEF EgressActivates, EgressMoves
    <3>2. CASE EgressEnds(r)
      BY <3>2 DEF EgressEnds, EgressMoves
    <3>3. CASE EgressFails(r)
      BY <3>3 DEF EgressFails, EgressMoves
    <3> QED
      BY <2>26, <3>1, <3>2, <3>3 DEF LateLaunch, EgressMoves
  <2>27. CASE RoomFinishes
    BY <2>27 DEF RoomFinishes
  <2>28. CASE UNCHANGED vars
    BY <2>28 DEF vars
  <2> QED
    BY <2>1, <2>2, <2>3, <2>4, <2>5, <2>6, <2>7, <2>8, <2>9, <2>10, <2>11, <2>12, <2>13, <2>14,
       <2>15, <2>16, <2>17, <2>18, <2>19, <2>20, <2>21, <2>22, <2>23, <2>24, <2>25,
       <2>26, <2>27, <2>28
       DEF Next, StartStep, StopStep, HookStep, EndStep, CloserStep
<1> QED
  BY <1>1, <1>2, Typing, SlotInvariance, PTL DEF Spec

\* An egress drops out of its column only when it runs no more, or with the end of the
\* session: the clears of a stop request and of a webhook come after the stop, and those
\* of a start request clear its own sentinel only.
THEOREM HostSeesRunning == Spec => TrackedUntilStopped
<1> DEFINE Stays(k, e) == column[k] = Live(e) /\ column'[k] # Live(e) /\ active'
                             => egress[e] \notin {"starting", "active"}
<1>1. TypeOK /\ SlotInv /\ TrackInv /\ [Next]_vars
        => \A k \in Kinds, e \in Starts : Stays(k, e)
  <2> SUFFICES ASSUME TypeOK, SlotInv, TrackInv, [Next]_vars,
                      NEW k \in Kinds, NEW e \in Starts,
                      column[k] = Live(e), column'[k] # Live(e), active'
               PROVE  egress[e] \notin {"starting", "active"}
    OBVIOUS
  <2> USE DEF TypeOK, None, Sentinel, Live
  <2>1. column' # column
    OBVIOUS
  <2>2. ~EndRow
    BY DEF EndRow
  <2>3. ASSUME NEW r \in Starts PROVE ~Claim(r) /\ ~StartStep(r)
    <3>1. ~Claim(r)
      <4>1. column[k] # None
        OBVIOUS
      <4> QED
        BY <4>1 DEF Claim
    <3>2. column' # Cleared(kind[r], Sentinel(r))
      BY DEF Cleared
    <3>3. column[kind[r]] # Sentinel(r)
      BY DEF SlotInv, OneEgressMode, Kinds
    <3>4. ~Commit(r)
      BY <2>1, <3>3 DEF Commit
    <3> QED
      BY <2>1, <3>1, <3>2, <3>4
         DEF StartStep, TaskRead, ListRooms, Launch, StopAll, Verify, StopOne, ClearSentinel,
             ClearColumn, Disown, StartMetadata
  <2>4. ASSUME NEW t \in Stops, StopRead(t) \/ StopStep(t)
        PROVE  egress[e] \notin {"starting", "active"}
    <3>1. stop[t] = "clear" /\ column' = Cleared(target[t].kind, Live(target[t].of))
      BY <2>1, <2>4 DEF StopRead, StopStep, StopCall, StopClear, StopMetadata
    <3>2. target[t].of = e
      BY <3>1 DEF Cleared
    <3> QED
      BY <3>1, <3>2 DEF TrackInv
  <2>5. ASSUME NEW r \in Starts, HookStep(r)
        PROVE  egress[e] \notin {"starting", "active"}
    <3>1. hook[r] # "idle" /\ \E j \in Kinds : column' = Cleared(j, Live(r))
      BY <2>1, <2>5 DEF HookStep, HookRead, HookClear, HookMetadata, ClearColumn, Kinds
    <3>2. r = e
      BY <3>1 DEF Cleared
    <3> QED
      BY <3>1, <3>2 DEF TrackInv
  <2> QED
    BY <2>1, <2>2, <2>3, <2>4, <2>5
       DEF Next, vars, EgressActivates, EgressEnds, LateLaunch, EgressFails, EgressMoves,
           EndRead, EndStep, EndFinalize, EndTeardown, EndDelete, CloserStep, CloserStop,
           CloserFinalize, WorkerDies, RoomFinishes
<1> QED
  BY <1>1, Typing, SlotInvariance, TrackInvariance, PTL DEF Spec, TrackedUntilStopped

\* Where the egress of each start request can be.  Before the launch there is none; a
\* request that has given up has stopped it; one that has committed has it tracked,
\* until it is stopped or the session ends.
OrphanInv ==
    /\ \A r \in Starts :
        /\ egress[r] # "requested"
        /\ start[r] \in {"idle", "claimed", "list", "launch", "stop_all"} => egress[r] = "none"
        /\ start[r] \in {"clear", "catch", "failed"} => egress[r] \notin {"starting", "active"}
        /\ start[r] \in {"metadata", "done"} /\ egress[r] \in {"starting", "active"} /\ active
            => column[kind[r]] = Live(r)
        /\ r \in ended => egress[r] = "ended"
        /\ hook[r] # "idle" => egress[r] = "ended"
    /\ \A t \in Stops, r \in Starts : target[t].of = r =>
        /\ stop[t] \in {"stop", "clear"} => Launched(r)
        /\ stop[t] = "clear" => egress[r] \notin {"starting", "active"}

\* OrphanInv holds as long as a start that times out is not carried out late, stops
\* succeed, D1 stays up and no Worker dies: each of these four leaves an orphan.
LEMMA OrphanInvariance ==
    ASSUME Faults \cap {"start_times_out", "stop_fails", "db_down", "worker_dies"} = {}
    PROVE  Spec => []OrphanInv
<1>1. Init => OrphanInv
  BY DEF Init, OrphanInv
<1>2. TypeOK /\ SlotInv /\ OrphanInv /\ [Next]_vars => OrphanInv'
  <2> SUFFICES ASSUME TypeOK, SlotInv, OrphanInv, [Next]_vars PROVE OrphanInv'
    OBVIOUS
  <2> USE DEF TypeOK, OrphanInv, Launched, Kinds, Running, Finished, None, Sentinel, Live,
              livekit, ending, StartGoes, StopGoes
  <2>1. ASSUME NEW r \in Starts, Claim(r) PROVE OrphanInv'
    BY <2>1 DEF Claim
  <2>2. ASSUME NEW r \in Starts, TaskRead(r) PROVE OrphanInv'
    BY <2>2 DEF TaskRead
  <2>3. ASSUME NEW r \in Starts, ListRooms(r) PROVE OrphanInv'
    BY <2>3 DEF ListRooms
  <2>4. ASSUME NEW r \in Starts, Launch(r) PROVE OrphanInv'
    <3>1. CASE UNCHANGED egress
      BY <2>4, <3>1 DEF Launch
    <3>2. CASE egress' = [egress EXCEPT ![r] = "starting"] /\ StartGoes(r, "verify")
      <4>1. r \notin ended /\ hook[r] = "idle"
        BY <2>4 DEF Launch
      <4>2. \A t \in Stops : target[t].of = r => stop[t] \notin {"stop", "clear"}
        BY <2>4 DEF Launch
      <4>3. UNCHANGED <<active, column, ended, kind, stop, target, hook>>
        BY <2>4 DEF Launch
      <4>4. OrphanInv!1'
        BY <3>2, <4>1, <4>3, ZenonT(60)
      <4>5. OrphanInv!2'
        BY <3>2, <4>2, <4>3
      <4> QED
        BY <4>4, <4>5
    <3> QED
      BY <2>4, <3>1, <3>2 DEF Launch
  <2>5. ASSUME NEW r \in Starts, StopAll(r) PROVE OrphanInv'
    BY <2>5 DEF StopAll, TryStop, Stopped
  <2>6. ASSUME NEW r \in Starts, Verify(r) PROVE OrphanInv'
    BY <2>6 DEF Verify
  <2>7. ASSUME NEW r \in Starts, StopOne(r) PROVE OrphanInv'
    BY <2>7 DEF StopOne, TryStop, Stopped
  <2>8. ASSUME NEW r \in Starts, ClearSentinel(r) PROVE OrphanInv'
    BY <2>8 DEF ClearSentinel, ClearColumn, Cleared
  <2>9. ASSUME NEW r \in Starts, Commit(r) PROVE OrphanInv'
    BY <2>9 DEF Commit
  <2>10. ASSUME NEW r \in Starts, Disown(r) PROVE OrphanInv'
    BY <2>10 DEF Disown, TryStop, Stopped
  <2>11. ASSUME NEW r \in Starts, StartMetadata(r) PROVE OrphanInv'
    BY <2>11 DEF StartMetadata
  <2>12. ASSUME NEW t \in Stops, StopRead(t) PROVE OrphanInv'
    BY <2>12 DEF StopRead, SlotInv, TrackedWasLaunched
  <2>13. ASSUME NEW t \in Stops, StopCall(t) PROVE OrphanInv'
    BY <2>13 DEF StopCall, TryStop, Stopped
  <2>14. ASSUME NEW t \in Stops, StopClear(t) PROVE OrphanInv'
    BY <2>14 DEF StopClear, Cleared
  <2>15. ASSUME NEW t \in Stops, StopMetadata(t) PROVE OrphanInv'
    BY <2>15 DEF StopMetadata
  <2>16. ASSUME NEW e \in Starts, HookRead(e) PROVE OrphanInv'
    BY <2>16 DEF HookRead, HookGoes
  <2>17. ASSUME NEW e \in Starts, HookClear(e) PROVE OrphanInv'
    BY <2>17 DEF HookClear, HookGoes, ClearColumn, Cleared
  <2>18. ASSUME NEW e \in Starts, HookMetadata(e) PROVE OrphanInv'
    BY <2>18 DEF HookMetadata, HookGoes
  <2>19. CASE EndRead
    BY <2>19 DEF EndRead
  <2>20. CASE EndFinalize
    BY <2>20 DEF EndFinalize, EndRow
  <2>21. CASE EndTeardown
    BY <2>21 DEF EndTeardown, TryStop, Stopped
  <2>22. CASE EndDelete
    BY <2>22 DEF EndDelete
  <2>23. CASE CloserStop
    BY <2>23 DEF CloserStop, TryStop, Stopped
  <2>24. CASE CloserFinalize
    BY <2>24 DEF CloserFinalize, EndRow
  <2>25. CASE WorkerDies
    BY <2>25 DEF WorkerDies, StartDies, StopDies, HookDies, HookGoes, EndDies, CloserDies
  <2>26. ASSUME NEW r \in Starts,
                EgressActivates(r) \/ EgressEnds(r) \/ LateLaunch(r) \/ EgressFails(r)
         PROVE  OrphanInv'
    <3>1. CASE EgressActivates(r)
      BY <3>1 DEF EgressActivates, EgressMoves
    <3>2. CASE EgressEnds(r)
      BY <3>2 DEF EgressEnds, EgressMoves
    <3>3. CASE EgressFails(r)
      BY <3>3 DEF EgressFails, EgressMoves
    <3> QED
      BY <2>26, <3>1, <3>2, <3>3 DEF LateLaunch, EgressMoves
  <2>27. CASE RoomFinishes
    BY <2>27 DEF RoomFinishes
  <2>28. CASE UNCHANGED vars
    BY <2>28 DEF vars
  <2> QED
    BY <2>1, <2>2, <2>3, <2>4, <2>5, <2>6, <2>7, <2>8, <2>9, <2>10, <2>11, <2>12, <2>13, <2>14,
       <2>15, <2>16, <2>17, <2>18, <2>19, <2>20, <2>21, <2>22, <2>23, <2>24, <2>25,
       <2>26, <2>27, <2>28
       DEF Next, StartStep, StopStep, HookStep, EndStep, CloserStep
<1> QED
  BY <1>1, <1>2, Typing, SlotInvariance, PTL DEF Spec

\* While the session is active, no start request that is over leaves an egress running
\* that no column tracks.
THEOREM NoOrphans ==
    ASSUME Faults \cap {"start_times_out", "stop_fails", "db_down", "worker_dies"} = {}
    PROVE  Spec => []NoOrphanWhileActive
<1>1. OrphanInv => NoOrphanWhileActive
  BY DEF OrphanInv, NoOrphanWhileActive, LeftRunning, Finished
<1> QED
  BY <1>1, OrphanInvariance, PTL

=============================================================================
