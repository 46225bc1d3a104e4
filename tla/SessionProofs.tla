--------------------------- MODULE SessionProofs ---------------------------
(***************************************************************************)
(* Proofs about MeetingSession, for any number of participations, any      *)
(* number of connections of each, any ways of ending and any set of faults.*)
(***************************************************************************)
EXTENDS MeetingSession, TLAPS

\* Every variable keeps its type.
THEOREM SessionTyping == Spec => []TypeOK
<1>1. Init => TypeOK
  <2> SUFFICES ASSUME Init PROVE TypeOK
    OBVIOUS
  <2>1. left \in [People \X Conns -> {"none", "pending", "mark", "recheck", "restore"}]
    BY DEF Init
  <2> QED
    BY <2>1 DEF Init, TypeOK, Live
<1>2. TypeOK /\ [Next]_vars => TypeOK'
  <2> SUFFICES ASSUME TypeOK, [Next]_vars PROVE TypeOK'
    OBVIOUS
  <2> USE EndingsAssumption DEF TypeOK, Live, Reasons, ends, requests, livekit, hooks,
              JoinGoes, LeaveGoes, LeftGoes, EnderGoes
  <2>1. ASSUME NEW p \in People, JoinRead(p) PROVE TypeOK'
    BY <2>1 DEF JoinRead
  <2>2. ASSUME NEW p \in People, JoinAdmit(p) PROVE TypeOK'
    BY <2>2 DEF JoinAdmit
  <2>3. ASSUME NEW p \in People, JoinUpsert(p) PROVE TypeOK'
    BY <2>3 DEF JoinUpsert, Upsert
  <2>4. ASSUME NEW p \in People, JoinCheck(p) PROVE TypeOK'
    BY <2>4 DEF JoinCheck
  <2>5. ASSUME NEW p \in People, JoinIssue(p) PROVE TypeOK'
    BY <2>5 DEF JoinIssue
  <2>6. ASSUME NEW p \in People, JoinRollback(p) PROVE TypeOK'
    BY <2>6 DEF JoinRollback
  <2>7. ASSUME NEW p \in People, RefreshRead(p) PROVE TypeOK'
    BY <2>7 DEF RefreshRead
  <2>8. ASSUME NEW p \in People, RefreshUpsert(p) PROVE TypeOK'
    BY <2>8 DEF RefreshUpsert, Upsert
  <2>9. ASSUME NEW p \in People, RefreshIssue(p) PROVE TypeOK'
    BY <2>9 DEF RefreshIssue
  <2>10. ASSUME NEW p \in People, Connects(p) PROVE TypeOK'
    BY <2>10 DEF Connects
  <2>11. ASSUME NEW p \in People, Disconnects(p) PROVE TypeOK'
    BY <2>11 DEF Disconnects, Out
  <2>12. ASSUME NEW p \in People, TokenExpires(p) PROVE TypeOK'
    BY <2>12 DEF TokenExpires
  <2>13. ASSUME NEW p \in People, Ages(p) PROVE TypeOK'
    BY <2>13 DEF Ages
  <2>14. ASSUME NEW p \in People, LeaveRead(p) PROVE TypeOK'
    BY <2>14 DEF LeaveRead
  <2>15. ASSUME NEW p \in People, LeaveMark(p) PROVE TypeOK'
    BY <2>15 DEF LeaveMark, Marked
  <2>16. ASSUME NEW p \in People, LeaveRemove(p) PROVE TypeOK'
    BY <2>16 DEF LeaveRemove, Out
  <2>17. ASSUME NEW h \in People \X Conns, HandleJoined(h) PROVE TypeOK'
    BY <2>17 DEF HandleJoined, Marked
  <2>18. ASSUME NEW h \in People \X Conns, LeftCheck(h) PROVE TypeOK'
    BY <2>18 DEF LeftCheck
  <2>19. ASSUME NEW h \in People \X Conns, LeftMark(h) PROVE TypeOK'
    BY <2>19 DEF LeftMark, Marked
  <2>20. ASSUME NEW h \in People \X Conns, LeftRecheck(h) PROVE TypeOK'
    BY <2>20 DEF LeftRecheck
  <2>21. ASSUME NEW h \in People \X Conns, LeftRestore(h) PROVE TypeOK'
    BY <2>21 DEF LeftRestore, Marked
  <2>22. ASSUME NEW r \in Endings, EndRead(r) PROVE TypeOK'
    BY <2>22 DEF EndRead
  <2>23. ASSUME NEW r \in Endings, RoomFinished(r) PROVE TypeOK'
    BY <2>23, ZenonT(60) DEF RoomFinished
  <2>24. ASSUME NEW r \in Endings, StaleList(r) PROVE TypeOK'
    BY <2>24 DEF StaleList
  <2>25. ASSUME NEW r \in Endings, StaleOccupants(r) PROVE TypeOK'
    BY <2>25 DEF StaleOccupants
  <2>26. ASSUME NEW r \in Endings, Finalize(r) PROVE TypeOK'
    <3>1. active' \in BOOLEAN /\ endedBy' \in Endings \cup {"nobody"} /\ closed' \in BOOLEAN
      BY <2>26 DEF Finalize, EndRow
    <3>2. row' \in [People -> Live \cup {"absent", "disconnected"}]
      BY <2>26 DEF Finalize, EndRow
    <3>3. ender' \in [Endings -> {"idle", "listed", "finalize", "teardown", "tasks", "done"}]
      BY <2>26 DEF Finalize, Over
    <3>4. UNCHANGED <<tasks, young, recent, admitted, token, requests, room, inRoom, conns, hooks>>
      BY <2>26 DEF Finalize
    <3> QED
      BY <3>1, <3>2, <3>3, <3>4
  <2>27. ASSUME NEW r \in Endings, Teardown(r) PROVE TypeOK'
    <3>1. room' \in BOOLEAN /\ closed' \in BOOLEAN /\ inRoom' \subseteq People
      BY <2>27 DEF Teardown, Out
    <3>2. left' \in [People \X Conns -> {"none", "pending", "mark", "recheck", "restore"}]
      BY <2>27 DEF Teardown, Out
    <3>3. ender' \in [Endings -> {"idle", "listed", "finalize", "teardown", "tasks", "done"}]
      BY <2>27 DEF Teardown
    <3>4. UNCHANGED <<active, endedBy, tasks, young, row, recent, admitted, token, requests,
                      conns, joined>>
      BY <2>27 DEF Teardown
    <3> QED
      BY <3>1, <3>2, <3>3, <3>4
  <2>28. ASSUME NEW r \in Endings, RunTasks(r) PROVE TypeOK'
    BY <2>28 DEF RunTasks, Over
  <2>29. ASSUME NEW r \in Endings, WorkerDies(r) PROVE TypeOK'
    BY <2>29 DEF WorkerDies, Over
  <2>30. CASE RoomFinishes
    BY <2>30 DEF RoomFinishes
  <2>31. CASE WebhookLost
    BY <2>31 DEF WebhookLost
  <2>32. CASE Matures
    BY <2>32 DEF Matures
  <2>33. CASE UNCHANGED vars
    BY <2>33 DEF vars
  <2> QED
    BY <2>1, <2>2, <2>3, <2>4, <2>5, <2>6, <2>7, <2>8, <2>9, <2>10, <2>11,
       <2>12, <2>13, <2>14, <2>15, <2>16, <2>17, <2>18, <2>19, <2>20, <2>21, <2>22,
       <2>23, <2>24, <2>25, <2>26, <2>27, <2>28, <2>29, <2>30, <2>31, <2>32, <2>33
       DEF Next, JoinStep, LeaveStep, LeftStep, EndStep, EndBegins
<1> QED
  BY <1>1, <1>2, PTL DEF Spec

\* One caller at most has the tasks of the session before it, and then nobody has run
\* them yet: the conditional update gives the end of the session to one caller.
EndingInv ==
    /\ active => tasks = 0 /\ \A r \in Endings : ender[r] \notin {"teardown", "tasks"}
    /\ \A r, q \in Endings :
        ender[r] \in {"teardown", "tasks"} /\ ender[q] \in {"teardown", "tasks"} => r = q
    /\ \A r \in Endings : ender[r] \in {"teardown", "tasks"} => tasks = 0
    /\ tasks \in {0, 1}

\* EndingInv is inductive.
LEMMA EndingInvariance == Spec => []EndingInv
<1>1. Init => EndingInv
  BY DEF Init, EndingInv
<1>2. TypeOK /\ EndingInv /\ [Next]_vars => EndingInv'
  <2> SUFFICES ASSUME TypeOK, EndingInv, [Next]_vars PROVE EndingInv'
    OBVIOUS
  <2> USE DEF TypeOK, EndingInv, ends, EnderGoes
  <2>1. ASSUME NEW p \in People, JoinRead(p) PROVE EndingInv'
    BY <2>1 DEF JoinRead
  <2>2. ASSUME NEW p \in People, JoinAdmit(p) PROVE EndingInv'
    BY <2>2 DEF JoinAdmit
  <2>3. ASSUME NEW p \in People, JoinUpsert(p) PROVE EndingInv'
    BY <2>3 DEF JoinUpsert, Upsert
  <2>4. ASSUME NEW p \in People, JoinCheck(p) PROVE EndingInv'
    BY <2>4 DEF JoinCheck
  <2>5. ASSUME NEW p \in People, JoinIssue(p) PROVE EndingInv'
    BY <2>5 DEF JoinIssue
  <2>6. ASSUME NEW p \in People, JoinRollback(p) PROVE EndingInv'
    BY <2>6 DEF JoinRollback
  <2>7. ASSUME NEW p \in People, RefreshRead(p) PROVE EndingInv'
    BY <2>7 DEF RefreshRead
  <2>8. ASSUME NEW p \in People, RefreshUpsert(p) PROVE EndingInv'
    BY <2>8 DEF RefreshUpsert, Upsert
  <2>9. ASSUME NEW p \in People, RefreshIssue(p) PROVE EndingInv'
    BY <2>9 DEF RefreshIssue
  <2>10. ASSUME NEW p \in People, Connects(p) PROVE EndingInv'
    BY <2>10 DEF Connects
  <2>11. ASSUME NEW p \in People, Disconnects(p) PROVE EndingInv'
    BY <2>11 DEF Disconnects, Out
  <2>12. ASSUME NEW p \in People, TokenExpires(p) PROVE EndingInv'
    BY <2>12 DEF TokenExpires
  <2>13. ASSUME NEW p \in People, Ages(p) PROVE EndingInv'
    BY <2>13 DEF Ages
  <2>14. ASSUME NEW p \in People, LeaveRead(p) PROVE EndingInv'
    BY <2>14 DEF LeaveRead
  <2>15. ASSUME NEW p \in People, LeaveMark(p) PROVE EndingInv'
    BY <2>15 DEF LeaveMark, Marked
  <2>16. ASSUME NEW p \in People, LeaveRemove(p) PROVE EndingInv'
    BY <2>16 DEF LeaveRemove, Out
  <2>17. ASSUME NEW h \in People \X Conns, HandleJoined(h) PROVE EndingInv'
    BY <2>17 DEF HandleJoined, Marked
  <2>18. ASSUME NEW h \in People \X Conns, LeftCheck(h) PROVE EndingInv'
    BY <2>18 DEF LeftCheck
  <2>19. ASSUME NEW h \in People \X Conns, LeftMark(h) PROVE EndingInv'
    BY <2>19 DEF LeftMark, Marked
  <2>20. ASSUME NEW h \in People \X Conns, LeftRecheck(h) PROVE EndingInv'
    BY <2>20 DEF LeftRecheck
  <2>21. ASSUME NEW h \in People \X Conns, LeftRestore(h) PROVE EndingInv'
    BY <2>21 DEF LeftRestore, Marked
  <2>22. ASSUME NEW r \in Endings, EndRead(r) PROVE EndingInv'
    BY <2>22 DEF EndRead
  <2>23. ASSUME NEW r \in Endings, RoomFinished(r) PROVE EndingInv'
    BY <2>23, ZenonT(60) DEF RoomFinished
  <2>24. ASSUME NEW r \in Endings, StaleList(r) PROVE EndingInv'
    BY <2>24 DEF StaleList
  <2>25. ASSUME NEW r \in Endings, StaleOccupants(r) PROVE EndingInv'
    BY <2>25 DEF StaleOccupants
  <2>26. ASSUME NEW r \in Endings, Finalize(r) PROVE EndingInv'
    BY <2>26 DEF Finalize, EndRow, Over
  <2>27. ASSUME NEW r \in Endings, Teardown(r) PROVE EndingInv'
    BY <2>27 DEF Teardown, Out
  <2>28. ASSUME NEW r \in Endings, RunTasks(r) PROVE EndingInv'
    BY <2>28 DEF RunTasks, Over
  <2>29. ASSUME NEW r \in Endings, WorkerDies(r) PROVE EndingInv'
    BY <2>29 DEF WorkerDies, Over
  <2>30. CASE RoomFinishes
    BY <2>30 DEF RoomFinishes
  <2>31. CASE WebhookLost
    BY <2>31 DEF WebhookLost
  <2>32. CASE Matures
    BY <2>32 DEF Matures
  <2>33. CASE UNCHANGED vars
    BY <2>33 DEF vars
  <2> QED
    BY <2>1, <2>2, <2>3, <2>4, <2>5, <2>6, <2>7, <2>8, <2>9, <2>10, <2>11,
       <2>12, <2>13, <2>14, <2>15, <2>16, <2>17, <2>18, <2>19, <2>20, <2>21, <2>22,
       <2>23, <2>24, <2>25, <2>26, <2>27, <2>28, <2>29, <2>30, <2>31, <2>32, <2>33
       DEF Next, JoinStep, LeaveStep, LeftStep, EndStep, EndBegins
<1> QED
  BY <1>1, <1>2, SessionTyping, PTL DEF Spec

\* The post-meeting tasks of a session never run twice, however many callers race to end
\* it and whichever responses are lost.
THEOREM TasksOnce == Spec => []TasksAtMostOnce
<1>1. EndingInv => TasksAtMostOnce
  BY DEF EndingInv, TasksAtMostOnce
<1> QED
  BY <1>1, EndingInvariance, PTL

\* The session implements SessionEnding: it ends once, stays ended, and its tasks follow
\* its end.
THEOREM ImplementsEnding == Spec => EndingSpec
<1>1. Init => Ending!Init
  BY DEF Init, Ending!Init
<1>2. TypeOK /\ EndingInv /\ [Next]_vars => [Ending!Next]_(Ending!vars)
  <2> SUFFICES ASSUME TypeOK, EndingInv, [Next]_vars
               PROVE  Ending!Next \/ UNCHANGED <<active, tasks>>
    BY DEF Ending!vars
  <2> USE DEF ends
  <2>1. ASSUME NEW p \in People,
               JoinRead(p) \/ RefreshRead(p) \/ JoinStep(p) \/ LeaveRead(p) \/ LeaveStep(p)
                 \/ Connects(p) \/ Disconnects(p) \/ TokenExpires(p) \/ Ages(p)
        PROVE  UNCHANGED <<active, tasks>>
    BY <2>1 DEF JoinRead, RefreshRead, JoinStep, JoinAdmit, JoinUpsert, JoinCheck, JoinIssue,
                JoinRollback, RefreshUpsert, RefreshIssue, LeaveRead, LeaveStep, LeaveMark,
                LeaveRemove, Connects, Disconnects, TokenExpires, Ages
  <2>2. ASSUME NEW h \in People \X Conns, HandleJoined(h) \/ LeftStep(h)
        PROVE  UNCHANGED <<active, tasks>>
    BY <2>2 DEF HandleJoined, LeftStep, LeftCheck, LeftMark, LeftRecheck, LeftRestore
  <2>3. ASSUME NEW r \in Endings, Finalize(r)
        PROVE  Ending!End \/ UNCHANGED <<active, tasks>>
    BY <2>3 DEF TypeOK, Finalize, EndRow, Ending!End
  <2>4. ASSUME NEW r \in Endings, RunTasks(r) PROVE Ending!RunTasks
    BY <2>4 DEF TypeOK, EndingInv, RunTasks, Ending!RunTasks
  <2>5. ASSUME NEW r \in Endings,
               EndBegins(r) \/ StaleOccupants(r) \/ Teardown(r) \/ WorkerDies(r)
        PROVE  UNCHANGED <<active, tasks>>
    BY <2>5 DEF EndBegins, EndRead, RoomFinished, StaleList, StaleOccupants, Teardown,
                WorkerDies
  <2>6. CASE RoomFinishes \/ WebhookLost \/ Matures \/ UNCHANGED vars
    BY <2>6 DEF RoomFinishes, WebhookLost, Matures, vars
  <2> QED
    BY <2>1, <2>2, <2>3, <2>4, <2>5, <2>6 DEF Next, EndStep, Ending!Next
<1> QED
  BY <1>1, <1>2, SessionTyping, EndingInvariance, PTL DEF Spec, EndingSpec, Ending!Spec

\* Only the caller that has the tasks of an ended session before it counts them off: as
\* long as no response is lost and no Worker dies, they do not get lost either.
THEOREM TasksOwned ==
    ASSUME Faults \cap {"response_lost", "worker_dies"} = {}
    PROVE  Spec => []TasksHaveOwner
<1>1. Init => TasksHaveOwner
  BY DEF Init, TasksHaveOwner
<1>2. TypeOK /\ EndingInv /\ TasksHaveOwner /\ [Next]_vars => TasksHaveOwner'
  <2> SUFFICES ASSUME TypeOK, EndingInv, TasksHaveOwner, [Next]_vars PROVE TasksHaveOwner'
    OBVIOUS
  <2> USE DEF TypeOK, EndingInv, TasksHaveOwner, EnderGoes
  <2>1. ASSUME UNCHANGED ends PROVE TasksHaveOwner'
    BY <2>1 DEF ends
  <2>2. ASSUME NEW p \in People,
               \/ JoinRead(p) \/ RefreshRead(p) \/ JoinStep(p)
               \/ LeaveRead(p) \/ LeaveStep(p)
               \/ Connects(p) \/ Disconnects(p) \/ TokenExpires(p) \/ Ages(p)
        PROVE  UNCHANGED ends
    BY <2>2
       DEF JoinRead, RefreshRead, JoinStep, JoinAdmit, JoinUpsert, JoinCheck, JoinIssue,
           JoinRollback, RefreshUpsert, RefreshIssue, LeaveRead, LeaveStep, LeaveMark,
           LeaveRemove, Connects, Disconnects, TokenExpires, Ages
  <2>3. ASSUME NEW h \in People \X Conns, HandleJoined(h) \/ LeftStep(h) PROVE UNCHANGED ends
    BY <2>3 DEF HandleJoined, LeftStep, LeftCheck, LeftMark, LeftRecheck, LeftRestore
  <2>4. ASSUME NEW r \in Endings, EndBegins(r) PROVE TasksHaveOwner'
    BY <2>4 DEF EndBegins, EndRead, RoomFinished, StaleList
  <2>5. ASSUME NEW r \in Endings, StaleOccupants(r) PROVE TasksHaveOwner'
    BY <2>5 DEF StaleOccupants
  <2>6. ASSUME NEW r \in Endings, Finalize(r) PROVE TasksHaveOwner'
    <3>1. CASE active /\ active'
      BY <3>1
    <3>2. CASE active /\ ~active'
      BY <2>6, <3>2 DEF Finalize, EndRow
    <3>3. CASE ~active
      BY <2>6, <3>3 DEF Finalize, EndRow, Over
    <3> QED
      BY <3>1, <3>2, <3>3
  <2>7. ASSUME NEW r \in Endings, Teardown(r) PROVE TasksHaveOwner'
    BY <2>7 DEF Teardown
  <2>8. ASSUME NEW r \in Endings, RunTasks(r) PROVE TasksHaveOwner'
    BY <2>8 DEF RunTasks
  <2>9. ASSUME NEW r \in Endings PROVE ~WorkerDies(r)
    BY DEF WorkerDies
  <2>10. CASE RoomFinishes \/ WebhookLost \/ Matures \/ UNCHANGED vars
    BY <2>1, <2>10 DEF RoomFinishes, WebhookLost, Matures, vars
  <2> QED
    BY <2>1, <2>2, <2>3, <2>4, <2>5, <2>6, <2>7, <2>8, <2>9, <2>10 DEF Next, EndStep
<1> QED
  BY <1>1, <1>2, SessionTyping, EndingInvariance, PTL DEF Spec

\* A person without a token has left nothing behind, or is in the middle of the join
\* that created what there is.
JoinInv ==
    \A p \in People :
        /\ join[p] \in {"idle", "admit"} /\ token[p] = "none"
            => row[p] = "absent" /\ p \notin admitted
        /\ join[p] \in {"admit", "upsert", "check", "issue", "rollback"}
            => fresh[p] \/ token[p] # "none"
        /\ join[p] \in {"refresh", "reissue"} => token[p] # "none"

\* JoinInv holds as long as the deletes of the rollback succeed.
LEMMA JoinInvariance ==
    ASSUME "db_down" \notin Faults
    PROVE  Spec => []JoinInv
<1>1. Init => JoinInv
  BY DEF Init, JoinInv
<1>2. TypeOK /\ JoinInv /\ [Next]_vars => JoinInv'
  <2> SUFFICES ASSUME TypeOK, JoinInv, [Next]_vars PROVE JoinInv'
    OBVIOUS
  <2> USE DEF TypeOK, JoinInv, Live, ends, requests, livekit, hooks, JoinGoes
  <2>1. ASSUME NEW p \in People, JoinRead(p) PROVE JoinInv'
    BY <2>1 DEF JoinRead
  <2>2. ASSUME NEW p \in People, JoinAdmit(p) PROVE JoinInv'
    BY <2>2 DEF JoinAdmit
  <2>3. ASSUME NEW p \in People, JoinUpsert(p) PROVE JoinInv'
    BY <2>3 DEF JoinUpsert, Upsert
  <2>4. ASSUME NEW p \in People, JoinCheck(p) PROVE JoinInv'
    BY <2>4 DEF JoinCheck
  <2>5. ASSUME NEW p \in People, JoinIssue(p) PROVE JoinInv'
    BY <2>5 DEF JoinIssue
  <2>6. ASSUME NEW p \in People, JoinRollback(p) PROVE JoinInv'
    BY <2>6 DEF JoinRollback
  <2>7. ASSUME NEW p \in People, RefreshRead(p) PROVE JoinInv'
    BY <2>7 DEF RefreshRead
  <2>8. ASSUME NEW p \in People, RefreshUpsert(p) PROVE JoinInv'
    BY <2>8 DEF RefreshUpsert, Upsert
  <2>9. ASSUME NEW p \in People, RefreshIssue(p) PROVE JoinInv'
    BY <2>9 DEF RefreshIssue
  <2>10. ASSUME NEW p \in People, Connects(p) PROVE JoinInv'
    BY <2>10 DEF Connects
  <2>11. ASSUME NEW p \in People, Disconnects(p) PROVE JoinInv'
    BY <2>11 DEF Disconnects, Out
  <2>12. ASSUME NEW p \in People, TokenExpires(p) PROVE JoinInv'
    BY <2>12 DEF TokenExpires
  <2>13. ASSUME NEW p \in People, Ages(p) PROVE JoinInv'
    BY <2>13 DEF Ages
  <2>14. ASSUME NEW p \in People, LeaveRead(p) PROVE JoinInv'
    BY <2>14 DEF LeaveRead
  <2>15. ASSUME NEW p \in People, LeaveMark(p) PROVE JoinInv'
    BY <2>15 DEF LeaveMark, Marked
  <2>16. ASSUME NEW p \in People, LeaveRemove(p) PROVE JoinInv'
    BY <2>16 DEF LeaveRemove, Out
  <2>17. ASSUME NEW h \in People \X Conns, HandleJoined(h) PROVE JoinInv'
    BY <2>17 DEF HandleJoined, Marked
  <2>18. ASSUME NEW h \in People \X Conns, LeftCheck(h) PROVE JoinInv'
    BY <2>18 DEF LeftCheck
  <2>19. ASSUME NEW h \in People \X Conns, LeftMark(h) PROVE JoinInv'
    BY <2>19 DEF LeftMark, Marked
  <2>20. ASSUME NEW h \in People \X Conns, LeftRecheck(h) PROVE JoinInv'
    BY <2>20 DEF LeftRecheck
  <2>21. ASSUME NEW h \in People \X Conns, LeftRestore(h) PROVE JoinInv'
    BY <2>21 DEF LeftRestore, Marked
  <2>22. ASSUME NEW r \in Endings, EndRead(r) PROVE JoinInv'
    BY <2>22 DEF EndRead
  <2>23. ASSUME NEW r \in Endings, RoomFinished(r) PROVE JoinInv'
    BY <2>23 DEF RoomFinished
  <2>24. ASSUME NEW r \in Endings, StaleList(r) PROVE JoinInv'
    BY <2>24 DEF StaleList
  <2>25. ASSUME NEW r \in Endings, StaleOccupants(r) PROVE JoinInv'
    BY <2>25 DEF StaleOccupants
  <2>26. ASSUME NEW r \in Endings, Finalize(r) PROVE JoinInv'
    BY <2>26 DEF Finalize, EndRow, Over
  <2>27. ASSUME NEW r \in Endings, Teardown(r) PROVE JoinInv'
    BY <2>27 DEF Teardown, Out
  <2>28. ASSUME NEW r \in Endings, RunTasks(r) PROVE JoinInv'
    BY <2>28 DEF RunTasks, Over
  <2>29. ASSUME NEW r \in Endings, WorkerDies(r) PROVE JoinInv'
    BY <2>29 DEF WorkerDies, Over
  <2>30. CASE RoomFinishes
    BY <2>30 DEF RoomFinishes
  <2>31. CASE WebhookLost
    BY <2>31 DEF WebhookLost
  <2>32. CASE Matures
    BY <2>32 DEF Matures
  <2>33. CASE UNCHANGED vars
    BY <2>33 DEF vars
  <2> QED
    BY <2>1, <2>2, <2>3, <2>4, <2>5, <2>6, <2>7, <2>8, <2>9, <2>10, <2>11,
       <2>12, <2>13, <2>14, <2>15, <2>16, <2>17, <2>18, <2>19, <2>20, <2>21, <2>22,
       <2>23, <2>24, <2>25, <2>26, <2>27, <2>28, <2>29, <2>30, <2>31, <2>32, <2>33
       DEF Next, JoinStep, LeaveStep, LeftStep, EndStep, EndBegins
<1> QED
  BY <1>1, <1>2, SessionTyping, PTL DEF Spec

\* A refused join leaves no trace of itself.
THEOREM RefusalsLeaveNothing ==
    ASSUME "db_down" \notin Faults
    PROVE  Spec => []RefusedJoinLeavesNothing
<1>1. JoinInv => RefusedJoinLeavesNothing
  BY DEF JoinInv, RefusedJoinLeavesNothing
<1> QED
  BY <1>1, JoinInvariance, PTL

\* Something is under way that will mark p connected, or take p out of the room.
Pending(p) ==
    \/ leave[p] = "remove"
    \/ \E n \in Conns : <<p, n>> \in joined \/ left[<<p, n>>] \in {"recheck", "restore"}

\* In an active session whoever is in the room has a connected row or will have one; the
\* webhooks find a row to mark because whoever has had a token has a row.
HasTrace(p) ==
    /\ p \in inRoom => token[p] # "none"
    /\ \A n \in Conns : <<p, n>> \in joined \/ left[<<p, n>>] # "none" => token[p] # "none"
    /\ token[p] # "none" => row[p] # "absent" /\ p \in admitted
    /\ join[p] \in {"upsert", "check", "issue", "refresh", "reissue"} => p \in admitted
    /\ join[p] \in {"check", "issue", "refresh", "reissue"} => row[p] # "absent"
    /\ join[p] = "rollback" => fresh[p]
    /\ fresh[p] /\ join[p] \in {"admit", "upsert", "check", "issue", "rollback"}
        => token[p] = "none"

Agrees(p) == p \in inRoom => row[p] = "connected" \/ Pending(p)

PresenceInv == active => \A p \in People : HasTrace(p) /\ Agrees(p)

\* Nobody in the room of an active session stays marked as gone, in whatever order the
\* webhooks arrive, as long as LiveKit answers and D1 takes the writes.
THEOREM PresenceAgrees ==
    ASSUME Faults \cap {"livekit_rejects", "db_down"} = {}
    PROVE  Spec => []InRoomIsConnected
<1>1. Init => PresenceInv
  BY DEF Init, PresenceInv, HasTrace, Agrees
<1>2. TypeOK /\ JoinInv /\ PresenceInv /\ [Next]_vars => PresenceInv'
  <2> SUFFICES ASSUME TypeOK, JoinInv, PresenceInv, [Next]_vars, active' PROVE PresenceInv'
    BY DEF PresenceInv
  <2> USE DEF TypeOK, PresenceInv, HasTrace, Agrees, Pending, Live, ends, requests,
              livekit, hooks, JoinGoes, LeaveGoes, LeftGoes
  <2>1. ASSUME NEW p \in People, JoinRead(p) PROVE PresenceInv'
    BY <2>1, ZenonT(60) DEF JoinRead
  <2>2. ASSUME NEW p \in People, JoinAdmit(p) PROVE PresenceInv'
    <3>1. ASSUME NEW q \in People PROVE HasTrace(q)'
      BY <2>2, <3>1 DEF JoinAdmit
    <3>2. ASSUME NEW q \in People PROVE Agrees(q)'
      BY <2>2, <3>2 DEF JoinAdmit
    <3> QED
      BY <3>1, <3>2
  <2>3. ASSUME NEW p \in People, JoinUpsert(p) PROVE PresenceInv'
    <3>1. /\ join[p] = "upsert"
          /\ Upsert(p)
          /\ JoinGoes(p, "check")
          /\ UNCHANGED <<inRoom, joined, left, leave, token, admitted, fresh>>
      BY <2>3 DEF JoinUpsert
    <3>2. ASSUME NEW q \in People
          PROVE  /\ (row'[q] # "absent") <=> (row[q] # "absent" \/ q = p)
                 /\ row[q] = "connected" => row'[q] = "connected"
      <4>1. CASE row[p] = "connected"
        BY <3>1, <4>1 DEF Upsert
      <4>2. CASE row[p] # "connected"
        BY <3>1, <4>2 DEF Upsert
      <4> QED
        BY <4>1, <4>2
    <3>3. ASSUME NEW q \in People PROVE HasTrace(q)'
      <4>1. join'[q] = IF q = p THEN "check" ELSE join[q]
        BY <3>1
      <4>2. HasTrace(q) /\ HasTrace(p)
        BY <2>3 DEF JoinUpsert
      <4> QED
        BY <3>1, <3>2, <4>1, <4>2
    <3>4. ASSUME NEW q \in People PROVE Agrees(q)'
      <4>1. Agrees(q)
        BY <2>3 DEF JoinUpsert
      <4> QED
        BY <3>1, <3>2, <4>1
    <3> QED
      BY <3>3, <3>4
  <2>4. ASSUME NEW p \in People, JoinCheck(p) PROVE PresenceInv'
    BY <2>4 DEF JoinCheck
  <2>5. ASSUME NEW p \in People, JoinIssue(p) PROVE PresenceInv'
    BY <2>5 DEF JoinIssue
  <2>6. ASSUME NEW p \in People, JoinRollback(p) PROVE PresenceInv'
    <3>1. ASSUME NEW q \in People PROVE HasTrace(q)'
      BY <2>6, <3>1 DEF JoinRollback
    <3>2. ASSUME NEW q \in People PROVE Agrees(q)'
      BY <2>6, <3>2 DEF JoinRollback
    <3> QED
      BY <3>1, <3>2
  <2>7. ASSUME NEW p \in People, RefreshRead(p) PROVE PresenceInv'
    BY <2>7 DEF RefreshRead
  <2>8. ASSUME NEW p \in People, RefreshUpsert(p) PROVE PresenceInv'
    <3>1. ASSUME NEW q \in People PROVE HasTrace(q)'
      BY <2>8, <3>1 DEF RefreshUpsert, Upsert
    <3>2. ASSUME NEW q \in People PROVE Agrees(q)'
      BY <2>8, <3>2, SMTT(30) DEF RefreshUpsert, Upsert
    <3> QED
      BY <3>1, <3>2
  <2>9. ASSUME NEW p \in People, RefreshIssue(p) PROVE PresenceInv'
    BY <2>9 DEF RefreshIssue
  <2>10. ASSUME NEW p \in People, Connects(p) PROVE PresenceInv'
    BY <2>10 DEF Connects
  <2>11. ASSUME NEW p \in People, Disconnects(p) PROVE PresenceInv'
    BY <2>11 DEF Disconnects, Out
  <2>12. ASSUME NEW p \in People, TokenExpires(p) PROVE PresenceInv'
    BY <2>12 DEF TokenExpires
  <2>13. ASSUME NEW p \in People, Ages(p) PROVE PresenceInv'
    BY <2>13 DEF Ages
  <2>14. ASSUME NEW p \in People, LeaveRead(p) PROVE PresenceInv'
    BY <2>14 DEF LeaveRead
  <2>15. ASSUME NEW p \in People, LeaveMark(p) PROVE PresenceInv'
    BY <2>15 DEF LeaveMark, Marked
  <2>16. ASSUME NEW p \in People, LeaveRemove(p) PROVE PresenceInv'
    <3>1. ASSUME NEW q \in People PROVE HasTrace(q)'
      BY <2>16, <3>1 DEF LeaveRemove, Out
    <3>2. ASSUME NEW q \in People PROVE Agrees(q)'
      BY <2>16, <3>2 DEF LeaveRemove, Out
    <3> QED
      BY <3>1, <3>2
  <2>17. ASSUME NEW h \in People \X Conns, HandleJoined(h) PROVE PresenceInv'
    <3> PICK q \in People, n \in Conns : h = <<q, n>>
      OBVIOUS
    <3>1. token[q] # "none" /\ row[q] # "absent"
      BY <2>17 DEF HandleJoined
    <3>2. row' = [row EXCEPT ![q] = "connected"] /\ left' = left /\ joined' = joined \ {<<q, n>>}
      BY <2>17, <3>1 DEF HandleJoined, Marked
    <3>3. ASSUME NEW p \in People PROVE HasTrace(p)'
      BY <2>17, <3>2, <3>3 DEF HandleJoined
    <3>4. ASSUME NEW p \in People, p # q PROVE Agrees(p)'
      <4>1. \A m \in Conns : <<p, m>> \in joined' <=> <<p, m>> \in joined
        BY <3>2, <3>4
      <4>2. Agrees(p) /\ leave' = leave /\ inRoom' = inRoom /\ row'[p] = row[p]
        BY <2>17, <3>2, <3>4 DEF HandleJoined
      <4> QED
        BY <3>2, <4>1, <4>2 DEF Agrees, Pending
    <3>5. Agrees(q)'
      BY <3>2
    <3> HIDE DEF HasTrace, Agrees, Pending
    <3> QED
      BY <3>3, <3>4, <3>5
  <2>18. ASSUME NEW h \in People \X Conns, LeftCheck(h) PROVE PresenceInv'
    <3> PICK q \in People, n \in Conns : h = <<q, n>>
      OBVIOUS
    <3> /\ left[<<q, n>>] = "pending"
        /\ \A p \in People, m \in Conns : <<p, m>> # <<q, n>> => left'[<<p, m>>] = left[<<p, m>>]
        /\ left'[<<q, n>>] \in {"none", "pending", "mark", "recheck", "restore"}
      BY <2>18 DEF LeftCheck
    <3>1. ASSUME NEW p \in People PROVE HasTrace(p)'
      BY <2>18, <3>1 DEF LeftCheck
    <3>2. ASSUME NEW p \in People, p # q PROVE Agrees(p)'
      <4>1. \A m \in Conns : left'[<<p, m>>] = left[<<p, m>>]
        BY <3>2
      <4>2. joined' = joined /\ leave' = leave /\ inRoom' = inRoom /\ row'[p] = row[p]
        BY <2>18, <3>2 DEF LeftCheck
      <4>3. Agrees(p)
        BY <2>18 DEF LeftCheck
      <4> QED
        BY <4>1, <4>2, <4>3 DEF Agrees, Pending
    <3>3. Agrees(q)'
      <4>1. joined' = joined /\ leave' = leave /\ inRoom' = inRoom /\ row' = row
        BY <2>18 DEF LeftCheck
      <4>2. ASSUME NEW m \in Conns, <<q, m>> \in joined \/ left[<<q, m>>] \in {"recheck", "restore"}
            PROVE  <<q, m>> \in joined' \/ left'[<<q, m>>] \in {"recheck", "restore"}
        <5>1. CASE m = n
          BY <4>1, <4>2, <5>1
        <5>2. CASE m # n
          BY <4>1, <4>2, <5>2
        <5> QED
          BY <5>1, <5>2
      <4>3. Agrees(q)
        BY <2>18 DEF LeftCheck
      <4> QED
        BY <4>1, <4>2, <4>3 DEF Agrees, Pending
    <3> HIDE DEF HasTrace, Agrees, Pending
    <3> QED
      BY <3>1, <3>2, <3>3
  <2>19. ASSUME NEW h \in People \X Conns, LeftMark(h) PROVE PresenceInv'
    <3> PICK q \in People, n \in Conns : h = <<q, n>>
      OBVIOUS
    <3> /\ left[<<q, n>>] = "mark"
        /\ \A p \in People, m \in Conns : <<p, m>> # <<q, n>> => left'[<<p, m>>] = left[<<p, m>>]
        /\ left'[<<q, n>>] \in {"none", "pending", "mark", "recheck", "restore"}
      BY <2>19 DEF LeftMark
    <3>1. ASSUME NEW p \in People PROVE HasTrace(p)'
      BY <2>19, <3>1 DEF LeftMark, Marked
    <3>2. ASSUME NEW p \in People, p # q PROVE Agrees(p)'
      <4>1. \A m \in Conns : left'[<<p, m>>] = left[<<p, m>>]
        BY <3>2
      <4>2. joined' = joined /\ leave' = leave /\ inRoom' = inRoom /\ row'[p] = row[p]
        BY <2>19, <3>2 DEF LeftMark, Marked
      <4>3. Agrees(p)
        BY <2>19 DEF LeftMark
      <4> QED
        BY <4>1, <4>2, <4>3 DEF Agrees, Pending
    <3>3. Agrees(q)'
      BY <2>19 DEF LeftMark, Marked
    <3> HIDE DEF HasTrace, Agrees, Pending
    <3> QED
      BY <3>1, <3>2, <3>3
  <2>20. ASSUME NEW h \in People \X Conns, LeftRecheck(h) PROVE PresenceInv'
    <3> PICK q \in People, n \in Conns : h = <<q, n>>
      OBVIOUS
    <3> /\ left[<<q, n>>] = "recheck"
        /\ \A p \in People, m \in Conns : <<p, m>> # <<q, n>> => left'[<<p, m>>] = left[<<p, m>>]
        /\ left'[<<q, n>>] \in {"none", "pending", "mark", "recheck", "restore"}
      BY <2>20 DEF LeftRecheck
    <3>1. ASSUME NEW p \in People PROVE HasTrace(p)'
      BY <2>20, <3>1 DEF LeftRecheck
    <3>2. ASSUME NEW p \in People, p # q PROVE Agrees(p)'
      <4>1. \A m \in Conns : left'[<<p, m>>] = left[<<p, m>>]
        BY <3>2
      <4>2. joined' = joined /\ leave' = leave /\ inRoom' = inRoom /\ row'[p] = row[p]
        BY <2>20, <3>2 DEF LeftRecheck
      <4>3. Agrees(p)
        BY <2>20 DEF LeftRecheck
      <4> QED
        BY <4>1, <4>2, <4>3 DEF Agrees, Pending
    <3>3. Agrees(q)'
      BY <2>20 DEF LeftRecheck
    <3> HIDE DEF HasTrace, Agrees, Pending
    <3> QED
      BY <3>1, <3>2, <3>3
  <2>21. ASSUME NEW h \in People \X Conns, LeftRestore(h) PROVE PresenceInv'
    <3> PICK q \in People, n \in Conns : h = <<q, n>>
      OBVIOUS
    <3> /\ left[<<q, n>>] = "restore"
        /\ \A p \in People, m \in Conns : <<p, m>> # <<q, n>> => left'[<<p, m>>] = left[<<p, m>>]
        /\ left'[<<q, n>>] \in {"none", "pending", "mark", "recheck", "restore"}
      BY <2>21 DEF LeftRestore
    <3>1. ASSUME NEW p \in People PROVE HasTrace(p)'
      BY <2>21, <3>1 DEF LeftRestore, Marked
    <3>2. ASSUME NEW p \in People, p # q PROVE Agrees(p)'
      <4>1. \A m \in Conns : left'[<<p, m>>] = left[<<p, m>>]
        BY <3>2
      <4>2. joined' = joined /\ leave' = leave /\ inRoom' = inRoom /\ row'[p] = row[p]
        BY <2>21, <3>2 DEF LeftRestore, Marked
      <4>3. Agrees(p)
        BY <2>21 DEF LeftRestore
      <4> QED
        BY <4>1, <4>2, <4>3 DEF Agrees, Pending
    <3>3. Agrees(q)'
      BY <2>21 DEF LeftRestore, Marked
    <3> HIDE DEF HasTrace, Agrees, Pending
    <3> QED
      BY <3>1, <3>2, <3>3
  <2>22. ASSUME NEW r \in Endings, EndRead(r) PROVE PresenceInv'
    BY <2>22 DEF EndRead
  <2>23. ASSUME NEW r \in Endings, RoomFinished(r) PROVE PresenceInv'
    BY <2>23 DEF RoomFinished
  <2>24. ASSUME NEW r \in Endings, StaleList(r) PROVE PresenceInv'
    BY <2>24 DEF StaleList
  <2>25. ASSUME NEW r \in Endings, StaleOccupants(r) PROVE PresenceInv'
    BY <2>25 DEF StaleOccupants
  <2>26. ASSUME NEW r \in Endings, Finalize(r) PROVE PresenceInv'
    BY <2>26 DEF Finalize, EndRow, Over
  <2>27. ASSUME NEW r \in Endings, Teardown(r) PROVE PresenceInv'
    BY <2>27 DEF Teardown, Out
  <2>28. ASSUME NEW r \in Endings, RunTasks(r) PROVE PresenceInv'
    BY <2>28 DEF RunTasks, Over
  <2>29. ASSUME NEW r \in Endings, WorkerDies(r) PROVE PresenceInv'
    BY <2>29 DEF WorkerDies, Over
  <2>30. CASE RoomFinishes
    BY <2>30 DEF RoomFinishes
  <2>31. CASE WebhookLost
    BY <2>31 DEF WebhookLost
  <2>32. CASE Matures
    BY <2>32 DEF Matures
  <2>33. CASE UNCHANGED vars
    BY <2>33 DEF vars
  <2> QED
    BY <2>1, <2>2, <2>3, <2>4, <2>5, <2>6, <2>7, <2>8, <2>9, <2>10, <2>11,
       <2>12, <2>13, <2>14, <2>15, <2>16, <2>17, <2>18, <2>19, <2>20, <2>21, <2>22,
       <2>23, <2>24, <2>25, <2>26, <2>27, <2>28, <2>29, <2>30, <2>31, <2>32, <2>33
       DEF Next, JoinStep, LeaveStep, LeftStep, EndStep, EndBegins
<1>3. PresenceInv => InRoomIsConnected
  BY DEF PresenceInv, Agrees, Pending, InRoomIsConnected, Quiet
<1>4. Spec => []JoinInv
  BY JoinInvariance
<1> QED
  BY <1>1, <1>2, <1>3, <1>4, SessionTyping, PTL DEF Spec

-----------------------------------------------------------------------------

\* Whoever has had a token was admitted, and only its webhooks and its connections can
\* mark a row connected.  So the row of a fresh join is the one its upsert wrote, or what a
\* leave or the end of the session made of it.
SweptInv ==
    \A p \in People :
        /\ token[p] # "none" => p \in admitted
        /\ p \in inRoom \/ row[p] = "connected" => token[p] # "none"
        /\ \A n \in Conns : <<p, n>> \in joined \/ left[<<p, n>>] # "none" => token[p] # "none"
        /\ join[p] \in {"upsert", "check", "issue", "refresh", "reissue"} => p \in admitted
        /\ join[p] = "rollback" => fresh[p]
        /\ fresh[p] /\ join[p] \in {"admit", "upsert", "check", "issue", "rollback"}
            => token[p] = "none"
        /\ fresh[p] /\ join[p] \in {"check", "issue"} => row[p] \in {"token_issued", "disconnected"}
        /\ fresh[p] /\ join[p] = "issue" /\ ~active => row[p] = "disconnected"

\* A fresh join that gets its token after the end of the session finds its row swept by
\* finalizeMeetingsEnd, whatever fails on the way: the look at the session between the
\* upsert and the token is enough.
THEOREM SweptFirst == Spec => []SweptBeforeToken
<1>1. Init => SweptInv
  BY DEF Init, SweptInv
<1>2. TypeOK /\ SweptInv /\ [Next]_vars => SweptInv'
  <2> SUFFICES ASSUME TypeOK, SweptInv, [Next]_vars PROVE SweptInv'
    OBVIOUS
  <2> USE DEF TypeOK, SweptInv, Live, ends, requests, livekit, hooks,
              JoinGoes, LeaveGoes, LeftGoes
  <2>1. ASSUME NEW p \in People, JoinRead(p) PROVE SweptInv'
    BY <2>1 DEF JoinRead
  <2>2. ASSUME NEW p \in People, JoinAdmit(p) PROVE SweptInv'
    BY <2>2 DEF JoinAdmit
  <2>3. ASSUME NEW p \in People, JoinUpsert(p) PROVE SweptInv'
    BY <2>3 DEF JoinUpsert, Upsert
  <2>4. ASSUME NEW p \in People, JoinCheck(p) PROVE SweptInv'
    BY <2>4 DEF JoinCheck
  <2>5. ASSUME NEW p \in People, JoinIssue(p) PROVE SweptInv'
    BY <2>5 DEF JoinIssue
  <2>6. ASSUME NEW p \in People, JoinRollback(p) PROVE SweptInv'
    BY <2>6 DEF JoinRollback
  <2>7. ASSUME NEW p \in People, RefreshRead(p) PROVE SweptInv'
    BY <2>7 DEF RefreshRead
  <2>8. ASSUME NEW p \in People, RefreshUpsert(p) PROVE SweptInv'
    BY <2>8 DEF RefreshUpsert, Upsert
  <2>9. ASSUME NEW p \in People, RefreshIssue(p) PROVE SweptInv'
    BY <2>9 DEF RefreshIssue
  <2>10. ASSUME NEW p \in People, Connects(p) PROVE SweptInv'
    BY <2>10 DEF Connects
  <2>11. ASSUME NEW p \in People, Disconnects(p) \/ LeaveRemove(p) PROVE SweptInv'
    BY <2>11 DEF Disconnects, LeaveRemove, Out
  <2>12. ASSUME NEW p \in People, TokenExpires(p) \/ Ages(p) \/ LeaveRead(p) PROVE SweptInv'
    BY <2>12 DEF TokenExpires, Ages, LeaveRead
  <2>13. ASSUME NEW p \in People, LeaveMark(p) PROVE SweptInv'
    BY <2>13 DEF LeaveMark, Marked
  <2>14. ASSUME NEW h \in People \X Conns, HandleJoined(h) PROVE SweptInv'
    BY <2>14 DEF HandleJoined, Marked
  <2>15. ASSUME NEW h \in People \X Conns, LeftCheck(h) \/ LeftRecheck(h) PROVE SweptInv'
    BY <2>15 DEF LeftCheck, LeftRecheck
  <2>16. ASSUME NEW h \in People \X Conns, LeftMark(h) PROVE SweptInv'
    BY <2>16 DEF LeftMark, Marked
  <2>17. ASSUME NEW h \in People \X Conns, LeftRestore(h) PROVE SweptInv'
    BY <2>17 DEF LeftRestore, Marked
  <2>18. ASSUME NEW r \in Endings, Finalize(r) PROVE SweptInv'
    BY <2>18 DEF Finalize, EndRow
  <2>19. ASSUME NEW r \in Endings, Teardown(r) PROVE SweptInv'
    BY <2>19 DEF Teardown, Out
  <2>20. ASSUME NEW r \in Endings,
                EndBegins(r) \/ StaleOccupants(r) \/ RunTasks(r) \/ WorkerDies(r)
         PROVE  SweptInv'
    BY <2>20 DEF EndBegins, EndRead, RoomFinished, StaleList, StaleOccupants, RunTasks,
                 WorkerDies
  <2>21. CASE RoomFinishes \/ WebhookLost \/ Matures \/ UNCHANGED vars
    BY <2>21 DEF RoomFinishes, WebhookLost, Matures, vars
  <2> QED
    BY <2>1, <2>2, <2>3, <2>4, <2>5, <2>6, <2>7, <2>8, <2>9, <2>10, <2>11, <2>12, <2>13,
       <2>14, <2>15, <2>16, <2>17, <2>18, <2>19, <2>20, <2>21
       DEF Next, JoinStep, LeaveStep, LeftStep, EndStep
<1>3. SweptInv => SweptBeforeToken
  BY DEF SweptInv, SweptBeforeToken
<1> QED
  BY <1>1, <1>2, <1>3, SessionTyping, PTL DEF Spec

=============================================================================
