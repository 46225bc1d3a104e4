-------------------------- MODULE SuccessionProofs --------------------------
(***************************************************************************)
(* Proofs about HostSuccession, for any number of devices and members, any *)
(* bounds and any set of faults.                                           *)
(***************************************************************************)
EXTENDS HostSuccession, TLAPS

\* A departure is a person and the number of one of its connections, or 0.
LEMMA DepartureIs ==
    /\ \A p \in People, n \in Nat : n <= MaxConns[p] => <<p, n>> \in Departures
    /\ \A d \in Departures : d[1] \in People /\ d[2] \in Nat /\ d = <<d[1], d[2]>>
BY SuccessionAssumption DEF Departures, People

\* The type of every variable is kept, and every handler stays on its program points.
THEOREM Typing == Spec => []TypeOK
<1>1. Init => TypeOK
  BY SuccessionAssumption, DepartureIs DEF Init, TypeOK, Live, People
<1>2. TypeOK /\ [Next]_vars => TypeOK'
  <2> SUFFICES ASSUME TypeOK, [Next]_vars PROVE TypeOK'
    OBVIOUS
  <2> USE DEF TypeOK, Live, waiting, requests, livekit, elections,
          EntryGoes, Goes, Expired, Acting
  <2> Members \subseteq People /\ Hosts \subseteq People
    BY DEF People
  <2>1. CASE ListPending
    BY <2>1 DEF ListPending
  <2>2. ASSUME NEW m \in Members, Ages(m) PROVE TypeOK'
    BY <2>2 DEF Ages
  <2>3. ASSUME NEW m \in Members, NEW c \in {"approved", "denied"}, DecideRead(m, c)
        PROVE  TypeOK'
    BY <2>3 DEF DecideRead
  <2>4. ASSUME NEW m \in Members, DecideWrite(m) PROVE TypeOK'
    BY <2>4 DEF DecideWrite
  <2>5. ASSUME NEW m \in Members, JoinFirst(m) PROVE TypeOK'
    BY <2>5 DEF JoinFirst, JoinBegins, JoinExpired, FirstStatus, AdmissionAnswered
  <2>29. ASSUME NEW m \in Members, JoinRetries(m) PROVE TypeOK'
    BY <2>29 DEF JoinRetries, FirstStatus, AdmissionAnswered
  <2>6. ASSUME NEW m \in Members, JoinAgain(m) PROVE TypeOK'
    BY <2>6 DEF JoinAgain, JoinBegins, JoinExpired
  <2>7. ASSUME NEW m \in Members, RefreshRead(m) PROVE TypeOK'
    BY <2>7 DEF RefreshRead, JoinBegins
  <2>8. ASSUME NEW h \in Hosts, HostReturns(h) PROVE TypeOK'
    BY <2>8 DEF HostReturns, JoinBegins, JoinExpired
  <2>9. ASSUME NEW h \in Hosts, HostReclaims(h) PROVE TypeOK'
    BY <2>9 DEF HostReclaims, JoinExpired
  <2>10. ASSUME NEW p \in People, Enter(p) PROVE TypeOK'
    BY <2>10 DEF Enter
  <2>11. ASSUME NEW p \in People, EntryDies(p) PROVE TypeOK'
    BY <2>11 DEF EntryDies
  <2>12. ASSUME NEW p \in People, Connects(p) PROVE TypeOK'
    <3>1. conns[p] + 1 \in Nat /\ conns[p] + 1 <= MaxConns[p] /\ conns'[p] = conns[p] + 1
      BY <2>12, SuccessionAssumption DEF Connects, People
    <3>2. <<p, conns'[p]>> \in Departures
      BY <3>1, DepartureIs
    <3> QED
      BY <2>12, <3>1, <3>2 DEF Connects
  <2>13. ASSUME NEW p \in People, Disconnects(p) PROVE TypeOK'
    BY <2>13 DEF Disconnects
  <2>14. ASSUME NEW p \in People, LeaveRead(p) PROVE TypeOK'
    BY <2>14 DEF LeaveRead
  <2>15. ASSUME NEW p \in People, LeaveMark(p) PROVE TypeOK'
    BY <2>15 DEF LeaveMark, Marked, SeatedAfter
  <2>16. ASSUME NEW d \in Departures, HandleJoined(d) PROVE TypeOK'
    BY <2>16 DEF HandleJoined
  <2>17. ASSUME NEW d \in Departures, LeftCheck(d) PROVE TypeOK'
    BY <2>17 DEF LeftCheck
  <2>18. ASSUME NEW d \in Departures, LeftMark(d) PROVE TypeOK'
    BY <2>18 DEF LeftMark, Marked, SeatedAfter
  <2>19. ASSUME NEW d \in Departures, LeftRecheck(d) PROVE TypeOK'
    BY <2>19 DEF LeftRecheck
  <2>20. ASSUME NEW d \in Departures, LeftRestore(d) PROVE TypeOK'
    BY <2>20 DEF LeftRestore
  <2>21. ASSUME NEW d \in Departures, ElectHost(d) PROVE TypeOK'
    BY <2>21 DEF ElectHost
  <2>22. ASSUME NEW d \in Departures, ElectSelect(d) PROVE TypeOK'
    BY <2>22 DEF ElectSelect
  <2>23. ASSUME NEW d \in Departures, ElectOpen(d) PROVE TypeOK'
    BY <2>23 DEF ElectOpen
  <2>24. ASSUME NEW d \in Departures, ElectWrite(d) PROVE TypeOK'
    BY <2>24 DEF ElectWrite
  <2>25. ASSUME NEW d \in Departures, ElectPush(d) PROVE TypeOK'
    BY <2>25 DEF ElectPush
  <2>26. ASSUME NEW d \in Departures, ElectRollback(d) PROVE TypeOK'
    BY <2>26 DEF ElectRollback, Over
  <2>27. ASSUME NEW d \in Departures, DepartureDies(d) PROVE TypeOK'
    BY <2>27 DEF DepartureDies, Over
  <2>28. CASE UNCHANGED vars
    BY <2>28 DEF vars
  <2> QED
    BY <2>1, <2>2, <2>3, <2>4, <2>5, <2>6, <2>7, <2>8, <2>9, <2>10, <2>11, <2>12, <2>13, <2>14,
       <2>15, <2>16, <2>17, <2>18, <2>19, <2>20, <2>21, <2>22, <2>23, <2>24, <2>25, <2>26,
       <2>27, <2>28, <2>29 DEF Next, Waits, Elects
<1> QED
  BY <1>1, <1>2, PTL DEF Spec

-----------------------------------------------------------------------------

\* Whoever has a presence row, or is about to get one, was admitted; who repeats a first
\* upsert has none; whoever is in the room, has a webhook outstanding or is departing has a
\* presence row.
AdmittedInv ==
    /\ \A m \in Members :
        /\ entry[m] \notin {"idle", "retry"} \/ row[m] # "absent" => adm[m] = "approved"
        /\ entry[m] = "retry" => row[m] = "absent" /\ "response_lost" \in Faults
    /\ \A p \in inRoom : row[p] # "absent"
    /\ \A d \in Departures : d \in joined \/ at[d] # "idle" => row[d[1]] # "absent"

\* What a step may do to admissions and rows: decide what was open, and add the row of
\* somebody who was admitted.  Only a repeated upsert may do more to its own admission.
Decides ==
    /\ \A m \in Members : Admission!Follows(adm[m], adm'[m]) \/ entry[m] = "retry"
    /\ \A p \in People : row[p] # "absent" => row'[p] # "absent"
    /\ \A m \in Members : row'[m] # "absent" => row[m] # "absent" \/ adm[m] = "approved"

\* Every step of the model makes only such changes, and every await of a handler is a step.
LEMMA StepDecides == TypeOK /\ AdmittedInv /\ [Next]_vars => Decides
<1> SUFFICES ASSUME TypeOK, AdmittedInv, [Next]_vars PROVE Decides
  OBVIOUS
<1> USE DEF TypeOK, Live, waiting, requests, livekit, elections, EntryGoes, Goes, Expired, Acting,
        AdmittedInv, Decides, Admission!Follows
<1> Members \subseteq People /\ Hosts \subseteq People
  BY DEF People
<1> \A d \in Departures : d[1] \in People
  BY DepartureIs
<1>1. CASE ListPending
  BY <1>1 DEF ListPending
<1>2. ASSUME NEW m \in Members, Ages(m) PROVE Decides
  BY <1>2 DEF Ages
<1>3. ASSUME NEW m \in Members, NEW c \in {"approved", "denied"}, DecideRead(m, c)
      PROVE  Decides
  BY <1>3 DEF DecideRead
<1>4. ASSUME NEW m \in Members, DecideWrite(m) PROVE Decides
  BY <1>4 DEF DecideWrite
<1>5. ASSUME NEW m \in Members, JoinFirst(m) PROVE Decides
  BY <1>5 DEF JoinFirst, JoinBegins, JoinExpired, FirstStatus, AdmissionAnswered
<1>29. ASSUME NEW m \in Members, JoinRetries(m) PROVE Decides
  BY <1>29 DEF JoinRetries
<1>6. ASSUME NEW m \in Members, JoinAgain(m) PROVE Decides
  BY <1>6 DEF JoinAgain, JoinBegins, JoinExpired
<1>7. ASSUME NEW m \in Members, RefreshRead(m) PROVE Decides
  BY <1>7 DEF RefreshRead, JoinBegins
<1>8. ASSUME NEW h \in Hosts, HostReturns(h) PROVE Decides
  BY <1>8 DEF HostReturns, JoinBegins, JoinExpired
<1>9. ASSUME NEW h \in Hosts, HostReclaims(h) PROVE Decides
  BY <1>9 DEF HostReclaims, JoinExpired
<1>10. ASSUME NEW p \in People, Enter(p) PROVE Decides
  BY <1>10 DEF Enter
<1>11. ASSUME NEW p \in People, EntryDies(p) PROVE Decides
  BY <1>11 DEF EntryDies
<1>12. ASSUME NEW p \in People, Connects(p) PROVE Decides
  BY <1>12 DEF Connects
<1>13. ASSUME NEW p \in People, Disconnects(p) PROVE Decides
  BY <1>13 DEF Disconnects
<1>14. ASSUME NEW p \in People, LeaveRead(p) PROVE Decides
  BY <1>14 DEF LeaveRead
<1>15. ASSUME NEW p \in People, LeaveMark(p) PROVE Decides
  <2>1. <<p, 0>> \in Departures
    BY DepartureIs, SuccessionAssumption DEF People
  <2>2. at[<<p, 0>>] # "idle"
    BY <1>15 DEF LeaveMark
  <2>3. row[p] # "absent"
    BY <2>1, <2>2
  <2> QED
    BY <1>15, <2>3 DEF LeaveMark, Marked
<1>16. ASSUME NEW d \in Departures, HandleJoined(d) PROVE Decides
  BY <1>16 DEF HandleJoined
<1>17. ASSUME NEW d \in Departures, LeftCheck(d) PROVE Decides
  BY <1>17 DEF LeftCheck
<1>18. ASSUME NEW d \in Departures, LeftMark(d) PROVE Decides
  BY <1>18 DEF LeftMark, Marked, SeatedAfter
<1>19. ASSUME NEW d \in Departures, LeftRecheck(d) PROVE Decides
  BY <1>19 DEF LeftRecheck
<1>20. ASSUME NEW d \in Departures, LeftRestore(d) PROVE Decides
  BY <1>20 DEF LeftRestore
<1>21. ASSUME NEW d \in Departures, ElectHost(d) PROVE Decides
  BY <1>21 DEF ElectHost
<1>22. ASSUME NEW d \in Departures, ElectSelect(d) PROVE Decides
  BY <1>22 DEF ElectSelect
<1>23. ASSUME NEW d \in Departures, ElectOpen(d) PROVE Decides
  BY <1>23 DEF ElectOpen
<1>24. ASSUME NEW d \in Departures, ElectWrite(d) PROVE Decides
  BY <1>24 DEF ElectWrite
<1>25. ASSUME NEW d \in Departures, ElectPush(d) PROVE Decides
  BY <1>25 DEF ElectPush
<1>26. ASSUME NEW d \in Departures, ElectRollback(d) PROVE Decides
  BY <1>26 DEF ElectRollback, Over
<1>27. ASSUME NEW d \in Departures, DepartureDies(d) PROVE Decides
  BY <1>27 DEF DepartureDies, Over
<1>28. CASE UNCHANGED vars
  BY <1>28 DEF vars
<1> QED
  BY <1>1, <1>2, <1>3, <1>4, <1>5, <1>6, <1>7, <1>8, <1>9, <1>10, <1>11, <1>12, <1>13, <1>14,
     <1>15, <1>16, <1>17, <1>18, <1>19, <1>20, <1>21, <1>22, <1>23, <1>24, <1>25, <1>26,
     <1>27, <1>28, <1>29 DEF Next, Waits, Elects

-----------------------------------------------------------------------------

\* The invariant holds throughout.
THEOREM AdmittedInvariance == Spec => []AdmittedInv
<1>1. Init => AdmittedInv
  BY DepartureIs DEF Init, AdmittedInv, People
<1>2. TypeOK /\ TypeOK' /\ AdmittedInv /\ [Next]_vars => AdmittedInv'
  <2> SUFFICES ASSUME TypeOK, TypeOK', AdmittedInv, [Next]_vars PROVE AdmittedInv'
    OBVIOUS
  <2>a. Decides
    BY StepDecides
  <2> USE DEF TypeOK, Live, waiting, requests, livekit, elections, EntryGoes, Goes, Expired, Acting,
          AdmittedInv, Decides, Admission!Follows
  <2> Members \subseteq People /\ Hosts \subseteq People
    BY DEF People
  <2> \A d \in Departures : d[1] \in People
    BY DepartureIs
  <2>1. CASE ListPending
    BY <2>a, <2>1 DEF ListPending
  <2>2. ASSUME NEW m \in Members, Ages(m) PROVE AdmittedInv'
    BY <2>a, <2>2 DEF Ages
  <2>3. ASSUME NEW m \in Members, NEW c \in {"approved", "denied"}, DecideRead(m, c)
        PROVE  AdmittedInv'
    BY <2>a, <2>3 DEF DecideRead
  <2>4. ASSUME NEW m \in Members, DecideWrite(m) PROVE AdmittedInv'
    BY <2>a, <2>4 DEF DecideWrite
  <2>5. ASSUME NEW m \in Members, JoinFirst(m) PROVE AdmittedInv'
    BY <2>a, <2>5 DEF JoinFirst, JoinBegins, JoinExpired, FirstStatus, AdmissionAnswered
  <2>29. ASSUME NEW m \in Members, JoinRetries(m) PROVE AdmittedInv'
    BY <2>a, <2>29 DEF JoinRetries, FirstStatus, AdmissionAnswered
  <2>6. ASSUME NEW m \in Members, JoinAgain(m) PROVE AdmittedInv'
    BY <2>a, <2>6 DEF JoinAgain, JoinBegins, JoinExpired
  <2>7. ASSUME NEW m \in Members, RefreshRead(m) PROVE AdmittedInv'
    BY <2>a, <2>7 DEF RefreshRead, JoinBegins
  <2>8. ASSUME NEW h \in Hosts, HostReturns(h) PROVE AdmittedInv'
    BY <2>a, <2>8, SuccessionAssumption DEF HostReturns, JoinBegins, JoinExpired
  <2>9. ASSUME NEW h \in Hosts, HostReclaims(h) PROVE AdmittedInv'
    BY <2>a, <2>9 DEF HostReclaims, JoinExpired
  <2>10. ASSUME NEW p \in People, Enter(p) PROVE AdmittedInv'
    BY <2>a, <2>10 DEF Enter
  <2>11. ASSUME NEW p \in People, EntryDies(p) PROVE AdmittedInv'
    BY <2>a, <2>11 DEF EntryDies
  <2>12. ASSUME NEW p \in People, Connects(p) PROVE AdmittedInv'
    BY <2>a, <2>12 DEF Connects
  <2>13. ASSUME NEW p \in People, Disconnects(p) PROVE AdmittedInv'
    BY <2>a, <2>13 DEF Disconnects
  <2>14. ASSUME NEW p \in People, LeaveRead(p) PROVE AdmittedInv'
    BY <2>a, <2>14 DEF LeaveRead
  <2>15. ASSUME NEW p \in People, LeaveMark(p) PROVE AdmittedInv'
    <3>1. <<p, 0>> \in Departures /\ at[<<p, 0>>] # "idle"
      BY <2>15, DepartureIs, SuccessionAssumption DEF LeaveMark, People
    <3>2. row[p] # "absent"
      BY <3>1
    <3>3. UNCHANGED <<adm, entry, joined, inRoom>>
      BY <2>15 DEF LeaveMark
    <3>4. \A m \in Members : row'[m] # "absent" => row[m] # "absent"
      BY <2>15, <3>2 DEF LeaveMark, Marked
    <3>5. AdmittedInv!1'
      BY <3>3, <3>4, <2>a
    <3>6. AdmittedInv!2' /\ AdmittedInv!3'
      BY <2>a, <2>15, <3>1, <3>2, <3>3 DEF LeaveMark, Marked, SeatedAfter
    <3> QED
      BY <3>5, <3>6
  <2>16. ASSUME NEW d \in Departures, HandleJoined(d) PROVE AdmittedInv'
    BY <2>a, <2>16 DEF HandleJoined
  <2>17. ASSUME NEW d \in Departures, LeftCheck(d) PROVE AdmittedInv'
    BY <2>a, <2>17 DEF LeftCheck
  <2>18. ASSUME NEW d \in Departures, LeftMark(d) PROVE AdmittedInv'
    BY <2>a, <2>18 DEF LeftMark, Marked, SeatedAfter
  <2>19. ASSUME NEW d \in Departures, LeftRecheck(d) PROVE AdmittedInv'
    BY <2>a, <2>19 DEF LeftRecheck
  <2>20. ASSUME NEW d \in Departures, LeftRestore(d) PROVE AdmittedInv'
    BY <2>a, <2>20 DEF LeftRestore
  <2>21. ASSUME NEW d \in Departures, ElectHost(d) PROVE AdmittedInv'
    BY <2>a, <2>21 DEF ElectHost
  <2>22. ASSUME NEW d \in Departures, ElectSelect(d) PROVE AdmittedInv'
    BY <2>a, <2>22 DEF ElectSelect
  <2>23. ASSUME NEW d \in Departures, ElectOpen(d) PROVE AdmittedInv'
    BY <2>a, <2>23 DEF ElectOpen
  <2>24. ASSUME NEW d \in Departures, ElectWrite(d) PROVE AdmittedInv'
    BY <2>a, <2>24 DEF ElectWrite
  <2>25. ASSUME NEW d \in Departures, ElectPush(d) PROVE AdmittedInv'
    BY <2>a, <2>25 DEF ElectPush
  <2>26. ASSUME NEW d \in Departures, ElectRollback(d) PROVE AdmittedInv'
    BY <2>a, <2>26 DEF ElectRollback, Over
  <2>27. ASSUME NEW d \in Departures, DepartureDies(d) PROVE AdmittedInv'
    BY <2>a, <2>27 DEF DepartureDies, Over
  <2>28. CASE UNCHANGED vars
    BY <2>28 DEF vars
  <2> QED
    BY <2>1, <2>2, <2>3, <2>4, <2>5, <2>6, <2>7, <2>8, <2>9, <2>10, <2>11, <2>12, <2>13, <2>14,
       <2>15, <2>16, <2>17, <2>18, <2>19, <2>20, <2>21, <2>22, <2>23, <2>24, <2>25, <2>26,
       <2>27, <2>28, <2>29 DEF Next, Waits, Elects
<1> QED
  BY <1>1, <1>2, Typing, PTL DEF Spec

-----------------------------------------------------------------------------

\* HostSuccession implements AdmissionDecision: admitParticipant, denyParticipant, the
\* expiry of a waiting admission and an election that lets everybody in may race, an
\* admission is decided once, and only the admitted are given a presence row.  The one
\* exception is the fault under which a first join repeats its upsert.
THEOREM AdmissionRefinement ==
    ASSUME "response_lost" \notin Faults
    PROVE  Spec => AdmissionSpec
<1>1. Init => Admission!Init
  BY DEF Init, Admission!Init, People
<1>2. TypeOK /\ TypeOK' /\ AdmittedInv /\ [Next]_vars => [Admission!Next]_Admission!vars
  <2> SUFFICES ASSUME TypeOK, TypeOK', AdmittedInv, [Next]_vars PROVE Admission!Next
    OBVIOUS
  <2>1. Decides
    BY StepDecides
  <2> DEFINE entered == {m \in Members : row[m] # "absent"}
  <2>2. entered \subseteq entered' /\ \A m \in entered' \ entered : adm[m] = "approved"
    BY <2>1 DEF Decides, People
  <2>3. adm' \in [Members -> {"none", "awaiting", "approved", "denied"}]
    BY DEF TypeOK
  <2>4. \A m \in Members : Admission!Follows(adm[m], adm'[m])
    BY <2>1 DEF Decides, AdmittedInv
  <2> QED
    BY <2>2, <2>3, <2>4 DEF Admission!Next
<1> QED
  BY <1>1, <1>2, Typing, AdmittedInvariance, PTL DEF Spec, AdmissionSpec, Admission!Spec

-----------------------------------------------------------------------------

\* Connected, or on the way to be marked connected.
Present(p) == row[p] = "connected" \/ p \in inRoom
Leaders == Hosts \cup Acting

\* Where a departure still has its election before it.
Departing == {"left", "mark", "recheck", "restore", "elect", "select"}

\* The departures in S include those of every leader, and of everybody whom a departure
\* in S is about to make one.
Closed(S) ==
    \A d \in Departures :
        /\ at[d] \in Departing \cup {"write"}
        /\ d[1] \in Leaders \/ \E x \in S : at[x] = "write" /\ pick[x] = d[1]
        => d \in S

\* A departure that will hold an election, or has elected somebody who is there.
Carries(d) ==
    \/ at[d] \in Departing
    \/ at[d] = "write" /\ pick[d] \in Members /\ Present(pick[d])

\* The meeting is led, or will be: there is a leader, or whichever way one follows the
\* departures, from the leaders to those elected in their place, one still carries on.  An
\* elected member may leave before the role is written; then its own departure does.
Led ==
    \/ \E p \in Leaders : Present(p)
    \/ \A S \in SUBSET Departures : Closed(S) => \E d \in S : Carries(d)

LedInv ==
    /\ \A p \in People : conns[p] <= MaxConns[p]
    /\ \A m \in seated : row[m] = "connected"
    /\ seated # {} => Led

\* What a step does to the departures other than d.
Keeps(d) ==
    /\ Leaders \subseteq Leaders'
    /\ \A x \in Departures : x # d => at'[x] = at[x] /\ pick'[x] = pick[x]

\* Departure d goes on, and nobody but its person goes.
Advances(d) ==
    /\ Keeps(d)
    /\ Carries(d)'
    /\ \A p \in People : p # d[1] /\ Present(p) => Present(p)'

\* Departure d is dropped because its person is back.
Drops(d) ==
    /\ Keeps(d)
    /\ Leaders' = Leaders
    /\ at'[d] = "idle" /\ Present(d[1])'
    /\ \A p \in People : Present(p) => Present(p)'

\* Nothing happens to an election, and nobody goes.
Rests ==
    /\ Leaders \subseteq Leaders'
    /\ \A x \in Departures :
        at[x] \in Departing \cup {"write"} \/ at'[x] \in Departing \cup {"write"}
            => at'[x] = at[x] /\ pick'[x] = pick[x]
    /\ \A p \in People : Present(p) => Present(p)'

\* Members, and so leaders and those who are elected, are people.
LEMMA LeadersArePeople == TypeOK => Leaders \subseteq People /\ Acting \subseteq Members
BY DEF TypeOK, Leaders, Acting, People

\* A departure that goes on belongs to every closed set it could leave.
LEMMA AdvanceLeads == \A d \in Departures : TypeOK /\ Led /\ Advances(d) => Led'
<1> SUFFICES ASSUME NEW d \in Departures, TypeOK, Led, Advances(d),
                    ~\E p \in Leaders' : Present(p)',
                    NEW S \in SUBSET Departures, Closed(S)'
             PROVE  \E x \in S : Carries(x)'
  BY DEF Led
<1>1. Leaders \subseteq Leaders' /\ Leaders \subseteq People
  BY LeadersArePeople DEF Advances, Keeps
<1>2. CASE d \in S
  BY <1>2 DEF Advances
<1>3. CASE d \notin S
  <2>1. at'[d] \in Departing \cup {"write"}
    BY DEF Advances, Carries
  <2>2. d[1] \notin Leaders' /\ \A x \in S : ~(at'[x] = "write" /\ pick'[x] = d[1])
    BY <1>3, <2>1 DEF Closed
  <2>3. ~\E p \in Leaders : Present(p)
    BY <1>1, <2>2 DEF Advances
  <2>4. \A x \in S : x # d /\ at'[x] = at[x] /\ pick'[x] = pick[x]
    BY <1>3 DEF Advances, Keeps
  <2>5. Closed(S)
    <3> SUFFICES ASSUME NEW e \in Departures,
                        at[e] \in Departing \cup {"write"},
                        e[1] \in Leaders \/ \E x \in S : at[x] = "write" /\ pick[x] = e[1],
                        e # d
                 PROVE  e \in S
      BY <1>1, <2>2, <2>4 DEF Closed
    <3>1. at'[e] = at[e]
      BY DEF Advances, Keeps
    <3> QED
      BY <1>1, <2>4, <3>1 DEF Closed
  <2>6. PICK c \in S : Carries(c)
    BY <2>3, <2>5 DEF Led
  <2>7. CASE at[c] \in Departing
    BY <2>4, <2>7 DEF Carries
  <2>8. CASE at[c] = "write" /\ pick[c] \in Members /\ Present(pick[c])
    <3>1. pick[c] # d[1]
      BY <2>2, <2>4, <2>8
    <3>2. pick[c] \in People
      BY <2>8 DEF People
    <3> QED
      BY <2>4, <2>8, <3>1, <3>2 DEF Carries, Advances
  <2> QED
    BY <2>6, <2>7, <2>8 DEF Carries
<1> QED
  BY <1>2, <1>3

\* A departure whose person is back is not needed by a set it is taken out of.
LEMMA DropLeads == \A d \in Departures : TypeOK /\ Led /\ Drops(d) => Led'
<1> SUFFICES ASSUME NEW d \in Departures, TypeOK, Led, Drops(d),
                    ~\E p \in Leaders' : Present(p)',
                    NEW S \in SUBSET Departures, Closed(S)'
             PROVE  \E x \in S : Carries(x)'
  BY DEF Led
<1>1. Leaders' = Leaders /\ Leaders \subseteq People /\ d[1] \notin Leaders
  BY LeadersArePeople DEF Drops
<1>2. ~\E p \in Leaders : Present(p)
  BY <1>1 DEF Drops
<1>3. CASE \E x \in S : x # d /\ at'[x] = "write" /\ pick'[x] = d[1]
  <2>1. d[1] \in Members
    BY <1>1, DepartureIs DEF Leaders, People
  <2> QED
    BY <1>3, <2>1 DEF Carries, Drops
<1>4. CASE ~\E x \in S : x # d /\ at'[x] = "write" /\ pick'[x] = d[1]
  <2> DEFINE T == S \ {d}
  <2>1. \A x \in T : x \in Departures /\ x # d /\ at'[x] = at[x] /\ pick'[x] = pick[x]
    BY DEF Drops, Keeps
  <2>2. Closed(T)
    <3> SUFFICES ASSUME NEW e \in Departures,
                        at[e] \in Departing \cup {"write"},
                        e[1] \in Leaders \/ \E x \in T : at[x] = "write" /\ pick[x] = e[1]
                 PROVE  e \in T
      BY DEF Closed
    <3>1. e # d
      BY <1>1, <1>4, <2>1
    <3>2. at'[e] = at[e]
      BY <3>1 DEF Drops, Keeps
    <3> QED
      BY <1>1, <2>1, <3>1, <3>2 DEF Closed
  <2>3. PICK c \in T : Carries(c)
    BY <1>2, <2>2 DEF Led
  <2>4. pick[c] \in Members => pick[c] \in People
    BY DEF People
  <2> QED
    BY <2>1, <2>3, <2>4 DEF Carries, Drops
<1> QED
  BY <1>3, <1>4

\* A step that touches no election keeps the meeting led.
LEMMA RestLeads == TypeOK /\ Led /\ Rests => Led'
<1> SUFFICES ASSUME TypeOK, Led, Rests,
                    ~\E p \in Leaders' : Present(p)',
                    NEW S \in SUBSET Departures, Closed(S)'
             PROVE  \E x \in S : Carries(x)'
  BY DEF Led
<1>1. Leaders \subseteq Leaders' /\ Leaders \subseteq People
  BY LeadersArePeople DEF Rests
<1>2. ~\E p \in Leaders : Present(p)
  BY <1>1 DEF Rests
<1>3. Closed(S)
  <2> SUFFICES ASSUME NEW e \in Departures,
                      at[e] \in Departing \cup {"write"},
                      e[1] \in Leaders \/ \E x \in S : at[x] = "write" /\ pick[x] = e[1]
               PROVE  e \in S
    BY DEF Closed
  <2>1. at'[e] = at[e]
    BY DEF Rests
  <2>2. \A x \in S : at[x] = "write" => at'[x] = "write" /\ pick'[x] = pick[x]
    BY DEF Rests
  <2> QED
    BY <1>1, <2>1, <2>2 DEF Closed
<1>4. PICK c \in S : Carries(c)
  BY <1>2, <1>3 DEF Led
<1>5. at'[c] = at[c] /\ pick'[c] = pick[c]
  BY <1>4 DEF Carries, Rests
<1>6. pick[c] \in Members => pick[c] \in People
  BY DEF People
<1> QED
  BY <1>4, <1>5, <1>6 DEF Carries, Rests

\* The elected member becomes a leader: a closed set may have to take in the departure
\* that elected it, which no longer matters.
LEMMA WriteLeads == \A d \in Departures : TypeOK /\ TypeOK' /\ Led /\ ElectWrite(d) => Led'
<1> SUFFICES ASSUME NEW d \in Departures, TypeOK, TypeOK', Led, ElectWrite(d),
                    ~\E p \in Leaders' : Present(p)',
                    NEW S \in SUBSET Departures, Closed(S)'
             PROVE  \E x \in S : Carries(x)'
  BY DEF Led
<1>1. /\ at[d] = "write"
      /\ UNCHANGED <<row, inRoom, pick>>
      /\ \A x \in Departures : x # d => at'[x] = at[x]
  BY DEF ElectWrite, Goes, livekit, TypeOK
<1>2. Leaders \subseteq Leaders' /\ (pick[d] \in Members => pick[d] \in Leaders')
  BY DEF ElectWrite, Leaders, Acting, TypeOK
<1>3. \A p : Present(p)' <=> Present(p)
  BY <1>1 DEF Present
<1>4. ~\E p \in Leaders : Present(p)
  BY <1>2, <1>3
<1>5. ~Carries(d)
  BY <1>1, <1>2, <1>3 DEF Carries, Departing
<1> DEFINE T == S \cup {d}
<1>6. Closed(T)
  <2> SUFFICES ASSUME NEW e \in Departures,
                      at[e] \in Departing \cup {"write"},
                      e[1] \in Leaders \/ \E x \in T : at[x] = "write" /\ pick[x] = e[1],
                      e # d
               PROVE  e \in S
    BY DEF Closed
  <2>1. at'[e] = at[e]
    BY <1>1
  <2>2. e[1] \in People
    BY DepartureIs
  <2>3. CASE e[1] \in Leaders \/ pick[d] = e[1]
    <3>1. e[1] \in Leaders'
      BY <1>2, <2>2, <2>3 DEF Leaders, People
    <3> QED
      BY <2>1, <3>1 DEF Closed
  <2>4. CASE \E x \in S : x # d /\ at[x] = "write" /\ pick[x] = e[1]
    BY <1>1, <2>1, <2>4 DEF Closed
  <2> QED
    BY <2>3, <2>4
<1>7. PICK c \in T : Carries(c)
  BY <1>4, <1>6 DEF Led
<1>8. c \in S /\ c # d
  BY <1>5, <1>7
<1> QED
  BY <1>1, <1>3, <1>7, <1>8 DEF Carries

\* A departure of a leader that goes on leads the meeting by itself.
LEMMA LeaderLeads == \A d \in Departures : d[1] \in Leaders' /\ at'[d] \in Departing => Led'
BY DEF Led, Closed, Carries

\* LedInv is inductive.
THEOREM LedInvariance == Spec => []LedInv
<1>1. Init => LedInv
  BY SuccessionAssumption DEF Init, LedInv, People
<1>2. TypeOK /\ TypeOK' /\ LedInv /\ [Next]_vars => LedInv'
  <2> SUFFICES ASSUME TypeOK, TypeOK', LedInv, [Next]_vars PROVE LedInv'
    OBVIOUS
  <2> USE DEF TypeOK, LedInv, waiting, requests, livekit, elections, EntryGoes, Goes
  <2> Members \subseteq People /\ Hosts \subseteq People
    BY DEF People
  <2> \A d \in Departures : d[1] \in People
    BY DepartureIs
  <2>a. UNCHANGED <<row, role, inRoom, at, pick>> => Rests
    BY DEF Rests, Leaders, Acting, Present
  <2>b. UNCHANGED <<row, role, inRoom>> => Leaders' = Leaders /\ \A p : Present(p)' <=> Present(p)
    BY DEF Leaders, Acting, Present
  <2>1. CASE ListPending \/ UNCHANGED vars
    BY <2>1, <2>a, RestLeads DEF ListPending, vars
  <2>2. ASSUME NEW m \in Members,
                Waits(m) \/ JoinFirst(m) \/ JoinRetries(m) \/ JoinAgain(m) \/ RefreshRead(m)
        PROVE  LedInv'
    <3>1. UNCHANGED <<row, role, inRoom, conns, at, pick, seated>>
      BY <2>2 DEF Waits, Ages, DecideRead, DecideWrite, JoinFirst, JoinRetries, JoinAgain,
             RefreshRead
    <3> QED
      BY <3>1, <2>a, RestLeads
  <2>3. ASSUME NEW h \in Hosts, HostReturns(h) PROVE LedInv'
    BY <2>3, <2>a, RestLeads DEF HostReturns
  <2>4. ASSUME NEW h \in Hosts, HostReclaims(h) PROVE LedInv'
    <3>1. CASE Acting = {}
      <4>1. Rests
        BY <2>4, <3>1 DEF HostReclaims, Rests, Leaders, Acting, Present
      <4> QED
        BY <2>4, <3>1, <4>1, RestLeads DEF HostReclaims
    <3> QED
      BY <2>4, <3>1 DEF HostReclaims
  <2>5. ASSUME NEW p \in People, Enter(p) PROVE LedInv'
    <3>1. CASE p \in Acting /\ entry[p] = "participant"
      BY <2>5, <3>1 DEF Enter, Live
    <3>2. CASE ~(p \in Acting /\ entry[p] = "participant")
      <4>1. Leaders \subseteq Leaders'
        BY <2>5, <3>2 DEF Enter, Leaders, Acting
      <4>2. Rests
        BY <2>5, <4>1 DEF Enter, Rests, Present
      <4> QED
        BY <2>5, <3>2, <4>2, RestLeads DEF Enter
    <3> QED
      BY <3>1, <3>2
  <2>6. ASSUME NEW p \in People, EntryDies(p) PROVE LedInv'
    BY <2>6, <2>a, RestLeads DEF EntryDies
  <2>7. ASSUME NEW p \in People, Connects(p) PROVE LedInv'
    <3>1. Rests
      BY <2>7 DEF Connects, Rests, Leaders, Acting, Present
    <3>2. conns'[p] <= MaxConns[p]
      BY <2>7, SuccessionAssumption DEF Connects, People
    <3> QED
      BY <2>7, <3>1, <3>2, RestLeads DEF Connects
  <2>8. ASSUME NEW p \in People, Disconnects(p) PROVE LedInv'
    <3> DEFINE d == <<p, conns[p]>>
    <3>1. d \in Departures /\ d[1] = p
      BY DepartureIs
    <3>2. Advances(d)
      BY <2>8, <3>1 DEF Disconnects, Advances, Keeps, Carries, Departing, Leaders, Acting, Present
    <3> QED
      BY <2>8, <3>1, <3>2, AdvanceLeads DEF Disconnects
  <2>9. ASSUME NEW p \in People, LeaveRead(p) PROVE LedInv'
    <3> DEFINE d == <<p, 0>>
    <3>1. d \in Departures /\ d[1] = p
      <4>1. MaxConns[p] \in Nat /\ 0 <= MaxConns[p]
        BY SuccessionAssumption DEF People
      <4> QED
        BY <4>1, DepartureIs
    <3>2. Advances(d)
      BY <2>9, <2>b, <3>1 DEF LeaveRead, Advances, Keeps, Carries, Departing
    <3> QED
      BY <2>9, <3>1, <3>2, AdvanceLeads DEF LeaveRead
  <2>10. ASSUME NEW p \in People, LeaveMark(p) PROVE LedInv'
    <3> DEFINE d == <<p, 0>>
    <3>1. d \in Departures /\ d[1] = p
      <4>1. MaxConns[p] \in Nat /\ 0 <= MaxConns[p]
        BY SuccessionAssumption DEF People
      <4> QED
        BY <4>1, DepartureIs
    <3>2. CASE seated' = {}
      BY <2>10, <3>2 DEF LeaveMark
    <3>3. CASE Goes(d, "elect") /\ seated' = SeatedAfter(p)
      <4>1. row' = Marked(p) /\ UNCHANGED <<role, inRoom, conns, pick>>
        BY <2>10 DEF LeaveMark
      <4>2. \A m \in seated' : row'[m] = "connected"
        BY <3>3, <4>1, SuccessionAssumption DEF SeatedAfter, Marked
      <4>3. Advances(d)
        BY <3>1, <3>3, <4>1
           DEF Advances, Keeps, Carries, Departing, Leaders, Acting, Present, Marked
      <4>4. CASE p \in Hosts
        BY <3>1, <3>3, <4>1, <4>2, <4>4, LeaderLeads DEF Leaders, Departing
      <4>5. CASE p \notin Hosts
        BY <3>1, <3>3, <4>1, <4>2, <4>3, <4>5, AdvanceLeads DEF SeatedAfter
      <4> QED
        BY <4>4, <4>5
    <3> QED
      BY <2>10, <3>2, <3>3 DEF LeaveMark
  <2>11. ASSUME NEW d \in Departures, HandleJoined(d) PROVE LedInv'
    <3>1. Rests
      BY <2>11 DEF HandleJoined, Rests, Leaders, Acting, Present
    <3> QED
      BY <2>11, <3>1, RestLeads DEF HandleJoined
  <2>12. ASSUME NEW d \in Departures, LeftCheck(d) PROVE LedInv'
    <3>1. CASE d[1] \in inRoom /\ Goes(d, "idle")
      <4>1. Drops(d)
        BY <2>12, <2>b, <3>1 DEF LeftCheck, Drops, Keeps, Present
      <4> QED
        BY <2>12, <4>1, DropLeads DEF LeftCheck
    <3>2. CASE Goes(d, "mark")
      <4>1. Advances(d)
        BY <2>12, <2>b, <3>2 DEF LeftCheck, Advances, Keeps, Carries, Departing
      <4> QED
        BY <2>12, <4>1, AdvanceLeads DEF LeftCheck
    <3> QED
      BY <2>12, <3>1, <3>2 DEF LeftCheck
  <2>13. ASSUME NEW d \in Departures, LeftMark(d) PROVE LedInv'
    <3>1. Goes(d, "recheck") /\ UNCHANGED <<role, inRoom, conns, pick>>
      BY <2>13 DEF LeftMark
    <3>2. (row' = Marked(d[1]) /\ seated' = SeatedAfter(d[1])) \/ UNCHANGED <<row, seated>>
      BY <2>13 DEF LeftMark
    <3>3. Advances(d)
      BY <3>1, <3>2 DEF Advances, Keeps, Carries, Departing, Leaders, Acting, Present, Marked
    <3>4. \A m \in seated' : row'[m] = "connected"
      BY <3>2, SuccessionAssumption DEF SeatedAfter, Marked
    <3>5. CASE d[1] \in Hosts
      BY <3>1, <3>4, <3>5, LeaderLeads DEF Leaders, Departing
    <3>6. CASE d[1] \notin Hosts
      BY <3>1, <3>2, <3>3, <3>4, <3>6, AdvanceLeads DEF SeatedAfter
    <3> QED
      BY <3>5, <3>6
  <2>14. ASSUME NEW d \in Departures, LeftRecheck(d) PROVE LedInv'
    <3>1. Advances(d)
      BY <2>14, <2>b DEF LeftRecheck, Advances, Keeps, Carries, Departing
    <3> QED
      BY <2>14, <3>1, AdvanceLeads DEF LeftRecheck
  <2>15. ASSUME NEW d \in Departures, LeftRestore(d) PROVE LedInv'
    <3>1. CASE row' = [row EXCEPT ![d[1]] = "connected"] /\ Goes(d, "idle")
      <4>1. Drops(d)
        BY <2>15, <3>1 DEF LeftRestore, Drops, Keeps, Leaders, Acting, Present
      <4> QED
        BY <2>15, <3>1, <4>1, DropLeads DEF LeftRestore
    <3>2. CASE Goes(d, "elect") /\ UNCHANGED row
      <4>1. Advances(d)
        BY <2>15, <2>b, <3>2 DEF LeftRestore, Advances, Keeps, Carries, Departing
      <4> QED
        BY <2>15, <3>2, <4>1, AdvanceLeads DEF LeftRestore
    <3> QED
      BY <2>15, <3>1, <3>2 DEF LeftRestore
  <2>16. ASSUME NEW d \in Departures, ElectHost(d) PROVE LedInv'
    <3>1. CASE HostConnected
      <4>1. Led'
        BY <2>16, <3>1 DEF ElectHost, HostConnected, Led, Leaders, Present
      <4> QED
        BY <2>16, <4>1 DEF ElectHost
    <3>2. CASE ~HostConnected
      <4>1. Advances(d)
        BY <2>16, <2>b, <3>2 DEF ElectHost, Advances, Keeps, Carries, Departing
      <4> QED
        BY <2>16, <4>1, AdvanceLeads DEF ElectHost
    <3> QED
      BY <3>1, <3>2
  <2>17. ASSUME NEW d \in Departures, ElectSelect(d) PROVE LedInv'
    <3>1. CASE Goes(d, "open")
      <4>1. ~\E m \in Members : row[m] = "connected" /\ role[m] = "participant"
        BY <2>17, <3>1 DEF ElectSelect
      <4>2. seated' # {} => Led'
        BY <2>17, <4>1 DEF ElectSelect, Led, Leaders, Acting, Present
      <4> QED
        BY <2>17, <4>2 DEF ElectSelect
    <3>2. CASE Goes(d, "write")
      <4>1. PICK m \in Members : row[m] = "connected" /\ pick' = [pick EXCEPT ![d] = m]
        BY <2>17, <3>2 DEF ElectSelect
      <4>2. Advances(d)
        BY <2>17, <2>b, <3>2, <4>1 DEF ElectSelect, Advances, Keeps, Carries, Present
      <4> QED
        BY <2>17, <4>2, AdvanceLeads DEF ElectSelect
    <3> QED
      BY <2>17, <3>1, <3>2 DEF ElectSelect
  <2>18. ASSUME NEW d \in Departures, ElectOpen(d) PROVE LedInv'
    <3>1. Rests
      BY <2>18, <2>b DEF ElectOpen, Rests, Departing
    <3> QED
      BY <2>18, <3>1, RestLeads DEF ElectOpen
  <2>19. ASSUME NEW d \in Departures, ElectWrite(d) PROVE LedInv'
    BY <2>19, WriteLeads DEF ElectWrite
  <2>20. ASSUME NEW d \in Departures, ElectPush(d) PROVE LedInv'
    <3>1. Rests
      BY <2>20, <2>b DEF ElectPush, Rests, Departing
    <3> QED
      BY <2>20, <3>1, RestLeads DEF ElectPush
  <2>21. ASSUME NEW d \in Departures, ElectRollback(d) PROVE LedInv'
    <3>1. CASE seated' = {}
      BY <2>21, <3>1 DEF ElectRollback
    <3>2. CASE seated' # {}
      <4>1. Leaders' = Leaders /\ UNCHANGED <<row, inRoom, conns, seated>>
        BY <2>21, <3>2 DEF ElectRollback, Leaders, Acting
      <4>2. CASE Over(d) = "idle"
        <5>1. Rests
          BY <2>21, <4>1, <4>2 DEF ElectRollback, Rests, Departing, Present
        <5> QED
          BY <4>1, <5>1, RestLeads
      <4>3. CASE Over(d) = "left"
        <5>1. Advances(d)
          BY <2>21, <4>1, <4>3 DEF ElectRollback, Advances, Keeps, Carries, Departing, Present
        <5> QED
          BY <4>1, <5>1, AdvanceLeads
      <4> QED
        BY <4>2, <4>3 DEF Over
    <3> QED
      BY <3>1, <3>2
  <2>22. ASSUME NEW d \in Departures, DepartureDies(d) PROVE LedInv'
    <3>1. CASE d[2] = 0
      BY <2>22, <3>1 DEF DepartureDies
    <3>2. CASE d[2] # 0
      <4>1. Advances(d)
        BY <2>22, <2>b, <3>2 DEF DepartureDies, Over, Advances, Keeps, Carries, Departing
      <4> QED
        BY <2>22, <3>2, <4>1, AdvanceLeads DEF DepartureDies
    <3> QED
      BY <3>1, <3>2
  <2> QED
    BY <2>1, <2>2, <2>3, <2>4, <2>5, <2>6, <2>7, <2>8, <2>9, <2>10, <2>11, <2>12, <2>13, <2>14,
       <2>15, <2>16, <2>17, <2>18, <2>19, <2>20, <2>21, <2>22 DEF Next, Elects
<1> QED
  BY <1>1, <1>2, Typing, PTL DEF Spec

\* Whatever fails, and however departures, returns, elections and webhooks interleave: when
\* all departures are dealt with, a meeting whose host is gone has an acting host, who is
\* marked connected or is in the room.
THEOREM MeetingIsLed == Spec => []NoHeadlessMeeting
<1>1. LedInv => NoHeadlessMeeting
  <2> SUFFICES ASSUME LedInv, Settled, ~HostConnected, Hosts \cap inRoom = {}, seated # {}
               PROVE  \E m \in Acting : row[m] = "connected" \/ m \in inRoom
    BY DEF NoHeadlessMeeting
  <2>1. Closed({})
    BY DEF Settled, Closed, Departing
  <2>2. PICK p \in Leaders : Present(p)
    BY <2>1 DEF LedInv, Led
  <2> QED
    BY <2>2 DEF Leaders, Present, HostConnected
<1> QED
  BY <1>1, LedInvariance, PTL

=============================================================================
