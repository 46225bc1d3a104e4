-------------------------- MODULE WhiteboardProofs --------------------------
(***************************************************************************)
(* Proofs about WhiteboardRoom, for any users, any number of connections   *)
(* of each and any limit.                                                  *)
(***************************************************************************)
EXTENDS WhiteboardRoom, FiniteSetTheorems, TLAPS

\* A connection is one of a user.
LEMMA ConnectionsAre ==
    /\ \A s \in Connections : s[1] \in Users /\ s \in Of(s[1])
    /\ \A u \in Users : Of(u) \subseteq Connections
    /\ \A u \in Users : \A s \in Of(u) : s[1] = u
BY DEF Connections, Of

\* A session that is known to be writable has connected once.
WhiteboardInv ==
    /\ WbTypeOK
    /\ \A s \in writable : socket[s] # "none"
    /\ WritersMatchGrants
    /\ ControllerIsHere

LEMMA WhiteboardStarts == WbInit => WhiteboardInv
BY ConnectionsAre DEF WbInit, WhiteboardInv, WbTypeOK, WritersMatchGrants, ControllerIsHere, Live

\* What a step must keep, when no socket changes.
LEMMA GrantsChange ==
    ASSUME WhiteboardInv, UNCHANGED <<socket, writable>>,
           reconnecting' \in SUBSET Connections, reconnecting \subseteq reconnecting',
           editors' \in SUBSET Users, requests' \in SUBSET Users, departure' \in BOOLEAN,
           acting' \in Users \cup {WbNobody},
           \A u \in Users : (u \in editors' <=> u \in editors) \/ Scheduled({u}) \subseteq reconnecting',
           controller' \in {controller, WbNobody} \/ (controller' \in Users /\ Connected(controller'))
    PROVE  WhiteboardInv'
<1> USE DEF WhiteboardInv, WbTypeOK
<1>1. Live' = Live /\ Live \subseteq Connections
  BY DEF Live
<1>2. WbTypeOK' /\ \A s \in writable' : socket'[s] # "none"
  OBVIOUS
<1>3. ASSUME NEW s \in Live \ reconnecting' PROVE s \in writable <=> CanEdit(s[1])'
  <2>1. s[1] \in Users /\ s \in Scheduled({s[1]})
    BY <1>1, ConnectionsAre DEF Scheduled
  <2>2. s[1] \in editors' <=> s[1] \in editors
    BY <2>1, <1>3
  <2> QED
    BY <1>3, <2>2 DEF WritersMatchGrants, CanEdit
<1>4. WritersMatchGrants'
  BY <1>1, <1>3 DEF WritersMatchGrants
<1>5. ControllerIsHere'
  BY <1>1, ConnectionsAre DEF ControllerIsHere, Connected, Live
<1> QED
  BY <1>2, <1>4, <1>5

\* What a step must keep that ends sessions, or marks them to be ended.
LEMMA SessionsEnd ==
    ASSUME WhiteboardInv, NEW left \in SUBSET Live,
           socket' \in [Connections -> {"none", "open", "stale", "closing", "closed"}],
           Live' = left, \A s \in Connections : socket[s] # "none" => socket'[s] # "none",
           writable' \in SUBSET writable, left \cap writable \subseteq writable',
           reconnecting' \in SUBSET Connections, left \cap reconnecting \subseteq reconnecting',
           editors' \in SUBSET Users, requests' \in SUBSET Users, departure' \in BOOLEAN,
           acting' \in Users \cup {WbNobody}, controller' \in Users \cup {WbNobody},
           \A s \in left : (s[1] \in editors' <=> s[1] \in editors) \/ s \in reconnecting',
           ControllerIsHere'
    PROVE  WhiteboardInv'
<1> USE DEF WhiteboardInv, WbTypeOK
<1>1. WbTypeOK' /\ \A s \in writable' : socket'[s] # "none"
  OBVIOUS
<1>2. ASSUME NEW s \in left \ reconnecting' PROVE s \in writable' <=> CanEdit(s[1])'
  <2>1. s \in Live \ reconnecting /\ (s \in writable' <=> s \in writable)
    BY <1>2
  <2> QED
    BY <1>2, <2>1 DEF WritersMatchGrants, CanEdit
<1> QED
  BY <1>1, <1>2 DEF WritersMatchGrants

\* promoteNextActingManager closes the sessions of whom it lets draw.
LEMMA PromotionCloses ==
    ASSUME WhiteboardInv, NEW left \in SUBSET Live, PromoteNext(left)
    PROVE  /\ editors' \in SUBSET Users /\ acting' \in Users \cup {WbNobody}
           /\ reconnecting' \in SUBSET Connections /\ left \cap reconnecting \subseteq reconnecting'
           /\ \A s \in left : (s[1] \in editors' <=> s[1] \in editors) \/ s \in reconnecting'
<1> USE DEF WhiteboardInv, WbTypeOK
<1>1. left \subseteq Connections /\ Successors(left) \subseteq Users
  BY ConnectionsAre DEF Live, Successors, Here
<1>2. CASE UNCHANGED editors /\ acting' = WbNobody /\ reconnecting' = reconnecting \cap left
  BY <1>1, <1>2
<1>3. CASE \E u \in Successors(left) :
              /\ acting' = u /\ editors' = editors \cup {u}
              /\ reconnecting' = {s \in left : s \in reconnecting \/ (s[1] = u /\ u \notin editors)}
  BY <1>1, <1>3
<1> QED
  BY <1>2, <1>3 DEF PromoteNext

LEMMA WhiteboardStep == WhiteboardInv /\ [WbNext]_wbVars => WhiteboardInv'
<1> SUFFICES ASSUME WhiteboardInv, [WbNext]_wbVars PROVE WhiteboardInv'
  OBVIOUS
<1> USE WhiteboardAssumption DEF grants
<1>t. WbTypeOK /\ ControllerIsHere /\ Live \subseteq Connections
  BY DEF WhiteboardInv, Live
<1>1. ASSUME NEW s \in Connections, Connect(s) PROVE WhiteboardInv'
  <2> DEFINE evicted == {t \in Of(s[1]) : socket[t] = "stale"}
             left == {t \in Of(s[1]) : socket[t] = "open"}
             admitted == Cardinality(left) < WbLimit
  <2>1. /\ socket[s] = "none" /\ reconnecting' = reconnecting \ evicted
        /\ socket' = [t \in Connections |->
                          IF t \in evicted THEN "closed"
                          ELSE IF t # s THEN socket[t]
                          ELSE IF admitted THEN "open" ELSE "closed"]
        /\ writable' = (writable \ evicted) \cup (IF admitted /\ CanEdit(s[1]) THEN {s} ELSE {})
        /\ acting' \in {acting, WbNobody} /\ departure' \in BOOLEAN
        /\ UNCHANGED <<editors, requests, controller>>
    BY <1>1, <1>t DEF Connect, WbTypeOK
  <2>2. left = {} => admitted
    BY FS_EmptySet
  <2> HIDE DEF admitted
  <2>3. s \notin evicted /\ s \notin Live /\ s \notin writable
    BY <2>1 DEF Live, WhiteboardInv
  <2>4. \A t \in Live' : t \in Live \ evicted \/ (t = s /\ admitted)
    BY <2>1, <2>3 DEF Live
  <2>5. WbTypeOK' /\ \A t \in writable' : socket'[t] # "none"
    BY <1>t, <2>1, <2>3 DEF WbTypeOK, WhiteboardInv
  <2>6. ASSUME NEW t \in Live' \ reconnecting' PROVE t \in writable' <=> CanEdit(t[1])'
    <3>1. CASE t = s
      BY <2>1, <2>3, <2>4, <2>6, <3>1 DEF CanEdit
    <3>2. CASE t # s
      <4>1. t \in Live \ reconnecting /\ t \notin evicted
        BY <2>1, <2>4, <2>6, <3>2
      <4> QED
        BY <2>1, <3>2, <4>1 DEF WhiteboardInv, WritersMatchGrants, CanEdit
    <3> QED
      BY <3>1, <3>2
  <2>7. ControllerIsHere'
    <3> SUFFICES ASSUME controller # WbNobody
                 PROVE  \E t \in Of(controller) : socket'[t] \in {"open", "stale", "closing"}
      BY <2>1 DEF ControllerIsHere
    <3>1. PICK c \in Of(controller) : socket[c] \in {"open", "stale", "closing"}
      BY <1>t DEF ControllerIsHere
    <3>2. controller \in Users /\ c \in Connections /\ c[1] = controller /\ c # s
      BY <1>t, <2>1, <3>1, ConnectionsAre DEF WbTypeOK
    <3>3. CASE c \notin evicted
      BY <2>1, <3>1, <3>2, <3>3
    <3>4. CASE c \in evicted
      <4>1. s \in Of(controller) /\ controller = s[1]
        BY <3>2, <3>4, ConnectionsAre
      <4>2. CASE left = {}
        BY <2>1, <2>2, <2>3, <3>2, <4>1, <4>2
      <4>3. ASSUME NEW o \in left PROVE socket'[o] = "open" /\ o \in Of(controller)
        <5>1. o \in Of(s[1]) /\ socket[o] = "open" /\ o \in Connections /\ o # s
          BY <2>1, <3>2, <4>1, <4>3, ConnectionsAre
        <5> QED
          BY <2>1, <4>1, <5>1
      <4> QED
        BY <4>2, <4>3
    <3> QED
      BY <3>3, <3>4
  <2> QED
    BY <2>5, <2>6, <2>7 DEF WhiteboardInv, WritersMatchGrants
<1>2. ASSUME NEW s \in Connections, Drops(s) PROVE WhiteboardInv'
  <2>1. Live' = Live /\ ControllerIsHere'
    BY <1>2, <1>t, ConnectionsAre DEF Drops, Live, ControllerIsHere, WbTypeOK
  <2> QED
    BY <1>2, <1>t, <2>1, SessionsEnd DEF Drops, WbTypeOK
<1>3. ASSUME NEW s \in Connections, Closed(s) PROVE WhiteboardInv'
  <2> DEFINE left == Live \ {s}
  <2>1. /\ socket' = [socket EXCEPT ![s] = "closed"] /\ writable' = writable \ {s}
        /\ departure' \in BOOLEAN /\ requests' = requests
        /\ controller' \in {controller, WbNobody}
        /\ s[1] \notin Here(left) /\ s[1] = controller => controller' = WbNobody
    BY <1>3, <1>t DEF Closed, WbTypeOK
  <2>2. Live' = left
    BY <2>1, <1>t DEF Live, WbTypeOK
  <2>3. /\ editors' \in SUBSET Users /\ acting' \in Users \cup {WbNobody}
        /\ reconnecting' \in SUBSET Connections /\ left \cap reconnecting \subseteq reconnecting'
        /\ \A t \in left : (t[1] \in editors' <=> t[1] \in editors) \/ t \in reconnecting'
    <3>1. CASE PromoteNext(left)
      BY <3>1, PromotionCloses
    <3>2. CASE reconnecting' = reconnecting \ {s} /\ UNCHANGED <<acting, editors>>
      BY <3>2, <1>t DEF WbTypeOK
    <3> QED
      BY <1>3, <3>1, <3>2 DEF Closed
  <2>4. ControllerIsHere'
    <3> SUFFICES ASSUME controller' # WbNobody
                 PROVE  \E t \in Of(controller)' : socket'[t] \in {"open", "stale", "closing"}
      BY DEF ControllerIsHere
    <3>1. controller' = controller /\ controller \in Users
      BY <2>1, <1>t DEF WbTypeOK
    <3>2. CASE s[1] = controller
      <4>1. PICK t \in left : t[1] = controller
        BY <2>1, <3>1, <3>2 DEF Here
      <4> QED
        BY <1>t, <2>1, <3>1, <4>1, ConnectionsAre DEF Live, WbTypeOK
    <3>3. CASE s[1] # controller
      BY <1>t, <2>1, <3>1, <3>3, ConnectionsAre DEF ControllerIsHere, WbTypeOK
    <3> QED
      BY <3>2, <3>3
  <2> QED
    BY <1>t, <2>1, <2>2, <2>3, <2>4, SessionsEnd DEF WbTypeOK
<1>4. CASE GraceElapses
  <2>1. UNCHANGED <<socket, writable, requests, controller>> /\ departure' = FALSE
    BY <1>4 DEF GraceElapses
  <2>2. Live' = Live /\ ControllerIsHere'
    BY <2>1, <1>t DEF Live, ControllerIsHere
  <2>3. /\ editors' \in SUBSET Users /\ acting' \in Users \cup {WbNobody}
        /\ reconnecting' \in SUBSET Connections /\ Live \cap reconnecting \subseteq reconnecting'
        /\ \A t \in Live : (t[1] \in editors' <=> t[1] \in editors) \/ t \in reconnecting'
    <3>1. CASE PromoteNext(Live)
      BY <3>1, PromotionCloses
    <3>2. CASE UNCHANGED <<acting, editors, reconnecting>>
      BY <3>2, <1>t DEF WbTypeOK
    <3> QED
      BY <1>4, <3>1, <3>2 DEF GraceElapses
  <2> QED
    BY <1>t, <2>1, <2>2, <2>3, SessionsEnd DEF WbTypeOK
<1>5. ASSUME NEW mine \in SUBSET Connections, Reconnects(mine) PROVE WhiteboardInv'
  <2>1. /\ socket' = [t \in Connections |-> IF t \in mine \cap Live THEN "closing" ELSE socket[t]]
        /\ writable' = writable \ mine /\ reconnecting' = reconnecting \ mine
        /\ UNCHANGED <<grants>>
    BY <1>5 DEF Reconnects
  <2>2. Live' = Live \ mine
    BY <2>1, <1>t DEF Live
  <2>3. ControllerIsHere'
    BY <2>1, <1>t, ConnectionsAre DEF ControllerIsHere, WbTypeOK
  <2>4. /\ socket' \in [Connections -> {"none", "open", "stale", "closing", "closed"}]
        /\ \A t \in Connections : socket[t] # "none" => socket'[t] # "none"
    BY <2>1, <1>t DEF WbTypeOK
  <2> QED
    BY <1>t, <2>1, <2>2, <2>3, <2>4, SessionsEnd DEF WbTypeOK
<1>6. ASSUME NEW u \in Users, RequestPends(u) PROVE WhiteboardInv'
  BY <1>6, <1>t, GrantsChange DEF RequestPends, WbTypeOK
<1>7. ASSUME NEW u \in Users, RequestAlready(u) PROVE WhiteboardInv'
  BY <1>7, <1>t, GrantsChange DEF RequestAlready, WbTypeOK, Scheduled
<1>8. ASSUME NEW u \in Users, RequestApproved(u) PROVE WhiteboardInv'
  <2>1. acting' \in Users \cup {WbNobody}
    BY <1>8, <1>t, ConnectionsAre DEF RequestApproved, Here, WbTypeOK
  <2> QED
    BY <1>8, <1>t, <2>1, GrantsChange DEF RequestApproved, WbTypeOK, Scheduled
<1>9. ASSUME NEW u \in Users, Promote(u) PROVE WhiteboardInv'
  BY <1>9, <1>t, GrantsChange DEF Promote, WbTypeOK, Scheduled
<1>10. ASSUME NEW u \in Users, ReleaseController(u) PROVE WhiteboardInv'
  BY <1>10, <1>t, GrantsChange DEF ReleaseController, WbTypeOK
<1>11. ASSUME NEW u \in Users, Grant(u) PROVE WhiteboardInv'
  BY <1>11, <1>t, GrantsChange DEF Grant, WbTypeOK, Scheduled
<1>12. ASSUME NEW u \in Users, Deny(u) PROVE WhiteboardInv'
  BY <1>12, <1>t, GrantsChange DEF Deny, WbTypeOK
<1>13. ASSUME NEW u \in Users, NEW own \in BOOLEAN, Revoke(u, own) PROVE WhiteboardInv'
  BY <1>13, <1>t, GrantsChange DEF Revoke, WbTypeOK, Scheduled
<1>14. ASSUME NEW u \in Users, SetController(u) PROVE WhiteboardInv'
  BY <1>14, <1>t, GrantsChange DEF SetController, WbTypeOK
<1>15. CASE Reopens
  <2>1. Live' = {} /\ ControllerIsHere'
    BY <1>15, <1>t DEF Reopens, Live, ControllerIsHere
  <2> QED
    BY <1>15, <1>t, <2>1, SessionsEnd DEF Reopens, WbTypeOK
<1>16. CASE UNCHANGED wbVars
  BY <1>16, <1>t, GrantsChange DEF wbVars, WbTypeOK
<1> QED
  BY <1>1, <1>2, <1>3, <1>4, <1>5, <1>6, <1>7, <1>8, <1>9, <1>10, <1>11, <1>12, <1>13, <1>14,
     <1>15, <1>16 DEF WbNext, Asks, Timers

LEMMA WhiteboardInvariant == WbSpec => []WhiteboardInv
BY WhiteboardStarts, WhiteboardStep, PTL DEF WbSpec

\* A session that nobody is about to close accepts drawing exactly when its user may draw.
THEOREM WritersMatch == WbSpec => []WritersMatchGrants
<1>1. WhiteboardInv => WritersMatchGrants
  BY DEF WhiteboardInv
<1> QED
  BY <1>1, WhiteboardInvariant, PTL

\* The user who drives the pages has a session or one whose close is still to be handled.
THEOREM ControllerHere == WbSpec => []ControllerIsHere
<1>1. WhiteboardInv => ControllerIsHere
  BY DEF WhiteboardInv
<1> QED
  BY <1>1, WhiteboardInvariant, PTL

=============================================================================
