----------------------------- MODULE RoomProofs -----------------------------
(***************************************************************************)
(* Proofs about RoomLifecycle, for any number of rooms and requests and    *)
(* any limit.                                                              *)
(***************************************************************************)
EXTENDS RoomLifecycle, FiniteSetTheorems, TLAPS

\* A room that a request is about to insert is new, and no other request's.
InsertsAreNew ==
    /\ \A c \in Creates : create[c].pc = "inserting" =>
            /\ create[c].room \in RoomIds /\ room[create[c].room] = "none"
            /\ create[c].room \notin links.rooms \cup retain.rooms
    /\ \A c, d \in Creates : /\ create[c].pc = "inserting" /\ create[d].pc = "inserting"
                             /\ create[c].room = create[d].room
                             => c = d

\* A request that reopens a room has a fresh one, which the clean-up of links leaves alone.
ReopensAreFresh ==
    /\ \A j \in Reopeners : reopen[j] # NoRoom => room[reopen[j]] = "permanent" /\ reopen[j] \in fresh
    /\ links.rooms \cap fresh = {}

\* What the clean-up is about to delete is not active.
DeletesAreOver ==
    /\ links.pc = "deleting" => links.rooms \cap active = {}
    /\ retain.pc = "rooms" => \A r \in retain.rooms : room[r] = "instant" => r \notin active

RoomsInv ==
    /\ RlTypeOK
    /\ \A r \in RoomIds : r \in active \/ history[r] # "none" => room[r] # "none"
    /\ InsertsAreNew
    /\ ~edge => ReopensAreFresh /\ DeletesAreOver

LEMMA RoomsStart == RlInit => RoomsInv
<1> SUFFICES ASSUME RlInit PROVE RoomsInv
  OBVIOUS
<1>1. RlTypeOK
  BY RoomsAssumption DEF RlInit, RlTypeOK
<1> QED
  BY <1>1, RoomsAssumption DEF RlInit, RoomsInv, InsertsAreNew, ReopensAreFresh, DeletesAreOver

LEMMA RoomsStep == RoomsInv /\ [RlNext]_rlVars => RoomsInv'
<1> SUFFICES ASSUME RoomsInv, [RlNext]_rlVars PROVE RoomsInv'
  OBVIOUS
<1> USE RoomsAssumption DEF RoomsInv, RlTypeOK, InsertsAreNew, ReopensAreFresh, DeletesAreOver,
        cron
<1>1. ASSUME NEW c \in Creates, NEW r \in RoomIds, NEW k \in {"instant", "permanent"},
             Starts(c, r, k)
      PROVE  RoomsInv'
  BY <1>1 DEF Starts, Unused
<1>2. ASSUME NEW c \in Creates, NEW answered \in BOOLEAN, Inserts(c, answered) PROVE RoomsInv'
  BY <1>2, SMTT(30) DEF Inserts, Unused
<1>3. ASSUME NEW j \in Reopeners, NEW r \in RoomIds, ReopenReads(j, r) PROVE RoomsInv'
  BY <1>3 DEF ReopenReads
<1>4. ASSUME NEW j \in Reopeners, ReopenInserts(j) PROVE RoomsInv'
  BY <1>4 DEF ReopenInserts
<1>5. ASSUME NEW r \in RoomIds, Ends(r) PROVE RoomsInv'
  BY <1>5 DEF Ends
<1>6. ASSUME NEW r \in RoomIds, RoomExpires(r) PROVE RoomsInv'
  BY <1>6 DEF RoomExpires
<1>7. ASSUME NEW r \in RoomIds, RetentionEnds(r) PROVE RoomsInv'
  BY <1>7 DEF RetentionEnds
<1>8. CASE LinksRead
  BY <1>8 DEF LinksRead
<1>9. CASE LinksCheck
  BY <1>9 DEF LinksCheck
<1>10. CASE LinksDelete
  BY <1>10 DEF LinksDelete, DeleteRooms
<1>11. CASE RetainRead
  BY <1>11 DEF RetainRead
<1>12. CASE RetainDelete
  BY <1>12 DEF RetainDelete
<1>13. CASE RetainCheck
  BY <1>13 DEF RetainCheck
<1>14. CASE RetainRooms
  BY <1>14 DEF RetainRooms, DeleteRooms
<1>15. CASE UNCHANGED rlVars
  BY <1>15 DEF rlVars
<1> QED
  BY <1>1, <1>2, <1>3, <1>4, <1>5, <1>6, <1>7, <1>8, <1>9, <1>10, <1>11, <1>12, <1>13, <1>14,
     <1>15 DEF RlNext

LEMMA RoomsInvariant == RlSpec => []RoomsInv
<1> QED
  BY RoomsStart, RoomsStep, PTL DEF RlSpec

-----------------------------------------------------------------------------

\* The daily clean-up takes no room whose session is active, unless a request had read the
\* room just before it expired.
THEOREM LiveRooms == RlSpec => LiveRoomStays
<1>1. RoomsInv /\ [RlNext]_rlVars => [~edge => \A r \in active : room'[r] # "none"]_rlVars
  <2> SUFFICES ASSUME RoomsInv, RlNext, ~edge, NEW r \in active PROVE room'[r] # "none"
    OBVIOUS
  <2>1. RlTypeOK /\ r \in RoomIds /\ room[r] # "none" /\ DeletesAreOver
    BY DEF RoomsInv, RlTypeOK
  <2>2. ASSUME NEW c \in Creates, NEW answered \in BOOLEAN, Inserts(c, answered)
        PROVE  room'[r] # "none"
    BY <2>1, <2>2 DEF Inserts, RlTypeOK
  <2>3. CASE LinksDelete
    <3>1. r \notin links.rooms
      BY <2>1, <2>3 DEF LinksDelete, DeletesAreOver
    <3> QED
      BY <2>1, <2>3, <3>1 DEF LinksDelete, DeleteRooms
  <2>4. CASE RetainRooms
    <3>1. r \notin {s \in retain.rooms : room[s] = "instant"}
      BY <2>1, <2>4 DEF RetainRooms, DeletesAreOver
    <3> QED
      BY <2>1, <2>4, <3>1 DEF RetainRooms, DeleteRooms
  <2>5. CASE UNCHANGED room
    BY <2>1, <2>5
  <2> QED
    BY <2>2, <2>3, <2>4, <2>5
       DEF RlNext, Starts, ReopenReads, ReopenInserts, Ends, RoomExpires, RetentionEnds, LinksRead,
           LinksCheck, RetainRead, RetainDelete, RetainCheck
<1> QED
  BY <1>1, RoomsInvariant, PTL DEF RlSpec, LiveRoomStays

-----------------------------------------------------------------------------
(* The limit on the host's simultaneous meetings is a condition of the     *)
(* statement that inserts the session.                                     *)

\* The rooms whose session createMeeting has started.
Created == active \ reopened

CapacityInv == IsFiniteSet(active) /\ Cardinality(Created) <= HostLimit

\* What is finite and within the limit stays so when it shrinks.
LEMMA FewerRooms ==
    ASSUME NEW S, NEW T, IsFiniteSet(S), T \subseteq S
    PROVE  /\ IsFiniteSet(T) /\ Cardinality(S) \in Nat /\ Cardinality(T) \in Nat
           /\ Cardinality(T) <= Cardinality(S)
<1> QED
  BY FS_Subset, FS_CardinalityType

LEMMA OneRoomMore ==
    ASSUME NEW S, IsFiniteSet(S), NEW r
    PROVE  /\ IsFiniteSet(S \cup {r}) /\ Cardinality(S) \in Nat
           /\ Cardinality(S \cup {r}) \in Nat /\ Cardinality(S \cup {r}) <= Cardinality(S) + 1
<1>1. Cardinality(S) \in Nat /\ IsFiniteSet(S \cup {r})
  BY FS_CardinalityType, FS_AddElement
<1>2. Cardinality(S \cup {r}) = IF r \in S THEN Cardinality(S) ELSE Cardinality(S) + 1
  BY FS_AddElement
<1> QED
  BY <1>1, <1>2

\* A step that starts no session keeps within the limit.
LEMMA FewerCreated ==
    ASSUME CapacityInv, active' \subseteq active, Created' \subseteq Created
    PROVE  CapacityInv'
<1>1. IsFiniteSet(active) /\ Cardinality(Created) <= HostLimit /\ HostLimit \in Nat
  BY RoomsAssumption DEF CapacityInv
<1>2. IsFiniteSet(active')
  BY <1>1, FewerRooms
<1>3. IsFiniteSet(Created)
  BY <1>1, FewerRooms DEF Created
<1>4. /\ Cardinality(Created) \in Nat /\ Cardinality(Created') \in Nat
      /\ Cardinality(Created') <= Cardinality(Created)
  BY <1>3, FewerRooms
<1>5. Cardinality(Created') <= HostLimit
  BY <1>1, <1>4
<1> QED
  BY <1>2, <1>5 DEF CapacityInv

\* createMeeting keeps within the limit of the host's plan, whatever requests overlap and
\* whichever answers of the database are lost.
THEOREM Capacity == RlSpec => []CapacityKept
<1>1. RlInit => CapacityInv
  <2> SUFFICES ASSUME RlInit PROVE CapacityInv
    OBVIOUS
  <2>1. active = {} /\ Created = {}
    BY DEF RlInit, Created
  <2>2. IsFiniteSet(active) /\ Cardinality(Created) = 0
    BY <2>1, FS_EmptySet
  <2> QED
    BY <2>2, RoomsAssumption DEF CapacityInv
<1>2. RoomsInv /\ CapacityInv /\ [RlNext]_rlVars => CapacityInv'
  <2> SUFFICES ASSUME RoomsInv, CapacityInv, [RlNext]_rlVars PROVE CapacityInv'
    OBVIOUS
  <2>1. ASSUME NEW c \in Creates, NEW answered \in BOOLEAN, Inserts(c, answered)
        PROVE  CapacityInv'
    <3>1. CASE room[create[c].room] = "none" /\ BelowLimit
      <4>1. active' = active \cup {create[c].room} /\ UNCHANGED reopened
        BY <2>1, <3>1 DEF Inserts
      <4>2. IsFiniteSet(active) /\ Created' \subseteq active'
        BY DEF CapacityInv, Created
      <4>3. /\ IsFiniteSet(active \cup {create[c].room}) /\ Cardinality(active) \in Nat
            /\ Cardinality(active \cup {create[c].room}) \in Nat
            /\ Cardinality(active \cup {create[c].room}) <= Cardinality(active) + 1
        BY <4>2, OneRoomMore
      <4>4. /\ IsFiniteSet(active')
            /\ Cardinality(active') = Cardinality(active \cup {create[c].room})
        BY <4>1, <4>3, Zenon
      <4>5. Cardinality(Created') \in Nat /\ Cardinality(Created') <= Cardinality(active')
        BY <4>2, <4>4, FewerRooms
      <4>6. Cardinality(Created') <= HostLimit
        BY <3>1, <4>3, <4>4, <4>5, RoomsAssumption DEF BelowLimit
      <4> QED
        BY <4>4, <4>6 DEF CapacityInv
    <3>2. CASE ~(room[create[c].room] = "none" /\ BelowLimit)
      <4>1. UNCHANGED <<active, reopened>>
        BY <2>1, <3>2 DEF Inserts
      <4> QED
        BY <4>1, FewerCreated DEF Created
    <3> QED
      BY <3>1, <3>2
  <2>2. ASSUME NEW j \in Reopeners, ReopenInserts(j) PROVE CapacityInv'
    <3>1. CASE room[reopen[j]] # "none" /\ reopen[j] \notin active
      <4>1. active' = active \cup {reopen[j]} /\ reopened' = reopened \cup {reopen[j]}
        BY <2>2, <3>1 DEF ReopenInserts
      <4>2. Created' \subseteq Created
        BY <4>1 DEF Created
      <4>3. IsFiniteSet(active) /\ Cardinality(Created) <= HostLimit /\ HostLimit \in Nat
        BY RoomsAssumption DEF CapacityInv
      <4>4. IsFiniteSet(active')
        BY <4>1, <4>3, OneRoomMore
      <4>5. IsFiniteSet(Created)
        BY <4>3, FewerRooms DEF Created
      <4>6. /\ Cardinality(Created) \in Nat /\ Cardinality(Created') \in Nat
            /\ Cardinality(Created') <= Cardinality(Created)
        BY <4>2, <4>5, FewerRooms
      <4>7. Cardinality(Created') <= HostLimit
        BY <4>3, <4>6
      <4> QED
        BY <4>4, <4>7 DEF CapacityInv
    <3>2. CASE ~(room[reopen[j]] # "none" /\ reopen[j] \notin active)
      <4>1. UNCHANGED <<active, reopened>>
        BY <2>2, <3>2 DEF ReopenInserts
      <4> QED
        BY <4>1, FewerCreated DEF Created
    <3> QED
      BY <3>1, <3>2
  <2>3. ASSUME NEW r \in RoomIds, Ends(r) PROVE CapacityInv'
    <3>1. active' = active \ {r} /\ reopened' = reopened \ {r}
      BY <2>3 DEF Ends
    <3> QED
      BY <3>1, FewerCreated DEF Created
  <2>4. ASSUME NEW rs, DeleteRooms(rs) PROVE CapacityInv'
    <3>1. active' = active \ rs /\ reopened' = reopened \ rs
      BY <2>4 DEF DeleteRooms
    <3> QED
      BY <3>1, FewerCreated DEF Created
  <2>5. CASE UNCHANGED <<active, reopened>>
    BY <2>5, FewerCreated DEF Created
  <2> QED
    BY <2>1, <2>2, <2>3, <2>4, <2>5
       DEF RlNext, rlVars, Starts, ReopenReads, RoomExpires, RetentionEnds, LinksRead, LinksCheck,
           LinksDelete, RetainRead, RetainDelete, RetainCheck, RetainRooms
<1>3. CapacityInv => CapacityKept
  BY DEF CapacityInv, CapacityKept, Created
<1> QED
  BY <1>1, <1>2, <1>3, RoomsInvariant, PTL DEF RlSpec

=============================================================================
