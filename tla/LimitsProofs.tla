---------------------------- MODULE LimitsProofs ----------------------------
(***************************************************************************)
(* Proofs about what may be used up: the invites to a space, and storage;  *)
(* for any number of requests and uploads.                                 *)
(***************************************************************************)
EXTENDS SpaceInvites, UploadQuota, FiniteSetTheorems, TLAPS

-----------------------------------------------------------------------------
(* Invites.  A use is counted in the batch that inserts the member.        *)

\* What one element more does to a cardinality.
LEMMA OneMore ==
    ASSUME NEW S, IsFiniteSet(S), NEW x
    PROVE  /\ IsFiniteSet(S \cup {x}) /\ Cardinality(S) \in Nat
           /\ Cardinality(S \cup {x}) \in Nat /\ Cardinality(S \cup {x}) <= Cardinality(S) + 1
<1>1. Cardinality(S) \in Nat /\ IsFiniteSet(S \cup {x})
  BY FS_CardinalityType, FS_AddElement
<1>2. Cardinality(S \cup {x}) = IF x \in S THEN Cardinality(S) ELSE Cardinality(S) + 1
  BY FS_AddElement
<1> QED
  BY <1>1, <1>2

InvitesInv ==
    /\ SpTypeOK /\ IsFiniteSet(came)
    /\ \A j \in JoinReqs : join[j].pc = "inserting" => join[j].user \in Joiners
    /\ InviteLimitKept

\* No step of a request or of a removal leaves the invariant.
LEMMA InvitesInvariant == SpSpec => []InvitesInv
<1>1. SpInit => InvitesInv
  BY InvitesAssumption, FS_EmptySet DEF SpInit, InvitesInv, SpTypeOK, InviteLimitKept, Unlimited
<1>2. InvitesInv /\ [SpNext]_spVars => InvitesInv'
  <2> SUFFICES ASSUME InvitesInv, [SpNext]_spVars PROVE InvitesInv'
    OBVIOUS
  <2> USE DEF InvitesInv, SpTypeOK, InviteLimitKept, Unlimited
  <2> DEFINE Points == {"new", "inserting", "joined", "already", "used up"}
  <2>1. ASSUME NEW j \in JoinReqs, NEW u \in Joiners, JoinReads(j, u) PROVE InvitesInv'
    <3>1. PICK pc \in Points : join' = [join EXCEPT ![j] = [pc |-> pc, user |-> u]]
      BY <2>1 DEF JoinReads
    <3>2. UNCHANGED <<maxUses, useCount, members, removal, came>>
      BY <2>1 DEF JoinReads
    <3> QED
      BY <3>1, <3>2
  <2>2. ASSUME NEW j \in JoinReqs, NEW answered \in BOOLEAN, JoinInserts(j, answered)
        PROVE  InvitesInv'
    <3>1. /\ IsFiniteSet(came \cup {j}) /\ Cardinality(came) \in Nat
          /\ Cardinality(came \cup {j}) \in Nat
          /\ Cardinality(came \cup {j}) <= Cardinality(came) + 1
      <4> HIDE DEF InvitesInv
      <4>1. IsFiniteSet(came)
        BY DEF InvitesInv
      <4> QED
        BY <4>1, OneMore
    <3>2. maxUses \in Nat /\ useCount \in Nat /\ join[j].user \in Joiners
      BY <2>2, InvitesAssumption DEF JoinInserts
    <3>3. /\ join' \in [JoinReqs -> [pc : Points, user : Joiners \cup {SpNobody}]]
          /\ \A i \in JoinReqs : join'[i].pc = "inserting" => join'[i].user \in Joiners
      <4> DEFINE Told == IF ~answered THEN "inserting"
                         ELSE IF HasRoom /\ join[j].user \notin members THEN "joined"
                         ELSE IF HasRoom THEN "already" ELSE "used up"
      <4>1. Told \in Points
        OBVIOUS
      <4>2. join' = [join EXCEPT ![j].pc = Told]
        BY <2>2 DEF JoinInserts
      <4> HIDE DEF Told
      <4> QED
        BY <3>2, <4>1, <4>2
    <3>4. UNCHANGED <<maxUses, removal>>
      BY <2>2 DEF JoinInserts
    <3>6. CASE HasRoom /\ join[j].user \notin members
      <4>1. members' = members \cup {join[j].user} /\ useCount' = useCount + 1
            /\ came' = came \cup {j}
        BY <2>2, <3>6 DEF JoinInserts
      <4>0. Cardinality(came) <= useCount /\ came \subseteq JoinReqs /\ members \subseteq Joiners
        OBVIOUS
      <4> HIDE DEF InvitesInv
      <4>2. Cardinality(came') = Cardinality(came \cup {j}) /\ IsFiniteSet(came')
        BY <3>1, <4>1, Zenon
      <4>3. Cardinality(came') <= useCount'
        BY <3>1, <3>2, <4>0, <4>1, <4>2
      <4>4. maxUses' = maxUses /\ (maxUses # 0 => useCount < maxUses)
        BY <3>4, <3>6 DEF HasRoom
      <4>5. maxUses' # 0 => useCount' <= maxUses'
        BY <3>2, <4>1, <4>4
      <4>6. came' \subseteq JoinReqs /\ members' \subseteq Joiners /\ useCount' \in Nat
        BY <3>2, <4>0, <4>1
      <4>7. SpTypeOK'
        BY <3>3, <3>4, <4>6 DEF InvitesInv
      <4> HIDE DEF SpTypeOK
      <4> QED
        BY <3>3, <4>2, <4>3, <4>5, <4>7, Zenon DEF InvitesInv
    <3>7. CASE ~(HasRoom /\ join[j].user \notin members)
      <4>1. UNCHANGED <<members, useCount, came>>
        BY <2>2, <3>7 DEF JoinInserts
      <4> QED
        BY <3>3, <3>4, <4>1
    <3> QED
      BY <3>6, <3>7
  <2>3. ASSUME NEW u \in Joiners, Adds(u) PROVE InvitesInv'
    BY <2>3 DEF Adds
  <2>4. ASSUME NEW u \in Joiners, NEW r \in Removals, Evicts(r, u) PROVE InvitesInv'
    BY <2>4 DEF Evicts
  <2>5. ASSUME NEW r \in Removals, Removes(r) PROVE InvitesInv'
    BY <2>5 DEF Removes
  <2>6. CASE UNCHANGED spVars
    BY <2>6 DEF spVars
  <2> QED
    BY <2>1, <2>2, <2>3, <2>4, <2>5, <2>6 DEF SpNext
<1> QED
  BY <1>1, <1>2, PTL DEF SpSpec

\* joinViaInvite lets in no more members than the invite has uses.
THEOREM InviteLimit == SpSpec => []InviteLimitKept
<1>1. InvitesInv => InviteLimitKept
  BY DEF InvitesInv
<1> QED
  BY <1>1, InvitesInvariant, PTL

-----------------------------------------------------------------------------
(* The storage quota.  A request that was granted counted, one by one, what *)
(* was stored when it measured or is reserved when it sums up; nothing can *)
(* be in neither, as a reservation outlives the requests that measured     *)
(* before its object was stored.                                           *)

Granted == {u \in Uploads : stage[u] = "granted"}
Asking == {u \in Uploads : stage[u] \in {"measured", "reserved"}}
Holding == {u \in Uploads : stage[u] \in {"reserved", "granted"}}

QuotaInv ==
    /\ UqTypeOK
    /\ ~slow => /\ Holding \subseteq reserved
                /\ \A u \in stored : stage[u] \in {"granted", "over"}
                /\ \A u \in Asking : Cardinality(stored \ reserved) <= measured[u]
                /\ Cardinality(stored \cup Granted) <= QuotaLimit

\* Sets of uploads are finite, and a part of one is no larger.
LEMMA FewerUploads ==
    ASSUME NEW S \in SUBSET Uploads, NEW T \in SUBSET S
    PROVE  Cardinality(S) \in Nat /\ Cardinality(T) \in Nat /\ Cardinality(T) <= Cardinality(S)
<1>1. IsFiniteSet(S)
  BY QuotaAssumption, FS_Subset
<1>2. IsFiniteSet(T) /\ Cardinality(T) <= Cardinality(S)
  BY <1>1, FS_Subset
<1> QED
  BY <1>1, <1>2, FS_CardinalityType

\* What two sets of uploads have together is no more than the sum.
LEMMA SumOfUploads ==
    ASSUME NEW S \in SUBSET Uploads, NEW T \in SUBSET Uploads
    PROVE  Cardinality(S \cup T) <= Cardinality(S) + Cardinality(T)
<1>1. IsFiniteSet(S) /\ IsFiniteSet(T) /\ IsFiniteSet(S \cap T)
  BY QuotaAssumption, FS_Subset
<1>2. Cardinality(S) \in Nat /\ Cardinality(T) \in Nat /\ Cardinality(S \cap T) \in Nat
  BY <1>1, FS_CardinalityType
<1>3. Cardinality(S \cup T) = Cardinality(S) + Cardinality(T) - Cardinality(S \cap T)
  BY <1>1, FS_Union
<1> QED
  BY <1>2, <1>3

\* No step of an upload leaves the invariant.
LEMMA QuotaInvariant == UqSpec => []QuotaInv
<1>1. UqInit => QuotaInv
  <2> SUFFICES ASSUME UqInit PROVE QuotaInv
    OBVIOUS
  <2>1. stored \cup Granted = {} /\ Asking = {} /\ Granted = {}
    BY DEF UqInit, Granted, Asking
  <2>2. Cardinality(stored \cup Granted) = 0
    BY <2>1, FS_EmptySet, Zenon
  <2>3. UqTypeOK /\ stored = {} /\ Holding = {}
    BY DEF UqInit, UqTypeOK, Holding
  <2> QED
    BY <2>1, <2>2, <2>3, QuotaAssumption DEF QuotaInv
<1>2. QuotaInv /\ [UqNext]_uqVars => QuotaInv'
  <2> SUFFICES ASSUME QuotaInv, [UqNext]_uqVars PROVE QuotaInv'
    OBVIOUS
  <2>1. UqTypeOK /\ Granted \subseteq Uploads /\ Asking \subseteq Uploads
    BY DEF QuotaInv, Granted, Asking
  <2>2. ASSUME ~slow
        PROVE  /\ Holding \subseteq reserved
               /\ \A u \in stored : stage[u] \in {"granted", "over"}
               /\ \A u \in Asking : Cardinality(stored \ reserved) <= measured[u]
               /\ Cardinality(stored \cup Granted) <= QuotaLimit
    BY <2>2 DEF QuotaInv
  <2>3. ASSUME UqTypeOK', slow' = slow,
               ~slow => /\ Holding' \subseteq reserved'
                        /\ \A u \in stored' : stage'[u] \in {"granted", "over"},
               ~slow => \A u \in Asking' : Cardinality(stored' \ reserved') <= measured'[u],
               ~slow => Cardinality(stored' \cup Granted') <= QuotaLimit
        PROVE  QuotaInv'
    BY <2>3 DEF QuotaInv
  <2>4. ASSUME UNCHANGED <<slow, stored>>, Granted' \subseteq Granted PROVE
               ~slow => Cardinality(stored' \cup Granted') <= QuotaLimit
    <3> SUFFICES ASSUME ~slow PROVE Cardinality(stored' \cup Granted') <= QuotaLimit
      OBVIOUS
    <3>1. /\ stored \cup Granted \in SUBSET Uploads
          /\ stored' \cup Granted' \in SUBSET (stored \cup Granted)
      BY <2>1, <2>4 DEF UqTypeOK
    <3>2. /\ Cardinality(stored \cup Granted) \in Nat
          /\ Cardinality(stored' \cup Granted') \in Nat
          /\ Cardinality(stored' \cup Granted') <= Cardinality(stored \cup Granted)
      BY <3>1, FewerUploads
    <3> QED
      BY <2>2, <3>2, QuotaAssumption
  <2>5. CASE UNCHANGED uqVars
    BY <2>5 DEF uqVars, QuotaInv, UqTypeOK, Granted, Asking, Holding
  <2>6. ASSUME NEW u \in Uploads, Measure(u) PROVE QuotaInv'
    <3>1. UqTypeOK' /\ UNCHANGED <<slow, reserved, stored>> /\ Granted' = Granted /\ Holding' = Holding
      <4>1. Cardinality(stored) \in Nat
        BY <2>1, FewerUploads DEF UqTypeOK
      <4> QED
        BY <2>1, <2>6, <4>1 DEF Measure, Goes, UqTypeOK, Granted, Holding
    <3>2. ~slow => \A v \in stored' : stage'[v] \in {"granted", "over"}
      BY <2>1, <2>2, <2>6 DEF Measure, Goes, UqTypeOK
    <3>3. ASSUME ~slow, NEW v \in Asking'
          PROVE  Cardinality(stored' \ reserved') <= measured'[v]
      <4>1. Cardinality(stored' \ reserved') = Cardinality(stored \ reserved)
        BY <3>1, Zenon
      <4>2. CASE v = u
        <5>1. measured'[v] = Cardinality(stored)
          BY <2>1, <2>6, <4>2 DEF Measure, UqTypeOK
        <5>2. Cardinality(stored \ reserved) <= Cardinality(stored)
          BY <2>1, FewerUploads DEF UqTypeOK
        <5> QED
          BY <4>1, <5>1, <5>2
      <4>3. CASE v # u
        <5>1. measured'[v] = measured[v] /\ v \in Asking
          BY <2>1, <2>6, <3>3, <4>3 DEF Measure, Goes, UqTypeOK, Asking
        <5> QED
          BY <2>2, <3>3, <4>1, <5>1
      <4> QED
        BY <4>2, <4>3
    <3> QED
      BY <2>2, <2>3, <2>4, <3>1, <3>2, <3>3
  <2>7. ASSUME NEW u \in Uploads, Reserve(u) PROVE QuotaInv'
    <3>1. UqTypeOK' /\ UNCHANGED <<slow, measured, stored>> /\ reserved' = reserved \cup {u}
      BY <2>1, <2>7 DEF Reserve, Goes, UqTypeOK
    <3>2. Granted' = Granted /\ Asking' = Asking /\ Holding' = Holding \cup {u}
      BY <2>1, <2>7 DEF Reserve, Goes, UqTypeOK, Granted, Asking, Holding
    <3>3. ~slow => \A v \in stored' : stage'[v] \in {"granted", "over"}
      BY <2>1, <2>2, <2>7 DEF Reserve, Goes, UqTypeOK
    <3>4. ASSUME ~slow, NEW v \in Asking'
          PROVE  Cardinality(stored' \ reserved') <= measured'[v]
      <4>1. stored \ reserved \in SUBSET Uploads /\ stored' \ reserved' \in SUBSET (stored \ reserved)
        BY <2>1, <3>1 DEF UqTypeOK
      <4>2. /\ Cardinality(stored \ reserved) \in Nat /\ Cardinality(stored' \ reserved') \in Nat
            /\ Cardinality(stored' \ reserved') <= Cardinality(stored \ reserved)
        BY <4>1, FewerUploads
      <4>3. measured'[v] = measured[v] /\ measured[v] \in Nat /\ v \in Asking
        BY <2>1, <3>1, <3>2, <3>4 DEF UqTypeOK
      <4>4. Cardinality(stored \ reserved) <= measured[v]
        BY <2>2, <3>4, <4>3
      <4> QED
        BY <4>2, <4>3, <4>4
    <3>5. ~slow => Holding' \subseteq reserved'
      BY <2>2, <3>1, <3>2
    <3> QED
      BY <2>3, <2>4, <3>1, <3>2, <3>3, <3>4, <3>5
  <2>8. ASSUME NEW u \in Uploads, Sign(u) PROVE QuotaInv'
    <3>1. UqTypeOK' /\ UNCHANGED <<slow, measured, reserved, stored>>
      BY <2>1, <2>8 DEF Sign, Goes, UqTypeOK
    <3>2. /\ Granted' = Granted \cup {u} /\ Asking' \subseteq Asking /\ Holding' = Holding
          /\ u \in Asking /\ u \in Holding
      BY <2>1, <2>8 DEF Sign, Goes, UqTypeOK, Granted, Asking, Holding
    <3>3. ~slow => \A v \in stored' : stage'[v] \in {"granted", "over"}
      BY <2>1, <2>2, <2>8 DEF Sign, Goes, UqTypeOK
    <3>4. ASSUME ~slow, NEW v \in Asking'
          PROVE  Cardinality(stored' \ reserved') <= measured'[v]
      <4>1. Cardinality(stored' \ reserved') = Cardinality(stored \ reserved)
        BY <3>1, Zenon
      <4>2. measured'[v] = measured[v] /\ v \in Asking
        BY <3>1, <3>2, <3>4
      <4> QED
        BY <2>2, <3>4, <4>1, <4>2
    <3>5. ASSUME ~slow PROVE Cardinality(stored' \cup Granted') <= QuotaLimit
      <4>1. Granted \subseteq Holding
        BY DEF Granted, Holding
      <4>2. /\ stored' \cup Granted' \in SUBSET ((stored \ reserved) \cup reserved)
            /\ stored \ reserved \in SUBSET Uploads /\ reserved \in SUBSET Uploads
            /\ (stored \ reserved) \cup reserved \in SUBSET Uploads
        BY <2>1, <2>2, <3>1, <3>2, <3>5, <4>1 DEF UqTypeOK
      <4>3. /\ Cardinality((stored \ reserved) \cup reserved)
                   <= Cardinality(stored \ reserved) + Cardinality(reserved)
            /\ Cardinality((stored \ reserved) \cup reserved) \in Nat
            /\ Cardinality(stored' \cup Granted') \in Nat
            /\ Cardinality(stored' \cup Granted') <= Cardinality((stored \ reserved) \cup reserved)
            /\ Cardinality(stored \ reserved) \in Nat /\ Cardinality(reserved) \in Nat
        BY <4>2, FewerUploads, SumOfUploads
      <4>4. measured[u] + Cardinality(reserved) <= QuotaLimit /\ measured[u] \in Nat
        BY <2>1, <2>8 DEF Sign, UqTypeOK
      <4>5. Cardinality(stored \ reserved) <= measured[u]
        BY <2>2, <3>2, <3>5
      <4> QED
        BY <4>3, <4>4, <4>5, QuotaAssumption
    <3> QED
      BY <2>2, <2>3, <3>1, <3>2, <3>3, <3>4, <3>5
  <2>9. ASSUME NEW u \in Uploads, Refuse(u) PROVE QuotaInv'
    <3>1. /\ UqTypeOK' /\ UNCHANGED <<slow, measured, stored>>
          /\ reserved' \subseteq reserved /\ reserved \subseteq reserved' \cup {u}
      BY <2>1, <2>9 DEF Refuse, Goes, UqTypeOK
    <3>2. Granted' = Granted /\ Asking' \subseteq Asking /\ Holding' = Holding \ {u}
      BY <2>1, <2>9 DEF Refuse, Goes, UqTypeOK, Granted, Asking, Holding
    <3>3. ~slow => u \notin stored /\ \A v \in stored' : stage'[v] \in {"granted", "over"}
      BY <2>1, <2>2, <2>9 DEF Refuse, Goes, UqTypeOK
    <3>4. ASSUME ~slow, NEW v \in Asking'
          PROVE  Cardinality(stored' \ reserved') <= measured'[v]
      <4>1. stored' \ reserved' = stored \ reserved
        BY <3>1, <3>3, <3>4
      <4>2. Cardinality(stored' \ reserved') = Cardinality(stored \ reserved)
        BY <4>1, Zenon
      <4>3. measured'[v] = measured[v] /\ v \in Asking
        BY <3>1, <3>2, <3>4
      <4> QED
        BY <2>2, <3>4, <4>2, <4>3
    <3>5. ~slow => Holding' \subseteq reserved'
      BY <2>2, <3>1, <3>2
    <3> QED
      BY <2>3, <2>4, <3>1, <3>2, <3>3, <3>4, <3>5
  <2>10. ASSUME NEW u \in Uploads, Stores(u) PROVE QuotaInv'
    <3>1. UqTypeOK' /\ UNCHANGED <<slow, stage, measured, reserved>> /\ stored' = stored \cup {u}
      BY <2>1, <2>10 DEF Stores, UqTypeOK
    <3>2. /\ Granted' = Granted /\ Asking' = Asking /\ Holding' = Holding
          /\ u \in Granted /\ u \in Holding
      BY <2>10, <3>1 DEF Stores, Granted, Asking, Holding
    <3>3. ~slow => \A v \in stored' : stage'[v] \in {"granted", "over"}
      BY <2>2, <2>10, <3>1 DEF Stores
    <3>4. ASSUME ~slow
          PROVE  /\ \A v \in Asking' : Cardinality(stored' \ reserved') <= measured'[v]
                 /\ Cardinality(stored' \cup Granted') <= QuotaLimit
      <4>1. stored' \ reserved' = stored \ reserved /\ stored' \cup Granted' = stored \cup Granted
        BY <2>2, <3>1, <3>2, <3>4
      <4>2. /\ Cardinality(stored' \ reserved') = Cardinality(stored \ reserved)
            /\ Cardinality(stored' \cup Granted') = Cardinality(stored \cup Granted)
        BY <4>1, Zenon
      <4>3. \A v \in Asking' : v \in Asking /\ measured'[v] = measured[v]
        BY <3>1, <3>2
      <4> QED
        BY <2>2, <3>4, <4>2, <4>3
    <3> QED
      BY <2>2, <2>3, <3>1, <3>2, <3>3, <3>4
  <2>11. ASSUME NEW u \in Uploads, ReservationExpires(u) PROVE QuotaInv'
    <3>1. UqTypeOK' /\ UNCHANGED <<slow, measured, stored>> /\ reserved' = reserved \ {u}
      BY <2>1, <2>11 DEF ReservationExpires, Goes, UqTypeOK
    <3>2. /\ Granted' \subseteq Granted
          /\ ~slow => Asking = {} /\ Asking' = {} /\ Holding' \subseteq Holding \ {u}
      BY <2>1, <2>11 DEF ReservationExpires, Goes, UqTypeOK, Granted, Asking, Holding
    <3>3. ~slow => \A v \in stored' : stage'[v] \in {"granted", "over"}
      BY <2>1, <2>2, <2>11 DEF ReservationExpires, Goes, UqTypeOK
    <3>4. ~slow => Holding' \subseteq reserved'
      BY <2>2, <3>1, <3>2
    <3> QED
      BY <2>3, <2>4, <3>1, <3>2, <3>3, <3>4
  <2> QED
    BY <2>5, <2>6, <2>7, <2>8, <2>9, <2>10, <2>11 DEF UqNext
<1> QED
  BY <1>1, <1>2, PTL DEF UqSpec

\* getWhiteboardUploadUrl never lets a person store more than the plan allows, unless
\* requests outlive their reservations.
THEOREM Quota == UqSpec => []QuotaKept
<1>1. QuotaInv => QuotaKept
  BY DEF QuotaInv, QuotaKept, Granted
<1> QED
  BY <1>1, QuotaInvariant, PTL

=============================================================================
