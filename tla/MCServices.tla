----------------------------- MODULE MCServices -----------------------------
(***************************************************************************)
(* The services around a meeting for TLC.  They share no state that a      *)
(* property is about, so a behaviour is one of one of them: part says      *)
(* which, and the others stay where they begin.                            *)
(***************************************************************************)
EXTENDS WhiteboardRoom, SessionRotation, OneTimeCodes, SpaceInvites, UploadQuota,
        RoomLifecycle, Billing, HandRaises, TLC

CONSTANTS host, member, guest,  \* users of the whiteboard
          s1, s2,               \* subscriptions
          e1, e2, e3, e4, e5    \* events of the payment provider

VARIABLE part

\* The host and a guest connect once, a member twice.
WbOnceTwice == [u \in {host, guest, member} |-> IF u = member THEN 2 ELSE 1]

\* A first subscription is replaced by a second one and canceled late.
BiTimes == e1 :> 1 @@ e2 :> 2 @@ e3 :> 3 @@ e4 :> 3 @@ e5 :> 4
BiSubs == e1 :> s1 @@ e2 :> s1 @@ e3 :> s2 @@ e4 :> s1 @@ e5 :> s2
BiEffects == e1 :> "entitled" @@ e2 :> "scheduled" @@ e3 :> "unpriced" @@ e4 :> "canceled"
             @@ e5 :> "unentitled"

-----------------------------------------------------------------------------

whiteboard == wbVars
others == <<roVars, ocVars, spVars, uqVars, rlVars, biVars, handVars>>

\* What a part may choose at the start is fixed while it is not the one that moves.
Init ==
    /\ part \in {"whiteboard", "login", "codes", "invites", "uploads", "rooms", "billing", "hands"}
    /\ WbInit /\ RoInit /\ OcInit /\ SpInit /\ UqInit /\ RlInit /\ BiInit /\ HaInit
    /\ part = "codes" \/ purpose = "login"
    /\ part = "invites" \/ maxUses = 0
    /\ part = "uploads" \/ ~slow
    /\ part = "rooms" \/ ~edge

Next ==
    /\ UNCHANGED part
    /\ \/ part = "whiteboard" /\ WbNext /\ UNCHANGED others
       \/ part = "login" /\ RoNext
          /\ UNCHANGED <<whiteboard, ocVars, spVars, uqVars, rlVars, biVars, handVars>>
       \/ part = "codes" /\ OcNext
          /\ UNCHANGED <<whiteboard, roVars, spVars, uqVars, rlVars, biVars, handVars>>
       \/ part = "invites" /\ SpNext
          /\ UNCHANGED <<whiteboard, roVars, ocVars, uqVars, rlVars, biVars, handVars>>
       \/ part = "uploads" /\ UqNext
          /\ UNCHANGED <<whiteboard, roVars, ocVars, spVars, rlVars, biVars, handVars>>
       \/ part = "rooms" /\ RlNext
          /\ UNCHANGED <<whiteboard, roVars, ocVars, spVars, uqVars, biVars, handVars>>
       \/ part = "billing" /\ BiNext
          /\ UNCHANGED <<whiteboard, roVars, ocVars, spVars, uqVars, rlVars, handVars>>
       \/ part = "hands" /\ HaNext
          /\ UNCHANGED <<whiteboard, roVars, ocVars, spVars, uqVars, rlVars, biVars>>

Spec == Init /\ [][Next]_<<part, whiteboard, others>>

\* The types of every part.
TypesOK == WbTypeOK /\ RoTypeOK /\ OcTypeOK /\ SpTypeOK /\ UqTypeOK /\ RlTypeOK /\ BiTypeOK
           /\ HaTypeOK

=============================================================================
