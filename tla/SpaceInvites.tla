---------------------------- MODULE SpaceInvites ----------------------------
(***************************************************************************)
(* One invite to a space, with or without a limit of uses: requests that   *)
(* join through it at the same time, and members who are added, removed or *)
(* leave meanwhile.                                                        *)
(*                                                                         *)
(* A request inserts its member row and counts the use in one batch, which *)
(* is tried again when the answer of the database was lost; the id of the  *)
(* row is chosen once per request, and a space has one row per user.       *)
(***************************************************************************)
EXTENDS Naturals, FiniteSets

CONSTANTS
    Joiners,     \* users
    JoinReqs,    \* requests to join
    Removals,    \* requests to remove a member, or of a member to leave
    SpNobody,
    InviteLimits \* the values of max_uses, 0 for null

ASSUME InvitesAssumption == SpNobody \notin Joiners /\ InviteLimits \subseteq Nat

VARIABLES
    maxUses,  \* space_invites.max_uses
    useCount, \* space_invites.use_count
    members,  \* users with a space_members row
    join,     \* what each request to join knows and was told
    removal,  \* what each removal does, and to whom
    came      \* history: requests that inserted their row

spVars == <<maxUses, useCount, members, join, removal, came>>

SpTypeOK ==
    /\ maxUses \in InviteLimits /\ useCount \in Nat
    /\ members \subseteq Joiners /\ came \subseteq JoinReqs
    /\ join \in [JoinReqs -> [pc : {"new", "inserting", "joined", "already", "used up"},
                              user : Joiners \cup {SpNobody}]]
    /\ removal \in [Removals -> [pc : {"new", "evicted", "done"}, user : Joiners \cup {SpNobody}]]

SpInit ==
    /\ maxUses \in InviteLimits /\ useCount = 0
    /\ members = {} /\ came = {}
    /\ join = [j \in JoinReqs |-> [pc |-> "new", user |-> SpNobody]]
    /\ removal = [r \in Removals |-> [pc |-> "new", user |-> SpNobody]]

Unlimited == maxUses = 0
HasRoom == Unlimited \/ useCount < maxUses

-----------------------------------------------------------------------------

\* joinViaInvite up to the batch, with the use count it has read.
JoinReads(j, u) ==
    /\ join[j].pc = "new"
    /\ join' = [join EXCEPT ![j] =
            [pc |-> IF u \in members THEN "already" ELSE IF HasRoom THEN "inserting" ELSE "used up",
             user |-> u]]
    /\ UNCHANGED <<maxUses, useCount, members, removal, came>>

\* A variant of JoinInserts: the use count read before decides.
JoinInsertsUnchecked(j, answered) ==
    LET u == join[j].user
        inserted == u \notin members
    IN  /\ join[j].pc = "inserting"
        /\ members' = members \cup {u}
        /\ useCount' = IF inserted THEN useCount + 1 ELSE useCount
        /\ came' = IF inserted THEN came \cup {j} ELSE came
        /\ answered \/ inserted
        /\ join' = [join EXCEPT ![j].pc = IF ~answered THEN "inserting"
                                          ELSE IF inserted THEN "joined" ELSE "already"]
        /\ UNCHANGED <<maxUses, removal>>

\* The batch.  The insert finds the row of the user (or its own, when it is tried again)
\* only if the condition on the use count lets it try.
JoinInserts(j, answered) ==
    LET u == join[j].user
        inserted == HasRoom /\ u \notin members
    IN  /\ join[j].pc = "inserting"
        /\ members' = IF inserted THEN members \cup {u} ELSE members
        /\ useCount' = IF inserted THEN useCount + 1 ELSE useCount
        /\ came' = IF inserted THEN came \cup {j} ELSE came
        /\ answered \/ inserted
        /\ join' = [join EXCEPT ![j].pc = IF ~answered THEN "inserting"
                                          ELSE IF inserted THEN "joined"
                                          ELSE IF HasRoom THEN "already" ELSE "used up"]
        /\ UNCHANGED <<maxUses, removal>>

\* addMember and addMemberByEmail.
Adds(u) ==
    /\ u \notin members
    /\ members' = members \cup {u}
    /\ UNCHANGED <<maxUses, useCount, join, removal, came>>

\* removeMember and leaveSpace delete the row twice: in evictUserFromSpaceMeetings, and
\* after the calls to LiveKit.
Evicts(r, u) ==
    /\ removal[r].pc = "new" /\ u \in members
    /\ removal' = [removal EXCEPT ![r] = [pc |-> "evicted", user |-> u]]
    /\ members' = members \ {u}
    /\ UNCHANGED <<maxUses, useCount, join, came>>

Removes(r) ==
    /\ removal[r].pc = "evicted"
    /\ removal' = [removal EXCEPT ![r].pc = "done"]
    /\ members' = members \ {removal[r].user}
    /\ UNCHANGED <<maxUses, useCount, join, came>>

SpNext ==
    \/ \E j \in JoinReqs : \/ \E u \in Joiners : JoinReads(j, u)
                           \/ \E answered \in BOOLEAN : JoinInserts(j, answered)
    \/ \E u \in Joiners : Adds(u) \/ \E r \in Removals : Evicts(r, u)
    \/ \E r \in Removals : Removes(r)

SpSpec == SpInit /\ [][SpNext]_spVars

-----------------------------------------------------------------------------

\* Every request that brought a member in has used the invite, and a limited invite is not
\* used more often than its limit, however many requests compete for the last use and
\* whichever answers are lost.
InviteLimitKept ==
    /\ Cardinality(came) <= useCount
    /\ ~Unlimited => useCount <= maxUses

=============================================================================
