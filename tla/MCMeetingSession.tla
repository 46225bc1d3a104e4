------------------------- MODULE MCMeetingSession -------------------------
(***************************************************************************)
(* MeetingSession for TLC.                                                 *)
(***************************************************************************)
EXTENDS MeetingSession

\* How often a person connects.
OneConn == 1..1
TwoConns == 1..2

\* Who may end the session.
AllEndings == Reasons
HostOnly == {"host"}
HostNaturalStale == {"host", "natural", "stale"}

\* What may go wrong.
AllFaults == FaultKinds
DeliveryFaults == {"webhook_lost"}
JoinFaults == {"issue_fails"}
LostResponse == {"response_lost"}

=============================================================================
