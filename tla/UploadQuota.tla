---------------------------- MODULE UploadQuota ----------------------------
(***************************************************************************)
(* Uploads of one person to the whiteboards of her meetings, against her   *)
(* storage limit: what is stored is measured first, then the upload is     *)
(* reserved, then the reservations are summed up; the reservation lives    *)
(* as long as the URL that is signed for the upload, ten minutes.          *)
(*                                                                         *)
(* Uploads have the size 1.                                                *)
(***************************************************************************)
EXTENDS Naturals, FiniteSets

CONSTANTS
    Uploads,    \* requests for an upload
    QuotaLimit  \* maxStorageBytes

ASSUME QuotaAssumption == QuotaLimit \in Nat /\ IsFiniteSet(Uploads)

VARIABLES
    slow,     \* whether requests and uploads may take longer than a reservation lives
    stage,    \* where each upload is
    measured, \* actualUsageBytes, as each request has read it
    reserved, \* uploads with a row in upload_reservations that has not expired
    stored    \* uploads with an object

uqVars == <<slow, stage, measured, reserved, stored>>

UqTypeOK ==
    /\ slow \in BOOLEAN
    /\ stage \in [Uploads -> {"new", "measured", "reserved", "granted", "refused", "over"}]
    /\ measured \in [Uploads -> Nat]
    /\ reserved \subseteq Uploads /\ stored \subseteq Uploads

UqInit ==
    /\ slow \in BOOLEAN
    /\ stage = [u \in Uploads |-> "new"]
    /\ measured = [u \in Uploads |-> 0]
    /\ reserved = {} /\ stored = {}

Goes(u, to) == stage' = [stage EXCEPT ![u] = to]

\* getWhiteboardUploadUrl: the objects stored, and a first refusal.
Measure(u) ==
    /\ stage[u] = "new"
    /\ measured' = [measured EXCEPT ![u] = Cardinality(stored)]
    /\ Goes(u, IF measured'[u] + 1 > QuotaLimit THEN "refused" ELSE "measured")
    /\ UNCHANGED <<slow, reserved, stored>>

\* reserveUploadBytes: the batch, and the sum over all reservations with its own.
Reserve(u) ==
    /\ stage[u] = "measured"
    /\ Goes(u, "reserved")
    /\ reserved' = reserved \cup {u}
    /\ UNCHANGED <<slow, measured, stored>>

\* A variant of Sign: other reservations are not counted.
SignAlone(u) ==
    /\ stage[u] = "reserved"
    /\ measured[u] + 1 <= QuotaLimit
    /\ Goes(u, "granted")
    /\ UNCHANGED <<slow, measured, reserved, stored>>

Sign(u) ==
    /\ stage[u] = "reserved"
    /\ measured[u] + Cardinality(reserved) <= QuotaLimit
    /\ Goes(u, "granted")
    /\ UNCHANGED <<slow, measured, reserved, stored>>

\* The reservation is deleted, unless that fails.
Refuse(u) ==
    /\ stage[u] = "reserved"
    /\ measured[u] + Cardinality(reserved) > QuotaLimit
    /\ Goes(u, "refused")
    /\ reserved' \in {reserved, reserved \ {u}}
    /\ UNCHANGED <<slow, measured, stored>>

\* The upload to the signed URL is complete.
Stores(u) ==
    /\ stage[u] = "granted" /\ u \notin stored
    /\ stored' = stored \cup {u}
    /\ UNCHANGED <<slow, stage, measured, reserved>>

\* The reservation and the URL are ten minutes old.  Nothing else takes that long, unless
\* the behaviour is slow: then the object of an upload may still come.
ReservationExpires(u) ==
    /\ u \in reserved
    /\ slow \/ \A v \in Uploads : stage[v] \notin {"measured", "reserved"}
    /\ reserved' = reserved \ {u}
    /\ IF slow \/ stage[u] = "refused" THEN UNCHANGED stage ELSE Goes(u, "over")
    /\ UNCHANGED <<slow, measured, stored>>

UqNext == \E u \in Uploads : \/ Measure(u) \/ Reserve(u) \/ Sign(u) \/ Refuse(u)
                             \/ Stores(u) \/ ReservationExpires(u)

UqSpec == UqInit /\ [][UqNext]_uqVars

-----------------------------------------------------------------------------

\* What is stored stays within the limit, and so does what has been granted besides,
\* although requests measure and reserve concurrently.
QuotaKept ==
    ~slow => Cardinality(stored \cup {u \in Uploads : stage[u] = "granted"}) <= QuotaLimit

=============================================================================
