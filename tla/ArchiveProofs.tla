---------------------------- MODULE ArchiveProofs ----------------------------
(***************************************************************************)
(* Proofs about what is kept of a meeting: its recording, what was said,   *)
(* and the drawing of its whiteboard; for any number of deliveries, of     *)
(* segments and requests, of strokes, and any faults.                      *)
(***************************************************************************)
EXTENDS MCArchives, TLAPS

LOCAL INSTANCE SequencesExt

-----------------------------------------------------------------------------
(* Recordings.  Whoever deletes the object is either over quota or removes *)
(* the session first, and a session that is gone is given no row.  While   *)
(* an object has none, every run that is over has missed it.               *)

RecordingInv ==
    /\ ReTypeOK
    /\ row => object # "none" /\ session # "gone"
    /\ object = "deleted" => full \/ session = "gone"
    /\ \A d \in Deliveries : /\ hook[d] # "idle" => object # "none"
                             /\ hook[d] = "deleting" => full
    /\ cron # "idle" => object # "none" /\ runs > misses
    /\ object = "none" => runs = 0
    /\ ~recent => runs = Runs
    /\ retention.pc = "dropped" => session = "gone"
    /\ object = "stored" /\ session # "gone" /\ ~row =>
           runs = IF cron = "idle" THEN misses ELSE misses + 1

LEMMA RecordingStarts == ReInit => RecordingInv
<1> SUFFICES ASSUME ReInit PROVE RecordingInv
  OBVIOUS
<1>1. retention \in [pc : {"idle", "selected", "read", "dropped"}, key : BOOLEAN]
  BY DEF ReInit
<1>2. runs \in 0..Runs /\ misses \in 0..runs
  BY RecordingAssumption DEF ReInit
<1>3. full \in BOOLEAN /\ row \in BOOLEAN /\ recent \in BOOLEAN
  BY Zenon DEF ReInit
<1> QED
  BY <1>1, <1>2, <1>3 DEF ReInit, RecordingInv, ReTypeOK

\* No step of a delivery or of the clean-up leaves the invariant, whichever fails.
LEMMA RecordingStep == RecordingInv /\ [ReNext]_reVars => RecordingInv'
<1> SUFFICES ASSUME RecordingInv, [ReNext]_reVars PROVE RecordingInv'
  OBVIOUS
<1> USE RecordingAssumption DEF RecordingInv, ReTypeOK, Moves
<1>a. Register => row' \in BOOLEAN /\ (row' <=> row \/ session # "gone")
  BY DEF Register
<1>1. CASE Uploads
  BY <1>1 DEF Uploads
<1>2. ASSUME NEW d \in Deliveries, HookFinds(d) PROVE RecordingInv'
  BY <1>2 DEF HookFinds
<1>3. ASSUME NEW d \in Deliveries, HookMeasures(d) PROVE RecordingInv'
  BY <1>3 DEF HookMeasures
<1>4. ASSUME NEW d \in Deliveries, HookDeletes(d) PROVE RecordingInv'
  BY <1>4 DEF HookDeletes
<1>5. ASSUME NEW d \in Deliveries, HookRegisters(d) PROVE RecordingInv'
  BY <1>a, <1>5 DEF HookRegisters
<1>6. ASSUME NEW d \in Deliveries, HookFails(d) PROVE RecordingInv'
  BY <1>6 DEF HookFails
<1>7. CASE CronLists \/ CronMisses \/ CronCompares \/ CronBreaks \/ Ages
  <2>1. UNCHANGED <<full, session, object, row, hook, retention>> /\ recent' \in BOOLEAN
    BY <1>7 DEF CronLists, CronMisses, CronCompares, CronBreaks, Ages
  <2>2. CASE CronLists
    BY <2>1, <2>2 DEF CronLists
  <2>3. CASE CronMisses
    BY <2>1, <2>3 DEF CronMisses
  <2>4. CASE CronCompares
    BY <2>1, <2>4 DEF CronCompares
  <2>5. CASE CronBreaks
    BY <2>1, <2>5 DEF CronBreaks
  <2>6. CASE Ages
    BY <2>1, <2>6 DEF Ages
  <2> QED
    BY <1>7, <2>2, <2>3, <2>4, <2>5, <2>6
<1>8. CASE CronRegisters
  BY <1>a, <1>8 DEF CronRegisters
<1>9. CASE RetentionEnds \/ RetentionSelects \/ RetentionReads \/ CronFails
  <2>1. UNCHANGED <<full, object, row, recent, hook, cron, runs, misses>>
    BY <1>9 DEF RetentionEnds, RetentionSelects, RetentionReads, CronFails
  <2>2. session' \in {"kept", "expired", "gone"} /\ (session' = "gone" <=> session = "gone")
    BY <1>9 DEF RetentionEnds, RetentionSelects, RetentionReads, CronFails
  <2>3. /\ retention' \in [pc : {"idle", "selected", "read", "dropped"}, key : BOOLEAN]
        /\ retention'.pc = "dropped" => retention.pc = "dropped"
    <3>1. CASE RetentionEnds
      BY <3>1 DEF RetentionEnds
    <3>2. CASE RetentionSelects
      BY <3>2 DEF RetentionSelects
    <3>3. CASE RetentionReads
      BY <3>3 DEF RetentionReads
    <3>4. CASE CronFails
      BY <3>4 DEF CronFails
    <3> QED
      BY <1>9, <3>1, <3>2, <3>3, <3>4
  <2> QED
    BY <2>1, <2>2, <2>3
<1>10. CASE RetentionDrops
  BY <1>10 DEF RetentionDrops
<1>11. CASE RetentionRemoves
  BY <1>11 DEF RetentionRemoves
<1>12. CASE UNCHANGED reVars
  BY <1>12 DEF reVars
<1> QED
  BY <1>1, <1>2, <1>3, <1>4, <1>5, <1>6, <1>7, <1>8, <1>9, <1>10, <1>11, <1>12 DEF ReNext

\* A registered recording has its object, as long as the host is within her quota: neither
\* overlapping deliveries nor a clean-up that stops half-way delete the object and leave or
\* write the row.
THEOREM RowsHaveObjects == ReSpec => []RowHasObject
<1>1. RecordingInv => RowHasObject
  BY DEF RecordingInv, ReTypeOK, RowHasObject
<1> QED
  BY <1>1, RecordingStarts, RecordingStep, PTL DEF ReSpec

\* The daily clean-up is the safety net its comment claims: a recording that is still there
\* without a row when the 48 hours are over was missed by every run of them, whatever the
\* deliveries of the webhook and the retention did meanwhile.
THEOREM NetHolds == ReSpec => []OneRunSuffices
<1>1. RecordingInv => OneRunSuffices
  BY RecordingAssumption DEF RecordingInv, ReTypeOK, OneRunSuffices
<1> QED
  BY <1>1, RecordingStarts, RecordingStep, PTL DEF ReSpec

-----------------------------------------------------------------------------
(* Transcripts.  The segments of the buffer, and those of every request at *)
(* the server, are runs of consecutive numbers, and what precedes such a   *)
(* run is saved or refused.                                                *)

\* s has the segments up to m, in their order.
Until(s, m) == Len(s) <= m /\ \A i \in 1..Len(s) : s[i] = m - Len(s) + i

Segments == Seq(1..MaxSpoken)
Kept == rows \cup refused

\* The last segment that does not wait in the buffer.
Taken == spoken - Len(unsaved)

\* A request whose segments end with m.
Going(call, m) == Until(call.left, m) /\ 1..(m - Len(call.left)) \subseteq Kept

BufferInv ==
    /\ Until(unsaved, spoken)
    /\ Until(flight.batch, Taken)
    /\ 1..(Taken - Len(flight.batch)) \subseteq Kept

ServerInv ==
    /\ \A n \in Kept : 1..n \subseteq Kept
    /\ \A c \in Calls : saving[c].pc \in {"sent", "inserting"} => \E m \in Nat : Going(saving[c], m)
    /\ \A c \in Calls : flight.call = c =>
        /\ saving[c].pc \in {"sent", "inserting"} => Going(saving[c], Taken)
        /\ saving[c].pc = "saved" => 1..Taken \subseteq Kept

SpeechInv == TrTypeOK /\ BufferInv /\ ServerInv

\* What the two ends of a sequence are.
LEMMA Beginning ==
    ASSUME NEW S, NEW s \in Seq(S), NEW k \in Nat, k <= Len(s)
    PROVE  /\ SubSeq(s, 1, k) \in Seq(S) /\ Len(SubSeq(s, 1, k)) = k
           /\ \A i \in 1..k : SubSeq(s, 1, k)[i] = s[i]
OBVIOUS

LEMMA Remainder ==
    ASSUME NEW S, NEW s \in Seq(S), NEW k \in Nat, k <= Len(s)
    PROVE  /\ SubSeq(s, k + 1, Len(s)) \in Seq(S) /\ Len(SubSeq(s, k + 1, Len(s))) = Len(s) - k
           /\ \A i \in 1..(Len(s) - k) : SubSeq(s, k + 1, Len(s))[i] = s[k + i]
OBVIOUS

\* A run holds what lies between its ends.
LEMMA Covered ==
    ASSUME NEW S, NEW s \in Seq(S), NEW m \in Nat, Until(s, m)
    PROVE  ToSet(s) \subseteq S /\ ToSet(s) = (m - Len(s) + 1)..m
<1>1. /\ ToSet(s) = {s[i] : i \in 1..Len(s)} /\ ToSet(s) \subseteq S
      /\ Len(s) \in Nat /\ \A i \in 1..Len(s) : s[i] = m - Len(s) + i
  BY DEF ToSet, Until
<1>2. ASSUME NEW j \in (m - Len(s) + 1)..m PROVE j \in ToSet(s)
  <2>1. j - (m - Len(s)) \in 1..Len(s) /\ j = m - Len(s) + (j - (m - Len(s)))
    BY <1>1
  <2> QED
    BY <1>1, <2>1
<1>3. ASSUME NEW i \in 1..Len(s) PROVE m - Len(s) + i \in (m - Len(s) + 1)..m
  BY <1>1
<1> QED
  BY <1>1, <1>2, <1>3

\* A run is cut into two runs.
LEMMA Cut ==
    ASSUME NEW S, NEW s \in Seq(S), NEW m \in Nat, Until(s, m), NEW n \in Nat \ {0}
    PROVE  /\ First(s, n) \in Seq(S) /\ Rest(s, n) \in Seq(S)
           /\ Len(First(s, n)) \in Nat /\ Len(Rest(s, n)) \in Nat
           /\ Len(First(s, n)) + Len(Rest(s, n)) = Len(s)
           /\ Until(First(s, n), m - Len(Rest(s, n))) /\ Until(Rest(s, n), m)
           /\ ToSet(First(s, n)) = (m - Len(s) + 1)..(m - Len(Rest(s, n)))
           /\ Len(s) <= n => Len(Rest(s, n)) = 0
<1> DEFINE k == IF n < Len(s) THEN n ELSE Len(s)
<1>1. k \in Nat /\ k <= Len(s) /\ Len(s) \in Nat
  OBVIOUS
<1>2. /\ First(s, n) \in Seq(S) /\ Len(First(s, n)) = k
      /\ \A i \in 1..k : First(s, n)[i] = s[i]
  <2>1. First(s, n) = SubSeq(s, 1, k)
    BY DEF First
  <2> HIDE DEF k
  <2> QED
    BY <1>1, <2>1, Beginning
<1>3. /\ Rest(s, n) \in Seq(S) /\ Len(Rest(s, n)) = Len(s) - k
      /\ \A i \in 1..(Len(s) - k) : Rest(s, n)[i] = s[k + i]
  <2>1. CASE n < Len(s)
    <3>1. k = n /\ Rest(s, n) = SubSeq(s, k + 1, Len(s))
      BY <2>1 DEF Rest
    <3> HIDE DEF k
    <3> QED
      BY <1>1, <3>1, Remainder
  <2>2. CASE ~(n < Len(s))
    BY <1>1, <2>2 DEF Rest
  <2> QED
    BY <2>1, <2>2
<1> HIDE DEF k
<1>4. \A i \in 1..Len(s) : s[i] = m - Len(s) + i
  BY DEF Until
<1>5. Until(First(s, n), m - Len(Rest(s, n)))
  BY <1>1, <1>2, <1>3, <1>4 DEF Until
<1>6. Until(Rest(s, n), m)
  BY <1>1, <1>3, <1>4 DEF Until
<1>7. ToSet(First(s, n)) = (m - Len(s) + 1)..(m - Len(Rest(s, n)))
  <2>1. m - Len(Rest(s, n)) \in Nat /\ m - Len(Rest(s, n)) - k = m - Len(s)
    BY <1>1, <1>3 DEF Until
  <2> QED
    BY <1>2, <1>5, <2>1, Covered
<1>8. Len(s) <= n => k = Len(s)
  BY <1>1 DEF k
<1> QED
  BY <1>1, <1>2, <1>3, <1>5, <1>6, <1>7, <1>8

\* A run that follows on another.
LEMMA Joined ==
    ASSUME NEW s \in Segments, NEW t \in Segments, NEW m \in Nat,
           Until(t, m), Until(s, m - Len(t))
    PROVE  /\ s \o t \in Segments /\ Len(s \o t) = Len(s) + Len(t)
           /\ Until(s \o t, m)
<1>1. /\ s \o t \in Segments /\ Len(s \o t) = Len(s) + Len(t)
      /\ \A i \in 1..Len(s) : (s \o t)[i] = s[i]
      /\ \A i \in (Len(s) + 1)..(Len(s) + Len(t)) : (s \o t)[i] = t[i - Len(s)]
  BY DEF Segments
<1>2. Len(s) \in Nat /\ Len(t) \in Nat
  BY DEF Segments
<1>3. ASSUME NEW i \in 1..(Len(s) + Len(t)) PROVE (s \o t)[i] = m - (Len(s) + Len(t)) + i
  <2>1. CASE i \in 1..Len(s)
    BY <1>1, <1>2, <2>1 DEF Until
  <2>2. CASE i \in (Len(s) + 1)..(Len(s) + Len(t))
    <3>1. i - Len(s) \in 1..Len(t)
      BY <1>2, <2>2
    <3> QED
      BY <1>1, <1>2, <2>2, <3>1 DEF Until
  <2> QED
    BY <1>2, <2>1, <2>2
<1>4. Len(s) + Len(t) <= m
  BY <1>2 DEF Until
<1> QED
  BY <1>1, <1>3, <1>4 DEF Until

Requests == [pc : {"idle", "sent", "inserting", "saved", "failed"}, left : Segments]
Pages == {"in", "flushing", "flushed", "left", "closed"}

\* What waits, when all before it is kept.
Pending(waiting) ==
    waiting \in Segments /\ Until(waiting, spoken) /\ 1..(spoken - Len(waiting)) \subseteq Kept

\* A step of the browser, in which only the request c may begin or end.
Browses(c, calls) ==
    /\ UNCHANGED <<spoken, rows, present, refused>>
    /\ again' \in BOOLEAN /\ page' \in Pages
    /\ calls \in [Calls -> Requests]
    /\ \A e \in Calls \ {c} : calls[e] = saving[e]

LEMMA TakenIsCount ==
    SpeechInv => /\ spoken \in Nat /\ Taken \in Nat
                 /\ Len(unsaved) \in Nat /\ Len(flight.batch) \in Nat
BY TranscriptAssumption DEF SpeechInv, BufferInv, TrTypeOK, Until, Taken

\* Sending the first batch of what waits keeps the invariant.
LEMMA SendKeeps ==
    ASSUME SpeechInv, NEW c \in Calls, NEW calls, Browses(c, calls),
           NEW waiting, Pending(waiting), SendBatch(c, waiting, calls)
    PROVE  SpeechInv'
<1> DEFINE batch == First(waiting, BatchSize)
           later == Rest(waiting, BatchSize)
<1>1. /\ batch \in Segments /\ later \in Segments
      /\ Len(batch) \in Nat /\ Len(later) \in Nat /\ Len(batch) + Len(later) = Len(waiting)
      /\ Until(batch, spoken - Len(later)) /\ Until(later, spoken)
  BY Cut, TranscriptAssumption DEF SpeechInv, TrTypeOK, Pending, Segments
<1>2. /\ unsaved' = later /\ flight' = [call |-> c, batch |-> batch]
      /\ saving' = [calls EXCEPT ![c] = [pc |-> "sent", left |-> batch]]
      /\ calls \in [Calls -> Requests] /\ \A e \in Calls \ {c} : calls[e] = saving[e]
  BY DEF SendBatch, Browses
<1> HIDE DEF batch, later
<1>3. TrTypeOK'
  BY <1>1, <1>2 DEF SpeechInv, TrTypeOK, Browses, Requests, Pages, Segments
<1>4. Kept' = Kept /\ spoken' = spoken /\ Taken' = spoken - Len(later)
  BY <1>2 DEF Browses, Kept, Taken
<1>5. 1..(spoken - Len(later) - Len(batch)) \subseteq Kept
  <2>1. spoken - Len(later) - Len(batch) = spoken - Len(waiting)
    BY <1>1, TakenIsCount
  <2> QED
    BY <2>1 DEF Pending
<1>6. BufferInv'
  <2>1. Until(later, spoken) /\ Until(batch, Taken') /\ flight'.batch = batch
    BY <1>1, <1>2, <1>4
  <2> QED
    BY <1>2, <1>4, <1>5, <2>1 DEF BufferInv, Until
<1>7. ServerInv'
  <2>1. \A n \in Kept' : 1..n \subseteq Kept'
    BY <1>4 DEF SpeechInv, ServerInv
  <2>2. Going(saving[c], Taken)' /\ saving'[c].pc = "sent" /\ Taken' \in Nat
    <3>1. saving'[c] = [pc |-> "sent", left |-> batch]
      BY <1>2
    <3>2. Taken' \in Nat
      BY <1>1, <1>4 DEF Until, SpeechInv, TrTypeOK
    <3>3. Until(saving[c].left, Taken)' /\ 1..(Taken' - Len(saving'[c].left)) \subseteq Kept'
      BY <1>1, <1>4, <1>5, <3>1 DEF Until
    <3> QED
      BY <3>1, <3>2, <3>3 DEF Going
  <2>3. ASSUME NEW e \in Calls, saving'[e].pc \in {"sent", "inserting"}
        PROVE  \E m \in Nat : Going(saving[e], m)'
    <3>1. CASE e = c
      BY <2>2, <3>1
    <3>2. CASE e # c
      <4>1. saving'[e] = saving[e]
        BY <1>2, <3>2
      <4>2. PICK m \in Nat : Going(saving[e], m)
        BY <2>3, <4>1 DEF SpeechInv, ServerInv
      <4> QED
        BY <1>4, <4>1, <4>2 DEF Going, Until
    <3> QED
      BY <3>1, <3>2
  <2>4. flight'.call = c
    BY <1>2
  <2> QED
    BY <2>1, <2>2, <2>3, <2>4 DEF ServerInv
<1> QED
  BY <1>3, <1>6, <1>7 DEF SpeechInv

\* Nothing is in flight, and all that is not kept waits.
LEMMA GroundKeeps ==
    ASSUME SpeechInv, NEW c \in Calls, NEW calls, Browses(c, calls),
           calls[c] = saving[c] \/ calls[c] = NotSaving,
           NEW waiting, Pending(waiting),
           unsaved' = waiting, flight' = Grounded, saving' = calls
    PROVE  SpeechInv'
<1>1. flight' = [call |-> NoCall, batch |-> <<>>] /\ <<>> \in Segments /\ Len(<<>>) = 0
  BY DEF Grounded, Segments
<1>2. TrTypeOK'
  BY <1>1 DEF SpeechInv, TrTypeOK, Browses, Requests, Pages, Segments, Pending
<1>3. Kept' = Kept /\ spoken' = spoken /\ Taken' = spoken - Len(waiting)
  BY DEF Browses, Kept, Taken
<1>4. Len(waiting) \in Nat /\ spoken - Len(waiting) \in Nat
  BY DEF Pending, Segments, Until, SpeechInv, TrTypeOK
<1>5. BufferInv'
  <2>1. Until(waiting, spoken) /\ 1..(spoken - Len(waiting)) \subseteq Kept
    BY DEF Pending
  <2>2. Until(<<>>, Taken')
    BY <1>3, <1>4 DEF Until
  <2>3. 1..(Taken' - Len(<<>>)) \subseteq Kept'
    BY <1>1, <1>3, <1>4, <2>1
  <2> QED
    BY <1>1, <1>3, <2>1, <2>2, <2>3 DEF BufferInv, Until
<1>6. ServerInv'
  <2>1. \A e \in Calls : saving'[e] = saving[e] \/ saving'[e] = NotSaving
    BY DEF Browses
  <2>2. ASSUME NEW e \in Calls, saving'[e].pc \in {"sent", "inserting"}
        PROVE  \E m \in Nat : Going(saving[e], m)'
    <3>1. saving'[e] = saving[e]
      BY <2>1, <2>2 DEF NotSaving
    <3>2. PICK m \in Nat : Going(saving[e], m)
      BY <2>2, <3>1 DEF SpeechInv, ServerInv
    <3> QED
      BY <1>3, <3>1, <3>2 DEF Going, Until
  <2>3. \A e \in Calls : flight'.call # e
    BY <1>1, TranscriptAssumption
  <2> QED
    BY <1>3, <2>2, <2>3 DEF ServerInv, SpeechInv
<1> QED
  BY <1>2, <1>5, <1>6 DEF SpeechInv

\* What fails waits again, or is sent again at once.
LEMMA PutBackKeeps ==
    ASSUME SpeechInv, NEW d \in Calls, NEW calls, calls \in [Calls -> Requests],
           \A e \in Calls : calls[e] = saving[e] \/ (calls[e] = NotSaving /\ e = d),
           PutBack(d, calls), UNCHANGED <<spoken, rows, present, refused>>
    PROVE  SpeechInv'
<1> DEFINE waiting == flight.batch \o unsaved
<1>1. Browses(d, calls)
  BY DEF PutBack, Settled, Browses, Pages, SpeechInv, TrTypeOK
<1>2. Pending(waiting)
  <2>1. /\ waiting \in Segments /\ Len(waiting) = Len(flight.batch) + Len(unsaved)
        /\ Until(waiting, spoken)
    BY Joined DEF SpeechInv, TrTypeOK, BufferInv, Taken, Segments
  <2>2. spoken - Len(waiting) = Taken - Len(flight.batch)
    BY <2>1, TakenIsCount DEF Taken, SpeechInv, TrTypeOK
  <2> QED
    BY <2>1, <2>2 DEF Pending, SpeechInv, BufferInv
<1>3. CASE again
  <2>1. SendBatch(d, waiting, calls)
    BY <1>3 DEF PutBack
  <2> QED
    BY <1>1, <1>2, <2>1, SendKeeps
<1>4. CASE ~again
  <2>1. unsaved' = waiting /\ flight' = Grounded /\ saving' = calls
    BY <1>4 DEF PutBack
  <2> QED
    BY <1>1, <1>2, <2>1, GroundKeeps
<1> QED
  BY <1>3, <1>4

\* What a request at the server ends with; it is what is Taken when the browser waits for it.
LEMMA Ending ==
    ASSUME SpeechInv, NEW c \in Calls, saving[c].pc \in {"sent", "inserting"}
    PROVE  \E m \in Nat : Going(saving[c], m) /\ (flight.call = c => m = Taken)
<1>1. CASE flight.call = c
  BY <1>1, TakenIsCount DEF SpeechInv, ServerInv
<1>2. CASE flight.call # c
  BY <1>2 DEF SpeechInv, ServerInv
<1> QED
  BY <1>1, <1>2

\* Rows are written, or refused, without a gap.
LEMMA Grown ==
    ASSUME SpeechInv, NEW a \in Nat, NEW b \in Nat, 1..a \subseteq Kept,
           Kept' = Kept \cup (a + 1)..b
    PROVE  1..b \subseteq Kept' /\ \A n \in Kept' : 1..n \subseteq Kept'
<1>1. Kept \subseteq Nat /\ \A n \in Kept : 1..n \subseteq Kept
  BY DEF Kept, SpeechInv, TrTypeOK, ServerInv
<1>2. ASSUME NEW n \in (a + 1)..b PROVE 1..n \subseteq Kept'
  <2> SUFFICES ASSUME NEW j \in 1..n PROVE j \in Kept'
    OBVIOUS
  <2>1. CASE j <= a
    BY <2>1
  <2>2. CASE ~(j <= a)
    BY <2>2
  <2> QED
    BY <2>1, <2>2
<1>3. 1..b \subseteq Kept'
  <2> SUFFICES ASSUME NEW j \in 1..b PROVE j \in Kept'
    OBVIOUS
  <2>1. CASE j <= a
    BY <2>1
  <2>2. CASE ~(j <= a)
    BY <2>2
  <2> QED
    BY <2>1, <2>2
<1> QED
  BY <1>1, <1>2, <1>3

\* A step of one request at the server, after which it is r.
LEMMA ServerKeeps ==
    ASSUME SpeechInv, NEW c \in Calls, NEW r \in Requests,
           saving' = [saving EXCEPT ![c] = r], UNCHANGED <<spoken, buffer, page, present>>,
           rows' \subseteq 1..MaxSpoken, refused' \subseteq 1..MaxSpoken,
           Kept \subseteq Kept', \A n \in Kept' : 1..n \subseteq Kept',
           NEW m \in Nat, flight.call = c => m = Taken,
           r.pc \in {"sent", "inserting"} =>
               Until(r.left, m) /\ 1..(m - Len(r.left)) \subseteq Kept',
           r.pc = "saved" => 1..m \subseteq Kept'
    PROVE  SpeechInv'
<1>1. UNCHANGED <<spoken, unsaved, flight, again, page, present>> /\ Taken' = Taken
  BY DEF buffer, Taken
<1>2. TrTypeOK'
  BY <1>1 DEF SpeechInv, TrTypeOK, Requests, Segments
<1>3. BufferInv'
  BY <1>1 DEF SpeechInv, BufferInv, Until
<1>4. saving'[c] = r /\ \A e \in Calls \ {c} : saving'[e] = saving[e]
  BY DEF SpeechInv, TrTypeOK
<1>5. ASSUME NEW e \in Calls, saving'[e].pc \in {"sent", "inserting"}
      PROVE  \E k \in Nat : Going(saving[e], k)'
  <2>1. CASE e = c
    BY <1>4, <1>5, <2>1 DEF Going, Until
  <2>2. CASE e # c
    <3>1. PICK k \in Nat : Going(saving[e], k)
      BY <1>4, <1>5, <2>2 DEF SpeechInv, ServerInv
    <3> QED
      BY <1>4, <2>2, <3>1 DEF Going, Until
  <2> QED
    BY <2>1, <2>2
<1>6. ASSUME NEW e \in Calls, flight'.call = e
      PROVE  /\ saving'[e].pc \in {"sent", "inserting"} => Going(saving[e], Taken)'
             /\ saving'[e].pc = "saved" => 1..Taken' \subseteq Kept'
  <2>1. CASE e = c
    BY <1>1, <1>4, <1>6, <2>1 DEF Going, Until
  <2>2. CASE e # c
    <3>1. /\ saving[e].pc \in {"sent", "inserting"} => Going(saving[e], Taken)
          /\ saving[e].pc = "saved" => 1..Taken \subseteq Kept
      BY <1>1, <1>6 DEF SpeechInv, ServerInv
    <3> QED
      BY <1>1, <1>4, <2>2, <3>1 DEF Going, Until
  <2> QED
    BY <2>1, <2>2
<1> QED
  BY <1>2, <1>3, <1>5, <1>6 DEF SpeechInv, ServerInv

LEMMA SpeechStarts == TrInit => SpeechInv
<1> SUFFICES ASSUME TrInit PROVE SpeechInv
  OBVIOUS
<1>1. TrTypeOK
  <2>1. saving \in [Calls -> [pc : {"idle", "sent", "inserting", "saved", "failed"},
                              left : Seq(1..MaxSpoken)]]
    BY DEF TrInit, NotSaving
  <2>2. /\ flight \in [call : Calls \cup {NoCall}, batch : Seq(1..MaxSpoken)]
        /\ spoken \in 0..MaxSpoken
    BY TranscriptAssumption DEF TrInit, Grounded
  <2>3. again \in BOOLEAN /\ present \in BOOLEAN
    BY Zenon DEF TrInit
  <2>4. page = "in" /\ unsaved \in Seq(1..MaxSpoken) /\ rows = {} /\ refused = {}
    BY DEF TrInit
  <2> QED
    BY <2>1, <2>2, <2>3, <2>4 DEF TrTypeOK
<1>2. BufferInv
  BY DEF TrInit, BufferInv, Until, Taken, Grounded
<1>3. ServerInv
  BY TranscriptAssumption DEF TrInit, ServerInv, Kept, Grounded, NotSaving
<1> QED
  BY <1>1, <1>2, <1>3 DEF SpeechInv

\* The buffer and the requests stay as they are.
LEMMA IdleKeeps ==
    ASSUME SpeechInv, UNCHANGED <<spoken, unsaved, flight, saving, rows, refused>>,
           again' \in BOOLEAN, page' \in Pages, present' \in BOOLEAN
    PROVE  SpeechInv'
<1>1. TrTypeOK' /\ Taken' = Taken /\ Kept' = Kept
  BY DEF SpeechInv, TrTypeOK, Pages, Taken, Kept
<1>2. BufferInv'
  BY <1>1 DEF SpeechInv, BufferInv, Until
<1>3. ServerInv'
  BY <1>1 DEF SpeechInv, ServerInv, Going, Until
<1> QED
  BY <1>1, <1>2, <1>3 DEF SpeechInv

\* The speaker speaks, is marked absent and present, and leaves.
LEMMA SpeakerStep ==
    ASSUME SpeechInv, Speaks \/ FlushQueues \/ Departs \/ PresenceChanges
    PROVE  SpeechInv'
<1>b. again \in BOOLEAN /\ page \in Pages /\ present \in BOOLEAN
  BY DEF SpeechInv, TrTypeOK, Pages
<1>c. unsaved \in Segments /\ Until(unsaved, spoken)
  BY DEF SpeechInv, TrTypeOK, BufferInv, Segments
<1>1. CASE Speaks
  <2>1. /\ unsaved' = Append(unsaved, spoken + 1)
        /\ spoken' = spoken + 1 /\ spoken' \in 1..MaxSpoken
        /\ UNCHANGED <<flight, again, page, saving, rows, present, refused>>
    BY <1>1, TranscriptAssumption DEF Speaks, SpeechInv, TrTypeOK
  <2>2. /\ unsaved' \in Segments /\ Len(unsaved') = Len(unsaved) + 1
        /\ unsaved'[Len(unsaved) + 1] = spoken + 1
        /\ \A i \in 1..Len(unsaved) : unsaved'[i] = unsaved[i]
    BY <1>c, <2>1, TranscriptAssumption DEF Segments
  <2>3. Taken' = Taken /\ Kept' = Kept
    BY <2>1, <2>2, TakenIsCount DEF Taken, Kept, SpeechInv, TrTypeOK
  <2>4. TrTypeOK'
    BY <2>1, <2>2, TranscriptAssumption DEF SpeechInv, TrTypeOK, Segments
  <2>5. BufferInv'
    <3>1. Until(unsaved', spoken')
      <4>1. /\ Len(unsaved) <= spoken
            /\ \A i \in 1..Len(unsaved) : unsaved[i] = spoken - Len(unsaved) + i
        BY <1>c DEF Until
      <4>2. ASSUME NEW i \in 1..(Len(unsaved) + 1) PROVE unsaved'[i] = spoken - Len(unsaved) + i
        BY <2>2, <4>1, TakenIsCount, SMTT(30)
      <4>3. spoken' - Len(unsaved') = spoken - Len(unsaved) /\ Len(unsaved') <= spoken'
        BY <2>1, <2>2, <4>1, TakenIsCount
      <4> QED
        BY <2>2, <4>2, <4>3 DEF Until
    <3> QED
      BY <2>1, <2>3, <3>1 DEF SpeechInv, BufferInv, Until
  <2>6. ServerInv'
    BY <2>1, <2>3 DEF SpeechInv, ServerInv, Going, Until
  <2> QED
    BY <2>4, <2>5, <2>6 DEF SpeechInv
<1>2. CASE FlushQueues \/ Departs
  BY <1>2, IdleKeeps, <1>b DEF FlushQueues, Departs, buffer, Pages
<1>3. CASE PresenceChanges
  BY <1>3, IdleKeeps, <1>b DEF PresenceChanges, buffer
<1> QED
  BY <1>1, <1>2, <1>3

\* The browser sends, repeats and leaves.
LEMMA BrowserStep ==
    ASSUME SpeechInv, NEW c \in Calls,
           \/ FlushBegins(c) \/ LeaveBegins(c) \/ PageCloses(c)
           \/ BatchSaved(c) \/ BatchFailed(c) \/ \E d \in Calls : AnswerLost(c, d)
    PROVE  SpeechInv'
<1>b. saving \in [Calls -> Requests] /\ again \in BOOLEAN /\ page \in Pages /\ present \in BOOLEAN
      /\ NotSaving \in Requests
  BY DEF SpeechInv, TrTypeOK, Requests, Pages, Segments, NotSaving
<1>c. unsaved \in Segments /\ Until(unsaved, spoken)
  BY DEF SpeechInv, TrTypeOK, BufferInv, Segments
<1>d. flight = Grounded => Pending(unsaved)
  <2>1. Len(<<>>) = 0 /\ (flight = Grounded => flight.batch = <<>>)
    BY DEF Grounded
  <2> QED
    BY <1>c, <2>1, TakenIsCount DEF Pending, Taken, SpeechInv, BufferInv
<1>e. flight.call = c /\ saving[c].pc = "saved" => Pending(unsaved)
  BY <1>c DEF Pending, Taken, SpeechInv, ServerInv
<1>1. CASE FlushBegins(c)
  <2>1. Browses(c, saving) /\ Pending(unsaved) /\ SendBatch(c, unsaved, saving)
    BY <1>1, <1>b, <1>d DEF FlushBegins, Browses
  <2> QED
    BY <2>1, SendKeeps
<1>2. CASE LeaveBegins(c)
  <2>1. CASE flight = Grounded /\ unsaved # <<>>
    <3>1. Browses(c, saving) /\ Pending(unsaved) /\ SendBatch(c, unsaved, saving)
      BY <1>2, <1>b, <1>d, <2>1 DEF LeaveBegins, Browses, Pages
    <3> QED
      BY <3>1, SendKeeps
  <2>2. CASE ~(flight = Grounded /\ unsaved # <<>>)
    <3>1. again' \in BOOLEAN
      <4>1. again' = (again \/ unsaved # <<>>)
        BY <1>2, <2>2 DEF LeaveBegins
      <4> QED
        BY <4>1, Zenon
    <3> QED
      BY <1>2, IdleKeeps, <1>b, <2>2, <3>1 DEF LeaveBegins, Pages
  <2> QED
    BY <2>1, <2>2
<1>3. CASE PageCloses(c)
  <2>1. CASE flight = Grounded /\ unsaved # <<>>
    <3>1. Browses(c, saving) /\ Pending(unsaved) /\ SendBatch(c, unsaved, saving)
      BY <1>3, <1>b, <1>d, <2>1 DEF PageCloses, Browses, Pages
    <3> QED
      BY <3>1, SendKeeps
  <2>2. CASE ~(flight = Grounded /\ unsaved # <<>>)
    BY <1>3, IdleKeeps, <1>b, <2>2 DEF PageCloses, Pages
  <2> QED
    BY <2>1, <2>2
<1>4. CASE BatchSaved(c)
  <2>1. Pending(unsaved)
    BY <1>4, <1>e DEF BatchSaved
  <2>2. CASE unsaved # <<>>
    <3>1. Browses(c, saving) /\ SendBatch(c, unsaved, saving)
      BY <1>4, <1>b, <2>2 DEF BatchSaved, Browses
    <3> QED
      BY <2>1, <3>1, SendKeeps
  <2>3. CASE unsaved = <<>>
    <3> DEFINE calls == [saving EXCEPT ![c] = NotSaving]
    <3>1. /\ Browses(c, calls) /\ calls[c] = NotSaving
          /\ unsaved' = unsaved /\ flight' = Grounded /\ saving' = calls
      BY <1>4, <1>b, <2>3 DEF BatchSaved, Browses, Settled, Pages
    <3> QED
      BY <2>1, <3>1, GroundKeeps
  <2> QED
    BY <2>2, <2>3
<1>5. CASE BatchFailed(c)
  <2> DEFINE calls == [saving EXCEPT ![c] = NotSaving]
  <2>1. PutBack(c, calls) /\ UNCHANGED <<spoken, rows, present, refused>>
    BY <1>5 DEF BatchFailed
  <2>2. /\ calls \in [Calls -> Requests]
        /\ \A e \in Calls : calls[e] = saving[e] \/ (calls[e] = NotSaving /\ e = c)
    BY <1>b
  <2> HIDE DEF calls
  <2> QED
    BY <2>1, <2>2, PutBackKeeps
<1>6. ASSUME NEW d \in Calls, AnswerLost(c, d) PROVE SpeechInv'
  <2>1. PutBack(d, saving) /\ UNCHANGED <<spoken, rows, present, refused>>
    BY <1>6 DEF AnswerLost
  <2>2. saving \in [Calls -> Requests] /\ \A e \in Calls : saving[e] = saving[e]
    BY <1>b
  <2> QED
    BY <2>1, <2>2, PutBackKeeps
<1> QED
  BY <1>1, <1>2, <1>3, <1>4, <1>5, <1>6

\* The server finds the speaker, writes rows, and fails.
LEMMA ServerStep ==
    ASSUME SpeechInv, NEW c \in Calls, SaveFinds(c) \/ SaveInserts(c) \/ SaveFails(c)
    PROVE  SpeechInv'
<1> DEFINE left == saving[c].left
           Over(pc) == IF flight.call = c /\ page # "closed"
                       THEN [NotSaving EXCEPT !.pc = pc] ELSE NotSaving
<1>1. saving[c].pc \in {"sent", "inserting"}
  BY DEF SaveFinds, SaveInserts, SaveFails
<1>2. PICK m \in Nat : Going(saving[c], m) /\ (flight.call = c => m = Taken)
  BY <1>1, Ending
<1>3. /\ saving \in [Calls -> Requests] /\ left \in Segments /\ Len(left) \in Nat
      /\ rows \subseteq 1..MaxSpoken /\ refused \subseteq 1..MaxSpoken
      /\ \A n \in Kept : 1..n \subseteq Kept
  <2>1. saving \in [Calls -> Requests]
    BY DEF SpeechInv, TrTypeOK, Requests, Segments
  <2>2. left \in Segments
    BY <2>1 DEF Requests
  <2>3. Len(left) \in Nat
    BY <2>2 DEF Segments
  <2> QED
    BY <2>1, <2>2, <2>3 DEF SpeechInv, TrTypeOK, ServerInv
<1>4. Until(left, m) /\ 1..(m - Len(left)) \subseteq Kept /\ m - Len(left) \in Nat
  <2>1. Until(left, m) /\ 1..(m - Len(left)) \subseteq Kept
    BY <1>2 DEF Going
  <2>2. m - Len(left) \in Nat
    BY <1>3, <2>1 DEF Until
  <2> QED
    BY <2>1, <2>2
<1>5. \A pc \in {"saved", "failed"} : Over(pc) \in Requests /\ Over(pc).pc \in {"idle", pc}
  <2>1. /\ [NotSaving EXCEPT !.pc = "saved"] = [pc |-> "saved", left |-> <<>>]
        /\ [NotSaving EXCEPT !.pc = "failed"] = [pc |-> "failed", left |-> <<>>]
    BY DEF NotSaving
  <2>2. <<>> \in Segments
    BY DEF Segments
  <2> QED
    BY <2>1, <2>2 DEF Requests, NotSaving
<1>6. CASE SaveFinds(c) /\ present
  <2> DEFINE r == [saving[c] EXCEPT !.pc = "inserting"]
  <2>1. r \in Requests /\ r.left = left /\ saving' = [saving EXCEPT ![c] = r]
    BY <1>3, <1>6 DEF SaveFinds, Requests
  <2>2. UNCHANGED <<spoken, buffer, page, present, rows, refused>> /\ Kept' = Kept
    BY <1>6 DEF SaveFinds, Kept
  <2> HIDE DEF r
  <2>3. r.pc \in {"sent", "inserting"} => Until(r.left, m) /\ 1..(m - Len(r.left)) \subseteq Kept'
    BY <1>4, <2>1, <2>2
  <2>4. r.pc # "saved"
    BY <1>3 DEF r, Requests
  <2> QED
    BY <1>2, <1>3, <2>1, <2>2, <2>3, <2>4, ServerKeeps
<1>7. CASE SaveFinds(c) /\ ~present
  <2>1. /\ saving' = [saving EXCEPT ![c] = Over("saved")]
        /\ UNCHANGED <<spoken, buffer, page, present, rows>>
        /\ refused' = refused \cup ToSet(left)
    BY <1>7 DEF SaveFinds, Ended
  <2>2. ToSet(left) = (m - Len(left) + 1)..m /\ ToSet(left) \subseteq 1..MaxSpoken
    BY <1>3, <1>4, Covered DEF Segments
  <2>3. Kept' = Kept \cup (m - Len(left) + 1)..m
    BY <2>1, <2>2 DEF Kept
  <2>4. 1..m \subseteq Kept' /\ \A n \in Kept' : 1..n \subseteq Kept'
    BY <1>4, <2>3, Grown
  <2> HIDE DEF Over
  <2> QED
    BY <1>2, <1>3, <1>5, <2>1, <2>2, <2>3, <2>4, ServerKeeps
<1>8. CASE SaveInserts(c)
  <2> DEFINE chunk == First(left, ChunkSize)
             later == Rest(left, ChunkSize)
  <2>1. /\ UNCHANGED <<spoken, buffer, page, present, refused>>
        /\ rows' = rows \cup ToSet(chunk)
    BY <1>8 DEF SaveInserts
  <2>2. /\ chunk \in Segments /\ later \in Segments /\ Len(later) \in Nat
        /\ Until(chunk, m - Len(later)) /\ Until(later, m)
        /\ ToSet(chunk) = (m - Len(left) + 1)..(m - Len(later))
        /\ Len(left) <= ChunkSize => Len(later) = 0
    <3>1. left \in Seq(1..MaxSpoken) /\ ChunkSize \in Nat \ {0}
      BY <1>3, TranscriptAssumption DEF Segments
    <3> HIDE DEF left
    <3> QED
      BY <1>4, <3>1, Cut DEF Segments
  <2>3. m - Len(later) \in Nat
    BY <2>2 DEF Until
  <2>4. ToSet(chunk) \subseteq 1..MaxSpoken
    <3>1. chunk \in Seq(1..MaxSpoken) /\ Until(chunk, m - Len(later))
      BY <2>2 DEF Segments
    <3> HIDE DEF chunk, later
    <3> QED
      BY <2>3, <3>1, Covered
  <2>5. Kept' = Kept \cup (m - Len(left) + 1)..(m - Len(later))
    BY <2>1, <2>2 DEF Kept
  <2>6. 1..(m - Len(later)) \subseteq Kept' /\ \A n \in Kept' : 1..n \subseteq Kept'
    BY <1>4, <2>3, <2>5, Grown
  <2>7. CASE Len(left) <= ChunkSize
    <3>1. saving' = [saving EXCEPT ![c] = Over("saved")]
      BY <1>8, <2>7 DEF SaveInserts, Ended
    <3>2. 1..m \subseteq Kept'
      BY <2>2, <2>6, <2>7
    <3> HIDE DEF Over
    <3> QED
      BY <1>2, <1>3, <1>5, <2>1, <2>4, <2>5, <2>6, <3>1, <3>2, ServerKeeps
  <2>8. CASE ~(Len(left) <= ChunkSize)
    <3> DEFINE r == [saving[c] EXCEPT !.left = later]
    <3>1. r \in Requests /\ r.left = later /\ r.pc = saving[c].pc
      BY <1>3, <2>2 DEF Requests
    <3>2. saving' = [saving EXCEPT ![c] = r]
      BY <1>8, <2>8 DEF SaveInserts
    <3> HIDE DEF r, later, chunk
    <3>3. r.pc \in {"sent", "inserting"} => Until(r.left, m) /\ 1..(m - Len(r.left)) \subseteq Kept'
      BY <2>2, <2>6, <3>1
    <3> QED
      BY <1>1, <1>2, <1>3, <2>1, <2>4, <2>5, <2>6, <3>1, <3>2, <3>3, ServerKeeps
  <2> QED
    BY <2>7, <2>8
<1>9. CASE SaveFails(c)
  <2>1. /\ saving' = [saving EXCEPT ![c] = Over("failed")]
        /\ UNCHANGED <<spoken, buffer, page, present, rows, refused>> /\ Kept' = Kept
    BY <1>9 DEF SaveFails, Ended, Kept
  <2> HIDE DEF Over
  <2> QED
    BY <1>2, <1>3, <1>5, <2>1, ServerKeeps
<1> QED
  BY <1>6, <1>7, <1>8, <1>9

LEMMA SpeechStep == SpeechInv /\ [TrNext]_trVars => SpeechInv'
<1> SUFFICES ASSUME SpeechInv, [TrNext]_trVars PROVE SpeechInv'
  OBVIOUS
<1>1. CASE UNCHANGED trVars
  BY <1>1, ZenonT(60) DEF trVars, buffer, SpeechInv, TrTypeOK, BufferInv, ServerInv, Going, Until,
                          Taken, Kept
<1>2. CASE Speaks \/ FlushQueues \/ Departs \/ PresenceChanges
  BY <1>2, SpeakerStep
<1>3. ASSUME NEW c \in Calls,
             \/ FlushBegins(c) \/ LeaveBegins(c) \/ PageCloses(c)
             \/ BatchSaved(c) \/ BatchFailed(c) \/ \E d \in Calls : AnswerLost(c, d)
      PROVE  SpeechInv'
  BY <1>3, BrowserStep
<1>4. ASSUME NEW c \in Calls, SaveFinds(c) \/ SaveInserts(c) \/ SaveFails(c) PROVE SpeechInv'
  BY <1>4, ServerStep
<1> QED
  BY <1>1, <1>2, <1>3, <1>4 DEF TrNext

\* Nothing that was said gets lost between the buffer and the table, and no segment gets
\* ahead of an earlier one: whatever batches fail, are repeated, overlap or are cut in chunks.
THEOREM SpeechIsKept == TrSpec => []SpeechKept
<1>1. SpeechInv => SpeechKept
  <2> SUFFICES ASSUME SpeechInv PROVE SpeechKept
    OBVIOUS
  <2> DEFINE tail == flight.batch \o unsaved
  <2>1. tail \in Segments /\ Len(tail) = Len(flight.batch) + Len(unsaved) /\ Until(tail, spoken)
    BY Joined DEF SpeechInv, TrTypeOK, BufferInv, Taken, Segments
  <2>2. tail = [i \in 1..Len(tail) |-> spoken - Len(tail) + i]
    <3> HIDE DEF tail
    <3> QED
      BY <2>1 DEF Until, Segments
  <2>3. spoken - Len(tail) = Taken - Len(flight.batch)
    BY <2>1, TakenIsCount DEF Taken, SpeechInv, TrTypeOK
  <2> QED
    BY <2>2, <2>3 DEF SpeechKept, SpeechInv, BufferInv, ServerInv, Kept
<1> QED
  BY <1>1, SpeechStarts, SpeechStep, PTL DEF TrSpec

-----------------------------------------------------------------------------
(* Whiteboards.  What endSession captured is in the pending file until it  *)
(* is archived, and once it is, no request under way can put anything      *)
(* older in its place.                                                     *)

\* The pending file has one writer.
OneWriter == "overlaps" \notin faults

\* The archive has what was captured, and so will whatever is still under way to it.
Archived ==
    /\ Has(archive, captured)
    /\ \A p \in Pushers : UnderWay(p) => captured \subseteq push[p]

\* A room has its database file, and there is no pending file without one, unless the file was
\* deleted under a room.
RoomInv ==
    /\ room # "none" => db # NoBoard
    /\ OneWriter => ~unlinked /\ (db = NoBoard => pending = NoFile)
    /\ why \in {"idle", "shutdown"} => room # "none"
\* A snapshot is captured once, after the meeting has ended.
EndInv ==
    /\ ~over => notice = "none"
    /\ notice # "done" => final = "none" /\ captured = NoBoard
    /\ final # "none" <=> room = "ending"
    /\ final = "digest" => captured = NoBoard
    /\ final \in {"pushing", "archived", "failed"} => captured # NoBoard
\* Files are deleted only with a captured snapshot; while one is flushed there is no room.
FileInv ==
    /\ deletes \/ pending.delete => captured # NoBoard
    /\ OneWriter /\ UnderWay("flush") => room = "none"
    /\ OneWriter /\ final = "digest" => ~(UnderWay("room") /\ why \in {"idle", "shutdown"})
\* Once a snapshot is captured, no file is written without it: whoever comes back goes on with
\* the files, or with the archive when it has the snapshot.
KeptInv ==
    Orderly /\ captured # NoBoard =>
        /\ \A file \in {db, pending.board, push["final"], push["flush"]} \ {NoBoard} :
               captured \subseteq file
        /\ UnderWay("room") /\ why \in {"idle", "shutdown"} => captured \subseteq push["room"]
        /\ Has(pending.board, captured) \/ Archived
        /\ final = "archived" => Archived

\* Nothing is written anywhere that was not drawn.
WrittenInv ==
    /\ \A file \in {db, archive, pending.board} \ {NoBoard} : file \subseteq 1..drawn
    /\ \A p \in Pushers : UnderWay(p) => push[p] \subseteq 1..drawn
\* What was drawn since a room began its push is in its database only.
FreshInv ==
    Orderly /\ captured = NoBoard /\ UnderWay("room") =>
        /\ db # NoBoard
        /\ \A file \in {archive, pending.board, push["flush"]} \ {NoBoard} :
               file \cap (db \ push["room"]) = {}
\* The archive that has what was captured keeps it.
HeldInv == Orderly /\ captured # NoBoard /\ Has(archive, captured) => Archived

BoardInv == SnTypeOK /\ RoomInv /\ EndInv /\ FileInv

\* Every variable keeps its type: a stroke is drawn only on a board that there is.
LEMMA BoardTypes ==
    ASSUME BoardInv, [SnNext]_snVars
    PROVE  SnTypeOK'
<1> USE SnapshotAssumption DEF BoardInv, SnTypeOK, NoFile, Boards, Pushers
<1>1. CASE Connects
  <2>1. db' \in {NoBoard} \cup Boards /\ pushed' \in {NoBoard} \cup Boards
    BY <1>1 DEF Connects, Enter
  <2>2. visits' \in 0..MaxVisits
    BY <1>1 DEF Connects, MayEnter
  <2> QED
    BY <1>1, <2>1, <2>2 DEF Connects, Enter
<1>2. CASE Prepares
  BY <1>2 DEF Prepares, MayEnter, UnderWay, web, roomObject
<1>3. CASE Prepared
  <2>1. UNCHANGED <<roomObject, db>> \/ \E initial \in Boards : Enter(initial)
    BY <1>3 DEF Prepared
  <2>2. {db', pushed'} \subseteq {NoBoard} \cup Boards
    BY <2>1 DEF Enter, roomObject
  <2>3. /\ room' \in {"none", "open", "ending"}
        /\ connected' \in BOOLEAN /\ idle' \in BOOLEAN /\ unlinked' \in BOOLEAN
    BY <2>1 DEF Enter, roomObject
  <2>4. fetching' \in 0..MaxFetching
    BY <1>3 DEF Prepared
  <2> QED
    BY <1>3, <2>2, <2>3, <2>4 DEF Prepared, web
<1>4. CASE Draws
  <2>1. drawn' \in 0..Strokes /\ db' \in Boards
    BY <1>4 DEF Draws, BoardInv, RoomInv
  <2> QED
    BY <1>4, <2>1 DEF Draws, web, roomObject
<1>5. CASE Leaves
  BY <1>5, ZenonT(60) DEF Leaves, web, roomObject
<1>6. CASE Autosnapshot
  BY <1>6 DEF Autosnapshot, Pushes, UnderWay, web, roomObject
<1>7. CASE IdleFires
  BY <1>7 DEF IdleFires, Pushes, UnderWay, web, roomObject
<1>8. CASE Shutdown
  BY <1>8, ZenonT(60) DEF Shutdown, Pushes, Close, UnderWay, web, roomObject
<1>9. CASE MeetingEnds
  BY <1>9 DEF MeetingEnds, web, roomObject
<1>10. CASE NoticeLost
  BY <1>10 DEF NoticeLost, web, roomObject
<1>11. CASE EndBegins
  BY <1>11, ZenonT(60) DEF EndBegins, UnderWay, web, roomObject
<1>12. CASE EndCaptures
  <2>1. {db', captured', pending'.board} \subseteq {NoBoard} \cup Boards /\ pending'.delete \in BOOLEAN
    <3>1. pending' = pending \/ pending' = [board |-> db, delete |-> TRUE]
      BY <1>12 DEF EndCaptures, Persist
    <3>2. pending'.board \in {NoBoard} \cup Boards
      BY <3>1
    <3>3. pending'.delete \in BOOLEAN
      <4>1. pending.delete \in BOOLEAN /\ [board |-> db, delete |-> TRUE].delete = TRUE
        OBVIOUS
      <4> HIDE DEF NoFile, SnTypeOK, BoardInv
      <4> QED
        BY <3>1, <4>1, Zenon
    <3> QED
      BY <1>12, <3>2, <3>3 DEF EndCaptures
  <2>2. push' \in [Pushers -> {NoBoard} \cup Boards]
    BY <1>12 DEF EndCaptures
  <2> QED
    BY <1>12, <2>1, <2>2 DEF EndCaptures, web, roomObject
<1>13. CASE EndFinishes
  <2>1. (db' = db \/ db' = NoBoard) /\ (pending' = pending \/ pending' = NoFile)
    BY <1>13 DEF EndFinishes, Close
  <2>2. {db', pending'.board} \subseteq {NoBoard} \cup Boards
    BY <2>1
  <2>3. pending'.delete \in BOOLEAN
    <3>1. NoFile.delete = FALSE /\ pending.delete \in BOOLEAN
      OBVIOUS
    <3> HIDE DEF NoFile, SnTypeOK, BoardInv
    <3> QED
      BY <2>1, <3>1, Zenon
  <2> QED
    BY <1>13, <2>2, <2>3 DEF EndFinishes, Close, web
<1>14. CASE FlushStarts
  BY <1>14 DEF FlushStarts, UnderWay, web, roomObject
<1>15. CASE Prune
  BY <1>15 DEF Prune, web, roomObject
<1>16. CASE Crash
  <2>1. db' \in {NoBoard} \cup Boards /\ archive' \in {NoBoard} \cup Boards
    BY <1>16 DEF Crash, Close
  <2>2. push' \in [Pushers -> {NoBoard} \cup Boards]
    BY <1>16 DEF Crash
  <2>3. fetching' \in 0..MaxFetching
    BY <1>16 DEF Crash
  <2> QED
    BY <1>16, <2>1, <2>2, <2>3, ZenonT(60) DEF Crash, Close, web
<1>17. ASSUME NEW ok \in BOOLEAN, RoomAnswered(ok) PROVE SnTypeOK'
  <2>1. push' \in [Pushers -> {NoBoard} \cup Boards] /\ archive' \in {NoBoard} \cup Boards
    BY <1>17 DEF RoomAnswered, Answer
  <2>2. {pushed', pending'.board} \subseteq {NoBoard} \cup Boards /\ pending'.delete \in BOOLEAN
    <3>1. pushed' \in {NoBoard} \cup Boards
      BY <1>17 DEF RoomAnswered, Close, roomObject
    <3>2. \/ pending' = pending \/ pending' = NoFile
          \/ pending' = [board |-> push["room"], delete |-> FALSE]
      BY <1>17 DEF RoomAnswered, ClearPending, Persist
    <3>3. pending'.board \in {NoBoard} \cup Boards
      BY <3>2
    <3>4. pending'.delete \in BOOLEAN
      <4>1. /\ NoFile.delete = FALSE /\ pending.delete \in BOOLEAN
            /\ [board |-> push["room"], delete |-> FALSE].delete = FALSE
        OBVIOUS
      <4> HIDE DEF NoFile, SnTypeOK, BoardInv
      <4> QED
        BY <3>2, <4>1, Zenon
    <3> QED
      BY <3>1, <3>3, <3>4
  <2>3. /\ room' \in {"none", "open", "ending"} /\ why' \in {"auto", "idle", "shutdown", "orphan"}
        /\ final' \in {"none", "digest", "pushing", "archived", "failed"}
    BY <1>17 DEF RoomAnswered, Close, roomObject
  <2>4. /\ connected' \in BOOLEAN /\ idle' \in BOOLEAN /\ unlinked' \in BOOLEAN
        /\ db' \in {NoBoard} \cup Boards
    BY <1>17 DEF RoomAnswered, Close, roomObject
  <2> QED
    BY <1>17, <2>1, <2>2, <2>3, <2>4 DEF RoomAnswered, web
<1>18. ASSUME NEW ok \in BOOLEAN, FinalAnswered(ok) PROVE SnTypeOK'
  BY <1>18 DEF FinalAnswered, Answer, UnderWay, InOrder, web, roomObject
<1>19. ASSUME NEW ok \in BOOLEAN, FlushAnswered(ok) PROVE SnTypeOK'
  <2>1. push' \in [Pushers -> {NoBoard} \cup Boards] /\ archive' \in {NoBoard} \cup Boards
    BY <1>19 DEF FlushAnswered, Answer
  <2>2. {db', pending'.board} \subseteq {NoBoard} \cup Boards /\ pending'.delete \in BOOLEAN
    BY <1>19 DEF FlushAnswered
  <2> QED
    BY <1>19, <2>1, <2>2, ZenonT(60) DEF FlushAnswered, web, roomObject
<1>20. CASE UNCHANGED snVars
  BY <1>20 DEF snVars, web, roomObject, UnderWay
<1> QED
  BY <1>1, <1>2, <1>3, <1>4, <1>5, <1>6, <1>7, <1>8, <1>9, <1>10,
     <1>11, <1>12, <1>13, <1>14, <1>15, <1>16, <1>17, <1>18, <1>19, <1>20 DEF SnNext

\* Files go only when their room is gone.
LEMMA BoardRooms ==
    ASSUME BoardInv, [SnNext]_snVars
    PROVE  RoomInv'
<1> USE SnapshotAssumption DEF BoardInv, SnTypeOK, RoomInv, EndInv, FileInv, NoFile, Boards,
                               Pushers, OneWriter
<1>1. CASE Connects
  BY <1>1 DEF Connects, Enter, Undisturbed, MayEnter, UnderWay, web, roomObject
<1>2. CASE Prepares
  BY <1>2 DEF Prepares, MayEnter, UnderWay, web, roomObject
<1>3. CASE Prepared
  BY <1>3 DEF Prepared, Enter, Undisturbed, FetchMayFail, web, roomObject
<1>4. CASE Draws
  BY <1>4 DEF Draws, web, roomObject
<1>5. CASE Leaves
  BY <1>5 DEF Leaves, web, roomObject
<1>6. CASE Autosnapshot
  BY <1>6 DEF Autosnapshot, Pushes, UnderWay, web, roomObject
<1>7. CASE IdleFires
  BY <1>7 DEF IdleFires, Pushes, UnderWay, web, roomObject
<1>8. CASE Shutdown
  BY <1>8 DEF Shutdown, Pushes, Close, UnderWay, web, roomObject
<1>9. CASE MeetingEnds
  BY <1>9 DEF MeetingEnds, web, roomObject
<1>10. CASE NoticeLost
  BY <1>10 DEF NoticeLost, web, roomObject
<1>11. CASE EndBegins
  BY <1>11 DEF EndBegins, UnderWay, web, roomObject
<1>12. CASE EndCaptures
  BY <1>12 DEF EndCaptures, Persist, web, roomObject
<1>13. CASE EndFinishes
  BY <1>13 DEF EndFinishes, Close, web, roomObject
<1>14. CASE FlushStarts
  BY <1>14 DEF FlushStarts, UnderWay, web, roomObject
<1>15. CASE Prune
  BY <1>15 DEF Prune, web, roomObject
<1>16. CASE Crash
  BY <1>16 DEF Crash, Close, web, roomObject
<1>17. ASSUME NEW ok \in BOOLEAN, RoomAnswered(ok) PROVE RoomInv'
  BY <1>17 DEF RoomAnswered, Answer, UnderWay, InOrder, ClearPending, Persist, Close, web, roomObject
<1>18. ASSUME NEW ok \in BOOLEAN, FinalAnswered(ok) PROVE RoomInv'
  BY <1>18 DEF FinalAnswered, Answer, UnderWay, InOrder, web, roomObject
<1>19. ASSUME NEW ok \in BOOLEAN, FlushAnswered(ok) PROVE RoomInv'
  BY <1>19 DEF FlushAnswered, Answer, UnderWay, InOrder, web, roomObject
<1>20. CASE UNCHANGED snVars
  BY <1>20 DEF snVars, web, roomObject, UnderWay
<1> QED
  BY <1>1, <1>2, <1>3, <1>4, <1>5, <1>6, <1>7, <1>8, <1>9, <1>10,
     <1>11, <1>12, <1>13, <1>14, <1>15, <1>16, <1>17, <1>18, <1>19, <1>20 DEF SnNext

\* A snapshot is captured once, by the end of the session.
LEMMA BoardEnds ==
    ASSUME BoardInv, [SnNext]_snVars
    PROVE  EndInv'
<1> USE SnapshotAssumption DEF BoardInv, SnTypeOK, RoomInv, EndInv, FileInv, NoFile, Boards,
                               Pushers, OneWriter
<1>1. CASE Connects
  BY <1>1 DEF Connects, Enter, Undisturbed, MayEnter, UnderWay, web, roomObject
<1>2. CASE Prepares
  BY <1>2 DEF Prepares, MayEnter, UnderWay, web, roomObject
<1>3. CASE Prepared
  BY <1>3 DEF Prepared, Enter, Undisturbed, FetchMayFail, web, roomObject
<1>4. CASE Draws
  BY <1>4 DEF Draws, web, roomObject
<1>5. CASE Leaves
  BY <1>5 DEF Leaves, web, roomObject
<1>6. CASE Autosnapshot
  BY <1>6 DEF Autosnapshot, Pushes, UnderWay, web, roomObject
<1>7. CASE IdleFires
  BY <1>7 DEF IdleFires, Pushes, UnderWay, web, roomObject
<1>8. CASE Shutdown
  BY <1>8 DEF Shutdown, Pushes, Close, UnderWay, web, roomObject
<1>9. CASE MeetingEnds
  BY <1>9 DEF MeetingEnds, web, roomObject
<1>10. CASE NoticeLost
  BY <1>10 DEF NoticeLost, web, roomObject
<1>11. CASE EndBegins
  BY <1>11 DEF EndBegins, UnderWay, web, roomObject
<1>12. CASE EndCaptures
  BY <1>12 DEF EndCaptures, Persist, web, roomObject
<1>13. CASE EndFinishes
  BY <1>13 DEF EndFinishes, Close, web, roomObject
<1>14. CASE FlushStarts
  BY <1>14 DEF FlushStarts, UnderWay, web, roomObject
<1>15. CASE Prune
  BY <1>15 DEF Prune, web, roomObject
<1>16. CASE Crash
  BY <1>16 DEF Crash, Close, web, roomObject
<1>17. ASSUME NEW ok \in BOOLEAN, RoomAnswered(ok) PROVE EndInv'
  BY <1>17 DEF RoomAnswered, Answer, UnderWay, InOrder, ClearPending, Persist, Close, web, roomObject
<1>18. ASSUME NEW ok \in BOOLEAN, FinalAnswered(ok) PROVE EndInv'
  BY <1>18 DEF FinalAnswered, Answer, UnderWay, InOrder, web, roomObject
<1>19. ASSUME NEW ok \in BOOLEAN, FlushAnswered(ok) PROVE EndInv'
  BY <1>19 DEF FlushAnswered, Answer, UnderWay, InOrder, web, roomObject
<1>20. CASE UNCHANGED snVars
  BY <1>20 DEF snVars, web, roomObject, UnderWay
<1> QED
  BY <1>1, <1>2, <1>3, <1>4, <1>5, <1>6, <1>7, <1>8, <1>9, <1>10,
     <1>11, <1>12, <1>13, <1>14, <1>15, <1>16, <1>17, <1>18, <1>19, <1>20 DEF SnNext

\* endSession, the flush and the shutdown do not write the pending file at the same time.
LEMMA BoardFiles ==
    ASSUME BoardInv, [SnNext]_snVars
    PROVE  FileInv'
<1> USE SnapshotAssumption DEF BoardInv, SnTypeOK, RoomInv, EndInv, FileInv, NoFile, Boards,
                               Pushers, OneWriter
<1>1. CASE Connects
  BY <1>1 DEF Connects, Enter, Undisturbed, MayEnter, UnderWay, web, roomObject
<1>2. CASE Prepares
  BY <1>2 DEF Prepares, MayEnter, UnderWay, web, roomObject
<1>3. CASE Prepared
  <2>1. UNCHANGED <<deletes, pending, captured, faults, push, final, why>>
    BY <1>3 DEF Prepared, web
  <2>2. OneWriter /\ UnderWay("flush") => room' = room
    BY <1>3 DEF Prepared, Enter, Undisturbed, OneWriter, roomObject
  <2> QED
    BY <2>1, <2>2 DEF FileInv, UnderWay, BoardInv
<1>4. CASE Draws
  <2>1. UNCHANGED <<deletes, pending, captured, faults, push, room, fetching, final, why>>
    BY <1>4 DEF Draws, web, roomObject
  <2> QED
    BY <2>1 DEF FileInv, UnderWay
<1>5. CASE Leaves
  <2>1. UNCHANGED <<deletes, pending, captured, faults, push, room, fetching, final, why>>
    BY <1>5 DEF Leaves, web, roomObject
  <2> QED
    BY <2>1 DEF FileInv, UnderWay
<1>6. CASE Autosnapshot
  BY <1>6 DEF Autosnapshot, Pushes, UnderWay, web, roomObject
<1>7. CASE IdleFires
  BY <1>7 DEF IdleFires, Pushes, UnderWay, web, roomObject
<1>8. CASE Shutdown
  BY <1>8 DEF Shutdown, Pushes, Close, UnderWay, web, roomObject
<1>9. CASE MeetingEnds
  <2>1. UNCHANGED <<deletes, pending, captured, faults, push, room, fetching, final, why>>
    BY <1>9 DEF MeetingEnds, web, roomObject
  <2> QED
    BY <2>1 DEF FileInv, UnderWay
<1>10. CASE NoticeLost
  <2>1. UNCHANGED <<deletes, pending, captured, faults, push, room, fetching, final, why>>
    BY <1>10 DEF NoticeLost, web, roomObject
  <2> QED
    BY <2>1 DEF FileInv, UnderWay
<1>11. CASE EndBegins
  BY <1>11 DEF EndBegins, UnderWay, web, roomObject
<1>12. CASE EndCaptures
  <2>1. /\ final' # "digest" /\ captured' # NoBoard /\ push'["flush"] = push["flush"]
        /\ UNCHANGED <<deletes, faults, room, fetching, why>>
    <3>1. db # NoBoard
      BY <1>12 DEF EndCaptures, BoardInv, RoomInv, EndInv
    <3> QED
      BY <1>12, <3>1 DEF EndCaptures, BoardInv, SnTypeOK, Pushers, roomObject
  <2> QED
    BY <2>1 DEF BoardInv, FileInv, UnderWay
<1>13. CASE EndFinishes
  BY <1>13 DEF EndFinishes, Close, web, roomObject
<1>14. CASE FlushStarts
  BY <1>14 DEF FlushStarts, UnderWay, web, roomObject
<1>15. CASE Prune
  BY <1>15 DEF Prune, web, roomObject
<1>16. CASE Crash
  BY <1>16 DEF Crash, Close, web, roomObject
<1>17. ASSUME NEW ok \in BOOLEAN, RoomAnswered(ok) PROVE FileInv'
  BY <1>17 DEF RoomAnswered, Answer, UnderWay, InOrder, ClearPending, Persist, Close, web, roomObject
<1>18. ASSUME NEW ok \in BOOLEAN, FinalAnswered(ok) PROVE FileInv'
  BY <1>18 DEF FinalAnswered, Answer, UnderWay, InOrder, web, roomObject
<1>19. ASSUME NEW ok \in BOOLEAN, FlushAnswered(ok) PROVE FileInv'
  BY <1>19 DEF FlushAnswered, Answer, UnderWay, InOrder, web, roomObject
<1>20. CASE UNCHANGED snVars
  BY <1>20 DEF snVars, web, roomObject, UnderWay
<1> QED
  BY <1>1, <1>2, <1>3, <1>4, <1>5, <1>6, <1>7, <1>8, <1>9, <1>10,
     <1>11, <1>12, <1>13, <1>14, <1>15, <1>16, <1>17, <1>18, <1>19, <1>20 DEF SnNext

\* What was captured stays in the pending file until it is archived, whoever answers when.
LEMMA BoardKept ==
    ASSUME BoardInv, KeptInv, [SnNext]_snVars
    PROVE  KeptInv'
<1> USE SnapshotAssumption DEF BoardInv, SnTypeOK, RoomInv, EndInv, FileInv, KeptInv, Archived,
                               Has, Orderly, NoFile, Boards, Pushers, OneWriter
<1>1. CASE Connects
  BY <1>1 DEF Connects, Enter, Undisturbed, MayEnter, UnderWay, web, roomObject
<1>2. CASE Prepares
  BY <1>2 DEF Prepares, MayEnter, UnderWay, web, roomObject
<1>3. CASE Prepared
  <2> SUFFICES ASSUME Orderly, captured # NoBoard PROVE KeptInv'
    BY <1>3 DEF Prepared, KeptInv, Orderly
  <2>1. UNCHANGED <<faults, captured, archive, pending, push, why, final>>
    BY <1>3 DEF Prepared
  <2>2. over /\ ~FetchMayFail
    BY DEF FetchMayFail, Orderly, EndInv
  <2>3. db = NoBoard => Archived
    BY DEF RoomInv, KeptInv, Has, Orderly, OneWriter, NoFile
  <2>4. db' = db \/ (db = NoBoard /\ db' = archive)
    BY <1>3, <2>2, <2>3 DEF Prepared, Enter, Archived, Has
  <2>5. db' = NoBoard \/ captured \subseteq db'
    BY <2>3, <2>4 DEF KeptInv, Archived, Has
  <2> QED
    BY <2>1, <2>5 DEF KeptInv, Archived, UnderWay
<1>4. CASE Draws
  <2>1. UNCHANGED <<faults, captured, archive, pending, push, why, final>>
    BY <1>4 DEF Draws
  <2>2. db # NoBoard /\ db \subseteq db'
    BY <1>4 DEF Draws, RoomInv
  <2> QED
    BY <2>1, <2>2 DEF KeptInv, Orderly, Archived, UnderWay
<1>5. CASE Leaves
  <2>1. UNCHANGED <<faults, captured, db, pending, push, why, archive, final>>
    BY <1>5 DEF Leaves
  <2> QED
    BY <2>1 DEF KeptInv, Orderly, Archived, UnderWay
<1>6. CASE Autosnapshot
  BY <1>6 DEF Autosnapshot, Pushes, UnderWay, web, roomObject
<1>7. CASE IdleFires
  BY <1>7 DEF IdleFires, Pushes, UnderWay, web, roomObject
<1>8. CASE Shutdown
  BY <1>8 DEF Shutdown, Pushes, Close, UnderWay, web, roomObject
<1>9. CASE MeetingEnds
  BY <1>9 DEF MeetingEnds, web, roomObject
<1>10. CASE NoticeLost
  BY <1>10 DEF NoticeLost, web, roomObject
<1>11. CASE EndBegins
  BY <1>11 DEF EndBegins, UnderWay, web, roomObject
<1>12. CASE EndCaptures
  <2> SUFFICES ASSUME Orderly PROVE KeptInv'
    BY <1>12 DEF EndCaptures, KeptInv, Orderly
  <2>1. push["flush"] = NoBoard /\ ~(UnderWay("room") /\ why \in {"idle", "shutdown"})
    BY <1>12 DEF EndCaptures, EndInv, FileInv, OneWriter, Orderly, UnderWay
  <2>2. /\ push' \in [Pushers -> {NoBoard} \cup Boards] /\ push'["final"] = db
        /\ push'["flush"] = push["flush"] /\ push'["room"] = push["room"]
    BY <1>12 DEF EndCaptures, SnTypeOK, Pushers
  <2> QED
    BY <1>12, <2>1, <2>2 DEF EndCaptures, Persist, KeptInv, Has, UnderWay
<1>13. CASE EndFinishes
  <2> SUFFICES ASSUME Orderly PROVE KeptInv'
    BY <1>13 DEF EndFinishes, KeptInv, Orderly
  <2>1. /\ UNCHANGED <<faults, captured, archive, push>> /\ why' = "orphan" /\ final' = "none"
        /\ UNCHANGED <<db, pending>> \/ (final = "archived" /\ db' = NoBoard /\ pending' = NoFile)
    BY <1>13 DEF EndFinishes, Close, RoomInv, OneWriter, Orderly
  <2> QED
    BY <2>1 DEF KeptInv, Orderly, Archived, UnderWay, NoFile
<1>14. CASE FlushStarts
  BY <1>14 DEF FlushStarts, UnderWay, web, roomObject
<1>15. CASE Prune
  <2>1. UNCHANGED <<faults, captured, archive, push, why, final, pending>> /\ db' = NoBoard
    BY <1>15 DEF Prune, roomObject
  <2> QED
    BY <2>1 DEF KeptInv, Orderly, Archived, UnderWay
<1>16. CASE Crash
  <2> SUFFICES ASSUME Orderly PROVE KeptInv'
    BY <1>16 DEF Crash, KeptInv, Orderly
  <2>1. /\ UNCHANGED <<faults, captured, db, pending>> /\ why' = "orphan" /\ final' = "none"
        /\ \A p \in Pushers : push'[p] = NoBoard
        /\ archive' = archive \/ \E p \in Pushers : UnderWay(p) /\ archive' = push[p]
    BY <1>16 DEF Crash, Close, RoomInv, OneWriter, Orderly
  <2>2. captured # NoBoard /\ Archived => Archived'
    BY <2>1 DEF Archived, Has, UnderWay
  <2> QED
    BY <2>1, <2>2 DEF KeptInv, Orderly, UnderWay, Pushers
<1>17. ASSUME NEW ok \in BOOLEAN, RoomAnswered(ok) PROVE KeptInv'
  BY <1>17 DEF RoomAnswered, Answer, UnderWay, InOrder, ClearPending, Persist, Close, web, roomObject
<1>18. ASSUME NEW ok \in BOOLEAN, FinalAnswered(ok) PROVE KeptInv'
  BY <1>18 DEF FinalAnswered, Answer, UnderWay, InOrder, web, roomObject
<1>19. ASSUME NEW ok \in BOOLEAN, FlushAnswered(ok) PROVE KeptInv'
  BY <1>19 DEF FlushAnswered, Answer, UnderWay, InOrder, web, roomObject
<1>20. CASE UNCHANGED snVars
  BY <1>20 DEF snVars, web, roomObject, UnderWay, KeptInv, Orderly, Archived
<1> QED
  BY <1>1, <1>2, <1>3, <1>4, <1>5, <1>6, <1>7, <1>8, <1>9, <1>10,
     <1>11, <1>12, <1>13, <1>14, <1>15, <1>16, <1>17, <1>18, <1>19, <1>20 DEF SnNext

\* What is read is written elsewhere, and a new stroke comes after all others.
LEMMA BoardWritten ==
    ASSUME BoardInv, WrittenInv, [SnNext]_snVars
    PROVE  WrittenInv'
<1> USE SnapshotAssumption DEF BoardInv, SnTypeOK, RoomInv, EndInv, FileInv, NoFile, Boards, Pushers, OneWriter, Orderly,
                               WrittenInv
<1>1. CASE Connects
  BY <1>1 DEF Connects, Enter, Undisturbed, MayEnter, UnderWay, web, roomObject
<1>2. CASE Prepares
  BY <1>2 DEF Prepares, MayEnter, UnderWay, web, roomObject
<1>3. CASE Prepared
  <2>1. /\ UNCHANGED <<drawn, push, archive, pending>>
        /\ \E initial \in {IF archive = NoBoard THEN {} ELSE archive, {}} :
               db' = IF db = NoBoard THEN initial ELSE db
    BY <1>3 DEF Prepared, Enter, Undisturbed, FetchMayFail
  <2>2. db' # NoBoard => db' \subseteq 1..drawn
    BY <2>1
  <2> QED
    BY <2>1, <2>2 DEF UnderWay
<1>4. CASE Draws
  BY <1>4 DEF Draws, UnderWay, web, roomObject
<1>5. CASE Leaves
  BY <1>5 DEF Leaves, UnderWay, web, roomObject
<1>6. CASE Autosnapshot
  BY <1>6 DEF Autosnapshot, Pushes, UnderWay, web, roomObject
<1>7. CASE IdleFires
  BY <1>7 DEF IdleFires, Pushes, UnderWay, web, roomObject
<1>8. CASE Shutdown
  BY <1>8 DEF Shutdown, Pushes, Close, UnderWay, web, roomObject
<1>9. CASE MeetingEnds
  BY <1>9 DEF MeetingEnds, UnderWay, web, roomObject
<1>10. CASE NoticeLost
  BY <1>10 DEF NoticeLost, UnderWay, web, roomObject
<1>11. CASE EndBegins
  BY <1>11 DEF EndBegins, UnderWay, web, roomObject
<1>12. CASE EndCaptures
  BY <1>12 DEF EndCaptures, Persist, UnderWay, web, roomObject
<1>13. CASE EndFinishes
  BY <1>13 DEF EndFinishes, Close, UnderWay, web, roomObject
<1>14. CASE FlushStarts
  BY <1>14 DEF FlushStarts, UnderWay, web, roomObject
<1>15. CASE Prune
  BY <1>15 DEF Prune, UnderWay, web, roomObject
<1>16. CASE Crash
  BY <1>16 DEF Crash, Close, UnderWay, web, roomObject
<1>17. ASSUME NEW ok \in BOOLEAN, RoomAnswered(ok) PROVE WrittenInv'
  BY <1>17 DEF RoomAnswered, Answer, UnderWay, InOrder, ClearPending, Persist, Close, web, roomObject
<1>18. ASSUME NEW ok \in BOOLEAN, FinalAnswered(ok) PROVE WrittenInv'
  BY <1>18 DEF FinalAnswered, Answer, UnderWay, InOrder, ClearPending, Persist, Close, web, roomObject
<1>19. ASSUME NEW ok \in BOOLEAN, FlushAnswered(ok) PROVE WrittenInv'
  BY <1>19 DEF FlushAnswered, Answer, UnderWay, InOrder, ClearPending, Persist, Close, web, roomObject
<1>20. CASE UNCHANGED snVars
  BY <1>20 DEF snVars, web, roomObject, UnderWay
<1> QED
  BY <1>1, <1>2, <1>3, <1>4, <1>5, <1>6, <1>7, <1>8, <1>9, <1>10,
     <1>11, <1>12, <1>13, <1>14, <1>15, <1>16, <1>17, <1>18, <1>19, <1>20 DEF SnNext

\* A room pushes what its database has, and what is drawn later is new.
LEMMA BoardFresh ==
    ASSUME BoardInv, WrittenInv, FreshInv, [SnNext]_snVars
    PROVE  FreshInv'
<1> USE SnapshotAssumption DEF BoardInv, SnTypeOK, RoomInv, EndInv, FileInv, NoFile, Boards, Pushers, OneWriter, Orderly,
                               WrittenInv, FreshInv
<1>1. CASE Connects
  BY <1>1 DEF Connects, Enter, Undisturbed, MayEnter, UnderWay, web, roomObject
<1>2. CASE Prepares
  BY <1>2 DEF Prepares, MayEnter, UnderWay, web, roomObject
<1>3. CASE Prepared
  <2>1. UNCHANGED <<faults, captured, push, archive, pending>> /\ (db # NoBoard => db' = db)
    BY <1>3 DEF Prepared, Enter
  <2> QED
    BY <2>1 DEF UnderWay
<1>4. CASE Draws
  BY <1>4 DEF Draws, UnderWay, web, roomObject
<1>5. CASE Leaves
  BY <1>5 DEF Leaves, UnderWay, web, roomObject
<1>6. CASE Autosnapshot
  BY <1>6 DEF Autosnapshot, Pushes, UnderWay, web, roomObject
<1>7. CASE IdleFires
  BY <1>7 DEF IdleFires, Pushes, UnderWay, web, roomObject
<1>8. CASE Shutdown
  BY <1>8 DEF Shutdown, Pushes, Close, UnderWay, web, roomObject
<1>9. CASE MeetingEnds
  BY <1>9 DEF MeetingEnds, UnderWay, web, roomObject
<1>10. CASE NoticeLost
  BY <1>10 DEF NoticeLost, UnderWay, web, roomObject
<1>11. CASE EndBegins
  BY <1>11 DEF EndBegins, UnderWay, web, roomObject
<1>12. CASE EndCaptures
  BY <1>12 DEF EndCaptures, Persist, UnderWay, web, roomObject
<1>13. CASE EndFinishes
  BY <1>13 DEF EndFinishes, Close, UnderWay, web, roomObject
<1>14. CASE FlushStarts
  BY <1>14 DEF FlushStarts, UnderWay, web, roomObject
<1>15. CASE Prune
  BY <1>15 DEF Prune, UnderWay, web, roomObject
<1>16. CASE Crash
  BY <1>16 DEF Crash, Close, UnderWay, web, roomObject
<1>17. ASSUME NEW ok \in BOOLEAN, RoomAnswered(ok) PROVE FreshInv'
  BY <1>17 DEF RoomAnswered, Answer, UnderWay, InOrder, ClearPending, Persist, Close, web, roomObject
<1>18. ASSUME NEW ok \in BOOLEAN, FinalAnswered(ok) PROVE FreshInv'
  BY <1>18 DEF FinalAnswered, Answer, UnderWay, InOrder, ClearPending, Persist, Close, web, roomObject
<1>19. ASSUME NEW ok \in BOOLEAN, FlushAnswered(ok) PROVE FreshInv'
  BY <1>19 DEF FlushAnswered, Answer, UnderWay, InOrder, ClearPending, Persist, Close, web, roomObject
<1>20. CASE UNCHANGED snVars
  BY <1>20 DEF snVars, web, roomObject, UnderWay
<1> QED
  BY <1>1, <1>2, <1>3, <1>4, <1>5, <1>6, <1>7, <1>8, <1>9, <1>10,
     <1>11, <1>12, <1>13, <1>14, <1>15, <1>16, <1>17, <1>18, <1>19, <1>20 DEF SnNext

\* Whatever was under way at the capture lacks nothing that the archive had.
LEMMA BoardHeld ==
    ASSUME BoardInv, KeptInv, FreshInv, HeldInv, [SnNext]_snVars
    PROVE  HeldInv'
<1> USE SnapshotAssumption DEF BoardInv, SnTypeOK, RoomInv, EndInv, FileInv, NoFile, Boards, Pushers, OneWriter, Orderly,
                               KeptInv, FreshInv, HeldInv, Archived, Has
<1>1. CASE Connects
  BY <1>1 DEF Connects, Enter, Undisturbed, MayEnter, UnderWay, web, roomObject
<1>2. CASE Prepares
  BY <1>2 DEF Prepares, MayEnter, UnderWay, web, roomObject
<1>3. CASE Prepared
  <2>1. UNCHANGED <<faults, captured, archive, push>>
    BY <1>3 DEF Prepared
  <2> QED
    BY <2>1 DEF UnderWay
<1>4. CASE Draws
  BY <1>4 DEF Draws, UnderWay, web, roomObject
<1>5. CASE Leaves
  BY <1>5 DEF Leaves, UnderWay, web, roomObject
<1>6. CASE Autosnapshot
  BY <1>6 DEF Autosnapshot, Pushes, UnderWay, web, roomObject
<1>7. CASE IdleFires
  BY <1>7 DEF IdleFires, Pushes, UnderWay, web, roomObject
<1>8. CASE Shutdown
  BY <1>8 DEF Shutdown, Pushes, Close, UnderWay, web, roomObject
<1>9. CASE MeetingEnds
  BY <1>9 DEF MeetingEnds, UnderWay, web, roomObject
<1>10. CASE NoticeLost
  BY <1>10 DEF NoticeLost, UnderWay, web, roomObject
<1>11. CASE EndBegins
  BY <1>11 DEF EndBegins, UnderWay, web, roomObject
<1>12. CASE EndCaptures
  BY <1>12 DEF EndCaptures, Persist, UnderWay, web, roomObject
<1>13. CASE EndFinishes
  BY <1>13 DEF EndFinishes, Close, UnderWay, web, roomObject
<1>14. CASE FlushStarts
  BY <1>14 DEF FlushStarts, UnderWay, web, roomObject
<1>15. CASE Prune
  BY <1>15 DEF Prune, UnderWay, web, roomObject
<1>16. CASE Crash
  BY <1>16 DEF Crash, Close, UnderWay, web, roomObject
<1>17. ASSUME NEW ok \in BOOLEAN, RoomAnswered(ok) PROVE HeldInv'
  BY <1>17 DEF RoomAnswered, Answer, UnderWay, InOrder, ClearPending, Persist, Close, web, roomObject
<1>18. ASSUME NEW ok \in BOOLEAN, FinalAnswered(ok) PROVE HeldInv'
  BY <1>18 DEF FinalAnswered, Answer, UnderWay, InOrder, ClearPending, Persist, Close, web, roomObject
<1>19. ASSUME NEW ok \in BOOLEAN, FlushAnswered(ok) PROVE HeldInv'
  BY <1>19 DEF FlushAnswered, Answer, UnderWay, InOrder, ClearPending, Persist, Close, web, roomObject
<1>20. CASE UNCHANGED snVars
  BY <1>20 DEF snVars, web, roomObject, UnderWay
<1> QED
  BY <1>1, <1>2, <1>3, <1>4, <1>5, <1>6, <1>7, <1>8, <1>9, <1>10,
     <1>11, <1>12, <1>13, <1>14, <1>15, <1>16, <1>17, <1>18, <1>19, <1>20 DEF SnNext

\* Everything that was drawn, and a behaviour in which at most the call of /session-end fails.
Drawn == 1..drawn
Calm == faults \subseteq {"notice_lost"}
\* The file has all strokes; a room that is gone left them all in the archive, or will.
ResumeInv ==
    /\ db # NoBoard => db = Drawn
    /\ \A p \in Pushers : UnderWay(p) => push[p] \subseteq Drawn
    /\ room = "none" => /\ archive = Drawn \/ (archive = NoBoard /\ drawn = 0 /\ db = NoBoard)
                        /\ \A p \in Pushers : UnderWay(p) => push[p] = Drawn
    /\ UnderWay("room") /\ why = "idle" => ~connected /\ push["room"] = db
    /\ idle => ~connected
    /\ final = "archived" => archive = Drawn /\ \A p \in Pushers : UnderWay(p) => push[p] = Drawn
    /\ UnderWay("final") => push["final"] = Drawn /\ captured # NoBoard
                            /\ final = "pushing"
    /\ final # "none" => ~UnderWay("room") \/ why # "idle"
    /\ pending # NoFile => final \in {"pushing", "archived"} /\ pending.board = db
    /\ push["flush"] = NoBoard /\ why # "shutdown" /\ final # "failed"

\* Without faults every file and every push has all that was drawn.
LEMMA BoardShown ==
    ASSUME BoardInv, ResumeInv, Calm, [SnNext]_snVars
    PROVE  ResumeInv'
<1> USE SnapshotAssumption DEF BoardInv, SnTypeOK, RoomInv, EndInv, ResumeInv, Drawn, Calm,
                               NoFile, Boards, Pushers
<1>1. CASE Connects
  BY <1>1 DEF Connects, Enter, Undisturbed, MayEnter, UnderWay, web, roomObject
<1>2. CASE Prepares
  BY <1>2 DEF Prepares, MayEnter, UnderWay, web, roomObject
<1>3. CASE Prepared
  <2>1. UNCHANGED <<faults, drawn, push, archive, why, final, captured, pending>>
    BY <1>3 DEF Prepared
  <2>2. CASE room = "ending"
    <3>1. UNCHANGED <<room, connected, idle, db>>
      BY <1>3, <2>2 DEF Prepared, roomObject
    <3> QED
      BY <2>1, <3>1 DEF ResumeInv, Drawn, UnderWay
  <2>3. CASE room # "ending"
    <3>1. PICK initial \in {IF archive = NoBoard THEN {} ELSE archive} : Enter(initial)
      BY <1>3, <2>3 DEF Prepared, FetchMayFail
    <3>2. room' = "open" /\ ~idle' /\ ~(UnderWay("room") /\ why = "idle") /\ final = "none"
      BY <2>3, <3>1 DEF Enter, Undisturbed
    <3>3. db = NoBoard => initial = Drawn
      <4>1. Drawn \in SUBSET (1..Strokes) /\ (drawn = 0 => Drawn = {})
        OBVIOUS
      <4>2. db = NoBoard => archive = Drawn \/ (archive = NoBoard /\ drawn = 0)
        BY <2>3
      <4> HIDE DEF Drawn
      <4> QED
        BY <3>1, <4>1, <4>2
    <3>4. db' = Drawn /\ pending = NoFile
      BY <3>1, <3>2, <3>3 DEF Enter
    <3> QED
      BY <2>1, <3>2, <3>4 DEF ResumeInv, Drawn, UnderWay
  <2> QED
    BY <2>2, <2>3
<1>4. CASE Draws
  <2>1. /\ UNCHANGED <<push, archive, room, why, connected, idle, final, captured, pending>>
        /\ room = "open" /\ connected /\ drawn' = drawn + 1 /\ db' = db \cup {drawn + 1}
    BY <1>4 DEF Draws, roomObject
  <2>2. db = Drawn /\ Drawn \subseteq Drawn' /\ db' = Drawn'
    BY <2>1
  <2>3. ~UnderWay("final") /\ final = "none" /\ pending = NoFile /\ ~idle
    BY <2>1
  <2> HIDE DEF Drawn
  <2> QED
    BY <2>1, <2>2, <2>3 DEF ResumeInv, UnderWay
<1>5. CASE Leaves
  <2>1. UNCHANGED <<db, drawn, push, archive, room, why, final, captured, pending>> /\ ~connected'
    BY <1>5 DEF Leaves
  <2> QED
    BY <2>1 DEF ResumeInv, Drawn, UnderWay
<1>6. CASE Autosnapshot
  BY <1>6 DEF Autosnapshot, Pushes, UnderWay, web, roomObject
<1>7. CASE IdleFires
  BY <1>7 DEF IdleFires, Pushes, UnderWay, web, roomObject
<1>8. CASE Shutdown
  BY <1>8 DEF Shutdown, Pushes, Close, UnderWay, web, roomObject
<1>9. CASE MeetingEnds
  <2>1. UNCHANGED <<db, drawn, push, archive, room, why, connected, idle, final, captured, pending>>
    BY <1>9 DEF MeetingEnds, roomObject
  <2> QED
    BY <2>1 DEF ResumeInv, Drawn, UnderWay
<1>10. CASE NoticeLost
  <2>1. UNCHANGED <<db, drawn, push, archive, room, why, connected, idle, final, captured, pending>>
    BY <1>10 DEF NoticeLost, roomObject
  <2> QED
    BY <2>1 DEF ResumeInv, Drawn, UnderWay
<1>11. CASE EndBegins
  BY <1>11 DEF EndBegins, UnderWay, web, roomObject
<1>12. CASE EndCaptures
  <2>1. /\ Drawn' = Drawn /\ UNCHANGED <<db, drawn, archive, room, why, connected, idle>>
        /\ final' = "pushing" /\ captured' = db /\ pending'.board = db
        /\ room = "ending" /\ db # NoBoard
    BY <1>12 DEF EndCaptures, Persist, roomObject
  <2>2. /\ push'["final"] = db /\ push'["flush"] = push["flush"] /\ push'["room"] = push["room"]
    BY <1>12 DEF EndCaptures
  <2> HIDE DEF Drawn
  <2> QED
    BY <2>1, <2>2 DEF ResumeInv, UnderWay
<1>13. CASE EndFinishes
  <2>1. /\ Drawn' = Drawn /\ UNCHANGED <<drawn, push, archive, captured>> /\ final = "archived"
        /\ room' = "none" /\ ~connected' /\ ~idle' /\ why' = "orphan" /\ final' = "none"
        /\ db' = NoBoard /\ pending' = NoFile
    BY <1>13 DEF EndFinishes, Close
  <2> HIDE DEF Drawn
  <2> QED
    BY <2>1 DEF ResumeInv, UnderWay
<1>14. CASE FlushStarts
  BY <1>14 DEF FlushStarts, UnderWay, web, roomObject
<1>15. CASE Prune
  <2>1. /\ Drawn' = Drawn /\ UNCHANGED <<drawn, push, archive, room, why, connected, idle, final,
                        captured, pending>>
        /\ room = "none" /\ db # NoBoard /\ pending = NoFile /\ db' = NoBoard
        /\ \A p \in Pushers : ~UnderWay(p)
    BY <1>15 DEF Prune, roomObject
  <2> HIDE DEF Drawn
  <2> QED
    BY <2>1 DEF ResumeInv, UnderWay
<1>16. CASE Crash
  BY <1>16 DEF Crash, Close, web, roomObject
<1>17. ASSUME NEW ok \in BOOLEAN, RoomAnswered(ok) PROVE ResumeInv'
  BY <1>17 DEF RoomAnswered, Answer, UnderWay, InOrder, ClearPending, Persist, Close, web, roomObject
<1>18. ASSUME NEW ok \in BOOLEAN, FinalAnswered(ok) PROVE ResumeInv'
  BY <1>18 DEF FinalAnswered, Answer, UnderWay, InOrder, web, roomObject
<1>19. ASSUME NEW ok \in BOOLEAN, FlushAnswered(ok) PROVE ResumeInv'
  BY <1>19 DEF FlushAnswered, Answer, UnderWay, InOrder, web, roomObject
<1>20. CASE UNCHANGED snVars
  <2>1. UNCHANGED <<db, drawn, push, archive, room, why, connected, idle, final, captured, pending>>
    BY <1>20 DEF snVars, roomObject
  <2> QED
    BY <2>1 DEF ResumeInv, Drawn, UnderWay
<1> QED
  BY <1>1, <1>2, <1>3, <1>4, <1>5, <1>6, <1>7, <1>8, <1>9, <1>10,
     <1>11, <1>12, <1>13, <1>14, <1>15, <1>16, <1>17, <1>18, <1>19, <1>20 DEF SnNext

ArchiveInv == BoardInv /\ KeptInv /\ WrittenInv /\ FreshInv /\ HeldInv /\ (Calm => ResumeInv)

\* Nothing is drawn, and nothing is archived.
LEMMA BoardStarts == SnInit => ArchiveInv
<1> SUFFICES ASSUME SnInit PROVE ArchiveInv
  OBVIOUS
<1> USE SnapshotAssumption DEF SnInit, SnTypeOK, Boards, Pushers, NoFile
<1>1. SnTypeOK
  <2>1. /\ over \in BOOLEAN /\ connected \in BOOLEAN /\ idle \in BOOLEAN
        /\ unlinked \in BOOLEAN /\ deletes \in BOOLEAN
    BY Zenon
  <2>2. NoFile.board = NoBoard /\ NoFile.delete = FALSE
    OBVIOUS
  <2>3. pending.board = NoBoard /\ pending.delete \in BOOLEAN
    BY <2>2, Zenon
  <2>4. 0 \in 0..MaxVisits /\ 0 \in 0..MaxFetching /\ 0 \in 0..Strokes
    OBVIOUS
  <2> QED
    BY <2>1, <2>3, <2>4
<1>2. RoomInv /\ EndInv /\ FileInv /\ KeptInv /\ WrittenInv /\ FreshInv /\ HeldInv
  BY DEF RoomInv, EndInv, FileInv, KeptInv, WrittenInv, FreshInv, HeldInv, UnderWay
<1>3. ResumeInv
  BY DEF ResumeInv, UnderWay, Drawn
<1> QED
  BY <1>1, <1>2, <1>3 DEF ArchiveInv, BoardInv

\* The four parts together.
LEMMA BoardStep == ArchiveInv /\ [SnNext]_snVars => ArchiveInv'
<1> SUFFICES ASSUME ArchiveInv, [SnNext]_snVars PROVE ArchiveInv'
  OBVIOUS
<1>1. BoardInv'
  BY BoardTypes, BoardRooms, BoardEnds, BoardFiles DEF ArchiveInv, BoardInv
<1>2. KeptInv' /\ WrittenInv' /\ FreshInv' /\ HeldInv'
  BY BoardKept, BoardWritten, BoardFresh, BoardHeld DEF ArchiveInv
<1>3. Calm' => ResumeInv'
  <2>1. faults' = faults
    BY DEF SnNext, snVars, Connects, Prepares, Prepared, Draws, Leaves, Autosnapshot, IdleFires,
           Shutdown, MeetingEnds, NoticeLost, EndBegins, EndCaptures, EndFinishes, FlushStarts,
           Prune, Crash, RoomAnswered, FinalAnswered, FlushAnswered
  <2> QED
    BY <2>1, BoardShown DEF ArchiveInv, Calm
<1> QED
  BY <1>1, <1>2, <1>3 DEF ArchiveInv

\* The invariant of every behaviour.
LEMMA BoardInvariance == SnSpec => []ArchiveInv
BY BoardStarts, BoardStep, PTL DEF SnSpec

\* The final drawing of a meeting is never nowhere: endSession's capture is archived or in
\* the pending file, through failed pushes, lost answers, idle clean-up, shutdown and crashes.
THEOREM CapturedIsSafe == SnSpec => []CapturedSurvives
<1>1. ArchiveInv => CapturedSurvives
  BY DEF ArchiveInv, KeptInv, Orderly, Archived, Has, CapturedSurvives
<1> QED
  BY <1>1, BoardInvariance, PTL

\* What any step may do to the files: the archive takes what is under way to it, a drawing is
\* captured once, and a database that is gone comes back from the archive only.
LEMMA CustodyStep ==
    ASSUME ArchiveInv, [SnNext]_snVars
    PROVE  /\ faults' = faults
           /\ archive' = archive \/ \E p \in Pushers : UnderWay(p) /\ archive' = push[p]
           /\ \/ captured' = captured
              \/ /\ captured = NoBoard /\ captured' \in Boards
                 /\ Orderly => db' = captured' /\ pending'.board = captured'
           /\ Orderly /\ captured # NoBoard /\ db = NoBoard => db' \in {NoBoard, archive}
<1> USE SnapshotAssumption DEF ArchiveInv, BoardInv, SnTypeOK, RoomInv, EndInv, NoFile, Pushers,
                               UnderWay, web, roomObject
<1>1. CASE Connects \/ Prepares \/ Prepared
  <2>1. CASE Connects \/ Prepares
    BY <2>1 DEF Connects, Enter, MayEnter, Prepares
  <2>2. CASE Prepared
    <3>1. UNCHANGED <<faults, archive, captured>>
      BY <2>2 DEF Prepared
    <3>2. ASSUME Orderly, captured # NoBoard, db = NoBoard PROVE db' \in {NoBoard, archive}
      <4>1. over /\ ~FetchMayFail
        BY <3>2 DEF FetchMayFail, Orderly
      <4>2. archive # NoBoard
        BY <3>2 DEF KeptInv, Archived, Has, OneWriter, Orderly
      <4> QED
        BY <2>2, <3>2, <4>1, <4>2 DEF Prepared, Enter
    <3> QED
      BY <3>1, <3>2
  <2> QED
    BY <1>1, <2>1, <2>2
<1>2. CASE Draws \/ Leaves
  BY <1>2 DEF Draws, Leaves
<1>3. CASE Autosnapshot \/ IdleFires \/ Shutdown
  BY <1>3 DEF Autosnapshot, Pushes, IdleFires, Shutdown, Close
<1>4. CASE MeetingEnds \/ NoticeLost \/ EndBegins
  BY <1>4 DEF MeetingEnds, NoticeLost, EndBegins
<1>5. CASE EndCaptures
  BY <1>5 DEF EndCaptures, Persist, Orderly
<1>6. CASE EndFinishes \/ FlushStarts \/ Prune
  BY <1>6 DEF EndFinishes, Close, FlushStarts, Prune
<1>7. CASE Crash
  BY <1>7 DEF Crash, Close
<1>8. ASSUME NEW ok \in BOOLEAN, RoomAnswered(ok) PROVE
         /\ UNCHANGED <<faults, captured>> /\ (db = NoBoard => db' = NoBoard)
         /\ archive' = archive \/ \E p \in Pushers : UnderWay(p) /\ archive' = push[p]
  BY <1>8 DEF RoomAnswered, Answer, ClearPending, Close
<1>9. ASSUME NEW ok \in BOOLEAN, FinalAnswered(ok) PROVE
         /\ UNCHANGED <<faults, captured>> /\ (db = NoBoard => db' = NoBoard)
         /\ archive' = archive \/ \E p \in Pushers : UnderWay(p) /\ archive' = push[p]
  BY <1>9 DEF FinalAnswered, Answer
<1>10. ASSUME NEW ok \in BOOLEAN, FlushAnswered(ok) PROVE
         /\ UNCHANGED <<faults, captured>> /\ (db = NoBoard => db' = NoBoard)
         /\ archive' = archive \/ \E p \in Pushers : UnderWay(p) /\ archive' = push[p]
  BY <1>10 DEF FlushAnswered, Answer
<1>11. CASE UNCHANGED snVars
  BY <1>11 DEF snVars
<1> QED
  BY <1>1, <1>2, <1>3, <1>4, <1>5, <1>6, <1>7, <1>8, <1>9, <1>10, <1>11 DEF SnNext

\* The files of the sync server and the archive keep the captured drawing as SnapshotCustody
\* promises, for any number of strokes: endSession's capture is the capture, and every other
\* step moves copies or none.
THEOREM ImplementsCustody == SnSpec => CustodySpec
<1> USE DEF Custody!Init, Custody!Next, Custody!vars, Custody!Capture, Custody!Move,
            Custody!Local, Custody!Places
<1> DEFINE board == IF Orderly THEN captured ELSE NoBoard
<1>1. SnInit => Custody!Init
  BY DEF SnInit, Copies, Has
<1>2. /\ "archive" \in Copies <=> Orderly /\ Has(archive, captured)
      /\ "file" \in Copies <=> Orderly /\ Has(pending.board, captured)
      /\ "database" \in Copies <=> Orderly /\ Has(db, captured)
      /\ Copies \subseteq {"database", "file", "archive"}
  BY DEF Copies
<1>3. ArchiveInv /\ ArchiveInv' /\ [SnNext]_snVars => [Custody!Next]_(Custody!vars)
  <2> SUFFICES ASSUME ArchiveInv, ArchiveInv', [SnNext]_snVars
               PROVE  [Custody!Next]_<<board, Copies>>
    OBVIOUS
  <2>1. /\ faults' = faults /\ (Orderly' <=> Orderly)
        /\ archive' = archive \/ \E p \in Pushers : UnderWay(p) /\ archive' = push[p]
        /\ Orderly /\ captured # NoBoard /\ db = NoBoard => db' \in {NoBoard, archive}
    BY CustodyStep DEF Orderly
  <2>2. /\ "archive" \in Copies' <=> Orderly /\ Has(archive', captured')
        /\ "file" \in Copies' <=> Orderly /\ Has(pending'.board, captured')
        /\ "database" \in Copies' <=> Orderly /\ Has(db', captured')
        /\ Copies' \subseteq {"database", "file", "archive"}
    BY <2>1 DEF Copies, Has
  <2>3. CASE ~Orderly \/ captured' = NoBoard
    <3>1. board' = NoBoard /\ Copies' = {} /\ (~Orderly \/ captured = NoBoard)
      BY <2>1, <2>2, <2>3, CustodyStep, SnapshotAssumption DEF Has, Boards
    <3>2. board = NoBoard /\ Copies = {}
      BY <1>2, <3>1 DEF Has
    <3> QED
      BY <3>1, <3>2
  <2>4. CASE Orderly /\ captured = NoBoard /\ captured' # NoBoard
    <3>1. captured' \in Boards /\ db' = captured' /\ pending'.board = captured'
      BY <2>4, CustodyStep
    <3>2. {"database", "file"} \subseteq Copies'
      BY <2>2, <2>4, <3>1 DEF Has
    <3>3. Copies' \in {Custody!Local, Custody!Places}
      BY <2>2, <3>2
    <3>4. Custody!Capture(captured')
      BY <2>1, <2>4, <3>3
    <3> QED
      BY <3>1, <3>4
  <2>5. CASE Orderly /\ captured # NoBoard /\ captured' # NoBoard
    <3>1. captured' = captured
      BY <2>5, CustodyStep
    <3>2. "archive" \in Copies => "archive" \in Copies'
      BY <1>2, <2>1, <2>2, <2>5, <3>1 DEF ArchiveInv, HeldInv, Archived, Has, UnderWay
    <3>3. "database" \in Copies' => Copies \cap {"database", "archive"} # {}
      <4>1. db # NoBoard => "database" \in Copies
        BY <1>2, <2>5 DEF ArchiveInv, KeptInv, Has
      <4>2. db = NoBoard => "archive" \in Copies
        BY <1>2, <2>5 DEF ArchiveInv, BoardInv, RoomInv, KeptInv, Archived, Has, NoFile,
                          OneWriter, Orderly
      <4> QED
        BY <4>1, <4>2
    <3>4. /\ db' = NoBoard \/ captured \subseteq db'
          /\ Has(pending'.board, captured) \/ Has(archive', captured)
          /\ db' = NoBoard => pending'.board = NoBoard
      BY <2>1, <2>5, <3>1 DEF ArchiveInv, BoardInv, RoomInv, KeptInv, Archived, Has, NoFile,
                              OneWriter, Orderly
    <3>5. Copies \ Copies' # {} => "archive" \in Copies'
      BY <1>2, <2>2, <2>5, <3>1, <3>2, <3>4 DEF Has
    <3>6. Custody!Move(Copies')
      BY <2>1, <2>5, <3>1, <3>2, <3>3, <3>5
    <3> QED
      BY <2>2, <3>6
  <2> QED
    BY <2>3, <2>4, <2>5
<1> QED
  BY <1>1, <1>3, BoardInvariance, PTL DEF SnSpec, CustodySpec, Custody!Spec

\* getOrCreateRoom opens a room with everything that was drawn, from its file or from the
\* archive, when pushes succeed and the process stays up.
THEOREM BoardsResume == SnSpec => BoardResumes
<1> DEFINE Resumes == (faults \subseteq {"notice_lost"} /\ room = "none" /\ room' = "open")
                          => Has(db', 1..drawn)
<1>1. ArchiveInv /\ ArchiveInv' /\ [SnNext]_snVars => [Resumes]_snVars
  <2> SUFFICES ASSUME ArchiveInv, ArchiveInv', SnNext, Calm, room = "none", room' = "open"
               PROVE  Has(db', Drawn)
    BY DEF Calm, Drawn
  <2>1. drawn' = drawn
    BY DEF SnNext, Connects, Prepares, Prepared, Draws, Leaves, Autosnapshot, IdleFires,
           Shutdown, MeetingEnds, NoticeLost, EndBegins, EndCaptures, EndFinishes, FlushStarts,
           Prune, Crash, RoomAnswered, FinalAnswered, FlushAnswered
  <2>2. faults' = faults
    BY DEF SnNext, Connects, Prepares, Prepared, Draws, Leaves, Autosnapshot, IdleFires,
           Shutdown, MeetingEnds, NoticeLost, EndBegins, EndCaptures, EndFinishes, FlushStarts,
           Prune, Crash, RoomAnswered, FinalAnswered, FlushAnswered
  <2>3. db' # NoBoard /\ db' = Drawn'
    BY <2>2 DEF ArchiveInv, BoardInv, RoomInv, ResumeInv, Calm
  <2> QED
    BY <2>1, <2>3 DEF Has, Drawn
<1> QED
  BY <1>1, BoardInvariance, PTL DEF SnSpec, BoardResumes

-----------------------------------------------------------------------------
(* The three together.  Only one of them moves in a behaviour of           *)
(* MCArchives, and it moves as it does alone: what is proved above holds   *)
(* of what TLC checks.                                                     *)

\* The drawing, the recording and the transcript of MCArchives each follow their own
\* specification.
THEOREM PartsFollow == Spec => SnSpec /\ ReSpec /\ TrSpec
<1>1. Init => SnInit /\ ReInit /\ TrInit
  BY DEF Init
<1>2. [Next]_<<part, snVars, reVars, trVars>> =>
          [SnNext]_snVars /\ [ReNext]_reVars /\ [TrNext]_trVars
  BY DEF Next
<1> QED
  BY <1>1, <1>2, PTL DEF Spec, SnSpec, ReSpec, TrSpec

\* What each part keeps has the type the part declares, in every behaviour.
THEOREM ArchiveTypes == Spec => []TypesOK
<1>1. ArchiveInv /\ RecordingInv /\ SpeechInv => TypesOK
  BY DEF ArchiveInv, BoardInv, RecordingInv, SpeechInv, TypesOK
<1>2. ReSpec => []RecordingInv
  BY RecordingStarts, RecordingStep, PTL DEF ReSpec
<1>3. TrSpec => []SpeechInv
  BY SpeechStarts, SpeechStep, PTL DEF TrSpec
<1> QED
  BY <1>1, <1>2, <1>3, PartsFollow, BoardInvariance, PTL

\* Side by side, as MCArchives runs them, the drawing, the recording and the transcript
\* keep every promise that has been proved of each of them alone.
THEOREM ArchivesKeep ==
    Spec => /\ CustodySpec /\ BoardResumes
            /\ []RowHasObject /\ []OneRunSuffices /\ []SpeechKept
BY PartsFollow, ImplementsCustody, BoardsResume, RowsHaveObjects, NetHolds, SpeechIsKept, PTL

=============================================================================
