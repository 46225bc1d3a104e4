---------------------------- MODULE Transcripts ----------------------------
(***************************************************************************)
(* What one person says in a meeting: the segments her browser recognizes, *)
(* the buffer that saves them in batches, and the transcripts table.  A    *)
(* save whose answer is lost goes on at the server while the browser       *)
(* repeats it.  A save that finds no presence row of the speaker answers   *)
(* like one that worked; the history variable refused has what it was      *)
(* given.                                                                  *)
(*                                                                         *)
(* Segments are numbered as they are spoken.  The recognizer gives each an *)
(* identifier of its own, which the rows are unique by.                    *)
(***************************************************************************)
EXTENDS Naturals, Sequences
LOCAL INSTANCE SequencesExt

CONSTANTS
    MaxSpoken, \* bound of the model: segments
    BatchSize, \* FLUSH_BATCH_SIZE
    ChunkSize, \* rows of one insert, chunkArrayForD1Parameters
    Calls,     \* saveTranscriptSegments requests, used again and again
    NoCall

ASSUME TranscriptAssumption ==
    /\ MaxSpoken \in Nat
    /\ BatchSize \in Nat \ {0} /\ ChunkSize \in Nat \ {0}
    /\ NoCall \notin Calls

VARIABLES
    spoken,  \* segments recognized so far
    unsaved, \* pendingRef
    flight,  \* inFlightRef: the request waited for, and its batch
    again,   \* queuedRef
    page,    \* the meeting page, and how far its leave handler is
    saving,  \* each request at the server: its step, and the segments it has left
    rows,    \* transcripts
    present, \* the speaker has a presence row that counts as connected
    refused  \* history: segments of the requests that found none

buffer == <<unsaved, flight, again>>
trVars == <<spoken, buffer, page, saving, rows, present, refused>>

Grounded == [call |-> NoCall, batch |-> <<>>]
NotSaving == [pc |-> "idle", left |-> <<>>]
First(s, n) == SubSeq(s, 1, IF n < Len(s) THEN n ELSE Len(s))
Rest(s, n) == SubSeq(s, n + 1, Len(s))

TrTypeOK ==
    /\ spoken \in 0..MaxSpoken
    /\ unsaved \in Seq(1..MaxSpoken)
    /\ flight \in [call : Calls \cup {NoCall}, batch : Seq(1..MaxSpoken)]
    /\ again \in BOOLEAN /\ present \in BOOLEAN
    /\ page \in {"in", "flushing", "flushed", "left", "closed"}
    /\ saving \in [Calls -> [pc : {"idle", "sent", "inserting", "saved", "failed"},
                             left : Seq(1..MaxSpoken)]]
    /\ rows \subseteq 1..MaxSpoken /\ refused \subseteq 1..MaxSpoken

TrInit ==
    /\ spoken = 0 /\ unsaved = <<>> /\ flight = Grounded /\ again = FALSE /\ page = "in"
    /\ saving = [c \in Calls |-> NotSaving]
    /\ rows = {} /\ present = TRUE /\ refused = {}

-----------------------------------------------------------------------------
(* The browser.                                                            *)

\* Speech is recognized until the room is disconnected.
Speaks ==
    /\ page \notin {"left", "closed"} /\ spoken < MaxSpoken
    /\ spoken' = spoken + 1
    /\ unsaved' = Append(unsaved, spoken + 1)
    /\ UNCHANGED <<flight, again, page, saving, rows, present, refused>>

\* The first batch of what waits goes out.
SendBatch(c, waiting, calls) ==
    /\ unsaved' = Rest(waiting, BatchSize)
    /\ flight' = [call |-> c, batch |-> First(waiting, BatchSize)]
    /\ saving' = [calls EXCEPT ![c] = [pc |-> "sent", left |-> First(waiting, BatchSize)]]

\* The timer, or captions that are switched off, while nothing is in flight.
FlushBegins(c) ==
    /\ page \in {"in", "flushing", "flushed"} /\ saving[c].pc = "idle"
    /\ flight = Grounded /\ unsaved # <<>>
    /\ SendBatch(c, unsaved, saving)
    /\ UNCHANGED <<spoken, again, page, rows, present, refused>>

\* The same while a batch is in flight.
FlushQueues ==
    /\ page \in {"in", "flushing", "flushed"}
    /\ flight # Grounded /\ unsaved # <<>>
    /\ again' = TRUE
    /\ UNCHANGED <<spoken, unsaved, flight, page, saving, rows, present, refused>>

\* The leave handler waits for a flush that it begins, and for no other.
LeaveBegins(c) ==
    /\ page = "in" /\ saving[c].pc = "idle"
    /\ IF flight = Grounded /\ unsaved # <<>>
       THEN /\ page' = "flushing"
            /\ SendBatch(c, unsaved, saving)
            /\ UNCHANGED again
       ELSE /\ page' = "flushed"
            /\ again' = (again \/ unsaved # <<>>)
            /\ UNCHANGED <<unsaved, flight, saving>>
    /\ UNCHANGED <<spoken, rows, present, refused>>

\* The room is disconnected, and the page shows something else.
Departs ==
    /\ page = "flushed"
    /\ page' = "left"
    /\ UNCHANGED <<spoken, buffer, saving, rows, present, refused>>

\* The tab is closed; the flush of pagehide may still be sent.
PageCloses(c) ==
    /\ page # "closed" /\ saving[c].pc = "idle"
    /\ page' = "closed"
    /\ IF flight = Grounded /\ unsaved # <<>>
       THEN SendBatch(c, unsaved, saving)
       ELSE UNCHANGED <<unsaved, flight, saving>>
    /\ UNCHANGED <<spoken, again, rows, present, refused>>

\* A flush is over, and so is the wait of the leave handler.
Settled == page' = IF page = "flushing" THEN "flushed" ELSE page

\* The request worked: the next batch, or the end of the flush.
BatchSaved(c) ==
    /\ page # "closed" /\ flight.call = c /\ saving[c].pc = "saved"
    /\ IF unsaved # <<>>
       THEN SendBatch(c, unsaved, saving) /\ UNCHANGED <<again, page>>
       ELSE /\ flight' = Grounded /\ again' = FALSE /\ Settled
            /\ saving' = [saving EXCEPT ![c] = NotSaving]
            /\ UNCHANGED unsaved
    /\ UNCHANGED <<spoken, rows, present, refused>>

\* A variant of PutBack that puts the batch behind the others.
PutBehind(d, calls) ==
    LET waiting == unsaved \o flight.batch IN
    /\ Settled /\ again' = FALSE
    /\ IF again THEN SendBatch(d, waiting, calls)
                ELSE unsaved' = waiting /\ flight' = Grounded /\ saving' = calls

\* It failed: its batch waits before the others, and a queued flush begins at once, with a
\* request d.
PutBack(d, calls) ==
    LET waiting == flight.batch \o unsaved IN
    /\ Settled /\ again' = FALSE
    /\ IF again THEN SendBatch(d, waiting, calls)
                ELSE unsaved' = waiting /\ flight' = Grounded /\ saving' = calls

BatchFailed(c) ==
    /\ page # "closed" /\ flight.call = c /\ saving[c].pc = "failed"
    /\ PutBack(c, [saving EXCEPT ![c] = NotSaving])
    /\ UNCHANGED <<spoken, rows, present, refused>>

\* The browser is told of a failure, and the server goes on.
AnswerLost(c, d) ==
    /\ page # "closed" /\ flight.call = c /\ saving[c].pc \in {"sent", "inserting"}
    /\ saving[d].pc = "idle"
    /\ PutBack(d, saving)
    /\ UNCHANGED <<spoken, rows, present, refused>>

-----------------------------------------------------------------------------
(* The server, and what it is told of the speaker's presence.              *)

\* What is left of a request goes when nobody waits for its answer.
Ended(c, pc) ==
    saving' = [saving EXCEPT ![c] =
        IF flight.call = c /\ page # "closed" THEN [NotSaving EXCEPT !.pc = pc] ELSE NotSaving]

SaveFinds(c) ==
    /\ saving[c].pc = "sent"
    /\ IF present
       THEN saving' = [saving EXCEPT ![c].pc = "inserting"] /\ UNCHANGED refused
       ELSE Ended(c, "saved") /\ refused' = refused \cup ToSet(saving[c].left)
    /\ UNCHANGED <<spoken, buffer, page, rows, present>>

\* A variant of SaveInserts without onConflictDoNothing.
SaveInsertsStrictly(c) ==
    LET chunk == First(saving[c].left, ChunkSize) IN
    /\ saving[c].pc = "inserting"
    /\ IF ToSet(chunk) \cap rows # {} THEN Ended(c, "failed")
       ELSE IF Len(saving[c].left) <= ChunkSize THEN Ended(c, "saved")
       ELSE saving' = [saving EXCEPT ![c].left = Rest(@, ChunkSize)]
    /\ rows' = rows \cup (IF ToSet(chunk) \cap rows # {} THEN {} ELSE ToSet(chunk))
    /\ UNCHANGED <<spoken, buffer, page, present, refused>>

\* One insert; rows there are already stay as they are.
SaveInserts(c) ==
    /\ saving[c].pc = "inserting"
    /\ rows' = rows \cup ToSet(First(saving[c].left, ChunkSize))
    /\ IF Len(saving[c].left) <= ChunkSize THEN Ended(c, "saved")
       ELSE saving' = [saving EXCEPT ![c].left = Rest(@, ChunkSize)]
    /\ UNCHANGED <<spoken, buffer, page, present, refused>>

\* A query or an insert fails for good, or the Worker dies.
SaveFails(c) ==
    /\ saving[c].pc \in {"sent", "inserting"}
    /\ Ended(c, "failed")
    /\ UNCHANGED <<spoken, buffer, page, rows, present, refused>>

\* Webhooks and the leave endpoint mark the row; a reconnection brings it back.
PresenceChanges ==
    /\ present \/ page \notin {"left", "closed"}
    /\ present' = ~present
    /\ UNCHANGED <<spoken, buffer, page, saving, rows, refused>>

TrNext ==
    \/ Speaks \/ FlushQueues \/ Departs \/ PresenceChanges
    \/ \E c \in Calls :
        \/ FlushBegins(c) \/ LeaveBegins(c) \/ PageCloses(c)
        \/ BatchSaved(c) \/ BatchFailed(c) \/ \E d \in Calls : AnswerLost(c, d)
        \/ SaveFinds(c) \/ SaveInserts(c) \/ SaveFails(c)

\* The timer fires and requests are worked on; none of their steps fails every time.
TrFairness ==
    /\ WF_trVars(\E c \in Calls : FlushBegins(c) \/ BatchSaved(c) \/ BatchFailed(c))
    /\ WF_trVars(\E c \in Calls : flight.call # c /\ (SaveFinds(c) \/ SaveInserts(c)))
    /\ SF_trVars(\E c \in Calls : flight.call = c /\ SaveFinds(c))
    /\ \A n \in 1..MaxSpoken :
        SF_trVars(\E c \in Calls : /\ flight.call = c
                                   /\ n \in ToSet(First(saving[c].left, ChunkSize))
                                   /\ SaveInserts(c))

TrSpec == TrInit /\ [][TrNext]_trVars /\ TrFairness

-----------------------------------------------------------------------------

\* Nothing that was said gets lost between the buffer and the table, or overtakes what was
\* said before: it is saved (or was refused) up to some segment, and all later ones are
\* in flight or wait, in their order, however often requests fail, overlap or are repeated.
SpeechKept ==
    LET tail == flight.batch \o unsaved
        kept == rows \cup refused
    IN /\ tail = [i \in 1..Len(tail) |-> spoken - Len(tail) + i]
       /\ 1..(spoken - Len(tail)) \subseteq kept
       /\ \A n \in kept : 1..n \subseteq kept

\* However often saving fails: when the speaker pauses for long (in the model, at MaxSpoken
\* at the latest), everything she said gets saved or refused, unless the page is left.
SpeechIsSaved == []<>(1..spoken \subseteq rows \cup refused \/ page # "in")

=============================================================================
