--------------------------- MODULE EvidenceWriter ---------------------------
(***************************************************************************)
(* Bounded asynchronous persistence of hook evidence                       *)
(* (guard/daemon/runtime_hook_evidence_writer.py and _journal.py).         *)
(*                                                                         *)
(* A process (the daemon, or a hook command that runs without it) owns a   *)
(* writer: hook threads submit records to an in-memory queue, one worker   *)
(* thread journals each record, stores it in SQLite and takes it out of    *)
(* the journal again.  The writers of all processes share the journal file *)
(* and the database.  The writer recovers the journal when it starts.      *)
(*                                                                         *)
(* Abstractions: the journal is the set of its readable lines (file order  *)
(* decides nothing here) and the number of its unreadable ones; the byte   *)
(* limits of the queue appear as refusals that may happen at any fill      *)
(* level, the byte limit of the journal as a number of lines.              *)
(***************************************************************************)
EXTENDS Naturals, FiniteSets, Sequences

CONSTANTS
    Writers,       \* processes with a writer
    Records,       \* evidence records, by record_id
    Receipts,      \* those that are native decision receipts (keyed, deduplicated)
    MaxRecords,    \* max_records
    MaxBatch,      \* max_batch
    JournalLimit,  \* lines a journal may have before it is refused as too large
    MaxTorn,       \* bound on the unreadable lines a model considers
    Faults         \* which of "append", "persist", "rewrite", "crash", "torn" happen

ASSUME WriterConstants ==
    /\ IsFiniteSet(Records) /\ Receipts \subseteq Records
    /\ {MaxRecords, MaxBatch, JournalLimit} \subseteq Nat \ {0} /\ MaxTorn \in Nat
    /\ Faults \subseteq {"append", "persist", "rewrite", "crash", "torn"}

VARIABLES
    pc,         \* where each worker thread is; "down" if its process is not running
    queue,      \* _records
    batch,      \* the records the worker has taken, the current one first
    durable,    \* _durable: records the writer believes to be in the journal
    seen,       \* _receipt_seen, oldest first
    stopping,   \* _stopping
    degraded,   \* _degraded
    acked,      \* records whose submission was answered True by this process
    submitted,  \* records some writer has accepted
    journal,    \* readable lines of the journal file
    bad,        \* unreadable lines of the journal file
    torn,       \* the file ends in the middle of a line
    persisted   \* records in SQLite

memory == <<pc, queue, batch, durable, seen, stopping, degraded, acked>>
disk == <<journal, bad, torn, persisted>>
vars == <<memory, submitted, disk>>

Elements(s) == {s[i] : i \in DOMAIN s}

\* The worker is inside the loop over a batch.
InBatch == {"journal", "check", "persist", "rewrite"}
Working(w) == pc[w] \in InBatch \cup {"next"}

Init ==
    /\ pc = [w \in Writers |-> "down"]
    /\ queue = [w \in Writers |-> <<>>]
    /\ batch = [w \in Writers |-> <<>>]
    /\ durable = [w \in Writers |-> {}]
    /\ seen = [w \in Writers |-> <<>>]
    /\ stopping = [w \in Writers |-> FALSE]
    /\ degraded = [w \in Writers |-> FALSE]
    /\ acked = [w \in Writers |-> {}]
    /\ submitted = {}
    /\ journal = {} /\ bad = 0 /\ torn = FALSE
    /\ persisted = {}

-----------------------------------------------------------------------------
(***************************************************************************)
(* The journal file.  Each operation holds the journal's file lock.        *)
(***************************************************************************)
TornLines == IF torn THEN 1 ELSE 0

\* _read_journal_records_locked refuses the file.
Oversize == Cardinality(journal) + bad + TornLines > JournalLimit

\* append_journal.  After a torn line the new one is read as part of it.
AppendLine(r) ==
    /\ torn' = FALSE
    /\ IF torn THEN bad' = bad + 1 /\ UNCHANGED journal
       ELSE journal' = journal \cup {r} /\ UNCHANGED bad

\* A variant that writes back only what this writer knows of: nothing.
RewriteEverything(r) == journal' = {} /\ bad' = 0 /\ torn' = FALSE

\* rewrite_journal: every readable line but r's, and no unreadable one.
RewriteWithout(r) == journal' = journal \ {r} /\ bad' = 0 /\ torn' = FALSE

-----------------------------------------------------------------------------
(***************************************************************************)
(* The life of a process.                                                  *)
(***************************************************************************)
Injective(s) == \A i, j \in DOMAIN s : s[i] = s[j] => i = j

Orders(S) == {s \in UNION {[1 .. n -> S] : n \in 0 .. MaxRecords} : Injective(s)}

\* s is what q holds of S, in q's order.
Filters(q, S, s) ==
    /\ Elements(s) = Elements(q) \cap S
    /\ \A i, j \in DOMAIN s : i < j =>
          \E k, l \in DOMAIN q : k < l /\ s[i] = q[k] /\ s[j] = q[l]

\* _recover_journal and the start of the worker.  Lines that exceed the
\* queue's limits stay in the file; a receipt that two writers journaled has
\* two lines, and the second one is refused.
Start(w) ==
    /\ pc[w] = "down"
    /\ pc' = [pc EXCEPT ![w] = "next"]
    /\ \/ /\ Oversize
          /\ degraded' = [degraded EXCEPT ![w] = TRUE]
          /\ UNCHANGED <<queue, durable, seen>>
       \/ /\ ~Oversize
          /\ \E q \in Orders(journal) :
                /\ queue' = [queue EXCEPT ![w] = q]
                /\ durable' = [durable EXCEPT ![w] = Elements(q)]
                /\ \E s \in Orders(Receipts) :
                      Filters(q, Receipts, s) /\ seen' = [seen EXCEPT ![w] = s]
                /\ \E twice \in BOOLEAN :
                      /\ twice => Elements(q) \cap Receipts # {}
                      /\ degraded' = [degraded EXCEPT ![w] =
                                        twice \/ Elements(q) # journal \/ bad > 0 \/ torn]
    /\ UNCHANGED <<batch, stopping, acked, submitted, disk>>

\* The process ends: it dies, or exits after stop.  Its memory is gone; a
\* death inside append_journal may leave half a line.
Down(w) ==
    /\ pc[w] # "down"
    /\ "crash" \in Faults \/ stopping[w]
    /\ \/ UNCHANGED torn
       \/ /\ pc[w] = "journal" /\ Head(batch[w]) \notin durable[w]
          /\ "torn" \in Faults /\ bad < MaxTorn /\ torn' = TRUE
    /\ pc' = [pc EXCEPT ![w] = "down"]
    /\ queue' = [queue EXCEPT ![w] = <<>>]
    /\ batch' = [batch EXCEPT ![w] = <<>>]
    /\ durable' = [durable EXCEPT ![w] = {}]
    /\ seen' = [seen EXCEPT ![w] = <<>>]
    /\ stopping' = [stopping EXCEPT ![w] = FALSE]
    /\ degraded' = [degraded EXCEPT ![w] = FALSE]
    /\ acked' = [acked EXCEPT ![w] = {}]
    /\ UNCHANGED <<submitted, journal, bad, persisted>>

\* stop(), up to its join; the bounded drain may expire from then on.
Stop(w) ==
    /\ pc[w] # "down" /\ ~stopping[w]
    /\ stopping' = [stopping EXCEPT ![w] = TRUE]
    /\ UNCHANGED <<pc, queue, batch, durable, seen, degraded, acked, submitted, disk>>

\* stop() returns, the worker having ended or not.
StopReturns(w) ==
    /\ stopping[w] /\ durable[w] # {} /\ ~degraded[w]
    /\ degraded' = [degraded EXCEPT ![w] = TRUE]
    /\ UNCHANGED <<pc, queue, batch, durable, seen, stopping, acked, submitted, disk>>

-----------------------------------------------------------------------------
(***************************************************************************)
(* Hook threads.                                                           *)
(***************************************************************************)

\* Only a receipt can be submitted twice: the others get a new id each time.
MaySubmit(w, r) == pc[w] # "down" /\ (r \in Receipts \/ r \notin submitted)

\* A variant that remembers every record, which no retry will ever match.
RememberEvery(s, r) ==
    IF Len(s) < 4 * MaxRecords THEN Append(s, r) ELSE Append(Tail(s), r)

Remember(s, r) ==
    IF r \notin Receipts THEN s
    ELSE IF Len(s) < 4 * MaxRecords THEN Append(s, r) ELSE Append(Tail(s), r)

SubmitAccepted(w, r) ==
    /\ MaySubmit(w, r)
    /\ r \notin Elements(seen[w]) /\ ~stopping[w] /\ Len(queue[w]) < MaxRecords
    /\ queue' = [queue EXCEPT ![w] = Append(@, r)]
    /\ seen' = [seen EXCEPT ![w] = Remember(@, r)]
    /\ acked' = [acked EXCEPT ![w] = @ \cup {r}]
    /\ submitted' = submitted \cup {r}
    /\ UNCHANGED <<pc, batch, durable, stopping, degraded, disk>>

\* The writer is stopping, the queue is full, or its bytes would not fit.
SubmitRefused(w, r) ==
    /\ MaySubmit(w, r) /\ r \notin Elements(seen[w])
    /\ degraded' = [degraded EXCEPT ![w] = TRUE]
    /\ UNCHANGED <<pc, queue, batch, durable, seen, stopping, acked, submitted, disk>>

SubmitDeduped(w, r) ==
    /\ MaySubmit(w, r) /\ r \in Elements(seen[w])
    /\ acked' = [acked EXCEPT ![w] = @ \cup {r}]
    /\ UNCHANGED <<pc, queue, batch, durable, seen, stopping, degraded, submitted, disk>>

-----------------------------------------------------------------------------
(***************************************************************************)
(* The worker thread, _run.                                                *)
(***************************************************************************)

\* The batch loop goes on to its next record, or back to _next_batch.
NextRecord(w) ==
    /\ batch' = [batch EXCEPT ![w] = Tail(@)]
    /\ pc' = [pc EXCEPT ![w] = IF Len(batch[w]) > 1 THEN "journal" ELSE "next"]

\* A variant that waits until there is more than a batch.
TakeBatchWaits(w) ==
    /\ pc[w] = "next" /\ Len(queue[w]) > MaxBatch
    /\ batch' = [batch EXCEPT ![w] = SubSeq(queue[w], 1, MaxBatch)]
    /\ queue' = [queue EXCEPT ![w] = SubSeq(@, MaxBatch + 1, Len(@))]
    /\ pc' = [pc EXCEPT ![w] = "journal"]
    /\ UNCHANGED <<durable, seen, stopping, degraded, acked, submitted, disk>>

\* _next_batch
TakeBatch(w) ==
    /\ pc[w] = "next" /\ queue[w] # <<>>
    /\ LET n == IF Len(queue[w]) < MaxBatch THEN Len(queue[w]) ELSE MaxBatch
       IN  /\ batch' = [batch EXCEPT ![w] = SubSeq(queue[w], 1, n)]
           /\ queue' = [queue EXCEPT ![w] = SubSeq(@, n + 1, Len(@))]
    /\ pc' = [pc EXCEPT ![w] = "journal"]
    /\ UNCHANGED <<durable, seen, stopping, degraded, acked, submitted, disk>>

\* Nothing is left to drain: the worker ends.
Drained(w) ==
    /\ pc[w] = "next" /\ queue[w] = <<>> /\ stopping[w]
    /\ pc' = [pc EXCEPT ![w] = "stopped"]
    /\ UNCHANGED <<queue, batch, durable, seen, stopping, degraded, acked, submitted, disk>>

\* A variant that calls a record durable without having appended it.
JournalLater(w) ==
    /\ pc[w] = "journal"
    /\ durable' = [durable EXCEPT ![w] = @ \cup {Head(batch[w])}]
    /\ pc' = [pc EXCEPT ![w] = "check"]
    /\ UNCHANGED <<queue, batch, seen, stopping, degraded, acked, submitted, disk>>

Journal(w) ==
    /\ pc[w] = "journal"
    /\ IF Head(batch[w]) \in durable[w]
       THEN UNCHANGED <<durable, journal, bad, torn>>
       ELSE /\ AppendLine(Head(batch[w]))
            /\ durable' = [durable EXCEPT ![w] = @ \cup {Head(batch[w])}]
    /\ pc' = [pc EXCEPT ![w] = "check"]
    /\ UNCHANGED <<queue, batch, seen, stopping, degraded, acked, submitted, persisted>>

\* The append raises OSError and is undone: the record is dropped.
JournalFails(w) ==
    /\ pc[w] = "journal" /\ "append" \in Faults
    /\ Head(batch[w]) \notin durable[w]
    /\ NextRecord(w)
    /\ degraded' = [degraded EXCEPT ![w] = TRUE]
    /\ UNCHANGED <<queue, durable, seen, stopping, acked, submitted, disk>>

InTime(w) ==
    /\ pc[w] = "check"
    /\ pc' = [pc EXCEPT ![w] = "persist"]
    /\ UNCHANGED <<queue, batch, durable, seen, stopping, degraded, acked, submitted, disk>>

\* A variant that leaves without a word.
DrainExpiredQuietly(w) ==
    /\ pc[w] = "check" /\ stopping[w]
    /\ pc' = [pc EXCEPT ![w] = "stopped"]
    /\ UNCHANGED <<queue, batch, durable, seen, stopping, degraded, acked, submitted, disk>>

\* The drain of stop() has expired: the worker leaves the rest behind.
DrainExpired(w) ==
    /\ pc[w] = "check" /\ stopping[w]
    /\ pc' = [pc EXCEPT ![w] = "stopped"]
    /\ degraded' = [degraded EXCEPT ![w] = TRUE]
    /\ UNCHANGED <<queue, batch, durable, seen, stopping, acked, submitted, disk>>

\* The insert commits; a receipt that is there already is ignored.
Insert(r) == persisted' = persisted \cup {r}

Persist(w) ==
    /\ pc[w] = "persist"
    /\ Insert(Head(batch[w]))
    /\ durable' = [durable EXCEPT ![w] = @ \ {Head(batch[w])}]
    /\ pc' = [pc EXCEPT ![w] = "rewrite"]
    /\ UNCHANGED <<queue, batch, seen, stopping, degraded, acked, submitted, journal, bad, torn>>

\* SQLite is locked or raises: the record goes to the end of the queue,
\* whatever the queue's length, unless the writer is stopping.
PersistFails(w) ==
    /\ pc[w] = "persist" /\ "persist" \in Faults
    /\ queue' = [queue EXCEPT ![w] = IF stopping[w] THEN @ ELSE Append(@, Head(batch[w]))]
    /\ degraded' = [degraded EXCEPT ![w] = TRUE]
    /\ NextRecord(w)
    /\ UNCHANGED <<durable, seen, stopping, acked, submitted, disk>>

Rewrite(w) ==
    /\ pc[w] = "rewrite" /\ ~Oversize
    /\ RewriteWithout(Head(batch[w]))
    /\ degraded' = [degraded EXCEPT ![w] = @ \/ bad > 0 \/ torn]
    /\ NextRecord(w)
    /\ UNCHANGED <<queue, durable, seen, stopping, acked, submitted, persisted>>

\* The rewrite raises: the file is as it was, or only its preview sidecar is.
RewriteFails(w) ==
    /\ pc[w] = "rewrite"
    /\ \/ (Oversize \/ "rewrite" \in Faults) /\ UNCHANGED <<journal, bad, torn>>
       \/ "rewrite" \in Faults /\ ~Oversize /\ RewriteWithout(Head(batch[w]))
    /\ degraded' = [degraded EXCEPT ![w] = TRUE]
    /\ NextRecord(w)
    /\ UNCHANGED <<queue, durable, seen, stopping, acked, submitted, persisted>>

Worker(w) ==
    \/ TakeBatch(w) \/ Drained(w) \/ Journal(w) \/ JournalFails(w) \/ InTime(w)
    \/ DrainExpired(w) \/ Persist(w) \/ PersistFails(w) \/ Rewrite(w) \/ RewriteFails(w)

Next ==
    \/ \E w \in Writers : Worker(w) \/ Start(w) \/ Down(w) \/ Stop(w) \/ StopReturns(w)
    \/ \E w \in Writers, r \in Records :
          SubmitAccepted(w, r) \/ SubmitRefused(w, r) \/ SubmitDeduped(w, r)

Spec == Init /\ [][Next]_vars

\* The worker thread runs, and SQLite does not fail for ever.  Nothing is
\* assumed of submissions, of the journal or of the life of a process.
LiveSpec == Spec /\ \A w \in Writers : WF_vars(Worker(w)) /\ SF_vars(Persist(w))

-----------------------------------------------------------------------------
(***************************************************************************)
(* What the writer promises.                                               *)
(***************************************************************************)

\* Every variable has its type, only receipts are remembered, and the worker
\* has a current record while it is in a batch.
TypeOK ==
    /\ pc \in [Writers -> {"down", "next", "stopped"} \cup InBatch]
    /\ queue \in [Writers -> Seq(Records)]
    /\ batch \in [Writers -> Seq(Records)]
    /\ durable \in [Writers -> SUBSET Records]
    /\ seen \in [Writers -> Seq(Receipts)]
    /\ stopping \in [Writers -> BOOLEAN]
    /\ degraded \in [Writers -> BOOLEAN]
    /\ acked \in [Writers -> SUBSET Records]
    /\ submitted \subseteq Records
    /\ journal \subseteq Records
    /\ bad \in Nat
    /\ torn \in BOOLEAN
    /\ persisted \subseteq Records
    /\ \A w \in Writers : pc[w] \in InBatch => batch[w] # <<>>

\* The records a writer still has in memory and will come to.
InMemory(w) ==
    IF Working(w) THEN Elements(queue[w]) \cup Elements(batch[w]) ELSE {}

\* "Remove one completed record without erasing another writer's records":
\* whoever rewrites the journal, and whatever fails, a readable line leaves
\* it only when its record is in SQLite.
JournalNeverForgets == [][\A r \in journal \ journal' : r \in persisted]_vars

\* "Loss of evidence is explicitly degraded": a record that was answered True,
\* deduplicated receipts included, is in SQLite, in the journal or in the
\* writer's memory, or the writer says that it is degraded.
AckedIsHeldOrDegraded ==
    \A w \in Writers : \A r \in acked[w] :
        r \in persisted \cup journal \cup InMemory(w) \/ degraded[w]

\* "The queue is capped at 2,000 records": no writer has more than max_records
\* queued.
QueueCapped == \A w \in Writers : Len(queue[w]) <= MaxRecords

\* What the writer calls durable can be recovered: its line is readable in
\* the journal, unless the record already is in SQLite.
DurableIsRecoverable == \A w \in Writers : durable[w] \subseteq journal \cup persisted

\* No record stays in a running writer for ever: it is stored, or dropped, or
\* left to the journal.
PendingSettles ==
    \A w \in Writers, r \in Records : r \in InMemory(w) ~> r \notin InMemory(w)
=============================================================================
