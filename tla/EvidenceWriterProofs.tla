------------------------ MODULE EvidenceWriterProofs ------------------------
(***************************************************************************)
(* The evidence writer's journal never forgets a record that SQLite does   *)
(* not have, its queue exceeds the cap by at most a batch, and, if no      *)
(* append is cut in the middle of a line, what it calls durable can be     *)
(* recovered: for any number of writers and records, any limits and any    *)
(* other faults.                                                           *)
(***************************************************************************)
EXTENDS EvidenceWriter, SequenceTheorems, TLAPS

----------------------------------------------------------------------------
(* The inductive invariant.                                                *)

\* A line is taken out of the journal only once its record is in SQLite.
StoredBeforeRewrite ==
    \A w \in Writers : pc[w] = "rewrite" => Head(batch[w]) \in persisted

BatchBounded == \A w \in Writers : Len(batch[w]) <= MaxBatch

\* What is left of QueueCapped: a retry takes its record from the batch.
QueueBounded ==
    \A w \in Writers : Len(queue[w]) + Len(batch[w]) <= MaxRecords + MaxBatch

WriterInvariant == TypeOK /\ StoredBeforeRewrite /\ BatchBounded /\ QueueBounded

\* The disk is never left with half a line.
WholeLines == torn = FALSE

----------------------------------------------------------------------------
(* Sequences.                                                              *)

LEMMA TailFacts ==
    ASSUME NEW S, NEW s \in Seq(S), s # <<>>
    PROVE  /\ Head(s) \in S /\ Tail(s) \in Seq(S)
           /\ Len(Tail(s)) = Len(s) - 1
           /\ Len(s) \in Nat \ {0}
           /\ Len(s) > 1 => Tail(s) # <<>>
<1>1. Head(s) \in S /\ Tail(s) \in Seq(S) /\ Len(Tail(s)) = Len(s) - 1
  BY HeadTailProperties
<1>2. Len(s) \in Nat \ {0}
  BY EmptySeq, LenProperties
<1>3. Len(s) > 1 => Tail(s) # <<>>
  BY <1>1, <1>2
<1>4. QED
  BY <1>1, <1>2, <1>3

\* What _next_batch takes and what it leaves.
LEMMA SplitFacts ==
    ASSUME NEW S, NEW s \in Seq(S), NEW n \in 1 .. Len(s)
    PROVE  /\ SubSeq(s, 1, n) \in Seq(S) /\ Len(SubSeq(s, 1, n)) = n
           /\ SubSeq(s, 1, n) # <<>>
           /\ SubSeq(s, n + 1, Len(s)) \in Seq(S)
           /\ Len(SubSeq(s, n + 1, Len(s))) = Len(s) - n
<1>1. Len(s) \in Nat /\ \A i \in 1 .. Len(s) : s[i] \in S
  BY LenProperties, ElementOfSeq
<1>2. SubSeq(s, 1, n) \in Seq(S) /\ Len(SubSeq(s, 1, n)) = n
  <2>1. 1 \in Int /\ n \in Int /\ \A i \in 1 .. n : s[i] \in S
    BY <1>1
  <2>2. QED
    BY <1>1, <2>1, SubSeqProperties
<1>3. SubSeq(s, 1, n) # <<>>
  BY <1>1, <1>2
<1>4. /\ SubSeq(s, n + 1, Len(s)) \in Seq(S)
      /\ Len(SubSeq(s, n + 1, Len(s))) = Len(s) - n
  <2>1. n + 1 \in Int /\ Len(s) \in Int /\ \A i \in n + 1 .. Len(s) : s[i] \in S
    BY <1>1
  <2>2. QED
    BY <1>1, <2>1, SubSeqProperties
<1>5. QED
  BY <1>2, <1>3, <1>4

\* The records of a sequence, after each operation on it.
LEMMA AppendElements ==
    ASSUME NEW S, NEW s \in Seq(S), NEW e \in S
    PROVE  Elements(Append(s, e)) = Elements(s) \cup {e}
<1>1. /\ Append(s, e) \in Seq(S) /\ Len(Append(s, e)) = Len(s) + 1
      /\ \A i \in 1 .. Len(s) : Append(s, e)[i] = s[i]
      /\ Append(s, e)[Len(s) + 1] = e
      /\ Len(s) \in Nat
  BY AppendProperties, LenProperties
<1>2. DOMAIN s = 1 .. Len(s) /\ DOMAIN Append(s, e) = 1 .. Len(s) + 1
  BY <1>1, LenProperties
<1>3. \A i \in 1 .. Len(s) + 1 : i \in 1 .. Len(s) \/ i = Len(s) + 1
  BY <1>1
<1>4. Elements(Append(s, e)) \subseteq Elements(s) \cup {e}
  BY <1>1, <1>2, <1>3 DEF Elements
<1>5. Elements(s) \cup {e} \subseteq Elements(Append(s, e))
  <2>1. \A i \in 1 .. Len(s) : i \in 1 .. Len(s) + 1
    BY <1>1
  <2>2. Len(s) + 1 \in 1 .. Len(s) + 1
    BY <1>1
  <2>3. QED
    BY <1>1, <1>2, <2>1, <2>2 DEF Elements
<1>6. QED
  BY <1>4, <1>5

LEMMA TailElements ==
    ASSUME NEW S, NEW s \in Seq(S), s # <<>>
    PROVE  /\ Elements(Tail(s)) \subseteq Elements(s)
           /\ Elements(s) \subseteq Elements(Tail(s)) \cup {Head(s)}
<1>1. /\ Tail(s) \in Seq(S) /\ Len(Tail(s)) = Len(s) - 1
      /\ \A i \in 1 .. Len(Tail(s)) : Tail(s)[i] = s[i + 1]
      /\ Len(s) \in Nat \ {0}
  BY HeadTailProperties, TailFacts
<1>2. DOMAIN s = 1 .. Len(s) /\ DOMAIN Tail(s) = 1 .. Len(s) - 1
  BY <1>1, LenProperties
<1>3. Elements(Tail(s)) \subseteq Elements(s)
  <2>1. \A i \in 1 .. Len(s) - 1 : i + 1 \in 1 .. Len(s)
    BY <1>1
  <2>2. QED
    BY <1>1, <1>2, <2>1 DEF Elements
<1>4. Elements(s) \subseteq Elements(Tail(s)) \cup {Head(s)}
  <2>1. Head(s) = s[1]
    OBVIOUS
  <2>2. SUFFICES ASSUME NEW i \in 1 .. Len(s) PROVE s[i] \in Elements(Tail(s)) \cup {s[1]}
    BY <1>2, <2>1 DEF Elements
  <2>3. CASE i # 1
    <3>1. i - 1 \in 1 .. Len(s) - 1 /\ i = (i - 1) + 1
      BY <1>1, <2>3
    <3>2. Tail(s)[i - 1] = s[i]
      BY <1>1, <3>1
    <3>3. QED
      BY <1>2, <3>1, <3>2 DEF Elements
  <2>4. QED
    BY <2>3
<1>5. QED
  BY <1>3, <1>4

LEMMA SplitElements ==
    ASSUME NEW S, NEW s \in Seq(S), NEW n \in 1 .. Len(s)
    PROVE  Elements(s) \subseteq
               Elements(SubSeq(s, 1, n)) \cup Elements(SubSeq(s, n + 1, Len(s)))
<1>1. Len(s) \in Nat /\ DOMAIN s = 1 .. Len(s)
  BY LenProperties
<1> DEFINE a == SubSeq(s, 1, n)
           b == SubSeq(s, n + 1, Len(s))
<1>2. /\ a \in Seq(S) /\ Len(a) = n /\ b \in Seq(S) /\ Len(b) = Len(s) - n
  BY SplitFacts
<1>3. \A i \in 1 .. n : a[i] = s[i]
  BY <1>1
<1>4. \A i \in n + 1 .. Len(s) : b[i - n] = s[i]
  BY <1>1
<1>5. DOMAIN a = 1 .. n /\ DOMAIN b = 1 .. Len(s) - n
  BY <1>2, LenProperties
<1> HIDE DEF a, b
<1>6. SUFFICES ASSUME NEW i \in 1 .. Len(s) PROVE s[i] \in Elements(a) \cup Elements(b)
  BY <1>1 DEF Elements, a, b
<1>7. CASE i <= n
  BY <1>1, <1>3, <1>5, <1>7 DEF Elements
<1>8. CASE ~(i <= n)
  <2>1. i \in n + 1 .. Len(s) /\ i - n \in 1 .. Len(s) - n
    BY <1>1, <1>8
  <2>2. QED
    BY <1>4, <1>5, <2>1 DEF Elements
<1>9. QED
  BY <1>7, <1>8

\* What recovery may put into the queue.
LEMMA OrdersFacts ==
    ASSUME NEW S, NEW q \in Orders(S), MaxRecords \in Nat
    PROVE  /\ q \in Seq(S) /\ Len(q) <= MaxRecords
           /\ Elements(q) \subseteq S
<1>1. PICK n \in 0 .. MaxRecords : q \in [1 .. n -> S]
  BY DEF Orders
<1>2. n \in Nat
  BY <1>1
<1>3. q \in Seq(S)
  BY <1>1, <1>2, SeqDef
<1>4. Len(q) = n
  BY <1>1, <1>2, <1>3, LenProperties
<1>5. Elements(q) \subseteq S
  BY <1>1 DEF Elements
<1>6. QED
  BY <1>1, <1>3, <1>4, <1>5

\* The bounded memory of the receipts submitted so far.
LEMMA RememberFacts ==
    ASSUME NEW s \in Seq(Receipts), NEW r \in Records
    PROVE  /\ Remember(s, r) \in Seq(Receipts)
           /\ Elements(Remember(s, r)) \subseteq Elements(s) \cup {r}
<1>1. CASE r \notin Receipts
  BY <1>1 DEF Remember
<1>2. CASE r \in Receipts /\ Len(s) < 4 * MaxRecords
  <2>1. Remember(s, r) = Append(s, r)
    BY <1>2 DEF Remember
  <2>2. QED
    BY <1>2, <2>1, AppendElements, AppendProperties
<1>3. CASE r \in Receipts /\ ~(Len(s) < 4 * MaxRecords)
  <2>1. Remember(s, r) = Append(Tail(s), r)
    BY <1>3 DEF Remember
  <2>2. s # <<>>
    <3>1. MaxRecords \in Nat \ {0} /\ Len(<<>>) = 0
      BY WriterConstants
    <3>2. QED
      BY <1>3, <3>1
  <2>3. Tail(s) \in Seq(Receipts) /\ Elements(Tail(s)) \subseteq Elements(s)
    BY <2>2, TailFacts, TailElements
  <2>4. Append(Tail(s), r) \in Seq(Receipts)
    BY <1>3, <2>3, AppendProperties
  <2>5. Elements(Append(Tail(s), r)) = Elements(Tail(s)) \cup {r}
    <3>1. r \in Receipts
      BY <1>3
    <3>2. \A t \in Seq(Receipts) : Elements(Append(t, r)) = Elements(t) \cup {r}
      BY <3>1, AppendElements
    <3>3. QED
      BY <2>3, <3>2, Zenon
  <2>6. QED
    BY <2>1, <2>3, <2>4, <2>5
<1>4. QED
  BY <1>1, <1>2, <1>3

----------------------------------------------------------------------------
(* The batch loop.                                                         *)

\* Going on to the next record keeps the worker's state well-formed, leaves
\* the rewriting of the journal and consumes one record of the batch.
LEMMA NextRecordFacts ==
    ASSUME WriterInvariant, NEW w \in Writers, pc[w] \in InBatch, NextRecord(w)
    PROVE  /\ pc' \in [Writers -> {"down", "next", "stopped"} \cup InBatch]
           /\ batch' \in [Writers -> Seq(Records)]
           /\ \A v \in Writers : pc'[v] \in InBatch => batch'[v] # <<>>
           /\ \A v \in Writers : v # w => pc'[v] = pc[v] /\ batch'[v] = batch[v]
           /\ pc'[w] # "rewrite"
           /\ Len(batch'[w]) = Len(batch[w]) - 1
           /\ Head(batch[w]) \in Records
           /\ Len(batch[w]) \in Nat
           /\ BatchBounded'
<1>1. /\ pc \in [Writers -> {"down", "next", "stopped"} \cup InBatch]
      /\ batch \in [Writers -> Seq(Records)]
      /\ batch[w] \in Seq(Records) /\ batch[w] # <<>>
      /\ \A v \in Writers : pc[v] \in InBatch => batch[v] # <<>>
  BY DEF WriterInvariant, TypeOK
<1>2. /\ Head(batch[w]) \in Records /\ Tail(batch[w]) \in Seq(Records)
      /\ Len(Tail(batch[w])) = Len(batch[w]) - 1
      /\ Len(batch[w]) \in Nat \ {0}
      /\ Len(batch[w]) > 1 => Tail(batch[w]) # <<>>
  BY <1>1, TailFacts
<1>3. /\ batch' = [batch EXCEPT ![w] = Tail(batch[w])]
      /\ pc' = [pc EXCEPT ![w] = IF Len(batch[w]) > 1 THEN "journal" ELSE "next"]
  BY DEF NextRecord
<1>4. /\ batch' \in [Writers -> Seq(Records)] /\ batch'[w] = Tail(batch[w])
      /\ \A v \in Writers : v # w => batch'[v] = batch[v]
  BY <1>1, <1>2, <1>3
<1>5. /\ pc' \in [Writers -> {"down", "next", "stopped"} \cup InBatch]
      /\ pc'[w] = IF Len(batch[w]) > 1 THEN "journal" ELSE "next"
      /\ \A v \in Writers : v # w => pc'[v] = pc[v]
  BY <1>1, <1>3 DEF InBatch
<1>6. \A v \in Writers : pc'[v] \in InBatch => batch'[v] # <<>>
  BY <1>1, <1>2, <1>4, <1>5 DEF InBatch
<1>7. BatchBounded'
  <2>1. SUFFICES ASSUME NEW v \in Writers PROVE Len(batch'[v]) <= MaxBatch
    BY DEF BatchBounded
  <2>2. Len(batch[v]) <= MaxBatch /\ Len(batch[w]) <= MaxBatch /\ MaxBatch \in Nat
    BY WriterConstants DEF WriterInvariant, BatchBounded
  <2>3. QED
    BY <1>2, <1>4, <2>2
<1>8. QED
  BY <1>2, <1>4, <1>5, <1>6, <1>7

----------------------------------------------------------------------------
(* Every step keeps the invariant.                                         *)

LEMMA ConstantFacts ==
    /\ MaxRecords \in Nat \ {0} /\ MaxBatch \in Nat \ {0} /\ Receipts \subseteq Records
BY WriterConstants

\* The types of the variables, one by one.
LEMMA Types ==
    ASSUME WriterInvariant, NEW w \in Writers
    PROVE  /\ queue[w] \in Seq(Records) /\ Len(queue[w]) \in Nat
           /\ batch[w] \in Seq(Records) /\ Len(batch[w]) \in Nat
           /\ durable[w] \subseteq Records
           /\ pc[w] \in InBatch => batch[w] # <<>> /\ Head(batch[w]) \in Records
           /\ Len(batch[w]) <= MaxBatch
           /\ Len(queue[w]) + Len(batch[w]) <= MaxRecords + MaxBatch
<1>1. /\ queue[w] \in Seq(Records) /\ batch[w] \in Seq(Records)
      /\ durable[w] \subseteq Records
      /\ pc[w] \in InBatch => batch[w] # <<>>
  BY DEF WriterInvariant, TypeOK
<1>2. Len(queue[w]) \in Nat /\ Len(batch[w]) \in Nat
  BY <1>1, LenProperties
<1>3. pc[w] \in InBatch => Head(batch[w]) \in Records
  BY <1>1, TailFacts
<1>4. QED
  BY <1>1, <1>2, <1>3 DEF WriterInvariant, BatchBounded, QueueBounded

\* The queue of one writer grows only as far as its bound allows.
LEMMA QueueStep ==
    ASSUME WriterInvariant, NEW w \in Writers,
           \A v \in Writers : v # w => queue'[v] = queue[v] /\ batch'[v] = batch[v],
           Len(queue'[w]) + Len(batch'[w]) <= MaxRecords + MaxBatch
    PROVE  QueueBounded'
BY DEF WriterInvariant, QueueBounded

\* One record moves from the batch to the queue, or leaves the batch.
LEMMA NoLonger ==
    ASSUME NEW q \in Nat, NEW b \in Nat, NEW limit \in Nat, q + b <= limit,
           NEW qq \in Nat, qq <= q + 1
    PROVE  qq + (b - 1) <= limit
OBVIOUS

\* One record is put into a queue that is not full.
LEMMA OneMore ==
    ASSUME NEW q \in Nat, NEW b \in Nat, NEW m \in Nat, NEW n \in Nat, q < m, b <= n
    PROVE  q + 1 + b <= m + n
OBVIOUS

\* A recovered queue and a batch are each within their limits.
LEMMA Sum ==
    ASSUME NEW m \in Nat, NEW q \in 0 .. m, NEW b \in Nat, NEW n \in Nat, b <= n
    PROVE  q + b <= m + n
OBVIOUS

\* Steps that only change what the four parts below mention nowhere, or the
\* control of one worker that does not start to rewrite.
LEMMA ControlStep ==
    ASSUME WriterInvariant, NEW w \in Writers, NEW l \in {"stopped", "persist", "check"},
           pc' = [pc EXCEPT ![w] = l], l # "stopped" => pc[w] \in InBatch,
           UNCHANGED <<queue, batch, persisted>>
    PROVE  /\ pc' \in [Writers -> {"down", "next", "stopped"} \cup InBatch]
           /\ queue' \in [Writers -> Seq(Records)]
           /\ batch' \in [Writers -> Seq(Records)]
           /\ \A v \in Writers : pc'[v] \in InBatch => batch'[v] # <<>>
           /\ StoredBeforeRewrite' /\ BatchBounded' /\ QueueBounded'
<1>1. /\ pc' \in [Writers -> {"down", "next", "stopped"} \cup InBatch]
      /\ queue' \in [Writers -> Seq(Records)]
      /\ batch' \in [Writers -> Seq(Records)]
      /\ \A v \in Writers : pc'[v] \in InBatch => batch'[v] # <<>>
  BY DEF WriterInvariant, TypeOK, InBatch
<1>2. StoredBeforeRewrite'
  BY DEF WriterInvariant, TypeOK, StoredBeforeRewrite
<1>3. BatchBounded' /\ QueueBounded'
  BY DEF WriterInvariant, BatchBounded, QueueBounded
<1>4. QED
  BY <1>1, <1>2, <1>3

\* Steps that leave the worker's control, batch and queue alone.
LEMMA QuietStep ==
    ASSUME WriterInvariant, UNCHANGED <<pc, queue, batch, persisted>>
    PROVE  /\ pc' \in [Writers -> {"down", "next", "stopped"} \cup InBatch]
           /\ queue' \in [Writers -> Seq(Records)]
           /\ batch' \in [Writers -> Seq(Records)]
           /\ persisted' \subseteq Records
           /\ \A v \in Writers : pc'[v] \in InBatch => batch'[v] # <<>>
           /\ StoredBeforeRewrite' /\ BatchBounded' /\ QueueBounded'
<1>1. /\ pc' \in [Writers -> {"down", "next", "stopped"} \cup InBatch]
      /\ queue' \in [Writers -> Seq(Records)]
      /\ batch' \in [Writers -> Seq(Records)]
      /\ persisted' \subseteq Records
      /\ \A v \in Writers : pc'[v] \in InBatch => batch'[v] # <<>>
  BY DEF WriterInvariant, TypeOK
<1>2. StoredBeforeRewrite' /\ BatchBounded' /\ QueueBounded'
  BY DEF WriterInvariant, StoredBeforeRewrite, BatchBounded, QueueBounded
<1>3. QED
  BY <1>1, <1>2

\* The parts of TypeOK that the control of a worker is not in.
RestTyped ==
    /\ durable \in [Writers -> SUBSET Records] /\ seen \in [Writers -> Seq(Receipts)]
    /\ stopping \in [Writers -> BOOLEAN] /\ degraded \in [Writers -> BOOLEAN]
    /\ acked \in [Writers -> SUBSET Records]
    /\ submitted \subseteq Records /\ journal \subseteq Records
    /\ bad \in Nat /\ torn \in BOOLEAN /\ persisted \subseteq Records

LEMMA RestOfInvariant ==
    ASSUME WriterInvariant PROVE RestTyped
BY DEF WriterInvariant, TypeOK, RestTyped

\* Stopping and the answers that put nothing into the queue.
LEMMA QuietActionsKeep ==
    ASSUME WriterInvariant, NEW w \in Writers,
           \/ Stop(w) \/ StopReturns(w)
           \/ \E r \in Records : SubmitRefused(w, r) \/ SubmitDeduped(w, r)
    PROVE  WriterInvariant'
<1>1. UNCHANGED <<pc, queue, batch, persisted>>
  BY DEF Stop, StopReturns, SubmitRefused, SubmitDeduped, disk
<1>2. RestTyped'
  <2>1. RestTyped
    BY RestOfInvariant
  <2>2. CASE Stop(w)
    BY <2>1, <2>2 DEF RestTyped, Stop, disk
  <2>3. CASE StopReturns(w)
    BY <2>1, <2>3 DEF RestTyped, StopReturns, disk
  <2>4. CASE \E r \in Records : SubmitRefused(w, r) \/ SubmitDeduped(w, r)
    BY <2>1, <2>4 DEF RestTyped, SubmitRefused, SubmitDeduped, disk
  <2>5. QED
    BY <2>2, <2>3, <2>4
<1>3. QED
  BY <1>1, <1>2, QuietStep DEF WriterInvariant, TypeOK, RestTyped

\* The worker's steps between two changes of the disk, and Journal.
LEMMA ControlActionsKeep ==
    ASSUME WriterInvariant, NEW w \in Writers,
           Drained(w) \/ InTime(w) \/ DrainExpired(w) \/ Journal(w)
    PROVE  WriterInvariant'
<1>1. RestTyped
  BY RestOfInvariant
<1>2. CASE Drained(w) \/ InTime(w) \/ DrainExpired(w)
  <2>1. RestTyped'
    BY <1>1, <1>2 DEF RestTyped, Drained, InTime, DrainExpired, disk
  <2>2. PICK l \in {"stopped", "persist", "check"} :
            pc' = [pc EXCEPT ![w] = l] /\ (l # "stopped" => pc[w] \in InBatch)
    BY <1>2 DEF Drained, InTime, DrainExpired, InBatch
  <2>3. UNCHANGED <<queue, batch, persisted>>
    BY <1>2 DEF Drained, InTime, DrainExpired, disk
  <2>4. QED
    BY <2>1, <2>2, <2>3, ControlStep DEF WriterInvariant, TypeOK, RestTyped
<1>3. CASE Journal(w)
  <2>1. pc[w] \in InBatch /\ Head(batch[w]) \in Records
    BY <1>3, Types DEF Journal, InBatch
  <2>2. RestTyped'
    <3>1. CASE Head(batch[w]) \in durable[w]
      BY <1>1, <1>3, <3>1 DEF RestTyped, Journal
    <3>2. CASE Head(batch[w]) \notin durable[w]
      <4>1. /\ AppendLine(Head(batch[w]))
            /\ durable' = [durable EXCEPT ![w] = durable[w] \cup {Head(batch[w])}]
            /\ UNCHANGED <<seen, stopping, degraded, acked, submitted, persisted>>
        BY <1>3, <3>2 DEF Journal
      <4>2. journal' \subseteq Records /\ bad' \in Nat
        BY <1>1, <2>1, <4>1 DEF RestTyped, AppendLine
      <4>3. torn' \in BOOLEAN
        BY <4>1 DEF AppendLine
      <4>4. durable' \in [Writers -> SUBSET Records]
        BY <1>1, <2>1, <4>1 DEF RestTyped
      <4>5. QED
        BY <1>1, <4>1, <4>2, <4>3, <4>4 DEF RestTyped
    <3>3. QED
      BY <3>1, <3>2
  <2>3. pc' = [pc EXCEPT ![w] = "check"] /\ UNCHANGED <<queue, batch, persisted>>
    BY <1>3 DEF Journal
  <2>4. QED
    BY <2>1, <2>2, <2>3, ControlStep DEF WriterInvariant, TypeOK, RestTyped
<1>4. QED
  BY <1>2, <1>3

\* The steps that end the work on a record.
LEMMA NextRecordActionsKeep ==
    ASSUME WriterInvariant, NEW w \in Writers,
           JournalFails(w) \/ PersistFails(w) \/ Rewrite(w) \/ RewriteFails(w)
    PROVE  WriterInvariant'
<1>1. pc[w] \in InBatch /\ NextRecord(w) /\ UNCHANGED persisted
  BY DEF JournalFails, PersistFails, Rewrite, RewriteFails, InBatch, disk
<1>2. RestTyped'
  <2>1. RestTyped
    BY RestOfInvariant
  <2>2. CASE JournalFails(w)
    BY <2>1, <2>2 DEF RestTyped, JournalFails, disk
  <2>3. CASE PersistFails(w)
    BY <2>1, <2>3 DEF RestTyped, PersistFails, disk
  <2>4. CASE Rewrite(w)
    <3>1. degraded' \in [Writers -> BOOLEAN]
      BY <2>1, <2>4, Zenon DEF RestTyped, Rewrite
    <3>2. QED
      BY <2>1, <2>4, <3>1 DEF RestTyped, Rewrite, RewriteWithout
  <2>5. CASE RewriteFails(w)
    <3>1. CASE UNCHANGED <<journal, bad, torn>>
      BY <2>1, <2>5, <3>1 DEF RestTyped, RewriteFails
    <3>2. CASE RewriteWithout(Head(batch[w]))
      BY <2>1, <2>5, <3>2 DEF RestTyped, RewriteFails, RewriteWithout
    <3>3. QED
      BY <2>5, <3>1, <3>2 DEF RewriteFails
  <2>6. QED
    BY <2>2, <2>3, <2>4, <2>5
<1>3. /\ pc' \in [Writers -> {"down", "next", "stopped"} \cup InBatch]
      /\ batch' \in [Writers -> Seq(Records)]
      /\ \A v \in Writers : pc'[v] \in InBatch => batch'[v] # <<>>
      /\ \A v \in Writers : v # w => pc'[v] = pc[v] /\ batch'[v] = batch[v]
      /\ pc'[w] # "rewrite"
      /\ Len(batch'[w]) = Len(batch[w]) - 1
      /\ Head(batch[w]) \in Records
      /\ BatchBounded'
  BY <1>1, NextRecordFacts
<1>4. StoredBeforeRewrite'
  BY <1>1, <1>3 DEF WriterInvariant, StoredBeforeRewrite
<1>5. /\ queue' \in [Writers -> Seq(Records)]
      /\ \A v \in Writers : v # w => queue'[v] = queue[v]
      /\ Len(queue'[w]) <= Len(queue[w]) + 1 /\ Len(queue'[w]) \in Nat
  <2>1. /\ queue \in [Writers -> Seq(Records)]
        /\ queue[w] \in Seq(Records) /\ Len(queue[w]) \in Nat
    BY Types DEF WriterInvariant, TypeOK
  <2>2. CASE queue' = queue
    BY <2>1, <2>2
  <2>3. CASE queue' = [queue EXCEPT ![w] = Append(queue[w], Head(batch[w]))]
    BY <1>3, <2>1, <2>3, AppendProperties
  <2>4. queue' = queue \/ queue' = [queue EXCEPT ![w] = Append(queue[w], Head(batch[w]))]
    <3>1. CASE PersistFails(w)
      <4>1. CASE stopping[w]
        BY <2>1, <3>1, <4>1 DEF PersistFails
      <4>2. CASE ~stopping[w]
        BY <3>1, <4>2 DEF PersistFails
      <4>3. QED
        BY <4>1, <4>2
    <3>2. CASE ~PersistFails(w)
      BY <3>2 DEF JournalFails, Rewrite, RewriteFails
    <3>3. QED
      BY <3>1, <3>2
  <2>5. QED
    BY <2>2, <2>3, <2>4
<1>6. QueueBounded'
  <2>1. /\ Len(queue[w]) \in Nat /\ Len(batch[w]) \in Nat
        /\ Len(queue[w]) + Len(batch[w]) <= MaxRecords + MaxBatch
        /\ MaxRecords \in Nat /\ MaxBatch \in Nat
    BY Types, ConstantFacts
  <2>2. Len(queue'[w]) + Len(batch'[w]) <= MaxRecords + MaxBatch
    <3>1. MaxRecords + MaxBatch \in Nat
      BY <2>1
    <3>2. Len(queue'[w]) + (Len(batch[w]) - 1) <= MaxRecords + MaxBatch
      BY <1>5, <2>1, <3>1, NoLonger
    <3>3. QED
      BY <1>3, <3>2
  <2>3. QED
    BY <1>3, <1>5, <2>2, QueueStep
<1>7. QED
  BY <1>2, <1>3, <1>4, <1>5, <1>6 DEF WriterInvariant, TypeOK, RestTyped

LEMMA PersistKeeps ==
    ASSUME WriterInvariant, NEW w \in Writers, Persist(w)
    PROVE  WriterInvariant'
<1>1. RestTyped /\ pc[w] \in InBatch /\ Head(batch[w]) \in Records
  BY RestOfInvariant, Types DEF Persist, Insert, InBatch
<1>2. RestTyped'
  BY <1>1 DEF RestTyped, Persist, Insert
<1>3. /\ pc' \in [Writers -> {"down", "next", "stopped"} \cup InBatch]
      /\ queue' \in [Writers -> Seq(Records)]
      /\ batch' \in [Writers -> Seq(Records)]
      /\ \A v \in Writers : pc'[v] \in InBatch => batch'[v] # <<>>
  BY <1>1 DEF WriterInvariant, TypeOK, Persist, Insert, InBatch
<1>4. StoredBeforeRewrite'
  BY DEF WriterInvariant, TypeOK, StoredBeforeRewrite, Persist, Insert
<1>5. BatchBounded' /\ QueueBounded'
  BY DEF WriterInvariant, BatchBounded, QueueBounded, Persist, Insert
<1>6. QED
  BY <1>2, <1>3, <1>4, <1>5 DEF WriterInvariant, TypeOK, RestTyped

LEMMA TakeBatchKeeps ==
    ASSUME WriterInvariant, NEW w \in Writers, TakeBatch(w)
    PROVE  WriterInvariant'
<1>1. RestTyped'
  BY RestOfInvariant DEF RestTyped, TakeBatch, disk
<1>2. /\ queue[w] \in Seq(Records) /\ queue[w] # <<>> /\ Len(queue[w]) \in Nat \ {0}
      /\ MaxBatch \in Nat \ {0} /\ MaxRecords \in Nat
      /\ Len(queue[w]) + Len(batch[w]) <= MaxRecords + MaxBatch
      /\ Len(batch[w]) \in Nat
  BY Types, TailFacts, ConstantFacts DEF TakeBatch
<1>3. PICK n \in 1 .. Len(queue[w]) :
          /\ n <= MaxBatch
          /\ batch' = [batch EXCEPT ![w] = SubSeq(queue[w], 1, n)]
          /\ queue' = [queue EXCEPT ![w] = SubSeq(queue[w], n + 1, Len(queue[w]))]
  <2> DEFINE n == IF Len(queue[w]) < MaxBatch THEN Len(queue[w]) ELSE MaxBatch
  <2>1. /\ batch' = [batch EXCEPT ![w] = SubSeq(queue[w], 1, n)]
        /\ queue' = [queue EXCEPT ![w] = SubSeq(queue[w], n + 1, Len(queue[w]))]
    BY DEF TakeBatch
  <2>2. n \in 1 .. Len(queue[w]) /\ n <= MaxBatch
    BY <1>2
  <2> HIDE DEF n
  <2>3. QED
    BY <2>1, <2>2
<1>4. /\ SubSeq(queue[w], 1, n) \in Seq(Records) /\ Len(SubSeq(queue[w], 1, n)) = n
      /\ SubSeq(queue[w], 1, n) # <<>>
      /\ SubSeq(queue[w], n + 1, Len(queue[w])) \in Seq(Records)
      /\ Len(SubSeq(queue[w], n + 1, Len(queue[w]))) = Len(queue[w]) - n
  BY <1>2, SplitFacts
<1>5. /\ batch' \in [Writers -> Seq(Records)] /\ batch'[w] = SubSeq(queue[w], 1, n)
      /\ queue' \in [Writers -> Seq(Records)]
      /\ queue'[w] = SubSeq(queue[w], n + 1, Len(queue[w]))
      /\ \A v \in Writers : v # w => queue'[v] = queue[v] /\ batch'[v] = batch[v]
  BY <1>3, <1>4 DEF WriterInvariant, TypeOK
<1>6. /\ pc' \in [Writers -> {"down", "next", "stopped"} \cup InBatch]
      /\ pc'[w] = "journal" /\ \A v \in Writers : v # w => pc'[v] = pc[v]
  BY DEF WriterInvariant, TypeOK, TakeBatch, InBatch
<1>7. \A v \in Writers : pc'[v] \in InBatch => batch'[v] # <<>>
  BY <1>4, <1>5, <1>6 DEF WriterInvariant, TypeOK
<1>8. persisted' = persisted
  BY DEF TakeBatch, disk
<1>9. StoredBeforeRewrite'
  BY <1>5, <1>6, <1>8 DEF WriterInvariant, StoredBeforeRewrite
<1>10. BatchBounded'
  BY <1>3, <1>4, <1>5 DEF WriterInvariant, BatchBounded
<1>11. QueueBounded'
  <2>1. Len(queue'[w]) + Len(batch'[w]) <= MaxRecords + MaxBatch
    BY <1>2, <1>3, <1>4, <1>5
  <2>2. QED
    BY <1>5, <2>1, QueueStep
<1>12. QED
  BY <1>1, <1>5, <1>6, <1>7, <1>9, <1>10, <1>11 DEF WriterInvariant, TypeOK, RestTyped

LEMMA SubmitAcceptedKeeps ==
    ASSUME WriterInvariant, NEW w \in Writers, NEW r \in Records, SubmitAccepted(w, r)
    PROVE  WriterInvariant'
<1>1. RestTyped'
  <2>1. RestTyped /\ seen[w] \in Seq(Receipts)
    BY RestOfInvariant DEF RestTyped
  <2>2. Remember(seen[w], r) \in Seq(Receipts)
    BY <2>1, RememberFacts
  <2>3. QED
    BY <2>1, <2>2 DEF RestTyped, SubmitAccepted, disk
<1>2. UNCHANGED <<pc, batch, persisted>>
  BY DEF SubmitAccepted, disk
<1>3. /\ Append(queue[w], r) \in Seq(Records)
      /\ Len(Append(queue[w], r)) = Len(queue[w]) + 1
  BY Types, AppendProperties
<1>4. /\ queue' \in [Writers -> Seq(Records)] /\ queue'[w] = Append(queue[w], r)
      /\ \A v \in Writers : v # w => queue'[v] = queue[v]
  BY <1>3 DEF WriterInvariant, TypeOK, SubmitAccepted
<1>5. Len(queue'[w]) + Len(batch'[w]) <= MaxRecords + MaxBatch
  <2>1. /\ Len(queue[w]) \in Nat /\ Len(batch[w]) \in Nat /\ Len(batch[w]) <= MaxBatch
        /\ MaxRecords \in Nat /\ MaxBatch \in Nat
    BY Types, ConstantFacts
  <2>2. Len(queue[w]) < MaxRecords
    BY DEF SubmitAccepted
  <2>3. Len(queue'[w]) = Len(queue[w]) + 1 /\ Len(batch'[w]) = Len(batch[w])
    BY <1>2, <1>3, <1>4
  <2>4. Len(queue[w]) + 1 + Len(batch[w]) <= MaxRecords + MaxBatch
    BY <2>1, <2>2, OneMore
  <2>5. QED
    BY <2>3, <2>4
<1>6. QueueBounded'
  BY <1>2, <1>4, <1>5, QueueStep
<1>7. StoredBeforeRewrite' /\ BatchBounded'
  BY <1>2 DEF WriterInvariant, StoredBeforeRewrite, BatchBounded
<1>8. QED
  BY <1>1, <1>2, <1>4, <1>6, <1>7 DEF WriterInvariant, TypeOK, RestTyped

\* A recovered queue is within max_records, whatever the journal holds.
LEMMA StartKeeps ==
    ASSUME WriterInvariant, NEW w \in Writers, Start(w)
    PROVE  WriterInvariant'
<1>1. UNCHANGED <<batch, persisted, stopping, acked, submitted, journal, bad, torn>>
  BY DEF Start, disk
<1>2. RestTyped
  BY RestOfInvariant
<1>3. /\ queue' \in [Writers -> Seq(Records)]
      /\ \A v \in Writers : v # w => queue'[v] = queue[v]
      /\ queue'[w] = queue[w] \/ Len(queue'[w]) \in 0 .. MaxRecords
      /\ durable' \in [Writers -> SUBSET Records] /\ seen' \in [Writers -> Seq(Receipts)]
      /\ degraded' \in [Writers -> BOOLEAN]
  <2>1. queue \in [Writers -> Seq(Records)]
    BY DEF WriterInvariant, TypeOK
  <2>2. CASE Oversize
    <3>1. /\ UNCHANGED <<queue, durable, seen>>
          /\ degraded' = [degraded EXCEPT ![w] = TRUE]
      BY <2>2 DEF Start
    <3>2. QED
      BY <1>2, <2>1, <3>1 DEF RestTyped
  <2>3. CASE ~Oversize
    <3>1. PICK q \in Orders(journal), twice \in BOOLEAN :
              /\ queue' = [queue EXCEPT ![w] = q]
              /\ durable' = [durable EXCEPT ![w] = Elements(q)]
              /\ degraded' = [degraded EXCEPT ![w] =
                                 twice \/ Elements(q) # journal \/ bad > 0 \/ torn]
      BY <2>3, Zenon DEF Start
    <3>2. q \in Seq(journal) /\ Len(q) <= MaxRecords /\ Elements(q) \subseteq journal
      BY <3>1, OrdersFacts, ConstantFacts
    <3>3. q \in Seq(Records) /\ Len(q) \in Nat /\ Elements(q) \subseteq Records
      <4>1. journal \subseteq Records
        BY <1>2 DEF RestTyped
      <4>2. QED
        BY <3>2, <4>1, SeqMonotonic, LenProperties
    <3>4. degraded' \in [Writers -> BOOLEAN]
      BY <1>2, <3>1, Zenon DEF RestTyped
    <3>5. queue' \in [Writers -> Seq(Records)] /\ queue'[w] = q
          /\ \A v \in Writers : v # w => queue'[v] = queue[v]
      BY <2>1, <3>1, <3>3
    <3>6. durable' \in [Writers -> SUBSET Records]
      BY <1>2, <3>1, <3>3 DEF RestTyped
    <3>7. Len(queue'[w]) \in 0 .. MaxRecords
      BY <3>2, <3>3, <3>5, ConstantFacts
    <3>8. seen' \in [Writers -> Seq(Receipts)]
      <4>1. PICK s \in Orders(Receipts) : seen' = [seen EXCEPT ![w] = s]
        BY <2>3, Zenon DEF Start
      <4>2. s \in Seq(Receipts)
        BY <4>1, OrdersFacts, ConstantFacts
      <4>3. QED
        BY <1>2, <4>1, <4>2 DEF RestTyped
    <3>9. QED
      BY <3>4, <3>5, <3>6, <3>7, <3>8
  <2>4. QED
    BY <2>2, <2>3
<1>4. RestTyped'
  BY <1>1, <1>2, <1>3 DEF RestTyped
<1>5. /\ pc' \in [Writers -> {"down", "next", "stopped"} \cup InBatch]
      /\ pc'[w] = "next" /\ \A v \in Writers : v # w => pc'[v] = pc[v]
  BY DEF WriterInvariant, TypeOK, Start
<1>6. /\ batch' \in [Writers -> Seq(Records)]
      /\ \A v \in Writers : pc'[v] \in InBatch => batch'[v] # <<>>
  BY <1>1, <1>5 DEF WriterInvariant, TypeOK, InBatch
<1>7. StoredBeforeRewrite' /\ BatchBounded'
  BY <1>1, <1>5 DEF WriterInvariant, StoredBeforeRewrite, BatchBounded
<1>8. QueueBounded'
  <2>1. /\ Len(queue[w]) \in Nat /\ Len(batch[w]) \in Nat /\ Len(batch[w]) <= MaxBatch
        /\ Len(queue[w]) + Len(batch[w]) <= MaxRecords + MaxBatch
        /\ MaxRecords \in Nat /\ MaxBatch \in Nat
    BY Types, ConstantFacts
  <2>2. Len(queue'[w]) + Len(batch'[w]) <= MaxRecords + MaxBatch
    <3>1. Len(batch'[w]) = Len(batch[w])
      BY <1>1
    <3>2. CASE queue'[w] = queue[w]
      BY <2>1, <3>1, <3>2
    <3>3. CASE Len(queue'[w]) \in 0 .. MaxRecords
      <4>1. Len(queue'[w]) + Len(batch[w]) <= MaxRecords + MaxBatch
        BY <2>1, <3>3, Sum
      <4>2. QED
        BY <3>1, <4>1
    <3>4. QED
      BY <1>3, <3>2, <3>3
  <2>3. QED
    BY <1>1, <1>3, <2>2, QueueStep
<1>9. QED
  BY <1>3, <1>4, <1>5, <1>6, <1>7, <1>8 DEF WriterInvariant, TypeOK, RestTyped

LEMMA DownKeeps ==
    ASSUME WriterInvariant, NEW w \in Writers, Down(w)
    PROVE  WriterInvariant'
<1>1. <<>> \in Seq(Records) /\ Len(<<>>) = 0
  BY EmptySeq
<1>2. RestTyped'
  <2>1. torn' \in BOOLEAN
    BY RestOfInvariant DEF RestTyped, Down
  <2>2. QED
    BY <2>1, RestOfInvariant DEF RestTyped, Down
<1>3. /\ pc' \in [Writers -> {"down", "next", "stopped"} \cup InBatch]
      /\ pc'[w] = "down" /\ \A v \in Writers : v # w => pc'[v] = pc[v]
      /\ queue' \in [Writers -> Seq(Records)] /\ queue'[w] = <<>>
      /\ batch' \in [Writers -> Seq(Records)] /\ batch'[w] = <<>>
      /\ \A v \in Writers : v # w => queue'[v] = queue[v] /\ batch'[v] = batch[v]
      /\ persisted' = persisted
  BY <1>1 DEF WriterInvariant, TypeOK, Down
<1>4. \A v \in Writers : pc'[v] \in InBatch => batch'[v] # <<>>
  BY <1>3 DEF WriterInvariant, TypeOK, InBatch
<1>5. StoredBeforeRewrite'
  BY <1>3 DEF WriterInvariant, StoredBeforeRewrite
<1>6. BatchBounded'
  <2>1. SUFFICES ASSUME NEW v \in Writers PROVE Len(batch'[v]) <= MaxBatch
    BY DEF BatchBounded
  <2>2. CASE v = w
    BY <1>1, <1>3, <2>2, ConstantFacts
  <2>3. CASE v # w
    BY <1>3, <2>3 DEF WriterInvariant, BatchBounded
  <2>4. QED
    BY <2>2, <2>3
<1>7. QueueBounded'
  BY <1>1, <1>3, ConstantFacts, QueueStep
<1>8. QED
  BY <1>2, <1>3, <1>4, <1>5, <1>6, <1>7 DEF WriterInvariant, TypeOK, RestTyped

----------------------------------------------------------------------------
(* The theorems.                                                           *)

LEMMA InitWriter == Init => WriterInvariant /\ WholeLines
<1> SUFFICES ASSUME Init PROVE WriterInvariant /\ WholeLines
  OBVIOUS
<1>2. <<>> \in Seq(Records) /\ <<>> \in Seq(Receipts) /\ Len(<<>>) = 0
  BY EmptySeq
<1>3. TypeOK
  BY <1>2 DEF Init, TypeOK, InBatch
<1>4. StoredBeforeRewrite /\ WholeLines
  BY DEF Init, StoredBeforeRewrite, WholeLines
<1>5. BatchBounded /\ QueueBounded
  BY <1>2, ConstantFacts DEF Init, BatchBounded, QueueBounded
<1>6. QED
  BY <1>3, <1>4, <1>5 DEF WriterInvariant

LEMMA WriterStep == WriterInvariant /\ [Next]_vars => WriterInvariant'
<1> SUFFICES ASSUME WriterInvariant, [Next]_vars PROVE WriterInvariant'
  OBVIOUS
<1>2. CASE UNCHANGED vars
  <2>1. RestTyped'
    BY <1>2, RestOfInvariant DEF RestTyped, vars, memory, disk
  <2>2. UNCHANGED <<pc, queue, batch, persisted>>
    BY <1>2 DEF vars, memory, disk
  <2>3. QED
    BY <2>1, <2>2, QuietStep DEF WriterInvariant, TypeOK, RestTyped
<1>3. CASE \E w \in Writers : Worker(w)
  BY <1>3, TakeBatchKeeps, ControlActionsKeep, NextRecordActionsKeep, PersistKeeps
  DEF Worker
<1>4. CASE \E w \in Writers : Start(w) \/ Down(w) \/ Stop(w) \/ StopReturns(w)
  BY <1>4, StartKeeps, DownKeeps, QuietActionsKeep
<1>5. CASE \E w \in Writers, r \in Records :
              SubmitAccepted(w, r) \/ SubmitRefused(w, r) \/ SubmitDeduped(w, r)
  BY <1>5, SubmitAcceptedKeeps, QuietActionsKeep
<1>6. QED
  BY <1>2, <1>3, <1>4, <1>5 DEF Next

\* The inductive invariant of the writers holds under every fault.
THEOREM WriterInvariantHolds == Spec => []WriterInvariant
BY InitWriter, WriterStep, PTL DEF Spec

\* Queues, batches, the journal and the table stay well typed.
THEOREM WriterTyped == Spec => []TypeOK
<1>1. WriterInvariant => TypeOK
  BY DEF WriterInvariant
<1>2. QED
  BY <1>1, WriterInvariantHolds, PTL

\* QueueCapped fails, but never by more than a batch: retries cannot make the
\* queue grow without bound.
THEOREM QueueStaysBounded == Spec => []QueueBounded
<1>1. WriterInvariant => QueueBounded
  BY DEF WriterInvariant
<1>2. QED
  BY <1>1, WriterInvariantHolds, PTL

\* What leaves the journal in a step is in SQLite.
LEMMA JournalStep ==
    WriterInvariant /\ [Next]_vars => [\A r \in journal \ journal' : r \in persisted]_vars
<1> SUFFICES ASSUME WriterInvariant, Next
             PROVE  \A r \in journal \ journal' : r \in persisted
  OBVIOUS
<1>2. CASE \E w \in Writers : Rewrite(w) \/ RewriteFails(w)
  <2>1. PICK w \in Writers : Rewrite(w) \/ RewriteFails(w)
    BY <1>2
  <2>2. journal' = journal \/ journal' = journal \ {Head(batch[w])}
    BY <2>1 DEF Rewrite, RewriteFails, RewriteWithout
  <2>3. Head(batch[w]) \in persisted
    BY <2>1 DEF Rewrite, RewriteFails, WriterInvariant, StoredBeforeRewrite
  <2>4. QED
    BY <2>2, <2>3
<1>3. CASE \E w \in Writers : Journal(w)
  BY <1>3 DEF Journal, AppendLine
<1>4. CASE \E w \in Writers :
              \/ TakeBatch(w) \/ Drained(w) \/ JournalFails(w) \/ InTime(w)
              \/ DrainExpired(w) \/ Persist(w) \/ PersistFails(w)
  BY <1>4 DEF TakeBatch, Drained, JournalFails, InTime, DrainExpired, Persist, Insert,
              PersistFails, disk
<1>5. CASE \E w \in Writers : Start(w) \/ Down(w) \/ Stop(w) \/ StopReturns(w)
  BY <1>5 DEF Start, Down, Stop, StopReturns, disk
<1>6. CASE \E w \in Writers, r \in Records :
              SubmitAccepted(w, r) \/ SubmitRefused(w, r) \/ SubmitDeduped(w, r)
  BY <1>6 DEF SubmitAccepted, SubmitRefused, SubmitDeduped, disk
<1>7. QED
  BY <1>2, <1>3, <1>4, <1>5, <1>6 DEF Next, Worker

\* No writer's rewrite, failure or death takes a line out of the journal whose
\* record SQLite does not have.
THEOREM JournalNeverForgetsHolds == Spec => JournalNeverForgets
BY WriterInvariantHolds, JournalStep, PTL DEF Spec, JournalNeverForgets

\* A step of a system whose appends are never cut keeps the file whole and
\* what is durable recoverable.
LEMMA DurableStep ==
    ASSUME "torn" \notin Faults
    PROVE  WriterInvariant /\ WholeLines /\ DurableIsRecoverable /\ [Next]_vars
           => WholeLines' /\ DurableIsRecoverable'
<1> SUFFICES ASSUME WriterInvariant, WholeLines, DurableIsRecoverable, [Next]_vars
             PROVE  WholeLines' /\ DurableIsRecoverable'
  OBVIOUS
<1>1. durable \in [Writers -> SUBSET Records] /\ torn = FALSE
  BY DEF WriterInvariant, TypeOK, WholeLines
<1>2. CASE \E w \in Writers : Rewrite(w) \/ RewriteFails(w)
  <2>1. PICK w \in Writers : Rewrite(w) \/ RewriteFails(w)
    BY <1>2
  <2>2. journal' = journal \/ journal' = journal \ {Head(batch[w])}
    BY <2>1 DEF Rewrite, RewriteFails, RewriteWithout
  <2>3. Head(batch[w]) \in persisted /\ UNCHANGED <<durable, persisted>>
    BY <2>1 DEF Rewrite, RewriteFails, WriterInvariant, StoredBeforeRewrite
  <2>4. WholeLines'
    BY <1>1, <2>1 DEF Rewrite, RewriteFails, RewriteWithout, WholeLines
  <2>5. QED
    BY <2>2, <2>3, <2>4 DEF DurableIsRecoverable
<1>3. CASE \E w \in Writers : Journal(w)
  <2>1. PICK w \in Writers : Journal(w)
    BY <1>3
  <2>2. CASE Head(batch[w]) \in durable[w]
    BY <2>1, <2>2 DEF Journal, WholeLines, DurableIsRecoverable
  <2>3. CASE Head(batch[w]) \notin durable[w]
    <3>1. /\ durable' = [durable EXCEPT ![w] = durable[w] \cup {Head(batch[w])}]
          /\ journal' = journal \cup {Head(batch[w])}
          /\ torn' = FALSE /\ persisted' = persisted
      BY <1>1, <2>1, <2>3 DEF Journal, AppendLine
    <3>2. QED
      BY <1>1, <3>1 DEF WholeLines, DurableIsRecoverable
  <2>4. QED
    BY <2>2, <2>3
<1>4. CASE \E w \in Writers : Persist(w)
  BY <1>1, <1>4 DEF Persist, Insert, WholeLines, DurableIsRecoverable
<1>5. CASE \E w \in Writers : Start(w)
  <2>1. PICK w \in Writers : Start(w)
    BY <1>5
  <2>2. UNCHANGED <<journal, torn, persisted>>
    BY <2>1 DEF Start, disk
  <2>3. \/ durable' = durable
        \/ \E q \in Orders(journal) : durable' = [durable EXCEPT ![w] = Elements(q)]
    BY <2>1, Zenon DEF Start
  <2>4. \A q \in Orders(journal) : Elements(q) \subseteq journal
    BY OrdersFacts, ConstantFacts
  <2>5. QED
    BY <1>1, <2>2, <2>3, <2>4 DEF WholeLines, DurableIsRecoverable
<1>6. CASE \E w \in Writers : Down(w)
  <2>1. PICK w \in Writers : Down(w)
    BY <1>6
  <2>2. /\ durable' = [durable EXCEPT ![w] = {}]
        /\ UNCHANGED <<journal, persisted, torn>>
    BY <2>1 DEF Down
  <2>3. QED
    BY <1>1, <2>2 DEF WholeLines, DurableIsRecoverable
<1>7. CASE UNCHANGED <<durable, journal, torn, persisted>>
  BY <1>7 DEF WholeLines, DurableIsRecoverable
<1>8. CASE \E w \in Writers :
              \/ TakeBatch(w) \/ Drained(w) \/ JournalFails(w) \/ InTime(w)
              \/ DrainExpired(w) \/ PersistFails(w) \/ Stop(w) \/ StopReturns(w)
  BY <1>7, <1>8 DEF TakeBatch, Drained, JournalFails, InTime, DrainExpired,
                    PersistFails, Stop, StopReturns, disk
<1>9. CASE \E w \in Writers, r \in Records :
              SubmitAccepted(w, r) \/ SubmitRefused(w, r) \/ SubmitDeduped(w, r)
  BY <1>7, <1>9 DEF SubmitAccepted, SubmitRefused, SubmitDeduped, disk
<1>10. CASE UNCHANGED vars
  BY <1>7, <1>10 DEF vars, memory, disk
<1>11. QED
  BY <1>2, <1>3, <1>4, <1>5, <1>6, <1>8, <1>9, <1>10 DEF Next, Worker

\* If no process dies in the middle of an append, every record that a writer
\* calls durable has a readable line in the journal or is in SQLite.
THEOREM DurableIsRecoverableHolds ==
    ASSUME "torn" \notin Faults
    PROVE  Spec => []DurableIsRecoverable
<1>1. Init => DurableIsRecoverable
  BY DEF Init, DurableIsRecoverable
<1>2. QED
  BY <1>1, InitWriter, WriterInvariantHolds, DurableStep, PTL DEF Spec

----------------------------------------------------------------------------
(* Loss of evidence is never silent.                                       *)

\* A worker outside the batch loop has no batch, a process that is down has
\* answered nothing, and a worker ends only when its writer is stopping.
Resting ==
    \A w \in Writers :
        /\ pc[w] \in {"next", "down"} => batch[w] = <<>>
        /\ pc[w] = "down" => acked[w] = {}
        /\ pc[w] = "stopped" => stopping[w]

\* What has been answered True, or would be: a receipt in _receipt_seen.
Answered(w) == acked[w] \cup Elements(seen[w])

Held(w) == persisted \cup journal \cup InMemory(w)

AnswersHeld == \A w \in Writers : ~degraded[w] => Answered(w) \subseteq Held(w)

LEMMA EmptyElements == Elements(<<>>) = {}
BY DEF Elements

\* Only a worker that is idle, and empties its batch, comes to rest.
LEMMA RestingStep == WriterInvariant /\ Resting /\ [Next]_vars => Resting'
<1> SUFFICES ASSUME WriterInvariant, Resting, [Next]_vars PROVE Resting'
  OBVIOUS
<1> SUFFICES ASSUME NEW v \in Writers
             PROVE  /\ pc'[v] \in {"next", "down"} => batch'[v] = <<>>
                    /\ pc'[v] = "down" => acked'[v] = {}
                    /\ pc'[v] = "stopped" => stopping'[v]
  BY DEF Resting
<1>1. /\ pc \in [Writers -> {"down", "next", "stopped"} \cup InBatch]
      /\ batch \in [Writers -> Seq(Records)] /\ acked \in [Writers -> SUBSET Records]
      /\ stopping \in [Writers -> BOOLEAN]
  BY DEF WriterInvariant, TypeOK
<1>2. /\ pc[v] \in {"next", "down"} => batch[v] = <<>>
      /\ pc[v] = "down" => acked[v] = {}
      /\ pc[v] = "stopped" => stopping[v]
  BY DEF Resting
<1>3. CASE UNCHANGED <<pc, batch, acked, stopping>>
  BY <1>2, <1>3
<1>4. CASE \E w \in Writers : NextRecord(w) /\ pc[w] \in InBatch /\ UNCHANGED <<acked, stopping>>
  <2>1. PICK w \in Writers : NextRecord(w) /\ pc[w] \in InBatch /\ UNCHANGED <<acked, stopping>>
    BY <1>4
  <2>2. /\ batch[w] \in Seq(Records) /\ batch[w] # <<>>
        /\ Tail(batch[w]) \in Seq(Records) /\ Len(batch[w]) \in Nat \ {0}
        /\ Len(Tail(batch[w])) = Len(batch[w]) - 1
    BY <2>1, Types, TailFacts
  <2>3. Len(batch[w]) <= 1 => Tail(batch[w]) = <<>>
    BY <2>2, EmptySeq
  <2>4. /\ pc'[w] = IF Len(batch[w]) > 1 THEN "journal" ELSE "next"
        /\ batch'[w] = Tail(batch[w])
        /\ v # w => pc'[v] = pc[v] /\ batch'[v] = batch[v]
    BY <1>1, <2>1 DEF NextRecord
  <2>5. CASE v = w
    <3>1. CASE Len(batch[w]) > 1
      BY <2>4, <2>5, <3>1
    <3>2. CASE ~(Len(batch[w]) > 1)
      <4>1. Tail(batch[w]) = <<>>
        BY <2>2, <2>3, <3>2
      <4>2. QED
        BY <2>4, <2>5, <3>2, <4>1
    <3>3. QED
      BY <3>1, <3>2
  <2>6. CASE v # w
    BY <1>2, <2>1, <2>4, <2>6
  <2>7. QED
    BY <2>5, <2>6
<1>5. CASE \E w \in Writers :
              \/ TakeBatch(w) \/ Drained(w) \/ Journal(w) \/ InTime(w)
              \/ DrainExpired(w) \/ Persist(w)
  <2>1. PICK w \in Writers :
              \/ TakeBatch(w) \/ Drained(w) \/ Journal(w) \/ InTime(w)
              \/ DrainExpired(w) \/ Persist(w)
    BY <1>5
  <2>2. UNCHANGED <<acked, stopping>>
    BY <2>1 DEF TakeBatch, Drained, Journal, InTime, DrainExpired, Persist, Insert
  <2>3. CASE TakeBatch(w)
    BY <1>1, <1>2, <2>2, <2>3 DEF TakeBatch
  <2>4. CASE ~TakeBatch(w)
    BY <1>1, <1>2, <2>1, <2>2, <2>4 DEF Drained, Journal, InTime, DrainExpired, Persist, Insert
  <2>5. QED
    BY <2>3, <2>4
<1>6. CASE \E w \in Writers :
              JournalFails(w) \/ PersistFails(w) \/ Rewrite(w) \/ RewriteFails(w)
  BY <1>4, <1>6 DEF JournalFails, PersistFails, Rewrite, RewriteFails, InBatch
<1>7. CASE \E w \in Writers : Start(w)
  BY <1>1, <1>2, <1>7 DEF Start
<1>8. CASE \E w \in Writers : Down(w)
  BY <1>1, <1>2, <1>8 DEF Down
<1>9. CASE \E w \in Writers : Stop(w) \/ StopReturns(w)
  BY <1>1, <1>2, <1>9 DEF Stop, StopReturns
<1>10. CASE \E w \in Writers, r \in Records :
               SubmitAccepted(w, r) \/ SubmitRefused(w, r) \/ SubmitDeduped(w, r)
  BY <1>1, <1>2, <1>10
  DEF SubmitAccepted, SubmitRefused, SubmitDeduped, MaySubmit
<1>11. CASE UNCHANGED vars
  BY <1>3, <1>11 DEF vars, memory
<1>12. QED
  BY <1>5, <1>6, <1>7, <1>8, <1>9, <1>10, <1>11 DEF Next, Worker

\* What SQLite or the journal holds, one of them goes on holding.
LEMMA DiskStep ==
    ASSUME WriterInvariant, [Next]_vars
    PROVE  persisted \cup journal \subseteq persisted' \cup journal'
<1>1. persisted \subseteq persisted'
  <2>1. CASE UNCHANGED vars
    BY <2>1 DEF vars, disk
  <2>2. CASE Next
    BY <2>2 DEF Next, Worker, TakeBatch, Drained, Journal, JournalFails, InTime, DrainExpired,
                Persist, Insert, PersistFails, Rewrite, RewriteFails, Start, Down, Stop, StopReturns,
                SubmitAccepted, SubmitRefused, SubmitDeduped, disk
  <2>3. QED
    BY <2>1, <2>2
<1>2. \A r \in journal \ journal' : r \in persisted
  <2>1. UNCHANGED vars => journal' = journal
    BY DEF vars, disk
  <2>2. QED
    BY <2>1, JournalStep
<1>3. QED
  BY <1>1, <1>2

\* A writer that another one's step does not touch stays as it is.
LEMMA OthersHeld ==
    ASSUME WriterInvariant, [Next]_vars, NEW v \in Writers,
           ~degraded[v] => Answered(v) \subseteq Held(v),
           pc'[v] = pc[v], queue'[v] = queue[v], batch'[v] = batch[v],
           acked'[v] = acked[v], seen'[v] = seen[v], degraded'[v] = degraded[v]
    PROVE  ~degraded'[v] => Answered(v)' \subseteq Held(v)'
<1>1. Answered(v)' = Answered(v) /\ InMemory(v)' = InMemory(v)
  BY DEF Answered, InMemory, Working
<1>2. persisted \cup journal \subseteq persisted' \cup journal'
  BY DiskStep
<1>3. QED
  BY <1>1, <1>2 DEF Held

\* The writer that takes a step holds what it answered, or says it does not.
LEMMA OwnHeld ==
    ASSUME WriterInvariant, Resting, Next, NEW w \in Writers,
           ~degraded[w] => Answered(w) \subseteq Held(w),
           \/ Worker(w) \/ Start(w) \/ Down(w) \/ Stop(w) \/ StopReturns(w)
           \/ \E r \in Records :
                  SubmitAccepted(w, r) \/ SubmitRefused(w, r) \/ SubmitDeduped(w, r)
    PROVE  ~degraded'[w] => Answered(w)' \subseteq Held(w)'
<1>1. persisted \cup journal \subseteq persisted' \cup journal'
  BY DiskStep
<1>2. /\ pc \in [Writers -> {"down", "next", "stopped"} \cup InBatch]
      /\ queue \in [Writers -> Seq(Records)] /\ batch \in [Writers -> Seq(Records)]
      /\ seen \in [Writers -> Seq(Receipts)] /\ acked \in [Writers -> SUBSET Records]
      /\ degraded \in [Writers -> BOOLEAN]
      /\ pc[w] \in {"next", "down"} => batch[w] = <<>>
      /\ pc[w] = "down" => acked[w] = {}
      /\ pc[w] = "stopped" => stopping[w]
  BY DEF WriterInvariant, TypeOK, Resting
<1>3. CASE degraded'[w]
  BY <1>3
<1>4. ASSUME degraded'[w] = degraded[w], Answered(w)' = Answered(w),
             InMemory(w) \subseteq InMemory(w)' \cup persisted' \cup journal'
      PROVE  ~degraded'[w] => Answered(w)' \subseteq Held(w)'
  BY <1>1, <1>4 DEF Held
<1>5. CASE JournalFails(w) \/ PersistFails(w) \/ RewriteFails(w) \/ DrainExpired(w) \/ StopReturns(w)
  <2>1. degraded' = [degraded EXCEPT ![w] = TRUE]
    BY <1>5 DEF JournalFails, PersistFails, RewriteFails, DrainExpired, StopReturns
  <2>2. QED
    BY <1>2, <2>1
<1>6. CASE \E r \in Records : SubmitRefused(w, r)
  <2>1. degraded' = [degraded EXCEPT ![w] = TRUE]
    BY <1>6 DEF SubmitRefused
  <2>2. QED
    BY <1>2, <2>1
<1>7. CASE TakeBatch(w)
  <2>1. UNCHANGED <<acked, seen, degraded>>
    BY <1>7 DEF TakeBatch
  <2>2. InMemory(w) \subseteq InMemory(w)'
    <3>1. pc[w] = "next" /\ batch[w] = <<>>
      BY <1>2, <1>7 DEF TakeBatch
    <3>2. pc'[w] = "journal"
      BY <1>2, <1>7 DEF TakeBatch
    <3>3. /\ queue[w] \in Seq(Records) /\ Len(queue[w]) \in Nat \ {0}
          /\ MaxBatch \in Nat \ {0}
      BY <1>2, <1>7, TailFacts, ConstantFacts DEF TakeBatch
    <3> DEFINE n == IF Len(queue[w]) < MaxBatch THEN Len(queue[w]) ELSE MaxBatch
    <3>4. n \in 1 .. Len(queue[w])
      BY <3>3
    <3>5. /\ batch'[w] = SubSeq(queue[w], 1, n)
          /\ queue'[w] = SubSeq(queue[w], n + 1, Len(queue[w]))
      BY <1>2, <1>7 DEF TakeBatch
    <3> HIDE DEF n
    <3>6. Elements(queue[w]) \subseteq Elements(batch'[w]) \cup Elements(queue'[w])
      BY <3>3, <3>4, <3>5, SplitElements
    <3>7. QED
      BY <3>1, <3>2, <3>6, EmptyElements DEF InMemory, Working, InBatch
  <2>3. QED
    BY <1>4, <2>1, <2>2 DEF Answered
<1>8. CASE Drained(w)
  <2>1. UNCHANGED <<acked, seen, degraded>>
    BY <1>8 DEF Drained
  <2>2. InMemory(w) = {}
    BY <1>2, <1>8, EmptyElements DEF Drained, InMemory, Working
  <2>3. QED
    BY <1>4, <2>1, <2>2 DEF Answered
<1>9. CASE Journal(w) \/ InTime(w) \/ Persist(w)
  <2>1. UNCHANGED <<acked, seen, degraded, queue, batch>>
    BY <1>9 DEF Journal, InTime, Persist, Insert
  <2>2. pc[w] \in InBatch /\ pc'[w] \in InBatch
    BY <1>2, <1>9 DEF Journal, InTime, Persist, Insert, InBatch
  <2>3. InMemory(w)' = InMemory(w)
    BY <2>1, <2>2 DEF InMemory, Working
  <2>4. QED
    BY <1>4, <2>1, <2>3 DEF Answered
<1>10. CASE Rewrite(w)
  <2>1. /\ UNCHANGED <<acked, seen, queue, persisted>> /\ NextRecord(w)
        /\ pc[w] = "rewrite"
    BY <1>10 DEF Rewrite
  <2>2. /\ batch[w] \in Seq(Records) /\ batch[w] # <<>> /\ Head(batch[w]) \in persisted
    BY <2>1 DEF WriterInvariant, TypeOK, StoredBeforeRewrite, InBatch
  <2>3. batch'[w] = Tail(batch[w]) /\ pc'[w] \in {"journal", "next"}
    BY <1>2, <2>1 DEF NextRecord
  <2>4. Elements(batch[w]) \subseteq Elements(batch'[w]) \cup {Head(batch[w])}
    BY <2>2, <2>3, TailElements
  <2>5. InMemory(w) \subseteq InMemory(w)' \cup persisted'
    BY <2>1, <2>2, <2>3, <2>4 DEF InMemory, Working, InBatch
  <2>6. degraded[w] => degraded'[w]
    BY <1>2, <1>10, Zenon DEF Rewrite
  <2>7. CASE degraded[w]
    BY <1>3, <2>6, <2>7
  <2>8. CASE ~degraded[w]
    <3>1. Answered(w)' = Answered(w)
      BY <2>1 DEF Answered
    <3>2. QED
      BY <1>1, <2>5, <2>8, <3>1 DEF Held
  <2>9. QED
    BY <2>7, <2>8
<1>11. CASE Start(w)
  <2>1. UNCHANGED <<acked, journal, persisted>> /\ acked[w] = {} /\ pc'[w] = "next"
    BY <1>2, <1>11 DEF Start, disk
  <2>2. CASE Oversize
    BY <1>2, <1>3, <1>11, <2>2 DEF Start
  <2>3. CASE ~Oversize
    <3>1. PICK q \in Orders(journal), s \in Orders(Receipts) :
              /\ queue' = [queue EXCEPT ![w] = q]
              /\ Filters(q, Receipts, s) /\ seen' = [seen EXCEPT ![w] = s]
      BY <1>11, <2>3, Zenon DEF Start
    <3>2. Elements(seen'[w]) \subseteq Elements(queue'[w])
      BY <1>2, <3>1 DEF Filters
    <3>3. Answered(w)' \subseteq InMemory(w)'
      BY <2>1, <3>2 DEF Answered, InMemory, Working
    <3>4. QED
      BY <3>3 DEF Held
  <2>4. QED
    BY <2>2, <2>3
<1>12. CASE Down(w)
  <2>1. acked'[w] = {} /\ seen'[w] = <<>>
    BY <1>2, <1>12 DEF Down
  <2>2. QED
    BY <2>1, EmptyElements DEF Answered
<1>13. CASE Stop(w)
  BY <1>4, <1>13 DEF Stop, Answered, InMemory, Working
<1>14. CASE \E r \in Records : SubmitAccepted(w, r)
  <2>1. PICK r \in Records : SubmitAccepted(w, r)
    BY <1>14
  <2>2. /\ UNCHANGED <<pc, batch, degraded>>
        /\ pc[w] \in InBatch \cup {"next"}
    BY <1>2, <2>1 DEF SubmitAccepted, MaySubmit
  <2>3. queue'[w] = Append(queue[w], r) /\ acked'[w] = acked[w] \cup {r}
        /\ seen'[w] = Remember(seen[w], r)
    BY <1>2, <2>1 DEF SubmitAccepted
  <2>4. Elements(queue'[w]) = Elements(queue[w]) \cup {r}
    BY <1>2, <2>1, <2>3, AppendElements
  <2>5. Elements(seen'[w]) \subseteq Elements(seen[w]) \cup {r}
    BY <1>2, <2>1, <2>3, RememberFacts
  <2>6. InMemory(w)' = InMemory(w) \cup {r}
    BY <2>2, <2>4 DEF InMemory, Working
  <2>7. Answered(w)' \subseteq Answered(w) \cup {r}
    BY <2>3, <2>5 DEF Answered
  <2>8. QED
    BY <1>1, <2>2, <2>6, <2>7 DEF Held
<1>15. CASE \E r \in Records : SubmitDeduped(w, r)
  <2>1. PICK r \in Records : SubmitDeduped(w, r)
    BY <1>15
  <2>2. /\ UNCHANGED <<pc, queue, batch, seen, degraded>>
        /\ acked'[w] = acked[w] \cup {r} /\ r \in Elements(seen[w])
    BY <1>2, <2>1 DEF SubmitDeduped
  <2>3. Answered(w)' = Answered(w) /\ InMemory(w)' = InMemory(w)
    BY <2>2 DEF Answered, InMemory, Working
  <2>4. QED
    BY <1>4, <2>2, <2>3
<1>16. QED
  BY <1>5, <1>6, <1>7, <1>8, <1>9, <1>10, <1>11, <1>12, <1>13, <1>14, <1>15 DEF Worker

\* A step of one writer leaves the memory of the others alone.
LEMMA OthersUntouched ==
    ASSUME WriterInvariant, NEW w \in Writers, NEW v \in Writers, v # w,
           \/ Worker(w) \/ Start(w) \/ Down(w) \/ Stop(w) \/ StopReturns(w)
           \/ \E r \in Records :
                  SubmitAccepted(w, r) \/ SubmitRefused(w, r) \/ SubmitDeduped(w, r)
    PROVE  /\ pc'[v] = pc[v] /\ queue'[v] = queue[v] /\ batch'[v] = batch[v]
           /\ acked'[v] = acked[v] /\ seen'[v] = seen[v] /\ degraded'[v] = degraded[v]
<1>1. CASE TakeBatch(w) \/ Drained(w) \/ Journal(w) \/ InTime(w) \/ DrainExpired(w) \/ Persist(w)
  BY <1>1 DEF WriterInvariant, TypeOK, TakeBatch, Drained, Journal, InTime, DrainExpired, Persist, Insert
<1>2. CASE JournalFails(w) \/ PersistFails(w) \/ Rewrite(w) \/ RewriteFails(w)
  BY <1>2 DEF WriterInvariant, TypeOK, JournalFails, PersistFails, Rewrite, RewriteFails, NextRecord
<1>3. CASE Start(w)
  <2>1. UNCHANGED <<batch, acked>> /\ pc'[v] = pc[v]
    BY <1>3 DEF WriterInvariant, TypeOK, Start
  <2>2. queue'[v] = queue[v] /\ seen'[v] = seen[v] /\ degraded'[v] = degraded[v]
    <3>1. CASE Oversize
      BY <1>3, <3>1 DEF WriterInvariant, TypeOK, Start
    <3>2. CASE ~Oversize
      <4>1. PICK q \in Orders(journal), s \in Orders(Receipts), twice \in BOOLEAN :
                /\ queue' = [queue EXCEPT ![w] = q]
                /\ seen' = [seen EXCEPT ![w] = s]
                /\ degraded' = [degraded EXCEPT ![w] =
                                   twice \/ Elements(q) # journal \/ bad > 0 \/ torn]
        BY <1>3, <3>2, Zenon DEF Start
      <4>2. QED
        BY <4>1 DEF WriterInvariant, TypeOK
    <3>3. QED
      BY <3>1, <3>2
  <2>3. QED
    BY <2>1, <2>2
<1>4. CASE Down(w) \/ Stop(w) \/ StopReturns(w)
  BY <1>4 DEF WriterInvariant, TypeOK, Down, Stop, StopReturns
<1>5. CASE \E r \in Records :
              SubmitAccepted(w, r) \/ SubmitRefused(w, r) \/ SubmitDeduped(w, r)
  BY <1>5 DEF WriterInvariant, TypeOK, SubmitAccepted, SubmitRefused, SubmitDeduped
<1>6. QED
  BY <1>1, <1>2, <1>3, <1>4, <1>5 DEF Worker

LEMMA AnswersHeldStep ==
    WriterInvariant /\ Resting /\ AnswersHeld /\ [Next]_vars => AnswersHeld'
<1> SUFFICES ASSUME WriterInvariant, Resting, AnswersHeld, [Next]_vars, NEW v \in Writers
             PROVE  ~degraded'[v] => Answered(v)' \subseteq Held(v)'
  BY DEF AnswersHeld
<1>1. ~degraded[v] => Answered(v) \subseteq Held(v)
  BY DEF AnswersHeld
<1>2. CASE UNCHANGED vars
  <2>1. /\ pc'[v] = pc[v] /\ queue'[v] = queue[v] /\ batch'[v] = batch[v]
        /\ acked'[v] = acked[v] /\ seen'[v] = seen[v] /\ degraded'[v] = degraded[v]
    BY <1>2 DEF vars, memory
  <2>2. QED
    BY <1>1, <2>1, OthersHeld
<1>3. CASE Next
  <2>1. PICK w \in Writers :
           \/ Worker(w) \/ Start(w) \/ Down(w) \/ Stop(w) \/ StopReturns(w)
           \/ \E r \in Records :
                  SubmitAccepted(w, r) \/ SubmitRefused(w, r) \/ SubmitDeduped(w, r)
    BY <1>3 DEF Next
  <2>2. CASE v = w
    BY <1>1, <1>3, <2>1, <2>2, OwnHeld
  <2>3. CASE v # w
    <3>1. /\ pc'[v] = pc[v] /\ queue'[v] = queue[v] /\ batch'[v] = batch[v]
          /\ acked'[v] = acked[v] /\ seen'[v] = seen[v] /\ degraded'[v] = degraded[v]
      BY <2>1, <2>3, OthersUntouched
    <3>2. QED
      BY <1>1, <3>1, OthersHeld
  <2>4. QED
    BY <2>2, <2>3
<1>4. QED
  BY <1>2, <1>3

\* A record that a writer answered True is in SQLite, in the journal or in the
\* writer's memory, or the writer says that it is degraded: under every fault,
\* whatever the other writers do to the shared journal.
THEOREM AckedIsHeldOrDegradedHolds == Spec => []AckedIsHeldOrDegraded
<1>1. Init => Resting /\ AnswersHeld
  BY EmptyElements DEF Init, Resting, AnswersHeld, Answered
<1>2. AnswersHeld => AckedIsHeldOrDegraded
  BY DEF AnswersHeld, AckedIsHeldOrDegraded, Answered, Held
<1>3. QED
  BY <1>1, <1>2, WriterInvariantHolds, RestingStep, AnswersHeldStep, PTL DEF Spec

=============================================================================
