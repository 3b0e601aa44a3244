---------------------- MODULE CapabilityRecordsProofs ----------------------
(***************************************************************************)
(* What the three transactions of CapabilityRecords return, and that none  *)
(* of them writes tables that the consistency checks would reject.         *)
(***************************************************************************)
EXTENDS CapabilityRecords, FiniteSetTheorems, TLAPS

\* The empty tables are well typed.
LEMMA EmptyDbType == EmptyDb \in Db
BY DEF EmptyDb, Db, Ledger

\* issue_workflow_capability keeps the tables well typed, appends its own
\* transition, and touches no receipt.
LEMMA IssueTxFacts ==
    ASSUME NEW d \in Db, NEW c \in Caps, NEW t \in Times
    PROVE  /\ IssueTx(d, c, t) \in Db
           /\ IssuedTransition(c, t) \in Transition
           /\ IssuedTransition(c, t).at = t
           /\ IssueTx(d, c, t).ledger = Append(d.ledger, IssuedTransition(c, t))
           /\ IssueTx(d, c, t).receipts = d.receipts
           /\ IssueTx(d, c, t).rows =
                [d.rows EXCEPT ![c] = [used |-> 0, revoked |-> FALSE]]
<1>1. IssuedTransition(c, t) \in Transition
  BY DEF IssuedTransition, Transition, Kinds
<1>2. /\ d.ledger \in Ledger
      /\ d.receipts \in [Invocations -> Receipt \cup {None}]
      /\ d.rows \in [Caps -> Row \cup {None}]
  BY DEF Db
<1>3. Append(d.ledger, IssuedTransition(c, t)) \in Ledger
  BY <1>1, <1>2 DEF Ledger
<1>4. [used |-> 0, revoked |-> FALSE] \in Row
  BY DEF Row
<1>5. [d.rows EXCEPT ![c] = [used |-> 0, revoked |-> FALSE]]
         \in [Caps -> Row \cup {None}]
  BY <1>2, <1>4
<1>6. IssueTx(d, c, t) \in Db
  BY <1>2, <1>3, <1>5 DEF IssueTx, Db
<1>7. QED
  BY <1>1, <1>6 DEF IssueTx, IssuedTransition

\* A claim appends its transition, counts the use on the row and writes one
\* receipt, for its own invocation, with the new use number.
LEMMA ClaimTxFacts ==
    ASSUME NEW d \in Db, NEW c \in Caps, NEW i \in Invocations, NEW t \in Times,
           d.rows[c] # None
    PROVE  /\ ClaimTx(d, c, i, t) \in Db
           /\ ClaimedTransition(d, c, t) \in Transition
           /\ ClaimedTransition(d, c, t).at = t
           /\ ClaimTx(d, c, i, t).ledger = Append(d.ledger, ClaimedTransition(d, c, t))
           /\ d.rows[c].used \in Nat
           /\ [cap |-> c, use |-> d.rows[c].used + 1] \in Receipt
           /\ ClaimTx(d, c, i, t).receipts =
                [d.receipts EXCEPT ![i] = [cap |-> c, use |-> d.rows[c].used + 1]]
           /\ ClaimTx(d, c, i, t).rows =
                [d.rows EXCEPT ![c] = [used    |-> d.rows[c].used + 1,
                                       revoked |-> FALSE]]
<1>1. /\ d.ledger \in Ledger
      /\ d.receipts \in [Invocations -> Receipt \cup {None}]
      /\ d.rows \in [Caps -> Row \cup {None}]
  BY DEF Db
<1>2. d.rows[c] \in Row
  BY <1>1
<1>3. d.rows[c].used \in Nat
  BY <1>2 DEF Row
<1>4. ClaimedTransition(d, c, t) \in Transition
  BY <1>3 DEF ClaimedTransition, Transition, Kinds
<1>5. Append(d.ledger, ClaimedTransition(d, c, t)) \in Ledger
  BY <1>1, <1>4 DEF Ledger
<1>6. [cap |-> c, use |-> d.rows[c].used + 1] \in Receipt
  BY <1>3 DEF Receipt
<1>7. [used |-> d.rows[c].used + 1, revoked |-> FALSE] \in Row
  BY <1>3 DEF Row
<1>8. [d.rows EXCEPT ![c] = [used |-> d.rows[c].used + 1, revoked |-> FALSE]]
         \in [Caps -> Row \cup {None}]
  BY <1>1, <1>7
<1>9. [d.receipts EXCEPT ![i] = [cap |-> c, use |-> d.rows[c].used + 1]]
         \in [Invocations -> Receipt \cup {None}]
  BY <1>1, <1>6
<1>10. ClaimTx(d, c, i, t) \in Db
  BY <1>5, <1>8, <1>9 DEF ClaimTx, Db
<1>11. QED
  BY <1>3, <1>4, <1>6, <1>10 DEF ClaimTx, ClaimedTransition

\* A revocation appends its transition and keeps the use count and receipts.
LEMMA RevokeTxFacts ==
    ASSUME NEW d \in Db, NEW c \in Caps, NEW t \in Times, d.rows[c] # None
    PROVE  /\ RevokeTx(d, c, t) \in Db
           /\ RevokedTransition(c, t) \in Transition
           /\ RevokedTransition(c, t).at = t
           /\ RevokeTx(d, c, t).ledger = Append(d.ledger, RevokedTransition(c, t))
           /\ d.rows[c].used \in Nat
           /\ RevokeTx(d, c, t).receipts = d.receipts
           /\ RevokeTx(d, c, t).rows =
                [d.rows EXCEPT ![c] = [used    |-> d.rows[c].used,
                                       revoked |-> TRUE]]
<1>1. /\ d.ledger \in Ledger
      /\ d.receipts \in [Invocations -> Receipt \cup {None}]
      /\ d.rows \in [Caps -> Row \cup {None}]
  BY DEF Db
<1>2. d.rows[c].used \in Nat
  BY <1>1 DEF Row
<1>3. RevokedTransition(c, t) \in Transition
  BY DEF RevokedTransition, Transition, Kinds
<1>4. Append(d.ledger, RevokedTransition(c, t)) \in Ledger
  BY <1>1, <1>3 DEF Ledger
<1>5. [used |-> d.rows[c].used, revoked |-> TRUE] \in Row
  BY <1>2 DEF Row
<1>6. [d.rows EXCEPT ![c] = [used |-> d.rows[c].used, revoked |-> TRUE]]
         \in [Caps -> Row \cup {None}]
  BY <1>1, <1>5
<1>7. RevokeTx(d, c, t) \in Db
  BY <1>1, <1>4, <1>6 DEF RevokeTx, Db
<1>8. QED
  BY <1>2, <1>3, <1>7 DEF RevokeTx, RevokedTransition

----------------------------------------------------------------------------
(* The transactions keep the tables consistent.                            *)

\* The claims among a capability's transitions, as the checks count them.
ClaimsOf(d, c) == {k \in TransitionsOf(d, c) : d.ledger[k].kind = "claimed"}

\* Tables that every read accepts: a stored capability passes its checks, and
\* one that is not stored has left no transition and no receipt.
ConsistentFor(d, c) ==
    /\ IsFiniteSet(ReceiptsOf(d, c))
    /\ d.rows[c] = None => TransitionsOf(d, c) = {} /\ ReceiptsOf(d, c) = {}
    /\ d.rows[c] # None => AuthorityValid(d, c)

Consistent(d) == \A c \in Caps : ConsistentFor(d, c)

\* The empty tables are consistent.
LEMMA EmptyConsistent == Consistent(EmptyDb)
<1> SUFFICES ASSUME NEW c \in Caps PROVE ConsistentFor(EmptyDb, c)
  BY DEF Consistent
<1>1. TransitionsOf(EmptyDb, c) = {}
  BY DEF TransitionsOf, EmptyDb
<1>2. ReceiptsOf(EmptyDb, c) = {}
  BY DEF ReceiptsOf, EmptyDb
<1>3. EmptyDb.rows[c] = None
  BY DEF EmptyDb
<1>4. QED
  BY <1>1, <1>2, <1>3, FS_EmptySet DEF ConsistentFor

\* The ledger after one more transition.
LEMMA AppendedLedger ==
    ASSUME NEW d \in Db, NEW e \in Db, NEW tr \in Transition,
           e.ledger = Append(d.ledger, tr)
    PROVE  LET n == Len(d.ledger) IN
           /\ n \in Nat
           /\ DOMAIN d.ledger = 1 .. n
           /\ DOMAIN e.ledger = 1 .. n + 1
           /\ \A k \in 1 .. n : e.ledger[k] = d.ledger[k]
           /\ e.ledger[n + 1] = tr
<1>1. d.ledger \in Seq(Transition)
  BY DEF Db, Ledger
<1>2. QED
  BY <1>1

\* A capability's transitions after one more: the old ones, and the new one
\* behind them when it is this capability's.
LEMMA AppendedTransitions ==
    ASSUME NEW d \in Db, NEW e \in Db, NEW tr \in Transition, NEW c \in Caps,
           e.ledger = Append(d.ledger, tr)
    PROVE  LET n == Len(d.ledger) IN
           /\ TransitionsOf(d, c) \subseteq 1 .. n
           /\ tr.cap # c => TransitionsOf(e, c) = TransitionsOf(d, c)
           /\ tr.cap = c => TransitionsOf(e, c) = TransitionsOf(d, c) \cup {n + 1}
<1> DEFINE n == Len(d.ledger)
<1>1. /\ n \in Nat
      /\ DOMAIN d.ledger = 1 .. n
      /\ DOMAIN e.ledger = 1 .. n + 1
      /\ \A k \in 1 .. n : e.ledger[k] = d.ledger[k]
      /\ e.ledger[n + 1] = tr
  BY AppendedLedger
<1> HIDE DEF n
<1>2. \A k : k \in 1 .. n + 1 <=> k \in 1 .. n \/ k = n + 1
  BY <1>1
<1>3. TransitionsOf(d, c) \subseteq 1 .. n
  BY <1>1 DEF TransitionsOf
<1>4. \A k : k \in TransitionsOf(e, c) <=>
             k \in TransitionsOf(d, c) \/ (k = n + 1 /\ tr.cap = c)
  BY <1>1, <1>2, n + 1 \notin 1 .. n DEF TransitionsOf
<1>5. QED
  BY <1>3, <1>4 DEF n

\* What the ledger checks say, with the claims named.
LEMMA ProjectionParts ==
    ASSUME NEW d, NEW c
    PROVE  TransitionProjectionValid(d, c) <=>
             LET ts == TransitionsOf(d, c) IN
             /\ ts # {}
             /\ \A k \in ts : (d.ledger[k].kind = "issued") <=> (\A j \in ts : k <= j)
             /\ Cardinality(ClaimsOf(d, c)) = d.rows[c].used
             /\ \A k \in ClaimsOf(d, c) :
                   d.ledger[k].use = Cardinality({j \in ClaimsOf(d, c) : j <= k})
             /\ \A k \in ts : d.ledger[k].kind = "revoked" =>
                                  d.rows[c].revoked /\ \A j \in ts : j <= k
             /\ d.rows[c].revoked => \E k \in ts : d.ledger[k].kind = "revoked"
BY DEF TransitionProjectionValid, ClaimsOf

\* A transaction of another capability changes nothing the checks read.
LEMMA OthersStayConsistent ==
    ASSUME NEW d \in Db, NEW e \in Db, NEW tr \in Transition, NEW c \in Caps,
           e.ledger = Append(d.ledger, tr), tr.cap # c,
           e.rows[c] = d.rows[c],
           ReceiptsOf(e, c) = ReceiptsOf(d, c),
           \A i \in ReceiptsOf(d, c) : e.receipts[i] = d.receipts[i],
           ConsistentFor(d, c)
    PROVE  ConsistentFor(e, c)
<1>1. /\ TransitionsOf(e, c) = TransitionsOf(d, c)
      /\ TransitionsOf(d, c) \subseteq 1 .. Len(d.ledger)
  BY AppendedTransitions
<1>2. \A k \in TransitionsOf(d, c) : e.ledger[k] = d.ledger[k]
  BY <1>1, AppendedLedger
<1>3. ClaimsOf(e, c) = ClaimsOf(d, c) /\ ClaimsOf(d, c) \subseteq TransitionsOf(d, c)
  BY <1>1, <1>2 DEF ClaimsOf
<1>4. TransitionProjectionValid(d, c) => TransitionProjectionValid(e, c)
  <2>1. \A k \in ClaimsOf(d, c) : e.ledger[k].use = d.ledger[k].use
    BY <1>2, <1>3
  <2>2. QED
    BY <1>1, <1>2, <1>3, <2>1, ProjectionParts, Zenon
<1>5. {e.receipts[i].use : i \in ReceiptsOf(e, c)}
        = {d.receipts[i].use : i \in ReceiptsOf(d, c)}
  OBVIOUS
<1>6. ReceiptHistoryValid(d, c) => ReceiptHistoryValid(e, c)
  BY <1>5 DEF ReceiptHistoryValid
<1>7. QED
  BY <1>1, <1>4, <1>6 DEF ConsistentFor, AuthorityValid

\* issue_workflow_capability writes tables that every read accepts.
LEMMA IssueKeepsConsistent ==
    ASSUME NEW d \in Db, NEW c \in Caps, NEW t \in Times,
           d.rows[c] = None, Consistent(d)
    PROVE  Consistent(IssueTx(d, c, t))
<1> DEFINE e  == IssueTx(d, c, t)
           tr == IssuedTransition(c, t)
           n  == Len(d.ledger)
           rw == [used |-> 0, revoked |-> FALSE]
<1>1. /\ e \in Db /\ tr \in Transition
      /\ e.ledger = Append(d.ledger, tr)
      /\ e.receipts = d.receipts
      /\ e.rows = [d.rows EXCEPT ![c] = rw]
  BY IssueTxFacts
<1>2. tr.kind = "issued" /\ tr.cap = c
  BY DEF IssuedTransition
<1>3. rw \in Row /\ rw.used = 0 /\ rw.revoked = FALSE
  BY DEF Row
<1>4. d.rows \in [Caps -> Row \cup {None}]
  BY DEF Db
<1> HIDE DEF e, tr, rw
<1>5. \A b \in Caps : ReceiptsOf(e, b) = ReceiptsOf(d, b)
  BY <1>1 DEF ReceiptsOf
<1>6. ASSUME NEW b \in Caps, b # c PROVE ConsistentFor(e, b)
  <2>1. e.rows[b] = d.rows[b]
    BY <1>1, <1>4, <1>6
  <2>2. QED
    BY <1>1, <1>2, <1>5, <1>6, <2>1, OthersStayConsistent DEF Consistent
<1>7. ConsistentFor(e, c)
  <2>1. e.rows[c] = rw /\ rw # None
    BY <1>1, <1>3, <1>4, NoneAssumption
  <2>2. TransitionsOf(d, c) = {} /\ ReceiptsOf(d, c) = {}
    BY DEF Consistent, ConsistentFor
  <2>3. TransitionsOf(e, c) = {n + 1}
    BY <1>1, <1>2, <2>2, AppendedTransitions
  <2>4. n \in Nat /\ e.ledger[n + 1] = tr
    BY <1>1, AppendedLedger
  <2> HIDE DEF n
  <2>5. ClaimsOf(e, c) = {}
    BY <1>2, <2>3, <2>4 DEF ClaimsOf
  <2>6. TransitionProjectionValid(e, c)
    <3>1. Cardinality(ClaimsOf(e, c)) = e.rows[c].used
      BY <1>3, <2>1, <2>5, FS_EmptySet
    <3>2. \A k \in TransitionsOf(e, c) :
             /\ e.ledger[k].kind = "issued"
             /\ \A j \in TransitionsOf(e, c) : k <= j
      BY <1>2, <2>3, <2>4
    <3>3. e.rows[c].revoked = FALSE
      BY <1>3, <2>1
    <3>4. QED
      BY <2>3, <2>5, <3>1, <3>2, <3>3, ProjectionParts
  <2>7. ReceiptHistoryValid(e, c)
    BY <1>3, <1>5, <2>1, <2>2, FS_EmptySet DEF ReceiptHistoryValid
  <2>8. QED
    BY <1>5, <2>1, <2>2, <2>6, <2>7, FS_EmptySet DEF ConsistentFor, AuthorityValid
<1>8. QED
  BY <1>6, <1>7 DEF Consistent, e

\* A claim of a capability that is not revoked, for a new invocation, writes
\* tables that every read accepts.
LEMMA ClaimKeepsConsistent ==
    ASSUME NEW d \in Db, NEW c \in Caps, NEW i \in Invocations, NEW t \in Times,
           d.rows[c] # None, ~ d.rows[c].revoked, d.receipts[i] = None,
           Consistent(d)
    PROVE  Consistent(ClaimTx(d, c, i, t))
<1> DEFINE e   == ClaimTx(d, c, i, t)
           tr  == ClaimedTransition(d, c, t)
           n   == Len(d.ledger)
           use == d.rows[c].used + 1
           rw  == [used |-> use, revoked |-> FALSE]
           rc  == [cap |-> c, use |-> use]
<1>1. /\ e \in Db /\ tr \in Transition
      /\ e.ledger = Append(d.ledger, tr)
      /\ e.receipts = [d.receipts EXCEPT ![i] = rc]
      /\ e.rows = [d.rows EXCEPT ![c] = rw]
      /\ d.rows[c].used \in Nat
      /\ rc \in Receipt
  BY ClaimTxFacts
<1>2. tr.kind = "claimed" /\ tr.cap = c /\ tr.use = use
  BY DEF ClaimedTransition
<1>3. rw \in Row /\ rw.used = use /\ rw.revoked = FALSE /\ rc.cap = c /\ rc.use = use
  BY <1>1 DEF Row
<1>4. /\ d.rows \in [Caps -> Row \cup {None}]
      /\ d.receipts \in [Invocations -> Receipt \cup {None}]
  BY DEF Db
<1> HIDE DEF e, tr, rw, rc
<1>5. \A j \in Invocations : e.receipts[j] = IF j = i THEN rc ELSE d.receipts[j]
  BY <1>1, <1>4
<1>6. ASSUME NEW b \in Caps, b # c PROVE ConsistentFor(e, b)
  <2>1. e.rows[b] = d.rows[b]
    BY <1>1, <1>4, <1>6
  <2>2. /\ ReceiptsOf(e, b) = ReceiptsOf(d, b)
        /\ \A j \in ReceiptsOf(d, b) : e.receipts[j] = d.receipts[j]
    BY <1>3, <1>5, <1>6 DEF ReceiptsOf
  <2>3. QED
    BY <1>1, <1>2, <1>6, <2>1, <2>2, OthersStayConsistent DEF Consistent
<1>7. ConsistentFor(e, c)
  <2>1. e.rows[c] = rw /\ rw # None
    BY <1>1, <1>3, <1>4, NoneAssumption
  <2>2. /\ IsFiniteSet(ReceiptsOf(d, c))
        /\ ReceiptHistoryValid(d, c) /\ TransitionProjectionValid(d, c)
    BY DEF Consistent, ConsistentFor, AuthorityValid
  <2>3. /\ TransitionsOf(e, c) = TransitionsOf(d, c) \cup {n + 1}
        /\ TransitionsOf(d, c) \subseteq 1 .. n
    BY <1>1, <1>2, AppendedTransitions
  <2>4. /\ n \in Nat /\ e.ledger[n + 1] = tr
        /\ \A k \in 1 .. n : e.ledger[k] = d.ledger[k]
    BY <1>1, AppendedLedger
  <2> HIDE DEF n
  <2>5. /\ ClaimsOf(e, c) = ClaimsOf(d, c) \cup {n + 1}
        /\ ClaimsOf(d, c) \subseteq 1 .. n
        /\ ClaimsOf(d, c) \subseteq TransitionsOf(d, c)
    BY <1>2, <2>3, <2>4 DEF ClaimsOf
  <2>6. IsFiniteSet(ClaimsOf(d, c)) /\ n + 1 \notin ClaimsOf(d, c)
    BY <2>4, <2>5, FS_Interval, FS_Subset
  <2>7. Cardinality(ClaimsOf(d, c)) = d.rows[c].used
    BY <2>2, ProjectionParts
  <2>8. Cardinality(ClaimsOf(e, c)) = use
    BY <2>5, <2>6, <2>7, FS_AddElement
  <2>9. ASSUME NEW k \in ClaimsOf(e, c)
        PROVE  e.ledger[k].use = Cardinality({j \in ClaimsOf(e, c) : j <= k})
    <3>1. CASE k = n + 1
      <4>1. {j \in ClaimsOf(e, c) : j <= k} = ClaimsOf(e, c)
        BY <2>4, <2>5, <3>1
      <4>2. QED
        BY <1>2, <2>4, <2>8, <3>1, <4>1
    <3>2. CASE k # n + 1
      <4>1. k \in ClaimsOf(d, c) /\ k \in 1 .. n
        BY <2>5, <3>2
      <4>2. {j \in ClaimsOf(e, c) : j <= k} = {j \in ClaimsOf(d, c) : j <= k}
        BY <2>4, <2>5, <4>1
      <4>3. QED
        BY <2>2, <2>4, <4>1, <4>2, ProjectionParts
    <3>3. QED
      BY <3>1, <3>2
  <2>10. ASSUME NEW k \in TransitionsOf(e, c)
         PROVE  /\ (e.ledger[k].kind = "issued")
                       <=> (\A j \in TransitionsOf(e, c) : k <= j)
                /\ e.ledger[k].kind # "revoked"
    <3>1. PICK k0 \in TransitionsOf(d, c) : TRUE
      BY <2>2, ProjectionParts
    <3>2. k0 \in 1 .. n /\ k0 < n + 1
      BY <2>3, <2>4, <3>1
    <3>3. CASE k = n + 1
      BY <1>2, <2>3, <2>4, <3>2, <3>3
    <3>4. CASE k # n + 1
      <4>1. k \in TransitionsOf(d, c) /\ k \in 1 .. n /\ e.ledger[k] = d.ledger[k]
        BY <2>3, <2>4, <3>4
      <4>2. (\A j \in TransitionsOf(e, c) : k <= j)
               <=> (\A j \in TransitionsOf(d, c) : k <= j)
        BY <2>3, <2>4, <4>1
      <4>3. QED
        BY <2>2, <4>1, <4>2, ProjectionParts
    <3>5. QED
      BY <3>3, <3>4
  <2>11. TransitionProjectionValid(e, c)
    BY <1>3, <2>1, <2>3, <2>8, <2>9, <2>10, ProjectionParts
  <2>12. ReceiptsOf(e, c) = ReceiptsOf(d, c) \cup {i} /\ i \notin ReceiptsOf(d, c)
    BY <1>1, <1>3, <1>5, NoneAssumption DEF ReceiptsOf
  <2>13. /\ IsFiniteSet(ReceiptsOf(e, c))
         /\ Cardinality(ReceiptsOf(e, c)) = use
    BY <2>2, <2>12, FS_AddElement DEF ReceiptHistoryValid
  <2>14. {e.receipts[j].use : j \in ReceiptsOf(e, c)}
           = {d.receipts[j].use : j \in ReceiptsOf(d, c)} \cup {use}
    <3>1. /\ \A j \in ReceiptsOf(d, c) : e.receipts[j] = d.receipts[j]
          /\ e.receipts[i].use = use
      BY <1>3, <1>5, <2>12 DEF ReceiptsOf
    <3> HIDE DEF use
    <3>2. QED
      BY <2>12, <3>1
  <2>15. 1 .. d.rows[c].used \cup {use} = 1 .. use
    BY <1>1
  <2>16. ReceiptHistoryValid(e, c)
    BY <1>3, <2>1, <2>2, <2>13, <2>14, <2>15 DEF ReceiptHistoryValid
  <2>17. QED
    BY <2>1, <2>11, <2>13, <2>16 DEF ConsistentFor, AuthorityValid
<1>8. QED
  BY <1>6, <1>7 DEF Consistent, e

\* The first revocation of a capability writes tables that every read accepts.
LEMMA RevokeKeepsConsistent ==
    ASSUME NEW d \in Db, NEW c \in Caps, NEW t \in Times,
           d.rows[c] # None, ~ d.rows[c].revoked, Consistent(d)
    PROVE  Consistent(RevokeTx(d, c, t))
<1> DEFINE e  == RevokeTx(d, c, t)
           tr == RevokedTransition(c, t)
           n  == Len(d.ledger)
           rw == [used |-> d.rows[c].used, revoked |-> TRUE]
<1>1. /\ e \in Db /\ tr \in Transition
      /\ e.ledger = Append(d.ledger, tr)
      /\ e.receipts = d.receipts
      /\ e.rows = [d.rows EXCEPT ![c] = rw]
      /\ d.rows[c].used \in Nat
  BY RevokeTxFacts
<1>2. tr.kind = "revoked" /\ tr.cap = c
  BY DEF RevokedTransition
<1>3. rw \in Row /\ rw.used = d.rows[c].used /\ rw.revoked = TRUE
  BY <1>1 DEF Row
<1>4. d.rows \in [Caps -> Row \cup {None}]
  BY DEF Db
<1> HIDE DEF e, tr, rw
<1>5. \A b \in Caps : ReceiptsOf(e, b) = ReceiptsOf(d, b)
  BY <1>1 DEF ReceiptsOf
<1>6. ASSUME NEW b \in Caps, b # c PROVE ConsistentFor(e, b)
  <2>1. e.rows[b] = d.rows[b]
    BY <1>1, <1>4, <1>6
  <2>2. QED
    BY <1>1, <1>2, <1>5, <1>6, <2>1, OthersStayConsistent DEF Consistent
<1>7. ConsistentFor(e, c)
  <2>1. e.rows[c] = rw /\ rw # None
    BY <1>1, <1>3, <1>4, NoneAssumption
  <2>2. /\ IsFiniteSet(ReceiptsOf(d, c))
        /\ ReceiptHistoryValid(d, c) /\ TransitionProjectionValid(d, c)
    BY DEF Consistent, ConsistentFor, AuthorityValid
  <2>3. /\ TransitionsOf(e, c) = TransitionsOf(d, c) \cup {n + 1}
        /\ TransitionsOf(d, c) \subseteq 1 .. n
    BY <1>1, <1>2, AppendedTransitions
  <2>4. /\ n \in Nat /\ e.ledger[n + 1] = tr
        /\ \A k \in 1 .. n : e.ledger[k] = d.ledger[k]
    BY <1>1, AppendedLedger
  <2> HIDE DEF n
  <2>5. /\ ClaimsOf(e, c) = ClaimsOf(d, c)
        /\ \A k \in ClaimsOf(d, c) : e.ledger[k] = d.ledger[k]
    BY <1>2, <2>3, <2>4 DEF ClaimsOf
  <2>6. ASSUME NEW k \in TransitionsOf(e, c)
        PROVE  /\ (e.ledger[k].kind = "issued")
                      <=> (\A j \in TransitionsOf(e, c) : k <= j)
               /\ e.ledger[k].kind = "revoked" =>
                      \A j \in TransitionsOf(e, c) : j <= k
    <3>1. PICK k0 \in TransitionsOf(d, c) : TRUE
      BY <2>2, ProjectionParts
    <3>2. k0 \in 1 .. n /\ k0 < n + 1
      BY <2>3, <2>4, <3>1
    <3>3. CASE k = n + 1
      BY <1>2, <2>3, <2>4, <3>2, <3>3
    <3>4. CASE k # n + 1
      <4>1. k \in TransitionsOf(d, c) /\ k \in 1 .. n /\ e.ledger[k] = d.ledger[k]
        BY <2>3, <2>4, <3>4
      <4>2. (\A j \in TransitionsOf(e, c) : k <= j)
               <=> (\A j \in TransitionsOf(d, c) : k <= j)
        BY <2>3, <2>4, <4>1
      <4>3. QED
        BY <2>2, <4>1, <4>2, ProjectionParts
    <3>5. QED
      BY <3>3, <3>4
  <2>7. TransitionProjectionValid(e, c)
    BY <1>2, <1>3, <2>1, <2>2, <2>3, <2>4, <2>5, <2>6, ProjectionParts
  <2>8. ReceiptHistoryValid(e, c)
    BY <1>1, <1>3, <1>5, <2>1, <2>2 DEF ReceiptHistoryValid
  <2>9. QED
    BY <1>5, <2>1, <2>2, <2>7, <2>8 DEF ConsistentFor, AuthorityValid
<1>8. QED
  BY <1>6, <1>7 DEF Consistent, e
============================================================================
