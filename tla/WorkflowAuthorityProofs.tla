---------------------- MODULE WorkflowAuthorityProofs ----------------------
(***************************************************************************)
(* The workflow-capability store keeps AuthorityInvariant and implements   *)
(* CapabilityBook, for any processes, capabilities, invocations and times, *)
(* and any set of faults that does not pair the loss of the database with  *)
(* the misreading of the keychain (ToleratedFaults).                       *)
(***************************************************************************)
EXTENDS WorkflowAuthority, CapabilityRecordsProofs, FiniteSetTheorems

----------------------------------------------------------------------------
(* What a permitted operation writes.                                      *)

\* The fields of a request, by operation.
LEMMA RequestFields ==
    ASSUME NEW r \in Request
    PROVE  /\ r.op \in {"issue", "revoke", "lookup", "claim"} => r.cap \in Caps
           /\ r.op \in {"claim", "receipt"} => r.inv \in Invocations
BY DEF Request

\* A permitted operation is an issue of a new capability, or a claim or a
\* revocation of a stored one.
LEMMA PermittedCases ==
    ASSUME NEW r \in Request, NEW t, Permitted(r, t)
    PROVE  \/ r.op = "issue" /\ db.rows[r.cap] = None
           \/ r.op = "claim" /\ db.rows[r.cap] # None /\ db.receipts[r.inv] = None
           \/ r.op = "revoke" /\ db.rows[r.cap] # None
BY DEF Permitted, MayIssue, MayClaim, MayRevoke, Stored

\* The transaction of a permitted operation yields well-typed tables whose
\* ledger is the old one with the new transition.
LEMMA NewDbLedger ==
    ASSUME db \in Db, NEW r \in Request, NEW t \in Times, Permitted(r, t)
    PROVE  /\ NewDb(r, t) \in Db
           /\ NewTransition(r, t) \in Transition
           /\ NewTransition(r, t).at = t
           /\ NewDb(r, t).ledger = Append(db.ledger, NewTransition(r, t))
<1>1. CASE r.op = "issue" /\ db.rows[r.cap] = None
  <2>1. r.cap \in Caps
    BY <1>1, RequestFields
  <2>2. NewDb(r, t) = IssueTx(db, r.cap, t)
    BY <1>1 DEF NewDb
  <2>3. NewTransition(r, t) = IssuedTransition(r.cap, t)
    BY <1>1 DEF NewTransition
  <2>4. IssueTx(db, r.cap, t) \in Db /\ IssuedTransition(r.cap, t) \in Transition
    BY <2>1, IssueTxFacts, Zenon
  <2>5. IssuedTransition(r.cap, t).at = t
    BY DEF IssuedTransition
  <2>6. IssueTx(db, r.cap, t).ledger = Append(db.ledger, IssuedTransition(r.cap, t))
    BY DEF IssueTx
  <2>7. QED
    BY <2>2, <2>3, <2>4, <2>5, <2>6, Zenon
<1>2. CASE r.op = "claim" /\ db.rows[r.cap] # None /\ db.receipts[r.inv] = None
  <2>1. r.cap \in Caps /\ r.inv \in Invocations
    BY <1>2, RequestFields
  <2>2. NewDb(r, t) = ClaimTx(db, r.cap, r.inv, t)
    BY <1>2 DEF NewDb
  <2>3. NewTransition(r, t) = ClaimedTransition(db, r.cap, t)
    BY <1>2 DEF NewTransition
  <2>4. ClaimTx(db, r.cap, r.inv, t) \in Db /\ ClaimedTransition(db, r.cap, t) \in Transition
    BY <1>2, <2>1, ClaimTxFacts, Zenon
  <2>5. ClaimedTransition(db, r.cap, t).at = t
    BY DEF ClaimedTransition
  <2>6. ClaimTx(db, r.cap, r.inv, t).ledger = Append(db.ledger, ClaimedTransition(db, r.cap, t))
    BY DEF ClaimTx
  <2>7. QED
    BY <2>2, <2>3, <2>4, <2>5, <2>6, Zenon
<1>3. CASE r.op = "revoke" /\ db.rows[r.cap] # None
  <2>1. r.cap \in Caps
    BY <1>3, RequestFields
  <2>2. NewDb(r, t) = RevokeTx(db, r.cap, t)
    BY <1>3 DEF NewDb
  <2>3. NewTransition(r, t) = RevokedTransition(r.cap, t)
    BY <1>3 DEF NewTransition
  <2>4. RevokeTx(db, r.cap, t) \in Db /\ RevokedTransition(r.cap, t) \in Transition
    BY <1>3, <2>1, RevokeTxFacts, Zenon
  <2>5. RevokedTransition(r.cap, t).at = t
    BY DEF RevokedTransition
  <2>6. RevokeTx(db, r.cap, t).ledger = Append(db.ledger, RevokedTransition(r.cap, t))
    BY DEF RevokeTx
  <2>7. QED
    BY <2>2, <2>3, <2>4, <2>5, <2>6, Zenon
<1>4. QED
  BY <1>1, <1>2, <1>3, PermittedCases

\* It keeps every receipt there is, and a claim adds the one it promised.
LEMMA NewDbReceipts ==
    ASSUME db \in Db, NEW r \in Request, NEW t \in Times, Permitted(r, t)
    PROVE  /\ \A i \in Invocations :
                 db.receipts[i] # None => NewDb(r, t).receipts[i] = db.receipts[i]
           /\ r.op = "claim" => NewDb(r, t).receipts[r.inv] # None
<1>0. db.receipts \in [Invocations -> Receipt \cup {None}]
  BY DEF Db
<1>1. CASE r.op = "issue" /\ db.rows[r.cap] = None
  BY <1>1 DEF NewDb, IssueTx
<1>2. CASE r.op = "claim" /\ db.rows[r.cap] # None /\ db.receipts[r.inv] = None
  <2>1. r.cap \in Caps /\ r.inv \in Invocations
    BY <1>2, RequestFields
  <2> DEFINE rc == [cap |-> r.cap, use |-> db.rows[r.cap].used + 1]
  <2>2. NewDb(r, t).receipts = [db.receipts EXCEPT ![r.inv] = rc]
    BY <1>2 DEF NewDb, ClaimTx
  <2>3. db.rows[r.cap].used \in Nat
    BY <1>2, <2>1 DEF Db, Row
  <2>4. rc # None
    BY <2>1, <2>3, NoneAssumption DEF Receipt
  <2> HIDE DEF rc
  <2>5. QED
    BY <1>0, <1>2, <2>1, <2>2, <2>4
<1>3. CASE r.op = "revoke" /\ db.rows[r.cap] # None
  BY <1>3 DEF NewDb, RevokeTx
<1>4. QED
  BY <1>1, <1>2, <1>3, PermittedCases

----------------------------------------------------------------------------
(* Leaving and continuing a call.                                          *)

\* The lock is exclusive: while one call is inside, the others are not.
LEMMA OthersIdle ==
    ASSUME CallInvariant, NEW p \in Procs, pc[p] # "idle"
    PROVE  \A q \in Procs \ {p} : pc[q] = "idle"
BY DEF CallInvariant, InsideCall

\* The locals of all calls are well typed.
LocalsTyped ==
    /\ lock \in Procs \cup {None}
    /\ pc \in [Procs -> Steps]
    /\ request \in [Procs -> Request \cup {None}]
    /\ now \in [Procs -> Times \cup {None}]
    /\ seen \in [Procs -> Control \cup {None}]
    /\ txn \in [Procs -> Db \cup {None}]

\* The shared state is well typed.
SharedTyped ==
    /\ clock \in Times
    /\ db \in Db
    /\ snapshots \subseteq Db
    /\ control \in Control \cup {None}
    /\ sealed \in Db
    /\ delivered \subseteq [inv : Invocations, receipt : Receipt]

\* Together they are the type invariant.
LEMMA TypeParts == TypeOK <=> LocalsTyped /\ SharedTyped
BY DEF TypeOK, LocalsTyped, SharedTyped

\* After a return nobody is inside, so nothing is asked of any call.
LEMMA ReturnFacts ==
    ASSUME LocalsTyped, CallInvariant, NEW p \in Procs, pc[p] # "idle", Return(p)
    PROVE  LocalsTyped' /\ CallInvariant'
<1>1. LocalsTyped'
  BY DEF LocalsTyped, Return, Steps
<1>2. \A q \in Procs : pc'[q] = "idle"
  BY OthersIdle DEF LocalsTyped, Return
<1>3. QED
  BY <1>1, <1>2 DEF CallInvariant, InsideCall

\* A call that proceeds keeps the lock, its request and its time, and the
\* others stay out.
LEMMA ProceedFacts ==
    ASSUME LocalsTyped, CallInvariant, NEW p \in Procs, pc[p] # "idle",
           NEW s \in Steps, NEW k \in Control, NEW x \in Db \cup {None},
           Proceed(p, s, k, x)
    PROVE  /\ LocalsTyped'
           /\ lock' = p
           /\ request' = request /\ now' = now
           /\ request[p] \in Request /\ now[p] \in Times
           /\ request[p].op = "issue" => InWindow(request[p].cap, now[p])
           /\ pc'[p] = s /\ seen'[p] = k /\ txn'[p] = x
           /\ \A q \in Procs \ {p} : pc'[q] = "idle"
<1>1. LocalsTyped'
  BY DEF LocalsTyped, Proceed
<1>2. lock' = p /\ request' = request /\ now' = now
  BY DEF CallInvariant, InsideCall, Proceed
<1>3. /\ request[p] \in Request /\ now[p] \in Times
      /\ request[p].op = "issue" => InWindow(request[p].cap, now[p])
  BY DEF CallInvariant, InsideCall
<1>4. pc'[p] = s /\ seen'[p] = k /\ txn'[p] = x
  BY DEF LocalsTyped, Proceed
<1>5. \A q \in Procs \ {p} : pc'[q] = "idle"
  BY OthersIdle DEF LocalsTyped, Proceed
<1>6. QED
  BY <1>1, <1>2, <1>3, <1>4, <1>5

\* If the call that proceeds meets its invariant, all calls do.
LEMMA OnlyInside ==
    ASSUME NEW p \in Procs, \A q \in Procs \ {p} : pc'[q] = "idle", InsideCall(p)'
    PROVE  CallInvariant'
BY DEF CallInvariant

----------------------------------------------------------------------------
(* The shared state: database, snapshots and keychain.                     *)

\* A control record that names the last committed ledger.
GoodControl(k) ==
    /\ k \in Control
    /\ k.pending = None => k.committed = sealed.ledger
    /\ k.pending # None =>
          /\ sealed.ledger \in {k.committed, k.pending}
          /\ Len(k.pending) = Len(k.committed) + 1
    /\ sealed.ledger # << >> =>
          sealed.ledger[Len(sealed.ledger)].at <= k.observed

SharedInvariant ==
    /\ SharedTyped
    /\ SealedByControl
    /\ ControlWellFormed
    /\ SnapshotsBehind
    /\ DeliveredStaysSealed

\* The invariant, regrouped.
LEMMA InvariantParts ==
    AuthorityInvariant <=> LocalsTyped /\ SharedInvariant /\ CallInvariant
BY TypeParts DEF AuthorityInvariant, SharedInvariant

\* The keychain part of the invariant says that the control, once there, is
\* good.
LEMMA ControlIsGood ==
    ASSUME SharedTyped
    PROVE  SealedByControl /\ ControlWellFormed
             <=> IF control = None THEN sealed = EmptyDb ELSE GoodControl(control)
BY NoControlAssumption DEF SealedByControl, ControlWellFormed, GoodControl, SharedTyped

\* Writing a good control record, or failing to, keeps the shared invariant.
LEMMA StoreKeepsShared ==
    ASSUME SharedInvariant, NEW k, GoodControl(k), control' \in {control, k},
           UNCHANGED <<clock, db, snapshots, sealed, delivered>>
    PROVE  SharedInvariant'
<1>1. SharedTyped'
  BY DEF SharedInvariant, SharedTyped, GoodControl
<1>2. SealedByControl' /\ ControlWellFormed'
  <2>1. CASE control' = control
    BY <2>1 DEF SharedInvariant, SealedByControl, ControlWellFormed
  <2>2. CASE control' = k
    <3>1. k # None
      BY NoControlAssumption DEF GoodControl
    <3>2. QED
      BY <2>2, <3>1 DEF GoodControl, SealedByControl, ControlWellFormed
  <2>3. QED
    BY <2>1, <2>2
<1>3. SnapshotsBehind' /\ DeliveredStaysSealed'
  BY DEF SharedInvariant, SnapshotsBehind, DeliveredStaysSealed
<1>4. QED
  BY <1>1, <1>2, <1>3 DEF SharedInvariant

\* Nothing shared changes.
LEMMA SharedUnchanged ==
    ASSUME SharedInvariant,
           UNCHANGED <<db, snapshots, control, sealed, delivered>>, clock' \in Times
    PROVE  SharedInvariant'
BY DEF SharedInvariant, SharedTyped, SealedByControl, ControlWellFormed,
       SnapshotsBehind, DeliveredStaysSealed

\* A call that stores a good control record either returns, and the invariant
\* holds, or has proceeded.
LEMMA StoreControlFacts ==
    ASSUME LocalsTyped, SharedInvariant, CallInvariant,
           NEW p \in Procs, pc[p] # "idle",
           NEW k, GoodControl(k), NEW s \in Steps, NEW x \in Db \cup {None},
           StoreControl(p, k, s, x),
           UNCHANGED <<clock, db, snapshots, sealed, delivered>>,
           (control' = k /\ Proceed(p, s, k, x)) => InsideCall(p)'
    PROVE  LocalsTyped' /\ SharedInvariant' /\ CallInvariant'
<1>1. CASE control' = k /\ Proceed(p, s, k, x)
  <2>1. SharedInvariant'
    BY <1>1, StoreKeepsShared
  <2>2. k \in Control
    BY DEF GoodControl
  <2>3. LocalsTyped' /\ \A q \in Procs \ {p} : pc'[q] = "idle"
    BY <1>1, <2>2, ProceedFacts
  <2>4. QED
    BY <1>1, <2>1, <2>3, OnlyInside
<1>2. CASE ControlStoreFails(p, k)
  BY <1>2, StoreKeepsShared, ReturnFacts DEF ControlStoreFails
<1>3. QED
  BY <1>1, <1>2 DEF StoreControl

----------------------------------------------------------------------------
(* One lemma per step of a call that changes more than the call's locals.  *)

\* The state in which a step is taken, for the lemmas below.
Running(p) ==
    /\ LocalsTyped
    /\ SharedInvariant
    /\ CallInvariant
    /\ pc[p] # "idle"

Kept == LocalsTyped' /\ SharedInvariant' /\ CallInvariant'

\* A call that ends without touching shared state keeps the invariant.
LEMMA QuietReturn ==
    ASSUME NEW p \in Procs, Running(p), Return(p),
           UNCHANGED <<clock, db, snapshots, control, sealed, delivered>>
    PROVE  Kept
<1>1. clock \in Times
  BY DEF Running, SharedInvariant, SharedTyped
<1>2. SharedInvariant'
  BY <1>1, SharedUnchanged DEF Running
<1>3. QED
  BY <1>2, ReturnFacts DEF Running, Kept

\* load_validate_and_observe_control creates a control record only where no
\* ledger was ever committed.
LEMMA BootstrapKeeps ==
    ASSUME ToleratedFaults, NEW p \in Procs, Running(p), Bootstrap(p)
    PROVE  Kept
<1> DEFINE k == [committed |-> << >>, pending |-> None, observed |-> now[p]]
<1>1. now[p] \in Times /\ lock = p
  BY DEF Running, CallInvariant, InsideCall
<1>2. k \in Control
  BY <1>1 DEF Control, Ledger
<1>3. sealed.ledger = << >>
  <2>1. CASE "loss" \notin Faults
    BY <2>1 DEF Bootstrap, HasAuthorityData, Running, SharedInvariant, SnapshotsBehind
  <2>2. CASE "read" \notin Faults
    <3>1. control = None
      BY <2>2 DEF Bootstrap, ControlReads
    <3>2. QED
      BY <3>1 DEF Running, SharedInvariant, SealedByControl, EmptyDb
  <2>3. QED
    BY <2>1, <2>2 DEF ToleratedFaults
<1>4. GoodControl(k)
  BY <1>2, <1>3 DEF GoodControl
<1>5. ASSUME control' = k, Proceed(p, "observe", k, None)
      PROVE  InsideCall(p)'
  <2>1. k # None
    BY <1>2, NoControlAssumption
  <2>2. /\ lock' = p /\ request' = request /\ now' = now
        /\ request[p] \in Request /\ now[p] \in Times
        /\ request[p].op = "issue" => InWindow(request[p].cap, now[p])
        /\ pc'[p] = "observe" /\ seen'[p] = k
    BY <1>2, <1>5, ProceedFacts DEF Running, Steps
  <2>3. k.pending = None
    OBVIOUS
  <2> HIDE DEF k
  <2>4. QED
    BY <1>5, <2>1, <2>2, <2>3 DEF InsideCall
<1>6. StoreControl(p, k, "observe", None)
  BY DEF Bootstrap
<1>7. UNCHANGED <<clock, db, snapshots, sealed, delivered>>
  BY DEF Bootstrap
<1> HIDE DEF k
<1>8. "observe" \in Steps /\ None \in Db \cup {None}
  BY DEF Steps
<1>9. QED
  BY <1>4, <1>5, <1>6, <1>7, <1>8, StoreControlFacts DEF Running, Kept

\* Loading the control that is there.
LEMMA LoadControlKeeps ==
    ASSUME NEW p \in Procs, Running(p), LoadControl(p)
    PROVE  Kept
<1> DEFINE s == IF control.pending # None THEN "resolve" ELSE "observe"
<1>1. control # None /\ control \in Control /\ clock \in Times
  BY DEF LoadControl, Running, SharedInvariant, SharedTyped
<1>2. s \in Steps /\ (s = "resolve" <=> control.pending # None)
      /\ (s = "resolve" \/ s = "observe")
  BY DEF Steps
<1>3. Proceed(p, s, control, None)
      /\ UNCHANGED <<clock, db, snapshots, control, sealed, delivered>>
  BY DEF LoadControl
<1> HIDE DEF s
<1>4. /\ LocalsTyped'
      /\ lock' = p /\ request' = request /\ now' = now
      /\ request[p] \in Request /\ now[p] \in Times
      /\ request[p].op = "issue" => InWindow(request[p].cap, now[p])
      /\ pc'[p] = s /\ seen'[p] = control
      /\ \A q \in Procs \ {p} : pc'[q] = "idle"
  BY <1>1, <1>2, <1>3, ProceedFacts DEF Running
<1>5. InsideCall(p)'
  BY <1>1, <1>2, <1>3, <1>4 DEF InsideCall
<1>6. SharedInvariant'
  BY <1>1, <1>3, SharedUnchanged DEF Running
<1>7. QED
  BY <1>4, <1>5, <1>6, OnlyInside DEF Kept

\* A database that holds the announced ledger is the last committed one, so
\* recovery forward names it.
LEMMA ResolveForwardKeeps ==
    ASSUME NEW p \in Procs, Running(p), ResolveForward(p)
    PROVE  Kept
<1> DEFINE k == [committed |-> db.ledger, pending |-> None,
                 observed  |-> seen[p].observed]
<1>1. /\ pc[p] = "resolve" /\ db.ledger = control.pending
      /\ control # None /\ seen[p] = control /\ control.pending # None
  BY DEF ResolveForward, Running, CallInvariant, InsideCall
<1>2. control \in Control /\ db \in Db /\ sealed \in Db /\ db \in snapshots
  BY <1>1 DEF Running, SharedInvariant, SharedTyped, SnapshotsBehind
<1>3. GoodControl(control)
  BY <1>1, ControlIsGood DEF Running, SharedInvariant
<1>4. sealed.ledger = db.ledger
  <2>1. /\ Len(db.ledger) <= Len(sealed.ledger)
        /\ Len(db.ledger) = Len(control.committed) + 1
        /\ sealed.ledger \in {control.committed, control.pending}
    BY <1>1, <1>2, <1>3 DEF GoodControl, Running, SharedInvariant, SnapshotsBehind
  <2>2. Len(control.committed) \in Nat
    BY <1>2 DEF Control, Ledger
  <2>3. QED
    BY <1>1, <2>1, <2>2
<1>5. GoodControl(k)
  <2>1. k \in Control
    BY <1>1, <1>2 DEF Control, Db
  <2>2. QED
    BY <1>1, <1>3, <1>4, <2>1 DEF GoodControl
<1>6. ASSUME control' = k, Proceed(p, "observe", k, None)
      PROVE  InsideCall(p)'
  <2>0. k \in Control
    BY <1>5 DEF GoodControl
  <2>1. k # None
    BY <2>0, NoControlAssumption
  <2>2. /\ lock' = p /\ request' = request /\ now' = now
        /\ request[p] \in Request /\ now[p] \in Times
        /\ request[p].op = "issue" => InWindow(request[p].cap, now[p])
        /\ pc'[p] = "observe" /\ seen'[p] = k
    BY <1>6, <2>0, ProceedFacts DEF Running, Steps
  <2>3. k.pending = None
    OBVIOUS
  <2> HIDE DEF k
  <2>4. QED
    BY <1>6, <2>1, <2>2, <2>3 DEF InsideCall
<1>7. /\ StoreControl(p, k, "observe", None)
      /\ UNCHANGED <<clock, db, snapshots, sealed, delivered>>
  BY DEF ResolveForward
<1> HIDE DEF k
<1>8. "observe" \in Steps /\ None \in Db \cup {None}
  BY DEF Steps
<1>9. QED
  BY <1>5, <1>6, <1>7, <1>8, StoreControlFacts DEF Running, Kept

\* Passing the rollback checks means working on the last committed tables.
LEMMA ObserveKeeps ==
    ASSUME NEW p \in Procs, Running(p), Observe(p)
    PROVE  Kept
<1> DEFINE k == [seen[p] EXCEPT !.observed = now[p]]
<1>1. /\ pc[p] = "observe" /\ control # None /\ seen[p] = control
      /\ control.pending = None /\ now[p] \in Times
      /\ db.ledger = control.committed
  BY DEF Observe, Running, CallInvariant, InsideCall
<1>2. control \in Control /\ clock \in Times /\ db \in snapshots
  BY <1>1 DEF Running, SharedInvariant, SharedTyped, SnapshotsBehind
<1>3. GoodControl(control)
  BY <1>1, ControlIsGood DEF Running, SharedInvariant
<1>4. db = sealed
  BY <1>1, <1>2, <1>3 DEF GoodControl, Running, SharedInvariant, SnapshotsBehind
<1>5. UNCHANGED <<clock, db, snapshots, sealed, delivered>>
  BY DEF Observe
<1>6. ASSUME NEW kk \in Control, kk.pending = None, kk.observed = now[p],
             control' = kk, Proceed(p, "apply", kk, None)
      PROVE  InsideCall(p)' /\ LocalsTyped' /\ \A q \in Procs \ {p} : pc'[q] = "idle"
  <2>1. kk # None
    BY NoControlAssumption
  <2>2. /\ LocalsTyped'
        /\ lock' = p /\ request' = request /\ now' = now
        /\ request[p] \in Request /\ now[p] \in Times
        /\ request[p].op = "issue" => InWindow(request[p].cap, now[p])
        /\ pc'[p] = "apply" /\ seen'[p] = kk
        /\ \A q \in Procs \ {p} : pc'[q] = "idle"
    BY <1>6, ProceedFacts DEF Running, Steps
  <2>3. QED
    BY <1>4, <1>5, <1>6, <2>1, <2>2 DEF InsideCall
<1>7. CASE now[p] = seen[p].observed /\ Proceed(p, "apply", seen[p], None)
           /\ UNCHANGED control
  <2>1. InsideCall(p)' /\ LocalsTyped' /\ \A q \in Procs \ {p} : pc'[q] = "idle"
    BY <1>1, <1>2, <1>6, <1>7
  <2>2. SharedInvariant'
    BY <1>2, <1>5, <1>7, SharedUnchanged DEF Running
  <2>3. QED
    BY <2>1, <2>2, OnlyInside DEF Kept
<1>8. CASE now[p] > seen[p].observed /\ StoreControl(p, k, "apply", None)
  <2>1. k \in Control /\ k.pending = None /\ k.committed = control.committed
        /\ k.observed = now[p]
    BY <1>1, <1>2 DEF Control
  <2> HIDE DEF k
  <2>2. sealed.ledger # << >> => sealed.ledger[Len(sealed.ledger)].at <= now[p]
    <3>1. control.observed \in Nat /\ now[p] \in Nat /\ now[p] > control.observed
      BY <1>1, <1>2, <1>8, TimesAssumption DEF Control
    <3>2. sealed.ledger # << >> => sealed.ledger[Len(sealed.ledger)].at \in Nat
      <4>1. sealed.ledger \in Seq(Transition)
        BY DEF Running, SharedInvariant, SharedTyped, Db, Ledger
      <4>2. sealed.ledger # << >> => sealed.ledger[Len(sealed.ledger)] \in Transition
        BY <4>1
      <4>3. QED
        BY <4>2, TimesAssumption DEF Transition
    <3>3. QED
      BY <1>3, <3>1, <3>2 DEF GoodControl
  <2>3. GoodControl(k)
    BY <1>1, <1>3, <2>1, <2>2 DEF GoodControl
  <2>4. (control' = k /\ Proceed(p, "apply", k, None)) => InsideCall(p)'
    BY <1>6, <2>1
  <2>5. "apply" \in Steps /\ None \in Db \cup {None}
    BY DEF Steps
  <2>6. QED
    BY <1>1, <1>5, <1>8, <2>3, <2>4, <2>5, StoreControlFacts DEF Running, Kept
<1>9. QED
  BY <1>7, <1>8 DEF Observe

\* The announced ledger is the one the transaction is about to commit.
LEMMA PrepareKeeps ==
    ASSUME NEW p \in Procs, Running(p), Prepare(p)
    PROVE  Kept
<1> DEFINE r == request[p]
           t == now[p]
           tr == NewTransition(r, t)
           k == [committed |-> seen[p].committed,
                 pending   |-> Append(seen[p].committed, tr),
                 observed  |-> t]
           x == NewDb(r, t)
<1>1. /\ pc[p] = "apply" /\ control # None /\ seen[p] = control
      /\ control.pending = None /\ r \in Request /\ t \in Times
      /\ db = sealed /\ control.observed = t /\ Permitted(r, t)
  BY DEF Prepare, Running, CallInvariant, InsideCall
<1>2. control \in Control /\ db \in Db
  BY <1>1 DEF Running, SharedInvariant, SharedTyped
<1>3. GoodControl(control)
  BY <1>1, ControlIsGood DEF Running, SharedInvariant
<1>4. control.committed = db.ledger /\ db.ledger \in Ledger
  BY <1>1, <1>2, <1>3 DEF GoodControl, Db
<1>5. /\ x \in Db /\ tr \in Transition
      /\ x.ledger = Append(db.ledger, tr)
  BY <1>1, <1>2, NewDbLedger
<1>6. /\ StoreControl(p, k, "commit", x)
      /\ UNCHANGED <<clock, db, snapshots, sealed, delivered>>
  BY DEF Prepare
<1> HIDE DEF r, t, tr, x
<1>7. /\ Append(db.ledger, tr) \in Ledger
      /\ Len(Append(db.ledger, tr)) = Len(db.ledger) + 1
  BY <1>4, <1>5 DEF Ledger
<1>8. Append(db.ledger, tr) # None
  BY <1>7, NoneAssumption
<1>9. /\ k \in Control /\ k.committed = db.ledger /\ k.observed = t
      /\ k.pending = Append(db.ledger, tr)
  BY <1>1, <1>4, <1>7 DEF Control, Ledger
<1> HIDE DEF k
<1>10. GoodControl(k)
  BY <1>1, <1>3, <1>4, <1>7, <1>8, <1>9 DEF GoodControl
<1>11. ASSUME control' = k, Proceed(p, "commit", k, x)
       PROVE  InsideCall(p)'
  <2>1. k # None
    BY <1>9, NoControlAssumption
  <2>2. /\ lock' = p /\ request' = request /\ now' = now
        /\ request[p] \in Request /\ now[p] \in Times
        /\ request[p].op = "issue" => InWindow(request[p].cap, now[p])
        /\ pc'[p] = "commit" /\ seen'[p] = k /\ txn'[p] = x
    BY <1>5, <1>9, <1>11, ProceedFacts DEF Running, Steps
  <2>3. db' = db /\ sealed' = sealed
    BY <1>6
  <2>4. Permitted(request[p], now[p])'
    BY <1>1, <2>2, <2>3 DEF Permitted, MayIssue, MayClaim, MayRevoke, Stored, r, t
  <2>5. txn'[p] = NewDb(request[p], now[p])'
    BY <2>2, <2>3 DEF NewDb, x, r, t
  <2>6. control'.committed = db'.ledger /\ control'.pending = txn'[p].ledger
        /\ control'.observed = now'[p] /\ control' # None /\ seen'[p] = control'
    BY <1>5, <1>9, <1>11, <2>1, <2>2, <2>3 DEF t
  <2>7. QED
    BY <1>1, <2>2, <2>3, <2>4, <2>5, <2>6 DEF InsideCall
<1>12. "commit" \in Steps
  BY DEF Steps
<1>13. QED
  BY <1>1, <1>5, <1>6, <1>10, <1>11, <1>12, StoreControlFacts DEF Running, Kept

\* What a call about to commit knows.
LEMMA CommitFacts ==
    ASSUME NEW p \in Procs, Running(p), pc[p] = "commit"
    PROVE  /\ lock = p /\ control # None /\ seen[p] = control
           /\ request[p] \in Request /\ now[p] \in Times
           /\ request[p].op = "issue" => InWindow(request[p].cap, now[p])
           /\ db = sealed /\ sealed \in Db /\ control.observed = now[p]
           /\ Permitted(request[p], now[p])
           /\ txn[p] = NewDb(request[p], now[p])
           /\ control.committed = sealed.ledger
           /\ control.pending = txn[p].ledger
           /\ GoodControl(control)
<1>1. /\ lock = p /\ control # None /\ seen[p] = control
      /\ request[p] \in Request /\ now[p] \in Times
      /\ request[p].op = "issue" => InWindow(request[p].cap, now[p])
      /\ db = sealed /\ control.observed = now[p]
      /\ Permitted(request[p], now[p])
      /\ txn[p] = NewDb(request[p], now[p])
      /\ control.committed = sealed.ledger
      /\ control.pending = txn[p].ledger
  BY DEF Running, CallInvariant, InsideCall
<1>2. sealed \in Db
  BY DEF Running, SharedInvariant, SharedTyped
<1>3. GoodControl(control)
  BY <1>1, ControlIsGood DEF Running, SharedInvariant
<1>4. QED
  BY <1>1, <1>2, <1>3

\* The commit makes the announced ledger the last committed one.
LEMMA CommitKeeps ==
    ASSUME NEW p \in Procs, Running(p), Commit(p)
    PROVE  Kept
<1> DEFINE x == txn[p]
           tr == NewTransition(request[p], now[p])
<1>1. /\ pc[p] = "commit" /\ lock = p /\ control # None /\ seen[p] = control
      /\ request[p] \in Request /\ now[p] \in Times
      /\ db = sealed /\ sealed \in Db /\ control.observed = now[p]
      /\ Permitted(request[p], now[p])
      /\ x = NewDb(request[p], now[p])
      /\ control.committed = sealed.ledger
      /\ control.pending = x.ledger
      /\ GoodControl(control)
  BY CommitFacts DEF Commit
<1>2. /\ x \in Db /\ tr \in Transition /\ tr.at = now[p]
      /\ x.ledger = Append(sealed.ledger, tr)
  BY <1>1, NewDbLedger
<1>3. /\ \A i \in Invocations :
             sealed.receipts[i] # None => x.receipts[i] = sealed.receipts[i]
      /\ request[p].op = "claim" => x.receipts[request[p].inv] # None
  BY <1>1, NewDbReceipts
<1>4. /\ db' = x /\ sealed' = x /\ snapshots' = snapshots \cup {x}
      /\ Proceed(p, "finalize", control, x)
      /\ UNCHANGED <<clock, control, delivered>>
  BY <1>1 DEF Commit
<1>5. control \in Control /\ "finalize" \in Steps
  BY <1>1 DEF GoodControl, Steps
<1> HIDE DEF x, tr
<1>6. /\ LocalsTyped'
      /\ lock' = p /\ request' = request /\ now' = now
      /\ request[p].op = "issue" => InWindow(request[p].cap, now[p])
      /\ pc'[p] = "finalize" /\ seen'[p] = control /\ txn'[p] = x
      /\ \A q \in Procs \ {p} : pc'[q] = "idle"
  BY <1>2, <1>4, <1>5, ProceedFacts DEF Running
<1>7. InsideCall(p)'
  BY <1>1, <1>3, <1>4, <1>6 DEF InsideCall
<1>8. SharedTyped'
  BY <1>2, <1>4 DEF Running, SharedInvariant, SharedTyped
<1>9. /\ sealed.ledger \in Seq(Transition)
      /\ Len(x.ledger) = Len(sealed.ledger) + 1
      /\ Len(sealed.ledger) \in Nat
      /\ x.ledger[Len(x.ledger)] = tr
  BY <1>1, <1>2 DEF Db, Ledger
<1>10. SnapshotsBehind'
  <2>1. \A d \in snapshots : d \in Db /\ Len(d.ledger) <= Len(sealed.ledger)
    BY DEF Running, SharedInvariant, SharedTyped, SnapshotsBehind
  <2>2. \A d \in snapshots : Len(d.ledger) \in Nat
    BY <2>1 DEF Db, Ledger
  <2>3. \A d \in snapshots : Len(d.ledger) < Len(x.ledger) /\ d.ledger # x.ledger
    BY <1>9, <2>1, <2>2
  <2>4. \A d \in snapshots \cup {x} :
           Len(d.ledger) <= Len(x.ledger) /\ (d.ledger = x.ledger => d = x)
    BY <1>9, <2>2, <2>3
  <2>5. QED
    BY <1>4, <2>4 DEF SnapshotsBehind
<1>11. SealedByControl' /\ ControlWellFormed'
  <2>1. now[p] <= now[p]
    <3>1. now[p] \in Times
      BY <1>1
    <3>2. now[p] \in Nat
      BY <3>1, TimesAssumption
    <3>3. QED
      BY <3>2
  <2>2. control.pending # None
    BY <1>1, <1>2, NoneAssumption DEF Db
  <2>3. Len(control.pending) = Len(control.committed) + 1
    BY <1>1, <2>2 DEF GoodControl
  <2>4. QED
    BY <1>1, <1>2, <1>4, <1>9, <2>1, <2>2, <2>3 DEF SealedByControl, ControlWellFormed
<1>12. DeliveredStaysSealed'
  <2>1. \A d \in delivered : /\ d.inv \in Invocations /\ d.receipt # None
                            /\ sealed.receipts[d.inv] = d.receipt
    BY NoneAssumption DEF Running, SharedInvariant, SharedTyped, DeliveredStaysSealed
  <2>2. QED
    BY <1>3, <1>4, <2>1 DEF DeliveredStaysSealed
<1>13. QED
  BY <1>6, <1>7, <1>8, <1>10, <1>11, <1>12, OnlyInside DEF Kept, SharedInvariant

\* Handing out a receipt of the last committed tables.
LEMMA DeliverKeeps ==
    ASSUME SharedInvariant, NEW i \in Invocations, sealed.receipts[i] # None,
           delivered' = delivered \cup {[inv |-> i, receipt |-> sealed.receipts[i]]},
           UNCHANGED <<clock, db, snapshots, control, sealed>>
    PROVE  SharedInvariant'
<1>1. sealed.receipts[i] \in Receipt
  BY DEF SharedInvariant, SharedTyped, Db
<1> DEFINE d == [inv |-> i, receipt |-> sealed.receipts[i]]
<1>2. d \in [inv : Invocations, receipt : Receipt] /\ sealed.receipts[d.inv] = d.receipt
  BY <1>1
<1> HIDE DEF d
<1>3. delivered' = delivered \cup {d}
  BY DEF d
<1>4. SharedTyped'
  BY <1>2, <1>3 DEF SharedInvariant, SharedTyped
<1>5. DeliveredStaysSealed'
  BY <1>2, <1>3 DEF SharedInvariant, DeliveredStaysSealed
<1>6. SealedByControl' /\ ControlWellFormed' /\ SnapshotsBehind'
  BY DEF SharedInvariant, SealedByControl, ControlWellFormed, SnapshotsBehind
<1>7. QED
  BY <1>4, <1>5, <1>6 DEF SharedInvariant

\* lookup_workflow_capability_receipt reads the last committed tables.
LEMMA LookupReceiptKeeps ==
    ASSUME NEW p \in Procs, Running(p), LookupReceipt(p)
    PROVE  Kept
<1> DEFINE i == request[p].inv
<1>1. /\ db = sealed /\ request[p] \in Request /\ request[p].op = "receipt"
  BY DEF LookupReceipt, Running, CallInvariant, InsideCall
<1>2. i \in Invocations
  BY <1>1, RequestFields
<1>3. Return(p) /\ UNCHANGED <<clock, db, snapshots, control, sealed>>
  BY DEF LookupReceipt
<1>4. CASE UNCHANGED delivered
  BY <1>3, <1>4, QuietReturn
<1>5. CASE /\ db.receipts[i] # None
           /\ delivered' = delivered \cup {[inv |-> i, receipt |-> db.receipts[i]]}
  <2>1. SharedInvariant'
    BY <1>1, <1>2, <1>3, <1>5, DeliverKeeps DEF Running
  <2>2. QED
    BY <1>3, <2>1, ReturnFacts DEF Running, Kept
<1>6. QED
  BY <1>4, <1>5 DEF LookupReceipt

\* Finalizing completes the announcement; only then is the receipt returned.
LEMMA FinalizeKeeps ==
    ASSUME NEW p \in Procs, Running(p), Finalize(p)
    PROVE  Kept
<1> DEFINE i == request[p].inv
           k == [committed |-> seen[p].pending, pending |-> None,
                 observed  |-> seen[p].observed]
<1>1. /\ pc[p] = "finalize" /\ control # None /\ seen[p] = control
      /\ request[p] \in Request /\ txn[p] = sealed
      /\ control.pending = sealed.ledger
      /\ request[p].op = "claim" => sealed.receipts[i] # None
  BY DEF Finalize, Running, CallInvariant, InsideCall
<1>2. control \in Control /\ sealed \in Db
  BY <1>1 DEF Running, SharedInvariant, SharedTyped
<1>3. GoodControl(control)
  BY <1>1, ControlIsGood DEF Running, SharedInvariant
<1>4. k \in Control
  BY <1>1, <1>2 DEF Control, Db
<1>5. GoodControl(k)
  BY <1>1, <1>3, <1>4 DEF GoodControl
<1>6. UNCHANGED <<clock, db, snapshots, sealed>>
  BY DEF Finalize
<1>7. CASE control' = k /\ Return(p) /\ request[p].op = "claim"
           /\ delivered' = delivered \cup {[inv |-> i, receipt |-> sealed.receipts[i]]}
  <2>1. i \in Invocations
    BY <1>1, <1>7, RequestFields
  <2>2. LocalsTyped' /\ CallInvariant'
    BY <1>1, <1>7, ReturnFacts DEF Running
  <2> DEFINE d == [inv |-> i, receipt |-> sealed.receipts[i]]
  <2>3. /\ d \in [inv : Invocations, receipt : Receipt]
        /\ sealed.receipts[d.inv] = d.receipt
    BY <1>1, <1>2, <1>7, <2>1 DEF Db
  <2> HIDE DEF d
  <2>4. delivered' = delivered \cup {d}
    BY <1>7 DEF d
  <2>5. SharedTyped' /\ DeliveredStaysSealed'
    <3>1. control' \in Control
      BY <1>4, <1>7
    <3>2. QED
      BY <1>6, <2>3, <2>4, <3>1
         DEF Running, SharedInvariant, SharedTyped, DeliveredStaysSealed
  <2>6. SealedByControl' /\ ControlWellFormed'
    <3>1. k # None
      BY <1>4, NoControlAssumption
    <3> HIDE DEF k
    <3>2. QED
      BY <1>5, <1>6, <1>7, <3>1 DEF GoodControl, SealedByControl, ControlWellFormed
  <2>7. SnapshotsBehind'
    BY <1>6 DEF Running, SharedInvariant, SnapshotsBehind
  <2>8. QED
    BY <2>2, <2>5, <2>6, <2>7 DEF Kept, SharedInvariant
<1>8. CASE control' \in {control, k} /\ Return(p) /\ UNCHANGED delivered
  <2> HIDE DEF k
  <2>1. SharedInvariant'
    BY <1>5, <1>6, <1>8, StoreKeepsShared DEF Running
  <2>2. QED
    BY <1>1, <1>8, <2>1, ReturnFacts DEF Running, Kept
<1>9. QED
  BY <1>1, <1>7, <1>8 DEF Finalize, ControlStoreFails

----------------------------------------------------------------------------
(* The remaining actions, and the invariant.                               *)

\* Entering the locked section.
LEMMA BeginKeeps ==
    ASSUME AuthorityInvariant, NEW p \in Procs, NEW r \in Request, Begin(p, r)
    PROVE  Kept
<1>1. LocalsTyped /\ SharedInvariant /\ CallInvariant
  BY InvariantParts
<1>2. clock \in Times
  BY <1>1 DEF SharedInvariant, SharedTyped
<1>3. SharedInvariant'
  BY <1>1, <1>2, SharedUnchanged DEF Begin
<1>4. \A q \in Procs : pc[q] = "idle"
  BY <1>1, ProcsAssumption DEF CallInvariant, InsideCall, Begin
<1>5. LocalsTyped'
  BY <1>1, <1>2 DEF LocalsTyped, Begin, Steps
<1>6. /\ lock' = p /\ pc'[p] = "load" /\ request'[p] = r /\ now'[p] = clock
      /\ \A q \in Procs \ {p} : pc'[q] = "idle"
      /\ r.op = "issue" => InWindow(r.cap, clock)
  BY <1>1, <1>4 DEF LocalsTyped, Begin
<1>7. InsideCall(p)'
  BY <1>2, <1>6 DEF InsideCall
<1>8. QED
  BY <1>3, <1>5, <1>6, <1>7, OnlyInside DEF Kept

\* Falling back to an earlier database ends every call and moves no seal.
LEMMA DatabaseLossKeeps ==
    ASSUME AuthorityInvariant, DatabaseLoss
    PROVE  Kept
<1>1. LocalsTyped /\ SharedInvariant /\ CallInvariant
  BY InvariantParts
<1>2. LocalsTyped'
  BY DEF DatabaseLoss, LocalsTyped, Steps
<1>3. CallInvariant'
  BY DEF DatabaseLoss, CallInvariant
<1>4. SharedInvariant'
  BY <1>1 DEF DatabaseLoss, SharedInvariant, SharedTyped, SealedByControl,
              ControlWellFormed, SnapshotsBehind, DeliveredStaysSealed
<1>5. QED
  BY <1>2, <1>3, <1>4 DEF Kept

\* The wall clock is free.
LEMMA SetClockKeeps ==
    ASSUME AuthorityInvariant, NEW t \in Times, SetClock(t)
    PROVE  Kept
<1>1. LocalsTyped /\ SharedInvariant /\ CallInvariant
  BY InvariantParts
<1>2. SharedInvariant'
  BY <1>1, SharedUnchanged DEF SetClock
<1>3. LocalsTyped'
  BY <1>1 DEF SetClock, locals, LocalsTyped
<1>4. CallInvariant'
  BY <1>1 DEF SetClock, locals, CallInvariant, InsideCall, Permitted, MayIssue,
              MayClaim, MayRevoke, Stored, NewDb
<1>5. QED
  BY <1>2, <1>3, <1>4 DEF Kept

\* Every step of a call that is inside keeps the invariant.
LEMMA AdvanceKeeps ==
    ASSUME ToleratedFaults, AuthorityInvariant, NEW p \in Procs, Advance(p)
    PROVE  Kept
<1>1. LocalsTyped /\ SharedInvariant /\ CallInvariant
  BY InvariantParts
<1>2. pc[p] # "idle"
  BY DEF Advance, LoadRefused, Bootstrap, LoadControl, PendingUnresolved,
         ResolveForward, ObserveRefused, Observe, Prepare, Decline, Lookup,
         LookupReceipt, Commit, Finalize
<1>3. Running(p)
  BY <1>1, <1>2 DEF Running
<1>4. CASE LoadRefused(p)
  BY <1>3, <1>4, QuietReturn DEF LoadRefused
<1>5. CASE PendingUnresolved(p)
  BY <1>3, <1>5, QuietReturn DEF PendingUnresolved
<1>6. CASE ObserveRefused(p)
  BY <1>3, <1>6, QuietReturn DEF ObserveRefused
<1>7. CASE Decline(p)
  BY <1>3, <1>7, QuietReturn DEF Decline
<1>8. CASE Lookup(p)
  BY <1>3, <1>8, QuietReturn DEF Lookup
<1>9. QED
  BY <1>3, <1>4, <1>5, <1>6, <1>7, <1>8, BootstrapKeeps, LoadControlKeeps,
     ResolveForwardKeeps, ObserveKeeps, PrepareKeeps, LookupReceiptKeeps,
     CommitKeeps, FinalizeKeeps DEF Advance

\* AuthorityInvariant is inductive: whatever fails, the keychain names the
\* last committed ledger, every database the store can fall back to is behind
\* it or is it, and every receipt handed out is in it.
THEOREM AuthorityInvariantHolds ==
    ASSUME ToleratedFaults
    PROVE  Spec => []AuthorityInvariant
<1>1. Init => AuthorityInvariant
  <2> SUFFICES ASSUME Init PROVE AuthorityInvariant
    OBVIOUS
  <2>1. LocalsTyped
    BY DEF Init, LocalsTyped, Steps
  <2>2. SharedInvariant
    BY EmptyDbType DEF Init, SharedInvariant, SharedTyped, SealedByControl,
       ControlWellFormed, SnapshotsBehind, DeliveredStaysSealed, EmptyDb
  <2>3. CallInvariant
    BY DEF Init, CallInvariant
  <2>4. QED
    BY <2>1, <2>2, <2>3, InvariantParts
<1>2. AuthorityInvariant /\ [Next]_vars => AuthorityInvariant'
  <2> SUFFICES ASSUME AuthorityInvariant, [Next]_vars
               PROVE  AuthorityInvariant'
    OBVIOUS
  <2>0. Kept => AuthorityInvariant'
    BY TypeParts DEF Kept, AuthorityInvariant, SharedInvariant, TypeOK, LocalsTyped,
                     SharedTyped
  <2>1. ASSUME NEW p \in Procs, NEW r \in Request, Begin(p, r)
        PROVE  AuthorityInvariant'
    BY <2>0, <2>1, BeginKeeps
  <2>2. ASSUME NEW p \in Procs, Advance(p) PROVE AuthorityInvariant'
    BY <2>0, <2>2, AdvanceKeeps
  <2>3. ASSUME NEW p \in Procs, Crash(p) PROVE AuthorityInvariant'
    <3>1. Running(p)
      BY <2>3, InvariantParts DEF Running, Crash
    <3>2. QED
      BY <2>0, <2>3, <3>1, QuietReturn DEF Crash
  <2>4. CASE DatabaseLoss
    BY <2>0, <2>4, DatabaseLossKeeps
  <2>5. ASSUME NEW t \in Times, SetClock(t) PROVE AuthorityInvariant'
    BY <2>0, <2>5, SetClockKeeps
  <2>6. CASE UNCHANGED vars
    BY <2>6 DEF vars, AuthorityInvariant, TypeOK, SealedByControl, ControlWellFormed,
       SnapshotsBehind, DeliveredStaysSealed, CallInvariant, InsideCall, Permitted,
       MayIssue, MayClaim, MayRevoke, Stored, NewDb
  <2>7. QED
    BY <2>1, <2>2, <2>3, <2>4, <2>5, <2>6 DEF Next
<1>3. QED
  BY <1>1, <1>2, PTL DEF Spec

\* The keychain always names the last committed ledger or announces it.
THEOREM SealedByControlHolds ==
    ASSUME ToleratedFaults
    PROVE  Spec => []SealedByControl
<1>1. AuthorityInvariant => SealedByControl
  BY DEF AuthorityInvariant
<1>2. QED
  BY <1>1, AuthorityInvariantHolds, PTL

----------------------------------------------------------------------------
(* The refinement: a commit is one entry in the book, every other step     *)
(* leaves the book alone.                                                  *)

\* The checks a permitted operation passed are the guards of its entry, and
\* its commit writes that entry.
LEMMA CommitIsEntry ==
    ASSUME AuthorityInvariant, NEW p \in Procs, Commit(p)
    PROVE  Book!Next
<1> DEFINE r == request[p]
           t == now[p]
<1>1. Running(p) /\ pc[p] = "commit"
  BY InvariantParts DEF Running, Commit
<1>2. /\ r \in Request /\ t \in Times /\ db = sealed
      /\ r.op = "issue" => InWindow(r.cap, t)
      /\ Permitted(r, t) /\ sealed' = NewDb(r, t)
      /\ GoodControl(control) /\ control.observed = t
  BY <1>1, CommitFacts DEF Commit
<1> HIDE DEF r, t
<1>3. Book!NotBeforeLast(t)
  BY <1>2 DEF Book!NotBeforeLast, GoodControl
<1>4. CASE r.op = "issue"
  <2>1. r.cap \in Caps
    BY <1>2, <1>4, RequestFields
  <2>2. sealed.rows[r.cap] = None
    BY <1>2, <1>4 DEF Permitted, MayIssue, MayClaim, MayRevoke, Stored
  <2>3. sealed' = Book!IssueTx(sealed, r.cap, t)
    BY <1>2, <1>4 DEF NewDb, Book!IssueTx, IssueTx, Book!IssuedTransition,
                      IssuedTransition
  <2>4. Book!IssueEntry(r.cap, t)
    BY <1>2, <1>3, <1>4, <2>2, <2>3 DEF Book!IssueEntry, Book!InWindow, InWindow
  <2>5. QED
    BY <1>2, <2>1, <2>4 DEF Book!Next
<1>5. CASE r.op = "claim"
  <2>1. r.cap \in Caps /\ r.inv \in Invocations
    BY <1>2, <1>5, RequestFields
  <2>2. MayClaim(r, t)
    BY <1>2, <1>5 DEF Permitted, MayIssue, MayClaim, MayRevoke
  <2>3. sealed' = Book!ClaimTx(sealed, r.cap, r.inv, t)
    BY <1>2, <1>5 DEF NewDb, Book!ClaimTx, ClaimTx, Book!ClaimedTransition,
                      ClaimedTransition
  <2>4. Book!ClaimEntry(r.cap, r.inv, t)
    BY <1>2, <1>3, <2>2, <2>3, Zenon
       DEF Book!ClaimEntry, Book!InWindow, InWindow, MayClaim, Stored
  <2>5. QED
    BY <1>2, <2>1, <2>4 DEF Book!Next
<1>6. CASE r.op = "revoke"
  <2>1. r.cap \in Caps
    BY <1>2, <1>6, RequestFields
  <2>2. MayRevoke(r)
    BY <1>2, <1>6 DEF Permitted, MayIssue, MayClaim, MayRevoke
  <2>3. sealed' = Book!RevokeTx(sealed, r.cap, t)
    BY <1>2, <1>6 DEF NewDb, Book!RevokeTx, RevokeTx, Book!RevokedTransition,
                      RevokedTransition
  <2>4. Book!RevokeEntry(r.cap, t)
    BY <1>2, <1>3, <2>2, <2>3, Zenon DEF Book!RevokeEntry, MayRevoke, Stored
  <2>5. QED
    BY <1>2, <2>1, <2>4 DEF Book!Next
<1>7. QED
  BY <1>2, <1>4, <1>5, <1>6, PermittedCases

\* Every step but a commit leaves the last committed tables alone.
LEMMA OnlyCommitSeals ==
    ASSUME [Next]_vars, \A p \in Procs : ~ Commit(p)
    PROVE  UNCHANGED sealed
BY DEF Next, vars, Begin, Advance, Crash, DatabaseLoss, SetClock, LoadRefused,
       Bootstrap, LoadControl, PendingUnresolved, ResolveForward, ObserveRefused,
       Observe, Prepare, Decline, Lookup, LookupReceipt, Finalize

\* The store implements the book: callers see atomic, permanent entries
\* although the two media can fail apart and calls can be cut short.
THEOREM StoreImplementsBook ==
    ASSUME ToleratedFaults
    PROVE  Spec => ImplementsBook
<1>1. Init => Book!Init
  BY DEF Init, Book!Init, EmptyDb, Book!EmptyDb
<1>2. AuthorityInvariant /\ [Next]_vars => [Book!Next]_sealed
  BY CommitIsEntry, OnlyCommitSeals
<1>3. QED
  BY <1>1, <1>2, AuthorityInvariantHolds, PTL DEF Spec, ImplementsBook, Book!Spec

\* The accounts of the book, kept for the last committed tables.
Accounts == INSTANCE CapabilityBookProofs WITH book <- sealed

\* A step of the store keeps the accounts, because it is an entry or nothing.
LEMMA AccountsStep ==
    ASSUME AuthorityInvariant, Accounts!UsesAccounted, [Next]_vars
    PROVE  Accounts!UsesAccounted'
<1>1. [Book!Next]_sealed
  BY CommitIsEntry, OnlyCommitSeals
<1>2. Book!Next => Accounts!Next
  BY DEF Book!Next, Accounts!Next, Book!IssueEntry, Accounts!IssueEntry,
         Book!ClaimEntry, Accounts!ClaimEntry, Book!RevokeEntry, Accounts!RevokeEntry,
         Book!NotBeforeLast, Accounts!NotBeforeLast, Book!InWindow, Accounts!InWindow,
         Book!IssueTx, Accounts!IssueTx, Book!ClaimTx, Accounts!ClaimTx,
         Book!RevokeTx, Accounts!RevokeTx,
         Book!IssuedTransition, Accounts!IssuedTransition,
         Book!ClaimedTransition, Accounts!ClaimedTransition,
         Book!RevokedTransition, Accounts!RevokedTransition
<1>3. Accounts!TypeOK
  <2>1. sealed \in Db
    BY DEF AuthorityInvariant, TypeOK
  <2> QED
    BY <2>1 DEF Accounts!TypeOK, Accounts!Db, Db, Accounts!Row, Row, Accounts!Receipt,
       Receipt, Accounts!Ledger, Ledger, Accounts!Transition, Transition, Accounts!Kinds, Kinds
<1>4. [Accounts!Next]_sealed
  BY <1>1, <1>2
<1> QED
  BY <1>3, <1>4, Accounts!EntryKeepsAccounts, MaxUsesAssumption, WindowAssumption,
     TimesAssumption, NoneAssumption
     DEF Accounts!Row, Row, Accounts!Receipt,
       Receipt, Accounts!Ledger, Ledger, Accounts!Transition, Transition, Accounts!Kinds, Kinds

\* Receipts handed out for one capability carry different use numbers between
\* 1 and max_uses.
LEMMA AccountsBoundUses ==
    ASSUME AuthorityInvariant, Accounts!UsesAccounted
    PROVE  UsesBounded
<1> SUFFICES ASSUME NEW c \in Caps
             PROVE  Cardinality({d \in delivered : d.receipt.cap = c}) <= MaxUses[c]
  BY DEF UsesBounded
<1> DEFINE S == {d \in delivered : d.receipt.cap = c}
           f == [d \in S |-> d.receipt.use]
<1>1. /\ sealed \in Db /\ delivered \subseteq [inv : Invocations, receipt : Receipt]
      /\ \A d \in delivered : sealed.receipts[d.inv] = d.receipt
  BY DEF AuthorityInvariant, TypeOK, DeliveredStaysSealed
<1>2. MaxUses[c] \in Nat
  BY MaxUsesAssumption
<1>3. ASSUME NEW d \in S
      PROVE  /\ d.inv \in Invocations /\ d.receipt \in Receipt /\ d.receipt # None
             /\ d.receipt.use \in 1 .. MaxUses[c]
  <2>1. /\ d.inv \in Invocations /\ d.receipt \in Receipt /\ d.receipt.cap = c
        /\ sealed.receipts[d.inv] = d.receipt
    BY <1>1
  <2>2. d.receipt # None
    BY <2>1, NoneAssumption
  <2>3. /\ sealed.rows[c] # None /\ sealed.rows[c].used <= MaxUses[c]
        /\ d.receipt.use \in 1 .. sealed.rows[c].used
    BY <2>1, <2>2 DEF Accounts!UsesAccounted
  <2>4. sealed.rows[c].used \in Nat
    BY <1>1, <2>3 DEF Db, Row
  <2> QED
    BY <1>2, <2>1, <2>2, <2>3, <2>4
<1>4. ASSUME NEW d \in S, NEW e \in S, d.receipt.use = e.receipt.use
      PROVE  d = e
  <2>1. d.receipt = e.receipt
    BY <1>3, <1>4 DEF Receipt
  <2>2. d.inv = e.inv
    BY <1>1, <1>3, <2>1 DEF Accounts!UsesAccounted
  <2> QED
    BY <1>1, <2>1, <2>2
<1>5. f \in Injection(S, 1 .. MaxUses[c])
  <2>1. f \in [S -> 1 .. MaxUses[c]]
    BY <1>3
  <2>2. \A d, e \in S : f[d] = f[e] => d = e
    BY <1>4
  <2> QED
    BY <2>1, <2>2 DEF Injection, IsInjective
<1>6. IsFiniteSet(1 .. MaxUses[c]) /\ Cardinality(1 .. MaxUses[c]) = MaxUses[c]
  BY <1>2, FS_Interval
<1> HIDE DEF S, f
<1>7. Cardinality(S) <= Cardinality(1 .. MaxUses[c])
  BY <1>5, <1>6, FS_Injection
<1> QED
  BY <1>6, <1>7 DEF S

\* No capability yields more receipts than its max_uses, counted over
\* everything claim_workflow_capability ever handed to any caller.
THEOREM UsesStayBounded ==
    ASSUME ToleratedFaults
    PROVE  Spec => []UsesBounded
<1>1. Init => Accounts!UsesAccounted
  BY DEF Init, EmptyDb, Accounts!UsesAccounted
<1>2. Spec => []Accounts!UsesAccounted
  BY <1>1, AccountsStep, AuthorityInvariantHolds, PTL DEF Spec
<1> QED
  BY <1>2, AccountsBoundUses, AuthorityInvariantHolds, PTL

\* The tables, the control record and the callers stay well typed under every
\* tolerated fault.
THEOREM StoreTyped ==
    ASSUME ToleratedFaults
    PROVE  Spec => []TypeOK
<1>1. AuthorityInvariant => TypeOK
  BY DEF AuthorityInvariant
<1> QED
  BY <1>1, AuthorityInvariantHolds, PTL

\* A receipt that claim_workflow_capability returned is in the committed tables
\* for ever, with the same use number, whatever is lost or crashes.
THEOREM DeliveredStaysSealedHolds ==
    ASSUME ToleratedFaults
    PROVE  Spec => []DeliveredStaysSealed
<1>1. AuthorityInvariant => DeliveredStaysSealed
  BY DEF AuthorityInvariant
<1> QED
  BY <1>1, AuthorityInvariantHolds, PTL

----------------------------------------------------------------------------
(* The store accepts whatever it can have written.                         *)

\* Every database the store can be left with is consistent.
SnapshotsConsistent == \A d \in snapshots : Consistent(d)

\* A commit adds one consistent database to those; no other step adds any.
LEMMA SnapshotsStayConsistent ==
    ASSUME AuthorityInvariant, SnapshotsConsistent, [Next]_vars
    PROVE  SnapshotsConsistent'
<1>1. ASSUME NEW p \in Procs, Commit(p) PROVE SnapshotsConsistent'
  <2> DEFINE r == request[p]
             t == now[p]
  <2>1. Running(p) /\ pc[p] = "commit"
    BY <1>1, InvariantParts DEF Running, Commit
  <2>2. /\ r \in Request /\ t \in Times /\ Permitted(r, t)
        /\ snapshots' = snapshots \cup {NewDb(r, t)}
    BY <1>1, <2>1, CommitFacts DEF Commit
  <2>3. db \in Db /\ Consistent(db)
    BY DEF AuthorityInvariant, TypeOK, SnapshotsBehind, SnapshotsConsistent
  <2> HIDE DEF r, t
  <2>4. CASE r.op = "issue"
    <3>1. r.cap \in Caps /\ db.rows[r.cap] = None
      BY <2>2, <2>4, RequestFields DEF Permitted, MayIssue, MayClaim, MayRevoke, Stored
    <3>2. NewDb(r, t) = IssueTx(db, r.cap, t)
      BY <2>4 DEF NewDb
    <3>3. QED
      BY <2>2, <2>3, <3>1, <3>2, IssueKeepsConsistent DEF SnapshotsConsistent
  <2>5. CASE r.op = "claim"
    <3>1. r.cap \in Caps /\ r.inv \in Invocations
      BY <2>2, <2>5, RequestFields
    <3>2. /\ db.rows[r.cap] # None /\ ~ db.rows[r.cap].revoked
          /\ db.receipts[r.inv] = None
      BY <2>2, <2>5, Zenon DEF Permitted, MayIssue, MayClaim, MayRevoke, Stored
    <3>3. NewDb(r, t) = ClaimTx(db, r.cap, r.inv, t)
      BY <2>5 DEF NewDb
    <3>4. Consistent(ClaimTx(db, r.cap, r.inv, t))
      BY <2>2, <2>3, <3>1, <3>2, ClaimKeepsConsistent
    <3>5. QED
      BY <2>2, <3>3, <3>4 DEF SnapshotsConsistent
  <2>6. CASE r.op = "revoke"
    <3>1. r.cap \in Caps
      BY <2>2, <2>6, RequestFields
    <3>2. db.rows[r.cap] # None /\ ~ db.rows[r.cap].revoked
      BY <2>2, <2>6, Zenon DEF Permitted, MayIssue, MayClaim, MayRevoke, Stored
    <3>3. NewDb(r, t) = RevokeTx(db, r.cap, t)
      BY <2>6 DEF NewDb
    <3>4. Consistent(RevokeTx(db, r.cap, t))
      BY <2>2, <2>3, <3>1, <3>2, RevokeKeepsConsistent
    <3>5. QED
      BY <2>2, <3>3, <3>4 DEF SnapshotsConsistent
  <2>7. QED
    BY <2>2, <2>4, <2>5, <2>6, PermittedCases
<1>2. ASSUME \A p \in Procs : ~ Commit(p) PROVE UNCHANGED snapshots
  BY <1>2 DEF Next, vars, Begin, Advance, Crash, DatabaseLoss, SetClock, LoadRefused,
     Bootstrap, LoadControl, PendingUnresolved, ResolveForward, ObserveRefused,
     Observe, Prepare, Decline, Lookup, LookupReceipt, Finalize
<1>3. QED
  BY <1>1, <1>2 DEF SnapshotsConsistent

\* load_and_validate_authority never rejects what the store itself wrote: no
\* sequence of issues, claims, revocations, crashes and restored databases
\* leaves a stored capability that its own consistency checks lock out.
THEOREM StoreNeverRejectsItselfHolds ==
    ASSUME ToleratedFaults
    PROVE  Spec => []StoreNeverRejectsItself
<1>1. Init => SnapshotsConsistent
  BY EmptyConsistent DEF Init, SnapshotsConsistent
<1>2. Spec => []SnapshotsConsistent
  BY <1>1, SnapshotsStayConsistent, AuthorityInvariantHolds, PTL DEF Spec
<1>3. SnapshotsConsistent => StoreNeverRejectsItself
  BY DEF SnapshotsConsistent, Consistent, ConsistentFor, StoreNeverRejectsItself
<1>4. QED
  BY <1>2, <1>3, PTL

----------------------------------------------------------------------------
(* The keychain control is monotone where it can be read.                  *)

\* The control record k may follow the one in the keychain.
Follows(k) ==
    /\ k # None
    /\ k.observed >= control.observed
    /\ Len(k.committed) >= Len(control.committed)
    /\ control.pending # None =>
          k.pending = control.pending \/ k.committed = control.pending

\* Each of the steps that write the control writes one that may follow.
LEMMA ControlFollows ==
    ASSUME AuthorityInvariant, "read" \notin Faults, [Next]_vars, control # None
    PROVE  Follows(control')
<1>1. /\ control \in Control
      /\ control.observed \in Nat
      /\ control.committed \in Ledger
      /\ control.pending # None => control.pending \in Ledger
      /\ Len(control.committed) \in Nat
      /\ control.pending # None => Len(control.pending) = Len(control.committed) + 1
  <2>1. control \in Control
    BY DEF AuthorityInvariant, TypeOK
  <2>2. /\ control.observed \in Nat
        /\ control.committed \in Ledger
        /\ control.pending # None => control.pending \in Ledger
    BY <2>1, TimesAssumption DEF Control
  <2>3. Len(control.committed) \in Nat
    BY <2>2 DEF Ledger
  <2>4. QED
    BY <2>1, <2>2, <2>3 DEF AuthorityInvariant, ControlWellFormed
<1>2. Follows(control)
  BY <1>1 DEF Follows
<1>3. ASSUME NEW p \in Procs, pc[p] \notin {"idle", "load"}
      PROVE  /\ seen[p] = control
             /\ now[p] \in Nat
             /\ pc[p] \in {"observe", "apply"} => control.pending = None
             /\ pc[p] \in {"resolve", "commit", "finalize"} => control.pending # None
             /\ pc[p] = "apply" => control.observed = now[p]
  <2>1. InsideCall(p)
    BY <1>3 DEF AuthorityInvariant, CallInvariant
  <2>2. sealed.ledger # None
    BY NoneAssumption DEF AuthorityInvariant, TypeOK, Db
  <2>3. pc[p] = "commit" => txn[p].ledger # None
    <3>1. txn[p] \in Db \cup {None}
      BY DEF AuthorityInvariant, TypeOK
    <3>2. pc[p] = "commit" => NewDb(request[p], now[p]).ledger \in Ledger
      BY <2>1, NewDbLedger DEF InsideCall, AuthorityInvariant, TypeOK, Db
    <3>3. QED
      BY <2>1, <3>2, NoneAssumption DEF InsideCall
  <2>4. QED
    BY <1>3, <2>1, <2>2, <2>3, TimesAssumption DEF InsideCall
<1>4. ASSUME NEW p \in Procs, Advance(p) PROVE Follows(control')
  <2>1. CASE ~ (ResolveForward(p) \/ Observe(p) \/ Prepare(p) \/ Finalize(p))
    <3>1. control' = control
      BY <1>4, <2>1 DEF Advance, LoadRefused, Bootstrap, LoadControl, ControlReads,
         PendingUnresolved, ObserveRefused, Decline, Lookup, LookupReceipt, Commit
    <3>2. QED
      BY <1>2, <3>1
  <2>2. CASE ResolveForward(p)
    <3> DEFINE k == [committed |-> db.ledger, pending |-> None,
                     observed |-> seen[p].observed]
    <3>1. /\ control.pending # None /\ seen[p] = control
          /\ db.ledger = control.pending
          /\ control' \in {control, k}
      BY <1>3, <2>2 DEF ResolveForward, StoreControl, ControlStoreFails
    <3>2. k # None
      <4>1. k \in Control
        BY <1>1, <3>1 DEF Control
      <4>2. QED
        BY <4>1, NoControlAssumption
    <3>3. Follows(k)
      BY <1>1, <3>1, <3>2 DEF Follows
    <3>4. QED
      BY <1>2, <3>1, <3>3
  <2>3. CASE Observe(p)
    <3> DEFINE k == [seen[p] EXCEPT !.observed = now[p]]
    <3>1. /\ control.pending = None /\ seen[p] = control /\ now[p] \in Nat
          /\ control' = control
             \/ (control' \in {control, k} /\ now[p] > control.observed)
      BY <1>3, <2>3 DEF Observe, StoreControl, ControlStoreFails
    <3>2. CASE control' = control
      BY <1>2, <3>2
    <3>3. CASE control' = k /\ now[p] > control.observed
      <4>1. /\ k.committed = control.committed /\ k.pending = None
            /\ k.observed = now[p]
        BY <1>1, <3>1 DEF Control
      <4>2. k # None
        <5>1. now[p] \in Times
          BY <2>3 DEF Observe, AuthorityInvariant, CallInvariant, InsideCall
        <5>2. k \in Control
          BY <1>1, <3>1, <5>1 DEF Control
        <5>3. QED
          BY <5>2, NoControlAssumption
      <4> HIDE DEF k
      <4>3. QED
        BY <1>1, <3>1, <3>3, <4>1, <4>2 DEF Follows
    <3>4. QED
      BY <3>1, <3>2, <3>3
  <2>4. CASE Prepare(p)
    <3> DEFINE tr == NewTransition(request[p], now[p])
               k == [committed |-> seen[p].committed,
                     pending   |-> Append(seen[p].committed, tr),
                     observed  |-> now[p]]
    <3>1. /\ control.pending = None /\ seen[p] = control
          /\ control.observed = now[p]
          /\ control' \in {control, k}
      BY <1>3, <2>4 DEF Prepare, StoreControl, ControlStoreFails
    <3>2. k # None
      <4>1. /\ request[p] \in Request /\ now[p] \in Times
            /\ Permitted(request[p], now[p]) /\ db \in Db
        BY <2>4 DEF Prepare, AuthorityInvariant, CallInvariant, InsideCall, TypeOK
      <4>2. tr \in Transition
        BY <4>1, NewDbLedger
      <4> HIDE DEF tr
      <4>3. k \in Control
        BY <1>1, <3>1, <4>1, <4>2 DEF Control, Ledger
      <4>4. QED
        BY <4>3, NoControlAssumption
    <3>3. k.committed = control.committed /\ k.observed = control.observed
      BY <3>1
    <3> HIDE DEF k
    <3>4. Follows(k)
      BY <1>1, <3>1, <3>2, <3>3 DEF Follows
    <3>5. QED
      BY <1>2, <3>1, <3>4
  <2>5. CASE Finalize(p)
    <3> DEFINE k == [committed |-> seen[p].pending, pending |-> None,
                     observed |-> seen[p].observed]
    <3>1. /\ control.pending # None /\ seen[p] = control
          /\ control' \in {control, k}
      BY <1>3, <2>5 DEF Finalize, ControlStoreFails
    <3>2. k # None
      <4>1. k \in Control
        BY <1>1, <3>1 DEF Control
      <4>2. QED
        BY <4>1, NoControlAssumption
    <3>3. Follows(k)
      BY <1>1, <3>1, <3>2 DEF Follows
    <3>4. QED
      BY <1>2, <3>1, <3>3
  <2>6. QED
    BY <2>1, <2>2, <2>3, <2>4, <2>5
<1>5. CASE ~ \E p \in Procs : Advance(p)
  <2>1. control' = control
    BY <1>5 DEF Next, vars, Begin, Crash, DatabaseLoss, SetClock
  <2>2. QED
    BY <1>2, <2>1
<1>6. QED
  BY <1>4, <1>5

\* While the keychain answers its reads, its clock high water never falls, its
\* committed ledger only grows, and a transition announced by
\* prepare_control_transition stays announced until it is the committed one.
\* A keychain that reports a stored item as absent breaks this (wca_bootstrap).
THEOREM ControlMonotoneHolds ==
    ASSUME "read" \notin Faults
    PROVE  Spec => ControlMonotone
<1> DEFINE Step ==
      control # None =>
         /\ control' # None
         /\ control'.observed >= control.observed
         /\ Len(control'.committed) >= Len(control.committed)
         /\ control.pending # None =>
                \/ control'.pending = control.pending
                \/ control'.committed = control.pending
<1>1. ASSUME AuthorityInvariant, [Next]_vars PROVE [Step]_vars
  BY <1>1, ControlFollows DEF Follows
<1>2. ToleratedFaults
  BY DEF ToleratedFaults
<1>3. Spec => []AuthorityInvariant
  BY <1>2, AuthorityInvariantHolds
<1>4. QED
  BY <1>1, <1>3, PTL DEF Spec, ControlMonotone
=============================================================================
