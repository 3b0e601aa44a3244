------------------------- MODULE WorkflowAuthority -------------------------
(***************************************************************************)
(* The workflow-capability store of HOL Guard: processes that issue, claim,*)
(* revoke and look up signed capabilities in one guard home.               *)
(*                                                                         *)
(* The tables live in SQLite, which can be rolled back (a restored backup, *)
(* or commits lost with the WAL, which runs with synchronous=NORMAL).  A   *)
(* small control record in the system keychain detects that: it names the  *)
(* ledger the database must hold.  The two are separate media, so a writer *)
(* runs a two-phase protocol under a cross-process file lock:              *)
(*                                                                         *)
(*   load, resolve, observe   compare control and ledger, move the clock   *)
(*                            high water                                   *)
(*   prepare                  keychain: pending = the ledger to come       *)
(*   commit                   SQLite: the rows and the transition          *)
(*   finalize                 keychain: committed = pending                *)
(*                                                                         *)
(* Between any two of these steps the process can die, and every keychain  *)
(* call can fail.                                                          *)
(***************************************************************************)
EXTENDS CapabilityRecords

CONSTANTS
    Procs,   \* processes (or threads) that share the guard home
    Faults   \* what may go wrong, a subset of FaultKinds

FaultKinds ==
    {"crash",  \* an exception or a kill between two steps
     "loss",   \* the database falls back to an earlier committed state
     "read",   \* a keychain read answers None although the item is there
     "write"}  \* a keychain write reports failure, written or not

ASSUME FaultsAssumption == Faults \subseteq FaultKinds
ASSUME ProcsAssumption == None \notin Procs

Control == [committed : Ledger, pending : Ledger \cup {None}, observed : Times]
ASSUME NoControlAssumption == None \notin Control

Request == [op : {"issue", "revoke", "lookup"}, cap : Caps, inv : {None}]
      \cup [op : {"claim"}, cap : Caps, inv : Invocations]
      \cup [op : {"receipt"}, cap : {None}, inv : Invocations]

ASSUME NoRequestAssumption == None \notin Request

Steps == {"idle", "load", "resolve", "observe", "apply", "commit", "finalize"}

VARIABLES
    clock,      \* the wall clock; it may be set back
    db,         \* the SQLite tables, as committed
    snapshots,  \* the committed states the database may fall back to
    control,    \* the keychain item, None when absent
    lock,       \* holder of workflow-capability-authority.lock
    pc,         \* where each process is in its call
    request,    \* the call each process is making
    now,        \* the time that call read when it started
    seen,       \* the control that call has loaded
    txn,        \* what its open transaction will commit
    sealed,     \* history: the last state any process committed
    delivered   \* history: receipts handed to callers

vars == <<clock, db, snapshots, control, lock, pc, request, now, seen, txn,
          sealed, delivered>>

locals == <<pc, request, now, seen, txn>>

Init == /\ clock \in Times
        /\ db = EmptyDb
        /\ snapshots = {EmptyDb}
        /\ control = None
        /\ lock = None
        /\ pc = [p \in Procs |-> "idle"]
        /\ request = [p \in Procs |-> None]
        /\ now = [p \in Procs |-> None]
        /\ seen = [p \in Procs |-> None]
        /\ txn = [p \in Procs |-> None]
        /\ sealed = EmptyDb
        /\ delivered = {}

----------------------------------------------------------------------------
(* Leaving and entering the locked section.                                *)

\* The call ends: its transaction, if still open, is rolled back, its
\* connection closed, and the lock released.
Return(p) ==
    /\ lock' = None
    /\ pc' = [pc EXCEPT ![p] = "idle"]
    /\ request' = [request EXCEPT ![p] = None]
    /\ now' = [now EXCEPT ![p] = None]
    /\ seen' = [seen EXCEPT ![p] = None]
    /\ txn' = [txn EXCEPT ![p] = None]

\* The call goes on to step s, with control record k in hand and x as the
\* contents of its transaction.
Proceed(p, s, k, x) ==
    /\ pc' = [pc EXCEPT ![p] = s]
    /\ seen' = [seen EXCEPT ![p] = k]
    /\ txn' = [txn EXCEPT ![p] = x]
    /\ UNCHANGED <<lock, request, now>>

\* Variant: a call that does not wait for the lock.
BeginUnlocked(p, r) ==
    /\ pc[p] = "idle"
    /\ r.op = "issue" => InWindow(r.cap, clock)
    /\ lock' = p
    /\ pc' = [pc EXCEPT ![p] = "load"]
    /\ request' = [request EXCEPT ![p] = r]
    /\ now' = [now EXCEPT ![p] = clock]
    /\ UNCHANGED <<clock, db, snapshots, control, seen, txn, sealed, delivered>>

\* A claim outside its window is refused to an issuer before anything is
\* read; a claimant is refused only after the clock has been observed.
Begin(p, r) ==
    /\ pc[p] = "idle"
    /\ lock = None
    /\ r.op = "issue" => InWindow(r.cap, clock)
    /\ lock' = p
    /\ pc' = [pc EXCEPT ![p] = "load"]
    /\ request' = [request EXCEPT ![p] = r]
    /\ now' = [now EXCEPT ![p] = clock]
    /\ UNCHANGED <<clock, db, snapshots, control, seen, txn, sealed, delivered>>

----------------------------------------------------------------------------
(* The keychain.                                                           *)

\* What a read of the control item can answer.
ControlReads == {control} \cup (IF "read" \in Faults THEN {None} ELSE {})

\* A write that reports failure ends the call with an error; the item may
\* have been written, because the write is followed by a read that can fail.
ControlStoreFails(p, k) ==
    /\ "write" \in Faults
    /\ control' \in {control, k}
    /\ Return(p)

StoreControl(p, k, s, x) ==
    \/ control' = k /\ Proceed(p, s, k, x)
    \/ ControlStoreFails(p, k)

----------------------------------------------------------------------------
(* load_validate_and_observe_control                                       *)

\* No control: refuse to adopt existing authority data, and let only an
\* issuer create the first control record.
LoadRefused(p) ==
    /\ pc[p] = "load"
    /\ None \in ControlReads
    /\ HasAuthorityData(db) \/ request[p].op # "issue"
    /\ Return(p)
    /\ UNCHANGED <<clock, db, snapshots, control, sealed, delivered>>

\* Variant: the first control record is created next to existing data.
BootstrapAnyData(p) ==
    /\ pc[p] = "load"
    /\ None \in ControlReads
    /\ request[p].op = "issue"
    /\ StoreControl(p, [committed |-> << >>, pending |-> None,
                        observed  |-> now[p]], "observe", None)
    /\ UNCHANGED <<clock, db, snapshots, sealed, delivered>>

Bootstrap(p) ==
    /\ pc[p] = "load"
    /\ None \in ControlReads
    /\ ~ HasAuthorityData(db)
    /\ request[p].op = "issue"
    /\ StoreControl(p, [committed |-> << >>, pending |-> None,
                        observed  |-> now[p]], "observe", None)
    /\ UNCHANGED <<clock, db, snapshots, sealed, delivered>>

LoadControl(p) ==
    /\ pc[p] = "load"
    /\ control # None
    /\ Proceed(p, IF control.pending # None THEN "resolve" ELSE "observe",
               control, None)
    /\ UNCHANGED <<clock, db, snapshots, control, sealed, delivered>>

\* Variant: an announcement that was not committed is withdrawn.
PendingWithdrawn(p) ==
    /\ pc[p] = "resolve"
    /\ db.ledger # seen[p].pending
    /\ StoreControl(p, [seen[p] EXCEPT !.pending = None], "observe", None)
    /\ UNCHANGED <<clock, db, snapshots, sealed, delivered>>

\* Variant: the call waits for the announcement to be resolved by another.
PendingAwaited(p) ==
    /\ pc[p] = "resolve"
    /\ db.ledger # seen[p].pending
    /\ Proceed(p, "load", seen[p], None)
    /\ UNCHANGED <<clock, db, snapshots, control, sealed, delivered>>

\* A pending transition is only ever completed, never abandoned.
PendingUnresolved(p) ==
    /\ pc[p] = "resolve"
    /\ db.ledger # seen[p].pending
    /\ Return(p)
    /\ UNCHANGED <<clock, db, snapshots, control, sealed, delivered>>

\* Variant: the announcement is resolved in memory only.
ResolveInMemory(p) ==
    /\ pc[p] = "resolve"
    /\ db.ledger = seen[p].pending
    /\ Proceed(p, "observe", [committed |-> db.ledger, pending |-> None,
                              observed  |-> seen[p].observed], None)
    /\ UNCHANGED <<clock, db, snapshots, control, sealed, delivered>>

ResolveForward(p) ==
    /\ pc[p] = "resolve"
    /\ db.ledger = seen[p].pending
    /\ StoreControl(p, [committed |-> db.ledger, pending |-> None,
                        observed  |-> seen[p].observed], "observe", None)
    /\ UNCHANGED <<clock, db, snapshots, sealed, delivered>>

\* Rollback of the database or of the clock.
ObserveRefused(p) ==
    /\ pc[p] = "observe"
    /\ \/ db.ledger # seen[p].committed
       \/ now[p] < seen[p].observed
    /\ Return(p)
    /\ UNCHANGED <<clock, db, snapshots, control, sealed, delivered>>

\* Variant: the ledger is not compared with the committed head.
ObserveAnyLedger(p) ==
    /\ pc[p] = "observe"
    /\ now[p] >= seen[p].observed
    /\ StoreControl(p, [seen[p] EXCEPT !.observed = now[p]], "apply", None)
    /\ UNCHANGED <<clock, db, snapshots, sealed, delivered>>

\* Variant: a clock that went back is accepted.
ObserveAnyTime(p) ==
    /\ pc[p] = "observe"
    /\ db.ledger = seen[p].committed
    /\ StoreControl(p, [seen[p] EXCEPT !.observed = now[p]], "apply", None)
    /\ UNCHANGED <<clock, db, snapshots, sealed, delivered>>

\* The high water moves only when time has advanced.
Observe(p) ==
    /\ pc[p] = "observe"
    /\ db.ledger = seen[p].committed
    /\ now[p] >= seen[p].observed
    /\ \/ /\ now[p] = seen[p].observed
          /\ Proceed(p, "apply", seen[p], None)
          /\ UNCHANGED control
       \/ /\ now[p] > seen[p].observed
          /\ StoreControl(p, [seen[p] EXCEPT !.observed = now[p]], "apply", None)
    /\ UNCHANGED <<clock, db, snapshots, sealed, delivered>>

----------------------------------------------------------------------------
(* The operations proper.                                                  *)

Stored(c) == db.rows[c] # None

\* Variant: a capability is issued over an existing one.
MayIssueAgain(r) == r.op = "issue"

MayIssue(r) == r.op = "issue" /\ ~ Stored(r.cap)

\* Variant: a revoked capability is still claimed.
MayClaimRevoked(r, t) ==
    /\ r.op = "claim"
    /\ Stored(r.cap)
    /\ InWindow(r.cap, t)
    /\ db.rows[r.cap].used < MaxUses[r.cap]
    /\ db.receipts[r.inv] = None

\* Variant: an invocation id is accepted twice.
MayClaimReplayed(r, t) ==
    /\ r.op = "claim"
    /\ Stored(r.cap)
    /\ InWindow(r.cap, t)
    /\ ~ db.rows[r.cap].revoked
    /\ db.rows[r.cap].used < MaxUses[r.cap]

\* In the order of the code: the row exists and is consistent, the window is
\* open, the capability is not revoked and not exhausted, the invocation new.
MayClaim(r, t) ==
    /\ r.op = "claim"
    /\ Stored(r.cap)
    /\ AuthorityValid(db, r.cap)
    /\ InWindow(r.cap, t)
    /\ ~ db.rows[r.cap].revoked
    /\ db.rows[r.cap].used < MaxUses[r.cap]
    /\ db.receipts[r.inv] = None

\* Variant: a revoked capability is revoked again.
MayRevokeTwice(r) == r.op = "revoke" /\ Stored(r.cap)

MayRevoke(r) ==
    /\ r.op = "revoke"
    /\ Stored(r.cap)
    /\ AuthorityValid(db, r.cap)
    /\ ~ db.rows[r.cap].revoked

Permitted(r, t) == MayIssue(r) \/ MayClaim(r, t) \/ MayRevoke(r)

\* The transition the call appends, and the tables after its transaction.
NewTransition(r, t) ==
    CASE r.op = "issue"  -> IssuedTransition(r.cap, t)
      [] r.op = "claim"  -> ClaimedTransition(db, r.cap, t)
      [] r.op = "revoke" -> RevokedTransition(r.cap, t)

NewDb(r, t) ==
    CASE r.op = "issue"  -> IssueTx(db, r.cap, t)
      [] r.op = "claim"  -> ClaimTx(db, r.cap, r.inv, t)
      [] r.op = "revoke" -> RevokeTx(db, r.cap, t)

\* prepare_control_transition: the transition is numbered and chained from
\* the control's committed head, and announced before the commit.
Prepare(p) ==
    LET r == request[p]
        t == now[p]
    IN  /\ pc[p] = "apply"
        /\ Permitted(r, t)
        /\ seen[p].pending = None
        /\ StoreControl(p, [committed |-> seen[p].committed,
                            pending   |-> Append(seen[p].committed,
                                                 NewTransition(r, t)),
                            observed  |-> t], "commit", NewDb(r, t))
        /\ UNCHANGED <<clock, db, snapshots, sealed, delivered>>

\* The call fails its checks, or its caller's context does not match the
\* claim (binding, subject, task, issuer, approval).
Decline(p) ==
    LET r == request[p]
    IN  /\ pc[p] = "apply"
        /\ r.op \in {"issue", "claim", "revoke"}
        /\ r.op = "claim" \/ ~ Permitted(r, now[p])
        /\ Return(p)
        /\ UNCHANGED <<clock, db, snapshots, control, sealed, delivered>>

\* lookup_workflow_capability: reads only.
Lookup(p) ==
    /\ pc[p] = "apply"
    /\ request[p].op = "lookup"
    /\ Return(p)
    /\ UNCHANGED <<clock, db, snapshots, control, sealed, delivered>>

\* Variant: a missing receipt is handed out.
LookupReceiptUnchecked(p) ==
    LET i == request[p].inv
    IN  /\ pc[p] = "apply"
        /\ request[p].op = "receipt"
        /\ delivered' = delivered \cup {[inv |-> i, receipt |-> db.receipts[i]]}
        /\ Return(p)
        /\ UNCHANGED <<clock, db, snapshots, control, sealed>>

\* lookup_workflow_capability_receipt: hands out a stored receipt again.
LookupReceipt(p) ==
    LET i     == request[p].inv
        found == /\ db.receipts[i] # None
                 /\ AuthorityValid(db, db.receipts[i].cap)
    IN  /\ pc[p] = "apply"
        /\ request[p].op = "receipt"
        /\ delivered' = IF found
                        THEN delivered \cup
                               {[inv |-> i, receipt |-> db.receipts[i]]}
                        ELSE delivered
        /\ Return(p)
        /\ UNCHANGED <<clock, db, snapshots, control, sealed>>

Commit(p) ==
    /\ pc[p] = "commit"
    /\ db' = txn[p]
    /\ sealed' = txn[p]
    /\ snapshots' = snapshots \cup {txn[p]}
    /\ Proceed(p, "finalize", seen[p], txn[p])
    /\ UNCHANGED <<clock, control, delivered>>

\* finalize_control_transition; the caller gets its receipt only after it.
Finalize(p) ==
    LET i    == request[p].inv
        done == [committed |-> seen[p].pending, pending |-> None,
                 observed  |-> seen[p].observed]
    IN  /\ pc[p] = "finalize"
        /\ \/ /\ control' = done
              /\ Return(p)
              /\ delivered' = IF request[p].op = "claim"
                              THEN delivered \cup
                                     {[inv |-> i, receipt |-> txn[p].receipts[i]]}
                              ELSE delivered
           \/ /\ ControlStoreFails(p, done)
              /\ UNCHANGED delivered
        /\ UNCHANGED <<clock, db, snapshots, sealed>>

----------------------------------------------------------------------------
(* The environment.                                                        *)

\* The process dies or an exception unwinds it; the operating system and
\* SQLite drop its lock and its open transaction.
Crash(p) ==
    /\ "crash" \in Faults
    /\ pc[p] # "idle"
    /\ Return(p)
    /\ UNCHANGED <<clock, db, snapshots, control, sealed, delivered>>

DatabaseLoss ==
    /\ "loss" \in Faults
    /\ db' \in snapshots
    /\ lock' = None
    /\ pc' = [p \in Procs |-> "idle"]
    /\ request' = [p \in Procs |-> None]
    /\ now' = [p \in Procs |-> None]
    /\ seen' = [p \in Procs |-> None]
    /\ txn' = [p \in Procs |-> None]
    /\ UNCHANGED <<clock, snapshots, control, sealed, delivered>>

SetClock(t) ==
    /\ clock' = t
    /\ UNCHANGED <<db, snapshots, control, lock, locals, sealed, delivered>>

Advance(p) ==
    \/ LoadRefused(p) \/ Bootstrap(p) \/ LoadControl(p)
    \/ PendingUnresolved(p) \/ ResolveForward(p)
    \/ ObserveRefused(p) \/ Observe(p)
    \/ Prepare(p) \/ Decline(p) \/ Lookup(p) \/ LookupReceipt(p)
    \/ Commit(p) \/ Finalize(p)

Next == \/ \E p \in Procs : (\E r \in Request : Begin(p, r)) \/ Advance(p) \/ Crash(p)
        \/ DatabaseLoss
        \/ \E t \in Times : SetClock(t)

Spec == Init /\ [][Next]_vars

----------------------------------------------------------------------------
(* Fairness.  A call that holds the lock keeps running and callers keep    *)
(* coming back.  Processes may die and keychain reads and writes may fail  *)
(* for ever, but not always at the same step: a control that is read again *)
(* and again, or a resolution written again and again, gets through.       *)

Resolved(p) == ResolveForward(p) /\ pc'[p] # "idle"

Fairness ==
    /\ \A p \in Procs : WF_vars(Advance(p)) /\ SF_vars(LoadControl(p)) /\ SF_vars(Resolved(p))
    /\ WF_vars(\E p \in Procs, r \in Request : r.op = "lookup" /\ Begin(p, r))

LiveSpec == Spec /\ Fairness

----------------------------------------------------------------------------
(* Properties.                                                             *)

\* Losing the database and misreading the keychain are tolerated singly: an
\* empty database next to an unreadable control looks like a first start.
ToleratedFaults == ~ ({"loss", "read"} \subseteq Faults)

TypeOK ==
    /\ clock \in Times
    /\ db \in Db
    /\ snapshots \subseteq Db
    /\ control \in Control \cup {None}
    /\ lock \in Procs \cup {None}
    /\ pc \in [Procs -> Steps]
    /\ request \in [Procs -> Request \cup {None}]
    /\ now \in [Procs -> Times \cup {None}]
    /\ seen \in [Procs -> Control \cup {None}]
    /\ txn \in [Procs -> Db \cup {None}]
    /\ sealed \in Db
    /\ delivered \subseteq [inv : Invocations, receipt : Receipt]

\* The keychain always names the last committed ledger: as committed when no
\* transition is announced, else as one of the two ends of the announced one.
\* So a database that the next call accepts is the last one committed, however
\* often the real one was lost or a call was cut short.
SealedByControl ==
    IF control = None THEN sealed = EmptyDb
    ELSE IF control.pending = None THEN control.committed = sealed.ledger
    ELSE sealed.ledger \in {control.committed, control.pending}

\* A receipt handed to a caller is never forgotten: the last committed tables
\* hold it, under that invocation, with that use number.
DeliveredStaysSealed ==
    \A d \in delivered : sealed.receipts[d.inv] = d.receipt

\* What each step of a call may rely on.  Only the lock holder is inside; the
\* control it loaded is still the one in the keychain; from "apply" on, the
\* database is the last committed one; at "commit" the announced ledger is
\* exactly the one its transaction writes.
InsideCall(p) ==
    /\ lock = p
    /\ request[p] \in Request
    /\ now[p] \in Times
    /\ request[p].op = "issue" => InWindow(request[p].cap, now[p])
    /\ pc[p] # "load" => control # None /\ seen[p] = control
    /\ pc[p] = "resolve" => control.pending # None
    /\ pc[p] \in {"observe", "apply"} => control.pending = None
    /\ pc[p] \in {"apply", "commit", "finalize"} =>
          db = sealed /\ control.observed = now[p]
    /\ pc[p] = "commit" =>
          /\ Permitted(request[p], now[p])
          /\ txn[p] = NewDb(request[p], now[p])
          /\ control.committed = db.ledger
          /\ control.pending = txn[p].ledger
    /\ pc[p] = "finalize" =>
          /\ txn[p] = sealed
          /\ control.pending = sealed.ledger
          /\ request[p].op = "claim" => sealed.receipts[request[p].inv] # None

CallInvariant == \A p \in Procs : pc[p] # "idle" => InsideCall(p)

\* An announced ledger is one transition longer than the committed one, and
\* the clock high water is at least the time of the last transition.
ControlWellFormed ==
    control # None =>
        /\ control.pending # None =>
              Len(control.pending) = Len(control.committed) + 1
        /\ sealed.ledger # << >> =>
              sealed.ledger[Len(sealed.ledger)].at <= control.observed

\* Every state the database can fall back to is shorter than the last
\* committed one, or is that one.
SnapshotsBehind ==
    /\ db \in snapshots
    /\ \A d \in snapshots :
          /\ Len(d.ledger) <= Len(sealed.ledger)
          /\ d.ledger = sealed.ledger => d = sealed
    /\ "loss" \notin Faults => db = sealed

\* The inductive invariant behind SealedByControl and the refinement.
AuthorityInvariant ==
    /\ TypeOK
    /\ CallInvariant
    /\ SealedByControl
    /\ ControlWellFormed
    /\ SnapshotsBehind
    /\ DeliveredStaysSealed

\* No capability yields more receipts than its max_uses, counted over
\* everything callers ever received, crashes and lost databases included.
UsesBounded ==
    \A c \in Caps :
        Cardinality({d \in delivered : d.receipt.cap = c}) <= MaxUses[c]

\* The consistency checks of load_and_validate_authority accept every state
\* the store itself can have committed: no legal history locks a capability.
StoreNeverRejectsItself ==
    \A d \in snapshots : \A c \in Caps :
        d.rows[c] # None => AuthorityValid(d, c)

\* The keychain control is monotone: its clock high water never falls, its
\* committed ledger only grows, and an announced transition is completed.
ControlMonotone ==
    [][control # None =>
         /\ control' # None
         /\ control'.observed >= control.observed
         /\ Len(control'.committed) >= Len(control.committed)
         /\ control.pending # None =>
                \/ control'.pending = control.pending
                \/ control'.committed = control.pending]_vars

\* The store implements the book of atomic, permanent entries.
Book == INSTANCE CapabilityBook WITH book <- sealed
ImplementsBook == Book!Spec

\* A call that entered the locked section leaves it.
CallsReturn == \A p \in Procs : (lock = p) ~> (lock # p)

\* A transition whose commit reached the database is finalized by a later
\* call, although the process that made it is gone.
CommittedIsFinalized ==
    (control # None /\ control.pending = db.ledger)
        ~> (control # None /\ control.committed = db.ledger /\ control.pending = None)
============================================================================
