---------------------------- MODULE ReviewOutbox ----------------------------
(***************************************************************************)
(* The durable outbox that carries every change of an approval request to  *)
(* Guard Cloud (guard/store_review_event_*.py) and the one worker that     *)
(* drains it (guard/runtime/cloud_review_sync.py).                         *)
(*                                                                         *)
(* Each SQLite transaction is a step.  The operators on a database d       *)
(* below are the pieces from which the transactions are put together; the  *)
(* worker's round is a sequence of transactions with a network call in the *)
(* middle, and the login, the requests and the outbox may change between   *)
(* any two of them, because the dashboard, the command line and the hooks  *)
(* write to the same database from other threads and processes.            *)
(***************************************************************************)
EXTENDS Naturals, FiniteSets, FiniteSetsExt

CONSTANTS
    Requests,     \* approval requests
    Accounts,     \* accounts, with their workspace
    Machines,     \* machines, with their installation
    Logins,       \* the identities that log in
    FirstLogins,  \* what may be logged in when the behaviour begins
    Refreshers,   \* threads and processes that refresh bindings
    Worker,       \* the one of them that drains the outbox
    BatchLimit,   \* batch_limits.events
    MaxWrites,    \* bound: events written by request traffic, per request
    Scenarios,    \* bounds: what else may happen in a behaviour, see Spend
    None

\* A complete identity, of a login or in a row.
Bindings == [acct : Accounts, mach : Machines]

ASSUME OutboxConstants ==
    /\ IsFiniteSet(Requests)
    /\ Logins \subseteq Bindings /\ None \notin Bindings
    /\ FirstLogins \subseteq Logins \cup {None}
    /\ Worker \in Refreshers
    /\ Scenarios \subseteq [troubles : Nat, callers : Nat, repairs : Nat]
    /\ {BatchLimit, MaxWrites} \subseteq Nat /\ BatchLimit >= 1

VARIABLES
    db,        \* guard_review_outbox_events, its AUTOINCREMENT counter, the
               \* request sequences and the acknowledged cursors
    login,     \* load_review_oauth_binding()
    status,    \* approval_requests.status
    drift,     \* requests whose frozen correlation is not the canonical one
    sync,      \* the worker's round
    refresh,   \* per refresher, the binding it loaded and the rows it selected
    settled,   \* events Cloud accepted or declared superseded
    replaced,  \* events Cloud refused for good and a newer one replaces
    consent,   \* per request, the accounts it was first bound or reassigned to
    budget     \* what is left of the scenario

outboxVars == <<db, login, status, drift, sync, refresh, settled, replaced, consent, budget>>

Verdicts == {"ok", "collision", "correlation", "mismatch", "snapshot", "retry", "lost"}

AtRest == [pc |-> "idle", bind |-> None, batch |-> {}, ans |-> <<>>]
NoRefresh == [pc |-> "idle", bind |-> None, rows |-> {}]

OutboxInit ==
    /\ db = [rows |-> {}, seq |-> 0,
             ledger |-> [q \in Requests |-> [last |-> 0, bind |-> None]],
             cursor |-> [b \in Bindings |-> 0]]
    /\ login \in FirstLogins
    /\ status = [q \in Requests |-> "absent"]
    /\ drift = {}
    /\ sync = AtRest
    /\ refresh = [p \in Refreshers |-> NoRefresh]
    /\ settled = {} /\ replaced = {}
    /\ consent = [q \in Requests |-> {}]
    /\ budget \in Scenarios

-----------------------------------------------------------------------------
(* Pieces of transactions.                                                 *)

EventOf(r) == <<r.req, r.rseq>>
SeqsOf(R) == {r.seq : r \in R}
RowsOf(d, q) == {r \in d.rows : r.req = q}
Unacked(d) == {r \in d.rows : ~r.acked}
Ready(d, b) == {r \in d.rows : r.bind = b /\ r.status = "ready"}

\* Rows are replaced by what f makes of them.
MapRows(d, f(_)) == [d EXCEPT !.rows = {f(r) : r \in @}]

\* AUTOINCREMENT: one more than every number ever given out.
NextSeq(d) == 1 + Max({d.seq} \cup SeqsOf(d.rows))

\* The order in which one transaction writes for several requests.
Places(Q) ==
    CHOOSE f \in [Q -> 1 .. Cardinality(Q)] : \A p, q \in Q : p # q => f[p] # f[q]

\* One event for each request in the domain of how, which says with which
\* binding and status, and the request's next number.
Insert(d, how, kind) ==
    LET Q == DOMAIN how
        row(q) == [seq |-> NextSeq(d) + Places(Q)[q] - 1,
                   req |-> q, rseq |-> d.ledger[q].last + 1, kind |-> kind,
                   bind |-> how[q].bind, status |-> how[q].status,
                   acked |-> FALSE, due |-> TRUE]
    IN [d EXCEPT !.rows = @ \cup {row(q) : q \in Q},
                 !.seq = NextSeq(d) + Cardinality(Q) - 1,
                 !.ledger = [q \in Requests |->
                    IF q \in Q THEN [@[q] EXCEPT !.last = d.ledger[q].last + 1] ELSE @[q]]]

Held == [bind |-> None, status |-> "unbound"]
To(b) == [bind |-> b, status |-> "ready"]

\* The update trigger writes under the request's own binding, whoever is
\* logged in.
InsertByTrigger(d, q, kind) ==
    LET b == d.ledger[q].bind
    IN Insert(d, [x \in {q} |-> IF b = None THEN Held ELSE To(b)], kind)

\* _binding_for_append
AppendBinding(d, q) ==
    LET prior == d.ledger[q].bind
    IN  IF prior = None THEN Held
        ELSE IF login # None /\ login.acct = prior.acct THEN To(login)
        ELSE [bind |-> prior, status |-> "moved"]

\* append_request_snapshot_event: the request's binding is set once, so the
\* coalesce in the code leaves it as it is.
Append(d, Q, kind) == Insert(d, [q \in Q |-> AppendBinding(d, q)], kind)

\* The only event of a request, written while nobody was logged in.
Unclaimed(d, q) ==
    {r \in RowsOf(d, q) : /\ r.rseq = 1 /\ r.bind = None /\ r.status = "unbound"
                          /\ RowsOf(d, q) = {r}}

\* Mutant: the missing login is not noticed.
BindFirstAnyway(d, Q) ==
    LET U == UNION {Unclaimed(d, q) : q \in Q}
    IN [d EXCEPT !.rows = (@ \ U) \cup {[r EXCEPT !.bind = login, !.status = "ready"] : r \in U}]

\* bind_review_events_for_request
BindFirst(d, Q) ==
    LET U == UNION {Unclaimed(d, q) : q \in Q}
    IN  IF login = None THEN d
        ELSE [d EXCEPT !.rows = (@ \ U) \cup {[r EXCEPT !.bind = login, !.status = "ready"] : r \in U},
                       !.ledger = [q \in Requests |->
                          IF \E r \in U : r.req = q THEN [@[q] EXCEPT !.bind = login] ELSE @[q]]]

\* Mutant: everything up to the highest acknowledged number counts as
\* acknowledged.
AcknowledgeThrough(d, b, seqs) ==
    LET mark(r) == IF seqs # {} /\ r.bind = b /\ r.status = "ready"
                      /\ \E s \in seqs : r.seq <= s
                   THEN [r EXCEPT !.acked = TRUE] ELSE r
        m == MapRows(d, mark)
        prefix == {r \in Ready(m, b) : \A x \in Ready(m, b) : x.seq <= r.seq => x.acked}
    IN [m EXCEPT !.rows = @ \ prefix]

\* acknowledge_review_events: rows are looked up by their number; the longest
\* acknowledged prefix of the binding's deliverable rows is deleted.
Acknowledge(d, b, seqs) ==
    LET mark(r) == IF r.seq \in seqs /\ r.bind = b /\ r.status = "ready"
                   THEN [r EXCEPT !.acked = TRUE] ELSE r
        m == MapRows(d, mark)
        prefix == {r \in Ready(m, b) :
                     \A x \in Ready(m, b) : x.seq <= r.seq => x.acked}
    IN  IF seqs = {} \/ prefix = {} THEN m
        ELSE [m EXCEPT !.rows = @ \ prefix,
                       !.cursor[b] = Max({@} \cup SeqsOf(prefix))]

\* retry_review_events does not ask whether the row is still deliverable.
Postpone(d, b, seqs) ==
    LET later(r) == IF r.seq \in seqs /\ r.bind = b /\ ~r.acked
                    THEN [r EXCEPT !.due = FALSE] ELSE r
    IN MapRows(d, later)

\* quarantine_review_event
DeadLetter(d, b, s) ==
    LET dead(r) == IF r.seq = s /\ r.bind = b /\ r.status = "ready" /\ ~r.acked
                   THEN [r EXCEPT !.status = "dead"] ELSE r
    IN MapRows(d, dead)

\* refresh_same_subject_binding reads the deliverable rows of the account that
\* name another machine.
Candidates(d, b) ==
    {r \in d.rows : r.status = "ready" /\ r.bind.acct = b.acct /\ r.bind.mach # b.mach}

\* Mutant: every deliverable row follows the login.
RebindAll(d, b, seqs) ==
    LET follow(r) == IF r.status = "ready" THEN [r EXCEPT !.bind = b] ELSE r
    IN MapRows(d, follow)

\* Mutant: rows keep the machine they were written on.
RebindHoldsOnly(d, b, seqs) ==
    LET hold(r) == IF r.status = "ready" /\ r.bind.acct # b.acct
                   THEN [r EXCEPT !.status = "moved"] ELSE r
    IN MapRows(d, hold)

\* It then writes.  The rows it read follow to the machine, by their number
\* alone, whatever became of them; requests of the account follow; what is
\* deliverable to another account is held.
Rebind(d, b, seqs) ==
    LET follow(r) ==
            IF r.seq \in seqs
            THEN [r EXCEPT !.bind = [acct |-> r.bind.acct, mach |-> b.mach], !.status = "ready"]
            ELSE r
        hold(r) == IF r.status = "ready" /\ r.bind.acct # b.acct
                   THEN [r EXCEPT !.status = "moved"] ELSE r
        move(r) == hold(follow(r))
    IN [MapRows(d, move) EXCEPT
          !.ledger = [q \in Requests |->
             IF @[q].bind # None /\ @[q].bind.acct = b.acct
             THEN [@[q] EXCEPT !.bind = b] ELSE @[q]]]

\* _reassignment_filter
Adoptable(d, b, onlyUnbound) ==
    {r \in d.rows :
       /\ r.status \in {"unbound", "moved"}
       /\ onlyUnbound =>
            /\ r.status = "unbound"
            /\ {d.ledger[r.req].bind} \cup {x.bind : x \in RowsOf(d, r.req)}
                 \subseteq {None, b}}

\* explicitly_reassign_quarantined_events
Adopt(d, b, onlyUnbound) ==
    LET R == Adoptable(d, b, onlyUnbound)
    IN [d EXCEPT !.rows = (@ \ R) \cup {[r EXCEPT !.bind = b, !.status = "ready"] : r \in R},
                 !.ledger = [q \in Requests |->
                    IF \E r \in R : r.req = q THEN [@[q] EXCEPT !.bind = b] ELSE @[q]]]

\* A snapshot that makes another one unnecessary: the newest of those not
\* acknowledged, or, when Cloud asked for one, of those younger than what it
\* refused, if it is deliverable to the current login.
HasSnapshot(d, q, after) ==
    LET S == {r \in RowsOf(d, q) :
                /\ r.kind = "snapshot"
                /\ IF after = 0 THEN ~r.acked ELSE r.rseq > after}
    IN \E r \in S : /\ \A x \in S : x.rseq <= r.rseq
                    /\ login # None /\ r.status = "ready" /\ r.bind = login

\* requeue_pending_request_events: after gives the requests, and what the new
\* snapshot has to be younger than.
Requeue(d, after, require) ==
    LET Q == {q \in DOMAIN after :
                /\ status[q] = "pending"
                /\ require => login # None /\ d.ledger[q].bind = login
                /\ ~HasSnapshot(d, q, after[q])}
    IN Append(BindFirst(d, Q), Q, "snapshot")

\* A request may only be handed to an account on the first binding of its
\* first event; the other way is an explicit reassignment.
Consents(d) ==
    [q \in Requests |->
       consent[q] \cup
       (IF db.ledger[q].bind = None /\ d.ledger[q].bind # None
        THEN {d.ledger[q].bind.acct} ELSE {})]

-----------------------------------------------------------------------------
(* Request traffic.                                                        *)

HasRoom(q) == db.ledger[q].last < MaxWrites

\* add_approval_request: the insert trigger, then the binding, in one
\* transaction.
CreateRequest(q) ==
    /\ status[q] = "absent" /\ HasRoom(q)
    /\ db' = BindFirst(Insert(db, [x \in {q} |-> Held], "created"), {q})
    /\ consent' = Consents(db')
    /\ status' = [status EXCEPT ![q] = "pending"]
    /\ \E D \in {{}, {q}} : drift' = drift \cup D
    /\ UNCHANGED <<login, sync, refresh, settled, replaced, budget>>

\* Any update of a pending request's row.
RefreshRequest(q) ==
    /\ status[q] = "pending" /\ HasRoom(q)
    /\ db' = InsertByTrigger(db, q, "refreshed")
    /\ UNCHANGED <<login, status, drift, sync, refresh, settled, replaced, consent, budget>>

ResolveRequest(q) ==
    /\ status[q] = "pending"
    /\ db' = InsertByTrigger(db, q, "resolved")
    /\ status' = [status EXCEPT ![q] = "resolved"]
    /\ UNCHANGED <<login, drift, sync, refresh, settled, replaced, consent, budget>>

-----------------------------------------------------------------------------
(* The other processes.                                                    *)

\* Bounds: how many troubles (refusals, losses, crashes, changes of login,
\* consents and requeues), calls that continue a request (Continuation) and
\* repairs of the connection a behaviour may have.
Spend(what, n) == n <= budget[what] /\ budget' = [budget EXCEPT ![what] = @ - n]

\* Connecting, disconnecting, or moving to another machine or account.
ChangeLogin(b) ==
    /\ b # login /\ Spend("troubles", 1)
    /\ login' = b
    /\ UNCHANGED <<db, status, drift, sync, refresh, settled, replaced, consent>>

\* reassign_quarantined_review_events, after the user confirmed the target
ReassignHeld(onlyUnbound) ==
    /\ login # None /\ Spend("troubles", 1)
    /\ Adoptable(db, login, onlyUnbound) # {}
    /\ db' = Adopt(db, login, onlyUnbound)
    /\ consent' = [q \in Requests |->
         consent[q] \cup {login.acct : r \in {x \in Adoptable(db, login, onlyUnbound) : x.req = q}}]
    /\ UNCHANGED <<login, status, drift, sync, refresh, settled, replaced>>

\* requeue_pending_review_events: everything (a changed privacy level), what
\* is bound to the login (decisions enabled), or of that what has drifted (the
\* replay that prepares a round).
RequeuePending(require, Q) ==
    /\ Q # {} /\ Spend("troubles", 1)
    /\ \A q \in Q : HasRoom(q)
    /\ db' = Requeue(db, [q \in Q |-> 0], require)
    /\ db' # db
    /\ consent' = Consents(db')
    /\ UNCHANGED <<login, status, drift, sync, refresh, settled, replaced>>

\* next_attempt_at passes
TimePasses ==
    /\ \E r \in Unacked(db) : ~r.due
    /\ db' = LET again(r) == [r EXCEPT !.due = TRUE] IN MapRows(db, again)
    /\ UNCHANGED <<login, status, drift, sync, refresh, settled, replaced, consent, budget>>

-----------------------------------------------------------------------------
(* Refreshing the bindings.  The login and the candidates are read before  *)
(* the first update begins a transaction, so both may be stale when it     *)
(* writes.  A refresher that dies does not go on.                          *)

Loaded == [pc |-> "select", bind |-> login, rows |-> {}]

\* repair_guard_cloud_connect_storage, by the command line, a handler of the
\* daemon or the command queue, holding no lock of the worker
RepairBegin(p) ==
    /\ p # Worker /\ refresh[p] = NoRefresh
    /\ login # None /\ Spend("repairs", 1)
    /\ refresh' = [refresh EXCEPT ![p] = Loaded]
    /\ UNCHANGED <<db, login, status, drift, sync, settled, replaced, consent>>

RefreshSelect(p) ==
    /\ refresh[p].pc = "select"
    /\ refresh' = [refresh EXCEPT ![p] =
         [pc |-> "write", bind |-> @.bind, rows |-> Candidates(db, @.bind)]]
    /\ UNCHANGED <<db, login, status, drift, sync, settled, replaced, consent, budget>>

RefreshWrite(p) ==
    /\ refresh[p].pc = "write"
    /\ db' = Rebind(db, refresh[p].bind, SeqsOf(refresh[p].rows))
    /\ refresh' = [refresh EXCEPT ![p] = NoRefresh]
    /\ UNCHANGED <<login, status, drift, sync, settled, replaced, consent, budget>>

-----------------------------------------------------------------------------
(* A round of the worker.                                                  *)

\* The round belongs to the identity that is logged in when it starts.
SyncBegin ==
    /\ sync.pc = "idle" /\ login # None
    /\ sync' = [AtRest EXCEPT !.pc = "rebind", !.bind = login]
    /\ UNCHANGED <<db, login, status, drift, refresh, settled, replaced, consent, budget>>

\* refresh_review_event_outbox_binding_for_identity: nothing is refreshed when
\* another identity is logged in by now.
SyncRebind ==
    /\ sync.pc = "rebind"
    /\ refresh' = IF login = sync.bind THEN [refresh EXCEPT ![Worker] = Loaded] ELSE refresh
    /\ sync' = [sync EXCEPT !.pc = "list"]
    /\ UNCHANGED <<db, login, status, drift, settled, replaced, consent, budget>>

Deliverable == {r \in Ready(db, sync.bind) : ~r.acked /\ r.due}

\* list_ready_review_events: the first of the deliverable rows, by number
SyncList ==
    /\ sync.pc = "list" /\ refresh[Worker] = NoRefresh
    /\ LET B == {r \in Deliverable :
                   Cardinality({x \in Deliverable : x.seq < r.seq}) < BatchLimit}
       IN sync' = IF B = {} THEN AtRest ELSE [sync EXCEPT !.pc = "post", !.batch = B]
    /\ UNCHANGED <<db, login, status, drift, refresh, settled, replaced, consent, budget>>

\* project_cloud_review_event and the size limit: a row that cannot be sent is
\* dead-lettered, one that cannot be sent yet is postponed.
SyncDrop(r, how) ==
    /\ sync.pc = "post" /\ r \in sync.batch /\ Spend("troubles", 1)
    /\ db' = IF how = "dead" THEN DeadLetter(db, sync.bind, r.seq)
                             ELSE Postpone(db, sync.bind, {r.seq})
    /\ sync' = [sync EXCEPT !.batch = @ \ {r},
                            !.pc = IF sync.batch = {r} THEN "list" ELSE "post"]
    /\ UNCHANGED <<login, status, drift, refresh, settled, replaced, consent>>

\* One answer per event.
SyncPost(ans) ==
    /\ sync.pc = "post"
    /\ Spend("troubles", Cardinality({r \in sync.batch : ans[r] # "ok"}))
    /\ settled' = settled \cup {EventOf(r) : r \in {x \in sync.batch : ans[x] = "ok"}}
    /\ sync' = [sync EXCEPT !.pc = "settle", !.batch = {}, !.ans = ans]
    /\ UNCHANGED <<db, login, status, drift, refresh, replaced, consent>>

\* No usable answer: Cloud may have kept any part of the batch.
SyncLost(kept) ==
    /\ sync.pc = "post" /\ kept \subseteq sync.batch /\ Spend("troubles", 1)
    /\ settled' = settled \cup {EventOf(r) : r \in kept}
    /\ sync' = [sync EXCEPT !.pc = "settle", !.batch = {},
                            !.ans = [r \in sync.batch |-> "lost"]]
    /\ UNCHANGED <<db, login, status, drift, refresh, replaced, consent>>

-----------------------------------------------------------------------------
(* What the answers do: one transaction per kind, in this order.           *)

Answered(v) == {r \in DOMAIN sync.ans : sync.ans[r] \in v}
Forget(R) == [r \in DOMAIN sync.ans \ R |-> sync.ans[r]]
Turn(R, v) == [r \in DOMAIN sync.ans |-> IF r \in R THEN v ELSE sync.ans[r]]
FirstOf(R) == CHOOSE r \in R : \A x \in R : r.seq <= x.seq

\* Back to the list when every answer has been dealt with.
Proceed(ans) ==
    sync' = IF DOMAIN ans = {} THEN [AtRest EXCEPT !.pc = "list", !.bind = sync.bind]
            ELSE [sync EXCEPT !.ans = ans]

Settling(v) ==
    /\ sync.pc = "settle"
    /\ Answered(v) # {}

SettleAck ==
    /\ Settling({"ok"})
    /\ db' = Acknowledge(db, sync.bind, SeqsOf(Answered({"ok"})))
    /\ Proceed(Forget(Answered({"ok"})))
    /\ UNCHANGED <<login, status, drift, refresh, settled, replaced, consent, budget>>

\* Mutant: later events of the request are not looked at.
MayRenumberAlone(C) ==
    /\ login = sync.bind
    /\ \A c \in C : \E r \in db.rows :
         /\ r.seq = c.seq /\ EventOf(r) = EventOf(c)
         /\ r.bind = sync.bind /\ r.status = "ready" /\ ~r.acked
         /\ r.kind = "snapshot"

\* Everything recover_review_snapshot_sequences checks before it renumbers.
MayRenumber(C) ==
    /\ login = sync.bind
    /\ \A c \in C : \E r \in db.rows :
         /\ r.seq = c.seq /\ EventOf(r) = EventOf(c)
         /\ r.bind = sync.bind /\ r.status = "ready" /\ ~r.acked
         /\ r.kind = "snapshot"
         /\ \A x \in RowsOf(db, r.req) :
              x.rseq > r.rseq /\ ~x.acked => \E e \in C : EventOf(e) = EventOf(x)

\* The collided snapshots move behind everything, in their old order, and the
\* counter follows them.
Renumber(d, C, through) ==
    LET base == Max({through, d.cursor[sync.bind], d.seq} \cup SeqsOf(d.rows))
        place(s) == base + Cardinality({c \in C : c.seq <= s})
        move(r) == IF r.seq \in SeqsOf(C) THEN [r EXCEPT !.seq = place(r.seq)] ELSE r
    IN [MapRows(d, move) EXCEPT !.seq = base + Cardinality(C)]

SettleRecover(through) ==
    LET C == Answered({"collision"}) IN
    /\ Settling({"collision"}) /\ Answered({"ok"}) = {}
    /\ db' = IF MayRenumber(C) THEN Renumber(db, C, through) ELSE db
    /\ Proceed(IF MayRenumber(C) THEN Forget(C) ELSE Turn(C, "retry"))
    /\ UNCHANGED <<login, status, drift, refresh, settled, replaced, consent, budget>>

MayRepair(c) ==
    /\ login = sync.bind
    /\ \E r \in db.rows : r.seq = c.seq /\ r.bind = sync.bind
                          /\ r.status = "ready" /\ ~r.acked
    /\ status[c.req] = "pending" /\ db.ledger[c.req].bind = sync.bind
    /\ c.req \in drift

\* repair_rejected_review_correlation: correcting the request fires the update
\* trigger, then the replacement is appended and the refused event
\* acknowledged.
SettleRepair ==
    LET c == FirstOf(Answered({"correlation"})) IN
    /\ Settling({"correlation"}) /\ Answered({"ok", "collision"}) = {}
    /\ IF MayRepair(c)
       THEN /\ db' = Acknowledge(Append(InsertByTrigger(db, c.req, "refreshed"),
                                        {c.req}, "snapshot"),
                                 sync.bind, {c.seq})
            /\ drift' = drift \ {c.req}
            /\ replaced' = replaced \cup {EventOf(c)}
            /\ Proceed(Forget({c}))
       ELSE /\ Proceed(Turn({c}, "retry"))
            /\ UNCHANGED <<db, drift, replaced>>
    /\ UNCHANGED <<login, status, refresh, settled, consent, budget>>

\* quarantine_terminal_binding_failures
SettleMismatch ==
    LET c == FirstOf(Answered({"mismatch"}))
        d == IF c.kind = "terminal" THEN DeadLetter(db, sync.bind, c.seq) ELSE db
    IN
    /\ Settling({"mismatch"}) /\ Answered({"ok", "collision", "correlation"}) = {}
    /\ db' = d
    /\ Proceed(IF d # db THEN Forget({c}) ELSE Turn({c}, "retry"))
    /\ UNCHANGED <<login, status, drift, refresh, settled, replaced, consent, budget>>

\* The rest is tried again later; without answers the round is over.
SettleRetry ==
    LET R == Answered({"retry", "snapshot", "lost"}) IN
    /\ Settling({"retry", "snapshot", "lost"})
    /\ Answered({"ok", "collision", "correlation", "mismatch"}) = {}
    /\ db' = Postpone(db, sync.bind, SeqsOf(R))
    /\ IF Answered({"lost"}) # {} THEN sync' = AtRest
       ELSE Proceed([r \in Answered({"snapshot"}) |-> "requeue"])
    /\ UNCHANGED <<login, status, drift, refresh, settled, replaced, consent, budget>>

\* Cloud wants a snapshot of these requests.
SettleRequeue ==
    LET R == Answered({"requeue"})
        after == [q \in {r.req : r \in R} |-> Max({r.rseq : r \in {x \in R : x.req = q}})]
    IN
    /\ Settling({"requeue"}) /\ Answered(Verdicts) = {}
    /\ db' = Requeue(db, after, TRUE)
    /\ Proceed(<<>>)
    /\ consent' = Consents(db')
    /\ UNCHANGED <<login, status, drift, refresh, settled, replaced, budget>>

\* The daemon dies; the database does not.
SyncCrash ==
    /\ sync # AtRest /\ Spend("troubles", 1)
    /\ sync' = AtRest
    /\ refresh' = [refresh EXCEPT ![Worker] = NoRefresh]
    /\ UNCHANGED <<db, login, status, drift, settled, replaced, consent>>

-----------------------------------------------------------------------------
Sync ==
    \/ SyncBegin \/ SyncRebind \/ RefreshSelect(Worker) \/ RefreshWrite(Worker) \/ SyncList
    \/ \E r \in sync.batch, how \in {"dead", "retry"} : SyncDrop(r, how)
    \/ \E ans \in [sync.batch -> Verdicts \ {"lost"}] : SyncPost(ans)
    \/ \E kept \in SUBSET sync.batch : SyncLost(kept)
    \/ SettleAck
    \/ \E through \in {0, db.seq + 1} : SettleRecover(through)
    \/ SettleRepair \/ SettleMismatch \/ SettleRetry \/ SettleRequeue

Traffic ==
    \E q \in Requests : CreateRequest(q) \/ RefreshRequest(q) \/ ResolveRequest(q)

Others ==
    \/ \E b \in Logins \cup {None} : ChangeLogin(b)
    \/ \E onlyUnbound \in BOOLEAN : ReassignHeld(onlyUnbound)
    \/ RequeuePending(FALSE, {q \in Requests : status[q] = "pending"})
    \/ RequeuePending(TRUE, {q \in Requests : status[q] = "pending"})
    \/ RequeuePending(TRUE, drift \cap {q \in Requests : status[q] = "pending"})
    \/ \E p \in Refreshers \ {Worker} :
         RepairBegin(p) \/ RefreshSelect(p) \/ RefreshWrite(p)
    \/ TimePasses
    \/ SyncCrash

OutboxNext == Sync \/ Traffic \/ Others

-----------------------------------------------------------------------------
(* Properties of the outbox.                                               *)

Rows == [seq : Nat, req : Requests, rseq : Nat,
         kind : {"created", "refreshed", "resolved", "snapshot", "terminal"},
         bind : Bindings \cup {None},
         status : {"ready", "unbound", "moved", "dead"},
         acked : BOOLEAN, due : BOOLEAN]

OutboxTypeOK ==
    /\ db.rows \subseteq Rows /\ db.seq \in Nat
    /\ db.ledger \in [Requests -> [last : Nat, bind : Bindings \cup {None}]]
    /\ db.cursor \in [Bindings -> Nat]
    /\ login \in Bindings \cup {None}
    /\ status \in [Requests -> {"absent", "pending", "resolved"}]
    /\ drift \subseteq Requests
    /\ sync.pc \in {"idle", "rebind", "list", "post", "settle"}
    /\ sync.bind \in Bindings \cup {None} /\ sync.batch \subseteq Rows
    /\ DOMAIN sync.ans \subseteq Rows
    /\ refresh \in [Refreshers -> [pc : {"idle", "select", "write"},
                                  bind : Bindings \cup {None}, rows : SUBSET Rows]]
    /\ \A r \in db.rows : r.bind = None => r.status = "unbound"

\* Nothing is lost: every event a request ever wrote is still in the outbox
\* unacknowledged, or Cloud has settled it, or a newer event replaces it.
NothingLost ==
    \A q \in Requests : \A n \in 1 .. db.ledger[q].last :
        \/ \E r \in Unacked(db) : EventOf(r) = <<q, n>>
        \/ <<q, n>> \in settled \cup replaced

\* The stream keeps the order in which a request wrote its events.
OrderKept ==
    \A r, x \in Unacked(db) :
        r.req = x.req /\ r.rseq < x.rseq => r.seq < x.seq

\* An event is only ever deliverable to an account its request was first bound
\* to or explicitly reassigned to, and what the worker read a while ago and is
\* about to post goes to such an account too, whoever is logged in by then.
ConsentedOnly ==
    /\ \A r \in db.rows : r.bind # None => r.bind.acct \in consent[r.req]
    /\ \A r \in sync.batch : sync.bind.acct \in consent[r.req]

\* The login changes finitely often here, and Cloud refuses finitely often.
\* Then, once somebody stays logged in, everything deliverable to that login is
\* acknowledged, and what belongs to another account is no longer deliverable.
Drained ==
    login # None =>
        \A r \in db.rows : r.status = "ready" => r.bind = login /\ r.acked

Drains == <>[]Drained
=============================================================================
