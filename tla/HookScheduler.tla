--------------------------- MODULE HookScheduler ---------------------------
(***************************************************************************)
(* Bounded, deadline-aware admission of local hook reviews                 *)
(* (guard/daemon/runtime_hook_scheduler.py).                               *)
(*                                                                         *)
(* Every request is a thread of the daemon.  It reserves the bytes of its  *)
(* payload, asks for a slot, waits on the scheduler's condition variable,  *)
(* runs with a permit and gives the permit back.  All of the scheduler's   *)
(* methods run under one lock, so each is one action; what interleaves are *)
(* the methods of different threads, the wake-ups of the condition, time,  *)
(* cancellations, interrupts and changes of the active limit.              *)
(*                                                                         *)
(* Time is kept relative: left[h] is what remains of a request's deadline  *)
(* and age[h] how long it has been queued, both in ticks.                  *)
(***************************************************************************)
EXTENDS Naturals, Integers, FiniteSets, FiniteSetsExt, Sequences, SequencesExt

CONSTANTS
    Hooks,            \* requests (threads); each may come back after its answer
    HarnessOf,        \* the harness of a request
    ClientOf,         \* the client key of a request
    LaneOf,           \* the lane of a request
    PayloadOf,        \* the payload bytes of a request
    Bare,             \* requests that acquire without a byte reservation
    Cancellable,      \* requests that carry a cancellation event
    Budgets,          \* ticks a request may have until its deadline
    Estimates,        \* predicted service times, in ticks
    Reserve,          \* serialization reserve, in ticks
    AgeBoost,         \* _AGE_BOOST_SECONDS, in ticks
    ActiveLimits,     \* values the active limit takes
    PerHarnessActive, QueuedLimit, PerHarnessQueued, PerClientQueued,
    RetainedLimit,    \* retained_bytes_limit
    Sizes,            \* sizes a reservation may be resized to
    None

Lanes == <<"decision", "content-security", "evidence">>

LaneWeight == [lane \in ToSet(Lanes) |->
                 CASE lane = "decision" -> 4
                   [] lane = "content-security" -> 3
                   [] lane = "evidence" -> 1]

Harnesses == {HarnessOf[h] : h \in Hooks}
Clients == {ClientOf[h] : h \in Hooks}

\* Each counter of the scheduler exists for all requests, per harness and
\* per client; "all" stands for the first.
Owners(h) == {"all", HarnessOf[h], ClientOf[h]}
AllOwners == UNION {Owners(h) : h \in Hooks}

\* Only the lanes some request uses have a prediction that matters.
UsedLanes == {LaneOf[h] : h \in Hooks}

ASSUME HookConstants ==
    /\ IsFiniteSet(Hooks) /\ Hooks # {} /\ None \notin Hooks
    /\ LaneOf \in [Hooks -> ToSet(Lanes)]
    /\ PayloadOf \in [Hooks -> Nat]
    /\ "all" \notin Harnesses \cup Clients /\ Harnesses \cap Clients = {}
    /\ Bare \subseteq Hooks /\ Cancellable \subseteq Hooks
    /\ Budgets \subseteq Nat \ {0} /\ Estimates \subseteq Nat \ {0}
    /\ ActiveLimits \subseteq Nat /\ ActiveLimits # {} /\ Sizes \subseteq Nat
    /\ {PerHarnessActive, QueuedLimit, PerHarnessQueued, PerClientQueued,
        RetainedLimit, AgeBoost} \subseteq Nat \ {0}
    /\ Reserve \in Nat

VARIABLES
    pc,         \* where the thread of each request is
    sched,      \* the scheduler object, see SchedType
    want,       \* bytes a thread in a byte wait asks for
    left,       \* ticks until each deadline
    age,        \* ticks since each request was queued
    cancelled,  \* requests whose cancellation event is set
    woken,      \* waiting threads the condition has notified
    estimate    \* predicted service time of each lane

vars == <<pc, sched, want, left, age, cancelled, woken, estimate>>

\* A thread in "reserving" or "growing" waits for bytes, in "waiting" for a
\* slot; "refused" still owns its reservation, "running" owns a permit.
Waiting == {"reserving", "growing", "waiting"}
Places == {"idle", "arrived", "reserved", "refused", "running"} \cup Waiting

Key(h) == <<ClientOf[h], HarnessOf[h]>>
Keys == {Key(h) : h \in Hooks}

(***************************************************************************)
(* The scheduler object.  `line' holds the queued requests in sequence     *)
(* order; `rota' the order in which each lane visits its client groups     *)
(* (the OrderedDict of deques); `granted' the requests that hold a slot,   *)
(* `dropped' those that were given a rejection reason while queued.        *)
(***************************************************************************)
SchedType ==
    [line : Seq(Hooks), rota : [ToSet(Lanes) -> Seq(Keys)],
     deficit : [ToSet(Lanes) -> 0 .. 4], cursor : 0 .. 2,
     queued : [AllOwners -> Nat], active : [AllOwners -> Nat],
     retained : Nat, bytes : [Hooks -> Nat], limit : ActiveLimits,
     granted : SUBSET Hooks, dropped : SUBSET Hooks]

Init ==
    /\ pc = [h \in Hooks |-> "idle"]
    /\ sched \in [line : {<<>>}, rota : {[lane \in ToSet(Lanes) |-> <<>>]},
                  deficit : {[lane \in ToSet(Lanes) |-> 0]}, cursor : {0},
                  queued : {[o \in AllOwners |-> 0]},
                  active : {[o \in AllOwners |-> 0]},
                  retained : {0}, bytes : {[h \in Hooks |-> 0]},
                  limit : ActiveLimits, granted : {{}}, dropped : {{}}]
    /\ want = [h \in Hooks |-> 0]
    /\ left = [h \in Hooks |-> 0]
    /\ age = [h \in Hooks |-> 0]
    /\ cancelled = {}
    /\ woken = {}
    /\ estimate \in [UsedLanes -> Estimates]

-----------------------------------------------------------------------------
(***************************************************************************)
(* The scheduler's private methods, as functions of its state.             *)
(***************************************************************************)

Charge(account, h, n) ==
    [o \in AllOwners |-> IF o \in Owners(h) THEN account[o] + n ELSE account[o]]

\* The deque of one client group, and its head.
Items(s, lane, key) ==
    {h \in ToSet(s.line) : LaneOf[h] = lane /\ Key(h) = key}

Oldest(s, lane, key) ==
    s.line[Min({i \in DOMAIN s.line : s.line[i] \in Items(s, lane, key)})]

\* A variant that enters a group again for each of its requests.
EnqueueTwice(s, h) ==
    [s EXCEPT !.line = Append(@, h),
              !.rota[LaneOf[h]] = Append(@, Key(h)),
              !.queued = Charge(@, h, 1)]

Enqueue(s, h) ==
    [s EXCEPT !.line = Append(@, h),
              !.rota[LaneOf[h]] = IF Contains(@, Key(h)) THEN @ ELSE Append(@, Key(h)),
              !.queued = Charge(@, h, 1)]

RemoveFromLane(s, h) ==
    LET rest == Items(s, LaneOf[h], Key(h)) \ {h}
    IN  [s EXCEPT !.line = RemoveFirst(@, h),
                  !.rota[LaneOf[h]] = IF rest = {} THEN RemoveFirst(@, Key(h)) ELSE @]

\* A variant in which a dropped request keeps its bytes counted.
DropQueuedKeepsBytes(s, h) ==
    [RemoveFromLane(s, h) EXCEPT !.queued = Charge(@, h, -1), !.bytes[h] = 0]

\* A queued request gives back its place and its bytes.
DropQueued(s, h) ==
    [RemoveFromLane(s, h) EXCEPT !.queued = Charge(@, h, -1),
                                 !.retained = @ - s.bytes[h],
                                 !.bytes[h] = 0]

RejectQueued(s, h) == [DropQueued(s, h) EXCEPT !.dropped = @ \cup {h}]

ExpireWaiters(s) ==
    LET expire[n \in 0 .. Len(s.line)] ==
          IF n = 0 THEN s
          ELSE IF left[s.line[n]] = 0 \/ s.line[n] \in cancelled
          THEN RejectQueued(expire[n - 1], s.line[n])
          ELSE expire[n - 1]
    IN  expire[Len(s.line)]

HasCompetingClient(s, client) ==
    \E lane \in ToSet(Lanes) : \E key \in ToSet(s.rota[lane]) : key[1] # client

\* max(1, ceil(limit / 2))
ShareLimit(limit) == IF limit <= 1 THEN 1 ELSE (limit + 1) \div 2

\* A variant without the share of competing clients.
EligibleAnyShare(s, h) == s.active[HarnessOf[h]] < PerHarnessActive

Eligible(s, h) ==
    /\ s.active[HarnessOf[h]] < PerHarnessActive
    /\ HasCompetingClient(s, ClientOf[h]) =>
          s.active[ClientOf[h]] < ShareLimit(s.limit)

CanFinish(h) ==
    estimate[LaneOf[h]] + (IF h \in Bare THEN 0 ELSE Reserve) <= left[h]

\* One candidate of a search: skipped, rejected for its deadline or picked.
Consider(found, h) ==
    IF found.pick # None \/ ~Eligible(found.s, h) THEN found
    ELSE IF CanFinish(h) THEN [s |-> RemoveFromLane(found.s, h), pick |-> h]
    ELSE [found EXCEPT !.s = RejectQueued(@, h)]

\* The heads that have waited long enough, in the order they were queued.
IsAgedHead(s, h) == age[h] >= AgeBoost /\ h = Oldest(s, LaneOf[h], Key(h))

OldestAgedEligible(s) ==
    LET look[n \in 0 .. Len(s.line)] ==
          IF n = 0 THEN [s |-> s, pick |-> None]
          ELSE IF IsAgedHead(s, s.line[n]) THEN Consider(look[n - 1], s.line[n])
          ELSE look[n - 1]
    IN  look[Len(s.line)]

\* The group at the front of the lane goes to the back, its head is considered.
VisitGroup(lane, found) ==
    LET rota == found.s.rota[lane]
    IN  IF found.pick # None THEN found
        ELSE Consider([found EXCEPT !.s.rota[lane] = Append(Tail(rota), Head(rota))],
                      Oldest(found.s, lane, Head(rota)))

\* One turn of the weighted round over the lanes.
VisitLane(found) ==
    LET lane == Lanes[found.s.cursor + 1]
        credit == IF found.s.deficit[lane] = 0 THEN LaneWeight[lane]
                  ELSE found.s.deficit[lane]
        visit[n \in 0 .. Len(found.s.rota[lane])] ==
          IF n = 0 THEN found ELSE VisitGroup(lane, visit[n - 1])
        r == visit[Len(found.s.rota[lane])]
        left1 == IF r.pick = None THEN 0 ELSE credit - 1
    IN  IF found.pick # None THEN found
        ELSE [r EXCEPT !.s.deficit[lane] = left1,
                       !.s.cursor = IF left1 = 0 THEN (@ + 1) % Len(Lanes) ELSE @]

\* _next_item: 8 + 3 turns at most.
NextItem(s) ==
    LET turn[n \in 0 .. 11] ==
          IF n = 0 THEN OldestAgedEligible(s) ELSE VisitLane(turn[n - 1])
    IN  turn[11]

Grant(s, h) ==
    [s EXCEPT !.queued = Charge(@, h, -1),
              !.active = Charge(@, h, 1),
              !.granted = @ \cup {h}]

\* _dispatch: expire, then grant slots until none is free, nobody is queued
\* or no queued request may be picked.
Dispatch(s) ==
    LET grant[n \in 0 .. Cardinality(Hooks)] ==
          IF n = 0 THEN [s |-> ExpireWaiters(s), pick |-> None, more |-> TRUE]
          ELSE LET g == grant[n - 1]
                   r == NextItem(g.s)
               IN  IF ~g.more \/ g.s.active["all"] >= g.s.limit \/ g.s.queued["all"] = 0
                   THEN g
                   ELSE IF r.pick = None THEN [g EXCEPT !.s = r.s, !.more = FALSE]
                   ELSE [g EXCEPT !.s = Grant(r.s, r.pick)]
    IN  grant[Cardinality(Hooks)].s

\* release_permit, up to its _dispatch.
FreeSlot(s, h) ==
    [s EXCEPT !.active = Charge(@, h, -1), !.retained = @ - s.bytes[h],
              !.bytes[h] = 0, !.granted = @ \ {h}]

-----------------------------------------------------------------------------
(***************************************************************************)
(* The operations, one action each.                                        *)
(***************************************************************************)

\* Condition.notify_all by thread h, which does not wait itself.
NotifyAll(h) == woken' = {g \in Hooks \ {h} : pc[g] \in Waiting}

At(h, place) == pc' = [pc EXCEPT ![h] = place]

\* What a request knows of itself is reset once it is answered.
Forget(h) ==
    /\ left' = [left EXCEPT ![h] = 0]
    /\ age' = [age EXCEPT ![h] = 0]
    /\ cancelled' = cancelled \ {h}

Fits(h, n) == sched.retained + n - sched.bytes[h] <= RetainedLimit

TakeBytes(h, n) ==
    sched' = [sched EXCEPT !.retained = @ + n - sched.bytes[h], !.bytes[h] = n]

\* A request that needs no reservation reaches the scheduler with its deadline.
Arrive(h) ==
    /\ pc[h] = "idle" /\ h \in Bare
    /\ \E b \in Budgets : left' = [left EXCEPT ![h] = b]
    /\ At(h, "arrived")
    /\ UNCHANGED <<sched, want, age, cancelled, woken, estimate>>

\* reserve_bytes for a new request, up to its first wait.  A payload that
\* could never fit is refused and changes nothing.
ReserveBytes(h) ==
    /\ pc[h] = "idle" /\ h \notin Bare /\ PayloadOf[h] <= RetainedLimit
    /\ \E b \in Budgets : left' = [left EXCEPT ![h] = b]
    /\ \/ /\ Fits(h, PayloadOf[h])
          /\ At(h, "reserved") /\ TakeBytes(h, PayloadOf[h])
          /\ UNCHANGED want
       \/ /\ ~Fits(h, PayloadOf[h])
          /\ At(h, "reserving")
          /\ want' = [want EXCEPT ![h] = PayloadOf[h]]
          /\ UNCHANGED sched
    /\ UNCHANGED <<age, cancelled, woken, estimate>>

\* RuntimeHookByteReservation.resize, up to the first wait of its growth.
Resize(h, n) ==
    /\ pc[h] = "reserved" /\ n # sched.bytes[h] /\ n <= RetainedLimit
    /\ IF Fits(h, n)
       THEN /\ TakeBytes(h, n)
            /\ IF n < sched.bytes[h] THEN NotifyAll(h) ELSE UNCHANGED woken
            /\ UNCHANGED <<pc, want>>
       ELSE /\ At(h, "growing")
            /\ want' = [want EXCEPT ![h] = n]
            /\ UNCHANGED <<sched, woken>>
    /\ UNCHANGED <<left, age, cancelled, estimate>>

\* A variant whose wait has no timeout.
WakeForBytesUntimed(h) ==
    /\ pc[h] \in {"reserving", "growing"} /\ h \in woken
    /\ woken' = woken \ {h}
    /\ \/ /\ Fits(h, want[h])
          /\ At(h, "reserved") /\ TakeBytes(h, want[h])
          /\ want' = [want EXCEPT ![h] = 0]
       \/ ~Fits(h, want[h]) /\ UNCHANGED <<pc, sched, want>>
    /\ UNCHANGED <<left, age, cancelled, estimate>>

\* One turn of the wait loops of reserve_bytes and grow_reserved_bytes.  A
\* growth that runs out of time leaves the reservation as it was.
WakeForBytes(h) ==
    /\ pc[h] \in {"reserving", "growing"}
    /\ h \in woken \/ left[h] = 0
    /\ woken' = woken \ {h}
    /\ \/ /\ Fits(h, want[h])
          /\ At(h, "reserved") /\ TakeBytes(h, want[h])
          /\ want' = [want EXCEPT ![h] = 0]
          /\ UNCHANGED <<left, age, cancelled>>
       \/ /\ ~Fits(h, want[h]) /\ left[h] = 0 /\ pc[h] = "reserving"
          /\ At(h, "idle") /\ Forget(h)
          /\ want' = [want EXCEPT ![h] = 0]
          /\ UNCHANGED sched
       \/ /\ ~Fits(h, want[h]) /\ left[h] = 0 /\ pc[h] = "growing"
          /\ At(h, "reserved")
          /\ want' = [want EXCEPT ![h] = 0]
          /\ UNCHANGED <<sched, left, age, cancelled>>
       \/ /\ ~Fits(h, want[h]) /\ left[h] > 0
          /\ UNCHANGED <<pc, sched, want, left, age, cancelled>>
    /\ UNCHANGED estimate

\* A variant that notices a full queue one request too late.
RefusedLate(h) ==
    \/ left[h] = 0
    \/ sched.queued["all"] > QueuedLimit
    \/ sched.queued[HarnessOf[h]] >= PerHarnessQueued
    \/ sched.queued[ClientOf[h]] >= PerClientQueued
    \/ h \in Bare /\ ~Fits(h, PayloadOf[h])

Refused(h) ==
    \/ left[h] = 0
    \/ sched.queued["all"] >= QueuedLimit
    \/ sched.queued[HarnessOf[h]] >= PerHarnessQueued
    \/ sched.queued[ClientOf[h]] >= PerClientQueued
    \/ h \in Bare /\ ~Fits(h, PayloadOf[h])

\* acquire refuses before it takes over the reservation.
AcquireRefused(h) ==
    /\ pc[h] = IF h \in Bare THEN "arrived" ELSE "reserved"
    /\ Refused(h)
    /\ IF h \in Bare THEN At(h, "idle") /\ Forget(h)
       ELSE At(h, "refused") /\ UNCHANGED <<left, age, cancelled>>
    /\ UNCHANGED <<sched, want, woken, estimate>>

\* A variant that gives the bytes back without a word.
ReleaseReservationQuietly(h) ==
    /\ pc[h] = "refused"
    /\ TakeBytes(h, 0)
    /\ At(h, "idle") /\ Forget(h)
    /\ UNCHANGED <<want, woken, estimate>>

\* RuntimeHookByteReservation.release by the `with' of the request handler,
\* for a reservation that was never transferred.
ReleaseReservation(h) ==
    /\ pc[h] = "refused"
    /\ TakeBytes(h, 0)
    /\ NotifyAll(h) /\ At(h, "idle") /\ Forget(h)
    /\ UNCHANGED <<want, estimate>>

\* The thread leaves acquire with a permit or a rejection, or waits (again).
Settle(h, s) ==
    /\ sched' = [s EXCEPT !.dropped = @ \ {h}]
    /\ At(h, CASE h \in s.granted -> "running"
               [] h \in s.dropped -> "idle"
               [] OTHER -> "waiting")
    /\ IF h \in s.granted \cup s.dropped THEN Forget(h)
       ELSE UNCHANGED <<left, age, cancelled>>

\* acquire: the reservation is transferred, the request queued, slots dispatched.
Acquire(h) ==
    /\ pc[h] = IF h \in Bare THEN "arrived" ELSE "reserved"
    /\ ~Refused(h)
    /\ LET owned == IF h \notin Bare THEN sched
                    ELSE [sched EXCEPT !.retained = @ + PayloadOf[h],
                                       !.bytes[h] = PayloadOf[h]]
       IN  Settle(h, Dispatch(Enqueue(owned, h)))
    /\ NotifyAll(h)
    /\ UNCHANGED <<want, estimate>>

\* The wait returns: notified, timed out, or polling a cancellation event.
WakeQueued(h) ==
    /\ pc[h] = "waiting"
    /\ h \in woken \/ left[h] = 0 \/ h \in cancelled
    /\ Settle(h, Dispatch(sched))
    /\ NotifyAll(h)
    /\ UNCHANGED <<want, estimate>>

\* A variant of GiveUp that takes the request out of the queue without looking
\* whether it is still there.
GiveUpBlindly(h) ==
    /\ pc[h] = "waiting"
    /\ left[h] = 0 \/ h \in cancelled
    /\ sched' = DropQueued(sched, h)
    /\ NotifyAll(h) /\ At(h, "idle") /\ Forget(h)
    /\ UNCHANGED <<want, estimate>>

\* The deadline passed, or the event was set, after the thread's own _dispatch:
\* it removes its request itself.
GiveUp(h) ==
    /\ pc[h] = "waiting" /\ Contains(sched.line, h)
    /\ left[h] = 0 \/ h \in cancelled
    /\ sched' = DropQueued(sched, h)
    /\ NotifyAll(h) /\ At(h, "idle") /\ Forget(h)
    /\ UNCHANGED <<want, estimate>>

\* A variant that forgets the slot of a request admitted before the exception.
InterruptedKeepsSlot(h) ==
    /\ pc[h] = "waiting"
    /\ sched' = IF Contains(sched.line, h) THEN DropQueued(sched, h)
                ELSE [sched EXCEPT !.dropped = @ \ {h}]
    /\ NotifyAll(h) /\ At(h, "idle") /\ Forget(h)
    /\ UNCHANGED <<want, estimate>>

\* A variant whose queued request leaves without notifying the others.
InterruptedQuietly(h) ==
    /\ pc[h] = "waiting"
    /\ \/ h \in sched.granted /\ sched' = Dispatch(FreeSlot(sched, h))
       \/ Contains(sched.line, h) /\ sched' = DropQueued(sched, h)
       \/ h \in sched.dropped /\ sched' = [sched EXCEPT !.dropped = @ \ {h}]
    /\ IF h \in sched.granted THEN NotifyAll(h) ELSE woken' = woken \ {h}
    /\ At(h, "idle") /\ Forget(h)
    /\ UNCHANGED <<want, estimate>>

\* An exception leaves the wait (or the queue listener raised): what the
\* request owns by then is given back.
Interrupted(h) ==
    /\ pc[h] = "waiting"
    /\ \/ h \in sched.granted /\ sched' = Dispatch(FreeSlot(sched, h))
       \/ Contains(sched.line, h) /\ sched' = DropQueued(sched, h)
       \/ h \in sched.dropped /\ sched' = [sched EXCEPT !.dropped = @ \ {h}]
    /\ IF h \in sched.dropped THEN woken' = woken \ {h} ELSE NotifyAll(h)
    /\ At(h, "idle") /\ Forget(h)
    /\ UNCHANGED <<want, estimate>>

\* RuntimeHookPermit.release at the end of the request.
ReleasePermit(h) ==
    /\ pc[h] = "running"
    /\ sched' = Dispatch(FreeSlot(sched, h))
    /\ NotifyAll(h) /\ At(h, "idle")
    /\ UNCHANGED <<want, left, age, cancelled, estimate>>

\* The hook process runner publishes how many workers are ready.
SetActiveLimit(n) ==
    /\ sched' = Dispatch([sched EXCEPT !.limit = n])
    /\ woken' = {g \in Hooks : pc[g] \in Waiting}
    /\ UNCHANGED <<pc, want, left, age, cancelled, estimate>>

Cancel(h) ==
    /\ pc[h] = "waiting" /\ h \in Cancellable
    /\ h \notin cancelled \cup sched.granted \cup sched.dropped
    /\ cancelled' = cancelled \cup {h}
    /\ UNCHANGED <<pc, sched, want, left, age, woken, estimate>>

\* New samples, or old ones leaving the window, change a lane's prediction.
Reestimate(lane) ==
    /\ \E e \in Estimates \ {estimate[lane]} : estimate' = [estimate EXCEPT ![lane] = e]
    /\ UNCHANGED <<pc, sched, want, left, age, cancelled, woken>>

Tick ==
    /\ \E h \in Hooks : left[h] > 0
    /\ left' = [h \in Hooks |-> IF left[h] > 0 THEN left[h] - 1 ELSE 0]
    /\ age' = [h \in Hooks |-> IF Contains(sched.line, h) /\ age[h] < AgeBoost
                               THEN age[h] + 1 ELSE age[h]]
    /\ UNCHANGED <<pc, sched, want, cancelled, woken, estimate>>

Thread(h) ==
    \/ WakeForBytes(h) \/ AcquireRefused(h) \/ ReleaseReservation(h) \/ Acquire(h)
    \/ WakeQueued(h) \/ GiveUp(h) \/ ReleasePermit(h)

Next ==
    \/ \E h \in Hooks : Thread(h) \/ Arrive(h) \/ ReserveBytes(h) \/ Interrupted(h) \/ Cancel(h)
    \/ \E h \in Hooks, n \in Sizes : Resize(h, n)
    \/ \E n \in ActiveLimits : SetActiveLimit(n)
    \/ \E lane \in UsedLanes : Reestimate(lane)
    \/ Tick

Spec == Init /\ [][Next]_vars

\* Thread h is outside any wait, or its wait may return.
MayRun(h) ==
    \/ pc[h] \in {"arrived", "reserved", "refused", "running"}
    \/ pc[h] \in Waiting /\ (h \in woken \/ left[h] = 0)
    \/ pc[h] = "waiting" /\ h \in cancelled

\* Threads that may run do run (weak fairness of Thread, its ENABLED written
\* out as MayRun), the clock advances and a review ends, bounded by its own
\* deadline.  Nothing is assumed of new requests, of resizing, of interrupts
\* or of the active limit.
LiveSpec ==
    /\ Spec
    /\ \A h \in Hooks : []<>(~MayRun(h)) \/ []<><<Thread(h)>>_vars
    /\ WF_vars(Tick)

-----------------------------------------------------------------------------
(***************************************************************************)
(* What the scheduler promises.                                            *)
(***************************************************************************)

\* Every variable has its type; in particular no counter of the scheduler is
\* ever driven below zero.
TypeOK ==
    /\ pc \in [Hooks -> Places]
    /\ sched \in SchedType
    /\ want \in [Hooks -> Nat]
    /\ left \in [Hooks -> Nat]
    /\ age \in [Hooks -> 0 .. AgeBoost]
    /\ cancelled \subseteq Cancellable
    /\ woken \subseteq Hooks
    /\ estimate \in [UsedLanes -> Estimates]

\* The counters the limits are checked against never drift from the requests
\* they count, whichever of the eight ways out a request takes.
Accounted ==
    /\ \A o \in AllOwners :
          /\ sched.queued[o] = Cardinality({h \in ToSet(sched.line) : o \in Owners(h)})
          /\ sched.active[o] = Cardinality({h \in sched.granted : o \in Owners(h)})
    /\ sched.retained = Cardinality(UNION {{h} \X (1 .. sched.bytes[h]) : h \in Hooks})

\* A waiting thread has exactly one of a place in the queue, a slot or a
\* rejection; a thread outside acquire is no phantom waiter; only a running
\* or just admitted request holds a slot; an answered request holds no bytes.
NothingLeaked ==
    \A h \in Hooks :
        LET inLine == Contains(sched.line, h)
            granted == h \in sched.granted
            dropped == h \in sched.dropped
        IN  /\ ~(inLine /\ granted) /\ ~(inLine /\ dropped) /\ ~(granted /\ dropped)
            /\ pc[h] = "waiting" => inLine \/ granted \/ dropped
            /\ pc[h] = "running" => granted
            /\ pc[h] \notin {"waiting", "running"} => ~inLine /\ ~granted /\ ~dropped
            /\ pc[h] \in {"idle", "arrived", "reserving"} \/ dropped => sched.bytes[h] = 0

\* Queue, payload and per-harness limits hold at every moment.
WithinLimits ==
    /\ sched.retained <= RetainedLimit
    /\ sched.queued["all"] <= QueuedLimit
    /\ \A h \in Hooks :
          /\ sched.queued[HarnessOf[h]] <= PerHarnessQueued
          /\ sched.queued[ClientOf[h]] <= PerClientQueued
          /\ sched.active[HarnessOf[h]] <= PerHarnessActive

\* The lanes' rotation names each group with queued work once and no other
\* group: no waiter is out of the rotation's sight, none is visited twice.
GroupsReachable ==
    \A lane \in ToSet(Lanes) :
        /\ IsInjective(sched.rota[lane])
        /\ ToSet(sched.rota[lane]) = {key \in Keys : Items(sched, lane, key) # {}}

\* If a slot is free and a queued request may have it, some thread in the wait
\* of acquire has been notified, or times out, and will dispatch when it wakes,
\* whatever became of its own request.
SlotCovered ==
    /\ sched.active["all"] < sched.limit
    /\ \E h \in ToSet(sched.line) : Eligible(sched, h)
    => \E h \in Hooks : /\ pc[h] = "waiting"
                        /\ h \in woken \/ left[h] = 0 \/ h \in cancelled

\* No lost wake-up.  No step leaves a free slot next to a request that may have
\* it with all threads asleep, but one: acquire's exception handler notifies
\* nobody when the request was already rejected, and the search that rejected
\* it may have ended before it looked at everybody.
NoLostWakeup ==
    [][SlotCovered => SlotCovered' \/ \E h \in sched.dropped : Interrupted(h)]_vars

\* Nor is one for bytes: a thread that waits in reserve_bytes or
\* grow_reserved_bytes has been notified once its bytes would fit, whoever gave
\* the room back (a release, a shrink, a rejection, a cancelled wait).
NoByteWaitLost ==
    \A h \in Hooks :
        pc[h] \in {"reserving", "growing"} /\ Fits(h, want[h]) => h \in woken

\* Whatever path grants a slot (new request, release, wake-up, new limit or
\* age boost): the slot was free, the request can still finish, and while
\* another client is left waiting no client goes beyond its share.
AdmissionsJustified ==
    [][\A h \in sched'.granted \ sched.granted :
          /\ sched'.active["all"] <= sched'.limit
          /\ CanFinish(h)
          /\ HasCompetingClient(sched', ClientOf[h])
                => sched'.active[ClientOf[h]] <= ShareLimit(sched'.limit)]_vars

\* Every thread that waits for bytes or for a slot leaves its wait: no wake-up
\* is lost and requests that hold bytes and ask for more cannot block each
\* other beyond their deadlines.
RequestsAnswered ==
    \A h \in Hooks : pc[h] \in Waiting ~> pc[h] \notin Waiting
=============================================================================
