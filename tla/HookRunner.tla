----------------------------- MODULE HookRunner -----------------------------
(***************************************************************************)
(* The pool of isolated worker processes that review hooks                 *)
(* (guard/daemon/hook_process_runner.py and its lifecycle, creation,       *)
(* worker and slot-review parts).                                          *)
(*                                                                         *)
(* Six kinds of thread share the pool: the reviewers, one supervisor per   *)
(* generation, its spawn threads, one retirement thread per worker that is *)
(* given up, the threads that trim the pool when its target shrinks, and   *)
(* the thread that closes it.  Each critical section of the state lock is  *)
(* a step; so is the call that publishes the number of usable workers to   *)
(* the scheduler, because it is made after the lock is released.  (The two *)
(* sections that change the usable workers and then count them are one.)   *)
(*                                                                         *)
(* A worker is a guardian process and the tree below it.  Only a live,     *)
(* isolated guardian lets the daemon kill the whole tree.                  *)
(***************************************************************************)
EXTENDS Naturals, FiniteSets, FiniteSetsExt

CONSTANTS
    Slots,          \* identities of worker slots
    Reviewers,      \* threads that call review()
    ProcessLimit,   \* _process_limit
    InitialTarget,  \* _initial_target
    MinTarget,      \* _MIN_WORKERS
    MaxGen,         \* bound: the pool is opened and closed up to this generation
    MaxMishaps,     \* bound: deaths, timeouts and failed starts
    TrackCounts,    \* FALSE: only that counts are published matters, not which
    None

ASSUME RunnerConstants ==
    /\ IsFiniteSet(Slots) /\ None \notin Slots
    /\ {ProcessLimit, InitialTarget, MinTarget, MaxGen, MaxMishaps} \subseteq Nat
    /\ 1 <= MinTarget /\ MinTarget <= InitialTarget
    /\ InitialTarget <= ProcessLimit
    /\ TrackCounts \in BOOLEAN

VARIABLES
    \* guarded by _state_lock
    closed, started, gen, target,
    all,       \* _all_slots: every worker the runner owns
    ready,     \* _ready_slot_ids: usable workers, idle or busy
    idle,      \* _slots: the queue of idle workers
    \* the processes behind the slots
    proc,
    \* the threads
    spawn,     \* _spawn_threads: where each spawn thread is, and its generation
    retire,    \* _retirement_threads
    rev,       \* the reviewers
    sup,       \* the supervisor of each generation, and its batch
    watcher,   \* generation of _supervisor_thread, 0 when there is none
    trim,      \* the trimmers: each supervisor, and 0 for observe_load()
    close,     \* close_contained() and the slots it has attempted
    contained, \* nothing was started since close_contained() returned TRUE
    \* the capacity listener
    posts,     \* counts read but not yet handed to the listener
    limit,     \* the active limit of the scheduler
    mishaps

lockVars == <<closed, started, gen, target>>
slotVars == <<all, ready, idle>>
threadVars == <<spawn, retire, rev, sup, watcher, trim, close, contained>>
vars == <<lockVars, slotVars, proc, threadVars, posts, limit, mishaps>>

Gens == 1 .. MaxGen
Trimmers == 0 .. MaxGen

\* "raw": started, not isolated yet; "up": isolated and alive; "orphan": the
\* guardian died after isolation, what it started may live on; "husk": dead
\* before isolation, so it never had a tree.
Processes == {"none", "raw", "up", "orphan", "husk"}

Idle == [pc |-> "out", slot |-> None, gen |-> 0, then |-> "leave"]

Init ==
    /\ closed = FALSE /\ started = FALSE /\ gen = 0 /\ target = InitialTarget
    /\ all = {} /\ ready = {} /\ idle = {}
    /\ proc = [s \in Slots |-> "none"]
    /\ spawn = [s \in Slots |-> [pc |-> "no", gen |-> 0]]
    /\ retire = [s \in Slots |-> "no"]
    /\ rev = [r \in Reviewers |-> Idle]
    /\ sup = [g \in Gens |-> [pc |-> "none", batch |-> {}]]
    /\ watcher = 0
    /\ trim = [t \in Trimmers |-> [pc |-> "no", slot |-> None]]
    /\ close = [pc |-> "no", tried |-> {}]
    /\ contained = TRUE
    /\ posts = {} /\ limit = 0 /\ mishaps = 0

Stale(g) == closed \/ g # gen

\* A review counts in _active_reviews until the `finally' of review().
Active(r) == \/ rev[r].pc \in {"get", "send", "again"}
             \/ rev[r].pc = "drop" /\ rev[r].then # "done"

Held == {rev[r].slot : r \in Reviewers} \cup {trim[t].slot : t \in Trimmers}

\* A thread that still has to publish is not over.
Published(who) == \A p \in posts : p.by # who
Starting(s) == spawn[s].pc # "no" \/ ~Published(<<"spawn", s>>)
Retiring(s) == retire[s] # "no" \/ ~Published(<<"retire", s>>)

\* A slot object nobody refers to any more.
Fresh(s) == /\ proc[s] = "none" /\ s \notin all \cup ready \cup idle \cup Held
            /\ ~Starting(s) /\ ~Retiring(s)

Mishap == mishaps < MaxMishaps /\ mishaps' = mishaps + 1

(***************************************************************************)
(* Shared pieces                                                           *)
(***************************************************************************)
\* _publish_capacity, up to the unlock: the count is read, the call is due.
Publish(who, usable) ==
    posts' = posts \cup {[by |-> who, n |-> IF TrackCounts THEN Cardinality(usable) ELSE 0]}

\* _mark_containment_failed.  The code also moves to the next generation here
\* and in close(); no generation is live while the runner is closed, and
\* start() moves on again, so counting the starts tells the same apart.
MarkFailed == closed' = TRUE /\ started' = FALSE

\* retire_worker_slot: what it answers and leaves of the process.  A live
\* isolated guardian takes its tree with it; killing one that is not isolated
\* proves nothing the first time; a kill may also not take effect in time.
RetireOutcomes(s) ==
    CASE proc[s] \in {"none", "husk"} -> {<<TRUE, "none">>}
      [] proc[s] = "up" -> {<<TRUE, "none">>, <<FALSE, "up">>}
      [] proc[s] = "raw" -> {<<FALSE, "husk">>}
      [] proc[s] = "orphan" -> {<<FALSE, "orphan">>}

\* close and a stale spawn wait for isolation before they retire.
LateRetireOutcomes(s) ==
    RetireOutcomes(s)
    \cup (IF proc[s] = "raw" THEN {<<TRUE, "none">>} ELSE {})

\* Failing to stop a live guardian is one of the bounded mishaps.
Costs(s, outcome) ==
    IF proc[s] = "up" /\ ~outcome[1] THEN Mishap ELSE UNCHANGED mishaps

\* A contained worker leaves _all_slots, or (a bug) stays in it.
KeepRegistered(s) == all
Unregister(s) == all \ {s}

\* _retire_slot: contain, unregister, publish.
RetireSlot(s, outcome, who) ==
    /\ Costs(s, outcome)
    /\ proc' = [proc EXCEPT ![s] = outcome[2]]
    /\ IF outcome[1]
         THEN /\ all' = Unregister(s) /\ ready' = ready \ {s}
              /\ Publish(who, ready \ {s})
         ELSE UNCHANGED <<all, ready, posts>>

(***************************************************************************)
(* start() and the closing of the pool                                     *)
(***************************************************************************)
NothingOwned == /\ all = {} /\ \A s \in Slots : ~Starting(s) /\ ~Retiring(s)
                /\ \A r \in Reviewers : ~Active(r)

\* A closed runner starts with an empty queue, not with the old one.
SameQueue == idle
NewQueue == IF closed THEN {} ELSE idle

\* A deferred start asks for one worker first, a plain one for all of them.
\* The service starts and stops its runner under one lock, and is quarantined
\* when a close could not confirm containment.
Start(floor) ==
    /\ gen < MaxGen /\ contained /\ close.pc = "no"
    /\ ~started \/ closed
    /\ closed => NothingOwned
    /\ idle' = NewQueue /\ ready' = IF closed THEN {} ELSE ready
    /\ gen' = gen + 1 /\ closed' = FALSE /\ started' = TRUE /\ target' = floor
    /\ sup' = [sup EXCEPT ![gen + 1] = [pc |-> "watch", batch |-> {}]]
    /\ watcher' = gen + 1 /\ contained' = FALSE
    /\ UNCHANGED <<all, proc, spawn, retire, rev, trim, close, posts, limit, mishaps>>

\* The supervisor thread cannot be started.
StartFails ==
    /\ gen < MaxGen /\ contained /\ close.pc = "no" /\ Mishap
    /\ ~started \/ closed
    /\ closed => NothingOwned
    /\ idle' = NewQueue /\ ready' = IF closed THEN {} ELSE ready
    /\ gen' = gen + 1 /\ closed' = TRUE /\ started' = FALSE
    /\ target' \in {1, InitialTarget}
    /\ watcher' = 0 /\ contained' = FALSE
    /\ UNCHANGED <<all, proc, spawn, retire, rev, sup, trim, close, posts, limit>>

CloseBegin ==
    /\ close.pc = "no"
    /\ MarkFailed
    /\ close' = [pc |-> "on", tried |-> {}]
    /\ UNCHANGED <<gen, target, slotVars, proc, spawn, retire, rev, sup, watcher, trim,
                   contained, posts, limit, mishaps>>

CloseRetire(s) ==
    /\ close.pc = "on" /\ s \in all \ close.tried /\ Published(<<"close", 0>>)
    /\ \E o \in LateRetireOutcomes(s) : RetireSlot(s, o, <<"close", 0>>)
    /\ close' = [close EXCEPT !.tried = @ \cup {s}]
    /\ UNCHANGED <<lockVars, idle, spawn, retire, rev, sup, watcher, trim, contained, limit>>

\* _containment_status: a spawn thread counts as well as what is registered.
SupervisorGone == watcher = 0 \/ sup[watcher].pc = "none"
IsContainedNow == /\ all = {} /\ SupervisorGone
                  /\ \A s \in Slots : ~Retiring(s) /\ \A r \in Reviewers : ~Active(r)
IsContained == NothingOwned /\ SupervisorGone

\* close_contained returns when contained, when stalled, or at its deadline.
CloseReturn ==
    /\ close.pc = "on" /\ Published(<<"close", 0>>)
    /\ contained' = IsContained
    /\ watcher' = IF SupervisorGone THEN 0 ELSE watcher
    /\ close' = [pc |-> "no", tried |-> {}]
    /\ UNCHANGED <<lockVars, slotVars, proc, spawn, retire, rev, sup, trim, posts, limit, mishaps>>

(***************************************************************************)
(* The supervisor and its spawn threads                                    *)
(***************************************************************************)
SlotsNeeded == IF Cardinality(all) < target THEN target - Cardinality(all) ELSE 0

SupExit(g) ==
    /\ sup[g].pc # "none" /\ Stale(g) /\ trim[g].pc = "no"
    /\ Published(<<"sup", g>>)
    /\ sup' = [sup EXCEPT ![g] = [pc |-> "none", batch |-> {}]]
    /\ UNCHANGED <<lockVars, slotVars, proc, spawn, retire, rev, watcher, trim, close,
                   contained, posts, limit, mishaps>>

\* start_hook_worker_slots_interruptibly: one thread per missing worker.
SupSpawn(g) ==
    /\ sup[g].pc = "watch" /\ ~Stale(g) /\ trim[g].pc = "no" /\ SlotsNeeded > 0
    /\ \E batch \in kSubset(SlotsNeeded, {s \in Slots : Fresh(s)}) :
         /\ spawn' = [s \in Slots |-> IF s \in batch THEN [pc |-> "start", gen |-> g]
                                                     ELSE spawn[s]]
         /\ sup' = [sup EXCEPT ![g] = [pc |-> "spawn", batch |-> batch]]
    /\ UNCHANGED <<lockVars, slotVars, proc, retire, rev, watcher, trim, close, contained,
                   posts, limit, mishaps>>

\* start_hook_worker_slot under _process_creation_lock: the child is created
\* and then registered, whatever close did in the meantime.
SpawnProcess(s) ==
    /\ spawn[s].pc = "start" /\ ~Stale(spawn[s].gen)
    /\ \A o \in Slots : spawn[o].pc \notin {"born", "stale"}
    /\ spawn' = [spawn EXCEPT ![s].pc = "born"]
    /\ proc' = [proc EXCEPT ![s] = "raw"]
    /\ UNCHANGED <<lockVars, slotVars, retire, rev, sup, watcher, trim, close, contained,
                   posts, limit, mishaps>>

\* Creation was cancelled, or the process could not be created.
SpawnRefused(s) ==
    /\ spawn[s].pc = "start"
    /\ IF Stale(spawn[s].gen) THEN UNCHANGED mishaps ELSE Mishap
    /\ spawn' = [spawn EXCEPT ![s].pc = "no"]
    /\ UNCHANGED <<lockVars, slotVars, proc, retire, rev, sup, watcher, trim, close,
                   contained, posts, limit>>

\* Registered whatever close did, or (a bug) only in its own generation.
RegisterCurrent(s) == IF Stale(spawn[s].gen) THEN all ELSE all \cup {s}
RegisterBorn(s) == all \cup {s}

Register(s) ==
    /\ spawn[s].pc = "born"
    /\ all' = RegisterBorn(s)
    /\ spawn' = [spawn EXCEPT ![s].pc = IF Stale(spawn[s].gen) THEN "stale" ELSE "no"]
    /\ UNCHANGED <<lockVars, ready, idle, proc, retire, rev, sup, watcher, trim, close,
                   contained, posts, limit, mishaps>>

\* A worker born into a closed generation is retired by its spawn thread.
RetireStale(s) ==
    /\ spawn[s].pc = "stale"
    /\ \E o \in LateRetireOutcomes(s) :
         /\ RetireSlot(s, o, <<"spawn", s>>)
         /\ IF o[1] THEN UNCHANGED <<closed, started>> ELSE MarkFailed
    /\ spawn' = [spawn EXCEPT ![s].pc = "no"]
    /\ UNCHANGED <<gen, target, idle, retire, rev, sup, watcher, trim, close, contained, limit>>

\* The batch that was really started goes on to the handshake.
SupGather(g) ==
    /\ sup[g].pc = "spawn" /\ ~Stale(g)
    /\ \A s \in sup[g].batch : ~Starting(s)
    /\ LET batch == sup[g].batch \cap all
       IN  sup' = [sup EXCEPT ![g] = [pc |-> IF batch = {} THEN "watch" ELSE "admit",
                                      batch |-> batch]]
    /\ UNCHANGED <<lockVars, slotVars, proc, spawn, retire, rev, watcher, trim, close,
                   contained, posts, limit, mishaps>>

\* hook_worker_became_isolated, inside the handshake of admit_hook_worker_batch.
Isolate(g, s) ==
    /\ sup[g].pc = "admit" /\ s \in sup[g].batch /\ proc[s] = "raw"
    /\ proc' = [proc EXCEPT ![s] = "up"]
    /\ UNCHANGED <<lockVars, slotVars, threadVars, posts, limit, mishaps>>

AfterBatch(batch) == [pc |-> IF batch = {} THEN "watch" ELSE "admit", batch |-> batch]

\* The worker said it is ready; it may have died since.
Admit(g, s) ==
    /\ sup[g].pc = "admit" /\ s \in sup[g].batch /\ ~Stale(g)
    /\ Published(<<"sup", g>>) /\ proc[s] \in {"up", "orphan"}
    /\ idle' = idle \cup {s} /\ ready' = ready \cup {s}
    /\ Publish(<<"sup", g>>, ready \cup {s})
    /\ sup' = [sup EXCEPT ![g] = AfterBatch(@.batch \ {s})]
    /\ UNCHANGED <<lockVars, all, proc, spawn, retire, rev, watcher, trim, close, contained,
                   limit, mishaps>>

\* The handshake failed or timed out.
NotReady(g, s) ==
    /\ sup[g].pc = "admit" /\ s \in sup[g].batch /\ ~Stale(g)
    /\ Published(<<"sup", g>>)
    /\ IF proc[s] \in {"raw", "up"} THEN Mishap ELSE UNCHANGED mishaps
    /\ \E o \in RetireOutcomes(s) :
         /\ proc' = [proc EXCEPT ![s] = o[2]]
         /\ IF o[1] THEN /\ all' = Unregister(s) /\ ready' = ready \ {s}
                         /\ Publish(<<"sup", g>>, ready \ {s})
                         /\ sup' = [sup EXCEPT ![g] = AfterBatch(@.batch \ {s})]
                         /\ UNCHANGED <<closed, started>>
                    ELSE /\ MarkFailed
                         /\ sup' = [sup EXCEPT ![g] = [pc |-> "none", batch |-> {}]]
                         /\ UNCHANGED <<all, ready, posts>>
    /\ UNCHANGED <<gen, target, idle, spawn, retire, rev, watcher, trim, close, contained, limit>>

(***************************************************************************)
(* Retirement threads                                                      *)
(***************************************************************************)
\* The last part of _replace_slot_async ("kill") and of
\* _retire_idle_slot_async ("scale"): nothing starts in a closed runner.
BeginRetire(s, how) ==
    \/ /\ closed
       /\ UNCHANGED <<closed, started, retire, mishaps>>
    \/ /\ ~closed /\ retire' = [retire EXCEPT ![s] = how]
       /\ UNCHANGED <<closed, started, mishaps>>
    \/ /\ ~closed /\ Mishap /\ MarkFailed
       /\ UNCHANGED retire

\* Both contain the worker and unregister it; only the first publishes.
RetireRun(s) ==
    /\ retire[s] \in {"kill", "scale"}
    /\ \E o \in RetireOutcomes(s) :
         /\ Costs(s, o)
         /\ proc' = [proc EXCEPT ![s] = o[2]]
         /\ IF ~o[1]
              THEN MarkFailed /\ UNCHANGED <<all, ready, posts>>
              ELSE /\ all' = Unregister(s)
                   /\ UNCHANGED <<closed, started>>
                   /\ IF retire[s] = "kill"
                        THEN ready' = ready \ {s} /\ Publish(<<"retire", s>>, ready \ {s})
                        ELSE UNCHANGED <<ready, posts>>
    /\ retire' = [retire EXCEPT ![s] = "no"]
    /\ UNCHANGED <<gen, target, idle, spawn, rev, sup, watcher, trim, close, contained, limit>>

(***************************************************************************)
(* Reviews                                                                 *)
(***************************************************************************)
\* `then' says what a broken pipe leads to: one more try when the review is
\* idempotent, otherwise the end of the review.
Enter(r) ==
    /\ rev[r].pc = "out" /\ ~closed /\ started
    /\ \E then \in {"again", "leave"} :
         rev' = [rev EXCEPT ![r] = [pc |-> "get", slot |-> None, gen |-> gen, then |-> then]]
    /\ UNCHANGED <<lockVars, slotVars, proc, spawn, retire, sup, watcher, trim, close,
                   contained, posts, limit, mishaps>>

\* The queue is taken from outside the state lock, closed or not.
TakeSlot(r) ==
    /\ rev[r].pc \in {"get", "again"}
    /\ \E s \in idle :
         /\ idle' = idle \ {s}
         /\ rev' = [rev EXCEPT ![r].pc = "send", ![r].slot = s,
                               ![r].then = IF rev[r].pc = "get" THEN @ ELSE "leave"]
    /\ UNCHANGED <<lockVars, all, ready, proc, spawn, retire, sup, watcher, trim, close,
                   contained, posts, limit, mishaps>>

\* No idle worker in time, or the deadline has passed.
GiveUp(r) ==
    /\ rev[r].pc \in {"get", "again"}
    /\ rev' = [rev EXCEPT ![r] = Idle]
    /\ UNCHANGED <<lockVars, slotVars, proc, spawn, retire, sup, watcher, trim, close,
                   contained, posts, limit, mishaps>>

\* The worker answered; the `finally' of review() ends the activity.
Answer(r) ==
    /\ rev[r].pc = "send" /\ proc[rev[r].slot] = "up"
    /\ rev' = [rev EXCEPT ![r].pc = "answered"]
    /\ UNCHANGED <<lockVars, slotVars, proc, spawn, retire, sup, watcher, trim, close,
                   contained, posts, limit, mishaps>>

\* _withdraw_slot_capacity
Withdraw(r) ==
    /\ ready' = ready \ {rev[r].slot}
    /\ Publish(<<"review", r>>, ready \ {rev[r].slot})

\* A dead worker breaks the pipe; a live one may time out or break it too.
SendFails(r) ==
    /\ rev[r].pc = "send"
    /\ \/ /\ proc[rev[r].slot] # "up" /\ UNCHANGED mishaps
          /\ rev' = [rev EXCEPT ![r].pc = "drop"]
       \/ /\ proc[rev[r].slot] = "up" /\ Mishap
          /\ \E then \in {rev[r].then, "leave"} :
               rev' = [rev EXCEPT ![r].pc = "drop", ![r].then = then]
    /\ Withdraw(r)
    /\ UNCHANGED <<lockVars, all, idle, proc, spawn, retire, sup, watcher, trim, close,
                   contained, limit>>

\* The answer came too late or is malformed.
BadAnswer(r) ==
    /\ rev[r].pc = "answered" /\ Mishap
    /\ rev' = [rev EXCEPT ![r].pc = "drop", ![r].then = "done"]
    /\ Withdraw(r)
    /\ UNCHANGED <<lockVars, all, idle, proc, spawn, retire, sup, watcher, trim, close,
                   contained, limit>>

Returnable(r) == proc[rev[r].slot] = "up" /\ ~Stale(rev[r].gen)

\* The worker goes back to the queue, is scaled down, or is replaced.
Return(r) ==
    /\ rev[r].pc = "answered"
    /\ IF Returnable(r) /\ Cardinality(ready) <= target
         THEN /\ idle' = idle \cup {rev[r].slot}
              /\ rev' = [rev EXCEPT ![r] = Idle]
              /\ UNCHANGED <<ready, posts>>
         ELSE /\ Withdraw(r)
              /\ rev' = [rev EXCEPT ![r].pc = IF Returnable(r) THEN "scale" ELSE "drop",
                                    ![r].then = "done"]
              /\ UNCHANGED idle
    /\ UNCHANGED <<lockVars, all, proc, spawn, retire, sup, watcher, trim, close, contained,
                   limit, mishaps>>

\* After a broken pipe the slot is let go, or (a bug) kept for the next try.
KeepSlot(r) == [rev[r] EXCEPT !.pc = "again"]
LetGo(r) == [rev[r] EXCEPT !.pc = "again", !.slot = None]

\* Once its count is published, the reviewer hands the worker to a thread.
HandOver(r) ==
    /\ rev[r].pc \in {"drop", "scale"} /\ Published(<<"review", r>>)
    /\ BeginRetire(rev[r].slot, IF rev[r].pc = "drop" THEN "kill" ELSE "scale")
    /\ rev' = [rev EXCEPT ![r] = IF rev[r].then = "again" THEN LetGo(r) ELSE Idle]
    /\ UNCHANGED <<gen, target, slotVars, proc, spawn, sup, watcher, trim, close, contained,
                   posts, limit>>

(***************************************************************************)
(* Capacity                                                                *)
(***************************************************************************)
\* _refresh_capacity_policy and enable_full_capacity.
Resize(n) ==
    /\ ~closed /\ started /\ target # n
    /\ target' = n
    /\ UNCHANGED <<closed, started, gen, slotVars, proc, threadVars, posts, limit, mishaps>>

\* _trim_excess_ready_capacity, run by the supervisors and by observe_load.
TrimCheck(t) ==
    /\ trim[t].pc = "no" /\ Cardinality(ready) > target
    /\ t # 0 => sup[t].pc = "watch" /\ Published(<<"sup", t>>)
    /\ trim' = [trim EXCEPT ![t].pc = "take"]
    /\ UNCHANGED <<lockVars, slotVars, proc, spawn, retire, rev, sup, watcher, close,
                   contained, posts, limit, mishaps>>

\* The pop and the withdrawal under the lock that follows are one step: in
\* between, the slot is in no other thread's reach.
TrimTake(t) ==
    /\ trim[t].pc = "take"
    /\ \/ /\ idle = {} /\ trim' = [trim EXCEPT ![t].pc = "no"]
          /\ UNCHANGED <<idle, ready, posts>>
       \/ \E s \in idle :
            /\ idle' = idle \ {s} /\ ready' = ready \ {s}
            /\ Publish(<<"trim", t>>, ready \ {s})
            /\ trim' = [trim EXCEPT ![t] = [pc |-> "drop", slot |-> s]]
    /\ UNCHANGED <<lockVars, all, proc, spawn, retire, rev, sup, watcher, close,
                   contained, limit, mishaps>>

TrimRetire(t) ==
    /\ trim[t].pc = "drop" /\ Published(<<"trim", t>>)
    /\ BeginRetire(trim[t].slot, "scale")
    /\ trim' = [trim EXCEPT ![t] = [pc |-> "no", slot |-> None]]
    /\ UNCHANGED <<gen, target, slotVars, proc, spawn, rev, sup, watcher, close, contained,
                   posts, limit>>

\* The listener is the scheduler's set_active_limit.
Deliver ==
    /\ \E p \in posts : limit' = p.n /\ posts' = posts \ {p}
    /\ UNCHANGED <<lockVars, slotVars, proc, threadVars, mishaps>>

\* A guardian dies on its own.
GuardianDies(s) ==
    /\ proc[s] \in {"raw", "up"} /\ Mishap
    /\ proc' = [proc EXCEPT ![s] = IF @ = "up" THEN "orphan" ELSE "husk"]
    /\ UNCHANGED <<lockVars, slotVars, threadVars, posts, limit>>

(***************************************************************************)
(* Specification                                                           *)
(***************************************************************************)
Supervisor(g) ==
    \/ SupExit(g) \/ SupSpawn(g) \/ SupGather(g)
    \/ \E s \in Slots : Isolate(g, s) \/ Admit(g, s) \/ NotReady(g, s)

Spawner(s) == SpawnProcess(s) \/ SpawnRefused(s) \/ Register(s) \/ RetireStale(s)

Reviewer(r) == \/ TakeSlot(r) \/ GiveUp(r) \/ Answer(r) \/ SendFails(r) \/ BadAnswer(r)
               \/ Return(r) \/ HandOver(r)

Trimmer(t) == TrimTake(t) \/ TrimRetire(t)

Next ==
    \/ \E floor \in {1, InitialTarget} : Start(floor)
    \/ StartFails \/ CloseBegin \/ CloseReturn
    \/ \E s \in Slots : CloseRetire(s) \/ Spawner(s) \/ RetireRun(s) \/ GuardianDies(s)
    \/ \E g \in Gens : Supervisor(g)
    \/ \E r \in Reviewers : Enter(r) \/ Reviewer(r)
    \/ \E t \in Trimmers : TrimCheck(t) \/ Trimmer(t)
    \/ \E n \in MinTarget .. ProcessLimit : Resize(n)
    \/ Deliver

Spec == Init /\ [][Next]_vars

\* Every thread that was started is scheduled; nobody has to review, resize,
\* start or close.
LiveSpec ==
    /\ Spec
    /\ \A g \in Gens : WF_vars(Supervisor(g))
    /\ \A s \in Slots : WF_vars(Spawner(s)) /\ WF_vars(RetireRun(s))
    /\ \A r \in Reviewers : WF_vars(Reviewer(r))
    /\ \A t \in Trimmers : WF_vars(Trimmer(t))
    /\ WF_vars(Deliver)

(***************************************************************************)
(* Properties                                                              *)
(***************************************************************************)
Threads == {<<"close", 0>>} \cup ({"sup"} \X Gens) \cup ({"spawn", "retire"} \X Slots)
           \cup ({"review"} \X Reviewers) \cup ({"trim"} \X Trimmers)

\* What each variable of the runner holds; a reviewer or trimmer has a slot
\* exactly while it is between taking it and letting it go.
TypeOK ==
    /\ {closed, started, contained} \subseteq BOOLEAN
    /\ {gen, target, limit, mishaps} \subseteq Nat
    /\ all \subseteq Slots /\ ready \subseteq Slots /\ idle \subseteq Slots
    /\ proc \in [Slots -> Processes]
    /\ spawn \in [Slots -> [pc : {"no", "start", "born", "stale"}, gen : 0 .. MaxGen]]
    /\ retire \in [Slots -> {"no", "kill", "scale"}]
    /\ rev \in [Reviewers -> [pc : {"out", "get", "send", "again", "answered", "drop", "scale"},
                              slot : Slots \cup {None}, gen : Nat,
                              then : {"leave", "again", "done"}]]
    /\ sup \in [Gens -> [pc : {"none", "watch", "spawn", "admit"}, batch : SUBSET Slots]]
    /\ watcher \in 0 .. MaxGen
    /\ trim \in [Trimmers -> [pc : {"no", "take", "drop"}, slot : Slots \cup {None}]]
    /\ close \in [pc : {"no", "on"}, tried : SUBSET Slots]
    /\ \A r \in Reviewers : rev[r].slot = None <=> rev[r].pc \in {"out", "get", "again"}
    /\ \A t \in Trimmers : trim[t].slot = None <=> trim[t].pc \in {"no", "take"}
    /\ posts \subseteq [by : Threads, n : Nat]

\* Ownership (hook_process_creation.py: "never turn a cleanup interruption
\* into untracked worker capacity"): whatever start, close, review, trimming
\* and failed retirements do at the same time, a worker process that may
\* still run something is registered with the runner, or a spawn thread that
\* close waits for is about to register it.
Owned == \A s \in Slots : proc[s] # "none" => s \in all \/ spawn[s].pc = "born"

\* When close_contained() has answered TRUE, no worker process and no thread
\* that could still create one is left, until the runner is started again.
ContainedMeansGone ==
    contained => \A s \in Slots : proc[s] = "none" /\ spawn[s].pc = "no" /\ retire[s] = "no"

\* A worker a reviewer may take from the queue of an open runner is
\* registered, counted as usable, isolated, and in nobody else's hands: no
\* reviewer or trimmer holds it, no thread is retiring it, and it does not
\* belong to a generation that was closed.
IdleIsUsable ==
    started /\ ~closed =>
        \A s \in idle : /\ s \in all /\ s \in ready /\ s \notin Held
                        /\ ~Retiring(s) /\ ~Starting(s)
                        /\ proc[s] \in {"up", "orphan"}

\* A started runner that stays open gets its workers back: after every
\* failed, late or trimmed worker the usable ones return to the target, unless
\* a failed containment closes the runner.
CapacityRestored ==
    [](started => <>(closed \/ Cardinality(ready) >= target))

\* When no publication is under way, the scheduler's active limit is the
\* number of usable workers.
LimitIsCurrent ==
    started /\ ~closed /\ posts = {} => limit = Cardinality(ready)
=============================================================================
