-------------------------- MODULE HookRunnerProofs --------------------------
(***************************************************************************)
(* The pool of hook workers never loses track of a process, never calls    *)
(* itself contained while one may run, and never offers a worker that      *)
(* somebody else has in his hands: for any number of workers, reviewers,   *)
(* generations and mishaps.                                                *)
(***************************************************************************)
EXTENDS HookRunner, FiniteSetTheorems, TLAPS

----------------------------------------------------------------------------
(* The inductive invariant.                                                *)

\* The runner before its first start.
Pristine ==
    /\ all = {} /\ ready = {} /\ idle = {} /\ posts = {}
    /\ \A s \in Slots : proc[s] = "none" /\ spawn[s].pc = "no" /\ retire[s] = "no"
    /\ \A r \in Reviewers : rev[r].pc = "out"
    /\ \A t \in Trimmers : trim[t].pc = "no"
    /\ \A g \in Gens : sup[g].pc = "none"

\* The runner is open, closed, or was never started; while close_contained()
\* runs it stays closed, and a contained runner has no supervisor.
Lifecycle ==
    /\ ~(closed /\ started)
    /\ close.pc = "on" => closed
    /\ contained => ~started /\ \A g \in Gens : sup[g].pc = "none"
    /\ ~started /\ ~closed => Pristine

\* Only the newest generation has a supervisor, and that is the one close
\* waits for.
OneSupervisor ==
    \A g \in Gens :
        /\ sup[g].pc # "none" => g = watcher /\ g = gen
        /\ sup[g].pc \in {"none", "watch"} => sup[g].batch = {}

\* A slot is in one place: the queue, somebody's hands, the supervisor's
\* batch, or a thread that starts or retires it.
InBatch(s) == \E g \in Gens : s \in sup[g].batch

Custody ==
    \A s \in Slots :
        /\ s \in idle => s \notin Held
        /\ s \in idle \cup Held => ~InBatch(s) /\ ~Retiring(s) /\ ~Starting(s)
        /\ InBatch(s) => ~Retiring(s)
        /\ \A g \in Gens : s \in sup[g].batch /\ sup[g].pc = "admit" => ~Starting(s)

\* No two of the reviewers and trimmers hold the same worker.
OneHolder ==
    /\ \A p, r \in Reviewers : p # r /\ rev[p].slot = rev[r].slot => rev[p].slot = None
    /\ \A t, u \in Trimmers : t # u /\ trim[t].slot = trim[u].slot => trim[t].slot = None
    /\ \A r \in Reviewers, t \in Trimmers : rev[r].slot = trim[t].slot => rev[r].slot = None

\* While the runner is open, what is idle, in the handshake, or at work for a
\* review of this generation is registered.
OpenPool ==
    /\ \A r \in Reviewers : rev[r].gen <= gen
    /\ started /\ ~closed =>
         /\ \A s \in idle : s \in all /\ s \in ready /\ proc[s] \in {"up", "orphan"}
         /\ \A g \in Gens : sup[g].pc = "admit" => sup[g].batch \subseteq all
         /\ \A r \in Reviewers : rev[r].pc \in {"send", "answered"} /\ rev[r].gen = gen
              => rev[r].slot \in all /\ rev[r].slot \in ready

RunnerInvariant ==
    /\ TypeOK /\ Owned /\ Lifecycle /\ ContainedMeansGone
    /\ OneSupervisor /\ Custody /\ OneHolder /\ OpenPool

----------------------------------------------------------------------------
(* TypeOK in parts, one for the variables that change together.            *)

FlagTypes == closed \in BOOLEAN /\ started \in BOOLEAN /\ contained \in BOOLEAN
NumberTypes == gen \in Nat /\ target \in Nat /\ limit \in Nat /\ mishaps \in Nat
SlotTypes == all \subseteq Slots /\ ready \subseteq Slots /\ idle \subseteq Slots
ProcTypes == proc \in [Slots -> Processes]
SpawnTypes == spawn \in [Slots -> [pc : {"no", "start", "born", "stale"}, gen : 0 .. MaxGen]]
RetireTypes == retire \in [Slots -> {"no", "kill", "scale"}]
ReviewTypes ==
    /\ rev \in [Reviewers -> [pc : {"out", "get", "send", "again", "answered", "drop", "scale"},
                              slot : Slots \cup {None}, gen : Nat,
                              then : {"leave", "again", "done"}]]
    /\ \A r \in Reviewers : rev[r].slot = None <=> rev[r].pc \in {"out", "get", "again"}
SupTypes ==
    /\ sup \in [Gens -> [pc : {"none", "watch", "spawn", "admit"}, batch : SUBSET Slots]]
    /\ watcher \in 0 .. MaxGen
TrimTypes ==
    /\ trim \in [Trimmers -> [pc : {"no", "take", "drop"}, slot : Slots \cup {None}]]
    /\ \A t \in Trimmers : trim[t].slot = None <=> trim[t].pc \in {"no", "take"}
CloseTypes == close \in [pc : {"no", "on"}, tried : SUBSET Slots]
PostTypes == posts \subseteq [by : Threads, n : Nat]

Types ==
    /\ FlagTypes /\ NumberTypes /\ SlotTypes /\ ProcTypes /\ SpawnTypes /\ RetireTypes
    /\ ReviewTypes /\ SupTypes /\ TrimTypes /\ CloseTypes /\ PostTypes

\* The parts together are TypeOK.
LEMMA TypeParts == TypeOK <=> Types
<1>1. {closed, started, contained} \subseteq BOOLEAN <=> FlagTypes
  BY Zenon DEF FlagTypes
<1>2. {gen, target, limit, mishaps} \subseteq Nat <=> NumberTypes
  BY DEF NumberTypes
<1>3. QED
  BY <1>1, <1>2
  DEF TypeOK, Types, SlotTypes, ProcTypes, SpawnTypes, RetireTypes, ReviewTypes,
         SupTypes, TrimTypes, CloseTypes, PostTypes

\* The same of the next state.
LEMMA TypePartsNext == TypeOK' <=> Types'
<1>1. ({closed, started, contained} \subseteq BOOLEAN)' <=> FlagTypes'
  BY Zenon DEF FlagTypes
<1>2. ({gen, target, limit, mishaps} \subseteq Nat)' <=> NumberTypes'
  BY DEF NumberTypes
<1>3. QED
  BY <1>1, <1>2
  DEF TypeOK, Types, SlotTypes, ProcTypes, SpawnTypes, RetireTypes, ReviewTypes,
         SupTypes, TrimTypes, CloseTypes, PostTypes

----------------------------------------------------------------------------
(* Shared pieces.                                                          *)

\* What retire_worker_slot may answer: a worker that was contained is gone.
LEMMA OutcomeFacts ==
    ASSUME ProcTypes, NEW s \in Slots
    PROVE  /\ RetireOutcomes(s) \subseteq LateRetireOutcomes(s)
           /\ \A o \in LateRetireOutcomes(s) :
                /\ o[1] \in BOOLEAN /\ o[2] \in Processes
                /\ o[1] => o[2] = "none"
                /\ ~o[1] => proc[s] # "none"
<1>1. CASE proc[s] \in {"none", "husk"}
  <2>1. RetireOutcomes(s) = {<<TRUE, "none">>} /\ LateRetireOutcomes(s) = {<<TRUE, "none">>}
    BY <1>1 DEF RetireOutcomes, LateRetireOutcomes
  <2>2. QED
    BY <2>1 DEF Processes
<1>2. CASE proc[s] = "up"
  <2>1. /\ RetireOutcomes(s) = {<<TRUE, "none">>, <<FALSE, "up">>}
        /\ LateRetireOutcomes(s) = {<<TRUE, "none">>, <<FALSE, "up">>}
    BY <1>2 DEF RetireOutcomes, LateRetireOutcomes
  <2>2. QED
    BY <1>2, <2>1 DEF Processes
<1>3. CASE proc[s] = "raw"
  <2>1. /\ RetireOutcomes(s) = {<<FALSE, "husk">>}
        /\ LateRetireOutcomes(s) = {<<FALSE, "husk">>, <<TRUE, "none">>}
    BY <1>3 DEF RetireOutcomes, LateRetireOutcomes
  <2>2. QED
    BY <1>3, <2>1 DEF Processes
<1>4. CASE proc[s] = "orphan"
  <2>1. /\ RetireOutcomes(s) = {<<FALSE, "orphan">>}
        /\ LateRetireOutcomes(s) = {<<FALSE, "orphan">>}
    BY <1>4 DEF RetireOutcomes, LateRetireOutcomes
  <2>2. QED
    BY <1>4, <2>1 DEF Processes
<1>5. QED
  BY <1>1, <1>2, <1>3, <1>4 DEF ProcTypes, Processes

\* A published count is a number.
LEMMA PublishTypes ==
    ASSUME PostTypes, NEW who \in Threads, NEW usable \in SUBSET Slots, Publish(who, usable)
    PROVE  PostTypes'
<1>1. Cardinality(usable) \in Nat
  BY RunnerConstants, FS_Subset, FS_CardinalityType
<1>2. QED
  BY <1>1 DEF Publish, PostTypes


\* A count that is due from a thread of another kind tells nothing about the
\* spawn and retirement threads.
LEMMA PublishOthers ==
    ASSUME NEW who, who[1] \notin {"spawn", "retire"}, UNCHANGED <<spawn, retire>>,
           UNCHANGED posts \/ \E usable : Publish(who, usable)
    PROVE  \A x \in Slots : /\ Starting(x)' <=> Starting(x)
                            /\ Retiring(x)' <=> Retiring(x)
<1>1. CASE UNCHANGED posts
  BY <1>1 DEF Starting, Retiring, Published
<1>2. ASSUME NEW usable, Publish(who, usable)
      PROVE  \A x \in Slots : /\ Starting(x)' <=> Starting(x)
                              /\ Retiring(x)' <=> Retiring(x)
  <2>1. PICK n : posts' = posts \cup {[by |-> who, n |-> n]}
    BY <1>2 DEF Publish
  <2>2. \A x \in Slots : who # <<"spawn", x>> /\ who # <<"retire", x>>
    OBVIOUS
  <2>3. QED
    BY <2>1, <2>2 DEF Starting, Retiring, Published
<1>3. QED
  BY <1>1, <1>2

\* A slot that only leaves hands, batches and threads stays in one place.
LEMMA QuietCustody ==
    ASSUME Custody,
           \A x \in Slots : /\ (x \in idle)' => x \in idle
                            /\ (x \in Held)' => x \in Held
                            /\ Starting(x)' => Starting(x)
                            /\ Retiring(x)' => Retiring(x),
           \A g \in Gens : /\ (sup[g].batch)' \subseteq sup[g].batch
                           /\ (sup[g].pc = "admit")' => sup[g].pc = "admit"
    PROVE  Custody'
  BY DEF Custody, InBatch

\* Every step keeps the types; each action has one step per part it changes.
LEMMA TypeStep ==
    ASSUME TypeOK, [Next]_vars
    PROVE  TypeOK'
<1>0. Types
  BY TypeParts
<1> SUFFICES Types'
  BY TypePartsNext
<1> USE <1>0 DEF Types, lockVars, slotVars, threadVars
<1>1. ASSUME NEW floor \in {1, InitialTarget}, Start(floor) PROVE Types'
  <2>1. FlagTypes'
    BY <1>1, RunnerConstants DEF Start, FlagTypes, NothingOwned
  <2>2. NumberTypes'
    BY <1>1, RunnerConstants DEF Start, NumberTypes, PostTypes
  <2>3. SlotTypes'
    BY <1>1, RunnerConstants DEF Start, SlotTypes, SupTypes, ReviewTypes, NewQueue
  <2>4. SupTypes'
    BY <1>1, RunnerConstants DEF Start, SupTypes, NumberTypes, SlotTypes, Gens, kSubset
  <2>5. QED
    BY <1>1, <2>1, <2>2, <2>3, <2>4
    DEF Start, ProcTypes, SpawnTypes, RetireTypes, ReviewTypes, TrimTypes, CloseTypes,
         PostTypes
<1>2. ASSUME StartFails PROVE Types'
  <2>1. FlagTypes'
    BY <1>2, RunnerConstants DEF StartFails, FlagTypes, NothingOwned
  <2>2. NumberTypes'
    BY <1>2, RunnerConstants DEF StartFails, NumberTypes, PostTypes, Mishap
  <2>3. SlotTypes'
    BY <1>2, RunnerConstants DEF StartFails, SlotTypes, SupTypes, ReviewTypes, NewQueue
  <2>4. SupTypes'
    BY <1>2, RunnerConstants
    DEF StartFails, SupTypes, NumberTypes, SlotTypes, Gens, kSubset
  <2>5. QED
    BY <1>2, <2>1, <2>2, <2>3, <2>4
    DEF StartFails, ProcTypes, SpawnTypes, RetireTypes, ReviewTypes, TrimTypes,
         CloseTypes, PostTypes
<1>3. ASSUME CloseBegin PROVE Types'
  <2>1. FlagTypes'
    BY <1>3, RunnerConstants DEF CloseBegin, FlagTypes, MarkFailed
  <2>2. CloseTypes'
    BY <1>3, RunnerConstants DEF CloseBegin, CloseTypes, SlotTypes
  <2>3. QED
    BY <1>3, <2>1, <2>2
    DEF CloseBegin, NumberTypes, SlotTypes, ProcTypes, SpawnTypes, RetireTypes,
         ReviewTypes, SupTypes, TrimTypes, PostTypes
<1>4. ASSUME CloseReturn PROVE Types'
  <2>1. FlagTypes'
    BY <1>4, RunnerConstants
    DEF CloseReturn, FlagTypes, IsContained, NothingOwned, SupervisorGone
  <2>2. SupTypes'
    BY <1>4, RunnerConstants
    DEF CloseReturn, SupTypes, NumberTypes, SlotTypes, Gens, kSubset
  <2>3. CloseTypes'
    BY <1>4, RunnerConstants DEF CloseReturn, CloseTypes, SlotTypes
  <2>4. QED
    BY <1>4, <2>1, <2>2, <2>3
    DEF CloseReturn, NumberTypes, SlotTypes, ProcTypes, SpawnTypes, RetireTypes,
         ReviewTypes, TrimTypes, PostTypes
<1>5. ASSUME NEW s \in Slots, CloseRetire(s) PROVE Types'
  <2>1. NumberTypes'
    BY <1>5, RunnerConstants
    DEF CloseRetire, NumberTypes, PostTypes, Mishap, Costs, RetireSlot
  <2>2. SlotTypes'
    BY <1>5 DEF CloseRetire, SlotTypes, RetireSlot, Unregister
  <2>3. ProcTypes'
    BY <1>5, RunnerConstants, OutcomeFacts
    DEF CloseRetire, ProcTypes, Processes, RetireSlot
  <2>4. CloseTypes'
    BY <1>5, RunnerConstants DEF CloseRetire, CloseTypes, SlotTypes
  <2>5. PostTypes'
    BY <1>5, RunnerConstants, OutcomeFacts, PublishTypes
    DEF CloseRetire, PostTypes, SlotTypes, ReviewTypes, Threads, RetireSlot
  <2>6. QED
    BY <1>5, <2>1, <2>2, <2>3, <2>4, <2>5
    DEF CloseRetire, FlagTypes, SpawnTypes, RetireTypes, ReviewTypes, SupTypes,
         TrimTypes
<1>6. ASSUME NEW s \in Slots, SpawnProcess(s) PROVE Types'
  <2>1. ProcTypes'
    BY <1>6, RunnerConstants DEF SpawnProcess, ProcTypes, Processes
  <2>2. SpawnTypes'
    BY <1>6, RunnerConstants
    DEF SpawnProcess, SpawnTypes, SupTypes, NumberTypes, Gens, kSubset
  <2>3. QED
    BY <1>6, <2>1, <2>2
    DEF SpawnProcess, FlagTypes, NumberTypes, SlotTypes, RetireTypes, ReviewTypes,
         SupTypes, TrimTypes, CloseTypes, PostTypes
<1>7. ASSUME NEW s \in Slots, SpawnRefused(s) PROVE Types'
  <2>1. NumberTypes'
    BY <1>7, RunnerConstants DEF SpawnRefused, NumberTypes, PostTypes, Mishap
  <2>2. SpawnTypes'
    BY <1>7, RunnerConstants
    DEF SpawnRefused, SpawnTypes, SupTypes, NumberTypes, Gens, kSubset
  <2>3. QED
    BY <1>7, <2>1, <2>2
    DEF SpawnRefused, FlagTypes, SlotTypes, ProcTypes, RetireTypes, ReviewTypes,
         SupTypes, TrimTypes, CloseTypes, PostTypes
<1>8. ASSUME NEW s \in Slots, Register(s) PROVE Types'
  <2>1. SlotTypes'
    BY <1>8, RunnerConstants
    DEF Register, SlotTypes, SupTypes, ReviewTypes, RegisterBorn
  <2>2. SpawnTypes'
    BY <1>8, RunnerConstants
    DEF Register, SpawnTypes, SupTypes, NumberTypes, Gens, kSubset
  <2>3. QED
    BY <1>8, <2>1, <2>2
    DEF Register, FlagTypes, NumberTypes, ProcTypes, RetireTypes, ReviewTypes,
         SupTypes, TrimTypes, CloseTypes, PostTypes
<1>9. ASSUME NEW s \in Slots, RetireStale(s) PROVE Types'
  <2>1. FlagTypes'
    BY <1>9, RunnerConstants DEF RetireStale, FlagTypes, MarkFailed
  <2>2. NumberTypes'
    BY <1>9 DEF RetireStale, NumberTypes, Mishap, Costs, RetireSlot
  <2>3. SlotTypes'
    BY <1>9 DEF RetireStale, SlotTypes, RetireSlot, Unregister
  <2>4. ProcTypes'
    BY <1>9, RunnerConstants, OutcomeFacts
    DEF RetireStale, ProcTypes, Processes, RetireSlot
  <2>5. SpawnTypes'
    BY <1>9, RunnerConstants
    DEF RetireStale, SpawnTypes, SupTypes, NumberTypes, Gens, kSubset
  <2>6. PostTypes'
    BY <1>9, RunnerConstants, OutcomeFacts, PublishTypes
    DEF RetireStale, PostTypes, SlotTypes, ReviewTypes, Threads, RetireSlot
  <2>7. QED
    BY <1>9, <2>1, <2>2, <2>3, <2>4, <2>5, <2>6
    DEF RetireStale, RetireTypes, ReviewTypes, SupTypes, TrimTypes, CloseTypes
<1>10. ASSUME NEW s \in Slots, RetireRun(s) PROVE Types'
  <2>1. FlagTypes'
    BY <1>10, RunnerConstants DEF RetireRun, FlagTypes, MarkFailed
  <2>2. NumberTypes'
    BY <1>10, RunnerConstants
    DEF RetireRun, NumberTypes, PostTypes, Mishap, Costs, MarkFailed
  <2>3. SlotTypes'
    BY <1>10, RunnerConstants, OutcomeFacts
    DEF RetireRun, SlotTypes, SupTypes, ReviewTypes, Costs, Unregister
  <2>4. ProcTypes'
    BY <1>10, RunnerConstants, OutcomeFacts DEF RetireRun, ProcTypes, Processes
  <2>5. RetireTypes'
    BY <1>10, RunnerConstants DEF RetireRun, RetireTypes, ReviewTypes, TrimTypes
  <2>6. PostTypes'
    BY <1>10, RunnerConstants, OutcomeFacts, PublishTypes
    DEF RetireRun, PostTypes, SlotTypes, ReviewTypes, Threads
  <2>7. QED
    BY <1>10, <2>1, <2>2, <2>3, <2>4, <2>5, <2>6
    DEF RetireRun, SpawnTypes, ReviewTypes, SupTypes, TrimTypes, CloseTypes
<1>11. ASSUME NEW s \in Slots, GuardianDies(s) PROVE Types'
  <2>1. NumberTypes'
    BY <1>11, RunnerConstants DEF GuardianDies, NumberTypes, PostTypes, Mishap
  <2>2. ProcTypes'
    BY <1>11, RunnerConstants DEF GuardianDies, ProcTypes, Processes
  <2>3. QED
    BY <1>11, <2>1, <2>2
    DEF GuardianDies, FlagTypes, SlotTypes, SpawnTypes, RetireTypes, ReviewTypes,
         SupTypes, TrimTypes, CloseTypes, PostTypes
<1>12. ASSUME NEW g \in Gens, SupExit(g) PROVE Types'
  <2>1. SupTypes'
    BY <1>12, RunnerConstants
    DEF SupExit, SupTypes, NumberTypes, SlotTypes, Gens, kSubset
  <2>2. QED
    BY <1>12, <2>1
    DEF SupExit, FlagTypes, NumberTypes, SlotTypes, ProcTypes, SpawnTypes, RetireTypes,
         ReviewTypes, TrimTypes, CloseTypes, PostTypes
<1>13. ASSUME NEW g \in Gens, SupSpawn(g) PROVE Types'
  <2>1. SpawnTypes'
    BY <1>13, RunnerConstants
    DEF SupSpawn, SpawnTypes, SupTypes, NumberTypes, Gens, kSubset
  <2>2. SupTypes'
    BY <1>13, RunnerConstants
    DEF SupSpawn, SupTypes, NumberTypes, SlotTypes, Gens, kSubset
  <2>3. QED
    BY <1>13, <2>1, <2>2
    DEF SupSpawn, FlagTypes, NumberTypes, SlotTypes, ProcTypes, RetireTypes,
         ReviewTypes, TrimTypes, CloseTypes, PostTypes
<1>14. ASSUME NEW g \in Gens, SupGather(g) PROVE Types'
  <2>1. SupTypes'
    BY <1>14, RunnerConstants
    DEF SupGather, SupTypes, NumberTypes, SlotTypes, Gens, kSubset
  <2>2. QED
    BY <1>14, <2>1
    DEF SupGather, FlagTypes, NumberTypes, SlotTypes, ProcTypes, SpawnTypes,
         RetireTypes, ReviewTypes, TrimTypes, CloseTypes, PostTypes
<1>15. ASSUME NEW g \in Gens, NEW s \in Slots, Isolate(g, s) PROVE Types'
  <2>1. ProcTypes'
    BY <1>15, RunnerConstants DEF Isolate, ProcTypes, Processes
  <2>2. QED
    BY <1>15, <2>1
    DEF Isolate, FlagTypes, NumberTypes, SlotTypes, SpawnTypes, RetireTypes,
         ReviewTypes, SupTypes, TrimTypes, CloseTypes, PostTypes
<1>16. ASSUME NEW g \in Gens, NEW s \in Slots, Admit(g, s) PROVE Types'
  <2>1. SlotTypes'
    BY <1>16, RunnerConstants DEF Admit, SlotTypes, SupTypes, ReviewTypes
  <2>2. SupTypes'
    BY <1>16 DEF Admit, SupTypes, AfterBatch
  <2>3. PostTypes'
    BY <1>16, RunnerConstants, PublishTypes
    DEF Admit, PostTypes, SlotTypes, ReviewTypes, Threads
  <2>4. QED
    BY <1>16, <2>1, <2>2, <2>3
    DEF Admit, FlagTypes, NumberTypes, ProcTypes, SpawnTypes, RetireTypes, ReviewTypes,
         TrimTypes, CloseTypes
<1>17. ASSUME NEW g \in Gens, NEW s \in Slots, NotReady(g, s) PROVE Types'
  <2>1. FlagTypes'
    BY <1>17, RunnerConstants DEF NotReady, FlagTypes, MarkFailed
  <2>2. NumberTypes'
    BY <1>17, RunnerConstants DEF NotReady, NumberTypes, PostTypes, Mishap, MarkFailed
  <2>3. SlotTypes'
    BY <1>17, RunnerConstants, OutcomeFacts
    DEF NotReady, SlotTypes, SupTypes, ReviewTypes, Unregister
  <2>4. ProcTypes'
    BY <1>17, RunnerConstants, OutcomeFacts DEF NotReady, ProcTypes, Processes
  <2>5. SupTypes'
    BY <1>17 DEF NotReady, SupTypes, AfterBatch
  <2>6. PostTypes'
    BY <1>17, RunnerConstants, OutcomeFacts, PublishTypes
    DEF NotReady, PostTypes, SlotTypes, ReviewTypes, Threads
  <2>7. QED
    BY <1>17, <2>1, <2>2, <2>3, <2>4, <2>5, <2>6
    DEF NotReady, SpawnTypes, RetireTypes, ReviewTypes, TrimTypes, CloseTypes
<1>18. ASSUME NEW r \in Reviewers, Enter(r) PROVE Types'
  <2>1. ReviewTypes'
    BY <1>18, RunnerConstants DEF Enter, ReviewTypes, SlotTypes, NumberTypes
  <2>2. QED
    BY <1>18, <2>1
    DEF Enter, FlagTypes, NumberTypes, SlotTypes, ProcTypes, SpawnTypes, RetireTypes,
         SupTypes, TrimTypes, CloseTypes, PostTypes
<1>19. ASSUME NEW r \in Reviewers, TakeSlot(r) PROVE Types'
  <2>1. SlotTypes'
    BY <1>19, RunnerConstants DEF TakeSlot, SlotTypes, SupTypes, ReviewTypes
  <2>2. ReviewTypes'
    BY <1>19, RunnerConstants DEF TakeSlot, ReviewTypes, SlotTypes, NumberTypes
  <2>3. QED
    BY <1>19, <2>1, <2>2
    DEF TakeSlot, FlagTypes, NumberTypes, ProcTypes, SpawnTypes, RetireTypes, SupTypes,
         TrimTypes, CloseTypes, PostTypes
<1>20. ASSUME NEW r \in Reviewers, GiveUp(r) PROVE Types'
  <2>1. ReviewTypes'
    BY <1>20, RunnerConstants DEF GiveUp, ReviewTypes, SlotTypes, NumberTypes, Idle
  <2>2. QED
    BY <1>20, <2>1
    DEF GiveUp, FlagTypes, NumberTypes, SlotTypes, ProcTypes, SpawnTypes, RetireTypes,
         SupTypes, TrimTypes, CloseTypes, PostTypes
<1>21. ASSUME NEW r \in Reviewers, Answer(r) PROVE Types'
  <2>1. ReviewTypes'
    BY <1>21, RunnerConstants DEF Answer, ReviewTypes, SlotTypes, NumberTypes
  <2>2. QED
    BY <1>21, <2>1
    DEF Answer, FlagTypes, NumberTypes, SlotTypes, ProcTypes, SpawnTypes, RetireTypes,
         SupTypes, TrimTypes, CloseTypes, PostTypes
<1>22. ASSUME NEW r \in Reviewers, SendFails(r) PROVE Types'
  <2>1. NumberTypes'
    BY <1>22, RunnerConstants DEF SendFails, NumberTypes, PostTypes, Mishap
  <2>2. SlotTypes'
    BY <1>22, RunnerConstants DEF SendFails, SlotTypes, SupTypes, ReviewTypes, Withdraw
  <2>3. ReviewTypes'
    BY <1>22, RunnerConstants DEF SendFails, ReviewTypes, SlotTypes, NumberTypes
  <2>4. PostTypes'
    BY <1>22, RunnerConstants, PublishTypes
    DEF SendFails, PostTypes, SlotTypes, ReviewTypes, Threads, Withdraw
  <2>5. QED
    BY <1>22, <2>1, <2>2, <2>3, <2>4
    DEF SendFails, FlagTypes, ProcTypes, SpawnTypes, RetireTypes, SupTypes, TrimTypes,
         CloseTypes
<1>23. ASSUME NEW r \in Reviewers, BadAnswer(r) PROVE Types'
  <2>1. NumberTypes'
    BY <1>23, RunnerConstants DEF BadAnswer, NumberTypes, PostTypes, Mishap
  <2>2. SlotTypes'
    BY <1>23, RunnerConstants DEF BadAnswer, SlotTypes, SupTypes, ReviewTypes, Withdraw
  <2>3. ReviewTypes'
    BY <1>23, RunnerConstants DEF BadAnswer, ReviewTypes, SlotTypes, NumberTypes
  <2>4. PostTypes'
    BY <1>23, RunnerConstants, PublishTypes
    DEF BadAnswer, PostTypes, SlotTypes, ReviewTypes, Threads, Withdraw
  <2>5. QED
    BY <1>23, <2>1, <2>2, <2>3, <2>4
    DEF BadAnswer, FlagTypes, ProcTypes, SpawnTypes, RetireTypes, SupTypes, TrimTypes,
         CloseTypes
<1>24. ASSUME NEW r \in Reviewers, Return(r) PROVE Types'
  <2>1. SlotTypes'
    BY <1>24, RunnerConstants DEF Return, SlotTypes, SupTypes, ReviewTypes, Withdraw
  <2>2. ReviewTypes'
    BY <1>24, RunnerConstants DEF Return, ReviewTypes, SlotTypes, NumberTypes, Idle
  <2>3. PostTypes'
    BY <1>24, RunnerConstants, PublishTypes
    DEF Return, PostTypes, SlotTypes, ReviewTypes, Threads, Withdraw
  <2>4. QED
    BY <1>24, <2>1, <2>2, <2>3
    DEF Return, FlagTypes, NumberTypes, ProcTypes, SpawnTypes, RetireTypes, SupTypes,
         TrimTypes, CloseTypes
<1>25. ASSUME NEW r \in Reviewers, HandOver(r) PROVE Types'
  <2>1. FlagTypes'
    BY <1>25, RunnerConstants DEF HandOver, FlagTypes, MarkFailed, BeginRetire
  <2>2. NumberTypes'
    BY <1>25, RunnerConstants
    DEF HandOver, NumberTypes, PostTypes, Mishap, BeginRetire, MarkFailed
  <2>3. RetireTypes'
    BY <1>25, RunnerConstants
    DEF HandOver, RetireTypes, ReviewTypes, TrimTypes, BeginRetire
  <2>4. ReviewTypes'
    BY <1>25, RunnerConstants
    DEF HandOver, ReviewTypes, SlotTypes, NumberTypes, Idle, LetGo
  <2>5. QED
    BY <1>25, <2>1, <2>2, <2>3, <2>4
    DEF HandOver, SlotTypes, ProcTypes, SpawnTypes, SupTypes, TrimTypes, CloseTypes,
         PostTypes
<1>26. ASSUME NEW t \in Trimmers, TrimCheck(t) PROVE Types'
  <2>1. TrimTypes'
    BY <1>26, RunnerConstants DEF TrimCheck, TrimTypes, SlotTypes, Trimmers
  <2>2. QED
    BY <1>26, <2>1
    DEF TrimCheck, FlagTypes, NumberTypes, SlotTypes, ProcTypes, SpawnTypes,
         RetireTypes, ReviewTypes, SupTypes, CloseTypes, PostTypes
<1>27. ASSUME NEW t \in Trimmers, TrimTake(t) PROVE Types'
  <2>1. SlotTypes'
    BY <1>27, RunnerConstants DEF TrimTake, SlotTypes, SupTypes, ReviewTypes
  <2>2. TrimTypes'
    <3>1. CASE trim' = [trim EXCEPT ![t].pc = "no"] /\ trim[t].pc = "take"
      BY <3>1 DEF TrimTypes
    <3>2. ASSUME NEW s \in idle, trim' = [trim EXCEPT ![t] = [pc |-> "drop", slot |-> s]]
          PROVE  TrimTypes'
      <4>1. s \in Slots /\ s # None
        BY RunnerConstants DEF SlotTypes
      <4>2. QED
        BY <3>2, <4>1 DEF TrimTypes
    <3>3. QED
      BY <1>27, <3>1, <3>2 DEF TrimTake
  <2>3. PostTypes'
    BY <1>27, RunnerConstants, PublishTypes
    DEF TrimTake, PostTypes, SlotTypes, ReviewTypes, Threads
  <2>4. QED
    BY <1>27, <2>1, <2>2, <2>3
    DEF TrimTake, FlagTypes, NumberTypes, ProcTypes, SpawnTypes, RetireTypes,
         ReviewTypes, SupTypes, CloseTypes
<1>28. ASSUME NEW t \in Trimmers, TrimRetire(t) PROVE Types'
  <2>1. FlagTypes'
    BY <1>28, RunnerConstants DEF TrimRetire, FlagTypes, MarkFailed, BeginRetire
  <2>2. NumberTypes'
    BY <1>28, RunnerConstants
    DEF TrimRetire, NumberTypes, PostTypes, Mishap, BeginRetire, MarkFailed
  <2>3. RetireTypes'
    BY <1>28, RunnerConstants
    DEF TrimRetire, RetireTypes, ReviewTypes, TrimTypes, BeginRetire
  <2>4. TrimTypes'
    BY <1>28, RunnerConstants DEF TrimRetire, TrimTypes, SlotTypes, Trimmers
  <2>5. QED
    BY <1>28, <2>1, <2>2, <2>3, <2>4
    DEF TrimRetire, SlotTypes, ProcTypes, SpawnTypes, ReviewTypes, SupTypes,
         CloseTypes, PostTypes
<1>29. ASSUME NEW n \in MinTarget .. ProcessLimit, Resize(n) PROVE Types'
  <2>1. NumberTypes'
    BY <1>29, RunnerConstants DEF Resize, NumberTypes, PostTypes
  <2>2. QED
    BY <1>29, <2>1
    DEF Resize, FlagTypes, SlotTypes, ProcTypes, SpawnTypes, RetireTypes, ReviewTypes,
         SupTypes, TrimTypes, CloseTypes, PostTypes
<1>30. ASSUME Deliver PROVE Types'
  <2>1. NumberTypes'
    BY <1>30, RunnerConstants DEF Deliver, NumberTypes, PostTypes
  <2>2. PostTypes'
    BY <1>30, RunnerConstants, PublishTypes
    DEF Deliver, PostTypes, SlotTypes, ReviewTypes, Threads
  <2>3. QED
    BY <1>30, <2>1, <2>2
    DEF Deliver, FlagTypes, SlotTypes, ProcTypes, SpawnTypes, RetireTypes, ReviewTypes,
         SupTypes, TrimTypes, CloseTypes
<1>31. CASE UNCHANGED vars
  BY <1>31
  DEF vars, FlagTypes, NumberTypes, SlotTypes, ProcTypes, SpawnTypes, RetireTypes,
       ReviewTypes, SupTypes, TrimTypes, CloseTypes, PostTypes
<1>32. QED
  BY <1>1, <1>2, <1>3, <1>4, <1>5, <1>6, <1>7, <1>8, <1>9, <1>10, <1>11, <1>12, <1>13,
       <1>14, <1>15, <1>16, <1>17, <1>18, <1>19, <1>20, <1>21, <1>22, <1>23, <1>24,
       <1>25, <1>26, <1>27, <1>28, <1>29, <1>30, <1>31
  DEF Next, Supervisor, Spawner, Reviewer, Trimmer

----------------------------------------------------------------------------
(* The steps of the inductive invariant.                                   *)

\* A process stays registered, or its spawn thread is about to register it.
LEMMA OwnedStep ==
    ASSUME TypeOK, Owned, [Next]_vars
    PROVE  Owned'
<1>0. Types
  BY TypeParts
<1>1. ASSUME NEW s \in Slots, CloseRetire(s) PROVE Owned'
  BY <1>0, <1>1, OutcomeFacts
  DEF CloseRetire, RetireSlot, Unregister, Types, ProcTypes, Owned
<1>2. ASSUME NEW s \in Slots, SpawnProcess(s) PROVE Owned'
  BY <1>0, <1>2 DEF SpawnProcess, Types, SpawnTypes, Owned, slotVars
<1>3. ASSUME NEW s \in Slots, SpawnRefused(s) PROVE Owned'
  BY <1>3 DEF SpawnRefused, Owned, slotVars
<1>4. ASSUME NEW s \in Slots, Register(s) PROVE Owned'
  BY <1>4 DEF Register, RegisterBorn, Owned
<1>5. ASSUME NEW s \in Slots, RetireStale(s) PROVE Owned'
  BY <1>0, <1>5, OutcomeFacts
  DEF RetireStale, RetireSlot, Unregister, Types, ProcTypes, Owned
<1>6. ASSUME NEW s \in Slots, RetireRun(s) PROVE Owned'
  BY <1>0, <1>6, OutcomeFacts DEF RetireRun, Unregister, Types, ProcTypes, Owned
<1>7. ASSUME NEW s \in Slots, GuardianDies(s) PROVE Owned'
  BY <1>7 DEF GuardianDies, Owned, slotVars, threadVars
<1>8. ASSUME NEW g \in Gens, SupSpawn(g) PROVE Owned'
  BY <1>8 DEF SupSpawn, Owned, slotVars, kSubset, Fresh
<1>9. ASSUME NEW g \in Gens, NEW s \in Slots, Isolate(g, s) PROVE Owned'
  BY <1>9 DEF Isolate, Owned, slotVars, threadVars
<1>10. ASSUME NEW g \in Gens, NEW s \in Slots, NotReady(g, s) PROVE Owned'
  BY <1>0, <1>10, OutcomeFacts DEF NotReady, Unregister, Types, ProcTypes, Owned
<1>11. ASSUME NEW floor \in {1, InitialTarget}, Start(floor)
      PROVE  Owned'
  BY <1>11 DEF Start, Owned
<1>12. ASSUME StartFails \/ CloseBegin \/ CloseReturn \/ Deliver
      PROVE  Owned'
  BY <1>12 DEF StartFails, CloseBegin, CloseReturn, Deliver, slotVars, threadVars, Owned
<1>13. ASSUME NEW g \in Gens, SupExit(g) \/ SupGather(g)
      PROVE  Owned'
  BY <1>13 DEF SupExit, SupGather, slotVars, lockVars, Owned
<1>14. ASSUME NEW g \in Gens, NEW s \in Slots, Admit(g, s)
      PROVE  Owned'
  BY <1>14 DEF Admit, lockVars, Owned
<1>15. ASSUME NEW r \in Reviewers, Enter(r) \/ TakeSlot(r) \/ GiveUp(r)
             \/ Answer(r) \/ SendFails(r) \/ BadAnswer(r) \/ Return(r) \/ HandOver(r)
      PROVE  Owned'
  BY <1>15
  DEF Enter, TakeSlot, GiveUp, Answer, SendFails, BadAnswer, Return, HandOver,
       slotVars, Owned
<1>16. ASSUME NEW t \in Trimmers, TrimCheck(t) \/ TrimTake(t) \/ TrimRetire(t)
      PROVE  Owned'
  BY <1>16 DEF TrimCheck, TrimTake, TrimRetire, slotVars, lockVars, Owned
<1>17. ASSUME NEW n \in MinTarget .. ProcessLimit, Resize(n)
      PROVE  Owned'
  BY <1>17 DEF Resize, slotVars, threadVars, Owned
<1>18. CASE UNCHANGED vars
  BY <1>18 DEF vars, lockVars, slotVars, threadVars, Owned
<1>19. QED
  BY <1>1, <1>2, <1>3, <1>4, <1>5, <1>6, <1>7, <1>8, <1>9, <1>10, <1>11, <1>12, <1>13,
       <1>14, <1>15, <1>16, <1>17, <1>18
  DEF Next, Supervisor, Spawner, Reviewer, Trimmer

\* The old supervisor is gone before a start makes a new one.
LEMMA SupervisorStep ==
    ASSUME TypeOK, Lifecycle, OneSupervisor, [Next]_vars
    PROVE  OneSupervisor'
<1>0. Types
  BY TypeParts
<1>1. ASSUME NEW floor \in {1, InitialTarget}, Start(floor) PROVE OneSupervisor'
  BY <1>1 DEF Start, Lifecycle, OneSupervisor
<1>2. ASSUME StartFails PROVE OneSupervisor'
  BY <1>2 DEF StartFails, Lifecycle, OneSupervisor
<1>3. ASSUME CloseReturn PROVE OneSupervisor'
  BY <1>3 DEF CloseReturn, SupervisorGone, lockVars, OneSupervisor
<1>4. ASSUME NEW g \in Gens, SupExit(g) PROVE OneSupervisor'
  BY <1>0, <1>4 DEF SupExit, Types, SupTypes, OneSupervisor
<1>5. ASSUME NEW g \in Gens, SupSpawn(g) PROVE OneSupervisor'
  BY <1>5 DEF SupSpawn, lockVars, OneSupervisor
<1>6. ASSUME NEW g \in Gens, SupGather(g) PROVE OneSupervisor'
  BY <1>6 DEF SupGather, lockVars, OneSupervisor
<1>7. ASSUME NEW g \in Gens, NEW s \in Slots, Admit(g, s) PROVE OneSupervisor'
  BY <1>7 DEF Admit, AfterBatch, lockVars, OneSupervisor
<1>8. ASSUME NEW g \in Gens, NEW s \in Slots, NotReady(g, s) PROVE OneSupervisor'
  <2>1. /\ sup[g].pc = "admit" /\ gen' = gen /\ watcher' = watcher
        /\ \/ sup' = [sup EXCEPT ![g] = AfterBatch(sup[g].batch \ {s})]
           \/ sup' = [sup EXCEPT ![g] = [pc |-> "none", batch |-> {}]]
    BY <1>8 DEF NotReady
  <2>2. QED
    BY <1>0, <2>1 DEF AfterBatch, Types, SupTypes, OneSupervisor
<1>9. ASSUME CloseBegin \/ Deliver
      PROVE  OneSupervisor'
  BY <1>9 DEF CloseBegin, Deliver, slotVars, threadVars, lockVars, OneSupervisor
<1>10. ASSUME NEW s \in Slots, CloseRetire(s) \/ SpawnProcess(s)
             \/ SpawnRefused(s) \/ Register(s) \/ RetireStale(s) \/ RetireRun(s) \/ GuardianDies(s)
      PROVE  OneSupervisor'
  BY <1>10
  DEF CloseRetire, SpawnProcess, SpawnRefused, Register, RetireStale, RetireRun,
       GuardianDies, lockVars, threadVars, OneSupervisor
<1>11. ASSUME NEW g \in Gens, NEW s \in Slots, Isolate(g, s)
      PROVE  OneSupervisor'
  BY <1>11 DEF Isolate, slotVars, threadVars, lockVars, OneSupervisor
<1>12. ASSUME NEW r \in Reviewers, Enter(r) \/ TakeSlot(r) \/ GiveUp(r)
             \/ Answer(r) \/ SendFails(r) \/ BadAnswer(r) \/ Return(r) \/ HandOver(r)
      PROVE  OneSupervisor'
  BY <1>12
  DEF Enter, TakeSlot, GiveUp, Answer, SendFails, BadAnswer, Return, HandOver,
       lockVars, OneSupervisor
<1>13. ASSUME NEW t \in Trimmers, TrimCheck(t) \/ TrimTake(t) \/ TrimRetire(t)
      PROVE  OneSupervisor'
  BY <1>13 DEF TrimCheck, TrimTake, TrimRetire, slotVars, lockVars, OneSupervisor
<1>14. ASSUME NEW n \in MinTarget .. ProcessLimit, Resize(n)
      PROVE  OneSupervisor'
  BY <1>14 DEF Resize, slotVars, threadVars, OneSupervisor
<1>15. CASE UNCHANGED vars
  BY <1>15 DEF vars, lockVars, slotVars, threadVars, OneSupervisor
<1>16. QED
  BY <1>1, <1>2, <1>3, <1>4, <1>5, <1>6, <1>7, <1>8, <1>9, <1>10, <1>11, <1>12, <1>13,
       <1>14, <1>15
  DEF Next, Supervisor, Spawner, Reviewer, Trimmer

\* A contained runner has nothing left that could create a process.
LEMMA LifecycleStep ==
    ASSUME TypeOK, Owned, OneSupervisor, Lifecycle, ContainedMeansGone, [Next]_vars
    PROVE  (Lifecycle /\ ContainedMeansGone)'
<1>0. Types
  BY TypeParts
<1>1. ASSUME NEW floor \in {1, InitialTarget}, Start(floor)
      PROVE  (Lifecycle /\ ContainedMeansGone)'
  BY <1>1 DEF Start, Lifecycle, ContainedMeansGone
<1>2. ASSUME StartFails
      PROVE  (Lifecycle /\ ContainedMeansGone)'
  BY <1>2 DEF StartFails, Lifecycle, ContainedMeansGone
<1>3. ASSUME CloseBegin
      PROVE  (Lifecycle /\ ContainedMeansGone)'
  BY <1>3 DEF CloseBegin, MarkFailed, Lifecycle, ContainedMeansGone
<1>4. ASSUME CloseReturn
      PROVE  (Lifecycle /\ ContainedMeansGone)'
  <2>1. closed /\ ~started /\ closed' /\ ~started'
    BY <1>4 DEF CloseReturn, Lifecycle, lockVars
  <2>2. contained' => \A g \in Gens : sup[g].pc = "none"
    <3>1. \A g \in Gens : g # 0
      BY RunnerConstants DEF Gens
    <3>2. contained' => watcher = 0 \/ sup[watcher].pc = "none"
      BY <1>4 DEF CloseReturn, IsContained, SupervisorGone
    <3>3. QED
      BY <3>1, <3>2 DEF OneSupervisor
  <2>3. contained' => \A s \in Slots : proc[s] = "none" /\ spawn[s].pc = "no" /\ retire[s] = "no"
    BY <1>4 DEF CloseReturn, IsContained, NothingOwned, Starting, Retiring, Owned
  <2>4. (close.pc = "no")' /\ UNCHANGED <<sup, proc, spawn, retire>>
    BY <1>4 DEF CloseReturn
  <2>5. QED
    BY <2>1, <2>2, <2>3, <2>4 DEF Lifecycle, ContainedMeansGone
<1>5. ASSUME NEW s \in Slots, CloseRetire(s)
      PROVE  (Lifecycle /\ ContainedMeansGone)'
  BY <1>0, <1>5, OutcomeFacts
  DEF CloseRetire, RetireSlot, lockVars, Types, Lifecycle, ContainedMeansGone
<1>6. ASSUME NEW s \in Slots, SpawnProcess(s)
      PROVE  (Lifecycle /\ ContainedMeansGone)'
  BY <1>6 DEF SpawnProcess, lockVars, Lifecycle, ContainedMeansGone, Pristine
<1>7. ASSUME NEW s \in Slots, SpawnRefused(s)
      PROVE  (Lifecycle /\ ContainedMeansGone)'
  BY <1>7 DEF SpawnRefused, lockVars, Lifecycle, ContainedMeansGone, Pristine
<1>8. ASSUME NEW s \in Slots, Register(s)
      PROVE  (Lifecycle /\ ContainedMeansGone)'
  BY <1>8 DEF Register, lockVars, Lifecycle, ContainedMeansGone, Pristine
<1>9. ASSUME NEW s \in Slots, RetireStale(s)
      PROVE  (Lifecycle /\ ContainedMeansGone)'
  BY <1>9 DEF RetireStale, MarkFailed, Lifecycle, ContainedMeansGone, Pristine
<1>10. ASSUME NEW s \in Slots, RetireRun(s)
      PROVE  (Lifecycle /\ ContainedMeansGone)'
  BY <1>10 DEF RetireRun, MarkFailed, Lifecycle, ContainedMeansGone, Pristine
<1>11. ASSUME NEW s \in Slots, GuardianDies(s)
      PROVE  (Lifecycle /\ ContainedMeansGone)'
  BY <1>11
  DEF GuardianDies, lockVars, Lifecycle, ContainedMeansGone, Pristine, threadVars
<1>12. ASSUME NEW g \in Gens, SupExit(g)
      PROVE  (Lifecycle /\ ContainedMeansGone)'
  BY <1>12 DEF SupExit, lockVars, Lifecycle, ContainedMeansGone, Pristine
<1>13. ASSUME NEW g \in Gens, SupSpawn(g)
      PROVE  (Lifecycle /\ ContainedMeansGone)'
  BY <1>13 DEF SupSpawn, lockVars, Lifecycle, ContainedMeansGone, Pristine
<1>14. ASSUME NEW g \in Gens, SupGather(g)
      PROVE  (Lifecycle /\ ContainedMeansGone)'
  BY <1>14 DEF SupGather, lockVars, Lifecycle, ContainedMeansGone, Pristine
<1>15. ASSUME NEW g \in Gens, NEW s \in Slots, Isolate(g, s)
      PROVE  (Lifecycle /\ ContainedMeansGone)'
  BY <1>15 DEF Isolate, lockVars, Lifecycle, ContainedMeansGone, Pristine, threadVars
<1>16. ASSUME NEW g \in Gens, NEW s \in Slots, Admit(g, s)
      PROVE  (Lifecycle /\ ContainedMeansGone)'
  BY <1>16 DEF Admit, lockVars, Lifecycle, ContainedMeansGone, Pristine
<1>17. ASSUME NEW g \in Gens, NEW s \in Slots, NotReady(g, s)
      PROVE  (Lifecycle /\ ContainedMeansGone)'
  BY <1>17 DEF NotReady, MarkFailed, Lifecycle, ContainedMeansGone, Pristine
<1>18. ASSUME NEW r \in Reviewers, Enter(r)
      PROVE  (Lifecycle /\ ContainedMeansGone)'
  BY <1>18 DEF Enter, lockVars, Lifecycle, ContainedMeansGone
<1>19. ASSUME NEW r \in Reviewers, TakeSlot(r)
      PROVE  (Lifecycle /\ ContainedMeansGone)'
  BY <1>19 DEF TakeSlot, lockVars, Lifecycle, ContainedMeansGone, Pristine
<1>20. ASSUME NEW r \in Reviewers, GiveUp(r)
      PROVE  (Lifecycle /\ ContainedMeansGone)'
  BY <1>20 DEF GiveUp, lockVars, Lifecycle, ContainedMeansGone, Pristine
<1>21. ASSUME NEW r \in Reviewers, Answer(r)
      PROVE  (Lifecycle /\ ContainedMeansGone)'
  BY <1>21 DEF Answer, lockVars, Lifecycle, ContainedMeansGone, Pristine
<1>22. ASSUME NEW r \in Reviewers, SendFails(r)
      PROVE  (Lifecycle /\ ContainedMeansGone)'
  BY <1>22 DEF SendFails, lockVars, Lifecycle, ContainedMeansGone, Pristine
<1>23. ASSUME NEW r \in Reviewers, BadAnswer(r)
      PROVE  (Lifecycle /\ ContainedMeansGone)'
  BY <1>23 DEF BadAnswer, lockVars, Lifecycle, ContainedMeansGone, Pristine
<1>24. ASSUME NEW r \in Reviewers, Return(r)
      PROVE  (Lifecycle /\ ContainedMeansGone)'
  BY <1>24 DEF Return, lockVars, Lifecycle, ContainedMeansGone, Pristine
<1>25. ASSUME NEW r \in Reviewers, HandOver(r)
      PROVE  (Lifecycle /\ ContainedMeansGone)'
  BY <1>25
  DEF HandOver, BeginRetire, MarkFailed, Lifecycle, ContainedMeansGone, Pristine
<1>26. ASSUME NEW t \in Trimmers, TrimCheck(t)
      PROVE  (Lifecycle /\ ContainedMeansGone)'
  <2>1. ~Pristine
    BY <1>0, <1>26, FS_EmptySet DEF TrimCheck, Pristine, Types, NumberTypes
  <2>2. QED
    BY <1>0, <1>26, <2>1
    DEF TrimCheck, lockVars, Types, FlagTypes, Lifecycle, ContainedMeansGone
<1>27. ASSUME NEW t \in Trimmers, TrimTake(t)
      PROVE  (Lifecycle /\ ContainedMeansGone)'
  BY <1>27 DEF TrimTake, lockVars, Lifecycle, ContainedMeansGone, Pristine
<1>28. ASSUME NEW t \in Trimmers, TrimRetire(t)
      PROVE  (Lifecycle /\ ContainedMeansGone)'
  BY <1>28
  DEF TrimRetire, BeginRetire, MarkFailed, Lifecycle, ContainedMeansGone, Pristine
<1>29. ASSUME Deliver
      PROVE  (Lifecycle /\ ContainedMeansGone)'
  BY <1>29 DEF Deliver, lockVars, Lifecycle, ContainedMeansGone, Pristine, threadVars
<1>30. ASSUME NEW n \in MinTarget .. ProcessLimit, Resize(n)
      PROVE  (Lifecycle /\ ContainedMeansGone)'
  BY <1>30 DEF Resize, slotVars, threadVars, Lifecycle, ContainedMeansGone, Pristine
<1>31. CASE UNCHANGED vars
  BY <1>31
  DEF vars, lockVars, slotVars, threadVars, Lifecycle, ContainedMeansGone, Pristine
<1>32. QED
  BY <1>1, <1>2, <1>3, <1>4, <1>5, <1>6, <1>7, <1>8, <1>9, <1>10, <1>11, <1>12, <1>13,
       <1>14, <1>15, <1>16, <1>17, <1>18, <1>19, <1>20, <1>21, <1>22, <1>23, <1>24,
       <1>25, <1>26, <1>27, <1>28, <1>29, <1>30, <1>31
  DEF Next, Supervisor, Spawner, Reviewer, Trimmer

\* A worker is taken only from the queue, where nobody holds it.
LEMMA HolderStep ==
    ASSUME TypeOK, Custody, OneHolder, [Next]_vars
    PROVE  OneHolder'
<1>0. Types
  BY TypeParts
<1>1. ASSUME NEW r \in Reviewers, Enter(r) PROVE OneHolder'
  BY <1>1 DEF Enter, OneHolder
<1>2. ASSUME NEW r \in Reviewers, TakeSlot(r) PROVE OneHolder'
  BY <1>0, <1>2 DEF TakeSlot, Types, ReviewTypes, OneHolder
<1>3. ASSUME NEW r \in Reviewers, GiveUp(r) PROVE OneHolder'
  BY <1>3 DEF GiveUp, Idle, OneHolder
<1>4. ASSUME NEW r \in Reviewers, Answer(r) PROVE OneHolder'
  BY <1>4 DEF Answer, OneHolder
<1>5. ASSUME NEW r \in Reviewers, SendFails(r) PROVE OneHolder'
  <2>1. \A p \in Reviewers : rev'[p].slot = rev[p].slot
    BY <1>0, <1>5 DEF SendFails, Types, ReviewTypes
  <2>2. UNCHANGED trim
    BY <1>5 DEF SendFails
  <2>3. QED
    BY <2>1, <2>2 DEF OneHolder
<1>6. ASSUME NEW r \in Reviewers, BadAnswer(r) PROVE OneHolder'
  BY <1>0, <1>6 DEF BadAnswer, Types, ReviewTypes, OneHolder
<1>7. ASSUME NEW r \in Reviewers, Return(r) PROVE OneHolder'
  BY <1>0, <1>7 DEF Return, Withdraw, Idle, Returnable, Types, ReviewTypes, OneHolder
<1>8. ASSUME NEW r \in Reviewers, HandOver(r) PROVE OneHolder'
  BY <1>8 DEF HandOver, Idle, LetGo, OneHolder
<1>9. ASSUME NEW t \in Trimmers, TrimCheck(t) PROVE OneHolder'
  BY <1>9 DEF TrimCheck, OneHolder
<1>10. ASSUME NEW t \in Trimmers, TrimTake(t) PROVE OneHolder'
  <2>1. CASE idle = {} /\ trim' = [trim EXCEPT ![t].pc = "no"]
    BY <1>0, <1>10, <2>1 DEF TrimTake, OneHolder, Types, TrimTypes
  <2>2. ASSUME NEW s \in idle, trim' = [trim EXCEPT ![t] = [pc |-> "drop", slot |-> s]]
        PROVE  OneHolder'
    <3>1. s \in Slots /\ s \notin Held
      BY <1>0 DEF Types, SlotTypes, Custody
    <3>2. \A u \in Trimmers : trim'[u].slot = IF u = t THEN s ELSE trim[u].slot
      BY <1>0, <2>2 DEF Types, TrimTypes
    <3>3. UNCHANGED rev
      BY <1>10 DEF TrimTake
    <3>4. QED
      BY <3>1, <3>2, <3>3 DEF OneHolder, Held
  <2>3. QED
    BY <1>10, <2>1, <2>2 DEF TrimTake
<1>11. ASSUME NEW t \in Trimmers, TrimRetire(t) PROVE OneHolder'
  BY <1>11 DEF TrimRetire, OneHolder
<1>12. ASSUME NEW floor \in {1, InitialTarget}, Start(floor)
      PROVE  OneHolder'
  BY <1>12 DEF Start, OneHolder
<1>13. ASSUME StartFails \/ CloseBegin \/ CloseReturn \/ Deliver
      PROVE  OneHolder'
  BY <1>13 DEF StartFails, CloseBegin, CloseReturn, Deliver, threadVars, OneHolder
<1>14. ASSUME NEW s \in Slots, CloseRetire(s) \/ SpawnProcess(s)
             \/ SpawnRefused(s) \/ Register(s) \/ RetireStale(s) \/ RetireRun(s) \/ GuardianDies(s)
      PROVE  OneHolder'
  BY <1>14
  DEF CloseRetire, SpawnProcess, SpawnRefused, Register, RetireStale, RetireRun,
       GuardianDies, threadVars, OneHolder
<1>15. ASSUME NEW g \in Gens, SupExit(g) \/ SupSpawn(g) \/ SupGather(g)
      PROVE  OneHolder'
  BY <1>15 DEF SupExit, SupSpawn, SupGather, slotVars, lockVars, OneHolder
<1>16. ASSUME NEW g \in Gens, NEW s \in Slots, Isolate(g, s) \/ Admit(g, s)
             \/ NotReady(g, s)
      PROVE  OneHolder'
  BY <1>16 DEF Isolate, Admit, NotReady, threadVars, OneHolder
<1>17. ASSUME NEW n \in MinTarget .. ProcessLimit, Resize(n)
      PROVE  OneHolder'
  BY <1>17 DEF Resize, slotVars, threadVars, OneHolder
<1>18. CASE UNCHANGED vars
  BY <1>18 DEF vars, lockVars, slotVars, threadVars, OneHolder
<1>19. QED
  BY <1>1, <1>2, <1>3, <1>4, <1>5, <1>6, <1>7, <1>8, <1>9, <1>10, <1>11, <1>12, <1>13,
       <1>14, <1>15, <1>16, <1>17, <1>18
  DEF Next, Supervisor, Spawner, Reviewer, Trimmer

\* A slot changes places without ever being in two.
LEMMA CustodyStep ==
    ASSUME TypeOK, OneSupervisor, OneHolder, Custody, [Next]_vars
    PROVE  Custody'
<1>0. Types
  BY TypeParts
<1>1. ASSUME NEW floor \in {1, InitialTarget}, Start(floor) PROVE Custody'
  BY <1>1 DEF Start, NewQueue, Custody, Held, Starting, Retiring, Published, InBatch
<1>2. ASSUME StartFails PROVE Custody'
  BY <1>2
  DEF StartFails, NewQueue, Custody, Held, Starting, Retiring, Published, InBatch
<1>3. ASSUME NEW s \in Slots, CloseRetire(s) PROVE Custody'
  <2>1. UNCHANGED <<idle, rev, trim, sup, spawn, retire>>
    BY <1>3 DEF CloseRetire
  <2>2. UNCHANGED posts \/ \E u : Publish(<<"close", 0>>, u)
    BY <1>3 DEF CloseRetire, RetireSlot
  <2>3. \A x \in Slots : /\ Starting(x)' <=> Starting(x)
                         /\ Retiring(x)' <=> Retiring(x)
    BY <2>1, <2>2, PublishOthers
  <2>4. QED
    BY <2>1, <2>3, QuietCustody DEF Held
<1>4. ASSUME NEW s \in Slots, SpawnProcess(s) PROVE Custody'
  BY <1>4
  DEF SpawnProcess, Custody, Held, Starting, Retiring, Published, InBatch, slotVars
<1>5. ASSUME NEW s \in Slots, SpawnRefused(s) PROVE Custody'
  BY <1>5
  DEF SpawnRefused, Custody, Held, Starting, Retiring, Published, InBatch, slotVars
<1>6. ASSUME NEW s \in Slots, Register(s) PROVE Custody'
  BY <1>6 DEF Register, Custody, Held, Starting, Retiring, Published, InBatch
<1>7. ASSUME NEW s \in Slots, RetireStale(s) PROVE Custody'
  BY <1>7
  DEF RetireStale, RetireSlot, Custody, Held, Starting, Retiring, Published, InBatch,
       Publish
<1>8. ASSUME NEW s \in Slots, RetireRun(s) PROVE Custody'
  <2>1. UNCHANGED <<idle, rev, trim, sup, spawn>>
    BY <1>8 DEF RetireRun
  <2>2. \A x \in Slots : Starting(x)' <=> Starting(x)
    BY <2>1, <1>8 DEF RetireRun, Starting, Published, Publish
  <2>3. \A x \in Slots : Retiring(x)' => Retiring(x)
    BY <1>0, <1>8 DEF RetireRun, Retiring, Published, Publish, Types, RetireTypes
  <2>4. QED
    BY <2>1, <2>2, <2>3, QuietCustody DEF Held
<1>9. ASSUME NEW g \in Gens, SupExit(g) PROVE Custody'
  BY <1>9 DEF SupExit, Custody, Held, Starting, Retiring, Published, InBatch, slotVars
<1>10. ASSUME NEW g \in Gens, SupSpawn(g) PROVE Custody'
  BY <1>10
  DEF SupSpawn, lockVars, Custody, OneSupervisor, Held, Starting, Retiring, Published,
       InBatch, slotVars, kSubset, Fresh
<1>11. ASSUME NEW g \in Gens, SupGather(g) PROVE Custody'
  BY <1>11
  DEF SupGather, Custody, Held, Starting, Retiring, Published, InBatch, slotVars
<1>12. ASSUME NEW g \in Gens, NEW s \in Slots, Admit(g, s) PROVE Custody'
  BY <1>0, <1>12
  DEF Admit, AfterBatch, Types, SupTypes, Custody, OneSupervisor, Held, Starting,
       Retiring, Published, InBatch, Publish
<1>13. ASSUME NEW g \in Gens, NEW s \in Slots, NotReady(g, s) PROVE Custody'
  <2>1. UNCHANGED <<idle, rev, trim, spawn, retire>>
    BY <1>13 DEF NotReady
  <2>2. UNCHANGED posts \/ \E u : Publish(<<"sup", g>>, u)
    BY <1>13 DEF NotReady
  <2>3. \A x \in Slots : /\ Starting(x)' <=> Starting(x)
                         /\ Retiring(x)' <=> Retiring(x)
    BY <2>1, <2>2, PublishOthers
  <2>4. \A h \in Gens : /\ (sup[h].batch)' \subseteq sup[h].batch
                        /\ (sup[h].pc = "admit")' => sup[h].pc = "admit"
    BY <1>0, <1>13 DEF NotReady, AfterBatch, Types, SupTypes
  <2>5. QED
    BY <2>1, <2>3, <2>4, QuietCustody DEF Held
<1>14. ASSUME NEW r \in Reviewers, Enter(r) PROVE Custody'
  BY <1>14, RunnerConstants
  DEF Enter, Custody, Held, Starting, Retiring, Published, InBatch, slotVars
<1>15. ASSUME NEW r \in Reviewers, TakeSlot(r) PROVE Custody'
  BY <1>0, <1>15
  DEF TakeSlot, Types, ReviewTypes, Custody, Held, Starting, Retiring, Published,
       InBatch
<1>16. ASSUME NEW r \in Reviewers, GiveUp(r) PROVE Custody'
  BY <1>16, RunnerConstants
  DEF GiveUp, Idle, Custody, Held, Starting, Retiring, Published, InBatch, slotVars
<1>17. ASSUME NEW r \in Reviewers, Answer(r) PROVE Custody'
  BY <1>17 DEF Answer, Custody, Held, Starting, Retiring, Published, InBatch, slotVars
<1>18. ASSUME NEW r \in Reviewers, SendFails(r) PROVE Custody'
  <2>1. UNCHANGED <<idle, trim, sup, spawn, retire>>
    BY <1>18 DEF SendFails
  <2>2. \A p \in Reviewers : rev'[p].slot = rev[p].slot
    BY <1>0, <1>18 DEF SendFails, Types, ReviewTypes
  <2>3. Publish(<<"review", r>>, ready \ {rev[r].slot})
    BY <1>18 DEF SendFails, Withdraw
  <2>4. \A x \in Slots : /\ Starting(x)' <=> Starting(x)
                         /\ Retiring(x)' <=> Retiring(x)
    BY <2>1, <2>3, PublishOthers
  <2>5. QED
    BY <2>1, <2>2, <2>4, QuietCustody DEF Held
<1>19. ASSUME NEW r \in Reviewers, BadAnswer(r) PROVE Custody'
  BY <1>0, <1>19
  DEF BadAnswer, Withdraw, Types, ReviewTypes, Custody, Held, Starting, Retiring,
       Published, InBatch, Publish
<1>20. ASSUME NEW r \in Reviewers, Return(r) PROVE Custody'
  <2>1. rev[r].slot \in Slots
    BY <1>0, <1>20 DEF Return, Types, ReviewTypes
  <2>2. UNCHANGED <<trim, sup, spawn, retire>>
    BY <1>20 DEF Return
  <2>3. CASE Returnable(r) /\ Cardinality(ready) <= target
    <3>1. /\ idle' = idle \cup {rev[r].slot} /\ UNCHANGED posts
          /\ \A p \in Reviewers : rev'[p].slot = IF p = r THEN None ELSE rev[p].slot
      BY <1>0, <1>20, <2>3 DEF Return, Idle, Types, ReviewTypes
    <3>2. \A x \in Slots : (x \in Held)' => x \in Held /\ x # rev[r].slot
      BY <2>2, <3>1, RunnerConstants, <2>1 DEF Held, OneHolder
    <3>3. rev[r].slot \in Held
      BY DEF Held
    <3>4. QED
      BY <2>1, <2>2, <3>1, <3>2, <3>3
      DEF Custody, InBatch, Starting, Retiring, Published
  <2>4. CASE ~(Returnable(r) /\ Cardinality(ready) <= target)
    <3>1. /\ UNCHANGED idle /\ Publish(<<"review", r>>, ready \ {rev[r].slot})
          /\ \A p \in Reviewers : rev'[p].slot = rev[p].slot
      BY <1>0, <1>20, <2>4 DEF Return, Withdraw, Types, ReviewTypes
    <3>2. \A x \in Slots : /\ Starting(x)' <=> Starting(x)
                           /\ Retiring(x)' <=> Retiring(x)
      BY <2>2, <3>1, PublishOthers
    <3>3. QED
      BY <2>2, <3>1, <3>2, QuietCustody DEF Held
  <2>5. QED
    BY <2>3, <2>4
<1>21. ASSUME NEW r \in Reviewers, HandOver(r) PROVE Custody'
  BY <1>0, <1>21, RunnerConstants
  DEF HandOver, BeginRetire, Idle, LetGo, Types, ReviewTypes, RetireTypes, Custody,
       OneHolder, Held, Starting, Retiring, Published, InBatch, slotVars
<1>22. ASSUME NEW t \in Trimmers, TrimCheck(t) PROVE Custody'
  BY <1>22
  DEF TrimCheck, Custody, Held, Starting, Retiring, Published, InBatch, slotVars
<1>23. ASSUME NEW t \in Trimmers, TrimTake(t) PROVE Custody'
  <2>1. UNCHANGED <<rev, sup, spawn, retire>>
    BY <1>23 DEF TrimTake
  <2>2. CASE UNCHANGED <<idle, posts>> /\ trim' = [trim EXCEPT ![t].pc = "no"]
    <3>1. \A u \in Trimmers : trim'[u].slot = trim[u].slot
      BY <1>0, <2>2 DEF Types, TrimTypes
    <3>2. QED
      BY <2>1, <2>2, <3>1, QuietCustody DEF Held, Starting, Retiring, Published
  <2>3. ASSUME NEW s \in idle, idle' = idle \ {s}, Publish(<<"trim", t>>, ready \ {s}),
               trim' = [trim EXCEPT ![t] = [pc |-> "drop", slot |-> s]]
        PROVE  Custody'
    <3>1. \A x \in Slots : /\ Starting(x)' <=> Starting(x)
                           /\ Retiring(x)' <=> Retiring(x)
      BY <2>1, <2>3, PublishOthers
    <3>2. \A u \in Trimmers : trim'[u].slot = IF u = t THEN s ELSE trim[u].slot
      BY <1>0, <2>3 DEF Types, TrimTypes
    <3>3. \A x \in Slots : (x \in Held)' => x \in Held \/ x = s
      BY <2>1, <3>2 DEF Held
    <3>4. QED
      BY <2>1, <2>3, <3>1, <3>3 DEF Custody, InBatch
  <2>4. QED
    BY <1>23, <2>2, <2>3 DEF TrimTake
<1>24. ASSUME NEW t \in Trimmers, TrimRetire(t) PROVE Custody'
  BY <1>0, <1>24, RunnerConstants
  DEF TrimRetire, BeginRetire, Types, TrimTypes, RetireTypes, Custody, OneHolder, Held,
       Starting, Retiring, Published, InBatch, slotVars
<1>25. ASSUME Deliver PROVE Custody'
  BY <1>25
  DEF Deliver, Custody, Held, Starting, Retiring, Published, InBatch, slotVars,
       threadVars
<1>26. ASSUME CloseBegin \/ CloseReturn
      PROVE  Custody'
  BY <1>26
  DEF CloseBegin, CloseReturn, slotVars, Custody, Held, Starting, Retiring, Published,
       InBatch
<1>27. ASSUME NEW s \in Slots, GuardianDies(s)
      PROVE  Custody'
  BY <1>27
  DEF GuardianDies, slotVars, threadVars, Custody, Held, Starting, Retiring, Published,
       InBatch
<1>28. ASSUME NEW g \in Gens, NEW s \in Slots, Isolate(g, s)
      PROVE  Custody'
  BY <1>28
  DEF Isolate, slotVars, threadVars, Custody, Held, Starting, Retiring, Published,
       InBatch
<1>29. ASSUME NEW n \in MinTarget .. ProcessLimit, Resize(n)
      PROVE  Custody'
  BY <1>29
  DEF Resize, slotVars, threadVars, Custody, Held, Starting, Retiring, Published,
       InBatch
<1>30. CASE UNCHANGED vars
  BY <1>30
  DEF vars, slotVars, threadVars, Custody, Held, InBatch, Starting, Retiring, Published
<1>31. QED
  BY <1>1, <1>2, <1>3, <1>4, <1>5, <1>6, <1>7, <1>8, <1>9, <1>10, <1>11, <1>12, <1>13,
       <1>14, <1>15, <1>16, <1>17, <1>18, <1>19, <1>20, <1>21, <1>22, <1>23, <1>24,
       <1>25, <1>26, <1>27, <1>28, <1>29, <1>30
  DEF Next, Supervisor, Spawner, Reviewer, Trimmer

\* A worker of the open generation is unregistered only by whoever has it.
LEMMA OpenStep ==
    ASSUME TypeOK, Lifecycle, OneSupervisor, OneHolder, Custody, OpenPool, [Next]_vars
    PROVE  OpenPool'
<1>0. Types
  BY TypeParts
<1>1. ASSUME NEW floor \in {1, InitialTarget}, Start(floor) PROVE OpenPool'
  BY <1>0, <1>1
  DEF Start, NewQueue, Types, ReviewTypes, NumberTypes, OpenPool, Lifecycle, Pristine
<1>2. ASSUME StartFails PROVE OpenPool'
  BY <1>0, <1>2 DEF StartFails, Types, ReviewTypes, NumberTypes, OpenPool
<1>3. ASSUME CloseBegin PROVE OpenPool'
  BY <1>3 DEF CloseBegin, MarkFailed, OpenPool
<1>4. ASSUME NEW s \in Slots, CloseRetire(s) PROVE OpenPool'
  BY <1>4 DEF CloseRetire, lockVars, OpenPool, Lifecycle
<1>5. ASSUME NEW s \in Slots, SpawnProcess(s) PROVE OpenPool'
  <2>1. s \notin idle
    BY <1>5 DEF SpawnProcess, Custody, Starting
  <2>2. UNCHANGED <<closed, started, gen, all, ready, idle, rev, sup>>
    BY <1>5 DEF SpawnProcess, lockVars, slotVars
  <2>3. \A x \in Slots \ {s} : proc'[x] = proc[x]
    BY <1>0, <1>5 DEF SpawnProcess, Types, ProcTypes
  <2>4. QED
    BY <1>0, <2>1, <2>2, <2>3 DEF OpenPool, Types, SlotTypes
<1>6. ASSUME NEW s \in Slots, Register(s) PROVE OpenPool'
  BY <1>6 DEF Register, RegisterBorn, lockVars, OpenPool
<1>7. ASSUME NEW s \in Slots, RetireStale(s) PROVE OpenPool'
  <2>1. s \notin idle /\ s \notin Held
    BY <1>7 DEF RetireStale, Custody, Starting
  <2>2. \A g \in Gens : sup[g].pc = "admit" => s \notin sup[g].batch
    BY <1>7 DEF RetireStale, Custody, Starting
  <2>3. UNCHANGED <<gen, idle, rev, sup>> /\ (closed \/ ~started => closed' \/ ~started')
    BY <1>0, <1>7 DEF RetireStale, MarkFailed, Types, FlagTypes
  <2>4. /\ \A x \in Slots \ {s} : proc'[x] = proc[x]
        /\ all \ {s} \subseteq all' /\ ready \ {s} \subseteq ready'
    BY <1>0, <1>7 DEF RetireStale, RetireSlot, Unregister, Types, ProcTypes
  <2>5. \A r \in Reviewers : rev[r].slot # s
    BY <2>1 DEF Held
  <2>6. QED
    BY <1>0, <2>1, <2>2, <2>3, <2>4, <2>5 DEF OpenPool, Types, SlotTypes
<1>8. ASSUME NEW s \in Slots, RetireRun(s) PROVE OpenPool'
  <2>1. s \notin idle /\ s \notin Held
    BY <1>8 DEF RetireRun, Custody, Retiring
  <2>2. \A g \in Gens : sup[g].pc = "admit" => s \notin sup[g].batch
    BY <1>8 DEF RetireRun, Custody, Retiring, InBatch
  <2>3. UNCHANGED <<gen, idle, rev, sup>> /\ (closed \/ ~started => closed' \/ ~started')
    BY <1>0, <1>8 DEF RetireRun, MarkFailed, Types, FlagTypes
  <2>4. /\ \A x \in Slots \ {s} : proc'[x] = proc[x]
        /\ all \ {s} \subseteq all' /\ ready \ {s} \subseteq ready'
    BY <1>0, <1>8 DEF RetireRun, Unregister, Types, ProcTypes
  <2>5. \A r \in Reviewers : rev[r].slot # s
    BY <2>1 DEF Held
  <2>6. QED
    BY <1>0, <2>1, <2>2, <2>3, <2>4, <2>5 DEF OpenPool, Types, SlotTypes
<1>9. ASSUME NEW s \in Slots, GuardianDies(s) PROVE OpenPool'
  BY <1>9 DEF GuardianDies, lockVars, OpenPool, slotVars, threadVars
<1>10. ASSUME NEW g \in Gens, SupExit(g) PROVE OpenPool'
  BY <1>10 DEF SupExit, lockVars, OpenPool, slotVars
<1>11. ASSUME NEW g \in Gens, SupSpawn(g) PROVE OpenPool'
  BY <1>11 DEF SupSpawn, lockVars, OpenPool, slotVars
<1>12. ASSUME NEW g \in Gens, SupGather(g) PROVE OpenPool'
  BY <1>12 DEF SupGather, lockVars, OpenPool, slotVars
<1>13. ASSUME NEW g \in Gens, NEW s \in Slots, Isolate(g, s) PROVE OpenPool'
  BY <1>13 DEF Isolate, lockVars, OpenPool, slotVars, threadVars
<1>14. ASSUME NEW g \in Gens, NEW s \in Slots, Admit(g, s) PROVE OpenPool'
  BY <1>14 DEF Admit, AfterBatch, lockVars, OpenPool
<1>15. ASSUME NEW g \in Gens, NEW s \in Slots, NotReady(g, s) PROVE OpenPool'
  <2>1. s \notin idle /\ s \notin Held
    BY <1>15 DEF NotReady, Custody, InBatch
  <2>2. /\ UNCHANGED <<gen, idle, rev>> /\ (closed \/ ~started => closed' \/ ~started')
        /\ \A h \in Gens : (sup[h].pc = "admit")' =>
             sup[h].pc = "admit" /\ (sup[h].batch)' \subseteq sup[h].batch \ {s}
    <3>1. UNCHANGED <<gen, idle, rev>> /\ (closed \/ ~started => closed' \/ ~started')
      BY <1>0, <1>15 DEF NotReady, MarkFailed, Types, FlagTypes
    <3>2. \A h \in Gens : sup[h].pc = "admit" => h = g
      BY <1>15 DEF NotReady, OneSupervisor
    <3>3. \A h \in Gens : (sup[h].pc = "admit")' =>
             sup[h].pc = "admit" /\ (sup[h].batch)' \subseteq sup[h].batch \ {s}
      BY <1>0, <1>15, <3>2 DEF NotReady, AfterBatch, Types, SupTypes
    <3>4. QED
      BY <3>1, <3>3
  <2>3. /\ \A x \in Slots \ {s} : proc'[x] = proc[x]
        /\ all \ {s} \subseteq all' /\ ready \ {s} \subseteq ready'
    BY <1>0, <1>15 DEF NotReady, Unregister, Types, ProcTypes
  <2>4. \A r \in Reviewers : rev[r].slot # s
    BY <2>1 DEF Held
  <2>5. QED
    BY <1>0, <2>1, <2>2, <2>3, <2>4 DEF OpenPool, Types, SlotTypes
<1>16. ASSUME NEW r \in Reviewers, Enter(r) PROVE OpenPool'
  BY <1>0, <1>16 DEF Enter, lockVars, Types, NumberTypes, OpenPool, slotVars
<1>17. ASSUME NEW r \in Reviewers, TakeSlot(r) PROVE OpenPool'
  BY <1>0, <1>17 DEF TakeSlot, lockVars, Types, ReviewTypes, OpenPool
<1>18. ASSUME NEW r \in Reviewers, GiveUp(r) PROVE OpenPool'
  BY <1>0, <1>18 DEF GiveUp, Idle, lockVars, Types, NumberTypes, OpenPool, slotVars
<1>19. ASSUME NEW r \in Reviewers, Answer(r) PROVE OpenPool'
  BY <1>19 DEF Answer, lockVars, OpenPool, slotVars
<1>20. ASSUME NEW r \in Reviewers, SendFails(r) PROVE OpenPool'
  <2>1. rev[r].slot \in Slots /\ rev[r].slot \in Held
    BY <1>0, <1>20 DEF SendFails, Types, ReviewTypes, Held
  <2>2. rev[r].slot \notin idle
    BY <2>1 DEF Custody
  <2>3. \A p \in Reviewers \ {r} : rev[p].slot # rev[r].slot
    BY <2>1, RunnerConstants DEF OneHolder
  <2>4. /\ UNCHANGED <<closed, started, gen, all, idle, proc, sup>>
        /\ ready' = ready \ {rev[r].slot}
    BY <1>20 DEF SendFails, Withdraw, lockVars
  <2>5. /\ \A p \in Reviewers \ {r} : rev'[p] = rev[p]
        /\ rev'[r].pc = "drop" /\ rev'[r].gen = rev[r].gen
    BY <1>0, <1>20 DEF SendFails, Types, ReviewTypes
  <2>6. QED
    BY <1>0, <2>2, <2>3, <2>4, <2>5 DEF OpenPool, Types, SlotTypes
<1>21. ASSUME NEW r \in Reviewers, BadAnswer(r) PROVE OpenPool'
  <2>1. rev[r].slot \in Slots /\ rev[r].slot \in Held
    BY <1>0, <1>21 DEF BadAnswer, Types, ReviewTypes, Held
  <2>2. rev[r].slot \notin idle
    BY <2>1 DEF Custody
  <2>3. \A p \in Reviewers \ {r} : rev[p].slot # rev[r].slot
    BY <2>1, RunnerConstants DEF OneHolder
  <2>4. /\ UNCHANGED <<closed, started, gen, all, idle, proc, sup>>
        /\ ready' = ready \ {rev[r].slot}
    BY <1>21 DEF BadAnswer, Withdraw, lockVars
  <2>5. /\ \A p \in Reviewers \ {r} : rev'[p] = rev[p]
        /\ rev'[r].pc = "drop" /\ rev'[r].gen = rev[r].gen
    BY <1>0, <1>21 DEF BadAnswer, Types, ReviewTypes
  <2>6. QED
    BY <1>0, <2>2, <2>3, <2>4, <2>5 DEF OpenPool, Types, SlotTypes
<1>22. ASSUME NEW r \in Reviewers, Return(r) PROVE OpenPool'
  <2>1. rev[r].slot \in Slots /\ rev[r].slot \in Held
    BY <1>0, <1>22 DEF Return, Types, ReviewTypes, Held
  <2>2. rev[r].slot \notin idle
    BY <2>1 DEF Custody
  <2>3. \A p \in Reviewers \ {r} : rev[p].slot # rev[r].slot
    BY <2>1, RunnerConstants DEF OneHolder
  <2>4. UNCHANGED <<closed, started, gen, all, proc, sup>>
    BY <1>22 DEF Return, lockVars
  <2>5. CASE Returnable(r) /\ Cardinality(ready) <= target
    <3>1. /\ idle' = idle \cup {rev[r].slot} /\ UNCHANGED ready
          /\ \A p \in Reviewers \ {r} : rev'[p] = rev[p]
          /\ rev'[r].pc = "out" /\ rev'[r].gen = 0
      BY <1>0, <1>22, <2>5 DEF Return, Idle, Types, ReviewTypes
    <3>2. started /\ ~closed => /\ rev[r].slot \in all /\ rev[r].slot \in ready
                                /\ proc[rev[r].slot] = "up"
      BY <1>22, <2>5 DEF Return, Returnable, Stale, OpenPool
    <3>3. QED
      BY <1>0, <2>4, <3>1, <3>2 DEF OpenPool, Types, NumberTypes
  <2>6. CASE ~(Returnable(r) /\ Cardinality(ready) <= target)
    <3>1. /\ UNCHANGED idle /\ ready' = ready \ {rev[r].slot}
          /\ \A p \in Reviewers \ {r} : rev'[p] = rev[p]
          /\ rev'[r].pc \in {"scale", "drop"} /\ rev'[r].gen = rev[r].gen
      BY <1>0, <1>22, <2>6 DEF Return, Withdraw, Types, ReviewTypes
    <3>2. QED
      BY <1>0, <2>2, <2>3, <2>4, <3>1 DEF OpenPool, Types, SlotTypes
  <2>7. QED
    BY <2>5, <2>6
<1>23. ASSUME NEW r \in Reviewers, HandOver(r) PROVE OpenPool'
  BY <1>0, <1>23
  DEF HandOver, BeginRetire, Idle, LetGo, Types, NumberTypes, OpenPool, Lifecycle,
       Pristine, slotVars
<1>24. ASSUME NEW t \in Trimmers, TrimTake(t) PROVE OpenPool'
  <2>1. UNCHANGED <<closed, started, gen, all, proc, rev, sup>>
    BY <1>24 DEF TrimTake, lockVars
  <2>2. CASE UNCHANGED <<idle, ready>>
    BY <2>1, <2>2 DEF OpenPool
  <2>3. ASSUME NEW s \in idle, idle' = idle \ {s}, ready' = ready \ {s}
        PROVE  OpenPool'
    <3>1. s \in Slots /\ \A p \in Reviewers : rev[p].slot # s
      BY <1>0 DEF Types, SlotTypes, Custody, Held
    <3>2. QED
      BY <2>1, <2>3, <3>1 DEF OpenPool
  <2>4. QED
    BY <1>24, <2>2, <2>3 DEF TrimTake
<1>25. ASSUME NEW t \in Trimmers, TrimRetire(t) PROVE OpenPool'
  BY <1>25 DEF TrimRetire, BeginRetire, OpenPool, Lifecycle, Pristine, slotVars
<1>26. ASSUME CloseReturn \/ Deliver
      PROVE  OpenPool'
  BY <1>26 DEF CloseReturn, Deliver, slotVars, lockVars, threadVars, OpenPool
<1>27. ASSUME NEW s \in Slots, SpawnRefused(s)
      PROVE  OpenPool'
  BY <1>27 DEF SpawnRefused, slotVars, lockVars, OpenPool
<1>28. ASSUME NEW t \in Trimmers, TrimCheck(t)
      PROVE  OpenPool'
  BY <1>28 DEF TrimCheck, slotVars, lockVars, OpenPool
<1>29. ASSUME NEW n \in MinTarget .. ProcessLimit, Resize(n)
      PROVE  OpenPool'
  BY <1>29 DEF Resize, slotVars, threadVars, OpenPool
<1>30. CASE UNCHANGED vars
  BY <1>30 DEF vars, lockVars, slotVars, threadVars, OpenPool
<1>31. QED
  BY <1>1, <1>2, <1>3, <1>4, <1>5, <1>6, <1>7, <1>8, <1>9, <1>10, <1>11, <1>12, <1>13,
       <1>14, <1>15, <1>16, <1>17, <1>18, <1>19, <1>20, <1>21, <1>22, <1>23, <1>24,
       <1>25, <1>26, <1>27, <1>28, <1>29, <1>30
  DEF Next, Supervisor, Spawner, Reviewer, Trimmer

----------------------------------------------------------------------------
(* The theorems.                                                           *)

\* The pool begins empty.
LEMMA RunnerInit == Init => RunnerInvariant
<1>1. SUFFICES ASSUME Init PROVE RunnerInvariant
  OBVIOUS
<1>2. Types
  <2>1. FlagTypes /\ NumberTypes
    BY <1>1, RunnerConstants DEF Init, FlagTypes, NumberTypes
  <2>2. SlotTypes /\ ProcTypes /\ SpawnTypes /\ RetireTypes /\ CloseTypes /\ PostTypes
    BY <1>1, RunnerConstants
    DEF Init, SlotTypes, ProcTypes, SpawnTypes, RetireTypes, CloseTypes, PostTypes,
         Processes
  <2>3. ReviewTypes /\ SupTypes /\ TrimTypes
    BY <1>1, RunnerConstants DEF Init, Idle, ReviewTypes, SupTypes, TrimTypes
  <2>4. QED
    BY <2>1, <2>2, <2>3 DEF Types
<1>3. Owned /\ ContainedMeansGone /\ OneSupervisor
  BY <1>1 DEF Init, Owned, ContainedMeansGone, OneSupervisor
<1>4. Lifecycle
  BY <1>1 DEF Init, Lifecycle, Pristine, Idle
<1>5. OneHolder
  BY <1>1 DEF Init, OneHolder, Idle
<1>6. Held \subseteq {None}
  BY <1>1 DEF Init, Held, Idle
<1>7. Custody
  BY <1>1, <1>6, RunnerConstants DEF Init, Custody, InBatch
<1>8. OpenPool
  BY <1>1 DEF Init, OpenPool, Idle
<1>9. QED
  BY <1>2, <1>3, <1>4, <1>5, <1>7, <1>8, TypeParts DEF RunnerInvariant

\* The inductive invariant holds of every reachable state.
THEOREM RunnerInvariantHolds == Spec => []RunnerInvariant
<1>1. RunnerInvariant /\ [Next]_vars => RunnerInvariant'
  BY TypeStep, OwnedStep, SupervisorStep, LifecycleStep, HolderStep, CustodyStep,
       OpenStep
  DEF RunnerInvariant
<1>2. QED
  BY RunnerInit, <1>1, PTL DEF Spec

\* The runner's variables keep their types; a reviewer or trimmer has a slot
\* exactly while it is between taking it and letting it go.
THEOREM RunnerTypeCorrect == Spec => []TypeOK
<1>1. RunnerInvariant => TypeOK
  BY DEF RunnerInvariant
<1>2. QED
  BY <1>1, RunnerInvariantHolds, PTL

\* A worker process that may still run something is registered, or its spawn
\* thread is about to register it (hook_process_creation.py).
THEOREM WorkersOwned == Spec => []Owned
<1>1. RunnerInvariant => Owned
  BY DEF RunnerInvariant
<1>2. QED
  BY <1>1, RunnerInvariantHolds, PTL

\* After close_contained() answered TRUE there is no worker process and no
\* thread that could create one, until the runner is started again.
THEOREM ContainmentIsReal == Spec => []ContainedMeansGone
<1>1. RunnerInvariant => ContainedMeansGone
  BY DEF RunnerInvariant
<1>2. QED
  BY <1>1, RunnerInvariantHolds, PTL

\* What a reviewer may take from the queue of an open runner is registered,
\* usable, isolated, and in nobody else's hands.
THEOREM IdleWorkersUsable == Spec => []IdleIsUsable
<1>1. RunnerInvariant => IdleIsUsable
  <2>1. SUFFICES ASSUME RunnerInvariant, started /\ ~closed, NEW s \in idle
                 PROVE  /\ s \in all /\ s \in ready /\ s \notin Held
                        /\ ~Retiring(s) /\ ~Starting(s)
                        /\ proc[s] \in {"up", "orphan"}
    BY DEF IdleIsUsable
  <2>2. s \in Slots
    BY <2>1 DEF RunnerInvariant, TypeOK
  <2>3. s \in all /\ s \in ready /\ proc[s] \in {"up", "orphan"}
    BY <2>1 DEF RunnerInvariant, OpenPool
  <2>4. QED
    BY <2>1, <2>2, <2>3 DEF RunnerInvariant, Custody
<1>2. QED
  BY <1>1, RunnerInvariantHolds, PTL

\* No two reviewers or trimmers ever have the same worker, also across a close
\* and a restart of the runner.
THEOREM WorkersNotShared == Spec => []OneHolder
<1>1. RunnerInvariant => OneHolder
  BY DEF RunnerInvariant
<1>2. QED
  BY <1>1, RunnerInvariantHolds, PTL
=============================================================================
