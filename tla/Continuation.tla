---------------------------- MODULE Continuation ----------------------------
(***************************************************************************)
(* Continuing an agent after its request was decided                       *)
(* (guard/continuation_runtime.py, guard/store_continuation.py), together  *)
(* with the outbox that reports the outcome to Cloud.                      *)
(*                                                                         *)
(* Two kinds of caller race for the outcome of a request: calls of         *)
(* continue_request_after_application, each of which looks for an earlier  *)
(* result, takes a lease on the offer it computed, runs an adapter and     *)
(* finalizes; and the original hook, if it still waits, which finalizes    *)
(* without a lease and may consume a one-shot authority in the same        *)
(* transaction.  Every transaction is a step.  A call may stop for ever    *)
(* after any step, which is how its process dies; its lease then expires.  *)
(*                                                                         *)
(* A call is made once, so its name serves as its claim_id and as the      *)
(* evidence_id of the result it creates.                                   *)
(***************************************************************************)
EXTENDS ReviewOutbox

CONSTANTS
    Calls,    \* calls of continue_request_after_application
    Hooks     \* calls of record_live_hook_completion

ASSUME CallersDiffer == Calls \cap Hooks = {} /\ None \notin Calls \cup Hooks

VARIABLES
    claims,    \* guard_continuation_claims, per request and offer
    resume,    \* the result in the request's resume row
    told,      \* guard_continuation_effects: evidence whose terminal event is out
    operation, \* whether the operation still waits for the approval
    waiter,    \* requests whose hook process lives and is before its deadline
    authority, \* the one-shot authority of a request
    calls, hooks

contVars == <<claims, resume, told, operation, waiter, authority, calls, hooks>>
vars == <<outboxVars, contVars>>

\* Two offers stand for all: the hook still waits, or it does not.
Offers == {"live", "later"}
Evidence == Calls \cup Hooks
Results == [terminal : BOOLEAN, ev : Evidence]
NoClaim == [state |-> "none", owner |-> None, fresh |-> FALSE, ev |-> None]
Out == [pc |-> "new", req |-> None, offer |-> None, result |-> None]

Init ==
    /\ OutboxInit
    /\ claims = [k \in Requests \X Offers |-> NoClaim]
    /\ resume = [q \in Requests |-> None]
    /\ told = {}
    /\ operation = [q \in Requests |-> "waiting"]
    /\ waiter \in SUBSET Requests
    /\ authority = [q \in Requests |-> "ready"]
    /\ calls = [c \in Calls |-> Out]
    /\ hooks = [h \in Hooks |-> Out]

\* _offer_from_request
OfferOf(q) == IF q \in waiter /\ operation[q] = "waiting" THEN "live" ELSE "later"

\* _previous_result: only a result stored under the same offer counts.
Previous(q, k) == resume[q] # None /\ resume[q].offer = k

\* Mutant: the owner of a lease finalizes, expired or not.
MayFinalizeLate(q, k, owner, ev) ==
    owner # None \/ claims[<<q, k>>].state # "completed" \/ claims[<<q, k>>].ev = ev

\* Mutant: a replay does not compare evidence.
MayReplayAnything(q, k, owner, ev) ==
    LET c == claims[<<q, k>>] IN
    owner # None => c.state = "claimed" /\ c.owner = owner

\* _continuation_claim_allows_finalization
MayFinalize(q, k, owner, ev) ==
    LET c == claims[<<q, k>>] IN
    IF owner # None THEN c.state = "claimed" /\ c.owner = owner
    ELSE c.state # "completed" \/ c.ev = ev

\* The rest of finalize_continuation_attempt: the resume row, the operation,
\* the claim, and the terminal event unless this evidence already wrote it.
Commit(q, k, r) ==
    /\ resume' = [resume EXCEPT ![q] = [offer |-> k, result |-> r]]
    /\ operation' = [operation EXCEPT ![q] = IF r.terminal THEN "ended" ELSE "waiting"]
    /\ claims' = [claims EXCEPT ![<<q, k>>] =
         [state |-> IF r.terminal THEN "completed" ELSE "waiting",
          owner |-> None, fresh |-> FALSE, ev |-> r.ev]]
    /\ IF r.terminal /\ r.ev \notin told
       THEN told' = told \cup {r.ev} /\ db' = Append(db, {q}, "terminal")
       ELSE UNCHANGED <<told, db>>

NoCommit == UNCHANGED <<resume, operation, claims, told, db>>

outboxRest == <<login, status, drift, sync, refresh, settled, replaced, consent>>

Step(c, from, to) ==
    /\ calls[c].pc = from
    /\ calls' = [calls EXCEPT ![c].pc = to]
    /\ UNCHANGED <<hooks, waiter>>

-----------------------------------------------------------------------------
(* continue_request_after_application                                      *)

Begin(c, q) ==
    /\ calls[c].pc = "new" /\ status[q] = "resolved" /\ Spend("callers", 1)
    /\ calls' = [calls EXCEPT ![c] = [Out EXCEPT !.pc = "look", !.req = q, !.offer = OfferOf(q)]]
    /\ NoCommit /\ UNCHANGED <<outboxRest, hooks, waiter, authority>>

\* An earlier result is replayed, a "waiting" one too.
Look(c) ==
    LET q == calls[c].req  k == calls[c].offer IN
    /\ calls[c].pc \in {"look", "poll"}
    /\ calls' = [calls EXCEPT ![c] =
         IF Previous(q, k)
         THEN [calls[c] EXCEPT !.pc = "replay", !.result = resume[q].result]
         ELSE [calls[c] EXCEPT !.pc = IF calls[c].pc = "look" THEN "claim" ELSE "done"]]
    /\ NoCommit /\ UNCHANGED <<outboxRest, budget, hooks, waiter, authority>>

\* claim_continuation_attempt answers None
ClaimTaken(k) ==
    \/ claims[k].state \in {"completed", "waiting"}
    \/ claims[k].state = "claimed" /\ claims[k].fresh

Claim(c) ==
    LET k == <<calls[c].req, calls[c].offer>> IN
    /\ calls[c].pc = "claim"
    /\ IF ClaimTaken(k)
       THEN Step(c, "claim", "poll") /\ UNCHANGED claims
       ELSE /\ Step(c, "claim", "run")
            /\ claims' = [claims EXCEPT ![k] =
                 [state |-> "claimed", owner |-> c, fresh |-> TRUE, ev |-> None]]
    /\ UNCHANGED <<db, outboxRest, budget, resume, told, operation, authority>>

\* The adapter: while the hook waits the result is "waiting", unless the call
\* is blocked, cancelled or timed out.
Run(c, terminal) ==
    /\ calls[c].pc = "run"
    /\ calls[c].offer = "later" => terminal
    /\ calls' = [calls EXCEPT ![c] =
         [@ EXCEPT !.pc = "finalize", !.result = [terminal |-> terminal, ev |-> c]]]
    /\ NoCommit /\ UNCHANGED <<outboxRest, budget, hooks, waiter, authority>>

\* A result whose lease was taken over, or that somebody completed, is dropped.
Finalize(c) ==
    LET q == calls[c].req  k == calls[c].offer IN
    /\ Step(c, "finalize", "done")
    /\ IF MayFinalize(q, k, c, c) THEN Commit(q, k, calls[c].result) ELSE NoCommit
    /\ UNCHANGED <<outboxRest, budget, authority>>

\* A replay writes what it read again, without a lease.
Replay(c) ==
    LET q == calls[c].req  k == calls[c].offer  r == calls[c].result IN
    /\ Step(c, "replay", "done")
    /\ IF MayFinalize(q, k, None, r.ev) THEN Commit(q, k, r) ELSE NoCommit
    /\ UNCHANGED <<outboxRest, budget, authority>>

\* The lease runs out, whether its owner lives or not.
LeaseExpires(k) ==
    /\ claims[k].state = "claimed" /\ claims[k].fresh
    /\ claims' = [claims EXCEPT ![k].fresh = FALSE]
    /\ UNCHANGED <<outboxVars, resume, told, operation, waiter, authority, calls, hooks>>

-----------------------------------------------------------------------------
(* record_live_hook_completion                                             *)

\* Only while the hook waits, and not over a terminal result.
HookLook(h, q) ==
    /\ hooks[h].pc = "new" /\ status[q] = "resolved" /\ OfferOf(q) = "live" /\ Spend("callers", 1)
    /\ hooks' = [hooks EXCEPT ![h] =
         [Out EXCEPT !.req = q, !.offer = "live",
                     !.pc = IF Previous(q, "live") /\ resume[q].result.terminal
                            THEN "done" ELSE "finalize"]]
    /\ NoCommit /\ UNCHANGED <<outboxRest, calls, waiter, authority>>

\* Mutant: the refusal forgets to roll back.
SpendAnyway(q, allowed) ==
    authority' = [authority EXCEPT ![q] = "spent"]

\* The authority is claimed first; whatever refuses later rolls it back.
SpendAuthority(q, allowed) ==
    authority' = IF allowed THEN [authority EXCEPT ![q] = "spent"] ELSE authority

HookFinalize(h, exact) ==
    LET q == hooks[h].req
        r == [terminal |-> TRUE, ev |-> h]
        allowed == /\ exact => authority[q] = "ready"
                   /\ MayFinalize(q, "live", None, h)
    IN
    /\ hooks[h].pc = "finalize"
    /\ hooks' = [hooks EXCEPT ![h].pc = "done"]
    /\ IF exact THEN SpendAuthority(q, allowed) ELSE UNCHANGED authority
    /\ IF allowed THEN Commit(q, "live", r) ELSE NoCommit
    /\ UNCHANGED <<outboxRest, budget, calls, waiter>>

\* The hook's process ends or its deadline passes.
HookLeaves(q) ==
    /\ q \in waiter /\ status[q] = "resolved"
    /\ waiter' = waiter \ {q}
    /\ UNCHANGED <<outboxVars, claims, resume, told, operation, authority, calls, hooks>>

\* A policy change withdraws the authority.
AuthorityRevoked(q) ==
    /\ authority[q] = "ready" /\ Spend("callers", 1)
    /\ \E h \in Hooks : hooks[h].pc = "finalize" /\ hooks[h].req = q
    /\ authority' = [authority EXCEPT ![q] = "revoked"]
    /\ NoCommit /\ UNCHANGED <<outboxRest, waiter, calls, hooks>>

-----------------------------------------------------------------------------
Outbox == OutboxNext /\ UNCHANGED contVars

Next ==
    \/ Outbox
    \/ \E c \in Calls :
         \/ \E q \in Requests : Begin(c, q)
         \/ Look(c) \/ Claim(c)
         \/ \E terminal \in BOOLEAN : Run(c, terminal)
         \/ Finalize(c) \/ Replay(c)
    \/ \E k \in Requests \X Offers : LeaseExpires(k)
    \/ \E h \in Hooks :
         \/ \E q \in Requests : HookLook(h, q)
         \/ \E exact \in BOOLEAN : HookFinalize(h, exact)
    \/ \E q \in Requests : HookLeaves(q) \/ AuthorityRevoked(q)

Spec == Init /\ [][Next]_vars

\* The worker thread loops for as long as the daemon lives and time passes.
\* No fairness for the callers: they may die.
Fairness ==
    /\ WF_vars(Sync /\ UNCHANGED contVars)
    /\ WF_vars(TimePasses /\ UNCHANGED contVars)

LiveSpec == Spec /\ Fairness

-----------------------------------------------------------------------------
Claims == [state : {"none", "claimed", "waiting", "completed"},
           owner : Calls \cup {None}, fresh : BOOLEAN, ev : Evidence \cup {None}]

Callers == [pc : {"new", "look", "claim", "poll", "run", "finalize", "replay", "done"},
            req : Requests \cup {None}, offer : Offers \cup {None},
            result : Results \cup {None}]

TypeOK ==
    /\ OutboxTypeOK
    /\ claims \in [Requests \X Offers -> Claims]
    /\ resume \in [Requests -> [offer : Offers, result : Results] \cup {None}]
    /\ told \subseteq Evidence
    /\ operation \in [Requests -> {"waiting", "ended"}]
    /\ waiter \subseteq Requests
    /\ authority \in [Requests -> {"ready", "spent", "revoked"}]
    /\ calls \in [Calls -> Callers] /\ hooks \in [Hooks -> Callers]

\* A completed claim keeps its evidence: neither a replayed "waiting" result,
\* nor a late owner, nor a second hook changes it.
CompletedIsFinal ==
    [][\A k \in Requests \X Offers :
         claims[k].state = "completed" => claims'[k] = claims[k]]_vars

\* Terminal events and completed claims are one to one: an outcome reaches the
\* outbox exactly when it is the outcome, and once.
OneOutcome ==
    /\ told = {claims[k].ev : k \in {x \in DOMAIN claims : claims[x].state = "completed"}}
    /\ Cardinality(told) = Cardinality({k \in DOMAIN claims : claims[k].state = "completed"})

\* The one-shot authority is spent only together with the hook's completion.
SpentWithCompletion ==
    \A q \in Requests : authority[q] = "spent" =>
        claims[<<q, "live">>].state = "completed" /\ claims[<<q, "live">>].ev \in Hooks
=============================================================================
