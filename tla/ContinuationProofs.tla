------------------------- MODULE ContinuationProofs -------------------------
(***************************************************************************)
(* What holds of continuations for any number of requests, calls and       *)
(* hooks.                                                                  *)
(*                                                                         *)
(* CompletedIsFinal is not inductive: a replay writes back a result that   *)
(* it read earlier, so one has to know that two results with the same      *)
(* evidence are the same result.  The invariant says where every result in *)
(* circulation comes from (Authored): its evidence names the one call or   *)
(* hook that made it, and that caller still carries it, for the same       *)
(* request and offer.                                                      *)
(***************************************************************************)
EXTENDS Continuation, FunctionTheorems, FiniteSetTheorems, TLAPS

Keys == Requests \X Offers

\* The result r of request q under offer k was made by the caller it names:
\* C and H are the calls and the hooks.
Authored(C, H, q, k, r) ==
    /\ r.ev \in Calls => /\ C[r.ev].pc \in {"finalize", "done"}
                         /\ C[r.ev].result = r
                         /\ C[r.ev].req = q /\ C[r.ev].offer = k
    /\ r.ev \in Hooks => /\ r.terminal = TRUE /\ k = "live"
                         /\ H[r.ev].pc = "done" /\ H[r.ev].req = q

\* A completed claim names no owner any more, and its evidence is the author
\* of a terminal result.
ClaimSound(k) ==
    claims[k].state = "completed" =>
        /\ claims[k].owner = None /\ claims[k].fresh = FALSE
        /\ claims[k].ev \in Evidence
        /\ Authored(calls, hooks, k[1], k[2], [terminal |-> TRUE, ev |-> claims[k].ev])

CallSound(c) ==
    /\ calls[c].pc # "new" => calls[c].req \in Requests /\ calls[c].offer \in Offers
    /\ calls[c].pc \in {"finalize", "replay"} => calls[c].result \in Results
    /\ calls[c].pc = "finalize" => calls[c].result.ev = c
    /\ calls[c].pc = "replay" =>
         Authored(calls, hooks, calls[c].req, calls[c].offer, calls[c].result)

ResumeSound(q) ==
    resume[q] # None =>
        Authored(calls, hooks, q, resume[q].offer, resume[q].result)

ContTypeOK ==
    /\ claims \in [Keys -> Claims]
    /\ resume \in [Requests -> [offer : Offers, result : Results] \cup {None}]
    /\ told \subseteq Evidence
    /\ operation \in [Requests -> {"waiting", "ended"}]
    /\ authority \in [Requests -> {"ready", "spent", "revoked"}]
    /\ calls \in [Calls -> Callers] /\ hooks \in [Hooks -> Callers]

Completed == {k \in Keys : claims[k].state = "completed"}
ToldIsCompleted == told = {claims[k].ev : k \in Completed}

ContinuationInvariant ==
    /\ ContTypeOK
    /\ \A k \in Keys : ClaimSound(k)
    /\ \A c \in Calls : CallSound(c)
    /\ \A h \in Hooks : hooks[h].pc = "finalize" => hooks[h].req \in Requests
    /\ \A q \in Requests : ResumeSound(q)
    /\ ToldIsCompleted
    /\ SpentWithCompletion

\* Nobody who made a result changes it.
KeepsAuthors ==
    /\ \A e \in Calls : calls[e].pc \in {"finalize", "done"} =>
         /\ calls'[e].pc \in {"finalize", "done"}
         /\ calls'[e].result = calls[e].result
         /\ calls'[e].req = calls[e].req /\ calls'[e].offer = calls[e].offer
    /\ \A h \in Hooks : hooks[h].pc = "done" => hooks'[h] = hooks[h]

\* A completed claim is left alone: the step form of CompletedIsFinal.
KeepsCompleted ==
    \A k \in Keys : claims[k].state = "completed" => claims'[k] = claims[k]

\* What a result's author carries, a step that changes no author keeps.
LEMMA AuthoredKept ==
    ASSUME NEW q, NEW k, NEW r, KeepsAuthors, Authored(calls, hooks, q, k, r)
    PROVE  Authored(calls', hooks', q, k, r)
BY DEF KeepsAuthors, Authored

\* Two results of one author under one offer are the same result.
LEMMA AuthoredSame ==
    ASSUME NEW q, NEW k, NEW r \in Results, NEW C, NEW H, NEW e,
           Authored(C, H, q, k, r), e = r.ev,
           Authored(C, H, q, k, [terminal |-> TRUE, ev |-> e])
    PROVE  r.terminal = TRUE
BY DEF Authored, Results, Evidence

\* The claims after a commit that MayFinalize allowed: well-formed, completed
\* ones untouched, each still traced to its author.
LEMMA CommitClaims ==
    ASSUME ContinuationInvariant, KeepsAuthors,
           NEW q \in Requests, NEW k \in Offers, NEW r \in Results,
           Commit(q, k, r), Authored(calls', hooks', q, k, r),
           claims[<<q, k>>].state # "completed" \/ claims[<<q, k>>].ev = r.ev
    PROVE  /\ claims' \in [Keys -> Claims]
           /\ KeepsCompleted
           /\ \A x \in Keys : ClaimSound(x)'
           /\ r.terminal => claims'[<<q, k>>].state = "completed" /\ claims'[<<q, k>>].ev = r.ev
           /\ ~r.terminal => Completed' = Completed /\ \A x \in Completed : claims'[x] = claims[x]
           /\ r.terminal => Completed' = Completed \cup {<<q, k>>}
<1> DEFINE new == [state |-> IF r.terminal THEN "completed" ELSE "waiting",
                   owner |-> None, fresh |-> FALSE, ev |-> r.ev]
<1> <<q, k>> \in Keys
  BY DEF Keys
<1>1. claims' = [claims EXCEPT ![<<q, k>>] = new]
  BY DEF Commit
<1>2. claims \in [Keys -> Claims] /\ \A x \in Keys : ClaimSound(x)
  BY DEF ContinuationInvariant, ContTypeOK
<1>3. new \in Claims /\ new.owner = None /\ new.fresh = FALSE /\ new.ev = r.ev
  BY DEF Claims, Results
<1>4. (r.terminal => new.state = "completed") /\ (~r.terminal => new.state = "waiting")
  OBVIOUS
<1>5. claims'[<<q, k>>] = new /\ \A x \in Keys : x # <<q, k>> => claims'[x] = claims[x]
  BY <1>1, <1>2
<1>6. claims' \in [Keys -> Claims]
  BY <1>1, <1>2, <1>3
<1>7. ASSUME claims[<<q, k>>].state = "completed"
      PROVE  r.terminal = TRUE /\ claims[<<q, k>>] = new
  <2>1. claims[<<q, k>>].ev = r.ev /\ claims[<<q, k>>] \in Claims
    BY <1>7, <1>2
  <2>2. /\ claims[<<q, k>>].owner = None /\ claims[<<q, k>>].fresh = FALSE
        /\ Authored(calls, hooks, q, k, [terminal |-> TRUE, ev |-> r.ev])
    BY <1>2, <1>7, <2>1 DEF ClaimSound
  <2>3. Authored(calls', hooks', q, k, [terminal |-> TRUE, ev |-> r.ev])
    BY <2>2, AuthoredKept
  <2>4. r.terminal = TRUE
    BY <2>3, AuthoredSame
  <2> QED
    BY <2>1, <2>2, <2>4, <1>3, <1>4, <1>7 DEF Claims
<1>8. KeepsCompleted
  BY <1>5, <1>7 DEF KeepsCompleted
<1>9. ASSUME NEW x \in Keys  PROVE ClaimSound(x)'
  <2>1. CASE x = <<q, k>>
    <3> SUFFICES ASSUME new.state = "completed"
                 PROVE  /\ new.ev \in Evidence
                        /\ Authored(calls', hooks', q, k, [terminal |-> TRUE, ev |-> new.ev])
      BY <2>1, <1>5, <1>3 DEF ClaimSound
    <3>1. r.terminal = TRUE
      BY <1>4 DEF Results
    <3>2. r = [terminal |-> TRUE, ev |-> r.ev] /\ r.ev \in Evidence
      BY <3>1 DEF Results
    <3> QED
      BY <3>2, <1>3
  <2>2. CASE x # <<q, k>>
    <3>1. claims'[x] = claims[x] /\ ClaimSound(x)
      BY <2>2, <1>5, <1>2
    <3> QED
      BY <3>1, AuthoredKept DEF ClaimSound
  <2> QED
    BY <2>1, <2>2
<1>10. ~r.terminal => Completed' = Completed /\ \A x \in Completed : claims'[x] = claims[x]
  BY <1>4, <1>5, <1>7 DEF Completed
<1>11. r.terminal => Completed' = Completed \cup {<<q, k>>}
  BY <1>4, <1>5 DEF Completed
<1> QED
  BY <1>3, <1>4, <1>5, <1>6, <1>8, <1>9, <1>10, <1>11

\* The same for the resume row and for the terminal events that are out.
LEMMA CommitRest ==
    ASSUME ContinuationInvariant, KeepsAuthors,
           NEW q \in Requests, NEW k \in Offers, NEW r \in Results,
           Commit(q, k, r), Authored(calls', hooks', q, k, r),
           claims[<<q, k>>].state # "completed" \/ claims[<<q, k>>].ev = r.ev
    PROVE  /\ resume' \in [Requests -> [offer : Offers, result : Results] \cup {None}]
           /\ told' \subseteq Evidence
           /\ operation' \in [Requests -> {"waiting", "ended"}]
           /\ \A p \in Requests : ResumeSound(p)'
           /\ ToldIsCompleted'
<1> DEFINE new == [offer |-> k, result |-> r]
<1>1. /\ resume \in [Requests -> [offer : Offers, result : Results] \cup {None}]
      /\ told \subseteq Evidence
      /\ operation \in [Requests -> {"waiting", "ended"}]
      /\ \A p \in Requests : ResumeSound(p)
      /\ ToldIsCompleted
  BY DEF ContinuationInvariant, ContTypeOK
<1>2. /\ resume' = [resume EXCEPT ![q] = new]
      /\ operation' = [operation EXCEPT ![q] = IF r.terminal THEN "ended" ELSE "waiting"]
      /\ told' = IF r.terminal THEN told \cup {r.ev} ELSE told
  BY DEF Commit
<1>3. resume' \in [Requests -> [offer : Offers, result : Results] \cup {None}]
  BY <1>1, <1>2
<1>4. told' \subseteq Evidence /\ operation' \in [Requests -> {"waiting", "ended"}]
  BY <1>1, <1>2 DEF Results
<1>5. ASSUME NEW p \in Requests  PROVE ResumeSound(p)'
  <2>1. CASE p = q
    BY <2>1, <1>1, <1>2 DEF ResumeSound
  <2>2. CASE p # q
    <3>1. resume'[p] = resume[p] /\ ResumeSound(p)
      BY <2>2, <1>1, <1>2
    <3> QED
      BY <3>1, AuthoredKept DEF ResumeSound
  <2> QED
    BY <2>1, <2>2
<1>6. ToldIsCompleted'
  <2>1. /\ KeepsCompleted
        /\ r.terminal => Completed' = Completed \cup {<<q, k>>}
        /\ r.terminal => claims'[<<q, k>>].ev = r.ev
        /\ ~r.terminal => Completed' = Completed
    BY CommitClaims
  <2>2. \A x \in Completed : claims'[x] = claims[x]
    BY <2>1 DEF KeepsCompleted, Completed
  <2>3. told = {claims[x].ev : x \in Completed}
    BY <1>1 DEF ToldIsCompleted
  <2>4. told' = {claims'[x].ev : x \in Completed'}
    <3>1. CASE r.terminal
      BY <3>1, <2>1, <2>2, <2>3, <1>2
    <3>2. CASE ~r.terminal
      BY <3>2, <2>1, <2>2, <2>3, <1>2
    <3> QED
      BY <3>1, <3>2
  <2> QED
    BY <2>4 DEF ToldIsCompleted
<1> QED
  BY <1>3, <1>4, <1>5, <1>6

\* A step that commits nothing keeps what the invariant says of claims, the
\* resume row and the terminal events.
LEMMA NoCommitKeeps ==
    ASSUME ContinuationInvariant, KeepsAuthors, NoCommit
    PROVE  /\ claims' \in [Keys -> Claims]
           /\ resume' \in [Requests -> [offer : Offers, result : Results] \cup {None}]
           /\ told' \subseteq Evidence
           /\ operation' \in [Requests -> {"waiting", "ended"}]
           /\ KeepsCompleted
           /\ \A x \in Keys : ClaimSound(x)'
           /\ \A p \in Requests : ResumeSound(p)'
           /\ ToldIsCompleted'
<1> USE DEF NoCommit
<1>1. \A x \in Keys : ClaimSound(x)'
  BY AuthoredKept DEF ContinuationInvariant, ClaimSound
<1>2. \A p \in Requests : ResumeSound(p)'
  BY AuthoredKept DEF ContinuationInvariant, ResumeSound
<1>3. ToldIsCompleted'
  BY DEF ContinuationInvariant, ToldIsCompleted, Completed
<1> QED
  BY <1>1, <1>2, <1>3 DEF ContinuationInvariant, ContTypeOK, KeepsCompleted

\* An authority that was spent stays with the completion it was spent for.
LEMMA SpentKept ==
    ASSUME SpentWithCompletion, KeepsCompleted,
           \A q \in Requests : authority'[q] = "spent" => authority[q] = "spent"
    PROVE  SpentWithCompletion'
<1> \A q \in Requests : <<q, "live">> \in Keys
  BY DEF Keys, Offers
<1> QED
  BY DEF SpentWithCompletion, KeepsCompleted

\* Calls that do not move stay sound.
LEMMA CallsKept ==
    ASSUME ContinuationInvariant, KeepsAuthors
    PROVE  \A e \in Calls : calls'[e] = calls[e] => CallSound(e)'
<1> SUFFICES ASSUME NEW e \in Calls, calls'[e] = calls[e]  PROVE CallSound(e)'
  OBVIOUS
<1>1. CallSound(e)
  BY DEF ContinuationInvariant
<1> QED
  BY <1>1, AuthoredKept DEF CallSound

\* A call moves and commits nothing.
LEMMA CallMoves ==
    ASSUME ContinuationInvariant, NEW c \in Calls, NEW x \in Callers,
           calls' = [calls EXCEPT ![c] = x],
           calls[c].pc \notin {"finalize", "done"},
           x.pc # "new" => x.req \in Requests /\ x.offer \in Offers,
           x.pc \in {"finalize", "replay"} => x.result \in Results,
           x.pc = "finalize" => x.result.ev = c,
           x.pc = "replay" => Authored(calls, hooks, x.req, x.offer, x.result),
           NoCommit, UNCHANGED <<hooks, authority>>
    PROVE  ContinuationInvariant' /\ KeepsCompleted
<1>1. calls \in [Calls -> Callers]
  BY DEF ContinuationInvariant, ContTypeOK
<1>2. calls'[c] = x /\ \A e \in Calls \ {c} : calls'[e] = calls[e]
  BY <1>1
<1>3. KeepsAuthors
  BY <1>2 DEF KeepsAuthors
<1>4. x.pc = "replay" => Authored(calls', hooks', x.req, x.offer, x.result)
  BY <1>3, AuthoredKept
<1>5. CallSound(c)'
  BY <1>2, <1>4 DEF CallSound
<1>6. \A e \in Calls : CallSound(e)'
  BY <1>2, <1>3, <1>5, CallsKept
<1>7. calls' \in [Calls -> Callers]
  BY <1>1
<1>8. SpentWithCompletion'
  BY <1>3, NoCommitKeeps, SpentKept DEF ContinuationInvariant
<1> QED
  BY <1>3, <1>6, <1>7, <1>8, NoCommitKeeps DEF ContinuationInvariant, ContTypeOK

\* A call whose result goes into a commit that MayFinalize allowed.
LEMMA CallCommits ==
    ASSUME ContinuationInvariant, NEW c \in Calls,
           NEW q \in Requests, NEW k \in Offers, NEW r \in Results,
           calls[c].pc \in {"finalize", "replay"},
           calls[c].req = q, calls[c].offer = k, calls[c].result = r,
           calls' = [calls EXCEPT ![c].pc = "done"],
           \/ NoCommit
           \/ /\ Commit(q, k, r)
              /\ claims[<<q, k>>].state # "completed" \/ claims[<<q, k>>].ev = r.ev,
           UNCHANGED <<hooks, authority>>
    PROVE  ContinuationInvariant' /\ KeepsCompleted
<1>1. calls \in [Calls -> Callers] /\ CallSound(c)
  BY DEF ContinuationInvariant, ContTypeOK
<1>2. /\ calls'[c] = [calls[c] EXCEPT !.pc = "done"]
      /\ \A e \in Calls \ {c} : calls'[e] = calls[e]
  BY <1>1
<1>3. /\ calls'[c].pc = "done" /\ calls'[c].req = q
      /\ calls'[c].offer = k /\ calls'[c].result = r
  BY <1>1, <1>2 DEF Callers
<1>4. calls' \in [Calls -> Callers]
  BY <1>1 DEF Callers
<1>5. KeepsAuthors
  BY <1>2, <1>3 DEF KeepsAuthors
<1>6. Authored(calls', hooks', q, k, r)
  <2>1. CASE calls[c].pc = "finalize"
    <3>1. r.ev = c /\ c \notin Hooks
      BY <2>1, <1>1, CallersDiffer DEF CallSound
    <3> QED
      BY <3>1, <1>3 DEF Authored
  <2>2. CASE calls[c].pc = "replay"
    BY <2>2, <1>1, <1>5, AuthoredKept DEF CallSound
  <2> QED
    BY <2>1, <2>2
<1>7. CallSound(c)'
  BY <1>3 DEF CallSound
<1>8. \A e \in Calls : CallSound(e)'
  BY <1>2, <1>5, <1>7, CallsKept
<1>9. CASE NoCommit
  <2>1. SpentWithCompletion'
    BY <1>9, <1>5, NoCommitKeeps, SpentKept DEF ContinuationInvariant
  <2> QED
    BY <1>4, <1>5, <1>8, <1>9, <2>1, NoCommitKeeps DEF ContinuationInvariant, ContTypeOK
<1>10. CASE /\ Commit(q, k, r)
            /\ claims[<<q, k>>].state # "completed" \/ claims[<<q, k>>].ev = r.ev
  <2>1. KeepsCompleted /\ claims' \in [Keys -> Claims] /\ \A x \in Keys : ClaimSound(x)'
    BY <1>5, <1>6, <1>10, CommitClaims
  <2>2. SpentWithCompletion'
    BY <2>1, SpentKept DEF ContinuationInvariant
  <2>3. /\ resume' \in [Requests -> [offer : Offers, result : Results] \cup {None}]
        /\ told' \subseteq Evidence
        /\ operation' \in [Requests -> {"waiting", "ended"}]
        /\ \A p \in Requests : ResumeSound(p)'
        /\ ToldIsCompleted'
    BY <1>5, <1>6, <1>10, CommitRest
  <2> QED
    BY <1>4, <1>8, <2>1, <2>2, <2>3 DEF ContinuationInvariant, ContTypeOK
<1> QED
  BY <1>9, <1>10

\* A call that starts has computed an offer and has no result.
LEMMA BeginKeeps ==
    ASSUME ContinuationInvariant, NEW c \in Calls, NEW q \in Requests, Begin(c, q)
    PROVE  ContinuationInvariant' /\ KeepsCompleted
<1> DEFINE x == [Out EXCEPT !.pc = "look", !.req = q, !.offer = OfferOf(q)]
<1>1. x \in Callers /\ x.pc = "look" /\ x.req = q /\ x.offer \in Offers
  BY DEF Out, OfferOf, Callers, Offers
<1>2. /\ calls[c].pc = "new" /\ calls' = [calls EXCEPT ![c] = x]
      /\ NoCommit /\ UNCHANGED <<hooks, authority>>
  BY DEF Begin
<1> QED
  BY <1>1, <1>2, CallMoves

\* A call that found an earlier result carries what its author made.
LEMMA LookKeeps ==
    ASSUME ContinuationInvariant, NEW c \in Calls, Look(c)
    PROVE  ContinuationInvariant' /\ KeepsCompleted
<1> DEFINE q == calls[c].req  k == calls[c].offer
           x == IF Previous(q, k)
                THEN [calls[c] EXCEPT !.pc = "replay", !.result = resume[q].result]
                ELSE [calls[c] EXCEPT !.pc = IF calls[c].pc = "look" THEN "claim" ELSE "done"]
<1>1. /\ calls[c].pc \in {"look", "poll"} /\ calls' = [calls EXCEPT ![c] = x]
      /\ NoCommit /\ UNCHANGED <<hooks, authority>>
  BY DEF Look
<1>2. calls[c] \in Callers /\ CallSound(c)
  BY DEF ContinuationInvariant, ContTypeOK
<1>3. q \in Requests /\ k \in Offers
  BY <1>1, <1>2 DEF CallSound
<1>4. ResumeSound(q) /\ resume[q] \in [offer : Offers, result : Results] \cup {None}
  BY <1>3 DEF ContinuationInvariant, ContTypeOK
<1>5. CASE Previous(q, k)
  <2>1. resume[q] # None /\ resume[q].offer = k /\ resume[q].result \in Results
    BY <1>4, <1>5 DEF Previous
  <2>2. Authored(calls, hooks, q, k, resume[q].result)
    BY <1>4, <2>1 DEF ResumeSound
  <2>3. /\ x \in Callers /\ x.pc = "replay" /\ x.req = q /\ x.offer = k
        /\ x.result = resume[q].result
    BY <1>2, <1>5, <2>1 DEF Callers
  <2> HIDE DEF x
  <2> QED
    BY <1>1, <1>3, <2>1, <2>2, <2>3, CallMoves
<1>6. CASE ~Previous(q, k)
  <2>1. /\ x \in Callers /\ x.pc \in {"claim", "done"} /\ x.req = q /\ x.offer = k
    BY <1>2, <1>6 DEF Callers
  <2> HIDE DEF x
  <2> QED
    BY <1>1, <1>3, <2>1, CallMoves
<1> QED
  BY <1>5, <1>6

\* The adapter's result names the call as its author.
LEMMA RunKeeps ==
    ASSUME ContinuationInvariant, NEW c \in Calls, NEW terminal \in BOOLEAN,
           Run(c, terminal)
    PROVE  ContinuationInvariant' /\ KeepsCompleted
<1> DEFINE r == [terminal |-> terminal, ev |-> c]
           x == [calls[c] EXCEPT !.pc = "finalize", !.result = r]
<1>1. /\ calls[c].pc = "run" /\ calls' = [calls EXCEPT ![c] = x]
      /\ NoCommit /\ UNCHANGED <<hooks, authority>>
  BY DEF Run
<1>2. calls[c] \in Callers /\ CallSound(c)
  BY DEF ContinuationInvariant, ContTypeOK
<1>3. r \in Results /\ r.ev = c
  BY DEF Results, Evidence
<1>4. /\ x \in Callers /\ x.pc = "finalize" /\ x.result = r
      /\ x.req = calls[c].req /\ x.offer = calls[c].offer
  BY <1>2, <1>3 DEF Callers
<1>5. x.req \in Requests /\ x.offer \in Offers
  BY <1>1, <1>2, <1>4 DEF CallSound
<1> HIDE DEF x, r
<1> QED
  BY <1>1, <1>3, <1>4, <1>5, CallMoves

\* The owner of a lease finalizes a claim that nobody completed.
LEMMA FinalizeKeeps ==
    ASSUME ContinuationInvariant, NEW c \in Calls, Finalize(c)
    PROVE  ContinuationInvariant' /\ KeepsCompleted
<1>1. /\ calls[c].pc = "finalize" /\ calls' = [calls EXCEPT ![c].pc = "done"]
      /\ UNCHANGED <<hooks, authority>>
  BY DEF Finalize, Step
<1>2. /\ calls[c].req \in Requests /\ calls[c].offer \in Offers
      /\ calls[c].result \in Results
  BY <1>1 DEF ContinuationInvariant, CallSound
<1>3. c # None
  BY CallersDiffer
<1>4. \/ NoCommit
      \/ /\ Commit(calls[c].req, calls[c].offer, calls[c].result)
         /\ claims[<<calls[c].req, calls[c].offer>>].state # "completed"
  BY <1>3 DEF Finalize, MayFinalize
<1> QED
  BY <1>1, <1>2, <1>4, CallCommits

\* A replay finalizes under its author's evidence or not at all.
LEMMA ReplayKeeps ==
    ASSUME ContinuationInvariant, NEW c \in Calls, Replay(c)
    PROVE  ContinuationInvariant' /\ KeepsCompleted
<1>1. /\ calls[c].pc = "replay" /\ calls' = [calls EXCEPT ![c].pc = "done"]
      /\ UNCHANGED <<hooks, authority>>
  BY DEF Replay, Step
<1>2. /\ calls[c].req \in Requests /\ calls[c].offer \in Offers
      /\ calls[c].result \in Results
  BY <1>1 DEF ContinuationInvariant, CallSound
<1>3. \/ NoCommit
      \/ /\ Commit(calls[c].req, calls[c].offer, calls[c].result)
         /\ \/ claims[<<calls[c].req, calls[c].offer>>].state # "completed"
            \/ claims[<<calls[c].req, calls[c].offer>>].ev = calls[c].result.ev
  BY DEF Replay, MayFinalize
<1> QED
  BY <1>1, <1>2, <1>3, CallCommits

\* A claim that is not completed changes into another that is not, and no
\* caller moves past a result.
LEMMA ClaimMoves ==
    ASSUME ContinuationInvariant, KeepsAuthors,
           NEW k \in Keys, NEW n \in Claims,
           claims[k].state # "completed", n.state # "completed",
           claims' = [claims EXCEPT ![k] = n],
           UNCHANGED <<resume, told, operation, authority, hooks>>,
           calls' \in [Calls -> Callers],
           \A c \in Calls : CallSound(c)'
    PROVE  ContinuationInvariant' /\ KeepsCompleted
<1>1. claims \in [Keys -> Claims] /\ \A x \in Keys : ClaimSound(x)
  BY DEF ContinuationInvariant, ContTypeOK
<1>2. claims'[k] = n /\ \A x \in Keys : x # k => claims'[x] = claims[x]
  BY <1>1
<1>3. claims' \in [Keys -> Claims]
  BY <1>1
<1>4. KeepsCompleted
  BY <1>2 DEF KeepsCompleted
<1>5. ASSUME NEW x \in Keys  PROVE ClaimSound(x)'
  BY <1>1, <1>2, AuthoredKept DEF ClaimSound
<1>6. \A p \in Requests : ResumeSound(p)'
  BY AuthoredKept DEF ContinuationInvariant, ResumeSound
<1>7. ToldIsCompleted'
  <2>1. Completed' = Completed /\ \A x \in Completed : claims'[x] = claims[x]
    BY <1>2 DEF Completed
  <2> QED
    BY <2>1 DEF ContinuationInvariant, ToldIsCompleted
<1>8. SpentWithCompletion'
  BY <1>4, SpentKept DEF ContinuationInvariant
<1> QED
  BY <1>3, <1>4, <1>5, <1>6, <1>7, <1>8 DEF ContinuationInvariant, ContTypeOK

\* A lease is taken only on a claim that nobody completed.
LEMMA ClaimKeeps ==
    ASSUME ContinuationInvariant, NEW c \in Calls, Claim(c)
    PROVE  ContinuationInvariant' /\ KeepsCompleted
<1> DEFINE k == <<calls[c].req, calls[c].offer>>
           n == [state |-> "claimed", owner |-> c, fresh |-> TRUE, ev |-> None]
<1>1. /\ calls[c].pc = "claim"
      /\ \/ /\ calls' = [calls EXCEPT ![c].pc = "poll"] /\ UNCHANGED claims
         \/ /\ calls' = [calls EXCEPT ![c].pc = "run"]
            /\ claims' = [claims EXCEPT ![k] = n] /\ claims[k].state # "completed"
      /\ UNCHANGED <<resume, told, operation, authority, hooks, db>>
  BY DEF Claim, Step, ClaimTaken
<1>2. calls \in [Calls -> Callers] /\ calls[c] \in Callers /\ CallSound(c)
  BY DEF ContinuationInvariant, ContTypeOK
<1>3. calls[c].req \in Requests /\ calls[c].offer \in Offers
  BY <1>1, <1>2 DEF CallSound
<1>4. PICK to \in {"poll", "run"} : calls' = [calls EXCEPT ![c].pc = to]
  BY <1>1
<1> DEFINE x == [calls[c] EXCEPT !.pc = to]
<1>5. calls' = [calls EXCEPT ![c] = x]
  BY <1>2, <1>4
<1>6. /\ x \in Callers /\ x.pc = to /\ x.req = calls[c].req
      /\ x.offer = calls[c].offer
  BY <1>2 DEF Callers
<1> HIDE DEF x
<1>7. calls' \in [Calls -> Callers]
  BY <1>2, <1>5, <1>6
<1>8. calls'[c] = x /\ \A e \in Calls : e # c => calls'[e] = calls[e]
  BY <1>2, <1>5
<1>9. KeepsAuthors
  BY <1>1, <1>8 DEF KeepsAuthors
<1>10. CallSound(c)'
  BY <1>3, <1>4, <1>6, <1>8 DEF CallSound
<1>11. \A e \in Calls : CallSound(e)'
  BY <1>8, <1>9, <1>10, CallsKept
<1>12. CASE UNCHANGED claims
  <2>1. NoCommit
    BY <1>1, <1>12 DEF NoCommit
  <2>2. SpentWithCompletion'
    BY <1>1, <1>9, <2>1, NoCommitKeeps, SpentKept DEF ContinuationInvariant
  <2> QED
    BY <1>1, <1>7, <1>9, <1>11, <2>1, <2>2, NoCommitKeeps DEF ContinuationInvariant, ContTypeOK
<1>13. CASE claims' = [claims EXCEPT ![k] = n] /\ claims[k].state # "completed"
  <2>1. k \in Keys /\ n \in Claims /\ n.state # "completed"
    BY <1>3 DEF Keys, Claims
  <2> HIDE DEF k, n
  <2> QED
    BY <1>1, <1>7, <1>9, <1>11, <1>13, <2>1, ClaimMoves
<1> QED
  BY <1>1, <1>12, <1>13

\* A lease that runs out completes nothing.
LEMMA LeaseExpiresKeeps ==
    ASSUME ContinuationInvariant, NEW k \in Keys, LeaseExpires(k)
    PROVE  ContinuationInvariant' /\ KeepsCompleted
<1> DEFINE n == [claims[k] EXCEPT !.fresh = FALSE]
<1>1. /\ claims[k].state = "claimed" /\ claims' = [claims EXCEPT ![k].fresh = FALSE]
      /\ UNCHANGED <<resume, told, operation, authority, calls, hooks>>
  BY DEF LeaseExpires
<1>2. claims[k] \in Claims /\ claims \in [Keys -> Claims]
  BY DEF ContinuationInvariant, ContTypeOK
<1>3. claims' = [claims EXCEPT ![k] = n]
  BY <1>1, <1>2
<1>4. n \in Claims /\ n.state # "completed"
  BY <1>1, <1>2 DEF Claims
<1>5. KeepsAuthors
  BY <1>1 DEF KeepsAuthors
<1>6. \A e \in Calls : CallSound(e)'
  BY <1>1, <1>5, CallsKept
<1>7. calls' \in [Calls -> Callers]
  BY <1>1 DEF ContinuationInvariant, ContTypeOK
<1> HIDE DEF n
<1> QED
  BY <1>1, <1>3, <1>4, <1>5, <1>6, <1>7, ClaimMoves

\* A step that leaves claims, results and calls alone.
LEMMA QuietKeeps ==
    ASSUME ContinuationInvariant, KeepsAuthors, NoCommit, UNCHANGED calls,
           hooks' \in [Hooks -> Callers],
           \A h \in Hooks : hooks'[h].pc = "finalize" => hooks'[h].req \in Requests,
           authority' \in [Requests -> {"ready", "spent", "revoked"}],
           \A q \in Requests : authority'[q] = "spent" => authority[q] = "spent"
    PROVE  ContinuationInvariant' /\ KeepsCompleted
<1>1. \A e \in Calls : CallSound(e)'
  BY CallsKept
<1>2. SpentWithCompletion'
  BY NoCommitKeeps, SpentKept DEF ContinuationInvariant
<1> QED
  BY <1>1, <1>2, NoCommitKeeps DEF ContinuationInvariant, ContTypeOK

\* A hook that looks commits nothing.
LEMMA HookLookKeeps ==
    ASSUME ContinuationInvariant, NEW h \in Hooks, NEW q \in Requests, HookLook(h, q)
    PROVE  ContinuationInvariant' /\ KeepsCompleted
<1> DEFINE to == IF Previous(q, "live") /\ resume[q].result.terminal
                 THEN "done" ELSE "finalize"
           x == [Out EXCEPT !.req = q, !.offer = "live", !.pc = to]
<1>1. /\ hooks[h].pc = "new" /\ hooks' = [hooks EXCEPT ![h] = x]
      /\ NoCommit /\ UNCHANGED <<calls, authority>>
  BY DEF HookLook
<1>2. hooks \in [Hooks -> Callers] /\ authority \in [Requests -> {"ready", "spent", "revoked"}]
  BY DEF ContinuationInvariant, ContTypeOK
<1>3. to \in {"done", "finalize"}
  OBVIOUS
<1> HIDE DEF to
<1>4. x \in Callers /\ x.req = q
  BY <1>3 DEF Out, Callers, Offers
<1> HIDE DEF x
<1>5. hooks' \in [Hooks -> Callers] /\ hooks'[h] = x
      /\ \A e \in Hooks : e # h => hooks'[e] = hooks[e]
  BY <1>1, <1>2, <1>4
<1>6. KeepsAuthors
  BY <1>1, <1>5 DEF KeepsAuthors
<1>7. \A e \in Hooks : hooks'[e].pc = "finalize" => hooks'[e].req \in Requests
  BY <1>4, <1>5 DEF ContinuationInvariant
<1> QED
  BY <1>1, <1>2, <1>5, <1>6, <1>7, QuietKeeps

\* A revocation spends nothing.
LEMMA AuthorityRevokedKeeps ==
    ASSUME ContinuationInvariant, NEW q \in Requests, AuthorityRevoked(q)
    PROVE  ContinuationInvariant' /\ KeepsCompleted
<1>1. /\ authority' = [authority EXCEPT ![q] = "revoked"]
      /\ NoCommit /\ UNCHANGED <<calls, hooks>>
  BY DEF AuthorityRevoked
<1>2. /\ hooks \in [Hooks -> Callers]
      /\ authority \in [Requests -> {"ready", "spent", "revoked"}]
      /\ \A h \in Hooks : hooks[h].pc = "finalize" => hooks[h].req \in Requests
  BY DEF ContinuationInvariant, ContTypeOK
<1>3. KeepsAuthors
  BY <1>1 DEF KeepsAuthors
<1>4. /\ authority' \in [Requests -> {"ready", "spent", "revoked"}]
      /\ \A p \in Requests : authority'[p] = "spent" => authority[p] = "spent"
  BY <1>1, <1>2
<1> QED
  BY <1>1, <1>2, <1>3, <1>4, QuietKeeps

\* Steps of the outbox, of time and of the hook's process.
LEMMA UnchangedKeeps ==
    ASSUME ContinuationInvariant,
           UNCHANGED <<claims, resume, told, operation, authority, calls, hooks>>
    PROVE  ContinuationInvariant' /\ KeepsCompleted
BY DEF ContinuationInvariant, ContTypeOK, ClaimSound, CallSound, ResumeSound,
       ToldIsCompleted, Completed, SpentWithCompletion, KeepsCompleted

\* A hook completes the claim, with or without its exact authority, or nothing
\* happens.
LEMMA HookFinalizeKeeps ==
    ASSUME ContinuationInvariant, NEW h \in Hooks, NEW exact \in BOOLEAN,
           HookFinalize(h, exact)
    PROVE  ContinuationInvariant' /\ KeepsCompleted
<1> DEFINE q == hooks[h].req
           r == [terminal |-> TRUE, ev |-> h]
           allowed == /\ exact => authority[q] = "ready"
                      /\ MayFinalize(q, "live", None, h)
<1>1. /\ hooks[h].pc = "finalize" /\ hooks' = [hooks EXCEPT ![h].pc = "done"]
      /\ IF exact THEN SpendAuthority(q, allowed) ELSE UNCHANGED authority
      /\ IF allowed THEN Commit(q, "live", r) ELSE NoCommit
      /\ UNCHANGED calls
  BY DEF HookFinalize
<1>2. /\ hooks \in [Hooks -> Callers] /\ hooks[h] \in Callers /\ q \in Requests
      /\ authority \in [Requests -> {"ready", "spent", "revoked"}]
      /\ calls \in [Calls -> Callers]
  BY <1>1 DEF ContinuationInvariant, ContTypeOK
<1>3. /\ hooks'[h] = [hooks[h] EXCEPT !.pc = "done"]
      /\ \A e \in Hooks : e # h => hooks'[e] = hooks[e]
  BY <1>1, <1>2
<1>4. hooks'[h].pc = "done" /\ hooks'[h].req = q /\ hooks' \in [Hooks -> Callers]
  BY <1>1, <1>2, <1>3 DEF Callers
<1>5. KeepsAuthors
  BY <1>1, <1>3 DEF KeepsAuthors
<1>6. \A e \in Hooks : hooks'[e].pc = "finalize" => hooks'[e].req \in Requests
  BY <1>3, <1>4 DEF ContinuationInvariant
<1>7. authority' \in [Requests -> {"ready", "spent", "revoked"}]
      /\ \A p \in Requests : authority'[p] = "spent" =>
            authority[p] = "spent" \/ (p = q /\ allowed)
  BY <1>1, <1>2 DEF SpendAuthority
<1>8. CASE ~allowed
  BY <1>1, <1>4, <1>5, <1>6, <1>7, <1>8, QuietKeeps
<1>9. CASE allowed
  <2>1. r \in Results /\ r.terminal = TRUE /\ r.ev = h /\ "live" \in Offers
    BY DEF Results, Evidence, Offers
  <2>2. Authored(calls', hooks', q, "live", r)
    <3>1. h \notin Calls
      BY CallersDiffer
    <3> QED
      BY <3>1, <2>1, <1>4 DEF Authored
  <2>3. claims[<<q, "live">>].state # "completed" \/ claims[<<q, "live">>].ev = r.ev
    BY <1>9 DEF MayFinalize
  <2>4. Commit(q, "live", r)
    BY <1>1, <1>9
  <2> HIDE DEF q, r, allowed
  <2>5. /\ claims' \in [Keys -> Claims] /\ KeepsCompleted
        /\ \A x \in Keys : ClaimSound(x)'
        /\ claims'[<<q, "live">>].state = "completed" /\ claims'[<<q, "live">>].ev = h
    BY <1>2, <1>5, <2>1, <2>2, <2>3, <2>4, CommitClaims
  <2>6. /\ resume' \in [Requests -> [offer : Offers, result : Results] \cup {None}]
        /\ told' \subseteq Evidence
        /\ operation' \in [Requests -> {"waiting", "ended"}]
        /\ \A p \in Requests : ResumeSound(p)'
        /\ ToldIsCompleted'
    BY <1>2, <1>5, <2>1, <2>2, <2>3, <2>4, CommitRest
  <2>7. SpentWithCompletion'
    <3> SUFFICES ASSUME NEW p \in Requests, authority'[p] = "spent"
                 PROVE  /\ claims'[<<p, "live">>].state = "completed"
                        /\ claims'[<<p, "live">>].ev \in Hooks
      BY DEF SpentWithCompletion
    <3>1. CASE p = q
      BY <3>1, <2>5
    <3>2. CASE authority[p] = "spent"
      <4>1. <<p, "live">> \in Keys
        BY DEF Keys, Offers
      <4> QED
        BY <3>2, <4>1, <2>5 DEF ContinuationInvariant, SpentWithCompletion, KeepsCompleted
    <3> QED
      BY <3>1, <3>2, <1>7
  <2>8. \A e \in Calls : CallSound(e)'
    BY <1>1, <1>5, CallsKept
  <2> QED
    BY <1>1, <1>2, <1>4, <1>6, <1>7, <2>5, <2>6, <2>7, <2>8 DEF ContinuationInvariant, ContTypeOK
<1> QED
  BY <1>8, <1>9

\* Nothing is claimed, told or spent at first.
LEMMA InitEstablishes == Init => ContinuationInvariant
<1> SUFFICES ASSUME Init  PROVE ContinuationInvariant
  OBVIOUS
<1>1. ContTypeOK
  BY DEF Init, ContTypeOK, Keys, Claims, NoClaim, Callers, Out
<1>2. \A k \in Keys : claims[k].state = "none"
  BY DEF Init, Keys, NoClaim
<1>3. (\A k \in Keys : ClaimSound(k)) /\ ToldIsCompleted
  BY <1>2 DEF ClaimSound, ToldIsCompleted, Completed, Init
<1>4. /\ \A c \in Calls : CallSound(c)
      /\ \A h \in Hooks : hooks[h].pc = "finalize" => hooks[h].req \in Requests
  BY DEF Init, CallSound, Out
<1>5. (\A q \in Requests : ResumeSound(q)) /\ SpentWithCompletion
  BY DEF Init, ResumeSound, SpentWithCompletion
<1> QED
  BY <1>1, <1>3, <1>4, <1>5 DEF ContinuationInvariant

\* Every step keeps the invariant and leaves completed claims alone.
LEMMA StepKeeps ==
    ASSUME ContinuationInvariant, [Next]_vars
    PROVE  ContinuationInvariant' /\ KeepsCompleted
<1>1. CASE UNCHANGED vars
  BY <1>1, UnchangedKeeps DEF vars, contVars
<1>2. CASE Outbox
  BY <1>2, UnchangedKeeps DEF Outbox, contVars
<1>3. ASSUME NEW c \in Calls, NEW q \in Requests, Begin(c, q)
      PROVE  ContinuationInvariant' /\ KeepsCompleted
  BY <1>3, BeginKeeps
<1>4. ASSUME NEW c \in Calls, Look(c) \/ Claim(c) \/ Finalize(c) \/ Replay(c)
      PROVE  ContinuationInvariant' /\ KeepsCompleted
  BY <1>4, LookKeeps, ClaimKeeps, FinalizeKeeps, ReplayKeeps
<1>5. ASSUME NEW c \in Calls, NEW terminal \in BOOLEAN, Run(c, terminal)
      PROVE  ContinuationInvariant' /\ KeepsCompleted
  BY <1>5, RunKeeps
<1>6. ASSUME NEW k \in Requests \X Offers, LeaseExpires(k)
      PROVE  ContinuationInvariant' /\ KeepsCompleted
  BY <1>6, LeaseExpiresKeeps DEF Keys
<1>7. ASSUME NEW h \in Hooks, NEW q \in Requests, HookLook(h, q)
      PROVE  ContinuationInvariant' /\ KeepsCompleted
  BY <1>7, HookLookKeeps
<1>8. ASSUME NEW h \in Hooks, NEW exact \in BOOLEAN, HookFinalize(h, exact)
      PROVE  ContinuationInvariant' /\ KeepsCompleted
  BY <1>8, HookFinalizeKeeps
<1>9. ASSUME NEW q \in Requests, HookLeaves(q)
      PROVE  ContinuationInvariant' /\ KeepsCompleted
  BY <1>9, UnchangedKeeps DEF HookLeaves
<1>10. ASSUME NEW q \in Requests, AuthorityRevoked(q)
       PROVE  ContinuationInvariant' /\ KeepsCompleted
  BY <1>10, AuthorityRevokedKeeps
<1> QED
  BY <1>1, <1>2, <1>3, <1>4, <1>5, <1>6, <1>7, <1>8, <1>9, <1>10 DEF Next

\* Every result in circulation is the one its author made: the inductive
\* invariant of continue_request_after_application and of the hook.
THEOREM InvariantHolds == Spec => []ContinuationInvariant
<1>1. ContinuationInvariant /\ [Next]_vars => ContinuationInvariant'
  BY StepKeeps
<1> QED
  BY <1>1, InitEstablishes, PTL DEF Spec

\* finalize_continuation_attempt never changes a completed claim, whoever calls
\* it and however late.
THEOREM CompletionIsFinal == Spec => CompletedIsFinal
<1>1. ContinuationInvariant /\ [Next]_vars =>
        [\A k \in Requests \X Offers :
           claims[k].state = "completed" => claims'[k] = claims[k]]_vars
  BY StepKeeps DEF KeepsCompleted, Keys
<1> QED
  BY <1>1, InvariantHolds, PTL DEF Spec, CompletedIsFinal

\* The exact authority a hook claims is spent only in the transaction that
\* records the hook's completion.
THEOREM AuthoritySpentWithCompletion == Spec => []SpentWithCompletion
<1>1. ContinuationInvariant => SpentWithCompletion
  BY DEF ContinuationInvariant
<1> QED
  BY <1>1, InvariantHolds, PTL

\* An outcome has one claim: its evidence names the request and the offer.
LEMMA OneClaimPerOutcome ==
    ASSUME ContinuationInvariant, NEW j \in Completed, NEW k \in Completed,
           claims[j].ev = claims[k].ev
    PROVE  j = k
<1> DEFINE e == claims[j].ev
<1>1. /\ e \in Calls \cup Hooks
      /\ Authored(calls, hooks, j[1], j[2], [terminal |-> TRUE, ev |-> e])
      /\ Authored(calls, hooks, k[1], k[2], [terminal |-> TRUE, ev |-> e])
  BY DEF Completed, ContinuationInvariant, ClaimSound, Evidence
<1>2. j[1] = k[1] /\ j[2] = k[2]
  BY <1>1 DEF Authored
<1>3. j \in Keys /\ k \in Keys
  BY DEF Completed
<1> QED
  BY <1>2, <1>3 DEF Keys

\* The terminal events in the outbox and the completed claims correspond one to
\* one: guard_continuation_effects neither misses nor repeats an outcome.
THEOREM OutcomesAreUnique == Spec => []OneOutcome
<1>1. ASSUME ContinuationInvariant  PROVE OneOutcome
  <2>1. /\ DOMAIN claims = Keys
        /\ {k \in DOMAIN claims : claims[k].state = "completed"} = Completed
    BY <1>1 DEF ContinuationInvariant, ContTypeOK, Completed
  <2>2. told = {claims[k].ev : k \in Completed}
    BY <1>1 DEF ContinuationInvariant, ToldIsCompleted
  <2> DEFINE f == [k \in Completed |-> claims[k].ev]
  <2>3. f \in Bijection(Completed, told)
    <3>1. f \in Injection(Completed, told)
      BY <1>1, <2>2, OneClaimPerOutcome DEF Injection, IsInjective
    <3>2. f \in Surjection(Completed, told)
      BY <2>2 DEF Surjection
    <3> QED
      BY <3>1, <3>2 DEF Bijection
  <2>4. IsFiniteSet(Completed)
    <3>1. IsFiniteSet({"live"} \cup {"later"})
      BY FS_Singleton, FS_Union
    <3>2. IsFiniteSet(Keys)
      <4>1. Offers = {"live"} \cup {"later"}
        BY DEF Offers
      <4> QED
        BY <3>1, <4>1, FS_Product, OutboxConstants DEF Keys
    <3> QED
      BY <3>2, FS_Subset DEF Completed
  <2>5. ExistsBijection(Completed, told)
    BY <2>3 DEF ExistsBijection
  <2>6. Cardinality(told) = Cardinality(Completed)
    BY <2>4, <2>5, FS_Bijection
  <2> QED
    BY <2>1, <2>2, <2>6 DEF OneOutcome
<1> QED
  BY <1>1, InvariantHolds, PTL
=============================================================================
