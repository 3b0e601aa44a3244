--------------------------- MODULE MCContinuation ---------------------------
(***************************************************************************)
(* Small instances of Continuation and its outbox.                         *)
(***************************************************************************)
EXTENDS Continuation

\* One account on two machines, and another account.
ThreeLogins == {[acct |-> "a", mach |-> "m"], [acct |-> "a", mach |-> "n"],
                [acct |-> "b", mach |-> "m"]}

\* The two machines of the first account are alike, and moves to and away from
\* the second account both occur from these.
NobodyOrFirst == {None, [acct |-> "a", mach |-> "m"]}

\* Two troubles with a repair anywhere between them; a trouble in the middle of
\* a call; two calls and a hook, with no trouble at all.
Few == {[troubles |-> 2, callers |-> 0, repairs |-> 1],
        [troubles |-> 1, callers |-> 1, repairs |-> 0],
        [troubles |-> 0, callers |-> 3, repairs |-> 0]}

\* Whether a hook waits matters only to callers.
ReviewInit == Init /\ (budget.callers = 0 => waiter = {})
ReviewSpec == ReviewInit /\ [][Next]_vars /\ Fairness
=============================================================================
