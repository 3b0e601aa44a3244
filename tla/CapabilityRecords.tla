------------------------- MODULE CapabilityRecords -------------------------
(***************************************************************************)
(* The rows that HOL Guard keeps for signed workflow capabilities, and the *)
(* three transactions that write them.  One value of Db stands for the     *)
(* SQLite tables of one guard home:                                        *)
(*                                                                         *)
(*   rows      guard_workflow_capabilities joined with the signed authority*)
(*             state (both are written in one transaction, from one value) *)
(*   receipts  guard_workflow_capability_receipts, keyed by invocation_id, *)
(*             which the schema declares UNIQUE                            *)
(*   ledger    guard_workflow_capability_authority_transitions, in order   *)
(*                                                                         *)
(* A transition's SHA-256 covers the transition and the digest before it,  *)
(* so the digest of the last one (the "head") identifies the whole ledger. *)
(* The model uses the ledger itself as its head: hashing is injective.     *)
(***************************************************************************)
EXTENDS Integers, Sequences, FiniteSets

CONSTANTS
    Caps,         \* capability ids; each one names one signed claim
    Invocations,  \* invocation ids callers present
    MaxUses,      \* claim.max_uses of each capability
    NotBefore,    \* claim.not_before of each capability
    ExpiresAt,    \* claim.expires_at of each capability
    Times,        \* the timestamps the wall clock can show
    None          \* Python's None / a row that does not exist

ASSUME MaxUsesAssumption == MaxUses \in [Caps -> Nat \ {0}]
ASSUME WindowAssumption == /\ NotBefore \in [Caps -> Nat]
                           /\ ExpiresAt \in [Caps -> Nat]
ASSUME TimesAssumption == Times \subseteq Nat

Kinds == {"issued", "claimed", "revoked"}

Row == [used : Nat, revoked : BOOLEAN]
Receipt == [cap : Caps, use : Nat]
Transition == [kind : Kinds, cap : Caps, use : Nat, at : Times]
Ledger == Seq(Transition)

Db == [rows     : [Caps -> Row \cup {None}],
       receipts : [Invocations -> Receipt \cup {None}],
       ledger   : Ledger]

ASSUME NoneAssumption == /\ None \notin Row
                         /\ None \notin Receipt
                         /\ None \notin Ledger

EmptyDb == [rows     |-> [c \in Caps |-> None],
            receipts |-> [i \in Invocations |-> None],
            ledger   |-> << >>]

\* Some workflow capability, transition or event is stored.
HasAuthorityData(d) ==
    \/ d.ledger # << >>
    \/ \E c \in Caps : d.rows[c] # None

\* The claim may be used now: the window is closed on the left, open on the right.
InWindow(c, t) == NotBefore[c] <= t /\ t < ExpiresAt[c]

----------------------------------------------------------------------------
(* The consistency checks that every read of a stored capability repeats.  *)

\* The places of a capability's transitions in the ledger.
TransitionsOf(d, c) == {k \in DOMAIN d.ledger : d.ledger[k].cap = c}

ReceiptsOf(d, c) ==
    {i \in Invocations : d.receipts[i] # None /\ d.receipts[i].cap = c}

\* Receipts number the uses 1, 2, ... without gap, and the use high water is
\* their count.
ReceiptHistoryValid(d, c) ==
    /\ {d.receipts[i].use : i \in ReceiptsOf(d, c)} = 1 .. d.rows[c].used
    /\ Cardinality(ReceiptsOf(d, c)) = d.rows[c].used

\* The capability's transitions are one issue, then the claims in use order,
\* then at most one revocation, which is last and present iff the row says so.
TransitionProjectionValid(d, c) ==
    LET ts     == TransitionsOf(d, c)
        claims == {k \in ts : d.ledger[k].kind = "claimed"}
    IN  /\ ts # {}
        /\ \A k \in ts : (d.ledger[k].kind = "issued") <=> (\A j \in ts : k <= j)
        /\ Cardinality(claims) = d.rows[c].used
        /\ \A k \in claims :
              d.ledger[k].use = Cardinality({j \in claims : j <= k})
        /\ \A k \in ts : d.ledger[k].kind = "revoked" =>
                             d.rows[c].revoked /\ \A j \in ts : j <= k
        /\ d.rows[c].revoked => \E k \in ts : d.ledger[k].kind = "revoked"

AuthorityValid(d, c) ==
    ReceiptHistoryValid(d, c) /\ TransitionProjectionValid(d, c)

----------------------------------------------------------------------------
(* The transactions.  Each one appends the transition it is given.         *)

IssuedTransition(c, t) ==
    [kind |-> "issued", cap |-> c, use |-> 0, at |-> t]

ClaimedTransition(d, c, t) ==
    [kind |-> "claimed", cap |-> c, use |-> d.rows[c].used + 1, at |-> t]

RevokedTransition(c, t) ==
    [kind |-> "revoked", cap |-> c, use |-> 0, at |-> t]

IssueTx(d, c, t) ==
    [rows     |-> [d.rows EXCEPT ![c] = [used |-> 0, revoked |-> FALSE]],
     receipts |-> d.receipts,
     ledger   |-> Append(d.ledger, IssuedTransition(c, t))]

ClaimTx(d, c, i, t) ==
    LET use == d.rows[c].used + 1
    IN  [rows     |-> [d.rows EXCEPT ![c] = [used |-> use, revoked |-> FALSE]],
         receipts |-> [d.receipts EXCEPT ![i] = [cap |-> c, use |-> use]],
         ledger   |-> Append(d.ledger, ClaimedTransition(d, c, t))]

RevokeTx(d, c, t) ==
    [rows     |-> [d.rows EXCEPT ![c] = [used    |-> d.rows[c].used,
                                          revoked |-> TRUE]],
     receipts |-> d.receipts,
     ledger   |-> Append(d.ledger, RevokedTransition(c, t))]
============================================================================
