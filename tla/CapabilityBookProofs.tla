------------------------ MODULE CapabilityBookProofs ------------------------
(***************************************************************************)
(* Theorems about the abstract book: every use is accounted for, and       *)
(* receipts and revocations are permanent.                                 *)
(***************************************************************************)
EXTENDS CapabilityBook, CapabilityRecordsProofs

\* The tables stay well typed.
THEOREM BookTyped == Spec => []TypeOK
<1>1. Init => TypeOK
  BY EmptyDbType DEF Init, TypeOK
<1>2. TypeOK /\ [Next]_book => TypeOK'
  <2> SUFFICES ASSUME TypeOK, [Next]_book PROVE TypeOK'
    OBVIOUS
  <2>1. CASE UNCHANGED book
    BY <2>1 DEF TypeOK
  <2>2. ASSUME NEW c \in Caps, NEW t \in Times, IssueEntry(c, t) PROVE TypeOK'
    BY <2>2, IssueTxFacts DEF TypeOK, IssueEntry
  <2>3. ASSUME NEW c \in Caps, NEW t \in Times, NEW i \in Invocations,
               ClaimEntry(c, i, t)
        PROVE  TypeOK'
    BY <2>3, ClaimTxFacts DEF TypeOK, ClaimEntry
  <2>4. ASSUME NEW c \in Caps, NEW t \in Times, RevokeEntry(c, t) PROVE TypeOK'
    BY <2>4, RevokeTxFacts DEF TypeOK, RevokeEntry
  <2>5. QED
    BY <2>1, <2>2, <2>3, <2>4 DEF Next
<1>3. QED
  BY <1>1, <1>2, PTL DEF Spec

\* An entry adds to the book what its transaction adds, and keeps the accounts.
LEMMA EntryKeepsAccounts ==
    ASSUME TypeOK, UsesAccounted, [Next]_book
    PROVE  UsesAccounted'
<1> USE DEF TypeOK
<1>0. /\ book.rows \in [Caps -> Row \cup {None}]
      /\ book.receipts \in [Invocations -> Receipt \cup {None}]
  BY DEF Db
<1>1. CASE UNCHANGED book
  BY <1>1 DEF UsesAccounted
<1>2. ASSUME NEW c \in Caps, NEW t \in Times, IssueEntry(c, t)
      PROVE  UsesAccounted'
  <2>1. /\ book'.receipts = book.receipts
        /\ book'.rows = [book.rows EXCEPT ![c] = [used |-> 0, revoked |-> FALSE]]
        /\ book.rows[c] = None
    BY <1>2, IssueTxFacts DEF IssueEntry
  <2>2. \A i \in Invocations : book.receipts[i] # None => book.receipts[i].cap # c
    BY <2>1 DEF UsesAccounted
  <2>3. [used |-> 0, revoked |-> FALSE] \in Row
    BY DEF Row
  <2>4. MaxUses[c] \in Nat
    BY MaxUsesAssumption
  <2>5. QED
    BY <1>0, <2>1, <2>2, <2>3, <2>4, NoneAssumption DEF UsesAccounted, Receipt
<1>3. ASSUME NEW c \in Caps, NEW t \in Times, NEW i \in Invocations,
             ClaimEntry(c, i, t)
      PROVE  UsesAccounted'
  <2> DEFINE use == book.rows[c].used + 1
             rc == [cap |-> c, use |-> use]
             rw == [used |-> use, revoked |-> FALSE]
  <2>1. /\ book'.receipts = [book.receipts EXCEPT ![i] = rc]
        /\ book'.rows = [book.rows EXCEPT ![c] = rw]
        /\ book.rows[c] # None
        /\ book.receipts[i] = None
        /\ book.rows[c].used < MaxUses[c]
        /\ book.rows[c].used \in Nat
        /\ rc \in Receipt
    BY <1>3, ClaimTxFacts DEF ClaimEntry
  <2>2. rw \in Row /\ MaxUses[c] \in Nat
    BY <2>1, MaxUsesAssumption DEF Row
  <2>3. \A j \in Invocations : book.receipts[j] # None => book.receipts[j] # rc
    BY <2>1 DEF UsesAccounted
  <2> HIDE DEF use
  <2>4. rc.cap = c /\ rc.use = use /\ rw.used = use
    OBVIOUS
  <2>5. use \in Nat /\ use >= 1 /\ use <= MaxUses[c] /\ book.rows[c].used < use
    BY <2>1, <2>2 DEF use
  <2> HIDE DEF rc, rw
  <2>6. \A b \in Caps : book'.rows[b] # None => book'.rows[b].used <= MaxUses[b]
    BY <1>0, <2>1, <2>2, <2>4, <2>5 DEF UsesAccounted
  <2>7. ASSUME NEW j \in Invocations, book'.receipts[j] # None
        PROVE  /\ book'.rows[book'.receipts[j].cap] # None
               /\ book'.receipts[j].use \in 1 .. book'.rows[book'.receipts[j].cap].used
    <3>1. CASE j = i
      BY <1>0, <2>1, <2>2, <2>4, <2>5, <3>1, NoneAssumption
    <3>2. CASE j # i
      <4>1. book'.receipts[j] = book.receipts[j]
        BY <1>0, <2>1, <3>2
      <4> DEFINE r == book.receipts[j]
      <4>2. /\ book.rows[r.cap] # None
            /\ r.use \in 1 .. book.rows[r.cap].used
            /\ r.cap \in Caps
            /\ r.use \in Nat
        BY <1>0, <2>7, <4>1 DEF UsesAccounted, Receipt
      <4>3. CASE r.cap = c
        BY <1>0, <2>1, <2>2, <2>4, <2>5, <4>1, <4>2, <4>3, NoneAssumption
      <4>4. CASE r.cap # c
        BY <1>0, <2>1, <4>1, <4>2, <4>4
      <4>5. QED
        BY <4>3, <4>4
    <3>3. QED
      BY <3>1, <3>2
  <2>8. \A j, k \in Invocations :
           (book'.receipts[j] # None /\ book'.receipts[j] = book'.receipts[k]) => j = k
    BY <1>0, <2>1, <2>3 DEF UsesAccounted
  <2>9. QED
    BY <2>6, <2>7, <2>8 DEF UsesAccounted
<1>4. ASSUME NEW c \in Caps, NEW t \in Times, RevokeEntry(c, t)
      PROVE  UsesAccounted'
  <2> DEFINE rw == [used |-> book.rows[c].used, revoked |-> TRUE]
  <2>1. /\ book'.receipts = book.receipts
        /\ book'.rows = [book.rows EXCEPT ![c] = rw]
        /\ book.rows[c] # None
        /\ book.rows[c].used \in Nat
    BY <1>4, RevokeTxFacts DEF RevokeEntry
  <2>2. rw \in Row /\ rw.used = book.rows[c].used
    BY <2>1 DEF Row
  <2> HIDE DEF rw
  <2>3. QED
    BY <1>0, <2>1, <2>2, NoneAssumption DEF UsesAccounted, Receipt
<1>5. QED
  BY <1>1, <1>2, <1>3, <1>4 DEF Next

\* Every use of every capability is paid for, once, within max_uses.
THEOREM BookUsesAccounted == Spec => []UsesAccounted
<1>1. Init => UsesAccounted
  BY DEF Init, EmptyDb, UsesAccounted
<1>2. QED
  BY <1>1, EntryKeepsAccounts, BookTyped, PTL DEF Spec

\* Receipts are permanent and a revoked capability gets no further one.
THEOREM BookReceiptsPermanent == Spec => ReceiptsPermanent
<1> DEFINE Keeps ==
      /\ \A i \in Invocations :
            book.receipts[i] # None => book'.receipts[i] = book.receipts[i]
      /\ \A i \in Invocations, c \in Caps :
            (/\ book.rows[c] # None
             /\ book.rows[c].revoked
             /\ book'.receipts[i] # None
             /\ book'.receipts[i].cap = c)
               => book.receipts[i] = book'.receipts[i]
<1>1. ASSUME TypeOK, [Next]_book PROVE [Keeps]_book
  <2>6. book \in Db
    BY <1>1 DEF TypeOK
  <2>0. book.receipts \in [Invocations -> Receipt \cup {None}]
    BY <2>6 DEF Db
  <2>1. CASE UNCHANGED book
    BY <2>1
  <2>2. ASSUME NEW c \in Caps, NEW t \in Times, IssueEntry(c, t) PROVE Keeps
    <3>1. book'.receipts = book.receipts
      BY <2>2 DEF IssueEntry, IssueTx
    <3>2. QED
      BY <3>1, Zenon
  <2>3. ASSUME NEW c \in Caps, NEW t \in Times, NEW i \in Invocations,
               ClaimEntry(c, i, t)
        PROVE  Keeps
    <3> DEFINE rc == [cap |-> c, use |-> book.rows[c].used + 1]
    <3>1. /\ book'.receipts = [book.receipts EXCEPT ![i] = rc]
          /\ book.receipts[i] = None
          /\ rc.cap = c
      BY <2>3 DEF ClaimEntry, ClaimTx
    <3>2. ~ book.rows[c].revoked
      BY <2>3 DEF ClaimEntry
    <3> HIDE DEF rc
    <3>3. \A j \in Invocations :
             book'.receipts[j] = IF j = i THEN rc ELSE book.receipts[j]
      BY <2>0, <3>1
    <3>4. QED
      BY <3>1, <3>2, <3>3, Zenon
  <2>4. ASSUME NEW c \in Caps, NEW t \in Times, RevokeEntry(c, t) PROVE Keeps
    <3>1. book'.receipts = book.receipts
      BY <2>4 DEF RevokeEntry, RevokeTx
    <3>2. QED
      BY <3>1, Zenon
  <2>5. QED
    BY <1>1, <2>1, <2>2, <2>3, <2>4 DEF Next
<1>2. QED
  BY <1>1, BookTyped, PTL DEF Spec, ReceiptsPermanent
============================================================================
