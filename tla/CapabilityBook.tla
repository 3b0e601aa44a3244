--------------------------- MODULE CapabilityBook ---------------------------
(***************************************************************************)
(* What the workflow-capability store promises its callers: a book in      *)
(* which every issue, claim and revocation happens at one instant and is   *)
(* never undone.  There are no processes, no lock, no keychain, no crash   *)
(* and no lost write here; WorkflowAuthority, which has all of them, is    *)
(* shown to implement this specification.                                  *)
(***************************************************************************)
EXTENDS CapabilityRecords

VARIABLE book

\* Time never runs backwards in the book.
NotBeforeLast(t) ==
    book.ledger # << >> => book.ledger[Len(book.ledger)].at <= t

IssueEntry(c, t) ==
    /\ NotBeforeLast(t)
    /\ InWindow(c, t)
    /\ book.rows[c] = None
    /\ book' = IssueTx(book, c, t)

ClaimEntry(c, i, t) ==
    /\ NotBeforeLast(t)
    /\ InWindow(c, t)
    /\ book.rows[c] # None
    /\ ~ book.rows[c].revoked
    /\ book.rows[c].used < MaxUses[c]
    /\ book.receipts[i] = None
    /\ book' = ClaimTx(book, c, i, t)

RevokeEntry(c, t) ==
    /\ NotBeforeLast(t)
    /\ book.rows[c] # None
    /\ ~ book.rows[c].revoked
    /\ book' = RevokeTx(book, c, t)

Init == book = EmptyDb

Next == \E c \in Caps, t \in Times :
            \/ IssueEntry(c, t)
            \/ \E i \in Invocations : ClaimEntry(c, i, t)
            \/ RevokeEntry(c, t)

Spec == Init /\ [][Next]_book

----------------------------------------------------------------------------
TypeOK == book \in Db

\* A capability is used at most max_uses times, each receipt carries its own
\* use number, and no receipt outlives the row that paid for it.
UsesAccounted ==
    /\ \A c \in Caps : book.rows[c] # None => book.rows[c].used <= MaxUses[c]
    /\ \A i \in Invocations : book.receipts[i] # None =>
          LET r == book.receipts[i] IN
            /\ book.rows[r.cap] # None
            /\ r.use \in 1 .. book.rows[r.cap].used
    /\ \A i, j \in Invocations :
          (book.receipts[i] # None /\ book.receipts[i] = book.receipts[j]) => i = j

\* A receipt once written stays as it is, and a revoked capability gets no more.
ReceiptsPermanent ==
    [][/\ \A i \in Invocations :
             book.receipts[i] # None => book'.receipts[i] = book.receipts[i]
       /\ \A i \in Invocations, c \in Caps :
             (/\ book.rows[c] # None
              /\ book.rows[c].revoked
              /\ book'.receipts[i] # None
              /\ book'.receipts[i].cap = c)
                => book.receipts[i] = book'.receipts[i]]_book
============================================================================
