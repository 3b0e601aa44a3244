------------------------- MODULE ReviewOutboxProofs -------------------------
(***************************************************************************)
(* What holds of the review outbox for any number of requests, logins,     *)
(* refreshers and callers, under every step of Continuation's              *)
(* specification.                                                          *)
(*                                                                         *)
(* None of NothingLost, OrderKept and ConsentedOnly is inductive.  The     *)
(* worker and the refreshers of bindings name rows by numbers they read in *)
(* an earlier transaction, so one has to know that such a number still     *)
(* names the row of the same event, bound if it was bound, or none         *)
(* (InStep), although rows are renumbered and rebound meanwhile; that      *)
(* every number was given out once (Numbered); that what is marked was     *)
(* delivered or replaced (Acknowledged); and that a row bound to nobody    *)
(* belongs to a request bound to nobody (HeldUnbound), which is what makes *)
(* a first binding the first.  These speak of a database d, so that a      *)
(* transaction put together from several pieces is proved piece by piece:  *)
(* each operator of ReviewOutbox takes a Sound database to a Sound one.    *)
(***************************************************************************)
EXTENDS ContinuationProofs, WellFoundedInduction

----------------------------------------------------------------------------
(* Numbers.                                                                *)

\* A set of numbers that is not empty has a least one.
LEMMA LeastNumber ==
    ASSUME NEW T \in SUBSET Nat, T # {}
    PROVE  \E m \in T : \A t \in T : m <= t
<1> DEFINE R == OpToRel(<, Nat)
<1>1. IsWellFoundedOn(R, Nat)
  BY NatLessThanWellFounded
<1>2. PICK m \in T : \A t \in T : ~(<<t, m>> \in R)
  <2> HIDE DEF R
  <2>1. QED
    BY <1>1, WFMin
<1>3. \A t \in T : ~(t < m)
  BY <1>2 DEF OpToRel
<1>4. QED
  BY <1>3

\* A set of numbers that is not empty and has a bound has a greatest one.
LEMMA GreatestNumber ==
    ASSUME NEW T \in SUBSET Nat, T # {}, NEW n \in Nat, \A t \in T : t <= n
    PROVE  Max(T) \in T /\ \A t \in T : t <= Max(T)
<1> DEFINE B == {u \in Nat : \A t \in T : t <= u}
<1>1. PICK m \in B : \A u \in B : m <= u
  BY LeastNumber
<1>2. m \in T
  <2>1. SUFFICES ASSUME m \notin T PROVE FALSE
    OBVIOUS
  <2>2. PICK t0 \in T : TRUE
    OBVIOUS
  <2>3. m # 0
    BY <2>1, <2>2, <1>1
  <2>4. m - 1 \in B
    BY <2>1, <2>3, <1>1
  <2>5. QED
    BY <2>4, <1>1
<1>3. \A t \in T : t <= m
  BY <1>1
<1>4. \E x \in T : \A y \in T : x >= y
  BY <1>2, <1>3
<1>5. Max(T) \in T /\ \A y \in T : Max(T) >= y
  BY <1>4 DEF Max
<1>6. QED
  BY <1>5

\* The greatest number is the one that bounds the others.
LEMMA MaxIs ==
    ASSUME NEW T \in SUBSET Nat, NEW n \in T, \A t \in T : t <= n
    PROVE  Max(T) = n
<1>1. n \in Nat /\ T # {}
  OBVIOUS
<1>2. Max(T) \in T /\ \A t \in T : t <= Max(T)
  BY <1>1, GreatestNumber
<1>3. Max(T) <= n /\ n <= Max(T) /\ Max(T) \in Nat
  BY <1>2
<1>4. QED
  BY <1>1, <1>3

----------------------------------------------------------------------------
(* The inductive invariant.                                                *)

\* The tables, well-typed.
Databases == [rows : SUBSET Rows, seq : Nat,
              ledger : [Requests -> [last : Nat, bind : Bindings \cup {None}]],
              cursor : [Bindings -> Nat]]

\* Every number was given out once, in the stream and per request.
Numbered(d) ==
    /\ \A r \in d.rows : r.seq <= d.seq /\ 1 <= r.rseq /\ r.rseq <= d.ledger[r.req].last
    /\ \A r, x \in d.rows : r.seq = x.seq \/ EventOf(r) = EventOf(x) => r = x

\* A row nobody is bound to belongs to a request nobody is bound to.
HeldUnbound(d) ==
    \A r \in d.rows : r.bind = None => r.status = "unbound" /\ d.ledger[r.req].bind = None

\* OrderKept and NothingLost of a database d, where done has been delivered
\* or replaced.
InOrder(d) ==
    \A r, x \in Unacked(d) : r.req = x.req /\ r.rseq < x.rseq => r.seq < x.seq

Acknowledged(d, done) == \A r \in d.rows : r.acked => EventOf(r) \in done

Kept(d, done) ==
    \A q \in Requests : \A n \in 1 .. d.ledger[q].last :
        (\E r \in Unacked(d) : EventOf(r) = <<q, n>>) \/ <<q, n>> \in done

\* A number that is remembered, when it still names a row, names the row of the
\* same event, and one that was bound still is.
InStep(d, S) ==
    \A s \in S : /\ s.seq <= d.seq
                 /\ \A r \in d.rows : r.seq = s.seq =>
                      EventOf(r) = EventOf(s) /\ (s.bind # None => r.bind # None)

\* done: delivered or replaced; S: what the worker remembers.
Sound(d, done, S) ==
    /\ d \in Databases /\ S \subseteq Rows
    /\ Numbered(d) /\ HeldUnbound(d) /\ InOrder(d)
    /\ Acknowledged(d, done) /\ Kept(d, done) /\ InStep(d, S)

\* Requests and rows are bound to accounts in cons only.
Granted(d, cons) ==
    /\ \A q \in Requests : d.ledger[q].bind # None => d.ledger[q].bind.acct \in cons[q]
    /\ \A r \in d.rows : r.bind # None => r.bind.acct \in cons[r.req]

----------------------------------------------------------------------------
(* Writing events.                                                         *)

\* The next AUTOINCREMENT number is one more than the counter.
LEMMA NextSeqIs ==
    ASSUME NEW d \in Databases, Numbered(d)
    PROVE  NextSeq(d) = d.seq + 1
<1>1. d.seq \in Nat /\ SeqsOf(d.rows) \subseteq Nat /\ \A n \in SeqsOf(d.rows) : n <= d.seq
  BY DEF Databases, Rows, SeqsOf, Numbered
<1>2. Max({d.seq} \cup SeqsOf(d.rows)) = d.seq
  BY <1>1, MaxIs
<1>3. QED
  BY <1>1, <1>2 DEF NextSeq

\* One transaction gives its rows different places.
LEMMA PlacesFacts ==
    ASSUME NEW Q, IsFiniteSet(Q)
    PROVE  /\ Cardinality(Q) \in Nat
           /\ Places(Q) \in [Q -> 1 .. Cardinality(Q)]
           /\ \A p, q \in Q : p # q => Places(Q)[p] # Places(Q)[q]
<1>1. Cardinality(Q) \in Nat /\ ExistsBijection(1 .. Cardinality(Q), Q)
  BY FS_CardinalityType
<1>2. PICK f \in Bijection(Q, 1 .. Cardinality(Q)) : TRUE
  BY <1>1, Fun_ExistsBijSymmetric DEF ExistsBijection
<1>3. \E g \in [Q -> 1 .. Cardinality(Q)] : \A p, q \in Q : p # q => g[p] # g[q]
  <2>1. f \in [Q -> 1 .. Cardinality(Q)] /\ \A a, b \in Q : f[a] = f[b] => a = b
    BY <1>2, Fun_BijectionProperties
  <2>2. QED
    BY <2>1
<1>4. QED
  BY <1>1, <1>3 DEF Places

\* What is written and how.
Kinds == {"created", "refreshed", "resolved", "snapshot", "terminal"}
Hows(d, Q) ==
    {how \in [Q -> [bind : Bindings \cup {None}, status : {"ready", "unbound", "moved"}]] :
       \A q \in Q : how[q].bind = None => how[q].status = "unbound" /\ d.ledger[q].bind = None}

\* The row of q, where p says in which place.
NewRow(d, how, kind, p, q) ==
    [seq |-> d.seq + p[q], req |-> q, rseq |-> d.ledger[q].last + 1, kind |-> kind,
     bind |-> how[q].bind, status |-> how[q].status, acked |-> FALSE, due |-> TRUE]

\* What Insert does, once the numbers it takes are known.
LEMMA InsertShape ==
    ASSUME NEW d \in Databases, Numbered(d), NEW Q \in SUBSET Requests,
           NEW how \in Hows(d, Q), NEW kind \in Kinds
    PROVE  /\ Insert(d, how, kind) \in Databases
           /\ Insert(d, how, kind).seq = d.seq + Cardinality(Q)
           /\ Insert(d, how, kind).rows =
                d.rows \cup {NewRow(d, how, kind, Places(Q), q) : q \in Q}
           /\ \A q \in Requests : Insert(d, how, kind).ledger[q] =
                [last |-> IF q \in Q THEN d.ledger[q].last + 1 ELSE d.ledger[q].last,
                 bind |-> d.ledger[q].bind]
<1>1. IsFiniteSet(Q)
  BY OutboxConstants, FS_Subset
<1>2. /\ Cardinality(Q) \in Nat /\ Places(Q) \in [Q -> 1 .. Cardinality(Q)]
  BY <1>1, PlacesFacts
<1>3. DOMAIN how = Q /\ \A q \in Q : how[q].bind \in Bindings \cup {None}
                              /\ how[q].status \in {"ready", "unbound", "moved"}
  BY DEF Hows
<1>4. d.seq \in Nat /\ NextSeq(d) = d.seq + 1
  BY NextSeqIs DEF Databases
<1>5. \A q \in Q : d.seq + 1 + Places(Q)[q] - 1 = d.seq + Places(Q)[q]
  BY <1>2, <1>4
<1>6. d.seq + 1 + Cardinality(Q) - 1 = d.seq + Cardinality(Q)
  BY <1>2, <1>4
<1> DEFINE new == {NewRow(d, how, kind, Places(Q), q) : q \in Q}
           led == [q \in Requests |->
                     IF q \in Q THEN [d.ledger[q] EXCEPT !.last = @ + 1] ELSE d.ledger[q]]
<1>7. Insert(d, how, kind) = [d EXCEPT !.rows = @ \cup new, !.seq = d.seq + Cardinality(Q),
                                       !.ledger = led]
  <2> DEFINE raw(q) == [seq |-> NextSeq(d) + Places(Q)[q] - 1,
                        req |-> q, rseq |-> d.ledger[q].last + 1, kind |-> kind,
                        bind |-> how[q].bind, status |-> how[q].status,
                        acked |-> FALSE, due |-> TRUE]
  <2>1. Insert(d, how, kind) =
          [d EXCEPT !.rows = @ \cup {raw(q) : q \in Q},
                    !.seq = NextSeq(d) + Cardinality(Q) - 1, !.ledger = led]
    BY <1>3 DEF Insert
  <2>2. \A q \in Q : raw(q) = NewRow(d, how, kind, Places(Q), q)
    BY <1>4, <1>5 DEF NewRow
  <2> HIDE DEF raw
  <2>3. {raw(q) : q \in Q} = new
    BY <2>2
  <2>4. QED
    BY <1>4, <1>6, <2>1, <2>3
<1>8. new \subseteq Rows
  <2>1. SUFFICES ASSUME NEW q \in Q PROVE NewRow(d, how, kind, Places(Q), q) \in Rows
    OBVIOUS
  <2>2. Places(Q)[q] \in Nat /\ d.ledger[q].last \in Nat
    BY <1>2 DEF Databases
  <2>3. QED
    BY <1>3, <1>4, <2>2 DEF Rows, Kinds, NewRow
<1>9. /\ led \in [Requests -> [last : Nat, bind : Bindings \cup {None}]]
      /\ \A q \in Requests : led[q] =
           [last |-> IF q \in Q THEN d.ledger[q].last + 1 ELSE d.ledger[q].last,
            bind |-> d.ledger[q].bind]
  BY DEF Databases
<1> HIDE DEF new, led
<1>10. /\ Insert(d, how, kind).rows = d.rows \cup new
       /\ Insert(d, how, kind).seq = d.seq + Cardinality(Q)
       /\ Insert(d, how, kind).ledger = led
       /\ Insert(d, how, kind) \in Databases
  <2>1. /\ d.rows \cup new \in SUBSET Rows /\ d.seq + Cardinality(Q) \in Nat
        /\ led \in [Requests -> [last : Nat, bind : Bindings \cup {None}]]
    BY <1>2, <1>4, <1>8, <1>9 DEF Databases
  <2>2. QED
    BY <1>7, <2>1 DEF Databases
<1>11. QED
  BY <1>9, <1>10 DEF new

\* Events written in one transaction keep the database sound.
LEMMA InsertSound ==
    ASSUME NEW d, NEW done, NEW S, Sound(d, done, S), NEW Q \in SUBSET Requests,
           NEW how \in Hows(d, Q), NEW kind \in Kinds
    PROVE  Sound(Insert(d, how, kind), done, S)
<1> DEFINE e == Insert(d, how, kind)
           N(q) == NewRow(d, how, kind, Places(Q), q)
<1>1. d \in Databases /\ Numbered(d)
  BY DEF Sound
<1>2. /\ e \in Databases
      /\ e.seq = d.seq + Cardinality(Q)
      /\ e.rows = d.rows \cup {N(q) : q \in Q}
      /\ \A q \in Requests : e.ledger[q] =
           [last |-> IF q \in Q THEN d.ledger[q].last + 1 ELSE d.ledger[q].last,
            bind |-> d.ledger[q].bind]
  BY <1>1, InsertShape
<1>3. /\ Cardinality(Q) \in Nat /\ Places(Q) \in [Q -> 1 .. Cardinality(Q)]
      /\ \A p, q \in Q : p # q => Places(Q)[p] # Places(Q)[q]
  BY PlacesFacts, OutboxConstants, FS_Subset
<1>4. \A r \in d.rows : /\ r.seq \in Nat /\ r.rseq \in Nat /\ r.req \in Requests
                        /\ r.seq <= d.seq /\ 1 <= r.rseq /\ r.rseq <= d.ledger[r.req].last
  BY <1>1 DEF Databases, Rows, Numbered
<1>5. d.seq \in Nat /\ e.seq \in Nat /\ d.seq <= e.seq
  BY <1>1, <1>2, <1>3 DEF Databases
<1>6. \A q \in Requests : d.ledger[q].last \in Nat
  BY <1>1 DEF Databases
<1>7. \A q \in Q : /\ N(q).seq \in Nat /\ N(q).seq > d.seq /\ N(q).seq <= e.seq
                   /\ N(q).req = q /\ N(q).rseq = d.ledger[q].last + 1
                   /\ N(q).bind = how[q].bind /\ N(q).status = how[q].status
                   /\ N(q).acked = FALSE
                   /\ EventOf(N(q)) = <<q, d.ledger[q].last + 1>>
  BY <1>2, <1>3, <1>5 DEF NewRow, EventOf
<1>8. \A p, q \in Q : N(p).seq = N(q).seq => p = q
  BY <1>3, <1>5 DEF NewRow
<1>9. \A q \in Requests : /\ e.ledger[q].bind = d.ledger[q].bind
                          /\ e.ledger[q].last \in Nat
                          /\ d.ledger[q].last <= e.ledger[q].last
                          /\ q \in Q => e.ledger[q].last = d.ledger[q].last + 1
                          /\ q \notin Q => e.ledger[q].last = d.ledger[q].last
  <2>1. SUFFICES ASSUME NEW q \in Requests
                 PROVE  /\ e.ledger[q].bind = d.ledger[q].bind
                        /\ e.ledger[q].last =
                             IF q \in Q THEN d.ledger[q].last + 1 ELSE d.ledger[q].last
    BY <1>6
  <2>2. e.ledger[q] = [last |-> IF q \in Q THEN d.ledger[q].last + 1 ELSE d.ledger[q].last,
                       bind |-> d.ledger[q].bind]
    BY <1>2
  <2> HIDE DEF e
  <2>3. QED
    BY <2>2
<1>10. /\ \A r \in e.rows : r \in d.rows \/ \E q \in Q : r = N(q)
       /\ \A r \in d.rows : r \in e.rows
       /\ \A q \in Q : N(q) \in e.rows
  BY <1>2
<1> HIDE DEF e, N
<1>11. Numbered(e)
  <2>1. \A r \in e.rows : r.seq <= e.seq /\ 1 <= r.rseq /\ r.rseq <= e.ledger[r.req].last
    <3>1. SUFFICES ASSUME NEW r \in e.rows
                   PROVE  r.seq <= e.seq /\ 1 <= r.rseq /\ r.rseq <= e.ledger[r.req].last
      OBVIOUS
    <3>2. CASE r \in d.rows
      BY <3>2, <1>4, <1>5, <1>6, <1>9
    <3>3. ASSUME NEW q \in Q, r = N(q)
          PROVE  r.seq <= e.seq /\ 1 <= r.rseq /\ r.rseq <= e.ledger[r.req].last
      BY <3>3, <1>6, <1>7, <1>9
    <3>4. QED
      BY <3>2, <3>3, <1>10
  <2>2. \A r, x \in e.rows : r.seq = x.seq => r = x
    <3>1. \A r, x \in d.rows : r.seq = x.seq => r = x
      BY <1>1 DEF Numbered
    <3>2. QED
      BY <3>1, <1>4, <1>5, <1>7, <1>8, <1>10
  <2>3. \A r, x \in e.rows : EventOf(r) = EventOf(x) => r = x
    <3>1. \A r, x \in d.rows : EventOf(r) = EventOf(x) => r = x
      BY <1>1 DEF Numbered
    <3>2. \A r \in d.rows, q \in Q : EventOf(r) # EventOf(N(q))
      BY <1>4, <1>6, <1>7 DEF EventOf
    <3>3. \A p, q \in Q : EventOf(N(p)) = EventOf(N(q)) => p = q
      BY <1>7
    <3>4. QED
      BY <3>1, <3>2, <3>3, <1>10
  <2>4. QED
    BY <2>1, <2>2, <2>3 DEF Numbered
<1>12. HeldUnbound(e)
  <2>1. HeldUnbound(d)
    BY DEF Sound
  <2>2. \A q \in Q : how[q].bind = None => how[q].status = "unbound" /\ d.ledger[q].bind = None
    BY DEF Hows
  <2>3. QED
    BY <2>1, <2>2, <1>4, <1>7, <1>9, <1>10 DEF HeldUnbound
<1>13. InOrder(e)
  <2>1. InOrder(d)
    BY DEF Sound
  <2>2. SUFFICES ASSUME NEW r \in e.rows, NEW x \in e.rows, ~r.acked, ~x.acked,
                        r.req = x.req, r.rseq < x.rseq
                 PROVE  r.seq < x.seq
    BY DEF InOrder, Unacked
  <2>3. CASE r \in d.rows /\ x \in d.rows
    BY <2>1, <2>2, <2>3 DEF InOrder, Unacked
  <2>4. ASSUME NEW q \in Q, x = N(q), r \in d.rows PROVE r.seq < x.seq
    BY <2>4, <1>4, <1>5, <1>7
  <2>5. ASSUME NEW q \in Q, r = N(q) PROVE FALSE
    <3>1. CASE x \in d.rows
      BY <2>2, <2>5, <3>1, <1>4, <1>6, <1>7
    <3>2. ASSUME NEW p \in Q, x = N(p) PROVE FALSE
      BY <2>2, <2>5, <3>2, <1>6, <1>7
    <3>3. QED
      BY <3>1, <3>2, <1>10
  <2>6. QED
    BY <2>3, <2>4, <2>5, <1>10
<1>14. Acknowledged(e, done)
  BY <1>7, <1>10 DEF Sound, Acknowledged
<1>15. Kept(e, done)
  <2>1. SUFFICES ASSUME NEW q \in Requests, NEW n \in 1 .. e.ledger[q].last
                 PROVE  (\E r \in Unacked(e) : EventOf(r) = <<q, n>>) \/ <<q, n>> \in done
    BY DEF Kept
  <2>2. CASE n <= d.ledger[q].last
    <3>1. n \in 1 .. d.ledger[q].last
      BY <2>2, <1>6, <1>9
    <3>2. (\E r \in Unacked(d) : EventOf(r) = <<q, n>>) \/ <<q, n>> \in done
      BY <3>1 DEF Sound, Kept
    <3>3. Unacked(d) \subseteq Unacked(e)
      BY <1>10 DEF Unacked
    <3>4. QED
      BY <3>2, <3>3
  <2>3. CASE ~(n <= d.ledger[q].last)
    <3>1. q \in Q /\ n = d.ledger[q].last + 1
      BY <2>3, <1>6, <1>9
    <3>2. N(q) \in Unacked(e)
      BY <3>1, <1>7, <1>10 DEF Unacked
    <3>3. QED
      BY <3>1, <3>2, <1>7
  <2>4. QED
    BY <2>2, <2>3
<1>16. InStep(e, S)
  <2>1. SUFFICES ASSUME NEW x \in S
                 PROVE  /\ x.seq <= e.seq
                        /\ \A r \in e.rows : r.seq = x.seq =>
                             EventOf(r) = EventOf(x) /\ (x.bind # None => r.bind # None)
    BY DEF InStep
  <2>2. /\ x.seq \in Nat /\ x.seq <= d.seq
        /\ \A r \in d.rows : r.seq = x.seq =>
             EventOf(r) = EventOf(x) /\ (x.bind # None => r.bind # None)
    BY DEF Sound, InStep, Rows
  <2>3. QED
    BY <2>2, <1>5, <1>7, <1>10
<1>17. QED
  BY <1>2, <1>11, <1>12, <1>13, <1>14, <1>15, <1>16 DEF Sound, e

\* Events written under granted bindings grant nothing new.
LEMMA InsertGranted ==
    ASSUME NEW d \in Databases, Numbered(d), NEW cons, Granted(d, cons),
           NEW Q \in SUBSET Requests, NEW how \in Hows(d, Q), NEW kind \in Kinds,
           \A q \in Q : how[q].bind # None => how[q].bind.acct \in cons[q]
    PROVE  Granted(Insert(d, how, kind), cons)
<1> DEFINE e == Insert(d, how, kind)
<1>1. e.rows = d.rows \cup {NewRow(d, how, kind, Places(Q), q) : q \in Q}
  BY InsertShape
<1>2. \A q \in Requests : e.ledger[q] =
        [last |-> IF q \in Q THEN d.ledger[q].last + 1 ELSE d.ledger[q].last,
         bind |-> d.ledger[q].bind]
  BY InsertShape
<1> HIDE DEF e
<1>3. ASSUME NEW q \in Requests PROVE e.ledger[q].bind = d.ledger[q].bind
  <2>1. e.ledger[q] = [last |-> IF q \in Q THEN d.ledger[q].last + 1 ELSE d.ledger[q].last,
                       bind |-> d.ledger[q].bind]
    BY <1>2
  <2>2. QED
    BY <2>1
<1>4. \A q \in Requests : e.ledger[q].bind # None => e.ledger[q].bind.acct \in cons[q]
  BY <1>3 DEF Granted
<1>5. \A r \in e.rows : r.bind # None => r.bind.acct \in cons[r.req]
  BY <1>1 DEF Granted, NewRow
<1>6. QED
  BY <1>4, <1>5 DEF Granted, e

----------------------------------------------------------------------------
(* Changing and deleting rows.                                             *)

\* Rows keep their numbers; one that becomes acknowledged has been delivered
\* or replaced.
LEMMA ReworkSound ==
    ASSUME NEW d, NEW done, NEW S, Sound(d, done, S),
           NEW m \in [d.rows -> Rows], NEW e \in Databases,
           e.rows = {m[r] : r \in d.rows}, e.seq = d.seq,
           \A q \in Requests : e.ledger[q].last = d.ledger[q].last,
           \A r \in d.rows : /\ m[r].seq = r.seq /\ m[r].req = r.req /\ m[r].rseq = r.rseq
                             /\ r.acked => m[r].acked
                             /\ m[r].acked => r.acked \/ EventOf(r) \in done
                             /\ r.bind # None => m[r].bind # None,
           HeldUnbound(e)
    PROVE  Sound(e, done, S)
<1>1. d \in Databases /\ Numbered(d) /\ InOrder(d) /\ S \subseteq Rows
  BY DEF Sound
<1>2. \A r \in d.rows : r.req \in Requests /\ r.acked \in BOOLEAN /\ EventOf(m[r]) = EventOf(r)
  BY <1>1 DEF Databases, Rows, EventOf
<1>3. Numbered(e)
  <2>1. \A r \in e.rows : r.seq <= e.seq /\ 1 <= r.rseq /\ r.rseq <= e.ledger[r.req].last
    BY <1>1, <1>2 DEF Numbered
  <2>2. \A r, x \in e.rows : r.seq = x.seq \/ EventOf(r) = EventOf(x) => r = x
    BY <1>1, <1>2 DEF Numbered
  <2>3. QED
    BY <2>1, <2>2 DEF Numbered
<1>4. InOrder(e)
  <2>1. SUFFICES ASSUME NEW r \in d.rows, NEW x \in d.rows, ~m[r].acked, ~m[x].acked,
                        m[r].req = m[x].req, m[r].rseq < m[x].rseq
                 PROVE  m[r].seq < m[x].seq
    BY DEF InOrder, Unacked
  <2>2. ~r.acked /\ ~x.acked
    BY <2>1, <1>2
  <2>3. QED
    BY <2>1, <2>2, <1>1 DEF InOrder, Unacked
<1>5. Acknowledged(e, done)
  <2>1. \A r \in d.rows : r.acked => EventOf(r) \in done
    BY DEF Sound, Acknowledged
  <2>2. SUFFICES ASSUME NEW r \in d.rows, m[r].acked PROVE EventOf(m[r]) \in done
    BY DEF Acknowledged
  <2>3. QED
    BY <2>1, <2>2, <1>2
<1>6. Kept(e, done)
  <2>1. SUFFICES ASSUME NEW q \in Requests, NEW n \in 1 .. e.ledger[q].last
                 PROVE  (\E r \in Unacked(e) : EventOf(r) = <<q, n>>) \/ <<q, n>> \in done
    BY DEF Kept
  <2>2. CASE <<q, n>> \in done
    BY <2>2
  <2>3. ASSUME NEW r \in Unacked(d), EventOf(r) = <<q, n>>, <<q, n>> \notin done
        PROVE  \E x \in Unacked(e) : EventOf(x) = <<q, n>>
    <3>1. r \in d.rows /\ ~r.acked
      BY DEF Unacked
    <3>2. ~m[r].acked /\ m[r] \in e.rows
      BY <2>3, <3>1
    <3>3. m[r] \in Unacked(e) /\ EventOf(m[r]) = <<q, n>>
      BY <2>3, <3>1, <3>2, <1>2 DEF Unacked
    <3>4. QED
      BY <3>3
  <2>4. QED
    BY <2>1, <2>2, <2>3 DEF Sound, Kept
<1>7. InStep(e, S)
  BY <1>2 DEF Sound, InStep
<1>8. QED
  BY <1>1, <1>3, <1>4, <1>5, <1>6, <1>7 DEF Sound

\* Acknowledged rows may be deleted.
LEMMA DeleteSound ==
    ASSUME NEW d, NEW done, NEW S, Sound(d, done, S), NEW e \in Databases,
           e.rows \subseteq d.rows, \A r \in d.rows \ e.rows : r.acked,
           e.seq = d.seq, e.ledger = d.ledger
    PROVE  Sound(e, done, S)
<1>1. Numbered(e) /\ HeldUnbound(e)
  BY DEF Sound, Numbered, HeldUnbound
<1>2. InOrder(e) /\ Acknowledged(e, done)
  BY DEF Sound, InOrder, Acknowledged, Unacked
<1>3. Unacked(e) = Unacked(d)
  BY DEF Unacked
<1>4. Kept(e, done)
  BY <1>3 DEF Sound, Kept
<1>5. InStep(e, S)
  BY DEF Sound, InStep
<1>6. QED
  BY <1>1, <1>2, <1>4, <1>5 DEF Sound

\* Replacing the rows of a database leaves the rest.
LEMMA WithRows ==
    ASSUME NEW d \in Databases, NEW R \in SUBSET Rows
    PROVE  /\ [d EXCEPT !.rows = R] \in Databases
           /\ [d EXCEPT !.rows = R].rows = R
           /\ [d EXCEPT !.rows = R].seq = d.seq
           /\ [d EXCEPT !.rows = R].ledger = d.ledger
           /\ [d EXCEPT !.rows = R].cursor = d.cursor
  BY DEF Databases

\* retry_review_events touches neither numbers nor bindings.
LEMMA PostponeSound ==
    ASSUME NEW d, NEW done, NEW S, NEW cons, Sound(d, done, S), Granted(d, cons),
           NEW b, NEW seqs
    PROVE  Sound(Postpone(d, b, seqs), done, S) /\ Granted(Postpone(d, b, seqs), cons)
<1> DEFINE f(r) == IF r.seq \in seqs /\ r.bind = b /\ ~r.acked
                   THEN [r EXCEPT !.due = FALSE] ELSE r
           m == [r \in d.rows |-> f(r)]
           e == [d EXCEPT !.rows = {f(r) : r \in d.rows}]
<1>1. Postpone(d, b, seqs) = e
  BY DEF Postpone, MapRows
<1>2. d \in Databases /\ d.rows \subseteq Rows
  BY DEF Sound, Databases
<1>3. \A r \in d.rows : /\ f(r) \in Rows /\ f(r).seq = r.seq /\ f(r).req = r.req
                        /\ f(r).rseq = r.rseq /\ f(r).acked = r.acked
                        /\ f(r).bind = r.bind
                        /\ f(r).status = r.status \/ r.status = "ready"
  BY <1>2 DEF Rows
<1> HIDE DEF f
<1>4. /\ m \in [d.rows -> Rows] /\ \A r \in d.rows : m[r] = f(r)
      /\ {f(r) : r \in d.rows} \in SUBSET Rows
      /\ {f(r) : r \in d.rows} = {m[r] : r \in d.rows}
  BY <1>3
<1>5. /\ e \in Databases /\ e.rows = {m[r] : r \in d.rows}
      /\ e.seq = d.seq /\ e.ledger = d.ledger
  BY <1>2, <1>4, WithRows
<1> HIDE DEF m, e
<1>6. HeldUnbound(e)
  BY <1>3, <1>4, <1>5 DEF Sound, HeldUnbound
<1>7. Sound(e, done, S)
  <2>1. \A r \in d.rows : /\ m[r].seq = r.seq /\ m[r].req = r.req /\ m[r].rseq = r.rseq
                          /\ r.acked => m[r].acked
                          /\ m[r].acked => r.acked \/ EventOf(r) \in done
                          /\ r.bind # None => m[r].bind # None
    BY <1>3, <1>4
  <2>2. \A q \in Requests : e.ledger[q].last = d.ledger[q].last
    BY <1>5
  <2>3. QED
    BY <1>4, <1>5, <1>6, <2>1, <2>2, ReworkSound, Zenon
<1>8. Granted(e, cons)
  BY <1>3, <1>4, <1>5 DEF Granted
<1>9. QED
  BY <1>1, <1>7, <1>8

\* quarantine_review_event keeps the event, unacknowledged.
LEMMA DeadLetterSound ==
    ASSUME NEW d, NEW done, NEW S, NEW cons, Sound(d, done, S), Granted(d, cons),
           NEW b, NEW n
    PROVE  Sound(DeadLetter(d, b, n), done, S) /\ Granted(DeadLetter(d, b, n), cons)
<1> DEFINE f(r) == IF r.seq = n /\ r.bind = b /\ r.status = "ready" /\ ~r.acked
                   THEN [r EXCEPT !.status = "dead"] ELSE r
           m == [r \in d.rows |-> f(r)]
           e == [d EXCEPT !.rows = {f(r) : r \in d.rows}]
<1>1. DeadLetter(d, b, n) = e
  BY DEF DeadLetter, MapRows
<1>2. d \in Databases /\ d.rows \subseteq Rows
  BY DEF Sound, Databases
<1>3. \A r \in d.rows : /\ f(r) \in Rows /\ f(r).seq = r.seq /\ f(r).req = r.req
                        /\ f(r).rseq = r.rseq /\ f(r).acked = r.acked
                        /\ f(r).bind = r.bind
                        /\ f(r).status = r.status \/ r.status = "ready"
  BY <1>2 DEF Rows
<1> HIDE DEF f
<1>4. /\ m \in [d.rows -> Rows] /\ \A r \in d.rows : m[r] = f(r)
      /\ {f(r) : r \in d.rows} \in SUBSET Rows
      /\ {f(r) : r \in d.rows} = {m[r] : r \in d.rows}
  BY <1>3
<1>5. /\ e \in Databases /\ e.rows = {m[r] : r \in d.rows}
      /\ e.seq = d.seq /\ e.ledger = d.ledger
  BY <1>2, <1>4, WithRows
<1> HIDE DEF m, e
<1>6. HeldUnbound(e)
  BY <1>3, <1>4, <1>5 DEF Sound, HeldUnbound
<1>7. Sound(e, done, S)
  <2>1. \A r \in d.rows : /\ m[r].seq = r.seq /\ m[r].req = r.req /\ m[r].rseq = r.rseq
                          /\ r.acked => m[r].acked
                          /\ m[r].acked => r.acked \/ EventOf(r) \in done
                          /\ r.bind # None => m[r].bind # None
    BY <1>3, <1>4
  <2>2. \A q \in Requests : e.ledger[q].last = d.ledger[q].last
    BY <1>5
  <2>3. QED
    BY <1>4, <1>5, <1>6, <2>1, <2>2, ReworkSound, Zenon
<1>8. Granted(e, cons)
  BY <1>3, <1>4, <1>5 DEF Granted
<1>9. QED
  BY <1>1, <1>7, <1>8

\* The time of the next attempt comes.
LEMMA DueSound ==
    ASSUME NEW d, NEW done, NEW S, NEW cons, Sound(d, done, S), Granted(d, cons)
    PROVE  /\ Sound([d EXCEPT !.rows = {[r EXCEPT !.due = TRUE] : r \in @}], done, S)
           /\ Granted([d EXCEPT !.rows = {[r EXCEPT !.due = TRUE] : r \in @}], cons)
<1> DEFINE f(r) == [r EXCEPT !.due = TRUE]
           m == [r \in d.rows |-> f(r)]
           e == [d EXCEPT !.rows = {f(r) : r \in d.rows}]
<1>1. [d EXCEPT !.rows = {[r EXCEPT !.due = TRUE] : r \in @}] = e
  OBVIOUS
<1>2. d \in Databases /\ d.rows \subseteq Rows
  BY DEF Sound, Databases
<1>3. \A r \in d.rows : /\ f(r) \in Rows /\ f(r).seq = r.seq /\ f(r).req = r.req
                        /\ f(r).rseq = r.rseq /\ f(r).acked = r.acked
                        /\ f(r).bind = r.bind
                        /\ f(r).status = r.status \/ r.status = "ready"
  BY <1>2 DEF Rows
<1> HIDE DEF f
<1>4. /\ m \in [d.rows -> Rows] /\ \A r \in d.rows : m[r] = f(r)
      /\ {f(r) : r \in d.rows} \in SUBSET Rows
      /\ {f(r) : r \in d.rows} = {m[r] : r \in d.rows}
  BY <1>3
<1>5. /\ e \in Databases /\ e.rows = {m[r] : r \in d.rows}
      /\ e.seq = d.seq /\ e.ledger = d.ledger
  BY <1>2, <1>4, WithRows
<1> HIDE DEF m, e
<1>6. HeldUnbound(e)
  BY <1>3, <1>4, <1>5 DEF Sound, HeldUnbound
<1>7. Sound(e, done, S)
  <2>1. \A r \in d.rows : /\ m[r].seq = r.seq /\ m[r].req = r.req /\ m[r].rseq = r.rseq
                          /\ r.acked => m[r].acked
                          /\ m[r].acked => r.acked \/ EventOf(r) \in done
                          /\ r.bind # None => m[r].bind # None
    BY <1>3, <1>4
  <2>2. \A q \in Requests : e.ledger[q].last = d.ledger[q].last
    BY <1>5
  <2>3. QED
    BY <1>4, <1>5, <1>6, <2>1, <2>2, ReworkSound, Zenon
<1>8. Granted(e, cons)
  BY <1>3, <1>4, <1>5 DEF Granted
<1>9. QED
  BY <1>1, <1>7, <1>8

\* The rows acknowledge_review_events finds by their numbers are marked.
Marked(d, b, seqs) ==
    LET mark(r) == IF r.seq \in seqs /\ r.bind = b /\ r.status = "ready"
                   THEN [r EXCEPT !.acked = TRUE] ELSE r
    IN [d EXCEPT !.rows = {mark(r) : r \in @}]

\* acknowledge_review_events: what it marks must have been delivered or
\* replaced; what it deletes was marked.
LEMMA MarkSound ==
    ASSUME NEW d, NEW done, NEW S, NEW cons, Sound(d, done, S), Granted(d, cons),
           NEW b, NEW seqs, \A r \in d.rows : r.seq \in seqs => EventOf(r) \in done
    PROVE  Sound(Marked(d, b, seqs), done, S) /\ Granted(Marked(d, b, seqs), cons)
<1> DEFINE f(r) == IF r.seq \in seqs /\ r.bind = b /\ r.status = "ready"
                   THEN [r EXCEPT !.acked = TRUE] ELSE r
           m == [r \in d.rows |-> f(r)]
           e == [d EXCEPT !.rows = {f(r) : r \in d.rows}]
<1>1. Marked(d, b, seqs) = e
  BY DEF Marked
<1>2. d \in Databases /\ d.rows \subseteq Rows
  BY DEF Sound, Databases
<1>3. \A r \in d.rows : /\ f(r) \in Rows /\ f(r).seq = r.seq /\ f(r).req = r.req
                        /\ f(r).rseq = r.rseq /\ f(r).bind = r.bind
                        /\ f(r).status = r.status
  BY <1>2 DEF Rows
<1>4. \A r \in d.rows : /\ r.acked => f(r).acked
                        /\ f(r).acked => r.acked \/ EventOf(r) \in done
  BY <1>2 DEF Rows
<1> HIDE DEF f
<1>5. /\ m \in [d.rows -> Rows] /\ \A r \in d.rows : m[r] = f(r)
      /\ {f(r) : r \in d.rows} \in SUBSET Rows
      /\ {f(r) : r \in d.rows} = {m[r] : r \in d.rows}
  BY <1>3
<1>6. /\ e \in Databases /\ e.rows = {m[r] : r \in d.rows}
      /\ e.seq = d.seq /\ e.ledger = d.ledger
  BY <1>2, <1>5, WithRows
<1> HIDE DEF m, e
<1>7. HeldUnbound(e)
  BY <1>3, <1>5, <1>6 DEF Sound, HeldUnbound
<1>8. Sound(e, done, S)
  <2>1. \A r \in d.rows : /\ m[r].seq = r.seq /\ m[r].req = r.req /\ m[r].rseq = r.rseq
                          /\ r.acked => m[r].acked
                          /\ m[r].acked => r.acked \/ EventOf(r) \in done
                          /\ r.bind # None => m[r].bind # None
    BY <1>3, <1>4, <1>5
  <2>2. \A q \in Requests : e.ledger[q].last = d.ledger[q].last
    BY <1>6
  <2>3. QED
    BY <1>5, <1>6, <1>7, <2>1, <2>2, ReworkSound, Zenon
<1>9. Granted(e, cons)
  BY <1>3, <1>5, <1>6 DEF Granted
<1>10. QED
  BY <1>1, <1>8, <1>9

\* acknowledge_review_events: marking and deleting the acknowledged prefix lose
\* nothing.
LEMMA AcknowledgeSound ==
    ASSUME NEW d, NEW done, NEW S, NEW cons, Sound(d, done, S), Granted(d, cons),
           NEW b, NEW seqs, \A r \in d.rows : r.seq \in seqs => EventOf(r) \in done
    PROVE  Sound(Acknowledge(d, b, seqs), done, S) /\ Granted(Acknowledge(d, b, seqs), cons)
<1> DEFINE m == Marked(d, b, seqs)
           prefix == {r \in Ready(m, b) : \A x \in Ready(m, b) : x.seq <= r.seq => x.acked}
           top == Max({m.cursor[b]} \cup SeqsOf(prefix))
           e == [m EXCEPT !.rows = @ \ prefix, !.cursor[b] = top]
<1>1. Acknowledge(d, b, seqs) = IF seqs = {} \/ prefix = {} THEN m ELSE e
  BY DEF Acknowledge, MapRows, Marked
<1>2. Sound(m, done, S) /\ Granted(m, cons)
  BY MarkSound
<1> HIDE DEF m
<1>3. m \in Databases /\ m.rows \subseteq Rows /\ m.seq \in Nat
      /\ m.cursor \in [Bindings -> Nat]
  BY <1>2 DEF Sound, Databases
<1>4. prefix \subseteq m.rows /\ \A r \in prefix : r.acked
  BY <1>3 DEF Ready, Rows
<1>5. CASE prefix # {}
  <2>1. PICK r \in m.rows : r.bind = b /\ r.status = "ready"
    BY <1>5 DEF Ready
  <2>2. b \in Bindings
    BY <2>1, <1>2, <1>3 DEF Sound, HeldUnbound, Rows
  <2>3. top \in Nat
    <3> DEFINE T == {m.cursor[b]} \cup SeqsOf(prefix)
               n == IF m.cursor[b] <= m.seq THEN m.seq ELSE m.cursor[b]
    <3>1. m.cursor[b] \in Nat
      BY <2>2, <1>3
    <3>2. \A x \in m.rows : x.seq \in Nat /\ x.seq <= m.seq
      BY <1>2, <1>3 DEF Sound, Numbered, Rows
    <3>3. T \in SUBSET Nat /\ T # {} /\ n \in Nat /\ \A t \in T : t <= n
      BY <1>3, <1>4, <3>1, <3>2 DEF SeqsOf
    <3> HIDE DEF T, n
    <3>4. Max(T) \in Nat
      BY <3>3, GreatestNumber
    <3>5. QED
      BY <3>4 DEF T
  <2> HIDE DEF top, prefix
  <2>4. /\ e \in Databases /\ e.rows = m.rows \ prefix
        /\ e.seq = m.seq /\ e.ledger = m.ledger
    BY <2>2, <2>3, <1>3 DEF Databases
  <2> HIDE DEF e
  <2>5. Sound(e, done, S)
    <3>1. e.rows \subseteq m.rows /\ \A x \in m.rows \ e.rows : x.acked
      BY <2>4, <1>4
    <3>2. QED
      BY <3>1, <2>4, <1>2, DeleteSound
  <2>6. Granted(e, cons)
    BY <2>4, <1>2 DEF Granted
  <2>7. QED
    BY <2>5, <2>6, <1>1, <1>2
<1>6. CASE prefix = {}
  BY <1>1, <1>2, <1>6
<1>7. QED
  BY <1>5, <1>6

\* refresh_same_subject_binding changes the machine of rows and requests, never
\* their account.  The rows it selected were bound, and still are.
LEMMA RebindSound ==
    ASSUME NEW d, NEW done, NEW S, NEW cons, Sound(d, done, S), Granted(d, cons),
           NEW b \in Bindings, NEW seqs, \A r \in d.rows : r.seq \in seqs => r.bind # None
    PROVE  /\ Sound(Rebind(d, b, seqs), done, S) /\ Granted(Rebind(d, b, seqs), cons)
           /\ \A q \in Requests : Rebind(d, b, seqs).ledger[q].last = d.ledger[q].last
<1> DEFINE follow(r) ==
             IF r.seq \in seqs
             THEN [r EXCEPT !.bind = [acct |-> r.bind.acct, mach |-> b.mach], !.status = "ready"]
             ELSE r
           hold(r) == IF r.status = "ready" /\ r.bind.acct # b.acct
                      THEN [r EXCEPT !.status = "moved"] ELSE r
           f(r) == hold(follow(r))
           L == [q \in Requests |->
                   IF d.ledger[q].bind # None /\ d.ledger[q].bind.acct = b.acct
                   THEN [d.ledger[q] EXCEPT !.bind = b] ELSE d.ledger[q]]
           m == [r \in d.rows |-> f(r)]
           R0 == {f(r) : r \in d.rows}
           e == [d EXCEPT !.rows = R0, !.ledger = L]
<1>1. d \in Databases /\ d.rows \subseteq Rows
      /\ d.ledger \in [Requests -> [last : Nat, bind : Bindings \cup {None}]]
      /\ \A r \in d.rows : r.bind = None => r.status = "unbound" /\ d.ledger[r.req].bind = None
  BY DEF Sound, Databases, HeldUnbound
<1>2. Rebind(d, b, seqs) = e
  BY <1>1 DEF Rebind, MapRows, Databases
<1>b. b # None /\ b.mach \in Machines
  BY OutboxConstants DEF Bindings
<1>3. ASSUME NEW r \in d.rows
      PROVE  /\ follow(r) \in Rows /\ follow(r).seq = r.seq /\ follow(r).req = r.req
             /\ follow(r).rseq = r.rseq /\ follow(r).acked = r.acked
             /\ r.bind = None => follow(r) = r
             /\ r.bind # None => follow(r).bind # None /\ follow(r).bind.acct = r.bind.acct
  <2>1. CASE r.seq \in seqs
    <3> DEFINE to == [acct |-> r.bind.acct, mach |-> b.mach]
    <3>1. r \in Rows /\ r.bind # None
      BY <1>1, <2>1
    <3>2. r.bind \in Bindings
      BY <3>1 DEF Rows
    <3>3. to \in Bindings /\ to.acct = r.bind.acct
      BY <3>2, <1>b DEF Bindings
    <3>4. to # None
      BY <3>3, OutboxConstants
    <3>5. follow(r) = [r EXCEPT !.bind = to, !.status = "ready"]
      BY <2>1
    <3> HIDE DEF to, follow
    <3>6. QED
      BY <3>1, <3>3, <3>4, <3>5 DEF Rows
  <2>2. CASE r.seq \notin seqs
    BY <1>1, <2>2
  <2>3. QED
    BY <2>1, <2>2
<1>4. ASSUME NEW x \in Rows
      PROVE  /\ hold(x) \in Rows /\ hold(x).seq = x.seq /\ hold(x).req = x.req
             /\ hold(x).rseq = x.rseq /\ hold(x).acked = x.acked /\ hold(x).bind = x.bind
             /\ x.status # "ready" => hold(x) = x
  BY DEF Rows
<1> HIDE DEF follow, hold
<1>5. \A r \in d.rows : /\ f(r) \in Rows /\ f(r).seq = r.seq /\ f(r).req = r.req
                        /\ f(r).rseq = r.rseq /\ f(r).acked = r.acked
                        /\ r.bind = None => f(r) = r
                        /\ r.bind # None => f(r).bind # None /\ f(r).bind.acct = r.bind.acct
  BY <1>1, <1>3, <1>4
<1>6. \A q \in Requests : \/ L[q].bind = d.ledger[q].bind
                          \/ /\ L[q].bind = b /\ d.ledger[q].bind # None
                             /\ d.ledger[q].bind.acct = b.acct
  BY <1>1
<1>7. /\ L \in [Requests -> [last : Nat, bind : Bindings \cup {None}]]
      /\ \A q \in Requests : L[q].last = d.ledger[q].last
  BY <1>1
<1> HIDE DEF f, L
<1>8. /\ m \in [d.rows -> Rows] /\ \A r \in d.rows : m[r] = f(r)
      /\ R0 \in SUBSET Rows /\ R0 = {m[r] : r \in d.rows}
  BY <1>5
<1> HIDE DEF m, R0
<1>9. /\ e \in Databases /\ e.rows = {m[r] : r \in d.rows}
      /\ e.seq = d.seq /\ e.ledger = L
  <2>1. e = [d EXCEPT !.rows = R0, !.ledger = L]
    OBVIOUS
  <2> HIDE DEF e
  <2>2. R0 \in SUBSET Rows /\ d \in Databases
        /\ L \in [Requests -> [last : Nat, bind : Bindings \cup {None}]]
    BY <1>1, <1>7, <1>8
  <2>3. e \in Databases /\ e.rows = R0 /\ e.seq = d.seq /\ e.ledger = L
    BY <2>1, <2>2 DEF Databases
  <2>4. QED
    BY <1>8, <2>3
<1> HIDE DEF e
<1>10. HeldUnbound(e)
  <2>1. \A r \in d.rows : r.req \in Requests
    BY <1>1 DEF Rows
  <2>2. SUFFICES ASSUME NEW r \in d.rows, f(r).bind = None
                 PROVE  f(r).status = "unbound" /\ L[f(r).req].bind = None
    BY <1>8, <1>9 DEF HeldUnbound
  <2>3. r.bind = None /\ f(r) = r
    BY <1>5, <2>2
  <2>4. QED
    BY <1>1, <1>6, <2>1, <2>3
<1>11. Sound(e, done, S)
  <2>1. \A r \in d.rows : /\ m[r].seq = r.seq /\ m[r].req = r.req /\ m[r].rseq = r.rseq
                          /\ r.acked => m[r].acked
                          /\ m[r].acked => r.acked \/ EventOf(r) \in done
                          /\ r.bind # None => m[r].bind # None
    BY <1>5, <1>8
  <2>2. \A q \in Requests : e.ledger[q].last = d.ledger[q].last
    BY <1>7, <1>9
  <2>3. QED
    BY <1>8, <1>9, <1>10, <2>1, <2>2, ReworkSound, Zenon
<1>12. Granted(e, cons)
  <2>1. \A q \in Requests : L[q].bind # None => L[q].bind.acct \in cons[q]
    BY <1>6 DEF Granted
  <2>2. \A r \in d.rows : f(r).bind # None => f(r).bind.acct \in cons[f(r).req]
    BY <1>5 DEF Granted
  <2>3. QED
    BY <1>8, <1>9, <2>1, <2>2 DEF Granted
<1>13. QED
  BY <1>2, <1>7, <1>9, <1>11, <1>12

\* explicitly_reassign_quarantined_events: every row of a request that nobody
\* is bound to is adopted, or none.
LEMMA AdoptSound ==
    ASSUME NEW d, NEW done, NEW S, NEW cons, Sound(d, done, S), Granted(d, cons),
           NEW b \in Bindings, NEW onlyUnbound \in BOOLEAN, NEW more,
           \A q \in Requests : cons[q] \subseteq more[q],
           \A r \in Adoptable(d, b, onlyUnbound) : b.acct \in more[r.req]
    PROVE  Sound(Adopt(d, b, onlyUnbound), done, S) /\ Granted(Adopt(d, b, onlyUnbound), more)
<1> DEFINE R == Adoptable(d, b, onlyUnbound)
           f(r) == IF r \in R THEN [r EXCEPT !.bind = b, !.status = "ready"] ELSE r
           L == [q \in Requests |->
                   IF \E r \in R : r.req = q THEN [d.ledger[q] EXCEPT !.bind = b]
                                             ELSE d.ledger[q]]
           m == [r \in d.rows |-> f(r)]
           R0 == {f(r) : r \in d.rows}
           e == [d EXCEPT !.rows = R0, !.ledger = L]
<1>2. d \in Databases /\ d.rows \subseteq Rows
      /\ d.ledger \in [Requests -> [last : Nat, bind : Bindings \cup {None}]]
  BY DEF Sound, Databases
<1>0. R \subseteq d.rows
  BY DEF Adoptable
<1>b. b # None
  BY OutboxConstants
<1>1. Adopt(d, b, onlyUnbound) = e
  <2> DEFINE A == (d.rows \ R) \cup {[r EXCEPT !.bind = b, !.status = "ready"] : r \in R}
  <2>1. A = R0
    <3> HIDE DEF R
    <3>1. A \subseteq {f(r) : r \in d.rows}
      BY <1>0
    <3>2. {f(r) : r \in d.rows} \subseteq A
      OBVIOUS
    <3>3. QED
      BY <3>1, <3>2
  <2>2. Adopt(d, b, onlyUnbound) = [d EXCEPT !.rows = A, !.ledger = L]
    BY DEF Adopt
  <2> HIDE DEF A, f, L, R, R0
  <2>3. QED
    BY <2>1, <2>2
<1>3. \A r \in d.rows : /\ f(r) \in Rows /\ f(r).seq = r.seq /\ f(r).req = r.req
                        /\ f(r).rseq = r.rseq /\ f(r).acked = r.acked
                        /\ r \in R => f(r).bind = b
                        /\ r \notin R => f(r) = r
  <2> HIDE DEF R
  <2>1. QED
    BY <1>2 DEF Rows
<1>a. \A q \in Requests : /\ (\E r \in R : r.req = q) => L[q].bind = b
                          /\ ~(\E r \in R : r.req = q) => L[q].bind = d.ledger[q].bind
  <2> HIDE DEF R
  <2>1. QED
    BY <1>2
<1>c. \A r \in d.rows : r.bind = None /\ r \notin R => ~\E u \in R : u.req = r.req
  <2>1. SUFFICES ASSUME NEW r \in d.rows, r.bind = None, NEW u \in R, u.req = r.req
                 PROVE  r \in R
    OBVIOUS
  <2>2. r.status = "unbound"
    BY <2>1 DEF Sound, HeldUnbound
  <2>3. QED
    BY <2>1, <2>2 DEF Adoptable, RowsOf
<1> HIDE DEF R
<1>4. /\ L \in [Requests -> [last : Nat, bind : Bindings \cup {None}]]
      /\ \A q \in Requests : L[q].last = d.ledger[q].last
  BY <1>2
<1> HIDE DEF f, L
<1>5. /\ m \in [d.rows -> Rows] /\ \A r \in d.rows : m[r] = f(r)
      /\ R0 \in SUBSET Rows /\ R0 = {m[r] : r \in d.rows}
  BY <1>3
<1> HIDE DEF m, R0
<1>6. /\ e \in Databases /\ e.rows = {m[r] : r \in d.rows}
      /\ e.seq = d.seq /\ e.ledger = L
  <2>1. e = [d EXCEPT !.rows = R0, !.ledger = L]
    OBVIOUS
  <2> HIDE DEF e
  <2>2. R0 \in SUBSET Rows /\ R0 = {m[r] : r \in d.rows}
    BY <1>5
  <2>3. d \in Databases
    BY <1>2
  <2>4. L \in [Requests -> [last : Nat, bind : Bindings \cup {None}]]
    BY <1>4
  <2>5. e \in Databases /\ e.rows = R0 /\ e.seq = d.seq /\ e.ledger = L
    <3> HIDE DEF L, R0, m
    <3>1. R0 \in SUBSET Rows
      BY <2>2
    <3>2. QED
      BY <2>1, <2>3, <2>4, <3>1 DEF Databases
  <2>6. QED
    BY <2>2, <2>5
<1> HIDE DEF e
<1>7. HeldUnbound(e)
  <2>1. \A r \in d.rows : r.bind = None => r.status = "unbound" /\ d.ledger[r.req].bind = None
    BY DEF Sound, HeldUnbound
  <2>2. \A r \in d.rows : r.req \in Requests
    BY <1>2 DEF Rows
  <2>3. \A r \in d.rows : f(r).bind = None => r \notin R /\ r.bind = None
    BY <1>3, <1>b
  <2>4. QED
    BY <1>3, <1>a, <1>c, <1>5, <1>6, <2>1, <2>2, <2>3 DEF HeldUnbound
<1>8. Sound(e, done, S)
  <2>1. \A r \in d.rows : /\ m[r].seq = r.seq /\ m[r].req = r.req /\ m[r].rseq = r.rseq
                          /\ r.acked => m[r].acked
                          /\ m[r].acked => r.acked \/ EventOf(r) \in done
                          /\ r.bind # None => m[r].bind # None
    BY <1>3, <1>5, <1>b
  <2>2. \A q \in Requests : e.ledger[q].last = d.ledger[q].last
    BY <1>4, <1>6
  <2>3. QED
    BY <1>5, <1>6, <1>7, <2>1, <2>2, ReworkSound, Zenon
<1>9. Granted(e, more)
  <2>1. \A q \in Requests : L[q].bind # None => L[q].bind.acct \in more[q]
    BY <1>a DEF Granted, R
  <2>2. \A r \in d.rows : r.req \in Requests
    BY <1>2 DEF Rows
  <2>3. \A r \in d.rows : f(r).bind # None => f(r).bind.acct \in more[r.req]
    BY <1>3, <2>2 DEF Granted, R
  <2>4. QED
    BY <1>3, <1>5, <1>6, <2>1, <2>3 DEF Granted
<1>10. QED
  BY <1>1, <1>8, <1>9

\* bind_review_events_for_request binds a request together with its only row.
LEMMA BindFirstSound ==
    ASSUME NEW d, NEW done, NEW S, NEW cons, Sound(d, done, S), Granted(d, cons),
           login \in Bindings \cup {None}, NEW Q, NEW more,
           \A q \in Requests : cons[q] \subseteq more[q],
           \A q \in Requests :
             d.ledger[q].bind = None /\ BindFirst(d, Q).ledger[q].bind # None
               => BindFirst(d, Q).ledger[q].bind.acct \in more[q]
    PROVE  Sound(BindFirst(d, Q), done, S) /\ Granted(BindFirst(d, Q), more)
<1>0. CASE login = None
  <2>1. BindFirst(d, Q) = d
    BY <1>0 DEF BindFirst
  <2>2. \A r \in d.rows : r.req \in Requests
    BY DEF Sound, Databases, Rows
  <2>3. QED
    BY <2>1, <2>2 DEF Granted
<1> SUFFICES ASSUME login # None
             PROVE  Sound(BindFirst(d, Q), done, S) /\ Granted(BindFirst(d, Q), more)
  BY <1>0
<1> DEFINE U == UNION {Unclaimed(d, q) : q \in Q}
           f(r) == IF r \in U THEN [r EXCEPT !.bind = login, !.status = "ready"] ELSE r
           L == [q \in Requests |->
                   IF \E r \in U : r.req = q THEN [d.ledger[q] EXCEPT !.bind = login]
                                             ELSE d.ledger[q]]
           m == [r \in d.rows |-> f(r)]
           R0 == {f(r) : r \in d.rows}
           e == [d EXCEPT !.rows = R0, !.ledger = L]
<1>2. d \in Databases /\ d.rows \subseteq Rows
      /\ d.ledger \in [Requests -> [last : Nat, bind : Bindings \cup {None}]]
  BY DEF Sound, Databases
<1>b. \A u \in U : u \in d.rows /\ u.bind = None /\ RowsOf(d, u.req) = {u}
  BY DEF Unclaimed, RowsOf
<1>1. BindFirst(d, Q) = e
  <2> DEFINE A == (d.rows \ U) \cup {[r EXCEPT !.bind = login, !.status = "ready"] : r \in U}
  <2>1. A = R0
    <3> HIDE DEF U
    <3>1. A \subseteq {f(r) : r \in d.rows}
      BY <1>b
    <3>2. {f(r) : r \in d.rows} \subseteq A
      OBVIOUS
    <3>3. QED
      BY <3>1, <3>2
  <2>2. BindFirst(d, Q) = [d EXCEPT !.rows = A, !.ledger = L]
    BY DEF BindFirst
  <2> HIDE DEF A, f, L, U, R0
  <2>3. QED
    BY <2>1, <2>2
<1> HIDE DEF U
<1>3. \A r \in d.rows : /\ f(r) \in Rows /\ f(r).seq = r.seq /\ f(r).req = r.req
                        /\ f(r).rseq = r.rseq /\ f(r).acked = r.acked
                        /\ r \in U => f(r).bind = login
                        /\ r \notin U => f(r) = r
  BY <1>2 DEF Rows
<1>a. \A q \in Requests : /\ (\E r \in U : r.req = q) => L[q].bind = login
                          /\ ~(\E r \in U : r.req = q) => L[q].bind = d.ledger[q].bind
  BY <1>2
<1>c. \A r \in d.rows : r \notin U => ~\E u \in U : u.req = r.req
  BY <1>b DEF RowsOf
<1>4. /\ L \in [Requests -> [last : Nat, bind : Bindings \cup {None}]]
      /\ \A q \in Requests : L[q].last = d.ledger[q].last
  BY <1>2
<1> HIDE DEF f, L
<1>5. /\ m \in [d.rows -> Rows] /\ \A r \in d.rows : m[r] = f(r)
      /\ R0 \in SUBSET Rows /\ R0 = {m[r] : r \in d.rows}
  BY <1>3
<1> HIDE DEF m, R0
<1>6. /\ e \in Databases /\ e.rows = {m[r] : r \in d.rows}
      /\ e.seq = d.seq /\ e.ledger = L
  <2>1. e = [d EXCEPT !.rows = R0, !.ledger = L]
    OBVIOUS
  <2> HIDE DEF e
  <2>2. R0 \in SUBSET Rows /\ R0 = {m[r] : r \in d.rows}
    BY <1>5
  <2>3. d \in Databases
    BY <1>2
  <2>4. L \in [Requests -> [last : Nat, bind : Bindings \cup {None}]]
    BY <1>4
  <2>5. e \in Databases /\ e.rows = R0 /\ e.seq = d.seq /\ e.ledger = L
    <3> HIDE DEF L, R0, m
    <3>1. R0 \in SUBSET Rows
      BY <2>2
    <3>2. QED
      BY <2>1, <2>3, <2>4, <3>1 DEF Databases
  <2>6. QED
    BY <2>2, <2>5
<1> HIDE DEF e
<1>7. HeldUnbound(e)
  <2>1. \A r \in d.rows : r.bind = None => r.status = "unbound" /\ d.ledger[r.req].bind = None
    BY DEF Sound, HeldUnbound
  <2>2. \A r \in d.rows : r.req \in Requests
    BY <1>2 DEF Rows
  <2>3. \A r \in d.rows : f(r).bind = None => r \notin U /\ r.bind = None
    BY <1>3
  <2>4. QED
    BY <1>3, <1>a, <1>c, <1>5, <1>6, <2>1, <2>2, <2>3 DEF HeldUnbound
<1>8. Sound(e, done, S)
  <2>1. \A r \in d.rows : /\ m[r].seq = r.seq /\ m[r].req = r.req /\ m[r].rseq = r.rseq
                          /\ r.acked => m[r].acked
                          /\ m[r].acked => r.acked \/ EventOf(r) \in done
                          /\ r.bind # None => m[r].bind # None
    BY <1>3, <1>5
  <2>2. \A q \in Requests : e.ledger[q].last = d.ledger[q].last
    BY <1>4, <1>6
  <2>3. QED
    BY <1>5, <1>6, <1>7, <2>1, <2>2, ReworkSound, Zenon
<1>9. Granted(e, more)
  <2>1. \A q \in Requests : d.ledger[q].bind = None /\ L[q].bind # None
                              => L[q].bind.acct \in more[q]
    BY <1>1, <1>6
  <2>2. \A u \in U : u.req \in Requests /\ d.ledger[u.req].bind = None
    BY <1>2, <1>b DEF Sound, HeldUnbound, Rows
  <2>3. \A q \in Requests : L[q].bind # None => L[q].bind.acct \in more[q]
    BY <1>a, <2>1, <2>2 DEF Granted
  <2>4. \A r \in d.rows : r.req \in Requests
    BY <1>2 DEF Rows
  <2>5. \A r \in d.rows : f(r).bind # None => f(r).bind.acct \in more[r.req]
    <3>1. \A r \in U : login.acct \in more[r.req]
      BY <2>1, <2>2, <1>a
    <3>2. QED
      BY <3>1, <1>3, <2>4 DEF Granted
  <2>6. QED
    BY <1>3, <1>5, <1>6, <2>3, <2>5 DEF Granted
<1>10. QED
  BY <1>1, <1>8, <1>9

----------------------------------------------------------------------------
(* recover_review_snapshot_sequences.                                      *)

\* Where the number n goes when the numbers of C move behind base.
Place(C, base, n) == base + Cardinality({c \in C : c.seq <= n})

\* The new numbers are new, and in the old order.
LEMMA PlaceFacts ==
    ASSUME NEW C \in SUBSET Rows, IsFiniteSet(C), NEW base \in Nat
    PROVE  /\ Cardinality(C) \in Nat
           /\ \A n \in SeqsOf(C) : /\ Place(C, base, n) \in Nat
                                   /\ base < Place(C, base, n)
                                   /\ Place(C, base, n) <= base + Cardinality(C)
           /\ \A n, p \in SeqsOf(C) : n < p => Place(C, base, n) < Place(C, base, p)
<1> DEFINE D(n) == {c \in C : c.seq <= n}
<1>1. \A n : D(n) \in SUBSET C
  OBVIOUS
<1>2. Cardinality(C) \in Nat
  BY FS_CardinalityType
<1>3. ASSUME NEW n PROVE /\ IsFiniteSet(D(n)) /\ Cardinality(D(n)) \in Nat
                         /\ Cardinality(D(n)) <= Cardinality(C)
  BY FS_Subset, FS_CardinalityType
<1>4. SeqsOf(C) \subseteq Nat
  BY DEF SeqsOf, Rows
<1>5. ASSUME NEW n \in SeqsOf(C) PROVE 0 < Cardinality(D(n))
  <2>1. PICK c \in C : c.seq = n
    BY DEF SeqsOf
  <2>2. c \in D(n)
    BY <2>1, <1>4
  <2> HIDE DEF D
  <2>3. Cardinality(D(n)) # 0
    BY <2>2, <1>3, FS_EmptySet
  <2>4. QED
    BY <2>3, <1>3
<1>6. ASSUME NEW n \in SeqsOf(C), NEW p \in SeqsOf(C), n < p
      PROVE  Cardinality(D(n)) < Cardinality(D(p))
  <2>1. PICK c \in C : c.seq = p
    BY DEF SeqsOf
  <2>2. c \in D(p) /\ c \notin D(n)
    BY <2>1, <1>4, <1>6
  <2>3. D(n) \in SUBSET D(p)
    <3>1. SUFFICES ASSUME NEW x \in C, x.seq <= n PROVE x.seq <= p
      OBVIOUS
    <3>2. x.seq \in Nat /\ n \in Nat /\ p \in Nat
      BY <1>4 DEF Rows
    <3>3. QED
      BY <3>1, <3>2, <1>6
  <2> HIDE DEF D
  <2>4. /\ Cardinality(D(n)) <= Cardinality(D(p))
        /\ Cardinality(D(p)) = Cardinality(D(n)) => D(p) = D(n)
    BY <2>3, <1>3, FS_Subset
  <2>5. QED
    BY <2>2, <2>4, <1>3
<1>7. \A n : Place(C, base, n) = base + Cardinality(D(n))
  BY DEF Place
<1> HIDE DEF D
<1>8. \A n \in SeqsOf(C) : /\ Place(C, base, n) \in Nat
                           /\ base < Place(C, base, n)
                           /\ Place(C, base, n) <= base + Cardinality(C)
  <2>1. SUFFICES ASSUME NEW n \in SeqsOf(C)
                 PROVE  /\ Place(C, base, n) \in Nat
                        /\ base < Place(C, base, n)
                        /\ Place(C, base, n) <= base + Cardinality(C)
    OBVIOUS
  <2>2. Place(C, base, n) = base + Cardinality(D(n))
    BY <1>7
  <2>3. QED
    BY <2>2, <1>2, <1>3, <1>5
<1>9. \A n, p \in SeqsOf(C) : n < p => Place(C, base, n) < Place(C, base, p)
  <2>1. SUFFICES ASSUME NEW n \in SeqsOf(C), NEW p \in SeqsOf(C), n < p
                 PROVE  Place(C, base, n) < Place(C, base, p)
    OBVIOUS
  <2>2. Place(C, base, n) = base + Cardinality(D(n)) /\ Place(C, base, p) = base + Cardinality(D(p))
    BY <1>7
  <2>3. Cardinality(D(n)) < Cardinality(D(p))
    BY <2>1, <1>6
  <2>4. QED
    BY <2>2, <2>3, <1>3
<1>10. QED
  BY <1>2, <1>8, <1>9

\* The base is at least as large as every number in use.
LEMMA BaseFacts ==
    ASSUME NEW d \in Databases, Numbered(d), NEW b \in Bindings, NEW through \in Nat
    PROVE  LET base == Max({through, d.cursor[b], d.seq} \cup SeqsOf(d.rows))
           IN  base \in Nat /\ d.seq <= base
<1> DEFINE T == {through, d.cursor[b], d.seq} \cup SeqsOf(d.rows)
           n == through + d.cursor[b] + d.seq
<1>1. d.cursor[b] \in Nat /\ d.seq \in Nat
  BY DEF Databases
<1>2. \A r \in d.rows : r.seq \in Nat /\ r.seq <= d.seq
  BY DEF Databases, Numbered, Rows
<1>3. n \in Nat /\ through <= n /\ d.cursor[b] <= n /\ d.seq <= n
  BY <1>1
<1> HIDE DEF n
<1>4. T \in SUBSET Nat /\ T # {} /\ d.seq \in T
  BY <1>1, <1>2 DEF SeqsOf
<1>5. \A t \in T : t <= n
  BY <1>1, <1>2, <1>3 DEF SeqsOf
<1> HIDE DEF T
<1>6. Max(T) \in T /\ \A t \in T : t <= Max(T)
  BY <1>3, <1>4, <1>5, GreatestNumber
<1>7. QED
  BY <1>4, <1>6 DEF T

\* The rows that move are those C names; with one of them goes every later
\* event of its request that is still to be delivered.
LEMMA MoversTogether ==
    ASSUME NEW done, NEW S, Sound(db, done, S), NEW C, MayRenumber(C),
           NEW r \in db.rows, r.seq \in SeqsOf(C), NEW x \in db.rows, ~x.acked,
           x.req = r.req, r.rseq < x.rseq
    PROVE  x.seq \in SeqsOf(C)
<1>1. \A y, z \in db.rows : y.seq = z.seq \/ EventOf(y) = EventOf(z) => y = z
  BY DEF Sound, Numbered
<1>2. r.rseq \in Nat /\ x.rseq \in Nat
  BY DEF Sound, Databases, Rows
<1>3. PICK c \in C : c.seq = r.seq
  BY DEF SeqsOf
<1>4. PICK y \in db.rows : /\ y.seq = c.seq
                           /\ \A z \in RowsOf(db, y.req) :
                                z.rseq > y.rseq /\ ~z.acked =>
                                  \E e \in C : EventOf(e) = EventOf(z)
  BY DEF MayRenumber
<1>5. y = r
  BY <1>1, <1>3, <1>4
<1>6. x \in RowsOf(db, r.req)
  BY DEF RowsOf
<1>7. PICK e \in C : EventOf(e) = EventOf(x)
  BY <1>2, <1>4, <1>5, <1>6
<1>8. PICK z \in db.rows : z.seq = e.seq /\ EventOf(z) = EventOf(e)
  BY DEF MayRenumber
<1>9. z = x
  BY <1>1, <1>7, <1>8
<1>10. QED
  BY <1>8, <1>9 DEF SeqsOf

\* Renumbering keeps every event and the order of each request's events, and
\* no number the worker still remembers comes to name another event.
LEMMA RenumberSound ==
    ASSUME NEW done, NEW S, NEW cons, Sound(db, done, S), Granted(db, cons),
           sync.bind \in Bindings, NEW through \in Nat,
           NEW C \in SUBSET S, IsFiniteSet(C), MayRenumber(C)
    PROVE  /\ Sound(Renumber(db, C, through), done, S)
           /\ Granted(Renumber(db, C, through), cons)
<1> DEFINE base == Max({through, db.cursor[sync.bind], db.seq} \cup SeqsOf(db.rows))
           f(r) == IF r.seq \in SeqsOf(C) THEN [r EXCEPT !.seq = Place(C, base, r.seq)] ELSE r
           m == [r \in db.rows |-> f(r)]
           R0 == {f(r) : r \in db.rows}
           e == [db EXCEPT !.rows = R0, !.seq = base + Cardinality(C)]
<1>1. Renumber(db, C, through) = e
  BY DEF Renumber, MapRows, Place
<1>2. /\ db \in Databases /\ db.rows \subseteq Rows /\ db.seq \in Nat /\ C \in SUBSET Rows
      /\ Numbered(db) /\ S \subseteq Rows
  BY DEF Sound, Databases
<1>3. base \in Nat /\ db.seq <= base
  BY <1>2, BaseFacts
<1> HIDE DEF base
<1>4. /\ Cardinality(C) \in Nat
      /\ \A n \in SeqsOf(C) : /\ Place(C, base, n) \in Nat
                              /\ base < Place(C, base, n)
                              /\ Place(C, base, n) <= base + Cardinality(C)
      /\ \A n, p \in SeqsOf(C) : n < p => Place(C, base, n) < Place(C, base, p)
  BY <1>2, <1>3, PlaceFacts
<1>5. \A r \in db.rows : /\ f(r) \in Rows /\ f(r).req = r.req
                         /\ f(r).rseq = r.rseq /\ f(r).acked = r.acked
                         /\ f(r).bind = r.bind /\ f(r).status = r.status
  BY <1>2, <1>4 DEF Rows
<1>6. \A r \in db.rows : /\ r.seq \in SeqsOf(C) => f(r).seq = Place(C, base, r.seq)
                         /\ r.seq \notin SeqsOf(C) => f(r).seq = r.seq
  BY <1>2 DEF Rows
<1> HIDE DEF f
<1>7. /\ m \in [db.rows -> Rows] /\ \A r \in db.rows : m[r] = f(r)
      /\ R0 \in SUBSET Rows /\ R0 = {m[r] : r \in db.rows}
  BY <1>5
<1> HIDE DEF m, R0
<1>8. /\ e \in Databases /\ e.rows = {m[r] : r \in db.rows}
      /\ e.seq = base + Cardinality(C) /\ e.ledger = db.ledger
  <2>1. e = [db EXCEPT !.rows = R0, !.seq = base + Cardinality(C)]
    OBVIOUS
  <2> HIDE DEF e
  <2>2. R0 \in SUBSET Rows /\ R0 = {m[r] : r \in db.rows} /\ db \in Databases
    BY <1>2, <1>7
  <2>3. base + Cardinality(C) \in Nat
    BY <1>3, <1>4
  <2>4. e \in Databases /\ e.rows = R0 /\ e.seq = base + Cardinality(C) /\ e.ledger = db.ledger
    <3>1. R0 \in SUBSET Rows /\ db \in Databases
      BY <2>2
    <3>2. QED
      BY <2>1, <2>3, <3>1 DEF Databases
  <2>5. QED
    BY <2>2, <2>4
<1> HIDE DEF e
<1>9. \A r \in db.rows : /\ m[r] \in Rows /\ m[r].req = r.req /\ m[r].rseq = r.rseq
                         /\ m[r].acked = r.acked /\ m[r].bind = r.bind
                         /\ m[r].status = r.status /\ EventOf(m[r]) = EventOf(r)
  BY <1>5, <1>7 DEF EventOf
<1>10. \A r \in db.rows : /\ r.seq \in Nat /\ r.seq <= db.seq
                          /\ r.seq \in SeqsOf(C) => m[r].seq = Place(C, base, r.seq)
                          /\ r.seq \notin SeqsOf(C) => m[r].seq = r.seq
  BY <1>2, <1>6, <1>7 DEF Numbered, Rows
<1>11. \A r \in db.rows : /\ m[r].seq \in Nat /\ m[r].seq <= e.seq
                          /\ r.seq \in SeqsOf(C) => base < m[r].seq
  <2>1. SUFFICES ASSUME NEW r \in db.rows
                 PROVE  /\ m[r].seq \in Nat /\ m[r].seq <= e.seq
                        /\ r.seq \in SeqsOf(C) => base < m[r].seq
    OBVIOUS
  <2>2. CASE r.seq \in SeqsOf(C)
    BY <2>2, <1>4, <1>8, <1>10
  <2>3. CASE r.seq \notin SeqsOf(C)
    BY <2>3, <1>2, <1>3, <1>4, <1>8, <1>10
  <2>4. QED
    BY <2>2, <2>3
<1>12. \A r, x \in db.rows : m[r].seq = m[x].seq => r = x
  <2>1. SUFFICES ASSUME NEW r \in db.rows, NEW x \in db.rows, m[r].seq = m[x].seq
                 PROVE  r.seq = x.seq
    BY <1>2 DEF Numbered
  <2>2. CASE r.seq \in SeqsOf(C) /\ x.seq \in SeqsOf(C)
    BY <2>1, <2>2, <1>4, <1>10
  <2>3. CASE r.seq \notin SeqsOf(C) /\ x.seq \notin SeqsOf(C)
    BY <2>1, <2>3, <1>10
  <2>4. ASSUME NEW y \in db.rows, NEW z \in db.rows, m[y].seq = m[z].seq,
               y.seq \in SeqsOf(C), z.seq \notin SeqsOf(C)
        PROVE  FALSE
    BY <2>4, <1>2, <1>3, <1>10, <1>11
  <2>5. QED
    BY <2>1, <2>2, <2>3, <2>4
<1>13. Numbered(e)
  <2>1. \A r \in e.rows : r.seq <= e.seq /\ 1 <= r.rseq /\ r.rseq <= e.ledger[r.req].last
    <3>1. SUFFICES ASSUME NEW r \in db.rows
                   PROVE  /\ m[r].seq <= e.seq /\ 1 <= m[r].rseq
                          /\ m[r].rseq <= e.ledger[m[r].req].last
      BY <1>8
    <3>2. 1 <= r.rseq /\ r.rseq <= db.ledger[r.req].last
      BY <1>2 DEF Numbered
    <3>3. QED
      BY <3>2, <1>8, <1>9, <1>11
  <2>2. \A r, x \in db.rows : EventOf(m[r]) = EventOf(m[x]) => r = x
    BY <1>2, <1>9 DEF Numbered
  <2>3. \A r, x \in e.rows : r.seq = x.seq \/ EventOf(r) = EventOf(x) => r = x
    BY <2>2, <1>8, <1>12
  <2>4. QED
    BY <2>1, <2>3 DEF Numbered
<1>14. HeldUnbound(e)
  <2>1. \A r \in db.rows : r.bind = None => r.status = "unbound" /\ db.ledger[r.req].bind = None
    BY DEF Sound, HeldUnbound
  <2>2. QED
    BY <2>1, <1>8, <1>9 DEF HeldUnbound
<1>15. InOrder(e)
  <2>1. SUFFICES ASSUME NEW r \in db.rows, NEW x \in db.rows, ~m[r].acked, ~m[x].acked,
                        m[r].req = m[x].req, m[r].rseq < m[x].rseq
                 PROVE  m[r].seq < m[x].seq
    BY <1>8 DEF InOrder, Unacked
  <2>2. ~r.acked /\ ~x.acked /\ r.req = x.req /\ r.rseq < x.rseq
    BY <2>1, <1>9
  <2>3. r.seq < x.seq
    BY <2>2 DEF Sound, InOrder, Unacked
  <2>4. CASE r.seq \in SeqsOf(C)
    <3>1. x.seq \in SeqsOf(C)
      BY <2>2, <2>4, MoversTogether
    <3>2. QED
      BY <2>3, <2>4, <3>1, <1>4, <1>10
  <2>5. CASE r.seq \notin SeqsOf(C) /\ x.seq \notin SeqsOf(C)
    BY <2>3, <2>5, <1>10
  <2>6. CASE r.seq \notin SeqsOf(C) /\ x.seq \in SeqsOf(C)
    BY <2>6, <1>2, <1>3, <1>10, <1>11
  <2>7. QED
    BY <2>4, <2>5, <2>6
<1>16. Acknowledged(e, done)
  <2>1. \A r \in db.rows : r.acked => EventOf(r) \in done
    BY DEF Sound, Acknowledged
  <2>2. QED
    BY <2>1, <1>8, <1>9 DEF Acknowledged
<1>17. Kept(e, done)
  <2>1. SUFFICES ASSUME NEW q \in Requests, NEW n \in 1 .. db.ledger[q].last
                 PROVE  (\E r \in Unacked(e) : EventOf(r) = <<q, n>>) \/ <<q, n>> \in done
    BY <1>8 DEF Kept
  <2>2. (\E r \in Unacked(db) : EventOf(r) = <<q, n>>) \/ <<q, n>> \in done
    BY DEF Sound, Kept
  <2>3. ASSUME NEW r \in Unacked(db), EventOf(r) = <<q, n>>
        PROVE  \E x \in Unacked(e) : EventOf(x) = <<q, n>>
    <3>1. r \in db.rows /\ ~r.acked
      BY DEF Unacked
    <3>2. m[r] \in Unacked(e) /\ EventOf(m[r]) = <<q, n>>
      BY <2>3, <3>1, <1>8, <1>9 DEF Unacked
    <3>3. QED
      BY <3>2
  <2>4. QED
    BY <2>2, <2>3
<1>18. InStep(e, S)
  <2>1. SUFFICES ASSUME NEW x \in S
                 PROVE  /\ x.seq <= e.seq
                        /\ \A r \in db.rows : m[r].seq = x.seq =>
                             EventOf(m[r]) = EventOf(x) /\ (x.bind # None => m[r].bind # None)
    BY <1>8 DEF InStep
  <2>2. /\ x.seq \in Nat /\ x.seq <= db.seq
        /\ \A r \in db.rows : r.seq = x.seq =>
             EventOf(r) = EventOf(x) /\ (x.bind # None => r.bind # None)
    BY DEF Sound, InStep, Rows
  <2>3. x.seq <= e.seq
    BY <2>2, <1>2, <1>3, <1>4, <1>8
  <2>4. ASSUME NEW r \in db.rows, m[r].seq = x.seq
        PROVE  EventOf(m[r]) = EventOf(x) /\ (x.bind # None => m[r].bind # None)
    <3>1. r.seq \notin SeqsOf(C)
      BY <2>2, <2>4, <1>2, <1>3, <1>11
    <3>2. QED
      BY <2>2, <2>4, <3>1, <1>9, <1>10
  <2>5. QED
    BY <2>3, <2>4
<1>19. Sound(e, done, S)
  BY <1>2, <1>8, <1>13, <1>14, <1>15, <1>16, <1>17, <1>18 DEF Sound
<1>20. Granted(e, cons)
  BY <1>8, <1>9 DEF Granted
<1>21. QED
  BY <1>1, <1>19, <1>20

----------------------------------------------------------------------------
(* The writers of events.                                                  *)

\* Nobody else's request is written to, and writing binds nobody.
OnlyWrites(d, e, Q) ==
    /\ \A q \in Requests : e.ledger[q].bind = d.ledger[q].bind
    /\ \A q \in Requests \ Q : e.ledger[q].last = d.ledger[q].last

\* InsertSound and InsertGranted, for a writer that respects the bindings.
LEMMA WriteSound ==
    ASSUME NEW d, NEW done, NEW S, NEW cons, Sound(d, done, S), Granted(d, cons),
           NEW Q \in SUBSET Requests, NEW how \in Hows(d, Q), NEW kind \in Kinds,
           \A q \in Q : how[q].bind # None => how[q].bind.acct \in cons[q]
    PROVE  /\ Sound(Insert(d, how, kind), done, S) /\ Granted(Insert(d, how, kind), cons)
           /\ OnlyWrites(d, Insert(d, how, kind), Q)
<1>1. d \in Databases /\ Numbered(d)
  BY DEF Sound
<1>2. Sound(Insert(d, how, kind), done, S)
  BY InsertSound
<1>3. Granted(Insert(d, how, kind), cons)
  BY <1>1, InsertGranted
<1> DEFINE e == Insert(d, how, kind)
<1>4. \A q \in Requests : e.ledger[q] =
        [last |-> IF q \in Q THEN d.ledger[q].last + 1 ELSE d.ledger[q].last,
         bind |-> d.ledger[q].bind]
  BY <1>1, InsertShape
<1> HIDE DEF e
<1>5. ASSUME NEW q \in Requests
      PROVE  e.ledger[q].bind = d.ledger[q].bind
             /\ (q \notin Q => e.ledger[q].last = d.ledger[q].last)
  <2>1. e.ledger[q] = [last |-> IF q \in Q THEN d.ledger[q].last + 1 ELSE d.ledger[q].last,
                       bind |-> d.ledger[q].bind]
    BY <1>4
  <2>2. QED
    BY <2>1
<1>6. OnlyWrites(d, e, Q)
  BY <1>5 DEF OnlyWrites
<1>7. QED
  BY <1>2, <1>3, <1>6 DEF e

\* The insert trigger of a new request, which is bound to nobody.
LEMMA CreatedSound ==
    ASSUME NEW d, NEW done, NEW S, NEW cons, Sound(d, done, S), Granted(d, cons),
           NEW q \in Requests, d.ledger[q].bind = None
    PROVE  LET e == Insert(d, [x \in {q} |-> Held], "created")
           IN  Sound(e, done, S) /\ Granted(e, cons) /\ OnlyWrites(d, e, {q})
<1> DEFINE how == [x \in {q} |-> Held]
<1>1. how \in Hows(d, {q}) /\ how[q].bind = None
  BY DEF Hows, Held
<1>2. {q} \in SUBSET Requests /\ "created" \in Kinds
  BY DEF Kinds
<1>3. \A p \in {q} : how[p].bind # None => how[p].bind.acct \in cons[p]
  BY <1>1
<1> HIDE DEF how
<1>4. QED
  BY <1>1, <1>2, <1>3, WriteSound DEF how

\* The update trigger writes under the request's own binding.
LEMMA TriggerSound ==
    ASSUME NEW d, NEW done, NEW S, NEW cons, Sound(d, done, S), Granted(d, cons),
           NEW q \in Requests, NEW kind \in Kinds
    PROVE  /\ Sound(InsertByTrigger(d, q, kind), done, S)
           /\ Granted(InsertByTrigger(d, q, kind), cons)
           /\ OnlyWrites(d, InsertByTrigger(d, q, kind), {q})
<1> DEFINE b == d.ledger[q].bind
           how == [x \in {q} |-> IF b = None THEN Held ELSE To(b)]
<1>1. InsertByTrigger(d, q, kind) = Insert(d, how, kind)
  BY DEF InsertByTrigger
<1>2. b \in Bindings \cup {None} /\ (b # None => b.acct \in cons[q])
  BY DEF Sound, Databases, Granted
<1>3. how[q].bind = b /\ (b = None => how[q].status = "unbound")
      /\ how[q] \in [bind : Bindings \cup {None}, status : {"ready", "unbound", "moved"}]
  BY <1>2 DEF Held, To
<1>4. how \in Hows(d, {q})
  BY <1>3 DEF Hows
<1>5. {q} \in SUBSET Requests /\ \A p \in {q} : how[p].bind # None => how[p].bind.acct \in cons[p]
  BY <1>2, <1>3
<1> HIDE DEF how, b
<1>6. QED
  BY <1>1, <1>4, <1>5, WriteSound

\* append_request_snapshot_event follows the login only within the account.
LEMMA AppendSound ==
    ASSUME NEW d, NEW done, NEW S, NEW cons, Sound(d, done, S), Granted(d, cons),
           login \in Bindings \cup {None}, NEW Q \in SUBSET Requests, NEW kind \in Kinds
    PROVE  /\ Sound(Append(d, Q, kind), done, S)
           /\ Granted(Append(d, Q, kind), cons)
           /\ OnlyWrites(d, Append(d, Q, kind), Q)
<1> DEFINE how == [q \in Q |-> AppendBinding(d, q)]
<1>1. Append(d, Q, kind) = Insert(d, how, kind)
  BY DEF Append
<1>2. ASSUME NEW q \in Q
      PROVE  /\ how[q] \in [bind : Bindings \cup {None}, status : {"ready", "unbound", "moved"}]
             /\ how[q].bind = None => how[q].status = "unbound" /\ d.ledger[q].bind = None
             /\ how[q].bind # None => how[q].bind.acct \in cons[q]
  <2> DEFINE prior == d.ledger[q].bind
  <2>1. how[q] = AppendBinding(d, q)
    OBVIOUS
  <2>2. prior \in Bindings \cup {None} /\ (prior # None => prior.acct \in cons[q])
    BY DEF Sound, Databases, Granted
  <2>3. CASE prior = None
    BY <2>1, <2>2, <2>3 DEF AppendBinding, Held
  <2>4. CASE prior # None /\ login # None /\ login.acct = prior.acct
    BY <2>1, <2>2, <2>4 DEF AppendBinding, To
  <2>5. CASE prior # None /\ ~(login # None /\ login.acct = prior.acct)
    <3>1. AppendBinding(d, q) = [bind |-> prior, status |-> "moved"]
      BY <2>5 DEF AppendBinding
    <3> HIDE DEF prior
    <3>2. QED
      BY <2>1, <2>2, <2>5, <3>1
  <2>6. QED
    BY <2>3, <2>4, <2>5
<1>3. how \in Hows(d, Q)
  BY <1>2 DEF Hows
<1> HIDE DEF how
<1>4. QED
  BY <1>1, <1>2, <1>3, WriteSound

\* bind_review_events_for_request counts nothing and binds none but Q.
LEMMA BindFirstLedger ==
    ASSUME NEW d \in Databases, NEW Q, NEW q \in Requests
    PROVE  /\ BindFirst(d, Q).ledger[q].last = d.ledger[q].last
           /\ q \notin Q => BindFirst(d, Q).ledger[q].bind = d.ledger[q].bind
<1> DEFINE U == UNION {Unclaimed(d, p) : p \in Q}
           L == [p \in Requests |->
                   IF \E r \in U : r.req = p THEN [d.ledger[p] EXCEPT !.bind = login]
                                             ELSE d.ledger[p]]
           A == (d.rows \ U) \cup {[r EXCEPT !.bind = login, !.status = "ready"] : r \in U}
<1>1. \A u \in U : u.req \in Q
  BY DEF Unclaimed, RowsOf
<1>2. CASE login = None
  BY <1>2 DEF BindFirst
<1>3. CASE login # None
  <2>1. BindFirst(d, Q) = [d EXCEPT !.rows = A, !.ledger = L]
    BY <1>3 DEF BindFirst
  <2>2. d.ledger[q] \in [last : Nat, bind : Bindings \cup {None}]
    BY DEF Databases
  <2> HIDE DEF U
  <2>3. L[q].last = d.ledger[q].last /\ (q \notin Q => L[q].bind = d.ledger[q].bind)
    BY <2>2, <1>1
  <2> HIDE DEF L, A
  <2>4. BindFirst(d, Q).ledger = L
    BY <2>1 DEF Databases
  <2>5. QED
    BY <2>3, <2>4
<1>4. QED
  BY <1>2, <1>3

\* A first binding is noted as the request's consent.
LEMMA BindWithConsent ==
    ASSUME NEW d, NEW done, NEW S, Sound(d, done, S), Granted(d, consent),
           \A q \in Requests : d.ledger[q].bind = db.ledger[q].bind,
           login \in Bindings \cup {None}, NEW Q, NEW e,
           \A q \in Requests : e.ledger[q].bind = BindFirst(d, Q).ledger[q].bind
    PROVE  Sound(BindFirst(d, Q), done, S) /\ Granted(BindFirst(d, Q), Consents(e))
<1>1. \A q \in Requests : consent[q] \subseteq Consents(e)[q]
  BY DEF Consents
<1>2. \A q \in Requests :
        d.ledger[q].bind = None /\ BindFirst(d, Q).ledger[q].bind # None
          => BindFirst(d, Q).ledger[q].bind.acct \in Consents(e)[q]
  BY DEF Consents
<1>3. QED
  BY <1>1, <1>2, BindFirstSound

\* requeue_pending_request_events writes for pending requests only.
LEMMA RequeueSound ==
    ASSUME NEW done, NEW S, Sound(db, done, S), Granted(db, consent),
           login \in Bindings \cup {None}, NEW after, DOMAIN after \subseteq Requests,
           NEW require \in BOOLEAN, NEW e, e = Requeue(db, after, require)
    PROVE  /\ Sound(e, done, S) /\ Granted(e, Consents(e))
           /\ \A q \in Requests : status[q] # "pending" =>
                e.ledger[q].last = db.ledger[q].last /\ e.ledger[q].bind = db.ledger[q].bind
<1> DEFINE Q == {q \in DOMAIN after :
                   /\ status[q] = "pending"
                   /\ require => login # None /\ db.ledger[q].bind = login
                   /\ ~HasSnapshot(db, q, after[q])}
           b == BindFirst(db, Q)
<1>1. e = Append(b, Q, "snapshot")
  BY DEF Requeue
<1>2. Q \in SUBSET Requests /\ "snapshot" \in Kinds /\ \A q \in Q : status[q] = "pending"
  BY DEF Kinds
<1> HIDE DEF Q
<1>3. \A q \in Requests : /\ b.ledger[q].last = db.ledger[q].last
                          /\ q \notin Q => b.ledger[q].bind = db.ledger[q].bind
  BY BindFirstLedger DEF Sound
<1>4. Sound(b, done, S)
  <2>1. Sound(BindFirst(db, Q), done, S) /\ Granted(BindFirst(db, Q), Consents(BindFirst(db, Q)))
    BY BindWithConsent
  <2>2. QED
    BY <2>1
<1> HIDE DEF b
<1>5. Granted(b, [q \in Requests |-> {b.ledger[q].bind.acct} \cup {r.bind.acct : r \in RowsOf(b, q)}])
  <2>1. \A r \in b.rows : r.req \in Requests
    BY <1>4 DEF Sound, Databases, Rows
  <2>2. QED
    BY <2>1 DEF Granted, RowsOf
<1>6. OnlyWrites(b, e, Q)
  BY <1>1, <1>2, <1>4, <1>5, AppendSound
<1>7. Granted(b, Consents(e))
  BY <1>6, BindWithConsent DEF OnlyWrites, b
<1>8. Sound(e, done, S) /\ Granted(e, Consents(e))
  BY <1>1, <1>2, <1>4, <1>7, AppendSound
<1>9. QED
  BY <1>2, <1>3, <1>6, <1>8 DEF OnlyWrites

\* explicitly_reassign_quarantined_events counts nothing.
LEMMA AdoptLedger ==
    ASSUME NEW d \in Databases, NEW b, NEW onlyUnbound, NEW q \in Requests
    PROVE  Adopt(d, b, onlyUnbound).ledger[q].last = d.ledger[q].last
<1> DEFINE R == Adoptable(d, b, onlyUnbound)
           A == (d.rows \ R) \cup {[r EXCEPT !.bind = b, !.status = "ready"] : r \in R}
           L == [p \in Requests |->
                   IF \E r \in R : r.req = p THEN [d.ledger[p] EXCEPT !.bind = b]
                                             ELSE d.ledger[p]]
<1>1. Adopt(d, b, onlyUnbound) = [d EXCEPT !.rows = A, !.ledger = L]
  BY DEF Adopt
<1> HIDE DEF R
<1>2. d.ledger[q] \in [last : Nat, bind : Bindings \cup {None}]
  BY DEF Databases
<1>3. L[q].last = d.ledger[q].last
  BY <1>2
<1> HIDE DEF L, A
<1>4. Adopt(d, b, onlyUnbound).ledger = L
  BY <1>1 DEF Databases
<1>5. QED
  BY <1>3, <1>4

\* More may be delivered and less remembered.
LEMMA SoundMonotone ==
    ASSUME NEW d, NEW done, NEW S, Sound(d, done, S),
           NEW more, done \subseteq more, NEW T \in SUBSET S
    PROVE  Sound(d, more, T)
<1>1. Acknowledged(d, more)
  BY DEF Sound, Acknowledged
<1>2. Kept(d, more)
  BY DEF Sound, Kept
<1>3. InStep(d, T)
  BY DEF Sound, InStep
<1>4. QED
  BY <1>1, <1>2, <1>3 DEF Sound

\* The outbox is finite: its numbers are, and no two rows share one.
LEMMA RowsFinite ==
    ASSUME NEW d \in Databases, Numbered(d)
    PROVE  IsFiniteSet(d.rows)
<1> DEFINE f == [r \in d.rows |-> r.seq]
<1>1. d.seq \in Nat /\ \A r \in d.rows : r.seq \in Nat /\ r.seq <= d.seq
  BY DEF Databases, Numbered, Rows
<1>2. f \in [d.rows -> 0 .. d.seq]
  BY <1>1
<1>3. \A r, x \in d.rows : f[r] = f[x] => r = x
  BY DEF Numbered
<1> HIDE DEF f
<1>4. f \in Injection(d.rows, 0 .. d.seq)
  BY <1>2, <1>3 DEF Injection, IsInjective
<1>5. IsFiniteSet(0 .. d.seq)
  BY <1>1, FS_Interval
<1>6. QED
  BY <1>4, <1>5, FS_Injection

\* The oldest of the rows is one of them.
LEMMA FirstOfFacts ==
    ASSUME NEW R \in SUBSET Rows, R # {}
    PROVE  FirstOf(R) \in R
<1>1. SeqsOf(R) \in SUBSET Nat /\ SeqsOf(R) # {}
  BY DEF SeqsOf, Rows
<1>2. PICK n \in SeqsOf(R) : \A t \in SeqsOf(R) : n <= t
  BY <1>1, LeastNumber
<1>3. \E r \in R : \A x \in R : r.seq <= x.seq
  BY <1>2 DEF SeqsOf
<1>4. QED
  BY <1>3 DEF FirstOf

----------------------------------------------------------------------------
(* The invariant of the outbox.                                            *)

\* What the worker still wants to do something about, and with it what the
\* refreshers have selected.
InRound == sync.batch \cup DOMAIN sync.ans
Remembered == InRound \cup UNION {refresh[p].rows : p \in Refreshers}

\* The worker's round.  What it is about to acknowledge was delivered.
WorkerSound ==
    /\ sync = [pc |-> sync.pc, bind |-> sync.bind, batch |-> sync.batch, ans |-> sync.ans]
    /\ sync.pc \in {"idle", "rebind", "list", "post", "settle"}
    /\ sync.bind \in Bindings \cup {None}
    /\ sync.pc = "rebind" => sync.bind # None
    /\ IsFiniteSet(InRound)
    /\ \A s \in DOMAIN sync.ans : sync.ans[s] = "ok" => EventOf(s) \in settled

\* A refresher that is under way has an identity, and selected bound rows.
Refreshing == [pc : {"idle", "select", "write"}, bind : Bindings \cup {None}, rows : SUBSET Rows]
RefreshersSound ==
    /\ refresh \in [Refreshers -> Refreshing]
    /\ \A p \in Refreshers : /\ refresh[p].pc # "idle" => refresh[p].bind # None
                             /\ \A r \in refresh[p].rows : r.bind # None

\* The login and the requests.
Surroundings ==
    /\ login \in Bindings \cup {None}
    /\ status \in [Requests -> {"absent", "pending", "resolved"}]
    /\ drift \subseteq Requests

\* A request that was not made yet wrote nothing and belongs to nobody.
Untouched ==
    \A q \in Requests : status[q] = "absent" => db.ledger[q].last = 0 /\ consent[q] = {}

\* What the outbox and its worker keep by themselves.
OutboxInvariant ==
    /\ Surroundings /\ WorkerSound /\ RefreshersSound /\ Untouched
    /\ Sound(db, settled \cup replaced, Remembered)
    /\ Granted(db, consent)

\* A request that was not made yet is bound to nobody.
LEMMA AbsentUnbound ==
    ASSUME OutboxInvariant, NEW q \in Requests, status[q] = "absent"
    PROVE  db.ledger[q].bind = None
BY DEF OutboxInvariant, Untouched, Granted

\* Everything in the outbox comes from a request that was made.
LEMMA RowsKnown ==
    ASSUME OutboxInvariant, NEW r \in db.rows
    PROVE  r.req \in Requests /\ status[r.req] # "absent"
<1>1. r.req \in Requests /\ r.rseq \in Nat
  BY DEF OutboxInvariant, Sound, Databases, Rows
<1>2. 1 <= r.rseq /\ r.rseq <= db.ledger[r.req].last
  BY DEF OutboxInvariant, Sound, Numbered
<1>3. QED
  BY <1>1, <1>2 DEF OutboxInvariant, Untouched

----------------------------------------------------------------------------
(* The other processes.                                                    *)

\* A step that is none of the worker's.
LEMMA OthersKeep ==
    ASSUME OutboxInvariant, UNCHANGED <<sync, refresh, settled, replaced>>,
           Surroundings', Untouched',
           Sound(db', settled \cup replaced, Remembered), Granted(db', consent')
    PROVE  OutboxInvariant'
<1>1. WorkerSound' /\ RefreshersSound' /\ Remembered' = Remembered
  BY DEF OutboxInvariant, WorkerSound, RefreshersSound, InRound, Remembered
<1>2. Sound(db, settled \cup replaced, Remembered)'
  BY <1>1
<1>3. QED
  BY <1>1, <1>2 DEF OutboxInvariant

\* add_approval_request
LEMMA CreateRequestKeeps ==
    ASSUME OutboxInvariant, NEW q \in Requests, CreateRequest(q)
    PROVE  OutboxInvariant'
<1> DEFINE done == settled \cup replaced
           d == Insert(db, [x \in {q} |-> Held], "created")
<1>1. /\ status[q] = "absent" /\ db' = BindFirst(d, {q}) /\ consent' = Consents(db')
      /\ status' = [status EXCEPT ![q] = "pending"] /\ UNCHANGED <<login, sync, refresh, settled, replaced>>
      /\ \E D \in {{}, {q}} : drift' = drift \cup D
  BY DEF CreateRequest
<1>2. db.ledger[q].bind = None
  BY <1>1, AbsentUnbound
<1>3. Sound(d, done, Remembered) /\ Granted(d, consent) /\ OnlyWrites(db, d, {q})
  BY <1>2, CreatedSound DEF OutboxInvariant
<1> HIDE DEF d
<1>4. Surroundings'
  BY <1>1 DEF OutboxInvariant, Surroundings
<1>5. Sound(db', done, Remembered) /\ Granted(db', consent')
  <2>1. login \in Bindings \cup {None}
    BY DEF OutboxInvariant, Surroundings
  <2>2. \A p \in Requests : d.ledger[p].bind = db.ledger[p].bind
    BY <1>3 DEF OnlyWrites
  <2> DEFINE e == BindFirst(d, {q})
  <2>3. \A p \in Requests : e.ledger[p].bind = BindFirst(d, {q}).ledger[p].bind
    OBVIOUS
  <2> HIDE DEF e, done
  <2>4. Sound(BindFirst(d, {q}), done, Remembered) /\ Granted(BindFirst(d, {q}), Consents(e))
    BY <1>3, <2>1, <2>2, <2>3, BindWithConsent
  <2>5. QED
    BY <1>1, <2>4 DEF e
<1>6. Untouched'
  <2>1. SUFFICES ASSUME NEW p \in Requests, status'[p] = "absent"
                 PROVE  db'.ledger[p].last = 0 /\ consent'[p] = {}
    BY DEF Untouched
  <2>2. status \in [Requests -> {"absent", "pending", "resolved"}]
    BY DEF OutboxInvariant, Surroundings
  <2>3. p # q /\ status[p] = "absent"
    BY <1>1, <2>1, <2>2
  <2>4. db.ledger[p].last = 0 /\ consent[p] = {} /\ db.ledger[p].bind = None
    BY <2>3, AbsentUnbound DEF OutboxInvariant, Untouched
  <2>5. d.ledger[p].last = 0 /\ d.ledger[p].bind = None
    BY <2>3, <2>4, <1>3 DEF OnlyWrites
  <2>6. db'.ledger[p].last = 0 /\ db'.ledger[p].bind = None
    BY <2>3, <2>5, <1>1, <1>3, BindFirstLedger DEF Sound
  <2>7. QED
    BY <1>1, <2>4, <2>6 DEF Consents
<1>7. QED
  BY <1>1, <1>4, <1>5, <1>6, OthersKeep

\* The update triggers.
LEMMA UpdateKeeps ==
    ASSUME OutboxInvariant, NEW q \in Requests, RefreshRequest(q) \/ ResolveRequest(q)
    PROVE  OutboxInvariant'
<1> DEFINE done == settled \cup replaced
<1>1. PICK kind \in Kinds : db' = InsertByTrigger(db, q, kind)
  BY DEF RefreshRequest, ResolveRequest, Kinds
<1>2. /\ status[q] = "pending" /\ UNCHANGED <<login, drift, sync, refresh, settled, replaced, consent>>
      /\ status' = status \/ status' = [status EXCEPT ![q] = "resolved"]
  BY DEF RefreshRequest, ResolveRequest
<1>3. Sound(db', done, Remembered) /\ Granted(db', consent) /\ OnlyWrites(db, db', {q})
  BY <1>1, TriggerSound DEF OutboxInvariant
<1>4. Surroundings'
  BY <1>2 DEF OutboxInvariant, Surroundings
<1>5. Untouched'
  <2>1. SUFFICES ASSUME NEW p \in Requests, status'[p] = "absent"
                 PROVE  db'.ledger[p].last = 0 /\ consent'[p] = {}
    BY DEF Untouched
  <2>2. p # q /\ status[p] = "absent"
    BY <1>2, <2>1 DEF OutboxInvariant, Surroundings
  <2>3. QED
    BY <1>2, <1>3, <2>2 DEF OutboxInvariant, Untouched, OnlyWrites
<1>6. QED
  BY <1>2, <1>3, <1>4, <1>5, OthersKeep

\* Connecting or disconnecting touches no row.
LEMMA ChangeLoginKeeps ==
    ASSUME OutboxInvariant, NEW b \in Logins \cup {None}, ChangeLogin(b)
    PROVE  OutboxInvariant'
<1>1. login' = b /\ UNCHANGED <<db, status, drift, sync, refresh, settled, replaced, consent>>
  BY DEF ChangeLogin
<1>2. Surroundings' /\ Untouched'
  BY <1>1, OutboxConstants DEF OutboxInvariant, Surroundings, Untouched
<1>3. QED
  BY <1>1, <1>2, OthersKeep DEF OutboxInvariant

\* reassign_quarantined_review_events
LEMMA ReassignHeldKeeps ==
    ASSUME OutboxInvariant, NEW onlyUnbound \in BOOLEAN, ReassignHeld(onlyUnbound)
    PROVE  OutboxInvariant'
<1> DEFINE done == settled \cup replaced
           R == Adoptable(db, login, onlyUnbound)
<1>1. /\ login # None /\ db' = Adopt(db, login, onlyUnbound)
      /\ UNCHANGED <<login, status, drift, sync, refresh, settled, replaced>>
      /\ consent' = [q \in Requests |->
           consent[q] \cup {login.acct : r \in {x \in R : x.req = q}}]
  BY DEF ReassignHeld
<1>2. login \in Bindings /\ db \in Databases
  BY <1>1 DEF OutboxInvariant, Surroundings, Sound
<1>3. R \subseteq db.rows
  BY DEF Adoptable
<1>4. \A r \in R : r.req \in Requests /\ status[r.req] # "absent"
  BY <1>3, RowsKnown
<1>5. /\ \A q \in Requests : consent[q] \subseteq consent'[q]
      /\ \A r \in R : login.acct \in consent'[r.req]
  <2> HIDE DEF R
  <2>1. QED
    BY <1>1, <1>4
<1>6. Sound(db', done, Remembered) /\ Granted(db', consent')
  BY <1>1, <1>2, <1>5, AdoptSound DEF OutboxInvariant
<1>7. Surroundings'
  BY <1>1 DEF OutboxInvariant, Surroundings
<1>8. Untouched'
  <2>1. SUFFICES ASSUME NEW q \in Requests, status[q] = "absent"
                 PROVE  db'.ledger[q].last = 0 /\ consent'[q] = {}
    BY <1>1 DEF Untouched
  <2>2. db'.ledger[q].last = db.ledger[q].last
    BY <1>1, <1>2, AdoptLedger
  <2>3. ~\E r \in R : r.req = q
    BY <2>1, <1>4
  <2> HIDE DEF R
  <2>4. QED
    BY <1>1, <2>1, <2>2, <2>3 DEF OutboxInvariant, Untouched
<1>9. QED
  BY <1>1, <1>6, <1>7, <1>8, OthersKeep

\* What a requeue leaves alone.
LEMMA RequeueUntouched ==
    ASSUME OutboxInvariant, NEW after, DOMAIN after \subseteq Requests,
           NEW require \in BOOLEAN, db' = Requeue(db, after, require),
           consent' = Consents(db'), UNCHANGED status
    PROVE  /\ Sound(db', settled \cup replaced, Remembered) /\ Granted(db', consent')
           /\ Untouched'
<1>1. login \in Bindings \cup {None}
  BY DEF OutboxInvariant, Surroundings
<1>2. /\ Sound(db', settled \cup replaced, Remembered) /\ Granted(db', consent')
      /\ \A q \in Requests : status[q] # "pending" =>
           db'.ledger[q].last = db.ledger[q].last /\ db'.ledger[q].bind = db.ledger[q].bind
  BY <1>1, RequeueSound DEF OutboxInvariant
<1>3. Untouched'
  <2>1. SUFFICES ASSUME NEW q \in Requests, status[q] = "absent"
                 PROVE  db'.ledger[q].last = 0 /\ consent'[q] = {}
    BY DEF Untouched
  <2>2. db.ledger[q].last = 0 /\ consent[q] = {} /\ db.ledger[q].bind = None
    BY <2>1, AbsentUnbound DEF OutboxInvariant, Untouched
  <2>3. db'.ledger[q].last = 0 /\ db'.ledger[q].bind = None
    BY <2>1, <2>2, <1>2
  <2>4. QED
    BY <2>2, <2>3 DEF Consents
<1>4. QED
  BY <1>2, <1>3

\* requeue_pending_review_events
LEMMA RequeuePendingKeeps ==
    ASSUME OutboxInvariant, NEW require \in BOOLEAN, NEW Q \in SUBSET Requests,
           RequeuePending(require, Q)
    PROVE  OutboxInvariant'
<1> DEFINE after == [q \in Q |-> 0]
<1>1. /\ db' = Requeue(db, after, require) /\ consent' = Consents(db')
      /\ UNCHANGED <<login, status, drift, sync, refresh, settled, replaced>>
  BY DEF RequeuePending
<1>2. DOMAIN after \subseteq Requests
  OBVIOUS
<1> HIDE DEF after
<1>3. /\ Sound(db', settled \cup replaced, Remembered) /\ Granted(db', consent')
      /\ Untouched'
  BY <1>1, <1>2, RequeueUntouched
<1>4. Surroundings'
  BY <1>1 DEF OutboxInvariant, Surroundings
<1>5. QED
  BY <1>1, <1>3, <1>4, OthersKeep

\* The next attempt becomes due.
LEMMA TimePassesKeeps ==
    ASSUME OutboxInvariant, TimePasses
    PROVE  OutboxInvariant'
<1>1. /\ db' = [db EXCEPT !.rows = {[r EXCEPT !.due = TRUE] : r \in @}]
      /\ UNCHANGED <<login, status, drift, sync, refresh, settled, replaced, consent>>
  BY DEF TimePasses, MapRows
<1>2. Sound(db', settled \cup replaced, Remembered) /\ Granted(db', consent')
  BY <1>1, DueSound DEF OutboxInvariant
<1>3. db'.ledger = db.ledger
  BY <1>1 DEF OutboxInvariant, Sound, Databases
<1>4. Surroundings' /\ Untouched'
  BY <1>1, <1>3 DEF OutboxInvariant, Surroundings, Untouched
<1>5. QED
  BY <1>1, <1>2, <1>4, OthersKeep

----------------------------------------------------------------------------
(* The worker.                                                             *)

\* A step of the worker: more may be delivered or replaced, and what it
\* remembers it remembered before.
LEMMA WorkerKeeps ==
    ASSUME OutboxInvariant, UNCHANGED <<login, status, refresh, consent>>, drift' \subseteq drift,
           WorkerSound', InRound' \subseteq InRound, Untouched',
           Sound(db', settled' \cup replaced', Remembered), Granted(db', consent)
    PROVE  OutboxInvariant'
<1>1. Surroundings'
  BY DEF OutboxInvariant, Surroundings
<1>2. Remembered' \in SUBSET Remembered
  BY DEF Remembered
<1>3. Sound(db', settled' \cup replaced', Remembered')
  BY <1>2, SoundMonotone
<1>4. RefreshersSound'
  BY DEF OutboxInvariant, RefreshersSound
<1>5. QED
  BY <1>1, <1>3, <1>4 DEF OutboxInvariant

\* A step that changes no request.
LEMMA LedgerKept ==
    ASSUME OutboxInvariant, UNCHANGED <<status, consent>>,
           \A q \in Requests : db'.ledger[q].last = db.ledger[q].last
    PROVE  Untouched'
BY DEF OutboxInvariant, Untouched

\* Marking, deleting, postponing and renumbering rows does not count events.
LEMMA LedgerAlone ==
    ASSUME NEW d \in Databases, NEW b, NEW seqs, NEW n, NEW C, NEW through
    PROVE  /\ Acknowledge(d, b, seqs).ledger = d.ledger
           /\ Postpone(d, b, seqs).ledger = d.ledger
           /\ DeadLetter(d, b, n).ledger = d.ledger
           /\ Renumber(d, C, through).ledger = d.ledger
<1>1. Postpone(d, b, seqs).ledger = d.ledger
  BY DEF Databases, Postpone, MapRows
<1>2. DeadLetter(d, b, n).ledger = d.ledger
  BY DEF Databases, DeadLetter, MapRows
<1>3. Acknowledge(d, b, seqs).ledger = d.ledger
  BY DEF Databases, Acknowledge, MapRows
<1>4. Renumber(d, C, through).ledger = d.ledger
  BY DEF Databases, Renumber, MapRows
<1>5. QED
  BY <1>1, <1>2, <1>3, <1>4

\* What is remembered are rows; the worker remembers finitely many.
LEMMA RememberedFacts ==
    ASSUME OutboxInvariant
    PROVE  /\ Remembered \subseteq Rows /\ IsFiniteSet(InRound) /\ InRound \subseteq Remembered
           /\ sync.batch \subseteq Remembered /\ DOMAIN sync.ans \subseteq Remembered
           /\ \A v : Answered(v) \subseteq DOMAIN sync.ans /\ Answered(v) \subseteq InRound
           /\ db \in Databases
BY DEF OutboxInvariant, WorkerSound, Sound, InRound, Remembered, Answered

\* The empty sequence answers nothing.
LEMMA NoAnswers == DOMAIN <<>> = {}
OBVIOUS

\* Dealing with some of the answers.
LEMMA ProceedKeeps ==
    ASSUME OutboxInvariant, sync.pc = "settle", UNCHANGED settled, NEW ans, Proceed(ans),
           DOMAIN ans \subseteq DOMAIN sync.ans,
           \A s \in DOMAIN ans : ans[s] = "ok" => sync.ans[s] = "ok"
    PROVE  WorkerSound' /\ InRound' \subseteq InRound
<1>1. /\ sync = [pc |-> sync.pc, bind |-> sync.bind, batch |-> sync.batch, ans |-> sync.ans]
      /\ sync.bind \in Bindings \cup {None} /\ IsFiniteSet(InRound)
      /\ \A s \in DOMAIN sync.ans : sync.ans[s] = "ok" => EventOf(s) \in settled
  BY DEF OutboxInvariant, WorkerSound
<1>2. CASE DOMAIN ans = {}
  <2>1. sync' = [pc |-> "list", bind |-> sync.bind, batch |-> {}, ans |-> <<>>]
    BY <1>2 DEF Proceed, AtRest
  <2>2. sync'.ans = <<>> /\ sync'.batch = {}
    BY <2>1
  <2>3. DOMAIN sync'.ans = {}
    BY <2>2, NoAnswers
  <2>4. InRound' = {}
    BY <2>2, <2>3 DEF InRound
  <2>5. QED
    BY <1>1, <2>1, <2>3, <2>4, FS_EmptySet DEF WorkerSound
<1>3. CASE DOMAIN ans # {}
  <2>1. sync' = [pc |-> sync.pc, bind |-> sync.bind, batch |-> sync.batch, ans |-> ans]
    BY <1>1, <1>3 DEF Proceed
  <2>2. InRound' \subseteq InRound
    BY <2>1 DEF InRound
  <2>3. IsFiniteSet(InRound')
    BY <1>1, <2>2, FS_Subset
  <2>4. QED
    BY <1>1, <2>1, <2>2, <2>3 DEF WorkerSound
<1>4. QED
  BY <1>2, <1>3

\* A round that is at rest remembers nothing.
LEMMA RestKeeps ==
    ASSUME OutboxInvariant, NEW pc \in {"idle", "rebind", "list"},
           NEW b \in Bindings \cup {None}, pc = "rebind" => b # None,
           sync' = [pc |-> pc, bind |-> b, batch |-> {}, ans |-> <<>>]
    PROVE  WorkerSound' /\ InRound' \subseteq InRound
<1>1. sync'.ans = <<>> /\ sync'.batch = {} /\ sync'.pc = pc /\ sync'.bind = b
  OBVIOUS
<1>2. DOMAIN sync'.ans = {}
  BY <1>1, NoAnswers
<1>3. InRound' = {}
  BY <1>1, <1>2 DEF InRound
<1>4. QED
  BY <1>1, <1>2, <1>3, FS_EmptySet DEF WorkerSound

\* The round takes the identity that is logged in.
LEMMA SyncBeginKeeps ==
    ASSUME OutboxInvariant, SyncBegin
    PROVE  OutboxInvariant'
<1>1. /\ login # None /\ sync' = [pc |-> "rebind", bind |-> login, batch |-> {}, ans |-> <<>>]
      /\ UNCHANGED <<db, login, status, drift, refresh, settled, replaced, consent>>
  BY DEF SyncBegin, AtRest
<1>2. login \in Bindings \cup {None}
  BY DEF OutboxInvariant, Surroundings
<1>3. WorkerSound' /\ InRound' \subseteq InRound
  BY <1>1, <1>2, RestKeeps
<1>4. Untouched'
  BY <1>1, LedgerKept
<1>5. QED
  BY <1>1, <1>3, <1>4, WorkerKeeps DEF OutboxInvariant

\* A refresher that does nothing has nothing in mind.
LEMMA NoRefreshFacts ==
    /\ NoRefresh \in Refreshing /\ NoRefresh.rows = {} /\ NoRefresh.pc = "idle"
    /\ Loaded.rows = {} /\ Loaded.bind = login /\ Loaded.pc = "select"
    /\ login \in Bindings \cup {None} => Loaded \in Refreshing
BY DEF NoRefresh, Loaded, Refreshing

\* A step of a refresher, to x: what it selects is in the outbox, and bound.
LEMMA RefresherKeeps ==
    ASSUME OutboxInvariant, UNCHANGED <<login, status, drift, settled, replaced, consent>>,
           WorkerSound', InRound' \subseteq InRound, Untouched',
           Sound(db', settled \cup replaced, Remembered), Granted(db', consent),
           NEW p \in Refreshers, NEW x \in Refreshing, refresh' = [refresh EXCEPT ![p] = x],
           x.pc # "idle" => x.bind # None,
           \A r \in x.rows : r \in db'.rows /\ r.bind # None
    PROVE  OutboxInvariant'
<1>1. Surroundings'
  BY DEF OutboxInvariant, Surroundings
<1>2. refresh \in [Refreshers -> Refreshing]
  BY DEF OutboxInvariant, RefreshersSound
<1>3. refresh'[p] = x /\ \A a \in Refreshers : a # p => refresh'[a] = refresh[a]
  BY <1>2
<1>4. RefreshersSound'
  BY <1>2, <1>3 DEF OutboxInvariant, RefreshersSound
<1>5. Remembered' \subseteq Remembered \cup x.rows
  <2>1. \A a \in Refreshers : refresh'[a].rows \subseteq refresh[a].rows \cup x.rows
    BY <1>3
  <2>2. QED
    BY <2>1 DEF Remembered
<1>6. /\ db' \in Databases /\ Numbered(db') /\ InStep(db', Remembered)
      /\ x.rows \subseteq Rows /\ Remembered \subseteq Rows
  BY DEF Sound, Refreshing
<1>7. InStep(db', Remembered')
  <2>1. SUFFICES ASSUME NEW s \in Remembered \cup x.rows
                 PROVE  /\ s.seq <= db'.seq
                        /\ \A r \in db'.rows : r.seq = s.seq =>
                             EventOf(r) = EventOf(s) /\ (s.bind # None => r.bind # None)
    BY <1>5 DEF InStep
  <2>2. CASE s \in Remembered
    BY <2>2, <1>6 DEF InStep
  <2>3. CASE s \in x.rows
    BY <2>3, <1>6 DEF Numbered
  <2>4. QED
    BY <2>2, <2>3
<1>8. Sound(db', settled' \cup replaced', Remembered')
  BY <1>5, <1>6, <1>7 DEF Sound
<1>9. QED
  BY <1>1, <1>4, <1>8 DEF OutboxInvariant

\* What a step of a refresher leaves of the worker's round.
LEMMA RoundStays ==
    ASSUME OutboxInvariant, UNCHANGED <<sync, settled>>
    PROVE  WorkerSound' /\ InRound' \subseteq InRound
BY DEF OutboxInvariant, WorkerSound, InRound

\* repair_guard_cloud_connect_storage loads the identity.
LEMMA RepairBeginKeeps ==
    ASSUME OutboxInvariant, NEW p \in Refreshers, RepairBegin(p)
    PROVE  OutboxInvariant'
<1>1. /\ login # None /\ refresh' = [refresh EXCEPT ![p] = Loaded]
      /\ UNCHANGED <<db, login, status, drift, sync, settled, replaced, consent>>
  BY DEF RepairBegin
<1>2. Untouched' /\ Sound(db', settled \cup replaced, Remembered) /\ Granted(db', consent)
  BY <1>1, LedgerKept DEF OutboxInvariant
<1>3. login \in Bindings \cup {None}
  BY DEF OutboxInvariant, Surroundings
<1>4. Loaded \in Refreshing /\ Loaded.bind # None /\ Loaded.rows = {}
  BY <1>1, <1>3, NoRefreshFacts
<1> HIDE DEF Loaded
<1>5. QED
  BY <1>1, <1>2, <1>4, RoundStays, RefresherKeeps

\* refresh_same_subject_binding reads the candidates.
LEMMA RefreshSelectKeeps ==
    ASSUME OutboxInvariant, NEW p \in Refreshers, RefreshSelect(p)
    PROVE  OutboxInvariant'
<1> DEFINE R == Candidates(db, refresh[p].bind)
           x == [pc |-> "write", bind |-> refresh[p].bind, rows |-> R]
<1>1. /\ refresh[p].pc = "select"
      /\ refresh' = [refresh EXCEPT ![p] = x]
      /\ UNCHANGED <<db, login, status, drift, sync, settled, replaced, consent>>
  BY DEF RefreshSelect
<1>2. /\ refresh \in [Refreshers -> Refreshing]
      /\ refresh[p].bind \in Bindings /\ refresh[p].bind # None
  BY <1>1 DEF OutboxInvariant, RefreshersSound, Refreshing
<1>3. \A r \in R : r \in db.rows /\ r.bind # None
  BY DEF Candidates, OutboxInvariant, Sound, HeldUnbound
<1>4. R \subseteq Rows
  BY <1>3 DEF OutboxInvariant, Sound, Databases
<1> HIDE DEF R
<1>5. x \in Refreshing /\ x.bind # None /\ x.rows = R
  BY <1>2, <1>4 DEF Refreshing
<1> HIDE DEF x
<1>6. Untouched' /\ Sound(db', settled \cup replaced, Remembered) /\ Granted(db', consent)
  BY <1>1, LedgerKept DEF OutboxInvariant
<1>7. QED
  BY <1>1, <1>3, <1>5, <1>6, RoundStays, RefresherKeeps

\* refresh_same_subject_binding writes, whatever became of the rows it selected
\* and of the login.
LEMMA RefreshWriteKeeps ==
    ASSUME OutboxInvariant, NEW p \in Refreshers, RefreshWrite(p)
    PROVE  OutboxInvariant'
<1> DEFINE b == refresh[p].bind
           R == refresh[p].rows
<1>1. /\ refresh[p].pc = "write" /\ db' = Rebind(db, b, SeqsOf(R))
      /\ refresh' = [refresh EXCEPT ![p] = NoRefresh]
      /\ UNCHANGED <<login, status, drift, sync, settled, replaced, consent>>
  BY DEF RefreshWrite
<1>2. b \in Bindings /\ \A r \in R : r.bind # None
  BY <1>1 DEF OutboxInvariant, RefreshersSound, Refreshing
<1>3. R \subseteq Remembered
  BY DEF Remembered
<1> HIDE DEF b, R
<1>4. \A r \in db.rows : r.seq \in SeqsOf(R) => r.bind # None
  BY <1>2, <1>3 DEF SeqsOf, OutboxInvariant, Sound, InStep
<1>5. /\ Sound(db', settled \cup replaced, Remembered) /\ Granted(db', consent)
      /\ \A q \in Requests : db'.ledger[q].last = db.ledger[q].last
  BY <1>1, <1>2, <1>4, RebindSound DEF OutboxInvariant
<1>6. Untouched'
  BY <1>1, <1>5, LedgerKept
<1>7. QED
  BY <1>1, <1>5, <1>6, NoRefreshFacts, RoundStays, RefresherKeeps

\* refresh_review_event_outbox_binding_for_identity
LEMMA SyncRebindKeeps ==
    ASSUME OutboxInvariant, SyncRebind
    PROVE  OutboxInvariant'
<1>1. /\ sync.pc = "rebind"
      /\ refresh' = IF login = sync.bind THEN [refresh EXCEPT ![Worker] = Loaded] ELSE refresh
      /\ sync' = [sync EXCEPT !.pc = "list"]
      /\ UNCHANGED <<db, login, status, drift, settled, replaced, consent>>
  BY DEF SyncRebind
<1>2. WorkerSound
  BY DEF OutboxInvariant
<1>3. sync' = [pc |-> "list", bind |-> sync.bind, batch |-> sync.batch, ans |-> sync.ans]
  BY <1>1, <1>2 DEF WorkerSound
<1>4. InRound' = InRound
  BY <1>3 DEF InRound
<1>5. WorkerSound'
  BY <1>1, <1>2, <1>3, <1>4 DEF WorkerSound
<1>6. Untouched' /\ Sound(db', settled \cup replaced, Remembered) /\ Granted(db', consent)
  BY <1>1, LedgerKept DEF OutboxInvariant
<1>7. CASE login = sync.bind
  <2>1. login \in Bindings \cup {None} /\ login # None
    BY <1>1, <1>2, <1>7 DEF WorkerSound
  <2>2. Loaded \in Refreshing /\ Loaded.bind # None /\ Loaded.rows = {}
    BY <2>1, NoRefreshFacts
  <2>3. refresh' = [refresh EXCEPT ![Worker] = Loaded]
    BY <1>1, <1>7
  <2> HIDE DEF Loaded
  <2>4. QED
    BY <1>1, <1>4, <1>5, <1>6, <2>2, <2>3, OutboxConstants, RefresherKeeps
<1>8. CASE login # sync.bind
  <2>1. UNCHANGED refresh
    BY <1>1, <1>8
  <2>2. QED
    BY <1>1, <1>4, <1>5, <1>6, <2>1, WorkerKeeps
<1>9. QED
  BY <1>7, <1>8

\* list_ready_review_events remembers rows that are there.
LEMMA SyncListKeeps ==
    ASSUME OutboxInvariant, SyncList
    PROVE  OutboxInvariant'
<1> DEFINE B == {r \in Deliverable :
                   Cardinality({x \in Deliverable : x.seq < r.seq}) < BatchLimit}
<1>1. /\ sync' = IF B = {} THEN AtRest ELSE [sync EXCEPT !.pc = "post", !.batch = B]
      /\ UNCHANGED <<db, login, status, drift, refresh, settled, replaced, consent>>
  BY DEF SyncList
<1>2. B \subseteq db.rows
  BY DEF Deliverable, Ready
<1> HIDE DEF B
<1>3. Untouched'
  BY <1>1, LedgerKept
<1>4. CASE B = {}
  <2>1. sync' = [pc |-> "idle", bind |-> None, batch |-> {}, ans |-> <<>>]
    BY <1>1, <1>4 DEF AtRest
  <2>2. WorkerSound' /\ InRound' \subseteq InRound
    BY <2>1, RestKeeps
  <2>3. QED
    BY <1>1, <1>3, <2>2, WorkerKeeps DEF OutboxInvariant
<1>5. CASE B # {}
  <2>1. WorkerSound
    BY DEF OutboxInvariant
  <2>2. sync' = [pc |-> "post", bind |-> sync.bind, batch |-> B, ans |-> sync.ans]
    BY <1>1, <1>5, <2>1 DEF WorkerSound
  <2>3. InRound' \subseteq B \cup InRound /\ Remembered' \subseteq B \cup Remembered
    BY <1>1, <2>2 DEF InRound, Remembered
  <2>4. /\ db \in Databases /\ Numbered(db) /\ db.rows \subseteq Rows
        /\ Remembered \subseteq Rows
    BY DEF OutboxInvariant, Sound, Databases
  <2>5. IsFiniteSet(InRound')
    <3>1. IsFiniteSet(B)
      BY <1>2, <2>4, RowsFinite, FS_Subset
    <3>2. IsFiniteSet(B \cup InRound)
      BY <3>1, <2>1, FS_Union DEF WorkerSound
    <3>3. QED
      BY <3>2, <2>3, FS_Subset
  <2>6. WorkerSound'
    BY <1>1, <2>1, <2>2, <2>5 DEF WorkerSound
  <2>7. InStep(db, Remembered')
    <3>1. SUFFICES ASSUME NEW s \in B \cup Remembered
                   PROVE  /\ s.seq <= db.seq
                          /\ \A r \in db.rows : r.seq = s.seq =>
                               EventOf(r) = EventOf(s) /\ (s.bind # None => r.bind # None)
      BY <2>3 DEF InStep
    <3>2. CASE s \in B
      BY <3>2, <1>2, <2>4 DEF Numbered
    <3>3. CASE s \in Remembered
      BY <3>3 DEF OutboxInvariant, Sound, InStep
    <3>4. QED
      BY <3>2, <3>3
  <2>8. Sound(db', settled' \cup replaced', Remembered')
    BY <1>1, <1>2, <2>3, <2>4, <2>7 DEF OutboxInvariant, Sound
  <2>9. Surroundings' /\ RefreshersSound' /\ Granted(db', consent')
    BY <1>1 DEF OutboxInvariant, Surroundings, RefreshersSound
  <2>10. QED
    BY <1>3, <2>6, <2>8, <2>9 DEF OutboxInvariant
<1>6. QED
  BY <1>4, <1>5

\* A row that cannot be sent stays in the outbox.
LEMMA SyncDropKeeps ==
    ASSUME OutboxInvariant, NEW r \in sync.batch, NEW how \in {"dead", "retry"}, SyncDrop(r, how)
    PROVE  OutboxInvariant'
<1>1. /\ db' = IF how = "dead" THEN DeadLetter(db, sync.bind, r.seq)
                               ELSE Postpone(db, sync.bind, {r.seq})
      /\ sync' = [sync EXCEPT !.batch = @ \ {r},
                              !.pc = IF sync.batch = {r} THEN "list" ELSE "post"]
      /\ UNCHANGED <<login, status, drift, refresh, settled, replaced, consent>>
  BY DEF SyncDrop
<1>2. WorkerSound
  BY DEF OutboxInvariant
<1>3. PICK pc \in {"list", "post"} :
        sync' = [pc |-> pc, bind |-> sync.bind, batch |-> sync.batch \ {r}, ans |-> sync.ans]
  BY <1>1, <1>2 DEF WorkerSound
<1>4. InRound' \subseteq InRound
  BY <1>3 DEF InRound
<1>5. IsFiniteSet(InRound')
  BY <1>2, <1>4, FS_Subset DEF WorkerSound
<1>6. WorkerSound'
  BY <1>1, <1>2, <1>3, <1>5 DEF WorkerSound
<1>7. /\ Sound(db', settled' \cup replaced', Remembered) /\ Granted(db', consent)
      /\ db'.ledger = db.ledger
  <2>1. db \in Databases
    BY RememberedFacts
  <2>2. CASE how = "dead"
    BY <1>1, <2>1, <2>2, DeadLetterSound, LedgerAlone DEF OutboxInvariant
  <2>3. CASE how # "dead"
    BY <1>1, <2>1, <2>3, PostponeSound, LedgerAlone DEF OutboxInvariant
  <2>4. QED
    BY <2>2, <2>3
<1>8. Untouched'
  BY <1>1, <1>7, LedgerKept
<1>9. QED
  BY <1>1, <1>4, <1>6, <1>7, <1>8, WorkerKeeps

\* Cloud answers for each event of the batch, or keeps some of it silently.
LEMMA DeliveryKeeps ==
    ASSUME OutboxInvariant, NEW ans, DOMAIN ans = sync.batch,
           sync' = [sync EXCEPT !.pc = "settle", !.batch = {}, !.ans = ans],
           settled \subseteq settled',
           \A r \in sync.batch : ans[r] = "ok" => EventOf(r) \in settled',
           UNCHANGED <<db, login, status, drift, refresh, replaced, consent>>
    PROVE  OutboxInvariant'
<1>1. WorkerSound
  BY DEF OutboxInvariant
<1>2. sync' = [pc |-> "settle", bind |-> sync.bind, batch |-> {}, ans |-> ans]
  BY <1>1 DEF WorkerSound
<1>3. InRound' \subseteq InRound
  BY <1>2 DEF InRound
<1>4. IsFiniteSet(InRound')
  BY <1>1, <1>3, FS_Subset DEF WorkerSound
<1>5. WorkerSound'
  BY <1>1, <1>2, <1>4 DEF WorkerSound
<1>6. Untouched'
  BY LedgerKept
<1>7. Sound(db, settled' \cup replaced', Remembered)
  <2>1. settled \cup replaced \subseteq settled' \cup replaced'
    OBVIOUS
  <2>2. Remembered \in SUBSET Remembered /\ Sound(db, settled \cup replaced, Remembered)
    BY DEF OutboxInvariant
  <2>3. QED
    BY <2>1, <2>2, SoundMonotone
<1>8. Sound(db', settled' \cup replaced', Remembered) /\ Granted(db', consent)
  BY <1>7 DEF OutboxInvariant
<1>9. QED
  BY <1>3, <1>5, <1>6, <1>8, WorkerKeeps

\* Cloud answers for every event of the batch.
LEMMA SyncPostKeeps ==
    ASSUME OutboxInvariant, NEW ans \in [sync.batch -> Verdicts \ {"lost"}], SyncPost(ans)
    PROVE  OutboxInvariant'
<1>1. /\ settled' = settled \cup {EventOf(r) : r \in {x \in sync.batch : ans[x] = "ok"}}
      /\ sync' = [sync EXCEPT !.pc = "settle", !.batch = {}, !.ans = ans]
      /\ UNCHANGED <<db, login, status, drift, refresh, replaced, consent>>
  BY DEF SyncPost
<1>2. /\ DOMAIN ans = sync.batch /\ settled \subseteq settled'
      /\ \A r \in sync.batch : ans[r] = "ok" => EventOf(r) \in settled'
  BY <1>1
<1>3. QED
  BY <1>1, <1>2, DeliveryKeeps

\* The answer is lost; Cloud may have kept part of the batch.
LEMMA SyncLostKeeps ==
    ASSUME OutboxInvariant, NEW kept \in SUBSET sync.batch, SyncLost(kept)
    PROVE  OutboxInvariant'
<1> DEFINE ans == [r \in sync.batch |-> "lost"]
<1>1. /\ settled' = settled \cup {EventOf(r) : r \in kept}
      /\ sync' = [sync EXCEPT !.pc = "settle", !.batch = {}, !.ans = ans]
      /\ UNCHANGED <<db, login, status, drift, refresh, replaced, consent>>
  BY DEF SyncLost
<1>2. /\ DOMAIN ans = sync.batch /\ settled \subseteq settled'
      /\ \A r \in sync.batch : ans[r] = "ok" => EventOf(r) \in settled'
  BY <1>1
<1> HIDE DEF ans
<1>3. QED
  BY <1>1, <1>2, DeliveryKeeps

\* Answers forgotten, or turned into another verdict, become no "ok".
LEMMA ForgetFacts ==
    ASSUME NEW R
    PROVE  /\ DOMAIN Forget(R) \subseteq DOMAIN sync.ans
           /\ \A s \in DOMAIN Forget(R) : Forget(R)[s] = "ok" => sync.ans[s] = "ok"
BY DEF Forget

\* An answer turned into a retry is no "ok".
LEMMA TurnFacts ==
    ASSUME NEW R
    PROVE  /\ DOMAIN Turn(R, "retry") \subseteq DOMAIN sync.ans
           /\ \A s \in DOMAIN Turn(R, "retry") : Turn(R, "retry")[s] = "ok" => sync.ans[s] = "ok"
BY DEF Turn

\* A number the worker remembers names the row of that event, if any.
LEMMA NamesItsEvent ==
    ASSUME NEW d, NEW done, NEW S, Sound(d, done, S), NEW R \in SUBSET S,
           NEW r \in d.rows, r.seq \in SeqsOf(R)
    PROVE  \E s \in R : EventOf(r) = EventOf(s)
BY DEF Sound, InStep, SeqsOf

\* acknowledge_review_events, with the numbers of the events Cloud accepted
LEMMA SettleAckKeeps ==
    ASSUME OutboxInvariant, SettleAck
    PROVE  OutboxInvariant'
<1> DEFINE R == Answered({"ok"})
           seqs == SeqsOf(R)
<1>1. /\ sync.pc = "settle" /\ db' = Acknowledge(db, sync.bind, seqs)
      /\ Proceed(Forget(R))
      /\ UNCHANGED <<login, status, drift, refresh, settled, replaced, consent>>
  BY DEF SettleAck, Settling
<1>2. WorkerSound' /\ InRound' \subseteq InRound
  BY <1>1, ForgetFacts, ProceedKeeps
<1>3. /\ Sound(db, settled \cup replaced, Remembered) /\ Granted(db, consent)
      /\ R \in SUBSET Remembered /\ db \in Databases
  BY RememberedFacts DEF OutboxInvariant
<1>4. \A s \in R : EventOf(s) \in settled
  BY DEF Answered, OutboxInvariant, WorkerSound
<1>5. \A r \in db.rows : r.seq \in seqs => EventOf(r) \in settled \cup replaced
  BY <1>3, <1>4, NamesItsEvent
<1> HIDE DEF R, seqs
<1>6. /\ Sound(db', settled' \cup replaced', Remembered) /\ Granted(db', consent)
      /\ db'.ledger = db.ledger
  BY <1>1, <1>3, <1>5, AcknowledgeSound, LedgerAlone
<1>7. Untouched'
  BY <1>1, <1>6, LedgerKept
<1>8. QED
  BY <1>1, <1>2, <1>6, <1>7, WorkerKeeps

\* recover_review_snapshot_sequences
LEMMA SettleRecoverKeeps ==
    ASSUME OutboxInvariant, NEW through \in Nat, SettleRecover(through)
    PROVE  OutboxInvariant'
<1> DEFINE C == Answered({"collision"})
<1>1. /\ sync.pc = "settle" /\ C # {}
      /\ db' = IF MayRenumber(C) THEN Renumber(db, C, through) ELSE db
      /\ Proceed(IF MayRenumber(C) THEN Forget(C) ELSE Turn(C, "retry"))
      /\ UNCHANGED <<login, status, drift, refresh, settled, replaced, consent>>
  BY DEF SettleRecover, Settling
<1>2. /\ Sound(db, settled \cup replaced, Remembered) /\ Granted(db, consent)
      /\ C \in SUBSET Remembered /\ db \in Databases /\ IsFiniteSet(C)
  BY RememberedFacts, FS_Subset DEF OutboxInvariant
<1> HIDE DEF C
<1>3. CASE MayRenumber(C)
  <2>1. sync.bind \in Bindings
    <3>1. PICK r \in db.rows : r.bind = sync.bind /\ r.status = "ready"
      BY <1>1, <1>3 DEF MayRenumber
    <3>2. QED
      BY <3>1, <1>2 DEF Sound, HeldUnbound, OutboxInvariant, WorkerSound
  <2>2. /\ db' = Renumber(db, C, through) /\ Proceed(Forget(C))
    BY <1>1, <1>3
  <2>3. /\ Sound(db', settled' \cup replaced', Remembered) /\ Granted(db', consent)
        /\ db'.ledger = db.ledger
    BY <1>1, <1>2, <1>3, <2>1, <2>2, RenumberSound, LedgerAlone
  <2>4. WorkerSound' /\ InRound' \subseteq InRound
    BY <1>1, <2>2, ForgetFacts, ProceedKeeps
  <2>5. Untouched'
    BY <1>1, <2>3, LedgerKept
  <2>6. QED
    BY <1>1, <2>3, <2>4, <2>5, WorkerKeeps
<1>4. CASE ~MayRenumber(C)
  <2>1. db' = db /\ Proceed(Turn(C, "retry"))
    BY <1>1, <1>4
  <2>2. WorkerSound' /\ InRound' \subseteq InRound
    BY <1>1, <2>1, TurnFacts, ProceedKeeps
  <2>3. Untouched'
    BY <1>1, <2>1, LedgerKept
  <2>4. QED
    BY <1>1, <1>2, <2>1, <2>2, <2>3, WorkerKeeps
<1>5. QED
  BY <1>3, <1>4

\* repair_rejected_review_correlation: the refused event is acknowledged only
\* together with the newer ones that replace it.
LEMMA SettleRepairKeeps ==
    ASSUME OutboxInvariant, SettleRepair
    PROVE  OutboxInvariant'
<1> DEFINE C == Answered({"correlation"})
           c == FirstOf(C)
           d1 == InsertByTrigger(db, c.req, "refreshed")
           d2 == Append(d1, {c.req}, "snapshot")
<1>1. /\ sync.pc = "settle" /\ C # {}
      /\ IF MayRepair(c)
         THEN /\ db' = Acknowledge(d2, sync.bind, {c.seq})
              /\ drift' = drift \ {c.req}
              /\ replaced' = replaced \cup {EventOf(c)}
              /\ Proceed(Forget({c}))
         ELSE /\ Proceed(Turn({c}, "retry"))
              /\ UNCHANGED <<db, drift, replaced>>
      /\ UNCHANGED <<login, status, refresh, settled, consent>>
  BY DEF SettleRepair, Settling
<1>2. /\ Sound(db, settled \cup replaced, Remembered) /\ Granted(db, consent)
      /\ C \in SUBSET Remembered /\ C \in SUBSET Rows
  BY RememberedFacts DEF OutboxInvariant
<1>3. c \in Remembered /\ c.req \in Requests
  BY <1>1, <1>2, FirstOfFacts DEF Rows
<1> HIDE DEF C, c
<1>4. CASE ~MayRepair(c)
  <2>1. Proceed(Turn({c}, "retry")) /\ UNCHANGED <<db, drift, replaced>>
    BY <1>1, <1>4
  <2>2. WorkerSound' /\ InRound' \subseteq InRound
    BY <1>1, <2>1, TurnFacts, ProceedKeeps
  <2>3. Untouched'
    BY <1>1, <2>1, LedgerKept
  <2>4. QED
    BY <1>1, <1>2, <2>1, <2>2, <2>3, WorkerKeeps
<1>5. CASE MayRepair(c)
  <2> DEFINE done == settled \cup replaced'
  <2>1. /\ db' = Acknowledge(d2, sync.bind, {c.seq}) /\ drift' \subseteq drift
        /\ replaced' = replaced \cup {EventOf(c)} /\ Proceed(Forget({c}))
    BY <1>1, <1>5
  <2>2. settled \cup replaced \subseteq done /\ EventOf(c) \in done
    BY <2>1
  <2> HIDE DEF done
  <2>3. Sound(db, done, Remembered)
    <3>1. Remembered \in SUBSET Remembered
      OBVIOUS
    <3>2. QED
      BY <3>1, <1>2, <2>2, SoundMonotone
  <2>4. "refreshed" \in Kinds /\ "snapshot" \in Kinds /\ {c.req} \in SUBSET Requests
    BY <1>3 DEF Kinds
  <2>5. Sound(d1, done, Remembered) /\ Granted(d1, consent) /\ OnlyWrites(db, d1, {c.req})
    BY <1>2, <1>3, <2>3, <2>4, TriggerSound
  <2> HIDE DEF d1
  <2>6. Sound(d2, done, Remembered) /\ Granted(d2, consent) /\ OnlyWrites(d1, d2, {c.req})
    <3>1. login \in Bindings \cup {None}
      BY DEF OutboxInvariant, Surroundings
    <3>2. QED
      BY <2>4, <2>5, <3>1, AppendSound
  <2> HIDE DEF d2
  <2>7. \A r \in d2.rows : r.seq \in {c.seq} => EventOf(r) \in done
    BY <1>3, <2>2, <2>6 DEF Sound, InStep
  <2>8. Sound(db', done, Remembered) /\ Granted(db', consent)
    BY <2>1, <2>6, <2>7, AcknowledgeSound
  <2>9. db'.ledger = d2.ledger
    BY <2>1, <2>6, LedgerAlone DEF Sound
  <2>10. Untouched'
    <3>1. SUFFICES ASSUME NEW q \in Requests, status[q] = "absent"
                   PROVE  db'.ledger[q].last = 0 /\ consent[q] = {}
      BY <1>1 DEF Untouched
    <3>2. q # c.req
      BY <1>5, <3>1 DEF MayRepair
    <3>3. db'.ledger[q].last = db.ledger[q].last
      BY <2>5, <2>6, <2>9, <3>2 DEF OnlyWrites
    <3>4. QED
      BY <3>1, <3>3 DEF OutboxInvariant, Untouched
  <2>11. WorkerSound' /\ InRound' \subseteq InRound
    BY <1>1, <2>1, ForgetFacts, ProceedKeeps
  <2>12. Sound(db', settled' \cup replaced', Remembered)
    BY <1>1, <2>8 DEF done
  <2>13. QED
    BY <1>1, <2>1, <2>8, <2>10, <2>11, <2>12, WorkerKeeps
<1>6. QED
  BY <1>4, <1>5

\* quarantine_terminal_binding_failures
LEMMA SettleMismatchKeeps ==
    ASSUME OutboxInvariant, SettleMismatch
    PROVE  OutboxInvariant'
<1> DEFINE c == FirstOf(Answered({"mismatch"}))
           d == IF c.kind = "terminal" THEN DeadLetter(db, sync.bind, c.seq) ELSE db
<1>1. /\ sync.pc = "settle" /\ db' = d
      /\ Proceed(IF d # db THEN Forget({c}) ELSE Turn({c}, "retry"))
      /\ UNCHANGED <<login, status, drift, refresh, settled, replaced, consent>>
  BY DEF SettleMismatch, Settling
<1> HIDE DEF c
<1>2. /\ Sound(db, settled \cup replaced, Remembered) /\ Granted(db, consent)
      /\ db \in Databases
  BY RememberedFacts DEF OutboxInvariant
<1>3. /\ Sound(d, settled \cup replaced, Remembered) /\ Granted(d, consent)
      /\ d.ledger = db.ledger
  BY <1>2, DeadLetterSound, LedgerAlone
<1> HIDE DEF d
<1>4. WorkerSound' /\ InRound' \subseteq InRound
  <2>1. CASE d # db
    <3>1. Proceed(Forget({c}))
      BY <1>1, <2>1
    <3>2. QED
      BY <1>1, <3>1, ForgetFacts, ProceedKeeps
  <2>2. CASE d = db
    <3>1. Proceed(Turn({c}, "retry"))
      BY <1>1, <2>2
    <3>2. QED
      BY <1>1, <3>1, TurnFacts, ProceedKeeps
  <2>3. QED
    BY <2>1, <2>2
<1>5. Untouched'
  BY <1>1, <1>3, LedgerKept
<1>6. QED
  BY <1>1, <1>3, <1>4, <1>5, WorkerKeeps

\* retry_review_events
LEMMA SettleRetryKeeps ==
    ASSUME OutboxInvariant, SettleRetry
    PROVE  OutboxInvariant'
<1> DEFINE seqs == SeqsOf(Answered({"retry", "snapshot", "lost"}))
           again == [r \in Answered({"snapshot"}) |-> "requeue"]
<1>1. /\ sync.pc = "settle" /\ db' = Postpone(db, sync.bind, seqs)
      /\ IF Answered({"lost"}) # {} THEN sync' = AtRest ELSE Proceed(again)
      /\ UNCHANGED <<login, status, drift, refresh, settled, replaced, consent>>
  BY DEF SettleRetry, Settling
<1>2. /\ DOMAIN again \subseteq DOMAIN sync.ans
      /\ \A s \in DOMAIN again : again[s] = "ok" => sync.ans[s] = "ok"
  BY DEF Answered
<1> HIDE DEF seqs, again
<1>3. /\ Sound(db', settled' \cup replaced', Remembered) /\ Granted(db', consent)
      /\ db'.ledger = db.ledger
  BY <1>1, RememberedFacts, PostponeSound, LedgerAlone DEF OutboxInvariant
<1>4. WorkerSound' /\ InRound' \subseteq InRound
  <2>1. CASE Answered({"lost"}) # {}
    <3>1. sync' = [pc |-> "idle", bind |-> None, batch |-> {}, ans |-> <<>>]
      BY <1>1, <2>1 DEF AtRest
    <3>2. QED
      BY <3>1, RestKeeps
  <2>2. CASE Answered({"lost"}) = {}
    BY <1>1, <1>2, <2>2, ProceedKeeps
  <2>3. QED
    BY <2>1, <2>2
<1>5. Untouched'
  BY <1>1, <1>3, LedgerKept
<1>6. QED
  BY <1>1, <1>3, <1>4, <1>5, WorkerKeeps

\* Cloud asked for snapshots.
LEMMA SettleRequeueKeeps ==
    ASSUME OutboxInvariant, SettleRequeue
    PROVE  OutboxInvariant'
<1> DEFINE R == Answered({"requeue"})
           after == [q \in {r.req : r \in R} |-> Max({r.rseq : r \in {x \in R : x.req = q}})]
<1>1. /\ sync.pc = "settle" /\ db' = Requeue(db, after, TRUE) /\ Proceed(<<>>)
      /\ consent' = Consents(db')
      /\ UNCHANGED <<login, status, drift, refresh, settled, replaced>>
  BY DEF SettleRequeue, Settling
<1>2. R \subseteq Rows
  BY RememberedFacts
<1>3. DOMAIN after \subseteq Requests
  BY <1>2 DEF Rows
<1> HIDE DEF after
<1>4. /\ Sound(db', settled \cup replaced, Remembered) /\ Granted(db', consent')
      /\ Untouched'
  BY <1>1, <1>3, RequeueUntouched
<1>5. WorkerSound' /\ InRound' \subseteq InRound
  <2>1. DOMAIN <<>> \subseteq DOMAIN sync.ans /\ \A s \in DOMAIN <<>> : FALSE
    BY NoAnswers
  <2> DEFINE none == <<>>
  <2>2. Proceed(none) /\ DOMAIN none \subseteq DOMAIN sync.ans /\ \A s \in DOMAIN none : FALSE
    BY <1>1, <2>1
  <2> HIDE DEF none
  <2>3. QED
    BY <1>1, <2>2, ProceedKeeps
<1>6. Surroundings' /\ RefreshersSound'
  BY <1>1 DEF OutboxInvariant, Surroundings, RefreshersSound
<1>7. Sound(db', settled' \cup replaced', Remembered')
  <2>1. Remembered' \in SUBSET Remembered
    BY <1>1, <1>5 DEF Remembered
  <2>2. QED
    BY <1>1, <1>4, <2>1, SoundMonotone
<1>8. QED
  BY <1>4, <1>5, <1>6, <1>7 DEF OutboxInvariant

\* A restarted worker remembers nothing.
LEMMA SyncCrashKeeps ==
    ASSUME OutboxInvariant, SyncCrash
    PROVE  OutboxInvariant'
<1>1. /\ sync' = [pc |-> "idle", bind |-> None, batch |-> {}, ans |-> <<>>]
      /\ refresh' = [refresh EXCEPT ![Worker] = NoRefresh]
      /\ UNCHANGED <<db, login, status, drift, settled, replaced, consent>>
  BY DEF SyncCrash, AtRest
<1>2. WorkerSound' /\ InRound' \subseteq InRound
  BY <1>1, RestKeeps
<1>3. Untouched' /\ Sound(db', settled \cup replaced, Remembered) /\ Granted(db', consent)
  BY <1>1, LedgerKept DEF OutboxInvariant
<1>4. QED
  BY <1>1, <1>2, <1>3, OutboxConstants, NoRefreshFacts, RefresherKeeps

----------------------------------------------------------------------------
(* All steps.                                                              *)

\* Every step of the outbox keeps the invariant.
LEMMA OutboxStepKeeps ==
    ASSUME OutboxInvariant, OutboxNext
    PROVE  OutboxInvariant'
<1>1. CASE Sync
  <2>1. ASSUME NEW through \in {0, db.seq + 1}, SettleRecover(through) PROVE OutboxInvariant'
    <3>1. db.seq \in Nat
      BY DEF OutboxInvariant, Sound, Databases
    <3>2. through \in Nat
      BY <3>1
    <3>3. QED
      BY <2>1, <3>2, SettleRecoverKeeps
  <2>2. QED
    BY <1>1, <2>1, OutboxConstants, SyncBeginKeeps, SyncRebindKeeps, RefreshSelectKeeps,
       RefreshWriteKeeps, SyncListKeeps, SyncDropKeeps,
       SyncPostKeeps, SyncLostKeeps, SettleAckKeeps, SettleRepairKeeps,
       SettleMismatchKeeps, SettleRetryKeeps, SettleRequeueKeeps DEF Sync
<1>2. CASE Traffic
  BY <1>2, CreateRequestKeeps, UpdateKeeps DEF Traffic
<1>3. CASE Others
  <2>1. ASSUME NEW Q \in SUBSET Requests, NEW require \in BOOLEAN, RequeuePending(require, Q)
        PROVE  OutboxInvariant'
    BY <2>1, RequeuePendingKeeps
  <2>2. /\ {q \in Requests : status[q] = "pending"} \in SUBSET Requests
        /\ drift \cap {q \in Requests : status[q] = "pending"} \in SUBSET Requests
    OBVIOUS
  <2>3. QED
    BY <1>3, <2>1, <2>2, ChangeLoginKeeps, ReassignHeldKeeps, RepairBeginKeeps,
       RefreshSelectKeeps, RefreshWriteKeeps, TimePassesKeeps, SyncCrashKeeps DEF Others
<1>4. QED
  BY <1>1, <1>2, <1>3 DEF OutboxNext

\* Whoever continues a request knows one that exists.
CallersKnown ==
    /\ waiter \subseteq Requests
    /\ \A c \in Calls : calls[c].pc # "new" => status[calls[c].req] # "absent"
    /\ \A h \in Hooks : hooks[h].pc = "finalize" => status[hooks[h].req] # "absent"

\* The inductive invariant.
ReviewInvariant == ContinuationInvariant /\ OutboxInvariant /\ CallersKnown

\* A request that was made stays so.
LEMMA RequestsStay ==
    ASSUME OutboxInvariant, OutboxNext, NEW q \in Requests, status[q] # "absent"
    PROVE  status'[q] # "absent"
<1>1. status \in [Requests -> {"absent", "pending", "resolved"}]
  BY DEF OutboxInvariant, Surroundings
<1>2. CASE Sync
  BY <1>2 DEF Sync, SyncBegin, SyncRebind, RefreshSelect, RefreshWrite, SyncList, SyncDrop,
              SyncPost, SyncLost, SettleAck, SettleRecover, SettleRepair, SettleMismatch, SettleRetry, SettleRequeue
<1>3. CASE Traffic
  BY <1>1, <1>3 DEF Traffic, CreateRequest, RefreshRequest, ResolveRequest
<1>4. CASE Others
  BY <1>4 DEF Others, ChangeLogin, ReassignHeld, RequeuePending, RepairBegin, RefreshSelect,
              RefreshWrite, TimePasses, SyncCrash
<1>5. QED
  BY <1>2, <1>3, <1>4 DEF OutboxNext

\* A step of a caller, which appends a terminal event for a known request or
\* none, and remembers known requests only.
LEMMA CallerStep ==
    ASSUME ReviewInvariant, UNCHANGED outboxRest, waiter' \subseteq waiter,
           db' = db \/ \E q \in Requests : status[q] # "absent" /\ db' = Append(db, {q}, "terminal"),
           \A c \in Calls : calls'[c].pc # "new" => status[calls'[c].req] # "absent",
           \A h \in Hooks : hooks'[h].pc = "finalize" => status[hooks'[h].req] # "absent"
    PROVE  OutboxInvariant' /\ CallersKnown'
<1>1. OutboxInvariant /\ CallersKnown
  BY DEF ReviewInvariant
<1>2. UNCHANGED <<login, status, drift, sync, refresh, settled, replaced, consent>>
  BY DEF outboxRest
<1>3. CallersKnown'
  BY <1>1, <1>2 DEF CallersKnown
<1>4. Surroundings'
  BY <1>1, <1>2 DEF OutboxInvariant, Surroundings
<1>5. CASE db' = db
  <2>1. Untouched'
    BY <1>1, <1>2, <1>5, LedgerKept
  <2>2. QED
    BY <1>1, <1>2, <1>3, <1>4, <1>5, <2>1, OthersKeep DEF OutboxInvariant
<1>6. ASSUME NEW q \in Requests, status[q] # "absent", db' = Append(db, {q}, "terminal")
      PROVE  OutboxInvariant' /\ CallersKnown'
  <2>1. /\ "terminal" \in Kinds /\ {q} \in SUBSET Requests /\ login \in Bindings \cup {None}
        /\ Sound(db, settled \cup replaced, Remembered) /\ Granted(db, consent)
    BY <1>1 DEF Kinds, OutboxInvariant, Surroundings
  <2>2. /\ Sound(db', settled \cup replaced, Remembered) /\ Granted(db', consent)
        /\ OnlyWrites(db, db', {q})
    BY <1>6, <2>1, AppendSound
  <2>3. Untouched'
    <3>1. SUFFICES ASSUME NEW p \in Requests, status[p] = "absent"
                   PROVE  db'.ledger[p].last = 0 /\ consent[p] = {}
      BY <1>2 DEF Untouched
    <3>2. QED
      BY <1>1, <1>6, <2>2, <3>1 DEF OnlyWrites, OutboxInvariant, Untouched
  <2>4. QED
    BY <1>1, <1>2, <1>3, <1>4, <2>2, <2>3, OthersKeep
<1>7. QED
  BY <1>5, <1>6

\* finalize_continuation_attempt writes at most one event, of its request.
LEMMA CommitWrites ==
    ASSUME NEW q, NEW k, NEW r, Commit(q, k, r) \/ NoCommit
    PROVE  db' = db \/ db' = Append(db, {q}, "terminal")
BY DEF Commit, NoCommit

\* continue_request_after_application
LEMMA CallKeepsOutbox ==
    ASSUME ReviewInvariant, NEW c \in Calls,
           \/ \E q \in Requests : Begin(c, q)
           \/ Look(c) \/ Claim(c)
           \/ \E terminal \in BOOLEAN : Run(c, terminal)
           \/ Finalize(c) \/ Replay(c)
    PROVE  OutboxInvariant' /\ CallersKnown'
<1>1. /\ calls \in [Calls -> Callers] /\ CallersKnown
      /\ calls[c].pc # "new" => calls[c].req \in Requests
  BY DEF ReviewInvariant, ContinuationInvariant, ContTypeOK, CallSound
<1>2. /\ \A a \in Calls : calls[a].pc # "new" => status[calls[a].req] # "absent"
      /\ \A h \in Hooks : hooks[h].pc = "finalize" => status[hooks[h].req] # "absent"
  BY <1>1 DEF CallersKnown
<1>3. ASSUME NEW q \in Requests, Begin(c, q) PROVE OutboxInvariant' /\ CallersKnown'
  <2> DEFINE x == [Out EXCEPT !.pc = "look", !.req = q, !.offer = OfferOf(q)]
  <2>1. /\ status[q] = "resolved" /\ UNCHANGED <<db, hooks, waiter, outboxRest>>
        /\ calls' = [calls EXCEPT ![c] = x] /\ x.req = q
    BY <1>3 DEF Begin, NoCommit, Out
  <2> HIDE DEF x
  <2>2. \A a \in Calls : calls'[a].pc # "new" => status[calls'[a].req] # "absent"
    BY <1>1, <1>2, <2>1
  <2>3. QED
    BY <1>2, <2>1, <2>2, CallerStep
<1>4. CASE Look(c)
  <2>1. /\ calls[c].pc \in {"look", "poll"} /\ UNCHANGED <<db, hooks, waiter, outboxRest>>
        /\ \A a \in Calls \ {c} : calls'[a] = calls[a]
        /\ calls'[c].req = calls[c].req
    BY <1>1, <1>4 DEF Look, NoCommit, Callers
  <2>2. \A a \in Calls : calls'[a].pc # "new" => status[calls'[a].req] # "absent"
    BY <1>2, <2>1
  <2>3. QED
    BY <1>2, <2>1, <2>2, CallerStep
<1>5. CASE Claim(c)
  <2>1. /\ calls[c].pc = "claim" /\ UNCHANGED <<db, hooks, waiter, outboxRest>>
        /\ \A a \in Calls \ {c} : calls'[a] = calls[a]
        /\ calls'[c].req = calls[c].req
    BY <1>1, <1>5 DEF Claim, Step, Callers
  <2>2. \A a \in Calls : calls'[a].pc # "new" => status[calls'[a].req] # "absent"
    BY <1>2, <2>1
  <2>3. QED
    BY <1>2, <2>1, <2>2, CallerStep
<1>6. ASSUME NEW terminal \in BOOLEAN, Run(c, terminal) PROVE OutboxInvariant' /\ CallersKnown'
  <2>1. /\ calls[c].pc = "run" /\ UNCHANGED <<db, hooks, waiter, outboxRest>>
        /\ \A a \in Calls \ {c} : calls'[a] = calls[a]
        /\ calls'[c].req = calls[c].req
    BY <1>1, <1>6 DEF Run, NoCommit, Callers
  <2>2. \A a \in Calls : calls'[a].pc # "new" => status[calls'[a].req] # "absent"
    BY <1>2, <2>1
  <2>3. QED
    BY <1>2, <2>1, <2>2, CallerStep
<1>7. CASE Finalize(c) \/ Replay(c)
  <2>1. /\ calls[c].pc \in {"finalize", "replay"} /\ UNCHANGED <<hooks, waiter, outboxRest>>
        /\ calls' = [calls EXCEPT ![c].pc = "done"]
        /\ \E k, r : Commit(calls[c].req, k, r) \/ NoCommit
    BY <1>7 DEF Finalize, Replay, Step
  <2>2. \A a \in Calls : calls'[a].req = calls[a].req /\ (calls'[a].pc # "new" => calls[a].pc # "new")
    BY <1>1, <2>1 DEF Callers
  <2>3. \A a \in Calls : calls'[a].pc # "new" => status[calls'[a].req] # "absent"
    BY <1>2, <2>2
  <2>4. db' = db \/ db' = Append(db, {calls[c].req}, "terminal")
    BY <2>1, CommitWrites
  <2>5. calls[c].req \in Requests /\ status[calls[c].req] # "absent"
    BY <1>1, <1>2, <2>1
  <2>6. QED
    BY <1>2, <2>1, <2>3, <2>4, <2>5, CallerStep
<1>8. QED
  BY <1>3, <1>4, <1>5, <1>6, <1>7

\* record_live_hook_completion
LEMMA HookKeepsOutbox ==
    ASSUME ReviewInvariant, NEW h \in Hooks,
           \/ \E q \in Requests : HookLook(h, q)
           \/ \E exact \in BOOLEAN : HookFinalize(h, exact)
    PROVE  OutboxInvariant' /\ CallersKnown'
<1>1. /\ hooks \in [Hooks -> Callers] /\ CallersKnown
      /\ hooks[h].pc = "finalize" => hooks[h].req \in Requests
  BY DEF ReviewInvariant, ContinuationInvariant, ContTypeOK
<1>2. /\ \A a \in Calls : calls[a].pc # "new" => status[calls[a].req] # "absent"
      /\ \A x \in Hooks : hooks[x].pc = "finalize" => status[hooks[x].req] # "absent"
  BY <1>1 DEF CallersKnown
<1>3. ASSUME NEW q \in Requests, HookLook(h, q) PROVE OutboxInvariant' /\ CallersKnown'
  <2>1. /\ status[q] = "resolved" /\ UNCHANGED <<db, calls, waiter, outboxRest>>
        /\ \A x \in Hooks \ {h} : hooks'[x] = hooks[x]
        /\ hooks'[h].req = q
    BY <1>1, <1>3 DEF HookLook, NoCommit, Out
  <2>2. \A x \in Hooks : hooks'[x].pc = "finalize" => status[hooks'[x].req] # "absent"
    BY <1>2, <2>1
  <2>3. QED
    BY <1>2, <2>1, <2>2, CallerStep
<1>4. ASSUME NEW exact \in BOOLEAN, HookFinalize(h, exact) PROVE OutboxInvariant' /\ CallersKnown'
  <2>1. /\ hooks[h].pc = "finalize" /\ UNCHANGED <<calls, waiter, outboxRest>>
        /\ hooks' = [hooks EXCEPT ![h].pc = "done"]
        /\ \E k, r : Commit(hooks[h].req, k, r) \/ NoCommit
    BY <1>4 DEF HookFinalize
  <2>2. \A x \in Hooks : hooks'[x].pc = "finalize" => status[hooks'[x].req] # "absent"
    BY <1>1, <1>2, <2>1 DEF Callers
  <2>3. db' = db \/ db' = Append(db, {hooks[h].req}, "terminal")
    BY <2>1, CommitWrites
  <2>4. hooks[h].req \in Requests /\ status[hooks[h].req] # "absent"
    BY <1>1, <1>2, <2>1
  <2>5. QED
    BY <1>2, <2>1, <2>2, <2>3, <2>4, CallerStep
<1>5. QED
  BY <1>3, <1>4

\* Every step keeps the invariant.
LEMMA ReviewStepKeeps ==
    ASSUME ReviewInvariant, [Next]_vars
    PROVE  ReviewInvariant'
<1>1. ContinuationInvariant'
  BY StepKeeps DEF ReviewInvariant
<1>2. /\ \A c \in Calls : calls[c].pc # "new" => status[calls[c].req] # "absent"
      /\ \A h \in Hooks : hooks[h].pc = "finalize" => status[hooks[h].req] # "absent"
      /\ OutboxInvariant
  BY DEF ReviewInvariant, CallersKnown
<1>3. CASE UNCHANGED <<outboxVars, calls, hooks>> /\ waiter' \subseteq waiter
  <2>1. UNCHANGED outboxRest /\ db' = db /\ UNCHANGED <<calls, hooks>>
    BY <1>3 DEF outboxVars, outboxRest
  <2>2. QED
    BY <1>1, <1>2, <1>3, <2>1, CallerStep DEF ReviewInvariant
<1>4. CASE Outbox
  <2>1. OutboxInvariant'
    BY <1>2, <1>4, OutboxStepKeeps DEF Outbox
  <2>2. /\ \A c \in Calls : calls[c].pc # "new" => calls[c].req \in Requests
        /\ \A h \in Hooks : hooks[h].pc = "finalize" => hooks[h].req \in Requests
        /\ waiter \subseteq Requests
    BY DEF ReviewInvariant, ContinuationInvariant, CallSound, CallersKnown
  <2>3. UNCHANGED <<calls, hooks, waiter>> /\ OutboxNext
    BY <1>4 DEF Outbox, contVars
  <2>4. CallersKnown'
    BY <1>2, <2>2, <2>3, RequestsStay DEF CallersKnown
  <2>5. QED
    BY <1>1, <2>1, <2>4 DEF ReviewInvariant
<1>5. ASSUME NEW c \in Calls,
             \/ \E q \in Requests : Begin(c, q)
             \/ Look(c) \/ Claim(c)
             \/ \E terminal \in BOOLEAN : Run(c, terminal)
             \/ Finalize(c) \/ Replay(c)
      PROVE  ReviewInvariant'
  BY <1>1, <1>5, CallKeepsOutbox DEF ReviewInvariant
<1>6. ASSUME NEW h \in Hooks,
             \/ \E q \in Requests : HookLook(h, q)
             \/ \E exact \in BOOLEAN : HookFinalize(h, exact)
      PROVE  ReviewInvariant'
  BY <1>1, <1>6, HookKeepsOutbox DEF ReviewInvariant
<1>7. ASSUME NEW k \in Requests \X Offers, LeaseExpires(k) PROVE ReviewInvariant'
  <2>1. UNCHANGED <<outboxVars, calls, hooks>> /\ waiter' \subseteq waiter
    BY <1>7 DEF LeaseExpires
  <2>2. QED
    BY <1>3, <2>1
<1>8. ASSUME NEW q \in Requests, HookLeaves(q) PROVE ReviewInvariant'
  <2>1. UNCHANGED <<outboxVars, calls, hooks>> /\ waiter' \subseteq waiter
    BY <1>8 DEF HookLeaves
  <2>2. QED
    BY <1>3, <2>1
<1>9. ASSUME NEW q \in Requests, AuthorityRevoked(q) PROVE ReviewInvariant'
  <2>1. UNCHANGED <<db, outboxRest, waiter, calls, hooks>>
    BY <1>9 DEF AuthorityRevoked, NoCommit
  <2>2. QED
    BY <1>1, <1>2, <2>1, CallerStep DEF ReviewInvariant
<1>10. CASE UNCHANGED vars
  <2>1. UNCHANGED <<outboxVars, calls, hooks>> /\ waiter' \subseteq waiter
    BY <1>10 DEF vars, contVars
  <2>2. QED
    BY <1>3, <2>1
<1>11. QED
  BY <1>4, <1>5, <1>6, <1>7, <1>8, <1>9, <1>10 DEF Next

\* Nothing is written, bound or remembered at first.
LEMMA ReviewInit == Init => ReviewInvariant
<1> SUFFICES ASSUME Init PROVE ReviewInvariant
  OBVIOUS
<1>1. ContinuationInvariant
  BY InitEstablishes
<1>2. /\ db = [rows |-> {}, seq |-> 0,
               ledger |-> [q \in Requests |-> [last |-> 0, bind |-> None]],
               cursor |-> [b \in Bindings |-> 0]]
      /\ login \in Bindings \cup {None} /\ status = [q \in Requests |-> "absent"]
      /\ drift = {} /\ settled = {} /\ replaced = {}
      /\ consent = [q \in Requests |-> {}]
      /\ sync = [pc |-> "idle", bind |-> None, batch |-> {}, ans |-> <<>>]
      /\ refresh = [p \in Refreshers |-> NoRefresh]
  BY OutboxConstants DEF Init, OutboxInit, AtRest
<1>3. Remembered = {} /\ InRound = {} /\ DOMAIN sync.ans = {}
  <2>1. sync.ans = <<>> /\ sync.batch = {}
    BY <1>2
  <2>2. \A p \in Refreshers : refresh[p].rows = {}
    BY <1>2, NoRefreshFacts
  <2>3. QED
    BY <2>1, <2>2, NoAnswers DEF InRound, Remembered
<1>4. WorkerSound /\ RefreshersSound /\ Surroundings
  BY <1>2, <1>3, FS_EmptySet, NoRefreshFacts DEF WorkerSound, RefreshersSound, Surroundings
<1>5. db \in Databases /\ db.rows = {} /\ \A q \in Requests : db.ledger[q].last = 0
                                               /\ db.ledger[q].bind = None
  BY <1>2 DEF Databases
<1>6. Untouched /\ Granted(db, consent)
  BY <1>2, <1>5 DEF Untouched, Granted
<1>7. Sound(db, settled \cup replaced, Remembered)
  <2>1. Numbered(db) /\ HeldUnbound(db) /\ InOrder(db) /\ Acknowledged(db, settled \cup replaced)
    BY <1>5 DEF Numbered, HeldUnbound, InOrder, Acknowledged, Unacked
  <2>2. Kept(db, settled \cup replaced) /\ InStep(db, Remembered)
    BY <1>3, <1>5 DEF Kept, InStep
  <2>3. QED
    BY <1>3, <1>5, <2>1, <2>2 DEF Sound
<1>8. CallersKnown
  BY DEF Init, CallersKnown, Out
<1>9. QED
  BY <1>1, <1>4, <1>6, <1>7, <1>8 DEF ReviewInvariant, OutboxInvariant

\* The outbox and its worker, with every caller that writes to it: numbers are
\* given out once, the worker's numbers stay in step with the rows, and nothing
\* is acknowledged that was not delivered or replaced.
THEOREM ReviewInvariantHolds == Spec => []ReviewInvariant
<1>1. ReviewInvariant /\ [Next]_vars => ReviewInvariant'
  BY ReviewStepKeeps
<1>2. QED
  BY <1>1, ReviewInit, PTL DEF Spec

\* The tables of the outbox and of the continuations keep their types.
THEOREM ReviewTypeCorrect == Spec => []TypeOK
<1>1. ASSUME ReviewInvariant PROVE TypeOK
  <2>1. ContTypeOK /\ waiter \subseteq Requests /\ OutboxInvariant
    BY <1>1 DEF ReviewInvariant, ContinuationInvariant, CallersKnown
  <2>2. db.rows \subseteq Rows /\ db.seq \in Nat
        /\ db.ledger \in [Requests -> [last : Nat, bind : Bindings \cup {None}]]
        /\ db.cursor \in [Bindings -> Nat]
    BY <2>1 DEF OutboxInvariant, Sound, Databases
  <2>3. \A r \in db.rows : r.bind = None => r.status = "unbound"
    BY <2>1 DEF OutboxInvariant, Sound, HeldUnbound
  <2>4. sync.batch \subseteq Rows /\ DOMAIN sync.ans \subseteq Rows
    BY <2>1, RememberedFacts
  <2>5. OutboxTypeOK
    BY <2>1, <2>2, <2>3, <2>4 DEF OutboxTypeOK, OutboxInvariant, Surroundings, WorkerSound,
       RefreshersSound, Refreshing
  <2>6. QED
    BY <2>1, <2>5 DEF TypeOK, ContTypeOK, Keys
<1>2. QED
  BY <1>1, ReviewInvariantHolds, PTL

\* No change of a request is ever lost, however requests, logins, crashes,
\* refusals, lost answers and rebindings by any number of threads and processes,
\* from what they read a while ago, interleave with the worker's rounds.
THEOREM NoEventLost == Spec => []NothingLost
<1>1. ReviewInvariant => NothingLost
  BY DEF ReviewInvariant, OutboxInvariant, Sound, Kept, NothingLost
<1>2. QED
  BY <1>1, ReviewInvariantHolds, PTL

\* Undelivered events of one request stay in the order in which it wrote them,
\* renumbering included.
THEOREM StreamOrder == Spec => []OrderKept
<1>1. ReviewInvariant => OrderKept
  BY DEF ReviewInvariant, OutboxInvariant, Sound, InOrder, OrderKept
<1>2. QED
  BY <1>1, ReviewInvariantHolds, PTL

\* Only steps of the outbox touch what the callers do not write.
LEMMA CallersLeaveRest ==
    ASSUME [Next]_vars, ~OutboxNext
    PROVE  UNCHANGED outboxRest
<1>1. CASE UNCHANGED vars
  BY <1>1 DEF vars, outboxVars, outboxRest
<1>2. CASE Next
  BY <1>2 DEF Next, Outbox, Begin, Look, Claim, Run, Finalize, Replay, LeaseExpires, HookLook,
     HookFinalize, HookLeaves, AuthorityRevoked, outboxVars, outboxRest
<1>3. QED
  BY <1>1, <1>2

\* What the worker is about to post goes to an account of the requests.
BatchConsented == \A r \in sync.batch : sync.bind.acct \in consent[r.req]

\* An account a request was once handed to stays one of the request's.
LEMMA ConsentGrows ==
    ASSUME [Next]_vars, NEW q \in Requests
    PROVE  consent[q] \subseteq consent'[q]
<1>1. CASE consent' = consent
  BY <1>1
<1>2. CASE consent' = Consents(db')
  BY <1>2 DEF Consents
<1>3. ASSUME NEW onlyUnbound \in BOOLEAN, ReassignHeld(onlyUnbound)
      PROVE  consent[q] \subseteq consent'[q]
  BY <1>3 DEF ReassignHeld
<1>4. CASE Sync
  BY <1>1, <1>2, <1>4 DEF Sync, SyncBegin, SyncRebind, RefreshSelect, RefreshWrite, SyncList,
     SyncDrop, SyncPost, SyncLost, SettleAck, SettleRecover, SettleRepair, SettleMismatch, SettleRetry, SettleRequeue
<1>5. CASE Traffic
  BY <1>1, <1>2, <1>5 DEF Traffic, CreateRequest, RefreshRequest, ResolveRequest
<1>6. CASE Others
  BY <1>1, <1>2, <1>3, <1>6 DEF Others, ChangeLogin, RequeuePending, RepairBegin, RefreshSelect,
     RefreshWrite, TimePasses, SyncCrash
<1>7. CASE UNCHANGED outboxRest
  BY <1>1, <1>7 DEF outboxRest
<1>8. [Next]_vars /\ ~OutboxNext => UNCHANGED outboxRest
  BY CallersLeaveRest
<1>9. QED
  BY <1>4, <1>5, <1>6, <1>7, <1>8 DEF OutboxNext

\* The worker's batch is the one of its round, what is left of it, or what it
\* has just read for the identity of the round.
LEMMA BatchMoves ==
    ASSUME WorkerSound, [Next]_vars
    PROVE  \/ sync'.batch \subseteq sync.batch /\ sync'.bind = sync.bind
           \/ sync'.batch = {}
           \/ sync'.batch \subseteq Deliverable /\ sync'.bind = sync.bind
<1> DEFINE Goal == \/ sync'.batch \subseteq sync.batch /\ sync'.bind = sync.bind
                   \/ sync'.batch = {}
                   \/ sync'.batch \subseteq Deliverable /\ sync'.bind = sync.bind
<1>1. sync = [pc |-> sync.pc, bind |-> sync.bind, batch |-> sync.batch, ans |-> sync.ans]
  BY DEF WorkerSound
<1>2. CASE sync' = sync
  BY <1>2
<1>3. CASE sync' = AtRest
  BY <1>3 DEF AtRest
<1>4. ASSUME NEW ans, Proceed(ans) PROVE Goal
  BY <1>1, <1>4 DEF Proceed, AtRest
<1>5. CASE SyncBegin \/ SyncRebind
  BY <1>1, <1>5 DEF SyncBegin, SyncRebind, AtRest
<1>6. CASE SyncList
  <2>1. PICK B : B \subseteq Deliverable
                 /\ sync' = IF B = {} THEN AtRest ELSE [sync EXCEPT !.pc = "post", !.batch = B]
    BY <1>6 DEF SyncList
  <2>2. QED
    BY <1>1, <1>3, <2>1
<1>7. ASSUME NEW r, NEW how, SyncDrop(r, how) PROVE Goal
  BY <1>1, <1>7 DEF SyncDrop
<1>8. ASSUME NEW ans, SyncPost(ans) PROVE Goal
  BY <1>1, <1>8 DEF SyncPost
<1>9. ASSUME NEW kept, SyncLost(kept) PROVE Goal
  BY <1>1, <1>9 DEF SyncLost
<1>10. CASE SettleAck
  <2>1. \E ans : Proceed(ans)
    BY <1>10 DEF SettleAck
  <2>2. QED
    BY <1>4, <2>1
<1>11. ASSUME NEW through, SettleRecover(through) PROVE Goal
  <2>1. \E ans : Proceed(ans)
    BY <1>11 DEF SettleRecover
  <2>2. QED
    BY <1>4, <2>1
<1>12. CASE SettleRepair
  <2>1. \E ans : Proceed(ans)
    BY <1>12 DEF SettleRepair
  <2>2. QED
    BY <1>4, <2>1
<1>13. CASE SettleMismatch
  <2>1. \E ans : Proceed(ans)
    BY <1>13 DEF SettleMismatch
  <2>2. QED
    BY <1>4, <2>1
<1>14. CASE SettleRetry
  <2>1. sync' = AtRest \/ \E ans : Proceed(ans)
    BY <1>14 DEF SettleRetry
  <2>2. QED
    BY <1>3, <1>4, <2>1
<1>15. CASE SettleRequeue
  <2>1. \E ans : Proceed(ans)
    BY <1>15 DEF SettleRequeue
  <2>2. QED
    BY <1>4, <2>1
<1>16. CASE Sync
  BY <1>2, <1>5, <1>6, <1>7, <1>8, <1>9, <1>10, <1>11, <1>12, <1>13, <1>14, <1>15, <1>16
     DEF Sync, RefreshSelect, RefreshWrite
<1>17. CASE Traffic
  BY <1>2, <1>17 DEF Traffic, CreateRequest, RefreshRequest, ResolveRequest
<1>18. CASE Others
  BY <1>2, <1>3, <1>18 DEF Others, ChangeLogin, ReassignHeld, RequeuePending, RepairBegin,
     RefreshSelect, RefreshWrite, TimePasses, SyncCrash
<1>19. [Next]_vars /\ ~OutboxNext => UNCHANGED outboxRest
  BY CallersLeaveRest
<1>20. CASE UNCHANGED outboxRest
  BY <1>2, <1>20 DEF outboxRest
<1>21. QED
  BY <1>16, <1>17, <1>18, <1>19, <1>20 DEF OutboxNext

\* Whatever changes while a batch is on its way, it stays consented.
LEMMA BatchStep ==
    ASSUME ReviewInvariant, BatchConsented, [Next]_vars
    PROVE  BatchConsented'
<1>1. WorkerSound /\ Granted(db, consent) /\ HeldUnbound(db) /\ db.rows \subseteq Rows
  BY DEF ReviewInvariant, OutboxInvariant, Sound, Databases
<1>2. sync.batch \subseteq Rows
  BY RememberedFacts DEF ReviewInvariant
<1>3. SUFFICES ASSUME NEW r \in sync'.batch PROVE sync'.bind.acct \in consent'[r.req]
  BY DEF BatchConsented
<1>4. CASE r \in sync.batch /\ sync'.bind = sync.bind
  <2>1. r.req \in Requests /\ sync.bind.acct \in consent[r.req]
    BY <1>2, <1>4 DEF Rows, BatchConsented
  <2>2. QED
    BY <1>4, <2>1, ConsentGrows
<1>5. CASE r \in Deliverable /\ sync'.bind = sync.bind
  <2>1. r \in db.rows /\ r.bind = sync.bind /\ r.status = "ready" /\ r.req \in Requests
    BY <1>1, <1>5 DEF Deliverable, Ready, Rows
  <2>2. r.bind # None
    BY <1>1, <2>1 DEF HeldUnbound
  <2>3. sync.bind.acct \in consent[r.req]
    BY <1>1, <2>1, <2>2 DEF Granted
  <2>4. QED
    BY <1>5, <2>1, <2>3, ConsentGrows
<1>6. QED
  BY <1>1, <1>3, <1>4, <1>5, BatchMoves

\* No event can reach an account that its request was neither first bound nor
\* explicitly reassigned to, not even by a post that was prepared before the
\* login, the bindings or the rows changed.
THEOREM ConsentRespected == Spec => []ConsentedOnly
<1>1. ReviewInvariant /\ BatchConsented => ConsentedOnly
  BY DEF ReviewInvariant, OutboxInvariant, Granted, ConsentedOnly, BatchConsented
<1>2. Init => BatchConsented
  BY DEF Init, OutboxInit, AtRest, BatchConsented
<1>3. ReviewInvariant /\ BatchConsented /\ [Next]_vars => BatchConsented'
  BY BatchStep
<1>4. QED
  BY <1>1, <1>2, <1>3, ReviewInvariantHolds, PTL DEF Spec

=============================================================================
