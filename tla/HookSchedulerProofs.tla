------------------------ MODULE HookSchedulerProofs ------------------------
(***************************************************************************)
(* The scheduler's counters never drift, its rotation names every group    *)
(* with queued requests, its limits hold, no request is leaked, no byte    *)
(* wait is forgotten, every admission is justified and no free slot is     *)
(* left without a thread that will offer it: for any set of requests,      *)
(* clients, harnesses, sizes, limits and deadlines.                        *)
(*                                                                         *)
(* The loops of _expire_waiters, _oldest_aged_eligible, _next_item and     *)
(* _dispatch are recursive functions of the number of rounds; LoopRuns     *)
(* says that they exist, LoopFollows that what each round keeps holds at   *)
(* the end.  In the middle of a search a request is neither queued nor     *)
(* granted but still counted as queued: Sound(s, out) is the scheduler     *)
(* object with the requests of `out' in that state, and the methods are    *)
(* shown to move requests in and out of it.  SchedulerInvariant is         *)
(* Sound(sched, {}) with what the places of the threads add to it.         *)
(***************************************************************************)
EXTENDS HookScheduler, FiniteSetTheorems, SequenceTheorems, WellFoundedInduction, TLAPS

----------------------------------------------------------------------------
(* Numbers and loops.                                                      *)

\* A set of numbers that is not empty has a least one.
LEMMA LeastOf ==
    ASSUME NEW T \in SUBSET Nat, T # {}
    PROVE  /\ Min(T) \in T
           /\ \A t \in T : Min(T) <= t
<1> DEFINE R == OpToRel(<, Nat)
<1>1. IsWellFoundedOn(R, Nat)
  BY NatLessThanWellFounded
<1>2. PICK m \in T : \A t \in T : ~(<<t, m>> \in R)
  <2> HIDE DEF R
  <2>1. QED
    BY <1>1, WFMin
<1>3. \A t \in T : ~(t < m)
  BY <1>2 DEF OpToRel
<1>4. \E x \in T : \A y \in T : x =< y
  BY <1>3
<1>5. QED
  BY <1>4 DEF Min

\* Counting up: what holds at 0 and passes from each number to the next holds
\* up to N.
LEMMA CountUp ==
    ASSUME NEW N \in Nat, NEW A, 0 \in A, \A n \in 1 .. N : n - 1 \in A => n \in A
    PROVE  \A n \in 0 .. N : n \in A
<1> DEFINE T == {n \in 0 .. N : n \notin A}
<1>1. SUFFICES ASSUME T # {} PROVE FALSE
  OBVIOUS
<1>2. T \in SUBSET Nat
  OBVIOUS
<1>3. Min(T) \in T /\ \A t \in T : Min(T) <= t
  BY <1>1, <1>2, LeastOf
<1> DEFINE m == Min(T)
<1> HIDE DEF m
<1>4. m \in T /\ \A t \in T : m <= t
  BY <1>3 DEF m
<1>5. m \in 0 .. N /\ m \notin A /\ m # 0
  BY <1>4
<1>6. m - 1 \in 0 .. N /\ m - 1 \notin T
  BY <1>4, <1>5
<1>7. QED
  BY <1>5, <1>6

\* A loop of N rounds that starts with b: round n applies g[n], and leaves a
\* state of S[n] when it finds one of S[n - 1].
Loop(N, U, S, b, g) ==
    /\ N \in Nat
    /\ S \in [0 .. N -> SUBSET U]
    /\ b \in S[0]
    /\ g \in [1 .. N -> [U -> U]]
    /\ \A n \in 1 .. N : \A x \in S[n - 1] : g[n][x] \in S[n]

RunOf(f, N, U, S, b, g) ==
    /\ f \in [0 .. N -> U]
    /\ f[0] = b
    /\ \A n \in 1 .. N : f[n] = g[n][f[n - 1]]
    /\ \A n \in 0 .. N : f[n] \in S[n]

\* Such a loop has a run.
LEMMA LoopRuns ==
    ASSUME NEW N, NEW U, NEW S, NEW b, NEW g, Loop(N, U, S, b, g)
    PROVE  \E f : RunOf(f, N, U, S, b, g)
<1> USE DEF Loop
<1> DEFINE Runs(k, f) == /\ f[0] = b
                         /\ \A n \in 1 .. k : f[n] = g[n][f[n - 1]]
                         /\ \A n \in 0 .. k : f[n] \in S[n]
           Can(k) == \E f \in [0 .. k -> U] : Runs(k, f)
           A == {k \in 0 .. N : Can(k)}
<1>1. 0 \in A
  <2> DEFINE f == [n \in 0 .. 0 |-> b]
  <2>1. f \in [0 .. 0 -> U] /\ Runs(0, f)
    OBVIOUS
  <2> HIDE DEF f, Runs
  <2>2. Can(0)
    BY <2>1
  <2> HIDE DEF Can
  <2>3. QED
    BY <2>2
<1>2. ASSUME NEW k \in 1 .. N, k - 1 \in A PROVE k \in A
  <2>0. Can(k - 1)
    BY <1>2
  <2>1. PICK f \in [0 .. k - 1 -> U] : Runs(k - 1, f)
    BY <2>0
  <2> DEFINE e == [n \in 0 .. k |-> IF n = k THEN g[k][f[k - 1]] ELSE f[n]]
  <2>2. f[k - 1] \in S[k - 1] /\ f[k - 1] \in U
    BY <2>1
  <2>3. g[k][f[k - 1]] \in S[k] /\ g[k][f[k - 1]] \in U
    BY <2>2
  <2>4. e \in [0 .. k -> U]
    BY <2>3
  <2>5. /\ e[k] = g[k][f[k - 1]]
        /\ \A n \in 0 .. k - 1 : e[n] = f[n]
    OBVIOUS
  <2> HIDE DEF e
  <2>6. \A n \in 1 .. k : e[n] = g[n][e[n - 1]]
    BY <2>1, <2>5
  <2>7. \A n \in 0 .. k : e[n] \in S[n]
    BY <2>1, <2>3, <2>5
  <2>8. Runs(k, e)
    BY <2>1, <2>5, <2>6, <2>7
  <2> HIDE DEF Runs
  <2>9. Can(k)
    BY <2>4, <2>8
  <2> HIDE DEF Can
  <2>10. QED
    BY <2>9
<1> HIDE DEF A, Can
<1>3. N \in A
  <2>1. \A n \in 0 .. N : n \in A
    BY <1>1, <1>2, CountUp
  <2>2. QED
    BY <2>1
<1>4. Can(N)
  BY <1>3 DEF A
<1>5. PICK f \in [0 .. N -> U] : Runs(N, f)
  BY <1>4 DEF Can
<1>6. QED
  BY <1>5 DEF RunOf

----------------------------------------------------------------------------
(* Sequences without repetition.                                           *)

\* Taking an element out of a sequence that has it once.
LEMMA RemoveFacts ==
    ASSUME NEW T, NEW s \in Seq(T), IsInjective(s), NEW e \in ToSet(s)
    PROVE  /\ RemoveFirst(s, e) \in Seq(T)
           /\ IsInjective(RemoveFirst(s, e))
           /\ ToSet(RemoveFirst(s, e)) = ToSet(s) \ {e}
           /\ Len(RemoveFirst(s, e)) = Len(s) - 1
<1> DEFINE n == Len(s)
           r == RemoveFirst(s, e)
<1>1. n \in Nat /\ DOMAIN s = 1 .. n /\ \A k \in 1 .. n : s[k] \in T
  OBVIOUS
<1>2. PICK i \in 1 .. n : s[i] = e
  BY <1>1 DEF ToSet
<1>3. \A k, l \in 1 .. n : s[k] = s[l] => k = l
  BY <1>1 DEF IsInjective
<1> DEFINE I == {k \in 1 .. Len(s) : s[k] = e}
<1>4. I = {i}
  BY <1>2, <1>3
<1>5. Min(I) = i
  <2>1. I \in SUBSET Nat /\ I # {}
    BY <1>4
  <2>2. Min(I) \in I
    BY <2>1, LeastOf
  <2>3. QED
    BY <1>4, <2>2
<1>6. r = RemoveAt(s, i)
  <2>1. SelectInSeq(s, LAMBDA v : v = e) = i
    BY <1>4, <1>5 DEF SelectInSeq
  <2>2. QED
    BY <1>2, <2>1 DEF RemoveFirst
<1>7. r = SubSeq(s, 1, i - 1) \o SubSeq(s, i + 1, n)
  BY <1>6 DEF RemoveAt
<1>8. /\ SubSeq(s, 1, i - 1) \in Seq(T) /\ Len(SubSeq(s, 1, i - 1)) = i - 1
      /\ \A k \in 1 .. i - 1 : SubSeq(s, 1, i - 1)[k] = s[k]
  BY <1>1, <1>2
<1>9. /\ SubSeq(s, i + 1, n) \in Seq(T) /\ Len(SubSeq(s, i + 1, n)) = n - i
      /\ \A k \in 1 .. n - i : SubSeq(s, i + 1, n)[k] = s[k + i]
  <2>1. i + 1 \in Int /\ n \in Int /\ \A k \in i + 1 .. n : s[k] \in T
    BY <1>1, <1>2
  <2> HIDE DEF n
  <2>2. /\ SubSeq(s, i + 1, n) \in Seq(T)
        /\ Len(SubSeq(s, i + 1, n)) = IF i + 1 <= n THEN n - (i + 1) + 1 ELSE 0
        /\ \A k \in 1 .. n - (i + 1) + 1 : SubSeq(s, i + 1, n)[k] = s[(i + 1) + k - 1]
    BY <2>1, SubSeqProperties
  <2>3. \A k \in 1 .. n - i : (i + 1) + k - 1 = k + i
    BY <1>1, <1>2
  <2>4. n - (i + 1) + 1 = n - i /\ (~(i + 1 <= n) => n - i = 0)
    BY <1>1, <1>2
  <2>5. QED
    BY <2>2, <2>3, <2>4
<1> DEFINE p == SubSeq(s, 1, i - 1)
           q == SubSeq(s, i + 1, n)
<1> HIDE DEF r, n, p, q
<1>10. /\ r \in Seq(T) /\ Len(r) = n - 1
       /\ \A k \in 1 .. n - 1 : r[k] = IF k < i THEN s[k] ELSE s[k + 1]
  <2>1. /\ p \in Seq(T) /\ Len(p) = i - 1 /\ \A k \in 1 .. i - 1 : p[k] = s[k]
        /\ q \in Seq(T) /\ Len(q) = n - i /\ \A k \in 1 .. n - i : q[k] = s[k + i]
        /\ r = p \o q
    BY <1>7, <1>8, <1>9 DEF p, q
  <2>2. /\ r \in Seq(T)
        /\ Len(r) = (i - 1) + (n - i)
        /\ \A k \in 1 .. (i - 1) + (n - i) :
              r[k] = IF k <= i - 1 THEN p[k] ELSE q[k - (i - 1)]
    BY <2>1, ConcatProperties
  <2>3. (i - 1) + (n - i) = n - 1
    BY <1>1, <1>2
  <2>4. ASSUME NEW k \in 1 .. n - 1 PROVE r[k] = IF k < i THEN s[k] ELSE s[k + 1]
    <3>1. CASE k < i
      BY <1>1, <1>2, <2>1, <2>2, <2>3, <3>1
    <3>2. CASE ~(k < i)
      <4>1. k - (i - 1) \in 1 .. n - i /\ (k - (i - 1)) + i = k + 1 /\ ~(k <= i - 1)
        BY <1>1, <1>2, <3>2
      <4>2. r[k] = q[k - (i - 1)] /\ q[k - (i - 1)] = s[(k - (i - 1)) + i]
        BY <2>1, <2>2, <2>3, <4>1
      <4>3. QED
        BY <3>2, <4>1, <4>2
    <3>3. QED
      BY <3>1, <3>2
  <2>5. QED
    BY <2>2, <2>3, <2>4
<1>11. DOMAIN r = 1 .. n - 1
  BY <1>1, <1>2, <1>10
<1>12. IsInjective(r)
  <2>1. SUFFICES ASSUME NEW k \in 1 .. n - 1, NEW l \in 1 .. n - 1, r[k] = r[l]
                 PROVE  k = l
    BY <1>11 DEF IsInjective
  <2>2. QED
    BY <1>1, <1>2, <1>3, <1>10, <2>1
<1>13. ASSUME NEW x PROVE x \in ToSet(r) <=> x \in ToSet(s) /\ x # e
  <2>1. ASSUME NEW k \in 1 .. n - 1, x = r[k] PROVE x \in ToSet(s) /\ x # e
    <3> DEFINE l == IF k < i THEN k ELSE k + 1
    <3>1. l \in 1 .. n /\ l # i /\ x = s[l]
      BY <1>1, <1>2, <1>10, <2>1
    <3> HIDE DEF l
    <3>2. QED
      BY <1>1, <1>2, <1>3, <3>1 DEF ToSet
  <2>2. ASSUME NEW k \in 1 .. n, x = s[k], x # e PROVE x \in ToSet(r)
    <3>1. CASE k < i
      <4>1. k \in 1 .. n - 1 /\ r[k] = x
        BY <1>1, <1>2, <1>10, <2>2, <3>1
      <4>2. QED
        BY <1>11, <4>1 DEF ToSet
    <3>2. CASE k > i
      <4>1. k - 1 \in 1 .. n - 1 /\ r[k - 1] = x
        BY <1>1, <1>2, <1>10, <2>2, <3>2
      <4>2. QED
        BY <1>11, <4>1 DEF ToSet
    <3>3. QED
      BY <1>1, <1>2, <2>2, <3>1, <3>2
  <2>3. QED
    BY <1>1, <1>11, <2>1, <2>2 DEF ToSet
<1>14. QED
  BY <1>10, <1>12, <1>13 DEF r, n

\* Adding a new element at the end.
LEMMA AppendFacts ==
    ASSUME NEW T, NEW s \in Seq(T), IsInjective(s), NEW e \in T, e \notin ToSet(s)
    PROVE  /\ Append(s, e) \in Seq(T)
           /\ IsInjective(Append(s, e))
           /\ ToSet(Append(s, e)) = ToSet(s) \cup {e}
<1> DEFINE n == Len(s)
           r == Append(s, e)
<1>1. /\ n \in Nat /\ DOMAIN s = 1 .. n
      /\ r \in Seq(T) /\ DOMAIN r = 1 .. n + 1
      /\ \A k \in 1 .. n : r[k] = s[k]
      /\ r[n + 1] = e
  OBVIOUS
<1>2. \A k \in 1 .. n : s[k] # e
  BY <1>1 DEF ToSet
<1>3. \A k, l \in 1 .. n : s[k] = s[l] => k = l
  BY <1>1 DEF IsInjective
<1> HIDE DEF n, r
<1>4. IsInjective(r)
  <2>1. SUFFICES ASSUME NEW k \in 1 .. n + 1, NEW l \in 1 .. n + 1, r[k] = r[l]
                 PROVE  k = l
    BY <1>1 DEF IsInjective
  <2>2. QED
    BY <1>1, <1>2, <1>3, <2>1
<1>5. ToSet(r) = ToSet(s) \cup {e}
  <2>1. \A k : k \in 1 .. n + 1 <=> k \in 1 .. n \/ k = n + 1
    BY <1>1
  <2>2. QED
    BY <1>1, <2>1 DEF ToSet
<1>6. QED
  BY <1>1, <1>4, <1>5 DEF r

\* Moving the first element to the end.
LEMMA RotateFacts ==
    ASSUME NEW T, NEW s \in Seq(T), IsInjective(s), s # << >>
    PROVE  LET r == Append(Tail(s), Head(s)) IN
           /\ Head(s) \in ToSet(s)
           /\ r \in Seq(T)
           /\ IsInjective(r)
           /\ ToSet(r) = ToSet(s)
           /\ Len(r) = Len(s)
           /\ \A k \in 1 .. Len(s) - 1 : r[k] = s[k + 1]
<1> DEFINE n == Len(s)
           r == Append(Tail(s), Head(s))
<1>1. /\ n \in Nat /\ n >= 1 /\ DOMAIN s = 1 .. n
      /\ Head(s) = s[1] /\ s[1] \in T
      /\ r \in Seq(T) /\ Len(r) = n /\ DOMAIN r = 1 .. n
  OBVIOUS
<1>2. \A k \in 1 .. n : r[k] = IF k = n THEN s[1] ELSE s[k + 1]
  <2>1. Tail(s) \in Seq(T) /\ Len(Tail(s)) = n - 1
        /\ \A k \in 1 .. n - 1 : Tail(s)[k] = s[k + 1]
    BY <1>1
  <2>2. /\ Len(r) = Len(Tail(s)) + 1
        /\ \A k \in 1 .. Len(Tail(s)) : r[k] = Tail(s)[k]
        /\ r[Len(Tail(s)) + 1] = Head(s)
    BY <1>1, <2>1, AppendProperties
  <2> DEFINE t == Tail(s)
  <2>3. /\ n \in Nat /\ Head(s) = s[1]
        /\ Len(t) = n - 1 /\ \A k \in 1 .. n - 1 : t[k] = s[k + 1]
        /\ \A k \in 1 .. Len(t) : r[k] = t[k]
        /\ r[Len(t) + 1] = Head(s)
    BY <1>1, <2>1, <2>2
  <2> HIDE DEF r, n, t
  <2>4. r[n] = s[1]
    BY <2>3
  <2>5. ASSUME NEW k \in 1 .. n, k # n PROVE r[k] = s[k + 1]
    <3>1. k \in 1 .. n - 1
      BY <2>3, <2>5
    <3>2. QED
      BY <2>3, <3>1
  <2>6. QED
    BY <2>4, <2>5
<1>3. \A k, l \in 1 .. n : s[k] = s[l] => k = l
  BY <1>1 DEF IsInjective
<1> HIDE DEF n, r
<1>4. IsInjective(r)
  <2>1. SUFFICES ASSUME NEW k \in 1 .. n, NEW l \in 1 .. n, r[k] = r[l]
                 PROVE  k = l
    BY <1>1 DEF IsInjective
  <2>2. QED
    BY <1>1, <1>2, <1>3, <2>1
<1>5. ASSUME NEW x PROVE x \in ToSet(r) <=> x \in ToSet(s)
  <2>1. ASSUME NEW k \in 1 .. n, x = r[k] PROVE x \in ToSet(s)
    BY <1>1, <1>2, <2>1 DEF ToSet
  <2>2. ASSUME NEW k \in 1 .. n, x = s[k] PROVE x \in ToSet(r)
    <3>1. CASE k = 1
      BY <1>1, <1>2, <2>2, <3>1 DEF ToSet
    <3>2. CASE k # 1
      <4>1. k - 1 \in 1 .. n /\ r[k - 1] = x
        BY <1>1, <1>2, <2>2, <3>2
      <4>2. QED
        BY <1>1, <4>1 DEF ToSet
    <3>3. QED
      BY <3>1, <3>2
  <2>3. QED
    BY <1>1, <2>1, <2>2 DEF ToSet
<1>6. ToSet(r) = ToSet(s)
  BY <1>5
<1>7. Head(s) \in ToSet(s)
  BY <1>1 DEF ToSet
<1>8. \A k \in 1 .. n - 1 : r[k] = s[k + 1]
  BY <1>1, <1>2
<1>9. QED
  BY <1>1, <1>4, <1>6, <1>7, <1>8 DEF r, n


----------------------------------------------------------------------------
(* Counters.                                                               *)

\* The requests of S that owner o counts, and the counter of every owner.
Count(S, o) == Cardinality({h \in S : o \in Owners(h)})
Counts(S) == [o \in AllOwners |-> Count(S, o)]

\* What one request more, or one less, does to a count.
LEMMA CountStep ==
    ASSUME NEW S \in SUBSET Hooks, NEW o, NEW h \in Hooks
    PROVE  /\ Count(S, o) \in Nat
           /\ h \notin S => Count(S \cup {h}, o) = Count(S, o) + (IF o \in Owners(h) THEN 1 ELSE 0)
           /\ h \in S => Count(S \ {h}, o) = Count(S, o) - (IF o \in Owners(h) THEN 1 ELSE 0)
<1> DEFINE C == {g \in S : o \in Owners(g)}
<1>1. IsFiniteSet(C)
  <2>1. IsFiniteSet(Hooks) /\ C \in SUBSET Hooks
    BY HookConstants
  <2>2. QED
    BY <2>1, FS_Subset
<1>2. Cardinality(C) \in Nat
  BY <1>1, FS_CardinalityType
<1>3. ASSUME h \notin S
      PROVE  Count(S \cup {h}, o) = Count(S, o) + (IF o \in Owners(h) THEN 1 ELSE 0)
  <2>1. {g \in S \cup {h} : o \in Owners(g)} = IF o \in Owners(h) THEN C \cup {h} ELSE C
    OBVIOUS
  <2>2. h \notin C
    BY <1>3
  <2>3. Cardinality(C \cup {h}) = Cardinality(C) + 1
    <3> HIDE DEF C
    <3>1. QED
      BY <1>1, <2>2, FS_AddElement
  <2>4. CASE o \in Owners(h)
    BY <1>2, <2>1, <2>3, <2>4 DEF Count
  <2>5. CASE o \notin Owners(h)
    <3>1. Count(S \cup {h}, o) = Count(S, o)
      BY <2>1, <2>5 DEF Count
    <3>2. QED
      BY <1>2, <2>5, <3>1 DEF Count
  <2>6. QED
    BY <2>4, <2>5
<1>4. ASSUME h \in S
      PROVE  Count(S \ {h}, o) = Count(S, o) - (IF o \in Owners(h) THEN 1 ELSE 0)
  <2>1. {g \in S \ {h} : o \in Owners(g)} = IF o \in Owners(h) THEN C \ {h} ELSE C
    OBVIOUS
  <2>2. o \in Owners(h) => h \in C
    BY <1>4
  <2>3. h \in C => Cardinality(C \ {h}) = Cardinality(C) - 1
    <3> HIDE DEF C
    <3>1. QED
      BY <1>1, FS_RemoveElement
  <2>4. CASE o \in Owners(h)
    BY <1>2, <2>1, <2>2, <2>3, <2>4 DEF Count
  <2>5. CASE o \notin Owners(h)
    BY <1>2, <2>1, <2>5 DEF Count
  <2>6. QED
    BY <2>4, <2>5
<1>5. QED
  BY <1>2, <1>3, <1>4 DEF Count

\* Fewer requests never count for more.
LEMMA CountMonotone ==
    ASSUME NEW S \in SUBSET Hooks, NEW T \in SUBSET S, NEW o
    PROVE  Count(T, o) <= Count(S, o)
<1> DEFINE C == {g \in S : o \in Owners(g)}
           D == {g \in T : o \in Owners(g)}
<1>1. IsFiniteSet(C)
  <2>1. IsFiniteSet(Hooks) /\ C \in SUBSET Hooks
    BY HookConstants
  <2>2. QED
    BY <2>1, FS_Subset
<1>2. D \in SUBSET C
  OBVIOUS
<1>3. Cardinality(D) <= Cardinality(C)
  <2> HIDE DEF C, D
  <2>1. QED
    BY <1>1, <1>2, FS_Subset
<1>4. QED
  BY <1>3 DEF Count

\* Charge keeps the counters of a set right as a request joins or leaves it.
LEMMA ChargeFacts ==
    ASSUME NEW S \in SUBSET Hooks, NEW h \in Hooks
    PROVE  /\ Counts(S) \in [AllOwners -> Nat]
           /\ h \notin S => Charge(Counts(S), h, 1) = Counts(S \cup {h})
           /\ h \in S => Charge(Counts(S), h, -1) = Counts(S \ {h})
<1>1. Counts(S) \in [AllOwners -> Nat]
  BY CountStep DEF Counts
<1>2. ASSUME h \notin S PROVE Charge(Counts(S), h, 1) = Counts(S \cup {h})
  <2>1. \A o \in AllOwners : /\ Count(S, o) \in Nat
                             /\ Count(S \cup {h}, o)
                                  = Count(S, o) + (IF o \in Owners(h) THEN 1 ELSE 0)
    BY <1>2, CountStep
  <2>2. \A o \in AllOwners : Count(S \cup {h}, o)
                               = IF o \in Owners(h) THEN Count(S, o) + 1 ELSE Count(S, o)
    BY <2>1
  <2>3. QED
    BY <2>2 DEF Counts, Charge
<1>3. ASSUME h \in S PROVE Charge(Counts(S), h, -1) = Counts(S \ {h})
  <2>1. \A o \in AllOwners : /\ Count(S, o) \in Nat
                             /\ Count(S \ {h}, o)
                                  = Count(S, o) - (IF o \in Owners(h) THEN 1 ELSE 0)
    BY <1>3, CountStep
  <2>2. ASSUME NEW o \in AllOwners
        PROVE  Count(S \ {h}, o) = IF o \in Owners(h) THEN Count(S, o) + (-1) ELSE Count(S, o)
    <3>1. CASE o \in Owners(h)
      <4>1. Count(S \ {h}, o) = Count(S, o) - 1 /\ Count(S, o) \in Nat
        BY <2>1, <3>1
      <4>2. QED
        BY <3>1, <4>1
    <3>2. CASE o \notin Owners(h)
      BY <2>1, <3>2
    <3>3. QED
      BY <3>1, <3>2
  <2>3. QED
    BY <2>2 DEF Counts, Charge
<1>4. QED
  BY <1>1, <1>2, <1>3

\* The counters exist for every owner of a request.
LEMMA OwnersCounted ==
    ASSUME NEW h \in Hooks
    PROVE  /\ {"all", HarnessOf[h], ClientOf[h]} \subseteq AllOwners
           /\ \A o : o \in Owners(h) <=> o = "all" \/ o = HarnessOf[h] \/ o = ClientOf[h]
           /\ \A g \in Hooks : /\ HarnessOf[g] \in Owners(h) <=> HarnessOf[g] = HarnessOf[h]
                               /\ ClientOf[g] \in Owners(h) <=> ClientOf[g] = ClientOf[h]
<1>1. "all" \notin Harnesses \cup Clients /\ Harnesses \cap Clients = {}
  BY HookConstants
<1>2. \A g \in Hooks : HarnessOf[g] \in Harnesses /\ ClientOf[g] \in Clients
  BY DEF Harnesses, Clients
<1>3. \A o : o \in Owners(h) <=> o = "all" \/ o = HarnessOf[h] \/ o = ClientOf[h]
  BY DEF Owners
<1>4. Owners(h) \subseteq AllOwners
  BY DEF AllOwners
<1>5. \A g \in Hooks : /\ HarnessOf[g] # "all" /\ HarnessOf[g] # ClientOf[h]
                       /\ ClientOf[g] # "all" /\ ClientOf[g] # HarnessOf[h]
  BY <1>1, <1>2
<1>6. QED
  BY <1>3, <1>4, <1>5

----------------------------------------------------------------------------
(* Payload bytes.                                                          *)

\* The bytes that all reservations hold together.
Held(b) == Cardinality(UNION {{h} \X (1 .. b[h]) : h \in Hooks})

\* What changing one reservation does to the total.
LEMMA HeldStep ==
    ASSUME NEW b \in [Hooks -> Nat], NEW h \in Hooks, NEW n \in Nat
    PROVE  /\ Held(b) \in Nat
           /\ b[h] <= Held(b)
           /\ Held([b EXCEPT ![h] = n]) = Held(b) - b[h] + n
<1> DEFINE R == UNION {{g} \X (1 .. b[g]) : g \in Hooks \ {h}}
           P(k) == {h} \X (1 .. k)
<1>1. IsFiniteSet(R)
  <2> DEFINE Cell(g) == {g} \X (1 .. b[g])
             Y == {Cell(g) : g \in Hooks \ {h}}
  <2>1. IsFiniteSet(Hooks \ {h})
    BY HookConstants, FS_RemoveElement
  <2>2. IsFiniteSet(Y)
    <3> DEFINE f == [g \in Hooks \ {h} |-> Cell(g)]
    <3> HIDE DEF Cell
    <3>1. f \in Surjection(Hooks \ {h}, Y)
      BY DEF Surjection
    <3> HIDE DEF f, Y
    <3>2. QED
      BY <2>1, <3>1, FS_Surjection
  <2>3. ASSUME NEW g \in Hooks \ {h} PROVE IsFiniteSet(Cell(g))
    <3>1. b[g] \in Int /\ 1 \in Int
      OBVIOUS
    <3>2. IsFiniteSet(1 .. b[g]) /\ IsFiniteSet({g})
      BY <3>1, FS_Interval, FS_Singleton
    <3>3. QED
      BY <3>2, FS_Product
  <2> HIDE DEF Cell
  <2>4. \A T \in Y : IsFiniteSet(T)
    BY <2>3
  <2> HIDE DEF Y
  <2>5. IsFiniteSet(UNION Y)
    BY <2>2, <2>4, FS_UNION
  <2>6. QED
    BY <2>5 DEF Y, Cell
<1>2. ASSUME NEW k \in Nat PROVE IsFiniteSet(P(k)) /\ Cardinality(P(k)) = k
  <2>1. IsFiniteSet(1 .. k) /\ Cardinality(1 .. k) = IF 1 > k THEN 0 ELSE k - 1 + 1
    BY FS_Interval
  <2>2. Cardinality(1 .. k) = k
    BY <2>1
  <2>3. IsFiniteSet({h}) /\ Cardinality({h}) = 1
    BY FS_Singleton
  <2>4. IsFiniteSet(P(k)) /\ Cardinality(P(k)) = Cardinality({h}) * Cardinality(1 .. k)
    BY <2>1, <2>3, FS_Product
  <2>5. QED
    BY <2>2, <2>3, <2>4
<1>3. ASSUME NEW k PROVE R \cap P(k) = {}
  OBVIOUS
<1>4. ASSUME NEW c \in [Hooks -> Nat], \A g \in Hooks \ {h} : c[g] = b[g]
      PROVE  UNION {{g} \X (1 .. c[g]) : g \in Hooks} = R \cup P(c[h])
  <2>1. R = UNION {{g} \X (1 .. c[g]) : g \in Hooks \ {h}}
    BY <1>4
  <2>2. ASSUME NEW x
        PROVE  x \in UNION {{g} \X (1 .. c[g]) : g \in Hooks} <=> x \in R \cup P(c[h])
    BY <2>1
  <2> HIDE DEF R, P
  <2>3. QED
    BY <2>2
<1> HIDE DEF R, P
<1>5. Cardinality(R) \in Nat
  BY <1>1, FS_CardinalityType
<1>6. ASSUME NEW k \in Nat PROVE Cardinality(R \cup P(k)) = Cardinality(R) + k
  <2>1. Cardinality(R \cup P(k)) = Cardinality(R) + Cardinality(P(k)) - Cardinality(R \cap P(k))
    BY <1>1, <1>2, FS_Union
  <2>2. Cardinality(R \cap P(k)) = 0
    BY <1>3, FS_EmptySet
  <2>3. Cardinality(P(k)) = k
    BY <1>2
  <2>4. QED
    BY <1>5, <2>1, <2>2, <2>3
<1>7. ASSUME NEW c \in [Hooks -> Nat], \A g \in Hooks \ {h} : c[g] = b[g]
      PROVE  Held(c) = Cardinality(R) + c[h]
  BY <1>4, <1>6, <1>7 DEF Held
<1>8. Held(b) = Cardinality(R) + b[h]
  BY <1>7
<1>9. Held([b EXCEPT ![h] = n]) = Cardinality(R) + n
  <2> DEFINE c == [b EXCEPT ![h] = n]
  <2>1. c \in [Hooks -> Nat] /\ c[h] = n /\ \A g \in Hooks \ {h} : c[g] = b[g]
    OBVIOUS
  <2> HIDE DEF c
  <2>2. Held(c) = Cardinality(R) + n
    BY <1>7, <2>1
  <2>3. QED
    BY <2>2 DEF c
<1>10. QED
  BY <1>5, <1>8, <1>9

\* Smaller reservations never hold more.
LEMMA HeldMonotone ==
    ASSUME NEW b \in [Hooks -> Nat], NEW c \in [Hooks -> Nat],
           \A h \in Hooks : c[h] <= b[h]
    PROVE  Held(c) <= Held(b)
<1> DEFINE C == UNION {{h} \X (1 .. c[h]) : h \in Hooks}
           B == UNION {{h} \X (1 .. b[h]) : h \in Hooks}
<1>1. C \in SUBSET B
  <2>1. \A h \in Hooks : 1 .. c[h] \subseteq 1 .. b[h]
    OBVIOUS
  <2>2. QED
    BY <2>1
<1>2. IsFiniteSet(B)
  <2> DEFINE Cell(g) == {g} \X (1 .. b[g])
             Y == {Cell(g) : g \in Hooks}
  <2>1. IsFiniteSet(Y)
    <3> DEFINE f == [g \in Hooks |-> Cell(g)]
    <3> HIDE DEF Cell
    <3>1. f \in Surjection(Hooks, Y)
      BY DEF Surjection
    <3> HIDE DEF f, Y
    <3>2. QED
      BY HookConstants, <3>1, FS_Surjection
  <2>2. ASSUME NEW g \in Hooks PROVE IsFiniteSet(Cell(g))
    <3>1. b[g] \in Int /\ 1 \in Int
      OBVIOUS
    <3>2. IsFiniteSet(1 .. b[g]) /\ IsFiniteSet({g})
      BY <3>1, FS_Interval, FS_Singleton
    <3>3. QED
      BY <3>2, FS_Product
  <2> HIDE DEF Cell
  <2>3. \A T \in Y : IsFiniteSet(T)
    BY <2>2
  <2> HIDE DEF Y
  <2>4. IsFiniteSet(UNION Y)
    BY <2>1, <2>3, FS_UNION
  <2>5. QED
    BY <2>4 DEF Y, Cell
<1> HIDE DEF B, C
<1>3. Cardinality(C) <= Cardinality(B)
  BY <1>1, <1>2, FS_Subset
<1>4. QED
  BY <1>3 DEF Held, B, C


----------------------------------------------------------------------------
(* Sound scheduler objects.                                                *)

Queue(s) == ToSet(s.line)

\* GroupsReachable of a scheduler object.
Rotation(s) ==
    \A lane \in ToSet(Lanes) :
        /\ IsInjective(s.rota[lane])
        /\ ToSet(s.rota[lane]) = {key \in Keys : Items(s, lane, key) # {}}

\* A request is in at most one place: queued, taken out of the queue by the
\* search that is under way (out), admitted or rejected.
Apart(s, out) ==
    /\ Queue(s) \cap out = {} /\ Queue(s) \cap s.granted = {} /\ Queue(s) \cap s.dropped = {}
    /\ out \cap s.granted = {} /\ out \cap s.dropped = {} /\ s.granted \cap s.dropped = {}

\* The counters, the rotation and the reservations agree with the requests.  A
\* request that a search has taken out is still counted as queued.
Sound(s, out) ==
    /\ s \in SchedType
    /\ out \in SUBSET Hooks
    /\ IsInjective(s.line)
    /\ Rotation(s)
    /\ Apart(s, out)
    /\ s.queued = Counts(Queue(s) \cup out)
    /\ s.active = Counts(s.granted)
    /\ s.retained = Held(s.bytes)
    /\ \A h \in s.dropped : s.bytes[h] = 0

\* The components of a scheduler object.
LEMMA SchedFields ==
    ASSUME NEW s \in SchedType
    PROVE  /\ s.line \in Seq(Hooks)
           /\ s.rota \in [ToSet(Lanes) -> Seq(Keys)]
           /\ s.deficit \in [ToSet(Lanes) -> 0 .. 4]
           /\ s.cursor \in 0 .. 2
           /\ s.queued \in [AllOwners -> Nat]
           /\ s.active \in [AllOwners -> Nat]
           /\ s.retained \in Nat
           /\ s.bytes \in [Hooks -> Nat]
           /\ s.limit \in ActiveLimits
           /\ s.granted \in SUBSET Hooks
           /\ s.dropped \in SUBSET Hooks
           /\ Queue(s) \in SUBSET Hooks
<1>1. s.line \in Seq(Hooks)
  BY DEF SchedType
<1>2. ToSet(s.line) \in SUBSET Hooks
  BY <1>1 DEF ToSet
<1>3. QED
  BY <1>2 DEF SchedType, Queue

\* Every lane and group of a request is one of the scheduler's.
LEMMA LaneAndKey ==
    ASSUME NEW h \in Hooks
    PROVE  LaneOf[h] \in ToSet(Lanes) /\ Key(h) \in Keys
BY HookConstants DEF Keys

\* _remove_from_lane keeps the queue in order and the rotation exact: a group
\* leaves the rotation with its last request.
LEMMA RemoveFields ==
    ASSUME NEW s \in SchedType, IsInjective(s.line), Rotation(s), NEW h \in Queue(s)
    PROVE  LET r == RemoveFromLane(s, h) IN
           /\ r \in SchedType
           /\ IsInjective(r.line)
           /\ Queue(r) = Queue(s) \ {h}
           /\ Rotation(r)
           /\ \A lane \in ToSet(Lanes) : Len(r.rota[lane]) >= Len(s.rota[lane]) - 1
           /\ r.queued = s.queued /\ r.active = s.active /\ r.retained = s.retained
           /\ r.bytes = s.bytes /\ r.limit = s.limit
           /\ r.granted = s.granted /\ r.dropped = s.dropped
<1> DEFINE r == RemoveFromLane(s, h)
           ln == LaneOf[h]
           key == Key(h)
           rest == Items(s, ln, key) \ {h}
           rot == IF rest = {} THEN RemoveFirst(s.rota[ln], key) ELSE s.rota[ln]
           line == RemoveFirst(s.line, h)
<1>1. h \in Hooks /\ ln \in ToSet(Lanes) /\ key \in Keys
  BY SchedFields, LaneAndKey
<1>2. r = [s EXCEPT !.line = line, !.rota[ln] = rot]
  BY DEF RemoveFromLane
<1>3. line \in Seq(Hooks) /\ IsInjective(line) /\ ToSet(line) = ToSet(s.line) \ {h}
  BY SchedFields, RemoveFacts DEF Queue
<1>4. h \in Items(s, ln, key)
  BY DEF Items, Queue
<1>5. key \in ToSet(s.rota[ln]) /\ IsInjective(s.rota[ln]) /\ s.rota[ln] \in Seq(Keys)
  BY <1>1, <1>4, SchedFields DEF Rotation
<1>6. /\ rot \in Seq(Keys) /\ IsInjective(rot)
      /\ ToSet(rot) = IF rest = {} THEN ToSet(s.rota[ln]) \ {key} ELSE ToSet(s.rota[ln])
      /\ Len(rot) >= Len(s.rota[ln]) - 1
  <2> HIDE DEF key, ln, rest
  <2>1. CASE rest = {}
    <3>1. rot = RemoveFirst(s.rota[ln], key)
      BY <2>1
    <3>2. Len(rot) = Len(s.rota[ln]) - 1 /\ Len(s.rota[ln]) \in Nat
      BY <1>5, <3>1, RemoveFacts
    <3>3. /\ rot \in Seq(Keys) /\ IsInjective(rot)
          /\ ToSet(rot) = ToSet(s.rota[ln]) \ {key}
      BY <1>5, <3>1, RemoveFacts
    <3>4. QED
      BY <2>1, <3>2, <3>3
  <2>2. CASE rest # {}
    <3>1. rot = s.rota[ln] /\ Len(s.rota[ln]) \in Nat
      BY <1>5, <2>2
    <3>2. QED
      BY <1>5, <2>2, <3>1
  <2>3. QED
    BY <2>1, <2>2
<1> HIDE DEF line, rot
<1>7. /\ r.line = line /\ r.rota = [s.rota EXCEPT ![ln] = rot]
      /\ r.queued = s.queued /\ r.active = s.active /\ r.retained = s.retained
      /\ r.bytes = s.bytes /\ r.limit = s.limit
      /\ r.granted = s.granted /\ r.dropped = s.dropped
  BY <1>2 DEF SchedType
<1>8. r \in SchedType
  <2> HIDE DEF r, ln
  <2>1. QED
    BY <1>1, <1>2, <1>3, <1>6 DEF SchedType
<1> HIDE DEF r
<1>9. \A lane \in ToSet(Lanes) : r.rota[lane] = IF lane = ln THEN rot ELSE s.rota[lane]
  BY <1>1, <1>7, SchedFields
<1>10. Queue(r) = Queue(s) \ {h}
  BY <1>3, <1>7 DEF Queue
<1>11. \A lane \in ToSet(Lanes), k \in Keys : Items(r, lane, k) = Items(s, lane, k) \ {h}
  BY <1>10 DEF Items, Queue
<1>12. Rotation(r)
  <2>1. SUFFICES ASSUME NEW lane \in ToSet(Lanes)
                 PROVE  /\ IsInjective(r.rota[lane])
                        /\ ToSet(r.rota[lane]) = {k \in Keys : Items(r, lane, k) # {}}
    BY DEF Rotation
  <2>2. IsInjective(s.rota[lane])
        /\ ToSet(s.rota[lane]) = {k \in Keys : Items(s, lane, k) # {}}
    BY DEF Rotation
  <2>3. CASE lane = ln
    <3>1. r.rota[lane] = rot
      BY <1>9, <2>3
    <3>2. ASSUME NEW k \in Keys
          PROVE  Items(r, lane, k) # {}
                   <=> Items(s, lane, k) # {} /\ (k = key => rest # {})
      <4>1. CASE k = key
        BY <1>11, <2>3, <4>1
      <4>2. CASE k # key
        <5>1. h \notin Items(s, lane, k)
          BY <4>2 DEF Items
        <5>2. QED
          BY <1>11, <4>2, <5>1
      <4>3. QED
        BY <4>1, <4>2
    <3>3. ASSUME NEW k PROVE k \in ToSet(rot) <=> k \in Keys /\ Items(r, lane, k) # {}
      <4> HIDE DEF rest, key
      <4>1. QED
        BY <1>1, <1>6, <2>2, <2>3, <3>2
    <3>4. QED
      BY <1>6, <3>1, <3>3
  <2>4. CASE lane # ln
    <3>1. r.rota[lane] = s.rota[lane]
      BY <1>9, <2>4
    <3>2. \A k \in Keys : h \notin Items(s, lane, k)
      BY <2>4 DEF Items
    <3>3. \A k \in Keys : Items(r, lane, k) = Items(s, lane, k)
      BY <1>11, <3>2
    <3>4. QED
      BY <2>2, <3>1, <3>3
  <2>5. QED
    BY <2>3, <2>4
<1>13. \A lane \in ToSet(Lanes) : Len(r.rota[lane]) >= Len(s.rota[lane]) - 1
  <2>1. \A lane \in ToSet(Lanes) : Len(s.rota[lane]) \in Nat
    BY SchedFields
  <2>2. QED
    BY <1>6, <1>9, <2>1
<1>14. QED
  BY <1>3, <1>7, <1>8, <1>10, <1>12, <1>13 DEF r


\* A request taken out of the queue is still counted.
LEMMA RemoveSound ==
    ASSUME NEW s, NEW out, Sound(s, out), NEW h \in Queue(s)
    PROVE  Sound(RemoveFromLane(s, h), out \cup {h}) /\ h \in Hooks /\ h \notin out
<1> DEFINE r == RemoveFromLane(s, h)
<1>1. s \in SchedType /\ IsInjective(s.line) /\ Rotation(s) /\ h \in Hooks /\ h \notin out
  BY SchedFields DEF Sound, Apart
<1>2. /\ r \in SchedType
      /\ IsInjective(r.line)
      /\ Queue(r) = Queue(s) \ {h}
      /\ Rotation(r)
      /\ r.queued = s.queued /\ r.active = s.active /\ r.retained = s.retained
      /\ r.bytes = s.bytes
      /\ r.granted = s.granted /\ r.dropped = s.dropped
  BY <1>1, RemoveFields
<1> HIDE DEF r
<1>3. Queue(r) \cup (out \cup {h}) = Queue(s) \cup out
  BY <1>2
<1>4. Apart(r, out \cup {h})
  BY <1>2 DEF Apart, Sound
<1>5. Sound(r, out \cup {h})
  BY <1>1, <1>2, <1>3, <1>4 DEF Sound
<1>6. QED
  BY <1>1, <1>5 DEF r

\* What DropQueued does to a sound scheduler: place and bytes are given back.
LEMMA DropSound ==
    ASSUME NEW s, NEW out, Sound(s, out), NEW h \in Queue(s)
    PROVE  LET q == DropQueued(s, h) IN
           /\ Sound(q, out)
           /\ Queue(q) = Queue(s) \ {h}
           /\ q.bytes = [s.bytes EXCEPT ![h] = 0]
           /\ q.granted = s.granted /\ q.dropped = s.dropped /\ q.limit = s.limit
           /\ \A lane \in ToSet(Lanes) : Len(q.rota[lane]) >= Len(s.rota[lane]) - 1
<1> DEFINE r == RemoveFromLane(s, h)
           q == DropQueued(s, h)
<1>1. s \in SchedType /\ IsInjective(s.line) /\ Rotation(s) /\ h \in Hooks /\ h \notin out
  BY SchedFields DEF Sound, Apart
<1>2. /\ r \in SchedType
      /\ Queue(r) = Queue(s) \ {h}
      /\ \A lane \in ToSet(Lanes) : Len(r.rota[lane]) >= Len(s.rota[lane]) - 1
      /\ r.bytes = s.bytes /\ r.limit = s.limit
      /\ r.granted = s.granted /\ r.dropped = s.dropped
  BY <1>1, RemoveFields
<1>3. Sound(r, out \cup {h})
  BY RemoveSound
<1>4. q = [r EXCEPT !.queued = Charge(r.queued, h, -1),
                    !.retained = r.retained - r.bytes[h], !.bytes[h] = 0]
  <2>1. r.bytes = s.bytes
    BY <1>2
  <2> HIDE DEF r
  <2>2. q = [r EXCEPT !.queued = Charge(@, h, -1), !.retained = @ - s.bytes[h], !.bytes[h] = 0]
    BY DEF DropQueued, r
  <2> HIDE DEF q
  <2>3. QED
    BY <2>1, <2>2
<1> HIDE DEF r, q
<1>5. /\ r.bytes \in [Hooks -> Nat] /\ r.queued = Counts(Queue(r) \cup (out \cup {h}))
      /\ r.retained = Held(r.bytes) /\ Queue(r) \in SUBSET Hooks /\ out \in SUBSET Hooks
  BY <1>2, <1>3, SchedFields DEF Sound
<1>6. Charge(r.queued, h, -1) = Counts(Queue(r) \cup out)
      /\ Counts(Queue(r) \cup out) \in [AllOwners -> Nat]
  <2> DEFINE Q == Queue(r) \cup (out \cup {h})
  <2>1. Q \in SUBSET Hooks /\ h \in Q /\ Q \ {h} = Queue(r) \cup out
        /\ Queue(r) \cup out \in SUBSET Hooks
    BY <1>1, <1>2, <1>5
  <2> HIDE DEF Q
  <2>2. Charge(Counts(Q), h, -1) = Counts(Q \ {h})
        /\ Counts(Queue(r) \cup out) \in [AllOwners -> Nat]
    BY <1>1, <2>1, ChargeFacts
  <2>3. QED
    BY <1>5, <2>1, <2>2 DEF Q
<1>7. r.retained - r.bytes[h] = Held([r.bytes EXCEPT ![h] = 0])
      /\ r.retained - r.bytes[h] \in Nat
  <2>1. /\ Held(r.bytes) \in Nat /\ r.bytes[h] \in Nat /\ r.bytes[h] <= Held(r.bytes)
        /\ Held([r.bytes EXCEPT ![h] = 0]) = Held(r.bytes) - r.bytes[h] + 0
    BY <1>1, <1>5, HeldStep
  <2>2. QED
    BY <1>5, <2>1
<1>8. /\ q.line = r.line /\ q.rota = r.rota
      /\ q.queued = Counts(Queue(r) \cup out)
      /\ q.active = r.active
      /\ q.retained = Held([r.bytes EXCEPT ![h] = 0])
      /\ q.bytes = [r.bytes EXCEPT ![h] = 0]
      /\ q.limit = r.limit /\ q.granted = r.granted /\ q.dropped = r.dropped
  BY <1>2, <1>4, <1>6, <1>7 DEF SchedType
<1>9. q \in SchedType
  <2>1. [r.bytes EXCEPT ![h] = 0] \in [Hooks -> Nat]
    BY <1>1, <1>5
  <2>2. Charge(r.queued, h, -1) \in [AllOwners -> Nat]
    BY <1>6
  <2>3. QED
    BY <1>2, <1>4, <1>7, <2>1, <2>2 DEF SchedType
<1>10. Queue(q) = Queue(r)
  BY <1>8 DEF Queue
<1>11. Rotation(q)
  <2>1. \A lane \in ToSet(Lanes), k \in Keys : Items(q, lane, k) = Items(r, lane, k)
    BY <1>8 DEF Items
  <2>2. QED
    BY <1>3, <1>8, <2>1 DEF Sound, Rotation
<1>12. Apart(q, out)
  BY <1>3, <1>8, <1>10 DEF Sound, Apart
<1>13. \A g \in q.dropped : q.bytes[g] = 0
  BY <1>1, <1>2, <1>3, <1>5, <1>8 DEF Sound
<1>14. Sound(q, out)
  BY <1>3, <1>5, <1>8, <1>9, <1>10, <1>11, <1>12, <1>13 DEF Sound
<1>15. QED
  BY <1>2, <1>8, <1>10, <1>14 DEF q

\* Changing nothing but the rejected requests, the limit, the rotation's
\* order or the lanes' credits keeps a scheduler sound.
LEMMA RecastSound ==
    ASSUME NEW s, NEW out, Sound(s, out), NEW q \in SchedType,
           q.line = s.line, q.queued = s.queued, q.active = s.active,
           q.retained = s.retained, q.bytes = s.bytes, q.granted = s.granted,
           q.dropped \cap (Queue(s) \cup out \cup s.granted) = {},
           \A h \in q.dropped : q.bytes[h] = 0,
           \A lane \in ToSet(Lanes) : /\ IsInjective(q.rota[lane])
                                      /\ ToSet(q.rota[lane]) = ToSet(s.rota[lane])
    PROVE  Sound(q, out) /\ Queue(q) = Queue(s)
<1>1. Queue(q) = Queue(s)
  BY DEF Queue
<1>2. Rotation(q)
  <2>1. \A lane \in ToSet(Lanes), k \in Keys : Items(q, lane, k) = Items(s, lane, k)
    BY DEF Items
  <2>2. QED
    BY <2>1 DEF Sound, Rotation
<1>3. Apart(q, out)
  BY <1>1 DEF Sound, Apart
<1>4. QED
  BY <1>1, <1>2, <1>3 DEF Sound

\* _reject_queued also records the rejection.
LEMMA RejectSound ==
    ASSUME NEW s, NEW out, Sound(s, out), NEW h \in Queue(s)
    PROVE  LET q == RejectQueued(s, h) IN
           /\ Sound(q, out)
           /\ Queue(q) = Queue(s) \ {h}
           /\ q.bytes = [s.bytes EXCEPT ![h] = 0]
           /\ q.granted = s.granted /\ q.dropped = s.dropped \cup {h} /\ q.limit = s.limit
           /\ \A lane \in ToSet(Lanes) : Len(q.rota[lane]) >= Len(s.rota[lane]) - 1
<1> DEFINE d == DropQueued(s, h)
           q == RejectQueued(s, h)
<1>1. s \in SchedType /\ h \in Hooks /\ h \notin out /\ h \notin s.granted
      /\ s.bytes \in [Hooks -> Nat]
  BY SchedFields DEF Sound, Apart
<1>2. /\ Sound(d, out)
      /\ Queue(d) = Queue(s) \ {h}
      /\ d.bytes = [s.bytes EXCEPT ![h] = 0]
      /\ d.granted = s.granted /\ d.dropped = s.dropped /\ d.limit = s.limit
      /\ \A lane \in ToSet(Lanes) : Len(d.rota[lane]) >= Len(s.rota[lane]) - 1
  BY DropSound
<1>3. q = [d EXCEPT !.dropped = @ \cup {h}]
  BY DEF RejectQueued
<1> HIDE DEF d, q
<1>4. d \in SchedType
  BY <1>2 DEF Sound
<1>5. /\ q \in SchedType /\ q.line = d.line /\ q.rota = d.rota /\ q.queued = d.queued
      /\ q.active = d.active /\ q.retained = d.retained /\ q.bytes = d.bytes
      /\ q.limit = d.limit /\ q.granted = d.granted /\ q.dropped = d.dropped \cup {h}
  BY <1>1, <1>3, <1>4 DEF SchedType
<1>6. q.dropped \cap (Queue(d) \cup out \cup d.granted) = {}
  BY <1>1, <1>2, <1>5 DEF Sound, Apart
<1>7. \A g \in q.dropped : q.bytes[g] = 0
  BY <1>1, <1>2, <1>5 DEF Sound
<1>8. \A lane \in ToSet(Lanes) : IsInjective(q.rota[lane])
                                 /\ ToSet(q.rota[lane]) = ToSet(d.rota[lane])
  BY <1>2, <1>5 DEF Sound, Rotation
<1>9. Sound(q, out) /\ Queue(q) = Queue(d)
  BY <1>2, <1>5, <1>6, <1>7, <1>8, RecastSound
<1>10. QED
  BY <1>2, <1>5, <1>9 DEF q


\* A request picked by the search gets its slot.
LEMMA GrantSound ==
    ASSUME NEW s, NEW h \in Hooks, Sound(s, {h})
    PROVE  LET q == Grant(s, h) IN
           /\ Sound(q, {})
           /\ Queue(q) = Queue(s)
           /\ q.active = Charge(s.active, h, 1)
           /\ q.granted = s.granted \cup {h}
           /\ q.bytes = s.bytes /\ q.dropped = s.dropped /\ q.limit = s.limit
           /\ q.rota = s.rota
<1> DEFINE q == Grant(s, h)
<1>1. /\ s \in SchedType /\ h \notin Queue(s) /\ h \notin s.granted /\ h \notin s.dropped
      /\ Queue(s) \in SUBSET Hooks /\ s.granted \in SUBSET Hooks
      /\ s.queued = Counts(Queue(s) \cup {h}) /\ s.active = Counts(s.granted)
  BY SchedFields DEF Sound, Apart
<1>2. /\ Charge(s.active, h, 1) = Counts(s.granted \cup {h})
      /\ Counts(s.granted \cup {h}) \in [AllOwners -> Nat]
  <2>1. s.granted \cup {h} \in SUBSET Hooks
    BY <1>1
  <2>2. QED
    BY <1>1, <2>1, ChargeFacts
<1>3. Charge(s.queued, h, -1) = Counts(Queue(s)) /\ Counts(Queue(s)) \in [AllOwners -> Nat]
  <2> DEFINE Q == Queue(s) \cup {h}
  <2>1. Q \in SUBSET Hooks /\ h \in Q /\ Q \ {h} = Queue(s)
    BY <1>1
  <2> HIDE DEF Q
  <2>2. Charge(Counts(Q), h, -1) = Counts(Q \ {h}) /\ Counts(Queue(s)) \in [AllOwners -> Nat]
    BY <1>1, <2>1, ChargeFacts
  <2>3. QED
    BY <1>1, <2>1, <2>2 DEF Q
<1>4. q = [s EXCEPT !.queued = Counts(Queue(s)), !.active = Counts(s.granted \cup {h}),
                    !.granted = s.granted \cup {h}]
  BY <1>1, <1>2, <1>3 DEF Grant, SchedType
<1> HIDE DEF q
<1>5. /\ q \in SchedType /\ q.line = s.line /\ q.rota = s.rota
      /\ q.queued = Counts(Queue(s)) /\ q.active = Counts(s.granted \cup {h})
      /\ q.retained = s.retained /\ q.bytes = s.bytes
      /\ q.limit = s.limit /\ q.granted = s.granted \cup {h} /\ q.dropped = s.dropped
  BY <1>1, <1>2, <1>3, <1>4 DEF SchedType
<1>6. Queue(q) = Queue(s)
  BY <1>5 DEF Queue
<1>7. Rotation(q)
  <2>1. \A lane \in ToSet(Lanes), k \in Keys : Items(q, lane, k) = Items(s, lane, k)
    BY <1>5 DEF Items
  <2>2. QED
    BY <1>5, <2>1 DEF Sound, Rotation
<1>8. Apart(q, {})
  BY <1>1, <1>5, <1>6 DEF Sound, Apart
<1>9. Queue(q) \cup {} = Queue(s)
  BY <1>6
<1>10. Sound(q, {})
  BY <1>5, <1>7, <1>8, <1>9 DEF Sound
<1>11. QED
  BY <1>2, <1>5, <1>6, <1>10 DEF q

\* A new request joins the queue, and its group the rotation.
LEMMA EnqueueSound ==
    ASSUME NEW s, Sound(s, {}),
           NEW h \in Hooks, h \notin Queue(s) \cup s.granted \cup s.dropped
    PROVE  LET q == Enqueue(s, h) IN
           /\ Sound(q, {})
           /\ Queue(q) = Queue(s) \cup {h}
           /\ q.granted = s.granted /\ q.dropped = s.dropped
           /\ q.active = s.active /\ q.bytes = s.bytes /\ q.retained = s.retained
           /\ q.limit = s.limit /\ q.queued = Charge(s.queued, h, 1)
<1> DEFINE q == Enqueue(s, h)
           ln == LaneOf[h]
           key == Key(h)
           rot == IF Contains(s.rota[ln], key) THEN s.rota[ln] ELSE Append(s.rota[ln], key)
           line == Append(s.line, h)
<1>1. /\ s \in SchedType /\ Queue(s) \in SUBSET Hooks /\ ln \in ToSet(Lanes) /\ key \in Keys
      /\ s.line \in Seq(Hooks) /\ IsInjective(s.line)
      /\ s.rota \in [ToSet(Lanes) -> Seq(Keys)] /\ s.rota[ln] \in Seq(Keys)
      /\ IsInjective(s.rota[ln])
      /\ s.queued = Counts(Queue(s) \cup {})
  BY SchedFields, LaneAndKey DEF Sound, Rotation
<1>2. Queue(s) \cup {} = Queue(s)
  OBVIOUS
<1>3. Charge(s.queued, h, 1) = Counts(Queue(s) \cup {h})
      /\ Counts(Queue(s) \cup {h}) \in [AllOwners -> Nat]
  <2>1. Queue(s) \cup {h} \in SUBSET Hooks
    BY <1>1
  <2>2. QED
    BY <1>1, <1>2, <2>1, ChargeFacts
<1>4. line \in Seq(Hooks) /\ IsInjective(line) /\ ToSet(line) = ToSet(s.line) \cup {h}
  BY <1>1, AppendFacts DEF Queue
<1>5. rot \in Seq(Keys) /\ IsInjective(rot) /\ ToSet(rot) = ToSet(s.rota[ln]) \cup {key}
  <2> HIDE DEF key, ln
  <2>1. CASE key \in ToSet(s.rota[ln])
    <3>1. Contains(s.rota[ln], key)
      BY <1>1, <2>1 DEF Contains, ToSet
    <3>2. QED
      BY <1>1, <2>1, <3>1
  <2>2. CASE key \notin ToSet(s.rota[ln])
    <3>1. ~Contains(s.rota[ln], key)
      BY <1>1, <2>2 DEF Contains, ToSet
    <3>2. QED
      BY <1>1, <2>2, <3>1, AppendFacts
  <2>3. QED
    BY <2>1, <2>2
<1>6. q = [s EXCEPT !.line = line, !.rota[ln] = rot, !.queued = Counts(Queue(s) \cup {h})]
  <2>1. q = [s EXCEPT !.line = line, !.rota[ln] = rot, !.queued = Charge(s.queued, h, 1)]
    BY <1>1 DEF Enqueue, SchedType
  <2>2. QED
    BY <1>3, <2>1
<1> HIDE DEF line, rot, q
<1>7. /\ q.line = line /\ q.rota = [s.rota EXCEPT ![ln] = rot]
      /\ q.queued = Counts(Queue(s) \cup {h}) /\ q.active = s.active
      /\ q.retained = s.retained /\ q.bytes = s.bytes
      /\ q.limit = s.limit /\ q.granted = s.granted /\ q.dropped = s.dropped
  BY <1>1, <1>6 DEF SchedType
<1>8. q \in SchedType
  <2> HIDE DEF ln, key
  <2>1. QED
    BY <1>1, <1>3, <1>4, <1>5, <1>6 DEF SchedType
<1>9. \A lane \in ToSet(Lanes) : q.rota[lane] = IF lane = ln THEN rot ELSE s.rota[lane]
  BY <1>1, <1>7
<1>10. Queue(q) = Queue(s) \cup {h} /\ Queue(q) \cup {} = Queue(s) \cup {h}
  BY <1>4, <1>7 DEF Queue
<1>11. ASSUME NEW lane \in ToSet(Lanes), NEW k \in Keys
       PROVE  Items(q, lane, k) # {}
                <=> Items(s, lane, k) # {} \/ (lane = ln /\ k = key)
  BY <1>10 DEF Items, Queue
<1>12. Rotation(q)
  <2>1. SUFFICES ASSUME NEW lane \in ToSet(Lanes)
                 PROVE  /\ IsInjective(q.rota[lane])
                        /\ ToSet(q.rota[lane]) = {k \in Keys : Items(q, lane, k) # {}}
    BY DEF Rotation
  <2>2. IsInjective(s.rota[lane])
        /\ ToSet(s.rota[lane]) = {k \in Keys : Items(s, lane, k) # {}}
    BY DEF Rotation, Sound
  <2> HIDE DEF ln, key
  <2>3. CASE lane = ln
    BY <1>1, <1>5, <1>9, <1>11, <2>2, <2>3
  <2>4. CASE lane # ln
    BY <1>9, <1>11, <2>2, <2>4
  <2>5. QED
    BY <2>3, <2>4
<1>13. Apart(q, {})
  BY <1>7, <1>10 DEF Sound, Apart
<1>14. Sound(q, {})
  BY <1>4, <1>7, <1>8, <1>10, <1>12, <1>13 DEF Sound
<1>15. QED
  BY <1>3, <1>7, <1>10, <1>14 DEF q

\* TakeBytes of a scheduler object.
WithBytes(s, h, n) == [s EXCEPT !.retained = @ + n - s.bytes[h], !.bytes[h] = n]

\* A reservation is made, resized or given back.
LEMMA BytesSound ==
    ASSUME NEW s, Sound(s, {}), NEW h \in Hooks, h \notin s.dropped, NEW n \in Nat
    PROVE  LET q == WithBytes(s, h, n) IN
           /\ Sound(q, {})
           /\ Queue(q) = Queue(s) /\ q.line = s.line /\ q.queued = s.queued
           /\ q.granted = s.granted /\ q.dropped = s.dropped
           /\ q.active = s.active /\ q.limit = s.limit
           /\ q.bytes = [s.bytes EXCEPT ![h] = n]
           /\ q.retained = s.retained + n - s.bytes[h]
<1> DEFINE m == s.retained + n - s.bytes[h]
           b == [s.bytes EXCEPT ![h] = n]
           q == WithBytes(s, h, n)
<1>1. s \in SchedType /\ s.bytes \in [Hooks -> Nat] /\ s.retained = Held(s.bytes)
  BY SchedFields DEF Sound
<1>2. m = Held(b) /\ m \in Nat
  <2>1. /\ Held(s.bytes) \in Nat /\ s.bytes[h] \in Nat /\ s.bytes[h] <= Held(s.bytes)
        /\ Held([s.bytes EXCEPT ![h] = n]) = Held(s.bytes) - s.bytes[h] + n
    BY <1>1, HeldStep
  <2>2. QED
    BY <1>1, <2>1
<1>3. b \in [Hooks -> Nat] /\ b[h] = n /\ \A g \in Hooks \ {h} : b[g] = s.bytes[g]
  BY <1>1
<1>4. q = [s EXCEPT !.retained = m, !.bytes = b]
  BY <1>1 DEF SchedType, WithBytes
<1> HIDE DEF m, b, q
<1>5. /\ q \in SchedType /\ q.line = s.line /\ q.rota = s.rota
      /\ q.queued = s.queued /\ q.active = s.active
      /\ q.retained = m /\ q.bytes = b
      /\ q.limit = s.limit /\ q.granted = s.granted /\ q.dropped = s.dropped
  BY <1>1, <1>2, <1>3, <1>4 DEF SchedType
<1>6. Queue(q) = Queue(s)
  BY <1>5 DEF Queue
<1>7. Rotation(q)
  <2>1. \A lane \in ToSet(Lanes), k \in Keys : Items(q, lane, k) = Items(s, lane, k)
    BY <1>5 DEF Items
  <2>2. QED
    BY <1>5, <2>1 DEF Sound, Rotation
<1>8. Apart(q, {})
  BY <1>5, <1>6 DEF Sound, Apart
<1>9. \A g \in q.dropped : q.bytes[g] = 0
  BY <1>1, <1>3, <1>5, SchedFields DEF Sound
<1>10. Sound(q, {})
  BY <1>2, <1>5, <1>6, <1>7, <1>8, <1>9 DEF Sound
<1>11. QED
  BY <1>5, <1>6, <1>10 DEF q, b, m

\* A permit is released: the slot and the bytes are free again.
LEMMA FreeSound ==
    ASSUME NEW s, Sound(s, {}), NEW h \in s.granted
    PROVE  LET q == FreeSlot(s, h) IN
           /\ Sound(q, {})
           /\ Queue(q) = Queue(s)
           /\ q.granted = s.granted \ {h} /\ q.dropped = s.dropped /\ q.limit = s.limit
           /\ q.bytes = [s.bytes EXCEPT ![h] = 0]
<1> DEFINE p == WithBytes(s, h, 0)
           q == FreeSlot(s, h)
<1>1. /\ s \in SchedType /\ h \in Hooks /\ h \notin s.dropped
      /\ s.granted \in SUBSET Hooks /\ s.active = Counts(s.granted)
      /\ s.retained \in Nat /\ s.bytes[h] \in Nat
  BY SchedFields DEF Sound, Apart
<1>2. /\ Sound(p, {})
      /\ Queue(p) = Queue(s)
      /\ p.granted = s.granted /\ p.dropped = s.dropped
      /\ p.active = s.active /\ p.limit = s.limit
      /\ p.bytes = [s.bytes EXCEPT ![h] = 0]
  BY <1>1, BytesSound
<1>3. Charge(s.active, h, -1) = Counts(s.granted \ {h})
      /\ Counts(s.granted \ {h}) \in [AllOwners -> Nat]
  <2>1. s.granted \ {h} \in SUBSET Hooks
    BY <1>1
  <2>2. QED
    BY <1>1, <2>1, ChargeFacts
<1>4. q = [p EXCEPT !.active = Counts(s.granted \ {h}), !.granted = s.granted \ {h}]
  <2>1. s.retained - s.bytes[h] = s.retained + 0 - s.bytes[h]
    BY <1>1
  <2>2. QED
    BY <1>1, <1>3, <2>1 DEF FreeSlot, WithBytes, SchedType
<1> HIDE DEF p, q
<1>5. p \in SchedType
  BY <1>2 DEF Sound
<1>6. /\ q \in SchedType /\ q.line = p.line /\ q.rota = p.rota
      /\ q.queued = p.queued /\ q.active = Counts(s.granted \ {h})
      /\ q.retained = p.retained /\ q.bytes = p.bytes
      /\ q.limit = p.limit /\ q.granted = s.granted \ {h} /\ q.dropped = p.dropped
  BY <1>1, <1>3, <1>4, <1>5 DEF SchedType
<1>7. Queue(q) = Queue(p)
  BY <1>6 DEF Queue
<1>8. Rotation(q)
  <2>1. \A lane \in ToSet(Lanes), k \in Keys : Items(q, lane, k) = Items(p, lane, k)
    BY <1>6 DEF Items
  <2>2. QED
    BY <1>2, <1>6, <2>1 DEF Sound, Rotation
<1>9. Apart(q, {})
  BY <1>2, <1>6, <1>7 DEF Sound, Apart
<1>10. Sound(q, {})
  BY <1>2, <1>6, <1>7, <1>8, <1>9 DEF Sound
<1>11. QED
  BY <1>2, <1>6, <1>7, <1>10 DEF q


----------------------------------------------------------------------------
(* What expiry and search may do to the queue.                             *)

\* s is s0 after some queued requests were rejected, or taken out by a search:
\* who holds a slot, the limit and the bytes of the others are as they were.
Trimmed(s0, s, out) ==
    /\ Queue(s) \subseteq Queue(s0)
    /\ s.granted = s0.granted /\ s.limit = s0.limit
    /\ s0.dropped \subseteq s.dropped
    /\ Queue(s) \cup out \cup s.dropped = Queue(s0) \cup s0.dropped
    /\ \A h \in Hooks : h \notin s.dropped => s.bytes[h] = s0.bytes[h]

\* The state of a search: the scheduler and the request picked so far.
Searches == [s : SchedType, pick : Hooks \cup {None}]

Out(f) == {f.pick} \ {None}

Found(s0, f) ==
    /\ f \in Searches
    /\ Sound(f.s, Out(f))
    /\ Trimmed(s0, f.s, Out(f))
    /\ f.pick # None => CanFinish(f.pick) /\ Eligible(f.s, f.pick)

\* A search that has neither picked nor rejected anything, and a group whose
\* requests may not have a slot.
Quiet(f) == f.pick = None /\ f.s.dropped = {}

Barren(s, key) == \A g \in Hooks : Key(g) = key => ~Eligible(s, g)

\* No queued request, of one lane or of all, may have a slot.
LaneBarren(s, lane) == \A g \in Queue(s) : LaneOf[g] = lane => ~Eligible(s, g)
AllBarren(s) == \A g \in Queue(s) : ~Eligible(s, g)

\* If the search x, n groups into the lane of f, is still quiet, f was, the
\* groups it has passed are barren and the others are ahead of it in order.
Passed(s0, f, lane, n, x) ==
    Quiet(x) =>
        LET R == f.s.rota[lane]
            X == x.s.rota[lane]
        IN  /\ Quiet(f) /\ x.s.cursor = f.s.cursor /\ Len(X) = Len(R)
            /\ \A k \in 1 .. Len(R) - n : X[k] = R[k + n]
            /\ \A k \in 1 .. n : Barren(s0, R[k])

\* In a sound scheduler the rotation tells whether another client is queued.
LEMMA Competition ==
    ASSUME NEW s, NEW out, Sound(s, out), NEW c
    PROVE  HasCompetingClient(s, c) <=> \E g \in Queue(s) : ClientOf[g] # c
<1>1. s \in SchedType /\ Queue(s) \in SUBSET Hooks
  BY SchedFields DEF Sound
<1>2. \A lane \in ToSet(Lanes) :
         ToSet(s.rota[lane]) = {key \in Keys : Items(s, lane, key) # {}}
  BY DEF Sound, Rotation
<1>3. ASSUME NEW lane \in ToSet(Lanes), NEW key \in ToSet(s.rota[lane]), key[1] # c
      PROVE  \E g \in Queue(s) : ClientOf[g] # c
  <2>1. PICK g \in Items(s, lane, key) : TRUE
    BY <1>2
  <2>2. g \in Queue(s) /\ key = <<ClientOf[g], HarnessOf[g]>>
    BY DEF Items, Queue, Key
  <2>3. QED
    BY <1>3, <2>2
<1>4. ASSUME NEW g \in Queue(s), ClientOf[g] # c PROVE HasCompetingClient(s, c)
  <2>1. LaneOf[g] \in ToSet(Lanes) /\ Key(g) \in Keys
    BY <1>1, LaneAndKey
  <2>2. g \in Items(s, LaneOf[g], Key(g))
    BY DEF Items, Queue
  <2>3. Key(g) \in ToSet(s.rota[LaneOf[g]])
    BY <1>2, <2>1, <2>2
  <2>4. Key(g)[1] # c
    BY <1>4 DEF Key
  <2>5. QED
    BY <2>1, <2>3, <2>4 DEF HasCompetingClient
<1>5. QED
  BY <1>3, <1>4 DEF HasCompetingClient

\* A request that may have a slot may still have it when others left the queue.
LEMMA EligibleStays ==
    ASSUME NEW s, NEW out, Sound(s, out), NEW q, NEW o, Sound(q, o),
           Queue(q) \subseteq Queue(s), q.active = s.active, q.limit = s.limit,
           NEW h, Eligible(s, h)
    PROVE  Eligible(q, h)
<1>1. HasCompetingClient(q, ClientOf[h]) => HasCompetingClient(s, ClientOf[h])
  <2>1. HasCompetingClient(q, ClientOf[h]) => \E g \in Queue(q) : ClientOf[g] # ClientOf[h]
    BY Competition
  <2>2. (\E g \in Queue(s) : ClientOf[g] # ClientOf[h]) => HasCompetingClient(s, ClientOf[h])
    BY Competition
  <2>3. QED
    BY <2>1, <2>2
<1>2. QED
  BY <1>1 DEF Eligible

\* The requests of one group may have a slot together or not at all.
LEMMA EligibleByGroup ==
    ASSUME NEW s, NEW g, NEW h, Key(g) = Key(h), ~Eligible(s, h)
    PROVE  ~Eligible(s, g)
<1>1. ClientOf[g] = ClientOf[h] /\ HarnessOf[g] = HarnessOf[h]
  BY DEF Key
<1>2. QED
  BY <1>1 DEF Eligible

\* A quiet search has changed neither the queue nor who may have a slot.
LEMMA QuietSame ==
    ASSUME NEW s0, Sound(s0, {}), NEW f, Found(s0, f), Quiet(f)
    PROVE  /\ Queue(f.s) = Queue(s0)
           /\ \A h : Eligible(f.s, h) <=> Eligible(s0, h)
<1>1. Out(f) = {} /\ Sound(f.s, {}) /\ Trimmed(s0, f.s, {})
  BY DEF Quiet, Found, Out
<1>2. Queue(f.s) = Queue(s0)
  BY <1>1 DEF Trimmed, Quiet
<1>3. f.s.active = s0.active /\ f.s.limit = s0.limit
  BY <1>1 DEF Sound, Trimmed
<1>4. Queue(f.s) \subseteq Queue(s0) /\ Queue(s0) \subseteq Queue(f.s)
  BY <1>2
<1>5. ASSUME NEW h, Eligible(s0, h) PROVE Eligible(f.s, h)
  BY <1>1, <1>3, <1>4, <1>5, EligibleStays
<1>6. ASSUME NEW h, Eligible(f.s, h) PROVE Eligible(s0, h)
  BY <1>1, <1>3, <1>4, <1>6, EligibleStays
<1>7. QED
  BY <1>2, <1>5, <1>6

\* Considering one queued candidate.
LEMMA ConsiderFound ==
    ASSUME NEW s0, NEW f, Found(s0, f), NEW h, f.pick = None => h \in Queue(f.s)
    PROVE  LET r == Consider(f, h) IN
           /\ Found(s0, r)
           /\ r.pick = None => /\ f.pick = None
                               /\ Queue(f.s) \ {h} \subseteq Queue(r.s)
                               /\ \A lane \in ToSet(Lanes) :
                                     Len(r.s.rota[lane]) >= Len(f.s.rota[lane]) - 1
           /\ Quiet(r) => r = f /\ ~Eligible(f.s, h)
<1> DEFINE r == Consider(f, h)
           s == f.s
<1>1. /\ f \in Searches /\ s \in SchedType /\ None \notin Hooks /\ Queue(s) \in SUBSET Hooks
      /\ s.bytes \in [Hooks -> Nat]
      /\ \A lane \in ToSet(Lanes) : Len(s.rota[lane]) \in Nat
  BY HookConstants, SchedFields DEF Found, Sound
<1>2. CASE f.pick # None \/ ~Eligible(s, h)
  <2>1. r = f
    BY <1>2 DEF Consider
  <2>2. Quiet(r) => ~Eligible(s, h)
    BY <1>2, <2>1 DEF Quiet
  <2>3. QED
    BY <1>1, <2>1, <2>2
<1>3. CASE f.pick = None /\ Eligible(s, h) /\ CanFinish(h)
  <2> DEFINE q == RemoveFromLane(s, h)
  <2>1. r = [s |-> q, pick |-> h]
    BY <1>3 DEF Consider
  <2>2. Out(f) = {} /\ h \in Queue(s) /\ h \in Hooks /\ Sound(s, {}) /\ Trimmed(s0, s, {})
    BY <1>1, <1>3 DEF Found, Out
  <2>3. Sound(q, {h})
    <3>1. Sound(q, {} \cup {h})
      BY <2>2, RemoveSound
    <3>2. QED
      BY <3>1
  <2>4. /\ q \in SchedType
        /\ Queue(q) = Queue(s) \ {h}
        /\ q.active = s.active /\ q.bytes = s.bytes /\ q.limit = s.limit
        /\ q.granted = s.granted /\ q.dropped = s.dropped
    BY <2>2, RemoveFields DEF Sound
  <2> HIDE DEF q
  <2>5. Eligible(q, h)
    <3>1. Queue(q) \subseteq Queue(s)
      BY <2>4
    <3>2. QED
      BY <1>3, <2>2, <2>3, <2>4, <3>1, EligibleStays
  <2>6. Trimmed(s0, q, {h})
    BY <2>2, <2>4 DEF Trimmed
  <2>7. r \in Searches /\ r.s = q /\ r.pick = h /\ Out(r) = {h} /\ h # None
    BY <1>1, <2>1, <2>2, <2>4 DEF Searches, Out
  <2>8. ~Quiet(r)
    BY <2>7 DEF Quiet
  <2>9. QED
    BY <1>3, <2>3, <2>5, <2>6, <2>7, <2>8 DEF Found
<1>4. CASE f.pick = None /\ Eligible(s, h) /\ ~CanFinish(h)
  <2> DEFINE q == RejectQueued(s, h)
  <2>1. r = [f EXCEPT !.s = q]
    BY <1>4 DEF Consider
  <2>2. Out(f) = {} /\ h \in Queue(s) /\ h \in Hooks /\ Sound(s, {}) /\ Trimmed(s0, s, {})
    BY <1>1, <1>4 DEF Found, Out
  <2>3. /\ Sound(q, {})
        /\ Queue(q) = Queue(s) \ {h}
        /\ q.bytes = [s.bytes EXCEPT ![h] = 0]
        /\ q.granted = s.granted /\ q.dropped = s.dropped \cup {h} /\ q.limit = s.limit
        /\ \A lane \in ToSet(Lanes) : Len(q.rota[lane]) >= Len(s.rota[lane]) - 1
    BY <2>2, RejectSound
  <2> HIDE DEF q
  <2>4. q \in SchedType
    BY <2>3 DEF Sound
  <2>5. Trimmed(s0, q, {})
    BY <1>1, <2>2, <2>3 DEF Trimmed
  <2>6. r \in Searches /\ r.s = q /\ r.pick = None /\ Out(r) = {}
    BY <1>1, <1>4, <2>1, <2>4 DEF Searches, Out
  <2>7. ~Quiet(r)
    BY <2>3, <2>6 DEF Quiet
  <2>8. QED
    BY <1>4, <2>3, <2>5, <2>6, <2>7 DEF Found
<1>5. QED
  BY <1>2, <1>3, <1>4

\* A property of a loop's states that every round passes on.
LEMMA LoopFollows ==
    ASSUME NEW N \in Nat, NEW S, NEW e, e[0] \in S[0],
           \A n \in 1 .. N : e[n - 1] \in S[n - 1] => e[n] \in S[n]
    PROVE  \A n \in 0 .. N : e[n] \in S[n]
<1> DEFINE A == {n \in 0 .. N : e[n] \in S[n]}
<1>1. 0 \in A
  OBVIOUS
<1>2. \A n \in 1 .. N : n - 1 \in A => n \in A
  OBVIOUS
<1> HIDE DEF A
<1>3. \A n \in 0 .. N : n \in A
  BY <1>1, <1>2, CountUp
<1>4. QED
  BY <1>3 DEF A

\* _expire_waiters rejects the requests that are cancelled or out of time and
\* nothing else.
LEMMA ExpireSound ==
    ASSUME NEW s, Sound(s, {})
    PROVE  LET d == ExpireWaiters(s) IN Sound(d, {}) /\ Trimmed(s, d, {})
<1> DEFINE N == Len(s.line)
           Due(n) == left[s.line[n]] = 0 \/ s.line[n] \in cancelled
           Step(n, x) == IF Due(n) THEN RejectQueued(x, s.line[n]) ELSE x
           Ok(n, x) == /\ Sound(x, {}) /\ Trimmed(s, x, {})
                       /\ \A m \in n + 1 .. N : s.line[m] \in Queue(x)
           In(n) == {x \in SchedType : Ok(n, x)}
           S == [n \in 0 .. N |-> In(n)]
           G(n) == [x \in SchedType |-> IF x \in In(n - 1) THEN Step(n, x) ELSE x]
           g == [n \in 1 .. N |-> G(n)]
           F(f) == [n \in 0 .. N |-> IF n = 0 THEN s ELSE Step(n, f[n - 1])]
<1>1. /\ s \in SchedType /\ s.line \in Seq(Hooks) /\ N \in Nat /\ IsInjective(s.line)
      /\ \A m \in 1 .. N : s.line[m] \in Queue(s) /\ s.line[m] \in Hooks
      /\ \A m, n \in 1 .. N : s.line[m] = s.line[n] => m = n
  <2>1. s \in SchedType /\ s.line \in Seq(Hooks) /\ IsInjective(s.line)
    BY SchedFields DEF Sound
  <2>2. QED
    BY <2>1 DEF Queue, ToSet, IsInjective
<1>2. s \in In(0)
  <2>1. Trimmed(s, s, {})
    BY DEF Trimmed
  <2>2. QED
    BY <1>1, <2>1
<1>3. ASSUME NEW n \in 1 .. N, NEW x \in In(n - 1) PROVE Step(n, x) \in In(n)
  <2> DEFINE h == s.line[n]
  <2>1. /\ x \in SchedType /\ Sound(x, {}) /\ Trimmed(s, x, {})
        /\ \A m \in (n - 1) + 1 .. N : s.line[m] \in Queue(x)
    OBVIOUS
  <2>2. \A m \in n .. N : s.line[m] \in Queue(x)
    BY <1>1, <2>1
  <2>3. CASE ~Due(n)
    <3>1. Step(n, x) = x
      BY <2>3
    <3>2. \A m \in n + 1 .. N : s.line[m] \in Queue(x)
      BY <1>1, <2>2
    <3>3. QED
      BY <2>1, <3>1, <3>2
  <2>4. CASE Due(n)
    <3> DEFINE q == RejectQueued(x, h)
    <3>1. Step(n, x) = q
      BY <2>4
    <3>2. h \in Queue(x)
      BY <1>1, <2>2
    <3>3. /\ Sound(q, {})
          /\ Queue(q) = Queue(x) \ {h}
          /\ q.bytes = [x.bytes EXCEPT ![h] = 0]
          /\ q.granted = x.granted /\ q.dropped = x.dropped \cup {h} /\ q.limit = x.limit
      BY <2>1, <3>2, RejectSound
    <3> HIDE DEF q
    <3>4. q \in SchedType
      BY <3>3 DEF Sound
    <3>5. Trimmed(s, q, {})
      <4>1. x.bytes \in [Hooks -> Nat]
        BY <2>1, SchedFields
      <4>2. QED
        BY <2>1, <3>2, <3>3, <4>1 DEF Trimmed
    <3>6. \A m \in n + 1 .. N : s.line[m] \in Queue(q)
      BY <1>1, <2>2, <3>3
    <3>7. QED
      BY <3>1, <3>3, <3>4, <3>5, <3>6
  <2>5. QED
    BY <2>3, <2>4
<1> HIDE DEF N, In, Step
<1>4. \E f : f = F(f)
  <2>1. S \in [0 .. N -> SUBSET SchedType] /\ s \in S[0]
    <3>1. \A n \in 0 .. N : In(n) \in SUBSET SchedType
      BY DEF In
    <3>2. QED
      BY <1>1, <1>2, <3>1
  <2>2. ASSUME NEW n \in 1 .. N PROVE G(n) \in [SchedType -> SchedType]
    <3>1. \A x \in In(n - 1) : Step(n, x) \in SchedType
      BY <1>3 DEF In
    <3>2. QED
      BY <3>1
  <2>3. g \in [1 .. N -> [SchedType -> SchedType]]
    BY <2>2
  <2>4. \A n \in 1 .. N : \A x \in S[n - 1] : g[n][x] = Step(n, x) /\ g[n][x] \in S[n]
    <3>1. \A n \in 1 .. N : n - 1 \in 0 .. N /\ n \in 0 .. N /\ In(n - 1) \in SUBSET SchedType
      BY <1>1 DEF In
    <3>2. QED
      BY <1>3, <3>1
  <2> HIDE DEF S, g
  <2>5. Loop(N, SchedType, S, s, g)
    BY <1>1, <2>1, <2>3, <2>4 DEF Loop
  <2>6. PICK f : RunOf(f, N, SchedType, S, s, g)
    BY <2>5, LoopRuns
  <2>7. /\ f \in [0 .. N -> SchedType] /\ f[0] = s
        /\ \A n \in 1 .. N : f[n] = g[n][f[n - 1]]
        /\ \A n \in 0 .. N : f[n] \in S[n]
    BY <2>6 DEF RunOf
  <2>8. \A n \in 1 .. N : f[n] = Step(n, f[n - 1])
    <3>1. \A n \in 1 .. N : n - 1 \in 0 .. N
      BY <1>1
    <3>2. QED
      BY <2>4, <2>7, <3>1
  <2>9. \A n \in 0 .. N : f[n] = IF n = 0 THEN s ELSE Step(n, f[n - 1])
    <3>1. \A n \in 0 .. N : n # 0 => n \in 1 .. N
      BY <1>1
    <3>2. QED
      BY <2>7, <2>8, <3>1
  <2>10. QED
    BY <2>7, <2>9
<1> DEFINE e == CHOOSE f : f = F(f)
<1>5. ExpireWaiters(s) = e[N]
  BY DEF ExpireWaiters, N, Step
<1>6. e = F(e)
  <2> HIDE DEF F
  <2>1. QED
    BY <1>4
<1> HIDE DEF e
<1>7. e[0] = s /\ \A n \in 1 .. N : e[n] = Step(n, e[n - 1])
  <2>1. \A n \in 0 .. N : e[n] = IF n = 0 THEN s ELSE Step(n, e[n - 1])
    BY <1>6
  <2>2. 0 \in 0 .. N /\ \A n \in 1 .. N : n \in 0 .. N /\ n # 0
    BY <1>1
  <2>3. QED
    BY <2>1, <2>2
<1>8. \A n \in 0 .. N : e[n] \in S[n]
  <2>1. e[0] \in S[0]
    BY <1>1, <1>2, <1>7
  <2>2. \A n \in 1 .. N : e[n - 1] \in S[n - 1] => e[n] \in S[n]
    <3>1. \A n \in 1 .. N : n - 1 \in 0 .. N /\ n \in 0 .. N
      BY <1>1
    <3>2. QED
      BY <1>3, <1>7, <3>1
  <2> HIDE DEF S
  <2>3. QED
    BY <1>1, <2>1, <2>2, LoopFollows
<1>9. e[N] \in In(N)
  BY <1>1, <1>8
<1>10. QED
  BY <1>5, <1>9 DEF In


\* _oldest_aged_eligible rejects aged heads that cannot finish and takes out
\* one that can and may have a slot.
LEMMA AgedFound ==
    ASSUME NEW s, Sound(s, {})
    PROVE  Found(s, OldestAgedEligible(s))
<1> DEFINE N == Len(s.line)
           b == [s |-> s, pick |-> None]
           Step(n, x) == IF IsAgedHead(s, s.line[n]) THEN Consider(x, s.line[n]) ELSE x
           Ok(n, x) == /\ Found(s, x)
                       /\ x.pick = None => \A m \in n + 1 .. N : s.line[m] \in Queue(x.s)
           In(n) == {x \in Searches : Ok(n, x)}
           S == [n \in 0 .. N |-> In(n)]
           G(n) == [x \in Searches |-> IF x \in In(n - 1) THEN Step(n, x) ELSE x]
           g == [n \in 1 .. N |-> G(n)]
           F(f) == [n \in 0 .. N |-> IF n = 0 THEN b ELSE Step(n, f[n - 1])]
<1>1. /\ s \in SchedType /\ s.line \in Seq(Hooks) /\ N \in Nat
      /\ \A m \in 1 .. N : s.line[m] \in Queue(s)
      /\ \A m, n \in 1 .. N : s.line[m] = s.line[n] => m = n
  <2>1. s \in SchedType /\ s.line \in Seq(Hooks) /\ IsInjective(s.line)
    BY SchedFields DEF Sound
  <2>2. QED
    BY <2>1 DEF Queue, ToSet, IsInjective
<1>2. b \in In(0)
  <2>1. Trimmed(s, s, {})
    BY DEF Trimmed
  <2>2. b \in Searches /\ b.s = s /\ b.pick = None /\ Out(b) = {}
    BY <1>1 DEF Searches, Out
  <2> HIDE DEF b
  <2>3. Found(s, b)
    BY <2>1, <2>2 DEF Found
  <2>4. \A m \in 0 + 1 .. N : s.line[m] \in Queue(b.s)
    BY <1>1, <2>2
  <2>5. QED
    BY <2>2, <2>3, <2>4
<1>3. ASSUME NEW n \in 1 .. N, NEW x \in In(n - 1) PROVE Step(n, x) \in In(n)
  <2> DEFINE h == s.line[n]
  <2>1. /\ x \in Searches /\ Found(s, x)
        /\ x.pick = None => \A m \in (n - 1) + 1 .. N : s.line[m] \in Queue(x.s)
    OBVIOUS
  <2>2. x.pick = None => \A m \in n .. N : s.line[m] \in Queue(x.s)
    BY <1>1, <2>1
  <2>3. CASE ~IsAgedHead(s, h)
    <3>1. Step(n, x) = x
      BY <2>3
    <3>2. x.pick = None => \A m \in n + 1 .. N : s.line[m] \in Queue(x.s)
      BY <1>1, <2>2
    <3>3. QED
      BY <2>1, <3>1, <3>2
  <2>4. CASE IsAgedHead(s, h)
    <3> DEFINE r == Consider(x, h)
    <3>1. Step(n, x) = r
      BY <2>4
    <3>2. x.pick = None => h \in Queue(x.s)
      BY <1>1, <2>2
    <3>3. /\ Found(s, r)
          /\ r.pick = None => x.pick = None /\ Queue(x.s) \ {h} \subseteq Queue(r.s)
      BY <2>1, <3>2, ConsiderFound
    <3> HIDE DEF r
    <3>4. r \in Searches
      BY <3>3 DEF Found
    <3>5. r.pick = None => \A m \in n + 1 .. N : s.line[m] \in Queue(r.s)
      BY <1>1, <2>2, <3>3
    <3>6. QED
      BY <3>1, <3>3, <3>4, <3>5
  <2>5. QED
    BY <2>3, <2>4
<1> HIDE DEF b
<1> HIDE DEF N, In, Step
<1>4. \E f : f = F(f)
  <2>1. S \in [0 .. N -> SUBSET Searches] /\ b \in S[0]
    <3>1. \A n \in 0 .. N : In(n) \in SUBSET Searches
      BY DEF In
    <3>2. QED
      BY <1>1, <1>2, <3>1
  <2>2. ASSUME NEW n \in 1 .. N PROVE G(n) \in [Searches -> Searches]
    <3>1. \A x \in In(n - 1) : Step(n, x) \in Searches
      BY <1>3 DEF In
    <3>2. QED
      BY <3>1
  <2>3. g \in [1 .. N -> [Searches -> Searches]]
    BY <2>2
  <2>4. \A n \in 1 .. N : \A x \in S[n - 1] : g[n][x] = Step(n, x) /\ g[n][x] \in S[n]
    <3>1. \A n \in 1 .. N : n - 1 \in 0 .. N /\ n \in 0 .. N /\ In(n - 1) \in SUBSET Searches
      BY <1>1 DEF In
    <3>2. QED
      BY <1>3, <3>1
  <2> HIDE DEF S, g
  <2>5. Loop(N, Searches, S, b, g)
    BY <1>1, <2>1, <2>3, <2>4 DEF Loop
  <2>6. PICK f : RunOf(f, N, Searches, S, b, g)
    BY <2>5, LoopRuns
  <2>7. /\ f \in [0 .. N -> Searches] /\ f[0] = b
        /\ \A n \in 1 .. N : f[n] = g[n][f[n - 1]]
        /\ \A n \in 0 .. N : f[n] \in S[n]
    BY <2>6 DEF RunOf
  <2>8. \A n \in 1 .. N : f[n] = Step(n, f[n - 1])
    <3>1. \A n \in 1 .. N : n - 1 \in 0 .. N
      BY <1>1
    <3>2. QED
      BY <2>4, <2>7, <3>1
  <2>9. \A n \in 0 .. N : f[n] = IF n = 0 THEN b ELSE Step(n, f[n - 1])
    <3>1. \A n \in 0 .. N : n # 0 => n \in 1 .. N
      BY <1>1
    <3>2. QED
      BY <2>7, <2>8, <3>1
  <2>10. QED
    BY <2>7, <2>9
<1> DEFINE e == CHOOSE f : f = F(f)
<1>5. OldestAgedEligible(s) = e[N]
  BY DEF OldestAgedEligible, N, Step, b
<1>6. e = F(e)
  <2> HIDE DEF F
  <2>1. QED
    BY <1>4
<1> HIDE DEF e
<1>7. e[0] = b /\ \A n \in 1 .. N : e[n] = Step(n, e[n - 1])
  <2>1. \A n \in 0 .. N : e[n] = IF n = 0 THEN b ELSE Step(n, e[n - 1])
    BY <1>6
  <2>2. 0 \in 0 .. N /\ \A n \in 1 .. N : n \in 0 .. N /\ n # 0
    BY <1>1
  <2>3. QED
    BY <2>1, <2>2
<1>8. \A n \in 0 .. N : e[n] \in S[n]
  <2>1. e[0] \in S[0]
    BY <1>1, <1>2, <1>7
  <2>2. \A n \in 1 .. N : e[n - 1] \in S[n - 1] => e[n] \in S[n]
    <3>1. \A n \in 1 .. N : n - 1 \in 0 .. N /\ n \in 0 .. N
      BY <1>1
    <3>2. QED
      BY <1>3, <1>7, <3>1
  <2> HIDE DEF S
  <2>3. QED
    BY <1>1, <2>1, <2>2, LoopFollows
<1>9. e[N] \in In(N)
  BY <1>1, <1>8
<1>10. QED
  BY <1>5, <1>9 DEF In

\* The head of a group with queued requests is one of them.
LEMMA OldestQueued ==
    ASSUME NEW s \in SchedType, NEW lane, NEW key, Items(s, lane, key) # {}
    PROVE  /\ Oldest(s, lane, key) \in Queue(s)
           /\ Key(Oldest(s, lane, key)) = key
<1> DEFINE I == {i \in DOMAIN s.line : s.line[i] \in Items(s, lane, key)}
<1>1. s.line \in Seq(Hooks)
  BY SchedFields
<1>2. I \in SUBSET Nat
  BY <1>1
<1>3. I # {}
  BY <1>1 DEF Items, ToSet
<1>4. Min(I) \in I
  <2> HIDE DEF I
  <2>1. QED
    BY <1>2, <1>3, LeastOf
<1>5. QED
  BY <1>4 DEF Oldest, Items, Queue

\* A search may also reorder the rotation and change the lanes' credits.
LEMMA RecastFound ==
    ASSUME NEW s0, NEW f, Found(s0, f), NEW r \in Searches, r.pick = f.pick,
           r.s.line = f.s.line, r.s.queued = f.s.queued, r.s.active = f.s.active,
           r.s.retained = f.s.retained, r.s.bytes = f.s.bytes,
           r.s.granted = f.s.granted, r.s.dropped = f.s.dropped, r.s.limit = f.s.limit,
           \A lane \in ToSet(Lanes) : /\ IsInjective(r.s.rota[lane])
                                      /\ ToSet(r.s.rota[lane]) = ToSet(f.s.rota[lane])
    PROVE  Found(s0, r) /\ Queue(r.s) = Queue(f.s)
<1>1. Out(r) = Out(f) /\ r.s \in SchedType
  BY DEF Out, Searches
<1>2. Sound(f.s, Out(f)) /\ Trimmed(s0, f.s, Out(f))
  BY DEF Found
<1>3. /\ r.s.dropped \cap (Queue(f.s) \cup Out(f) \cup f.s.granted) = {}
      /\ \A h \in r.s.dropped : r.s.bytes[h] = 0
  BY <1>2 DEF Sound, Apart
<1>4. Sound(r.s, Out(f)) /\ Queue(r.s) = Queue(f.s)
  BY <1>1, <1>2, <1>3, RecastSound
<1>5. Trimmed(s0, r.s, Out(f))
  BY <1>2, <1>4 DEF Trimmed
<1>6. r.pick # None => Eligible(r.s, r.pick)
  <2>1. Queue(r.s) \subseteq Queue(f.s)
    BY <1>4
  <2>2. f.pick # None => Eligible(f.s, f.pick)
    BY DEF Found
  <2>3. QED
    BY <1>2, <1>4, <2>1, <2>2, EligibleStays
<1>7. QED
  BY <1>1, <1>4, <1>5, <1>6 DEF Found

\* One step of a lane's rotation: the group at the front goes to the back and
\* its head is considered.
LEMMA GroupFound ==
    ASSUME NEW s0, NEW f, Found(s0, f), NEW lane \in ToSet(Lanes),
           f.pick = None => f.s.rota[lane] # << >>
    PROVE  LET r == VisitGroup(lane, f) IN
           /\ Found(s0, r)
           /\ r.pick = None => /\ f.pick = None
                               /\ Len(r.s.rota[lane]) >= Len(f.s.rota[lane]) - 1
           /\ Quiet(r) => /\ Quiet(f) /\ r.s.cursor = f.s.cursor
                          /\ r.s.rota[lane] = Append(Tail(f.s.rota[lane]), Head(f.s.rota[lane]))
                          /\ Barren(f.s, Head(f.s.rota[lane]))
<1> DEFINE r == VisitGroup(lane, f)
           rota == f.s.rota[lane]
           rot == Append(Tail(rota), Head(rota))
           q == [f.s EXCEPT !.rota[lane] = rot]
           p == [f EXCEPT !.s = q]
           h == Oldest(f.s, lane, Head(rota))
<1>1. /\ f \in Searches /\ f.s \in SchedType /\ Sound(f.s, Out(f))
      /\ f.s.rota \in [ToSet(Lanes) -> Seq(Keys)] /\ rota \in Seq(Keys) /\ Len(rota) \in Nat
      /\ IsInjective(rota)
      /\ ToSet(rota) = {key \in Keys : Items(f.s, lane, key) # {}}
  <2>1. f \in Searches /\ f.s \in SchedType /\ Sound(f.s, Out(f))
    BY DEF Found, Sound
  <2>2. f.s.rota \in [ToSet(Lanes) -> Seq(Keys)]
    BY <2>1, SchedFields
  <2>3. rota \in Seq(Keys) /\ Len(rota) \in Nat
    BY <2>2
  <2>4. IsInjective(rota) /\ ToSet(rota) = {key \in Keys : Items(f.s, lane, key) # {}}
    BY <2>1 DEF Sound, Rotation
  <2>5. QED
    BY <2>1, <2>2, <2>3, <2>4
<1>2. CASE f.pick # None
  <2>1. r = f
    BY <1>2 DEF VisitGroup
  <2>2. ~Quiet(r)
    BY <1>2, <2>1 DEF Quiet
  <2>3. QED
    BY <1>2, <2>1, <2>2
<1>3. CASE f.pick = None
  <2>1. /\ Head(rota) \in ToSet(rota) /\ rot \in Seq(Keys) /\ IsInjective(rot)
        /\ ToSet(rot) = ToSet(rota) /\ Len(rot) = Len(rota)
    <3> HIDE DEF rota
    <3>1. rota # << >>
      BY <1>3 DEF rota
    <3>2. QED
      BY <1>1, <3>1, RotateFacts
  <2>2. r = Consider(p, h)
    BY <1>1, <1>3 DEF VisitGroup, Searches, SchedType
  <2>3. h \in Queue(f.s) /\ Key(h) = Head(rota)
    <3>1. Items(f.s, lane, Head(rota)) # {}
      BY <1>1, <2>1
    <3>2. QED
      BY <1>1, <3>1, OldestQueued
  <2> HIDE DEF rot, h, rota
  <2>4. /\ q \in SchedType /\ q.rota = [f.s.rota EXCEPT ![lane] = rot]
        /\ q.line = f.s.line /\ q.queued = f.s.queued /\ q.active = f.s.active
        /\ q.retained = f.s.retained /\ q.bytes = f.s.bytes
        /\ q.granted = f.s.granted /\ q.dropped = f.s.dropped /\ q.limit = f.s.limit
        /\ q.cursor = f.s.cursor
    BY <1>1, <2>1 DEF SchedType
  <2> HIDE DEF q
  <2>5. p \in Searches /\ p.s = q /\ p.pick = f.pick
    BY <1>1, <2>4 DEF Searches
  <2> HIDE DEF p
  <2>6. \A l \in ToSet(Lanes) : q.rota[l] = IF l = lane THEN rot ELSE f.s.rota[l]
    BY <1>1, <2>4
  <2>7. \A l \in ToSet(Lanes) : IsInjective(q.rota[l]) /\ ToSet(q.rota[l]) = ToSet(f.s.rota[l])
    BY <1>1, <2>1, <2>6 DEF Sound, Rotation, rota
  <2>8. Found(s0, p) /\ Queue(p.s) = Queue(f.s)
    BY <2>4, <2>5, <2>7, RecastFound
  <2>9. /\ Found(s0, r)
        /\ r.pick = None => \A l \in ToSet(Lanes) : Len(r.s.rota[l]) >= Len(p.s.rota[l]) - 1
        /\ Quiet(r) => r = p /\ ~Eligible(p.s, h)
    BY <2>2, <2>3, <2>8, ConsiderFound
  <2>10. p.s.rota[lane] = rot
    BY <2>5, <2>6
  <2>11. ASSUME Quiet(r)
         PROVE  /\ Quiet(f) /\ r.s.cursor = f.s.cursor /\ r.s.rota[lane] = rot
                /\ Barren(f.s, Head(rota))
    <3>1. r = p /\ ~Eligible(p.s, h)
      BY <2>9, <2>11
    <3>2. Quiet(f) /\ r.s.cursor = f.s.cursor /\ r.s.rota[lane] = rot
      BY <1>3, <2>4, <2>5, <2>10, <2>11, <3>1 DEF Quiet
    <3>3. ~Eligible(f.s, h)
      <4>1. Sound(p.s, Out(p)) /\ Queue(p.s) \subseteq Queue(f.s)
        BY <2>8 DEF Found
      <4>2. p.s.active = f.s.active /\ p.s.limit = f.s.limit
        BY <2>4, <2>5
      <4>3. QED
        BY <1>1, <3>1, <4>1, <4>2, EligibleStays
    <3>4. Barren(f.s, Head(rota))
      BY <2>3, <3>3, EligibleByGroup DEF Barren
    <3>5. QED
      BY <3>2, <3>4
  <2>12. QED
    BY <1>1, <1>3, <2>1, <2>9, <2>10, <2>11 DEF rota, rot
<1>4. QED
  BY <1>2, <1>3


\* One more group of the lane has been passed.
LEMMA PassGroup ==
    ASSUME NEW s0, Sound(s0, {}), NEW f, Found(s0, f), NEW x, Found(s0, x),
           NEW lane \in ToSet(Lanes), NEW n \in 1 .. Len(f.s.rota[lane]),
           Passed(s0, f, lane, n - 1, x), x.pick = None => x.s.rota[lane] # << >>
    PROVE  Passed(s0, f, lane, n, VisitGroup(lane, x))
<1> DEFINE r == VisitGroup(lane, x)
           R == f.s.rota[lane]
           X == x.s.rota[lane]
           N == Len(R)
<1>1. SUFFICES ASSUME Quiet(r)
               PROVE  /\ Quiet(f) /\ r.s.cursor = f.s.cursor /\ Len(r.s.rota[lane]) = N
                      /\ \A k \in 1 .. N - n : r.s.rota[lane][k] = R[k + n]
                      /\ \A k \in 1 .. n : Barren(s0, R[k])
  BY DEF Passed
<1>2. /\ Quiet(x) /\ r.s.cursor = x.s.cursor
      /\ r.s.rota[lane] = Append(Tail(X), Head(X))
      /\ Barren(x.s, Head(X))
  BY <1>1, GroupFound
<1>3. /\ Quiet(f) /\ x.s.cursor = f.s.cursor /\ Len(X) = N
      /\ \A k \in 1 .. N - (n - 1) : X[k] = R[k + (n - 1)]
      /\ \A k \in 1 .. n - 1 : Barren(s0, R[k])
  BY <1>2 DEF Passed
<1>4. x.s \in SchedType /\ f.s \in SchedType
  BY DEF Found, Sound
<1>5. X \in Seq(Keys) /\ R \in Seq(Keys) /\ N \in Nat
  BY <1>4, SchedFields
<1>6. IsInjective(X) /\ X # << >>
  BY <1>2 DEF Found, Sound, Rotation, Quiet
<1> HIDE DEF r
<1>7. /\ Len(r.s.rota[lane]) = N
      /\ \A k \in 1 .. N - 1 : r.s.rota[lane][k] = X[k + 1]
  <2> HIDE DEF X
  <2>1. QED
    BY <1>2, <1>3, <1>5, <1>6, RotateFacts
<1>8. Head(X) = X[1]
  BY <1>5, <1>6
<1> HIDE DEF X, N, R
<1>9. n \in 1 .. N /\ 1 \in 1 .. N - (n - 1) /\ 1 + (n - 1) = n
  BY <1>5 DEF R, N
<1>10. X[1] = R[n]
  BY <1>3, <1>9
<1>11. Barren(s0, R[n])
  <2>1. \A h : Eligible(x.s, h) <=> Eligible(s0, h)
    BY <1>2, QuietSame
  <2>2. QED
    BY <1>2, <1>8, <1>10, <2>1 DEF Barren
<1>12. ASSUME NEW k \in 1 .. n PROVE Barren(s0, R[k])
  <2>1. CASE k = n
    BY <1>11, <2>1
  <2>2. CASE k # n
    <3>1. k \in 1 .. n - 1
      BY <1>5, <1>9, <2>2
    <3>2. QED
      BY <1>3, <3>1
  <2>3. QED
    BY <2>1, <2>2
<1>13. ASSUME NEW k \in 1 .. N - n PROVE r.s.rota[lane][k] = R[k + n]
  <2>1. k \in 1 .. N - 1 /\ k + 1 \in 1 .. N - (n - 1) /\ (k + 1) + (n - 1) = k + n
    BY <1>5, <1>9
  <2>2. X[k + 1] = R[(k + 1) + (n - 1)]
    BY <1>3, <2>1
  <2>3. QED
    BY <1>7, <2>1, <2>2
<1>14. QED
  BY <1>2, <1>3, <1>7, <1>12, <1>13

\* A lane whose groups have all been passed is barren.
LEMMA PassedAll ==
    ASSUME NEW s0, Sound(s0, {}), NEW f, Found(s0, f), NEW x, Quiet(x),
           NEW lane \in ToSet(Lanes), Passed(s0, f, lane, Len(f.s.rota[lane]), x)
    PROVE  Quiet(f) /\ x.s.cursor = f.s.cursor /\ LaneBarren(s0, lane)
<1> DEFINE R == f.s.rota[lane]
<1>1. Quiet(f) /\ x.s.cursor = f.s.cursor /\ \A k \in 1 .. Len(R) : Barren(s0, R[k])
  BY DEF Passed
<1>2. Queue(f.s) = Queue(s0)
  BY <1>1, QuietSame
<1>3. f.s \in SchedType /\ ToSet(R) = {key \in Keys : Items(f.s, lane, key) # {}}
  BY DEF Found, Sound, Rotation
<1>4. R \in Seq(Keys)
  BY <1>3, SchedFields
<1> HIDE DEF R
<1>5. ASSUME NEW g \in Queue(s0), LaneOf[g] = lane PROVE ~Eligible(s0, g)
  <2>1. g \in Hooks
    BY SchedFields DEF Sound
  <2>2. g \in Items(f.s, lane, Key(g)) /\ Key(g) \in Keys
    BY <1>2, <1>5, <2>1, LaneAndKey DEF Items, Queue
  <2>3. Key(g) \in ToSet(R)
    BY <1>3, <2>2
  <2>4. PICK k \in 1 .. Len(R) : Key(g) = R[k]
    BY <1>4, <2>3 DEF ToSet
  <2>5. QED
    BY <1>1, <2>1, <2>4 DEF Barren
<1>6. QED
  BY <1>1, <1>5 DEF LaneBarren

\* The loop over the groups of one lane.
LEMMA LaneLoop ==
    ASSUME NEW s0, Sound(s0, {}), NEW f, Found(s0, f), NEW lane \in ToSet(Lanes)
    PROVE  LET visit[n \in 0 .. Len(f.s.rota[lane])] ==
                  IF n = 0 THEN f ELSE VisitGroup(lane, visit[n - 1])
               r == visit[Len(f.s.rota[lane])]
           IN  /\ Found(s0, r)
               /\ Quiet(r) => Quiet(f) /\ r.s.cursor = f.s.cursor /\ LaneBarren(s0, lane)
<1> DEFINE N == Len(f.s.rota[lane])
           Step(n, x) == VisitGroup(lane, x)
           Ok(n, x) == /\ Found(s0, x)
                       /\ x.pick = None => Len(x.s.rota[lane]) >= N - n
                       /\ Passed(s0, f, lane, n, x)
           In(n) == {x \in Searches : Ok(n, x)}
           S == [n \in 0 .. N |-> In(n)]
           G(n) == [x \in Searches |-> IF x \in In(n - 1) THEN Step(n, x) ELSE x]
           g == [n \in 1 .. N |-> G(n)]
           F(e) == [n \in 0 .. N |-> IF n = 0 THEN f ELSE Step(n, e[n - 1])]
<1>0. ASSUME NEW x, Found(s0, x)
      PROVE  x \in Searches /\ x.s.rota[lane] \in Seq(Keys) /\ Len(x.s.rota[lane]) \in Nat
  <2>1. x \in Searches /\ x.s \in SchedType
    BY <1>0 DEF Found, Sound
  <2>2. x.s.rota \in [ToSet(Lanes) -> Seq(Keys)]
    BY <2>1, SchedFields
  <2>3. QED
    BY <2>1, <2>2
<1>1. N \in Nat /\ f \in Searches
  BY <1>0
<1>2. f \in In(0)
  <2>1. f.s.rota[lane] \in Seq(Keys)
    BY <1>0
  <2>2. Passed(s0, f, lane, 0, f)
    BY <2>1 DEF Passed
  <2>3. QED
    BY <1>1, <2>2
<1>3. ASSUME NEW n \in 1 .. N, NEW x \in In(n - 1) PROVE Step(n, x) \in In(n)
  <2> DEFINE r == VisitGroup(lane, x)
  <2>1. /\ Found(s0, x) /\ (x.pick = None => Len(x.s.rota[lane]) >= N - (n - 1))
        /\ Passed(s0, f, lane, n - 1, x)
    OBVIOUS
  <2>2. x.s.rota[lane] \in Seq(Keys) /\ Len(x.s.rota[lane]) \in Nat
    BY <1>0, <2>1
  <2> HIDE DEF N
  <2>3. x.pick = None => x.s.rota[lane] # << >>
    BY <1>1, <2>1, <2>2
  <2>4. /\ Found(s0, r)
        /\ r.pick = None => /\ x.pick = None
                            /\ Len(r.s.rota[lane]) >= Len(x.s.rota[lane]) - 1
    BY <2>1, <2>3, GroupFound
  <2>8. Passed(s0, f, lane, n, r)
    BY <2>1, <2>3, PassGroup DEF N
  <2> HIDE DEF r
  <2>5. r \in Searches /\ Len(r.s.rota[lane]) \in Nat
    BY <1>0, <2>4
  <2>6. r.pick = None => Len(r.s.rota[lane]) >= N - n
    BY <1>1, <2>1, <2>2, <2>4, <2>5
  <2>7. QED
    BY <2>4, <2>5, <2>6, <2>8 DEF r
<1> HIDE DEF N, In, Step
<1>4. \E e : e = F(e)
  <2>1. S \in [0 .. N -> SUBSET Searches] /\ f \in S[0]
    <3>1. \A n \in 0 .. N : In(n) \in SUBSET Searches
      BY DEF In
    <3>2. QED
      BY <1>1, <1>2, <3>1
  <2>2. ASSUME NEW n \in 1 .. N PROVE G(n) \in [Searches -> Searches]
    <3>1. \A x \in In(n - 1) : Step(n, x) \in Searches
      BY <1>3 DEF In
    <3>2. QED
      BY <3>1
  <2>3. g \in [1 .. N -> [Searches -> Searches]]
    BY <2>2
  <2>4. \A n \in 1 .. N : \A x \in S[n - 1] : g[n][x] = Step(n, x) /\ g[n][x] \in S[n]
    <3>1. \A n \in 1 .. N : n - 1 \in 0 .. N /\ n \in 0 .. N /\ In(n - 1) \in SUBSET Searches
      BY <1>1 DEF In
    <3>2. QED
      BY <1>3, <3>1
  <2> HIDE DEF S, g
  <2>5. Loop(N, Searches, S, f, g)
    BY <1>1, <2>1, <2>3, <2>4 DEF Loop
  <2>6. PICK d : RunOf(d, N, Searches, S, f, g)
    BY <2>5, LoopRuns
  <2>7. /\ d \in [0 .. N -> Searches] /\ d[0] = f
        /\ \A n \in 1 .. N : d[n] = g[n][d[n - 1]]
        /\ \A n \in 0 .. N : d[n] \in S[n]
    BY <2>6 DEF RunOf
  <2>8. \A n \in 1 .. N : d[n] = Step(n, d[n - 1])
    <3>1. \A n \in 1 .. N : n - 1 \in 0 .. N
      BY <1>1
    <3>2. QED
      BY <2>4, <2>7, <3>1
  <2>9. \A n \in 0 .. N : d[n] = IF n = 0 THEN f ELSE Step(n, d[n - 1])
    <3>1. \A n \in 0 .. N : n # 0 => n \in 1 .. N
      BY <1>1
    <3>2. QED
      BY <2>7, <2>8, <3>1
  <2>10. QED
    BY <2>7, <2>9
<1> DEFINE e == CHOOSE d : d = F(d)
<1>5. e = CHOOSE d : d = [n \in 0 .. Len(f.s.rota[lane]) |->
                               IF n = 0 THEN f ELSE VisitGroup(lane, d[n - 1])]
  BY DEF N, Step
<1>6. e = F(e)
  <2> HIDE DEF F
  <2>1. QED
    BY <1>4
<1> HIDE DEF e
<1>7. e[0] = f /\ \A n \in 1 .. N : e[n] = Step(n, e[n - 1])
  <2>1. \A n \in 0 .. N : e[n] = IF n = 0 THEN f ELSE Step(n, e[n - 1])
    BY <1>6
  <2>2. 0 \in 0 .. N /\ \A n \in 1 .. N : n \in 0 .. N /\ n # 0
    BY <1>1
  <2>3. QED
    BY <2>1, <2>2
<1>8. \A n \in 0 .. N : e[n] \in S[n]
  <2>1. e[0] \in S[0]
    BY <1>1, <1>2, <1>7
  <2>2. \A n \in 1 .. N : e[n - 1] \in S[n - 1] => e[n] \in S[n]
    <3>1. \A n \in 1 .. N : n - 1 \in 0 .. N /\ n \in 0 .. N
      BY <1>1
    <3>2. QED
      BY <1>3, <1>7, <3>1
  <2> HIDE DEF S
  <2>3. QED
    BY <1>1, <2>1, <2>2, LoopFollows
<1>9. e[N] \in In(N)
  BY <1>1, <1>8
<1>10. Found(s0, e[N]) /\ Passed(s0, f, lane, N, e[N])
  BY <1>9 DEF In
<1>11. Quiet(e[N]) => Quiet(f) /\ e[N].s.cursor = f.s.cursor /\ LaneBarren(s0, lane)
  BY <1>10, PassedAll DEF N
<1>12. QED
  BY <1>5, <1>10, <1>11 DEF N

\* One turn of the weighted round.
LEMMA TurnFound ==
    ASSUME NEW s0, Sound(s0, {}), NEW f, Found(s0, f)
    PROVE  LET v == VisitLane(f) IN
           /\ Found(s0, v)
           /\ Quiet(v) => /\ Quiet(f) /\ v.s.cursor = (f.s.cursor + 1) % 3
                          /\ LaneBarren(s0, Lanes[f.s.cursor + 1])
<1> DEFINE lane == Lanes[f.s.cursor + 1]
           credit == IF f.s.deficit[lane] = 0 THEN LaneWeight[lane] ELSE f.s.deficit[lane]
           visit == CHOOSE d : d = [n \in 0 .. Len(f.s.rota[lane]) |->
                                      IF n = 0 THEN f ELSE VisitGroup(lane, d[n - 1])]
           r == visit[Len(f.s.rota[lane])]
           left1 == IF r.pick = None THEN 0 ELSE credit - 1
           next == IF left1 = 0 THEN (r.s.cursor + 1) % Len(Lanes) ELSE r.s.cursor
           q == [r.s EXCEPT !.deficit[lane] = left1, !.cursor = next]
           v == [r EXCEPT !.s = q]
<1>1. CASE f.pick # None
  <2>1. VisitLane(f) = f
    BY <1>1 DEF VisitLane
  <2>2. QED
    BY <1>1, <2>1 DEF Quiet
<1>2. CASE f.pick = None
  <2>1. /\ f.s \in SchedType /\ f.s.cursor \in 0 .. 2
        /\ f.s.deficit \in [ToSet(Lanes) -> 0 .. 4]
    <3>1. f.s \in SchedType
      BY DEF Found, Sound
    <3>2. QED
      BY <3>1, SchedFields
  <2>2. lane \in ToSet(Lanes) /\ lane \in {"decision", "content-security", "evidence"}
    <3>1. f.s.cursor + 1 \in 1 .. 3
      BY <2>1
    <3>2. QED
      BY <3>1 DEF Lanes, ToSet
  <2>3. /\ Found(s0, r)
        /\ Quiet(r) => Quiet(f) /\ r.s.cursor = f.s.cursor /\ LaneBarren(s0, lane)
    <3> HIDE DEF lane
    <3>1. QED
      BY <2>2, LaneLoop
  <2>4. VisitLane(f) = [r EXCEPT !.s.deficit[lane] = left1,
                                 !.s.cursor = IF left1 = 0 THEN (@ + 1) % Len(Lanes) ELSE @]
    BY <1>2 DEF VisitLane
  <2>5. credit \in 1 .. 4
    <3>1. LaneWeight[lane] \in 1 .. 4
      BY <2>2 DEF LaneWeight
    <3>2. f.s.deficit[lane] \in 0 .. 4
      BY <2>1, <2>2
    <3> HIDE DEF lane
    <3>3. QED
      BY <3>1, <3>2
  <2> HIDE DEF lane, credit, visit, r
  <2>6. /\ r \in Searches /\ r.s \in SchedType /\ r.s.cursor \in 0 .. 2
        /\ r.s.deficit \in [ToSet(Lanes) -> 0 .. 4]
    <3>1. r \in Searches /\ r.s \in SchedType
      BY <2>3 DEF Found, Sound
    <3>2. QED
      BY <3>1, SchedFields
  <2>7. left1 \in 0 .. 4
    BY <2>5
  <2>8. Len(Lanes) = 3
    BY DEF Lanes
  <2>16. r.pick = None => left1 = 0
    OBVIOUS
  <2> HIDE DEF left1
  <2>9. next \in 0 .. 2 /\ (r.pick = None => next = (r.s.cursor + 1) % 3)
    BY <2>6, <2>8, <2>16
  <2>10. VisitLane(f) = v
    BY <2>4, <2>6 DEF Searches, SchedType
  <2> HIDE DEF next
  <2>11. /\ q \in SchedType /\ q.rota = r.s.rota
         /\ q.line = r.s.line /\ q.queued = r.s.queued /\ q.active = r.s.active
         /\ q.retained = r.s.retained /\ q.bytes = r.s.bytes
         /\ q.granted = r.s.granted /\ q.dropped = r.s.dropped /\ q.limit = r.s.limit
         /\ q.cursor = next
    BY <2>2, <2>6, <2>7, <2>9 DEF SchedType
  <2> HIDE DEF q
  <2>12. v \in Searches /\ v.s = q /\ v.pick = r.pick
    BY <2>6, <2>11 DEF Searches
  <2> HIDE DEF v
  <2>13. \A l \in ToSet(Lanes) : IsInjective(q.rota[l]) /\ ToSet(q.rota[l]) = ToSet(r.s.rota[l])
    BY <2>3, <2>11 DEF Found, Sound, Rotation
  <2>14. Found(s0, v)
    BY <2>3, <2>11, <2>12, <2>13, RecastFound
  <2>15. ASSUME Quiet(v)
         PROVE  /\ Quiet(f) /\ v.s.cursor = (f.s.cursor + 1) % 3
                /\ LaneBarren(s0, lane)
    <3>1. Quiet(r)
      BY <2>11, <2>12, <2>15 DEF Quiet
    <3>2. v.s.cursor = (r.s.cursor + 1) % 3
      BY <2>9, <2>11, <2>12, <3>1 DEF Quiet
    <3>3. QED
      BY <2>3, <3>1, <3>2
  <2>17. QED
    BY <2>10, <2>14, <2>15 DEF lane
<1>3. QED
  BY <1>1, <1>2

\* _next_item returns a request that may have a slot and can finish, or none.
\* If it returns none and has rejected none, no queued request may have a slot.
LEMMA NextFound ==
    ASSUME NEW s, Sound(s, {})
    PROVE  /\ Found(s, NextItem(s))
           /\ Quiet(NextItem(s)) => AllBarren(s)
<1> DEFINE N == 11
           b == OldestAgedEligible(s)
           Step(n, x) == VisitLane(x)
           In(n) == {x \in Searches : Found(s, x)}
           S == [n \in 0 .. N |-> In(n)]
           G(n) == [x \in Searches |-> IF x \in In(n - 1) THEN Step(n, x) ELSE x]
           g == [n \in 1 .. N |-> G(n)]
           F(f) == [n \in 0 .. N |-> IF n = 0 THEN b ELSE Step(n, f[n - 1])]
<1>1. N \in Nat
  OBVIOUS
<1>2. b \in In(0)
  <2>1. Found(s, b)
    BY AgedFound
  <2>2. b \in Searches
    BY <2>1 DEF Found
  <2>3. QED
    BY <2>1, <2>2
<1>3. ASSUME NEW n \in 1 .. N, NEW x \in In(n - 1) PROVE Step(n, x) \in In(n)
  <2>1. Found(s, VisitLane(x))
    BY TurnFound
  <2>2. VisitLane(x) \in Searches
    BY <2>1 DEF Found
  <2>3. QED
    BY <2>1, <2>2
<1> HIDE DEF b
<1> HIDE DEF N, In, Step
<1>4. \E f : f = F(f)
  <2>1. S \in [0 .. N -> SUBSET Searches] /\ b \in S[0]
    <3>1. \A n \in 0 .. N : In(n) \in SUBSET Searches
      BY DEF In
    <3>2. QED
      BY <1>1, <1>2, <3>1
  <2>2. ASSUME NEW n \in 1 .. N PROVE G(n) \in [Searches -> Searches]
    <3>1. \A x \in In(n - 1) : Step(n, x) \in Searches
      BY <1>3 DEF In
    <3>2. QED
      BY <3>1
  <2>3. g \in [1 .. N -> [Searches -> Searches]]
    BY <2>2
  <2>4. \A n \in 1 .. N : \A x \in S[n - 1] : g[n][x] = Step(n, x) /\ g[n][x] \in S[n]
    <3>1. \A n \in 1 .. N : n - 1 \in 0 .. N /\ n \in 0 .. N /\ In(n - 1) \in SUBSET Searches
      BY <1>1 DEF In
    <3>2. QED
      BY <1>3, <3>1
  <2> HIDE DEF S, g
  <2>5. Loop(N, Searches, S, b, g)
    BY <1>1, <2>1, <2>3, <2>4 DEF Loop
  <2>6. PICK f : RunOf(f, N, Searches, S, b, g)
    BY <2>5, LoopRuns
  <2>7. /\ f \in [0 .. N -> Searches] /\ f[0] = b
        /\ \A n \in 1 .. N : f[n] = g[n][f[n - 1]]
        /\ \A n \in 0 .. N : f[n] \in S[n]
    BY <2>6 DEF RunOf
  <2>8. \A n \in 1 .. N : f[n] = Step(n, f[n - 1])
    <3>1. \A n \in 1 .. N : n - 1 \in 0 .. N
      BY <1>1
    <3>2. QED
      BY <2>4, <2>7, <3>1
  <2>9. \A n \in 0 .. N : f[n] = IF n = 0 THEN b ELSE Step(n, f[n - 1])
    <3>1. \A n \in 0 .. N : n # 0 => n \in 1 .. N
      BY <1>1
    <3>2. QED
      BY <2>7, <2>8, <3>1
  <2>10. QED
    BY <2>7, <2>9
<1> DEFINE e == CHOOSE f : f = F(f)
<1>5. NextItem(s) = e[N]
  BY DEF NextItem, N, Step, b
<1>6. e = F(e)
  <2> HIDE DEF F
  <2>1. QED
    BY <1>4
<1> HIDE DEF e
<1>7. e[0] = b /\ \A n \in 1 .. N : e[n] = Step(n, e[n - 1])
  <2>1. \A n \in 0 .. N : e[n] = IF n = 0 THEN b ELSE Step(n, e[n - 1])
    BY <1>6
  <2>2. 0 \in 0 .. N /\ \A n \in 1 .. N : n \in 0 .. N /\ n # 0
    BY <1>1
  <2>3. QED
    BY <2>1, <2>2
<1>8. \A n \in 0 .. N : e[n] \in S[n]
  <2>1. e[0] \in S[0]
    BY <1>1, <1>2, <1>7
  <2>2. \A n \in 1 .. N : e[n - 1] \in S[n - 1] => e[n] \in S[n]
    <3>1. \A n \in 1 .. N : n - 1 \in 0 .. N /\ n \in 0 .. N
      BY <1>1
    <3>2. QED
      BY <1>3, <1>7, <3>1
  <2> HIDE DEF S
  <2>3. QED
    BY <1>1, <2>1, <2>2, LoopFollows
<1>9. \A n \in 0 .. N : Found(s, e[n])
  BY <1>8 DEF In
<1>10. ASSUME NEW n \in 1 .. 11, Quiet(e[n])
       PROVE  /\ Quiet(e[n - 1]) /\ e[n].s.cursor = (e[n - 1].s.cursor + 1) % 3
              /\ LaneBarren(s, Lanes[e[n - 1].s.cursor + 1])
  <2>1. e[n] = VisitLane(e[n - 1]) /\ Found(s, e[n - 1])
    BY <1>7, <1>9 DEF N, Step
  <2>2. QED
    BY <1>10, <2>1, TurnFound
<1>11. ASSUME Quiet(e[11]) PROVE AllBarren(s)
  <2> DEFINE A == {m \in 0 .. 8 : Quiet(e[11 - m])}
  <2>1. 0 \in A
    BY <1>11
  <2>2. ASSUME NEW m \in 1 .. 8, m - 1 \in A PROVE m \in A
    <3>1. Quiet(e[11 - (m - 1)])
      BY <2>2
    <3>2. Quiet(e[(11 - (m - 1)) - 1])
      <4>1. 11 - (m - 1) \in 1 .. 11
        OBVIOUS
      <4>2. QED
        BY <1>10, <3>1, <4>1
    <3>3. (11 - (m - 1)) - 1 = 11 - m
      OBVIOUS
    <3>4. QED
      BY <3>2, <3>3
  <2>3. 8 \in A
    <3> HIDE DEF A
    <3>1. 8 \in Nat /\ 8 \in 0 .. 8
      OBVIOUS
    <3>2. QED
      BY <2>1, <2>2, <3>1, CountUp
  <2>8. Quiet(e[3])
    BY <2>3
  <2>9. /\ Quiet(e[2]) /\ LaneBarren(s, Lanes[e[2].s.cursor + 1])
    BY <1>10, <2>8
  <2>10. /\ Quiet(e[1]) /\ e[2].s.cursor = (e[1].s.cursor + 1) % 3
         /\ LaneBarren(s, Lanes[e[1].s.cursor + 1])
    BY <1>10, <2>9
  <2>11. /\ e[1].s.cursor = (e[0].s.cursor + 1) % 3
         /\ LaneBarren(s, Lanes[e[0].s.cursor + 1])
    BY <1>10, <2>10
  <2> DEFINE c == e[0].s.cursor
             d == e[1].s.cursor
             f == e[2].s.cursor
  <2>12. c \in 0 .. 2
    <3>1. Found(s, e[0])
      BY <1>9 DEF N
    <3>2. e[0].s \in SchedType
      BY <3>1 DEF Found, Sound
    <3>3. QED
      BY <3>2, SchedFields
  <2>13. /\ d = (c + 1) % 3 /\ f = (d + 1) % 3
         /\ LaneBarren(s, Lanes[c + 1]) /\ LaneBarren(s, Lanes[d + 1])
         /\ LaneBarren(s, Lanes[f + 1])
    BY <2>9, <2>10, <2>11
  <2> HIDE DEF c, d, f
  <2>14. {c + 1, d + 1, f + 1} = {1, 2, 3}
    BY <2>12, <2>13
  <2>15. \A i \in {1, 2, 3} : LaneBarren(s, Lanes[i])
    BY <2>13, <2>14
  <2>16. \A lane \in ToSet(Lanes) : LaneBarren(s, lane)
    BY <2>15 DEF ToSet, Lanes
  <2>17. QED
    BY <2>16, SchedFields, LaneAndKey DEF Sound, AllBarren, LaneBarren
<1>12. QED
  BY <1>1, <1>5, <1>9, <1>11 DEF N


----------------------------------------------------------------------------
(* _dispatch.                                                              *)

HarnessesBounded(s) == \A h \in Hooks : s.active[HarnessOf[h]] <= PerHarnessActive

\* s is s0 after some of its queued requests were rejected or admitted.
Later(s0, s) ==
    /\ Queue(s) \subseteq Queue(s0)
    /\ s0.granted \subseteq s.granted /\ s0.dropped \subseteq s.dropped
    /\ s.limit = s0.limit
    /\ Queue(s) \cup s.granted \cup s.dropped = Queue(s0) \cup s0.granted \cup s0.dropped
    /\ \A h \in Hooks : h \notin s.dropped => s.bytes[h] = s0.bytes[h]

\* AdmissionsJustified of what leads from s0 to s.
Justified(s0, s) ==
    \A h \in s.granted \ s0.granted :
        /\ s.active["all"] <= s.limit
        /\ CanFinish(h)
        /\ HasCompetingClient(s, ClientOf[h]) => s.active[ClientOf[h]] <= ShareLimit(s.limit)

Dispatched(s0, s) ==
    /\ Sound(s, {})
    /\ Later(s0, s)
    /\ HarnessesBounded(s)
    /\ Justified(s0, s)

\* Rejecting some more queued requests.
LEMMA TrimDispatched ==
    ASSUME NEW s0, NEW s, Dispatched(s0, s), NEW q, Sound(q, {}), Trimmed(s, q, {})
    PROVE  Dispatched(s0, q)
<1>1. Sound(s, {}) /\ Later(s0, s) /\ HarnessesBounded(s) /\ Justified(s0, s)
  BY DEF Dispatched
<1>2. /\ Queue(q) \subseteq Queue(s) /\ q.granted = s.granted /\ q.limit = s.limit
      /\ s.dropped \subseteq q.dropped
      /\ Queue(q) \cup q.dropped = Queue(s) \cup s.dropped
      /\ \A h \in Hooks : h \notin q.dropped => q.bytes[h] = s.bytes[h]
  BY DEF Trimmed
<1>3. q.active = s.active
  BY <1>1, <1>2 DEF Sound
<1>4. Later(s0, q)
  BY <1>1, <1>2 DEF Later
<1>5. ASSUME NEW c, HasCompetingClient(q, c) PROVE HasCompetingClient(s, c)
  <2>1. \E g \in Queue(q) : ClientOf[g] # c
    BY <1>5, Competition
  <2>2. \E g \in Queue(s) : ClientOf[g] # c
    BY <1>2, <2>1
  <2>3. QED
    BY <1>1, <2>2, Competition
<1>6. Justified(s0, q)
  BY <1>1, <1>2, <1>3, <1>5 DEF Justified
<1>7. HarnessesBounded(q)
  BY <1>1, <1>3 DEF HarnessesBounded
<1>8. QED
  BY <1>4, <1>6, <1>7 DEF Dispatched

\* Admitting the request a search has found, while a slot is free.
LEMMA GrantDispatched ==
    ASSUME NEW s0, NEW s, Dispatched(s0, s), s.active["all"] < s.limit,
           NEW f, Found(s, f), f.pick # None
    PROVE  Dispatched(s0, Grant(f.s, f.pick))
<1> DEFINE h == f.pick
           q == Grant(f.s, h)
<1>1. Sound(s, {}) /\ Later(s0, s) /\ HarnessesBounded(s) /\ Justified(s0, s)
  BY DEF Dispatched
<1>2. /\ h \in Hooks /\ Out(f) = {h} /\ Sound(f.s, {h}) /\ Trimmed(s, f.s, {h})
      /\ CanFinish(h) /\ Eligible(f.s, h)
  BY DEF Found, Searches, Out
<1>3. /\ Sound(q, {})
      /\ Queue(q) = Queue(f.s)
      /\ q.active = Charge(f.s.active, h, 1)
      /\ q.granted = f.s.granted \cup {h}
      /\ q.bytes = f.s.bytes /\ q.dropped = f.s.dropped /\ q.limit = f.s.limit
      /\ q.rota = f.s.rota
  BY <1>2, GrantSound
<1> HIDE DEF h, q
<1>4. /\ Queue(f.s) \subseteq Queue(s) /\ f.s.granted = s.granted /\ f.s.limit = s.limit
      /\ s.dropped \subseteq f.s.dropped
      /\ Queue(f.s) \cup {h} \cup f.s.dropped = Queue(s) \cup s.dropped
      /\ \A g \in Hooks : g \notin f.s.dropped => f.s.bytes[g] = s.bytes[g]
  BY <1>2 DEF Trimmed
<1>5. f.s.active = s.active
  BY <1>1, <1>2, <1>4 DEF Sound
<1>6. Later(s0, q)
  BY <1>1, <1>3, <1>4 DEF Later
<1>7. /\ s \in SchedType /\ s.active \in [AllOwners -> Nat] /\ s.limit \in Nat
      /\ PerHarnessActive \in Nat /\ ShareLimit(s.limit) \in Nat
  <2>1. s \in SchedType /\ s.active \in [AllOwners -> Nat] /\ s.limit \in ActiveLimits
    BY <1>1, SchedFields DEF Sound
  <2>2. s.limit \in Nat /\ PerHarnessActive \in Nat
    BY <2>1, HookConstants
  <2>3. ShareLimit(s.limit) \in Nat
    BY <2>2 DEF ShareLimit
  <2>4. QED
    BY <2>1, <2>2, <2>3
<1>8. ASSUME NEW g \in Hooks
      PROVE  /\ q.active["all"] = s.active["all"] + 1
             /\ q.active[HarnessOf[g]] = IF HarnessOf[g] = HarnessOf[h]
                                         THEN s.active[HarnessOf[g]] + 1
                                         ELSE s.active[HarnessOf[g]]
             /\ q.active[ClientOf[g]] = IF ClientOf[g] = ClientOf[h]
                                        THEN s.active[ClientOf[g]] + 1
                                        ELSE s.active[ClientOf[g]]
  <2>1. /\ "all" \in AllOwners /\ HarnessOf[g] \in AllOwners /\ ClientOf[g] \in AllOwners
        /\ "all" \in Owners(h)
        /\ HarnessOf[g] \in Owners(h) <=> HarnessOf[g] = HarnessOf[h]
        /\ ClientOf[g] \in Owners(h) <=> ClientOf[g] = ClientOf[h]
    BY <1>2, OwnersCounted
  <2>2. \A o \in AllOwners : q.active[o] = IF o \in Owners(h) THEN s.active[o] + 1
                                           ELSE s.active[o]
    BY <1>3, <1>5 DEF Charge
  <2>3. QED
    BY <2>1, <2>2
<1>9. HarnessesBounded(q)
  <2>1. SUFFICES ASSUME NEW g \in Hooks PROVE q.active[HarnessOf[g]] <= PerHarnessActive
    BY DEF HarnessesBounded
  <2>2. s.active[HarnessOf[g]] <= PerHarnessActive /\ s.active[HarnessOf[g]] \in Nat
    BY <1>1, <1>7, OwnersCounted DEF HarnessesBounded
  <2>3. s.active[HarnessOf[h]] < PerHarnessActive
    BY <1>2, <1>5 DEF Eligible
  <2>4. QED
    BY <1>7, <1>8, <2>2, <2>3
<1>10. ASSUME NEW c, HasCompetingClient(q, c)
       PROVE  HasCompetingClient(f.s, c) /\ HasCompetingClient(s, c)
  <2>1. \E g \in Queue(q) : ClientOf[g] # c
    BY <1>3, <1>10, Competition
  <2>2. \E g \in Queue(f.s) : ClientOf[g] # c
    BY <1>3, <2>1
  <2>3. \E g \in Queue(s) : ClientOf[g] # c
    BY <1>4, <2>2
  <2>4. HasCompetingClient(f.s, c)
    BY <1>2, <2>2, Competition
  <2>5. HasCompetingClient(s, c)
    BY <1>1, <2>3, Competition
  <2>6. QED
    BY <2>4, <2>5
<1>11. Justified(s0, q)
  <2>1. SUFFICES ASSUME NEW g \in q.granted \ s0.granted
                 PROVE  /\ q.active["all"] <= q.limit
                        /\ CanFinish(g)
                        /\ HasCompetingClient(q, ClientOf[g])
                              => q.active[ClientOf[g]] <= ShareLimit(q.limit)
    BY DEF Justified
  <2>2. g \in Hooks /\ "all" \in AllOwners /\ ClientOf[g] \in AllOwners
    <3>1. g \in Hooks
      BY <1>3, SchedFields DEF Sound
    <3>2. QED
      BY <3>1, OwnersCounted
  <2>3. q.limit = s.limit
    BY <1>3, <1>4
  <2>4. q.active["all"] <= q.limit
    BY <1>7, <1>8, <2>2, <2>3
  <2>5. CASE ClientOf[g] = ClientOf[h]
    <3>1. CanFinish(g)
      <4>1. CASE g = h
        BY <1>2, <4>1
      <4>2. CASE g # h
        BY <1>1, <1>3, <1>4, <2>1, <4>2 DEF Justified
      <4>3. QED
        BY <4>1, <4>2
    <3>2. HasCompetingClient(q, ClientOf[h]) => s.active[ClientOf[h]] < ShareLimit(s.limit)
      BY <1>2, <1>4, <1>5, <1>10 DEF Eligible
    <3>3. q.active[ClientOf[g]] = s.active[ClientOf[g]] + 1 /\ s.active[ClientOf[g]] \in Nat
      BY <1>7, <1>8, <2>2, <2>5
    <3>4. QED
      BY <1>7, <2>3, <2>4, <2>5, <3>1, <3>2, <3>3
  <2>6. CASE ClientOf[g] # ClientOf[h]
    <3>1. g \in s.granted \ s0.granted
      BY <1>3, <1>4, <2>1, <2>6
    <3>2. /\ CanFinish(g)
          /\ HasCompetingClient(s, ClientOf[g]) => s.active[ClientOf[g]] <= ShareLimit(s.limit)
      BY <1>1, <3>1 DEF Justified
    <3>3. q.active[ClientOf[g]] = s.active[ClientOf[g]]
      BY <1>8, <2>2, <2>6
    <3>4. QED
      BY <1>10, <2>3, <2>4, <3>2, <3>3
  <2>7. QED
    BY <2>5, <2>6
<1>12. QED
  BY <1>3, <1>6, <1>9, <1>11 DEF Dispatched, q, h

\* All slots are taken.
Full(s) == s.active["all"] >= s.limit

\* No slot is left for a queued request, unless a request was rejected: the
\* rejections may use up the turns of a search.
Exhausted(s) == s.dropped = {} /\ ~Full(s) => AllBarren(s)

\* What the rounds of _dispatch leave: a round that ends them finds nobody, and
\* each of the others takes at least one request out of the queue.
Round(n, x) ==
    /\ ~x.more /\ x.s.dropped = {} => AllBarren(x.s)
    /\ x.more /\ ~Full(x.s) => Cardinality(Queue(x.s)) <= Cardinality(Hooks) - n

\* The queue of a sound scheduler is finite, and its counter counts it.
LEMMA QueueCount ==
    ASSUME NEW s, NEW out, Sound(s, out)
    PROVE  /\ IsFiniteSet(Queue(s)) /\ Cardinality(Queue(s)) \in Nat
           /\ Cardinality(Queue(s)) <= Cardinality(Hooks)
           /\ s.queued["all"] = 0 => Queue(s) = {}
<1>1. Queue(s) \in SUBSET Hooks /\ out \in SUBSET Hooks
  BY SchedFields DEF Sound
<1>2. /\ IsFiniteSet(Queue(s)) /\ Cardinality(Queue(s)) \in Nat
      /\ Cardinality(Queue(s)) <= Cardinality(Hooks)
  BY <1>1, HookConstants, FS_Subset, FS_CardinalityType
<1>3. ASSUME s.queued["all"] = 0 PROVE Queue(s) = {}
  <2> DEFINE Q == Queue(s) \cup out
  <2>1. "all" \in AllOwners /\ \A h \in Hooks : "all" \in Owners(h)
    BY HookConstants, OwnersCounted
  <2>2. {h \in Q : "all" \in Owners(h)} = Q
    BY <1>1, <2>1
  <2>3. Cardinality(Q) = 0
    BY <1>3, <2>1, <2>2 DEF Sound, Counts, Count
  <2>4. IsFiniteSet(Q)
    BY <1>1, HookConstants, FS_Subset
  <2>5. Q = {}
    BY <2>3, <2>4, FS_EmptySet
  <2>6. QED
    BY <2>5
<1>4. QED
  BY <1>2, <1>3

\* A round that admits a request makes the queue shorter.
LEMMA RoundGrants ==
    ASSUME NEW s, Sound(s, {}), NEW f, Found(s, f), f.pick # None
    PROVE  Cardinality(Queue(Grant(f.s, f.pick))) <= Cardinality(Queue(s)) - 1
<1> DEFINE h == f.pick
           q == Grant(f.s, h)
<1>1. h \in Hooks /\ Out(f) = {h} /\ Sound(f.s, {h}) /\ Trimmed(s, f.s, {h})
  BY DEF Found, Searches, Out
<1>2. Sound(q, {}) /\ Queue(q) = Queue(f.s)
  BY <1>1, GrantSound
<1> HIDE DEF q
<1>3. /\ IsFiniteSet(Queue(s)) /\ Cardinality(Queue(s)) \in Nat
      /\ Cardinality(Queue(q)) \in Nat
  BY <1>2, QueueCount
<1>4. h \in Queue(s) /\ Queue(q) \subseteq Queue(s) \ {h}
  BY <1>1, <1>2 DEF Trimmed, Sound, Apart
<1>5. /\ IsFiniteSet(Queue(s) \ {h})
      /\ Cardinality(Queue(s) \ {h}) = Cardinality(Queue(s)) - 1
  BY <1>3, <1>4, FS_RemoveElement
<1>6. Cardinality(Queue(q)) <= Cardinality(Queue(s) \ {h})
  BY <1>4, <1>5, FS_Subset
<1>7. QED
  BY <1>5, <1>6 DEF q

\* What _dispatch does to a sound scheduler: it only rejects and admits queued
\* requests, every admission is justified, and it stops only when no slot is
\* free or nobody queued may have one.
LEMMA DispatchSound ==
    ASSUME NEW s, Sound(s, {}), HarnessesBounded(s)
    PROVE  Dispatched(s, Dispatch(s)) /\ Exhausted(Dispatch(s))
<1> DEFINE N == Cardinality(Hooks)
           Rounds == [s : SchedType, pick : {None}, more : BOOLEAN]
           b == [s |-> ExpireWaiters(s), pick |-> None, more |-> TRUE]
           Step(n, x) ==
              LET r == NextItem(x.s)
              IN  IF ~x.more \/ x.s.active["all"] >= x.s.limit \/ x.s.queued["all"] = 0
                  THEN x
                  ELSE IF r.pick = None THEN [x EXCEPT !.s = r.s, !.more = FALSE]
                  ELSE [x EXCEPT !.s = Grant(r.s, r.pick)]
           In(n) == {x \in Rounds : Dispatched(s, x.s) /\ Round(n, x)}
           S == [n \in 0 .. N |-> In(n)]
           G(n) == [x \in Rounds |-> IF x \in In(n - 1) THEN Step(n, x) ELSE x]
           g == [n \in 1 .. N |-> G(n)]
           F(f) == [n \in 0 .. N |-> IF n = 0 THEN b ELSE Step(n, f[n - 1])]
<1>1. N \in Nat
  BY HookConstants, FS_CardinalityType
<1>2. b \in In(0)
  <2>1. Dispatched(s, s)
    BY DEF Dispatched, Later, Justified
  <2>2. Sound(ExpireWaiters(s), {}) /\ Trimmed(s, ExpireWaiters(s), {})
    BY ExpireSound
  <2>3. Dispatched(s, ExpireWaiters(s))
    BY <2>1, <2>2, TrimDispatched
  <2>4. ExpireWaiters(s) \in SchedType
    BY <2>2 DEF Sound
  <2>5. Round(0, b)
    BY <1>1, <2>2, QueueCount DEF Round
  <2>6. QED
    BY <2>3, <2>4, <2>5
<1>3. ASSUME NEW n \in 1 .. N, NEW x \in In(n - 1) PROVE Step(n, x) \in In(n)
  <2> DEFINE r == NextItem(x.s)
             stop == ~x.more \/ x.s.active["all"] >= x.s.limit \/ x.s.queued["all"] = 0
  <2>1. x \in Rounds /\ Dispatched(s, x.s) /\ Sound(x.s, {}) /\ Round(n - 1, x)
    BY DEF Dispatched
  <2>2. Found(x.s, r) /\ (Quiet(r) => AllBarren(x.s))
    BY <2>1, NextFound
  <2> HIDE DEF r
  <2>3. CASE stop
    <3>1. Step(n, x) = x
      BY <2>3
    <3>2. Round(n, x)
      <4>1. CASE ~x.more \/ Full(x.s)
        BY <2>1, <4>1 DEF Round
      <4>2. CASE x.more /\ ~Full(x.s)
        <5>1. Queue(x.s) = {}
          BY <2>1, <2>3, <4>2, QueueCount DEF Full
        <5>2. Cardinality(Queue(x.s)) = 0
          BY <5>1, FS_EmptySet
        <5>3. QED
          BY <1>1, <4>2, <5>2 DEF Round
      <4>3. QED
        BY <4>1, <4>2
    <3>3. QED
      BY <2>1, <3>1, <3>2
  <2>4. CASE ~stop /\ r.pick = None
    <3>1. Step(n, x) = [x EXCEPT !.s = r.s, !.more = FALSE]
      BY <2>4 DEF r
    <3>2. Out(r) = {} /\ Sound(r.s, {}) /\ Trimmed(x.s, r.s, {})
      BY <2>2, <2>4 DEF Found, Out
    <3>3. Dispatched(s, r.s)
      BY <2>1, <3>2, TrimDispatched
    <3>4. r.s \in SchedType
      BY <3>2 DEF Sound
    <3> DEFINE y == [x EXCEPT !.s = r.s, !.more = FALSE]
    <3>5. y \in Rounds /\ y.s = r.s /\ y.more = FALSE
      BY <2>1, <3>4
    <3> HIDE DEF y
    <3>8. ASSUME r.s.dropped = {} PROVE AllBarren(r.s)
      <4>1. Quiet(r)
        BY <2>4, <3>8 DEF Quiet
      <4>2. Queue(r.s) = Queue(x.s) /\ \A h : Eligible(r.s, h) <=> Eligible(x.s, h)
        BY <2>1, <2>2, <4>1, QuietSame
      <4>3. QED
        BY <2>2, <4>1, <4>2 DEF AllBarren
    <3>9. Round(n, y)
      BY <3>5, <3>8 DEF Round
    <3>6. y \in In(n)
      BY <3>3, <3>5, <3>9
    <3>7. QED
      BY <3>1, <3>6 DEF y
  <2>5. CASE ~stop /\ r.pick # None
    <3> DEFINE q == Grant(r.s, r.pick)
    <3>1. Step(n, x) = [x EXCEPT !.s = q]
      BY <2>5 DEF r
    <3>2. x.s.active["all"] < x.s.limit
      <4>1. x.s.active["all"] \in Nat /\ x.s.limit \in Nat
        <5>1. /\ x.s \in SchedType /\ x.s.active \in [AllOwners -> Nat]
              /\ x.s.limit \in ActiveLimits
          BY <2>1, SchedFields DEF Sound
        <5>2. "all" \in AllOwners
          BY HookConstants, OwnersCounted
        <5>3. QED
          BY <5>1, <5>2, HookConstants
      <4>2. QED
        BY <2>5, <4>1
    <3>3. Dispatched(s, q)
      BY <2>1, <2>2, <2>5, <3>2, GrantDispatched
    <3>8. Cardinality(Queue(q)) <= Cardinality(Queue(x.s)) - 1
      BY <2>1, <2>2, <2>5, RoundGrants
    <3> HIDE DEF q
    <3>4. q \in SchedType /\ Sound(q, {})
      BY <3>3 DEF Dispatched, Sound
    <3> DEFINE y == [x EXCEPT !.s = q]
    <3>5. y \in Rounds /\ y.s = q /\ y.more = x.more
      BY <2>1, <3>4
    <3> HIDE DEF y
    <3>9. Round(n, y)
      <4>1. x.more /\ ~Full(x.s)
        BY <2>5 DEF Full
      <4>2. Cardinality(Queue(x.s)) <= N - (n - 1)
        BY <2>1, <4>1 DEF Round
      <4>3. Cardinality(Queue(x.s)) \in Nat /\ Cardinality(Queue(q)) \in Nat
        BY <2>1, <3>4, QueueCount
      <4>4. Cardinality(Queue(q)) <= N - n
        <5> HIDE DEF N
        <5>1. QED
          BY <1>1, <3>8, <4>2, <4>3
      <4>5. QED
        BY <3>5, <4>1, <4>4 DEF Round
    <3>6. y \in In(n)
      BY <3>3, <3>5, <3>9
    <3>7. QED
      BY <3>1, <3>6 DEF y
  <2>6. QED
    BY <2>3, <2>4, <2>5
<1> HIDE DEF b, Rounds
<1> HIDE DEF N, In, Step
<1>4. \E f : f = F(f)
  <2>1. S \in [0 .. N -> SUBSET Rounds] /\ b \in S[0]
    <3>1. \A n \in 0 .. N : In(n) \in SUBSET Rounds
      BY DEF In
    <3>2. QED
      BY <1>1, <1>2, <3>1
  <2>2. ASSUME NEW n \in 1 .. N PROVE G(n) \in [Rounds -> Rounds]
    <3>1. \A x \in In(n - 1) : Step(n, x) \in Rounds
      BY <1>3 DEF In
    <3>2. QED
      BY <3>1
  <2>3. g \in [1 .. N -> [Rounds -> Rounds]]
    BY <2>2
  <2>4. \A n \in 1 .. N : \A x \in S[n - 1] : g[n][x] = Step(n, x) /\ g[n][x] \in S[n]
    <3>1. \A n \in 1 .. N : n - 1 \in 0 .. N /\ n \in 0 .. N /\ In(n - 1) \in SUBSET Rounds
      BY <1>1 DEF In
    <3>2. QED
      BY <1>3, <3>1
  <2> HIDE DEF S, g
  <2>5. Loop(N, Rounds, S, b, g)
    BY <1>1, <2>1, <2>3, <2>4 DEF Loop
  <2>6. PICK f : RunOf(f, N, Rounds, S, b, g)
    BY <2>5, LoopRuns
  <2>7. /\ f \in [0 .. N -> Rounds] /\ f[0] = b
        /\ \A n \in 1 .. N : f[n] = g[n][f[n - 1]]
        /\ \A n \in 0 .. N : f[n] \in S[n]
    BY <2>6 DEF RunOf
  <2>8. \A n \in 1 .. N : f[n] = Step(n, f[n - 1])
    <3>1. \A n \in 1 .. N : n - 1 \in 0 .. N
      BY <1>1
    <3>2. QED
      BY <2>4, <2>7, <3>1
  <2>9. \A n \in 0 .. N : f[n] = IF n = 0 THEN b ELSE Step(n, f[n - 1])
    <3>1. \A n \in 0 .. N : n # 0 => n \in 1 .. N
      BY <1>1
    <3>2. QED
      BY <2>7, <2>8, <3>1
  <2>10. QED
    BY <2>7, <2>9
<1> DEFINE e == CHOOSE f : f = F(f)
<1>5. Dispatch(s) = e[N].s
  BY DEF Dispatch, N, Step, b
<1>6. e = F(e)
  <2> HIDE DEF F
  <2>1. QED
    BY <1>4
<1> HIDE DEF e
<1>7. e[0] = b /\ \A n \in 1 .. N : e[n] = Step(n, e[n - 1])
  <2>1. \A n \in 0 .. N : e[n] = IF n = 0 THEN b ELSE Step(n, e[n - 1])
    BY <1>6
  <2>2. 0 \in 0 .. N /\ \A n \in 1 .. N : n \in 0 .. N /\ n # 0
    BY <1>1
  <2>3. QED
    BY <2>1, <2>2
<1>8. \A n \in 0 .. N : e[n] \in S[n]
  <2>1. e[0] \in S[0]
    BY <1>1, <1>2, <1>7
  <2>2. \A n \in 1 .. N : e[n - 1] \in S[n - 1] => e[n] \in S[n]
    <3>1. \A n \in 1 .. N : n - 1 \in 0 .. N /\ n \in 0 .. N
      BY <1>1
    <3>2. QED
      BY <1>3, <1>7, <3>1
  <2> HIDE DEF S
  <2>3. QED
    BY <1>1, <2>1, <2>2, LoopFollows
<1>9. e[N] \in In(N)
  BY <1>1, <1>8
<1> DEFINE x == e[N]
<1>10. x \in Rounds /\ Dispatched(s, x.s) /\ Round(N, x) /\ Dispatch(s) = x.s
  BY <1>5, <1>9 DEF In
<1> HIDE DEF x
<1>11. ASSUME x.s.dropped = {}, ~Full(x.s) PROVE AllBarren(x.s)
  <2>1. CASE x.more
    <3>1. Cardinality(Queue(x.s)) <= 0
      BY <1>1, <1>10, <1>11, <2>1 DEF Round, N
    <3>2. IsFiniteSet(Queue(x.s)) /\ Cardinality(Queue(x.s)) \in Nat
      BY <1>10, QueueCount DEF Dispatched
    <3>3. Queue(x.s) = {}
      BY <3>1, <3>2, FS_EmptySet
    <3>4. QED
      BY <3>3 DEF AllBarren
  <2>2. CASE ~x.more
    BY <1>10, <1>11, <2>2 DEF Round
  <2>3. QED
    BY <2>1, <2>2
<1>12. QED
  BY <1>10, <1>11 DEF Exhausted


----------------------------------------------------------------------------
(* The inductive invariant.                                                *)

\* The requests that are queued, admitted or rejected.
Placed(s) == Queue(s) \cup s.granted \cup s.dropped

\* NothingLeaked for one request in a sound scheduler.
HomeOf(h, place, s) ==
    /\ place = "waiting" => h \in Placed(s)
    /\ place = "running" => h \in s.granted
    /\ place \notin {"waiting", "running"} => h \notin Placed(s)
    /\ place \in {"idle", "arrived", "reserving"} => s.bytes[h] = 0

Homes(p, s) == \A h \in Hooks : HomeOf(h, p[h], s)

\* WithinLimits of a scheduler object.
Limits(s) ==
    /\ s.retained <= RetainedLimit
    /\ s.queued["all"] <= QueuedLimit
    /\ \A h \in Hooks : /\ s.queued[HarnessOf[h]] <= PerHarnessQueued
                        /\ s.queued[ClientOf[h]] <= PerClientQueued
                        /\ s.active[HarnessOf[h]] <= PerHarnessActive

\* A thread in a byte wait asks for more than it has, and is notified once
\* what it asks for fits.
ByteWait(h, place, s, w, wk) ==
    place \in {"reserving", "growing"} =>
        /\ w[h] >= s.bytes[h]
        /\ s.retained + w[h] - s.bytes[h] <= RetainedLimit => h \in wk

ByteWaits(p, s, w, wk) == \A h \in Hooks : ByteWait(h, p[h], s, w, wk)

SchedulerInvariant ==
    /\ TypeOK
    /\ Sound(sched, {})
    /\ Homes(pc, sched)
    /\ Limits(sched)
    /\ ByteWaits(pc, sched, want, woken)

\* Contains, in terms of the set of queued requests.
LEMMA ContainsQueue ==
    ASSUME NEW s \in SchedType, NEW h
    PROVE  Contains(s.line, h) <=> h \in Queue(s)
<1>1. s.line \in Seq(Hooks)
  BY SchedFields
<1>2. QED
  BY <1>1 DEF Contains, Queue, ToSet

\* q differs from s in the requests of D, and in that queued requests of the
\* others were admitted or rejected.
Moved(s, q, D) ==
    \A g \in Hooks \ D : /\ g \in Placed(q) <=> g \in Placed(s)
                         /\ g \in s.granted => g \in q.granted
                         /\ g \notin q.dropped => q.bytes[g] = s.bytes[g]

\* Threads that do not move stay where they belong.
LEMMA HomesKept ==
    ASSUME NEW s, NEW q, NEW D \in SUBSET Hooks, Moved(s, q, D),
           NEW p \in [Hooks -> Places], NEW r, Homes(p, s),
           \A g \in Hooks \ D : r[g] = p[g],
           \A h \in D : HomeOf(h, r[h], q)
    PROVE  Homes(r, q)
<1>1. SUFFICES ASSUME NEW h \in Hooks \ D PROVE HomeOf(h, r[h], q)
  BY DEF Homes
<1>2. /\ h \in Placed(q) <=> h \in Placed(s)
      /\ h \in s.granted => h \in q.granted
      /\ h \notin q.dropped => q.bytes[h] = s.bytes[h]
      /\ r[h] = p[h] /\ HomeOf(h, p[h], s)
  BY DEF Moved, Homes
<1>3. h \in q.dropped => h \in Placed(q)
  BY DEF Placed
<1>4. QED
  BY <1>2, <1>3 DEF HomeOf

\* A byte wait misses nothing while bytes are only taken, and nothing when
\* every waiting thread is notified.
LEMMA ByteWaitsKept ==
    ASSUME NEW s \in SchedType, NEW q \in SchedType, NEW D \in SUBSET Hooks, Moved(s, q, D),
           NEW p \in [Hooks -> Places], NEW r, Homes(p, s),
           NEW w \in [Hooks -> Nat], NEW x, NEW wk, NEW wl,
           ByteWaits(p, s, w, wk),
           \A g \in Hooks \ D : r[g] = p[g] /\ x[g] = w[g],
           \/ s.retained <= q.retained /\ \A g \in Hooks \ D : g \in wk => g \in wl
           \/ \A g \in Hooks \ D : p[g] \in Waiting => g \in wl,
           \A h \in D : ByteWait(h, r[h], q, x, wl)
    PROVE  ByteWaits(r, q, x, wl)
<1>1. SUFFICES ASSUME NEW h \in Hooks \ D, r[h] \in {"reserving", "growing"}
               PROVE  /\ x[h] >= q.bytes[h]
                      /\ q.retained + x[h] - q.bytes[h] <= RetainedLimit => h \in wl
  BY DEF ByteWaits, ByteWait
<1>2. r[h] = p[h] /\ x[h] = w[h] /\ p[h] \in Waiting
  BY <1>1 DEF Waiting
<1>3. h \notin Placed(s)
  BY <1>1, <1>2 DEF Homes, HomeOf
<1>4. q.bytes[h] = s.bytes[h]
  BY <1>3 DEF Moved, Placed
<1>5. /\ w[h] >= s.bytes[h]
      /\ s.retained + w[h] - s.bytes[h] <= RetainedLimit => h \in wk
  BY <1>1, <1>2 DEF ByteWaits, ByteWait
<1>6. /\ w[h] \in Nat /\ s.bytes[h] \in Nat /\ s.retained \in Nat /\ q.retained \in Nat
      /\ RetainedLimit \in Nat
  BY SchedFields, HookConstants
<1>7. CASE \A g \in Hooks \ D : p[g] \in Waiting => g \in wl
  BY <1>2, <1>4, <1>5, <1>7
<1>8. CASE s.retained <= q.retained /\ \A g \in Hooks \ D : g \in wk => g \in wl
  <2>1. q.retained + w[h] - s.bytes[h] <= RetainedLimit
          => s.retained + w[h] - s.bytes[h] <= RetainedLimit
    BY <1>6, <1>8
  <2>2. QED
    BY <1>2, <1>4, <1>5, <1>8, <2>1
<1>9. QED
  BY <1>7, <1>8

\* _dispatch keeps every limit.
LEMMA DispatchKeeps ==
    ASSUME NEW s, Sound(s, {}), Limits(s)
    PROVE  LET d == Dispatch(s) IN
           /\ Sound(d, {}) /\ Limits(d) /\ Later(s, d) /\ Justified(s, d) /\ Exhausted(d)
<1> DEFINE d == Dispatch(s)
<1>1. HarnessesBounded(s)
  BY DEF Limits, HarnessesBounded
<1>2. Sound(d, {}) /\ Later(s, d) /\ HarnessesBounded(d) /\ Justified(s, d) /\ Exhausted(d)
  BY <1>1, DispatchSound DEF Dispatched
<1> HIDE DEF d
<1>3. /\ s \in SchedType /\ d \in SchedType
      /\ Queue(s) \in SUBSET Hooks /\ Queue(d) \in SUBSET Queue(s)
      /\ s.bytes \in [Hooks -> Nat] /\ d.bytes \in [Hooks -> Nat]
      /\ s.retained \in Nat /\ d.retained \in Nat
      /\ s.retained = Held(s.bytes) /\ d.retained = Held(d.bytes)
  BY <1>2, SchedFields DEF Sound, Later
<1>4. ASSUME NEW o \in AllOwners PROVE d.queued[o] <= s.queued[o]
  <2>1. Queue(s) \cup {} = Queue(s) /\ Queue(d) \cup {} = Queue(d)
    OBVIOUS
  <2>2. s.queued[o] = Count(Queue(s), o) /\ d.queued[o] = Count(Queue(d), o)
    BY <1>2, <2>1 DEF Sound, Counts
  <2>3. QED
    BY <1>3, <2>2, CountMonotone
<1>5. d.retained <= s.retained
  <2>1. \A h \in Hooks : d.bytes[h] <= s.bytes[h]
    BY <1>2, <1>3 DEF Sound, Later
  <2>2. QED
    BY <1>3, <2>1, HeldMonotone
<1>6. Limits(d)
  <2>1. \A o \in AllOwners : s.queued[o] \in Nat /\ d.queued[o] \in Nat
    BY <1>3, SchedFields
  <2>2. /\ RetainedLimit \in Nat /\ QueuedLimit \in Nat /\ PerHarnessQueued \in Nat
        /\ PerClientQueued \in Nat
    BY HookConstants
  <2>3. d.retained <= RetainedLimit
    BY <1>3, <1>5, <2>2 DEF Limits
  <2>4. "all" \in AllOwners
    BY HookConstants, OwnersCounted
  <2>5. d.queued["all"] <= QueuedLimit
    BY <1>4, <2>1, <2>2, <2>4 DEF Limits
  <2>6. ASSUME NEW h \in Hooks
        PROVE  /\ d.queued[HarnessOf[h]] <= PerHarnessQueued
               /\ d.queued[ClientOf[h]] <= PerClientQueued
               /\ d.active[HarnessOf[h]] <= PerHarnessActive
    <3>1. HarnessOf[h] \in AllOwners /\ ClientOf[h] \in AllOwners
      BY OwnersCounted
    <3>2. s.queued[HarnessOf[h]] <= PerHarnessQueued /\ s.queued[ClientOf[h]] <= PerClientQueued
      BY DEF Limits
    <3>3. d.active[HarnessOf[h]] <= PerHarnessActive
      BY <1>2 DEF HarnessesBounded
    <3>4. QED
      BY <1>4, <2>1, <2>2, <3>1, <3>2, <3>3
  <2>7. QED
    BY <2>3, <2>5, <2>6 DEF Limits
<1>7. QED
  BY <1>2, <1>6 DEF d


----------------------------------------------------------------------------
(* The actions.                                                            *)

\* What is left to show of a step that moves the threads of D.
LEMMA StepKeeps ==
    ASSUME SchedulerInvariant, NEW D \in SUBSET Hooks,
           TypeOK', Sound(sched', {}), Limits(sched'), Moved(sched, sched', D),
           \A g \in Hooks \ D : pc'[g] = pc[g] /\ want'[g] = want[g],
           \/ sched.retained <= sched'.retained /\ \A g \in Hooks \ D : g \in woken => g \in woken'
           \/ \A g \in Hooks \ D : pc[g] \in Waiting => g \in woken',
           \A h \in D : /\ HomeOf(h, pc'[h], sched')
                        /\ ByteWait(h, pc'[h], sched', want', woken')
    PROVE  SchedulerInvariant'
<1>1. /\ TypeOK /\ Homes(pc, sched) /\ ByteWaits(pc, sched, want, woken)
      /\ pc \in [Hooks -> Places] /\ want \in [Hooks -> Nat] /\ sched \in SchedType
  BY DEF SchedulerInvariant, TypeOK
<1>2. sched' \in SchedType
  BY DEF Sound
<1>3. Homes(pc', sched')
  BY <1>1, HomesKept
<1>4. ByteWaits(pc', sched', want', woken')
  BY <1>1, <1>2, ByteWaitsKept
<1>5. QED
  BY <1>3, <1>4 DEF SchedulerInvariant

\* No slot is granted.
LEMMA NothingAdmitted ==
    ASSUME sched'.granted \subseteq sched.granted
    PROVE  Justified(sched, sched')
BY DEF Justified

\* The parts of the variables' types.
LEMMA Types ==
    ASSUME SchedulerInvariant
    PROVE  /\ pc \in [Hooks -> Places] /\ sched \in SchedType /\ want \in [Hooks -> Nat]
           /\ left \in [Hooks -> Nat] /\ age \in [Hooks -> 0 .. AgeBoost]
           /\ cancelled \subseteq Cancellable /\ woken \subseteq Hooks
           /\ estimate \in [UsedLanes -> Estimates]
           /\ sched.bytes \in [Hooks -> Nat] /\ sched.retained \in Nat
           /\ AgeBoost \in Nat /\ RetainedLimit \in Nat
           /\ Sound(sched, {}) /\ Homes(pc, sched) /\ Limits(sched)
BY SchedFields, HookConstants DEF SchedulerInvariant, TypeOK

\* A thread that leaves clears its clocks and its cancellation.
LEMMA ForgetTypes ==
    ASSUME SchedulerInvariant, NEW h \in Hooks, Forget(h)
    PROVE  /\ left' \in [Hooks -> Nat] /\ age' \in [Hooks -> 0 .. AgeBoost]
           /\ cancelled' \subseteq Cancellable
<1>1. /\ left \in [Hooks -> Nat] /\ age \in [Hooks -> 0 .. AgeBoost] /\ AgeBoost \in Nat
      /\ cancelled \subseteq Cancellable
  BY Types
<1>2. 0 \in 0 .. AgeBoost
  BY <1>1
<1>3. QED
  BY <1>1, <1>2 DEF Forget

\* At moves one thread.
LEMMA AtFacts ==
    ASSUME SchedulerInvariant, NEW h \in Hooks, NEW place \in Places, At(h, place)
    PROVE  /\ pc' \in [Hooks -> Places] /\ pc'[h] = place
           /\ \A g \in Hooks \ {h} : pc'[g] = pc[g]
BY Types DEF At

\* notify_all reaches every other thread that waits.
LEMMA NotifyFacts ==
    ASSUME NEW h \in Hooks, NotifyAll(h)
    PROVE  woken' \subseteq Hooks /\ \A g \in Hooks \ {h} : pc[g] \in Waiting => g \in woken'
BY DEF NotifyAll

\* A reservation of a request that is not with the scheduler changes.
LEMMA TakeBytesStep ==
    ASSUME SchedulerInvariant, NEW h \in Hooks, h \notin Placed(sched), NEW n \in Nat,
           Fits(h, n), TakeBytes(h, n)
    PROVE  /\ Sound(sched', {}) /\ Limits(sched') /\ Moved(sched, sched', {h})
           /\ sched' \in SchedType /\ Placed(sched') = Placed(sched)
           /\ sched'.bytes[h] = n
           /\ sched'.retained = sched.retained + n - sched.bytes[h]
           /\ Justified(sched, sched')
<1>1. sched' = WithBytes(sched, h, n)
  BY DEF TakeBytes, WithBytes
<1>2. h \notin sched.dropped /\ Sound(sched, {}) /\ Limits(sched)
      /\ sched.bytes \in [Hooks -> Nat]
  BY Types DEF Placed
<1>3. /\ Sound(sched', {})
      /\ Queue(sched') = Queue(sched) /\ sched'.queued = sched.queued
      /\ sched'.granted = sched.granted /\ sched'.dropped = sched.dropped
      /\ sched'.active = sched.active
      /\ sched'.bytes = [sched.bytes EXCEPT ![h] = n]
      /\ sched'.retained = sched.retained + n - sched.bytes[h]
  <2> DEFINE q == WithBytes(sched, h, n)
  <2>1. /\ Sound(q, {})
        /\ Queue(q) = Queue(sched) /\ q.queued = sched.queued
        /\ q.granted = sched.granted /\ q.dropped = sched.dropped
        /\ q.active = sched.active
        /\ q.bytes = [sched.bytes EXCEPT ![h] = n]
        /\ q.retained = sched.retained + n - sched.bytes[h]
    BY <1>2, BytesSound
  <2>2. sched' = q
    BY <1>1
  <2> HIDE DEF q
  <2>3. QED
    BY <2>1, <2>2
<1>4. Limits(sched')
  BY <1>2, <1>3 DEF Limits, Fits
<1>5. Placed(sched') = Placed(sched)
  BY <1>3 DEF Placed
<1>6. Moved(sched, sched', {h})
  BY <1>2, <1>3, <1>5 DEF Moved
<1>7. Justified(sched, sched')
  BY <1>3, NothingAdmitted
<1>8. sched' \in SchedType /\ sched'.bytes[h] = n
  BY <1>2, <1>3 DEF Sound
<1>9. QED
  BY <1>3, <1>4, <1>5, <1>6, <1>7, <1>8

\* A step that leaves the scheduler and the byte waits alone.
LEMMA SchedSame ==
    ASSUME SchedulerInvariant, sched' = sched, NEW D
    PROVE  /\ Sound(sched', {}) /\ Limits(sched') /\ Moved(sched, sched', D)
           /\ sched' \in SchedType
           /\ sched.retained <= sched'.retained /\ Justified(sched, sched')
<1>1. sched.retained \in Nat /\ Sound(sched, {}) /\ Limits(sched) /\ sched \in SchedType
  BY Types
<1>2. Justified(sched, sched')
  BY NothingAdmitted
<1>3. QED
  BY <1>1, <1>2 DEF Moved

\* One lemma per action.  A request that arrives touches no shared state.
LEMMA ArriveStep ==
    ASSUME SchedulerInvariant, NEW h \in Hooks, Arrive(h)
    PROVE  SchedulerInvariant' /\ Justified(sched, sched')
<1> USE DEF Arrive
<1>1. /\ Sound(sched', {}) /\ Limits(sched') /\ Moved(sched, sched', {h})
      /\ sched' \in SchedType
      /\ sched.retained <= sched'.retained /\ Justified(sched, sched')
  BY SchedSame
<1>2. /\ pc' \in [Hooks -> Places] /\ pc'[h] = "arrived"
      /\ \A g \in Hooks \ {h} : pc'[g] = pc[g]
  BY AtFacts DEF Places
<1>3. TypeOK'
  <2>1. left' \in [Hooks -> Nat]
    BY Types, HookConstants
  <2>2. QED
    BY <1>1, <1>2, <2>1, Types DEF TypeOK
<1>4. HomeOf(h, pc'[h], sched')
  BY <1>2, Types DEF Homes, HomeOf
<1>5. ByteWait(h, pc'[h], sched', want', woken')
  BY <1>2 DEF ByteWait
<1>6. SchedulerInvariant'
  <2>1. {h} \in SUBSET Hooks
    OBVIOUS
  <2>2. \A g \in Hooks \ {h} : pc'[g] = pc[g] /\ want'[g] = want[g]
    BY <1>2
  <2>3. sched.retained <= sched'.retained /\ \A g \in Hooks \ {h} : g \in woken => g \in woken'
    BY <1>1
  <2>4. \A k \in {h} : HomeOf(k, pc'[k], sched') /\ ByteWait(k, pc'[k], sched', want', woken')
    BY <1>4, <1>5
  <2>5. QED
    BY <1>1, <1>3, <2>1, <2>2, <2>3, <2>4, StepKeeps
<1>7. QED
  BY <1>1, <1>6


\* StepKeeps for a step of one thread.
LEMMA ThreadKeeps ==
    ASSUME SchedulerInvariant, NEW h \in Hooks,
           TypeOK', Sound(sched', {}), Limits(sched'), Moved(sched, sched', {h}),
           \A g \in Hooks \ {h} : pc'[g] = pc[g] /\ want'[g] = want[g],
           \/ sched.retained <= sched'.retained /\ \A g \in Hooks \ {h} : g \in woken => g \in woken'
           \/ \A g \in Hooks \ {h} : pc[g] \in Waiting => g \in woken',
           HomeOf(h, pc'[h], sched'), ByteWait(h, pc'[h], sched', want', woken')
    PROVE  SchedulerInvariant'
<1>1. {h} \in SUBSET Hooks
  OBVIOUS
<1>2. \A k \in {h} : HomeOf(k, pc'[k], sched') /\ ByteWait(k, pc'[k], sched', want', woken')
  OBVIOUS
<1>3. QED
  BY <1>1, <1>2, StepKeeps

\* reserve_bytes takes the bytes or starts a byte wait that does not fit.
LEMMA ReserveBytesStep ==
    ASSUME SchedulerInvariant, NEW h \in Hooks, ReserveBytes(h)
    PROVE  SchedulerInvariant' /\ Justified(sched, sched')
<1> USE DEF ReserveBytes
<1> DEFINE n == PayloadOf[h]
<1>1. /\ n \in Nat /\ h \notin Placed(sched) /\ sched.bytes[h] = 0
      /\ want \in [Hooks -> Nat] /\ sched.retained \in Nat
  BY Types, HookConstants DEF Homes, HomeOf
<1>2. left' \in [Hooks -> Nat]
  BY Types, HookConstants
<1>3. CASE Fits(h, n) /\ At(h, "reserved") /\ TakeBytes(h, n) /\ UNCHANGED want
  <2>1. /\ Sound(sched', {}) /\ Limits(sched') /\ Moved(sched, sched', {h})
        /\ sched' \in SchedType /\ Placed(sched') = Placed(sched)
        /\ sched'.retained = sched.retained + n - sched.bytes[h]
        /\ Justified(sched, sched')
    BY <1>1, <1>3, TakeBytesStep
  <2>2. /\ pc' \in [Hooks -> Places] /\ pc'[h] = "reserved"
        /\ \A g \in Hooks \ {h} : pc'[g] = pc[g]
    BY <1>3, AtFacts DEF Places
  <2>3. TypeOK'
    BY <1>2, <1>3, <2>1, <2>2, Types DEF TypeOK
  <2>4. sched.retained <= sched'.retained
    BY <1>1, <2>1
  <2>5. HomeOf(h, pc'[h], sched') /\ ByteWait(h, pc'[h], sched', want', woken')
    BY <1>1, <2>1, <2>2 DEF HomeOf, ByteWait
  <2>6. QED
    BY <1>3, <2>1, <2>2, <2>3, <2>4, <2>5, ThreadKeeps
<1>4. CASE ~Fits(h, n) /\ At(h, "reserving") /\ want' = [want EXCEPT ![h] = n] /\ UNCHANGED sched
  <2>1. /\ Sound(sched', {}) /\ Limits(sched') /\ Moved(sched, sched', {h})
        /\ sched' \in SchedType
        /\ sched.retained <= sched'.retained /\ Justified(sched, sched')
    BY <1>4, SchedSame
  <2>2. /\ pc' \in [Hooks -> Places] /\ pc'[h] = "reserving"
        /\ \A g \in Hooks \ {h} : pc'[g] = pc[g]
    BY <1>4, AtFacts DEF Places, Waiting
  <2>3. want' \in [Hooks -> Nat] /\ want'[h] = n /\ \A g \in Hooks \ {h} : want'[g] = want[g]
    BY <1>1, <1>4
  <2>4. TypeOK'
    BY <1>2, <2>1, <2>2, <2>3, Types DEF TypeOK
  <2>5. HomeOf(h, pc'[h], sched')
    BY <1>1, <1>4, <2>2 DEF HomeOf
  <2>6. ByteWait(h, pc'[h], sched', want', woken')
    BY <1>1, <1>4, <2>3 DEF ByteWait, Fits
  <2>7. QED
    BY <2>1, <2>2, <2>3, <2>4, <2>5, <2>6, ThreadKeeps
<1>5. QED
  BY <1>3, <1>4

\* resize_reservation gives bytes back, takes more, or waits for them.
LEMMA ResizeStep ==
    ASSUME SchedulerInvariant, NEW h \in Hooks, NEW n \in Sizes, Resize(h, n)
    PROVE  SchedulerInvariant' /\ Justified(sched, sched')
<1> USE DEF Resize
<1>1. /\ n \in Nat /\ h \notin Placed(sched) /\ sched.bytes[h] \in Nat
      /\ want \in [Hooks -> Nat] /\ sched.retained \in Nat /\ pc \in [Hooks -> Places]
      /\ RetainedLimit \in Nat /\ sched.retained <= RetainedLimit
  BY Types, HookConstants DEF Homes, HomeOf, Limits
<1>2. CASE Fits(h, n)
  <2>1. /\ TakeBytes(h, n) /\ UNCHANGED <<pc, want, left, age, cancelled, estimate>>
        /\ IF n < sched.bytes[h] THEN NotifyAll(h) ELSE UNCHANGED woken
    BY <1>2
  <2>2. /\ Sound(sched', {}) /\ Limits(sched') /\ Moved(sched, sched', {h})
        /\ sched' \in SchedType /\ Placed(sched') = Placed(sched)
        /\ sched'.retained = sched.retained + n - sched.bytes[h]
        /\ Justified(sched, sched')
    BY <1>1, <1>2, <2>1, TakeBytesStep
  <2>3. HomeOf(h, pc'[h], sched') /\ ByteWait(h, pc'[h], sched', want', woken')
    BY <1>1, <2>1, <2>2 DEF HomeOf, ByteWait
  <2>4. CASE n < sched.bytes[h]
    <3>1. woken' \subseteq Hooks /\ \A g \in Hooks \ {h} : pc[g] \in Waiting => g \in woken'
      BY <2>1, <2>4, NotifyFacts
    <3>2. TypeOK'
      BY <2>1, <2>2, <3>1, Types DEF TypeOK
    <3>3. QED
      BY <2>1, <2>2, <2>3, <3>1, <3>2, ThreadKeeps
  <2>5. CASE ~(n < sched.bytes[h])
    <3>1. sched.retained <= sched'.retained /\ woken' = woken
      BY <1>1, <2>1, <2>2, <2>5
    <3>2. TypeOK'
      BY <2>1, <2>2, <3>1, Types DEF TypeOK
    <3>3. QED
      BY <2>1, <2>2, <2>3, <3>1, <3>2, ThreadKeeps
  <2>6. QED
    BY <2>4, <2>5
<1>3. CASE ~Fits(h, n)
  <2>1. /\ At(h, "growing") /\ want' = [want EXCEPT ![h] = n]
        /\ UNCHANGED <<sched, woken, left, age, cancelled, estimate>>
    BY <1>3
  <2>2. /\ Sound(sched', {}) /\ Limits(sched') /\ Moved(sched, sched', {h})
        /\ sched' \in SchedType
        /\ sched.retained <= sched'.retained /\ Justified(sched, sched')
    BY <2>1, SchedSame
  <2>3. /\ pc' \in [Hooks -> Places] /\ pc'[h] = "growing"
        /\ \A g \in Hooks \ {h} : pc'[g] = pc[g]
    BY <2>1, AtFacts DEF Places, Waiting
  <2>4. want' \in [Hooks -> Nat] /\ want'[h] = n /\ \A g \in Hooks \ {h} : want'[g] = want[g]
    BY <1>1, <2>1
  <2>5. TypeOK'
    BY <2>1, <2>2, <2>3, <2>4, Types DEF TypeOK
  <2>6. HomeOf(h, pc'[h], sched')
    BY <1>1, <2>1, <2>3 DEF HomeOf
  <2>7. ByteWait(h, pc'[h], sched', want', woken')
    BY <1>1, <1>3, <2>1, <2>4 DEF ByteWait, Fits
  <2>8. QED
    BY <2>1, <2>2, <2>3, <2>4, <2>5, <2>6, <2>7, ThreadKeeps
<1>4. QED
  BY <1>2, <1>3

\* A byte wait ends with the bytes, with a rejection, or goes on.
LEMMA WakeForBytesStep ==
    ASSUME SchedulerInvariant, NEW h \in Hooks, WakeForBytes(h)
    PROVE  SchedulerInvariant' /\ Justified(sched, sched')
<1> USE DEF WakeForBytes
<1> DEFINE n == want[h]
<1>1. /\ n \in Nat /\ h \notin Placed(sched) /\ sched.bytes[h] \in Nat
      /\ want \in [Hooks -> Nat] /\ sched.retained \in Nat /\ pc \in [Hooks -> Places]
      /\ n >= sched.bytes[h] /\ (pc[h] = "reserving" => sched.bytes[h] = 0)
      /\ RetainedLimit \in Nat
  BY Types DEF Homes, HomeOf, SchedulerInvariant, ByteWaits, ByteWait
<1>2. woken' \subseteq Hooks /\ \A g \in Hooks \ {h} : g \in woken => g \in woken'
  BY Types
<1>3. estimate' = estimate
  OBVIOUS
<1>4. CASE /\ Fits(h, n) /\ At(h, "reserved") /\ TakeBytes(h, n)
           /\ want' = [want EXCEPT ![h] = 0]
           /\ UNCHANGED <<left, age, cancelled>>
  <2>1. /\ Sound(sched', {}) /\ Limits(sched') /\ Moved(sched, sched', {h})
        /\ sched' \in SchedType /\ Placed(sched') = Placed(sched)
        /\ sched'.retained = sched.retained + n - sched.bytes[h]
        /\ Justified(sched, sched')
    BY <1>1, <1>4, TakeBytesStep
  <2>2. /\ pc' \in [Hooks -> Places] /\ pc'[h] = "reserved"
        /\ \A g \in Hooks \ {h} : pc'[g] = pc[g]
    BY <1>4, AtFacts DEF Places
  <2>3. want' \in [Hooks -> Nat] /\ \A g \in Hooks \ {h} : want'[g] = want[g]
    BY <1>1, <1>4
  <2>4. TypeOK'
    BY <1>2, <1>3, <1>4, <2>1, <2>2, <2>3, Types DEF TypeOK
  <2>5. sched.retained <= sched'.retained
    BY <1>1, <2>1
  <2>6. HomeOf(h, pc'[h], sched') /\ ByteWait(h, pc'[h], sched', want', woken')
    BY <1>1, <2>1, <2>2 DEF HomeOf, ByteWait
  <2>7. QED
    BY <1>2, <2>1, <2>2, <2>3, <2>4, <2>5, <2>6, ThreadKeeps
<1>5. CASE /\ ~Fits(h, n) /\ left[h] = 0 /\ pc[h] = "reserving"
           /\ At(h, "idle") /\ Forget(h) /\ want' = [want EXCEPT ![h] = 0] /\ UNCHANGED sched
  <2>1. /\ Sound(sched', {}) /\ Limits(sched') /\ Moved(sched, sched', {h})
        /\ sched' \in SchedType
        /\ sched.retained <= sched'.retained /\ Justified(sched, sched')
    BY <1>5, SchedSame
  <2>2. /\ pc' \in [Hooks -> Places] /\ pc'[h] = "idle"
        /\ \A g \in Hooks \ {h} : pc'[g] = pc[g]
    BY <1>5, AtFacts DEF Places
  <2>3. want' \in [Hooks -> Nat] /\ \A g \in Hooks \ {h} : want'[g] = want[g]
    BY <1>1, <1>5
  <2>4. /\ left' \in [Hooks -> Nat] /\ age' \in [Hooks -> 0 .. AgeBoost]
        /\ cancelled' \subseteq Cancellable
    BY <1>5, ForgetTypes
  <2>5. TypeOK'
    BY <1>2, <1>3, <2>1, <2>2, <2>3, <2>4, Types DEF TypeOK
  <2>6. HomeOf(h, pc'[h], sched') /\ ByteWait(h, pc'[h], sched', want', woken')
    BY <1>1, <1>5, <2>2 DEF HomeOf, ByteWait
  <2>7. QED
    BY <1>2, <2>1, <2>2, <2>3, <2>5, <2>6, ThreadKeeps
<1>6. CASE /\ ~Fits(h, n) /\ left[h] = 0 /\ pc[h] = "growing"
           /\ At(h, "reserved") /\ want' = [want EXCEPT ![h] = 0]
           /\ UNCHANGED <<sched, left, age, cancelled>>
  <2>1. /\ Sound(sched', {}) /\ Limits(sched') /\ Moved(sched, sched', {h})
        /\ sched' \in SchedType
        /\ sched.retained <= sched'.retained /\ Justified(sched, sched')
    BY <1>6, SchedSame
  <2>2. /\ pc' \in [Hooks -> Places] /\ pc'[h] = "reserved"
        /\ \A g \in Hooks \ {h} : pc'[g] = pc[g]
    BY <1>6, AtFacts DEF Places
  <2>3. want' \in [Hooks -> Nat] /\ \A g \in Hooks \ {h} : want'[g] = want[g]
    BY <1>1, <1>6
  <2>4. TypeOK'
    BY <1>2, <1>3, <1>6, <2>1, <2>2, <2>3, Types DEF TypeOK
  <2>5. HomeOf(h, pc'[h], sched') /\ ByteWait(h, pc'[h], sched', want', woken')
    BY <1>1, <1>6, <2>2 DEF HomeOf, ByteWait
  <2>6. QED
    BY <1>2, <2>1, <2>2, <2>3, <2>4, <2>5, ThreadKeeps
<1>7. CASE ~Fits(h, n) /\ left[h] > 0 /\ UNCHANGED <<pc, sched, want, left, age, cancelled>>
  <2>1. /\ Sound(sched', {}) /\ Limits(sched') /\ Moved(sched, sched', {h})
        /\ sched' \in SchedType
        /\ sched.retained <= sched'.retained /\ Justified(sched, sched')
    BY <1>7, SchedSame
  <2>2. TypeOK'
    BY <1>2, <1>3, <1>7, <2>1, Types DEF TypeOK
  <2>3. HomeOf(h, pc'[h], sched')
    BY <1>7, Types DEF Homes
  <2>4. ByteWait(h, pc'[h], sched', want', woken')
    BY <1>1, <1>7 DEF ByteWait, Fits
  <2>5. QED
    BY <1>2, <1>7, <2>1, <2>2, <2>3, <2>4, ThreadKeeps
<1>8. QED
  BY <1>4, <1>5, <1>6, <1>7


\* acquire refuses at a limit; the reservation stays with the thread.
LEMMA AcquireRefusedStep ==
    ASSUME SchedulerInvariant, NEW h \in Hooks, AcquireRefused(h)
    PROVE  SchedulerInvariant' /\ Justified(sched, sched')
<1> USE DEF AcquireRefused
<1>1. /\ Sound(sched', {}) /\ Limits(sched') /\ Moved(sched, sched', {h})
      /\ sched' \in SchedType
      /\ sched.retained <= sched'.retained /\ Justified(sched, sched')
  BY SchedSame
<1>2. CASE h \in Bare
  <2>1. /\ pc' \in [Hooks -> Places] /\ pc'[h] = "idle"
        /\ \A g \in Hooks \ {h} : pc'[g] = pc[g]
    BY <1>2, AtFacts DEF Places
  <2>2. /\ left' \in [Hooks -> Nat] /\ age' \in [Hooks -> 0 .. AgeBoost]
        /\ cancelled' \subseteq Cancellable
    BY <1>2, ForgetTypes
  <2>3. TypeOK'
    BY <1>1, <2>1, <2>2, Types DEF TypeOK
  <2>4. HomeOf(h, pc'[h], sched')
    BY <1>2, <2>1, Types DEF Homes, HomeOf
  <2>5. ByteWait(h, pc'[h], sched', want', woken')
    BY <2>1 DEF ByteWait
  <2>6. QED
    BY <1>1, <2>1, <2>3, <2>4, <2>5, ThreadKeeps
<1>3. CASE h \notin Bare
  <2>1. /\ pc' \in [Hooks -> Places] /\ pc'[h] = "refused"
        /\ \A g \in Hooks \ {h} : pc'[g] = pc[g]
    BY <1>3, AtFacts DEF Places
  <2>2. TypeOK'
    BY <1>1, <1>3, <2>1, Types DEF TypeOK
  <2>3. HomeOf(h, pc'[h], sched')
    BY <1>3, <2>1, Types DEF Homes, HomeOf
  <2>4. ByteWait(h, pc'[h], sched', want', woken')
    BY <2>1 DEF ByteWait
  <2>5. QED
    BY <1>1, <2>1, <2>2, <2>3, <2>4, ThreadKeeps
<1>4. QED
  BY <1>2, <1>3

\* A refused request gives its bytes back and notifies.
LEMMA ReleaseReservationStep ==
    ASSUME SchedulerInvariant, NEW h \in Hooks, ReleaseReservation(h)
    PROVE  SchedulerInvariant' /\ Justified(sched, sched')
<1> USE DEF ReleaseReservation
<1>1. h \notin Placed(sched) /\ Fits(h, 0)
  <2>1. /\ sched.bytes[h] \in Nat /\ sched.retained \in Nat /\ RetainedLimit \in Nat
        /\ sched.retained <= RetainedLimit /\ h \notin Placed(sched)
    BY Types DEF Limits, Homes, HomeOf
  <2>2. QED
    BY <2>1 DEF Fits
<1>2. /\ Sound(sched', {}) /\ Limits(sched') /\ Moved(sched, sched', {h})
      /\ sched' \in SchedType /\ Placed(sched') = Placed(sched) /\ sched'.bytes[h] = 0
      /\ Justified(sched, sched')
  BY <1>1, TakeBytesStep
<1>3. /\ pc' \in [Hooks -> Places] /\ pc'[h] = "idle"
      /\ \A g \in Hooks \ {h} : pc'[g] = pc[g]
  BY AtFacts DEF Places
<1>4. woken' \subseteq Hooks /\ \A g \in Hooks \ {h} : pc[g] \in Waiting => g \in woken'
  BY NotifyFacts
<1>5. /\ left' \in [Hooks -> Nat] /\ age' \in [Hooks -> 0 .. AgeBoost]
      /\ cancelled' \subseteq Cancellable
  BY ForgetTypes
<1>6. TypeOK'
  BY <1>2, <1>3, <1>4, <1>5, Types DEF TypeOK
<1>7. HomeOf(h, pc'[h], sched') /\ ByteWait(h, pc'[h], sched', want', woken')
  BY <1>1, <1>2, <1>3 DEF HomeOf, ByteWait
<1>8. QED
  BY <1>2, <1>3, <1>4, <1>6, <1>7, ThreadKeeps

\* A dispatch moves nobody out of the scheduler's sight.
LEMMA DispatchMoves ==
    ASSUME NEW s, NEW q, NEW d, NEW D, Moved(s, q, D), Later(q, d)
    PROVE  Moved(s, d, D)
<1>1. SUFFICES ASSUME NEW g \in Hooks \ D
               PROVE  /\ g \in Placed(d) <=> g \in Placed(s)
                      /\ g \in s.granted => g \in d.granted
                      /\ g \notin d.dropped => d.bytes[g] = s.bytes[g]
  BY DEF Moved
<1>2. /\ g \in Placed(q) <=> g \in Placed(s)
      /\ g \in s.granted => g \in q.granted
      /\ g \notin q.dropped => q.bytes[g] = s.bytes[g]
  BY DEF Moved
<1>3. Placed(d) = Placed(q)
  BY DEF Later, Placed
<1>4. QED
  BY <1>2, <1>3 DEF Later

\* The thread dispatches and leaves acquire with a slot or a rejection, or
\* stays in the queue.
LEMMA SettleStep ==
    ASSUME SchedulerInvariant, NEW h \in Hooks, NEW s, Sound(s, {}), Limits(s),
           Moved(sched, s, {h}), h \in Placed(s), s.granted \subseteq sched.granted,
           Settle(h, Dispatch(s))
    PROVE  /\ Sound(sched', {}) /\ Limits(sched') /\ Moved(sched, sched', {h})
           /\ sched' \in SchedType /\ Justified(sched, sched')
           /\ pc' \in [Hooks -> Places] /\ pc'[h] \in {"running", "idle", "waiting"}
           /\ \A g \in Hooks \ {h} : pc'[g] = pc[g]
           /\ HomeOf(h, pc'[h], sched')
           /\ left' \in [Hooks -> Nat] /\ age' \in [Hooks -> 0 .. AgeBoost]
           /\ cancelled' \subseteq Cancellable
           /\ h \in Queue(sched') => Exhausted(sched')
<1> DEFINE d == Dispatch(s)
           place == CASE h \in d.granted -> "running"
                      [] h \in d.dropped -> "idle"
                      [] OTHER -> "waiting"
<1>1. Sound(d, {}) /\ Limits(d) /\ Later(s, d) /\ Justified(s, d) /\ Exhausted(d)
  BY DispatchKeeps
<1>2. /\ sched' = [d EXCEPT !.dropped = @ \ {h}]
      /\ At(h, place)
      /\ IF h \in d.granted \cup d.dropped THEN Forget(h) ELSE UNCHANGED <<left, age, cancelled>>
  BY DEF Settle
<1> HIDE DEF d
<1>3. d \in SchedType /\ d.dropped \in SUBSET Hooks /\ d.granted \cap d.dropped = {}
  BY <1>1, SchedFields DEF Sound, Apart
<1>4. /\ sched' \in SchedType /\ sched'.line = d.line /\ sched'.rota = d.rota
      /\ sched'.queued = d.queued /\ sched'.active = d.active
      /\ sched'.retained = d.retained /\ sched'.bytes = d.bytes
      /\ sched'.limit = d.limit /\ sched'.granted = d.granted
      /\ sched'.dropped = d.dropped \ {h}
  <2> DEFINE q == [d EXCEPT !.dropped = @ \ {h}]
  <2>1. /\ q \in SchedType /\ q.line = d.line /\ q.rota = d.rota
        /\ q.queued = d.queued /\ q.active = d.active
        /\ q.retained = d.retained /\ q.bytes = d.bytes
        /\ q.limit = d.limit /\ q.granted = d.granted
        /\ q.dropped = d.dropped \ {h}
    BY <1>3 DEF SchedType
  <2> HIDE DEF q
  <2>2. sched' = q
    BY <1>2 DEF q
  <2>3. QED
    BY <2>1, <2>2
<1>5. Sound(sched', {}) /\ Queue(sched') = Queue(d)
  <2>1. sched'.dropped \cap (Queue(d) \cup {} \cup d.granted) = {}
    BY <1>1, <1>4 DEF Sound, Apart
  <2>2. \A g \in sched'.dropped : sched'.bytes[g] = 0
    BY <1>1, <1>4 DEF Sound
  <2>3. \A lane \in ToSet(Lanes) : IsInjective(sched'.rota[lane])
                                   /\ ToSet(sched'.rota[lane]) = ToSet(d.rota[lane])
    BY <1>1, <1>4 DEF Sound, Rotation
  <2>4. QED
    BY <1>1, <1>4, <2>1, <2>2, <2>3, RecastSound
<1>6. Limits(sched')
  BY <1>1, <1>4 DEF Limits
<1>7. Moved(sched, sched', {h})
  <2>1. Moved(sched, d, {h})
    BY <1>1, DispatchMoves
  <2>2. \A g \in Hooks \ {h} : /\ g \in Placed(sched') <=> g \in Placed(d)
                               /\ g \in sched'.dropped <=> g \in d.dropped
    BY <1>4, <1>5 DEF Placed
  <2>3. QED
    BY <1>4, <2>1, <2>2 DEF Moved
<1>8. Justified(sched, sched')
  <2>1. \A c : HasCompetingClient(sched', c) <=> HasCompetingClient(d, c)
    BY <1>4 DEF HasCompetingClient
  <2>2. QED
    BY <1>1, <1>4, <2>1 DEF Justified
<1>9. h \in Placed(d)
  BY <1>1 DEF Later, Placed
<1>10. place \in {"running", "idle", "waiting"}
  OBVIOUS
<1>11. HomeOf(h, place, sched')
  <2>1. CASE h \in d.granted
    <3>1. place = "running"
      BY <1>3, <2>1
    <3>2. QED
      BY <1>4, <2>1, <3>1 DEF HomeOf
  <2>2. CASE h \notin d.granted /\ h \in d.dropped
    <3>1. place = "idle"
      BY <2>2
    <3>2. h \notin Queue(d) /\ d.bytes[h] = 0
      BY <1>1, <2>2 DEF Sound, Apart
    <3>3. QED
      BY <1>4, <1>5, <2>2, <3>1, <3>2 DEF HomeOf, Placed
  <2>3. CASE h \notin d.granted /\ h \notin d.dropped
    <3>1. place = "waiting"
      BY <2>3
    <3>2. h \in Queue(d)
      BY <1>9, <2>3 DEF Placed
    <3>3. QED
      BY <1>5, <3>1, <3>2 DEF HomeOf, Placed
  <2>4. QED
    BY <2>1, <2>2, <2>3
<1> HIDE DEF place
<1>12. place \in Places
  BY <1>10 DEF Places, Waiting
<1>13. /\ pc' \in [Hooks -> Places] /\ pc'[h] = place
       /\ \A g \in Hooks \ {h} : pc'[g] = pc[g]
  BY <1>2, <1>12, AtFacts
<1>14. /\ left' \in [Hooks -> Nat] /\ age' \in [Hooks -> 0 .. AgeBoost]
       /\ cancelled' \subseteq Cancellable
  BY <1>2, ForgetTypes, Types
<1>15. ASSUME h \in Queue(sched') PROVE Exhausted(sched')
  <2>1. sched'.dropped = d.dropped
    BY <1>1, <1>4, <1>5, <1>15 DEF Sound, Apart
  <2>2. \A g : Eligible(sched', g) <=> Eligible(d, g)
    BY <1>4 DEF Eligible, HasCompetingClient
  <2>3. QED
    BY <1>1, <1>4, <1>5, <2>1, <2>2 DEF Exhausted, AllBarren, Full
<1>16. QED
  BY <1>4, <1>5, <1>6, <1>7, <1>8, <1>10, <1>11, <1>13, <1>14, <1>15

\* acquire enqueues, expires, dispatches, and admits, rejects or waits.
LEMMA AcquireStep ==
    ASSUME SchedulerInvariant, NEW h \in Hooks, Acquire(h)
    PROVE  /\ SchedulerInvariant' /\ Justified(sched, sched')
           /\ h \in Queue(sched') => Exhausted(sched')
<1> DEFINE owned == IF h \notin Bare THEN sched
                    ELSE [sched EXCEPT !.retained = @ + PayloadOf[h], !.bytes[h] = PayloadOf[h]]
           q == Enqueue(owned, h)
<1>1. /\ pc[h] = IF h \in Bare THEN "arrived" ELSE "reserved"
      /\ ~Refused(h) /\ Settle(h, Dispatch(q)) /\ NotifyAll(h) /\ UNCHANGED <<want, estimate>>
  BY DEF Acquire
<1>2. /\ sched \in SchedType /\ Sound(sched, {}) /\ Limits(sched)
      /\ h \notin Placed(sched) /\ (h \in Bare => sched.bytes[h] = 0)
      /\ sched.bytes \in [Hooks -> Nat] /\ sched.retained \in Nat
  BY <1>1, Types DEF Homes, HomeOf
<1>3. /\ Sound(owned, {}) /\ Placed(owned) = Placed(sched)
      /\ Queue(owned) = Queue(sched) /\ owned.queued = sched.queued
      /\ owned.granted = sched.granted /\ owned.dropped = sched.dropped
      /\ owned.active = sched.active
      /\ owned.retained <= RetainedLimit
      /\ \A g \in Hooks \ {h} : owned.bytes[g] = sched.bytes[g]
  <2>1. CASE h \notin Bare
    BY <1>2, <2>1 DEF Limits
  <2>2. CASE h \in Bare
    <3> DEFINE n == PayloadOf[h]
               r == WithBytes(sched, h, n)
    <3>1. n \in Nat /\ sched.bytes[h] = 0 /\ h \notin sched.dropped
      BY <1>2, <2>2, HookConstants DEF Placed
    <3>2. /\ Sound(r, {})
          /\ Queue(r) = Queue(sched) /\ r.queued = sched.queued
          /\ r.granted = sched.granted /\ r.dropped = sched.dropped
          /\ r.active = sched.active
          /\ r.bytes = [sched.bytes EXCEPT ![h] = n]
          /\ r.retained = sched.retained + n - sched.bytes[h]
      BY <1>2, <3>1, BytesSound
    <3>3. owned = r
      <4>1. sched.retained + n - sched.bytes[h] = sched.retained + n
        BY <1>2, <3>1
      <4>2. QED
        BY <2>2, <4>1 DEF WithBytes
    <3>4. Fits(h, n)
      BY <1>1, <2>2 DEF Refused
    <3> HIDE DEF r, owned, n
    <3>5. owned.retained <= RetainedLimit
      BY <3>2, <3>3, <3>4 DEF Fits
    <3>6. Placed(owned) = Placed(sched)
      BY <3>2, <3>3 DEF Placed
    <3>7. \A g \in Hooks \ {h} : owned.bytes[g] = sched.bytes[g]
      BY <1>2, <3>2, <3>3
    <3>8. QED
      BY <3>2, <3>3, <3>5, <3>6, <3>7
  <2>3. QED
    BY <2>1, <2>2
<1> HIDE DEF owned
<1>4. /\ Sound(q, {})
      /\ Queue(q) = Queue(owned) \cup {h}
      /\ q.granted = owned.granted /\ q.dropped = owned.dropped
      /\ q.active = owned.active /\ q.bytes = owned.bytes /\ q.retained = owned.retained
      /\ q.queued = Charge(owned.queued, h, 1)
  <2>1. h \notin Queue(owned) \cup owned.granted \cup owned.dropped
    BY <1>2, <1>3 DEF Placed
  <2>2. QED
    BY <1>3, <2>1, EnqueueSound
<1> HIDE DEF q
<1>5. Limits(q)
  <2>1. \A o \in AllOwners : q.queued[o] = IF o \in Owners(h) THEN sched.queued[o] + 1
                                           ELSE sched.queued[o]
    BY <1>3, <1>4 DEF Charge
  <2>2. /\ sched.queued["all"] < QueuedLimit
        /\ sched.queued[HarnessOf[h]] < PerHarnessQueued
        /\ sched.queued[ClientOf[h]] < PerClientQueued
        /\ QueuedLimit \in Nat /\ PerHarnessQueued \in Nat /\ PerClientQueued \in Nat
        /\ \A o \in AllOwners : sched.queued[o] \in Nat
        /\ "all" \in AllOwners /\ "all" \in Owners(h)
    <3>1. \A o \in AllOwners : sched.queued[o] \in Nat
      BY <1>2, SchedFields
    <3>2. /\ "all" \in AllOwners /\ HarnessOf[h] \in AllOwners /\ ClientOf[h] \in AllOwners
          /\ "all" \in Owners(h)
      BY OwnersCounted
    <3>3. QueuedLimit \in Nat /\ PerHarnessQueued \in Nat /\ PerClientQueued \in Nat
      BY HookConstants
    <3>4. /\ ~(sched.queued["all"] >= QueuedLimit)
          /\ ~(sched.queued[HarnessOf[h]] >= PerHarnessQueued)
          /\ ~(sched.queued[ClientOf[h]] >= PerClientQueued)
      BY <1>1 DEF Refused
    <3>5. QED
      BY <3>1, <3>2, <3>3, <3>4
  <2>3. q.queued["all"] <= QueuedLimit
    BY <2>1, <2>2
  <2>4. ASSUME NEW g \in Hooks
        PROVE  q.queued[HarnessOf[g]] <= PerHarnessQueued /\ q.queued[ClientOf[g]] <= PerClientQueued
    <3>1. /\ HarnessOf[g] \in AllOwners /\ ClientOf[g] \in AllOwners
          /\ HarnessOf[g] \in Owners(h) <=> HarnessOf[g] = HarnessOf[h]
          /\ ClientOf[g] \in Owners(h) <=> ClientOf[g] = ClientOf[h]
      BY OwnersCounted
    <3>2. /\ sched.queued[HarnessOf[g]] <= PerHarnessQueued
          /\ sched.queued[ClientOf[g]] <= PerClientQueued
      BY <1>2 DEF Limits
    <3>3. QED
      BY <2>1, <2>2, <3>1, <3>2
  <2>5. QED
    BY <1>2, <1>3, <1>4, <2>3, <2>4 DEF Limits
<1>6. Placed(q) = Placed(sched) \cup {h}
  BY <1>3, <1>4 DEF Placed
<1>7. Moved(sched, q, {h}) /\ h \in Placed(q) /\ q.granted \subseteq sched.granted
  BY <1>3, <1>4, <1>6 DEF Moved
<1>8. /\ Sound(sched', {}) /\ Limits(sched') /\ Moved(sched, sched', {h})
      /\ sched' \in SchedType /\ Justified(sched, sched')
      /\ pc' \in [Hooks -> Places] /\ pc'[h] \in {"running", "idle", "waiting"}
      /\ \A g \in Hooks \ {h} : pc'[g] = pc[g]
      /\ HomeOf(h, pc'[h], sched')
      /\ left' \in [Hooks -> Nat] /\ age' \in [Hooks -> 0 .. AgeBoost]
      /\ cancelled' \subseteq Cancellable
      /\ h \in Queue(sched') => Exhausted(sched')
  BY <1>1, <1>4, <1>5, <1>7, SettleStep
<1>9. woken' \subseteq Hooks /\ \A g \in Hooks \ {h} : pc[g] \in Waiting => g \in woken'
  BY <1>1, NotifyFacts
<1>10. TypeOK'
  BY <1>1, <1>8, <1>9, Types DEF TypeOK
<1>11. ByteWait(h, pc'[h], sched', want', woken')
  BY <1>8 DEF ByteWait
<1>12. QED
  BY <1>1, <1>8, <1>9, <1>10, <1>11, ThreadKeeps


\* A waiting thread wakes: it was granted, dropped, or it expires and
\* dispatches again.
LEMMA WakeQueuedStep ==
    ASSUME SchedulerInvariant, NEW h \in Hooks, WakeQueued(h)
    PROVE  /\ SchedulerInvariant' /\ Justified(sched, sched')
           /\ h \in Queue(sched') => Exhausted(sched')
<1> USE DEF WakeQueued
<1>1. Sound(sched, {}) /\ Limits(sched) /\ h \in Placed(sched)
  BY Types DEF Homes, HomeOf
<1>2. Moved(sched, sched, {h}) /\ sched.granted \subseteq sched.granted
  BY DEF Moved
<1>3. /\ Sound(sched', {}) /\ Limits(sched') /\ Moved(sched, sched', {h})
      /\ sched' \in SchedType /\ Justified(sched, sched')
      /\ pc' \in [Hooks -> Places] /\ pc'[h] \in {"running", "idle", "waiting"}
      /\ \A g \in Hooks \ {h} : pc'[g] = pc[g]
      /\ HomeOf(h, pc'[h], sched')
      /\ left' \in [Hooks -> Nat] /\ age' \in [Hooks -> 0 .. AgeBoost]
      /\ cancelled' \subseteq Cancellable
      /\ h \in Queue(sched') => Exhausted(sched')
  BY <1>1, <1>2, SettleStep
<1>4. woken' \subseteq Hooks /\ \A g \in Hooks \ {h} : pc[g] \in Waiting => g \in woken'
  BY NotifyFacts
<1>5. TypeOK'
  BY <1>3, <1>4, Types DEF TypeOK
<1>6. ByteWait(h, pc'[h], sched', want', woken')
  BY <1>3 DEF ByteWait
<1>7. QED
  BY <1>3, <1>4, <1>5, <1>6, ThreadKeeps

\* A queued request leaves by itself.
LEMMA DropStep ==
    ASSUME SchedulerInvariant, NEW h \in Hooks, Contains(sched.line, h),
           sched' = DropQueued(sched, h)
    PROVE  /\ Sound(sched', {}) /\ Limits(sched') /\ Moved(sched, sched', {h})
           /\ sched' \in SchedType /\ Justified(sched, sched')
           /\ h \notin Placed(sched') /\ sched'.bytes[h] = 0
<1>1. /\ sched \in SchedType /\ Sound(sched, {}) /\ Limits(sched)
      /\ sched.bytes \in [Hooks -> Nat] /\ sched.retained \in Nat /\ RetainedLimit \in Nat
      /\ \A o \in AllOwners : sched.queued[o] \in Nat
  BY Types, SchedFields
<1>2. h \in Queue(sched)
  BY <1>1, ContainsQueue
<1>3. /\ Sound(sched', {})
      /\ Queue(sched') = Queue(sched) \ {h}
      /\ sched'.bytes = [sched.bytes EXCEPT ![h] = 0]
      /\ sched'.granted = sched.granted /\ sched'.dropped = sched.dropped
  <2> DEFINE q == DropQueued(sched, h)
  <2>1. /\ Sound(q, {})
        /\ Queue(q) = Queue(sched) \ {h}
        /\ q.bytes = [sched.bytes EXCEPT ![h] = 0]
        /\ q.granted = sched.granted /\ q.dropped = sched.dropped
    BY <1>1, <1>2, DropSound
  <2>2. sched' = q
    OBVIOUS
  <2> HIDE DEF q
  <2>3. QED
    BY <2>1, <2>2
<1>4. sched' \in SchedType
  BY <1>3 DEF Sound
<1>5. /\ sched'.retained <= sched.retained /\ sched'.retained \in Nat
      /\ sched'.active = sched.active
      /\ \A o \in AllOwners : sched'.queued[o] \in Nat /\ sched'.queued[o] <= sched.queued[o]
  <2>1. sched'.retained = Held(sched'.bytes) /\ sched.retained = Held(sched.bytes)
        /\ sched'.active = sched.active
    BY <1>1, <1>3 DEF Sound
  <2>2. /\ sched'.bytes \in [Hooks -> Nat] /\ sched'.retained \in Nat
        /\ \A o \in AllOwners : sched'.queued[o] \in Nat
    BY <1>4, SchedFields
  <2>3. \A g \in Hooks : sched'.bytes[g] <= sched.bytes[g]
    BY <1>1, <1>3
  <2>4. sched'.retained <= sched.retained
    BY <1>1, <2>1, <2>2, <2>3, HeldMonotone
  <2>5. ASSUME NEW o \in AllOwners PROVE sched'.queued[o] <= sched.queued[o]
    <3>1. Queue(sched) \cup {} = Queue(sched) /\ Queue(sched') \cup {} = Queue(sched')
      OBVIOUS
    <3>2. sched.queued[o] = Count(Queue(sched), o) /\ sched'.queued[o] = Count(Queue(sched'), o)
      BY <1>1, <1>3, <3>1 DEF Sound, Counts
    <3>3. Queue(sched) \in SUBSET Hooks /\ Queue(sched') \in SUBSET Queue(sched)
      BY <1>1, <1>3, SchedFields
    <3>4. QED
      BY <3>2, <3>3, CountMonotone
  <2>6. QED
    BY <2>1, <2>2, <2>4, <2>5
<1>6. Limits(sched')
  <2>1. QueuedLimit \in Nat /\ PerHarnessQueued \in Nat /\ PerClientQueued \in Nat
    BY HookConstants
  <2>2. \A g \in Hooks : /\ "all" \in AllOwners /\ HarnessOf[g] \in AllOwners
                         /\ ClientOf[g] \in AllOwners
    BY OwnersCounted
  <2>3. sched'.retained <= RetainedLimit
    BY <1>1, <1>5 DEF Limits
  <2>4. sched'.queued["all"] <= QueuedLimit
    BY <1>1, <1>5, <2>1, <2>2 DEF Limits
  <2>5. ASSUME NEW g \in Hooks
        PROVE  /\ sched'.queued[HarnessOf[g]] <= PerHarnessQueued
               /\ sched'.queued[ClientOf[g]] <= PerClientQueued
               /\ sched'.active[HarnessOf[g]] <= PerHarnessActive
    <3>1. /\ sched.queued[HarnessOf[g]] <= PerHarnessQueued
          /\ sched.queued[ClientOf[g]] <= PerClientQueued
          /\ sched.active[HarnessOf[g]] <= PerHarnessActive
      BY <1>1 DEF Limits
    <3>2. QED
      BY <1>1, <1>5, <2>1, <2>2, <3>1
  <2>6. QED
    BY <2>3, <2>4, <2>5 DEF Limits
<1>7. h \notin sched.granted /\ h \notin sched.dropped
  BY <1>1, <1>2 DEF Sound, Apart
<1>8. h \notin Placed(sched') /\ sched'.bytes[h] = 0 /\ Moved(sched, sched', {h})
  BY <1>1, <1>3, <1>7 DEF Placed, Moved
<1>9. Justified(sched, sched')
  BY <1>3, NothingAdmitted
<1>10. QED
  BY <1>3, <1>4, <1>6, <1>8, <1>9

\* A slot and its bytes are given back and the queue is served again.
LEMMA FreeStep ==
    ASSUME SchedulerInvariant, NEW h \in sched.granted, sched' = Dispatch(FreeSlot(sched, h))
    PROVE  /\ Sound(sched', {}) /\ Limits(sched') /\ Moved(sched, sched', {h})
           /\ sched' \in SchedType /\ Justified(sched, sched')
           /\ h \in Hooks /\ h \notin Placed(sched') /\ sched'.bytes[h] = 0
<1> DEFINE q == FreeSlot(sched, h)
           d == Dispatch(q)
<1>1. /\ sched \in SchedType /\ Sound(sched, {}) /\ Limits(sched)
      /\ sched.bytes \in [Hooks -> Nat] /\ sched.retained \in Nat /\ RetainedLimit \in Nat
      /\ sched.granted \in SUBSET Hooks /\ h \in Hooks
      /\ \A o \in AllOwners : sched.active[o] \in Nat
  BY Types, SchedFields
<1>2. /\ Sound(q, {})
      /\ Queue(q) = Queue(sched)
      /\ q.granted = sched.granted \ {h} /\ q.dropped = sched.dropped
      /\ q.bytes = [sched.bytes EXCEPT ![h] = 0]
  BY <1>1, FreeSound
<1> HIDE DEF q
<1>3. /\ q \in SchedType /\ q.bytes \in [Hooks -> Nat] /\ q.retained \in Nat
      /\ \A o \in AllOwners : q.active[o] \in Nat
      /\ \A g \in Hooks : q.bytes[g] <= sched.bytes[g]
  <2>1. q \in SchedType
    BY <1>2 DEF Sound
  <2>2. QED
    BY <1>1, <1>2, <2>1, SchedFields
<1>4. Limits(q)
  <2>1. /\ q.retained = Held(q.bytes) /\ sched.retained = Held(sched.bytes)
        /\ q.queued = sched.queued
        /\ q.active = Counts(q.granted) /\ sched.active = Counts(sched.granted)
    BY <1>1, <1>2 DEF Sound
  <2>2. q.retained <= sched.retained
    BY <1>1, <1>3, <2>1, HeldMonotone
  <2>3. ASSUME NEW o \in AllOwners PROVE q.active[o] <= sched.active[o]
    <3>1. q.active[o] = Count(q.granted, o) /\ sched.active[o] = Count(sched.granted, o)
      BY <2>1 DEF Counts
    <3>2. q.granted \in SUBSET sched.granted
      BY <1>2
    <3>3. QED
      BY <1>1, <3>1, <3>2, CountMonotone
  <2>4. PerHarnessActive \in Nat /\ \A g \in Hooks : HarnessOf[g] \in AllOwners
    BY HookConstants, OwnersCounted
  <2>5. q.retained <= RetainedLimit
    BY <1>1, <1>3, <2>2 DEF Limits
  <2>6. ASSUME NEW g \in Hooks PROVE q.active[HarnessOf[g]] <= PerHarnessActive
    <3>1. sched.active[HarnessOf[g]] <= PerHarnessActive
      BY <1>1 DEF Limits
    <3>2. QED
      BY <1>1, <1>3, <2>3, <2>4, <3>1
  <2>7. QED
    BY <1>1, <2>1, <2>5, <2>6 DEF Limits
<1>5. h \notin Queue(sched) /\ h \notin sched.dropped
  BY <1>1 DEF Sound, Apart
<1>6. h \notin Placed(q) /\ q.bytes[h] = 0 /\ Moved(sched, q, {h})
  BY <1>1, <1>2, <1>5 DEF Placed, Moved
<1>7. Sound(d, {}) /\ Limits(d) /\ Later(q, d) /\ Justified(q, d)
  BY <1>2, <1>4, DispatchKeeps
<1>8. sched' = d
  BY DEF q
<1> HIDE DEF d
<1>9. Moved(sched, d, {h})
  BY <1>6, <1>7, DispatchMoves
<1>10. Placed(d) = Placed(q)
  BY <1>7 DEF Later, Placed
<1>11. h \notin Placed(d) /\ d.bytes[h] = 0
  BY <1>1, <1>6, <1>7, <1>10 DEF Later, Placed
<1>12. Justified(sched, d)
  BY <1>2, <1>7, <1>11 DEF Justified, Placed
<1>13. d \in SchedType
  BY <1>7 DEF Sound
<1>14. QED
  BY <1>1, <1>7, <1>8, <1>9, <1>11, <1>12, <1>13

\* The thread is done: what is left to show.
LEMMA LeaveKeeps ==
    ASSUME SchedulerInvariant, NEW h \in Hooks,
           Sound(sched', {}), Limits(sched'), Moved(sched, sched', {h}), sched' \in SchedType,
           h \notin Placed(sched'), sched'.bytes[h] = 0,
           \/ NotifyAll(h)
           \/ sched'.retained = sched.retained /\ woken' = woken \ {h},
           At(h, "idle"), Forget(h) \/ UNCHANGED <<left, age, cancelled>>,
           UNCHANGED <<want, estimate>>
    PROVE  SchedulerInvariant'
<1>1. /\ pc' \in [Hooks -> Places] /\ pc'[h] = "idle"
      /\ \A g \in Hooks \ {h} : pc'[g] = pc[g]
  BY AtFacts DEF Places
<1>2. /\ left' \in [Hooks -> Nat] /\ age' \in [Hooks -> 0 .. AgeBoost]
      /\ cancelled' \subseteq Cancellable
  BY ForgetTypes, Types
<1>3. HomeOf(h, pc'[h], sched') /\ ByteWait(h, pc'[h], sched', want', woken')
  BY <1>1 DEF HomeOf, ByteWait
<1>4. CASE NotifyAll(h)
  <2>1. woken' \subseteq Hooks /\ \A g \in Hooks \ {h} : pc[g] \in Waiting => g \in woken'
    BY <1>4, NotifyFacts
  <2>2. TypeOK'
    BY <1>1, <1>2, <2>1, Types DEF TypeOK
  <2>3. QED
    BY <1>1, <1>3, <2>1, <2>2, ThreadKeeps
<1>5. CASE sched'.retained = sched.retained /\ woken' = woken \ {h}
  <2>1. /\ woken' \subseteq Hooks /\ \A g \in Hooks \ {h} : g \in woken => g \in woken'
        /\ sched.retained <= sched'.retained
    BY <1>5, Types
  <2>2. TypeOK'
    BY <1>1, <1>2, <2>1, Types DEF TypeOK
  <2>3. QED
    BY <1>1, <1>3, <2>1, <2>2, ThreadKeeps
<1>6. QED
  BY <1>4, <1>5

\* A thread that is late or cancelled takes its own request out of the queue.
LEMMA GiveUpStep ==
    ASSUME SchedulerInvariant, NEW h \in Hooks, GiveUp(h)
    PROVE  SchedulerInvariant' /\ Justified(sched, sched')
<1> USE DEF GiveUp
<1>1. /\ Sound(sched', {}) /\ Limits(sched') /\ Moved(sched, sched', {h})
      /\ sched' \in SchedType /\ Justified(sched, sched')
      /\ h \notin Placed(sched') /\ sched'.bytes[h] = 0
  BY DropStep
<1>2. QED
  BY <1>1, LeaveKeeps

\* A permit's release frees the slot and the bytes and dispatches.
LEMMA ReleasePermitStep ==
    ASSUME SchedulerInvariant, NEW h \in Hooks, ReleasePermit(h)
    PROVE  SchedulerInvariant' /\ Justified(sched, sched')
<1> USE DEF ReleasePermit
<1>1. h \in sched.granted
  BY Types DEF Homes, HomeOf
<1>2. /\ Sound(sched', {}) /\ Limits(sched') /\ Moved(sched, sched', {h})
      /\ sched' \in SchedType /\ Justified(sched, sched')
      /\ h \notin Placed(sched') /\ sched'.bytes[h] = 0
  BY <1>1, FreeStep
<1>3. QED
  BY <1>2, LeaveKeeps

\* An interrupted thread leaves nothing behind in the scheduler.
LEMMA InterruptedStep ==
    ASSUME SchedulerInvariant, NEW h \in Hooks, Interrupted(h)
    PROVE  SchedulerInvariant' /\ Justified(sched, sched')
<1> USE DEF Interrupted
<1>1. sched \in SchedType /\ Sound(sched, {}) /\ Limits(sched) /\ sched.dropped \in SUBSET Hooks
  BY Types, SchedFields
<1>2. CASE h \in sched.granted /\ sched' = Dispatch(FreeSlot(sched, h))
  <2>1. /\ Sound(sched', {}) /\ Limits(sched') /\ Moved(sched, sched', {h})
        /\ sched' \in SchedType /\ Justified(sched, sched')
        /\ h \notin Placed(sched') /\ sched'.bytes[h] = 0
    BY <1>2, FreeStep
  <2>2. h \notin sched.dropped
    BY <1>1, <1>2 DEF Sound, Apart
  <2>3. QED
    BY <2>1, <2>2, LeaveKeeps
<1>3. CASE Contains(sched.line, h) /\ sched' = DropQueued(sched, h)
  <2>1. /\ Sound(sched', {}) /\ Limits(sched') /\ Moved(sched, sched', {h})
        /\ sched' \in SchedType /\ Justified(sched, sched')
        /\ h \notin Placed(sched') /\ sched'.bytes[h] = 0
    BY <1>3, DropStep
  <2>2. h \notin sched.dropped
    BY <1>1, <1>3, ContainsQueue DEF Sound, Apart
  <2>3. QED
    BY <2>1, <2>2, LeaveKeeps
<1>4. CASE h \in sched.dropped /\ sched' = [sched EXCEPT !.dropped = @ \ {h}]
  <2> DEFINE q == [sched EXCEPT !.dropped = @ \ {h}]
  <2>1. /\ q \in SchedType /\ q.line = sched.line /\ q.rota = sched.rota
        /\ q.queued = sched.queued /\ q.active = sched.active
        /\ q.retained = sched.retained /\ q.bytes = sched.bytes
        /\ q.limit = sched.limit /\ q.granted = sched.granted
        /\ q.dropped = sched.dropped \ {h}
    BY <1>1 DEF SchedType
  <2>2. sched' = q
    BY <1>4
  <2> HIDE DEF q
  <2>3. Sound(q, {}) /\ Queue(q) = Queue(sched)
    <3>1. q.dropped \cap (Queue(sched) \cup {} \cup sched.granted) = {}
      BY <1>1, <2>1 DEF Sound, Apart
    <3>2. \A g \in q.dropped : q.bytes[g] = 0
      BY <1>1, <2>1 DEF Sound
    <3>3. \A lane \in ToSet(Lanes) : IsInjective(q.rota[lane])
                                     /\ ToSet(q.rota[lane]) = ToSet(sched.rota[lane])
      BY <1>1, <2>1 DEF Sound, Rotation
    <3>4. QED
      BY <1>1, <2>1, <3>1, <3>2, <3>3, RecastSound
  <2>4. h \notin Queue(sched) /\ h \notin sched.granted /\ sched.bytes[h] = 0
    BY <1>1, <1>4 DEF Sound, Apart
  <2>5. h \notin Placed(q) /\ Moved(sched, q, {h})
    BY <2>1, <2>3, <2>4 DEF Placed, Moved
  <2>6. Limits(q)
    BY <1>1, <2>1 DEF Limits
  <2>7. Justified(sched, sched')
    BY <2>1, <2>2, NothingAdmitted
  <2>8. QED
    BY <1>4, <2>1, <2>2, <2>3, <2>4, <2>5, <2>6, <2>7, LeaveKeeps
<1>5. QED
  BY <1>2, <1>3, <1>4

\* A new limit may admit more, never evicts.
LEMMA SetActiveLimitStep ==
    ASSUME SchedulerInvariant, NEW n \in ActiveLimits, SetActiveLimit(n)
    PROVE  SchedulerInvariant' /\ Justified(sched, sched')
<1> DEFINE q == [sched EXCEPT !.limit = n]
           d == Dispatch(q)
<1>1. sched \in SchedType /\ Sound(sched, {}) /\ Limits(sched)
  BY Types
<1>2. /\ q \in SchedType /\ q.line = sched.line /\ q.rota = sched.rota
      /\ q.queued = sched.queued /\ q.active = sched.active
      /\ q.retained = sched.retained /\ q.bytes = sched.bytes
      /\ q.granted = sched.granted /\ q.dropped = sched.dropped
  BY <1>1 DEF SchedType
<1>3. sched' = d /\ woken' = {g \in Hooks : pc[g] \in Waiting}
      /\ UNCHANGED <<pc, want, left, age, cancelled, estimate>>
  BY DEF SetActiveLimit
<1> HIDE DEF q
<1>4. Sound(q, {}) /\ Queue(q) = Queue(sched)
  <2>1. q.dropped \cap (Queue(sched) \cup {} \cup sched.granted) = {}
    BY <1>1, <1>2 DEF Sound, Apart
  <2>2. \A g \in q.dropped : q.bytes[g] = 0
    BY <1>1, <1>2 DEF Sound
  <2>3. \A lane \in ToSet(Lanes) : IsInjective(q.rota[lane])
                                   /\ ToSet(q.rota[lane]) = ToSet(sched.rota[lane])
    BY <1>1, <1>2 DEF Sound, Rotation
  <2>4. QED
    BY <1>1, <1>2, <2>1, <2>2, <2>3, RecastSound
<1>5. Limits(q)
  BY <1>1, <1>2 DEF Limits
<1>6. Sound(d, {}) /\ Limits(d) /\ Later(q, d) /\ Justified(q, d)
  BY <1>4, <1>5, DispatchKeeps
<1> HIDE DEF d
<1>7. Placed(q) = Placed(sched)
  BY <1>2, <1>4 DEF Placed
<1>8. Moved(sched, q, {})
  BY <1>2, <1>7 DEF Moved
<1>9. Moved(sched, d, {})
  BY <1>6, <1>8, DispatchMoves
<1>10. Justified(sched, d)
  BY <1>2, <1>6 DEF Justified
<1>11. TypeOK'
  <2>1. sched' \in SchedType
    BY <1>3, <1>6 DEF Sound
  <2>2. QED
    BY <1>3, <2>1, Types DEF TypeOK
<1>12. SchedulerInvariant'
  <2>1. \A g \in Hooks \ {} : pc'[g] = pc[g] /\ want'[g] = want[g]
    BY <1>3
  <2>2. \A g \in Hooks \ {} : pc[g] \in Waiting => g \in woken'
    BY <1>3
  <2>3. \A h \in {} : HomeOf(h, pc'[h], sched') /\ ByteWait(h, pc'[h], sched', want', woken')
    OBVIOUS
  <2>4. {} \in SUBSET Hooks
    OBVIOUS
  <2>5. QED
    BY <1>3, <1>6, <1>9, <1>11, <2>1, <2>2, <2>3, <2>4, StepKeeps
<1>13. QED
  BY <1>3, <1>10, <1>12


\* Time, cancellations and new predictions touch neither the scheduler nor the
\* threads.
LEMMA OutsideKeeps ==
    ASSUME SchedulerInvariant, UNCHANGED <<pc, sched, want, woken>>,
           left' \in [Hooks -> Nat], age' \in [Hooks -> 0 .. AgeBoost],
           cancelled' \subseteq Cancellable, estimate' \in [UsedLanes -> Estimates]
    PROVE  SchedulerInvariant' /\ Justified(sched, sched')
<1>1. TypeOK'
  BY Types DEF TypeOK
<1>2. Justified(sched, sched')
  BY NothingAdmitted
<1>3. QED
  BY <1>1, <1>2 DEF SchedulerInvariant

\* Setting a cancellation event changes nothing the scheduler holds.
LEMMA CancelStep ==
    ASSUME SchedulerInvariant, NEW h \in Hooks, Cancel(h)
    PROVE  SchedulerInvariant' /\ Justified(sched, sched')
<1>1. cancelled' \subseteq Cancellable
  BY Types DEF Cancel
<1>2. QED
  BY <1>1, Types, OutsideKeeps DEF Cancel

\* A new prediction changes nothing the scheduler holds.
LEMMA ReestimateStep ==
    ASSUME SchedulerInvariant, NEW lane \in UsedLanes, Reestimate(lane)
    PROVE  SchedulerInvariant' /\ Justified(sched, sched')
<1>1. estimate' \in [UsedLanes -> Estimates]
  BY Types DEF Reestimate
<1>2. QED
  BY <1>1, Types, OutsideKeeps DEF Reestimate

\* The clock moves deadlines and ages only.
LEMMA TickStep ==
    ASSUME SchedulerInvariant, Tick
    PROVE  SchedulerInvariant' /\ Justified(sched, sched')
<1>1. /\ left \in [Hooks -> Nat] /\ age \in [Hooks -> 0 .. AgeBoost] /\ AgeBoost \in Nat
  BY Types
<1>2. left' \in [Hooks -> Nat]
  BY <1>1 DEF Tick
<1>3. age' \in [Hooks -> 0 .. AgeBoost]
  <2>1. \A h \in Hooks : (IF Contains(sched.line, h) /\ age[h] < AgeBoost
                          THEN age[h] + 1 ELSE age[h]) \in 0 .. AgeBoost
    BY <1>1
  <2>2. QED
    BY <2>1 DEF Tick
<1>4. QED
  BY <1>2, <1>3, Types, OutsideKeeps DEF Tick

----------------------------------------------------------------------------
(* The theorems.                                                           *)

\* An empty scheduler satisfies the invariant.
LEMMA InitHolds ==
    ASSUME Init
    PROVE  SchedulerInvariant
<1> DEFINE zero == [o \in AllOwners |-> 0]
           none == [lane \in ToSet(Lanes) |-> <<>>]
<1>1. /\ sched.line = <<>> /\ sched.rota = none
      /\ sched.deficit = [lane \in ToSet(Lanes) |-> 0] /\ sched.cursor = 0
      /\ sched.queued = zero /\ sched.active = zero
      /\ sched.retained = 0 /\ sched.bytes = [h \in Hooks |-> 0]
      /\ sched.limit \in ActiveLimits
      /\ sched.granted = {} /\ sched.dropped = {}
  BY DEF Init
<1>2. sched \in SchedType
  <2> DEFINE rest == [lane \in ToSet(Lanes) |-> 0]
             free == [h \in Hooks |-> 0]
  <2>1. <<>> \in Seq(Hooks) /\ <<>> \in Seq(Keys)
    BY EmptySeq
  <2>2. none \in [ToSet(Lanes) -> Seq(Keys)]
    BY <2>1
  <2>3. /\ rest \in [ToSet(Lanes) -> 0 .. 4]
        /\ zero \in [AllOwners -> Nat]
        /\ free \in [Hooks -> Nat]
        /\ 0 \in 0 .. 2 /\ 0 \in Nat
    OBVIOUS
  <2>4. sched \in [line : {<<>>}, rota : {none}, deficit : {rest}, cursor : {0},
                   queued : {zero}, active : {zero}, retained : {0}, bytes : {free},
                   limit : ActiveLimits, granted : {{}}, dropped : {{}}]
    BY DEF Init
  <2> HIDE DEF zero, none, rest, free
  <2>5. QED
    BY <2>1, <2>2, <2>3, <2>4 DEF SchedType
<1>3. TypeOK
  <2>1. AgeBoost \in Nat
    BY HookConstants
  <2>2. pc \in [Hooks -> Places] /\ age \in [Hooks -> 0 .. AgeBoost]
    BY <2>1 DEF Init, Places
  <2>3. QED
    BY <1>2, <2>2 DEF Init, TypeOK
<1>4. Queue(sched) = {}
  BY <1>1 DEF Queue, ToSet
<1>5. Counts({}) = zero
  <2>1. ASSUME NEW o PROVE Count({}, o) = 0
    <3>1. {h \in {} : o \in Owners(h)} = {}
      OBVIOUS
    <3>2. QED
      BY <3>1, FS_EmptySet DEF Count
  <2>2. QED
    BY <2>1 DEF Counts
<1>6. Held(sched.bytes) = 0
  <2>1. UNION {{h} \X (1 .. sched.bytes[h]) : h \in Hooks} = {}
    <3>1. \A h \in Hooks : 1 .. sched.bytes[h] = {}
      BY <1>1
    <3>2. QED
      BY <3>1
  <2>2. QED
    BY <2>1, FS_EmptySet DEF Held
<1>7. IsInjective(sched.line)
  BY <1>1 DEF IsInjective
<1>8. Rotation(sched)
  <2>1. SUFFICES ASSUME NEW lane \in ToSet(Lanes)
                 PROVE  /\ IsInjective(sched.rota[lane])
                        /\ ToSet(sched.rota[lane]) = {key \in Keys : Items(sched, lane, key) # {}}
    BY DEF Rotation
  <2>2. sched.rota[lane] = <<>>
    BY <1>1
  <2>3. ToSet(sched.rota[lane]) = {} /\ IsInjective(sched.rota[lane])
    BY <2>2 DEF ToSet, IsInjective
  <2>4. \A key \in Keys : Items(sched, lane, key) = {}
    BY <1>4 DEF Items, Queue
  <2>5. QED
    BY <2>3, <2>4
<1>9. Sound(sched, {})
  <2>1. Queue(sched) \cup {} = {}
    BY <1>4
  <2>2. Apart(sched, {})
    BY <1>1, <1>4 DEF Apart
  <2>3. QED
    BY <1>1, <1>2, <1>5, <1>6, <1>7, <1>8, <2>1, <2>2 DEF Sound
<1>10. Homes(pc, sched)
  BY <1>1, <1>4 DEF Init, Homes, HomeOf, Placed
<1>11. Limits(sched)
  <2>1. /\ RetainedLimit \in Nat /\ QueuedLimit \in Nat /\ PerHarnessQueued \in Nat
        /\ PerClientQueued \in Nat /\ PerHarnessActive \in Nat
    BY HookConstants
  <2>2. "all" \in AllOwners
    BY HookConstants, OwnersCounted
  <2>3. \A h \in Hooks : HarnessOf[h] \in AllOwners /\ ClientOf[h] \in AllOwners
    BY OwnersCounted
  <2>4. QED
    BY <1>1, <2>1, <2>2, <2>3 DEF Limits
<1>12. ByteWaits(pc, sched, want, woken)
  BY DEF Init, ByteWaits, ByteWait
<1>13. QED
  BY <1>3, <1>9, <1>10, <1>11, <1>12 DEF SchedulerInvariant

\* Every step keeps the invariant and grants only what is justified.
LEMMA NextHolds ==
    ASSUME SchedulerInvariant, Next
    PROVE  SchedulerInvariant' /\ Justified(sched, sched')
<1>1. CASE \E h \in Hooks : Thread(h) \/ Arrive(h) \/ ReserveBytes(h) \/ Interrupted(h) \/ Cancel(h)
  <2>1. PICK h \in Hooks : Thread(h) \/ Arrive(h) \/ ReserveBytes(h) \/ Interrupted(h) \/ Cancel(h)
    BY <1>1
  <2>2. CASE Thread(h)
    BY <2>2, WakeForBytesStep, AcquireRefusedStep, ReleaseReservationStep, AcquireStep,
       WakeQueuedStep, GiveUpStep, ReleasePermitStep DEF Thread
  <2>3. QED
    BY <2>1, <2>2, ArriveStep, ReserveBytesStep, InterruptedStep, CancelStep
<1>2. CASE \E h \in Hooks, n \in Sizes : Resize(h, n)
  BY <1>2, ResizeStep
<1>3. CASE \E n \in ActiveLimits : SetActiveLimit(n)
  BY <1>3, SetActiveLimitStep
<1>4. CASE \E lane \in UsedLanes : Reestimate(lane)
  BY <1>4, ReestimateStep
<1>5. CASE Tick
  BY <1>5, TickStep
<1>6. QED
  BY <1>1, <1>2, <1>3, <1>4, <1>5 DEF Next

\* The inductive invariant: a sound scheduler whose limits hold, threads that
\* own exactly what their place says, and byte waits that miss no wake-up.
THEOREM SchedulerInvariantHolds == Spec => []SchedulerInvariant
<1>1. Init => SchedulerInvariant
  BY InitHolds
<1>2. SchedulerInvariant /\ [Next]_vars => SchedulerInvariant'
  <2>1. ASSUME SchedulerInvariant, UNCHANGED vars PROVE SchedulerInvariant'
    BY <2>1 DEF SchedulerInvariant, TypeOK, vars
  <2>2. QED
    BY <2>1, NextHolds
<1>3. QED
  BY <1>1, <1>2, PTL DEF Spec

\* Every variable keeps its type; no counter is driven below zero.
THEOREM SchedulerTypeCorrect == Spec => []TypeOK
<1>1. SchedulerInvariant => TypeOK
  BY DEF SchedulerInvariant
<1>2. QED
  BY <1>1, SchedulerInvariantHolds, PTL

\* The counters of queued and active requests and of retained bytes equal what
\* they count, in every reachable state and for every set of requests.
THEOREM AccountedHolds == Spec => []Accounted
<1>1. SchedulerInvariant => Accounted
  <2>1. SUFFICES ASSUME SchedulerInvariant PROVE Accounted
    OBVIOUS
  <2>2. Sound(sched, {})
    BY <2>1, Types
  <2>3. Queue(sched) \cup {} = Queue(sched)
    OBVIOUS
  <2>4. \A o \in AllOwners : /\ sched.queued[o] = Count(Queue(sched), o)
                             /\ sched.active[o] = Count(sched.granted, o)
    BY <2>2, <2>3 DEF Sound, Counts
  <2>5. sched.retained = Held(sched.bytes)
    BY <2>2 DEF Sound
  <2>6. QED
    BY <2>4, <2>5 DEF Accounted, Count, Held, Queue
<1>2. QED
  BY <1>1, SchedulerInvariantHolds, PTL

\* No request is in two places, no thread waits for a request the scheduler
\* lost, nobody but an admitted request holds a slot, and an answered request
\* holds no bytes.
THEOREM NothingLeakedHolds == Spec => []NothingLeaked
<1>1. SchedulerInvariant => NothingLeaked
  <2>1. SUFFICES ASSUME SchedulerInvariant PROVE NothingLeaked
    OBVIOUS
  <2>2. sched \in SchedType /\ Sound(sched, {}) /\ Homes(pc, sched)
    BY <2>1, Types
  <2>3. \A h : Contains(sched.line, h) <=> h \in Queue(sched)
    BY <2>2, ContainsQueue
  <2>4. \A h \in Hooks :
           /\ ~(h \in Queue(sched) /\ h \in sched.granted)
           /\ ~(h \in Queue(sched) /\ h \in sched.dropped)
           /\ ~(h \in sched.granted /\ h \in sched.dropped)
           /\ h \in sched.dropped => sched.bytes[h] = 0
    BY <2>2 DEF Sound, Apart
  <2>5. \A h \in Hooks : HomeOf(h, pc[h], sched)
    BY <2>2 DEF Homes
  <2>6. QED
    BY <2>3, <2>4, <2>5 DEF NothingLeaked, HomeOf, Placed
<1>2. QED
  BY <1>1, SchedulerInvariantHolds, PTL

\* The limits on the queue, on payload bytes and on each harness's active
\* reviews hold in every reachable state.
THEOREM WithinLimitsHolds == Spec => []WithinLimits
<1>1. SchedulerInvariant => WithinLimits
  BY DEF SchedulerInvariant, Limits, WithinLimits
<1>2. QED
  BY <1>1, SchedulerInvariantHolds, PTL

\* Each lane's rotation names exactly the groups with queued requests, once.
THEOREM GroupsReachableHolds == Spec => []GroupsReachable
<1>1. SchedulerInvariant => GroupsReachable
  BY DEF SchedulerInvariant, Sound, Rotation, GroupsReachable
<1>2. QED
  BY <1>1, SchedulerInvariantHolds, PTL

\* A thread in a byte wait has been notified once its bytes would fit.
THEOREM NoByteWaitLostHolds == Spec => []NoByteWaitLost
<1>1. SchedulerInvariant => NoByteWaitLost
  BY DEF SchedulerInvariant, ByteWaits, ByteWait, NoByteWaitLost, Fits
<1>2. QED
  BY <1>1, SchedulerInvariantHolds, PTL

\* Whatever path grants a slot, the slot was free, the request can finish, and
\* no client passes its share while another is queued.
THEOREM AdmissionsJustifiedHolds == Spec => AdmissionsJustified
<1> DEFINE Body == \A h \in sched'.granted \ sched.granted :
                      /\ sched'.active["all"] <= sched'.limit
                      /\ CanFinish(h)
                      /\ HasCompetingClient(sched', ClientOf[h])
                            => sched'.active[ClientOf[h]] <= ShareLimit(sched'.limit)
<1>1. SchedulerInvariant /\ [Next]_vars => [Body]_vars
  <2>1. ASSUME SchedulerInvariant, Next PROVE Body
    <3>1. Justified(sched, sched')
      BY <2>1, NextHolds
    <3>2. QED
      BY <3>1 DEF Justified
  <2>2. QED
    BY <2>1
<1>2. QED
  BY <1>1, SchedulerInvariantHolds, PTL DEF Spec, AdmissionsJustified

----------------------------------------------------------------------------
(* Wake-ups for a slot.                                                    *)

\* The threads of queued and of rejected requests are in acquire's wait.
LEMMA InTheWait ==
    ASSUME NEW p, NEW s, Sound(s, {}), Homes(p, s), NEW g \in Queue(s) \cup s.dropped
    PROVE  g \in Hooks /\ p[g] = "waiting"
<1>1. g \in Hooks
  BY SchedFields DEF Sound
<1>2. g \in Placed(s) /\ g \notin s.granted
  BY DEF Sound, Apart, Placed
<1>3. QED
  BY <1>1, <1>2 DEF Homes, HomeOf

\* Whoever notifies covers a free slot, if it is not queued itself or if its
\* dispatch found nobody: then a rejected request's thread has been notified.
LEMMA NotifierCovers ==
    ASSUME SchedulerInvariant', NEW h \in Hooks,
           \A g \in Hooks \ {h} : pc'[g] = pc[g] /\ (pc[g] \in Waiting => g \in woken'),
           h \in Queue(sched') => Exhausted(sched')
    PROVE  SlotCovered'
<1>1. Sound(sched', {}) /\ Homes(pc', sched')
  BY DEF SchedulerInvariant
<1>2. SUFFICES ASSUME sched'.active["all"] < sched'.limit,
                      NEW g \in Queue(sched'), Eligible(sched', g)
               PROVE  \E x \in Hooks : pc'[x] = "waiting" /\ x \in woken'
  BY DEF SlotCovered, Queue, Eligible, HasCompetingClient
<1>3. ASSUME NEW x \in Queue(sched') \cup sched'.dropped, x # h
      PROVE  x \in Hooks /\ pc'[x] = "waiting" /\ x \in woken'
  BY <1>1, <1>3, InTheWait DEF Waiting
<1>4. CASE g # h
  BY <1>3, <1>4
<1>5. CASE g = h
  <2>1. ~Full(sched')
    <3>1. sched'.active \in [AllOwners -> Nat] /\ sched'.limit \in Nat /\ "all" \in AllOwners
      BY <1>1, SchedFields, HookConstants, OwnersCounted DEF Sound
    <3>2. QED
      BY <1>2, <3>1 DEF Full
  <2>2. ~AllBarren(sched')
    BY <1>2 DEF AllBarren
  <2>3. PICK x : x \in sched'.dropped
    BY <1>5, <2>1, <2>2 DEF Exhausted
  <2>4. x # h
    BY <1>1, <1>5, <2>3 DEF Sound, Apart
  <2>5. QED
    BY <1>3, <2>3, <2>4
<1>6. QED
  BY <1>4, <1>5

\* A slot stays covered while the queue, the slots and those who wait for one
\* stay as they are.
LEMMA CoverKept ==
    ASSUME SlotCovered, sched'.line = sched.line, sched'.rota = sched.rota,
           sched'.active = sched.active, sched'.limit = sched.limit,
           \A g \in Hooks : pc[g] = "waiting" =>
              /\ pc'[g] = "waiting"
              /\ g \in woken => g \in woken'
              /\ left[g] = 0 => left'[g] = 0
              /\ g \in cancelled => g \in cancelled'
    PROVE  SlotCovered'
<1>1. \A g : Eligible(sched', g) <=> Eligible(sched, g)
  BY DEF Eligible, HasCompetingClient
<1>2. SUFFICES ASSUME sched'.active["all"] < sched'.limit,
                      NEW g \in ToSet(sched'.line), Eligible(sched', g)
               PROVE  \E x \in Hooks : /\ pc'[x] = "waiting"
                                       /\ x \in woken' \/ left'[x] = 0 \/ x \in cancelled'
  BY DEF SlotCovered, Eligible, HasCompetingClient
<1>3. PICK x \in Hooks : pc[x] = "waiting" /\ (x \in woken \/ left[x] = 0 \/ x \in cancelled)
  BY <1>1, <1>2 DEF SlotCovered
<1>4. QED
  BY <1>3

\* A step of a thread that is not in acquire's wait and changes no more than
\* its own bytes.
LEMMA OwnStepCovers ==
    ASSUME SchedulerInvariant, SlotCovered, NEW h \in Hooks, pc[h] # "waiting",
           \/ sched' = sched
           \/ \E n \in Nat : TakeBytes(h, n),
           pc' = pc \/ \E place : At(h, place),
           woken' = woken \/ woken' = woken \ {h} \/ NotifyAll(h),
           \A g \in Hooks \ {h} : left'[g] = left[g],
           cancelled' = cancelled \/ cancelled' = cancelled \ {h}
    PROVE  SlotCovered'
<1>1. pc \in [Hooks -> Places] /\ sched \in SchedType
  BY Types
<1>2. /\ sched'.line = sched.line /\ sched'.rota = sched.rota
      /\ sched'.active = sched.active /\ sched'.limit = sched.limit
  BY <1>1 DEF TakeBytes, SchedType
<1>3. ASSUME NEW g \in Hooks, pc[g] = "waiting"
      PROVE  /\ pc'[g] = "waiting"
             /\ g \in woken => g \in woken'
             /\ left[g] = 0 => left'[g] = 0
             /\ g \in cancelled => g \in cancelled'
  <2>1. g # h
    BY <1>3
  <2>2. pc'[g] = "waiting"
    BY <1>1, <1>3, <2>1 DEF At
  <2>3. g \in woken => g \in woken'
    BY <1>3, <2>1 DEF NotifyAll, Waiting
  <2>4. QED
    BY <2>1, <2>2, <2>3
<1>4. QED
  BY <1>2, <1>3, CoverKept

\* The step of a thread before or after its stay in acquire.
LEMMA OutsideAcquireCovers ==
    ASSUME SchedulerInvariant, SlotCovered, NEW h \in Hooks,
           \/ Arrive(h) \/ ReserveBytes(h) \/ WakeForBytes(h) \/ AcquireRefused(h)
           \/ ReleaseReservation(h) \/ \E n \in Sizes : Resize(h, n)
    PROVE  SlotCovered'
<1>1. /\ left \in [Hooks -> Nat] /\ want \in [Hooks -> Nat] /\ Sizes \subseteq Nat
      /\ PayloadOf[h] \in Nat
  BY Types, HookConstants
<1>2. Forget(h) => /\ \A g \in Hooks \ {h} : left'[g] = left[g]
                   /\ cancelled' = cancelled \ {h}
  BY <1>1 DEF Forget
<1>3. CASE Arrive(h)
  <2>1. /\ pc[h] # "waiting" /\ sched' = sched /\ (\E place : At(h, place))
        /\ woken' = woken /\ cancelled' = cancelled
        /\ \A g \in Hooks \ {h} : left'[g] = left[g]
    BY <1>1, <1>3 DEF Arrive
  <2>2. QED
    BY <2>1, OwnStepCovers
<1>4. CASE ReserveBytes(h)
  <2>1. /\ pc[h] # "waiting" /\ (\E place : At(h, place))
        /\ sched' = sched \/ \E n \in Nat : TakeBytes(h, n)
        /\ woken' = woken /\ cancelled' = cancelled
        /\ \A g \in Hooks \ {h} : left'[g] = left[g]
    BY <1>1, <1>4 DEF ReserveBytes
  <2>2. QED
    BY <2>1, OwnStepCovers
<1>5. CASE WakeForBytes(h)
  <2>1. /\ pc[h] # "waiting" /\ (pc' = pc \/ \E place : At(h, place))
        /\ sched' = sched \/ \E n \in Nat : TakeBytes(h, n)
        /\ woken' = woken \ {h}
        /\ Forget(h) \/ UNCHANGED <<left, age, cancelled>>
    BY <1>1, <1>5 DEF WakeForBytes
  <2>2. QED
    BY <1>2, <2>1, OwnStepCovers
<1>6. CASE AcquireRefused(h)
  <2>1. /\ pc[h] # "waiting" /\ (\E place : At(h, place))
        /\ sched' = sched /\ woken' = woken
        /\ Forget(h) \/ UNCHANGED <<left, age, cancelled>>
    BY <1>6 DEF AcquireRefused
  <2>2. QED
    BY <1>2, <2>1, OwnStepCovers
<1>7. CASE ReleaseReservation(h)
  <2>1. /\ pc[h] # "waiting" /\ (\E place : At(h, place))
        /\ (\E n \in Nat : TakeBytes(h, n)) /\ NotifyAll(h) /\ Forget(h)
    BY <1>7 DEF ReleaseReservation
  <2>2. QED
    BY <1>2, <2>1, OwnStepCovers
<1>8. CASE \E n \in Sizes : Resize(h, n)
  <2>1. /\ pc[h] # "waiting" /\ (pc' = pc \/ \E place : At(h, place))
        /\ sched' = sched \/ \E n \in Nat : TakeBytes(h, n)
        /\ woken' = woken \/ NotifyAll(h)
        /\ UNCHANGED <<left, age, cancelled>>
    BY <1>1, <1>8 DEF Resize
  <2>2. QED
    BY <2>1, OwnStepCovers
<1>9. QED
  BY <1>3, <1>4, <1>5, <1>6, <1>7, <1>8

\* A thread that enters acquire, or wakes in it, covers the slots it leaves.
LEMMA SettleCovers ==
    ASSUME SchedulerInvariant, NEW h \in Hooks, Acquire(h) \/ WakeQueued(h)
    PROVE  SlotCovered'
<1>1. SchedulerInvariant' /\ (h \in Queue(sched') => Exhausted(sched'))
  BY AcquireStep, WakeQueuedStep
<1>2. NotifyAll(h) /\ \E place : At(h, place)
  BY DEF Acquire, WakeQueued, Settle
<1>3. \A g \in Hooks \ {h} : pc'[g] = pc[g] /\ (pc[g] \in Waiting => g \in woken')
  BY <1>2, Types DEF At, NotifyAll
<1>4. QED
  BY <1>1, <1>3, NotifierCovers

\* A thread that gives up, is interrupted before its request was rejected, or
\* releases its permit notifies the others.
LEMMA LeaveCovers ==
    ASSUME SchedulerInvariant, NEW h \in Hooks,
           GiveUp(h) \/ ReleasePermit(h) \/ (Interrupted(h) /\ h \notin sched.dropped)
    PROVE  SlotCovered'
<1>1. SchedulerInvariant'
  BY GiveUpStep, ReleasePermitStep, InterruptedStep
<1>2. NotifyAll(h) /\ At(h, "idle")
  BY DEF GiveUp, ReleasePermit, Interrupted
<1>3. \A g \in Hooks \ {h} : pc'[g] = pc[g] /\ (pc[g] \in Waiting => g \in woken')
  BY <1>2, Types DEF At, NotifyAll
<1>4. h \notin Queue(sched')
  <2>1. pc'[h] = "idle"
    BY <1>2, Types DEF At
  <2>2. Homes(pc', sched')
    BY <1>1 DEF SchedulerInvariant
  <2>3. QED
    BY <2>1, <2>2 DEF Homes, HomeOf, Placed
<1>5. QED
  BY <1>1, <1>3, <1>4, NotifierCovers

\* A new limit wakes everybody.
LEMMA SetActiveLimitCovers ==
    ASSUME SchedulerInvariant, NEW n \in ActiveLimits, SetActiveLimit(n)
    PROVE  SlotCovered'
<1>1. SchedulerInvariant' /\ Sound(sched', {}) /\ Homes(pc', sched')
  BY SetActiveLimitStep DEF SchedulerInvariant
<1>2. pc' = pc /\ woken' = {g \in Hooks : pc[g] \in Waiting}
  BY DEF SetActiveLimit
<1>3. \A g \in Queue(sched') : g \in Hooks /\ pc'[g] = "waiting" /\ g \in woken'
  BY <1>1, <1>2, InTheWait DEF Waiting
<1>4. QED
  BY <1>3 DEF SlotCovered, Queue

\* Time, a cancellation and a new prediction put nobody to sleep.
LEMMA EnvironmentCovers ==
    ASSUME SchedulerInvariant, SlotCovered,
           \/ Tick \/ (\E h \in Hooks : Cancel(h)) \/ \E lane \in UsedLanes : Reestimate(lane)
    PROVE  SlotCovered'
<1>1. /\ pc' = pc /\ sched' = sched /\ woken' = woken
      /\ \A g \in Hooks : left[g] = 0 => left'[g] = 0
      /\ cancelled \subseteq cancelled'
  BY DEF Tick, Cancel, Reestimate
<1>2. QED
  BY <1>1, CoverKept

\* Every step but the interrupt of a rejected request's thread.
LEMMA NextCovers ==
    ASSUME SchedulerInvariant, SlotCovered, Next
    PROVE  SlotCovered' \/ \E h \in sched.dropped : Interrupted(h)
<1>1. CASE \E h \in Hooks : Thread(h) \/ Arrive(h) \/ ReserveBytes(h) \/ Interrupted(h) \/ Cancel(h)
  <2>1. PICK h \in Hooks : Thread(h) \/ Arrive(h) \/ ReserveBytes(h) \/ Interrupted(h) \/ Cancel(h)
    BY <1>1
  <2>2. CASE Thread(h)
    BY <2>2, OutsideAcquireCovers, SettleCovers, LeaveCovers DEF Thread
  <2>3. QED
    BY <2>1, <2>2, OutsideAcquireCovers, LeaveCovers, EnvironmentCovers
<1>2. CASE \E h \in Hooks, n \in Sizes : Resize(h, n)
  BY <1>2, OutsideAcquireCovers
<1>3. CASE \E n \in ActiveLimits : SetActiveLimit(n)
  BY <1>3, SetActiveLimitCovers
<1>4. CASE Tick \/ \E lane \in UsedLanes : Reestimate(lane)
  BY <1>4, EnvironmentCovers
<1>5. QED
  BY <1>1, <1>2, <1>3, <1>4 DEF Next

\* No step but the interrupt of a rejected request's thread leaves a free slot
\* next to a request that may have it with every thread asleep.
THEOREM NoLostWakeupHolds == Spec => NoLostWakeup
<1> DEFINE Body == SlotCovered => SlotCovered' \/ \E h \in sched.dropped : Interrupted(h)
<1>1. SchedulerInvariant /\ [Next]_vars => [Body]_vars
  BY NextCovers
<1>2. QED
  BY <1>1, SchedulerInvariantHolds, PTL DEF Spec, NoLostWakeup

\* Threads whose request was rejected return from their wait undisturbed.
RejectedReturn == [][\A h \in sched.dropped : ~Interrupted(h)]_vars

\* Then a free slot is covered at every moment.
THEOREM SlotAlwaysCovered == Spec /\ RejectedReturn => []SlotCovered
<1> DEFINE Body == SlotCovered => SlotCovered' \/ \E h \in sched.dropped : Interrupted(h)
           Calm == \A h \in sched.dropped : ~Interrupted(h)
<1>1. Init => SlotCovered
  <2>1. SUFFICES ASSUME Init PROVE ToSet(sched.line) = {}
    BY DEF SlotCovered
  <2>2. sched.line = << >>
    BY <2>1 DEF Init
  <2>3. QED
    BY <2>2 DEF ToSet
<1>2. SlotCovered /\ [Body]_vars /\ [Calm]_vars => SlotCovered'
  <2>1. ASSUME SlotCovered, UNCHANGED vars PROVE SlotCovered'
    BY <2>1 DEF SlotCovered, Eligible, HasCompetingClient, vars
  <2>2. QED
    BY <2>1
<1>3. Spec => [][Body]_vars
  BY NoLostWakeupHolds DEF NoLostWakeup
<1>4. QED
  BY <1>1, <1>2, <1>3, PTL DEF Spec, RejectedReturn
=============================================================================
