---------------------------- MODULE RingArithmetic ----------------------------
(***************************************************************************)
(* Facts about slots of a circular ring, for every ring size: every driver *)
(* of the library addresses its rings as counter % size, with counters     *)
(* that are fixed-width integers.                                          *)
(***************************************************************************)
EXTENDS Integers, TLAPS

\* A number is its quotient and its remainder.
LEMMA QuotientRemainder ==
    ASSUME NEW N \in Nat \ {0}, NEW a \in Nat
    PROVE  /\ a \div N \in Nat
           /\ a = N * (a \div N) + (a % N)
           /\ a % N \in 0 .. N - 1
OBVIOUS

\* Adding a multiple of the ring size does not change the slot.
LEMMA RemainderUnique ==
    ASSUME NEW N \in Nat \ {0}, NEW q \in Int, NEW r \in 0 .. N - 1
    PROVE  (N * q + r) % N = r
OBVIOUS

\* One or no wrap: the slot i places after slot c.
LEMMA SlotAhead ==
    ASSUME NEW N \in Nat \ {0}, NEW c \in 0 .. N - 1, NEW i \in 0 .. N
    PROVE  (c + i) % N = IF c + i < N THEN c + i ELSE c + i - N
<1>1. CASE c + i < N
  BY <1>1
<1>2. CASE c + i >= N
  <2>1. c + i - N \in 0 .. N - 1
    BY <1>2
  <2>2. (N * 1 + (c + i - N)) % N = c + i - N
    BY <2>1, RemainderUnique
  <2> QED
    BY <2>2, <1>2
<1> QED
  BY <1>1, <1>2

\* Less than one round apart, different distances reach different slots.
LEMMA SlotInjective ==
    ASSUME NEW N \in Nat \ {0}, NEW c \in 0 .. N - 1,
           NEW i \in 0 .. N - 1, NEW j \in 0 .. N - 1, i # j
    PROVE  (c + i) % N # (c + j) % N
<1>1. i \in 0 .. N /\ j \in 0 .. N
  OBVIOUS
<1>2. (c + i) % N = IF c + i < N THEN c + i ELSE c + i - N
  BY <1>1, SlotAhead
<1>3. (c + j) % N = IF c + j < N THEN c + j ELSE c + j - N
  BY <1>1, SlotAhead
<1> QED
  BY <1>2, <1>3

\* A whole round leads back to the same slot.
LEMMA SlotRound ==
    ASSUME NEW N \in Nat \ {0}, NEW c \in 0 .. N - 1
    PROVE  (c + 0) % N = c /\ (c + N) % N = c
<1>1. 0 \in 0 .. N /\ N \in 0 .. N
  OBVIOUS
<1>2. (c + 0) % N = IF c + 0 < N THEN c + 0 ELSE c + 0 - N
  BY <1>1, SlotAhead
<1>3. (c + N) % N = IF c + N < N THEN c + N ELSE c + N - N
  BY <1>1, SlotAhead
<1> QED
  BY <1>2, <1>3

\* The slot of the successor is the successor of the slot.
LEMMA SlotSuccessor ==
    ASSUME NEW N \in Nat \ {0}, NEW a \in Nat
    PROVE  (a + 1) % N = ((a % N) + 1) % N
<1> DEFINE q == a \div N
           r == a % N
<1>1. q \in Nat /\ a = N * q + r /\ r \in 0 .. N - 1
  BY QuotientRemainder
<1> HIDE DEF q, r
<1>2. CASE r + 1 < N
  <2>1. a + 1 = N * q + (r + 1) /\ r + 1 \in 0 .. N - 1
    BY <1>1, <1>2
  <2>2. (a + 1) % N = r + 1
    BY <2>1, <1>1, RemainderUnique
  <2>3. (r + 1) % N = r + 1
    BY <2>1
  <2> QED
    BY <2>2, <2>3 DEF r
<1>3. CASE r + 1 = N
  <2>1. a + 1 = N * (q + 1) + 0
    BY <1>1, <1>3
  <2>2. (a + 1) % N = 0
    BY <2>1, <1>1, RemainderUnique
  <2>3. (r + 1) % N = 0
    BY <1>3
  <2> QED
    BY <2>2, <2>3 DEF r
<1> QED
  BY <1>1, <1>2, <1>3

\* Two counts less than one round apart are in different slots.
LEMMA SlotsDiffer ==
    ASSUME NEW N \in Nat \ {0}, NEW a \in Nat, NEW b \in Nat, b < a, a - b < N
    PROVE  a % N # b % N
<1> DEFINE q == b \div N
           r == b % N
           d == a - b
<1>1. q \in Nat /\ b = N * q + r /\ r \in 0 .. N - 1
  BY QuotientRemainder
<1>2. a = N * q + (r + d) /\ d \in 1 .. N - 1
  BY <1>1
<1> HIDE DEF q, r, d
<1>3. CASE r + d < N
  <2>1. r + d \in 0 .. N - 1 /\ q \in Int
    BY <1>1, <1>2, <1>3
  <2>2. a % N = r + d
    BY <1>2, <2>1, RemainderUnique
  <2> QED
    BY <1>1, <1>2, <2>2 DEF r
<1>4. CASE r + d >= N
  <2>1. r + d - N \in 0 .. N - 1 /\ q + 1 \in Int /\ a = N * (q + 1) + (r + d - N)
    BY <1>1, <1>2, <1>4
  <2>2. a % N = r + d - N
    BY <2>1, RemainderUnique
  <2> QED
    BY <1>1, <1>2, <2>2 DEF r
<1> QED
  BY <1>1, <1>2, <1>3, <1>4

\* A counter that wraps at a multiple of the ring size steps from slot to
\* slot like one that never wraps.
LEMMA WrappedCounter ==
    ASSUME NEW N \in Nat \ {0}, NEW M \in Nat \ {0}, M % N = 0,
           NEW a \in 0 .. M - 1
    PROVE  /\ (a + 1) % M \in 0 .. M - 1
           /\ ((a + 1) % M) % N = ((a % N) + 1) % N
<1>0. a \in Nat
  OBVIOUS
<1>1. (a + 1) % N = ((a % N) + 1) % N
  BY <1>0, SlotSuccessor, Zenon
<1>2. CASE a + 1 < M
  <2>1. (a + 1) % M = a + 1
    BY <1>2
  <2> QED
    BY <2>1, <1>1, <1>2
<1>3. CASE a + 1 = M
  <2>1. (a + 1) % M = 0
    BY <1>3
  <2>2. (a + 1) % N = 0
    BY <1>3
  <2> QED
    BY <2>1, <2>2, <1>1
<1> QED
  BY <1>2, <1>3
===============================================================================
