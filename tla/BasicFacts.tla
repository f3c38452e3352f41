----------------------------- MODULE BasicFacts -----------------------------
(***************************************************************************)
(* What the proofs of several components share: induction over the natural *)
(* numbers, stated with sets, and circular arrays.                         *)
(***************************************************************************)
EXTENDS Naturals, Sequences, WellFoundedInduction, TLAPS

\* A set of numbers that is not empty has a least one.
LEMMA LeastOne ==
  ASSUME NEW H, H \subseteq Nat, H # {}
  PROVE  \E k \in H : \A m \in H : k <= m
<1>1. PICK k \in H : \A m \in H : ~(<<m, k>> \in OpToRel(<, Nat))
  BY NatLessThanWellFounded, WFMin
<1>2. \A m \in H : ~(m < k)
  BY <1>1 DEF OpToRel
<1> QED
  BY <1>2

\* A set of numbers with 0 and every successor is Nat.
LEMMA Induction ==
  ASSUME NEW S, S \subseteq Nat, 0 \in S, \A n \in S : n + 1 \in S
  PROVE  S = Nat
<1> SUFFICES ASSUME S # Nat PROVE FALSE
  OBVIOUS
<1>1. PICK k \in Nat \ S : \A m \in Nat \ S : k <= m
  <2>1. Nat \ S # {} /\ Nat \ S \subseteq Nat
    OBVIOUS
  <2> QED
    BY <2>1, LeastOne
<1>2. k # 0 /\ k - 1 \in Nat /\ ~(k <= k - 1)
  BY <1>1
<1>3. k - 1 \in S
  BY <1>1, <1>2
<1> QED
  BY <1>1, <1>2, <1>3

-----------------------------------------------------------------------------
(* Division: a number is in the block of its quotient.                     *)

\* Quotient and remainder.
LEMMA DivMod ==
  ASSUME NEW s \in Nat \ {0}, NEW a \in Nat
  PROVE  /\ a \div s \in Nat /\ a % s \in 0..(s - 1) /\ a = s * (a \div s) + (a % s)
OBVIOUS

\* They are the only ones.
LEMMA Unique ==
  ASSUME NEW s \in Nat \ {0}, NEW q \in Nat, NEW r \in 0..(s - 1)
  PROVE  (s * q + r) % s = r /\ (s * q + r) \div s = q
OBVIOUS

\* The remainder may be taken before or after counting on.
LEMMA ModSuccessor ==
  ASSUME NEW s \in Nat \ {0}, NEW x \in Nat
  PROVE  ((x % s) + 1) % s = (x + 1) % s
<1> DEFINE q == x \div s
           r == x % s
<1>1. q \in Nat /\ r \in 0..(s - 1) /\ x = s * q + r
  BY DivMod
<1> HIDE DEF q, r
<1>2. CASE r + 1 < s
  <2>1. r + 1 \in 0..(s - 1) /\ x + 1 = s * q + (r + 1)
    BY <1>1, <1>2
  <2>2. (x + 1) % s = r + 1
    BY <1>1, <2>1, Unique
  <2>3. (r + 1) % s = r + 1
    BY <2>1
  <2> QED
    BY <2>2, <2>3 DEF r
<1>3. CASE r + 1 = s
  <2>1. q + 1 \in Nat /\ 0 \in 0..(s - 1) /\ s * (q + 1) = s * q + s
    BY <1>1
  <2>2. x + 1 = s * (q + 1) + 0
    BY <1>1, <1>3, <2>1
  <2>3. (x + 1) % s = 0
    BY <2>1, <2>2, Unique
  <2>4. s % s = 0
    <3>1. s = s * 1 + 0
      OBVIOUS
    <3> QED
      BY <3>1, <2>1, Unique
  <2> QED
    BY <1>3, <2>3, <2>4 DEF r
<1> QED
  BY <1>1, <1>2, <1>3

\* The block that begins at a multiple of its size.
LEMMA Block ==
  ASSUME NEW s \in Nat \ {0}, NEW q \in Nat, NEW a \in Nat
  PROVE  a \in (q * s)..(q * s + s - 1) <=> a \div s = q
<1>0. s * q = q * s /\ q * s \in Nat
  OBVIOUS
<1>1. ASSUME a \in (q * s)..(q * s + s - 1) PROVE a \div s = q
  <2> DEFINE r == a - q * s
  <2>1. r \in 0..(s - 1) /\ a = s * q + r
    BY <1>0, <1>1
  <2> QED
    BY <2>1, Unique
<1>2. ASSUME a \div s = q PROVE a \in (q * s)..(q * s + s - 1)
  <2>1. a % s \in 0..(s - 1) /\ a = s * q + (a % s)
    BY <1>2, DivMod
  <2> QED
    BY <2>1, <1>0
<1> QED
  BY <1>1, <1>2

-----------------------------------------------------------------------------
(* Circular arrays.  The queue of the RTOS, the FIFOs of the UART and the  *)
(* receive buffers of the CAN controllers keep head, tail and count, and   *)
(* move the indices with % size.  For every size, and through every wrap,  *)
(* storing at the tail appends to the contents, and taking from the head   *)
(* removes the oldest entry.                                               *)

\* An index of a ring that has passed the end at most once.
LEMMA Wrapped ==
  ASSUME NEW size \in Nat \ {0}
  PROVE  \A x \in 0..(2 * size - 1) :
           /\ x < size => x % size = x
           /\ ~(x < size) => x % size = x - size
           /\ x % size \in 0..(size - 1)
<1> SUFFICES ASSUME NEW x \in 0..(2 * size - 1)
             PROVE  /\ x < size => x % size = x
                    /\ ~(x < size) => x % size = x - size
                    /\ x % size \in 0..(size - 1)
  OBVIOUS
<1>1. CASE x < size
  BY <1>1
<1>2. CASE ~(x < size)
  <2>1. x - size \in 0..(size - 1) /\ x = size * 1 + (x - size)
    BY <1>2
  <2> QED
    BY <1>2, <2>1
<1> QED
  BY <1>1, <1>2

\* Two positions of a ring that are less than its size apart are different.
LEMMA SlotsApart ==
  ASSUME NEW size \in Nat \ {0}, NEW h \in 0..(size - 1),
         NEW a \in 0..size, NEW b \in 0..size, a < b, b - a < size
  PROVE  (h + a) % size # (h + b) % size
<1>1. h + a \in 0..(2 * size - 1) /\ h + b \in 0..(2 * size - 1)
  OBVIOUS
<1>2. \A x \in 0..(2 * size - 1) :
        /\ x < size => x % size = x
        /\ ~(x < size) => x % size = x - size
  BY Wrapped
<1>3. /\ h + a < size => (h + a) % size = h + a
      /\ ~(h + a < size) => (h + a) % size = h + a - size
      /\ h + b < size => (h + b) % size = h + b
      /\ ~(h + b < size) => (h + b) % size = h + b - size
  BY <1>1, <1>2
<1> QED
  BY <1>3

\* The tail of a ring moves on.
LEMMA TailMoves ==
  ASSUME NEW size \in Nat \ {0}, NEW x \in 0..(2 * size - 2)
  PROVE  ((x % size) + 1) % size = (x + 1) % size
<1>0. \A y \in 0..(2 * size - 1) :
        /\ y < size => y % size = y
        /\ ~(y < size) => y % size = y - size
  BY Wrapped
<1>1. CASE x < size
  BY <1>0, <1>1
<1>2. CASE ~(x < size)
  <2>1. x % size = x - size
    BY <1>0, <1>2
  <2>2. (x + 1) % size = x + 1 - size
    BY <1>0, <1>2
  <2>3. (x - size + 1) % size = x - size + 1
    BY <1>0, <1>2
  <2> QED
    BY <2>1, <2>2, <2>3
<1> QED
  BY <1>1, <1>2

\* The head of a ring moves on: the position k places behind it does, too.
LEMMA HeadMoves ==
  ASSUME NEW size \in Nat \ {0}, NEW x \in 0..size, NEW k \in 0..(size - 1)
  PROVE  ((x % size) + k) % size = (x + k) % size
<1>0. \A y \in 0..(2 * size - 1) :
        /\ y < size => y % size = y
        /\ ~(y < size) => y % size = y - size
  BY Wrapped
<1>1. CASE x < size
  BY <1>0, <1>1
<1>2. CASE x = size
  <2>1. x % size = 0
    BY <1>0, <1>2
  <2>2. (x + k) % size = k
    BY <1>0, <1>2
  <2>3. k % size = k
    BY <1>0
  <2> QED
    BY <2>1, <2>2, <2>3
<1> QED
  BY <1>1, <1>2

(***************************************************************************)
(* The c entries from index h on of an array b.                            *)
(***************************************************************************)
Window(b, h, c, size) == [k \in 1..c |-> b[(h + k - 1) % size]]

LEMMA IndexType ==
  ASSUME NEW size \in Nat \ {0}, NEW h \in 0..(size - 1), NEW c \in 0..size,
         NEW k \in 1..c
  PROVE  (h + k - 1) % size \in 0..(size - 1)
<1>1. h + k - 1 \in 0..(2 * size - 1)
  OBVIOUS
<1> QED
  BY <1>1, Wrapped

LEMMA WindowType ==
  ASSUME NEW size \in Nat \ {0}, NEW S, NEW b \in [0..(size - 1) -> S],
         NEW h \in 0..(size - 1), NEW c \in 0..size
  PROVE  Window(b, h, c, size) \in Seq(S)
<1>1. Window(b, h, c, size) \in [1..c -> S]
  BY IndexType DEF Window
<1> QED
  BY <1>1

LEMMA WindowLen ==
  ASSUME NEW c \in Nat, NEW b, NEW h, NEW size
  PROVE  Len(Window(b, h, c, size)) = c
BY DEF Window

\* b2 is b with x stored at index t.
Stores(b2, b, t, x, size) ==
  /\ b2[t] = x
  /\ \A j \in 0..(size - 1) : j # t => b2[j] = b[j]

\* From s to t: x is added at the end; the oldest entry x is taken.
Adds(s, x, t)  == t = Append(s, x)
Takes(s, x, t) == s # <<>> /\ x = Head(s) /\ t = Tail(s)

\* Storing at the tail of an array that is not full appends.
LEMMA WindowPush ==
  ASSUME NEW size \in Nat \ {0}, NEW S, NEW b \in [0..(size - 1) -> S],
         NEW h \in 0..(size - 1), NEW c \in 0..(size - 1), NEW x \in S,
         NEW b2 \in [0..(size - 1) -> S], Stores(b2, b, (h + c) % size, x, size)
  PROVE  Adds(Window(b, h, c, size), x, Window(b2, h, c + 1, size))
<1>0. /\ b2[(h + c) % size] = x
      /\ \A j \in 0..(size - 1) : j # (h + c) % size => b2[j] = b[j]
  BY DEF Stores
<1> DEFINE t == (h + c) % size
           w == Window(b, h, c, size)
           w2 == Window(b2, h, c + 1, size)
<1>1. t \in 0..(size - 1)
  <2>1. h + c \in 0..(2 * size - 1)
    OBVIOUS
  <2> QED
    BY <2>1, Wrapped
<1>3. w \in Seq(S) /\ Len(w) = c
  <2>1. c \in 0..size /\ c \in Nat
    OBVIOUS
  <2>2. w \in Seq(S)
    BY <2>1, WindowType, Zenon
  <2>3. Len(w) = c
    BY <2>1, WindowLen, Zenon
  <2> QED
    BY <2>2, <2>3
<1>4. w2 \in Seq(S) /\ Len(w2) = c + 1
  <2>1. c + 1 \in 0..size /\ c + 1 \in Nat
    OBVIOUS
  <2>2. w2 \in Seq(S)
    BY <2>1, WindowType, Zenon
  <2>3. Len(w2) = c + 1
    BY <2>1, WindowLen, Zenon
  <2> QED
    BY <2>2, <2>3
\* The slot at the tail is none of the occupied ones.
<1>5. ASSUME NEW k \in 1..c PROVE w2[k] = w[k]
  <2>1. (h + (k - 1)) % size # (h + c) % size
    <3>1. k - 1 \in 0..size /\ c \in 0..size /\ k - 1 < c /\ c - (k - 1) < size
      OBVIOUS
    <3> QED
      BY <3>1, SlotsApart
  <2>2. h + k - 1 = h + (k - 1)
    OBVIOUS
  <2>3. b2[(h + k - 1) % size] = b[(h + k - 1) % size]
    BY <1>0, <1>1, <2>1, <2>2, IndexType
  <2>4. w[k] = b[(h + k - 1) % size]
    BY DEF Window
  <2>5. w2[k] = b2[(h + k - 1) % size]
    <3>1. k \in 1..(c + 1)
      OBVIOUS
    <3> QED
      BY <3>1 DEF Window
  <2> QED
    BY <2>3, <2>4, <2>5
<1>6. w2[c + 1] = x
  <2>1. h + (c + 1) - 1 = h + c /\ c + 1 \in 1..(c + 1)
    OBVIOUS
  <2>2. b2[t] = x
    BY <1>0
  <2>3. w2[c + 1] = b2[(h + (c + 1) - 1) % size]
    BY <2>1 DEF Window
  <2> QED
    BY <2>1, <2>2, <2>3
<1> HIDE DEF w, w2
<1>7. Adds(w, x, w2)
  BY <1>3, <1>4, <1>5, <1>6 DEF Adds
<1> QED
  BY <1>7 DEF w, w2

\* Moving the head removes the oldest entry.
LEMMA WindowPop ==
  ASSUME NEW size \in Nat \ {0}, NEW S, NEW b \in [0..(size - 1) -> S],
         NEW h \in 0..(size - 1), NEW c \in 1..size
  PROVE  Takes(Window(b, h, c, size), b[h], Window(b, (h + 1) % size, c - 1, size))
<1> DEFINE h2 == (h + 1) % size
           w == Window(b, h, c, size)
           w2 == Window(b, h2, c - 1, size)
<1>0. h + 1 \in 0..(2 * size - 1) /\ h + 1 \in 0..size
  OBVIOUS
<1>1. h2 \in 0..(size - 1)
  BY <1>0, Wrapped
<1>2. \A k \in 0..(size - 1) : (h2 + k) % size = (h + 1 + k) % size
  BY <1>0, HeadMoves
<1> HIDE DEF h2
<1>3. w \in Seq(S) /\ Len(w) = c
  <2>1. c \in 0..size /\ c \in Nat
    OBVIOUS
  <2>2. w \in Seq(S)
    BY <2>1, WindowType, Zenon
  <2>3. Len(w) = c
    BY <2>1, WindowLen, Zenon
  <2> QED
    BY <2>2, <2>3
<1>4. w2 \in Seq(S) /\ Len(w2) = c - 1
  <2>1. c - 1 \in 0..size /\ c - 1 \in Nat
    OBVIOUS
  <2>2. w2 \in Seq(S)
    BY <1>1, <2>1, WindowType, Zenon
  <2>3. Len(w2) = c - 1
    BY <2>1, WindowLen, Zenon
  <2> QED
    BY <2>2, <2>3
<1>5. ASSUME NEW k \in 1..(c - 1) PROVE w2[k] = w[k + 1]
  <2>1. /\ k - 1 \in 0..(size - 1) /\ k + 1 \in 1..c
        /\ h + 1 + (k - 1) = h + (k + 1) - 1
    OBVIOUS
  <2>2. \A y \in 0..(size - 1) : y + (k - 1) = y + k - 1
    OBVIOUS
  <2>3. (h2 + k - 1) % size = (h + (k + 1) - 1) % size
    BY <1>1, <1>2, <2>1, <2>2
  <2>4. w2[k] = b[(h2 + k - 1) % size]
    BY DEF Window
  <2>5. w[k + 1] = b[(h + (k + 1) - 1) % size]
    BY <2>1 DEF Window
  <2> QED
    BY <2>3, <2>4, <2>5
<1>6. b[h] = w[1]
  <2>1. 1 \in 1..c /\ h + 1 - 1 = h /\ h % size = h
    OBVIOUS
  <2>2. w[1] = b[(h + 1 - 1) % size]
    BY <2>1 DEF Window
  <2> QED
    BY <2>1, <2>2
<1> HIDE DEF w, w2
<1>7. w2 = Tail(w) /\ w # <<>>
  BY <1>3, <1>4, <1>5
<1>8. b[h] = Head(w)
  BY <1>3, <1>6
<1>9. Takes(w, b[h], w2)
  BY <1>7, <1>8 DEF Takes
<1> QED
  BY <1>9 DEF w, w2, h2
=============================================================================
