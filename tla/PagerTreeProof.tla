---------------------------- MODULE PagerTreeProof ----------------------------
(***************************************************************************)
(* The pager's tables are trees, no frame is lost, and with its tables     *)
(* hidden the pager is an AddressSpace: for page tables of any size, any   *)
(* number of frames, address spaces and threads, and any requests that     *)
(* keep the pager's contract.                                              *)
(*                                                                         *)
(* Three invariants carry it, each on top of the one before:               *)
(*   - TreeInv: the trees, the entries in them, and for every request how  *)
(*     far it has got, where its walk stands and what it may still rely on *)
(*     for the pages that are left (Promise);                              *)
(*   - ZeroInv: no PCID is in use, and where the physical page 0 is        *)
(*     mapped: a clone takes a page at the physical address 0 for none;    *)
(*   - LargeOutside: no large page has a frame of the allocator in it.     *)
(*                                                                         *)
(* Assumptions that some theorems add to those of Pager:                   *)
(*   - Serialised: the callers keep two requests off one space;            *)
(*   - NoThirdBit: no request has bit 2 of the page attribute, which lands *)
(*     in the address of a directory's entry;                              *)
(*   - NoPcidsGiven, NoAutoDisable, PageZeroStays: see their definitions;  *)
(*   - NxFeature: the processor has the no-execute bit.                    *)
(***************************************************************************)
EXTENDS PagerProof

-----------------------------------------------------------------------------
(* Pages and indices *)

LEMMA DivMod ==
  ASSUME NEW m \in Nat, NEW d \in Nat, d > 0
  PROVE  m = d * (m \div d) + (m % d) /\ m % d \in Nat /\ m % d < d /\ m \div d \in Nat
OBVIOUS

LEMMA DivUnique ==
  ASSUME NEW m \in Nat, NEW d \in Nat, NEW q \in Nat, NEW r \in Nat, r < d, m = d * q + r
  PROVE  m \div d = q /\ m % d = r
<1>1. m = d * (m \div d) + (m % d) /\ m % d \in Nat /\ m % d < d /\ m \div d \in Nat
  BY DivMod
<1> DEFINE p == m \div d
<1> DEFINE x == m % d
<1> HIDE DEF p, x
<1>2. m = d * p + x /\ p \in Nat /\ x \in Nat /\ x < d
  BY <1>1 DEF p, x
<1>3. \A a \in Nat : a > 0 => d * a >= d
  OBVIOUS
<1>4. ~(p < q)
  <2> SUFFICES ASSUME p < q PROVE FALSE
    OBVIOUS
  <2>1. d * (q - p) >= d
    BY <1>2, <1>3
  <2>2. d * q = d * p + d * (q - p)
    BY <1>2
  <2> QED BY <1>2, <2>1, <2>2
<1>5. ~(q < p)
  <2> SUFFICES ASSUME q < p PROVE FALSE
    OBVIOUS
  <2>1. d * (p - q) >= d
    BY <1>2, <1>3
  <2>2. d * p = d * q + d * (p - q)
    BY <1>2
  <2> QED BY <1>2, <2>1, <2>2
<1>6. p = q
  BY <1>2, <1>4, <1>5
<1> QED BY <1>2, <1>6 DEF p, x

LEMMA DivDiv ==
  ASSUME NEW m \in Nat, NEW a \in Nat, NEW b \in Nat, a > 0, b > 0
  PROVE  m \div (a * b) = (m \div a) \div b
<1> DEFINE q == m \div a
<1> DEFINE x == m % a
<1> DEFINE p == q \div b
<1> DEFINE y == q % b
<1>1. m = a * q + x /\ q \in Nat /\ x \in Nat /\ x < a
  BY DivMod
<1>2. q = b * p + y /\ p \in Nat /\ y \in Nat /\ y < b
  BY <1>1, DivMod
<1> HIDE DEF q, x, p, y
<1>3. a * y <= a * (b - 1)
  BY <1>2
<1>4. a * y + x < a * b /\ a * y + x \in Nat /\ a * b \in Nat
  BY <1>1, <1>2, <1>3
<1>5. m = (a * b) * p + (a * y + x)
  BY <1>1, <1>2
<1>6. m \div (a * b) = p
  BY <1>2, <1>4, <1>5, DivUnique
<1> QED BY <1>6 DEF p, q

LEMMA SpanUp ==
  /\ Span[2] = Span[1] * Fanout /\ Span[3] = Span[2] * Fanout /\ Span[4] = Span[3] * Fanout
  /\ \A l \in Levels : Span[l] \in Nat /\ Span[l] > 0
BY SpanFacts, SMT

LEMMA PageFacts ==
  ASSUME NEW v \in Pages
  PROVE  v \in Nat /\ v < Fanout * Span[4]
<1>1. Fanout * Span[4] \in Nat
  BY SpanFacts, SMT DEF Levels
<1> QED BY <1>1 DEF Pages

\* The index at a level is what the part of the page number above it leaves.
LEMMA IndexSteps ==
  ASSUME NEW v \in Pages
  PROVE  /\ v \div Span[1] = Fanout * (v \div Span[2]) + Index(1, v)
         /\ v \div Span[2] = Fanout * (v \div Span[3]) + Index(2, v)
         /\ v \div Span[3] = Fanout * (v \div Span[4]) + Index(3, v)
         /\ v \div Span[4] = Index(4, v)
         /\ \A l \in Levels : v \div Span[l] \in Nat /\ Index(l, v) \in Nat /\ Index(l, v) < Fanout
<1>1. v \in Nat /\ v < Fanout * Span[4]
  BY PageFacts
<1>2. Fanout \in Nat /\ Fanout > 0 /\ 1 \in Levels /\ 2 \in Levels /\ 3 \in Levels /\ 4 \in Levels
  BY SpanFacts DEF Levels
<1>3. \A l \in Levels : Span[l] \in Nat /\ Span[l] > 0
  BY SpanFacts
<1>4. ASSUME NEW l \in Levels
      PROVE  v \div Span[l] \in Nat /\ Index(l, v) \in Nat /\ Index(l, v) < Fanout
             /\ v \div Span[l] = Fanout * ((v \div Span[l]) \div Fanout) + Index(l, v)
  <2>1. v \div Span[l] \in Nat
    BY <1>1, <1>3, DivMod
  <2> QED BY <1>2, <2>1, DivMod DEF Index
<1>5. /\ v \div Span[2] = (v \div Span[1]) \div Fanout
      /\ v \div Span[3] = (v \div Span[2]) \div Fanout
      /\ v \div Span[4] = (v \div Span[3]) \div Fanout
  BY <1>1, <1>2, <1>3, DivDiv, SpanUp
<1>6. v \div Span[4] < Fanout
  <2> DEFINE q == v \div Span[4]
  <2>1. q \in Nat /\ v >= Span[4] * q /\ Span[4] \in Nat /\ Span[4] > 0
    BY <1>1, <1>2, <1>3, DivMod
  <2> HIDE DEF q
  <2>2. \A a \in Nat : a >= Fanout => Span[4] * a >= Span[4] * Fanout
    BY <1>2, <2>1
  <2>3. ~(q >= Fanout)
    BY <1>1, <1>2, <2>1, <2>2
  <2> QED BY <1>2, <2>1, <2>3 DEF q
<1>7. v \div Span[4] = Index(4, v)
  <2>1. \A a \in Nat : a < Fanout => a % Fanout = a
    BY <1>2
  <2> QED BY <1>2, <1>4, <1>6, <2>1 DEF Index
<1> QED BY <1>2, <1>4, <1>5, <1>7

\* Two pages have the entry at level l, and with it the ones above, in common.
SamePath(l, v, w) == \A k \in Levels : k >= l => Index(k, v) = Index(k, w)

LEMMA PathIsQuotient ==
  ASSUME NEW v \in Pages, NEW w \in Pages, NEW l \in Levels
  PROVE  SamePath(l, v, w) <=> v \div Span[l] = w \div Span[l]
<1>1. 1 \in Levels /\ 2 \in Levels /\ 3 \in Levels /\ 4 \in Levels /\ l \in {1, 2, 3, 4}
  BY DEF Levels
<1>2. Fanout \in Nat /\ Fanout > 0
  BY SpanFacts
<1>3. \A a, b, x, y \in Nat : x < Fanout /\ y < Fanout /\ Fanout * a + x = Fanout * b + y
        => a = b /\ x = y
  <2> TAKE a, b, x, y \in Nat
  <2> HAVE x < Fanout /\ y < Fanout /\ Fanout * a + x = Fanout * b + y
  <2>1. (Fanout * a + x) \in Nat
    BY <1>2
  <2>2. (Fanout * a + x) \div Fanout = a /\ (Fanout * a + x) % Fanout = x
    BY <1>2, <2>1, DivUnique
  <2>3. (Fanout * a + x) \div Fanout = b /\ (Fanout * a + x) % Fanout = y
    BY <1>2, <2>1, DivUnique
  <2> QED BY <2>2, <2>3
<1> DEFINE A(k) == v \div Span[k]
<1> DEFINE B(k) == w \div Span[k]
<1>4. /\ A(1) = Fanout * A(2) + Index(1, v) /\ B(1) = Fanout * B(2) + Index(1, w)
      /\ A(2) = Fanout * A(3) + Index(2, v) /\ B(2) = Fanout * B(3) + Index(2, w)
      /\ A(3) = Fanout * A(4) + Index(3, v) /\ B(3) = Fanout * B(4) + Index(3, w)
      /\ A(4) = Index(4, v) /\ B(4) = Index(4, w)
      /\ \A k \in Levels : /\ A(k) \in Nat /\ Index(k, v) \in Nat /\ Index(k, v) < Fanout
                           /\ B(k) \in Nat /\ Index(k, w) \in Nat /\ Index(k, w) < Fanout
  BY IndexSteps
<1>5. SamePath(l, v, w) <=> /\ Index(4, v) = Index(4, w)
                            /\ l <= 3 => Index(3, v) = Index(3, w)
                            /\ l <= 2 => Index(2, v) = Index(2, w)
                            /\ l <= 1 => Index(1, v) = Index(1, w)
  BY <1>1 DEF SamePath, Levels
<1> HIDE DEF A, B
<1>6. /\ A(3) = B(3) <=> A(4) = B(4) /\ Index(3, v) = Index(3, w)
      /\ A(2) = B(2) <=> A(3) = B(3) /\ Index(2, v) = Index(2, w)
      /\ A(1) = B(1) <=> A(2) = B(2) /\ Index(1, v) = Index(1, w)
  <2>1. A(3) = B(3) <=> A(4) = B(4) /\ Index(3, v) = Index(3, w)
    <3>1. /\ A(4) \in Nat /\ B(4) \in Nat
          /\ Index(3, v) \in Nat /\ Index(3, w) \in Nat
          /\ Index(3, v) < Fanout /\ Index(3, w) < Fanout
      BY <1>1, <1>4
    <3>2. A(3) = Fanout * A(4) + Index(3, v) /\ B(3) = Fanout * B(4) + Index(3, w)
      BY <1>4
    <3>3. A(3) = B(3) => A(4) = B(4) /\ Index(3, v) = Index(3, w)
      <4>1. A(3) = B(3) => Fanout * A(4) + Index(3, v) = Fanout * B(4) + Index(3, w)
        BY <3>2
      <4> QED BY ONLY <1>3, <3>1, <4>1
    <3> QED BY <3>2, <3>3, Zenon
  <2>2. A(2) = B(2) <=> A(3) = B(3) /\ Index(2, v) = Index(2, w)
    <3>1. /\ A(3) \in Nat /\ B(3) \in Nat
          /\ Index(2, v) \in Nat /\ Index(2, w) \in Nat
          /\ Index(2, v) < Fanout /\ Index(2, w) < Fanout
      BY <1>1, <1>4
    <3>2. A(2) = Fanout * A(3) + Index(2, v) /\ B(2) = Fanout * B(3) + Index(2, w)
      BY <1>4
    <3>3. A(2) = B(2) => A(3) = B(3) /\ Index(2, v) = Index(2, w)
      <4>1. A(2) = B(2) => Fanout * A(3) + Index(2, v) = Fanout * B(3) + Index(2, w)
        BY <3>2
      <4> QED BY ONLY <1>3, <3>1, <4>1
    <3> QED BY <3>2, <3>3, Zenon
  <2>3. A(1) = B(1) <=> A(2) = B(2) /\ Index(1, v) = Index(1, w)
    <3>1. /\ A(2) \in Nat /\ B(2) \in Nat
          /\ Index(1, v) \in Nat /\ Index(1, w) \in Nat
          /\ Index(1, v) < Fanout /\ Index(1, w) < Fanout
      BY <1>1, <1>4
    <3>2. A(1) = Fanout * A(2) + Index(1, v) /\ B(1) = Fanout * B(2) + Index(1, w)
      BY <1>4
    <3>3. A(1) = B(1) => A(2) = B(2) /\ Index(1, v) = Index(1, w)
      <4>1. A(1) = B(1) => Fanout * A(2) + Index(1, v) = Fanout * B(2) + Index(1, w)
        BY <3>2
      <4> QED BY ONLY <1>3, <3>1, <4>1
    <3> QED BY <3>2, <3>3, Zenon
  <2> QED BY <2>1, <2>2, <2>3
<1>7. SamePath(l, v, w) <=> A(l) = B(l)
  BY <1>1, <1>4, <1>5, <1>6
<1> QED BY <1>7 DEF A, B

\* The pages of an aligned block are the ones that have its entry in common.
LEMMA Block ==
  ASSUME NEW v \in Pages, NEW w \in Pages, NEW l \in Levels, v % Span[l] = 0
  PROVE  /\ SamePath(l, v, w) <=> w \in v .. v + Span[l] - 1
         /\ SamePath(l, v, w) => w % Span[l] = w - v
<1> DEFINE S == Span[l]
<1> DEFINE q == v \div S
<1> DEFINE p == w \div S
<1> DEFINE x == w % S
<1>1. S \in Nat /\ S > 0 /\ v \in Nat /\ w \in Nat
  BY SpanFacts, PageFacts
<1>2. v = S * q /\ q \in Nat /\ w = S * p + x /\ p \in Nat /\ x \in Nat /\ x < S
  <2>1. v = S * q + (v % S) /\ q \in Nat
    BY <1>1, DivMod
  <2>2. w = S * p + x /\ p \in Nat /\ x \in Nat /\ x < S
    BY <1>1, DivMod
  <2> HIDE DEF q, p, x
  <2>3. v % S = 0
    OBVIOUS
  <2> HIDE DEF S
  <2> QED BY <1>1, <2>1, <2>2, <2>3
<1>3. SamePath(l, v, w) <=> q = p
  BY PathIsQuotient
<1>4. q = p => w - v = x /\ w \in v .. v + S - 1
  <2> HIDE DEF q, p, x, S
  <2> QED BY <1>1, <1>2
<1>5. w \in v .. v + S - 1 => q = p
  <2> HAVE w \in v .. v + S - 1
  <2> HIDE DEF S
  <2>1. w - v \in Nat /\ w - v < S /\ w = S * q + (w - v)
    <3> HIDE DEF q, p, x
    <3> QED BY <1>1, <1>2
  <2>2. q \in Nat
    BY <1>2
  <2>3. w \div S = q
    <3> HIDE DEF q
    <3> QED BY <1>1, <2>1, <2>2, DivUnique
  <2> QED BY <2>3
<1> QED BY <1>3, <1>4, <1>5

\* The page at the same place in the first small block of the large block of a page.
LEMMA BlockStart ==
  ASSUME NEW w \in Pages, NEW k \in Levels, NEW l \in Levels, l <= k
  PROVE  \E q \in Pages : /\ q <= w /\ SamePath(k, w, q)
                         /\ q % Span[k] = w % Span[l]
                         /\ w % Span[k] = (w % Span[l]) + (w - q)
<1> DEFINE S == Span[k]
<1> DEFINE T == Span[l]
<1>1. S \in Nat /\ S > 0 /\ T \in Nat /\ T > 0 /\ w \in Nat
  BY SpanFacts, PageFacts
<1>2. PICK m \in Nat : S = T * m
  <2>1. k \in {1, 2, 3, 4} /\ l \in {1, 2, 3, 4}
    BY DEF Levels
  <2>2. /\ Span[1] = 1 /\ Span[2] = Fanout /\ Span[3] = Fanout * Fanout
        /\ Span[4] = Fanout * (Fanout * Fanout) /\ Fanout \in Nat /\ Fanout * Fanout \in Nat
        /\ Fanout * (Fanout * Fanout) \in Nat
    BY SpanFacts
  <2>3. /\ Span[4] = Span[2] * Span[3] /\ Span[4] = Span[3] * Span[2] /\ Span[3] = Span[2] * Span[2]
        /\ \A i \in {1, 2, 3, 4} : Span[i] = Span[1] * Span[i] /\ Span[i] = Span[i] * Span[1]
    BY <2>2
  <2>4. \A i \in {1, 2, 3, 4} : Span[i] \in Nat
    BY <2>2
  <2>5. l = k \/ l = 1 \/ (l = 2 /\ k \in {3, 4}) \/ (l = 3 /\ k = 4)
    BY <2>1
  <2>6. CASE l = k \/ l = 1
    BY <2>1, <2>3, <2>4, <2>6
  <2>7. CASE (l = 2 /\ k \in {3, 4}) \/ (l = 3 /\ k = 4)
    BY <2>3, <2>4, <2>7
  <2> QED BY <2>5, <2>6, <2>7
<1> DEFINE a == w \div S
<1> DEFINE x == w % S
<1> DEFINE b == x \div T
<1> DEFINE y == x % T
<1>3. w = S * a + x /\ a \in Nat /\ x \in Nat /\ x < S
  BY <1>1, DivMod
<1>4. x = T * b + y /\ b \in Nat /\ y \in Nat /\ y < T
  BY <1>1, <1>3, DivMod
<1> HIDE DEF S, T, a, x, b, y
<1>5. w % T = y
  <2>1. w = T * (m * a + b) + y /\ m * a + b \in Nat
    BY <1>1, <1>2, <1>3, <1>4
  <2>2. PICK d : d = m * a + b
    OBVIOUS
  <2>3. w = T * d + y /\ d \in Nat
    BY <2>1, <2>2
  <2> QED BY <1>1, <1>4, <2>3, DivUnique
<1>6. y <= x
  <2>1. \A i \in Nat : T * i >= 0
    BY <1>1
  <2> QED BY <1>1, <1>3, <1>4, <2>1
<1>7. PICK q : q = S * a + y
  OBVIOUS
<1>8. S * a \in Nat
  BY <1>1, <1>3
<1>9. q \in Nat /\ q <= w /\ x = y + (w - q)
  BY <1>3, <1>4, <1>6, <1>7, <1>8
<1>10. q \in Pages
  <2>1. Fanout * Span[4] \in Nat /\ w < Fanout * Span[4]
    BY SpanFacts, PageFacts
  <2> DEFINE n == Fanout * Span[4]
  <2> HIDE DEF n
  <2>2. n \in Nat /\ w < n /\ Pages = 0..(n - 1)
    BY <2>1 DEF Pages, n
  <2> QED BY <1>1, <1>9, <2>2
<1>11. q \div S = a /\ q % S = y
  BY <1>1, <1>3, <1>4, <1>6, <1>7, <1>9, DivUnique
<1>12. SamePath(k, w, q)
  BY <1>10, <1>11, PathIsQuotient DEF S, a
<1> QED BY <1>5, <1>9, <1>10, <1>11, <1>12 DEF S, T, x

\* Every entry of a table below an aligned page is the entry of an aligned page.
LEMMA PageOfSlot ==
  ASSUME NEW l \in Levels, NEW v \in Pages, NEW n \in Slots,
         v % (Span[l] * Fanout) = 0
  PROVE  LET w == v + n * Span[l] IN
         /\ w \in Pages /\ w % Span[l] = 0 /\ Index(l, w) = n
         /\ \A k \in Levels : k > l => Index(k, w) = Index(k, v)
<1> DEFINE S == Span[l]
<1> DEFINE a == v \div (S * Fanout)
<1> DEFINE w == v + n * S
<1>1. S \in Nat /\ S > 0 /\ v \in Nat /\ v < Fanout * Span[4] /\ Fanout \in Nat /\ Fanout > 1
      /\ n \in Nat /\ n < Fanout
  BY SpanFacts, PageFacts DEF Slots
<1>2. S * Fanout \in Nat /\ S * Fanout > 0
  <2> HIDE DEF S
  <2> QED BY <1>1
<1>3. v % (S * Fanout) = 0
  OBVIOUS
<1> HIDE DEF S
<1>4. v = (S * Fanout) * a /\ a \in Nat
  <2>1. v = (S * Fanout) * a + (v % (S * Fanout)) /\ a \in Nat
    BY <1>1, <1>2, DivMod
  <2> HIDE DEF a
  <2> QED BY <1>2, <1>3, <2>1
<1> HIDE DEF a
<1>5. w = S * (Fanout * a + n) /\ w \in Nat /\ Fanout * a + n \in Nat
  BY <1>1, <1>4
<1>6. w \div S = Fanout * a + n /\ w % S = 0
  <2> DEFINE q == Fanout * a + n
  <2>1. w = S * q /\ q \in Nat
    BY <1>5
  <2> HIDE DEF w, q
  <2>2. w \in Nat /\ 0 \in Nat /\ 0 < S /\ w = S * q + 0
    BY <1>1, <1>5, <2>1
  <2>3. w \div S = q /\ w % S = 0
    BY ONLY <1>1, <2>1, <2>2, DivUnique
  <2> QED BY <2>3 DEF q
<1>7. (w \div S) % Fanout = n /\ (w \div S) \div Fanout = a
  <2> HIDE DEF w
  <2> QED BY <1>1, <1>4, <1>5, <1>6, DivUnique
<1>8. w \in Pages
  <2>1. PICK m \in Nat : Fanout * Span[4] = (S * Fanout) * m
    <3>1. l \in {1, 2, 3, 4}
      BY DEF Levels
    <3>2. /\ Span[1] = 1 /\ Span[2] = Fanout /\ Span[3] = Fanout * Fanout
          /\ Span[4] = Fanout * Fanout * Fanout /\ Fanout \in Nat
      BY SpanFacts
    <3>3. /\ Fanout * Span[4] = (Span[1] * Fanout) * Span[4]
          /\ Fanout * Span[4] = (Span[2] * Fanout) * Span[3]
          /\ Fanout * Span[4] = (Span[3] * Fanout) * Span[2]
          /\ Fanout * Span[4] = (Span[4] * Fanout) * Span[1]
      BY <3>2
    <3>4. Span[1] \in Nat /\ Span[2] \in Nat /\ Span[3] \in Nat /\ Span[4] \in Nat
      BY SpanFacts DEF Levels
    <3> QED BY <3>1, <3>3, <3>4 DEF S
  <2> DEFINE b == S * Fanout
  <2>2. b \in Nat /\ b > 0 /\ v = b * a /\ v < b * m /\ Fanout * Span[4] = b * m
    BY <1>1, <1>2, <1>4, <2>1
  <2>3. S * n + S <= b
    <3>1. \A i \in Nat : i >= 0 => S * i >= 0
      BY <1>1
    <3>2. S * (Fanout - 1 - n) >= 0
      BY <1>1, <3>1
    <3> QED BY <1>1, <3>2
  <2> HIDE DEF b
  <2>4. a < m
    <3>1. \A i, j \in Nat : i >= j => b * i >= b * j
      BY <2>2
    <3> QED BY <1>4, <2>2, <3>1
  <2>5. b * (a + 1) <= b * m
    <3>1. \A i, j \in Nat : i >= j => b * i >= b * j
      BY <2>2
    <3>2. a + 1 \in Nat /\ a + 1 <= m
      BY <1>4, <2>4
    <3> QED BY <3>1, <3>2
  <2>6. b * (a + 1) = v + b
    BY <1>4, <2>2
  <2>7. n * S = S * n
    BY <1>1
  <2>8. w < Fanout * Span[4]
    BY <1>1, <2>2, <2>3, <2>5, <2>6, <2>7
  <2> HIDE DEF w
  <2> QED BY <1>1, <1>5, <2>2, <2>8 DEF Pages
<1>9. Index(l, w) = n
  BY <1>7 DEF Index, S
<1>10. ASSUME NEW k \in Levels, k > l PROVE Index(k, w) = Index(k, v)
  <2> HIDE DEF w
  <2>1. l + 1 \in Levels /\ k >= l + 1 /\ l \in 1..3
    BY <1>10 DEF Levels
  <2>2. Span[l + 1] = S * Fanout
    BY <2>1, SpanUp DEF S
  <2>3. w \div (S * Fanout) = a
    <3>1. w \div (S * Fanout) = (w \div S) \div Fanout
      BY <1>1, <1>5, DivDiv
    <3> QED BY <1>7, <3>1
  <2>4. w \div Span[l + 1] = v \div Span[l + 1]
    BY <2>2, <2>3 DEF a
  <2>5. SamePath(l + 1, w, v)
    BY <1>8, <2>1, <2>4, PathIsQuotient
  <2> QED BY <2>1, <2>5 DEF SamePath
<1> QED BY <1>6, <1>8, <1>9, <1>10 DEF S, w

-----------------------------------------------------------------------------
(* How far a request has got *)

LEMMA Multiples ==
  ASSUME NEW S \in Nat, S > 0, NEW a \in Nat, NEW b \in Nat, a % S = 0, b % S = 0
  PROVE  /\ (a + b) % S = 0
         /\ a < b => a + S <= b
<1> DEFINE p == a \div S
<1> DEFINE q == b \div S
<1>1. p \in Nat /\ q \in Nat /\ a = S * p /\ b = S * q
  <2>1. a = S * p + (a % S) /\ p \in Nat
    BY DivMod
  <2>2. b = S * q + (b % S) /\ q \in Nat
    BY DivMod
  <2> HIDE DEF p, q
  <2> QED BY <2>1, <2>2
<1> HIDE DEF p, q
<1>2. (a + b) % S = 0
  <2>1. a + b = S * (p + q) + 0 /\ p + q \in Nat /\ 0 \in Nat /\ a + b \in Nat
    BY <1>1
  <2> QED BY <2>1, DivUnique
<1>3. ASSUME a < b PROVE a + S <= b
  <2>1. \A i, j \in Nat : i >= j => S * i >= S * j
    OBVIOUS
  <2>2. p < q
    BY <1>1, <1>3, <2>1
  <2>3. p + 1 \in Nat /\ q >= p + 1
    BY <1>1, <2>2
  <2>4. S * q >= S * (p + 1)
    BY <1>1, <2>1, <2>3
  <2>5. S * (p + 1) = S * p + S
    BY <1>1
  <2> QED BY <1>1, <2>4, <2>5
<1> QED BY <1>2, <1>3

LEMMA WholeSpans ==
  /\ \A a \in Nat : a % Span[3] = 0 => a % Span[2] = 0
  /\ \A a \in Nat : a % Span[1] = 0
  /\ \A l \in Levels : Span[l] % Span[l] = 0
  /\ Span[2] <= Span[3] /\ Span[1] = 1
  /\ Span[1] \in Nat \ {0} /\ Span[2] \in Nat \ {0} /\ Span[3] \in Nat \ {0}
<1>1. /\ Span[1] = 1 /\ Span[2] = Fanout /\ Span[3] = Fanout * Fanout
      /\ Fanout \in Nat /\ Fanout > 1
      /\ \A l \in Levels : Span[l] \in Nat /\ Span[l] > 0
  BY SpanFacts
<1>2. ASSUME NEW a \in Nat, a % Span[3] = 0 PROVE a % Span[2] = 0
  <2> DEFINE S == Span[3]
  <2> DEFINE q == a \div S
  <2>1. S \in Nat /\ S > 0 /\ S = Fanout * Fanout
    BY <1>1 DEF Levels
  <2>2. a = S * q + (a % S) /\ q \in Nat
    BY <2>1, DivMod
  <2> HIDE DEF q
  <2>3. a = Fanout * (Fanout * q) + 0 /\ Fanout * q \in Nat /\ 0 \in Nat /\ 0 < Fanout
    <3>1. a % S = 0
      BY <1>2
    <3> HIDE DEF S
    <3> QED BY <1>1, <2>1, <2>2, <3>1
  <2>4. a % Fanout = 0
    BY <1>1, <2>3, DivUnique
  <2> QED BY <1>1, <2>4
<1>3. \A a \in Nat : a % 1 = 0
  OBVIOUS
<1>4. \A a \in Nat : a > 0 => a % a = 0
  <2> TAKE a \in Nat
  <2> HAVE a > 0
  <2>1. a = a * 1 + 0 /\ 1 \in Nat /\ 0 \in Nat
    OBVIOUS
  <2> QED BY <2>1, DivUnique
<1>5. Fanout <= Fanout * Fanout /\ Fanout * Fanout \in Nat /\ Fanout * Fanout > 0
  <2>1. \A i \in Nat : i > 0 => Fanout * i >= Fanout /\ Fanout * i \in Nat
    BY <1>1
  <2> QED BY <1>1, <2>1
<1> QED BY <1>1, <1>2, <1>3, <1>4, <1>5

LEMMA WholePart ==
  ASSUME NEW n \in Nat, NEW S \in Nat, S > 0
  PROVE  LET m == (n \div S) * S IN
         m \in Nat /\ m <= n /\ m % S = 0 /\ n - m < S /\ (n >= S => m > 0)
<1> DEFINE q == n \div S
<1> DEFINE x == n % S
<1>1. n = S * q + x /\ q \in Nat /\ x \in Nat /\ x < S
  BY DivMod
<1> HIDE DEF q, x
<1> DEFINE m == q * S
<1>2. m = S * q /\ m \in Nat
  BY <1>1
<1>3. m % S = 0
  <2>1. m = S * q + 0 /\ 0 \in Nat
    BY <1>1
  <2> HIDE DEF m
  <2> QED BY <1>1, <1>2, <2>1, DivUnique
<1> HIDE DEF m
<1>4. m \in Nat /\ m <= n /\ m % S = 0 /\ n - m < S /\ (n >= S => m > 0)
  BY <1>1, <1>2, <1>3
<1> QED BY <1>4 DEF m, q

\* The parts of a range: 1 GiB pages, then 2 MiB pages, then the rest.
LEMMA ReachParts ==
  ASSUME NEW r \in Request
  PROVE  \E gib, mib \in Nat :
           /\ gib % Span[3] = 0 /\ mib % Span[2] = 0 /\ gib + mib <= r.size
           /\ GibPages /\ ~Only4K(r) => r.size - gib < Span[3]
           /\ ~(GibPages /\ ~Only4K(r)) => gib = 0
           /\ ~Only4K(r) => r.size - gib - mib < Span[2]
           /\ Only4K(r) => mib = 0
           /\ \A w : ReachedAt(r, w) = IF w < r.v + gib THEN 3
                                       ELSE IF w < r.v + gib + mib THEN 2 ELSE 1
<1> DEFINE gib == IF CallbackLevel(r, r.size) >= 3 THEN (r.size \div Span[3]) * Span[3] ELSE 0
<1> DEFINE mib == IF CallbackLevel(r, r.size - gib) >= 2
                    THEN ((r.size - gib) \div Span[2]) * Span[2] ELSE 0
<1>1. r.size \in Nat /\ Span[2] \in Nat /\ Span[2] > 0 /\ Span[3] \in Nat /\ Span[3] > 0
      /\ Span[2] <= Span[3]
  BY WholeSpans DEF Request
<1>2. 0 % Span[3] = 0 /\ 0 % Span[2] = 0
  BY <1>1
<1>3. \A n : CallbackLevel(r, n) >= 3 <=> GibPages /\ ~Only4K(r) /\ n >= Span[3]
  BY DEF CallbackLevel
<1>4. \A n \in Nat : CallbackLevel(r, n) >= 2 <=> ~Only4K(r) /\ n >= Span[2]
  BY <1>1 DEF CallbackLevel
<1>5. \A w : ReachedAt(r, w) = IF w < r.v + gib THEN 3
                               ELSE IF w < r.v + gib + mib THEN 2 ELSE 1
  BY DEF ReachedAt
<1>6. /\ gib \in Nat /\ gib % Span[3] = 0 /\ gib <= r.size
      /\ GibPages /\ ~Only4K(r) => r.size - gib < Span[3]
      /\ ~(GibPages /\ ~Only4K(r)) => gib = 0
  <2>1. CASE CallbackLevel(r, r.size) >= 3
    <3>1. gib = (r.size \div Span[3]) * Span[3]
      BY <2>1
    <3> HIDE DEF gib
    <3>2. gib \in Nat /\ gib % Span[3] = 0 /\ gib <= r.size /\ r.size - gib < Span[3]
      BY <1>1, <3>1, WholePart
    <3> QED BY <1>3, <2>1, <3>2
  <2>2. CASE ~(CallbackLevel(r, r.size) >= 3)
    <3>1. gib = 0
      BY <2>2
    <3> HIDE DEF gib
    <3> QED BY <1>1, <1>2, <1>3, <2>2, <3>1
  <2> QED BY <2>1, <2>2
<1> HIDE DEF gib
<1>7. r.size - gib \in Nat
  BY <1>1, <1>6
<1>8. /\ mib \in Nat /\ mib % Span[2] = 0 /\ mib <= r.size - gib
      /\ ~Only4K(r) => r.size - gib - mib < Span[2]
      /\ Only4K(r) => mib = 0
  <2>1. CASE CallbackLevel(r, r.size - gib) >= 2
    <3>1. mib = ((r.size - gib) \div Span[2]) * Span[2]
      BY <2>1
    <3> HIDE DEF mib
    <3>2. mib \in Nat /\ mib % Span[2] = 0 /\ mib <= r.size - gib /\ r.size - gib - mib < Span[2]
      BY <1>1, <1>7, <3>1, WholePart
    <3> QED BY <1>4, <1>7, <2>1, <3>2
  <2>2. CASE ~(CallbackLevel(r, r.size - gib) >= 2)
    <3>1. mib = 0
      BY <2>2
    <3> HIDE DEF mib
    <3>2. Only4K(r) \/ r.size - gib < Span[2]
      BY <1>1, <1>4, <1>7, <2>2
    <3> QED BY <1>1, <1>2, <1>7, <3>1, <3>2
  <2> QED BY <2>1, <2>2
<1> HIDE DEF mib
<1>9. gib + mib <= r.size
  BY <1>1, <1>6, <1>8
<1> QED BY <1>5, <1>6, <1>8, <1>9

LEMMA RequestFacts ==
  ASSUME NEW r \in Requests
  PROVE  /\ r \in Request /\ r.v \in Nat /\ r.size \in Nat /\ r.phys \in Nat
         /\ r.v + r.size <= Fanout * Span[4] /\ r.space \in Spaces /\ r.src \in Spaces
         /\ \A w \in RangeOf(r) : w \in Pages /\ w \in Nat
<1>1. r \in Request /\ r.v + r.size <= Fanout * Span[4]
  BY PagerAssumption
<1>2. r.v \in Pages /\ r.size \in Nat /\ r.phys \in Nat /\ r.space \in Spaces /\ r.src \in Spaces
  BY <1>1 DEF Request
<1>3. r.v \in Nat /\ Fanout * Span[4] \in Nat
  BY <1>2, SpanFacts, SMT DEF Pages, Levels
<1>4. \A w \in RangeOf(r) : w \in Pages /\ w \in Nat
  BY <1>1, <1>2, <1>3 DEF RangeOf, Pages
<1> QED BY <1>1, <1>2, <1>3, <1>4

\* At the start of an iteration, with left pages to go from page v on.
Iteration(r, v, left) ==
  /\ v \in Nat /\ left \in Nat /\ left > 0 /\ v >= r.v /\ v + left = r.v + r.size
  /\ ReachedAt(r, v) = CallbackLevel(r, left)
  /\ v % Span[CallbackLevel(r, left)] = 0

LEMMA FirstIteration ==
  ASSUME NEW r \in Requests, Aligned(r), r.size > 0
  PROVE  Iteration(r, r.v, r.size)
<1>1. r \in Request /\ r.v \in Nat /\ r.size \in Nat
  BY RequestFacts
<1>2. PICK gib, mib \in Nat :
           /\ gib % Span[3] = 0 /\ mib % Span[2] = 0 /\ gib + mib <= r.size
           /\ GibPages /\ ~Only4K(r) => r.size - gib < Span[3]
           /\ ~(GibPages /\ ~Only4K(r)) => gib = 0
           /\ ~Only4K(r) => r.size - gib - mib < Span[2]
           /\ Only4K(r) => mib = 0
           /\ \A w : ReachedAt(r, w) = IF w < r.v + gib THEN 3
                                       ELSE IF w < r.v + gib + mib THEN 2 ELSE 1
  BY <1>1, ReachParts
<1>3. Span[2] \in Nat /\ Span[3] \in Nat /\ Span[2] > 0 /\ Span[3] > 0 /\ Span[2] <= Span[3]
  BY WholeSpans
<1>4. \A n, S \in Nat : n % S = 0 /\ S > 0 /\ n > 0 => n >= S
  BY WholeSpans
<1>5. ReachedAt(r, r.v) = CallbackLevel(r, r.size)
  BY <1>1, <1>2, <1>3, <1>4 DEF CallbackLevel
<1>6. r.v % Span[CallbackLevel(r, r.size)] = 0
  BY DEF Aligned
<1> QED BY <1>1, <1>5, <1>6 DEF Iteration

\* An iteration's pages are all reached at the level it is at, later ones no
\* higher, and the next iteration starts where this one ends.
LEMMA Iterations ==
  ASSUME NEW r \in Requests, Aligned(r), NEW v, NEW left, Iteration(r, v, left)
  PROVE  LET c == CallbackLevel(r, left)
             w == v + Span[c]
         IN
         /\ c \in 1..3 /\ Span[c] \in Nat /\ Span[c] > 0 /\ Span[c] <= left
         /\ \A x \in v .. v + Span[c] - 1 : ReachedAt(r, x) = c
         /\ \A x \in v .. v + left - 1 : ReachedAt(r, x) \in 1..3 /\ ReachedAt(r, x) <= c
         /\ left # Span[c] => Iteration(r, w, left - Span[c])
<1> DEFINE c == CallbackLevel(r, left)
<1> DEFINE w == v + Span[c]
<1>1. r \in Request /\ r.v \in Nat /\ r.size \in Nat
  BY RequestFacts
<1>2. PICK gib, mib \in Nat :
           /\ gib % Span[3] = 0 /\ mib % Span[2] = 0 /\ gib + mib <= r.size
           /\ GibPages /\ ~Only4K(r) => r.size - gib < Span[3]
           /\ ~(GibPages /\ ~Only4K(r)) => gib = 0
           /\ ~Only4K(r) => r.size - gib - mib < Span[2]
           /\ Only4K(r) => mib = 0
           /\ \A x : ReachedAt(r, x) = IF x < r.v + gib THEN 3
                                       ELSE IF x < r.v + gib + mib THEN 2 ELSE 1
  BY <1>1, ReachParts
<1>3. Span[2] \in Nat /\ Span[3] \in Nat /\ Span[2] > 0 /\ Span[3] > 0 /\ Span[2] <= Span[3]
      /\ Span[1] = 1
  BY WholeSpans
<1>4. /\ v \in Nat /\ left \in Nat /\ left > 0 /\ v >= r.v /\ v + left = r.v + r.size
      /\ ReachedAt(r, v) = c /\ v % Span[c] = 0
  BY DEF Iteration
<1>5. c \in 1..3 /\ Span[c] <= left
  BY <1>4, CallbackFacts
<1>6. Span[c] \in Nat /\ Span[c] > 0
  BY <1>3, <1>5
<1>7. r.v % Span[c] = 0
  <2>1. r.v % Span[CallbackLevel(r, r.size)] = 0
    BY DEF Aligned
  <2>2. left <= r.size
    BY <1>1, <1>4
  <2>3. c <= CallbackLevel(r, r.size) /\ CallbackLevel(r, r.size) \in 1..3
    BY <1>1, <1>3, <1>4, <2>2 DEF CallbackLevel
  <2> QED BY <1>1, <1>5, <2>1, <2>3, WholeSpans
<1> DEFINE G == GibPages /\ ~Only4K(r)
<1> DEFINE M == ~Only4K(r)
<1>8. \A n : CallbackLevel(r, n) = IF G /\ n >= Span[3] THEN 3
                                   ELSE IF M /\ n >= Span[2] THEN 2 ELSE 1
  BY DEF CallbackLevel
<1>9. /\ c = 3 => v < r.v + gib
      /\ c = 2 => v >= r.v + gib /\ v < r.v + gib + mib
      /\ c = 1 => v >= r.v + gib + mib
  BY <1>1, <1>2, <1>4
<1>10. w % Span[c] = 0 /\ w \in Nat
  <2> HIDE DEF c
  <2>1. Span[c] % Span[c] = 0
    BY <1>5, WholeSpans DEF Levels
  <2> DEFINE S == Span[c]
  <2>2. S \in Nat /\ S > 0 /\ S % S = 0 /\ v \in Nat /\ v % S = 0 /\ w = v + S
    BY <1>4, <1>6, <2>1
  <2> HIDE DEF S, w
  <2>3. (v + S) % S = 0 /\ v + S \in Nat
    BY <2>2, Multiples
  <2> QED BY <2>2, <2>3 DEF S
<1>11. /\ (r.v + gib) % Span[2] = 0 \/ c = 1
       /\ (r.v + gib) % Span[3] = 0 \/ c # 3
       /\ (r.v + gib + mib) % Span[2] = 0 \/ c # 2
  <2>1. gib % Span[2] = 0
    BY <1>2, WholeSpans
  <2>2. c # 1 => r.v % Span[2] = 0
    BY <1>1, <1>5, <1>7, WholeSpans
  <2> HIDE DEF c
  <2>0. gib % Span[3] = 0 /\ mib % Span[2] = 0 /\ r.v + gib \in Nat
    BY <1>1, <1>2
  <2>3. ASSUME c # 1 PROVE (r.v + gib) % Span[2] = 0
    <3>1. r.v % Span[2] = 0
      BY <2>2, <2>3
    <3> QED BY <1>1, <1>3, <2>1, <3>1, Multiples
  <2>4. ASSUME c # 1 PROVE (r.v + gib + mib) % Span[2] = 0
    BY <1>3, <2>0, <2>3, <2>4, Multiples
  <2>5. ASSUME c = 3 PROVE (r.v + gib) % Span[3] = 0
    <3>1. r.v % Span[3] = 0
      BY <1>7, <2>5
    <3> QED BY <1>1, <1>3, <2>0, <3>1, Multiples
  <2> QED BY <2>3, <2>4, <2>5
<1>12. /\ c = 3 => w <= r.v + gib
       /\ c = 2 => w <= r.v + gib + mib
  <2>1. ASSUME c = 3 PROVE w <= r.v + gib
    <3>1. r.v + gib \in Nat /\ v % Span[3] = 0 /\ (r.v + gib) % Span[3] = 0 /\ v < r.v + gib
      BY <1>1, <1>4, <1>9, <1>11, <2>1
    <3>2. v + Span[3] <= r.v + gib
      BY <1>3, <1>4, <3>1, Multiples
    <3> QED BY <2>1, <3>2
  <2>2. ASSUME c = 2 PROVE w <= r.v + gib + mib
    <3>1. r.v + gib + mib \in Nat /\ v % Span[2] = 0 /\ (r.v + gib + mib) % Span[2] = 0
          /\ v < r.v + gib + mib
      BY <1>1, <1>4, <1>9, <1>11, <2>2
    <3>2. v + Span[2] <= r.v + gib + mib
      BY <1>3, <1>4, <3>1, Multiples
    <3> QED BY <2>2, <3>2
  <2> QED BY <2>1, <2>2
<1> DEFINE rest == left - Span[c]
<1> HIDE DEF c, w, G, M
<1>13. \A x \in v .. v + Span[c] - 1 : ReachedAt(r, x) = c
  <2> TAKE x \in v .. v + Span[c] - 1
  <2>1. x >= v /\ x < w /\ x \in Nat
    BY <1>4, <1>6 DEF w
  <2> QED BY <1>1, <1>2, <1>4, <1>5, <1>9, <1>10, <1>12, <2>1
<1>14. \A x \in v .. v + left - 1 : ReachedAt(r, x) \in 1..3 /\ ReachedAt(r, x) <= c
  <2> TAKE x \in v .. v + left - 1
  <2>1. x >= v /\ x \in Nat
    BY <1>4
  <2> QED BY <1>1, <1>2, <1>4, <1>5, <1>9, <2>1
<1>15. ASSUME left # Span[c] PROVE Iteration(r, w, rest)
  <2>1. rest \in Nat /\ rest > 0 /\ w >= r.v /\ w + rest = r.v + r.size
    BY <1>1, <1>4, <1>5, <1>6, <1>15 DEF w
  <2> HIDE DEF rest
  <2>2. CASE w < r.v + gib
    <3>1. c = 3 /\ ReachedAt(r, w) = 3
      BY <1>1, <1>2, <1>4, <1>5, <1>6, <1>9, <1>10, <2>2 DEF w
    <3>2. w + Span[3] <= r.v + gib
      <4>1. w % Span[3] = 0 /\ (r.v + gib) % Span[3] = 0 /\ r.v + gib \in Nat
        BY <1>1, <1>10, <1>11, <3>1
      <4> QED BY <1>3, <1>10, <2>2, <4>1, Multiples
    <3>3. rest >= Span[3] /\ G
      BY <1>1, <1>2, <1>3, <1>10, <2>1, <2>2, <3>2 DEF G
    <3>4. CallbackLevel(r, rest) = 3
      BY <1>8, <3>3
    <3> QED BY <1>10, <2>1, <3>1, <3>4 DEF Iteration
  <2>3. CASE w >= r.v + gib /\ w < r.v + gib + mib
    <3>1. ReachedAt(r, w) = 2 /\ c # 1
      BY <1>1, <1>2, <1>4, <1>5, <1>6, <1>9, <1>10, <2>3 DEF w
    <3>2. w % Span[2] = 0
      BY <1>5, <1>10, <3>1, WholeSpans
    <3>3. r.v + gib + mib \in Nat /\ (r.v + gib + mib) % Span[2] = 0
      <4> DEFINE a == r.v + gib
      <4> DEFINE b == mib
      <4> DEFINE S == Span[2]
      <4>1. a \in Nat /\ a % S = 0 /\ b \in Nat /\ b % S = 0 /\ S \in Nat /\ S > 0
        BY <1>1, <1>2, <1>3, <1>11, <3>1
      <4> HIDE DEF a, b, S
      <4>2. (a + b) % S = 0
        BY ONLY <4>1, Multiples
      <4>3. a + b \in Nat
        BY <4>1
      <4> QED BY <4>2, <4>3 DEF a, b, S
    <3>4. w + Span[2] <= r.v + gib + mib
      BY <1>3, <1>10, <2>3, <3>2, <3>3, Multiples
    <3>5. rest >= Span[2] /\ M /\ ~(G /\ rest >= Span[3])
      <4>1. rest >= Span[2]
        BY <1>1, <1>2, <1>3, <1>10, <2>1, <3>4
      <4>2. mib # 0
        BY <1>1, <1>10, <2>3
      <4>3. M
        BY <1>2, <4>2 DEF M
      <4>4. ASSUME G PROVE ~(rest >= Span[3])
        <5>1. r.size - gib < Span[3]
          BY <1>2, <4>4 DEF G
        <5> QED BY <1>1, <1>3, <1>10, <2>1, <2>3, <5>1
      <4> QED BY <4>1, <4>3, <4>4
    <3>6. CallbackLevel(r, rest) = 2
      BY <1>8, <3>5
    <3> QED BY <1>10, <2>1, <3>1, <3>2, <3>6 DEF Iteration
  <2>4. CASE w >= r.v + gib + mib
    <3>1. ReachedAt(r, w) = 1
      BY <1>1, <1>2, <1>10, <2>4
    <3>2. ~(M /\ rest >= Span[2]) /\ ~(G /\ rest >= Span[3])
      BY <1>1, <1>2, <1>3, <1>10, <2>1, <2>4 DEF G, M
    <3>3. CallbackLevel(r, rest) = 1
      BY <1>8, <3>2
    <3>4. w % Span[1] = 0
      BY <1>10, WholeSpans
    <3> QED BY <1>10, <2>1, <3>1, <3>3, <3>4 DEF Iteration
  <2> QED BY <1>1, <1>10, <2>2, <2>3, <2>4
<1> QED BY <1>5, <1>6, <1>13, <1>14, <1>15 DEF c, w

-----------------------------------------------------------------------------
(* Walks *)

\* The table in which the walk to page v of space s reads its entry at level l.
TableAt(l, s, v) ==
  IF l = 4 THEN root[s]
  ELSE IF IsTable(EntryAt(l + 1, s, v)) /\ EntryAt(l + 1, s, v).addr \in Frames
         THEN EntryAt(l + 1, s, v).addr
  ELSE NoFrame

LEMMA WalkSteps ==
  ASSUME NEW s \in Spaces, NEW v
  PROVE  \A l \in Levels : EntryAt(l, s, v) =
           IF TableAt(l, s, v) = NoFrame THEN Zero ELSE mem[TableAt(l, s, v)][Index(l, v)]
<1> DEFINE e4 == IF root[s] = NoFrame THEN Zero ELSE mem[root[s]][Index(4, v)]
<1> DEFINE e3 == EntryUnder(e4, 3, v)
<1> DEFINE e2 == EntryUnder(e3, 2, v)
<1> DEFINE e1 == EntryUnder(e2, 1, v)
<1>1. /\ EntryAt(4, s, v) = e4 /\ EntryAt(3, s, v) = e3
      /\ EntryAt(2, s, v) = e2 /\ EntryAt(1, s, v) = e1
  <2>1. Walk(s, v) = <<e1, e2, e3, e4>>
    BY DEF Walk
  <2> HIDE DEF e1, e2, e3, e4
  <2> QED BY <2>1 DEF EntryAt
<1>2. EntryAt(4, s, v) = IF TableAt(4, s, v) = NoFrame THEN Zero
                         ELSE mem[TableAt(4, s, v)][Index(4, v)]
  BY <1>1 DEF TableAt
<1> HIDE DEF e1, e2, e3, e4
<1>3. NoFrame \notin Frames
  BY PagerAssumption
<1>4. /\ TableAt(3, s, v) = IF IsTable(e4) /\ e4.addr \in Frames THEN e4.addr ELSE NoFrame
      /\ TableAt(2, s, v) = IF IsTable(e3) /\ e3.addr \in Frames THEN e3.addr ELSE NoFrame
      /\ TableAt(1, s, v) = IF IsTable(e2) /\ e2.addr \in Frames THEN e2.addr ELSE NoFrame
  BY <1>1 DEF TableAt
<1>5. EntryAt(3, s, v) = IF TableAt(3, s, v) = NoFrame THEN Zero
                         ELSE mem[TableAt(3, s, v)][Index(3, v)]
  BY <1>1, <1>3, <1>4 DEF e3, EntryUnder
<1>6. EntryAt(2, s, v) = IF TableAt(2, s, v) = NoFrame THEN Zero
                         ELSE mem[TableAt(2, s, v)][Index(2, v)]
  BY <1>1, <1>3, <1>4 DEF e2, EntryUnder
<1>7. EntryAt(1, s, v) = IF TableAt(1, s, v) = NoFrame THEN Zero
                         ELSE mem[TableAt(1, s, v)][Index(1, v)]
  BY <1>1, <1>3, <1>4 DEF e1, EntryUnder
<1> QED BY <1>2, <1>5, <1>6, <1>7 DEF Levels

LEMMA WalkTypes ==
  ASSUME TypeOK, NEW s \in Spaces, NEW v \in Pages
  PROVE  /\ Walk(s, v) \in [Levels -> Entry]
         /\ \A l \in Levels : EntryAt(l, s, v) \in Entry
         /\ \A l \in Levels : TableAt(l, s, v) \in Frames \union {NoFrame}
<1>1. \A l \in Levels : Index(l, v) \in Slots
  BY IndexFacts, PageFacts
<1>2. \A l \in Levels : TableAt(l, s, v) \in Frames \union {NoFrame}
  BY DEF TableAt, TypeOK
<1>3. \A l \in Levels : EntryAt(l, s, v) \in Entry
  BY <1>1, <1>2, WalkSteps, Zeroes DEF TypeOK
<1>4. PICK e1, e2, e3, e4 : Walk(s, v) = <<e1, e2, e3, e4>>
  BY DEF Walk
<1>5. e1 \in Entry /\ e2 \in Entry /\ e3 \in Entry /\ e4 \in Entry
  BY <1>3, <1>4 DEF EntryAt, Levels
<1> QED BY <1>2, <1>3, <1>4, <1>5 DEF Levels

LEMMA LeafLevels ==
  ASSUME TypeOK, NEW s \in Spaces, NEW v \in Pages
  PROVE  LeafLevel(s, v) = IF EntryAt(3, s, v).present /\ EntryAt(3, s, v).ps THEN 3
                           ELSE IF EntryAt(2, s, v).present /\ EntryAt(2, s, v).ps THEN 2
                           ELSE IF EntryAt(1, s, v).present THEN 1 ELSE 0
BY WalkTypes DEF LeafLevel, LevelOf, EntryAt

-----------------------------------------------------------------------------
(* The trees *)

TablesAt(l) == IF l = 4 THEN Roots ELSE IF l = 3 THEN Pdpts ELSE IF l = 2 THEN Pds ELSE Pts

LEMMA BelowFacts ==
  /\ \A l \in 1..3 : TablesAt(l) = TablesBelow(TablesAt(l + 1))
  /\ Tables = TablesAt(1) \union TablesAt(2) \union TablesAt(3) \union TablesAt(4)
  /\ Directories = TableSlots(TablesAt(4)) \union TableSlots(TablesAt(3)) \union TableSlots(TablesAt(2))
  /\ TablesAt(4) = Roots
<1>1. \A l \in 1..3 : TablesAt(l) = TablesBelow(TablesAt(l + 1))
  BY DEF TablesAt, Pdpts, Pds, Pts
<1>2. Tables = TablesAt(1) \union TablesAt(2) \union TablesAt(3) \union TablesAt(4)
  BY DEF TablesAt, Tables
<1>3. Directories = TableSlots(Roots) \union TableSlots(Pdpts) \union TableSlots(Pds)
  BY DEF Directories, TableSlots
<1> QED BY <1>1, <1>2, <1>3 DEF TablesAt

\* A table one level down is the address in a slot.
LEMMA BelowSlots ==
  ASSUME NEW A, NEW f
  PROVE  f \in TablesBelow(A) <=> \E g \in A, n \in Slots : IsTable(mem[g][n]) /\ mem[g][n].addr = f
<1>1. ASSUME NEW g \in A, NEW n \in Slots, IsTable(mem[g][n]), mem[g][n].addr = f
      PROVE  f \in TablesBelow(A)
  <2>1. <<g, n>> \in TableSlots(A)
    BY <1>1 DEF TableSlots
  <2> QED BY <1>1, <2>1 DEF TablesBelow
<1>2. ASSUME f \in TablesBelow(A)
      PROVE  \E g \in A, n \in Slots : IsTable(mem[g][n]) /\ mem[g][n].addr = f
  <2>1. PICK x \in TableSlots(A) : f = mem[x[1]][x[2]].addr
    BY <1>2 DEF TablesBelow
  <2> QED BY <2>1 DEF TableSlots
<1> QED BY <1>1, <1>2

\* TreeShape for a slot that is a directory entry.
LEMMA OneEntry ==
  ASSUME TreeShape, NEW l \in 2..4, NEW f \in TablesAt(l), NEW n \in Slots, IsTable(mem[f][n])
  PROVE  <<f, n>> \in Directories /\ mem[f][n].addr \notin Roots
<1>1. <<f, n>> \in Directories
  <2>1. <<f, n>> \in TableSlots(TablesAt(l))
    BY DEF TableSlots
  <2> QED BY <2>1, BelowFacts
<1> QED BY <1>1 DEF TreeShape

LEMMA OneParent ==
  ASSUME TreeShape, NEW l \in 2..4, NEW k \in 2..4,
         NEW f \in TablesAt(l), NEW n \in Slots, NEW g \in TablesAt(k), NEW m \in Slots,
         IsTable(mem[f][n]), IsTable(mem[g][m]), mem[f][n].addr = mem[g][m].addr
  PROVE  f = g /\ n = m
<1> DEFINE x == <<f, n>>
<1> DEFINE y == <<g, m>>
<1>1. x \in Directories /\ y \in Directories
  BY OneEntry
<1>2. mem[x[1]][x[2]].addr = mem[y[1]][y[2]].addr
  OBVIOUS
<1> HIDE DEF x, y
<1>3. x = y
  BY <1>1, <1>2 DEF TreeShape
<1> QED BY <1>3 DEF x, y

LEMMA LevelsApart ==
  ASSUME TreeShape, NEW l \in Levels, NEW k \in Levels, l # k
  PROVE  TablesAt(l) \intersect TablesAt(k) = {}
<1>1. \A i \in 1..3 : TablesAt(i) \intersect TablesAt(4) = {}
  <2> SUFFICES ASSUME NEW i \in 1..3, NEW f \in TablesAt(i), f \in TablesAt(4) PROVE FALSE
    OBVIOUS
  <2>1. f \in TablesBelow(TablesAt(i + 1)) /\ i + 1 \in 2..4
    BY BelowFacts
  <2>2. PICK g \in TablesAt(i + 1), n \in Slots : IsTable(mem[g][n]) /\ mem[g][n].addr = f
    BY <2>1, BelowSlots
  <2>3. f \notin Roots
    BY <2>1, <2>2, OneEntry
  <2> QED BY <2>3, BelowFacts
<1>2. ASSUME NEW i \in 1..3, NEW j \in 1..3, TablesAt(i) \intersect TablesAt(j) # {}
      PROVE  TablesAt(i + 1) \intersect TablesAt(j + 1) # {}
  <2>1. PICK f : f \in TablesAt(i) /\ f \in TablesAt(j)
    BY <1>2
  <2> DEFINE a == i + 1
  <2> DEFINE b == j + 1
  <2>2. a \in 2..4 /\ b \in 2..4
    OBVIOUS
  <2>3. f \in TablesBelow(TablesAt(a)) /\ f \in TablesBelow(TablesAt(b))
    BY <2>1, BelowFacts
  <2> HIDE DEF a, b
  <2>4. PICK g \in TablesAt(a), n \in Slots : IsTable(mem[g][n]) /\ mem[g][n].addr = f
    BY <2>3, BelowSlots
  <2>5. PICK h \in TablesAt(b), m \in Slots : IsTable(mem[h][m]) /\ mem[h][m].addr = f
    BY <2>3, BelowSlots
  <2>6. g = h
    BY ONLY TreeShape, <2>2, <2>4, <2>5, OneParent
  <2> QED BY <2>4, <2>5, <2>6 DEF a, b
<1>3. /\ TablesAt(3) \intersect TablesAt(4) = {} /\ TablesAt(2) \intersect TablesAt(4) = {}
      /\ TablesAt(1) \intersect TablesAt(4) = {}
  BY <1>1
<1>4. TablesAt(2) \intersect TablesAt(3) = {} /\ TablesAt(1) \intersect TablesAt(3) = {}
  BY <1>2, <1>3
<1>5. TablesAt(1) \intersect TablesAt(2) = {}
  BY <1>2, <1>4
<1> QED BY <1>3, <1>4, <1>5 DEF Levels

\* The tables of a walk.
LEMMA OnTheWay ==
  ASSUME TypeOK, NEW s \in Spaces, NEW v \in Pages
  PROVE  \A l \in Levels : TableAt(l, s, v) # NoFrame => TableAt(l, s, v) \in TablesAt(l)
<1>1. TableAt(4, s, v) # NoFrame => TableAt(4, s, v) \in TablesAt(4)
  BY BelowFacts DEF TableAt, Roots
<1>2. ASSUME NEW l \in 1..3, TableAt(l + 1, s, v) # NoFrame => TableAt(l + 1, s, v) \in TablesAt(l + 1),
             TableAt(l, s, v) # NoFrame
      PROVE  TableAt(l, s, v) \in TablesAt(l)
  <2>1. IsTable(EntryAt(l + 1, s, v)) /\ TableAt(l, s, v) = EntryAt(l + 1, s, v).addr
    BY <1>2 DEF TableAt
  <2>2. l + 1 \in Levels /\ Index(l + 1, v) \in Slots
    BY IndexFacts, PageFacts DEF Levels
  <2>3. /\ TableAt(l + 1, s, v) # NoFrame
        /\ EntryAt(l + 1, s, v) = mem[TableAt(l + 1, s, v)][Index(l + 1, v)]
    BY <2>1, <2>2, WalkSteps DEF Zero, IsTable
  <2>4. TableAt(l, s, v) \in TablesBelow(TablesAt(l + 1))
    BY <1>2, <2>1, <2>2, <2>3, BelowSlots
  <2> QED BY <2>4, BelowFacts
<1>3. TableAt(3, s, v) # NoFrame => TableAt(3, s, v) \in TablesAt(3)
  BY <1>1, <1>2
<1>4. TableAt(2, s, v) # NoFrame => TableAt(2, s, v) \in TablesAt(2)
  BY <1>2, <1>3
<1>5. TableAt(1, s, v) # NoFrame => TableAt(1, s, v) \in TablesAt(1)
  BY <1>2, <1>4
<1> QED BY <1>1, <1>3, <1>4, <1>5 DEF Levels

\* A table is on the way of the pages below one entry of its parent only.
LEMMA OnePath ==
  ASSUME TypeOK, TreeShape, NEW s \in Spaces, NEW v \in Pages, NEW x \in Spaces, NEW w \in Pages,
         NEW l \in Levels, NEW k \in Levels,
         TableAt(l, s, v) # NoFrame, TableAt(l, s, v) = TableAt(k, x, w)
  PROVE  /\ l = k /\ s = x
         /\ \A i \in Levels : i > l => Index(i, v) = Index(i, w)
<1>1. l = k
  BY LevelsApart, OnTheWay
<1>2. TableAt(4, s, v) # NoFrame /\ TableAt(4, s, v) = TableAt(4, x, w) => s = x
  BY DEF TableAt, TreeShape
<1>3. ASSUME NEW i \in 1..3, TableAt(i, s, v) # NoFrame, TableAt(i, s, v) = TableAt(i, x, w)
      PROVE  /\ TableAt(i + 1, s, v) # NoFrame /\ TableAt(i + 1, s, v) = TableAt(i + 1, x, w)
             /\ Index(i + 1, v) = Index(i + 1, w)
  <2> DEFINE j == i + 1
  <2>1. j \in 2..4 /\ j \in Levels
    BY DEF Levels
  <2>2. /\ IsTable(EntryAt(j, s, v)) /\ TableAt(i, s, v) = EntryAt(j, s, v).addr
        /\ IsTable(EntryAt(j, x, w)) /\ TableAt(i, x, w) = EntryAt(j, x, w).addr
    BY <1>3 DEF TableAt
  <2> HIDE DEF j
  <2>3. Index(j, v) \in Slots /\ Index(j, w) \in Slots
    BY <2>1, IndexFacts, PageFacts
  <2>4. /\ TableAt(j, s, v) # NoFrame /\ EntryAt(j, s, v) = mem[TableAt(j, s, v)][Index(j, v)]
        /\ TableAt(j, x, w) # NoFrame /\ EntryAt(j, x, w) = mem[TableAt(j, x, w)][Index(j, w)]
    BY <2>1, <2>2, WalkSteps DEF Zero, IsTable
  <2>5. TableAt(j, s, v) \in TablesAt(j) /\ TableAt(j, x, w) \in TablesAt(j)
    BY <2>1, <2>4, OnTheWay
  <2>6. TableAt(j, s, v) = TableAt(j, x, w) /\ Index(j, v) = Index(j, w)
    <3> DEFINE f == TableAt(j, s, v)
    <3> DEFINE g == TableAt(j, x, w)
    <3> DEFINE n == Index(j, v)
    <3> DEFINE m == Index(j, w)
    <3>1. /\ f \in TablesAt(j) /\ g \in TablesAt(j) /\ n \in Slots /\ m \in Slots
          /\ IsTable(mem[f][n]) /\ IsTable(mem[g][m])
          /\ mem[f][n].addr = mem[g][m].addr
      BY <1>3, <2>2, <2>3, <2>4, <2>5
    <3> HIDE DEF f, g, n, m
    <3>2. f = g /\ n = m
      BY <2>1, <3>1, OneParent
    <3> QED BY <3>2 DEF f, g, n, m
  <2> QED BY <2>4, <2>6 DEF j
<1> DEFINE Same(i) == TableAt(i, s, v) # NoFrame /\ TableAt(i, s, v) = TableAt(i, x, w)
<1>4. /\ Same(1) => Same(2) /\ Index(2, v) = Index(2, w)
      /\ Same(2) => Same(3) /\ Index(3, v) = Index(3, w)
      /\ Same(3) => Same(4) /\ Index(4, v) = Index(4, w)
  BY <1>3
<1>5. Same(l)
  BY <1>1
<1>6. Same(4) => s = x
  BY <1>2
<1> HIDE DEF Same
<1> QED BY <1>1, <1>4, <1>5, <1>6 DEF Levels

\* Two walks with the same indices above level k come to the same table there.
LEMMA SameAbove ==
  ASSUME NEW s \in Spaces, NEW v \in Pages, NEW w \in Pages, NEW k \in Levels,
         \A i \in Levels : i > k => Index(i, v) = Index(i, w)
  PROVE  /\ \A i \in Levels : i >= k => TableAt(i, s, v) = TableAt(i, s, w)
         /\ \A i \in Levels : i > k => EntryAt(i, s, v) = EntryAt(i, s, w)
<1>1. TableAt(4, s, w) = TableAt(4, s, v)
  BY DEF TableAt
<1>2. \A i \in Levels : EntryAt(i, s, v) = IF TableAt(i, s, v) = NoFrame THEN Zero
                                             ELSE mem[TableAt(i, s, v)][Index(i, v)]
  BY WalkSteps
<1>3. \A i \in Levels : EntryAt(i, s, w) = IF TableAt(i, s, w) = NoFrame THEN Zero
                                             ELSE mem[TableAt(i, s, w)][Index(i, w)]
  BY WalkSteps
<1>4. ASSUME NEW i \in 1..3, i + 1 > k, TableAt(i + 1, s, w) = TableAt(i + 1, s, v)
      PROVE  TableAt(i, s, w) = TableAt(i, s, v)
  <2>1. i + 1 \in Levels /\ i # 4
    BY DEF Levels
  <2>2. EntryAt(i + 1, s, w) = EntryAt(i + 1, s, v)
    BY <1>2, <1>3, <1>4, <2>1
  <2> QED BY <2>1, <2>2 DEF TableAt
<1>5. /\ k <= 3 => TableAt(3, s, w) = TableAt(3, s, v)
      /\ k <= 2 => TableAt(2, s, w) = TableAt(2, s, v)
      /\ k <= 1 => TableAt(1, s, w) = TableAt(1, s, v)
  BY <1>1, <1>4 DEF Levels
<1>6. \A i \in Levels : i >= k => TableAt(i, s, v) = TableAt(i, s, w)
  BY <1>1, <1>5 DEF Levels
<1> QED BY <1>2, <1>3, <1>6 DEF Levels

LEMMA SameFrom ==
  ASSUME NEW s \in Spaces, NEW v \in Pages, NEW w \in Pages, NEW k \in Levels, SamePath(k, v, w)
  PROVE  \A i \in Levels : i >= k => /\ TableAt(i, s, v) = TableAt(i, s, w)
                                      /\ EntryAt(i, s, v) = EntryAt(i, s, w)
<1>1. \A i \in Levels : i >= k => Index(i, v) = Index(i, w)
  BY DEF SamePath
<1>2. \A i \in Levels : i >= k => TableAt(i, s, v) = TableAt(i, s, w)
  BY <1>1, SameAbove DEF Levels
<1> QED BY <1>1, <1>2, WalkSteps

\* Below an entry that is no table there is nothing.
LEMMA NothingBelow ==
  ASSUME NEW s \in Spaces, NEW v \in Pages, NEW k \in Levels, ~IsTable(EntryAt(k, s, v))
  PROVE  \A i \in Levels : i < k => TableAt(i, s, v) = NoFrame /\ EntryAt(i, s, v) = Zero
<1>1. \A i \in Levels : EntryAt(i, s, v) = IF TableAt(i, s, v) = NoFrame THEN Zero
                                             ELSE mem[TableAt(i, s, v)][Index(i, v)]
  BY WalkSteps
<1>2. \A i \in 1..3 : ~IsTable(EntryAt(i + 1, s, v)) => TableAt(i, s, v) = NoFrame
  BY DEF TableAt
<1>3. ~IsTable(Zero)
  BY DEF IsTable, Zero
<1>4. \A i \in 1..3 : ~IsTable(EntryAt(i + 1, s, v)) => ~IsTable(EntryAt(i, s, v))
                                                          /\ EntryAt(i, s, v) = Zero
  BY <1>1, <1>2, <1>3 DEF Levels
<1> QED BY <1>2, <1>4 DEF Levels

\* Every slot of a table is the entry of a page.
LEMMA EverySlot ==
  ASSUME TypeOK, Tables \subseteq Frames, NEW l \in Levels, NEW f \in TablesAt(l), NEW n \in Slots
  PROVE  \E s \in Spaces, v \in Pages :
           TableAt(l, s, v) = f /\ Index(l, v) = n /\ EntryAt(l, s, v) = mem[f][n]
<1> DEFINE Below(k, g) == \E s \in Spaces, v \in Pages :
                           TableAt(k, s, v) = g /\ v % (Span[k] * Fanout) = 0
<1>1. ASSUME NEW g \in TablesAt(4) PROVE Below(4, g)
  <2>1. PICK s \in Spaces : g = root[s]
    BY <1>1, BelowFacts DEF Roots
  <2>2. 0 \in Pages /\ 0 % (Span[4] * Fanout) = 0
    <3>1. Fanout * Span[4] \in Nat /\ Fanout * Span[4] > 0 /\ Span[4] * Fanout \in Nat
          /\ Span[4] * Fanout > 0
      BY SpanFacts, SMT DEF Levels
    <3>2. \A d \in Nat : d > 0 => 0 % d = 0
      OBVIOUS
    <3> QED BY <3>1, <3>2 DEF Pages
  <2>3. TableAt(4, s, 0) = g
    BY <2>1 DEF TableAt
  <2> QED BY <2>2, <2>3
<1>2. ASSUME NEW k \in Levels, NEW g \in TablesAt(k), NEW m \in Slots, Below(k, g)
      PROVE  \E s \in Spaces, v \in Pages :
               /\ TableAt(k, s, v) = g /\ Index(k, v) = m /\ EntryAt(k, s, v) = mem[g][m]
               /\ v % Span[k] = 0
  <2>1. PICK s \in Spaces, v \in Pages : TableAt(k, s, v) = g /\ v % (Span[k] * Fanout) = 0
    BY <1>2
  <2> DEFINE w == v + m * Span[k]
  <2>2. /\ w \in Pages /\ w % Span[k] = 0 /\ Index(k, w) = m
        /\ \A i \in Levels : i > k => Index(i, w) = Index(i, v)
    BY <2>1, PageOfSlot
  <2> HIDE DEF w
  <2>3. TableAt(k, s, w) = TableAt(k, s, v)
    BY <2>2, SameAbove DEF Levels
  <2>4. g # NoFrame
    <3>1. g \in Frames
      BY BelowFacts DEF Levels
    <3> QED BY <3>1, PagerAssumption
  <2>5. EntryAt(k, s, w) = mem[g][m]
    BY <2>1, <2>2, <2>3, <2>4, WalkSteps
  <2> QED BY <2>1, <2>2, <2>3, <2>5
<1>3. ASSUME NEW k \in 1..3, NEW g \in TablesAt(k), \A h \in TablesAt(k + 1) : Below(k + 1, h)
      PROVE  Below(k, g)
  <2>1. g \in TablesBelow(TablesAt(k + 1)) /\ k + 1 \in Levels
    BY BelowFacts DEF Levels
  <2>2. PICK h \in TablesAt(k + 1), m \in Slots : IsTable(mem[h][m]) /\ mem[h][m].addr = g
    BY <2>1, BelowSlots
  <2>3. PICK s \in Spaces, v \in Pages :
          EntryAt(k + 1, s, v) = mem[h][m] /\ v % Span[k + 1] = 0
    BY <1>2, <1>3, <2>1, <2>2
  <2>4. g \in Frames
    BY BelowFacts DEF Levels
  <2>5. TableAt(k, s, v) = g
    BY <2>2, <2>3, <2>4 DEF TableAt
  <2>6. Span[k + 1] = Span[k] * Fanout
    BY SpanUp
  <2> QED BY <2>3, <2>5, <2>6
<1>4. \A g \in TablesAt(3) : Below(3, g)
  BY <1>1, <1>3
<1>5. \A g \in TablesAt(2) : Below(2, g)
  BY <1>3, <1>4
<1>6. \A g \in TablesAt(1) : Below(1, g)
  BY <1>3, <1>5
<1>7. Below(l, f)
  BY <1>1, <1>4, <1>5, <1>6 DEF Levels
<1> HIDE DEF Below
<1> QED BY <1>2, <1>7

-----------------------------------------------------------------------------
(* What a write does to the walks *)

Steps ==
  \A s \in Spaces, v \in Pages, l \in Levels :
    EntryAt(l, s, v) =
      IF TableAt(l, s, v) = NoFrame THEN Zero ELSE mem[TableAt(l, s, v)][Index(l, v)]
WalksTyped ==
  \A s \in Spaces, v \in Pages :
    /\ Walk(s, v) \in [Levels -> Entry]
    /\ \A l \in Levels : EntryAt(l, s, v) \in Entry
    /\ LeafLevel(s, v) = IF EntryAt(3, s, v).present /\ EntryAt(3, s, v).ps THEN 3
                         ELSE IF EntryAt(2, s, v).present /\ EntryAt(2, s, v).ps THEN 2
                         ELSE IF EntryAt(1, s, v).present THEN 1 ELSE 0

LEMMA WalksNow == Steps /\ (TypeOK => WalksTyped)
<1>1. Steps
  BY WalkSteps DEF Steps
<1>2. TypeOK => WalksTyped
  BY WalkTypes, LeafLevels DEF WalksTyped
<1> QED BY <1>1, <1>2

LEMMA WalksNext == Steps' /\ (TypeOK' => WalksTyped')
BY WalksNow, PTL

\* Where no slot on the way changes, above level k, neither does the walk.
LEMMA SameSlots ==
  ASSUME NEW s \in Spaces, NEW v \in Pages, NEW k \in 0..4, root'[s] = root[s],
         \A l \in Levels : l > k /\ TableAt(l, s, v) # NoFrame =>
           mem'[TableAt(l, s, v)][Index(l, v)] = mem[TableAt(l, s, v)][Index(l, v)]
  PROVE  /\ \A l \in Levels : l >= k => TableAt(l, s, v)' = TableAt(l, s, v)
         /\ \A l \in Levels : l > k => EntryAt(l, s, v)' = EntryAt(l, s, v)
<1>1. \A l \in Levels : EntryAt(l, s, v) = IF TableAt(l, s, v) = NoFrame THEN Zero
                                           ELSE mem[TableAt(l, s, v)][Index(l, v)]
  BY WalkSteps
<1>2. \A l \in Levels : EntryAt(l, s, v)' = IF TableAt(l, s, v)' = NoFrame THEN Zero
                                            ELSE mem'[TableAt(l, s, v)'][Index(l, v)]
  BY WalksNext DEF Steps
<1>3. TableAt(4, s, v)' = TableAt(4, s, v)
  BY DEF TableAt
<1>4. \A l \in Levels : l > k /\ TableAt(l, s, v)' = TableAt(l, s, v)
                          => EntryAt(l, s, v)' = EntryAt(l, s, v)
  BY <1>1, <1>2
<1>5. \A l \in 1..3 : EntryAt(l + 1, s, v)' = EntryAt(l + 1, s, v)
                        => TableAt(l, s, v)' = TableAt(l, s, v)
  BY DEF TableAt
<1>6. /\ k <= 3 => TableAt(3, s, v)' = TableAt(3, s, v)
      /\ k <= 2 => TableAt(2, s, v)' = TableAt(2, s, v)
      /\ k <= 1 => TableAt(1, s, v)' = TableAt(1, s, v)
  BY <1>3, <1>4, <1>5 DEF Levels
<1>7. \A l \in Levels : l >= k => TableAt(l, s, v)' = TableAt(l, s, v)
  BY <1>3, <1>6 DEF Levels
<1> QED BY <1>4, <1>7 DEF Levels

\* One slot of one table is written; what becomes of frames that are no tables is left open.
Wrote(f, n, e) ==
  /\ UNCHANGED root
  /\ mem'[f][n] = e
  /\ \A g \in Tables, m \in Slots : g # f \/ m # n => mem'[g][m] = mem[g][m]

Quiet(s, v) == \A l \in Levels : /\ TableAt(l, s, v)' = TableAt(l, s, v)
                                 /\ EntryAt(l, s, v)' = EntryAt(l, s, v)

LEMMA TableIsTable ==
  ASSUME TypeOK, NEW s \in Spaces, NEW v \in Pages, NEW l \in Levels, TableAt(l, s, v) # NoFrame
  PROVE  TableAt(l, s, v) \in Tables
BY OnTheWay, BelowFacts DEF Levels

\* Other pages do not see the write.
LEMMA WriteElsewhere ==
  ASSUME TypeOK, TreeShape, NEW x \in Spaces, NEW w \in Pages, NEW k \in Levels,
         TableAt(k, x, w) # NoFrame, NEW e, Wrote(TableAt(k, x, w), Index(k, w), e),
         NEW s \in Spaces, NEW v \in Pages, ~(s = x /\ SamePath(k, v, w))
  PROVE  Quiet(s, v)
<1>1. ASSUME NEW l \in Levels, TableAt(l, s, v) # NoFrame
      PROVE  mem'[TableAt(l, s, v)][Index(l, v)] = mem[TableAt(l, s, v)][Index(l, v)]
  <2>1. TableAt(l, s, v) \in Tables /\ Index(l, v) \in Slots
    BY <1>1, TableIsTable, IndexFacts, PageFacts
  <2>2. ~(TableAt(l, s, v) = TableAt(k, x, w) /\ Index(l, v) = Index(k, w))
    <3> SUFFICES ASSUME TableAt(l, s, v) = TableAt(k, x, w), Index(l, v) = Index(k, w)
                 PROVE  FALSE
      OBVIOUS
    <3>1. l = k /\ s = x /\ \A i \in Levels : i > l => Index(i, v) = Index(i, w)
      BY <1>1, OnePath
    <3> QED BY <3>1 DEF SamePath, Levels
  <2> QED BY <2>1, <2>2 DEF Wrote
<1>2. root'[s] = root[s]
  BY DEF Wrote
<1> QED BY <1>1, <1>2, SameSlots DEF Quiet, Levels

\* The pages below the slot have the new entry there, and the same walk to it.
LEMMA WriteHere ==
  ASSUME TypeOK, TreeShape, NEW x \in Spaces, NEW w \in Pages, NEW k \in Levels,
         TableAt(k, x, w) # NoFrame, NEW e, Wrote(TableAt(k, x, w), Index(k, w), e),
         NEW v \in Pages, SamePath(k, v, w)
  PROVE  /\ \A l \in Levels : l >= k => TableAt(l, x, v)' = TableAt(l, x, v)
         /\ \A l \in Levels : l > k => EntryAt(l, x, v)' = EntryAt(l, x, v)
         /\ EntryAt(k, x, v)' = e
<1>1. ASSUME NEW l \in Levels, l > k, TableAt(l, x, v) # NoFrame
      PROVE  mem'[TableAt(l, x, v)][Index(l, v)] = mem[TableAt(l, x, v)][Index(l, v)]
  <2>1. TableAt(l, x, v) \in Tables /\ Index(l, v) \in Slots
    BY <1>1, TableIsTable, IndexFacts, PageFacts
  <2>2. TableAt(l, x, v) # TableAt(k, x, w)
    BY <1>1, OnePath DEF Levels
  <2> QED BY <2>1, <2>2 DEF Wrote
<1>2. root'[x] = root[x] /\ k \in 0..4
  BY DEF Wrote, Levels
<1>3. /\ \A l \in Levels : l >= k => TableAt(l, x, v)' = TableAt(l, x, v)
      /\ \A l \in Levels : l > k => EntryAt(l, x, v)' = EntryAt(l, x, v)
  BY <1>1, <1>2, SameSlots
<1>4. TableAt(k, x, v)' = TableAt(k, x, w) /\ Index(k, v) = Index(k, w)
  BY <1>3, SameFrom DEF SamePath, Levels
<1>5. EntryAt(k, x, v)' = mem'[TableAt(k, x, w)][Index(k, w)]
  BY <1>4, WalksNext DEF Steps
<1> QED BY <1>3, <1>5 DEF Wrote

\* What is mapped at the page stays, and nothing comes.
Steady(s, v) == /\ LeafLevel(s, v)' = LeafLevel(s, v)
                /\ Mapped(s, v) => Walk(s, v)' = Walk(s, v)

LEMMA SameWalk ==
  ASSUME TypeOK, TypeOK', NEW s \in Spaces, NEW v \in Pages,
         \A l \in Levels : EntryAt(l, s, v)' = EntryAt(l, s, v)
  PROVE  Walk(s, v)' = Walk(s, v) /\ LeafLevel(s, v)' = LeafLevel(s, v)
<1> DEFINE p == Walk(s, v)
<1> DEFINE q == Walk(s, v)'
<1>1. p \in [Levels -> Entry] /\ q \in [Levels -> Entry]
  BY WalksNow, WalksNext DEF WalksTyped
<1>2. \A l \in Levels : p[l] = q[l]
  BY DEF EntryAt
<1> HIDE DEF p, q
<1>3. p = q
  BY <1>1, <1>2
<1> QED BY <1>3 DEF p, q, LeafLevel

LEMMA QuietIsSteady ==
  ASSUME TypeOK, TypeOK', NEW s \in Spaces, NEW v \in Pages, Quiet(s, v)
  PROVE  Steady(s, v) /\ Walk(s, v)' = Walk(s, v)
BY SameWalk DEF Quiet, Steady

\* A page that stays keeps what is said of it.
LEMMA SteadyFacts ==
  ASSUME NEW s, NEW v, Steady(s, v)
  PROVE  /\ Mapped(s, v)' <=> Mapped(s, v)
         /\ Mapped(s, v) => /\ Leaf(s, v)' = Leaf(s, v)
                            /\ \A l : EntryAt(l, s, v)' = EntryAt(l, s, v)
         /\ Translate(s, v)' = Translate(s, v)
<1>1. Mapped(s, v)' <=> Mapped(s, v)
  BY DEF Steady, Mapped
<1>2. ASSUME Mapped(s, v)
      PROVE  Leaf(s, v)' = Leaf(s, v) /\ \A l : EntryAt(l, s, v)' = EntryAt(l, s, v)
  <2>1. \A l : EntryAt(l, s, v)' = EntryAt(l, s, v)
    BY <1>2 DEF Steady, EntryAt
  <2> QED BY <2>1 DEF Steady, Leaf, EntryAt
<1>3. Translate(s, v)' = Translate(s, v)
  <2>1. CASE Mapped(s, v)
    <3>1. Walk(s, v)' = Walk(s, v)
      BY <2>1 DEF Steady
    <3> QED BY <3>1 DEF Translate
  <2>2. CASE ~Mapped(s, v)
    <3>1. LevelOf[Walk(s, v)] = 0 /\ LevelOf[Walk(s, v)'] = 0
      BY <2>2 DEF Steady, Mapped, LeafLevel
    <3> QED BY <3>1 DEF Translate
  <2> QED BY <2>1, <2>2
<1> QED BY <1>1, <1>2, <1>3

\* Whether the entry of the page is about to be cleared does not change.
SameWindow(s, v) == Dropped(s, v)' <=> Dropped(s, v)

LEMMA FlyFacts ==
  ASSUME NEW s, NEW v, Steady(s, v), SameWindow(s, v)
  PROVE  IsFly(s, v)' <=> IsFly(s, v)
BY SteadyFacts DEF IsFly, SameWindow

\* No entry comes to be, or ceases to be, one that is about to be cleared.
Windows == /\ Released' = Released
           /\ \A s, v : SameWindow(s, v)

LEMMA WindowsStay ==
  ASSUME TypeOK, NEW t \in Threads, NEW k, job' = [job EXCEPT ![t] = k],
         t \notin Clearing, k # NoJob => k.pc # "clear"
  PROVE  Windows
<1>1. job'[t] = k /\ \A u \in Threads \ {t} : job'[u] = job[u]
  BY DEF TypeOK
<1>2. Clearing' = Clearing
  BY <1>1 DEF Clearing
<1>3. \A u \in Clearing : job'[u] = job[u]
  BY <1>1 DEF Clearing
<1>4. Released' = Released
  BY <1>2, <1>3 DEF Released
<1>5. ASSUME NEW s, NEW v PROVE SameWindow(s, v)
  BY <1>2, <1>3 DEF SameWindow, Dropped
<1> QED BY <1>4, <1>5 DEF Windows

\* On the way to a table there are tables only.
LEMMA TablesAbove ==
  ASSUME NEW s \in Spaces, NEW v \in Pages, NEW k \in Levels, TableAt(k, s, v) # NoFrame
  PROVE  \A l \in Levels : l > k => IsTable(EntryAt(l, s, v)) /\ TableAt(l, s, v) # NoFrame
<1>1. \A l \in 1..3 : TableAt(l, s, v) # NoFrame => IsTable(EntryAt(l + 1, s, v))
  BY DEF TableAt
<1>2. \A l \in Levels : IsTable(EntryAt(l, s, v)) => TableAt(l, s, v) # NoFrame
  BY WalkSteps DEF IsTable, Zero
<1>3. /\ k <= 3 => IsTable(EntryAt(4, s, v)) /\ TableAt(4, s, v) # NoFrame
      /\ k <= 2 => IsTable(EntryAt(3, s, v)) /\ TableAt(3, s, v) # NoFrame
      /\ k <= 1 => IsTable(EntryAt(2, s, v)) /\ TableAt(2, s, v) # NoFrame
  BY <1>1, <1>2 DEF Levels
<1> QED BY <1>3 DEF Levels

LeafHere ==
  \A s \in Spaces, v \in Pages, k \in 1..3 :
    TableAt(k, s, v) # NoFrame /\ (k = 1 \/ ~IsTable(EntryAt(k, s, v)))
      => LeafLevel(s, v) = IF EntryAt(k, s, v).present THEN k ELSE 0

LEMMA LeafHereNow == TypeOK => LeafHere
<1> SUFFICES ASSUME TypeOK, NEW s \in Spaces, NEW v \in Pages, NEW k \in 1..3,
                    TableAt(k, s, v) # NoFrame, k = 1 \/ ~IsTable(EntryAt(k, s, v))
             PROVE  LeafLevel(s, v) = IF EntryAt(k, s, v).present THEN k ELSE 0
  BY DEF LeafHere
<1>1. \A l \in Levels : l > k => IsTable(EntryAt(l, s, v))
  BY TablesAbove DEF Levels
<1>2. k # 1 => \A l \in Levels : l < k => EntryAt(l, s, v) = Zero
  BY NothingBelow DEF Levels
<1>3. ~Zero.present
  BY DEF Zero
<1> QED BY <1>1, <1>2, <1>3, LeafLevels DEF IsTable, Levels

LEMMA LeafHereNext == TypeOK' => LeafHere'
BY LeafHereNow, PTL

NoneBelow ==
  \A s \in Spaces, v \in Pages, k \in Levels, i \in Levels :
    ~IsTable(EntryAt(k, s, v)) /\ i < k => TableAt(i, s, v) = NoFrame /\ EntryAt(i, s, v) = Zero

LEMMA NoneBelowNow == NoneBelow
BY NothingBelow DEF NoneBelow
LEMMA NoneBelowNext == NoneBelow'
BY NoneBelowNow, PTL

\* A table comes where there was no entry.
LEMMA TableAdded ==
  ASSUME TypeOK, TypeOK', TreeShape, NEW x \in Spaces, NEW w \in Pages, NEW k \in 2..4,
         TableAt(k, x, w) # NoFrame, EntryAt(k, x, w) = Zero,
         NEW e, Wrote(TableAt(k, x, w), Index(k, w), e), IsTable(e), e.addr \in Frames,
         \A m \in Slots : mem'[e.addr][m] = Zero,
         NEW s \in Spaces, NEW v \in Pages
  PROVE  /\ Steady(s, v)
         /\ s # x => Quiet(s, v)
         /\ \A l \in Levels : l < k => EntryAt(l, s, v)' = EntryAt(l, s, v)
         /\ \A l \in Levels : l >= k => TableAt(l, s, v)' = TableAt(l, s, v)
         /\ \A l \in Levels : l > k => EntryAt(l, s, v)' = EntryAt(l, s, v)
<1>0. k \in Levels
  BY DEF Levels
<1>1. CASE ~(s = x /\ SamePath(k, v, w))
  <2>1. Quiet(s, v)
    BY <1>0, <1>1, WriteElsewhere
  <2> QED BY <2>1, QuietIsSteady DEF Quiet
<1>2. CASE s = x /\ SamePath(k, v, w)
  <2>1. /\ \A l \in Levels : l >= k => TableAt(l, s, v)' = TableAt(l, s, v)
        /\ \A l \in Levels : l > k => EntryAt(l, s, v)' = EntryAt(l, s, v)
        /\ EntryAt(k, s, v)' = e
    BY <1>0, <1>2, WriteHere
  <2>2. TableAt(k, s, v) = TableAt(k, x, w) /\ EntryAt(k, s, v) = Zero
    BY <1>0, <1>2, SameFrom DEF Levels
  <2>3. ~IsTable(Zero) /\ ~Zero.present
    BY DEF IsTable, Zero
  <2>4. \A l \in Levels : l < k => EntryAt(l, s, v) = Zero
    BY <1>0, <2>2, <2>3, NothingBelow
  <2>5. EntryAt(k - 1, s, v)' = Zero
    <3> DEFINE i == k - 1
    <3>1. i \in Levels /\ i # 4 /\ i + 1 = k
      BY DEF Levels
    <3> HIDE DEF i
    <3>2. TableAt(i, s, v)' = e.addr
      BY <2>1, <3>1 DEF TableAt
    <3>3. Index(i, v) \in Slots
      BY <3>1, IndexFacts, PageFacts
    <3>4. EntryAt(i, s, v)' = Zero
      BY <3>1, <3>2, <3>3, WalksNext DEF Steps
    <3> QED BY <3>4 DEF i
  <2>6. \A l \in Levels : l < k => EntryAt(l, s, v)' = Zero
    <3>1. k - 1 \in Levels /\ \A l \in Levels : l < k => l = k - 1 \/ l < k - 1
      BY DEF Levels
    <3> QED BY <2>3, <2>5, <3>1, NoneBelowNext DEF NoneBelow
  <2>7. LeafLevel(s, v) = 0
    <3>1. \A l \in Levels : l > k => IsTable(EntryAt(l, s, v))
      BY <1>0, <2>2, TablesAbove
    <3> QED BY <2>2, <2>3, <2>4, <3>1, LeafLevels DEF IsTable, Levels
  <2>8. LeafLevel(s, v)' = 0
    <3>1. \A l \in Levels : l > k => IsTable(EntryAt(l, s, v))
      BY <1>0, <2>2, TablesAbove
    <3>2. \A l \in Levels : l > k => IsTable(EntryAt(l, s, v)')
      BY <2>1, <3>1
    <3>3. IsTable(EntryAt(k, s, v)')
      BY <2>1
    <3> QED BY <2>3, <2>6, <3>2, <3>3, WalksNext DEF WalksTyped, IsTable, Levels
  <2>9. Steady(s, v)
    BY <2>7, <2>8 DEF Steady, Mapped
  <2> QED BY <1>2, <2>1, <2>4, <2>6, <2>9
<1> QED BY <1>1, <1>2

\* An entry for pages is written.
LEMMA LeafWritten ==
  ASSUME TypeOK, TypeOK', TreeShape, NEW x \in Spaces, NEW w \in Pages, NEW k \in 1..3,
         TableAt(k, x, w) # NoFrame, w % Span[k] = 0,
         NEW e, Wrote(TableAt(k, x, w), Index(k, w), e), k > 1 => ~IsTable(e),
         NEW s \in Spaces, NEW v \in Pages
  PROVE  /\ s # x \/ v \notin w .. w + Span[k] - 1 => Quiet(s, v)
         /\ s = x /\ v \in w .. w + Span[k] - 1 =>
              /\ \A l \in Levels : l > k => EntryAt(l, s, v)' = EntryAt(l, s, v)
              /\ \A l \in Levels : l >= k => TableAt(l, s, v)' = TableAt(l, s, v)
              /\ EntryAt(k, s, v)' = e
              /\ LeafLevel(s, v)' = IF e.present THEN k ELSE 0
              /\ v % Span[k] = v - w
              /\ \A l \in Levels : l >= k => /\ TableAt(l, s, v) = TableAt(l, x, w)
                                             /\ EntryAt(l, s, v) = EntryAt(l, x, w)
<1>0. k \in Levels
  BY DEF Levels
<1>1. /\ SamePath(k, w, v) <=> v \in w .. w + Span[k] - 1
      /\ SamePath(k, w, v) => v % Span[k] = v - w
      /\ SamePath(k, w, v) <=> SamePath(k, v, w)
  BY <1>0, Block DEF SamePath
<1>2. CASE ~(s = x /\ SamePath(k, v, w))
  <2>1. Quiet(s, v)
    BY <1>0, <1>2, WriteElsewhere
  <2> QED BY <1>1, <1>2, <2>1
<1>3. CASE s = x /\ SamePath(k, v, w)
  <2>1. /\ \A l \in Levels : l >= k => TableAt(l, s, v)' = TableAt(l, s, v)
        /\ \A l \in Levels : l > k => EntryAt(l, s, v)' = EntryAt(l, s, v)
        /\ EntryAt(k, s, v)' = e
    BY <1>0, <1>3, WriteHere
  <2>2. \A l \in Levels : l >= k => /\ TableAt(l, s, v) = TableAt(l, x, w)
                                    /\ EntryAt(l, s, v) = EntryAt(l, x, w)
    BY <1>0, <1>3, SameFrom
  <2>3. TableAt(k, s, v)' # NoFrame
    BY <1>0, <2>1, <2>2 DEF Levels
  <2>4. k = 1 \/ ~IsTable(EntryAt(k, s, v)')
    BY <2>1 DEF Levels
  <2>5. LeafLevel(s, v)' = IF e.present THEN k ELSE 0
    BY <2>1, <2>3, <2>4, LeafHereNext DEF LeafHere
  <2> QED BY <1>1, <1>3, <2>1, <2>2, <2>5
<1> QED BY <1>2, <1>3

-----------------------------------------------------------------------------
(* What a write does to the trees *)

\* The entry is present, and not about to be cleared.
Held(g, n) == mem[g][n].present /\ <<g, n>> \notin Released

\* The sets of the trees, slot by slot.
TreeSlots ==
  /\ \A l \in 1..3 : \A f : f \in TablesAt(l) <=>
       \E g \in TablesAt(l + 1), n \in Slots : IsTable(mem[g][n]) /\ mem[g][n].addr = f
  /\ \A f : f \in Tables <=> \E l \in Levels : f \in TablesAt(l)
  /\ \A g, n : <<g, n>> \in Directories <=>
       n \in Slots /\ IsTable(mem[g][n]) /\ \E l \in 2..4 : g \in TablesAt(l)
  /\ \A x \in Directories : x = <<x[1], x[2]>>
  /\ \A f : f \in FlyPages <=>
       f \in Frames /\ \E g \in TablesAt(1), n \in Slots : Held(g, n) /\ mem[g][n].addr = f
  /\ \A f : f \in TablesAt(4) <=> f # NoFrame /\ \E s \in Spaces : f = root[s]
  /\ Roots = TablesAt(4)

TreePairs ==
  /\ Tables \subseteq Frames
  /\ \A s1, s2 \in Spaces : s1 # s2 /\ root[s1] # NoFrame => root[s1] # root[s2]
  /\ \A l, k \in 2..4 : \A f \in TablesAt(l), g \in TablesAt(k), n, m \in Slots :
       IsTable(mem[f][n]) /\ IsTable(mem[g][m]) /\ mem[f][n].addr = mem[g][m].addr
         => f = g /\ n = m
  /\ \A l \in 2..4 : \A f \in TablesAt(l), n \in Slots :
       IsTable(mem[f][n]) => mem[f][n].addr \notin TablesAt(4)
  /\ Tables \intersect free = {}
  /\ FlyPages \intersect (Tables \union free) = {}

LEMMA TreeSlotsNow == TreeSlots
<1>1. \A l \in 1..3 : \A f : f \in TablesAt(l) <=>
        \E g \in TablesAt(l + 1), n \in Slots : IsTable(mem[g][n]) /\ mem[g][n].addr = f
  BY BelowFacts, BelowSlots
<1>2. \A f : f \in Tables <=> \E l \in Levels : f \in TablesAt(l)
  BY BelowFacts DEF Levels
<1>3. \A A : \A g, n : <<g, n>> \in TableSlots(A) <=> n \in Slots /\ IsTable(mem[g][n]) /\ g \in A
  BY DEF TableSlots
<1>4. \A g, n : <<g, n>> \in Directories <=>
        n \in Slots /\ IsTable(mem[g][n]) /\ \E l \in 2..4 : g \in TablesAt(l)
  <2>1. \A g : (\E l \in 2..4 : g \in TablesAt(l)) <=>
                 g \in TablesAt(4) \/ g \in TablesAt(3) \/ g \in TablesAt(2)
    OBVIOUS
  <2> QED BY <1>3, <2>1, BelowFacts
<1>5. \A x \in Directories : x = <<x[1], x[2]>>
  BY BelowFacts DEF TableSlots
<1>6. \A f : f \in FlyPages <=>
       f \in Frames /\ \E g \in TablesAt(1), n \in Slots : Held(g, n) /\ mem[g][n].addr = f
  <2>1. TablesAt(1) = Pts
    BY DEF TablesAt
  <2>2. ASSUME NEW f, f \in FlyPages
        PROVE  f \in Frames /\ \E g \in Pts, n \in Slots : Held(g, n) /\ mem[g][n].addr = f
    <3>1. PICK x \in FlySlots : f = mem[x[1]][x[2]].addr
      BY <2>2 DEF FlyPages
    <3>2. x[1] \in Pts /\ x[2] \in Slots /\ Held(x[1], x[2])
      BY <3>1 DEF FlySlots, Held
    <3> QED BY <2>2, <3>1, <3>2 DEF FlyPages
  <2>3. ASSUME NEW f \in Frames, NEW g \in Pts, NEW n \in Slots, Held(g, n),
               mem[g][n].addr = f
        PROVE  f \in FlyPages
    <3>1. <<g, n>> \in FlySlots
      BY <2>3 DEF Held, FlySlots
    <3> QED BY <2>3, <3>1 DEF FlyPages
  <2> QED BY <2>1, <2>2, <2>3
<1>7. \A f : f \in TablesAt(4) <=> f # NoFrame /\ \E s \in Spaces : f = root[s]
  BY BelowFacts DEF Roots
<1> QED BY <1>1, <1>2, <1>4, <1>5, <1>6, <1>7, BelowFacts DEF TreeSlots

LEMMA TreePairsNow == TreePairs <=> TreeShape
<1>1. ASSUME TreeShape PROVE TreePairs
  <2>1. \A l, k \in 2..4 : \A f \in TablesAt(l), g \in TablesAt(k), n, m \in Slots :
          IsTable(mem[f][n]) /\ IsTable(mem[g][m]) /\ mem[f][n].addr = mem[g][m].addr
            => f = g /\ n = m
    BY <1>1, OneParent
  <2>2. \A l \in 2..4 : \A f \in TablesAt(l), n \in Slots :
          IsTable(mem[f][n]) => mem[f][n].addr \notin TablesAt(4)
    BY <1>1, OneEntry, BelowFacts
  <2> QED BY <1>1, <2>1, <2>2 DEF TreeShape, TreePairs
<1>2. ASSUME TreePairs PROVE TreeShape
  <2>1. \A x \in Directories : x = <<x[1], x[2]>> /\ x[2] \in Slots /\ IsTable(mem[x[1]][x[2]])
                               /\ \E l \in 2..4 : x[1] \in TablesAt(l)
    BY TreeSlotsNow DEF TreeSlots
  <2>2. \A x, y \in Directories : x # y => mem[x[1]][x[2]].addr # mem[y[1]][y[2]].addr
    <3> SUFFICES ASSUME NEW x \in Directories, NEW y \in Directories,
                        mem[x[1]][x[2]].addr = mem[y[1]][y[2]].addr
                 PROVE  x = y
      OBVIOUS
    <3>1. x[1] = y[1] /\ x[2] = y[2]
      BY <1>2, <2>1 DEF TreePairs
    <3> QED BY <2>1, <3>1
  <2>3. \A x \in Directories : mem[x[1]][x[2]].addr \notin Roots
    BY <1>2, <2>1, BelowFacts DEF TreePairs
  <2> QED BY <1>2, <2>2, <2>3 DEF TreeShape, TreePairs
<1> QED BY <1>1, <1>2

LEMMA TreesNext == TreeSlots' /\ (TreePairs <=> TreeShape)'
BY TreeSlotsNow, TreePairsNow, PTL

\* A new table: it is one level below its entry, and nothing else changes.
LEMMA TreesGrow ==
  ASSUME TreeShape, NEW k \in 2..4, NEW f0 \in TablesAt(k), NEW n \in Slots,
         ~IsTable(mem[f0][n]), NEW e, Wrote(f0, n, e), IsTable(e), e.addr \in Frames \ Tables,
         \A m \in Slots : mem'[e.addr][m] = Zero, Released' = Released
  PROVE  /\ \A l \in Levels : \A g : g \in TablesAt(l)' <=> g \in TablesAt(l) \/ (l = k - 1 /\ g = e.addr)
         /\ Tables' = Tables \union {e.addr}
         /\ FlyPages' = FlyPages
         /\ \A l \in 2..4 : \A g \in TablesAt(l)', m \in Slots :
              IsTable(mem'[g][m]) => \/ g \in TablesAt(l) /\ mem'[g][m] = mem[g][m]
                                     \/ g = f0 /\ m = n
<1> DEFINE f == e.addr
<1>1. TreeSlots /\ TreeSlots'
  BY TreeSlotsNow, TreesNext
<1>2. ~IsTable(Zero) /\ ~Zero.present
  BY DEF IsTable, Zero
<1>3. \A l \in Levels : TablesAt(l) \subseteq Tables
  BY <1>1 DEF TreeSlots
<1>4. \A l \in Levels : f \notin TablesAt(l)
  BY <1>3
<1>5. \A g \in Tables, m \in Slots : g # f0 \/ m # n => mem'[g][m] = mem[g][m]
  BY DEF Wrote
<1>6. mem'[f0][n] = e /\ k \in Levels /\ f0 \in Tables
  BY <1>3 DEF Wrote, Levels
<1>7. \A m \in Slots : mem'[f][m] = Zero
  OBVIOUS
<1>8. IsTable(e) /\ e.addr = f /\ f \in Frames /\ f # f0
  BY <1>6
<1> DEFINE Grown(l) == \A g : g \in TablesAt(l)' <=> g \in TablesAt(l) \/ (l = k - 1 /\ g = f)
<1> HIDE DEF f
<1>9. Grown(4)
  BY <1>1 DEF TreeSlots, Wrote
<1>10. ASSUME NEW l \in 1..3, Grown(l + 1) PROVE Grown(l)
  <2> DEFINE i == l + 1
  <2>1. i \in Levels /\ l \in Levels /\ (i = k <=> l = k - 1)
    BY DEF Levels
  <2>2. \A g : g \in TablesAt(l) <=> \E h \in TablesAt(i), m \in Slots : IsTable(mem[h][m]) /\ mem[h][m].addr = g
    BY <1>1 DEF TreeSlots
  <2>3. \A g : g \in TablesAt(l)' <=>
          \E h \in TablesAt(i)', m \in Slots : IsTable(mem'[h][m]) /\ mem'[h][m].addr = g
    BY <1>1 DEF TreeSlots
  <2>4. \A h : h \in TablesAt(i)' => h \in TablesAt(i) \/ h = f
    BY <1>10
  <2>5. \A h : h \in TablesAt(i) => h \in TablesAt(i)'
    BY <1>10
  <2> HIDE DEF i
  <2>6. i # k => f0 \notin TablesAt(i)
    BY <1>6, <2>1, LevelsApart
  <2>7. ASSUME NEW g, g \in TablesAt(l)' PROVE g \in TablesAt(l) \/ (l = k - 1 /\ g = f)
    <3>1. PICK h \in TablesAt(i)', m \in Slots : IsTable(mem'[h][m]) /\ mem'[h][m].addr = g
      BY <2>3, <2>7
    <3>2. h \in TablesAt(i)
      BY <1>2, <1>7, <2>4, <3>1
    <3>3. CASE h = f0 /\ m = n
      BY <1>6, <1>8, <2>1, <2>6, <3>1, <3>2, <3>3
    <3>4. CASE h # f0 \/ m # n
      BY <1>3, <1>5, <2>1, <2>2, <3>1, <3>2, <3>4
    <3> QED BY <3>3, <3>4
  <2>8. ASSUME NEW g \in TablesAt(l) PROVE g \in TablesAt(l)'
    <3>1. PICK h \in TablesAt(i), m \in Slots : IsTable(mem[h][m]) /\ mem[h][m].addr = g
      BY <2>2, <2>8
    <3>2. mem'[h][m] = mem[h][m]
      BY <1>3, <1>5, <2>1, <3>1
    <3> QED BY <2>3, <2>5, <3>1, <3>2
  <2>9. l = k - 1 => f \in TablesAt(l)'
    BY <1>6, <1>8, <2>1, <2>3, <2>5
  <2> QED BY <2>7, <2>8, <2>9
<1>11. \A l \in Levels : Grown(l)
  <2>1. Grown(3)
    BY <1>9, <1>10
  <2>2. Grown(2)
    BY <1>10, <2>1
  <2>3. Grown(1)
    BY <1>10, <2>2
  <2> HIDE DEF Grown
  <2> QED BY <1>9, <2>1, <2>2, <2>3 DEF Levels
<1>12. \A g : g \in Tables' <=> g \in Tables \/ g = f
  <2>1. k - 1 \in Levels
    BY DEF Levels
  <2>2. \A g : g \in Tables' <=> \E l \in Levels : g \in TablesAt(l)'
    BY <1>1 DEF TreeSlots
  <2>3. \A g : g \in Tables <=> \E l \in Levels : g \in TablesAt(l)
    BY <1>1 DEF TreeSlots
  <2> QED BY <1>11, <2>1, <2>2, <2>3
<1>13. \A g : g \in FlyPages' <=> g \in FlyPages
  <2>1. f0 \notin TablesAt(1) /\ 1 \in Levels
    BY <1>6, LevelsApart DEF Levels
  <2>2. \A h, m : m \in Slots /\ h \in TablesAt(1)' /\ Held(h, m)'
                    => h \in TablesAt(1) /\ mem'[h][m] = mem[h][m]
    BY <1>2, <1>3, <1>5, <1>7, <1>11, <2>1 DEF Held
  <2>3. \A h, m : m \in Slots /\ h \in TablesAt(1) => h \in TablesAt(1)' /\ mem'[h][m] = mem[h][m]
    BY <1>3, <1>5, <1>11, <2>1
  <2>4. \A g : g \in FlyPages <=>
          g \in Frames /\ \E h \in TablesAt(1), m \in Slots : Held(h, m) /\ mem[h][m].addr = g
    BY <1>1 DEF TreeSlots
  <2>5. \A g : g \in FlyPages' <=>
          g \in Frames /\ \E h \in TablesAt(1)', m \in Slots : Held(h, m)' /\ mem'[h][m].addr = g
    BY <1>1 DEF TreeSlots
  <2>6. \A h, m : mem'[h][m] = mem[h][m] => (Held(h, m)' <=> Held(h, m))
    BY DEF Held
  <2> QED BY <2>2, <2>3, <2>4, <2>5, <2>6
<1>14. \A l \in 2..4 : \A g \in TablesAt(l)', m \in Slots :
         IsTable(mem'[g][m]) => \/ g \in TablesAt(l) /\ mem'[g][m] = mem[g][m]
                                \/ g = f0 /\ m = n
  <2> SUFFICES ASSUME NEW l \in 2..4, NEW g \in TablesAt(l)', NEW m \in Slots, IsTable(mem'[g][m]),
                      ~(g = f0 /\ m = n)
               PROVE  g \in TablesAt(l) /\ mem'[g][m] = mem[g][m]
    OBVIOUS
  <2>1. g # f /\ l \in Levels
    BY <1>2, <1>7 DEF Levels
  <2>2. g \in TablesAt(l)
    BY <1>11, <2>1
  <2> QED BY <1>3, <1>5, <2>1, <2>2
<1> QED BY <1>11, <1>12, <1>13, <1>14 DEF f

LEMMA TreeGrows ==
  ASSUME TreeShape, NEW k \in 2..4, NEW f0 \in TablesAt(k), NEW n \in Slots,
         ~IsTable(mem[f0][n]), NEW e, Wrote(f0, n, e), IsTable(e), e.addr \in Frames, e.addr \in free,
         \A m \in Slots : mem'[e.addr][m] = Zero, free' = free \ {e.addr},
         Released' = Released
  PROVE  TreeShape' /\ (NoLeak => NoLeak')
<1> DEFINE f == e.addr
<1>0. TreePairs
  BY TreePairsNow
<1>1. f \in Frames \ Tables
  BY <1>0 DEF TreePairs
<1>2. /\ \A l \in Levels : \A g : g \in TablesAt(l)' <=> g \in TablesAt(l) \/ (l = k - 1 /\ g = f)
      /\ Tables' = Tables \union {f}
      /\ FlyPages' = FlyPages
      /\ \A l \in 2..4 : \A g \in TablesAt(l)', m \in Slots :
           IsTable(mem'[g][m]) => \/ g \in TablesAt(l) /\ mem'[g][m] = mem[g][m]
                                  \/ g = f0 /\ m = n
  BY <1>1, TreesGrow
<1>3. mem'[f0][n] = e /\ UNCHANGED root
  BY DEF Wrote
<1>4. f \in free /\ free' = free \ {f} /\ e.addr = f
  OBVIOUS
<1> HIDE DEF f
<1>5. \A l \in 2..4 : \A g \in TablesAt(l), m \in Slots : IsTable(mem[g][m]) => mem[g][m].addr # f
  <2> SUFFICES ASSUME NEW l \in 2..4, NEW g \in TablesAt(l), NEW m \in Slots, IsTable(mem[g][m])
               PROVE  mem[g][m].addr \in Tables
    BY <1>1
  <2>1. l - 1 \in 1..3 /\ l - 1 \in Levels /\ l = l - 1 + 1
    BY DEF Levels
  <2>2. mem[g][m].addr \in TablesAt(l - 1)
    BY <2>1, TreeSlotsNow DEF TreeSlots
  <2> QED BY <2>1, <2>2, TreeSlotsNow DEF TreeSlots
<1>6. ASSUME NEW l \in 2..4, NEW i \in 2..4, NEW g \in TablesAt(l)', NEW h \in TablesAt(i)',
             NEW m \in Slots, NEW j \in Slots,
             IsTable(mem'[g][m]), IsTable(mem'[h][j]), mem'[g][m].addr = mem'[h][j].addr
      PROVE  g = h /\ m = j
  <2>1. CASE g = f0 /\ m = n /\ h = f0 /\ j = n
    BY <2>1
  <2>2. CASE g = f0 /\ m = n /\ ~(h = f0 /\ j = n)
    BY <1>2, <1>3, <1>4, <1>5, <1>6, <2>2
  <2>3. CASE ~(g = f0 /\ m = n) /\ h = f0 /\ j = n
    BY <1>2, <1>3, <1>4, <1>5, <1>6, <2>3
  <2>4. CASE ~(g = f0 /\ m = n) /\ ~(h = f0 /\ j = n)
    <3>1. /\ g \in TablesAt(l) /\ mem'[g][m] = mem[g][m]
          /\ h \in TablesAt(i) /\ mem'[h][j] = mem[h][j]
      BY <1>2, <1>6, <2>4
    <3> QED BY <1>0, <1>6, <3>1 DEF TreePairs
  <2> QED BY <2>1, <2>2, <2>3, <2>4
<1>7. TablesAt(4)' = TablesAt(4) /\ f \notin TablesAt(4)
  <2>1. f \notin TablesAt(4)
    BY <1>1, TreeSlotsNow DEF TreeSlots, Levels
  <2>2. \A g : g \in TablesAt(4) <=> g # NoFrame /\ \E s \in Spaces : g = root[s]
    BY TreeSlotsNow DEF TreeSlots
  <2>3. \A g : g \in TablesAt(4)' <=> g # NoFrame /\ \E s \in Spaces : g = root'[s]
    BY TreesNext DEF TreeSlots
  <2>4. \A g : g \in TablesAt(4)' <=> g \in TablesAt(4)
    BY <1>3, <2>2, <2>3
  <2> QED BY <2>1, <2>4
<1>8. \A l \in 2..4 : \A g \in TablesAt(l)', m \in Slots :
        IsTable(mem'[g][m]) => mem'[g][m].addr \notin TablesAt(4)'
  BY <1>0, <1>2, <1>3, <1>4, <1>7 DEF TreePairs
<1>9. Tables' \subseteq Frames /\ Tables' \intersect free' = {}
      /\ FlyPages' \intersect (Tables' \union free') = {}
  BY <1>0, <1>1, <1>2, <1>4 DEF TreePairs
<1>10. TreePairs'
  <2>1. \A l, k_1 \in 2..4 : \A f_1 \in TablesAt(l)', g \in TablesAt(k_1)', n_1, m \in Slots :
           IsTable(mem'[f_1][n_1]) /\ IsTable(mem'[g][m]) /\ mem'[f_1][n_1].addr = mem'[g][m].addr
             => f_1 = g /\ n_1 = m
    BY <1>6
  <2> QED BY <1>0, <1>3, <1>8, <1>9, <2>1 DEF TreePairs
<1>11. NoLeak => NoLeak'
  BY <1>1, <1>2, <1>4 DEF NoLeak
<1> QED BY <1>10, <1>11, TreesNext

\* An entry for pages: the trees stay.
LEMMA TreesStay ==
  ASSUME TreeShape, NEW k \in 1..3, NEW f0 \in TablesAt(k), NEW n \in Slots,
         NEW e, Wrote(f0, n, e), k > 1 => ~IsTable(mem[f0][n]) /\ ~IsTable(e)
  PROVE  /\ \A l \in Levels : TablesAt(l)' = TablesAt(l)
         /\ Tables' = Tables /\ Directories' = Directories
         /\ \A l \in 2..4 : \A g \in TablesAt(l), m \in Slots :
              IsTable(mem'[g][m]) \/ IsTable(mem[g][m]) => mem'[g][m] = mem[g][m]
<1>1. TreeSlots /\ TreeSlots'
  BY TreeSlotsNow, TreesNext
<1>2. k \in Levels /\ \A l \in Levels : TablesAt(l) \subseteq Tables
  BY <1>1 DEF TreeSlots, Levels
<1>3. /\ \A g \in Tables, m \in Slots : g # f0 \/ m # n => mem'[g][m] = mem[g][m]
      /\ mem'[f0][n] = e /\ UNCHANGED root
  BY DEF Wrote
<1>4. \A l \in 2..4 : \A g \in TablesAt(l), m \in Slots :
        IsTable(mem'[g][m]) \/ IsTable(mem[g][m]) => mem'[g][m] = mem[g][m]
  <2> SUFFICES ASSUME NEW l \in 2..4, NEW g \in TablesAt(l), NEW m \in Slots,
                      IsTable(mem'[g][m]) \/ IsTable(mem[g][m])
               PROVE  g # f0 \/ m # n
    BY <1>2, <1>3 DEF Levels
  <2>1. l \in Levels
    BY DEF Levels
  <2>2. g = f0 => l = k
    BY <1>2, <2>1, LevelsApart
  <2> QED BY <1>3, <2>2
<1>5. TablesAt(4)' = TablesAt(4)
  <2>2. \A g : g \in TablesAt(4) <=> g # NoFrame /\ \E s \in Spaces : g = root[s]
    BY <1>1 DEF TreeSlots
  <2>3. \A g : g \in TablesAt(4)' <=> g # NoFrame /\ \E s \in Spaces : g = root'[s]
    BY <1>1 DEF TreeSlots
  <2>4. \A g : g \in TablesAt(4)' <=> g \in TablesAt(4)
    BY <1>3, <2>2, <2>3
  <2> QED BY <2>4
<1>6. ASSUME NEW l \in 1..3, TablesAt(l + 1)' = TablesAt(l + 1) PROVE TablesAt(l)' = TablesAt(l)
  <2> DEFINE i == l + 1
  <2>1. i \in 2..4
    OBVIOUS
  <2>2. \A g : g \in TablesAt(l) <=> \E h \in TablesAt(i), m \in Slots : IsTable(mem[h][m]) /\ mem[h][m].addr = g
    BY <1>1 DEF TreeSlots
  <2>3. \A g : g \in TablesAt(l)' <=>
          \E h \in TablesAt(i)', m \in Slots : IsTable(mem'[h][m]) /\ mem'[h][m].addr = g
    BY <1>1 DEF TreeSlots
  <2>4. TablesAt(i)' = TablesAt(i)
    BY <1>6
  <2> HIDE DEF i
  <2>5. \A g : g \in TablesAt(l)' <=> g \in TablesAt(l)
    BY <1>4, <2>1, <2>2, <2>3, <2>4
  <2> QED BY <2>5
<1>7. TablesAt(3)' = TablesAt(3)
  BY <1>5, <1>6
<1>8. TablesAt(2)' = TablesAt(2)
  BY <1>6, <1>7
<1>9. TablesAt(1)' = TablesAt(1)
  BY <1>6, <1>8
<1>10. \A l \in Levels : TablesAt(l)' = TablesAt(l)
  BY <1>5, <1>7, <1>8, <1>9 DEF Levels
<1>11. Tables' = Tables
  <2>2. \A g : g \in Tables' <=> \E l \in Levels : g \in TablesAt(l)'
    BY <1>1 DEF TreeSlots
  <2>3. \A g : g \in Tables <=> \E l \in Levels : g \in TablesAt(l)
    BY <1>1 DEF TreeSlots
  <2>4. \A g : g \in Tables' <=> g \in Tables
    BY <1>10, <2>2, <2>3
  <2> QED BY <2>4
<1>12. Directories' = Directories
  <2>1. \A g, m : <<g, m>> \in Directories <=> <<g, m>> \in Directories'
    <3>1. \A g, m : <<g, m>> \in Directories <=>
            m \in Slots /\ IsTable(mem[g][m]) /\ \E l \in 2..4 : g \in TablesAt(l)
      BY <1>1 DEF TreeSlots
    <3>2. \A g, m : <<g, m>> \in Directories' <=>
            m \in Slots /\ IsTable(mem'[g][m]) /\ \E l \in 2..4 : g \in TablesAt(l)'
      BY <1>1 DEF TreeSlots
    <3>3. \A l \in 2..4 : TablesAt(l)' = TablesAt(l)
      BY <1>10 DEF Levels
    <3>4. \A g : (\E l \in 2..4 : g \in TablesAt(l)) <=> (\E l \in 2..4 : g \in TablesAt(l)')
      BY <3>3
    <3>5. \A l \in 2..4 : \A g \in TablesAt(l), m \in Slots : IsTable(mem'[g][m]) <=> IsTable(mem[g][m])
      BY <1>4
    <3> TAKE g, m
    <3>6. CASE m \in Slots /\ \E l \in 2..4 : g \in TablesAt(l)
      BY <3>1, <3>2, <3>4, <3>5, <3>6
    <3>7. CASE ~(m \in Slots /\ \E l \in 2..4 : g \in TablesAt(l))
      BY <3>1, <3>2, <3>4, <3>7
    <3> QED BY <3>6, <3>7
  <2>2. (\A x \in Directories : x = <<x[1], x[2]>>) /\ (\A x \in Directories' : x = <<x[1], x[2]>>)
    BY <1>1 DEF TreeSlots
  <2>3. \A x : x \in Directories <=> x \in Directories'
    BY <2>1, <2>2
  <2> QED BY <2>3
<1> QED BY <1>4, <1>10, <1>11, <1>12

LEMMA TreeStays ==
  ASSUME TreeShape, NEW k \in 1..3, NEW f0 \in TablesAt(k), NEW n \in Slots,
         NEW e, Wrote(f0, n, e), k > 1 => ~IsTable(mem[f0][n]) /\ ~IsTable(e),
         Tables \intersect free' = {}, FlyPages' \intersect (Tables \union free') = {}
  PROVE  TreeShape'
<1>1. /\ \A l \in Levels : TablesAt(l)' = TablesAt(l)
      /\ Tables' = Tables
      /\ \A l \in 2..4 : \A g \in TablesAt(l), m \in Slots :
           IsTable(mem'[g][m]) \/ IsTable(mem[g][m]) => mem'[g][m] = mem[g][m]
  BY TreesStay
<1>2. TreePairs /\ UNCHANGED root
  BY TreePairsNow DEF Wrote
<1>3. \A l \in 2..4 : TablesAt(l)' = TablesAt(l)
  BY <1>1 DEF Levels
<1>4. \A l, i \in 2..4 : \A f \in TablesAt(l)', g \in TablesAt(i)', j, m \in Slots :
        IsTable(mem'[f][j]) /\ IsTable(mem'[g][m]) /\ mem'[f][j].addr = mem'[g][m].addr
          => f = g /\ j = m
  BY <1>1, <1>2, <1>3 DEF TreePairs
<1>5. \A l \in 2..4 : \A f \in TablesAt(l)', m \in Slots :
        IsTable(mem'[f][m]) => mem'[f][m].addr \notin TablesAt(4)'
  BY <1>1, <1>2, <1>3 DEF TreePairs
<1>6. TreePairs'
  BY <1>1, <1>2, <1>4, <1>5 DEF TreePairs
<1> QED BY <1>6, TreesNext

\* The pages from pager_fly_map after an entry for pages was written.
LEMMA FlyStays ==
  ASSUME TreeShape, NEW k \in 1..3, NEW f0 \in TablesAt(k), NEW n \in Slots,
         NEW e, Wrote(f0, n, e), k > 1 => ~IsTable(mem[f0][n]) /\ ~IsTable(e),
         Released' = Released
  PROVE  /\ k > 1 => FlyPages' = FlyPages
         /\ k = 1 /\ <<f0, n>> \notin Released => \A g : g \in FlyPages' <=>
              g \in Frames /\ (\/ e.present /\ e.addr = g
                              \/ \E h \in TablesAt(1), m \in Slots :
                                   (h # f0 \/ m # n) /\ Held(h, m) /\ mem[h][m].addr = g)
<1>1. TablesAt(1)' = TablesAt(1)
  BY TreesStay DEF Levels
<1>2. /\ \A g \in Tables, m \in Slots : g # f0 \/ m # n => mem'[g][m] = mem[g][m]
      /\ mem'[f0][n] = e
  BY DEF Wrote
<1>3. TablesAt(1) \subseteq Tables
  BY BelowFacts
<1>4. \A g : g \in FlyPages <=>
        g \in Frames /\ \E h \in TablesAt(1), m \in Slots : Held(h, m) /\ mem[h][m].addr = g
  BY TreeSlotsNow DEF TreeSlots
<1>5. \A g : g \in FlyPages' <=>
        g \in Frames /\ \E h \in TablesAt(1), m \in Slots : Held(h, m)' /\ mem'[h][m].addr = g
  BY <1>1, TreesNext DEF TreeSlots
<1>6. ASSUME k > 1 PROVE FlyPages' = FlyPages
  <2>1. f0 \notin TablesAt(1)
    BY <1>6, LevelsApart DEF Levels
  <2>2. \A h \in TablesAt(1), m \in Slots : mem'[h][m] = mem[h][m]
    BY <1>2, <1>3, <2>1
  <2>3. \A h \in TablesAt(1), m \in Slots : Held(h, m)' <=> Held(h, m)
    BY <2>2 DEF Held
  <2>4. \A g : g \in FlyPages' <=> g \in FlyPages
    BY <1>4, <1>5, <2>2, <2>3
  <2> QED BY <2>4
<1>7. ASSUME k = 1, <<f0, n>> \notin Released
      PROVE  \A g : g \in FlyPages' <=>
              g \in Frames /\ (\/ e.present /\ e.addr = g
                              \/ \E h \in TablesAt(1), m \in Slots :
                                   (h # f0 \/ m # n) /\ Held(h, m) /\ mem[h][m].addr = g)
  <2>1. f0 \in TablesAt(1)
    BY <1>7
  <2>2. \A h \in TablesAt(1), m \in Slots : h # f0 \/ m # n => mem'[h][m] = mem[h][m]
    BY <1>2, <1>3
  <2> TAKE g
  <2>3. ASSUME NEW h \in TablesAt(1), NEW m \in Slots, Held(h, m)', mem'[h][m].addr = g
        PROVE  \/ e.present /\ e.addr = g
               \/ (h # f0 \/ m # n) /\ Held(h, m) /\ mem[h][m].addr = g
    BY <1>2, <2>2, <2>3 DEF Held
  <2>4. ASSUME NEW h \in TablesAt(1), NEW m \in Slots, h # f0 \/ m # n,
               Held(h, m), mem[h][m].addr = g
        PROVE  Held(h, m)' /\ mem'[h][m].addr = g
    BY <2>2, <2>4 DEF Held
  <2>5. e.present /\ e.addr = g => Held(f0, n)' /\ mem'[f0][n].addr = g
    BY <1>2, <1>7 DEF Held
  <2> QED BY <1>5, <2>1, <2>3, <2>4, <2>5
<1> QED BY <1>6, <1>7

\* A new PML4: one tree more, of one table.
LEMMA TreePlanted ==
  ASSUME TreeShape, NEW s \in Spaces, root[s] = NoFrame, root \in [Spaces -> Frames \union {NoFrame}],
         NEW f \in Frames, f \in free,
         root' = [root EXCEPT ![s] = f], free' = free \ {f},
         \A g \in Tables : mem'[g] = mem[g], \A m \in Slots : mem'[f][m] = Zero,
         Released' = Released
  PROVE  /\ TreeShape' /\ (NoLeak => NoLeak')
         /\ Tables' = Tables \union {f}
         /\ \A l \in 2..4 : \A g \in TablesAt(l)', m \in Slots :
              IsTable(mem'[g][m]) => g \in TablesAt(l) /\ mem'[g][m] = mem[g][m]
<1>1. TreeSlots /\ TreeSlots' /\ TreePairs
  BY TreeSlotsNow, TreesNext, TreePairsNow
<1>2. ~IsTable(Zero) /\ ~Zero.present /\ f # NoFrame
  BY PagerAssumption DEF IsTable, Zero
<1>3. \A l \in Levels : TablesAt(l) \subseteq Tables
  BY <1>1 DEF TreeSlots
<1>4. f \notin Tables
  BY <1>1 DEF TreePairs
<1>5. \A g : g \in TablesAt(4)' <=> g \in TablesAt(4) \/ g = f
  <2>1. \A g : g \in TablesAt(4) <=> g # NoFrame /\ \E x \in Spaces : g = root[x]
    BY <1>1 DEF TreeSlots
  <2>2. \A g : g \in TablesAt(4)' <=> g # NoFrame /\ \E x \in Spaces : g = root'[x]
    BY <1>1 DEF TreeSlots
  <2>3. root'[s] = f /\ \A x \in Spaces \ {s} : root'[x] = root[x]
    OBVIOUS
  <2> QED BY <1>2, <2>1, <2>2, <2>3
<1>6. ASSUME NEW l \in 1..3, \A g : g \in TablesAt(l + 1)' <=> g \in TablesAt(l + 1) \/ (l = 3 /\ g = f)
      PROVE  \A g : g \in TablesAt(l)' <=> g \in TablesAt(l)
  <2> DEFINE i == l + 1
  <2>1. i \in Levels
    BY DEF Levels
  <2>2. \A g : g \in TablesAt(l) <=> \E h \in TablesAt(i), m \in Slots : IsTable(mem[h][m]) /\ mem[h][m].addr = g
    BY <1>1 DEF TreeSlots
  <2>3. \A g : g \in TablesAt(l)' <=>
          \E h \in TablesAt(i)', m \in Slots : IsTable(mem'[h][m]) /\ mem'[h][m].addr = g
    BY <1>1 DEF TreeSlots
  <2>4. \A h : h \in TablesAt(i)' => h \in TablesAt(i) \/ h = f
    BY <1>6
  <2>5. \A h : h \in TablesAt(i) => h \in TablesAt(i)' /\ mem'[h] = mem[h]
    BY <1>3, <1>6, <2>1
  <2> HIDE DEF i
  <2> QED BY <1>2, <2>2, <2>3, <2>4, <2>5
<1>7. TablesAt(3)' = TablesAt(3)
  <2>1. \A g : g \in TablesAt(3)' <=> g \in TablesAt(3)
    BY <1>5, <1>6
  <2> QED BY <2>1
<1>8. TablesAt(2)' = TablesAt(2)
  <2>1. \A g : g \in TablesAt(2)' <=> g \in TablesAt(2)
    BY <1>6, <1>7
  <2> QED BY <2>1
<1>9. TablesAt(1)' = TablesAt(1)
  <2>1. \A g : g \in TablesAt(1)' <=> g \in TablesAt(1)
    BY <1>6, <1>8
  <2> QED BY <2>1
<1>10. Tables' = Tables \union {f}
  <2>2. \A g : g \in Tables' <=> \E l \in Levels : g \in TablesAt(l)'
    BY <1>1 DEF TreeSlots
  <2>3. \A g : g \in Tables <=> \E l \in Levels : g \in TablesAt(l)
    BY <1>1 DEF TreeSlots
  <2>4. \A g : g \in Tables' <=> g \in Tables \/ g = f
    BY <1>5, <1>7, <1>8, <1>9, <2>2, <2>3 DEF Levels
  <2> QED BY <2>4
<1>11. FlyPages' = FlyPages
  <2>1. \A g : g \in FlyPages <=>
          g \in Frames /\ \E h \in TablesAt(1), m \in Slots : Held(h, m) /\ mem[h][m].addr = g
    BY <1>1 DEF TreeSlots
  <2>2. \A g : g \in FlyPages' <=>
          g \in Frames /\ \E h \in TablesAt(1), m \in Slots : Held(h, m)' /\ mem'[h][m].addr = g
    BY <1>1, <1>9 DEF TreeSlots
  <2>3. \A h \in TablesAt(1) : mem'[h] = mem[h]
    BY <1>3 DEF Levels
  <2>4. \A h \in TablesAt(1), m \in Slots : Held(h, m)' <=> Held(h, m)
    BY <2>3 DEF Held
  <2>5. \A g : g \in FlyPages' <=> g \in FlyPages
    BY <2>1, <2>2, <2>3, <2>4
  <2> QED BY <2>5
<1>12. ASSUME NEW l \in 2..4, NEW g \in TablesAt(l)', NEW m \in Slots, IsTable(mem'[g][m])
       PROVE  g \in TablesAt(l) /\ mem'[g][m] = mem[g][m]
  <2>1. g \in TablesAt(l) \/ g = f
    BY <1>5, <1>7, <1>8, <1>12
  <2>2. g \in TablesAt(l) /\ l \in Levels
    BY <1>2, <1>12, <2>1 DEF Levels
  <2> QED BY <1>3, <2>2
<1>13. \A l \in 2..4 : \A g \in TablesAt(l), m \in Slots : IsTable(mem[g][m]) => mem[g][m].addr # f
  <2> SUFFICES ASSUME NEW l \in 2..4, NEW g \in TablesAt(l), NEW m \in Slots, IsTable(mem[g][m])
               PROVE  mem[g][m].addr \in Tables
    BY <1>4
  <2>1. l - 1 \in 1..3 /\ l - 1 \in Levels /\ l = l - 1 + 1
    BY DEF Levels
  <2>2. mem[g][m].addr \in TablesAt(l - 1)
    BY <1>1, <2>1 DEF TreeSlots
  <2> QED BY <1>3, <2>1, <2>2
<1>14. \A l, k \in 2..4 : \A g \in TablesAt(l)', h \in TablesAt(k)', n, m \in Slots :
         IsTable(mem'[g][n]) /\ IsTable(mem'[h][m]) /\ mem'[g][n].addr = mem'[h][m].addr
           => g = h /\ n = m
  <2> SUFFICES ASSUME NEW l \in 2..4, NEW k \in 2..4, NEW g \in TablesAt(l)', NEW h \in TablesAt(k)',
                      NEW n \in Slots, NEW m \in Slots,
                      IsTable(mem'[g][n]), IsTable(mem'[h][m]), mem'[g][n].addr = mem'[h][m].addr
               PROVE  g = h /\ n = m
    OBVIOUS
  <2>1. /\ g \in TablesAt(l) /\ mem'[g][n] = mem[g][n]
        /\ h \in TablesAt(k) /\ mem'[h][m] = mem[h][m]
    BY <1>12
  <2> QED BY <1>1, <2>1 DEF TreePairs
<1>15. \A l \in 2..4 : \A g \in TablesAt(l)', m \in Slots :
         IsTable(mem'[g][m]) => mem'[g][m].addr \notin TablesAt(4)'
  <2> SUFFICES ASSUME NEW l \in 2..4, NEW g \in TablesAt(l)', NEW m \in Slots, IsTable(mem'[g][m])
               PROVE  mem'[g][m].addr \notin TablesAt(4)'
    OBVIOUS
  <2>1. g \in TablesAt(l) /\ mem'[g][m] = mem[g][m]
    BY <1>12
  <2>2. mem[g][m].addr \notin TablesAt(4) /\ mem[g][m].addr # f
    BY <1>1, <1>13, <2>1 DEF TreePairs
  <2> QED BY <1>5, <2>1, <2>2
<1>16. \A s1, s2 \in Spaces : s1 # s2 /\ root'[s1] # NoFrame => root'[s1] # root'[s2]
  <2>1. \A x \in Spaces : root[x] # f
    <3>1. \A x \in Spaces : root[x] # NoFrame => root[x] \in TablesAt(4)
      BY <1>1 DEF TreeSlots
    <3> QED BY <1>2, <1>3, <1>4, <3>1 DEF Levels
  <2>2. root'[s] = f /\ \A x \in Spaces \ {s} : root'[x] = root[x]
    OBVIOUS
  <2> QED BY <1>1, <2>1, <2>2 DEF TreePairs
<1>17. Tables' \subseteq Frames /\ Tables' \intersect free' = {}
       /\ FlyPages' \intersect (Tables' \union free') = {}
  BY <1>1, <1>4, <1>10, <1>11 DEF TreePairs
<1>18. TreePairs'
  BY <1>14, <1>15, <1>16, <1>17 DEF TreePairs
<1>19. NoLeak => NoLeak'
  BY <1>4, <1>10, <1>11 DEF NoLeak
<1>20. TreeShape'
  BY <1>18, TreesNext
<1> QED BY <1>10, <1>12, <1>19, <1>20

LEMMA WalksPlanted ==
  ASSUME TypeOK, TypeOK', NEW s \in Spaces, root[s] = NoFrame, NEW f \in Frames,
         root' = [root EXCEPT ![s] = f],
         \A g \in Tables : mem'[g] = mem[g], \A m \in Slots : mem'[f][m] = Zero,
         NEW x \in Spaces, NEW v \in Pages
  PROVE  /\ Steady(x, v)
         /\ \A l \in Levels : EntryAt(l, x, v)' = EntryAt(l, x, v)
         /\ root[x] # NoFrame => Quiet(x, v)
<1>1. CASE x # s
  <2>1. root'[x] = root[x]
    BY <1>1 DEF TypeOK
  <2>2. \A l \in Levels : TableAt(l, x, v) # NoFrame =>
          mem'[TableAt(l, x, v)][Index(l, v)] = mem[TableAt(l, x, v)][Index(l, v)]
    BY TableIsTable
  <2>3. Quiet(x, v)
    BY <2>1, <2>2, SameSlots DEF Quiet, Levels
  <2> QED BY <2>3, QuietIsSteady DEF Quiet
<1>2. CASE x = s
  <2>1. ~IsTable(Zero) /\ 4 \in Levels /\ f # NoFrame
    BY PagerAssumption DEF IsTable, Zero, Levels
  <2>2. EntryAt(4, x, v) = Zero
    BY <1>2, <2>1, WalkSteps DEF TableAt
  <2>3. EntryAt(4, x, v)' = Zero
    <3>1. TableAt(4, x, v)' = f
      BY <1>2 DEF TableAt, TypeOK
    <3>2. Index(4, v) \in Slots
      BY <2>1, IndexFacts, PageFacts
    <3> QED BY <2>1, <3>1, <3>2, WalksNext DEF Steps
  <2>4. \A l \in Levels : EntryAt(l, x, v) = Zero
    BY <2>1, <2>2, NothingBelow DEF Levels
  <2>5. \A l \in Levels : EntryAt(l, x, v)' = Zero
    BY <2>1, <2>3, NoneBelowNext DEF NoneBelow, Levels
  <2>6. \A l \in Levels : EntryAt(l, x, v)' = EntryAt(l, x, v)
    BY <2>4, <2>5
  <2>7. Steady(x, v)
    BY <2>6, SameWalk DEF Steady
  <2> QED BY <1>2, <2>6, <2>7
<1> QED BY <1>1, <1>2

-----------------------------------------------------------------------------
(* The invariant *)

\* Entries of tables are empty, or present with a physical address; a PML4 has
\* no large pages, and no large page is a frame of the allocator.
EntriesOK ==
  /\ \A g \in Tables, n \in Slots :
       mem[g][n] = Zero \/ (mem[g][n].present /\ mem[g][n].addr \in Nat)
  /\ \A g \in Roots, n \in Slots : ~mem[g][n].ps
  /\ \A g \in Tables, n \in Slots : mem[g][n].ps => mem[g][n].addr \notin Frames

\* The table a walk is in is the one the processor would come to, by the indices
\* it has noted; and what it has seen of the entry there still holds.
WalkOK(j) ==
  LET e == EntryAt(j.level, j.req.space, j.v) IN
  /\ j.table = TableAt(j.level, j.req.space, j.v)
  /\ \A l \in Levels : l > j.level \/ (l = j.level /\ j.pc # "look") => j.index[l] = Index(l, j.v)
  /\ j.pc = "make" => e = Zero
  /\ j.pc = "down" => e.present

ProgressOK(j) ==
  /\ Aligned(j.req)
  /\ j.req.op = "clone" => j.req.src # j.req.space
  /\ j.v >= j.req.v /\ j.v + j.left = j.req.v + j.req.size
  /\ j.req.op = "map" => j.phys = j.req.phys + (j.v - j.req.v)
  /\ j.left > 0 => Iteration(j.req, j.v, j.left)

\* What the contract says of a page, as long as the request has not reached it.
Fits(r, s, w) ==
  /\ LeafLevel(s, w) \in {0, ReachedAt(r, w)}
  /\ ReachedAt(r, w) > 1 => ~IsTable(EntryAt(ReachedAt(r, w), s, w))

\* What a clone takes is mapped in the size in which it is reached, or larger.
FitsSource(r, w) == ReachedIn(r, r.src, w, ReachedAt(r, w)..3)

Sole(s, w) ==
  \A x \in Spaces, q \in Pages :
    IsFly(x, q) /\ <<x, q>> # <<s, w>> => Leaf(x, q).addr # Leaf(s, w).addr

SourceOpen(s, w) ==
  Mapped(s, w) =>
    \A l \in (LeafLevel(s, w) + 1)..4 : {"write", "user"} \subseteq EntryAt(l, s, w).rights

Promise(r, w) ==
  /\ Fits(r, r.space, w)
  /\ r.op = "map"      => ~IsFly(r.space, w) /\ r.phys + (w - r.v) \notin Frames
  /\ r.op = "unmap"    => ~IsFly(r.space, w)
  /\ r.op = "flyMap"   => ~Mapped(r.space, w)
  /\ r.op = "flyUnmap" =>
       /\ ReachedAt(r, w) = 1
       /\ Dropped(r.space, w) \/ (IsFly(r.space, w) /\ Sole(r.space, w))
  /\ r.op = "setAttr"  => Mapped(r.space, w)
  /\ r.op = "clone"    => FitsSource(r, w) /\ SourceOpen(r.src, w)

Rest(j) == j.v .. j.v + j.left - 1

JobInv(j) ==
  /\ ProgressOK(j)
  /\ j.pc \in Walking => WalkOK(j) /\ \A w \in Rest(j) : Promise(j.req, w)

JobsInv == \A t \in Threads : job[t] # NoJob => JobInv(job[t])

Apart == \A t, u \in Threads : t # u /\ job[t] # NoJob /\ job[u] # NoJob =>
           Touched(job[t].req) \intersect Touched(job[u].req) = {}

TreeInv == TypeInv /\ TreeShape /\ NoLeak /\ EntriesOK /\ Apart /\ JobsInv

-----------------------------------------------------------------------------
(* Promises that are kept *)

\* Nobody who was not there before uses frame a for a page.
NoNewUser(a) ==
  \A s \in Spaces, q \in Pages :
    IsFly(s, q)' /\ Leaf(s, q)'.addr = a => IsFly(s, q) /\ Leaf(s, q).addr = a

LEMMA FitsKept ==
  ASSUME NEW r, NEW s, NEW w, Steady(s, w),
         EntryAt(ReachedAt(r, w), s, w)' = EntryAt(ReachedAt(r, w), s, w)
  PROVE  /\ Fits(r, s, w) => Fits(r, s, w)'
         /\ s = r.src /\ FitsSource(r, w) => FitsSource(r, w)'
BY DEF Fits, FitsSource, ReachedIn, Steady

LEMMA PromiseKept ==
  ASSUME NEW r, NEW w, Promise(r, w),
         Steady(r.space, w), SameWindow(r.space, w),
         EntryAt(ReachedAt(r, w), r.space, w)' = EntryAt(ReachedAt(r, w), r.space, w),
         r.op = "clone" => /\ Steady(r.src, w)
                           /\ EntryAt(ReachedAt(r, w), r.src, w)' = EntryAt(ReachedAt(r, w), r.src, w),
         r.op = "flyUnmap" => Dropped(r.space, w) \/ NoNewUser(Leaf(r.space, w).addr)
  PROVE  Promise(r, w)'
<1>1. Fits(r, r.space, w)'
  BY FitsKept DEF Promise
<1>2. /\ Mapped(r.space, w)' <=> Mapped(r.space, w)
      /\ Mapped(r.space, w) => Leaf(r.space, w)' = Leaf(r.space, w)
      /\ IsFly(r.space, w)' <=> IsFly(r.space, w)
      /\ Dropped(r.space, w)' <=> Dropped(r.space, w)
  BY SteadyFacts, FlyFacts DEF SameWindow
<1>3. ASSUME r.op = "clone" PROVE FitsSource(r, w)' /\ SourceOpen(r.src, w)'
  <2>1. FitsSource(r, w)'
    BY <1>3, FitsKept DEF Promise
  <2>2. /\ Mapped(r.src, w)' <=> Mapped(r.src, w)
        /\ Mapped(r.src, w) => \A l : EntryAt(l, r.src, w)' = EntryAt(l, r.src, w)
        /\ LeafLevel(r.src, w)' = LeafLevel(r.src, w)
    BY <1>3, SteadyFacts DEF Steady
  <2> QED BY <1>3, <2>1, <2>2 DEF Promise, SourceOpen
<1>4. ASSUME r.op = "flyUnmap", ~Dropped(r.space, w) PROVE Sole(r.space, w)'
  <2>1. IsFly(r.space, w) /\ Sole(r.space, w) /\ Mapped(r.space, w)
    BY <1>4 DEF Promise, IsFly
  <2>2. Leaf(r.space, w)' = Leaf(r.space, w) /\ NoNewUser(Leaf(r.space, w).addr)
    BY <1>2, <1>4, <2>1
  <2> QED BY <2>1, <2>2 DEF Sole, NoNewUser
<1> QED BY <1>1, <1>2, <1>3, <1>4 DEF Promise

LEMMA RestFacts ==
  ASSUME NEW k \in Job, ProgressOK(k), NEW w \in Rest(k)
  PROVE  /\ w \in Pages /\ w \in Nat /\ ReachedAt(k.req, w) \in 1..3
         /\ ReachedAt(k.req, w) <= Target(k) /\ Target(k) \in 1..3
         /\ w \in RangeOf(k.req)
<1>1. /\ k.req \in Requests /\ k.v \in Nat /\ k.left \in Nat
  BY JobTypes
<1>2. k.left > 0
  BY <1>1 DEF Rest
<1>3. Iteration(k.req, k.v, k.left) /\ Aligned(k.req)
  BY <1>2 DEF ProgressOK
<1>4. ReachedAt(k.req, w) \in 1..3 /\ ReachedAt(k.req, w) <= Target(k) /\ Target(k) \in 1..3
  BY <1>1, <1>3, Iterations DEF Rest, Target
<1>5. w \in RangeOf(k.req)
  BY <1>1, RequestFacts DEF RangeOf, Rest, ProgressOK
<1> QED BY <1>1, <1>4, <1>5, RequestFacts

\* A job none of whose spaces is written to.
LEMMA JobKept ==
  ASSUME TypeOK, TypeOK', NEW k \in Job, JobOK(k), JobInv(k),
         \A s \in Touched(k.req), v \in Pages : Quiet(s, v) /\ SameWindow(s, v),
         k.req.op = "flyUnmap" /\ k.pc \in Walking =>
           \A w \in Rest(k) : Dropped(k.req.space, w) \/ NoNewUser(Leaf(k.req.space, w).addr)
  PROVE  JobInv(k)'
<1>1. ProgressOK(k) /\ ProgressOK(k)'
  BY DEF JobInv, ProgressOK
<1>2. k.req.space \in Touched(k.req) /\ (k.req.op = "clone" => k.req.src \in Touched(k.req))
      /\ k.req.space \in Spaces /\ k.req.src \in Spaces /\ k.level \in Levels
  BY JobTypes DEF Touched
<1>3. ASSUME k.pc \in Walking PROVE WalkOK(k)'
  <2>1. k.v \in Pages
    <3>1. k.v \in Rest(k)
      BY <1>3, JobTypes DEF Rest, JobOK
    <3> QED BY <1>1, <3>1, RestFacts
  <2>2. Quiet(k.req.space, k.v) /\ WalkOK(k)
    BY <1>2, <1>3, <2>1 DEF JobInv
  <2> QED BY <1>2, <2>2 DEF WalkOK, Quiet
<1>4. ASSUME k.pc \in Walking, NEW w \in Rest(k) PROVE Promise(k.req, w)'
  <2>1. w \in Pages /\ ReachedAt(k.req, w) \in Levels
    BY <1>1, RestFacts DEF Levels
  <2>2. /\ Quiet(k.req.space, w) /\ (k.req.op = "clone" => Quiet(k.req.src, w))
        /\ SameWindow(k.req.space, w)
    BY <1>2, <2>1
  <2>3. /\ Steady(k.req.space, w)
        /\ EntryAt(ReachedAt(k.req, w), k.req.space, w)' = EntryAt(ReachedAt(k.req, w), k.req.space, w)
        /\ k.req.op = "clone" =>
             /\ Steady(k.req.src, w)
             /\ EntryAt(ReachedAt(k.req, w), k.req.src, w)' = EntryAt(ReachedAt(k.req, w), k.req.src, w)
    BY <1>2, <2>1, <2>2, QuietIsSteady DEF Quiet
  <2>4. Promise(k.req, w) /\ (k.req.op = "flyUnmap" =>
          Dropped(k.req.space, w) \/ NoNewUser(Leaf(k.req.space, w).addr))
    BY <1>4 DEF JobInv
  <2> QED BY <2>2, <2>3, <2>4, PromiseKept
<1>5. ASSUME k.pc \in Walking PROVE \A w \in Rest(k)' : Promise(k.req, w)'
  <2>1. Rest(k)' = Rest(k)
    BY DEF Rest
  <2> QED BY <1>4, <1>5, <2>1
<1> QED BY <1>1, <1>3, <1>5 DEF JobInv

\* Where nothing is written, everything is seen as before.
LEMMA AllQuiet ==
  ASSUME TypeOK, TypeOK', UNCHANGED <<mem, root>>
  PROVE  \A s \in Spaces, v \in Pages : Quiet(s, v)
<1>1. ASSUME NEW s \in Spaces, NEW v \in Pages PROVE Quiet(s, v)
  <2>1. root'[s] = root[s] /\ 0 \in 0..4
    OBVIOUS
  <2>2. \A l \in Levels : l > 0 /\ TableAt(l, s, v) # NoFrame =>
          mem'[TableAt(l, s, v)][Index(l, v)] = mem[TableAt(l, s, v)][Index(l, v)]
    OBVIOUS
  <2> QED BY <2>1, <2>2, SameSlots DEF Quiet, Levels
<1> QED BY <1>1

LEMMA NothingWritten ==
  ASSUME TypeOK, TypeOK', UNCHANGED <<mem, root>>, Windows
  PROVE  /\ \A s \in Spaces, v \in Pages : Quiet(s, v)
         /\ \A a : NoNewUser(a)
<1>1. \A s \in Spaces, v \in Pages : Quiet(s, v)
  BY AllQuiet
<1>2. ASSUME NEW a PROVE NoNewUser(a)
  BY <1>1, QuietIsSteady, SteadyFacts, FlyFacts DEF NoNewUser, IsFly, Windows
<1> QED BY <1>1, <1>2

\* The jobs of the other threads.
LEMMA OthersKept ==
  ASSUME TypeInv, TypeOK', JobsInv, NEW t \in Threads,
         \A u \in Threads \ {t} : job'[u] = job[u],
         \A u \in Threads \ {t} : job[u] # NoJob =>
           /\ \A s \in Touched(job[u].req), v \in Pages : Quiet(s, v) /\ SameWindow(s, v)
           /\ job[u].req.op = "flyUnmap" /\ job[u].pc \in Walking =>
                \A w \in Rest(job[u]) : Dropped(job[u].req.space, w) \/ NoNewUser(Leaf(job[u].req.space, w).addr),
         NEW k, job'[t] = k, k # NoJob => JobInv(k)'
  PROVE  JobsInv'
<1> SUFFICES ASSUME NEW u \in Threads, job'[u] # NoJob PROVE JobInv(job[u])'
  BY DEF JobsInv
<1>1. CASE u = t
  <2>1. k # NoJob /\ JobInv(k)'
    BY <1>1
  <2> QED BY <1>1, <2>1 DEF JobInv, ProgressOK, WalkOK, Rest, Promise, Iteration, Target
<1>2. CASE u # t
  <2> DEFINE i == job[u]
  <2>1. i \in Job /\ JobOK(i) /\ JobInv(i) /\ job'[u] = i /\ i # NoJob
    BY <1>2 DEF TypeInv, TypeOK, JobsOK, JobsInv
  <2>2. /\ \A s \in Touched(i.req), v \in Pages : Quiet(s, v) /\ SameWindow(s, v)
        /\ i.req.op = "flyUnmap" /\ i.pc \in Walking =>
             \A w \in Rest(i) : Dropped(i.req.space, w) \/ NoNewUser(Leaf(i.req.space, w).addr)
    BY <1>2, <2>1
  <2>3. PICK h : h = i
    OBVIOUS
  <2> HIDE DEF i
  <2>4. JobInv(h)'
    BY <2>1, <2>2, <2>3, JobKept DEF TypeInv
  <2> QED BY <2>1, <2>3, <2>4 DEF JobInv, ProgressOK, WalkOK, Rest, Promise, Iteration, Target
<1> QED BY <1>1, <1>2

-----------------------------------------------------------------------------
(* Steps that write nothing *)

LEMMA TreeInit == Init => TreeInv
<1> SUFFICES ASSUME Init PROVE TreeInv
  OBVIOUS
<1>1. TypeInv
  BY TypeInit
<1>2. BootFrame \in Frames /\ NoFrame \notin Frames /\ BootSpace \in Spaces
  BY PagerAssumption
<1>3. \A f \in Frames, n \in Slots : mem[f][n] = Zero
  BY DEF Init
<1>4. \A s \in Spaces : root[s] = IF s = BootSpace THEN BootFrame ELSE NoFrame
  BY DEF Init
<1>5. \A f : f \in TablesAt(4) <=> f = BootFrame
  BY <1>2, <1>4, TreeSlotsNow DEF TreeSlots
<1>6. \A f : f \notin TablesAt(3)
  BY <1>2, <1>3, <1>5, TreeSlotsNow DEF TreeSlots, IsTable, Zero
<1>7. \A f : f \notin TablesAt(2)
  BY <1>6, TreeSlotsNow DEF TreeSlots
<1>8. \A f : f \notin TablesAt(1)
  BY <1>7, TreeSlotsNow DEF TreeSlots
<1>9. \A f : f \in Tables <=> f = BootFrame
  BY <1>5, <1>6, <1>7, <1>8, TreeSlotsNow DEF TreeSlots, Levels
<1>10. FlyPages = {}
  BY <1>8, TreeSlotsNow DEF TreeSlots
<1>11. free = Frames \ {BootFrame}
  BY DEF Init
<1>12. TreePairs
  BY <1>2, <1>3, <1>4, <1>5, <1>6, <1>7, <1>9, <1>10, <1>11 DEF TreePairs, IsTable, Zero
<1>13. TreeShape
  BY <1>12, TreePairsNow
<1>14. NoLeak
  BY <1>2, <1>9, <1>10, <1>11 DEF NoLeak
<1>15. EntriesOK
  BY <1>2, <1>3, <1>5, <1>9, TreeSlotsNow DEF EntriesOK, TreeSlots, Zero
<1>16. \A t \in Threads : job[t] = NoJob
  BY DEF Init
<1> QED BY <1>1, <1>13, <1>14, <1>15, <1>16 DEF TreeInv, Apart, JobsInv

LEMMA SameTables ==
  ASSUME UNCHANGED <<mem, root>>
  PROVE  /\ Roots' = Roots /\ Pts' = Pts /\ Tables' = Tables /\ Directories' = Directories
         /\ EntriesOK => EntriesOK'
<1>1. Roots' = Roots
  BY DEF Roots
<1>2. Pdpts' = Pdpts
  BY <1>1 DEF Pdpts, TablesBelow, TableSlots, IsTable
<1>3. Pds' = Pds
  BY <1>2 DEF Pds, TablesBelow, TableSlots, IsTable
<1>4. Pts' = Pts
  BY <1>3 DEF Pts, TablesBelow, TableSlots, IsTable
<1>5. Tables' = Tables
  BY <1>1, <1>2, <1>3, <1>4 DEF Tables
<1>6. Directories' = Directories
  BY <1>1, <1>2, <1>3 DEF Directories, TableSlots, IsTable
<1> QED BY <1>1, <1>4, <1>5, <1>6 DEF EntriesOK

LEMMA SameTrees ==
  ASSUME TreeShape, NoLeak, EntriesOK, UNCHANGED <<mem, free, root>>, Released' = Released
  PROVE  TreeShape' /\ NoLeak' /\ EntriesOK' /\ Directories' = Directories
<1>1. /\ Roots' = Roots /\ Pts' = Pts /\ Tables' = Tables /\ Directories' = Directories
      /\ EntriesOK'
  BY SameTables
<1>2. FlyPages' = FlyPages
  <2>1. FlySlots' = FlySlots
    BY <1>1 DEF FlySlots
  <2> QED BY <2>1 DEF FlyPages
<1> QED BY <1>1, <1>2 DEF TreeShape, NoLeak

\* The jobs are for different spaces still.
LEMMA StillApart ==
  ASSUME Apart, NEW t \in Threads, \A u \in Threads \ {t} : job'[u] = job[u],
         NEW k, job'[t] = k,
         k # NoJob => \A u \in Threads \ {t} :
           job[u] # NoJob => Touched(k.req) \intersect Touched(job[u].req) = {}
  PROVE  Apart'
<1> SUFFICES ASSUME NEW u \in Threads, NEW v \in Threads, u # v, job'[u] # NoJob, job'[v] # NoJob
             PROVE  (Touched(job[u].req) \intersect Touched(job[v].req) = {})'
  BY DEF Apart
<1>1. CASE u = t
  BY <1>1 DEF Touched
<1>2. CASE v = t
  <2>1. Touched(k.req) \intersect Touched(job[u].req) = {}
    BY <1>2
  <2> QED BY <1>2, <2>1 DEF Touched
<1>3. CASE u # t /\ v # t
  <2>1. Touched(job[u].req) \intersect Touched(job[v].req) = {}
    BY <1>3 DEF Apart
  <2> QED BY <1>3, <2>1 DEF Touched
<1> QED BY <1>1, <1>2, <1>3

LEMMA NothingDone ==
  ASSUME TreeInv, TypeInv', UNCHANGED <<mem, free, root>>, NEW t \in Threads,
         NEW k, job' = [job EXCEPT ![t] = k],
         t \notin Clearing, k # NoJob => k.pc # "clear",
         k # NoJob => JobInv(k) /\ \A u \in Threads \ {t} :
           job[u] # NoJob => Touched(k.req) \intersect Touched(job[u].req) = {}
  PROVE  TreeInv'
<1>0. Windows
  BY WindowsStay DEF TreeInv, TypeInv
<1>1. TreeShape' /\ NoLeak' /\ EntriesOK'
  BY <1>0, SameTrees DEF TreeInv, Windows
<1>2. \A u \in Threads \ {t} : job'[u] = job[u]
  BY DEF TreeInv, TypeInv, TypeOK
<1>3. job'[t] = k
  BY DEF TreeInv, TypeInv, TypeOK
<1>4. Apart'
  BY <1>2, <1>3, StillApart DEF TreeInv
<1>5. /\ \A s \in Spaces, v \in Pages : Quiet(s, v) /\ SameWindow(s, v)
      /\ \A a : NoNewUser(a)
  BY <1>0, NothingWritten DEF TreeInv, TypeInv, Windows
<1>6. \A u \in Threads : job[u] # NoJob => Touched(job[u].req) \subseteq Spaces
  BY JobTypes DEF Touched, TreeInv, TypeInv, TypeOK
<1>7. ASSUME k # NoJob PROVE JobInv(k)'
  <2>1. k \in Job /\ Touched(k.req) \subseteq Spaces
    <3>1. k \in Job
      BY <1>3, <1>7 DEF TypeInv, TypeOK
    <3> QED BY <3>1, JobTypes DEF Touched
  <2>2. JobOK(k)
    <3>1. JobOK(job[t])'
      BY <1>3, <1>7 DEF TypeInv, JobsOK
    <3> QED BY <1>3, <3>1 DEF JobOK, Target
  <2>3. JobInv(k)
    BY <1>7
  <2> QED BY <1>5, <2>1, <2>2, <2>3, JobKept DEF TreeInv, TypeInv
<1>8. JobsInv'
  BY <1>2, <1>3, <1>5, <1>6, <1>7, OthersKept DEF TreeInv, TypeInv
<1> QED BY <1>1, <1>4, <1>8 DEF TreeInv

-----------------------------------------------------------------------------
(* Steps of a walk that write nothing *)

\* What is known of a job that walks.
LEMMA WalkingFacts ==
  ASSUME TreeInv, NEW t \in Threads, job[t] # NoJob, job[t].pc \in Walking,
         NEW j, j = job[t]
  PROVE  /\ j \in Job /\ JobOK(j) /\ JobInv(j) /\ ProgressOK(j) /\ WalkOK(j)
         /\ j.req \in Requests /\ j.req \in Request /\ j.req.space \in Spaces
         /\ j.v \in Pages /\ j.v \in Rest(j) /\ Promise(j.req, j.v)
         /\ j.left \in Nat /\ j.left > 0
         /\ Aligned(j.req) /\ Iteration(j.req, j.v, j.left)
         /\ ReachedAt(j.req, j.v) = Target(j) /\ (j.v % Span[Target(j)]) = 0
         /\ Target(j) \in 1..3 /\ j.level \in Levels /\ Target(j) <= j.level
         /\ j.table \in Frames /\ j.table # NoFrame
         /\ j.table = TableAt(j.level, j.req.space, j.v) /\ j.table \in TablesAt(j.level)
<1>1. j \in Job /\ JobOK(j) /\ JobInv(j)
  BY DEF TreeInv, TypeInv, TypeOK, JobsOK, JobsInv
<1>2. ProgressOK(j) /\ WalkOK(j) /\ \A w \in Rest(j) : Promise(j.req, w)
  BY <1>1 DEF JobInv
<1>3. /\ j.req \in Requests /\ j.req \in Request /\ j.req.space \in Spaces /\ j.v \in Nat
      /\ j.left \in Nat /\ j.level \in Levels /\ j.table \in Frames
  BY <1>1, JobTypes
<1>4. j.left > 0 /\ Target(j) <= j.level
  BY <1>1 DEF JobOK
<1>5. j.v \in Rest(j)
  BY <1>3, <1>4 DEF Rest
<1>6. j.v \in Pages /\ Target(j) \in 1..3
  BY <1>1, <1>2, <1>5, RestFacts
<1>7. Iteration(j.req, j.v, j.left) /\ Aligned(j.req)
  BY <1>2, <1>4 DEF ProgressOK
<1>8. ReachedAt(j.req, j.v) = Target(j) /\ (j.v % Span[Target(j)]) = 0
  BY <1>7 DEF Iteration, Target
<1>9. j.table = TableAt(j.level, j.req.space, j.v) /\ j.table # NoFrame
  BY <1>2, <1>3, PagerAssumption DEF WalkOK
<1>10. j.table \in TablesAt(j.level)
  BY <1>3, <1>6, <1>9, OnTheWay DEF TreeInv, TypeInv
<1> QED BY <1>1, <1>2, <1>3, <1>4, <1>5, <1>6, <1>7, <1>8, <1>9, <1>10

\* A request that has freed a frame is at the entry that maps its page.
LEMMA ClearingFacts ==
  ASSUME TreeInv, NEW t \in Clearing, NEW j, j = job[t]
  PROVE  /\ t \in Threads /\ j # NoJob /\ j.pc \in Walking /\ j.pc \in Calling
         /\ j.req.op = "flyUnmap" /\ j.level = 1 /\ j.req.space \in Spaces /\ j.v \in Pages
         /\ j.table = TableAt(1, j.req.space, j.v) /\ j.table # NoFrame
         /\ j.index[j.level] = Index(1, j.v)
<1>1. t \in Threads /\ j # NoJob /\ j.pc = "clear" /\ j.pc \in Walking /\ j.pc \in Calling
  BY DEF Clearing, Walking, Calling
<1>2. /\ j \in Job /\ JobOK(j) /\ WalkOK(j) /\ j.req.space \in Spaces /\ j.v \in Pages
      /\ Promise(j.req, j.v) /\ ReachedAt(j.req, j.v) = Target(j) /\ j.table # NoFrame
      /\ j.table = TableAt(j.level, j.req.space, j.v) /\ j.level \in Levels
  BY <1>1, WalkingFacts
<1>3. j.req.op = "flyUnmap" /\ Target(j) = j.level
  BY <1>1, <1>2 DEF JobOK
<1>4. j.level = 1
  BY <1>2, <1>3 DEF Promise
<1>5. j.index[j.level] = Index(j.level, j.v)
  BY <1>1, <1>2 DEF WalkOK
<1> QED BY <1>1, <1>2, <1>3, <1>4, <1>5

\* The slots whose frames are freed are those of the pages that are being dropped.
LEMMA ReleasedIsDropped ==
  ASSUME TreeInv, NEW s \in Spaces, NEW v \in Pages, TableAt(1, s, v) # NoFrame
  PROVE  <<TableAt(1, s, v), Index(1, v)>> \in Released <=> Dropped(s, v)
<1>1. ASSUME Dropped(s, v) PROVE <<TableAt(1, s, v), Index(1, v)>> \in Released
  <2>1. PICK t \in Clearing : job[t].req.space = s /\ job[t].v = v
    BY <1>1 DEF Dropped
  <2>2. job[t].table = TableAt(1, s, v) /\ job[t].index[job[t].level] = Index(1, v)
    BY <2>1, ClearingFacts
  <2> QED BY <2>1, <2>2 DEF Released
<1>2. ASSUME <<TableAt(1, s, v), Index(1, v)>> \in Released PROVE Dropped(s, v)
  <2>1. PICK t \in Clearing :
          TableAt(1, s, v) = job[t].table /\ Index(1, v) = job[t].index[job[t].level]
    BY <1>2 DEF Released
  <2> DEFINE x == job[t].req.space
  <2> DEFINE w == job[t].v
  <2>2. x \in Spaces /\ w \in Pages /\ TableAt(1, s, v) = TableAt(1, x, w) /\ Index(1, v) = Index(1, w)
    BY <2>1, ClearingFacts
  <2> HIDE DEF x, w
  <2>3. 1 \in Levels /\ TypeOK /\ TreeShape
    BY DEF Levels, TreeInv, TypeInv
  <2>4. s = x /\ \A i \in Levels : i > 1 => Index(i, v) = Index(i, w)
    BY <2>2, <2>3, OnePath
  <2>5. SamePath(1, v, w)
    BY <2>2, <2>4 DEF SamePath, Levels
  <2>6. v \div Span[1] = w \div Span[1]
    BY <2>2, <2>3, <2>5, PathIsQuotient
  <2>7. v = w
    <3>1. Span[1] = 1 /\ v \in Nat /\ w \in Nat
      BY <2>2, PageFacts, SpanFacts
    <3>2. v \div 1 = v /\ w \div 1 = w
      BY ONLY <3>1
    <3> QED BY <2>6, <3>1, <3>2
  <2> QED BY <2>1, <2>4, <2>7 DEF Dropped, x, w
<1> QED BY <1>1, <1>2

LEMMA OwnMove ==
  ASSUME TreeInv, TypeInv', UNCHANGED <<mem, free, root>>, NEW t \in Threads, job[t] # NoJob,
         NEW pc, NEW level, NEW table, NEW index,
         NEW k, k = JobAt(job[t], pc, level, table, index), job' = [job EXCEPT ![t] = k],
         job[t].pc # "clear", pc # "clear",
         pc \in Walking => job[t].pc \in Walking /\ WalkOK(k)
  PROVE  TreeInv'
<1> DEFINE j == job[t]
<1>1. /\ k.req = j.req /\ k.v = j.v /\ k.left = j.left /\ k.phys = j.phys /\ k.pc = pc
  BY DEF JobAt
<1>2. JobInv(j) /\ \A u \in Threads \ {t} :
        job[u] # NoJob => Touched(j.req) \intersect Touched(job[u].req) = {}
  BY DEF TreeInv, JobsInv, Apart
<1> HIDE DEF j
<1>3. ProgressOK(k)
  BY <1>1, <1>2 DEF JobInv, ProgressOK
<1>4. ASSUME pc \in Walking PROVE \A w \in Rest(k) : Promise(k.req, w)
  <2>1. j.pc \in Walking
    BY <1>4 DEF j
  <2> QED BY <1>1, <1>2, <2>1 DEF JobInv, Rest
<1>5. JobInv(k)
  BY <1>1, <1>3, <1>4 DEF JobInv
<1>6. t \notin Clearing /\ k.pc # "clear"
  BY <1>1 DEF Clearing
<1> QED BY <1>1, <1>2, <1>5, <1>6, NothingDone

\* get_page_table has read the entry.
LEMMA TreeLook ==
  ASSUME TreeInv, TypeInv', NEW t \in Threads, Look(t)
  PROVE  TreeInv'
<1> DEFINE j == job[t]
<1> DEFINE n == Index(j.level, j.v)
<1> DEFINE pc == IF j.level = Target(j) THEN "callback"
                 ELSE IF mem[j.table][n].present THEN "down" ELSE "make"
<1> DEFINE index == [j.index EXCEPT ![j.level] = n]
<1> DEFINE k == JobAt(j, pc, j.level, j.table, index)
<1>1. j # NoJob /\ j.pc = "look" /\ UNCHANGED <<mem, free, root, pcid>>
  BY DEF Look
<1>2. j.pc \in Walking
  BY <1>1 DEF Walking
<1>3. /\ j \in Job /\ WalkOK(j) /\ j.v \in Pages /\ j.req.space \in Spaces /\ j.level \in Levels
      /\ j.table = TableAt(j.level, j.req.space, j.v) /\ j.table # NoFrame
      /\ j.table \in TablesAt(j.level)
  BY <1>1, <1>2, WalkingFacts
<1>4. job' = [job EXCEPT ![t] = k]
  <2>1. job' = [job EXCEPT ![t] = [j EXCEPT !.index[j.level] = n, !.pc = pc]]
    BY DEF Look
  <2> HIDE DEF pc, n, k
  <2>2. [j EXCEPT !.index[j.level] = n, !.pc = pc] = JobAt(j, pc, j.level, j.table, index)
    BY <1>3, LookMove
  <2> QED BY <2>1, <2>2 DEF k
<1>5. EntryAt(j.level, j.req.space, j.v) = mem[j.table][n]
  BY <1>3, WalkSteps
<1>6. mem[j.table][n] = Zero \/ mem[j.table][n].present
  <2>1. n \in Slots
    BY <1>3, IndexFacts, PageFacts
  <2>2. j.table \in Tables
    BY <1>3, TreeSlotsNow DEF TreeSlots
  <2> QED BY <2>1, <2>2 DEF TreeInv, EntriesOK
<1>7. j.index \in [Levels -> Slots] /\ j.level \in Levels
  BY <1>3, JobTypes
<1>8. /\ k.req = j.req /\ k.v = j.v /\ k.level = j.level /\ k.table = j.table
      /\ k.index = index /\ k.pc = pc
  BY DEF JobAt
<1>9. /\ pc = "make" => mem[j.table][n] = Zero
      /\ pc = "down" => mem[j.table][n].present
  BY <1>6
<1>10. WalkOK(k)
  <2>1. \A l \in Levels : l > j.level \/ l = j.level => index[l] = Index(l, j.v)
    BY <1>1, <1>3, <1>7 DEF WalkOK
  <2> HIDE DEF k, index, pc, n, j
  <2> QED BY <1>3, <1>5, <1>8, <1>9, <2>1 DEF WalkOK
<1>11. job[t].pc # "clear" /\ pc # "clear" /\ job[t] # NoJob /\ UNCHANGED <<mem, free, root>>
  BY <1>1
<1> HIDE DEF k, pc, index
<1> QED BY <1>2, <1>4, <1>10, <1>11, OwnMove DEF k

\* pager_traverse has gone down a level: to a table, since the entry of a page that
\* is mapped, if at all, at the level the walk is going to, points to one.
LEMMA DownFacts ==
  ASSUME TreeInv, NEW t \in Threads, job[t] # NoJob, job[t].pc = "down",
         NEW j, j = job[t]
  PROVE  /\ IsTable(Current(j)) /\ Current(j).addr \in Frames
         /\ j.level \in 2..4
         /\ Current(j).addr = TableAt(j.level - 1, j.req.space, j.v)
         /\ Current(j) = EntryAt(j.level, j.req.space, j.v)
<1>1. j.pc = "down" /\ j.pc \in Walking
  BY DEF Walking
<1>2. /\ j \in Job /\ JobOK(j) /\ WalkOK(j) /\ j.v \in Pages /\ j.req.space \in Spaces
      /\ j.level \in Levels /\ Promise(j.req, j.v) /\ Target(j) \in 1..3
      /\ ReachedAt(j.req, j.v) = Target(j)
      /\ j.table = TableAt(j.level, j.req.space, j.v) /\ j.table # NoFrame
      /\ j.table \in TablesAt(j.level)
  BY <1>1, WalkingFacts
<1> DEFINE s == j.req.space
<1> DEFINE e == EntryAt(j.level, s, j.v)
<1>3. Target(j) < j.level
  BY <1>1, <1>2 DEF JobOK
<1>4. j.index[j.level] = Index(j.level, j.v) /\ e.present
  BY <1>1, <1>2 DEF WalkOK
<1>5. Current(j) = e
  BY <1>2, <1>4, WalkSteps DEF Current
<1>6. LeafLevel(s, j.v) \in {0, Target(j)}
  BY <1>2 DEF Promise, Fits
<1>7. TypeOK
  BY DEF TreeInv, TypeInv
<1>8. IsTable(e)
  <2>1. CASE j.level = 4
    <3>1. TableAt(4, s, j.v) \in Roots
      BY <1>2, <2>1, BelowFacts
    <3>2. ~e.ps
      <4>1. e = mem[j.table][Index(4, j.v)] /\ Index(4, j.v) \in Slots
        BY <1>2, <2>1, WalkSteps, IndexFacts, PageFacts
      <4> QED BY <1>2, <2>1, <3>1, <4>1 DEF TreeInv, EntriesOK
    <3> QED BY <1>4, <3>2 DEF IsTable
  <2>2. CASE j.level = 3
    BY <1>2, <1>3, <1>4, <1>6, <1>7, <2>2, LeafLevels DEF IsTable
  <2>3. CASE j.level = 2
    <3>1. IsTable(EntryAt(3, s, j.v))
      BY <1>2, <2>3, TablesAbove DEF Levels
    <3> QED BY <1>2, <1>3, <1>4, <1>6, <1>7, <2>3, <3>1, LeafLevels DEF IsTable
  <2>4. j.level # 1
    BY <1>2, <1>3
  <2> QED BY <1>2, <2>1, <2>2, <2>3, <2>4 DEF Levels
<1>9. j.level \in 2..4
  BY <1>2, <1>3 DEF Levels
<1>10. e = mem[j.table][Index(j.level, j.v)] /\ Index(j.level, j.v) \in Slots
  BY <1>2, WalkSteps, IndexFacts, PageFacts
<1>11. e.addr \in TablesAt(j.level - 1) /\ j.level - 1 \in 1..3
  <2>1. j.level - 1 \in 1..3 /\ (j.level - 1) + 1 = j.level
    BY <1>9
  <2> HIDE DEF e, s
  <2> QED BY <1>2, <1>8, <1>10, <2>1, TreeSlotsNow DEF TreeSlots
<1>12. e.addr \in Frames
  BY <1>11, TreeSlotsNow DEF TreeSlots, TreeInv, TreeShape, Levels
<1>13. e.addr = TableAt(j.level - 1, s, j.v)
  <2>1. j.level - 1 # 4 /\ (j.level - 1) + 1 = j.level
    BY <1>9
  <2> QED BY <1>8, <1>12, <2>1 DEF TableAt
<1> QED BY <1>5, <1>8, <1>9, <1>12, <1>13

LEMMA TreeDown ==
  ASSUME TreeInv, TypeInv', NEW t \in Threads, Down(t)
  PROVE  TreeInv'
<1> DEFINE j == job[t]
<1> DEFINE e == Current(job[t])
<1>1. j.pc = "down" /\ j # NoJob /\ UNCHANGED <<mem, free, root, pcid>>
      /\ job' = IF IsTable(e) /\ e.addr \in Frames
                  THEN [job EXCEPT ![t].pc = "look", ![t].level = @ - 1, ![t].table = e.addr]
                  ELSE [job EXCEPT ![t].pc = "wild"]
  BY DEF Down
<1>2. j.pc \in Walking
  BY <1>1 DEF Walking
<1>3. j \in Job /\ WalkOK(j) /\ j.level \in Levels
  BY <1>1, <1>2, WalkingFacts
<1>4. /\ IsTable(e) /\ e.addr \in Frames /\ j.level \in 2..4
      /\ e.addr = TableAt(j.level - 1, j.req.space, j.v)
  BY <1>1, DownFacts
<1> DEFINE k == JobAt(j, "look", j.level - 1, e.addr, j.index)
<1>5. job' = [job EXCEPT ![t] = k]
  <2>1. job' = [job EXCEPT ![t] = [j EXCEPT !.pc = "look", !.level = @ - 1, !.table = e.addr]]
    BY <1>1, <1>4
  <2> HIDE DEF e, k
  <2>2. [j EXCEPT !.pc = "look", !.level = @ - 1, !.table = e.addr]
          = JobAt(j, "look", j.level - 1, e.addr, j.index)
    BY <1>3, DownMove
  <2> QED BY <2>1, <2>2 DEF k
<1>6. /\ k.req = j.req /\ k.v = j.v /\ k.level = j.level - 1 /\ k.table = e.addr
      /\ k.index = j.index /\ k.pc = "look"
  BY DEF JobAt
<1>7. WalkOK(k)
  <2>1. \A l \in Levels : l > j.level - 1 => j.index[l] = Index(l, j.v)
    BY <1>1, <1>3 DEF WalkOK, Levels
  <2> HIDE DEF k, e, j
  <2> QED BY <1>4, <1>6, <2>1 DEF WalkOK
<1> DEFINE pc == "look"
<1> DEFINE level == j.level - 1
<1>8. k = JobAt(j, pc, level, e.addr, j.index)
  OBVIOUS
<1>9. j # NoJob /\ UNCHANGED <<mem, free, root>> /\ job[t].pc # "clear" /\ pc # "clear"
  BY <1>1
<1> HIDE DEF k, e, pc, level
<1> QED BY <1>2, <1>5, <1>7, <1>8, <1>9, OwnMove

LEMMA TreeFail ==
  ASSUME TreeInv, TypeInv', NEW t \in Threads, job[t] # NoJob, job[t].pc # "clear", Fail(t)
  PROVE  TreeInv'
<1> DEFINE j == job[t]
<1>1. j \in Job /\ UNCHANGED <<mem, free, root, pcid>>
      /\ job' = [job EXCEPT ![t] = [j EXCEPT !.pc = "failed"]]
  BY DEF Fail, TreeInv, TypeInv, TypeOK
<1>2. [j EXCEPT !.pc = "failed"] = JobAt(j, "failed", j.level, j.table, j.index)
  BY <1>1, PcMove
<1> DEFINE k == [j EXCEPT !.pc = "failed"]
<1> DEFINE pc == "failed"
<1>3. k = JobAt(j, pc, j.level, j.table, j.index) /\ job' = [job EXCEPT ![t] = k]
  BY <1>1, <1>2
<1>4. pc \notin Walking /\ pc # "clear"
  BY DEF Walking, Calling
<1>5. UNCHANGED <<mem, free, root>>
  BY <1>1
<1> HIDE DEF k, pc
<1> QED BY <1>3, <1>4, <1>5, OwnMove

LEMMA TreeReturn ==
  ASSUME TreeInv, TypeInv', NEW t \in Threads, Return(t)
  PROVE  TreeInv'
<1>1. UNCHANGED <<mem, free, root, pcid>> /\ job' = [job EXCEPT ![t] = NoJob]
  BY DEF Return
<1>2. t \notin Clearing
  BY DEF Return, Clearing
<1> QED BY <1>1, <1>2, NothingDone

-----------------------------------------------------------------------------
(* Calls *)

\* The contract is a promise for every page of the range.
LEMMA ContractFacts ==
  ASSUME NEW r \in Requests, Contract(r), NEW w \in RangeOf(r)
  PROVE  Promise(r, w)
<1>1. r \in Request
  BY RequestFacts
<1>2. Fits(r, r.space, w) /\ (r.op = "clone" => FitsSource(r, w))
  BY DEF Contract, SameGranularity, NoFinerSource, ReachedIn, Fits, FitsSource
<1>3. r.op \in {"map", "unmap", "flyMap", "flyUnmap", "setAttr", "clone"}
  BY <1>1 DEF Request
<1>4. (CASE r.op = "map"      -> ~IsFly(r.space, w) /\ r.phys + (w - r.v) \notin Frames
         [] r.op = "unmap"    -> ~IsFly(r.space, w)
         [] r.op = "flyMap"   -> ~Mapped(r.space, w)
         [] r.op = "flyUnmap" -> ReachedAt(r, w) = 1 /\ IsFly(r.space, w) /\ Sole(r.space, w)
         [] r.op = "setAttr"  -> Mapped(r.space, w)
         [] r.op = "clone"    -> SourceOpen(r.src, w))
  BY DEF Contract, RightOperation, Sole, SourceOpen
<1>5. /\ r.op = "map"      => ~IsFly(r.space, w) /\ r.phys + (w - r.v) \notin Frames
      /\ r.op = "unmap"    => ~IsFly(r.space, w)
      /\ r.op = "flyMap"   => ~Mapped(r.space, w)
      /\ r.op = "flyUnmap" => ReachedAt(r, w) = 1 /\ IsFly(r.space, w) /\ Sole(r.space, w)
      /\ r.op = "setAttr"  => Mapped(r.space, w)
      /\ r.op = "clone"    => SourceOpen(r.src, w)
  BY <1>3, <1>4
<1> QED BY <1>2, <1>5 DEF Promise

LEMMA TreeCall ==
  ASSUME Serialised, TreeInv, TypeInv', NEW t \in Threads, Call(t)
  PROVE  TreeInv'
<1>1. PICK r \in Requests :
       /\ root[r.space] # NoFrame
       /\ Contract(r) /\ Undisturbed(r)
       /\ job' = [job EXCEPT ![t] =
            [req |-> r, v |-> r.v, phys |-> IF r.op = "map" THEN r.phys ELSE 0,
             left |-> r.size, pc |-> IF r.size = 0 THEN "done" ELSE "look", level |-> 4,
             table |-> root[r.space], index |-> [l \in Levels |-> 0]]]
  BY DEF Call
<1> DEFINE k == [req |-> r, v |-> r.v, phys |-> IF r.op = "map" THEN r.phys ELSE 0,
                 left |-> r.size, pc |-> IF r.size = 0 THEN "done" ELSE "look", level |-> 4,
                 table |-> root[r.space], index |-> [l \in Levels |-> 0]]
<1>2. /\ k.req = r /\ k.v = r.v /\ (r.op = "map" => k.phys = r.phys) /\ k.left = r.size
      /\ k.level = 4 /\ k.table = root[r.space]
      /\ k.pc = IF r.size = 0 THEN "done" ELSE "look"
  OBVIOUS
<1>3. job' = [job EXCEPT ![t] = k] /\ UNCHANGED <<mem, free, root>>
  BY <1>1 DEF Call
<1> HIDE DEF k
<1>4. r \in Request /\ r.v \in Nat /\ r.size \in Nat /\ r.phys \in Nat
  BY RequestFacts
<1>5. ProgressOK(k)
  <2>1. Aligned(r) /\ (r.op = "clone" => r.src # r.space)
    BY <1>1 DEF Contract
  <2>2. r.size > 0 => Iteration(r, r.v, r.size)
    BY <2>1, FirstIteration
  <2>3. r.v >= r.v /\ r.v + r.size = r.v + r.size /\ r.phys = r.phys + (r.v - r.v)
    BY <1>4
  <2> QED BY <1>2, <2>1, <2>2, <2>3 DEF ProgressOK
<1>6. ASSUME k.pc \in Walking PROVE WalkOK(k)
  <2>1. k.pc = "look"
    BY <1>2, <1>6 DEF Walking, Calling
  <2>2. k.table = TableAt(k.level, k.req.space, k.v)
    BY <1>2 DEF TableAt
  <2>3. \A l \in Levels : ~(l > k.level)
    BY <1>2 DEF Levels
  <2> QED BY <2>1, <2>2, <2>3 DEF WalkOK
<1>7. \A w \in Rest(k) : Promise(k.req, w)
  BY <1>1, <1>2, ContractFacts DEF Rest, RangeOf
<1>8. JobInv(k)
  BY <1>5, <1>6, <1>7 DEF JobInv
<1>9. \A u \in Threads : job[u] # NoJob => Touched(k.req) \intersect Touched(job[u].req) = {}
  BY <1>1, <1>2 DEF Undisturbed
<1>10. t \notin Clearing /\ k.pc # "clear"
  BY <1>2 DEF Call, Clearing
<1> QED BY <1>3, <1>8, <1>9, <1>10, NothingDone

\* pager_create_page_tables: the space had no root, so nobody works on it.
LEMMA TreeCreate ==
  ASSUME TreeInv, TypeInv', NEW s \in Spaces, CreatePageTables(s)
  PROVE  TreeInv'
<1>1. PICK f \in PmmOffers(free) :
        /\ free' = free \ {f}
        /\ mem' = [mem EXCEPT ![f] = [x \in Slots |-> Zero]]
        /\ root' = [root EXCEPT ![s] = f]
        /\ root[s] = NoFrame /\ job' = job
  BY DEF CreatePageTables
<1>2. TypeOK /\ TypeOK' /\ TreeShape /\ JobsOK
  BY DEF TreeInv, TypeInv
<1>3. f \in free /\ f \in Frames
  BY <1>2, PmmAssumption DEF TypeOK
<1>4. f \notin Tables
  BY <1>2, <1>3 DEF TreeShape
<1>5. /\ root \in [Spaces -> Frames \union {NoFrame}]
      /\ \A g \in Tables : mem'[g] = mem[g]
      /\ \A m \in Slots : mem'[f][m] = Zero
  BY <1>1, <1>2, <1>3, <1>4 DEF TypeOK
<1>0. Windows
  BY <1>1 DEF Windows, Released, SameWindow, Dropped, Clearing
<1>6. /\ TreeShape' /\ NoLeak'
      /\ Tables' = Tables \union {f}
  BY <1>0, <1>1, <1>2, <1>3, <1>5, TreePlanted DEF TreeInv, Windows
<1>7. EntriesOK'
  <2>1. \A g \in Tables', n \in Slots :
          mem'[g][n] = Zero \/ (mem'[g][n].present /\ mem'[g][n].addr \in Nat)
    BY <1>5, <1>6 DEF TreeInv, EntriesOK
  <2>2. Roots' \subseteq Roots \union {f}
    BY <1>1, <1>2 DEF Roots, TypeOK
  <2>3. Roots \subseteq Tables
    BY DEF Tables
  <2>4. \A g \in Roots', n \in Slots : ~mem'[g][n].ps
    BY <1>5, <2>2, <2>3 DEF TreeInv, EntriesOK, Zero
  <2>5. \A g \in Tables', n \in Slots : mem'[g][n].ps => mem'[g][n].addr \notin Frames
    BY <1>5, <1>6 DEF TreeInv, EntriesOK, Zero
  <2> QED BY <2>1, <2>4, <2>5 DEF EntriesOK
<1>8. ASSUME NEW x \in Spaces, NEW v \in Pages
      PROVE  Steady(x, v) /\ (root[x] # NoFrame => Quiet(x, v))
  BY <1>1, <1>2, <1>3, <1>5, <1>8, WalksPlanted
<1>9. ASSUME NEW t \in Threads, job[t] # NoJob
      PROVE  JobInv(job[t])'
  <2> DEFINE j == job[t]
  <2>1. j \in Job /\ JobOK(j) /\ JobInv(j) /\ j' = j
    BY <1>1, <1>2, <1>9 DEF TypeOK, JobsOK, TreeInv, JobsInv
  <2>2. \A x \in Touched(j.req) : x \in Spaces /\ root[x] # NoFrame
    BY <2>1, JobTypes DEF Touched, JobOK
  <2>3. PICK h : h = j
    OBVIOUS
  <2>4. \A a : NoNewUser(a)
    BY <1>0, <1>8, SteadyFacts, FlyFacts DEF NoNewUser, IsFly, Windows
  <2> HIDE DEF j
  <2>5. JobInv(h)'
    BY <1>0, <1>2, <1>8, <2>1, <2>2, <2>3, <2>4, JobKept DEF Windows
  <2> QED BY <2>1, <2>3, <2>5
       DEF JobInv, ProgressOK, WalkOK, Rest, Promise, Iteration, Target, j
<1>10. Apart' /\ JobsInv'
  BY <1>1, <1>9 DEF TreeInv, Apart, JobsInv, Touched
<1> QED BY <1>6, <1>7, <1>10 DEF TreeInv

-----------------------------------------------------------------------------
(* A table is made *)

\* No request has the third bit of PAT, which would make part of a table's address.
NoThirdBit == \A r \in Requests : 2 \notin r.pat

\* An entry of a frame or a page, where the third bit of PAT is not in the way.
LEMMA AtFields ==
  ASSUME NEW a \in Int, NEW l, NEW c, NEW r, NEW d, d = GetEntryBits(l, c, r), d.addr = 0,
         NEW e, e = At(a, d)
  PROVE  /\ e.present /\ e.addr = a /\ e.rights = d.rights
         /\ e.ps <=> l = c /\ l > 1
<1>1. PICK n : n = a + (IF d.addr = 1 /\ a % 2 = 0 THEN 1 ELSE 0)
  OBVIOUS
<1>2. n = a
  <2>1. n = a + 0
    BY <1>1
  <2> QED BY <2>1
<1>3. e = [d EXCEPT !.addr = n]
  BY <1>1 DEF At
<1>4. PICK p, m, x : d = [present |-> TRUE, ps |-> p, addr |-> m, rights |-> x]
  BY DEF GetEntryBits
<1>5. d.present /\ (d.ps <=> l = c /\ l > 1)
  BY DEF GetEntryBits
<1>6. e.present = d.present /\ e.ps = d.ps /\ e.rights = d.rights /\ e.addr = n
  BY <1>3, <1>4
<1> QED BY <1>2, <1>5, <1>6

\* What is written, and where.
LEMMA MakeFacts ==
  ASSUME NoThirdBit, TreeInv, NEW t \in Threads, MakeTable(t), NEW j, j = job[t]
  PROVE  /\ j # NoJob /\ j.pc = "make" /\ j.pc \in Walking /\ UNCHANGED <<root, pcid>>
         /\ j.level \in 2..4 /\ Target(j) \in 1..3 /\ Target(j) < j.level
         /\ EntryAt(j.level, j.req.space, j.v) = Zero
         /\ j.index[j.level] = Index(j.level, j.v) /\ Index(j.level, j.v) \in Slots
         /\ \E e \in Entry :
              /\ e.addr \in Frames /\ e.addr \in free /\ free' = free \ {e.addr}
              /\ e = At(e.addr, GetEntryBits(j.level, Target(j), j.req))
              /\ IsTable(e)
              /\ Wrote(j.table, Index(j.level, j.v), e)
              /\ \A m \in Slots : mem'[e.addr][m] = Zero
<1>1. j # NoJob /\ j.pc = "make" /\ UNCHANGED <<root, pcid>>
  BY DEF MakeTable
<1>2. j.pc \in Walking
  BY <1>1 DEF Walking
<1>3. /\ j \in Job /\ JobOK(j) /\ WalkOK(j) /\ j.v \in Pages /\ j.level \in Levels
      /\ j.table \in Frames /\ j.table # NoFrame /\ j.table = TableAt(j.level, j.req.space, j.v)
      /\ Target(j) \in 1..3 /\ j.req \in Request /\ j.table \in TablesAt(j.level)
  BY <1>1, <1>2, WalkingFacts
<1>4. Target(j) < j.level /\ j.level \in 2..4
  BY <1>1, <1>3 DEF JobOK, Levels
<1>5. EntryAt(j.level, j.req.space, j.v) = Zero /\ j.index[j.level] = Index(j.level, j.v)
  BY <1>1, <1>3 DEF WalkOK
<1>6. Index(j.level, j.v) \in Slots
  BY <1>3, IndexFacts, PageFacts
<1>7. PICK f \in PmmOffers(free) :
        /\ free' = free \ {f}
        /\ mem' = [mem EXCEPT
             ![f] = [x \in Slots |-> Zero],
             ![j.table][j.index[j.level]] = At(f, GetEntryBits(j.level, Target(j), j.req))]
  BY DEF MakeTable
<1>8. TypeOK /\ TreeShape
  BY DEF TreeInv, TypeInv
<1>9. f \in Frames /\ f \in free /\ f \in Int
  <2>1. f \in Frames /\ f \in free
    BY <1>8, PmmAssumption DEF TypeOK
  <2> QED BY <2>1, PagerAssumption
<1> DEFINE e == At(f, GetEntryBits(j.level, Target(j), j.req))
<1>10. e \in Entry
  <2>1. Target(j) \in Levels
    BY <1>3 DEF Levels
  <2> QED BY <1>3, <1>9, <2>1, EntryFacts
<1>11. e.addr = f /\ IsTable(e)
  <2>1. Target(j) # j.level
    BY <1>3, <1>4
  <2>2. j.req \in Requests /\ 2 \notin Pat(j.req)
    BY <1>3, JobTypes DEF NoThirdBit, Pat
  <2>3. PICK d : d = GetEntryBits(j.level, Target(j), j.req)
    OBVIOUS
  <2>4. d.addr = 0
    BY <2>2, <2>3 DEF GetEntryBits
  <2>5. e = At(f, d)
    BY <2>3
  <2> HIDE DEF e
  <2>6. e.present /\ e.addr = f /\ (e.ps <=> j.level = Target(j) /\ j.level > 1)
    BY <1>9, <2>3, <2>4, <2>5, AtFields
  <2> QED BY <2>1, <2>6 DEF IsTable
<1>12. f \notin Tables /\ j.table \in Tables
  BY <1>3, <1>8, <1>9, TreeSlotsNow DEF TreeShape, TreeSlots
<1> HIDE DEF e
<1>13. Wrote(j.table, Index(j.level, j.v), e)
  <2>1. mem' = [mem EXCEPT ![f] = [x \in Slots |-> Zero], ![j.table][Index(j.level, j.v)] = e]
    BY <1>5, <1>7 DEF e
  <2>2. \A g \in Tables : g \in Frames
    BY <1>8 DEF TreeShape
  <2> QED BY <1>1, <1>3, <1>6, <1>8, <1>9, <1>12, <2>1, <2>2 DEF Wrote, TypeOK
<1>14. \A m \in Slots : mem'[f][m] = Zero
  BY <1>3, <1>7, <1>8, <1>9, <1>12 DEF TypeOK
<1>15. e = At(f, GetEntryBits(j.level, Target(j), j.req))
  BY DEF e
<1> QED BY <1>1, <1>2, <1>3, <1>4, <1>5, <1>6, <1>7, <1>9, <1>10, <1>11, <1>13, <1>14, <1>15

\* What the walks see of a table that is made.
LEMMA MakeSteady ==
  ASSUME NoThirdBit, TreeInv, TypeInv', NEW t \in Threads, MakeTable(t), NEW j, j = job[t],
         NEW s \in Spaces, NEW v \in Pages
  PROVE  /\ Steady(s, v)
         /\ s # j.req.space => Quiet(s, v)
         /\ \A l \in Levels : l < j.level => EntryAt(l, s, v)' = EntryAt(l, s, v)
         /\ \A l \in Levels : l >= j.level => TableAt(l, s, v)' = TableAt(l, s, v)
<1>1. /\ j # NoJob /\ j.pc \in Walking /\ j.level \in 2..4
      /\ EntryAt(j.level, j.req.space, j.v) = Zero
  BY MakeFacts
<1>2. /\ j.req.space \in Spaces /\ j.v \in Pages
      /\ j.table # NoFrame /\ j.table = TableAt(j.level, j.req.space, j.v)
  BY <1>1, WalkingFacts
<1>3. PICK e \in Entry :
        /\ e.addr \in Frames /\ IsTable(e) /\ Wrote(j.table, Index(j.level, j.v), e)
        /\ \A m \in Slots : mem'[e.addr][m] = Zero
  BY MakeFacts
<1>4. TypeOK /\ TypeOK' /\ TreeShape
  BY DEF TreeInv, TypeInv
<1> DEFINE K == j.level
<1> DEFINE X == j.req.space
<1> DEFINE W == j.v
<1>5. /\ K \in 2..4 /\ X \in Spaces /\ W \in Pages /\ TableAt(K, X, W) # NoFrame
      /\ EntryAt(K, X, W) = Zero /\ Wrote(TableAt(K, X, W), Index(K, W), e)
  BY <1>1, <1>2, <1>3
<1> HIDE DEF K, X, W
<1>6. /\ Steady(s, v)
      /\ s # X => Quiet(s, v)
      /\ \A l \in Levels : l < K => EntryAt(l, s, v)' = EntryAt(l, s, v)
      /\ \A l \in Levels : l >= K => TableAt(l, s, v)' = TableAt(l, s, v)
  BY <1>3, <1>4, <1>5, TableAdded
<1> QED BY <1>6 DEF K, X

\* Making a table has nothing to do with entries that are about to be cleared.
LEMMA MakeWindows ==
  ASSUME TypeOK, NEW t \in Threads, MakeTable(t)
  PROVE  Windows
<1>1. PICK j : j = job[t]
  OBVIOUS
<1>2. j \in Job /\ j.pc = "make" /\ job' = [job EXCEPT ![t] = [j EXCEPT !.pc = "down"]]
  BY <1>1 DEF MakeTable, TypeOK
<1>3. PICK k : k = [j EXCEPT !.pc = "down"]
  OBVIOUS
<1>4. k = JobAt(j, "down", j.level, j.table, j.index)
  BY <1>2, <1>3, PcMove
<1>5. k.pc = "down" /\ t \notin Clearing
  BY <1>1, <1>2, <1>4 DEF JobAt, Clearing
<1>6. job' = [job EXCEPT ![t] = k] /\ (k # NoJob => k.pc # "clear")
  BY <1>2, <1>3, <1>5
<1> QED BY <1>5, <1>6, WindowsStay

LEMMA TreeMake ==
  ASSUME NoThirdBit, TreeInv, TypeInv', NEW t \in Threads, MakeTable(t)
  PROVE  TreeInv'
<1> DEFINE J == job[t]
<1>0. PICK j : j = J
  OBVIOUS
<1> HIDE DEF J
<1>1. /\ j # NoJob /\ j.pc = "make" /\ j.pc \in Walking /\ UNCHANGED <<root, pcid>>
      /\ j.level \in 2..4 /\ Target(j) \in 1..3 /\ Target(j) < j.level
      /\ EntryAt(j.level, j.req.space, j.v) = Zero
      /\ j.index[j.level] = Index(j.level, j.v) /\ Index(j.level, j.v) \in Slots
  BY <1>0, MakeFacts DEF J
<1>2. PICK e \in Entry :
        /\ e.addr \in Frames /\ e.addr \in free /\ free' = free \ {e.addr}
        /\ e = At(e.addr, GetEntryBits(j.level, Target(j), j.req))
        /\ IsTable(e)
        /\ Wrote(j.table, Index(j.level, j.v), e)
        /\ \A m \in Slots : mem'[e.addr][m] = Zero
  BY <1>0, MakeFacts DEF J
<1>3. /\ j \in Job /\ JobInv(j) /\ ProgressOK(j) /\ WalkOK(j)
      /\ j.req.space \in Spaces /\ j.v \in Pages
      /\ j.table # NoFrame /\ j.table = TableAt(j.level, j.req.space, j.v)
      /\ j.table \in TablesAt(j.level)
  BY <1>0, <1>1, WalkingFacts DEF J
<1>4. TypeOK /\ TypeOK' /\ TreeShape /\ NoLeak /\ TypeInv
  BY DEF TreeInv, TypeInv
<1>5. mem[j.table][Index(j.level, j.v)] = Zero /\ ~IsTable(mem[j.table][Index(j.level, j.v)])
  <2>1. mem[j.table][Index(j.level, j.v)] = Zero
    BY <1>1, <1>3, WalkSteps DEF Levels
  <2> QED BY <2>1 DEF IsTable, Zero
<1>20. Windows
  BY <1>4, MakeWindows
<1>6. TreeShape' /\ NoLeak'
  BY <1>1, <1>2, <1>3, <1>4, <1>5, <1>20, TreeGrows DEF Windows
<1>7. e.addr \notin Tables
  BY <1>2, <1>4 DEF TreeShape
<1>8. Tables' = Tables \union {e.addr}
  BY <1>1, <1>2, <1>3, <1>4, <1>5, <1>7, <1>20, TreesGrow DEF Windows
<1>9. EntriesOK'
  <2>1. e.present /\ e.addr \in Nat /\ ~e.ps
    <3>1. e.addr \in Nat
      BY <1>2, PagerAssumption
    <3> QED BY <1>2, <3>1 DEF IsTable
  <2>2. Roots' = Roots /\ Roots \subseteq Tables
    BY <1>1 DEF Roots, Tables
  <2>3. \A g \in Tables, n \in Slots : mem'[g][n] = mem[g][n] \/ mem'[g][n] = e
    BY <1>2 DEF Wrote
  <2>4. \A g \in Tables', n \in Slots :
          mem'[g][n] = Zero \/ (mem'[g][n].present /\ mem'[g][n].addr \in Nat)
    BY <1>2, <1>8, <2>1, <2>3 DEF TreeInv, EntriesOK
  <2>5. \A g \in Roots', n \in Slots : ~mem'[g][n].ps
    BY <2>1, <2>2, <2>3 DEF TreeInv, EntriesOK
  <2>6. \A g \in Tables', n \in Slots : mem'[g][n].ps => mem'[g][n].addr \notin Frames
    BY <1>2, <1>8, <2>1, <2>3 DEF TreeInv, EntriesOK, Zero
  <2> QED BY <2>4, <2>5, <2>6 DEF EntriesOK
<1>10. ASSUME NEW s \in Spaces, NEW v \in Pages
       PROVE  /\ Steady(s, v)
              /\ s # j.req.space => Quiet(s, v)
              /\ \A l \in Levels : l < j.level => EntryAt(l, s, v)' = EntryAt(l, s, v)
              /\ \A l \in Levels : l >= j.level => TableAt(l, s, v)' = TableAt(l, s, v)
  BY <1>0, <1>10, MakeSteady DEF J
<1>11. \A a : NoNewUser(a)
  BY <1>10, <1>20, SteadyFacts, FlyFacts DEF NoNewUser, IsFly, Windows
<1>12. \E k : k = JobAt(j, "down", j.level, j.table, j.index)
  OBVIOUS
<1>13. PICK k : k = JobAt(j, "down", j.level, j.table, j.index)
  BY <1>12
<1>14. /\ k.req = j.req /\ k.v = j.v /\ k.level = j.level /\ k.table = j.table /\ k.left = j.left
       /\ k.index = j.index /\ k.pc = "down" /\ k.phys = j.phys
  BY <1>13 DEF JobAt
<1>15. job'[t] = k /\ \A u \in Threads \ {t} : job'[u] = job[u]
  <2>1. job' = [job EXCEPT ![t] = [j EXCEPT !.pc = "down"]]
    BY <1>0 DEF MakeTable, J
  <2>2. [j EXCEPT !.pc = "down"] = k
    BY <1>3, <1>13, PcMove
  <2> QED BY <1>4, <2>1, <2>2 DEF TypeOK
<1>16. JobInv(k)'
  <2>1. ProgressOK(k)'
    BY <1>3, <1>14 DEF ProgressOK
  <2>2. WalkOK(k)'
    <3>1. k.table = TableAt(k.level, k.req.space, k.v)'
      BY <1>1, <1>3, <1>10, <1>14 DEF Levels
    <3>2. EntryAt(k.level, k.req.space, k.v)' = e
      <4>1. SamePath(j.level, j.v, j.v) /\ j.level \in Levels
        BY <1>1 DEF SamePath, Levels
      <4> DEFINE K == j.level
      <4> DEFINE X == j.req.space
      <4> DEFINE W == j.v
      <4>2. /\ K \in Levels /\ X \in Spaces /\ W \in Pages /\ TableAt(K, X, W) # NoFrame
            /\ Wrote(TableAt(K, X, W), Index(K, W), e) /\ SamePath(K, W, W)
        BY <1>2, <1>3, <4>1
      <4> HIDE DEF K, X, W
      <4>3. EntryAt(K, X, W)' = e
        BY <1>4, <4>2, WriteHere
      <4> QED BY <1>14, <4>3 DEF K, X, W
    <3>3. e.present
      BY <1>2 DEF IsTable
    <3>4. \A l \in Levels : l > k.level \/ l = k.level => k.index[l] = Index(l, k.v)
      BY <1>1, <1>3, <1>14 DEF WalkOK
    <3> QED BY <1>14, <3>1, <3>2, <3>3, <3>4 DEF WalkOK
  <2>3. ASSUME NEW w \in Rest(j) PROVE Promise(j.req, w)'
    <3>1. /\ w \in Pages /\ ReachedAt(j.req, w) \in Levels /\ ReachedAt(j.req, w) < j.level
      BY <1>1, <1>3, RestFacts DEF Levels
    <3>2. j.req.op = "clone" => j.req.src \in Spaces /\ j.req.src # j.req.space
      BY <1>3, JobTypes DEF ProgressOK
    <3>3. Promise(j.req, w)
      BY <1>1, <1>3 DEF JobInv
    <3>4. SameWindow(j.req.space, w)
      BY <1>20 DEF Windows
    <3> QED BY <1>3, <1>10, <1>11, <3>1, <3>2, <3>3, <3>4, PromiseKept
  <2>4. \A w \in Rest(k)' : Promise(k.req, w)'
    <3>1. Rest(k)' = Rest(j)
      BY <1>14 DEF Rest
    <3> QED BY <1>14, <2>3, <3>1
  <2> QED BY <2>1, <2>2, <2>4 DEF JobInv
<1>17. \A u \in Threads \ {t} : job[u] # NoJob =>
         Touched(j.req) \intersect Touched(job[u].req) = {}
  BY <1>0, <1>1 DEF TreeInv, Apart, J
<1>18. Apart'
  BY <1>14, <1>15, <1>17, StillApart DEF TreeInv
<1>19. JobsInv'
  <2>1. ASSUME NEW u \in Threads \ {t}, job[u] # NoJob, NEW s \in Touched(job[u].req),
               NEW v \in Pages
        PROVE  Quiet(s, v)
    <3>1. s \in Spaces
      BY <1>4, <2>1, JobTypes DEF Touched, TypeOK
    <3>2. j.req.space \in Touched(j.req)
      BY DEF Touched
    <3> QED BY <1>10, <1>17, <2>1, <3>1, <3>2
  <2> QED BY <1>4, <1>11, <1>15, <1>16, <1>20, <2>1, OthersKept DEF TreeInv, Windows
<1> QED BY <1>6, <1>9, <1>18, <1>19 DEF TreeInv

-----------------------------------------------------------------------------
(* Callbacks *)

Done(j) == j.v .. j.v + Span[Target(j)] - 1

\* Where a callback is: at the entry the processor would use for its pages.
LEMMA CallbackPlace ==
  ASSUME TreeInv, NEW t \in Threads, job[t] # NoJob, job[t].pc \in Calling,
         NEW j, j = job[t]
  PROVE  /\ j.pc \in Walking /\ j.level = Target(j) /\ j.level \in 1..3
         /\ j.index[j.level] = Index(j.level, j.v) /\ Index(j.level, j.v) \in Slots
         /\ Current(j) = EntryAt(j.level, j.req.space, j.v)
         /\ Current(j) = mem[j.table][Index(j.level, j.v)]
         /\ Current(j) = Zero \/ (Current(j).present /\ Current(j).addr \in Nat)
         /\ j.level > 1 => ~IsTable(Current(j))
         /\ TableAt(j.level, j.req.space, j.v) = j.table
         /\ j.table # NoFrame /\ j.table \in TablesAt(j.level) /\ j.table \in Tables
         /\ (j.v % Span[j.level]) = 0
         /\ \A l \in Levels : l >= j.level => j.index[l] = Index(l, j.v)
<1>1. j.pc \in Calling /\ j.pc \in Walking /\ j.pc # "look"
  BY DEF Walking, Calling
<1>2. /\ j \in Job /\ JobOK(j) /\ WalkOK(j) /\ j.v \in Pages /\ j.req.space \in Spaces
      /\ j.level \in Levels /\ Promise(j.req, j.v) /\ Target(j) \in 1..3
      /\ ReachedAt(j.req, j.v) = Target(j)
      /\ j.table = TableAt(j.level, j.req.space, j.v) /\ j.table # NoFrame
      /\ j.table \in TablesAt(j.level) /\ (j.v % Span[Target(j)]) = 0
  BY <1>1, WalkingFacts
<1>3. j.level = Target(j) /\ j.level \in 1..3
  BY <1>1, <1>2 DEF JobOK
<1>4. \A l \in Levels : l > j.level \/ l = j.level => j.index[l] = Index(l, j.v)
  BY <1>1, <1>2 DEF WalkOK
<1>5. j.index[j.level] = Index(j.level, j.v) /\ Index(j.level, j.v) \in Slots
  BY <1>2, <1>4, IndexFacts, PageFacts
<1>6. /\ Current(j) = mem[j.table][Index(j.level, j.v)]
      /\ Current(j) = EntryAt(j.level, j.req.space, j.v)
  BY <1>2, <1>5, WalkSteps DEF Current
<1>7. j.table \in Tables
  BY <1>2, TreeSlotsNow DEF TreeSlots
<1>8. Current(j) = Zero \/ (Current(j).present /\ Current(j).addr \in Nat)
  BY <1>5, <1>6, <1>7 DEF TreeInv, EntriesOK
<1>9. j.level > 1 => ~IsTable(Current(j))
  BY <1>2, <1>3, <1>6 DEF Promise, Fits
<1>10. \A l \in Levels : l >= j.level => j.index[l] = Index(l, j.v)
  BY <1>2, <1>4 DEF Levels
<1> QED BY <1>1, <1>2, <1>3, <1>5, <1>6, <1>7, <1>8, <1>9, <1>10

\* What it finds there is what its pages are mapped by.
LEMMA CallbackPages ==
  ASSUME TreeInv, NEW t \in Threads, job[t] # NoJob, job[t].pc \in Calling,
         NEW j, j = job[t], NEW w \in Done(j)
  PROVE  /\ w \in Rest(j) /\ w \in Pages /\ Promise(j.req, w) /\ ReachedAt(j.req, w) = j.level
         /\ LeafLevel(j.req.space, w) = IF Current(j).present THEN j.level ELSE 0
         /\ EntryAt(j.level, j.req.space, w) = Current(j)
         /\ Mapped(j.req.space, w) <=> Current(j).present
         /\ Current(j).present => Leaf(j.req.space, w) = Current(j)
         /\ j.pc = "callback" => ~Dropped(j.req.space, w)
         /\ j.pc = "callback" =>
              (IsFly(j.req.space, w) <=> Current(j).present /\ Current(j).addr \in Frames)
         /\ SamePath(j.level, j.v, w) /\ (w % Span[j.level]) = w - j.v
<1>1. /\ j.pc \in Walking /\ j.level = Target(j) /\ j.level \in 1..3
      /\ Current(j) = EntryAt(j.level, j.req.space, j.v)
      /\ j.level > 1 => ~IsTable(Current(j))
      /\ TableAt(j.level, j.req.space, j.v) # NoFrame
      /\ (j.v % Span[j.level]) = 0
  BY CallbackPlace
<1>2. /\ j \in Job /\ JobInv(j) /\ ProgressOK(j) /\ j.v \in Pages /\ j.req.space \in Spaces
      /\ j.req \in Requests /\ Aligned(j.req) /\ Iteration(j.req, j.v, j.left) /\ j.left \in Nat
  BY <1>1, WalkingFacts
<1>3. /\ Span[Target(j)] \in Nat /\ Span[Target(j)] <= j.left
      /\ \A x \in Done(j) : ReachedAt(j.req, x) = Target(j)
  BY <1>2, Iterations DEF Done, Target
<1>4. j.v \in Nat
  BY <1>2, PageFacts
<1>5. w \in Rest(j)
  BY <1>2, <1>3, <1>4 DEF Done, Rest
<1>6. w \in Pages /\ Promise(j.req, w)
  BY <1>1, <1>2, <1>5, RestFacts DEF JobInv
<1>7. SamePath(j.level, j.v, w) /\ (w % Span[j.level]) = w - j.v
  <2>1. j.level \in Levels /\ w \in j.v .. j.v + Span[j.level] - 1
    BY <1>1 DEF Levels, Done
  <2> DEFINE K == j.level
  <2> DEFINE V == j.v
  <2>2. K \in Levels /\ V \in Pages /\ (V % Span[K]) = 0 /\ w \in V .. V + Span[K] - 1
    BY <1>1, <1>2, <2>1
  <2> HIDE DEF K, V
  <2>3. SamePath(K, V, w) /\ (w % Span[K]) = w - V
    BY <1>6, <2>2, Block
  <2> QED BY <2>3 DEF K, V
<1>8. /\ TableAt(j.level, j.req.space, w) # NoFrame
      /\ EntryAt(j.level, j.req.space, w) = Current(j)
  BY <1>1, <1>2, <1>6, <1>7, SameFrom DEF Levels
<1>9. LeafLevel(j.req.space, w) = IF Current(j).present THEN j.level ELSE 0
  BY <1>1, <1>2, <1>6, <1>8, LeafHereNow DEF LeafHere, TreeInv, TypeInv
<1>10. Mapped(j.req.space, w) <=> Current(j).present
  BY <1>1, <1>9 DEF Mapped
<1>11. Current(j).present => Leaf(j.req.space, w) = Current(j)
  BY <1>8, <1>9 DEF Leaf
<1>12. ReachedAt(j.req, w) = j.level
  BY <1>1, <1>3
<1>13. ASSUME j.pc = "callback" PROVE ~Dropped(j.req.space, w)
  <2> SUFFICES ASSUME NEW u \in Clearing, job[u].req.space = j.req.space PROVE FALSE
    BY DEF Dropped
  <2>1. u \in Threads /\ u # t /\ job[u] # NoJob
    BY <1>13 DEF Clearing
  <2>2. Touched(j.req) \intersect Touched(job[u].req) = {}
    BY <2>1 DEF TreeInv, Apart
  <2> QED BY <2>2 DEF Touched
<1>14. j.pc = "callback" =>
         (IsFly(j.req.space, w) <=> Current(j).present /\ Current(j).addr \in Frames)
  BY <1>10, <1>11, <1>13 DEF IsFly
<1> QED BY <1>5, <1>6, <1>7, <1>8, <1>9, <1>10, <1>11, <1>12, <1>13, <1>14

\* The first page of a callback is one of its pages.
LEMMA FirstPage ==
  ASSUME TreeInv, NEW t \in Threads, job[t] # NoJob, job[t].pc \in Calling, NEW j, j = job[t]
  PROVE  j.v \in Done(j) /\ j.v \in Rest(j) /\ Promise(j.req, j.v)
<1>1. j.pc \in Walking
  BY CallbackPlace
<1>2. /\ j.v \in Pages /\ j.v \in Rest(j) /\ Promise(j.req, j.v) /\ Target(j) \in 1..3
  BY <1>1, WalkingFacts
<1>3. j.v \in Nat /\ Span[Target(j)] \in Nat /\ Span[Target(j)] > 0
  BY <1>2, PageFacts, SpanFacts DEF Levels
<1> DEFINE n == Span[Target(j)]
<1> DEFINE v == j.v
<1>4. v \in Nat /\ n \in Nat /\ n > 0
  BY <1>3
<1> HIDE DEF n, v
<1>5. v \in v .. v + n - 1
  BY ONLY <1>4
<1> QED BY <1>2, <1>5 DEF Done, n, v

\* What its write does to the walks.
LEMMA CallbackWrites ==
  ASSUME TreeInv, TypeOK', NEW t \in Threads, job[t] # NoJob, job[t].pc \in Calling,
         NEW j, j = job[t], NEW e, SetEntry(j, e), UNCHANGED root, j.level > 1 => ~IsTable(e)
  PROVE  /\ Wrote(j.table, Index(j.level, j.v), e)
         /\ \A s \in Spaces, v \in Pages : s # j.req.space \/ v \notin Done(j) => Quiet(s, v)
         /\ \A v \in Done(j) :
              /\ LeafLevel(j.req.space, v)' = IF e.present THEN j.level ELSE 0
              /\ EntryAt(j.level, j.req.space, v)' = e
              /\ \A l \in Levels : l > j.level =>
                   EntryAt(l, j.req.space, v)' = EntryAt(l, j.req.space, v)
              /\ \A l \in Levels : l >= j.level =>
                   TableAt(l, j.req.space, v)' = TableAt(l, j.req.space, v)
<1>1. /\ j.pc \in Walking /\ j.level = Target(j) /\ j.level \in 1..3
      /\ j.index[j.level] = Index(j.level, j.v) /\ Index(j.level, j.v) \in Slots
      /\ TableAt(j.level, j.req.space, j.v) = j.table /\ j.table # NoFrame
      /\ (j.v % Span[j.level]) = 0 /\ j.table \in Tables
  BY CallbackPlace
<1>2. /\ j.v \in Pages /\ j.req.space \in Spaces /\ j.table \in Frames
  BY <1>1, WalkingFacts
<1>3. TypeOK /\ TreeShape
  BY DEF TreeInv, TypeInv
<1>4. Wrote(j.table, Index(j.level, j.v), e)
  <2>1. mem' = [mem EXCEPT ![j.table][Index(j.level, j.v)] = e]
    BY <1>1 DEF SetEntry
  <2>2. \A g \in Tables : g \in Frames
    BY <1>3 DEF TreeShape
  <2> QED BY <1>1, <1>2, <1>3, <2>1, <2>2 DEF Wrote, TypeOK
<1> DEFINE K == j.level
<1> DEFINE X == j.req.space
<1> DEFINE W == j.v
<1>5. /\ K \in 1..3 /\ X \in Spaces /\ W \in Pages /\ TableAt(K, X, W) # NoFrame
      /\ Wrote(TableAt(K, X, W), Index(K, W), e) /\ (W % Span[K]) = 0 /\ (K > 1 => ~IsTable(e))
  BY <1>1, <1>2, <1>4
<1>6. Done(j) = W .. W + Span[K] - 1
  BY <1>1 DEF Done
<1> HIDE DEF K, X, W
<1>7. ASSUME NEW s \in Spaces, NEW v \in Pages
      PROVE  /\ s # X \/ v \notin Done(j) => Quiet(s, v)
             /\ s = X /\ v \in Done(j) =>
                  /\ \A l \in Levels : l > K => EntryAt(l, s, v)' = EntryAt(l, s, v)
                  /\ \A l \in Levels : l >= K => TableAt(l, s, v)' = TableAt(l, s, v)
                  /\ EntryAt(K, s, v)' = e
                  /\ LeafLevel(s, v)' = IF e.present THEN K ELSE 0
  BY <1>3, <1>5, <1>6, <1>7, LeafWritten
<1>8. \A v \in Done(j) : v \in Pages
  BY CallbackPages
<1> QED BY <1>4, <1>5, <1>7, <1>8 DEF K, X

\* The job that goes on.
LEMMA AdvanceFacts ==
  ASSUME TreeInv, NEW t \in Threads, job[t] # NoJob, job[t].pc \in Calling,
         NEW j, j = job[t], NEW phys, Advance(t, phys)
  PROVE  \E k : /\ job' = [job EXCEPT ![t] = k]
                /\ job'[t] = k /\ \A u \in Threads \ {t} : job'[u] = job[u]
                /\ k.req = j.req /\ k.v = j.v + Span[Target(j)]
                /\ k.phys = phys + Span[Target(j)] /\ k.left = j.left - Span[Target(j)]
                /\ k.pc = IF j.left = Span[Target(j)] THEN "done" ELSE "look"
                /\ k.level = 4 /\ k.table = root[j.req.space]
                /\ phys \in Int => k \in Job
<1>1. j \in Job
  BY DEF TreeInv, TypeInv, TypeOK
<1> DEFINE n == Span[Target(j)]
<1> DEFINE pc == IF j.left = n THEN "done" ELSE "look"
<1> DEFINE v == j.v + n
<1> DEFINE base == phys + n
<1> DEFINE left == j.left - n
<1> DEFINE table == root[j.req.space]
<1>2. PICK k : k = [j EXCEPT !.v = v, !.phys = base, !.left = left,
                              !.level = 4, !.table = table, !.pc = pc]
  OBVIOUS
<1>3. job' = [job EXCEPT ![t] = k]
  BY <1>2 DEF Advance
<1>6. /\ v \in Nat /\ left \in Nat /\ table \in Frames /\ (phys \in Int => base \in Int)
      /\ pc \in {"look", "done"} /\ n \in Nat
  <2>1. n \in Nat /\ n <= j.left /\ root[j.req.space] \in Frames
    BY InCallbackFacts DEF TreeInv
  <2>2. j.v \in Nat /\ j.left \in Nat
    BY <1>1, JobTypes
  <2>3. \A a, b \in Nat : b <= a => a - b \in Nat
    OBVIOUS
  <2>4. v \in Nat /\ (phys \in Int => base \in Int)
    BY <2>1, <2>2
  <2> HIDE DEF n
  <2> QED BY <2>1, <2>2, <2>3, <2>4
<1> HIDE DEF v, base, left, table, pc, n
<1>7. phys \in Int => k \in Job
  <2>1. k = [req |-> j.req, v |-> v, phys |-> base, left |-> left, pc |-> pc,
             level |-> 4, table |-> table, index |-> j.index]
    BY <1>1, <1>2 DEF Job
  <2>2. j.req \in Requests /\ j.index \in [Levels -> Slots]
    BY <1>1, JobTypes
  <2>3. 4 \in Levels
    BY DEF Levels
  <2> QED BY <1>6, <2>1, <2>2, <2>3 DEF Job
<1>4. /\ k.req = j.req /\ k.v = v /\ k.phys = base /\ k.left = left /\ k.pc = pc
      /\ k.level = 4 /\ k.table = table
  BY <1>1, <1>2 DEF Job
<1>5. job'[t] = k /\ \A u \in Threads \ {t} : job'[u] = job[u]
  BY <1>3 DEF TreeInv, TypeInv, TypeOK
<1> QED BY <1>3, <1>4, <1>5, <1>7 DEF v, base, left, table, pc, n

\* The callback that clears its entry ends the window of its own page only.
LEMMA WindowsOutside ==
  ASSUME TreeInv, NEW t \in Threads, job[t] # NoJob, job[t].pc \in Calling,
         NEW j, j = job[t], NEW phys, Advance(t, phys)
  PROVE  /\ \A s, v : s # j.req.space \/ v \notin Done(j) => SameWindow(s, v)
         /\ j.pc = "callback" => Windows
<1>1. PICK k : /\ job' = [job EXCEPT ![t] = k]
               /\ job'[t] = k /\ \A u \in Threads \ {t} : job'[u] = job[u]
               /\ k.pc = IF j.left = Span[Target(j)] THEN "done" ELSE "look"
  BY AdvanceFacts
<1>2. Clearing' = Clearing \ {t}
  BY <1>1 DEF Clearing
<1>3. \A u \in Clearing \ {t} : job'[u] = job[u]
  BY <1>1 DEF Clearing
<1>4. ASSUME NEW s, NEW v, s # j.req.space \/ v \notin Done(j) PROVE SameWindow(s, v)
  <2>1. ~(job[t].req.space = s /\ job[t].v = v)
    BY <1>4, FirstPage
  <2> QED BY <1>2, <1>3, <2>1 DEF SameWindow, Dropped
<1>5. ASSUME j.pc = "callback" PROVE Windows
  <2>1. t \notin Clearing /\ k.pc # "clear"
    BY <1>1, <1>5 DEF Clearing
  <2> QED BY <1>1, <2>1, WindowsStay DEF TreeInv, TypeInv
<1> QED BY <1>4, <1>5

-----------------------------------------------------------------------------
(* The jobs after a callback *)

\* No frame gets a new user from which a request is still to unmap it.
NoneInTheWay ==
  \A u \in Threads :
    job[u] # NoJob /\ job[u].req.op = "flyUnmap" /\ job[u].pc \in Walking =>
      \A w \in Rest(job[u]) :
        Dropped(job[u].req.space, w) \/ NoNewUser(Leaf(job[u].req.space, w).addr)

\* The pages that are left.
LEMMA RestAfter ==
  ASSUME TreeInv, NEW t \in Threads, job[t] # NoJob, job[t].pc \in Calling,
         NEW j, j = job[t]
  PROVE  /\ j.left # Span[Target(j)] =>
              Iteration(j.req, j.v + Span[Target(j)], j.left - Span[Target(j)])
         /\ \A w \in (j.v + Span[Target(j)]) .. (j.v + Span[Target(j)]) + (j.left - Span[Target(j)]) - 1 :
              w \in Rest(j) /\ w \notin Done(j)
         /\ j.v + Span[Target(j)] >= j.req.v
         /\ (j.v + Span[Target(j)]) + (j.left - Span[Target(j)]) = j.req.v + j.req.size
         /\ (j.v + Span[Target(j)]) - j.req.v = (j.v - j.req.v) + Span[Target(j)]
         /\ j.left - Span[Target(j)] \in Nat
         /\ j.left = Span[Target(j)] <=> j.left - Span[Target(j)] = 0
<1>1. j.pc \in Walking
  BY CallbackPlace
<1>2. /\ j \in Job /\ ProgressOK(j) /\ j.v \in Pages /\ j.left \in Nat
      /\ j.req \in Requests /\ Aligned(j.req) /\ Iteration(j.req, j.v, j.left)
  BY <1>1, WalkingFacts
<1>3. /\ Span[Target(j)] \in Nat /\ Span[Target(j)] > 0 /\ Span[Target(j)] <= j.left
      /\ j.left # Span[Target(j)] =>
           Iteration(j.req, j.v + Span[Target(j)], j.left - Span[Target(j)])
  BY <1>2, Iterations DEF Target
<1>4. j.v \in Nat /\ j.req.v \in Nat /\ j.req.size \in Nat
  BY <1>2, PageFacts, RequestFacts
<1>5. j.v >= j.req.v /\ j.v + j.left = j.req.v + j.req.size
  BY <1>2 DEF ProgressOK
<1> DEFINE n == Span[Target(j)]
<1> DEFINE v == j.v
<1> DEFINE left == j.left
<1> DEFINE v0 == j.req.v
<1> DEFINE size == j.req.size
<1>6. n \in Nat /\ v \in Nat /\ left \in Nat /\ v0 \in Nat /\ size \in Nat /\ n > 0 /\ n <= left
      /\ v >= v0 /\ v + left = v0 + size
  BY <1>2, <1>3, <1>4, <1>5
<1>7. /\ Rest(j) = v .. v + left - 1
      /\ Done(j) = v .. v + n - 1
  BY DEF Rest, Done
<1> HIDE DEF n, v, left, v0, size
<1>8. /\ \A w \in (v + n) .. (v + n) + (left - n) - 1 : w \in v .. v + left - 1 /\ w \notin v .. v + n - 1
      /\ v + n >= v0 /\ (v + n) + (left - n) = v0 + size
      /\ (v + n) - v0 = (v - v0) + n
      /\ left - n \in Nat /\ (left = n <=> left - n = 0)
  BY ONLY <1>6
<1> QED BY <1>3, <1>7, <1>8 DEF n, v, left, v0, size

LEMMA CallbackJobs ==
  ASSUME TreeInv, TypeInv', NEW t \in Threads, job[t] # NoJob, job[t].pc \in Calling,
         NEW j, j = job[t], NEW phys, Advance(t, phys), j.req.op = "map" => phys = j.phys,
         UNCHANGED root,
         \A s \in Spaces, v \in Pages : s # j.req.space \/ v \notin Done(j) => Quiet(s, v),
         NoneInTheWay
  PROVE  Apart' /\ JobsInv'
<1>1. j.pc \in Walking
  BY CallbackPlace
<1>2. /\ j \in Job /\ JobInv(j) /\ ProgressOK(j) /\ j.v \in Pages /\ j.req.space \in Spaces
      /\ j.req \in Request /\ j.req \in Requests
  BY <1>1, WalkingFacts
<1>3. PICK k : /\ job'[t] = k /\ \A u \in Threads \ {t} : job'[u] = job[u]
               /\ k.req = j.req /\ k.v = j.v + Span[Target(j)]
               /\ k.phys = phys + Span[Target(j)] /\ k.left = j.left - Span[Target(j)]
               /\ k.pc = IF j.left = Span[Target(j)] THEN "done" ELSE "look"
               /\ k.level = 4 /\ k.table = root[j.req.space]
  BY AdvanceFacts
<1>4. \A u \in Threads \ {t} : job[u] # NoJob =>
        Touched(j.req) \intersect Touched(job[u].req) = {}
  BY DEF TreeInv, Apart
<1>5. Apart'
  BY <1>3, <1>4, StillApart DEF TreeInv
<1>6. TypeOK /\ TypeOK' /\ TypeInv
  BY DEF TreeInv, TypeInv
<1>7. /\ \A w \in Rest(k) : w \in Rest(j) /\ w \notin Done(j)
      /\ k.left \in Nat /\ (k.left = 0 <=> j.left = Span[Target(j)])
  BY <1>3, RestAfter DEF Rest
<1>8. ProgressOK(k)
  <2>1. k.v >= k.req.v /\ k.v + k.left = k.req.v + k.req.size
    BY <1>3, RestAfter
  <2>2. k.left > 0 => Iteration(k.req, k.v, k.left)
    <3>1. k.left > 0 => j.left # Span[Target(j)]
      BY <1>7
    <3> QED BY <1>3, <3>1, RestAfter
  <2>3. k.req.op = "map" => k.phys = k.req.phys + (k.v - k.req.v)
    <3> SUFFICES ASSUME k.req.op = "map" PROVE k.phys = k.req.phys + (k.v - k.req.v)
      OBVIOUS
    <3>1. j.phys = j.req.phys + (j.v - j.req.v) /\ phys = j.phys
      BY <1>2, <1>3 DEF ProgressOK
    <3>2. (j.v + Span[Target(j)]) - j.req.v = (j.v - j.req.v) + Span[Target(j)]
      BY RestAfter
    <3>3. j.req.phys \in Int /\ j.v \in Int /\ j.req.v \in Int /\ Span[Target(j)] \in Int
      <4>1. TypeInv /\ j \in Job
        BY <1>2 DEF TreeInv
      <4>2. Span[Target(j)] \in Nat
        BY <4>1, InCallbackFacts
      <4> QED BY <1>2, <4>2, PageFacts, RequestFacts
    <3> DEFINE a == j.req.phys
    <3> DEFINE b == j.v - j.req.v
    <3> DEFINE n == Span[Target(j)]
    <3>4. a \in Int /\ b \in Int /\ n \in Int
      BY <3>3
    <3>5. j.phys = a + b /\ k.phys = phys + n /\ k.v - k.req.v = b + n
      BY <1>3, <3>1, <3>2
    <3>6. (a + b) + n = a + (b + n)
      <4> HIDE DEF a, b, n
      <4> QED BY ONLY <3>4
    <3> QED BY <1>3, <3>1, <3>5, <3>6
  <2> QED BY <1>2, <1>3, <2>1, <2>2, <2>3 DEF ProgressOK
<1>9. JobInv(k)'
  <2>1. ProgressOK(k)'
    BY <1>8 DEF ProgressOK
  <2>2. k.pc \in Walking => WalkOK(k)'
    <3> SUFFICES ASSUME k.pc \in Walking PROVE WalkOK(k)'
      OBVIOUS
    <3>1. k.pc = "look"
      BY <1>3 DEF Walking, Calling
    <3>2. k.table = TableAt(k.level, k.req.space, k.v)'
      BY <1>3 DEF TableAt
    <3>3. \A l \in Levels : ~(l > k.level)
      BY <1>3 DEF Levels
    <3> QED BY <3>1, <3>2, <3>3 DEF WalkOK
  <2>3. ASSUME NEW w \in Rest(k) PROVE Promise(j.req, w)'
    <3>0. w \in Rest(j) /\ w \notin Done(j)
      BY <1>7, <2>3
    <3>1. /\ w \in Pages /\ ReachedAt(j.req, w) \in Levels
      BY <1>2, <3>0, RestFacts DEF Levels
    <3>2. j.req.op = "clone" => j.req.src \in Spaces /\ j.req.src # j.req.space
      BY <1>2, JobTypes DEF ProgressOK
    <3>3. Promise(j.req, w)
      BY <1>1, <1>2, <3>0 DEF JobInv
    <3>4. Quiet(j.req.space, w) /\ (j.req.op = "clone" => Quiet(j.req.src, w))
      BY <1>2, <3>0, <3>1, <3>2
    <3>5. /\ Steady(j.req.space, w)
          /\ EntryAt(ReachedAt(j.req, w), j.req.space, w)' = EntryAt(ReachedAt(j.req, w), j.req.space, w)
          /\ j.req.op = "clone" =>
               /\ Steady(j.req.src, w)
               /\ EntryAt(ReachedAt(j.req, w), j.req.src, w)' = EntryAt(ReachedAt(j.req, w), j.req.src, w)
      BY <1>2, <1>6, <3>1, <3>2, <3>4, QuietIsSteady DEF Quiet
    <3>6. j.req.op = "flyUnmap" =>
            Dropped(j.req.space, w) \/ NoNewUser(Leaf(j.req.space, w).addr)
      BY <1>1, <3>0 DEF NoneInTheWay
    <3>7. SameWindow(j.req.space, w)
      BY <3>0, WindowsOutside
    <3> QED BY <3>3, <3>5, <3>6, <3>7, PromiseKept
  <2>4. \A w \in Rest(k)' : Promise(k.req, w)'
    <3>1. Rest(k)' = Rest(k)
      BY DEF Rest
    <3> QED BY <1>3, <2>3, <3>1
  <2> QED BY <2>1, <2>2, <2>4 DEF JobInv
<1>10. ASSUME NEW u \in Threads \ {t}, job[u] # NoJob, NEW s \in Touched(job[u].req),
              NEW v \in Pages
       PROVE  Quiet(s, v) /\ SameWindow(s, v)
  <2>1. s \in Spaces
    BY <1>6, <1>10, JobTypes DEF Touched, TypeOK
  <2>2. j.req.space \in Touched(j.req)
    BY DEF Touched
  <2>3. s # j.req.space
    BY <1>4, <1>10, <2>2
  <2> QED BY <2>1, <2>3, WindowsOutside
<1>11. JobsInv'
  BY <1>3, <1>6, <1>9, <1>10, OthersKept DEF TreeInv, NoneInTheWay
<1> QED BY <1>5, <1>11

\* The frame of a page from pager_fly_map that is mapped at level 1.
LEMMA FlyInPages ==
  ASSUME TreeInv, NEW s \in Spaces, NEW v \in Pages, IsFly(s, v), LeafLevel(s, v) = 1
  PROVE  Leaf(s, v).addr \in FlyPages
<1>0. TypeOK
  BY DEF TreeInv, TypeInv
<1>1. EntryAt(1, s, v) = Leaf(s, v) /\ EntryAt(1, s, v).present /\ Leaf(s, v).addr \in Frames
  BY <1>0, LeafLevels DEF Leaf, IsFly
<1>2. TableAt(1, s, v) # NoFrame /\ EntryAt(1, s, v) = mem[TableAt(1, s, v)][Index(1, v)]
  BY <1>1, WalkSteps DEF Levels, Zero
<1>3. TableAt(1, s, v) \in TablesAt(1) /\ Index(1, v) \in Slots
  BY <1>0, <1>2, OnTheWay, IndexFacts, PageFacts DEF Levels
<1>4. Held(TableAt(1, s, v), Index(1, v))
  BY <1>1, <1>2, ReleasedIsDropped DEF Held, IsFly
<1> QED BY <1>1, <1>2, <1>3, <1>4, TreeSlotsNow DEF TreeSlots

\* The frame a callback enters is a fresh one, or one that a space of its own
\* request uses already.
FromItsOwn(j, e) ==
  e.present /\ e.addr \in Frames =>
    \/ e.addr \in free
    \/ \E s \in Touched(j.req), v \in Pages : s \in Spaces /\ IsFly(s, v) /\ Leaf(s, v).addr = e.addr

LEMMA NobodyInTheWay ==
  ASSUME TreeInv, TypeOK', NEW t \in Threads, job[t] # NoJob, job[t].pc \in Calling,
         NEW j, j = job[t], NEW e, SetEntry(j, e), UNCHANGED root, j.level > 1 => ~IsTable(e),
         FromItsOwn(j, e), j.req.op = "flyUnmap" => e = Zero, NEW phys, Advance(t, phys)
  PROVE  NoneInTheWay
<1>1. /\ \A s \in Spaces, v \in Pages : s # j.req.space \/ v \notin Done(j) => Quiet(s, v)
      /\ \A v \in Done(j) :
              /\ LeafLevel(j.req.space, v)' = IF e.present THEN j.level ELSE 0
              /\ EntryAt(j.level, j.req.space, v)' = e
  BY CallbackWrites
<1>2. TypeOK /\ TypeOK' /\ TreeShape
  BY DEF TreeInv, TypeInv
<1> SUFFICES ASSUME NEW u \in Threads, job[u] # NoJob, job[u].req.op = "flyUnmap",
                    job[u].pc \in Walking, NEW w \in Rest(job[u]), ~Dropped(job[u].req.space, w),
                    NEW s \in Spaces, NEW q \in Pages, IsFly(s, q)',
                    Leaf(s, q)'.addr = Leaf(job[u].req.space, w).addr
             PROVE  IsFly(s, q) /\ Leaf(s, q).addr = Leaf(job[u].req.space, w).addr
  BY DEF NoneInTheWay, NoNewUser
<1> DEFINE i == job[u]
<1> DEFINE x == i.req.space
<1> DEFINE a == Leaf(x, w).addr
<1>3. /\ i \in Job /\ JobInv(i) /\ ProgressOK(i) /\ x \in Spaces /\ w \in Pages /\ Promise(i.req, w)
  <2>1. i \in Job /\ JobInv(i) /\ ProgressOK(i) /\ x \in Spaces
    BY WalkingFacts
  <2> QED BY <2>1, RestFacts DEF JobInv
<1>4. IsFly(x, w) /\ Sole(x, w) /\ LeafLevel(x, w) = 1
  BY <1>3 DEF Promise, Fits, IsFly, Mapped
<1>5. a \in FlyPages /\ a \in Frames
  BY <1>3, <1>4, FlyInPages DEF IsFly
<1>6. CASE s # j.req.space \/ q \notin Done(j)
  <2>1. Steady(s, q) /\ SameWindow(s, q)
    BY <1>1, <1>2, <1>6, QuietIsSteady, WindowsOutside
  <2> QED BY <2>1, SteadyFacts, FlyFacts DEF IsFly
<1>7. CASE s = j.req.space /\ q \in Done(j)
  <2>1. LeafLevel(s, q)' # 0
    BY DEF IsFly, Mapped
  <2>2. e.present /\ LeafLevel(s, q)' = j.level
    BY <1>1, <1>7, <2>1
  <2>3. Leaf(s, q)' = e
    BY <1>1, <1>7, <2>2 DEF Leaf
  <2>4. e.addr = a
    BY <2>3
  <2>5. e.addr \notin free
    BY <1>2, <1>5, <2>4 DEF TreeShape
  <2>6. PICK y \in Touched(j.req), v \in Pages : y \in Spaces /\ IsFly(y, v) /\ Leaf(y, v).addr = e.addr
    BY <1>5, <2>2, <2>4, <2>5 DEF FromItsOwn
  <2>7. u # t
    BY <2>2 DEF Zero
  <2>8. y # x
    BY <2>6, <2>7 DEF TreeInv, Apart, Touched
  <2>9. FALSE
    BY <1>4, <2>4, <2>6, <2>8 DEF Sole
  <2> QED BY <2>9
<1> QED BY <1>6, <1>7

-----------------------------------------------------------------------------
(* The trees after a callback *)

LEMMA CallbackTrees ==
  ASSUME TreeInv, TypeOK', NEW t \in Threads, job[t] # NoJob, job[t].pc \in Calling,
         NEW j, j = job[t], NEW e, SetEntry(j, e), UNCHANGED root, j.level > 1 => ~IsTable(e),
         e = Zero \/ (e.present /\ e.addr \in Nat), e.ps => e.addr \notin Frames
  PROVE  /\ EntriesOK' /\ Tables' = Tables /\ Directories' = Directories
         /\ \A x \in Directories : mem'[x[1]][x[2]] = mem[x[1]][x[2]]
         /\ Tables \intersect free' = {} /\ FlyPages' \intersect (Tables \union free') = {}
              => TreeShape'
         /\ Released' = Released /\ j.level > 1 => FlyPages' = FlyPages
         /\ Released' = Released /\ j.pc = "callback" /\ j.level = 1 => \A g : g \in FlyPages' <=>
              g \in Frames /\ (\/ e.present /\ e.addr = g
                              \/ \E h \in TablesAt(1), m \in Slots :
                                   /\ h # j.table \/ m # Index(1, j.v)
                                   /\ Held(h, m) /\ mem[h][m].addr = g)
<1>1. /\ j.level \in 1..3 /\ Index(j.level, j.v) \in Slots
      /\ Current(j) = mem[j.table][Index(j.level, j.v)]
      /\ j.level > 1 => ~IsTable(Current(j))
      /\ j.table \in TablesAt(j.level)
  BY CallbackPlace
<1>2. Wrote(j.table, Index(j.level, j.v), e)
  BY CallbackWrites
<1>3. TreeShape /\ EntriesOK
  BY DEF TreeInv
<1> DEFINE K == j.level
<1> DEFINE F == j.table
<1> DEFINE N == Index(j.level, j.v)
<1>4. /\ K \in 1..3 /\ F \in TablesAt(K) /\ N \in Slots /\ Wrote(F, N, e)
      /\ K > 1 => ~IsTable(mem[F][N]) /\ ~IsTable(e)
  BY <1>1, <1>2
<1>5. K = 1 => N = Index(1, j.v)
  OBVIOUS
<1> HIDE DEF K, F, N
<1>6. /\ Tables' = Tables /\ Directories' = Directories
      /\ \A l \in 2..4 : \A g \in TablesAt(l), m \in Slots :
           IsTable(mem'[g][m]) \/ IsTable(mem[g][m]) => mem'[g][m] = mem[g][m]
  BY <1>3, <1>4, TreesStay
<1>7. \A x \in Directories : mem'[x[1]][x[2]] = mem[x[1]][x[2]]
  <2>1. ASSUME NEW x \in Directories PROVE mem'[x[1]][x[2]] = mem[x[1]][x[2]]
    <3>1. PICK g, n : x = <<g, n>>
      BY TreeSlotsNow DEF TreeSlots
    <3>2. n \in Slots /\ IsTable(mem[g][n]) /\ \E l \in 2..4 : g \in TablesAt(l)
      BY <2>1, <3>1, TreeSlotsNow DEF TreeSlots
    <3> QED BY <1>6, <3>1, <3>2
  <2> QED BY <2>1
<1>8. Tables \intersect free' = {} /\ FlyPages' \intersect (Tables \union free') = {} => TreeShape'
  BY <1>3, <1>4, TreeStays
<1>9. EntriesOK'
  <2>1. \A g \in Tables', n \in Slots :
          mem'[g][n] = Zero \/ (mem'[g][n].present /\ mem'[g][n].addr \in Nat)
    BY <1>2, <1>3, <1>6 DEF Wrote, EntriesOK
  <2>2. Roots' = Roots
    BY DEF Roots
  <2>3. ASSUME NEW g \in Roots, NEW n \in Slots PROVE ~mem'[g][n].ps
    <3>1. g \in TablesAt(4) /\ g \in Tables
      BY TreeSlotsNow DEF TreeSlots, Levels
    <3>2. K # 4 /\ K \in Levels /\ 4 \in Levels
      BY <1>4 DEF Levels
    <3>3. g # F
      BY <1>3, <1>4, <3>1, <3>2, LevelsApart
    <3> QED BY <1>3, <1>4, <3>1, <3>3 DEF Wrote, EntriesOK
  <2>4. \A g \in Tables', n \in Slots : mem'[g][n].ps => mem'[g][n].addr \notin Frames
    BY <1>2, <1>3, <1>6 DEF Wrote, EntriesOK
  <2> QED BY <2>1, <2>2, <2>3, <2>4 DEF EntriesOK
<1>12. ASSUME j.pc = "callback", K = 1 PROVE <<F, N>> \notin Released
  <2>1. /\ F = TableAt(1, j.req.space, j.v) /\ F # NoFrame /\ N = Index(1, j.v)
    BY <1>5, <1>12, CallbackPlace DEF K, F
  <2>2. j.req.space \in Spaces /\ j.v \in Pages
    BY CallbackPlace, WalkingFacts
  <2>3. ~Dropped(j.req.space, j.v)
    BY <1>12, FirstPage, CallbackPages
  <2> QED BY <2>1, <2>2, <2>3, ReleasedIsDropped
<1>10. Released' = Released =>
       /\ K > 1 => FlyPages' = FlyPages
       /\ K = 1 /\ <<F, N>> \notin Released => \A g : g \in FlyPages' <=>
              g \in Frames /\ (\/ e.present /\ e.addr = g
                              \/ \E h \in TablesAt(1), m \in Slots :
                                   (h # F \/ m # N) /\ Held(h, m) /\ mem[h][m].addr = g)
  BY <1>3, <1>4, FlyStays
<1>11. Released' = Released /\ j.pc = "callback" /\ K = 1 => \A g : g \in FlyPages' <=>
              g \in Frames /\ (\/ e.present /\ e.addr = g
                              \/ \E h \in TablesAt(1), m \in Slots :
                                   /\ h # F \/ m # Index(1, j.v)
                                   /\ Held(h, m) /\ mem[h][m].addr = g)
  BY <1>5, <1>10, <1>12
<1> QED BY <1>6, <1>7, <1>8, <1>9, <1>10, <1>11 DEF K, F

\* A callback that neither takes nor gives back a frame.
SameFrames(j, e) ==
  /\ Current(j).present /\ Current(j).addr \in Frames => e.present /\ e.addr = Current(j).addr
  /\ e.present /\ e.addr \in Frames /\ j.level = 1 => e.addr \in FlyPages

LEMMA PagesStay ==
  ASSUME TreeInv, TypeOK', NEW t \in Threads, job[t] # NoJob, job[t].pc = "callback",
         NEW j, j = job[t], NEW e, SetEntry(j, e), UNCHANGED <<free, root>>,
         j.level > 1 => ~IsTable(e), e = Zero \/ (e.present /\ e.addr \in Nat), SameFrames(j, e),
         e.ps => e.addr \notin Frames,
         NEW phys, Advance(t, phys)
  PROVE  TreeShape' /\ NoLeak'
<1>0. job[t].pc \in Calling /\ Released' = Released
  <2>1. job[t].pc \in Calling
    BY DEF Calling
  <2> QED BY <2>1, WindowsOutside DEF Windows
<1>1. /\ Tables' = Tables
      /\ Tables \intersect free = {} /\ FlyPages' \intersect (Tables \union free) = {} => TreeShape'
      /\ j.level > 1 => FlyPages' = FlyPages
      /\ j.level = 1 => \A g : g \in FlyPages' <=>
              g \in Frames /\ (\/ e.present /\ e.addr = g
                              \/ \E h \in TablesAt(1), m \in Slots :
                                   /\ h # j.table \/ m # Index(1, j.v)
                                   /\ Held(h, m) /\ mem[h][m].addr = g)
  BY <1>0, CallbackTrees
<1>2. /\ j.level \in 1..3 /\ Index(j.level, j.v) \in Slots
      /\ Current(j) = mem[j.table][Index(j.level, j.v)]
      /\ j.table \in TablesAt(j.level)
  BY <1>0, CallbackPlace
<1>3. \A g : g \in FlyPages <=>
        g \in Frames /\ \E h \in TablesAt(1), m \in Slots : Held(h, m) /\ mem[h][m].addr = g
  BY TreeSlotsNow DEF TreeSlots
<1>4. CASE j.level = 1
  <2>1. ASSUME NEW g \in FlyPages' PROVE g \in FlyPages
    BY <1>1, <1>3, <1>4, <2>1 DEF SameFrames
  <2>2. ASSUME NEW g \in FlyPages PROVE g \in FlyPages'
    <3>1. g \in Frames
      BY <1>3, <2>2
    <3>2. PICK h \in TablesAt(1), m \in Slots : Held(h, m) /\ mem[h][m].addr = g
      BY <1>3, <2>2
    <3>3. CASE h = j.table /\ m = Index(1, j.v)
      <4>1. Current(j).present /\ Current(j).addr = g
        BY <1>2, <1>4, <3>2, <3>3 DEF Held
      <4>2. e.present /\ e.addr = g
        BY <1>4, <3>1, <4>1 DEF SameFrames
      <4> QED BY <1>1, <1>4, <3>1, <4>2
    <3>4. CASE h # j.table \/ m # Index(1, j.v)
      BY <1>1, <1>4, <3>1, <3>2, <3>4
    <3> QED BY <3>3, <3>4
  <2>3. FlyPages' = FlyPages
    BY <2>1, <2>2
  <2> QED BY <1>1, <2>3 DEF TreeInv, TreeShape, NoLeak
<1>5. CASE j.level > 1
  <2>1. FlyPages' = FlyPages
    BY <1>1, <1>5
  <2> QED BY <1>1, <2>1 DEF TreeInv, TreeShape, NoLeak
<1> QED BY <1>2, <1>4, <1>5

LEMMA CallbackKeeps ==
  ASSUME TreeInv, TypeInv', NEW t \in Threads, job[t] # NoJob, job[t].pc \in Calling,
         NEW j, j = job[t], NEW e, SetEntry(j, e), UNCHANGED root,
         NEW phys, Advance(t, phys), j.req.op = "map" => phys = j.phys,
         j.level > 1 => ~IsTable(e), e = Zero \/ (e.present /\ e.addr \in Nat),
         e.ps => e.addr \notin Frames,
         FromItsOwn(j, e), j.req.op = "flyUnmap" => e = Zero,
         TreeShape', NoLeak'
  PROVE  TreeInv'
<1>1. TypeOK'
  BY DEF TypeInv
<1>2. EntriesOK'
  BY <1>1, CallbackTrees
<1>3. NoneInTheWay
  BY <1>1, NobodyInTheWay
<1>4. \A s \in Spaces, v \in Pages : s # j.req.space \/ v \notin Done(j) => Quiet(s, v)
  BY <1>1, CallbackWrites
<1>5. Apart' /\ JobsInv'
  BY <1>3, <1>4, CallbackJobs
<1> QED BY <1>2, <1>5 DEF TreeInv

-----------------------------------------------------------------------------
(* The callbacks, one by one *)

LEMMA LeafEntry ==
  ASSUME NEW j, j.level = Target(j), Target(j) \in 1..3, NEW a \in Int,
         NEW e, e = At(a, LeafBits(j))
  PROVE  /\ e.present /\ e.addr = a /\ e # Zero
         /\ j.level > 1 => ~IsTable(e)
         /\ e.rights = LeafBits(j).rights
         /\ e.ps <=> j.level > 1
<1>1. PICK d : d = LeafBits(j)
  OBVIOUS
<1>2. d = GetEntryBits(j.level, Target(j), j.req)
  BY <1>1 DEF LeafBits
<1>3. d.addr = 0
  BY <1>2 DEF GetEntryBits
<1>4. e = At(a, d)
  BY <1>1
<1>5. /\ e.present /\ e.addr = a /\ e.rights = d.rights
      /\ e.ps <=> j.level = Target(j) /\ j.level > 1
  BY <1>2, <1>3, <1>4, AtFields
<1> QED BY <1>1, <1>5 DEF IsTable, Zero

LEMMA ZeroEntry ==
  ~Zero.present /\ ~IsTable(Zero) /\ Zero.addr = 0 /\ ~Zero.ps
BY DEF Zero, IsTable

LEMMA TreeMap ==
  ASSUME TreeInv, TypeInv', NEW t \in Threads, MapCallback(t)
  PROVE  TreeInv'
<1> DEFINE J == job[t]
<1>0. PICK j : j = J
  OBVIOUS
<1> HIDE DEF J
<1>1. /\ job[t] # NoJob /\ job[t].pc = "callback" /\ j.req.op = "map" /\ j = job[t]
      /\ job[t].pc \in Calling
      /\ UNCHANGED <<free, root>> /\ Advance(t, j.phys)
  BY <1>0 DEF MapCallback, InCallback, Calling, J
<1>2. PICK e : e = [At(j.phys, LeafBits(j)) EXCEPT !.rights = @ \union j.req.low]
  OBVIOUS
<1>3. SetEntry(j, e)
  BY <1>0, <1>2 DEF MapCallback, J
<1>4. /\ j.level = Target(j) /\ j.v \in Done(j) /\ Promise(j.req, j.v) /\ j.pc \in Walking
  BY <1>1, CallbackPlace, FirstPage
<1>6. /\ j \in Job /\ ProgressOK(j) /\ j.req \in Requests /\ j.v \in Pages /\ Target(j) \in 1..3
  BY <1>1, <1>4, WalkingFacts
<1>5. e.present /\ e.addr = j.phys /\ (j.level > 1 => ~IsTable(e))
  <2>1. PICK d : d = At(j.phys, LeafBits(j))
    OBVIOUS
  <2>2. j.phys \in Int
    BY <1>6, JobTypes
  <2>3. d.present /\ d.addr = j.phys /\ (j.level > 1 => ~IsTable(d))
    BY <1>4, <1>6, <2>1, <2>2, LeafEntry
  <2>4. e.present = d.present /\ e.addr = d.addr /\ e.ps = d.ps
    BY <1>2, <2>1 DEF At, LeafBits, GetEntryBits
  <2> QED BY <2>3, <2>4 DEF IsTable
<1>7. j.phys = j.req.phys + (j.v - j.req.v)
  BY <1>1, <1>6 DEF ProgressOK
<1>8. j.phys \in Nat
  <2>1. j.req.phys \in Nat /\ j.v \in Nat /\ j.req.v \in Nat /\ j.v >= j.req.v
    BY <1>6, RequestFacts, PageFacts DEF ProgressOK
  <2> DEFINE a == j.req.phys
  <2> DEFINE b == j.v
  <2> DEFINE c == j.req.v
  <2>2. a \in Nat /\ b \in Nat /\ c \in Nat /\ b >= c
    BY <2>1
  <2>3. j.phys = a + (b - c)
    BY <1>7
  <2> HIDE DEF a, b, c
  <2>4. a + (b - c) \in Nat
    BY ONLY <2>2
  <2> QED BY <2>3, <2>4
<1>9. j.phys \notin Frames /\ ~IsFly(j.req.space, j.v)
  BY <1>1, <1>4, <1>7 DEF Promise
<1>10. ~(Current(j).present /\ Current(j).addr \in Frames)
  <2>1. IsFly(j.req.space, j.v) <=> Current(j).present /\ Current(j).addr \in Frames
    BY <1>1, <1>4, CallbackPages
  <2> QED BY <1>9, <2>1
<1>11. SameFrames(j, e) /\ FromItsOwn(j, e)
  BY <1>5, <1>9, <1>10 DEF SameFrames, FromItsOwn
<1>12. TypeOK' /\ e.addr \in Nat
  BY <1>5, <1>8 DEF TypeInv
<1>13. TreeShape' /\ NoLeak'
  BY <1>1, <1>3, <1>5, <1>9, <1>11, <1>12, PagesStay
<1>14. j.req.op # "flyUnmap" /\ UNCHANGED root /\ e.addr \notin Frames
  BY <1>1, <1>5, <1>9
<1> QED BY <1>1, <1>3, <1>5, <1>11, <1>12, <1>13, <1>14, CallbackKeeps

LEMMA TreeUnmap ==
  ASSUME TreeInv, TypeInv', NEW t \in Threads, UnmapCallback(t)
  PROVE  TreeInv'
<1> DEFINE J == job[t]
<1>0. PICK j : j = J
  OBVIOUS
<1> HIDE DEF J
<1> DEFINE phys == IF j.phys = 0 THEN Current(j).addr ELSE j.phys
<1>1. /\ job[t] # NoJob /\ job[t].pc = "callback" /\ j.req.op = "unmap" /\ j = job[t]
      /\ job[t].pc \in Calling
      /\ UNCHANGED <<free, root>> /\ Advance(t, phys) /\ SetEntry(j, Zero)
  BY <1>0 DEF UnmapCallback, InCallback, Calling, J
<1>2. /\ j.v \in Done(j) /\ Promise(j.req, j.v)
  BY <1>1, FirstPage
<1>3. ~(Current(j).present /\ Current(j).addr \in Frames)
  <2>1. IsFly(j.req.space, j.v) <=> Current(j).present /\ Current(j).addr \in Frames
    BY <1>1, <1>2, CallbackPages
  <2> QED BY <1>1, <1>2, <2>1 DEF Promise
<1>4. SameFrames(j, Zero) /\ FromItsOwn(j, Zero)
  BY <1>3, ZeroEntry DEF SameFrames, FromItsOwn
<1>5. TypeOK' /\ ~IsTable(Zero) /\ ~Zero.ps
  BY ZeroEntry DEF TypeInv
<1>6. PICK e : e = Zero
  OBVIOUS
<1>7. TreeShape' /\ NoLeak'
  BY <1>1, <1>4, <1>5, <1>6, PagesStay
<1>8. j.req.op # "map" /\ UNCHANGED root
  BY <1>1
<1> HIDE DEF phys
<1> QED BY <1>1, <1>4, <1>5, <1>6, <1>7, <1>8, CallbackKeeps

LEMMA TreeSetAttr ==
  ASSUME TreeInv, TypeInv', NEW t \in Threads, SetAttrCallback(t)
  PROVE  TreeInv'
<1> DEFINE J == job[t]
<1>0. PICK j : j = J
  OBVIOUS
<1> HIDE DEF J
<1>1. /\ job[t] # NoJob /\ job[t].pc = "callback" /\ j.req.op = "setAttr" /\ j = job[t]
      /\ job[t].pc \in Calling
      /\ UNCHANGED <<free, root>> /\ Advance(t, j.phys)
  BY <1>0 DEF SetAttrCallback, InCallback, Calling, J
<1>2. PICK e : e = At(Current(j).addr, LeafBits(j))
  OBVIOUS
<1>3. SetEntry(j, e)
  BY <1>0, <1>2 DEF SetAttrCallback, J
<1>4. /\ j.level = Target(j) /\ j.v \in Done(j) /\ Promise(j.req, j.v) /\ j.level \in 1..3
      /\ Current(j) = Zero \/ (Current(j).present /\ Current(j).addr \in Nat)
  BY <1>1, CallbackPlace, FirstPage
<1>5. /\ e.present /\ e.addr = Current(j).addr /\ (j.level > 1 => ~IsTable(e))
      /\ e.ps <=> j.level > 1
  <2>1. Target(j) \in 1..3 /\ Current(j).addr \in Int
    BY <1>4, ZeroEntry
  <2> QED BY <1>2, <1>4, <2>1, LeafEntry
<1>6. /\ Current(j).present /\ Leaf(j.req.space, j.v) = Current(j)
      /\ LeafLevel(j.req.space, j.v) = j.level
      /\ IsFly(j.req.space, j.v) <=> Current(j).addr \in Frames
  BY <1>1, <1>4, CallbackPages DEF Promise
<1>7. e.addr \in Nat
  BY <1>4, <1>5, ZeroEntry
<1>8. j.req.space \in Spaces /\ j.v \in Pages /\ j.req.space \in Touched(j.req)
  BY <1>1, <1>4, CallbackPages, CallbackPlace, WalkingFacts DEF Touched
<1>9. SameFrames(j, e)
  <2>1. e.addr \in Frames /\ j.level = 1 => e.addr \in FlyPages
    BY <1>5, <1>6, <1>8, FlyInPages
  <2> QED BY <1>5, <2>1 DEF SameFrames
<1>10. FromItsOwn(j, e)
  BY <1>5, <1>6, <1>8 DEF FromItsOwn
<1>11. TypeOK'
  BY DEF TypeInv
<1>14. e.ps => e.addr \notin Frames
  <2> SUFFICES ASSUME e.ps PROVE Current(j).addr \notin Frames
    BY <1>5
  <2>1. /\ ~IsTable(Current(j)) /\ j.table \in Tables /\ Index(j.level, j.v) \in Slots
        /\ Current(j) = mem[j.table][Index(j.level, j.v)]
    BY <1>1, <1>5, CallbackPlace
  <2> QED BY <1>6, <2>1 DEF IsTable, TreeInv, EntriesOK
<1>12. TreeShape' /\ NoLeak'
  BY <1>1, <1>3, <1>5, <1>7, <1>9, <1>11, <1>14, PagesStay
<1>13. j.req.op # "flyUnmap" /\ j.req.op # "map" /\ UNCHANGED root
  BY <1>1
<1> QED BY <1>1, <1>3, <1>5, <1>7, <1>10, <1>12, <1>13, <1>14, CallbackKeeps

LEMMA TreeFlyMap ==
  ASSUME TreeInv, TypeInv', NEW t \in Threads, FlyMapCallback(t)
  PROVE  TreeInv'
<1> DEFINE J == job[t]
<1>0. PICK j : j = J
  OBVIOUS
<1> HIDE DEF J
<1>1. /\ job[t] # NoJob /\ job[t].pc = "callback" /\ j.req.op = "flyMap" /\ j = job[t]
      /\ job[t].pc \in Calling
      /\ UNCHANGED root /\ Advance(t, j.phys)
  BY <1>0 DEF FlyMapCallback, InCallback, Calling, J
<1>2. PICK f \in PmmOffers(free) : free' = free \ {f} /\ SetEntry(j, At(f, LeafBits(j)))
  BY <1>0 DEF FlyMapCallback, J
<1>3. PICK e : e = At(f, LeafBits(j))
  OBVIOUS
<1>4. TypeOK /\ TypeOK' /\ TreeShape /\ NoLeak
  BY DEF TreeInv, TypeInv
<1>5. f \in free /\ f \in Frames /\ f \in Nat
  <2>1. f \in free /\ f \in Frames
    BY <1>4, PmmAssumption DEF TypeOK
  <2> QED BY <2>1, PagerAssumption
<1>6. /\ j.level = Target(j) /\ j.v \in Done(j) /\ Promise(j.req, j.v)
      /\ j.table \in TablesAt(j.level) /\ Index(j.level, j.v) \in Slots
      /\ Current(j) = mem[j.table][Index(j.level, j.v)]
  BY <1>1, CallbackPlace, FirstPage
<1>7. j.level = 1
  BY <1>1, <1>6 DEF Target, CallbackLevel, Only4K
<1>8. e.present /\ e.addr = f /\ (j.level > 1 => ~IsTable(e)) /\ SetEntry(j, e) /\ ~e.ps
  <2>1. Target(j) \in 1..3 /\ f \in Int
    BY <1>5, <1>6, <1>7
  <2>2. e.present /\ e.addr = f /\ (j.level > 1 => ~IsTable(e)) /\ (e.ps <=> j.level > 1)
    BY <1>3, <1>6, <2>1, LeafEntry
  <2>3. SetEntry(j, e)
    BY <1>2, <1>3
  <2> QED BY <1>7, <2>2, <2>3
<1>9. ~Current(j).present
  BY <1>1, <1>6, CallbackPages DEF Promise
<1>10. FromItsOwn(j, e)
  BY <1>5, <1>8 DEF FromItsOwn
<1>11. /\ Tables' = Tables
       /\ Tables \intersect free' = {} /\ FlyPages' \intersect (Tables \union free') = {} => TreeShape'
       /\ \A g : g \in FlyPages' <=>
            g \in Frames /\ (\/ e.present /\ e.addr = g
                             \/ \E h \in TablesAt(1), m \in Slots :
                                  /\ h # j.table \/ m # Index(1, j.v)
                                  /\ Held(h, m) /\ mem[h][m].addr = g)
  <2>1. Released' = Released
    BY <1>1, WindowsOutside DEF Windows
  <2> QED BY <1>1, <1>4, <1>5, <1>7, <1>8, <2>1, CallbackTrees
<1>12. \A g : g \in FlyPages <=>
        g \in Frames /\ \E h \in TablesAt(1), m \in Slots : Held(h, m) /\ mem[h][m].addr = g
  BY TreeSlotsNow DEF TreeSlots
<1>13. ~mem[j.table][Index(1, j.v)].present
  BY <1>6, <1>7, <1>9
<1>14. FlyPages' = FlyPages \union {f}
  <2>1. ASSUME NEW g PROVE g \in FlyPages' <=> g \in FlyPages \/ g = f
    <3>1. g = f => g \in FlyPages'
      BY <1>5, <1>8, <1>11
    <3>2. \A h \in TablesAt(1), m \in Slots :
            Held(h, m) => h # j.table \/ m # Index(1, j.v)
      BY <1>13 DEF Held
    <3>3. g \in FlyPages => g \in FlyPages'
      BY <1>11, <1>12, <3>2
    <3>4. g \in FlyPages' => g \in FlyPages \/ g = f
      BY <1>8, <1>11, <1>12
    <3> QED BY <3>1, <3>3, <3>4
  <2> QED BY <2>1
<1>15. TreeShape' /\ NoLeak'
  BY <1>2, <1>4, <1>5, <1>11, <1>14 DEF TreeShape, NoLeak
<1>16. j.req.op # "flyUnmap" /\ j.req.op # "map"
  BY <1>1
<1> QED BY <1>1, <1>5, <1>8, <1>10, <1>15, <1>16, CallbackKeeps

\* The frame is given back; the entry that maps it stays a little longer.
LEMMA TreeFlyUnmapFree ==
  ASSUME TreeInv, TypeInv', NEW t \in Threads, FlyUnmapFree(t)
  PROVE  TreeInv'
<1> DEFINE J == job[t]
<1>0. PICK j : j = J
  OBVIOUS
<1> HIDE DEF J
<1>1. /\ job[t] # NoJob /\ job[t].pc = "callback" /\ j.req.op = "flyUnmap" /\ j = job[t]
      /\ UNCHANGED <<mem, root>> /\ job[t].pc \in Calling
      /\ free' = free \union ({Current(j).addr} \intersect Frames)
  BY <1>0 DEF FlyUnmapFree, InCallback, Calling, J
<1>2. TypeOK /\ TypeOK' /\ TypeInv /\ TreeShape /\ NoLeak /\ EntriesOK
  BY DEF TreeInv, TypeInv
<1>3. /\ j.level = Target(j) /\ j.v \in Done(j) /\ Promise(j.req, j.v)
      /\ j.table \in TablesAt(j.level) /\ Index(j.level, j.v) \in Slots
      /\ Current(j) = mem[j.table][Index(j.level, j.v)]
      /\ TableAt(j.level, j.req.space, j.v) = j.table /\ j.pc \in Walking
      /\ j.index[j.level] = Index(j.level, j.v) /\ j.table # NoFrame
  BY <1>1, CallbackPlace, FirstPage
<1>4. /\ IsFly(j.req.space, j.v) /\ Sole(j.req.space, j.v) /\ ReachedAt(j.req, j.v) = 1
      /\ ~Dropped(j.req.space, j.v)
  BY <1>1, <1>3, CallbackPages DEF Promise
<1>5. /\ j.level = 1 /\ Current(j).present /\ Current(j).addr \in Frames
      /\ Leaf(j.req.space, j.v) = Current(j) /\ LeafLevel(j.req.space, j.v) = 1
  BY <1>1, <1>3, <1>4, CallbackPages
<1>6. /\ j \in Job /\ JobInv(j) /\ ProgressOK(j) /\ WalkOK(j) /\ j.v \in Pages
      /\ j.req.space \in Spaces /\ j.req \in Requests
  BY <1>1, <1>3, WalkingFacts
<1> DEFINE a == Current(j).addr
<1>7. PICK k : k = JobAt(j, "clear", j.level, j.table, j.index)
  OBVIOUS
<1>8. job' = [job EXCEPT ![t] = k]
  <2>1. job' = [job EXCEPT ![t] = [j EXCEPT !.pc = "clear"]]
    BY <1>0 DEF FlyUnmapFree, J
  <2>2. [j EXCEPT !.pc = "clear"] = k
    BY <1>6, <1>7, PcMove
  <2> QED BY <2>1, <2>2
<1>9. /\ k.req = j.req /\ k.v = j.v /\ k.level = j.level /\ k.table = j.table /\ k.left = j.left
      /\ k.index = j.index /\ k.pc = "clear" /\ k.phys = j.phys
  BY <1>7 DEF JobAt
<1>10. /\ job'[t] = k /\ k # NoJob /\ \A u \in Threads \ {t} : job'[u] = job[u]
  <2>1. k \in Job
    <3>1. "clear" \in {"look", "make", "down", "callback", "clear", "done", "failed", "wild"}
      OBVIOUS
    <3> QED BY <1>6, <1>7, <3>1 DEF JobAt, Job
  <2>2. k # NoJob
    BY <2>1, NamesAssumption
  <2> QED BY <1>2, <1>8, <2>2 DEF TypeOK
<1>11. Clearing' = Clearing \union {t} /\ t \notin Clearing
  BY <1>1, <1>9, <1>10 DEF Clearing
<1>12. \A u \in Clearing : job'[u] = job[u]
  BY <1>10, <1>11 DEF Clearing
<1>13. ASSUME NEW g, NEW n
       PROVE  <<g, n>> \in Released' <=> <<g, n>> \in Released \/ (g = j.table /\ n = Index(1, j.v))
  <2>1. <<job'[t].table, job'[t].index[job'[t].level]>> = <<j.table, Index(1, j.v)>>
    BY <1>3, <1>5, <1>9, <1>10
  <2> QED BY <1>11, <1>12, <2>1 DEF Released
<1>14. ASSUME NEW s, NEW v
       PROVE  Dropped(s, v)' <=> Dropped(s, v) \/ (s = j.req.space /\ v = j.v)
  BY <1>9, <1>10, <1>11, <1>12 DEF Dropped
<1>15. /\ Tables' = Tables /\ TablesAt(1)' = TablesAt(1) /\ EntriesOK' /\ Roots' = Roots
       /\ Directories' = Directories
  BY <1>1, <1>2, SameTables DEF TablesAt
<1>16. ASSUME NEW h \in TablesAt(1), NEW m \in Slots, Held(h, m), mem[h][m].addr = a
       PROVE  h = j.table /\ m = Index(1, j.v)
  <2>1. PICK s \in Spaces, v \in Pages :
          TableAt(1, s, v) = h /\ Index(1, v) = m /\ EntryAt(1, s, v) = mem[h][m]
    BY <1>2, EverySlot DEF TreeShape, Levels
  <2>2. TableAt(1, s, v) # NoFrame
    BY <1>2, <2>1, TreeSlotsNow, PagerAssumption DEF TreeShape, TreeSlots, Levels
  <2>3. LeafLevel(s, v) = 1 /\ mem[h][m].present
    BY <1>2, <1>16, <2>1, <2>2, LeafHereNow DEF LeafHere, Held
  <2>4. ~Dropped(s, v)
    BY <1>16, <2>1, <2>2, ReleasedIsDropped DEF Held
  <2>5. IsFly(s, v) /\ Leaf(s, v).addr = a
    BY <1>5, <1>16, <2>1, <2>3, <2>4 DEF IsFly, Mapped, Leaf
  <2>6. <<s, v>> = <<j.req.space, j.v>>
    BY <1>4, <1>5, <2>5 DEF Sole
  <2>7. s = j.req.space /\ v = j.v
    BY <2>6
  <2> QED BY <1>3, <1>5, <2>1, <2>7
<1>17. a \in FlyPages
  BY <1>4, <1>5, <1>6, FlyInPages
<1>18. \A g : g \in FlyPages <=>
         g \in Frames /\ \E h \in TablesAt(1), m \in Slots : Held(h, m) /\ mem[h][m].addr = g
  BY TreeSlotsNow DEF TreeSlots
<1>19. \A g : g \in FlyPages' <=>
         g \in Frames /\ \E h \in TablesAt(1), m \in Slots : Held(h, m)' /\ mem[h][m].addr = g
  BY <1>1, <1>15, TreesNext DEF TreeSlots
<1>20. \A h, m : Held(h, m)' <=> Held(h, m) /\ ~(h = j.table /\ m = Index(1, j.v))
  BY <1>1, <1>13 DEF Held
<1>21. mem[j.table][Index(1, j.v)].addr = a
  BY <1>3, <1>5
<1>22. FlyPages' = FlyPages \ {a}
  <2>1. ASSUME NEW g PROVE g \in FlyPages' <=> g \in FlyPages /\ g # a
    <3> HIDE DEF a
    <3> QED BY <1>16, <1>18, <1>19, <1>20, <1>21
  <2> QED BY <2>1
<1>23. free' = free \union {a}
  BY <1>1, <1>5
<1> HIDE DEF a
<1>24. TreeShape'
  <2>1. a \notin Tables
    BY <1>2, <1>17 DEF TreeShape
  <2> QED BY <1>1, <1>2, <1>15, <1>22, <1>23, <2>1 DEF TreeShape
<1>25. NoLeak'
  <2>1. a \in Frames /\ a \notin Tables /\ a \notin free
    BY <1>2, <1>5, <1>17 DEF TreeShape, a
  <2> QED BY <1>2, <1>15, <1>17, <1>22, <1>23, <2>1 DEF NoLeak
<1>26. \A s \in Spaces, v \in Pages : Quiet(s, v)
  BY <1>1, <1>2, AllQuiet
<1>27. ASSUME NEW b PROVE NoNewUser(b)
  <2> SUFFICES ASSUME NEW s \in Spaces, NEW q \in Pages, IsFly(s, q)', Leaf(s, q)'.addr = b
               PROVE  IsFly(s, q) /\ Leaf(s, q).addr = b
    BY DEF NoNewUser
  <2>1. Steady(s, q) /\ ~Dropped(s, q)
    BY <1>2, <1>14, <1>26, QuietIsSteady DEF IsFly
  <2> QED BY <2>1, SteadyFacts DEF IsFly
<1>28. JobInv(k)'
  <2>1. ProgressOK(k)'
    BY <1>6, <1>9 DEF ProgressOK
  <2>2. WalkOK(k)'
    <3>1. j.level \in Levels /\ Quiet(j.req.space, j.v)
      BY <1>5, <1>6, <1>26 DEF Levels
    <3>2. \A l \in Levels : l > k.level \/ l = k.level => k.index[l] = Index(l, k.v)
      BY <1>1, <1>6, <1>9 DEF WalkOK
    <3>3. k.table = TableAt(k.level, k.req.space, k.v)'
      BY <1>3, <1>9, <3>1 DEF Quiet
    <3> QED BY <1>9, <3>2, <3>3 DEF WalkOK
  <2>3. ASSUME NEW w \in Rest(j) PROVE Promise(j.req, w)'
    <3>1. w \in Pages /\ ReachedAt(j.req, w) \in Levels
      BY <1>6, RestFacts DEF Levels
    <3>2. Quiet(j.req.space, w) /\ Steady(j.req.space, w) /\ Promise(j.req, w)
      BY <1>2, <1>3, <1>6, <1>26, <3>1, QuietIsSteady DEF JobInv
    <3>3. EntryAt(ReachedAt(j.req, w), j.req.space, w)' = EntryAt(ReachedAt(j.req, w), j.req.space, w)
      BY <3>1, <3>2 DEF Quiet
    <3>4. CASE w = j.v
      <4>1. Dropped(j.req.space, w)'
        BY <1>14, <3>4
      <4>2. Fits(j.req, j.req.space, w)'
        BY <3>2, <3>3, FitsKept DEF Promise
      <4> QED BY <1>1, <1>4, <3>4, <4>1, <4>2 DEF Promise
    <3>5. CASE w # j.v
      <4>1. SameWindow(j.req.space, w)
        BY <1>14, <3>5 DEF SameWindow
      <4> QED BY <1>1, <1>27, <3>2, <3>3, <4>1, PromiseKept
    <3> QED BY <3>4, <3>5
  <2>4. \A w \in Rest(k)' : Promise(k.req, w)'
    <3>1. Rest(k)' = Rest(j)
      BY <1>9 DEF Rest
    <3> QED BY <1>9, <2>3, <3>1
  <2> QED BY <2>1, <2>2, <2>4 DEF JobInv
<1>29. \A u \in Threads \ {t} : job[u] # NoJob =>
         Touched(j.req) \intersect Touched(job[u].req) = {}
  BY <1>1 DEF TreeInv, Apart
<1>30. Apart'
  BY <1>9, <1>10, <1>29, StillApart DEF TreeInv
<1>31. JobsInv'
  <2>1. ASSUME NEW u \in Threads \ {t}, job[u] # NoJob, NEW s \in Touched(job[u].req),
               NEW v \in Pages
        PROVE  Quiet(s, v) /\ SameWindow(s, v)
    <3>1. s \in Spaces
      BY <1>2, <2>1, JobTypes DEF Touched, TypeOK
    <3>2. s # j.req.space
      BY <1>29, <2>1 DEF Touched
    <3> QED BY <1>14, <1>26, <3>1, <3>2 DEF SameWindow
  <2> QED BY <1>2, <1>10, <1>27, <1>28, <2>1, OthersKept DEF TreeInv
<1> QED BY <1>15, <1>24, <1>25, <1>30, <1>31 DEF TreeInv

\* The entry is cleared: no page has been in the frame since it was freed.
LEMMA TreeFlyUnmapClear ==
  ASSUME TreeInv, TypeInv', NEW t \in Threads, FlyUnmapClear(t)
  PROVE  TreeInv'
<1> DEFINE J == job[t]
<1>0. PICK j : j = J
  OBVIOUS
<1> HIDE DEF J
<1>1. /\ j = job[t] /\ t \in Clearing /\ SetEntry(j, Zero) /\ Advance(t, j.phys)
      /\ UNCHANGED <<free, root>>
  BY <1>0 DEF FlyUnmapClear, J
<1>2. TypeOK /\ TypeOK' /\ TreeShape /\ NoLeak
  BY DEF TreeInv, TypeInv
<1>3. /\ j # NoJob /\ job[t].pc \in Calling /\ j.req.op = "flyUnmap" /\ j.level = 1
      /\ j.index[j.level] = Index(1, j.v)
  BY <1>1, ClearingFacts
<1>4. PICK e : e = Zero
  OBVIOUS
<1>5. ~e.present /\ ~IsTable(e) /\ ~e.ps /\ SetEntry(j, e)
  BY <1>1, <1>4, ZeroEntry
<1>6. /\ Tables' = Tables
      /\ Tables \intersect free' = {} /\ FlyPages' \intersect (Tables \union free') = {} => TreeShape'
  BY <1>1, <1>2, <1>3, <1>4, <1>5, CallbackTrees
<1>7. Wrote(j.table, Index(j.level, j.v), e) /\ j.table \in TablesAt(1) /\ Index(1, j.v) \in Slots
  BY <1>1, <1>2, <1>3, <1>5, CallbackPlace, CallbackWrites
<1>8. TablesAt(1)' = TablesAt(1)
  BY <1>2, <1>3, <1>7, TreesStay DEF Levels
<1>9. /\ \A h \in TablesAt(1), m \in Slots :
           h # j.table \/ m # Index(1, j.v) => mem'[h][m] = mem[h][m]
      /\ mem'[j.table][Index(1, j.v)] = e
  <2>1. TablesAt(1) \subseteq Tables
    BY BelowFacts
  <2> QED BY <1>3, <1>7, <2>1 DEF Wrote
<1>10. ASSUME NEW g, NEW n
       PROVE  <<g, n>> \in Released <=> <<g, n>> \in Released' \/ (g = j.table /\ n = Index(1, j.v))
  <2>1. PICK k : /\ job'[t] = k /\ \A u \in Threads \ {t} : job'[u] = job[u]
                 /\ k.pc = IF j.left = Span[Target(j)] THEN "done" ELSE "look"
    BY <1>1, <1>3, AdvanceFacts
  <2>2. Clearing' = Clearing \ {t} /\ \A u \in Clearing \ {t} : job'[u] = job[u]
    BY <2>1 DEF Clearing
  <2>3. <<job[t].table, job[t].index[job[t].level]>> = <<j.table, Index(1, j.v)>>
    BY <1>1, <1>3
  <2> QED BY <1>1, <2>2, <2>3 DEF Released
<1>11. \A h \in TablesAt(1), m \in Slots :
         /\ Held(h, m)' <=> Held(h, m)
         /\ Held(h, m) => mem'[h][m] = mem[h][m]
  <2> TAKE h \in TablesAt(1), m \in Slots
  <2>1. CASE h = j.table /\ m = Index(1, j.v)
    <3>1. ~Held(h, m) /\ ~Held(h, m)'
      BY <1>5, <1>9, <1>10, <2>1 DEF Held
    <3> QED BY <3>1
  <2>2. CASE h # j.table \/ m # Index(1, j.v)
    BY <1>9, <1>10, <2>2 DEF Held
  <2> QED BY <2>1, <2>2
<1>12. FlyPages' = FlyPages
  <2>1. \A g : g \in FlyPages <=>
          g \in Frames /\ \E h \in TablesAt(1), m \in Slots : Held(h, m) /\ mem[h][m].addr = g
    BY TreeSlotsNow DEF TreeSlots
  <2>2. \A g : g \in FlyPages' <=>
          g \in Frames /\ \E h \in TablesAt(1), m \in Slots : Held(h, m)' /\ mem'[h][m].addr = g
    BY <1>8, TreesNext DEF TreeSlots
  <2>3. ASSUME NEW g PROVE g \in FlyPages' <=> g \in FlyPages
    BY <1>11, <2>1, <2>2
  <2> QED BY <2>3
<1>13. TreeShape' /\ NoLeak'
  BY <1>1, <1>2, <1>6, <1>12 DEF TreeShape, NoLeak
<1>14. FromItsOwn(j, e) /\ j.req.op # "map" /\ UNCHANGED root
  BY <1>1, <1>3, <1>5 DEF FromItsOwn
<1> QED BY <1>1, <1>3, <1>4, <1>5, <1>13, <1>14, CallbackKeeps

-----------------------------------------------------------------------------
(* Clones *)

\* An entry on the way of a page, and the table it points to.
LEMMA EntryShape ==
  ASSUME TreeInv, NEW s \in Spaces, NEW v \in Pages, NEW l \in Levels
  PROVE  /\ EntryAt(l, s, v) = Zero \/ (EntryAt(l, s, v).present /\ EntryAt(l, s, v).addr \in Nat)
         /\ l = 4 => ~EntryAt(l, s, v).ps
         /\ EntryAt(l, s, v).ps => EntryAt(l, s, v).addr \notin Frames
         /\ IsTable(EntryAt(l, s, v)) /\ l > 1 =>
              EntryAt(l, s, v).addr \in Frames /\ EntryAt(l, s, v).addr # 0
<1> DEFINE e == EntryAt(l, s, v)
<1>1. TypeOK /\ TreeShape /\ EntriesOK
  BY DEF TreeInv, TypeInv
<1>2. CASE TableAt(l, s, v) = NoFrame
  <2>1. e = Zero
    BY <1>2, WalkSteps
  <2> QED BY <2>1, ZeroEntry DEF Zero
<1>3. CASE TableAt(l, s, v) # NoFrame
  <2> DEFINE f == TableAt(l, s, v)
  <2> DEFINE n == Index(l, v)
  <2>1. e = mem[f][n] /\ n \in Slots /\ f \in TablesAt(l)
    BY <1>1, <1>3, WalkSteps, OnTheWay, IndexFacts, PageFacts
  <2>2. f \in Tables
    BY <2>1, TreeSlotsNow DEF TreeSlots
  <2> HIDE DEF f, n
  <2>3. e = Zero \/ (e.present /\ e.addr \in Nat)
    BY <1>1, <2>1, <2>2 DEF EntriesOK
  <2>4. l = 4 => ~e.ps
    BY <1>1, <2>1, TreeSlotsNow DEF EntriesOK, TreeSlots
  <2>5. ASSUME IsTable(e), l > 1 PROVE e.addr \in Frames
    <3>1. PICK k \in 1..3 : l = k + 1
      <4>1. l - 1 \in 1..3 /\ l = (l - 1) + 1
        BY <2>5 DEF Levels
      <4> QED BY <4>1
    <3>2. e.addr \in TablesAt(k)
      BY <2>1, <2>5, <3>1, TreeSlotsNow DEF TreeSlots
    <3> QED BY <1>1, <3>2, TreeSlotsNow DEF TreeSlots, TreeShape, Levels
  <2>6. e.ps => e.addr \notin Frames
    BY <1>1, <2>1, <2>2 DEF EntriesOK
  <2> QED BY <2>3, <2>4, <2>5, <2>6, PagerAssumption
<1> QED BY <1>2, <1>3

\* pager_clone_callback goes down one level as the processor would ...
LEMMA FollowDown ==
  ASSUME TreeInv, NEW s \in Spaces, NEW v \in Pages, NEW l \in 1..3, NEW j,
         j.index[l] = Index(l, v), NEW e, e = EntryAt(l + 1, s, v), e = Zero \/ ~e.ps
  PROVE  Follow(e, l, j) = EntryAt(l, s, v)
<1>1. l + 1 \in Levels /\ l \in Levels /\ l < l + 1 /\ l + 1 > 1
  BY DEF Levels
<1>2. CASE ~IsTable(e)
  <2>1. e = Zero
    BY <1>1, <1>2, EntryShape DEF IsTable
  <2>2. EntryAt(l, s, v) = Zero
    BY <1>1, <1>2, NothingBelow
  <2>3. Follow(e, l, j) = e
    BY <2>1, ZeroEntry DEF Follow
  <2> QED BY <2>1, <2>2, <2>3
<1>3. CASE IsTable(e)
  <2>1. e.addr \in Frames /\ e.addr # 0 /\ ~e.ps
    BY <1>1, <1>3, EntryShape DEF IsTable
  <2>2. TableAt(l, s, v) = e.addr /\ e.addr # NoFrame
    BY <1>1, <1>3, <2>1, PagerAssumption DEF TableAt
  <2>3. EntryAt(l, s, v) = mem[e.addr][Index(l, v)]
    BY <1>1, <2>2, WalkSteps
  <2> QED BY <2>1, <2>3 DEF Follow
<1> QED BY <1>2, <1>3

\* ... or stays, at a page or where there is nothing.
LEMMA FollowStays ==
  ASSUME NEW e, NEW l, NEW j, e = Zero \/ e.ps
  PROVE  Follow(e, l, j) = e
BY DEF Follow, Zero

\* What a clone finds in the source is what the processor would find there.
LEMMA SourceFacts ==
  ASSUME TreeInv, NEW t \in Threads, InCallback(t, "clone"), NEW j, j = job[t],
         pcid[j.req.src] = 0
  PROVE  SourceEntries(j) = {IF Mapped(j.req.src, j.v) THEN Leaf(j.req.src, j.v) ELSE Zero}
<1> DEFINE S == j.req.src
<1> DEFINE V == j.v
<1> DEFINE E(l) == EntryAt(l, S, V)
<1>1. job[t] # NoJob /\ job[t].pc \in Calling /\ j.req.op = "clone"
  BY DEF InCallback, Calling
<1>2. /\ j.level \in 1..3 /\ j.pc \in Walking
      /\ \A l \in Levels : l >= j.level => j.index[l] = Index(l, V)
      /\ Promise(j.req, V)
      /\ ReachedAt(j.req, V) = j.level
  BY <1>1, CallbackPlace, FirstPage, CallbackPages
<1>3. j \in Job /\ JobOK(j) /\ V \in Pages /\ S \in Spaces
  BY <1>1, <1>2, WalkingFacts, JobTypes
<1>4. root[S] # NoFrame
  BY <1>1, <1>3 DEF JobOK
<1>5. FitsSource(j.req, V)
  BY <1>1, <1>2 DEF Promise
<1>6. \A l \in Levels : /\ E(l) = Zero \/ (E(l).present /\ E(l).addr \in Nat)
                        /\ l = 4 => ~E(l).ps
  BY <1>3, EntryShape
<1>7. /\ LeafLevel(S, V) = IF E(3).present /\ E(3).ps THEN 3
                           ELSE IF E(2).present /\ E(2).ps THEN 2
                           ELSE IF E(1).present THEN 1 ELSE 0
      /\ LeafLevel(S, V) = 0 \/ (LeafLevel(S, V) \in 1..3 /\ LeafLevel(S, V) >= j.level)
      /\ j.level > 1 => ~IsTable(E(j.level))
  BY <1>2, <1>3, <1>5, LeafLevels DEF FitsSource, ReachedIn, TreeInv, TypeInv
<1>8. FromPml4(j) = {E(4)}
  <2>1. j.index[4] = Index(4, V)
    BY <1>2 DEF Levels
  <2>2. TableAt(4, S, V) = root[S]
    BY DEF TableAt
  <2>3. E(4) = mem[root[S]][Index(4, V)]
    BY <1>3, <1>4, <2>2, WalkSteps DEF Levels
  <2> QED BY <2>1, <2>3 DEF FromPml4
<1>9. SourceEntries(j) = {Follow(Follow(Follow(E(4), 3, j), 2, j), 1, j)}
  BY <1>8 DEF SourceEntries
<1>10. ~E(4).ps
  BY <1>6 DEF Levels
<1>11. Follow(E(4), 3, j) = E(3)
  <2>1. j.index[3] = Index(3, V)
    BY <1>2 DEF Levels
  <2> QED BY <1>3, <1>10, <2>1, FollowDown
<1>12. Mapped(S, V) => Leaf(S, V) = E(LeafLevel(S, V))
  BY DEF Leaf
<1>13. Mapped(S, V) <=> LeafLevel(S, V) # 0
  BY DEF Mapped
<1>14. ASSUME j.level = 3, LeafLevel(S, V) = 0 PROVE E(3) = Zero
  BY <1>6, <1>7, <1>14 DEF IsTable, Levels
<1>15. CASE E(3) = Zero /\ j.level = 3
  <2>1. LeafLevel(S, V) = 0
    BY <1>7, <1>15, ZeroEntry
  <2> QED BY <1>9, <1>11, <1>13, <1>15, <2>1, FollowStays
<1>16. CASE E(3).present /\ E(3).ps
  <2>1. LeafLevel(S, V) = 3
    BY <1>7, <1>16
  <2> QED BY <1>9, <1>11, <1>12, <1>13, <1>16, <2>1, FollowStays
<1>17. CASE (E(3) = Zero \/ ~E(3).ps) /\ j.level \in 1..2
  <2>1. j.index[2] = Index(2, V)
    BY <1>2, <1>17 DEF Levels
  <2>2. Follow(E(3), 2, j) = E(2)
    BY <1>3, <1>17, <2>1, FollowDown
  <2>3. ~(E(3).present /\ E(3).ps)
    BY <1>17, ZeroEntry
  <2>4. CASE E(2).present /\ E(2).ps
    <3>1. LeafLevel(S, V) = 2
      BY <1>7, <2>3, <2>4
    <3> QED BY <1>9, <1>11, <1>12, <1>13, <2>2, <2>4, <3>1, FollowStays
  <2>5. CASE ~(E(2).present /\ E(2).ps) /\ j.level = 2
    <3>1. LeafLevel(S, V) = 0
      BY <1>7, <2>3, <2>5
    <3>2. E(2) = Zero
      BY <1>6, <1>7, <2>5 DEF IsTable, Levels
    <3> QED BY <1>9, <1>11, <1>13, <2>2, <3>1, <3>2, FollowStays
  <2>6. CASE ~(E(2).present /\ E(2).ps) /\ j.level = 1
    <3>1. j.index[1] = Index(1, V)
      BY <1>2, <2>6 DEF Levels
    <3>2. E(2) = Zero \/ ~E(2).ps
      BY <1>6, <2>6 DEF Levels
    <3>3. Follow(E(2), 1, j) = E(1)
      BY <1>3, <3>1, <3>2, FollowDown
    <3>4. LeafLevel(S, V) = IF E(1).present THEN 1 ELSE 0
      BY <1>7, <2>3, <2>6
    <3>5. E(1) = Zero \/ E(1).present
      BY <1>6 DEF Levels
    <3> QED BY <1>9, <1>11, <1>12, <1>13, <2>2, <3>3, <3>4, <3>5
  <2> QED BY <1>17, <2>4, <2>5, <2>6
<1>18. E(3) = Zero \/ (E(3).present /\ E(3).ps) \/ (E(3).present /\ ~E(3).ps)
  BY <1>6 DEF Levels
<1>19. j.level = 3 => E(3) = Zero \/ (E(3).present /\ E(3).ps)
  BY <1>7, <1>14, <1>18 DEF IsTable
<1> QED BY <1>2, <1>15, <1>16, <1>17, <1>18, <1>19

\* Pages that have the entry in common that maps one of them are mapped by it.
LEMMA LeafShared ==
  ASSUME TypeOK, NEW s \in Spaces, NEW v \in Pages, NEW w \in Pages, Mapped(s, v),
         SamePath(LeafLevel(s, v), v, w)
  PROVE  LeafLevel(s, w) = LeafLevel(s, v) /\ Mapped(s, w) /\ Leaf(s, w) = Leaf(s, v)
<1> DEFINE L == LeafLevel(s, v)
<1>1. L \in 1..3 /\ L \in Levels /\ EntryAt(L, s, v).present /\ (L > 1 => EntryAt(L, s, v).ps)
  BY LeafLevels DEF Mapped, Levels
<1> HIDE DEF L
<1>2. TableAt(L, s, v) # NoFrame
  BY <1>1, WalkSteps, ZeroEntry
<1>3. TableAt(L, s, w) # NoFrame /\ EntryAt(L, s, w) = EntryAt(L, s, v)
  BY <1>1, <1>2, SameFrom DEF L
<1>4. L = 1 \/ ~IsTable(EntryAt(L, s, w))
  BY <1>1, <1>3 DEF IsTable
<1>5. LeafLevel(s, w) = L
  BY <1>1, <1>3, <1>4, LeafHereNow DEF LeafHere
<1> QED BY <1>1, <1>3, <1>5 DEF Mapped, Leaf, L

\* With a PCID in the handle there is nothing, or no telling what.
LEMMA SourceLost ==
  ASSUME NEW j, pcid[j.req.src] # 0
  PROVE  \A e \in SourceEntries(j) : e = Zero \/ e = Wild
<1>1. Wild.addr \notin Frames /\ Wild.addr # 0 /\ ~Wild.ps
  BY PagerAssumption DEF Wild
<1>2. \A l : Follow(Zero, l, j) = Zero /\ Follow(Wild, l, j) = Wild
  BY <1>1 DEF Follow, Zero
<1> QED BY <1>2 DEF SourceEntries, FromPml4

\* What a clone copies.
LEMMA CloneFacts ==
  ASSUME TreeInv, NEW t \in Threads, InCallback(t, "clone"), NEW j, j = job[t],
         NEW e \in SourceEntries(j), e # Wild, e.addr # 0
  PROVE  /\ pcid[j.req.src] = 0
         /\ e.present /\ e.addr \in Nat
         /\ j.level > 1 => ~IsTable(e)
         /\ e.ps => e.addr \notin Frames
         /\ j.req.src \in Spaces /\ j.req.src \in Touched(j.req) /\ j.req.src # j.req.space
         /\ \A w \in Done(j) :
              /\ w \in Pages
              /\ LeafLevel(j.req.src, w) \in j.level..3
              /\ LeafLevel(j.req.src, w) = LeafLevel(j.req.src, j.v)
              /\ Mapped(j.req.src, w) /\ Leaf(j.req.src, w) = e
<1> DEFINE S == j.req.src
<1>1. job[t] # NoJob /\ job[t].pc \in Calling /\ j.req.op = "clone"
  BY DEF InCallback, Calling
<1>2. pcid[S] = 0
  BY SourceLost, ZeroEntry
<1> DEFINE L == LeafLevel(S, j.v)
<1>3. Mapped(S, j.v) /\ e = Leaf(S, j.v) /\ e = EntryAt(L, S, j.v)
  <2>1. e = IF Mapped(S, j.v) THEN Leaf(S, j.v) ELSE Zero
    BY <1>2, SourceFacts
  <2> QED BY <2>1, ZeroEntry DEF Leaf
<1>4. /\ j.level \in 1..3 /\ j.pc \in Walking /\ j.v \in Done(j) /\ Promise(j.req, j.v)
      /\ ReachedAt(j.req, j.v) = j.level
  BY <1>1, CallbackPlace, FirstPage, CallbackPages
<1>5. j \in Job /\ j.v \in Pages /\ S \in Spaces /\ S # j.req.space /\ S \in Touched(j.req)
  BY <1>1, <1>4, WalkingFacts, JobTypes DEF Touched, ProgressOK
<1>6. L \in j.level..3 /\ L \in 1..3 /\ L \in Levels
  BY <1>1, <1>3, <1>4 DEF Promise, FitsSource, ReachedIn, Mapped, Levels
<1>7. e.present /\ e.addr \in Nat /\ (e.ps => e.addr \notin Frames)
  BY <1>3, <1>5, <1>6, EntryShape, ZeroEntry
<1>8. L > 1 => e.ps
  BY <1>3, <1>5, <1>6, LeafLevels DEF TreeInv, TypeInv
<1>9. j.level > 1 => ~IsTable(e)
  BY <1>4, <1>6, <1>8 DEF IsTable
<1>11. ASSUME NEW w \in Done(j)
       PROVE  w \in Pages /\ LeafLevel(S, w) = L /\ Mapped(S, w) /\ Leaf(S, w) = e
  <2>1. w \in Pages /\ SamePath(j.level, j.v, w)
    BY <1>1, CallbackPages
  <2>2. SamePath(L, j.v, w)
    BY <1>4, <1>6, <2>1 DEF SamePath, Levels
  <2> QED BY <1>3, <1>5, <2>1, <2>2, LeafShared DEF TreeInv, TypeInv
<1> HIDE DEF L
<1> QED BY <1>2, <1>5, <1>6, <1>7, <1>9, <1>11 DEF L

LEMMA TreeCloneNothing ==
  ASSUME TreeInv, TypeInv', NEW t \in Threads, CloneNothing(t)
  PROVE  TreeInv'
<1> DEFINE J == job[t]
<1>0. PICK j : j = J
  OBVIOUS
<1> HIDE DEF J
<1>1. /\ job[t] # NoJob /\ job[t].pc = "callback" /\ j.req.op = "clone" /\ j = job[t]
      /\ UNCHANGED <<mem, free, root>> /\ Advance(t, j.phys)
  BY <1>0 DEF CloneNothing, InCallback, J
<1>0a. job[t].pc \in Calling
  BY <1>1 DEF Calling
<1>0b. Windows
  BY <1>0a, <1>1, WindowsOutside
<1>2. TypeOK /\ TypeOK'
  BY DEF TreeInv, TypeInv
<1>3. /\ \A s \in Spaces, v \in Pages : Quiet(s, v)
      /\ \A a : NoNewUser(a)
  BY <1>0b, <1>1, <1>2, NothingWritten
<1>4. NoneInTheWay
  BY <1>3 DEF NoneInTheWay
<1>5. Apart' /\ JobsInv'
  BY <1>0a, <1>1, <1>3, <1>4, CallbackJobs
<1>6. TreeShape' /\ NoLeak' /\ EntriesOK'
  BY <1>0b, <1>1, SameTrees DEF TreeInv, Windows
<1> QED BY <1>5, <1>6 DEF TreeInv

LEMMA TreeClone ==
  ASSUME TreeInv, TypeInv', NEW t \in Threads, CloneCallback(t)
  PROVE  TreeInv'
<1> DEFINE J == job[t]
<1>0. PICK j : j = J
  OBVIOUS
<1> HIDE DEF J
<1>1. /\ job[t] # NoJob /\ job[t].pc = "callback" /\ j.req.op = "clone" /\ j = job[t]
      /\ UNCHANGED <<free, root>> /\ InCallback(t, "clone") /\ job[t].pc \in Calling
  BY <1>0 DEF CloneCallback, InCallback, Calling, J
<1>2. PICK e \in SourceEntries(j) :
        IF e = Wild THEN job' = [job EXCEPT ![t].pc = "wild"] /\ UNCHANGED mem
        ELSE e.addr # 0 /\ Current(j) = Zero /\ SetEntry(j, e) /\ Advance(t, j.phys)
  BY <1>0 DEF CloneCallback, J
<1>3. CASE e = Wild
  <2>1. job' = [job EXCEPT ![t] = [j EXCEPT !.pc = "wild"]] /\ UNCHANGED <<mem, free, root>>
    BY <1>1, <1>2, <1>3
  <2>2. j \in Job
    BY <1>1 DEF TreeInv, TypeInv, TypeOK
  <2> DEFINE pc == "wild"
  <2> DEFINE k == [j EXCEPT !.pc = pc]
  <2>3. k = JobAt(j, pc, j.level, j.table, j.index) /\ job' = [job EXCEPT ![t] = k]
    BY <2>1, <2>2, PcMove
  <2>4. pc \notin Walking /\ pc # "clear"
    BY DEF Walking, Calling
  <2>5. UNCHANGED <<mem, free, root>> /\ job[t].pc # "clear"
    BY <1>1, <2>1
  <2> HIDE DEF k, pc
  <2> QED BY <1>1, <2>3, <2>4, <2>5, OwnMove
<1>4. CASE e # Wild
  <2>1. e.addr # 0 /\ Current(j) = Zero /\ SetEntry(j, e) /\ Advance(t, j.phys)
    BY <1>2, <1>4
  <2>2. /\ e.present /\ e.addr \in Nat /\ (j.level > 1 => ~IsTable(e))
        /\ e.ps => e.addr \notin Frames
        /\ j.req.src \in Spaces /\ j.req.src \in Touched(j.req)
        /\ \A w \in Done(j) :
              /\ w \in Pages
              /\ LeafLevel(j.req.src, w) \in j.level..3
              /\ Mapped(j.req.src, w) /\ Leaf(j.req.src, w) = e
    BY <1>1, <1>4, <2>1, CloneFacts
  <2>3. j.v \in Done(j)
    BY <1>1, FirstPage
  <2>9. ~Dropped(j.req.src, j.v)
    <3> SUFFICES ASSUME NEW u \in Clearing, job[u].req.space = j.req.src PROVE FALSE
      BY DEF Dropped
    <3>1. u \in Threads /\ u # t /\ job[u] # NoJob
      BY <1>1 DEF Clearing
    <3>2. Touched(j.req) \intersect Touched(job[u].req) = {}
      BY <1>1, <3>1 DEF TreeInv, Apart
    <3> QED BY <2>2, <3>2 DEF Touched
  <2>10. j.v \in Pages /\ (e.addr \in Frames => IsFly(j.req.src, j.v))
    BY <2>2, <2>3, <2>9 DEF IsFly
  <2>4. FromItsOwn(j, e)
    BY <2>2, <2>3, <2>10 DEF FromItsOwn
  <2>5. SameFrames(j, e)
    <3>1. ASSUME e.addr \in Frames PROVE e.addr \in FlyPages
      <4>1. ~e.ps
        BY <2>2, <3>1
      <4>2. LeafLevel(j.req.src, j.v) = 1
        <5>1. LeafLevel(j.req.src, j.v) \in 1..3
          BY <1>1, <2>2, <2>3, CallbackPlace
        <5> QED BY <2>2, <2>3, <2>10, <4>1, <5>1, LeafLevels DEF TreeInv, TypeInv, Leaf
      <4> QED BY <2>2, <2>3, <2>10, <3>1, <4>2, FlyInPages
    <3> QED BY <2>1, <3>1, ZeroEntry DEF SameFrames
  <2>6. TypeOK'
    BY DEF TypeInv
  <2>7. TreeShape' /\ NoLeak'
    BY <1>1, <2>1, <2>2, <2>5, <2>6, PagesStay
  <2>8. j.req.op # "flyUnmap" /\ j.req.op # "map" /\ UNCHANGED root
    BY <1>1
  <2> QED BY <1>1, <2>1, <2>2, <2>4, <2>7, <2>8, CallbackKeeps
<1> QED BY <1>3, <1>4

-----------------------------------------------------------------------------
(* The theorems *)

LEMMA TreeNext ==
  ASSUME Serialised, NoThirdBit, TreeInv, [Next]_vars
  PROVE  TreeInv'
<1>0. TypeInv'
  BY NextTypes DEF TreeInv
<1>1. ASSUME NEW s \in Spaces, CreatePageTables(s) PROVE TreeInv'
  BY <1>0, <1>1, TreeCreate
<1>2. ASSUME NEW t \in Threads, Call(t) PROVE TreeInv'
  BY <1>0, <1>2, TreeCall
<1>3. ASSUME NEW t \in Threads, Work(t) PROVE TreeInv'
  <2>1. CASE Look(t)
    BY <1>0, <2>1, TreeLook
  <2>2. CASE MakeTable(t)
    BY <1>0, <2>2, TreeMake
  <2>3. CASE Down(t)
    BY <1>0, <2>3, TreeDown
  <2>4. CASE OutOfMemory(t)
    BY <1>0, <2>4, TreeFail DEF OutOfMemory, InCallback
  <2>5. CASE Return(t)
    BY <1>0, <2>5, TreeReturn
  <2>6. CASE MapCallback(t)
    BY <1>0, <2>6, TreeMap
  <2>7. CASE UnmapCallback(t)
    BY <1>0, <2>7, TreeUnmap
  <2>8. CASE FlyMapCallback(t)
    BY <1>0, <2>8, TreeFlyMap
  <2>9. CASE FlyUnmapFree(t)
    BY <1>0, <2>9, TreeFlyUnmapFree
  <2>14. CASE FlyUnmapClear(t)
    BY <1>0, <2>14, TreeFlyUnmapClear
  <2>10. CASE SetAttrCallback(t)
    BY <1>0, <2>10, TreeSetAttr
  <2>11. CASE CloneNothing(t)
    BY <1>0, <2>11, TreeCloneNothing
  <2>12. CASE CloneRefused(t)
    BY <1>0, <2>12, TreeFail DEF CloneRefused, InCallback
  <2>13. CASE CloneCallback(t)
    BY <1>0, <2>13, TreeClone
  <2> QED BY <1>3, <2>1, <2>2, <2>3, <2>4, <2>5, <2>6, <2>7, <2>8, <2>9, <2>10, <2>11, <2>12,
             <2>13, <2>14 DEF Work
<1>4. CASE UNCHANGED vars
  <2>1. UNCHANGED <<mem, free, root, pcid, job>>
    BY <1>4 DEF vars
  <2>6. Windows
    BY <2>1 DEF Windows, Released, SameWindow, Dropped, Clearing
  <2>2. TreeShape' /\ NoLeak' /\ EntriesOK'
    BY <2>1, <2>6, SameTrees DEF TreeInv, Windows
  <2>3. /\ \A s \in Spaces, v \in Pages : Quiet(s, v) /\ SameWindow(s, v)
        /\ \A a : NoNewUser(a)
    BY <1>0, <2>1, <2>6, NothingWritten DEF TreeInv, TypeInv, Windows
  <2>4. ASSUME NEW t \in Threads, job'[t] # NoJob PROVE JobInv(job[t])'
    <3>1. PICK k : k = job[t]
      OBVIOUS
    <3>2. k \in Job /\ JobOK(k) /\ JobInv(k)
      BY <2>1, <2>4, <3>1 DEF TreeInv, TypeInv, TypeOK, JobsOK, JobsInv
    <3>3. Touched(k.req) \subseteq Spaces
      BY <3>2, JobTypes DEF Touched
    <3>4. JobInv(k)'
      BY <1>0, <2>3, <3>2, <3>3, JobKept DEF TreeInv, TypeInv
    <3> QED BY <2>1, <3>1, <3>4
         DEF JobInv, ProgressOK, WalkOK, Rest, Promise, Iteration, Target
  <2>5. Apart'
    BY <2>1 DEF TreeInv, Apart, Touched
  <2> QED BY <1>0, <2>2, <2>4, <2>5 DEF TreeInv, JobsInv
<1> QED BY <1>1, <1>2, <1>3, <1>4 DEF Next

\* pager.c takes no lock.  As long as its callers never have two requests work on one
\* space (Serialised), the page tables of the spaces are disjoint trees: get_page_table
\* never links a table twice or below itself, and no frame of the allocator's, and no
\* page that was mapped on the fly, is a table.  (A frame may be a table again while the
\* entry it was mapped by is about to be cleared.)
THEOREM TablesFormTrees ==
  ASSUME Serialised, NoThirdBit
  PROVE  Spec => []TreeShape
<1>1. TreeInv /\ [Next]_vars => TreeInv'
  BY TreeNext
<1>2. TreeInv => TreeShape
  BY DEF TreeInv
<1> QED BY TreeInit, <1>1, <1>2, PTL DEF Spec

\* A frame that pmm_alloc gave to the pager is a table or is mapped on the fly, whatever
\* fails on the way: get_page_table links the table it allocates, no callback overwrites
\* the last entry of such a page, and pager_fly_unmap_callback gives a page back before it
\* clears its entry.  Between the two the page is free and still mapped: the entries about
\* to be cleared (Clearing) are the only ones NoLeak and TreeShape leave out.
THEOREM NoFrameIsLost ==
  ASSUME Serialised, NoThirdBit
  PROVE  Spec => []NoLeak
<1>1. TreeInv /\ [Next]_vars => TreeInv'
  BY TreeNext
<1>2. TreeInv => NoLeak
  BY DEF TreeInv
<1> QED BY TreeInit, <1>1, <1>2, PTL DEF Spec

-----------------------------------------------------------------------------
(* What the callbacks enter *)

\* Operation by operation: the entry e that the callback of job j writes.
Entered(j, e) ==
  \/ /\ j.req.op = "map"
     /\ e.present /\ e.addr = j.phys /\ e.rights = LeafBits(j).rights
  \/ /\ j.req.op \in {"unmap", "flyUnmap"}
     /\ e = Zero
  \/ /\ j.req.op = "flyMap"
     /\ e.present /\ e.addr \in free /\ e.addr \in Frames /\ e.rights = LeafBits(j).rights
     /\ j.level = 1
  \/ /\ j.req.op = "setAttr"
     /\ e.present /\ e.addr = Current(j).addr /\ e.rights = LeafBits(j).rights
     /\ Current(j).present
  \/ /\ j.req.op = "clone"
     /\ e.present /\ e.addr # 0 /\ Current(j) = Zero
     /\ j.req.src \in Spaces /\ j.req.src # j.req.space
     /\ \A w \in Done(j) :
          /\ w \in Pages
          /\ LeafLevel(j.req.src, w) \in j.level..3
          /\ Mapped(j.req.src, w) /\ Leaf(j.req.src, w) = e

Writes(t) ==
  \/ MapCallback(t) \/ UnmapCallback(t) \/ FlyMapCallback(t) \/ FlyUnmapClear(t)
  \/ SetAttrCallback(t) \/ CloneCallback(t)

\* A write of a callback, with what goes with it.
Serves(t, j, e, phys) ==
  /\ SetEntry(j, e) /\ Entered(j, e)
  /\ j.level > 1 => ~IsTable(e)
  /\ e = Zero \/ (e.present /\ e.addr \in Nat)
  /\ e.ps => e.addr \notin Frames
  /\ Advance(t, phys) /\ phys \in Int
  /\ UNCHANGED <<root, pcid>>

\* The walk of a clone through a handle with a PCID in it.
Strays(t, j) ==
  /\ j.req.op = "clone"
  /\ pcid[j.req.src] # 0
  /\ UNCHANGED <<mem, free, root, pcid>>
  /\ job' = [job EXCEPT ![t] = JobAt(j, "wild", j.level, j.table, j.index)]

LEMMA WhatIsEntered ==
  ASSUME TreeInv, NEW t \in Threads, Writes(t), NEW j, j = job[t]
  PROVE  /\ job[t] # NoJob /\ job[t].pc \in Calling
         /\ (\E e, phys : Serves(t, j, e, phys)) \/ Strays(t, j)
<1>1. job[t] # NoJob /\ job[t].pc \in Calling /\ UNCHANGED <<root, pcid>>
  BY DEF Writes, MapCallback, UnmapCallback, FlyMapCallback, FlyUnmapClear, SetAttrCallback,
         CloneCallback, InCallback, Calling, Clearing
<1>2. /\ j.level = Target(j) /\ j.v \in Done(j) /\ Promise(j.req, j.v) /\ j.pc \in Walking
      /\ Current(j) = Zero \/ (Current(j).present /\ Current(j).addr \in Nat)
      /\ j.level > 1 => ~IsTable(Current(j))
      /\ j.table \in Tables /\ Index(j.level, j.v) \in Slots
      /\ Current(j) = mem[j.table][Index(j.level, j.v)]
  BY <1>1, CallbackPlace, FirstPage
<1>3. /\ j \in Job /\ ProgressOK(j) /\ j.req \in Requests /\ j.v \in Pages /\ Aligned(j.req)
      /\ j.phys \in Int /\ Target(j) \in 1..3
  BY <1>1, <1>2, WalkingFacts, JobTypes
<1>4. CASE MapCallback(t)
  <2>1. PICK e : e = [At(j.phys, LeafBits(j)) EXCEPT !.rights = @ \union j.req.low]
    OBVIOUS
  <2>2. SetEntry(j, e) /\ Advance(t, j.phys) /\ j.req.op = "map"
    BY <1>4, <2>1 DEF MapCallback, InCallback
  <2>3. j.req.low = {}
    BY <1>3, <2>2 DEF Aligned
  <2>4. e.present /\ e.addr = j.phys /\ (j.level > 1 => ~IsTable(e)) /\ e.rights = LeafBits(j).rights
    <3>1. PICK d : d = At(j.phys, LeafBits(j))
      OBVIOUS
    <3>2. /\ d.present /\ d.addr = j.phys /\ (j.level > 1 => ~IsTable(d))
          /\ d.rights = LeafBits(j).rights
      BY <1>2, <1>3, <3>1, LeafEntry
    <3>3. e.present = d.present /\ e.addr = d.addr /\ e.ps = d.ps /\ e.rights = d.rights
      BY <2>1, <2>3, <3>1 DEF At, LeafBits, GetEntryBits
    <3> QED BY <3>2, <3>3 DEF IsTable
  <2>5. j.phys \in Nat
    <3> DEFINE a == j.req.phys
    <3> DEFINE b == j.v
    <3> DEFINE c == j.req.v
    <3>1. a \in Nat /\ b \in Nat /\ c \in Nat /\ b >= c /\ j.phys = a + (b - c)
      BY <1>3, <2>2, RequestFacts, PageFacts DEF ProgressOK
    <3> HIDE DEF a, b, c
    <3>2. a + (b - c) \in Nat
      BY ONLY <3>1
    <3> QED BY <3>1, <3>2
  <2>6. j.phys \notin Frames
    <3>1. j.phys = j.req.phys + (j.v - j.req.v)
      BY <1>3, <2>2 DEF ProgressOK
    <3> QED BY <1>2, <2>2, <3>1 DEF Promise
  <2>7. Serves(t, j, e, j.phys)
    BY <1>1, <1>3, <2>2, <2>4, <2>5, <2>6 DEF Serves, Entered
  <2> QED BY <1>1, <2>7
<1>5. CASE UnmapCallback(t) \/ FlyUnmapClear(t)
  <2>4. Current(j).addr \in Int
    BY <1>2, ZeroEntry
  <2>1. PICK phys : Advance(t, phys) /\ phys \in Int
    BY <1>3, <1>5, <2>4 DEF UnmapCallback, FlyUnmapClear
  <2>2. SetEntry(j, Zero)
    BY <1>5 DEF UnmapCallback, FlyUnmapClear
  <2>5. j.req.op \in {"unmap", "flyUnmap"}
    <3>1. FlyUnmapClear(t) => j.req.op = "flyUnmap"
      BY ClearingFacts DEF FlyUnmapClear
    <3> QED BY <1>5, <3>1 DEF UnmapCallback, InCallback
  <2>3. Serves(t, j, Zero, phys)
    BY <1>1, <1>3, <2>1, <2>2, <2>5, ZeroEntry DEF Serves, Entered
  <2> QED BY <1>1, <2>3
<1>6. CASE FlyMapCallback(t)
  <2>1. PICK f \in PmmOffers(free) : SetEntry(j, At(f, LeafBits(j)))
    BY <1>6 DEF FlyMapCallback
  <2>2. Advance(t, j.phys) /\ j.req.op = "flyMap"
    BY <1>6 DEF FlyMapCallback, InCallback
  <2>3. f \in free /\ f \in Frames /\ f \in Nat /\ f \in Int
    <3>1. f \in free /\ f \in Frames
      BY PmmAssumption DEF TreeInv, TypeInv, TypeOK
    <3> QED BY <3>1, PagerAssumption
  <2>4. PICK e : e = At(f, LeafBits(j))
    OBVIOUS
  <2>6. j.level = 1
    BY <1>2, <2>2 DEF Target, CallbackLevel, Only4K
  <2>5. e.present /\ e.addr = f /\ e.rights = LeafBits(j).rights /\ ~e.ps
    <3>1. e.present /\ e.addr = f /\ e.rights = LeafBits(j).rights /\ (e.ps <=> j.level > 1)
      BY <1>2, <1>3, <2>3, <2>4, LeafEntry
    <3> QED BY <2>6, <3>1
  <2>7. Serves(t, j, e, j.phys)
    BY <1>1, <1>3, <2>1, <2>2, <2>3, <2>4, <2>5, <2>6 DEF Serves, Entered
  <2> QED BY <1>1, <2>7
<1>7. CASE SetAttrCallback(t)
  <2>1. PICK e : e = At(Current(j).addr, LeafBits(j))
    OBVIOUS
  <2>2. SetEntry(j, e) /\ Advance(t, j.phys) /\ j.req.op = "setAttr"
    BY <1>7, <2>1 DEF SetAttrCallback, InCallback
  <2>3. Current(j).present
    BY <1>1, <1>2, <2>2, CallbackPages DEF Promise
  <2>4. /\ e.present /\ e.addr = Current(j).addr /\ (j.level > 1 => ~IsTable(e))
        /\ e.rights = LeafBits(j).rights /\ (e.ps <=> j.level > 1)
    <3>1. Current(j).addr \in Int
      BY <1>2, ZeroEntry
    <3> QED BY <1>2, <1>3, <2>1, <3>1, LeafEntry
  <2>5. e.addr \in Nat
    BY <1>2, <2>3, <2>4, ZeroEntry
  <2>6. e.ps => e.addr \notin Frames
    BY <1>2, <2>3, <2>4 DEF IsTable, TreeInv, EntriesOK
  <2>7. Serves(t, j, e, j.phys)
    BY <1>1, <1>3, <2>2, <2>3, <2>4, <2>5, <2>6 DEF Serves, Entered
  <2> QED BY <1>1, <2>7
<1>8. CASE CloneCallback(t)
  <2>1. PICK e \in SourceEntries(j) :
          IF e = Wild THEN job' = [job EXCEPT ![t].pc = "wild"] /\ UNCHANGED mem
          ELSE e.addr # 0 /\ Current(j) = Zero /\ SetEntry(j, e) /\ Advance(t, j.phys)
    BY <1>8 DEF CloneCallback
  <2>2. InCallback(t, "clone") /\ j.req.op = "clone" /\ UNCHANGED <<free, root, pcid>>
    BY <1>8 DEF CloneCallback, InCallback
  <2>3. CASE e = Wild
    <3>1. pcid[j.req.src] # 0
      <4> SUFFICES ASSUME pcid[j.req.src] = 0 PROVE FALSE
        OBVIOUS
      <4>1. e = IF Mapped(j.req.src, j.v) THEN Leaf(j.req.src, j.v) ELSE Zero
        BY <2>2, SourceFacts
      <4>3. j.req.src \in Spaces /\ TypeOK
        BY <1>3, JobTypes DEF TreeInv, TypeInv
      <4>2. Mapped(j.req.src, j.v) => LeafLevel(j.req.src, j.v) \in Levels
        BY <1>3, <4>3, LeafLevels DEF Mapped, Levels
      <4>4. e = Zero \/ e.addr \in Nat
        BY <1>3, <4>1, <4>2, <4>3, EntryShape DEF Leaf
      <4> QED BY <2>3, <4>4 DEF Wild, Zero
    <3>2. job' = [job EXCEPT ![t] = [j EXCEPT !.pc = "wild"]] /\ UNCHANGED mem
      BY <2>1, <2>3
    <3>3. [j EXCEPT !.pc = "wild"] = JobAt(j, "wild", j.level, j.table, j.index)
      BY <1>3, PcMove
    <3>4. Strays(t, j)
      BY <2>2, <3>1, <3>2, <3>3 DEF Strays
    <3> QED BY <1>1, <3>4
  <2>4. CASE e # Wild
    <3>1. e.addr # 0 /\ Current(j) = Zero /\ SetEntry(j, e) /\ Advance(t, j.phys)
      BY <2>1, <2>4
    <3>2. /\ e.present /\ e.addr \in Nat
          /\ j.level > 1 => ~IsTable(e)
          /\ e.ps => e.addr \notin Frames
          /\ j.req.src \in Spaces /\ j.req.src # j.req.space
          /\ \A w \in Done(j) :
              /\ w \in Pages
              /\ LeafLevel(j.req.src, w) \in j.level..3
              /\ Mapped(j.req.src, w) /\ Leaf(j.req.src, w) = e
      BY <2>2, <2>4, <3>1, CloneFacts
    <3>3. Entered(j, e)
      BY <2>2, <3>1, <3>2 DEF Entered
    <3>4. Serves(t, j, e, j.phys)
      BY <1>1, <1>3, <3>1, <3>2, <3>3 DEF Serves
    <3> QED BY <1>1, <3>4
  <2> QED BY <2>3, <2>4
<1> QED BY <1>4, <1>5, <1>6, <1>7, <1>8 DEF Writes

\* The other steps of a request write nothing, or make a table.
LEMMA OtherWork ==
  ASSUME NEW t \in Threads, Work(t)
  PROVE  \/ Writes(t)
         \/ MakeTable(t)
         \/ CloneNothing(t)
         \/ FlyUnmapFree(t)
         \/ /\ UNCHANGED <<mem, free, root, pcid>>
            /\ \/ Look(t) \/ Down(t) \/ Return(t)
               \/ job[t] # NoJob /\ Fail(t)
BY DEF Work, Writes, Look, Down, OutOfMemory, Return, CloneRefused, CloneNothing, Fail, InCallback

-----------------------------------------------------------------------------
(* Without PCIDs *)

\* The processor or the kernel has no PCIDs: pcid_allocate returns 0, or fails.
NoPcidsGiven == \A n \in PcidResults : n <= 0

NoPcids == \A s \in Spaces : pcid[s] = 0

LEMMA NoPcidsNext ==
  ASSUME NoPcidsGiven, TypeOK, NoPcids, [Next]_vars
  PROVE  NoPcids'
<1>1. ASSUME NEW s \in Spaces, CreatePageTables(s) PROVE NoPcids'
  <2>1. PICK n \in PcidResults : n >= 0 /\ pcid' = [pcid EXCEPT ![s] = n]
    BY <1>1 DEF CreatePageTables
  <2>2. n \in Int /\ n <= 0
    BY PagerAssumption DEF NoPcidsGiven
  <2>3. n = 0
    BY <2>1, <2>2
  <2> QED BY <2>1, <2>3 DEF NoPcids, TypeOK
<1>2. ASSUME NEW t \in Threads, Call(t) \/ Work(t) PROVE NoPcids'
  <2>1. UNCHANGED pcid
    BY <1>2 DEF Call, Work, Look, MakeTable, Down, OutOfMemory, Fail, Return, MapCallback,
           UnmapCallback, FlyMapCallback, FlyUnmapFree, FlyUnmapClear, SetAttrCallback,
           CloneNothing, CloneRefused, CloneCallback
  <2> QED BY <2>1 DEF NoPcids
<1>3. CASE UNCHANGED vars
  BY <1>3 DEF vars, NoPcids
<1> QED BY <1>1, <1>2, <1>3 DEF Next

NotWild == NoPcids /\ NoWildWalk

LEMMA NotWildNext ==
  ASSUME NoPcidsGiven, TreeInv, TypeInv', NotWild, [Next]_vars
  PROVE  NotWild'
<1>1. NoPcids'
  BY NoPcidsNext DEF TreeInv, TypeInv, NotWild
<1>2. job \in [Threads -> Job \union {NoJob}]
  BY DEF TreeInv, TypeInv, TypeOK
<1> SUFFICES NoWildWalk'
  BY <1>1 DEF NotWild
<1>3. ASSUME NEW t \in Threads, NEW k, job'[t] = k, k # NoJob => k.pc # "wild",
             \A u \in Threads \ {t} : job'[u] = job[u]
      PROVE  NoWildWalk'
  BY <1>3 DEF NotWild, NoWildWalk
<1>4. ASSUME NEW s \in Spaces, CreatePageTables(s) PROVE NoWildWalk'
  BY <1>4 DEF CreatePageTables, NotWild, NoWildWalk
<1>5. ASSUME NEW t \in Threads, Call(t) PROVE NoWildWalk'
  <2>1. PICK r \in Requests : job' = [job EXCEPT ![t] =
            [req |-> r, v |-> r.v, phys |-> IF r.op = "map" THEN r.phys ELSE 0,
             left |-> r.size, pc |-> IF r.size = 0 THEN "done" ELSE "look", level |-> 4,
             table |-> root[r.space], index |-> [l \in Levels |-> 0]]]
    BY <1>5 DEF Call
  <2> DEFINE k == [req |-> r, v |-> r.v, phys |-> IF r.op = "map" THEN r.phys ELSE 0,
                   left |-> r.size, pc |-> IF r.size = 0 THEN "done" ELSE "look", level |-> 4,
                   table |-> root[r.space], index |-> [l \in Levels |-> 0]]
  <2>2. k.pc # "wild" /\ job' = [job EXCEPT ![t] = k]
    BY <2>1
  <2> HIDE DEF k
  <2> QED BY <1>2, <1>3, <2>2
<1>6. ASSUME NEW t \in Threads, Look(t) PROVE NoWildWalk'
  <2> DEFINE j == job[t]
  <2>1. j \in Job /\ j # NoJob
    BY <1>2, <1>6 DEF Look
  <2> DEFINE n == Index(j.level, j.v)
  <2> DEFINE pc == IF j.level = Target(j) THEN "callback"
                   ELSE IF mem[j.table][n].present THEN "down" ELSE "make"
  <2>2. job' = [job EXCEPT ![t] = [j EXCEPT !.index[j.level] = n, !.pc = pc]]
    BY <1>6 DEF Look
  <2>3. pc # "wild"
    OBVIOUS
  <2> HIDE DEF n, pc
  <2>4. PICK k : k = [j EXCEPT !.index[j.level] = n, !.pc = pc]
    OBVIOUS
  <2>5. k = JobAt(j, pc, j.level, j.table, [j.index EXCEPT ![j.level] = n])
    BY <2>1, <2>4, LookMove
  <2>6. k.pc = pc
    BY <2>5 DEF JobAt
  <2>7. job' = [job EXCEPT ![t] = k] /\ k.pc # "wild"
    BY <2>2, <2>3, <2>4, <2>6
  <2> QED BY <1>2, <1>3, <2>7
<1>7. ASSUME NEW t \in Threads, NEW pc, pc # "wild", job[t] # NoJob, job' = [job EXCEPT ![t].pc = pc]
      PROVE  NoWildWalk'
  <2>1. job[t] \in Job
    BY <1>2, <1>7
  <2>2. PICK k : k = [job[t] EXCEPT !.pc = pc] /\ job' = [job EXCEPT ![t] = k]
    BY <1>7
  <2>3. k = JobAt(job[t], pc, job[t].level, job[t].table, job[t].index)
    BY <2>1, <2>2, PcMove
  <2>4. k.pc = pc
    BY <2>3 DEF JobAt
  <2>5. job' = [job EXCEPT ![t] = k] /\ k.pc # "wild"
    BY <1>7, <2>2, <2>4
  <2> QED BY <1>2, <1>3, <2>5
<1>8. ASSUME NEW t \in Threads, Down(t) PROVE NoWildWalk'
  <2> DEFINE j == job[t]
  <2> DEFINE e == Current(job[t])
  <2>1. j \in Job /\ j # NoJob /\ j.pc = "down"
    BY <1>2, <1>8 DEF Down
  <2>2. IsTable(e) /\ e.addr \in Frames
    BY <2>1, DownFacts
  <2>3. PICK k : /\ job' = [job EXCEPT ![t] = k]
                 /\ k = [j EXCEPT !.pc = "look", !.level = @ - 1, !.table = e.addr]
    BY <1>8, <2>2 DEF Down
  <2>4. k = JobAt(j, "look", j.level - 1, e.addr, j.index)
    <3> HIDE DEF e
    <3> QED BY <2>1, <2>3, DownMove
  <2>5. k.pc # "wild"
    BY <2>4 DEF JobAt
  <2>6. job' = [job EXCEPT ![t] = k]
    BY <2>3
  <2> QED BY <1>2, <1>3, <2>5, <2>6
<1>9. ASSUME NEW t \in Threads, Return(t) PROVE NoWildWalk'
  BY <1>9 DEF Return, NotWild, NoWildWalk, TreeInv, TypeInv, TypeOK
<1>10. ASSUME NEW t \in Threads, NEW phys, job[t] # NoJob, job[t].pc \in Calling, Advance(t, phys)
       PROVE  NoWildWalk'
  <2>1. PICK k : /\ job'[t] = k /\ \A u \in Threads \ {t} : job'[u] = job[u]
                 /\ k.pc \in {"done", "look"}
    BY <1>10, AdvanceFacts
  <2> QED BY <1>3, <2>1
<1>11. ASSUME NEW t \in Threads, Work(t) PROVE NoWildWalk'
  <2>1. CASE Writes(t)
    <3>1. PICK j : j = job[t]
      OBVIOUS
    <3>2. j \in Job /\ job[t] # NoJob /\ job[t].pc \in Calling
      BY <1>2, <2>1, <3>1, WhatIsEntered
    <3>3. ~Strays(t, j)
      BY <3>2, JobTypes DEF Strays, NotWild, NoPcids
    <3> QED BY <1>10, <2>1, <3>1, <3>2, <3>3, WhatIsEntered DEF Serves
  <2>2. CASE MakeTable(t)
    <3>1. job[t] # NoJob /\ job' = [job EXCEPT ![t].pc = "down"]
      BY <2>2 DEF MakeTable
    <3> QED BY <1>7, <3>1
  <2>3. CASE CloneNothing(t)
    BY <1>10, <2>3 DEF CloneNothing, InCallback, Calling
  <2>4. CASE job[t] # NoJob /\ Fail(t)
    <3>1. job[t] # NoJob /\ job' = [job EXCEPT ![t].pc = "failed"]
      BY <2>4 DEF Fail
    <3> QED BY <1>7, <3>1
  <2>5. CASE FlyUnmapFree(t)
    <3>1. job[t] # NoJob /\ job' = [job EXCEPT ![t].pc = "clear"]
      BY <2>5 DEF FlyUnmapFree, InCallback
    <3> QED BY <1>7, <3>1
  <2> QED BY <1>6, <1>8, <1>9, <1>11, <2>1, <2>2, <2>3, <2>4, <2>5, OtherWork
<1>12. CASE UNCHANGED vars
  BY <1>12 DEF vars, NotWild, NoWildWalk
<1> QED BY <1>4, <1>5, <1>11, <1>12 DEF Next

\* Where no PCID is given out, every walk of pager_traverse and of pager_clone_callback
\* finds tables where it looks for them.  With PCIDs the clone's walk of its source starts
\* at the handle, PCID and all, and reads what is no table.
THEOREM WalksFindTables ==
  ASSUME Serialised, NoThirdBit, NoPcidsGiven
  PROVE  Spec => []NoWildWalk
<1>1. TreeInv /\ [Next]_vars => TreeInv'
  BY TreeNext
<1>2. Init => NotWild
  BY DEF Init, NotWild, NoPcids, NoWildWalk
<1>3. TreeInv /\ TreeInv' /\ NotWild /\ [Next]_vars => NotWild'
  BY NotWildNext DEF TreeInv
<1>4. NotWild => NoWildWalk
  BY DEF NotWild
<1> QED BY TreeInit, <1>1, <1>2, <1>3, <1>4, PTL DEF Spec

-----------------------------------------------------------------------------
(* The rights of directories *)

\* Nobody asks for ARC_PAGER_AUTO_USRW_DISABLE.
NoAutoDisable == \A r \in Requests : AutoDisable(r) = 0

OpenDirectories == \A g, n : <<g, n>> \in Directories => {"write", "user"} \subseteq mem[g][n].rights

LEMMA OpenNext ==
  ASSUME NoThirdBit, NoAutoDisable, TreeInv, TypeInv', OpenDirectories, [Next]_vars
  PROVE  OpenDirectories'
<1>1. TypeOK /\ TypeOK' /\ TreeShape /\ NoLeak /\ EntriesOK
  BY DEF TreeInv, TypeInv
<1>2. \A g, n : <<g, n>> \in Directories <=>
        n \in Slots /\ IsTable(mem[g][n]) /\ \E l \in 2..4 : g \in TablesAt(l)
  BY TreeSlotsNow DEF TreeSlots
<1>3. \A g, n : <<g, n>> \in Directories' <=>
        n \in Slots /\ IsTable(mem'[g][n]) /\ \E l \in 2..4 : g \in TablesAt(l)'
  BY TreesNext DEF TreeSlots, IsTable
<1>4. ASSUME NEW s \in Spaces, CreatePageTables(s) PROVE OpenDirectories'
  <2>1. PICK f \in PmmOffers(free) :
        /\ free' = free \ {f}
        /\ mem' = [mem EXCEPT ![f] = [x \in Slots |-> Zero]]
        /\ root' = [root EXCEPT ![s] = f]
        /\ root[s] = NoFrame
    BY <1>4 DEF CreatePageTables
  <2>2. f \in free /\ f \in Frames /\ f \notin Tables
    BY <1>1, PmmAssumption DEF TypeOK, TreeShape
  <2>3. /\ root \in [Spaces -> Frames \union {NoFrame}]
        /\ \A g \in Tables : mem'[g] = mem[g]
        /\ \A m \in Slots : mem'[f][m] = Zero
    BY <1>1, <2>1, <2>2 DEF TypeOK
  <2>4. \A l \in 2..4 : \A g \in TablesAt(l)', m \in Slots :
          IsTable(mem'[g][m]) => g \in TablesAt(l) /\ mem'[g][m] = mem[g][m]
    <3>1. Released' = Released
      BY <1>4 DEF CreatePageTables, Released, Clearing
    <3> QED BY <1>1, <2>1, <2>2, <2>3, <3>1, TreePlanted
  <2> QED BY <1>2, <1>3, <2>4 DEF OpenDirectories
<1>5. ASSUME NEW t \in Threads, MakeTable(t) PROVE OpenDirectories'
  <2>1. PICK j : j = job[t]
    OBVIOUS
  <2>2. /\ job[t] # NoJob /\ job[t].pc \in Walking /\ j.level \in 2..4
        /\ EntryAt(j.level, j.req.space, j.v) = Zero /\ Target(j) < j.level
        /\ Index(j.level, j.v) \in Slots /\ Target(j) \in 1..3
    BY <1>5, <2>1, MakeFacts
  <2>3. PICK e \in Entry : /\ Wrote(j.table, Index(j.level, j.v), e)
                           /\ e = At(e.addr, GetEntryBits(j.level, Target(j), j.req))
                           /\ IsTable(e) /\ e.addr \in Frames /\ e.addr \in free
                           /\ \A m \in Slots : mem'[e.addr][m] = Zero
    BY <1>5, <2>1, MakeFacts
  <2>4. /\ j.req.space \in Spaces /\ j.v \in Pages /\ j.table # NoFrame /\ j.req \in Requests
        /\ j.table = TableAt(j.level, j.req.space, j.v) /\ j.table \in TablesAt(j.level)
    BY <2>1, <2>2, WalkingFacts
  <2>5. ~IsTable(mem[j.table][Index(j.level, j.v)])
    <3>1. mem[j.table][Index(j.level, j.v)] = Zero
      BY <2>2, <2>4, WalkSteps DEF Levels
    <3> QED BY <3>1, ZeroEntry
  <2>6. e.addr \notin Tables
    BY <1>1, <2>3 DEF TreeShape
  <2>7. \A l \in 2..4 : \A g \in TablesAt(l)', m \in Slots :
              IsTable(mem'[g][m]) => \/ g \in TablesAt(l) /\ mem'[g][m] = mem[g][m]
                                     \/ g = j.table /\ m = Index(j.level, j.v)
    <3>1. Released' = Released
      BY <1>1, <1>5, MakeWindows DEF Windows
    <3> QED BY <1>1, <2>2, <2>3, <2>4, <2>5, <2>6, <3>1, TreesGrow
  <2>8. mem'[j.table][Index(j.level, j.v)] = e
    BY <2>3 DEF Wrote
  <2>9. {"write", "user"} \subseteq e.rights
    <3>1. AutoDisable(j.req) = 0 /\ j.level > 1 /\ j.level # Target(j)
      BY <2>2, <2>4 DEF NoAutoDisable
    <3>2. j.level > AutoDisable(j.req) + 1
      BY <3>1
    <3>3. e.rights = GetEntryBits(j.level, Target(j), j.req).rights
      <4>1. PICK d : d = GetEntryBits(j.level, Target(j), j.req)
        OBVIOUS
      <4>2. e = At(e.addr, d)
        BY <2>3, <4>1
      <4>3. d = [present |-> TRUE, ps |-> d.ps, addr |-> d.addr, rights |-> d.rights]
        BY <4>1 DEF GetEntryBits
      <4>4. At(e.addr, d).rights = d.rights
        BY <4>3 DEF At
      <4> QED BY <4>1, <4>2, <4>4
    <3> QED BY <3>1, <3>2, <3>3 DEF GetEntryBits
  <2> QED BY <1>2, <1>3, <2>7, <2>8, <2>9 DEF OpenDirectories
<1>6. ASSUME NEW t \in Threads, Writes(t) PROVE OpenDirectories'
  <2>1. PICK j : j = job[t]
    OBVIOUS
  <2>2. CASE \E e, phys : Serves(t, j, e, phys)
    <3>1. PICK e, phys : Serves(t, j, e, phys)
      BY <2>2
    <3>2. job[t] # NoJob /\ job[t].pc \in Calling
      BY <1>6, <2>1, WhatIsEntered
    <3>3. /\ Directories' = Directories
          /\ \A x \in Directories : mem'[x[1]][x[2]] = mem[x[1]][x[2]]
      BY <1>1, <2>1, <3>1, <3>2, CallbackTrees DEF Serves
    <3>4. \A g, n : <<g, n>> \in Directories => mem'[g][n] = mem[g][n]
      BY <3>3
    <3> QED BY <3>3, <3>4 DEF OpenDirectories
  <2>3. CASE Strays(t, j)
    BY <2>3, SameTables DEF Strays, OpenDirectories
  <2> QED BY <1>6, <2>1, <2>2, <2>3, WhatIsEntered
<1>7. ASSUME UNCHANGED <<mem, root>> PROVE OpenDirectories'
  BY <1>7, SameTables DEF OpenDirectories
<1>8. ASSUME NEW t \in Threads, Call(t) PROVE OpenDirectories'
  BY <1>7, <1>8 DEF Call
<1>9. ASSUME NEW t \in Threads, Work(t) PROVE OpenDirectories'
  BY <1>5, <1>6, <1>7, <1>9, OtherWork DEF CloneNothing, FlyUnmapFree
<1>10. CASE UNCHANGED vars
  BY <1>7, <1>10 DEF vars
<1> QED BY <1>4, <1>8, <1>9, <1>10 DEF Next

\* The entries above the one that maps a page are directory entries.
LEMMA AboveTheLeaf ==
  ASSUME TypeOK, NEW s \in Spaces, NEW v \in Pages, Mapped(s, v)
  PROVE  /\ LeafLevel(s, v) \in 1..3
         /\ EntryAt(LeafLevel(s, v), s, v).present
         /\ \A k \in Levels : k > LeafLevel(s, v) =>
              /\ IsTable(EntryAt(k, s, v)) /\ TableAt(k, s, v) # NoFrame
              /\ <<TableAt(k, s, v), Index(k, v)>> \in Directories
              /\ EntryAt(k, s, v) = mem[TableAt(k, s, v)][Index(k, v)]
<1> DEFINE L == LeafLevel(s, v)
<1>1. L \in 1..3 /\ EntryAt(L, s, v).present
  BY LeafLevels DEF Mapped
<1>2. ASSUME NEW k \in Levels, k > L
      PROVE  /\ IsTable(EntryAt(k, s, v)) /\ TableAt(k, s, v) # NoFrame
             /\ <<TableAt(k, s, v), Index(k, v)>> \in Directories
             /\ EntryAt(k, s, v) = mem[TableAt(k, s, v)][Index(k, v)]
  <2>1. L \in Levels /\ L < k /\ k \in 2..4
    BY <1>1, <1>2 DEF Levels
  <2> HIDE DEF L
  <2>2. IsTable(EntryAt(k, s, v))
    BY <1>1, <2>1, NothingBelow, ZeroEntry
  <2>3. TableAt(k, s, v) # NoFrame
    BY <2>2, WalkSteps, ZeroEntry
  <2>4. EntryAt(k, s, v) = mem[TableAt(k, s, v)][Index(k, v)]
    BY <2>3, WalkSteps
  <2>5. TableAt(k, s, v) \in TablesAt(k) /\ Index(k, v) \in Slots
    BY <2>3, OnTheWay, IndexFacts, PageFacts
  <2> QED BY <2>1, <2>2, <2>3, <2>4, <2>5, TreeSlotsNow DEF TreeSlots
<1> QED BY <1>1, <1>2

\* A translation, taken apart.
TranslateFact ==
  \A s, v : Mapped(s, v) =>
    /\ Translate(s, v).addr = Leaf(s, v).addr + (v % Span[LeafLevel(s, v)])
    /\ Translate(s, v).rights =
         {x \in Rights : \A l \in LeafLevel(s, v)..4 : x \in EntryAt(l, s, v).rights}
LEMMA TranslateNow == TranslateFact
BY DEF TranslateFact, Translate, PageAt, Leaf, EntryAt, LeafLevel, Mapped
LEMMA TranslateNext == TranslateFact'
BY TranslateNow, PTL

TranslateShape ==
  \A s, v : Translate(s, v) = IF Mapped(s, v) THEN PageAt(Walk(s, v), LeafLevel(s, v), v)
                                             ELSE Unmapped
LEMMA TranslateCases == TranslateShape
BY DEF TranslateShape, Translate, LeafLevel, Mapped
LEMMA TranslateCasesNext == TranslateShape'
BY TranslateCases, PTL

LEMMA OpenIsEffective == TypeOK /\ OpenDirectories => LeafRightsAreEffective
<1> SUFFICES ASSUME TypeOK, OpenDirectories, NEW s \in Spaces, NEW v \in Pages, Mapped(s, v),
                    NEW x \in Leaf(s, v).rights, x # "execute"
             PROVE  x \in Translate(s, v).rights
  BY DEF LeafRightsAreEffective
<1> DEFINE L == LeafLevel(s, v)
<1>1. /\ L \in 1..3
      /\ \A k \in Levels : k > L =>
           /\ <<TableAt(k, s, v), Index(k, v)>> \in Directories
           /\ EntryAt(k, s, v) = mem[TableAt(k, s, v)][Index(k, v)]
  BY AboveTheLeaf
<1>2. Leaf(s, v) = EntryAt(L, s, v) /\ EntryAt(L, s, v) \in Entry
  BY <1>1, WalkTypes DEF Leaf, Levels
<1>3. x \in Rights /\ x \in {"write", "user"}
  BY <1>2 DEF Entry, Rights
<1>4. ASSUME NEW k \in L..4 PROVE x \in Walk(s, v)[k].rights
  <2>1. k \in Levels /\ (k = L \/ k > L)
    BY <1>1, <1>4 DEF Levels
  <2> HIDE DEF L
  <2>2. CASE k = L
    BY <1>2, <2>2 DEF EntryAt
  <2>3. CASE k > L
    <3>1. {"write", "user"} \subseteq EntryAt(k, s, v).rights
      BY <1>1, <2>1, <2>3 DEF OpenDirectories
    <3> QED BY <1>3, <3>1 DEF EntryAt
  <2> QED BY <2>1, <2>2, <2>3
<1>5. Translate(s, v) = PageAt(Walk(s, v), L, v)
  BY TranslateCases DEF TranslateShape
<1> QED BY <1>3, <1>4, <1>5 DEF PageAt

\* get_entry_bits opens the directories whatever was asked for the page, so that the page's
\* own entry decides; it does so as long as nobody asks for ARC_PAGER_AUTO_USRW_DISABLE.
THEOREM DirectoriesGrantRights ==
  ASSUME Serialised, NoThirdBit, NoAutoDisable
  PROVE  Spec => []LeafRightsAreEffective
<1>1. TreeInv /\ [Next]_vars => TreeInv'
  BY TreeNext
<1>2. Init => OpenDirectories
  <2>1. ASSUME Init, NEW g, NEW n, <<g, n>> \in Directories PROVE FALSE
    <3>1. n \in Slots /\ IsTable(mem[g][n]) /\ \E l \in 2..4 : g \in TablesAt(l)
      BY <2>1, TreeSlotsNow DEF TreeSlots
    <3>2. g \in Frames
      BY <2>1, <3>1, TreeInit, TreeSlotsNow DEF TreeSlots, Levels, TreeInv, TreeShape
    <3>3. mem[g][n] = Zero
      BY <2>1, <3>1, <3>2 DEF Init
    <3> QED BY <3>1, <3>3, ZeroEntry
  <2> QED BY <2>1 DEF OpenDirectories
<1>3. TreeInv /\ TreeInv' /\ OpenDirectories /\ [Next]_vars => OpenDirectories'
  BY OpenNext DEF TreeInv
<1>4. TreeInv /\ OpenDirectories => LeafRightsAreEffective
  BY OpenIsEffective DEF TreeInv, TypeInv
<1> QED BY TreeInit, <1>1, <1>2, <1>3, <1>4, PTL DEF Spec

-----------------------------------------------------------------------------
(* Pages, step by step *)

\* Steps that leave every page of every space as it is.
LEMMA StepsAreSteady ==
  ASSUME NoThirdBit, TreeInv, TypeInv', NEW s \in Spaces, NEW v \in Pages,
         \/ \E x \in Spaces : CreatePageTables(x)
         \/ \E t \in Threads : MakeTable(t)
         \/ UNCHANGED <<mem, root>>
  PROVE  Steady(s, v)
<1>1. TypeOK /\ TypeOK' /\ TreeShape
  BY DEF TreeInv, TypeInv
<1>2. ASSUME NEW x \in Spaces, CreatePageTables(x) PROVE Steady(s, v)
  <2>1. PICK f \in PmmOffers(free) :
        /\ mem' = [mem EXCEPT ![f] = [n \in Slots |-> Zero]]
        /\ root' = [root EXCEPT ![x] = f]
        /\ root[x] = NoFrame
    BY <1>2 DEF CreatePageTables
  <2>2. f \in Frames /\ f \notin Tables
    BY <1>1, PmmAssumption DEF TypeOK, TreeShape
  <2>3. /\ \A g \in Tables : mem'[g] = mem[g]
        /\ \A m \in Slots : mem'[f][m] = Zero
    BY <1>1, <2>1, <2>2 DEF TypeOK
  <2> QED BY <1>1, <2>1, <2>2, <2>3, WalksPlanted
<1>3. ASSUME NEW t \in Threads, MakeTable(t) PROVE Steady(s, v)
  <2>1. PICK j : j = job[t]
    OBVIOUS
  <2> QED BY <1>3, <2>1, MakeSteady
<1>4. ASSUME UNCHANGED <<mem, root>> PROVE Steady(s, v)
  BY <1>1, <1>4, AllQuiet, QuietIsSteady
<1> QED BY <1>2, <1>3, <1>4

\* A callback leaves every page alone but its own.
ServedPages(j, e) ==
  /\ \A s \in Spaces, v \in Pages : s # j.req.space \/ v \notin Done(j) => Steady(s, v)
  /\ \A w \in Done(j) :
       /\ w \in Pages
       /\ LeafLevel(j.req.space, w)' = IF e.present THEN j.level ELSE 0
       /\ Mapped(j.req.space, w)' <=> e.present
       /\ e.present => Leaf(j.req.space, w)' = e
       /\ EntryAt(j.level, j.req.space, w)' = e

LEMMA ServesPages ==
  ASSUME TreeInv, TypeInv', NEW t \in Threads, job[t] # NoJob, job[t].pc \in Calling,
         NEW j, j = job[t], NEW e, NEW phys, Serves(t, j, e, phys)
  PROVE  ServedPages(j, e)
<1>1. TypeOK /\ TypeOK' /\ j.level \in 1..3
  BY CallbackPlace DEF TreeInv, TypeInv
<1>2. /\ \A s \in Spaces, v \in Pages : s # j.req.space \/ v \notin Done(j) => Quiet(s, v)
      /\ \A v \in Done(j) :
              /\ LeafLevel(j.req.space, v)' = IF e.present THEN j.level ELSE 0
              /\ EntryAt(j.level, j.req.space, v)' = e
  BY <1>1, CallbackWrites DEF Serves
<1>3. \A s \in Spaces, v \in Pages : s # j.req.space \/ v \notin Done(j) => Steady(s, v)
  BY <1>1, <1>2, QuietIsSteady
<1>4. ASSUME NEW w \in Done(j)
      PROVE  /\ w \in Pages
             /\ Mapped(j.req.space, w)' <=> e.present
             /\ e.present => Leaf(j.req.space, w)' = e
  <2>1. w \in Pages
    BY CallbackPages
  <2>2. Mapped(j.req.space, w)' <=> e.present
    BY <1>1, <1>2 DEF Mapped
  <2>3. e.present => Leaf(j.req.space, w)' = e
    BY <1>2 DEF Leaf
  <2> QED BY <2>1, <2>2, <2>3
<1> QED BY <1>2, <1>3, <1>4 DEF ServedPages

\* Every step is one of these.
LEMMA EveryStep ==
  ASSUME TreeInv, Next
  PROVE  \/ \E x \in Spaces : CreatePageTables(x)
         \/ \E t \in Threads : MakeTable(t)
         \/ \E t \in Threads : UNCHANGED <<mem, root>> /\ (Call(t) \/ Look(t) \/ Down(t) \/ Return(t))
         \/ \E t \in Threads : UNCHANGED <<mem, root>> /\ job[t] # NoJob /\ Fail(t)
         \/ \E t \in Threads : UNCHANGED <<mem, root>> /\ CloneNothing(t)
         \/ \E t \in Threads : UNCHANGED <<mem, root>> /\ FlyUnmapFree(t) /\ job[t] # NoJob
         \/ \E t \in Threads : Strays(t, job[t]) /\ job[t] # NoJob /\ job[t].pc \in Calling
         \/ \E t \in Threads : \E e, phys :
              job[t] # NoJob /\ job[t].pc \in Calling /\ Serves(t, job[t], e, phys)
<1>1. ASSUME NEW t \in Threads, Writes(t)
      PROVE  \/ Strays(t, job[t]) /\ job[t] # NoJob /\ job[t].pc \in Calling
             \/ \E e, phys : job[t] # NoJob /\ job[t].pc \in Calling /\ Serves(t, job[t], e, phys)
  <2>1. PICK j : j = job[t]
    OBVIOUS
  <2>2. /\ job[t] # NoJob /\ job[t].pc \in Calling
        /\ (\E e, phys : Serves(t, j, e, phys)) \/ Strays(t, j)
    BY <1>1, <2>1, WhatIsEntered
  <2> QED BY <2>1, <2>2
<1>2. ASSUME NEW t \in Threads, Call(t) PROVE UNCHANGED <<mem, root>>
  BY <1>2 DEF Call
<1>3. ASSUME NEW t \in Threads, CloneNothing(t) PROVE UNCHANGED <<mem, root>>
  BY <1>3 DEF CloneNothing
<1>9. ASSUME NEW t \in Threads, FlyUnmapFree(t) PROVE UNCHANGED <<mem, root>> /\ job[t] # NoJob
  BY <1>9 DEF FlyUnmapFree, InCallback
<1>4. CASE \E s \in Spaces : CreatePageTables(s)
  BY <1>4
<1>5. ASSUME NEW t \in Threads, Call(t)
      PROVE  \E u \in Threads : UNCHANGED <<mem, root>> /\ (Call(u) \/ Look(u) \/ Down(u) \/ Return(u))
  BY <1>2, <1>5
<1>6. CASE \E t \in Threads : Call(t)
  BY <1>5, <1>6
<1>7. ASSUME NEW t \in Threads, Work(t)
      PROVE  \/ Writes(t)
             \/ MakeTable(t)
             \/ CloneNothing(t)
             \/ FlyUnmapFree(t)
             \/ UNCHANGED <<mem, root>> /\ (Call(t) \/ Look(t) \/ Down(t) \/ Return(t))
             \/ UNCHANGED <<mem, root>> /\ job[t] # NoJob /\ Fail(t)
  BY <1>7, OtherWork
<1>8. CASE \E t \in Threads : Work(t)
  <2>1. PICK t \in Threads : Work(t)
    BY <1>8
  <2>2. CASE Writes(t)
    BY <1>1, <2>2
  <2>3. CASE CloneNothing(t)
    BY <1>3, <2>3
  <2>4. CASE FlyUnmapFree(t)
    BY <1>9, <2>1, <2>4
  <2> QED BY <1>7, <2>1, <2>2, <2>3, <2>4
<1> QED BY <1>4, <1>6, <1>8 DEF Next

-----------------------------------------------------------------------------
(* Requests, step by step *)

\* The walk of thread t's job j gets elsewhere, the request no further.
Moved(t, j, k) ==
  /\ job' = [job EXCEPT ![t] = k]
  /\ k \in Job /\ k.req = j.req /\ k.v = j.v /\ k.left = j.left /\ k.pc # "done"

LEMMA PcMoved ==
  ASSUME TypeOK, NEW t \in Threads, job[t] # NoJob, NEW j, j = job[t],
         NEW pc \in Pcs \ {"done"}, job' = [job EXCEPT ![t].pc = pc]
  PROVE  \E k : Moved(t, j, k)
<1>1. j \in Job
  BY DEF TypeOK
<1>2. PICK k : k = [j EXCEPT !.pc = pc] /\ job' = [job EXCEPT ![t] = k]
  OBVIOUS
<1>3. k = JobAt(j, pc, j.level, j.table, j.index)
  BY <1>1, <1>2, PcMove
<1>4. k.req = j.req /\ k.v = j.v /\ k.left = j.left /\ k.pc = pc
  BY <1>3 DEF JobAt
<1>5. job' = [job EXCEPT ![t] = k]
  BY <1>2
<1>6. k \in Job
  BY <1>1, <1>3, JobMoves, JobTypes
<1> QED BY <1>4, <1>5, <1>6 DEF Moved

LEMMA WalkMoves ==
  ASSUME TreeInv, NEW t \in Threads, job[t] # NoJob, NEW j, j = job[t],
         Look(t) \/ Down(t) \/ Fail(t) \/ MakeTable(t) \/ FlyUnmapFree(t) \/ Strays(t, j)
  PROVE  \E k : Moved(t, j, k)
<1>1. j \in Job /\ TypeOK
  BY DEF TreeInv, TypeInv, TypeOK
<1>2. CASE Look(t)
  <2> DEFINE n == Index(j.level, j.v)
  <2> DEFINE pc == IF j.level = Target(j) THEN "callback"
                   ELSE IF mem[j.table][n].present THEN "down" ELSE "make"
  <2>1. job' = [job EXCEPT ![t] = [j EXCEPT !.index[j.level] = n, !.pc = pc]]
    BY <1>2 DEF Look
  <2>2. pc # "done" /\ pc \in Pcs
    BY DEF Pcs
  <2>7. n \in Slots
    BY <1>1, JobTypes, IndexFacts
  <2> HIDE DEF n, pc
  <2>3. PICK k : k = [j EXCEPT !.index[j.level] = n, !.pc = pc]
    OBVIOUS
  <2>4. k = JobAt(j, pc, j.level, j.table, [j.index EXCEPT ![j.level] = n])
    BY <1>1, <2>3, LookMove
  <2>5. k.req = j.req /\ k.v = j.v /\ k.left = j.left /\ k.pc = pc
    BY <2>4 DEF JobAt
  <2>6. job' = [job EXCEPT ![t] = k]
    BY <2>1, <2>3
  <2>8. k \in Job
    BY <1>1, <2>2, <2>4, <2>7, JobMoves, JobTypes
  <2> QED BY <2>2, <2>5, <2>6, <2>8 DEF Moved
<1>3. CASE Down(t)
  <2> DEFINE e == Current(j)
  <2>1. j.pc = "down"
    BY <1>3 DEF Down
  <2>2. IsTable(e) /\ e.addr \in Frames /\ j.level - 1 \in Levels
    BY <2>1, DownFacts DEF Levels
  <2>3. PICK k : /\ job' = [job EXCEPT ![t] = k]
                 /\ k = [j EXCEPT !.pc = "look", !.level = @ - 1, !.table = e.addr]
    BY <1>3, <2>2 DEF Down
  <2>4. k = JobAt(j, "look", j.level - 1, e.addr, j.index)
    <3> HIDE DEF e
    <3> QED BY <1>1, <2>3, DownMove
  <2>5. k.req = j.req /\ k.v = j.v /\ k.left = j.left /\ k.pc = "look"
    BY <2>4 DEF JobAt
  <2>6. job' = [job EXCEPT ![t] = k]
    BY <2>3
  <2>7. k \in Job
    BY <1>1, <2>2, <2>4, JobMoves, JobTypes DEF Pcs
  <2> QED BY <2>5, <2>6, <2>7 DEF Moved
<1>4. CASE Fail(t)
  <2>1. job' = [job EXCEPT ![t].pc = "failed"]
    BY <1>4 DEF Fail
  <2> QED BY <1>1, <2>1, PcMoved DEF Pcs
<1>5. CASE MakeTable(t)
  <2>1. job' = [job EXCEPT ![t].pc = "down"]
    BY <1>5 DEF MakeTable
  <2> QED BY <1>1, <2>1, PcMoved DEF Pcs
<1>6. CASE Strays(t, j)
  <2>1. PICK k : k = JobAt(j, "wild", j.level, j.table, j.index)
    OBVIOUS
  <2>2. job' = [job EXCEPT ![t] = k]
    BY <1>6, <2>1 DEF Strays
  <2>3. k.req = j.req /\ k.v = j.v /\ k.left = j.left /\ k.pc = "wild"
    BY <2>1 DEF JobAt
  <2>4. k \in Job
    BY <1>1, <2>1, JobMoves, JobTypes DEF Pcs
  <2> QED BY <2>2, <2>3, <2>4 DEF Moved
<1>7. CASE FlyUnmapFree(t)
  <2>1. job' = [job EXCEPT ![t].pc = "clear"]
    BY <1>7 DEF FlyUnmapFree
  <2> QED BY <1>1, <2>1, PcMoved DEF Pcs
<1> QED BY <1>2, <1>3, <1>4, <1>5, <1>6, <1>7

\* A request that has just been made.
Called(t, k) ==
  /\ job[t] = NoJob /\ job' = [job EXCEPT ![t] = k]
  /\ k \in Job /\ k.req \in Requests /\ k.v = k.req.v /\ k.left = k.req.size
  /\ k.pc = "done" => k.left = 0

LEMMA CallMoves ==
  ASSUME TypeOK, NEW t \in Threads, Call(t)
  PROVE  \E k : Called(t, k)
<1>1. PICK r \in Requests :
        /\ root[r.space] # NoFrame
        /\ job' = [job EXCEPT ![t] =
          [req |-> r, v |-> r.v, phys |-> IF r.op = "map" THEN r.phys ELSE 0,
           left |-> r.size, pc |-> IF r.size = 0 THEN "done" ELSE "look", level |-> 4,
           table |-> root[r.space], index |-> [l \in Levels |-> 0]]]
  BY DEF Call
<1>2. PICK k : k = [req |-> r, v |-> r.v, phys |-> IF r.op = "map" THEN r.phys ELSE 0,
                    left |-> r.size, pc |-> IF r.size = 0 THEN "done" ELSE "look", level |-> 4,
                    table |-> root[r.space], index |-> [l \in Levels |-> 0]]
  OBVIOUS
<1>3. job' = [job EXCEPT ![t] = k] /\ job[t] = NoJob
  BY <1>1, <1>2 DEF Call
<1>4. k.req = r /\ k.v = r.v /\ k.left = r.size /\ (k.pc = "done" => r.size = 0)
  BY <1>2
<1>5. k \in Job
  <2>1. r.space \in Spaces /\ r.v \in Nat /\ r.phys \in Nat /\ r.size \in Nat
    BY PagerAssumption, SMT DEF Request, Pages
  <2>2. root[r.space] \in Frames
    BY <1>1, <2>1 DEF TypeOK
  <2>3. [l \in Levels |-> 0] \in [Levels -> Slots]
    BY SpanFacts DEF Slots
  <2> QED BY <1>2, <2>1, <2>2, <2>3 DEF Job, Levels
<1> QED BY <1>3, <1>4, <1>5 DEF Called

-----------------------------------------------------------------------------
(* The page at address 0 *)

\* The physical page 0 is mapped where no clone comes by: pager_clone_callback takes
\* an entry with address 0 for an empty one.
PageZeroStays ==
  \A r, c \in Requests :
    r.op = "map" /\ r.phys = 0 /\ c.op = "clone" => RangeOf(r) \intersect RangeOf(c) = {}

AtZero(v) == \E r \in Requests : r.op = "map" /\ r.phys = 0 /\ v \in RangeOf(r)
ZeroPages == \A s \in Spaces, v \in Pages : Mapped(s, v) /\ Leaf(s, v).addr = 0 => AtZero(v)

ZeroInv == NoPcids /\ ZeroPages

LEMMA ZeroKept ==
  ASSUME ZeroPages, NEW s \in Spaces, NEW v \in Pages, Steady(s, v)
  PROVE  Mapped(s, v)' /\ Leaf(s, v)'.addr = 0 => AtZero(v)
BY SteadyFacts DEF ZeroPages

LEMMA ZeroServed ==
  ASSUME TreeInv, TypeInv', NEW t \in Threads, job[t] # NoJob, job[t].pc \in Calling,
         NEW j, j = job[t], NEW e, NEW phys, Serves(t, j, e, phys), ZeroPages
  PROVE  ZeroPages'
<1>0. ServedPages(j, e)
  BY ServesPages
<1>1. /\ \A s \in Spaces, v \in Pages : s # j.req.space \/ v \notin Done(j) => Steady(s, v)
      /\ \A w \in Done(j) :
           /\ w \in Pages
           /\ Mapped(j.req.space, w)' <=> e.present
           /\ e.present => Leaf(j.req.space, w)' = e
  BY <1>0 DEF ServedPages
<1>2. ASSUME NEW w \in Done(j), e.present, e.addr = 0 PROVE AtZero(w)
  <2>1. Entered(j, e)
    BY DEF Serves
  <2>2. /\ j.req.space \in Spaces /\ j.req \in Requests /\ ProgressOK(j) /\ j \in Job /\ j.v \in Pages
    BY CallbackPlace, WalkingFacts
  <2>3. /\ w \in Pages /\ w \in Rest(j)
        /\ Mapped(j.req.space, w) <=> Current(j).present
        /\ Current(j).present => Leaf(j.req.space, w) = Current(j)
    BY CallbackPages
  <2>4. CASE j.req.op = "map"
    <3>1. j.phys = 0 /\ j.phys = j.req.phys + (j.v - j.req.v) /\ j.v >= j.req.v
      BY <1>2, <2>1, <2>2, <2>4 DEF Entered, ProgressOK
    <3> DEFINE a == j.req.phys
    <3> DEFINE b == j.v
    <3> DEFINE c == j.req.v
    <3>2. a \in Nat /\ b \in Nat /\ c \in Nat /\ b >= c /\ a + (b - c) = 0
      BY <2>2, <3>1, RequestFacts, PageFacts
    <3> HIDE DEF a, b, c
    <3>3. a = 0
      BY ONLY <3>2
    <3>4. w \in RangeOf(j.req)
      BY <2>2, <2>3, RestFacts
    <3> QED BY <2>2, <2>4, <3>3, <3>4 DEF AtZero, a
  <2>5. CASE j.req.op = "setAttr"
    <3>1. Current(j).present /\ Current(j).addr = 0
      BY <1>2, <2>1, <2>5 DEF Entered
    <3> QED BY <2>2, <2>3, <3>1 DEF ZeroPages
  <2>6. CASE j.req.op \notin {"map", "setAttr"}
    BY <1>2, <2>1, <2>6, ZeroEntry, PagerAssumption DEF Entered
  <2> QED BY <2>4, <2>5, <2>6
<1>3. ASSUME NEW s \in Spaces, NEW v \in Pages, Mapped(s, v)', Leaf(s, v)'.addr = 0
      PROVE  AtZero(v)
  <2>1. CASE s # j.req.space \/ v \notin Done(j)
    BY <1>1, <1>3, <2>1, ZeroKept
  <2>2. CASE s = j.req.space /\ v \in Done(j)
    BY <1>1, <1>2, <1>3, <2>2
  <2> QED BY <2>1, <2>2
<1> QED BY <1>3 DEF ZeroPages, AtZero

\* Where a clone finds no address there is nothing to copy.
LEMMA NothingToCopy ==
  ASSUME TreeInv, PageZeroStays, NoPcids, ZeroPages, NEW t \in Threads, CloneNothing(t),
         NEW j, j = job[t], NEW w \in Done(j)
  PROVE  ~Mapped(j.req.src, w)
<1> DEFINE S == j.req.src
<1>1. job[t] # NoJob /\ job[t].pc \in Calling /\ j.req.op = "clone" /\ InCallback(t, "clone")
  BY DEF CloneNothing, InCallback, Calling
<1>2. j.level \in 1..3 /\ j.pc \in Walking
  BY <1>1, CallbackPlace
<1>3. j \in Job /\ ProgressOK(j) /\ j.v \in Pages /\ S \in Spaces /\ j.req \in Requests
  BY <1>1, <1>2, WalkingFacts, JobTypes
<1>4. Mapped(S, j.v) => Leaf(S, j.v).addr = 0
  <2>1. pcid[S] = 0
    BY <1>3 DEF NoPcids
  <2>2. SourceEntries(j) = {IF Mapped(S, j.v) THEN Leaf(S, j.v) ELSE Zero}
    BY <1>1, <2>1, SourceFacts
  <2> QED BY <2>2 DEF CloneNothing
<1>5. /\ w \in Pages /\ w \in Rest(j) /\ Promise(j.req, w) /\ ReachedAt(j.req, w) = j.level
      /\ SamePath(j.level, j.v, w)
  BY <1>1, CallbackPages
<1>7. SUFFICES ASSUME Mapped(S, w) PROVE FALSE
  OBVIOUS
<1>8. LeafLevel(S, w) \in j.level..3
  BY <1>1, <1>5, <1>7 DEF Promise, FitsSource, ReachedIn, Mapped
<1>9. Leaf(S, w).addr = 0
  <2>1. SamePath(LeafLevel(S, w), w, j.v)
    BY <1>2, <1>5, <1>8 DEF SamePath, Levels
  <2>2. Mapped(S, j.v) /\ Leaf(S, j.v) = Leaf(S, w)
    BY <1>3, <1>5, <1>7, <2>1, LeafShared DEF TreeInv, TypeInv
  <2> QED BY <1>4, <2>2
<1>10. PICK r \in Requests : r.op = "map" /\ r.phys = 0 /\ w \in RangeOf(r)
  BY <1>3, <1>5, <1>7, <1>9 DEF ZeroPages, AtZero
<1>11. w \in RangeOf(j.req)
  BY <1>3, <1>5, RestFacts
<1> QED BY <1>1, <1>3, <1>10, <1>11 DEF PageZeroStays

LEMMA ZeroNext ==
  ASSUME NoThirdBit, NoPcidsGiven, TreeInv, TreeInv', ZeroInv, [Next]_vars
  PROVE  ZeroInv'
<1>1. TypeInv' /\ TypeOK /\ NoPcids /\ ZeroPages
  BY DEF TreeInv, TypeInv, ZeroInv
<1>2. NoPcids'
  BY <1>1, NoPcidsNext
<1>3. ASSUME \A s \in Spaces, v \in Pages : Steady(s, v) PROVE ZeroPages'
  BY <1>1, <1>3, ZeroKept DEF ZeroPages, AtZero
<1>4. CASE \/ UNCHANGED <<mem, root>>
           \/ \E x \in Spaces : CreatePageTables(x)
           \/ \E t \in Threads : MakeTable(t)
  <2>1. \A s \in Spaces, v \in Pages : Steady(s, v)
    BY <1>1, <1>4, StepsAreSteady
  <2> QED BY <1>2, <1>3, <2>1 DEF ZeroInv
<1>5. ASSUME NEW t \in Threads, job[t] # NoJob, job[t].pc \in Calling, NEW e, NEW phys,
             Serves(t, job[t], e, phys)
      PROVE  ZeroInv'
  <2>1. PICK j : j = job[t]
    OBVIOUS
  <2>2. Serves(t, j, e, phys)
    BY <1>5, <2>1
  <2>3. ZeroPages'
    BY <1>1, <1>5, <2>1, <2>2, ZeroServed
  <2> QED BY <1>2, <2>3 DEF ZeroInv
<1>6. CASE Next
  <2>1. CASE \E t \in Threads : \E e, phys :
               job[t] # NoJob /\ job[t].pc \in Calling /\ Serves(t, job[t], e, phys)
    BY <1>5, <2>1
  <2>2. CASE \E t \in Threads : Strays(t, job[t])
    BY <1>4, <2>2 DEF Strays
  <2> QED BY <1>4, <1>6, <2>1, <2>2, EveryStep
<1> QED BY <1>4, <1>6 DEF vars

\* Before the first request no page is mapped.
LEMMA NothingMapped ==
  ASSUME Init, NEW s \in Spaces, NEW v \in Pages
  PROVE  ~Mapped(s, v)
<1> SUFFICES ASSUME Mapped(s, v) PROVE FALSE
  OBVIOUS
<1>1. TypeOK /\ TreeInv
  BY TreeInit DEF TreeInv, TypeInv
<1>2. LeafLevel(s, v) \in 1..3 /\ EntryAt(LeafLevel(s, v), s, v).present
  BY <1>1, AboveTheLeaf
<1>3. \A l \in Levels : EntryAt(l, s, v) = Zero
  <2>1. ASSUME NEW l \in Levels, TableAt(l, s, v) # NoFrame PROVE EntryAt(l, s, v) = Zero
    <3>1. TableAt(l, s, v) \in Frames /\ Index(l, v) \in Slots
      BY <1>1, <2>1, WalkTypes, IndexFacts, PageFacts
    <3> QED BY <2>1, <3>1, WalkSteps DEF Init
  <2> QED BY <2>1, WalkSteps
<1> QED BY <1>2, <1>3, ZeroEntry DEF Levels

LEMMA ZeroInit == Init => ZeroInv
BY NothingMapped DEF Init, ZeroInv, NoPcids, ZeroPages

-----------------------------------------------------------------------------
(* The pager as an AddressSpace *)

\* What the address spaces look like without tables.
Seen == [s \in Spaces |-> [v \in Pages |-> Translate(s, v)]]

SeenKept == \A s \in Spaces, v \in Pages : Translate(s, v)' = Translate(s, v)

LEMMA SteadySeen ==
  ASSUME \A s \in Spaces, v \in Pages : Steady(s, v)
  PROVE  SeenKept
BY SteadyFacts DEF SeenKept

LEMMA SeenFunction == SeenKept => Seen' = Seen
BY DEF SeenKept, Seen

\* One thread has something else to do.
Todo == [u \in Threads |-> TodoOf(job[u])]

\* What is left of a request that is being made.
LEMMA TodoFacts ==
  ASSUME NEW k \in Job
  PROVE  /\ TodoOf(k) = [req |-> k.req, at |-> k.v, left |-> k.left]
         /\ TodoOf(k) # NoJob
<1>1. k # NoJob
  BY NamesAssumption
<1>2. TodoOf(k) = [req |-> k.req, at |-> k.v, left |-> k.left]
  BY <1>1 DEF TodoOf
<1>3. k.req \in Requests /\ k.v \in Nat /\ k.left \in Nat
  BY JobTypes
<1>4. TodoOf(k) \in [req : Requests, at : Nat, left : Nat]
  BY <1>2, <1>3
<1> QED BY <1>2, <1>4, NamesAssumption

LEMMA TodoHere == \A t \in Threads : Todo[t] = TodoOf(job[t])
BY DEF Todo

\* What is freed and not yet cleared is about to be unmapped.
LEMMA DroppedIsDropping ==
  ASSUME TreeInv, NEW s, NEW v, Dropped(s, v)
  PROVE  AS!Dropping(s, v)
<1>1. PICK t \in Clearing : job[t].req.space = s /\ job[t].v = v
  BY DEF Dropped
<1>2. t \in Threads /\ job[t] # NoJob /\ job[t].req.op = "flyUnmap" /\ job[t] \in Job
  BY <1>1, ClearingFacts DEF TreeInv, TypeInv, TypeOK
<1>3. /\ Todo[t] = [req |-> job[t].req, at |-> job[t].v, left |-> job[t].left]
      /\ Todo[t] # NoJob
  BY <1>2, TodoFacts, TodoHere
<1>4. Todo[t].req.op = "flyUnmap" /\ Todo[t].req.space = s /\ Todo[t].at = v
  BY <1>1, <1>2, <1>3
<1> QED BY <1>2, <1>3, <1>4 DEF AS!Dropping, Todo

LEMMA TodoFunction ==
  ASSUME TypeOK, TypeOK', NEW t \in Threads, NEW k, job' = [job EXCEPT ![t] = k]
  PROVE  Todo' = [Todo EXCEPT ![t] = TodoOf(k)]
<1>1. job'[t] = k /\ \A u \in Threads \ {t} : job'[u] = job[u]
  BY DEF TypeOK
<1>2. TodoOf(job[t])' = TodoOf(k) /\ \A u \in Threads \ {t} : TodoOf(job[u])' = TodoOf(job[u])
  BY <1>1 DEF TodoOf
<1> QED BY <1>2 DEF Todo

LEMMA StutterStep ==
  ASSUME SeenKept, Todo' = Todo
  PROVE  UNCHANGED AS!avars
BY SeenFunction DEF AS!avars, Seen, Todo

LEMMA AcceptStep ==
  ASSUME SeenKept, NEW t \in Threads, Todo[t] = NoJob, NEW r \in Requests,
         Todo' = [Todo EXCEPT ![t] = [req |-> r, at |-> r.v, left |-> r.size]]
  PROVE  AS!AbstractNext
<1>1. AS!Accept(t)
  BY SeenFunction DEF AS!Accept, Seen, Todo
<1> QED BY <1>1 DEF AS!AbstractNext

LEMMA LeaveStep ==
  ASSUME SeenKept, NEW t \in Threads, Todo[t] # NoJob, Todo' = [Todo EXCEPT ![t] = NoJob]
  PROVE  AS!AbstractNext
<1>1. AS!Leave(t)
  BY SeenFunction DEF AS!Leave, Seen, Todo
<1> QED BY <1>1 DEF AS!AbstractNext

LEMMA RecordMoves ==
  ASSUME NEW r, NEW at, NEW left, NEW next, NEW rest, NEW m, NEW k,
         m = [req |-> r, at |-> at, left |-> left], k = [m EXCEPT !.at = next, !.left = rest]
  PROVE  k = [req |-> r, at |-> next, left |-> rest]
OBVIOUS

\* The n pages of request r from page at on become what it asked for, no other changes.
Served(r, at, n) ==
  \A s \in Spaces, p \in Pages :
    IF s = r.space /\ p \in at .. at + n - 1
      THEN AS!Becomes(r, p, Seen, Translate(s, p)')
      ELSE Translate(s, p)' = Translate(s, p)

LEMMA ServeStep ==
  ASSUME NEW t \in Threads, NEW r, NEW at, NEW left, NEW n \in 1..left,
         Todo[t] = [req |-> r, at |-> at, left |-> left], Todo[t] # NoJob,
         Todo' = [Todo EXCEPT ![t] = [req |-> r, at |-> at + n, left |-> left - n]],
         Served(r, at, n)
  PROVE  AS!AbstractNext
<1> DEFINE next == at + n
<1> DEFINE rest == left - n
<1>1. Todo' = [Todo EXCEPT ![t].at = Todo[t].at + n, ![t].left = Todo[t].left - n]
  <2>1. PICK m : m = Todo[t]
    OBVIOUS
  <2>2. m = [req |-> r, at |-> at, left |-> left] /\ m.at + n = next /\ m.left - n = rest
    BY <2>1
  <2>3. Todo' = [Todo EXCEPT ![t] = [req |-> r, at |-> next, left |-> rest]]
    OBVIOUS
  <2> HIDE DEF next, rest
  <2>4. PICK k : k = [m EXCEPT !.at = next, !.left = rest]
    OBVIOUS
  <2>5. Todo' = [Todo EXCEPT ![t] = k]
    BY <2>2, <2>3, <2>4, RecordMoves
  <2>6. m.at + n = Todo[t].at + n /\ m.left - n = Todo[t].left - n
    BY <2>1
  <2> QED BY <2>1, <2>2, <2>4, <2>5, <2>6, Zenon
<1>2. Todo[t].req = r /\ Todo[t].at = at /\ Todo[t].left = left
  OBVIOUS
<1>3. \A s \in Spaces, p \in Pages :
        IF s = Todo[t].req.space /\ p \in Todo[t].at .. Todo[t].at + n - 1
          THEN AS!Becomes(Todo[t].req, p, Seen, Seen'[s][p])
          ELSE Seen'[s][p] = Seen[s][p]
  BY <1>2 DEF Seen, Served
<1>4. n \in 1..Todo[t].left
  BY <1>2
<1>5. AS!Serve(t)
  BY <1>1, <1>3, <1>4, Zenon DEF AS!Serve, Seen, Todo
<1> QED BY <1>5 DEF AS!AbstractNext

-----------------------------------------------------------------------------
(* What a callback gives its pages *)

TranslateTyped ==
  TypeOK => \A s \in Spaces, v \in Pages :
    /\ Mapped(s, v) => /\ Translate(s, v) \in [addr : Int, rights : SUBSET Rights]
                       /\ LeafLevel(s, v) \in 1..3
    /\ Mapped(s, v) <=> Translate(s, v) # Unmapped
LEMMA TranslateTypes == TranslateTyped
<1>1. ASSUME TypeOK, NEW s \in Spaces, NEW v \in Pages, Mapped(s, v)
      PROVE  Translate(s, v) \in [addr : Int, rights : SUBSET Rights] /\ LeafLevel(s, v) \in 1..3
  <2> DEFINE l == LeafLevel(s, v)
  <2>1. l \in 1..3
    BY <1>1, LeafLevels DEF Mapped
  <2>2. Walk(s, v)[l].addr \in Int
    BY <1>1, <2>1, WalkTypes DEF Levels, Entry, EntryAt
  <2>3. v % Span[l] \in Int
    BY <2>1, SpanUp, PageFacts, DivMod DEF Levels
  <2> HIDE DEF l
  <2>4. PageAt(Walk(s, v), l, v) \in [addr : Int, rights : SUBSET Rights]
    BY <2>2, <2>3 DEF PageAt
  <2>5. Translate(s, v) = PageAt(Walk(s, v), l, v)
    BY <1>1, TranslateCases DEF TranslateShape, l
  <2> QED BY <2>1, <2>4, <2>5 DEF l
<1>2. ASSUME NEW s \in Spaces, NEW v \in Pages, ~Mapped(s, v) PROVE Translate(s, v) = Unmapped
  BY <1>2, TranslateCases DEF TranslateShape
<1> QED BY <1>1, <1>2, NamesAssumption DEF TranslateTyped
LEMMA TranslateTypesNext == TranslateTyped'
BY TranslateTypes, PTL

LEMMA SeenFacts ==
  ASSUME NEW s \in Spaces, NEW v \in Pages
  PROVE  Seen[s][v] = Translate(s, v)
BY DEF Seen

\* With no-execute, an entry for pages grants what the specification allows.
LEMMA RightsGranted ==
  ASSUME NxFeature, NEW j \in Job, j.level = Target(j), j.level \in 1..3, Attributed(j.req)
  PROVE  LeafBits(j).rights = AS!Allowed(j.req)
<1>1. AutoDisable(j.req) \in 0..15
  BY JobTypes DEF AutoDisable, Request
<1>2. ~(j.level > AutoDisable(j.req) + 1 /\ ~(j.level = Target(j) /\ j.level > 1))
  BY <1>1
<1>3. Granted(j.req) = AS!Allowed(j.req)
  BY DEF Granted, Asked, Pat, AS!Allowed
<1>4. LeafBits(j).rights = Granted(j.req)
  BY <1>2 DEF LeafBits, GetEntryBits
<1> QED BY <1>3, <1>4

\* No large page has a frame of the allocator in it.
LargeOutside ==
  \A s \in Spaces, v \in Pages : LeafLevel(s, v) > 1 => Translate(s, v).addr \notin Frames

\* The translation of a page whose entry has just been written.
LEMMA ServedTranslation ==
  ASSUME TreeInv, TypeInv', NEW t \in Threads, job[t] # NoJob, job[t].pc \in Calling,
         NEW j, j = job[t], NEW e, NEW phys, Serves(t, j, e, phys), NEW w \in Done(j)
  PROVE  /\ ~e.present => Translate(j.req.space, w)' = Unmapped
         /\ e.present =>
              /\ Translate(j.req.space, w)' # Unmapped
              /\ Translate(j.req.space, w)'.addr = e.addr + (w - j.v)
              /\ Translate(j.req.space, w)'.rights \subseteq e.rights
              /\ Translate(j.req.space, w)'.rights \subseteq Rights
<1>1. ServedPages(j, e)
  BY ServesPages
<1>2. /\ w \in Pages
      /\ LeafLevel(j.req.space, w)' = IF e.present THEN j.level ELSE 0
      /\ Mapped(j.req.space, w)' <=> e.present
      /\ e.present => Leaf(j.req.space, w)' = e
      /\ EntryAt(j.level, j.req.space, w)' = e
  BY <1>1 DEF ServedPages
<1>3. j.level \in 1..3 /\ (w % Span[j.level]) = w - j.v /\ j.req.space \in Spaces
  BY CallbackPlace, CallbackPages, WalkingFacts
<1>4. TypeOK'
  BY DEF TypeInv
<1>5. ~e.present => Translate(j.req.space, w)' = Unmapped
  BY <1>2, TranslateCasesNext DEF TranslateShape
<1>6. ASSUME e.present
      PROVE  /\ Translate(j.req.space, w)' # Unmapped
             /\ Translate(j.req.space, w)'.addr = e.addr + (w - j.v)
             /\ Translate(j.req.space, w)'.rights \subseteq e.rights
             /\ Translate(j.req.space, w)'.rights \subseteq Rights
  <2>1. Mapped(j.req.space, w)' /\ LeafLevel(j.req.space, w)' = j.level /\ Leaf(j.req.space, w)' = e
    BY <1>2, <1>6
  <2>2. /\ Translate(j.req.space, w)'.addr = e.addr + (w % Span[j.level])
        /\ Translate(j.req.space, w)'.rights =
             {x \in Rights : \A l \in j.level..4 : x \in EntryAt(l, j.req.space, w)'.rights}
    BY <2>1, TranslateNext DEF TranslateFact
  <2>3. j.level \in j.level..4
    BY <1>3
  <2>4. Translate(j.req.space, w)'.rights \subseteq e.rights
    BY <1>2, <2>2, <2>3
  <2>5. Translate(j.req.space, w)' # Unmapped
    BY <1>2, <1>3, <1>4, <2>1, TranslateTypesNext DEF TranslateTyped
  <2> QED BY <1>3, <2>2, <2>4, <2>5
<1> QED BY <1>5, <1>6

\* The translation of a page before its entry is written.
LEMMA OldTranslation ==
  ASSUME TreeInv, NEW t \in Threads, job[t] # NoJob, job[t].pc \in Calling,
         NEW j, j = job[t], NEW w \in Done(j), Current(j).present
  PROVE  /\ Translate(j.req.space, w).addr = Current(j).addr + (w - j.v)
         /\ LeafLevel(j.req.space, w) = j.level
<1>1. /\ LeafLevel(j.req.space, w) = j.level /\ Mapped(j.req.space, w)
      /\ Leaf(j.req.space, w) = Current(j) /\ (w % Span[j.level]) = w - j.v
  BY CallbackPages
<1> QED BY <1>1, TranslateNow DEF TranslateFact

\* A frame that is free is in no page of any space that is to stay.
LEMMA FreeIsUnseen ==
  ASSUME TreeInv, LargeOutside, NEW f, f \in free, f \in Frames,
         NEW s \in Spaces, NEW v \in Pages, Mapped(s, v), ~Dropped(s, v)
  PROVE  Translate(s, v).addr # f
<1>1. TypeOK /\ FlyPages \intersect free = {}
  BY DEF TreeInv, TypeInv, TreeShape
<1>2. LeafLevel(s, v) \in 1..3
  BY <1>1, TranslateTypes DEF TranslateTyped
<1>3. CASE LeafLevel(s, v) > 1
  BY <1>3 DEF LargeOutside
<1>4. CASE LeafLevel(s, v) = 1
  <2>1. Leaf(s, v).addr \in Int
    BY <1>1, <1>4, WalkTypes DEF Leaf, Levels, Entry
  <2>2. Translate(s, v).addr = Leaf(s, v).addr
    <3>1. v % Span[1] = 0
      BY WholeSpans, PageFacts
    <3>2. Translate(s, v).addr = Leaf(s, v).addr + (v % Span[1])
      BY <1>4, TranslateNow DEF TranslateFact
    <3> QED BY <2>1, <3>1, <3>2
  <2>3. Translate(s, v).addr \in Frames => Translate(s, v).addr \in FlyPages
    BY <1>1, <1>4, <2>2, FlyInPages DEF IsFly
  <2> QED BY <1>1, <2>3
<1> QED BY <1>2, <1>3, <1>4

LEMMA MapBecomes ==
  ASSUME NxFeature, TreeInv, TypeInv', NEW t \in Threads, job[t] # NoJob, job[t].pc \in Calling,
         NEW j, j = job[t], NEW e, NEW phys, Serves(t, j, e, phys), NEW w \in Done(j),
         j.req.op = "map"
  PROVE  /\ AS!Becomes(j.req, w, Seen, Translate(j.req.space, w)')
         /\ Translate(j.req.space, w)'.addr = j.req.phys + (w - j.req.v)
<1>1. e.present /\ e.addr = j.phys /\ e.rights = LeafBits(j).rights
  BY DEF Serves, Entered
<1>2. /\ j \in Job /\ ProgressOK(j) /\ j.level = Target(j) /\ j.level \in 1..3
      /\ j.req \in Requests /\ j.v \in Pages
  BY CallbackPlace, WalkingFacts
<1>3. e.rights = AS!Allowed(j.req)
  BY <1>1, <1>2, RightsGranted DEF Attributed
<1>4. /\ Translate(j.req.space, w)' # Unmapped
      /\ Translate(j.req.space, w)'.addr = e.addr + (w - j.v)
      /\ Translate(j.req.space, w)'.rights \subseteq e.rights
  BY <1>1, ServedTranslation
<1>5. e.addr + (w - j.v) = j.req.phys + (w - j.req.v)
  <2> DEFINE a == j.req.phys
  <2> DEFINE b == j.v
  <2> DEFINE c == j.req.v
  <2>1. a \in Nat /\ b \in Nat /\ c \in Nat /\ w \in Nat /\ e.addr = a + (b - c)
    BY <1>1, <1>2, RequestFacts, PageFacts, CallbackPages DEF ProgressOK
  <2> HIDE DEF a, b, c
  <2>2. (a + (b - c)) + (w - b) = a + (w - c)
    BY ONLY <2>1
  <2> QED BY <2>1, <2>2 DEF a, b, c
<1> QED BY <1>3, <1>4, <1>5 DEF AS!Becomes

LEMMA FlyMapBecomes ==
  ASSUME NxFeature, TreeInv, LargeOutside, TypeInv', NEW t \in Threads, job[t] # NoJob,
         job[t].pc \in Calling, NEW j, j = job[t], NEW e, NEW phys, Serves(t, j, e, phys),
         NEW w \in Done(j), j.req.op = "flyMap"
  PROVE  AS!Becomes(j.req, w, Seen, Translate(j.req.space, w)') /\ j.level = 1
<1>1. /\ e.present /\ e.addr \in free /\ e.addr \in Frames /\ e.rights = LeafBits(j).rights
      /\ j.level = 1
  BY DEF Serves, Entered
<1>2. /\ j \in Job /\ j.level = Target(j) /\ j.level \in 1..3 /\ j.v \in Pages
  BY CallbackPlace, WalkingFacts
<1>3. e.rights = AS!Allowed(j.req)
  BY <1>1, <1>2, RightsGranted DEF Attributed
<1>4. /\ Translate(j.req.space, w)' # Unmapped
      /\ Translate(j.req.space, w)'.addr = e.addr + (w - j.v)
      /\ Translate(j.req.space, w)'.rights \subseteq e.rights
  BY <1>1, ServedTranslation
<1>5. e.addr + (w - j.v) = e.addr
  <2>1. (w % Span[1]) = w - j.v /\ w % Span[1] = 0
    BY <1>1, CallbackPages, WholeSpans, PageFacts
  <2>2. Frames \subseteq Nat
    BY PagerAssumption
  <2>3. e.addr \in Nat
    BY <1>1, <2>2, Zenon
  <2> QED BY <2>1, <2>3, <1>2, PageFacts
<1>6. ASSUME NEW s \in Spaces, NEW q \in Pages, Seen[s][q] # Unmapped, ~AS!Dropping(s, q)
      PROVE  Seen[s][q].addr # Translate(j.req.space, w)'.addr
  <2>1. Mapped(s, q)
    BY <1>6, SeenFacts DEF Translate, LeafLevel, Mapped
  <2>2. ~Dropped(s, q)
    BY <1>6, DroppedIsDropping
  <2> QED BY <1>1, <1>4, <1>5, <2>1, <2>2, SeenFacts, FreeIsUnseen
<1> QED BY <1>1, <1>3, <1>4, <1>6 DEF AS!Becomes

LEMMA UnmapBecomes ==
  ASSUME TreeInv, TypeInv', NEW t \in Threads, job[t] # NoJob, job[t].pc \in Calling,
         NEW j, j = job[t], NEW e, NEW phys, Serves(t, j, e, phys), NEW w \in Done(j),
         j.req.op \in {"unmap", "flyUnmap"}
  PROVE  AS!Becomes(j.req, w, Seen, Translate(j.req.space, w)') /\ ~e.present
<1>1. ~e.present
  BY ZeroEntry DEF Serves, Entered
<1>2. Translate(j.req.space, w)' = Unmapped
  BY <1>1, ServedTranslation
<1> QED BY <1>1, <1>2 DEF AS!Becomes

LEMMA SetAttrBecomes ==
  ASSUME NxFeature, TreeInv, TypeInv', NEW t \in Threads, job[t] # NoJob, job[t].pc \in Calling,
         NEW j, j = job[t], NEW e, NEW phys, Serves(t, j, e, phys), NEW w \in Done(j),
         j.req.op = "setAttr"
  PROVE  /\ AS!Becomes(j.req, w, Seen, Translate(j.req.space, w)')
         /\ Translate(j.req.space, w)'.addr = Translate(j.req.space, w).addr
         /\ LeafLevel(j.req.space, w) = j.level
<1>1. /\ e.present /\ e.addr = Current(j).addr /\ e.rights = LeafBits(j).rights
      /\ Current(j).present
  BY DEF Serves, Entered
<1>2. /\ j \in Job /\ j.level = Target(j) /\ j.level \in 1..3 /\ j.req.space \in Spaces
      /\ w \in Pages
  BY CallbackPlace, WalkingFacts, CallbackPages
<1>3. e.rights = AS!Allowed(j.req)
  BY <1>1, <1>2, RightsGranted DEF Attributed
<1>4. /\ Translate(j.req.space, w)' # Unmapped
      /\ Translate(j.req.space, w)'.addr = e.addr + (w - j.v)
      /\ Translate(j.req.space, w)'.rights \subseteq e.rights
  BY <1>1, ServedTranslation
<1>5. /\ Translate(j.req.space, w).addr = Current(j).addr + (w - j.v)
      /\ LeafLevel(j.req.space, w) = j.level
  BY <1>1, OldTranslation
<1>6. Seen[j.req.space][w].addr = Translate(j.req.space, w).addr
  BY <1>2, SeenFacts
<1> QED BY <1>1, <1>3, <1>4, <1>5, <1>6 DEF AS!Becomes

\* What lies, at level l, at the beginning of the page that page w is part of.
LEMMA SourceStart ==
  ASSUME TypeOK, NEW s \in Spaces, NEW w \in Pages, Mapped(s, w),
         NEW l \in 1..3, l <= LeafLevel(s, w)
  PROVE  \E q \in Pages : /\ q <= w /\ Mapped(s, q) /\ LeafLevel(s, q) = LeafLevel(s, w)
                         /\ Translate(s, q).addr = Leaf(s, w).addr + (w % Span[l])
                         /\ Translate(s, w).addr = Translate(s, q).addr + (w - q)
<1> DEFINE L == LeafLevel(s, w)
<1>1. L \in 1..3 /\ L \in Levels /\ l \in Levels
  BY TranslateTypes DEF TranslateTyped, Levels
<1>2. PICK q \in Pages : /\ q <= w /\ SamePath(L, w, q)
                         /\ q % Span[L] = w % Span[l]
                         /\ w % Span[L] = (w % Span[l]) + (w - q)
  BY <1>1, BlockStart
<1>3. LeafLevel(s, q) = L /\ Mapped(s, q) /\ Leaf(s, q) = Leaf(s, w)
  BY <1>2, LeafShared
<1>4. /\ Translate(s, q).addr = Leaf(s, w).addr + (q % Span[L])
      /\ Translate(s, w).addr = Leaf(s, w).addr + (w % Span[L])
  BY <1>3, TranslateNow DEF TranslateFact
<1> DEFINE a == Leaf(s, w).addr
<1> DEFINE y == w % Span[l]
<1>5. a \in Int /\ y \in Int /\ w \in Int /\ q \in Int
  <2>1. a \in Int
    BY <1>1, WalkTypes DEF Leaf, Entry
  <2>2. Span[l] \in Nat /\ Span[l] > 0 /\ w \in Nat /\ q \in Nat
    BY <1>1, SpanFacts, PageFacts
  <2>3. y \in Int
    BY <2>2, DivMod
  <2> QED BY <2>1, <2>2, <2>3
<1> HIDE DEF a, y
<1>6. a + (y + (w - q)) = (a + y) + (w - q)
  BY ONLY <1>5
<1>7. /\ Translate(s, q).addr = a + y
      /\ Translate(s, w).addr = a + (y + (w - q))
  BY <1>2, <1>4 DEF a, y
<1> QED BY <1>2, <1>3, <1>6, <1>7 DEF a, y

LEMMA CloneBecomes ==
  ASSUME TreeInv, TypeInv', NEW t \in Threads, job[t] # NoJob, job[t].pc \in Calling,
         NEW j, j = job[t], NEW e, NEW phys, Serves(t, j, e, phys), NEW w \in Done(j),
         j.req.op = "clone"
  PROVE  /\ AS!Becomes(j.req, w, Seen, Translate(j.req.space, w)')
         /\ \E q \in Pages : /\ Translate(j.req.space, w)'.addr = Translate(j.req.src, q).addr
                             /\ LeafLevel(j.req.src, q) \in j.level..3
<1> DEFINE S == j.req.src
<1> DEFINE L == LeafLevel(S, w)
<1>0. e.present
  BY DEF Serves, Entered
<1>1. /\ e.present /\ S \in Spaces /\ S # j.req.space
      /\ w \in Pages /\ L \in j.level..3 /\ Mapped(S, w) /\ Leaf(S, w) = e
  BY DEF Serves, Entered
<1>2. j.level \in 1..3 /\ (w % Span[j.level]) = w - j.v /\ TypeOK
  BY CallbackPlace, CallbackPages DEF TreeInv, TypeInv
<1>3. /\ Translate(j.req.space, w)' # Unmapped
      /\ Translate(j.req.space, w)'.addr = e.addr + (w - j.v)
      /\ Translate(j.req.space, w)'.rights \subseteq e.rights
      /\ Translate(j.req.space, w)'.rights \subseteq Rights
  BY <1>0, ServedTranslation
<1>4. PICK q \in Pages : /\ q <= w /\ Mapped(S, q) /\ LeafLevel(S, q) = L
                         /\ Translate(S, q).addr = Leaf(S, w).addr + (w % Span[j.level])
                         /\ Translate(S, w).addr = Translate(S, q).addr + (w - q)
  <2>1. j.level <= L
    BY <1>1, <1>2
  <2> QED BY <1>1, <1>2, <2>1, SourceStart
<1>5. Translate(j.req.space, w)'.addr = Translate(S, q).addr
  BY <1>1, <1>2, <1>3, <1>4
<1>6. ASSUME NEW x \in Translate(j.req.space, w)'.rights \ {"execute"}
      PROVE  x \in Translate(S, w).rights
  <2>1. x \in Rights /\ x \in e.rights /\ x \in {"write", "user"}
    BY <1>3, <1>6 DEF Rights
  <2>2. SourceOpen(S, w)
    BY CallbackPages DEF Promise
  <2>3. EntryAt(L, S, w) = e /\ L \in 1..3
    BY <1>1, <1>2 DEF Leaf
  <2>4. ASSUME NEW l \in L..4 PROVE x \in EntryAt(l, S, w).rights
    <3>1. l = L \/ l \in (L + 1)..4
      BY <2>3, <2>4
    <3>2. CASE l \in (L + 1)..4
      <4>1. {"write", "user"} \subseteq EntryAt(l, S, w).rights
        BY <1>1, <2>2, <3>2 DEF SourceOpen
      <4> QED BY <2>1, <4>1
    <3> QED BY <2>1, <2>3, <3>1, <3>2
  <2>5. Translate(S, w).rights =
          {y \in Rights : \A l \in L..4 : y \in EntryAt(l, S, w).rights}
    BY <1>1, TranslateNow DEF TranslateFact
  <2> QED BY <2>1, <2>4, <2>5
<1>7. Seen[S][w] = Translate(S, w) /\ Seen[S][q] = Translate(S, q)
  BY <1>1, SeenFacts
<1>8. Translate(S, w) # Unmapped /\ Translate(S, q) # Unmapped
  BY <1>1, <1>2, <1>4, TranslateTypes DEF TranslateTyped
<1>9. PICK m, r : m = Translate(j.req.space, w)' /\ r = j.req
  OBVIOUS
<1>10. /\ r.op = "clone" /\ m # Unmapped /\ Seen[r.src][w] # Unmapped
       /\ q <= w /\ Seen[r.src][q] # Unmapped /\ Seen[r.src][q].addr = m.addr
       /\ Seen[r.src][w].addr = m.addr + (w - q)
       /\ m.rights \ {"execute"} \subseteq Seen[r.src][w].rights
  <2>1. r.op = "clone"
    BY <1>9
  <2>2. m # Unmapped /\ Seen[r.src][w] # Unmapped /\ Seen[r.src][q] # Unmapped
    BY <1>3, <1>7, <1>8, <1>9
  <2>3. q <= w /\ Seen[r.src][q].addr = m.addr
    BY <1>4, <1>5, <1>7, <1>9
  <2>4. Seen[r.src][w].addr = m.addr + (w - q)
    BY <1>4, <1>5, <1>7, <1>9
  <2>5. m.rights \ {"execute"} \subseteq Seen[r.src][w].rights
    BY <1>6, <1>7, <1>9
  <2> QED BY <2>1, <2>2, <2>3, <2>4, <2>5
<1>11. AS!Becomes(r, w, Seen, m)
  BY <1>10 DEF AS!Becomes
<1> QED BY <1>1, <1>4, <1>5, <1>9, <1>11

-----------------------------------------------------------------------------
(* Large pages stay outside *)

LEMMA LargeServed ==
  ASSUME NxFeature, TreeInv, TypeInv', LargeOutside, NEW t \in Threads, job[t] # NoJob,
         job[t].pc \in Calling, NEW j, j = job[t], NEW e, NEW phys, Serves(t, j, e, phys),
         NEW w \in Done(j), LeafLevel(j.req.space, w)' > 1
  PROVE  Translate(j.req.space, w)'.addr \notin Frames
<1>1. ServedPages(j, e)
  BY ServesPages
<1>2. j.level > 1 /\ e.present
  BY <1>1 DEF ServedPages
<1>3. w \in Pages /\ Promise(j.req, w)
  BY CallbackPages
<1>4. j.req.space \in Spaces /\ j.req.src \in Spaces
  BY JobTypes DEF TreeInv, TypeInv, TypeOK
<1>5. CASE j.req.op = "map"
  <2>1. Translate(j.req.space, w)'.addr = j.req.phys + (w - j.req.v)
    BY <1>5, MapBecomes
  <2> QED BY <1>3, <1>5, <2>1 DEF Promise
<1>6. CASE j.req.op = "flyMap"
  BY <1>2, <1>6 DEF Serves, Entered
<1>7. CASE j.req.op \in {"unmap", "flyUnmap"}
  BY <1>2, <1>7, ZeroEntry DEF Serves, Entered
<1>8. CASE j.req.op = "setAttr"
  <2>1. /\ Translate(j.req.space, w)'.addr = Translate(j.req.space, w).addr
        /\ LeafLevel(j.req.space, w) = j.level
    BY <1>8, SetAttrBecomes
  <2> QED BY <1>2, <1>3, <1>4, <2>1 DEF LargeOutside
<1>9. CASE j.req.op = "clone"
  <2>1. PICK q \in Pages : /\ Translate(j.req.space, w)'.addr = Translate(j.req.src, q).addr
                           /\ LeafLevel(j.req.src, q) \in j.level..3
    BY <1>9, CloneBecomes
  <2>2. j.level \in 1..3
    BY CallbackPlace
  <2>3. LeafLevel(j.req.src, q) > 1
    BY <1>2, <2>1, <2>2
  <2> QED BY <1>4, <2>1, <2>3 DEF LargeOutside
<1> QED BY <1>5, <1>6, <1>7, <1>8, <1>9 DEF Serves, Entered

LEMMA LargeNext ==
  ASSUME NoThirdBit, NxFeature, TreeInv, TreeInv', LargeOutside, [Next]_vars
  PROVE  LargeOutside'
<1>1. TypeInv' /\ TypeOK
  BY DEF TreeInv, TypeInv
<1>2. ASSUME \A s \in Spaces, v \in Pages : Steady(s, v) PROVE LargeOutside'
  BY <1>2, SteadyFacts DEF Steady, LargeOutside
<1>3. CASE \/ UNCHANGED <<mem, root>>
           \/ \E x \in Spaces : CreatePageTables(x)
           \/ \E t \in Threads : MakeTable(t)
  BY <1>1, <1>2, <1>3, StepsAreSteady
<1>4. ASSUME NEW t \in Threads, job[t] # NoJob, job[t].pc \in Calling, NEW e, NEW phys,
             Serves(t, job[t], e, phys)
      PROVE  LargeOutside'
  <2>1. PICK j : j = job[t]
    OBVIOUS
  <2>2. Serves(t, j, e, phys)
    BY <1>4, <2>1
  <2>3. ServedPages(j, e)
    BY <1>1, <1>4, <2>1, <2>2, ServesPages
  <2>4. ASSUME NEW s \in Spaces, NEW v \in Pages, LeafLevel(s, v)' > 1
        PROVE  Translate(s, v)'.addr \notin Frames
    <3>1. CASE s # j.req.space \/ v \notin Done(j)
      <4>1. Steady(s, v)
        BY <2>3, <3>1 DEF ServedPages
      <4> QED BY <2>4, <4>1, SteadyFacts DEF Steady, LargeOutside
    <3>2. CASE s = j.req.space /\ v \in Done(j)
      BY <1>1, <1>4, <2>1, <2>2, <2>4, <3>2, LargeServed
    <3> QED BY <3>1, <3>2
  <2> QED BY <2>4 DEF LargeOutside
<1>5. CASE Next
  <2>1. CASE \E t \in Threads : \E e, phys :
               job[t] # NoJob /\ job[t].pc \in Calling /\ Serves(t, job[t], e, phys)
    BY <1>4, <2>1
  <2>2. CASE \E t \in Threads : Strays(t, job[t])
    BY <1>3, <2>2 DEF Strays
  <2> QED BY <1>3, <1>5, <2>1, <2>2, EveryStep
<1> QED BY <1>3, <1>5 DEF vars

-----------------------------------------------------------------------------
(* The refinement *)

\* A step of the walk is no step of the address spaces.
LEMMA MovedStep ==
  ASSUME TypeOK, TypeOK', SeenKept, NEW t \in Threads, job[t] # NoJob,
         NEW j, j = job[t], NEW k, Moved(t, j, k)
  PROVE  UNCHANGED AS!avars
<1>1. j \in Job /\ k \in Job /\ k.req = j.req /\ k.v = j.v /\ k.left = j.left
      /\ job' = [job EXCEPT ![t] = k]
  BY DEF TypeOK, Moved
<1>2. TodoOf(k) = TodoOf(j)
  BY <1>1, TodoFacts
<1>3. Todo' = [Todo EXCEPT ![t] = TodoOf(k)]
  BY <1>1, TodoFunction
<1>4. Todo[t] = TodoOf(k) /\ Todo \in [Threads -> {TodoOf(job[u]) : u \in Threads}]
  BY <1>2, TodoHere DEF Todo
<1>5. Todo' = Todo
  BY <1>3, <1>4
<1> QED BY <1>5, StutterStep

LEMMA CalledStep ==
  ASSUME TypeOK, TypeOK', SeenKept, NEW t \in Threads, NEW k, Called(t, k)
  PROVE  AS!AbstractNext
<1>1. /\ job[t] = NoJob /\ k \in Job /\ k.req \in Requests /\ k.v = k.req.v
      /\ k.left = k.req.size /\ job' = [job EXCEPT ![t] = k]
  BY DEF Called
<1>2. PICK r \in Requests : r = k.req
  BY <1>1
<1>3. TodoOf(k) = [req |-> r, at |-> r.v, left |-> r.size]
  BY <1>1, <1>2, TodoFacts
<1>4. Todo' = [Todo EXCEPT ![t] = TodoOf(k)]
  BY <1>1, TodoFunction
<1>5. Todo[t] = NoJob
  BY <1>1, TodoHere DEF TodoOf
<1> QED BY <1>3, <1>4, <1>5, AcceptStep

LEMMA ReturnStep ==
  ASSUME TypeOK, TypeOK', SeenKept, NEW t \in Threads, Return(t)
  PROVE  AS!AbstractNext
<1>1. job[t] \in Job /\ job' = [job EXCEPT ![t] = NoJob]
  BY DEF TypeOK, Return
<1>2. Todo[t] # NoJob
  BY <1>1, TodoFacts, TodoHere
<1>3. Todo' = [Todo EXCEPT ![t] = TodoOf(NoJob)]
  BY <1>1, TodoFunction
<1>4. TodoOf(NoJob) = NoJob
  BY DEF TodoOf
<1> QED BY <1>2, <1>3, <1>4, LeaveStep

\* The pages of a callback become what the request asked for.
LEMMA CallbackStep ==
  ASSUME TreeInv, TypeOK, TypeOK', NEW t \in Threads, job[t] # NoJob, job[t].pc \in Calling,
         NEW j, j = job[t], NEW phys \in Int, Advance(t, phys),
         \A s \in Spaces, v \in Pages : s # j.req.space \/ v \notin Done(j) => Steady(s, v),
         \A w \in Done(j) : AS!Becomes(j.req, w, Seen, Translate(j.req.space, w)')
  PROVE  AS!AbstractNext
<1> DEFINE n == Span[Target(j)]
<1>1. PICK k : /\ job' = [job EXCEPT ![t] = k] /\ k \in Job
               /\ k.req = j.req /\ k.v = j.v + n /\ k.left = j.left - n
  BY AdvanceFacts
<1>2. j \in Job /\ n \in Nat /\ n > 0 /\ n <= j.left /\ j.left \in Nat /\ j.v \in Nat
  BY InCallbackFacts, SpanFacts, JobTypes DEF TreeInv
<1>3. Done(j) = j.v .. j.v + n - 1
  BY DEF Done
<1>4. TodoOf(k) = [req |-> j.req, at |-> j.v + n, left |-> j.left - n]
  BY <1>1, TodoFacts
<1>5. Todo' = [Todo EXCEPT ![t] = TodoOf(k)]
  BY <1>1, TodoFunction
<1>6. Todo[t] = [req |-> j.req, at |-> j.v, left |-> j.left] /\ Todo[t] # NoJob
  BY <1>2, TodoFacts, TodoHere
<1>7. ASSUME NEW s \in Spaces, NEW p \in Pages
      PROVE  IF s = j.req.space /\ p \in Done(j)
               THEN AS!Becomes(j.req, p, Seen, Translate(s, p)')
               ELSE Translate(s, p)' = Translate(s, p)
  <2>1. CASE s = j.req.space /\ p \in Done(j)
    BY <2>1
  <2>2. CASE ~(s = j.req.space /\ p \in Done(j))
    <3>1. Steady(s, p)
      BY <2>2
    <3> QED BY <2>2, <3>1, SteadyFacts
  <2> QED BY <2>1, <2>2
<1>8. n \in 1..j.left
  BY <1>2
<1> HIDE DEF n
<1>9. PICK r, at, left : r = j.req /\ at = j.v /\ left = j.left
  OBVIOUS
<1>10. n \in 1..left /\ Todo[t] = [req |-> r, at |-> at, left |-> left]
  BY <1>6, <1>8, <1>9
<1>11. Todo' = [Todo EXCEPT ![t] = [req |-> r, at |-> at + n, left |-> left - n]]
  BY <1>4, <1>5, <1>9
<1>12. Served(r, at, n)
  BY <1>3, <1>7, <1>9 DEF Served
<1> QED BY <1>6, <1>10, <1>11, <1>12, ServeStep

\* The callback of a clone that finds nothing in the source.
LEMMA NothingBecomes ==
  ASSUME TreeInv, PageZeroStays, NoPcids, ZeroPages, NEW t \in Threads, CloneNothing(t),
         NEW j, j = job[t], NEW w \in Done(j), Steady(j.req.space, w)
  PROVE  AS!Becomes(j.req, w, Seen, Translate(j.req.space, w)')
<1>1. j.req.op = "clone" /\ job[t] # NoJob /\ job[t].pc \in Calling
  BY DEF CloneNothing, InCallback, Calling
<1>2. w \in Pages /\ j.req.space \in Spaces /\ j.req.src \in Spaces
  BY <1>1, CallbackPages, JobTypes DEF TreeInv, TypeInv, TypeOK
<1>3. ~Mapped(j.req.src, w)
  BY NothingToCopy
<1>4. Seen[j.req.src][w] = Unmapped
  BY <1>2, <1>3, SeenFacts, TranslateCases DEF TranslateShape
<1>5. Translate(j.req.space, w)' = Seen[j.req.space][w]
  BY <1>2, SeenFacts, SteadyFacts
<1>6. PICK m, r : m = Translate(j.req.space, w)' /\ r = j.req
  OBVIOUS
<1>7. r.op = "clone" /\ Seen[r.src][w] = Unmapped /\ m = Seen[r.space][w]
  BY <1>1, <1>4, <1>5, <1>6
<1>8. AS!Becomes(r, w, Seen, m)
  BY <1>7 DEF AS!Becomes
<1> QED BY <1>6, <1>8

LEMMA PageBecomes ==
  ASSUME NxFeature, TreeInv, LargeOutside, TypeInv', NEW t \in Threads, job[t] # NoJob,
         job[t].pc \in Calling, NEW j, j = job[t], NEW e, NEW phys, Serves(t, j, e, phys),
         NEW w \in Done(j)
  PROVE  AS!Becomes(j.req, w, Seen, Translate(j.req.space, w)')
<1>1. j.req.op \in {"map", "flyMap", "unmap", "flyUnmap", "setAttr", "clone"}
  BY DEF Serves, Entered
<1>2. CASE j.req.op = "map"
  BY <1>2, MapBecomes
<1>3. CASE j.req.op = "flyMap"
  BY <1>3, FlyMapBecomes
<1>4. CASE j.req.op \in {"unmap", "flyUnmap"}
  BY <1>4, UnmapBecomes
<1>5. CASE j.req.op = "setAttr"
  BY <1>5, SetAttrBecomes
<1>6. CASE j.req.op = "clone"
  BY <1>6, CloneBecomes
<1> QED BY <1>1, <1>2, <1>3, <1>4, <1>5, <1>6

\* What the refinement rests on.
RefineInv == TreeInv /\ ZeroInv /\ LargeOutside

LEMMA RefineStep ==
  ASSUME NoThirdBit, NxFeature, PageZeroStays, RefineInv, RefineInv', [Next]_vars
  PROVE  [AS!AbstractNext]_AS!avars
<1>0. /\ TreeInv /\ TreeInv' /\ TypeInv /\ TypeInv' /\ TypeOK /\ TypeOK'
      /\ NoPcids /\ ZeroPages /\ LargeOutside
  BY DEF RefineInv, TreeInv, TypeInv, ZeroInv
<1>1. ASSUME \/ UNCHANGED <<mem, root>>
             \/ \E x \in Spaces : CreatePageTables(x)
             \/ \E t \in Threads : MakeTable(t)
      PROVE  SeenKept
  BY <1>0, <1>1, StepsAreSteady, SteadySeen
<1>2. ASSUME SeenKept, UNCHANGED job PROVE UNCHANGED AS!avars
  <2>1. Todo' = Todo
    BY <1>2 DEF Todo, TodoOf
  <2> QED BY <1>2, <2>1, StutterStep
<1>3. ASSUME NEW t \in Threads, job[t] # NoJob, SeenKept,
             Look(t) \/ Down(t) \/ Fail(t) \/ MakeTable(t) \/ FlyUnmapFree(t) \/ Strays(t, job[t])
      PROVE  UNCHANGED AS!avars
  <2>1. PICK j : j = job[t]
    OBVIOUS
  <2>2. Look(t) \/ Down(t) \/ Fail(t) \/ MakeTable(t) \/ FlyUnmapFree(t) \/ Strays(t, j)
    BY <1>3, <2>1
  <2>3. PICK k : Moved(t, j, k)
    BY <1>0, <1>3, <2>1, <2>2, WalkMoves
  <2> QED BY <1>0, <1>3, <2>1, <2>3, MovedStep
<1>4. ASSUME NEW t \in Threads, SeenKept, Call(t) PROVE AS!AbstractNext
  BY <1>0, <1>4, CallMoves, CalledStep
<1>5. ASSUME NEW t \in Threads, SeenKept, Return(t) PROVE AS!AbstractNext
  BY <1>0, <1>5, ReturnStep
<1>6. ASSUME NEW t \in Threads, CloneNothing(t) PROVE AS!AbstractNext
  <2>1. PICK j : j = job[t]
    OBVIOUS
  <2>2. job[t] # NoJob /\ job[t].pc \in Calling /\ UNCHANGED <<mem, root>> /\ Advance(t, j.phys)
    BY <1>6, <2>1 DEF CloneNothing, InCallback, Calling
  <2>3. \A s \in Spaces, v \in Pages : Steady(s, v)
    BY <1>0, <2>2, StepsAreSteady
  <2>4. j \in Job /\ j.phys \in Int /\ j.req.space \in Spaces
    BY <1>0, <2>1, <2>2, JobTypes DEF TypeOK
  <2>5. \A w \in Done(j) : AS!Becomes(j.req, w, Seen, Translate(j.req.space, w)')
    <3>1. ASSUME NEW w \in Done(j)
          PROVE  AS!Becomes(j.req, w, Seen, Translate(j.req.space, w)')
      <4>1. Steady(j.req.space, w)
        BY <1>0, <2>1, <2>2, <2>3, <2>4, CallbackPages
      <4> QED BY <1>0, <1>6, <2>1, <4>1, NothingBecomes
    <3> QED BY <3>1
  <2> QED BY <1>0, <2>1, <2>2, <2>3, <2>4, <2>5, CallbackStep
<1>7. ASSUME NEW t \in Threads, job[t] # NoJob, job[t].pc \in Calling, NEW e, NEW phys,
             Serves(t, job[t], e, phys)
      PROVE  AS!AbstractNext
  <2>1. PICK j : j = job[t]
    OBVIOUS
  <2>2. Serves(t, j, e, phys)
    BY <1>7, <2>1
  <2>3. ServedPages(j, e)
    BY <1>0, <1>7, <2>1, <2>2, ServesPages
  <2>4. \A s \in Spaces, v \in Pages : s # j.req.space \/ v \notin Done(j) => Steady(s, v)
    BY <2>3 DEF ServedPages
  <2>5. \A w \in Done(j) : AS!Becomes(j.req, w, Seen, Translate(j.req.space, w)')
    BY <1>0, <1>7, <2>1, <2>2, PageBecomes
  <2>6. Advance(t, phys) /\ phys \in Int
    BY <2>2 DEF Serves
  <2> QED BY <1>0, <1>7, <2>1, <2>4, <2>5, <2>6, CallbackStep
<1>8. CASE UNCHANGED vars
  BY <1>1, <1>2, <1>8 DEF vars
<1>9. CASE Next
  <2>1. CASE \E s \in Spaces : CreatePageTables(s)
    <3>1. UNCHANGED job
      BY <2>1 DEF CreatePageTables
    <3> QED BY <1>1, <1>2, <2>1, <3>1
  <2>2. CASE \E t \in Threads : MakeTable(t)
    BY <1>1, <1>3, <2>2 DEF MakeTable
  <2>3. CASE \E t \in Threads : UNCHANGED <<mem, root>> /\ (Call(t) \/ Look(t) \/ Down(t) \/ Return(t))
    BY <1>1, <1>3, <1>4, <1>5, <2>3 DEF Look, Down
  <2>4. CASE \E t \in Threads : UNCHANGED <<mem, root>> /\ job[t] # NoJob /\ Fail(t)
    BY <1>1, <1>3, <2>4
  <2>5. CASE \E t \in Threads : UNCHANGED <<mem, root>> /\ CloneNothing(t)
    BY <1>6, <2>5
  <2>6. CASE \E t \in Threads : Strays(t, job[t]) /\ job[t] # NoJob /\ job[t].pc \in Calling
    <3>1. PICK t \in Threads : Strays(t, job[t]) /\ job[t] # NoJob
      BY <2>6
    <3>2. UNCHANGED <<mem, root>>
      BY <3>1 DEF Strays
    <3> QED BY <1>1, <1>3, <3>1, <3>2
  <2>7. CASE \E t \in Threads : \E e, phys :
               job[t] # NoJob /\ job[t].pc \in Calling /\ Serves(t, job[t], e, phys)
    BY <1>7, <2>7
  <2>8. CASE \E t \in Threads : UNCHANGED <<mem, root>> /\ FlyUnmapFree(t) /\ job[t] # NoJob
    BY <1>1, <1>3, <2>8
  <2> QED BY <1>0, <1>9, <2>1, <2>2, <2>3, <2>4, <2>5, <2>6, <2>7, <2>8, EveryStep
<1> QED BY <1>8, <1>9

LEMMA RefineInit == ASSUME Init PROVE AS!AbstractInit
<1>1. \A s \in Spaces, v \in Pages : Translate(s, v) = Unmapped
  BY NothingMapped, TranslateCases DEF TranslateShape
<1>2. \A t \in Threads : TodoOf(job[t]) = NoJob
  BY DEF Init, TodoOf
<1> QED BY <1>1, <1>2 DEF AS!AbstractInit

\* With the tables hidden, the pager is an AddressSpace: looking, descending, making a
\* table, failing and creating a space change no translation of any space, and a callback
\* changes those of its own pages alone, into what the request asked for.  A page has no
\* right beyond those asked for and, where bit 0 of the page attribute was given, the
\* user's, for which get_entry_bits takes that bit (without the no-execute bit every page
\* can be executed, so the processor is to have it).  A page given to two spaces is told
\* apart from one whose frame pager_fly_unmap_callback has freed and whose entry it is
\* about to clear.
THEOREM PagerIsAnAddressSpace ==
  ASSUME Serialised, NoThirdBit, NoPcidsGiven, PageZeroStays, NxFeature
  PROVE  Spec => ImplementsAddressSpace
<1>1. TreeInv /\ [Next]_vars => TreeInv'
  BY TreeNext
<1>2. Init => ZeroInv /\ LargeOutside
  <2>1. Init => ZeroInv
    BY ZeroInit
  <2>2. ASSUME Init, NEW s \in Spaces, NEW v \in Pages PROVE ~(LeafLevel(s, v) > 1)
    <3>1. ~Mapped(s, v)
      BY <2>2, NothingMapped
    <3> QED BY <3>1 DEF Mapped
  <2> QED BY <2>1, <2>2 DEF LargeOutside
<1>3. TreeInv /\ TreeInv' /\ ZeroInv /\ [Next]_vars => ZeroInv'
  BY ZeroNext
<1>4. TreeInv /\ TreeInv' /\ LargeOutside /\ [Next]_vars => LargeOutside'
  BY LargeNext
<1>5. RefineInv /\ RefineInv' /\ [Next]_vars => [AS!AbstractNext]_AS!avars
  BY RefineStep
<1>6. Init => AS!AbstractInit
  BY RefineInit
<1> QED BY TreeInit, <1>1, <1>2, <1>3, <1>4, <1>5, <1>6, PTL
        DEF Spec, ImplementsAddressSpace, RefineInv, AS!AbstractSpec
=============================================================================
