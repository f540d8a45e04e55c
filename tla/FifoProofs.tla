------------------------------ MODULE FifoProofs ------------------------------
(***************************************************************************)
(* The FIFO delivers everything, once and in order, to every reader, for   *)
(* every capacity, token size and width of the counts, any number of       *)
(* readers, and any assignment of the actors to CPUs; and no two CPUs use  *)
(* the same slot at a time.                                                *)
(***************************************************************************)
EXTENDS ArtFifo, WellFoundedInduction, TLAPS

-----------------------------------------------------------------------------
(* Division.                                                               *)

LEMMA DivMod ==
  ASSUME NEW a \in Int, NEW b \in Nat \ {0}
  PROVE  a % b \in 0 .. b - 1 /\ a \div b \in Int /\ a = b * (a \div b) + (a % b)
OBVIOUS

LEMMA RemainderUnique ==
  ASSUME NEW a \in Int, NEW b \in Nat \ {0}, NEW q \in Int, NEW r \in 0 .. b - 1,
         a = b * q + r
  PROVE  a % b = r
OBVIOUS

LEMMA NoMultiple ==
  ASSUME NEW b \in Nat \ {0}, NEW q \in Int, b * q > -b, b * q < b
  PROVE  q = 0
OBVIOUS

LEMMA ModAdd ==
  ASSUME NEW a \in Int, NEW b \in Nat \ {0}, NEW k \in 0 .. b
  PROVE  (a + k) % b = IF (a % b) + k < b THEN (a % b) + k ELSE (a % b) + k - b
<1>1. PICK q \in Int, r \in 0 .. b - 1 : a = b * q + r /\ a % b = r
  BY DivMod
<1>2. CASE r + k < b
  <2>1. PICK x \in Int, s \in 0 .. b - 1 : x = a + k /\ s = r + k
    BY <1>1, <1>2
  <2>2. x = b * q + s
    BY <1>1, <2>1
  <2>3. x % b = s
    BY <2>2, RemainderUnique
  <2> QED BY <1>1, <1>2, <2>1, <2>3
<1>3. CASE ~(r + k < b)
  <2>1. b * (q + 1) = b * q + b
    OBVIOUS
  <2>2. PICK x \in Int, s \in 0 .. b - 1, p \in Int : x = a + k /\ s = r + k - b /\ p = q + 1
    BY <1>1, <1>3
  <2>3. x = b * p + s
    BY <1>1, <2>1, <2>2
  <2>4. x % b = s
    BY <2>3, RemainderUnique
  <2> QED BY <1>1, <1>3, <2>2, <2>4
<1> QED BY <1>1, <1>2, <1>3

LEMMA ModShift ==
  ASSUME NEW a \in Int, NEW b \in Nat \ {0}, NEW k \in Int
  PROVE  ((a % b) + k) % b = (a + k) % b
<1>1. PICK q \in Int, r \in 0 .. b - 1 : a = b * q + r /\ a % b = r
  BY DivMod
<1>2. PICK x \in Int, y \in Int : x = r + k /\ y = a + k
  BY <1>1
<1>3. PICK p \in Int, s \in 0 .. b - 1 : x = b * p + s /\ x % b = s
  BY DivMod
<1>4. PICK o \in Int : o = q + p
  OBVIOUS
<1>5. b * o = b * q + b * p
  BY <1>4
<1>6. y = b * o + s
  BY <1>1, <1>2, <1>3, <1>5
<1>7. y % b = s
  BY <1>6, RemainderUnique
<1> QED BY <1>1, <1>2, <1>3, <1>7

LEMMA ModDistinct ==
  ASSUME NEW a \in Int, NEW c \in Int, NEW b \in Nat \ {0},
         a - c < b, c - a < b, a % b = c % b
  PROVE  a = c
<1>1. PICK q \in Int, r \in 0 .. b - 1 : a = b * q + r /\ a % b = r
  BY DivMod
<1>2. PICK p \in Int, s \in 0 .. b - 1 : c = b * p + s /\ c % b = s
  BY DivMod
<1>3. b * (q - p) = b * q - b * p
  OBVIOUS
<1>4. a - c = b * (q - p)
  BY <1>1, <1>2, <1>3
<1>5. q - p = 0
  BY <1>4, NoMultiple
<1> QED BY <1>1, <1>2, <1>5

\* A multiple of u below another is at least u below it.
LEMMA NextMultiple ==
  ASSUME NEW u \in Nat \ {0}, NEW a \in Int, NEW b \in Int, a % u = 0, b % u = 0, a < b
  PROVE  a + u <= b
<1>1. PICK q \in Int : a = u * q
  <2>1. a % u \in 0 .. u - 1 /\ a \div u \in Int /\ a = u * (a \div u) + (a % u)
    BY DivMod
  <2>2. u * (a \div u) + 0 = u * (a \div u)
    BY <2>1
  <2> QED BY <2>1, <2>2
<1>2. PICK p \in Int : b = u * p
  <2>1. b % u \in 0 .. u - 1 /\ b \div u \in Int /\ b = u * (b \div u) + (b % u)
    BY DivMod
  <2>2. u * (b \div u) + 0 = u * (b \div u)
    BY <2>1
  <2> QED BY <2>1, <2>2
<1>3. u * (p - q) = u * p - u * q
  OBVIOUS
<1>4. p - q >= 1
  <2>1. p - q <= 0 => u * (p - q) <= 0
    OBVIOUS
  <2> QED BY <1>1, <1>2, <1>3, <2>1
<1>5. u * (p - q) >= u
  BY <1>4
<1> QED BY <1>1, <1>2, <1>3, <1>5

\* Modulo a multiple of u, a multiple of u stays one.
LEMMA MultipleAhead ==
  ASSUME NEW u \in Nat \ {0}, NEW b \in Nat \ {0}, b % u = 0,
         NEW d \in Nat, (d % b) % u = 0, NEW j \in Nat
  PROVE  ((d + j * u) % b) % u = 0
<1>1. PICK c \in Int : b = u * c
  <2>1. b % u \in 0 .. u - 1 /\ b \div u \in Int /\ b = u * (b \div u) + (b % u)
    BY DivMod
  <2> QED BY <2>1
<1>2. PICK p \in Int, s \in 0 .. b - 1 : d = b * p + s /\ d % b = s
  <2>1. d % b \in 0 .. b - 1 /\ d \div b \in Int /\ d = b * (d \div b) + (d % b)
    BY DivMod
  <2> QED BY <2>1
<1>3. PICK x \in Int : s = u * x
  <2>1. s % u \in 0 .. u - 1 /\ s \div u \in Int /\ s = u * (s \div u) + (s % u)
    BY DivMod
  <2>2. s % u = 0
    BY <1>2
  <2>3. u \in Int /\ u * (s \div u) + 0 = u * (s \div u)
    BY <2>1
  <2> QED BY ONLY <2>1, <2>2, <2>3
<1>4. PICK e \in Nat : e = d + j * u
  OBVIOUS
<1>5. PICK q \in Int, r \in 0 .. b - 1 : e = b * q + r /\ e % b = r
  <2>1. e % b \in 0 .. b - 1 /\ e \div b \in Int /\ e = b * (e \div b) + (e % b)
    BY DivMod
  <2> QED BY <2>1
<1>6. PICK y \in Int : y = c * p + x + j - c * q
  OBVIOUS
<1>7. r = u * y + 0
  <2>1. b * p = u * (c * p) /\ b * q = u * (c * q)
    BY <1>1
  <2>2. u * y = u * (c * p) + u * x + u * j - u * (c * q)
    BY <1>6
  <2> QED BY <1>2, <1>3, <1>4, <1>5, <2>1, <2>2
<1>8. r % u = 0
  <2>1. 0 \in 0 .. u - 1
    OBVIOUS
  <2> QED BY <1>7, <2>1, RemainderUnique
<1> QED BY <1>4, <1>5, <1>8

-----------------------------------------------------------------------------
(* Counts wrap.                                                            *)

\* How many values a count has.
Counts == 2 * Half

LEMMA HalfFacts ==
  /\ Half \in Nat \ {0} /\ Counts \in Nat \ {0} /\ Cap \in Nat \ {0} /\ Cap < Half
BY FifoAssumption DEF Counts

LEMMA WrappedFacts ==
  ASSUME NEW x \in Int
  PROVE  /\ Wrapped(x) \in -Half .. Half - 1
         /\ \E q \in Int : x = Counts * q + Wrapped(x)
<1>1. Half \in Nat \ {0} /\ Counts \in Nat \ {0} /\ Counts = 2 * Half
  BY HalfFacts DEF Counts
<1>2. PICK y \in Int : y = x + Half
  BY <1>1
<1>3. PICK q \in Int, r \in 0 .. Counts - 1 : y = Counts * q + r /\ y % Counts = r
  BY <1>1, DivMod
<1>4. Wrapped(x) = r - Half
  BY <1>1, <1>2, <1>3 DEF Wrapped
<1> QED BY <1>1, <1>2, <1>3, <1>4

\* Numbers that differ by a multiple of the range of a count are one count.
LEMMA WrappedSame ==
  ASSUME NEW x \in Int, NEW y \in -Half .. Half - 1, NEW q \in Int, x = Counts * q + y
  PROVE  Wrapped(x) = y
<1>1. Half \in Nat \ {0} /\ Counts \in Nat \ {0} /\ Counts = 2 * Half
  BY HalfFacts DEF Counts
<1>2. PICK z \in Int, r \in 0 .. Counts - 1 : z = x + Half /\ r = y + Half
  BY <1>1
<1>3. z = Counts * q + r
  BY <1>1, <1>2
<1>4. z % Counts = r
  BY <1>1, <1>3, RemainderUnique
<1> QED BY <1>1, <1>2, <1>4 DEF Wrapped

LEMMA WrappedTwice ==
  ASSUME NEW x \in Int
  PROVE  Wrapped(Wrapped(x)) = Wrapped(x)
<1>1. Wrapped(x) \in -Half .. Half - 1 /\ Half \in Nat /\ Counts \in Nat
  BY WrappedFacts, HalfFacts
<1>2. Wrapped(x) = Counts * 0 + Wrapped(x)
  BY <1>1
<1> QED BY <1>1, <1>2, WrappedSame

\* What is added to a count is added to what it stands for.
LEMMA WrappedSum ==
  ASSUME NEW x \in Int, NEW n \in Int
  PROVE  Wrapped(Wrapped(x) + n) = Wrapped(x + n)
<1>1. Half \in Nat /\ Counts \in Nat
  BY HalfFacts
<1>2. PICK w \in -Half .. Half - 1, q \in Int : x = Counts * q + w /\ Wrapped(x) = w
  BY WrappedFacts
<1>3. PICK v \in -Half .. Half - 1, p \in Int : w + n = Counts * p + v /\ Wrapped(w + n) = v
  BY WrappedFacts
<1>4. Counts * (q + p) = Counts * q + Counts * p
  BY <1>1
<1>5. x + n = Counts * (q + p) + v
  BY <1>1, <1>2, <1>3, <1>4
<1>6. Wrapped(x + n) = v
  BY <1>5, WrappedSame
<1> QED BY <1>2, <1>3, <1>6

\* The difference of two counts that are close is that of what they stand for.
LEMMA WrappedDifference ==
  ASSUME NEW x \in Int, NEW y \in Int, x - y \in 0 .. Cap
  PROVE  Wrapped(Wrapped(x) - Wrapped(y)) = x - y
<1>1. Half \in Nat /\ Counts \in Nat /\ Cap \in Nat /\ Cap < Half
  BY HalfFacts
<1>2. PICK w \in -Half .. Half - 1, q \in Int : x = Counts * q + w /\ Wrapped(x) = w
  BY WrappedFacts
<1>3. PICK v \in -Half .. Half - 1, p \in Int : y = Counts * p + v /\ Wrapped(y) = v
  BY WrappedFacts
<1>4. Counts * (p - q) = Counts * p - Counts * q
  BY <1>1
<1>5. w - v = Counts * (p - q) + (x - y) /\ x - y \in -Half .. Half - 1
  BY <1>1, <1>2, <1>3, <1>4
<1>6. Wrapped(w - v) = x - y
  BY <1>5, WrappedSame
<1> QED BY <1>2, <1>3, <1>6

-----------------------------------------------------------------------------
(* The ring.                                                               *)

\* The slot of unit number d + 1, and where a port is that has used d units.
Ring(d) == -Cap + (d % Cap)

\* A position at which a token may begin.
Aligned(pos) == (pos + Cap) % unit = 0

LEMMA RingFacts ==
  ASSUME NEW d \in Int
  PROVE  /\ Ring(d) \in Slot
         /\ Ring(d) \in -Cap .. -1
         /\ \A k \in 0 .. Cap :
              Ring(d + k) = IF Ring(d) + k < 0 THEN Ring(d) + k ELSE Ring(d) + k - Cap
<1>1. Cap \in Nat \ {0}
  BY HalfFacts
<1>2. PICK r \in 0 .. Cap - 1 : r = d % Cap
  BY <1>1, DivMod
<1>3. ASSUME NEW k \in 0 .. Cap
      PROVE  Ring(d + k) = IF Ring(d) + k < 0 THEN Ring(d) + k ELSE Ring(d) + k - Cap
  <2>1. (d + k) % Cap = IF r + k < Cap THEN r + k ELSE r + k - Cap
    BY <1>1, <1>2, ModAdd
  <2> QED BY <1>1, <1>2, <2>1 DEF Ring
<1> QED BY <1>1, <1>2, <1>3 DEF Ring, Slot

LEMMA RingDistinct ==
  ASSUME NEW a \in Int, NEW b \in Int, a - b < Cap, b - a < Cap, Ring(a) = Ring(b)
  PROVE  a = b
<1>1. Cap \in Nat \ {0}
  BY HalfFacts
<1>2. PICK r \in 0 .. Cap - 1 : r = a % Cap
  BY <1>1, DivMod
<1>3. PICK s \in 0 .. Cap - 1 : s = b % Cap
  BY <1>1, DivMod
<1>4. r = s
  BY <1>1, <1>2, <1>3 DEF Ring
<1> QED BY <1>1, <1>2, <1>3, <1>4, ModDistinct

LEMMA UnitFacts ==
  ASSUME unit \in Units
  PROVE  unit \in Nat \ {0} /\ Cap % unit = 0 /\ unit <= Cap /\ Cap \in Nat \ {0}
<1>1. unit \in Nat \ {0} /\ Cap % unit = 0 /\ Cap \in Nat \ {0}
  BY FifoAssumption
<1>2. 0 % unit = 0
  BY <1>1
<1>3. 0 + unit <= Cap
  BY <1>1, <1>2, NextMultiple
<1> QED BY <1>1, <1>3

\* A token that begins at an aligned position fits, and the next is aligned.
LEMMA TokenFits ==
  ASSUME unit \in Units, NEW pos \in Slot, Aligned(pos)
  PROVE  /\ pos + unit <= 0
         /\ Advance(pos, unit) \in Slot /\ Aligned(Advance(pos, unit))
<1>1. PICK u \in Nat \ {0}, b \in Nat \ {0} : u = unit /\ b = Cap /\ b % u = 0
  BY UnitFacts
<1>2. PICK a \in Int : a = pos + b /\ a < b /\ a >= 0 /\ a % u = 0
  BY <1>1 DEF Aligned, Slot
<1>3. a + u <= b
  BY <1>1, <1>2, NextMultiple
<1>4. pos \in Int /\ pos = a - b
  BY <1>1, <1>2 DEF Slot
<1>5. CASE pos + u >= 0
  <2>1. Advance(pos, unit) = -b
    BY <1>1, <1>5 DEF Advance
  <2>2. -b + b = 0 /\ 0 % u = 0
    BY <1>1
  <2> QED BY <1>1, <1>3, <1>4, <2>1, <2>2 DEF Aligned, Slot
<1>6. CASE pos + u < 0
  <2>1. Advance(pos, unit) = pos + u
    BY <1>1, <1>4, <1>6 DEF Advance
  <2>2. (a + u) % u = 0
    <3>1. PICK k \in 0 .. u : k = u
      BY <1>1
    <3>2. (a + k) % u = IF (a % u) + k < u THEN (a % u) + k ELSE (a % u) + k - u
      BY ONLY ModAdd, a \in Int, u \in Nat \ {0}, k \in 0 .. u
    <3> QED BY <1>1, <1>2, <3>1, <3>2
  <2>3. pos + u + b = a + u
    BY <1>1, <1>4
  <2>4. (pos + u + b) % u = 0
    BY <2>2, <2>3
  <2> QED BY <1>1, <1>2, <1>4, <1>6, <2>1, <2>4 DEF Aligned, Slot
<1> QED BY <1>1, <1>3, <1>4, <1>5, <1>6

\* way accesses the n units after the first d, and leaves the position after
\* them.
Right(way, d, n) ==
  /\ \A k \in 1 .. n : way.slots[k] = Ring(d + (k - 1))
  /\ way.next = Ring(d + n) /\ Aligned(way.next)

LEMMA SingleRight ==
  ASSUME unit \in Units, NEW d \in Nat, Aligned(Ring(d))
  PROVE  Right(Single(Ring(d)), d, unit)
<1>1. PICK pos \in Slot : pos = Ring(d)
  BY RingFacts
<1>2. unit \in Nat \ {0} /\ unit <= Cap /\ Cap \in Nat \ {0} /\ pos \in -Cap .. -1
  BY UnitFacts DEF Slot
<1>3. pos + unit <= 0 /\ Aligned(Advance(pos, unit))
  BY <1>1, TokenFits
<1>4. \A k \in 0 .. Cap : Ring(d + k) = IF pos + k < 0 THEN pos + k ELSE pos + k - Cap
  <2>1. d \in Int
    OBVIOUS
  <2> QED BY ONLY <1>1, <2>1, RingFacts
<1>5. Advance(pos, unit) = Ring(d + unit)
  BY <1>2, <1>3, <1>4 DEF Advance
<1>6. ASSUME NEW k \in 1 .. unit PROVE pos + k - 1 = Ring(d + (k - 1))
  <2>1. PICK j \in 0 .. Cap : j = k - 1 /\ pos + j < 0
    BY <1>2, <1>3
  <2>2. Ring(d + j) = pos + j
    BY <1>4, <2>1
  <2> QED BY <1>2, <2>1, <2>2
<1> QED BY <1>1, <1>3, <1>5, <1>6 DEF Right, Single

LEMMA RepeatRight ==
  ASSUME unit \in Units, unit = 1, NEW d \in Nat, NEW n \in 1 .. Cap
  PROVE  Right(Repeat(Ring(d), n), d, n)
<1>1. PICK pos \in Slot : pos = Ring(d)
  BY RingFacts
<1>2. Cap \in Nat \ {0} /\ pos \in -Cap .. -1
  BY UnitFacts DEF Slot
<1>3. \A k \in 0 .. Cap : Ring(d + k) = IF pos + k < 0 THEN pos + k ELSE pos + k - Cap
  <2>1. d \in Int
    OBVIOUS
  <2> QED BY ONLY <1>1, <2>1, RingFacts
<1>4. ASSUME NEW k \in 1 .. n
      PROVE  (IF pos + k <= 0 THEN pos + k - 1 ELSE AfterWrap(pos, k - 1)) = Ring(d + (k - 1))
  <2>1. PICK j \in 0 .. Cap : j = k - 1
    BY <1>2
  <2>2. Ring(d + j) = IF pos + j < 0 THEN pos + j ELSE pos + j - Cap
    BY <1>3
  <2> QED BY <1>2, <2>1, <2>2 DEF AfterWrap
<1>5. Repeat(pos, n).next = Ring(d + n)
  <2>1. n \in 0 .. Cap
    BY <1>2
  <2>2. Ring(d + n) = IF pos + n < 0 THEN pos + n ELSE pos + n - Cap
    BY <1>3, <2>1
  <2> QED BY <1>2, <2>1, <2>2 DEF Repeat, AfterWrap
<1>6. Aligned(Ring(d + n))
  <2>1. PICK r \in Slot : r = Ring(d + n)
    BY RingFacts
  <2>2. \A x \in Int : x % 1 = 0
    OBVIOUS
  <2> QED BY <1>2, <2>1, <2>2 DEF Aligned, Slot
<1> QED BY <1>1, <1>4, <1>5, <1>6 DEF Right, Repeat

-----------------------------------------------------------------------------
(* Peeking.                                                                *)

LEMMA LeastNatural ==
  ASSUME NEW S, S \subseteq Nat, S # {}
  PROVE  \E n \in S : \A m \in S : n <= m
<1> DEFINE R == OpToRel(<, Nat)
<1>1. IsWellFoundedOn(R, Nat)
  BY NatLessThanWellFounded
<1>2. \E x \in S : \A y \in S : ~ (<<y, x>> \in R)
  <2> HIDE DEF R
  <2> QED BY <1>1, WFMin
<1>3. \A x, y \in Nat : <<y, x>> \in R <=> y < x
  BY DEF OpToRel
<1> HIDE DEF R
<1>4. PICK x \in S : \A y \in S : ~ (<<y, x>> \in R)
  BY <1>2
<1>5. ASSUME NEW y \in S PROVE x <= y
  <2>1. x \in Nat /\ y \in Nat
    OBVIOUS
  <2>2. ~(y < x)
    BY <1>3, <1>4, <2>1, Zenon
  <2> QED BY <2>1, <2>2
<1> QED BY <1>5

\* A number of tokens further on is aligned again.
LEMMA AlignedAhead ==
  ASSUME unit \in Units, NEW d \in Nat, Aligned(Ring(d)), NEW j \in Nat
  PROVE  j * unit \in Nat /\ Aligned(Ring(d + j * unit))
<1>1. PICK u \in Nat \ {0}, b \in Nat \ {0} : u = unit /\ b = Cap /\ b % u = 0
  BY UnitFacts
<1>2. (d % b) % u = 0
  <2>1. d % b \in Int
    <3>1. d \in Int
      OBVIOUS
    <3> QED BY ONLY <1>1, <3>1, DivMod
  <2>2. -b + (d % b) + b = d % b
    BY <2>1
  <2> QED BY <1>1, <2>2 DEF Aligned, Ring
<1>3. PICK e \in Int : e = d + j * u
  OBVIOUS
<1>4. e % b \in Int /\ (e % b) % u = 0
  <2>1. e % b \in Int
    BY DivMod
  <2>2. b % u = 0 /\ d \in Nat /\ j \in Nat
    BY <1>1
  <2>3. ((d + j * u) % b) % u = 0
    BY ONLY <1>2, <2>2, MultipleAhead
  <2> QED BY <1>3, <2>1, <2>3
<1>5. -b + (e % b) + b = e % b
  BY <1>4
<1> QED BY <1>1, <1>3, <1>4, <1>5 DEF Aligned, Ring

\* pinPeek and pinPeek_bytes find the token that is j tokens ahead, although
\* the latter goes there token by token: it is where one addition modulo the
\* capacity leads, the calculation that the TODO in pinPeek_bytes asks for.
THEOREM PeekDirect ==
  ASSUME unit \in Units, NEW d \in Nat, Aligned(Ring(d)), NEW j \in Nat, j * unit <= Cap
  PROVE  PeekSlot(Ring(d), j) = -Cap + ((d + j * unit) % Cap)
<1>1. PICK u \in Nat \ {0}, b \in Nat \ {0} : u = unit /\ b = Cap
  BY UnitFacts
<1> DEFINE At(k) == Ring(d + k * u)
<1>2. ASSUME NEW k \in Nat
      PROVE  At(k) \in Slot /\ Aligned(At(k)) /\ At(k + 1) = Advance(At(k), u)
  <2>1. PICK e \in Nat : e = d + k * u
    OBVIOUS
  <2>2. Aligned(Ring(e))
    BY <1>1, <2>1, AlignedAhead
  <2>3. Right(Single(Ring(e)), e, unit)
    BY <2>2, SingleRight
  <2>4. d + (k + 1) * u = e + u
    BY <2>1
  <2>5. Ring(e) \in Slot
    BY <2>1, RingFacts
  <2> QED BY <1>1, <2>1, <2>2, <2>3, <2>4, <2>5 DEF Right, Single
<1>3. At(0) = Ring(d)
  <2>1. d + 0 * u = d
    OBVIOUS
  <2> QED BY <2>1
<1>4. CASE unit > 1
  <2> DEFINE Steps(f) == [k \in 0 .. j |-> IF k = 0 THEN Ring(d) ELSE Advance(f[k - 1], unit)]
             ahead == CHOOSE f : f = Steps(f)
             path == [k \in 0 .. j |-> At(k)]
  <2>1. path = Steps(path)
    <3>1. ASSUME NEW k \in 0 .. j, k # 0 PROVE path[k] = Advance(path[k - 1], unit)
      <4>1. PICK i \in Nat : k = i + 1 /\ i \in 0 .. j
        BY <3>1
      <4>2. At(i + 1) = Advance(At(i), u)
        BY <1>2
      <4>3. path[k] = At(k) /\ path[i] = At(i) /\ k - 1 = i
        BY <4>1
      <4> HIDE DEF At
      <4> QED BY <1>1, <4>1, <4>2, <4>3
    <3>2. path[0] = Ring(d)
      BY <1>3
    <3> HIDE DEF At
    <3> QED BY <3>1, <3>2
  <2>2. ahead = Steps(ahead)
    <3> HIDE DEF Steps, path
    <3> QED BY <2>1
  <2> DEFINE Wrong == {k \in 0 .. j : ahead[k] # At(k)}
  <2> HIDE DEF At, ahead
  <2>3. Wrong = {}
    <3>1. SUFFICES ASSUME Wrong # {} PROVE FALSE
      OBVIOUS
    <3>2. Wrong \subseteq Nat
      OBVIOUS
    <3>3. PICK k \in Wrong : \A i \in Wrong : k <= i
      <4> HIDE DEF Wrong
      <4> QED BY <3>1, <3>2, LeastNatural
    <3>4. k # 0
      BY <1>3, <2>2
    <3>5. PICK i \in Nat : k = i + 1 /\ i \in 0 .. j /\ k - 1 = i
      BY <3>4
    <3>6. ahead[i] = At(i)
      BY <3>3, <3>5
    <3>7. ahead[k] = Advance(ahead[k - 1], unit)
      BY <2>2, <3>4
    <3>8. At(i + 1) = Advance(At(i), u)
      BY <1>2
    <3> QED BY <1>1, <3>5, <3>6, <3>7, <3>8
  <2>4. PeekSlot(Ring(d), j) = ahead[j]
    BY <1>4 DEF PeekSlot, ahead
  <2>5. ahead[j] = At(j)
    BY <2>3
  <2> QED BY <1>1, <2>4, <2>5 DEF At, Ring
<1>5. CASE ~(unit > 1)
  <2>1. unit = 1 /\ j \in 0 .. Cap /\ j * unit = j
    BY <1>1, <1>5
  <2>2. PICK pos \in -b .. -1 : pos = Ring(d) /\
          \A k \in 0 .. b : Ring(d + k) = IF pos + k < 0 THEN pos + k ELSE pos + k - b
    <3>1. d \in Int
      OBVIOUS
    <3> QED BY ONLY <1>1, <3>1, RingFacts
  <2>3. Ring(d + j) = IF pos + j < 0 THEN pos + j ELSE pos + j - b
    BY <1>1, <2>1, <2>2
  <2>4. PeekSlot(Ring(d), j) = IF pos + j >= 0 THEN pos + j - b ELSE pos + j
    BY <1>1, <1>5, <2>2 DEF PeekSlot
  <2>5. PeekSlot(Ring(d), j) = Ring(d + j)
    BY <1>1, <2>2, <2>3, <2>4
  <2> QED BY <2>1, <2>5 DEF Ring
<1> QED BY <1>4, <1>5

LEMMA PeekedRight ==
  ASSUME unit \in Units, NEW d \in Nat, Aligned(Ring(d)), NEW n \in 1 .. Cap
  PROVE  \A k \in 1 .. n : Peeked(Ring(d), n)[k] = Ring(d + (k - 1))
<1>1. PICK u \in Nat \ {0}, b \in Nat \ {0} : u = unit /\ b = Cap
  BY UnitFacts
<1>2. SUFFICES ASSUME NEW k \in 1 .. n
               PROVE  PeekSlot(Ring(d), (k - 1) \div u) + ((k - 1) % u) = Ring(d + (k - 1))
  BY <1>1 DEF Peeked
<1>3. PICK i \in Nat : i = k - 1 /\ i <= b
  BY <1>1
<1>4. PICK j \in Nat, m \in 0 .. u - 1 : i = u * j + m /\ i \div u = j /\ i % u = m
  <2>1. i % u \in 0 .. u - 1 /\ i \div u \in Nat /\ i = u * (i \div u) + (i % u)
    OBVIOUS
  <2> QED BY <2>1
<1>5. PICK e \in Nat : e = d + j * unit /\ j * unit <= Cap
  BY <1>1, <1>3, <1>4
<1>6. PeekSlot(Ring(d), j) = Ring(e)
  BY <1>5, PeekDirect DEF Ring
<1>7. Right(Single(Ring(e)), e, unit)
  BY <1>5, AlignedAhead, SingleRight
<1>8. Ring(e) + m = Ring(e + m)
  <2>1. PICK l \in 1 .. u : l = m + 1
    OBVIOUS
  <2>2. Ring(e) + l - 1 = Ring(e + (l - 1))
    BY <1>1, <1>7, <2>1 DEF Right, Single
  <2>3. Ring(e) \in Int
    BY <1>1, RingFacts
  <2> QED BY <2>1, <2>2, <2>3
<1>9. e + m = d + (k - 1)
  BY <1>1, <1>3, <1>4, <1>5
<1> QED BY <1>3, <1>4, <1>6, <1>8, <1>9

\* Whichever function of the FIFO is used, the slots are the right ones.
THEOREM AccessRight ==
  ASSUME unit \in Units, NEW d \in Nat, Aligned(Ring(d)), NEW n \in 1 .. Cap,
         NEW way \in ReadWays(Ring(d), n)
  PROVE  Right(way, d, n)
<1>1. ASSUME NEW w \in Ways(Ring(d), n) PROVE Right(w, d, n) /\ w = [slots |-> w.slots, next |-> w.next]
  <2>1. CASE n = unit /\ w = Single(Ring(d))
    <3>1. w = [slots |-> w.slots, next |-> w.next]
      BY <2>1 DEF Single
    <3> QED BY <2>1, <3>1, SingleRight
  <2>2. CASE unit = 1 /\ w = Repeat(Ring(d), n)
    <3>1. w = [slots |-> w.slots, next |-> w.next]
      BY <2>2 DEF Repeat
    <3> QED BY <2>2, <3>1, RepeatRight
  <2> QED BY <1>1, <2>1, <2>2 DEF Ways
<1>2. CASE way \in Ways(Ring(d), n)
  BY <1>1, <1>2
<1>3. CASE unit = 1 /\ way \in {[w EXCEPT !.slots = Peeked(Ring(d), n)] : w \in Ways(Ring(d), n)}
  <2>1. PICK w \in Ways(Ring(d), n) : way = [w EXCEPT !.slots = Peeked(Ring(d), n)]
    BY <1>3
  <2>2. way.next = w.next /\ way.slots = Peeked(Ring(d), n)
    <3>1. PICK s, x : w = [slots |-> s, next |-> x]
      BY <1>1
    <3> QED BY <2>1, <3>1
  <2> QED BY <1>1, <2>2, PeekedRight DEF Right
<1>4. CASE n % unit = 0 /\ way = [slots |-> Peeked(Ring(d), n), next |-> PeekSlot(Ring(d), n \div unit)]
  <2>1. PICK u \in Nat \ {0} : u = unit
    BY UnitFacts
  <2>2. PICK j \in Nat : j = n \div u /\ n = j * u
    <3>1. n % u \in 0 .. u - 1 /\ n \div u \in Nat /\ n = u * (n \div u) + (n % u)
      OBVIOUS
    <3> QED BY <1>4, <2>1, <3>1
  <2>3. j * unit = n /\ j * unit <= Cap
    BY <2>1, <2>2, HalfFacts
  <2>4. PeekSlot(Ring(d), j) = Ring(d + n) /\ Aligned(Ring(d + n))
    BY <2>3, PeekDirect, AlignedAhead DEF Ring
  <2> QED BY <1>4, <2>1, <2>2, <2>4, PeekedRight DEF Right
<1> QED BY <1>2, <1>3, <1>4 DEF ReadWays, Peeks

-----------------------------------------------------------------------------
(* The invariant.  In a round a port is at rest, then prefired, its actor  *)
(* acts, and what it did is left to publish.                               *)

\* The position of a port in the list of its CPU.
Index(p) == CHOOSE k \in 1 .. Len(On[CpuOf(p)]) : On[CpuOf(p)][k] = p

\* The stage of p when threads P are at ports A.
StageAt(P, A, p) ==
  LET c == CpuOf(p)
      k == Index(p)
  IN CASE P[c] = "prefire" -> IF k < A[c] THEN "ready" ELSE "rest"
       [] P[c] = "enter" -> IF k < A[c] THEN "left" ELSE "ready"
       [] P[c] = "act" -> IF k < A[c] THEN "left" ELSE IF k = A[c] THEN "acting" ELSE "ready"
       [] P[c] = "barrier" -> "left"
       [] P[c] = "postfire" -> IF k < A[c] THEN "rest" ELSE "left"

Stage(p) == StageAt(pc, at, p)

\* What was written to or read from a port, and what of it is published.
Done(p) == IF p = Wr THEN sent ELSE Len(got[p])
Published(p) == Done(p) - Used(p)

Threads ==
  /\ unit \in Units
  /\ pc \in [Cpu -> {"prefire", "enter", "act", "barrier", "postfire"}]
  /\ at \in [Cpu -> Nat]
  /\ \A c \in Cpu : at[c] \in 1 .. Len(On[c]) /\ (pc[c] = "barrier" => at[c] = 1)

Ports ==
  /\ local \in [Port -> [pos : Slot, count : 0 .. Cap, available : 0 .. Cap]]
  /\ context \in [Port -> [pos : Slot, available : 0 .. Cap]]
  /\ fired \in [Port -> BOOLEAN]
  /\ sent \in 0 .. Total /\ got \in [Reader -> Seq(Nat)] /\ rcount \in [Reader -> Int]

\* An actor works on a copy, which is written back if it has fired.
Copies ==
  \A p \in Port :
    /\ Stage(p) = "ready" => ~fired[p] /\ local[p].count = 0
    /\ Stage(p) = "acting" =>
         /\ context[p].available <= local[p].available
         /\ ~fired[p] => /\ context[p].available = local[p].available
                         /\ context[p].pos = local[p].pos
                         /\ local[p].count = 0
    /\ Stage(p) = "left" /\ ~fired[p] => local[p].count = 0

\* A port is where it must be after what was done.
Placed == \A p \in Port : Place(p).pos = Ring(Done(p)) /\ Aligned(Place(p).pos)

\* The shared counts are those of what is published, as far as they reach.
SharedCounts ==
  /\ wcount = Wrapped(Published(Wr))
  /\ \A r \in Reader : rcount[r] = Wrapped(Published(r))

\* Up to where a reader may read: what is published, and on the CPU of the
\* writer, once its actor is entered, what is written.
Readable(r) ==
  IF CpuOf(r) = CpuOf(Wr) /\ Stage(r) # "ready" THEN sent ELSE Published(Wr)

\* Nobody is granted more than there is.
Granted ==
  \A r \in Reader :
    /\ sent + Place(Wr).available <= Published(r) + Cap
    /\ Len(got[r]) + Place(r).available <= Readable(r)

\* The ring holds the last Cap units written, and memory those published.
Stored ==
  /\ buffer \in [Slot -> 0 .. Total] /\ memory \in [Slot -> 0 .. Total]
  /\ \A t \in 1 .. sent : t > sent - Cap => buffer[Ring(t - 1)] = t
  /\ \A t \in 1 .. Published(Wr) : t > sent - Cap => memory[Ring(t - 1)] = t
  /\ pc[CpuOf(Wr)] = "postfire" => memory = buffer

\* What was read is what was written.
InOrder == \A r \in Reader : got[r] = [k \in 1 .. Len(got[r]) |-> k]

Delivers ==
  Threads /\ Ports /\ Copies /\ Placed /\ SharedCounts /\ Granted /\ Stored /\ InOrder

-----------------------------------------------------------------------------
(* Stages.                                                                 *)

LEMMA Located ==
  ASSUME NEW p \in Port
  PROVE  /\ CpuOf(p) \in Cpu /\ Index(p) \in 1 .. Len(On[CpuOf(p)])
         /\ On[CpuOf(p)][Index(p)] = p
         /\ \A c \in Cpu : \A k \in 1 .. Len(On[c]) :
              On[c][k] = p => c = CpuOf(p) /\ k = Index(p)
<1>1. \E c \in Cpu : \E k \in 1 .. Len(On[c]) : On[c][k] = p
  BY FifoAssumption
<1>2. CpuOf(p) \in Cpu /\ \E k \in 1 .. Len(On[CpuOf(p)]) : On[CpuOf(p)][k] = p
  BY <1>1 DEF CpuOf
<1>3. Index(p) \in 1 .. Len(On[CpuOf(p)]) /\ On[CpuOf(p)][Index(p)] = p
  BY <1>2 DEF Index
<1>4. ASSUME NEW c \in Cpu, NEW k \in 1 .. Len(On[c]), On[c][k] = p
      PROVE  c = CpuOf(p) /\ k = Index(p)
  <2>1. \A b, d \in Cpu : \A l \in 1 .. Len(On[b]) : \A m \in 1 .. Len(On[d]) :
          On[b][l] = On[d][m] => b = d /\ l = m
    BY FifoAssumption
  <2> QED BY <1>2, <1>3, <1>4, <2>1
<1> QED BY <1>2, <1>3, <1>4

\* The port at which a thread is.
LEMMA AtPort ==
  ASSUME Threads, NEW c \in Cpu
  PROVE  This(c) \in Port /\ CpuOf(This(c)) = c /\ Index(This(c)) = at[c]
<1>1. On[c] \in Seq(Port) /\ at[c] \in 1 .. Len(On[c])
  BY FifoAssumption DEF Threads
<1>2. This(c) \in Port
  BY <1>1 DEF This
<1> QED BY <1>1, <1>2, Located DEF This

LEMMA StageMeans ==
  ASSUME NEW P, NEW A, NEW p \in Port,
         P \in [Cpu -> {"prefire", "enter", "act", "barrier", "postfire"}],
         \A c \in Cpu : A[c] \in 1 .. Len(On[c])
  PROVE  /\ StageAt(P, A, p) \in {"rest", "ready", "acting", "left"}
         /\ (\E c \in Cpu : P[c] = "act" /\ On[c][A[c]] = p) <=> StageAt(P, A, p) = "acting"
         /\ (\E c \in Cpu : \E k \in 1 .. Len(On[c]) :
               /\ On[c][k] = p
               /\ \/ P[c] \in {"enter", "act"} /\ k < A[c]
                  \/ P[c] = "barrier"
                  \/ P[c] = "postfire" /\ k >= A[c])
            <=> StageAt(P, A, p) = "left"
<1>1. PICK c \in Cpu : c = CpuOf(p)
  BY Located
<1> PICK k \in 1 .. Len(On[c]) : k = Index(p) /\ On[c][k] = p
  BY <1>1, Located
<1>2. PICK w \in {"prefire", "enter", "act", "barrier", "postfire"}, a \in 1 .. Len(On[c]) :
        w = P[c] /\ a = A[c]
  OBVIOUS
<1>3. Len(On[c]) \in Nat
  BY FifoAssumption
<1>4. StageAt(P, A, p) = CASE w = "prefire" -> IF k < a THEN "ready" ELSE "rest"
       [] w = "enter" -> IF k < a THEN "left" ELSE "ready"
       [] w = "act" -> IF k < a THEN "left" ELSE IF k = a THEN "acting" ELSE "ready"
       [] w = "barrier" -> "left"
       [] w = "postfire" -> IF k < a THEN "rest" ELSE "left"
  BY <1>1, <1>2 DEF StageAt
<1>5. \A b \in Cpu : \A l \in 1 .. Len(On[b]) : On[b][l] = p <=> b = c /\ l = k
  BY <1>1, Located
<1>6. (\E b \in Cpu : P[b] = "act" /\ On[b][A[b]] = p) <=> w = "act" /\ a = k
  BY <1>2, <1>5
<1>7. (\E b \in Cpu : \E l \in 1 .. Len(On[b]) :
               /\ On[b][l] = p
               /\ \/ P[b] \in {"enter", "act"} /\ l < A[b]
                  \/ P[b] = "barrier"
                  \/ P[b] = "postfire" /\ l >= A[b])
      <=> \/ w \in {"enter", "act"} /\ k < a
          \/ w = "barrier"
          \/ w = "postfire" /\ k >= a
  BY <1>2, <1>5
<1>8. k \in Int /\ a \in Int
  BY <1>3
<1> HIDE DEF StageAt
<1>9. StageAt(P, A, p) \in {"rest", "ready", "acting", "left"}
  BY <1>4, <1>8
<1>10. w = "act" /\ a = k <=> StageAt(P, A, p) = "acting"
  BY <1>4, <1>8
<1>11. (\/ w \in {"enter", "act"} /\ k < a
        \/ w = "barrier"
        \/ w = "postfire" /\ k >= a) <=> StageAt(P, A, p) = "left"
  BY <1>4, <1>8
<1> QED BY <1>6, <1>7, <1>9, <1>10, <1>11

LEMMA StageFacts ==
  ASSUME Threads, NEW p \in Port
  PROVE  /\ Stage(p) \in {"rest", "ready", "acting", "left"}
         /\ Acting(p) <=> Stage(p) = "acting"
         /\ Unpublished(p) <=> Stage(p) = "left" /\ fired[p]
<1>1. /\ pc \in [Cpu -> {"prefire", "enter", "act", "barrier", "postfire"}]
      /\ \A c \in Cpu : at[c] \in 1 .. Len(On[c])
  BY DEF Threads
<1> QED BY <1>1, StageMeans DEF Stage, Acting, This, Unpublished

LEMMA StageFactsNext ==
  ASSUME Threads', NEW p \in Port
  PROVE  /\ Stage(p)' \in {"rest", "ready", "acting", "left"}
         /\ Acting(p)' <=> Stage(p)' = "acting"
         /\ Unpublished(p)' <=> Stage(p)' = "left" /\ fired'[p]
<1>1. /\ pc' \in [Cpu -> {"prefire", "enter", "act", "barrier", "postfire"}]
      /\ \A c \in Cpu : at'[c] \in 1 .. Len(On[c])
  BY DEF Threads
<1> QED BY <1>1, StageMeans DEF Stage, Acting, This, Unpublished

LEMMA PlaceFacts ==
  ASSUME Threads, NEW p \in Port
  PROVE  /\ Stage(p) = "acting" =>
              /\ Place(p) = [pos |-> context[p].pos, available |-> context[p].available]
              /\ Used(p) = local[p].available - context[p].available
         /\ Stage(p) # "acting" =>
              /\ Place(p) = [pos |-> local[p].pos, available |-> local[p].available]
              /\ Used(p) = IF Stage(p) = "left" /\ fired[p] THEN local[p].count ELSE 0
BY StageFacts DEF Place, Used

LEMMA PlaceFactsNext ==
  ASSUME Threads', NEW p \in Port
  PROVE  /\ Stage(p)' = "acting" =>
              /\ Place(p)' = [pos |-> context'[p].pos, available |-> context'[p].available]
              /\ Used(p)' = local'[p].available - context'[p].available
         /\ Stage(p)' # "acting" =>
              /\ Place(p)' = [pos |-> local'[p].pos, available |-> local'[p].available]
              /\ Used(p)' = IF Stage(p)' = "left" /\ fired'[p] THEN local'[p].count ELSE 0
BY StageFactsNext DEF Place, Used

\* A port is affected by what its thread does at it, and by nothing else.
LEMMA Unaffected ==
  ASSUME Threads, Threads', NEW p \in Port, Stage(p)' = Stage(p),
         local'[p] = local[p], context'[p] = context[p], fired'[p] = fired[p]
  PROVE  Place(p)' = Place(p) /\ Used(p)' = Used(p)
BY PlaceFacts, PlaceFactsNext

LEMMA ThreadsStep ==
  ASSUME Threads, [Next]_vars
  PROVE  Threads'
<1>1. CASE UNCHANGED vars
  BY <1>1 DEF vars, Threads
<1>2. CASE Propagate
  BY <1>2 DEF Propagate, Threads
<1>3. ASSUME NEW c \in Cpu, Thread(c) PROVE Threads'
  <2>1. Len(On[c]) \in Nat /\ at[c] \in Nat /\ at[c] \in 1 .. Len(On[c]) /\ 1 \in 1 .. Len(On[c])
    BY FifoAssumption DEF Threads
  <2>2. ASSUME NEW s \in {"prefire", "enter", "postfire"}, NEW t \in {"prefire", "enter", "barrier"},
               Proceed(c, s, t), unit' = unit
        PROVE  Threads'
    <3>1. CASE at[c] < Len(On[c])
      BY <2>1, <2>2, <3>1, SMTT(30) DEF Proceed, Threads
    <3>2. CASE ~(at[c] < Len(On[c]))
      BY <2>1, <2>2, <3>2, SMTT(30) DEF Proceed, Threads
    <3> QED BY <3>1, <3>2
  <2>3. CASE Prefire(c)
    BY <2>2, <2>3 DEF Prefire
  <2>4. CASE Enter(c)
    BY <2>1, <2>4 DEF Enter, Threads
  <2>5. CASE Write(c)
    BY <2>5 DEF Write, Threads
  <2>6. CASE Read(c)
    BY <2>6 DEF Read, Threads
  <2>7. CASE Exit(c)
    BY <2>2, <2>7 DEF Exit
  <2>8. CASE WriteBarrier(c)
    BY <2>1, <2>8 DEF WriteBarrier, Threads
  <2>9. CASE Postfire(c)
    BY <2>2, <2>9 DEF Postfire
  <2> QED BY <1>3, <2>3, <2>4, <2>5, <2>6, <2>7, <2>8, <2>9 DEF Thread
<1> QED BY <1>1, <1>2, <1>3 DEF Next

\* A thread takes the port at which it is to the next stage, and no other.
LEMMA Moves ==
  ASSUME Threads, NEW c \in Cpu, NEW p \in Port
  PROVE  /\ Prefire(c) => IF p = This(c) THEN Stage(p) = "rest" /\ Stage(p)' = "ready"
                          ELSE Stage(p)' = Stage(p)
         /\ Enter(c) => IF p = This(c) THEN Stage(p) = "ready" /\ Stage(p)' = "acting"
                        ELSE Stage(p)' = Stage(p)
         /\ Write(c) \/ Read(c) => /\ Stage(p)' = Stage(p)
                                   /\ p = This(c) => Stage(p) = "acting"
         /\ Exit(c) => IF p = This(c) THEN Stage(p) = "acting" /\ Stage(p)' = "left"
                       ELSE Stage(p)' = Stage(p)
         /\ WriteBarrier(c) => Stage(p)' = Stage(p)
         /\ Postfire(c) => IF p = This(c) THEN Stage(p) = "left" /\ Stage(p)' = "rest"
                           ELSE Stage(p)' = Stage(p)
<1>1. pc \in [Cpu -> {"prefire", "enter", "act", "barrier", "postfire"}] /\ at \in [Cpu -> Nat]
  BY DEF Threads
<1>2. CASE CpuOf(p) # c
  <2>1. p # This(c)
    BY <1>2, AtPort
  <2>2. CpuOf(p) \in Cpu
    BY Located
  <2>3. pc'[CpuOf(p)] = pc[CpuOf(p)] /\ at'[CpuOf(p)] = at[CpuOf(p)] => Stage(p)' = Stage(p)
    BY DEF Stage, StageAt
  <2>4. \A s, t : Proceed(c, s, t) => Stage(p)' = Stage(p)
    BY <1>1, <1>2, <2>2, <2>3 DEF Proceed
  <2>5. Prefire(c) => Stage(p)' = Stage(p)
    BY <2>4 DEF Prefire
  <2>6. Enter(c) => Stage(p)' = Stage(p)
    BY <1>1, <1>2, <2>2, <2>3 DEF Enter
  <2>7. Write(c) \/ Read(c) => Stage(p)' = Stage(p)
    BY <2>3 DEF Write, Read
  <2>8. Exit(c) => Stage(p)' = Stage(p)
    BY <2>4 DEF Exit
  <2>9. WriteBarrier(c) => Stage(p)' = Stage(p)
    BY <1>1, <1>2, <2>2, <2>3 DEF WriteBarrier
  <2>10. Postfire(c) => Stage(p)' = Stage(p)
    BY <2>4 DEF Postfire
  <2> QED BY <2>1, <2>5, <2>6, <2>7, <2>8, <2>9, <2>10
<1>3. CASE CpuOf(p) = c
  <2>1. PICK k \in 1 .. Len(On[c]) : k = Index(p) /\ On[c][k] = p
    BY <1>3, Located
  <2>2. PICK a \in 1 .. Len(On[c]) : a = at[c] /\ (pc[c] = "barrier" => a = 1)
    BY DEF Threads
  <2>3. Len(On[c]) \in Nat
    BY FifoAssumption
  <2>4. p = This(c) <=> k = a
    BY <1>3, <2>1, <2>2, AtPort DEF This
  <2>5. Stage(p) = CASE pc[c] = "prefire" -> IF k < a THEN "ready" ELSE "rest"
       [] pc[c] = "enter" -> IF k < a THEN "left" ELSE "ready"
       [] pc[c] = "act" -> IF k < a THEN "left" ELSE IF k = a THEN "acting" ELSE "ready"
       [] pc[c] = "barrier" -> "left"
       [] pc[c] = "postfire" -> IF k < a THEN "rest" ELSE "left"
    BY <1>3, <2>1, <2>2 DEF Stage, StageAt
  <2>6. Stage(p)' = CASE pc'[c] = "prefire" -> IF k < at'[c] THEN "ready" ELSE "rest"
       [] pc'[c] = "enter" -> IF k < at'[c] THEN "left" ELSE "ready"
       [] pc'[c] = "act" -> IF k < at'[c] THEN "left" ELSE IF k = at'[c] THEN "acting" ELSE "ready"
       [] pc'[c] = "barrier" -> "left"
       [] pc'[c] = "postfire" -> IF k < at'[c] THEN "rest" ELSE "left"
    BY <1>3, <2>1 DEF Stage, StageAt
  <2>7. \A s, t : Proceed(c, s, t) =>
          IF a < Len(On[c]) THEN pc'[c] = s /\ at'[c] = a + 1 ELSE pc'[c] = t /\ at'[c] = 1
    BY <1>1, <2>2 DEF Proceed
  <2>8. k \in Int /\ a \in Int /\ k >= 1 /\ k <= Len(On[c])
    BY <2>3
  <2> HIDE DEF Stage
  <2>9. Prefire(c) => IF p = This(c) THEN Stage(p) = "rest" /\ Stage(p)' = "ready"
                      ELSE Stage(p)' = Stage(p)
    <3>1. SUFFICES ASSUME Prefire(c)
                   PROVE  IF k = a THEN Stage(p) = "rest" /\ Stage(p)' = "ready"
                          ELSE Stage(p)' = Stage(p)
      BY <2>4
    <3>2. pc[c] = "prefire" /\ Proceed(c, "prefire", "enter")
      BY <3>1 DEF Prefire
    <3> QED BY <2>3, <2>5, <2>6, <2>7, <2>8, <3>2
  <2>10. Enter(c) => IF p = This(c) THEN Stage(p) = "ready" /\ Stage(p)' = "acting"
                     ELSE Stage(p)' = Stage(p)
    <3>1. SUFFICES ASSUME Enter(c)
                   PROVE  IF k = a THEN Stage(p) = "ready" /\ Stage(p)' = "acting"
                          ELSE Stage(p)' = Stage(p)
      BY <2>4
    <3>2. pc[c] = "enter" /\ pc'[c] = "act" /\ at'[c] = a
      BY <1>1, <2>2, <3>1 DEF Enter
    <3> QED BY <2>3, <2>5, <2>6, <2>8, <3>2
  <2>11. Write(c) \/ Read(c) => Stage(p)' = Stage(p) /\ (p = This(c) => Stage(p) = "acting")
    <3>1. SUFFICES ASSUME Write(c) \/ Read(c)
                   PROVE  Stage(p)' = Stage(p) /\ (k = a => Stage(p) = "acting")
      BY <2>4
    <3>2. pc[c] = "act" /\ pc' = pc /\ at' = at
      BY <3>1 DEF Write, Read
    <3> QED BY <2>2, <2>5, <2>6, <2>8, <3>2
  <2>12. Exit(c) => IF p = This(c) THEN Stage(p) = "acting" /\ Stage(p)' = "left"
                    ELSE Stage(p)' = Stage(p)
    <3>1. SUFFICES ASSUME Exit(c)
                   PROVE  IF k = a THEN Stage(p) = "acting" /\ Stage(p)' = "left"
                          ELSE Stage(p)' = Stage(p)
      BY <2>4
    <3>2. pc[c] = "act" /\ Proceed(c, "enter", "barrier")
      BY <3>1 DEF Exit
    <3> QED BY <2>3, <2>5, <2>6, <2>7, <2>8, <3>2
  <2>13. WriteBarrier(c) => Stage(p)' = Stage(p)
    <3>1. SUFFICES ASSUME WriteBarrier(c) PROVE Stage(p)' = Stage(p)
      OBVIOUS
    <3>2. pc[c] = "barrier" /\ pc'[c] = "postfire" /\ at'[c] = 1
      BY <1>1, <2>2, <3>1 DEF WriteBarrier
    <3> QED BY <2>5, <2>6, <2>8, <3>2
  <2>14. Postfire(c) => IF p = This(c) THEN Stage(p) = "left" /\ Stage(p)' = "rest"
                        ELSE Stage(p)' = Stage(p)
    <3>1. SUFFICES ASSUME Postfire(c)
                   PROVE  IF k = a THEN Stage(p) = "left" /\ Stage(p)' = "rest"
                          ELSE Stage(p)' = Stage(p)
      BY <2>4
    <3>2. pc[c] = "postfire" /\ Proceed(c, "postfire", "prefire")
      BY <3>1 DEF Postfire
    <3> QED BY <2>3, <2>5, <2>6, <2>7, <2>8, <3>2
  <2> QED BY <2>9, <2>10, <2>11, <2>12, <2>13, <2>14
<1> QED BY <1>2, <1>3

\* The ports of one thread go through the stages together.
LEMMA Together ==
  ASSUME Threads, NEW p \in Port
  PROVE  LET c == CpuOf(p) IN
         /\ pc[c] = "prefire" => Stage(p) \in {"rest", "ready"}
         /\ pc[c] = "enter" => Stage(p) \in {"ready", "left"}
         /\ pc[c] = "act" => p = This(c) \/ Stage(p) \in {"ready", "left"}
         /\ pc[c] = "postfire" => Stage(p) \in {"rest", "left"}
<1>1. PICK c \in Cpu : c = CpuOf(p)
  BY Located
<1>2. p = This(c) <=> Index(p) = at[c]
  BY <1>1, AtPort, Located DEF This
<1> QED BY <1>1, <1>2 DEF Stage, StageAt

-----------------------------------------------------------------------------
(* What the invariant says of one port.                                    *)

LEMMA Bounds ==
  ASSUME Delivers
  PROVE  /\ sent \in Nat /\ Cap \in Nat \ {0} /\ Wr \in Port
         /\ \A p \in Port :
              /\ Used(p) \in 0 .. Cap /\ Done(p) \in Nat /\ Published(p) \in Int
              /\ Published(p) = Done(p) - Used(p)
              /\ Place(p).pos \in Slot /\ Place(p).available \in 0 .. Cap
         /\ \A r \in Reader : /\ r \in Port /\ Done(r) = Len(got[r]) /\ Len(got[r]) \in Nat
                              /\ Readable(r) \in Int /\ Readable(r) <= sent
                              /\ Len(got[r]) + Place(r).available <= sent
<1>1. Cap \in Nat \ {0} /\ Wr \in Port /\ \A r \in Reader : r \in Port /\ r # Wr
  BY FifoAssumption DEF Reader
<1>2. Threads /\ Ports /\ Copies /\ Granted
  BY DEF Delivers
<1>3. sent \in Nat
  BY <1>2, FifoAssumption DEF Ports
<1>4. ASSUME NEW r \in Reader PROVE Done(r) = Len(got[r]) /\ Len(got[r]) \in Nat
  BY <1>1, <1>2 DEF Done, Ports
<1>5. ASSUME NEW p \in Port
      PROVE  Used(p) \in 0 .. Cap /\ Place(p).pos \in Slot /\ Place(p).available \in 0 .. Cap
  <2>1. /\ local[p] \in [pos : Slot, count : 0 .. Cap, available : 0 .. Cap]
        /\ context[p] \in [pos : Slot, available : 0 .. Cap]
    BY <1>2 DEF Ports
  <2>2. CASE Stage(p) = "acting"
    <3>1. context[p].available <= local[p].available
      BY <1>2, <2>2 DEF Copies
    <3> QED BY <1>1, <1>2, <2>1, <2>2, <3>1, PlaceFacts
  <2>3. CASE Stage(p) # "acting"
    BY <1>1, <1>2, <2>1, <2>3, PlaceFacts
  <2> QED BY <2>2, <2>3
<1>6. ASSUME NEW p \in Port
      PROVE  Done(p) \in Nat /\ Published(p) \in Int /\ Published(p) = Done(p) - Used(p)
  <2>1. Done(p) \in Nat
    <3>1. CASE p = Wr
      BY <1>3, <3>1 DEF Done
    <3>2. CASE p # Wr
      BY <1>4, <3>2 DEF Reader
    <3> QED BY <3>1, <3>2
  <2>2. Used(p) \in Int
    BY <1>1, <1>5
  <2> QED BY <2>1, <2>2 DEF Published
<1>7. ASSUME NEW r \in Reader
      PROVE  /\ Readable(r) \in Int /\ Readable(r) <= sent
             /\ Len(got[r]) + Place(r).available <= sent
  <2>1. Published(Wr) \in Int /\ Published(Wr) <= sent
    <3>1. Done(Wr) = sent
      BY DEF Done
    <3> QED BY <1>1, <1>3, <1>5, <1>6, <3>1
  <2>2. Readable(r) \in Int /\ Readable(r) <= sent
    BY <1>3, <2>1 DEF Readable
  <2>3. Len(got[r]) + Place(r).available <= Readable(r)
    BY <1>2 DEF Granted
  <2>4. Place(r).available \in Int /\ Len(got[r]) \in Int
    BY <1>1, <1>4, <1>5
  <2> QED BY <1>3, <2>2, <2>3, <2>4
<1> QED BY <1>1, <1>3, <1>4, <1>5, <1>6, <1>7

\* max_unconsumed is the greatest of what the readers have not consumed.
LEMMA MaxFacts ==
  ASSUME NEW S, S \subseteq 0 .. Cap
  PROVE  MaxUnconsumed(S) \in 0 .. Cap /\ \A x \in S : x <= MaxUnconsumed(S)
<1>1. PICK b \in Nat : b = Cap
  BY HalfFacts
<1> DEFINE T == {0} \union S
           Missing == {b - x : x \in T}
<1>2. T \subseteq 0 .. b /\ 0 \in T /\ T \subseteq Int
  BY <1>1
<1> HIDE DEF T
<1>3. Missing \subseteq Nat /\ Missing # {}
  BY <1>2
<1>4. PICK n \in Missing : \A m \in Missing : n <= m
  <2> HIDE DEF Missing
  <2> QED BY <1>3, LeastNatural
<1>5. PICK x \in T : n = b - x
  OBVIOUS
<1>6. ASSUME NEW y \in T PROVE x >= y
  <2>1. b - y \in Missing
    OBVIOUS
  <2>2. n <= b - y
    BY <1>4, <2>1
  <2>3. x \in Int /\ y \in Int
    BY <1>2
  <2> QED BY <1>5, <2>2, <2>3
<1>7. Max(T) \in T /\ \A y \in T : Max(T) >= y
  BY <1>6 DEF Max
<1>8. MaxUnconsumed(S) = Max(T)
  BY DEF MaxUnconsumed, T
<1>9. ASSUME NEW y \in S PROVE y \in T /\ y \in Int /\ Max(T) \in Int
  <2>1. y \in T
    BY DEF T
  <2> QED BY <1>2, <1>7, <2>1
<1> QED BY <1>1, <1>2, <1>7, <1>8, <1>9

\* Where nothing is left to publish, the counts give what is available.
LEMMA Counted ==
  ASSUME Delivers, NEW r \in Reader,
         CpuOf(r) = CpuOf(Wr) => Used(Wr) = 0
  PROVE  /\ Wrapped(wcount - rcount[r]) = Published(Wr) - Published(r)
         /\ Published(Wr) - Published(r) \in 0 .. Cap
<1>1. /\ sent \in Nat /\ Cap \in Nat \ {0} /\ Wr \in Port /\ r \in Port /\ r # Wr
      /\ Done(r) = Len(got[r]) /\ Len(got[r]) \in Nat /\ Done(Wr) = sent
      /\ Used(r) \in 0 .. Cap /\ Used(Wr) \in 0 .. Cap
      /\ Place(Wr).available \in 0 .. Cap /\ Place(r).available \in 0 .. Cap
      /\ Published(r) = Done(r) - Used(r) /\ Published(Wr) = Done(Wr) - Used(Wr)
      /\ Len(got[r]) + Place(r).available <= sent
  BY Bounds DEF Reader, Done
<1>2. sent + Place(Wr).available <= Published(r) + Cap
  BY DEF Delivers, Granted
<1>3. Published(Wr) - Published(r) <= Cap
  <2>1. PICK x \in Int, y \in Int, z \in Int, w \in Int, u \in Nat, v \in Nat :
          /\ x = sent /\ y = Published(r) /\ z = Published(Wr) /\ w = Cap
          /\ u = Place(Wr).available /\ v = Used(Wr)
    <3>1. /\ sent \in Int /\ Published(r) \in Int /\ Published(Wr) \in Int /\ Cap \in Int
          /\ Place(Wr).available \in Nat /\ Used(Wr) \in Nat
      BY <1>1
    <3> QED BY ONLY <3>1
  <2>2. x + u <= y + w /\ z = x - v
    BY <1>1, <1>2, <2>1
  <2>3. z - y <= w
    BY ONLY <2>2, x \in Int, y \in Int, z \in Int, w \in Int, u \in Nat, v \in Nat
  <2> QED BY <2>1, <2>3
<1>4. Published(Wr) - Published(r) >= 0
  <2>1. CASE Used(Wr) = 0
    BY <1>1, <2>1
  <2>2. CASE Used(Wr) # 0
    <3>1. Readable(r) = Published(Wr)
      BY <2>2 DEF Readable
    <3>2. Len(got[r]) + Place(r).available <= Published(Wr)
      BY <3>1 DEF Delivers, Granted
    <3> QED BY <1>1, <3>2
  <2> QED BY <2>1, <2>2
<1>5. Published(Wr) - Published(r) \in 0 .. Cap /\ Published(Wr) \in Int /\ Published(r) \in Int
  <2>1. Published(Wr) \in Int /\ Published(r) \in Int /\ Cap \in Int
    BY <1>1, Bounds
  <2> QED BY <1>3, <1>4, <2>1
<1>6. wcount = Wrapped(Published(Wr)) /\ rcount[r] = Wrapped(Published(r))
  BY DEF Delivers, SharedCounts
<1> QED BY <1>5, <1>6, WrappedDifference

-----------------------------------------------------------------------------
(* Steps within a thread: prefire, and the macros around an action.        *)

LEMMA Elsewhere ==
  ASSUME Threads, Threads', Ports, NEW c \in Cpu, Thread(c), NEW p \in Port, p # This(c)
  PROVE  /\ local'[p] = local[p] /\ context'[p] = context[p] /\ fired'[p] = fired[p]
         /\ Stage(p)' = Stage(p) /\ Place(p)' = Place(p) /\ Used(p)' = Used(p)
         /\ p = Wr => sent' = sent
         /\ p \in Reader => got'[p] = got[p]
<1>1. Stage(p)' = Stage(p)
  BY Moves DEF Thread
<1>2. /\ local'[p] = local[p] /\ context'[p] = context[p] /\ fired'[p] = fired[p]
      /\ p = Wr => sent' = sent
      /\ p \in Reader => got'[p] = got[p]
  <2>1. local \in [Port -> [pos : Slot, count : 0 .. Cap, available : 0 .. Cap]]
        /\ context \in [Port -> [pos : Slot, available : 0 .. Cap]]
        /\ fired \in [Port -> BOOLEAN] /\ got \in [Reader -> Seq(Nat)]
    BY DEF Ports
  <2>2. CASE Prefire(c)
    BY <2>1, <2>2 DEF Prefire
  <2>3. CASE Enter(c)
    BY <2>1, <2>3 DEF Enter
  <2>4. CASE Write(c)
    BY <2>1, <2>4 DEF Write, Use
  <2>5. CASE Read(c)
    BY <2>1, <2>5 DEF Read, Use
  <2>6. CASE Exit(c)
    BY <2>1, <2>6 DEF Exit
  <2>7. CASE WriteBarrier(c)
    BY <2>1, <2>7 DEF WriteBarrier
  <2>8. CASE Postfire(c)
    BY <2>1, <2>8 DEF Postfire
  <2> QED BY <2>2, <2>3, <2>4, <2>5, <2>6, <2>7, <2>8 DEF Thread
<1> QED BY <1>1, <1>2, Unaffected

\* Steps that neither write nor read nor publish.
LEMMA Quiet ==
  ASSUME Delivers, UNCHANGED <<unit, buffer, memory, wcount, rcount, sent, got>>,
         \A p \in Port : Used(p)' = Used(p) /\ Place(p)'.pos = Place(p).pos,
         pc'[CpuOf(Wr)] = "postfire" => memory = buffer
  PROVE  /\ \A p \in Port : Published(p)' = Published(p)
         /\ Placed' /\ SharedCounts' /\ Stored' /\ InOrder'
<1>1. \A p \in Port : Done(p)' = Done(p) /\ Published(p)' = Published(p)
  BY DEF Done, Published
<1>2. Wr \in Port /\ \A r \in Reader : r \in Port
  BY FifoAssumption DEF Reader
<1>3. Placed'
  BY <1>1 DEF Delivers, Placed, Aligned
<1>4. SharedCounts'
  BY <1>1, <1>2 DEF Delivers, SharedCounts
<1>5. Stored'
  BY <1>1, <1>2 DEF Delivers, Stored
<1>6. InOrder'
  BY DEF Delivers, InOrder
<1> QED BY <1>1, <1>3, <1>4, <1>5, <1>6

LEMMA PrefireStep ==
  ASSUME Delivers, NEW c \in Cpu, Prefire(c)
  PROVE  Delivers'
<1>1. Threads /\ Ports /\ Copies /\ Granted /\ Stored
  BY DEF Delivers
<1>2. Thread(c) /\ Threads'
  BY <1>1, ThreadsStep DEF Thread, Next
<1>3. PICK p \in Port : p = This(c) /\ CpuOf(p) = c
  BY <1>1, AtPort
<1> DEFINE v == IF p = Wr
                THEN Cap - MaxUnconsumed({Wrapped(wcount - rcount[r]) : r \in Reader})
                ELSE Wrapped(wcount - rcount[p])
<1>4. Stage(p) = "rest" /\ Stage(p)' = "ready"
  BY <1>1, <1>3, Moves
<1>5. \A q \in Port : q # p =>
        /\ local'[q] = local[q] /\ context'[q] = context[q] /\ fired'[q] = fired[q]
        /\ Stage(q)' = Stage(q) /\ Place(q)' = Place(q) /\ Used(q)' = Used(q)
  BY <1>1, <1>2, <1>3, Elsewhere
<1>6. CpuOf(Wr) = c => Used(Wr) = 0
  <2>1. CpuOf(Wr) = c => Stage(Wr) \in {"rest", "ready"}
    BY <1>1, Together, FifoAssumption DEF Prefire
  <2> QED BY <1>1, <2>1, PlaceFacts, FifoAssumption
<1>7. Used(p) = 0
  BY <1>1, <1>3, <1>4, PlaceFacts
\* What is granted.
<1>8. /\ v \in 0 .. Cap
      /\ p = Wr => \A r \in Reader : sent + v <= Published(r) + Cap
      /\ p # Wr => Len(got[p]) + v <= Published(Wr)
  <2>1. \A r \in Reader : CpuOf(r) = c \/ p = Wr =>
          /\ Wrapped(wcount - rcount[r]) = Published(Wr) - Published(r)
          /\ Published(Wr) - Published(r) \in 0 .. Cap
    BY <1>3, <1>6, <1>7, Counted
  <2>2. CASE p = Wr
    <3> DEFINE S == {Wrapped(wcount - rcount[r]) : r \in Reader}
    <3>1. S \subseteq 0 .. Cap
      BY <2>1, <2>2
    <3>2. PICK m \in 0 .. Cap : m = MaxUnconsumed(S) /\ \A x \in S : x <= m
      <4> HIDE DEF S
      <4> QED BY <3>1, MaxFacts
    <3>3. v = Cap - m
      BY <2>2, <3>2
    <3>4. ASSUME NEW r \in Reader PROVE sent + v <= Published(r) + Cap
      <4>1. Published(Wr) - Published(r) <= m
        BY <2>1, <2>2, <3>2
      <4>2. Published(Wr) = sent /\ Published(r) \in Int /\ sent \in Nat /\ Cap \in Nat
        BY <1>7, <2>2, Bounds DEF Done
      <4> HIDE DEF v
      <4> QED BY <3>2, <3>3, <4>1, <4>2
    <3>5. v \in 0 .. Cap
      <4>1. Cap \in Nat
        BY HalfFacts
      <4> HIDE DEF v
      <4> QED BY <3>2, <3>3, <4>1
    <3> QED BY <2>2, <3>4, <3>5
  <2>3. CASE p # Wr
    <3>1. p \in Reader
      BY <1>3, <2>3 DEF Reader
    <3>2. v = Published(Wr) - Published(p) /\ v \in 0 .. Cap
      BY <1>3, <2>1, <2>3, <3>1
    <3>3. Published(p) = Len(got[p]) /\ Len(got[p]) \in Nat /\ Published(Wr) \in Int
      BY <1>7, <3>1, Bounds
    <3> QED BY <2>3, <3>2, <3>3
  <2> QED BY <2>2, <2>3
<1>9. local'[p] = [pos |-> local[p].pos, count |-> 0, available |-> v] /\ fired'[p] = FALSE
  <2>1. local[p] \in [pos : Slot, count : 0 .. Cap, available : 0 .. Cap]
        /\ fired \in [Port -> BOOLEAN]
        /\ local \in [Port -> [pos : Slot, count : 0 .. Cap, available : 0 .. Cap]]
    BY <1>1, <1>3 DEF Ports
  <2> QED BY <1>3, <2>1 DEF Prefire
<1> HIDE DEF v
<1>10. Ports'
  <2>1. local' \in [Port -> [pos : Slot, count : 0 .. Cap, available : 0 .. Cap]]
    <3>1. DOMAIN local' = Port /\ local' = [q \in Port |-> local'[q]]
      BY <1>1 DEF Prefire, Ports
    <3>2. 0 \in 0 .. Cap
      BY HalfFacts
    <3>3. ASSUME NEW q \in Port
          PROVE  local'[q] \in [pos : Slot, count : 0 .. Cap, available : 0 .. Cap]
      <4>1. local[q] \in [pos : Slot, count : 0 .. Cap, available : 0 .. Cap]
        BY <1>1 DEF Ports
      <4>2. CASE q = p
        BY <1>8, <1>9, <3>2, <4>1, <4>2
      <4>3. CASE q # p
        BY <1>5, <4>1, <4>3
      <4> QED BY <4>2, <4>3
    <3> QED BY <3>1, <3>3
  <2>2. fired' \in [Port -> BOOLEAN]
    BY <1>1 DEF Prefire, Ports
  <2> QED BY <1>1, <2>1, <2>2 DEF Prefire, Ports
<1>11. /\ Place(p).pos = local[p].pos
       /\ Place(p)' = [pos |-> local[p].pos, available |-> v] /\ Used(p)' = 0
  BY <1>1, <1>2, <1>3, <1>4, <1>9, PlaceFacts, PlaceFactsNext
<1>12. Copies'
  BY <1>1, <1>4, <1>5, <1>9 DEF Copies
<1>13. /\ \A q \in Port : Published(q)' = Published(q)
       /\ Placed' /\ SharedCounts' /\ Stored' /\ InOrder'
  <2>1. \A q \in Port : Used(q)' = Used(q) /\ Place(q)'.pos = Place(q).pos
    BY <1>5, <1>7, <1>11
  <2>2. pc'[CpuOf(Wr)] = "postfire" => memory = buffer
    <3>1. CpuOf(Wr) \in Cpu /\ pc \in [Cpu -> {"prefire", "enter", "act", "barrier", "postfire"}]
      BY <1>1, Located, FifoAssumption DEF Threads
    <3>2. pc'[CpuOf(Wr)] = "postfire" => pc[CpuOf(Wr)] = "postfire"
      BY <3>1 DEF Prefire, Proceed
    <3> QED BY <1>1, <3>2 DEF Stored
  <2> QED BY <2>1, <2>2, Quiet DEF Prefire
<1>14. Granted'
  <2>1. SUFFICES ASSUME NEW r \in Reader
                 PROVE  /\ sent + Place(Wr)'.available <= Published(r)' + Cap
                        /\ Len(got[r]) + Place(r)'.available <= Readable(r)'
    BY DEF Granted, Prefire
  <2>2. Published(r)' = Published(r) /\ Published(Wr)' = Published(Wr) /\ r \in Port /\ r # Wr
    BY <1>13, FifoAssumption DEF Reader
  <2>3. sent + Place(Wr)'.available <= Published(r) + Cap
    <3>1. CASE p = Wr
      BY <1>8, <1>11, <3>1
    <3>2. CASE p # Wr
      BY <1>1, <1>5, <3>2, FifoAssumption DEF Granted
    <3> QED BY <3>1, <3>2
  <2>4. CASE p = r
    <3>1. Readable(r)' = Published(Wr)
      BY <1>4, <2>2, <2>4 DEF Readable
    <3>2. Place(r)'.available = v
      BY <1>11, <2>4
    <3> QED BY <1>8, <2>2, <2>3, <2>4, <3>1, <3>2
  <2>5. CASE p # r
    <3>1. Readable(r)' = Readable(r)
      BY <1>5, <2>2, <2>5 DEF Readable, Prefire
    <3>2. Place(r)' = Place(r)
      BY <1>5, <2>2, <2>5
    <3> QED BY <1>1, <2>2, <2>3, <3>1, <3>2 DEF Granted
  <2> QED BY <2>4, <2>5
<1> QED BY <1>2, <1>10, <1>12, <1>13, <1>14 DEF Delivers

LEMMA EnterStep ==
  ASSUME Delivers, NEW c \in Cpu, Enter(c)
  PROVE  Delivers'
<1>1. Threads /\ Ports /\ Copies /\ Granted /\ Stored
  BY DEF Delivers
<1>2. Thread(c) /\ Threads'
  BY <1>1, ThreadsStep DEF Thread, Next
<1>3. PICK p \in Port : p = This(c) /\ CpuOf(p) = c
  BY <1>1, AtPort
<1>4. Stage(p) = "ready" /\ Stage(p)' = "acting"
  BY <1>1, <1>3, Moves
<1>5. \A q \in Port : q # p =>
        /\ local'[q] = local[q] /\ context'[q] = context[q] /\ fired'[q] = fired[q]
        /\ Stage(q)' = Stage(q) /\ Place(q)' = Place(q) /\ Used(q)' = Used(q)
  BY <1>1, <1>2, <1>3, Elsewhere
<1>6. PICK v : v = local[p].available + Latest(p)
  OBVIOUS
<1>7. /\ local[p] \in [pos : Slot, count : 0 .. Cap, available : 0 .. Cap]
      /\ local[p].count = 0 /\ ~fired[p] /\ Used(p) = 0
      /\ Place(p) = [pos |-> local[p].pos, available |-> local[p].available]
  BY <1>1, <1>4, PlaceFacts DEF Ports, Copies
<1>8. Wr \in Port /\ Cap \in Nat
  BY FifoAssumption
\* What is available.
<1>9. /\ p = Wr => v = local[p].available
      /\ p # Wr => IF CpuOf(p) = CpuOf(Wr) THEN Len(got[p]) + v <= sent
                   ELSE v = local[p].available
      /\ v \in 0 .. Cap
  <2>1. CASE p = Wr \/ CpuOf(p) # CpuOf(Wr)
    BY <1>6, <1>7, <1>8, <2>1 DEF Latest
  <2>2. CASE p # Wr /\ CpuOf(p) = CpuOf(Wr)
    <3>1. Stage(Wr) \in {"ready", "left"}
      BY <1>1, <1>3, <1>8, <2>2, Together DEF Enter
    <3>2. local[Wr].count = Used(Wr)
      BY <1>1, <1>8, <3>1, PlaceFacts DEF Copies
    <3>3. v = local[p].available + Used(Wr)
      BY <1>6, <2>2, <3>2 DEF Latest
    <3>4. p \in Reader
      BY <2>2 DEF Reader
    <3>5. Len(got[p]) + local[p].available <= Published(Wr)
      BY <1>1, <1>4, <1>7, <3>4 DEF Granted, Readable
    <3>6. sent + Place(Wr).available <= Published(p) + Cap
      BY <1>1, <3>4 DEF Granted
    <3>7. /\ Published(Wr) = sent - Used(Wr) /\ Used(Wr) \in 0 .. Cap /\ sent \in Nat
          /\ Published(p) = Len(got[p]) /\ Len(got[p]) \in Nat /\ Place(Wr).available \in 0 .. Cap
      BY <1>7, <1>8, <3>4, Bounds DEF Done
    <3>8. PICK a \in Nat, n \in Nat, u \in Nat, s \in Nat, b \in Nat, z \in Nat :
            /\ a = local[p].available /\ n = Len(got[p]) /\ u = Used(Wr)
            /\ s = sent /\ b = Cap /\ z = Place(Wr).available
      <4>1. local[p].available \in 0 .. Cap
        BY <1>7
      <4>2. /\ local[p].available \in Nat /\ Len(got[p]) \in Nat /\ Used(Wr) \in Nat
            /\ sent \in Nat /\ Cap \in Nat /\ Place(Wr).available \in Nat
        BY <1>8, <3>7, <4>1
      <4> QED BY <4>2
    <3>9. n + a <= s - u /\ s + z <= n + b /\ v = a + u
      BY <3>3, <3>5, <3>6, <3>7, <3>8
    <3>10. n + v <= s /\ v \in 0 .. b
      BY <3>9
    <3>11. Len(got[p]) + v <= sent /\ v \in 0 .. Cap
      BY <3>8, <3>10
    <3> QED BY <2>2, <3>11
  <2> QED BY <2>1, <2>2
<1>10. /\ local'[p] = [pos |-> local[p].pos, count |-> 0, available |-> v]
       /\ context'[p] = [pos |-> local[p].pos, available |-> v] /\ fired'[p] = fired[p]
  <2>1. /\ local \in [Port -> [pos : Slot, count : 0 .. Cap, available : 0 .. Cap]]
        /\ context \in [Port -> [pos : Slot, available : 0 .. Cap]]
    BY <1>1 DEF Ports
  <2> QED BY <1>3, <1>6, <1>7, <2>1 DEF Enter
<1>11. Ports'
  <2>1. local' \in [Port -> [pos : Slot, count : 0 .. Cap, available : 0 .. Cap]]
    <3>1. DOMAIN local' = Port /\ local' = [q \in Port |-> local'[q]]
      BY <1>1 DEF Enter, Ports
    <3>2. ASSUME NEW q \in Port
          PROVE  local'[q] \in [pos : Slot, count : 0 .. Cap, available : 0 .. Cap]
      <4>1. local[q] \in [pos : Slot, count : 0 .. Cap, available : 0 .. Cap]
        BY <1>1 DEF Ports
      <4>2. 0 \in 0 .. Cap
        BY <1>8
      <4> QED BY <1>5, <1>7, <1>9, <1>10, <4>1, <4>2
    <3> QED BY <3>1, <3>2
  <2>2. context' \in [Port -> [pos : Slot, available : 0 .. Cap]]
    <3>1. DOMAIN context' = Port /\ context' = [q \in Port |-> context'[q]]
      BY <1>1 DEF Enter, Ports
    <3>2. ASSUME NEW q \in Port
          PROVE  context'[q] \in [pos : Slot, available : 0 .. Cap]
      <4>1. context[q] \in [pos : Slot, available : 0 .. Cap]
        BY <1>1 DEF Ports
      <4> QED BY <1>5, <1>7, <1>9, <1>10, <4>1
    <3> QED BY <3>1, <3>2
  <2> QED BY <1>1, <2>1, <2>2 DEF Enter, Ports
<1>12. Place(p)' = [pos |-> local[p].pos, available |-> v] /\ Used(p)' = 0
  <2>1. Place(p)' = [pos |-> local[p].pos, available |-> v] /\ Used(p)' = v - v
    BY <1>2, <1>4, <1>10, PlaceFactsNext
  <2> QED BY <1>9, <2>1
<1>13. Copies'
  <2>1. v <= v
    BY <1>9
  <2> QED BY <1>1, <1>4, <1>5, <1>7, <1>10, <2>1 DEF Copies
<1>14. /\ \A q \in Port : Published(q)' = Published(q)
       /\ Placed' /\ SharedCounts' /\ Stored' /\ InOrder'
  <2>1. \A q \in Port : Used(q)' = Used(q) /\ Place(q)'.pos = Place(q).pos
    BY <1>5, <1>7, <1>12
  <2>2. pc'[CpuOf(Wr)] = "postfire" => memory = buffer
    <3>1. CpuOf(Wr) \in Cpu /\ pc \in [Cpu -> {"prefire", "enter", "act", "barrier", "postfire"}]
      BY <1>1, Located, FifoAssumption DEF Threads
    <3>2. pc'[CpuOf(Wr)] = "postfire" => pc[CpuOf(Wr)] = "postfire"
      BY <3>1 DEF Enter
    <3> QED BY <1>1, <3>2 DEF Stored
  <2> QED BY <2>1, <2>2, Quiet DEF Enter
<1>15. Granted'
  <2>1. SUFFICES ASSUME NEW r \in Reader
                 PROVE  /\ sent + Place(Wr)'.available <= Published(r)' + Cap
                        /\ Len(got[r]) + Place(r)'.available <= Readable(r)'
    BY DEF Granted, Enter
  <2>2. Published(r)' = Published(r) /\ Published(Wr)' = Published(Wr) /\ r \in Port /\ r # Wr
    BY <1>14, FifoAssumption DEF Reader
  <2>3. sent + Place(Wr)'.available <= Published(r) + Cap
    <3>1. Place(Wr)'.available = Place(Wr).available
      BY <1>5, <1>7, <1>8, <1>9, <1>12
    <3> QED BY <1>1, <3>1 DEF Granted
  <2>4. CASE p = r /\ CpuOf(r) = CpuOf(Wr)
    <3>1. Readable(r)' = sent
      BY <1>4, <2>4 DEF Readable, Enter
    <3> QED BY <1>9, <1>12, <2>2, <2>3, <2>4, <3>1
  <2>5. CASE ~(p = r /\ CpuOf(r) = CpuOf(Wr))
    <3>1. Readable(r)' = Readable(r)
      BY <1>5, <2>2, <2>5 DEF Readable, Enter
    <3>2. Place(r)'.available = Place(r).available
      BY <1>5, <1>7, <1>9, <1>12, <2>2, <2>5
    <3> QED BY <1>1, <2>2, <2>3, <3>1, <3>2 DEF Granted
  <2> QED BY <2>4, <2>5
<1> QED BY <1>2, <1>11, <1>13, <1>14, <1>15 DEF Delivers

LEMMA ExitStep ==
  ASSUME Delivers, NEW c \in Cpu, Exit(c)
  PROVE  Delivers'
<1>1. Threads /\ Ports /\ Copies /\ Granted /\ Stored
  BY DEF Delivers
<1>2. Thread(c) /\ Threads'
  BY <1>1, ThreadsStep DEF Thread, Next
<1>3. PICK p \in Port : p = This(c) /\ CpuOf(p) = c
  BY <1>1, AtPort
<1>4. Stage(p) = "acting" /\ Stage(p)' = "left"
  BY <1>1, <1>3, Moves
<1>5. \A q \in Port : q # p =>
        /\ local'[q] = local[q] /\ context'[q] = context[q] /\ fired'[q] = fired[q]
        /\ Stage(q)' = Stage(q) /\ Place(q)' = Place(q) /\ Used(q)' = Used(q)
  BY <1>1, <1>2, <1>3, Elsewhere
<1>6. PICK l \in [pos : Slot, count : 0 .. Cap, available : 0 .. Cap],
           x \in [pos : Slot, available : 0 .. Cap] : l = local[p] /\ x = context[p]
  BY <1>1 DEF Ports
<1>7. PICK b \in Nat : b = Cap
  BY HalfFacts
<1>8. PICK n \in 0 .. b : n = l.available - x.available
  <2>1. x.available <= l.available
    BY <1>1, <1>4, <1>6 DEF Copies
  <2>2. l.available \in 0 .. b /\ x.available \in 0 .. b
    BY <1>6, <1>7
  <2> QED BY <1>7, <2>1, <2>2
<1>9. /\ fired' = fired /\ context' = context
      /\ fired[p] => local'[p] = [pos |-> x.pos, count |-> n, available |-> x.available]
      /\ ~fired[p] => /\ local'[p] = l /\ l.available = x.available /\ l.pos = x.pos
                      /\ l.count = 0
  <2>1. ~fired[p] => l.available = x.available /\ l.pos = x.pos /\ l.count = 0
    BY <1>1, <1>4, <1>6 DEF Copies
  <2>2. local \in [Port -> [pos : Slot, count : 0 .. Cap, available : 0 .. Cap]]
    BY <1>1 DEF Ports
  <2> QED BY <1>3, <1>6, <1>8, <2>1, <2>2 DEF Exit
<1>10. Ports'
  <2>1. local' \in [Port -> [pos : Slot, count : 0 .. Cap, available : 0 .. Cap]]
    <3>1. DOMAIN local' = Port /\ local' = [q \in Port |-> local'[q]]
      BY <1>1 DEF Exit, Ports
    <3>2. ASSUME NEW q \in Port
          PROVE  local'[q] \in [pos : Slot, count : 0 .. Cap, available : 0 .. Cap]
      <4>1. local[q] \in [pos : Slot, count : 0 .. Cap, available : 0 .. Cap]
        BY <1>1 DEF Ports
      <4> QED BY <1>5, <1>6, <1>7, <1>8, <1>9, <4>1
    <3> QED BY <3>1, <3>2
  <2> QED BY <1>1, <2>1 DEF Exit, Ports
<1>11. Place(p)' = Place(p) /\ Used(p)' = Used(p)
  <2>1. Place(p) = [pos |-> x.pos, available |-> x.available] /\ Used(p) = n
    BY <1>1, <1>4, <1>6, <1>8, PlaceFacts
  <2>2. /\ Place(p)' = [pos |-> local'[p].pos, available |-> local'[p].available]
        /\ Used(p)' = IF fired[p] THEN local'[p].count ELSE 0
    BY <1>2, <1>4, <1>9, PlaceFactsNext
  <2>3. CASE fired[p]
    BY <1>9, <2>1, <2>2, <2>3
  <2>4. CASE ~fired[p]
    <3>1. n = 0
      <4>1. n = x.available - x.available /\ x.available \in 0 .. b
        BY <1>6, <1>7, <1>8, <1>9, <2>4
      <4> QED BY <4>1
    <3> QED BY <1>9, <2>1, <2>2, <2>4, <3>1
  <2> QED BY <2>3, <2>4
<1>12. Copies'
  BY <1>1, <1>4, <1>5, <1>9 DEF Copies
<1>13. /\ \A q \in Port : Published(q)' = Published(q)
       /\ Placed' /\ SharedCounts' /\ Stored' /\ InOrder'
  <2>1. \A q \in Port : Used(q)' = Used(q) /\ Place(q)'.pos = Place(q).pos
    BY <1>5, <1>11
  <2>2. pc'[CpuOf(Wr)] = "postfire" => memory = buffer
    <3>1. CpuOf(Wr) \in Cpu /\ pc \in [Cpu -> {"prefire", "enter", "act", "barrier", "postfire"}]
      BY <1>1, Located, FifoAssumption DEF Threads
    <3>2. pc'[CpuOf(Wr)] = "postfire" => pc[CpuOf(Wr)] = "postfire"
      BY <3>1 DEF Exit, Proceed
    <3> QED BY <1>1, <3>2 DEF Stored
  <2> QED BY <2>1, <2>2, Quiet DEF Exit
<1>14. Granted'
  <2>1. \A q \in Port : Place(q)' = Place(q)
    BY <1>5, <1>11
  <2>2. Wr \in Port /\ \A r \in Reader : r \in Port
    BY FifoAssumption DEF Reader
  <2>3. \A r \in Reader : Readable(r)' = Readable(r)
    BY <1>4, <1>5, <1>13, <2>2 DEF Readable, Exit
  <2> QED BY <1>1, <1>13, <2>1, <2>2, <2>3 DEF Granted, Exit
<1> QED BY <1>2, <1>10, <1>12, <1>13, <1>14 DEF Delivers

LEMMA BarrierStep ==
  ASSUME Delivers, NEW c \in Cpu, WriteBarrier(c)
  PROVE  Delivers'
<1>1. Threads /\ Ports /\ Copies /\ Granted /\ Stored
  BY DEF Delivers
<1>2. Threads'
  BY <1>1, ThreadsStep DEF Thread, Next
<1>3. \A q \in Port : Stage(q)' = Stage(q) /\ Place(q)' = Place(q) /\ Used(q)' = Used(q)
  <2>1. SUFFICES ASSUME NEW q \in Port
                 PROVE  Stage(q)' = Stage(q) /\ Place(q)' = Place(q) /\ Used(q)' = Used(q)
    OBVIOUS
  <2>2. Stage(q)' = Stage(q)
    BY <1>1, Moves
  <2> QED BY <1>1, <1>2, <2>2, Unaffected DEF WriteBarrier
<1>4. Ports'
  BY <1>1 DEF WriteBarrier, Ports
<1>5. Copies'
  BY <1>1, <1>3 DEF WriteBarrier, Copies
<1>6. /\ \A q \in Port : Published(q)' = Published(q)
      /\ Placed' /\ SharedCounts' /\ Stored' /\ InOrder'
  <2>1. \A q \in Port : Used(q)' = Used(q) /\ Place(q)'.pos = Place(q).pos
    BY <1>3
  <2>2. pc'[CpuOf(Wr)] = "postfire" => memory = buffer
    <3>1. CpuOf(Wr) \in Cpu /\ pc \in [Cpu -> {"prefire", "enter", "act", "barrier", "postfire"}]
      BY <1>1, Located, FifoAssumption DEF Threads
    <3>2. c = CpuOf(Wr) \/ pc'[CpuOf(Wr)] = pc[CpuOf(Wr)]
      BY <3>1 DEF WriteBarrier
    <3> QED BY <1>1, <3>2 DEF Stored, WriteBarrier, Drained
  <2> QED BY <2>1, <2>2, Quiet DEF WriteBarrier
<1>7. Granted'
  <2>1. Wr \in Port /\ \A r \in Reader : r \in Port
    BY FifoAssumption DEF Reader
  <2>2. \A r \in Reader : Readable(r)' = Readable(r)
    BY <1>3, <1>6, <2>1 DEF Readable, WriteBarrier
  <2> QED BY <1>1, <1>3, <1>6, <2>1, <2>2 DEF Granted, WriteBarrier
<1> QED BY <1>2, <1>4, <1>5, <1>6, <1>7 DEF Delivers

-----------------------------------------------------------------------------
(* Publication and stores.                                                 *)

LEMMA PropagateStep ==
  ASSUME Delivers, Propagate
  PROVE  Delivers'
<1>1. Threads /\ Ports /\ Copies /\ Granted /\ Stored /\ SharedCounts /\ Placed /\ InOrder
  BY DEF Delivers
<1>2. Threads'
  BY <1>1, ThreadsStep DEF Next
<1>3. \A q \in Port : /\ Stage(q)' = Stage(q) /\ Place(q)' = Place(q) /\ Used(q)' = Used(q)
                      /\ Done(q)' = Done(q) /\ Published(q)' = Published(q)
  <2>1. SUFFICES ASSUME NEW q \in Port
                 PROVE  Stage(q)' = Stage(q) /\ Place(q)' = Place(q) /\ Used(q)' = Used(q)
    BY DEF Propagate, Done, Published
  <2>2. Stage(q)' = Stage(q)
    BY DEF Propagate, Stage, StageAt
  <2> QED BY <1>1, <1>2, <2>2, Unaffected DEF Propagate
<1>4. Wr \in Port /\ \A r \in Reader : r \in Port
  BY FifoAssumption DEF Reader
<1>5. Ports' /\ Copies' /\ Placed' /\ SharedCounts' /\ InOrder'
  <2>1. Ports' /\ InOrder'
    BY <1>1 DEF Propagate, Ports, InOrder
  <2>2. Copies'
    BY <1>1, <1>3 DEF Propagate, Copies
  <2>3. Placed'
    BY <1>1, <1>3 DEF Propagate, Placed, Aligned
  <2>4. SharedCounts'
    BY <1>1, <1>3, <1>4 DEF Propagate, SharedCounts
  <2> QED BY <2>1, <2>2, <2>3, <2>4
<1>6. Granted'
  <2>1. \A r \in Reader : Readable(r)' = Readable(r)
    BY <1>3, <1>4 DEF Readable, Propagate
  <2> QED BY <1>1, <1>3, <1>4, <2>1 DEF Granted, Propagate
<1>7. Stored'
  <2>1. PICK s \in Slot : memory[s] # buffer[s] /\ memory' = [memory EXCEPT ![s] = buffer[s]]
    BY DEF Propagate
  <2>2. memory' \in [Slot -> 0 .. Total]
    BY <1>1, <2>1 DEF Stored
  <2>3. ASSUME NEW t \in 1 .. Published(Wr), t > sent - Cap PROVE memory'[Ring(t - 1)] = t
    <3>1. /\ sent \in Nat /\ Published(Wr) \in Int /\ Published(Wr) <= sent
          /\ Published(Wr) = sent - Used(Wr)
      BY <1>4, Bounds DEF Done
    <3>2. t \in 1 .. sent
      BY <3>1
    <3>3. memory[Ring(t - 1)] = t /\ buffer[Ring(t - 1)] = t
      BY <1>1, <2>3, <3>2 DEF Stored
    <3> QED BY <1>1, <2>1, <3>3 DEF Stored
  <2>4. pc'[CpuOf(Wr)] = "postfire" => memory' = buffer'
    BY <1>1, <2>1 DEF Stored, Propagate
  <2> QED BY <1>1, <1>3, <1>4, <2>2, <2>3, <2>4 DEF Stored, Propagate
<1> QED BY <1>2, <1>5, <1>6, <1>7 DEF Delivers

LEMMA PostfireStep ==
  ASSUME Delivers, NEW c \in Cpu, Postfire(c)
  PROVE  Delivers'
<1>1. Threads /\ Ports /\ Copies /\ Granted /\ Stored /\ SharedCounts /\ Placed /\ InOrder
  BY DEF Delivers
<1>2. Thread(c) /\ Threads'
  BY <1>1, ThreadsStep DEF Thread, Next
<1>3. PICK p \in Port : p = This(c) /\ CpuOf(p) = c
  BY <1>1, AtPort
<1>4. Stage(p) = "left" /\ Stage(p)' = "rest"
  BY <1>1, <1>3, Moves
<1>5. \A q \in Port : q # p =>
        /\ local'[q] = local[q] /\ context'[q] = context[q] /\ fired'[q] = fired[q]
        /\ Stage(q)' = Stage(q) /\ Place(q)' = Place(q) /\ Used(q)' = Used(q)
  BY <1>1, <1>2, <1>3, Elsewhere
<1>6. PICK l \in [pos : Slot, count : 0 .. Cap, available : 0 .. Cap] : l = local[p]
  BY <1>1 DEF Ports
<1>7. \A q \in Port : Done(q)' = Done(q)
  BY DEF Postfire, Done
<1>8. Wr \in Port /\ Cap \in Nat /\ \A r \in Reader : r \in Port /\ r # Wr
  BY FifoAssumption DEF Reader
<1>9. /\ Place(p) = [pos |-> l.pos, available |-> l.available]
      /\ Used(p) = IF fired[p] THEN l.count ELSE 0
      /\ local'[p].pos = l.pos /\ local'[p].available = l.available
      /\ Place(p)' = [pos |-> l.pos, available |-> l.available] /\ Used(p)' = 0
  <2>1. local'[p].pos = l.pos /\ local'[p].available = l.available
    BY <1>1, <1>3, <1>6 DEF Postfire, Ports
  <2> QED BY <1>1, <1>2, <1>4, <1>6, <2>1, PlaceFacts, PlaceFactsNext
\* The actor at p is published, the others are as before.
<1>10. /\ Published(p)' = Done(p) /\ Published(p)' = Published(p) + Used(p)
       /\ \A q \in Port : q # p => Published(q)' = Published(q)
       /\ \A q \in Port : /\ Published(q) \in Int /\ Published(q)' \in Int
                          /\ Published(q) <= Published(q)'
  <2>1. \A q \in Port : /\ Done(q) \in Nat /\ Used(q) \in 0 .. Cap
                        /\ Published(q) = Done(q) - Used(q) /\ Published(q) \in Int
    BY Bounds
  <2>2. Published(p)' = Done(p) - 0
    BY <1>7, <1>9 DEF Published
  <2>3. Published(p)' = Done(p) /\ Published(p)' = Published(p) + Used(p)
    <3>1. PICK d \in Int, u \in Int : d = Done(p) /\ u = Used(p)
      BY <1>8, <2>1
    <3> QED BY <2>1, <2>2, <3>1
  <2>4. \A q \in Port : q # p => Published(q)' = Published(q)
    BY <1>5, <1>7 DEF Published
  <2>5. ASSUME NEW q \in Port PROVE Published(q)' \in Int /\ Published(q) <= Published(q)'
    <3>1. CASE q = p
      <4>1. Published(p) \in Int /\ Used(p) \in Int /\ Used(p) >= 0
        BY <1>8, <2>1
      <4> QED BY <2>3, <3>1, <4>1
    <3>2. CASE q # p
      BY <2>1, <2>4, <3>2
    <3> QED BY <3>1, <3>2
  <2> QED BY <2>1, <2>3, <2>4, <2>5
<1>11. Ports'
  <2>1. local' \in [Port -> [pos : Slot, count : 0 .. Cap, available : 0 .. Cap]]
    <3>1. 0 \in 0 .. Cap
      BY <1>8
    <3>2. local' = local \/ local' = [local EXCEPT ![p].count = 0]
      BY <1>3 DEF Postfire
    <3>3. local \in [Port -> [pos : Slot, count : 0 .. Cap, available : 0 .. Cap]]
      BY <1>1 DEF Ports
    <3>4. [local[p] EXCEPT !.count = 0] \in [pos : Slot, count : 0 .. Cap, available : 0 .. Cap]
      BY ONLY p \in Port, <3>1, <3>3
    <3>5. \/ local' = local
          \/ local' = [local EXCEPT ![p] = [local[p] EXCEPT !.count = 0]]
      BY <3>2
    <3> QED BY ONLY p \in Port, <3>3, <3>4, <3>5
  <2>2. rcount' \in [Reader -> Int]
    <3>1. \A x \in Int : Wrapped(x) \in Int
      BY WrappedFacts, HalfFacts
    <3>2. UNCHANGED rcount \/ rcount' = [rcount EXCEPT ![p] = Wrapped(rcount[p] + l.count)]
      BY <1>3, <1>6 DEF Postfire
    <3>3. l.count \in Int
      BY <1>6, <1>8
    <3>4. CASE p \in Reader
      <4>1. Wrapped(rcount[p] + l.count) \in Int
        BY <1>1, <3>1, <3>3, <3>4 DEF Ports
      <4> QED BY <1>1, <3>2, <4>1 DEF Ports
    <3>5. CASE p \notin Reader
      BY <1>1, <3>2, <3>5 DEF Ports
    <3> QED BY <3>4, <3>5
  <2> QED BY <1>1, <2>1, <2>2 DEF Postfire, Ports
<1>12. Copies'
  BY <1>1, <1>4, <1>5 DEF Copies
<1>13. Placed'
  <2>1. \A q \in Port : Place(q)'.pos = Place(q).pos
    BY <1>5, <1>9
  <2> QED BY <1>1, <1>7, <2>1 DEF Postfire, Placed, Aligned
<1>14. SharedCounts'
  <2>1. CASE ~fired[p]
    <3>1. UNCHANGED <<wcount, rcount>>
      BY <1>3, <2>1 DEF Postfire
    <3>2. Published(p)' = Published(p)
      <4>1. Used(p) = 0
        BY <1>9, <2>1
      <4> QED BY <1>10, <4>1
    <3> QED BY <1>1, <1>8, <1>10, <3>1, <3>2 DEF SharedCounts
  <2>2. CASE fired[p] /\ p = Wr
    <3>1. wcount' = Wrapped(wcount + Used(p)) /\ UNCHANGED rcount
      BY <1>3, <1>6, <1>9, <2>2 DEF Postfire
    <3>2. wcount = Wrapped(Published(p))
      BY <1>1, <2>2 DEF SharedCounts
    <3>3. Published(p) \in Int /\ Used(p) \in Int
      BY <1>8, <1>10, Bounds
    <3>4. wcount' = Wrapped(Published(p) + Used(p))
      BY <3>1, <3>2, <3>3, WrappedSum
    <3> QED BY <1>1, <1>8, <1>10, <2>2, <3>1, <3>4 DEF SharedCounts
  <2>3. CASE fired[p] /\ p # Wr
    <3>1. p \in Reader /\ rcount \in [Reader -> Int]
      BY <1>1, <2>3 DEF Reader, Ports
    <3>2. /\ UNCHANGED wcount
          /\ rcount' = [rcount EXCEPT ![p] = Wrapped(rcount[p] + Used(p))]
      BY <1>3, <1>6, <1>9, <2>3 DEF Postfire
    <3>3. rcount[p] = Wrapped(Published(p))
      BY <1>1, <3>1 DEF SharedCounts
    <3>4. Published(p) \in Int /\ Used(p) \in Int
      BY <1>8, <1>10, Bounds
    <3>5. Wrapped(rcount[p] + Used(p)) = Wrapped(Published(p) + Used(p))
      BY <3>3, <3>4, WrappedSum
    <3> QED BY <1>1, <1>8, <1>10, <2>3, <3>1, <3>2, <3>5 DEF SharedCounts
  <2> QED BY <2>1, <2>2, <2>3
<1>15. Granted'
  <2>1. SUFFICES ASSUME NEW r \in Reader
                 PROVE  /\ sent + Place(Wr)'.available <= Published(r)' + Cap
                        /\ Len(got[r]) + Place(r)'.available <= Readable(r)'
    BY DEF Granted, Postfire
  <2>2. \A q \in Port : Place(q)'.available = Place(q).available
    BY <1>5, <1>9
  <2>3. /\ r \in Port /\ r # Wr /\ sent \in Int /\ Cap \in Int /\ Len(got[r]) \in Int
        /\ Place(Wr).available \in Int /\ Place(r).available \in Int
        /\ Published(r) \in Int /\ Published(r)' \in Int /\ Published(Wr) \in Int
        /\ Published(Wr)' \in Int /\ Published(r) <= Published(r)'
        /\ Published(Wr) <= Published(Wr)' /\ Readable(r) \in Int
    <3>1. r \in Port /\ r # Wr /\ Cap \in Int
      BY <1>8
    <3>2. /\ sent \in Int /\ Len(got[r]) \in Int /\ Readable(r) \in Int
          /\ \A q \in Port : Place(q).available \in 0 .. Cap
      BY Bounds
    <3>3. Place(Wr).available \in Int /\ Place(r).available \in Int
      BY <1>8, <3>1, <3>2
    <3> QED BY <1>8, <1>10, <3>1, <3>2, <3>3
  <2>4. Readable(r) <= Readable(r)' /\ Readable(r)' \in Int
    <3>1. Stage(r)' # "ready" <=> Stage(r) # "ready"
      BY <1>4, <1>5, <2>3
    <3> QED BY <2>3, <3>1 DEF Readable, Postfire
  <2>5. /\ sent + Place(Wr).available <= Published(r) + Cap
        /\ Len(got[r]) + Place(r).available <= Readable(r)
    BY <1>1 DEF Granted
  <2>6. sent + Place(Wr).available <= Published(r)' + Cap
    BY <2>3, <2>5, SMTT(30)
  <2>7. Len(got[r]) + Place(r).available <= Readable(r)'
    BY <2>3, <2>4, <2>5, SMTT(30)
  <2> QED BY <1>8, <2>2, <2>3, <2>6, <2>7
<1>16. Stored'
  <2>1. ASSUME NEW t \in 1 .. Published(Wr)', t > sent - Cap PROVE memory[Ring(t - 1)] = t
    <3>1. CASE p = Wr
      <4>1. memory = buffer
        BY <1>1, <1>3, <3>1 DEF Stored, Postfire
      <4>2. Published(Wr)' = sent
        BY <1>10, <3>1 DEF Done
      <4> QED BY <1>1, <2>1, <4>1, <4>2 DEF Stored
    <3>2. CASE p # Wr
      <4>1. Published(Wr)' = Published(Wr)
        BY <1>8, <1>10, <3>2
      <4> QED BY <1>1, <2>1, <4>1 DEF Stored
    <3> QED BY <3>1, <3>2
  <2>2. pc'[CpuOf(Wr)] = "postfire" => memory = buffer
    <3>1. CpuOf(Wr) \in Cpu /\ pc \in [Cpu -> {"prefire", "enter", "act", "barrier", "postfire"}]
      BY <1>1, <1>8, Located DEF Threads
    <3>2. pc'[CpuOf(Wr)] = "postfire" => pc[CpuOf(Wr)] = "postfire"
      BY <3>1 DEF Postfire, Proceed
    <3> QED BY <1>1, <3>2 DEF Stored
  <2> QED BY <1>1, <2>1, <2>2 DEF Stored, Postfire
<1>17. InOrder'
  BY <1>1 DEF InOrder, Postfire
<1> QED BY <1>2, <1>11, <1>12, <1>13, <1>14, <1>15, <1>16, <1>17 DEF Delivers

-----------------------------------------------------------------------------
(* An action writes and reads.                                             *)

\* What is common to writing and reading: n units more are used.
LEMMA UseEffect ==
  ASSUME Delivers, NEW c \in Cpu, Write(c) \/ Read(c), NEW p \in Port, p = This(c),
         NEW n \in 1 .. context[p].available, NEW way \in ReadWays(context[p].pos, n),
         Use(p, n, way), Done(p)' = Done(p) + n
  PROVE  /\ Stage(p) = "acting" /\ n \in 1 .. Cap /\ n <= Place(p).available
         /\ Right(way, Done(p), n)
         /\ Place(p)'.pos = Ring(Done(p) + n) /\ Aligned(Place(p)'.pos)
         /\ Place(p)'.available = Place(p).available - n
         /\ Published(p)' = Published(p)
         /\ context' \in [Port -> [pos : Slot, available : 0 .. Cap]]
         /\ fired' \in [Port -> BOOLEAN]
         /\ Copies'
<1>1. Threads /\ Ports /\ Copies /\ Granted /\ Stored /\ Placed
  BY DEF Delivers
<1>2. Thread(c) /\ Threads'
  BY <1>1, ThreadsStep DEF Thread, Next
<1>3. Stage(p) = "acting" /\ Stage(p)' = "acting"
  BY <1>1, Moves
<1>4. \A q \in Port : q # p =>
        /\ local'[q] = local[q] /\ context'[q] = context[q] /\ fired'[q] = fired[q]
        /\ Stage(q)' = Stage(q)
  BY <1>1, <1>2, Elsewhere
<1>5. PICK b \in Nat : b = Cap
  BY HalfFacts
<1>6. PICK l \in [pos : Slot, count : 0 .. Cap, available : 0 .. Cap],
           x \in [pos : Slot, available : 0 .. Cap] :
        l = local[p] /\ x = context[p] /\ x.available <= l.available
  BY <1>1, <1>3 DEF Ports, Copies
<1>7. PICK a \in 0 .. b, m \in 0 .. b : a = x.available /\ m = l.available /\ n \in 1 .. a /\ a <= m
  BY <1>5, <1>6
<1>8. /\ Place(p) = [pos |-> x.pos, available |-> a] /\ Used(p) = m - a
      /\ x.pos = Ring(Done(p)) /\ Aligned(x.pos)
  BY <1>1, <1>3, <1>6, <1>7, PlaceFacts DEF Placed
<1>9. PICK d \in Nat : d = Done(p)
  BY Bounds
<1>10. n \in 1 .. Cap
  BY <1>5, <1>7
<1>11. Right(way, d, n)
  <2>1. way \in ReadWays(Ring(d), n) /\ Aligned(Ring(d)) /\ unit \in Units
    BY <1>1, <1>6, <1>8, <1>9 DEF Threads
  <2> QED BY ONLY <1>9, <1>10, <2>1, AccessRight
<1>12. way.next = Ring(d + n) /\ Aligned(Ring(d + n)) /\ Ring(d + n) \in Slot
  <2>1. d + n \in Int
    BY <1>10
  <2> QED BY <1>11, <2>1, RingFacts DEF Right
<1>13. /\ context'[p] = [pos |-> Ring(d + n), available |-> a - n] /\ fired'[p] = TRUE
       /\ local' = local
  BY <1>1, <1>6, <1>7, <1>12 DEF Use, Ports, Write, Read
<1>14. Place(p)' = [pos |-> Ring(d + n), available |-> a - n] /\ Used(p)' = m - (a - n)
  BY <1>2, <1>3, <1>6, <1>7, <1>13, PlaceFactsNext
<1>15. Published(p)' = Published(p)
  <2>1. (d + n) - (m - (a - n)) = d - (m - a)
    BY <1>7
  <2> QED BY <1>8, <1>9, <1>14, <2>1 DEF Published
<1>16. context' \in [Port -> [pos : Slot, available : 0 .. Cap]] /\ fired' \in [Port -> BOOLEAN]
  <2>1. a - n \in 0 .. Cap
    BY <1>5, <1>7
  <2>2. [pos |-> Ring(d + n), available |-> a - n] \in [pos : Slot, available : 0 .. Cap]
    BY <1>12, <2>1
  <2>3. context' = [context EXCEPT ![p] = [pos |-> Ring(d + n), available |-> a - n]]
    BY <1>1, <1>6, <1>7, <1>12 DEF Use, Ports
  <2> QED BY <1>1, <2>2, <2>3, SMTT(30) DEF Ports, Use
<1>17. Copies'
  <2>1. a - n <= m
    BY <1>7
  <2> QED BY <1>1, <1>3, <1>4, <1>6, <1>7, <1>13, <2>1 DEF Copies
<1>18. n <= Place(p).available /\ Place(p)'.available = Place(p).available - n
  BY <1>7, <1>8, <1>14
<1>19. Aligned(Place(p)'.pos) /\ Place(p)'.pos = Ring(Done(p) + n)
  BY <1>9, <1>12, <1>14
<1> QED BY <1>3, <1>9, <1>10, <1>11, <1>15, <1>16, <1>17, <1>18, <1>19

LEMMA WriteStep ==
  ASSUME Delivers, NEW c \in Cpu, Write(c)
  PROVE  Delivers'
<1>1. Threads /\ Ports /\ Copies /\ Granted /\ Stored /\ SharedCounts /\ Placed /\ InOrder
  BY DEF Delivers
<1>2. Thread(c) /\ Threads'
  BY <1>1, ThreadsStep DEF Thread, Next
<1>3. /\ Wr \in Port /\ This(c) = Wr /\ CpuOf(Wr) = c /\ pc[c] = "act"
      /\ UNCHANGED <<unit, memory, wcount, rcount, local, pc, at, got>>
      /\ \A r \in Reader : r \in Port /\ r # Wr
  BY <1>1, AtPort DEF Write, Reader
<1>4. PICK n \in 1 .. context[Wr].available :
        \E way \in Ways(context[Wr].pos, n) :
          /\ sent + n <= Total
          /\ Use(Wr, n, way)
          /\ buffer' = [s \in Slot |->
               LET hits == {k \in 1 .. n : way.slots[k] = s}
               IN IF hits = {} THEN buffer[s] ELSE sent + Max(hits)]
          /\ sent' = sent + n
  BY DEF Write
<1>5. PICK way \in Ways(context[Wr].pos, n) :
          /\ sent + n <= Total
          /\ Use(Wr, n, way)
          /\ buffer' = [s \in Slot |->
               LET hits == {k \in 1 .. n : way.slots[k] = s}
               IN IF hits = {} THEN buffer[s] ELSE sent + Max(hits)]
          /\ sent' = sent + n
  BY <1>4
<1>6. PICK b \in Nat \ {0}, m \in Nat : b = Cap /\ m = sent
  BY Bounds
<1>7. Done(Wr) = m /\ Done(Wr)' = m + n
  BY <1>5, <1>6 DEF Done
<1>8. /\ n \in 1 .. Cap /\ n <= Place(Wr).available /\ Right(way, m, n)
      /\ Place(Wr)'.pos = Ring(m + n) /\ Aligned(Place(Wr)'.pos)
      /\ Place(Wr)'.available = Place(Wr).available - n
      /\ Published(Wr)' = Published(Wr)
      /\ context' \in [Port -> [pos : Slot, available : 0 .. Cap]]
      /\ fired' \in [Port -> BOOLEAN] /\ Copies'
  <2>1. way \in ReadWays(context[Wr].pos, n)
    BY DEF ReadWays
  <2>2. Use(Wr, n, way) /\ Done(Wr)' = Done(Wr) + n
    BY <1>5, <1>7
  <2> QED BY <1>3, <1>7, <2>1, <2>2, UseEffect
<1>9. n \in 1 .. b /\ m + n \in Nat
  BY <1>6, <1>8
<1>10. \A q \in Port : q # Wr =>
         /\ Stage(q)' = Stage(q) /\ Place(q)' = Place(q) /\ Used(q)' = Used(q)
         /\ Done(q)' = Done(q) /\ Published(q)' = Published(q)
  <2>1. SUFFICES ASSUME NEW q \in Port, q # Wr
                 PROVE  /\ Stage(q)' = Stage(q) /\ Place(q)' = Place(q) /\ Used(q)' = Used(q)
                        /\ Done(q)' = Done(q)
    BY DEF Published
  <2>2. Done(q)' = Done(q)
    BY <1>3, <2>1 DEF Done
  <2>3. q # This(c)
    BY <1>3, <2>1
  <2> QED BY <1>1, <1>2, <2>2, <2>3, Elsewhere
<1>11. \A q \in Port : Published(q)' = Published(q)
  BY <1>8, <1>10
<1>12. Ports'
  <2>1. sent' \in 0 .. Total
    <3>1. m + n <= Total /\ sent' = m + n
      BY <1>5, <1>6
    <3> QED BY <1>9, <3>1, FifoAssumption
  <2> QED BY <1>1, <1>3, <1>8, <2>1 DEF Ports
<1>13. Placed'
  <2>1. \A q \in Port : Place(q)'.pos = Ring(Done(q)') /\ Aligned(Place(q)'.pos)
    BY <1>1, <1>7, <1>8, <1>10 DEF Placed
  <2> QED BY <1>3, <2>1 DEF Placed, Aligned
<1>14. SharedCounts'
  BY <1>1, <1>3, <1>11 DEF SharedCounts
<1>15. Granted'
  <2>1. SUFFICES ASSUME NEW r \in Reader
                 PROVE  /\ sent' + Place(Wr)'.available <= Published(r)' + Cap
                        /\ Len(got[r]) + Place(r)'.available <= Readable(r)'
    BY <1>3 DEF Granted
  <2>2. r \in Port /\ r # Wr /\ Published(r)' = Published(r) /\ Published(Wr)' = Published(Wr)
    BY <1>3, <1>11
  <2>3. PICK a \in Nat : a = Place(Wr).available
    BY <1>3, <1>6, Bounds
  <2>4. sent' + Place(Wr)'.available = sent + Place(Wr).available
    <3>1. (m + n) + (a - n) = m + a
      BY <2>3
    <3> QED BY <1>5, <1>6, <1>8, <2>3, <3>1
  <2>5. Len(got[r]) + Place(r)'.available <= Readable(r)
    BY <1>1, <1>10, <2>2 DEF Granted
  <2>6. Readable(r) <= Readable(r)' /\ Readable(r) \in Int /\ Readable(r)' \in Int
    <3>1. Readable(r) \in Int /\ Published(Wr) \in Int
      BY <1>3, Bounds
    <3>2. Readable(r)' = IF CpuOf(r) = CpuOf(Wr) /\ Stage(r) # "ready" THEN m + n
                         ELSE Published(Wr)
      BY <1>5, <1>6, <1>10, <2>2 DEF Readable
    <3>3. Readable(r) = IF CpuOf(r) = CpuOf(Wr) /\ Stage(r) # "ready" THEN m
                        ELSE Published(Wr)
      BY <1>6 DEF Readable
    <3> QED BY <3>1, <3>2, <3>3
  <2>7. Len(got[r]) \in Int /\ Place(r)'.available \in Int
    <3>1. Place(r).available \in 0 .. Cap /\ Len(got[r]) \in Nat
      BY <2>2, Bounds
    <3> QED BY <1>6, <1>10, <2>2, <3>1
  <2>8. Len(got[r]) + Place(r)'.available <= Readable(r)'
    BY <2>5, <2>6, <2>7
  <2>9. sent + Place(Wr).available <= Published(r) + Cap
    BY <1>1 DEF Granted
  <2> QED BY <2>2, <2>4, <2>8, <2>9
\* What is stored.
<1>16. ASSUME NEW t \in 1 .. m + n, t > (m + n) - b PROVE buffer'[Ring(t - 1)] = t
  <2>1. PICK i \in Int : i = t - 1
    OBVIOUS
  <2>2. Ring(i) \in Slot
    BY RingFacts
  <2> DEFINE hits == {k \in 1 .. n : way.slots[k] = Ring(i)}
  <2>3. buffer'[Ring(i)] = IF hits = {} THEN buffer[Ring(i)] ELSE sent + Max(hits)
    BY <1>5, <2>2
  <2>4. ASSUME NEW k \in 1 .. n PROVE k \in hits <=> t = m + k
    <3>1. PICK j \in Int : j = m + (k - 1)
      OBVIOUS
    <3>2. way.slots[k] = Ring(j)
      BY <1>8, <3>1 DEF Right
    <3>3. i - j < b /\ j - i < b
      BY <1>9, <1>16, <2>1, <3>1
    <3>4. Ring(j) = Ring(i) <=> j = i
      BY <1>6, <3>3, RingDistinct
    <3>5. j = i <=> t = m + k
      BY <1>9, <2>1, <3>1
    <3> QED BY <3>2, <3>4, <3>5
  <2>5. \A k \in hits : k \in 1 .. n
    OBVIOUS
  <2> HIDE DEF hits
  <2>6. CASE t <= m
    <3>1. hits = {}
      <4>1. ASSUME NEW k \in hits PROVE FALSE
        <5>1. k \in 1 .. n /\ t = m + k
          BY <2>4, <2>5
        <5> QED BY <1>9, <2>6, <5>1
      <4> QED BY <4>1
    <3>2. t \in 1 .. sent /\ t > sent - Cap
      BY <1>6, <1>9, <1>16, <2>6
    <3>3. buffer[Ring(t - 1)] = t
      BY <1>1, <3>2 DEF Stored
    <3> QED BY <2>1, <2>3, <3>1, <3>3
  <2>7. CASE t > m
    <3>1. PICK k \in 1 .. n : t = m + k
      <4>1. t - m \in 1 .. n /\ t = m + (t - m)
        BY <1>9, <1>16, <2>7
      <4> QED BY <4>1
    <3>2. hits = {k}
      <4>1. k \in hits
        BY <2>4, <3>1
      <4>2. ASSUME NEW x \in hits PROVE x = k
        <5>1. x \in 1 .. n /\ t = m + x
          BY <2>4, <2>5
        <5> QED BY <1>9, <3>1, <5>1
      <4> QED BY <4>1, <4>2
    <3>3. Max(hits) = k
      <4>1. k \in hits /\ \A y \in hits : k >= y
        BY <1>9, <3>2
      <4>2. Max(hits) \in hits
        BY <4>1 DEF Max
      <4> QED BY <3>2, <4>2
    <3> QED BY <1>6, <2>1, <2>3, <3>1, <3>2, <3>3
  <2> QED BY <1>6, <1>9, <2>6, <2>7
<1>17. buffer' \in [Slot -> 0 .. Total]
  <2>1. SUFFICES ASSUME NEW s \in Slot PROVE buffer'[s] \in 0 .. Total
    BY <1>5
  <2> DEFINE hits == {k \in 1 .. n : way.slots[k] = s}
  <2>2. buffer'[s] = IF hits = {} THEN buffer[s] ELSE sent + Max(hits)
    BY <1>5
  <2>3. CASE hits = {}
    BY <1>1, <2>2, <2>3 DEF Stored
  <2>4. CASE hits # {}
    <3>1. PICK k \in 1 .. n : way.slots[k] = s
      BY <2>4
    <3>2. PICK t \in 1 .. m + n : t = m + k /\ Ring(t - 1) = s
      <4>1. m + k \in 1 .. m + n /\ (m + k) - 1 = m + (k - 1)
        BY <1>9
      <4> QED BY <1>8, <3>1, <4>1 DEF Right
    <3>3. t > (m + n) - b
      BY <1>9, <3>2
    <3>4. buffer'[s] = t
      BY <1>16, <3>2, <3>3
    <3>5. m + n <= Total
      BY <1>5, <1>6
    <3> QED BY <1>9, <3>4, <3>5, FifoAssumption
  <2> QED BY <2>3, <2>4
<1>18. Stored'
  <2>1. PICK u \in Int : u = Published(Wr)
    BY <1>3, Bounds
  <2>2. ASSUME NEW t \in 1 .. u, t > (m + n) - b PROVE memory[Ring(t - 1)] = t
    <3>1. t > sent - Cap
      BY <1>6, <1>9, <2>1, <2>2
    <3> QED BY <1>1, <2>1, <3>1 DEF Stored
  <2>3. pc'[CpuOf(Wr)] # "postfire"
    BY <1>3
  <2>4. sent' = m + n /\ Cap = b /\ Published(Wr)' = u /\ memory' = memory
    BY <1>3, <1>5, <1>6, <1>8, <2>1
  <2> QED BY <1>1, <1>16, <1>17, <2>2, <2>3, <2>4 DEF Stored
<1>19. InOrder'
  BY <1>1, <1>3 DEF InOrder
<1> QED BY <1>2, <1>8, <1>12, <1>13, <1>14, <1>15, <1>18, <1>19 DEF Delivers

LEMMA ReadStep ==
  ASSUME Delivers, NEW c \in Cpu, Read(c)
  PROVE  /\ Delivers'
         /\ \E r \in Reader : \E n \in 1 .. sent - Len(got[r]) :
              got' = [got EXCEPT ![r] = [k \in 1 .. Len(got[r]) + n |-> k]]
<1>1. Threads /\ Ports /\ Copies /\ Granted /\ Stored /\ SharedCounts /\ Placed /\ InOrder
  BY DEF Delivers
<1>2. Thread(c) /\ Threads'
  BY <1>1, ThreadsStep DEF Thread, Next
<1>3. PICK p \in Port : p = This(c) /\ CpuOf(p) = c
  BY <1>1, AtPort
<1>4. /\ p # Wr /\ p \in Reader /\ pc[c] = "act"
      /\ UNCHANGED <<unit, buffer, memory, wcount, rcount, local, pc, at, sent>>
  BY <1>3 DEF Read, Reader
<1>5. PICK n \in 1 .. context[p].available :
        \E way \in ReadWays(context[p].pos, n) :
          /\ Use(p, n, way)
          /\ got' = [got EXCEPT ![p] = @ \o [k \in 1 .. n |-> Loaded(c, way.slots[k])]]
  BY <1>3 DEF Read
<1>6. PICK way \in ReadWays(context[p].pos, n) :
          /\ Use(p, n, way)
          /\ got' = [got EXCEPT ![p] = @ \o [k \in 1 .. n |-> Loaded(c, way.slots[k])]]
  BY <1>5
<1>7. PICK b \in Nat \ {0}, m \in Nat, l \in Nat : b = Cap /\ m = sent /\ l = Len(got[p])
  BY <1>4, Bounds
<1>8. Wr \in Port /\ (\A r \in Reader : r \in Port /\ r # Wr) /\ got \in [Reader -> Seq(Nat)]
  BY <1>1, FifoAssumption DEF Reader, Ports
<1>9. n \in 1 .. b /\ n \in Nat
  <2>1. context[p].available \in 0 .. b
    BY <1>1, <1>7 DEF Ports
  <2> QED BY <2>1
<1>10. PICK new : new = [k \in 1 .. n |-> Loaded(c, way.slots[k])]
  OBVIOUS
\* As many units are read as are used.
<1>11. Done(p) = l /\ Len(got'[p]) = l + n /\ Done(p)' = l + n
  <2>1. new \in Seq(Nat) /\ Len(new) = n
    <3>1. \A s : Loaded(c, s) \in Nat
      BY <1>1, FifoAssumption DEF Loaded, Stored
    <3> QED BY <1>9, <1>10, <3>1
  <2>2. Len(got[p] \o new) = l + n
    <3>1. got[p] \in Seq(Nat)
      BY <1>4, <1>8
    <3>2. PICK s \in Seq(Nat), t \in Seq(Nat) : s = got[p] /\ t = new
      BY <2>1, <3>1
    <3>3. Len(s \o t) = Len(s) + Len(t)
      OBVIOUS
    <3> QED BY <1>7, <2>1, <3>2, <3>3
  <2>3. got'[p] = got[p] \o new
    BY <1>4, <1>6, <1>8, <1>10
  <2> QED BY <1>4, <1>7, <2>2, <2>3 DEF Done
<1>12. /\ Stage(p) = "acting" /\ n <= Place(p).available /\ Right(way, l, n)
       /\ Place(p)'.pos = Ring(l + n) /\ Aligned(Place(p)'.pos)
       /\ Place(p)'.available = Place(p).available - n
       /\ Published(p)' = Published(p)
       /\ context' \in [Port -> [pos : Slot, available : 0 .. Cap]]
       /\ fired' \in [Port -> BOOLEAN] /\ Copies'
  <2>1. Done(p)' = Done(p) + n
    BY <1>11
  <2> QED BY <1>3, <1>6, <1>11, <2>1, UseEffect
<1>13. \A q \in Port : q # p =>
         /\ Stage(q)' = Stage(q) /\ Place(q)' = Place(q) /\ Used(q)' = Used(q)
         /\ Done(q)' = Done(q) /\ Published(q)' = Published(q)
  <2>1. SUFFICES ASSUME NEW q \in Port, q # p
                 PROVE  /\ Stage(q)' = Stage(q) /\ Place(q)' = Place(q) /\ Used(q)' = Used(q)
                        /\ Done(q)' = Done(q)
    BY DEF Published
  <2>2. Done(q)' = Done(q)
    <3>1. CASE q = Wr
      BY <1>4, <3>1 DEF Done
    <3>2. CASE q # Wr
      BY <1>6, <1>8, <2>1, <3>2 DEF Done, Reader
    <3> QED BY <3>1, <3>2
  <2> QED BY <1>1, <1>2, <1>3, <2>1, <2>2, Elsewhere
<1>14. \A q \in Port : Published(q)' = Published(q) /\ Stage(q)' = Stage(q)
  <2>1. Stage(p)' = Stage(p)
    BY <1>1, Moves
  <2> QED BY <1>12, <1>13, <2>1
\* What is granted to p, and how far the writer is ahead.
<1>15. PICK a \in Nat, z \in Int, w \in Int :
         /\ a = Place(p).available /\ z = Published(p) /\ w = Published(Wr)
         /\ n <= a /\ z <= l /\ w <= m /\ m <= z + b
         /\ l + a <= (IF c = CpuOf(Wr) THEN m ELSE w)
  <2>1. /\ Place(p).available \in 0 .. Cap /\ Place(Wr).available \in 0 .. Cap
        /\ Published(p) = Done(p) - Used(p) /\ Used(p) \in 0 .. Cap
        /\ Published(Wr) = Done(Wr) - Used(Wr) /\ Used(Wr) \in 0 .. Cap
        /\ Done(Wr) = m
    BY <1>7, <1>8, Bounds DEF Done
  <2>2. PICK a \in Nat, y \in Nat, u \in Nat, v \in Nat :
          /\ a = Place(p).available /\ y = Place(Wr).available
          /\ u = Used(p) /\ v = Used(Wr)
    BY <1>7, <2>1
  <2>3. sent + Place(Wr).available <= Published(p) + Cap
    BY <1>1, <1>4 DEF Granted
  <2>4. Len(got[p]) + Place(p).available <= Readable(p)
    BY <1>1, <1>4 DEF Granted
  <2>5. Readable(p) = IF c = CpuOf(Wr) THEN sent ELSE Published(Wr)
    BY <1>3, <1>12 DEF Readable
  <2>6. PICK z \in Int, w \in Int : z = l - u /\ w = m - v
    OBVIOUS
  <2>7. z = Published(p) /\ w = Published(Wr)
    BY <1>11, <2>1, <2>2, <2>6
  <2>8. m + y <= z + b
    BY <1>7, <2>2, <2>3, <2>7
  <2>9. l + a <= (IF c = CpuOf(Wr) THEN m ELSE w)
    BY <1>7, <2>2, <2>4, <2>5, <2>7
  <2>10. n <= a
    BY <1>12, <2>2
  <2>11. z <= l /\ w <= m /\ m <= z + b
    BY <2>6, <2>8
  <2> QED BY <2>2, <2>7, <2>9, <2>10, <2>11
\* What is loaded.
<1>16. ASSUME NEW k \in 1 .. n PROVE new[k] = l + k
  <2>1. PICK t \in Nat : t = l + k /\ t \in 1 .. m /\ t > m - b /\ t - 1 = l + (k - 1)
    BY <1>9, <1>15
  <2>2. way.slots[k] = Ring(t - 1)
    BY <1>12, <2>1 DEF Right
  <2>3. Ring(t - 1) \in Slot
    <3>1. t - 1 \in Int
      OBVIOUS
    <3> QED BY <3>1, RingFacts
  <2>4. new[k] = Loaded(c, Ring(t - 1))
    BY <1>10, <2>2
  <2>5. CASE c = CpuOf(Wr)
    <3>1. buffer[Ring(t - 1)] = t
      BY <1>1, <1>7, <2>1 DEF Stored
    <3> QED BY <2>1, <2>3, <2>4, <2>5, <3>1 DEF Loaded
  <2>6. CASE c # CpuOf(Wr)
    <3>1. t \in 1 .. w
      BY <1>9, <1>15, <2>1, <2>6
    <3>2. memory[Ring(t - 1)] = t
      BY <1>1, <1>7, <1>15, <2>1, <3>1 DEF Stored
    <3> QED BY <2>1, <2>3, <2>4, <2>6, <3>2 DEF Loaded
  <2> QED BY <2>5, <2>6
<1>17. got[p] \o new = [k \in 1 .. l + n |-> k]
  <2>1. got[p] = [k \in 1 .. l |-> k]
    BY <1>1, <1>4, <1>7 DEF InOrder
  <2>2. got[p] \in Seq(Nat) /\ new \in Seq(Nat) /\ Len(new) = n
    <3>1. new = [k \in 1 .. n |-> l + k]
      BY <1>10, <1>16
    <3>2. \A k \in 1 .. n : l + k \in Nat
      OBVIOUS
    <3> QED BY <1>4, <1>8, <1>9, <3>1, <3>2
  <2>3. DOMAIN (got[p] \o new) = 1 .. l + n
    <3>1. Len(got[p]) = l /\ l \in Nat /\ n \in Nat
      BY <1>7, <1>9
    <3>2. PICK s \in Seq(Nat), t \in Seq(Nat) : s = got[p] /\ t = new
      BY <2>2
    <3>3. Len(s) = l /\ Len(t) = n
      BY <2>2, <3>1, <3>2
    <3>4. DOMAIN (s \o t) = 1 .. l + n
      <4>1. s \o t \in Seq(Nat) /\ Len(s \o t) = Len(s) + Len(t)
        OBVIOUS
      <4>2. DOMAIN (s \o t) = 1 .. Len(s \o t)
        BY <4>1
      <4> QED BY ONLY <4>1, <4>2, <3>3
    <3> QED BY <3>2, <3>4
  <2>4. ASSUME NEW k \in 1 .. l + n PROVE (got[p] \o new)[k] = k
    <3>1. CASE k <= l
      <4>1. (got[p] \o new)[k] = got[p][k]
        BY <1>7, <1>9, <2>2, <3>1
      <4> QED BY <2>1, <3>1, <4>1
    <3>2. CASE k > l
      <4>1. PICK j \in 1 .. n : k = l + j
        <5>1. k - l \in 1 .. n /\ k = l + (k - l)
          BY <1>9, <3>2
        <5> QED BY <5>1
      <4>2. (got[p] \o new)[l + j] = new[j]
        BY <1>7, <1>9, <2>2
      <4> QED BY <1>16, <4>1, <4>2
    <3>3. k <= l \/ k > l
      <4>1. k \in Int /\ l \in Int
        BY <1>9
      <4> QED BY ONLY <4>1
    <3> QED BY ONLY <3>1, <3>2, <3>3
  <2>5. (got[p] \o new) = [k \in 1 .. l + n |-> (got[p] \o new)[k]]
    BY <2>2, <2>3
  <2> QED BY <2>4, <2>5
<1>18. got' = [got EXCEPT ![p] = [k \in 1 .. l + n |-> k]]
  BY <1>6, <1>10, <1>17
<1>19. Ports'
  <2>1. [k \in 1 .. l + n |-> k] \in Seq(Nat)
    <3>1. l + n \in Nat
      BY <1>9
    <3> QED BY <3>1
  <2>2. got' \in [Reader -> Seq(Nat)]
    BY <1>4, <1>8, <1>18, <2>1
  <2> QED BY <1>1, <1>4, <1>12, <2>2 DEF Ports
<1>20. Placed'
  <2>1. \A q \in Port : Place(q)'.pos = Ring(Done(q)') /\ Aligned(Place(q)'.pos)
    BY <1>1, <1>11, <1>12, <1>13 DEF Placed
  <2> QED BY <1>4, <2>1 DEF Placed, Aligned
<1>21. SharedCounts'
  BY <1>1, <1>4, <1>8, <1>14 DEF SharedCounts
<1>22. Granted'
  <2>1. SUFFICES ASSUME NEW r \in Reader
                 PROVE  /\ sent + Place(Wr)'.available <= Published(r)' + Cap
                        /\ Len(got'[r]) + Place(r)'.available <= Readable(r)'
    BY <1>4 DEF Granted
  <2>2. r \in Port /\ r # Wr /\ Published(r)' = Published(r) /\ Published(Wr)' = Published(Wr)
    BY <1>8, <1>14
  <2>3. Place(Wr)' = Place(Wr) /\ Readable(r)' = Readable(r)
    BY <1>4, <1>8, <1>13, <1>14, <2>2 DEF Readable
  <2>4. Len(got'[r]) + Place(r)'.available = Len(got[r]) + Place(r).available
    <3>1. CASE r = p
      <4>1. (l + n) + (a - n) = l + a
        BY <1>9
      <4> QED BY <1>7, <1>11, <1>12, <1>15, <3>1, <4>1
    <3>2. CASE r # p
      BY <1>8, <1>13, <1>18, <2>2, <3>2
    <3> QED BY <3>1, <3>2
  <2> QED BY <1>1, <2>2, <2>3, <2>4 DEF Granted
<1>23. Stored'
  BY <1>1, <1>4, <1>8, <1>14 DEF Stored
<1>24. InOrder'
  <2>1. SUFFICES ASSUME NEW r \in Reader PROVE got'[r] = [k \in 1 .. Len(got'[r]) |-> k]
    BY DEF InOrder
  <2>2. CASE r = p
    BY <1>4, <1>8, <1>11, <1>18, <2>2
  <2>3. CASE r # p
    BY <1>1, <1>8, <1>18, <2>3 DEF InOrder
  <2> QED BY <2>2, <2>3
<1>25. n \in 1 .. m - l
  BY <1>9, <1>15
<1> QED BY <1>2, <1>4, <1>7, <1>12, <1>18, <1>19, <1>20, <1>21, <1>22, <1>23, <1>24, <1>25 DEF Delivers

-----------------------------------------------------------------------------
(* The theorems.                                                           *)

LEMMA Initially ==
  ASSUME Init
  PROVE  Delivers
<1>1. PICK b \in Nat \ {0} : b = Cap
  BY HalfFacts
<1>2. Threads
  BY FifoAssumption DEF Init, Threads
<1>3. Ports
  <2>1. -Cap \in Slot /\ 0 \in 0 .. Cap
    BY <1>1 DEF Slot
  <2>2. 0 \in 0 .. Total /\ <<>> \in Seq(Nat)
    BY FifoAssumption
  <2> QED BY <2>1, <2>2 DEF Init, Ports
<1>4. \A p \in Port : Stage(p) = "rest" /\ Done(p) = 0
  <2>1. SUFFICES ASSUME NEW p \in Port PROVE Stage(p) = "rest" /\ Done(p) = 0
    OBVIOUS
  <2>2. CpuOf(p) \in Cpu /\ Index(p) \in 1 .. Len(On[CpuOf(p)]) /\ Len(On[CpuOf(p)]) \in Nat
    BY Located, FifoAssumption
  <2>3. ~(Index(p) < 1)
    BY <2>2
  <2>4. Stage(p) = "rest"
    BY <2>2, <2>3 DEF Init, Stage, StageAt
  <2>5. Done(p) = 0
    BY DEF Init, Done, Reader
  <2> QED BY <2>4, <2>5
<1>5. \A p \in Port : /\ Place(p) = [pos |-> -Cap, available |-> 0] /\ Used(p) = 0
                      /\ Published(p) = 0
  BY <1>2, <1>4, PlaceFacts DEF Init, Published
<1>6. Copies
  BY <1>4 DEF Copies
<1>7. Placed
  <2>1. 0 % b = 0
    OBVIOUS
  <2>2. Ring(0) = -Cap
    BY <1>1, <2>1 DEF Ring
  <2>3. Aligned(-Cap)
    <3>1. unit \in Nat \ {0}
      BY <1>2, UnitFacts DEF Threads
    <3>2. 0 % unit = 0
      BY <3>1
    <3>3. -Cap + Cap = 0
      BY <1>1
    <3> QED BY <3>2, <3>3 DEF Aligned
  <2> QED BY <1>4, <1>5, <2>2, <2>3 DEF Placed
<1>8. SharedCounts
  <2>1. Wrapped(0) = 0
    <3>1. 0 \in -Half .. Half - 1 /\ 0 = Counts * 0 + 0
      BY HalfFacts
    <3> QED BY <3>1, WrappedSame
  <2>2. Wr \in Port /\ \A r \in Reader : r \in Port
    BY FifoAssumption DEF Reader
  <2> QED BY <1>5, <2>1, <2>2 DEF Init, SharedCounts
<1>9. Granted
  <2>1. Wr \in Port /\ \A r \in Reader : r \in Port /\ Len(got[r]) = 0
    BY FifoAssumption DEF Reader, Init
  <2>2. \A r \in Reader : Readable(r) = 0
    BY <1>4, <1>5, <2>1 DEF Readable, Init
  <2>3. sent = 0 /\ 0 + 0 <= 0 + Cap /\ 0 + 0 <= 0
    BY <1>1 DEF Init
  <2> QED BY <1>5, <2>1, <2>2, <2>3 DEF Granted
<1>10. Stored
  <2>1. Published(Wr) = 0
    BY <1>5, FifoAssumption
  <2>2. 0 \in 0 .. Total
    BY FifoAssumption
  <2> QED BY <2>1, <2>2 DEF Stored, Init
<1>11. InOrder
  BY DEF InOrder, Init
<1> QED BY <1>2, <1>3, <1>6, <1>7, <1>8, <1>9, <1>10, <1>11 DEF Delivers

LEMMA DeliversStep ==
  ASSUME Delivers, [Next]_vars
  PROVE  Delivers'
<1>1. CASE UNCHANGED vars
  <2>1. \A p \in Port : /\ Stage(p)' = Stage(p) /\ Place(p)' = Place(p) /\ Used(p)' = Used(p)
                        /\ Done(p)' = Done(p)
    BY <1>1 DEF vars, Stage, StageAt, Place, Used, Done, Acting, Unpublished, This
  <2>2. Wr \in Port /\ \A r \in Reader : r \in Port
    BY FifoAssumption DEF Reader
  <2>3. \A p \in Port : Published(p)' = Published(p)
    BY <2>1 DEF Published
  <2>4. Threads' /\ Ports' /\ InOrder'
    BY <1>1 DEF vars, Delivers, Threads, Ports, InOrder
  <2>5. Copies'
    BY <1>1, <2>1 DEF vars, Delivers, Copies
  <2>6. Placed'
    BY <1>1, <2>1 DEF vars, Delivers, Placed, Aligned
  <2>7. SharedCounts'
    BY <1>1, <2>2, <2>3 DEF vars, Delivers, SharedCounts
  <2>8. Granted'
    BY <1>1, <2>1, <2>2, <2>3 DEF vars, Delivers, Granted, Readable
  <2>9. Stored'
    BY <1>1, <2>2, <2>3 DEF vars, Delivers, Stored
  <2> QED BY <2>4, <2>5, <2>6, <2>7, <2>8, <2>9 DEF Delivers
<1>2. CASE Propagate
  BY <1>2, PropagateStep
<1>3. ASSUME NEW c \in Cpu, Thread(c) PROVE Delivers'
  BY <1>3, PrefireStep, EnterStep, WriteStep, ReadStep, ExitStep, BarrierStep, PostfireStep
     DEF Thread
<1> QED BY <1>1, <1>2, <1>3 DEF Next

LEMMA DeliversAlways == Spec => []Delivers
BY Initially, DeliversStep, PTL DEF Spec

\* Positions stay within the ring, no more is available than fits, and no
\* reader has read more than was written: every variable has its type.
THEOREM TypeCorrect == Spec => []TypeOK
<1>1. ASSUME Delivers PROVE TypeOK
  <2>1. Threads /\ Ports /\ SharedCounts /\ Stored
    BY <1>1 DEF Delivers
  <2>2. \A r \in Reader : Len(got[r]) <= sent
    <3>1. SUFFICES ASSUME NEW r \in Reader PROVE Len(got[r]) <= sent
      OBVIOUS
    <3>2. PICK a \in Nat, l \in Nat, s \in Nat :
            a = Place(r).available /\ l = Len(got[r]) /\ s = sent /\ l + a <= s
      <4>1. /\ Place(r).available \in 0 .. Cap /\ Len(got[r]) \in Nat /\ sent \in Nat
            /\ Len(got[r]) + Place(r).available <= sent /\ Cap \in Nat
        BY <1>1, Bounds
      <4> QED BY <4>1
    <3> QED BY <3>2
  <2>3. wcount = Wrapped(wcount) /\ \A r \in Reader : rcount[r] = Wrapped(rcount[r])
    <3>1. Published(Wr) \in Int /\ \A r \in Reader : Published(r) \in Int
      BY <1>1, Bounds
    <3> QED BY <2>1, <3>1, WrappedTwice DEF SharedCounts
  <2> QED BY <2>1, <2>2, <2>3 DEF TypeOK, Threads, Ports, Stored
<1> QED BY <1>1, DeliversAlways, PTL

\* The slots in use at a port are those of the units from the first that is
\* not published to the last that is available.
LEMMA HeldUnits ==
  ASSUME Delivers, NEW p \in Port, NEW s \in Held(p)
  PROVE  \E i \in Int : /\ s = Ring(i) /\ Published(p) <= i
                        /\ i < Done(p) + Place(p).available
<1>1. PICK k \in -Used(p) .. Place(p).available - 1 :
        s = -Cap + ((Place(p).pos + Cap + k) % Cap)
  BY DEF Held
<1>2. PICK b \in Nat \ {0}, d \in Nat, u \in Nat, a \in Nat :
        /\ b = Cap /\ d = Done(p) /\ u = Used(p) /\ a = Place(p).available
        /\ Published(p) = d - u
  <2>1. Cap \in Nat \ {0} /\ Used(p) \in 0 .. Cap /\ Done(p) \in Nat
        /\ Place(p).available \in 0 .. Cap /\ Published(p) = Done(p) - Used(p)
    BY Bounds
  <2> QED BY <2>1
<1>3. k \in Int /\ -u <= k /\ k < a
  BY <1>2
<1>4. PICK r \in Int : r = d % b
  OBVIOUS
<1>5. Place(p).pos = -b + r
  BY <1>2, <1>4 DEF Delivers, Placed, Ring
<1>6. PICK i \in Int : i = d + k
  BY <1>3
<1>7. Place(p).pos + Cap + k = r + k
  BY <1>2, <1>3, <1>5
<1>8. (r + k) % b = i % b
  BY <1>3, <1>4, <1>6, ModShift
<1> QED BY <1>1, <1>2, <1>3, <1>6, <1>7, <1>8 DEF Ring

\* The buffer needs no lock: what the writer and a reader on another CPU use
\* in a round are different slots, although each goes by counts that the
\* other has since changed.
THEOREM SlotsApart == Spec => []NoSharedSlot
<1>1. ASSUME Delivers, NEW r \in Reader, CpuOf(r) # CpuOf(Wr),
             NEW s \in Held(Wr), s \in Held(r)
      PROVE  FALSE
  <2>1. Wr \in Port /\ r \in Port /\ Done(Wr) = sent /\ Done(r) = Len(got[r])
    BY <1>1, Bounds, FifoAssumption DEF Done
  <2>2. PICK i \in Int : /\ s = Ring(i) /\ Published(Wr) <= i
                         /\ i < sent + Place(Wr).available
    BY <1>1, <2>1, HeldUnits
  <2>3. PICK j \in Int : /\ s = Ring(j) /\ Published(r) <= j
                         /\ j < Len(got[r]) + Place(r).available
    BY <1>1, <2>1, HeldUnits
  <2>4. /\ sent + Place(Wr).available <= Published(r) + Cap
        /\ Len(got[r]) + Place(r).available <= Published(Wr)
    BY <1>1 DEF Delivers, Granted, Readable
  <2>5. PICK x \in Int, y \in Int, z \in Int, w \in Int, b \in Int :
          /\ x = sent + Place(Wr).available /\ y = Len(got[r]) + Place(r).available
          /\ z = Published(r) /\ w = Published(Wr) /\ b = Cap
    <3>1. /\ sent \in Int /\ Len(got[r]) \in Int /\ Cap \in Nat
          /\ Place(Wr).available \in 0 .. Cap /\ Place(r).available \in 0 .. Cap
          /\ Published(r) \in Int /\ Published(Wr) \in Int
      BY <1>1, <2>1, Bounds
    <3> QED BY <3>1, SMTT(30)
  <2>6. w <= i /\ i < x /\ z <= j /\ j < y /\ x <= z + b /\ y <= w
    BY <2>2, <2>3, <2>4, <2>5
  <2>7. i - j < Cap /\ j - i < Cap /\ j < i
    BY <2>5, <2>6
  <2>8. i = j
    BY <2>2, <2>3, <2>7, RingDistinct
  <2> QED BY <2>7, <2>8
<1>2. ASSUME Delivers PROVE NoSharedSlot
  BY <1>1, <1>2 DEF NoSharedSlot
<1> QED BY <1>2, DeliversAlways, PTL

LEMMA CountedUp ==
  ASSUME NEW m \in Nat
  PROVE  /\ [k \in 1 .. m |-> k] \in Seq(Nat) /\ Len([k \in 1 .. m |-> k]) = m
         /\ \A n \in 0 .. m : SubSeq([k \in 1 .. m |-> k], 1, n) = [k \in 1 .. n |-> k]
<1> DEFINE s == [k \in 1 .. m |-> k]
<1>1. s \in Seq(Nat) /\ Len(s) = m
  OBVIOUS
<1>2. ASSUME NEW n \in 0 .. m PROVE SubSeq(s, 1, n) = [k \in 1 .. n |-> k]
  <2>1. SubSeq(s, 1, n) = [k \in 1 .. n |-> s[k]]
    <3>1. n \in Int /\ (1 + n) - 1 = n
      OBVIOUS
    <3>2. SubSeq(s, 1, n) = [k \in 1 .. n |-> s[1 + k - 1]]
      BY <1>1, <3>1
    <3>3. \A k \in 1 .. n : 1 + k - 1 = k
      OBVIOUS
    <3> QED BY <3>2, <3>3
  <2>2. \A k \in 1 .. n : s[k] = k
    OBVIOUS
  <2> QED BY <2>1, <2>2
<1> QED BY <1>1, <1>2

\* Every reader gets everything that was written, once and in order, and the
\* writer is never more than Cap ahead of a reader: however the threads are
\* interleaved, whatever the functions used, and although counts wrap, are
\* read early and are published late, and stores take their time.
THEOREM DeliveryCorrect == Spec => RefinesChannel
<1> DEFINE S(m) == [k \in 1 .. m |-> k]
<1>1. ASSUME Init PROVE Delivery!Init
  <2>1. S(0) = <<>>
    OBVIOUS
  <2> QED BY <1>1, <2>1 DEF Init, Delivery!Init
<1>2. ASSUME Delivers, [Next]_vars
      PROVE  [Delivery!Next]_<<[k \in 1 .. sent |-> k], got>>
  <2>1. sent \in Nat /\ Wr \in Port
    BY <1>2, Bounds
  <2>2. ASSUME NEW c \in Cpu, Write(c) PROVE Delivery!Write
    <3>1. PICK n \in 1 .. context[Wr].available : sent' = sent + n /\ got' = got
      BY <2>2 DEF Write
    <3>2. n \in Nat \ {0} /\ n <= Place(Wr).available
      <4>1. context[Wr].available \in 0 .. Cap /\ Cap \in Nat
        BY <1>2, <2>1, FifoAssumption DEF Delivers, Ports
      <4>2. This(c) = Wr /\ Stage(Wr) = "acting"
        BY <1>2, <2>1, <2>2, Moves DEF Write, Delivers
      <4>3. Place(Wr).available = context[Wr].available
        BY <1>2, <2>1, <4>2, PlaceFacts DEF Delivers
      <4> QED BY <4>1, <4>3
    <3>3. PICK m \in Nat : m = sent /\ m + n \in Nat /\ m \in 0 .. m + n /\ m # m + n
      BY <2>1, <3>2
    <3>4. Delivery!IsStrictPrefix(S(m), S(m + n))
      <4> HIDE DEF S
      <4>1. /\ S(m) \in Seq(Nat) /\ Len(S(m)) = m /\ Len(S(m + n)) = m + n
            /\ SubSeq(S(m + n), 1, m) = S(m) /\ SubSeq(S(m), 1, m) = S(m)
        <5>1. m \in 0 .. m
          OBVIOUS
        <5> QED BY <3>3, <5>1, CountedUp DEF S
      <4> QED BY <3>2, <3>3, <4>1 DEF Delivery!IsStrictPrefix, Delivery!IsPrefix
    <3>5. ASSUME NEW r \in Reader PROVE Len(S(m + n)) - Len(got[r]) <= Cap
      <4>1. PICK a \in Nat, l \in Nat, z \in Int, b \in Nat, u \in Nat :
              /\ a = Place(Wr).available /\ l = Len(got[r]) /\ z = Published(r) /\ b = Cap
              /\ u = Used(r) /\ z = l - u /\ m + a <= z + b
        <5>1. /\ Place(Wr).available \in 0 .. Cap /\ Len(got[r]) \in Nat /\ Cap \in Nat
              /\ Used(r) \in 0 .. Cap /\ Published(r) = Len(got[r]) - Used(r)
              /\ Published(r) \in Int
          BY <1>2, <2>1, Bounds
        <5>2. sent + Place(Wr).available <= Published(r) + Cap
          BY <1>2 DEF Delivers, Granted
        <5> QED BY <3>3, <5>1, <5>2, SMTT(30)
      <4>2. (m + n) - l <= b
        <5>1. PICK i \in Nat : i = n /\ i <= a
          BY <3>2, <4>1
        <5>2. m + a <= (l - u) + b
          BY <4>1
        <5>3. (m + i) - l <= b
          BY <5>1, <5>2
        <5> QED BY <5>1, <5>3
      <4>3. Len(S(m + n)) = m + n
        BY <3>3, CountedUp
      <4> HIDE DEF S
      <4> QED BY <4>1, <4>2, <4>3
    <3> HIDE DEF S
    <3>6. S(sent) = S(m) /\ S(sent') = S(m + n)
      BY <3>1, <3>3
    <3> QED BY <3>1, <3>4, <3>5, <3>6 DEF Delivery!Write, S
  <2>3. ASSUME NEW c \in Cpu, Read(c) PROVE \E r \in Reader : Delivery!Read(r)
    <3>1. PICK r \in Reader : \E n \in 1 .. sent - Len(got[r]) :
              got' = [got EXCEPT ![r] = S(Len(got[r]) + n)]
      BY <1>2, <2>3, ReadStep
    <3>2. PICK n \in 1 .. sent - Len(got[r]) : got' = [got EXCEPT ![r] = S(Len(got[r]) + n)]
      BY <3>1
    <3>3. Len(got[r]) \in Nat /\ sent' = sent
      BY <1>2, <2>3, Bounds DEF Read
    <3> HIDE DEF S
    <3>4. Len(S(sent)) = sent /\ SubSeq(S(sent), 1, Len(got[r]) + n) = S(Len(got[r]) + n)
      <4>1. PICK m \in Nat : m = sent
        BY <2>1
      <4>2. PICK i \in 0 .. m : i = Len(got[r]) + n
        BY <3>2, <3>3, <4>1
      <4> QED BY <4>1, <4>2, CountedUp DEF S
    <3> QED BY <3>2, <3>3, <3>4 DEF Delivery!Read, S
  <2>4. CASE \E c \in Cpu : Write(c) \/ Read(c)
    BY <2>2, <2>3, <2>4 DEF Delivery!Next
  <2>5. CASE ~ \E c \in Cpu : Write(c) \/ Read(c)
    <3>1. sent' = sent /\ got' = got
      BY <1>2, <2>5 DEF Next, Thread, vars, Propagate, Prefire, Enter, Exit, WriteBarrier, Postfire
    <3> QED BY <3>1
  <2> QED BY <2>4, <2>5
<1> QED BY <1>1, <1>2, DeliversAlways, PTL DEF Spec, RefinesChannel, Delivery!Spec
=============================================================================
