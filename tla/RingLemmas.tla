----------------------------- MODULE RingLemmas -----------------------------
(***************************************************************************)
(* Facts about the remainder and about rings: arrays of N places that are  *)
(* used in turn, the place of x being x % N.  The pipe, the input of the   *)
(* console and the descriptors of the network card are such rings; the     *)
(* first two are indexed by counters that wrap around at a multiple of N.  *)
(***************************************************************************)
EXTENDS Integers, Sequences, TLAPS

(* The solver goes first and has 30 seconds for a leaf, then Zenon. *)
USE SMTT(30), ZenonT(30)

(* What a concatenation is made of. *)
LEMMA ConcatFacts ==
    ASSUME NEW S, NEW s \in Seq(S), NEW t \in Seq(S)
    PROVE  /\ s \o t \in Seq(S) /\ Len(s \o t) = Len(s) + Len(t)
           /\ \A i \in 1 .. Len(s) + Len(t) :
                 (s \o t)[i] = IF i <= Len(s) THEN s[i] ELSE t[i - Len(s)]
<1>1. s \o t \in Seq(S)
  OBVIOUS
<1>2. Len(s \o t) = Len(s) + Len(t)
  OBVIOUS
<1>3. ASSUME NEW i \in 1 .. Len(s) + Len(t)
      PROVE  (s \o t)[i] = IF i <= Len(s) THEN s[i] ELSE t[i - Len(s)]
  OBVIOUS
<1> QED
  BY <1>1, <1>2, <1>3

(* Two sequences are the same when they agree place by place. *)
LEMMA SeqEqual ==
    ASSUME NEW S, NEW s \in Seq(S), NEW t \in Seq(S), Len(s) = Len(t),
           \A i \in 1 .. Len(s) : s[i] = t[i]
    PROVE  s = t
  OBVIOUS

(* The remainder is determined by its range. *)
LEMMA ModRange ==
    ASSUME NEW a \in Int, NEW b \in Nat \ {0}
    PROVE  a % b \in 0 .. b - 1 /\ \E q \in Int : a = b * q + (a % b)
<1>1. a % b \in 0 .. b - 1
  OBVIOUS
<1>2. a \div b \in Int /\ a = b * (a \div b) + (a % b)
  OBVIOUS
<1> QED
  BY <1>1, <1>2

LEMMA Multiple ==
    ASSUME NEW b \in Nat \ {0}, NEW k \in Int, k >= 1
    PROVE  b * k >= b
  OBVIOUS

LEMMA DivUnique ==
    ASSUME NEW b \in Nat \ {0}, NEW q \in Int, NEW r \in 0 .. b - 1,
           NEW x \in Int, NEW y \in 0 .. b - 1, b * q + r = b * x + y
    PROVE  r = y
<1>1. b * (q - x) = y - r /\ b * (x - q) = r - y
  OBVIOUS
<1>2. ~(q - x >= 1)
  BY <1>1, Multiple
<1>3. ~(x - q >= 1)
  BY <1>1, Multiple
<1> QED
  BY <1>2, <1>3

LEMMA ModUnique ==
    ASSUME NEW b \in Nat \ {0}, NEW q \in Int, NEW r \in 0 .. b - 1
    PROVE  (b * q + r) % b = r
<1> DEFINE a == b * q + r
<1>1. a \in Int
  OBVIOUS
<1> HIDE DEF a
<1>2. PICK x \in Int : a = b * x + (a % b)
  BY <1>1, ModRange
<1>3. a % b \in 0 .. b - 1
  BY <1>1, ModRange
<1>4. a % b = r
  <2> DEFINE y == a % b
  <2>1. y \in 0 .. b - 1 /\ b * q + r = b * x + y
    BY <1>2, <1>3 DEF a
  <2> HIDE DEF y
  <2>2. r = y
    BY <2>1, DivUnique
  <2> QED
    BY <2>2 DEF y
<1> QED
  BY <1>4 DEF a

(* A number and its remainder, with the quotient. *)
LEMMA ModSplit ==
    ASSUME NEW b \in Nat \ {0}, NEW a \in Int
    PROVE  \E q \in Int, r \in 0 .. b - 1 : a = b * q + r /\ a % b = r
<1>1. PICK q \in Int : a = b * q + (a % b)
  BY ModRange
<1>2. PICK r \in 0 .. b - 1 : r = a % b
  BY ModRange
<1>3. a = b * q + r
  BY <1>1, <1>2
<1> QED
  BY <1>2, <1>3

(* Within one turn either way. *)
LEMMA OneTurn ==
    ASSUME NEW b \in Nat \ {0}, NEW x \in Int
    PROVE  /\ x \in 0 .. b - 1 => x % b = x
           /\ x \in b .. 2 * b - 1 => x % b = x - b
           /\ x \in -b .. -1 => x % b = x + b
<1>1. x \in 0 .. b - 1 => (b * 0 + x) % b = x
  BY ModUnique
<1>2. x \in b .. 2 * b - 1 => (b * 1 + (x - b)) % b = x - b
  BY ModUnique
<1>3. x \in -b .. -1 => (b * (-1) + (x + b)) % b = x + b
  BY ModUnique
<1>4. b * 0 + x = x /\ b * 1 + (x - b) = x /\ b * (-1) + (x + b) = x
  OBVIOUS
<1> QED
  BY <1>1, <1>2, <1>3, <1>4

-----------------------------------------------------------------------------
(* x and y are the same place in a ring of b places. *)
SamePlace(x, y, b) == x % b = y % b

LEMMA PlaceSymmetric ==
    ASSUME NEW b, NEW x, NEW y, SamePlace(x, y, b)
    PROVE  SamePlace(y, x, b)
  BY DEF SamePlace

LEMMA PlaceTransitive ==
    ASSUME NEW b, NEW x, NEW y, NEW z, SamePlace(x, y, b), SamePlace(y, z, b)
    PROVE  SamePlace(x, z, b)
  BY DEF SamePlace

(* As far from the same place is the same place. *)
LEMMA PlaceShift ==
    ASSUME NEW b \in Nat \ {0}, NEW x \in Int, NEW y \in Int, SamePlace(x, y, b),
           NEW u \in Int, NEW v \in Int, NEW z \in Int, u = x + z, v = y + z
    PROVE  SamePlace(u, v, b)
<1>1. PICK q \in Int, r \in 0 .. b - 1 : x = b * q + r /\ x % b = r
  BY ModSplit
<1>2. PICK p \in Int, s \in 0 .. b - 1 : y = b * p + s /\ y % b = s
  BY ModSplit
<1>3. PICK t \in Int, w \in 0 .. b - 1 : r + z = b * t + w
  <2>1. PICK c \in Int : c = r + z
    OBVIOUS
  <2>2. \E t \in Int, w \in 0 .. b - 1 : c = b * t + w /\ c % b = w
    BY ModSplit, Zenon
  <2> QED
    BY <2>1, <2>2
<1>4. r = s
  BY <1>1, <1>2 DEF SamePlace
<1>5. u = b * (q + t) + w /\ v = b * (p + t) + w
  BY <1>1, <1>2, <1>3, <1>4
<1>6. (b * (q + t) + w) % b = w /\ (b * (p + t) + w) % b = w
  BY ModUnique, q + t \in Int, p + t \in Int
<1> QED
  BY <1>5, <1>6 DEF SamePlace

(* A counter that wraps around after whole turns of a ring. *)
LEMMA PlaceTurn ==
    ASSUME NEW b \in Nat \ {0}, NEW m \in Nat \ {0}, SamePlace(m, 0, b), NEW x \in Int,
           NEW w \in Int, w = x % m
    PROVE  SamePlace(w, x, b)
<1>0. m \in Int
  OBVIOUS
<1>1. PICK k \in Int, z \in 0 .. b - 1 : m = b * k + z /\ m % b = z
  BY <1>0, ModSplit, Zenon
<1>2. m = b * k
  <2>1. 0 % b = 0
    BY OneTurn
  <2> QED
    BY <1>1, <2>1 DEF SamePlace
<1>3. PICK q \in Int, y \in 0 .. m - 1 : x = m * q + y /\ x % m = y
  BY ModSplit, Zenon
<1>4. PICK p \in Int, r \in 0 .. b - 1 : y = b * p + r /\ y % b = r
  BY ModSplit, y \in Int
<1>5. PICK j \in Int : j = k * q + p
  BY k * q \in Int
<1>6. x = b * j + r
  <2>1. m * q = b * (k * q)
    BY <1>2
  <2>2. PICK i \in Int : i = k * q
    BY k * q \in Int
  <2>3. x = b * i + (b * p + r) /\ j = i + p
    BY <1>3, <1>4, <1>5, <2>1, <2>2
  <2> QED
    BY <2>3
<1>7. x % b = r
  BY <1>6, ModUnique
<1> QED
  BY <1>3, <1>4, <1>7 DEF SamePlace

(* From one counter to another is as many places as their difference. *)
LEMMA PlaceBetween ==
    ASSUME NEW b \in Nat \ {0}, NEW m \in Nat \ {0}, SamePlace(m, 0, b),
           NEW x \in Int, NEW y \in Int, NEW k \in Int, k = (y - x) % m,
           NEW z \in Int, z = x + k
    PROVE  SamePlace(z, y, b)
<1>1. PICK d \in Int : d = y - x
  OBVIOUS
<1>2. k = d % m
  BY <1>1
<1>3. SamePlace(k, d, b)
  BY <1>2, PlaceTurn
<1>4. z = k + x /\ y = d + x
  BY <1>1
<1> QED
  BY <1>3, <1>4, PlaceShift

(* Places fewer than a turn apart are different. *)
LEMMA PlacesApart ==
    ASSUME NEW b \in Nat \ {0}, NEW x \in Int, NEW y \in Int, y - x \in 1 .. b - 1
    PROVE  ~SamePlace(x, y, b)
<1>0. PICK d \in 1 .. b - 1 : d = y - x
  OBVIOUS
<1>1. PICK q \in Int, r \in 0 .. b - 1 : x = b * q + r /\ x % b = r
  BY ModSplit
<1>2. CASE r + d < b
  <2>1. y = b * q + (r + d)
    BY <1>0, <1>1
  <2>2. (b * q + (r + d)) % b = r + d
    BY <1>2, ModUnique
  <2> QED
    BY <1>1, <2>1, <2>2 DEF SamePlace
<1>3. CASE r + d >= b
  <2>1. PICK e \in 0 .. b - 1 : e = r + d - b /\ e # r
    BY <1>3
  <2>2. PICK k \in Int : k = q + 1
    OBVIOUS
  <2>3. y = b * k + e
    BY <1>0, <1>1, <2>1, <2>2
  <2>4. (b * k + e) % b = e
    BY ModUnique
  <2> QED
    BY <1>1, <2>1, <2>3, <2>4 DEF SamePlace
<1>4. r + d < b \/ r + d >= b
  OBVIOUS
<1> QED
  BY <1>2, <1>3, <1>4

(* d is a ring of N places for members of S. *)
IsRing(d, N, S) == d \in [0 .. N - 1 -> S]

(* What is in k places of the ring d from place r on. *)
RingSeq(d, N, r, k) == [i \in 1 .. k |-> d[(r + i - 1) % N]]

LEMMA RingIsSeq ==
    ASSUME NEW N \in Nat \ {0}, NEW S, NEW d, IsRing(d, N, S), NEW r \in Int, NEW k \in Nat
    PROVE  RingSeq(d, N, r, k) \in Seq(S) /\ Len(RingSeq(d, N, r, k)) = k
<1>1. ASSUME NEW i \in 1 .. k PROVE d[(r + i - 1) % N] \in S
  <2>1. (r + i - 1) % N \in 0 .. N - 1
    BY ModRange, r + i - 1 \in Int
  <2> QED
    BY <2>1 DEF IsRing
<1> QED
  BY <1>1 DEF RingSeq

(* Whole turns earlier or later is the same place. *)
LEMMA RingSame ==
    ASSUME NEW N \in Nat \ {0}, NEW d, NEW r \in Int, NEW q \in Int, SamePlace(r, q, N),
           NEW k \in Nat
    PROVE  RingSeq(d, N, r, k) = RingSeq(d, N, q, k)
<1>1. ASSUME NEW i \in 1 .. k PROVE (r + i - 1) % N = (q + i - 1) % N
  <2>1. PICK x \in Int, y \in Int, z \in Int : x = r + i - 1 /\ y = q + i - 1 /\ z = i - 1
    OBVIOUS
  <2>2. x = r + z /\ y = q + z
    BY <2>1
  <2>3. SamePlace(x, y, N)
    BY <2>2, PlaceShift
  <2> QED
    BY <2>1, <2>3 DEF SamePlace
<1> QED
  BY <1>1 DEF RingSeq

(* d2 is the ring d with v put at a place. *)
PutAt(d, N, place, v, d2) == d2 = [d EXCEPT ![place % N] = v]

(* Putting v behind the last of fewer than N appends it. *)
LEMMA RingPut ==
    ASSUME NEW N \in Nat \ {0}, NEW S, NEW d, IsRing(d, N, S), NEW r \in Int,
           NEW k \in Nat, k < N, NEW m \in Nat, m = k + 1, NEW v \in S,
           NEW place \in Int, NEW z \in Int, z = r + k, SamePlace(place, z, N),
           NEW d2, PutAt(d, N, place, v, d2)
    PROVE  /\ IsRing(d2, N, S)
           /\ RingSeq(d2, N, r, m) = Append(RingSeq(d, N, r, k), v)
           /\ RingSeq(d2, N, r, k) = RingSeq(d, N, r, k)
<1> DEFINE s == RingSeq(d, N, r, k)
           t == RingSeq(d2, N, r, m)
           u == RingSeq(d2, N, r, k)
<1>1. place % N \in 0 .. N - 1
  BY ModRange
<1>2. /\ IsRing(d2, N, S) /\ d2[place % N] = v
      /\ \A i \in 0 .. N - 1 : i # place % N => d2[i] = d[i]
  BY <1>1 DEF IsRing, PutAt
<1>3. ASSUME NEW i \in 1 .. k
      PROVE  d2[(r + i - 1) % N] = d[(r + i - 1) % N]
  <2>1. PICK x \in Int : x = r + i - 1
    OBVIOUS
  <2>2. z - x \in 1 .. N - 1
    BY <2>1
  <2>3. ~SamePlace(x, z, N) /\ x % N \in 0 .. N - 1
    BY <2>2, PlacesApart, ModRange
  <2>4. x % N # place % N
    BY <2>3 DEF SamePlace
  <2> QED
    BY <1>2, <2>1, <2>3, <2>4
<1>4. /\ s \in Seq(S) /\ Len(s) = k
      /\ \A i \in 1 .. k : s[i] = d[(r + i - 1) % N]
  <2>1. s \in Seq(S) /\ Len(s) = k
    BY RingIsSeq
  <2>2. \A i \in 1 .. k : s[i] = d[(r + i - 1) % N]
    BY DEF RingSeq
  <2> QED
    BY <2>1, <2>2
<1>5. /\ t \in Seq(S) /\ Len(t) = k + 1
      /\ \A i \in 1 .. k + 1 : t[i] = d2[(r + i - 1) % N]
  <2>1. t \in Seq(S) /\ Len(t) = k + 1
    <3>1. IsRing(d2, N, S)
      BY <1>2
    <3>3. RingSeq(d2, N, r, m) \in Seq(S) /\ Len(RingSeq(d2, N, r, m)) = m
      BY <3>1, RingIsSeq
    <3> QED
      BY <3>3
  <2>2. \A i \in 1 .. k + 1 : t[i] = d2[(r + i - 1) % N]
    BY DEF RingSeq
  <2> QED
    BY <2>1, <2>2
<1>6. /\ u \in Seq(S) /\ Len(u) = k
      /\ \A i \in 1 .. k : u[i] = d2[(r + i - 1) % N]
  <2>1. u \in Seq(S) /\ Len(u) = k
    <3>1. IsRing(d2, N, S)
      BY <1>2
    <3> QED
      BY <3>1, RingIsSeq
  <2>2. \A i \in 1 .. k : u[i] = d2[(r + i - 1) % N]
    BY DEF RingSeq
  <2> QED
    BY <2>1, <2>2
<1> HIDE DEF s, t, u
<1>7. t[k + 1] = v
  <2>1. r + (k + 1) - 1 = z
    OBVIOUS
  <2>2. z % N = place % N
    BY DEF SamePlace
  <2> QED
    BY <1>2, <1>5, <2>1, <2>2
<1>8. /\ Append(s, v) \in Seq(S) /\ Len(Append(s, v)) = k + 1
      /\ \A i \in 1 .. k : Append(s, v)[i] = s[i]
      /\ Append(s, v)[k + 1] = v
  BY <1>4
<1>9. ASSUME NEW i \in 1 .. k + 1 PROVE t[i] = Append(s, v)[i]
  <2>1. CASE i \in 1 .. k
    BY <1>3, <1>4, <1>5, <1>8, <2>1
  <2>2. CASE i = k + 1
    BY <1>7, <1>8, <2>2
  <2>3. i \in 1 .. k \/ i = k + 1
    OBVIOUS
  <2> QED
    BY <2>1, <2>2, <2>3
<1>10. t = Append(s, v)
  BY <1>5, <1>8, <1>9, SeqEqual
<1>11. \A i \in 1 .. k : u[i] = s[i]
  BY <1>3, <1>4, <1>6
<1>12. u = s
  BY <1>4, <1>6, <1>11, SeqEqual
<1> QED
  BY <1>2, <1>10, <1>12 DEF s, t, u

(* k places from r on are j places from r on and m places from q on. *)
Parted(r, k, j, q, m) == j <= k /\ q = r + j /\ m = k - j

(* Parts of what is in the ring. *)
LEMMA RingPart ==
    ASSUME NEW N \in Nat \ {0}, NEW S, NEW d, IsRing(d, N, S), NEW r \in Int,
           NEW k \in Nat, NEW j \in Nat, NEW q \in Int, NEW m \in Nat,
           Parted(r, k, j, q, m)
    PROVE  RingSeq(d, N, r, k) = RingSeq(d, N, r, j) \o RingSeq(d, N, q, m)
<1> USE DEF Parted
<1> DEFINE s == RingSeq(d, N, r, k)
           a == RingSeq(d, N, r, j)
           b == RingSeq(d, N, q, m)
<1>1. /\ s \in Seq(S) /\ Len(s) = k
      /\ \A i \in 1 .. k : s[i] = d[(r + i - 1) % N]
  <2>1. s \in Seq(S) /\ Len(s) = k
    BY RingIsSeq
  <2>2. \A i \in 1 .. k : s[i] = d[(r + i - 1) % N]
    BY DEF RingSeq
  <2> QED
    BY <2>1, <2>2
<1>2. /\ a \in Seq(S) /\ Len(a) = j
      /\ \A i \in 1 .. j : a[i] = d[(r + i - 1) % N]
  <2>1. a \in Seq(S) /\ Len(a) = j
    BY RingIsSeq
  <2>2. \A i \in 1 .. j : a[i] = d[(r + i - 1) % N]
    BY DEF RingSeq
  <2> QED
    BY <2>1, <2>2
<1>3. /\ b \in Seq(S) /\ Len(b) = k - j
      /\ \A i \in 1 .. k - j : b[i] = d[((r + j) + i - 1) % N]
  <2>1. b \in Seq(S) /\ Len(b) = k - j
    <3>1. RingSeq(d, N, q, m) \in Seq(S) /\ Len(RingSeq(d, N, q, m)) = m
      BY RingIsSeq
    <3> QED
      BY <3>1
  <2>2. \A i \in 1 .. k - j : b[i] = d[((r + j) + i - 1) % N]
    BY DEF RingSeq
  <2> QED
    BY <2>1, <2>2
<1> HIDE DEF s, a, b
<1>4. \A i \in 1 .. j : a[i] = s[i]
  BY <1>1, <1>2
<1>5. ASSUME NEW i \in 1 .. k - j PROVE b[i] = s[j + i]
  <2>1. j + i \in 1 .. k /\ (r + j) + i - 1 = r + (j + i) - 1
    OBVIOUS
  <2> QED
    BY <1>1, <1>3, <2>1
<1>6. s = a \o b
  <2>0. /\ a \o b \in Seq(S) /\ Len(a \o b) = Len(a) + Len(b)
        /\ \A i \in 1 .. Len(a) + Len(b) :
              (a \o b)[i] = IF i <= Len(a) THEN a[i] ELSE b[i - Len(a)]
    BY <1>2, <1>3, ConcatFacts, Zenon
  <2>1. /\ a \o b \in Seq(S) /\ Len(a \o b) = k
        /\ \A i \in 1 .. k : (a \o b)[i] = IF i <= j THEN a[i] ELSE b[i - j]
    <3>1. Len(a) + Len(b) = k
      BY <1>2, <1>3
    <3> QED
      BY <1>2, <2>0, <3>1
  <2>2. ASSUME NEW i \in 1 .. k PROVE (a \o b)[i] = s[i]
    <3>1. CASE i <= j
      BY <1>4, <2>1, <3>1
    <3>2. CASE ~(i <= j)
      <4>1. i - j \in 1 .. k - j /\ j + (i - j) = i
        BY <3>2
      <4> QED
        BY <1>5, <2>1, <3>2, <4>1
    <3> QED
      BY <3>1, <3>2
  <2> QED
    BY <1>1, <2>1, <2>2, SeqEqual
<1> QED
  BY <1>6 DEF s, a, b

LEMMA RingFirst ==
    ASSUME NEW N \in Nat \ {0}, NEW S, NEW d, IsRing(d, N, S), NEW r \in Int,
           NEW k \in Nat, NEW j \in Nat, j <= k
    PROVE  SubSeq(RingSeq(d, N, r, k), 1, j) = RingSeq(d, N, r, j)
<1> DEFINE s == RingSeq(d, N, r, k)
           a == RingSeq(d, N, r, j)
<1>1. s \in Seq(S) /\ Len(s) = k /\ a \in Seq(S) /\ Len(a) = j
  BY RingIsSeq
<1>2. /\ \A x \in 1 .. k : s[x] = d[(r + x - 1) % N]
      /\ \A x \in 1 .. j : a[x] = d[(r + x - 1) % N]
  BY DEF RingSeq
<1> HIDE DEF s, a
<1>3. /\ SubSeq(s, 1, j) \in Seq(S) /\ Len(SubSeq(s, 1, j)) = j
      /\ \A x \in 1 .. j : SubSeq(s, 1, j)[x] = s[x]
  BY <1>1
<1>4. SubSeq(s, 1, j) = a
  BY <1>1, <1>2, <1>3, SeqEqual
<1> QED
  BY <1>4 DEF s, a

LEMMA RingRest ==
    ASSUME NEW N \in Nat \ {0}, NEW S, NEW d, IsRing(d, N, S), NEW r \in Int,
           NEW k \in Nat, NEW j \in Nat, NEW q \in Int, NEW m \in Nat,
           Parted(r, k, j, q, m), NEW i \in Nat, i = j + 1
    PROVE  SubSeq(RingSeq(d, N, r, k), i, k) = RingSeq(d, N, q, m)
<1> USE DEF Parted
<1> DEFINE s == RingSeq(d, N, r, k)
           b == RingSeq(d, N, q, m)
<1>1. s \in Seq(S) /\ Len(s) = k /\ b \in Seq(S) /\ Len(b) = m
  BY RingIsSeq
<1>2. /\ \A x \in 1 .. k : s[x] = d[(r + x - 1) % N]
      /\ \A x \in 1 .. m : b[x] = d[(q + x - 1) % N]
  BY DEF RingSeq
<1> HIDE DEF s, b
<1>3. /\ SubSeq(s, i, k) \in Seq(S) /\ Len(SubSeq(s, i, k)) = m
      /\ \A x \in 1 .. m : SubSeq(s, i, k)[x] = s[j + x]
  BY <1>1
<1>4. ASSUME NEW x \in 1 .. m PROVE SubSeq(s, i, k)[x] = b[x]
  <2>1. j + x \in 1 .. k /\ r + (j + x) - 1 = q + x - 1
    OBVIOUS
  <2>2. s[j + x] = d[(r + (j + x) - 1) % N]
    BY <1>2, <2>1
  <2> QED
    BY <1>2, <1>3, <2>1, <2>2
<1>5. SubSeq(s, i, k) = b
  BY <1>1, <1>3, <1>4, SeqEqual
<1> QED
  BY <1>5 DEF s, b

(* The first place and the others. *)
LEMMA RingTail ==
    ASSUME NEW N \in Nat \ {0}, NEW S, NEW d, IsRing(d, N, S), NEW r \in Int, NEW q \in Int,
           q = r + 1, NEW k \in Nat, NEW m \in Nat, k = m + 1
    PROVE  /\ RingSeq(d, N, r, k) # <<>>
           /\ Head(RingSeq(d, N, r, k)) = d[r % N]
           /\ Tail(RingSeq(d, N, r, k)) = RingSeq(d, N, q, m)
<1> DEFINE s == RingSeq(d, N, r, k)
           b == RingSeq(d, N, q, m)
<1>1. s \in Seq(S) /\ Len(s) = k /\ b \in Seq(S) /\ Len(b) = m
  BY RingIsSeq
<1>2. /\ \A i \in 1 .. k : s[i] = d[(r + i - 1) % N]
      /\ \A i \in 1 .. m : b[i] = d[(q + i - 1) % N]
  BY DEF RingSeq
<1> HIDE DEF s, b
<1>3. s # <<>> /\ Head(s) = s[1]
  BY <1>1
<1>4. s[1] = d[r % N]
  <2>1. 1 \in 1 .. k /\ r + 1 - 1 = r
    OBVIOUS
  <2> QED
    BY <1>2, <2>1
<1>5. Tail(s) \in Seq(S) /\ Len(Tail(s)) = m /\ \A i \in 1 .. m : Tail(s)[i] = s[i + 1]
  BY <1>1, <1>3
<1>6. ASSUME NEW i \in 1 .. m PROVE Tail(s)[i] = b[i]
  <2>1. i + 1 \in 1 .. k /\ r + (i + 1) - 1 = q + i - 1
    OBVIOUS
  <2>2. s[i + 1] = d[(r + (i + 1) - 1) % N]
    BY <1>2, <2>1
  <2> QED
    BY <1>2, <1>5, <2>1, <2>2
<1>7. Tail(s) = b
  BY <1>1, <1>5, <1>6, SeqEqual
<1> QED
  BY <1>3, <1>4, <1>7 DEF s, b
=============================================================================
