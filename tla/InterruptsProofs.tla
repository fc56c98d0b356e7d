-------------------------- MODULE InterruptsProofs --------------------------
(***************************************************************************)
(* What runs at interrupt level, for every value of the constants: the     *)
(* console and the clock with the calls that wait for them, and the        *)
(* transmit ring of the network card.  The two share no state; each has    *)
(* its own specification and its own inductive invariant.                  *)
(***************************************************************************)
EXTENDS Interrupts, Nic, RingLemmas

(* Zenon goes first, the solver second and with 30 seconds for a leaf. *)
USE ZenonT(5), SMTT(30)

Awake == {"user", "read", "sleepy", "waiting"}   \* not in sleep()

(* A reader about to sleep holds cons.lock, and one that sleeps has found  *)
(* no complete line, and none has come since.                              *)
WaitInv ==
    /\ \A p \in Procs : pc[p] = "sleepy" <=> conslock = p
    /\ \A p \in Procs : pc[p] \in {"sleepy", "waiting"} => r = w

(* Who is in sleep() has ticks0 behind ticks by the interrupts it has      *)
(* seen, and sleeps on only while they are fewer than it asked for.        *)
SleepInv ==
    /\ \A p \in Procs : pc[p] = "drowsy" <=> tickslock = p
    /\ \A p \in Procs : pc[p] \in Awake => elapsed[p] = 0
    /\ \A p \in Procs : pc[p] \notin Awake =>
         /\ elapsed[p] <= UintMax /\ n[p] <= MaxSleep
         /\ Minus(ticks, ticks0[p]) = elapsed[p]
    /\ \A p \in Procs : pc[p] \in {"drowsy", "ticking"} => elapsed[p] < n[p]

(* Nothing that ends a line is still being edited, so ^U erases all of it. *)
EditInv == \A i \in 1 .. Len(Edited) : Edited[i] \notin {NL, EOT}

IntInv == TypeOK /\ WaitInv /\ SleepInv /\ EditInv

(* Unsigned numbers, and what is between two indices of the ring. *)
Uint == 0 .. UintMax
Between(b, x, y) == [i \in 1 .. Minus(y, x) |-> b[Plus(x, i - 1) % INPUT_BUF]]

LEMMA LinesEdited == Lines = Between(buf, r, w) /\ Edited = Between(buf, w, e)
  BY DEF Lines, Edited, Between

LEMMA Unsigned ==
    ASSUME NEW x \in Uint, NEW y \in Uint
    PROVE  /\ Plus(x, y) = IF x + y <= UintMax THEN x + y ELSE x + y - (UintMax + 1)
           /\ Minus(x, y) = IF y <= x THEN x - y ELSE x - y + (UintMax + 1)
           /\ Plus(x, y) \in Uint /\ Minus(x, y) \in Uint
<1>1. PICK m \in Nat \ {0} : m = UintMax + 1
  BY SizeAssumption
<1>2. PICK s \in Int, d \in Int : s = x + y /\ d = x - y
  BY SizeAssumption DEF Uint
<1>3. /\ s \in 0 .. m - 1 => s % m = s
      /\ s \in m .. 2 * m - 1 => s % m = s - m
      /\ d \in 0 .. m - 1 => d % m = d
      /\ d \in -m .. -1 => d % m = d + m
  BY OneTurn, Zenon
<1>4. x \in 0 .. m - 1 /\ y \in 0 .. m - 1
  BY <1>1, SizeAssumption DEF Uint
<1>5. Plus(x, y) = s % m /\ Minus(x, y) = d % m
  BY <1>1, <1>2 DEF Plus, Minus
<1>6. /\ Plus(x, y) = IF s < m THEN s ELSE s - m
      /\ Minus(x, y) = IF y <= x THEN d ELSE d + m
  BY <1>2, <1>3, <1>4, <1>5
<1> QED
  BY <1>1, <1>2, <1>4, <1>6, SizeAssumption DEF Uint

(* The indices of the ring, x <= y <= z around it. *)
InTurn(x, y, z) ==
    /\ x \in Uint /\ y \in Uint /\ z \in Uint
    /\ Minus(y, x) <= Minus(z, x) /\ Minus(z, x) <= INPUT_BUF

LEMMA Sizes == /\ UintMax \in Nat /\ INPUT_BUF \in Nat \ {0} /\ INPUT_BUF <= UintMax
               /\ 1 \in Uint /\ INPUT_BUF \in Uint
  BY SizeAssumption DEF Uint

LEMMA TurnParts ==
    ASSUME NEW x, NEW y, NEW z, InTurn(x, y, z)
    PROVE  /\ Minus(y, x) \in Nat /\ Minus(z, y) \in Nat /\ Minus(z, x) \in Nat
           /\ Minus(z, x) = Minus(y, x) + Minus(z, y)
           /\ (Minus(y, x) = 0 <=> x = y) /\ (Minus(z, y) = 0 <=> z = y)
<1>1. x \in Uint /\ y \in Uint /\ z \in Uint
  BY DEF InTurn
<1>2. /\ Minus(y, x) = IF x <= y THEN y - x ELSE y - x + (UintMax + 1)
      /\ Minus(z, x) = IF x <= z THEN z - x ELSE z - x + (UintMax + 1)
      /\ Minus(z, y) = IF y <= z THEN z - y ELSE z - y + (UintMax + 1)
  BY <1>1, Unsigned
<1>3. Minus(y, x) <= Minus(z, x)
  BY DEF InTurn
<1> QED
  BY <1>1, <1>2, <1>3, Sizes DEF Uint

(* Typing moves the last index on. *)
LEMMA TurnTyped ==
    ASSUME NEW x, NEW y, NEW z, InTurn(x, y, z), Minus(z, x) < INPUT_BUF
    PROVE  /\ Plus(z, 1) \in Uint
           /\ Minus(Plus(z, 1), x) = Minus(z, x) + 1
           /\ Minus(Plus(z, 1), y) = Minus(z, y) + 1
           /\ Plus(z, 1) = Plus(x, INPUT_BUF) <=> Minus(z, x) + 1 = INPUT_BUF
           /\ InTurn(x, y, Plus(z, 1)) /\ InTurn(x, Plus(z, 1), Plus(z, 1))
           /\ Minus(Plus(z, 1), Plus(z, 1)) = 0
<1>1. x \in Uint /\ y \in Uint /\ z \in Uint
  BY DEF InTurn
<1>2. PICK t \in Uint : t = Plus(z, 1)
  BY <1>1, Sizes, Unsigned, Zenon
<1>3. /\ t = IF z + 1 <= UintMax THEN z + 1 ELSE z + 1 - (UintMax + 1)
      /\ Plus(x, INPUT_BUF) = IF x + INPUT_BUF <= UintMax THEN x + INPUT_BUF
                              ELSE x + INPUT_BUF - (UintMax + 1)
  BY <1>1, <1>2, Sizes, Unsigned
<1>4. /\ Minus(y, x) = IF x <= y THEN y - x ELSE y - x + (UintMax + 1)
      /\ Minus(z, x) = IF x <= z THEN z - x ELSE z - x + (UintMax + 1)
      /\ Minus(z, y) = IF y <= z THEN z - y ELSE z - y + (UintMax + 1)
      /\ Minus(t, x) = IF x <= t THEN t - x ELSE t - x + (UintMax + 1)
      /\ Minus(t, y) = IF y <= t THEN t - y ELSE t - y + (UintMax + 1)
      /\ Minus(t, t) = IF t <= t THEN t - t ELSE t - t + (UintMax + 1)
  BY <1>1, <1>2, Unsigned
<1>5. Minus(y, x) <= Minus(z, x)
  BY DEF InTurn
<1>6. /\ Minus(t, x) = Minus(z, x) + 1 /\ Minus(t, y) = Minus(z, y) + 1 /\ Minus(t, t) = 0
      /\ t = Plus(x, INPUT_BUF) <=> Minus(z, x) + 1 = INPUT_BUF
  BY <1>1, <1>3, <1>4, <1>5, Sizes DEF Uint
<1>7. InTurn(x, y, t) /\ InTurn(x, t, t)
  <2>1. Minus(t, x) <= INPUT_BUF /\ Minus(y, x) <= Minus(t, x) /\ Minus(t, x) <= Minus(t, x)
    BY <1>1, <1>4, <1>5, <1>6, Sizes DEF Uint
  <2> QED
    BY <1>1, <1>2, <2>1 DEF InTurn
<1> QED
  BY <1>2, <1>6, <1>7

(* Backspace moves it back, and stays behind the last complete line. *)
LEMMA TurnErased ==
    ASSUME NEW x, NEW y, NEW z, InTurn(x, y, z), z # y
    PROVE  /\ Minus(z, 1) \in Uint
           /\ Minus(Minus(z, 1), y) = Minus(z, y) - 1
           /\ InTurn(x, y, Minus(z, 1))
<1>1. x \in Uint /\ y \in Uint /\ z \in Uint
  BY DEF InTurn
<1>2. PICK t \in Uint : t = Minus(z, 1)
  BY <1>1, Sizes, Unsigned
<1>3. t = IF 1 <= z THEN z - 1 ELSE z - 1 + (UintMax + 1)
  BY <1>1, <1>2, Sizes, Unsigned
<1>4. /\ Minus(y, x) = IF x <= y THEN y - x ELSE y - x + (UintMax + 1)
      /\ Minus(z, x) = IF x <= z THEN z - x ELSE z - x + (UintMax + 1)
      /\ Minus(z, y) = IF y <= z THEN z - y ELSE z - y + (UintMax + 1)
      /\ Minus(t, x) = IF x <= t THEN t - x ELSE t - x + (UintMax + 1)
      /\ Minus(t, y) = IF y <= t THEN t - y ELSE t - y + (UintMax + 1)
  BY <1>1, <1>2, Unsigned
<1>5. Minus(y, x) <= Minus(z, x) /\ Minus(z, x) <= INPUT_BUF
  BY DEF InTurn
<1>6. /\ Minus(t, y) = Minus(z, y) - 1
      /\ Minus(t, x) <= INPUT_BUF /\ Minus(y, x) <= Minus(t, x)
  BY <1>1, <1>3, <1>4, <1>5, Sizes DEF Uint
<1> QED
  BY <1>1, <1>2, <1>6 DEF InTurn

(* Reading moves the first index on, up to the second. *)
LEMMA TurnTaken ==
    ASSUME NEW x, NEW y, NEW z, InTurn(x, y, z), NEW c \in 0 .. Minus(y, x)
    PROVE  /\ Plus(x, c) \in Uint
           /\ Minus(y, Plus(x, c)) = Minus(y, x) - c
           /\ InTurn(Plus(x, c), y, z)
           /\ (c = 0 => Plus(x, c) = x) /\ (c = Minus(y, x) => Plus(x, c) = y)
<1>1. x \in Uint /\ y \in Uint /\ z \in Uint /\ c \in Uint
  <2>1. x \in Uint /\ y \in Uint /\ z \in Uint
    BY DEF InTurn
  <2>2. Minus(y, x) \in Uint
    BY <2>1, Unsigned
  <2> QED
    BY <2>1, <2>2, Sizes DEF Uint
<1>2. PICK t \in Uint : t = Plus(x, c)
  BY <1>1, Unsigned, Zenon
<1>3. t = IF x + c <= UintMax THEN x + c ELSE x + c - (UintMax + 1)
  BY <1>1, <1>2, Unsigned
<1>4. /\ Minus(y, x) = IF x <= y THEN y - x ELSE y - x + (UintMax + 1)
      /\ Minus(z, x) = IF x <= z THEN z - x ELSE z - x + (UintMax + 1)
      /\ Minus(y, t) = IF t <= y THEN y - t ELSE y - t + (UintMax + 1)
      /\ Minus(z, t) = IF t <= z THEN z - t ELSE z - t + (UintMax + 1)
  BY <1>1, <1>2, Unsigned
<1>5. Minus(y, x) <= Minus(z, x) /\ Minus(z, x) <= INPUT_BUF
  BY DEF InTurn
<1>6. /\ Minus(y, t) = Minus(y, x) - c
      /\ Minus(y, t) <= Minus(z, t) /\ Minus(z, t) <= INPUT_BUF
      /\ (c = 0 => t = x) /\ (c = Minus(y, x) => t = y)
  BY <1>1, <1>3, <1>4, <1>5, Sizes DEF Uint
<1> QED
  BY <1>1, <1>2, <1>6 DEF InTurn

(* A timer interrupt adds one to the time that has passed. *)
LEMMA TickCounts ==
    ASSUME NEW t \in Uint, NEW t0 \in Uint, Minus(t, t0) < UintMax
    PROVE  Plus(t, 1) \in Uint /\ Minus(Plus(t, 1), t0) = Minus(t, t0) + 1
<1>1. PICK s \in Uint : s = Plus(t, 1)
  BY Sizes, Unsigned, Zenon
<1>2. s = IF t + 1 <= UintMax THEN t + 1 ELSE t + 1 - (UintMax + 1)
  BY <1>1, Sizes, Unsigned
<1>3. /\ Minus(t, t0) = IF t0 <= t THEN t - t0 ELSE t - t0 + (UintMax + 1)
      /\ Minus(s, t0) = IF t0 <= s THEN s - t0 ELSE s - t0 + (UintMax + 1)
  BY <1>1, Unsigned
<1>4. Minus(s, t0) = Minus(t, t0) + 1
  BY <1>2, <1>3, Sizes DEF Uint
<1> QED
  BY <1>1, <1>4

LEMMA RingPlaces == INPUT_BUF \in Nat \ {0} /\ UintMax + 1 \in Nat \ {0} /\ SamePlace(UintMax + 1, 0, INPUT_BUF)
<1>1. INPUT_BUF \in Nat \ {0} /\ UintMax + 1 \in Nat \ {0} /\ (UintMax + 1) % INPUT_BUF = 0
  BY SizeAssumption
<1>2. 0 % INPUT_BUF = 0
  BY <1>1, OneTurn
<1> QED
  BY <1>1, <1>2 DEF SamePlace

(* Wrapping around at UintMax + 1 does not change the place. *)
LEMMA UnsignedPlace ==
    ASSUME NEW x \in Int, NEW y \in Int
    PROVE  /\ SamePlace(Plus(x, y), x + y, INPUT_BUF)
           /\ SamePlace(Minus(x, y), x - y, INPUT_BUF)
           /\ Plus(x, y) \in Int /\ Minus(x, y) \in Int
<1>1. PICK m \in Nat \ {0} : m = UintMax + 1 /\ SamePlace(m, 0, INPUT_BUF)
  BY RingPlaces
<1>2. PICK s \in Int, d \in Int : s = x + y /\ d = x - y
  OBVIOUS
<1>3. s % m \in 0 .. m - 1 /\ d % m \in 0 .. m - 1
  BY ModRange
<1>4. PICK t \in Int, c \in Int : t = s % m /\ c = d % m
  BY <1>3
<1>5. SamePlace(t, s, INPUT_BUF) /\ SamePlace(c, d, INPUT_BUF)
  BY <1>1, <1>4, RingPlaces, PlaceTurn
<1>6. Plus(x, y) = t /\ Minus(x, y) = c
  BY <1>1, <1>2, <1>4 DEF Plus, Minus
<1> QED
  BY <1>2, <1>5, <1>6

LEMMA BetweenRing ==
    ASSUME NEW b, IsRing(b, INPUT_BUF, Chars), NEW x \in Uint, NEW y \in Uint
    PROVE  /\ Between(b, x, y) = RingSeq(b, INPUT_BUF, x, Minus(y, x))
           /\ Between(b, x, y) \in Seq(Chars) /\ Len(Between(b, x, y)) = Minus(y, x)
           /\ Minus(y, x) \in Nat /\ x \in Int /\ y \in Int
<1>1. x \in Int /\ y \in Int /\ Minus(y, x) \in Nat
  <2>1. Minus(y, x) \in Uint
    BY Unsigned
  <2> QED
    BY <2>1, Sizes DEF Uint
<1>2. ASSUME NEW i \in 1 .. Minus(y, x)
      PROVE  Plus(x, i - 1) % INPUT_BUF = (x + i - 1) % INPUT_BUF
  <2>1. PICK j \in Int : j = i - 1 /\ x + j = x + i - 1
    BY <1>1
  <2>2. SamePlace(Plus(x, j), x + j, INPUT_BUF)
    BY <1>1, UnsignedPlace
  <2> QED
    BY <2>1, <2>2 DEF SamePlace
<1>3. Between(b, x, y) = RingSeq(b, INPUT_BUF, x, Minus(y, x))
  BY <1>2 DEF Between, RingSeq
<1>4. /\ RingSeq(b, INPUT_BUF, x, Minus(y, x)) \in Seq(Chars)
      /\ Len(RingSeq(b, INPUT_BUF, x, Minus(y, x))) = Minus(y, x)
  BY <1>1, RingPlaces, RingIsSeq
<1> QED
  BY <1>1, <1>3, <1>4

(* From one index to another there are Minus(y, x) places. *)
LEMMA BetweenPlaces ==
    ASSUME NEW x \in Uint, NEW y \in Uint
    PROVE  SamePlace(x + Minus(y, x), y, INPUT_BUF)
<1>1. x \in Int /\ y \in Int /\ Minus(y, x) \in Nat
  <2>1. Minus(y, x) \in Uint
    BY Unsigned
  <2> QED
    BY <2>1, Sizes DEF Uint
<1>2. PICK m \in Nat \ {0} : m = UintMax + 1 /\ SamePlace(m, 0, INPUT_BUF)
  BY RingPlaces
<1>3. PICK k \in Int, z \in Int : k = Minus(y, x) /\ k = (y - x) % m /\ z = x + k
  BY <1>1, <1>2 DEF Minus
<1>4. SamePlace(z, y, INPUT_BUF)
  BY <1>1, <1>2, <1>3, RingPlaces, PlaceBetween, Zenon
<1> QED
  BY <1>3, <1>4

LEMMA TypeFacts ==
    ASSUME TypeOK
    PROVE  /\ InTurn(r, w, e) /\ ticks \in Uint
           /\ IsRing(buf, INPUT_BUF, Chars)
           /\ pc \in [Procs -> {"user", "read", "sleepy", "waiting", "delay", "drowsy", "ticking"}]
           /\ n \in [Procs -> Nat] /\ target \in [Procs -> Nat]
           /\ ticks0 \in [Procs -> Uint] /\ elapsed \in [Procs -> Nat]
           /\ killed \in [Procs -> BOOLEAN]
           /\ conslock \in Procs \cup {Nobody} /\ tickslock \in Procs \cup {Nobody}
  BY DEF TypeOK, InTurn, Uint, IsRing

LEMMA LinesFacts ==
    ASSUME TypeOK
    PROVE  /\ Lines = RingSeq(buf, INPUT_BUF, r, Minus(w, r))
           /\ Edited = RingSeq(buf, INPUT_BUF, w, Minus(e, w))
           /\ Lines \in Seq(Chars) /\ Len(Lines) = Minus(w, r)
           /\ Edited \in Seq(Chars) /\ Len(Edited) = Minus(e, w)
           /\ r \in Int /\ w \in Int /\ e \in Int
<1>1. IsRing(buf, INPUT_BUF, Chars) /\ r \in Uint /\ w \in Uint /\ e \in Uint
  BY TypeFacts DEF InTurn
<1> QED
  BY <1>1, LinesEdited, BetweenRing

(* What the interrupts and the readers do to the two queues. *)

(* The character goes behind the last one. *)
LEMMA CharTyped ==
    ASSUME TypeOK, NEW c \in Chars, KbdChar(c)
    PROVE  /\ IsRing(buf', INPUT_BUF, Chars)
           /\ RingSeq(buf', INPUT_BUF, r, Minus(e, r) + 1) = Append(Lines \o Edited, c)
           /\ RingSeq(buf', INPUT_BUF, w, Minus(e, w) + 1) = Append(Edited, c)
           /\ RingSeq(buf', INPUT_BUF, r, Minus(w, r)) = Lines
<1>1. /\ InTurn(r, w, e) /\ IsRing(buf, INPUT_BUF, Chars)
      /\ r \in Uint /\ w \in Uint /\ e \in Uint /\ r \in Int /\ w \in Int /\ e \in Int
  BY TypeFacts, LinesFacts DEF InTurn
<1>2. PICK L \in Nat, E \in Nat, K \in Nat :
         /\ L = Minus(w, r) /\ E = Minus(e, w) /\ K = Minus(e, r) /\ K = L + E
         /\ K < INPUT_BUF /\ E < INPUT_BUF
  BY <1>1, TurnParts, RingPlaces DEF KbdChar, Room
<1>3. PICK d2 : d2 = buf' /\ PutAt(buf, INPUT_BUF, e, c, d2)
  BY DEF KbdChar, PutAt
<1>4. PICK x \in Int, y \in Int, z \in Int : x = r + K /\ y = w + E /\ z = r + L
  BY <1>1, <1>2
<1>5. SamePlace(e, x, INPUT_BUF) /\ SamePlace(e, y, INPUT_BUF) /\ SamePlace(z, w, INPUT_BUF)
  <2>1. /\ SamePlace(r + Minus(e, r), e, INPUT_BUF) /\ SamePlace(w + Minus(e, w), e, INPUT_BUF)
        /\ SamePlace(r + Minus(w, r), w, INPUT_BUF)
    BY <1>1, BetweenPlaces
  <2>2. SamePlace(x, e, INPUT_BUF) /\ SamePlace(y, e, INPUT_BUF) /\ SamePlace(z, w, INPUT_BUF)
    BY <1>2, <1>4, <2>1
  <2> QED
    BY <2>2, PlaceSymmetric
<1>6. PICK K1 \in Nat, E1 \in Nat : K1 = K + 1 /\ E1 = E + 1
  BY <1>2
<1>7. /\ IsRing(d2, INPUT_BUF, Chars)
      /\ RingSeq(d2, INPUT_BUF, r, K1) = Append(RingSeq(buf, INPUT_BUF, r, K), c)
      /\ RingSeq(d2, INPUT_BUF, r, K) = RingSeq(buf, INPUT_BUF, r, K)
  <2>1. /\ INPUT_BUF \in Nat \ {0} /\ IsRing(buf, INPUT_BUF, Chars) /\ r \in Int
        /\ K < INPUT_BUF /\ K1 = K + 1 /\ e \in Int /\ x = r + K
        /\ SamePlace(e, x, INPUT_BUF) /\ PutAt(buf, INPUT_BUF, e, c, d2)
    BY <1>1, <1>2, <1>3, <1>4, <1>5, <1>6, RingPlaces
  <2> QED
    BY <2>1, RingPut
<1>8. RingSeq(d2, INPUT_BUF, w, E1) = Append(RingSeq(buf, INPUT_BUF, w, E), c)
  <2>1. /\ INPUT_BUF \in Nat \ {0} /\ IsRing(buf, INPUT_BUF, Chars) /\ w \in Int
        /\ E < INPUT_BUF /\ E1 = E + 1 /\ e \in Int /\ y = w + E
        /\ SamePlace(e, y, INPUT_BUF) /\ PutAt(buf, INPUT_BUF, e, c, d2)
    BY <1>1, <1>2, <1>3, <1>4, <1>5, <1>6, RingPlaces
  <2> QED
    BY <2>1, RingPut
<1>9. Parted(r, K, L, z, E)
  BY <1>2, <1>4 DEF Parted
<1>10. RingSeq(buf, INPUT_BUF, r, K) = RingSeq(buf, INPUT_BUF, r, L) \o RingSeq(buf, INPUT_BUF, z, E)
  <2>1. INPUT_BUF \in Nat \ {0} /\ IsRing(buf, INPUT_BUF, Chars) /\ r \in Int
    BY <1>1, RingPlaces
  <2> QED
    BY <1>9, <2>1, RingPart
<1>11. RingSeq(buf, INPUT_BUF, z, E) = RingSeq(buf, INPUT_BUF, w, E)
  BY <1>1, <1>5, RingPlaces, RingSame
<1>12. /\ SubSeq(RingSeq(buf, INPUT_BUF, r, K), 1, L) = RingSeq(buf, INPUT_BUF, r, L)
       /\ SubSeq(RingSeq(d2, INPUT_BUF, r, K), 1, L) = RingSeq(d2, INPUT_BUF, r, L)
  <2>1. /\ INPUT_BUF \in Nat \ {0} /\ IsRing(buf, INPUT_BUF, Chars) /\ r \in Int
        /\ IsRing(d2, INPUT_BUF, Chars)
    BY <1>1, <1>7, RingPlaces
  <2>2. SubSeq(RingSeq(buf, INPUT_BUF, r, K), 1, L) = RingSeq(buf, INPUT_BUF, r, L)
    BY <1>2, <2>1, RingFirst
  <2>3. SubSeq(RingSeq(d2, INPUT_BUF, r, K), 1, L) = RingSeq(d2, INPUT_BUF, r, L)
    BY <1>2, <2>1, RingFirst
  <2> QED
    BY <2>2, <2>3
<1>13. Lines = RingSeq(buf, INPUT_BUF, r, L) /\ Edited = RingSeq(buf, INPUT_BUF, w, E)
  BY <1>2, LinesFacts
<1> QED
  BY <1>2, <1>3, <1>6, <1>7, <1>8, <1>10, <1>11, <1>12, <1>13, Zenon

(* Typing a character completes the line or is still edited. *)
LEMMA CharEffect ==
    ASSUME TypeOK, NEW c \in Chars, KbdChar(c)
    PROVE  /\ InTurn(r', w', e') /\ IsRing(buf', INPUT_BUF, Chars)
           /\ Len(Lines) + Len(Edited) < INPUT_BUF
           /\ WakesReaders(c) <=> (c \in {NL, EOT} \/ Len(Lines) + Len(Edited) + 1 = INPUT_BUF)
           /\ WakesReaders(c) => Lines' = Lines \o Append(Edited, c) /\ Edited' = <<>>
           /\ ~WakesReaders(c) => w' = w /\ Lines' = Lines /\ Edited' = Append(Edited, c)
<1>1. /\ InTurn(r, w, e) /\ r \in Uint /\ w \in Uint /\ e \in Uint
      /\ Len(Lines) = Minus(w, r) /\ Len(Edited) = Minus(e, w)
      /\ Lines \in Seq(Chars) /\ Edited \in Seq(Chars)
  BY TypeFacts, LinesFacts DEF InTurn
<1>2. /\ Minus(w, r) \in Nat /\ Minus(e, w) \in Nat /\ Minus(e, r) \in Nat
      /\ Minus(e, r) = Minus(w, r) + Minus(e, w) /\ Minus(e, r) < INPUT_BUF
  BY <1>1, TurnParts DEF KbdChar, Room
<1>3. /\ Plus(e, 1) \in Uint
      /\ Minus(Plus(e, 1), r) = Minus(e, r) + 1
      /\ Minus(Plus(e, 1), w) = Minus(e, w) + 1
      /\ Plus(e, 1) = Plus(r, INPUT_BUF) <=> Minus(e, r) + 1 = INPUT_BUF
      /\ InTurn(r, w, Plus(e, 1)) /\ InTurn(r, Plus(e, 1), Plus(e, 1))
      /\ Minus(Plus(e, 1), Plus(e, 1)) = 0
  BY <1>1, <1>2, TurnTyped, Zenon
<1>4. /\ r' = r /\ e' = Plus(e, 1) /\ w' = IF WakesReaders(c) THEN Plus(e, 1) ELSE w
  BY DEF KbdChar, WakesReaders
<1>5. InTurn(r', w', e') /\ r' \in Uint /\ w' \in Uint /\ e' \in Uint
  BY <1>1, <1>3, <1>4
<1>6. /\ IsRing(buf', INPUT_BUF, Chars)
      /\ RingSeq(buf', INPUT_BUF, r, Minus(e, r) + 1) = Append(Lines \o Edited, c)
      /\ RingSeq(buf', INPUT_BUF, w, Minus(e, w) + 1) = Append(Edited, c)
      /\ RingSeq(buf', INPUT_BUF, r, Minus(w, r)) = Lines
  BY CharTyped
<1>7. /\ Lines' = RingSeq(buf', INPUT_BUF, r', Minus(w', r'))
      /\ Edited' = RingSeq(buf', INPUT_BUF, w', Minus(e', w'))
  <2>1. Lines' = Between(buf', r', w') /\ Edited' = Between(buf', w', e')
    BY DEF Lines, Edited, Between
  <2> QED
    BY <1>5, <1>6, <2>1, BetweenRing
<1>8. WakesReaders(c) <=> (c \in {NL, EOT} \/ Len(Lines) + Len(Edited) + 1 = INPUT_BUF)
  BY <1>1, <1>2, <1>3 DEF WakesReaders
<1>9. CASE WakesReaders(c)
  <2>1. Lines' = Append(Lines \o Edited, c) /\ Edited' = RingSeq(buf', INPUT_BUF, w', 0)
    BY <1>3, <1>4, <1>6, <1>7, <1>9
  <2>2. RingSeq(buf', INPUT_BUF, w', 0) = <<>>
    BY DEF RingSeq
  <2>3. Append(Lines \o Edited, c) = Lines \o Append(Edited, c)
    <3>1. Lines \in Seq(Chars) /\ Edited \in Seq(Chars) /\ c \in Chars
      BY <1>1
    <3> QED
      BY <3>1
  <2> QED
    BY <1>1, <1>2, <1>5, <1>6, <1>8, <1>9, <2>1, <2>2, <2>3
<1>10. CASE ~WakesReaders(c)
  <2>1. Lines' = Lines /\ Edited' = Append(Edited, c) /\ w' = w
    BY <1>3, <1>4, <1>6, <1>7, <1>10
  <2> QED
    BY <1>1, <1>2, <1>5, <1>6, <1>8, <1>10, <2>1
<1> QED
  BY <1>9, <1>10

(* Backspace takes the last character of the line that is edited. *)
LEMMA EraseEffect ==
    ASSUME TypeOK, KbdBackspace
    PROVE  /\ InTurn(r', w', e') /\ Lines' = Lines /\ Edited # <<>>
           /\ Edited' = SubSeq(Edited, 1, Len(Edited) - 1)
<1>1. /\ InTurn(r, w, e) /\ r \in Uint /\ w \in Uint /\ e \in Uint /\ w \in Int
      /\ IsRing(buf, INPUT_BUF, Chars) /\ INPUT_BUF \in Nat \ {0}
      /\ Edited = RingSeq(buf, INPUT_BUF, w, Minus(e, w)) /\ Edited \in Seq(Chars)
      /\ Len(Edited) = Minus(e, w)
  BY TypeFacts, LinesFacts, RingPlaces DEF InTurn
<1>2. e # w /\ e' = Minus(e, 1) /\ w' = w /\ r' = r /\ buf' = buf
  BY DEF KbdBackspace
<1>3. Minus(e, w) \in Nat /\ Minus(e, w) # 0
  BY <1>1, <1>2, TurnParts
<1>4. e' \in Uint /\ Minus(e', w) = Minus(e, w) - 1 /\ InTurn(r', w', e')
  BY <1>1, <1>2, TurnErased
<1>5. PICK k \in Nat, j \in Nat : k = Minus(e, w) /\ j = Minus(e', w) /\ j = k - 1 /\ j <= k
  BY <1>3, <1>4
<1>6. SubSeq(RingSeq(buf, INPUT_BUF, w, k), 1, j) = RingSeq(buf, INPUT_BUF, w, j)
  BY <1>1, <1>5, RingFirst
<1>7. Edited' = RingSeq(buf, INPUT_BUF, w, j)
  <2>1. Edited' = Between(buf, w, e')
    BY <1>2 DEF Edited, Between
  <2> QED
    BY <1>1, <1>4, <1>5, <2>1, BetweenRing
<1>8. Lines' = Lines
  BY <1>2 DEF Lines
<1>9. Edited # <<>>
  BY <1>1, <1>3
<1> QED
  BY <1>1, <1>4, <1>5, <1>6, <1>7, <1>8, <1>9

LEMMA MinOne == ASSUME NEW k \in Nat PROVE Min({k}) = k
  BY DEF Min

(* ^U takes all of it: the search for the last newline finds none. *)
LEMMA KillEffect ==
    ASSUME TypeOK, EditInv, KbdKillLine
    PROVE  InTurn(r', w', e') /\ Lines' = Lines /\ Edited' = <<>>
<1> DEFINE S == {k \in 0 .. Minus(e, w) :
                   k = Minus(e, w) \/ buf[Minus(e, k + 1) % INPUT_BUF] = NL}
<1>1. /\ InTurn(r, w, e) /\ r \in Uint /\ w \in Uint /\ e \in Uint /\ w \in Int /\ e \in Int
      /\ IsRing(buf, INPUT_BUF, Chars) /\ INPUT_BUF \in Nat \ {0}
      /\ Edited = RingSeq(buf, INPUT_BUF, w, Minus(e, w))
      /\ Len(Edited) = Minus(e, w)
  BY TypeFacts, LinesFacts, RingPlaces DEF InTurn
<1>2. PICK E \in Nat : E = Minus(e, w)
  BY <1>1, TurnParts
<1>3. ASSUME NEW k \in 0 .. E, k # E PROVE buf[Minus(e, k + 1) % INPUT_BUF] # NL
  <2>1. PICK i \in 1 .. E, j \in Int, x \in Int, y \in Int, u \in Int, v \in Int :
           /\ i = E - k /\ j = k + 1 /\ x = w + E /\ y = e - j
           /\ u = -j /\ v = w + i - 1
    BY <1>1, <1>2, <1>3
  <2>2. v = x + u /\ y = e + u
    BY <1>1, <2>1
  <2>3. SamePlace(x, e, INPUT_BUF)
    BY <1>1, <1>2, <2>1, BetweenPlaces
  <2>4. SamePlace(v, y, INPUT_BUF)
    BY <1>1, <2>2, <2>3, PlaceShift, Zenon
  <2>5. SamePlace(Minus(e, j), e - j, INPUT_BUF)
    BY <1>1, UnsignedPlace
  <2>6. v % INPUT_BUF = Minus(e, j) % INPUT_BUF
    BY <2>1, <2>4, <2>5 DEF SamePlace
  <2>7. Edited[i] = buf[v % INPUT_BUF]
    BY <1>1, <1>2, <2>1, Zenon DEF RingSeq
  <2>8. Edited[i] # NL
    BY <1>1, <1>2 DEF EditInv
  <2> QED
    BY <2>1, <2>6, <2>7, <2>8
<1>4. S = {E}
  <2>1. E \in 0 .. E
    OBVIOUS
  <2> QED
    BY <1>2, <1>3, <2>1
<1>5. Min(S) = E
  <2>1. Min(S) = Min({E})
    BY <1>4
  <2> QED
    BY <2>1, MinOne
<1>6. e' = Minus(e, Min(S)) /\ w' = w /\ r' = r /\ buf' = buf
  BY DEF KbdKillLine
<1>7. e' = w
  <2>1. E \in Uint
    BY <1>1, <1>2, Unsigned
  <2>2. Minus(e, E) = IF E <= e THEN e - E ELSE e - E + (UintMax + 1)
    BY <1>1, <2>1, Unsigned
  <2>3. E = IF w <= e THEN e - w ELSE e - w + (UintMax + 1)
    BY <1>1, <1>2, Unsigned, Zenon
  <2> HIDE DEF S
  <2> QED
    BY <1>1, <1>5, <1>6, <2>2, <2>3, Sizes DEF Uint
<1>8. Minus(w, w) = 0 /\ InTurn(r, w, w)
  <2>1. Minus(w, w) = IF w <= w THEN w - w ELSE w - w + (UintMax + 1)
    BY <1>1, Unsigned
  <2>2. Minus(w, r) \in Nat /\ Minus(e, r) \in Nat
    BY <1>1, TurnParts
  <2>3. Minus(w, r) <= Minus(w, r) /\ Minus(w, r) <= INPUT_BUF
    BY <1>1, <2>2 DEF InTurn
  <2> QED
    BY <1>1, <2>1, <2>3 DEF InTurn
<1>9. Edited' = <<>>
  <2>1. Edited' = Between(buf, w, w)
    BY <1>6, <1>7 DEF Edited, Between
  <2>2. Between(buf, w, w) = <<>>
    BY <1>8 DEF Between
  <2> QED
    BY <2>1, <2>2
<1>10. Lines' = Lines
  BY <1>6 DEF Lines
<1> QED
  BY <1>6, <1>7, <1>8, <1>9, <1>10

(* The part of TypeOK that is about the ring, and the rest. *)
RestOK ==
    /\ ticks \in Uint
    /\ conslock \in Procs \cup {Nobody} /\ tickslock \in Procs \cup {Nobody}
    /\ pc \in [Procs -> {"user", "read", "sleepy", "waiting", "delay", "drowsy", "ticking"}]
    /\ n \in [Procs -> Nat] /\ target \in [Procs -> Nat]
    /\ ticks0 \in [Procs -> Uint] /\ elapsed \in [Procs -> Nat]
    /\ killed \in [Procs -> BOOLEAN]

LEMMA TypeParts == TypeOK <=> IsRing(buf, INPUT_BUF, Chars) /\ InTurn(r, w, e) /\ RestOK
  BY DEF TypeOK, IsRing, InTurn, RestOK, Uint

LEMMA TypePartsNext ==
    TypeOK' <=> IsRing(buf', INPUT_BUF, Chars) /\ InTurn(r', w', e') /\ RestOK'
  BY Zenon DEF TypeOK, IsRing, InTurn, RestOK, Uint, Minus

LEMMA IntInitInv == Init => IntInv
<1> SUFFICES ASSUME Init PROVE IntInv
  OBVIOUS
<1>1. 0 \in Uint /\ Minus(0, 0) = 0
  <2>1. 0 \in Uint
    BY Sizes DEF Uint
  <2>2. Minus(0, 0) = IF 0 <= 0 THEN 0 - 0 ELSE 0 - 0 + (UintMax + 1)
    BY <2>1, Unsigned
  <2> QED
    BY <2>1, <2>2
<1>2. InTurn(r, w, e)
  BY <1>1, Sizes DEF Init, InTurn
<1>3. IsRing(buf, INPUT_BUF, Chars)
  BY DEF Init, IsRing, Chars
<1>4. RestOK
  BY <1>1 DEF Init, RestOK
<1>5. WaitInv /\ SleepInv
  BY NobodyAssumption DEF Init, WaitInv, SleepInv, Awake
<1>6. EditInv
  <2>1. Edited = <<>>
    BY <1>1 DEF Init, Edited
  <2> QED
    BY <2>1 DEF EditInv
<1> QED
  BY <1>2, <1>3, <1>4, <1>5, <1>6, TypeParts DEF IntInv

(* A step that leaves the console alone. *)
LEMMA ConsoleSame ==
    ASSUME TypeOK, EditInv, UNCHANGED input, RestOK'
    PROVE  TypeOK' /\ EditInv'
<1>1. IsRing(buf', INPUT_BUF, Chars) /\ InTurn(r', w', e')
  BY TypeParts DEF input
<1>2. EditInv'
  BY Zenon DEF EditInv, Edited, Minus, Plus, input
<1> QED
  BY <1>1, <1>2, TypePartsNext

LEMMA CharKeeps == ASSUME IntInv, NEW c \in Chars, KbdChar(c) PROVE IntInv'
<1> USE DEF IntInv
<1>1. /\ InTurn(r', w', e') /\ IsRing(buf', INPUT_BUF, Chars)
      /\ WakesReaders(c) <=> (c \in {NL, EOT} \/ Len(Lines) + Len(Edited) + 1 = INPUT_BUF)
      /\ WakesReaders(c) => Lines' = Lines \o Append(Edited, c) /\ Edited' = <<>>
      /\ ~WakesReaders(c) => w' = w /\ Lines' = Lines /\ Edited' = Append(Edited, c)
  BY CharEffect
<1>2. RestOK'
  BY TypeParts DEF KbdChar, RestOK, Wakeup
<1>3. EditInv'
  <2>1. CASE WakesReaders(c)
    <3>1. Edited' = <<>>
      BY <1>1, <2>1
    <3> QED
      BY <3>1 DEF EditInv
  <2>2. CASE ~WakesReaders(c)
    <3>1. Edited' = Append(Edited, c) /\ c \notin {NL, EOT} /\ Edited \in Seq(Chars)
      BY <1>1, <2>2, LinesFacts
    <3>2. /\ Len(Edited') = Len(Edited) + 1 /\ Len(Edited) \in Nat
          /\ \A i \in 1 .. Len(Edited) : Edited'[i] = Edited[i]
          /\ Edited'[Len(Edited) + 1] = c
      BY <3>1
    <3> QED
      BY <3>1, <3>2 DEF EditInv
  <2> QED
    BY <2>1, <2>2
<1>4. WaitInv'
  BY <1>1, NobodyAssumption, TypeParts DEF WaitInv, KbdChar, Wakeup, RestOK
<1>5. SleepInv'
  BY TypeParts DEF SleepInv, KbdChar, Wakeup, RestOK, Awake
<1> QED
  BY <1>1, <1>2, <1>3, <1>4, <1>5, TypePartsNext

LEMMA EraseKeeps == ASSUME IntInv, KbdBackspace PROVE IntInv'
<1> USE DEF IntInv
<1>1. InTurn(r', w', e') /\ Edited' = SubSeq(Edited, 1, Len(Edited) - 1)
  BY EraseEffect
<1>2. RestOK' /\ IsRing(buf', INPUT_BUF, Chars)
  BY TypeParts DEF KbdBackspace, RestOK
<1>3. EditInv'
  <2>1. Edited \in Seq(Chars) /\ Len(Edited) \in Nat /\ Edited # <<>>
    BY LinesFacts, EraseEffect
  <2>2. /\ Len(Edited') = Len(Edited) - 1
        /\ \A i \in 1 .. Len(Edited) - 1 : Edited'[i] = Edited[i]
    <3>1. PICK s \in Seq(Chars), k \in Nat : s = Edited /\ k = Len(Edited) - 1 /\ k = Len(s) - 1
      BY <2>1
    <3>2. Len(SubSeq(s, 1, k)) = k
      BY <3>1
    <3>3. \A i \in 1 .. k : SubSeq(s, 1, k)[i] = s[i]
      BY <3>1
    <3> QED
      BY <1>1, <3>1, <3>2, <3>3
  <2> QED
    BY <2>1, <2>2 DEF EditInv
<1>4. WaitInv' /\ SleepInv'
  BY DEF WaitInv, SleepInv, KbdBackspace
<1> QED
  BY <1>1, <1>2, <1>3, <1>4, TypePartsNext

LEMMA KillKeeps == ASSUME IntInv, KbdKillLine PROVE IntInv'
<1> USE DEF IntInv
<1>1. InTurn(r', w', e') /\ Edited' = <<>>
  BY KillEffect
<1>2. RestOK' /\ IsRing(buf', INPUT_BUF, Chars)
  BY TypeParts DEF KbdKillLine, RestOK
<1>3. EditInv'
  BY <1>1 DEF EditInv
<1>4. WaitInv' /\ SleepInv'
  BY DEF WaitInv, SleepInv, KbdKillLine
<1> QED
  BY <1>1, <1>2, <1>3, <1>4, TypePartsNext

(* A timer interrupt counts for those in sleep() and wakes them. *)
LEMMA TimerKeeps == ASSUME IntInv, Timer PROVE IntInv'
<1> USE DEF IntInv
<1>1. UNCHANGED input /\ conslock' = conslock /\ tickslock' = tickslock
  BY DEF Timer
<1>2. RestOK /\ ticks \in Uint
  BY TypeParts DEF RestOK
<1>3. ticks' \in Uint /\ ticks' = Plus(ticks, 1)
  BY <1>2, Sizes, Unsigned DEF Timer
<1>4. /\ pc' \in [Procs -> {"user", "read", "sleepy", "waiting", "delay", "drowsy", "ticking"}]
      /\ \A p \in Procs : pc'[p] = IF pc[p] = "ticking" THEN "delay" ELSE pc[p]
  BY <1>2 DEF Timer, Wakeup, RestOK
<1>5. /\ elapsed' \in [Procs -> Nat]
      /\ \A p \in Procs : elapsed'[p] = elapsed[p] + IF pc[p] \in {"delay", "ticking"} THEN 1 ELSE 0
  BY <1>2 DEF Timer, RestOK
<1>6. RestOK'
  BY <1>1, <1>2, <1>3, <1>4, <1>5 DEF RestOK, Timer
<1>7. TypeOK' /\ EditInv'
  BY <1>1, <1>6, ConsoleSame
<1>8. WaitInv'
  BY <1>1, <1>4 DEF WaitInv, input
<1>9. SleepInv'
  <2>1. ASSUME NEW p \in Procs, pc[p] \in {"delay", "ticking"}
        PROVE  /\ elapsed[p] < UintMax
               /\ Minus(ticks', ticks0[p]) = elapsed[p] + 1
    <3>1. elapsed[p] < UintMax
      <4>1. elapsed[p] \in Nat /\ n[p] \in Nat /\ UintMax \in Nat /\ MaxSleep <= UintMax - 1 /\ MaxSleep \in Int
        BY <1>2, SizeAssumption DEF RestOK
      <4>2. CASE pc[p] = "delay"
        BY <4>2 DEF Timer
      <4>3. CASE pc[p] = "ticking"
        <5>1. elapsed[p] < n[p] /\ n[p] <= MaxSleep
          BY <4>3 DEF SleepInv, Awake
        <5> QED
          BY <4>1, <5>1
      <4> QED
        BY <2>1, <4>2, <4>3
    <3>2. Minus(ticks, ticks0[p]) = elapsed[p] /\ ticks0[p] \in Uint
      BY <1>2, <2>1 DEF SleepInv, Awake, RestOK
    <3> QED
      BY <1>2, <1>3, <3>1, <3>2, TickCounts
  <2>2. \A p \in Procs : pc[p] # "drowsy"
    BY NobodyAssumption DEF SleepInv, Timer
  <2>3. n' = n /\ ticks0' = ticks0 /\ \A p \in Procs : elapsed[p] \in Nat
    BY <1>2 DEF Timer, RestOK
  <2>4. ASSUME NEW p \in Procs PROVE pc'[p] = "drowsy" <=> tickslock' = p
    BY <1>1, <1>4 DEF SleepInv
  <2>5. ASSUME NEW p \in Procs, pc'[p] \in Awake PROVE elapsed'[p] = 0
    BY <1>4, <1>5, <2>3, <2>5 DEF SleepInv, Awake
  <2>6. ASSUME NEW p \in Procs, pc'[p] \notin Awake
        PROVE  /\ elapsed'[p] <= UintMax /\ n'[p] <= MaxSleep
               /\ Minus(ticks', ticks0'[p]) = elapsed'[p]
    <3>1. pc[p] \in {"delay", "ticking"}
      BY <1>2, <1>4, <2>2, <2>6 DEF Awake, RestOK
    <3>2. elapsed'[p] = elapsed[p] + 1
      BY <1>5, <3>1
    <3>3. n[p] <= MaxSleep
      BY <3>1 DEF SleepInv, Awake
    <3>4. elapsed[p] + 1 <= UintMax
      BY <2>1, <2>3, <3>1, Sizes
    <3> QED
      BY <2>1, <2>3, <3>1, <3>2, <3>3, <3>4
  <2>7. \A p \in Procs : pc'[p] \notin {"drowsy", "ticking"}
    BY <1>4, <2>2
  <2> QED
    BY <2>4, <2>5, <2>6, <2>7 DEF SleepInv, Minus
<1> QED
  BY <1>7, <1>8, <1>9

-----------------------------------------------------------------------------
(* The least element of a set of numbers. *)
LOCAL INSTANCE WellFoundedInduction

LEMMA LeastNatural ==
    ASSUME NEW S \in SUBSET Nat, S # {}
    PROVE  \E x \in S : \A y \in S : x <= y
<1>1. PICK x \in S : \A y \in S : ~(<<y, x>> \in OpToRel(<, Nat))
  BY NatLessThanWellFounded, WFMin, Zenon
<1>2. \A y \in S : ~(y < x)
  BY <1>1, Zenon DEF OpToRel
<1>3. \A y \in S : x <= y
  BY <1>2
<1> QED
  BY <1>3

LEMMA MinIn ==
    ASSUME NEW S \in SUBSET Nat, S # {}
    PROVE  Min(S) \in S /\ \A y \in S : Min(S) <= y
<1>1. PICK x \in S : \A y \in S : x <= y
  BY LeastNatural
<1> QED
  BY <1>1, Zenon DEF Min

(* How far consoleread() goes. *)
LEMMA ScanFacts ==
    ASSUME TypeOK, NEW p \in Procs
    PROVE  /\ Scan(p) \in 0 .. Len(Lines) /\ Scan(p) <= n[p]
           /\ Scan(p) # Len(Lines) /\ Scan(p) # n[p] => EndsAt(p, NL) \/ EndsAt(p, EOT)
           /\ Consumed(p) \in 0 .. Len(Lines)
           /\ ~EndsAt(p, EOT) => Consumed(p) = Scan(p)
           /\ Scan(p) = 0 => Consumed(p) = 0
           /\ \A i \in 1 .. Consumed(p) - 1 : Lines[i] \notin {NL, EOT}
<1> DEFINE S == {i \in 0 .. Len(Lines) :
                   i = Len(Lines) \/ i = n[p] \/ (i > 0 /\ Lines[i] \in {NL, EOT})}
<1>1. Len(Lines) \in Nat /\ n[p] \in Nat
  BY LinesFacts, TypeFacts
<1>2. S \in SUBSET Nat /\ Len(Lines) \in S /\ (n[p] <= Len(Lines) => n[p] \in S)
  BY <1>1
<1>3. Min(S) \in S /\ \A y \in S : Min(S) <= y
  BY <1>2, MinIn, Zenon
<1>4. Scan(p) = Min(S)
  BY DEF Scan
<1>5. /\ Scan(p) \in 0 .. Len(Lines)
      /\ \/ Scan(p) = Len(Lines) \/ Scan(p) = n[p]
         \/ (Scan(p) > 0 /\ Lines[Scan(p)] \in {NL, EOT})
  BY <1>3, <1>4, Zenon
<1>6. Scan(p) <= n[p]
  BY <1>1, <1>2, <1>3, <1>4, <1>5
<1>7. EndsAt(p, EOT) => Scan(p) > 0
  BY DEF EndsAt
<1>8. \A i \in 1 .. Consumed(p) - 1 : Lines[i] \notin {NL, EOT}
  <2> SUFFICES ASSUME NEW i \in 1 .. Consumed(p) - 1, Lines[i] \in {NL, EOT} PROVE FALSE
    OBVIOUS
  <2>1. Consumed(p) = Scan(p) \/ Consumed(p) = Scan(p) - 1
    BY DEF Consumed
  <2>2. i \in 0 .. Len(Lines) /\ i > 0 /\ i < Scan(p)
    BY <1>1, <1>5, <2>1
  <2>3. i \in S
    BY <2>2
  <2> HIDE DEF S
  <2>4. Min(S) <= i
    BY <1>3, <2>3
  <2> QED
    BY <1>1, <1>4, <1>5, <2>2, <2>4
<1> HIDE DEF S
<1> QED
  BY <1>1, <1>5, <1>6, <1>7, <1>8 DEF EndsAt, Consumed

(* What was gone through is removed from the front. *)
LEMMA TakeEffect ==
    ASSUME TypeOK, NEW p \in Procs, ReadTake(p)
    PROVE  /\ InTurn(r', w', e') /\ Edited' = Edited
           /\ Lines' = SubSeq(Lines, Consumed(p) + 1, Len(Lines))
           /\ Consumed(p) = 0 => r' = r
           /\ Consumed(p) = Len(Lines) => r' = w
<1>1. /\ InTurn(r, w, e) /\ r \in Uint /\ w \in Uint /\ e \in Uint /\ r \in Int
      /\ IsRing(buf, INPUT_BUF, Chars) /\ INPUT_BUF \in Nat \ {0}
      /\ Lines = RingSeq(buf, INPUT_BUF, r, Minus(w, r))
      /\ Len(Lines) = Minus(w, r)
  BY TypeFacts, LinesFacts, RingPlaces DEF InTurn
<1>2. PICK c \in 0 .. Minus(w, r) : c = Consumed(p)
  BY <1>1, ScanFacts
<1>3. r' = Plus(r, c) /\ w' = w /\ e' = e /\ buf' = buf
  BY <1>2 DEF ReadTake
<1>4. /\ r' \in Uint /\ Minus(w, r') = Minus(w, r) - c
      /\ InTurn(r', w', e')
      /\ (c = 0 => r' = r) /\ (c = Minus(w, r) => r' = w)
  BY <1>1, <1>3, TurnTaken
<1>5. PICK k \in Nat, m \in Nat, q \in Int, i \in Nat, j \in Nat :
         k = Minus(w, r) /\ j = c /\ m = k - j /\ q = r + j /\ i = j + 1 /\ m = Minus(w, r')
  <2>1. Minus(w, r) \in Nat
    BY <1>1, TurnParts
  <2> QED
    BY <1>1, <1>4, <2>1
<1>6. SubSeq(RingSeq(buf, INPUT_BUF, r, k), i, k) = RingSeq(buf, INPUT_BUF, q, m)
  <2>1. Parted(r, k, j, q, m)
    BY <1>5 DEF Parted
  <2> QED
    BY <1>1, <1>5, <2>1, RingRest
<1>7. RingSeq(buf, INPUT_BUF, r', m) = RingSeq(buf, INPUT_BUF, q, m)
  <2>1. PICK x \in Int : x = r'
    BY <1>4, Sizes DEF Uint
  <2>2. SamePlace(x, q, INPUT_BUF)
    <3>1. SamePlace(Plus(r, j), r + j, INPUT_BUF)
      BY <1>1, UnsignedPlace
    <3> QED
      BY <1>3, <1>5, <2>1, <3>1
  <2>3. RingSeq(buf, INPUT_BUF, x, m) = RingSeq(buf, INPUT_BUF, q, m)
    BY <1>1, <2>2, RingSame
  <2> QED
    BY <2>1, <2>3
<1>8. Lines' = RingSeq(buf, INPUT_BUF, r', m)
  <2>1. Lines' = Between(buf, r', w)
    BY <1>3 DEF Lines, Between
  <2> QED
    BY <1>1, <1>4, <1>5, <2>1, BetweenRing
<1>9. Edited' = Edited
  BY <1>3 DEF Edited
<1> QED
  BY <1>1, <1>2, <1>4, <1>5, <1>6, <1>7, <1>8, <1>9, Zenon

(* No other reader waits while p finds a line; and p waits only with all   *)
(* the lines taken.                                                        *)
LEMMA TakeKeeps == ASSUME IntInv, NEW p \in Procs, ReadTake(p) PROVE IntInv'
<1> USE DEF IntInv
<1>1. /\ InTurn(r', w', e') /\ Edited' = Edited
      /\ Consumed(p) = 0 => r' = r
      /\ Consumed(p) = Len(Lines) => r' = w
  BY TakeEffect
<1>2. /\ Scan(p) \in 0 .. Len(Lines) /\ Scan(p) <= n[p]
      /\ Scan(p) # Len(Lines) /\ Scan(p) # n[p] => EndsAt(p, NL) \/ EndsAt(p, EOT)
      /\ ~EndsAt(p, EOT) => Consumed(p) = Scan(p)
      /\ Scan(p) = 0 => Consumed(p) = 0
      /\ Len(Lines) = Minus(w, r) /\ Len(Lines) \in Nat
  BY ScanFacts, LinesFacts
<1>3. r = w => r' = w
  <2>1. InTurn(r, w, e)
    BY TypeParts
  <2>2. r = w => Len(Lines) = 0
    BY <1>2, <2>1, TurnParts
  <2> QED
    BY <1>1, <1>2, <2>2
<1>4. RestOK' /\ IsRing(buf', INPUT_BUF, Chars)
  <2>1. n[p] \in Nat /\ n[p] - Scan(p) \in Nat
    BY <1>2, TypeParts DEF RestOK
  <2>2. 0 \in Uint
    BY Sizes DEF Uint
  <2>3. pc' \in [Procs -> {"user", "read", "sleepy", "waiting", "delay", "drowsy", "ticking"}]
    BY TypeParts DEF ReadTake, RestOK, Return, Goto
  <2>4. n' \in [Procs -> Nat] /\ target' \in [Procs -> Nat]
    BY <2>1, TypeParts DEF ReadTake, RestOK, Return, Goto
  <2>5. ticks0' \in [Procs -> Uint] /\ elapsed' \in [Procs -> Nat]
    BY <2>2, TypeParts DEF ReadTake, RestOK, Return, Goto
  <2>6. conslock' \in Procs \cup {Nobody}
    BY TypeParts DEF ReadTake, RestOK
  <2> QED
    BY <2>3, <2>4, <2>5, <2>6, TypeParts DEF ReadTake, RestOK
<1>5. EditInv'
  BY <1>1 DEF EditInv
<1>6. WaitInv'
  <2>1. CASE Scan(p) = n[p] \/ EndsAt(p, NL) \/ EndsAt(p, EOT) \/ killed[p]
    <3>1. pc' = [pc EXCEPT ![p] = "user"] /\ conslock' = conslock /\ w' = w
      BY <2>1 DEF ReadTake, Return, Goto
    <3> QED
      BY <1>3, <3>1, NobodyAssumption, TypeParts DEF WaitInv, ReadTake, RestOK
  <2>2. CASE ~(Scan(p) = n[p] \/ EndsAt(p, NL) \/ EndsAt(p, EOT) \/ killed[p])
    <3>1. pc' = [pc EXCEPT ![p] = "sleepy"] /\ conslock' = p /\ w' = w
      BY <2>2 DEF ReadTake, Goto
    <3>2. r' = w
      BY <1>1, <1>2, <2>2
    <3> QED
      BY <3>1, <3>2, NobodyAssumption, TypeParts DEF WaitInv, ReadTake, RestOK
  <2> QED
    BY <2>1, <2>2
<1>7. SleepInv'
  <2>1. pc[p] = "read" /\ tickslock' = tickslock /\ ticks' = ticks
    BY Zenon DEF ReadTake
  <2>2. pc'[p] \in {"user", "sleepy"} /\ elapsed'[p] = 0
    <3>1. elapsed[p] = 0 /\ elapsed'[p] \in {0, elapsed[p]}
      BY <2>1, TypeParts DEF ReadTake, Return, SleepInv, RestOK, Awake
    <3>2. pc'[p] \in {"user", "sleepy"}
      BY TypeParts DEF ReadTake, Return, Goto, RestOK
    <3> QED
      BY <3>1, <3>2
  <2>3. \A q \in Procs \ {p} : /\ pc'[q] = pc[q] /\ n'[q] = n[q]
                              /\ ticks0'[q] = ticks0[q] /\ elapsed'[q] = elapsed[q]
    BY TypeParts DEF ReadTake, Return, Goto, RestOK
  <2> QED
    BY <2>1, <2>2, <2>3 DEF SleepInv, Awake, Minus
<1> QED
  BY <1>1, <1>4, <1>5, <1>6, <1>7, TypePartsNext

LEMMA IntStepInv == IntInv /\ [Next]_vars => IntInv'
<1> SUFFICES ASSUME IntInv, [Next]_vars PROVE IntInv'
  OBVIOUS
<1>0. TypeOK /\ EditInv /\ WaitInv /\ SleepInv /\ RestOK
  BY TypeParts DEF IntInv
<1>1. ASSUME NEW c \in Chars, KbdChar(c) PROVE IntInv'
  BY <1>1, CharKeeps
<1>2. CASE KbdBackspace
  BY <1>2, EraseKeeps
<1>3. CASE KbdKillLine
  BY <1>3, KillKeeps
<1>4. CASE Timer
  BY <1>4, TimerKeeps
<1>5. ASSUME NEW p \in Procs, NEW m \in 0 .. MaxCount, Read(p, m) PROVE IntInv'
  <2>1. UNCHANGED input /\ RestOK'
    BY <1>0, <1>5, SizeAssumption DEF Read, RestOK, Goto
  <2>2. WaitInv' /\ SleepInv'
    BY <1>0, <1>5 DEF Read, RestOK, Goto, WaitInv, SleepInv, Awake, input, Minus
  <2> QED
    BY <1>0, <2>1, <2>2, ConsoleSame DEF IntInv
<1>6. ASSUME NEW p \in Procs, NEW m \in 0 .. MaxSleep, Sleep(p, m) PROVE IntInv'
  <2>1. UNCHANGED input /\ RestOK'
    BY <1>0, <1>6, SizeAssumption DEF Sleep, RestOK, Goto
  <2>2. WaitInv'
    BY <1>0, <1>6 DEF Sleep, RestOK, Goto, WaitInv, input
  <2>3. SleepInv'
    <3>1. Minus(ticks, ticks) = 0
      <4>1. Minus(ticks, ticks) = IF ticks <= ticks THEN ticks - ticks
                                  ELSE ticks - ticks + (UintMax + 1)
        BY <1>0, Unsigned DEF RestOK
      <4> QED
        BY <1>0, <4>1, Sizes DEF RestOK, Uint
    <3>2. m <= MaxSleep /\ 0 <= UintMax
      BY SizeAssumption
    <3>3. elapsed[p] = 0
      BY <1>0, <1>6, Zenon DEF Sleep, SleepInv, Awake
    <3>4. pc'[p] = "delay" /\ ticks0'[p] = ticks /\ n'[p] = m /\ elapsed' = elapsed
      BY <1>0, <1>6 DEF Sleep, Goto, RestOK
    <3>5. \A q \in Procs \ {p} : /\ pc'[q] = pc[q] /\ n'[q] = n[q] /\ ticks0'[q] = ticks0[q]
      BY <1>0, <1>6 DEF Sleep, Goto, RestOK
    <3>6. ticks' = ticks /\ tickslock' = tickslock /\ tickslock # p
      BY <1>6, NobodyAssumption DEF Sleep
    <3> QED
      BY <1>0, <3>1, <3>2, <3>3, <3>4, <3>5, <3>6 DEF SleepInv, Awake, Minus
  <2> QED
    BY <1>0, <2>1, <2>2, <2>3, ConsoleSame DEF IntInv
<1>7. ASSUME NEW p \in Procs, ReadTake(p) PROVE IntInv'
  BY <1>7, TakeKeeps
<1>8. ASSUME NEW p \in Procs, ReadSleep(p) PROVE IntInv'
  <2>1. UNCHANGED input /\ RestOK'
    BY <1>0, <1>8 DEF ReadSleep, RestOK, Goto
  <2>2. WaitInv'
    BY <1>0, <1>8, NobodyAssumption DEF ReadSleep, RestOK, Goto, WaitInv, input
  <2>3. SleepInv'
    BY <1>0, <1>8 DEF ReadSleep, RestOK, Goto, SleepInv, Awake, Minus
  <2> QED
    BY <1>0, <2>1, <2>2, <2>3, ConsoleSame DEF IntInv
<1>9. ASSUME NEW p \in Procs, SleepCheck(p) PROVE IntInv'
  <2>0. 0 \in Uint
    BY Sizes DEF Uint
  <2>1. UNCHANGED input /\ RestOK'
    BY <1>0, <1>9, <2>0 DEF SleepCheck, RestOK, Goto, Return
  <2>2. WaitInv'
    BY <1>0, <1>9 DEF SleepCheck, RestOK, Goto, Return, WaitInv, input
  <2>3. SleepInv'
    <3>1. CASE Due(p) \/ killed[p]
      <4>1. pc'[p] = "user" /\ elapsed'[p] = 0 /\ tickslock' = tickslock /\ ticks' = ticks
        BY <1>0, <1>9, <3>1 DEF SleepCheck, Return, Goto, RestOK
      <4>2. \A q \in Procs \ {p} : /\ pc'[q] = pc[q] /\ n'[q] = n[q]
                                  /\ ticks0'[q] = ticks0[q] /\ elapsed'[q] = elapsed[q]
        BY <1>0, <1>9, <3>1 DEF SleepCheck, Return, Goto, RestOK
      <4>3. tickslock # p
        BY <1>9, NobodyAssumption DEF SleepCheck
      <4> QED
        BY <1>0, <4>1, <4>2, <4>3 DEF SleepInv, Awake, Minus
    <3>2. CASE ~(Due(p) \/ killed[p])
      <4>1. /\ pc' = [pc EXCEPT ![p] = "drowsy"] /\ tickslock' = p /\ tickslock = Nobody
            /\ UNCHANGED <<n, target, ticks0, elapsed, ticks>>
        BY <1>9, <3>2 DEF SleepCheck, Goto
      <4>2. elapsed[p] < n[p]
        <5>1. Minus(ticks, ticks0[p]) = elapsed[p] /\ ~(Minus(ticks, ticks0[p]) >= n[p])
          BY <1>0, <1>9, <3>2, Zenon DEF SleepCheck, SleepInv, Awake, Due
        <5>2. elapsed[p] \in Nat /\ n[p] \in Nat
          BY <1>0 DEF RestOK
        <5> QED
          BY <5>1, <5>2
      <4>3. pc[p] = "delay" /\ pc \in [Procs -> {"user", "read", "sleepy", "waiting", "delay", "drowsy", "ticking"}]
        BY <1>0, <1>9 DEF SleepCheck, RestOK
      <4> QED
        BY <1>0, <4>1, <4>2, <4>3, NobodyAssumption DEF SleepInv, Awake, Minus
    <3> QED
      BY <3>1, <3>2
  <2> QED
    BY <1>0, <2>1, <2>2, <2>3, ConsoleSame DEF IntInv
<1>10. ASSUME NEW p \in Procs, SleepSleep(p) PROVE IntInv'
  <2>1. UNCHANGED input /\ RestOK'
    BY <1>0, <1>10 DEF SleepSleep, RestOK, Goto
  <2>2. WaitInv'
    BY <1>0, <1>10 DEF SleepSleep, RestOK, Goto, WaitInv, input
  <2>3. SleepInv'
    BY <1>0, <1>10, NobodyAssumption DEF SleepSleep, RestOK, Goto, SleepInv, Awake, Minus
  <2> QED
    BY <1>0, <2>1, <2>2, <2>3, ConsoleSame DEF IntInv
<1>11. ASSUME NEW p \in Procs, Kill(p) PROVE IntInv'
  <2>1. UNCHANGED input /\ RestOK'
    BY <1>0, <1>11 DEF Kill, RestOK
  <2>2. WaitInv'
    BY <1>0, <1>11 DEF Kill, RestOK, WaitInv, input
  <2>3. SleepInv'
    BY <1>0, <1>11 DEF Kill, RestOK, SleepInv, Awake, Minus
  <2> QED
    BY <1>0, <2>1, <2>2, <2>3, ConsoleSame DEF IntInv
<1>12. ASSUME NEW p \in Procs, Exit(p) PROVE IntInv'
  <2>1. UNCHANGED input /\ RestOK'
    BY <1>0, <1>12 DEF Exit, RestOK
  <2>2. WaitInv' /\ SleepInv'
    BY <1>0, <1>12 DEF Exit, WaitInv, SleepInv, Awake, Minus, input
  <2> QED
    BY <1>0, <2>1, <2>2, ConsoleSame DEF IntInv
<1>13. CASE UNCHANGED vars
  <2>1. UNCHANGED input /\ RestOK'
    BY <1>0, <1>13 DEF vars, RestOK, input
  <2>2. WaitInv' /\ SleepInv'
    BY <1>0, <1>13 DEF vars, WaitInv, SleepInv, Minus
  <2> QED
    BY <1>0, <2>1, <2>2, ConsoleSame DEF IntInv
<1> QED
  BY <1>1, <1>2, <1>3, <1>4, <1>5, <1>6, <1>7, <1>8, <1>9, <1>10, <1>11, <1>12, <1>13 DEF Next

LEMMA IntInvariant == Spec => []IntInv
  BY IntInitInv, IntStepInv, PTL DEF Spec

(* No reader sleeps while a complete line waits, and nobody sleeps past    *)
(* the time it asked sleep() for, with any number of processes, any        *)
(* INPUT_BUF and any width of the counters that INPUT_BUF divides.         *)
THEOREM InterruptsWake == Spec => []NoMissedWakeup
<1>1. IntInv => NoMissedWakeup
  BY DEF IntInv, WaitInv, SleepInv, NoMissedWakeup
<1> QED
  BY <1>1, IntInvariant, PTL

(* sleep(n) of a process that is not killed returns only after n timer     *)
(* interrupts: the unsigned difference ticks - ticks0 is how many there    *)
(* were, also when ticks has overflowed in between.                        *)
THEOREM SleepIsLongEnough == Spec => SleepsEnough
<1>1. IntInv /\ [Next]_vars =>
        [\A p \in Procs : pc[p] = "delay" /\ pc'[p] = "user" /\ ~killed[p] =>
            elapsed[p] >= n[p]]_vars
  <2> SUFFICES ASSUME IntInv, Next, NEW p \in Procs,
                      pc[p] = "delay", pc'[p] = "user", ~killed[p]
               PROVE  elapsed[p] >= n[p]
    BY DEF vars
  <2>0. RestOK /\ SleepInv
    BY TypeParts DEF IntInv
  <2>1. SleepCheck(p)
    <3>1. ASSUME NEW c \in Chars, KbdChar(c) PROVE FALSE
      BY <2>0, <3>1 DEF KbdChar, Wakeup, RestOK
    <3>2. ~KbdBackspace /\ ~KbdKillLine /\ ~Timer
      BY <2>0 DEF KbdBackspace, KbdKillLine, Timer, Wakeup, RestOK
    <3>3. ASSUME NEW q \in Procs,
                 \/ \E m \in 0 .. MaxCount : Read(q, m)
                 \/ \E m \in 0 .. MaxSleep : Sleep(q, m)
                 \/ ReadTake(q) \/ ReadSleep(q) \/ SleepSleep(q) \/ Kill(q) \/ Exit(q)
          PROVE  FALSE
      <4>1. CASE \/ \E m \in 0 .. MaxCount : Read(q, m)
                 \/ \E m \in 0 .. MaxSleep : Sleep(q, m)
        BY <2>0, <4>1 DEF Read, Sleep, Goto, RestOK
      <4>2. CASE ReadTake(q) \/ ReadSleep(q)
        BY <2>0, <4>2 DEF ReadTake, ReadSleep, Return, Goto, RestOK
      <4>3. CASE SleepSleep(q) \/ Kill(q) \/ Exit(q)
        BY <2>0, <4>3 DEF SleepSleep, Kill, Exit, Return, Goto, RestOK
      <4> QED
        BY <3>3, <4>1, <4>2, <4>3
    <3>4. ASSUME NEW q \in Procs, SleepCheck(q) PROVE q = p
      BY <2>0, <3>4 DEF SleepCheck, Return, Goto, RestOK
    <3> QED
      BY <3>1, <3>2, <3>3, <3>4 DEF Next
  <2>2. Due(p)
    BY <2>0, <2>1 DEF SleepCheck, Goto, RestOK
  <2>3. Minus(ticks, ticks0[p]) = elapsed[p]
    BY <2>0, Zenon DEF SleepInv, Awake
  <2> QED
    BY <2>2, <2>3 DEF Due
<1> QED
  BY <1>1, IntInvariant, PTL DEF Spec, SleepsEnough

(* Neither the editing nor the wrap-around of the indices reaches what a   *)
(* reader may have: the ring buffer of the console is a line queue.        *)
THEOREM ConsoleIsLineQueue == Spec => IsLineQueue
<1>1. Init => Queue!Init
  <2> SUFFICES ASSUME Init PROVE Queue!Init
    OBVIOUS
  <2>1. TypeOK /\ r = 0 /\ w = 0 /\ e = 0
    BY IntInitInv DEF IntInv, Init
  <2>2. InTurn(0, 0, 0)
    BY <2>1, TypeParts
  <2>3. Minus(0, 0) = 0
    BY <2>2, TurnParts
  <2>4. Lines = <<>> /\ Edited = <<>>
    BY <2>1, <2>3 DEF Lines, Edited
  <2> QED
    BY <2>4 DEF Queue!Init
<1>2. IntInv /\ [Next]_vars => [Queue!Next]_<<Lines, Edited>>
  <2> SUFFICES ASSUME IntInv, [Next]_vars PROVE [Queue!Next]_<<Lines, Edited>>
    OBVIOUS
  <2>0. TypeOK /\ EditInv
    BY DEF IntInv
  <2>1. ASSUME UNCHANGED input PROVE UNCHANGED <<Lines, Edited>>
    BY <2>1 DEF input, Lines, Edited
  <2>2. ASSUME NEW c \in Chars, KbdChar(c) PROVE Queue!Type(c)
    <3>1. /\ Len(Lines) + Len(Edited) < INPUT_BUF
          /\ WakesReaders(c) <=> (c \in {NL, EOT} \/ Len(Lines) + Len(Edited) + 1 = INPUT_BUF)
          /\ WakesReaders(c) => Lines' = Lines \o Append(Edited, c) /\ Edited' = <<>>
          /\ ~WakesReaders(c) => Lines' = Lines /\ Edited' = Append(Edited, c)
      BY <2>0, <2>2, CharEffect
    <3> QED
      BY <3>1 DEF Queue!Type, Queue!Completes
  <2>3. CASE KbdBackspace
    BY <2>0, <2>3, EraseEffect DEF Queue!Next, Queue!Erase
  <2>4. CASE KbdKillLine
    BY <2>0, <2>4, KillEffect DEF Queue!Next, Queue!KillLine
  <2>5. ASSUME NEW p \in Procs, ReadTake(p) PROVE [Queue!Next]_<<Lines, Edited>>
    <3>1. /\ Edited' = Edited /\ (Consumed(p) = 0 => r' = r)
          /\ Lines' = SubSeq(Lines, Consumed(p) + 1, Len(Lines))
      BY <2>0, <2>5, TakeEffect
    <3>2. Consumed(p) \in 0 .. Len(Lines) /\ Len(Lines) \in Nat
      BY <2>0, ScanFacts, LinesFacts
    <3>3. CASE Consumed(p) = 0
      <4>1. UNCHANGED input
        BY <2>5, <3>1, <3>3, Zenon DEF ReadTake, input
      <4> QED
        BY <2>1, <4>1
    <3>4. CASE Consumed(p) # 0
      <4>1. PICK k \in 1 .. Len(Lines) : k = Consumed(p)
        BY <3>2, <3>4
      <4>2. Queue!Take(k)
        <5>1. \A i \in 1 .. k - 1 : Lines[i] \notin {NL, EOT}
          BY <2>0, <4>1, ScanFacts, Zenon
        <5> QED
          BY <3>1, <4>1, <5>1, Zenon DEF Queue!Take
      <4> QED
        BY <4>2 DEF Queue!Next
    <3> QED
      BY <3>3, <3>4
  <2>6. ASSUME \/ Timer \/ UNCHANGED vars
               \/ \E p \in Procs :
                     \/ \E m \in 0 .. MaxCount : Read(p, m)
                     \/ \E m \in 0 .. MaxSleep : Sleep(p, m)
                     \/ ReadSleep(p) \/ SleepCheck(p) \/ SleepSleep(p) \/ Kill(p) \/ Exit(p)
        PROVE  UNCHANGED input
    BY <2>6, Zenon DEF Timer, Read, Sleep, ReadSleep, SleepCheck, SleepSleep, Kill, Exit, vars, input
  <2> QED
    BY <2>1, <2>2, <2>3, <2>4, <2>5, <2>6 DEF Next, Queue!Next
<1> QED
  BY <1>1, <1>2, IntInvariant, PTL DEF Spec, IsLineQueue, Queue!Spec

-----------------------------------------------------------------------------
(***************************************************************************)
(* The transmit ring, for any even number of descriptors and any number of *)
(* buffers and frames.                                                     *)
(***************************************************************************)
(* How many descriptors wait, and which the k-th of them is. *)
Backlog == (tdt - tdh) % SEND_DESC_NUM
WaitingAt(k) == (tdh + k - 1) % SEND_DESC_NUM

(* Until a frame is put where one is still waiting, the k-th call that is  *)
(* not served yet has its frame in the buffer of the k-th descriptor.      *)
NicInv ==
    /\ tdh \in Ring /\ tdt \in Ring
    /\ DOMAIN frame = {buf_addr(i) : i \in Ring}
    /\ scan \in Nat
    /\ spoiled \in BOOLEAN
    /\ ~spoiled =>
         /\ queued \in Seq(Nat)
         /\ Len(queued) = Backlog
         /\ \A k \in 1 .. Len(queued) : queued[k] = frame[buf_addr(WaitingAt(k))]

(* The remainders of the ring's indices. *)
LEMMA RingTurn ==
    ASSUME NEW x \in Int
    PROVE  /\ SEND_DESC_NUM \in Nat \ {0}
           /\ x \in 0 .. SEND_DESC_NUM - 1 => x % SEND_DESC_NUM = x
           /\ x \in SEND_DESC_NUM .. 2 * SEND_DESC_NUM - 1 =>
                x % SEND_DESC_NUM = x - SEND_DESC_NUM
           /\ x \in -SEND_DESC_NUM .. -1 => x % SEND_DESC_NUM = x + SEND_DESC_NUM
  BY NicAssumption, OneTurn, Zenon

LEMMA PlacesOf ==
    ASSUME NEW h \in Ring, NEW t \in Ring
    PROVE  /\ (t - h) % SEND_DESC_NUM = IF h <= t THEN t - h ELSE t - h + SEND_DESC_NUM
           /\ \A k \in 1 .. SEND_DESC_NUM :
                (h + k - 1) % SEND_DESC_NUM = IF h + k - 1 < SEND_DESC_NUM THEN h + k - 1
                                              ELSE h + k - 1 - SEND_DESC_NUM
<1>1. SEND_DESC_NUM \in Nat \ {0}
  BY RingTurn, 0 \in Int
<1>2. (t - h) % SEND_DESC_NUM = IF h <= t THEN t - h ELSE t - h + SEND_DESC_NUM
  BY <1>1, RingTurn, t - h \in Int DEF Ring
<1>3. ASSUME NEW k \in 1 .. SEND_DESC_NUM
      PROVE  (h + k - 1) % SEND_DESC_NUM = IF h + k - 1 < SEND_DESC_NUM THEN h + k - 1
                                           ELSE h + k - 1 - SEND_DESC_NUM
  BY <1>1, RingTurn, h + k - 1 \in Int DEF Ring
<1> QED
  BY <1>2, <1>3

LEMMA BacklogFacts ==
    ASSUME tdh \in Ring, tdt \in Ring
    PROVE  /\ Backlog = IF tdh <= tdt THEN tdt - tdh ELSE tdt - tdh + SEND_DESC_NUM
           /\ Backlog \in 0 .. SEND_DESC_NUM - 1
           /\ \A k \in 1 .. SEND_DESC_NUM :
                /\ WaitingAt(k) = IF tdh + k - 1 < SEND_DESC_NUM THEN tdh + k - 1
                                  ELSE tdh + k - 1 - SEND_DESC_NUM
                /\ WaitingAt(k) \in Ring
<1>1. SEND_DESC_NUM \in Nat \ {0}
  BY RingTurn, 0 \in Int
<1>2. Backlog = IF tdh <= tdt THEN tdt - tdh ELSE tdt - tdh + SEND_DESC_NUM
  BY PlacesOf DEF Backlog
<1>3. \A k \in 1 .. SEND_DESC_NUM :
         WaitingAt(k) = IF tdh + k - 1 < SEND_DESC_NUM THEN tdh + k - 1
                        ELSE tdh + k - 1 - SEND_DESC_NUM
  BY PlacesOf DEF WaitingAt
<1> QED
  BY <1>1, <1>2, <1>3 DEF Ring

LEMMA NextPlace ==
    ASSUME NEW x \in Ring
    PROVE  /\ (x + 1) % SEND_DESC_NUM = IF x = SEND_DESC_NUM - 1 THEN 0 ELSE x + 1
           /\ (x + 1) % SEND_DESC_NUM \in Ring
           /\ x % SEND_DESC_NUM = x
<1>1. SEND_DESC_NUM \in Nat \ {0} /\ x \in 0 .. SEND_DESC_NUM - 1
  BY RingTurn, 0 \in Int DEF Ring
<1>2. x + 1 \in Int /\ x \in Int
  BY <1>1
<1>3. /\ (x + 1) % SEND_DESC_NUM = IF x = SEND_DESC_NUM - 1 THEN 0 ELSE x + 1
      /\ x % SEND_DESC_NUM = x
  BY <1>1, <1>2, RingTurn
<1> QED
  BY <1>1, <1>3 DEF Ring

LEMMA NicInitInv == NicInit => NicInv
<1> SUFFICES ASSUME NicInit PROVE NicInv
  OBVIOUS
<1>1. tdh \in Ring /\ tdt \in Ring
  BY NicAssumption DEF NicInit, Ring
<1>2. Backlog = 0
  BY <1>1, BacklogFacts, NicAssumption DEF NicInit
<1>3. DOMAIN frame = {buf_addr(i) : i \in Ring}
  BY DEF NicInit
<1>4. queued = <<>> /\ queued \in Seq(Nat) /\ Len(queued) = 0
  BY DEF NicInit
<1>5. \A k \in 1 .. Len(queued) : queued[k] = frame[buf_addr(WaitingAt(k))]
  BY <1>4
<1>6. scan \in Nat /\ spoiled \in BOOLEAN
  BY Zenon DEF NicInit
<1> QED
  BY <1>1, <1>2, <1>3, <1>4, <1>5, <1>6 DEF NicInv

(* i8254_send() appends its frame to those that wait, and spoils none. *)
LEMMA SendKeeps ==
    ASSUME NicInv, NEW f \in Nat, i8254_send(f), tdh' = tdh, scan' \in Nat
    PROVE  NicInv'
<1>1. tdh \in Ring /\ tdt \in Ring /\ tdt % SEND_DESC_NUM = tdt
  BY NextPlace, Zenon DEF NicInv
<1>2. tdh' \in Ring /\ tdt' \in Ring /\ tdt' = IF tdt = SEND_DESC_NUM - 1 THEN 0 ELSE tdt + 1
  BY <1>1, NextPlace DEF i8254_send
<1>3. DOMAIN frame' = {buf_addr(i) : i \in Ring}
  BY DEF i8254_send, NicInv
<1>4. spoiled' \in BOOLEAN
  BY DEF i8254_send, NicInv
<1>5. ASSUME ~spoiled'
      PROVE  /\ queued' \in Seq(Nat)
             /\ Len(queued') = Backlog'
             /\ \A k \in 1 .. Len(queued') : queued'[k] = (frame[buf_addr(WaitingAt(k))])'
  <2>1. ~spoiled /\ Len(queued) # SEND_DESC_NUM - 1 /\ \A j \in Waiting : buf_addr(j) # buf_addr(TxIndex)
    BY <1>5 DEF i8254_send, NicInv
  <2>2. /\ queued \in Seq(Nat) /\ Len(queued) = Backlog
        /\ \A k \in 1 .. Len(queued) : queued[k] = frame[buf_addr(WaitingAt(k))]
    BY <2>1, Zenon DEF NicInv
  <2>3. /\ queued' \in Seq(Nat) /\ Len(queued') = Len(queued) + 1
        /\ \A k \in 1 .. Len(queued) : queued'[k] = queued[k]
        /\ queued'[Len(queued) + 1] = f
    BY <2>2 DEF i8254_send
  <2>4. SEND_DESC_NUM \in Nat \ {0} /\ tdh \in 0 .. SEND_DESC_NUM - 1 /\ tdt \in 0 .. SEND_DESC_NUM - 1
    BY <1>1, NicAssumption DEF Ring
  <2>5. /\ Backlog = IF tdh <= tdt THEN tdt - tdh ELSE tdt - tdh + SEND_DESC_NUM
        /\ Backlog' = IF tdh <= tdt' THEN tdt' - tdh ELSE tdt' - tdh + SEND_DESC_NUM
        /\ Backlog \in 0 .. SEND_DESC_NUM - 2
    <3>1. /\ Backlog = IF tdh <= tdt THEN tdt - tdh ELSE tdt - tdh + SEND_DESC_NUM
          /\ Backlog \in 0 .. SEND_DESC_NUM - 1
      BY <1>1, BacklogFacts
    <3>2. Backlog' = IF tdh' <= tdt' THEN tdt' - tdh' ELSE tdt' - tdh' + SEND_DESC_NUM
      BY <1>2, PlacesOf DEF Backlog
    <3> QED
      BY <2>1, <2>2, <2>4, <3>1, <3>2
  <2>6. Backlog' = Backlog + 1
    BY <1>2, <2>4, <2>5
  <2>7. \A k : WaitingAt(k)' = WaitingAt(k)
    BY DEF WaitingAt
  <2>8. ASSUME NEW k \in 1 .. Len(queued)
        PROVE  frame'[buf_addr(WaitingAt(k))] = frame[buf_addr(WaitingAt(k))]
    <3>1. WaitingAt(k) \in Waiting
      <4>1. PICK j \in 0 .. Backlog - 1 : j = k - 1 /\ tdh + j = tdh + k - 1
        BY <2>2, <2>4, <2>5
      <4> QED
        BY <4>1 DEF Waiting, WaitingAt, Backlog
    <3>2. buf_addr(WaitingAt(k)) # buf_addr(TxIndex)
      BY <2>1, <3>1
    <3>3. WaitingAt(k) \in Ring
      <4>1. k \in 1 .. Backlog
        BY <2>2, <2>4, <2>5
      <4>2. Backlog \in 0 .. SEND_DESC_NUM - 1 /\ SEND_DESC_NUM \in Nat
        BY <1>1, BacklogFacts, RingTurn
      <4>3. k \in 1 .. SEND_DESC_NUM
        BY <4>1, <4>2
      <4> QED
        BY <1>1, <4>3, BacklogFacts
    <3> QED
      BY <3>2, <3>3 DEF i8254_send, NicInv
  <2>9. frame'[buf_addr(WaitingAt(Len(queued) + 1))] = f
    <3>0. PICK k \in Nat : k = Backlog + 1 /\ k = Len(queued) + 1 /\ k <= SEND_DESC_NUM
      <4>1. PICK l \in 0 .. SEND_DESC_NUM - 2 : l = Backlog /\ l = Len(queued)
        BY <2>2, <2>5, Zenon
      <4>2. l + 1 \in Nat /\ l + 1 <= SEND_DESC_NUM
        BY <2>4
      <4> QED
        BY <4>1, <4>2, Zenon
    <3>1. k \in 1 .. SEND_DESC_NUM
      BY <2>4, <2>5, <3>0
    <3>4. WaitingAt(k) = IF tdh + k - 1 < SEND_DESC_NUM THEN tdh + k - 1
                         ELSE tdh + k - 1 - SEND_DESC_NUM
      BY <1>1, <3>1, BacklogFacts
    <3>2. WaitingAt(Len(queued) + 1) = tdt
      BY <2>4, <2>5, <3>0, <3>4
    <3>3. TxIndex = tdt
      BY <1>1 DEF TxIndex
    <3> QED
      BY <1>1, <3>2, <3>3 DEF i8254_send, NicInv
  <2>10. ASSUME NEW k \in 1 .. Len(queued')
         PROVE  queued'[k] = (frame[buf_addr(WaitingAt(k))])'
    <3>1. k \in 1 .. Len(queued) \/ k = Len(queued) + 1
      BY <2>2, <2>3, <2>5
    <3>2. CASE k \in 1 .. Len(queued)
      BY <2>2, <2>3, <2>7, <2>8, <3>2, Zenon DEF buf_addr
    <3>3. CASE k = Len(queued) + 1
      BY <2>3, <2>7, <2>9, <3>3 DEF buf_addr
    <3> QED
      BY <3>1, <3>2, <3>3
  <2> QED
    BY <2>2, <2>3, <2>6, <2>10
<1> QED
  BY <1>2, <1>3, <1>4, <1>5 DEF NicInv

(* The card takes the first frame that waits. *)
LEMMA TransmitKeeps ==
    ASSUME NicInv, Transmit
    PROVE  NicInv' /\ (~spoiled => onwire' = Head(queued))
<1>1. tdh \in Ring /\ tdt \in Ring /\ tdh # tdt
  BY DEF NicInv, Transmit
<1>2. tdh' \in Ring /\ tdt' = tdt /\ tdh' = IF tdh = SEND_DESC_NUM - 1 THEN 0 ELSE tdh + 1
  BY <1>1, NextPlace DEF Transmit
<1>3. ASSUME ~spoiled
      PROVE  /\ queued' \in Seq(Nat)
             /\ Len(queued') = Backlog'
             /\ \A k \in 1 .. Len(queued') : queued'[k] = (frame[buf_addr(WaitingAt(k))])'
             /\ onwire' = Head(queued)
  <2>1. /\ queued \in Seq(Nat) /\ Len(queued) = Backlog
        /\ \A k \in 1 .. Len(queued) : queued[k] = frame[buf_addr(WaitingAt(k))]
    BY <1>3 DEF NicInv
  <2>2. SEND_DESC_NUM \in Nat \ {0} /\ tdh \in 0 .. SEND_DESC_NUM - 1 /\ tdt \in 0 .. SEND_DESC_NUM - 1
    BY <1>1, NicAssumption DEF Ring
  <2>3. /\ Backlog = IF tdh <= tdt THEN tdt - tdh ELSE tdt - tdh + SEND_DESC_NUM
        /\ Backlog' = IF tdh' <= tdt THEN tdt - tdh' ELSE tdt - tdh' + SEND_DESC_NUM
        /\ Backlog \in 0 .. SEND_DESC_NUM - 1
    <3>1. /\ Backlog = IF tdh <= tdt THEN tdt - tdh ELSE tdt - tdh + SEND_DESC_NUM
          /\ Backlog \in 0 .. SEND_DESC_NUM - 1
      BY <1>1, BacklogFacts
    <3>2. Backlog' = IF tdh' <= tdt' THEN tdt' - tdh' ELSE tdt' - tdh' + SEND_DESC_NUM
      BY <1>1, <1>2, PlacesOf DEF Backlog
    <3> QED
      BY <1>2, <3>1, <3>2
  <2>4. Backlog' = Backlog - 1 /\ Backlog > 0
    BY <1>1, <1>2, <2>2, <2>3
  <2>5. queued # <<>> /\ Head(queued) = queued[1]
    BY <2>1, <2>3, <2>4
  <2>6. /\ queued' \in Seq(Nat) /\ Len(queued') = Backlog - 1
        /\ \A k \in 1 .. Backlog - 1 : queued'[k] = queued[k + 1]
    BY <2>1, <2>3, <2>5 DEF Transmit
  <2>7. ASSUME NEW k \in 1 .. Backlog - 1
        PROVE  queued'[k] = (frame[buf_addr(WaitingAt(k))])'
    <3>1. k + 1 \in 1 .. Backlog /\ k \in 1 .. SEND_DESC_NUM /\ k + 1 \in 1 .. SEND_DESC_NUM
      BY <2>2, <2>3
    <3>2. queued'[k] = frame[buf_addr(WaitingAt(k + 1))]
      BY <2>1, <2>6, <3>1
    <3>3. WaitingAt(k + 1) = IF tdh + (k + 1) - 1 < SEND_DESC_NUM THEN tdh + (k + 1) - 1
                             ELSE tdh + (k + 1) - 1 - SEND_DESC_NUM
      BY <1>1, <3>1, BacklogFacts
    <3>4. WaitingAt(k)' = IF tdh' + k - 1 < SEND_DESC_NUM THEN tdh' + k - 1
                          ELSE tdh' + k - 1 - SEND_DESC_NUM
      BY <1>2, <3>1, PlacesOf DEF WaitingAt
    <3>5. WaitingAt(k)' = WaitingAt(k + 1)
      BY <1>2, <2>2, <2>3, <3>3, <3>4
    <3> QED
      BY <3>2, <3>5, Zenon DEF Transmit, buf_addr
  <2>8. WaitingAt(1) = tdh
    <3>1. WaitingAt(1) = IF tdh + 1 - 1 < SEND_DESC_NUM THEN tdh + 1 - 1
                         ELSE tdh + 1 - 1 - SEND_DESC_NUM
      BY <1>1, <2>2, BacklogFacts
    <3> QED
      BY <2>2, <3>1
  <2>9. onwire' = Head(queued)
    BY <2>1, <2>3, <2>4, <2>5, <2>8 DEF Transmit
  <2> QED
    BY <2>4, <2>6, <2>7, <2>9
<1> QED
  BY <1>1, <1>2, <1>3 DEF NicInv, Transmit

LEMMA NicStepInv == NicInv /\ [NicNext]_nicVars => NicInv'
<1> SUFFICES ASSUME NicInv, [NicNext]_nicVars PROVE NicInv'
  OBVIOUS
<1>1. CASE arp_scan
  <2>1. scan \in Nat /\ i8254_send(scan) /\ tdh' = tdh /\ scan' \in Nat
    BY <1>1 DEF arp_scan, NicInv
  <2> QED
    BY <2>1, SendKeeps
<1>2. CASE Transmit
  BY <1>2, TransmitKeeps
<1>3. CASE i8254_init_send
  <2>1. tdh' \in Ring /\ tdt' \in Ring /\ tdh' = 0 /\ tdt' = 0
    BY <1>3, NicAssumption DEF i8254_init_send, Ring
  <2>2. Backlog' = 0
    BY <2>1, PlacesOf, NicAssumption DEF Backlog
  <2>3. DOMAIN frame' = DOMAIN frame
    BY <1>3 DEF i8254_init_send
  <2>4. queued' = <<>> /\ queued' \in Seq(Nat) /\ Len(queued') = 0
    BY <1>3 DEF i8254_init_send
  <2>5. \A k \in 1 .. Len(queued') : queued'[k] = (frame[buf_addr(WaitingAt(k))])'
    BY <2>4
  <2>6. scan' \in Nat /\ spoiled' \in BOOLEAN
    BY <1>3, Zenon DEF i8254_init_send
  <2> QED
    BY <2>1, <2>2, <2>3, <2>4, <2>5, <2>6 DEF NicInv
<1>4. CASE UNCHANGED nicVars
  BY <1>4, Zenon DEF nicVars, NicInv, Backlog, WaitingAt, buf_addr
<1> QED
  BY <1>1, <1>2, <1>3, <1>4 DEF NicNext

(* The card sends the frames of i8254_send() in the order of the calls and  *)
(* unchanged until a call finds the ring all but full or its buffer still   *)
(* waiting, for any even number of descriptors and any number of buffers.   *)
THEOREM CardKeepsOrder == NicSpec => FramesInOrder
<1>1. NicSpec => []NicInv
  BY NicInitInv, NicStepInv, PTL DEF NicSpec
<1>2. NicInv /\ [NicNext]_nicVars => [Transmit /\ ~spoiled => onwire' = Head(queued)]_nicVars
  BY TransmitKeeps
<1> QED
  BY <1>1, <1>2, PTL DEF NicSpec, FramesInOrder
=============================================================================
