-------------------------- MODULE ContiguousProofs --------------------------
(***************************************************************************)
(* Proofs about the contiguous containers, for every capacity, growth,      *)
(* length and order.                                                        *)
(***************************************************************************)
EXTENDS Contiguous, ListLemmas

(* The vector object.                                                       *)
Made(a, c, m) == [array |-> a, capacity |-> c, nmemb |-> m]

(* An array of c elements.                                                  *)
IsArray(a, c) ==
  IF c = 0 THEN a = NULL ELSE a \in [0 .. c - 1 -> Values \union {JUNK}]

(* v is a vector whose elements are s.                                      *)
Reads(a, s) == \A k \in 0 .. Len(s) - 1 : a[k] = s[k + 1]
Holds(v, s) ==
  /\ v = Made(v.array, v.capacity, v.nmemb)
  /\ v.capacity \in Nat /\ v.nmemb = Len(s) /\ Len(s) <= v.capacity
  /\ IsArray(v.array, v.capacity)
  /\ Reads(v.array, s)

LEMMA HoldsMade ==
  ASSUME NEW a, NEW c \in Nat, NEW s \in Seq(Values), Len(s) <= c,
         IsArray(a, c), Reads(a, s)
  PROVE  Holds(Made(a, c, Len(s)), s)
<1>1. Made(a, c, Len(s)).array = a /\ Made(a, c, Len(s)).capacity = c /\ Made(a, c, Len(s)).nmemb = Len(s)
  BY DEF Made
<1>2. QED BY <1>1 DEF Holds

(* realloc keeps the elements there is room for.                            *)
LEMMA ReallocatedHolds ==
  ASSUME NEW v, NEW s \in Seq(Values), Holds(v, s), NEW m \in Nat, Len(s) <= m
  PROVE  Holds(Reallocated(v, m), s) /\ Reallocated(v, m).capacity = m
<1> DEFINE a == v.array
           c == v.capacity
           b == IF m = 0 THEN NULL
                ELSE [k \in 0 .. m - 1 |-> IF k < c THEN a[k] ELSE JUNK]
<1>1. v = Made(a, c, Len(s)) /\ c \in Nat /\ Len(s) <= c /\ IsArray(a, c) /\ Reads(a, s) /\ Len(s) \in Nat
  BY DEF Holds
<1>2. Reallocated(v, m) = [[v EXCEPT !.capacity = m] EXCEPT !.array = b]
  BY DEF Reallocated, Element
<1>3. IsArray(b, m)
  <2>1. CASE m = 0
    BY <2>1 DEF IsArray
  <2>2. CASE m # 0
    <3>1. \A k \in 0 .. m - 1 : (IF k < c THEN a[k] ELSE JUNK) \in Values \union {JUNK}
      BY <1>1 DEF IsArray
    <3>2. QED BY <2>2, <3>1 DEF IsArray
  <2>3. QED BY <2>1, <2>2
<1>4. Reads(b, s)
  BY <1>1 DEF Reads
<1> HIDE DEF a, b, c
<1>5. Reallocated(v, m) = Made(b, m, Len(s))
  BY <1>1, <1>2 DEF Made
<1>6. Holds(Made(b, m, Len(s)), s)
  BY <1>3, <1>4, HoldsMade
<1>7. QED BY <1>5, <1>6 DEF Made

(* Making room for one more element.                                        *)
LEMMA RoomHolds ==
  ASSUME NEW v, NEW s \in Seq(Values), Holds(v, s)
  PROVE  /\ Holds(Room(v), s) /\ Len(s) < Room(v).capacity
         /\ ~IsFull(v) => Room(v) = v
<1>1. v.capacity \in Nat /\ v.nmemb = Len(s) /\ Len(s) \in Nat /\ Len(s) <= v.capacity
  BY DEF Holds
<1>2. CASE IsFull(v)
  <2> DEFINE m == Resized(v.capacity)
  <2>1. v.capacity = Len(s)
    BY <1>1, <1>2 DEF IsFull
  <2>2. m \in Nat /\ Len(s) < m
    <3>1. CASE v.capacity = 0
      BY <3>1, <2>1, GrowthAssumption DEF Resized
    <3>2. CASE v.capacity > 0
      <4>1. \A c \in Nat, g \in Nat : c > 0 /\ g > 1 => c * g \in Nat /\ c < c * g
        <5>1. \A c \in Nat, h \in Nat : c > 0 => c * h \in Nat /\ c * (h + 2) = c * h + c + c
          OBVIOUS
        <5>2. ASSUME NEW c \in Nat, NEW g \in Nat, c > 0, g > 1
              PROVE  c * g \in Nat /\ c < c * g
          <6>1. g - 2 \in Nat /\ (g - 2) + 2 = g
            BY <5>2
          <6>2. c * (g - 2) \in Nat /\ c * g = c * (g - 2) + c + c
            BY <5>1, <5>2, <6>1
          <6> DEFINE e == c * (g - 2)
                     f == c * g
          <6> HIDE DEF e, f
          <6>3. e \in Nat /\ f = e + c + c
            BY <6>2 DEF e, f
          <6>4. f \in Nat /\ c < f
            BY <6>3, <5>2
          <6>5. QED BY <6>4 DEF f
        <5>3. QED BY <5>2
      <4>2. SEQUENTIAL_GROWTH \in Nat /\ SEQUENTIAL_GROWTH > 1
        BY GrowthAssumption
      <4>3. v.capacity * SEQUENTIAL_GROWTH \in Nat /\ v.capacity < v.capacity * SEQUENTIAL_GROWTH
        BY <1>1, <3>2, <4>1, <4>2
      <4>4. m = v.capacity * SEQUENTIAL_GROWTH
        BY <3>2 DEF Resized
      <4>5. QED BY <4>3, <4>4, <2>1
    <3>3. QED BY <1>1, <3>1, <3>2
  <2> HIDE DEF m
  <2>3. Holds(Reallocated(v, m), s) /\ Reallocated(v, m).capacity = m
    BY <1>1, <2>2, ReallocatedHolds
  <2>4. Room(v) = Reallocated(v, m)
    BY <1>2 DEF Room, m
  <2>5. QED BY <1>2, <2>2, <2>3, <2>4
<1>3. CASE ~IsFull(v)
  <2>1. Room(v) = v /\ Len(s) < v.capacity
    BY <1>1, <1>3 DEF Room, IsFull
  <2>2. QED BY <2>1
<1>4. QED BY <1>2, <1>3

(* What the elements of an array move to.                                   *)
Up(a, c, m, i) == [k \in 0 .. c - 1 |-> IF k > i /\ k <= m THEN a[k - 1] ELSE a[k]]
LEMMA MovedMade ==
  ASSUME NEW v, NEW s \in Seq(Values), Holds(v, s), v.capacity > 0, NEW i
  PROVE  MovedUp(v, i) = Made(Up(v.array, v.capacity, Len(s), i), v.capacity, Len(s))
<1> DEFINE a == v.array
           c == v.capacity
<1>1. v = Made(a, c, Len(s)) /\ c \in Nat /\ IsArray(a, c)
  BY DEF Holds
<1>2. DOMAIN a = 0 .. c - 1 /\ v.nmemb = Len(s)
  BY <1>1 DEF IsArray, Made
<1>3. MovedUp(v, i) = [v EXCEPT !.array = Up(a, c, Len(s), i)]
  BY <1>2 DEF MovedUp, Up
<1> HIDE DEF a, c
<1>4. QED BY <1>1, <1>3 DEF Made, a, c

(* Inserting a value that is found at its address.                          *)
LEMMA InsertedHolds ==
  ASSUME NEW v, NEW s \in Seq(Values), Holds(v, s), NEW i \in 0 .. Len(s), NEW source,
         NEW x \in Values, ValueAt(v, MovedUp(Room(v), i), source) = x
  PROVE  /\ Holds(Inserted(v, i, source), InsertAt(s, i + 1, x))
         /\ ~IsFull(v) => Inserted(v, i, source).capacity = v.capacity
<1> DEFINE r == Room(v)
           c == r.capacity
           n0 == Len(s)
           a == r.array
           u == Up(a, c, n0, i)
           b == [u EXCEPT ![i] = x]
           t == InsertAt(s, i + 1, x)
<1>1. Holds(r, s) /\ n0 < c /\ n0 \in Nat /\ c \in Nat /\ IsArray(a, c) /\ Reads(a, s)
  BY RoomHolds DEF Holds
<1>2. MovedUp(r, i) = Made(u, c, n0)
  BY <1>1, MovedMade
<1>3. /\ t \in Seq(Values) /\ Len(t) = n0 + 1
      /\ \A k \in 1 .. n0 + 1 : t[k] = IF k < i + 1 THEN s[k] ELSE IF k = i + 1 THEN x ELSE s[k - 1]
  <2>1. i + 1 \in 1 .. Len(s) + 1
    BY <1>1
  <2>2. IsInserted(t, s, i + 1, x) /\ t \in Seq(Values)
    BY <2>1, InsertInserts, Zenon
  <2> HIDE DEF t, r, c, a, u, b
  <2>3. QED BY <2>2 DEF IsInserted
<1>4. Inserted(v, i, source) = [[MovedUp(r, i) EXCEPT !.array[i] = x] EXCEPT !.nmemb = n0 + 1]
  <2>1. MovedUp(r, i).nmemb = n0
    BY <1>2 DEF Made
  <2>2. QED BY <2>1 DEF Inserted
<1> HIDE DEF r, c, a, u, n0, t
<1>5. [Made(u, c, n0) EXCEPT !.array[i] = x] = Made(b, c, n0)
  BY DEF Made
<1> HIDE DEF b
<1>6. Inserted(v, i, source) = Made(b, c, n0 + 1)
  BY <1>2, <1>4, <1>5 DEF Made
<1>7. i \in 0 .. n0 /\ n0 <= c - 1 /\ 0 <= c - 1
  BY <1>1 DEF n0
<1>8. a \in [0 .. c - 1 -> Values \union {JUNK}]
  BY <1>1 DEF IsArray
<1>9. u \in [0 .. c - 1 -> Values \union {JUNK}]
  <2>1. \A k \in 0 .. c - 1 : k > i /\ k <= n0 => k - 1 \in 0 .. c - 1
    BY <1>1, <1>7
  <2>2. \A k \in 0 .. c - 1 : (IF k > i /\ k <= n0 THEN a[k - 1] ELSE a[k]) \in Values \union {JUNK}
    BY <2>1, <1>8
  <2>3. QED BY <2>2 DEF Up, u
<1>10. \A k \in 0 .. c - 1 : b[k] = IF k = i THEN x ELSE u[k]
  BY <1>9 DEF b
<1>11. IsArray(b, c)
  <2>1. b \in [0 .. c - 1 -> Values \union {JUNK}]
    BY <1>9 DEF b
  <2>2. c # 0
    BY <1>1
  <2>3. QED BY <2>1, <2>2 DEF IsArray
<1>12. ASSUME NEW k \in 0 .. n0 PROVE b[k] = t[k + 1]
  <2>1. k \in 0 .. c - 1 /\ k \in Int /\ i \in Int
    BY <1>1, <1>7
  <2>2. CASE k < i
    <3>1. b[k] = a[k]
      BY <2>1, <2>2, <1>10 DEF u, Up
    <3>2. a[k] = s[k + 1]
      BY <2>1, <2>2, <1>7, <1>1 DEF Reads, n0
    <3>3. k + 1 \in 1 .. n0 + 1 /\ k + 1 < i + 1
      BY <2>1, <2>2, <1>1
    <3>4. t[k + 1] = s[k + 1]
      BY <3>3, <1>3
    <3>5. QED BY <3>1, <3>2, <3>4
  <2>3. CASE k = i
    <3>1. k + 1 \in 1 .. n0 + 1 /\ k + 1 = i + 1 /\ ~(k + 1 < i + 1)
      BY <2>1, <2>3, <1>1
    <3>2. QED BY <2>1, <2>3, <3>1, <1>3, <1>10
  <2>4. CASE k > i
    <3>1. b[k] = a[k - 1]
      BY <2>1, <2>4, <1>1, <1>10 DEF u, Up
    <3>2. k - 1 \in 0 .. n0 - 1 /\ (k - 1) + 1 = k
      BY <2>1, <2>4, <1>1, <1>7
    <3>3. a[k - 1] = s[k]
      BY <3>2, <1>1 DEF Reads, n0
    <3>4. k + 1 \in 1 .. n0 + 1 /\ ~(k + 1 < i + 1) /\ k + 1 # i + 1 /\ (k + 1) - 1 = k
      BY <2>1, <2>4, <1>1
    <3>5. t[k + 1] = s[k]
      BY <3>4, <1>3
    <3>6. QED BY <3>1, <3>3, <3>5
  <2>5. QED BY <2>1, <2>2, <2>3, <2>4
<1>13. Holds(Made(b, c, Len(t)), t)
  <2>1. Reads(b, t)
    BY <1>1, <1>3, <1>12 DEF Reads
  <2>2. Len(t) <= c
    BY <1>1, <1>3
  <2>3. QED BY <2>1, <2>2, <1>1, <1>3, <1>11, HoldsMade
<1>14. ~IsFull(v) => c = v.capacity
  BY RoomHolds DEF c, r
<1>15. QED BY <1>3, <1>6, <1>13, <1>14 DEF Made, t

(* What erase, pop, clear and set leave.                                    *)
LEMMA RemovedHolds ==
  ASSUME NEW v, NEW s \in Seq(Values), Holds(v, s), NEW i \in 0 .. Len(s) - 1
  PROVE  Holds(Removed(v, i), RemoveAt(s, i + 1))
<1> DEFINE a == v.array
           c == v.capacity
           m == Len(s)
           b == [k \in 0 .. c - 1 |-> IF k >= i /\ k < m - 1 THEN a[k + 1] ELSE a[k]]
           t == RemoveAt(s, i + 1)
<1>1. /\ m \in Nat /\ m # 0 /\ c \in Nat /\ m <= c /\ c # 0 /\ v.nmemb = m
      /\ IsArray(a, c) /\ Reads(a, s) /\ v = Made(a, c, m) /\ i \in 0 .. m - 1
  BY DEF Holds
<1>2. a \in [0 .. c - 1 -> Values \union {JUNK}]
  BY <1>1 DEF IsArray
<1>3. /\ t \in Seq(Values) /\ Len(t) = m - 1
      /\ \A k \in 1 .. m - 1 : t[k] = IF k < i + 1 THEN s[k] ELSE s[k + 1]
  <2>1. i + 1 \in 1 .. Len(s)
    BY <1>1
  <2>2. QED BY <2>1, RemoveShape
<1>4. Removed(v, i) = [[v EXCEPT !.array = b] EXCEPT !.nmemb = m - 1]
  <2>1. DOMAIN a = 0 .. c - 1
    BY <1>2
  <2>2. QED BY <1>1, <2>1 DEF Removed
<1>9. Removed(v, i) = Made(b, c, Len(t))
  <2> HIDE DEF a, b, c, m, t
  <2>1. [v EXCEPT !.array = b] = Made(b, c, m)
    BY <1>1 DEF Made
  <2>2. QED BY <1>3, <1>4, <2>1 DEF Made
<1> HIDE DEF t
<1>5. b \in [0 .. c - 1 -> Values \union {JUNK}]
  <2>1. \A k \in 0 .. c - 1 : k >= i /\ k < m - 1 => k + 1 \in 0 .. c - 1
    BY <1>1
  <2>2. \A k \in 0 .. c - 1 : (IF k >= i /\ k < m - 1 THEN a[k + 1] ELSE a[k]) \in Values \union {JUNK}
    BY <2>1, <1>2
  <2>3. QED BY <2>2
<1>6. ASSUME NEW k \in 0 .. m - 2 PROVE b[k] = t[k + 1]
  <2>1. k \in 0 .. c - 1 /\ k + 1 \in 1 .. m - 1 /\ k < m - 1
    BY <1>1
  <2>2. a[k] = s[k + 1]
    BY <1>1, <2>1 DEF Reads
  <2>3. a[k + 1] = s[(k + 1) + 1]
    BY <1>1, <2>1 DEF Reads
  <2>4. b[k] = IF k >= i THEN a[k + 1] ELSE a[k]
    BY <2>1
  <2>5. t[k + 1] = IF k + 1 < i + 1 THEN s[k + 1] ELSE s[(k + 1) + 1]
    BY <2>1, <1>3
  <2>6. k >= i <=> ~(k + 1 < i + 1)
    BY <1>1, <2>1
  <2>7. QED BY <2>2, <2>3, <2>4, <2>5, <2>6
<1>7. Reads(b, t)
  <2>1. Len(t) - 1 = m - 2
    BY <1>1, <1>3
  <2> HIDE DEF b
  <2>2. QED BY <2>1, <1>6 DEF Reads
<1>10. IsArray(b, c) /\ Len(t) <= c
  BY <1>1, <1>3, <1>5 DEF IsArray
<1> HIDE DEF b, c
<1>11. QED BY <1>1, <1>3, <1>7, <1>9, <1>10, HoldsMade DEF t

LEMMA PopBackHolds ==
  ASSUME NEW v, NEW s \in Seq(Values), Holds(v, s), Len(s) # 0
  PROVE  Holds([v EXCEPT !.nmemb = @ - 1], Front(s)) /\ Front(s) \in Seq(Values)
<1> DEFINE t == Front(s)
<1>1. /\ Len(s) \in Nat /\ v.capacity \in Nat /\ Len(s) <= v.capacity
      /\ v = Made(v.array, v.capacity, v.nmemb) /\ v.nmemb = Len(s)
      /\ IsArray(v.array, v.capacity) /\ Reads(v.array, s)
  BY DEF Holds
<1>2. t \in Seq(Values) /\ Len(t) = Len(s) - 1 /\ \A k \in 1 .. Len(s) - 1 : t[k] = s[k]
  <2> DEFINE w == Len(s) - 1
  <2>1. w \in Int /\ 1 <= w + 1 /\ w <= Len(s)
    BY <1>1
  <2>2. t = SubSeq(s, 1, w)
    BY DEF Front
  <2> HIDE DEF t, w
  <2>3. /\ t \in Seq(Values) /\ Len(t) = w - 1 + 1
        /\ \A k \in 1 .. w - 1 + 1 : t[k] = s[1 + k - 1]
    BY <2>1, <2>2, Slice
  <2>4. w - 1 + 1 = w /\ \A k \in Int : 1 + k - 1 = k
    BY <2>1
  <2>5. QED BY <2>3, <2>4 DEF w
<1> HIDE DEF t
<1>3. Reads(v.array, t)
  <2>1. \A k \in 0 .. Len(t) - 1 : k \in 0 .. Len(s) - 1 /\ k + 1 \in 1 .. Len(s) - 1
    BY <1>1, <1>2
  <2>2. QED BY <2>1, <1>1, <1>2 DEF Reads
<1>4. [v EXCEPT !.nmemb = @ - 1] = Made(v.array, v.capacity, Len(t))
  <2> DEFINE a == v.array
             c == v.capacity
             m == v.nmemb
  <2>1. v = Made(a, c, m) /\ v.nmemb = m /\ m - 1 = Len(t)
    BY <1>1, <1>2
  <2> HIDE DEF a, c, m
  <2>2. [v EXCEPT !.nmemb = v.nmemb - 1] = Made(a, c, m - 1)
    BY <2>1 DEF Made
  <2>3. QED BY <2>1, <2>2 DEF a, c
<1>5. Len(t) <= v.capacity
  BY <1>1, <1>2
<1>6. QED BY <1>1, <1>2, <1>3, <1>4, <1>5, HoldsMade DEF t

LEMMA ClearedHolds ==
  ASSUME NEW v, NEW s \in Seq(Values), Holds(v, s)
  PROVE  Holds([v EXCEPT !.nmemb = 0], << >>)
<1> DEFINE a == v.array
           c == v.capacity
           m == v.nmemb
<1>1. v = Made(a, c, m) /\ c \in Nat /\ IsArray(a, c)
  BY DEF Holds
<1>2. << >> \in Seq(Values) /\ Len(<< >>) = 0 /\ Reads(a, << >>)
  BY DEF Reads
<1> HIDE DEF a, c, m
<1>3. Holds(Made(a, c, Len(<< >>)), << >>)
  <2>1. Len(<< >>) <= c
    BY <1>1, <1>2
  <2>2. QED BY <2>1, <1>1, <1>2, HoldsMade
<1>4. [v EXCEPT !.nmemb = 0] = Made(a, c, 0)
  BY <1>1 DEF Made
<1>5. QED BY <1>2, <1>3, <1>4

LEMMA SetHolds ==
  ASSUME NEW v, NEW s \in Seq(Values), Holds(v, s), NEW i \in 0 .. Len(s) - 1, NEW x \in Values
  PROVE  Holds([v EXCEPT !.array[i] = x], [s EXCEPT ![i + 1] = x])
<1> DEFINE a == v.array
           c == v.capacity
           m == v.nmemb
           b == [a EXCEPT ![i] = x]
           t == [s EXCEPT ![i + 1] = x]
<1>1. /\ Len(s) \in Nat /\ c \in Nat /\ c # 0 /\ Len(s) <= c /\ m = Len(s)
      /\ v = Made(a, c, m) /\ IsArray(a, c) /\ Reads(a, s)
      /\ i \in 0 .. Len(s) - 1
  BY DEF Holds
<1>2. a \in [0 .. c - 1 -> Values \union {JUNK}] /\ i \in 0 .. c - 1
  BY <1>1 DEF IsArray
<1>3. i + 1 \in 1 .. Len(s) /\ t \in Seq(Values) /\ Len(t) = Len(s)
  BY <1>1, ExceptSeq
<1>4. \A k \in 1 .. Len(s) : t[k] = IF k = i + 1 THEN x ELSE s[k]
  BY <1>1
<1> HIDE DEF t
<1>5. b \in [0 .. c - 1 -> Values \union {JUNK}]
  BY <1>2
<1>6. \A k \in 0 .. c - 1 : b[k] = IF k = i THEN x ELSE a[k]
  BY <1>2
<1> HIDE DEF b
<1>7. Reads(b, t)
  <2>1. ASSUME NEW k \in 0 .. Len(t) - 1 PROVE b[k] = t[k + 1]
    <3>1. k \in 0 .. c - 1 /\ k + 1 \in 1 .. Len(s) /\ (k = i <=> k + 1 = i + 1) /\ k \in 0 .. Len(s) - 1
      BY <1>1, <1>3
    <3>2. a[k] = s[k + 1]
      BY <1>1, <3>1 DEF Reads
    <3>3. QED BY <3>1, <3>2, <1>4, <1>6
  <2>2. QED BY <2>1 DEF Reads
<1>8. [v EXCEPT !.array[i] = x] = Made(b, c, Len(t))
  <2>1. v = Made(a, c, m) /\ m = Len(t) /\ v.array = a
    BY <1>1, <1>3
  <2> HIDE DEF a, c, m
  <2>2. [v EXCEPT !.array[i] = x] = [v EXCEPT !.array = b]
    BY <2>1 DEF b
  <2>3. QED BY <2>1, <2>2 DEF Made
<1>9. IsArray(b, c)
  BY <1>1, <1>5 DEF IsArray
<1>10. QED BY <1>1, <1>3, <1>7, <1>8, <1>9, HoldsMade DEF t

-----------------------------------------------------------------------------
(* s after k elements of xs were inserted one after the other at i.         *)
Ranged(s, xs, i, k) ==
  [p \in 1 .. Len(s) + k |->
     IF p <= i THEN s[p] ELSE IF p <= i + k THEN xs[p - i] ELSE s[p - k]]

LEMMA RangedSteps ==
  ASSUME NEW s \in Seq(Values), NEW xs \in Seq(Values), NEW i \in 0 .. Len(s),
         NEW k \in 1 .. Len(xs)
  PROVE  /\ Ranged(s, xs, i, k - 1) \in Seq(Values)
         /\ Len(Ranged(s, xs, i, k - 1)) = Len(s) + (k - 1)
         /\ i + k - 1 \in 0 .. Len(Ranged(s, xs, i, k - 1))
         /\ Ranged(s, xs, i, k) = InsertAt(Ranged(s, xs, i, k - 1), (i + k - 1) + 1, xs[k])
<1> DEFINE m == Len(s)
           t == Ranged(s, xs, i, k - 1)
           u == Ranged(s, xs, i, k)
           w == InsertAt(t, (i + k - 1) + 1, xs[k])
<1>1. /\ m \in Nat /\ Len(xs) \in Nat /\ i \in 0 .. m /\ k \in 1 .. Len(xs)
      /\ \A p \in 1 .. m : s[p] \in Values
      /\ \A p \in 1 .. Len(xs) : xs[p] \in Values
  OBVIOUS
<1>2. ASSUME NEW h \in 0 .. Len(xs), NEW p \in 1 .. m + h
      PROVE  (IF p <= i THEN s[p] ELSE IF p <= i + h THEN xs[p - i] ELSE s[p - h]) \in Values
  <2>1. CASE p <= i
    <3>1. p \in 1 .. m
      BY <1>1, <2>1
    <3>2. QED BY <1>1, <2>1, <3>1
  <2>2. CASE ~(p <= i) /\ p <= i + h
    <3>1. p - i \in 1 .. Len(xs)
      BY <1>1, <2>2
    <3>2. QED BY <1>1, <2>2, <3>1
  <2>3. CASE ~(p <= i) /\ ~(p <= i + h)
    <3>1. p - h \in 1 .. m
      BY <1>1, <2>3
    <3>2. QED BY <1>1, <2>3, <3>1
  <2>4. QED BY <2>1, <2>2, <2>3
<1>3. ASSUME NEW h \in 0 .. Len(xs)
      PROVE  Ranged(s, xs, i, h) \in Seq(Values) /\ Len(Ranged(s, xs, i, h)) = m + h
  <2>1. m + h \in Nat
    BY <1>1
  <2>2. Ranged(s, xs, i, h) \in [1 .. m + h -> Values]
    BY <1>2 DEF Ranged
  <2>3. QED BY SMTT(30), <2>1, <2>2
<1>4. /\ t \in Seq(Values) /\ Len(t) = m + (k - 1)
      /\ u \in Seq(Values) /\ Len(u) = m + k
  <2>1. k - 1 \in 0 .. Len(xs) /\ k \in 0 .. Len(xs)
    BY <1>1
  <2>2. QED BY <2>1, <1>3
<1>5. i + k - 1 \in 0 .. m + (k - 1) /\ (i + k - 1) + 1 \in 1 .. (m + (k - 1)) + 1
  BY <1>1
<1>6. IsInserted(w, t, (i + k - 1) + 1, xs[k]) /\ w \in Seq(Values)
  <2>1. (i + k - 1) + 1 \in 1 .. Len(t) + 1 /\ xs[k] \in Values
    BY <1>1, <1>4, <1>5
  <2> HIDE DEF t
  <2>2. QED BY <1>4, <2>1, InsertInserts, Zenon
<1>7. ASSUME NEW p \in 1 .. m + k PROVE u[p] = w[p]
  <2> DEFINE j == (i + k - 1) + 1
  <2>1. j = i + k
    BY <1>1
  <2>2. w[p] = IF p < j THEN t[p] ELSE IF p = j THEN xs[k] ELSE t[p - 1]
    <3>1. p \in 1 .. Len(t) + 1
      BY <1>1, <1>4
    <3> HIDE DEF t, w
    <3>2. QED BY <1>6, <3>1 DEF IsInserted
  <2> HIDE DEF j, w
  <2>3. u[p] = IF p <= i THEN s[p] ELSE IF p <= i + k THEN xs[p - i] ELSE s[p - k]
    BY DEF Ranged
  <2>4. \A q \in 1 .. m + (k - 1) :
          t[q] = IF q <= i THEN s[q] ELSE IF q <= i + (k - 1) THEN xs[q - i] ELSE s[q - (k - 1)]
    BY DEF Ranged
  <2> HIDE DEF t, u
  <2>5. CASE p < i + k
    <3>1. p \in 1 .. m + (k - 1) /\ (p <= i + (k - 1)) /\ p <= i + k
      BY <1>1, <2>5
    <3>2. QED BY <2>1, <2>2, <2>3, <2>4, <2>5, <3>1
  <2>6. CASE p = i + k
    <3>1. p - i = k /\ ~(p <= i) /\ ~(p < i + k) /\ p <= i + k
      BY <1>1, <2>6
    <3>2. QED BY <2>1, <2>2, <2>3, <2>6, <3>1
  <2>7. CASE p > i + k
    <3>1. /\ p - 1 \in 1 .. m + (k - 1) /\ ~(p - 1 <= i) /\ ~(p - 1 <= i + (k - 1))
          /\ (p - 1) - (k - 1) = p - k /\ ~(p <= i) /\ ~(p <= i + k) /\ ~(p < i + k) /\ p # i + k
      BY <1>1, <2>7
    <3>2. t[p - 1] = s[(p - 1) - (k - 1)]
      BY <2>4, <3>1
    <3>3. QED BY <2>1, <2>2, <2>3, <3>1, <3>2
  <2>8. QED BY SMTT(30), <1>1, <2>5, <2>6, <2>7
<1>8. Len(w) = m + k
  BY <1>1, <1>4, <1>6 DEF IsInserted
<1>9. u = w
  <2> HIDE DEF u, w
  <2>1. QED BY <1>4, <1>6, <1>7, <1>8, SeqEqual
<1>10. QED BY <1>4, <1>5, <1>9

(* All of them.                                                             *)
LEMMA RangedEnds ==
  ASSUME NEW s \in Seq(Values), NEW xs \in Seq(Values), NEW i \in 0 .. Len(s)
  PROVE  /\ Ranged(s, xs, i, 0) = s
         /\ SubSeq(s, 1, i) \o xs \o SubSeq(s, i + 1, Len(s)) \in Seq(Values)
         /\ Ranged(s, xs, i, Len(xs)) = SubSeq(s, 1, i) \o xs \o SubSeq(s, i + 1, Len(s))
<1> DEFINE m == Len(s)
           l == Len(xs)
           f == SubSeq(s, 1, i)
           b == SubSeq(s, i + 1, m)
           u == Ranged(s, xs, i, l)
<1>1. m \in Nat /\ l \in Nat /\ i \in 0 .. m /\ s = [p \in 1 .. m |-> s[p]]
  OBVIOUS
<1>2. Ranged(s, xs, i, 0) = s
  <2>1. Ranged(s, xs, i, 0) = [p \in 1 .. m |-> s[p]]
    <3>1. \A p \in 1 .. m : ~(p <= i) => ~(p <= i + 0) /\ p - 0 = p
      BY <1>1
    <3>2. m + 0 = m
      BY <1>1
    <3>3. QED BY <3>1, <3>2 DEF Ranged
  <2>2. QED BY <1>1, <2>1
<1>3. f \in Seq(Values) /\ Len(f) = i /\ \A p \in 1 .. i : f[p] = s[p]
  <2>1. /\ f \in Seq(Values) /\ Len(f) = i - 1 + 1
        /\ \A p \in 1 .. i - 1 + 1 : f[p] = s[1 + p - 1]
    BY <1>1, Slice
  <2>2. i - 1 + 1 = i /\ \A p \in 1 .. i : 1 + p - 1 = p
    BY <1>1
  <2> HIDE DEF f
  <2>3. QED BY <2>1, <2>2
<1>4. b \in Seq(Values) /\ Len(b) = m - i /\ \A p \in 1 .. m - i : b[p] = s[i + p]
  <2>1. /\ b \in Seq(Values) /\ Len(b) = m - (i + 1) + 1
        /\ \A p \in 1 .. m - (i + 1) + 1 : b[p] = s[(i + 1) + p - 1]
    BY <1>1, Slice
  <2>2. m - (i + 1) + 1 = m - i /\ \A p \in 1 .. m - i : (i + 1) + p - 1 = i + p
    BY <1>1
  <2> HIDE DEF b
  <2>3. QED BY <2>1, <2>2
<1> HIDE DEF f, b
<1>5. /\ f \o xs \in Seq(Values) /\ Len(f \o xs) = i + l
      /\ \A p \in 1 .. i + l : (f \o xs)[p] = IF p <= i THEN f[p] ELSE xs[p - i]
  <2>1. /\ f \o xs \in Seq(Values) /\ Len(f \o xs) = Len(f) + Len(xs)
        /\ \A p \in 1 .. Len(f) + Len(xs) : (f \o xs)[p] = IF p <= Len(f) THEN f[p] ELSE xs[p - Len(f)]
    BY <1>3, ConcatProperties
  <2>2. QED BY <1>3, <2>1
<1> DEFINE g == f \o xs
           w == g \o b
<1> HIDE DEF g
<1>6. /\ w \in Seq(Values) /\ Len(w) = m + l
      /\ \A p \in 1 .. m + l : w[p] = IF p <= i + l THEN g[p] ELSE b[p - (i + l)]
  <2>1. g \in Seq(Values) /\ Len(g) = i + l
    BY <1>5 DEF g
  <2>2. /\ g \o b \in Seq(Values) /\ Len(g \o b) = Len(g) + Len(b)
        /\ \A p \in 1 .. Len(g) + Len(b) : (g \o b)[p] = IF p <= Len(g) THEN g[p] ELSE b[p - Len(g)]
    BY <2>1, <1>4, ConcatProperties
  <2>3. Len(g) + Len(b) = m + l
    BY <1>1, <1>4, <2>1
  <2>4. QED BY <2>1, <2>2, <2>3
<1> HIDE DEF w
<1>7. ASSUME NEW p \in 1 .. m + l
      PROVE  w[p] = IF p <= i THEN s[p] ELSE IF p <= i + l THEN xs[p - i] ELSE s[p - l]
  <2>1. CASE p <= i
    <3>1. p \in 1 .. i + l /\ p \in 1 .. i /\ p <= i + l
      BY <1>1, <2>1
    <3>2. QED BY <3>1, <2>1, <1>3, <1>5, <1>6 DEF g
  <2>2. CASE ~(p <= i) /\ p <= i + l
    <3>1. p \in 1 .. i + l
      BY <1>1, <2>2
    <3>2. QED BY <3>1, <2>2, <1>5, <1>6 DEF g
  <2>3. CASE ~(p <= i) /\ ~(p <= i + l)
    <3>1. p - (i + l) \in 1 .. m - i /\ i + (p - (i + l)) = p - l
      BY <1>1, <2>3
    <3>2. b[p - (i + l)] = s[p - l]
      BY <3>1, <1>4
    <3>3. QED BY <2>3, <3>2, <1>6
  <2>4. QED BY <2>1, <2>2, <2>3
<1>8. w = [p \in 1 .. m + l |-> w[p]]
  BY <1>6, <1>1
<1>9. u = w
  <2>1. u = [p \in 1 .. m + l |-> w[p]]
    BY <1>7 DEF Ranged
  <2>2. QED BY <1>8, <2>1
<1>10. QED BY <1>2, <1>6, <1>9 DEF w, g, f, b

(* generic_mempool_insert's loop over a range: what each turn leaves.       *)
RangeStep(v, i, xs, f, m) ==
  [k \in 0 .. m |-> IF k = 0 THEN v ELSE Inserted(f[k - 1], i + k - 1, Outside(xs[k]))]

LEMMA RangeTurns ==
  ASSUME NEW v, NEW xs \in Seq(Values), NEW i
  PROVE  \E f : f = RangeStep(v, i, xs, f, Len(xs))
<1> DEFINE S == {m \in 0 .. Len(xs) : \E f : f = RangeStep(v, i, xs, f, m)}
<1>1. Len(xs) \in Nat
  OBVIOUS
<1>2. 0 \in S
  <2> DEFINE f == [k \in 0 .. 0 |-> v]
  <2>1. f = RangeStep(v, i, xs, f, 0)
    BY DEF RangeStep
  <2>2. 0 \in 0 .. Len(xs)
    BY <1>1
  <2> HIDE DEF f
  <2>3. QED BY <2>1, <2>2
<1>3. ASSUME NEW m \in 0 .. Len(xs) - 1, m \in S PROVE m + 1 \in S
  <2>1. PICK f : f = RangeStep(v, i, xs, f, m)
    BY <1>3
  <2> DEFINE x(k) == Inserted(f[k - 1], i + k - 1, Outside(xs[k]))
             g == [k \in 0 .. m + 1 |-> IF k = 0 THEN v ELSE x(k)]
  <2>2. m \in Nat
    BY <1>1
  <2>3. f = [k \in 0 .. m |-> IF k = 0 THEN v ELSE x(k)]
    BY <2>1 DEF RangeStep
  <2>4. \A k \in 0 .. m : g[k] = f[k]
    <3> HIDE DEF x
    <3>1. \A k \in 0 .. m : k \in 0 .. m + 1
      BY <2>2
    <3>2. QED BY <2>3, <3>1
  <2>5. \A k \in 1 .. m + 1 : g[k - 1] = f[k - 1]
    <3> HIDE DEF g, x
    <3>1. \A k \in 1 .. m + 1 : k - 1 \in 0 .. m
      BY <2>2
    <3>2. QED BY <2>4, <3>1
  <2>6. g = RangeStep(v, i, xs, g, m + 1)
    <3> DEFINE y(k) == Inserted(g[k - 1], i + k - 1, Outside(xs[k]))
    <3>1. \A k \in 0 .. m + 1 : k # 0 => x(k) = y(k)
      <4>1. \A k \in 0 .. m + 1 : k # 0 => k \in 1 .. m + 1
        BY <2>2
      <4> HIDE DEF g
      <4>2. QED BY <4>1, <2>5, Zenon
    <3>2. RangeStep(v, i, xs, g, m + 1) = [k \in 0 .. m + 1 |-> IF k = 0 THEN v ELSE y(k)]
      <4> HIDE DEF g
      <4>1. QED BY DEF RangeStep
    <3> HIDE DEF x, y
    <3>3. QED BY <3>1, <3>2
  <2>7. m + 1 \in 0 .. Len(xs)
    BY <1>1
  <2> HIDE DEF g
  <2>8. QED BY <2>6, <2>7
<1>4. Len(xs) \in S
  <2> HIDE DEF S
  <2>1. \A m \in 0 .. Len(xs) - 1 : m \in S => m + 1 \in S
    BY <1>3
  <2>2. \A m \in 0 .. Len(xs) : m \in S
    BY <1>1, <1>2, <2>1, UpTo
  <2>3. QED BY <1>1, <2>2
<1>5. QED BY <1>4

LEMMA RangeHolds ==
  ASSUME NEW v, NEW s \in Seq(Values), Holds(v, s), NEW i \in 0 .. Len(s), NEW xs \in Seq(Values)
  PROVE  /\ Holds(RangeInserted(v, i, xs), SubSeq(s, 1, i) \o xs \o SubSeq(s, i + 1, Len(s)))
         /\ Len(xs) = 1 /\ ~IsFull(v) => RangeInserted(v, i, xs).capacity = v.capacity
<1> DEFINE l == Len(xs)
           u == CHOOSE f : f = RangeStep(v, i, xs, f, l)
<1>1. l \in Nat /\ Len(s) \in Nat
  OBVIOUS
<1>2. RangeInserted(v, i, xs) = u[l]
  BY Zenon DEF RangeInserted, RangeStep
<1>3. u = RangeStep(v, i, xs, u, l)
  <2>1. \E f : f = RangeStep(v, i, xs, f, l)
    BY RangeTurns
  <2>2. QED BY <2>1
<1> HIDE DEF u
<1>4. u[0] = v /\ \A k \in 1 .. l : u[k] = Inserted(u[k - 1], i + k - 1, Outside(xs[k]))
  <2> DEFINE x(k) == Inserted(u[k - 1], i + k - 1, Outside(xs[k]))
  <2>1. u = [k \in 0 .. l |-> IF k = 0 THEN v ELSE x(k)]
    BY <1>3 DEF RangeStep
  <2>2. 0 \in 0 .. l /\ \A k \in 1 .. l : k \in 0 .. l /\ k # 0
    BY <1>1
  <2> HIDE DEF x
  <2>3. u[0] = v /\ \A k \in 1 .. l : u[k] = x(k)
    BY <2>1, <2>2
  <2>4. QED BY <2>3 DEF x
<1> DEFINE S == {k \in 0 .. l : Holds(u[k], Ranged(s, xs, i, k))}
<1>5. 0 \in S
  <2>1. 0 \in 0 .. l
    BY <1>1
  <2>2. Ranged(s, xs, i, 0) = s
    BY RangedEnds
  <2>3. Holds(u[0], Ranged(s, xs, i, 0))
    BY <1>4, <2>2
  <2>4. QED BY <2>1, <2>3
<1>6. ASSUME NEW k \in 1 .. l, Holds(u[k - 1], Ranged(s, xs, i, k - 1))
      PROVE  /\ Holds(u[k], Ranged(s, xs, i, k))
             /\ ~IsFull(u[k - 1]) => u[k].capacity = u[k - 1].capacity
  <2> DEFINE w == u[k - 1]
             t == Ranged(s, xs, i, k - 1)
             j == i + k - 1
             o == Outside(xs[k])
  <2>1. t \in Seq(Values) /\ j \in 0 .. Len(t) /\ Ranged(s, xs, i, k) = InsertAt(t, j + 1, xs[k])
    BY RangedSteps
  <2>2. xs[k] \in Values
    OBVIOUS
  <2>3. ValueAt(w, MovedUp(Room(w), j), o) = xs[k]
    <3>1. DOMAIN o = {"value"} /\ o.value = xs[k]
      BY DEF Outside
    <3>2. "own" \notin DOMAIN o
      BY <3>1
    <3> HIDE DEF o, w, j
    <3>3. QED BY <3>1, <3>2 DEF ValueAt
  <2>4. u[k] = Inserted(w, j, o)
    BY <1>4
  <2>5. Holds(w, t)
    BY <1>6
  <2> HIDE DEF w, t, j, o
  <2>6. /\ Holds(Inserted(w, j, o), InsertAt(t, j + 1, xs[k]))
        /\ ~IsFull(w) => Inserted(w, j, o).capacity = w.capacity
    BY <2>1, <2>2, <2>3, <2>5, InsertedHolds
  <2>7. QED BY <2>1, <2>4, <2>6 DEF w
<1>7. \A k \in 0 .. l : k \in S
  <2>1. ASSUME NEW k \in 0 .. l - 1, k \in S PROVE k + 1 \in S
    <3>1. k + 1 \in 1 .. l /\ (k + 1) - 1 = k /\ k + 1 \in 0 .. l
      BY <1>1
    <3>2. Holds(u[k], Ranged(s, xs, i, k))
      BY <2>1
    <3>3. Holds(u[k + 1], Ranged(s, xs, i, k + 1))
      BY <1>6, <3>1, <3>2
    <3>4. QED BY <3>1, <3>3
  <2> HIDE DEF S
  <2>2. \A k \in 0 .. l - 1 : k \in S => k + 1 \in S
    BY <2>1
  <2>3. QED BY <1>1, <1>5, <2>2, UpTo
<1>8. Holds(u[l], Ranged(s, xs, i, l))
  BY <1>1, <1>7
<1>9. l = 1 /\ ~IsFull(v) => u[l].capacity = v.capacity
  <2>1. Holds(u[0], Ranged(s, xs, i, 0))
    BY <1>1, <1>7
  <2>2. SUFFICES ASSUME l = 1, ~IsFull(v) PROVE u[1].capacity = v.capacity
    OBVIOUS
  <2>3. 1 \in 1 .. l /\ 1 - 1 = 0
    BY <2>2
  <2>4. ~IsFull(u[0]) => u[1].capacity = u[0].capacity
    BY <1>6, <2>1, <2>3
  <2>5. QED BY <1>4, <2>2, <2>4
<1>10. QED BY <1>2, <1>8, <1>9, RangedEnds

-----------------------------------------------------------------------------
(* The state of the vector between two calls.                               *)
VectorTyped == vec = Made(vec.array, vec.capacity, vec.nmemb) /\ items \in Seq(Values)

LEMMA SoundHolds ==
  ASSUME VectorTyped
  PROVE  Sound <=> Holds(vec, items) /\ Fits(vec)
<1>1. Len(items) \in Nat /\ MaxCapacity \in Nat
  BY BoundsAssumption DEF VectorTyped
<1>2. ASSUME Sound PROVE Holds(vec, items) /\ Fits(vec)
  <2>1. /\ vec.capacity \in Nat /\ vec.capacity <= MaxCapacity /\ vec.nmemb = Len(items)
        /\ Len(items) <= vec.capacity
    BY <1>1, <1>2 DEF Sound, TypeOK
  <2>2. IsArray(vec.array, vec.capacity)
    BY <1>2 DEF Sound, TypeOK, IsArray
  <2>3. Reads(vec.array, items)
    BY <1>2, <2>1 DEF Sound, Element, Reads
  <2>4. QED BY <2>1, <2>2, <2>3 DEF Holds, Fits, VectorTyped
<1>3. ASSUME Holds(vec, items), Fits(vec) PROVE Sound
  <2>1. /\ vec.capacity \in Nat /\ vec.capacity <= MaxCapacity /\ vec.nmemb = Len(items)
        /\ Len(items) <= vec.capacity /\ IsArray(vec.array, vec.capacity) /\ Reads(vec.array, items)
    BY <1>3 DEF Holds, Fits
  <2>2. vec.capacity \in 0 .. MaxCapacity /\ vec.nmemb \in 0 .. vec.capacity
    BY <1>1, <2>1
  <2>3. TypeOK
    BY <2>1, <2>2 DEF TypeOK, IsArray
  <2>4. \A i \in 0 .. vec.nmemb - 1 : Element(vec, i) = items[i + 1]
    BY <2>1 DEF Reads, Element
  <2>5. QED BY <2>1, <2>3, <2>4 DEF Sound
<1>4. QED BY <1>2, <1>3

(* A step of the vector's client.                                           *)
LEMMA VectorSteps ==
  ASSUME VectorTyped, Next
  PROVE  /\ VectorTyped'
         /\ Sound' \/ OwnMoves
         /\ vec'.nmemb = vec.nmemb + 1 /\ vec.nmemb < vec.capacity
              => vec'.capacity = vec.capacity
<1> DEFINE Goal == /\ Holds(vec', items') /\ items' \in Seq(Values) /\ Fits(vec')
                   /\ vec'.nmemb = vec.nmemb + 1 /\ vec.nmemb < vec.capacity
                        => vec'.capacity = vec.capacity
<1>1. /\ Holds(vec, items) /\ Fits(vec) /\ items \in Seq(Values) /\ vec.nmemb = Len(items)
      /\ Len(items) \in Nat /\ vec.capacity \in Nat /\ Len(items) <= vec.capacity
  <2>1. Holds(vec, items) /\ Fits(vec) /\ items \in Seq(Values)
    BY SoundHolds DEF Next, VectorTyped
  <2>2. QED BY <2>1 DEF Holds
<1>2. ~IsFull(vec) <=> vec.nmemb < vec.capacity
  BY <1>1 DEF IsFull
<1>3. ASSUME Goal PROVE VectorTyped' /\ Sound'
  <2>1. VectorTyped'
    BY <1>3 DEF VectorTyped, Holds
  <2>2. (Holds(vec, items) /\ Fits(vec))'
    BY <1>3 DEF Holds, Fits, Reads, IsArray
  <2>3. (Sound <=> Holds(vec, items) /\ Fits(vec))'
    BY <2>1, SoundHolds, PTL
  <2>4. QED BY <2>1, <2>2, <2>3
<1>4. ASSUME NEW i \in 0 .. vec.nmemb, Insert(i) PROVE Goal
  <2>1. PICK x \in Values : /\ vec' = Inserted(vec, i, Outside(x)) /\ Fits(vec')
                            /\ items' = InsertAt(items, i + 1, x)
    BY <1>4 DEF Insert
  <2> DEFINE o == Outside(x)
  <2>2. ValueAt(vec, MovedUp(Room(vec), i), o) = x
    <3>1. DOMAIN o = {"value"} /\ o.value = x
      BY DEF Outside
    <3>2. "own" \notin DOMAIN o
      BY <3>1
    <3> HIDE DEF o
    <3>3. QED BY <3>1, <3>2 DEF ValueAt
  <2> HIDE DEF o
  <2>3. i \in 0 .. Len(items)
    BY <1>1
  <2>4. /\ Holds(Inserted(vec, i, o), InsertAt(items, i + 1, x))
        /\ ~IsFull(vec) => Inserted(vec, i, o).capacity = vec.capacity
    BY <1>1, <2>2, <2>3, InsertedHolds
  <2>5. InsertAt(items, i + 1, x) \in Seq(Values)
    <3>1. i + 1 \in 1 .. Len(items) + 1
      BY <1>1, <2>3
    <3>2. QED BY <1>1, <3>1, InsertShape
  <2>6. vec' = Inserted(vec, i, o) /\ Fits(vec') /\ items' = InsertAt(items, i + 1, x)
    BY <2>1 DEF o
  <2>7. QED BY <1>2, <2>4, <2>5, <2>6
<1>5. ASSUME NEW i \in 0 .. vec.nmemb, InsertRange(i) PROVE Goal
  <2>1. PICK xs \in BoundedSeq(Values, MaxRange) :
          /\ vec' = RangeInserted(vec, i, xs) /\ Fits(vec')
          /\ items' = SubSeq(items, 1, i) \o xs \o SubSeq(items, i + 1, Len(items))
    BY <1>5 DEF InsertRange
  <2>2. xs \in Seq(Values)
    BY BoundsAssumption DEF BoundedSeq, SeqOf
  <2>3. i \in 0 .. Len(items)
    BY <1>1
  <2>4. /\ Holds(vec', items')
        /\ Len(xs) = 1 /\ ~IsFull(vec) => vec'.capacity = vec.capacity
    BY <1>1, <2>1, <2>2, <2>3, RangeHolds
  <2>5. items' \in Seq(Values)
    BY <1>1, <2>1, <2>2, <2>3, RangedEnds
  <2>6. vec'.nmemb = Len(items) + Len(xs)
    <3>1. Ranged(items, xs, i, Len(xs)) = items'
      BY <1>1, <2>1, <2>2, <2>3, RangedEnds
    <3>2. Len(xs) \in Nat /\ Len(items) + Len(xs) \in Nat
      BY <1>1, <2>2
    <3>3. Len(items') = Len(items) + Len(xs)
      BY <3>1, <3>2 DEF Ranged
    <3>4. QED BY <2>4, <3>3 DEF Holds
  <2>7. vec'.nmemb = vec.nmemb + 1 => Len(xs) = 1
    <3>1. Len(xs) \in Nat /\ vec.nmemb = Len(items)
      BY <1>1, <2>2
    <3>2. \A a \in Nat, b \in Nat : a + b = a + 1 => b = 1
      OBVIOUS
    <3>3. QED BY <1>1, <2>6, <3>1, <3>2
  <2>8. Fits(vec')
    BY <2>1
  <2>9. QED BY <1>2, <2>4, <2>5, <2>7, <2>8
<1>6. ASSUME NEW i \in 0 .. vec.nmemb, NEW j \in 0 .. vec.nmemb - 1, InsertOwn(i, j)
      PROVE  /\ ~IsFull(vec) /\ j <= i => Goal
             /\ items' \in Seq(Values)
             /\ vec' = Made(vec'.array, vec'.capacity, vec'.nmemb)
             /\ ~IsFull(vec) => vec'.capacity = vec.capacity
  <2> DEFINE x == items[j + 1]
             o == [own |-> j]
  <2>1. /\ vec' = Inserted(vec, i, o) /\ Fits(vec')
        /\ items' = InsertAt(items, i + 1, x)
    BY <1>6 DEF InsertOwn
  <2>2. /\ i \in 0 .. Len(items) /\ j \in 0 .. Len(items) - 1
        /\ j + 1 \in 1 .. Len(items) /\ i + 1 \in 1 .. Len(items) + 1
    BY <1>1
  <2>3. x \in Values
    BY <1>1, <2>2
  <2>4. items' \in Seq(Values)
    BY <1>1, <2>1, <2>2, <2>3, InsertShape
  <2> DEFINE r == Room(vec)
             a == r.array
             c == r.capacity
             u == Up(a, c, Len(items), i)
  <2>5. Holds(r, items) /\ Len(items) < c /\ c \in Nat /\ (~IsFull(vec) => r = vec)
    BY <1>1, RoomHolds DEF Holds
  <2>6. MovedUp(r, i) = Made(u, c, Len(items))
    BY <1>1, <2>5, MovedMade
  <2>7. /\ vec' = Made(vec'.array, vec'.capacity, vec'.nmemb)
        /\ vec'.capacity = c
    <3> HIDE DEF u, c, r, x, o
    <3>1. vec' = [MovedUp(r, i) EXCEPT !.array[i] = ValueAt(vec, MovedUp(r, i), o), !.nmemb = @ + 1]
      BY <2>1 DEF Inserted, r
    <3> DEFINE y == ValueAt(vec, MovedUp(r, i), o)
               m == Len(items)
    <3> HIDE DEF y, m
    <3>2. vec' = [Made(u, c, m) EXCEPT !.array[i] = y, !.nmemb = @ + 1]
      BY <3>1, <2>6 DEF y, m
    <3>3. vec' = Made([u EXCEPT ![i] = y], c, m + 1)
      BY <3>2 DEF Made
    <3>4. QED BY <3>3 DEF Made
  <2>8. ASSUME ~IsFull(vec), j <= i PROVE Goal
    <3>1. ValueAt(vec, MovedUp(r, i), o) = x
      <4>1. DOMAIN o = {"own"} /\ o.own = j
        OBVIOUS
      <4>2. "own" \in DOMAIN o
        BY <4>1
      <4>3. a[j] = x
        BY <2>2, <2>5 DEF Holds, Reads
      <4>4. u[j] = a[j]
        <5>1. j \in 0 .. c - 1 /\ ~(j > i)
          BY <1>1, <2>2, <2>5, <2>8
        <5>2. QED BY <5>1 DEF Up
      <4> HIDE DEF o, u, a, r, c, x
      <4>5. Element(MovedUp(r, i), j) = u[j]
        BY <2>6 DEF Element, Made
      <4>6. QED BY <2>8, <4>1, <4>2, <4>3, <4>4, <4>5 DEF ValueAt
    <3>2. ValueAt(vec, MovedUp(Room(vec), i), o) = x
      BY <3>1
    <3> HIDE DEF o, u, a, r, c, x
    <3>3. /\ Holds(Inserted(vec, i, o), InsertAt(items, i + 1, x))
          /\ ~IsFull(vec) => Inserted(vec, i, o).capacity = vec.capacity
      BY <1>1, <2>2, <2>3, <3>2, InsertedHolds
    <3>4. QED BY <1>2, <2>1, <2>4, <3>3
  <2>9. ~IsFull(vec) => vec'.capacity = vec.capacity
    BY <2>5, <2>7
  <2>10. QED BY <2>4, <2>7, <2>8, <2>9
<1>7. ASSUME NEW i \in 0 .. vec.nmemb - 1, Erase(i) PROVE Goal
  <2>1. vec' = Removed(vec, i) /\ items' = RemoveAt(items, i + 1)
    BY <1>7 DEF Erase
  <2>2. i \in 0 .. Len(items) - 1 /\ i + 1 \in 1 .. Len(items)
    BY <1>1
  <2>3. Holds(vec', items')
    BY <1>1, <2>1, <2>2, RemovedHolds
  <2>4. items' \in Seq(Values) /\ Len(items') = Len(items) - 1
    BY <1>1, <2>1, <2>2, RemoveShape
  <2>5. vec'.capacity = vec.capacity
    <3> DEFINE b == [k \in DOMAIN vec.array |-> IF k >= i /\ k < vec.nmemb - 1 THEN vec.array[k + 1] ELSE vec.array[k]]
               a == vec.array
               c == vec.capacity
               m == vec.nmemb
    <3>1. vec = Made(a, c, m)
      BY DEF VectorTyped
    <3>2. vec' = [[vec EXCEPT !.array = b] EXCEPT !.nmemb = m - 1]
      BY <2>1 DEF Removed
    <3> HIDE DEF a, b, c, m
    <3>3. vec' = Made(b, c, m - 1)
      BY <3>1, <3>2 DEF Made
    <3>4. QED BY <3>3 DEF Made, c
  <2>6. vec'.nmemb # vec.nmemb + 1
    BY <1>1, <2>3, <2>4 DEF Holds
  <2>7. Fits(vec')
    BY <1>1, <2>5 DEF Fits
  <2>8. QED BY <2>3, <2>4, <2>6, <2>7
<1>8. ASSUME NEW i \in 0 .. vec.nmemb - 1, Set(i) PROVE Goal
  <2>1. PICK x \in Values : /\ vec' = [vec EXCEPT !.array[i] = x]
                            /\ items' = [items EXCEPT ![i + 1] = x]
    BY <1>8 DEF Set
  <2>2. i \in 0 .. Len(items) - 1 /\ i + 1 \in 1 .. Len(items)
    BY <1>1
  <2>3. Holds(vec', items')
    BY <1>1, <2>1, <2>2, SetHolds
  <2>4. items' \in Seq(Values)
    BY <1>1, <2>1, <2>2, ExceptSeq
  <2>5. vec'.capacity = vec.capacity
    BY <2>1
  <2>6. Fits(vec')
    BY <1>1, <2>5 DEF Fits
  <2>7. QED BY <2>3, <2>4, <2>5, <2>6
<1>9. ASSUME PopBack PROVE Goal
  <2>1. vec' = [vec EXCEPT !.nmemb = @ - 1] /\ items' = Front(items) /\ Len(items) # 0
    BY <1>1, <1>9 DEF PopBack
  <2>2. Holds(vec', items') /\ items' \in Seq(Values)
    BY <1>1, <2>1, PopBackHolds
  <2>3. vec'.capacity = vec.capacity
    BY <2>1
  <2>4. Fits(vec')
    BY <1>1, <2>3 DEF Fits
  <2>5. QED BY <2>2, <2>3, <2>4
<1>10. ASSUME Clear PROVE Goal
  <2>1. vec' = [vec EXCEPT !.nmemb = 0] /\ items' = << >>
    BY <1>10 DEF Clear
  <2>2. Holds(vec', items') /\ items' \in Seq(Values)
    BY <1>1, <2>1, ClearedHolds
  <2>3. vec'.capacity = vec.capacity
    BY <2>1
  <2>4. Fits(vec')
    BY <1>1, <2>3 DEF Fits
  <2>5. QED BY <2>2, <2>3, <2>4
<1>11. ASSUME Reserve \/ ShrinkToFit PROVE Goal
  <2>1. items' = items /\ (vec' = vec \/ \E m \in Nat : vec' = Reallocated(vec, m) /\ Len(items) <= m
                                                        /\ m <= MaxCapacity)
    <3>1. CASE Reserve
      <4>1. PICK m \in 1 .. MaxCapacity : vec' = IF m > vec.capacity THEN Reallocated(vec, m) ELSE vec
        BY <3>1 DEF Reserve
      <4>2. m > vec.capacity => Len(items) <= m /\ m \in Nat /\ m <= MaxCapacity
        BY <1>1, BoundsAssumption
      <4>3. items' = items
        BY <3>1 DEF Reserve
      <4>4. QED BY <4>1, <4>2, <4>3
    <3>2. CASE ShrinkToFit
      <4>1. vec.nmemb \in Nat /\ Len(items) <= vec.nmemb /\ vec.nmemb <= MaxCapacity
        BY <1>1, BoundsAssumption DEF Fits
      <4>2. QED BY <4>1, <3>2 DEF ShrinkToFit
    <3>3. QED BY <1>11, <3>1, <3>2
  <2>2. CASE vec' = vec
    BY <1>1, <2>1, <2>2
  <2>3. CASE \E m \in Nat : vec' = Reallocated(vec, m) /\ Len(items) <= m /\ m <= MaxCapacity
    <3>1. PICK m \in Nat : vec' = Reallocated(vec, m) /\ Len(items) <= m /\ m <= MaxCapacity
      BY <2>3
    <3>2. Holds(vec', items) /\ vec'.capacity = m
      BY <1>1, <3>1, ReallocatedHolds
    <3>3. Fits(vec')
      BY <3>1, <3>2 DEF Fits
    <3>4. vec'.nmemb # vec.nmemb + 1
      BY <1>1, <3>2 DEF Holds
    <3>5. QED BY <1>1, <2>1, <3>2, <3>3, <3>4
  <2>4. QED BY <2>1, <2>2, <2>3
<1> HIDE DEF Goal
<1>12. ASSUME Goal
       PROVE  /\ VectorTyped'
              /\ Sound' \/ OwnMoves
              /\ vec'.nmemb = vec.nmemb + 1 /\ vec.nmemb < vec.capacity
                   => vec'.capacity = vec.capacity
  BY <1>3, <1>12 DEF Goal
<1>13. ASSUME NEW i \in 0 .. vec.nmemb, NEW j \in 0 .. vec.nmemb - 1, InsertOwn(i, j)
       PROVE  /\ VectorTyped'
              /\ Sound' \/ OwnMoves
              /\ vec'.nmemb = vec.nmemb + 1 /\ vec.nmemb < vec.capacity
                   => vec'.capacity = vec.capacity
  <2>1. CASE ~IsFull(vec) /\ j <= i
    BY <1>6, <1>12, <1>13, <2>1
  <2>2. CASE ~(~IsFull(vec) /\ j <= i)
    <3>1. j > i \/ IsFull(vec)
      BY <1>1, <2>2
    <3>2. OwnMoves
      BY <1>13, <3>1 DEF OwnMoves
    <3>3. VectorTyped'
      BY <1>6, <1>13 DEF VectorTyped
    <3>4. QED BY <1>2, <1>6, <1>13, <3>2, <3>3
  <2>3. QED BY <2>1, <2>2
<1>14. QED
  BY <1>4, <1>5, <1>7, <1>8, <1>9, <1>10, <1>11, <1>12, <1>13 DEF Next

(* The client's steps that leave the vector alone.                          *)
LEMMA VectorInvariant == SpecAny => []VectorTyped
<1>1. InitAny => VectorTyped
  <2>1. InitAny => vec = Made(NULL, 0, 0) /\ items = << >>
    BY DEF InitAny, Init, Made
  <2>2. vec = Made(NULL, 0, 0) /\ items = << >> => VectorTyped
    BY DEF VectorTyped, Made
  <2>3. QED BY <2>1, <2>2
<1>2. VectorTyped /\ [NextAny]_allVars => VectorTyped'
  <2>1. ASSUME VectorTyped, Next PROVE VectorTyped'
    BY <2>1, VectorSteps
  <2>2. ASSUME VectorTyped, UNCHANGED vars PROVE VectorTyped'
    BY <2>2 DEF vars, VectorTyped
  <2>3. [NextAny]_allVars => Next \/ UNCHANGED vars
    BY DEF NextAny, allVars
  <2>4. QED BY <2>1, <2>2, <2>3
<1>3. QED BY <1>1, <1>2, PTL DEF SpecAny

(* The vector: no growth, move, reserve, shrink or inserted range loses,    *)
(* doubles or reorders an element, or leaves one that nobody wrote; except  *)
(* an element of the vector's own that is moved before it is read.          *)
THEOREM VectorKeepsElements == SpecAny => VectorIsSequence
<1>1. VectorTyped /\ [NextAny]_allVars => [Sound' \/ OwnMoves]_vars
  <2>1. ASSUME VectorTyped, Next PROVE Sound' \/ OwnMoves
    BY <2>1, VectorSteps
  <2>2. [NextAny]_allVars => Next \/ UNCHANGED vars
    BY DEF NextAny, allVars
  <2>3. QED BY <2>1, <2>2
<1>2. QED BY <1>1, VectorInvariant, PTL DEF SpecAny, VectorIsSequence

(* After reserve, the array stays where it is as long as there is room, so  *)
(* that pointers and iterators stay valid.                                  *)
THEOREM ReservedRoomLasts == SpecAny => RoomKeepsArray
<1>1. VectorTyped /\ [NextAny]_allVars =>
        [vec'.nmemb = vec.nmemb + 1 /\ vec.nmemb < vec.capacity
           => vec'.capacity = vec.capacity]_vars
  <2>1. ASSUME VectorTyped, Next
        PROVE  vec'.nmemb = vec.nmemb + 1 /\ vec.nmemb < vec.capacity
                 => vec'.capacity = vec.capacity
    BY <2>1, VectorSteps
  <2>2. [NextAny]_allVars => Next \/ UNCHANGED vars
    BY DEF NextAny, allVars
  <2>3. QED BY <2>1, <2>2
<1>2. QED BY <1>1, VectorInvariant, PTL DEF SpecAny, RoomKeepsArray

-----------------------------------------------------------------------------
(* What the loop that runs is to see, in its order.                         *)
Seen(p) == IF reversed THEN n - p ELSE p - 1
SeenFirst(k) == [p \in 1 .. k |-> Seen(p)]

(* Where it stands after k elements.                                        *)
PastEnd == IF reversed THEN It!REnd.pos ELSE It!End.pos
Place(k) == IF k < n THEN Seen(k + 1) ELSE PastEnd
Walked(k) ==
  /\ outcome = "running"
  /\ visited = SeenFirst(k)
  /\ begin = It!Iter(kind, reversed, Place(k))
  /\ end = It!Iter(kind, reversed, PastEnd)

(* A loop over a range that the container tags as it should.                *)
Matched == reversed => It!ReverseTag
LoopInv ==
  /\ kind \in It!Kinds /\ n \in Nat /\ (kind \notin It!MayBeEmpty => n # 0)
  /\ reversed \in BOOLEAN
  /\ loop \in {"none", "push_range", IF reversed THEN "for_each_r" ELSE "for_each"}
  /\ Matched =>
       IF loop = "none" THEN \/ outcome = "idle" /\ visited = << >>
                             \/ outcome = "ended" /\ visited = SeenFirst(n)
       ELSE \E k \in 0 .. n : Walked(k)

(* One element more.                                                        *)
LEMMA SeenMore ==
  ASSUME n \in Nat, reversed \in BOOLEAN, NEW k \in 0 .. n
  PROVE  /\ SeenFirst(k) \in Seq(Int) /\ Len(SeenFirst(k)) = k
         /\ Append(SeenFirst(k), Seen(k + 1)) = SeenFirst(k + 1)
<1>1. \A p \in Int : Seen(p) \in Int
  BY DEF Seen
<1>2. \A h \in Nat : SeenFirst(h) \in Seq(Int) /\ Len(SeenFirst(h)) = h
                     /\ \A p \in 1 .. h : SeenFirst(h)[p] = Seen(p)
  <2>1. ASSUME NEW h \in Nat
        PROVE  SeenFirst(h) \in Seq(Int) /\ Len(SeenFirst(h)) = h
               /\ \A p \in 1 .. h : SeenFirst(h)[p] = Seen(p)
    <3>1. SeenFirst(h) \in [1 .. h -> Int]
      BY <1>1 DEF SeenFirst
    <3>2. \A p \in 1 .. h : SeenFirst(h)[p] = Seen(p)
      BY DEF SeenFirst
    <3>3. QED BY <3>1, <3>2
  <2>2. QED BY <2>1
<1>3. k \in Nat /\ k + 1 \in Nat
  OBVIOUS
<1> DEFINE s == SeenFirst(k)
           t == SeenFirst(k + 1)
           w == Append(s, Seen(k + 1))
<1>4. /\ s \in Seq(Int) /\ Len(s) = k /\ t \in Seq(Int) /\ Len(t) = k + 1
      /\ \A p \in 1 .. k : s[p] = Seen(p)
      /\ \A p \in 1 .. k + 1 : t[p] = Seen(p)
  BY <1>2, <1>3
<1> HIDE DEF s, t
<1>5. w \in Seq(Int) /\ Len(w) = k + 1 /\ w[k + 1] = Seen(k + 1) /\ \A p \in 1 .. k : w[p] = s[p]
  <2>1. Seen(k + 1) \in Int
    BY <1>1, <1>3
  <2>2. /\ Append(s, Seen(k + 1)) \in Seq(Int) /\ Len(Append(s, Seen(k + 1))) = Len(s) + 1
        /\ \A p \in 1 .. Len(s) : Append(s, Seen(k + 1))[p] = s[p]
        /\ Append(s, Seen(k + 1))[Len(s) + 1] = Seen(k + 1)
    BY <2>1, <1>4, AppendProperties
  <2>3. QED BY <2>2, <1>4
<1> HIDE DEF w
<1>6. \A p \in 1 .. k + 1 : w[p] = t[p]
  <2>1. \A p \in 1 .. k + 1 : p \in 1 .. k \/ p = k + 1
    BY <1>3
  <2>2. QED BY <2>1, <1>4, <1>5
<1>7. w = t
  BY <1>4, <1>5, <1>6, SeqEqual
<1>8. QED BY <1>4, <1>7 DEF s, t, w

(* The elements in order and in reverse.                                    *)
LEMMA AllSeen ==
  ASSUME n \in Nat, reversed \in BOOLEAN
  PROVE  (IF reversed THEN Reverse(It!Elements) ELSE It!Elements) = SeenFirst(n)
<1>1. It!Elements = [p \in 1 .. n |-> p - 1] /\ Len(It!Elements) = n
  BY DEF It!Elements
<1>2. CASE ~reversed
  BY <1>1, <1>2 DEF SeenFirst, Seen
<1>3. CASE reversed
  <2>1. Reverse(It!Elements) = [p \in 1 .. n |-> It!Elements[(n - p) + 1]]
    BY <1>1 DEF Reverse
  <2>2. \A p \in 1 .. n : It!Elements[(n - p) + 1] = n - p
    <3>1. \A p \in 1 .. n : (n - p) + 1 \in 1 .. n /\ ((n - p) + 1) - 1 = n - p
      OBVIOUS
    <3>2. QED BY <1>1, <3>1
  <2>3. QED BY <2>1, <2>2, <1>3 DEF SeenFirst, Seen
<1>4. QED BY <1>2, <1>3

LEMMA SeenPrefix ==
  ASSUME n \in Nat, reversed \in BOOLEAN, NEW k \in 0 .. n
  PROVE  It!IsPrefix(SeenFirst(k), SeenFirst(n))
<1>1. n \in 0 .. n /\ k \in Nat /\ k <= n
  OBVIOUS
<1>2. /\ SeenFirst(k) \in Seq(Int) /\ Len(SeenFirst(k)) = k
      /\ SeenFirst(n) \in Seq(Int) /\ Len(SeenFirst(n)) = n
  BY <1>1, SeenMore
<1>3. \A p \in 1 .. k : SeenFirst(k)[p] = SeenFirst(n)[p]
  BY <1>1 DEF SeenFirst
<1> DEFINE s == SeenFirst(k)
           t == SeenFirst(n)
<1> HIDE DEF s, t
<1>4. SubSeq(s, 1, k) = SubSeq(t, 1, k)
  <2>1. /\ SubSeq(s, 1, k) \in Seq(Int) /\ Len(SubSeq(s, 1, k)) = k - 1 + 1
        /\ \A p \in 1 .. k - 1 + 1 : SubSeq(s, 1, k)[p] = s[1 + p - 1]
    BY <1>1, <1>2, Slice DEF s
  <2>2. /\ SubSeq(t, 1, k) \in Seq(Int) /\ Len(SubSeq(t, 1, k)) = k - 1 + 1
        /\ \A p \in 1 .. k - 1 + 1 : SubSeq(t, 1, k)[p] = t[1 + p - 1]
    BY <1>1, <1>2, Slice DEF t
  <2>3. k - 1 + 1 = k /\ \A p \in 1 .. k : 1 + p - 1 = p
    BY <1>1
  <2>4. \A p \in 1 .. k : SubSeq(s, 1, k)[p] = SubSeq(t, 1, k)[p]
    BY <2>1, <2>2, <2>3, <1>3 DEF s, t
  <2> DEFINE x == SubSeq(s, 1, k)
             y == SubSeq(t, 1, k)
  <2>5. x \in Seq(Int) /\ Len(x) = k /\ y \in Seq(Int) /\ Len(y) = k /\ \A p \in 1 .. k : x[p] = y[p]
    BY <2>1, <2>2, <2>3, <2>4
  <2> HIDE DEF x, y
  <2>6. x = y
    BY <2>5, SeqEqual
  <2>7. QED BY <2>6 DEF x, y
<1>5. QED BY <1>1, <1>2, <1>4 DEF It!IsPrefix, s, t

LEMMA LoopInvSees ==
  ASSUME LoopInv
  PROVE  LoopsSeeAll
<1> DEFINE all == IF reversed THEN It!Reverse(It!Elements) ELSE It!Elements
<1>1. n \in Nat /\ reversed \in BOOLEAN /\ n \in 0 .. n /\ 0 \in 0 .. n
  BY DEF LoopInv
<1>2. all = SeenFirst(n)
  BY <1>1, AllSeen DEF It!Reverse, Reverse
<1>3. << >> = SeenFirst(0)
  BY DEF SeenFirst
<1> HIDE DEF all
<1>4. ASSUME Matched
      PROVE  /\ outcome \in {"idle", "running", "ended"}
             /\ It!IsPrefix(visited, all)
             /\ outcome = "ended" => visited = all
  <2>1. CASE loop = "none"
    <3>1. \/ outcome = "idle" /\ visited = SeenFirst(0)
          \/ outcome = "ended" /\ visited = SeenFirst(n)
      BY <1>3, <1>4, <2>1 DEF LoopInv
    <3>2. It!IsPrefix(visited, SeenFirst(n))
      BY <1>1, <3>1, SeenPrefix
    <3>3. QED BY <1>2, <1>3, <3>1, <3>2
  <2>2. CASE loop # "none"
    <3>1. PICK k \in 0 .. n : Walked(k)
      BY <1>4, <2>2 DEF LoopInv
    <3>2. It!IsPrefix(visited, SeenFirst(n))
      BY <1>1, <3>1, SeenPrefix DEF Walked
    <3>3. QED BY <1>2, <2>2, <3>1, <3>2 DEF Walked
  <2>3. QED BY <2>1, <2>2
<1>5. QED BY <1>4 DEF LoopsSeeAll, It!LoopsSeeAll, It!All, Matched, all

(* The places of the loop, for the containers it may walk over.             *)
LEMMA Places ==
  ASSUME LoopInv, Matched
  PROVE  /\ \A k \in 0 .. n - 1 : Place(k) \in 0 .. n - 1 /\ Place(k) # PastEnd
         /\ Place(n) = PastEnd
         /\ reversed => kind \in {"list", "vector"}
         /\ It!ReverseType = kind \/ ~reversed
<1>1. n \in Nat /\ reversed \in BOOLEAN /\ kind \in It!Kinds /\ NULL \notin Int
  BY ContiguousAssumption DEF LoopInv, It!IteratorsAssumption
<1>2. reversed => kind \in {"list", "vector"}
  BY DEF Matched, It!ReverseTag
<1>3. PastEnd = IF kind \in It!NodeKinds THEN NULL ELSE IF reversed THEN -1 ELSE n
  BY <1>1 DEF PastEnd, It!REnd, It!End, It!Iter
<1>4. \A k \in 0 .. n - 1 : Place(k) \in 0 .. n - 1
  <2>1. ASSUME NEW k \in 0 .. n - 1 PROVE Place(k) \in 0 .. n - 1
    <3>1. k < n /\ n - (k + 1) \in 0 .. n - 1 /\ (k + 1) - 1 = k
      BY <1>1
    <3>2. Place(k) = IF reversed THEN n - (k + 1) ELSE k
      BY <3>1 DEF Place, Seen
    <3>3. QED BY <3>1, <3>2
  <2>2. QED BY <2>1
<1>5. PastEnd \notin 0 .. n - 1
  BY <1>1, <1>3
<1>6. Place(n) = PastEnd
  BY <1>1 DEF Place
<1>7. It!ReverseType = kind \/ ~reversed
  BY <1>2 DEF It!ReverseType
<1>8. QED BY <1>2, <1>4, <1>5, <1>6, <1>7

(* The loop's test and the way it goes.                                     *)
LEMMA WayOfLoop ==
  ASSUME LoopInv, Matched, loop # "none", NEW k \in 0 .. n, Walked(k)
  PROVE  /\ It!Forward <=> ~reversed
         /\ It!TestKnown
         /\ begin.pos = Place(k) /\ end.pos = PastEnd /\ begin.type = kind
         /\ k < n => It!Advanced = It!Iter(kind, reversed, Place(k + 1))
<1>1. n \in Nat /\ reversed \in BOOLEAN /\ kind \in It!Kinds /\ k \in 0 .. n
  BY DEF LoopInv
<1>2. begin = It!Iter(kind, reversed, Place(k)) /\ end = It!Iter(kind, reversed, PastEnd)
  BY DEF Walked
<1>3. /\ begin.type = kind /\ begin.reverse = reversed /\ begin.pos = Place(k)
      /\ end.pos = PastEnd
  BY <1>2 DEF It!Iter
<1>4. It!Forward <=> ~reversed
  BY <1>1, <1>3 DEF It!Forward, It!GoesForward, LoopInv
<1>5. It!TestKnown
  <2>1. reversed => kind # "flist"
    BY Places
  <2>2. QED BY <1>1, <1>3, <1>4, <2>1 DEF It!TestKnown, It!CanTest, It!CanTestReverse
<1>6. ASSUME k < n PROVE It!Advanced = It!Iter(kind, reversed, Place(k + 1))
  <2> DEFINE q == IF It!Forward THEN It!NextPos(begin) ELSE It!PrevPos(begin)
  <2>1. It!Advanced = [It!Iter(kind, reversed, Place(k)) EXCEPT !.pos = q]
    BY <1>2 DEF It!Advanced
  <2>2. q = Place(k + 1)
    <3>1. PastEnd = IF kind \in It!NodeKinds THEN NULL ELSE IF reversed THEN -1 ELSE n
      BY <1>1 DEF PastEnd, It!REnd, It!End, It!Iter
    <3>2. Place(k) = IF reversed THEN n - (k + 1) ELSE k
      <4>1. (k + 1) - 1 = k
        BY <1>1
      <4>2. QED BY <4>1, <1>6 DEF Place, Seen
    <3>3. CASE k + 1 < n
      <4>1. Place(k + 1) = IF reversed THEN n - ((k + 1) + 1) ELSE (k + 1) - 1 + 1
        BY <3>3, <1>1 DEF Place, Seen
      <4>2. CASE ~reversed
        <5>1. q = IF kind \notin It!NodeKinds THEN k + 1 ELSE IF k = n - 1 THEN NULL ELSE k + 1
          BY <1>3, <1>4, <3>2, <4>2 DEF It!NextPos
        <5>2. k # n - 1 /\ (k + 1) - 1 + 1 = k + 1
          BY <1>1, <3>3
        <5>3. QED BY <4>1, <4>2, <5>1, <5>2
      <4>3. CASE reversed
        <5>1. q = IF kind \notin It!NodeKinds THEN (n - (k + 1)) - 1
                  ELSE IF n - (k + 1) = 0 THEN NULL ELSE (n - (k + 1)) - 1
          BY <1>3, <1>4, <3>2, <4>3 DEF It!PrevPos
        <5>2. n - (k + 1) # 0 /\ (n - (k + 1)) - 1 = n - ((k + 1) + 1)
          BY <1>1, <3>3
        <5>3. QED BY <4>1, <4>3, <5>1, <5>2
      <4>4. QED BY <4>2, <4>3
    <3>4. CASE ~(k + 1 < n)
      <4>1. Place(k + 1) = PastEnd /\ k + 1 = n /\ n - (k + 1) = 0 /\ k = n - 1 /\ 0 - 1 = -1
        BY <3>4, <1>1, <1>6 DEF Place
      <4>2. CASE ~reversed
        <5>1. q = IF kind \notin It!NodeKinds THEN k + 1 ELSE IF k = n - 1 THEN NULL ELSE k + 1
          BY <1>3, <1>4, <3>2, <4>2 DEF It!NextPos
        <5>2. QED BY <3>1, <4>1, <4>2, <5>1
      <4>3. CASE reversed
        <5>1. q = IF kind \notin It!NodeKinds THEN (n - (k + 1)) - 1
                  ELSE IF n - (k + 1) = 0 THEN NULL ELSE (n - (k + 1)) - 1
          BY <1>3, <1>4, <3>2, <4>3 DEF It!PrevPos
        <5>2. QED BY <3>1, <4>1, <4>3, <5>1
      <4>4. QED BY <4>2, <4>3
    <3>5. QED BY <3>3, <3>4
  <2> HIDE DEF q
  <2>3. QED BY <2>1, <2>2 DEF It!Iter
<1>7. QED BY <1>3, <1>4, <1>5, <1>6

(* A turn of the loop.                                                      *)
LEMMA TurnWalks ==
  ASSUME LoopInv, It!Turn
  PROVE  LoopInv'
<1>1. /\ n \in Nat /\ reversed \in BOOLEAN /\ loop # "none"
      /\ kind' = kind /\ n' = n /\ reversed' = reversed /\ end' = end
      /\ loop' \in {loop, "none"}
  BY DEF LoopInv, It!Turn, It!Stops
<1>2. It!ReverseTag' = It!ReverseTag /\ Matched' = Matched
  BY <1>1 DEF It!ReverseTag, Matched
<1>3. \A k \in 0 .. n : SeenFirst(k)' = SeenFirst(k) /\ Place(k)' = Place(k) /\ Seen(k + 1)' = Seen(k + 1)
  BY <1>1 DEF SeenFirst, Seen, Place, PastEnd, It!REnd, It!End, It!Iter
<1>4. PastEnd' = PastEnd
  BY <1>1 DEF PastEnd, It!REnd, It!End, It!Iter
<1>5. ASSUME Matched
      PROVE  IF loop' = "none" THEN outcome' = "ended" /\ visited' = SeenFirst(n)
             ELSE \E k \in 0 .. n : Walked(k)'
  <2>1. PICK k \in 0 .. n : Walked(k)
    BY <1>1, <1>5 DEF LoopInv
  <2>2. /\ It!TestKnown /\ begin.pos = Place(k) /\ end.pos = PastEnd
        /\ k < n => It!Advanced = It!Iter(kind, reversed, Place(k + 1))
    BY <1>1, <1>5, <2>1, WayOfLoop
  <2>3. visited = SeenFirst(k) /\ outcome = "running" /\ end = It!Iter(kind, reversed, PastEnd)
    BY <2>1 DEF Walked
  <2>4. CASE k = n
    <3>1. It!done(begin, end)
      BY <1>5, <2>2, <2>4, Places DEF It!done
    <3>2. It!Stops("ended")
      BY <2>2, <3>1 DEF It!Turn
    <3>3. QED BY <2>3, <2>4, <3>2 DEF It!Stops
  <2>5. CASE k # n
    <3>1. k \in 0 .. n - 1 /\ k < n /\ k + 1 \in 0 .. n
      BY <1>1, <2>5
    <3>2. ~It!done(begin, end) /\ begin.pos \in -MaxBeyond .. n - 1 + MaxBeyond
      <4>1. ~It!done(begin, end) /\ begin.pos \in 0 .. n - 1
        BY <1>5, <2>2, <3>1, Places DEF It!done
      <4>2. MaxBeyond \in Nat
        BY ContiguousAssumption DEF It!IteratorsAssumption
      <4>3. 0 .. n - 1 \subseteq -MaxBeyond .. n - 1 + MaxBeyond
        BY <1>1, <4>2
      <4>4. QED BY <4>1, <4>3
    <3>3. /\ visited' = IF Len(visited) > n THEN visited ELSE Append(visited, begin.pos)
          /\ begin' = It!Advanced
          /\ loop' = loop /\ outcome' = outcome
      BY <2>2, <3>2 DEF It!Turn
    <3>4. Len(visited) = k /\ ~(k > n) /\ Append(SeenFirst(k), Seen(k + 1)) = SeenFirst(k + 1)
      <4>1. Len(SeenFirst(k)) = k /\ Append(SeenFirst(k), Seen(k + 1)) = SeenFirst(k + 1)
        BY <1>1, SeenMore
      <4>2. ~(k > n)
        BY <1>1, <3>1
      <4>3. QED BY <2>3, <4>1, <4>2
    <3>5. begin.pos = Seen(k + 1)
      BY <2>2, <3>1 DEF Place
    <3>6. visited' = SeenFirst(k + 1)
      BY <2>3, <3>3, <3>4, <3>5
    <3>7. SeenFirst(k + 1)' = SeenFirst(k + 1) /\ Place(k + 1)' = Place(k + 1)
      BY <1>3, <3>1
    <3>8. Walked(k + 1)'
      BY <1>1, <1>4, <2>2, <2>3, <3>1, <3>3, <3>6, <3>7 DEF Walked, It!Iter
    <3>9. QED BY <1>1, <3>1, <3>3, <3>8
  <2>6. QED BY <2>4, <2>5
<1>6. SeenFirst(n)' = SeenFirst(n)
  BY <1>1, <1>3
<1>7. QED BY <1>1, <1>2, <1>5, <1>6 DEF LoopInv

(* A loop is entered.                                                       *)
LEMMA StartWalks ==
  ASSUME LoopInv, It!StartForward \/ It!StartReverse
  PROVE  LoopInv'
<1>1. PICK l \in {"push_range", "for_each", "for_each_r"}, r \in BOOLEAN :
        /\ l \in {"push_range", IF r THEN "for_each_r" ELSE "for_each"}
        /\ loop' = l /\ reversed' = r /\ visited' = << >> /\ outcome' = "running"
        /\ kind' = kind /\ n' = n
        /\ begin' = IF r THEN It!RBegin ELSE It!Begin
        /\ end' = IF r THEN It!REnd ELSE It!End
  <2>1. CASE It!StartForward
    <3>1. PICK l \in {"for_each", "push_range"} : It!Start(l, FALSE, It!Begin, It!End)
      BY <2>1 DEF It!StartForward
    <3>2. FALSE \in BOOLEAN /\ l \in {"push_range", "for_each", "for_each_r"}
      OBVIOUS
    <3>3. /\ l \in {"push_range", "for_each"}
          /\ loop' = l /\ reversed' = FALSE /\ visited' = << >> /\ outcome' = "running"
          /\ kind' = kind /\ n' = n /\ begin' = It!Begin /\ end' = It!End
      BY <3>1 DEF It!Start
    <3>4. QED BY <3>2, <3>3
  <2>2. CASE It!StartReverse
    <3>1. PICK l \in {"for_each_r", "push_range"} : It!Start(l, TRUE, It!RBegin, It!REnd)
      BY <2>2 DEF It!StartReverse
    <3>2. TRUE \in BOOLEAN /\ l \in {"push_range", "for_each", "for_each_r"}
      OBVIOUS
    <3>3. /\ l \in {"push_range", "for_each_r"}
          /\ loop' = l /\ reversed' = TRUE /\ visited' = << >> /\ outcome' = "running"
          /\ kind' = kind /\ n' = n /\ begin' = It!RBegin /\ end' = It!REnd
      BY <3>1 DEF It!Start
    <3>4. QED BY <3>2, <3>3
  <2>3. QED BY <2>1, <2>2
<1>2. n \in Nat /\ kind \in It!Kinds /\ (kind \notin It!MayBeEmpty => n # 0)
  BY DEF LoopInv
<1> DEFINE past == IF r THEN It!REnd.pos ELSE It!End.pos
           first == IF 0 < n THEN (IF r THEN n - (0 + 1) ELSE (0 + 1) - 1) ELSE past
           matched == r => It!ReverseTag
<1>3. /\ Matched' <=> matched
      /\ PastEnd' = past
      /\ Place(0)' = first
      /\ SeenFirst(0)' = << >>
  <2>1. It!REnd' = It!REnd /\ It!End' = It!End /\ It!ReverseTag' = It!ReverseTag
    BY <1>1 DEF It!REnd, It!End, It!ReverseTag, It!ReverseType, It!Iter
  <2>2. Matched' <=> matched
    BY <1>1, <2>1 DEF Matched
  <2>3. PastEnd' = past
    BY <1>1, <2>1 DEF PastEnd
  <2>4. SeenFirst(0)' = << >>
    BY DEF SeenFirst
  <2>5. Place(0)' = first
    BY <1>1, <2>3 DEF Place, Seen
  <2>6. QED BY <2>2, <2>3, <2>4, <2>5
<1>4. ASSUME matched
      PROVE  /\ begin' = It!Iter(kind, r, first)
             /\ end' = It!Iter(kind, r, past)
  <2>1. CASE r
    <3>1. kind \in {"list", "vector"} /\ It!ReverseTag
      BY <1>4, <2>1 DEF It!ReverseTag
    <3>2. past = IF kind \in It!NodeKinds THEN NULL ELSE -1
      BY <2>1 DEF It!REnd, It!Iter
    <3>3. It!RBegin = It!Iter(kind, TRUE, IF kind \in It!NodeKinds /\ n = 0 THEN NULL ELSE n - 1)
      BY <3>1 DEF It!RBegin, It!ReverseType, It!Iter
    <3>4. first = IF kind \in It!NodeKinds /\ n = 0 THEN NULL ELSE n - 1
      <4>1. n = 0 => kind = "list" /\ ~(0 < n)
        BY <1>2, <3>1 DEF It!MayBeEmpty
      <4>2. n # 0 => 0 < n /\ n - (0 + 1) = n - 1
        BY <1>2
      <4>3. "list" \in It!NodeKinds
        BY DEF It!NodeKinds
      <4>4. CASE n = 0
        BY <4>1, <4>3, <4>4, <3>2
      <4>5. CASE n # 0
        BY <4>2, <4>5, <2>1
      <4>6. QED BY <4>4, <4>5
    <3>5. It!REnd = It!Iter(kind, TRUE, past)
      BY <2>1, <3>1 DEF It!REnd, It!ReverseType, It!Iter
    <3> HIDE DEF first, past
    <3>6. begin' = It!Iter(kind, TRUE, first) /\ end' = It!Iter(kind, TRUE, past)
      BY <1>1, <2>1, <3>3, <3>4, <3>5
    <3>7. r = TRUE
      BY <2>1
    <3>8. QED BY <3>6, <3>7
  <2>2. CASE ~r
    <3>1. past = IF kind \in It!NodeKinds THEN NULL ELSE n
      BY <2>2 DEF It!End, It!Iter
    <3>2. first = IF kind \in It!NodeKinds /\ n = 0 THEN NULL ELSE 0
      <4>1. n # 0 => 0 < n /\ (0 + 1) - 1 = 0
        BY <1>2
      <4>2. ~(0 < 0)
        OBVIOUS
      <4>3. CASE n = 0
        BY <3>1, <4>2, <4>3
      <4>4. CASE n # 0
        BY <4>1, <4>4, <2>2
      <4>5. QED BY <4>3, <4>4
    <3>3. It!Begin = It!Iter(kind, FALSE, first)
      BY <3>2 DEF It!Begin
    <3>4. It!End = It!Iter(kind, FALSE, past)
      BY <3>1 DEF It!End
    <3> HIDE DEF first, past
    <3>5. begin' = It!Iter(kind, FALSE, first) /\ end' = It!Iter(kind, FALSE, past)
      BY <1>1, <2>2, <3>3, <3>4
    <3>6. r = FALSE
      BY <2>2
    <3>7. QED BY <3>5, <3>6
  <2>3. QED BY <2>1, <2>2
<1> HIDE DEF first, past, matched
<1>5. ASSUME matched PROVE Walked(0)'
  <2>1. begin' = It!Iter(kind', reversed', Place(0)') /\ end' = It!Iter(kind', reversed', PastEnd')
    BY <1>1, <1>3, <1>4, <1>5
  <2>2. QED BY <2>1, <1>1, <1>3 DEF Walked, It!Iter
<1>6. loop' # "none" /\ 0 \in 0 .. n
  BY <1>1, <1>2
<1>7. QED BY <1>1, <1>2, <1>3, <1>5, <1>6 DEF LoopInv

(* step_iter moves the iterator alone.                                      *)
LEMMA StepWalks ==
  ASSUME LoopInv, It!Step
  PROVE  LoopInv'
<1>1. /\ kind' = kind /\ n' = n /\ reversed' = reversed /\ loop' = loop /\ loop = "none"
      /\ visited' = visited /\ outcome' = outcome
  BY DEF It!Step, It!StepIter
<1>2. Matched' = Matched /\ SeenFirst(n)' = SeenFirst(n)
  BY <1>1 DEF Matched, It!ReverseTag, SeenFirst, Seen
<1>3. QED BY <1>1, <1>2 DEF LoopInv

(* A loop over begin and end of any container, of any length, has seen each *)
(* element once and in order when it ends; until then it has seen the first *)
(* of them and nothing outside; and it meets no tag it does not know.  So   *)
(* does, in reverse, a loop over rbegin and rend of a list or a vector, the *)
(* two containers that tag them; of the others this says nothing.           *)
THEOREM LoopsWalkContainers == SpecAny => []LoopsSeeAll
<1>1. InitAny => LoopInv
  <2>1. ASSUME InitAny PROVE LoopInv
    <3>1. /\ kind \in It!Kinds /\ n \in (IF kind \in It!MayBeEmpty THEN 0 ELSE 1) .. MaxLen
          /\ loop = "none" /\ reversed = FALSE /\ visited = << >> /\ outcome = "idle"
      BY <2>1 DEF InitAny, It!Init
    <3>2. MaxLen \in Nat
      BY ContiguousAssumption DEF It!IteratorsAssumption
    <3>3. n \in Nat /\ (kind \notin It!MayBeEmpty => n # 0)
      BY <3>1, <3>2
    <3>4. QED BY <3>1, <3>3 DEF LoopInv
  <2>2. QED BY <2>1
<1>2. LoopInv /\ [NextAny]_allVars => LoopInv'
  <2>1. [NextAny]_allVars => It!Next \/ UNCHANGED rangeVars
    BY DEF NextAny, allVars
  <2>2. ASSUME LoopInv, It!Next PROVE LoopInv'
    BY <2>2, TurnWalks, StartWalks, StepWalks DEF It!Next
  <2>3. ASSUME LoopInv, UNCHANGED rangeVars PROVE LoopInv'
    BY <2>3 DEF rangeVars, LoopInv, Matched, It!ReverseTag, SeenFirst, Seen, Walked, Place,
                PastEnd, It!REnd, It!End, It!Iter
  <2>4. QED BY <2>1, <2>2, <2>3
<1>3. LoopInv => LoopsSeeAll
  BY LoopInvSees
<1>4. QED BY <1>1, <1>2, <1>3, PTL DEF SpecAny

-----------------------------------------------------------------------------
(* The family of an element of the heap, as numbers that do not wrap.       *)
LEMMA Family ==
  /\ \A i \in 1 .. MaxElements :
       /\ Heap!parent(i) \in 0 .. i - 1
       /\ i = 2 * Heap!parent(i) + 1 \/ i = 2 * Heap!parent(i) + 2
  /\ \A i \in 0 .. MaxElements - 1 :
       Heap!left_child(i) = 2 * i + 1 /\ Heap!right_child(i) = 2 * i + 2
<1>1. MaxElements \in Nat /\ SizeMod \in Nat \ {0} /\ 2 * MaxElements < SizeMod
  BY ContiguousAssumption DEF Heap!HeapAssumption
<1>2. \A i \in 0 .. SizeMod - 1 : Heap!Wrap(i) = i
  BY <1>1, Wraps DEF Heap!Wrap
<1>3. ASSUME NEW i \in 1 .. MaxElements
      PROVE  /\ Heap!parent(i) \in 0 .. i - 1
             /\ i = 2 * Heap!parent(i) + 1 \/ i = 2 * Heap!parent(i) + 2
  <2>1. i - 1 \in 0 .. SizeMod - 1 /\ i \in Nat /\ i - 1 \in Nat
    BY <1>1
  <2>2. Heap!parent(i) = (i - 1) \div 2
    BY <1>2, <2>1 DEF Heap!parent
  <2>3. \A k \in Nat : k \div 2 \in 0 .. k /\ (k = 2 * (k \div 2) \/ k = 2 * (k \div 2) + 1)
    OBVIOUS
  <2> DEFINE p == (i - 1) \div 2
  <2>4. p \in 0 .. i - 1 /\ (i - 1 = 2 * p \/ i - 1 = 2 * p + 1)
    BY <2>1, <2>3
  <2> HIDE DEF p
  <2>5. i = 2 * p + 1 \/ i = 2 * p + 2
    BY <2>1, <2>4
  <2>6. QED BY <2>2, <2>4, <2>5 DEF p
<1>4. ASSUME NEW i \in 0 .. MaxElements - 1
      PROVE  Heap!left_child(i) = 2 * i + 1 /\ Heap!right_child(i) = 2 * i + 2
  <2>1. 2 * i + 1 \in 0 .. SizeMod - 1 /\ 2 * i + 2 \in 0 .. SizeMod - 1
    BY <1>1
  <2>2. QED BY <1>2, <2>1 DEF Heap!left_child, Heap!right_child
<1>5. QED BY <1>3, <1>4

(* The comparison orders the elements, up to ties.                          *)
NotBefore(o, x, y) == ~Heap!Before(o, x, y)
LEMMA OrderOfHeap ==
  ASSUME NEW o \in Orders, NEW x \in HeapElements, NEW y \in HeapElements, NEW z \in HeapElements
  PROVE  /\ NotBefore(o, x, x)
         /\ NotBefore(o, x, y) \/ NotBefore(o, y, x)
         /\ NotBefore(o, x, y) /\ NotBefore(o, y, z) => NotBefore(o, x, z)
<1>1. x \in Int /\ y \in Int /\ z \in Int /\ (o = 1 \/ o = -1)
  BY ContiguousAssumption DEF Heap!HeapAssumption
<1>2. CASE o = 1
  <2>1. \A a \in Int : 1 * a = a
    OBVIOUS
  <2>2. QED BY <1>1, <1>2, <2>1 DEF NotBefore, Heap!Before
<1>3. CASE o = -1
  <2>1. \A a \in Int : (-1) * a = -a
    OBVIOUS
  <2>2. QED BY <1>1, <1>3, <2>1 DEF NotBefore, Heap!Before
<1>4. QED BY <1>1, <1>2, <1>3

(* The arrays of m elements, and what a swap does to one.                   *)
Arrays(m) == {h \in Seq(HeapElements) : Len(h) = m}
Swapped(g, h, m, i, j) ==
  \A k \in 0 .. m - 1 :
    Heap!At(g, k) =
      IF k = j THEN Heap!At(h, i) ELSE IF k = i THEN Heap!At(h, j) ELSE Heap!At(h, k)
LEMMA SwapAt ==
  ASSUME NEW m \in Nat, NEW h \in Arrays(m), NEW i \in 0 .. m - 1, NEW j \in 0 .. m - 1
  PROVE  Heap!swap(h, i, j) \in Arrays(m) /\ Swapped(Heap!swap(h, i, j), h, m, i, j)
<1> DEFINE x == Heap!At(h, i)
           y == Heap!At(h, j)
           g == [h EXCEPT ![i + 1] = y]
           w == [g EXCEPT ![j + 1] = x]
<1>1. h \in Seq(HeapElements) /\ Len(h) = m /\ i + 1 \in 1 .. m /\ j + 1 \in 1 .. m
  BY DEF Arrays
<1>2. x \in HeapElements /\ y \in HeapElements
  BY <1>1 DEF Heap!At
<1>3. Heap!swap(h, i, j) = w
  BY DEF Heap!swap
<1> HIDE DEF x, y
<1>4. g \in Seq(HeapElements) /\ Len(g) = m /\ \A k \in 1 .. m : g[k] = IF k = i + 1 THEN y ELSE h[k]
  BY <1>1, <1>2, ExceptSeq
<1> HIDE DEF g
<1>5. w \in Seq(HeapElements) /\ Len(w) = m /\ \A k \in 1 .. m : w[k] = IF k = j + 1 THEN x ELSE g[k]
  BY <1>1, <1>2, <1>4, ExceptSeq
<1> HIDE DEF w
<1>6. ASSUME NEW k \in 0 .. m - 1
      PROVE  w[k + 1] = IF k = j THEN x ELSE IF k = i THEN y ELSE h[k + 1]
  <2>1. k + 1 \in 1 .. m /\ (k + 1 = j + 1 <=> k = j) /\ (k + 1 = i + 1 <=> k = i)
    OBVIOUS
  <2>2. QED BY <2>1, <1>4, <1>5
<1>7. w \in Arrays(m)
  BY <1>5 DEF Arrays
<1>8. QED BY <1>3, <1>6, <1>7 DEF Heap!At, x, y, Swapped

LEMMA ElementAt ==
  ASSUME NEW m \in Nat, NEW h \in Arrays(m), NEW i \in 0 .. m - 1
  PROVE  Heap!At(h, i) \in HeapElements
<1>1. i + 1 \in 1 .. Len(h) /\ h \in Seq(HeapElements)
  BY DEF Arrays
<1>2. QED BY <1>1 DEF Heap!At

-----------------------------------------------------------------------------
(* The bag of the elements.                                                 *)
Positions(h, x) == {k \in DOMAIN h : h[k] = x}
LEMMA BagIs ==
  ASSUME NEW m \in Nat, NEW h \in Arrays(m)
  PROVE  /\ Heap!BagOf(h) = [x \in ToSet(h) |-> Cardinality(Positions(h, x))]
         /\ DOMAIN h = 1 .. m
         /\ \A x : IsFiniteSet(Positions(h, x)) /\ Cardinality(Positions(h, x)) \in Nat
         /\ \A x : x \in ToSet(h) <=> Positions(h, x) # {}
         /\ \A x : x \in ToSet(h) <=> Cardinality(Positions(h, x)) # 0
         /\ ToSet(h) \subseteq HeapElements
<1>1. DOMAIN h = 1 .. m /\ \A k \in 1 .. m : h[k] \in HeapElements
  BY DEF Arrays
<1>2. \A S : Heap!Cardinality(S) = Cardinality(S)
  BY DEF Heap!Cardinality, Cardinality
<1>3. Heap!ToSet(h) = ToSet(h)
  BY DEF Heap!ToSet, ToSet
<1>4. Heap!BagOf(h) = [x \in ToSet(h) |-> Cardinality(Positions(h, x))]
  BY <1>2, <1>3, Zenon DEF Heap!BagOf, Positions
<1>5. ASSUME NEW x PROVE IsFiniteSet(Positions(h, x)) /\ Cardinality(Positions(h, x)) \in Nat
  <2>1. IsFiniteSet(1 .. m)
    BY FS_Interval
  <2>2. Positions(h, x) \subseteq 1 .. m
    BY <1>1 DEF Positions
  <2>3. IsFiniteSet(Positions(h, x))
    BY <2>1, <2>2, FS_Subset
  <2>4. QED BY <2>3, FS_CardinalityType
<1>6. \A x : x \in ToSet(h) <=> Positions(h, x) # {}
  BY DEF ToSet, Positions
<1>7. \A x : x \in ToSet(h) <=> Cardinality(Positions(h, x)) # 0
  BY <1>5, <1>6, FS_EmptySet
<1>8. ToSet(h) \subseteq HeapElements
  BY <1>1 DEF ToSet
<1>9. QED BY <1>1, <1>4, <1>5, <1>6, <1>7, <1>8

(* Exchanging places changes no bag.                                        *)
LEMMA Rearranged ==
  ASSUME NEW m \in Nat, NEW g \in Arrays(m), NEW h \in Arrays(m), NEW f \in [1 .. m -> 1 .. m],
         \A k \in 1 .. m : f[f[k]] = k /\ g[k] = h[f[k]]
  PROVE  Heap!BagOf(g) = Heap!BagOf(h)
<1>1. DOMAIN g = 1 .. m /\ DOMAIN h = 1 .. m
  BY BagIs
<1>2. ASSUME NEW x PROVE Cardinality(Positions(g, x)) = Cardinality(Positions(h, x))
  <2> DEFINE A == Positions(g, x)
             B == Positions(h, x)
             e == [k \in A |-> f[k]]
  <2>1. A \subseteq 1 .. m /\ B \subseteq 1 .. m
    BY <1>1 DEF Positions
  <2>2. \A k \in A : f[k] \in B
    BY <1>1 DEF Positions
  <2>3. \A k \in B : f[k] \in A /\ f[f[k]] = k
    BY <1>1 DEF Positions
  <2>4. \A k, l \in A : f[k] = f[l] => k = l
    <3>1. \A k \in A : f[f[k]] = k
      BY <2>1
    <3>2. QED BY <3>1
  <2> HIDE DEF A, B
  <2>5. e \in [A -> B] /\ (\A b \in B : \E a \in A : e[a] = b) /\ (\A a, b \in A : e[a] = e[b] => a = b)
    BY <2>2, <2>3, <2>4
  <2> HIDE DEF e
  <2>6. e \in Bijection(A, B)
    BY <2>5, Zenon DEF Bijection, Injection, Surjection, IsInjective
  <2>7. ExistsBijection(A, B)
    BY <2>6 DEF ExistsBijection
  <2>8. IsFiniteSet(A)
    BY BagIs DEF A
  <2>9. Cardinality(A) = Cardinality(B)
    BY <2>7, <2>8, FS_Bijection
  <2>10. QED BY <2>9 DEF A, B
<1>3. ToSet(g) = ToSet(h)
  <2>1. \A x : x \in ToSet(g) <=> Cardinality(Positions(g, x)) # 0
    BY BagIs
  <2>2. \A x : x \in ToSet(h) <=> Cardinality(Positions(h, x)) # 0
    BY BagIs
  <2>3. \A x : x \in ToSet(g) <=> x \in ToSet(h)
    BY <1>2, <2>1, <2>2
  <2>4. QED BY <2>3
<1>4. Heap!BagOf(g) = [x \in ToSet(g) |-> Cardinality(Positions(g, x))]
  BY BagIs
<1>5. Heap!BagOf(h) = [x \in ToSet(h) |-> Cardinality(Positions(h, x))]
  BY BagIs
<1>6. QED BY <1>2, <1>3, <1>4, <1>5, Zenon

LEMMA SwapBag ==
  ASSUME NEW m \in Nat, NEW h \in Arrays(m), NEW i \in 0 .. m - 1, NEW j \in 0 .. m - 1
  PROVE  Heap!BagOf(Heap!swap(h, i, j)) = Heap!BagOf(h)
<1> DEFINE g == Heap!swap(h, i, j)
           f == [k \in 1 .. m |-> IF k = j + 1 THEN i + 1 ELSE IF k = i + 1 THEN j + 1 ELSE k]
<1>1. g \in Arrays(m) /\ Swapped(g, h, m, i, j)
  BY SwapAt
<1>2. i + 1 \in 1 .. m /\ j + 1 \in 1 .. m
  OBVIOUS
<1>3. f \in [1 .. m -> 1 .. m] /\ \A k \in 1 .. m : f[f[k]] = k
  BY <1>2
<1>4. \A k \in 1 .. m : g[k] = h[f[k]]
  <2>1. ASSUME NEW k \in 1 .. m PROVE g[k] = h[f[k]]
    <3>1. k - 1 \in 0 .. m - 1 /\ (k - 1) + 1 = k /\ (k - 1 = j <=> k = j + 1) /\ (k - 1 = i <=> k = i + 1)
      OBVIOUS
    <3> HIDE DEF g
    <3>2. g[(k - 1) + 1] = IF k - 1 = j THEN h[i + 1] ELSE IF k - 1 = i THEN h[j + 1] ELSE h[(k - 1) + 1]
      BY <1>1, <3>1 DEF Swapped, Heap!At
    <3>3. f[k] = IF k = j + 1 THEN i + 1 ELSE IF k = i + 1 THEN j + 1 ELSE k
      OBVIOUS
    <3> HIDE DEF f
    <3>4. QED BY <3>1, <3>2, <3>3
  <2>2. QED BY <2>1
<1> HIDE DEF f, g
<1>5. Heap!BagOf(g) = Heap!BagOf(h)
  BY <1>1, <1>3, <1>4, Rearranged
<1>6. QED BY <1>5 DEF g

-----------------------------------------------------------------------------
(* The element at i may be under the one at j; the heap is ordered from     *)
(* parent lo on, except under parents that are let off.                     *)
Under(h, o, i, j) == NotBefore(o, Heap!At(h, i), Heap!At(h, j))
Ordered(h, o, m) == \A i \in 1 .. m - 1 : Under(h, o, i, Heap!parent(i))

(* The states of the loops over an array of m elements.                     *)
Loops(m) == [heap : Arrays(m), at : 0 .. m - 1]

LEMMA TurnedAt ==
  ASSUME NEW m \in Nat, NEW s \in Loops(m), NEW j \in 0 .. m - 1
  PROVE  /\ Heap!Turned(s, s.at, j) \in Loops(m)
         /\ Heap!Turned(s, s.at, j).at = j
         /\ Heap!Turned(s, s.at, j).heap = Heap!swap(s.heap, s.at, j)
         /\ Heap!BagOf(Heap!Turned(s, s.at, j).heap) = Heap!BagOf(s.heap)
<1>1. s.heap \in Arrays(m) /\ s.at \in 0 .. m - 1
  BY DEF Loops
<1>2. Heap!swap(s.heap, s.at, j) \in Arrays(m)
  BY <1>1, SwapAt
<1>3. Heap!BagOf(Heap!swap(s.heap, s.at, j)) = Heap!BagOf(s.heap)
  BY <1>1, SwapBag
<1>4. QED BY <1>2, <1>3 DEF Heap!Turned, Loops

(* bubble_up's loop: all are in order but the element that rises, and what  *)
(* is under it may be under its parent.                                     *)
UpOrdered(s, o, m) ==
  \A i \in 1 .. m - 1 :
    /\ i # s.at => Under(s.heap, o, i, Heap!parent(i))
    /\ s.at > 0 /\ Heap!parent(i) = s.at => Under(s.heap, o, i, Heap!parent(s.at))

LEMMA UpMoves ==
  ASSUME NEW m \in 1 .. MaxElements, NEW s \in Loops(m), NEW o \in Orders
  PROVE  /\ Heap!Risen(s, o) \in Loops(m)
         /\ Heap!BagOf(Heap!Risen(s, o).heap) = Heap!BagOf(s.heap)
         /\ ~Heap!Rising(s, o) => Heap!Risen(s, o) = s
         /\ Heap!Rising(s, o) =>
              /\ s.at \in 1 .. m - 1 /\ Heap!parent(s.at) \in 0 .. s.at - 1
              /\ Heap!Risen(s, o).at = Heap!parent(s.at)
              /\ Heap!Risen(s, o).heap = Heap!swap(s.heap, s.at, Heap!parent(s.at))
<1>1. s.heap \in Arrays(m) /\ s.at \in 0 .. m - 1 /\ m \in Nat
  BY ContiguousAssumption DEF Loops, Heap!HeapAssumption
<1>2. CASE ~Heap!Rising(s, o)
  BY <1>2 DEF Heap!Risen
<1>3. CASE Heap!Rising(s, o)
  <2> DEFINE p == Heap!parent(s.at)
             r == Heap!Risen(s, o)
  <2>1. s.at \in 1 .. m - 1 /\ s.at \in 1 .. MaxElements
    BY <1>1, <1>3, ContiguousAssumption DEF Heap!Rising, Heap!HeapAssumption
  <2>2. p \in 0 .. s.at - 1
    BY <2>1, Family
  <2>3. r = Heap!Turned(s, s.at, p)
    BY <1>3 DEF Heap!Risen
  <2>4. p \in 0 .. m - 1
    BY <1>1, <2>2
  <2> HIDE DEF p, r
  <2>5. /\ Heap!Turned(s, s.at, p) \in Loops(m) /\ Heap!Turned(s, s.at, p).at = p
        /\ Heap!Turned(s, s.at, p).heap = Heap!swap(s.heap, s.at, p)
        /\ Heap!BagOf(Heap!Turned(s, s.at, p).heap) = Heap!BagOf(s.heap)
    BY <1>1, <2>4, TurnedAt, ZenonT(30)
  <2>6. QED BY <1>3, <2>1, <2>2, <2>3, <2>5 DEF p, r
<1>4. QED BY <1>2, <1>3

LEMMA UpTurn ==
  ASSUME NEW m \in 1 .. MaxElements, NEW s \in Loops(m), NEW o \in Orders, UpOrdered(s, o, m)
  PROVE  /\ UpOrdered(Heap!Risen(s, o), o, m)
         /\ ~Heap!Rising(s, o) => Ordered(s.heap, o, m)
<1>1. s.heap \in Arrays(m) /\ s.at \in 0 .. m - 1 /\ m \in Nat
  BY ContiguousAssumption DEF Loops, Heap!HeapAssumption
<1>2. \A i \in 1 .. m - 1 : i \in 1 .. MaxElements
  BY ContiguousAssumption DEF Heap!HeapAssumption
<1>3. CASE ~Heap!Rising(s, o)
  <2>1. Heap!Risen(s, o) = s
    BY <1>3, UpMoves
  <2>2. s.at > 0 => Under(s.heap, o, s.at, Heap!parent(s.at))
    BY <1>3 DEF Heap!Rising, Under, NotBefore
  <2>3. Ordered(s.heap, o, m)
    <3>1. \A i \in 1 .. m - 1 : i = s.at => s.at > 0
      OBVIOUS
    <3>2. QED BY <2>2, <3>1 DEF Ordered, UpOrdered
  <2>4. QED BY <1>3, <2>1, <2>3
<1>4. CASE Heap!Rising(s, o)
  <2> DEFINE h == s.heap
             a == s.at
             p == Heap!parent(a)
             g == Heap!swap(h, a, p)
             x == Heap!At(h, a)
             y == Heap!At(h, p)
             r == Heap!Risen(s, o)
             V(i) == Heap!At(h, i)
             W(i) == Heap!At(g, i)
  <2>1. a > 0 /\ ~NotBefore(o, x, y)
    BY <1>4 DEF Heap!Rising, NotBefore
  <2>2. a \in 1 .. m - 1 /\ p \in 0 .. a - 1
    BY <1>4, UpMoves
  <2>3. p \in 0 .. m - 1
    BY <1>1, <2>2
  <2>4. r.at = p /\ r.heap = g
    BY <1>4, UpMoves
  <2>5. \A k \in 0 .. m - 1 : V(k) \in HeapElements
    BY <1>1, ElementAt
  <2>6. \A k \in 0 .. m - 1 : W(k) = IF k = p THEN x ELSE IF k = a THEN y ELSE V(k)
    <3>1. m \in Nat /\ h \in Arrays(m) /\ a \in 0 .. m - 1 /\ p \in 0 .. m - 1
      BY <1>1, <2>3
    <3> HIDE DEF h, a, p
    <3>2. Swapped(Heap!swap(h, a, p), h, m, a, p)
      BY <3>1, SwapAt, Zenon
    <3>3. QED BY <3>2, Zenon DEF Swapped, g, x, y, V, W
  <2>7. x = V(a) /\ y = V(p) /\ x \in HeapElements /\ y \in HeapElements /\ NotBefore(o, y, x)
    <3>1. x \in HeapElements /\ y \in HeapElements
      BY <1>1, <2>3, ElementAt
    <3>2. QED BY <3>1, <2>1, OrderOfHeap
  <2>8. \A i \in 1 .. m - 1 : i # a => NotBefore(o, V(i), V(Heap!parent(i)))
    BY DEF UpOrdered, Under
  <2>9. \A i \in 1 .. m - 1 : Heap!parent(i) = a => NotBefore(o, V(i), y)
    BY <2>1 DEF UpOrdered, Under
  <2>10. \A i \in 1 .. m - 1 : Heap!parent(i) \in 0 .. i - 1 /\ Heap!parent(i) \in 0 .. m - 1 /\ i \in 0 .. m - 1
    <3>1. ASSUME NEW i \in 1 .. m - 1 PROVE Heap!parent(i) \in 0 .. i - 1
      BY <1>2, Family
    <3>2. QED BY <1>1, <3>1
  <2>11. p > 0 => NotBefore(o, y, V(Heap!parent(p))) /\ Heap!parent(p) \in 0 .. p - 1
    <3>1. p > 0 => p \in 1 .. m - 1 /\ p # a
      BY <2>2
    <3>2. QED BY <3>1, <2>8, <2>10
  <2> HIDE DEF V, W, x, y, g, h, p, r, a
  <2>12. ASSUME NEW i \in 1 .. m - 1, i # p PROVE NotBefore(o, W(i), W(Heap!parent(i)))
    <3>1. Heap!parent(i) \in 0 .. i - 1 /\ i \in 0 .. m - 1 /\ Heap!parent(i) \in 0 .. m - 1
      BY <2>10
    <3>2. W(i) = IF i = a THEN y ELSE V(i)
      BY <2>6, <2>12, <3>1
    <3>3. W(Heap!parent(i)) = IF Heap!parent(i) = p THEN x ELSE IF Heap!parent(i) = a THEN y ELSE V(Heap!parent(i))
      BY <2>6, <3>1
    <3>4. CASE i = a
      BY <2>7, <3>2, <3>3, <3>4 DEF p
    <3>5. CASE i # a /\ Heap!parent(i) = p
      <4>1. NotBefore(o, V(i), y)
        BY <2>7, <2>8, <3>5
      <4>2. V(i) \in HeapElements
        BY <2>5, <3>1
      <4>3. NotBefore(o, V(i), x)
        BY <4>1, <4>2, <2>7, OrderOfHeap
      <4>4. QED BY <3>2, <3>3, <3>5, <4>3
    <3>6. CASE i # a /\ Heap!parent(i) # p /\ Heap!parent(i) = a
      BY <2>9, <3>2, <3>3, <3>6
    <3>7. CASE i # a /\ Heap!parent(i) # p /\ Heap!parent(i) # a
      BY <2>8, <3>2, <3>3, <3>7
    <3>8. QED BY <3>4, <3>5, <3>6, <3>7
  <2>13. ASSUME NEW i \in 1 .. m - 1, p > 0, Heap!parent(i) = p
         PROVE  NotBefore(o, W(i), W(Heap!parent(p)))
    <3>1. i \in 0 .. m - 1 /\ i # p /\ Heap!parent(p) # p /\ Heap!parent(p) # a /\ Heap!parent(p) \in 0 .. m - 1
      BY <2>2, <2>10, <2>11, <2>13
    <3>2. W(i) = IF i = a THEN y ELSE V(i)
      BY <2>6, <3>1
    <3>3. W(Heap!parent(p)) = V(Heap!parent(p)) /\ V(Heap!parent(p)) \in HeapElements
      BY <2>5, <2>6, <3>1
    <3>4. CASE i = a
      BY <2>11, <2>13, <3>2, <3>3, <3>4
    <3>5. CASE i # a
      <4>1. NotBefore(o, V(i), y) /\ V(i) \in HeapElements
        BY <2>5, <2>7, <2>8, <2>13, <3>1, <3>5
      <4>2. NotBefore(o, V(i), V(Heap!parent(p)))
        BY <4>1, <2>7, <2>11, <2>13, <3>3, OrderOfHeap
      <4>3. QED BY <3>2, <3>3, <3>5, <4>2
    <3>6. QED BY <3>4, <3>5
  <2>14. UpOrdered(r, o, m)
    BY <2>4, <2>12, <2>13 DEF UpOrdered, Under, W
  <2>15. QED BY <1>4, <2>14 DEF r
<1>5. QED BY <1>3, <1>4

(* bubble_up, turn by turn.                                                 *)
UpSteps(f, h, i, o) == [k \in 0 .. i |-> IF k = 0 THEN [heap |-> h, at |-> i] ELSE Heap!Risen(f[k - 1], o)]

LEMMA UpTurns ==
  ASSUME NEW m \in 1 .. MaxElements, NEW h \in Arrays(m), NEW i \in 0 .. m - 1, NEW o \in Orders
  PROVE  \E u : /\ Heap!bubble_up(h, i, o) = u[i].heap
                /\ u[0] = [heap |-> h, at |-> i]
                /\ \A k \in 1 .. i : u[k] = Heap!Risen(u[k - 1], o)
<1> DEFINE start == [heap |-> h, at |-> i]
           X == Loops(m)
           step == [k \in 1 .. i |-> [s \in X |-> Heap!Risen(s, o)]]
           u == CHOOSE f : f = UpSteps(f, h, i, o)
<1>1. i \in Nat /\ m \in Nat
  BY ContiguousAssumption DEF Heap!HeapAssumption
<1>2. start \in X
  BY DEF Loops
<1>3. step \in Turns(X, i)
  <2>1. \A s \in X : Heap!Risen(s, o) \in X
    BY UpMoves
  <2> HIDE DEF X
  <2>2. [s \in X |-> Heap!Risen(s, o)] \in [X -> X]
    BY <2>1
  <2>3. QED BY <2>2 DEF Turns
<1> HIDE DEF X, start
<1>4. Runs(X, i, start, step)
  <2> HIDE DEF step
  <2>1. QED BY <1>1, <1>2, <1>3, Loop
<1>5. PICK f \in [0 .. i -> X] : f[0] = start /\ \A k \in 1 .. i : f[k] = step[k][f[k - 1]]
  <2> HIDE DEF step
  <2>1. QED BY <1>4 DEF Runs
<1>6. \A k \in 1 .. i : f[k] = Heap!Risen(f[k - 1], o)
  <2>1. \A k \in 1 .. i : f[k - 1] \in X
    <3>1. \A k \in 1 .. i : k - 1 \in 0 .. i
      BY <1>1
    <3>2. QED BY <3>1
  <2>2. QED BY <1>5, <2>1
<1>7. f = UpSteps(f, h, i, o)
  <2> DEFINE F(k) == IF k = 0 THEN start ELSE Heap!Risen(f[k - 1], o)
  <2>1. \A k \in 0 .. i : f[k] = F(k)
    <3>1. \A k \in 0 .. i : k = 0 \/ k \in 1 .. i
      BY <1>1
    <3>2. QED BY <1>5, <1>6, <3>1
  <2>2. f = [k \in 0 .. i |-> f[k]]
    OBVIOUS
  <2>3. UpSteps(f, h, i, o) = [k \in 0 .. i |-> F(k)]
    BY DEF UpSteps, start
  <2> HIDE DEF F
  <2>4. [k \in 0 .. i |-> f[k]] = [k \in 0 .. i |-> F(k)]
    BY <2>1
  <2>5. QED BY <2>2, <2>3, <2>4
<1>8. u = UpSteps(u, h, i, o)
  BY <1>7
<1>9. Heap!bubble_up(h, i, o) = u[i].heap
  BY Zenon DEF Heap!bubble_up, UpSteps
<1> HIDE DEF u
<1>10. u[0] = start /\ \A k \in 1 .. i : u[k] = Heap!Risen(u[k - 1], o)
  <2> DEFINE F(k) == IF k = 0 THEN start ELSE Heap!Risen(u[k - 1], o)
  <2>1. u = [k \in 0 .. i |-> F(k)]
    BY <1>8 DEF UpSteps, start
  <2>2. 0 \in 0 .. i /\ \A k \in 1 .. i : k \in 0 .. i /\ k # 0
    BY <1>1
  <2> HIDE DEF F
  <2>3. u[0] = F(0) /\ \A k \in 1 .. i : u[k] = F(k)
    BY <2>1, <2>2
  <2>4. QED BY <2>2, <2>3 DEF F
<1>11. QED BY <1>9, <1>10 DEF start

(* bubble_up keeps the elements, and leaves in order an array that was in   *)
(* order but for the element it starts from.                                *)
LEMMA BubbledUp ==
  ASSUME NEW m \in 1 .. MaxElements, NEW h \in Arrays(m), NEW i \in 0 .. m - 1, NEW o \in Orders
  PROVE  /\ Heap!bubble_up(h, i, o) \in Arrays(m)
         /\ Heap!BagOf(Heap!bubble_up(h, i, o)) = Heap!BagOf(h)
         /\ UpOrdered([heap |-> h, at |-> i], o, m) => Ordered(Heap!bubble_up(h, i, o), o, m)
<1>1. PICK u : /\ Heap!bubble_up(h, i, o) = u[i].heap
               /\ u[0] = [heap |-> h, at |-> i]
               /\ \A k \in 1 .. i : u[k] = Heap!Risen(u[k - 1], o)
  BY UpTurns
<1> DEFINE start == [heap |-> h, at |-> i]
           InOrder(s) == UpOrdered(start, o, m) => UpOrdered(s, o, m)
           Rises(s, k) == s \in Loops(m) /\ InOrder(s) /\ Heap!BagOf(s.heap) = Heap!BagOf(h)
                           /\ (s.at + k <= i \/ (~Heap!Rising(s, o)))
           S == {k \in 0 .. i : Rises(u[k], k)}
<1>2. i \in Nat /\ m \in Nat
  BY ContiguousAssumption DEF Heap!HeapAssumption
<1>3. 0 \in S
  <2>1. u[0] \in Loops(m) /\ u[0].at = i
    BY <1>1 DEF Loops
  <2>2. /\ InOrder(u[0]) /\ u[0].at + 0 <= i /\ 0 \in 0 .. i
        /\ Heap!BagOf(u[0].heap) = Heap!BagOf(h)
    BY <1>1, <1>2, <2>1
  <2>3. QED BY <2>1, <2>2
<1>4. ASSUME NEW k \in 0 .. i - 1, Rises(u[k], k) PROVE Rises(u[k + 1], k + 1)
  <2> DEFINE s == u[k]
             r == Heap!Risen(s, o)
  <2>1. u[k + 1] = r
    <3>1. k + 1 \in 1 .. i /\ (k + 1) - 1 = k
      BY <1>2
    <3>2. QED BY <1>1, <3>1
  <2>2. /\ s \in Loops(m) /\ InOrder(s) /\ (s.at + k <= i \/ ~Heap!Rising(s, o))
        /\ Heap!BagOf(s.heap) = Heap!BagOf(h)
    BY <1>4
  <2> HIDE DEF s
  <2>3. /\ r \in Loops(m) /\ Heap!BagOf(r.heap) = Heap!BagOf(s.heap)
        /\ Heap!Rising(s, o) => r.at < s.at
        /\ ~Heap!Rising(s, o) => r = s
    BY <2>2, UpMoves
  <2>4. InOrder(r)
    BY <2>2, UpTurn
  <2> HIDE DEF r
  <2>5. r.at \in Nat /\ s.at \in Nat /\ k \in Nat
    BY <1>2, <2>2, <2>3 DEF Loops
  <2>6. r.at + (k + 1) <= i \/ ~Heap!Rising(r, o)
    <3>1. CASE Heap!Rising(s, o)
      BY <3>1, <2>2, <2>3, <2>5, <1>2
    <3>2. CASE ~Heap!Rising(s, o)
      BY <3>2, <2>3
    <3>3. QED BY <3>1, <3>2
  <2>7. QED BY <2>1, <2>2, <2>3, <2>6, <2>4
<1>5. \A k \in 0 .. i : k \in S
  <2>1. \A k \in 0 .. i - 1 : k \in S => k + 1 \in S
    <3>1. ASSUME NEW k \in 0 .. i - 1, k \in S PROVE k + 1 \in S
      <4>1. Rises(u[k + 1], k + 1)
        BY <1>4, <3>1
      <4>2. k + 1 \in 0 .. i
        BY <1>2
      <4> HIDE DEF Rises
      <4>3. QED BY <4>1, <4>2
    <3>2. QED BY <3>1
  <2> HIDE DEF S
  <2>2. QED BY <1>2, <1>3, <2>1, UpTo
<1>6. /\ u[i] \in Loops(m) /\ InOrder(u[i]) /\ (u[i].at + i <= i \/ ~Heap!Rising(u[i], o))
      /\ Heap!BagOf(u[i].heap) = Heap!BagOf(h)
  BY <1>2, <1>5
<1>7. ~Heap!Rising(u[i], o)
  <2>1. u[i].at \in Nat
    BY <1>6 DEF Loops
  <2>2. u[i].at > 0 => ~(u[i].at + i <= i)
    BY <1>2, <2>1
  <2>3. QED BY <1>6, <2>2 DEF Heap!Rising
<1>8. UpOrdered(start, o, m) => Ordered(u[i].heap, o, m)
  BY <1>6, <1>7, UpTurn
<1>9. u[i].heap \in Arrays(m)
  BY <1>6 DEF Loops
<1>10. QED BY <1>1, <1>6, <1>8, <1>9

-----------------------------------------------------------------------------
(* The child that bubble_down looks at comes before its sibling.            *)
LEMMA ChildFirst ==
  ASSUME NEW m \in 1 .. MaxElements, NEW h \in Arrays(m), NEW a \in 0 .. m - 1, NEW o \in Orders
  PROVE  /\ Heap!left_child(a) < Len(h) =>
              /\ Heap!Child(h, a, o) \in 1 .. m - 1 /\ Heap!Child(h, a, o) > a
              /\ Heap!parent(Heap!Child(h, a, o)) = a
              /\ \A i \in 1 .. m - 1 : Heap!parent(i) = a => Under(h, o, i, Heap!Child(h, a, o))
         /\ ~(Heap!left_child(a) < Len(h)) => \A i \in 1 .. m - 1 : Heap!parent(i) # a
<1>1. m \in Nat /\ Len(h) = m /\ MaxElements \in Nat /\ m <= MaxElements
  BY ContiguousAssumption DEF Heap!HeapAssumption, Arrays
<1>2. Heap!left_child(a) = 2 * a + 1 /\ Heap!right_child(a) = 2 * a + 2
  <2>1. a \in 0 .. MaxElements - 1
    BY <1>1
  <2>2. QED BY <2>1, Family
<1>3. \A i \in 1 .. m - 1 : /\ Heap!parent(i) \in 0 .. i - 1
                            /\ i = 2 * Heap!parent(i) + 1 \/ i = 2 * Heap!parent(i) + 2
  <2>1. \A i \in 1 .. m - 1 : i \in 1 .. MaxElements
    BY <1>1
  <2>2. QED BY <2>1, Family
<1>4. \A i \in 1 .. m - 1 : Heap!parent(i) = a <=> (i = 2 * a + 1 \/ i = 2 * a + 2)
  <2>1. ASSUME NEW i \in 1 .. m - 1 PROVE Heap!parent(i) = a <=> (i = 2 * a + 1 \/ i = 2 * a + 2)
    <3> DEFINE p == Heap!parent(i)
    <3>1. p \in Nat /\ (i = 2 * p + 1 \/ i = 2 * p + 2)
      BY <1>3
    <3> HIDE DEF p
    <3>2. p = a <=> (i = 2 * a + 1 \/ i = 2 * a + 2)
      BY <3>1
    <3>3. QED BY <3>2 DEF p
  <2>2. QED BY <2>1
<1>5. CASE ~(2 * a + 1 < m)
  <2>1. \A i \in 1 .. m - 1 : i # 2 * a + 1 /\ i # 2 * a + 2
    BY <1>1, <1>5
  <2>2. QED BY <1>1, <1>2, <1>4, <1>5, <2>1
<1>6. CASE 2 * a + 1 < m
  <2> DEFINE l == 2 * a + 1
             r == 2 * a + 2
             c == Heap!Child(h, a, o)
             V(i) == Heap!At(h, i)
  <2>1. c = IF r < m /\ Heap!Before(o, V(r), V(l)) THEN r ELSE l
    BY <1>1, <1>2 DEF Heap!Child
  <2>2. l \in 1 .. m - 1 /\ l > a /\ (r < m => r \in 1 .. m - 1) /\ r > a
    BY <1>1, <1>6
  <2>3. \A i \in 1 .. m - 1 : V(i) \in HeapElements
    <3>1. \A i \in 1 .. m - 1 : i \in 0 .. m - 1
      OBVIOUS
    <3>2. QED BY <1>1, <3>1, ElementAt
  <2>4. \A i \in 1 .. m - 1 : Heap!parent(i) = a <=> (i = l \/ i = r)
    BY <1>4
  <2> HIDE DEF l, r, c, V
  <2>5. c \in 1 .. m - 1 /\ c > a /\ Heap!parent(c) = a
    BY <2>1, <2>2, <2>4
  <2>6. ASSUME NEW i \in 1 .. m - 1, i = l \/ i = r PROVE NotBefore(o, V(i), V(c))
    <3>1. V(l) \in HeapElements /\ NotBefore(o, V(l), V(l))
      BY <2>2, <2>3, OrderOfHeap
    <3>2. CASE c = l
      <4>1. i = r => NotBefore(o, V(r), V(l))
        <5>1. SUFFICES ASSUME i = r PROVE NotBefore(o, V(r), V(l))
          OBVIOUS
        <5>2. r < m
          BY <1>1, <5>1
        <5>3. CASE Heap!Before(o, V(r), V(l))
          <6>1. r = l
            BY <2>1, <3>2, <5>2, <5>3
          <6>2. QED BY <3>1, <6>1
        <5>4. QED BY <5>3 DEF NotBefore
      <4>2. QED BY <2>6, <3>1, <3>2, <4>1
    <3>3. CASE c # l
      <4>1. c = r /\ r < m /\ Heap!Before(o, V(r), V(l))
        BY <2>1, <3>3
      <4>2. V(r) \in HeapElements /\ NotBefore(o, V(r), V(r))
        BY <2>2, <2>3, <4>1, OrderOfHeap
      <4>3. ~NotBefore(o, V(r), V(l))
        BY <4>1 DEF NotBefore
      <4>4. NotBefore(o, V(l), V(r))
        BY <3>1, <4>2, <4>3, OrderOfHeap
      <4>5. QED BY <2>6, <4>1, <4>2, <4>4
    <3>4. QED BY <3>2, <3>3
  <2>7. \A i \in 1 .. m - 1 : Heap!parent(i) = a => Under(h, o, i, c)
    BY <2>4, <2>6 DEF Under, V
  <2>8. QED BY <1>1, <1>2, <1>6, <2>5, <2>7 DEF c
<1>7. QED BY <1>5, <1>6

(* bubble_down's loop: all from parent lo on are in order but those under   *)
(* the element that sinks, and they may be under its parent.                *)
OrderedFrom(h, o, m, lo) ==
  \A i \in 1 .. m - 1 : Heap!parent(i) >= lo => Under(h, o, i, Heap!parent(i))
DownOrdered(s, o, m, lo) ==
  \A i \in 1 .. m - 1 :
    /\ Heap!parent(i) >= lo /\ Heap!parent(i) # s.at => Under(s.heap, o, i, Heap!parent(i))
    /\ Heap!parent(i) = s.at /\ s.at > 0 /\ Heap!parent(s.at) >= lo
         => Under(s.heap, o, i, Heap!parent(s.at))

LEMMA DownTurn ==
  ASSUME NEW m \in 1 .. MaxElements, NEW s \in Loops(m), NEW o \in Orders, NEW lo \in Nat,
         DownOrdered(s, o, m, lo)
  PROVE  /\ Heap!Sunk(s, o) \in Loops(m)
         /\ Heap!BagOf(Heap!Sunk(s, o).heap) = Heap!BagOf(s.heap)
         /\ DownOrdered(Heap!Sunk(s, o), o, m, lo)
         /\ Heap!Sinking(s, o) => Heap!Sunk(s, o).at > s.at
         /\ ~Heap!Sinking(s, o) => Heap!Sunk(s, o) = s /\ OrderedFrom(s.heap, o, m, lo)
<1> DEFINE h == s.heap
           a == s.at
           c == Heap!Child(h, a, o)
           V(i) == Heap!At(h, i)
<1>1. h \in Arrays(m) /\ a \in 0 .. m - 1 /\ m \in Nat /\ Len(h) = m
  BY ContiguousAssumption DEF Loops, Heap!HeapAssumption, Arrays
<1>2. \A k \in 0 .. m - 1 : V(k) \in HeapElements
  BY <1>1, ElementAt
<1>3. \A i \in 1 .. m - 1 : Heap!parent(i) \in 0 .. i - 1 /\ Heap!parent(i) \in 0 .. m - 1 /\ i \in 0 .. m - 1
  <2>1. \A i \in 1 .. m - 1 : i \in 1 .. MaxElements
    BY ContiguousAssumption DEF Heap!HeapAssumption
  <2>2. ASSUME NEW i \in 1 .. m - 1 PROVE Heap!parent(i) \in 0 .. i - 1
    BY <2>1, Family
  <2>3. QED BY <1>1, <2>2
<1>4. /\ Heap!left_child(a) < m =>
           /\ c \in 1 .. m - 1 /\ c > a /\ Heap!parent(c) = a
           /\ \A i \in 1 .. m - 1 : Heap!parent(i) = a => NotBefore(o, V(i), V(c))
      /\ ~(Heap!left_child(a) < m) => \A i \in 1 .. m - 1 : Heap!parent(i) # a
  BY <1>1, ChildFirst DEF Under
<1>5. /\ \A i \in 1 .. m - 1 : Heap!parent(i) >= lo /\ Heap!parent(i) # a
                                 => NotBefore(o, V(i), V(Heap!parent(i)))
      /\ \A i \in 1 .. m - 1 : Heap!parent(i) = a /\ a > 0 /\ Heap!parent(a) >= lo
                                 => NotBefore(o, V(i), V(Heap!parent(a)))
  BY DEF DownOrdered, Under
<1>6. CASE ~Heap!Sinking(s, o)
  <2>1. Heap!Sunk(s, o) = s
    BY <1>6 DEF Heap!Sunk
  <2>2. \A i \in 1 .. m - 1 : Heap!parent(i) = a => NotBefore(o, V(i), V(a))
    <3>1. CASE ~(Heap!left_child(a) < m)
      BY <1>4, <3>1
    <3>2. CASE Heap!left_child(a) < m
      <4>1. NotBefore(o, V(c), V(a))
        BY <1>1, <1>6, <3>2 DEF Heap!Sinking, NotBefore
      <4>2. ASSUME NEW i \in 1 .. m - 1, Heap!parent(i) = a PROVE NotBefore(o, V(i), V(a))
        <5>1. NotBefore(o, V(i), V(c)) /\ c \in 1 .. m - 1
          BY <1>4, <3>2, <4>2
        <5>2. V(i) \in HeapElements /\ V(c) \in HeapElements /\ V(a) \in HeapElements
          BY <1>1, <1>2, <1>3, <5>1
        <5> HIDE DEF V, c, a
        <5>3. QED BY <4>1, <5>1, <5>2, OrderOfHeap
      <4>3. QED BY <4>2
    <3>3. QED BY <3>1, <3>2
  <2>3. OrderedFrom(h, o, m, lo)
    BY <1>5, <2>2 DEF OrderedFrom, Under
  <2>4. QED BY <1>6, <2>1, <2>3
<1>7. CASE Heap!Sinking(s, o)
  <2> DEFINE g == Heap!swap(h, a, c)
             x == V(a)
             y == V(c)
             r == Heap!Sunk(s, o)
             W(i) == Heap!At(g, i)
  <2>1. Heap!left_child(a) < m /\ ~NotBefore(o, y, x)
    BY <1>1, <1>7 DEF Heap!Sinking, NotBefore
  <2>2. /\ c \in 1 .. m - 1 /\ c \in 0 .. m - 1 /\ c > a /\ Heap!parent(c) = a
        /\ \A i \in 1 .. m - 1 : Heap!parent(i) = a => NotBefore(o, V(i), y)
    BY <1>1, <1>3, <1>4, <2>1
  <2>3. r = Heap!Turned(s, a, c)
    BY <1>7 DEF Heap!Sunk
  <2>4. r \in Loops(m) /\ r.at = c /\ r.heap = g /\ Heap!BagOf(r.heap) = Heap!BagOf(s.heap)
    <3>1. m \in Nat /\ c \in 0 .. m - 1
      BY <1>1, <2>2
    <3> HIDE DEF c, r
    <3>2. /\ Heap!Turned(s, s.at, c) \in Loops(m) /\ Heap!Turned(s, s.at, c).at = c
          /\ Heap!Turned(s, s.at, c).heap = Heap!swap(s.heap, s.at, c)
          /\ Heap!BagOf(Heap!Turned(s, s.at, c).heap) = Heap!BagOf(s.heap)
      BY <3>1, TurnedAt, ZenonT(30)
    <3>3. QED BY <2>3, <3>2
  <2>5. \A k \in 0 .. m - 1 : W(k) = IF k = c THEN x ELSE IF k = a THEN y ELSE V(k)
    <3>1. m \in Nat /\ h \in Arrays(m) /\ a \in 0 .. m - 1 /\ c \in 0 .. m - 1
      BY <1>1, <2>2
    <3> HIDE DEF h, a, c
    <3>2. Swapped(Heap!swap(h, a, c), h, m, a, c)
      BY <3>1, SwapAt, Zenon
    <3>3. QED BY <3>2, Zenon DEF Swapped, g, x, y, V, W
  <2>6. x \in HeapElements /\ y \in HeapElements
    BY <1>1, <1>2, <2>2
  <2> HIDE DEF x, y, g, r, W, V, c, h
  <2>7. NotBefore(o, x, y)
    BY <2>1, <2>6, OrderOfHeap
  <2>8. x = V(a) /\ y = V(c)
    BY DEF x, y
  <2> HIDE DEF a
  <2>9. ASSUME NEW i \in 1 .. m - 1, Heap!parent(i) >= lo, Heap!parent(i) # c
        PROVE  NotBefore(o, W(i), W(Heap!parent(i)))
    <3> DEFINE p == Heap!parent(i)
    <3>1. p \in 0 .. i - 1 /\ i \in 0 .. m - 1 /\ p \in 0 .. m - 1
      BY <1>3
    <3>2. W(i) = IF i = c THEN x ELSE IF i = a THEN y ELSE V(i)
      BY <2>5, <3>1
    <3>3. W(p) = IF p = a THEN y ELSE V(p)
      BY <2>5, <2>9, <3>1
    <3>4. CASE i = c
      BY <2>2, <2>7, <3>2, <3>3, <3>4
    <3>5. CASE i # c /\ p = a
      <4>1. i # a /\ NotBefore(o, V(i), y)
        BY <2>2, <3>1, <3>5
      <4>2. QED BY <3>2, <3>3, <3>5, <4>1
    <3>6. CASE i # c /\ p # a /\ i = a
      <4>1. NotBefore(o, y, V(p))
        <5>1. Heap!parent(c) = a /\ a > 0 /\ Heap!parent(a) >= lo
          BY <2>2, <2>9, <3>6
        <5>2. NotBefore(o, V(c), V(Heap!parent(a)))
          BY <1>5, <2>2, <5>1
        <5>3. QED BY <2>8, <3>6, <5>2
      <4>2. QED BY <3>2, <3>3, <3>6, <4>1
    <3>7. CASE i # c /\ p # a /\ i # a
      BY <1>5, <2>9, <3>2, <3>3, <3>7
    <3>8. QED BY <3>4, <3>5, <3>6, <3>7
  <2>10. ASSUME NEW i \in 1 .. m - 1, Heap!parent(i) = c, a >= lo
         PROVE  NotBefore(o, W(i), W(a))
    <3>1. i \in 0 .. m - 1 /\ i > c /\ c > a /\ a # c
      BY <1>1, <1>3, <2>2, <2>10
    <3>2. i # c /\ i # a
      BY <1>1, <2>2, <3>1
    <3>3. W(i) = V(i) /\ W(a) = y
      BY <1>1, <2>5, <3>1, <3>2
    <3>4. Heap!parent(i) >= lo /\ Heap!parent(i) # a
      BY <1>1, <2>2, <2>10
    <3>5. NotBefore(o, V(i), V(c))
      BY <1>5, <2>10, <3>4
    <3>6. QED BY <2>8, <3>3, <3>5
  <2>11. DownOrdered(r, o, m, lo)
    BY <2>2, <2>4, <2>9, <2>10 DEF DownOrdered, Under, W
  <2>12. QED BY <1>7, <2>2, <2>4, <2>11 DEF r, a
<1>8. QED BY <1>6, <1>7

(* bubble_down, turn by turn.                                               *)
DownSteps(f, h, i, o) ==
  [k \in 0 .. Len(h) |-> IF k = 0 THEN [heap |-> h, at |-> i] ELSE Heap!Sunk(f[k - 1], o)]

LEMMA DownTurns ==
  ASSUME NEW m \in 1 .. MaxElements, NEW h \in Arrays(m), NEW i \in 0 .. m - 1, NEW o \in Orders,
         NEW lo \in Nat,
         DownOrdered([heap |-> h, at |-> i], o, m, lo)
  PROVE  \E u : /\ Heap!bubble_down(h, i, o) = u[m].heap
                /\ u[0] = [heap |-> h, at |-> i]
                /\ \A k \in 1 .. m : u[k] = Heap!Sunk(u[k - 1], o)
<1> DEFINE start == [heap |-> h, at |-> i]
           X == {s \in Loops(m) : DownOrdered(s, o, m, lo)}
           step == [k \in 1 .. m |-> [s \in X |-> Heap!Sunk(s, o)]]
           u == CHOOSE f : f = DownSteps(f, h, i, o)
<1>1. i \in Nat /\ m \in Nat /\ Len(h) = m
  BY ContiguousAssumption DEF Heap!HeapAssumption, Arrays
<1>2. start \in X
  BY DEF Loops
<1>3. step \in Turns(X, m)
  <2>1. \A s \in X : Heap!Sunk(s, o) \in X
    <3>1. ASSUME NEW s \in X PROVE Heap!Sunk(s, o) \in X
      <4>1. s \in Loops(m) /\ DownOrdered(s, o, m, lo)
        OBVIOUS
      <4>2. Heap!Sunk(s, o) \in Loops(m) /\ DownOrdered(Heap!Sunk(s, o), o, m, lo)
        BY <4>1, DownTurn
      <4>3. QED BY <4>2
    <3>2. QED BY <3>1
  <2> HIDE DEF X
  <2>2. [s \in X |-> Heap!Sunk(s, o)] \in [X -> X]
    BY <2>1
  <2>3. QED BY <2>2 DEF Turns
<1> HIDE DEF X, start
<1>4. Runs(X, m, start, step)
  <2> HIDE DEF step
  <2>1. QED BY <1>1, <1>2, <1>3, Loop
<1>5. PICK f \in [0 .. m -> X] : f[0] = start /\ \A k \in 1 .. m : f[k] = step[k][f[k - 1]]
  <2> HIDE DEF step
  <2>1. QED BY <1>4 DEF Runs
<1>6. \A k \in 1 .. m : f[k] = Heap!Sunk(f[k - 1], o)
  <2>1. \A k \in 1 .. m : f[k - 1] \in X
    <3>1. \A k \in 1 .. m : k - 1 \in 0 .. m
      BY <1>1
    <3>2. QED BY <3>1
  <2>2. QED BY <1>5, <2>1
<1>7. f = DownSteps(f, h, i, o)
  <2> DEFINE F(k) == IF k = 0 THEN start ELSE Heap!Sunk(f[k - 1], o)
  <2>1. \A k \in 0 .. m : f[k] = F(k)
    <3>1. \A k \in 0 .. m : k = 0 \/ k \in 1 .. m
      BY <1>1
    <3>2. QED BY <1>5, <1>6, <3>1
  <2>2. f = [k \in 0 .. m |-> f[k]]
    OBVIOUS
  <2>3. DownSteps(f, h, i, o) = [k \in 0 .. m |-> F(k)]
    BY <1>1 DEF DownSteps, start
  <2> HIDE DEF F
  <2>4. [k \in 0 .. m |-> f[k]] = [k \in 0 .. m |-> F(k)]
    BY <2>1
  <2>5. QED BY <2>2, <2>3, <2>4
<1>8. u = DownSteps(u, h, i, o)
  BY <1>7
<1>9. Heap!bubble_down(h, i, o) = u[m].heap
  BY <1>1, Zenon DEF Heap!bubble_down, DownSteps
<1> HIDE DEF u
<1>10. u[0] = start /\ \A k \in 1 .. m : u[k] = Heap!Sunk(u[k - 1], o)
  <2> DEFINE F(k) == IF k = 0 THEN start ELSE Heap!Sunk(u[k - 1], o)
  <2>1. u = [k \in 0 .. m |-> F(k)]
    BY <1>1, <1>8 DEF DownSteps, start
  <2>2. 0 \in 0 .. m /\ \A k \in 1 .. m : k \in 0 .. m /\ k # 0
    BY <1>1
  <2> HIDE DEF F
  <2>3. u[0] = F(0) /\ \A k \in 1 .. m : u[k] = F(k)
    BY <2>1, <2>2
  <2>4. QED BY <2>2, <2>3 DEF F
<1>11. QED BY <1>9, <1>10 DEF start

(* bubble_down leaves a heap in order from lo on.                           *)
LEMMA BubbledDown ==
  ASSUME NEW m \in 1 .. MaxElements, NEW h \in Arrays(m), NEW i \in 0 .. m - 1, NEW o \in Orders,
         NEW lo \in Nat,
         DownOrdered([heap |-> h, at |-> i], o, m, lo)
  PROVE  /\ Heap!bubble_down(h, i, o) \in Arrays(m) /\ OrderedFrom(Heap!bubble_down(h, i, o), o, m, lo)
         /\ Heap!BagOf(Heap!bubble_down(h, i, o)) = Heap!BagOf(h)
<1>1. PICK u : /\ Heap!bubble_down(h, i, o) = u[m].heap
               /\ u[0] = [heap |-> h, at |-> i]
               /\ \A k \in 1 .. m : u[k] = Heap!Sunk(u[k - 1], o)
  BY DownTurns
<1> DEFINE Sinks(s, k) == s \in Loops(m) /\ DownOrdered(s, o, m, lo) /\ Heap!BagOf(s.heap) = Heap!BagOf(h)
                           /\ (s.at >= k \/ ~Heap!Sinking(s, o))
           S == {k \in 0 .. m : Sinks(u[k], k)}
<1>2. i \in Nat /\ m \in Nat
  BY ContiguousAssumption DEF Heap!HeapAssumption
<1>3. 0 \in S
  <2>1. u[0] \in Loops(m) /\ u[0].at = i
    BY <1>1 DEF Loops
  <2>2. /\ DownOrdered(u[0], o, m, lo) /\ u[0].at >= 0 /\ 0 \in 0 .. m
        /\ Heap!BagOf(u[0].heap) = Heap!BagOf(h)
    BY <1>1, <1>2, <2>1
  <2>3. QED BY <2>1, <2>2
<1>4. ASSUME NEW k \in 0 .. m - 1, Sinks(u[k], k) PROVE Sinks(u[k + 1], k + 1)
  <2> DEFINE s == u[k]
             r == Heap!Sunk(s, o)
  <2>1. u[k + 1] = r
    <3>1. k + 1 \in 1 .. m /\ (k + 1) - 1 = k
      BY <1>2
    <3>2. QED BY <1>1, <3>1
  <2>2. /\ s \in Loops(m) /\ DownOrdered(s, o, m, lo) /\ (s.at >= k \/ ~Heap!Sinking(s, o))
        /\ Heap!BagOf(s.heap) = Heap!BagOf(h)
    BY <1>4
  <2> HIDE DEF s
  <2>3. /\ r \in Loops(m) /\ DownOrdered(r, o, m, lo) /\ Heap!BagOf(r.heap) = Heap!BagOf(s.heap)
        /\ Heap!Sinking(s, o) => r.at > s.at
        /\ ~Heap!Sinking(s, o) => r = s
    BY <2>2, DownTurn
  <2> HIDE DEF r
  <2>4. r.at \in Nat /\ s.at \in Nat /\ k \in Nat
    BY <1>2, <2>2, <2>3 DEF Loops
  <2>5. r.at >= (k + 1) \/ ~Heap!Sinking(r, o)
    <3>1. CASE Heap!Sinking(s, o)
      BY <3>1, <2>2, <2>3, <2>4, <1>2
    <3>2. CASE ~Heap!Sinking(s, o)
      BY <3>2, <2>3
    <3>3. QED BY <3>1, <3>2
  <2>6. QED BY <2>1, <2>2, <2>3, <2>5
<1>5. \A k \in 0 .. m : k \in S
  <2>1. \A k \in 0 .. m - 1 : k \in S => k + 1 \in S
    <3>1. ASSUME NEW k \in 0 .. m - 1, k \in S PROVE k + 1 \in S
      <4>1. Sinks(u[k + 1], k + 1)
        BY <1>4, <3>1
      <4>2. k + 1 \in 0 .. m
        BY <1>2
      <4> HIDE DEF Sinks
      <4>3. QED BY <4>1, <4>2
    <3>2. QED BY <3>1
  <2> HIDE DEF S
  <2>2. QED BY <1>2, <1>3, <2>1, UpTo
<1>6. /\ u[m] \in Loops(m) /\ DownOrdered(u[m], o, m, lo) /\ (u[m].at >= m \/ ~Heap!Sinking(u[m], o))
      /\ Heap!BagOf(u[m].heap) = Heap!BagOf(h)
  BY <1>2, <1>5
<1>7. ~Heap!Sinking(u[m], o)
  <2>1. u[m].at \in 0 .. m - 1
    BY <1>6 DEF Loops
  <2>2. ~(u[m].at >= m)
    BY <1>2, <2>1
  <2>3. QED BY <1>6, <2>2
<1>8. OrderedFrom(u[m].heap, o, m, lo)
  BY <1>6, <1>7, DownTurn
<1>9. u[m].heap \in Arrays(m)
  BY <1>6 DEF Loops
<1>10. QED BY <1>1, <1>6, <1>8, <1>9

-----------------------------------------------------------------------------
(* make_heap's loop: each turn puts one more parent in order.               *)
HeapSteps(f, h, i, o) ==
  [k \in 0 .. i + 1 |-> IF k = 0 THEN h ELSE Heap!bubble_down(f[k - 1], i + 1 - k, o)]

LEMMA HeapTurn ==
  ASSUME NEW m \in 1 .. MaxElements, NEW h \in Arrays(m), NEW i \in 0 .. m - 1, NEW o \in Orders,
         OrderedFrom(h, o, m, i + 1)
  PROVE  /\ Heap!bubble_down(h, i, o) \in Arrays(m)
         /\ OrderedFrom(Heap!bubble_down(h, i, o), o, m, i)
         /\ Heap!BagOf(Heap!bubble_down(h, i, o)) = Heap!BagOf(h)
<1>1. i \in Nat /\ m \in Nat /\ MaxElements \in Nat /\ m <= MaxElements
  BY ContiguousAssumption DEF Heap!HeapAssumption
<1> DEFINE s == [heap |-> h, at |-> i]
<1>2. DownOrdered(s, o, m, i)
  <2>1. s.at = i /\ s.heap = h
    BY <1>1
  <2>2. ASSUME NEW k \in 1 .. m - 1, Heap!parent(k) >= i, Heap!parent(k) # i
        PROVE  Under(h, o, k, Heap!parent(k))
    <3>1. k \in 1 .. MaxElements
      BY <1>1
    <3>2. Heap!parent(k) \in 0 .. k - 1
      BY <3>1, Family
    <3>3. Heap!parent(k) >= i + 1
      BY <1>1, <2>2, <3>2
    <3>4. QED BY <3>3 DEF OrderedFrom
  <2>3. i > 0 => ~(Heap!parent(i) >= i)
    <3>1. i > 0 => i \in 1 .. MaxElements
      BY <1>1
    <3>2. i > 0 => Heap!parent(i) \in 0 .. i - 1
      BY <3>1, Family
    <3>3. QED BY <1>1, <3>2
  <2> HIDE DEF s
  <2>4. QED BY <2>1, <2>2, <2>3 DEF DownOrdered
<1>3. QED BY <1>1, <1>2, BubbledDown

LEMMA HeapTurns ==
  ASSUME NEW m \in 1 .. MaxElements, NEW h \in Arrays(m), NEW i \in 0 .. m - 1, NEW o \in Orders,
         OrderedFrom(h, o, m, i + 1)
  PROVE  \E f : f = HeapSteps(f, h, i, o)
<1> DEFINE X == Arrays(m)
           Done(k) == i + 1 - k
           step == [k \in 1 .. i + 1 |-> [g \in X |->
                      IF OrderedFrom(g, o, m, Done(k) + 1) THEN Heap!bubble_down(g, Done(k), o) ELSE g]]
<1>1. i \in Nat /\ m \in Nat /\ i + 1 \in Nat
  BY ContiguousAssumption DEF Heap!HeapAssumption
<1>2. \A k \in 1 .. i + 1 : Done(k) \in 0 .. m - 1
  BY <1>1
<1> HIDE DEF Done, X
<1>3. step \in Turns(X, i + 1)
  <2>1. ASSUME NEW k \in 1 .. i + 1
        PROVE  [g \in X |-> IF OrderedFrom(g, o, m, Done(k) + 1) THEN Heap!bubble_down(g, Done(k), o) ELSE g]
                 \in [X -> X]
    <3>1. ASSUME NEW g \in X, OrderedFrom(g, o, m, Done(k) + 1) PROVE Heap!bubble_down(g, Done(k), o) \in X
      BY <1>2, <3>1, HeapTurn DEF X
    <3>2. QED BY <3>1
  <2>2. QED BY <2>1 DEF Turns
<1>4. Runs(X, i + 1, h, step)
  <2>1. h \in X
    BY DEF X
  <2> HIDE DEF step
  <2>2. QED BY <1>1, <1>3, <2>1, Loop
<1>5. PICK f \in [0 .. i + 1 -> X] : f[0] = h /\ \A k \in 1 .. i + 1 : f[k] = step[k][f[k - 1]]
  <2> HIDE DEF step
  <2>1. QED BY <1>4 DEF Runs
<1>6. \A k \in 1 .. i + 1 :
        f[k] = IF OrderedFrom(f[k - 1], o, m, Done(k) + 1) THEN Heap!bubble_down(f[k - 1], Done(k), o)
               ELSE f[k - 1]
  <2>1. \A k \in 1 .. i + 1 : f[k - 1] \in X
    <3>1. \A k \in 1 .. i + 1 : k - 1 \in 0 .. i + 1
      BY <1>1
    <3>2. QED BY <3>1
  <2>2. QED BY <1>5, <2>1
<1> DEFINE S == {k \in 0 .. i + 1 : OrderedFrom(f[k], o, m, Done(k))}
<1>7. \A k \in 0 .. i + 1 : k \in S
  <2>1. 0 \in S
    <3>1. Done(0) = i + 1 /\ 0 \in 0 .. i + 1
      BY <1>1 DEF Done
    <3>2. QED BY <1>5, <3>1
  <2>2. ASSUME NEW k \in 0 .. (i + 1) - 1, k \in S PROVE k + 1 \in S
    <3>1. k + 1 \in 1 .. i + 1 /\ (k + 1) - 1 = k /\ Done(k + 1) + 1 = Done(k) /\ k + 1 \in 0 .. i + 1 /\ k \in 0 .. i + 1
      BY <1>1 DEF Done
    <3>2. f[k] \in Arrays(m) /\ Done(k + 1) \in 0 .. m - 1 /\ OrderedFrom(f[k], o, m, Done(k + 1) + 1)
      BY <1>2, <2>2, <3>1 DEF X
    <3>3. f[k + 1] = Heap!bubble_down(f[k], Done(k + 1), o)
      BY <1>6, <3>1, <3>2
    <3>4. OrderedFrom(f[k + 1], o, m, Done(k + 1))
      BY <3>2, <3>3, HeapTurn
    <3>5. QED BY <3>1, <3>4
  <2> HIDE DEF S
  <2>3. \A k \in 0 .. (i + 1) - 1 : k \in S => k + 1 \in S
    BY <2>2
  <2>4. QED BY <1>1, <2>1, <2>3, UpTo
<1>8. \A k \in 1 .. i + 1 : f[k] = Heap!bubble_down(f[k - 1], Done(k), o)
  <2>1. \A k \in 1 .. i + 1 : k - 1 \in 0 .. i + 1 /\ Done(k) + 1 = Done(k - 1)
    BY <1>1 DEF Done
  <2>2. \A k \in 1 .. i + 1 : OrderedFrom(f[k - 1], o, m, Done(k - 1))
    BY <1>7, <2>1
  <2>3. QED BY <1>6, <2>1, <2>2
<1>9. f = HeapSteps(f, h, i, o)
  <2> DEFINE F(k) == IF k = 0 THEN h ELSE Heap!bubble_down(f[k - 1], i + 1 - k, o)
  <2>1. \A k \in 0 .. i + 1 : f[k] = F(k)
    <3>1. \A k \in 0 .. i + 1 : k = 0 \/ k \in 1 .. i + 1
      BY <1>1
    <3>2. QED BY <1>5, <1>8, <3>1 DEF Done
  <2>2. f = [k \in 0 .. i + 1 |-> f[k]]
    OBVIOUS
  <2>3. HeapSteps(f, h, i, o) = [k \in 0 .. i + 1 |-> F(k)]
    BY DEF HeapSteps
  <2> HIDE DEF F
  <2>4. [k \in 0 .. i + 1 |-> f[k]] = [k \in 0 .. i + 1 |-> F(k)]
    BY <2>1
  <2>5. QED BY <2>2, <2>3, <2>4
<1>10. QED BY <1>9

LEMMA MadeHeap ==
  ASSUME NEW m \in 1 .. MaxElements, NEW h \in Arrays(m), NEW i \in 0 .. m - 1, NEW o \in Orders,
         OrderedFrom(h, o, m, i + 1)
  PROVE  /\ Heap!HeapFrom(h, i, o) \in Arrays(m)
         /\ OrderedFrom(Heap!HeapFrom(h, i, o), o, m, 0)
         /\ Heap!BagOf(Heap!HeapFrom(h, i, o)) = Heap!BagOf(h)
<1> DEFINE u == CHOOSE f : f = HeapSteps(f, h, i, o)
<1>1. i \in Nat /\ m \in Nat /\ i + 1 \in Nat /\ i < Len(h)
  BY ContiguousAssumption DEF Heap!HeapAssumption, Arrays
<1>2. Heap!HeapFrom(h, i, o) = u[i + 1]
  BY <1>1, Zenon DEF Heap!HeapFrom, HeapSteps
<1>3. u = HeapSteps(u, h, i, o)
  BY HeapTurns
<1> HIDE DEF u
<1>4. u[0] = h /\ \A k \in 1 .. i + 1 : u[k] = Heap!bubble_down(u[k - 1], i + 1 - k, o)
  <2> DEFINE F(k) == IF k = 0 THEN h ELSE Heap!bubble_down(u[k - 1], i + 1 - k, o)
  <2>1. u = [k \in 0 .. i + 1 |-> F(k)]
    BY <1>3 DEF HeapSteps
  <2>2. 0 \in 0 .. i + 1 /\ \A k \in 1 .. i + 1 : k \in 0 .. i + 1 /\ k # 0
    BY <1>1
  <2> HIDE DEF F
  <2>3. u[0] = F(0) /\ \A k \in 1 .. i + 1 : u[k] = F(k)
    BY <2>1, <2>2
  <2>4. QED BY <2>2, <2>3 DEF F
<1> DEFINE Right(k) == /\ u[k] \in Arrays(m) /\ OrderedFrom(u[k], o, m, i + 1 - k)
                       /\ Heap!BagOf(u[k]) = Heap!BagOf(h)
           S == {k \in 0 .. i + 1 : Right(k)}
<1>5. 0 \in S
  <2>1. i + 1 - 0 = i + 1 /\ 0 \in 0 .. i + 1
    BY <1>1
  <2>2. QED BY <1>4, <2>1
<1>6. ASSUME NEW k \in 0 .. (i + 1) - 1, Right(k) PROVE Right(k + 1)
  <2> DEFINE j == i + 1 - (k + 1)
             g == u[k]
  <2>1. k + 1 \in 1 .. i + 1 /\ (k + 1) - 1 = k /\ j \in 0 .. m - 1 /\ i + 1 - k = j + 1
    BY <1>1
  <2>2. u[k + 1] = Heap!bubble_down(g, j, o)
    BY <1>4, <2>1
  <2>3. g \in Arrays(m) /\ OrderedFrom(g, o, m, j + 1) /\ Heap!BagOf(g) = Heap!BagOf(h)
    BY <1>6, <2>1
  <2> HIDE DEF j, g
  <2>4. /\ Heap!bubble_down(g, j, o) \in Arrays(m)
        /\ OrderedFrom(Heap!bubble_down(g, j, o), o, m, j)
        /\ Heap!BagOf(Heap!bubble_down(g, j, o)) = Heap!BagOf(g)
    BY <2>1, <2>3, HeapTurn
  <2>5. QED BY <2>2, <2>3, <2>4 DEF j
<1>7. \A k \in 0 .. i + 1 : k \in S
  <2>1. ASSUME NEW k \in 0 .. (i + 1) - 1, k \in S PROVE k + 1 \in S
    <3>1. Right(k + 1) /\ k + 1 \in 0 .. i + 1
      BY <1>1, <1>6, <2>1
    <3> HIDE DEF Right
    <3>2. QED BY <3>1
  <2> HIDE DEF S
  <2>2. \A k \in 0 .. (i + 1) - 1 : k \in S => k + 1 \in S
    BY <2>1
  <2>3. QED BY <1>1, <1>5, <2>2, UpTo
<1>8. Right(i + 1) /\ i + 1 - (i + 1) = 0
  BY <1>1, <1>7
<1>9. QED BY <1>2, <1>8

(* make_heap puts any array in order, also one of no or one element.        *)
LEMMA MakeHeap ==
  ASSUME NEW m \in 0 .. MaxElements, NEW h \in Arrays(m), NEW o \in Orders
  PROVE  /\ Heap!make_heap(h, o) \in Arrays(m)
         /\ Ordered(Heap!make_heap(h, o), o, m)
         /\ Heap!BagOf(Heap!make_heap(h, o)) = Heap!BagOf(h)
<1> DEFINE q == Heap!parent(Heap!Wrap(Len(h) - 1))
<1>1. /\ m \in Nat /\ Len(h) = m /\ MaxElements \in Nat /\ m <= MaxElements
      /\ SizeMod \in Nat \ {0} /\ 2 * MaxElements < SizeMod
  BY ContiguousAssumption DEF Heap!HeapAssumption, Arrays
<1>2. Heap!make_heap(h, o) = Heap!HeapFrom(h, q, o)
  BY DEF Heap!make_heap
<1>3. \A i \in 1 .. m - 1 : /\ Heap!parent(i) \in 0 .. i - 1
                            /\ i = 2 * Heap!parent(i) + 1 \/ i = 2 * Heap!parent(i) + 2
  <2>1. \A i \in 1 .. m - 1 : i \in 1 .. MaxElements
    BY <1>1
  <2>2. QED BY <2>1, Family
<1>4. \A g : OrderedFrom(g, o, m, 0) => Ordered(g, o, m)
  BY <1>3 DEF OrderedFrom, Ordered
<1>5. \A x \in -1 .. SizeMod - 1 : Heap!Wrap(x) \in 0 .. SizeMod - 1 /\ (x >= 0 => Heap!Wrap(x) = x)
  <2>1. ASSUME NEW x \in -1 .. SizeMod - 1
        PROVE  Heap!Wrap(x) \in 0 .. SizeMod - 1 /\ (x >= 0 => Heap!Wrap(x) = x)
    <3>1. CASE x >= 0
      <4>1. x \in 0 .. SizeMod - 1
        BY <1>1, <3>1
      <4>2. QED BY <1>1, <4>1, Wraps DEF Heap!Wrap
    <3>2. CASE ~(x >= 0)
      <4>1. SizeMod - 1 \in 0 .. SizeMod - 1 /\ x = (SizeMod - 1) - SizeMod
        BY <1>1, <3>2
      <4>2. ((SizeMod - 1) - SizeMod) % SizeMod = SizeMod - 1
        BY <1>1, <4>1, Wraps
      <4>3. QED BY <3>2, <4>1, <4>2 DEF Heap!Wrap
    <3>3. QED BY <3>1, <3>2
  <2>2. QED BY <2>1
<1>6. q \in Nat
  <2> DEFINE x == Heap!Wrap(m - 1)
             y == Heap!Wrap(x - 1)
  <2>1. m - 1 \in -1 .. SizeMod - 1
    BY <1>1
  <2>2. x \in 0 .. SizeMod - 1
    BY <1>5, <2>1
  <2> HIDE DEF x
  <2>3. x - 1 \in -1 .. SizeMod - 1
    BY <1>1, <2>2
  <2>4. y \in 0 .. SizeMod - 1
    BY <1>5, <2>3
  <2>5. q = y \div 2
    BY <1>1 DEF Heap!parent, x
  <2> HIDE DEF y, q
  <2>6. QED BY <1>1, <2>4, <2>5
<1>7. m > 1 => q = Heap!parent(m - 1)
  <2>1. m > 1 => m - 1 \in -1 .. SizeMod - 1 /\ m - 1 >= 0
    BY <1>1
  <2>2. QED BY <1>1, <1>5, <2>1
<1> HIDE DEF q
<1>8. CASE ~(q < m)
  <2>1. Heap!HeapFrom(h, q, o) = h
    BY <1>1, <1>8 DEF Heap!HeapFrom
  <2>2. \A i \in 1 .. m - 1 : FALSE
    <3>1. m > 1 => q \in 0 .. m - 2
      <4>1. m > 1 => m - 1 \in 1 .. m - 1
        BY <1>1
      <4>2. m > 1 => q \in 0 .. (m - 1) - 1
        BY <1>3, <1>7, <4>1
      <4>3. QED BY <1>1, <4>2
    <3>2. QED BY <1>1, <1>8, <3>1
  <2>3. QED BY <1>2, <2>1, <2>2 DEF Ordered
<1>9. CASE q < m
  <2>1. m \in 1 .. MaxElements /\ q \in 0 .. m - 1
    BY <1>1, <1>6, <1>9
  <2>2. OrderedFrom(h, o, m, q + 1)
    <3>1. ASSUME NEW i \in 1 .. m - 1 PROVE ~(Heap!parent(i) >= q + 1)
      <4> DEFINE p == Heap!parent(i)
                 z == Heap!parent(m - 1)
      <4>1. m - 1 \in 1 .. m - 1 /\ m > 1
        BY <1>1
      <4>2. p \in Nat /\ (i = 2 * p + 1 \/ i = 2 * p + 2)
        BY <1>3
      <4>3. z \in Nat /\ (m - 1 = 2 * z + 1 \/ m - 1 = 2 * z + 2) /\ q = z
        BY <1>3, <1>7, <4>1
      <4> HIDE DEF p, z
      <4>4. p <= z
        BY <1>1, <4>2, <4>3
      <4>5. ~(p >= q + 1)
        BY <4>2, <4>3, <4>4
      <4>6. QED BY <4>5 DEF p
    <3>2. QED BY <3>1 DEF OrderedFrom
  <2>3. QED BY <1>2, <1>4, <2>1, <2>2, MadeHeap
<1>10. QED BY <1>8, <1>9

-----------------------------------------------------------------------------
(* What a push does to the bag of the elements.                             *)
LEMMA AppendBag ==
  ASSUME NEW m \in Nat, NEW h \in Arrays(m), NEW x \in HeapElements
  PROVE  /\ Append(h, x) \in Arrays(m + 1)
         /\ \A k \in 0 .. m - 1 : Heap!At(Append(h, x), k) = Heap!At(h, k)
         /\ Heap!BagOf(Append(h, x)) = Heap!Abs!(+)(Heap!BagOf(h), Heap!Abs!SetToBag({x}))
<1> DEFINE g == Append(h, x)
           C(f, y) == Cardinality(Positions(f, y))
<1>1. h \in Seq(HeapElements) /\ Len(h) = m /\ DOMAIN h = 1 .. m
  BY BagIs DEF Arrays
<1>2. g \in Seq(HeapElements) /\ Len(g) = m + 1 /\ g[m + 1] = x /\ \A k \in 1 .. m : g[k] = h[k]
  BY <1>1
<1>3. g \in Arrays(m + 1)
  BY <1>2 DEF Arrays
<1>4. \A k \in 0 .. m - 1 : Heap!At(g, k) = Heap!At(h, k)
  <2>1. \A k \in 0 .. m - 1 : k + 1 \in 1 .. m
    OBVIOUS
  <2> HIDE DEF g
  <2>2. QED BY <1>2, <2>1 DEF Heap!At
<1> HIDE DEF g
<1>5. DOMAIN g = 1 .. m + 1 /\ m + 1 \in Nat
  BY <1>3, BagIs
<1>6. ASSUME NEW y PROVE C(g, y) = C(h, y) + (IF y = x THEN 1 ELSE 0) /\ C(h, y) \in Nat
  <2>1. IsFiniteSet(Positions(h, y)) /\ Cardinality(Positions(h, y)) \in Nat
    BY BagIs
  <2>2. CASE y = x
    <3>1. Positions(g, y) = Positions(h, y) \union {m + 1}
      BY <1>1, <1>2, <1>5, <2>2 DEF Positions
    <3>2. m + 1 \notin Positions(h, y)
      BY <1>1 DEF Positions
    <3>3. QED BY <2>1, <2>2, <3>1, <3>2, FS_AddElement
  <2>3. CASE y # x
    <3>1. Positions(g, y) = Positions(h, y)
      BY <1>1, <1>2, <1>5, <2>3 DEF Positions
    <3>2. QED BY <2>1, <2>3, <3>1
  <2>4. QED BY <2>2, <2>3
<1>7. /\ Heap!BagOf(g) = [y \in ToSet(g) |-> C(g, y)] /\ Heap!BagOf(h) = [y \in ToSet(h) |-> C(h, y)]
      /\ \A y : y \in ToSet(h) <=> C(h, y) # 0
      /\ \A y : y \in ToSet(g) <=> C(g, y) # 0
  BY <1>3, <1>5, BagIs
<1> HIDE DEF C
<1>8. ToSet(g) = ToSet(h) \union {x}
  BY <1>6, <1>7
<1> DEFINE b == Heap!BagOf(h)
           e == Heap!Abs!SetToBag({x})
           F(y) == (IF y \in DOMAIN b THEN b[y] ELSE 0) + (IF y \in DOMAIN e THEN e[y] ELSE 0)
<1>9. DOMAIN b = ToSet(h) /\ DOMAIN e = {x} /\ e[x] = 1 /\ \A y \in ToSet(h) : b[y] = C(h, y)
  BY <1>7 DEF Heap!Abs!SetToBag
<1>10. Heap!Abs!(+)(b, e) = [y \in DOMAIN b \union DOMAIN e |-> F(y)]
  BY Zenon DEF Heap!Abs!(+)
<1> HIDE DEF b, e
<1>11. \A y \in ToSet(h) \union {x} : F(y) = C(g, y)
  BY <1>6, <1>7, <1>9
<1> HIDE DEF F
<1>12. Heap!BagOf(g) = Heap!Abs!(+)(b, e)
  BY <1>7, <1>8, <1>9, <1>10, <1>11
<1>13. QED BY <1>3, <1>4, <1>12 DEF b, e, g

(* Taking an element out again.                                             *)
LEMMA TakenBag ==
  ASSUME NEW m \in Nat, NEW h \in Arrays(m), NEW x \in HeapElements
  PROVE  Heap!Abs!(-)(Heap!BagOf(Append(h, x)), Heap!Abs!SetToBag({x})) = Heap!BagOf(h)
<1> DEFINE b == Heap!BagOf(h)
           e == Heap!Abs!SetToBag({x})
           c == Heap!Abs!(+)(b, e)
           F(y) == IF y \in DOMAIN e THEN c[y] - e[y] ELSE c[y]
           D == [y \in DOMAIN c |-> F(y)]
<1>1. Heap!BagOf(Append(h, x)) = c
  BY AppendBag
<1>2. DOMAIN b = ToSet(h) /\ \A y \in ToSet(h) : b[y] \in Nat /\ b[y] # 0
  <2>1. /\ b = [y \in ToSet(h) |-> Cardinality(Positions(h, y))]
        /\ \A y : Cardinality(Positions(h, y)) \in Nat
        /\ \A y : y \in ToSet(h) <=> Cardinality(Positions(h, y)) # 0
    BY BagIs
  <2>2. QED BY <2>1
<1>3. DOMAIN e = {x} /\ e[x] = 1
  BY DEF Heap!Abs!SetToBag
<1>4. b = [y \in DOMAIN b |-> b[y]]
  <2>1. b = [y \in ToSet(h) |-> Cardinality(Positions(h, y))]
    BY BagIs
  <2>2. QED BY <2>1
<1> HIDE DEF b, e
<1>5. /\ DOMAIN c = DOMAIN b \union {x}
      /\ \A y \in DOMAIN b \union {x} :
           c[y] = (IF y \in DOMAIN b THEN b[y] ELSE 0) + (IF y = x THEN 1 ELSE 0)
  BY <1>3 DEF Heap!Abs!(+)
<1>6. Heap!Abs!(-)(c, e) = [y \in {d \in DOMAIN D : D[d] > 0} |-> D[y]]
  BY Zenon DEF Heap!Abs!(-)
<1> HIDE DEF c
<1>7. \A y \in DOMAIN c : F(y) = IF y \in DOMAIN b THEN b[y] ELSE 0
  <2>1. ASSUME NEW y \in DOMAIN c PROVE F(y) = IF y \in DOMAIN b THEN b[y] ELSE 0
    <3>1. CASE y = x
      BY <1>2, <1>3, <1>5, <3>1
    <3>2. CASE y # x
      BY <1>2, <1>3, <1>5, <3>2
    <3>3. QED BY <3>1, <3>2
  <2>2. QED BY <2>1
<1> HIDE DEF F
<1>8. DOMAIN D = DOMAIN c /\ \A y \in DOMAIN c : D[y] = F(y)
  OBVIOUS
<1> HIDE DEF D
<1>9. {d \in DOMAIN D : D[d] > 0} = DOMAIN b
  BY <1>2, <1>5, <1>7, <1>8
<1>10. \A y \in DOMAIN b : D[y] = b[y]
  BY <1>5, <1>7, <1>8
<1>11. Heap!Abs!(-)(c, e) = b
  BY <1>4, <1>6, <1>9, <1>10
<1>12. QED BY <1>1, <1>11 DEF b, e

(* A pushed element goes to the last place and rises.                       *)
LEMMA PushStep ==
  ASSUME NEW m \in Nat, m + 1 <= MaxElements, NEW h \in Arrays(m), NEW o \in Orders, NEW x \in HeapElements
  PROVE  /\ Heap!bubble_up(Append(h, x), Len(h), o) \in Arrays(m + 1)
         /\ Heap!BagOf(Heap!bubble_up(Append(h, x), Len(h), o))
              = Heap!Abs!(+)(Heap!BagOf(h), Heap!Abs!SetToBag({x}))
         /\ Ordered(h, o, m) => Ordered(Heap!bubble_up(Append(h, x), Len(h), o), o, m + 1)
<1> DEFINE g == Append(h, x)
           s == [heap |-> g, at |-> m]
<1>1. /\ m + 1 \in 1 .. MaxElements /\ m \in 0 .. (m + 1) - 1 /\ Len(h) = m
      /\ MaxElements \in Nat
  BY ContiguousAssumption DEF Heap!HeapAssumption, Arrays
<1>2. /\ g \in Arrays(m + 1) /\ \A k \in 0 .. m - 1 : Heap!At(g, k) = Heap!At(h, k)
      /\ Heap!BagOf(g) = Heap!Abs!(+)(Heap!BagOf(h), Heap!Abs!SetToBag({x}))
  BY AppendBag
<1> HIDE DEF g
<1>3. /\ Heap!bubble_up(g, m, o) \in Arrays(m + 1) /\ Heap!BagOf(Heap!bubble_up(g, m, o)) = Heap!BagOf(g)
      /\ UpOrdered([heap |-> g, at |-> m], o, m + 1) => Ordered(Heap!bubble_up(g, m, o), o, m + 1)
  BY <1>1, <1>2, BubbledUp
<1>4. ASSUME Ordered(h, o, m) PROVE UpOrdered(s, o, m + 1)
  <2>1. s.at = m /\ s.heap = g
    OBVIOUS
  <2> HIDE DEF s
  <2>2. ASSUME NEW i \in 1 .. (m + 1) - 1 PROVE Heap!parent(i) \in 0 .. i - 1
    <3>1. i \in 1 .. MaxElements
      BY <1>1
    <3>2. QED BY <3>1, Family
  <2>3. ASSUME NEW i \in 1 .. (m + 1) - 1, i # m PROVE Under(g, o, i, Heap!parent(i))
    <3>1. i \in 1 .. m - 1 /\ i \in 0 .. m - 1 /\ Heap!parent(i) \in 0 .. m - 1
      BY <2>2, <2>3
    <3>2. Under(h, o, i, Heap!parent(i))
      BY <1>4, <3>1 DEF Ordered
    <3>3. QED BY <1>2, <3>1, <3>2 DEF Under
  <2>4. \A i \in 1 .. (m + 1) - 1 : Heap!parent(i) # m
    BY <2>2
  <2>5. QED BY <2>1, <2>3, <2>4 DEF UpOrdered
<1>5. QED BY <1>1, <1>2, <1>3, <1>4 DEF g

(* The top of a heap in order is a least element.                           *)
LEMMA TopIsLeast ==
  ASSUME NEW m \in 1 .. MaxElements, NEW h \in Arrays(m), NEW o \in Orders, Ordered(h, o, m)
  PROVE  \A i \in 0 .. m - 1 : Under(h, o, i, 0)
<1>1. m \in Nat /\ m <= MaxElements /\ MaxElements \in Nat
  BY ContiguousAssumption DEF Heap!HeapAssumption
<1>2. \A i \in 0 .. m - 1 : Heap!At(h, i) \in HeapElements
  BY <1>1, ElementAt
<1> DEFINE S == {k \in 0 .. m - 1 : \A i \in 0 .. k : Under(h, o, i, 0)}
<1>3. 0 \in S
  <2>1. 0 \in 0 .. m - 1 /\ 0 .. 0 = {0}
    BY <1>1
  <2>2. Under(h, o, 0, 0)
    BY <1>2, <2>1, OrderOfHeap DEF Under
  <2>3. QED BY <2>1, <2>2
<1>4. ASSUME NEW k \in 0 .. (m - 1) - 1, k \in S PROVE k + 1 \in S
  <2>1. k + 1 \in 1 .. m - 1 /\ k + 1 \in 0 .. m - 1 /\ (k + 1) - 1 = k /\ k + 1 \in 1 .. MaxElements /\ 0 \in 0 .. m - 1
    BY <1>1
  <2>2. Heap!parent(k + 1) \in 0 .. k /\ Heap!parent(k + 1) \in 0 .. m - 1
    BY <1>1, <2>1, Family
  <2>3. Under(h, o, k + 1, Heap!parent(k + 1)) /\ Under(h, o, Heap!parent(k + 1), 0)
    BY <1>4, <2>1, <2>2 DEF Ordered
  <2>4. Under(h, o, k + 1, 0)
    <3>1. /\ Heap!At(h, k + 1) \in HeapElements /\ Heap!At(h, Heap!parent(k + 1)) \in HeapElements
          /\ Heap!At(h, 0) \in HeapElements
      BY <1>2, <2>1, <2>2
    <3>2. QED BY <2>3, <3>1, OrderOfHeap DEF Under
  <2>5. \A i \in 0 .. k + 1 : i = k + 1 \/ i \in 0 .. k
    OBVIOUS
  <2>6. QED BY <1>4, <2>1, <2>4, <2>5
<1>5. \A k \in 0 .. m - 1 : k \in S
  <2> HIDE DEF S
  <2>1. m - 1 \in Nat
    BY <1>1
  <2>2. QED BY <1>3, <1>4, <2>1, UpTo
<1>6. QED BY <1>5

(* A pop takes out the top, moves the last element there and lets it sink.  *)
LEMMA PopStep ==
  ASSUME NEW m \in Nat, m + 1 <= MaxElements, NEW h \in Arrays(m + 1), NEW o \in Orders
  PROVE  /\ Heap!bubble_down(Heap!Popped(h), 0, o) \in Arrays(m)
         /\ Heap!BagOf(Heap!bubble_down(Heap!Popped(h), 0, o))
              = Heap!Abs!(-)(Heap!BagOf(h), Heap!Abs!SetToBag({h[1]}))
         /\ Ordered(h, o, m + 1) => Ordered(Heap!bubble_down(Heap!Popped(h), 0, o), o, m)
<1> DEFINE x == Heap!At(h, 0)
           g == Heap!swap(h, 0, m)
           p == Heap!Popped(h)
<1>1. m + 1 \in Nat /\ 0 \in 0 .. (m + 1) - 1 /\ m \in 0 .. (m + 1) - 1 /\ Len(h) = m + 1 /\ Len(h) - 1 = m
  BY DEF Arrays
<1>2. g \in Arrays(m + 1) /\ Swapped(g, h, m + 1, 0, m) /\ Heap!BagOf(g) = Heap!BagOf(h)
  BY <1>1, SwapAt, SwapBag
<1>3. x \in HeapElements /\ x = h[1]
  <2>1. x \in HeapElements
    BY <1>1, ElementAt
  <2>2. 0 + 1 = 1
    OBVIOUS
  <2>3. QED BY <2>1, <2>2 DEF Heap!At
<1>4. p = SubSeq(g, 1, Len(g) - 1)
  BY <1>1 DEF Heap!Popped, Heap!Front
<1>5. /\ Heap!At(g, m) = x
      /\ \A k \in 1 .. m - 1 : Heap!At(g, k) = Heap!At(h, k)
  <2>1. \A k \in 1 .. m - 1 : k \in 0 .. (m + 1) - 1 /\ k # m /\ k # 0
    OBVIOUS
  <2> HIDE DEF g
  <2>2. QED BY <1>1, <1>2, <2>1 DEF Swapped
<1> HIDE DEF g, x, p
<1>6. p \in Arrays(m) /\ \A k \in 0 .. m - 1 : Heap!At(p, k) = Heap!At(g, k)
  <2>1. g \in Seq(HeapElements) /\ Len(g) = m + 1
    BY <1>2 DEF Arrays
  <2>2. p \in Seq(HeapElements) /\ Len(p) = m /\ \A k \in 1 .. m : p[k] = g[k]
    <3>1. 1 \in Int /\ m \in Int /\ 1 <= 1 /\ m <= Len(g) /\ 1 <= m + 1 /\ Len(g) - 1 = m
      BY <2>1
    <3>2. p = SubSeq(g, 1, m)
      BY <1>4, <3>1
    <3>3. p \in Seq(HeapElements) /\ Len(p) = m - 1 + 1 /\ \A k \in 1 .. m - 1 + 1 : p[k] = g[1 + k - 1]
      BY <2>1, <3>1, <3>2, Slice
    <3>4. m - 1 + 1 = m /\ \A k \in 1 .. m : 1 + k - 1 = k
      OBVIOUS
    <3>5. QED BY <3>3, <3>4
  <2>3. \A k \in 0 .. m - 1 : k + 1 \in 1 .. m
    OBVIOUS
  <2>4. QED BY <2>2, <2>3 DEF Arrays, Heap!At
<1>7. Append(p, x) = g
  <2>1. p \in Seq(HeapElements) /\ Len(p) = m /\ g \in Seq(HeapElements) /\ Len(g) = m + 1
    BY <1>2, <1>6 DEF Arrays
  <2>2. \A k \in 1 .. m : p[k] = g[k]
    <3>1. ASSUME NEW k \in 1 .. m PROVE p[k] = g[k]
      <4>1. k - 1 \in 0 .. m - 1 /\ (k - 1) + 1 = k
        OBVIOUS
      <4>2. QED BY <1>6, <4>1 DEF Heap!At
    <3>2. QED BY <3>1
  <2>3. g[m + 1] = x
    BY <1>5 DEF Heap!At
  <2>4. QED BY <1>3, <2>1, <2>2, <2>3
<1>8. Heap!BagOf(p) = Heap!Abs!(-)(Heap!BagOf(h), Heap!Abs!SetToBag({h[1]}))
  BY <1>2, <1>3, <1>6, <1>7, TakenBag
<1>9. CASE m = 0
  <2>1. p = << >> /\ Len(p) = 0
    BY <1>6, <1>9, EmptySeq DEF Arrays
  <2> DEFINE start == [heap |-> p, at |-> 0]
             u == CHOOSE f : f = DownSteps(f, p, 0, o)
             f0 == [k \in 0 .. 0 |-> start]
  <2>2. 0 .. 0 = {0}
    OBVIOUS
  <2>3. \A f : DownSteps(f, p, 0, o) = f0
    <3>1. \A f : \A k \in 0 .. 0 : (IF k = 0 THEN start ELSE Heap!Sunk(f[k - 1], o)) = start
      BY <2>2
    <3>2. \A f : DownSteps(f, p, 0, o) = [k \in 0 .. 0 |-> IF k = 0 THEN start ELSE Heap!Sunk(f[k - 1], o)]
      BY <2>1 DEF DownSteps
    <3> HIDE DEF start
    <3>3. QED BY <3>1, <3>2
  <2>4. u = f0
    BY <2>3
  <2>5. Heap!bubble_down(p, 0, o) = u[0].heap
    BY <2>1, Zenon DEF Heap!bubble_down, DownSteps
  <2> HIDE DEF u
  <2>6. Heap!bubble_down(p, 0, o) = p
    BY <2>2, <2>4, <2>5
  <2>7. Ordered(p, o, m)
    <3>1. \A i \in 1 .. m - 1 : FALSE
      BY <1>9
    <3>2. QED BY <3>1 DEF Ordered
  <2>8. QED BY <1>6, <1>8, <2>6, <2>7 DEF p
<1>10. CASE m # 0
  <2> DEFINE s == [heap |-> p, at |-> 0]
             q == Heap!bubble_down(p, 0, o)
  <2>1. m \in 1 .. MaxElements /\ 0 \in 0 .. m - 1 /\ 0 \in Nat /\ m <= MaxElements /\ MaxElements \in Nat
    BY <1>10, ContiguousAssumption DEF Heap!HeapAssumption
  <2>2. s.at = 0 /\ s.heap = p
    OBVIOUS
  <2>3. ASSUME NEW i \in 1 .. m PROVE Heap!parent(i) \in 0 .. i - 1
    <3>1. i \in 1 .. MaxElements
      BY <2>1
    <3>2. QED BY <3>1, Family
  <2> HIDE DEF s
  <2>4. DownOrdered(s, o, m, m)
    <3>1. ASSUME NEW i \in 1 .. m - 1 PROVE ~(Heap!parent(i) >= m)
      <4>1. Heap!parent(i) \in 0 .. i - 1
        BY <2>3
      <4>2. QED BY <2>1, <4>1
    <3>2. QED BY <2>2, <3>1 DEF DownOrdered
  <2>5. q \in Arrays(m) /\ Heap!BagOf(q) = Heap!BagOf(p)
    BY <1>6, <2>1, <2>4, BubbledDown DEF s
  <2>6. ASSUME Ordered(h, o, m + 1) PROVE DownOrdered(s, o, m, 0)
    <3>1. ASSUME NEW i \in 1 .. m - 1, Heap!parent(i) # 0 PROVE Under(p, o, i, Heap!parent(i))
      <4>1. i \in 1 .. m /\ Heap!parent(i) \in 0 .. i - 1
        BY <2>1, <2>3
      <4>2. /\ i \in 1 .. (m + 1) - 1 /\ i \in 0 .. m - 1
            /\ Heap!parent(i) \in 0 .. m - 1 /\ Heap!parent(i) \in 1 .. m - 1
        BY <2>1, <3>1, <4>1
      <4>3. Under(h, o, i, Heap!parent(i))
        BY <2>6, <4>2 DEF Ordered
      <4>4. Heap!At(p, i) = Heap!At(h, i) /\ Heap!At(p, Heap!parent(i)) = Heap!At(h, Heap!parent(i))
        BY <1>5, <1>6, <4>2
      <4>5. QED BY <4>3, <4>4 DEF Under
    <3>2. QED BY <2>2, <3>1 DEF DownOrdered
  <2>7. DownOrdered(s, o, m, 0) => OrderedFrom(q, o, m, 0)
    BY <1>6, <2>1, BubbledDown DEF s
  <2>8. OrderedFrom(q, o, m, 0) => Ordered(q, o, m)
    <3>1. \A i \in 1 .. m - 1 : Heap!parent(i) >= 0
      <4>1. ASSUME NEW i \in 1 .. m - 1 PROVE Heap!parent(i) >= 0
        <5>1. Heap!parent(i) \in 0 .. i - 1
          BY <2>3
        <5>2. QED BY <5>1
      <4>2. QED BY <4>1
    <3>2. QED BY <3>1 DEF OrderedFrom, Ordered
  <2>9. QED BY <1>8, <2>5, <2>6, <2>7, <2>8 DEF p
<1>11. QED BY <1>9, <1>10

(* A range goes in behind the elements: it adds each of its own as often as *)
(* it has it.                                                               *)
LEMMA RangeBag ==
  ASSUME NEW m \in Nat, NEW h \in Arrays(m), NEW xs \in Seq(HeapElements)
  PROVE  /\ h \o xs \in Arrays(m + Len(xs))
         /\ Heap!BagOf(h \o xs) = Heap!Abs!(+)(Heap!BagOf(h), Heap!BagOf(xs))
<1> DEFINE g == h \o xs
           w == Len(xs)
           l == m + w
           C(f, y) == Cardinality(Positions(f, y))
<1>1. h \in Seq(HeapElements) /\ Len(h) = m /\ DOMAIN h = 1 .. m /\ w \in Nat /\ xs \in Arrays(w)
  BY BagIs DEF Arrays
<1>2. /\ g \in Seq(HeapElements) /\ Len(g) = l /\ \A k \in 1 .. m : g[k] = h[k]
      /\ \A k \in 1 .. w : g[m + k] = xs[k]
  BY <1>1
<1>3. g \in Arrays(l) /\ l \in Nat
  BY <1>1, <1>2 DEF Arrays
<1> HIDE DEF g, w
<1>4. DOMAIN g = 1 .. l /\ DOMAIN xs = 1 .. w
  BY <1>1, <1>3, BagIs
<1>5. ASSUME NEW y
      PROVE  C(g, y) = C(h, y) + C(xs, y) /\ C(h, y) \in Nat /\ C(xs, y) \in Nat
  <2> DEFINE A == Positions(h, y)
             B == Positions(xs, y)
             D == {k \in 1 .. l : k > m /\ g[k] = y}
             e == [k \in B |-> m + k]
  <2>1. IsFiniteSet(A) /\ IsFiniteSet(B) /\ Cardinality(A) \in Nat /\ Cardinality(B) \in Nat
    BY <1>1, BagIs
  <2>2. \A k \in 1 .. w : m + k \in 1 .. l /\ m + k > m
    BY <1>1
  <2>3. \A k \in 1 .. l : k > m => k - m \in 1 .. w /\ m + (k - m) = k
    BY <1>1
  <2>4. B = {k \in 1 .. w : xs[k] = y}
    BY <1>4 DEF Positions
  <2>5. \A k \in B : e[k] \in D
    BY <1>2, <2>2, <2>4
  <2>6. \A d \in D : \E b \in B : e[b] = d
    <3>1. ASSUME NEW d \in D PROVE \E b \in B : e[b] = d
      <4>1. d - m \in 1 .. w /\ m + (d - m) = d /\ g[d] = y
        BY <2>3
      <4>2. xs[d - m] = g[m + (d - m)]
        BY <1>2, <4>1
      <4>3. d - m \in B
        BY <2>4, <4>1, <4>2
      <4>4. QED BY <4>1, <4>3
    <3>2. QED BY <3>1
  <2>7. \A a, b \in B : e[a] = e[b] => a = b
    <3>1. \A a, b \in 1 .. w : m + a = m + b => a = b
      BY <1>1
    <3>2. QED BY <2>4, <3>1
  <2>8. e \in [B -> D]
    BY <2>5
  <2>9. A \cap D = {} /\ Positions(g, y) = A \union D
    <3>1. \A k \in 1 .. l : k > m \/ k \in 1 .. m
      BY <1>1
    <3>2. \A k \in 1 .. m : k \in 1 .. l /\ ~(k > m)
      BY <1>1
    <3>3. A = {k \in 1 .. m : h[k] = y} /\ Positions(g, y) = {k \in 1 .. l : g[k] = y}
      BY <1>1, <1>4 DEF Positions
    <3>4. QED BY <1>2, <3>1, <3>2, <3>3
  <2> HIDE DEF A, B, D, e
  <2>10. e \in Bijection(B, D)
    BY <2>6, <2>7, <2>8, Zenon DEF Bijection, Injection, Surjection, IsInjective
  <2>11. ExistsBijection(B, D)
    BY <2>10 DEF ExistsBijection
  <2>12. IsFiniteSet(D) /\ Cardinality(D) = Cardinality(B)
    BY <2>1, <2>11, FS_Bijection
  <2>13. Cardinality(A \union D) = Cardinality(A) + Cardinality(D)
    <3>1. Cardinality(A \union D) = Cardinality(A) + Cardinality(D) - Cardinality(A \cap D)
      BY <2>1, <2>12, FS_Union
    <3>2. Cardinality(A \cap D) = 0
      BY <2>9, FS_EmptySet
    <3>3. QED BY <2>1, <2>12, <3>1, <3>2
  <2>14. QED BY <2>1, <2>9, <2>12, <2>13 DEF A, B
<1>6. /\ Heap!BagOf(g) = [y \in ToSet(g) |-> C(g, y)] /\ Heap!BagOf(h) = [y \in ToSet(h) |-> C(h, y)]
      /\ Heap!BagOf(xs) = [y \in ToSet(xs) |-> C(xs, y)]
      /\ \A y : y \in ToSet(h) <=> C(h, y) # 0
      /\ \A y : y \in ToSet(g) <=> C(g, y) # 0
      /\ \A y : y \in ToSet(xs) <=> C(xs, y) # 0
  BY <1>1, <1>3, BagIs
<1> HIDE DEF C
<1>7. ToSet(g) = ToSet(h) \union ToSet(xs)
  BY <1>5, <1>6
<1> DEFINE b == Heap!BagOf(h)
           e == Heap!BagOf(xs)
           F(y) == (IF y \in DOMAIN b THEN b[y] ELSE 0) + (IF y \in DOMAIN e THEN e[y] ELSE 0)
<1>8. /\ DOMAIN b = ToSet(h) /\ \A y \in ToSet(h) : b[y] = C(h, y)
      /\ DOMAIN e = ToSet(xs) /\ \A y \in ToSet(xs) : e[y] = C(xs, y)
  BY <1>6
<1>9. Heap!Abs!(+)(b, e) = [y \in DOMAIN b \union DOMAIN e |-> F(y)]
  BY Zenon DEF Heap!Abs!(+)
<1> HIDE DEF b, e
<1>10. \A y \in ToSet(h) \union ToSet(xs) : F(y) = C(g, y)
  BY <1>5, <1>6, <1>8
<1> HIDE DEF F
<1>11. Heap!BagOf(g) = Heap!Abs!(+)(b, e)
  BY <1>6, <1>7, <1>8, <1>9, <1>10
<1>12. QED BY <1>3, <1>11 DEF b, e, g, w

(* What was handed in, as a bag.                                            *)
LEMMA GivenBag ==
  ASSUME NEW xs \in Seq(HeapElements)
  PROVE  /\ Heap!Abs!IsABag(Heap!BagOf(xs))
         /\ Heap!Abs!BagToSet(Heap!BagOf(xs)) \subseteq HeapElements
<1> DEFINE w == Len(xs)
           C(y) == Cardinality(Positions(xs, y))
<1>1. w \in Nat /\ xs \in Arrays(w)
  BY DEF Arrays
<1>2. /\ Heap!BagOf(xs) = [y \in ToSet(xs) |-> C(y)] /\ ToSet(xs) \subseteq HeapElements
      /\ \A y : C(y) \in Nat /\ (y \in ToSet(xs) <=> C(y) # 0)
  BY <1>1, BagIs
<1> HIDE DEF C
<1>3. \A y \in ToSet(xs) : C(y) \in {k \in Nat : k > 0}
  BY <1>2
<1>4. Heap!BagOf(xs) \in [ToSet(xs) -> {k \in Nat : k > 0}] /\ DOMAIN Heap!BagOf(xs) = ToSet(xs)
  BY <1>2, <1>3
<1>5. QED BY <1>2, <1>4 DEF Heap!Abs!IsABag, Heap!Abs!BagToSet

LEMMA OneGiven ==
  ASSUME NEW x \in HeapElements
  PROVE  Heap!BagOf(<<x>>) = Heap!Abs!SetToBag({x})
<1>1. <<x>> \in Arrays(1) /\ 1 \in Nat
  BY DEF Arrays
<1>2. /\ Heap!BagOf(<<x>>) = [y \in ToSet(<<x>>) |-> Cardinality(Positions(<<x>>, y))]
      /\ DOMAIN <<x>> = 1 .. 1
  BY <1>1, BagIs
<1>3. ToSet(<<x>>) = {x} /\ Positions(<<x>>, x) = {1}
  <2>1. 1 .. 1 = {1} /\ <<x>>[1] = x
    OBVIOUS
  <2>2. QED BY <1>2, <2>1 DEF ToSet, Positions
<1>4. Cardinality({1}) = 1
  BY FS_Singleton
<1>5. QED BY <1>2, <1>3, <1>4 DEF Heap!Abs!SetToBag

-----------------------------------------------------------------------------
(* The array of the priority queue at every moment: while it is settled, no *)
(* element comes before the one at its parent.                              *)
HeapTyped ==
  /\ heap \in Seq(HeapElements) /\ Len(heap) <= MaxElements
  /\ order \in Orders /\ settled \in BOOLEAN
HeapInv == HeapTyped /\ (settled => Ordered(heap, order, Len(heap)))

(* An empty queue is an empty bag.                                          *)
LEMMA EmptyHeap ==
  ASSUME NEW m \in Nat, NEW h \in Arrays(m)
  PROVE  /\ h = << >> <=> m = 0
         /\ h = << >> <=> Heap!BagOf(h) = Heap!Abs!EmptyBag
<1>1. h \in Seq(HeapElements) /\ Len(h) = m /\ DOMAIN h = 1 .. m
  BY BagIs DEF Arrays
<1>2. h = << >> <=> m = 0
  BY <1>1, EmptySeq
<1>3. DOMAIN Heap!Abs!EmptyBag = {}
  BY DEF Heap!Abs!EmptyBag, Heap!Abs!SetToBag
<1>4. DOMAIN Heap!BagOf(h) = ToSet(h)
  <2>1. Heap!BagOf(h) = [x \in ToSet(h) |-> Cardinality(Positions(h, x))]
    BY BagIs
  <2>2. QED BY <2>1
<1>5. m # 0 => ToSet(h) # {}
  <2>1. m # 0 => 1 \in DOMAIN h
    BY <1>1
  <2>2. QED BY <2>1 DEF ToSet
<1>6. m = 0 => Heap!BagOf(h) = Heap!Abs!EmptyBag
  <2>1. SUFFICES ASSUME m = 0 PROVE Heap!BagOf(h) = Heap!Abs!EmptyBag
    OBVIOUS
  <2>2. ToSet(h) = {}
    BY <1>1, <2>1 DEF ToSet
  <2>3. Heap!BagOf(h) = [x \in ToSet(h) |-> Cardinality(Positions(h, x))]
    BY BagIs
  <2>4. QED BY <2>2, <2>3 DEF Heap!Abs!EmptyBag, Heap!Abs!SetToBag
<1>7. QED BY <1>2, <1>3, <1>4, <1>5, <1>6

(* Nothing handed in is an empty bag too.                                   *)
LEMMA NoneGiven == Heap!BagOf(<< >>) = Heap!Abs!EmptyBag
<1>1. << >> \in Arrays(0) /\ 0 \in Nat
  BY DEF Arrays
<1>2. QED BY <1>1, EmptyHeap

LEMMA HeapPushes ==
  ASSUME HeapInv, Heap!push_pqueue
  PROVE  HeapInv' /\ Heap!Abs!Push
<1>1. PICK x \in HeapElements :
        /\ Len(heap) < MaxElements
        /\ heap' = Heap!bubble_up(Append(heap, x), Len(heap), order)
        /\ given' = <<x>>
        /\ UNCHANGED <<order, settled>>
  BY DEF Heap!push_pqueue, Heap!Pushed
<1> DEFINE m == Len(heap)
<1>2. /\ heap \in Arrays(m) /\ m \in Nat /\ m + 1 <= MaxElements /\ order \in Orders
      /\ MaxElements \in Nat
  BY <1>1, ContiguousAssumption DEF HeapInv, HeapTyped, Arrays, Heap!HeapAssumption
<1>3. /\ heap' \in Arrays(m + 1)
      /\ Heap!BagOf(heap') = Heap!Abs!(+)(Heap!BagOf(heap), Heap!Abs!SetToBag({x}))
      /\ Ordered(heap, order, m) => Ordered(heap', order, m + 1)
  <2> HIDE DEF m
  <2>1. Len(heap) = m
    BY DEF m
  <2>2. QED BY <1>1, <1>2, <2>1, PushStep
<1>4. HeapInv'
  <2>1. heap' \in Seq(HeapElements) /\ Len(heap') = m + 1
    BY <1>3 DEF Arrays
  <2>2. settled => Ordered(heap, order, m)
    BY DEF HeapInv
  <2> HIDE DEF m
  <2>3. QED BY <1>1, <1>2, <1>3, <2>1, <2>2 DEF HeapInv, HeapTyped
<1>5. Heap!Abs!Push
  <2>1. Heap!BagOf(given') = Heap!Abs!SetToBag({x})
    BY <1>1, OneGiven
  <2>2. QED BY <1>1, <1>3, <2>1 DEF Heap!Abs!Push
<1>6. QED BY <1>4, <1>5

LEMMA HeapTakesRange ==
  ASSUME HeapInv, Heap!push_range_pqueue
  PROVE  HeapInv' /\ Heap!Abs!PushRange
<1>1. PICK xs \in Heap!BoundedSeq(HeapElements, MaxPushed) :
        /\ Len(heap) + Len(xs) <= MaxElements
        /\ heap' = Heap!make_heap(heap \o xs, order)
        /\ given' = xs
        /\ settled' = TRUE
        /\ UNCHANGED order
  BY DEF Heap!push_range_pqueue
<1> DEFINE m == Len(heap)
           l == m + Len(xs)
           g == heap \o xs
<1>2. heap \in Arrays(m) /\ m \in Nat /\ order \in Orders /\ MaxElements \in Nat
  BY ContiguousAssumption DEF HeapInv, HeapTyped, Arrays, Heap!HeapAssumption
<1>3. xs \in Seq(HeapElements)
  <2>1. PICK k \in 0 .. MaxPushed : xs \in [1 .. k -> HeapElements]
    BY DEF Heap!BoundedSeq, Heap!SeqOf
  <2>2. k \in Nat
    OBVIOUS
  <2>3. QED BY <2>1, <2>2
<1>4. Len(xs) \in Nat
  BY <1>3
<1>5. g \in Arrays(l) /\ Heap!BagOf(g) = Heap!Abs!(+)(Heap!BagOf(heap), Heap!BagOf(xs))
  BY <1>2, <1>3, RangeBag
<1>6. l \in 0 .. MaxElements
  BY <1>1, <1>2, <1>4
<1> HIDE DEF g, l
<1>7. heap' \in Arrays(l) /\ Ordered(heap', order, l) /\ Heap!BagOf(heap') = Heap!BagOf(g)
  BY <1>1, <1>2, <1>5, <1>6, MakeHeap DEF g
<1>8. HeapInv'
  <2>1. heap' \in Seq(HeapElements) /\ Len(heap') = l
    BY <1>7 DEF Arrays
  <2>2. QED BY <1>1, <1>2, <1>6, <1>7, <2>1 DEF HeapInv, HeapTyped
<1>9. /\ Heap!Abs!IsABag(Heap!BagOf(given'))
      /\ Heap!Abs!BagToSet(Heap!BagOf(given')) \subseteq HeapElements
  BY <1>1, <1>3, GivenBag
<1>10. Heap!Abs!PushRange
  BY <1>1, <1>5, <1>7, <1>9 DEF Heap!Abs!PushRange
<1>11. QED BY <1>8, <1>10

LEMMA HeapPops ==
  ASSUME HeapInv, Heap!pop_pqueue
  PROVE  HeapInv' /\ Heap!Abs!Pop
<1> DEFINE m == Len(heap) - 1
           x == heap[1]
<1>1. /\ heap # << >> /\ heap' = Heap!bubble_down(Heap!Popped(heap), 0, order)
      /\ settled' = (settled \/ heap' = << >>) /\ order' = order /\ given' = << >>
  BY DEF Heap!pop_pqueue
<1>2. /\ heap \in Seq(HeapElements) /\ Len(heap) \in Nat /\ Len(heap) # 0 /\ Len(heap) <= MaxElements
      /\ order \in Orders /\ settled \in BOOLEAN /\ MaxElements \in Nat
  BY <1>1, EmptySeq, ContiguousAssumption DEF HeapInv, HeapTyped, Heap!HeapAssumption
<1>3. m \in Nat /\ m + 1 = Len(heap) /\ m + 1 <= MaxElements /\ m + 1 \in Nat /\ m + 1 \in 1 .. MaxElements
  BY <1>2
<1>4. heap \in Arrays(m + 1)
  BY <1>2, <1>3 DEF Arrays
<1> HIDE DEF m
<1>5. /\ heap' \in Arrays(m)
      /\ Heap!BagOf(heap') = Heap!Abs!(-)(Heap!BagOf(heap), Heap!Abs!SetToBag({x}))
      /\ Ordered(heap, order, m + 1) => Ordered(heap', order, m)
  BY <1>1, <1>2, <1>3, <1>4, PopStep
<1>6. settled => Ordered(heap, order, m + 1)
  BY <1>3 DEF HeapInv
<1>7. Len(heap') = m /\ heap' \in Seq(HeapElements) /\ (heap' = << >> <=> m = 0)
      /\ (heap' = << >> <=> Heap!BagOf(heap') = Heap!Abs!EmptyBag)
  BY <1>3, <1>5, EmptyHeap DEF Arrays
<1>8. HeapInv'
  <2>1. HeapTyped'
    <3>1. m <= MaxElements
      BY <1>2, <1>3
    <3>2. settled' \in BOOLEAN
      BY <1>1
    <3>3. QED BY <1>1, <1>2, <1>7, <3>1, <3>2 DEF HeapTyped
  <2>2. m = 0 => Ordered(heap', order, m)
    <3>1. m = 0 => \A i \in 1 .. m - 1 : FALSE
      OBVIOUS
    <3>2. QED BY <3>1 DEF Ordered
  <2>3. settled' => Ordered(heap', order', Len(heap'))
    BY <1>1, <1>5, <1>6, <1>7, <2>2
  <2>4. QED BY <2>1, <2>3 DEF HeapInv
<1>9. /\ Heap!Abs!BagToSet(Heap!BagOf(heap)) = ToSet(heap)
      /\ x \in ToSet(heap)
  <2>1. Heap!BagOf(heap) = [y \in ToSet(heap) |-> Cardinality(Positions(heap, y))]
    BY <1>3, <1>4, BagIs
  <2>2. DOMAIN Heap!BagOf(heap) = ToSet(heap)
    BY <2>1
  <2>3. 1 \in DOMAIN heap
    BY <1>2
  <2>4. QED BY <2>2, <2>3 DEF Heap!Abs!BagToSet, ToSet
<1>10. ASSUME settled PROVE x \in Heap!Abs!Least(order, Heap!BagOf(heap))
  <2>1. \A i \in 0 .. (m + 1) - 1 : Under(heap, order, i, 0)
    BY <1>2, <1>3, <1>4, <1>6, <1>10, TopIsLeast
  <2>2. ASSUME NEW y \in ToSet(heap) PROVE ~Heap!Before(order, y, x)
    <3>1. PICK k \in 1 .. Len(heap) : y = heap[k]
      BY <1>2 DEF ToSet
    <3>2. k - 1 \in 0 .. (m + 1) - 1 /\ (k - 1) + 1 = k /\ 0 + 1 = 1
      BY <1>3
    <3>3. Under(heap, order, k - 1, 0)
      BY <2>1, <3>2
    <3>4. QED BY <3>1, <3>2, <3>3 DEF Under, NotBefore, Heap!At
  <2>3. \A y \in ToSet(heap) : ~Heap!Abs!Before(order, y, x)
    BY <2>2 DEF Heap!Before, Heap!Abs!Before
  <2>4. QED BY <1>9, <2>3 DEF Heap!Abs!Least
<1> HIDE DEF x
<1>11. Heap!Abs!Pop
  <2>1. Heap!BagOf(given') = Heap!Abs!EmptyBag
    BY <1>1, NoneGiven
  <2>2. QED BY <1>1, <1>5, <1>7, <1>9, <1>10, <2>1 DEF Heap!Abs!Pop
<1>12. QED BY <1>8, <1>11

LEMMA HeapReorders ==
  ASSUME HeapInv, Heap!set_comparator_pqueue
  PROVE  HeapInv' /\ Heap!Abs!SetOrder
<1>1. /\ order' \in Orders /\ heap' = heap /\ given' = << >>
      /\ settled' = (heap = << >> \/ (settled /\ order' = order))
  BY DEF Heap!set_comparator_pqueue
<1> DEFINE m == Len(heap)
<1>2. heap \in Arrays(m) /\ m \in Nat
  BY DEF HeapInv, HeapTyped, Arrays
<1>3. (heap = << >> <=> m = 0) /\ (heap = << >> <=> Heap!BagOf(heap) = Heap!Abs!EmptyBag)
  BY <1>2, EmptyHeap
<1>4. Heap!Abs!SetOrder
  <2>1. Heap!BagOf(given') = Heap!Abs!EmptyBag
    BY <1>1, NoneGiven
  <2>2. QED BY <1>1, <1>3, <2>1 DEF Heap!Abs!SetOrder
<1>5. settled' => Ordered(heap', order', Len(heap'))
  <2>1. CASE heap = << >>
    <3>1. \A i \in 1 .. m - 1 : FALSE
      BY <1>3, <2>1
    <3>2. QED BY <1>1, <3>1 DEF Ordered
  <2>2. CASE settled /\ order' = order
    BY <1>1, <2>2 DEF HeapInv
  <2>3. QED BY <1>1, <2>1, <2>2
<1>6. HeapTyped'
  BY <1>1 DEF HeapInv, HeapTyped
<1>7. QED BY <1>4, <1>5, <1>6 DEF HeapInv

LEMMA HeapRefines ==
  /\ InitAny => HeapInv /\ Heap!Abs!Init
  /\ HeapInv /\ [NextAny]_allVars =>
       HeapInv' /\ [Heap!Abs!Next]_<<Heap!BagOf(heap), order, settled, Heap!BagOf(given)>>
<1>1. InitAny => HeapInv /\ Heap!Abs!Init
  <2>1. ASSUME InitAny PROVE HeapInv /\ Heap!Abs!Init
    <3>1. heap = << >> /\ order \in Orders /\ settled = TRUE /\ given = << >>
      BY <2>1 DEF InitAny, Heap!Init
    <3>2. heap \in Seq(HeapElements) /\ Len(heap) = 0 /\ 0 \in Nat /\ heap \in Arrays(0)
      BY <3>1 DEF Arrays
    <3>3. Heap!BagOf(heap) = Heap!Abs!EmptyBag
      BY <3>1, <3>2, EmptyHeap
    <3>4. Ordered(heap, order, Len(heap))
      <4>1. \A i \in 1 .. Len(heap) - 1 : FALSE
        BY <3>2
      <4>2. QED BY <4>1 DEF Ordered
    <3>5. 0 <= MaxElements
      BY ContiguousAssumption DEF Heap!HeapAssumption
    <3>6. Heap!BagOf(given) = Heap!Abs!EmptyBag
      BY <3>1, NoneGiven
    <3>7. QED BY <3>1, <3>2, <3>3, <3>4, <3>5, <3>6 DEF HeapInv, HeapTyped, Heap!Abs!Init
  <2>2. QED BY <2>1
<1>2. ASSUME HeapInv, Heap!Next PROVE HeapInv' /\ Heap!Abs!Next
  BY <1>2, HeapPushes, HeapTakesRange, HeapPops, HeapReorders DEF Heap!Next, Heap!Abs!Next
<1>3. ASSUME HeapInv, UNCHANGED heapVars
      PROVE  HeapInv' /\ UNCHANGED <<Heap!BagOf(heap), order, settled, Heap!BagOf(given)>>
  BY <1>3 DEF heapVars, HeapInv, HeapTyped
<1>4. [NextAny]_allVars => Heap!Next \/ UNCHANGED heapVars
  BY DEF NextAny, allVars
<1>5. QED BY <1>1, <1>2, <1>3, <1>4

(* The priority queue stays a heap under its comparison function, from      *)
(* create_pqueue on, through bubble_up, bubble_down and make_heap.          *)
THEOREM HeapStaysOrdered == SpecAny => []HeapOrdered
<1>1. HeapInv => HeapOrdered
  BY DEF HeapInv, HeapOrdered, Heap!HeapOrdered, Ordered, Under, NotBefore
<1>2. QED BY <1>1, HeapRefines, PTL DEF SpecAny

(* The array of pqueue.c implements the bag that PriorityQueue promises: a  *)
(* push and a pushed range add what was handed in, each element as often as *)
(* it was given; a pop takes out one element, and one of the least unless   *)
(* the comparison function of a queue with elements was changed; nothing    *)
(* else changes the bag.                                                    *)
THEOREM HeapIsPriorityQueue == SpecAny => HeapAbsSpec
<1>1. QED BY HeapRefines, PTL DEF SpecAny, HeapAbsSpec, Heap!AbsSpec, Heap!Abs!Spec

-----------------------------------------------------------------------------
(* The buffers, and the place of a span in one.                             *)
Buffers == [Sp!Indices -> BufferValues]

LEMMA SpanShape ==
  ASSUME NEW s \in Sp!Slices
  PROVE  /\ s.first \in Nat /\ s.nmemb \in Nat /\ s.first + s.nmemb <= BufferSize
         /\ BufferSize \in Nat
         /\ \A i \in 0 .. s.nmemb - 1 : s.first + i \in Sp!InSpan(s)
         /\ Sp!InSpan(s) \subseteq Sp!Indices
         /\ \A j \in Sp!InSpan(s) : j - s.first \in 0 .. s.nmemb - 1 /\ s.first + (j - s.first) = j
<1>1. BufferSize \in Nat
  BY ContiguousAssumption DEF Sp!SpansAssumption
<1>2. PICK p \in (0 .. BufferSize) \X (0 .. BufferSize) :
        p[1] + p[2] <= BufferSize /\ s = Sp!make_span(p[1], p[2])
  BY DEF Sp!Slices
<1>3. s.first \in 0 .. BufferSize /\ s.nmemb \in 0 .. BufferSize /\ s.first + s.nmemb <= BufferSize
  BY <1>2 DEF Sp!make_span
<1>4. QED BY <1>1, <1>3 DEF Sp!InSpan, Sp!Indices

LEMMA ItemIn ==
  ASSUME NEW s \in Sp!Slices, NEW d \in Buffers, NEW i \in 0 .. s.nmemb - 1
  PROVE  Sp!Item(d, s, i) \in BufferValues /\ Sp!Item(d, s, i) \in Int
<1>1. s.first + i \in Sp!Indices
  BY SpanShape
<1>2. BufferValues \subseteq Int
  BY ContiguousAssumption DEF Sp!SpansAssumption
<1>3. QED BY <1>1, <1>2 DEF Sp!Item, Buffers

(* The places of a value.                                                   *)
PlacesOf(d, v) == {i \in Sp!Indices : d[i] = v}
(* g is d with the items of s exchanged.                                    *)
Exchanged(g, d, s) ==
  /\ g \in Buffers
  /\ \A i \in Sp!Indices \ Sp!InSpan(s) : g[i] = d[i]
  /\ \A v : Cardinality(PlacesOf(g, v)) = Cardinality(PlacesOf(d, v))

(* A buffer read through a one-to-one map of the places of s.               *)
LEMMA Permuted ==
  ASSUME NEW s \in Sp!Slices, NEW d \in Buffers, NEW g, NEW f \in [Sp!Indices -> Sp!Indices],
         \A i, j \in Sp!Indices : f[i] = f[j] => i = j,
         \A i \in Sp!Indices \ Sp!InSpan(s) : f[i] = i,
         g = [i \in Sp!Indices |-> d[f[i]]]
  PROVE  Exchanged(g, d, s)
<1>1. g \in Buffers /\ \A i \in Sp!Indices \ Sp!InSpan(s) : g[i] = d[i]
  BY DEF Buffers
<1>2. IsFiniteSet(Sp!Indices)
  <2>1. BufferSize \in Nat
    BY SpanShape
  <2>2. 0 \in Int /\ BufferSize - 1 \in Int
    BY <2>1
  <2>3. QED BY <2>2, FS_Interval DEF Sp!Indices
<1>3. f \in Injection(Sp!Indices, Sp!Indices)
  BY Zenon DEF Injection, IsInjective
<1>4. f \in Surjection(Sp!Indices, Sp!Indices)
  BY <1>2, <1>3, FS_Injection
<1>5. \A j \in Sp!Indices : \E i \in Sp!Indices : f[i] = j
  BY <1>4, Zenon DEF Surjection
<1>6. ASSUME NEW v PROVE Cardinality(PlacesOf(g, v)) = Cardinality(PlacesOf(d, v))
  <2> DEFINE A == PlacesOf(g, v)
             B == PlacesOf(d, v)
             e == [i \in A |-> f[i]]
  <2>1. A \subseteq Sp!Indices
    BY DEF PlacesOf
  <2>2. \A i \in A : f[i] \in B
    BY DEF PlacesOf
  <2>3. \A j \in B : \E i \in A : f[i] = j
    BY <1>5 DEF PlacesOf
  <2>4. \A i, j \in A : f[i] = f[j] => i = j
    BY <2>1
  <2>5. IsFiniteSet(A)
    BY <1>2, <2>1, FS_Subset
  <2> HIDE DEF A, B
  <2>6. e \in [A -> B] /\ (\A b \in B : \E a \in A : e[a] = b) /\ (\A a, b \in A : e[a] = e[b] => a = b)
    BY <2>2, <2>3, <2>4
  <2> HIDE DEF e
  <2>7. e \in Bijection(A, B)
    BY <2>6, Zenon DEF Bijection, Injection, Surjection, IsInjective
  <2>8. ExistsBijection(A, B)
    BY <2>7 DEF ExistsBijection
  <2>9. Cardinality(A) = Cardinality(B)
    BY <2>5, <2>8, FS_Bijection
  <2>10. QED BY <2>9 DEF A, B
<1>7. QED BY <1>1, <1>6 DEF Exchanged

LEMMA SpanSwap ==
  ASSUME NEW s \in Sp!Slices, NEW d \in Buffers, NEW a \in 0 .. s.nmemb - 1, NEW b \in 0 .. s.nmemb - 1
  PROVE  /\ Exchanged(Sp!swap(d, s, a, b), d, s)
         /\ \A i \in 0 .. s.nmemb - 1 :
              Sp!Item(Sp!swap(d, s, a, b), s, i) =
                IF i = b THEN Sp!Item(d, s, a) ELSE IF i = a THEN Sp!Item(d, s, b) ELSE Sp!Item(d, s, i)
<1> DEFINE p == s.first + a
           q == s.first + b
           g == Sp!swap(d, s, a, b)
           f == [i \in Sp!Indices |-> IF i = q THEN p ELSE IF i = p THEN q ELSE i]
<1>1. /\ p \in Sp!InSpan(s) /\ q \in Sp!InSpan(s) /\ p \in Sp!Indices /\ q \in Sp!Indices
      /\ s.first \in Nat /\ s.nmemb \in Nat
      /\ \A i \in 0 .. s.nmemb - 1 : s.first + i \in Sp!Indices
  BY SpanShape
<1>2. \A i \in 0 .. s.nmemb - 1 : (s.first + i = p <=> i = a) /\ (s.first + i = q <=> i = b)
  BY <1>1
<1>3. g = [[d EXCEPT ![p] = d[q]] EXCEPT ![q] = d[p]]
  BY DEF Sp!swap, Sp!Item
<1> HIDE DEF p, q, g
<1>4. /\ g = [i \in Sp!Indices |-> d[f[i]]]
      /\ f \in [Sp!Indices -> Sp!Indices]
      /\ \A i, j \in Sp!Indices : f[i] = f[j] => i = j
      /\ \A i \in Sp!Indices \ Sp!InSpan(s) : f[i] = i
  BY <1>1, <1>3 DEF Buffers
<1> HIDE DEF f
<1>5. Exchanged(g, d, s)
  BY <1>4, Permuted
<1>6. ASSUME NEW i \in 0 .. s.nmemb - 1
      PROVE  g[s.first + i] = IF i = b THEN d[p] ELSE IF i = a THEN d[q] ELSE d[s.first + i]
  BY <1>1, <1>2, <1>4 DEF f
<1>7. QED BY <1>5, <1>6 DEF g, p, q, Sp!Item

-----------------------------------------------------------------------------
(* A loop whose turn k swaps items A[k] and B[k].                           *)
Swaps(u, d, s, m, A, B) ==
  u[0] = d /\ \A k \in 1 .. m : u[k] = Sp!swap(u[k - 1], s, A[k], B[k])

LEMMA SwapLoop ==
  ASSUME NEW s \in Sp!Slices, NEW d \in Buffers, NEW m \in Nat,
         NEW A \in [1 .. m -> 0 .. s.nmemb - 1], NEW B \in [1 .. m -> 0 .. s.nmemb - 1]
  PROVE  \E u \in [0 .. m -> Buffers] : Swaps(u, d, s, m, A, B)
<1> DEFINE step == [k \in 1 .. m |-> [e \in Buffers |-> Sp!swap(e, s, A[k], B[k])]]
<1>1. ASSUME NEW k \in 1 .. m PROVE [e \in Buffers |-> Sp!swap(e, s, A[k], B[k])] \in [Buffers -> Buffers]
  <2>1. A[k] \in 0 .. s.nmemb - 1 /\ B[k] \in 0 .. s.nmemb - 1
    OBVIOUS
  <2>2. \A e \in Buffers : Sp!swap(e, s, A[k], B[k]) \in Buffers
    BY <2>1, SpanSwap DEF Exchanged
  <2>3. QED BY <2>2
<1>2. step \in Turns(Buffers, m)
  BY <1>1 DEF Turns
<1>3. Runs(Buffers, m, d, step)
  <2> HIDE DEF step
  <2>1. QED BY <1>2, Loop
<1>4. PICK u \in [0 .. m -> Buffers] : u[0] = d /\ \A k \in 1 .. m : u[k] = step[k][u[k - 1]]
  <2> HIDE DEF step
  <2>1. QED BY <1>3 DEF Runs
<1>5. \A k \in 1 .. m : u[k - 1] \in Buffers
  <2>1. \A k \in 1 .. m : k - 1 \in 0 .. m
    OBVIOUS
  <2>2. QED BY <2>1
<1>6. Swaps(u, d, s, m, A, B)
  BY <1>4, <1>5 DEF Swaps
<1>7. QED BY <1>6

LEMMA SwapsExchange ==
  ASSUME NEW s \in Sp!Slices, NEW d \in Buffers, NEW m \in Nat,
         NEW A \in [1 .. m -> 0 .. s.nmemb - 1], NEW B \in [1 .. m -> 0 .. s.nmemb - 1],
         NEW u, Swaps(u, d, s, m, A, B)
  PROVE  \A k \in 0 .. m : Exchanged(u[k], d, s)
<1> DEFINE S == {k \in 0 .. m : Exchanged(u[k], d, s)}
<1>1. 0 \in S
  BY DEF Exchanged, Swaps
<1>2. ASSUME NEW k \in 0 .. m - 1, k \in S PROVE k + 1 \in S
  <2> DEFINE e == u[k]
             a == A[k + 1]
             b == B[k + 1]
  <2>1. k + 1 \in 1 .. m /\ (k + 1) - 1 = k /\ k + 1 \in 0 .. m
    OBVIOUS
  <2>2. a \in 0 .. s.nmemb - 1 /\ b \in 0 .. s.nmemb - 1 /\ u[k + 1] = Sp!swap(e, s, a, b)
    BY <2>1 DEF Swaps
  <2>3. Exchanged(e, d, s) /\ e \in Buffers
    BY <1>2 DEF Exchanged
  <2> HIDE DEF e, a, b
  <2>4. Exchanged(Sp!swap(e, s, a, b), e, s)
    BY <2>2, <2>3, SpanSwap
  <2>5. Exchanged(Sp!swap(e, s, a, b), d, s)
    BY <2>3, <2>4 DEF Exchanged
  <2>6. QED BY <2>1, <2>2, <2>5
<1>3. \A k \in 0 .. m : k \in S
  <2> HIDE DEF S
  <2>1. QED BY <1>1, <1>2, UpTo
<1>4. QED BY <1>3

(* reverse_span, turn by turn.                                              *)
ReverseSteps(f, d, s) ==
  [b \in 0 .. Sp!Meet(s) |-> IF b = 0 THEN d ELSE Sp!swap(f[b - 1], s, b - 1, s.nmemb - b)]
Fronts(s) == [k \in 1 .. Sp!Meet(s) |-> k - 1]
Backs(s) == [k \in 1 .. Sp!Meet(s) |-> s.nmemb - k]

LEMMA ReverseTurns ==
  ASSUME NEW s \in Sp!Slices, NEW d \in Buffers
  PROVE  /\ Sp!Meet(s) \in Nat /\ (s.nmemb = 2 * Sp!Meet(s) \/ s.nmemb = 2 * Sp!Meet(s) + 1)
         /\ Fronts(s) \in [1 .. Sp!Meet(s) -> 0 .. s.nmemb - 1]
         /\ Backs(s) \in [1 .. Sp!Meet(s) -> 0 .. s.nmemb - 1]
         /\ \E u : /\ Sp!reverse_span(d, s) = u[Sp!Meet(s)]
                   /\ Swaps(u, d, s, Sp!Meet(s), Fronts(s), Backs(s))
<1> DEFINE m == Sp!Meet(s)
           l == s.nmemb
           A == Fronts(s)
           B == Backs(s)
           u == CHOOSE f : f = ReverseSteps(f, d, s)
<1>1. l \in Nat
  BY SpanShape
<1>2. m \in Nat /\ (l = 2 * m \/ l = 2 * m + 1)
  <2>1. m = l \div 2
    BY DEF Sp!Meet
  <2>2. \A k \in Nat : k \div 2 \in Nat /\ (k = 2 * (k \div 2) \/ k = 2 * (k \div 2) + 1)
    OBVIOUS
  <2> HIDE DEF l, m
  <2>3. QED BY <1>1, <2>1, <2>2
<1> HIDE DEF m, l
<1>3. \A k \in 1 .. m : k - 1 \in 0 .. l - 1 /\ l - k \in 0 .. l - 1
  BY <1>1, <1>2
<1>4. A \in [1 .. m -> 0 .. l - 1] /\ B \in [1 .. m -> 0 .. l - 1]
      /\ \A k \in 1 .. m : A[k] = k - 1 /\ B[k] = l - k
  BY <1>3 DEF Fronts, Backs, m, l
<1> HIDE DEF A, B
<1>5. PICK f \in [0 .. m -> Buffers] : Swaps(f, d, s, m, A, B)
  BY <1>2, <1>4, SwapLoop DEF l
<1>6. f = ReverseSteps(f, d, s)
  <2> DEFINE F(k) == IF k = 0 THEN d ELSE Sp!swap(f[k - 1], s, k - 1, l - k)
  <2>1. \A k \in 0 .. m : f[k] = F(k)
    <3>1. \A k \in 0 .. m : k = 0 \/ k \in 1 .. m
      BY <1>2
    <3>2. f[0] = d /\ \A k \in 1 .. m : f[k] = Sp!swap(f[k - 1], s, k - 1, l - k)
      BY <1>4, <1>5 DEF Swaps
    <3>3. QED BY <3>1, <3>2
  <2>2. f = [k \in 0 .. m |-> f[k]]
    OBVIOUS
  <2>3. ReverseSteps(f, d, s) = [k \in 0 .. m |-> F(k)]
    BY DEF ReverseSteps, m, l
  <2> HIDE DEF F
  <2>4. [k \in 0 .. m |-> f[k]] = [k \in 0 .. m |-> F(k)]
    BY <2>1
  <2>5. QED BY <2>2, <2>3, <2>4
<1>7. u = ReverseSteps(u, d, s)
  BY <1>6
<1>8. Sp!reverse_span(d, s) = u[m]
  BY Zenon DEF Sp!reverse_span, ReverseSteps, m
<1> HIDE DEF u
<1>9. Swaps(u, d, s, m, A, B)
  <2> DEFINE F(k) == IF k = 0 THEN d ELSE Sp!swap(u[k - 1], s, k - 1, l - k)
  <2>1. u = [k \in 0 .. m |-> F(k)]
    BY <1>7 DEF ReverseSteps, m, l
  <2>2. 0 \in 0 .. m /\ \A k \in 1 .. m : k \in 0 .. m /\ k # 0
    BY <1>2
  <2> HIDE DEF F
  <2>3. u[0] = F(0) /\ \A k \in 1 .. m : u[k] = F(k)
    BY <2>1, <2>2
  <2>4. u[0] = d /\ \A k \in 1 .. m : u[k] = Sp!swap(u[k - 1], s, k - 1, l - k)
    BY <2>2, <2>3 DEF F
  <2>5. QED BY <1>4, <2>4 DEF Swaps
<1>10. QED BY <1>2, <1>4, <1>8, <1>9 DEF m, l, A, B

(* The ends have swapped, what is between them is as it was.                *)
LEMMA Reversed ==
  ASSUME NEW s \in Sp!Slices, NEW d \in Buffers
  PROVE  /\ Exchanged(Sp!reverse_span(d, s), d, s)
         /\ \A i \in 0 .. s.nmemb - 1 :
              Sp!Item(Sp!reverse_span(d, s), s, i) = Sp!Item(d, s, s.nmemb - 1 - i)
<1> DEFINE m == Sp!Meet(s)
           l == s.nmemb
           A == Fronts(s)
           B == Backs(s)
           T(i) == Sp!Item(d, s, i)
<1>1. PICK u : Sp!reverse_span(d, s) = u[m] /\ Swaps(u, d, s, m, A, B)
  BY ReverseTurns
<1>2. /\ m \in Nat /\ (l = 2 * m \/ l = 2 * m + 1) /\ l \in Nat
      /\ A \in [1 .. m -> 0 .. l - 1] /\ B \in [1 .. m -> 0 .. l - 1]
      /\ \A k \in 1 .. m : A[k] = k - 1 /\ B[k] = l - k
  BY ReverseTurns, SpanShape DEF Fronts, Backs
<1> HIDE DEF m, A, B
<1>3. \A k \in 0 .. m : Exchanged(u[k], d, s)
  BY <1>1, <1>2, SwapsExchange
<1> HIDE DEF l
<1> DEFINE W(k, i) == Sp!Item(u[k], s, i)
           Half(k) == \A i \in 0 .. l - 1 : W(k, i) = IF i < k \/ i >= l - k THEN T(l - 1 - i) ELSE T(i)
           S == {k \in 0 .. m : Half(k)}
<1>4. 0 \in S
  <2>1. u[0] = d /\ 0 \in 0 .. m
    BY <1>1, <1>2 DEF Swaps
  <2>2. \A i \in 0 .. l - 1 : ~(i < 0 \/ i >= l - 0)
    BY <1>2
  <2>3. QED BY <2>1, <2>2
<1>5. ASSUME NEW k \in 0 .. m - 1, Half(k) PROVE Half(k + 1)
  <2>1. k + 1 \in 1 .. m /\ (k + 1) - 1 = k /\ k + 1 \in 0 .. m /\ k \in 0 .. m
    BY <1>2
  <2>2. /\ k \in 0 .. l - 1 /\ l - (k + 1) \in 0 .. l - 1
        /\ u[k + 1] = Sp!swap(u[k], s, k, l - (k + 1))
    BY <1>1, <1>2, <2>1 DEF Swaps
  <2>3. u[k] \in Buffers
    BY <1>3, <2>1 DEF Exchanged
  <2>4. \A i \in 0 .. l - 1 :
          W(k + 1, i) = IF i = l - (k + 1) THEN W(k, k) ELSE IF i = k THEN W(k, l - (k + 1)) ELSE W(k, i)
    BY <2>2, <2>3, SpanSwap DEF l
  <2>5. ASSUME NEW i \in 0 .. l - 1
        PROVE  W(k + 1, i) = IF i < k + 1 \/ i >= l - (k + 1) THEN T(l - 1 - i) ELSE T(i)
    <3> HIDE DEF W, T
    <3>1. /\ W(k + 1, i) = IF i = l - (k + 1) THEN W(k, k) ELSE IF i = k THEN W(k, l - (k + 1)) ELSE W(k, i)
          /\ W(k, i) = IF i < k \/ i >= l - k THEN T(l - 1 - i) ELSE T(i)
      BY <1>5, <2>4
    <3>2. W(k, k) = T(k) /\ W(k, l - (k + 1)) = T(l - (k + 1))
      <4>1. ~(k < k \/ k >= l - k) /\ ~(l - (k + 1) < k \/ l - (k + 1) >= l - k)
        BY <1>2
      <4>2. QED BY <1>5, <2>2, <4>1
    <3>3. CASE i = l - (k + 1)
      <4>1. l - 1 - i = k /\ i >= l - (k + 1)
        BY <1>2, <3>3
      <4>2. QED BY <3>1, <3>2, <3>3, <4>1
    <3>4. CASE i # l - (k + 1) /\ i = k
      <4>1. l - 1 - i = l - (k + 1) /\ i < k + 1
        BY <1>2, <3>4
      <4>2. QED BY <3>1, <3>2, <3>4, <4>1
    <3>5. CASE i # l - (k + 1) /\ i # k
      <4>1. (i < k \/ i >= l - k) <=> (i < k + 1 \/ i >= l - (k + 1))
        BY <1>2, <3>5
      <4>2. QED BY <3>1, <3>5, <4>1
    <3>6. QED BY <3>3, <3>4, <3>5
  <2>6. QED BY <2>5
<1>6. \A k \in 0 .. m : k \in S
  <2>1. ASSUME NEW k \in 0 .. m - 1, k \in S PROVE k + 1 \in S
    <3> HIDE DEF Half
    <3>1. Half(k) /\ k + 1 \in 0 .. m
      BY <1>2, <2>1
    <3>2. QED BY <1>5, <3>1
  <2> HIDE DEF S
  <2>2. QED BY <1>2, <1>4, <2>1, UpTo
<1>7. Half(m) /\ m \in 0 .. m
  BY <1>2, <1>6
<1>8. ASSUME NEW i \in 0 .. l - 1 PROVE W(m, i) = T(l - 1 - i)
  <2>1. i < m \/ i >= l - m \/ i = l - 1 - i
    BY <1>2
  <2> HIDE DEF W, T
  <2>2. QED BY <1>7, <2>1
<1>9. QED BY <1>1, <1>3, <1>7, <1>8 DEF l

-----------------------------------------------------------------------------
(* fisher_yates_shuffle, turn by turn.                                      *)
ShuffleSteps(f, d, s, c) ==
  [k \in 0 .. s.nmemb - 1 |->
     IF k = 0 THEN d ELSE Sp!swap(f[k - 1], s, s.nmemb - k, c[s.nmemb - k])]
Shuffling(d, s, c) == CHOOSE f : f = ShuffleSteps(f, d, s, c)
Lasts(s) == [k \in 1 .. s.nmemb - 1 |-> s.nmemb - k]
Chosen(s, c) == [k \in 1 .. s.nmemb - 1 |-> c[s.nmemb - k]]

LEMMA ShuffleTurns ==
  ASSUME NEW s \in Sp!Slices, NEW d \in Buffers, NEW c \in Sp!PickSequences(s), s.nmemb # 0
  PROVE  /\ s.nmemb - 1 \in Nat
         /\ Lasts(s) \in [1 .. s.nmemb - 1 -> 0 .. s.nmemb - 1]
         /\ Chosen(s, c) \in [1 .. s.nmemb - 1 -> 0 .. s.nmemb - 1]
         /\ \A i \in 1 .. s.nmemb - 1 : c[i] \in 0 .. i
         /\ Sp!Shuffled(d, s, c) = Shuffling(d, s, c)[s.nmemb - 1]
         /\ Swaps(Shuffling(d, s, c), d, s, s.nmemb - 1, Lasts(s), Chosen(s, c))
<1> DEFINE l == s.nmemb
           m == l - 1
           A == Lasts(s)
           B == Chosen(s, c)
           u == CHOOSE f : f = ShuffleSteps(f, d, s, c)
<1>1. l \in Nat /\ m \in Nat
  BY SpanShape
<1>2. c \in [1 .. m -> 0 .. l - 1] /\ \A i \in 1 .. m : c[i] \in 0 .. i
  BY DEF Sp!PickSequences, Sp!Picks
<1> HIDE DEF l
<1>3. \A k \in 1 .. m : l - k \in 1 .. m /\ l - k \in 0 .. l - 1
  BY <1>1
<1>4. A \in [1 .. m -> 0 .. l - 1] /\ B \in [1 .. m -> 0 .. l - 1]
      /\ \A k \in 1 .. m : A[k] = l - k /\ B[k] = c[l - k]
  BY <1>2, <1>3 DEF Lasts, Chosen, l
<1> HIDE DEF A, B
<1>5. PICK f \in [0 .. m -> Buffers] : Swaps(f, d, s, m, A, B)
  BY <1>1, <1>4, SwapLoop DEF l
<1> HIDE DEF m
<1>6. f = ShuffleSteps(f, d, s, c)
  <2> DEFINE F(k) == IF k = 0 THEN d ELSE Sp!swap(f[k - 1], s, l - k, c[l - k])
  <2>1. \A k \in 0 .. m : f[k] = F(k)
    <3>1. \A k \in 0 .. m : k = 0 \/ k \in 1 .. m
      BY <1>1
    <3>2. f[0] = d /\ \A k \in 1 .. m : f[k] = Sp!swap(f[k - 1], s, l - k, c[l - k])
      BY <1>4, <1>5 DEF Swaps
    <3>3. QED BY <3>1, <3>2
  <2>2. f = [k \in 0 .. m |-> f[k]]
    OBVIOUS
  <2>3. ShuffleSteps(f, d, s, c) = [k \in 0 .. m |-> F(k)]
    BY DEF ShuffleSteps, m, l
  <2> HIDE DEF F
  <2>4. [k \in 0 .. m |-> f[k]] = [k \in 0 .. m |-> F(k)]
    BY <2>1
  <2>5. QED BY <2>2, <2>3, <2>4
<1>7. u = ShuffleSteps(u, d, s, c)
  BY <1>6
<1>8. Sp!Shuffled(d, s, c) = u[m] /\ u = Shuffling(d, s, c)
  BY Zenon DEF Sp!Shuffled, Shuffling, ShuffleSteps, m, l
<1> HIDE DEF u
<1>9. Swaps(u, d, s, m, A, B)
  <2> DEFINE F(k) == IF k = 0 THEN d ELSE Sp!swap(u[k - 1], s, l - k, c[l - k])
  <2>1. u = [k \in 0 .. m |-> F(k)]
    BY <1>7 DEF ShuffleSteps, m, l
  <2>2. 0 \in 0 .. m /\ \A k \in 1 .. m : k \in 0 .. m /\ k # 0
    BY <1>1
  <2> HIDE DEF F
  <2>3. u[0] = F(0) /\ \A k \in 1 .. m : u[k] = F(k)
    BY <2>1, <2>2
  <2>4. u[0] = d /\ \A k \in 1 .. m : u[k] = Sp!swap(u[k - 1], s, l - k, c[l - k])
    BY <2>2, <2>3 DEF F
  <2>5. QED BY <1>4, <2>4 DEF Swaps
<1>10. QED BY <1>1, <1>2, <1>4, <1>8, <1>9 DEF m, l, A, B

LEMMA ShuffleExchanges ==
  ASSUME NEW s \in Sp!Slices, NEW d \in Buffers, NEW c \in Sp!PickSequences(s), s.nmemb # 0
  PROVE  Exchanged(Sp!Shuffled(d, s, c), d, s)
<1> DEFINE m == s.nmemb - 1
           A == Lasts(s)
           B == Chosen(s, c)
           u == Shuffling(d, s, c)
<1>1. /\ m \in Nat /\ A \in [1 .. m -> 0 .. s.nmemb - 1] /\ B \in [1 .. m -> 0 .. s.nmemb - 1]
      /\ Sp!Shuffled(d, s, c) = u[m] /\ Swaps(u, d, s, m, A, B)
  BY ShuffleTurns
<1> HIDE DEF m, A, B, u
<1>2. \A k \in 0 .. m : Exchanged(u[k], d, s)
  BY <1>1, SwapsExchange
<1>3. m \in 0 .. m
  BY <1>1
<1>4. QED BY <1>1, <1>2, <1>3

-----------------------------------------------------------------------------
(* There is an order to sort any items into, by insertion.                  *)
Sorting(p, t, k) ==
  /\ p \in [1 .. k -> 1 .. k]
  /\ \A i, j \in 1 .. k : p[i] = p[j] => i = j
  /\ \A i, j \in 1 .. k : i < j => t[p[i]] <= t[p[j]]

LEMMA SortingInserts ==
  ASSUME NEW l \in Nat, NEW t \in [1 .. l -> Int], NEW k \in 0 .. l - 1, NEW p, Sorting(p, t, k)
  PROVE  \E q : Sorting(q, t, k + 1)
<1> DEFINE x == t[k + 1]
           J == {i \in 1 .. k : t[p[i]] > x}
<1>1. p \in [1 .. k -> 1 .. k] /\ k \in Nat /\ k + 1 \in 1 .. l /\ \A i \in 1 .. k : i \in 1 .. l
  BY DEF Sorting
<1>2. x \in Int /\ \A i \in 1 .. k : p[i] \in 1 .. k /\ p[i] \in 1 .. l /\ t[p[i]] \in Int
  BY <1>1
<1>3. PICK j \in 1 .. k + 1 : /\ \A i \in 1 .. k : i < j => t[p[i]] <= x
                              /\ \A i \in 1 .. k : i >= j => t[p[i]] >= x
  <2>1. CASE J = {}
    <3>1. ASSUME NEW i \in 1 .. k PROVE t[p[i]] <= x
      <4>1. ~(t[p[i]] > x)
        BY <2>1
      <4>2. t[p[i]] \in Int
        BY <1>2
      <4>3. QED BY <1>2, <4>1, <4>2
    <3>2. k + 1 \in 1 .. k + 1 /\ \A i \in 1 .. k : ~(i >= k + 1)
      BY <1>1
    <3>3. QED BY <3>1, <3>2
  <2>2. CASE J # {}
    <3>1. J \in SUBSET Nat
      BY <1>1
    <3>2. PICK j \in J : \A i \in J : j <= i
      <4> HIDE DEF J
      <4>1. QED BY <2>2, <3>1, Least
    <3>3. j \in 1 .. k + 1 /\ j \in 1 .. k /\ t[p[j]] > x
      BY <1>1, <3>2
    <3>4. \A i \in 1 .. k : i < j => t[p[i]] <= x
      <4>1. \A i \in 1 .. k : i < j => i \notin J
        BY <1>1, <3>2, <3>3
      <4>2. QED BY <1>2, <4>1
    <3>5. ASSUME NEW i \in 1 .. k, i >= j PROVE t[p[i]] >= x
      <4>1. i = j \/ j < i
        BY <1>1, <3>3, <3>5
      <4>2. t[p[i]] \in Int /\ t[p[j]] \in Int
        BY <1>2, <3>3
      <4>3. t[p[j]] <= t[p[i]]
        <5>1. j < i => t[p[j]] <= t[p[i]]
          BY <3>3 DEF Sorting
        <5>2. j = i => t[p[j]] <= t[p[i]]
          BY <4>2
        <5>3. QED BY <4>1, <5>1, <5>2
      <4>4. QED BY <1>2, <3>3, <4>2, <4>3
    <3>6. QED BY <3>3, <3>4, <3>5
  <2>3. QED BY <2>1, <2>2
<1> DEFINE q == [i \in 1 .. k + 1 |-> IF i < j THEN p[i] ELSE IF i = j THEN k + 1 ELSE p[i - 1]]
<1>4. ASSUME NEW i \in 1 .. k + 1
      PROVE  /\ i < j => i \in 1 .. k /\ q[i] = p[i]
             /\ i = j => q[i] = k + 1
             /\ i > j => i - 1 \in 1 .. k /\ i - 1 >= j /\ q[i] = p[i - 1]
  <2>1. i < j => i \in 1 .. k
    BY <1>1
  <2>2. i > j => i - 1 \in 1 .. k /\ i - 1 >= j /\ ~(i < j) /\ i # j
    BY <1>1
  <2>3. i = j => ~(i < j)
    BY <1>1
  <2>4. q[i] = IF i < j THEN p[i] ELSE IF i = j THEN k + 1 ELSE p[i - 1]
    OBVIOUS
  <2> HIDE DEF q
  <2>5. QED BY <2>1, <2>2, <2>3, <2>4
<1>5. q = [i \in 1 .. k + 1 |-> q[i]]
  OBVIOUS
<1> HIDE DEF q
<1>6. \A i \in 1 .. k + 1 : i < j \/ i = j \/ i > j
  BY <1>1
<1>7. q \in [1 .. k + 1 -> 1 .. k + 1]
  <2>1. ASSUME NEW i \in 1 .. k + 1 PROVE q[i] \in 1 .. k + 1
    <3>1. \A e \in 1 .. k : e \in 1 .. k + 1
      BY <1>1
    <3>2. k + 1 \in 1 .. k + 1
      BY <1>1
    <3>3. QED BY <1>2, <1>4, <1>6, <3>1, <3>2
  <2>2. QED BY <1>5, <2>1
<1>8. ASSUME NEW a \in 1 .. k + 1, NEW b \in 1 .. k + 1, a < b
      PROVE  q[a] # q[b] /\ t[q[a]] <= t[q[b]]
  <2>1. \A e, f \in 1 .. k : e < f => p[e] # p[f] /\ t[p[e]] <= t[p[f]]
    <3>1. \A e, f \in 1 .. k : e < f => e # f
      BY <1>1
    <3>2. QED BY <3>1 DEF Sorting
  <2>2. \A e \in 1 .. k : p[e] # k + 1
    BY <1>1, <1>2
  <2>3. CASE b < j
    <3>1. a < j
      BY <1>1, <1>8, <2>3
    <3>2. QED BY <1>4, <1>8, <2>1, <2>3, <3>1
  <2>4. CASE b = j
    <3>1. a < j
      BY <1>1, <1>8, <2>4
    <3>2. a \in 1 .. k /\ q[a] = p[a] /\ q[b] = k + 1
      BY <1>4, <2>4, <3>1
    <3>3. QED BY <1>3, <2>2, <3>1, <3>2
  <2>5. CASE b > j
    <3>1. b - 1 \in 1 .. k /\ b - 1 >= j /\ q[b] = p[b - 1]
      BY <1>4, <2>5
    <3>2. CASE a < j
      <4>1. a \in 1 .. k /\ q[a] = p[a]
        BY <1>4, <3>2
      <4>2. a < b - 1
        BY <1>1, <3>1, <3>2, <4>1
      <4>3. QED BY <2>1, <3>1, <4>1, <4>2
    <3>3. CASE a = j
      <4>1. q[a] = k + 1
        BY <1>4, <3>3
      <4>2. t[p[b - 1]] >= x /\ t[p[b - 1]] \in Int
        BY <1>2, <1>3, <3>1
      <4>3. x <= t[p[b - 1]]
        BY <1>2, <4>2
      <4>4. QED BY <2>2, <3>1, <4>1, <4>3
    <3>4. CASE a > j
      <4>1. a - 1 \in 1 .. k /\ q[a] = p[a - 1]
        BY <1>4, <3>4
      <4>2. a - 1 < b - 1
        BY <1>1, <1>8
      <4>3. QED BY <2>1, <3>1, <4>1, <4>2
    <3>5. QED BY <1>6, <3>2, <3>3, <3>4
  <2>6. QED BY <1>6, <2>3, <2>4, <2>5
<1>9. \A a, b \in 1 .. k + 1 : q[a] = q[b] => a = b
  <2>1. \A a, b \in 1 .. k + 1 : a = b \/ a < b \/ b < a
    BY <1>1
  <2>2. QED BY <1>8, <2>1
<1>10. Sorting(q, t, k + 1)
  BY <1>7, <1>8, <1>9 DEF Sorting
<1>11. QED BY <1>10

LEMMA Sortable ==
  ASSUME NEW l \in Nat, NEW t \in [1 .. l -> Int]
  PROVE  \E p : Sorting(p, t, l)
<1> DEFINE S == {k \in 0 .. l : \E p : Sorting(p, t, k)}
<1>1. 0 \in S
  <2>1. \A i \in 1 .. 0 : FALSE
    OBVIOUS
  <2>2. [i \in 1 .. 0 |-> i] \in [1 .. 0 -> 1 .. 0]
    BY <2>1
  <2>3. Sorting([i \in 1 .. 0 |-> i], t, 0)
    BY <2>1, <2>2 DEF Sorting
  <2>4. QED BY <2>3
<1>2. \A k \in 0 .. l - 1 : k \in S => k + 1 \in S
  <2>1. ASSUME NEW k \in 0 .. l - 1, k \in S PROVE k + 1 \in S
    <3>1. \E q : Sorting(q, t, k + 1)
      BY <2>1, SortingInserts
    <3>2. k + 1 \in 0 .. l
      OBVIOUS
    <3>3. QED BY <3>1, <3>2
  <2>2. QED BY <2>1
<1>3. \A k \in 0 .. l : k \in S
  <2> HIDE DEF S
  <2>1. QED BY <1>1, <1>2, UpTo
<1>4. QED BY <1>3

LEMMA SortExchanges ==
  ASSUME NEW s \in Sp!Slices, NEW d \in Buffers
  PROVE  Exchanged(Sp!sort_span(d, s), d, s)
<1> DEFINE l == s.nmemb
           t == Sp!Items(d, s)
           p == CHOOSE q \in Sp!Places(s) : Sp!InOrder(t, q)
           I == Sp!InSpan(s)
           f == [i \in Sp!Indices |-> IF i \in I THEN s.first + (p[i - s.first + 1] - 1) ELSE i]
<1>1. /\ l \in Nat /\ s.first \in Nat /\ I \subseteq Sp!Indices
      /\ \A i \in 0 .. l - 1 : s.first + i \in I
      /\ \A j \in I : j - s.first \in 0 .. l - 1 /\ s.first + (j - s.first) = j
  BY SpanShape
<1>2. t = [i \in 1 .. l |-> Sp!Item(d, s, i - 1)] /\ t \in [1 .. l -> Int]
  <2>1. t = [i \in 1 .. l |-> Sp!Item(d, s, i - 1)]
    BY DEF Sp!Items
  <2>2. \A i \in 1 .. l : i - 1 \in 0 .. s.nmemb - 1
    BY <1>1
  <2>3. \A i \in 1 .. l : Sp!Item(d, s, i - 1) \in Int
    BY <2>2, ItemIn
  <2>4. QED BY <2>1, <2>3
<1> HIDE DEF t
<1>3. p \in [1 .. l -> 1 .. l] /\ \A i, j \in 1 .. l : p[i] = p[j] => i = j
  <2>1. PICK q : Sorting(q, t, l)
    BY <1>1, <1>2, Sortable
  <2>2. q \in Sp!Places(s)
    BY <2>1 DEF Sorting, Sp!Places, Sp!IsInjective
  <2>3. Sp!InOrder(t, q)
    <3>1. DOMAIN t = 1 .. l
      BY <1>2
    <3>2. \A i, j \in 1 .. l : q[i] \in 1 .. l /\ t[q[i]] \in Int
      BY <1>2, <2>1 DEF Sorting
    <3>3. \A a, b \in Int : a <= b => a - b <= 0
      OBVIOUS
    <3>4. QED BY <2>1, <3>1, <3>2, <3>3 DEF Sorting, Sp!InOrder, Sp!compare
  <2>4. p \in Sp!Places(s)
    BY <2>2, <2>3
  <2> HIDE DEF p
  <2>5. p \in [1 .. l -> 1 .. l] /\ Sp!IsInjective(p)
    BY <2>4 DEF Sp!Places
  <2>6. QED BY <2>5 DEF Sp!IsInjective
<1>4. Sp!sort_span(d, s) = [i \in Sp!Indices |-> IF i \in I THEN [j \in 1 .. l |-> t[p[j]]][i - s.first + 1] ELSE d[i]]
  BY Zenon DEF Sp!sort_span, Sp!Sorted, t
<1> HIDE DEF p, I, l
<1>5. \A i \in I : i - s.first + 1 \in 1 .. l /\ p[i - s.first + 1] \in 1 .. l
  <2>1. \A i \in I : i - s.first + 1 \in 1 .. l
    BY <1>1
  <2>2. QED BY <1>3, <2>1
<1>6. \A i \in I : s.first + (p[i - s.first + 1] - 1) \in I
  <2>1. \A i \in I : p[i - s.first + 1] - 1 \in 0 .. l - 1
    BY <1>1, <1>5
  <2>2. QED BY <1>1, <2>1
<1>7. ASSUME NEW i \in I PROVE [j \in 1 .. l |-> t[p[j]]][i - s.first + 1] = d[f[i]]
  <2> DEFINE k == p[i - s.first + 1]
  <2>1. i - s.first + 1 \in 1 .. l /\ k \in 1 .. l /\ i \in Sp!Indices
    BY <1>1, <1>5
  <2>2. f[i] = s.first + (k - 1)
    BY <2>1
  <2>3. t[k] = d[s.first + (k - 1)]
    BY <1>2, <2>1 DEF Sp!Item
  <2>4. QED BY <2>1, <2>2, <2>3
<1>8. f \in [Sp!Indices -> Sp!Indices] /\ \A i \in Sp!Indices \ I : f[i] = i
  BY <1>1, <1>6
<1>9. \A i, j \in Sp!Indices : f[i] = f[j] => i = j
  <2>1. ASSUME NEW i \in I, NEW j \in I, f[i] = f[j] PROVE i = j
    <3> DEFINE a == i - s.first + 1
               b == j - s.first + 1
    <3>1. f[i] = s.first + (p[a] - 1) /\ f[j] = s.first + (p[b] - 1)
      BY <1>1
    <3>2. a \in 1 .. l /\ b \in 1 .. l /\ p[a] \in 1 .. l /\ p[b] \in 1 .. l
      BY <1>5
    <3>3. i \in Int /\ j \in Int /\ s.first \in Nat
      BY <1>1 DEF Sp!Indices
    <3>4. p[a] = p[b]
      BY <1>1, <2>1, <3>1, <3>2
    <3>5. a = b
      BY <1>3, <3>2, <3>4
    <3>6. QED BY <3>3, <3>5
  <2>2. \A i \in Sp!Indices : (i \in I => f[i] \in I) /\ (i \notin I => f[i] = i)
    BY <1>6
  <2> HIDE DEF f
  <2>3. QED BY <2>1, <2>2
<1>10. Sp!sort_span(d, s) = [i \in Sp!Indices |-> d[f[i]]]
  <2>1. \A i \in Sp!Indices :
          (IF i \in I THEN [j \in 1 .. l |-> t[p[j]]][i - s.first + 1] ELSE d[i]) = d[f[i]]
    BY <1>7, <1>8
  <2> HIDE DEF f
  <2>2. QED BY <1>4, <2>1
<1> HIDE DEF f
<1>11. QED BY <1>8, <1>9, <1>10, Permuted DEF I

-----------------------------------------------------------------------------
(* The buffer of the client, at every moment.                               *)
SpanTyped == data = FAULT \/ data \in Buffers
(* What an operation may do to the buffer.                                  *)
SpanKeeps ==
  /\ IF data' = FAULT THEN op' = "shuffle" /\ span'.nmemb = 0
     ELSE \A i \in Sp!Indices \ Sp!InSpan(span') : data'[i] = data[i]
  /\ data' # FAULT /\ op' \in {"reverse", "shuffle", "sort"}
       => \A v : Cardinality(PlacesOf(data', v)) = Cardinality(PlacesOf(data, v))

LEMMA NoFault == \A d \in Buffers : d # FAULT
BY ContiguousAssumption DEF Sp!SpansAssumption, Buffers, Sp!Indices

LEMMA ExchangeKeeps ==
  ASSUME NEW s \in Sp!Slices, span' = s, Exchanged(data', data, s)
  PROVE  SpanTyped' /\ SpanKeeps
BY NoFault DEF Exchanged, SpanTyped, SpanKeeps

LEMMA WriteKeeps ==
  ASSUME NEW s \in Sp!Slices, span' = s, op' \notin {"reverse", "shuffle", "sort"},
         data' \in Buffers, \A i \in Sp!Indices \ Sp!InSpan(s) : data'[i] = data[i]
  PROVE  SpanTyped' /\ SpanKeeps
BY NoFault DEF SpanTyped, SpanKeeps

LEMMA SpanSteps ==
  ASSUME SpanTyped, Sp!Next
  PROVE  SpanTyped' /\ SpanKeeps
<1>1. data \in Buffers
  BY DEF SpanTyped, Sp!Next, Sp!ReverseSpan, Sp!ShuffleSpan, Sp!SortSpan, Sp!FillSpan,
         Sp!TransformSpan, Sp!DuplicateSpan, Sp!Does
<1>2. CASE Sp!ReverseSpan
  <2>1. PICK s \in Sp!Slices : data' = Sp!reverse_span(data, s) /\ span' = s
    BY <1>2 DEF Sp!ReverseSpan, Sp!Does
  <2>2. Exchanged(data', data, s)
    BY <1>1, <2>1, Reversed
  <2>3. QED BY <2>1, <2>2, ExchangeKeeps
<1>3. CASE Sp!ShuffleSpan
  <2>1. PICK s \in Sp!Slices : data' \in Sp!shuffle_span(data, s) /\ span' = s /\ op' = "shuffle"
    BY <1>3 DEF Sp!ShuffleSpan, Sp!Does
  <2>2. CASE s.nmemb = 0
    BY <2>1, <2>2 DEF Sp!shuffle_span, SpanTyped, SpanKeeps
  <2>3. CASE s.nmemb # 0
    <3>1. PICK c \in Sp!PickSequences(s) : data' = Sp!Shuffled(data, s, c)
      BY <2>1, <2>3 DEF Sp!shuffle_span
    <3>2. Exchanged(data', data, s)
      BY <1>1, <2>3, <3>1, ShuffleExchanges
    <3>3. QED BY <2>1, <3>2, ExchangeKeeps
  <2>4. QED BY <2>2, <2>3
<1>4. CASE Sp!SortSpan
  <2>1. PICK s \in Sp!Slices : data' = Sp!sort_span(data, s) /\ span' = s
    BY <1>4 DEF Sp!SortSpan, Sp!Does
  <2>2. Exchanged(data', data, s)
    BY <1>1, <2>1, SortExchanges
  <2>3. QED BY <2>1, <2>2, ExchangeKeeps
<1>5. CASE Sp!FillSpan
  <2>1. PICK s \in Sp!Slices, v \in BufferValues :
          data' = Sp!fill_span(data, s, v) /\ span' = s /\ op' = "fill"
    BY <1>5 DEF Sp!FillSpan, Sp!Does
  <2>2. data' \in Buffers /\ \A i \in Sp!Indices \ Sp!InSpan(s) : data'[i] = data[i]
    BY <1>1, <2>1 DEF Sp!fill_span, Buffers
  <2>3. QED BY <2>1, <2>2, WriteKeeps
<1>6. CASE Sp!TransformSpan
  <2>1. PICK s \in Sp!Slices : data' = Sp!transform_span(data, s) /\ span' = s /\ op' = "transform"
    BY <1>6 DEF Sp!TransformSpan, Sp!Does
  <2>2. \A v \in BufferValues : Sp!transform(v) \in BufferValues
    BY DEF Sp!transform
  <2>3. data' \in Buffers /\ \A i \in Sp!Indices \ Sp!InSpan(s) : data'[i] = data[i]
    BY <1>1, <2>1, <2>2 DEF Sp!transform_span, Buffers
  <2>4. QED BY <2>1, <2>3, WriteKeeps
<1>7. CASE Sp!DuplicateSpan
  <2>1. PICK s \in Sp!Slices, t \in Sp!Slices :
          /\ Sp!MayDuplicate(s, t)
          /\ data' = Sp!duplicate_span(data, s, t) /\ span' = s /\ op' = "duplicate"
    BY <1>7 DEF Sp!DuplicateSpan, Sp!Does
  <2>2. s.nmemb >= t.nmemb
    BY <2>1 DEF Sp!MayDuplicate
  <2>3. s.first \in Nat /\ s.nmemb \in Nat /\ t.nmemb \in Nat
    BY SpanShape
  <2> DEFINE R == s.first .. s.first + t.nmemb - 1
  <2>4. R \subseteq Sp!InSpan(s) /\ \A i \in R : i - s.first \in 0 .. t.nmemb - 1
    BY <2>2, <2>3 DEF Sp!InSpan
  <2>5. \A i \in R : Sp!Item(data, t, i - s.first) \in BufferValues
    BY <1>1, <2>4, ItemIn
  <2>6. data' = [i \in Sp!Indices |-> IF i \in R THEN Sp!Item(data, t, i - s.first) ELSE data[i]]
    BY <2>1 DEF Sp!duplicate_span
  <2> HIDE DEF R
  <2>7. data' \in Buffers /\ \A i \in Sp!Indices \ Sp!InSpan(s) : data'[i] = data[i]
    BY <1>1, <2>4, <2>5, <2>6 DEF Buffers
  <2>8. QED BY <2>1, <2>7, WriteKeeps
<1>8. QED BY <1>2, <1>3, <1>4, <1>5, <1>6, <1>7 DEF Sp!Next

LEMMA SpanInvariant == SpecAny => []SpanTyped
<1>1. InitAny => SpanTyped
  BY DEF InitAny, Sp!Init, SpanTyped, Buffers
<1>2. SpanTyped /\ [NextAny]_allVars => SpanTyped'
  <2>1. ASSUME SpanTyped, Sp!Next PROVE SpanTyped'
    BY <2>1, SpanSteps
  <2>2. ASSUME SpanTyped, UNCHANGED spanVars PROVE SpanTyped'
    BY <2>2 DEF spanVars, SpanTyped
  <2>3. [NextAny]_allVars => Sp!Next \/ UNCHANGED spanVars
    BY DEF NextAny, allVars
  <2>4. QED BY <2>1, <2>2, <2>3
<1>3. QED BY <1>1, <1>2, PTL DEF SpecAny

(* The algorithms on spans: no operation changes an element of the buffer   *)
(* outside its span, whatever random() returns, and reversing, shuffling    *)
(* and sorting lose and double none; except shuffle_span of no items, which *)
(* traps and of whose outcome nothing is said.                              *)
THEOREM SpansStayInside == SpecAny => SpansKeepElements
<1> DEFINE Inside == IF data' = FAULT THEN op' = "shuffle" /\ span'.nmemb = 0
                     ELSE \A i \in Sp!Indices \ Sp!InSpan(span') : data'[i] = data[i]
           Same == data' # FAULT /\ op' \in {"reverse", "shuffle", "sort"} =>
                     \A v \in BufferValues : Sp!Cardinality({i \in Sp!Indices : data'[i] = v})
                                               = Sp!Cardinality({i \in Sp!Indices : data[i] = v})
<1>1. SpanKeeps => Inside /\ Same
  <2>1. \A S : Sp!Cardinality(S) = Cardinality(S)
    BY DEF Sp!Cardinality, Cardinality
  <2>2. QED BY <2>1 DEF SpanKeeps, PlacesOf
<1>2. SpanTyped /\ [NextAny]_allVars => [Inside]_(Sp!vars) /\ [Same]_(Sp!vars)
  <2>1. ASSUME SpanTyped, Sp!Next PROVE SpanKeeps
    BY <2>1, SpanSteps
  <2>2. [NextAny]_allVars => Sp!Next \/ UNCHANGED spanVars
    BY DEF NextAny, allVars
  <2>3. UNCHANGED spanVars => UNCHANGED Sp!vars
    BY DEF spanVars, Sp!vars
  <2> HIDE DEF Inside, Same
  <2>4. QED BY <1>1, <2>1, <2>2, <2>3
<1>3. QED
  BY <1>2, SpanInvariant, PTL DEF SpecAny, SpansKeepElements, Sp!OutsideKept, Sp!ElementsKept

-----------------------------------------------------------------------------
(* The reversal is the reversal of the items.                               *)
LEMMA ReverseIsReverse ==
  ASSUME NEW s \in Sp!Slices, NEW d \in Buffers
  PROVE  Sp!Items(Sp!reverse_span(d, s), s) = Sp!Reverse(Sp!Items(d, s))
<1> DEFINE l == s.nmemb
           g == Sp!reverse_span(d, s)
           t == Sp!Items(d, s)
<1>1. l \in Nat
  BY SpanShape
<1>2. \A i \in 0 .. l - 1 : Sp!Item(g, s, i) = Sp!Item(d, s, l - 1 - i)
  BY Reversed
<1>3. /\ t = [i \in 1 .. l |-> Sp!Item(d, s, i - 1)]
      /\ Sp!Items(g, s) = [i \in 1 .. l |-> Sp!Item(g, s, i - 1)]
  BY DEF Sp!Items
<1> HIDE DEF l, g, t
<1>4. Len(t) = l
  BY <1>1, <1>3
<1>5. Sp!Reverse(t) = [i \in 1 .. l |-> t[(l - i) + 1]]
  BY <1>4 DEF Sp!Reverse
<1>6. \A i \in 1 .. l : Sp!Item(g, s, i - 1) = t[(l - i) + 1]
  <2>1. \A i \in 1 .. l : i - 1 \in 0 .. l - 1 /\ (l - i) + 1 \in 1 .. l /\ ((l - i) + 1) - 1 = l - 1 - (i - 1)
    BY <1>1
  <2>2. QED BY <1>2, <1>3, <2>1
<1>7. Sp!Items(g, s) = Sp!Reverse(t)
  BY <1>3, <1>5, <1>6
<1>8. QED BY <1>7 DEF g, t

(* The turns of a shuffle: the items are those of d, each once; what lies   *)
(* behind the turn's place has come to stay.                                *)
Distinct(d, s) == \A i, j \in 0 .. s.nmemb - 1 : Sp!Item(d, s, i) = Sp!Item(d, s, j) => i = j
SameItems(g, d, s) ==
  \A i \in 0 .. s.nmemb - 1 : \E j \in 0 .. s.nmemb - 1 : Sp!Item(d, s, i) = Sp!Item(g, s, j)

LEMMA ShuffleTurn ==
  ASSUME NEW s \in Sp!Slices, NEW d \in Buffers, NEW c \in Sp!PickSequences(s), s.nmemb # 0,
         NEW k \in 0 .. (s.nmemb - 1) - 1
  PROVE  LET u == Shuffling(d, s, c)
             i == s.nmemb - (k + 1)
         IN  /\ i \in 1 .. s.nmemb - 1 /\ c[i] \in 0 .. i /\ c[i] \in 0 .. s.nmemb - 1
             /\ u[k] \in Buffers /\ u[k + 1] \in Buffers
             /\ u[k + 1] = Sp!swap(u[k], s, i, c[i])
             /\ \A j \in 0 .. s.nmemb - 1 :
                  Sp!Item(u[k + 1], s, j) =
                    IF j = c[i] THEN Sp!Item(u[k], s, i)
                    ELSE IF j = i THEN Sp!Item(u[k], s, c[i]) ELSE Sp!Item(u[k], s, j)
<1> DEFINE l == s.nmemb
           m == l - 1
           A == Lasts(s)
           B == Chosen(s, c)
           u == Shuffling(d, s, c)
           i == l - (k + 1)
<1>1. /\ l \in Nat /\ m \in Nat /\ A \in [1 .. m -> 0 .. l - 1] /\ B \in [1 .. m -> 0 .. l - 1]
      /\ \A j \in 1 .. m : c[j] \in 0 .. j
      /\ Swaps(u, d, s, m, A, B)
  BY ShuffleTurns, SpanShape
<1>2. k \in 0 .. m - 1 /\ k + 1 \in 1 .. m /\ (k + 1) - 1 = k /\ k \in 0 .. m /\ k + 1 \in 0 .. m
  BY <1>1
<1>3. A[k + 1] = i /\ B[k + 1] = c[i] /\ i \in 1 .. m /\ i \in 0 .. l - 1
  BY <1>1, <1>2 DEF Lasts, Chosen
<1> HIDE DEF u, i, A, B
<1>4. c[i] \in 0 .. i /\ c[i] \in 0 .. l - 1
  <2>1. c[i] \in 0 .. i
    BY <1>1, <1>3
  <2>2. QED BY <1>1, <1>3, <2>1
<1>5. u[k] \in Buffers /\ u[k + 1] \in Buffers
  <2> HIDE DEF m
  <2>1. \A j \in 0 .. m : Exchanged(u[j], d, s)
    BY <1>1, SwapsExchange DEF l
  <2>2. QED BY <1>2, <2>1 DEF Exchanged
<1>6. u[k + 1] = Sp!swap(u[k], s, i, c[i])
  BY <1>1, <1>2, <1>3 DEF Swaps
<1>7. \A j \in 0 .. l - 1 :
        Sp!Item(u[k + 1], s, j) =
          IF j = c[i] THEN Sp!Item(u[k], s, i)
          ELSE IF j = i THEN Sp!Item(u[k], s, c[i]) ELSE Sp!Item(u[k], s, j)
  BY <1>3, <1>4, <1>5, <1>6, SpanSwap
<1>8. QED BY <1>3, <1>4, <1>5, <1>6, <1>7 DEF u, i

LEMMA ShuffleMixes ==
  ASSUME NEW s \in Sp!Slices, NEW d \in Buffers, NEW c \in Sp!PickSequences(s), s.nmemb # 0,
         Distinct(d, s)
  PROVE  \A k \in 0 .. s.nmemb - 1 :
           Distinct(Shuffling(d, s, c)[k], s) /\ SameItems(Shuffling(d, s, c)[k], d, s)
<1> DEFINE l == s.nmemb
           m == l - 1
           u == Shuffling(d, s, c)
           T(i) == Sp!Item(d, s, i)
           W(k, i) == Sp!Item(u[k], s, i)
           Mixed(k) == /\ \A i, j \in 0 .. m : W(k, i) = W(k, j) => i = j
                       /\ \A i \in 0 .. m : \E j \in 0 .. m : T(i) = W(k, j)
           S == {k \in 0 .. m : Mixed(k)}
<1>1. l \in Nat /\ m \in Nat /\ l - 1 = m
  BY SpanShape
<1>2. 0 \in S
  <2>1. u[0] = d
    BY ShuffleTurns DEF Swaps
  <2>2. \A i \in 0 .. m : T(i) = W(0, i)
    BY <2>1
  <2>3. \A i, j \in 0 .. m : W(0, i) = W(0, j) => i = j
    BY <2>1 DEF Distinct
  <2>4. 0 \in 0 .. m
    BY <1>1
  <2> HIDE DEF W, T
  <2>5. QED BY <2>2, <2>3, <2>4
<1>3. ASSUME NEW k \in 0 .. m - 1, Mixed(k) PROVE Mixed(k + 1)
  <2> DEFINE a == l - (k + 1)
             b == c[a]
             V(i) == W(k, i)
             X(i) == W(k + 1, i)
  <2>1. /\ a \in 1 .. m /\ b \in 0 .. a /\ b \in 0 .. m
        /\ \A j \in 0 .. m : X(j) = IF j = b THEN V(a) ELSE IF j = a THEN V(b) ELSE V(j)
    BY ShuffleTurn
  <2>2. a \in 0 .. m
    BY <1>1, <2>1
  <2>3. /\ \A i, j \in 0 .. m : V(i) = V(j) => i = j
        /\ \A i \in 0 .. m : \E j \in 0 .. m : T(i) = V(j)
    BY <1>3
  <2> HIDE DEF a, b, V, X, W, T, u, m, l
  <2>4. \A i, j \in 0 .. m : X(i) = X(j) => i = j
    BY <2>1, <2>2, <2>3
  <2>5. \A i \in 0 .. m : \E j \in 0 .. m : V(i) = X(j)
    BY <2>1, <2>2
  <2>6. \A i \in 0 .. m : \E j \in 0 .. m : T(i) = X(j)
    BY <2>3, <2>5
  <2>7. QED BY <2>4, <2>6 DEF X
<1>4. \A k \in 0 .. m : k \in S
  <2>1. ASSUME NEW k \in 0 .. m - 1, k \in S PROVE k + 1 \in S
    <3> HIDE DEF Mixed
    <3>1. Mixed(k) /\ k + 1 \in 0 .. m
      BY <1>1, <2>1
    <3>2. QED BY <1>3, <3>1
  <2> HIDE DEF S, m
  <2>2. QED BY <1>1, <1>2, <2>1, UpTo
<1>5. QED BY <1>4 DEF Distinct, SameItems

LEMMA ShuffleSettles ==
  ASSUME NEW s \in Sp!Slices, NEW d \in Buffers, NEW c \in Sp!PickSequences(s), s.nmemb # 0,
         NEW i \in 0 .. s.nmemb - 1, NEW k \in 0 .. s.nmemb - 1, i >= s.nmemb - k
  PROVE  Sp!Item(Sp!Shuffled(d, s, c), s, i) = Sp!Item(Shuffling(d, s, c)[k], s, i)
<1> DEFINE l == s.nmemb
           m == l - 1
           u == Shuffling(d, s, c)
           W(j) == Sp!Item(u[j], s, i)
           S == {e \in 0 .. m - k : W(k + e) = W(k)}
<1>1. l \in Nat /\ m \in Nat /\ m - k \in Nat /\ l - 1 = m
  BY SpanShape
<1>2. Sp!Shuffled(d, s, c) = u[m]
  BY ShuffleTurns
<1> HIDE DEF u, l
<1>3. 0 \in S
  BY <1>1 DEF l
<1>4. ASSUME NEW e \in 0 .. (m - k) - 1, e \in S PROVE e + 1 \in S
  <2> DEFINE j == k + e
             a == l - (j + 1)
  <2>1. j \in 0 .. (l - 1) - 1 /\ k + (e + 1) = j + 1 /\ e + 1 \in 0 .. m - k
    BY <1>1 DEF l
  <2> HIDE DEF j
  <2>2. /\ c[a] \in 0 .. a /\ a \in 1 .. m
        /\ W(j + 1) = IF i = c[a] THEN Sp!Item(u[j], s, a) ELSE IF i = a THEN Sp!Item(u[j], s, c[a]) ELSE W(j)
    BY <2>1, ShuffleTurn DEF u, l
  <2>3. a < i
    BY <1>1, <2>1 DEF j, l
  <2>4. i # a /\ i # c[a]
    BY <1>1, <2>2, <2>3 DEF l
  <2>5. W(j + 1) = W(j)
    BY <2>2, <2>4
  <2> HIDE DEF W, a
  <2>6. W(j) = W(k)
    BY <1>4 DEF j
  <2>7. QED BY <2>1, <2>5, <2>6
<1>5. \A e \in 0 .. m - k : e \in S
  <2> HIDE DEF S, m
  <2>1. QED BY <1>1, <1>3, <1>4, UpTo
<1>6. m - k \in 0 .. m - k /\ k + (m - k) = m
  BY <1>1 DEF l
<1>7. W(m) = W(k)
  <2> HIDE DEF W
  <2>1. W(k + (m - k)) = W(k)
    BY <1>5, <1>6
  <2>2. QED BY <1>6, <2>1
<1>8. QED BY <1>2, <1>7 DEF u

(* The same picks give the same turns.                                      *)
LEMMA ShuffleAgrees ==
  ASSUME NEW s \in Sp!Slices, NEW d \in Buffers, NEW c \in Sp!PickSequences(s),
         NEW e \in Sp!PickSequences(s), s.nmemb # 0, NEW k \in 0 .. s.nmemb - 1,
         \A i \in s.nmemb - k .. s.nmemb - 1 : c[i] = e[i]
  PROVE  Shuffling(d, s, c)[k] = Shuffling(d, s, e)[k]
<1> DEFINE l == s.nmemb
           u == Shuffling(d, s, c)
           v == Shuffling(d, s, e)
           S == {j \in 0 .. k : u[j] = v[j]}
<1>1. l \in Nat /\ k \in Nat
  BY SpanShape
<1>2. 0 \in S
  <2>1. u[0] = d /\ v[0] = d
    BY ShuffleTurns DEF Swaps
  <2>2. QED BY <1>1, <2>1
<1>3. ASSUME NEW j \in 0 .. k - 1, j \in S PROVE j + 1 \in S
  <2> DEFINE a == l - (j + 1)
  <2>1. j \in 0 .. (l - 1) - 1 /\ j + 1 \in 0 .. k /\ a \in l - k .. l - 1
    BY <1>1
  <2>2. u[j + 1] = Sp!swap(u[j], s, a, c[a])
    BY <2>1, ShuffleTurn
  <2>3. v[j + 1] = Sp!swap(v[j], s, a, e[a])
    BY <2>1, ShuffleTurn
  <2>4. c[a] = e[a]
    BY <2>1
  <2> HIDE DEF a, u, v
  <2>5. QED BY <1>3, <2>1, <2>2, <2>3, <2>4
<1>4. k \in S
  <2> HIDE DEF S
  <2>1. \A j \in 0 .. k : j \in S
    BY <1>1, <1>2, <1>3, UpTo
  <2>2. QED BY <1>1, <2>1
<1>5. QED BY <1>4

(* The item that comes to stay at the turn's place is the one picked.       *)
LEMMA ShufflePicks ==
  ASSUME NEW s \in Sp!Slices, NEW d \in Buffers, NEW c \in Sp!PickSequences(s), s.nmemb # 0,
         NEW k \in 0 .. (s.nmemb - 1) - 1
  PROVE  LET u == Shuffling(d, s, c)
             a == s.nmemb - (k + 1)
         IN  /\ Sp!Item(u[k + 1], s, a) = Sp!Item(u[k], s, c[a])
             /\ Sp!Item(Sp!Shuffled(d, s, c), s, a) = Sp!Item(u[k], s, c[a])
<1> DEFINE l == s.nmemb
           u == Shuffling(d, s, c)
           a == l - (k + 1)
<1>1. l \in Nat /\ k + 1 \in 0 .. l - 1 /\ a \in 0 .. l - 1 /\ a >= l - (k + 1)
  BY SpanShape
<1>2. Sp!Item(u[k + 1], s, a) = IF a = c[a] THEN Sp!Item(u[k], s, a)
                                ELSE IF a = a THEN Sp!Item(u[k], s, c[a]) ELSE Sp!Item(u[k], s, a)
  BY <1>1, ShuffleTurn
<1>3. Sp!Item(Sp!Shuffled(d, s, c), s, a) = Sp!Item(u[k + 1], s, a)
  BY <1>1, ShuffleSettles
<1>4. QED BY <1>2, <1>3

(* Different picks give different orders.                                   *)
LEMMA PicksTell ==
  ASSUME NEW s \in Sp!Slices, NEW d \in Buffers, s.nmemb # 0, Distinct(d, s),
         NEW c \in Sp!PickSequences(s), NEW e \in Sp!PickSequences(s),
         \A i \in 0 .. s.nmemb - 1 :
           Sp!Item(Sp!Shuffled(d, s, c), s, i) = Sp!Item(Sp!Shuffled(d, s, e), s, i)
  PROVE  c = e
<1> DEFINE l == s.nmemb
           m == l - 1
           u == Shuffling(d, s, c)
           v == Shuffling(d, s, e)
           Agree(k) == \A i \in l - k .. l - 1 : c[i] = e[i]
           S == {k \in 0 .. m : Agree(k)}
<1>1. l \in Nat /\ m \in Nat
  BY SpanShape
<1>2. 0 \in S
  BY <1>1
<1>3. ASSUME NEW k \in 0 .. m - 1, Agree(k) PROVE Agree(k + 1)
  <2> DEFINE a == l - (k + 1)
             w == u[k]
  <2>1. k \in 0 .. l - 1 /\ k \in 0 .. (l - 1) - 1 /\ a \in 0 .. l - 1
    BY <1>1
  <2>2. w = v[k]
    BY <1>3, <2>1, ShuffleAgrees
  <2>3. /\ Sp!Item(Sp!Shuffled(d, s, c), s, a) = Sp!Item(w, s, c[a])
        /\ Sp!Item(Sp!Shuffled(d, s, e), s, a) = Sp!Item(v[k], s, e[a])
        /\ c[a] \in 0 .. l - 1 /\ e[a] \in 0 .. l - 1
    BY <2>1, ShufflePicks, ShuffleTurn
  <2>4. Distinct(w, s)
    BY <2>1, ShuffleMixes
  <2>5. c[a] = e[a]
    <3> HIDE DEF a, w
    <3>1. Sp!Item(w, s, c[a]) = Sp!Item(w, s, e[a])
      BY <2>1, <2>2, <2>3
    <3>2. QED BY <2>3, <2>4, <3>1 DEF Distinct
  <2>6. \A i \in l - (k + 1) .. l - 1 : i = a \/ i \in l - k .. l - 1
    BY <1>1
  <2> HIDE DEF a
  <2>7. QED BY <1>3, <2>5, <2>6
<1>4. \A k \in 0 .. m : k \in S
  <2>1. ASSUME NEW k \in 0 .. m - 1, k \in S PROVE k + 1 \in S
    <3> HIDE DEF Agree
    <3>1. Agree(k) /\ k + 1 \in 0 .. m
      BY <1>1, <2>1
    <3>2. QED BY <1>3, <3>1
  <2> HIDE DEF S, m
  <2>2. QED BY <1>1, <1>2, <2>1, UpTo
<1>5. \A i \in 1 .. m : c[i] = e[i]
  <2>1. m \in 0 .. m /\ l - m = 1
    BY <1>1
  <2>2. Agree(m)
    BY <1>4, <2>1
  <2>3. QED BY <2>1, <2>2
<1>6. c \in [1 .. m -> 0 .. m] /\ e \in [1 .. m -> 0 .. m]
  BY DEF Sp!PickSequences
<1> HIDE DEF m
<1>7. c = [i \in 1 .. m |-> c[i]] /\ e = [i \in 1 .. m |-> e[i]]
  BY <1>6
<1>8. QED BY <1>5, <1>7

(* Every order results from some picks: those of the items it asks for.     *)
Asks(p, d, s) ==
  /\ \A i \in 0 .. s.nmemb - 1 : \E j \in 0 .. s.nmemb - 1 : p[i + 1] = Sp!Item(d, s, j)
  /\ \A i, j \in 0 .. s.nmemb - 1 : p[i + 1] = p[j + 1] => i = j
Gets(g, s, p) == \A i \in 0 .. s.nmemb - 1 : Sp!Item(g, s, i) = p[i + 1]

LEMMA PicksReach ==
  ASSUME NEW s \in Sp!Slices, NEW d \in Buffers, s.nmemb # 0, Distinct(d, s),
         NEW p, Asks(p, d, s)
  PROVE  \E c \in Sp!PickSequences(s) : Gets(Sp!Shuffled(d, s, c), s, p)
<1> DEFINE l == s.nmemb
           m == l - 1
           U(c) == Shuffling(d, s, c)
           Meets(c, k) == \A i \in l - k .. l - 1 : Sp!Item(U(c)[k], s, i) = p[i + 1]
           S == {k \in 0 .. m : \E c \in Sp!PickSequences(s) : Meets(c, k)}
<1>1. l \in Nat /\ m \in Nat
  BY SpanShape
<1>2. 0 \in S
  <2> DEFINE c == [i \in 1 .. m |-> 0]
  <2>1. c \in Sp!PickSequences(s)
    <3>1. c \in [1 .. m -> 0 .. m] /\ \A i \in 1 .. m : c[i] \in 0 .. i
      BY <1>1
    <3>2. QED BY <3>1 DEF Sp!PickSequences, Sp!Picks
  <2>2. \A i \in l - 0 .. l - 1 : FALSE
    BY <1>1
  <2>3. QED BY <1>1, <2>1, <2>2
<1>3. ASSUME NEW k \in 0 .. m - 1, k \in S PROVE k + 1 \in S
  <2> DEFINE a == l - (k + 1)
  <2>1. PICK c \in Sp!PickSequences(s) : Meets(c, k)
    BY <1>3
  <2> DEFINE w == U(c)[k]
  <2>2. /\ k \in 0 .. l - 1 /\ k + 1 \in 0 .. m /\ k \in 0 .. (l - 1) - 1
        /\ a \in 1 .. m /\ a \in 0 .. m /\ a < l - k
    BY <1>1
  <2>3. Distinct(w, s) /\ SameItems(w, d, s)
    BY <2>2, ShuffleMixes
  <2>4. PICK b \in 0 .. l - 1 : Sp!Item(w, s, b) = p[a + 1]
    <3> HIDE DEF w, a
    <3>1. PICK j \in 0 .. l - 1 : p[a + 1] = Sp!Item(d, s, j)
      BY <2>2 DEF Asks
    <3>2. QED BY <2>3, <3>1 DEF SameItems
  <2>5. b \in 0 .. a
    <3>1. SUFFICES ASSUME b \notin 0 .. a PROVE FALSE
      OBVIOUS
    <3>2. b \in l - k .. l - 1 /\ b # a
      BY <1>1, <2>2, <3>1
    <3>3. p[b + 1] = p[a + 1]
      BY <2>1, <2>4, <3>2
    <3> HIDE DEF a
    <3>4. QED BY <2>2, <3>2, <3>3 DEF Asks
  <2> DEFINE e == [c EXCEPT ![a] = b]
  <2>6. e \in Sp!PickSequences(s) /\ e[a] = b /\ \A i \in 1 .. m : i # a => e[i] = c[i]
    <3>1. c \in [1 .. m -> 0 .. m] /\ \A i \in 1 .. m : c[i] \in 0 .. i
      BY DEF Sp!PickSequences, Sp!Picks
    <3> HIDE DEF a
    <3>2. e \in [1 .. m -> 0 .. m] /\ e[a] = b /\ \A i \in 1 .. m : i # a => e[i] = c[i]
      BY <2>2, <2>4, <3>1
    <3> HIDE DEF e
    <3>3. \A i \in 1 .. m : e[i] \in 0 .. i
      BY <2>5, <3>1, <3>2
    <3>4. QED BY <3>2, <3>3 DEF Sp!PickSequences, Sp!Picks
  <2>7. \A i \in l - k .. l - 1 : i \in 1 .. m /\ i # a
    BY <1>1, <2>2
  <2>8. U(e)[k] = w
    <3>1. \A i \in l - k .. l - 1 : e[i] = c[i]
      BY <2>6, <2>7
    <3> HIDE DEF e
    <3>2. QED BY <2>2, <2>6, <3>1, ShuffleAgrees
  <2> HIDE DEF e
  <2>9. Sp!Item(U(e)[k + 1], s, a) = p[a + 1]
    <3>1. Sp!Item(U(e)[k + 1], s, a) = Sp!Item(U(e)[k], s, e[a])
      BY <2>2, <2>6, ShufflePicks
    <3> HIDE DEF a, w, U
    <3>2. QED BY <2>4, <2>6, <2>8, <3>1
  <2>10. ASSUME NEW i \in l - k .. l - 1 PROVE Sp!Item(U(e)[k + 1], s, i) = p[i + 1]
    <3>1. i \in 0 .. l - 1 /\ i >= l - k /\ i >= l - (k + 1) /\ k + 1 \in 0 .. l - 1
      BY <1>1, <2>2
    <3>2. Sp!Item(Sp!Shuffled(d, s, e), s, i) = Sp!Item(U(e)[k + 1], s, i)
      BY <2>6, <3>1, ShuffleSettles
    <3>3. Sp!Item(Sp!Shuffled(d, s, e), s, i) = Sp!Item(U(e)[k], s, i)
      BY <2>2, <2>6, <3>1, ShuffleSettles
    <3>4. Sp!Item(w, s, i) = p[i + 1]
      BY <2>1
    <3> HIDE DEF w, U
    <3>5. QED BY <2>8, <3>2, <3>3, <3>4
  <2>11. \A i \in l - (k + 1) .. l - 1 : i = a \/ i \in l - k .. l - 1
    BY <1>1
  <2>12. Meets(e, k + 1)
    <3> HIDE DEF U, a
    <3>1. QED BY <2>9, <2>10, <2>11
  <2> HIDE DEF Meets
  <2>13. QED BY <2>2, <2>6, <2>12
<1>4. m \in S
  <2> HIDE DEF S, m
  <2>1. \A k \in 0 .. m : k \in S
    BY <1>1, <1>2, <1>3, UpTo
  <2>2. QED BY <1>1, <2>1
<1>5. PICK c \in Sp!PickSequences(s) : Meets(c, m)
  BY <1>4
<1> DEFINE w == Sp!Shuffled(d, s, c)
<1>6. w = U(c)[m] /\ Distinct(w, s) /\ SameItems(w, d, s)
  <2>1. w = U(c)[m]
    BY ShuffleTurns
  <2>2. m \in 0 .. l - 1
    BY <1>1
  <2>3. Distinct(U(c)[m], s) /\ SameItems(U(c)[m], d, s)
    BY <2>2, ShuffleMixes
  <2> HIDE DEF U, w
  <2>4. QED BY <2>1, <2>3
<1> HIDE DEF w
<1>7. \A i \in 1 .. l - 1 : Sp!Item(w, s, i) = p[i + 1]
  <2>1. l - m = 1
    BY <1>1
  <2> HIDE DEF U
  <2>2. QED BY <1>5, <1>6, <2>1
<1>8. Sp!Item(w, s, 0) = p[0 + 1]
  <2>1. 0 \in 0 .. l - 1
    BY <1>1
  <2>2. PICK j \in 0 .. l - 1 : p[0 + 1] = Sp!Item(w, s, j)
    <3>1. PICK j \in 0 .. l - 1 : p[0 + 1] = Sp!Item(d, s, j)
      BY <2>1 DEF Asks
    <3>2. QED BY <1>6, <3>1 DEF SameItems
  <2>3. j # 0 => j \in 1 .. l - 1
    OBVIOUS
  <2>4. j # 0 => p[0 + 1] = p[j + 1]
    BY <1>7, <2>2, <2>3
  <2>5. j = 0
    BY <2>1, <2>4 DEF Asks
  <2>6. QED BY <2>2, <2>5
<1>9. \A i \in 0 .. l - 1 : i = 0 \/ i \in 1 .. l - 1
  OBVIOUS
<1>10. \A i \in 0 .. l - 1 : Sp!Item(w, s, i) = p[i + 1]
  BY <1>7, <1>8, <1>9
<1>11. QED BY <1>10 DEF w, Gets

(* The in-place reversal is the reversal, of odd and even lengths, and the  *)
(* shuffle of algorithms.c is fair: each order of distinct items results    *)
(* from exactly one sequence of picks.                                      *)
THEOREM ReversesAndShufflesRight == SpecAny => []ReordersRight
<1>1. SpanTyped => ReordersRight
  <2>1. SUFFICES ASSUME data \in Buffers PROVE ReordersRight
    BY DEF SpanTyped, ReordersRight, Sp!ReordersRight, Sp!ReverseReverses, Sp!ShuffleFair
  <2>2. Sp!ReverseReverses
    BY <2>1, ReverseIsReverse DEF Sp!ReverseReverses
  <2>3. ASSUME NEW s \in Sp!Slices, s.nmemb > 0, Sp!IsInjective(Sp!Items(data, s))
        PROVE  LET outcomes == [c \in Sp!PickSequences(s) |-> Sp!Items(Sp!Shuffled(data, s, c), s)]
               IN  /\ Sp!IsInjective(outcomes)
                   /\ \A p \in [1 .. s.nmemb -> Sp!Range(Sp!Items(data, s))] :
                        Sp!IsInjective(p) => p \in Sp!Range(outcomes)
    <3> DEFINE l == s.nmemb
               t == Sp!Items(data, s)
               Q == Sp!PickSequences(s)
               R(c) == Sp!Shuffled(data, s, c)
               out == [c \in Q |-> Sp!Items(R(c), s)]
    <3>1. l \in Nat /\ l # 0 /\ s.nmemb # 0
      BY <2>3, SpanShape
    <3>2. \A g : Sp!Items(g, s) = [i \in 1 .. l |-> Sp!Item(g, s, i - 1)]
      BY DEF Sp!Items
    <3>3. \A i \in 0 .. l - 1 : i + 1 \in 1 .. l /\ (i + 1) - 1 = i
      BY <3>1
    <3>4. \A i \in 1 .. l : i - 1 \in 0 .. l - 1 /\ (i - 1) + 1 = i
      BY <3>1
    <3>5. Distinct(data, s)
      <4>1. DOMAIN t = 1 .. l /\ \A i \in 0 .. l - 1 : t[i + 1] = Sp!Item(data, s, i)
        BY <3>2, <3>3
      <4> HIDE DEF t
      <4>2. ASSUME NEW i \in 0 .. l - 1, NEW j \in 0 .. l - 1, Sp!Item(data, s, i) = Sp!Item(data, s, j)
            PROVE  i = j
        <5>1. i + 1 = j + 1
          BY <2>3, <3>3, <4>1, <4>2 DEF Sp!IsInjective, t
        <5>2. QED BY <5>1
      <4>3. QED BY <4>2 DEF Distinct
    <3>6. ASSUME NEW c \in Q, NEW e \in Q, Sp!Items(R(c), s) = Sp!Items(R(e), s) PROVE c = e
      <4>1. \A i \in 0 .. l - 1 : Sp!Items(R(c), s)[i + 1] = Sp!Item(R(c), s, i)
                                  /\ Sp!Items(R(e), s)[i + 1] = Sp!Item(R(e), s, i)
        BY ZenonT(30), <3>2, <3>3
      <4>2. \A i \in 0 .. s.nmemb - 1 :
              Sp!Item(Sp!Shuffled(data, s, c), s, i) = Sp!Item(Sp!Shuffled(data, s, e), s, i)
        BY <3>6, <4>1
      <4>3. QED BY <2>1, <3>1, <3>5, <4>2, PicksTell
    <3>7. Sp!IsInjective(out)
      <4>1. DOMAIN out = Q /\ \A c \in Q : out[c] = Sp!Items(R(c), s)
        OBVIOUS
      <4> HIDE DEF out, R, Q
      <4>2. QED BY <3>6, <4>1 DEF Sp!IsInjective
    <3>8. ASSUME NEW p \in [1 .. l -> Sp!Range(t)], Sp!IsInjective(p) PROVE p \in Sp!Range(out)
      <4>1. \A i \in 0 .. s.nmemb - 1 : \E j \in 0 .. s.nmemb - 1 : p[i + 1] = Sp!Item(data, s, j)
        <5>1. ASSUME NEW i \in 0 .. l - 1 PROVE \E j \in 0 .. l - 1 : p[i + 1] = Sp!Item(data, s, j)
          <6>1. p[i + 1] \in Sp!Range(t)
            BY <3>3, <3>8
          <6>2. PICK k \in DOMAIN t : p[i + 1] = t[k]
            BY <6>1 DEF Sp!Range
          <6>3. k \in 1 .. l /\ t[k] = Sp!Item(data, s, k - 1)
            BY <3>2
          <6>4. QED BY <3>4, <6>2, <6>3
        <5>2. QED BY <5>1
      <4>2. \A i, j \in 0 .. s.nmemb - 1 : p[i + 1] = p[j + 1] => i = j
        <5>1. ASSUME NEW i \in 0 .. l - 1, NEW j \in 0 .. l - 1, p[i + 1] = p[j + 1] PROVE i = j
          <6>1. DOMAIN p = 1 .. l
            OBVIOUS
          <6>2. i + 1 = j + 1
            BY <3>3, <3>8, <5>1, <6>1 DEF Sp!IsInjective
          <6>3. QED BY <6>2
        <5>2. QED BY <5>1
      <4>3. PICK c \in Q : \A i \in 0 .. s.nmemb - 1 : Sp!Item(R(c), s, i) = p[i + 1]
        <5>1. Asks(p, data, s)
          BY <4>1, <4>2 DEF Asks
        <5>2. \E c \in Q : Gets(R(c), s, p)
          BY <2>1, <3>1, <3>5, <5>1, PicksReach
        <5> HIDE DEF Q, R
        <5>3. QED BY <5>2 DEF Gets
      <4>4. Sp!Items(R(c), s) = p
        <5>1. \A i \in 1 .. l : Sp!Item(R(c), s, i - 1) = p[i]
          <6>1. ASSUME NEW i \in 1 .. l PROVE Sp!Item(R(c), s, i - 1) = p[i]
            <7>1. i - 1 \in 0 .. s.nmemb - 1 /\ (i - 1) + 1 = i
              BY <3>4
            <7> HIDE DEF R
            <7>2. Sp!Item(R(c), s, i - 1) = p[(i - 1) + 1]
              BY <4>3, <7>1
            <7>3. QED BY <7>1, <7>2
          <6>2. QED BY <6>1
        <5> HIDE DEF R
        <5>2. p = [i \in 1 .. l |-> p[i]]
          OBVIOUS
        <5>3. QED BY <3>2, <5>1, <5>2
      <4>5. DOMAIN out = Q /\ out[c] = p
        BY <4>4
      <4> HIDE DEF out
      <4>6. QED BY <4>5 DEF Sp!Range
    <3>9. QED BY <3>7, <3>8
  <2>4. Sp!ShuffleFair
    BY <2>3 DEF Sp!ShuffleFair
  <2>5. QED BY <2>2, <2>4 DEF ReordersRight, Sp!ReordersRight
<1>2. QED BY <1>1, SpanInvariant, PTL

-----------------------------------------------------------------------------
(* The loop of min_span and max_span over places that rank as V says: the   *)
(* first of the highest rank keeps its place.                               *)
Keeping(f, V, l) ==
  /\ f \in [0 .. l - 1 -> 0 .. l - 1] /\ f[0] = 0
  /\ \A i \in 1 .. l - 1 : f[i] = IF V[f[i - 1]] < V[i] THEN i ELSE f[i - 1]

LEMMA Keeps ==
  ASSUME NEW l \in Nat \ {0}, NEW V \in [0 .. l - 1 -> Int]
  PROVE  \E f : Keeping(f, V, l)
<1> DEFINE X == 0 .. l - 1
           step == [i \in 1 .. l - 1 |-> [b \in X |-> IF V[b] < V[i] THEN i ELSE b]]
<1>1. l - 1 \in Nat /\ 0 \in X /\ \A i \in 1 .. l - 1 : i \in X /\ i - 1 \in X
  OBVIOUS
<1>2. step \in Turns(X, l - 1)
  <2> HIDE DEF X
  <2>1. ASSUME NEW i \in 1 .. l - 1 PROVE [b \in X |-> IF V[b] < V[i] THEN i ELSE b] \in [X -> X]
    BY <1>1
  <2>2. QED BY <2>1 DEF Turns
<1>3. Runs(X, l - 1, 0, step)
  <2> HIDE DEF step, X
  <2>1. QED BY <1>1, <1>2, Loop
<1>4. PICK f \in [0 .. l - 1 -> X] : f[0] = 0 /\ \A i \in 1 .. l - 1 : f[i] = step[i][f[i - 1]]
  <2> HIDE DEF step, X
  <2>1. QED BY <1>3 DEF Runs
<1>5. \A i \in 1 .. l - 1 : f[i - 1] \in X
  BY <1>1, <1>4
<1>6. Keeping(f, V, l)
  <2> HIDE DEF X
  <2>1. \A i \in 1 .. l - 1 : f[i] = IF V[f[i - 1]] < V[i] THEN i ELSE f[i - 1]
    BY <1>4, <1>5
  <2>2. QED BY <1>4, <2>1 DEF Keeping, X
<1>7. QED BY <1>6

LEMMA KeptFirst ==
  ASSUME NEW l \in Nat \ {0}, NEW V \in [0 .. l - 1 -> Int], NEW f, Keeping(f, V, l)
  PROVE  /\ f[l - 1] \in 0 .. l - 1
         /\ \A j \in 0 .. l - 1 : V[j] <= V[f[l - 1]]
         /\ \A j \in 0 .. l - 1 : j < f[l - 1] => V[j] # V[f[l - 1]]
<1> DEFINE Top(k) == /\ \A j \in 0 .. l - 1 : j <= k => V[j] <= V[f[k]]
                     /\ \A j \in 0 .. l - 1 : j < f[k] => V[j] < V[f[k]]
           S == {k \in 0 .. l - 1 : Top(k)}
<1>1. \A k \in 0 .. l - 1 : f[k] \in 0 .. l - 1 /\ f[k] \in Nat /\ V[f[k]] \in Int /\ V[k] \in Int
  BY DEF Keeping
<1>2. 0 \in S
  <2>1. f[0] = 0 /\ 0 \in 0 .. l - 1
    BY DEF Keeping
  <2>2. \A j \in 0 .. l - 1 : (j <= 0 => j = 0) /\ ~(j < 0)
    OBVIOUS
  <2>3. V[0] \in Int
    BY <1>1, <2>1
  <2>4. V[0] <= V[0]
    BY <2>3
  <2>5. QED BY <2>1, <2>2, <2>4
<1>3. ASSUME NEW k \in 0 .. (l - 1) - 1, Top(k) PROVE Top(k + 1)
  <2> DEFINE b == f[k]
             i == k + 1
  <2>1. i \in 1 .. l - 1 /\ i - 1 = k /\ i \in 0 .. l - 1 /\ k \in 0 .. l - 1
    OBVIOUS
  <2>2. f[i] = IF V[b] < V[i] THEN i ELSE b
    BY <2>1 DEF Keeping
  <2>3. \A j \in 0 .. l - 1 : (j <= i => j = i \/ j <= k) /\ (j < i => j <= k)
    OBVIOUS
  <2>4. V[b] \in Int /\ V[i] \in Int /\ b \in 0 .. l - 1
    BY <1>1, <2>1
  <2> HIDE DEF i, b
  <2>5. CASE V[b] < V[i]
    <3>1. \A j \in 0 .. l - 1 : j <= k => V[j] < V[i]
      <4>1. ASSUME NEW j \in 0 .. l - 1, j <= k PROVE V[j] < V[i]
        <5>1. V[j] <= V[b] /\ V[j] \in Int
          BY <1>1, <1>3, <4>1 DEF b
        <5>2. QED BY <2>4, <2>5, <5>1
      <4>2. QED BY <4>1
    <3>2. f[i] = i
      BY <2>2, <2>5
    <3>3. \A j \in 0 .. l - 1 : j <= i => V[j] <= V[i]
      <4>1. ASSUME NEW j \in 0 .. l - 1, j <= i PROVE V[j] <= V[i]
        <5>1. CASE j = i
          BY <2>4, <5>1
        <5>2. CASE j # i
          <6>1. V[j] < V[i] /\ V[j] \in Int
            BY <1>1, <2>3, <3>1, <4>1, <5>2
          <6>2. QED BY <2>4, <6>1
        <5>3. QED BY <5>1, <5>2
      <4>2. QED BY <4>1
    <3>4. QED BY <2>3, <3>1, <3>2, <3>3 DEF i
  <2>6. CASE ~(V[b] < V[i])
    <3>1. f[i] = b /\ V[i] <= V[b]
      BY <2>2, <2>4, <2>6
    <3>2. \A j \in 0 .. l - 1 : j <= i => V[j] <= V[b]
      BY <1>3, <2>3, <3>1 DEF b
    <3>3. QED BY <1>3, <3>1, <3>2 DEF i, b
  <2>7. QED BY <2>5, <2>6
<1>4. \A k \in 0 .. l - 1 : k \in S
  <2>1. ASSUME NEW k \in 0 .. (l - 1) - 1, k \in S PROVE k + 1 \in S
    <3> HIDE DEF Top
    <3>1. Top(k) /\ k + 1 \in 0 .. l - 1
      BY <2>1
    <3>2. QED BY <1>3, <3>1
  <2> HIDE DEF S
  <2>2. l - 1 \in Nat
    OBVIOUS
  <2>3. QED BY <1>2, <2>1, <2>2, UpTo
<1>5. Top(l - 1) /\ l - 1 \in 0 .. l - 1
  BY <1>4
<1> HIDE DEF S
<1>6. \A j \in 0 .. l - 1 : V[j] \in Int
  OBVIOUS
<1>7. ASSUME NEW j \in 0 .. l - 1, j < f[l - 1] PROVE V[j] # V[f[l - 1]]
  <2>1. V[j] < V[f[l - 1]]
    BY <1>5, <1>7
  <2>2. V[j] \in Int /\ V[f[l - 1]] \in Int
    BY <1>1, <1>5
  <2>3. QED BY <2>1, <2>2
<1>8. \A j \in 0 .. l - 1 : V[j] <= V[f[l - 1]]
  <2>1. \A j \in 0 .. l - 1 : j <= l - 1
    OBVIOUS
  <2>2. QED BY <1>5, <2>1
<1>9. QED BY <1>1, <1>5, <1>7, <1>8

(* Two runs of it keep the same place.                                      *)
LEMMA KeepOne ==
  ASSUME NEW l \in Nat \ {0}, NEW V \in [0 .. l - 1 -> Int],
         NEW f, Keeping(f, V, l), NEW g, g[0] = 0,
         \A i \in 1 .. l - 1 : g[i - 1] = f[i - 1] => g[i] = f[i]
  PROVE  g[l - 1] = f[l - 1]
<1> DEFINE S == {k \in 0 .. l - 1 : g[k] = f[k]}
<1>1. 0 \in S
  BY DEF Keeping
<1>2. ASSUME NEW k \in 0 .. (l - 1) - 1, k \in S PROVE k + 1 \in S
  <2>1. k + 1 \in 1 .. l - 1 /\ (k + 1) - 1 = k /\ k + 1 \in 0 .. l - 1
    OBVIOUS
  <2>2. QED BY <1>2, <2>1
<1>3. l - 1 \in Nat /\ l - 1 \in 0 .. l - 1
  OBVIOUS
<1> HIDE DEF S
<1>4. \A k \in 0 .. l - 1 : k \in S
  BY <1>1, <1>2, <1>3, UpTo
<1>5. QED BY <1>3, <1>4 DEF S

(* The loops of min_span and max_span.                                      *)
MinSteps(f, d, s) ==
  [i \in 0 .. s.nmemb - 1 |->
     IF i = 0 THEN 0
     ELSE IF Sp!compare(Sp!Item(d, s, f[i - 1]), Sp!Item(d, s, i)) < 0 THEN i ELSE f[i - 1]]
MaxSteps(f, d, s) ==
  [i \in 0 .. s.nmemb - 1 |->
     IF i = 0 THEN 0
     ELSE IF Sp!compare(Sp!Item(d, s, f[i - 1]), Sp!Item(d, s, i)) > 0 THEN i ELSE f[i - 1]]

LEMMA MinKeeps ==
  ASSUME NEW s \in Sp!Slices, s.nmemb > 0, NEW d,
         NEW V \in [0 .. s.nmemb - 1 -> Int], \A i \in 0 .. s.nmemb - 1 : V[i] = Sp!Item(d, s, i)
  PROVE  \E f : Keeping(f, V, s.nmemb) /\ Sp!min_span(d, s) = f[s.nmemb - 1]
<1> DEFINE l == s.nmemb
           u == CHOOSE f : f = MinSteps(f, d, s)
<1>1. l \in Nat \ {0} /\ \A i \in 0 .. l - 1 : i = 0 \/ i \in 1 .. l - 1
  BY SpanShape
<1>2. 0 \in 0 .. l - 1 /\ \A i \in 1 .. l - 1 : i \in 0 .. l - 1 /\ i - 1 \in 0 .. l - 1 /\ i # 0
  BY <1>1
<1>3. PICK f : Keeping(f, V, l)
  BY <1>1, Keeps
<1>4. \A i \in 0 .. l - 1 : f[i] \in 0 .. l - 1 /\ V[f[i]] \in Int /\ V[i] \in Int
  BY <1>3 DEF Keeping
<1>5. \A i \in 1 .. l - 1 :
        Sp!compare(Sp!Item(d, s, f[i - 1]), Sp!Item(d, s, i)) < 0 <=> V[f[i - 1]] < V[i]
  <2>1. ASSUME NEW i \in 1 .. l - 1
        PROVE  Sp!compare(Sp!Item(d, s, f[i - 1]), Sp!Item(d, s, i)) < 0 <=> V[f[i - 1]] < V[i]
    <3>1. Sp!Item(d, s, f[i - 1]) = V[f[i - 1]] /\ Sp!Item(d, s, i) = V[i]
      BY <1>2, <1>4
    <3>2. V[f[i - 1]] \in Int /\ V[i] \in Int
      BY <1>2, <1>4
    <3>3. QED BY <3>1, <3>2 DEF Sp!compare
  <2>2. QED BY <2>1
<1>6. f = MinSteps(f, d, s)
  <2> DEFINE F(i) == IF i = 0 THEN 0
                     ELSE IF Sp!compare(Sp!Item(d, s, f[i - 1]), Sp!Item(d, s, i)) < 0 THEN i
                     ELSE f[i - 1]
  <2>1. \A i \in 0 .. l - 1 : f[i] = F(i)
    BY <1>1, <1>2, <1>3, <1>5 DEF Keeping
  <2>2. f = [i \in 0 .. l - 1 |-> f[i]]
    BY <1>3 DEF Keeping
  <2>3. MinSteps(f, d, s) = [i \in 0 .. l - 1 |-> F(i)]
    BY DEF MinSteps
  <2> HIDE DEF F
  <2>4. [i \in 0 .. l - 1 |-> f[i]] = [i \in 0 .. l - 1 |-> F(i)]
    BY <2>1
  <2>5. QED BY <2>2, <2>3, <2>4
<1>7. u = MinSteps(u, d, s)
  BY <1>6
<1>8. Sp!min_span(d, s) = u[l - 1]
  BY Zenon DEF Sp!min_span, Sp!Kept, MinSteps, l
<1> HIDE DEF u
<1>9. u[0] = 0 /\ \A i \in 1 .. l - 1 : u[i - 1] = f[i - 1] => u[i] = f[i]
  <2> DEFINE G(i) == IF i = 0 THEN 0
                     ELSE IF Sp!compare(Sp!Item(d, s, u[i - 1]), Sp!Item(d, s, i)) < 0 THEN i
                     ELSE u[i - 1]
  <2>1. u = [i \in 0 .. l - 1 |-> G(i)]
    BY <1>7 DEF MinSteps
  <2> HIDE DEF G
  <2>2. \A i \in 0 .. l - 1 : u[i] = G(i)
    BY <2>1
  <2>3. u[0] = 0
    BY <1>2, <2>2 DEF G
  <2>4. ASSUME NEW i \in 1 .. l - 1, u[i - 1] = f[i - 1] PROVE u[i] = f[i]
    <3>1. u[i] = IF Sp!compare(Sp!Item(d, s, f[i - 1]), Sp!Item(d, s, i)) < 0 THEN i ELSE f[i - 1]
      BY <1>2, <2>2, <2>4 DEF G
    <3>2. f[i] = IF V[f[i - 1]] < V[i] THEN i ELSE f[i - 1]
      BY <1>3 DEF Keeping
    <3>3. QED BY <1>5, <3>1, <3>2
  <2>5. QED BY <2>3, <2>4
<1>10. u[l - 1] = f[l - 1]
  BY <1>1, <1>3, <1>9, KeepOne
<1>11. QED BY <1>3, <1>8, <1>10 DEF l

LEMMA MaxKeeps ==
  ASSUME NEW s \in Sp!Slices, s.nmemb > 0,
         NEW d, \A i \in 0 .. s.nmemb - 1 : Sp!Item(d, s, i) \in Int,
         NEW V \in [0 .. s.nmemb - 1 -> Int], \A i \in 0 .. s.nmemb - 1 : V[i] = -Sp!Item(d, s, i)
  PROVE  \E f : Keeping(f, V, s.nmemb) /\ Sp!max_span(d, s) = f[s.nmemb - 1]
<1> DEFINE l == s.nmemb
           u == CHOOSE f : f = MaxSteps(f, d, s)
<1>1. l \in Nat \ {0} /\ \A i \in 0 .. l - 1 : i = 0 \/ i \in 1 .. l - 1
  BY SpanShape
<1>2. 0 \in 0 .. l - 1 /\ \A i \in 1 .. l - 1 : i \in 0 .. l - 1 /\ i - 1 \in 0 .. l - 1 /\ i # 0
  BY <1>1
<1>3. PICK f : Keeping(f, V, l)
  BY <1>1, Keeps
<1>4. \A i \in 0 .. l - 1 : f[i] \in 0 .. l - 1 /\ V[f[i]] \in Int /\ V[i] \in Int
  BY <1>3 DEF Keeping
<1>5. \A i \in 1 .. l - 1 :
        Sp!compare(Sp!Item(d, s, f[i - 1]), Sp!Item(d, s, i)) > 0 <=> V[f[i - 1]] < V[i]
  <2>1. ASSUME NEW i \in 1 .. l - 1
        PROVE  Sp!compare(Sp!Item(d, s, f[i - 1]), Sp!Item(d, s, i)) > 0 <=> V[f[i - 1]] < V[i]
    <3>1. V[f[i - 1]] = -Sp!Item(d, s, f[i - 1]) /\ V[i] = -Sp!Item(d, s, i)
      BY <1>2, <1>4
    <3>2. Sp!Item(d, s, f[i - 1]) \in Int /\ Sp!Item(d, s, i) \in Int
      BY <1>2, <1>4
    <3>3. QED BY <3>1, <3>2 DEF Sp!compare
  <2>2. QED BY <2>1
<1>6. f = MaxSteps(f, d, s)
  <2> DEFINE F(i) == IF i = 0 THEN 0
                     ELSE IF Sp!compare(Sp!Item(d, s, f[i - 1]), Sp!Item(d, s, i)) > 0 THEN i
                     ELSE f[i - 1]
  <2>1. \A i \in 0 .. l - 1 : f[i] = F(i)
    BY <1>1, <1>2, <1>3, <1>5 DEF Keeping
  <2>2. f = [i \in 0 .. l - 1 |-> f[i]]
    BY <1>3 DEF Keeping
  <2>3. MaxSteps(f, d, s) = [i \in 0 .. l - 1 |-> F(i)]
    BY DEF MaxSteps
  <2> HIDE DEF F
  <2>4. [i \in 0 .. l - 1 |-> f[i]] = [i \in 0 .. l - 1 |-> F(i)]
    BY <2>1
  <2>5. QED BY <2>2, <2>3, <2>4
<1>7. u = MaxSteps(u, d, s)
  BY <1>6
<1>8. Sp!max_span(d, s) = u[l - 1]
  BY Zenon DEF Sp!max_span, Sp!Kept, MaxSteps, l
<1> HIDE DEF u
<1>9. u[0] = 0 /\ \A i \in 1 .. l - 1 : u[i - 1] = f[i - 1] => u[i] = f[i]
  <2> DEFINE G(i) == IF i = 0 THEN 0
                     ELSE IF Sp!compare(Sp!Item(d, s, u[i - 1]), Sp!Item(d, s, i)) > 0 THEN i
                     ELSE u[i - 1]
  <2>1. u = [i \in 0 .. l - 1 |-> G(i)]
    BY <1>7 DEF MaxSteps
  <2> HIDE DEF G
  <2>2. \A i \in 0 .. l - 1 : u[i] = G(i)
    BY <2>1
  <2>3. u[0] = 0
    BY <1>2, <2>2 DEF G
  <2>4. ASSUME NEW i \in 1 .. l - 1, u[i - 1] = f[i - 1] PROVE u[i] = f[i]
    <3>1. u[i] = IF Sp!compare(Sp!Item(d, s, f[i - 1]), Sp!Item(d, s, i)) > 0 THEN i ELSE f[i - 1]
      BY <1>2, <2>2, <2>4 DEF G
    <3>2. f[i] = IF V[f[i - 1]] < V[i] THEN i ELSE f[i - 1]
      BY <1>3 DEF Keeping
    <3>3. QED BY <1>5, <3>1, <3>2
  <2>5. QED BY <2>3, <2>4
<1>10. u[l - 1] = f[l - 1]
  BY <1>1, <1>3, <1>9, KeepOne
<1>11. QED BY <1>3, <1>8, <1>10 DEF l

-----------------------------------------------------------------------------
(* find_span from an item that no earlier one equals.                       *)
LEMMA FindsFirst ==
  ASSUME NEW s \in Sp!Slices, NEW d \in Buffers, NEW m \in 0 .. s.nmemb - 1,
         \A j \in 0 .. s.nmemb - 1 : j < m => Sp!Item(d, s, j) # Sp!Item(d, s, m)
  PROVE  Sp!find_span(d, s, Sp!Item(d, s, m)) = m
<1> DEFINE v == Sp!Item(d, s, m)
           at == {i \in 0 .. s.nmemb - 1 : Sp!compare(Sp!Item(d, s, i), v) = 0}
<1>1. \A i \in 0 .. s.nmemb - 1 : Sp!Item(d, s, i) \in Int /\ i \in Int
  BY ItemIn
<1>2. \A i \in 0 .. s.nmemb - 1 : Sp!compare(Sp!Item(d, s, i), v) = 0 <=> Sp!Item(d, s, i) = v
  <2>1. ASSUME NEW i \in 0 .. s.nmemb - 1
        PROVE  Sp!compare(Sp!Item(d, s, i), v) = 0 <=> Sp!Item(d, s, i) = v
    <3>1. Sp!Item(d, s, i) \in Int /\ v \in Int
      BY <1>1
    <3> HIDE DEF v
    <3>2. QED BY <3>1 DEF Sp!compare
  <2>2. QED BY <2>1
<1>3. m \in at /\ \A j \in at : j \in Int /\ ~(j < m)
  BY <1>1, <1>2
<1> HIDE DEF at
<1>4. m \in Int /\ \A j \in at : m <= j
  BY <1>1, <1>3
<1>5. \A i \in at : (\A j \in at : i <= j) => i = m
  BY <1>3, <1>4
<1>6. (CHOOSE i \in at : \A j \in at : i <= j) = m
  BY <1>3, <1>4, <1>5
<1>7. QED BY <1>3, <1>6 DEF at, v, Sp!find_span

LEMMA MinMaxTell ==
  ASSUME NEW s \in Sp!Slices, s.nmemb > 0, NEW d \in Buffers
  PROVE  /\ Sp!Greatest(d, s, Sp!min_span(d, s)) /\ Sp!FirstFound(d, s, Sp!min_span(d, s))
         /\ Sp!LeastItem(d, s, Sp!max_span(d, s)) /\ Sp!FirstFound(d, s, Sp!max_span(d, s))
<1> DEFINE l == s.nmemb
           U == [i \in 0 .. l - 1 |-> Sp!Item(d, s, i)]
           W == [i \in 0 .. l - 1 |-> -Sp!Item(d, s, i)]
<1>1. l \in Nat \ {0}
  BY SpanShape
<1>2. \A i \in 0 .. l - 1 : Sp!Item(d, s, i) \in Int
  BY ItemIn
<1>3. U \in [0 .. l - 1 -> Int] /\ W \in [0 .. l - 1 -> Int]
  BY <1>2
<1>4. \A i \in 0 .. l - 1 : U[i] = Sp!Item(d, s, i) /\ W[i] = -Sp!Item(d, s, i)
  OBVIOUS
<1> HIDE DEF U, W
<1>5. PICK f : Keeping(f, U, l) /\ Sp!min_span(d, s) = f[l - 1]
  BY <1>3, <1>4, MinKeeps
<1>6. PICK h : Keeping(h, W, l) /\ Sp!max_span(d, s) = h[l - 1]
  BY <1>2, <1>3, <1>4, MaxKeeps
<1> DEFINE a == f[l - 1]
           b == h[l - 1]
<1>7. /\ a \in 0 .. l - 1
      /\ \A j \in 0 .. l - 1 : U[j] <= U[a]
      /\ \A j \in 0 .. l - 1 : j < a => U[j] # U[a]
  BY <1>1, <1>3, <1>5, KeptFirst
<1>8. /\ b \in 0 .. l - 1
      /\ \A j \in 0 .. l - 1 : W[j] <= W[b]
      /\ \A j \in 0 .. l - 1 : j < b => W[j] # W[b]
  BY <1>1, <1>3, <1>6, KeptFirst
<1> HIDE DEF a, b
<1>9. Sp!Greatest(d, s, a) /\ Sp!FirstFound(d, s, a)
  <2>1. \A j \in 0 .. l - 1 : Sp!Item(d, s, j) <= Sp!Item(d, s, a)
    BY <1>4, <1>7
  <2>2. \A j \in 0 .. l - 1 : j < a => Sp!Item(d, s, j) # Sp!Item(d, s, a)
    BY <1>4, <1>7
  <2>3. QED BY <1>7, <2>1, <2>2, FindsFirst DEF Sp!Greatest, Sp!FirstFound
<1>10. Sp!LeastItem(d, s, b) /\ Sp!FirstFound(d, s, b)
  <2>1. \A x \in Int, y \in Int : (-x <= -y => y <= x) /\ (-x # -y => x # y)
    OBVIOUS
  <2>2. \A j \in 0 .. l - 1 : -Sp!Item(d, s, j) <= -Sp!Item(d, s, b)
    BY <1>4, <1>8
  <2>3. \A j \in 0 .. l - 1 : Sp!Item(d, s, b) <= Sp!Item(d, s, j)
    BY <1>2, <1>8, <2>1, <2>2
  <2>4. \A j \in 0 .. l - 1 : j < b => -Sp!Item(d, s, j) # -Sp!Item(d, s, b)
    BY <1>4, <1>8
  <2>5. \A j \in 0 .. l - 1 : j < b => Sp!Item(d, s, j) # Sp!Item(d, s, b)
    BY <1>2, <1>8, <2>1, <2>4
  <2>6. QED BY <1>8, <2>3, <2>5, FindsFirst DEF Sp!LeastItem, Sp!FirstFound
<1>11. QED BY <1>5, <1>6, <1>9, <1>10 DEF a, b

(* Any two spans of one length are equal to equal_span.                     *)
LEMMA LengthsTell ==
  ASSUME NEW s \in Sp!Slices, NEW t \in Sp!Slices, NEW d \in Buffers
  PROVE  Sp!equal_span(d, s, t) <=> s.nmemb = t.nmemb
<1>1. ASSUME s.first = t.first, s.nmemb = t.nmemb, NEW i \in 0 .. s.nmemb - 1
      PROVE  Sp!compare(Sp!Item(d, s, i), Sp!Item(d, t, i)) = 0
  <2>1. Sp!Item(d, t, i) = Sp!Item(d, s, i)
    BY <1>1 DEF Sp!Item
  <2>2. Sp!Item(d, s, i) \in Int
    BY ItemIn
  <2>3. QED BY <2>1, <2>2 DEF Sp!compare
<1>2. QED BY <1>1 DEF Sp!equal_span

(* In every buffer, of any size and values, min_span returns the first of   *)
(* the greatest items of a span and max_span the first of the least, and    *)
(* equal_span compares lengths alone.                                       *)
THEOREM SpanReadersAnswer == SpecAny => []ReadersAnswer
<1>1. SpanTyped => ReadersAnswer
  <2> SUFFICES ASSUME SpanTyped, data # FAULT PROVE ReadersAnswer
    BY DEF ReadersAnswer, Sp!ReadersAnswer
  <2>1. data \in Buffers
    BY DEF SpanTyped
  <2>2. QED BY <2>1, MinMaxTell, LengthsTell DEF ReadersAnswer, Sp!ReadersAnswer
<1>2. QED BY <1>1, SpanInvariant, PTL
=============================================================================
