---------------------------- MODULE DequeProofs ----------------------------
(***************************************************************************)
(* Proofs about Deque, for elements of any size and any number of them: the *)
(* operations on the two ends.                                              *)
(***************************************************************************)
EXTENDS Deque, ListLemmas

Arr == [0 .. arr_cap - 1 -> Values \union {JUNK}]
Entry == [array : Arr \union {NULL}, nmemb : Nat]

(* The elements that j full blocks hold.                                    *)
Fill(j) == j * arr_cap

LEMMA Sizes ==
  ASSUME client \in Clients
  PROVE  /\ arr_cap \in Nat /\ arr_cap >= 2 /\ arr_cap < SizeMod
         /\ MaxItems \in Nat /\ MaxItems < SizeMod
         /\ SizeMod \in Nat \ {0}
         /\ NULL \notin Arr
<1>1. PICK w \in 1 .. 64 : SizeMod = 2 ^ w
  BY SizeModAssumption
<1>2. SizeMod \in Nat \ {0}
  BY <1>1, Doubling
<1>3. /\ arr_cap \in Nat /\ arr_cap >= 2 /\ arr_cap < SizeMod
      /\ MaxItems \in Nat /\ MaxItems < SizeMod
  BY ArrCapAssumption, MaxItemsAssumption DEF arr_cap, MaxItems
<1>4. NULL \notin Arr
  BY MarksAssumption DEF Arr, ArrayOf, arr_cap, Values
<1>5. QED BY <1>2, <1>3, <1>4

LEMMA Fills ==
  ASSUME client \in Clients
  PROVE  /\ Fill(0) = 0 /\ Fill(1) = arr_cap
         /\ \A j \in Nat : Fill(j) \in Nat /\ Fill(j + 1) = Fill(j) + arr_cap
         /\ \A j \in Nat \ {0} : Fill(j) = Fill(j - 1) + arr_cap
         /\ \A j \in Nat : Fill(j) >= 2 * j
         /\ \A i, j \in Nat : i < j => Fill(i) + arr_cap <= Fill(j)
<1> DEFINE c == arr_cap
<1>1. c \in Nat /\ c >= 2
  BY Sizes
<1> HIDE DEF c
<1>2. \A j \in Nat : j * c \in Nat
  BY <1>1
<1>3. \A j \in Int : (j + 1) * c = j * c + c
  BY <1>1
<1>4. \A j \in Nat : j * c >= 2 * j
  <2> DEFINE S == {j \in Nat : j * c >= 2 * j}
  <2>1. 0 \in S
    BY <1>1
  <2>2. ASSUME NEW j \in Nat, j \in S PROVE j + 1 \in S
    BY <1>1, <1>2, <1>3, <2>2
  <2> HIDE DEF S
  <2>3. ASSUME NEW j \in Nat PROVE j \in S
    <3>1. \A i \in 0 .. j - 1 : i \in S => i + 1 \in S
      BY <2>2
    <3>2. \A i \in 0 .. j : i \in S
      BY <2>1, <3>1, UpTo
    <3>3. QED BY <3>2
  <2>4. QED BY <2>3 DEF S
<1>5. 0 * c = 0 /\ 1 * c = c
  BY <1>1
<1>6. \A j \in Nat \ {0} : j * c = (j - 1) * c + c
  <2>1. ASSUME NEW j \in Nat \ {0} PROVE j * c = (j - 1) * c + c
    <3>1. j - 1 \in Int /\ (j - 1) + 1 = j
      OBVIOUS
    <3>2. ((j - 1) + 1) * c = (j - 1) * c + c
      BY <1>3, <3>1
    <3>3. QED BY <3>1, <3>2
  <2>2. QED BY <2>1
<1>7. \A j : Fill(j) = j * c
  BY DEF Fill, c
<1>8. ASSUME NEW i \in Nat, NEW j \in Nat, i < j PROVE i * c + c <= j * c
  <2>1. PICK m \in Nat : j = i + 1 + m
    <3>1. j - i - 1 \in Nat /\ j = i + 1 + (j - i - 1)
      BY <1>8
    <3>2. QED BY <3>1
  <2>2. (i + 1 + m) * c = (i + 1) * c + m * c
    BY <1>1
  <2>3. (i + 1) * c = i * c + c /\ m * c >= 0
    BY <1>1, <1>2, <1>3
  <2>4. m * c \in Nat /\ i * c \in Nat
    BY <1>2
  <2>5. QED BY <1>1, <2>1, <2>2, <2>3, <2>4
<1>9. \A j : j \in Nat => j \in Int
  OBVIOUS
<1>10. \A j \in Nat : Fill(j) \in Nat /\ Fill(j + 1) = Fill(j) + arr_cap
  BY <1>2, <1>3, <1>7, <1>9, Zenon DEF c
<1>11. \A j \in Nat \ {0} : Fill(j) = Fill(j - 1) + arr_cap
  BY <1>6, <1>7, Zenon DEF c
<1>12. \A i, j \in Nat : i < j => Fill(i) + arr_cap <= Fill(j)
  BY <1>7, <1>8, Zenon DEF c
<1>13. QED BY <1>4, <1>5, <1>7, <1>10, <1>11, <1>12, Zenon DEF c

(* The same about one block, and about two.                                 *)
LEMMA FillAt ==
  ASSUME client \in Clients, NEW j \in Nat
  PROVE  /\ Fill(j) \in Nat /\ Fill(j + 1) = Fill(j) + arr_cap /\ Fill(j) >= 2 * j
         /\ j = 0 => Fill(j) = 0
         /\ j # 0 => Fill(j) = Fill(j - 1) + arr_cap /\ Fill(j - 1) \in Nat /\ Fill(j) >= arr_cap
<1>1. j # 0 => j \in Nat \ {0} /\ j - 1 \in Nat
  OBVIOUS
<1>2. arr_cap \in Nat
  BY Sizes
<1>3. Fill(j) \in Nat /\ Fill(j + 1) = Fill(j) + arr_cap /\ Fill(j) >= 2 * j
  BY Fills, Zenon
<1>4. j = 0 => Fill(j) = 0
  BY Fills, Zenon
<1>5. j # 0 => Fill(j) = Fill(j - 1) + arr_cap /\ Fill(j - 1) \in Nat
  BY <1>1, Fills, Zenon
<1>6. j # 0 => Fill(j) >= arr_cap
  BY <1>2, <1>5
<1>7. QED BY <1>3, <1>4, <1>5, <1>6

LEMMA FillOf ==
  ASSUME client \in Clients, NEW i \in Nat, NEW j \in Nat
  PROVE  i < j => Fill(i) + arr_cap <= Fill(j)
BY Fills, Zenon

(* What the client's sequence becomes.                                      *)
LEMMA Ends ==
  ASSUME NEW S, NEW s \in Seq(S), NEW v \in S
  PROVE  /\ <<v>> \o s \in Seq(S) /\ Len(<<v>> \o s) = Len(s) + 1
         /\ (<<v>> \o s)[1] = v /\ \A k \in 2 .. Len(s) + 1 : (<<v>> \o s)[k] = s[k - 1]
         /\ Append(s, v) \in Seq(S) /\ Len(Append(s, v)) = Len(s) + 1
         /\ Append(s, v)[Len(s) + 1] = v /\ \A k \in 1 .. Len(s) : Append(s, v)[k] = s[k]
OBVIOUS

LEMMA Popped ==
  ASSUME NEW S, NEW s \in Seq(S), Len(s) > 0
  PROVE  /\ Tail(s) \in Seq(S) /\ Len(Tail(s)) = Len(s) - 1
         /\ \A k \in 1 .. Len(s) - 1 : Tail(s)[k] = s[k + 1]
         /\ Front(s) \in Seq(S) /\ Len(Front(s)) = Len(s) - 1
         /\ \A k \in 1 .. Len(s) - 1 : Front(s)[k] = s[k]
<1>1. /\ Tail(s) \in Seq(S) /\ Len(Tail(s)) = Len(s) - 1
      /\ \A k \in 1 .. Len(s) - 1 : Tail(s)[k] = s[k + 1]
  OBVIOUS
<1>2. Front(s) = SubSeq(s, 1, Len(s) - 1)
  BY DEF Front
<1>3. /\ SubSeq(s, 1, Len(s) - 1) \in Seq(S) /\ Len(SubSeq(s, 1, Len(s) - 1)) = Len(s) - 1
      /\ \A k \in 1 .. Len(s) - 1 : SubSeq(s, 1, Len(s) - 1)[k] = s[k]
  <2>1. Len(s) \in Nat /\ 1 \in Int /\ Len(s) - 1 \in Int /\ 1 <= 1
        /\ Len(s) - 1 <= Len(s) /\ 1 <= Len(s) - 1 + 1
    OBVIOUS
  <2>2. /\ SubSeq(s, 1, Len(s) - 1) \in Seq(S)
        /\ Len(SubSeq(s, 1, Len(s) - 1)) = Len(s) - 1 - 1 + 1
        /\ \A k \in 1 .. Len(s) - 1 - 1 + 1 : SubSeq(s, 1, Len(s) - 1)[k] = s[1 + k - 1]
    BY <2>1, Slice
  <2>3. QED BY <2>1, <2>2
<1>4. QED BY <1>1, <1>2, <1>3

-----------------------------------------------------------------------------
(* What the arrays hold.  The places of n arrays, end to end, are numbered  *)
(* from 0: the sequence s lies in the arrays of B from place a on.          *)
Held(B, n, a, s) ==
  \A j \in 0 .. n - 1, i \in 0 .. arr_cap - 1 :
    Fill(j) + i - a + 1 \in 1 .. Len(s) => B[j].array[i] = s[Fill(j) + i - a + 1]

(* C's arrays are B's with v at place i of array j.                         *)
Wrote(C, B, n, j, i, v) ==
  \A l \in 0 .. n - 1, k \in 0 .. arr_cap - 1 :
    C[l].array[k] = IF l = j /\ k = i THEN v ELSE B[l].array[k]

LEMMA WroteIn ==
  ASSUME NEW B, NEW C, NEW n, NEW j, NEW i, NEW v,
         \A l \in 0 .. n - 1 : l # j => C[l].array = B[l].array,
         \A k \in 0 .. arr_cap - 1 : C[j].array[k] = IF k = i THEN v ELSE B[j].array[k]
  PROVE  Wrote(C, B, n, j, i, v)
<1>1. ASSUME NEW l \in 0 .. n - 1, NEW k \in 0 .. arr_cap - 1
      PROVE  C[l].array[k] = IF l = j /\ k = i THEN v ELSE B[l].array[k]
  <2>1. CASE l = j
    BY <2>1
  <2>2. CASE l # j
    BY <2>2
  <2>3. QED BY <2>1, <2>2
<1>2. QED BY <1>1 DEF Wrote

LEMMA HeldFront ==
  ASSUME client \in Clients, NEW B, NEW C, NEW n \in Nat, NEW a \in 1 .. arr_cap,
         NEW s \in Seq(Values), NEW v \in Values,
         Held(B, n, a, s), Wrote(C, B, n, 0, a - 1, v)
  PROVE  Held(C, n, a - 1, <<v>> \o s)
<1> DEFINE t == <<v>> \o s
<1>1. /\ t \in Seq(Values) /\ Len(t) = Len(s) + 1 /\ t[1] = v
      /\ \A k \in 2 .. Len(s) + 1 : t[k] = s[k - 1]
  BY Ends
<1> HIDE DEF t
<1>2. ASSUME NEW j \in 0 .. n - 1, NEW i \in 0 .. arr_cap - 1,
             Fill(j) + i - (a - 1) + 1 \in 1 .. Len(t)
      PROVE  C[j].array[i] = t[Fill(j) + i - (a - 1) + 1]
  <2>1. arr_cap \in Nat /\ Len(s) \in Nat /\ a \in Int /\ j \in Nat
    BY Sizes
  <2>2. Fill(j) \in Nat /\ (j = 0 => Fill(j) = 0) /\ (j # 0 => Fill(j) >= arr_cap)
    BY <2>1, FillAt
  <2> DEFINE k == Fill(j) + i - a + 1
  <2>3. k \in Int /\ Fill(j) + i - (a - 1) + 1 = k + 1 /\ k + 1 \in 1 .. Len(s) + 1
    BY <2>1, <2>2, <1>1, <1>2
  <2>4. k \in 1 .. Len(s) => B[j].array[i] = s[k]
    BY DEF Held
  <2>5. C[j].array[i] = IF j = 0 /\ i = a - 1 THEN v ELSE B[j].array[i]
    BY DEF Wrote
  <2>6. k = 0 <=> j = 0 /\ i = a - 1
    BY <2>1, <2>2
  <2> HIDE DEF k
  <2>7. CASE k = 0
    BY <2>3, <2>5, <2>6, <2>7, <1>1
  <2>8. CASE k # 0
    <3>1. k \in 1 .. Len(s) /\ t[k + 1] = s[k]
      BY SMTT(30), <2>1, <2>3, <2>8, <1>1
    <3>2. QED BY <3>1, <2>3, <2>4, <2>5, <2>6, <2>8
  <2>9. QED BY <2>7, <2>8
<1>3. QED BY <1>2 DEF Held, t

LEMMA HeldBack ==
  ASSUME client \in Clients, NEW B, NEW C, NEW n \in Nat, NEW a \in Nat,
         NEW s \in Seq(Values), NEW v \in Values,
         NEW jb \in 0 .. n - 1, NEW ib \in 0 .. arr_cap - 1, Fill(jb) + ib = a + Len(s),
         Held(B, n, a, s), Wrote(C, B, n, jb, ib, v)
  PROVE  Held(C, n, a, Append(s, v))
<1> DEFINE t == Append(s, v)
<1>1. /\ t \in Seq(Values) /\ Len(t) = Len(s) + 1 /\ t[Len(s) + 1] = v
      /\ \A k \in 1 .. Len(s) : t[k] = s[k]
  BY Ends
<1> HIDE DEF t
<1>2. ASSUME NEW j \in 0 .. n - 1, NEW i \in 0 .. arr_cap - 1,
             Fill(j) + i - a + 1 \in 1 .. Len(t)
      PROVE  C[j].array[i] = t[Fill(j) + i - a + 1]
  <2>1. arr_cap \in Nat /\ Len(s) \in Nat /\ a \in Int /\ j \in Nat /\ jb \in Nat
    BY Sizes
  <2>2. /\ Fill(j) \in Nat /\ Fill(jb) \in Nat
        /\ (j < jb => Fill(j) + arr_cap <= Fill(jb))
        /\ (jb < j => Fill(jb) + arr_cap <= Fill(j))
    BY <2>1, FillAt, FillOf
  <2> DEFINE k == Fill(j) + i - a + 1
  <2>3. k \in 1 .. Len(s) + 1
    BY <1>1, <1>2
  <2>4. k \in 1 .. Len(s) => B[j].array[i] = s[k]
    BY DEF Held
  <2>5. C[j].array[i] = IF j = jb /\ i = ib THEN v ELSE B[j].array[i]
    BY DEF Wrote
  <2>6. k = Len(s) + 1 <=> j = jb /\ i = ib
    <3>1. k = Len(s) + 1 => ~(j < jb) /\ ~(jb < j)
      BY SMTT(30), <2>1, <2>2
    <3>2. j = jb => (k = Len(s) + 1 <=> i = ib)
      BY <2>1, <2>2
    <3>3. QED BY <2>1, <3>1, <3>2
  <2> HIDE DEF k
  <2>7. CASE k = Len(s) + 1
    BY <2>5, <2>6, <2>7, <1>1 DEF k
  <2>8. CASE k # Len(s) + 1
    <3>1. k \in 1 .. Len(s) /\ t[k] = s[k]
      BY <2>1, <2>3, <2>8, <1>1
    <3>2. QED BY <3>1, <2>4, <2>5, <2>6, <2>8 DEF k
  <2>9. QED BY <2>7, <2>8
<1>3. QED BY <1>2 DEF Held, t

(* A block more, before the first or after the last, whatever is in it.     *)
LEMMA HeldNew ==
  ASSUME client \in Clients, NEW B, NEW C, NEW n \in Nat, NEW a \in Nat,
         NEW s \in Seq(Values), Held(B, n, a, s)
  PROVE  /\ (\A j \in 1 .. n : C[j].array = B[j - 1].array) => Held(C, n + 1, a + arr_cap, s)
         /\ (\A j \in 0 .. n - 1 : C[j].array = B[j].array) /\ a + Len(s) <= Fill(n)
              => Held(C, n + 1, a, s)
<1>1. arr_cap \in Nat /\ Len(s) \in Nat
  BY Sizes
<1>2. ASSUME \A j \in 1 .. n : C[j].array = B[j - 1].array,
             NEW j \in 0 .. (n + 1) - 1, NEW i \in 0 .. arr_cap - 1,
             Fill(j) + i - (a + arr_cap) + 1 \in 1 .. Len(s)
      PROVE  C[j].array[i] = s[Fill(j) + i - (a + arr_cap) + 1]
  <2>1. j # 0
    <3>1. j \in Nat /\ (j = 0 => Fill(j) = 0)
      BY FillAt
    <3>2. QED BY <3>1, <1>1, <1>2
  <2>2. j - 1 \in 0 .. n - 1 /\ j - 1 \in Nat /\ j \in Nat /\ j \in 1 .. n
    BY <2>1
  <2>3. Fill(j) = Fill(j - 1) + arr_cap /\ Fill(j - 1) \in Nat
    BY <2>1, <2>2, FillAt
  <2>4. Fill(j) + i - (a + arr_cap) + 1 = Fill(j - 1) + i - a + 1
    BY <2>3, <1>1
  <2>5. B[j - 1].array[i] = s[Fill(j - 1) + i - a + 1]
    BY <2>2, <2>4, <1>2 DEF Held
  <2>6. QED BY <2>2, <2>4, <2>5, <1>2
<1>3. ASSUME \A j \in 0 .. n - 1 : C[j].array = B[j].array, a + Len(s) <= Fill(n),
             NEW j \in 0 .. (n + 1) - 1, NEW i \in 0 .. arr_cap - 1,
             Fill(j) + i - a + 1 \in 1 .. Len(s)
      PROVE  C[j].array[i] = s[Fill(j) + i - a + 1]
  <2>1. j # n
    <3>1. Fill(n) \in Nat
      BY FillAt
    <3>2. QED BY <3>1, <1>1, <1>3
  <2>2. j \in 0 .. n - 1
    BY <2>1
  <2>3. QED BY <2>2, <1>3 DEF Held
<1>4. QED BY <1>2, <1>3 DEF Held

(* An element less, at the front or at the back.                            *)
LEMMA HeldLess ==
  ASSUME client \in Clients, NEW B, NEW n \in Nat, NEW a \in Nat,
         NEW s \in Seq(Values), Held(B, n, a, s), Len(s) > 0
  PROVE  Held(B, n, a + 1, Tail(s)) /\ Held(B, n, a, Front(s))
<1> DEFINE t == Tail(s)
           u == Front(s)
<1>1. /\ Len(t) = Len(s) - 1 /\ \A k \in 1 .. Len(s) - 1 : t[k] = s[k + 1]
      /\ Len(u) = Len(s) - 1 /\ \A k \in 1 .. Len(s) - 1 : u[k] = s[k]
  BY Popped
<1> HIDE DEF t, u
<1>2. arr_cap \in Nat /\ Len(s) \in Nat
  BY Sizes
<1>3. ASSUME NEW j \in 0 .. n - 1, NEW i \in 0 .. arr_cap - 1
      PROVE  /\ Fill(j) + i - (a + 1) + 1 \in 1 .. Len(t)
                  => B[j].array[i] = t[Fill(j) + i - (a + 1) + 1]
             /\ Fill(j) + i - a + 1 \in 1 .. Len(u) => B[j].array[i] = u[Fill(j) + i - a + 1]
  <2>1. j \in Nat /\ Fill(j) \in Nat
    <3>1. j \in Nat
      OBVIOUS
    <3>2. QED BY <3>1, FillAt
  <2> DEFINE k == Fill(j) + i - a + 1
  <2>2. k \in Int /\ Fill(j) + i - (a + 1) + 1 = k - 1 /\ (k - 1) + 1 = k
    BY <2>1, <1>2
  <2>3. k \in 1 .. Len(s) => B[j].array[i] = s[k]
    BY DEF Held
  <2>4. k - 1 \in 1 .. Len(t) => k \in 1 .. Len(s) /\ k - 1 \in 1 .. Len(s) - 1
    BY <2>2, <1>1, <1>2
  <2>5. k \in 1 .. Len(u) => k \in 1 .. Len(s) /\ k \in 1 .. Len(s) - 1
    BY <2>2, <1>1, <1>2
  <2> HIDE DEF k
  <2>6. k - 1 \in 1 .. Len(t) => B[j].array[i] = t[k - 1]
    BY <2>2, <2>3, <2>4, <1>1
  <2>7. k \in 1 .. Len(u) => B[j].array[i] = u[k]
    BY <2>3, <2>5, <1>1
  <2>8. QED BY <2>2, <2>6, <2>7 DEF k
<1>4. QED BY <1>3 DEF Held, t, u

(* A block less: the first, which held nothing, or some of the last.        *)
LEMMA HeldFewer ==
  ASSUME client \in Clients, NEW B, NEW C, NEW n \in Nat, NEW a \in Nat,
         NEW s \in Seq(Values), Held(B, n, a, s)
  PROVE  /\ (\A j \in 0 .. n - 2 : C[j].array = B[j + 1].array) => Held(C, n - 1, a - arr_cap, s)
         /\ \A m \in 0 .. n : (\A j \in 0 .. m - 1 : C[j].array = B[j].array) => Held(C, m, a, s)
<1>1. arr_cap \in Nat /\ Len(s) \in Nat
  BY Sizes
<1>2. ASSUME \A j \in 0 .. n - 2 : C[j].array = B[j + 1].array,
             NEW j \in 0 .. n - 1 - 1, NEW i \in 0 .. arr_cap - 1,
             Fill(j) + i - (a - arr_cap) + 1 \in 1 .. Len(s)
      PROVE  C[j].array[i] = s[Fill(j) + i - (a - arr_cap) + 1]
  <2>1. j \in Nat /\ j \in 0 .. n - 2 /\ j + 1 \in 0 .. n - 1
    OBVIOUS
  <2>2. Fill(j + 1) = Fill(j) + arr_cap /\ Fill(j) \in Nat
    BY <2>1, FillAt
  <2>3. Fill(j) + i - (a - arr_cap) + 1 = Fill(j + 1) + i - a + 1
    BY <2>2, <1>1
  <2>4. B[j + 1].array[i] = s[Fill(j + 1) + i - a + 1]
    BY <2>1, <2>3, <1>2 DEF Held
  <2>5. QED BY <2>1, <2>3, <2>4, <1>2
<1>3. ASSUME NEW m \in 0 .. n, \A j \in 0 .. m - 1 : C[j].array = B[j].array,
             NEW j \in 0 .. m - 1, NEW i \in 0 .. arr_cap - 1,
             Fill(j) + i - a + 1 \in 1 .. Len(s)
      PROVE  C[j].array[i] = s[Fill(j) + i - a + 1]
  <2>1. j \in 0 .. n - 1
    OBVIOUS
  <2>2. QED BY <2>1, <1>3 DEF Held
<1>4. QED BY <1>2, <1>3 DEF Held

-----------------------------------------------------------------------------
(* The ring as seen from its first block: entry j of B is its j-th block.   *)
(* n blocks, in a control array of cap entries, hold s: the first one's     *)
(* elements lie at the end of its array, those between are full.            *)
Start(B) == arr_cap - B[0].nmemb

Ring(B, n, cap, s) ==
  /\ cap \in Nat /\ n \in 2 .. cap /\ B \in [0 .. cap - 1 -> Entry] /\ s \in Seq(Values)
  /\ \A j \in 0 .. n - 1 : B[j].array \in Arr /\ B[j].nmemb \in 1 .. arr_cap
  /\ \A j \in 1 .. n - 2 : B[j].nmemb = arr_cap
  /\ \A j \in n .. cap - 1 : B[j] = UnsetBlock
  /\ Start(B) + Len(s) = Fill(n - 1) + B[n - 1].nmemb
  /\ Held(B, n, Start(B), s)

(* Element i of block b becomes v, and the block's count n.                 *)
With(b, i, v, n) == [array |-> [b.array EXCEPT ![i] = v], nmemb |-> n]

IsWith(w, b, i, v, n) ==
  /\ w \in Entry /\ w.array \in Arr /\ w.nmemb = n
  /\ \A l \in 0 .. arr_cap - 1 : w.array[l] = IF l = i THEN v ELSE b.array[l]

LEMMA WithFacts ==
  ASSUME client \in Clients, NEW b, b.array \in Arr, NEW i \in 0 .. arr_cap - 1,
         NEW v \in Values, NEW n \in Nat
  PROVE  IsWith(With(b, i, v, n), b, i, v, n)
<1>1. With(b, i, v, n).array = [b.array EXCEPT ![i] = v] /\ With(b, i, v, n).nmemb = n
  BY DEF With
<1>2. [b.array EXCEPT ![i] = v] \in Arr
  BY DEF Arr
<1>3. QED BY <1>1, <1>2 DEF With, Entry, Arr, IsWith

(* A block that was just allocated, and an entry without one.               *)
LEMMA NewFacts ==
  ASSUME client \in Clients
  PROVE  /\ NewBlock.array \in Arr /\ NewBlock.nmemb = 0 /\ NewBlock \in Entry
         /\ UnsetBlock \in Entry /\ UnsetBlock.array = NULL /\ UnsetBlock.nmemb = 0
BY DEF NewBlock, UnsetBlock, Arr, Entry

(* What a ring's counts are worth, without quantifiers.                     *)
LEMMA RingFacts ==
  ASSUME client \in Clients, NEW B, NEW n, NEW cap, NEW s, Ring(B, n, cap, s)
  PROVE  /\ cap \in Nat /\ n \in Nat /\ n >= 2 /\ n <= cap /\ n - 1 \in Nat
         /\ Len(s) \in Nat /\ Fill(n - 1) \in Nat /\ Fill(n) = Fill(n - 1) + arr_cap
         /\ Fill(n - 1) = Fill(n - 2) + arr_cap
         /\ B[0].nmemb \in 1 .. arr_cap /\ B[n - 1].nmemb \in 1 .. arr_cap
         /\ B[0].array \in Arr /\ B[n - 1].array \in Arr
         /\ Start(B) \in 0 .. arr_cap - 1 /\ Start(B) = arr_cap - B[0].nmemb
         /\ Start(B) + Len(s) = Fill(n - 1) + B[n - 1].nmemb
         /\ Len(s) >= n
<1>1. cap \in Nat /\ n \in Nat /\ n >= 2 /\ n <= cap /\ n - 1 \in Nat /\ n - 2 \in Nat
  BY DEF Ring
<1>2. Len(s) \in Nat
  BY DEF Ring
<1>3. arr_cap \in Nat /\ arr_cap >= 2
  BY Sizes
<1>4. /\ Fill(n) = Fill(n - 1) + arr_cap /\ Fill(n - 1) \in Nat
      /\ Fill(n - 1) = Fill(n - 2) + arr_cap /\ Fill(n - 2) >= 2 * (n - 2)
      /\ Fill(n - 2) \in Nat
  <2>1. n # 0 /\ n - 1 # 0 /\ (n - 1) - 1 = n - 2
    BY <1>1
  <2>2. Fill(n) = Fill(n - 1) + arr_cap /\ Fill(n - 1) \in Nat
    BY <1>1, <2>1, FillAt
  <2>3. Fill(n - 1) = Fill((n - 1) - 1) + arr_cap
    BY <1>1, <2>1, FillAt
  <2>4. Fill(n - 2) >= 2 * (n - 2) /\ Fill(n - 2) \in Nat
    BY <1>1, FillAt
  <2>5. QED BY <2>1, <2>2, <2>3, <2>4
<1>5. /\ B[0].nmemb \in 1 .. arr_cap /\ B[n - 1].nmemb \in 1 .. arr_cap
      /\ B[0].array \in Arr /\ B[n - 1].array \in Arr
  <2>1. 0 \in 0 .. n - 1 /\ n - 1 \in 0 .. n - 1
    BY <1>1
  <2>2. QED BY <2>1 DEF Ring
<1>6. Start(B) = arr_cap - B[0].nmemb
  BY DEF Start
<1>7. Start(B) + Len(s) = Fill(n - 1) + B[n - 1].nmemb
  BY DEF Ring
<1>8. Start(B) \in 0 .. arr_cap - 1
  BY <1>3, <1>5, <1>6
<1>9. Len(s) >= n
  <2> DEFINE a == Start(B)
             n0 == B[0].nmemb
             m == B[n - 1].nmemb
  <2>1. n0 \in Nat /\ n0 >= 1 /\ m \in Nat /\ m >= 1 /\ a = arr_cap - n0
        /\ a + Len(s) = Fill(n - 1) + m
    BY <1>3, <1>5, <1>6, <1>7
  <2> HIDE DEF a, n0, m
  <2>2. QED BY <2>1, <1>1, <1>2, <1>3, <1>4
<1>10. QED BY <1>1, <1>2, <1>4, <1>5, <1>6, <1>7, <1>8, <1>9

(* An element more in the first block, which had room.                      *)
LEMMA RingPushFront ==
  ASSUME client \in Clients, NEW B, NEW n, NEW cap, NEW s, Ring(B, n, cap, s),
         NEW v \in Values, B[0].nmemb < arr_cap
  PROVE  Ring([B EXCEPT ![0] = With(B[0], arr_cap - (B[0].nmemb + 1), v, B[0].nmemb + 1)],
              n, cap, <<v>> \o s)
<1> DEFINE n0 == B[0].nmemb
           a == Start(B)
           w == With(B[0], arr_cap - (n0 + 1), v, n0 + 1)
           C == [B EXCEPT ![0] = w]
           t == <<v>> \o s
<1>1. /\ cap \in Nat /\ n \in 2 .. cap /\ B \in [0 .. cap - 1 -> Entry] /\ s \in Seq(Values)
      /\ \A j \in 0 .. n - 1 : B[j].array \in Arr /\ B[j].nmemb \in 1 .. arr_cap
      /\ \A j \in 1 .. n - 2 : B[j].nmemb = arr_cap
      /\ \A j \in n .. cap - 1 : B[j] = UnsetBlock
      /\ Held(B, n, a, s)
  BY DEF Ring
<1>2. /\ arr_cap \in Nat /\ n \in Nat /\ n >= 2 /\ Len(s) \in Nat /\ Fill(n - 1) \in Nat
      /\ n0 \in 1 .. arr_cap - 1 /\ B[0].array \in Arr /\ B[n - 1].nmemb \in 1 .. arr_cap
      /\ a = arr_cap - n0 /\ a + Len(s) = Fill(n - 1) + B[n - 1].nmemb
  BY SMTT(30), RingFacts, Sizes
<1> HIDE DEF a, n0
<1>3. a \in 1 .. arr_cap /\ arr_cap - (n0 + 1) = a - 1 /\ a - 1 \in 0 .. arr_cap - 1
      /\ n0 + 1 \in Nat
  BY <1>2
<1>4. /\ w \in Entry /\ w.array \in Arr /\ w.nmemb = n0 + 1
      /\ \A l \in 0 .. arr_cap - 1 : w.array[l] = IF l = a - 1 THEN v ELSE B[0].array[l]
  <2>1. arr_cap - (n0 + 1) \in 0 .. arr_cap - 1 /\ arr_cap - (n0 + 1) = a - 1
    BY <1>3
  <2>2. IsWith(w, B[0], arr_cap - (n0 + 1), v, n0 + 1)
    BY <2>1, <1>2, <1>3, WithFacts, Zenon
  <2>3. QED BY <2>1, <2>2, Zenon DEF IsWith
<1> HIDE DEF w
<1>5. /\ C \in [0 .. cap - 1 -> Entry] /\ C[0] = w
      /\ \A j \in 0 .. cap - 1 : j # 0 => C[j] = B[j]
  BY <1>1, <1>4
<1> HIDE DEF C
<1>6. t \in Seq(Values) /\ Len(t) = Len(s) + 1
  BY <1>1, Ends
<1>7. Wrote(C, B, n, 0, a - 1, v)
  BY <1>1, <1>4, <1>5 DEF Wrote
<1>8. Held(C, n, a - 1, t)
  BY <1>1, <1>2, <1>3, <1>7, HeldFront
<1> HIDE DEF t
<1>9. Start(C) = a - 1
  <2>1. Start(C) = arr_cap - (n0 + 1)
    BY <1>4, <1>5 DEF Start
  <2>2. QED BY <2>1, <1>3
<1>10. n - 1 # 0 /\ n - 1 \in 0 .. cap - 1 /\ C[n - 1] = B[n - 1]
  BY <1>1, <1>2, <1>5
<1>11. Start(C) + Len(t) = Fill(n - 1) + C[n - 1].nmemb
  <2>1. C[n - 1].nmemb = B[n - 1].nmemb
    BY <1>10
  <2>2. a - 1 + Len(t) = a + Len(s)
    BY <1>2, <1>3, <1>6
  <2>3. QED BY <2>1, <2>2, <1>2, <1>9
<1>12. \A j \in 0 .. n - 1 : C[j].array \in Arr /\ C[j].nmemb \in 1 .. arr_cap
  <2>1. n0 + 1 \in 1 .. arr_cap
    BY <1>2
  <2>2. \A j \in 0 .. n - 1 : j \in 0 .. cap - 1
    BY <1>1
  <2>3. QED BY <2>1, <2>2, <1>1, <1>4, <1>5, Zenon
<1>13. /\ \A j \in 1 .. n - 2 : C[j].nmemb = arr_cap
       /\ \A j \in n .. cap - 1 : C[j] = UnsetBlock
  BY <1>1, <1>5
<1>14. Ring(C, n, cap, t)
  BY <1>1, <1>5, <1>6, <1>8, <1>9, <1>11, <1>12, <1>13 DEF Ring
<1>15. QED BY <1>14 DEF C, t, w, n0

(* An element more in the last block, which had room.                       *)
LEMMA RingPushBack ==
  ASSUME client \in Clients, NEW B, NEW n, NEW cap, NEW s, Ring(B, n, cap, s),
         NEW v \in Values, B[n - 1].nmemb < arr_cap
  PROVE  Ring([B EXCEPT ![n - 1] = With(B[n - 1], B[n - 1].nmemb, v, B[n - 1].nmemb + 1)],
              n, cap, Append(s, v))
<1> DEFINE m == B[n - 1].nmemb
           a == Start(B)
           w == With(B[n - 1], m, v, m + 1)
           C == [B EXCEPT ![n - 1] = w]
           t == Append(s, v)
<1>1. /\ cap \in Nat /\ n \in 2 .. cap /\ B \in [0 .. cap - 1 -> Entry] /\ s \in Seq(Values)
      /\ \A j \in 0 .. n - 1 : B[j].array \in Arr /\ B[j].nmemb \in 1 .. arr_cap
      /\ \A j \in 1 .. n - 2 : B[j].nmemb = arr_cap
      /\ \A j \in n .. cap - 1 : B[j] = UnsetBlock
      /\ Held(B, n, a, s)
  BY DEF Ring
<1>2. /\ arr_cap \in Nat /\ n \in Nat /\ n >= 2 /\ Len(s) \in Nat /\ Fill(n - 1) \in Nat
      /\ m \in 1 .. arr_cap - 1 /\ B[n - 1].array \in Arr
      /\ a + Len(s) = Fill(n - 1) + m /\ a \in Nat
  BY SMTT(30), RingFacts, Sizes
<1> HIDE DEF a, m
<1>3. m \in 0 .. arr_cap - 1 /\ m + 1 \in 1 .. arr_cap /\ m + 1 \in Nat
  BY <1>2
<1>4. /\ w \in Entry /\ w.array \in Arr /\ w.nmemb = m + 1
      /\ \A l \in 0 .. arr_cap - 1 : w.array[l] = IF l = m THEN v ELSE B[n - 1].array[l]
  <2>1. IsWith(w, B[n - 1], m, v, m + 1)
    BY <1>2, <1>3, WithFacts, Zenon
  <2>2. QED BY <2>1, Zenon DEF IsWith
<1> HIDE DEF w
<1>5. /\ C \in [0 .. cap - 1 -> Entry] /\ C[n - 1] = w
      /\ \A j \in 0 .. cap - 1 : j # n - 1 => C[j] = B[j]
  BY <1>1, <1>4
<1> HIDE DEF C
<1>6. t \in Seq(Values) /\ Len(t) = Len(s) + 1
  BY <1>1, Ends
<1>7. Wrote(C, B, n, n - 1, m, v)
  BY <1>1, <1>4, <1>5 DEF Wrote
<1>8. n - 1 \in 0 .. n - 1 /\ 0 \in 0 .. cap - 1 /\ 0 # n - 1
  BY <1>1, <1>2
<1>9. Held(C, n, a, t)
  <2>1. Fill(n - 1) + m = a + Len(s)
    BY <1>2
  <2>2. QED BY <2>1, <1>1, <1>2, <1>3, <1>7, <1>8, HeldBack
<1> HIDE DEF t
<1>10. Start(C) = a
  BY <1>5, <1>8 DEF Start, a
<1>11. Start(C) + Len(t) = Fill(n - 1) + C[n - 1].nmemb
  <2>1. C[n - 1].nmemb = m + 1
    BY <1>4, <1>5
  <2>2. a + Len(t) = Fill(n - 1) + (m + 1)
    <3>1. a \in Nat /\ m \in Nat /\ Fill(n - 1) \in Nat /\ Len(s) \in Nat
          /\ a + Len(s) = Fill(n - 1) + m /\ Len(t) = Len(s) + 1
      BY <1>2, <1>3, <1>6
    <3>2. QED BY <3>1
  <2>3. QED BY <2>1, <2>2, <1>10
<1>12. \A j \in 0 .. n - 1 : C[j].array \in Arr /\ C[j].nmemb \in 1 .. arr_cap
  <2>1. \A j \in 0 .. n - 1 : j \in 0 .. cap - 1
    BY <1>1
  <2>2. QED BY <2>1, <1>1, <1>3, <1>4, <1>5, Zenon
<1>13. /\ \A j \in 1 .. n - 2 : C[j].nmemb = arr_cap
       /\ \A j \in n .. cap - 1 : C[j] = UnsetBlock
  BY <1>1, <1>5
<1>14. Ring(C, n, cap, t)
  BY <1>1, <1>5, <1>6, <1>9, <1>10, <1>11, <1>12, <1>13 DEF Ring
<1>15. QED BY <1>14 DEF C, t, w, m

(* A new block before the first, which was full.                            *)
LEMMA RingNewFront ==
  ASSUME client \in Clients, NEW B, NEW n, NEW cap, NEW s, Ring(B, n, cap, s),
         NEW v \in Values, B[0].nmemb = arr_cap, n < cap,
         NEW C \in [0 .. cap - 1 -> Entry], C[0] = With(NewBlock, arr_cap - 1, v, 1),
         \A j \in 1 .. cap - 1 : C[j] = B[j - 1]
  PROVE  Ring(C, n + 1, cap, <<v>> \o s)
<1> DEFINE t == <<v>> \o s
           D == [C EXCEPT ![0] = NewBlock]
<1>1. /\ cap \in Nat /\ n \in 2 .. cap /\ s \in Seq(Values)
      /\ \A j \in 0 .. n - 1 : B[j].array \in Arr /\ B[j].nmemb \in 1 .. arr_cap
      /\ \A j \in 1 .. n - 2 : B[j].nmemb = arr_cap
      /\ \A j \in n .. cap - 1 : B[j] = UnsetBlock
      /\ Held(B, n, Start(B), s)
  BY DEF Ring
<1>2. /\ n \in Nat /\ n >= 2 /\ n + 1 \in Nat /\ n + 1 \in 2 .. cap
      /\ Len(s) \in Nat /\ Fill(n) = Fill(n - 1) + arr_cap /\ Fill(n - 1) \in Nat
  BY RingFacts
<1>3. arr_cap \in Nat /\ arr_cap >= 2 /\ arr_cap \in 1 .. arr_cap /\ arr_cap - 1 \in 0 .. arr_cap - 1
      /\ 1 \in 1 .. arr_cap
  BY Sizes
<1>4. Start(B) = 0 /\ Len(s) = Fill(n - 1) + B[n - 1].nmemb /\ B[n - 1].nmemb \in Nat
  <2>1. Start(B) = arr_cap - B[0].nmemb /\ Start(B) + Len(s) = Fill(n - 1) + B[n - 1].nmemb
        /\ B[n - 1].nmemb \in 1 .. arr_cap
    BY RingFacts
  <2>2. Start(B) = 0
    BY <2>1, <1>3
  <2>3. 0 + Len(s) = Fill(n - 1) + B[n - 1].nmemb
    BY <2>1, <2>2
  <2>4. QED BY <2>1, <2>2, <2>3, <1>2
<1>5. IsWith(C[0], NewBlock, arr_cap - 1, v, 1)
  BY <1>3, NewFacts, WithFacts
<1>6. t \in Seq(Values) /\ Len(t) = Len(s) + 1
  BY <1>1, Ends
<1>7. \A j \in 1 .. n : j \in 1 .. cap - 1 /\ j - 1 \in 0 .. n - 1
  BY <1>1, <1>2
<1>8. 0 \in 0 .. cap - 1 /\ D[0] = NewBlock /\ \A j \in 1 .. n : D[j] = C[j]
  BY <1>1, <1>2, <1>7
<1> HIDE DEF D
<1>9. Held(D, n + 1, arr_cap, s)
  <2>1. \A j \in 1 .. n : D[j].array = B[j - 1].array
    BY <1>7, <1>8
  <2>2. 0 \in Nat /\ 0 + arr_cap = arr_cap /\ Held(B, n, 0, s)
    BY <1>1, <1>3, <1>4
  <2>3. Held(D, n + 1, 0 + arr_cap, s)
    BY <2>1, <2>2, <1>1, <1>2, HeldNew
  <2>4. QED BY <2>2, <2>3
<1>10. Wrote(C, D, n + 1, 0, arr_cap - 1, v)
  <2>1. \A j \in 0 .. (n + 1) - 1 : j = 0 \/ j \in 1 .. n
    BY <1>2
  <2>2. \A k \in 0 .. arr_cap - 1 :
          C[0].array[k] = IF k = arr_cap - 1 THEN v ELSE D[0].array[k]
    BY <1>5, <1>8 DEF IsWith
  <2>3. \A l \in 0 .. (n + 1) - 1 : l # 0 => C[l].array = D[l].array
    BY <2>1, <1>8
  <2>4. QED BY <2>2, <2>3, WroteIn
<1>11. Held(C, n + 1, arr_cap - 1, t)
  BY <1>1, <1>2, <1>3, <1>9, <1>10, HeldFront
<1> HIDE DEF t
<1>12. Start(C) = arr_cap - 1
  BY <1>5 DEF Start, IsWith
<1>13. Start(C) + Len(t) = Fill((n + 1) - 1) + C[(n + 1) - 1].nmemb
  <2>1. (n + 1) - 1 = n /\ n \in 1 .. n
    BY <1>2
  <2>2. C[n] = B[n - 1]
    BY <2>1, <1>7
  <2>3. arr_cap - 1 + Len(t) = Fill(n) + B[n - 1].nmemb
    <3>1. Len(t) = Len(s) + 1 /\ Len(s) \in Nat /\ arr_cap \in Nat
      BY <1>2, <1>3, <1>6
    <3>2. arr_cap - 1 + Len(t) = arr_cap + Len(s)
      BY <3>1
    <3>3. QED BY <3>1, <3>2, <1>2, <1>4
  <2>4. QED BY <2>1, <2>2, <2>3, <1>12
<1>14. \A j \in 0 .. (n + 1) - 1 : C[j].array \in Arr /\ C[j].nmemb \in 1 .. arr_cap
  <2>1. \A j \in 0 .. (n + 1) - 1 : j = 0 \/ j \in 1 .. n
    BY <1>2
  <2>2. C[0].array \in Arr /\ C[0].nmemb \in 1 .. arr_cap
    BY <1>3, <1>5 DEF IsWith
  <2>3. QED BY <2>1, <2>2, <1>1, <1>7, Zenon
<1>15. \A j \in 1 .. (n + 1) - 2 : C[j].nmemb = arr_cap
  <2>1. ASSUME NEW j \in 1 .. (n + 1) - 2 PROVE C[j].nmemb = arr_cap
    <3>1. j \in 1 .. n /\ (j = 1 \/ j - 1 \in 1 .. n - 2)
      BY <1>2
    <3>2. C[j] = B[j - 1]
      BY <3>1, <1>7
    <3>3. QED BY <3>1, <3>2, <1>1
  <2>2. QED BY <2>1
<1>16. \A j \in n + 1 .. cap - 1 : C[j] = UnsetBlock
  <2>1. ASSUME NEW j \in n + 1 .. cap - 1 PROVE C[j] = UnsetBlock
    <3>1. j \in 1 .. cap - 1 /\ j - 1 \in n .. cap - 1
      BY <1>1, <1>2
    <3>2. QED BY <3>1, <1>1
  <2>2. QED BY <2>1
<1>17. Ring(C, n + 1, cap, t)
  BY <1>1, <1>2, <1>6, <1>11, <1>12, <1>13, <1>14, <1>15, <1>16 DEF Ring
<1>18. QED BY <1>17 DEF t

(* A new block after the last, which was full.                              *)
LEMMA RingNewBack ==
  ASSUME client \in Clients, NEW B, NEW n, NEW cap, NEW s, Ring(B, n, cap, s),
         NEW v \in Values, B[n - 1].nmemb = arr_cap, n < cap,
         NEW C \in [0 .. cap - 1 -> Entry], C[n] = With(NewBlock, 0, v, 1),
         \A j \in 0 .. cap - 1 : j # n => C[j] = B[j]
  PROVE  Ring(C, n + 1, cap, Append(s, v))
<1> DEFINE t == Append(s, v)
           a == Start(B)
           D == [C EXCEPT ![n] = NewBlock]
<1>1. /\ cap \in Nat /\ n \in 2 .. cap /\ s \in Seq(Values)
      /\ \A j \in 0 .. n - 1 : B[j].array \in Arr /\ B[j].nmemb \in 1 .. arr_cap
      /\ \A j \in 1 .. n - 2 : B[j].nmemb = arr_cap
      /\ \A j \in n .. cap - 1 : B[j] = UnsetBlock
      /\ Held(B, n, a, s)
  BY DEF Ring
<1>2. /\ n \in Nat /\ n >= 2 /\ n + 1 \in Nat /\ n + 1 \in 2 .. cap
      /\ Len(s) \in Nat /\ Fill(n) = Fill(n - 1) + arr_cap /\ Fill(n - 1) \in Nat
      /\ a \in Nat /\ a + Len(s) = Fill(n - 1) + B[n - 1].nmemb
  BY RingFacts
<1> HIDE DEF a
<1>3. arr_cap \in Nat /\ arr_cap >= 2 /\ arr_cap \in 1 .. arr_cap /\ 0 \in 0 .. arr_cap - 1
      /\ 1 \in 1 .. arr_cap
  BY Sizes
<1>4. a + Len(s) = Fill(n) /\ Fill(n) \in Nat
  <2>1. a + Len(s) = Fill(n - 1) + arr_cap
    BY <1>2
  <2>2. QED BY <2>1, <1>2, <1>3
<1>5. IsWith(C[n], NewBlock, 0, v, 1)
  BY <1>3, NewFacts, WithFacts
<1>6. t \in Seq(Values) /\ Len(t) = Len(s) + 1
  BY <1>1, Ends
<1>7. \A j \in 0 .. n - 1 : j \in 0 .. cap - 1 /\ j # n
  BY <1>1, <1>2
<1>8. n \in 0 .. cap - 1 /\ D[n] = NewBlock /\ \A j \in 0 .. n - 1 : D[j] = C[j]
  BY <1>1, <1>2, <1>7
<1> HIDE DEF D
<1>9. Held(D, n + 1, a, s)
  <2>1. \A j \in 0 .. n - 1 : D[j].array = B[j].array
    BY <1>7, <1>8
  <2>2. a + Len(s) <= Fill(n)
    BY <1>4
  <2>3. QED BY <2>1, <2>2, <1>1, <1>2, HeldNew
<1>10. Wrote(C, D, n + 1, n, 0, v)
  <2>1. \A j \in 0 .. (n + 1) - 1 : j = n \/ (j \in 0 .. n - 1 /\ j # n)
    BY <1>2
  <2>2. \A k \in 0 .. arr_cap - 1 :
          C[n].array[k] = IF k = 0 THEN v ELSE D[n].array[k]
    BY <1>5, <1>8 DEF IsWith
  <2>3. \A l \in 0 .. (n + 1) - 1 : l # n => C[l].array = D[l].array
    BY <2>1, <1>8
  <2>4. QED BY <2>2, <2>3, WroteIn
<1>11. Held(C, n + 1, a, t)
  <2>1. n \in 0 .. (n + 1) - 1 /\ Fill(n) + 0 = a + Len(s)
    BY <1>2, <1>4
  <2>2. QED BY <2>1, <1>1, <1>2, <1>3, <1>9, <1>10, HeldBack
<1> HIDE DEF t
<1>12. Start(C) = a
  <2>1. 0 \in 0 .. n - 1
    BY <1>2
  <2>2. C[0] = B[0]
    BY <2>1, <1>7
  <2>3. QED BY <2>2 DEF Start, a
<1>13. Start(C) + Len(t) = Fill((n + 1) - 1) + C[(n + 1) - 1].nmemb
  <2>1. (n + 1) - 1 = n
    BY <1>2
  <2>2. C[n].nmemb = 1
    BY <1>5 DEF IsWith
  <2>3. a + Len(t) = Fill(n) + 1
    BY <1>2, <1>4, <1>6
  <2>4. QED BY <2>1, <2>2, <2>3, <1>12
<1>14. \A j \in 0 .. (n + 1) - 1 : C[j].array \in Arr /\ C[j].nmemb \in 1 .. arr_cap
  <2>1. \A j \in 0 .. (n + 1) - 1 : j = n \/ (j \in 0 .. n - 1 /\ j # n)
    BY <1>2
  <2>2. C[n].array \in Arr /\ C[n].nmemb \in 1 .. arr_cap
    BY <1>3, <1>5 DEF IsWith
  <2>3. QED BY <2>1, <2>2, <1>1, <1>7, Zenon
<1>15. \A j \in 1 .. (n + 1) - 2 : C[j].nmemb = arr_cap
  <2>1. ASSUME NEW j \in 1 .. (n + 1) - 2 PROVE C[j].nmemb = arr_cap
    <3>1. j \in 0 .. n - 1 /\ (j = n - 1 \/ j \in 1 .. n - 2)
      BY <1>2
    <3>2. C[j] = B[j]
      BY <3>1, <1>7
    <3>3. QED BY <3>1, <3>2, <1>1
  <2>2. QED BY <2>1
<1>16. \A j \in n + 1 .. cap - 1 : C[j] = UnsetBlock
  <2>1. ASSUME NEW j \in n + 1 .. cap - 1 PROVE C[j] = UnsetBlock
    <3>1. j \in 0 .. cap - 1 /\ j # n /\ j \in n .. cap - 1
      BY <1>1, <1>2
    <3>2. QED BY <3>1, <1>1
  <2>2. QED BY <2>1
<1>17. Ring(C, n + 1, cap, t)
  BY <1>1, <1>2, <1>6, <1>11, <1>12, <1>13, <1>14, <1>15, <1>16 DEF Ring
<1>18. QED BY <1>17 DEF t

(* An element less in the first block, which has others.                    *)
LEMMA RingPopFront ==
  ASSUME client \in Clients, NEW B, NEW n, NEW cap, NEW s, Ring(B, n, cap, s),
         B[0].nmemb > 1,
         NEW C \in [0 .. cap - 1 -> Entry], C[0].array = B[0].array,
         C[0].nmemb = B[0].nmemb - 1, \A j \in 1 .. cap - 1 : C[j] = B[j]
  PROVE  Ring(C, n, cap, Tail(s))
<1> DEFINE t == Tail(s)
           a == Start(B)
           n0 == B[0].nmemb
<1>1. /\ cap \in Nat /\ n \in 2 .. cap /\ s \in Seq(Values)
      /\ \A j \in 0 .. n - 1 : B[j].array \in Arr /\ B[j].nmemb \in 1 .. arr_cap
      /\ \A j \in 1 .. n - 2 : B[j].nmemb = arr_cap
      /\ \A j \in n .. cap - 1 : B[j] = UnsetBlock
      /\ Held(B, n, a, s)
  BY DEF Ring
<1>2. /\ n \in Nat /\ n >= 2 /\ Len(s) \in Nat /\ Len(s) > 0 /\ a \in Nat /\ a = arr_cap - n0
      /\ n0 \in 1 .. arr_cap /\ Fill(n - 1) \in Nat
      /\ a + Len(s) = Fill(n - 1) + B[n - 1].nmemb /\ B[0].array \in Arr
  BY RingFacts
<1> HIDE DEF a, n0
<1>3. arr_cap \in Nat /\ n0 > 1 /\ n0 - 1 \in 1 .. arr_cap /\ C[0].nmemb = n0 - 1
  <2>1. arr_cap \in Nat /\ n0 > 1 /\ C[0].nmemb = n0 - 1
    BY Sizes DEF n0
  <2>2. QED BY <2>1, <1>2
<1>4. t \in Seq(Values) /\ Len(t) = Len(s) - 1
  BY <1>1, <1>2, Popped
<1>5. \A j \in 0 .. n - 1 : j \in 0 .. cap - 1 /\ (j = 0 \/ j \in 1 .. cap - 1)
  BY <1>1
<1>6. \A j \in 0 .. n - 1 : C[j].array = B[j].array
  BY <1>5
<1>7. Held(C, n, a + 1, t)
  <2>1. Held(B, n, a + 1, t) /\ a + 1 \in Nat /\ n \in 0 .. n
    BY <1>1, <1>2, HeldLess
  <2> HIDE DEF t
  <2>2. QED BY <2>1, <1>2, <1>4, <1>6, HeldFewer
<1> HIDE DEF t
<1>8. Start(C) = a + 1
  BY SMTT(30), <1>2, <1>3 DEF Start
<1>9. Start(C) + Len(t) = Fill(n - 1) + C[n - 1].nmemb
  <2>1. C[n - 1] = B[n - 1]
    BY <1>1
  <2>2. (a + 1) + Len(t) = a + Len(s)
    BY <1>2, <1>4
  <2>3. QED BY <2>1, <2>2, <1>2, <1>8
<1>10. \A j \in 0 .. n - 1 : C[j].array \in Arr /\ C[j].nmemb \in 1 .. arr_cap
  BY <1>1, <1>2, <1>3, <1>5, Zenon
<1>11. \A j \in 1 .. n - 2 : C[j].nmemb = arr_cap
  BY <1>1
<1>12. \A j \in n .. cap - 1 : C[j] = UnsetBlock
  BY <1>1
<1>13. Ring(C, n, cap, t)
  BY <1>1, <1>4, <1>7, <1>8, <1>9, <1>10, <1>11, <1>12 DEF Ring
<1>14. QED BY <1>13 DEF t

(* The first block, with its one element, leaves the ring.                  *)
LEMMA RingDropFirst ==
  ASSUME client \in Clients, NEW B, NEW n, NEW cap, NEW s, Ring(B, n, cap, s),
         B[0].nmemb = 1, n > 2,
         NEW C \in [0 .. cap - 1 -> Entry], C[cap - 1] = UnsetBlock,
         \A j \in 0 .. cap - 2 : C[j] = B[j + 1]
  PROVE  Ring(C, n - 1, cap, Tail(s))
<1> DEFINE t == Tail(s)
           a == Start(B)
<1>1. /\ cap \in Nat /\ n \in 2 .. cap /\ s \in Seq(Values)
      /\ \A j \in 0 .. n - 1 : B[j].array \in Arr /\ B[j].nmemb \in 1 .. arr_cap
      /\ \A j \in 1 .. n - 2 : B[j].nmemb = arr_cap
      /\ \A j \in n .. cap - 1 : B[j] = UnsetBlock
      /\ Held(B, n, a, s)
  BY DEF Ring
<1>2. /\ n \in Nat /\ n > 2 /\ n - 1 \in Nat /\ Len(s) \in Nat /\ Len(s) > 0
      /\ a = arr_cap - 1 /\ a \in Nat /\ arr_cap \in Nat
      /\ Fill(n - 1) \in Nat /\ Fill(n - 1) = Fill(n - 2) + arr_cap
      /\ a + Len(s) = Fill(n - 1) + B[n - 1].nmemb /\ B[n - 1].nmemb \in 1 .. arr_cap
  <2>1. /\ n \in Nat /\ n > 2 /\ n - 1 \in Nat /\ Len(s) \in Nat /\ Len(s) >= n
        /\ Start(B) = arr_cap - B[0].nmemb /\ Start(B) \in 0 .. arr_cap - 1
        /\ Fill(n - 1) \in Nat /\ Fill(n - 1) = Fill(n - 2) + arr_cap
        /\ a + Len(s) = Fill(n - 1) + B[n - 1].nmemb /\ B[n - 1].nmemb \in 1 .. arr_cap
    BY RingFacts
  <2>2. a = arr_cap - 1 /\ arr_cap \in Nat
    BY <2>1, Sizes
  <2>3. a \in Nat /\ Len(s) > 0
    BY <2>1, <2>2
  <2> HIDE DEF a
  <2>4. QED BY <2>1, <2>2, <2>3
<1> HIDE DEF a
<1>3. Fill(n - 2) \in Nat
  <2>1. n - 2 \in Nat
    BY <1>2
  <2>2. QED BY <2>1, FillAt
<1>4. t \in Seq(Values) /\ Len(t) = Len(s) - 1
  BY <1>1, <1>2, Popped
<1>5. \A j \in 0 .. n - 2 : j \in 0 .. cap - 2 /\ j + 1 \in 0 .. n - 1
  BY <1>1, <1>2
<1>6. Held(C, n - 1, 0, t)
  <2>1. Held(B, n, a + 1, t) /\ a + 1 \in Nat /\ a + 1 = arr_cap /\ (a + 1) - arr_cap = 0
    <3>1. Held(B, n, a + 1, t)
      BY <1>1, <1>2, HeldLess
    <3>2. QED BY <3>1, <1>2
  <2>2. \A j \in 0 .. n - 2 : C[j].array = B[j + 1].array
    BY <1>5
  <2> HIDE DEF t
  <2>3. Held(C, n - 1, (a + 1) - arr_cap, t)
    BY <2>1, <2>2, <1>2, <1>4, HeldFewer
  <2>4. QED BY <2>1, <2>3
<1> HIDE DEF t
<1>7. Start(C) = 0
  <2>1. 0 \in 0 .. cap - 2 /\ 0 + 1 = 1 /\ 1 \in 1 .. n - 2
    BY <1>1, <1>2
  <2>2. C[0].nmemb = arr_cap
    BY <2>1, <1>1
  <2>3. QED BY <2>2, <1>2 DEF Start
<1>8. Start(C) + Len(t) = Fill((n - 1) - 1) + C[(n - 1) - 1].nmemb
  <2>1. (n - 1) - 1 = n - 2 /\ n - 2 \in 0 .. cap - 2 /\ (n - 2) + 1 = n - 1
    BY <1>1, <1>2
  <2>2. C[n - 2] = B[n - 1]
    BY <2>1
  <2>3. 0 + Len(t) = Fill(n - 2) + B[n - 1].nmemb
    <3> DEFINE m == B[n - 1].nmemb
    <3>1. m \in Nat /\ a + Len(s) = Fill(n - 1) + m
      BY <1>2
    <3> HIDE DEF m
    <3>2. /\ a = arr_cap - 1 /\ arr_cap \in Nat /\ Len(s) \in Nat /\ Len(t) = Len(s) - 1
          /\ Fill(n - 1) = Fill(n - 2) + arr_cap /\ Fill(n - 2) \in Nat
      BY <1>2, <1>3, <1>4
    <3>3. 0 + Len(t) = Fill(n - 2) + m
      BY <3>1, <3>2
    <3>4. QED BY <3>3 DEF m
  <2>4. QED BY <2>1, <2>2, <2>3, <1>7
<1>9. \A j \in 0 .. (n - 1) - 1 : C[j].array \in Arr /\ C[j].nmemb \in 1 .. arr_cap
  <2>1. (n - 1) - 1 = n - 2
    BY <1>2
  <2>2. QED BY <2>1, <1>1, <1>5
<1>10. \A j \in 1 .. (n - 1) - 2 : C[j].nmemb = arr_cap
  <2>1. \A j \in 1 .. (n - 1) - 2 : j \in 0 .. cap - 2 /\ j + 1 \in 1 .. n - 2
    BY <1>1, <1>2
  <2>2. QED BY <2>1, <1>1
<1>11. \A j \in n - 1 .. cap - 1 : C[j] = UnsetBlock
  <2>1. \A j \in n - 1 .. cap - 1 : j = cap - 1 \/ (j \in 0 .. cap - 2 /\ j + 1 \in n .. cap - 1)
    BY <1>1, <1>2
  <2>2. QED BY <2>1, <1>1
<1>12. n - 1 \in 2 .. cap
  BY <1>1, <1>2
<1>13. Ring(C, n - 1, cap, t)
  BY <1>1, <1>4, <1>6, <1>7, <1>8, <1>9, <1>10, <1>11, <1>12 DEF Ring
<1>14. QED BY <1>13 DEF t

(* An element less in the last block, which has others.                     *)
LEMMA RingPopBack ==
  ASSUME client \in Clients, NEW B, NEW n, NEW cap, NEW s, Ring(B, n, cap, s),
         B[n - 1].nmemb > 1,
         NEW C \in [0 .. cap - 1 -> Entry], C[n - 1].array = B[n - 1].array,
         C[n - 1].nmemb = B[n - 1].nmemb - 1,
         \A j \in 0 .. cap - 1 : j # n - 1 => C[j] = B[j]
  PROVE  Ring(C, n, cap, Front(s))
<1> DEFINE t == Front(s)
           a == Start(B)
           m == B[n - 1].nmemb
<1>1. /\ cap \in Nat /\ n \in 2 .. cap /\ s \in Seq(Values)
      /\ \A j \in 0 .. n - 1 : B[j].array \in Arr /\ B[j].nmemb \in 1 .. arr_cap
      /\ \A j \in 1 .. n - 2 : B[j].nmemb = arr_cap
      /\ \A j \in n .. cap - 1 : B[j] = UnsetBlock
      /\ Held(B, n, a, s)
  BY DEF Ring
<1>2. /\ n \in Nat /\ n >= 2 /\ Len(s) \in Nat /\ Len(s) > 0 /\ a \in Nat
      /\ m \in 1 .. arr_cap /\ Fill(n - 1) \in Nat /\ a + Len(s) = Fill(n - 1) + m
      /\ B[n - 1].array \in Arr
  BY RingFacts
<1> HIDE DEF a, m
<1>3. arr_cap \in Nat /\ m > 1 /\ m - 1 \in 1 .. arr_cap /\ C[n - 1].nmemb = m - 1
  <2>1. arr_cap \in Nat /\ m > 1 /\ C[n - 1].nmemb = m - 1
    BY Sizes DEF m
  <2>2. QED BY <2>1, <1>2
<1>4. t \in Seq(Values) /\ Len(t) = Len(s) - 1
  BY <1>1, <1>2, Popped
<1>5. \A j \in 0 .. n - 1 : j \in 0 .. cap - 1
  BY <1>1
<1>6. \A j \in 0 .. n - 1 : C[j].array = B[j].array
  BY <1>5
<1>7. Held(C, n, a, t)
  <2>1. Held(B, n, a, t) /\ n \in 0 .. n
    BY <1>1, <1>2, HeldLess
  <2> HIDE DEF t
  <2>2. QED BY <2>1, <1>2, <1>4, <1>6, HeldFewer
<1> HIDE DEF t
<1>8. Start(C) = a
  <2>1. 0 \in 0 .. cap - 1 /\ 0 # n - 1
    BY <1>1
  <2>2. QED BY <2>1 DEF Start, a
<1>9. Start(C) + Len(t) = Fill(n - 1) + C[n - 1].nmemb
  <2>1. a + Len(t) = Fill(n - 1) + (m - 1)
    <3>1. /\ a \in Nat /\ m \in Nat /\ Fill(n - 1) \in Nat /\ Len(s) \in Nat
          /\ a + Len(s) = Fill(n - 1) + m /\ Len(t) = Len(s) - 1
      BY <1>2, <1>4
    <3>2. a + Len(t) = (a + Len(s)) - 1
      BY <3>1
    <3>3. Fill(n - 1) + (m - 1) = (Fill(n - 1) + m) - 1
      BY <3>1
    <3>4. QED BY <3>1, <3>2, <3>3, Zenon
  <2>2. QED BY <2>1, <1>3, <1>8
<1>10. \A j \in 0 .. n - 1 : C[j].array \in Arr /\ C[j].nmemb \in 1 .. arr_cap
  BY <1>1, <1>2, <1>3, <1>5, Zenon
<1>11. \A j \in 1 .. n - 2 : C[j].nmemb = arr_cap
  BY <1>1
<1>12. \A j \in n .. cap - 1 : C[j] = UnsetBlock
  BY <1>1
<1>13. Ring(C, n, cap, t)
  BY <1>1, <1>4, <1>7, <1>8, <1>9, <1>10, <1>11, <1>12 DEF Ring
<1>14. QED BY <1>13 DEF t

(* The last block, with its one element, leaves the ring.                   *)
LEMMA RingDropLast ==
  ASSUME client \in Clients, NEW B, NEW n, NEW cap, NEW s, Ring(B, n, cap, s),
         B[n - 1].nmemb = 1, n > 2,
         NEW C \in [0 .. cap - 1 -> Entry], C[n - 1] = UnsetBlock,
         \A j \in 0 .. cap - 1 : j # n - 1 => C[j] = B[j]
  PROVE  Ring(C, n - 1, cap, Front(s))
<1> DEFINE t == Front(s)
           a == Start(B)
<1>1. /\ cap \in Nat /\ n \in 2 .. cap /\ s \in Seq(Values)
      /\ \A j \in 0 .. n - 1 : B[j].array \in Arr /\ B[j].nmemb \in 1 .. arr_cap
      /\ \A j \in 1 .. n - 2 : B[j].nmemb = arr_cap
      /\ \A j \in n .. cap - 1 : B[j] = UnsetBlock
      /\ Held(B, n, a, s)
  BY DEF Ring
<1>2. /\ n \in Nat /\ n > 2 /\ n - 1 \in Nat /\ Len(s) \in Nat /\ Len(s) > 0 /\ a \in Nat
      /\ arr_cap \in Nat /\ Fill(n - 1) \in Nat /\ Fill(n - 1) = Fill(n - 2) + arr_cap
      /\ a + Len(s) = Fill(n - 1) + 1
  BY SMTT(30), RingFacts, Sizes
<1> HIDE DEF a
<1>3. Fill(n - 2) \in Nat
  <2>1. n - 2 \in Nat
    BY <1>2
  <2>2. QED BY <2>1, FillAt
<1>4. t \in Seq(Values) /\ Len(t) = Len(s) - 1
  BY <1>1, <1>2, Popped
<1>5. \A j \in 0 .. n - 2 : j \in 0 .. cap - 1 /\ j # n - 1 /\ j \in 0 .. n - 1
  BY <1>1, <1>2
<1>6. Held(C, n - 1, a, t)
  <2>1. Held(B, n, a, t) /\ n - 1 \in 0 .. n /\ (n - 1) - 1 = n - 2
    BY <1>1, <1>2, HeldLess
  <2>2. \A j \in 0 .. (n - 1) - 1 : C[j].array = B[j].array
    BY <2>1, <1>5
  <2> HIDE DEF t
  <2>3. QED BY <2>1, <2>2, <1>2, <1>4, HeldFewer
<1> HIDE DEF t
<1>7. Start(C) = a
  <2>1. 0 \in 0 .. cap - 1 /\ 0 # n - 1
    BY <1>1, <1>2
  <2>2. QED BY <2>1 DEF Start, a
<1>8. Start(C) + Len(t) = Fill((n - 1) - 1) + C[(n - 1) - 1].nmemb
  <2>1. (n - 1) - 1 = n - 2 /\ n - 2 \in 0 .. n - 2 /\ n - 2 \in 1 .. n - 2
    BY <1>1, <1>2
  <2>2. C[n - 2].nmemb = arr_cap
    BY <2>1, <1>1, <1>5
  <2>3. a + Len(t) = Fill(n - 2) + arr_cap
    BY SMTT(30), <1>2, <1>3, <1>4
  <2>4. QED BY <2>1, <2>2, <2>3, <1>7
<1>9. \A j \in 0 .. (n - 1) - 1 : C[j].array \in Arr /\ C[j].nmemb \in 1 .. arr_cap
  <2>1. (n - 1) - 1 = n - 2
    BY <1>2
  <2>2. QED BY <2>1, <1>1, <1>5
<1>10. \A j \in 1 .. (n - 1) - 2 : C[j].nmemb = arr_cap
  <2>1. \A j \in 1 .. (n - 1) - 2 : j \in 0 .. n - 2 /\ j \in 1 .. n - 2
    BY <1>1, <1>2
  <2>2. QED BY <2>1, <1>1, <1>5
<1>11. \A j \in n - 1 .. cap - 1 : C[j] = UnsetBlock
  <2>1. \A j \in n - 1 .. cap - 1 : j = n - 1 \/ (j \in 0 .. cap - 1 /\ j # n - 1 /\ j \in n .. cap - 1)
    BY <1>1, <1>2
  <2>2. QED BY <2>1, <1>1
<1>12. n - 1 \in 2 .. cap
  BY <1>1, <1>2
<1>13. Ring(C, n - 1, cap, t)
  BY <1>1, <1>4, <1>6, <1>7, <1>8, <1>9, <1>10, <1>11, <1>12 DEF Ring
<1>14. QED BY <1>13 DEF t

(* The same ring in a longer control array.                                 *)
LEMMA RingGrow ==
  ASSUME client \in Clients, NEW B, NEW n, NEW cap, NEW s, Ring(B, n, cap, s),
         NEW big \in Nat, cap <= big,
         NEW C \in [0 .. big - 1 -> Entry], \A j \in 0 .. n - 1 : C[j] = B[j],
         \A j \in n .. big - 1 : C[j] = UnsetBlock
  PROVE  Ring(C, n, big, s)
<1>1. /\ n \in 2 .. cap /\ s \in Seq(Values) /\ cap \in Nat
      /\ \A j \in 0 .. n - 1 : B[j].array \in Arr /\ B[j].nmemb \in 1 .. arr_cap
      /\ \A j \in 1 .. n - 2 : B[j].nmemb = arr_cap
      /\ Start(B) + Len(s) = Fill(n - 1) + B[n - 1].nmemb
      /\ Held(B, n, Start(B), s)
  BY DEF Ring
<1>2. n \in 2 .. big /\ 0 \in 0 .. n - 1 /\ n - 1 \in 0 .. n - 1 /\ n \in 0 .. n /\ n \in Nat
  BY <1>1
<1>3. Start(C) = Start(B)
  BY <1>2 DEF Start
<1>4. Held(C, n, Start(C), s)
  <2>1. Start(B) \in Nat
    BY RingFacts
  <2>2. QED BY <2>1, <1>1, <1>2, <1>3, HeldFewer
<1>5. Start(C) + Len(s) = Fill(n - 1) + C[n - 1].nmemb
  BY <1>1, <1>2, <1>3
<1>6. \A j \in 0 .. n - 1 : C[j].array \in Arr /\ C[j].nmemb \in 1 .. arr_cap
  BY <1>1
<1>7. \A j \in 1 .. n - 2 : C[j].nmemb = arr_cap
  <2>1. \A j \in 1 .. n - 2 : j \in 0 .. n - 1
    BY <1>2
  <2>2. QED BY <2>1, <1>1
<1>8. QED BY <1>1, <1>2, <1>4, <1>5, <1>6, <1>7 DEF Ring

-----------------------------------------------------------------------------
(* One block b that holds s from place a on.                                *)
One(b) == [j \in {0} |-> b]

Single(b, a, s) ==
  /\ b \in Entry /\ b.array \in Arr /\ b.nmemb = Len(s) /\ s \in Seq(Values)
  /\ a \in Nat /\ a + Len(s) <= arr_cap
  /\ Held(One(b), 1, a, s)

LEMMA SinglePush ==
  ASSUME client \in Clients, NEW b, NEW a, NEW s, Single(b, a, s), NEW v \in Values
  PROVE  /\ a > 0 => Single(With(b, a - 1, v, b.nmemb + 1), a - 1, <<v>> \o s)
         /\ a + Len(s) < arr_cap => Single(With(b, a + Len(s), v, b.nmemb + 1), a, Append(s, v))
<1>1. /\ b \in Entry /\ b.array \in Arr /\ b.nmemb = Len(s) /\ s \in Seq(Values)
      /\ a \in Nat /\ a + Len(s) <= arr_cap /\ Held(One(b), 1, a, s)
      /\ Len(s) \in Nat /\ arr_cap \in Nat /\ b.nmemb + 1 \in Nat
  BY Sizes DEF Single
<1>2. 0 \in 0 .. 1 - 1 /\ 1 \in Nat /\ Fill(0) = 0
  BY FillAt
<1>3. ASSUME a > 0 PROVE Single(With(b, a - 1, v, b.nmemb + 1), a - 1, <<v>> \o s)
  <2> DEFINE w == With(b, a - 1, v, b.nmemb + 1)
             t == <<v>> \o s
  <2>1. a \in 1 .. arr_cap /\ a - 1 \in 0 .. arr_cap - 1 /\ a - 1 \in Nat
    BY <1>1, <1>3
  <2>2. IsWith(w, b, a - 1, v, b.nmemb + 1)
    BY <1>1, <2>1, WithFacts
  <2> HIDE DEF w
  <2>3. Wrote(One(w), One(b), 1, 0, a - 1, v)
    <3>1. One(w)[0] = w /\ One(b)[0] = b /\ \A l \in 0 .. 1 - 1 : l = 0
      BY DEF One
    <3>2. \A k \in 0 .. arr_cap - 1 :
            One(w)[0].array[k] = IF k = a - 1 THEN v ELSE One(b)[0].array[k]
      BY <2>2, <3>1 DEF IsWith
    <3>3. QED BY <3>1, <3>2, WroteIn
  <2>4. Held(One(w), 1, a - 1, t)
    BY <1>1, <1>2, <2>1, <2>3, HeldFront
  <2>5. t \in Seq(Values) /\ Len(t) = Len(s) + 1
    BY <1>1, Ends
  <2> HIDE DEF t
  <2>6. (a - 1) + Len(t) <= arr_cap
    BY <1>1, <2>5
  <2>7. w \in Entry /\ w.array \in Arr /\ w.nmemb = Len(t)
    BY <1>1, <2>2, <2>5 DEF IsWith
  <2>8. Single(w, a - 1, t)
    BY <2>1, <2>4, <2>5, <2>6, <2>7 DEF Single
  <2>9. QED BY <2>8 DEF w, t
<1>4. ASSUME a + Len(s) < arr_cap
      PROVE  Single(With(b, a + Len(s), v, b.nmemb + 1), a, Append(s, v))
  <2> DEFINE i == a + Len(s)
             w == With(b, i, v, b.nmemb + 1)
             t == Append(s, v)
  <2>1. i \in 0 .. arr_cap - 1 /\ 0 + i = a + Len(s)
    BY <1>1, <1>4
  <2> HIDE DEF i
  <2>2. IsWith(w, b, i, v, b.nmemb + 1)
    BY <1>1, <2>1, WithFacts
  <2> HIDE DEF w
  <2>3. Wrote(One(w), One(b), 1, 0, i, v)
    <3>1. One(w)[0] = w /\ One(b)[0] = b /\ \A l \in 0 .. 1 - 1 : l = 0
      BY DEF One
    <3>2. \A k \in 0 .. arr_cap - 1 :
            One(w)[0].array[k] = IF k = i THEN v ELSE One(b)[0].array[k]
      BY <2>2, <3>1 DEF IsWith
    <3>3. QED BY <3>1, <3>2, WroteIn
  <2>4. Held(One(w), 1, a, t)
    <3>1. Fill(0) + i = a + Len(s)
      BY <1>2, <2>1
    <3>2. QED BY <3>1, <1>1, <1>2, <2>1, <2>3, HeldBack
  <2>5. t \in Seq(Values) /\ Len(t) = Len(s) + 1
    BY <1>1, Ends
  <2> HIDE DEF t
  <2>6. a + Len(t) <= arr_cap
    <3>1. a + Len(s) < arr_cap /\ a \in Nat /\ Len(s) \in Nat /\ arr_cap \in Nat
      BY <1>1, <1>4
    <3>2. QED BY <3>1, <2>5
  <2>7. w \in Entry /\ w.array \in Arr /\ w.nmemb = Len(t)
    BY <1>1, <2>2, <2>5 DEF IsWith
  <2>8. Single(w, a, t)
    BY <1>1, <2>4, <2>5, <2>6, <2>7 DEF Single
  <2>9. QED BY <2>8 DEF w, t, i
<1>5. QED BY <1>3, <1>4

LEMMA SinglePop ==
  ASSUME client \in Clients, NEW b, NEW a, NEW s, Single(b, a, s), Len(s) > 0,
         NEW c \in Entry, c.array = b.array, c.nmemb = b.nmemb - 1
  PROVE  Single(c, a + 1, Tail(s)) /\ Single(c, a, Front(s))
<1>1. /\ b.array \in Arr /\ b.nmemb = Len(s) /\ s \in Seq(Values)
      /\ a \in Nat /\ a + Len(s) <= arr_cap /\ Held(One(b), 1, a, s)
      /\ Len(s) \in Nat /\ arr_cap \in Nat /\ a + 1 \in Nat
  BY Sizes DEF Single
<1> DEFINE t == Tail(s)
           u == Front(s)
<1>2. /\ t \in Seq(Values) /\ Len(t) = Len(s) - 1
      /\ u \in Seq(Values) /\ Len(u) = Len(s) - 1
  BY <1>1, Popped
<1>3. Held(One(b), 1, a + 1, t) /\ Held(One(b), 1, a, u)
  BY <1>1, HeldLess
<1> HIDE DEF t, u
<1>4. \A j \in 0 .. 1 - 1 : One(c)[j].array = One(b)[j].array
  BY DEF One
<1>5. Held(One(c), 1, a + 1, t) /\ Held(One(c), 1, a, u)
  <2>1. 1 \in 0 .. 1 /\ 1 \in Nat
    OBVIOUS
  <2>2. QED BY <2>1, <1>1, <1>2, <1>3, <1>4, HeldFewer
<1>6. (a + 1) + Len(t) <= arr_cap /\ a + Len(u) <= arr_cap
  BY <1>1, <1>2
<1>7. Single(c, a + 1, t) /\ Single(c, a, u)
  BY <1>1, <1>2, <1>5, <1>6 DEF Single
<1>8. QED BY <1>7 DEF t, u

(* One block that is full to its first place becomes two: a new one before  *)
(* it.  Full to its last: a new one after it.                               *)
LEMMA SingleNewFront ==
  ASSUME client \in Clients, NEW b, NEW s, Single(b, 0, s), Len(s) > 0, NEW v \in Values,
         NEW C \in [0 .. 2 - 1 -> Entry], C[0] = With(NewBlock, arr_cap - 1, v, 1), C[1] = b
  PROVE  Ring(C, 2, 2, <<v>> \o s)
<1> DEFINE t == <<v>> \o s
           D == [C EXCEPT ![0] = NewBlock]
<1>1. /\ b.array \in Arr /\ b.nmemb = Len(s) /\ s \in Seq(Values)
      /\ 0 + Len(s) <= arr_cap /\ Held(One(b), 1, 0, s)
      /\ Len(s) \in Nat /\ arr_cap \in Nat /\ arr_cap >= 2
      /\ arr_cap \in 1 .. arr_cap /\ arr_cap - 1 \in 0 .. arr_cap - 1 /\ 1 \in 1 .. arr_cap
  BY Sizes DEF Single
<1>2. IsWith(C[0], NewBlock, arr_cap - 1, v, 1)
  BY <1>1, NewFacts, WithFacts
<1>3. D[0] = NewBlock /\ D[1] = C[1] /\ \A j \in 0 .. 2 - 1 : j = 0 \/ j = 1
  OBVIOUS
<1> HIDE DEF D
<1>4. Held(D, 2, arr_cap, s)
  <2>1. \A j \in 1 .. 1 : D[j].array = One(b)[j - 1].array
    BY <1>3 DEF One
  <2>2. 0 + arr_cap = arr_cap /\ 1 + 1 = 2 /\ 0 \in Nat /\ 1 \in Nat
    BY <1>1
  <2>3. Held(D, 1 + 1, 0 + arr_cap, s)
    BY <2>1, <2>2, <1>1, HeldNew
  <2>4. QED BY <2>2, <2>3
<1>5. Wrote(C, D, 2, 0, arr_cap - 1, v)
  <2>1. \A k \in 0 .. arr_cap - 1 :
          C[0].array[k] = IF k = arr_cap - 1 THEN v ELSE D[0].array[k]
    BY <1>2, <1>3 DEF IsWith
  <2>2. \A l \in 0 .. 2 - 1 : l # 0 => C[l].array = D[l].array
    BY <1>3
  <2>3. QED BY <2>1, <2>2, WroteIn
<1>6. t \in Seq(Values) /\ Len(t) = Len(s) + 1
  BY <1>1, Ends
<1>7. Held(C, 2, arr_cap - 1, t)
  <2>1. 2 \in Nat
    OBVIOUS
  <2>2. QED BY <2>1, <1>1, <1>4, <1>5, HeldFront
<1> HIDE DEF t
<1>8. Start(C) = arr_cap - 1
  BY <1>2 DEF Start, IsWith
<1>9. Start(C) + Len(t) = Fill(2 - 1) + C[2 - 1].nmemb
  <2>1. Fill(1) = arr_cap /\ 2 - 1 = 1
    <3>1. Fill(1) = arr_cap
      BY Fills
    <3>2. QED BY <3>1
  <2>2. (arr_cap - 1) + Len(t) = arr_cap + Len(s)
    BY <1>1, <1>6
  <2>3. QED BY <2>1, <2>2, <1>1, <1>8
<1>10. \A j \in 0 .. 2 - 1 : C[j].array \in Arr /\ C[j].nmemb \in 1 .. arr_cap
  <2>1. Len(s) \in 1 .. arr_cap
    BY <1>1
  <2>2. C[0].array \in Arr /\ C[0].nmemb \in 1 .. arr_cap
    BY <1>1, <1>2 DEF IsWith
  <2>3. QED BY <2>1, <2>2, <1>1, <1>3
<1>11. (\A j \in 1 .. 2 - 2 : C[j].nmemb = arr_cap) /\ \A j \in 2 .. 2 - 1 : C[j] = UnsetBlock
  OBVIOUS
<1>12. Ring(C, 2, 2, t)
  BY <1>6, <1>7, <1>8, <1>9, <1>10, <1>11 DEF Ring
<1>13. QED BY <1>12 DEF t

LEMMA SingleNewBack ==
  ASSUME client \in Clients, NEW b, NEW a, NEW s, Single(b, a, s), a + Len(s) = arr_cap,
         Len(s) > 0, NEW v \in Values,
         NEW C \in [0 .. 2 - 1 -> Entry], C[0] = b, C[1] = With(NewBlock, 0, v, 1)
  PROVE  Ring(C, 2, 2, Append(s, v))
<1> DEFINE t == Append(s, v)
           D == [C EXCEPT ![1] = NewBlock]
<1>1. /\ b.array \in Arr /\ b.nmemb = Len(s) /\ s \in Seq(Values)
      /\ a \in Nat /\ Held(One(b), 1, a, s)
      /\ Len(s) \in Nat /\ arr_cap \in Nat /\ arr_cap >= 2
      /\ 0 \in 0 .. arr_cap - 1 /\ 1 \in 1 .. arr_cap
  BY Sizes DEF Single
<1>2. IsWith(C[1], NewBlock, 0, v, 1)
  BY <1>1, NewFacts, WithFacts
<1>3. D[1] = NewBlock /\ D[0] = C[0] /\ \A j \in 0 .. 2 - 1 : j = 0 \/ j = 1
  OBVIOUS
<1> HIDE DEF D
<1>4. Fill(1) = arr_cap
  BY Fills
<1>5. Held(D, 2, a, s)
  <2>1. \A j \in 0 .. 1 - 1 : D[j].array = One(b)[j].array
    BY <1>3 DEF One
  <2>2. 1 + 1 = 2 /\ 1 \in Nat /\ a + Len(s) <= Fill(1)
    BY <1>1, <1>4
  <2>3. Held(D, 1 + 1, a, s)
    BY <2>1, <2>2, <1>1, HeldNew
  <2>4. QED BY <2>2, <2>3
<1>6. Wrote(C, D, 2, 1, 0, v)
  <2>1. \A k \in 0 .. arr_cap - 1 : C[1].array[k] = IF k = 0 THEN v ELSE D[1].array[k]
    BY <1>2, <1>3 DEF IsWith
  <2>2. \A l \in 0 .. 2 - 1 : l # 1 => C[l].array = D[l].array
    BY <1>3
  <2>3. QED BY <2>1, <2>2, WroteIn
<1>7. t \in Seq(Values) /\ Len(t) = Len(s) + 1
  BY <1>1, Ends
<1>8. Held(C, 2, a, t)
  <2>1. 2 \in Nat /\ 1 \in 0 .. 2 - 1 /\ Fill(1) + 0 = a + Len(s)
    BY <1>1, <1>4
  <2>2. QED BY <2>1, <1>1, <1>5, <1>6, HeldBack
<1> HIDE DEF t
<1>9. Start(C) = a
  BY <1>1 DEF Start
<1>10. Start(C) + Len(t) = Fill(2 - 1) + C[2 - 1].nmemb
  <2>1. 2 - 1 = 1 /\ C[1].nmemb = 1
    BY <1>2 DEF IsWith
  <2>2. a + Len(t) = arr_cap + 1
    BY <1>1, <1>7
  <2>3. QED BY <2>1, <2>2, <1>4, <1>9
<1>11. \A j \in 0 .. 2 - 1 : C[j].array \in Arr /\ C[j].nmemb \in 1 .. arr_cap
  <2>1. Len(s) \in 1 .. arr_cap
    BY <1>1
  <2>2. C[1].array \in Arr /\ C[1].nmemb \in 1 .. arr_cap
    BY <1>1, <1>2 DEF IsWith
  <2>3. QED BY <2>1, <2>2, <1>1, <1>3
<1>12. (\A j \in 1 .. 2 - 2 : C[j].nmemb = arr_cap) /\ \A j \in 2 .. 2 - 1 : C[j] = UnsetBlock
  OBVIOUS
<1>13. Ring(C, 2, 2, t)
  BY <1>7, <1>8, <1>9, <1>10, <1>11, <1>12 DEF Ring
<1>14. QED BY <1>13 DEF t

(* Two blocks become one.                                                   *)
LEMMA RingToOne ==
  ASSUME client \in Clients, NEW B, NEW cap, NEW s, Ring(B, 2, cap, s)
  PROVE  /\ B[0].nmemb = 1 => Single(B[1], 0, Tail(s))
         /\ B[1].nmemb = 1 => Single(B[0], Start(B), Front(s))
<1> DEFINE a == Start(B)
           t == Tail(s)
           u == Front(s)
<1>1. /\ B \in [0 .. cap - 1 -> Entry] /\ s \in Seq(Values) /\ Held(B, 2, a, s)
      /\ 0 \in 0 .. cap - 1 /\ 1 \in 0 .. cap - 1
  BY DEF Ring
<1>2. /\ Len(s) \in Nat /\ Len(s) > 0 /\ a \in Nat /\ a = arr_cap - B[0].nmemb
      /\ B[0].array \in Arr /\ B[0].nmemb \in 1 .. arr_cap
      /\ B[1].array \in Arr /\ B[1].nmemb \in 1 .. arr_cap
      /\ a + Len(s) = Fill(1) + B[1].nmemb
  <2>1. 2 - 1 = 1
    OBVIOUS
  <2>2. QED BY <2>1, RingFacts
<1> HIDE DEF a
<1>3. Fill(1) = arr_cap /\ arr_cap \in Nat
  BY Fills, Sizes
<1>4. /\ t \in Seq(Values) /\ Len(t) = Len(s) - 1
      /\ u \in Seq(Values) /\ Len(u) = Len(s) - 1
  BY <1>1, <1>2, Popped
<1>5. Held(B, 2, a + 1, t) /\ Held(B, 2, a, u)
  <2>1. 2 \in Nat
    OBVIOUS
  <2>2. QED BY <2>1, <1>1, <1>2, HeldLess
<1> HIDE DEF t, u
<1>6. ASSUME B[0].nmemb = 1 PROVE Single(B[1], 0, t)
  <2>1. a + 1 = arr_cap /\ (a + 1) - arr_cap = 0 /\ a + 1 \in Nat
    BY <1>2, <1>3, <1>6
  <2>2. \A j \in 0 .. 2 - 2 : One(B[1])[j].array = B[j + 1].array
    BY DEF One
  <2>3. Held(One(B[1]), 2 - 1, (a + 1) - arr_cap, t)
    <3>1. 2 \in Nat
      OBVIOUS
    <3>2. QED BY <3>1, <2>1, <2>2, <1>4, <1>5, HeldFewer
  <2>4. Held(One(B[1]), 1, 0, t)
    <3>1. 2 - 1 = 1
      OBVIOUS
    <3>2. QED BY <3>1, <2>1, <2>3
  <2>5. B[1].nmemb = Len(t) /\ 0 + Len(t) <= arr_cap
    <3> DEFINE m == B[1].nmemb
    <3>1. m \in 1 .. arr_cap /\ a + Len(s) = Fill(1) + m
      BY <1>2
    <3> HIDE DEF m
    <3>2. /\ arr_cap \in Nat /\ Len(s) \in Nat /\ Len(t) = Len(s) - 1
          /\ a + Len(s) = arr_cap + m /\ a + 1 = arr_cap /\ a \in Nat
      BY <3>1, <2>1, <1>2, <1>3, <1>4
    <3>3. m = Len(t) /\ 0 + Len(t) <= arr_cap
      BY <3>1, <3>2
    <3>4. QED BY <3>3 DEF m
  <2>6. QED BY <2>4, <2>5, <1>1, <1>2, <1>4 DEF Single
<1>7. ASSUME B[1].nmemb = 1 PROVE Single(B[0], a, u)
  <2>1. \A j \in 0 .. 1 - 1 : One(B[0])[j].array = B[j].array
    BY DEF One
  <2>2. Held(One(B[0]), 1, a, u)
    <3>1. 2 \in Nat /\ 1 \in 0 .. 2
      OBVIOUS
    <3>2. QED BY <3>1, <2>1, <1>2, <1>4, <1>5, HeldFewer
  <2>3. B[0].nmemb = Len(u) /\ a + Len(u) <= arr_cap
    <3> DEFINE m == B[0].nmemb
    <3>1. m \in 1 .. arr_cap /\ a = arr_cap - m /\ a + Len(s) = Fill(1) + 1
      BY <1>2, <1>7
    <3> HIDE DEF m
    <3>2. /\ arr_cap \in Nat /\ Len(s) \in Nat /\ Len(u) = Len(s) - 1
          /\ a + Len(s) = arr_cap + 1
      BY <3>1, <1>2, <1>3, <1>4
    <3>3. m = Len(u) /\ a + Len(u) <= arr_cap
      BY <3>1, <3>2
    <3>4. QED BY <3>3 DEF m
  <2>4. QED BY <2>2, <2>3, <1>1, <1>2, <1>4 DEF Single
<1>8. QED BY <1>6, <1>7 DEF t, u, a

-----------------------------------------------------------------------------
(* The ring in its control array: the entries from f on, around the end.    *)
LEMMA Around ==
  ASSUME NEW cap \in Nat \ {0}, NEW f \in 0 .. cap - 1, NEW j \in 0 .. cap - 1
  PROVE  (f + j) % cap = IF f + j < cap THEN f + j ELSE f + j - cap
<1>1. CASE f + j < cap
  <2>1. f + j \in 0 .. cap - 1
    BY <1>1
  <2>2. QED BY <2>1, <1>1, Wraps
<1>2. CASE ~(f + j < cap)
  <2>1. f + j - cap \in 0 .. cap - 1 /\ (f + j - cap) + cap = f + j
    BY <1>2
  <2>2. ((f + j - cap) + cap) % cap = f + j - cap
    BY <2>1, Wraps
  <2>3. QED BY <2>1, <2>2, <1>2
<1>3. QED BY <1>1, <1>2

(* Every entry is reached once.                                             *)
LEMMA Places ==
  ASSUME NEW cap \in Nat \ {0}, NEW f \in 0 .. cap - 1
  PROVE  /\ (f + 0) % cap = f
         /\ \A j \in 0 .. cap - 1 : (f + j) % cap \in 0 .. cap - 1
         /\ \A i, j \in 0 .. cap - 1 : (f + i) % cap = (f + j) % cap => i = j
         /\ \A b \in 0 .. cap - 1 : \E j \in 0 .. cap - 1 : (f + j) % cap = b
<1>1. \A j \in 0 .. cap - 1 : (f + j) % cap = IF f + j < cap THEN f + j ELSE f + j - cap
  BY Around
<1>2. 0 \in 0 .. cap - 1
  OBVIOUS
<1>3. (f + 0) % cap = f
  <2>1. (f + 0) % cap = IF f + 0 < cap THEN f + 0 ELSE f + 0 - cap
    BY <1>1, <1>2
  <2>2. f + 0 = f /\ f < cap
    OBVIOUS
  <2>3. QED BY <2>1, <2>2
<1>4. ASSUME NEW j \in 0 .. cap - 1 PROVE (f + j) % cap \in 0 .. cap - 1
  <2>1. (f + j) % cap = IF f + j < cap THEN f + j ELSE f + j - cap
    BY <1>1
  <2> DEFINE x == (f + j) % cap
  <2> HIDE DEF x
  <2>2. x \in 0 .. cap - 1
    BY <2>1 DEF x
  <2>3. QED BY <2>2 DEF x
<1>5. ASSUME NEW i \in 0 .. cap - 1, NEW j \in 0 .. cap - 1, (f + i) % cap = (f + j) % cap
      PROVE  i = j
  <2>1. (f + i) % cap = IF f + i < cap THEN f + i ELSE f + i - cap
    BY <1>1
  <2>2. (f + j) % cap = IF f + j < cap THEN f + j ELSE f + j - cap
    BY <1>1
  <2>3. QED BY <2>1, <2>2, <1>5
<1>6. ASSUME NEW b \in 0 .. cap - 1 PROVE \E j \in 0 .. cap - 1 : (f + j) % cap = b
  <2>1. CASE b >= f
    <3>1. b - f \in 0 .. cap - 1 /\ f + (b - f) = b /\ b < cap
      BY <2>1
    <3>2. (f + (b - f)) % cap = b
      BY <3>1, Wraps
    <3>3. QED BY <3>1, <3>2
  <2>2. CASE b < f
    <3>1. b - f + cap \in 0 .. cap - 1 /\ f + (b - f + cap) = b + cap
      BY <2>2
    <3>2. (b + cap) % cap = b
      BY Wraps
    <3>3. QED BY <3>1, <3>2
  <2>3. QED BY <2>1, <2>2
<1>7. QED BY <1>3, <1>4, <1>5, <1>6

(* One step forward and one step back.                                      *)
LEMMA Forward ==
  ASSUME NEW cap \in Nat \ {0}, NEW f \in 0 .. cap - 1
  PROVE  /\ (f + 1) % cap \in 0 .. cap - 1
         /\ \A j \in 0 .. cap - 2 : (((f + 1) % cap) + j) % cap = (f + (j + 1)) % cap
         /\ (((f + 1) % cap) + (cap - 1)) % cap = f
<1> DEFINE g == (f + 1) % cap
<1>1. g = IF f + 1 < cap THEN f + 1 ELSE 0
  <2>1. CASE f + 1 < cap
    <3>1. f + 1 \in 0 .. cap - 1
      BY <2>1
    <3>2. QED BY <3>1, <2>1, Wraps
  <2>2. CASE ~(f + 1 < cap)
    <3>1. f + 1 = 0 + cap /\ 0 \in 0 .. cap - 1
      BY <2>2
    <3>2. (0 + cap) % cap = 0
      BY <3>1, Wraps
    <3>3. QED BY <3>1, <3>2, <2>2
  <2>3. QED BY <2>1, <2>2
<1> HIDE DEF g
<1>2. g \in 0 .. cap - 1
  BY <1>1
<1>3. ASSUME NEW j \in 0 .. cap - 2 PROVE (g + j) % cap = (f + (j + 1)) % cap
  <2>1. j \in 0 .. cap - 1 /\ j + 1 \in 0 .. cap - 1
    OBVIOUS
  <2>2. (g + j) % cap = IF g + j < cap THEN g + j ELSE g + j - cap
    BY <2>1, <1>2, Around
  <2>3. (f + (j + 1)) % cap = IF f + (j + 1) < cap THEN f + (j + 1) ELSE f + (j + 1) - cap
    BY <2>1, Around
  <2>4. QED BY <2>2, <2>3, <1>1
<1>4. (g + (cap - 1)) % cap = f
  <2>1. cap - 1 \in 0 .. cap - 1
    OBVIOUS
  <2>2. (g + (cap - 1)) % cap = IF g + (cap - 1) < cap THEN g + (cap - 1) ELSE g + (cap - 1) - cap
    BY <2>1, <1>2, Around
  <2>3. QED BY <2>2, <1>1
<1>5. QED BY <1>2, <1>3, <1>4 DEF g

LEMMA Backward ==
  ASSUME NEW cap \in Nat \ {0}, NEW f \in 0 .. cap - 1
  PROVE  /\ (f - 1) % cap \in 0 .. cap - 1
         /\ (f - 1) % cap = (f + (cap - 1)) % cap
         /\ \A j \in 1 .. cap - 1 : (((f - 1) % cap) + j) % cap = (f + (j - 1)) % cap
<1> DEFINE g == (f - 1) % cap
<1>1. g = IF f = 0 THEN cap - 1 ELSE f - 1
  <2>1. CASE f = 0
    <3>1. f - 1 = (cap - 1) - cap /\ cap - 1 \in 0 .. cap - 1
      BY <2>1
    <3>2. ((cap - 1) - cap) % cap = cap - 1
      BY <3>1, Wraps
    <3>3. QED BY <3>1, <3>2, <2>1
  <2>2. CASE f # 0
    <3>1. f - 1 \in 0 .. cap - 1
      BY <2>2
    <3>2. QED BY <3>1, <2>2, Wraps
  <2>3. QED BY <2>1, <2>2
<1> HIDE DEF g
<1>2. g \in 0 .. cap - 1
  BY <1>1
<1>3. g = (f + (cap - 1)) % cap
  <2>1. cap - 1 \in 0 .. cap - 1
    OBVIOUS
  <2>2. (f + (cap - 1)) % cap = IF f + (cap - 1) < cap THEN f + (cap - 1) ELSE f + (cap - 1) - cap
    BY <2>1, Around
  <2>3. QED BY <2>2, <1>1
<1>4. ASSUME NEW j \in 1 .. cap - 1 PROVE (g + j) % cap = (f + (j - 1)) % cap
  <2>1. j \in 0 .. cap - 1 /\ j - 1 \in 0 .. cap - 1
    OBVIOUS
  <2>2. (g + j) % cap = IF g + j < cap THEN g + j ELSE g + j - cap
    BY <2>1, <1>2, Around
  <2>3. (f + (j - 1)) % cap = IF f + (j - 1) < cap THEN f + (j - 1) ELSE f + (j - 1) - cap
    BY <2>1, Around
  <2>4. QED BY <2>2, <2>3, <1>1
<1>5. QED BY <1>2, <1>3, <1>4 DEF g

(* The last of n blocks, the entry after it and the one before.             *)
LEMMA Lasts ==
  ASSUME NEW cap \in Nat \ {0}, NEW f \in 0 .. cap - 1, NEW n \in 1 .. cap
  PROVE  /\ n < cap => (((f + n - 1) % cap) + 1) % cap = (f + n) % cap
         /\ n > 1 => (((f + n - 1) % cap) - 1) % cap = (f + (n - 1) - 1) % cap
<1> DEFINE b == (f + (n - 1)) % cap
<1>1. n - 1 \in 0 .. cap - 1
  OBVIOUS
<1>2. b = IF f + (n - 1) < cap THEN f + (n - 1) ELSE f + (n - 1) - cap
  BY <1>1, Around
<1>3. f + n - 1 = f + (n - 1)
  OBVIOUS
<1> HIDE DEF b
<1>4. b \in 0 .. cap - 1
  BY <1>1, <1>2
<1>5. ASSUME n < cap PROVE (b + 1) % cap = (f + n) % cap
  <2>1. n \in 0 .. cap - 1 /\ 1 \in 0 .. cap - 1
    BY <1>5
  <2>2. (b + 1) % cap = IF b + 1 < cap THEN b + 1 ELSE b + 1 - cap
    BY <2>1, <1>4, Around
  <2>3. (f + n) % cap = IF f + n < cap THEN f + n ELSE f + n - cap
    BY <2>1, Around
  <2>4. QED BY <2>2, <2>3, <1>2
<1>6. ASSUME n > 1 PROVE (b - 1) % cap = (f + (n - 2)) % cap
  <2>1. n - 2 \in 0 .. cap - 1 /\ 0 \in 0 .. cap - 1
    BY <1>6
  <2>2. (f + (n - 2)) % cap = IF f + (n - 2) < cap THEN f + (n - 2) ELSE f + (n - 2) - cap
    BY <2>1, Around
  <2>3. CASE b = 0
    <3>1. b - 1 = (cap - 1) - cap /\ cap - 1 \in 0 .. cap - 1
      BY <2>3
    <3>2. ((cap - 1) - cap) % cap = cap - 1
      BY <3>1, Wraps
    <3>3. f + (n - 2) = cap - 1
      BY <2>3, <1>2, <1>6
    <3>4. QED BY <2>2, <3>1, <3>2, <3>3
  <2>4. CASE b # 0
    <3>1. b - 1 \in 0 .. cap - 1
      BY <2>4, <1>4
    <3>2. (b - 1) % cap = b - 1
      BY <3>1, Wraps
    <3>3. QED BY <2>2, <2>4, <3>2, <1>2, <1>6
  <2>5. QED BY <2>3, <2>4
<1>7. f + (n - 1) - 1 = f + (n - 2)
  OBVIOUS
<1>8. QED BY <1>3, <1>5, <1>6, <1>7 DEF b

-----------------------------------------------------------------------------
(* A Deque object: six fields.                                              *)
Made(blocks, n, cap, f, b, m) ==
  [blocks |-> blocks, block_count |-> n, capacity |-> cap, front |-> f, back |-> b,
   nmemb |-> m]

Caps == {2 ^ e : e \in 0 .. MaxItems}
Index(n) == 0 .. n - 1
Blocks(cap) == [Index(cap) -> Entry]

Well(d) ==
  /\ d = Made(d.blocks, d.block_count, d.capacity, d.front, d.back, d.nmemb)
  /\ d.capacity \in Caps /\ d.blocks \in [0 .. d.capacity - 1 -> Entry]
  /\ d.block_count \in Nat /\ d.front \in Nat /\ d.back \in Nat /\ d.nmemb \in Nat

LEMMA CapsFacts ==
  ASSUME client \in Clients
  PROVE  1 \in Caps /\ \A cap \in Caps : cap \in Nat \ {0}
<1>1. 2 ^ 0 = 1 /\ \A e \in Nat : 2 ^ e \in Nat \ {0}
  BY Doubling
<1>2. 0 \in 0 .. MaxItems
  BY Sizes
<1>3. \A e \in 0 .. MaxItems : e \in Nat
  BY Sizes
<1>4. QED BY <1>1, <1>2, <1>3, Zenon DEF Caps

(* No object is the state after a fault.                                    *)
LEMMA WellIsDeque ==
  ASSUME client \in Clients, NEW d, Well(d)
  PROVE  d # FAULT /\ d.capacity \in Nat \ {0}
<1>1. PICK e \in 0 .. MaxItems : d.capacity = 2 ^ e
  BY DEF Well, Caps
<1>2. Entry = BlockOf(client)
  BY DEF Entry, BlockOf, ArrayOf, Arr, arr_cap, Values
<1>3. d.capacity \in Nat \ {0}
  BY CapsFacts DEF Well
<1>4. d.blocks \in UNION {[0 .. 2 ^ x - 1 -> BlockOf(client)] : x \in 0 .. client.max_items}
  BY <1>1, <1>2 DEF Well, MaxItems
<1>5. d \in DequeOf(client)
  <2>1. d = Made(d.blocks, d.block_count, d.capacity, d.front, d.back, d.nmemb)
    BY DEF Well
  <2>2. Made(d.blocks, d.block_count, d.capacity, d.front, d.back, d.nmemb) \in DequeOf(client)
    <3>1. d.block_count \in Nat /\ d.front \in Nat /\ d.back \in Nat /\ d.nmemb \in Nat
      BY DEF Well
    <3>2. QED BY <3>1, <1>3, <1>4 DEF Made, DequeOf
  <2>3. QED BY <2>1, <2>2, Zenon
<1>6. QED BY <1>3, <1>5, MarksAssumption

(* d is an object with these fields.                                        *)
Is(d, blocks, n, cap, f, b, m) ==
  /\ Well(d) /\ d = Made(blocks, n, cap, f, b, m)
  /\ d.blocks = blocks /\ d.block_count = n /\ d.capacity = cap
  /\ d.front = f /\ d.back = b /\ d.nmemb = m

LEMMA MadeWell ==
  ASSUME client \in Clients, NEW cap \in Caps, NEW blocks \in Blocks(cap),
         NEW n \in Nat, NEW f \in Nat, NEW b \in Nat, NEW m \in Nat
  PROVE  Is(Made(blocks, n, cap, f, b, m), blocks, n, cap, f, b, m)
<1> DEFINE d == Made(blocks, n, cap, f, b, m)
<1>1. /\ d.blocks = blocks /\ d.block_count = n /\ d.capacity = cap
      /\ d.front = f /\ d.back = b /\ d.nmemb = m
  BY DEF Made
<1>2. d = Made(d.blocks, d.block_count, d.capacity, d.front, d.back, d.nmemb)
  BY <1>1, Zenon
<1>3. d = Made(blocks, n, cap, f, b, m)
  OBVIOUS
<1> HIDE DEF d
<1>4. Well(d)
  BY <1>1, <1>2 DEF Well, Blocks, Index
<1>5. Is(d, blocks, n, cap, f, b, m)
  BY <1>1, <1>3, <1>4, Zenon DEF Is
<1>6. QED BY <1>5 DEF d

(* A store into an array of an object is a store into one of its entries.   *)
Put(blocks, b, x) == [blocks EXCEPT ![b] = x]

IsStored(blocks, n, cap, f, bk, m, b, i, v) ==
  Store(Made(blocks, n, cap, f, bk, m), b, i, v)
    = Made(Put(blocks, b, With(blocks[b], i, v, blocks[b].nmemb)), n, cap, f, bk, m)

LEMMA StoreIs ==
  ASSUME client \in Clients, NEW cap \in Caps, NEW blocks \in Blocks(cap),
         NEW n, NEW f, NEW bk, NEW m,
         NEW b \in Index(cap), blocks[b].array \in Arr, NEW i \in Index(arr_cap), NEW v
  PROVE  IsStored(blocks, n, cap, f, bk, m, b, i, v)
<1> DEFINE d == Made(blocks, n, cap, f, bk, m)
           w == With(blocks[b], i, v, blocks[b].nmemb)
<1>1. Reaches(d, b, i)
  <2>1. NULL \notin Arr
    BY Sizes
  <2>2. QED BY <2>1 DEF Reaches, Made, Index
<1>2. Store(d, b, i, v) = [d EXCEPT !.blocks[b].array[i] = v]
  BY <1>1 DEF Store
<1>3. [blocks EXCEPT ![b].array[i] = v] = [blocks EXCEPT ![b] = w]
  <2>1. [blocks[b] EXCEPT !.array = [blocks[b].array EXCEPT ![i] = v]] = w
    BY DEF With, Entry, Blocks
  <2>2. QED BY <2>1 DEF Blocks
<1>4. [d EXCEPT !.blocks[b].array[i] = v] = [d EXCEPT !.blocks = [blocks EXCEPT ![b].array[i] = v]]
  BY DEF Made
<1>5. [d EXCEPT !.blocks = [blocks EXCEPT ![b] = w]] = Made([blocks EXCEPT ![b] = w], n, cap, f, bk, m)
  BY DEF Made
<1>6. QED BY <1>2, <1>3, <1>4, <1>5 DEF Put, IsStored

(* The ring an object's blocks form.                                        *)
Place(d, j) == (d.front + j) % d.capacity
View(d) == [j \in 0 .. d.capacity - 1 |-> d.blocks[Place(d, j)]]

LEMMA ViewFacts ==
  ASSUME client \in Clients, NEW d, Well(d), d.front \in 0 .. d.capacity - 1
  PROVE  /\ View(d) \in [0 .. d.capacity - 1 -> Entry]
         /\ \A j \in 0 .. d.capacity - 1 :
              /\ View(d)[j] = d.blocks[Place(d, j)]
              /\ Place(d, j) \in 0 .. d.capacity - 1
         /\ Place(d, 0) = d.front /\ View(d)[0] = d.blocks[d.front]
<1>1. d.capacity \in Nat \ {0} /\ 0 \in 0 .. d.capacity - 1
  BY WellIsDeque
<1>2. Place(d, 0) = d.front /\ \A j \in 0 .. d.capacity - 1 : Place(d, j) \in 0 .. d.capacity - 1
  BY <1>1, Places DEF Place
<1>3. \A j \in 0 .. d.capacity - 1 : View(d)[j] = d.blocks[Place(d, j)]
  BY DEF View
<1>4. View(d) \in [0 .. d.capacity - 1 -> Entry]
  BY <1>2 DEF View, Well
<1>5. View(d)[0] = d.blocks[d.front]
  BY <1>1, <1>2, <1>3
<1>6. QED BY <1>2, <1>3, <1>4, <1>5

(* How it changes when an entry is replaced, and when it begins one entry   *)
(* later or earlier.                                                        *)
LEMMA ViewPut ==
  ASSUME client \in Clients, NEW d, Well(d), d.front \in 0 .. d.capacity - 1,
         NEW j \in 0 .. d.capacity - 1, NEW x, NEW e,
         e.front = d.front, e.capacity = d.capacity,
         e.blocks = [d.blocks EXCEPT ![Place(d, j)] = x]
  PROVE  View(e) = [View(d) EXCEPT ![j] = x]
<1>1. d.capacity \in Nat \ {0}
  BY WellIsDeque
<1>2. \A i \in 0 .. d.capacity - 1 : Place(d, i) = Place(d, j) => i = j
  <2> DEFINE cap == d.capacity
             f == d.front
  <2>1. cap \in Nat \ {0} /\ f \in 0 .. cap - 1
    BY <1>1
  <2> HIDE DEF cap, f
  <2>2. \A i, l \in 0 .. cap - 1 : (f + i) % cap = (f + l) % cap => i = l
    BY <2>1, Places
  <2>3. QED BY <2>2, Zenon DEF Place, cap, f
<1>3. \A i \in 0 .. d.capacity - 1 : Place(e, i) = Place(d, i) /\ Place(d, i) \in DOMAIN d.blocks
  BY ViewFacts DEF Place, Well
<1>4. \A i \in 0 .. d.capacity - 1 :
        e.blocks[Place(d, i)] = IF i = j THEN x ELSE d.blocks[Place(d, i)]
  BY <1>2, <1>3
<1>5. View(e) = [i \in 0 .. d.capacity - 1 |-> IF i = j THEN x ELSE d.blocks[Place(d, i)]]
  BY <1>3, <1>4 DEF View
<1>6. [View(d) EXCEPT ![j] = x] = [i \in 0 .. d.capacity - 1 |-> IF i = j THEN x ELSE View(d)[i]]
  BY DEF View
<1>7. \A i \in 0 .. d.capacity - 1 : View(d)[i] = d.blocks[Place(d, i)]
  BY DEF View
<1>8. QED BY <1>5, <1>6, <1>7

LEMMA ViewForward ==
  ASSUME client \in Clients, NEW d, Well(d), d.front \in 0 .. d.capacity - 1, NEW e,
         e.front = (d.front + 1) % d.capacity, e.capacity = d.capacity, e.blocks = d.blocks
  PROVE  /\ e.front \in 0 .. d.capacity - 1
         /\ \A j \in 0 .. d.capacity - 2 : Place(e, j) = Place(d, j + 1) /\ View(e)[j] = View(d)[j + 1]
         /\ View(e)[d.capacity - 1] = View(d)[0]
<1> DEFINE cap == d.capacity
<1>1. cap \in Nat \ {0}
  BY WellIsDeque
<1>2. /\ e.front \in 0 .. cap - 1
      /\ \A j \in 0 .. cap - 2 : Place(e, j) = Place(d, j + 1)
      /\ Place(e, cap - 1) = d.front
  <2> DEFINE f == d.front
  <2>1. cap \in Nat \ {0} /\ f \in 0 .. cap - 1
    BY <1>1
  <2> HIDE DEF cap, f
  <2>2. /\ (f + 1) % cap \in 0 .. cap - 1
        /\ \A j \in 0 .. cap - 2 : (((f + 1) % cap) + j) % cap = (f + (j + 1)) % cap
        /\ (((f + 1) % cap) + (cap - 1)) % cap = f
    BY <2>1, Forward
  <2>3. QED BY <2>2 DEF Place, cap, f
<1>3. \A j \in 0 .. cap - 2 : j \in 0 .. cap - 1 /\ j + 1 \in 0 .. cap - 1
  BY <1>1
<1>4. \A j \in 0 .. cap - 1 : View(e)[j] = d.blocks[Place(e, j)]
  BY DEF View
<1>5. \A j \in 0 .. cap - 1 : View(d)[j] = d.blocks[Place(d, j)]
  BY DEF View
<1>6. cap - 1 \in 0 .. cap - 1 /\ View(d)[0] = d.blocks[d.front]
  BY <1>1, ViewFacts
<1>7. QED BY <1>2, <1>3, <1>4, <1>5, <1>6

LEMMA ViewBackward ==
  ASSUME client \in Clients, NEW d, Well(d), d.front \in 0 .. d.capacity - 1, NEW e,
         e.front = (d.front - 1) % d.capacity, e.capacity = d.capacity, e.blocks = d.blocks
  PROVE  /\ e.front \in 0 .. d.capacity - 1
         /\ e.front = Place(d, d.capacity - 1)
         /\ \A j \in 1 .. d.capacity - 1 : Place(e, j) = Place(d, j - 1) /\ View(e)[j] = View(d)[j - 1]
<1> DEFINE cap == d.capacity
<1>1. cap \in Nat \ {0}
  BY WellIsDeque
<1>2. /\ e.front \in 0 .. cap - 1
      /\ e.front = Place(d, cap - 1)
      /\ \A j \in 1 .. cap - 1 : Place(e, j) = Place(d, j - 1)
  <2> DEFINE f == d.front
  <2>1. cap \in Nat \ {0} /\ f \in 0 .. cap - 1
    BY <1>1
  <2> HIDE DEF cap, f
  <2>2. /\ (f - 1) % cap \in 0 .. cap - 1
        /\ (f - 1) % cap = (f + (cap - 1)) % cap
        /\ \A j \in 1 .. cap - 1 : (((f - 1) % cap) + j) % cap = (f + (j - 1)) % cap
    BY <2>1, Backward
  <2>3. QED BY <2>2 DEF Place, cap, f
<1>3. \A j \in 1 .. cap - 1 : j \in 0 .. cap - 1 /\ j - 1 \in 0 .. cap - 1
  BY <1>1
<1>4. \A j \in 0 .. cap - 1 : View(e)[j] = d.blocks[Place(e, j)]
  BY DEF View
<1>5. \A j \in 0 .. cap - 1 : View(d)[j] = d.blocks[Place(d, j)]
  BY DEF View
<1>6. QED BY <1>2, <1>3, <1>4, <1>5

-----------------------------------------------------------------------------
(* The two shapes of a deque that holds s, and what every operation leaves, *)
(* even where it breaks them.                                               *)
OneShape(d, s) ==
  /\ Well(d) /\ d.nmemb = Len(s) /\ d.block_count = 1
  /\ Single(d.blocks[0], d.front, s) /\ d.back = Dec(d.front + Len(s))
  /\ \A b \in 1 .. d.capacity - 1 : d.blocks[b].array = NULL

RingShape(d, s) ==
  /\ Well(d) /\ d.nmemb = Len(s)
  /\ d.front \in 0 .. d.capacity - 1 /\ d.back = Place(d, d.block_count - 1)
  /\ Ring(View(d), d.block_count, d.capacity, s)

Shape(d, s) == OneShape(d, s) \/ RingShape(d, s)

Loose(d, s) ==
  /\ Well(d) /\ d.nmemb = Len(s) /\ d.block_count \in 1 .. d.capacity
  /\ d.block_count > 1 => d.front \in 0 .. d.capacity - 1 /\ d.back \in 0 .. d.capacity - 1

LEMMA ShapeLoose ==
  ASSUME client \in Clients, NEW d, NEW s, Shape(d, s)
  PROVE  Loose(d, s)
<1>1. Well(d) /\ d.nmemb = Len(s)
  BY DEF Shape, OneShape, RingShape
<1>2. d.capacity \in Nat \ {0}
  BY <1>1, WellIsDeque
<1>3. CASE OneShape(d, s)
  BY <1>1, <1>2, <1>3 DEF OneShape, Loose
<1>4. CASE RingShape(d, s)
  <2>1. d.block_count \in 2 .. d.capacity /\ d.front \in 0 .. d.capacity - 1
    BY <1>4 DEF RingShape, Ring
  <2>2. d.block_count - 1 \in 0 .. d.capacity - 1 /\ d.block_count \in 1 .. d.capacity
    BY <2>1, <1>2
  <2>3. d.back \in 0 .. d.capacity - 1
    BY <2>1, <2>2, <1>1, <1>4, ViewFacts DEF RingShape
  <2>4. QED BY <2>1, <2>2, <2>3, <1>1 DEF Loose
<1>5. QED BY <1>3, <1>4 DEF Shape

(* A size_t that does not overflow.                                         *)
LEMMA IncDec ==
  ASSUME client \in Clients
  PROVE  /\ \A n \in Nat : n + 1 < SizeMod => Inc(n) = n + 1
         /\ \A n \in Nat \ {0} : n < SizeMod => Dec(n) = n - 1
         /\ Dec(0) = SizeMod - 1
         /\ \A n \in 0 .. SizeMod - 1 : n % SizeMod = n
<1>1. SizeMod \in Nat \ {0}
  BY Sizes
<1>2. \A n \in 0 .. SizeMod - 1 : n % SizeMod = n
  BY <1>1, Wraps
<1>3. \A n \in Nat : n + 1 < SizeMod => n + 1 \in 0 .. SizeMod - 1
  BY <1>1
<1>4. \A n \in Nat \ {0} : n < SizeMod => n - 1 \in 0 .. SizeMod - 1
  BY <1>1
<1>5. Dec(0) = SizeMod - 1
  <2>1. SizeMod - 1 \in 0 .. SizeMod - 1 /\ (SizeMod - 1) - SizeMod = 0 - 1
    BY <1>1
  <2>2. ((SizeMod - 1) - SizeMod) % SizeMod = SizeMod - 1
    BY <2>1, <1>1, Wraps
  <2>3. QED BY <2>1, <2>2 DEF Dec
<1>6. QED BY <1>2, <1>3, <1>4, <1>5 DEF Inc, Dec

(* A push into block b: it counts one more, and the element is stored.      *)
IsPut(blocks, n, cap, f, bk, m, b, i, v, k) ==
  Store([Made(blocks, n, cap, f, bk, m) EXCEPT !.blocks[b].nmemb = k], b, i, v)
    = Made(Put(blocks, b, With(blocks[b], i, v, k)), n, cap, f, bk, m)

LEMMA PutIs ==
  ASSUME client \in Clients, NEW cap \in Caps, NEW blocks \in Blocks(cap),
         NEW n, NEW f, NEW bk, NEW m, NEW k \in Nat,
         NEW b \in Index(cap), blocks[b].array \in Arr, NEW i \in Index(arr_cap), NEW v
  PROVE  IsPut(blocks, n, cap, f, bk, m, b, i, v, k)
<1> DEFINE x == [array |-> blocks[b].array, nmemb |-> k]
           C == [blocks EXCEPT ![b] = x]
<1>1. blocks[b] \in Entry /\ [blocks[b] EXCEPT !.nmemb = k] = x
  BY DEF Entry, Blocks
<1>2. [Made(blocks, n, cap, f, bk, m) EXCEPT !.blocks[b].nmemb = k] = Made(C, n, cap, f, bk, m)
  <2>1. [blocks EXCEPT ![b].nmemb = k] = C
    BY <1>1 DEF Blocks
  <2>2. [Made(blocks, n, cap, f, bk, m) EXCEPT !.blocks[b].nmemb = k]
          = Made([blocks EXCEPT ![b].nmemb = k], n, cap, f, bk, m)
    BY DEF Made
  <2>3. QED BY <2>1, <2>2
<1>3. x \in Entry /\ x.array = blocks[b].array /\ x.nmemb = k
  BY <1>1 DEF Entry
<1> HIDE DEF x
<1>4. C \in Blocks(cap) /\ C[b] = x
  BY <1>3 DEF Blocks
<1>5. Put(C, b, With(C[b], i, v, C[b].nmemb)) = Put(blocks, b, With(blocks[b], i, v, k))
  <2>1. With(C[b], i, v, C[b].nmemb) = With(blocks[b], i, v, k)
    BY <1>3, <1>4 DEF With
  <2>2. QED BY <2>1 DEF Put
<1> HIDE DEF C
<1>6. C[b].array \in Arr
  BY <1>3, <1>4
<1>7. Store(Made(C, n, cap, f, bk, m), b, i, v)
        = Made(Put(C, b, With(C[b], i, v, C[b].nmemb)), n, cap, f, bk, m)
  <2>1. IsStored(C, n, cap, f, bk, m, b, i, v)
    BY <1>4, <1>6, StoreIs, Zenon
  <2>2. QED BY <2>1 DEF IsStored
<1>8. QED BY <1>2, <1>5, <1>7 DEF IsPut

(* The object counts one more.                                              *)
IsCounted(blocks, n, cap, f, bk, m) ==
  Counted(Made(blocks, n, cap, f, bk, m)) = Made(blocks, n, cap, f, bk, m + 1)

LEMMA CountedIs ==
  ASSUME client \in Clients, NEW cap \in Caps, NEW blocks \in Blocks(cap),
         NEW n \in Nat, NEW f \in Nat, NEW bk \in Nat, NEW m \in Nat, m < MaxItems
  PROVE  IsCounted(blocks, n, cap, f, bk, m)
<1>1. Made(blocks, n, cap, f, bk, m) # FAULT
  BY MadeWell, WellIsDeque DEF Is
<1>2. Inc(m) = m + 1
  <2>1. m + 1 < SizeMod
    BY Sizes
  <2>2. QED BY <2>1, IncDec
<1>3. [Made(blocks, n, cap, f, bk, m) EXCEPT !.nmemb = Inc(m)] = Made(blocks, n, cap, f, bk, m + 1)
  BY <1>2 DEF Made
<1>4. Made(blocks, n, cap, f, bk, m).nmemb = m
  BY DEF Made
<1>5. QED BY <1>1, <1>3, <1>4 DEF Counted, IsCounted

(* A deque of two blocks of which one is empty is not in shape.             *)
LEMMA EmptyBreaks ==
  ASSUME client \in Clients, NEW d, d.block_count = 2, d.capacity = 2, d.front = 0, d.back = 1,
         \E b \in {0, 1} : d.blocks[b].nmemb = 0
  PROVE  ~Sound(d)
<1>1. InUse(d) = {(0 + j) % 2 : j \in 0 .. 2 - 1}
  BY DEF InUse
<1>2. (0 + 0) % 2 = 0 /\ (0 + 1) % 2 = 1
  <2>1. 2 \in Nat \ {0} /\ 0 \in 0 .. 2 - 1 /\ 1 \in 0 .. 2 - 1
    OBVIOUS
  <2>2. (0 + 0) % 2 = IF 0 + 0 < 2 THEN 0 + 0 ELSE 0 + 0 - 2
    BY <2>1, Around
  <2>3. (0 + 1) % 2 = IF 0 + 1 < 2 THEN 0 + 1 ELSE 0 + 1 - 2
    BY <2>1, Around
  <2>4. QED BY <2>2, <2>3
<1>3. 0 \in InUse(d) /\ 1 \in InUse(d)
  <2>1. 0 \in 0 .. 2 - 1 /\ 1 \in 0 .. 2 - 1
    OBVIOUS
  <2>2. QED BY <2>1, <1>1, <1>2
<1>4. Sound(d) => \A b \in InUse(d) : d.blocks[b].nmemb \in 1 .. arr_cap
  <2>1. d.block_count # 1
    OBVIOUS
  <2>2. QED BY <2>1, Zenon DEF Sound
<1>5. 0 \notin 1 .. arr_cap
  BY Sizes
<1>6. QED BY <1>3, <1>4, <1>5

(* A deque of two blocks, in entries 0 and 1.                               *)
LEMMA Two ==
  ASSUME client \in Clients, MaxItems > 0, NEW C \in [0 .. 2 - 1 -> Entry], NEW t \in Seq(Values)
  PROVE  LET e == Made(C, 2, 2, 0, 1, Len(t))
         IN  /\ Loose(e, t) /\ e.block_count = 2
             /\ Ring(C, 2, 2, t) => RingShape(e, t)
             /\ C[0].nmemb = 0 \/ C[1].nmemb = 0 => ~Sound(e)
<1> DEFINE e == Made(C, 2, 2, 0, 1, Len(t))
<1>1. 2 \in Caps
  <2>1. 2 ^ 0 = 1 /\ 2 ^ (0 + 1) = 2 * 2 ^ 0
    BY Doubling
  <2>2. 0 + 1 = 1 /\ 1 \in 0 .. MaxItems
    BY Sizes
  <2>3. 2 ^ 1 = 2
    BY <2>1, <2>2
  <2>4. QED BY <2>2, <2>3 DEF Caps
<1>2. 2 \in Nat /\ 0 \in Nat /\ 1 \in Nat /\ Len(t) \in Nat /\ C \in Blocks(2)
  BY DEF Blocks, Index
<1>3. /\ Well(e) /\ e.blocks = C /\ e.block_count = 2 /\ e.capacity = 2
      /\ e.front = 0 /\ e.back = 1 /\ e.nmemb = Len(t)
  <2>1. Is(e, C, 2, 2, 0, 1, Len(t))
    BY <1>1, <1>2, MadeWell, Zenon
  <2> HIDE DEF e
  <2>2. QED BY <2>1, Zenon DEF Is
<1> HIDE DEF e
<1>4. Loose(e, t)
  BY <1>3 DEF Loose
<1>5. (0 + 0) % 2 = 0 /\ (0 + 1) % 2 = 1
  <2>1. 2 \in Nat \ {0} /\ 0 \in 0 .. 2 - 1 /\ 1 \in 0 .. 2 - 1
    OBVIOUS
  <2>2. (0 + 0) % 2 = IF 0 + 0 < 2 THEN 0 + 0 ELSE 0 + 0 - 2
    BY <2>1, Around
  <2>3. (0 + 1) % 2 = IF 0 + 1 < 2 THEN 0 + 1 ELSE 0 + 1 - 2
    BY <2>1, Around
  <2>4. QED BY <2>2, <2>3
<1>6. View(e) = C /\ Place(e, 2 - 1) = 1
  <2>1. Place(e, 0) = 0 /\ Place(e, 1) = 1 /\ 2 - 1 = 1
    BY <1>3, <1>5 DEF Place
  <2>2. \A j \in 0 .. 2 - 1 : j = 0 \/ j = 1
    OBVIOUS
  <2>3. \A j \in 0 .. 2 - 1 : C[Place(e, j)] = C[j]
    BY <2>1, <2>2
  <2>4. View(e) = [j \in 0 .. 2 - 1 |-> C[j]]
    BY <2>3, <1>3 DEF View
  <2>5. QED BY <2>1, <2>4
<1>7. Ring(C, 2, 2, t) => RingShape(e, t)
  BY <1>3, <1>6 DEF RingShape
<1>8. C[0].nmemb = 0 \/ C[1].nmemb = 0 => ~Sound(e)
  BY <1>3, EmptyBreaks
<1>9. QED BY <1>3, <1>4, <1>7, <1>8 DEF e

(* What a push past an empty single block leaves.                           *)
GrewPastEmpty(d, e, t) ==
  d.block_count = 1 /\ d.nmemb = 0 /\ e.block_count = 2 /\ Loose(e, t) /\ ~Sound(e)

(* The facts about a deque of one block that its operations need.           *)
LEMMA OneFacts ==
  ASSUME client \in Clients, NEW d, NEW s, OneShape(d, s)
  PROVE  /\ d = Made(d.blocks, 1, d.capacity, d.front, d.back, Len(s))
         /\ d.capacity \in Caps /\ d.capacity \in Nat \ {0} /\ 0 \in 0 .. d.capacity - 1
         /\ d.blocks \in [0 .. d.capacity - 1 -> Entry] /\ d.back \in Nat
         /\ d.block_count = 1 /\ d.nmemb = Len(s)
         /\ s \in Seq(Values) /\ Len(s) \in Nat
         /\ Single(d.blocks[0], d.front, s)
         /\ d.blocks[0].array \in Arr /\ d.blocks[0].nmemb = Len(s)
         /\ d.front \in Nat /\ d.front + Len(s) <= arr_cap
         /\ d.back = Dec(d.front + Len(s))
         /\ \A b \in 1 .. d.capacity - 1 : d.blocks[b].array = NULL
<1>1. Well(d) /\ d.block_count = 1 /\ d.nmemb = Len(s) /\ Single(d.blocks[0], d.front, s)
  BY DEF OneShape
<1>2. d.capacity \in Nat \ {0}
  BY <1>1, WellIsDeque
<1>3. 0 \in 0 .. d.capacity - 1
  BY <1>2
<1>4. s \in Seq(Values) /\ d.blocks[0].array \in Arr /\ d.blocks[0].nmemb = Len(s)
      /\ d.front \in Nat /\ d.front + Len(s) <= arr_cap
  BY <1>1 DEF Single
<1>5. Len(s) \in Nat
  BY <1>4
<1>6. QED BY <1>1, <1>2, <1>3, <1>4, <1>5 DEF OneShape, Well

LEMMA OnePushFront ==
  ASSUME client \in Clients, NEW d, NEW s, OneShape(d, s), Len(s) < MaxItems, NEW v \in Values
  PROVE  LET e == deque_push_front(d, v)
             t == <<v>> \o s
         IN  Shape(e, t) \/ GrewPastEmpty(d, e, t)
<1> DEFINE e == deque_push_front(d, v)
           t == <<v>> \o s
           B == d.blocks
           cap == d.capacity
           f == d.front
           bk == d.back
           m == Len(s)
<1>1. /\ d = Made(B, 1, cap, f, bk, m)
      /\ cap \in Caps /\ cap \in Nat \ {0} /\ 0 \in 0 .. cap - 1 /\ B \in [0 .. cap - 1 -> Entry]
      /\ bk \in Nat /\ d.block_count = 1 /\ s \in Seq(Values) /\ m \in Nat /\ d.nmemb = m
      /\ Single(B[0], f, s) /\ B[0].array \in Arr /\ B[0].nmemb = m
      /\ f \in Nat /\ f + m <= arr_cap /\ bk = Dec(f + m)
      /\ \A b \in 1 .. cap - 1 : B[b].array = NULL
  BY OneFacts
<1>2. arr_cap \in Nat /\ arr_cap >= 2 /\ MaxItems \in Nat /\ MaxItems < SizeMod
      /\ arr_cap < SizeMod
  BY Sizes
<1>3. Inc(m) = m + 1 /\ Inc(0) = 1 /\ m + 1 \in Nat
  <2>1. m + 1 < SizeMod /\ 0 + 1 < SizeMod
    <3>1. m < MaxItems /\ m \in Nat
      BY <1>1
    <3>2. SizeMod \in Nat
      BY Sizes
    <3> HIDE DEF m
    <3>3. QED BY <3>1, <3>2, <1>2
  <2>2. Inc(m) = m + 1 /\ Inc(0) = 0 + 1
    BY <2>1, <1>1, IncDec
  <2>3. QED BY <2>2, <1>1
<1>4. t \in Seq(Values) /\ Len(t) = m + 1
  BY <1>1, Ends
<1>5. e = Counted(push_front_single(d, v))
  BY <1>1 DEF deque_push_front
<1> HIDE DEF e, t, B, cap, f, bk, m
<1>6. CASE f # 0
  <2> DEFINE w == With(B[0], f - 1, v, m + 1)
             C == Put(B, 0, w)
  <2>1. f - 1 \in 0 .. arr_cap - 1 /\ f - 1 \in Nat /\ f \in Nat \ {0} /\ f < SizeMod
    <3>1. f \in Nat /\ m \in Nat /\ f + m <= arr_cap
      BY <1>1
    <3>2. SizeMod \in Nat
      BY Sizes
    <3>3. QED BY <3>1, <3>2, <1>2, <1>6
  <2>2. Dec(f) = f - 1
    BY <2>1, IncDec
  <2>3. push_front_single(d, v)
          = Store([Made(B, 1, cap, f - 1, bk, m) EXCEPT !.blocks[0].nmemb = m + 1], 0, f - 1, v)
    <3>1. has_space_at_front(d.front) /\ d.front = f
      BY <1>6 DEF has_space_at_front, f
    <3>2. [d EXCEPT !.front = Dec(@)] = Made(B, 1, cap, f - 1, bk, m)
      BY <1>1, <2>2 DEF Made
    <3>3. Made(B, 1, cap, f - 1, bk, m).front = f - 1
          /\ Made(B, 1, cap, f - 1, bk, m).blocks[0].nmemb = m
      BY <1>1 DEF Made
    <3>4. QED BY <3>1, <3>2, <3>3, <1>3 DEF push_front_single
  <2>4. push_front_single(d, v) = Made(C, 1, cap, f - 1, bk, m)
    <3>1. B \in Blocks(cap) /\ 0 \in Index(cap) /\ f - 1 \in Index(arr_cap)
      BY <2>1, <1>1 DEF Blocks, Index
    <3>2. IsPut(B, 1, cap, f - 1, bk, m, 0, f - 1, v, m + 1)
      BY <3>1, <1>1, <1>3, PutIs, Zenon
    <3>3. QED BY <3>2, <2>3 DEF IsPut
  <2>5. Single(w, f - 1, t)
    <3>1. f > 0 /\ B[0].nmemb + 1 = m + 1
      BY <1>1, <1>6
    <3>2. Single(With(B[0], f - 1, v, B[0].nmemb + 1), f - 1, t)
      BY <3>1, <1>1, SinglePush DEF t
    <3>3. QED BY <3>1, <3>2
  <2>6. w \in Entry
    BY <2>5 DEF Single
  <2> HIDE DEF w
  <2>7. C \in [0 .. cap - 1 -> Entry] /\ C[0] = w /\ \A b \in 1 .. cap - 1 : C[b] = B[b]
    BY <2>6, <1>1 DEF Put
  <2> HIDE DEF C
  <2>8. e = Made(C, 1, cap, f - 1, bk, m + 1)
    <3>1. 1 \in Nat /\ m < MaxItems /\ C \in Blocks(cap)
      BY <2>7 DEF m, Blocks, Index
    <3>2. IsCounted(C, 1, cap, f - 1, bk, m)
      BY <3>1, <2>1, <1>1, CountedIs, Zenon
    <3>3. QED BY <3>2, <2>4, <1>5 DEF IsCounted
  <2>9. /\ Well(e) /\ e.blocks = C /\ e.block_count = 1 /\ e.capacity = cap
        /\ e.front = f - 1 /\ e.back = bk /\ e.nmemb = m + 1
    <3>1. 1 \in Nat /\ C \in Blocks(cap)
      BY <2>7 DEF Blocks, Index
    <3>2. Is(e, C, 1, cap, f - 1, bk, m + 1)
      BY <3>1, <2>1, <2>8, <1>1, <1>3, MadeWell, Zenon
    <3>3. QED BY <3>2, Zenon DEF Is
  <2>10. (f - 1) + Len(t) = f + m
    BY <1>1, <1>4
  <2>11. OneShape(e, t)
    BY <2>5, <2>7, <2>9, <2>10, <1>1, <1>4 DEF OneShape
  <2>12. QED BY <2>11 DEF Shape, e, t
<1>7. CASE f = 0
  <2> DEFINE N == [b \in {0, 1} |-> IF b = 0 THEN NewBlock ELSE B[0]]
             w == With(NewBlock, arr_cap - 1, v, 1)
             C == Put(N, 0, w)
  <2>1. resize_from_single(d, 0) = Made(N, 2, 2, 0, 1, m)
    <3>1. d.blocks = B /\ d.block_count + 1 = 2
      BY <1>1 DEF B
    <3>2. resize_from_single(d, 0)
            = [d EXCEPT !.blocks = N, !.capacity = 2, !.block_count = 2, !.front = 0, !.back = 1]
      BY <3>1, Zenon DEF resize_from_single
    <3> HIDE DEF N
    <3>3. QED BY <3>2, <1>1 DEF Made
  <2>2. N \in [0 .. 2 - 1 -> Entry] /\ N[0] = NewBlock /\ N[1] = B[0]
    <3>1. 0 .. 2 - 1 = {0, 1}
      OBVIOUS
    <3>2. QED BY <3>1, <1>1, NewFacts
  <2> HIDE DEF N
  <2>3. push_front_single(d, v)
          = Store([Made(N, 2, 2, 0, 1, m) EXCEPT !.blocks[0].nmemb = 1], 0, arr_cap - 1, v)
    <3>1. ~has_space_at_front(d.front)
      BY <1>7 DEF has_space_at_front, f
    <3>2. Made(N, 2, 2, 0, 1, m).blocks[0].nmemb = 0
      BY <2>2, NewFacts DEF Made
    <3>3. QED BY <3>1, <3>2, <2>1, <1>3 DEF push_front_single
  <2>4. 2 \in Caps /\ MaxItems > 0
    <3>1. MaxItems > 0
      BY <1>1, <1>2 DEF m
    <3>2. 2 ^ 0 = 1 /\ 2 ^ (0 + 1) = 2 * 2 ^ 0
      BY Doubling
    <3>3. 0 + 1 = 1 /\ 1 \in 0 .. MaxItems
      BY <3>1, <1>2
    <3>4. 2 ^ 1 = 2
      BY <3>2, <3>3
    <3>5. QED BY <3>1, <3>3, <3>4 DEF Caps
  <2>5. push_front_single(d, v) = Made(C, 2, 2, 0, 1, m)
    <3>1. N[0].array \in Arr /\ 0 \in Index(2) /\ 1 \in Nat /\ N \in Blocks(2)
          /\ arr_cap - 1 \in Index(arr_cap)
      BY <2>2, <1>2, NewFacts DEF Index, Blocks
    <3>2. IsPut(N, 2, 2, 0, 1, m, 0, arr_cap - 1, v, 1)
      BY <3>1, <2>4, PutIs, Zenon
    <3>3. QED BY <3>2, <2>2, <2>3 DEF IsPut
  <2>6. w \in Entry
    <3>1. arr_cap - 1 \in 0 .. arr_cap - 1 /\ 1 \in Nat
      BY <1>2
    <3>2. IsWith(w, NewBlock, arr_cap - 1, v, 1)
      BY <3>1, <1>2, NewFacts, WithFacts
    <3>3. QED BY <3>2 DEF IsWith
  <2>7. C \in [0 .. 2 - 1 -> Entry] /\ C[0] = w /\ C[1] = B[0]
    <3> HIDE DEF w
    <3>1. QED BY <2>2, <2>6 DEF Put
  <2> HIDE DEF C
  <2>8. e = Made(C, 2, 2, 0, 1, Len(t))
    <3>1. 0 \in Nat /\ 1 \in Nat /\ 2 \in Nat /\ m < MaxItems /\ C \in Blocks(2)
      BY <2>7 DEF m, Blocks, Index
    <3>2. IsCounted(C, 2, 2, 0, 1, m)
      BY <3>1, <2>4, <1>1, CountedIs, Zenon
    <3>3. QED BY <3>2, <2>5, <1>4, <1>5 DEF IsCounted
  <2>9. /\ Loose(e, t) /\ e.block_count = 2
        /\ Ring(C, 2, 2, t) => RingShape(e, t)
        /\ C[0].nmemb = 0 \/ C[1].nmemb = 0 => ~Sound(e)
    BY <2>4, <2>7, <2>8, <1>4, Two
  <2>10. CASE m = 0
    <3>1. C[1].nmemb = 0
      BY <2>7, <2>10, <1>1
    <3>2. GrewPastEmpty(d, e, t)
      BY <3>1, <2>9, <2>10, <1>1 DEF GrewPastEmpty
    <3>3. QED BY <3>2 DEF e, t
  <2>11. CASE m # 0
    <3>1. Len(s) > 0
      BY <2>11, <1>1 DEF m
    <3>2. Ring(C, 2, 2, t)
      BY <3>1, <2>7, <1>1, <1>7, SingleNewFront DEF t
    <3>3. Shape(e, t)
      BY <3>2, <2>9 DEF Shape
    <3>4. QED BY <3>3 DEF e, t
  <2>12. QED BY <2>10, <2>11
<1>8. QED BY <1>6, <1>7

LEMMA OnePushBack ==
  ASSUME client \in Clients, NEW d, NEW s, OneShape(d, s), Len(s) < MaxItems, NEW v \in Values
  PROVE  LET e == deque_push_back(d, v)
             t == Append(s, v)
         IN  Shape(e, t) \/ GrewPastEmpty(d, e, t)
<1> DEFINE e == deque_push_back(d, v)
           t == Append(s, v)
           B == d.blocks
           cap == d.capacity
           f == d.front
           bk == d.back
           m == Len(s)
<1>1. /\ d = Made(B, 1, cap, f, bk, m)
      /\ cap \in Caps /\ cap \in Nat \ {0} /\ 0 \in 0 .. cap - 1 /\ B \in [0 .. cap - 1 -> Entry]
      /\ bk \in Nat /\ d.block_count = 1 /\ s \in Seq(Values) /\ m \in Nat /\ d.nmemb = m
      /\ Single(B[0], f, s) /\ B[0].array \in Arr /\ B[0].nmemb = m
      /\ f \in Nat /\ f + m <= arr_cap /\ bk = Dec(f + m)
      /\ \A b \in 1 .. cap - 1 : B[b].array = NULL
  BY OneFacts
<1>2. arr_cap \in Nat /\ arr_cap >= 2 /\ MaxItems \in Nat /\ MaxItems < SizeMod
      /\ arr_cap < SizeMod /\ SizeMod \in Nat
  BY Sizes
<1>3. Inc(m) = m + 1 /\ Inc(0) = 1 /\ m + 1 \in Nat
  <2>1. m + 1 < SizeMod /\ 0 + 1 < SizeMod
    <3>1. m < MaxItems /\ m \in Nat
      BY <1>1
    <3> HIDE DEF m
    <3>2. QED BY <3>1, <1>2
  <2>2. Inc(m) = m + 1 /\ Inc(0) = 0 + 1
    BY <2>1, <1>1, IncDec
  <2>3. QED BY <2>2, <1>1
<1>4. t \in Seq(Values) /\ Len(t) = m + 1
  BY <1>1, Ends
<1>5. e = Counted(push_back_single(d, v))
  BY <1>1 DEF deque_push_back
<1> HIDE DEF e, t, B, cap, f, bk, m
<1>6. ASSUME f + m # 0
      PROVE  bk = (f + m) - 1 /\ Inc(bk) = f + m
  <2>1. f + m \in Nat \ {0} /\ f + m < SizeMod /\ (f + m) - 1 \in Nat
        /\ ((f + m) - 1) + 1 = f + m
    <3>1. f \in Nat /\ m \in Nat /\ f + m <= arr_cap
      BY <1>1
    <3>2. QED BY <3>1, <1>2, <1>6
  <2>2. Dec(f + m) = (f + m) - 1
    BY <2>1, IncDec
  <2>3. Inc((f + m) - 1) = ((f + m) - 1) + 1
    BY <2>1, IncDec
  <2>4. bk = (f + m) - 1
    BY <2>2, <1>1
  <2>5. Inc(bk) = f + m
    BY <2>1, <2>3, <2>4, Zenon
  <2>6. QED BY <2>4, <2>5
<1>7. CASE f + m # 0 /\ f + m < arr_cap
  <2> DEFINE g == f + m
             w == With(B[0], g, v, m + 1)
             C == Put(B, 0, w)
  <2>1. g \in 0 .. arr_cap - 1 /\ g \in Nat
    <3>1. f \in Nat /\ m \in Nat
      BY <1>1
    <3>2. QED BY <3>1, <1>2, <1>7
  <2>2. bk < arr_cap - 1 /\ Inc(bk) = g
    <3>1. bk = g - 1 /\ g < arr_cap
      BY <1>6, <1>7
    <3> HIDE DEF g
    <3>2. bk < arr_cap - 1
      BY <3>1, <2>1, <1>2
    <3>3. QED BY <3>2, <1>6, <1>7 DEF g
  <2>3. Single(w, f, t)
    <3>1. f + Len(s) < arr_cap /\ B[0].nmemb + 1 = m + 1
      BY <1>1, <1>7 DEF m
    <3>2. Single(With(B[0], f + Len(s), v, B[0].nmemb + 1), f, Append(s, v))
      BY <3>1, <1>1, SinglePush
    <3>3. QED BY <3>1, <3>2 DEF t, m
  <2>4. Dec(f + Len(t)) = g
    <3>1. f + Len(t) = g + 1
      <4>1. f \in Nat /\ m \in Nat
        BY <1>1
      <4>2. QED BY <4>1, <1>4
    <3> HIDE DEF g
    <3>2. g + 1 \in Nat \ {0} /\ g + 1 < SizeMod /\ (g + 1) - 1 = g
      BY <2>1, <1>2
    <3>3. Dec(g + 1) = (g + 1) - 1
      BY <3>2, IncDec
    <3>4. QED BY <3>1, <3>2, <3>3
  <2> HIDE DEF g
  <2>5. push_back_single(d, v)
          = Store([Made(B, 1, cap, f, g, m) EXCEPT !.blocks[0].nmemb = m + 1], 0, g, v)
    <3>1. has_space_at_back(d.back)
      BY <2>2 DEF has_space_at_back, bk
    <3>2. [d EXCEPT !.back = Inc(@)] = Made(B, 1, cap, f, g, m)
      BY SMTT(30), <1>1, <2>2 DEF Made
    <3>3. Made(B, 1, cap, f, g, m).back = g
          /\ Made(B, 1, cap, f, g, m).blocks[0].nmemb = m
      BY <1>1 DEF Made
    <3>4. QED BY <3>1, <3>2, <3>3, <1>3 DEF push_back_single
  <2>6. push_back_single(d, v) = Made(C, 1, cap, f, g, m)
    <3>1. B \in Blocks(cap) /\ 0 \in Index(cap) /\ g \in Index(arr_cap)
      BY <2>1, <1>1 DEF Blocks, Index
    <3>2. IsPut(B, 1, cap, f, g, m, 0, g, v, m + 1)
      BY <3>1, <1>1, <1>3, PutIs, Zenon
    <3>3. QED BY <3>2, <2>5 DEF IsPut
  <2>7. w \in Entry
    BY <2>3 DEF Single
  <2> HIDE DEF w
  <2>8. C \in [0 .. cap - 1 -> Entry] /\ C[0] = w /\ \A b \in 1 .. cap - 1 : C[b] = B[b]
    BY <2>7, <1>1 DEF Put
  <2> HIDE DEF C
  <2>9. e = Made(C, 1, cap, f, g, m + 1)
    <3>1. 1 \in Nat /\ m < MaxItems /\ C \in Blocks(cap)
      BY <2>8 DEF m, Blocks, Index
    <3>2. IsCounted(C, 1, cap, f, g, m)
      BY <3>1, <2>1, <1>1, CountedIs, Zenon
    <3>3. QED BY <3>2, <2>6, <1>5 DEF IsCounted
  <2>10. /\ Well(e) /\ e.blocks = C /\ e.block_count = 1 /\ e.capacity = cap
         /\ e.front = f /\ e.back = g /\ e.nmemb = m + 1
    <3>1. 1 \in Nat /\ C \in Blocks(cap)
      BY <2>8 DEF Blocks, Index
    <3>2. Is(e, C, 1, cap, f, g, m + 1)
      BY <3>1, <2>1, <2>9, <1>1, <1>3, MadeWell, Zenon
    <3>3. QED BY <3>2, Zenon DEF Is
  <2>11. OneShape(e, t)
    BY <2>3, <2>4, <2>8, <2>10, <1>1, <1>4 DEF OneShape
  <2>12. QED BY <2>11 DEF Shape, e, t
<1>8. CASE f + m = 0 \/ f + m = arr_cap
  <2> DEFINE N == [b \in {0, 1} |-> IF b = 1 THEN NewBlock ELSE B[0]]
             w == With(NewBlock, 0, v, 1)
             C == Put(N, 1, w)
  <2>1. resize_from_single(d, 1) = Made(N, 2, 2, 0, 1, m)
    <3>1. d.blocks = B /\ d.block_count + 1 = 2
      BY <1>1 DEF B
    <3>2. resize_from_single(d, 1)
            = [d EXCEPT !.blocks = N, !.capacity = 2, !.block_count = 2, !.front = 0, !.back = 1]
      BY <3>1, Zenon DEF resize_from_single
    <3> HIDE DEF N
    <3>3. QED BY <3>2, <1>1 DEF Made
  <2>2. N \in [0 .. 2 - 1 -> Entry] /\ N[1] = NewBlock /\ N[0] = B[0]
    <3>1. 0 .. 2 - 1 = {0, 1}
      OBVIOUS
    <3>2. QED BY <3>1, <1>1, NewFacts
  <2> HIDE DEF N
  <2>3. ~(bk < arr_cap - 1)
    <3>1. CASE f + m = 0
      <4>1. bk = SizeMod - 1
        BY <3>1, <1>1, IncDec
      <4>2. QED BY <4>1, <1>2
    <3>2. CASE f + m = arr_cap
      <4>1. bk = arr_cap - 1
        BY <3>2, <1>2, <1>6
      <4>2. QED BY <4>1, <1>2
    <3>3. QED BY <3>1, <3>2, <1>8
  <2>4. push_back_single(d, v)
          = Store([Made(N, 2, 2, 0, 1, m) EXCEPT !.blocks[1].nmemb = 1], 1, 0, v)
    <3>1. ~has_space_at_back(d.back)
      BY <2>3 DEF has_space_at_back, bk
    <3>2. Made(N, 2, 2, 0, 1, m).blocks[1].nmemb = 0
      BY <2>2, NewFacts DEF Made
    <3>3. QED BY <3>1, <3>2, <2>1, <1>3 DEF push_back_single
  <2>5. 2 \in Caps /\ MaxItems > 0
    <3>1. MaxItems > 0
      BY <1>1, <1>2 DEF m
    <3>2. 2 ^ 0 = 1 /\ 2 ^ (0 + 1) = 2 * 2 ^ 0
      BY Doubling
    <3>3. 0 + 1 = 1 /\ 1 \in 0 .. MaxItems
      BY <3>1, <1>2
    <3>4. 2 ^ 1 = 2
      BY <3>2, <3>3
    <3>5. QED BY <3>1, <3>3, <3>4 DEF Caps
  <2>6. push_back_single(d, v) = Made(C, 2, 2, 0, 1, m)
    <3>1. N[1].array \in Arr /\ 1 \in Index(2) /\ 1 \in Nat /\ N \in Blocks(2)
          /\ 0 \in Index(arr_cap)
      BY <2>2, <1>2, NewFacts DEF Index, Blocks
    <3>2. IsPut(N, 2, 2, 0, 1, m, 1, 0, v, 1)
      BY <3>1, <2>5, PutIs, Zenon
    <3>3. QED BY <3>2, <2>2, <2>4 DEF IsPut
  <2>7. w \in Entry
    <3>1. 0 \in 0 .. arr_cap - 1 /\ 1 \in Nat
      BY <1>2
    <3>2. IsWith(w, NewBlock, 0, v, 1)
      BY <3>1, <1>2, NewFacts, WithFacts
    <3>3. QED BY <3>2 DEF IsWith
  <2>8. C \in [0 .. 2 - 1 -> Entry] /\ C[1] = w /\ C[0] = B[0]
    <3> HIDE DEF w
    <3>1. QED BY <2>2, <2>7 DEF Put
  <2> HIDE DEF C
  <2>9. e = Made(C, 2, 2, 0, 1, Len(t))
    <3>1. 0 \in Nat /\ 1 \in Nat /\ 2 \in Nat /\ m < MaxItems /\ C \in Blocks(2)
      BY <2>8 DEF m, Blocks, Index
    <3>2. IsCounted(C, 2, 2, 0, 1, m)
      BY <3>1, <2>5, <1>1, CountedIs, Zenon
    <3>3. QED BY <3>2, <2>6, <1>4, <1>5 DEF IsCounted
  <2>10. /\ Loose(e, t) /\ e.block_count = 2
         /\ Ring(C, 2, 2, t) => RingShape(e, t)
         /\ C[0].nmemb = 0 \/ C[1].nmemb = 0 => ~Sound(e)
    BY <2>5, <2>8, <2>9, <1>4, Two
  <2>11. CASE m = 0
    <3>1. C[0].nmemb = 0
      BY <2>8, <2>11, <1>1
    <3>2. GrewPastEmpty(d, e, t)
      BY <3>1, <2>10, <2>11, <1>1 DEF GrewPastEmpty
    <3>3. QED BY <3>2 DEF e, t
  <2>12. CASE m # 0
    <3>1. Len(s) > 0 /\ f + Len(s) = arr_cap
      <4>1. m \in Nat /\ f \in Nat
        BY <1>1
      <4>2. m > 0 /\ f + m = arr_cap
        BY <4>1, <2>12, <1>8
      <4>3. QED BY <4>2 DEF m
    <3>2. Ring(C, 2, 2, t)
      BY <3>1, <2>8, <1>1, SingleNewBack DEF t
    <3>3. Shape(e, t)
      BY <3>2, <2>10 DEF Shape
    <3>4. QED BY <3>3 DEF e, t
  <2>13. QED BY <2>11, <2>12
<1>9. f + m = 0 \/ f + m = arr_cap \/ (f + m # 0 /\ f + m < arr_cap)
  <2>1. f \in Nat /\ m \in Nat /\ f + m <= arr_cap
    BY <1>1
  <2>2. QED BY <2>1, <1>2
<1>10. QED BY <1>7, <1>8, <1>9

(* A pop from block b: the object and the block count one less.             *)
Less(x) == [array |-> x.array, nmemb |-> x.nmemb - 1]

Took(blocks, n, cap, f, bk, m, b) == Made(Put(blocks, b, Less(blocks[b])), n, cap, f, bk, m - 1)

IsTaken(blocks, n, cap, f, bk, m, b) ==
  [Made(blocks, n, cap, f, bk, m) EXCEPT !.nmemb = Dec(@), !.blocks[b].nmemb = Dec(@)]
    = Took(blocks, n, cap, f, bk, m, b)

LEMMA TakenIs ==
  ASSUME client \in Clients, NEW cap \in Caps, NEW blocks \in Blocks(cap),
         NEW n, NEW f, NEW bk, NEW m \in Nat \ {0}, m < SizeMod,
         NEW b \in Index(cap), blocks[b].nmemb # 0, blocks[b].nmemb < SizeMod
  PROVE  IsTaken(blocks, n, cap, f, bk, m, b)
<1> DEFINE k == blocks[b].nmemb
           D == Made(blocks, n, cap, f, bk, m)
<1>1. blocks[b] \in Entry
  BY DEF Blocks
<1>2. k \in Nat \ {0} /\ k < SizeMod
  BY <1>1 DEF Entry
<1>3. Dec(m) = m - 1 /\ Dec(k) = k - 1
  BY <1>2, IncDec
<1>4. [blocks[b] EXCEPT !.nmemb = k - 1] = Less(blocks[b])
  BY <1>1 DEF Entry, Less
<1>5. [blocks EXCEPT ![b].nmemb = k - 1] = Put(blocks, b, Less(blocks[b]))
  <2>1. [blocks EXCEPT ![b].nmemb = k - 1] = [blocks EXCEPT ![b] = [blocks[b] EXCEPT !.nmemb = k - 1]]
    BY DEF Blocks
  <2>2. QED BY <2>1, <1>4 DEF Put
<1>6. D.nmemb = m /\ D.blocks = blocks
  BY DEF Made
<1>7. [D EXCEPT !.nmemb = Dec(@), !.blocks[b].nmemb = Dec(@)]
        = [D EXCEPT !.nmemb = m - 1, !.blocks[b].nmemb = k - 1]
  BY <1>3, <1>6
<1>8. [D EXCEPT !.nmemb = m - 1, !.blocks[b].nmemb = k - 1]
        = [D EXCEPT !.nmemb = m - 1, !.blocks = [blocks EXCEPT ![b].nmemb = k - 1]]
  BY <1>6 DEF Made
<1>9. [D EXCEPT !.nmemb = m - 1, !.blocks = Put(blocks, b, Less(blocks[b]))]
        = Took(blocks, n, cap, f, bk, m, b)
  <2> DEFINE X == Put(blocks, b, Less(blocks[b]))
             y == m - 1
  <2> HIDE DEF X, y
  <2>1. [D EXCEPT !.nmemb = y] = Made(blocks, n, cap, f, bk, y)
    BY DEF Made
  <2>2. [Made(blocks, n, cap, f, bk, y) EXCEPT !.blocks = X] = Made(X, n, cap, f, bk, y)
    BY DEF Made
  <2>3. [D EXCEPT !.nmemb = y, !.blocks = X] = Made(X, n, cap, f, bk, y)
    BY <2>1, <2>2
  <2>4. QED BY <2>3 DEF X, y, Took
<1>10. QED BY <1>5, <1>7, <1>8, <1>9 DEF IsTaken

LEMMA OnePop ==
  ASSUME client \in Clients, NEW d, NEW s, OneShape(d, s), Len(s) > 0, Len(s) <= MaxItems
  PROVE  OneShape(deque_pop_front(d), Tail(s)) /\ OneShape(deque_pop_back(d), Front(s))
<1> DEFINE B == d.blocks
           cap == d.capacity
           f == d.front
           bk == d.back
           m == Len(s)
           C == Put(B, 0, Less(B[0]))
           u == [d EXCEPT !.nmemb = Dec(@), !.blocks[0].nmemb = Dec(@)]
           p == deque_pop_front(d)
           q == deque_pop_back(d)
<1>1. /\ d = Made(B, 1, cap, f, bk, m)
      /\ cap \in Caps /\ cap \in Nat \ {0} /\ 0 \in 0 .. cap - 1 /\ B \in [0 .. cap - 1 -> Entry]
      /\ bk \in Nat /\ d.block_count = 1 /\ s \in Seq(Values) /\ m \in Nat /\ d.nmemb = m
      /\ Single(B[0], f, s) /\ B[0].array \in Arr /\ B[0].nmemb = m
      /\ f \in Nat /\ f + m <= arr_cap /\ bk = Dec(f + m)
      /\ \A b \in 1 .. cap - 1 : B[b].array = NULL
  BY OneFacts
<1>2. arr_cap \in Nat /\ arr_cap >= 2 /\ MaxItems \in Nat /\ MaxItems < SizeMod
      /\ arr_cap < SizeMod /\ SizeMod \in Nat
  BY Sizes
<1>3. /\ m \in Nat \ {0} /\ m < SizeMod /\ m - 1 \in Nat
      /\ f + m \in Nat \ {0} /\ f + m < SizeMod /\ (f + m) - 1 \in Nat
      /\ (f + 1) + (m - 1) = f + m /\ f + (m - 1) = (f + m) - 1
      /\ f + 1 \in Nat /\ f + 1 < SizeMod /\ (f + m) - 1 < SizeMod
  <2>1. m \in Nat /\ f \in Nat /\ f + m <= arr_cap
    BY <1>1
  <2>2. m > 0 /\ m <= MaxItems
    BY DEF m
  <2> HIDE DEF m, f
  <2>3. QED BY <2>1, <2>2, <1>2
<1>4. Tail(s) \in Seq(Values) /\ Len(Tail(s)) = m - 1 /\ Front(s) \in Seq(Values) /\ Len(Front(s)) = m - 1
  BY <1>1, Popped
<1> HIDE DEF B, cap, f, bk, m, p, q
<1>5. u = Made(C, 1, cap, f, bk, m - 1)
  <2>1. B \in Blocks(cap) /\ 0 \in Index(cap)
    BY <1>1 DEF Blocks, Index
  <2>2. IsTaken(B, 1, cap, f, bk, m, 0)
    <3>1. B[0].nmemb # 0 /\ B[0].nmemb < SizeMod
      BY <1>1, <1>3
    <3>2. QED BY <2>1, <3>1, <1>1, <1>3, TakenIs
  <2>3. QED BY <2>2, <1>1 DEF IsTaken, Took
<1>6. Less(B[0]) \in Entry /\ Less(B[0]).array = B[0].array /\ Less(B[0]).nmemb = B[0].nmemb - 1
  BY <1>1, <1>3 DEF Less, Entry
<1>7. C \in [0 .. cap - 1 -> Entry] /\ C[0] = Less(B[0]) /\ \A b \in 1 .. cap - 1 : C[b] = B[b]
  BY <1>1, <1>6 DEF Put
<1>8. Single(C[0], f + 1, Tail(s)) /\ Single(C[0], f, Front(s))
  BY <1>1, <1>6, <1>7, SinglePop
<1>9. bk = (f + m) - 1 /\ Dec(bk) = Dec(f + (m - 1)) /\ Dec(bk) \in Nat
  <2>1. bk = (f + m) - 1
    <3>1. Dec(f + m) = (f + m) - 1
      BY <1>3, IncDec
    <3>2. QED BY <3>1, <1>1
  <2>2. Dec(bk) \in Nat
    <3>1. SizeMod \in Nat \ {0} /\ bk - 1 \in Int
      BY <1>1, Sizes
    <3>2. QED BY <3>1 DEF Dec
  <2>3. QED BY <2>1, <2>2, <1>3
<1>10. C \in Blocks(cap) /\ 1 \in Nat
  BY <1>7 DEF Blocks, Index
<1>11. p = Made(C, 1, cap, f + 1, bk, m - 1)
  <2>1. p = [u EXCEPT !.front = Inc(@)]
    <3>1. ~(d.block_count > 1) /\ (IF d.block_count > 1 THEN d.front ELSE 0) = 0
      BY <1>1
    <3>2. QED BY <3>1, Zenon DEF deque_pop_front, p
  <2>2. Inc(f) = f + 1
    BY <1>1, <1>3, IncDec
  <2> HIDE DEF C, u
  <2>3. QED BY <2>1, <2>2, <1>5 DEF Made
<1>12. q = Made(C, 1, cap, f, Dec(bk), m - 1)
  <2>1. q = [u EXCEPT !.back = Dec(@)]
    <3>1. ~(d.block_count > 1) /\ (IF d.block_count > 1 THEN d.back ELSE 0) = 0
      BY <1>1
    <3>2. QED BY <3>1, Zenon DEF deque_pop_back, q
  <2> HIDE DEF C, u
  <2>2. QED BY <2>1, <1>5 DEF Made
<1> HIDE DEF C, u
<1>13. OneShape(p, Tail(s))
  <2>1. Is(p, C, 1, cap, f + 1, bk, m - 1)
    BY <1>1, <1>3, <1>10, <1>11, MadeWell, Zenon
  <2>2. /\ Well(p) /\ p.blocks = C /\ p.block_count = 1 /\ p.capacity = cap
        /\ p.front = f + 1 /\ p.back = bk /\ p.nmemb = m - 1
    BY <2>1, Zenon DEF Is
  <2>3. p.back = Dec(p.front + Len(Tail(s)))
    BY <2>2, <1>1, <1>3, <1>4
  <2>4. QED BY <2>2, <2>3, <1>1, <1>4, <1>7, <1>8 DEF OneShape
<1>14. OneShape(q, Front(s))
  <2>1. Is(q, C, 1, cap, f, Dec(bk), m - 1)
    BY <1>1, <1>3, <1>9, <1>10, <1>12, MadeWell, Zenon
  <2>2. /\ Well(q) /\ q.blocks = C /\ q.block_count = 1 /\ q.capacity = cap
        /\ q.front = f /\ q.back = Dec(bk) /\ q.nmemb = m - 1
    BY <2>1, Zenon DEF Is
  <2>3. q.back = Dec(q.front + Len(Front(s)))
    BY <2>2, <1>4, <1>9
  <2>4. QED BY <2>2, <2>3, <1>1, <1>4, <1>7, <1>8 DEF OneShape
<1>15. QED BY <1>13, <1>14 DEF p, q

-----------------------------------------------------------------------------
(* Several blocks.                                                          *)
LEMMA ManyFacts ==
  ASSUME client \in Clients, NEW d, NEW s, RingShape(d, s)
  PROVE  LET n == d.block_count
             cap == d.capacity
         IN  /\ d = Made(d.blocks, n, cap, d.front, d.back, Len(s)) /\ Well(d)
             /\ cap \in Caps /\ cap \in Nat \ {0} /\ d.blocks \in [0 .. cap - 1 -> Entry]
             /\ n \in Nat /\ n >= 2 /\ n <= cap /\ n - 1 \in 0 .. cap - 1 /\ n # 1 /\ n > 1
             /\ d.front \in 0 .. cap - 1 /\ d.front \in Nat
             /\ d.back = Place(d, n - 1) /\ d.back \in 0 .. cap - 1 /\ d.back \in Nat
             /\ Place(d, 0) = d.front
             /\ s \in Seq(Values) /\ Len(s) \in Nat /\ Len(s) >= n /\ d.nmemb = Len(s)
             /\ View(d)[0] = d.blocks[d.front] /\ View(d)[n - 1] = d.blocks[d.back]
             /\ d.blocks[d.front].array \in Arr /\ d.blocks[d.front].nmemb \in 1 .. arr_cap
             /\ d.blocks[d.back].array \in Arr /\ d.blocks[d.back].nmemb \in 1 .. arr_cap
             /\ Ring(View(d), n, cap, s)
<1> DEFINE n == d.block_count
           cap == d.capacity
           B == View(d)
<1>1. /\ Well(d) /\ d.nmemb = Len(s) /\ d.front \in 0 .. cap - 1 /\ d.back = Place(d, n - 1)
      /\ Ring(B, n, cap, s)
  BY DEF RingShape
<1>2. /\ n \in Nat /\ n >= 2 /\ n <= cap /\ cap \in Nat /\ Len(s) \in Nat /\ Len(s) >= n
      /\ B[0].nmemb \in 1 .. arr_cap /\ B[n - 1].nmemb \in 1 .. arr_cap
      /\ B[0].array \in Arr /\ B[n - 1].array \in Arr
  <2> HIDE DEF n, cap, B
  <2>1. QED BY <1>1, RingFacts
<1>3. s \in Seq(Values)
  BY <1>1 DEF Ring
<1>4. n - 1 \in 0 .. cap - 1 /\ n # 1 /\ n > 1 /\ cap \in Nat \ {0} /\ 0 \in 0 .. cap - 1
      /\ d.front \in Nat /\ \A b \in 0 .. cap - 1 : b \in Nat
  <2> HIDE DEF n, cap
  <2>1. QED BY <1>1, <1>2
<1>5. Place(d, 0) = d.front /\ B[0] = d.blocks[d.front]
      /\ B[n - 1] = d.blocks[Place(d, n - 1)] /\ Place(d, n - 1) \in 0 .. cap - 1
  BY <1>1, <1>4, ViewFacts
<1>6. d = Made(d.blocks, n, cap, d.front, d.back, Len(s)) /\ cap \in Caps
      /\ d.blocks \in [0 .. cap - 1 -> Entry]
  BY <1>1 DEF Well
<1>7. d.back \in 0 .. cap - 1 /\ d.back \in Nat /\ B[n - 1] = d.blocks[d.back]
  BY <1>1, <1>4, <1>5
<1> HIDE DEF n, cap, B
<1>8. QED BY <1>1, <1>2, <1>3, <1>4, <1>5, <1>6, <1>7 DEF n, cap, B

(* The control array of twice the size, and the middle of it.               *)
LEMMA NextCap ==
  ASSUME client \in Clients, NEW cap \in Caps, cap < MaxItems
  PROVE  2 * cap \in Caps
<1>1. PICK e \in 0 .. MaxItems : cap = 2 ^ e
  BY DEF Caps
<1>2. MaxItems \in Nat /\ e \in Nat
  BY Sizes
<1>3. 2 ^ (e + 1) = 2 * cap
  BY <1>1, <1>2, Doubling
<1>4. \A i \in Nat : 2 ^ i \in Nat \ {0} /\ 2 ^ (i + 1) = 2 * 2 ^ i
  BY Doubling
<1>5. e < cap
  <2> DEFINE S == {i \in Nat : i < 2 ^ i}
  <2>1. 0 \in S
    <3>1. 2 ^ 0 \in Nat \ {0}
      BY <1>4
    <3>2. QED BY <3>1
  <2>2. ASSUME NEW i \in 0 .. e - 1, i \in S PROVE i + 1 \in S
    <3>1. i \in Nat /\ i < 2 ^ i
      BY <2>2
    <3>2. 2 ^ i \in Nat \ {0} /\ 2 ^ (i + 1) = 2 * 2 ^ i
      BY <3>1, <1>4
    <3>3. i + 1 < 2 ^ (i + 1)
      <4> DEFINE x == 2 ^ i
                 y == 2 ^ (i + 1)
      <4>1. x \in Nat \ {0} /\ y = 2 * x /\ i < x
        BY <3>1, <3>2
      <4> HIDE DEF x, y
      <4>2. i + 1 < y
        BY <4>1, <3>1
      <4>3. QED BY <4>2 DEF y
    <3>4. QED BY <3>1, <3>3
  <2>3. e \in 0 .. e
    BY <1>2
  <2> HIDE DEF S
  <2>4. \A i \in 0 .. e : i \in S
    BY <1>2, <2>1, <2>2, UpTo
  <2>5. e \in S
    BY <2>3, <2>4
  <2>6. QED BY <2>5, <1>1 DEF S
<1>6. e + 1 \in 0 .. MaxItems
  <2>1. cap \in Nat
    BY CapsFacts
  <2>2. QED BY <2>1, <1>2, <1>5
<1>7. QED BY <1>3, <1>6 DEF Caps

LEMMA Middle ==
  ASSUME NEW cap \in Nat, cap >= 2
  PROVE  LET big == 2 * cap
             f == (big \div 2) - (cap \div 2)
         IN  /\ big \in Nat \ {0} /\ cap < big /\ f \in 0 .. big - 1 /\ f \in Nat
             /\ f + cap - 1 \in 0 .. big - 1
             /\ \A j \in 0 .. cap - 1 : (f + j) % big = f + j /\ f + j \in f .. f + cap - 1
             /\ \A j \in cap .. big - 1 :
                  (f + j) % big \in 0 .. big - 1 /\ (f + j) % big \notin f .. f + cap - 1
<1> DEFINE big == 2 * cap
           h == cap \div 2
           f == (big \div 2) - h
<1>1. h \in Nat /\ h >= 1 /\ h <= cap
  OBVIOUS
<1>2. big \div 2 = cap
  OBVIOUS
<1>3. f = cap - h /\ big = cap + cap
  BY <1>2
<1> HIDE DEF h, big, f
<1>4. /\ big \in Nat \ {0} /\ cap < big /\ f \in Nat /\ f \in 0 .. big - 1
      /\ f + cap - 1 \in 0 .. big - 1
  BY <1>1, <1>3
<1>5. ASSUME NEW j \in 0 .. cap - 1
      PROVE  (f + j) % big = f + j /\ f + j \in f .. f + cap - 1
  <2>1. f + j \in 0 .. big - 1 /\ f + j \in f .. f + cap - 1
    BY <1>1, <1>3
  <2>2. (f + j) % big = f + j
    BY <2>1, <1>4, Wraps
  <2>3. QED BY <2>1, <2>2
<1>6. ASSUME NEW j \in cap .. big - 1
      PROVE  (f + j) % big \in 0 .. big - 1 /\ (f + j) % big \notin f .. f + cap - 1
  <2>1. j \in 0 .. big - 1
    BY <1>4
  <2>2. (f + j) % big = IF f + j < big THEN f + j ELSE f + j - big
    BY <2>1, <1>4, Around
  <2>3. QED BY <2>2, <1>1, <1>3
<1>7. QED BY <1>4, <1>5, <1>6 DEF f, h, big

LEMMA RingIsView ==
  ASSUME client \in Clients, NEW d, NEW s, RingShape(d, s), d.block_count = d.capacity
  PROVE  RingOrder(d) = View(d)
<1> DEFINE cap == d.capacity
           f == d.front
<1>1. /\ cap \in Nat \ {0} /\ f \in 0 .. cap - 1 /\ d.back = Place(d, cap - 1)
      /\ cap - 1 \in 0 .. cap - 1
  BY ManyFacts
<1>2. d.back = (f + (cap - 1)) % cap
  BY <1>1 DEF Place
<1>3. ASSUME NEW j \in 0 .. cap - 1
      PROVE  (IF f > d.back THEN (f + j) % cap ELSE j) = (f + j) % cap
  <2> HIDE DEF cap, f
  <2>1. CASE f = 0
    <3>1. j % cap = j
      BY <1>1, Wraps
    <3>2. f + j = j
      BY <2>1
    <3>3. QED BY <3>1, <3>2
  <2>2. CASE f # 0
    <3>1. (f + (cap - 1)) % cap = IF f + (cap - 1) < cap THEN f + (cap - 1) ELSE f + (cap - 1) - cap
      BY <1>1, Around
    <3>2. d.back = f - 1
      BY <3>1, <1>1, <1>2, <2>2
    <3>3. QED BY <3>2, <1>1
  <2>3. QED BY <2>1, <2>2
<1>4. RingOrder(d) = [j \in 0 .. cap - 1 |-> d.blocks[IF f > d.back THEN (f + j) % cap ELSE j]]
  BY DEF RingOrder
<1>5. View(d) = [j \in 0 .. cap - 1 |-> d.blocks[(f + j) % cap]]
  BY DEF View, Place
<1>6. QED BY <1>3, <1>4, <1>5

(* The control array grows only when the client has more elements than it   *)
(* had entries; the ring is what it was, and has room.                      *)
LEMMA Grown ==
  ASSUME client \in Clients, NEW d, NEW s, RingShape(d, s), d.block_count >= d.capacity,
         Len(s) < MaxItems
  PROVE  LET g == GrowControl(d)
             n == d.block_count
         IN  /\ RingShape(g, s) /\ g.block_count = n /\ n < g.capacity
             /\ View(g)[0] = View(d)[0] /\ View(g)[n - 1] = View(d)[n - 1]
<1> DEFINE g == GrowControl(d)
           n == d.block_count
           cap == d.capacity
           big == 2 * cap
           f == (big \div 2) - (cap \div 2)
           R == View(d)
           C == [b \in 0 .. big - 1 |-> IF b \in f .. f + cap - 1 THEN R[b - f] ELSE UnsetBlock]
           m == Len(s)
<1>1. /\ d = Made(d.blocks, n, cap, d.front, d.back, m) /\ Well(d)
      /\ cap \in Caps /\ cap \in Nat \ {0} /\ n \in Nat /\ n <= cap /\ n >= 2
      /\ n - 1 \in 0 .. cap - 1 /\ m \in Nat /\ m >= n /\ Ring(R, n, cap, s)
      /\ d.front \in 0 .. cap - 1
  BY ManyFacts
<1>2. n = cap /\ cap >= 2 /\ cap \in Nat /\ cap < MaxItems
  <2>1. n >= cap /\ m < MaxItems /\ MaxItems \in Nat
    BY Sizes
  <2> HIDE DEF n, cap, m
  <2>2. QED BY <1>1, <2>1
<1>3. big \in Caps
  BY <1>1, <1>2, NextCap
<1>4. /\ big \in Nat \ {0} /\ cap < big /\ f \in 0 .. big - 1 /\ f \in Nat
      /\ f + cap - 1 \in 0 .. big - 1
      /\ \A j \in 0 .. cap - 1 : (f + j) % big = f + j /\ f + j \in f .. f + cap - 1
      /\ \A j \in cap .. big - 1 :
           (f + j) % big \in 0 .. big - 1 /\ (f + j) % big \notin f .. f + cap - 1
  <2> HIDE DEF cap
  <2>1. QED BY <1>2, Middle
<1>5. R \in [0 .. cap - 1 -> Entry]
  BY <1>1, ViewFacts
<1>6. g = Made(C, cap, big, f, f + cap - 1, m)
  <2>1. RingOrder(d) = R
    BY <1>2, RingIsView
  <2>2. g = [d EXCEPT !.blocks = C, !.capacity = big, !.front = f, !.back = f + cap - 1]
    BY <2>1, <1>2 DEF GrowControl
  <2> DEFINE B0 == d.blocks
             f0 == d.front
             b0 == d.back
             y == f + cap - 1
  <2>3. d = Made(B0, cap, cap, f0, b0, m)
    BY <1>1, <1>2
  <2> HIDE DEF g, C, f, big, cap, n, m, R, B0, f0, b0
  <2>4. g = [d EXCEPT !.blocks = C, !.capacity = big, !.front = f, !.back = y]
    BY <2>2
  <2> HIDE DEF y
  <2>5. g = Made(C, cap, big, f, y, m)
    BY <2>3, <2>4 DEF Made
  <2>6. QED BY <2>5 DEF y
<1> HIDE DEF g, f, big, R, m, cap, n
<1>7. C \in Blocks(big)
  <2>1. \A b \in 0 .. big - 1 : b \in f .. f + cap - 1 => b - f \in 0 .. cap - 1
    BY <1>2, <1>4
  <2>2. QED BY <2>1, <1>5, NewFacts DEF Blocks, Index
<1>8. /\ Well(g) /\ g.blocks = C /\ g.block_count = cap /\ g.capacity = big /\ g.front = f
      /\ g.back = f + cap - 1 /\ g.nmemb = m
  <2>1. f + cap - 1 \in Nat
    BY <1>4
  <2>2. Is(g, C, cap, big, f, f + cap - 1, m)
    BY <2>1, <1>1, <1>2, <1>3, <1>4, <1>6, <1>7, MadeWell, Zenon
  <2>3. QED BY <2>2, Zenon DEF Is
<1>9. /\ View(g) \in [0 .. big - 1 -> Entry]
      /\ \A j \in 0 .. big - 1 : View(g)[j] = C[(f + j) % big]
  <2> HIDE DEF C
  <2>1. /\ View(g) \in [0 .. g.capacity - 1 -> Entry]
        /\ \A j \in 0 .. g.capacity - 1 : View(g)[j] = g.blocks[Place(g, j)]
    BY <1>4, <1>8, ViewFacts
  <2>2. QED BY <2>1, <1>8 DEF Place
<1>10. ASSUME NEW j \in 0 .. cap - 1 PROVE View(g)[j] = R[j]
  <2>1. /\ j \in 0 .. big - 1 /\ f + j \in 0 .. big - 1 /\ (f + j) - f = j
        /\ (f + j) % big = f + j /\ f + j \in f .. f + cap - 1
    BY <1>2, <1>4
  <2>2. C[f + j] = R[(f + j) - f]
    BY <2>1
  <2>3. QED BY <2>1, <2>2, <1>9
<1>11. ASSUME NEW j \in cap .. big - 1 PROVE View(g)[j] = UnsetBlock
  <2>1. /\ j \in 0 .. big - 1
        /\ (f + j) % big \in 0 .. big - 1 /\ (f + j) % big \notin f .. f + cap - 1
    BY <1>2, <1>4
  <2>2. C[(f + j) % big] = UnsetBlock
    BY <2>1
  <2>3. QED BY <2>1, <2>2, <1>9
<1> HIDE DEF C
<1>12. Ring(View(g), n, big, s)
  <2> DEFINE V == View(g)
  <2>1. /\ V \in [0 .. big - 1 -> Entry] /\ big \in Nat /\ cap <= big
        /\ \A j \in 0 .. n - 1 : V[j] = R[j]
        /\ \A j \in n .. big - 1 : V[j] = UnsetBlock
    BY <1>2, <1>4, <1>9, <1>10, <1>11
  <2> HIDE DEF V
  <2>2. Ring(V, n, big, s)
    BY <2>1, <1>1, RingGrow
  <2>3. QED BY <2>2 DEF V
<1>13. g.back = Place(g, n - 1)
  <2>1. (f + (cap - 1)) % big = f + (cap - 1)
    BY <1>1, <1>2, <1>4
  <2>2. QED BY <2>1, <1>2, <1>8 DEF Place
<1>14. RingShape(g, s)
  BY <1>1, <1>2, <1>4, <1>8, <1>12, <1>13 DEF RingShape, m
<1>15. 0 \in 0 .. cap - 1 /\ n - 1 \in 0 .. cap - 1
  BY <1>1, <1>2
<1>16. View(g)[0] = R[0] /\ View(g)[n - 1] = R[n - 1]
  BY <1>10, <1>15
<1>17. QED BY <1>2, <1>4, <1>8, <1>14, <1>16 DEF g, n, R, cap

Roomy(d) == IF d.block_count >= d.capacity THEN GrowControl(d) ELSE d

LEMMA RoomyFacts ==
  ASSUME client \in Clients, NEW d, NEW s, RingShape(d, s), Len(s) < MaxItems
  PROVE  LET g == Roomy(d)
             n == d.block_count
         IN  /\ RingShape(g, s) /\ g.block_count = n /\ n < g.capacity
             /\ View(g)[0] = View(d)[0] /\ View(g)[n - 1] = View(d)[n - 1]
<1>1. CASE d.block_count >= d.capacity
  BY <1>1, Grown DEF Roomy
<1>2. CASE ~(d.block_count >= d.capacity)
  <2>1. Roomy(d) = d
    BY <1>2 DEF Roomy
  <2>2. d.block_count \in Nat /\ d.capacity \in Nat
    BY ManyFacts
  <2>3. QED BY <1>2, <2>1, <2>2
<1>3. QED BY <1>1, <1>2

(* The ring after one of its entries was replaced.                          *)
IsPutView(d, e, j, x, n, bk, m) ==
  /\ Is(e, Put(d.blocks, Place(d, j), x), n, d.capacity, d.front, bk, m)
  /\ Well(e) /\ e.block_count = n /\ e.capacity = d.capacity /\ e.front = d.front
  /\ e.back = bk /\ e.nmemb = m
  /\ View(e) = [View(d) EXCEPT ![j] = x]
  /\ View(d) \in [0 .. d.capacity - 1 -> Entry]
  /\ View(e) \in [0 .. d.capacity - 1 -> Entry]
  /\ View(e)[j] = x
  /\ \A i \in 0 .. d.capacity - 1 : i # j => View(e)[i] = View(d)[i]
  /\ \A i : Place(e, i) = Place(d, i)

LEMMA PutView ==
  ASSUME client \in Clients, NEW d, Well(d), d.front \in 0 .. d.capacity - 1,
         NEW j \in 0 .. d.capacity - 1, NEW x \in Entry,
         NEW n \in Nat, NEW bk \in Nat, NEW m \in Nat,
         NEW e, e = Made(Put(d.blocks, Place(d, j), x), n, d.capacity, d.front, bk, m)
  PROVE  IsPutView(d, e, j, x, n, bk, m)
<1> DEFINE cap == d.capacity
           C == Put(d.blocks, Place(d, j), x)
<1>1. /\ View(d) \in [0 .. cap - 1 -> Entry] /\ Place(d, j) \in 0 .. cap - 1
  BY ViewFacts
<1>2. C \in Blocks(cap) /\ cap \in Caps /\ d.front \in Nat
  BY <1>1 DEF Well, Put, Blocks, Index
<1> HIDE DEF C, cap
<1>3. Is(e, C, n, cap, d.front, bk, m)
  <2>1. e = Made(C, n, cap, d.front, bk, m)
    BY DEF C, cap
  <2>2. Is(Made(C, n, cap, d.front, bk, m), C, n, cap, d.front, bk, m)
    BY <1>2, MadeWell, Zenon
  <2>3. QED BY <2>1, <2>2, Zenon
<1>4. /\ Well(e) /\ e.blocks = C /\ e.block_count = n /\ e.capacity = cap
      /\ e.front = d.front /\ e.back = bk /\ e.nmemb = m
  BY <1>3, Zenon DEF Is
<1>5. View(e) = [View(d) EXCEPT ![j] = x]
  <2>1. e.blocks = [d.blocks EXCEPT ![Place(d, j)] = x]
    BY <1>4, Zenon DEF C, Put
  <2>2. QED BY <2>1, <1>4, ViewPut DEF cap
<1>6. /\ [View(d) EXCEPT ![j] = x] \in [0 .. cap - 1 -> Entry]
      /\ [View(d) EXCEPT ![j] = x][j] = x
      /\ \A i \in 0 .. cap - 1 : i # j => [View(d) EXCEPT ![j] = x][i] = View(d)[i]
  <2> DEFINE V == View(d)
  <2>1. V \in [0 .. cap - 1 -> Entry] /\ j \in 0 .. cap - 1
    BY <1>1 DEF cap
  <2> HIDE DEF V
  <2>2. /\ [V EXCEPT ![j] = x] \in [0 .. cap - 1 -> Entry]
        /\ [V EXCEPT ![j] = x][j] = x
        /\ \A i \in 0 .. cap - 1 : i # j => [V EXCEPT ![j] = x][i] = V[i]
    BY <2>1
  <2>3. QED BY <2>2 DEF V
<1>7. \A i : Place(e, i) = Place(d, i)
  BY <1>4 DEF Place, cap
<1>8. QED BY <1>1, <1>3, <1>4, <1>5, <1>6, <1>7, Zenon DEF IsPutView, C, cap

LEMMA RingPushFrontRoom ==
  ASSUME client \in Clients, NEW d, NEW s, RingShape(d, s), Len(s) < MaxItems, NEW v \in Values,
         d.blocks[d.front].nmemb < arr_cap
  PROVE  RingShape(deque_push_front(d, v), <<v>> \o s)
<1> DEFINE e == deque_push_front(d, v)
           t == <<v>> \o s
           n == d.block_count
           cap == d.capacity
           B == d.blocks
           f == d.front
           bk == d.back
           m == Len(s)
           R == View(d)
           k == B[f].nmemb
           x == With(B[f], arr_cap - (k + 1), v, k + 1)
           C == Put(B, f, x)
<1>1. /\ d = Made(B, n, cap, f, bk, m) /\ Well(d)
      /\ cap \in Caps /\ cap \in Nat \ {0} /\ B \in [0 .. cap - 1 -> Entry]
      /\ n \in Nat /\ n # 1 /\ f \in 0 .. cap - 1 /\ f \in Nat
      /\ bk = Place(d, n - 1) /\ bk \in Nat /\ Place(d, 0) = f
      /\ s \in Seq(Values) /\ m \in Nat
      /\ R[0] = B[f] /\ B[f].array \in Arr /\ k \in 1 .. arr_cap
      /\ Ring(R, n, cap, s)
  BY ManyFacts
<1>2. arr_cap \in Nat /\ arr_cap < SizeMod /\ SizeMod \in Nat /\ k < arr_cap
  BY Sizes
<1>3. t \in Seq(Values) /\ Len(t) = m + 1 /\ m + 1 \in Nat
  BY <1>1, Ends
<1>4. e = Counted(push_front_multiple(d, v))
  BY <1>1 DEF deque_push_front
<1>5. x \in Entry
  <2>1. arr_cap - (k + 1) \in 0 .. arr_cap - 1 /\ k + 1 \in Nat
    <3> HIDE DEF k
    <3>1. QED BY <1>1, <1>2
  <2>2. IsWith(x, B[f], arr_cap - (k + 1), v, k + 1)
    <3> HIDE DEF k, B
    <3>1. QED BY <1>1, <2>1, WithFacts
  <2>3. QED BY <2>2 DEF IsWith
<1> HIDE DEF e, t, n, cap, B, f, bk, m, R, k
<1>6. /\ k + 1 \in Nat /\ k + 1 < SizeMod /\ arr_cap - (k + 1) \in 0 .. arr_cap - 1
      /\ arr_cap - (k + 1) \in 0 .. SizeMod - 1
  BY <1>1, <1>2
<1>7. Inc(k) = k + 1 /\ (arr_cap - (k + 1)) % SizeMod = arr_cap - (k + 1)
  BY <1>1, <1>6, IncDec
<1>8. push_front_multiple(d, v) = Made(C, n, cap, f, bk, m)
  <2>1. ~is_full(d.blocks[d.front].nmemb) /\ d.blocks[d.front].nmemb = k /\ d.front = f
    <3>1. d.blocks[d.front].nmemb = k /\ d.front = f
      BY DEF k, B, f
    <3>2. QED BY <3>1, <1>1, <1>2 DEF is_full
  <2>2. push_front_multiple(d, v)
          = Store([d EXCEPT !.blocks[f].nmemb = k + 1], f, arr_cap - (k + 1), v)
    BY <2>1, <1>7 DEF push_front_multiple
  <2>3. IsPut(B, n, cap, f, bk, m, f, arr_cap - (k + 1), v, k + 1)
    <3>1. B \in Blocks(cap) /\ f \in Index(cap) /\ arr_cap - (k + 1) \in Index(arr_cap)
      BY <1>1, <1>6 DEF Blocks, Index
    <3>2. QED BY <3>1, <1>1, <1>6, PutIs, Zenon
  <2>4. QED BY <1>1, <2>2, <2>3 DEF IsPut
<1>9. e = Made(C, n, cap, f, bk, m + 1)
  <2>1. m < MaxItems /\ C \in Blocks(cap)
    <3> HIDE DEF x
    <3>1. QED BY <1>1, <1>5 DEF m, Blocks, Index, Put
  <2> HIDE DEF C
  <2>2. IsCounted(C, n, cap, f, bk, m)
    BY <2>1, <1>1, CountedIs, Zenon
  <2>3. QED BY <2>2, <1>4, <1>8 DEF IsCounted
<1> HIDE DEF x
<1>10. IsPutView(d, e, 0, x, n, bk, m + 1)
  <2>1. /\ 0 \in 0 .. d.capacity - 1 /\ d.front \in 0 .. d.capacity - 1
        /\ e = Made(Put(d.blocks, Place(d, 0), x), n, d.capacity, d.front, bk, m + 1)
    BY <1>1, <1>9 DEF cap, f, B
  <2> HIDE DEF C
  <2>2. QED BY <2>1, <1>1, <1>3, <1>5, PutView
<1>11. Ring(View(e), n, cap, t)
  <2>1. Ring([R EXCEPT ![0] = With(R[0], arr_cap - (R[0].nmemb + 1), v, R[0].nmemb + 1)], n, cap, t)
    <3>1. R[0].nmemb < arr_cap
      BY <1>1, <1>2 DEF k
    <3>2. QED BY <3>1, <1>1, RingPushFront DEF t
  <2>2. View(e) = [R EXCEPT ![0] = x]
    BY <1>10 DEF IsPutView, R
  <2>3. With(R[0], arr_cap - (R[0].nmemb + 1), v, R[0].nmemb + 1) = x
    BY <1>1 DEF x, k
  <2>4. QED BY <2>1, <2>2, <2>3
<1>12. RingShape(e, t)
  <2>1. /\ Well(e) /\ e.block_count = n /\ e.capacity = cap /\ e.front = f /\ e.back = bk
        /\ e.nmemb = m + 1 /\ \A i : Place(e, i) = Place(d, i)
    BY <1>10 DEF IsPutView, cap, f
  <2>2. QED BY <2>1, <1>1, <1>3, <1>11 DEF RingShape
<1>13. QED BY <1>12 DEF e, t

LEMMA RingPushBackRoom ==
  ASSUME client \in Clients, NEW d, NEW s, RingShape(d, s), Len(s) < MaxItems, NEW v \in Values,
         d.blocks[d.back].nmemb < arr_cap
  PROVE  RingShape(deque_push_back(d, v), Append(s, v))
<1> DEFINE e == deque_push_back(d, v)
           t == Append(s, v)
           n == d.block_count
           cap == d.capacity
           B == d.blocks
           f == d.front
           bk == d.back
           m == Len(s)
           R == View(d)
           k == B[bk].nmemb
           x == With(B[bk], k, v, k + 1)
           C == Put(B, bk, x)
<1>1. /\ d = Made(B, n, cap, f, bk, m) /\ Well(d)
      /\ cap \in Caps /\ cap \in Nat \ {0} /\ B \in [0 .. cap - 1 -> Entry]
      /\ n \in Nat /\ n # 1 /\ f \in 0 .. cap - 1 /\ f \in Nat /\ n - 1 \in 0 .. cap - 1
      /\ bk = Place(d, n - 1) /\ bk \in Nat /\ bk \in 0 .. cap - 1
      /\ s \in Seq(Values) /\ m \in Nat
      /\ R[n - 1] = B[bk] /\ B[bk].array \in Arr /\ k \in 1 .. arr_cap
      /\ Ring(R, n, cap, s)
  BY ManyFacts
<1>2. arr_cap \in Nat /\ arr_cap < SizeMod /\ SizeMod \in Nat /\ k < arr_cap
  BY Sizes
<1>3. t \in Seq(Values) /\ Len(t) = m + 1 /\ m + 1 \in Nat
  BY <1>1, Ends
<1>4. e = Counted(push_back_multiple(d, v))
  BY <1>1 DEF deque_push_back
<1>5. x \in Entry
  <2>1. k \in 0 .. arr_cap - 1 /\ k + 1 \in Nat
    <3> HIDE DEF k
    <3>1. QED BY <1>1, <1>2
  <2>2. IsWith(x, B[bk], k, v, k + 1)
    <3> HIDE DEF k, B
    <3>1. QED BY <1>1, <2>1, WithFacts
  <2>3. QED BY <2>2 DEF IsWith
<1> HIDE DEF e, t, n, cap, B, f, bk, m, R, k
<1>6. k + 1 \in Nat /\ k + 1 < SizeMod /\ k \in Nat /\ k \in 0 .. arr_cap - 1
  BY <1>1, <1>2
<1>7. Inc(k) = k + 1
  BY <1>6, IncDec
<1>8. push_back_multiple(d, v) = Made(C, n, cap, f, bk, m)
  <2>1. ~is_full(d.blocks[d.back].nmemb) /\ d.blocks[d.back].nmemb = k /\ d.back = bk
    <3>1. d.blocks[d.back].nmemb = k /\ d.back = bk
      BY DEF k, B, bk
    <3>2. QED BY <3>1, <1>1, <1>2 DEF is_full
  <2>2. push_back_multiple(d, v) = Store([d EXCEPT !.blocks[bk].nmemb = k + 1], bk, k, v)
    BY <2>1, <1>7 DEF push_back_multiple
  <2>3. IsPut(B, n, cap, f, bk, m, bk, k, v, k + 1)
    <3>1. B \in Blocks(cap) /\ bk \in Index(cap) /\ k \in Index(arr_cap)
      BY <1>1, <1>6 DEF Blocks, Index
    <3>2. QED BY <3>1, <1>1, <1>6, PutIs, Zenon
  <2>4. QED BY <1>1, <2>2, <2>3 DEF IsPut
<1>9. e = Made(C, n, cap, f, bk, m + 1)
  <2>1. m < MaxItems /\ C \in Blocks(cap)
    <3> HIDE DEF x
    <3>1. QED BY <1>1, <1>5 DEF m, Blocks, Index, Put
  <2> HIDE DEF C
  <2>2. IsCounted(C, n, cap, f, bk, m)
    BY <2>1, <1>1, CountedIs, Zenon
  <2>3. QED BY <2>2, <1>4, <1>8 DEF IsCounted
<1> HIDE DEF x
<1>10. IsPutView(d, e, n - 1, x, n, bk, m + 1)
  <2>1. /\ n - 1 \in 0 .. d.capacity - 1 /\ d.front \in 0 .. d.capacity - 1
        /\ e = Made(Put(d.blocks, Place(d, n - 1), x), n, d.capacity, d.front, bk, m + 1)
    BY <1>1, <1>9 DEF cap, f, B
  <2> HIDE DEF C
  <2>2. QED BY <2>1, <1>1, <1>3, <1>5, PutView
<1>11. Ring(View(e), n, cap, t)
  <2>1. Ring([R EXCEPT ![n - 1] = With(R[n - 1], R[n - 1].nmemb, v, R[n - 1].nmemb + 1)], n, cap, t)
    <3>1. R[n - 1].nmemb < arr_cap
      BY <1>1, <1>2 DEF k
    <3>2. QED BY <3>1, <1>1, RingPushBack DEF t
  <2>2. View(e) = [R EXCEPT ![n - 1] = x]
    BY <1>10 DEF IsPutView, R
  <2>3. With(R[n - 1], R[n - 1].nmemb, v, R[n - 1].nmemb + 1) = x
    BY <1>1 DEF x, k
  <2>4. QED BY <2>1, <2>2, <2>3
<1>12. RingShape(e, t)
  <2>1. /\ Well(e) /\ e.block_count = n /\ e.capacity = cap /\ e.front = f /\ e.back = bk
        /\ e.nmemb = m + 1 /\ \A i : Place(e, i) = Place(d, i)
    BY <1>10 DEF IsPutView, cap, f
  <2>2. QED BY <2>1, <1>1, <1>3, <1>11 DEF RingShape
<1>13. QED BY <1>12 DEF e, t

(* Allocating a block in an entry, and then storing into it.                *)
LEMMA PutPut ==
  ASSUME NEW cap, NEW blocks \in Blocks(cap), NEW b, NEW x, NEW y
  PROVE  Put(Put(blocks, b, x), b, y) = Put(blocks, b, y)
BY DEF Put, Blocks

(* The ring gains an entry.                                                 *)
IsExtended(g, B, n, cap, f, bk, m, b, y, p, q) ==
  [g EXCEPT !.blocks[b] = y, !.block_count = @ + 1, !.front = p, !.back = q]
    = Made(Put(B, b, y), n + 1, cap, p, q, m)

LEMMA Extended ==
  ASSUME NEW B, NEW n, NEW cap, NEW f, NEW bk, NEW m, NEW b, NEW y, NEW p, NEW q, NEW g,
         g = Made(B, n, cap, f, bk, m)
  PROVE  IsExtended(g, B, n, cap, f, bk, m, b, y, p, q)
<1> DEFINE X == Put(B, b, y)
           k == n + 1
<1>1. [Made(B, n, cap, f, bk, m) EXCEPT !.blocks[b] = y] = Made(X, n, cap, f, bk, m)
  BY DEF Made, Put
<1>2. Made(B, n, cap, f, bk, m).block_count + 1 = k
  BY DEF Made
<1> HIDE DEF X, k
<1>3. [Made(X, n, cap, f, bk, m) EXCEPT !.block_count = k] = Made(X, k, cap, f, bk, m)
  BY DEF Made
<1>4. [Made(X, k, cap, f, bk, m) EXCEPT !.front = p] = Made(X, k, cap, p, bk, m)
  BY DEF Made
<1>5. [Made(X, k, cap, p, bk, m) EXCEPT !.back = q] = Made(X, k, cap, p, q, m)
  BY DEF Made
<1>6. [Made(B, n, cap, f, bk, m) EXCEPT !.blocks[b] = y, !.block_count = @ + 1, !.front = p, !.back = q]
        = Made(X, k, cap, p, q, m)
  BY ZenonT(30), <1>1, <1>2, <1>3, <1>4, <1>5
<1>7. QED BY <1>6 DEF X, k, IsExtended

LEMMA RingPushFrontFull ==
  ASSUME client \in Clients, NEW d, NEW s, RingShape(d, s), Len(s) < MaxItems, NEW v \in Values,
         d.blocks[d.front].nmemb = arr_cap
  PROVE  RingShape(deque_push_front(d, v), <<v>> \o s)
<1> DEFINE e == deque_push_front(d, v)
           t == <<v>> \o s
           g == Roomy(d)
           n == g.block_count
           cap == g.capacity
           B == g.blocks
           f == g.front
           bk == g.back
           m == Len(s)
           R == View(g)
           at == (f - 1) % cap
           N == Put(B, at, NewBlock)
           x == With(NewBlock, arr_cap - 1, v, 1)
           C == Put(B, at, x)
           h == Made(B, n, cap, at, bk, m)
<1>1. RingShape(g, s) /\ n < cap /\ R[0].nmemb = arr_cap
  <2>1. View(d)[0] = d.blocks[d.front]
    BY ManyFacts
  <2>2. QED BY <2>1, RoomyFacts
<1>2. /\ g = Made(B, n, cap, f, bk, m) /\ Well(g)
      /\ cap \in Caps /\ cap \in Nat \ {0} /\ B \in [0 .. cap - 1 -> Entry]
      /\ n \in Nat /\ n >= 2 /\ f \in 0 .. cap - 1 /\ f \in Nat
      /\ bk = Place(g, n - 1) /\ bk \in Nat
      /\ s \in Seq(Values) /\ m \in Nat /\ Ring(R, n, cap, s)
  <2> HIDE DEF g
  <2>1. QED BY <1>1, ManyFacts
<1>3. /\ arr_cap \in Nat /\ arr_cap < SizeMod /\ SizeMod \in Nat
      /\ 1 \in Nat /\ 0 + 1 < SizeMod /\ arr_cap - 1 \in 0 .. arr_cap - 1
      /\ arr_cap - 1 \in 0 .. SizeMod - 1 /\ arr_cap >= 2
  BY Sizes
<1>4. t \in Seq(Values) /\ Len(t) = m + 1 /\ m + 1 \in Nat
  BY <1>2, Ends
<1>5. e = Counted(push_front_multiple(d, v))
  <2>1. d.block_count # 1
    BY ManyFacts
  <2>2. QED BY <2>1 DEF deque_push_front
<1>6. Inc(0) = 1 /\ (arr_cap - 1) % SizeMod = arr_cap - 1
  BY <1>3, IncDec
<1>7. x \in Entry
  <2>1. IsWith(x, NewBlock, arr_cap - 1, v, 1)
    BY <1>3, NewFacts, WithFacts
  <2>2. QED BY <2>1 DEF IsWith
<1> HIDE DEF e, t, g, n, cap, B, f, bk, m, R, x
<1>8. /\ at \in 0 .. cap - 1 /\ at \in Nat /\ (at + 0) % cap = at
      /\ 0 \in 0 .. cap - 1 /\ n \in 1 .. cap - 1 /\ n - 1 \in 0 .. cap - 1 /\ n + 1 \in Nat
  <2>1. at \in 0 .. cap - 1
    BY <1>2, Backward
  <2>2. \A i \in 0 .. cap - 1 : i \in Nat
    BY <1>2
  <2> HIDE DEF at
  <2>3. (at + 0) % cap = at
    BY <2>1, <1>2, Places
  <2>4. QED BY <2>1, <2>2, <2>3, <1>1, <1>2
<1>9. /\ Well(h) /\ h.blocks = B /\ h.block_count = n /\ h.capacity = cap
      /\ h.front = at /\ h.back = bk /\ h.nmemb = m
  <2>1. B \in Blocks(cap)
    BY <1>2 DEF Blocks, Index
  <2> HIDE DEF at
  <2>2. Is(h, B, n, cap, at, bk, m)
    BY <2>1, <1>2, <1>8, MadeWell, Zenon
  <2> HIDE DEF h
  <2>3. QED BY <2>2, Zenon DEF Is
<1> HIDE DEF h
<1>10. \A j \in 1 .. cap - 1 : Place(h, j) = Place(g, j - 1) /\ View(h)[j] = R[j - 1]
  <2>1. h.front = (g.front - 1) % g.capacity /\ h.capacity = g.capacity /\ h.blocks = g.blocks
        /\ g.front \in 0 .. g.capacity - 1
    BY <1>2, <1>9 DEF f, cap, B
  <2>2. QED BY ZenonT(30), <2>1, <1>2, ViewBackward DEF R, cap
<1> HIDE DEF at
<1>11. push_front_multiple(d, v) = Made(C, n + 1, cap, at, bk, m)
  <2> DEFINE r == Made(N, n + 1, cap, at, bk, m)
  <2>1. N \in Blocks(cap) /\ N[at] = NewBlock /\ B \in Blocks(cap)
    BY <1>2, <1>8, NewFacts DEF Blocks, Index, Put
  <2>2. resize_from_multiple(d, TRUE) = r
    <3>1. g.front = f /\ g.back = bk /\ g = IF d.block_count >= d.capacity THEN GrowControl(d) ELSE d
      BY DEF g, f, bk, Roomy
    <3>2. at = (g.front - 1) % g.capacity
      BY DEF at, f, cap
    <3>3. resize_from_multiple(d, TRUE)
            = [g EXCEPT !.blocks[at] = NewBlock, !.block_count = @ + 1, !.front = at, !.back = bk]
      BY <3>1, <3>2 DEF resize_from_multiple
    <3>4. IsExtended(g, B, n, cap, f, bk, m, at, NewBlock, at, bk)
      BY <1>2, Extended
    <3>5. QED BY <3>3, <3>4, Zenon DEF IsExtended
  <2>3. r.front = at /\ r.blocks = N
    BY DEF Made
  <2> HIDE DEF N
  <2>4. push_front_multiple(d, v)
          = Store([r EXCEPT !.blocks[at].nmemb = 1], at, arr_cap - 1, v)
    <3>1. is_full(d.blocks[d.front].nmemb)
      BY <1>3 DEF is_full
    <3>2. Inc(r.blocks[r.front].nmemb) = 1
      BY <2>1, <2>3, <1>6, NewFacts
    <3> HIDE DEF r
    <3>3. QED BY <3>1, <3>2, <2>2, <2>3, <1>6 DEF push_front_multiple
  <2>5. IsPut(N, n + 1, cap, at, bk, m, at, arr_cap - 1, v, 1)
    <3>1. at \in Index(cap) /\ arr_cap - 1 \in Index(arr_cap) /\ N[at].array \in Arr
      BY <2>1, <1>3, <1>8, NewFacts DEF Index
    <3>2. QED BY <3>1, <2>1, <1>2, <1>3, PutIs, Zenon
  <2>6. Put(N, at, With(N[at], arr_cap - 1, v, 1)) = C
    <3>1. With(N[at], arr_cap - 1, v, 1) = x
      BY <2>1 DEF x
    <3>2. QED BY <3>1, <2>1, PutPut DEF N
  <2>7. QED BY <2>4, <2>5, <2>6 DEF IsPut
<1>12. e = Made(C, n + 1, cap, at, bk, m + 1)
  <2>1. m < MaxItems /\ C \in Blocks(cap)
    BY <1>2, <1>7, <1>8 DEF m, Blocks, Index, Put
  <2> HIDE DEF C
  <2>2. IsCounted(C, n + 1, cap, at, bk, m)
    BY <2>1, <1>2, <1>8, CountedIs, Zenon
  <2>3. QED BY <2>2, <1>5, <1>11 DEF IsCounted
<1>13. IsPutView(h, e, 0, x, n + 1, bk, m + 1)
  <2>1. Place(h, 0) = at
    BY <1>8, <1>9 DEF Place
  <2>2. /\ 0 \in 0 .. h.capacity - 1 /\ h.front \in 0 .. h.capacity - 1
        /\ e = Made(Put(h.blocks, Place(h, 0), x), n + 1, h.capacity, h.front, bk, m + 1)
    BY <2>1, <1>8, <1>9, <1>12
  <2> HIDE DEF C
  <2>3. QED BY <2>2, <1>2, <1>4, <1>7, <1>8, <1>9, PutView
<1>14. Ring(View(e), n + 1, cap, t)
  <2> DEFINE V == View(e)
  <2>1. V \in [0 .. cap - 1 -> Entry] /\ V[0] = x
        /\ \A j \in 0 .. cap - 1 : j # 0 => V[j] = View(h)[j]
    BY <1>9, <1>13 DEF IsPutView
  <2>2. \A j \in 1 .. cap - 1 : V[j] = R[j - 1]
    <3>1. \A j \in 1 .. cap - 1 : j \in 0 .. cap - 1 /\ j # 0
      BY <1>2
    <3> HIDE DEF V
    <3>2. QED BY <3>1, <2>1, <1>10
  <2>3. V[0] = With(NewBlock, arr_cap - 1, v, 1)
    BY <2>1 DEF x
  <2> HIDE DEF V
  <2>4. Ring(V, n + 1, cap, <<v>> \o s)
    BY <2>1, <2>2, <2>3, <1>1, <1>2, RingNewFront
  <2>5. QED BY <2>4 DEF V, t
<1>15. RingShape(e, t)
  <2>1. /\ Well(e) /\ e.block_count = n + 1 /\ e.capacity = cap /\ e.front = at /\ e.back = bk
        /\ e.nmemb = m + 1 /\ \A i : Place(e, i) = Place(h, i)
    BY <1>9, <1>13 DEF IsPutView
  <2>2. bk = Place(h, n)
    BY <1>2, <1>8, <1>10
  <2>3. bk = Place(e, (n + 1) - 1)
    <3>1. (n + 1) - 1 = n
      BY <1>2
    <3>2. QED BY <3>1, <2>1, <2>2
  <2>4. QED BY <2>1, <2>3, <1>4, <1>8, <1>14 DEF RingShape
<1>16. QED BY <1>15 DEF e, t

LEMMA RingPushBackFull ==
  ASSUME client \in Clients, NEW d, NEW s, RingShape(d, s), Len(s) < MaxItems, NEW v \in Values,
         d.blocks[d.back].nmemb = arr_cap
  PROVE  RingShape(deque_push_back(d, v), Append(s, v))
<1> DEFINE e == deque_push_back(d, v)
           t == Append(s, v)
           g == Roomy(d)
           n == g.block_count
           cap == g.capacity
           B == g.blocks
           f == g.front
           bk == g.back
           m == Len(s)
           R == View(g)
           at == (bk + 1) % cap
           N == Put(B, at, NewBlock)
           x == With(NewBlock, 0, v, 1)
           C == Put(B, at, x)
<1>1. RingShape(g, s) /\ n < cap /\ R[n - 1].nmemb = arr_cap
  <2>1. View(d)[d.block_count - 1] = d.blocks[d.back]
    BY ManyFacts
  <2>2. QED BY <2>1, RoomyFacts
<1>2. /\ g = Made(B, n, cap, f, bk, m) /\ Well(g)
      /\ cap \in Caps /\ cap \in Nat \ {0} /\ B \in [0 .. cap - 1 -> Entry]
      /\ n \in Nat /\ n >= 2 /\ f \in 0 .. cap - 1 /\ f \in Nat
      /\ bk = Place(g, n - 1) /\ bk \in Nat
      /\ s \in Seq(Values) /\ m \in Nat /\ Ring(R, n, cap, s)
  <2> HIDE DEF g
  <2>1. QED BY <1>1, ManyFacts
<1>3. /\ arr_cap \in Nat /\ arr_cap < SizeMod /\ SizeMod \in Nat
      /\ 1 \in Nat /\ 0 + 1 < SizeMod /\ 0 \in 0 .. arr_cap - 1
  BY Sizes
<1>4. t \in Seq(Values) /\ Len(t) = m + 1 /\ m + 1 \in Nat
  BY <1>2, Ends
<1>5. e = Counted(push_back_multiple(d, v))
  <2>1. d.block_count # 1
    BY ManyFacts
  <2>2. QED BY <2>1 DEF deque_push_back
<1>6. Inc(0) = 1
  BY <1>3, IncDec
<1>7. x \in Entry
  <2>1. IsWith(x, NewBlock, 0, v, 1)
    BY <1>3, NewFacts, WithFacts
  <2>2. QED BY <2>1 DEF IsWith
<1> HIDE DEF e, t, g, n, cap, B, f, bk, m, R, x
<1>8. n \in 0 .. cap - 1 /\ n + 1 \in Nat /\ n \in 1 .. cap
  BY <1>1, <1>2
<1>9. at = Place(g, n) /\ at \in 0 .. cap - 1 /\ at \in Nat
  <2>1. bk = (f + (n - 1)) % cap
    BY <1>2 DEF Place, f, cap
  <2>2. (((f + n - 1) % cap) + 1) % cap = (f + n) % cap
    BY <1>1, <1>2, <1>8, Lasts
  <2>3. at = (f + n) % cap
    BY <2>1, <2>2
  <2>4. (f + n) % cap \in 0 .. cap - 1
    BY <1>2, <1>8, Places
  <2>5. (f + n) % cap = Place(g, n)
    BY DEF Place, f, cap
  <2> HIDE DEF at
  <2>6. \A i \in 0 .. cap - 1 : i \in Nat
    BY <1>2
  <2>7. QED BY <2>3, <2>4, <2>5, <2>6
<1> HIDE DEF at
<1>10. push_back_multiple(d, v) = Made(C, n + 1, cap, f, at, m)
  <2> DEFINE r == Made(N, n + 1, cap, f, at, m)
  <2>1. N \in Blocks(cap) /\ N[at] = NewBlock /\ B \in Blocks(cap)
    BY <1>2, <1>9, NewFacts DEF Blocks, Index, Put
  <2>2. resize_from_multiple(d, FALSE) = r
    <3>1. g.front = f /\ g.back = bk /\ g = IF d.block_count >= d.capacity THEN GrowControl(d) ELSE d
      BY DEF g, f, bk, Roomy
    <3>2. at = NextBlock(g, g.back)
      BY DEF at, bk, cap, NextBlock
    <3>3. resize_from_multiple(d, FALSE)
            = [g EXCEPT !.blocks[at] = NewBlock, !.block_count = @ + 1, !.front = f, !.back = at]
      BY <3>1, <3>2 DEF resize_from_multiple
    <3>4. IsExtended(g, B, n, cap, f, bk, m, at, NewBlock, f, at)
      BY <1>2, Extended
    <3>5. QED BY <3>3, <3>4, Zenon DEF IsExtended
  <2>3. r.back = at /\ r.blocks = N
    BY DEF Made
  <2> HIDE DEF N
  <2>4. push_back_multiple(d, v) = Store([r EXCEPT !.blocks[at].nmemb = 1], at, 0, v)
    <3>1. is_full(d.blocks[d.back].nmemb)
      BY <1>3 DEF is_full
    <3>2. Inc(r.blocks[r.back].nmemb) = 1 /\ r.blocks[r.back].nmemb = 0
      BY <2>1, <2>3, <1>6, NewFacts
    <3> HIDE DEF r
    <3>3. QED BY <3>1, <3>2, <2>2, <2>3 DEF push_back_multiple
  <2>5. IsPut(N, n + 1, cap, f, at, m, at, 0, v, 1)
    <3>1. at \in Index(cap) /\ 0 \in Index(arr_cap) /\ N[at].array \in Arr
      BY <2>1, <1>3, <1>9, NewFacts DEF Index
    <3>2. QED BY <3>1, <2>1, <1>2, <1>3, PutIs, Zenon
  <2>6. Put(N, at, With(N[at], 0, v, 1)) = C
    <3>1. With(N[at], 0, v, 1) = x
      BY <2>1 DEF x
    <3>2. QED BY <3>1, <2>1, PutPut DEF N
  <2>7. QED BY <2>4, <2>5, <2>6 DEF IsPut
<1>11. e = Made(C, n + 1, cap, f, at, m + 1)
  <2>1. m < MaxItems /\ C \in Blocks(cap)
    BY <1>2, <1>7, <1>9 DEF m, Blocks, Index, Put
  <2> HIDE DEF C
  <2>2. IsCounted(C, n + 1, cap, f, at, m)
    BY <2>1, <1>2, <1>8, <1>9, CountedIs, Zenon
  <2>3. QED BY <2>2, <1>5, <1>10 DEF IsCounted
<1>12. IsPutView(g, e, n, x, n + 1, at, m + 1)
  <2>1. /\ n \in 0 .. g.capacity - 1 /\ g.front \in 0 .. g.capacity - 1
        /\ e = Made(Put(g.blocks, Place(g, n), x), n + 1, g.capacity, g.front, at, m + 1)
    BY <1>2, <1>8, <1>9, <1>11 DEF f, cap, B
  <2> HIDE DEF C
  <2>2. QED BY <2>1, <1>2, <1>4, <1>7, <1>8, <1>9, PutView
<1>13. Ring(View(e), n + 1, cap, t)
  <2> DEFINE V == View(e)
  <2>1. V \in [0 .. cap - 1 -> Entry] /\ V[n] = x
        /\ \A j \in 0 .. cap - 1 : j # n => V[j] = R[j]
    BY <1>12 DEF IsPutView, R, cap
  <2>2. V[n] = With(NewBlock, 0, v, 1)
    BY <2>1 DEF x
  <2> HIDE DEF V
  <2>3. Ring(V, n + 1, cap, Append(s, v))
    BY <2>1, <2>2, <1>1, <1>2, RingNewBack
  <2>4. QED BY <2>3 DEF V, t
<1>14. RingShape(e, t)
  <2>1. /\ Well(e) /\ e.block_count = n + 1 /\ e.capacity = cap /\ e.front = f /\ e.back = at
        /\ e.nmemb = m + 1 /\ \A i : Place(e, i) = Place(g, i)
    BY <1>12 DEF IsPutView, cap, f
  <2>2. at = Place(e, (n + 1) - 1)
    <3>1. (n + 1) - 1 = n
      BY <1>2
    <3>2. QED BY <3>1, <2>1, <1>9
  <2>3. QED BY <2>1, <2>2, <1>2, <1>4, <1>8, <1>13 DEF RingShape
<1>15. QED BY <1>14 DEF e, t

(* Pushes, on any deque in shape.                                           *)
LEMMA Pushes ==
  ASSUME client \in Clients, NEW d, NEW s, Shape(d, s), Len(s) < MaxItems, NEW v \in Values
  PROVE  LET e == deque_push_front(d, v)
             x == deque_push_back(d, v)
         IN  /\ Shape(e, <<v>> \o s) \/ GrewPastEmpty(d, e, <<v>> \o s)
             /\ Shape(x, Append(s, v)) \/ GrewPastEmpty(d, x, Append(s, v))
<1>1. CASE OneShape(d, s)
  BY <1>1, OnePushFront, OnePushBack
<1>2. CASE RingShape(d, s)
  <2>1. /\ d.blocks[d.front].nmemb \in 1 .. arr_cap /\ d.blocks[d.back].nmemb \in 1 .. arr_cap
        /\ arr_cap \in Nat
    BY <1>2, ManyFacts, Sizes
  <2>2. /\ d.blocks[d.front].nmemb < arr_cap \/ d.blocks[d.front].nmemb = arr_cap
        /\ d.blocks[d.back].nmemb < arr_cap \/ d.blocks[d.back].nmemb = arr_cap
    BY <2>1
  <2>3. RingShape(deque_push_front(d, v), <<v>> \o s)
    BY <1>2, <2>2, RingPushFrontRoom, RingPushFrontFull
  <2>4. RingShape(deque_push_back(d, v), Append(s, v))
    BY <1>2, <2>2, RingPushBackRoom, RingPushBackFull
  <2>5. QED BY <2>3, <2>4 DEF Shape
<1>3. QED BY <1>1, <1>2 DEF Shape

-----------------------------------------------------------------------------
(* The pops of a ring: the end block counts one less; emptied, it is freed. *)
IsFreed(blocks, n, cap, f, bk, m, b) ==
  Freed(Took(blocks, n, cap, f, bk, m, b), b)
    = Made(Put(blocks, b, UnsetBlock), n - 1, cap, f, bk, m - 1)

LEMMA FreedIs ==
  ASSUME client \in Clients, NEW cap \in Caps, NEW blocks \in Blocks(cap),
         NEW n, NEW f, NEW bk, NEW m, NEW b \in Index(cap), blocks[b].nmemb = 1
  PROVE  IsFreed(blocks, n, cap, f, bk, m, b)
<1> DEFINE x == Less(blocks[b])
           X == Put(blocks, b, x)
           y == m - 1
           k == n - 1
<1>1. [x EXCEPT !.array = NULL] = UnsetBlock
  BY DEF Less, UnsetBlock
<1>2. X \in [Index(cap) -> Entry \union {x}] /\ X[b] = x
  BY DEF Put, Blocks
<1>3. [X EXCEPT ![b].array = NULL] = Put(X, b, UnsetBlock)
  <2>1. [X EXCEPT ![b].array = NULL] = [X EXCEPT ![b] = [X[b] EXCEPT !.array = NULL]]
    OBVIOUS
  <2> HIDE DEF X, x
  <2>2. QED BY <2>1, <1>1, <1>2 DEF Put
<1>4. Put(X, b, UnsetBlock) = Put(blocks, b, UnsetBlock)
  BY PutPut
<1>5. Took(blocks, n, cap, f, bk, m, b) = Made(X, n, cap, f, bk, y)
  BY DEF Took
<1> HIDE DEF X, y
<1>6. Freed(Made(X, n, cap, f, bk, y), b) = Made(Put(X, b, UnsetBlock), n - 1, cap, f, bk, y)
  <2> DEFINE D == Made(X, n, cap, f, bk, y)
             Z == Put(X, b, UnsetBlock)
  <2>1. Freed(D, b) = [D EXCEPT !.blocks[b].array = NULL, !.block_count = D.block_count - 1]
    BY DEF Freed
  <2>2. D.block_count - 1 = k
    BY DEF Made
  <2>3. [D EXCEPT !.blocks[b].array = NULL] = Made(Z, n, cap, f, bk, y)
    <3>1. [D EXCEPT !.blocks[b].array = NULL] = Made([X EXCEPT ![b].array = NULL], n, cap, f, bk, y)
      BY DEF Made
    <3>2. QED BY <3>1, <1>3
  <2> HIDE DEF k, Z
  <2>4. [Made(Z, n, cap, f, bk, y) EXCEPT !.block_count = k] = Made(Z, k, cap, f, bk, y)
    BY DEF Made
  <2>5. [D EXCEPT !.blocks[b].array = NULL, !.block_count = k] = Made(Z, k, cap, f, bk, y)
    BY <2>3, <2>4
  <2>6. QED BY <2>1, <2>2, <2>5 DEF k, Z
<1>7. QED BY <1>4, <1>5, <1>6 DEF IsFreed, y

(* The entries after the block in entry p, the last one, moved to the first. *)
Gathered(U, p) == [[U EXCEPT ![0] = U[p]] EXCEPT ![p].array = NULL]

LEMMA GatheredFacts ==
  ASSUME client \in Clients, NEW d, NEW s, RingShape(d, s), d.block_count = 2,
         NEW i \in {0, 1}, NEW o, o = Place(d, i), NEW p, p = Place(d, 1 - i)
  PROVE  LET X == Gathered(Put(d.blocks, o, UnsetBlock), p)
         IN  /\ X \in [0 .. d.capacity - 1 -> Entry]
             /\ X[0].nmemb = d.blocks[p].nmemb
             /\ p = 0 => X[0].array = NULL
             /\ p # 0 => /\ X[0] = d.blocks[p]
                         /\ \A b \in 1 .. d.capacity - 1 : X[b].array = NULL
<1> DEFINE B == d.blocks
           cap == d.capacity
           U == Put(B, o, UnsetBlock)
           W == [U EXCEPT ![0] = U[p]]
           X == Gathered(U, p)
<1>1. /\ cap \in Nat \ {0} /\ B \in [0 .. cap - 1 -> Entry] /\ cap >= 2
      /\ d.front \in 0 .. cap - 1 /\ Ring(View(d), 2, cap, s) /\ Well(d)
  BY ManyFacts
<1>2. i \in 0 .. cap - 1 /\ 1 - i \in 0 .. cap - 1 /\ i # 1 - i /\ 0 \in 0 .. cap - 1
  BY <1>1
<1>3. /\ \A j, l \in 0 .. cap - 1 : Place(d, j) = Place(d, l) => j = l
      /\ \A b \in 0 .. cap - 1 : \E j \in 0 .. cap - 1 : Place(d, j) = b
      /\ \A j \in 0 .. cap - 1 : Place(d, j) \in 0 .. cap - 1
  <2> DEFINE f == d.front
  <2>1. cap \in Nat \ {0} /\ f \in 0 .. cap - 1
    BY <1>1
  <2> HIDE DEF f, cap
  <2>2. /\ \A j, l \in 0 .. cap - 1 : (f + j) % cap = (f + l) % cap => j = l
        /\ \A b \in 0 .. cap - 1 : \E j \in 0 .. cap - 1 : (f + j) % cap = b
        /\ \A j \in 0 .. cap - 1 : (f + j) % cap \in 0 .. cap - 1
    BY <2>1, Places
  <2>3. QED BY <2>2, Zenon DEF Place, f, cap
<1>4. o # p /\ o \in 0 .. cap - 1 /\ p \in 0 .. cap - 1
  BY <1>2, <1>3
<1>5. \A b \in 0 .. cap - 1 : b # o /\ b # p => B[b] = UnsetBlock
  <2> TAKE b \in 0 .. cap - 1
  <2> HAVE b # o /\ b # p
  <2>1. PICK j \in 0 .. cap - 1 : Place(d, j) = b
    BY <1>3
  <2>2. j # i /\ j # 1 - i
    BY <2>1
  <2>3. j \in 2 .. cap - 1
    BY <2>2, <1>1
  <2>4. View(d)[j] = UnsetBlock
    BY <2>3, <1>1 DEF Ring
  <2>5. View(d)[j] = B[b]
    BY <2>1, <1>1, ViewFacts
  <2>6. QED BY <2>4, <2>5
<1> HIDE DEF B, cap
<1>6. /\ U \in [0 .. cap - 1 -> Entry] /\ U[o] = UnsetBlock /\ U[p] = B[p]
      /\ \A b \in 0 .. cap - 1 : b # p => U[b].array = NULL
  BY <1>1, <1>4, <1>5, NewFacts DEF Put
<1> HIDE DEF U
<1>7. /\ W \in [0 .. cap - 1 -> Entry] /\ W[0] = B[p] /\ W[p] = B[p]
      /\ \A b \in 0 .. cap - 1 : b # 0 => W[b] = U[b]
  BY <1>2, <1>4, <1>6
<1> HIDE DEF W
<1>8. /\ X \in [0 .. cap - 1 -> Entry] /\ X[p].array = NULL /\ X[p].nmemb = B[p].nmemb
      /\ \A b \in 0 .. cap - 1 : b # p => X[b] = W[b]
  <2>1. X = [W EXCEPT ![p] = [array |-> NULL, nmemb |-> W[p].nmemb]]
    <3>1. X = [W EXCEPT ![p].array = NULL]
      BY DEF Gathered, W
    <3>2. [W[p] EXCEPT !.array = NULL] = [array |-> NULL, nmemb |-> W[p].nmemb]
      BY <1>4, <1>7 DEF Entry
    <3>3. QED BY <3>1, <3>2
  <2>2. [array |-> NULL, nmemb |-> W[p].nmemb] \in Entry
    BY <1>4, <1>7 DEF Entry
  <2> HIDE DEF X
  <2>3. QED BY <2>1, <2>2, <1>4, <1>7
<1> HIDE DEF X
<1>9. CASE p = 0
  BY <1>8, <1>9 DEF X, U, B, cap
<1>10. CASE p # 0
  <2>1. X[0] = B[p] /\ X[0].nmemb = B[p].nmemb
    BY <1>2, <1>7, <1>8, <1>10
  <2>2. ASSUME NEW b \in 1 .. cap - 1 PROVE X[b].array = NULL
    <3>1. b \in 0 .. cap - 1 /\ b # 0
      BY <1>1
    <3>2. CASE b = p
      BY <3>2, <1>8
    <3>3. CASE b # p
      BY <3>1, <3>3, <1>6, <1>7, <1>8
    <3>4. QED BY <3>2, <3>3
  <2>3. QED BY <2>1, <2>2, <1>8, <1>10 DEF X, U, B, cap
<1>11. QED BY <1>9, <1>10

(* The one block left of a ring, and where its elements lie.                *)
IsLeft(U, cap, f, bk, m, p) ==
  LET X == Gathered(U, p)
      u == Made(U, 1, cap, f, bk, m)
  IN  /\ p = bk => CollapsedBack(u) = Made(X, 1, cap, 0, Dec(X[0].nmemb), m)
      /\ p = f => CollapsedFront(u)
                    = Made(X, 1, cap, (arr_cap - X[0].nmemb) % SizeMod, arr_cap - 1, m)

LEMMA LeftIs ==
  ASSUME NEW U, NEW cap, NEW f, NEW bk, NEW m, NEW p
  PROVE  IsLeft(U, cap, f, bk, m, p)
<1> DEFINE X == Gathered(U, p)
           u == Made(U, 1, cap, f, bk, m)
           c == Made(X, 1, cap, f, bk, m)
           y == Dec(X[0].nmemb)
           z == (arr_cap - X[0].nmemb) % SizeMod
           w == arr_cap - 1
<1>1. u.back = bk /\ u.front = f /\ u.blocks = U
  BY DEF Made
<1>2. Collapsed(u, p) = c
  <2>1. Collapsed(u, p) = [u EXCEPT !.blocks = X]
    BY <1>1 DEF Collapsed, Gathered
  <2> HIDE DEF X
  <2>2. [u EXCEPT !.blocks = X] = c
    BY DEF Made
  <2>3. QED BY <2>1, <2>2
<1>3. c.blocks = X
  BY DEF Made
<1> HIDE DEF X, y, z, w
<1>4. [c EXCEPT !.back = y, !.front = 0] = Made(X, 1, cap, 0, y, m)
  <2>1. [c EXCEPT !.back = y] = Made(X, 1, cap, f, y, m)
    BY DEF Made
  <2>2. [Made(X, 1, cap, f, y, m) EXCEPT !.front = 0] = Made(X, 1, cap, 0, y, m)
    BY DEF Made
  <2>3. QED BY <2>1, <2>2
<1>5. [c EXCEPT !.back = w, !.front = z] = Made(X, 1, cap, z, w, m)
  <2>1. [c EXCEPT !.back = w] = Made(X, 1, cap, f, w, m)
    BY DEF Made
  <2>2. [Made(X, 1, cap, f, w, m) EXCEPT !.front = z] = Made(X, 1, cap, z, w, m)
    BY DEF Made
  <2>3. QED BY <2>1, <2>2
<1> HIDE DEF u, c
<1>6. p = bk => CollapsedBack(u) = Made(X, 1, cap, 0, y, m)
  BY <1>1, <1>2, <1>3, <1>4 DEF CollapsedBack, y
<1>7. p = f => CollapsedFront(u) = Made(X, 1, cap, z, w, m)
  BY <1>1, <1>2, <1>3, <1>5 DEF CollapsedFront, z, w
<1>8. QED BY <1>6, <1>7 DEF IsLeft, X, u, y, z, w

(* What a pop of a ring computes.                                           *)
LEMMA FrontTaken ==
  ASSUME client \in Clients, NEW d, NEW s, RingShape(d, s), Len(s) <= MaxItems
  PROVE  LET B == d.blocks
             n == d.block_count
             cap == d.capacity
             f == d.front
             bk == d.back
             m == Len(s)
             e == deque_pop_front(d)
             U == Put(B, f, UnsetBlock)
             X == Gathered(U, bk)
         IN  /\ B[f].nmemb > 1 => e = Took(B, n, cap, f, bk, m, f)
             /\ B[f].nmemb = 1 /\ n > 2 => e = Made(U, n - 1, cap, (f + 1) % cap, bk, m - 1)
             /\ B[f].nmemb = 1 /\ n = 2 => e = Made(X, 1, cap, 0, Dec(X[0].nmemb), m - 1)
<1> DEFINE B == d.blocks
           n == d.block_count
           cap == d.capacity
           f == d.front
           bk == d.back
           m == Len(s)
           e == deque_pop_front(d)
           U == Put(B, f, UnsetBlock)
           X == Gathered(U, bk)
           t == [d EXCEPT !.nmemb = Dec(@), !.blocks[f].nmemb = Dec(@)]
           u == Freed(t, f)
           T == Took(B, n, cap, f, bk, m, f)
           k == B[f].nmemb
<1>1. /\ d = Made(B, n, cap, f, bk, m)
      /\ cap \in Caps /\ B \in [0 .. cap - 1 -> Entry]
      /\ n \in Nat /\ n > 1 /\ n >= 2 /\ f \in 0 .. cap - 1
      /\ m \in Nat /\ m >= n /\ k \in 1 .. arr_cap
  BY ManyFacts
<1>2. m \in Nat \ {0} /\ m < SizeMod /\ k \in Nat /\ k < SizeMod /\ k # 0
  <2>1. arr_cap \in Nat /\ arr_cap < SizeMod /\ SizeMod \in Nat /\ MaxItems < SizeMod
        /\ MaxItems \in Nat /\ m <= MaxItems
    BY Sizes
  <2> HIDE DEF m, k, n
  <2>2. QED BY <1>1, <2>1
<1>3. B \in Blocks(cap) /\ f \in Index(cap)
  BY <1>1 DEF Blocks, Index
<1>4. e = IF t.blocks[f].nmemb # 0 THEN t
          ELSE IF u.block_count = 1 THEN CollapsedBack(u)
          ELSE [u EXCEPT !.front = NextBlock(d, @)]
  <2> DEFINE b == IF d.block_count > 1 THEN d.front ELSE 0
             y == [d EXCEPT !.nmemb = Dec(@), !.blocks[b].nmemb = Dec(@)]
             z == Freed(y, b)
  <2>1. d.block_count > 1
    BY <1>1
  <2>2. b = f
    BY <2>1
  <2>3. e = IF ~(d.block_count > 1) THEN [y EXCEPT !.front = Inc(@)]
            ELSE IF y.blocks[b].nmemb # 0 THEN y
            ELSE IF z.block_count = 1 THEN CollapsedBack(z)
            ELSE [z EXCEPT !.front = NextBlock(d, @)]
    BY DEF deque_pop_front
  <2> HIDE DEF b, f, e
  <2>4. y = t
    BY <2>2
  <2>5. z = u
    BY <2>2, <2>4
  <2> HIDE DEF y, z, t, u
  <2>6. QED BY <2>1, <2>2, <2>3, <2>4, <2>5
<1> HIDE DEF e, B, n, cap, f, bk, m
<1>5. t = T
  <2>1. IsTaken(B, n, cap, f, bk, m, f)
    BY <1>1, <1>2, <1>3, TakenIs
  <2>2. QED BY <2>1, <1>1 DEF IsTaken
<1> HIDE DEF t
<1>6. T.blocks[f].nmemb = k - 1
  BY <1>1 DEF Took, Made, Put, Less
<1>7. k > 1 => e = T
  BY <1>2, <1>4, <1>5, <1>6
<1>8. ASSUME k = 1
      PROVE  /\ n > 2 => e = Made(U, n - 1, cap, (f + 1) % cap, bk, m - 1)
             /\ n = 2 => e = Made(X, 1, cap, 0, Dec(X[0].nmemb), m - 1)
  <2> DEFINE y == m - 1
             l == n - 1
  <2>1. u = Made(U, l, cap, f, bk, y)
    <3>1. IsFreed(B, n, cap, f, bk, m, f)
      BY <1>1, <1>3, <1>8, FreedIs
    <3>2. QED BY <3>1, <1>5 DEF IsFreed
  <2>2. t.blocks[f].nmemb = 0
    BY <1>5, <1>6, <1>8
  <2> HIDE DEF u, U, y, T
  <2>3. u.block_count = l /\ u.front = f
    BY <2>1 DEF Made
  <2>4. e = IF l = 1 THEN CollapsedBack(u) ELSE [u EXCEPT !.front = NextBlock(d, f)]
    BY <2>2, <2>3, <1>4
  <2>5. ASSUME n > 2 PROVE e = Made(U, l, cap, (f + 1) % cap, bk, y)
    <3>1. l # 1
      BY <2>5, <1>1
    <3>2. NextBlock(d, f) = (f + 1) % cap
      BY DEF NextBlock, cap
    <3> DEFINE q == (f + 1) % cap
    <3> HIDE DEF q, l
    <3>3. [Made(U, l, cap, f, bk, y) EXCEPT !.front = q] = Made(U, l, cap, q, bk, y)
      BY DEF Made
    <3>4. QED BY <3>1, <3>2, <3>3, <2>1, <2>4 DEF q
  <2>6. ASSUME n = 2 PROVE e = Made(X, 1, cap, 0, Dec(X[0].nmemb), y)
    <3>1. l = 1
      BY <2>6
    <3>2. e = CollapsedBack(Made(U, 1, cap, f, bk, y))
      BY <3>1, <2>1, <2>4
    <3>3. IsLeft(U, cap, f, bk, y, bk)
      BY LeftIs
    <3>4. QED BY <3>2, <3>3 DEF IsLeft
  <2>7. QED BY <2>5, <2>6 DEF y
<1>9. QED BY <1>7, <1>8 DEF e, B, n, cap, f, bk, m

LEMMA RingPopFrontStays ==
  ASSUME client \in Clients, NEW d, NEW s, RingShape(d, s), Len(s) <= MaxItems,
         d.blocks[d.front].nmemb > 1
  PROVE  RingShape(deque_pop_front(d), Tail(s))
<1> DEFINE e == deque_pop_front(d)
           t == Tail(s)
           n == d.block_count
           cap == d.capacity
           B == d.blocks
           f == d.front
           bk == d.back
           m == Len(s)
           R == View(d)
           x == Less(B[f])
<1>1. /\ Well(d) /\ cap \in Nat \ {0} /\ n \in Nat /\ f \in 0 .. cap - 1
      /\ bk = Place(d, n - 1) /\ bk \in Nat /\ Place(d, 0) = f
      /\ s \in Seq(Values) /\ m \in Nat /\ m >= n /\ n >= 2
      /\ R[0] = B[f] /\ B[f].array \in Arr /\ B[f].nmemb \in 1 .. arr_cap
      /\ Ring(R, n, cap, s)
  BY ManyFacts
<1>2. t \in Seq(Values) /\ Len(t) = m - 1 /\ m - 1 \in Nat
  <2>1. Len(s) > 0
    <3> HIDE DEF n
    <3>1. QED BY <1>1
  <2>2. QED BY <2>1, <1>1, Popped
<1>3. e = Made(Put(B, f, x), n, cap, f, bk, m - 1)
  BY FrontTaken DEF Took
<1>4. x \in Entry /\ x.array = B[f].array /\ x.nmemb = B[f].nmemb - 1
  <2> DEFINE b == B[f]
  <2>1. b.array \in Arr /\ b.nmemb - 1 \in Nat
    <3>1. arr_cap \in Nat
      BY Sizes
    <3>2. QED BY SMTT(30), <3>1, <1>1
  <2> HIDE DEF b
  <2>2. Less(b) \in Entry /\ Less(b).array = b.array /\ Less(b).nmemb = b.nmemb - 1
    BY <2>1 DEF Less, Entry
  <2>3. QED BY <2>2 DEF b
<1> HIDE DEF e, t, n, m, x
<1>5. IsPutView(d, e, 0, x, n, bk, m - 1)
  <2>1. 0 \in 0 .. d.capacity - 1
    BY <1>1
  <2>2. QED BY <2>1, <1>1, <1>2, <1>3, <1>4, PutView
<1>6. Ring(View(e), n, cap, t)
  <2> DEFINE V == View(e)
  <2>1. V \in [0 .. cap - 1 -> Entry] /\ V[0] = x
        /\ \A j \in 0 .. cap - 1 : j # 0 => V[j] = R[j]
    BY <1>5 DEF IsPutView
  <2>2. \A j \in 1 .. cap - 1 : V[j] = R[j]
    BY <2>1, <1>1
  <2>3. V[0].array = R[0].array /\ V[0].nmemb = R[0].nmemb - 1 /\ R[0].nmemb > 1
    BY <2>1, <1>1, <1>4
  <2> HIDE DEF V, R, cap
  <2>4. Ring(V, n, cap, Tail(s))
    BY <2>1, <2>2, <2>3, <1>1, RingPopFront
  <2>5. QED BY <2>4 DEF V, t, cap
<1>7. /\ Well(e) /\ e.block_count = n /\ e.capacity = cap /\ e.front = f /\ e.back = bk
      /\ e.nmemb = m - 1 /\ \A i : Place(e, i) = Place(d, i)
  BY <1>5 DEF IsPutView
<1>8. RingShape(e, t)
  BY <1>1, <1>2, <1>6, <1>7 DEF RingShape
<1>9. QED BY <1>8 DEF e, t

LEMMA RingPopFrontDrops ==
  ASSUME client \in Clients, NEW d, NEW s, RingShape(d, s), Len(s) <= MaxItems,
         d.blocks[d.front].nmemb = 1, d.block_count > 2
  PROVE  RingShape(deque_pop_front(d), Tail(s))
<1> DEFINE e == deque_pop_front(d)
           t == Tail(s)
           n == d.block_count
           cap == d.capacity
           B == d.blocks
           f == d.front
           bk == d.back
           m == Len(s)
           R == View(d)
           U == Put(B, f, UnsetBlock)
           q == (f + 1) % cap
           h == Made(U, n - 1, cap, f, bk, m - 1)
<1>1. /\ Well(d) /\ cap \in Nat \ {0} /\ n \in Nat /\ n <= cap /\ f \in 0 .. cap - 1
      /\ bk = Place(d, n - 1) /\ bk \in Nat /\ Place(d, 0) = f
      /\ s \in Seq(Values) /\ m \in Nat /\ m >= n /\ n > 2
      /\ R[0] = B[f] /\ Ring(R, n, cap, s) /\ cap \in Caps
  BY ManyFacts
<1>2. t \in Seq(Values) /\ Len(t) = m - 1 /\ m - 1 \in Nat /\ n - 1 \in Nat
  <2>1. Len(s) > 0 /\ n - 1 \in Nat
    <3> HIDE DEF n
    <3>1. QED BY <1>1
  <2>2. QED BY <2>1, <1>1, Popped
<1>3. e = Made(U, n - 1, cap, q, bk, m - 1)
  BY FrontTaken
<1> HIDE DEF e, t, n, m, q
<1>4. IsPutView(d, h, 0, UnsetBlock, n - 1, bk, m - 1)
  <2>1. 0 \in 0 .. d.capacity - 1 /\ UnsetBlock \in Entry
    BY <1>1, NewFacts
  <2>2. h = Made(Put(d.blocks, Place(d, 0), UnsetBlock), n - 1, d.capacity, d.front, bk, m - 1)
    BY <1>1
  <2> HIDE DEF h
  <2>3. QED BY <2>1, <2>2, <1>1, <1>2, PutView
<1>5. /\ Well(h) /\ h.blocks = U /\ h.capacity = cap /\ h.front = f
      /\ View(h)[0] = UnsetBlock
      /\ \A j \in 0 .. cap - 1 : j # 0 => View(h)[j] = R[j]
      /\ \A i : Place(h, i) = Place(d, i)
  <2>1. h.blocks = U
    BY DEF Made
  <2> HIDE DEF h, U
  <2>2. QED BY <2>1, <1>4 DEF IsPutView
<1> HIDE DEF h
<1>6. q \in 0 .. cap - 1 /\ q \in Nat
  <2>1. q \in 0 .. cap - 1
    BY <1>1, Forward DEF q
  <2>2. QED BY <2>1, <1>1
<1>7. /\ Well(e) /\ e.blocks = U /\ e.block_count = n - 1 /\ e.capacity = cap
      /\ e.front = q /\ e.back = bk /\ e.nmemb = m - 1
  <2>1. U \in Blocks(cap)
    <3>1. h.blocks \in [0 .. h.capacity - 1 -> Entry]
      BY <1>5 DEF Well
    <3>2. QED BY <3>1, <1>5 DEF Blocks, Index
  <2> HIDE DEF U
  <2>2. Is(e, U, n - 1, cap, q, bk, m - 1)
    BY <2>1, <1>1, <1>2, <1>3, <1>6, MadeWell, Zenon
  <2>3. QED BY <2>2, Zenon DEF Is
<1>8. /\ \A j \in 0 .. cap - 2 : Place(e, j) = Place(h, j + 1) /\ View(e)[j] = View(h)[j + 1]
      /\ View(e)[cap - 1] = View(h)[0]
  <2>1. /\ h.front \in 0 .. h.capacity - 1 /\ e.front = (h.front + 1) % h.capacity
        /\ e.capacity = h.capacity /\ e.blocks = h.blocks
    BY <1>1, <1>5, <1>7 DEF q
  <2>2. QED BY <2>1, <1>5, ViewForward
<1> HIDE DEF U, cap, R
<1>9. Ring(View(e), n - 1, cap, t)
  <2> DEFINE V == View(e)
  <2>1. V \in [0 .. cap - 1 -> Entry]
    BY <1>6, <1>7, ViewFacts
  <2>2. V[cap - 1] = UnsetBlock
    BY <1>5, <1>8
  <2>3. \A j \in 0 .. cap - 2 : j + 1 \in 0 .. cap - 1 /\ j + 1 # 0
    BY <1>1
  <2>4. \A j \in 0 .. cap - 2 : V[j] = R[j + 1]
    BY <2>3, <1>5, <1>8
  <2>5. R[0].nmemb = 1
    BY <1>1
  <2> HIDE DEF V
  <2>6. Ring(V, n - 1, cap, Tail(s))
    BY <2>1, <2>2, <2>4, <2>5, <1>1, RingDropFirst
  <2>7. QED BY <2>6 DEF V, t
<1>10. bk = Place(e, (n - 1) - 1)
  <2>1. n - 2 \in 0 .. cap - 2 /\ (n - 2) + 1 = n - 1 /\ (n - 1) - 1 = n - 2
    BY <1>1
  <2>2. Place(e, n - 2) = Place(h, (n - 2) + 1)
    BY <2>1, <1>8
  <2>3. QED BY <2>1, <2>2, <1>1, <1>5
<1>11. RingShape(e, t)
  BY <1>2, <1>6, <1>7, <1>9, <1>10 DEF RingShape
<1>12. QED BY <1>11 DEF e, t

(* The block left at the end of a pop was the first entry's already.        *)
InPlace(d, e, t, end) ==
  d.block_count = 2 /\ end = 0 /\ e.block_count = 1 /\ Loose(e, t) /\ ~Sound(e)

LEMMA NullBreaks ==
  ASSUME NEW d, d.block_count = 1, d.blocks[0].array = NULL
  PROVE  ~Sound(d)
<1>1. InUse(d) = {0}
  BY DEF InUse
<1>2. QED BY <1>1 DEF Sound

(* One block is left, of which the elements start at a.                     *)
LEMMA Collapses ==
  ASSUME client \in Clients, NEW d, d.block_count = 2, NEW p,
         NEW cap \in Caps, NEW X \in [0 .. cap - 1 -> Entry],
         p = 0 => X[0].array = NULL,
         NEW t \in Seq(Values), NEW a \in Nat, NEW bk \in Nat,
         p # 0 => /\ Single(X[0], a, t) /\ bk = Dec(a + Len(t))
                  /\ \A b \in 1 .. cap - 1 : X[b].array = NULL,
         NEW e, e = Made(X, 1, cap, a, bk, Len(t))
  PROVE  OneShape(e, t) \/ InPlace(d, e, t, p)
<1>1. cap \in Nat \ {0} /\ Len(t) \in Nat /\ 1 \in 1 .. cap /\ X \in Blocks(cap) /\ 1 \in Nat
  BY CapsFacts DEF Blocks, Index
<1>2. /\ Well(e) /\ e.blocks = X /\ e.block_count = 1 /\ e.capacity = cap
      /\ e.front = a /\ e.back = bk /\ e.nmemb = Len(t)
  <2>1. Is(e, X, 1, cap, a, bk, Len(t))
    BY <1>1, MadeWell, Zenon
  <2>2. QED BY <2>1, Zenon DEF Is
<1>3. CASE p = 0
  <2>1. ~Sound(e)
    BY <1>2, <1>3, NullBreaks
  <2>2. Loose(e, t)
    BY <1>1, <1>2 DEF Loose
  <2>3. QED BY <2>1, <2>2, <1>2, <1>3 DEF InPlace
<1>4. CASE p # 0
  <2>1. OneShape(e, t)
    BY <1>2, <1>4 DEF OneShape
  <2>2. QED BY <2>1
<1>5. QED BY <1>3, <1>4

LEMMA RingPopFrontCollapses ==
  ASSUME client \in Clients, NEW d, NEW s, RingShape(d, s), Len(s) <= MaxItems,
         d.blocks[d.front].nmemb = 1, d.block_count = 2
  PROVE  LET e == deque_pop_front(d)
         IN  OneShape(e, Tail(s)) \/ InPlace(d, e, Tail(s), d.back)
<1> DEFINE e == deque_pop_front(d)
           t == Tail(s)
           cap == d.capacity
           B == d.blocks
           f == d.front
           p == d.back
           m == Len(s)
           X == Gathered(Put(B, f, UnsetBlock), p)
           bk == Dec(X[0].nmemb)
<1>1. /\ cap \in Nat \ {0} /\ p = Place(d, 2 - 1) /\ Place(d, 0) = f
      /\ s \in Seq(Values) /\ m \in Nat /\ m >= 2
      /\ View(d)[0] = B[f] /\ View(d)[2 - 1] = B[p] /\ Ring(View(d), 2, cap, s) /\ cap \in Caps
  BY ManyFacts
<1>2. t \in Seq(Values) /\ Len(t) = m - 1 /\ m - 1 \in Nat
  <2>1. Len(s) > 0
    BY <1>1
  <2>2. QED BY <2>1, <1>1, Popped
<1>3. e = Made(X, 1, cap, 0, bk, Len(t))
  BY <1>2, FrontTaken
<1>4. /\ X \in [0 .. cap - 1 -> Entry] /\ X[0].nmemb = B[p].nmemb
      /\ p = 0 => X[0].array = NULL
      /\ p # 0 => X[0] = B[p] /\ \A b \in 1 .. cap - 1 : X[b].array = NULL
  <2>1. 0 \in {0, 1} /\ 1 - 0 = 2 - 1 /\ f = Place(d, 0) /\ p = Place(d, 1 - 0)
    BY <1>1
  <2>2. QED BY <2>1, GatheredFacts
<1>5. Single(B[p], 0, t)
  <2>1. View(d)[0].nmemb = 1 /\ View(d)[1] = B[p]
    BY <1>1
  <2>2. QED BY <2>1, <1>1, RingToOne
<1> HIDE DEF X, e, p, B, t
<1>6. 0 + Len(t) = B[p].nmemb /\ 0 \in Nat
  <2>1. B[p].nmemb = Len(t)
    BY <1>5 DEF Single
  <2>2. QED BY <2>1, <1>2
<1>7. bk \in Nat /\ bk = Dec(0 + Len(t))
  <2>1. X[0].nmemb \in Nat /\ SizeMod \in Nat \ {0}
    BY <1>1, <1>4, Sizes DEF Entry
  <2>2. bk \in Nat
    BY <2>1 DEF Dec
  <2>3. QED BY <2>2, <1>4, <1>6
<1> HIDE DEF bk, cap
<1>8. OneShape(e, t) \/ InPlace(d, e, t, p)
  BY <1>1, <1>2, <1>3, <1>4, <1>5, <1>6, <1>7, Collapses
<1>9. QED BY <1>8 DEF e, t, p

LEMMA BackTaken ==
  ASSUME client \in Clients, NEW d, NEW s, RingShape(d, s), Len(s) <= MaxItems
  PROVE  LET B == d.blocks
             n == d.block_count
             cap == d.capacity
             f == d.front
             bk == d.back
             m == Len(s)
             e == deque_pop_back(d)
             U == Put(B, bk, UnsetBlock)
             X == Gathered(U, f)
         IN  /\ B[bk].nmemb > 1 => e = Took(B, n, cap, f, bk, m, bk)
             /\ B[bk].nmemb = 1 /\ n > 2 => e = Made(U, n - 1, cap, f, (bk - 1) % cap, m - 1)
             /\ B[bk].nmemb = 1 /\ n = 2 =>
                  e = Made(X, 1, cap, (arr_cap - X[0].nmemb) % SizeMod, arr_cap - 1, m - 1)
<1> DEFINE B == d.blocks
           n == d.block_count
           cap == d.capacity
           f == d.front
           bk == d.back
           m == Len(s)
           e == deque_pop_back(d)
           U == Put(B, bk, UnsetBlock)
           X == Gathered(U, f)
           t == [d EXCEPT !.nmemb = Dec(@), !.blocks[bk].nmemb = Dec(@)]
           u == Freed(t, bk)
           T == Took(B, n, cap, f, bk, m, bk)
           k == B[bk].nmemb
<1>1. /\ d = Made(B, n, cap, f, bk, m)
      /\ cap \in Caps /\ B \in [0 .. cap - 1 -> Entry]
      /\ n \in Nat /\ n > 1 /\ n >= 2 /\ bk \in 0 .. cap - 1
      /\ m \in Nat /\ m >= n /\ k \in 1 .. arr_cap
  BY ManyFacts
<1>2. m \in Nat \ {0} /\ m < SizeMod /\ k \in Nat /\ k < SizeMod /\ k # 0
  <2>1. arr_cap \in Nat /\ arr_cap < SizeMod /\ SizeMod \in Nat /\ MaxItems < SizeMod
        /\ MaxItems \in Nat /\ m <= MaxItems
    BY Sizes
  <2> HIDE DEF m, k, n
  <2>2. QED BY <1>1, <2>1
<1>3. B \in Blocks(cap) /\ bk \in Index(cap)
  BY <1>1 DEF Blocks, Index
<1>4. e = IF t.blocks[bk].nmemb # 0 THEN t
          ELSE IF u.block_count = 1 THEN CollapsedFront(u)
          ELSE [u EXCEPT !.back = (@ - 1) % d.capacity]
  <2> DEFINE b == IF d.block_count > 1 THEN d.back ELSE 0
             y == [d EXCEPT !.nmemb = Dec(@), !.blocks[b].nmemb = Dec(@)]
             z == Freed(y, b)
  <2>1. d.block_count > 1
    BY <1>1
  <2>2. b = bk
    BY <2>1
  <2>3. e = IF ~(d.block_count > 1) THEN [y EXCEPT !.back = Dec(@)]
            ELSE IF y.blocks[b].nmemb # 0 THEN y
            ELSE IF z.block_count = 1 THEN CollapsedFront(z)
            ELSE [z EXCEPT !.back = (@ - 1) % d.capacity]
    BY DEF deque_pop_back
  <2> HIDE DEF b, bk, e
  <2>4. y = t
    BY <2>2
  <2>5. z = u
    BY <2>2, <2>4
  <2> HIDE DEF y, z, t, u
  <2>6. QED BY <2>1, <2>2, <2>3, <2>4, <2>5
<1> HIDE DEF e, B, n, cap, f, bk, m
<1>5. t = T
  <2>1. IsTaken(B, n, cap, f, bk, m, bk)
    BY <1>1, <1>2, <1>3, TakenIs
  <2>2. QED BY <2>1, <1>1 DEF IsTaken
<1> HIDE DEF t
<1>6. T.blocks[bk].nmemb = k - 1
  BY <1>1 DEF Took, Made, Put, Less
<1>7. k > 1 => e = T
  BY <1>2, <1>4, <1>5, <1>6
<1>8. ASSUME k = 1
      PROVE  /\ n > 2 => e = Made(U, n - 1, cap, f, (bk - 1) % cap, m - 1)
             /\ n = 2 => e = Made(X, 1, cap, (arr_cap - X[0].nmemb) % SizeMod, arr_cap - 1, m - 1)
  <2> DEFINE y == m - 1
             l == n - 1
  <2>1. u = Made(U, l, cap, f, bk, y)
    <3>1. IsFreed(B, n, cap, f, bk, m, bk)
      BY <1>1, <1>3, <1>8, FreedIs
    <3>2. QED BY <3>1, <1>5 DEF IsFreed
  <2>2. t.blocks[bk].nmemb = 0
    BY <1>5, <1>6, <1>8
  <2> HIDE DEF u, U, y, T
  <2>3. u.block_count = l /\ u.back = bk /\ d.capacity = cap
    BY <2>1 DEF Made, cap
  <2>4. e = IF l = 1 THEN CollapsedFront(u) ELSE [u EXCEPT !.back = (bk - 1) % cap]
    BY <2>2, <2>3, <1>4
  <2>5. ASSUME n > 2 PROVE e = Made(U, l, cap, f, (bk - 1) % cap, y)
    <3>1. l # 1
      BY <2>5, <1>1
    <3> DEFINE q == (bk - 1) % cap
    <3> HIDE DEF q, l
    <3>2. [Made(U, l, cap, f, bk, y) EXCEPT !.back = q] = Made(U, l, cap, f, q, y)
      BY DEF Made
    <3>3. QED BY <3>1, <3>2, <2>1, <2>4 DEF q
  <2>6. ASSUME n = 2
        PROVE  e = Made(X, 1, cap, (arr_cap - X[0].nmemb) % SizeMod, arr_cap - 1, y)
    <3>1. l = 1
      BY <2>6
    <3>2. e = CollapsedFront(Made(U, 1, cap, f, bk, y))
      BY <3>1, <2>1, <2>4
    <3>3. IsLeft(U, cap, f, bk, y, f)
      BY LeftIs
    <3>4. QED BY <3>2, <3>3 DEF IsLeft
  <2>7. QED BY <2>5, <2>6 DEF y
<1>9. QED BY <1>7, <1>8 DEF e, B, n, cap, f, bk, m

LEMMA RingPopBackStays ==
  ASSUME client \in Clients, NEW d, NEW s, RingShape(d, s), Len(s) <= MaxItems,
         d.blocks[d.back].nmemb > 1
  PROVE  RingShape(deque_pop_back(d), Front(s))
<1> DEFINE e == deque_pop_back(d)
           t == Front(s)
           n == d.block_count
           cap == d.capacity
           B == d.blocks
           f == d.front
           bk == d.back
           m == Len(s)
           R == View(d)
           x == Less(B[bk])
<1>1. /\ Well(d) /\ cap \in Nat \ {0} /\ n \in Nat /\ f \in 0 .. cap - 1 /\ n - 1 \in 0 .. cap - 1
      /\ bk = Place(d, n - 1) /\ bk \in Nat
      /\ s \in Seq(Values) /\ m \in Nat /\ m >= n /\ n >= 2
      /\ R[n - 1] = B[bk] /\ B[bk].array \in Arr /\ B[bk].nmemb \in 1 .. arr_cap
      /\ Ring(R, n, cap, s)
  BY ManyFacts
<1>2. t \in Seq(Values) /\ Len(t) = m - 1 /\ m - 1 \in Nat
  <2>1. Len(s) > 0
    <3> HIDE DEF n
    <3>1. QED BY <1>1
  <2>2. QED BY <2>1, <1>1, Popped
<1>3. e = Made(Put(B, bk, x), n, cap, f, bk, m - 1)
  BY BackTaken DEF Took
<1>4. x \in Entry /\ x.array = B[bk].array /\ x.nmemb = B[bk].nmemb - 1
  <2> DEFINE b == B[bk]
  <2>1. b.array \in Arr /\ b.nmemb - 1 \in Nat
    <3>1. arr_cap \in Nat
      BY Sizes
    <3>2. QED BY SMTT(30), <3>1, <1>1
  <2> HIDE DEF b
  <2>2. Less(b) \in Entry /\ Less(b).array = b.array /\ Less(b).nmemb = b.nmemb - 1
    BY <2>1 DEF Less, Entry
  <2>3. QED BY <2>2 DEF b
<1> HIDE DEF e, t, n, m, x
<1>5. IsPutView(d, e, n - 1, x, n, bk, m - 1)
  <2>1. e = Made(Put(d.blocks, Place(d, n - 1), x), n, d.capacity, d.front, bk, m - 1)
    BY <1>1, <1>3
  <2>2. QED BY <2>1, <1>1, <1>2, <1>4, PutView
<1>6. Ring(View(e), n, cap, t)
  <2> DEFINE V == View(e)
  <2>1. V \in [0 .. cap - 1 -> Entry] /\ V[n - 1] = x
        /\ \A j \in 0 .. cap - 1 : j # n - 1 => V[j] = R[j]
    BY <1>5 DEF IsPutView
  <2>2. V[n - 1].array = R[n - 1].array /\ V[n - 1].nmemb = R[n - 1].nmemb - 1 /\ R[n - 1].nmemb > 1
    BY <2>1, <1>1, <1>4
  <2> HIDE DEF V, R, cap
  <2>3. Ring(V, n, cap, Front(s))
    BY <2>1, <2>2, <1>1, RingPopBack
  <2>4. QED BY <2>3 DEF V, t, cap
<1>7. /\ Well(e) /\ e.block_count = n /\ e.capacity = cap /\ e.front = f /\ e.back = bk
      /\ e.nmemb = m - 1 /\ \A i : Place(e, i) = Place(d, i)
  BY <1>5 DEF IsPutView
<1>8. RingShape(e, t)
  BY <1>1, <1>2, <1>6, <1>7 DEF RingShape
<1>9. QED BY <1>8 DEF e, t

LEMMA RingPopBackDrops ==
  ASSUME client \in Clients, NEW d, NEW s, RingShape(d, s), Len(s) <= MaxItems,
         d.blocks[d.back].nmemb = 1, d.block_count > 2
  PROVE  RingShape(deque_pop_back(d), Front(s))
<1> DEFINE e == deque_pop_back(d)
           t == Front(s)
           n == d.block_count
           cap == d.capacity
           B == d.blocks
           f == d.front
           bk == d.back
           m == Len(s)
           R == View(d)
           q == (bk - 1) % cap
<1>1. /\ Well(d) /\ cap \in Nat \ {0} /\ n \in Nat /\ n <= cap /\ f \in 0 .. cap - 1
      /\ bk = Place(d, n - 1) /\ n - 1 \in 0 .. cap - 1
      /\ s \in Seq(Values) /\ m \in Nat /\ m >= n /\ n > 2
      /\ R[n - 1] = B[bk] /\ Ring(R, n, cap, s)
  BY ManyFacts
<1>2. t \in Seq(Values) /\ Len(t) = m - 1 /\ m - 1 \in Nat /\ n - 1 \in Nat
  <2>1. Len(s) > 0 /\ n - 1 \in Nat
    <3> HIDE DEF n
    <3>1. QED BY <1>1
  <2>2. QED BY <2>1, <1>1, Popped
<1>3. e = Made(Put(B, bk, UnsetBlock), n - 1, cap, f, q, m - 1)
  BY BackTaken
<1>4. q = Place(d, (n - 1) - 1) /\ q \in Nat
  <2>1. bk = (f + (n - 1)) % cap
    BY <1>1 DEF Place
  <2> HIDE DEF cap, f, n, bk
  <2>2. n \in 1 .. cap /\ n > 1 /\ cap \in Nat \ {0} /\ f \in 0 .. cap - 1
    BY <1>1
  <2>3. (((f + n - 1) % cap) - 1) % cap = (f + (n - 1) - 1) % cap
    BY <2>2, Lasts
  <2>4. f + (n - 1) - 1 = f + ((n - 1) - 1) /\ (n - 1) - 1 \in 0 .. cap - 1
    BY <1>1
  <2>5. q = (f + ((n - 1) - 1)) % cap
    BY <2>1, <2>3, <2>4
  <2> DEFINE w == (n - 1) - 1
  <2>6. w \in 0 .. cap - 1
    BY <2>4
  <2> HIDE DEF q, w
  <2>7. q \in Nat
    <3>1. (f + w) % cap \in 0 .. cap - 1
      BY <2>2, <2>6, Places
    <3>2. q \in 0 .. cap - 1
      BY <2>5, <3>1 DEF w
    <3>3. QED BY <2>2, <3>2
  <2>8. QED BY <2>5, <2>7 DEF Place, cap, f
<1> HIDE DEF e, t, n, m, q
<1>5. IsPutView(d, e, n - 1, UnsetBlock, n - 1, q, m - 1)
  <2>1. e = Made(Put(d.blocks, Place(d, n - 1), UnsetBlock), n - 1, d.capacity, d.front, q, m - 1)
    BY <1>1, <1>3
  <2>2. UnsetBlock \in Entry
    BY NewFacts
  <2>3. QED BY <2>1, <2>2, <1>1, <1>2, <1>4, PutView
<1>6. Ring(View(e), n - 1, cap, t)
  <2> DEFINE V == View(e)
  <2>1. V \in [0 .. cap - 1 -> Entry] /\ V[n - 1] = UnsetBlock
        /\ \A j \in 0 .. cap - 1 : j # n - 1 => V[j] = R[j]
    BY <1>5 DEF IsPutView
  <2>2. R[n - 1].nmemb = 1
    BY <1>1
  <2> HIDE DEF V, R, cap
  <2>3. Ring(V, n - 1, cap, Front(s))
    BY <2>1, <2>2, <1>1, RingDropLast
  <2>4. QED BY <2>3 DEF V, t, cap
<1>7. /\ Well(e) /\ e.block_count = n - 1 /\ e.capacity = cap /\ e.front = f /\ e.back = q
      /\ e.nmemb = m - 1 /\ \A i : Place(e, i) = Place(d, i)
  BY <1>5 DEF IsPutView
<1>8. RingShape(e, t)
  BY <1>1, <1>2, <1>4, <1>6, <1>7 DEF RingShape
<1>9. QED BY <1>8 DEF e, t

LEMMA RingPopBackCollapses ==
  ASSUME client \in Clients, NEW d, NEW s, RingShape(d, s), Len(s) <= MaxItems,
         d.blocks[d.back].nmemb = 1, d.block_count = 2
  PROVE  LET e == deque_pop_back(d)
         IN  OneShape(e, Front(s)) \/ InPlace(d, e, Front(s), d.front)
<1> DEFINE e == deque_pop_back(d)
           t == Front(s)
           cap == d.capacity
           B == d.blocks
           p == d.front
           o == d.back
           m == Len(s)
           X == Gathered(Put(B, o, UnsetBlock), p)
           a == (arr_cap - X[0].nmemb) % SizeMod
           bk == arr_cap - 1
           V == View(d)
<1>1. /\ cap \in Nat \ {0} /\ o = Place(d, 2 - 1) /\ Place(d, 0) = p
      /\ s \in Seq(Values) /\ m \in Nat /\ m >= 2 /\ B[p].nmemb \in 1 .. arr_cap
      /\ V[0] = B[p] /\ V[2 - 1] = B[o] /\ Ring(V, 2, cap, s) /\ cap \in Caps
  BY ManyFacts
<1>2. t \in Seq(Values) /\ Len(t) = m - 1 /\ m - 1 \in Nat
  <2>1. Len(s) > 0
    BY <1>1
  <2>2. QED BY <2>1, <1>1, Popped
<1>3. e = Made(X, 1, cap, a, bk, Len(t))
  BY <1>2, BackTaken
<1>4. /\ X \in [0 .. cap - 1 -> Entry] /\ X[0].nmemb = B[p].nmemb
      /\ p = 0 => X[0].array = NULL
      /\ p # 0 => X[0] = B[p] /\ \A b \in 1 .. cap - 1 : X[b].array = NULL
  <2>1. 1 \in {0, 1} /\ 1 - 1 = 0 /\ o = Place(d, 1) /\ p = Place(d, 1 - 1)
    BY <1>1
  <2>2. QED BY <2>1, GatheredFacts
<1>5. V[1].nmemb = 1
  BY <1>1
<1>6. Single(B[p], Start(V), t)
  <2> HIDE DEF V, cap
  <2>1. QED BY <1>1, <1>5, RingToOne
<1>7. /\ arr_cap \in Nat /\ arr_cap >= 2 /\ arr_cap < SizeMod /\ SizeMod \in Nat
      /\ Start(V) = arr_cap - B[p].nmemb /\ Start(V) \in 0 .. arr_cap - 1
      /\ Start(V) + Len(s) = Fill(1) + V[1].nmemb /\ Fill(1) = arr_cap
  <2>1. arr_cap \in Nat /\ arr_cap >= 2 /\ arr_cap < SizeMod /\ SizeMod \in Nat
    BY Sizes
  <2>2. Fill(1) = arr_cap
    BY Fills
  <2> HIDE DEF V, cap
  <2>3. Start(V) = arr_cap - V[0].nmemb /\ Start(V) \in 0 .. arr_cap - 1
        /\ Start(V) + Len(s) = Fill(2 - 1) + V[2 - 1].nmemb
    BY <1>1, RingFacts
  <2>4. QED BY <2>1, <2>2, <2>3, <1>1
<1> HIDE DEF X, e, p, o, B, t, V
<1>8. a = Start(V)
  <2>1. arr_cap - B[p].nmemb \in 0 .. SizeMod - 1
    BY <1>1, <1>7
  <2>2. (arr_cap - B[p].nmemb) % SizeMod = arr_cap - B[p].nmemb
    BY <2>1, IncDec
  <2>3. QED BY <2>2, <1>4, <1>7
<1> HIDE DEF a
<1>9. a \in Nat /\ bk \in Nat /\ bk = Dec(a + Len(t))
  <2>1. a + Len(t) = arr_cap
    <3>1. a \in Nat /\ m \in Nat /\ arr_cap \in Nat /\ a + m = arr_cap + 1
      BY <1>1, <1>5, <1>7, <1>8
    <3> HIDE DEF m
    <3>2. QED BY <3>1, <1>2
  <2>2. arr_cap \in Nat \ {0}
    BY <1>7
  <2>3. Dec(arr_cap) = arr_cap - 1
    BY <2>2, <1>7, IncDec
  <2>4. QED BY <2>1, <2>3, <1>7, <1>8
<1> HIDE DEF bk, cap
<1>10. OneShape(e, t) \/ InPlace(d, e, t, p)
  BY <1>1, <1>2, <1>3, <1>4, <1>6, <1>8, <1>9, Collapses
<1>11. QED BY <1>10 DEF e, t, p

(* Pops, on any deque in shape.                                             *)
LEMMA Pops ==
  ASSUME client \in Clients, NEW d, NEW s, Shape(d, s), Len(s) <= MaxItems, d.nmemb > 0
  PROVE  LET e == deque_pop_front(d)
             x == deque_pop_back(d)
         IN  /\ Shape(e, Tail(s)) \/ InPlace(d, e, Tail(s), d.back)
             /\ Shape(x, Front(s)) \/ InPlace(d, x, Front(s), d.front)
<1>1. CASE OneShape(d, s)
  <2>1. Len(s) > 0
    BY <1>1 DEF OneShape
  <2>2. QED BY <2>1, <1>1, OnePop DEF Shape
<1>2. CASE RingShape(d, s)
  <2> DEFINE k == d.blocks[d.front].nmemb
             l == d.blocks[d.back].nmemb
             n == d.block_count
  <2>1. k \in 1 .. arr_cap /\ l \in 1 .. arr_cap /\ arr_cap \in Nat /\ n \in Nat /\ n >= 2
    BY <1>2, ManyFacts, Sizes
  <2>2. (k > 1 \/ k = 1) /\ (l > 1 \/ l = 1) /\ (n > 2 \/ n = 2)
    <3> HIDE DEF k, l, n
    <3>1. QED BY <2>1
  <2>3. \/ RingShape(deque_pop_front(d), Tail(s)) \/ OneShape(deque_pop_front(d), Tail(s))
        \/ InPlace(d, deque_pop_front(d), Tail(s), d.back)
    BY <1>2, <2>2, RingPopFrontStays, RingPopFrontDrops, RingPopFrontCollapses
  <2>4. \/ RingShape(deque_pop_back(d), Front(s)) \/ OneShape(deque_pop_back(d), Front(s))
        \/ InPlace(d, deque_pop_back(d), Front(s), d.front)
    BY <1>2, <2>2, RingPopBackStays, RingPopBackDrops, RingPopBackCollapses
  <2>5. QED BY <2>3, <2>4 DEF Shape
<1>3. QED BY <1>1, <1>2 DEF Shape

-----------------------------------------------------------------------------
(* deque_clear.                                                             *)
IsEmptied(e, X, n, cap, f, bk, m) ==
  e = [Made(X, n, cap, f, bk, m) EXCEPT !.front = arr_cap \div 2,
                                        !.back = (arr_cap \div 2) - 1,
                                        !.blocks[0].nmemb = 0,
                                        !.block_count = 1,
                                        !.nmemb = 0]

LEMMA Emptied ==
  ASSUME client \in Clients, NEW cap \in Caps, NEW X \in [0 .. cap - 1 -> Entry],
         NEW n, NEW f, NEW bk, NEW m, NEW e, IsEmptied(e, X, n, cap, f, bk, m)
  PROVE  /\ X[0].array = NULL => Loose(e, << >>) /\ e.block_count = 1 /\ ~Sound(e)
         /\ X[0].array # NULL /\ (\A b \in 1 .. cap - 1 : X[b].array = NULL) => OneShape(e, << >>)
<1> DEFINE h == arr_cap \div 2
           g == h - 1
           x == [array |-> X[0].array, nmemb |-> 0]
           Y == Put(X, 0, x)
<1>1. arr_cap \in Nat /\ arr_cap >= 2 /\ arr_cap < SizeMod
  BY Sizes
<1>2. h \in Nat \ {0} /\ h <= arr_cap /\ g \in Nat
  BY <1>1
<1>3. cap \in Nat \ {0} /\ 0 \in 0 .. cap - 1
  BY CapsFacts
<1>4. X[0] \in Entry
  BY <1>3
<1>5. x \in Entry /\ x.array = X[0].array /\ x.nmemb = 0 /\ [X[0] EXCEPT !.nmemb = 0] = x
  BY <1>4 DEF Entry
<1>6. [X EXCEPT ![0].nmemb = 0] = Y
  <2>1. [X EXCEPT ![0].nmemb = 0] = [X EXCEPT ![0] = [X[0] EXCEPT !.nmemb = 0]]
    BY <1>3
  <2>2. QED BY <2>1, <1>5 DEF Put
<1> HIDE DEF h, g, x
<1>7. Y \in [0 .. cap - 1 -> Entry] /\ Y[0] = x /\ \A b \in 1 .. cap - 1 : Y[b] = X[b]
  BY <1>3, <1>5 DEF Put
<1> HIDE DEF Y
<1>8. e = Made(Y, 1, cap, h, g, 0)
  <2>1. [Made(X, n, cap, f, bk, m) EXCEPT !.front = h] = Made(X, n, cap, h, bk, m)
    BY DEF Made
  <2>2. [Made(X, n, cap, h, bk, m) EXCEPT !.back = g] = Made(X, n, cap, h, g, m)
    BY DEF Made
  <2>3. [Made(X, n, cap, h, g, m) EXCEPT !.blocks[0].nmemb = 0] = Made(Y, n, cap, h, g, m)
    <3>1. [Made(X, n, cap, h, g, m) EXCEPT !.blocks[0].nmemb = 0]
            = Made([X EXCEPT ![0].nmemb = 0], n, cap, h, g, m)
      BY DEF Made
    <3>2. QED BY <3>1, <1>6
  <2>4. [Made(Y, n, cap, h, g, m) EXCEPT !.block_count = 1] = Made(Y, 1, cap, h, g, m)
    BY DEF Made
  <2>5. [Made(Y, 1, cap, h, g, m) EXCEPT !.nmemb = 0] = Made(Y, 1, cap, h, g, 0)
    BY DEF Made
  <2>6. [Made(X, n, cap, f, bk, m) EXCEPT !.front = h, !.back = g, !.blocks[0].nmemb = 0,
                                          !.block_count = 1, !.nmemb = 0]
          = Made(Y, 1, cap, h, g, 0)
    <3>1. [Made(X, n, cap, f, bk, m) EXCEPT !.front = h, !.back = g] = Made(X, n, cap, h, g, m)
      BY <2>1, <2>2
    <3>2. [Made(X, n, cap, f, bk, m) EXCEPT !.front = h, !.back = g, !.blocks[0].nmemb = 0]
            = Made(Y, n, cap, h, g, m)
      BY <3>1, <2>3
    <3>3. [Made(X, n, cap, f, bk, m) EXCEPT !.front = h, !.back = g, !.blocks[0].nmemb = 0,
                                            !.block_count = 1]
            = Made(Y, 1, cap, h, g, m)
      BY <3>2, <2>4
    <3>4. QED BY <3>3, <2>5
  <2>7. QED BY <2>6 DEF h, g, IsEmptied
<1>9. /\ Well(e) /\ e.blocks = Y /\ e.block_count = 1 /\ e.capacity = cap
      /\ e.front = h /\ e.back = g /\ e.nmemb = 0
  <2>1. Y \in Blocks(cap) /\ 1 \in Nat /\ 0 \in Nat /\ h \in Nat
    BY <1>2, <1>7 DEF Blocks, Index
  <2>2. Is(e, Y, 1, cap, h, g, 0)
    BY <2>1, <1>2, <1>8, MadeWell, Zenon
  <2>3. QED BY <2>2, Zenon DEF Is
<1>10. << >> \in Seq(Values) /\ Len(<< >>) = 0
  OBVIOUS
<1>11. X[0].array = NULL => Loose(e, << >>) /\ ~Sound(e)
  <2>1. X[0].array = NULL => ~Sound(e)
    BY <1>5, <1>7, <1>9, NullBreaks
  <2>2. Loose(e, << >>)
    BY <1>3, <1>9, <1>10 DEF Loose
  <2>3. QED BY <2>1, <2>2
<1>12. ASSUME X[0].array # NULL, \A b \in 1 .. cap - 1 : X[b].array = NULL
       PROVE  OneShape(e, << >>)
  <2>1. Single(Y[0], h, << >>)
    <3>1. x.array \in Arr
      BY <1>4, <1>5, <1>12 DEF Entry
    <3>2. h + Len(<< >>) <= arr_cap
      BY <1>1, <1>2, <1>10
    <3>3. \A i \in 0 .. 1 - 1, l \in 0 .. arr_cap - 1 : Fill(i) + l - h + 1 \notin 1 .. Len(<< >>)
      BY <1>10
    <3>4. QED BY <3>1, <3>2, <3>3, <1>2, <1>5, <1>7, <1>10 DEF Single, Held
  <2>2. g = Dec(h + Len(<< >>))
    <3>1. h \in Nat \ {0} /\ h < SizeMod /\ h + 0 = h
      <4>1. SizeMod \in Nat
        BY Sizes
      <4>2. QED BY <4>1, <1>1, <1>2
    <3>2. Dec(h) = h - 1
      BY <3>1, IncDec
    <3>3. QED BY <3>1, <3>2, <1>10 DEF g
  <2>3. \A b \in 1 .. cap - 1 : Y[b].array = NULL
    BY <1>7, <1>12
  <2>4. QED BY <2>1, <2>2, <2>3, <1>9, <1>10 DEF OneShape
<1>13. QED BY <1>9, <1>11, <1>12

LEMMA ClearsOne ==
  ASSUME client \in Clients, NEW d, NEW s, OneShape(d, s)
  PROVE  OneShape(deque_clear(d), << >>)
<1> DEFINE B == d.blocks
           cap == d.capacity
           f == d.front
           bk == d.back
           m == Len(s)
           e == deque_clear(d)
<1>1. /\ d = Made(B, 1, cap, f, bk, m) /\ cap \in Caps /\ B \in [0 .. cap - 1 -> Entry]
      /\ d.block_count = 1 /\ B[0].array \in Arr
      /\ \A b \in 1 .. cap - 1 : B[b].array = NULL
  BY OneFacts
<1>2. e = [d EXCEPT !.front = arr_cap \div 2,
                    !.back = (arr_cap \div 2) - 1,
                    !.blocks[0].nmemb = 0,
                    !.block_count = 1,
                    !.nmemb = 0]
  <2>1. ~(d.block_count > 1)
    BY <1>1
  <2>2. QED BY <2>1, Zenon DEF deque_clear
<1> HIDE DEF B, cap, f, bk, m, e
<1>3. IsEmptied(e, B, 1, cap, f, bk, m)
  BY <1>1, <1>2, Zenon DEF IsEmptied
<1>4. B[0].array # NULL
  BY <1>1, Sizes
<1>5. OneShape(e, << >>)
  BY <1>1, <1>3, <1>4, Emptied
<1>6. QED BY <1>5 DEF e

(* The calls of clear that leave no deque in shape.                         *)
ClearsEnd(d, e) ==
  /\ d.block_count > 1
  /\ \/ e = FAULT /\ d.front = d.capacity - 1
     \/ d.front = 0 /\ Loose(e, << >>) /\ ~Sound(e)

LEMMA ClearsRing ==
  ASSUME client \in Clients, NEW d, NEW s, RingShape(d, s)
  PROVE  LET e == deque_clear(d) IN OneShape(e, << >>) \/ ClearsEnd(d, e)
<1> DEFINE B == d.blocks
           n == d.block_count
           cap == d.capacity
           f == d.front
           bk == d.back
           m == Len(s)
           e == deque_clear(d)
           C == ClearedBlocks(d)
           F == [b \in 0 .. cap - 1 |-> IF b \in C THEN [B[b] EXCEPT !.array = NULL] ELSE B[b]]
           X == Gathered(F, f)
<1>1. /\ d = Made(B, n, cap, f, bk, m) /\ Well(d) /\ cap \in Caps /\ cap \in Nat \ {0}
      /\ B \in [0 .. cap - 1 -> Entry] /\ f \in 0 .. cap - 1 /\ Place(d, 0) = f
      /\ n > 1 /\ n \in Nat /\ n <= cap /\ B[f].array \in Arr /\ Ring(View(d), n, cap, s)
  BY ManyFacts
<1>2. CASE f + 1 >= cap
  <2>1. e = FAULT
    BY <1>1, <1>2 DEF deque_clear, ClearedFrom
  <2>2. f = cap - 1
    BY <1>1, <1>2
  <2>3. QED BY <2>1, <2>2, <1>1 DEF ClearsEnd
<1>3. CASE ~(f + 1 >= cap)
  <2>0. cap \in Nat \ {0} /\ f \in 0 .. cap - 1 /\ f \in Nat /\ n \in Nat /\ n > 1 /\ n <= cap
    BY <1>1
  <2>1. /\ \A j \in 0 .. cap - 1 : Place(d, j) = f => j = 0
        /\ \A b \in 0 .. cap - 1 : \E j \in 0 .. cap - 1 : Place(d, j) = b
    <3> HIDE DEF f, cap
    <3>1. /\ \A j, l \in 0 .. cap - 1 : (f + j) % cap = (f + l) % cap => j = l
          /\ \A b \in 0 .. cap - 1 : \E j \in 0 .. cap - 1 : (f + j) % cap = b
      BY <2>0, Places
    <3>2. 0 \in 0 .. cap - 1
      BY <2>0
    <3>3. \A j : Place(d, j) = (f + j) % cap
      BY DEF Place, f, cap
    <3>4. Place(d, 0) = f
      BY <1>1 DEF f
    <3>5. \A j \in 0 .. cap - 1 : (f + j) % cap = (f + 0) % cap => j = 0
      BY <3>1, <3>2, Zenon
    <3>6. QED BY <3>1, <3>3, <3>4, <3>5
  <2>2. C = {Place(d, j) : j \in 1 .. n - 1}
    <3>1. \A j \in 0 .. n - 2 : j + 1 \in 1 .. n - 1 /\ (f + 1) + j = f + (j + 1)
      <4> HIDE DEF f, cap, n
      <4>1. QED BY <2>0
    <3>2. \A j \in 1 .. n - 1 : j - 1 \in 0 .. n - 2 /\ (f + 1) + (j - 1) = f + j
      <4> HIDE DEF f, cap, n
      <4>1. QED BY <2>0
    <3>3. C = {((f + 1) + j) % cap : j \in 0 .. n - 2}
      BY DEF ClearedBlocks, ClearedFrom
    <3>4. \A j : Place(d, j) = (f + j) % cap
      BY DEF Place
    <3> HIDE DEF f, cap, n, C
    <3>5. C \subseteq {Place(d, j) : j \in 1 .. n - 1}
      BY <3>1, <3>3, <3>4
    <3>6. {Place(d, j) : j \in 1 .. n - 1} \subseteq C
      BY <3>2, <3>3, <3>4
    <3>7. QED BY <3>5, <3>6
  <2>3. f \notin C
    <3>1. \A j \in 1 .. n - 1 : j \in 0 .. cap - 1 /\ j # 0
      BY <1>1
    <3>2. QED BY <3>1, <2>1, <2>2
  <2>4. \A b \in 0 .. cap - 1 : b # f => B[b].array = NULL \/ b \in C
    <3> TAKE b \in 0 .. cap - 1
    <3> HAVE b # f
    <3>1. PICK j \in 0 .. cap - 1 : Place(d, j) = b
      BY <2>1
    <3>2. j # 0
      BY <3>1, <1>1
    <3>3. CASE j \in 1 .. n - 1
      BY <3>1, <3>3, <2>2
    <3>4. CASE j \notin 1 .. n - 1
      <4>1. j \in n .. cap - 1
        BY <3>2, <3>4, <1>1
      <4>2. View(d)[j] = UnsetBlock
        BY <4>1, <1>1 DEF Ring
      <4>3. View(d)[j] = B[b]
        BY <3>1, <1>1, ViewFacts
      <4>4. QED BY <4>2, <4>3, NewFacts
    <3>5. QED BY <3>3, <3>4
  <2> HIDE DEF C
  <2>5. \A b \in 0 .. cap - 1 :
          B[b] \in Entry /\ [B[b] EXCEPT !.array = NULL] \in Entry /\ [B[b] EXCEPT !.array = NULL].array = NULL
    <3>1. \A b \in 0 .. cap - 1 : B[b] \in Entry
      BY <1>1
    <3>2. \A z \in Entry : [z EXCEPT !.array = NULL] \in Entry /\ [z EXCEPT !.array = NULL].array = NULL
      BY DEF Entry
    <3>3. QED BY <3>1, <3>2
  <2>6. /\ F \in [0 .. cap - 1 -> Entry] /\ F[f] = B[f]
        /\ \A b \in 0 .. cap - 1 : b # f => F[b].array = NULL
    <3>1. \A b \in 0 .. cap - 1 : F[b] = IF b \in C THEN [B[b] EXCEPT !.array = NULL] ELSE B[b]
      OBVIOUS
    <3>2. F \in [0 .. cap - 1 -> Entry]
      BY <2>5
    <3> HIDE DEF F
    <3>3. QED BY ZenonT(30), <3>1, <3>2, <2>3, <2>4, <2>5, <1>1
  <2> DEFINE W == [F EXCEPT ![0] = F[f]]
  <2>7. e = [OneBlock(d) EXCEPT !.front = arr_cap \div 2,
                                !.back = (arr_cap \div 2) - 1,
                                !.blocks[0].nmemb = 0,
                                !.block_count = 1,
                                !.nmemb = 0]
    <3>1. d.block_count > 1 /\ ~(ClearedFrom(d) >= d.capacity)
      BY <1>1, <1>3 DEF ClearedFrom
    <3>2. QED BY <3>1, Zenon DEF deque_clear
  <2>8. OneBlock(d) = Made(X, n, cap, f, bk, m)
    <3> DEFINE D == Made(F, n, cap, f, bk, m)
    <3>1. OneBlock(d) = Collapsed([d EXCEPT !.blocks = F], f)
      BY DEF OneBlock, C
    <3> HIDE DEF F, B, n, cap, f, bk, m
    <3>2. [d EXCEPT !.blocks = F] = D
      BY <1>1 DEF Made
    <3>3. D.blocks = F
      BY DEF Made
    <3>4. Collapsed(D, f) = [D EXCEPT !.blocks = X]
      BY <3>3 DEF Collapsed, Gathered
    <3> HIDE DEF X
    <3>5. [D EXCEPT !.blocks = X] = Made(X, n, cap, f, bk, m)
      BY DEF Made
    <3>6. QED BY <3>1, <3>2, <3>4, <3>5
  <2> HIDE DEF F, e, B, n, cap, f, bk, m
  <2>9. IsEmptied(e, X, n, cap, f, bk, m)
    <3> HIDE DEF X
    <3>1. QED BY <2>7, <2>8, Zenon DEF IsEmptied
  <2>10. 0 \in 0 .. cap - 1 /\ \A b \in 1 .. cap - 1 : b \in 0 .. cap - 1 /\ b # 0
    BY <1>1
  <2>11. /\ W \in [0 .. cap - 1 -> Entry] /\ W[0] = B[f] /\ W[f] \in Entry
         /\ \A b \in 0 .. cap - 1 : b # 0 => W[b] = F[b]
    BY <2>6, <2>10, <1>1
  <2> HIDE DEF W
  <2>12. /\ X \in [0 .. cap - 1 -> Entry] /\ X[f].array = NULL
         /\ \A b \in 0 .. cap - 1 : b # f => X[b] = W[b]
    <3>1. X = [W EXCEPT ![f] = [W[f] EXCEPT !.array = NULL]]
      BY DEF Gathered, W
    <3>2. [W[f] EXCEPT !.array = NULL] \in Entry /\ [W[f] EXCEPT !.array = NULL].array = NULL
      BY <2>11 DEF Entry
    <3> HIDE DEF X
    <3>3. QED BY <3>1, <3>2, <2>11, <1>1
  <2> HIDE DEF X
  <2>13. CASE f = 0
    <3>1. Loose(e, << >>) /\ ~Sound(e)
      BY <2>9, <2>12, <2>13, <1>1, Emptied
    <3>2. ClearsEnd(d, e)
      BY <3>1, <2>13, <1>1 DEF ClearsEnd, f, n
    <3>3. QED BY <3>2 DEF e
  <2>14. CASE f # 0
    <3>1. X[0].array # NULL
      BY <2>10, <2>11, <2>12, <2>14, <1>1, Sizes
    <3>2. \A b \in 1 .. cap - 1 : X[b].array = NULL
      BY <2>6, <2>10, <2>11, <2>12
    <3>3. OneShape(e, << >>)
      BY <3>1, <3>2, <2>9, <2>12, <1>1, Emptied
    <3>4. QED BY <3>3 DEF e
  <2>15. QED BY <2>13, <2>14
<1>4. QED BY <1>2, <1>3

-----------------------------------------------------------------------------
(* A deque in shape is Sound, and holds no array besides its blocks'.       *)
LEMMA PlacesOf ==
  ASSUME client \in Clients, NEW d, Well(d), d.front \in 0 .. d.capacity - 1
  PROVE  /\ \A i, j \in 0 .. d.capacity - 1 : Place(d, i) = Place(d, j) => i = j
         /\ \A b \in 0 .. d.capacity - 1 : \E j \in 0 .. d.capacity - 1 : Place(d, j) = b
<1> DEFINE cap == d.capacity
           f == d.front
<1>1. cap \in Nat \ {0} /\ f \in 0 .. cap - 1
  BY WellIsDeque
<1>2. \A j : Place(d, j) = (f + j) % cap
  BY DEF Place
<1> HIDE DEF cap, f
<1>3. /\ \A i, j \in 0 .. cap - 1 : (f + i) % cap = (f + j) % cap => i = j
      /\ \A b \in 0 .. cap - 1 : \E j \in 0 .. cap - 1 : (f + j) % cap = b
  BY ZenonT(30), <1>1, Places
<1>4. QED BY <1>2, <1>3, Zenon DEF cap

Unleaked(d) == \A b \in DOMAIN d.blocks \ InUse(d) : d.blocks[b].array = NULL

LEMMA ShapeSound ==
  ASSUME client \in Clients, NEW d, NEW s, Shape(d, s)
  PROVE  Sound(d) /\ Unleaked(d)
<1>1. d # FAULT
  BY WellIsDeque DEF Shape, OneShape, RingShape
<1>2. CASE OneShape(d, s)
  <2> DEFINE b == d.blocks[0]
             a == d.front
             m == Len(s)
  <2>1. /\ d.block_count = 1 /\ b.array \in Arr /\ b.nmemb = m /\ a \in Nat /\ m \in Nat
        /\ a + m <= arr_cap /\ d.back = Dec(a + m)
        /\ \A l \in 1 .. d.capacity - 1 : d.blocks[l].array = NULL
        /\ d.capacity \in Nat \ {0} /\ DOMAIN d.blocks = 0 .. d.capacity - 1
    BY <1>2, OneFacts
  <2>2. InUse(d) = {0}
    BY <2>1 DEF InUse
  <2>3. a + b.nmemb \in 0 .. arr_cap /\ d.back = Dec(a + b.nmemb) /\ b.array # NULL
    <3>1. arr_cap \in Nat /\ NULL \notin Arr
      BY Sizes
    <3> HIDE DEF a, b, m
    <3>2. QED BY <3>1, <2>1
  <2>4. Sound(d)
    BY <1>1, <2>1, <2>2, <2>3 DEF Sound
  <2>5. Unleaked(d)
    BY <2>1, <2>2 DEF Unleaked
  <2>6. QED BY <2>4, <2>5
<1>3. CASE RingShape(d, s)
  <2> DEFINE n == d.block_count
             cap == d.capacity
             B == View(d)
  <2>1. /\ n \in Nat /\ n >= 2 /\ n <= cap /\ n # 1 /\ cap \in Nat \ {0} /\ Ring(B, n, cap, s)
        /\ Place(d, 0) = d.front /\ d.back = Place(d, n - 1) /\ Well(d)
        /\ d.front \in 0 .. cap - 1 /\ DOMAIN d.blocks = 0 .. cap - 1
    BY <1>3, ManyFacts
  <2>2. \A j \in 0 .. cap - 1 : B[j] = d.blocks[Place(d, j)]
    BY <2>1, ViewFacts
  <2>3. InUse(d) = {Place(d, j) : j \in 0 .. n - 1}
    BY <2>1 DEF InUse, Place
  <2>4. ASSUME NEW j \in 0 .. n - 1
        PROVE  /\ d.blocks[Place(d, j)].array # NULL
               /\ d.blocks[Place(d, j)].nmemb \in 1 .. arr_cap
               /\ Place(d, j) \notin {d.front, d.back} => d.blocks[Place(d, j)].nmemb = arr_cap
    <3>1. j \in 0 .. cap - 1
      BY <2>1
    <3>2. B[j].array \in Arr /\ B[j].nmemb \in 1 .. arr_cap /\ NULL \notin Arr
      BY <2>1, Sizes DEF Ring
    <3>3. Place(d, j) \notin {d.front, d.back} => B[j].nmemb = arr_cap
      <4>1. Place(d, j) \notin {d.front, d.back} => j # 0 /\ j # n - 1
        BY <2>1
      <4>2. j # 0 /\ j # n - 1 => j \in 1 .. n - 2
        BY <2>1
      <4>3. QED BY <4>1, <4>2, <2>1 DEF Ring
    <3>4. QED BY <3>1, <3>2, <3>3, <2>2
  <2>5. Sound(d)
    <3>1. d.back = (d.front + n - 1) % cap
      BY <2>1 DEF Place
    <3> HIDE DEF B
    <3>2. QED BY <1>1, <2>1, <2>3, <2>4, <3>1 DEF Sound
  <2>6. ASSUME NEW b \in DOMAIN d.blocks \ InUse(d) PROVE d.blocks[b].array = NULL
    <3>1. PICK j \in 0 .. cap - 1 : Place(d, j) = b
      BY <2>1, PlacesOf
    <3>2. j \in n .. cap - 1
      <4>1. j \notin 0 .. n - 1
        BY <3>1, <2>3
      <4>2. QED BY <4>1, <2>1
    <3>3. B[j] = UnsetBlock
      BY <3>2, <2>1 DEF Ring
    <3>4. QED BY <3>1, <3>3, <2>2, NewFacts
  <2>7. QED BY <2>5, <2>6 DEF Unleaked
<1>4. QED BY <1>2, <1>3 DEF Shape

-----------------------------------------------------------------------------
(* What a client reads.                                                     *)
Reads(d, s) ==
  /\ \A i \in 1 .. Len(s) : deque_at(d, i - 1) = s[i]
  /\ s # << >> => deque_front(d) = s[1] /\ deque_back(d) = Last(s)

LEMMA LoadIs ==
  ASSUME client \in Clients, NEW d, NEW b, d.blocks[b].array \in Arr, NEW i \in 0 .. arr_cap - 1
  PROVE  Load(d, b, i) = d.blocks[b].array[i]
BY Sizes DEF Load, Reaches

LEMMA OneReads ==
  ASSUME client \in Clients, NEW d, NEW s, OneShape(d, s)
  PROVE  Reads(d, s)
<1> DEFINE b == d.blocks[0]
           a == d.front
           m == Len(s)
<1>1. /\ d.block_count = 1 /\ b.array \in Arr /\ a \in Nat /\ m \in Nat
      /\ a + m <= arr_cap /\ d.back = Dec(a + m) /\ Single(b, a, s) /\ s \in Seq(Values)
  BY OneFacts
<1>2. arr_cap \in Nat /\ arr_cap < SizeMod /\ SizeMod \in Nat
  BY Sizes
<1> HIDE DEF b, a, m
<1>3. ASSUME NEW i \in 1 .. m PROVE Load(d, 0, a + (i - 1)) = s[i]
  <2>1. a + (i - 1) \in 0 .. arr_cap - 1
    BY <1>1, <1>2
  <2>2. Load(d, 0, a + (i - 1)) = b.array[a + (i - 1)]
    BY <2>1, <1>1, LoadIs DEF b
  <2>3. Fill(0) + (a + (i - 1)) - a + 1 = i
    <3>1. Fill(0) = 0
      BY Fills
    <3>2. QED BY <3>1, <1>1
  <2>4. One(b)[0].array[a + (i - 1)] = s[i]
    <3>1. Fill(0) + (a + (i - 1)) - a + 1 \in 1 .. Len(s)
      BY <2>3 DEF m
    <3>2. 0 \in 0 .. 1 - 1
      OBVIOUS
    <3>3. Held(One(b), 1, a, s)
      BY <1>1 DEF Single
    <3>4. One(b)[0].array[a + (i - 1)] = s[Fill(0) + (a + (i - 1)) - a + 1]
      BY <3>1, <3>2, <3>3, <2>1, Zenon DEF Held
    <3>5. QED BY <3>4, <2>3
  <2>5. One(b)[0] = b
    BY DEF One
  <2>6. QED BY <2>2, <2>4, <2>5
<1>4. \A i \in 1 .. m : deque_at(d, i - 1) = s[i]
  BY <1>1, <1>3 DEF deque_at, a
<1>5. ASSUME s # << >> PROVE deque_front(d) = s[1] /\ deque_back(d) = Last(s)
  <2>1. m > 0
    BY <1>1, <1>5 DEF m
  <2>2. 1 \in 1 .. m /\ m \in 1 .. m /\ a + (1 - 1) = a
    BY <1>1, <2>1
  <2>3. d.back = a + (m - 1)
    <3>1. a + m \in Nat \ {0} /\ a + m < SizeMod /\ (a + m) - 1 = a + (m - 1)
      BY <2>1, <1>1, <1>2
    <3>2. Dec(a + m) = (a + m) - 1
      BY <3>1, IncDec
    <3>3. QED BY <3>1, <3>2, <1>1
  <2>4. deque_front(d) = s[1]
    <3>1. Load(d, 0, a + (1 - 1)) = s[1]
      BY <1>3, <2>2
    <3>2. QED BY <3>1, <2>2, <1>1 DEF deque_front, a
  <2>5. deque_back(d) = s[m]
    <3>1. Load(d, 0, a + (m - 1)) = s[m]
      BY <1>3, <2>2
    <3>2. QED BY <3>1, <2>3, <1>1 DEF deque_back
  <2>6. QED BY <2>4, <2>5 DEF Last, m
<1>6. QED BY <1>4, <1>5 DEF Reads, m

(* locate_block's sums: how many elements are in the first j entries of the *)
(* ring.                                                                    *)
Sum(d, s, j) ==
  IF j = 0 THEN 0
  ELSE IF j <= d.block_count - 1 THEN Fill(j) - Start(View(d))
  ELSE Len(s)

LEMMA SumStep ==
  ASSUME client \in Clients, NEW d, NEW s, RingShape(d, s)
  PROVE  /\ Sum(d, s, 0) = 0
         /\ \A j \in 0 .. d.capacity : Sum(d, s, j) \in Int
         /\ \A j \in 1 .. d.capacity :
              Sum(d, s, j) = Sum(d, s, j - 1) + d.blocks[(d.front + j - 1) % d.capacity].nmemb
<1> DEFINE n == d.block_count
           cap == d.capacity
           B == View(d)
           a == Start(B)
           m == Len(s)
           k == B[n - 1].nmemb
<1>1. /\ n \in Nat /\ n >= 2 /\ n <= cap /\ cap \in Nat /\ Ring(B, n, cap, s) /\ Well(d)
      /\ d.front \in 0 .. cap - 1 /\ m \in Nat
  BY ManyFacts
<1>2. /\ a = arr_cap - B[0].nmemb /\ a \in Nat /\ a + m = Fill(n - 1) + k /\ k \in Nat
      /\ B[0].nmemb \in Nat /\ arr_cap \in Nat
  <2>1. arr_cap \in Nat
    BY Sizes
  <2> HIDE DEF n, cap, B
  <2>2. /\ Start(B) = arr_cap - B[0].nmemb /\ Start(B) \in 0 .. arr_cap - 1
        /\ Start(B) + Len(s) = Fill(n - 1) + B[n - 1].nmemb
        /\ B[0].nmemb \in 1 .. arr_cap /\ B[n - 1].nmemb \in 1 .. arr_cap
    BY <1>1, RingFacts
  <2>3. QED BY <2>1, <2>2
<1>3. \A j \in 1 .. cap : d.blocks[(d.front + j - 1) % cap] = B[j - 1]
  <2>1. \A j \in 1 .. cap : j - 1 \in 0 .. cap - 1
    BY <1>1
  <2>2. \A j \in 0 .. cap - 1 : B[j] = d.blocks[Place(d, j)]
    BY <1>1, ViewFacts
  <2>3. \A j \in 1 .. cap : Place(d, j - 1) = (d.front + j - 1) % cap
    BY DEF Place
  <2> HIDE DEF B
  <2>4. QED BY <2>1, <2>2, <2>3
<1>4. Sum(d, s, 0) = 0
  BY DEF Sum
<1>5. \A j \in 0 .. cap : j # 0 /\ j <= n - 1 => Sum(d, s, j) = Fill(j) - a
  BY DEF Sum
<1>6. \A j \in 0 .. cap : j # 0 /\ ~(j <= n - 1) => Sum(d, s, j) = m
  BY DEF Sum
<1>7. \A j \in Nat : Fill(j) \in Nat
  BY Fills
<1>8. B[0].nmemb + a = arr_cap /\ Fill(1) = arr_cap
  <2>1. Fill(1) = arr_cap
    BY Fills
  <2>2. QED BY <2>1, <1>2
<1>9. /\ \A j \in 1 .. n - 2 : B[j].nmemb = arr_cap
      /\ \A j \in n .. cap - 1 : B[j].nmemb = 0
  <2>1. \A j \in n .. cap - 1 : B[j] = UnsetBlock
    BY <1>1 DEF Ring
  <2>2. QED BY <2>1, <1>1, NewFacts DEF Ring
<1>10. 1 \in 0 .. cap /\ 1 <= n - 1
  BY <1>1
<1> HIDE DEF n, cap, B, a, m
<1>11. \A j \in 0 .. cap : Sum(d, s, j) \in Int
  <2> TAKE j \in 0 .. cap
  <2>1. j \in Nat /\ Fill(j) \in Nat
    BY <1>1, <1>7
  <2>2. CASE j = 0
    BY <2>2, <1>4
  <2>3. CASE j # 0 /\ j <= n - 1
    BY <2>1, <2>3, <1>2, <1>5
  <2>4. CASE j # 0 /\ ~(j <= n - 1)
    BY <2>4, <1>1, <1>6
  <2>5. QED BY <2>2, <2>3, <2>4
<1>12. \A j \in 1 .. cap : Sum(d, s, j) = Sum(d, s, j - 1) + B[j - 1].nmemb
  <2> TAKE j \in 1 .. cap
  <2>1. j \in Nat /\ j # 0 /\ j \in 0 .. cap /\ j - 1 \in 0 .. cap /\ j - 1 \in Nat
    BY <1>1
  <2>2. Fill(j) = Fill(j - 1) + arr_cap /\ Fill(j - 1) \in Nat /\ Fill(j) \in Nat
    BY <2>1, FillAt
  <2>3. CASE j = 1
    <3>1. Sum(d, s, 1) = Fill(1) - a /\ 1 - 1 = 0
      BY <1>5, <1>10
    <3>2. Sum(d, s, 1) = B[0].nmemb
      BY <3>1, <1>2, <1>8
    <3>3. QED BY <3>1, <3>2, <2>3, <1>2, <1>4
  <2>4. CASE j # 1 /\ j <= n - 1
    <3>1. j - 1 # 0 /\ j - 1 <= n - 1 /\ j - 1 \in 1 .. n - 2
      BY <2>1, <2>4, <1>1
    <3>2. Sum(d, s, j) = Fill(j) - a /\ Sum(d, s, j - 1) = Fill(j - 1) - a
      BY <2>1, <2>4, <3>1, <1>5
    <3>3. B[j - 1].nmemb = arr_cap
      BY <3>1, <1>9
    <3>4. QED BY <2>2, <3>2, <3>3, <1>2
  <2>5. CASE j = n
    <3>1. j - 1 # 0 /\ j - 1 <= n - 1 /\ ~(j <= n - 1)
      BY <2>1, <2>5, <1>1
    <3>2. Sum(d, s, j) = m /\ Sum(d, s, j - 1) = Fill(j - 1) - a
      BY <2>1, <3>1, <1>5, <1>6
    <3>3. B[j - 1].nmemb = k /\ a + m = Fill(j - 1) + k
      BY <2>5, <1>2 
    <3> HIDE DEF k
    <3>4. QED BY <2>2, <3>2, <3>3, <1>1, <1>2
  <2>6. CASE j > n
    <3>1. j - 1 # 0 /\ ~(j - 1 <= n - 1) /\ ~(j <= n - 1) /\ j - 1 \in n .. cap - 1
      BY <2>1, <2>6, <1>1
    <3>2. Sum(d, s, j) = m /\ Sum(d, s, j - 1) = m /\ B[j - 1].nmemb = 0
      BY <2>1, <3>1, <1>6, <1>9
    <3>3. QED BY <3>2, <1>1
  <2>7. j = 1 \/ (j # 1 /\ j <= n - 1) \/ j = n \/ j > n
    BY <2>1, <1>1
  <2>8. QED BY <2>3, <2>4, <2>5, <2>6, <2>7
<1>13. QED BY <1>3, <1>4, <1>11, <1>12 DEF cap

Found(d, s, index, j) ==
  /\ locate_block(d, index) = [block |-> Place(d, j), index |-> index - Sum(d, s, j)]
  /\ Sum(d, s, j) <= index /\ index < Sum(d, s, j + 1)

LEMMA Located ==
  ASSUME client \in Clients, NEW d, NEW s, RingShape(d, s), NEW index \in 0 .. Len(s) - 1
  PROVE  \E j \in 0 .. d.block_count - 1 : Found(d, s, index, j)
<1> DEFINE n == d.block_count
           cap == d.capacity
           K(j) == d.blocks[(d.front + j - 1) % cap].nmemb
           F(u) == [j \in 0 .. cap |-> IF j = 0 THEN 0 ELSE u[j - 1] + K(j)]
           u == CHOOSE v : v = F(v)
           f == [j \in 0 .. cap |-> Sum(d, s, j)]
           j0 == CHOOSE j \in 0 .. cap - 1 : u[j] <= index /\ index < u[j + 1]
<1>1. /\ n \in Nat /\ n >= 2 /\ n <= cap /\ cap \in Nat /\ Len(s) \in Nat
      /\ n - 1 \in Nat
  <2>1. n \in Nat /\ n >= 2 /\ n <= cap /\ cap \in Nat \ {0} /\ Len(s) \in Nat
    BY ManyFacts
  <2> HIDE DEF n, cap
  <2>2. QED BY <2>1
<1>2. /\ Sum(d, s, 0) = 0
      /\ \A j \in 0 .. cap : Sum(d, s, j) \in Int
      /\ \A j \in 1 .. cap : Sum(d, s, j) = Sum(d, s, j - 1) + K(j)
  BY SumStep
<1>3. locate_block(d, index) = [block |-> (d.front + j0) % cap, index |-> index - u[j0]]
  BY DEF locate_block
<1> HIDE DEF K, n, cap
<1>4. 0 \in 0 .. cap /\ \A j \in 0 .. cap : j = 0 \/ (j # 0 /\ j \in 1 .. cap /\ j - 1 \in 0 .. cap)
  BY <1>1
<1>5. f = F(f)
  <2>1. \A j \in 0 .. cap : f[j] = Sum(d, s, j)
    OBVIOUS
  <2>2. \A j \in 0 .. cap : Sum(d, s, j) = IF j = 0 THEN 0 ELSE f[j - 1] + K(j)
    BY <2>1, <1>2, <1>4
  <2>3. QED BY <2>2
<1>6. u = F(u)
  <2> HIDE DEF F, f
  <2>1. QED BY <1>5
<1> HIDE DEF u, j0
<1>7. \A j \in 0 .. cap : u[j] = IF j = 0 THEN 0 ELSE u[j - 1] + K(j)
  <2>1. \A j \in 0 .. cap : F(u)[j] = IF j = 0 THEN 0 ELSE u[j - 1] + K(j)
    OBVIOUS
  <2> HIDE DEF F
  <2>2. QED BY <2>1, <1>6
<1> HIDE DEF F, f
<1>8. \A j \in 0 .. cap : u[j] = Sum(d, s, j)
  <2> DEFINE S == {j \in 0 .. cap : u[j] = Sum(d, s, j)}
  <2>1. 0 \in S
    BY <1>2, <1>4, <1>7
  <2>2. ASSUME NEW j \in 0 .. cap - 1, j \in S PROVE j + 1 \in S
    <3>1. j + 1 \in 0 .. cap /\ j + 1 \in 1 .. cap /\ j + 1 # 0 /\ (j + 1) - 1 = j
      BY <1>1
    <3>2. u[j + 1] = u[j] + K(j + 1) /\ Sum(d, s, j + 1) = Sum(d, s, j) + K(j + 1)
      BY <3>1, <1>2, <1>7
    <3>3. QED BY <3>1, <3>2, <2>2
  <2>3. \A j \in 0 .. cap : j \in S
    <3> HIDE DEF S
    <3>1. QED BY <1>1, <2>1, <2>2, UpTo
  <2>4. QED BY <2>3
<1>9. \A j \in 0 .. cap : j # 0 /\ ~(j <= n - 1) => Sum(d, s, j) = Len(s)
  BY DEF Sum, n
<1>10. \E j \in 0 .. cap - 1 : u[j] <= index /\ index < u[j + 1]
  <2> DEFINE T == {j \in 0 .. cap : index < Sum(d, s, j)}
  <2>1. cap \in T
    <3>1. cap \in 0 .. cap /\ cap # 0 /\ ~(cap <= n - 1)
      BY <1>1
    <3>2. Sum(d, s, cap) = Len(s)
      BY <3>1, <1>9
    <3>3. QED BY <3>1, <3>2, <1>1
  <2>2. PICK j \in T : \A l \in T : j <= l
    <3>1. T \in SUBSET Nat /\ T # {}
      BY <2>1, <1>1
    <3> HIDE DEF T
    <3>2. QED BY <3>1, Least
  <2>3. j \in 1 .. cap /\ index < Sum(d, s, j)
    BY <2>2, <1>1, <1>2
  <2>4. j - 1 \in 0 .. cap - 1 /\ j - 1 \in 0 .. cap /\ (j - 1) + 1 = j /\ ~(j <= j - 1)
    BY <2>3, <1>1
  <2>5. j - 1 \notin T
    BY <2>2, <2>4
  <2>6. Sum(d, s, j - 1) <= index
    <3>1. Sum(d, s, j - 1) \in Int /\ ~(index < Sum(d, s, j - 1))
      BY <2>4, <2>5, <1>2
    <3>2. QED BY <3>1, <1>1
  <2>7. u[j - 1] <= index /\ index < u[(j - 1) + 1]
    BY <2>3, <2>4, <2>6, <1>8
  <2>8. QED BY <2>4, <2>7
<1>11. j0 \in 0 .. cap - 1 /\ u[j0] <= index /\ index < u[j0 + 1]
  BY <1>10 DEF j0
<1>12. j0 \in 0 .. cap /\ j0 + 1 \in 0 .. cap
  BY <1>1, <1>11
<1>13. j0 \in 0 .. n - 1
  <2>1. CASE j0 <= n - 1
    BY <2>1, <1>1, <1>11
  <2>2. CASE ~(j0 <= n - 1)
    <3>1. j0 # 0
      BY <2>2, <1>1
    <3>2. u[j0] = Len(s)
      BY <3>1, <2>2, <1>8, <1>9, <1>12
    <3>3. QED BY <3>2, <1>1, <1>11
  <2>3. QED BY <2>1, <2>2
<1>14. Found(d, s, index, j0)
  BY <1>3, <1>8, <1>11, <1>12 DEF Found, Place, cap
<1>15. QED BY <1>13, <1>14 DEF n

(* Element i of the ring's block j.                                         *)
LEMMA RingHolds ==
  ASSUME client \in Clients, NEW d, NEW s, RingShape(d, s),
         NEW j \in 0 .. d.block_count - 1, NEW i \in 0 .. arr_cap - 1,
         NEW k \in 1 .. Len(s), Fill(j) + i = Start(View(d)) + (k - 1)
  PROVE  Load(d, Place(d, j), i) = s[k]
<1> DEFINE n == d.block_count
           cap == d.capacity
           B == View(d)
           a == Start(B)
<1>1. /\ n \in Nat /\ n <= cap /\ cap \in Nat /\ Ring(B, n, cap, s) /\ Well(d)
      /\ d.front \in 0 .. cap - 1 /\ Len(s) \in Nat
  BY ManyFacts
<1>2. j \in 0 .. cap - 1 /\ j \in Nat
  BY <1>1
<1>3. B[j] = d.blocks[Place(d, j)]
  BY <1>1, <1>2, ViewFacts
<1>4. B[j].array \in Arr /\ Held(B, n, a, s)
  BY <1>1 DEF Ring
<1>5. Fill(j) + i - a + 1 = k
  <2>1. Fill(j) \in Nat /\ a \in Int /\ i \in Int
    <3>1. arr_cap \in Nat
      BY Sizes
    <3>2. Fill(j) \in Nat
      BY <1>2, Fills
    <3> HIDE DEF n, cap, B
    <3>3. Start(B) \in 0 .. arr_cap - 1
      BY <1>1, RingFacts
    <3>4. QED BY <3>1, <3>2, <3>3
  <2>2. Fill(j) + i = a + (k - 1) /\ k \in Int
    OBVIOUS
  <2> HIDE DEF a
  <2>3. QED BY <2>1, <2>2
<1> HIDE DEF a, B, cap
<1>6. B[j].array[i] = s[Fill(j) + i - a + 1]
  <2>1. Fill(j) + i - a + 1 \in 1 .. Len(s)
    BY <1>5
  <2>2. QED BY <2>1, <1>4, Zenon DEF Held, n
<1>7. Load(d, Place(d, j), i) = d.blocks[Place(d, j)].array[i]
  BY <1>3, <1>4, LoadIs
<1>8. QED BY <1>3, <1>5, <1>6, <1>7

LEMMA RingReads ==
  ASSUME client \in Clients, NEW d, NEW s, RingShape(d, s)
  PROVE  Reads(d, s)
<1> DEFINE n == d.block_count
           cap == d.capacity
           B == View(d)
           a == Start(B)
           m == Len(s)
           k == B[n - 1].nmemb
<1>1. /\ n \in Nat /\ n >= 2 /\ n <= cap /\ cap \in Nat /\ Ring(B, n, cap, s) /\ Well(d)
      /\ d.front \in 0 .. cap - 1 /\ m \in Nat /\ m >= n /\ n # 1 /\ n - 1 \in 0 .. cap - 1
      /\ B[0] = d.blocks[d.front] /\ B[n - 1] = d.blocks[d.back]
      /\ Place(d, 0) = d.front /\ Place(d, n - 1) = d.back
  BY ManyFacts
<1>2. arr_cap \in Nat /\ arr_cap < SizeMod /\ SizeMod \in Nat
  BY Sizes
<1>3. /\ a = arr_cap - B[0].nmemb /\ a \in 0 .. arr_cap - 1 /\ a \in Nat
      /\ a + m = Fill(n - 1) + k /\ k \in 1 .. arr_cap /\ k \in Nat
      /\ B[0].nmemb \in Nat /\ Fill(n - 1) \in Nat
  <2> HIDE DEF n, cap, B
  <2>1. /\ Start(B) = arr_cap - B[0].nmemb /\ Start(B) \in 0 .. arr_cap - 1
        /\ Start(B) + Len(s) = Fill(n - 1) + B[n - 1].nmemb /\ Fill(n - 1) \in Nat
        /\ B[0].nmemb \in 1 .. arr_cap /\ B[n - 1].nmemb \in 1 .. arr_cap
    BY <1>1, RingFacts
  <2>2. QED BY SMTT(30), <2>1, <1>2
<1>4. FirstOf(d, d.front) = a
  <2> DEFINE x == arr_cap - d.blocks[d.front].nmemb
  <2>1. x = a
    BY <1>1, <1>3
  <2> HIDE DEF x, a, B
  <2>2. x \in 0 .. SizeMod - 1
    BY <2>1, <1>2, <1>3
  <2>3. x % SizeMod = x
    BY <2>2, IncDec
  <2>4. FirstOf(d, d.front) = x % SizeMod
    BY DEF FirstOf, x
  <2>5. QED BY <2>1, <2>3, <2>4
<1>5. \A j \in Nat : Fill(j) \in Nat /\ Fill(j + 1) = Fill(j) + arr_cap
  BY Fills
<1>6. Fill(0) = 0 /\ Fill(1) = arr_cap
  BY Fills
<1>7. \A j \in 0 .. n - 1 : Place(d, j) = d.front => j = 0
  <2>1. \A j \in 0 .. n - 1 : j \in 0 .. cap - 1
    BY <1>1
  <2>2. 0 \in 0 .. cap - 1
    BY <1>1
  <2>3. QED BY <2>1, <2>2, <1>1, PlacesOf
<1>8. \A j \in Nat : Sum(d, s, j) = IF j = 0 THEN 0 ELSE IF j <= n - 1 THEN Fill(j) - a ELSE m
  BY DEF Sum
<1>9. ASSUME NEW j \in 0 .. n - 1, NEW i \in 0 .. arr_cap - 1, NEW q \in 1 .. m,
             Fill(j) + i = a + (q - 1)
      PROVE  Load(d, Place(d, j), i) = s[q]
  BY <1>9, RingHolds
<1> HIDE DEF n, cap, B, a, m, k
<1>10. ASSUME NEW q \in 1 .. m PROVE deque_at(d, q - 1) = s[q]
  <2>1. q - 1 \in 0 .. m - 1 /\ q - 1 \in Nat /\ q \in Nat
    BY <1>1
  <2>2. PICK j \in 0 .. n - 1 : Found(d, s, q - 1, j)
    BY <2>1, Located DEF n, m
  <2>3. j \in Nat /\ j + 1 \in Nat
    BY <1>1
  <2>4. /\ locate_block(d, q - 1) = [block |-> Place(d, j), index |-> (q - 1) - Sum(d, s, j)]
        /\ Sum(d, s, j) <= q - 1 /\ q - 1 < Sum(d, s, j + 1)
    BY <2>2 DEF Found
  <2> DEFINE y == (q - 1) - Sum(d, s, j)
  <2>5. deque_at(d, q - 1)
          = Load(d, Place(d, j), IF Place(d, j) = d.front THEN a + y ELSE y)
    <3> HIDE DEF y
    <3>1. /\ locate_block(d, q - 1).block = Place(d, j) /\ locate_block(d, q - 1).index = y
      BY <2>4 DEF y
    <3>2. d.block_count # 1
      BY <1>1 DEF n
    <3>3. QED BY <3>1, <3>2, <1>4 DEF deque_at
  <2>6. CASE j = 0
    <3>1. Sum(d, s, 0) = 0 /\ Sum(d, s, 0 + 1) = Fill(1) - a
      <4>1. 0 + 1 = 1 /\ 1 \in Nat /\ 1 <= n - 1 /\ 1 # 0 /\ 0 \in Nat
        BY <1>1
      <4>2. QED BY <4>1, <1>8
    <3>2. y = q - 1 /\ q - 1 < arr_cap - a
      BY <2>1, <2>4, <2>6, <3>1, <1>6
    <3>3. a + y \in 0 .. arr_cap - 1 /\ Fill(j) + (a + y) = a + (q - 1)
      BY <3>2, <2>1, <2>6, <1>2, <1>3, <1>6
    <3> HIDE DEF y
    <3>4. Load(d, Place(d, j), a + y) = s[q]
      BY <3>3, <1>9
    <3>5. Place(d, j) = d.front
      BY <2>6, <1>1
    <3>6. QED BY <3>4, <3>5, <2>5
  <2>7. CASE j # 0
    <3>1. Sum(d, s, j) = Fill(j) - a
      <4>1. j <= n - 1
        BY <1>1
      <4>2. QED BY <4>1, <2>3, <2>7, <1>8
    <3>2. Fill(j) \in Nat /\ Fill(j + 1) = Fill(j) + arr_cap
      BY <2>3, <1>5
    <3>3. y = (q - 1) - (Fill(j) - a)
      BY <3>1
    <3>4. y >= 0 /\ y \in Int /\ Fill(j) + y = a + (q - 1)
      BY <3>1, <3>2, <3>3, <2>1, <2>4, <1>3
    <3>5. y < arr_cap
      <4>1. CASE j + 1 <= n - 1
        <5>1. Sum(d, s, j + 1) = Fill(j + 1) - a
          <6>1. j + 1 # 0
            BY <2>3
          <6>2. QED BY <6>1, <4>1, <2>3, <1>8
        <5>2. QED BY <5>1, <3>2, <3>3, <2>1, <2>4, <1>2, <1>3
      <4>2. CASE ~(j + 1 <= n - 1)
        <5>1. j = n - 1 /\ j + 1 # 0
          BY <4>2, <2>3, <1>1
        <5>2. Sum(d, s, j + 1) = m
          BY <5>1, <4>2, <2>3, <1>8
        <5>3. a + m = Fill(j) + k
          BY <5>1, <1>3
        <5>4. QED BY <5>2, <5>3, <3>2, <3>3, <2>1, <2>4, <1>1, <1>2, <1>3
      <4>3. QED BY <4>1, <4>2
    <3>6. y \in 0 .. arr_cap - 1
      BY <3>4, <3>5, <1>2
    <3> HIDE DEF y
    <3>7. Load(d, Place(d, j), y) = s[q]
      BY <3>4, <3>6, <1>9
    <3>8. Place(d, j) # d.front
      BY <2>7, <1>7
    <3>9. QED BY <3>7, <3>8, <2>5
  <2>8. QED BY <2>6, <2>7
<1>11. /\ 1 \in 1 .. m /\ m \in 1 .. m /\ 0 \in 0 .. n - 1 /\ n - 1 \in 0 .. n - 1
  BY <1>1
<1>12. deque_front(d) = s[1]
  <2>1. Fill(0) + a = a + (1 - 1)
    BY <1>3, <1>6
  <2>2. Load(d, Place(d, 0), a) = s[1]
    BY <2>1, <1>3, <1>9, <1>11
  <2>3. d.block_count # 1
    BY <1>1 DEF n
  <2>4. QED BY <2>2, <2>3, <1>1, <1>4 DEF deque_front
<1>13. deque_back(d) = s[m]
  <2>1. Dec(k) = k - 1
    <3>1. k \in Nat \ {0} /\ k < SizeMod
      BY <1>2, <1>3
    <3>2. QED BY <3>1, IncDec
  <2>2. k - 1 \in 0 .. arr_cap - 1 /\ Fill(n - 1) + (k - 1) = a + (m - 1)
    BY <1>1, <1>2, <1>3
  <2>3. Load(d, Place(d, n - 1), k - 1) = s[m]
    BY <2>2, <1>9, <1>11
  <2>4. d.block_count # 1 /\ Place(d, n - 1) = d.back /\ d.blocks[d.back].nmemb = k
    BY <1>1 DEF n, k
  <2>5. QED BY <2>1, <2>3, <2>4 DEF deque_back
<1>14. QED BY <1>10, <1>12, <1>13 DEF Reads, Last, m

LEMMA ShapeReads ==
  ASSUME client \in Clients, NEW d, NEW s, Shape(d, s)
  PROVE  Reads(d, s)
BY OneReads, RingReads DEF Shape

-----------------------------------------------------------------------------
(* The inductive invariant: a deque that looks sound has one of the two     *)
(* shapes, and then holds the client's items; one that lost its shape keeps *)
(* the types of its fields.                                                 *)
IInv ==
  /\ client \in Clients /\ items \in Seq(Values) /\ Len(items) <= MaxItems
  /\ dq # FAULT => Loose(dq, items)
  /\ Sound(dq) => Shape(dq, items)

(* The shapes of a client that stays the same.                              *)
LEMMA SameClient ==
  ASSUME client' = client
  PROVE  /\ arr_cap' = arr_cap /\ Values' = Values /\ MaxItems' = MaxItems /\ Ops' = Ops
         /\ Arr' = Arr /\ Entry' = Entry /\ Caps' = Caps
<1>1. arr_cap' = arr_cap /\ Values' = Values /\ MaxItems' = MaxItems /\ Ops' = Ops
  BY DEF arr_cap, Values, MaxItems, Ops
<1>2. Arr' = Arr
  BY <1>1 DEF Arr
<1>3. Entry' = Entry
  BY <1>2 DEF Entry
<1>4. Caps' = Caps
  BY <1>1 DEF Caps
<1>5. QED BY <1>1, <1>2, <1>3, <1>4

LEMMA SameSound ==
  ASSUME client' = client
  PROVE  Sound(dq)' <=> Sound(dq')
BY SameClient DEF Sound, InUse, Dec

LEMMA SameWell ==
  ASSUME client' = client
  PROVE  /\ Well(dq)' <=> Well(dq')
         /\ Loose(dq, items)' <=> Loose(dq', items')
<1>1. Well(dq)' <=> Well(dq')
  BY SameClient DEF Well, Made
<1>2. QED BY <1>1 DEF Loose

LEMMA SameShape ==
  ASSUME client' = client
  PROVE  Shape(dq, items)' <=> Shape(dq', items')
<1>1. OneShape(dq, items)' <=> OneShape(dq', items')
  <2>1. Single(dq.blocks[0], dq.front, items)' <=> Single(dq'.blocks[0], dq'.front, items')
    BY SameClient DEF Single, Held, Fill, One
  <2>2. QED BY <2>1, SameWell DEF OneShape, Dec
<1>2. RingShape(dq, items)' <=> RingShape(dq', items')
  <2>1. View(dq)' = View(dq') /\ Place(dq, dq.block_count - 1)' = Place(dq', dq'.block_count - 1)
    BY DEF View, Place
  <2>2. Ring(View(dq), dq.block_count, dq.capacity, items)'
          <=> Ring(View(dq'), dq'.block_count, dq'.capacity, items')
    BY <2>1, SameClient DEF Ring, Held, Fill, Start, UnsetBlock
  <2>3. QED BY <2>1, <2>2, SameWell DEF RingShape
<1>3. QED BY <1>1, <1>2 DEF Shape

(* A deque is created with one block, empty and in the middle of its array. *)
LEMMA Starts ==
  ASSUME client \in Clients
  PROVE  OneShape(Created, << >>)
<1> DEFINE h == arr_cap \div 2
           B == [b \in {0} |-> NewBlock]
           d == Made(B, 1, 1, h, h - 1, 0)
<1>1. arr_cap \in Nat /\ arr_cap >= 2 /\ arr_cap < SizeMod /\ SizeMod \in Nat
  BY Sizes
<1>2. h \in Nat \ {0} /\ h <= arr_cap /\ h - 1 \in Nat /\ h < SizeMod
  BY <1>1
<1>3. NewBlock \in Entry /\ NewBlock.array \in Arr /\ NewBlock.nmemb = 0
  BY DEF NewBlock, Entry, Arr
<1>4. {0} = 0 .. 1 - 1
  OBVIOUS
<1>5. B \in Blocks(1) /\ B[0] = NewBlock
  BY <1>3, <1>4 DEF Blocks, Index
<1>6. Created = d
  BY DEF Created, Made
<1> HIDE DEF h, B
<1>7. /\ Well(d) /\ d.blocks = B /\ d.block_count = 1 /\ d.capacity = 1
      /\ d.front = h /\ d.back = h - 1 /\ d.nmemb = 0
  <2>1. Is(d, B, 1, 1, h, h - 1, 0)
    BY <1>2, <1>5, CapsFacts, MadeWell
  <2> HIDE DEF d
  <2>2. QED BY <2>1, Zenon DEF Is
<1> HIDE DEF d
<1>8. << >> \in Seq(Values) /\ Len(<< >>) = 0
  OBVIOUS
<1>9. Single(B[0], h, << >>)
  <2>1. h + Len(<< >>) <= arr_cap
    BY <1>1, <1>2, <1>8
  <2>2. \A j \in 0 .. 1 - 1, i \in 0 .. arr_cap - 1 : Fill(j) + i - h + 1 \notin 1 .. Len(<< >>)
    BY <1>8
  <2>3. QED BY <2>1, <2>2, <1>2, <1>3, <1>5, <1>8 DEF Single, Held
<1>10. h - 1 = Dec(h + Len(<< >>))
  <2>1. Dec(h) = h - 1 /\ h + 0 = h
    BY <1>2, IncDec
  <2>2. QED BY <2>1, <1>8
<1>11. \A b \in 1 .. 1 - 1 : B[b].array = NULL
  OBVIOUS
<1>12. OneShape(d, << >>)
  BY <1>7, <1>8, <1>9, <1>10, <1>11 DEF OneShape
<1>13. QED BY <1>6, <1>12

LEMMA InvInit == Init => IInv
<1> SUFFICES ASSUME Init PROVE IInv
  OBVIOUS
<1>1. client \in Clients /\ dq = Created /\ items = << >>
  BY DEF Init
<1>2. Shape(dq, items)
  BY <1>1, Starts DEF Shape
<1>3. items \in Seq(Values) /\ Len(items) = 0 /\ MaxItems \in Nat
  BY <1>1, Sizes
<1>4. Loose(dq, items)
  BY <1>1, <1>2, ShapeLoose
<1>5. QED BY <1>1, <1>2, <1>3, <1>4 DEF IInv

(* The invariant of the next state, said of the next deque and items.       *)
LEMMA InvNext ==
  ASSUME client \in Clients, client' = client, items' \in Seq(Values), Len(items') <= MaxItems,
         dq' # FAULT => Loose(dq', items'),
         Sound(dq') => Shape(dq', items')
  PROVE  IInv'
BY SameClient, SameSound, SameWell, SameShape DEF IInv

(* What a step makes of a deque in shape: one in shape, or one that no      *)
(* longer looks so because of one of the three calls.                       *)
Keeps == Shape(dq', items')
Grows == GrewPastEmpty(dq, dq', items')
InPlaceFront == items' = Tail(items) /\ InPlace(dq, dq', items', dq.back)
InPlaceBack == items' = Front(items) /\ InPlace(dq, dq', items', dq.front)
ClearsAnEnd == items' = << >> /\ ClearsEnd(dq, dq')
Fits == items' \in Seq(Values) /\ Len(items') <= MaxItems
Effect == Fits /\ (Keeps \/ Grows \/ InPlaceFront \/ InPlaceBack \/ ClearsAnEnd)

LEMMA PushEffects ==
  ASSUME IInv, ~PastDamage, PushFront \/ PushBack
  PROVE  Effect
<1>1. /\ client \in Clients /\ Shape(dq, items) /\ Len(items) < MaxItems
      /\ items \in Seq(Values) /\ MaxItems \in Nat
  BY Sizes DEF IInv, PushFront, PushBack, Running
<1>2. CASE PushFront
  <2>1. PICK v \in Values : dq' = deque_push_front(dq, v) /\ items' = <<v>> \o items
    BY <1>2 DEF PushFront
  <2>2. Shape(dq', items') \/ GrewPastEmpty(dq, dq', items')
    BY <1>1, <2>1, Pushes
  <2>3. Len(items) \in Nat /\ items' \in Seq(Values) /\ Len(items') = Len(items) + 1
    BY <1>1, <2>1, Ends
  <2>4. Fits
    BY <2>3, <1>1 DEF Fits
  <2>5. QED BY <2>2, <2>4 DEF Effect, Keeps, Grows
<1>3. CASE PushBack
  <2>1. PICK v \in Values : dq' = deque_push_back(dq, v) /\ items' = Append(items, v)
    BY <1>3 DEF PushBack
  <2>2. Shape(dq', items') \/ GrewPastEmpty(dq, dq', items')
    BY <1>1, <2>1, Pushes
  <2>3. Len(items) \in Nat /\ items' \in Seq(Values) /\ Len(items') = Len(items) + 1
    BY <1>1, <2>1, Ends
  <2>4. Fits
    BY <2>3, <1>1 DEF Fits
  <2>5. QED BY <2>2, <2>4 DEF Effect, Keeps, Grows
<1>4. QED BY <1>2, <1>3

LEMMA PopEffects ==
  ASSUME IInv, ~PastDamage, PopFront \/ PopBack
  PROVE  Effect
<1>1. /\ client \in Clients /\ Shape(dq, items) /\ Len(items) <= MaxItems /\ dq.nmemb > 0
      /\ items \in Seq(Values) /\ MaxItems \in Nat
  BY Sizes DEF IInv, PopFront, PopBack, MayPop, Running
<1>2. Len(items) \in Nat /\ Len(items) > 0
  BY <1>1, ShapeLoose DEF Loose
<1>3. /\ Tail(items) \in Seq(Values) /\ Len(Tail(items)) = Len(items) - 1
      /\ Front(items) \in Seq(Values) /\ Len(Front(items)) = Len(items) - 1
  BY <1>1, <1>2, Popped
<1>4. CASE PopFront
  <2>1. dq' = deque_pop_front(dq) /\ items' = Tail(items)
    BY <1>4 DEF PopFront
  <2>2. Shape(dq', items') \/ InPlace(dq, dq', items', dq.back)
    BY <1>1, <2>1, Pops
  <2>3. Fits
    BY <1>1, <1>2, <1>3, <2>1 DEF Fits
  <2>4. QED BY <2>1, <2>2, <2>3 DEF Effect, Keeps, InPlaceFront
<1>5. CASE PopBack
  <2>1. dq' = deque_pop_back(dq) /\ items' = Front(items)
    BY <1>5 DEF PopBack
  <2>2. Shape(dq', items') \/ InPlace(dq, dq', items', dq.front)
    BY <1>1, <2>1, Pops
  <2>3. Fits
    BY <1>1, <1>2, <1>3, <2>1 DEF Fits
  <2>4. QED BY <2>1, <2>2, <2>3 DEF Effect, Keeps, InPlaceBack
<1>6. QED BY <1>4, <1>5

LEMMA ClearEffect ==
  ASSUME IInv, ~PastDamage, Clear
  PROVE  Effect
<1>1. client \in Clients /\ Shape(dq, items) /\ dq' = deque_clear(dq) /\ items' = << >>
  BY DEF IInv, Clear, Running
<1>2. Fits
  BY <1>1, Sizes DEF Fits
<1>3. CASE OneShape(dq, items)
  BY <1>1, <1>2, <1>3, ClearsOne DEF Effect, Keeps, Shape
<1>4. CASE RingShape(dq, items)
  BY <1>1, <1>2, <1>4, ClearsRing DEF Effect, Keeps, ClearsAnEnd, Shape
<1>5. QED BY <1>1, <1>3, <1>4 DEF Shape

(* Only a clear of a ring that starts at the control array's last entry     *)
(* leaves no deque; only the three calls one that does not look sound.      *)
LEMMA EffectInv ==
  ASSUME IInv, client' = client, Effect
  PROVE  /\ IInv'
         /\ ~Sound(dq') => ClearsRingEnd \/ (dq' # FAULT /\ (GrowsPastEmpty \/ CollapsesInPlace))
<1>1. client \in Clients /\ Fits
  BY DEF IInv, Effect
<1>2. dq' = FAULT => ~Sound(dq')
  BY DEF Sound
<1>3. CASE Keeps
  <2>1. Loose(dq', items') /\ Sound(dq')
    BY <1>1, <1>3, ShapeLoose, ShapeSound DEF Keeps
  <2>2. IInv'
    BY <1>1, <1>3, <2>1, InvNext DEF Keeps, Fits
  <2>3. QED BY <2>1, <2>2
<1>4. CASE Grows
  <2>1. /\ dq.block_count = 1 /\ dq.nmemb = 0 /\ dq'.block_count = 2
        /\ Loose(dq', items') /\ ~Sound(dq')
    BY <1>4 DEF Grows, GrewPastEmpty
  <2>2. dq' # FAULT
    BY <1>1, <2>1, WellIsDeque DEF Loose
  <2>3. IInv'
    BY <1>1, <2>1, InvNext DEF Fits
  <2>4. QED BY <2>1, <2>2, <2>3 DEF GrowsPastEmpty
<1>5. CASE InPlaceFront \/ InPlaceBack
  <2>1. /\ dq.block_count = 2 /\ dq'.block_count = 1 /\ Loose(dq', items') /\ ~Sound(dq')
        /\ \/ dq.back = 0 /\ items' = Tail(items)
           \/ dq.front = 0 /\ items' = Front(items)
    BY <1>5 DEF InPlaceFront, InPlaceBack, InPlace
  <2>2. dq' # FAULT
    BY <1>1, <2>1, WellIsDeque DEF Loose
  <2>3. IInv'
    BY <1>1, <2>1, InvNext DEF Fits
  <2>4. QED BY <2>1, <2>2, <2>3 DEF CollapsesInPlace
<1>6. CASE ClearsAnEnd
  <2>1. /\ items' = << >> /\ dq.block_count > 1 /\ dq.front \in {0, dq.capacity - 1}
        /\ dq' = FAULT \/ (Loose(dq', items') /\ ~Sound(dq'))
    BY <1>6 DEF ClearsAnEnd, ClearsEnd
  <2>2. IInv'
    BY <1>1, <1>2, <2>1, InvNext DEF Fits
  <2>3. QED BY <2>1, <2>2 DEF ClearsRingEnd
<1>7. QED BY <1>3, <1>4, <1>5, <1>6 DEF Effect

LEMMA StepInv ==
  ASSUME IInv, ~PastDamage, [Next /\ UNCHANGED client]_vars
  PROVE  IInv'
<1>1. CASE Next /\ client' = client
  <2>1. Effect
    BY <1>1, PushEffects, PopEffects, ClearEffect DEF Next
  <2>2. QED BY <1>1, <2>1, EffectInv
<1>2. CASE UNCHANGED vars
  <2>1. client' = client /\ dq' = dq /\ items' = items
    BY <1>2 DEF vars
  <2>2. /\ client \in Clients /\ items' \in Seq(Values) /\ Len(items') <= MaxItems
        /\ dq' # FAULT => Loose(dq', items')
        /\ Sound(dq') => Shape(dq', items')
    BY <2>1 DEF IInv
  <2>3. QED BY <2>1, <2>2, InvNext
<1>3. QED BY <1>1, <1>2

LEMMA InvSafe == IInv => BlocksSafe /\ SoundIsSequence
<1> SUFFICES ASSUME IInv PROVE BlocksSafe /\ SoundIsSequence
  OBVIOUS
<1>1. TypeOK
  <2> SUFFICES ASSUME dq # FAULT
               PROVE  /\ DOMAIN dq.blocks = 0 .. dq.capacity - 1
                      /\ dq.capacity \in Caps
                      /\ dq.block_count \in 1 .. dq.capacity
                      /\ dq.block_count > 1 => {dq.front, dq.back} \subseteq DOMAIN dq.blocks
                      /\ dq.nmemb = Len(items)
    BY DEF TypeOK, Caps
  <2>1. Loose(dq, items)
    BY DEF IInv
  <2>2. QED BY <2>1 DEF Loose, Well
<1>2. NoBlockLeaked
  BY ShapeSound DEF NoBlockLeaked, IInv, Unleaked
<1>3. SoundIsSequence
  BY ShapeReads DEF SoundIsSequence, IInv, Reads
<1>4. QED BY <1>1, <1>2, <1>3 DEF BlocksSafe

(* A deque that its client has only used at the ends, followed until it     *)
(* loses its shape: the control array keeps its types and owns no block     *)
(* that destroy would not free, and at, front and back return the elements  *)
(* of the sequence that was pushed and not popped.  For elements of any     *)
(* size, blocks of any length and any number of elements that a size_t can  *)
(* count.                                                                   *)
THEOREM EndsCorrect ==
  ASSUME ~PastDamage
  PROVE  Spec => [](BlocksSafe /\ SoundIsSequence)
<1>1. Spec => []IInv
  BY InvInit, StepInv, PTL DEF Spec
<1>2. QED BY <1>1, InvSafe, PTL

(* Such a deque loses its shape in three calls only: a push that grows past *)
(* an empty single block, a pop that leaves one block, in the first entry   *)
(* of the control array, and a clear of a ring that starts at an end of it. *)
THEOREM ShapeLostInThreeCalls ==
  ASSUME ~PastDamage
  PROVE  Spec => ShapeKept
<1>1. Spec => []IInv
  BY InvInit, StepInv, PTL DEF Spec
<1>2. ASSUME IInv, [Next /\ UNCHANGED client]_vars
      PROVE  [OnlyEnds /\ Sound(dq) /\ ~Sound(dq') =>
                ClearsRingEnd \/ (dq' # FAULT /\ (GrowsPastEmpty \/ CollapsesInPlace))]_vars
  <2>1. CASE Next /\ client' = client
    <3>1. Effect
      BY <1>2, <2>1, PushEffects, PopEffects, ClearEffect DEF Next
    <3>2. QED BY <1>2, <2>1, <3>1, EffectInv
  <2>2. CASE UNCHANGED vars
    BY <2>2
  <2>3. QED BY <1>2, <2>1, <2>2
<1>3. QED BY <1>1, <1>2, PTL DEF Spec, ShapeKept
=============================================================================
