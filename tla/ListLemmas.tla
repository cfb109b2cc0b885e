----------------------------- MODULE ListLemmas -----------------------------
(***************************************************************************)
(* Lemmas several modules need.  About sequences without duplicates, as the *)
(* lists of slots that several modules keep: what pushing, popping,         *)
(* inserting and removing do to the positions and to the set of the         *)
(* elements, and to the links that lead through a free list threaded        *)
(* through the slots it lists.  And, to argue step by step about what a     *)
(* loop computes: the least element of a set of numbers, and that a         *)
(* function defined by recursion on its predecessor exists.                 *)
(***************************************************************************)
EXTENDS Integers, Sequences, SequencesExt, TLAPS, SequenceTheorems,
        FiniteSetTheorems, WellFoundedInduction

(* A set of naturals that is not empty has a least element.                 *)
LEMMA Least ==
  ASSUME NEW S \in SUBSET Nat, S # {}
  PROVE  \E m \in S : \A n \in S : m <= n
<1>1. IsWellFoundedOn(OpToRel(<, Nat), Nat)
  BY NatLessThanWellFounded
<1>2. PICK m \in S : \A y \in S : ~(<<y, m>> \in OpToRel(<, Nat))
  BY <1>1, WFMin
<1>3. \A y \in S : y < m => <<y, m>> \in OpToRel(<, Nat)
  BY DEF OpToRel
<1>4. \A y \in S : ~(y < m)
  BY <1>2, <1>3
<1>5. QED BY <1>4

(* Induction up to n, on the set of the numbers that satisfy a claim.       *)
LEMMA UpTo ==
  ASSUME NEW n \in Nat, NEW S, 0 \in S,
         \A i \in 0 .. n - 1 : i \in S => i + 1 \in S
  PROVE  \A i \in 0 .. n : i \in S
<1>1. SUFFICES ASSUME {i \in 0 .. n : i \notin S} # {} PROVE FALSE
  OBVIOUS
<1>2. PICK m \in {i \in 0 .. n : i \notin S} : \A k \in {i \in 0 .. n : i \notin S} : m <= k
  <2>1. {i \in 0 .. n : i \notin S} \in SUBSET Nat
    OBVIOUS
  <2>2. QED BY <1>1, <2>1, Least
<1>3. m - 1 \in 0 .. n - 1 /\ m - 1 \in S
  <2>1. m # 0 /\ m \in 0 .. n
    OBVIOUS
  <2>2. m - 1 \in 0 .. n /\ ~(m <= m - 1)
    BY <2>1
  <2>3. QED BY <1>2, <2>1, <2>2
<1>4. m - 1 + 1 \in S /\ m \in 0 .. n
  BY <1>3
<1>5. QED BY <1>4

(* The least and the greatest element of a bounded set of integers.         *)
LEMMA MinMax ==
  ASSUME NEW lo \in Int, NEW hi \in Int, NEW S \in SUBSET (lo .. hi), S # {}
  PROVE  /\ Min(S) \in S /\ \A x \in S : Min(S) <= x
         /\ Max(S) \in S /\ \A x \in S : Max(S) >= x
<1>1. \E m \in S : \A x \in S : m <= x
  <2> DEFINE T == {x - lo : x \in S}
  <2>1. T \in SUBSET Nat /\ T # {}
    OBVIOUS
  <2>2. PICK t \in T : \A x \in T : t <= x
    BY <2>1, Least
  <2>3. PICK m \in S : t = m - lo
    OBVIOUS
  <2>4. \A x \in S : m - lo <= x - lo
    BY <2>2, <2>3
  <2>5. \A x \in S : m <= x
    BY <2>4
  <2>6. QED BY <2>5
<1>2. \E m \in S : \A x \in S : m >= x
  <2> DEFINE T == {hi - x : x \in S}
  <2>1. T \in SUBSET Nat /\ T # {}
    OBVIOUS
  <2>2. PICK t \in T : \A x \in T : t <= x
    BY <2>1, Least
  <2>3. PICK m \in S : t = hi - m
    OBVIOUS
  <2>4. \A x \in S : hi - m <= hi - x
    BY <2>2, <2>3
  <2>5. \A x \in S : m >= x
    BY <2>4
  <2>6. QED BY <2>5
<1>3. QED BY <1>1, <1>2, Zenon DEF Min, Max

(* What a loop that takes step[i] in turn i computes exists.                *)
Turns(X, n) == [1 .. n -> [X -> X]]
Runs(X, n, start, step) ==
  \E f \in [0 .. n -> X] : f[0] = start /\ \A i \in 1 .. n : f[i] = step[i][f[i - 1]]
LEMMA Loop ==
  ASSUME NEW X, NEW n \in Nat, NEW start \in X, NEW step \in Turns(X, n)
  PROVE  Runs(X, n, start, step)
<1> USE DEF Turns
<1> DEFINE Ran(m, f) == f[0] = start /\ \A i \in 1 .. m : f[i] = step[i][f[i - 1]]
           S == {m \in 0 .. n : \E f \in [0 .. m -> X] : Ran(m, f)}
<1>1. 0 \in S
  <2>1. [i \in 0 .. 0 |-> start] \in [0 .. 0 -> X] /\ Ran(0, [i \in 0 .. 0 |-> start])
    OBVIOUS
  <2>2. 0 \in 0 .. n
    OBVIOUS
  <2>3. QED BY <2>1, <2>2
<1>2. ASSUME NEW m \in 0 .. n - 1, m \in S PROVE m + 1 \in S
  <2>1. PICK f \in [0 .. m -> X] : Ran(m, f)
    BY <1>2
  <2> DEFINE g == [i \in 0 .. m + 1 |-> IF i = m + 1 THEN step[m + 1][f[m]] ELSE f[i]]
  <2>2. m + 1 \in 1 .. n /\ f[m] \in X
    OBVIOUS
  <2>3. step[m + 1][f[m]] \in X
    BY <2>2
  <2>4. g \in [0 .. m + 1 -> X]
    BY <2>3
  <2>5. g[0] = start
    BY <2>1
  <2>6. \A i \in 1 .. m : g[i] = step[i][g[i - 1]]
    BY <2>1
  <2>7. g[m + 1] = step[m + 1][g[m]]
    OBVIOUS
  <2>8. \A i \in 1 .. m + 1 : g[i] = step[i][g[i - 1]]
    <3>1. \A i \in 1 .. m + 1 : i \in 1 .. m \/ i = m + 1
      OBVIOUS
    <3>2. g[m + 1] = step[m + 1][g[m + 1 - 1]]
      BY <2>7
    <3> HIDE DEF g
    <3>3. QED BY <2>6, <3>1, <3>2
  <2>9. m + 1 \in 0 .. n
    OBVIOUS
  <2> HIDE DEF g
  <2>10. Ran(m + 1, g)
    BY <2>5, <2>8
  <2> HIDE DEF Ran
  <2>11. QED BY <2>4, <2>9, <2>10
<1>3. n \in S
  <2> HIDE DEF S
  <2>1. \A i \in 0 .. n - 1 : i \in S => i + 1 \in S
    BY <1>2
  <2>2. \A i \in 0 .. n : i \in S
    BY <1>1, <2>1, UpTo
  <2>3. QED BY <2>2
<1>4. QED BY <1>3 DEF Runs

(* Powers of two, which no prover knows, are the numbers of subsets.        *)
LEMMA Doubling ==
  ASSUME NEW n \in Nat
  PROVE  /\ 2 ^ 0 = 1
         /\ 2 ^ n \in Nat \ {0}
         /\ 2 ^ (n + 1) = 2 * 2 ^ n
<1> DEFINE S == 1 .. n
           A == SUBSET S
           B == {U \union {n + 1} : U \in A}
           f == [U \in A |-> U \union {n + 1}]
<1>1. IsFiniteSet(S) /\ Cardinality(S) = n
  BY FS_Interval
<1>2. IsFiniteSet(A) /\ Cardinality(A) = 2 ^ n
  BY <1>1, FS_SUBSET
<1>3. 2 ^ n \in Nat \ {0}
  <2>1. {} \in A
    OBVIOUS
  <2> HIDE DEF A
  <2>2. Cardinality(A) \in Nat /\ Cardinality(A) # 0
    BY <1>2, <2>1, FS_CardinalityType, FS_EmptySet
  <2>3. QED BY <1>2, <2>2
<1>4. IsFiniteSet(B) /\ Cardinality(B) = 2 ^ n
  <2>1. f \in [A -> B] /\ \A b \in B : \E a \in A : f[a] = b
    OBVIOUS
  <2>2. \A a, b \in A : f[a] = f[b] => a = b
    <3>1. \A a \in A : f[a] = a \union {n + 1} /\ n + 1 \notin a
      OBVIOUS
    <3>2. ASSUME NEW a \in A, NEW b \in A, a \union {n + 1} = b \union {n + 1} PROVE a = b
      <4>1. a = (a \union {n + 1}) \ {n + 1} /\ b = (b \union {n + 1}) \ {n + 1}
        BY <3>1
      <4>2. QED BY <4>1, <3>2, Zenon
    <3> HIDE DEF A, f
    <3>3. QED BY <3>1, <3>2
  <2>3. f \in Bijection(A, B)
    <3> HIDE DEF A, B, f
    <3>1. QED BY <2>1, <2>2, Zenon DEF Bijection, Injection, Surjection, IsInjective
  <2> HIDE DEF A, B, f
  <2>4. ExistsBijection(A, B)
    BY <2>3 DEF ExistsBijection
  <2>5. QED BY <1>2, <2>4, FS_Bijection
<1>5. SUBSET (1 .. n + 1) = A \union B
  <2>1. 1 .. n + 1 = S \union {n + 1}
    OBVIOUS
  <2>2. ASSUME NEW U \in SUBSET (1 .. n + 1), U \notin A PROVE U \in B
    <3>1. U \ {n + 1} \in A /\ n + 1 \in U
      BY <2>1, <2>2
    <3>2. U = (U \ {n + 1}) \union {n + 1}
      BY <3>1
    <3>3. QED BY <3>1, <3>2
  <2>3. A \union B \subseteq SUBSET (1 .. n + 1)
    BY <2>1
  <2>4. QED BY <2>2, <2>3
<1>6. A \intersect B = {}
  OBVIOUS
<1>7. 2 ^ (n + 1) = 2 ^ n + 2 ^ n
  <2>1. IsFiniteSet(1 .. n + 1) /\ Cardinality(1 .. n + 1) = n + 1
    BY FS_Interval
  <2>2. Cardinality(SUBSET (1 .. n + 1)) = 2 ^ (n + 1)
    BY <2>1, FS_SUBSET
  <2> HIDE DEF A, B
  <2>3. Cardinality(A \union B) = 2 ^ n + 2 ^ n - Cardinality(A \intersect B)
    BY <1>2, <1>4, FS_Union
  <2>4. Cardinality(A \intersect B) = 0
    BY <1>6, FS_EmptySet
  <2>5. Cardinality(A \union B) = 2 ^ n + 2 ^ n
    BY <1>3, <2>3, <2>4
  <2>6. QED BY <1>5, <2>2, <2>5, Zenon
<1>8. 2 ^ 0 = 1
  OBVIOUS
<1>9. QED BY <1>3, <1>7, <1>8

(* Remainders of what is at most once around a ring of cap places.          *)
LEMMA Wraps ==
  ASSUME NEW cap \in Nat \ {0}
  PROVE  /\ \A n \in Nat : n % cap \in 0 .. cap - 1
         /\ \A n \in 0 .. cap - 1 : n % cap = n
         /\ \A n \in 0 .. cap - 1 : (n + cap) % cap = n /\ (n - cap) % cap = n
<1>1. \A n \in Nat : n % cap \in 0 .. cap - 1
  OBVIOUS
<1>2. \A n \in 0 .. cap - 1 : n % cap = n
  OBVIOUS
<1>3. \A n \in 0 .. cap - 1 : (n + cap) % cap = n
  OBVIOUS
<1>4. \A n \in 0 .. cap - 1 : (n - cap) % cap = n
  OBVIOUS
<1>5. QED BY <1>1, <1>2, <1>3, <1>4

(* A sequence is one over any set that holds its elements.                  *)
LEMMA SeqOver ==
  ASSUME NEW S, NEW T, NEW c \in Seq(S), ToSet(c) \subseteq T
  PROVE  c \in Seq(T)
<1>1. /\ Len(c) \in Nat /\ DOMAIN c = 1 .. Len(c)
      /\ c = [i \in 1 .. Len(c) |-> c[i]]
  BY LenProperties
<1>2. \A i \in 1 .. Len(c) : c[i] \in T
  BY <1>1 DEF ToSet
<1>3. \A i \in 1 .. Len(c) : [j \in 1 .. Len(c) |-> c[j]][i] \in T
  BY <1>2
<1>4. [i \in 1 .. Len(c) |-> c[i]] \in Seq(T)
  BY <1>1, <1>2
<1>5. QED BY <1>1, <1>4

(* Unlinking the head of a list without duplicates removes it alone.        *)
LEMMA ChainTail ==
  ASSUME NEW S, NEW c \in Seq(S), c # << >>,
         \A i, j \in DOMAIN c : c[i] = c[j] => i = j
  PROVE  /\ Tail(c) \in Seq(S)
         /\ Len(Tail(c)) = Len(c) - 1
         /\ \A i \in 1 .. Len(c) - 1 : Tail(c)[i] = c[i + 1]
         /\ ToSet(Tail(c)) = ToSet(c) \ {c[1]}
         /\ \A i, j \in DOMAIN Tail(c) : Tail(c)[i] = Tail(c)[j] => i = j
<1>1. Len(c) \in Nat \ {0} /\ DOMAIN c = 1 .. Len(c)
  BY EmptySeq
<1>2. /\ Tail(c) \in Seq(S)
      /\ Len(Tail(c)) = Len(c) - 1
      /\ \A i \in 1 .. Len(c) - 1 : Tail(c)[i] = c[i + 1]
  BY HeadTailProperties
<1>3. DOMAIN Tail(c) = 1 .. Len(c) - 1
  BY <1>2
<1>4. ToSet(Tail(c)) \subseteq ToSet(c) \ {c[1]}
  BY <1>1, <1>2, <1>3 DEF ToSet
<1>5. ASSUME NEW i \in 1 .. Len(c), c[i] # c[1] PROVE c[i] \in ToSet(Tail(c))
  <2>1. i - 1 \in 1 .. Len(c) - 1 /\ Tail(c)[i - 1] = c[i]
    BY <1>1, <1>2, <1>5
  <2>2. QED BY <2>1, <1>3 DEF ToSet
<1>6. ToSet(c) \ {c[1]} \subseteq ToSet(Tail(c))
  BY <1>1, <1>5 DEF ToSet
<1>7. \A i, j \in DOMAIN Tail(c) : Tail(c)[i] = Tail(c)[j] => i = j
  BY <1>1, <1>2, <1>3
<1>8. QED BY <1>2, <1>4, <1>6, <1>7

(* Pushing a new element in front adds it alone.                            *)
LEMMA ChainPush ==
  ASSUME NEW S, NEW c \in Seq(S), NEW e \in S, e \notin ToSet(c),
         \A i, j \in DOMAIN c : c[i] = c[j] => i = j
  PROVE  /\ <<e>> \o c \in Seq(S)
         /\ Len(<<e>> \o c) = Len(c) + 1
         /\ (<<e>> \o c)[1] = e
         /\ \A i \in 1 .. Len(c) : (<<e>> \o c)[i + 1] = c[i]
         /\ ToSet(<<e>> \o c) = ToSet(c) \union {e}
         /\ \A i, j \in DOMAIN (<<e>> \o c) :
              (<<e>> \o c)[i] = (<<e>> \o c)[j] => i = j
<1> DEFINE d == <<e>> \o c
<1>1. Len(c) \in Nat /\ DOMAIN c = 1 .. Len(c)
  BY LenProperties
<1>2. <<e>> \in Seq(S) /\ Len(<<e>>) = 1 /\ <<e>>[1] = e
  OBVIOUS
<1>3. /\ d \in Seq(S) /\ Len(d) = Len(c) + 1
      /\ \A i \in 1 .. Len(c) + 1 : d[i] = IF i <= 1 THEN <<e>>[i] ELSE c[i - 1]
  BY <1>1, <1>2, ConcatProperties
<1> HIDE DEF d
<1>4. DOMAIN d = 1 .. Len(c) + 1
  BY <1>3
<1>5. d[1] = e /\ \A i \in 1 .. Len(c) : d[i + 1] = c[i]
  BY <1>1, <1>2, <1>3
<1>6. \A i \in 2 .. Len(c) + 1 : i - 1 \in DOMAIN c /\ d[i] = c[i - 1]
  BY <1>1, <1>3
<1>7. ASSUME NEW x PROVE x \in ToSet(d) <=> x \in ToSet(c) \union {e}
  <2>1. x \in ToSet(d) <=> \E i \in 1 .. Len(c) + 1 : x = d[i]
    BY <1>4 DEF ToSet
  <2>2. x \in ToSet(c) <=> \E i \in 1 .. Len(c) : x = c[i]
    BY <1>1 DEF ToSet
  <2>3. (\E i \in 1 .. Len(c) + 1 : x = d[i]) <=> x = d[1] \/ \E i \in 1 .. Len(c) : x = c[i]
    <3>1. \A i \in 1 .. Len(c) + 1 : i = 1 \/ (i - 1 \in 1 .. Len(c) /\ d[i] = c[i - 1])
      BY <1>1, <1>6
    <3>2. \A i \in 1 .. Len(c) : i + 1 \in 1 .. Len(c) + 1 /\ d[i + 1] = c[i]
      BY <1>1, <1>5
    <3>3. 1 \in 1 .. Len(c) + 1
      BY <1>1
    <3>4. QED BY <3>1, <3>2, <3>3
  <2>4. QED BY <2>1, <2>2, <2>3, <1>5
<1>8. \A i \in DOMAIN c : c[i] # e
  BY DEF ToSet
<1>9. ASSUME NEW i \in DOMAIN d, NEW j \in DOMAIN d, d[i] = d[j] PROVE i = j
  <2>1. CASE i = 1 \/ j = 1
    BY <2>1, <1>1, <1>4, <1>5, <1>6, <1>8, <1>9
  <2>2. CASE i # 1 /\ j # 1
    BY SMTT(30), <2>2, <1>1, <1>4, <1>6, <1>9
  <2>3. QED BY <2>1, <2>2
<1>10. QED BY <1>3, <1>5, <1>7, <1>9 DEF d

(* A slice by positions.                                                    *)
LEMMA Slice ==
  ASSUME NEW S, NEW c \in Seq(S), NEW m \in Int, NEW n \in Int,
         1 <= m, n <= Len(c), m <= n + 1
  PROVE  /\ SubSeq(c, m, n) \in Seq(S)
         /\ Len(SubSeq(c, m, n)) = n - m + 1
         /\ \A i \in 1 .. n - m + 1 : SubSeq(c, m, n)[i] = c[m + i - 1]
<1> DEFINE s == SubSeq(c, m, n)
<1>1. \A i \in m .. n : c[i] \in S
  <2>1. \A i \in 1 .. Len(c) : c[i] \in S
    BY LenProperties
  <2>2. m .. n \subseteq 1 .. Len(c)
    BY LenProperties
  <2>3. QED BY <2>1, <2>2
<1>2. /\ s \in Seq(S)
      /\ Len(s) = IF m <= n THEN n - m + 1 ELSE 0
      /\ \A i \in 1 .. n - m + 1 : s[i] = c[m + i - 1]
  BY <1>1, SubSeqProperties
<1> HIDE DEF s
<1>3. Len(s) = n - m + 1
  BY <1>2
<1>4. QED BY <1>2, <1>3 DEF s

(* d is c with e put before its element k.                                  *)
IsInserted(d, c, k, e) ==
  /\ Len(d) = Len(c) + 1
  /\ \A j \in 1 .. Len(c) + 1 :
       d[j] = IF j < k THEN c[j] ELSE IF j = k THEN e ELSE c[j - 1]

(* InsertAt and RemoveAt by positions.                                      *)
LEMMA InsertShape ==
  ASSUME NEW S, NEW c \in Seq(S), NEW e \in S, NEW k \in 1 .. Len(c) + 1
  PROVE  /\ InsertAt(c, k, e) \in Seq(S)
         /\ Len(InsertAt(c, k, e)) = Len(c) + 1
         /\ \A i \in 1 .. Len(c) + 1 :
              InsertAt(c, k, e)[i] = IF i < k THEN c[i] ELSE IF i = k THEN e ELSE c[i - 1]
<1> DEFINE n == Len(c)
           front == SubSeq(c, 1, k - 1)
           back == SubSeq(c, k, n)
           head == front \o <<e>>
           d == InsertAt(c, k, e)
<1>1. n \in Nat /\ k \in Int /\ 1 <= k /\ k <= n + 1
  BY LenProperties
<1>2. /\ front \in Seq(S) /\ Len(front) = k - 1
      /\ \A i \in 1 .. k - 1 : front[i] = c[i]
  <2>1. /\ front \in Seq(S) /\ Len(front) = k - 1 - 1 + 1
        /\ \A i \in 1 .. k - 1 - 1 + 1 : front[i] = c[1 + i - 1]
    BY <1>1, Slice
  <2> HIDE DEF front
  <2>2. QED BY <1>1, <2>1
<1>3. /\ back \in Seq(S) /\ Len(back) = n - k + 1
      /\ \A i \in 1 .. n - k + 1 : back[i] = c[k + i - 1]
  BY <1>1, Slice
<1> HIDE DEF front, back
<1>4. /\ head \in Seq(S) /\ Len(head) = k
      /\ \A i \in 1 .. k : head[i] = IF i < k THEN c[i] ELSE e
  <2>1. <<e>> \in Seq(S) /\ Len(<<e>>) = 1 /\ <<e>>[1] = e
    OBVIOUS
  <2>2. /\ head \in Seq(S)
        /\ Len(head) = Len(front) + Len(<<e>>)
        /\ \A i \in 1 .. Len(front) + Len(<<e>>) :
             head[i] = IF i <= Len(front) THEN front[i] ELSE <<e>>[i - Len(front)]
    BY <1>2, <2>1, ConcatProperties
  <2> HIDE DEF head
  <2>3. QED BY <1>1, <1>2, <2>1, <2>2
<1>5. d = head \o back
  BY DEF InsertAt, front, back
<1> HIDE DEF head, d
<1>6. /\ d \in Seq(S) /\ Len(d) = k + (n - k + 1)
      /\ \A i \in 1 .. k + (n - k + 1) : d[i] = IF i <= k THEN head[i] ELSE back[i - k]
  <2>1. /\ head \o back \in Seq(S)
        /\ Len(head \o back) = Len(head) + Len(back)
        /\ \A i \in 1 .. Len(head) + Len(back) :
             (head \o back)[i] = IF i <= Len(head) THEN head[i] ELSE back[i - Len(head)]
    <3> HIDE <1>1, <1>2, <1>3, <1>4, <1>5
    <3>1. head \in Seq(S) /\ back \in Seq(S)
      BY <1>3, <1>4
    <3>2. QED BY <3>1, ConcatProperties
  <2>2. QED BY <1>3, <1>4, <1>5, <2>1
<1>7. ASSUME NEW i \in 1 .. n + 1
      PROVE  d[i] = IF i < k THEN c[i] ELSE IF i = k THEN e ELSE c[i - 1]
  <2>1. CASE i <= k
    BY <1>1, <1>4, <1>6, <2>1
  <2>2. CASE i > k
    <3>1. i - k \in 1 .. n - k + 1
      BY <1>1, <2>2
    <3>2. d[i] = back[i - k]
      BY <1>1, <1>6, <2>2
    <3>3. back[i - k] = c[k + (i - k) - 1]
      BY <3>1, <1>3
    <3>4. QED BY <1>1, <2>2, <3>2, <3>3
  <2>3. QED BY <1>1, <2>1, <2>2
<1>8. Len(d) = n + 1
  BY <1>1, <1>6
<1>9. QED BY <1>6, <1>7, <1>8 DEF d

(* The same, as one fact that names no position.                            *)
LEMMA InsertInserts ==
  ASSUME NEW S, NEW c \in Seq(S), NEW e \in S, NEW k \in 1 .. Len(c) + 1
  PROVE  InsertAt(c, k, e) \in Seq(S) /\ IsInserted(InsertAt(c, k, e), c, k, e)
BY InsertShape DEF IsInserted

LEMMA RemoveShape ==
  ASSUME NEW S, NEW c \in Seq(S), NEW k \in 1 .. Len(c)
  PROVE  /\ RemoveAt(c, k) \in Seq(S)
         /\ Len(RemoveAt(c, k)) = Len(c) - 1
         /\ \A i \in 1 .. Len(c) - 1 :
              RemoveAt(c, k)[i] = IF i < k THEN c[i] ELSE c[i + 1]
<1> DEFINE n == Len(c)
           front == SubSeq(c, 1, k - 1)
           back == SubSeq(c, k + 1, n)
           d == RemoveAt(c, k)
<1>1. n \in Nat /\ k \in Int /\ 1 <= k /\ k <= n
  BY LenProperties
<1>2. /\ front \in Seq(S) /\ Len(front) = k - 1
      /\ \A i \in 1 .. k - 1 : front[i] = c[i]
  <2>1. /\ front \in Seq(S) /\ Len(front) = k - 1 - 1 + 1
        /\ \A i \in 1 .. k - 1 - 1 + 1 : front[i] = c[1 + i - 1]
    BY <1>1, Slice
  <2> HIDE DEF front
  <2>2. QED BY <1>1, <2>1
<1>3. /\ back \in Seq(S) /\ Len(back) = n - k
      /\ \A i \in 1 .. n - k : back[i] = c[k + i]
  <2>1. /\ back \in Seq(S) /\ Len(back) = n - (k + 1) + 1
        /\ \A i \in 1 .. n - (k + 1) + 1 : back[i] = c[(k + 1) + i - 1]
    BY <1>1, Slice
  <2> HIDE DEF back
  <2>2. n - (k + 1) + 1 = n - k /\ \A i \in Int : (k + 1) + i - 1 = k + i
    BY <1>1
  <2>3. QED BY <2>1, <2>2
<1> HIDE DEF front, back
<1>4. d = front \o back
  BY DEF RemoveAt, front, back
<1> HIDE DEF d
<1>5. /\ d \in Seq(S) /\ Len(d) = (k - 1) + (n - k)
      /\ \A i \in 1 .. (k - 1) + (n - k) :
           d[i] = IF i <= k - 1 THEN front[i] ELSE back[i - (k - 1)]
  <2>1. /\ front \o back \in Seq(S)
        /\ Len(front \o back) = Len(front) + Len(back)
        /\ \A i \in 1 .. Len(front) + Len(back) :
             (front \o back)[i] = IF i <= Len(front) THEN front[i] ELSE back[i - Len(front)]
    <3>1. front \in Seq(S) /\ back \in Seq(S)
      BY <1>2, <1>3
    <3>2. QED BY <3>1, ConcatProperties
  <2>2. QED BY <1>2, <1>3, <1>4, <2>1
<1>6. ASSUME NEW i \in 1 .. n - 1
      PROVE  d[i] = IF i < k THEN c[i] ELSE c[i + 1]
  <2>1. CASE i < k
    <3>1. i \in 1 .. k - 1 /\ i \in 1 .. (k - 1) + (n - k) /\ i <= k - 1
      BY <1>1, <2>1
    <3>2. d[i] = front[i]
      BY <3>1, <1>5
    <3>3. QED BY <2>1, <3>1, <3>2, <1>2
  <2>2. CASE i >= k
    <3>1. i - (k - 1) \in 1 .. n - k
      BY <1>1, <2>2
    <3>2. d[i] = back[i - (k - 1)]
      BY <1>1, <1>5, <2>2
    <3>3. back[i - (k - 1)] = c[k + (i - (k - 1))]
      BY <3>1, <1>3
    <3>4. QED BY <1>1, <2>2, <3>2, <3>3
  <2>3. QED BY <1>1, <2>1, <2>2
<1>7. Len(d) = n - 1
  BY <1>1, <1>5
<1>8. QED BY <1>5, <1>6, <1>7 DEF d

(* Pushing at an end is inserting there.                                    *)
LEMMA InsertAtEnds ==
  ASSUME NEW S, NEW c \in Seq(S), NEW e \in S
  PROVE  <<e>> \o c = InsertAt(c, 1, e) /\ Append(c, e) = InsertAt(c, Len(c) + 1, e)
<1> DEFINE n == Len(c)
           a == <<e>> \o c
           z == Append(c, e)
<1>1. n \in Nat /\ 1 \in 1 .. n + 1 /\ n + 1 \in 1 .. n + 1
  BY LenProperties
<1>2. \A k \in 1 .. n + 1 :
        /\ InsertAt(c, k, e) \in Seq(S) /\ Len(InsertAt(c, k, e)) = n + 1
        /\ \A i \in 1 .. n + 1 :
             InsertAt(c, k, e)[i] = IF i < k THEN c[i] ELSE IF i = k THEN e ELSE c[i - 1]
  BY InsertShape
<1>3. /\ a \in Seq(S) /\ Len(a) = n + 1
      /\ \A i \in 1 .. n + 1 : a[i] = IF i = 1 THEN e ELSE c[i - 1]
  <2>1. <<e>> \in Seq(S) /\ Len(<<e>>) = 1 /\ <<e>>[1] = e
    OBVIOUS
  <2>2. /\ a \in Seq(S) /\ Len(a) = 1 + n
        /\ \A i \in 1 .. 1 + n : a[i] = IF i <= 1 THEN <<e>>[i] ELSE c[i - 1]
    BY <1>1, <2>1, ConcatProperties
  <2> HIDE DEF a
  <2>3. QED BY <1>1, <2>1, <2>2
<1>4. /\ z \in Seq(S) /\ Len(z) = n + 1
      /\ \A i \in 1 .. n + 1 : z[i] = IF i = n + 1 THEN e ELSE c[i]
  <2>1. /\ z \in Seq(S) /\ Len(z) = n + 1 /\ z[n + 1] = e
        /\ \A i \in 1 .. n : z[i] = c[i]
    BY AppendProperties
  <2> HIDE DEF z
  <2>2. QED BY <1>1, <2>1
<1> HIDE DEF a, z
<1>5. a = InsertAt(c, 1, e)
  <2> DEFINE d == InsertAt(c, 1, e)
  <2>1. /\ d \in Seq(S) /\ Len(d) = n + 1
        /\ \A i \in 1 .. n + 1 : d[i] = IF i < 1 THEN c[i] ELSE IF i = 1 THEN e ELSE c[i - 1]
    BY <1>1, <1>2
  <2> HIDE DEF d
  <2>2. \A i \in 1 .. n + 1 : i # 1 => ~(i < 1)
    BY <1>1
  <2>3. ASSUME NEW i \in 1 .. n + 1 PROVE a[i] = d[i]
    <3>1. CASE i = 1
      BY <1>3, <2>1, <3>1
    <3>2. CASE i # 1
      BY <1>3, <2>1, <2>2, <3>2
    <3>3. QED BY <3>1, <3>2
  <2>4. a = d
    BY <1>3, <2>1, <2>3, SeqEqual
  <2>5. QED BY <2>4 DEF d
<1>6. z = InsertAt(c, n + 1, e)
  <2> DEFINE d == InsertAt(c, n + 1, e)
  <2>1. /\ d \in Seq(S) /\ Len(d) = n + 1
        /\ \A i \in 1 .. n + 1 :
             d[i] = IF i < n + 1 THEN c[i] ELSE IF i = n + 1 THEN e ELSE c[i - 1]
    BY <1>1, <1>2
  <2> HIDE DEF d
  <2>2. \A i \in 1 .. Len(z) : z[i] = d[i]
    BY <1>1, <1>4, <2>1
  <2>3. z = d
    BY <1>4, <2>1, <2>2, SeqEqual
  <2>4. QED BY <2>3 DEF d
<1>7. QED BY <1>5, <1>6 DEF a, z

(* Inserting a new element keeps a list without duplicates one.             *)
LEMMA ChainInsert ==
  ASSUME NEW S, NEW c \in Seq(S), NEW e \in S, e \notin ToSet(c),
         \A i, j \in DOMAIN c : c[i] = c[j] => i = j,
         NEW k \in 1 .. Len(c) + 1
  PROVE  /\ ToSet(InsertAt(c, k, e)) = ToSet(c) \union {e}
         /\ \A i, j \in DOMAIN InsertAt(c, k, e) :
              InsertAt(c, k, e)[i] = InsertAt(c, k, e)[j] => i = j
<1> DEFINE n == Len(c)
           d == InsertAt(c, k, e)
<1>1. n \in Nat /\ DOMAIN c = 1 .. n /\ k \in Int
  BY LenProperties
<1>2. /\ d \in Seq(S) /\ Len(d) = n + 1
      /\ \A i \in 1 .. n + 1 : d[i] = IF i < k THEN c[i] ELSE IF i = k THEN e ELSE c[i - 1]
  BY InsertShape
<1> HIDE DEF d
<1>3. DOMAIN d = 1 .. n + 1
  BY <1>2
<1>4. d[k] = e /\ \A i \in 1 .. n : c[i] # e
  BY <1>1, <1>2 DEF ToSet
<1>5. ASSUME NEW x PROVE x \in ToSet(d) <=> x \in ToSet(c) \union {e}
  <2>1. x \in ToSet(d) <=> \E i \in 1 .. n + 1 : x = d[i]
    BY <1>3 DEF ToSet
  <2>2. x \in ToSet(c) <=> \E i \in 1 .. n : x = c[i]
    BY <1>1 DEF ToSet
  <2>3. ASSUME NEW i \in 1 .. n + 1
        PROVE  i = k \/ (\E j \in 1 .. n : d[i] = c[j])
    BY SMTT(30), <1>1, <1>2
  <2>4. ASSUME NEW j \in 1 .. n PROVE \E i \in 1 .. n + 1 : d[i] = c[j]
    <3>1. CASE j < k
      BY <1>1, <1>2, <3>1
    <3>2. CASE j >= k
      <4>1. j + 1 \in 1 .. n + 1 /\ d[j + 1] = c[j + 1 - 1]
        BY <1>1, <1>2, <3>2
      <4>2. QED BY <1>1, <4>1
    <3>3. QED BY <1>1, <3>1, <3>2
  <2>5. k \in 1 .. n + 1
    OBVIOUS
  <2>6. QED BY <2>1, <2>2, <2>3, <2>4, <2>5, <1>4
<1>6. ASSUME NEW i \in 1 .. n + 1, NEW j \in 1 .. n + 1, d[i] = d[j] PROVE i = j
  <2> DEFINE from(a) == IF a < k THEN a ELSE a - 1
  <2>1. \A a \in 1 .. n + 1 : a # k => from(a) \in 1 .. n /\ d[a] = c[from(a)]
    BY <1>1, <1>2
  <2>2. i = k <=> j = k
    BY <1>4, <1>6, <2>1
  <2>3. CASE i # k
    <3>1. from(i) = from(j)
      BY <1>1, <1>6, <2>1, <2>2, <2>3
    <3>2. QED BY <1>1, <2>2, <2>3, <3>1
  <2>4. QED BY <2>2, <2>3
<1>7. QED BY <1>2, <1>3, <1>5, <1>6 DEF d

(* Removing an element takes it alone out of a list without duplicates.     *)
LEMMA ChainRemove ==
  ASSUME NEW S, NEW c \in Seq(S),
         \A i, j \in DOMAIN c : c[i] = c[j] => i = j,
         NEW k \in 1 .. Len(c)
  PROVE  /\ ToSet(RemoveAt(c, k)) = ToSet(c) \ {c[k]}
         /\ \A i, j \in DOMAIN RemoveAt(c, k) :
              RemoveAt(c, k)[i] = RemoveAt(c, k)[j] => i = j
<1> DEFINE n == Len(c)
           d == RemoveAt(c, k)
<1>1. n \in Nat /\ DOMAIN c = 1 .. n /\ k \in Int
  BY LenProperties
<1>2. /\ d \in Seq(S) /\ Len(d) = n - 1
      /\ \A i \in 1 .. n - 1 : d[i] = IF i < k THEN c[i] ELSE c[i + 1]
  BY RemoveShape
<1> HIDE DEF d
<1>3. DOMAIN d = 1 .. n - 1
  BY <1>1, <1>2
<1> DEFINE from(a) == IF a < k THEN a ELSE a + 1
<1>4. \A a \in 1 .. n - 1 : /\ from(a) \in 1 .. n /\ from(a) # k
                            /\ d[a] = c[from(a)]
  BY <1>1, <1>2
<1>5. ASSUME NEW x PROVE x \in ToSet(d) <=> x \in ToSet(c) \ {c[k]}
  <2>1. x \in ToSet(d) <=> \E i \in 1 .. n - 1 : x = d[i]
    BY <1>3 DEF ToSet
  <2>2. x \in ToSet(c) <=> \E i \in 1 .. n : x = c[i]
    BY <1>1 DEF ToSet
  <2>3. ASSUME NEW i \in 1 .. n - 1
        PROVE  d[i] # c[k] /\ \E j \in 1 .. n : d[i] = c[j]
    BY <1>1, <1>4
  <2>4. ASSUME NEW j \in 1 .. n, j # k PROVE \E i \in 1 .. n - 1 : d[i] = c[j]
    <3>1. CASE j < k
      BY <1>1, <1>2, <2>4, <3>1
    <3>2. CASE j > k
      <4>1. j - 1 \in 1 .. n - 1 /\ d[j - 1] = c[j - 1 + 1]
        BY <1>1, <1>2, <2>4, <3>2
      <4>2. QED BY <1>1, <4>1
    <3>3. QED BY <1>1, <2>4, <3>1, <3>2
  <2>5. QED BY <2>1, <2>2, <2>3, <2>4
<1>6. ASSUME NEW i \in 1 .. n - 1, NEW j \in 1 .. n - 1, d[i] = d[j] PROVE i = j
  <2>1. from(i) = from(j)
    BY <1>1, <1>4, <1>6
  <2>2. QED BY <1>1, <2>1
<1>7. QED BY <1>2, <1>3, <1>5, <1>6 DEF d

-----------------------------------------------------------------------------
(* c is the list threaded through w from b, and null ends it.               *)
Linked(null, b, w, c) ==
  /\ b = IF c = << >> THEN null ELSE c[1]
  /\ \A i \in DOMAIN c : w[c[i]] = IF i = Len(c) THEN null ELSE c[i + 1]

(* Following one link unlinks the head.                                     *)
LEMMA LinkedTail ==
  ASSUME NEW S, NEW null, NEW b, NEW w, NEW c \in Seq(S), c # << >>, Linked(null, b, w, c),
         \A i, j \in DOMAIN c : c[i] = c[j] => i = j
  PROVE  Linked(null, w[b], w, Tail(c))
<1> DEFINE d == Tail(c)
<1>1. Len(c) \in Nat \ {0} /\ DOMAIN c = 1 .. Len(c)
  BY EmptySeq
<1>2. /\ d \in Seq(S) /\ Len(d) = Len(c) - 1
      /\ \A i \in 1 .. Len(c) - 1 : d[i] = c[i + 1]
  BY ChainTail
<1>3. DOMAIN d = 1 .. Len(c) - 1 /\ (d = << >> <=> Len(c) = 1)
  BY <1>1, <1>2, EmptySeq
<1> HIDE DEF d
<1>4. w[b] = IF d = << >> THEN null ELSE d[1]
  BY <1>1, <1>2, <1>3 DEF Linked
<1>5. ASSUME NEW i \in DOMAIN d
      PROVE  w[d[i]] = IF i = Len(d) THEN null ELSE d[i + 1]
  <2>1. i \in 1 .. Len(c) - 1 /\ i + 1 \in DOMAIN c /\ d[i] = c[i + 1]
    BY <1>1, <1>2, <1>3
  <2>2. w[c[i + 1]] = IF i + 1 = Len(c) THEN null ELSE c[i + 1 + 1]
    BY <2>1 DEF Linked
  <2>3. i # Len(d) => d[i + 1] = c[i + 1 + 1]
    BY <2>1, <1>1, <1>2
  <2>4. QED BY <2>1, <2>2, <2>3, <1>1, <1>2
<1>6. QED BY <1>4, <1>5 DEF Linked, d

(* Writing the old head into a slot that is not listed puts it in front.    *)
LEMMA LinkedPush ==
  ASSUME NEW S, NEW null, NEW b, NEW w, NEW c \in Seq(S), NEW e \in S,
         Linked(null, b, w, c), e \in DOMAIN w, e \notin ToSet(c),
         \A i, j \in DOMAIN c : c[i] = c[j] => i = j
  PROVE  Linked(null, e, [w EXCEPT ![e] = b], <<e>> \o c)
<1> DEFINE d == <<e>> \o c
           v == [w EXCEPT ![e] = b]
<1>1. Len(c) \in Nat /\ DOMAIN c = 1 .. Len(c)
  BY LenProperties
<1>2. /\ d \in Seq(S) /\ Len(d) = Len(c) + 1
      /\ d[1] = e
      /\ \A i \in 1 .. Len(c) : d[i + 1] = c[i]
  BY ChainPush
<1>3. DOMAIN d = 1 .. Len(c) + 1 /\ d # << >>
  BY <1>1, <1>2, EmptySeq
<1>4. v[e] = b /\ \A i \in DOMAIN c : v[c[i]] = w[c[i]]
  BY DEF ToSet
<1>5. c = << >> <=> Len(c) = 0
  BY EmptySeq
<1> HIDE DEF d, v
<1>6. ASSUME NEW i \in DOMAIN d
      PROVE  v[d[i]] = IF i = Len(d) THEN null ELSE d[i + 1]
  <2>1. CASE i = 1
    BY <2>1, <1>1, <1>2, <1>3, <1>4, <1>5 DEF Linked
  <2>2. CASE i # 1
    <3>1. i - 1 \in DOMAIN c /\ d[i] = c[i - 1]
      BY <2>2, <1>1, <1>2, <1>3
    <3>2. w[c[i - 1]] = IF i - 1 = Len(c) THEN null ELSE c[i]
      BY <3>1 DEF Linked
    <3>3. i # Len(d) => d[i + 1] = c[i]
      BY <2>2, <1>1, <1>2, <1>3
    <3>4. QED BY <3>1, <3>2, <3>3, <1>1, <1>2, <1>4
  <2>3. QED BY <2>1, <2>2
<1>7. QED BY <1>2, <1>3, <1>6 DEF Linked, d, v

(* The links of listed slots alone decide which list is threaded.           *)
LEMMA LinkedFrame ==
  ASSUME NEW null, NEW b, NEW w, NEW v, NEW c, Linked(null, b, w, c),
         \A s \in ToSet(c) : v[s] = w[s]
  PROVE  Linked(null, b, v, c)
BY DEF Linked, ToSet

(* The head of a threaded list is its first slot, or null.                  *)
LEMMA LinkedHead ==
  ASSUME NEW S, NEW null, NEW b, NEW w, NEW c \in Seq(S), Linked(null, b, w, c),
         null \notin S
  PROVE  /\ b = null <=> c = << >>
         /\ b # null => b = c[1] /\ b \in ToSet(c) /\ b \in S
<1>1. c # << >> => 1 \in DOMAIN c /\ c[1] \in S
  BY EmptySeq
<1>2. QED BY <1>1 DEF Linked, ToSet

LEMMA LinkedType ==
  ASSUME NEW S, NEW null, NEW b, NEW w, NEW c \in Seq(S), Linked(null, b, w, c)
  PROVE  b \in S \union {null}
<1>1. c # << >> => c[1] \in S
  BY EmptySeq
<1>2. QED BY <1>1 DEF Linked

(* The list of no slots.                                                    *)
LEMMA EmptyChain ==
  /\ DOMAIN << >> = {} /\ ToSet(<< >>) = {} /\ Len(<< >>) = 0
  /\ \A null, w : Linked(null, null, w, << >>)
BY DEF ToSet, Linked
=============================================================================
