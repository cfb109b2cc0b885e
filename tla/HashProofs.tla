----------------------------- MODULE HashProofs -----------------------------
(***************************************************************************)
(* Proofs about HashBuckets and HashIteration, for every hash function,     *)
(* every finite set of keys and every client.                               *)
(***************************************************************************)
EXTENDS HashIteration, ListLemmas

Bucket == Pair \union {UNSET, TOMBSTONE}
Table(bs, cap) == cap \in Nat \ {0} /\ bs \in [0 .. cap - 1 -> Bucket]
LiveIn(bs, cap) == {i \in 0 .. cap - 1 : key_exists(bs[i])}
HasKey(bs, cap, k) == \E i \in LiveIn(bs, cap) : bs[i].key = k
Reaches(bs, cap, i) ==
  \E d \in 0 .. cap - 1 : /\ Path(bs[i].key, cap, d) = i
                          /\ \A e \in 0 .. d : bs[Path(bs[i].key, cap, e)] # UNSET
Unbroken(bs, cap) == \A i \in LiveIn(bs, cap) : Reaches(bs, cap, i)
Unique(bs, cap) == \A i, j \in LiveIn(bs, cap) : bs[i].key = bs[j].key => i = j
NoTombstone(bs, cap) == \A i \in 0 .. cap - 1 : bs[i] # TOMBSTONE

-----------------------------------------------------------------------------
(* A probe looks at buckets of the array, and in cap steps at all of them.  *)
LEMMA PathAround ==
  ASSUME client \in Clients, NEW k \in Keys, NEW cap \in Nat \ {0}
  PROVE  /\ \A i \in Nat : Path(k, cap, i) \in 0 .. cap - 1
         /\ \A j \in 0 .. cap - 1 : \E i \in 0 .. cap - 1 : Path(k, cap, i) = j
<1>1. HashOf[k] \in Nat
  BY HashAssumption DEF Keys
<1>2. get_index(k, cap) \in 0 .. cap - 1
  BY <1>1, Wraps DEF get_index
<1> DEFINE h == get_index(k, cap)
<1>3. ASSUME NEW i \in Nat PROVE Path(k, cap, i) \in 0 .. cap - 1
  <2>1. h + i \in Nat
    BY <1>2
  <2>2. QED BY <2>1, Wraps DEF Path
<1>4. ASSUME NEW j \in 0 .. cap - 1 PROVE \E i \in 0 .. cap - 1 : Path(k, cap, i) = j
  <2>1. CASE j >= h
    <3>1. j - h \in 0 .. cap - 1 /\ h + (j - h) = j
      BY <1>2, <2>1
    <3>2. Path(k, cap, j - h) = j
      BY <3>1, Wraps DEF Path
    <3>3. QED BY <3>1, <3>2
  <2>2. CASE j < h
    <3>1. j - h + cap \in 0 .. cap - 1 /\ h + (j - h + cap) = j + cap
      BY <1>2, <2>2
    <3>2. (j + cap) % cap = j
      BY <3>1, Wraps
    <3>3. Path(k, cap, j - h + cap) = (j + cap) % cap
      BY <3>1 DEF Path
    <3>4. QED BY <3>1, <3>2, <3>3
  <2>3. QED BY <2>1, <2>2, <1>2
<1>5. QED BY <1>3, <1>4

(* A pair is no mark, and every bucket is one or the other.                 *)
LEMMA Marks ==
  ASSUME client \in Clients
  PROVE  /\ UNSET # TOMBSTONE /\ NOT_FOUND \notin Nat
         /\ \A b \in Pair : key_exists(b) /\ b.key \in Keys /\ b.value \in Values
         /\ \A b \in Bucket : key_exists(b) <=> b \in Pair
         /\ ~key_exists(UNSET) /\ ~key_exists(TOMBSTONE)
<1>1. Pair = [key : client.keys, value : client.values]
  BY DEF Pair, Keys, Values
<1>2. UNSET \notin Pair /\ TOMBSTONE \notin Pair
  BY <1>1, MarksAssumption
<1>3. \A b \in Pair : b.key \in Keys /\ b.value \in Values
  BY DEF Pair
<1>4. QED BY <1>2, <1>3, MarksAssumption DEF key_exists, Bucket

(* A live bucket holds a pair.                                              *)
LEMMA LivePairs ==
  ASSUME client \in Clients, NEW bs, NEW cap, Table(bs, cap)
  PROVE  /\ \A i \in 0 .. cap - 1 : bs[i] \in Bucket
         /\ \A i \in LiveIn(bs, cap) : bs[i] \in Pair /\ bs[i].key \in Keys
         /\ \A i \in 0 .. cap - 1 : bs[i] \in Pair => i \in LiveIn(bs, cap)
BY Marks DEF Table, LiveIn

-----------------------------------------------------------------------------
(* probe without skip_tombstones stops at the key or at a place for it, and *)
(* has passed only other pairs.                                             *)
LEMMA PutWhere ==
  ASSUME client \in Clients, NEW bs, NEW cap, Table(bs, cap), NEW k \in Keys,
         LiveIn(bs, cap) # 0 .. cap - 1
  PROVE  \E d \in 0 .. cap - 1 :
           /\ ProbeInsert(bs, cap, k) = Path(k, cap, d)
           /\ LET b == bs[Path(k, cap, d)] IN Matches(b, k) \/ ~key_exists(b)
           /\ \A e \in 0 .. d - 1 :
                LET b == bs[Path(k, cap, e)] IN ~Matches(b, k) /\ key_exists(b)
<1> DEFINE stops == InsertStops(bs, cap, k)
<1>1. cap \in Nat \ {0} /\ stops \in SUBSET (0 .. cap - 1)
  BY DEF Table, InsertStops
<1>2. stops # {}
  <2>1. PICK j \in 0 .. cap - 1 : ~key_exists(bs[j])
    BY DEF LiveIn
  <2>2. PICK i \in 0 .. cap - 1 : Path(k, cap, i) = j
    BY <1>1, PathAround
  <2>3. QED BY <2>1, <2>2 DEF InsertStops
<1>3. Min(stops) \in stops /\ \A x \in stops : Min(stops) <= x
  <2>1. 0 \in Int /\ cap - 1 \in Int
    BY <1>1
  <2> HIDE DEF stops
  <2>2. QED BY <1>1, <1>2, <2>1, MinMax
<1>4. PICK d \in 0 .. cap - 1 : d = Min(stops) /\ d \in stops
  BY <1>1, <1>3
<1>5. ProbeInsert(bs, cap, k) = Path(k, cap, d)
  BY <1>2, <1>4 DEF ProbeInsert
<1>6. ASSUME NEW e \in 0 .. d - 1 PROVE e \in 0 .. cap - 1 /\ e \notin stops
  <2>1. e \in 0 .. cap - 1 /\ ~(d <= e)
    BY <1>1
  <2>2. QED BY <2>1, <1>3, <1>4
<1>7. QED
  <2>1. \A e \in 0 .. d - 1 : LET b == bs[Path(k, cap, e)] IN ~Matches(b, k) /\ key_exists(b)
    BY <1>6 DEF InsertStops
  <2>2. LET b == bs[Path(k, cap, d)] IN Matches(b, k) \/ ~key_exists(b)
    BY <1>4 DEF InsertStops
  <2>3. QED BY <1>5, <2>1, <2>2

(* A pair put where the probe stops is live there, everything else is as it *)
(* was, and every live pair can still be reached.                           *)
LEMMA PutKeeps ==
  ASSUME client \in Clients, NEW bs, NEW cap, Table(bs, cap), NEW b \in Pair,
         LiveIn(bs, cap) # 0 .. cap - 1
  PROVE  LET i == ProbeInsert(bs, cap, b.key)
             new == Put(bs, cap, b)
         IN  /\ i \in 0 .. cap - 1
             /\ Table(new, cap)
             /\ new = [bs EXCEPT ![i] = b]
             /\ Matches(bs[i], b.key) \/ ~key_exists(bs[i])
             /\ LiveIn(new, cap) = LiveIn(bs, cap) \union {i}
             /\ Unbroken(bs, cap) => Unbroken(new, cap)
<1> DEFINE i == ProbeInsert(bs, cap, b.key)
           new == Put(bs, cap, b)
<1>1. cap \in Nat \ {0} /\ bs \in [0 .. cap - 1 -> Bucket]
  BY DEF Table
<1>2. b.key \in Keys /\ key_exists(b) /\ b # UNSET /\ b \in Bucket
  BY Marks DEF Bucket, key_exists
<1>3. PICK d \in 0 .. cap - 1 :
        /\ i = Path(b.key, cap, d)
        /\ Matches(bs[i], b.key) \/ ~key_exists(bs[i])
        /\ \A e \in 0 .. d - 1 : key_exists(bs[Path(b.key, cap, e)])
  BY <1>2, PutWhere
<1>4. i \in 0 .. cap - 1
  BY <1>1, <1>2, <1>3, PathAround
<1>5. new = [bs EXCEPT ![i] = b]
  BY DEF Put
<1>6. /\ new \in [0 .. cap - 1 -> Bucket] /\ new[i] = b
      /\ \A j \in 0 .. cap - 1 : j # i => new[j] = bs[j]
  BY <1>1, <1>2, <1>4, <1>5
<1>7. Table(new, cap)
  BY <1>1, <1>6 DEF Table
<1>8. LiveIn(new, cap) = LiveIn(bs, cap) \union {i}
  BY <1>2, <1>4, <1>6 DEF LiveIn
<1>9. \A j \in 0 .. cap - 1 : bs[j] # UNSET => new[j] # UNSET
  BY <1>2, <1>6
<1>10. ASSUME Unbroken(bs, cap), NEW j \in LiveIn(new, cap)
       PROVE  Reaches(new, cap, j)
  <2>1. CASE j = i
    <3>1. ASSUME NEW e \in 0 .. d PROVE new[Path(b.key, cap, e)] # UNSET
      <4>1. Path(b.key, cap, e) \in 0 .. cap - 1
        <5>1. e \in Nat
          OBVIOUS
        <5>2. QED BY <5>1, <1>1, <1>2, PathAround
      <4>2. CASE e = d
        BY <4>2, <1>2, <1>3, <1>6
      <4>3. CASE e # d
        <5>1. e \in 0 .. d - 1
          BY <4>3
        <5>2. bs[Path(b.key, cap, e)] # UNSET
          BY <5>1, <1>3, Marks
        <5>3. QED BY <4>1, <5>2, <1>9
      <4>4. QED BY <4>2, <4>3
    <3>2. Path(new[j].key, cap, d) = j /\ new[j].key = b.key
      BY <2>1, <1>3, <1>6
    <3>3. QED BY <3>1, <3>2 DEF Reaches
  <2>2. CASE j # i
    <3>1. j \in LiveIn(bs, cap) /\ new[j] = bs[j]
      BY <2>2, <1>6, <1>8 DEF LiveIn
    <3>2. PICK c \in 0 .. cap - 1 :
            /\ Path(bs[j].key, cap, c) = j
            /\ \A e \in 0 .. c : bs[Path(bs[j].key, cap, e)] # UNSET
      BY <3>1, <1>10 DEF Unbroken, Reaches
    <3>3. bs[j].key \in Keys
      BY <3>1, LivePairs
    <3>4. \A e \in 0 .. c : Path(bs[j].key, cap, e) \in 0 .. cap - 1
      <4>1. \A e \in 0 .. c : e \in Nat
        OBVIOUS
      <4>2. \A e \in Nat : Path(bs[j].key, cap, e) \in 0 .. cap - 1
        BY <3>3, <1>1, PathAround
      <4>3. QED BY <4>1, <4>2
    <3>5. \A e \in 0 .. c : new[Path(bs[j].key, cap, e)] # UNSET
      BY <3>2, <3>4, <1>9
    <3>6. QED BY <3>1, <3>2, <3>5 DEF Reaches
  <2>3. QED BY <2>1, <2>2
<1>11. Unbroken(bs, cap) => Unbroken(new, cap)
  BY <1>10 DEF Unbroken
<1> HIDE DEF i, new
<1>12. QED BY <1>3, <1>4, <1>5, <1>7, <1>8, <1>11 DEF i, new

(* The keys after a put.                                                    *)
LEMMA PutKeys ==
  ASSUME client \in Clients, NEW bs, NEW cap, Table(bs, cap), NEW b \in Pair,
         LiveIn(bs, cap) # 0 .. cap - 1, NEW k
  PROVE  HasKey(Put(bs, cap, b), cap, k) <=> HasKey(bs, cap, k) \/ k = b.key
<1> DEFINE i == ProbeInsert(bs, cap, b.key)
           new == Put(bs, cap, b)
<1>1. /\ i \in 0 .. cap - 1 /\ new = [bs EXCEPT ![i] = b]
      /\ Matches(bs[i], b.key) \/ ~key_exists(bs[i])
      /\ LiveIn(new, cap) = LiveIn(bs, cap) \union {i}
  BY PutKeeps
<1>2. new[i] = b /\ \A j \in 0 .. cap - 1 : j # i => new[j] = bs[j]
  BY <1>1 DEF Table
<1>3. HasKey(new, cap, b.key)
  BY <1>1, <1>2 DEF HasKey
<1>4. ASSUME HasKey(bs, cap, k) PROVE HasKey(new, cap, k)
  <2>1. PICK j \in LiveIn(bs, cap) : bs[j].key = k
    BY <1>4 DEF HasKey
  <2>2. CASE j = i
    BY <2>1, <2>2, <1>1, <1>3 DEF Matches, LiveIn
  <2>3. CASE j # i
    BY <2>1, <2>3, <1>1, <1>2 DEF HasKey, LiveIn
  <2>4. QED BY <2>2, <2>3
<1>5. ASSUME HasKey(new, cap, k), k # b.key PROVE HasKey(bs, cap, k)
  <2>1. PICK j \in LiveIn(new, cap) : new[j].key = k
    BY <1>5 DEF HasKey
  <2>2. j # i /\ j \in LiveIn(bs, cap)
    BY <2>1, <1>1, <1>2, <1>5
  <2>3. new[j] = bs[j]
    BY <2>2, <1>2 DEF LiveIn
  <2>4. QED BY <2>1, <2>2, <2>3 DEF HasKey
<1> HIDE DEF new
<1>6. QED BY <1>3, <1>4, <1>5 DEF new

(* A put keeps keys unique when no tombstone hides the key from the probe,  *)
(* or the key is not there; and it replaces a pair when the key is there.   *)
LEMMA PutUnique ==
  ASSUME client \in Clients, NEW bs, NEW cap, Table(bs, cap), NEW b \in Pair,
         LiveIn(bs, cap) # 0 .. cap - 1, Unbroken(bs, cap), Unique(bs, cap),
         NoTombstone(bs, cap) \/ ~HasKey(bs, cap, b.key)
  PROVE  LET i == ProbeInsert(bs, cap, b.key)
         IN  /\ Unique(Put(bs, cap, b), cap)
             /\ i \in LiveIn(bs, cap) <=> HasKey(bs, cap, b.key)
             /\ \A j \in LiveIn(bs, cap) : bs[j].key = b.key => j = i
<1> DEFINE i == ProbeInsert(bs, cap, b.key)
           new == Put(bs, cap, b)
<1>1. /\ i \in 0 .. cap - 1 /\ new = [bs EXCEPT ![i] = b]
      /\ Matches(bs[i], b.key) \/ ~key_exists(bs[i])
      /\ LiveIn(new, cap) = LiveIn(bs, cap) \union {i}
  BY PutKeeps
<1>2. new[i] = b /\ \A j \in 0 .. cap - 1 : j # i => new[j] = bs[j]
  BY <1>1 DEF Table
<1>3. i \in LiveIn(bs, cap) => HasKey(bs, cap, b.key)
  BY <1>1 DEF LiveIn, HasKey, Matches
<1>4. ASSUME NEW j \in LiveIn(bs, cap), bs[j].key = b.key PROVE j = i
  <2>1. NoTombstone(bs, cap)
    BY <1>4 DEF HasKey
  <2>2. PICK c \in 0 .. cap - 1 :
          /\ Path(b.key, cap, c) = j
          /\ \A e \in 0 .. c : bs[Path(b.key, cap, e)] # UNSET
    BY <1>4 DEF Unbroken, Reaches
  <2>3. b.key \in Keys /\ cap \in Nat \ {0}
    BY Marks DEF Table
  <2>4. PICK d \in 0 .. cap - 1 :
          /\ i = Path(b.key, cap, d)
          /\ \A e \in 0 .. d - 1 : ~Matches(bs[Path(b.key, cap, e)], b.key)
    BY <2>3, PutWhere
  <2>5. Matches(bs[Path(b.key, cap, c)], b.key)
    BY <2>2, <1>4 DEF Matches, LiveIn
  <2>6. d \in 0 .. c
    BY <2>4, <2>5
  <2>7. bs[i] # UNSET /\ bs[i] # TOMBSTONE
    BY <2>1, <2>2, <2>4, <2>6, <1>1 DEF NoTombstone
  <2>8. Matches(bs[i], b.key) /\ i \in LiveIn(bs, cap)
    BY <2>7, <1>1 DEF key_exists, LiveIn
  <2>9. QED BY <2>8, <1>4 DEF Matches, Unique
<1>5. HasKey(bs, cap, b.key) => i \in LiveIn(bs, cap)
  BY <1>4 DEF HasKey
<1>6. ASSUME NEW j \in LiveIn(new, cap), NEW l \in LiveIn(new, cap), new[j].key = new[l].key
      PROVE  j = l
  <2>1. \A m \in LiveIn(bs, cap) : m # i => new[m] = bs[m]
    BY <1>2 DEF LiveIn
  <2>2. CASE j # i /\ l # i
    BY <2>1, <2>2, <1>1, <1>6 DEF Unique
  <2>3. CASE j = i /\ l # i
    <3>1. bs[l].key = b.key /\ l \in LiveIn(bs, cap)
      BY <2>1, <2>3, <1>1, <1>2, <1>6
    <3>2. QED BY <3>1, <1>4, <2>3
  <2>4. CASE l = i /\ j # i
    <3>1. bs[j].key = b.key /\ j \in LiveIn(bs, cap)
      BY <2>1, <2>4, <1>1, <1>2, <1>6
    <3>2. QED BY <3>1, <1>4, <2>4
  <2>5. QED BY <2>2, <2>3, <2>4
<1>7. Unique(new, cap)
  BY <1>6 DEF Unique
<1> HIDE DEF i, new
<1>8. QED BY <1>3, <1>4, <1>5, <1>7 DEF i, new

-----------------------------------------------------------------------------
(* Where a successful lookup ends: at the key, past no unset bucket.        *)
LEMMA FoundAt ==
  ASSUME client \in Clients, NEW bs, NEW cap, Table(bs, cap), NEW k \in Keys,
         Found(bs, cap, k)
  PROVE  LET s == FoundStep(bs, cap, k)
         IN  /\ s \in 0 .. cap - 1
             /\ Matches(bs[Path(k, cap, s)], k)
             /\ \A e \in 0 .. s : bs[Path(k, cap, e)] # UNSET
<1> DEFINE stops == LookupStops(bs, cap, k)
           s == FoundStep(bs, cap, k)
<1>1. cap \in Nat \ {0} /\ stops \in SUBSET (0 .. cap - 1)
  BY DEF Table, LookupStops
<1>2. stops # {} /\ bs[Path(k, cap, Min(stops))] # UNSET /\ s = Min(stops)
  BY DEF Found, FoundStep
<1>3. Min(stops) \in stops /\ \A x \in stops : Min(stops) <= x
  <2>1. 0 \in Int /\ cap - 1 \in Int
    BY <1>1
  <2> HIDE DEF stops
  <2>2. QED BY <1>1, <1>2, <2>1, MinMax
<1>4. s \in 0 .. cap - 1 /\ s \in stops
  BY <1>1, <1>2, <1>3
<1>5. Matches(bs[Path(k, cap, s)], k)
  BY <1>2, <1>4 DEF LookupStops
<1>6. ASSUME NEW e \in 0 .. s PROVE bs[Path(k, cap, e)] # UNSET
  <2>1. CASE e = s
    BY <2>1, <1>2
  <2>2. CASE e # s
    <3>1. e \in 0 .. cap - 1 /\ ~(s <= e)
      BY <2>2, <1>1, <1>4
    <3>2. e \notin stops
      BY <3>1, <1>2, <1>3
    <3>3. QED BY <3>1, <3>2 DEF LookupStops
  <2>3. QED BY <2>1, <2>2
<1>7. QED BY <1>4, <1>5, <1>6

(* A key that is in an unbroken table is found.                             *)
LEMMA KeyIsFound ==
  ASSUME client \in Clients, NEW bs, NEW cap, Table(bs, cap), NEW k \in Keys,
         Unbroken(bs, cap), HasKey(bs, cap, k)
  PROVE  Found(bs, cap, k)
<1> DEFINE stops == LookupStops(bs, cap, k)
<1>1. cap \in Nat \ {0} /\ stops \in SUBSET (0 .. cap - 1)
  BY DEF Table, LookupStops
<1>2. PICK i \in LiveIn(bs, cap), d \in 0 .. cap - 1 :
        /\ bs[i].key = k /\ Path(k, cap, d) = i
        /\ \A e \in 0 .. d : bs[Path(k, cap, e)] # UNSET
  BY DEF HasKey, Unbroken, Reaches
<1>3. d \in stops
  BY <1>2 DEF LookupStops, Matches, LiveIn
<1>4. Min(stops) \in stops /\ \A x \in stops : Min(stops) <= x
  <2>1. 0 \in Int /\ cap - 1 \in Int
    BY <1>1
  <2> HIDE DEF stops
  <2>2. QED BY <1>1, <1>3, <2>1, MinMax
<1>5. Min(stops) \in 0 .. d /\ Min(stops) \in Nat
  BY <1>1, <1>3, <1>4
<1>6. FoundStep(bs, cap, k) = Min(stops)
  BY <1>2, <1>3, <1>5 DEF FoundStep
<1>7. QED BY <1>1, <1>5, <1>6, Marks DEF Found

(* A key that is found is in the table.                                     *)
LEMMA FoundIsKey ==
  ASSUME client \in Clients, NEW bs, NEW cap, Table(bs, cap), NEW k \in Keys,
         Found(bs, cap, k)
  PROVE  LET i == Path(k, cap, FoundStep(bs, cap, k))
         IN  i \in LiveIn(bs, cap) /\ bs[i].key = k /\ HasKey(bs, cap, k)
<1> DEFINE i == Path(k, cap, FoundStep(bs, cap, k))
<1>1. FoundStep(bs, cap, k) \in Nat /\ Matches(bs[i], k)
  BY FoundAt
<1>2. i \in 0 .. cap - 1
  BY <1>1, PathAround DEF Table
<1>3. QED BY <1>1, <1>2 DEF Matches, LiveIn, HasKey

(* What a lookup does to the table: nothing, or the pair it finds moves to  *)
(* the first tombstone that the probe has passed.                           *)
LEMMA LookupMoves ==
  ASSUME client \in Clients, NEW bs, NEW cap, Table(bs, cap), NEW k \in Keys,
         Found(bs, cap, k)
  PROVE  LET from == Path(k, cap, FoundStep(bs, cap, k))
             to == Rest(bs, cap, k)
         IN  /\ to \in 0 .. cap - 1
             /\ \E d \in 0 .. cap - 1 :
                  to = Path(k, cap, d) /\ \A e \in 0 .. d : bs[Path(k, cap, e)] # UNSET
             /\ \/ to = from /\ AfterLookup(bs, cap, k) = bs
                \/ /\ bs[to] = TOMBSTONE
                   /\ AfterLookup(bs, cap, k)
                        = [bs EXCEPT ![to] = bs[from], ![from] = TOMBSTONE]
<1> DEFINE s == FoundStep(bs, cap, k)
           from == Path(k, cap, s)
           to == Rest(bs, cap, k)
           passed == Passed(bs, cap, k)
<1>1. /\ cap \in Nat \ {0} /\ s \in 0 .. cap - 1
      /\ \A e \in 0 .. s : bs[Path(k, cap, e)] # UNSET
  BY FoundAt DEF Table
<1>2. CASE passed = {}
  <2>1. to = from /\ AfterLookup(bs, cap, k) = bs
    BY <1>2 DEF Rest, AfterLookup
  <2>2. from \in 0 .. cap - 1
    BY <1>1, PathAround
  <2> HIDE DEF to
  <2>3. QED BY <2>1, <2>2, <1>1 DEF to
<1>3. CASE passed # {}
  <2>1. passed \in SUBSET (0 .. s - 1)
    BY DEF Passed
  <2>2. Min(passed) \in passed
    <3>1. 0 \in Int /\ s - 1 \in Int
      BY <1>1
    <3> HIDE DEF passed, s
    <3>2. QED BY <1>3, <2>1, <3>1, MinMax
  <2>3. PICK d \in 0 .. s - 1 : d = Min(passed) /\ bs[Path(k, cap, d)] = TOMBSTONE
    BY <2>1, <2>2 DEF Passed
  <2>4. to = Path(k, cap, d) /\ bs[to] = TOMBSTONE
    BY <1>3, <2>3 DEF Rest
  <2>5. AfterLookup(bs, cap, k) = [bs EXCEPT ![to] = bs[from], ![from] = TOMBSTONE]
    BY <1>3 DEF AfterLookup
  <2>6. d \in 0 .. cap - 1 /\ d \in Nat /\ \A e \in 0 .. d : e \in 0 .. s
    BY <1>1
  <2>7. to \in 0 .. cap - 1
    BY <1>1, <2>4, <2>6, PathAround
  <2> HIDE DEF to, from, s
  <2>8. QED BY <1>1, <2>4, <2>5, <2>6, <2>7 DEF to, from, s
<1>4. QED BY <1>2, <1>3

(* A lookup changes where its pair lies and nothing else.                   *)
LEMMA LookupKeeps ==
  ASSUME client \in Clients, NEW bs, NEW cap, Table(bs, cap), NEW k \in Keys,
         Unbroken(bs, cap)
  PROVE  LET new == AfterLookup(bs, cap, k)
         IN  /\ Table(new, cap) /\ Unbroken(new, cap)
             /\ Cardinality(LiveIn(new, cap)) = Cardinality(LiveIn(bs, cap))
             /\ \A j : HasKey(bs, cap, j) => HasKey(new, cap, j)
             /\ \A i \in LiveIn(new, cap) : \E j \in LiveIn(bs, cap) : new[i] = bs[j]
             /\ Unique(bs, cap) => Unique(new, cap)
             /\ NoTombstone(bs, cap) => NoTombstone(new, cap)
<1> DEFINE from == Path(k, cap, FoundStep(bs, cap, k))
           to == Rest(bs, cap, k)
           new == AfterLookup(bs, cap, k)
<1>1. CASE new = bs
  <2> HIDE DEF new
  <2>1. QED BY <1>1 DEF new
<1>2. CASE new # bs
  <2>1. Found(bs, cap, k)
    BY <1>2 DEF AfterLookup
  <2>2. from \in LiveIn(bs, cap) /\ bs[from].key = k
    BY <2>1, FoundIsKey
  <2>3. /\ to \in 0 .. cap - 1 /\ bs[to] = TOMBSTONE
        /\ new = [bs EXCEPT ![to] = bs[from], ![from] = TOMBSTONE]
    BY <1>2, <2>1, LookupMoves
  <2>4. PICK d \in 0 .. cap - 1 :
          to = Path(k, cap, d) /\ \A e \in 0 .. d : bs[Path(k, cap, e)] # UNSET
    BY <2>1, LookupMoves
  <2> HIDE DEF from, to, new
  <2>5. cap \in Nat \ {0} /\ bs \in [0 .. cap - 1 -> Bucket] /\ from \in 0 .. cap - 1
    BY <2>2 DEF Table, LiveIn
  <2>6. bs[from] \in Pair /\ bs[from] \in Bucket /\ TOMBSTONE \in Bucket
    BY <2>2, LivePairs DEF Bucket
  <2>7. from # to /\ ~key_exists(bs[to]) /\ to \notin LiveIn(bs, cap)
    BY <2>2, <2>3, Marks DEF LiveIn
  <2>8. /\ new \in [0 .. cap - 1 -> Bucket]
        /\ new[to] = bs[from] /\ new[from] = TOMBSTONE
        /\ \A i \in 0 .. cap - 1 : i # to /\ i # from => new[i] = bs[i]
    BY <2>3, <2>5, <2>6, <2>7
  <2>9. Table(new, cap)
    BY <2>5, <2>8 DEF Table
  <2>10. LiveIn(new, cap) = (LiveIn(bs, cap) \ {from}) \union {to}
    BY <2>2, <2>3, <2>5, <2>8, Marks DEF LiveIn
  <2>11. \A i \in LiveIn(bs, cap) \ {from} : i # to /\ i # from /\ new[i] = bs[i]
    BY <2>7, <2>8 DEF LiveIn
  <2>12. \A i \in 0 .. cap - 1 : bs[i] # UNSET => new[i] # UNSET
    BY <2>2, <2>8, Marks DEF LiveIn
  <2>13. Cardinality(LiveIn(new, cap)) = Cardinality(LiveIn(bs, cap))
    <3>1. IsFiniteSet(LiveIn(bs, cap))
      <4>1. IsFiniteSet(0 .. cap - 1)
        BY <2>5, FS_Interval
      <4>2. LiveIn(bs, cap) \subseteq 0 .. cap - 1
        BY DEF LiveIn
      <4>3. QED BY <4>1, <4>2, FS_Subset
    <3>2. /\ IsFiniteSet(LiveIn(bs, cap) \ {from})
          /\ Cardinality(LiveIn(bs, cap) \ {from}) = Cardinality(LiveIn(bs, cap)) - 1
      BY <3>1, <2>2, FS_RemoveElement
    <3>3. Cardinality((LiveIn(bs, cap) \ {from}) \union {to})
            = Cardinality(LiveIn(bs, cap)) - 1 + 1
      BY <3>2, <2>7, FS_AddElement
    <3>4. Cardinality(LiveIn(bs, cap)) \in Nat
      BY <3>1, FS_CardinalityType
    <3>5. QED BY <3>3, <3>4, <2>10
  <2>14. ASSUME NEW j, HasKey(bs, cap, j) PROVE HasKey(new, cap, j)
    <3>1. PICK i \in LiveIn(bs, cap) : bs[i].key = j
      BY <2>14 DEF HasKey
    <3>2. CASE i = from
      BY <3>1, <3>2, <2>8, <2>10 DEF HasKey
    <3>3. CASE i # from
      BY <3>1, <3>3, <2>10, <2>11 DEF HasKey
    <3>4. QED BY <3>2, <3>3
  <2>15. \A i \in LiveIn(new, cap) : \E j \in LiveIn(bs, cap) : new[i] = bs[j]
    BY <2>2, <2>8, <2>10, <2>11
  <2>16. Unique(bs, cap) => Unique(new, cap)
    BY <2>2, <2>8, <2>10, <2>11 DEF Unique
  <2>17. ASSUME NEW i \in LiveIn(new, cap) PROVE Reaches(new, cap, i)
    <3>1. ASSUME NEW j \in Keys, NEW c \in 0 .. cap - 1,
                 \A e \in 0 .. c : bs[Path(j, cap, e)] # UNSET
          PROVE  \A e \in 0 .. c : new[Path(j, cap, e)] # UNSET
      <4>1. \A e \in 0 .. c : e \in Nat
        OBVIOUS
      <4>2. \A e \in 0 .. c : Path(j, cap, e) \in 0 .. cap - 1
        BY <4>1, <2>5, PathAround
      <4>3. QED BY <4>2, <3>1, <2>12
    <3>2. CASE i = to
      BY <3>1, <3>2, <2>2, <2>4, <2>8 DEF Reaches
    <3>3. CASE i # to
      <4>1. i \in LiveIn(bs, cap) /\ new[i] = bs[i]
        BY <3>3, <2>10, <2>11
      <4>2. bs[i].key \in Keys
        BY <4>1, LivePairs
      <4>3. QED BY <3>1, <4>1, <4>2 DEF Reaches, Unbroken
    <3>4. QED BY <3>2, <3>3
  <2>18. Unbroken(new, cap)
    BY <2>17 DEF Unbroken
  <2>19. ~NoTombstone(bs, cap)
    BY <2>3 DEF NoTombstone
  <2>20. QED BY <2>9, <2>13, <2>14, <2>15, <2>16, <2>18, <2>19 DEF new
<1>3. QED BY <1>1, <1>2

(* hash_erase leaves a tombstone where the pair was, whether or not the     *)
(* lookup has moved it.                                                     *)
LEMMA EraseKeeps ==
  ASSUME client \in Clients, NEW bs, NEW cap, Table(bs, cap), NEW k \in Keys,
         Unbroken(bs, cap), Found(bs, cap, k)
  PROVE  LET from == Path(k, cap, FoundStep(bs, cap, k))
             new == [AfterLookup(bs, cap, k) EXCEPT ![Rest(bs, cap, k)] = Erased]
         IN  /\ Table(new, cap) /\ Unbroken(new, cap)
             /\ from \in LiveIn(bs, cap) /\ bs[from].key = k
             /\ LiveIn(new, cap) = LiveIn(bs, cap) \ {from}
             /\ \A i \in LiveIn(new, cap) : new[i] = bs[i]
<1> DEFINE from == Path(k, cap, FoundStep(bs, cap, k))
           to == Rest(bs, cap, k)
           new == [AfterLookup(bs, cap, k) EXCEPT ![to] = Erased]
<1>1. from \in LiveIn(bs, cap) /\ bs[from].key = k
  BY FoundIsKey
<1>2. /\ to \in 0 .. cap - 1
      /\ \/ to = from /\ AfterLookup(bs, cap, k) = bs
         \/ /\ bs[to] = TOMBSTONE
            /\ AfterLookup(bs, cap, k) = [bs EXCEPT ![to] = bs[from], ![from] = TOMBSTONE]
  BY LookupMoves
<1>3. cap \in Nat \ {0} /\ bs \in [0 .. cap - 1 -> Bucket] /\ TOMBSTONE \in Bucket
  BY DEF Table, Bucket
<1> HIDE DEF from, to
<1>4. from \in 0 .. cap - 1
  BY <1>1 DEF LiveIn
<1>5. new = [bs EXCEPT ![from] = TOMBSTONE]
  <2>1. CASE to = from /\ AfterLookup(bs, cap, k) = bs
    BY <2>1 DEF Erased
  <2>2. CASE /\ bs[to] = TOMBSTONE
             /\ AfterLookup(bs, cap, k) = [bs EXCEPT ![to] = bs[from], ![from] = TOMBSTONE]
    <3>1. to # from
      BY <1>1, <2>2, Marks DEF LiveIn
    <3>2. QED BY <1>2, <1>3, <1>4, <2>2, <3>1 DEF Erased
  <2>3. QED BY <1>2, <2>1, <2>2
<1> HIDE DEF new
<1>6. /\ new \in [0 .. cap - 1 -> Bucket] /\ new[from] = TOMBSTONE
      /\ \A i \in 0 .. cap - 1 : i # from => new[i] = bs[i]
  BY <1>3, <1>4, <1>5
<1>7. Table(new, cap)
  BY <1>3, <1>6 DEF Table
<1>8. LiveIn(new, cap) = LiveIn(bs, cap) \ {from}
  BY <1>4, <1>6, Marks DEF LiveIn
<1>9. \A i \in LiveIn(new, cap) : new[i] = bs[i]
  BY <1>6, <1>8 DEF LiveIn
<1>10. \A i \in 0 .. cap - 1 : bs[i] # UNSET => new[i] # UNSET
  BY <1>6, Marks
<1>11. ASSUME NEW i \in LiveIn(new, cap) PROVE Reaches(new, cap, i)
  <2>1. i \in LiveIn(bs, cap) /\ new[i] = bs[i] /\ bs[i].key \in Keys
    BY <1>8, <1>9, LivePairs
  <2>2. PICK c \in 0 .. cap - 1 :
          /\ Path(bs[i].key, cap, c) = i
          /\ \A e \in 0 .. c : bs[Path(bs[i].key, cap, e)] # UNSET
    BY <2>1 DEF Unbroken, Reaches
  <2>3. \A e \in 0 .. c : e \in Nat
    OBVIOUS
  <2>4. \A e \in 0 .. c : Path(bs[i].key, cap, e) \in 0 .. cap - 1
    BY <2>1, <2>3, <1>3, PathAround
  <2>5. QED BY <2>1, <2>2, <2>4, <1>10 DEF Reaches
<1>12. Unbroken(new, cap)
  BY <1>11 DEF Unbroken
<1>13. QED BY <1>1, <1>7, <1>8, <1>9, <1>12 DEF from, new, to

-----------------------------------------------------------------------------
(* reindex_buckets, bucket by bucket.                                       *)
LEMMA ReindexSteps ==
  ASSUME client \in Clients, NEW bs, NEW old, Table(bs, old), NEW new \in Nat \ {0}
  PROVE  \E f \in [0 .. old -> [0 .. new - 1 -> Bucket]] :
           /\ f[0] = FreshBuckets(new)
           /\ \A i \in 1 .. old :
                f[i] = IF key_exists(bs[i - 1]) THEN Put(f[i - 1], new, bs[i - 1]) ELSE f[i - 1]
           /\ Reindexed(bs, old, new) = f[old]
<1> DEFINE X == [0 .. new - 1 -> Bucket]
           Turned(t, i) == IF key_exists(bs[i - 1]) THEN Put(t, new, bs[i - 1]) ELSE t
           step == [i \in 1 .. old |-> [t \in X |-> Turned(t, i)]]
           F(u) == [i \in 0 .. old |->
                      IF i = 0 THEN FreshBuckets(new)
                      ELSE IF key_exists(bs[i - 1]) THEN Put(u[i - 1], new, bs[i - 1])
                      ELSE u[i - 1]]
           u == CHOOSE v : v = F(v)
<1>1. old \in Nat \ {0} /\ \A i \in 1 .. old : bs[i - 1] \in Bucket
  BY LivePairs DEF Table
<1>2. FreshBuckets(new) \in X
  BY DEF FreshBuckets, Bucket
<1>3. \A i \in 1 .. old : \A t \in X : Turned(t, i) \in X
  BY <1>1 DEF Put
<1>4. step \in [1 .. old -> [X -> X]]
  BY <1>3
<1>5. \E f \in [0 .. old -> X] :
        f[0] = FreshBuckets(new) /\ \A i \in 1 .. old : f[i] = step[i][f[i - 1]]
  <2> DEFINE start == FreshBuckets(new)
  <2>1. old \in Nat /\ start \in X
    BY <1>1, <1>2
  <2>2. step \in Turns(X, old)
    BY <1>4 DEF Turns
  <2> HIDE DEF X, step, start
  <2>3. Runs(X, old, start, step)
    BY <2>1, <2>2, Loop
  <2>4. QED BY <2>3 DEF start, Runs
<1>6. PICK f \in [0 .. old -> X] :
        f[0] = FreshBuckets(new) /\ \A i \in 1 .. old : f[i] = step[i][f[i - 1]]
  BY <1>5
<1>7. \A i \in 1 .. old : f[i] = Turned(f[i - 1], i)
  <2>1. \A i \in 1 .. old : i - 1 \in 0 .. old
    BY <1>1
  <2> HIDE DEF X, Turned
  <2>2. QED BY <2>1, <1>6
<1>8. f = F(f)
  <2>1. \A i \in 0 .. old : i = 0 \/ i \in 1 .. old
    BY <1>1
  <2>2. \A i \in 0 .. old : f[i] = F(f)[i]
    BY <2>1, <1>6, <1>7
  <2>3. f = [i \in 0 .. old |-> f[i]]
    BY <1>6
  <2>4. QED BY <2>2, <2>3
<1>9. u = F(u)
  <2> HIDE DEF F
  <2>1. QED BY <1>8
<1>10. Reindexed(bs, old, new) = u[old]
  BY DEF Reindexed
<1> HIDE DEF u
<1>11. u[0] = FreshBuckets(new) /\ \A i \in 1 .. old : u[i] = Turned(u[i - 1], i)
  <2>1. 0 \in 0 .. old /\ \A i \in 1 .. old : i \in 0 .. old /\ i # 0
    BY <1>1
  <2>2. F(u)[0] = FreshBuckets(new) /\ \A i \in 1 .. old : F(u)[i] = Turned(u[i - 1], i)
    BY <2>1
  <2> HIDE DEF F, Turned
  <2>3. QED BY <2>2, <1>9
<1>12. \A i \in 0 .. old : u[i] \in X
  <2> DEFINE S == {i \in 0 .. old : u[i] \in X}
  <2>1. 0 \in S
    BY <1>1, <1>2, <1>11
  <2>2. ASSUME NEW i \in 0 .. old - 1, i \in S PROVE i + 1 \in S
    <3>1. i + 1 \in 1 .. old /\ i + 1 \in 0 .. old /\ i + 1 - 1 = i
      BY <1>1
    <3> HIDE DEF X, Turned
    <3>2. u[i + 1] = Turned(u[i], i + 1)
      BY <3>1, <1>11
    <3>3. QED BY <3>1, <3>2, <2>2, <1>3
  <2>3. \A i \in 0 .. old : i \in S
    <3> HIDE DEF S
    <3>1. QED BY <1>1, <2>1, <2>2, UpTo
  <2>4. QED BY <2>3
<1>13. u \in [0 .. old -> X]
  <2>1. u = [i \in 0 .. old |-> F(u)[i]]
    BY <1>9
  <2>2. DOMAIN u = 0 .. old /\ u = [i \in 0 .. old |-> u[i]]
    BY <2>1, <1>9
  <2> HIDE DEF F, X
  <2>3. QED BY <2>2, <1>12
<1>14. QED BY <1>10, <1>11, <1>13

(* The live buckets are finitely many.                                      *)
LEMMA LiveFinite ==
  ASSUME NEW bs, NEW cap, Table(bs, cap)
  PROVE  /\ IsFiniteSet(LiveIn(bs, cap)) /\ Cardinality(LiveIn(bs, cap)) \in Nat
         /\ Cardinality(0 .. cap - 1) = cap
<1>1. cap \in Nat \ {0}
  BY DEF Table
<1>2. IsFiniteSet(0 .. cap - 1) /\ Cardinality(0 .. cap - 1) = cap
  BY <1>1, FS_Interval
<1>3. LiveIn(bs, cap) \subseteq 0 .. cap - 1
  BY DEF LiveIn
<1>4. IsFiniteSet(LiveIn(bs, cap))
  BY <1>2, <1>3, FS_Subset
<1>5. QED BY <1>2, <1>4, FS_CardinalityType

(* The live pairs among the first i buckets, and what the loop of           *)
(* reindex_buckets has made of them.                                        *)
Before(bs, cap, i) == {j \in LiveIn(bs, cap) : j < i}
Carried(bs, old, i, t, new) ==
  /\ Table(t, new) /\ Unbroken(t, new) /\ NoTombstone(t, new) /\ Unique(t, new)
  /\ \A k : HasKey(t, new, k) <=> \E j \in Before(bs, old, i) : bs[j].key = k
  /\ \A l \in LiveIn(t, new) : \E j \in Before(bs, old, i) : t[l] = bs[j]
  /\ Cardinality(LiveIn(t, new)) <= Cardinality(Before(bs, old, i))

(* The fresh table has carried nothing over.                                *)
LEMMA CarriedNone ==
  ASSUME client \in Clients, NEW bs, NEW old, Table(bs, old), NEW new \in Nat \ {0}
  PROVE  Carried(bs, old, 0, FreshBuckets(new), new)
<1> DEFINE t == FreshBuckets(new)
<1>1. t \in [0 .. new - 1 -> Bucket] /\ \A i \in 0 .. new - 1 : t[i] = UNSET
  BY DEF FreshBuckets, Bucket
<1> HIDE DEF t
<1>2. Table(t, new) /\ LiveIn(t, new) = {}
  BY <1>1, Marks DEF Table, LiveIn
<1>3. NoTombstone(t, new)
  BY <1>1, Marks DEF NoTombstone
<1>4. Before(bs, old, 0) = {}
  BY DEF Before, LiveIn, Table
<1>5. Cardinality(LiveIn(t, new)) <= Cardinality(Before(bs, old, 0))
  BY <1>2, <1>4, FS_EmptySet
<1>6. Unbroken(t, new) /\ Unique(t, new) /\ \A k : ~HasKey(t, new, k)
  BY <1>2 DEF Unbroken, Unique, HasKey
<1>7. QED BY <1>2, <1>3, <1>4, <1>5, <1>6 DEF t, Carried

(* One turn of the loop carries its bucket over, if a pair is in it.        *)
LEMMA CarriedOne ==
  ASSUME client \in Clients, NEW bs, NEW old, Table(bs, old), NEW new \in Nat \ {0},
         Cardinality(LiveIn(bs, old)) < new,
         NEW i \in 0 .. old - 1, NEW t, Carried(bs, old, i, t, new)
  PROVE  Carried(bs, old, i + 1, IF key_exists(bs[i]) THEN Put(t, new, bs[i]) ELSE t, new)
<1>0. old \in Nat \ {0}
  BY DEF Table
<1>1. CASE ~key_exists(bs[i])
  <2>1. Before(bs, old, i + 1) = Before(bs, old, i)
    BY <1>0, <1>1 DEF Before, LiveIn
  <2>2. QED BY <1>1, <2>1 DEF Carried
<1>2. CASE key_exists(bs[i])
  <2> DEFINE b == bs[i]
             p == ProbeInsert(t, new, b.key)
             r == Put(t, new, b)
  <2>1. i \in LiveIn(bs, old) /\ b \in Pair
    BY <1>2, LivePairs DEF LiveIn
  <2>2. Before(bs, old, i + 1) = Before(bs, old, i) \union {i} /\ i \notin Before(bs, old, i)
    BY <1>0, <2>1 DEF Before, LiveIn
  <2>3. /\ IsFiniteSet(Before(bs, old, i)) /\ Cardinality(Before(bs, old, i)) \in Nat
        /\ Cardinality(Before(bs, old, i)) <= Cardinality(LiveIn(bs, old))
    <3>1. Before(bs, old, i) \subseteq LiveIn(bs, old)
      BY DEF Before
    <3>2. QED BY <3>1, LiveFinite, FS_Subset, FS_CardinalityType
  <2>4. Cardinality(Before(bs, old, i + 1)) = Cardinality(Before(bs, old, i)) + 1
    BY <2>2, <2>3, FS_AddElement
  <2>5. /\ Table(t, new) /\ Unbroken(t, new) /\ NoTombstone(t, new) /\ Unique(t, new)
        /\ \A k : HasKey(t, new, k) <=> \E j \in Before(bs, old, i) : bs[j].key = k
        /\ \A l \in LiveIn(t, new) : \E j \in Before(bs, old, i) : t[l] = bs[j]
        /\ Cardinality(LiveIn(t, new)) <= Cardinality(Before(bs, old, i))
    BY DEF Carried
  <2>6. IsFiniteSet(LiveIn(t, new)) /\ Cardinality(LiveIn(t, new)) \in Nat
    BY <2>5, LiveFinite
  <2>7. LiveIn(t, new) # 0 .. new - 1
    <3>1. Cardinality(LiveIn(t, new)) < new
      <4>1. Cardinality(LiveIn(bs, old)) \in Nat
        BY LiveFinite
      <4>2. QED BY <4>1, <2>3, <2>5, <2>6
    <3>2. Cardinality(0 .. new - 1) = new
      BY <2>5, LiveFinite
    <3>3. QED BY <3>1, <3>2, <2>6
  <2>8. /\ p \in 0 .. new - 1 /\ Table(r, new) /\ r = [t EXCEPT ![p] = b]
        /\ LiveIn(r, new) = LiveIn(t, new) \union {p} /\ Unbroken(r, new)
    BY <2>1, <2>5, <2>7, PutKeeps
  <2>9. Unique(r, new)
    BY <2>1, <2>5, <2>7, PutUnique
  <2>10. \A k : HasKey(r, new, k) <=> HasKey(t, new, k) \/ k = b.key
    BY <2>1, <2>5, <2>7, PutKeys
  <2> HIDE DEF r, p
  <2>11. r[p] = b /\ \A l \in 0 .. new - 1 : l # p => r[l] = t[l]
    BY <2>5, <2>8 DEF Table
  <2>12. NoTombstone(r, new)
    BY <2>1, <2>5, <2>11, Marks DEF NoTombstone, key_exists
  <2>13. \A k : HasKey(r, new, k) <=> \E j \in Before(bs, old, i + 1) : bs[j].key = k
    BY <2>2, <2>5, <2>10
  <2>14. ASSUME NEW l \in LiveIn(r, new)
         PROVE  \E j \in Before(bs, old, i + 1) : r[l] = bs[j]
    <3>1. CASE l = p
      BY <3>1, <2>2, <2>11
    <3>2. CASE l # p
      <4>1. l \in LiveIn(t, new) /\ r[l] = t[l]
        BY <3>2, <2>8, <2>11 DEF LiveIn
      <4>2. QED BY <4>1, <2>2, <2>5
    <3>3. QED BY <3>1, <3>2
  <2>15. Cardinality(LiveIn(r, new)) <= Cardinality(Before(bs, old, i + 1))
    <3>1. Cardinality(LiveIn(r, new)) <= Cardinality(LiveIn(t, new)) + 1
      <4>1. \/ Cardinality(LiveIn(t, new) \union {p}) = Cardinality(LiveIn(t, new))
            \/ Cardinality(LiveIn(t, new) \union {p}) = Cardinality(LiveIn(t, new)) + 1
        BY <2>6, FS_AddElement
      <4>2. Cardinality(LiveIn(r, new)) = Cardinality(LiveIn(t, new) \union {p})
        BY <2>8, Zenon
      <4>3. QED BY <4>1, <4>2, <2>6
    <3>2. Cardinality(LiveIn(r, new)) \in Nat
      BY <2>8, LiveFinite
    <3>3. QED BY <3>1, <3>2, <2>3, <2>4, <2>5, <2>6
  <2>16. Carried(bs, old, i + 1, r, new)
    BY <2>8, <2>9, <2>12, <2>13, <2>14, <2>15 DEF Carried
  <2>17. QED BY <2>16, <1>2 DEF r
<1>3. QED BY <1>1, <1>2

(* A rebuilt table has every key of the old one, each once, no tombstones,  *)
(* no pair the old one had not, and reaches them all.                       *)
LEMMA ReindexKeeps ==
  ASSUME client \in Clients, NEW bs, NEW old, Table(bs, old), NEW new \in Nat \ {0},
         Cardinality(LiveIn(bs, old)) < new
  PROVE  LET r == Reindexed(bs, old, new)
         IN  /\ Table(r, new) /\ Unbroken(r, new) /\ NoTombstone(r, new) /\ Unique(r, new)
             /\ \A k : HasKey(r, new, k) <=> HasKey(bs, old, k)
             /\ \A l \in LiveIn(r, new) : \E j \in LiveIn(bs, old) : r[l] = bs[j]
             /\ Cardinality(LiveIn(r, new)) <= Cardinality(LiveIn(bs, old))
<1>0. old \in Nat \ {0}
  BY DEF Table
<1>1. PICK f \in [0 .. old -> [0 .. new - 1 -> Bucket]] :
        /\ f[0] = FreshBuckets(new)
        /\ \A i \in 1 .. old :
             f[i] = IF key_exists(bs[i - 1]) THEN Put(f[i - 1], new, bs[i - 1]) ELSE f[i - 1]
        /\ Reindexed(bs, old, new) = f[old]
  BY ReindexSteps
<1> DEFINE S == {i \in 0 .. old : Carried(bs, old, i, f[i], new)}
<1>2. 0 \in S
  BY <1>0, <1>1, CarriedNone
<1>3. ASSUME NEW i \in 0 .. old - 1, i \in S PROVE i + 1 \in S
  <2>1. i + 1 \in 0 .. old /\ i + 1 \in 1 .. old /\ i + 1 - 1 = i
    BY <1>0
  <2>2. f[i + 1] = IF key_exists(bs[i]) THEN Put(f[i], new, bs[i]) ELSE f[i]
    BY <1>1, <2>1
  <2>3. Carried(bs, old, i + 1, f[i + 1], new)
    BY <1>3, <2>2, CarriedOne
  <2>4. QED BY <2>1, <2>3
<1>4. Carried(bs, old, old, Reindexed(bs, old, new), new)
  <2>1. \A i \in 0 .. old : i \in S
    <3> HIDE DEF S
    <3>1. QED BY <1>0, <1>2, <1>3, UpTo
  <2>2. old \in S
    BY <1>0, <2>1
  <2>3. QED BY <2>2, <1>1
<1>5. Before(bs, old, old) = LiveIn(bs, old)
  BY <1>0 DEF Before, LiveIn
<1>6. QED BY <1>4, <1>5 DEF Carried, HasKey

-----------------------------------------------------------------------------
(* Capacities: TABLE_MIN, doubled some times.                               *)
Size(cap) == \E e \in Nat : cap = TABLE_MIN * 2 ^ e

LEMMA Sizes ==
  /\ Size(TABLE_MIN)
  /\ \A cap : Size(cap) =>
       /\ cap \in Nat /\ cap >= 4 /\ cap % 4 = 0 /\ Size(cap * 2)
       /\ cap > TABLE_MIN => Size(cap \div 2) /\ cap = 2 * (cap \div 2)
<1>1. PICK m \in Nat \ {0} : TABLE_MIN = 4 * m
  <2>1. TABLE_MIN = 4 * (TABLE_MIN \div 4) /\ TABLE_MIN \div 4 \in Nat \ {0}
    BY TableMinAssumption
  <2>2. QED BY <2>1
<1>2. Size(TABLE_MIN)
  <2>1. 0 \in Nat /\ 2 ^ 0 = 1
    BY Doubling
  <2>2. TABLE_MIN = TABLE_MIN * 1
    BY <1>1
  <2>3. QED BY <2>1, <2>2 DEF Size
<1>3. ASSUME NEW e \in Nat, NEW cap, cap = TABLE_MIN * 2 ^ e
      PROVE  /\ cap \in Nat /\ cap >= 4 /\ cap % 4 = 0 /\ Size(cap * 2)
             /\ cap > TABLE_MIN => Size(cap \div 2) /\ cap = 2 * (cap \div 2)
  <2>1. PICK p \in Nat \ {0} : p = 2 ^ e /\ 2 ^ (e + 1) = 2 * p
    BY Doubling
  <2>2. cap = 4 * (m * p) /\ m * p \in Nat \ {0}
    BY <1>1, <1>3, <2>1
  <2>3. cap \in Nat /\ cap >= 4 /\ cap % 4 = 0
    BY <2>2
  <2>4. Size(cap * 2)
    <3>1. cap * 2 = TABLE_MIN * (2 * p) /\ e + 1 \in Nat
      BY <1>1, <1>3, <2>1
    <3>2. QED BY <3>1, <2>1 DEF Size
  <2>5. ASSUME cap > TABLE_MIN PROVE Size(cap \div 2) /\ cap = 2 * (cap \div 2)
    <3>1. e # 0
      <4>1. SUFFICES ASSUME e = 0 PROVE FALSE
        OBVIOUS
      <4>2. 2 ^ e = 1
        BY <4>1, Doubling
      <4>3. cap = TABLE_MIN
        BY <4>2, <1>1, <1>3
      <4>4. QED BY <4>3, <2>5, <1>1
    <3>2. e - 1 \in Nat /\ e - 1 + 1 = e
      BY <3>1
    <3>3. PICK q \in Nat \ {0} : q = 2 ^ (e - 1) /\ 2 ^ (e - 1 + 1) = 2 * q
      BY <3>2, Doubling
    <3>4. p = 2 * q
      BY <3>2, <3>3, <2>1
    <3>5. TABLE_MIN * q \in Nat /\ cap = 2 * (TABLE_MIN * q)
      BY <3>4, <1>1, <1>3, <2>1
    <3>6. cap \div 2 = TABLE_MIN * q
      BY <3>5
    <3>7. QED BY <3>2, <3>3, <3>5, <3>6 DEF Size
  <2>6. QED BY <2>3, <2>4, <2>5
<1>4. QED BY <1>2, <1>3 DEF Size

(* A table whose members fill at most 3/4 of it, before should_resize and   *)
(* after: one more member may come, and every key is where it is found.     *)
Holds(bs, cap, n) ==
  /\ Table(bs, cap) /\ Size(cap) /\ Unbroken(bs, cap)
  /\ n \in Nat /\ Cardinality(LiveIn(bs, cap)) <= n /\ 4 * n <= 3 * cap

LEMMA HoldsRoom ==
  ASSUME NEW bs, NEW cap, NEW n, Holds(bs, cap, n)
  PROVE  LiveIn(bs, cap) # 0 .. cap - 1
<1>1. cap \in Nat /\ cap >= 4 /\ n \in Nat /\ n < cap
  BY Sizes DEF Holds
<1>2. Cardinality(0 .. cap - 1) = cap /\ Cardinality(LiveIn(bs, cap)) \in Nat
  BY LiveFinite DEF Holds
<1>3. QED BY <1>1, <1>2 DEF Holds

LEMMA ResizeKeeps ==
  ASSUME client \in Clients, NEW bs, NEW cap, NEW n, Holds(bs, cap, n)
  PROVE  LET t == should_resize(bs, n, cap)
         IN  /\ Holds(t.bs, t.cap, n) /\ 4 * (n + 1) <= 3 * t.cap
             /\ \A k : HasKey(t.bs, t.cap, k) <=> HasKey(bs, cap, k)
             /\ \A l \in LiveIn(t.bs, t.cap) : \E j \in LiveIn(bs, cap) : t.bs[l] = bs[j]
             /\ Unique(bs, cap) => Unique(t.bs, t.cap)
             /\ NoTombstone(bs, cap) => NoTombstone(t.bs, t.cap)
<1> DEFINE new == Resized(n, cap)
           t == should_resize(bs, n, cap)
<1>1. /\ cap \in Nat /\ cap >= 4 /\ cap % 4 = 0 /\ Size(cap * 2)
      /\ cap > TABLE_MIN => Size(cap \div 2) /\ cap = 2 * (cap \div 2)
      /\ n \in Nat /\ 4 * n <= 3 * cap
      /\ Cardinality(LiveIn(bs, cap)) <= n
  BY Sizes DEF Holds
<1>2. t.cap = new /\ t.bs = IF new = cap THEN bs ELSE Reindexed(bs, cap, new)
  BY <1>1 DEF should_resize
<1>3. Size(new) /\ n < new /\ 4 * (n + 1) <= 3 * new
  <2>1. CASE 4 * n >= 3 * cap
    BY <2>1, <1>1 DEF Resized
  <2>2. CASE 4 * n < 3 * cap /\ 10 * n <= cap /\ cap > TABLE_MIN
    <3>1. PICK h \in Nat : h = cap \div 2 /\ cap = 2 * h
      BY <2>2, <1>1
    <3>2. new = h /\ Size(h)
      BY <2>2, <3>1, <1>1 DEF Resized
    <3>3. h >= 4
      BY <3>2, Sizes
    <3>4. QED BY <3>1, <3>2, <3>3, <2>2, <1>1
  <2>3. CASE 4 * n < 3 * cap /\ ~(10 * n <= cap /\ cap > TABLE_MIN)
    <3>1. new = cap /\ Size(cap)
      BY <2>3, <1>1 DEF Resized, Holds
    <3>2. 4 * n + 4 <= 3 * cap
      <4>1. PICK c \in Nat : cap = 4 * c
        BY <1>1
      <4>2. QED BY <4>1, <2>3, <1>1
    <3>3. QED BY <3>1, <3>2, <1>1
  <2>4. QED BY <2>1, <2>2, <2>3, <1>1
<1>4. CASE new = cap
  <2>1. t.bs = bs /\ t.cap = cap
    BY <1>2, <1>4
  <2> HIDE DEF t
  <2>2. QED BY <2>1, <1>3, <1>4 DEF t
<1>5. CASE new # cap
  <2>1. t.bs = Reindexed(bs, cap, new) /\ t.cap = new
    BY <1>2, <1>5
  <2>2. new \in Nat \ {0} /\ Cardinality(LiveIn(bs, cap)) < new /\ Table(bs, cap)
    <3>1. Table(bs, cap) /\ Cardinality(LiveIn(bs, cap)) \in Nat
      BY LiveFinite DEF Holds
    <3>2. new \in Nat /\ new >= 4
      BY <1>3, Sizes
    <3> HIDE DEF new
    <3>3. QED BY <3>1, <3>2, <1>1, <1>3
  <2> HIDE DEF t, new
  <2>3. /\ Table(t.bs, new) /\ Unbroken(t.bs, new) /\ NoTombstone(t.bs, new)
        /\ Unique(t.bs, new)
        /\ \A k : HasKey(t.bs, new, k) <=> HasKey(bs, cap, k)
        /\ \A l \in LiveIn(t.bs, new) : \E j \in LiveIn(bs, cap) : t.bs[l] = bs[j]
        /\ Cardinality(LiveIn(t.bs, new)) <= Cardinality(LiveIn(bs, cap))
    BY <2>1, <2>2, ReindexKeeps
  <2>4. Cardinality(LiveIn(t.bs, new)) <= n
    <3>1. Cardinality(LiveIn(t.bs, new)) \in Nat /\ Cardinality(LiveIn(bs, cap)) \in Nat
      BY <2>2, <2>3, LiveFinite
    <3>2. QED BY <3>1, <2>3, <1>1
  <2>5. 4 * n <= 3 * new
    BY <1>1, <1>3, <2>2
  <2>6. Holds(t.bs, t.cap, n)
    BY <2>1, <2>3, <2>4, <2>5, <1>1, <1>3 DEF Holds
  <2>7. QED BY <2>1, <2>3, <2>6, <1>3 DEF t
<1>6. QED BY <1>4, <1>5

-----------------------------------------------------------------------------
(* The inductive invariant.  A table that has buckets holds its members     *)
(* with room for one more, every key of the dictionary is in it, and a      *)
(* client that never erases leaves no tombstone.  For a tidy client it has  *)
(* no key twice and no pair that is not the dictionary's.                   *)
KeysThere == \A k \in DOMAIN dict : HasKey(buckets, capacity, k)
PairsRight ==
  /\ Unique(buckets, capacity)
  /\ \A i \in LiveIn(buckets, capacity) :
       buckets[i].key \in DOMAIN dict /\ buckets[i].value = dict[buckets[i].key]
  /\ nmemb = Cardinality(DOMAIN dict)

IInv ==
  /\ client \in Clients /\ TypeOK
  /\ dict = [k \in DOMAIN dict |-> dict[k]] /\ IsFiniteSet(DOMAIN dict)
  /\ capacity = 0 => nmemb = 0 /\ DOMAIN dict = {}
  /\ capacity # 0 => Holds(buckets, capacity, nmemb)
  /\ KeysThere
  /\ "erase" \notin Ops => NoTombstone(buckets, capacity)
  /\ Tidy => PairsRight

(* The three properties of the runs follow.                                 *)
LEMMA LiveIsLiveIn ==
  ASSUME TypeOK
  PROVE  DOMAIN buckets = 0 .. capacity - 1 /\ Live = LiveIn(buckets, capacity)
BY DEF TypeOK, Live, LiveIn

LEMMA InvUnbroken == IInv => ProbePathsUnbroken
<1> SUFFICES ASSUME IInv PROVE ProbePathsUnbroken
  OBVIOUS
<1>1. Live = LiveIn(buckets, capacity)
  BY LiveIsLiveIn DEF IInv
<1>2. CASE capacity = 0
  BY <1>1, <1>2 DEF ProbePathsUnbroken, LiveIn
<1>3. CASE capacity # 0
  BY <1>1, <1>3 DEF IInv, Holds, Unbroken, Reaches, ProbePathsUnbroken
<1>4. QED BY <1>2, <1>3

LEMMA InvSafe == IInv => TableSafe
<1> SUFFICES ASSUME IInv PROVE TableSafe
  OBVIOUS
<1>1. Live = LiveIn(buckets, capacity) /\ TypeOK
  BY LiveIsLiveIn DEF IInv
<1>2. CASE capacity = 0
  <2>1. Live = {}
    BY <1>1, <1>2 DEF LiveIn
  <2>2. QED BY <1>1, <1>2, <2>1, FS_EmptySet DEF TableSafe, RoomToInsert, TypeOK
<1>3. CASE capacity # 0
  BY <1>1, <1>3 DEF IInv, Holds, TableSafe, RoomToInsert
<1>4. QED BY <1>2, <1>3

LEMMA InvDictionary == IInv => TableIsDictionary
<1> SUFFICES ASSUME IInv PROVE TableIsDictionary
  OBVIOUS
<1> USE DEF IInv
<1>1. CASE capacity = 0
  <2>1. DOMAIN dict = {} /\ DOMAIN Lookups = {}
    BY <1>1 DEF Lookups, Found
  <2>2. Lookups = dict
    BY <2>1 DEF Lookups
  <2>3. QED BY <1>1, <2>1, <2>2, FS_EmptySet DEF TableIsDictionary, NoKeyLost
<1>2. CASE capacity # 0
  <2>1. Table(buckets, capacity) /\ Unbroken(buckets, capacity)
    BY <1>2 DEF Holds
  <2>2. ASSUME NEW k \in DOMAIN dict PROVE k \in Keys /\ Found(buckets, capacity, k)
    BY <2>1, KeyIsFound DEF KeysThere, TypeOK
  <2>3. NoKeyLost
    BY <2>2 DEF NoKeyLost, Lookups
  <2>4. ASSUME Tidy PROVE Lookups = dict /\ nmemb = Cardinality(DOMAIN dict)
    <3>1. ASSUME NEW k \in Keys, Found(buckets, capacity, k)
          PROVE  k \in DOMAIN dict /\ Lookups[k] = dict[k]
      <4> DEFINE i == Path(k, capacity, FoundStep(buckets, capacity, k))
      <4>1. i \in LiveIn(buckets, capacity) /\ buckets[i].key = k
        BY <2>1, <3>1, FoundIsKey
      <4>2. Lookups[k] = buckets[i].value
        BY <3>1 DEF Lookups
      <4> HIDE DEF i
      <4>3. QED BY <4>1, <4>2, <2>4 DEF PairsRight
    <3>2. DOMAIN Lookups = DOMAIN dict
      BY <2>2, <3>1 DEF Lookups
    <3>3. \A k \in DOMAIN dict : Lookups[k] = dict[k]
      BY <2>2, <3>1
    <3>4. Lookups = [k \in DOMAIN Lookups |-> Lookups[k]]
      BY DEF Lookups
    <3>5. QED BY <3>2, <3>3, <3>4, <2>4 DEF PairsRight
  <2>5. QED BY <2>3, <2>4 DEF TableIsDictionary
<1>3. QED BY <1>1, <1>2

LEMMA InvInit == Init => IInv
<1> SUFFICES ASSUME Init PROVE IInv
  OBVIOUS
<1>1. /\ client \in Clients /\ capacity = 0 /\ nmemb = 0
      /\ buckets = << >> /\ dict = << >> /\ DOMAIN dict = {} /\ DOMAIN buckets = {}
  BY DEF Init
<1>2. buckets \in [0 .. capacity - 1 -> Pair \union {UNSET, TOMBSTONE}]
  BY <1>1
<1>3. TypeOK
  BY <1>1, <1>2 DEF TypeOK
<1>4. LiveIn(buckets, capacity) = {} /\ NoTombstone(buckets, capacity)
  BY <1>1 DEF LiveIn, NoTombstone
<1>5. IsFiniteSet(DOMAIN dict) /\ nmemb = Cardinality(DOMAIN dict)
  BY <1>1, FS_EmptySet
<1>6. dict = [k \in DOMAIN dict |-> dict[k]]
  BY <1>1
<1>7. KeysThere /\ PairsRight
  BY <1>1, <1>4, <1>5 DEF KeysThere, PairsRight, Unique
<1>8. QED BY <1>1, <1>3, <1>4, <1>5, <1>6, <1>7 DEF IInv

(* What does not change with the table.                                     *)
LEMMA SameClient ==
  ASSUME client' = client
  PROVE  /\ Keys' = Keys /\ Values' = Values /\ Ops' = Ops /\ Pair' = Pair
         /\ Tidy' = Tidy
         /\ Holds(buckets, capacity, nmemb)' <=> Holds(buckets', capacity', nmemb')
BY DEF Keys, Values, Ops, Pair, Tidy, Holds, Table, Bucket

(* The buckets an insertion writes to.                                      *)
LEMMA Prepared ==
  ASSUME IInv
  PROVE  LET t == should_resize(buckets, nmemb, capacity)
         IN  /\ Holds(t.bs, t.cap, nmemb) /\ 4 * (nmemb + 1) <= 3 * t.cap
             /\ \A k : HasKey(t.bs, t.cap, k) <=> HasKey(buckets, capacity, k)
             /\ \A l \in LiveIn(t.bs, t.cap) :
                  \E j \in LiveIn(buckets, capacity) : t.bs[l] = buckets[j]
             /\ Unique(buckets, capacity) => Unique(t.bs, t.cap)
             /\ NoTombstone(buckets, capacity) => NoTombstone(t.bs, t.cap)
<1>1. CASE capacity = 0
  <2> DEFINE fresh == FreshBuckets(TABLE_MIN)
             t == should_resize(buckets, nmemb, capacity)
  <2>1. t.cap = TABLE_MIN /\ t.bs = fresh
    BY <1>1 DEF should_resize
  <2>2. fresh \in [0 .. TABLE_MIN - 1 -> Bucket] /\ \A i \in 0 .. TABLE_MIN - 1 : fresh[i] = UNSET
    BY DEF FreshBuckets, Bucket
  <2> HIDE DEF fresh, t
  <2>3. LiveIn(fresh, TABLE_MIN) = {} /\ NoTombstone(fresh, TABLE_MIN)
    BY <2>2, Marks DEF LiveIn, NoTombstone, IInv
  <2>4. LiveIn(buckets, capacity) = {} /\ nmemb = 0
    BY <1>1 DEF IInv, LiveIn
  <2>5. Size(TABLE_MIN) /\ TABLE_MIN \in Nat /\ TABLE_MIN >= 4
    BY Sizes
  <2>6. Cardinality(LiveIn(fresh, TABLE_MIN)) = 0
    BY <2>3, FS_EmptySet
  <2>7. Unbroken(fresh, TABLE_MIN) /\ Unique(fresh, TABLE_MIN)
    BY <2>3 DEF Unbroken, Unique
  <2>8. Holds(fresh, TABLE_MIN, nmemb)
    BY <2>2, <2>4, <2>5, <2>6, <2>7 DEF Holds, Table
  <2>9. QED BY <2>1, <2>3, <2>4, <2>5, <2>7, <2>8 DEF t, HasKey
<1>2. CASE capacity # 0
  BY <1>2, ResizeKeeps DEF IInv
<1>3. QED BY <1>1, <1>2


(* hash_insert, of a key that is not there or by a client that never erases *)
(* when it is.                                                              *)
LEMMA InsertInv ==
  ASSUME IInv, client' = client, NEW k \in Keys, NEW v \in Values, Insert(k, v),
         Tidy => k \notin DOMAIN dict \/ "erase" \notin Ops
  PROVE  IInv'
<1> DEFINE t == should_resize(buckets, nmemb, capacity)
           b == [key |-> k, value |-> v]
           i == ProbeInsert(t.bs, t.cap, k)
           new == Put(t.bs, t.cap, b)
<1>1. /\ capacity' = t.cap /\ buckets' = new
      /\ nmemb' = IF key_exists(t.bs[i]) THEN nmemb ELSE nmemb + 1
      /\ dict' = [j \in DOMAIN dict \union {k} |-> IF j = k THEN v ELSE dict[j]]
  BY DEF Insert
<1>2. b \in Pair /\ b.key = k /\ b.value = v
  BY DEF Pair
<1>3. /\ Holds(t.bs, t.cap, nmemb) /\ 4 * (nmemb + 1) <= 3 * t.cap
      /\ \A j : HasKey(t.bs, t.cap, j) <=> HasKey(buckets, capacity, j)
      /\ \A l \in LiveIn(t.bs, t.cap) :
           \E j \in LiveIn(buckets, capacity) : t.bs[l] = buckets[j]
      /\ Unique(buckets, capacity) => Unique(t.bs, t.cap)
      /\ NoTombstone(buckets, capacity) => NoTombstone(t.bs, t.cap)
  BY Prepared
<1> HIDE DEF t
<1>4. /\ Table(t.bs, t.cap) /\ Unbroken(t.bs, t.cap) /\ client \in Clients
      /\ LiveIn(t.bs, t.cap) # 0 .. t.cap - 1 /\ nmemb \in Nat
  BY <1>3, HoldsRoom DEF Holds, IInv
<1>5. /\ i \in 0 .. t.cap - 1 /\ Table(new, t.cap) /\ Unbroken(new, t.cap)
      /\ new = [t.bs EXCEPT ![i] = b]
      /\ Matches(t.bs[i], k) \/ ~key_exists(t.bs[i])
      /\ LiveIn(new, t.cap) = LiveIn(t.bs, t.cap) \union {i}
  BY <1>2, <1>4, PutKeeps
<1>6. \A j : HasKey(new, t.cap, j) <=> HasKey(t.bs, t.cap, j) \/ j = k
  BY <1>2, <1>4, PutKeys
<1>7. Tidy => /\ Unique(new, t.cap)
              /\ i \in LiveIn(t.bs, t.cap) <=> HasKey(t.bs, t.cap, k)
              /\ \A j \in LiveIn(t.bs, t.cap) : t.bs[j].key = k => j = i
  <2>1. SUFFICES ASSUME Tidy PROVE NoTombstone(t.bs, t.cap) \/ ~HasKey(t.bs, t.cap, k)
    BY <1>2, <1>3, <1>4, PutUnique DEF IInv, PairsRight
  <2>2. CASE k \notin DOMAIN dict
    <3>1. ~HasKey(buckets, capacity, k)
      BY <2>1, <2>2 DEF IInv, PairsRight, HasKey
    <3>2. QED BY <3>1, <1>3
  <2>3. CASE "erase" \notin Ops
    BY <2>3, <1>3 DEF IInv
  <2>4. QED BY <2>1, <2>2, <2>3
<1> HIDE DEF b, i, new
<1>8. new[i] = b /\ \A j \in 0 .. t.cap - 1 : j # i => new[j] = t.bs[j]
  BY <1>4, <1>5 DEF Table
<1>9. i \in LiveIn(t.bs, t.cap) <=> key_exists(t.bs[i])
  BY <1>5 DEF LiveIn
<1>10. Holds(new, t.cap, nmemb')
  <2>1. /\ Cardinality(LiveIn(t.bs, t.cap)) <= nmemb /\ Cardinality(LiveIn(t.bs, t.cap)) \in Nat
        /\ IsFiniteSet(LiveIn(t.bs, t.cap)) /\ t.cap \in Nat /\ Size(t.cap) /\ 4 * nmemb <= 3 * t.cap
    BY <1>3, <1>4, LiveFinite, Sizes DEF Holds
  <2>2. CASE key_exists(t.bs[i])
    <3>1. LiveIn(new, t.cap) = LiveIn(t.bs, t.cap) /\ nmemb' = nmemb
      BY <2>2, <1>1, <1>5, <1>9
    <3>2. Cardinality(LiveIn(new, t.cap)) <= nmemb
      BY <3>1, <2>1, Zenon
    <3>3. QED BY <3>1, <3>2, <2>1, <1>4, <1>5 DEF Holds
  <2>3. CASE ~key_exists(t.bs[i])
    <3>1. nmemb' = nmemb + 1
      BY <2>3, <1>1
    <3>2. Cardinality(LiveIn(t.bs, t.cap) \union {i}) = Cardinality(LiveIn(t.bs, t.cap)) + 1
      BY <2>1, <2>3, <1>9, FS_AddElement
    <3>3. Cardinality(LiveIn(new, t.cap)) = Cardinality(LiveIn(t.bs, t.cap)) + 1
      BY <3>2, <1>5, Zenon
    <3>4. Cardinality(LiveIn(new, t.cap)) <= nmemb' /\ nmemb' \in Nat /\ 4 * nmemb' <= 3 * t.cap
      BY <3>1, <3>3, <2>1, <1>3, <1>4
    <3>5. QED BY <3>4, <2>1, <1>5 DEF Holds
  <2>4. QED BY <2>2, <2>3
<1>11. /\ DOMAIN dict' = DOMAIN dict \union {k}
       /\ dict'[k] = v /\ \A j \in DOMAIN dict : j # k => dict'[j] = dict[j]
       /\ dict' = [j \in DOMAIN dict' |-> dict'[j]]
  BY <1>1
<1>12. IsFiniteSet(DOMAIN dict')
  <2>1. IsFiniteSet(DOMAIN dict \union {k})
    BY FS_AddElement DEF IInv
  <2>2. QED BY <2>1, <1>11
<1>13. TypeOK'
  <2>1. /\ capacity' \in Nat /\ nmemb' \in Nat
        /\ buckets' \in [0 .. capacity' - 1 -> Pair \union {UNSET, TOMBSTONE}]
    BY <1>1, <1>10 DEF Holds, Table, Bucket
  <2>2. DOMAIN dict' \subseteq Keys /\ \A j \in DOMAIN dict' : dict'[j] \in Values
    BY <1>11 DEF IInv, TypeOK
  <2>3. QED BY <2>1, <2>2, SameClient DEF TypeOK
<1>14. KeysThere'
  <2>1. ASSUME NEW j \in DOMAIN dict' PROVE HasKey(new, t.cap, j)
    BY <1>3, <1>6, <1>11 DEF IInv, KeysThere
  <2>2. QED BY <2>1, <1>1 DEF KeysThere
<1>15. ASSUME "erase" \notin Ops PROVE NoTombstone(new, t.cap)
  <2>1. NoTombstone(t.bs, t.cap)
    BY <1>3, <1>15 DEF IInv
  <2>2. b # TOMBSTONE
    BY <1>2, <1>4, Marks DEF key_exists
  <2>3. QED BY <2>1, <2>2, <1>8 DEF NoTombstone
<1>16. ASSUME Tidy PROVE PairsRight'
  <2>1. /\ Unique(buckets, capacity) /\ nmemb = Cardinality(DOMAIN dict)
        /\ \A j \in LiveIn(buckets, capacity) :
             buckets[j].key \in DOMAIN dict /\ buckets[j].value = dict[buckets[j].key]
    BY <1>16 DEF IInv, PairsRight
  <2>2. ASSUME NEW l \in LiveIn(new, t.cap)
        PROVE  new[l].key \in DOMAIN dict' /\ new[l].value = dict'[new[l].key]
    <3>1. CASE l = i
      BY <3>1, <1>2, <1>8, <1>11
    <3>2. CASE l # i
      <4>1. l \in LiveIn(t.bs, t.cap) /\ new[l] = t.bs[l]
        BY <3>2, <1>5, <1>8 DEF LiveIn
      <4>2. t.bs[l].key # k
        BY <4>1, <3>2, <1>7, <1>16
      <4>3. PICK j \in LiveIn(buckets, capacity) : t.bs[l] = buckets[j]
        BY <4>1, <1>3
      <4>4. QED BY <4>1, <4>2, <4>3, <2>1, <1>11
    <3>3. QED BY <3>1, <3>2
  <2>3. HasKey(t.bs, t.cap, k) <=> k \in DOMAIN dict
    BY <2>1, <1>3 DEF IInv, KeysThere, HasKey
  <2>4. nmemb' = Cardinality(DOMAIN dict')
    <3>1. Cardinality(DOMAIN dict \union {k})
            = IF k \in DOMAIN dict THEN Cardinality(DOMAIN dict) ELSE Cardinality(DOMAIN dict) + 1
      BY FS_AddElement DEF IInv
    <3>2. key_exists(t.bs[i]) <=> k \in DOMAIN dict
      BY <2>3, <1>7, <1>9, <1>16
    <3>3. QED BY <3>1, <3>2, <2>1, <1>1, <1>11
  <2>5. QED BY <2>2, <2>4, <1>1, <1>7, <1>16 DEF PairsRight
<1>17. capacity' # 0
  BY <1>1, <1>4 DEF Table
<1>18. client' \in Clients /\ ("erase" \notin Ops)' = ("erase" \notin Ops) /\ Tidy' = Tidy
  BY <1>4, SameClient
<1>19. Holds(buckets, capacity, nmemb)' /\ ("erase" \notin Ops => NoTombstone(buckets', capacity'))
  BY <1>1, <1>10, <1>15, SameClient
<1>20. QED BY <1>11, <1>12, <1>13, <1>14, <1>16, <1>17, <1>18, <1>19, SameClient DEF IInv


(* hash_erase.                                                              *)
LEMMA EraseInv ==
  ASSUME IInv, client' = client, NEW k \in Keys, EraseFound(k), "erase" \in Ops
  PROVE  IInv'
<1> DEFINE es == [AfterLookup(buckets, capacity, k) EXCEPT ![Rest(buckets, capacity, k)] = Erased]
           from == Path(k, capacity, FoundStep(buckets, capacity, k))
           t == should_resize(es, nmemb - 1, capacity)
<1>1. /\ Found(buckets, capacity, k)
      /\ capacity' = t.cap /\ buckets' = t.bs /\ nmemb' = nmemb - 1
      /\ dict' = [j \in DOMAIN dict \ {k} |-> dict[j]]
  BY DEF EraseFound
<1>2. /\ client \in Clients /\ Holds(buckets, capacity, nmemb)
      /\ Table(buckets, capacity) /\ Unbroken(buckets, capacity)
  BY <1>1 DEF IInv, Found, Holds
<1>3. /\ Table(es, capacity) /\ Unbroken(es, capacity)
      /\ from \in LiveIn(buckets, capacity) /\ buckets[from].key = k
      /\ LiveIn(es, capacity) = LiveIn(buckets, capacity) \ {from}
      /\ \A i \in LiveIn(es, capacity) : es[i] = buckets[i]
  BY <1>1, <1>2, EraseKeeps
<1> HIDE DEF es, from
<1>4. Holds(es, capacity, nmemb - 1)
  <2>1. /\ IsFiniteSet(LiveIn(buckets, capacity)) /\ Cardinality(LiveIn(buckets, capacity)) \in Nat
        /\ Cardinality(LiveIn(es, capacity)) \in Nat
    BY <1>2, <1>3, LiveFinite
  <2>2. Cardinality(LiveIn(buckets, capacity) \ {from}) = Cardinality(LiveIn(buckets, capacity)) - 1
    BY <1>3, <2>1, FS_RemoveElement
  <2>3. Cardinality(LiveIn(es, capacity)) = Cardinality(LiveIn(buckets, capacity)) - 1
    BY <2>2, <1>3, Zenon
  <2>4. /\ Cardinality(LiveIn(buckets, capacity)) <= nmemb /\ nmemb \in Nat
        /\ 4 * nmemb <= 3 * capacity /\ Size(capacity) /\ capacity \in Nat
    BY <1>2, Sizes DEF Holds
  <2>5. nmemb - 1 \in Nat /\ Cardinality(LiveIn(es, capacity)) <= nmemb - 1
        /\ 4 * (nmemb - 1) <= 3 * capacity
    BY <2>1, <2>3, <2>4
  <2>6. QED BY <2>4, <2>5, <1>3 DEF Holds
<1>5. /\ Holds(t.bs, t.cap, nmemb - 1)
      /\ \A j : HasKey(t.bs, t.cap, j) <=> HasKey(es, capacity, j)
      /\ \A l \in LiveIn(t.bs, t.cap) : \E j \in LiveIn(es, capacity) : t.bs[l] = es[j]
      /\ Unique(es, capacity) => Unique(t.bs, t.cap)
  BY SMTT(30), <1>2, <1>4, ResizeKeeps
<1> HIDE DEF t
<1>6. /\ DOMAIN dict' = DOMAIN dict \ {k}
      /\ \A j \in DOMAIN dict' : dict'[j] = dict[j]
      /\ dict' = [j \in DOMAIN dict' |-> dict'[j]]
  BY <1>1
<1>7. IsFiniteSet(DOMAIN dict')
  <2>1. IsFiniteSet(DOMAIN dict \ {k})
    BY FS_RemoveElement DEF IInv
  <2>2. QED BY <2>1, <1>6
<1>8. TypeOK'
  <2>1. /\ capacity' \in Nat /\ nmemb' \in Nat
        /\ buckets' \in [0 .. capacity' - 1 -> Pair \union {UNSET, TOMBSTONE}]
    BY <1>1, <1>5 DEF Holds, Table, Bucket
  <2>2. DOMAIN dict' \subseteq Keys /\ \A j \in DOMAIN dict' : dict'[j] \in Values
    BY <1>6 DEF IInv, TypeOK
  <2>3. QED BY <2>1, <2>2, SameClient DEF TypeOK
<1>9. KeysThere'
  <2>1. ASSUME NEW j \in DOMAIN dict' PROVE HasKey(t.bs, t.cap, j)
    <3>1. j \in DOMAIN dict /\ j # k
      BY <1>6
    <3>2. PICK i \in LiveIn(buckets, capacity) : buckets[i].key = j
      BY <3>1 DEF IInv, KeysThere, HasKey
    <3>3. i \in LiveIn(es, capacity) /\ es[i].key = j
      BY <3>1, <3>2, <1>3
    <3>4. QED BY <3>3, <1>5 DEF HasKey
  <2>2. QED BY <2>1, <1>1 DEF KeysThere
<1>10. ASSUME Tidy PROVE PairsRight'
  <2>1. /\ Unique(buckets, capacity) /\ nmemb = Cardinality(DOMAIN dict)
        /\ \A j \in LiveIn(buckets, capacity) :
             buckets[j].key \in DOMAIN dict /\ buckets[j].value = dict[buckets[j].key]
    BY <1>10 DEF IInv, PairsRight
  <2>2. Unique(es, capacity)
    BY <2>1, <1>3 DEF Unique
  <2>3. \A j \in LiveIn(es, capacity) :
          es[j].key \in DOMAIN dict' /\ es[j].value = dict'[es[j].key]
    <3>1. ASSUME NEW j \in LiveIn(es, capacity)
          PROVE  es[j].key \in DOMAIN dict' /\ es[j].value = dict'[es[j].key]
      <4>1. j \in LiveIn(buckets, capacity) /\ j # from /\ es[j] = buckets[j]
        BY <1>3
      <4>2. buckets[j].key # k
        BY <4>1, <2>1, <1>3 DEF Unique
      <4>3. QED BY <4>1, <4>2, <2>1, <1>6
    <3>2. QED BY <3>1
  <2>4. \A l \in LiveIn(t.bs, t.cap) :
          t.bs[l].key \in DOMAIN dict' /\ t.bs[l].value = dict'[t.bs[l].key]
    BY <2>3, <1>5
  <2>5. nmemb' = Cardinality(DOMAIN dict')
    <3>1. k \in DOMAIN dict
      BY <2>1, <1>3
    <3>2. IsFiniteSet(DOMAIN dict)
      BY DEF IInv
    <3>3. Cardinality(DOMAIN dict \ {k}) = Cardinality(DOMAIN dict) - 1
      BY <3>1, <3>2, FS_RemoveElement
    <3>4. Cardinality(DOMAIN dict') = Cardinality(DOMAIN dict) - 1
      BY <3>3, <1>6, Zenon
    <3>5. QED BY <3>4, <2>1, <1>1
  <2>6. QED BY <2>2, <2>4, <2>5, <1>1, <1>5 DEF PairsRight
<1>11. capacity' # 0
  BY <1>1, <1>5 DEF Holds, Table
<1>12. client' \in Clients /\ ("erase" \in Ops)' /\ Tidy' = Tidy
  BY <1>2, SameClient
<1>13. Holds(buckets, capacity, nmemb)'
  BY <1>1, <1>5, SameClient
<1>14. QED BY <1>6, <1>7, <1>8, <1>9, <1>10, <1>11, <1>12, <1>13 DEF IInv

(* hash_find, hash_count and hash_contains.                                 *)
LEMMA FindInv ==
  ASSUME IInv, client' = client, Find
  PROVE  IInv'
<1>1. PICK k \in Keys : buckets' = AfterLookup(buckets, capacity, k)
  BY DEF Find
<1>2. capacity' = capacity /\ nmemb' = nmemb /\ dict' = dict
  BY DEF Find
<1>3. CASE capacity = 0
  <2>1. buckets' = buckets
    BY <1>1, <1>3 DEF AfterLookup, Found
  <2>2. TypeOK' /\ KeysThere' /\ ("erase" \notin Ops => NoTombstone(buckets, capacity))'
    BY <1>2, <2>1, SameClient DEF IInv, TypeOK, KeysThere
  <2>3. PairsRight' <=> PairsRight
    BY <1>2, <2>1 DEF PairsRight
  <2>4. QED BY <1>2, <1>3, <2>1, <2>2, <2>3, SameClient DEF IInv
<1>4. CASE capacity # 0
  <2> DEFINE new == AfterLookup(buckets, capacity, k)
  <2>1. /\ client \in Clients /\ Holds(buckets, capacity, nmemb)
        /\ Table(buckets, capacity) /\ Unbroken(buckets, capacity)
    BY <1>4 DEF IInv, Holds
  <2>2. /\ Table(new, capacity) /\ Unbroken(new, capacity)
        /\ Cardinality(LiveIn(new, capacity)) = Cardinality(LiveIn(buckets, capacity))
        /\ \A j : HasKey(buckets, capacity, j) => HasKey(new, capacity, j)
        /\ \A i \in LiveIn(new, capacity) :
             \E j \in LiveIn(buckets, capacity) : new[i] = buckets[j]
        /\ Unique(buckets, capacity) => Unique(new, capacity)
        /\ NoTombstone(buckets, capacity) => NoTombstone(new, capacity)
    BY <2>1, LookupKeeps
  <2> HIDE DEF new
  <2>3. buckets' = new
    BY <1>1 DEF new
  <2>4. Holds(new, capacity, nmemb)
    BY <2>1, <2>2 DEF Holds
  <2>5. TypeOK'
    BY <1>2, <2>2, <2>3, SameClient DEF IInv, TypeOK, Table, Bucket
  <2>6. KeysThere'
    BY <1>2, <2>2, <2>3 DEF IInv, KeysThere
  <2>7. Tidy => PairsRight'
    <3>1. SUFFICES ASSUME Tidy PROVE PairsRight'
      OBVIOUS
    <3>2. PairsRight
      BY <3>1 DEF IInv
    <3>3. \A i \in LiveIn(new, capacity) :
            new[i].key \in DOMAIN dict /\ new[i].value = dict[new[i].key]
      BY <3>2, <2>2 DEF PairsRight
    <3>4. QED BY <1>2, <2>2, <2>3, <3>2, <3>3 DEF PairsRight
  <2>8. ("erase" \notin Ops => NoTombstone(buckets, capacity))'
    BY <1>2, <2>2, <2>3, SameClient DEF IInv
  <2>9. Holds(buckets, capacity, nmemb)'
    BY <1>2, <2>3, <2>4, SameClient
  <2>10. QED BY <1>2, <1>4, <2>1, <2>5, <2>6, <2>7, <2>8, <2>9, SameClient DEF IInv
<1>5. QED BY <1>3, <1>4

(* hash_clear makes the table one that was just created.                    *)
LEMMA ClearInv ==
  ASSUME IInv, client' = client, Clear
  PROVE  IInv'
<1>1. Init'
  BY DEF Clear, IInv, Init
<1>2. QED BY <1>1, InvInit, PTL

LEMMA StepInv ==
  ASSUME IInv, [Next /\ UNCHANGED client]_vars
  PROVE  IInv'
<1>1. CASE UNCHANGED vars
  <2>1. /\ client' = client /\ buckets' = buckets /\ capacity' = capacity
        /\ nmemb' = nmemb /\ dict' = dict
    BY <1>1 DEF vars
  <2>2. /\ TypeOK' /\ (KeysThere' <=> KeysThere) /\ (PairsRight' <=> PairsRight)
        /\ NoTombstone(buckets, capacity)' = NoTombstone(buckets, capacity)
    BY <2>1, SameClient DEF IInv, TypeOK, KeysThere, PairsRight
  <2>3. QED BY <2>1, <2>2, SameClient DEF IInv
<1>2. CASE client' = client /\ Add
  <2>1. PICK k \in Keys \ DOMAIN dict, v \in Values : Insert(k, v)
    BY <1>2 DEF Add
  <2>2. QED BY <2>1, <1>2, InsertInv
<1>3. CASE client' = client /\ Update
  <2>1. PICK k \in DOMAIN dict, v \in Values : Insert(k, v)
    BY <1>3 DEF Update
  <2>2. k \in Keys
    BY <2>1 DEF IInv, TypeOK
  <2>3. Tidy => "erase" \notin Ops
    BY <1>3 DEF Update, Tidy
  <2>4. QED BY <2>1, <2>2, <2>3, <1>3, InsertInv
<1>4. CASE client' = client /\ Erase
  BY <1>4, EraseInv DEF Erase
<1>5. CASE client' = client /\ Find
  BY <1>5, FindInv
<1>6. CASE client' = client /\ Clear
  BY <1>6, ClearInv
<1>7. QED BY <1>1, <1>2, <1>3, <1>4, <1>5, <1>6 DEF Next

(* A hash container of any client keeps its types, its members fill at most *)
(* 3/4 of its buckets, no insertion, move, erasure or resize breaks a probe *)
(* path, and every key inserted and not erased is found; the table of a     *)
(* tidy client is the dictionary that client built.                         *)
THEOREM TableCorrect ==
  Spec => [](TableSafe /\ ProbePathsUnbroken /\ TableIsDictionary)
<1>1. Spec => []IInv
  BY InvInit, StepInv, PTL DEF Spec
<1>2. IInv => TableSafe /\ ProbePathsUnbroken /\ TableIsDictionary
  BY InvSafe, InvUnbroken, InvDictionary
<1>3. QED BY <1>1, <1>2, PTL


-----------------------------------------------------------------------------
(* A sequence that repeats nothing is no longer than the set it is over, and *)
(* as long as that set when it has all of it.                               *)
LEMMA NoRepeats ==
  ASSUME NEW S, IsFiniteSet(S), NEW s \in Seq(S),
         \A i, j \in 1 .. Len(s) : s[i] = s[j] => i = j
  PROVE  /\ Len(s) <= Cardinality(S)
         /\ S = {s[i] : i \in 1 .. Len(s)} => Len(s) = Cardinality(S)
<1> DEFINE n == Len(s)
<1>1. n \in Nat /\ s \in [1 .. n -> S]
  OBVIOUS
<1>2. s \in Injection(1 .. n, S)
  BY <1>1 DEF Injection, IsInjective
<1>3. Cardinality(1 .. n) = n
  BY <1>1, FS_Interval
<1>4. /\ Cardinality(1 .. n) <= Cardinality(S)
      /\ s \in Surjection(1 .. n, S) => Cardinality(1 .. n) = Cardinality(S)
  <2> HIDE DEF n
  <2>1. QED BY <1>2, FS_Injection
<1>5. S = {s[i] : i \in 1 .. n} => s \in Surjection(1 .. n, S)
  BY <1>1 DEF Surjection
<1> HIDE DEF n
<1>6. QED BY <1>3, <1>4, <1>5 DEF n

(* The buckets a loop has behind it.                                        *)
Behind(way, b) == {i \in Live : IF way = "next" THEN i < b ELSE i > b}
KeysOf(S) == {buckets[i].key : i \in S}

(* The loops of next_hash and prev_hash skip no live bucket.                *)
LEMMA SeekSkipsNothing ==
  ASSUME NEW way \in {"next", "prev"}, TypeOK, NEW b \in -1 .. capacity
  PROVE  LET s == Seek(way, b, EndBucket(way))
         IN  /\ s \in Live \/ s = EndBucket(way)
             /\ Behind(way, s) = Behind(way, b)
<1> DEFINE e == EndBucket(way)
           at == Valid(way, b, e)
           s == Seek(way, b, e)
<1>1. capacity \in Nat /\ DOMAIN buckets = 0 .. capacity - 1
  BY DEF TypeOK
<1>2. Live \in SUBSET (0 .. capacity - 1) /\ at \in SUBSET Live
  BY <1>1 DEF Live, Valid, valid_iterator
<1> HIDE DEF at
<1>0. 0 \in Int /\ capacity - 1 \in Int /\ at \in SUBSET (0 .. capacity - 1)
  BY <1>1, <1>2
<1>3. CASE way = "next"
  <2>1. at = {i \in Live : i >= b} /\ e = capacity
    BY <1>1, <1>2, <1>3 DEF at, Valid, Live, InBounds, EndBucket, valid_iterator
  <2>2. \A c \in -1 .. capacity : Behind(way, c) = {i \in Live : i < c}
    BY <1>3 DEF Behind
  <2>3. CASE at = {}
    <3>1. s = e
      BY <2>3 DEF at, Seek
    <3>2. \A i \in Live : i < e <=> i < b
      BY <1>1, <1>2, <2>1, <2>3
    <3>3. e \in -1 .. capacity
      BY <2>1, <1>1
    <3> HIDE DEF s, e
    <3>4. Behind(way, s) = Behind(way, b)
      BY <3>1, <3>2, <3>3, <2>2
    <3>5. QED BY <3>1, <3>4 DEF s, e
  <2>4. CASE at # {}
    <3>1. s = Min(at)
      BY <2>4, <1>3 DEF at, Seek
    <3>2. Min(at) \in at /\ \A x \in at : Min(at) <= x
      BY <2>4, <1>0, MinMax
    <3> HIDE DEF s, e
    <3>3. s \in Live /\ s >= b /\ \A x \in Live : x >= b => s <= x
      BY <3>1, <3>2, <2>1
    <3>4. \A i \in Live : i < s <=> i < b
      BY <1>1, <1>2, <3>3
    <3>5. Behind(way, s) = Behind(way, b)
      <4>1. s \in -1 .. capacity
        BY <3>3, <1>1, <1>2
      <4>2. QED BY <4>1, <3>4, <2>2
    <3>6. QED BY <3>3, <3>5 DEF s, e
  <2>5. QED BY <2>3, <2>4
<1>4. CASE way = "prev"
  <2>1. at = {i \in Live : i <= b} /\ e = -1
    BY <1>1, <1>2, <1>4 DEF at, Valid, Live, InBounds, EndBucket, valid_iterator
  <2>2. \A c \in -1 .. capacity : Behind(way, c) = {i \in Live : i > c}
    BY <1>4 DEF Behind
  <2>3. CASE at = {}
    <3>1. s = e
      BY <2>3 DEF at, Seek
    <3>2. \A i \in Live : i > e <=> i > b
      BY <1>1, <1>2, <2>1, <2>3
    <3>3. e \in -1 .. capacity
      BY <2>1, <1>1
    <3> HIDE DEF s, e
    <3>4. Behind(way, s) = Behind(way, b)
      BY <3>1, <3>2, <3>3, <2>2
    <3>5. QED BY <3>1, <3>4 DEF s, e
  <2>4. CASE at # {}
    <3>1. s = Max(at)
      BY <2>4, <1>4 DEF at, Seek
    <3>2. Max(at) \in at /\ \A x \in at : x <= Max(at)
      BY <2>4, <1>0, MinMax
    <3> HIDE DEF s, e
    <3>3. s \in Live /\ s <= b /\ \A x \in Live : x <= b => x <= s
      BY <3>1, <3>2, <2>1
    <3>4. \A i \in Live : i > s <=> i > b
      BY <1>1, <1>2, <3>3
    <3>5. Behind(way, s) = Behind(way, b)
      <4>1. s \in -1 .. capacity
        BY <3>3, <1>1, <1>2
      <4>2. QED BY <4>1, <3>4, <2>2
    <3>6. QED BY <3>3, <3>5 DEF s, e
  <2>5. QED BY <2>3, <2>4
<1>5. QED BY <1>3, <1>4

(* The inductive invariant of a loop: the body has seen the keys of the     *)
(* live buckets behind the iterator, each once.                             *)
WInv ==
  /\ IInv
  /\ walk \in {"none", "next", "prev"}
  /\ Tidy /\ ~BodyLooksUp =>
       /\ visited \in Seq(DOMAIN dict)
       /\ \A i, j \in 1 .. Len(visited) : visited[i] = visited[j] => i = j
       /\ walk # "none" =>
            /\ end = EndBucket(walk)
            /\ bucket \in Live \/ bucket = end
            /\ {visited[i] : i \in 1 .. Len(visited)} = KeysOf(Behind(walk, bucket))

LEMMA WInvSees == WInv => LoopSeesKeys
<1> SUFFICES ASSUME WInv, Tidy, ~BodyLooksUp
             PROVE  /\ \A i, j \in 1 .. Len(visited) : visited[i] = visited[j] => i = j
                    /\ {visited[i] : i \in 1 .. Len(visited)} \subseteq DOMAIN dict
                    /\ walk # "none" /\ bucket = end => Len(visited) = Cardinality(DOMAIN dict)
  BY DEF LoopSeesKeys
<1>1. /\ visited \in Seq(DOMAIN dict)
      /\ \A i, j \in 1 .. Len(visited) : visited[i] = visited[j] => i = j
      /\ IsFiniteSet(DOMAIN dict)
  BY DEF WInv, IInv
<1>2. ASSUME walk # "none", bucket = end PROVE Len(visited) = Cardinality(DOMAIN dict)
  <2>1. {visited[i] : i \in 1 .. Len(visited)} = KeysOf(Behind(walk, end)) /\ end = EndBucket(walk)
    BY <1>2 DEF WInv
  <2>2. capacity \in Nat /\ Live = LiveIn(buckets, capacity) /\ Live \in SUBSET (0 .. capacity - 1)
    BY LiveIsLiveIn DEF WInv, IInv, TypeOK, LiveIn
  <2>3. \A i \in Live : IF walk = "next" THEN i < end ELSE i > end
    BY <2>1, <2>2, <1>2 DEF EndBucket
  <2>4. Behind(walk, end) = Live
    BY <2>3 DEF Behind
  <2>5. KeysOf(Live) = DOMAIN dict
    <3>1. ASSUME NEW k \in DOMAIN dict PROVE k \in KeysOf(Live)
      BY <2>2 DEF WInv, IInv, KeysThere, HasKey, KeysOf
    <3>2. ASSUME NEW k \in KeysOf(Live) PROVE k \in DOMAIN dict
      BY <2>2 DEF WInv, IInv, PairsRight, KeysOf
    <3>3. QED BY <3>1, <3>2
  <2>6. QED BY <2>1, <2>4, <2>5, <1>1, NoRepeats
<1>3. {visited[i] : i \in 1 .. Len(visited)} \subseteq DOMAIN dict
  BY <1>1
<1>4. QED BY <1>1, <1>2, <1>3


LEMMA WInvInit == InitWalk => WInv
<1> SUFFICES ASSUME InitWalk PROVE WInv
  OBVIOUS
<1>1. IInv
  BY InvInit DEF InitWalk
<1>2. walk = "none" /\ visited = << >>
  BY DEF InitWalk
<1>3. visited \in Seq(DOMAIN dict) /\ Len(visited) = 0
  BY <1>2
<1>4. QED BY <1>1, <1>2, <1>3 DEF WInv


(* The steps of the loop leave the table and what is read of it alone.      *)
LEMMA SameTable ==
  ASSUME WInv, UNCHANGED vars, client' = client
  PROVE  /\ IInv' /\ dict' = dict /\ buckets' = buckets /\ capacity' = capacity
         /\ Live' = Live /\ Tidy' = Tidy /\ BodyLooksUp' = BodyLooksUp
<1>1. IInv'
  BY StepInv DEF WInv
<1>2. QED BY <1>1 DEF vars, Live, Tidy, BodyLooksUp, Ops

LEMMA BeginInv ==
  ASSUME WInv, client' = client, Begin
  PROVE  WInv'
<1>1. PICK way \in {"next", "prev"} :
        /\ walk' = way /\ end' = EndBucket(way)
        /\ bucket' = Seek(way, FirstBucket(way), EndBucket(way))
  BY DEF Begin, Directions
<1>2. visited' = << >> /\ UNCHANGED vars
  BY DEF Begin
<1>3. TypeOK /\ capacity \in Nat /\ Live \in SUBSET (0 .. capacity - 1)
  BY LiveIsLiveIn DEF WInv, IInv, TypeOK, LiveIn
<1>4. FirstBucket(way) \in -1 .. capacity /\ Behind(way, FirstBucket(way)) = {}
  <2>1. FirstBucket(way) \in -1 .. capacity
    BY <1>3 DEF FirstBucket
  <2>2. \A i \in Live : ~(IF way = "next" THEN i < FirstBucket(way) ELSE i > FirstBucket(way))
    BY <1>3 DEF FirstBucket
  <2>3. QED BY <2>1, <2>2 DEF Behind
<1>5. /\ bucket' \in Live \/ bucket' = end'
      /\ Behind(way, bucket') = {}
  BY <1>1, <1>3, <1>4, SeekSkipsNothing
<1>6. /\ visited' \in Seq(DOMAIN dict) /\ Len(visited') = 0
      /\ {visited'[i] : i \in 1 .. Len(visited')} = {}
  BY <1>2
<1>7. EndBucket(walk)' = end'
  BY <1>1, <1>2, SameTable DEF EndBucket
<1>8. KeysOf(Behind(walk, bucket))' = {}
  BY <1>1, <1>2, <1>5, SameTable DEF KeysOf, Behind
<1>9. IInv' /\ dict' = dict /\ Live' = Live /\ walk' \in {"none", "next", "prev"}
  BY <1>1, <1>2, SameTable
<1>10. QED BY <1>5, <1>6, <1>7, <1>8, <1>9 DEF WInv

LEMMA TurnInv ==
  ASSUME WInv, client' = client, Turn
  PROVE  WInv'
<1>1. /\ walk \in {"next", "prev"} /\ bucket # end
      /\ bucket' = Seek(walk, After(walk, bucket), end)
      /\ end' = end /\ walk' = walk
  BY DEF Turn, WInv
<1>2. UNCHANGED vars
  BY DEF Turn
<1>3. IInv' /\ dict' = dict /\ Live' = Live /\ walk' \in {"none", "next", "prev"}
      /\ Tidy' = Tidy /\ BodyLooksUp' = BodyLooksUp
  BY <1>1, <1>2, SameTable
<1>4. ASSUME Tidy, ~BodyLooksUp
      PROVE  /\ visited' \in Seq(DOMAIN dict)
             /\ \A i, j \in 1 .. Len(visited') : visited'[i] = visited'[j] => i = j
             /\ end = EndBucket(walk)
             /\ bucket' \in Live \/ bucket' = end
             /\ {visited'[i] : i \in 1 .. Len(visited')} = KeysOf(Behind(walk, bucket'))
  <2>1. /\ visited \in Seq(DOMAIN dict)
        /\ \A i, j \in 1 .. Len(visited) : visited[i] = visited[j] => i = j
        /\ end = EndBucket(walk) /\ bucket \in Live
        /\ {visited[i] : i \in 1 .. Len(visited)} = KeysOf(Behind(walk, bucket))
    BY <1>1, <1>4 DEF WInv
  <2>2. /\ TypeOK /\ capacity \in Nat /\ Live = LiveIn(buckets, capacity)
        /\ Live \in SUBSET (0 .. capacity - 1)
    BY LiveIsLiveIn DEF WInv, IInv, TypeOK, LiveIn
  <2>3. After(walk, bucket) \in -1 .. capacity
    BY <2>1, <2>2 DEF After
  <2>4. /\ bucket' \in Live \/ bucket' = end
        /\ Behind(walk, bucket') = Behind(walk, After(walk, bucket))
    BY <1>1, <2>1, <2>2, <2>3, SeekSkipsNothing
  <2>5. Behind(walk, After(walk, bucket)) = Behind(walk, bucket) \union {bucket}
    BY <1>1, <2>1, <2>2 DEF Behind, After
  <2> DEFINE key == buckets[bucket].key
  <2>6. KeysOf(Behind(walk, bucket')) = KeysOf(Behind(walk, bucket)) \union {key}
    BY <2>4, <2>5 DEF KeysOf
  <2>7. key \in DOMAIN dict /\ Get(bucket) = key
    BY <1>4, <2>1, <2>2 DEF WInv, IInv, PairsRight, Get, Live
  <2>8. key \notin KeysOf(Behind(walk, bucket))
    <3>1. \A i \in Behind(walk, bucket) : i \in Live /\ i # bucket
      BY <2>1, <2>2, <1>1 DEF Behind
    <3>2. QED BY <3>1, <2>1, <2>2, <1>4 DEF KeysOf, WInv, IInv, PairsRight, Unique
  <2>9. Len(visited) <= Cardinality(Keys)
    <3>1. visited \in Seq(Keys) /\ IsFiniteSet(Keys)
      BY <2>1, <2>2, KeysAssumption DEF WInv, IInv, TypeOK, Keys
    <3>2. QED BY <3>1, <2>1, NoRepeats
  <2>10. visited' = Append(visited, key)
    <3>1. Len(visited) \in Nat /\ Cardinality(Keys) \in Nat
      BY <2>1, KeysAssumption, FS_CardinalityType DEF WInv, IInv, Keys
    <3>2. QED BY <3>1, <2>7, <2>9 DEF Turn
  <2> HIDE DEF key
  <2>11. /\ visited' \in Seq(DOMAIN dict) /\ Len(visited') = Len(visited) + 1
         /\ \A i \in 1 .. Len(visited) : visited'[i] = visited[i]
         /\ visited'[Len(visited) + 1] = key
    BY <2>1, <2>7, <2>10
  <2>12. \A i \in 1 .. Len(visited) : visited[i] # key
    BY <2>1, <2>8
  <2>13. \A i, j \in 1 .. Len(visited') : visited'[i] = visited'[j] => i = j
    <3>1. Len(visited) \in Nat
      BY <2>1
    <3>2. ASSUME NEW i \in 1 .. Len(visited'), NEW j \in 1 .. Len(visited'),
                 visited'[i] = visited'[j]
          PROVE  i = j
      <4>1. /\ i \in 1 .. Len(visited) \/ i = Len(visited) + 1
            /\ j \in 1 .. Len(visited) \/ j = Len(visited) + 1
        BY <3>1, <2>11
      <4>2. QED BY <4>1, <3>2, <2>1, <2>11, <2>12
    <3>3. QED BY <3>2
  <2>14. {visited'[i] : i \in 1 .. Len(visited')}
           = {visited[i] : i \in 1 .. Len(visited)} \union {key}
    <3>1. Len(visited) \in Nat
      BY <2>1
    <3>2. 1 .. Len(visited') = 1 .. Len(visited) \union {Len(visited) + 1}
      BY <3>1, <2>11
    <3>3. QED BY <3>2, <2>11
  <2>15. QED BY <2>1, <2>4, <2>6, <2>11, <2>13, <2>14
<1>5. EndBucket(walk)' = EndBucket(walk)
  BY <1>1, <1>2, SameTable DEF EndBucket
<1>6. KeysOf(Behind(walk, bucket))' = KeysOf(Behind(walk, bucket'))
  BY <1>1, <1>2, SameTable DEF KeysOf, Behind
<1>7. QED BY <1>1, <1>3, <1>4, <1>5, <1>6 DEF WInv

LEMMA LeaveInv ==
  ASSUME WInv, client' = client, Leave
  PROVE  WInv'
<1>1. UNCHANGED vars /\ walk' = "none" /\ visited' = visited
  BY DEF Leave
<1>2. IInv' /\ dict' = dict /\ Tidy' = Tidy /\ BodyLooksUp' = BodyLooksUp
  BY <1>1, SameTable
<1>3. QED BY <1>1, <1>2 DEF WInv

(* A body that looks keys up leaves a table, if no longer a loop, in order. *)
LEMMA LookUpInv ==
  ASSUME WInv, client' = client, LookUp
  PROVE  WInv'
<1>1. BodyLooksUp /\ Find /\ walk' = walk
  BY DEF LookUp, walkVars
<1>2. IInv'
  BY <1>1, FindInv DEF WInv
<1>3. BodyLooksUp'
  BY <1>1 DEF BodyLooksUp, Ops
<1>4. QED BY <1>1, <1>2, <1>3 DEF WInv

(* Between two loops the iterator is gone.                                  *)
LEMMA ChangeInv ==
  ASSUME WInv, client' = client, Change
  PROVE  WInv'
<1>1. Next /\ walk' = "none" /\ visited' = << >>
  BY DEF Change
<1>2. IInv'
  BY <1>1, StepInv DEF WInv
<1>3. visited' \in Seq(DOMAIN dict') /\ Len(visited') = 0
  BY <1>1
<1>4. QED BY <1>1, <1>2, <1>3 DEF WInv

LEMMA WStepInv ==
  ASSUME WInv, [NextWalk /\ UNCHANGED client]_allVars
  PROVE  WInv'
<1>1. CASE NextWalk /\ client' = client
  BY <1>1, BeginInv, TurnInv, LeaveInv, LookUpInv, ChangeInv DEF NextWalk
<1>2. CASE UNCHANGED allVars
  <2>1. /\ UNCHANGED vars /\ client' = client /\ walk' = walk /\ bucket' = bucket
        /\ end' = end /\ visited' = visited
    BY <1>2 DEF allVars, vars
  <2>2. /\ IInv' /\ dict' = dict /\ Live' = Live /\ Tidy' = Tidy
        /\ BodyLooksUp' = BodyLooksUp
    BY <2>1, SameTable
  <2>3. EndBucket(walk)' = EndBucket(walk)
    BY <2>1, SameTable DEF EndBucket
  <2>4. KeysOf(Behind(walk, bucket))' = KeysOf(Behind(walk, bucket))
    BY <2>1, SameTable DEF KeysOf, Behind
  <2>5. QED BY <2>1, <2>2, <2>3, <2>4 DEF WInv
<1>3. QED BY <1>1, <1>2

(* While a program loops over the container and changes it between loops,   *)
(* the table stays right.                                                   *)
THEOREM TableCorrectInLoops ==
  SpecWalk => [](TableSafe /\ ProbePathsUnbroken /\ TableIsDictionary)
<1>1. SpecWalk => []WInv
  BY WInvInit, WStepInv, PTL DEF SpecWalk
<1>2. WInv => TableSafe /\ ProbePathsUnbroken /\ TableIsDictionary
  BY InvSafe, InvUnbroken, InvDictionary DEF WInv
<1>3. QED BY <1>1, <1>2, PTL

(* A loop from either end over the table of a tidy client sees every key    *)
(* once and nothing else, over unset buckets and tombstones, when its body  *)
(* looks nothing up.                                                        *)
THEOREM LoopsSeeKeys == SpecWalk => []LoopSeesKeys
<1>1. SpecWalk => []WInv
  BY WInvInit, WStepInv, PTL DEF SpecWalk
<1>2. QED BY <1>1, WInvSees, PTL
=============================================================================
