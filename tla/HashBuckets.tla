---------------------------- MODULE HashBuckets ----------------------------
(***************************************************************************)
(* src/src/internals/hash.c, the open-addressing table under hash_set and   *)
(* hash_table: linear probing, tombstones left by erase, lookups that move  *)
(* what they find into the first tombstone they passed, growth at a load of *)
(* 3/4 and shrinkage at 1/10.                                               *)
(*                                                                         *)
(* A bucket is UNSET (the 0xFF fill of memset), TOMBSTONE, or a live pair.  *)
(* The node that holds a pair's key and value is the pair itself here:      *)
(* hash.c returns no node before hash_clear, so a pair never dangles.       *)
(***************************************************************************)
EXTENDS Integers, FiniteSets, FiniteSetsExt

CONSTANTS
  Clients,     \* what a client may be: the keys and values it uses, the operations
               \* it calls, and a bound on the capacity
  HashOf,      \* the HashFnc of the container
  TABLE_MIN,   \* hash.h: 8
  UNSET, TOMBSTONE, NOT_FOUND

ASSUME HashAssumption == \A c \in Clients : \A k \in c.keys : HashOf[k] \in Nat
ASSUME TableMinAssumption == TABLE_MIN \in Nat \ {0} /\ TABLE_MIN % 4 = 0
ASSUME KeysAssumption == \A c \in Clients : IsFiniteSet(c.keys)
ASSUME MarksAssumption ==
  /\ UNSET # TOMBSTONE /\ NOT_FOUND \notin Nat
  /\ \A c \in Clients : \A b \in {UNSET, TOMBSTONE} : b \notin [key : c.keys, value : c.values]

VARIABLES
  client,    \* one of Clients, for the life of the table
  buckets,   \* index -> bucket; no index at all while buckets is NULL
  capacity,
  nmemb,
  dict       \* ghost: the pairs inserted and not erased since

vars == <<client, buckets, capacity, nmemb, dict>>

Keys == client.keys
Values == client.values
Ops == client.ops
MaxCapacity == client.max_capacity

Pair == [key : Keys, value : Values]
key_exists(b) == b \notin {UNSET, TOMBSTONE}
Matches(b, k) == key_exists(b) /\ b.key = k

get_index(k, cap) == HashOf[k] % cap
(* The i-th bucket a probe for k looks at.                                  *)
Path(k, cap, i) == (get_index(k, cap) + i) % cap
FreshBuckets(cap) == [i \in 0 .. cap - 1 |-> UNSET]

(* Steps of a probe for k, of at most cap, at which probe stops.            *)
InsertStops(bs, cap, k) ==
  {i \in 0 .. cap - 1 : LET b == bs[Path(k, cap, i)] IN Matches(b, k) \/ ~key_exists(b)}
LookupStops(bs, cap, k) ==
  {i \in 0 .. cap - 1 : LET b == bs[Path(k, cap, i)] IN Matches(b, k) \/ b = UNSET}

(* probe without skip_tombstones: where k goes.                             *)
ProbeInsert(bs, cap, k) ==
  LET stops == InsertStops(bs, cap, k)
  IN  IF stops = {} THEN NOT_FOUND ELSE Path(k, cap, Min(stops))

(* probe with skip_tombstones: the step at which k is found.                *)
FoundStep(bs, cap, k) ==
  LET stops == LookupStops(bs, cap, k)
  IN  IF stops = {} \/ bs[Path(k, cap, Min(stops))] = UNSET
        THEN NOT_FOUND ELSE Min(stops)

(* The tombstones a successful lookup for k passes.                         *)
Passed(bs, cap, k) ==
  {i \in 0 .. FoundStep(bs, cap, k) - 1 : bs[Path(k, cap, i)] = TOMBSTONE}

Found(bs, cap, k) == cap # 0 /\ FoundStep(bs, cap, k) # NOT_FOUND

(* Where find_bucket leaves k, which it has found, and the buckets then.    *)
Rest(bs, cap, k) ==
  Path(k, cap, IF Passed(bs, cap, k) = {} THEN FoundStep(bs, cap, k)
                                          ELSE Min(Passed(bs, cap, k)))
AfterLookup(bs, cap, k) ==
  IF ~Found(bs, cap, k) \/ Passed(bs, cap, k) = {} THEN bs
  ELSE LET from == Path(k, cap, FoundStep(bs, cap, k))
       IN  [bs EXCEPT ![Rest(bs, cap, k)] = bs[from], ![from] = TOMBSTONE]

-----------------------------------------------------------------------------
(* A pair goes where the probe for its key stops.                           *)
Put(bs, cap, b) == [bs EXCEPT ![ProbeInsert(bs, cap, b.key)] = b]

(* reindex_buckets: the live pairs, in index order, into fresh buckets.     *)
ReindexedInPlace(bs, old, new) ==                             \* mutant
  [i \in 0 .. new - 1 |-> IF i < old THEN bs[i] ELSE UNSET]
Reindexed(bs, old, new) ==
  LET upto[i \in 0 .. old] ==
        IF i = 0 THEN FreshBuckets(new)
        ELSE IF key_exists(bs[i - 1]) THEN Put(upto[i - 1], new, bs[i - 1])
        ELSE upto[i - 1]
  IN  upto[old]

(* get_resize_factor applied to cap: the capacity resize_buckets gives.     *)
ResizedLate(n, cap) ==                                        \* mutant
  IF 4 * n > 3 * cap THEN cap * 2
  ELSE IF 10 * n <= cap /\ cap > TABLE_MIN THEN cap \div 2
  ELSE cap
Resized(n, cap) ==
  IF 4 * n >= 3 * cap THEN cap * 2
  ELSE IF 10 * n <= cap /\ cap > TABLE_MIN THEN cap \div 2
  ELSE cap

(* should_resize on buckets bs with n members: new capacity and buckets.    *)
should_resize(bs, n, cap) ==
  IF cap = 0 THEN [cap |-> TABLE_MIN, bs |-> FreshBuckets(TABLE_MIN)]
  ELSE LET new == Resized(n, cap)
       IN  [cap |-> new, bs |-> IF new = cap THEN bs ELSE Reindexed(bs, cap, new)]

Init == /\ client \in Clients
        /\ buckets = << >> /\ capacity = 0 /\ nmemb = 0
        /\ dict = << >>

(* hash_insert: resize first, then the first bucket that is free or has k.  *)
Insert(k, v) ==
  LET table == should_resize(buckets, nmemb, capacity)
      index == ProbeInsert(table.bs, table.cap, k)
  IN  /\ table.cap <= MaxCapacity
      /\ capacity' = table.cap
      /\ buckets' = Put(table.bs, table.cap, [key |-> k, value |-> v])
      /\ nmemb' = IF key_exists(table.bs[index]) THEN nmemb ELSE nmemb + 1
      /\ dict' = [j \in DOMAIN dict \union {k} |-> IF j = k THEN v ELSE dict[j]]

(* The client inserts a key it has not inserted, or one that is there.      *)
Add == "add" \in Ops /\ \E k \in Keys \ DOMAIN dict, v \in Values : Insert(k, v)
Update == "update" \in Ops /\ \E k \in DOMAIN dict, v \in Values : Insert(k, v)

ErasedUnset == UNSET                                          \* mutant
Erased == TOMBSTONE

(* hash_erase: look the key up, make its bucket a tombstone, then resize.   *)
EraseFound(k) ==
  LET bs == [AfterLookup(buckets, capacity, k) EXCEPT
               ![Rest(buckets, capacity, k)] = Erased]
      table == should_resize(bs, nmemb - 1, capacity)
  IN  /\ Found(buckets, capacity, k)
      /\ capacity' = table.cap
      /\ buckets' = table.bs
      /\ nmemb' = nmemb - 1
      /\ dict' = [j \in DOMAIN dict \ {k} |-> dict[j]]

Erase == "erase" \in Ops /\ \E k \in Keys : EraseFound(k)

(* hash_count, hash_contains, and hash_find when the table is not empty:    *)
(* reads that move the bucket they find.                                    *)
Find == /\ "find" \in Ops
        /\ \E k \in Keys : buckets' = AfterLookup(buckets, capacity, k)
        /\ UNCHANGED <<capacity, nmemb, dict>>

(* hash_clear.                                                              *)
Clear == /\ "clear" \in Ops
         /\ buckets' = << >> /\ capacity' = 0 /\ nmemb' = 0
         /\ dict' = << >>

Next == Add \/ Update \/ Erase \/ Find \/ Clear

Spec == Init /\ [][Next /\ UNCHANGED client]_vars
-----------------------------------------------------------------------------
Live == {i \in DOMAIN buckets : key_exists(buckets[i])}
Lookups == [k \in {j \in Keys : Found(buckets, capacity, j)} |->
              buckets[Path(k, capacity, FoundStep(buckets, capacity, k))].value]

(* Types, and the array has exactly the capacity the table says.            *)
TypeOK ==
  /\ capacity \in Nat /\ nmemb \in Nat
  /\ buckets \in [0 .. capacity - 1 -> Pair \union {UNSET, TOMBSTONE}]
  /\ DOMAIN dict \subseteq Keys /\ \A k \in DOMAIN dict : dict[k] \in Values

(* Linear probing's invariant: no bucket between a live pair and its key's  *)
(* home index is UNSET, where a lookup gives up, through every insertion,   *)
(* move, erasure and resize.                                                *)
ProbePathsUnbroken ==
  \A i \in Live :
    \E d \in 0 .. capacity - 1 :
      /\ Path(buckets[i].key, capacity, d) = i
      /\ \A e \in 0 .. d : buckets[Path(buckets[i].key, capacity, e)] # UNSET

(* A key that was inserted and not erased is found by the next lookup,      *)
(* whatever happened to the other keys.                                     *)
NoKeyLost == DOMAIN dict \subseteq DOMAIN Lookups

(* nmemb never falls below the live buckets, and what it exceeds them by    *)
(* never fills the table: the probe of an insertion always finds a place.   *)
RoomToInsert ==
  /\ Cardinality(Live) <= nmemb
  /\ capacity # 0 => 4 * nmemb <= 3 * capacity

(* What every operation may rely on in a table of any client.               *)
TableSafe == TypeOK /\ RoomToInsert

(* README: hash_set holds unique keys, and in hash_table keys are unique.   *)
UniqueKeys == \A i, j \in Live : buckets[i].key = buckets[j].key => i = j

(* Does no client insert a key that is there once it has erased another?    *)
Tidy == ~({"erase", "update"} \subseteq Ops)

(* No key is lost; and for a client that never updates a key, or never      *)
(* erases one, the table is the dictionary it thinks it is: the same keys,  *)
(* each with the last value inserted, and their number.                     *)
TableIsDictionary ==
  /\ NoKeyLost
  /\ Tidy => Lookups = dict /\ nmemb = Cardinality(DOMAIN dict)
=============================================================================
