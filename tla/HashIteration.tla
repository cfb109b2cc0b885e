--------------------------- MODULE HashIteration ---------------------------
(***************************************************************************)
(* src/src/internals/hash.c: iterators over the buckets of a hash set or    *)
(* hash table, from either end, over the table HashBuckets models.  They    *)
(* skip unset buckets and tombstones.  A lookup in the body of the loop may *)
(* move the bucket it finds.                                                *)
(***************************************************************************)
EXTENDS HashBuckets, Sequences

(* Operations of a client: loops in two directions, and lookups in a loop's *)
(* body.                                                                    *)
Directions == Ops \cap {"next", "prev"}
BodyLooksUp == "find_in_loop" \in Ops

VARIABLES
  bucket,   \* Iter.data.hashed.bucket: an index into buckets
  end,      \* Iter.data.hashed.end
  walk,     \* the direction of the loop that runs, or "none"
  visited   \* ghost: the keys its body has seen, the first |Keys| + 1 of them

walkVars == <<bucket, end, walk, visited>>
allVars == <<client, buckets, capacity, nmemb, dict, bucket, end, walk, visited>>

InitWalk == Init /\ bucket = 0 /\ end = 0 /\ walk = "none" /\ visited = << >>

-----------------------------------------------------------------------------
(* in_bounds_iterator, in_bounds_iterator_r                                 *)
InBounds(way, b, e) == IF way = "next" THEN b < e ELSE b > e

(* valid_iterator: a live bucket.                                           *)
valid_iteratorSet(i) == buckets[i] # UNSET                    \* mutant
valid_iterator(i) == key_exists(buckets[i])

(* The first bucket from b on, in the direction of the walk, that is valid, *)
(* or the end: what the loops of next_hash and prev_hash stop at.           *)
Valid(way, b, e) ==
  {i \in DOMAIN buckets : valid_iterator(i) /\ InBounds(way, i, e)
                            /\ (i = b \/ InBounds(way, b, i))}
Seek(way, b, e) ==
  LET at == Valid(way, b, e)
  IN  IF at = {} THEN e ELSE IF way = "next" THEN Min(at) ELSE Max(at)

AfterNot(way, b) == b                                         \* mutant
After(way, b) == IF way = "next" THEN b + 1 ELSE b - 1

(* begin_hash with end_hash, rbegin_hash with rend_hash.                    *)
FirstBucket(way) == IF way = "next" THEN 0 ELSE capacity - 1
EndBucket(way) == IF way = "next" THEN capacity ELSE -1

Begin == /\ walk = "none"
         /\ \E way \in Directions :
              /\ walk' = way
              /\ end' = EndBucket(way)
              /\ bucket' = Seek(way, FirstBucket(way), EndBucket(way))
         /\ visited' = << >>
         /\ UNCHANGED vars

(* get_hash_set, get_hash_table: what is there may no longer be a pair.     *)
Get(i) == IF key_exists(buckets[i]) THEN buckets[i].key ELSE buckets[i]

(* The loop's test, its body, which reads the key, and next_hash or         *)
(* prev_hash.                                                               *)
Turn == /\ walk # "none" /\ bucket # end
        /\ visited' = IF Len(visited) > Cardinality(Keys) THEN visited
                      ELSE Append(visited, Get(bucket))
        /\ bucket' = Seek(walk, After(walk, bucket), end)
        /\ UNCHANGED <<vars, end, walk>>

Leave == /\ walk # "none" /\ bucket = end
         /\ walk' = "none"
         /\ UNCHANGED <<vars, bucket, end, visited>>

(* Between the turns the body calls find, count or contains.                *)
LookUp == BodyLooksUp /\ walk # "none" /\ Find /\ UNCHANGED walkVars

(* The client changes the table when no loop runs.                          *)
Change == /\ walk = "none" /\ Next
          /\ visited' = << >> /\ bucket' = 0 /\ end' = 0 /\ UNCHANGED walk

NextWalk == Begin \/ Turn \/ Leave \/ LookUp \/ Change

(* A loop that was entered goes on: nothing else runs in its thread.        *)
SpecWalk == InitWalk /\ [][NextWalk /\ UNCHANGED client]_allVars /\ WF_allVars(Turn \/ Leave)

-----------------------------------------------------------------------------
(* A loop whose body only reads the iterator has seen, when it ends, every  *)
(* key of the table once and nothing else, whatever tombstones and moved    *)
(* buckets the table has accumulated.                                       *)
LoopSeesKeys == Tidy /\ ~BodyLooksUp =>
  /\ \A i, j \in 1 .. Len(visited) : visited[i] = visited[j] => i = j
  /\ {visited[i] : i \in 1 .. Len(visited)} \subseteq DOMAIN dict
  /\ walk # "none" /\ bucket = end => Len(visited) = Cardinality(DOMAIN dict)

(* Every loop ends.                                                         *)
LoopEnds == walk # "none" ~> walk = "none"
=============================================================================
