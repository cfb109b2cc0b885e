------------------------- MODULE DoublyLinkedProofs -------------------------
(***************************************************************************)
(* Proofs about DoublyLinked for pages of any size, lists of any length and *)
(* any client, on top of those about the node allocator.                    *)
(***************************************************************************)
EXTENDS DoublyLinked, ListLemmas, TLAPS

NAP == INSTANCE NodeAllocProofs WITH Data <- {}

Slots == NA!Slots(pages)
Link == (Nat \X Nat) \union {NULL}
Node == [next : Link, prev : Link]
ListRec(S) == [head : S \union {NULL}, tail : S \union {NULL}, nmemb : Nat]

(* The part of the inductive invariant that every client keeps: the node    *)
(* allocator's, the elements are the slots that the list holds, each once,  *)
(* and the counter is never too small.                                      *)
Core == /\ NAP!IInv /\ pages # << >>
        /\ list \in ListRec(Slots)
        /\ node \in [Slots -> Node]
        /\ items \in Seq(Slots)
        /\ live = ToSet(items)
        /\ \A i, j \in DOMAIN items : items[i] = items[j] => i = j
        /\ Len(items) <= list.nmemb

-----------------------------------------------------------------------------
(* The node allocator.                                                      *)
LEMMA AllocatorAssumptions ==
  NAP!InitMaxAssumption /\ NAP!MaxPagesAssumption /\ NAP!NullAssumption
BY PagesAssumption DEF NAP!InitMaxAssumption, NAP!MaxPagesAssumption, NAP!NullAssumption

(* The list's instance of the allocator and the one proved about agree.     *)
LEMMA SameSlots == \A pgs : NA!Slots(pgs) = NAP!Slots(pgs)
BY DEF NA!Slots, NAP!Slots

LEMMA SameAlloc ==
  /\ NA!AllocRecycled <=> NAP!AllocRecycled
  /\ NA!AllocCursor <=> NAP!AllocCursor
  /\ NA!AllocNewPage <=> NAP!AllocNewPage
<1>1. NA!AllocRecycled <=> NAP!AllocRecycled
  BY DEF NA!AllocRecycled, NAP!AllocRecycled, NA!NextFree, NAP!NextFree, NA!AfterFirst, NAP!AfterFirst
<1>2. NA!AllocCursor <=> NAP!AllocCursor
  BY DEF NA!AllocCursor, NAP!AllocCursor, NA!TopFull, NAP!TopFull, NA!Top, NAP!Top
<1>3. NA!AllocNewPage <=> NAP!AllocNewPage
  BY DEF NA!AllocNewPage, NAP!AllocNewPage, NA!TopFull, NAP!TopFull, NA!Top, NAP!Top,
         NA!growth_policy, NAP!growth_policy, NA!ZeroedPage, NAP!ZeroedPage,
         NA!Slots, NAP!Slots
<1>4. QED BY <1>1, <1>2, <1>3

LEMMA SameFree ==
  ASSUME NEW s
  PROVE  /\ NA!FreeAtCursor(s) <=> NAP!FreeAtCursor(s)
         /\ NA!FreeToList(s) <=> NAP!FreeToList(s)
<1>1. NA!AtCursor(s) <=> NAP!AtCursor(s)
  BY DEF NA!AtCursor, NAP!AtCursor, NA!Top, NAP!Top
<1>2. NA!FreeAtCursor(s) <=> NAP!FreeAtCursor(s)
  BY <1>1 DEF NA!FreeAtCursor, NAP!FreeAtCursor, NA!TopEmptied, NAP!TopEmptied, NA!Kept,
       NAP!Kept, NA!Slots, NAP!Slots, NA!Top, NAP!Top, NA!Front, NAP!Front
<1>3. NA!FreeToList(s) <=> NAP!FreeToList(s)
  BY <1>1 DEF NA!FreeToList, NAP!FreeToList
<1>4. QED BY <1>2, <1>3

LEMMA SameInit ==
  /\ NA!Init <=> NAP!Init
  /\ NA!Clear <=> NAP!Clear
<1>1. NA!Init <=> NAP!Init
  BY DEF NA!Init, NAP!Init, NA!FirstPage, NAP!FirstPage, NA!ZeroedPage, NAP!ZeroedPage
<1>2. NA!Clear <=> NAP!Clear
  BY DEF NA!Clear, NAP!Clear, NA!Kept, NAP!Kept, NA!Slots, NAP!Slots
<1>3. QED BY <1>1, <1>2

(* What is known of the list between two calls.                             *)
LEMMA Facts ==
  ASSUME Core
  PROVE  /\ live \subseteq Slots /\ Slots \subseteq Nat \X Nat /\ NULL \notin Slots
         /\ live = ToSet(items)
         /\ items \in Seq(Slots) /\ DOMAIN items = 1 .. Len(items) /\ Len(items) \in Nat
         /\ \A i \in 1 .. Len(items) : items[i] \in Slots /\ items[i] \in live
         /\ \A i, j \in 1 .. Len(items) : items[i] = items[j] => i = j
         /\ node \in [Slots -> Node]
         /\ list \in ListRec(Slots)
<1>1. live \subseteq Slots /\ Slots \subseteq Nat \X Nat
  <2>1. NAP!IInv => NAP!LiveInSlots
    BY AllocatorAssumptions, NAP!LiveIsMemory
  <2>2. QED BY <2>1, SameSlots DEF Core, NAP!LiveInSlots, Slots
<1>2. /\ items \in Seq(Slots) /\ node \in [Slots -> Node] /\ list \in ListRec(Slots)
      /\ live = ToSet(items)
  BY DEF Core
<1>3. DOMAIN items = 1 .. Len(items) /\ Len(items) \in Nat
  BY <1>2, LenProperties
<1>4. \A i \in 1 .. Len(items) : items[i] \in ToSet(items)
  BY <1>3 DEF ToSet
<1>5. NULL \notin Slots
  BY <1>1, PagesAssumption
<1>6. QED BY <1>1, <1>2, <1>3, <1>4, <1>5 DEF Core

(* What an allocation for a new node leaves.                                *)
LEMMA AllocEffect ==
  ASSUME Core, Alloc
  PROVE  /\ NAP!IInv' /\ pages' # << >>
         /\ NewNode \notin live /\ live' = live \union {NewNode} /\ NewNode \in Slots'
         /\ Slots \subseteq Slots' /\ Slots' \subseteq Nat \X Nat /\ NULL \notin Slots'
         /\ Memory(pages') \in [Slots' -> Node]
         /\ \A s \in Slots : Memory(pages')[s] = node[s]
         /\ NewNode \notin Slots => Memory(pages')[NewNode] = Zeroed
<1>1. NAP!AllocRecycled \/ NAP!AllocCursor \/ NAP!AllocNewPage
  BY SameAlloc DEF Alloc
<1>2. /\ NAP!IInv' /\ pages' # << >>
      /\ live' \subseteq Slots' /\ Slots' \subseteq Nat \X Nat
      /\ Slots \subseteq Slots'
      /\ \E s : s \notin live /\ live' = live \union {s}
  BY <1>1, AllocatorAssumptions, NAP!AllocGives, SameSlots DEF Core, Slots
<1>3. PICK s : s \notin live /\ live' = live \union {s}
  BY <1>2
<1>4. NewNode \in live' /\ NewNode \notin live
  BY <1>3 DEF NewNode
<1>5. node \in [Slots -> Node]
  BY Facts
<1>6. Zeroed \in Node
  BY DEF Zeroed, Node, Link
<1>7. /\ Memory(pages') \in [Slots' -> Node]
      /\ \A t \in Slots : Memory(pages')[t] = node[t]
  BY <1>2, <1>5, <1>6 DEF Memory, Slots
<1>8. NewNode \in Slots' /\ (NewNode \notin Slots => Memory(pages')[NewNode] = Zeroed)
  BY <1>2, <1>4, <1>5 DEF Memory, Slots
<1>9. NULL \notin Slots'
  BY <1>2, PagesAssumption
<1>10. QED BY <1>2, <1>3, <1>4, <1>7, <1>8, <1>9

(* What giving back the node of an element leaves.                          *)
LEMMA FreeEffect ==
  ASSUME Core, NEW s \in live, NA!FreeAtCursor(s) \/ NA!FreeToList(s)
  PROVE  /\ NAP!IInv' /\ pages' # << >>
         /\ live' = live \ {s} /\ live' \subseteq Slots'
         /\ Slots' \subseteq Slots
<1>1. NAP!FreeAtCursor(s) \/ NAP!FreeToList(s)
  BY SameFree
<1>2. QED BY <1>1, AllocatorAssumptions, NAP!FreeGives, SameSlots DEF Core, Slots

-----------------------------------------------------------------------------
(* Links both ways, by positions.                                           *)
BothWays(h, t, mem, c) ==
  /\ h = IF Len(c) = 0 THEN NULL ELSE c[1]
  /\ t = IF Len(c) = 0 THEN NULL ELSE c[Len(c)]
  /\ \A i \in 1 .. Len(c) :
       /\ mem[c[i]].next = IF i = Len(c) THEN NULL ELSE c[i + 1]
       /\ mem[c[i]].prev = IF i = 1 THEN NULL ELSE c[i - 1]

(* The ends h2 and t2 and the links new are h, t and mem after those of e   *)
(* and of its neighbours were set.                                          *)
LinkedIn(h2, t2, new, h, t, mem, c, k, e) ==
  /\ h2 = (IF k = 1 THEN e ELSE h)
  /\ t2 = (IF k = Len(c) + 1 THEN e ELSE t)
  /\ new[e].next = (IF k = Len(c) + 1 THEN NULL ELSE c[k])
  /\ new[e].prev = (IF k = 1 THEN NULL ELSE c[k - 1])
  /\ \A j \in 1 .. Len(c) :
       /\ new[c[j]].next = IF j = k - 1 THEN e ELSE mem[c[j]].next
       /\ new[c[j]].prev = IF j = k THEN e ELSE mem[c[j]].prev

LEMMA InsertLinks ==
  ASSUME NEW S, NEW c \in Seq(S), NEW e, NEW k \in 1 .. Len(c) + 1,
         NEW d, IsInserted(d, c, k, e),
         NEW h, NEW t, NEW mem, BothWays(h, t, mem, c),
         NEW h2, NEW t2, NEW new, LinkedIn(h2, t2, new, h, t, mem, c, k, e)
  PROVE  BothWays(h2, t2, new, d)
<1> DEFINE n == Len(c)
<1>1. n \in Nat /\ k \in Int /\ 1 <= k /\ k <= n + 1
  BY LenProperties
<1> HIDE DEF n
<1>a. \A i \in 1 .. n + 1 : /\ i < k => d[i] = c[i]
                            /\ i = k => d[i] = e
                            /\ i > k => d[i] = c[i - 1]
  BY <1>1 DEF IsInserted, n
<1>2. h2 = d[1]
  <2>1. 1 \in 1 .. n + 1
    BY <1>1
  <2>2. k # 1 => n # 0 /\ h = c[1]
    BY <1>1 DEF BothWays, n
  <2>3. k # 1 => d[1] = c[1]
    <3>1. k # 1 => 1 < k
      BY <1>1
    <3>2. QED BY <1>a, <2>1, <3>1
  <2>4. k = 1 => d[1] = e
    BY <1>a, <2>1
  <2>5. QED BY <2>2, <2>3, <2>4 DEF LinkedIn
<1>3. t2 = d[n + 1]
  <2>1. n + 1 \in 1 .. n + 1
    BY <1>1
  <2>2. k # n + 1 => n # 0 /\ t = c[n]
    BY <1>1 DEF BothWays, n
  <2>3. k # n + 1 => d[n + 1] = c[n]
    <3>1. k # n + 1 => n + 1 > k /\ n + 1 - 1 = n
      BY <1>1
    <3> DEFINE m == n + 1
    <3>2. m \in 1 .. n + 1 /\ (k # m => m > k)
      BY <2>1, <3>1
    <3> HIDE DEF m
    <3>3. k # m => d[m] = c[m - 1]
      BY <1>a, <3>2
    <3>4. m - 1 = n
      BY <1>1 DEF m
    <3>5. k # m => d[m] = c[n]
      BY <3>3, <3>4
    <3>6. QED BY <3>5 DEF m
  <2>4. k = n + 1 => d[n + 1] = e
    BY <1>a, <2>1
  <2>5. QED BY <2>2, <2>3, <2>4 DEF LinkedIn, n
<1>4. ASSUME NEW j \in 1 .. n + 1
      PROVE  /\ new[d[j]].next = IF j = n + 1 THEN NULL ELSE d[j + 1]
             /\ new[d[j]].prev = IF j = 1 THEN NULL ELSE d[j - 1]
  <2>0. j \in Int /\ (j # n + 1 => j + 1 \in 1 .. n + 1) /\ (j # 1 => j - 1 \in 1 .. n + 1)
    BY <1>1
  <2>b. \A i \in 1 .. n : /\ mem[c[i]].next = IF i = n THEN NULL ELSE c[i + 1]
                          /\ mem[c[i]].prev = IF i = 1 THEN NULL ELSE c[i - 1]
                          /\ new[c[i]].next = IF i = k - 1 THEN e ELSE mem[c[i]].next
                          /\ new[c[i]].prev = IF i = k THEN e ELSE mem[c[i]].prev
    BY DEF BothWays, LinkedIn, n
  <2>1. CASE j < k
    <3>1. j \in 1 .. n /\ d[j] = c[j] /\ j # k /\ j # n + 1
      BY <1>1, <2>0, <1>a, <2>1
    <3>2. j = k - 1 => d[j + 1] = e /\ new[c[j]].next = e
      BY <1>1, <2>0, <1>a, <2>b, <3>1
    <3>3. j # k - 1 => d[j + 1] = c[j + 1] /\ j # n /\ new[c[j]].next = c[j + 1]
      <4>1. j # k - 1 => j + 1 < k /\ j # n
        BY <1>1, <2>0, <2>1
      <4>2. QED BY <2>0, <1>a, <2>b, <3>1, <4>1
    <3>4. new[c[j]].prev = IF j = 1 THEN NULL ELSE c[j - 1]
      BY <2>b, <3>1
    <3>5. j # 1 => d[j - 1] = c[j - 1]
      <4>1. j - 1 < k
        BY <1>1, <2>0, <2>1
      <4>2. QED BY <2>0, <1>a, <4>1
    <3>6. QED BY <3>1, <3>2, <3>3, <3>4, <3>5
  <2>2. CASE j = k
    <3>1. d[j] = e
      BY <2>2, <1>a
    <3>2. j # n + 1 => d[j + 1] = c[k]
      <4>1. j + 1 > k /\ j + 1 - 1 = k
        BY <1>1, <2>2
      <4>2. QED BY <2>0, <1>a, <4>1
    <3>3. j # 1 => d[j - 1] = c[k - 1]
      <4>1. j - 1 < k
        BY <1>1, <2>2
      <4>2. QED BY <2>0, <1>a, <2>2, <4>1
    <3>4. QED BY <2>2, <3>1, <3>2, <3>3 DEF LinkedIn, n
  <2>3. CASE j > k
    <3> DEFINE m == j - 1
    <3>1. m \in 1 .. n /\ j = m + 1 /\ m # k - 1 /\ d[j] = c[m] /\ j # 1
      BY <1>1, <2>0, <1>a, <2>3
    <3>2. j # n + 1 => d[j + 1] = c[m + 1]
      <4>1. j + 1 > k /\ j + 1 - 1 = j /\ m + 1 = j
        BY <1>1, <2>0, <2>3
      <4> HIDE DEF m
      <4>2. j # n + 1 => d[j + 1] = c[j]
        BY <2>0, <1>a, <4>1
      <4>3. QED BY <4>1, <4>2
    <3>3. d[j - 1] = IF m = k THEN e ELSE c[m - 1]
      <4>1. m # k => m > k
        BY <1>1, <2>0, <2>3
      <4>2. QED BY <2>0, <1>a, <3>1, <4>1
    <3>4. j = n + 1 <=> m = n
      BY <1>1, <3>1
    <3>5. m # k => m # 1
      BY <1>1, <2>0, <2>3
    <3> HIDE DEF m
    <3>6. QED BY <2>b, <3>1, <3>2, <3>3, <3>4, <3>5
  <2>4. QED BY <1>1, <2>0, <2>1, <2>2, <2>3
<1>5. Len(d) = n + 1 /\ n + 1 # 0
  BY <1>1 DEF IsInserted, n
<1>6. QED BY <1>2, <1>3, <1>4, <1>5 DEF BothWays, n

(* d is c without its element k.                                            *)
Taken(d, c, k) ==
  /\ Len(d) = Len(c) - 1
  /\ \A j \in 1 .. Len(c) - 1 : d[j] = IF j < k THEN c[j] ELSE c[j + 1]

(* The ends and the links after those of its neighbours were set.           *)
LinkedOut(h2, t2, new, h, t, mem, c, k) ==
  /\ h2 = (IF k = 1 THEN mem[c[k]].next ELSE h)
  /\ t2 = (IF k = Len(c) THEN mem[c[k]].prev ELSE t)
  /\ \A j \in 1 .. Len(c) : j # k =>
       /\ new[c[j]].next = IF j = k - 1 THEN mem[c[k]].next ELSE mem[c[j]].next
       /\ new[c[j]].prev = IF j = k + 1 THEN mem[c[k]].prev ELSE mem[c[j]].prev

LEMMA RemoveLinks ==
  ASSUME NEW S, NEW c \in Seq(S), NEW k \in 1 .. Len(c),
         NEW d, Taken(d, c, k),
         NEW h, NEW t, NEW mem, BothWays(h, t, mem, c),
         NEW h2, NEW t2, NEW new, LinkedOut(h2, t2, new, h, t, mem, c, k)
  PROVE  BothWays(h2, t2, new, d)
<1> DEFINE n == Len(c)
<1>1. n \in Nat /\ k \in Int /\ 1 <= k /\ k <= n
  BY LenProperties
<1> HIDE DEF n
<1>a. \A i \in 1 .. n - 1 : /\ i < k => d[i] = c[i]
                            /\ i >= k => d[i] = c[i + 1]
  BY <1>1 DEF Taken, n
<1>b. \A i \in 1 .. n :
        /\ mem[c[i]].next = IF i = n THEN NULL ELSE c[i + 1]
        /\ mem[c[i]].prev = IF i = 1 THEN NULL ELSE c[i - 1]
        /\ i # k =>
             /\ new[c[i]].next = IF i = k - 1 THEN mem[c[k]].next ELSE mem[c[i]].next
             /\ new[c[i]].prev = IF i = k + 1 THEN mem[c[k]].prev ELSE mem[c[i]].prev
  BY DEF BothWays, LinkedOut, n
<1>c. k \in 1 .. n /\ mem[c[k]].next = (IF k = n THEN NULL ELSE c[k + 1])
      /\ mem[c[k]].prev = (IF k = 1 THEN NULL ELSE c[k - 1])
  BY <1>1, <1>b
<1>2. h2 = IF n - 1 = 0 THEN NULL ELSE d[1]
  <2>1. n - 1 # 0 => 1 \in 1 .. n - 1
    BY <1>1
  <2>2. k # 1 => n - 1 # 0 /\ h = c[1] /\ 1 < k
    BY <1>1 DEF BothWays, n
  <2>3. k # 1 => h = d[1]
    BY <1>a, <2>1, <2>2
  <2>4. k = 1 /\ n - 1 # 0 => k # n /\ d[1] = c[k + 1]
    BY <1>1, <1>a, <2>1
  <2>5. k = 1 /\ n - 1 = 0 => k = n
    BY <1>1
  <2>6. QED BY <1>c, <2>2, <2>3, <2>4, <2>5 DEF LinkedOut
<1>3. t2 = IF n - 1 = 0 THEN NULL ELSE d[n - 1]
  <2>1. n - 1 # 0 => n - 1 \in 1 .. n - 1
    BY <1>1
  <2>2. k # n => n - 1 # 0 /\ t = c[n] /\ n - 1 >= k /\ n - 1 + 1 = n
    BY <1>1 DEF BothWays, n
  <2>3. k # n => t = d[n - 1]
    BY <1>a, <2>1, <2>2
  <2>4. k = n /\ n - 1 # 0 => k # 1 /\ d[n - 1] = c[k - 1]
    BY <1>1, <1>a, <2>1
  <2>5. k = n /\ n - 1 = 0 => k = 1
    BY <1>1
  <2>6. QED BY <1>c, <2>2, <2>3, <2>4, <2>5 DEF LinkedOut, n
<1>4. ASSUME NEW j \in 1 .. n - 1
      PROVE  /\ new[d[j]].next = IF j = n - 1 THEN NULL ELSE d[j + 1]
             /\ new[d[j]].prev = IF j = 1 THEN NULL ELSE d[j - 1]
  <2>0. j \in Int /\ (j # n - 1 => j + 1 \in 1 .. n - 1) /\ (j # 1 => j - 1 \in 1 .. n - 1)
    BY <1>1
  <2>1. CASE j < k
    <3>1. j \in 1 .. n /\ d[j] = c[j] /\ j # k /\ j # k + 1 /\ j # n
      BY <1>1, <2>0, <1>a, <2>1
    <3>2. j = k - 1 /\ j # n - 1 => d[j + 1] = c[k + 1] /\ k # n
      <4>1. j = k - 1 => j + 1 >= k /\ j + 1 + 1 = k + 1
        BY <1>1, <2>0
      <4>2. j = k - 1 /\ j # n - 1 => k # n
        BY <1>1, <2>0
      <4>3. QED BY <2>0, <1>a, <4>1, <4>2
    <3>3. j = k - 1 /\ j = n - 1 => k = n
      BY <1>1
    <3>4. j # k - 1 => j # n - 1 /\ d[j + 1] = c[j + 1]
      <4>1. j # k - 1 => j + 1 < k /\ j # n - 1
        BY <1>1, <2>0, <2>1
      <4>2. QED BY <2>0, <1>a, <4>1
    <3>5. j # 1 => d[j - 1] = c[j - 1]
      <4>1. j - 1 < k
        BY <1>1, <2>0, <2>1
      <4>2. QED BY <2>0, <1>a, <4>1
    <3>6. new[d[j]].next = IF j = n - 1 THEN NULL ELSE d[j + 1]
      BY <1>b, <1>c, <3>1, <3>2, <3>3, <3>4
    <3>7. QED BY <1>b, <3>1, <3>5, <3>6
  <2>2. CASE j >= k
    <3> DEFINE m == j + 1
    <3>1. m \in 1 .. n /\ m # k /\ m # k - 1 /\ d[j] = c[m] /\ m # 1 /\ m - 1 = j
      BY <1>1, <2>0, <1>a, <2>2
    <3>2. j # n - 1 => d[j + 1] = c[m + 1]
      <4>1. j + 1 >= k
        BY <1>1, <2>0, <2>2
      <4>2. QED BY <2>0, <1>a, <4>1
    <3>3. j = n - 1 <=> m = n
      BY <1>1
    <3>4. m = k + 1 => j = k
      BY <1>1, <2>0
    <3>5. m = k + 1 /\ j # 1 => d[j - 1] = c[k - 1] /\ k # 1
      <4>1. m = k + 1 => j - 1 < k /\ j = k
        BY <1>1, <2>0
      <4>2. QED BY <2>0, <1>a, <4>1
    <3>6. m # k + 1 => j # 1 /\ d[j - 1] = c[j]
      <4>1. m # k + 1 => j # 1 /\ j - 1 >= k /\ j - 1 + 1 = j
        BY <1>1, <2>0, <2>2
      <4>2. QED BY <2>0, <1>a, <4>1
    <3> HIDE DEF m
    <3>7. new[c[m]].next = IF m = n THEN NULL ELSE c[m + 1]
      BY <1>b, <3>1
    <3>8. new[c[m]].prev = IF m = k + 1 THEN mem[c[k]].prev ELSE c[m - 1]
      BY <1>b, <3>1
    <3>9. new[d[j]].next = IF j = n - 1 THEN NULL ELSE d[j + 1]
      BY <3>1, <3>2, <3>3, <3>7
    <3>10. new[d[j]].prev = IF j = 1 THEN NULL ELSE d[j - 1]
      BY <1>c, <3>1, <3>4, <3>5, <3>6, <3>8
    <3>11. QED BY <3>9, <3>10
  <2>3. QED BY <1>1, <2>0, <2>1, <2>2
<1>5. Len(d) = n - 1
  BY DEF Taken, n
<1>6. QED BY <1>2, <1>3, <1>4, <1>5 DEF BothWays, n

-----------------------------------------------------------------------------
(* The list functions.                                                      *)

(* Writing one link of one node.                                            *)
LEMMA SetNext ==
  ASSUME NEW S, NEW mem \in [S -> Node], NEW p \in S, NEW v \in Link
  PROVE  LET new == [mem EXCEPT ![p].next = v]
         IN  /\ new \in [S -> Node]
             /\ \A s \in S : /\ new[s].next = IF s = p THEN v ELSE mem[s].next
                             /\ new[s].prev = mem[s].prev
<1> DEFINE new == [mem EXCEPT ![p] = [mem[p] EXCEPT !.next = v]]
<1>1. mem[p] \in Node
  OBVIOUS
<1>2. /\ [mem[p] EXCEPT !.next = v] \in Node
      /\ [mem[p] EXCEPT !.next = v].next = v
      /\ [mem[p] EXCEPT !.next = v].prev = mem[p].prev
  BY <1>1 DEF Node
<1>3. new \in [S -> Node]
  BY <1>2
<1>4. \A s \in S : /\ new[s].next = IF s = p THEN v ELSE mem[s].next
                   /\ new[s].prev = mem[s].prev
  BY <1>2
<1>5. QED BY <1>3, <1>4

LEMMA SetPrev ==
  ASSUME NEW S, NEW mem \in [S -> Node], NEW p \in S, NEW v \in Link
  PROVE  LET new == [mem EXCEPT ![p].prev = v]
         IN  /\ new \in [S -> Node]
             /\ \A s \in S : /\ new[s].prev = IF s = p THEN v ELSE mem[s].prev
                             /\ new[s].next = mem[s].next
<1> DEFINE new == [mem EXCEPT ![p] = [mem[p] EXCEPT !.prev = v]]
<1>1. mem[p] \in Node
  OBVIOUS
<1>2. /\ [mem[p] EXCEPT !.prev = v] \in Node
      /\ [mem[p] EXCEPT !.prev = v].prev = v
      /\ [mem[p] EXCEPT !.prev = v].next = mem[p].next
  BY <1>1 DEF Node
<1>3. new \in [S -> Node]
  BY <1>2
<1>4. \A s \in S : /\ new[s].prev = IF s = p THEN v ELSE mem[s].prev
                   /\ new[s].next = mem[s].next
  BY <1>2
<1>5. QED BY <1>3, <1>4

(* A result that is a list object and links over the slots of S.            *)
Result(S, l, r) == /\ r.list \in ListRec(S) /\ r.list.nmemb = l.nmemb
                   /\ r.node \in [S -> Node]

(* push_front's result r for the list object l and the links mem over S.   *)
FrontPushed(S, l, mem, n, r) ==
  /\ Result(S, l, r)
  /\ r.list.head = n /\ r.list.tail = IF l.head = NULL THEN n ELSE l.tail
  /\ \A s \in S :
       /\ r.node[s].prev = IF s = l.head THEN n ELSE mem[s].prev
       /\ r.node[s].next = IF s = n /\ l.head # NULL THEN l.head ELSE mem[s].next

LEMMA PushFrontLinks ==
  ASSUME NEW S, S \subseteq Nat \X Nat, NEW l \in ListRec(S), NEW mem \in [S -> Node],
         NEW n \in S, l.head # n, l.head = NULL <=> l.tail = NULL,
         NEW r, r = push_front(l, mem, n)
  PROVE  FrontPushed(S, l, mem, n, r)
<1>1. NULL \notin S /\ n \in Link /\ l.head \in Link
  BY PagesAssumption DEF ListRec, Link
<1>2. CASE l.head = NULL
  <2>1. r = [list |-> [l EXCEPT !.head = n, !.tail = n], node |-> mem]
    BY <1>2 DEF push_front
  <2>2. /\ r.node = mem /\ r.list \in ListRec(S) /\ r.list.nmemb = l.nmemb
        /\ r.list.head = n /\ r.list.tail = n
    <3> DEFINE new == [l EXCEPT !.head = n, !.tail = n]
    <3>1. /\ new \in ListRec(S) /\ new.nmemb = l.nmemb
          /\ new.head = n /\ new.tail = n
      BY DEF ListRec
    <3>2. r = [list |-> new, node |-> mem]
      BY <2>1
    <3> HIDE DEF new
    <3>3. QED BY <3>1, <3>2
  <2>3. \A s \in S : s # l.head /\ s # l.tail
    BY <1>1, <1>2
  <2>4. QED BY <1>2, <2>2, <2>3 DEF Result, FrontPushed
<1>3. CASE l.head # NULL
  <2> DEFINE m1 == [mem EXCEPT ![l.head].prev = n]
             m2 == [m1 EXCEPT ![n].next = l.head]
  <2>1. r = [list |-> [l EXCEPT !.head = n], node |-> m2]
    BY <1>3 DEF push_front
  <2>2. l.head \in S
    BY <1>3 DEF ListRec
  <2>3. /\ m1 \in [S -> Node]
        /\ \A s \in S : /\ m1[s].prev = IF s = l.head THEN n ELSE mem[s].prev
                        /\ m1[s].next = mem[s].next
    BY <1>1, <2>2, SetPrev
  <2> HIDE DEF m1
  <2>4. /\ m2 \in [S -> Node]
        /\ \A s \in S : /\ m2[s].next = IF s = n THEN l.head ELSE m1[s].next
                        /\ m2[s].prev = m1[s].prev
    BY <1>1, <2>3, SetNext
  <2> HIDE DEF m2
  <2>5. /\ r.list \in ListRec(S) /\ r.list.nmemb = l.nmemb
        /\ r.list.head = n /\ r.list.tail = l.tail
    BY <2>1 DEF ListRec
  <2>6. r.node = m2
    BY <2>1
  <2>7. QED BY <1>3, <2>3, <2>4, <2>5, <2>6 DEF Result, FrontPushed
<1>4. QED BY <1>2, <1>3

(* push_back's.                                                             *)
BackPushed(S, l, mem, n, r) ==
  /\ Result(S, l, r)
  /\ r.list.tail = n /\ r.list.head = IF l.head = NULL THEN n ELSE l.head
  /\ \A s \in S :
       /\ r.node[s].next = IF s = l.tail THEN n ELSE mem[s].next
       /\ r.node[s].prev = IF s = n /\ l.head # NULL THEN l.tail ELSE mem[s].prev

LEMMA PushBackLinks ==
  ASSUME NEW S, S \subseteq Nat \X Nat, NEW l \in ListRec(S), NEW mem \in [S -> Node],
         NEW n \in S, l.tail # n, l.head = NULL <=> l.tail = NULL,
         NEW r, r = push_back(l, mem, n)
  PROVE  BackPushed(S, l, mem, n, r)
<1>1. NULL \notin S /\ n \in Link /\ l.tail \in Link
  BY PagesAssumption DEF ListRec, Link
<1>2. CASE l.head = NULL
  <2>1. r = [list |-> [l EXCEPT !.head = n, !.tail = n], node |-> mem]
    BY <1>2 DEF push_back
  <2>2. /\ r.node = mem /\ r.list \in ListRec(S) /\ r.list.nmemb = l.nmemb
        /\ r.list.head = n /\ r.list.tail = n
    <3> DEFINE new == [l EXCEPT !.head = n, !.tail = n]
    <3>1. /\ new \in ListRec(S) /\ new.nmemb = l.nmemb
          /\ new.head = n /\ new.tail = n
      BY DEF ListRec
    <3>2. r = [list |-> new, node |-> mem]
      BY <2>1
    <3> HIDE DEF new
    <3>3. QED BY <3>1, <3>2
  <2>3. \A s \in S : s # l.head /\ s # l.tail
    BY <1>1, <1>2
  <2>4. QED BY <1>2, <2>2, <2>3 DEF Result, BackPushed
<1>3. CASE l.head # NULL
  <2> DEFINE m1 == [mem EXCEPT ![l.tail].next = n]
             m2 == [m1 EXCEPT ![n].prev = l.tail]
  <2>1. r = [list |-> [l EXCEPT !.tail = n], node |-> m2]
    BY <1>3 DEF push_back
  <2>2. l.tail \in S
    BY <1>3 DEF ListRec
  <2>3. /\ m1 \in [S -> Node]
        /\ \A s \in S : /\ m1[s].next = IF s = l.tail THEN n ELSE mem[s].next
                        /\ m1[s].prev = mem[s].prev
    BY <1>1, <2>2, SetNext
  <2> HIDE DEF m1
  <2>4. /\ m2 \in [S -> Node]
        /\ \A s \in S : /\ m2[s].prev = IF s = n THEN l.tail ELSE m1[s].prev
                        /\ m2[s].next = m1[s].next
    BY <1>1, <2>3, SetPrev
  <2> HIDE DEF m2
  <2>5. /\ r.list \in ListRec(S) /\ r.list.nmemb = l.nmemb
        /\ r.list.tail = n /\ r.list.head = l.head
    BY <2>1 DEF ListRec
  <2>6. r.node = m2
    BY <2>1
  <2>7. QED BY <1>3, <2>3, <2>4, <2>5, <2>6 DEF Result, BackPushed
<1>4. QED BY <1>2, <1>3

(* insert's, before a position that is not the end.                         *)
PutBefore(S, l, mem, position, n, r) ==
  LET p == mem[position].prev
  IN  /\ Result(S, l, r)
      /\ r.list.head = (IF p = NULL THEN n ELSE l.head) /\ r.list.tail = l.tail
      /\ \A s \in S :
           /\ r.node[s].next = IF s = n THEN position ELSE
                               IF s = p THEN n ELSE mem[s].next
           /\ r.node[s].prev = IF s = position THEN n ELSE
                               IF s = n /\ p # NULL THEN p ELSE mem[s].prev

LEMMA InsertBeforeLinks ==
  ASSUME NEW S, S \subseteq Nat \X Nat, NEW l \in ListRec(S), NEW mem \in [S -> Node],
         NEW n \in S, NEW position \in S, position # n,
         mem[position].prev \in S \union {NULL},
         mem[position].prev # n, mem[position].prev # position,
         NEW r, r = insert(l, mem, position, n)
  PROVE  PutBefore(S, l, mem, position, n, r)
<1> DEFINE p == mem[position].prev
           m1 == [mem EXCEPT ![position].prev = n]
           m2 == [m1 EXCEPT ![n].next = position]
           m3 == [m2 EXCEPT ![p].next = n]
           m4 == [m3 EXCEPT ![n].prev = p]
<1>0. NULL \notin S /\ n \in Link /\ position \in Link /\ p \in Link /\ position # NULL
  BY PagesAssumption DEF Link
<1>1. /\ m1 \in [S -> Node]
      /\ \A s \in S : /\ m1[s].prev = IF s = position THEN n ELSE mem[s].prev
                      /\ m1[s].next = mem[s].next
  BY <1>0, SetPrev
<1>2. r = IF p = NULL
            THEN [list |-> [l EXCEPT !.head = n], node |-> m2]
            ELSE [list |-> l, node |-> m4]
  BY <1>0 DEF insert
<1> HIDE DEF m1
<1>3. /\ m2 \in [S -> Node]
      /\ \A s \in S : /\ m2[s].next = IF s = n THEN position ELSE m1[s].next
                      /\ m2[s].prev = m1[s].prev
  BY <1>0, <1>1, SetNext
<1> HIDE DEF m2
<1>4. CASE p = NULL
  <2>1. r.node = m2
    BY <1>2, <1>4
  <2>2. /\ r.list \in ListRec(S) /\ r.list.nmemb = l.nmemb
        /\ r.list.head = n /\ r.list.tail = l.tail
    BY <1>2, <1>4 DEF ListRec
  <2>3. QED BY <1>0, <1>1, <1>3, <1>4, <2>1, <2>2 DEF Result, PutBefore
<1>5. CASE p # NULL
  <2>1. p \in S
    BY <1>5
  <2>2. /\ m3 \in [S -> Node]
        /\ \A s \in S : /\ m3[s].next = IF s = p THEN n ELSE m2[s].next
                        /\ m3[s].prev = m2[s].prev
    <3> HIDE DEF p
    <3>1. QED BY <1>0, <1>3, <2>1, SetNext
  <2>3. /\ m4 \in [S -> Node]
        /\ \A s \in S : /\ m4[s].prev = IF s = n THEN p ELSE m3[s].prev
                        /\ m4[s].next = m3[s].next
    <3> HIDE DEF p, m3
    <3>1. QED BY <1>0, <2>1, <2>2, SetPrev
  <2>4. r.list = l /\ r.node = m4
    BY <1>2, <1>5
  <2> HIDE DEF m3, m4
  <2>5. QED BY <1>1, <1>3, <1>5, <2>2, <2>3, <2>4 DEF Result, PutBefore
<1>6. QED BY <1>4, <1>5

(* erase's, of the node between p and q.                                    *)
Erased(S, l, mem, p, q, r) ==
  /\ Result(S, l, r)
  /\ r.list.head = (IF p = NULL THEN q ELSE l.head)
  /\ r.list.tail = (IF q = NULL THEN p ELSE l.tail)
  /\ \A s \in S :
       /\ r.node[s].next = IF s = p THEN q ELSE mem[s].next
       /\ r.node[s].prev = IF s = q THEN p ELSE mem[s].prev

LEMMA EraseLinks ==
  ASSUME NEW S, S \subseteq Nat \X Nat, NEW l \in ListRec(S), NEW mem \in [S -> Node],
         NEW position \in S,
         NEW p, p = mem[position].prev, p \in S \union {NULL},
         NEW q, q = mem[position].next, q \in S \union {NULL},
         NEW r, r = erase(l, mem, position)
  PROVE  Erased(S, l, mem, p, q, r)
<1> DEFINE m1 == IF p = NULL THEN mem ELSE [mem EXCEPT ![p].next = q]
           m2 == IF q = NULL THEN m1 ELSE [m1 EXCEPT ![q].prev = p]
           ends == [l EXCEPT !.head = IF p = NULL THEN q ELSE @,
                             !.tail = IF q = NULL THEN p ELSE @]
<1>0. NULL \notin S /\ p \in Link /\ q \in Link
  BY PagesAssumption DEF Link
<1>1. r = [list |-> ends, node |-> m2]
  BY DEF erase
<1>2. /\ ends \in ListRec(S) /\ ends.nmemb = l.nmemb
      /\ ends.head = (IF p = NULL THEN q ELSE l.head)
      /\ ends.tail = (IF q = NULL THEN p ELSE l.tail)
  BY DEF ListRec
<1> HIDE DEF ends
<1>3. /\ m1 \in [S -> Node]
      /\ \A s \in S : /\ m1[s].next = IF s = p THEN q ELSE mem[s].next
                      /\ m1[s].prev = mem[s].prev
  <2>1. CASE p = NULL
    BY <1>0, <2>1
  <2>2. CASE p # NULL
    <3> DEFINE new == [mem EXCEPT ![p].next = q]
    <3>1. p \in S /\ m1 = new
      BY <2>2
    <3>2. /\ new \in [S -> Node]
          /\ \A s \in S : /\ new[s].next = IF s = p THEN q ELSE mem[s].next
                          /\ new[s].prev = mem[s].prev
      <4>1. \A x \in S, y \in Link :
              LET w == [mem EXCEPT ![x].next = y]
              IN  /\ w \in [S -> Node]
                  /\ \A s \in S : /\ w[s].next = IF s = x THEN y ELSE mem[s].next
                                  /\ w[s].prev = mem[s].prev
        BY SetNext
      <4>2. QED BY <1>0, <3>1, <4>1
    <3> HIDE DEF new
    <3>3. QED BY <3>1, <3>2
  <2>3. QED BY <2>1, <2>2
<1>4. m1 \in [S -> Node]
  BY <1>3
<1> HIDE DEF m1
<1>5. /\ m2 \in [S -> Node]
      /\ \A s \in S : /\ m2[s].prev = IF s = q THEN p ELSE m1[s].prev
                      /\ m2[s].next = m1[s].next
  <2>1. CASE q = NULL
    BY <1>0, <1>4, <2>1
  <2>2. CASE q # NULL
    <3> DEFINE new == [m1 EXCEPT ![q].prev = p]
    <3>1. q \in S /\ m2 = new
      BY <2>2
    <3>2. /\ new \in [S -> Node]
          /\ \A s \in S : /\ new[s].prev = IF s = q THEN p ELSE m1[s].prev
                          /\ new[s].next = m1[s].next
      <4>1. \A x \in S, y \in Link :
              LET w == [m1 EXCEPT ![x].prev = y]
              IN  /\ w \in [S -> Node]
                  /\ \A s \in S : /\ w[s].prev = IF s = x THEN y ELSE m1[s].prev
                                  /\ w[s].next = m1[s].next
        BY <1>4, SetPrev
      <4>2. QED BY <1>0, <3>1, <4>1
    <3> HIDE DEF new
    <3>3. QED BY <3>1, <3>2
  <2>3. QED BY <2>1, <2>2
<1> HIDE DEF m2
<1>6. r.list = ends /\ r.node = m2
  BY <1>1
<1>7. QED BY <1>2, <1>3, <1>5, <1>6 DEF Result, Erased

-----------------------------------------------------------------------------
(* What Sound says, by positions.                                           *)
LEMMA SoundByPositions ==
  Core => (Sound <=> BothWays(list.head, list.tail, node, items))
<1> SUFFICES ASSUME Core PROVE Sound <=> BothWays(list.head, list.tail, node, items)
  OBVIOUS
<1>1. /\ items \in Seq(Slots) /\ DOMAIN items = 1 .. Len(items) /\ Len(items) \in Nat
      /\ node \in [Slots -> Node] /\ \A i \in 1 .. Len(items) : items[i] \in Slots
  BY Facts
<1>2. items = << >> <=> Len(items) = 0
  BY <1>1, EmptySeq
<1>3. items # << >> => Head(items) = items[1] /\ Last(items) = items[Len(items)]
  BY <1>1 DEF Last
<1>4. ASSUME NEW i \in 1 .. Len(items), NEW a, NEW b
      PROVE  node[items[i]] = [next |-> a, prev |-> b]
               <=> node[items[i]].next = a /\ node[items[i]].prev = b
  <2>1. node[items[i]] \in Node
    BY <1>1
  <2>2. QED BY <2>1 DEF Node
<1> DEFINE after(i) == IF i = Len(items) THEN NULL ELSE items[i + 1]
           before(i) == IF i = 1 THEN NULL ELSE items[i - 1]
<1>5. \A i \in 1 .. Len(items) :
        node[items[i]] = [next |-> after(i), prev |-> before(i)]
          <=> node[items[i]].next = after(i) /\ node[items[i]].prev = before(i)
  <2> HIDE DEF after, before
  <2>1. QED BY <1>4
<1>6. /\ list.head = (IF items = << >> THEN NULL ELSE Head(items))
           <=> list.head = (IF Len(items) = 0 THEN NULL ELSE items[1])
      /\ list.tail = (IF items = << >> THEN NULL ELSE Last(items))
           <=> list.tail = (IF Len(items) = 0 THEN NULL ELSE items[Len(items)])
  BY <1>2, <1>3
<1>7. Sound <=> /\ list.head = (IF Len(items) = 0 THEN NULL ELSE items[1])
                /\ list.tail = (IF Len(items) = 0 THEN NULL ELSE items[Len(items)])
                /\ \A i \in 1 .. Len(items) :
                     node[items[i]] = [next |-> after(i), prev |-> before(i)]
  BY <1>1, <1>6 DEF Sound
<1>8. QED BY <1>5, <1>7 DEF BothWays

(* A call that puts a new node before element k.                            *)
LEMMA GrowCore ==
  ASSUME Core, Alloc, NEW k \in 1 .. Len(items) + 1,
         list' \in ListRec(Slots'), list'.nmemb = list.nmemb + 1,
         node' \in [Slots' -> Node], items' = InsertAt(items, k, NewNode)
  PROVE  Core'
<1>1. /\ NAP!IInv' /\ pages' # << >> /\ NewNode \notin live /\ NewNode \in Slots'
      /\ live' = live \union {NewNode} /\ Slots \subseteq Slots'
  BY AllocEffect
<1>2. /\ items \in Seq(Slots') /\ NewNode \notin ToSet(items) /\ Len(items) \in Nat
      /\ \A i, j \in DOMAIN items : items[i] = items[j] => i = j
  <2>1. ToSet(items) = live /\ live \subseteq Slots /\ items \in Seq(Slots) /\ Len(items) \in Nat
    BY Facts
  <2>2. QED BY <1>1, <2>1, SeqOver DEF Core
<1>3. items' \in Seq(Slots') /\ Len(items') = Len(items) + 1
  BY <1>1, <1>2, InsertShape
<1>4. /\ ToSet(items') = ToSet(items) \union {NewNode}
      /\ \A i, j \in DOMAIN items' : items'[i] = items'[j] => i = j
  <2>1. NewNode \in Slots'
    BY <1>1
  <2>2. QED BY <1>2, <2>1, ChainInsert
<1>5. Len(items') <= list'.nmemb
  <2>1. Len(items) <= list.nmemb /\ list.nmemb \in Nat
    BY DEF Core, ListRec
  <2>2. QED BY <1>2, <1>3, <2>1
<1>6. live' = ToSet(items')
  BY <1>1, <1>4, Facts
<1>7. QED BY <1>1, <1>3, <1>4, <1>5, <1>6 DEF Core, Slots

(* A call that takes element k away and gives back its node.                *)
LEMMA ShrinkCore ==
  ASSUME Core, NEW k \in 1 .. Len(items),
         NA!FreeAtCursor(items[k]) \/ NA!FreeToList(items[k]),
         list' \in ListRec(Slots'), list'.nmemb >= list.nmemb,
         node' \in [Slots' -> Node], items' = RemoveAt(items, k)
  PROVE  Core'
<1>1. /\ NAP!IInv' /\ pages' # << >>
      /\ live' = live \ {items[k]} /\ live' \subseteq Slots'
  BY Facts, FreeEffect
<1>2. /\ items \in Seq(Slots) /\ Len(items) \in Nat /\ live = ToSet(items)
      /\ \A i, j \in DOMAIN items : items[i] = items[j] => i = j
  BY Facts DEF Core
<1>3. items' \in Seq(Slots) /\ Len(items') = Len(items) - 1
  BY <1>2, RemoveShape
<1>4. /\ ToSet(items') = ToSet(items) \ {items[k]}
      /\ \A i, j \in DOMAIN items' : items'[i] = items'[j] => i = j
  BY <1>2, ChainRemove
<1>5. Len(items') <= list'.nmemb
  <2>1. Len(items) <= list.nmemb /\ list.nmemb \in Nat /\ list'.nmemb \in Nat
    BY DEF Core, ListRec
  <2>2. QED BY <1>2, <1>3, <2>1
<1>6. live' = ToSet(items') /\ items' \in Seq(Slots')
  BY <1>1, <1>2, <1>3, <1>4, SeqOver
<1>7. QED BY <1>1, <1>4, <1>5, <1>6 DEF Core, Slots

LEMMA SoundAfter ==
  Core' => (Sound' <=> BothWays(list'.head, list'.tail, node', items'))
<1> DEFINE P == Sound <=> BothWays(list.head, list.tail, node, items)
<1>1. Core => P
  BY SoundByPositions
<1> HIDE DEF P
<1>2. Core' => P'
  BY <1>1, PTL
<1>3. QED BY <1>2 DEF P

(* The links after a new node was put before element k as they should be.   *)
LEMMA GrowSound ==
  ASSUME Core, Core', Sound, Alloc, NEW k \in 1 .. Len(items) + 1,
         items' = InsertAt(items, k, NewNode),
         LinkedIn(list'.head, list'.tail, node', list.head, list.tail, node, items, k, NewNode)
  PROVE  Sound'
<1>1. BothWays(list.head, list.tail, node, items)
  BY SoundByPositions
<1>2. items \in Seq(Slots') /\ NewNode \in Slots'
  BY AllocEffect, Facts, SeqOver
<1>3. IsInserted(InsertAt(items, k, NewNode), items, k, NewNode)
  BY <1>2, InsertInserts
<1>4. IsInserted(items', items, k, NewNode)
  BY <1>3
<1>5. BothWays(list'.head, list'.tail, node', items')
  BY <1>1, <1>2, <1>4, InsertLinks
<1>6. QED BY <1>5, SoundAfter

(* The links after element k was taken out as they should be.               *)
LEMMA ShrinkSound ==
  ASSUME Core, Core', Sound, NEW k \in 1 .. Len(items),
         items' = RemoveAt(items, k),
         LinkedOut(list'.head, list'.tail, node', list.head, list.tail, node, items, k)
  PROVE  Sound'
<1>1. BothWays(list.head, list.tail, node, items)
  BY SoundByPositions
<1>2. items \in Seq(Slots)
  BY Facts
<1>3. Taken(RemoveAt(items, k), items, k)
  BY <1>2, RemoveShape DEF Taken
<1>4. Taken(items', items, k)
  BY <1>3
<1>5. BothWays(list'.head, list'.tail, node', items')
  BY <1>1, <1>2, <1>4, RemoveLinks
<1>6. QED BY <1>5, SoundAfter

(* The first and the last element, in a list that is in order.              *)
LEMMA Ends ==
  ASSUME Core, Sound
  PROVE  /\ Len(items) = 0 => list.head = NULL /\ list.tail = NULL
         /\ Len(items) # 0 => /\ 1 \in 1 .. Len(items) /\ list.head = items[1]
                              /\ Len(items) \in 1 .. Len(items)
                              /\ list.tail = items[Len(items)]
                              /\ list.head # NULL /\ list.tail # NULL
         /\ \A k \in 1 .. Len(items) :
              /\ node[items[k]].next = IF k = Len(items) THEN NULL ELSE items[k + 1]
              /\ node[items[k]].prev = IF k = 1 THEN NULL ELSE items[k - 1]
         /\ list.head \in live \union {NULL} /\ list.tail \in live \union {NULL}
<1>1. BothWays(list.head, list.tail, node, items)
  BY SoundByPositions
<1>2. Len(items) \in Nat /\ NULL \notin Slots
      /\ \A i \in 1 .. Len(items) : items[i] \in Slots /\ items[i] \in live
  BY Facts
<1>3. QED BY <1>1, <1>2 DEF BothWays

-----------------------------------------------------------------------------
(* The calls.                                                               *)
LEMMA CountedUp ==
  ASSUME NEW S, NEW l \in ListRec(S)
  PROVE  /\ Counted(l) \in ListRec(S) /\ Counted(l).nmemb = l.nmemb + 1
         /\ Counted(l).head = l.head /\ Counted(l).tail = l.tail
BY DEF Counted, ListRec

(* The list object is one over the slots there are after an allocation.     *)
LEMMA ListGrown ==
  ASSUME Core, Alloc
  PROVE  list \in ListRec(Slots')
<1>1. Slots \subseteq Slots' /\ list \in ListRec(Slots)
  BY AllocEffect, Facts
<1>2. QED BY <1>1 DEF ListRec

(* What a new node finds in its slot.                                       *)
Found == Memory(pages')[NewNode]

LEMMA PushFrontStep ==
  ASSUME Core, PushFront
  PROVE  /\ Core'
         /\ Found.prev = NULL /\ (Len(items) # 0 \/ Found.next = NULL) => Sound'
         /\ \A s \in Slots' :
              /\ node'[s].prev = IF s = list.head THEN NewNode ELSE Memory(pages')[s].prev
              /\ node'[s].next = IF s = NewNode /\ list.head # NULL THEN list.head
                                                                    ELSE Memory(pages')[s].next
<1> DEFINE mem == Memory(pages')
           n == NewNode
           r == push_front(list, mem, n)
<1>1. /\ Sound /\ Alloc /\ items' = <<n>> \o items
      /\ list' = Counted(r.list) /\ node' = r.node
  BY DEF PushFront, Operating, After
<1>2. /\ n \notin live /\ n \in Slots' /\ Slots \subseteq Slots' /\ mem \in [Slots' -> Node]
      /\ Slots' \subseteq Nat \X Nat /\ NULL \notin Slots'
      /\ \A s \in Slots : mem[s] = node[s]
  BY <1>1, AllocEffect
<1>3. list \in ListRec(Slots')
  BY <1>1, ListGrown
<1>4. list.head # n /\ list.tail # n /\ (list.head = NULL <=> list.tail = NULL)
      /\ (list.head = NULL <=> Len(items) = 0)
  BY <1>1, <1>2, Ends
<1>5. /\ Result(Slots', list, r)
      /\ r.list.head = n /\ r.list.tail = (IF list.head = NULL THEN n ELSE list.tail)
      /\ \A s \in Slots' :
           /\ r.node[s].prev = IF s = list.head THEN n ELSE mem[s].prev
           /\ r.node[s].next = IF s = n /\ list.head # NULL THEN list.head ELSE mem[s].next
  <2>1. r = push_front(list, mem, n)
    OBVIOUS
  <2> HIDE DEF mem, n, r
  <2>2. FrontPushed(Slots', list, mem, n, r)
    BY <2>1, <1>2, <1>3, <1>4, PushFrontLinks
  <2>3. QED BY <2>2 DEF FrontPushed
<1> HIDE DEF mem, r
<1>6. /\ list' \in ListRec(Slots') /\ list'.nmemb = list.nmemb + 1
      /\ list'.head = r.list.head /\ list'.tail = r.list.tail /\ node' \in [Slots' -> Node]
  BY <1>1, <1>5, CountedUp DEF Result
<1>7. items \in Seq(Slots') /\ Len(items) \in Nat
  BY <1>2, Facts, SeqOver
<1>8. items' = InsertAt(items, 1, NewNode) /\ 1 \in 1 .. Len(items) + 1
  BY SMTT(30), <1>1, <1>2, <1>7, InsertAtEnds
<1>9. Core'
  BY <1>1, <1>6, <1>8, GrowCore
<1>10. ASSUME Found.prev = NULL, Len(items) # 0 \/ Found.next = NULL PROVE Sound'
  <2>0. mem[n].prev = NULL /\ (Len(items) # 0 \/ mem[n].next = NULL)
    BY <1>10 DEF Found, mem
  <2>1. list'.head = n /\ list'.tail = (IF 1 = Len(items) + 1 THEN n ELSE list.tail)
    BY <1>4, <1>5, <1>6, <1>7
  <2>2. /\ node'[n].next = (IF 1 = Len(items) + 1 THEN NULL ELSE items[1])
        /\ node'[n].prev = NULL
    BY <2>0, <1>1, <1>2, <1>4, <1>5, <1>7, Ends
  <2>3. ASSUME NEW j \in 1 .. Len(items)
        PROVE  /\ node'[items[j]].next = node[items[j]].next
               /\ node'[items[j]].prev = IF j = 1 THEN n ELSE node[items[j]].prev
    <3>1. items[j] \in Slots /\ items[j] \in live /\ items[j] \in Slots' /\ items[j] # n
      BY <1>2, Facts
    <3>2. items[j] = list.head <=> j = 1
      <4>1. Len(items) # 0
        BY <1>7
      <4>2. 1 \in 1 .. Len(items) /\ list.head = items[1]
        BY <4>1, <1>1, Ends
      <4>3. \A i, m \in 1 .. Len(items) : items[i] = items[m] => i = m
        BY Facts
      <4>4. QED BY <4>2, <4>3
    <3>3. mem[items[j]] = node[items[j]]
      BY <1>2, <3>1
    <3>4. QED BY <1>1, <1>5, <3>1, <3>2, <3>3
  <2>4. \A j \in 1 .. Len(items) : j # 1 - 1
    OBVIOUS
  <2>5. LinkedIn(list'.head, list'.tail, node', list.head, list.tail, node, items, 1, NewNode)
    BY <2>1, <2>2, <2>3, <2>4 DEF LinkedIn
  <2>6. QED BY <1>1, <1>8, <1>9, <2>5, GrowSound
<1>11. QED BY <1>1, <1>5, <1>9, <1>10 DEF mem

LEMMA PushBackStep ==
  ASSUME Core, PushBack
  PROVE  /\ Core'
         /\ Found.next = NULL /\ (Len(items) # 0 \/ Found.prev = NULL) => Sound'
<1> DEFINE mem == Memory(pages')
           n == NewNode
           r == push_back(list, mem, n)
<1>1. /\ Sound /\ Alloc /\ items' = Append(items, n)
      /\ list' = Counted(r.list) /\ node' = r.node
  BY DEF PushBack, Operating, After
<1>2. /\ n \notin live /\ n \in Slots' /\ Slots \subseteq Slots' /\ mem \in [Slots' -> Node]
      /\ Slots' \subseteq Nat \X Nat /\ NULL \notin Slots'
      /\ \A s \in Slots : mem[s] = node[s]
  BY <1>1, AllocEffect
<1>3. list \in ListRec(Slots')
  BY <1>1, ListGrown
<1>4. list.head # n /\ list.tail # n /\ (list.head = NULL <=> list.tail = NULL)
      /\ (list.head = NULL <=> Len(items) = 0)
  BY <1>1, <1>2, Ends
<1>5. /\ Result(Slots', list, r)
      /\ r.list.tail = n /\ r.list.head = (IF list.head = NULL THEN n ELSE list.head)
      /\ \A s \in Slots' :
           /\ r.node[s].next = IF s = list.tail THEN n ELSE mem[s].next
           /\ r.node[s].prev = IF s = n /\ list.head # NULL THEN list.tail ELSE mem[s].prev
  <2>1. r = push_back(list, mem, n)
    OBVIOUS
  <2> HIDE DEF mem, n, r
  <2>2. BackPushed(Slots', list, mem, n, r)
    BY <2>1, <1>2, <1>3, <1>4, PushBackLinks
  <2>3. QED BY <2>2 DEF BackPushed
<1> HIDE DEF mem, r
<1>6. /\ list' \in ListRec(Slots') /\ list'.nmemb = list.nmemb + 1
      /\ list'.head = r.list.head /\ list'.tail = r.list.tail /\ node' \in [Slots' -> Node]
  BY <1>1, <1>5, CountedUp DEF Result
<1>7. items \in Seq(Slots') /\ Len(items) \in Nat
  BY <1>2, Facts, SeqOver
<1> DEFINE k == Len(items) + 1
<1>8. items' = InsertAt(items, k, NewNode) /\ k \in 1 .. Len(items) + 1
  <2>1. k \in 1 .. Len(items) + 1
    BY <1>7
  <2>2. items \in Seq(Slots') /\ n \in Slots'
    BY <1>2, <1>7
  <2>3. Append(items, n) = InsertAt(items, k, n)
    BY <2>2, InsertAtEnds
  <2>4. QED BY <1>1, <2>1, <2>3
<1>9. Core'
  BY <1>1, <1>6, <1>8, GrowCore
<1>10. ASSUME Found.next = NULL, Len(items) # 0 \/ Found.prev = NULL PROVE Sound'
  <2>0. mem[n].next = NULL /\ (Len(items) # 0 \/ mem[n].prev = NULL)
    BY <1>10 DEF Found, mem
  <2>1. list'.tail = n /\ list'.head = (IF k = 1 THEN n ELSE list.head)
    BY <1>4, <1>5, <1>6, <1>7
  <2>2. n # list.tail
    BY <1>4
  <2>3. /\ node'[n].prev = (IF k = 1 THEN NULL ELSE items[k - 1])
        /\ node'[n].next = NULL
    <3>1. Len(items) # 0 => list.tail = items[k - 1] /\ list.head # NULL
      BY <1>1, <1>7, Ends
    <3>2. Len(items) = 0 => list.head = NULL
      BY <1>4
    <3>3. k = 1 <=> Len(items) = 0
      BY <1>7
    <3>4. QED BY <3>1, <3>2, <3>3, <2>0, <2>2, <1>1, <1>2, <1>5
  <2>4. ASSUME NEW j \in 1 .. Len(items)
        PROVE  /\ node'[items[j]].next = IF j = k - 1 THEN n ELSE node[items[j]].next
               /\ node'[items[j]].prev = node[items[j]].prev
               /\ j # k
    <3>1. items[j] \in Slots /\ items[j] \in live /\ items[j] \in Slots' /\ items[j] # n
      BY <1>2, Facts
    <3>2. items[j] = list.tail <=> j = k - 1
      <4>1. Len(items) # 0 /\ k - 1 = Len(items)
        BY <1>7
      <4>2. Len(items) \in 1 .. Len(items) /\ list.tail = items[Len(items)]
        BY <4>1, <1>1, Ends
      <4>3. \A i, m \in 1 .. Len(items) : items[i] = items[m] => i = m
        BY Facts
      <4>4. QED BY <4>1, <4>2, <4>3
    <3>3. mem[items[j]] = node[items[j]]
      BY <1>2, <3>1
    <3>4. j # k
      BY <1>7
    <3>5. QED BY <1>1, <1>5, <3>1, <3>2, <3>3, <3>4
  <2>5. LinkedIn(list'.head, list'.tail, node', list.head, list.tail, node, items, k, NewNode)
    BY <2>1, <2>3, <2>4 DEF LinkedIn
  <2>6. QED BY <1>1, <1>8, <1>9, <2>5, GrowSound
<1>11. QED BY <1>9, <1>10

LEMMA InsertStep ==
  ASSUME Core, NEW i \in 1 .. Len(items) + 1, Insert(i)
  PROVE  /\ Core'
         /\ i # Len(items) + 1 /\ Found = Zeroed => Sound'
<1> DEFINE mem == Memory(pages')
           n == NewNode
           position == IF i > Len(items) THEN NULL ELSE items[i]
           r == insert(list, mem, position, n)
<1>1. /\ Sound /\ Alloc /\ items' = InsertAt(items, i, n)
      /\ list' = Counted(r.list) /\ node' = r.node
  BY DEF Insert, Operating, After
<1>2. /\ n \notin live /\ n \in Slots' /\ Slots \subseteq Slots' /\ mem \in [Slots' -> Node]
      /\ Slots' \subseteq Nat \X Nat /\ NULL \notin Slots'
      /\ \A s \in Slots : mem[s] = node[s]
  BY <1>1, AllocEffect
<1>3. list \in ListRec(Slots') /\ Len(items) \in Nat /\ i \in Int
  BY <1>1, ListGrown, Facts
<1>4. CASE i > Len(items)
  <2>1. r = [list |-> [list EXCEPT !.head = n, !.tail = n], node |-> mem]
    BY <1>4 DEF insert
  <2>2. /\ r.list \in ListRec(Slots') /\ r.list.nmemb = list.nmemb
    <3> DEFINE new == [list EXCEPT !.head = n, !.tail = n]
    <3>1. new \in ListRec(Slots') /\ new.nmemb = list.nmemb
      BY <1>2, <1>3 DEF ListRec
    <3>2. r.list = new
      BY <2>1
    <3> HIDE DEF new, r
    <3>3. QED BY <3>1, <3>2
  <2>3. r.node = mem
    BY <2>1
  <2> HIDE DEF r, mem
  <2>4. /\ list' \in ListRec(Slots') /\ list'.nmemb = list.nmemb + 1
        /\ node' \in [Slots' -> Node]
    BY <1>1, <1>2, <2>2, <2>3, CountedUp
  <2>5. Core'
    BY <1>1, <2>4, GrowCore
  <2>6. i = Len(items) + 1
    BY <1>3, <1>4
  <2>7. QED BY <2>5, <2>6
<1>5. CASE ~(i > Len(items))
  <2>1. i \in 1 .. Len(items) /\ position = items[i] /\ i # Len(items) + 1
    BY <1>3, <1>5
  <2>2. items[i] \in Slots /\ items[i] \in live /\ items[i] \in Slots' /\ items[i] # n
    BY <1>2, <2>1, Facts
  <2>3. /\ mem[items[i]].prev = IF i = 1 THEN NULL ELSE items[i - 1]
        /\ mem[items[i]] = node[items[i]]
    BY <1>1, <1>2, <2>1, <2>2, Ends
  <2>4. i # 1 => /\ i - 1 \in 1 .. Len(items) /\ items[i - 1] \in Slots
                 /\ items[i - 1] \in live /\ items[i - 1] # n /\ items[i - 1] # items[i]
                 /\ items[i - 1] # NULL
    <3>1. i # 1 => i - 1 \in 1 .. Len(items) /\ i - 1 # i
      BY <1>3, <2>1
    <3>2. \A a, b \in 1 .. Len(items) : items[a] = items[b] => a = b
      BY Facts
    <3>3. \A a \in 1 .. Len(items) : items[a] \in Slots /\ items[a] \in live /\ NULL \notin Slots
      BY Facts
    <3>4. QED BY <1>2, <2>1, <3>1, <3>2, <3>3
  <2> DEFINE e == items[i]
             p == mem[e].prev
  <2>5. p \in Slots' \union {NULL} /\ p # n /\ p # e
    BY <1>2, <2>2, <2>3, <2>4
  <2>6. r = insert(list, mem, e, n)
    BY <2>1
  <2>7. /\ Result(Slots', list, r)
        /\ r.list.head = (IF p = NULL THEN n ELSE list.head) /\ r.list.tail = list.tail
        /\ \A s \in Slots' :
             /\ r.node[s].next = IF s = n THEN e ELSE IF s = p THEN n ELSE mem[s].next
             /\ r.node[s].prev = IF s = e THEN n ELSE
                                 IF s = n /\ p # NULL THEN p ELSE mem[s].prev
    <3>1. e \in Slots' /\ e # n
      BY <2>2
    <3> HIDE DEF mem, n, r, e
    <3>2. PutBefore(Slots', list, mem, e, n, r)
      BY <3>1, <2>5, <2>6, <1>2, <1>3, InsertBeforeLinks
    <3>3. QED BY <3>2 DEF PutBefore
  <2>8. p = (IF i = 1 THEN NULL ELSE items[i - 1]) /\ (p = NULL <=> i = 1)
    BY <2>3, <2>4
  <2> HIDE DEF mem, r, p
  <2>9. /\ list' \in ListRec(Slots') /\ list'.nmemb = list.nmemb + 1
        /\ list'.head = r.list.head /\ list'.tail = r.list.tail /\ node' \in [Slots' -> Node]
    BY <1>1, <2>7, CountedUp DEF Result
  <2>10. Core'
    BY <1>1, <2>9, GrowCore
  <2>11. ASSUME Found = Zeroed PROVE Sound'
    <3>0. mem[n].prev = NULL
      BY <2>11 DEF Found, mem, Zeroed
    <3>1. list'.head = (IF i = 1 THEN n ELSE list.head) /\ list'.tail = list.tail
      BY <2>7, <2>8, <2>9
    <3>2. node'[n].next = items[i] /\ node'[n].prev = IF i = 1 THEN NULL ELSE items[i - 1]
      BY <3>0, <1>1, <1>2, <2>2, <2>7, <2>8
    <3>3. ASSUME NEW j \in 1 .. Len(items)
          PROVE  /\ node'[items[j]].next = IF j = i - 1 THEN n ELSE node[items[j]].next
                 /\ node'[items[j]].prev = IF j = i THEN n ELSE node[items[j]].prev
      <4>1. items[j] \in Slots' /\ items[j] # n /\ mem[items[j]] = node[items[j]]
            /\ items[j] # NULL
        BY <1>2, Facts
      <4>2. items[j] = e <=> j = i
        BY <2>1, Facts
      <4>3. items[j] = p <=> j = i - 1
        <5>1. CASE i = 1
          BY <5>1, <4>1, <2>8
        <5>2. CASE i # 1
          <6>1. p = items[i - 1] /\ i - 1 \in 1 .. Len(items)
            BY <5>2, <2>4, <2>8
          <6>2. QED BY <6>1, Facts
        <5>3. QED BY <5>1, <5>2
      <4> HIDE DEF e
      <4>4. QED BY <1>1, <2>7, <4>1, <4>2, <4>3
    <3>4. LinkedIn(list'.head, list'.tail, node', list.head, list.tail, node, items, i, NewNode)
      BY <2>1, <3>1, <3>2, <3>3 DEF LinkedIn
    <3>5. QED BY <1>1, <2>10, <3>4, GrowSound
  <2>12. QED BY <2>10, <2>11
<1>6. QED BY <1>4, <1>5

(* A call that takes element k away from a list that is in order.           *)
LEMMA RemovedStep ==
  ASSUME Core, Sound, NEW k \in 1 .. Len(items),
         NEW r, r = erase(list, node, items[k]), Removed(k, r),
         list' = r.list \/ list' = Counted(r.list)
  PROVE  /\ Core' /\ Sound'
         /\ \A s \in Slots' :
              /\ node'[s].next = IF s = node[items[k]].prev THEN node[items[k]].next
                                                            ELSE node[s].next
              /\ node'[s].prev = IF s = node[items[k]].next THEN node[items[k]].prev
                                                            ELSE node[s].prev
<1> DEFINE n == Len(items)
           e == items[k]
           p == node[e].prev
           q == node[e].next
<1>0. n \in Nat /\ k \in Int /\ 1 <= k /\ k <= n
  BY Facts
<1>1. /\ NA!FreeAtCursor(e) \/ NA!FreeToList(e)
      /\ node' = [s \in Slots' |-> r.node[s]] /\ items' = RemoveAt(items, k)
  BY DEF Removed, Slots
<1>2. /\ e \in live /\ e \in Slots /\ Slots \subseteq Nat \X Nat /\ NULL \notin Slots
      /\ node \in [Slots -> Node] /\ list \in ListRec(Slots)
      /\ \A j \in 1 .. n : items[j] \in Slots /\ items[j] \in live
      /\ \A i, j \in 1 .. n : items[i] = items[j] => i = j
  BY Facts
<1>3. live' = live \ {e} /\ live' \subseteq Slots' /\ Slots' \subseteq Slots
  BY <1>1, <1>2, FreeEffect
<1>4. /\ q = (IF k = n THEN NULL ELSE items[k + 1])
      /\ p = (IF k = 1 THEN NULL ELSE items[k - 1])
      /\ list.head = items[1] /\ list.tail = items[n]
      /\ 1 \in 1 .. n /\ n \in 1 .. n
  BY <1>0, Ends
<1>5. (k # n => k + 1 \in 1 .. n /\ k + 1 # k) /\ (k # 1 => k - 1 \in 1 .. n /\ k - 1 # k)
  BY <1>0
<1>6. p \in live' \union {NULL} /\ q \in live' \union {NULL}
      /\ (p = NULL <=> k = 1) /\ (q = NULL <=> k = n)
  BY <1>2, <1>3, <1>4, <1>5
<1>7. (k # 1 => list.head \in live') /\ (k # n => list.tail \in live')
  BY <1>2, <1>3, <1>4
<1>8. /\ Result(Slots, list, r)
      /\ r.list.head = (IF p = NULL THEN q ELSE list.head)
      /\ r.list.tail = (IF q = NULL THEN p ELSE list.tail)
      /\ \A s \in Slots : /\ r.node[s].next = IF s = p THEN q ELSE node[s].next
                          /\ r.node[s].prev = IF s = q THEN p ELSE node[s].prev
  <2>1. p \in Slots \union {NULL} /\ q \in Slots \union {NULL} /\ p = node[e].prev
        /\ q = node[e].next /\ r = erase(list, node, e)
    BY <1>3, <1>6
  <2> HIDE DEF p, q, e
  <2>2. Erased(Slots, list, node, p, q, r)
    BY <1>2, <2>1, EraseLinks
  <2>3. QED BY <2>2 DEF Erased
<1> HIDE DEF e, p, q
<1>9. list' \in ListRec(Slots) /\ list'.nmemb >= list.nmemb
      /\ list'.head = r.list.head /\ list'.tail = r.list.tail
  <2>1. /\ r.list \in ListRec(Slots) /\ r.list.nmemb = list.nmemb /\ list.nmemb \in Nat
    BY <1>2, <1>8 DEF Result, ListRec
  <2>2. CASE list' = r.list
    BY <2>1, <2>2
  <2>3. CASE list' = Counted(r.list)
    BY <2>1, <2>3, CountedUp
  <2>4. QED BY <2>2, <2>3
<1>10. list' \in ListRec(Slots')
  <2>1. list'.head \in Slots' \union {NULL} /\ list'.tail \in Slots' \union {NULL}
    BY <1>3, <1>6, <1>7, <1>8, <1>9
  <2>2. QED BY <1>9, <2>1 DEF ListRec
<1>11. node' \in [Slots' -> Node]
  BY <1>1, <1>3, <1>8 DEF Result
<1>12. Core'
  BY <1>1, <1>9, <1>10, <1>11, ShrinkCore DEF e
<1>13. \A s \in Slots' : /\ node'[s].next = IF s = p THEN q ELSE node[s].next
                         /\ node'[s].prev = IF s = q THEN p ELSE node[s].prev
  BY <1>1, <1>3, <1>8
<1>14. ASSUME NEW j \in 1 .. n, j # k
       PROVE  /\ node'[items[j]].next = IF j = k - 1 THEN q ELSE node[items[j]].next
              /\ node'[items[j]].prev = IF j = k + 1 THEN p ELSE node[items[j]].prev
  <2>1. items[j] \in Slots' /\ items[j] # NULL
    BY <1>2, <1>3, <1>14 DEF e
  <2>2. items[j] = p <=> j = k - 1
    <3>1. CASE k = 1
      BY <3>1, <1>4, <2>1
    <3>2. CASE k # 1
      BY <3>2, <1>2, <1>4, <1>5
    <3>3. QED BY <3>1, <3>2
  <2>3. items[j] = q <=> j = k + 1
    <3>1. CASE k = n
      BY <3>1, <1>4, <2>1
    <3>2. CASE k # n
      BY <3>2, <1>2, <1>4, <1>5
    <3>3. QED BY <3>1, <3>2
  <2>4. QED BY <1>13, <2>1, <2>2, <2>3
<1>15. LinkedOut(list'.head, list'.tail, node', list.head, list.tail, node, items, k)
  <2>1. /\ list'.head = (IF k = 1 THEN node[items[k]].next ELSE list.head)
        /\ list'.tail = (IF k = n THEN node[items[k]].prev ELSE list.tail)
    BY <1>6, <1>8, <1>9 DEF e, p, q
  <2>2. QED BY <2>1, <1>14 DEF LinkedOut, e, p, q
<1>16. Sound'
  BY <1>1, <1>12, <1>15, ShrinkSound
<1>17. QED BY <1>12, <1>13, <1>16 DEF e, p, q

LEMMA PopFrontStep ==
  ASSUME Core, PopFront
  PROVE  Core' /\ Sound'
<1>1. Sound /\ Len(items) # 0
  BY Facts, EmptySeq DEF PopFront, Operating
<1>2. 1 \in 1 .. Len(items) /\ list.head = items[1]
  BY <1>1, Ends
<1>3. Removed(1, erase(list, node, items[1])) /\ list' = erase(list, node, items[1]).list
  BY <1>2 DEF PopFront
<1>4. QED BY <1>1, <1>2, <1>3, RemovedStep

LEMMA PopBackStep ==
  ASSUME Core, PopBack
  PROVE  Core' /\ Sound'
<1> DEFINE k == Len(items)
<1>1. Sound /\ k # 0
  BY Facts, EmptySeq DEF PopBack, Operating
<1>2. k \in 1 .. Len(items) /\ list.tail = items[k]
  BY <1>1, Ends
<1>3. Removed(k, erase(list, node, items[k])) /\ list' = erase(list, node, items[k]).list
  BY <1>2 DEF PopBack
<1> HIDE DEF k
<1>4. QED BY <1>1, <1>2, <1>3, RemovedStep

LEMMA EraseStep ==
  ASSUME Core, NEW k \in DOMAIN items, Erase(k)
  PROVE  Core' /\ Sound'
<1> DEFINE r == erase(list, node, items[k])
<1>1. Sound /\ Removed(k, r) /\ list' = Counted(r.list) /\ k \in 1 .. Len(items)
  BY Facts DEF Erase, Operating
<1>2. r = erase(list, node, items[k])
  OBVIOUS
<1> HIDE DEF r
<1>3. QED BY <1>1, <1>2, RemovedStep

(* A list object with no element, and no link but what Node allows.         *)
Emptied == /\ NAP!IInv /\ pages # << >> /\ live = {} /\ items = << >>
           /\ node \in [Slots -> Node]
           /\ list = [head |-> NULL, tail |-> NULL, nmemb |-> 0]

LEMMA EmptyCore == Emptied => Core /\ Sound
<1> SUFFICES ASSUME Emptied PROVE Core /\ Sound
  OBVIOUS
<1>1. /\ list \in ListRec(Slots) /\ list.nmemb = 0 /\ list.head = NULL /\ list.tail = NULL
      /\ items \in Seq(Slots)
  BY DEF ListRec, Emptied
<1>2. DOMAIN items = {} /\ ToSet(items) = {} /\ Len(items) = 0
  BY EmptyChain DEF Emptied
<1>3. Core
  BY <1>1, <1>2 DEF Core, Emptied
<1>4. Sound
  BY <1>1, <1>2 DEF Sound, Emptied
<1>5. QED BY <1>3, <1>4

LEMMA EmptyCoreNext == Emptied' => Core' /\ Sound'
BY EmptyCore, PTL

LEMMA InitCore == Init => Core /\ Sound
<1> SUFFICES ASSUME Init PROVE Core /\ Sound
  OBVIOUS
<1>1. NAP!IInv /\ live = {} /\ pages # << >>
  <2>1. NAP!Init
    BY SameInit DEF Init
  <2>2. NAP!IInv
    BY <2>1, AllocatorAssumptions, NAP!InitInv
  <2>3. live = {} /\ pages = <<[cursor |-> 0, max |-> InitMax]>>
    BY <2>1 DEF NAP!Init, NAP!FirstPage
  <2>4. pages # << >>
    BY <2>3
  <2>5. QED BY <2>2, <2>3, <2>4
<1>2. node \in [Slots -> Node]
  BY DEF Init, Slots, Zeroed, Node, Link
<1>3. QED BY <1>1, <1>2, EmptyCore DEF Init, Emptied

LEMMA ClearStep ==
  ASSUME Core, Clear
  PROVE  Core' /\ Sound'
<1>1. NAP!Clear
  BY SameInit DEF Clear
<1>2. NAP!IInv' /\ live' = {} /\ pages' # << >>
  BY <1>1, AllocatorAssumptions, NAP!ClearInv DEF Core, NAP!Clear
<1>3. node' \in [Slots' -> Node]
  <2>1. node \in [Slots -> Node] /\ Zeroed \in Node
    BY Facts DEF Zeroed, Node, Link
  <2>2. QED BY <2>1 DEF Clear, Memory, Slots
<1>4. QED BY <1>2, <1>3, EmptyCoreNext DEF Clear, Emptied

LEMMA IdleStep ==
  ASSUME Core, UNCHANGED <<allocVars, list, node, items>>
  PROVE  Core' /\ (Sound' <=> Sound)
<1>1. UNCHANGED <<pages, blocks, word, live, chain, held, list, node, items>>
  BY DEF allocVars
<1>2. NAP!IInv'
  BY <1>1 DEF Core, NAP!IInv, NAP!TypeOK, NAP!PagesPacked, NAP!SlotsPartitioned,
       NAP!FreeListIntact, NAP!Top
<1>3. QED BY <1>1, <1>2 DEF Core, Sound, Slots

-----------------------------------------------------------------------------
LEMMA CoreStep == Core /\ [Next /\ UNCHANGED client]_vars => Core'
<1> SUFFICES ASSUME Core, Next \/ UNCHANGED vars PROVE Core'
  OBVIOUS
<1>1. CASE PushFront           BY <1>1, PushFrontStep
<1>2. CASE PushBack            BY <1>2, PushBackStep
<1>3. CASE \E i \in 1 .. Len(items) + 1 : Insert(i)   BY <1>3, InsertStep
<1>4. CASE PopFront            BY <1>4, PopFrontStep
<1>5. CASE PopBack             BY <1>5, PopBackStep
<1>6. CASE \E i \in DOMAIN items : Erase(i)           BY <1>6, EraseStep
<1>7. CASE Clear               BY <1>7, ClearStep
<1>8. CASE BeginWalk \/ WalkOn
  BY <1>8, IdleStep DEF BeginWalk, WalkOn
<1>9. CASE UNCHANGED vars
  BY <1>9, IdleStep DEF vars, allocVars
<1>10. QED BY <1>1, <1>2, <1>3, <1>4, <1>5, <1>6, <1>7, <1>8, <1>9 DEF Next

(* The list object and its links have their types, every link of the list   *)
(* object leads to memory of the list, and empty_list never calls a list    *)
(* with elements empty.                                                     *)
THEOREM ListTyped == Spec => [](TypeOK /\ EmptyIsRight)
<1>1. Init => Core
  BY InitCore
<1>2. Core /\ [Next /\ UNCHANGED client]_vars => Core'
  BY CoreStep
<1>3. Core => TypeOK /\ EmptyIsRight
  <2> SUFFICES ASSUME Core PROVE TypeOK /\ EmptyIsRight
    OBVIOUS
  <2>1. TypeOK
    BY Facts DEF TypeOK, Slots, ListRec
  <2>2. EmptyIsRight
    <3>1. Len(items) <= list.nmemb /\ Len(items) \in Nat /\ items \in Seq(Slots)
      BY Facts DEF Core
    <3>2. list.nmemb = 0 => Len(items) = 0
      BY <3>1
    <3>3. QED BY <3>1, <3>2, EmptySeq DEF EmptyIsRight
  <2>3. QED BY <2>1, <2>2
<1>4. QED BY <1>1, <1>2, <1>3, PTL DEF Spec

(* A list is linked both ways in the client's order after every call that   *)
(* is not given a slot with a link left over, but for insert at end_list.   *)
THEOREM ListSoundOnZeroedSlots == Spec => ZeroedSlotsSuffice
<1>1. Init => Core
  BY InitCore
<1>2. Core /\ [Next /\ UNCHANGED client]_vars => Core'
  BY CoreStep
<1>3. Core /\ [Next /\ UNCHANGED client]_vars =>
        [Sound' \/ (\E s \in live' \ live : Leftover(s)) \/ Insert(Len(items) + 1)]_<<allocVars, list, node, items>>
  <2> SUFFICES ASSUME Core, Next, \A s \in live' \ live : ~Leftover(s), ~Insert(Len(items) + 1)
               PROVE  Sound' \/ UNCHANGED <<allocVars, list, node, items>>
    BY DEF vars, allocVars
  <2>1. Alloc => Found = Zeroed
    <3> SUFFICES ASSUME Alloc PROVE Found = Zeroed
      OBVIOUS
    <3>1. /\ NewNode \in live' \ live /\ NewNode \in Slots'
          /\ \A s \in Slots : Memory(pages')[s] = node[s]
          /\ NewNode \notin Slots => Memory(pages')[NewNode] = Zeroed
      BY AllocEffect
    <3>2. DOMAIN node = Slots
      BY Facts
    <3>3. QED BY <3>1, <3>2 DEF Leftover, Found
  <2>2. Zeroed.next = NULL /\ Zeroed.prev = NULL
    BY DEF Zeroed
  <2>3. CASE PushFront
    BY <2>1, <2>2, <2>3, PushFrontStep DEF PushFront
  <2>4. CASE PushBack
    BY <2>1, <2>2, <2>4, PushBackStep DEF PushBack
  <2>5. CASE \E i \in 1 .. Len(items) + 1 : Insert(i)
    BY <2>1, <2>5, InsertStep DEF Insert
  <2>6. CASE PopFront            BY <2>6, PopFrontStep
  <2>7. CASE PopBack             BY <2>7, PopBackStep
  <2>8. CASE \E i \in DOMAIN items : Erase(i)           BY <2>8, EraseStep
  <2>9. CASE Clear               BY <2>9, ClearStep
  <2>10. CASE BeginWalk \/ WalkOn
    BY <2>10 DEF BeginWalk, WalkOn
  <2>11. QED BY <2>3, <2>4, <2>5, <2>6, <2>7, <2>8, <2>9, <2>10 DEF Next
<1>4. QED BY <1>1, <1>2, <1>3, PTL DEF Spec, ZeroedSlotsSuffice

-----------------------------------------------------------------------------
(* A list used as a stack.                                                  *)

(* What keeps such a list linked: its slots are given back in the opposite  *)
(* order, so none is on the free list and the slot at the cursor was last   *)
(* a top of the stack, whose prev is NULL; only the bottom of the stack     *)
(* relies on the next in its slot, and is always the same slot.             *)
StackInv ==
  /\ Sound /\ NAP!NoneFree
  /\ \A i, j \in 1 .. Len(items) : i < j => NAP!Above(items[i], items[j])
  /\ \A s \in Slots \ live : node[s].prev = NULL
  /\ items = << >> => node[<<1, 0>>].next = NULL

LEMMA StackInit == Init => StackInv
<1> SUFFICES ASSUME Init PROVE StackInv
  OBVIOUS
<1>1. Core /\ Sound
  BY InitCore
<1>2. /\ chain = << >> /\ items = << >> /\ node = [s \in Slots |-> Zeroed]
      /\ pages # << >> /\ NAP!IInv
  BY <1>1 DEF Init, NA!Init, Slots, Core
<1>3. <<1, 0>> \in Slots
  BY <1>2, AllocatorAssumptions, NAP!BottomSlot, SameSlots DEF Slots
<1>4. Len(items) = 0
  BY <1>2
<1>5. QED BY <1>1, <1>2, <1>3, <1>4 DEF StackInv, NAP!NoneFree, Zeroed

LEMMA StackPush ==
  ASSUME Core, StackInv, PushFront
  PROVE  StackInv'
<1> DEFINE n == NewNode
<1>1. Alloc /\ Sound /\ items' = <<n>> \o items
  BY DEF PushFront, Operating
<1>2. /\ NAP!NoneFree' /\ \A t \in live : NAP!Above(n, t)
      /\ live = {} => n = <<1, 0>>
  <2>1. NAP!AllocRecycled \/ NAP!AllocCursor \/ NAP!AllocNewPage
    BY <1>1, SameAlloc DEF Alloc
  <2>2. n \in live' \ live
    BY <1>1, AllocEffect
  <2>3. /\ NAP!NoneFree'
        /\ \A s \in live' \ live : /\ \A t \in live : NAP!Above(s, t)
                                   /\ live = {} => s = <<1, 0>>
    BY <2>1, AllocatorAssumptions, NAP!StackAlloc DEF Core, StackInv
  <2>4. QED BY <2>2, <2>3
<1>3. /\ n \notin live /\ live' = live \union {n} /\ n \in Slots' /\ NULL \notin Slots'
      /\ Slots \subseteq Slots'
      /\ \A s \in Slots : Memory(pages')[s] = node[s]
      /\ n \notin Slots => Memory(pages')[n] = Zeroed
  BY <1>1, AllocEffect
<1>4. /\ items \in Seq(Slots) /\ Len(items) \in Nat /\ live = ToSet(items)
      /\ \A i \in 1 .. Len(items) : items[i] \in live
      /\ node \in [Slots -> Node]
  BY Facts
<1>5. Found.prev = NULL
  BY <1>3 DEF StackInv, Found, Zeroed
<1>6. Len(items) # 0 \/ Found.next = NULL
  <2>1. CASE Len(items) = 0
    <3>1. items = << >>
      BY <2>1, <1>4, EmptySeq
    <3>2. live = {}
      BY <3>1, <1>4, EmptyChain
    <3>3. n = <<1, 0>> /\ node[<<1, 0>>].next = NULL
      BY <3>1, <3>2, <1>2 DEF StackInv
    <3>4. QED BY <3>3, <1>3 DEF Found, Zeroed
  <2>2. QED BY <2>1
<1>7. /\ Sound'
      /\ \A s \in Slots' : node'[s].prev = IF s = list.head THEN n ELSE Memory(pages')[s].prev
  BY <1>5, <1>6, PushFrontStep
<1>8. /\ Len(items') = Len(items) + 1
      /\ \A i \in 1 .. Len(items) + 1 : items'[i] = IF i = 1 THEN n ELSE items[i - 1]
  <2>1. items \in Seq(Slots') /\ n \in Slots'
    BY <1>3, <1>4, Facts, SeqOver
  <2>2. items' = InsertAt(items, 1, n) /\ 1 \in 1 .. Len(items) + 1
    BY <2>1, <1>1, <1>4, InsertAtEnds
  <2>3. /\ Len(items') = Len(items) + 1
        /\ \A i \in 1 .. Len(items) + 1 :
             items'[i] = IF i < 1 THEN items[i] ELSE IF i = 1 THEN n ELSE items[i - 1]
    BY <2>1, <2>2, InsertShape
  <2>4. \A i \in 1 .. Len(items) + 1 : ~(i < 1)
    BY <1>4
  <2>5. QED BY <2>3, <2>4
<1>9. ASSUME NEW i \in 1 .. Len(items'), NEW j \in 1 .. Len(items'), i < j
      PROVE  NAP!Above(items'[i], items'[j])
  <2>1. j \in 1 .. Len(items) + 1 /\ j # 1 /\ j - 1 \in 1 .. Len(items)
    BY <1>4, <1>8, <1>9
  <2>2. items'[j] = items[j - 1] /\ items[j - 1] \in live
    BY <1>4, <1>8, <2>1
  <2>3. CASE i = 1
    <3>1. items'[i] = n
      BY <1>8, <2>3
    <3>2. QED BY <1>2, <2>2, <3>1
  <2>4. CASE i # 1
    <3>1. i - 1 \in 1 .. Len(items) /\ i - 1 < j - 1
      BY <1>4, <1>8, <1>9, <2>4
    <3>2. items'[i] = items[i - 1]
      BY <1>8, <2>4
    <3>3. NAP!Above(items[i - 1], items[j - 1])
      BY <2>1, <3>1 DEF StackInv
    <3>4. QED BY <2>2, <3>2, <3>3
  <2>5. QED BY <2>3, <2>4
<1>10. ASSUME NEW s \in Slots' \ live' PROVE node'[s].prev = NULL
  <2>1. s \notin live /\ s # n /\ s # list.head
    <3>1. list.head \in live \union {NULL}
      BY <1>1, Ends
    <3>2. QED BY <1>3, <3>1
  <2>2. node'[s].prev = Memory(pages')[s].prev
    BY <1>7, <2>1
  <2>3. CASE s \in Slots
    BY <1>3, <2>1, <2>2, <2>3 DEF StackInv
  <2>4. CASE s \notin Slots
    <3>1. Memory(pages')[s] = Zeroed
      BY <1>4, <2>4 DEF Memory, Slots
    <3>2. QED BY <2>2, <3>1 DEF Zeroed
  <2>5. QED BY <2>3, <2>4
<1>11. items' # << >>
  <2>1. Len(items') # 0
    BY <1>4, <1>8
  <2>2. QED BY <2>1
<1>12. QED BY <1>2, <1>7, <1>9, <1>10, <1>11 DEF StackInv

LEMMA BottomAfter == Core' => <<1, 0>> \in Slots'
<1> DEFINE P == <<1, 0>> \in Slots
<1>1. Core => P
  BY AllocatorAssumptions, NAP!BottomSlot, SameSlots DEF Slots, Core
<1> HIDE DEF P
<1>2. Core' => P'
  BY <1>1, PTL
<1>3. QED BY <1>2 DEF P

LEMMA StackPop ==
  ASSUME Core, StackInv, PopFront
  PROVE  StackInv'
<1> DEFINE e == items[1]
           n == Len(items)
<1>1. Sound /\ n # 0 /\ n \in Nat
  BY Facts, EmptySeq DEF PopFront, Operating
<1>2. 1 \in 1 .. n /\ list.head = e
  BY <1>1, Ends
<1>3. Removed(1, erase(list, node, e)) /\ list' = erase(list, node, e).list
  BY <1>2 DEF PopFront
<1>4. (NA!FreeAtCursor(e) \/ NA!FreeToList(e)) /\ items' = RemoveAt(items, 1)
  BY <1>3 DEF Removed
<1>5. /\ items \in Seq(Slots) /\ live = ToSet(items) /\ DOMAIN items = 1 .. n
      /\ \A j \in 1 .. n : items[j] \in live
      /\ NULL \notin Slots
  BY Facts
<1>6. /\ live' = live \ {e} /\ live' \subseteq Slots' /\ Slots' \subseteq Slots
  BY <1>2, <1>4, <1>5, FreeEffect
<1>7. /\ node[e].prev = NULL
      /\ node[e].next = IF n = 1 THEN NULL ELSE items[2]
  <2>1. \A k \in 1 .. n :
          /\ node[items[k]].next = IF k = n THEN NULL ELSE items[k + 1]
          /\ node[items[k]].prev = IF k = 1 THEN NULL ELSE items[k - 1]
    BY <1>1, Ends
  <2>2. /\ node[items[1]].next = IF 1 = n THEN NULL ELSE items[1 + 1]
        /\ node[items[1]].prev = NULL
    BY <1>2, <2>1
  <2>3. 1 + 1 = 2
    OBVIOUS
  <2>4. QED BY <2>2, <2>3
<1>8. /\ Core' /\ Sound'
      /\ \A s \in Slots' :
           /\ node'[s].next = IF s = node[e].prev THEN node[e].next ELSE node[s].next
           /\ node'[s].prev = IF s = node[e].next THEN node[e].prev ELSE node[s].prev
  BY <1>1, <1>2, <1>3, RemovedStep
<1>9. NAP!NoneFree' /\ (live = {e} => e = <<1, 0>>)
  <2>1. ASSUME NEW t \in live PROVE t = e \/ NAP!Above(e, t)
    <3>1. PICK j \in 1 .. n : t = items[j]
      BY <1>5 DEF ToSet
    <3>2. j = 1 \/ 1 < j
      BY <1>1
    <3>3. QED BY <1>2, <3>1, <3>2 DEF StackInv
  <2>2. e \in live /\ (NAP!FreeAtCursor(e) \/ NAP!FreeToList(e))
    BY <1>2, <1>4, <1>5, SameFree
  <2>3. NAP!IInv /\ NAP!NoneFree
    BY DEF Core, StackInv
  <2> HIDE DEF e
  <2>4. QED BY <2>1, <2>2, <2>3, AllocatorAssumptions, NAP!StackFree
<1>10. /\ Len(items') = n - 1
       /\ \A i \in 1 .. n - 1 : items'[i] = items[i + 1]
  <2>1. /\ Len(items') = n - 1
        /\ \A i \in 1 .. n - 1 : items'[i] = IF i < 1 THEN items[i] ELSE items[i + 1]
    BY <1>2, <1>4, <1>5, RemoveShape
  <2>2. \A i \in 1 .. n - 1 : ~(i < 1)
    BY <1>1
  <2>3. QED BY <2>1, <2>2
<1>11. ASSUME NEW i \in 1 .. Len(items'), NEW j \in 1 .. Len(items'), i < j
       PROVE  NAP!Above(items'[i], items'[j])
  <2>1. i + 1 \in 1 .. n /\ j + 1 \in 1 .. n /\ i + 1 < j + 1
    BY <1>1, <1>10, <1>11
  <2>2. items'[i] = items[i + 1] /\ items'[j] = items[j + 1]
    BY <1>10
  <2>3. QED BY <2>1, <2>2 DEF StackInv
<1>12. ASSUME NEW s \in Slots' \ live' PROVE node'[s].prev = NULL
  <2>1. node'[s].prev = NULL \/ node'[s].prev = node[s].prev
    BY <1>7, <1>8
  <2>2. node[s].prev = NULL
    <3>1. s = e \/ s \in Slots \ live
      BY <1>6
    <3>2. QED BY <1>7, <3>1 DEF StackInv
  <2>3. QED BY <2>1, <2>2
<1>13. ASSUME items' = << >> PROVE node'[<<1, 0>>].next = NULL
  <2>1. n = 1
    <3>1. Len(items') = 0
      BY <1>13
    <3>2. QED BY <1>1, <1>10, <3>1
  <2>2. live = {e}
    BY <1>5, <2>1 DEF ToSet
  <2>3. e = <<1, 0>> /\ e \in Slots'
    BY <1>8, <1>9, <2>2, BottomAfter
  <2>4. e # NULL
    BY <1>6, <1>5, <2>3
  <2>5. QED BY <1>7, <1>8, <2>1, <2>3, <2>4
<1>14. QED BY <1>8, <1>9, <1>11, <1>12, <1>13 DEF StackInv

LEMMA StackIdle ==
  ASSUME Core, StackInv, UNCHANGED <<allocVars, list, node, items>>
  PROVE  StackInv'
<1>1. UNCHANGED <<pages, blocks, word, live, chain, held, list, node, items>>
  BY DEF allocVars
<1>2. Sound'
  BY IdleStep DEF StackInv
<1>3. QED BY <1>1, <1>2 DEF StackInv, NAP!NoneFree, Slots

LEMMA StackStep ==
  Core /\ (AsStack => StackInv) /\ [Next /\ UNCHANGED client]_vars => (AsStack => StackInv)'
<1> SUFFICES ASSUME Core, AsStack => StackInv, (Next /\ UNCHANGED client) \/ UNCHANGED vars,
                    AsStack'
             PROVE  StackInv'
  OBVIOUS
<1>1. client' = client
  BY DEF vars
<1>2. AsStack /\ StackInv
  BY <1>1 DEF AsStack, Ops
<1>3. \A op : Operating(op) => op \in {"push_front", "pop_front", "walk"}
  BY <1>2 DEF Operating, AsStack
<1>4. ~PushBack
  BY <1>3 DEF PushBack
<1>5. \A i : ~Insert(i)
  BY <1>3 DEF Insert
<1>6. ~PopBack
  BY <1>3 DEF PopBack
<1>7. \A i : ~Erase(i)
  BY <1>3 DEF Erase
<1>8. ~Clear
  BY <1>3 DEF Clear
<1>9. CASE PushFront             BY <1>2, <1>9, StackPush
<1>10. CASE PopFront             BY <1>2, <1>10, StackPop
<1>11. CASE BeginWalk \/ WalkOn
  BY <1>2, <1>11, StackIdle DEF BeginWalk, WalkOn
<1>12. CASE UNCHANGED vars
  BY <1>2, <1>12, StackIdle DEF vars, allocVars
<1>13. QED BY <1>4, <1>5, <1>6, <1>7, <1>8, <1>9, <1>10, <1>11, <1>12 DEF Next

(* The list keeps its types, is empty only when it says so, and stays in    *)
(* the client's order if it is used as a stack, however deep and whatever   *)
(* the slots that are handed out again held before.                         *)
THEOREM ListCorrect == Spec => []ListSafe
<1>1. Init => Core /\ (AsStack => StackInv)
  BY InitCore, StackInit
<1>2. /\ Core /\ (AsStack => StackInv) /\ [Next /\ UNCHANGED client]_vars
      => Core' /\ (AsStack => StackInv)'
  BY CoreStep, StackStep
<1>3. (AsStack => StackInv) => StackIsSequence
  BY DEF StackInv, StackIsSequence
<1>4. QED BY <1>1, <1>2, <1>3, ListTyped, PTL DEF Spec, ListSafe
=============================================================================
