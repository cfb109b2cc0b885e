------------------------------- MODULE Arena -------------------------------
(***************************************************************************)
(* src/src/allocators/arena.c: blocks of any size, handed out one after the *)
(* other from a page; a new page is taken when the current one has no room, *)
(* and only clear gives blocks back.  Nothing checks that the new page has  *)
(* room for the request it was made for.                                    *)
(***************************************************************************)
EXTENDS Integers, Sequences, SequencesExt

CONSTANTS
  InitSize,  \* the size create_arena is given, positive
  Requests,  \* the sizes a client asks for, positive
  Modulus,   \* 2^w for a size_t of w bits
  MaxPages,  \* bound: pages the system grants
  MaxHeld,   \* bound: blocks between two clears
  Reach,     \* bound: cells of memory modelled from the start of a page
  Data,      \* what a client fills its block with
  ZERO, JUNK \* a cell memset, or nobody, has written

VARIABLES
  curr,  \* Arena.curr: the stack of pages, the current one last
  bytes, \* the content of the cells of each page and of those after it
  live,  \* ghost: the blocks the client holds
  held   \* ghost: blocks handed out since the last clear, by count

vars == <<curr, bytes, live, held>>

(* MaxPages pages, each twice the one below it, have sizes a size_t holds.  *)
Doubling(size) == /\ size[1] = InitSize
                  /\ \A p \in 1 .. MaxPages - 1 : size[p + 1] = 2 * size[p]
ArenaAssumption ==
  /\ InitSize \in Nat \ {0} /\ MaxPages \in Nat \ {0} /\ Modulus \in Nat /\ Reach \in Nat
  /\ \E size \in [1 .. MaxPages -> 0 .. Modulus - 1] : Doubling(size)
  /\ MaxHeld \in Nat /\ Requests \subseteq 1 .. Modulus - 1

Pages == 1 .. MaxPages
Cells == Pages \X (0 .. Reach - 1)
Content == Data \union {ZERO, JUNK}

(* construct_page: growth_policy times the given size, after its header.    *)
construct_page(growth_policy, size) ==
  [size |-> (growth_policy * size) % Modulus, offset |-> 0]

Init == /\ curr = << construct_page(1, InitSize) >>
        /\ bytes = [c \in Cells |-> JUNK]
        /\ live = {} /\ held = 0

-----------------------------------------------------------------------------
(* arena_alloc: what the current page has left, an unsigned difference.     *)
Room == (Last(curr).size - Last(curr).offset) % Modulus

NeedsPageLate(size) == Room + 1 < size                     \* mutant
NeedsPage(size) == Room < size

(* The pages after the test: at most one is added.                          *)
PagesFor(size) ==
  IF NeedsPage(size) THEN Append(curr, construct_page(2, Last(curr).size)) ELSE curr

(* arena_alloc: offset += size.                                             *)
AdvancedNot(pages, size) == [pages EXCEPT ![Len(pages)].offset = size]  \* mutant
Advanced(pages, size) ==
  [pages EXCEPT ![Len(pages)].offset = (@ + size) % Modulus]

CellsOf(b) == ({b.page} \X (b.from .. b.from + b.size - 1)) \cap Cells
Fill(b, v) == [c \in Cells |-> IF c \in CellsOf(b) THEN v ELSE bytes[c]]

(* alloc_arena and calloc_arena.                                            *)
Alloc == \E size \in Requests, zeroed \in BOOLEAN :
  LET pages == PagesFor(size)
      b == [page |-> Len(pages), from |-> Last(pages).offset, size |-> size]
  IN  /\ Len(pages) <= MaxPages /\ held < MaxHeld
      /\ curr' = Advanced(pages, size)
      /\ live' = live \union {b}
      /\ held' = held + 1
      /\ bytes' = IF zeroed THEN Fill(b, ZERO) ELSE bytes

(* clear_arena: the pages above the bottom one are freed.                   *)
Clear == /\ curr' = << [curr[1] EXCEPT !.offset = 0] >>
         /\ bytes' = [c \in Cells |-> IF c[1] = 1 THEN bytes[c] ELSE JUNK]
         /\ live' = {} /\ held' = 0

(* The client fills a block it holds.                                       *)
Write == \E b \in live, v \in Data : /\ bytes' = Fill(b, v)
                                     /\ UNCHANGED <<curr, live, held>>

Next == Alloc \/ Clear \/ Write

Spec == Init /\ [][Next]_vars

-----------------------------------------------------------------------------
(* Fields keep their ranges.                                                *)
TypeOK ==
  /\ curr \in Seq([size : Nat, offset : Nat]) /\ Len(curr) \in 1 .. MaxPages
  /\ bytes \in [Cells -> Content]
  /\ held \in 0 .. MaxHeld
  /\ \A b \in live : b.page \in 1 .. Len(curr) /\ b.size \in Requests /\ b.from \in Nat

(* A block lies inside its page.                                            *)
Inside(b) == b.from + b.size <= curr[b.page].size
BlocksInside == \A b \in live : Inside(b)

(* The arena hands out memory past a page only once the page, which is made *)
(* twice the size of the last one, was too small for the very request it    *)
(* was made for.                                                            *)
TooSmall(p) == p > 1 /\ \E b \in live : b.page = p /\ b.from = 0 /\ b.size > curr[p].size
InsideUnlessTooSmall == \A b \in live : Inside(b) \/ TooSmall(b.page)

(* The arena keeps its types and its blocks inside their pages.             *)
ArenaSafe == TypeOK /\ InsideUnlessTooSmall

(* As long as the blocks are inside, the arena implements the abstract      *)
(* allocator: no allocation, zeroing or client write ever changes a cell of *)
(* another block.                                                           *)
Store == [b \in live |-> [c \in CellsOf(b) |-> bytes[c]]]
Abs == INSTANCE Allocator WITH store <- Store, held <- held
BlocksAbsSpec == Abs!Init /\ [][BlocksInside' => Abs!Next]_<<Store, held>>
=============================================================================
