----------------------------- MODULE BumpAlloc -----------------------------
(***************************************************************************)
(* src/src/allocators/bump.c: blocks of any size from one buffer.  Whether  *)
(* a block fits is only asserted: a debug build aborts when the assertion   *)
(* fails, a release build, the default of CMakeLists.txt, does not look.    *)
(* Of what is written past the buffer only the buffer's bytes are modelled. *)
(***************************************************************************)
EXTENDS Integers, FiniteSets

CONSTANTS
  Size,      \* BumpAlloc.size, below Modulus
  Requests,  \* the sizes a client asks for, and 1 + the lengths of its strings
  Modulus,   \* 2^w for a size_t of w bits
  MaxHeld,   \* bound: blocks between two clears
  Data,      \* what a client fills its block with
  ZERO, JUNK \* a cell memset, or nobody, has written

VARIABLES
  debug,   \* is this a debug build?
  offset,  \* BumpAlloc.offset
  bytes,   \* the buffer
  live,    \* ghost: the blocks the client holds
  held,    \* ghost: blocks handed out since the last clear, by count
  asked    \* ghost: the sum of their sizes, as numbers that do not wrap

vars == <<debug, offset, bytes, live, held, asked>>

BumpAssumption ==
  /\ Modulus \in Nat /\ Size \in Nat /\ MaxHeld \in Nat /\ Size < Modulus
  /\ Requests \subseteq 1 .. Modulus - 1

Cells == 0 .. Size - 1
Content == Data \union {ZERO, JUNK}

(* create_bump_allocator                                                    *)
Init == /\ debug \in BOOLEAN
        /\ offset = 0
        /\ bytes = [c \in Cells |-> JUNK]
        /\ live = {} /\ held = 0 /\ asked = 0

-----------------------------------------------------------------------------
(* bump_alloc: the asserted condition, a sum of unsigned longs.             *)
Fits(size) == (offset + size) % Modulus <= Size

(* The cells of the buffer in a block: addresses wrap like the offset.      *)
CellsOf(b) == {c % Modulus : c \in b.from .. b.from + b.size - 1} \cap Cells

(* The bytes once the block's cells hold v.                                 *)
Fill(b, v) == [c \in Cells |-> IF c \in CellsOf(b) THEN v ELSE bytes[c]]

(* bump_alloc: offset += size.                                              *)
Advanced(size) == (offset + size) % Modulus

(* bump_alloc, after which the caller has filled the block or not.          *)
Grant(size, filled(_)) ==
  LET b == [from |-> offset, size |-> size]
  IN  /\ debug => Fits(size)
      /\ held < MaxHeld
      /\ offset' = Advanced(size)
      /\ live' = live \union {b}
      /\ held' = held + 1
      /\ asked' = asked + size
      /\ bytes' = filled(b)
      /\ UNCHANGED debug

Alloc == \E size \in Requests : Grant(size, LAMBDA b : bytes)
Calloc == \E size \in Requests : Grant(size, LAMBDA b : Fill(b, ZERO))

(* bump_salloc: the string's characters, and the zero calloc left after it. *)
Salloc == \E size \in Requests, v \in Data :
  Grant(size, LAMBDA b : [c \in Cells |->
    IF c = (b.from + size - 1) % Modulus THEN ZERO ELSE Fill(b, v)[c]])

Clear == /\ offset' = 0
         /\ live' = {} /\ held' = 0 /\ asked' = 0
         /\ UNCHANGED <<debug, bytes>>

(* The client fills a block it holds.                                       *)
Write == \E b \in live, v \in Data : /\ bytes' = Fill(b, v)
                                     /\ UNCHANGED <<debug, offset, live, held, asked>>

Next == Alloc \/ Calloc \/ Salloc \/ Clear \/ Write

Spec == Init /\ [][Next]_vars

-----------------------------------------------------------------------------
(* Fields keep their ranges.                                                *)
TypeOK == /\ debug \in BOOLEAN /\ offset \in 0 .. Modulus - 1
          /\ bytes \in [Cells -> Content]
          /\ held \in 0 .. MaxHeld /\ asked \in Nat
          /\ \A b \in live : b.size \in Requests /\ b.from \in 0 .. Modulus - 1

(* A block lies inside the buffer: what bump_alloc asserts.                 *)
BlocksInside == \A b \in live : b.from + b.size <= Size

(* Both builds hand out memory past the buffer exactly when more was asked  *)
(* for, since the last clear, than the buffer has: in a release build the   *)
(* first time, in a debug build when the asserted sum wraps around.         *)
InsideWhileEnough == BlocksInside <=> asked <= Size

(* The bump allocator keeps its types, and its blocks inside the buffer     *)
(* while that has room.                                                     *)
BumpSafe == TypeOK /\ InsideWhileEnough

(* As long as the blocks are inside, the bump allocator implements the      *)
(* abstract allocator: no allocation, zeroing, string copy or client write  *)
(* changes a cell of another block.                                         *)
Store == [b \in live |-> [c \in CellsOf(b) |-> bytes[c]]]
Abs == INSTANCE Allocator WITH store <- Store, held <- held
BlocksAbsSpec == Abs!Init /\ [][BlocksInside' => Abs!Next]_<<Store, held>>
=============================================================================
