------------------------------ MODULE Program ------------------------------
(***************************************************************************)
(* A program with one allocator of each kind (the node allocator of this    *)
(* module's constants and variables, a pool, an arena and a bump allocator) *)
(* and a forward list, whose nodes come from a node allocator of its own.   *)
(* They share no state: a call on one leaves the others as they are.        *)
(***************************************************************************)
EXTENDS NodeAlloc

CONSTANTS
  Clients,                 \* what a program may be: a set of the names below
  Modulus,                 \* 2^w for a size_t of w bits
  PoolSlots,               \* nmemb of the pool
  ArenaSize, ArenaRequests, ArenaPages, Reach,  \* see Arena
  BumpSize, BumpRequests, MaxHeld,              \* see BumpAlloc
  ZERO, JUNK,
  ListMax, ListPages, MaxItems, MaxAstray                  \* see SinglyLinked

VARIABLES
  client,  \* one of Clients, for the life of the program
  poffset, pblocks, pword, plive, pchain, pheld,
  acurr, abytes, alive, aheld,
  bdebug, boffset, bbytes, blive, bheld, basked,
  fpages, fblocks, fword, flive, fchain, fheld, flist, link, items, astray

poolVars == <<poffset, pblocks, pword, plive, pchain, pheld>>
arenaVars == <<acurr, abytes, alive, aheld>>
bumpVars == <<bdebug, boffset, bbytes, blive, bheld, basked>>
flistVars ==
  <<fpages, fblocks, fword, flive, fchain, fheld, flist, link, items, astray>>
allVars == <<client, vars, poolVars, arenaVars, bumpVars, flistVars>>

Pool == INSTANCE PoolAlloc WITH
  nmemb <- PoolSlots, offset <- poffset, blocks <- pblocks, word <- pword,
  live <- plive, chain <- pchain, held <- pheld

Ar == INSTANCE Arena WITH
  InitSize <- ArenaSize, Requests <- ArenaRequests, MaxPages <- ArenaPages,
  curr <- acurr, bytes <- abytes, live <- alive, held <- aheld

Bump == INSTANCE BumpAlloc WITH
  Size <- BumpSize, Requests <- BumpRequests,
  debug <- bdebug, offset <- boffset, bytes <- bbytes, live <- blive, held <- bheld,
  asked <- basked

FL == INSTANCE SinglyLinked WITH
  InitMax <- ListMax, MaxPages <- ListPages,
  pages <- fpages, blocks <- fblocks, word <- fword, live <- flive,
  chain <- fchain, held <- fheld

(* The assumptions of the modules on their constants.                       *)
ASSUME ProgramAssumption ==
  /\ Pool!PoolAssumption /\ Ar!ArenaAssumption /\ Bump!BumpAssumption
  /\ FL!FListAssumption

InitAll == /\ client \in Clients
           /\ Init /\ Pool!Init /\ Ar!Init /\ Bump!Init /\ FL!Init

NextAll ==
  \/ /\ "node" \in client /\ Next
     /\ UNCHANGED <<client, poolVars, arenaVars, bumpVars, flistVars>>
  \/ /\ "pool" \in client /\ Pool!Next
     /\ UNCHANGED <<client, vars, arenaVars, bumpVars, flistVars>>
  \/ /\ "arena" \in client /\ Ar!Next
     /\ UNCHANGED <<client, vars, poolVars, bumpVars, flistVars>>
  \/ /\ "bump" \in client /\ Bump!Next
     /\ UNCHANGED <<client, vars, poolVars, arenaVars, flistVars>>
  \/ /\ "flist" \in client /\ FL!Next
     /\ UNCHANGED <<client, vars, poolVars, arenaVars, bumpVars>>

SpecAll == InitAll /\ [][NextAll]_allVars

-----------------------------------------------------------------------------
(* The pool accounts for every slot once, its free list survives in client  *)
(* memory, and it fails only when every slot is held; it implements the     *)
(* abstract allocator; see PoolAlloc.                                       *)
PoolSafe == Pool!PoolSafe
PoolAbsSpec == Pool!PoolAbsSpec

(* The blocks of the arena and of the bump allocator leave their page and   *)
(* their buffer only when a page was too small for the request it was made  *)
(* for, and when more was asked for than the buffer has; see Arena and      *)
(* BumpAlloc.                                                               *)
BlocksInside == Ar!ArenaSafe /\ Bump!BumpSafe

(* As long as they are inside, both implement the abstract allocator: no    *)
(* call changes a byte of a block other than its own.                       *)
BlocksAbsSpec == Ar!BlocksAbsSpec /\ Bump!BlocksAbsSpec

(* Until an element is erased after before_begin, the forward list holds    *)
(* the nodes of its elements and the sentinel, and is its client's          *)
(* sequence; see SinglyLinked.                                              *)
FListSafe == FL!FListSafe
FListIsSequence == FL!FListIsSequence

(* "[x] add before_begin iterator for forward list" (README.md:119), the    *)
(* position after which the first element is erased (flist.h:23): what the  *)
(* list begins with is a node that it holds.                                *)
FListBegins == FL!HeadIsHeld
=============================================================================
