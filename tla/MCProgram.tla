----------------------------- MODULE MCProgram -----------------------------
(***************************************************************************)
(* A program that uses one of the five (calls on two of them commute), or a *)
(* node allocator that starts with a single slot and grows to three pages,  *)
(* whose clients write nothing.                                             *)
(***************************************************************************)
EXTENDS Program

VARIABLE deep  \* is the node allocator the second?

DeepNode == INSTANCE NodeAlloc WITH InitMax <- 1, MaxPages <- 3, Data <- {}

OneEach == {{"node"}, {"pool"}, {"arena"}, {"bump"}, {"flist"}}

InitMC == /\ deep \in BOOLEAN
          /\ \/ ~deep /\ InitAll
             \/ /\ deep /\ client = {} /\ DeepNode!Init
                /\ Pool!Init /\ Ar!Init /\ Bump!Init /\ FL!Init
          /\ "bump" \notin client => ~bdebug

NextMC == \/ NextAll /\ UNCHANGED deep
          \/ deep /\ DeepNode!Next
             /\ UNCHANGED <<deep, client, poolVars, arenaVars, bumpVars, flistVars>>

SpecMC == InitMC /\ [][NextMC]_<<allVars, deep>>
=============================================================================
