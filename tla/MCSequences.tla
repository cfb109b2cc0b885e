---------------------------- MODULE MCSequences ----------------------------
(***************************************************************************)
(* A client of a deque, see MCDeque, or of a string: one that has short     *)
(* texts, changes their case, or has texts longer than the length field can *)
(* say.                                                                     *)
(***************************************************************************)
EXTENDS MCDeque

CONSTANTS
  TextClients, NUL  \* see Strings

VARIABLES
  texts,  \* is it a string?
  tclient, str, arena, call, text

textVars == <<tclient, str, arena, call, text>>

Str == INSTANCE Strings WITH Clients <- TextClients, client <- tclient

(* The assumption of Strings on its clients.                                *)
ASSUME TextsAssumption == Str!StringsAssumption

FewTexts == { << >>, <<"a">>, <<"b">>, <<"a", "b">>, <<"a", "b", "a">> }
Repeats == { << >>, <<"a">>, <<"a", "a">>, <<"a", "a", "a">> }
Words == { <<"a">>, <<"B", " ">> }

TextClient(words, cases, len_mod, max_len) ==
  [texts |-> words, cases |-> cases, len_mod |-> len_mod, max_len |-> max_len]

Writing == TextClient(FewTexts, {}, 16, 4)
Casing == TextClient(Words, {"lower", "upper", "title"}, 16, 3)
Overlong == TextClient(Repeats, {}, 8, 9)

AllTexts == {Writing, Casing, Overlong}

InitMC == /\ texts \in BOOLEAN
          /\ Init /\ Str!Init
          /\ texts => client = Counting
          /\ ~texts => tclient = Writing /\ text = << >> /\ ~arena

NextMC == \/ ~texts /\ (Next \/ NextMiddle) /\ UNCHANGED <<client, texts, textVars>>
          \/ texts /\ Str!Next /\ UNCHANGED <<texts, tclient, vars>>

(* A call of a string function that was made goes on.                       *)
SpecMC == /\ InitMC /\ [][NextMC]_<<texts, vars, textVars>>
          /\ WF_textVars(Str!SubStep /\ UNCHANGED tclient)

(* The string is the text its client asked for; see Strings.                *)
StringSafe == Str!StringSafe

(* A replacement returns; see Strings.                                      *)
CallsReturn == Str!CallsReturn

(* Room is made before it is written; see Strings.                          *)
RoomIsMade == Str!RoomIsMade
=============================================================================
