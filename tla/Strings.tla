------------------------------ MODULE Strings ------------------------------
(***************************************************************************)
(* src/src/internals/cstr.c: strings with their buffer size and length kept *)
(* before the text, in memory of the C library or of an arena.              *)
(*                                                                         *)
(* mem are the bytes from the text on: buffer of them and one more for the  *)
(* terminator.  JUNK is a byte that arena_realloc copied from beyond the    *)
(* old string's block, or one after the terminator when no call runs: what  *)
(* was left there is forgotten, as no call may depend on it.  FAULT is a    *)
(* string written outside its memory; the client stops there.  string_sub's *)
(* two loops are stepwise, because they may not end; the other calls are    *)
(* one step each.                                                           *)
(***************************************************************************)
EXTENDS Integers, Sequences, SequencesExt

CONSTANTS
  Clients,  \* what a client may be; the fields of one are explained below
  NUL, JUNK, FAULT

StringsAssumption == \A c \in Clients : c.len_mod \in Nat \ {0} /\ c.max_len \in Nat

VARIABLES
  client,   \* one of Clients, for the life of the string
  str,    \* the client's string: mem, buffer, len
  arena,  \* is it kept in an arena?
  call,   \* the locals of a string_sub that has not returned; Idle if none
  text    \* ghost: the text it should have

vars == <<client, str, arena, call, text>>

Texts == client.texts     \* what it creates, appends, searches and puts in place
Cases == client.cases     \* the ways it changes the case of a text
LenMod == client.len_mod  \* 2^w for a uint32_t of w bits
MaxLen == client.max_len  \* bound: length of its string

Wrap(n) == n % LenMod
Larger(a, b) == IF a > b THEN a ELSE b
Idle == [at |-> "idle"]

-----------------------------------------------------------------------------
(* generic_allocation with stdlib_alloc or arena_alloc: all bytes are zero. *)
Allocated(sz) == [mem |-> [i \in 0 .. sz |-> NUL], buffer |-> sz, len |-> 0]

(* The same with stdlib_realloc, which zeroes what is beyond the old buffer *)
(* and counts those bytes in an unsigned long; or with arena_realloc, which *)
(* copies as much as the new block holds.                                   *)
Reallocated(s, sz) ==
  IF ~arena /\ sz + 1 < s.buffer THEN FAULT
  ELSE [s EXCEPT !.buffer = sz,
                 !.mem = [i \in 0 .. sz |->
                            IF i <= s.buffer /\ (arena \/ i < s.buffer) THEN s.mem[i]
                            ELSE IF arena THEN JUNK ELSE NUL]]

(* memcpy of the characters of src to place at; memmove of n bytes.         *)
Copied(s, at, src) ==
  IF s = FAULT \/ ~(at .. at + Len(src) - 1 \subseteq DOMAIN s.mem) THEN FAULT
  ELSE [s EXCEPT !.mem = [i \in DOMAIN @ |->
          IF i \in at .. at + Len(src) - 1 THEN src[i - at + 1] ELSE @[i]]]
Bytes(s, from, n) == [k \in 1 .. n |-> s.mem[from + k - 1]]
Moved(s, dest, from, n) ==
  IF s = FAULT \/ ~((dest .. dest + n - 1) \union (from .. from + n - 1) \subseteq DOMAIN s.mem)
  THEN FAULT
  ELSE [s EXCEPT !.mem = [i \in DOMAIN @ |->
          IF i \in dest .. dest + n - 1 THEN @[i - dest + from] ELSE @[i]]]

null_terminate(s, len) == Copied(s, len, <<NUL>>)

clean_up(s, len) ==
  LET t == null_terminate(s, len) IN IF t = FAULT THEN t ELSE [t EXCEPT !.len = len]

(* What a call that returns leaves behind.                                  *)
Forgotten(s) ==
  IF s = FAULT THEN s ELSE [s EXCEPT !.mem = [i \in DOMAIN @ |-> IF i > s.len THEN JUNK ELSE @[i]]]

(* string_construct_formatted and string_construct_from_stream: the text is *)
(* given; string_duplicate of the n first characters of one.                *)
Constructed(chars) == clean_up(Copied(Allocated(Len(chars)), 0, chars), Len(chars))
string_duplicate(s, buffer, n) ==
  clean_up(Copied(Allocated(buffer), 0, Bytes(s, 0, n)), n)

(* The room a string is given that is to grow by n.                         *)
NewSizeDouble(s, n) == Wrap(s.buffer * 2)                   \* mutant
NewSize(s, n) == Larger(Wrap(s.len + n), Wrap(s.buffer * 2))

string_concatenate(s, src) ==
  LET n == Len(src)
      t == IF s.buffer - s.len < n THEN Reallocated(s, NewSize(s, n)) ELSE s
  IN  IF s = FAULT THEN FAULT ELSE clean_up(Copied(t, s.len, src), Wrap(n + s.len))

-----------------------------------------------------------------------------
(* strlen, and the first place from i on where strstr finds pattern, or -1. *)
Strlen(s, i) ==
  Min({ j \in DOMAIN s.mem : j >= i /\ s.mem[j] = NUL } \union {s.buffer + 1}) - i
Find(s, i, pattern) ==
  LET found == { p \in i .. i + Strlen(s, i) - Len(pattern) :
                   Bytes(s, p, Len(pattern)) = pattern }
  IN  IF found = {} THEN -1 ELSE Min(found)

(* strchr also finds the terminator.                                        *)
Strchr(reject, c) == c = NUL \/ \E k \in DOMAIN reject : reject[k] = c

(* string_strip: sp and ep are the first and last character that stay.      *)
string_strip(s, reject) ==
  LET end == s.len - 1
      Kept(lo, hi) == { i \in lo .. hi : ~Strchr(reject, s.mem[i]) }
      sp == Min(Kept(0, end) \union {end + 1})
      ep == IF sp >= end THEN end
            ELSE LET k == Kept(sp + 1, end) IN IF k = {} THEN sp
                 ELSE CHOOSE i \in k : \A j \in k : j <= i
  IN  clean_up(Moved(s, 0, sp, ep - sp + 1), ep - sp + 1)

string_slice(s, start, end) == clean_up(Moved(s, 0, start, end - start), end - start)

(* memset of the buffer.                                                    *)
string_clear(s) ==
  clean_up([s EXCEPT !.mem = [i \in DOMAIN @ |-> IF i < s.buffer THEN NUL ELSE @[i]]], 0)

(* toupper and tolower, isspace with ispunct, of the characters of Texts.    *)
UpperOf(c) == CASE c = "a" -> "A" [] c = "b" -> "B" [] OTHER -> c
LowerOf(c) == CASE c = "A" -> "a" [] c = "B" -> "b" [] OTHER -> c
IsBreak(c) == c = " "

(* string_tolower, string_toupper and string_totitle: what becomes of a      *)
(* character; title is for those that start a word.                         *)
Recased(c, starts, way) ==
  IF way = "upper" \/ (way = "title" /\ starts) THEN UpperOf(c) ELSE LowerOf(c)
string_recased(s, way) ==
  [s EXCEPT !.mem = [i \in DOMAIN @ |->
     IF i < s.len THEN Recased(@[i], i = 0 \/ IsBreak(@[i - 1]), way) ELSE @[i]]]

(* generic_string_split: the texts between the places where delim is found. *)
RECURSIVE Pieces(_, _, _)
Pieces(s, cursor, delim) ==
  LET sub == Find(s, cursor, delim)
  IN  IF sub = -1 THEN << Bytes(s, cursor, Strlen(s, cursor)) >>
      ELSE << Bytes(s, cursor, sub - cursor) >> \o Pieces(s, sub + Len(delim), delim)

(* generic_join.                                                            *)
JoinedAll(strings, delim) ==                               \* mutant
  FoldLeft(LAMBDA s, piece : string_concatenate(string_concatenate(s, piece), delim),
           Allocated(0), strings)
Joined(strings, delim) ==
  FoldLeft(LAMBDA s, i : LET t == string_concatenate(s, strings[i])
                         IN  IF i < Len(strings) THEN string_concatenate(t, delim) ELSE t,
           Allocated(0), [i \in 1 .. Len(strings) |-> i])

-----------------------------------------------------------------------------
Init == /\ client \in Clients
        /\ arena \in BOOLEAN
        /\ text \in Texts
        /\ str = Forgotten(Constructed(text))
        /\ call = Idle

(* A call that returns in one step.                                         *)
Becomes(s, t) == /\ call = Idle /\ str # FAULT
                 /\ Len(t) <= MaxLen
                 /\ str' = Forgotten(s) /\ text' = t
                 /\ UNCHANGED <<arena, call>>

(* string_new, string_from_stream.                                          *)
New == \E t \in Texts : Becomes(Constructed(t), t)
CatText(t) == Becomes(string_concatenate(str, t), text \o t)
Cat == \E t \in Texts : CatText(t)
Dup == Becomes(string_duplicate(str, str.buffer, str.len), text)
Ndup == \E n \in 0 .. Len(text) : Becomes(string_duplicate(str, n, n), SubSeq(text, 1, n))
ClearText == Becomes(string_clear(str), << >>)
Slice == \E start \in 0 .. Len(text) : \E end \in start + 1 .. Len(text) :
           Becomes(string_slice(str, start, end), SubSeq(text, start + 1, end))

(* The text t with new for old, from its beginning on; old is not empty.    *)
RECURSIVE Substituted(_, _, _)
Substituted(new, old, t) ==
  IF Len(t) < Len(old) THEN t
  ELSE IF IsPrefix(old, t)
    THEN new \o Substituted(new, old, SubSeq(t, Len(old) + 1, Len(t)))
    ELSE << Head(t) >> \o Substituted(new, old, Tail(t))

(* Without the rejected characters at either end.                           *)
Stripped(t, reject) ==
  LET keep == { i \in DOMAIN t : ~Strchr(reject, t[i]) }
  IN  IF keep = {} THEN << >>
      ELSE SubSeq(t, Min(keep), CHOOSE i \in keep : \A j \in keep : j <= i)
Strip == \E r \in Texts : Becomes(string_strip(str, r), Stripped(text, r))

Recase == \E way \in Cases :
  Becomes(string_recased(str, way),
          [i \in DOMAIN text |-> Recased(text[i], i = 1 \/ IsBreak(text[i - 1]), way)])

(* string_split, and string_join of the pieces with another delimiter.      *)
SplitJoin == \E d, e \in Texts :
  /\ d # << >>
  /\ Becomes(Joined(Pieces(str, 0, d), e), Substituted(e, d, text))

(* string_replace is called.                                                *)
Sub == \E old, new \in Texts :
  /\ call = Idle /\ str # FAULT
  /\ old # << >> => Len(Substituted(new, old, text)) <= MaxLen
  /\ call' = [at |-> IF Len(new) > Len(old) THEN "count" ELSE "replace",
              old |-> old, new |-> new, len |-> str.len, substr |-> 0, count |-> 0]
  /\ UNCHANGED <<str, arena, text>>

Diff == Len(call.new) - Len(call.old)
Substr == Find(str, call.substr, call.old)
Growth == Wrap(call.count * Diff)

(* Its first loop, when the text may grow.                                  *)
CountOne ==
  /\ call.at = "count" /\ Substr # -1
  /\ call' = [call EXCEPT !.count = Wrap(@ + 1), !.substr = Substr + Len(call.old)]
  /\ UNCHANGED <<str, arena, text>>

CountDone ==
  /\ call.at = "count" /\ Substr = -1
  /\ str' = IF str.buffer - call.len < Growth
            THEN Reallocated(str, Larger(Wrap(str.buffer + Growth), Wrap(str.buffer * 2)))
            ELSE str
  /\ call' = [call EXCEPT !.at = "replace", !.substr = 0]
  /\ UNCHANGED <<arena, text>>

(* Its second loop: the rest of the text moves, and new is written.         *)
ReplacedAt(p) ==
  LET moved == IF Diff < 0 THEN Moved(str, p, p - Diff, call.len - p + Diff)
               ELSE Moved(str, p + Diff, p, call.len - p)
  IN  null_terminate(Copied(moved, p, call.new), call.len + Diff)

AfterNewNot(p) == p                                        \* mutant
AfterNew(p) == p + Len(call.new)

ReplaceOne ==
  /\ call.at = "replace" /\ str # FAULT /\ Substr # -1
  /\ str' = ReplacedAt(Substr)
  /\ call' = [call EXCEPT !.len = Wrap(@ + Diff), !.substr = AfterNew(Substr)]
  /\ UNCHANGED <<arena, text>>

ReplaceDone ==
  /\ call.at = "replace" /\ str # FAULT /\ Substr = -1
  /\ str' = Forgotten(clean_up(str, call.len))
  /\ call' = Idle
  /\ text' = Substituted(call.new, call.old, text)
  /\ UNCHANGED arena

SubStep == CountOne \/ CountDone \/ ReplaceOne \/ ReplaceDone

Next == \/ New \/ Cat \/ Dup \/ Ndup \/ ClearText \/ Slice \/ Strip \/ Recase \/ SplitJoin
        \/ Sub \/ SubStep

(* A call that was made goes on.                                            *)
Spec == /\ Init /\ [][Next /\ UNCHANGED client]_vars
        /\ WF_vars(SubStep /\ UNCHANGED client)

-----------------------------------------------------------------------------
(* Can the length field hold every length the client uses?                  *)
LengthsFit == MaxLen < LenMod

(* The length fits the buffer, and the terminator is after the text.        *)
TypeOK ==
  /\ arena \in BOOLEAN
  /\ call.at \in {"idle", "count", "replace"}
  /\ LengthsFit /\ str # FAULT =>
       /\ str.buffer \in 0 .. LenMod - 1 /\ DOMAIN str.mem = 0 .. str.buffer
       /\ str.len \in 0 .. str.buffer
       /\ call = Idle => str.mem[str.len] = NUL

(* After every call the string is the text the client asked for: growth, in *)
(* place replacement and splitting lose and repeat no character, and no     *)
(* byte that was never written shows up in it.                              *)
TextIsRight ==
  LengthsFit /\ call = Idle =>
    str # FAULT /\ str.len = Len(text) /\ Bytes(str, 0, Strlen(str, 0)) = text

(* The string is the text, and its fields agree with it.                    *)
StringSafe == TypeOK /\ TextIsRight

(* A replacement of a text that is not empty returns, also when what is put *)
(* in contains what is replaced.                                            *)
CallsReturn == (LengthsFit /\ call # Idle /\ call.old # << >>) ~> call = Idle

(* Room is made for the result of an append or a replacement before it is   *)
(* written, as long as the sizes that are compared do not wrap; for every   *)
(* client, also one whose lengths do.                                       *)
RoomIsMade ==
  [][/\ \A t \in Texts : CatText(t) /\ str.len + Len(t) < LenMod => str' # FAULT
     /\ CountDone /\ str.buffer + call.count * Diff < LenMod
          => str' # FAULT /\ str'.buffer >= call.len + Growth]_vars
=============================================================================
