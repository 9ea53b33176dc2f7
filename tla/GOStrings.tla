-------------------------------- MODULE GOStrings --------------------------------
(***************************************************************************)
(* A GOString (gostring.cpp): characters in memory of its own, a length, and   *)
(* watchers of its value.  Conversions of numbers are formats to be printed.   *)
(* Without USE_WIDE_CHARS.                                                  *)
(***************************************************************************)
EXTENDS Integers, Sequences, SequencesExt

CONSTANTS
  Chars,
  NUL,
  Texts,      \* what is assigned, appended, inserted or printed
  PrintSize,  \* 256: by which an empty string grows to be printed to
  MaxText     \* bound

ASSUME StringAssumption ==
  /\ NUL \notin Chars /\ Texts \subseteq Seq(Chars) /\ PrintSize \in Nat \ {0} /\ MaxText \in Nat

VARIABLES
  str,       \* what _str points to, <<>> if nullptr
  sz,        \* _sz
  strSeen,   \* the text a watcher was shown last
  ideal,     \* observer: the text there should be
  strOdd     \* observer: what happened that the string gets wrong

strVars == <<str, sz, strSeen, ideal, strOdd>>

(* "null": nullptr was used, "overlap": memcpy() in one piece of memory, "beyond":
   behind it; "stale": shift() kept the length; "untold": watchers were not called;
   "cut": a printed text lost its last character; "reused": its arguments were read
   again; "unset": resize() has made room for characters. *)
Undefined == {"null", "overlap", "beyond", "reused"}

Text(mem) ==
  LET end == SelectInSeq(mem, LAMBDA c : c = NUL)
  IN IF end = 0 THEN mem ELSE SubSeq(mem, 1, end - 1)

StringInit == str = <<>> /\ sz = 0 /\ strSeen = <<>> /\ ideal = <<>> /\ strOdd = {}

-------------------------------------------------------------------------------
(* trigger() is called at the end of what changes the text... *)
Becomes(mem, n, wanted, odd) ==
  /\ str' = mem /\ sz' = n /\ strSeen' = Text(mem)
  /\ ideal' = wanted /\ strOdd' = odd
(* ... but for some. *)
Silently(mem, n, odd) ==
  str' = mem /\ sz' = n /\ ideal' = <<>> /\ strOdd' = odd /\ UNCHANGED strSeen
Undefines(what) == strOdd' = {what} /\ UNCHANGED <<str, sz, strSeen, ideal>>

From(n, mem) == SubSeq(mem, n + 1, Len(mem))
Upto(n, mem) == SubSeq(mem, 1, n)

AssignText(s) == Becomes(s \o <<NUL>>, Len(s), s, {})
AssignNull == Becomes(<<>>, 0, <<>>, {})

AppendText(s) ==
  /\ s # <<>> /\ sz + Len(s) <= MaxText
  /\ Becomes(Upto(sz, str) \o s \o <<NUL>>, sz + Len(s), ideal \o s, {})

(* insert() of a text or of a character; at -1 it appends. *)
InsertText(pos, s) ==
  /\ pos <= sz /\ s # <<>> /\ sz + Len(s) <= MaxText
  /\ IF str = <<>>
     THEN Undefines("null")
     ELSE Becomes(Upto(pos, str) \o s \o From(pos, Upto(sz + 1, str)), sz + Len(s),
                  Upto(pos, ideal) \o s \o From(pos, ideal), {})

Move(to, from, n) ==
  [i \in DOMAIN str |-> IF i \in to + 1 .. to + n THEN str[i - to + from] ELSE str[i]]
Moves(to, from, n, wanted) ==
  IF from < to
  THEN Undefines("beyond")
  ELSE Becomes(Move(to, from, n), sz - (from - to), wanted,
               IF from # to /\ from - to < n THEN {"overlap"} ELSE {})

(* Mistake: the end of the text stays where it is. *)
ChopUnended(p1, p2) ==
  /\ p1 <= sz /\ p2 <= sz /\ str # <<>> /\ str[1] # NUL
  /\ CASE p1 = -1 /\ p2 = -1 -> Becomes(str, sz - 1, Upto(sz - 1, ideal), {})
       [] p1 # -1 /\ p2 = -1 -> Becomes(str, p1, Upto(p1, ideal), {})
       [] p1 = -1 /\ p2 # -1 -> Moves(0, p2, sz - p2, From(p2, ideal))
       [] OTHER -> Moves(p1, p2, sz - p2, Upto(p1, ideal) \o From(p2, ideal))

(* -1 stands for the end of p2, and for the start if it is p1. *)
Chop(p1, p2) ==
  /\ p1 <= sz /\ p2 <= sz
  /\ IF str = <<>>
     THEN Undefines("null")
     ELSE /\ str[1] # NUL
          /\ CASE p1 = -1 /\ p2 = -1 ->
                    Becomes([str EXCEPT ![sz] = NUL], sz - 1, Upto(sz - 1, ideal), {})
               [] p1 # -1 /\ p2 = -1 -> Becomes([str EXCEPT ![p1 + 1] = NUL], p1, Upto(p1, ideal), {})
               [] p1 = -1 /\ p2 # -1 -> Moves(0, p2, sz - p2 + 1, From(p2, ideal))
               [] OTHER -> Moves(p1, p2, sz - p2 + 1, Upto(p1, ideal) \o From(p2, ideal))

Shift(n) ==
  IF str = <<>>
  THEN Undefines("null")
  ELSE IF n > sz
  THEN Silently([str EXCEPT ![1] = NUL], 0, {"untold"})
  ELSE LET rest == Text(From(n, str))
       IN Becomes(rest \o <<NUL>> \o From(Len(rest) + 1, str), sz, From(n, ideal),
                  IF n > 0 THEN {"stale"} ELSE {})

Resize(n) ==
  \E c \in Chars :
    Silently(<<NUL>> \o IF n = 0 THEN <<>> ELSE [i \in 1 .. n |-> IF i = n THEN NUL ELSE c], n,
             IF n = 0 THEN {"untold"} ELSE {"unset"})

(* empty() *)
Cleanup == Silently(<<>>, 0, {"untold"})

(* vsprint() prints again, when it knows how long the text is, and each time into
   one character less than there is room for; args: what is printed has any. *)
PrintRoom == IF sz = 0 THEN PrintSize ELSE sz
Sprint(s, args) ==
  IF Len(s) > PrintRoom /\ args
  THEN Undefines("reused")
  ELSE IF Len(s) >= PrintRoom
  THEN Becomes(Front(s) \o <<NUL>>, Len(s), s, {"cut"})
  ELSE Becomes(s \o <<NUL>>, Len(s), s, {})

(* Bound: what is wrong is set right by an assignment before anything else. *)
StringNext ==
  \/ /\ strOdd \cap Undefined = {}
     /\ AssignNull \/ \E s \in Texts : AssignText(s)
  \/ /\ strOdd = {}
     /\ \/ \E s \in Texts :
             \/ AppendText(s)
             \/ \E pos \in 0 .. MaxText : InsertText(pos, s)
             \/ \E args \in BOOLEAN : Sprint(s, args)
        \/ \E p1, p2 \in -1 .. MaxText : Chop(p1, p2)
        \/ \E n \in 0 .. MaxText : Shift(n) \/ Resize(n)
        \/ Cleanup

(***************************************************************************)
(* Whatever was assigned, appended, inserted, chopped and printed, the text is  *)
(* what it should be, _sz is its length and a watcher has seen it, unless one   *)
(* of the operations above went wrong since the last assignment.             *)
(***************************************************************************)
StringRight ==
  strOdd = {} => sz = Len(ideal) /\ Text(str) = ideal /\ strSeen = ideal
===============================================================================
