-------------------------------- MODULE Arguments --------------------------------
(***************************************************************************)
(* The arguments of a callback: an ArgList (arglist.h, arglist.cpp) of         *)
(* PBVParameters (pbvparameter.cpp), each a number or a text of its own, in   *)
(* places that are part of the list or, when these are full, in an array. The  *)
(* numbers and pointers of all types are alike; no text is longer than an      *)
(* int16_t can say; a list is neither added nor assigned to itself.           *)
(***************************************************************************)
EXTENDS Integers, Sequences, SequencesExt, FiniteSetsExt

CONSTANTS
  InPlace,    \* 6: parameters that are part of the list
  Increment,  \* 5: by which the array grows
  ArgNumbers,
  ArgTexts,
  NoText,     \* nullptr as const char *
  MaxArgs,    \* bound
  MaxTexts,   \* bound: texts in memory, lost ones included
  MaxOdd      \* bound: oddities in one history

ASSUME ArgsAssumption ==
  /\ InPlace \in Nat \ {0} /\ Increment \in Nat \ {0} /\ MaxArgs \in Nat /\ MaxTexts \in Nat /\ MaxOdd \in Nat
  /\ ArgNumbers \cap ArgTexts = {} /\ NoText \notin ArgNumbers \cup ArgTexts
  /\ {"unset", "stale", "none"} \cap (ArgNumbers \cup ArgTexts \cup {NoText}) = {}

VARIABLES
  args,  \* _set_args, the array _args points to if it is another one, _nArgs; the texts
         \* in memory by their address; harm, what has gone wrong; odd: see Oddities
  given  \* observer: what was put in

argsVars == <<args, given>>

(* "moved": the list grew while it held a text, whose pointer is then in two places;
   "forgot": init() was called on a list with texts; "overwritten": set() on a text;
   "itself": a parameter was assigned to itself, or added to its own list. *)
Oddities == {"moved", "forgot", "overwritten", "itself"}
(* "twice": memory was deleted that was not in use, "stale": it was read; "lost": it
   was not deleted. *)
Harmful == {"twice", "stale", "lost"}

Unset == [type |-> "UNKNOWN", at |-> 0]
IsText(p) == p.type = "CZSTRING" /\ p.at # 0

EmptyList ==
  [place |-> [i \in 1 .. InPlace |-> Unset], array |-> <<>>, n |-> 0,
   texts |-> [address \in {} |-> NoText], harm |-> {}, odd |-> {}]

ArgsInit == args = EmptyList /\ given = <<>>

-------------------------------------------------------------------------------
Used(l) == IF l.array = <<>> THEN l.place ELSE l.array
PutAt(l, i, p) == IF l.array = <<>> THEN [l EXCEPT !.place[i] = p] ELSE [l EXCEPT !.array[i] = p]

(* An address nothing points to, so that a pointer that is too old shows. *)
Fresh(l) ==
  LET taken == DOMAIN l.texts \cup {p.at : p \in ToSet(l.place) \cup ToSet(l.array)}
  IN CHOOSE address \in 1 .. Cardinality(taken) + 1 : address \notin taken

Delete(l, p) ==
  IF ~IsText(p) THEN l
  ELSE IF p.at \notin DOMAIN l.texts THEN [l EXCEPT !.harm = @ \cup {"twice"}]
  ELSE [l EXCEPT !.texts = Restrict(@, DOMAIN @ \ {p.at})]

(* clear() of the parameter *)
ClearParam(l, i) == PutAt(Delete(l, Used(l)[i]), i, Unset)

(* initialize() and set(): what the parameter was is not looked at. *)
SetParam(l, i, v) ==
  IF v \in ArgNumbers THEN PutAt(l, i, [type |-> "CZLONG", at |-> v])
  ELSE IF v = "unset" THEN PutAt(l, i, Unset)
  ELSE IF v = "stale" THEN [l EXCEPT !.harm = @ \cup {"stale"}]
  ELSE IF v = NoText THEN PutAt(l, i, [type |-> "CZSTRING", at |-> 0])
  ELSE LET copy == Fresh(l)
           texts == [address \in DOMAIN l.texts \cup {copy} |-> IF address = copy THEN v ELSE l.texts[address]]
       IN PutAt([l EXCEPT !.texts = texts], i, [type |-> "CZSTRING", at |-> copy])

AssignParam(l, i, v) == SetParam(ClearParam(l, i), i, v)

(* increase() copies the parameters as bytes; deleting the array it had destroys the
   first of them. *)
IncreaseArgs(l) ==
  LET old == Used(l)
      destroyed == IF l.array = <<>> THEN l ELSE Delete(l, old[1])
      moved == \E p \in IF l.array = <<>> THEN ToSet(old) ELSE {old[1]} : IsText(p)
  IN [destroyed EXCEPT
        !.array = [i \in 1 .. Len(old) + Increment |-> IF i <= l.n THEN old[i] ELSE Unset],
        !.odd = @ \cup IF moved THEN {"moved"} ELSE {}]

WithRoom(l) == IF l.n < Len(Used(l)) THEN l ELSE IncreaseArgs(l)

(* operator<< of a value; addArg() of a PBVParameter, that operator= copies *)
Push(l, v) == LET m == WithRoom(l) IN [SetParam(m, m.n + 1, v) EXCEPT !.n = @ + 1]
AddArg(l, v) == LET m == WithRoom(l) IN [AssignParam(m, m.n + 1, v) EXCEPT !.n = @ + 1]
AddArgs(l, vs) == FoldLeft(AddArg, l, vs)

(* Mistake: the texts are left in memory. *)
ClearCountsOnly(l) == [l EXCEPT !.array = <<>>, !.n = 0]

(* clear() of the list: the texts' types are reset, their pointers stay. *)
ClearArgs(l) ==
  LET cleared == FoldLeft(Delete, l, SubSeq(Used(l), 1, l.n))
      Reset(p) == IF p.type = "CZSTRING" THEN [p EXCEPT !.type = "UNKNOWN"] ELSE p
  IN [cleared EXCEPT
        !.place = IF l.array = <<>>
                  THEN [i \in DOMAIN @ |-> IF i <= l.n THEN Reset(@[i]) ELSE @[i]] ELSE @,
        !.array = <<>>, !.n = 0]

(* The destructor of the list, and those of its own parameters. *)
DestroyedArgs(l) == LET m == ClearArgs(l) IN FoldLeft(Delete, m, Reverse(m.place))

(* asLong(), asVoid() and the like, that answer -1 or nullptr if there is none. *)
Answer(l, i) ==
  IF i \notin 1 .. l.n THEN "none"
  ELSE LET p == Used(l)[i]
       IN IF p.type = "CZLONG" THEN p.at
          ELSE IF p.type = "UNKNOWN" THEN "unset"
          ELSE IF p.at = 0 THEN NoText
          ELSE IF p.at \in DOMAIN l.texts THEN l.texts[p.at] ELSE "stale"

Answers(l) == [i \in 1 .. l.n |-> Answer(l, i)]

-------------------------------------------------------------------------------
(* operator<< *)
PushArg(v) == args' = Push(args, v) /\ given' = Append(given, v)
(* addArg() of a parameter that was made of a value by one of its constructors. *)
AddParam(v) == args' = AddArg(args, v) /\ given' = Append(given, v)
(* addArg() of another list *)
AddList(vs) == args' = AddArgs(args, vs) /\ given' = given \o vs

(* addArg(getArg(i)): the parameter is gone with the array it is in. *)
AddOwn(i) ==
  /\ args' = IF args.array # <<>> /\ args.n = Len(args.array)
             THEN [args EXCEPT !.harm = {"stale"}, !.odd = @ \cup {"itself"}]
             ELSE AddArg(args, Answer(args, i))
  /\ given' = Append(given, given[i])

(* set() and operator= of what getArg() gives. *)
SetOwn(i, v) ==
  /\ args' = [SetParam(args, i, v) EXCEPT
                !.odd = @ \cup IF IsText(Used(args)[i]) THEN {"overwritten"} ELSE {}]
  /\ given' = [given EXCEPT ![i] = v]

(* operator= clears first, and the parameter itself if it is the same. *)
AssignOwn(i, j) ==
  /\ args' = IF i = j THEN [ClearParam(args, i) EXCEPT !.odd = @ \cup {"itself"}]
             ELSE AssignParam(args, i, Answer(args, j))
  /\ given' = [given EXCEPT ![i] = given[j]]

EmptyArgs == args' = ClearArgs(args) /\ given' = <<>>

(* init() *)
Forget ==
  LET texts == \E i \in 1 .. args.n : IsText(Used(args)[i])
  IN /\ args' = [args EXCEPT
                   !.array = <<>>, !.n = 0,
                   !.harm = IF args.array = <<>> THEN {} ELSE {"lost"},
                   !.odd = @ \cup IF args.array # <<>> \/ texts THEN {"forgot"} ELSE {}]
     /\ given' = <<>>

(* The list is destroyed and there is another one, empty or its copy. *)
Replaced(vs) ==
  LET gone == DestroyedArgs(args)
      harm == gone.harm \cup IF DOMAIN gone.texts = {} THEN {} ELSE {"lost"}
  IN args' = IF harm = {} THEN AddArgs(EmptyList, vs)
             ELSE [EmptyList EXCEPT !.harm = harm, !.odd = gone.odd]
NewArgs == Replaced(<<>>) /\ given' = <<>>
CopyArgs == Replaced(Answers(args)) /\ given' = Answers(args)

ArgsNext ==
  /\ args.harm = {}
  /\ Cardinality(DOMAIN args.texts) <= MaxTexts /\ Cardinality(args.odd) <= MaxOdd
  /\ \/ /\ args.n < MaxArgs
        /\ \/ \E v \in ArgNumbers \cup ArgTexts \cup {NoText} : PushArg(v)
           \/ \E v \in ArgNumbers \cup ArgTexts : AddParam(v)
           \/ \E i \in 1 .. args.n : AddOwn(i)
     \/ /\ args.n + 2 <= MaxArgs
        /\ \E v, w \in ArgNumbers \cup ArgTexts : AddList(<<v, w>>)
     \/ \E i \in 1 .. args.n, v \in ArgNumbers \cup ArgTexts : SetOwn(i, v)
     \/ \E i, j \in 1 .. args.n : AssignOwn(i, j)
     \/ EmptyArgs \/ Forget \/ NewArgs \/ CopyArgs

-------------------------------------------------------------------------------
(***************************************************************************)
(* A callback is given the arguments that were put in, in their order, and     *)
(* each text is deleted once, whatever is added, copied, cleared and assigned; *)
(* unless the list had to grow while it held a text (then it is deleted twice), *)
(* init() or set() found one (it may be lost), or a parameter met itself.      *)
(***************************************************************************)
ArgumentsRight ==
  /\ args.odd = {} => args.harm = {} /\ Answers(args) = given
  /\ "twice" \in args.harm => "moved" \in args.odd
  /\ "stale" \in args.harm => {"moved", "itself"} \cap args.odd # {}
  /\ "lost" \in args.harm => {"forgot", "overwritten"} \cap args.odd # {}
===============================================================================
