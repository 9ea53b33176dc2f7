-------------------------------- MODULE MCMsgCB --------------------------------
(* The instances of MsgCB that TLC checks. *)
EXTENDS MsgCB

CONSTANTS t1, t2, t3, c1, c2, c3, d1, d2

MCCallbacks == {c1, c2, c3}
MCDest == c1 :> d1 @@ c2 :> d2 @@ c3 :> d1

(* One thread notifies, blocks and installs; the others change the list. *)
Notifier == [install |-> {t1, t2}, remove |-> {t1, t3},
             invoke |-> {t1}, block |-> {t1}, nested |-> 1, inside |-> FALSE]

(* Two threads notify; one of them blocks, twice over. *)
Mixed == [install |-> {t2}, remove |-> {t1, t2},
          invoke |-> {t1, t2}, block |-> {t1}, nested |-> 2, inside |-> FALSE]

(* The callbacks of one thread block, too. *)
Reentrant == [Mixed EXCEPT !.invoke = {t1}, !.inside = TRUE]

MCRoles == {Notifier, Mixed, Reentrant}

(* One thread alone, which nests its blocks. *)
Nesting == [install |-> {t1}, remove |-> {}, invoke |-> {t1}, block |-> {t1},
            nested |-> 2, inside |-> FALSE]

NestingRoles == {Nesting}
===============================================================================
