------------------------------ MODULE FactStore ------------------------------
(***************************************************************************)
(* What the commands of the infobot are meant to be: each one a single     *)
(* step on the table, decided by what the fact is at that moment.  One     *)
(* shard keeps this promise, although it reads and writes in two queries   *)
(* (FactsProofs); several do not.                                          *)
(***************************************************************************)
EXTENDS Sequences

CONSTANTS Keys, Statements

VARIABLE infobot

Nothing == [found |-> FALSE, locked |-> FALSE, value |-> <<>>]

Taught(value) == [found |-> TRUE, locked |-> FALSE, value |-> value]

Init == infobot = [k \in Keys |-> Nothing]

\* "x is y" teaches what nobody has taught.
Is(k, s) ==
    /\ ~infobot[k].found /\ ~infobot[k].locked
    /\ infobot' = [infobot EXCEPT ![k] = Taught(<<s>>)]

\* "x is also y" adds to the fact, or teaches it.
Also(k, s) ==
    /\ ~infobot[k].locked
    /\ infobot' = [infobot EXCEPT ![k] = Taught(Append(infobot[k].value, s))]

Forget(k) ==
    /\ infobot[k].found /\ ~infobot[k].locked
    /\ infobot' = [infobot EXCEPT ![k] = Nothing]

\* `sudo lock` and `sudo unlock`, on a fact that there is.
SetLock(k, locked) ==
    /\ infobot[k].found
    /\ infobot' = [infobot EXCEPT ![k].locked = locked]

Next ==
    \E k \in Keys :
        \/ \E s \in Statements : Is(k, s) \/ Also(k, s)
        \/ Forget(k)
        \/ SetLock(k, TRUE) \/ SetLock(k, FALSE)

Spec == Init /\ [][Next]_infobot
=============================================================================
