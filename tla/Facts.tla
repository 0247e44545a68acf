------------------------------- MODULE Facts --------------------------------
(***************************************************************************)
(* The infobot: teaching it facts and asking for them                      *)
(* (src/modules/infobot), and the owner's `sudo lock` and `sudo unlock`    *)
(* (src/modules/diagnostics).                                              *)
(*                                                                         *)
(* One table serves every guild, so two shards may work on one key.  A     *)
(* command reads the fact with get_def(), decides, and writes with one     *)
(* set_def() or del_def(); nothing holds the row in between.  A value is   *)
(* the sequence of statements joined in it.  The text of statements and    *)
(* replies, and the matching of the command, are left out: a message that  *)
(* the channel's settings keep from the bot is one that is not said.       *)
(***************************************************************************)
EXTENDS Integers, Sequences, Functions, FiniteSetsExt

CONSTANTS
    Threads,     \* the shards: each runs its guilds' commands and the owner's
    Keys,
    Statements,  \* what users teach
    Piped,       \* the statements that begin with "|"
    Aliases,     \* the statements that say <alias> and a key
    AliasOf,     \* AliasOf[s]: the key that alias s names
    MaxLength    \* BOUND: statements joined in one value

(* "x is y", "x is also y" and "bot forget x".  "no bot, x is y" is never
   recognised: the bot's name is put in front of every message before it is
   looked for. *)
Ops     == {"is", "also", "forget"}

Fact    == [found : BOOLEAN, locked : BOOLEAN, value : Seq(Statements)]
Command == [op : Ops, key : Keys, statement : Statements]

\* What get_def() returns when there is no row.
NoFact == [found |-> FALSE, locked |-> FALSE, value |-> <<>>]

ASSUME FactsAssumption ==
    /\ Keys # {} /\ Statements # {}
    /\ Piped \subseteq Statements
    /\ AliasOf \in [Aliases -> Keys]

VARIABLES
    infobot,  \* the table
    pc,       \* of each thread
    cmd,      \* the command it works on
    reply,    \* the infodef that get_def() gave it, while it is in scope
    lookups   \* history: get_def() calls of the question it answers

vars == <<infobot, pc, cmd, reply, lookups>>

TypeOK ==
    /\ infobot \in [Keys -> Fact]
    /\ pc \in [Threads -> {"idle", "set", "del", "alias", "pick"}]
    /\ cmd \in [Threads -> Command]
    /\ reply \in [Threads -> Fact]
    /\ lookups \in [Threads -> Nat]

AnyCommand == CHOOSE c \in Command : TRUE

Init ==
    /\ infobot = [k \in Keys |-> NoFact]
    /\ pc = [t \in Threads |-> "idle"]
    /\ cmd = [t \in Threads |-> AnyCommand]
    /\ reply = [t \in Threads |-> NoFact]
    /\ lookups = [t \in Threads |-> 0]

Goto(t, step) == pc' = [pc EXCEPT ![t] = step]

\* The end of infobot_response(), and Output() or silence.
Return(t) ==
    /\ Goto(t, "idle")
    /\ cmd' = [cmd EXCEPT ![t] = AnyCommand]
    /\ reply' = [reply EXCEPT ![t] = NoFact]
    /\ lookups' = [lookups EXCEPT ![t] = 0]

\* get_def() found d.
Continue(t, d, step) ==
    /\ Goto(t, step)
    /\ reply' = [reply EXCEPT ![t] = d]
    /\ lookups' = [lookups EXCEPT ![t] = @ + 1]
-----------------------------------------------------------------------------
(* Teaching. *)

\* Mutant: only "forget" looks at the lock.
Writes_LockedEdit(op, d) ==
    /\ op = "forget" => d.found /\ ~d.locked
    /\ op = "is" => ~d.found

\* Mutant: a fact that is there is replaced by "x is y".
Writes_Overwrite(op, d) ==
    /\ ~d.locked
    /\ op = "forget" => d.found

\* The branches of infobot_response() that lead to set_def() or del_def().
Writes(op, d) ==
    /\ ~d.locked
    /\ op = "forget" => d.found
    /\ op = "is" => ~d.found

\* A message that the bot may learn from, or that mentions it, and its
\* get_def().  What does not lead to a write is only replied to.
Said(t, c) ==
    LET d == infobot[c.key] IN
    /\ pc[t] = "idle"
    /\ Writes(c.op, d)
    /\ c.op = "also" => Len(d.value) < MaxLength
    /\ cmd' = [cmd EXCEPT ![t] = c]
    /\ Continue(t, d, IF c.op = "forget" THEN "del" ELSE "set")
    /\ UNCHANGED infobot

\* Mutant: matches[0] is joined for matches[1], so that "also" is learned too.
NewValue_WholeMatch(t) ==
    IF cmd[t].op = "also" THEN Append(reply[t].value, <<"also", cmd[t].statement>>)
    ELSE <<cmd[t].statement>>

\* "also" joins what get_def() returned, with "or" or with a "|" of its own.
NewValue(t) ==
    IF cmd[t].op = "also" THEN Append(reply[t].value, cmd[t].statement)
    ELSE <<cmd[t].statement>>

\* INSERT ... ON DUPLICATE KEY UPDATE, always with locked = false.
SetDef(t) ==
    /\ pc[t] = "set"
    /\ infobot' = [infobot EXCEPT ![cmd[t].key] =
                     [found |-> TRUE, locked |-> FALSE, value |-> NewValue(t)]]
    /\ Return(t)

DelDef(t) ==
    /\ pc[t] = "del"
    /\ infobot' = [infobot EXCEPT ![cmd[t].key] = NoFact]
    /\ Return(t)

(* The owner's commands are one UPDATE each, on the rows there are. *)
Lock(t, k) ==
    /\ pc[t] = "idle"
    /\ infobot' = [infobot EXCEPT ![k].locked = infobot[k].found]
    /\ UNCHANGED <<pc, cmd, reply, lookups>>

Unlock(t, k) ==
    /\ pc[t] = "idle"
    /\ infobot' = [infobot EXCEPT ![k].locked = FALSE]
    /\ UNCHANGED <<pc, cmd, reply, lookups>>
-----------------------------------------------------------------------------
(* Asking. *)

HasAlias(value) == Range(value) \cap Aliases # {}

\* get_def() for a question: what it does not find is only replied to.
Ask(t, k) ==
    LET d == infobot[k] IN
    /\ pc[t] = "idle" /\ d.found
    /\ Continue(t, d, IF HasAlias(d.value) THEN "alias" ELSE "pick")
    /\ UNCHANGED <<infobot, cmd>>

\* What follows the first <alias>, to the end of the value, is the key that
\* get_def() looks for; with more statements behind it there is no such key.
Target(value) ==
    IF \A i \in 1..(Len(value) - 1) : value[i] \notin Aliases
    THEN infobot[AliasOf[value[Len(value)]]] ELSE NoFact

\* Mutant: the loop repeats for an alias too.
FollowAlias_Loops(t) ==
    LET r == Target(reply[t].value) IN
    /\ pc[t] = "alias"
    /\ IF r.found THEN Continue(t, r, IF HasAlias(r.value) THEN "alias" ELSE "pick") /\ UNCHANGED cmd
       ELSE Return(t)
    /\ UNCHANGED infobot

\* A broken alias ends the answer; an alias of an alias is answered as it stands.
FollowAlias(t) ==
    LET r == Target(reply[t].value) IN
    /\ pc[t] = "alias"
    /\ IF r.found THEN Continue(t, r, "pick") /\ UNCHANGED cmd ELSE Return(t)
    /\ UNCHANGED infobot

Bars(value) == {i \in 1..Len(value) : value[i] \in Piped}

\* Mutant: the token takes the delimiter and what follows with it.
TokenBefore_Inclusive(value, i) ==
    SubSeq(value, Max({1} \cup {j \in Bars(value) : j < i}), i)

\* getreply()'s token in front of the delimiter at i.
TokenBefore(value, i) ==
    SubSeq(value, Max({1} \cup {j \in Bars(value) : j < i}), i - 1)

\* What follows the last delimiter is no token: it is never picked.
Picks(value) ==
    IF Bars(value) = {} THEN {value} ELSE {TokenBefore(value, i) : i \in Bars(value)}

Answer(t) ==
    /\ pc[t] = "pick"
    /\ \E choice \in Picks(reply[t].value) : Return(t)
    /\ UNCHANGED infobot

\* The process dies: the table stays, the commands are lost.
Restart ==
    /\ pc' = [t \in Threads |-> "idle"]
    /\ cmd' = [t \in Threads |-> AnyCommand]
    /\ reply' = [t \in Threads |-> NoFact]
    /\ lookups' = [t \in Threads |-> 0]
    /\ UNCHANGED infobot

Next ==
    \/ \E t \in Threads :
         \/ \E c \in Command : Said(t, c)
         \/ SetDef(t) \/ DelDef(t)
         \/ FollowAlias(t) \/ Answer(t)
         \/ \E k \in Keys : Ask(t, k) \/ Lock(t, k) \/ Unlock(t, k)
    \/ Restart

Spec == Init /\ [][Next]_vars
-----------------------------------------------------------------------------
(* A thread has read k and is going to write it. *)
Writing(t, k) == pc[t] \in {"set", "del"} /\ cmd[t].key = k

Quiet(k) == \A t \in Threads : ~Writing(t, k)

(* A locked fact is neither deleted nor edited ("Fact is locked, don't delete
   it"): it leaves the locked state only by `sudo unlock`, as it was.  True
   with one shard; with two, a lock may fall between get_def() and the write. *)
LockedFactsStay ==
    [][\A k \in Keys : infobot[k].locked =>
         infobot'[k].found /\ infobot'[k].value = infobot[k].value]_vars

(* Once the commands that read a fact before it was locked are over, its lock
   holds on every shard: the fact stays as it is and no command comes to write
   it, until `sudo unlock`.  So an owner who locks again is safe. *)
LockHoldsWhenQuiet ==
    [][\A k \in Keys :
         infobot[k].locked /\ Quiet(k) =>
            /\ infobot'[k].found /\ infobot'[k].value = infobot[k].value
            /\ Quiet(k)']_vars

(* A command that saw a statement in a fact takes it away only as "forget":
   "is" does not overwrite and "also" adds.  What another shard added between
   a command's get_def() and its set_def() may be lost, and nothing else. *)
NothingLostUnasked ==
    [][\A k \in Keys : \A x \in Range(infobot[k].value) \ Range(infobot'[k].value) :
         \E t \in Threads :
            /\ Writing(t, k)
            /\ cmd[t].op = "forget" \/ x \notin Range(reply[t].value)]_vars

(* "Prevent alias loops": whatever aliases name each other, and are edited
   while one is followed, a question costs at most two get_def() calls. *)
AliasFollowedOnce == \A t \in Threads : lookups[t] <= 2

(* What lies between two bars, or a bar and an end, of a value. *)
Alternatives(value) ==
    LET Whole(p) ==
          /\ p[1] - 1 <= p[2]
          /\ p[1] = 1 \/ p[1] \in Bars(value)
          /\ p[2] = Len(value) \/ p[2] + 1 \in Bars(value)
          /\ (p[1] + 1)..p[2] \cap Bars(value) = {}
    IN {SubSeq(value, p[1], p[2]) : p \in {q \in (1..Len(value)) \X (0..Len(value)) : Whole(q)}}

(* "Separate multiple responses with a pipe symbol and the bot will pick one"
   (src/help/advanced.json): an answer is one whole alternative, also of a
   fact put together by several shards' "also".  Which one is not stated: the
   last of several is never picked. *)
AnswerIsAnAlternative ==
    \A t \in Threads : pc[t] = "pick" =>
        /\ Picks(reply[t].value) # {}
        /\ Picks(reply[t].value) \subseteq Alternatives(reply[t].value)
=============================================================================
