----------------------------- MODULE WebRequests -----------------------------
(***************************************************************************)
(* Running scripts and their web requests (src/modules/js/js.cpp).         *)
(*                                                                         *)
(* A shard thread runs the script of the channel a message came from; the  *)
(* watcher thread runs the callback of an answered request; both inside    *)
(* JS::run(), under jsmutex.  A running script may post messages and may   *)
(* insert one row into infobot_web_requests.  The worker process           *)
(* (src/do-web-requests.php) answers the rows, the watcher deletes them.   *)
(* The table outlives the process, the rest does not.                      *)
(***************************************************************************)
EXTENDS Integers

CONSTANTS
    Shards,       \* threads that deliver messages
    Watcher,      \* the thread in JS::WebRequestWatch()
    Channels,     \* channels with a script
    GuildOf,      \* GuildOf[c]: the guild of channel c
    MaxRequests,  \* BOUND: requests ever made
    message_limit,
    Free          \* jsmutex is not held

Runners == Shards \cup {Watcher}
Guilds  == {GuildOf[c] : c \in Channels}
Ids     == 1..MaxRequests
Row     == [id : Ids, channel : Channels, status : {"000", "answered"}]

ASSUME WebRequestsAssumption ==
    /\ Channels # {}
    /\ Watcher \notin Shards
    /\ Free \notin Shards \cup {Watcher}
    /\ MaxRequests \in Nat /\ message_limit \in Nat

VARIABLES
    rows,         \* infobot_web_requests
    nextId,       \* names the next row, so that two rows differ
    fetched,      \* what do-web-requests.php has left of its SELECT
    known,        \* guilds in the D++ cache: find_channel(), find_guild()
    c_apis_suck,  \* set by the first run(), NULL before it
    jsmutex,      \* JS::jsmutex: its holder or Free
    message_total,\* messages posted by the current run
    pc, channel,  \* of each runner: where it is, and the channel it runs
    results,      \* what the watcher has left of its SELECT
    called,       \* called[id]: callbacks run for id by this process
    posted        \* posted[r]: messages r's run really posted

table   == <<rows, nextId, fetched>>
vars    == <<table, known, c_apis_suck, jsmutex, message_total, pc, channel, results,
             called, posted>>

Steps == {"idle", "lock", "script", "insert", "row", "delete"}

TypeOK ==
    /\ rows \in SUBSET Row
    /\ nextId \in 1..(MaxRequests + 1)
    /\ fetched \in SUBSET Row
    /\ known \in SUBSET Guilds
    /\ c_apis_suck \in BOOLEAN
    /\ jsmutex \in Runners \cup {Free}
    /\ message_total \in 0..message_limit
    /\ pc \in [Runners -> Steps]
    /\ channel \in [Runners -> Channels]
    /\ results \in SUBSET Row
    /\ called \in [Ids -> Nat]
    /\ posted \in [Runners -> Nat]

AnyChannel == CHOOSE c \in Channels : TRUE

Init ==
    /\ rows = {}
    /\ nextId = 1
    /\ fetched = {}
    /\ known = {}
    /\ c_apis_suck = FALSE
    /\ jsmutex = Free
    /\ message_total = 0
    /\ pc = [r \in Runners |-> "idle"]
    /\ channel = [r \in Runners |-> AnyChannel]
    /\ results = {}
    /\ called = [i \in Ids |-> 0]
    /\ posted = [r \in Runners |-> 0]

(* The process ends and run.sh starts another, which finds the table as it was. *)
Restart ==
    /\ known' = {}
    /\ c_apis_suck' = FALSE
    /\ jsmutex' = Free
    /\ message_total' = 0
    /\ pc' = [r \in Runners |-> "idle"]
    /\ channel' = [r \in Runners |-> AnyChannel]
    /\ results' = {}
    /\ called' = [i \in Ids |-> 0]
    /\ posted' = [r \in Runners |-> 0]
    /\ UNCHANGED table

Goto(r, step) == pc' = [pc EXCEPT ![r] = step]
RowsOf(g) == {row \in rows : GuildOf[row.channel] = g}
-----------------------------------------------------------------------------
(* The D++ cache. *)

GuildCreate(g) ==
    /\ known' = known \cup {g}
    /\ UNCHANGED <<table, c_apis_suck, jsmutex, message_total, pc, channel, results,
                   called, posted>>

GuildDelete(g) ==
    /\ known' = known \ {g}
    /\ UNCHANGED <<table, c_apis_suck, jsmutex, message_total, pc, channel, results,
                   called, posted>>
-----------------------------------------------------------------------------
(* JS::run() in runner r. *)

\* JSModule::OnMessage() on a shard: the channel has a script.
OnMessage(t, c) ==
    /\ pc[t] = "idle" /\ GuildOf[c] \in known
    /\ Goto(t, "lock")
    /\ channel' = [channel EXCEPT ![t] = c]
    /\ UNCHANGED <<table, known, c_apis_suck, jsmutex, message_total, results, called, posted>>

\* The watcher puts the callback of its row in front of the script.
CallBack(r) ==
    called' = [i \in Ids |->
                 IF r = Watcher /\ \E row \in results : row.id = i /\ row.channel = channel[r]
                 THEN called[i] + 1 ELSE called[i]]

\* Mutant: run() takes no lock.
RunBegin_NoLock(r) ==
    /\ pc[r] = "lock" /\ GuildOf[channel[r]] \in known
    /\ jsmutex' = r
    /\ c_apis_suck' = TRUE
    /\ message_total' = 0
    /\ posted' = [posted EXCEPT ![r] = 0]
    /\ CallBack(r)
    /\ Goto(r, "script")
    /\ UNCHANGED <<table, known, channel, results>>

\* The script, or the callback before it, starts.
RunBegin(r) ==
    /\ pc[r] = "lock" /\ jsmutex = Free
    /\ GuildOf[channel[r]] \in known
    /\ jsmutex' = r
    /\ c_apis_suck' = TRUE
    /\ message_total' = 0
    /\ posted' = [posted EXCEPT ![r] = 0]
    /\ CallBack(r)
    /\ Goto(r, "script")
    /\ UNCHANGED <<table, known, channel, results>>

Leave(r) == Goto(r, IF r = Watcher THEN "delete" ELSE "idle")

\* "Can't find channel", "Can't find guild".
RunRefused(r) ==
    /\ pc[r] = "lock" /\ jsmutex = Free
    /\ GuildOf[channel[r]] \notin known
    /\ Leave(r)
    /\ UNCHANGED <<table, known, c_apis_suck, jsmutex, message_total, channel, results,
                   called, posted>>

\* Mutant: the limit is compared with > instead of >=.
CreateMessage_OffByOne(r) ==
    /\ pc[r] = "script"
    /\ message_total <= message_limit
    /\ message_total' = message_total + 1
    /\ posted' = [posted EXCEPT ![r] = @ + 1]
    /\ UNCHANGED <<table, known, c_apis_suck, jsmutex, pc, channel, results, called>>

CreateMessage(r) ==
    /\ pc[r] = "script"
    /\ message_total < message_limit
    /\ message_total' = message_total + 1
    /\ posted' = [posted EXCEPT ![r] = @ + 1]
    /\ UNCHANGED <<table, known, c_apis_suck, jsmutex, pc, channel, results, called>>

\* do_web_request() counts the rows of the guild.
CountRequests(r) ==
    /\ pc[r] = "script"
    /\ RowsOf(GuildOf[channel[r]]) = {}
    /\ nextId <= MaxRequests
    /\ Goto(r, "insert")
    /\ UNCHANGED <<table, known, c_apis_suck, jsmutex, message_total, channel, results,
                   called, posted>>

InsertRequest(r) ==
    /\ pc[r] = "insert"
    /\ rows' = rows \cup {[id |-> nextId, channel |-> channel[r], status |-> "000"]}
    /\ nextId' = nextId + 1
    /\ Goto(r, "script")
    /\ UNCHANGED <<fetched, known, c_apis_suck, jsmutex, message_total, channel, results,
                   called, posted>>

\* Normal end, JavaScript error or exit(): the lock_guard releases the mutex.
RunEnd(r) ==
    /\ pc[r] = "script"
    /\ jsmutex' = Free
    /\ Leave(r)
    /\ UNCHANGED <<table, known, c_apis_suck, message_total, channel, results, called, posted>>

\* sandbox_fatal() throws through the watcher, which catches nothing.
Fatal == pc[Watcher] = "script" /\ Restart
-----------------------------------------------------------------------------
(* JS::WebRequestWatch(). *)

\* Mutant: the poll takes every row.
Poll_Unanswered ==
    /\ pc[Watcher] = "idle"
    /\ results' = rows
    /\ Goto(Watcher, "row")
    /\ UNCHANGED <<table, known, c_apis_suck, jsmutex, message_total, channel, called, posted>>

Poll ==
    /\ pc[Watcher] = "idle"
    /\ results' = {row \in rows : row.status # "000"}
    /\ Goto(Watcher, "row")
    /\ UNCHANGED <<table, known, c_apis_suck, jsmutex, message_total, channel, called, posted>>

\* c_apis_suck->log(): before the first run() of this process it is NULL.
NextResult ==
    /\ pc[Watcher] = "row" /\ c_apis_suck
    /\ \E row \in results : channel' = [channel EXCEPT ![Watcher] = row.channel]
    /\ Goto(Watcher, "lock")
    /\ UNCHANGED <<table, known, c_apis_suck, jsmutex, message_total, results, called, posted>>

NullDereference == pc[Watcher] = "row" /\ results # {} /\ ~c_apis_suck /\ Restart

\* Mutant: as in do_web_request(), a guild id is compared with a channel id.
DeleteRow_WrongColumn ==
    /\ pc[Watcher] = "delete"
    /\ results' = {row \in results : row.channel # channel[Watcher]}
    /\ Goto(Watcher, "row")
    /\ UNCHANGED <<table, known, c_apis_suck, jsmutex, message_total, channel, called, posted>>

DeleteRow ==
    /\ pc[Watcher] = "delete"
    /\ rows' = {row \in rows : row.channel # channel[Watcher]}
    /\ results' = {row \in results : row.channel # channel[Watcher]}
    /\ Goto(Watcher, "row")
    /\ UNCHANGED <<nextId, fetched, known, c_apis_suck, jsmutex, message_total, channel,
                   called, posted>>

\* The end of a pass, and its sleep.
EndOfPass ==
    /\ pc[Watcher] = "row" /\ results = {}
    /\ Goto(Watcher, "idle")
    /\ UNCHANGED <<table, known, c_apis_suck, jsmutex, message_total, channel, results,
                   called, posted>>

(* `sudo reload module_js.so`: ~JS() joins the watcher at the end of a pass;
   the library's globals start again, the process and its cache go on. *)
Reload ==
    /\ \A r \in Runners : pc[r] = "idle"
    /\ c_apis_suck' = FALSE
    /\ message_total' = 0
    /\ UNCHANGED <<table, known, jsmutex, pc, channel, results, called, posted>>
-----------------------------------------------------------------------------
(* src/do-web-requests.php: one process, which never restarts here. *)

WorkerPoll ==
    /\ fetched = {}
    /\ fetched' = {row \in rows : row.status = "000"}
    /\ UNCHANGED <<rows, nextId, known, c_apis_suck, jsmutex, message_total, pc, channel,
                   results, called, posted>>

\* The UPDATE selects by channel; a failed request is answered with '999'.
WorkerAnswer ==
    \E done \in fetched :
        /\ rows' = {IF row.channel = done.channel THEN [row EXCEPT !.status = "answered"]
                    ELSE row : row \in rows}
        /\ fetched' = fetched \ {done}
        /\ UNCHANGED <<nextId, known, c_apis_suck, jsmutex, message_total, pc, channel,
                       results, called, posted>>

RunStep(r) == CreateMessage(r) \/ CountRequests(r) \/ InsertRequest(r) \/ RunEnd(r)
WatcherStep == Poll \/ NextResult \/ NullDereference \/ DeleteRow \/ EndOfPass \/ Fatal

Next ==
    \/ \E g \in Guilds : GuildCreate(g) \/ GuildDelete(g)
    \/ \E t \in Shards, c \in Channels : OnMessage(t, c)
    \/ \E r \in Runners : RunBegin(r) \/ RunRefused(r) \/ RunStep(r)
    \/ WatcherStep
    \/ Reload
    \/ Restart
    \/ WorkerPoll \/ WorkerAnswer

Spec == Init /\ [][Next]_vars

(* The watcher and the worker keep polling; a script ends within its time
   limit; and the watcher is not starved of a mutex that keeps being freed. *)
Fairness ==
    /\ WF_vars(WatcherStep)
    /\ WF_vars(WorkerPoll) /\ WF_vars(WorkerAnswer)
    /\ \A r \in Runners : WF_vars(InsertRequest(r)) /\ WF_vars(RunEnd(r))
    /\ SF_vars(RunBegin(Watcher) \/ RunRefused(Watcher))

FairSpec == Spec /\ Fairness
-----------------------------------------------------------------------------
(* A guild never has two requests in the table, and a request leaves it only
   after its answer: polling, answering, deleting, reloading the module and
   restarting the bot in any order never lose or double a request. *)
Slots == INSTANCE RequestSlots WITH
    slot <- [g \in Guilds |-> {[id |-> row.id, status |-> row.status] : row \in RowsOf(g)}]

OneRequestPerGuild == Slots!Spec

(* A process runs the callback of a request at most once, and never before
   the answer is in the table. *)
CalledOnce ==
    \A i \in Ids :
        /\ called[i] <= 1
        /\ called[i] = 1 => ~\E row \in rows : row.id = i /\ row.status = "000"

(* No run posts more than message_limit messages, although the counter is
   one global that every run resets. *)
MessageLimit == \A r \in Runners : posted[r] <= message_limit

(* Every request is answered, and then handled and deleted, or the bot is
   down: after a restart with an answered row in the table the watcher
   dereferences c_apis_suck, NULL until some script has run. *)
EveryRequestEnds ==
    \A i \in Ids :
        (\E row \in rows : row.id = i) ~>
            (~c_apis_suck \/ ~\E row \in rows : row.id = i)
=============================================================================
