# Sporks in TLA+

Sporks is a Discord bot in C++ (D++ gateway library, MySQL) built from modules
that are loaded, unloaded and reloaded while it runs. This directory holds
TLA+ specifications of its parts, the TLC configurations that check them and
TLAPS proofs about them. Source paths below are relative to the repository.

## The system

| Component | State | Operations | Hard part | What makes it correct |
|---|---|---|---|---|
| Module loader (`src/modules.cpp`, `FOREACH_MOD` in `include/sporks/modules.h`) | `Modules`, `ModuleList`, `EventHandlers`, `lasterror`, `mtx` | `Attach`, `Load`, `Unload`, `Reload`, `LoadAll`, dispatch | commands of one thread during dispatch in another; constructors that throw; a mutex taken inside a handler | registry, handler lists and memory agree; order of dispatch; no call into a deleted module; no deadlock |
| Diagnostics (`modules/diagnostics`) | none | the owner's `sudo` commands | they run inside a dispatch | can never remove itself |
| JavaScript (`modules/js`, `do-web-requests.php`) | `code`, `message_total`, `c_apis_suck`, `jsmutex`; tables `infobot_web_requests`, `infobot_discord_javascript` | run a script, post, request a page, allocate memory, call back, reload | shards, a watcher thread and a PHP process share a table that outlives all of them | one request per guild, called back once, finally worked off; message and memory limits; scripts are current |
| Infobot (`modules/infobot`) | table `infobot`, statistics, nickname cache | learn, add, forget, follow an alias, answer | read and write of a fact are separate, several shards; facts that name each other | locked facts stay, nothing is lost unasked, answers are whole |
| Voting (`modules/voting`) | table `infobot_votes`, the role at Discord | one pass every 30 seconds | REST calls only queue a request, crashes lose it; re-votes; a snapshot that grows old | each vote is rewarded for a day |
| SQL cache (`modules/sqlcache`) | two queues, two threads | cache users and guilds, forget guilds | queue threads against deletes | what is queued is written, what left is gone |
| Settings (`src/config.cpp`, `modules/config`) | one JSON document per channel | read (creating it), set, ignore | read-modify-write against the dashboard | no setting is lost |
| Presence, bandwidth (`modules/presence`, `modules/bandwidth`) | counters | publish and reset | unsynchronised counters, reset windows | nothing is promised |
| Core (`src/main.cpp`, `src/events.cpp`) | shard count, counters | wiring of events, restart | shards that become ready twice | modules are told once |
| Database (`src/database.cpp`) | connection, `_error` | `query` | one lock for every thread | queries are atomic |
| Help, signals, regular expressions, string helpers, cron scripts, Duktape | – | – | – | – |

**Threads.** D++ runs one thread per shard (two, or one with `-dev`); all events
of a guild come on its shard's thread. The presence thread delivers
`OnPresenceUpdate` every 30 seconds. The JavaScript module has a watcher thread
and the SQL cache two queue threads. The dashboard, the voting sites' callback
and `do-web-requests.php` are other processes on the same database. `run.sh`
starts the bot again whenever it ends.

**Interaction.** A gateway event calls a handler of `Bot`, which walks the list
of modules attached to it until one returns false. Modules call the loader
(from `sudo`), the database (under `db_mutex`, taken last) and Discord.
A message first passes `getSettings()`, which makes the channel's row of settings
and has the ignore list; `config` and the guild thread of the SQL cache use the same rows.
Locks are taken in the order `Loader->mtx`, then (by joining the watcher)
`jsmutex`, then `db_mutex`.

## The modules

| Module | Stands for | Extends or instantiates |
|---|---|---|
| `ModuleLoader` | loader, dispatch, `sudo` commands, restart | – |
| `ModuleLoaderProofs` | its theorems | `ModuleLoader` |
| `RequestSlots` | what scripts are promised about `get()` and `post()` | – |
| `WebRequests` | runs, watcher, PHP worker, restart, reload | implements `RequestSlots` |
| `WebRequestsProofs` | its theorems, the refinement among them | `WebRequests` |
| `ScriptCache` | which version of a script is executed | – |
| `ScriptCacheProofs` | its theorems | `ScriptCache` |
| `Sandbox` | the allocator that scripts get | – |
| `ScriptRuns` | `JS::run()` from the lock to the end of its heap | composes `ScriptCache` and `Sandbox`, implements `ScriptCache` |
| `ScriptRunsProofs` | its theorems | `ScriptRuns`, `ScriptCacheProofs`, `FiniteLemmas` |
| `Facts` | facts and their locks, aliases and alternatives | – |
| `FactStore` | the infobot's commands as single steps | – |
| `FactsProofs` | its theorems, the refinement among them | `Facts`, `FiniteLemmas`; one shard implements `FactStore` |
| `Voting` | votes and roles | – |
| `VotingProofs` | its theorems | `Voting` |
| `Settings` | `getSettings()`, messages, the `config` commands, the dashboard | – |
| `SqlCache` | the tables of guilds and members, their queues and threads | adds itself to `Settings` |
| `SqlCacheProofs` | the theorems of both | `SqlCache` |
| `FiniteLemmas` | induction, largest elements and sums of finite sets, for the proofs | – |
| `MC...` | names and small definitions for TLC | the module of that name |

A definition named `X_Y` with a comment that starts "Mutant" is a deliberately wrong form
of `X`, kept to show that a property notices the mistake; no specification uses it.

### ModuleLoader

An object is what one successful `init_module()` returned, named by file and
serial number, so that a reloaded module is a different object. `modules`,
`moduleList` and `eventHandlers` are the three containers of the class, `mtx`
its mutex, `alive` the objects whose memory and code exist. `queue[t]` is what
is left of thread `t`'s `list_to_call`. `CopyHandlers` is the macro's locked
block; the calls follow without the lock. `Load` is one step, since everything
in it happens under the mutex and nothing else sees the intermediate state;
`Unload` is two, `UnloadBegin` up to the `delete` and `UnloadEnd` from it on,
because the destructor may wait for other threads. `Reload` is `Unload` and
then `Load`, with the mutex free in between, as in the code. A constructor that
throws after `Attach()` (`LoadThrows`) leaves its handlers behind: during start
this ends the process, later `FOREACH_MOD` catches it. Using a deleted object,
iterating a map that changed and reading an erased map node are undefined:
`Fault` ends the process, and the run may as well go on. `Restart` is the end
of the process and the beginning of the next.

### RequestSlots and WebRequests

`rows` is the table, `fetched` and `results` the row sets the PHP worker and
the watcher iterate, `jsmutex` the mutex of `JS::run()`. A script is a
nondeterministic choice of messages and one `get()`, whose count and insert are
two steps. A row is deleted, and answered, by channel. `known` is the D++
cache, empty after a restart: `run()` refuses a channel it does not find, and
the watcher deletes the row all the same. The watcher uses `c_apis_suck`
before `run()` has set it: `NullDereference`. `Slots` maps the rows of a
guild to its slot; `OneRequestPerGuild` is `Slots!Spec`.

### ScriptCache, Sandbox and ScriptRuns

One channel (channels share only the mutex). Versions are numbered by edits;
every query of `run()` is a step, and the dashboard may save between any two.
`wanted` and `executed` are history variables.

`Sandbox` has the operations of the allocator: `sz` are the headers that
`sandbox_alloc()` puts in front of each block, `total_allocated` the one entry
of the map that the current channel has, `max_allocated` the global limit. A
refused request changes nothing in the bot and is left out.

`ScriptRuns` puts a heap into each run: `Prepare` sets the limit after looking
for the vote of the guild's owner, `Memory` is the script and its compilation,
`Return` every return with `duk_destroy_heap()`, `Fatal` the exception of
`sandbox_fatal()`, which nothing destroys the heap after. On the watcher, which
catches nothing, it ends the process (`Reboot`). Votes come and expire at any
moment (`Vote`). The heaps that `Fatal` gives up are in `leaked`; a block that
leaks stays taken until the process ends.

### FactStore and Facts

A value is the sequence of statements joined in it; `NoFact` is the default
`infodef`. `Said` is `get_def()` with the decision that follows, `SetDef` and
`DelDef` the write. The owner's `sudo lock` and `sudo unlock` are one `UPDATE` each.
A fact is `Quiet` when no command is past its `get_def()` and on its way to the
write: from there on a lock holds on every shard (`LockHoldsWhenQuiet`).

`Ask` is the `get_def()` of a question, `FollowAlias` the second one when the
value says `<alias>`, and `Answer` the choice of `getreply()`. Whether a
statement begins with a bar (`Piped`) or is an alias (`Aliases`) is all that
counts of its text. "also" puts `or` or the statement's own bar between what
was there and what it adds, so bars stand in front of statements.

`FactStore` is what a channel's users may think the commands are: `Is`, `Also`,
`Forget` and `SetLock`, each deciding and writing in one step. It promises
that no user's command touches a locked fact. One shard keeps the promise
(`OneShardImplementsStore`); with two, TLC finds the race of `facts_lock_race`.

### Voting

`Select` takes the snapshot; each row's query and REST call are two steps, in
the code's order (`DeleteRow`, `RemoveRole`; `AddRole`, `MarkGiven`). A query is
done when it returns. A REST call is not: it puts a request into D++'s queue
(`requests`), and nothing waits for it, since neither call has a callback; `Send`
is a thread of D++ that takes the oldest request and changes the role. The pass
counts on that order when it sends its removals first. Rows come and age at any
moment, users enter and leave the cache, and the process may die, which loses
the snapshot, the cache and every request not yet sent (`Restart`). Discord is
taken to carry out what is sent, and the clocks of bot and database to agree.

`Holding(u)` says that `u` has the role or a queued request gives it, with no
removal behind: that is all the `UPDATE` can rely on (`AskedBeforeMarked`).
That the role itself follows is a matter of the sending
(`EveryVoteIsRewarded`), and is not so if the process dies in between.

### Settings and SqlCache

A row of `settings` is the channel's guild and the set of what its document
says yes to. `FindChannel`, `Select`, `Insert` and `Reselect` are
`getSettings()`, which holds `config_sql_mutex` from its lookup on; `call[t]`
says what thread `t` calls it for, and `After` where it goes on. A message
(`OnMessage`) calls it, keeps the ignore list, and is dropped or becomes a command
(`Command`), which calls it again, with 0 for the guild, and writes the whole
document (`Update`). `Dashboard` is the other process; `overtaken` remembers
which commands it came in between.

`SqlCache` adds the handlers of the module, in the order of their `DELETE`s
(`GuildDelete`, `Unmap`, `Forget`), and its two threads: `PopGuild`,
`QueuedChannel` (one `getSettings()` per channel) and `QueuedMember`; `PopUser`
and `WriteUser`. D++ changes its own cache (`channels`, `guilds`, `users`) before
it calls a handler, loaded or not; a user may stay in it for another guild's
sake. `OnGuildMemberAdd` stores nobody, since `!gma.added.user_id == 0`
compares a negation, so `MemberAdd` changes no table. `Unload` sets
`terminate`, `Joined` is the end of both `DisposeThread()` calls and of the
object, `Load` the new one. A channel whose row vanishes under the second
`SELECT` makes the code read `r[0]` of an empty result (`Fault`).

## The runs

| Run | Bounds | Shows |
|---|---|---|
| `loader_shards` | two shards, three files, four objects, one constructor that may throw | every interleaving of two threads' commands and dispatches, two reloads deep: `HandlersLoaded`, `NothingHalfLoaded`, `DispatchInLoadOrder`, `NoSelfDeadlock`, `DiagStays` |
| `loader_dev` | one shard and the presence thread, no timer module, one broken file, five objects | `NoUseAfterUnload`, `EveryDispatchEnds` |
| `loader_unload_race` | shard and presence thread, a timer module | `NoUseAfterUnload` fails |
| `loader_listing_race` | two shards | `ListingSafe` fails |
| `web_requests` | a shard and the watcher, two channels of one guild and one of another, two requests, limit one message | `CalledOnce`, `MessageLimit`, `OneRequestPerGuild`, `EveryRequestEnds` |
| `script_cache` | three threads, two edits, two blocks of size 1 or 2, limits 2 and 3 | `FlaggedEditRuns`, `NeverBackwards`, `AccountingExact`, `WithinAllowance` |
| `script_lost_edit` | three threads, three edits, no heaps | `CleanMeansCurrent` fails |
| `facts_shards` | two shards, two keys, a plain statement, one with a bar and an alias, two statements in a value | `LockHoldsWhenQuiet`, `NothingLostUnasked`, `AliasFollowedOnce`, `AnswerIsAnAlternative` |
| `facts_lock_race` | two shards, one key | `LockedFactsStay` fails |
| `guild_tables` | one shard, a guild with one channel and one member, an author who is none, one option | `GuildIdKept`, `CommandsLand`, `LeftGuildsHidden`, `OnlyWhatWasAsked`, `EveryChannelGetsSettings`, `EveryMemberIsStored`, `BegunIsFinished`, `UnloadEnds` |
| `voting` | three votes of two users, one crash, a pass begins with no request queued | `AskedBeforeMarked`, `VotesLastADay`, `EveryVoteIsRewarded`, `EveryVoteIsWorkedOff` |
| `voting_revote` | three votes of two users, the same bounds; no crash needed | `RevoteKeepsRole` fails |

Deadlock is checked in all of them. The bounds are constants (`MaxObjects`,
`MaxRequests`, `MaxEdits`, `MaxSize`, `MaxLength`, `MaxQueue`, `MaxCrashes`).
Four objects let both shards reload a
module and collide with each other; two requests let a second one meet the leftovers of
the first; two edits let one fall into the run of the other; three votes are one re-vote
and a bystander; `message_limit` is 5 in the code, and 1 suffices to meet it. A
limit of 3 and two blocks of 2 let a run exceed the lower limit, meet the
higher, grow, shrink and free; a value of two statements is the longest that can put an alias
before or behind another statement, and a bar at either end. `MaxQueue` guards
only the arrival of guilds: with 1 a guild is sent, deleted and sent again
while the guild thread still works on its first copy, and the users' queue grows
to two. One guild and one channel are enough for what that run asks, as guilds meet only in
the queues; `SqlCacheProofs` has any number of guilds, channels and shards.
In `Voting`, `MaxRequests` guards only the beginning of a pass: with 1 it
waits until the last pass's requests are sent, while those of a pass queue up
behind each other (three votes can make as many requests) and meet crashes,
other votes and the rest of their pass; passes are 30 seconds apart, and
`VotingProofs` has any queue.
Past `MaxObjects` a load fails as if `dlopen()` had, past the `MaxRequests` of
`WebRequests` a script makes no more requests.

The five failing runs are disagreements between the code and its own comments:

* `FOREACH_MOD` says it keeps other threads from unloading a module during an
  event (`include/sporks/modules.h:75`), but releases the mutex before the calls.
* `sudo modules` says its reference to the list is safe
  (`modules/diagnostics/diagnostics.cpp:132`), but another shard may change it.
* A script saved while the bot reloads it loses its dirty flag
  (`modules/js/js.cpp:630`, `mysql-schema/infobot.sql:40`).
* A fact locked while another shard edits it is overwritten and unlocked
  (`modules/infobot/backend.cpp:253` and `:317`).
* Who votes again within the day loses the role with the older vote
  (`modules/voting/voting.cpp:81`).

### Fairness

* `ModuleLoader`: a dispatching thread keeps running, since nothing in the code
  stops one but the mutex. No event need ever arrive.
* `WebRequests`: the watcher and the worker loop for ever; a script ends because
  the interpreter's time limit ends it. Strong fairness stands for the watcher getting a mutex that
  shards keep freeing: they hold it only while a message's script runs. The
  process need not stay up, so `EveryRequestEnds` promises nothing for a
  process in which no script has run since it started: there an answered row
  kills it again and again.
* `SqlCache`: the two queue threads loop for ever, and a shard finishes the
  handler it is in. Strong fairness stands for a thread getting
  `config_sql_mutex`: others hold it for three queries and then wait for an
  event or sleep. No event need arrive, the dashboard need never save, and the
  process may end: then what was queued counts as in `EveryMemberIsStored` only
  when the guild is sent again. `BegunIsFinished` speaks of the guild that the
  guild thread has taken off the queue: an unload lets it finish, a new process
  knows nothing of it.
* `Voting`: passes go on, D++ sends what is queued, and time passes.
  `EveryVoteIsRewarded` and `EveryVoteIsWorkedOff` are about users who finally
  stay in the cache, since the code skips others; the first promises nothing
  if the process dies before the role is there.

## The proofs

TLAPS proves the theorems for every value of the constants, from the named
assumptions of the modules (`LoaderAssumption`, `WebRequestsAssumption`,
`ScriptCacheAssumption`, `SandboxAssumption`, `FactsAssumption`,
`VotingAssumption`, `SettingsAssumption`, `NoRowAssumption`,
`SqlCacheAssumption`), which TLC evaluates in the runs.

*ModuleLoaderProofs.* None of the safety properties is inductive alone.
`RInv` adds: serial numbers in each list increase and no list names a later one
(`Order`; `EraseFirst` and `Attach` preserve it by lemmas about sequences); the
object filed under `f` is an object of `f`, in memory and at most as new as
`serial` (`Keyed`); who holds `mtx` is in the destructor's window and nobody
else is (`Locking`); there its target is in no list (`Unloading`); and who runs a
command was called with a message that diagnostics attached to (`Calling`). From `RInv` follow
`HandlersLoaded`, `NothingHalfLoaded`, `DispatchInLoadOrder` and
`NoSelfDeadlock`; `DiagStays` is proved of each step with the refusal of the
command. `OneDispatcherIsSafe` adds what its assumption `Alone(t)` says, that only
thread `t` delivers events that modules attach to and that no constructor throws:
then what is left of `t`'s list is always loaded.

*ScriptCacheProofs.* The invariant says that who is inside `run()` holds
the mutex (`Locked`), that executed, cached and stored versions are in that
order (`Ages`), and that past the lookup the program to execute is the cached
one (`Inside`).

*FiniteLemmas.* The library's induction theorems take a predicate as a
parameter, which the provers cannot be given. Here induction is about the set
of what satisfies it: a set of naturals with 0 and each successor is `Nat`
(`NaturalSetInduction`, from the minimal element of a well-founded order), and so
for the subsets of a finite set (`SubsetInduction`). From them follow that a
bounded set of numbers has a largest (`LargestExists`), and what
the sum over a finite set is: `MapThenSumSet` picks its elements in one order,
the sum does not depend on it (`SumsRemove`), it is an integer (`TotalType`),
depends only on the terms (`TotalAgrees`) and loses one with its element
(`TotalWithout`).

*ScriptRunsProofs.* `RunsImplementCache` shows that a run with its heap is
still a run of `ScriptCache`, so the theorems above hold for it. `Allowed` says
that past the lookup the global limit is that of the run in progress (nobody
else is inside), `HeapInUse` that a heap belongs to such a run and is below the
limit; `WithinAllowance` follows. For `AccountingExact` the heap has to have
finitely many blocks, and a leaked block must keep its header, so that no later
heap is given it (`Kept`); then every call of the allocator changes the sum of
the headers and `total_allocated` by the same difference (`HeldChanges`).
`RunsTypeOK` is proved together with it, since the counter stays a natural
number only because it is that sum.

*FactsProofs.* A lock is on a row that exists (`Rows`), and a locked fact
changes only in the step of a thread that was writing it (`OthersKeepFacts`,
`LockOnly`); a command that finds a fact locked does not go on to
write it (`StaysQuiet`), so a lock that nobody was overtaking holds until it is
lifted. What a writer takes away is either forgotten or was never read by it
(`LosesOnlyUnseen`), which needs that "is" writes only what it found missing.
The lookups of a question are counted by its step (`Counted`). With one shard,
what was read is still there at the write (`Fresh`), so the lock that
`get_def()` saw is the lock there is; from it `OneShardImplementsStore` maps each
write to the command of `FactStore` and everything else to a stutter. That an
answer is a whole alternative rests on two things: every row has a statement
(`Worded`), so there is something to pick, and each pick starts at the largest
bar before it ends (`LargestExists`), so no bar is inside (`PicksAreAlternatives`).

*WebRequestsProofs.* The mutex makes the count of a guild's rows and the insert
of one a single step (`SlotReserved`), so a guild never has two rows
(`Distinct`). What the watcher has left of its list is in the table and answered
(`Results`), so what it deletes by channel is the row that it called back
(`Serving`, `CalledOrServed`), and no row is called twice (`AtMostOnce`). The
one counter of messages is that of the run which holds the mutex (`Counted`).
`RequestsImplementSlots` then maps each step: an insert asks, the worker
answers, a `DELETE` closes the slot of one guild, and everything else stutters.

*VotingProofs.* The voter whose rows the `UPDATE` marks has the role or gets it
(`Earned`): it was asked for one step before, and what happens to a queue of any
length does not change that: a new request to give a role takes it from nobody
(`AddHolds`), one to take it matters to its member only (`DeleteSpares`), and
sending the oldest leaves everyone's prospects alone (`SendHolds`). So votes
are marked only when the role is there or asked for (`MarkedAreAsked`). What the
snapshot saw rewarded is still so or deleted (`SnapshotBehind`), so an outdated
list deletes no new vote.

*SqlCacheProofs.* The rows of a channel are written only by its guild's shard
and the guild thread, and deleted only by that shard; so a shard that is
past its message handler's `getSettings()` still finds its row (`ShardOK`),
although the command asks with guild 0. What the guild thread holds is of one
guild (`GuildThreadOK`), which keeps rows with their guild, and a guild
that was left is in the map only when it has been sent again (`LeftOK`).

**What is missing where a run fails.** Each of the properties that the code
breaks is proved under the condition that the comment took for granted, for any
values of the constants. A condition about steps is a temporal formula in front of
the implication.

| Property | Holds when | Theorem |
|---|---|---|
| `NoUseAfterUnload` | one thread delivers every event that modules attach to | `OneDispatcherIsSafe` |
| | a module is unloaded only while no dispatch has it left to call (any threads) | `QuietUnloadsAreSafe` |
| `ListingSafe` | one thread receives all messages | `OneShardListsSafely` |
| `CleanMeansCurrent` | nobody saves between the read of the script and the reset of its flag | `FlagIsTrueOutsideWindow`, `RunsKeepFlagTrue` |
| `LockedFactsStay` | there is one shard | `OneShardKeepsLocks`, `OneShardImplementsStore` |
| `RevoteKeepsRole` | a user votes only while no older row of theirs exists (`NoRevote`), and the process dies only with every request sent (`NothingUnsent`) | `SingleVotesKeepRole` |

The first two also assume that no constructor throws, because a throwing one leaves
handlers of an object that is gone. The inductive invariants are `OneDispatcher`
and `Callable` (what is left to call is loaded), `OneCommander` (a command is
in the hands of the thread that got it as a message, and what it has still to list is
loaded), `Current` (a copy that no flag calls old, and one just read, is the row) and
`OneRow` (a voter has one row, so a removal is never asked for beside a rewarded
vote, and who has a rewarded vote has the role or gets it).

Only model-checked are the liveness properties (`EveryDispatchEnds`,
`EveryRequestEnds`, `EveryVoteIsRewarded`, `EveryVoteIsWorkedOff`,
`EveryChannelGetsSettings`, `EveryMemberIsStored`, `BegunIsFinished`,
`UnloadEnds`), since they rest on fairness and `ENABLED`,
which TLAPS does not handle. Every safety property that a passing run checks is
stated by a theorem.

## What is not modelled

The text of messages, replies, embeds and queries; the key-value store and the
lookups of scripts, each of which is one query or one call; failing queries (a
failed one looks like an empty result); requests that Discord refuses; clocks that
disagree; scripts of several channels in one interpreter's accounting (`ScriptRuns`
has one channel); the order of the watcher's rows; `hasReplied()`; the nickname cache of the infobot. The
counters of `presence`, `bandwidth` and `onReady` are statistics that no part
of the program decides on and no document promises anything of, so there is
nothing to check them against. The help module, regular expressions, signals
and cron scripts keep no state that the rest depends on.

Of the 108,733 lines that count as implementation, 102,939 are Duktape, vendored
in `modules/js`: a script here is a choice of the calls it may make, and the
interpreter behind it is not part of this project.

Some of what the code does differs from what is said about it without a run
that fails:

* The last of several alternatives is never picked, nor the last of a `<list>`:
  `getreply()` drops what follows the last delimiter, while
  `help/advanced.json:31` has the bot pick one of six at random. `Picks` is as the code is.
* `OnGuildMemberAdd()` stores nobody; `src/main.cpp:135` says it stores members.
* `OnGuildMemberRemove()` deletes the user's memberships in every guild.
* A guild deleted while it waits in the queue, or is being worked on, gets its
  memberships back. The view that the dashboard reads hides
  them (`LeftGuildsHidden`).
* A setting that the dashboard saves between a command's read and its write is
  lost (`OnlyWhatWasAsked` excepts it).
* "no bot, x is y" is never taken as a correction, because the bot's name is put
  in front of every message before it is looked for (`modules/infobot/backend.cpp:205`).
* A vote that was marked as rewarded just before a crash never gets its role,
  when the request was still queued: the next pass finds it marked
  (`EveryVoteIsRewarded` excepts this). Likewise a role whose vote was deleted
  just before a crash stays for ever.
* A vote whose time is ahead of the bot's clock counts as very old, since the
  difference is unsigned, and is deleted with the first pass after its reward.
* The handlers of a module whose constructor throws stay registered, although
  its object is gone.
* After a restart, an answered request ends the process before any script has
  run, and again in the next process.
* `sudo sql` shows the error of an earlier query after one that succeeded:
  `_error` is not cleared.
* The memory of a script that ended with a fatal error stays taken until the
  process ends.

## What could follow

A composition of `ModuleLoader` and `WebRequests` to say which module answers a
message when `hasReplied()` reads a counter that another thread's run has reset;
failing queries and REST calls as a fault model; and the counters, once it is
stated what they should add up to.
