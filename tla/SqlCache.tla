------------------------------- MODULE SqlCache -----------------------------
(***************************************************************************)
(* The tables the dashboard reads (src/modules/sqlcache/sqlcache.cpp)      *)
(* beside the settings of every channel.                                   *)
(*                                                                         *)
(* A shard's thread queues a copy of every guild it is told of.  The guild *)
(* thread makes the settings of its channels and the memberships, and      *)
(* queues its users; the user thread writes these.  Deletions are handled  *)
(* by the shards at once and overtake what is queued.  The cache of D++ is *)
(* changed before a handler is called.                                     *)
(*                                                                         *)
(* A push and the query after it are one step: user_cache_mutex is held    *)
(* through both, and no other thread looks at what lies between.           *)
(***************************************************************************)
EXTENDS Settings, Sequences

CONSTANTS
    Members,   \* of each guild, now and then
    MaxQueue,  \* BOUND: guilds are sent while both queues are shorter
    UserThread, NoUser

ASSUME SqlCacheAssumption ==
    /\ Members \in [Guilds -> SUBSET Users]
    /\ MaxQueue \in Nat
    /\ NoUser \notin Users
    /\ UserThread # GuildThread

VARIABLES
    guilds, users,  \* those D++ has in its cache
    shard_map,      \* infobot_shard_map: guilds
    membership,     \* infobot_membership: user, guild
    user_cache,     \* infobot_discord_user_cache: users
    guildqueue, userqueue,
    gc,             \* what the guild thread has left of its guild
    u,              \* the user thread's user or NoUser
    loaded,         \* the module is
    terminate,
    threads,        \* its threads that run
    left            \* history: guilds left with OnGuildDelete() since they were sent

discord == <<guilds, users>>
tables == <<shard_map, membership, user_cache>>
queues == <<guildqueue, userqueue>>
work == <<gc, u>>
module == <<loaded, terminate, threads>>
cacheVars == <<discord, tables, queues, work, module, left>>
vars == <<config, cacheVars>>

NoWork == [guild |-> NoGuild, channels |-> {}, members |-> {}]

ChannelsOf(g) == {c \in Channels : GuildOf[c] = g}

Places == Steps \cup {"idle", "heard", "update", "work", "join", "unmap", "forget"}

TypeOK ==
    /\ channels \in SUBSET Channels
    /\ settings \in [Channels -> Rows \cup {NoRow}]
    /\ config_sql_mutex \in Threads \cup {Free}
    /\ pc \in [Threads -> Places]
    /\ call \in [Threads -> Calls]
    /\ csettings \in [Threads -> Documents]
    /\ overtaken \in SUBSET Shards
    /\ guilds \in SUBSET Guilds /\ users \in SUBSET Users
    /\ shard_map \in SUBSET Guilds
    /\ membership \in SUBSET (Users \X Guilds)
    /\ user_cache \in SUBSET Users
    /\ guildqueue \in Seq(Guilds) /\ userqueue \in Seq(Users)
    /\ gc \in [guild : Guilds \cup {NoGuild}, channels : SUBSET Channels,
               members : SUBSET Users]
    /\ u \in Users \cup {NoUser}
    /\ loaded \in BOOLEAN /\ terminate \in BOOLEAN
    /\ threads \in SUBSET {GuildThread, UserThread}
    /\ left \in SUBSET Guilds

Boot ==
    /\ guilds' = {} /\ users' = {}
    /\ guildqueue' = <<>> /\ userqueue' = <<>>
    /\ gc' = NoWork /\ u' = NoUser
    /\ loaded' = TRUE /\ terminate' = FALSE
    /\ threads' = {GuildThread, UserThread}
    /\ channels' = {}
    /\ config_sql_mutex' = Free
    /\ pc' = [t \in Threads |-> "idle"]
    /\ call' = [t \in Threads |-> NoCall]
    /\ csettings' = [t \in Threads |-> {}]
    /\ overtaken' = {}

Init ==
    /\ ConfigInit
    /\ pc = [t \in Threads |-> "idle"]
    /\ guilds = {} /\ users = {}
    /\ shard_map = {} /\ membership = {} /\ user_cache = {}
    /\ guildqueue = <<>> /\ userqueue = <<>>
    /\ gc = NoWork /\ u = NoUser
    /\ loaded = TRUE /\ terminate = FALSE
    /\ threads = {GuildThread, UserThread}
    /\ left = {}

\* The process ends anywhere and run.sh starts it again: the tables remain.
Restart ==
    /\ Boot
    /\ UNCHANGED <<settings, tables, left>>

\* r[0] of an empty result.
Fault(t) ==
    /\ pc[t] = "reselect" /\ settings[call[t].channel] = NoRow
    /\ Restart
-----------------------------------------------------------------------------
(* Handlers, on the guild's shard *)

Event(t, g) == pc[t] = "idle" /\ OnShard(t, g)

\* The bot joins or comes online: Discord sends the guild.
GuildCreate(t, g) ==
    /\ Event(t, g)
    /\ Len(guildqueue) < MaxQueue /\ Len(userqueue) < MaxQueue
    /\ guilds' = guilds \cup {g}
    /\ channels' = channels \cup ChannelsOf(g)
    /\ users' = users \cup Members[g]
    /\ left' = left \ {g}
    /\ IF loaded
       THEN shard_map' = shard_map \cup {g} /\ guildqueue' = Append(guildqueue, g)
       ELSE UNCHANGED <<shard_map, guildqueue>>
    /\ UNCHANGED <<membership, user_cache, userqueue, work, module,
                   settings, config_sql_mutex, pc, call, csettings, overtaken>>

\* The first of three DELETEs.
GuildDelete(t, g) ==
    /\ Event(t, g) /\ g \in guilds
    /\ guilds' = guilds \ {g}
    /\ channels' = channels \ ChannelsOf(g)
    /\ users' \in {users, users \ Members[g]}
    /\ IF loaded
       THEN /\ settings' = [c \in Channels |->
                 IF settings[c] \in Rows /\ settings[c].guild = g THEN NoRow ELSE settings[c]]
            /\ Goto(t, "unmap")
            /\ call' = [call EXCEPT ![t].guild = g]
       ELSE UNCHANGED <<settings, pc, call>>
    /\ UNCHANGED <<config_sql_mutex, csettings, overtaken, tables, queues, work, module, left>>

\* Mutant: the guild stays in the map.
Unmap_Kept(t) ==
    /\ pc[t] = "unmap"
    /\ Goto(t, "forget")
    /\ UNCHANGED <<channels, settings, overtaken, config_sql_mutex, call, csettings, cacheVars>>

Unmap(t) ==
    /\ pc[t] = "unmap"
    /\ shard_map' = shard_map \ {call[t].guild}
    /\ Goto(t, "forget")
    /\ UNCHANGED <<channels, settings, overtaken, config_sql_mutex, call, csettings, discord,
                   membership, user_cache, queues, work, module, left>>

Forget(t) ==
    /\ pc[t] = "forget"
    /\ membership' = {m \in membership : m[2] # call[t].guild}
    /\ left' = left \cup {call[t].guild}
    /\ Idle(t, "idle")
    /\ UNCHANGED <<channels, settings, overtaken, config_sql_mutex, discord, shard_map, user_cache,
                   queues, work, module>>

\* In every guild, whichever the user left.
MemberRemove(t, g, user) ==
    /\ Event(t, g) /\ g \in guilds /\ user \in Members[g]
    /\ users' \in {users, users \ {user}}
    /\ membership' = IF loaded THEN {m \in membership : m[1] # user} ELSE membership
    /\ UNCHANGED <<config, guilds, shard_map, user_cache, queues, work, module, left>>

\* `!gma.added.user_id == 0`: the handler returns before it stores anybody.
MemberAdd(t, g, user) ==
    /\ Event(t, g) /\ g \in guilds /\ user \in Members[g]
    /\ users' = users \cup {user}
    /\ UNCHANGED <<config, guilds, tables, queues, work, module, left>>

ChannelCreate(t, c) ==
    /\ Event(t, GuildOf[c]) /\ GuildOf[c] \in guilds
    /\ channels' = channels \cup {c}
    /\ IF loaded THEN GetSettings(t, "create", c, GuildOf[c], {}, {}) ELSE UNCHANGED <<pc, call>>
    /\ UNCHANGED <<settings, overtaken, config_sql_mutex, csettings, cacheVars>>

ChannelDelete(t, c) ==
    /\ Event(t, GuildOf[c])
    /\ channels' = channels \ {c}
    /\ settings' = IF loaded THEN [settings EXCEPT ![c] = NoRow] ELSE settings
    /\ UNCHANGED <<config_sql_mutex, pc, call, csettings, overtaken, cacheVars>>
-----------------------------------------------------------------------------
(* SaveCachedGuildsThread() *)

PopGuild ==
    /\ pc[GuildThread] = "idle" /\ GuildThread \in threads /\ ~terminate
    /\ guildqueue # <<>>
    /\ gc' = [guild |-> Head(guildqueue), channels |-> ChannelsOf(Head(guildqueue)),
              members |-> Members[Head(guildqueue)]]
    /\ guildqueue' = Tail(guildqueue)
    /\ Goto(GuildThread, "work")
    /\ UNCHANGED <<channels, settings, overtaken, config_sql_mutex, call, csettings, discord, tables,
                   userqueue, u, module, left>>

QueuedChannel ==
    /\ pc[GuildThread] = "work"
    /\ \E c \in gc.channels :
         /\ GetSettings(GuildThread, "queued", c, gc.guild, {}, {})
         /\ gc' = [gc EXCEPT !.channels = @ \ {c}]
    /\ UNCHANGED <<channels, settings, overtaken, config_sql_mutex, csettings, discord, tables, queues, u,
                   module, left>>

\* Mutant: the user is not looked for before it is pushed.
QueuedMember_Unknown ==
    /\ pc[GuildThread] = "work" /\ gc.channels = {}
    /\ \E user \in gc.members :
         /\ gc' = [gc EXCEPT !.members = @ \ {user}]
         /\ userqueue' = Append(userqueue, IF user \in users THEN user ELSE NoUser)
         /\ membership' = membership \cup {<<user, gc.guild>>}
    /\ UNCHANGED <<config, discord, shard_map, user_cache, guildqueue, u, module, left>>

\* find_user(), then the push and the INSERT under user_cache_mutex.
QueuedMember ==
    /\ pc[GuildThread] = "work" /\ gc.channels = {}
    /\ \E user \in gc.members :
         /\ gc' = [gc EXCEPT !.members = @ \ {user}]
         /\ IF user \in users
            THEN /\ userqueue' = Append(userqueue, user)
                 /\ membership' = membership \cup {<<user, gc.guild>>}
            ELSE UNCHANGED <<userqueue, membership>>
    /\ UNCHANGED <<config, discord, shard_map, user_cache, guildqueue, u, module, left>>

\* Mutant: terminate is tested in the loops over channels and members, too.
GuildDone_OnTerminate ==
    /\ pc[GuildThread] = "work"
    /\ terminate \/ (gc.channels = {} /\ gc.members = {})
    /\ gc' = NoWork
    /\ Goto(GuildThread, "idle")
    /\ UNCHANGED <<channels, settings, overtaken, config_sql_mutex, call, csettings, discord, tables, queues,
                   u, module, left>>

\* terminate is tested only between two guilds.
GuildDone ==
    /\ pc[GuildThread] = "work" /\ gc.channels = {} /\ gc.members = {}
    /\ gc' = NoWork
    /\ Goto(GuildThread, "idle")
    /\ UNCHANGED <<channels, settings, overtaken, config_sql_mutex, call, csettings, discord, tables, queues,
                   u, module, left>>

GuildThreadEnds ==
    /\ pc[GuildThread] = "idle" /\ terminate
    /\ threads' = threads \ {GuildThread}
    /\ UNCHANGED <<config, discord, tables, queues, work, loaded, terminate, left>>
-----------------------------------------------------------------------------
(* SaveCachedUsersThread() *)

\* Mutant: the last user in the queue stays there.
PopUser_LeavesOne ==
    /\ u = NoUser /\ UserThread \in threads /\ ~terminate
    /\ Len(userqueue) > 1
    /\ u' = Head(userqueue)
    /\ userqueue' = Tail(userqueue)
    /\ UNCHANGED <<config, discord, tables, guildqueue, gc, module, left>>

PopUser ==
    /\ u = NoUser /\ UserThread \in threads /\ ~terminate
    /\ userqueue # <<>>
    /\ u' = Head(userqueue)
    /\ userqueue' = Tail(userqueue)
    /\ UNCHANGED <<config, discord, tables, guildqueue, gc, module, left>>

WriteUser ==
    /\ u # NoUser
    /\ user_cache' = user_cache \cup {u}
    /\ u' = NoUser
    /\ UNCHANGED <<config, discord, shard_map, membership, queues, gc, module, left>>

UserThreadEnds ==
    /\ u = NoUser /\ terminate
    /\ threads' = threads \ {UserThread}
    /\ UNCHANGED <<config, discord, tables, queues, work, loaded, terminate, left>>
-----------------------------------------------------------------------------
(* `sudo unload module_sqlcache.so` and `sudo load` *)

\* Shards in one of the module's handlers: what happens when it is unloaded
\* under them is in ModuleLoader.
Handling(t) == pc[t] \in {"unmap", "forget"} \/ call[t].for = "create"

\* The destructor begins: no handler is called any more.
Unload(t) ==
    /\ t \in Shards /\ pc[t] = "heard" /\ loaded
    /\ \A s \in Shards : ~Handling(s)
    /\ loaded' = FALSE /\ terminate' = TRUE
    /\ Idle(t, "join")
    /\ UNCHANGED <<channels, settings, overtaken, config_sql_mutex, discord, tables, queues, work, threads,
                   left>>

\* DisposeThread() twice; the object and its queues are gone.
Joined(t) ==
    /\ pc[t] = "join" /\ threads = {}
    /\ terminate' = FALSE
    /\ guildqueue' = <<>> /\ userqueue' = <<>>
    /\ Goto(t, "idle")
    /\ UNCHANGED <<channels, settings, overtaken, config_sql_mutex, call, csettings, discord, tables, work,
                   loaded, threads, left>>

Load(t) ==
    /\ t \in Shards /\ pc[t] = "heard" /\ ~loaded /\ ~terminate
    /\ loaded' = TRUE
    /\ threads' = {GuildThread, UserThread}
    /\ Idle(t, "idle")
    /\ UNCHANGED <<channels, settings, overtaken, config_sql_mutex, discord, tables, queues, work, terminate,
                   left>>
-----------------------------------------------------------------------------
Handlers(t) ==
    \/ \E g \in Guilds :
         \/ GuildCreate(t, g) \/ GuildDelete(t, g)
         \/ \E user \in Users : MemberRemove(t, g, user) \/ MemberAdd(t, g, user)
    \/ \E c \in Channels : ChannelCreate(t, c) \/ ChannelDelete(t, c)
    \/ Unmap(t) \/ Forget(t)

Next ==
    \/ \E t \in Threads : ConfigSteps(t) /\ UNCHANGED cacheVars
    \/ \E c \in Channels : Dashboard(c) /\ UNCHANGED cacheVars
    \/ \E t \in Shards : Handlers(t) \/ Unload(t) \/ Joined(t) \/ Load(t)
    \/ PopGuild \/ QueuedChannel \/ QueuedMember \/ GuildDone \/ GuildThreadEnds
    \/ PopUser \/ WriteUser \/ UserThreadEnds
    \/ \E t \in Threads : Fault(t)
    \/ Restart

Spec == Init /\ [][Next]_vars

\* What a thread does once it has the mutex, or without it: a message that has
\* been heard is dropped or taken as a command.
Progress(t) ==
    \/ (Select(t) \/ Insert(t) \/ Reselect(t) \/ Dropped(t) \/ Update(t)) /\ UNCHANGED cacheVars
    \/ t \in Shards /\ (Unmap(t) \/ Forget(t) \/ Joined(t))
    \/ Fault(t)

GuildThreadStep == PopGuild \/ QueuedChannel \/ QueuedMember \/ GuildDone \/ GuildThreadEnds

UserThreadStep == PopUser \/ WriteUser \/ UserThreadEnds

\* Threads run, and one that waits for the mutex gets it although others take
\* it again and again: they sleep or wait for the gateway between two calls.
FairSpec ==
    /\ Spec
    /\ \A t \in Threads :
         WF_vars(Progress(t)) /\ SF_vars(FindChannel(t) /\ UNCHANGED cacheVars)
    /\ WF_vars(GuildThreadStep) /\ WF_vars(UserThreadStep)
-----------------------------------------------------------------------------
(* The settings of a channel belong to its guild, although the commands of
   the config module pass 0 for the guild: their row is always there. *)
GuildIdKept ==
    \A c \in Channels : settings[c] # NoRow => settings[c].guild = GuildOf[c]

(* A command that is about to be acknowledged ("Setting ... enabled") has a
   row to write to, whatever was deleted since the message came. *)
CommandsLand ==
    \A t \in Shards : pc[t] = "update" => settings[call[t].channel] # NoRow

(* A row that is deleted or made is nobody's edit. *)
Edited(c) ==
    /\ settings[c] # NoRow /\ settings'[c] # NoRow
    /\ settings'[c] # settings[c]

Changed(c) ==
    (settings[c].doc \ settings'[c].doc) \cup (settings'[c].doc \ settings[c].doc)

(* A command changes nothing that it does not name, unless the dashboard
   saves between the command's read and its write: only then is an edit
   lost.  Commands on one channel never overlap, because its events come on
   one thread. *)
OnlyWhatWasAsked ==
    [][\A c \in Channels : Edited(c) =>
         \/ Dashboard(c)
         \/ \E t \in Shards :
              /\ pc[t] = "update" /\ call[t].channel = c
              /\ t \in overtaken \/ Changed(c) \subseteq call[t].add \cup call[t].remove]_vars

(* vw_guild_members, which joins the three tables. *)
GuildMembers(g) ==
    {user \in user_cache : <<user, g>> \in membership /\ g \in shard_map}

(* The dashboard shows no members of a guild that the bot has left, although
   the guild thread may store members after they were deleted. *)
LeftGuildsHidden == \A g \in left : GuildMembers(g) = {}

(* "We also make sure settings exist for each channel on the server": each
   channel of a guild that was sent gets its row, unless the channel goes or
   the module is unloaded. *)
EveryChannelGetsSettings ==
    \A c \in Channels :
        (\E i \in DOMAIN guildqueue : guildqueue[i] = GuildOf[c])
          ~> settings[c] # NoRow \/ c \notin channels \/ ~loaded

(* Its members get theirs, through both queues. *)
EveryMemberIsStored ==
    \A user \in Users :
        (\E i \in DOMAIN guildqueue : user \in Members[guildqueue[i]])
          ~> user \in user_cache \/ user \notin users \/ ~loaded

(* Unloading drops what is queued and nothing else: a guild that the guild
   thread has begun is stored to the end, each channel's settings and each
   member that D++ still knows, although the destructor has set terminate. *)
BegunIsFinished ==
    \A g \in Guilds :
        /\ \A c \in Channels :
             gc.guild = g /\ c \in gc.channels ~> settings[c] # NoRow \/ c \notin channels
        /\ \A user \in Users :
             gc.guild = g /\ user \in gc.members
               ~> <<user, g>> \in membership \/ user \notin users

(* Unloading, which waits for both threads, comes to an end. *)
UnloadEnds == \A t \in Shards : pc[t] = "join" ~> pc[t] # "join"
=============================================================================
