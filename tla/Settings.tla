------------------------------- MODULE Settings -----------------------------
(***************************************************************************)
(* The settings of a channel: getSettings() (src/src/config.cpp), the      *)
(* ignore list in Bot::onMessage() (src/src/main.cpp) and the commands of  *)
(* the config module (src/modules/config/config.cpp).                      *)
(*                                                                         *)
(* A row is the channel's guild and a JSON document, here the set of what  *)
(* it says yes to: options ("talkative", "learningdisabled") and ignored   *)
(* users.  Every query is a step.  getSettings() holds config_sql_mutex    *)
(* through its queries, the commands hold nothing between reading and      *)
(* writing, and the dashboard, another process, saves when it likes.       *)
(*                                                                         *)
(* Events of a guild come on its shard's thread, one at a time.  SqlCache  *)
(* adds the other handlers and threads that use these rows.                *)
(***************************************************************************)
EXTENDS Integers, FiniteSets

CONSTANTS
    Guilds, Channels, Options,
    Users,        \* BOUND: those who are members, and whom commands name
    Authors,      \* of messages
    Shards,       \* their threads
    GuildThread,  \* SaveCachedGuildsThread()
    GuildOf,      \* of each channel
    ShardOf,      \* of each guild
    NoGuild,      \* the 0 that the config module passes
    NoChannel, NoRow,
    Free          \* config_sql_mutex is not held

ASSUME SettingsAssumption ==
    /\ GuildOf \in [Channels -> Guilds]
    /\ ShardOf \in [Guilds -> Shards]
    /\ GuildThread \notin Shards
    /\ NoGuild \notin Guilds /\ NoChannel \notin Channels
    /\ Free \notin Shards \cup {GuildThread}

Threads == Shards \cup {GuildThread}

Documents == SUBSET (Options \cup Users)

Rows == [guild : Guilds \cup {NoGuild}, doc : Documents]

ASSUME NoRowAssumption == NoRow \notin Rows

VARIABLES
    channels,          \* those D++ has in its cache
    settings,          \* infobot_discord_settings: channel -> row
    config_sql_mutex,  \* its holder or Free
    pc,                \* of each thread
    call,              \* each thread's call of getSettings() and what it is for
    csettings,         \* what it returned
    overtaken          \* history: shards whose command the dashboard overtook

config == <<channels, settings, config_sql_mutex, pc, call, csettings, overtaken>>

Steps == {"lock", "select", "insert", "reselect"}

\* What a thread calls getSettings() for, and where it goes on.
After == [message |-> "heard", command |-> "update", show |-> "idle",
          create |-> "idle", queued |-> "work"]

Calls == [for : DOMAIN After, channel : Channels \cup {NoChannel},
          guild : Guilds \cup {NoGuild}, add : Documents, remove : Documents]

NoCall == [for |-> "show", channel |-> NoChannel, guild |-> NoGuild,
           add |-> {}, remove |-> {}]

Goto(t, step) == pc' = [pc EXCEPT ![t] = step]

OnShard(t, g) == t \in Shards /\ ShardOf[g] = t

\* The thread's event is over and its locals are gone.
Idle(t, step) ==
    /\ Goto(t, step)
    /\ call' = [call EXCEPT ![t] = NoCall]
    /\ csettings' = [csettings EXCEPT ![t] = {}]

ConfigInit ==
    /\ channels = {}
    /\ settings = [c \in Channels |-> NoRow]
    /\ config_sql_mutex = Free
    /\ call = [t \in Threads |-> NoCall]
    /\ csettings = [t \in Threads |-> {}]
    /\ overtaken = {}
-----------------------------------------------------------------------------
(* getSettings(channel, guild) *)

GetSettings(t, for, c, g, add, remove) ==
    /\ call' = [call EXCEPT ![t] =
         [for |-> for, channel |-> c, guild |-> g, add |-> add, remove |-> remove]]
    /\ Goto(t, "lock")

\* return settings: what the caller does next.  For a message it takes the
\* ignore list from them.
Return(t, doc) ==
    LET next == After[call[t].for]
    IN  IF next = "idle" \/ next = "work"
        THEN Idle(t, next)
        ELSE /\ Goto(t, next)
             /\ csettings' = [csettings EXCEPT ![t] = IF next = "heard" THEN doc \cap Users ELSE doc]
             /\ call' = call

\* Mutant: an early return that leaves the mutex locked.
FindChannel_KeepsLock(t) ==
    /\ pc[t] = "lock" /\ config_sql_mutex = Free
    /\ config_sql_mutex' = t
    /\ IF call[t].channel \in channels
       THEN Goto(t, "select") /\ UNCHANGED <<call, csettings>>
       ELSE Return(t, {})
    /\ UNCHANGED <<channels, settings, overtaken>>

\* The lock and find_channel().  A command's channel is in the cache.
FindChannel(t) ==
    /\ pc[t] = "lock" /\ config_sql_mutex = Free
    /\ IF call[t].channel \in channels
       THEN /\ config_sql_mutex' = t
            /\ Goto(t, "select")
            /\ UNCHANGED <<call, csettings>>
       ELSE Return(t, {}) /\ UNCHANGED config_sql_mutex
    /\ UNCHANGED <<channels, settings, overtaken>>

\* Mutant: blank settings are returned and not created.
Select_NoInsert(t) ==
    LET row == settings[call[t].channel]
    IN  /\ pc[t] = "select"
        /\ Return(t, IF row = NoRow THEN {} ELSE row.doc)
        /\ config_sql_mutex' = Free
        /\ UNCHANGED <<channels, settings, overtaken>>

\* The first SELECT.  A row gets its name and parent updated, which are left
\* out, and is returned.
Select(t) ==
    LET row == settings[call[t].channel]
    IN  /\ pc[t] = "select"
        /\ IF row = NoRow
           THEN Goto(t, "insert") /\ UNCHANGED <<call, csettings, config_sql_mutex>>
           ELSE Return(t, row.doc) /\ config_sql_mutex' = Free
        /\ UNCHANGED <<channels, settings, overtaken>>

\* The primary key refuses a second row; an error does not stop getSettings().
Insert(t) ==
    LET c == call[t].channel
    IN  /\ pc[t] = "insert"
        /\ settings' = IF settings[c] # NoRow THEN settings
                       ELSE [settings EXCEPT ![c] = [guild |-> call[t].guild, doc |-> {}]]
        /\ Goto(t, "reselect")
        /\ UNCHANGED <<channels, config_sql_mutex, call, csettings, overtaken>>

\* The second SELECT; without a row, r[0] does not exist: see SqlCache!Restart.
Reselect(t) ==
    LET row == settings[call[t].channel]
    IN  /\ pc[t] = "reselect" /\ row # NoRow
        /\ Return(t, row.doc)
        /\ config_sql_mutex' = Free
        /\ UNCHANGED <<channels, settings, overtaken>>
-----------------------------------------------------------------------------
(* Messages *)

\* Mutant: settings are only looked at when a command needs them.
OnMessage_NoSettings(t, c) ==
    /\ pc[t] = "idle" /\ OnShard(t, GuildOf[c])
    /\ call' = [call EXCEPT ![t] = [NoCall EXCEPT !.for = "message", !.channel = c]]
    /\ Goto(t, "heard")
    /\ UNCHANGED <<channels, settings, overtaken, config_sql_mutex, csettings>>

OnMessage(t, c) ==
    /\ pc[t] = "idle" /\ OnShard(t, GuildOf[c])
    /\ GetSettings(t, "message", c, GuildOf[c], {}, {})
    /\ UNCHANGED <<channels, settings, overtaken, config_sql_mutex, csettings>>

\* The author is ignored, or no command was given, or nobody may give it.
Dropped(t) ==
    /\ pc[t] = "heard"
    /\ Idle(t, "idle")
    /\ UNCHANGED <<channels, settings, overtaken, config_sql_mutex>>

\* "config set", "config ignore add" and "config ignore del": what they name.
Changes(author) ==
    {<<{o}, {}>> : o \in Options} \cup {<<{}, {o}>> : o \in Options}
      \cup {<<m, {}>> : m \in SUBSET (Users \ {author}) \ {{}}}
      \cup {<<{}, m>> : m \in SUBSET Users \ {{}}}

\* DoConfig() with permission, which needs the channel and the guild.
Command(t) ==
    LET c == call[t].channel
    IN  /\ pc[t] = "heard" /\ c \in channels
        /\ \E author \in Authors \ csettings[t] :
             \/ GetSettings(t, "show", c, NoGuild, {}, {})
             \/ \E change \in Changes(author) :
                  GetSettings(t, "command", c, NoGuild, change[1], change[2])
        /\ csettings' = [csettings EXCEPT ![t] = {}]
        /\ UNCHANGED <<channels, settings, overtaken, config_sql_mutex>>

\* Mutant: the new document has the ignore list and the option it is about.
Update_ForgetsOptions(t) ==
    LET c == call[t].channel
        doc == ((csettings[t] \cap Users) \cup call[t].add) \ call[t].remove
    IN  /\ pc[t] = "update"
        /\ settings' = IF settings[c] = NoRow THEN settings
                       ELSE [settings EXCEPT ![c].doc = doc]
        /\ Idle(t, "idle")
        /\ overtaken' = overtaken \ {t}
        /\ UNCHANGED <<channels, config_sql_mutex>>

\* The UPDATE of the whole document.
Update(t) ==
    LET c == call[t].channel
        doc == (csettings[t] \cup call[t].add) \ call[t].remove
    IN  /\ pc[t] = "update"
        /\ settings' = IF settings[c] = NoRow THEN settings
                       ELSE [settings EXCEPT ![c].doc = doc]
        /\ Idle(t, "idle")
        /\ overtaken' = overtaken \ {t}
        /\ UNCHANGED <<channels, config_sql_mutex>>

\* The dashboard saves the settings of a channel.
Dashboard(c) ==
    /\ settings[c] # NoRow
    /\ \E doc \in Documents : settings' = [settings EXCEPT ![c].doc = doc]
    /\ overtaken' = overtaken \cup {t \in Shards : pc[t] = "update" /\ call[t].channel = c}
    /\ UNCHANGED <<channels, config_sql_mutex, pc, call, csettings>>

ConfigSteps(t) ==
    \/ FindChannel(t) \/ Select(t) \/ Insert(t) \/ Reselect(t)
    \/ \E c \in Channels : OnMessage(t, c)
    \/ Dropped(t) \/ Command(t) \/ Update(t)
=============================================================================
