---------------------------- MODULE SqlCacheProofs --------------------------
(***************************************************************************)
(* Safety of Settings and SqlCache for any guilds, channels, users, shards *)
(* and queues.                                                             *)
(***************************************************************************)
EXTENDS SqlCache, TLAPS

ConfigType ==
    /\ channels \in SUBSET Channels
    /\ settings \in [Channels -> Rows \cup {NoRow}]
    /\ config_sql_mutex \in Threads \cup {Free}
    /\ pc \in [Threads -> Places]
    /\ call \in [Threads -> Calls]
    /\ csettings \in [Threads -> Documents]
    /\ overtaken \in SUBSET Shards

(* The constants' assumptions and the shapes of the helpers' values. *)
LEMMA Constants ==
    /\ GuildOf \in [Channels -> Guilds] /\ ShardOf \in [Guilds -> Shards]
    /\ GuildThread \notin Shards /\ Threads = Shards \cup {GuildThread}
    /\ NoGuild \notin Guilds /\ NoChannel \notin Channels /\ NoRow \notin Rows
    /\ Members \in [Guilds -> SUBSET Users]
    /\ NoCall \in Calls
BY SettingsAssumption, NoRowAssumption, SqlCacheAssumption
   DEF Threads, NoCall, Calls, After, Documents

(* A call of getSettings() keeps the types. *)
LEMMA GetSettingsType ==
    ASSUME ConfigType, NEW t \in Threads, NEW for \in DOMAIN After, NEW c \in Channels,
           NEW g \in Guilds \cup {NoGuild}, NEW add \in Documents, NEW remove \in Documents,
           GetSettings(t, for, c, g, add, remove)
    PROVE  call' \in [Threads -> Calls]
           /\ pc' \in [Threads -> Places]
<1>1. [for |-> for, channel |-> c, guild |-> g, add |-> add, remove |-> remove] \in Calls
  BY DEF Calls
<1> QED
  BY <1>1, Constants DEF ConfigType, GetSettings, Goto, Places, Steps

LEMMA IdleType ==
    ASSUME ConfigType, NEW t \in Threads, NEW step \in {"idle", "work", "join"}, Idle(t, step)
    PROVE  /\ call' \in [Threads -> Calls]
           /\ csettings' \in [Threads -> Documents]
           /\ pc' \in [Threads -> Places]
BY Constants DEF ConfigType, Idle, Goto, Documents, Places

LEMMA ReturnType ==
    ASSUME ConfigType, NEW t \in Threads, NEW doc \in Documents, Return(t, doc)
    PROVE  /\ call' \in [Threads -> Calls]
           /\ csettings' \in [Threads -> Documents]
           /\ pc' \in [Threads -> Places]
<1> DEFINE next == After[call[t].for]
<1>1. call[t].for \in DOMAIN After
  BY DEF ConfigType, Calls
<1>2. next \in {"heard", "update", "idle", "work"}
  BY <1>1 DEF After
<1>3. doc \cap Users \in Documents
  BY DEF Documents
<1>4. CASE next = "idle" \/ next = "work"
  <2>1. Idle(t, next)
    BY <1>4 DEF Return
  <2> QED BY <2>1, <1>4, IdleType
<1>5. CASE ~(next = "idle" \/ next = "work")
  <2>1. PICK d \in Documents : csettings' = [csettings EXCEPT ![t] = d]
    BY <1>5, <1>3 DEF Return
  <2>2. next \in Places /\ Goto(t, next) /\ call' = call
    BY <1>5, <1>2 DEF Return, Places
  <2> QED BY <2>1, <2>2 DEF Goto, ConfigType
<1> QED BY <1>4, <1>5

(* What a command adds and removes are documents. *)
LEMMA ChangesType ==
    ASSUME NEW author, NEW change \in Changes(author)
    PROVE  change[1] \in Documents /\ change[2] \in Documents
BY DEF Changes, Documents

(* The document of a row. *)
LEMMA RowType ==
    ASSUME ConfigType, NEW c \in Channels, settings[c] # NoRow
    PROVE  /\ settings[c] \in Rows
           /\ settings[c].doc \in Documents
           /\ settings[c].guild \in Guilds \cup {NoGuild}
BY DEF ConfigType, Rows

LEMMA CallType ==
    ASSUME ConfigType, NEW t \in Threads
    PROVE  /\ call[t].for \in DOMAIN After
           /\ call[t].channel \in Channels \cup {NoChannel}
           /\ call[t].guild \in Guilds \cup {NoGuild}
           /\ call[t].add \in Documents /\ call[t].remove \in Documents
BY DEF ConfigType, Calls

(* The settings, the mutex and the shards keep their types in getSettings()
   and in the handling of a message. *)
LEMMA ConfigStepsType ==
    ASSUME ConfigType, NEW t \in Threads, ConfigSteps(t),
           pc[t] \in Steps => call[t].channel \in Channels
    PROVE  ConfigType'
<1> USE Constants
<1>1. CASE FindChannel(t)
  <2>1. CASE call[t].channel \in channels
    BY <1>1, <2>1 DEF FindChannel, ConfigType, Goto, Places, Steps
  <2>2. CASE call[t].channel \notin channels
    <3>1. {} \in Documents
      BY DEF Documents
    <3>2. Return(t, {}) /\ UNCHANGED <<channels, settings, overtaken, config_sql_mutex>>
      BY <1>1, <2>2 DEF FindChannel
    <3> QED BY <3>1, <3>2, ReturnType DEF ConfigType
  <2> QED BY <2>1, <2>2
<1>2. CASE Select(t)
  <2>1. CASE settings[call[t].channel] = NoRow
    BY <1>2, <2>1 DEF Select, ConfigType, Goto, Places, Steps
  <2>2. CASE settings[call[t].channel] # NoRow
    <3>1. settings[call[t].channel].doc \in Documents
      BY <2>2, <1>2, RowType DEF Select, Steps
    <3> QED BY <1>2, <2>2, <3>1, ReturnType DEF Select, ConfigType
  <2> QED BY <2>1, <2>2
<1>3. CASE Insert(t)
  <2>1. [guild |-> call[t].guild, doc |-> {}] \in Rows
    BY CallType DEF Rows, Documents
  <2> QED BY <1>3, <2>1 DEF Insert, ConfigType, Goto, Places, Steps
<1>4. CASE Reselect(t)
  <2>1. settings[call[t].channel].doc \in Documents
    BY <1>4, RowType DEF Reselect, Steps
  <2> QED BY <1>4, <2>1, ReturnType DEF Reselect, ConfigType
<1>5. ASSUME NEW c \in Channels, OnMessage(t, c) PROVE ConfigType'
  <2>1. "message" \in DOMAIN After /\ {} \in Documents /\ GuildOf[c] \in Guilds \cup {NoGuild}
    BY DEF After, Documents
  <2>2. GetSettings(t, "message", c, GuildOf[c], {}, {})
    BY <1>5 DEF OnMessage
  <2>3. call' \in [Threads -> Calls] /\ pc' \in [Threads -> Places]
    BY <2>1, <2>2, GetSettingsType
  <2> QED BY <1>5, <2>3 DEF OnMessage, ConfigType
<1>6. CASE Dropped(t)
  BY <1>6, IdleType DEF Dropped, ConfigType
<1>7. CASE Command(t)
  <2> DEFINE c == call[t].channel
  <2>1. c \in Channels
    BY <1>7 DEF Command, ConfigType
  <2>2. "show" \in DOMAIN After /\ "command" \in DOMAIN After /\ {} \in Documents
    BY DEF After, Documents
  <2>3. PICK author \in Authors \ csettings[t] :
          \/ GetSettings(t, "show", c, NoGuild, {}, {})
          \/ \E change \in Changes(author) :
               GetSettings(t, "command", c, NoGuild, change[1], change[2])
    BY <1>7 DEF Command
  <2>4. CASE GetSettings(t, "show", c, NoGuild, {}, {})
    <3>1. call' \in [Threads -> Calls] /\ pc' \in [Threads -> Places]
      BY <2>1, <2>2, <2>4, GetSettingsType
    <3> QED BY <1>7, <3>1, <2>2 DEF Command, ConfigType
  <2>5. ASSUME NEW change \in Changes(author),
               GetSettings(t, "command", c, NoGuild, change[1], change[2])
        PROVE  ConfigType'
    <3>1. call' \in [Threads -> Calls] /\ pc' \in [Threads -> Places]
      BY <2>1, <2>2, <2>5, GetSettingsType, ChangesType
    <3> QED BY <1>7, <3>1, <2>2 DEF Command, ConfigType
  <2> QED BY <2>3, <2>4, <2>5
<1>8. CASE Update(t)
  <2> DEFINE c == call[t].channel
             doc == (csettings[t] \cup call[t].add) \ call[t].remove
  <2>1. doc \in Documents
    BY CallType DEF ConfigType, Documents
  <2>2. settings' \in [Channels -> Rows \cup {NoRow}]
    <3>1. CASE settings[c] = NoRow
      BY <1>8, <3>1 DEF Update, ConfigType
    <3>2. CASE settings[c] # NoRow
      <4>1. settings' = [settings EXCEPT ![c].doc = doc]
        BY <1>8, <3>2 DEF Update
      <4>2. c \in Channels => [settings[c] EXCEPT !.doc = doc] \in Rows
        BY <3>2, <2>1, RowType DEF Rows
      <4> QED BY <4>1, <4>2 DEF ConfigType
    <3> QED BY <3>1, <3>2
  <2> QED BY <1>8, <2>2, IdleType DEF Update, ConfigType
<1> QED BY <1>1, <1>2, <1>3, <1>4, <1>5, <1>6, <1>7, <1>8 DEF ConfigSteps
-----------------------------------------------------------------------------
(* The inductive invariant *)

CacheType ==
    /\ guilds \in SUBSET Guilds /\ users \in SUBSET Users
    /\ shard_map \in SUBSET Guilds
    /\ membership \in SUBSET (Users \X Guilds)
    /\ user_cache \in SUBSET Users
    /\ guildqueue \in Seq(Guilds) /\ userqueue \in Seq(Users)
    /\ gc \in [guild : Guilds \cup {NoGuild}, channels : SUBSET Channels,
               members : SUBSET Users]
    /\ u \in Users \cup {NoUser}
    /\ loaded \in BOOLEAN /\ terminate \in BOOLEAN
    /\ threads \in SUBSET {GuildThread, UserThread}
    /\ left \in SUBSET Guilds

Owner(c) == ShardOf[GuildOf[c]]

(* A shard works on a channel of its own guilds.  A command only runs where a
   row is, because the message it came in has made one and nobody but this
   shard deletes it. *)
ShardOK(t) ==
    LET c == call[t].channel
        g == call[t].guild
    IN  /\ pc[t] # "work"
        /\ pc[t] \in Steps \cup {"heard", "update"} => c \in Channels /\ Owner(c) = t
        /\ pc[t] \in Steps =>
             /\ call[t].for # "queued"
             /\ call[t].for \in {"message", "create"} => g = GuildOf[c]
             /\ call[t].for \in {"command", "show"} => c \in channels /\ settings[c] # NoRow
        /\ pc[t] = "heard" /\ c \in channels => settings[c] # NoRow
        /\ pc[t] = "update" =>
             /\ settings[c] # NoRow
             /\ t \notin overtaken => csettings[t] = settings[c].doc
        /\ pc[t] \in {"unmap", "forget"} => g \in Guilds /\ ShardOf[g] = t
        /\ pc[t] = "forget" => g \notin shard_map

GuildThreadOK ==
    /\ pc[GuildThread] \in Steps \cup {"idle", "work"}
    /\ pc[GuildThread] \in Steps =>
         /\ call[GuildThread].for = "queued"
         /\ call[GuildThread].channel \in Channels
         /\ call[GuildThread].guild = GuildOf[call[GuildThread].channel]
    /\ \A c \in gc.channels : GuildOf[c] = gc.guild
    /\ gc.members # {} => gc.guild \in Guilds

LeftOK == left \cap shard_map = {}

IInv ==
    /\ ConfigType /\ CacheType
    /\ \A t \in Shards : ShardOK(t)
    /\ GuildThreadOK
    /\ GuildIdKept
    /\ LeftOK

(* Only t moved. *)
Others(t) ==
    \A s \in Threads \ {t} :
        pc'[s] = pc[s] /\ call'[s] = call[s] /\ csettings'[s] = csettings[s]

Keeps(c) ==
    /\ c \in channels' <=> c \in channels
    /\ settings[c] # NoRow => settings'[c] = settings[c]

(* What thread t did leaves the other shards as they were: it touched the
   cache, the rows and the map of its own guilds only. *)
LEMMA OtherShards ==
    ASSUME IInv, NEW t \in Threads, Others(t),
           \A c \in Channels : Owner(c) # t => Keeps(c),
           overtaken \subseteq overtaken' \cup {t},
           \A g \in shard_map' \ shard_map : ShardOf[g] = t
    PROVE  \A s \in Shards \ {t} : ShardOK(s)'
<1> TAKE s \in Shards \ {t}
<1>1. s \in Threads /\ pc'[s] = pc[s] /\ call'[s] = call[s] /\ csettings'[s] = csettings[s]
  BY DEF Others, Threads
<1>2. ShardOK(s)
  BY DEF IInv
<1>3. pc[s] \in Steps \cup {"heard", "update"} => Keeps(call[s].channel)
  BY <1>2 DEF ShardOK
<1> QED
  BY <1>1, <1>2, <1>3 DEF ShardOK, Keeps, Owner, Steps

(* A shard does not disturb the guild thread. *)
LEMMA GuildThreadKept ==
    ASSUME IInv, NEW t \in Shards, Others(t), gc' = gc
    PROVE  GuildThreadOK'
BY Constants DEF IInv, Others, GuildThreadOK

LEMMA Appended == ASSUME NEW S, NEW s \in Seq(S), NEW x \in S PROVE Append(s, x) \in Seq(S)
OBVIOUS

(* Empty queues and no guild to work on. *)
LEMMA Nothing ==
    /\ NoWork \in [guild : Guilds \cup {NoGuild}, channels : SUBSET Channels,
                   members : SUBSET Users]
    /\ NoWork.channels = {} /\ NoWork.members = {}
    /\ <<>> \in Seq(Guilds) /\ <<>> \in Seq(Users)
<1>1. NoWork.channels = {} /\ NoWork.members = {}
  BY DEF NoWork
<1>2. NoWork \in [guild : Guilds \cup {NoGuild}, channels : SUBSET Channels,
                 members : SUBSET Users]
  BY DEF NoWork
<1>3. <<>> \in Seq(Guilds) /\ <<>> \in Seq(Users)
  OBVIOUS
<1> QED BY <1>1, <1>2, <1>3
-----------------------------------------------------------------------------
LEMMA InitInv == Init => IInv
<1> SUFFICES ASSUME Init PROVE IInv
  OBVIOUS
<1> USE Constants
<1>1. ConfigType
  BY DEF Init, ConfigInit, ConfigType, Places, Documents
<1>2. CacheType
  BY Nothing DEF Init, CacheType
<1>3. ASSUME NEW t \in Shards PROVE ShardOK(t)
  BY <1>3 DEF Init, ShardOK, Steps
<1>4. GuildThreadOK
  BY Nothing DEF Init, GuildThreadOK, Threads, Steps
<1>5. GuildIdKept /\ LeftOK
  BY DEF Init, ConfigInit, GuildIdKept, LeftOK
<1> QED BY <1>1, <1>2, <1>3, <1>4, <1>5 DEF IInv

LEMMA RestartInv == ASSUME IInv, Restart PROVE IInv'
<1> USE Constants DEF Restart, Boot, tables
<1>1. ConfigType'
  BY DEF IInv, ConfigType, Places, Documents
<1>2. CacheType'
  BY Nothing DEF IInv, CacheType
<1>3. ASSUME NEW t \in Shards PROVE ShardOK(t)'
  BY <1>3 DEF ShardOK, Steps
<1>4. GuildThreadOK'
  BY Nothing DEF GuildThreadOK, Threads, Steps
<1>5. GuildIdKept' /\ LeftOK'
  BY DEF IInv, GuildIdKept, LeftOK
<1> QED BY <1>1, <1>2, <1>3, <1>4, <1>5 DEF IInv
-----------------------------------------------------------------------------
(* Where a return of getSettings() leads. *)
LEMMA Returned ==
    ASSUME ConfigType, NEW t \in Threads, NEW doc, Return(t, doc)
    PROVE  /\ Others(t)
           /\ call[t].for = "message" => pc'[t] = "heard" /\ call' = call
           /\ call[t].for = "command" => pc'[t] = "update" /\ call' = call /\ csettings'[t] = doc
           /\ call[t].for \in {"show", "create"} => pc'[t] = "idle"
           /\ call[t].for = "queued" => pc'[t] = "work"
<1>1. call[t].for \in DOMAIN After
  BY CallType
<1>2. call[t].for \in {"message", "command", "show", "create", "queued"}
  BY <1>1 DEF After
<1> QED BY <1>2 DEF Return, Idle, Goto, Others, ConfigType, After

(* A step of getSettings() or of a message concerns one thread's channel. *)
LEMMA ConfigStepFrame ==
    ASSUME IInv, NEW t \in Threads, ConfigSteps(t)
    PROVE  /\ pc[t] \in Steps => call[t].channel \in Channels
           /\ Others(t)
           /\ \A c \in Channels : Owner(c) # t => Keeps(c)
           /\ channels' = channels
           /\ overtaken \subseteq overtaken' \cup {t}
<1> USE DEF Keeps
<1>1. pc[t] \in Steps => call[t].channel \in Channels
  BY DEF IInv, ShardOK, GuildThreadOK, Threads
<1>2. ConfigType /\ (t \in Shards => ShardOK(t)) /\ (t \notin Shards => t = GuildThread)
  BY DEF IInv, Threads
<1>3. ASSUME NEW doc, Return(t, doc) PROVE Others(t)
  BY <1>2, <1>3, Returned
<1>4. ASSUME NEW for, NEW c, NEW g, NEW add, NEW remove, GetSettings(t, for, c, g, add, remove),
             csettings' = csettings \/ csettings' = [csettings EXCEPT ![t] = {}]
      PROVE  Others(t)
  BY <1>2, <1>4 DEF GetSettings, Goto, Others, ConfigType
<1>5. CASE FindChannel(t)
  <2>1. Others(t)
    BY <1>2, <1>3, <1>5 DEF FindChannel, Goto, Others, ConfigType
  <2> QED BY <1>1, <1>5, <2>1 DEF FindChannel
<1>6. CASE Select(t)
  <2>1. Others(t)
    BY <1>2, <1>3, <1>6 DEF Select, Goto, Others, ConfigType
  <2> QED BY <1>1, <1>6, <2>1 DEF Select
<1>7. CASE Insert(t)
  <2>1. Others(t)
    BY <1>2, <1>7 DEF Insert, Goto, Others, ConfigType
  <2>2. \A c \in Channels : Keeps(c)
    BY <1>2, <1>7 DEF Insert, ConfigType
  <2> QED BY <1>1, <1>7, <2>1, <2>2 DEF Insert
<1>8. CASE Reselect(t)
  <2>1. Others(t)
    BY <1>2, <1>3, <1>8 DEF Reselect, Goto, Others, ConfigType
  <2> QED BY <1>1, <1>8, <2>1 DEF Reselect
<1>9. ASSUME NEW c \in Channels, OnMessage(t, c) PROVE Others(t) /\ UNCHANGED <<channels, settings, overtaken>>
  BY <1>4, <1>9 DEF OnMessage
<1>10. CASE Dropped(t)
  <2>1. Others(t)
    BY <1>2, <1>10 DEF Dropped, Idle, Goto, Others, ConfigType
  <2> QED BY <1>1, <1>10, <2>1 DEF Dropped
<1>11. CASE Command(t)
  <2>1. Others(t)
    BY <1>4, <1>11 DEF Command
  <2> QED BY <1>1, <1>11, <2>1 DEF Command
<1>12. CASE Update(t)
  <2>1. Others(t)
    BY <1>2, <1>12 DEF Update, Idle, Goto, Others, ConfigType
  <2>2. t \in Shards /\ Owner(call[t].channel) = t
    BY <1>2, <1>12 DEF Update, ShardOK, IInv, GuildThreadOK, Steps
  <2>3. \A c \in Channels : Owner(c) # t => Keeps(c)
    BY <1>2, <1>12, <2>2 DEF Update, ConfigType
  <2> QED BY <1>1, <1>12, <2>1, <2>3 DEF Update
<1> QED BY <1>1, <1>5, <1>6, <1>7, <1>8, <1>9, <1>10, <1>11, <1>12 DEF ConfigSteps

(* A row is made with the guild of its channel, since only calls that know the
   guild find none. *)
LEMMA ConfigStepRows ==
    ASSUME IInv, NEW t \in Threads, ConfigSteps(t)
    PROVE  GuildIdKept'
<1>1. ConfigType /\ GuildIdKept /\ (t \in Shards => ShardOK(t)) /\ (t \notin Shards => t = GuildThread)
  BY DEF IInv, Threads
<1>2. CASE Insert(t)
  <2>1. settings[call[t].channel] = NoRow => call[t].guild = GuildOf[call[t].channel]
    <3>1. CASE t \in Shards
      <4>1. call[t].for \in {"message", "create", "command", "show", "queued"}
        BY <1>1, CallType DEF After
      <4> QED BY <1>1, <1>2, <3>1, <4>1 DEF Insert, ShardOK, Steps
    <3>2. CASE t \notin Shards
      BY <1>1, <1>2, <3>2 DEF IInv, GuildThreadOK, Insert, Steps
    <3> QED BY <3>1, <3>2
  <2> QED BY <1>1, <1>2, <2>1 DEF Insert, GuildIdKept, ConfigType
<1>3. CASE Update(t)
  <2> DEFINE c == call[t].channel
             doc == (csettings[t] \cup call[t].add) \ call[t].remove
  <2>1. CASE settings[c] = NoRow
    BY <1>1, <1>3, <2>1 DEF Update, GuildIdKept
  <2>2. CASE settings[c] # NoRow
    <3>1. settings' = [settings EXCEPT ![c].doc = doc]
      BY <1>3, <2>2 DEF Update
    <3>2. c \in Channels => [settings[c] EXCEPT !.doc = doc].guild = settings[c].guild
      BY <1>1, <2>2, RowType DEF Rows
    <3> QED BY <1>1, <2>2, <3>1, <3>2 DEF GuildIdKept, ConfigType
  <2> QED BY <2>1, <2>2
<1>4. CASE UNCHANGED settings
  BY <1>1, <1>4 DEF GuildIdKept
<1> QED
  BY <1>2, <1>3, <1>4 DEF ConfigSteps, FindChannel, Select, Reselect, OnMessage, Dropped, Command

(* The shard that steps stays consistent with the rows it works on. *)
LEMMA ConfigStepShard ==
    ASSUME IInv, NEW t \in Shards, ConfigSteps(t), UNCHANGED cacheVars
    PROVE  ShardOK(t)'
<1> USE Constants
<1> DEFINE c == call[t].channel
<1>1. /\ t \in Threads /\ ConfigType /\ ShardOK(t)
      /\ call[t].for \in {"message", "create", "command", "show", "queued"}
      /\ shard_map' = shard_map /\ channels \in SUBSET Channels
  BY CallType DEF IInv, After, ConfigType, cacheVars, tables
<1>2. CASE FindChannel(t)
  <2>1. CASE c \in channels
    <3>1. pc'[t] = "select" /\ call' = call /\ UNCHANGED <<channels, settings>>
      BY <1>1, <1>2, <2>1 DEF FindChannel, Goto, ConfigType
    <3> QED BY <1>1, <1>2, <3>1 DEF FindChannel, ShardOK, Steps, Owner
  <2>2. CASE c \notin channels
    <3>1. Return(t, {}) /\ UNCHANGED <<channels, settings>>
      BY <1>2, <2>2 DEF FindChannel
    <3>2. call[t].for \in {"message", "create"}
      BY <1>1, <1>2, <2>2 DEF FindChannel, ShardOK, Steps
    <3>3. pc'[t] = "idle" \/ (pc'[t] = "heard" /\ call' = call)
      BY <1>1, <3>1, <3>2, Returned
    <3> QED BY <1>1, <1>2, <2>2, <3>1, <3>3 DEF FindChannel, ShardOK, Steps, Owner
  <2> QED BY <2>1, <2>2
<1>3. ASSUME settings[c] # NoRow, Return(t, settings[c].doc), pc[t] \in Steps,
             UNCHANGED <<channels, settings, overtaken>>
      PROVE  ShardOK(t)'
  <2>1. \/ pc'[t] = "idle"
        \/ pc'[t] = "heard" /\ call' = call
        \/ pc'[t] = "update" /\ call' = call /\ csettings'[t] = settings[c].doc
    BY <1>1, <1>3, Returned DEF ShardOK
  <2> QED BY <1>1, <1>3, <2>1 DEF ShardOK, Steps, Owner
<1>4. CASE Select(t)
  <2>1. CASE settings[c] = NoRow
    <3>1. pc'[t] = "insert" /\ call' = call /\ UNCHANGED <<channels, settings>>
      BY <1>1, <1>4, <2>1 DEF Select, Goto, ConfigType
    <3> QED BY <1>1, <1>4, <3>1 DEF Select, ShardOK, Steps, Owner
  <2>2. CASE settings[c] # NoRow
    BY <1>3, <1>4, <2>2 DEF Select, Steps
  <2> QED BY <2>1, <2>2
<1>5. CASE Insert(t)
  <2>1. pc'[t] = "reselect" /\ call' = call /\ UNCHANGED channels
    BY <1>1, <1>5 DEF Insert, Goto, ConfigType
  <2>2. settings[c] # NoRow => settings' = settings
    BY <1>5 DEF Insert
  <2> QED BY <1>1, <1>5, <2>1, <2>2 DEF Insert, ShardOK, Steps, Owner
<1>6. CASE Reselect(t)
  BY <1>3, <1>6 DEF Reselect, Steps
<1>7. ASSUME NEW d \in Channels, OnMessage(t, d) PROVE ShardOK(t)'
  <2>1. pc'[t] = "lock" /\ Owner(d) = t /\ call'[t].for = "message"
        /\ call'[t].channel = d /\ call'[t].guild = GuildOf[d]
    BY <1>1, <1>7 DEF OnMessage, OnShard, GetSettings, Goto, ConfigType, Owner
  <2> QED BY <2>1 DEF ShardOK, Steps, Owner
<1>8. CASE Dropped(t)
  <2>1. pc'[t] = "idle"
    BY <1>1, <1>8 DEF Dropped, Idle, Goto, ConfigType
  <2> QED BY <2>1 DEF ShardOK, Steps
<1>9. CASE Command(t)
  <2>1. pc'[t] = "lock" /\ call'[t].for \in {"command", "show"} /\ call'[t].channel = c
        /\ UNCHANGED <<channels, settings>>
    BY <1>1, <1>9 DEF Command, GetSettings, Goto, ConfigType
  <2>2. c \in channels /\ settings[c] # NoRow /\ Owner(c) = t
    BY <1>1, <1>9 DEF Command, ShardOK
  <2> QED BY <1>1, <2>1, <2>2 DEF ShardOK, Steps, Owner
<1>10. CASE Update(t)
  <2>1. pc'[t] = "idle"
    BY <1>1, <1>10 DEF Update, Idle, Goto, ConfigType
  <2> QED BY <2>1 DEF ShardOK, Steps
<1> QED BY <1>2, <1>4, <1>5, <1>6, <1>7, <1>8, <1>9, <1>10 DEF ConfigSteps

(* The guild thread in getSettings(). *)
LEMMA ConfigStepGuildThread ==
    ASSUME IInv, ConfigSteps(GuildThread), UNCHANGED cacheVars
    PROVE  GuildThreadOK'
<1> USE Constants
<1> DEFINE t == GuildThread
<1>1. t \in Threads /\ ConfigType /\ GuildThreadOK /\ gc' = gc
  BY DEF IInv, cacheVars, work
<1>2. ASSUME NEW doc, pc[t] \in Steps, Return(t, doc) PROVE pc'[t] = "work"
  BY <1>1, <1>2, Returned DEF GuildThreadOK
<1>3. pc[t] \notin {"heard", "update"}
  BY <1>1 DEF GuildThreadOK, Steps
<1>4. \A c \in Channels : ~OnMessage(t, c)
  BY DEF OnMessage, OnShard
<1>5. CASE FindChannel(t)
  <2>1. pc'[t] = "work" \/ (pc'[t] = "select" /\ call' = call)
    BY <1>1, <1>2, <1>5 DEF FindChannel, Goto, ConfigType, Steps
  <2> QED BY <1>1, <1>5, <2>1 DEF GuildThreadOK, FindChannel, Steps
<1>6. CASE Select(t)
  <2>1. pc'[t] = "work" \/ (pc'[t] = "insert" /\ call' = call)
    BY <1>1, <1>2, <1>6 DEF Select, Goto, ConfigType, Steps
  <2> QED BY <1>1, <1>6, <2>1 DEF GuildThreadOK, Select, Steps
<1>7. CASE Insert(t)
  <2>1. pc'[t] = "reselect" /\ call' = call
    BY <1>1, <1>7 DEF Insert, Goto, ConfigType
  <2> QED BY <1>1, <1>7, <2>1 DEF GuildThreadOK, Insert, Steps
<1>8. CASE Reselect(t)
  <2>1. pc'[t] = "work"
    BY <1>1, <1>2, <1>8 DEF Reselect, Steps
  <2> QED BY <1>1, <2>1 DEF GuildThreadOK, Steps
<1> QED
  BY <1>3, <1>4, <1>5, <1>6, <1>7, <1>8 DEF ConfigSteps, Dropped, Command, Update

LEMMA ConfigStepInv ==
    ASSUME IInv, NEW t \in Threads, ConfigSteps(t), UNCHANGED cacheVars
    PROVE  IInv'
<1>1. ConfigType'
  BY ConfigStepsType, ConfigStepFrame DEF IInv
<1>2. CacheType' /\ LeftOK' /\ shard_map' = shard_map /\ gc' = gc
  BY DEF IInv, CacheType, LeftOK, cacheVars, discord, tables, queues, work, module
<1>3. \A s \in Shards \ {t} : ShardOK(s)'
  BY <1>2, ConfigStepFrame, OtherShards
<1>4. t \in Shards => ShardOK(t)'
  BY ConfigStepShard
<1>5. GuildThreadOK'
  <2>1. CASE t \in Shards
    BY <1>2, <2>1, ConfigStepFrame, GuildThreadKept
  <2>2. CASE t \notin Shards
    BY <2>2, ConfigStepGuildThread DEF Threads
  <2> QED BY <2>1, <2>2
<1> QED BY <1>1, <1>2, <1>3, <1>4, <1>5, ConfigStepRows DEF IInv

LEMMA DashboardInv ==
    ASSUME IInv, NEW c \in Channels, Dashboard(c), UNCHANGED cacheVars
    PROVE  IInv'
<1>1. PICK doc \in Documents : settings' = [settings EXCEPT ![c].doc = doc]
  BY DEF Dashboard
<1>2. /\ [settings[c] EXCEPT !.doc = doc] \in Rows
      /\ [settings[c] EXCEPT !.doc = doc].guild = settings[c].guild
  BY RowType DEF IInv, Dashboard, Rows
<1>3. ConfigType' /\ GuildIdKept'
  BY <1>1, <1>2 DEF IInv, ConfigType, GuildIdKept, Dashboard
<1>4. /\ CacheType' /\ LeftOK' /\ GuildThreadOK'
      /\ shard_map' = shard_map /\ pc' = pc /\ call' = call /\ csettings' = csettings
      /\ channels' = channels
  BY DEF IInv, CacheType, LeftOK, GuildThreadOK, Dashboard, cacheVars, discord, tables, queues,
         work, module
<1>5. ASSUME NEW d \in Channels
      PROVE  /\ settings[d] # NoRow => settings'[d] # NoRow
             /\ d # c => settings'[d] = settings[d]
  BY <1>1, <1>2, Constants DEF IInv, ConfigType
<1>6. ASSUME NEW s \in Shards PROVE ShardOK(s)'
  <2>1. overtaken \subseteq overtaken'
        /\ (pc[s] = "update" /\ call[s].channel = c => s \in overtaken')
    BY DEF Dashboard
  <2> QED BY <1>4, <1>5, <2>1 DEF IInv, ShardOK, Steps, Owner
<1> QED BY <1>3, <1>4, <1>6 DEF IInv

(* Steps that leave the settings and the threads that use them alone. *)
LEMMA CacheOnly ==
    ASSUME IInv, UNCHANGED config, CacheType', shard_map' = shard_map, left' = left,
           \/ gc' = gc
           \/ gc'.channels \subseteq gc.channels /\ gc'.guild = gc.guild
              /\ gc'.members \subseteq gc.members
    PROVE  IInv'
<1>1. ConfigType' /\ GuildIdKept' /\ LeftOK'
  BY DEF IInv, config, ConfigType, GuildIdKept, LeftOK
<1>2. \A s \in Shards : ShardOK(s)'
  BY DEF IInv, config, ShardOK, Owner
<1>3. GuildThreadOK'
  BY DEF IInv, config, GuildThreadOK
<1> QED BY <1>1, <1>2, <1>3 DEF IInv

(* The two threads of the module. *)
LEMMA UserThreadInv == ASSUME IInv, UserThreadStep PROVE IInv'
<1>1. CASE PopUser
  <2>1. CacheType'
    BY <1>1 DEF IInv, CacheType, PopUser, discord, tables, module
  <2> QED BY <1>1, <2>1, CacheOnly DEF PopUser, tables
<1>2. CASE WriteUser
  <2>1. CacheType'
    BY <1>2 DEF IInv, CacheType, WriteUser, discord, queues, module
  <2> QED BY <1>2, <2>1, CacheOnly DEF WriteUser
<1>3. CASE UserThreadEnds
  <2>1. CacheType'
    BY <1>3 DEF IInv, CacheType, UserThreadEnds, discord, tables, queues, work
  <2> QED BY <1>3, <2>1, CacheOnly DEF UserThreadEnds, tables, work
<1> QED BY <1>1, <1>2, <1>3 DEF UserThreadStep

LEMMA GuildThreadInv == ASSUME IInv, GuildThreadStep PROVE IInv'
<1> USE Constants
<1> DEFINE t == GuildThread
<1>0. t \in Threads /\ ConfigType /\ CacheType /\ GuildThreadOK /\ GuildIdKept /\ LeftOK
  BY DEF IInv
<1>a. ASSUME ConfigType', CacheType', GuildThreadOK', Others(t),
             UNCHANGED <<channels, settings, overtaken, shard_map, left>>
      PROVE  IInv'
  <2>1. \A s \in Shards \ {t} : ShardOK(s)'
    BY <1>0, <1>a, OtherShards DEF Keeps
  <2> QED BY <1>0, <1>a, <2>1 DEF IInv, GuildIdKept, LeftOK
<1>1. CASE PopGuild
  <2> DEFINE g == Head(guildqueue)
  <2>1. g \in Guilds /\ Tail(guildqueue) \in Seq(Guilds)
    BY <1>0, <1>1 DEF PopGuild, CacheType
  <2>2. gc' = [guild |-> g, channels |-> ChannelsOf(g), members |-> Members[g]]
    BY <1>1 DEF PopGuild
  <2>3. ConfigType' /\ Others(t) /\ pc'[t] = "work"
    BY <1>0, <1>1 DEF PopGuild, Goto, ConfigType, Places, Others
  <2>4. CacheType'
    BY <1>0, <1>1, <2>1, <2>2 DEF PopGuild, CacheType, discord, tables, module, ChannelsOf
  <2>5. GuildThreadOK'
    BY <2>1, <2>2, <2>3 DEF GuildThreadOK, ChannelsOf, Steps
  <2> QED BY <1>1, <1>a, <2>3, <2>4, <2>5 DEF PopGuild, tables
<1>2. CASE QueuedChannel
  <2>1. PICK c \in gc.channels : /\ GetSettings(t, "queued", c, gc.guild, {}, {})
                                 /\ gc' = [gc EXCEPT !.channels = @ \ {c}]
    BY <1>2 DEF QueuedChannel
  <2>2. c \in Channels /\ gc.guild = GuildOf[c] /\ gc.guild \in Guilds
        /\ {} \in Documents /\ "queued" \in DOMAIN After
    BY <1>0 DEF CacheType, GuildThreadOK, Documents, After
  <2>3. call' \in [Threads -> Calls] /\ pc' \in [Threads -> Places]
    BY <1>0, <2>1, <2>2, GetSettingsType
  <2>4. ConfigType'
    BY <1>0, <1>2, <2>3 DEF QueuedChannel, ConfigType
  <2>5. Others(t) /\ pc'[t] = "lock" /\ call'[t].for = "queued" /\ call'[t].channel = c
        /\ call'[t].guild = gc.guild
    BY <1>0, <1>2, <2>1 DEF QueuedChannel, GetSettings, Goto, Others, ConfigType
  <2>6. gc'.channels \subseteq gc.channels /\ gc'.guild = gc.guild /\ gc'.members = gc.members
        /\ gc' \in [guild : Guilds \cup {NoGuild}, channels : SUBSET Channels,
                    members : SUBSET Users]
    BY <1>0, <2>1 DEF CacheType
  <2>7. CacheType'
    BY <1>0, <1>2, <2>6 DEF QueuedChannel, CacheType, discord, tables, queues, module
  <2>8. GuildThreadOK'
    BY <1>0, <2>2, <2>5, <2>6 DEF GuildThreadOK, Steps
  <2> QED BY <1>2, <1>a, <2>4, <2>5, <2>7, <2>8 DEF QueuedChannel, tables
<1>3. CASE QueuedMember
  <2>1. PICK user \in gc.members :
          /\ gc' = [gc EXCEPT !.members = @ \ {user}]
          /\ IF user \in users
             THEN /\ userqueue' = Append(userqueue, user)
                  /\ membership' = membership \cup {<<user, gc.guild>>}
             ELSE UNCHANGED <<userqueue, membership>>
    BY <1>3 DEF QueuedMember
  <2>2. user \in Users /\ gc.guild \in Guilds
    BY <1>0 DEF CacheType, GuildThreadOK
  <2>3. gc'.channels = gc.channels /\ gc'.guild = gc.guild /\ gc'.members \subseteq gc.members
        /\ gc' \in [guild : Guilds \cup {NoGuild}, channels : SUBSET Channels,
                    members : SUBSET Users]
    <3>1. gc' = [gc EXCEPT !.members = @ \ {user}]
      BY <2>1
    <3> QED BY <1>0, <3>1 DEF CacheType
  <2>4. userqueue' \in Seq(Users) /\ membership' \in SUBSET (Users \X Guilds)
    <3>1. userqueue \in Seq(Users) /\ membership \in SUBSET (Users \X Guilds)
      BY <1>0 DEF CacheType
    <3>2. Append(userqueue, user) \in Seq(Users)
      BY <2>2, <3>1, Appended
    <3>3. <<user, gc.guild>> \in Users \X Guilds
      BY <2>2
    <3> QED BY <2>1, <3>1, <3>2, <3>3
  <2>5. CacheType'
    BY <1>0, <1>3, <2>3, <2>4 DEF QueuedMember, CacheType, discord, module
  <2> QED BY <1>3, <2>3, <2>5, CacheOnly DEF QueuedMember
<1>4. CASE GuildDone
  <2>1. ConfigType' /\ Others(t) /\ pc'[t] = "idle"
    BY <1>0, <1>4 DEF GuildDone, Goto, ConfigType, Places, Others
  <2>2. CacheType'
    BY <1>0, <1>4, Nothing DEF GuildDone, CacheType, discord, tables, queues, module
  <2>3. GuildThreadOK'
    BY <1>4, <2>1, Nothing DEF GuildDone, GuildThreadOK, Steps
  <2> QED BY <1>4, <1>a, <2>1, <2>2, <2>3 DEF GuildDone, tables
<1>5. CASE GuildThreadEnds
  <2>1. CacheType'
    BY <1>0, <1>5 DEF CacheType, GuildThreadEnds, discord, tables, queues, work
  <2> QED BY <1>5, <2>1, CacheOnly DEF GuildThreadEnds, tables, work
<1> QED BY <1>1, <1>2, <1>3, <1>4, <1>5 DEF GuildThreadStep
-----------------------------------------------------------------------------
(* The handlers, and loading and unloading, on shard t *)

LEMMA HandlerInv ==
    ASSUME IInv, NEW t \in Shards, Handlers(t)
    PROVE  IInv'
<1> USE Constants
<1>0. t \in Threads /\ ConfigType /\ CacheType /\ GuildThreadOK /\ GuildIdKept /\ LeftOK /\ ShardOK(t)
  BY DEF IInv
<1>a. ASSUME ConfigType', CacheType', GuildIdKept', LeftOK', ShardOK(t)', Others(t), gc' = gc,
             overtaken' = overtaken,
             \A c \in Channels : Owner(c) # t => Keeps(c),
             \A g \in shard_map' \ shard_map : ShardOf[g] = t
      PROVE  IInv'
  <2>1. \A s \in Shards \ {t} : ShardOK(s)'
    BY <1>0, <1>a, OtherShards
  <2>2. GuildThreadOK'
    BY <1>a, GuildThreadKept
  <2> QED BY <1>0, <1>a, <2>1, <2>2 DEF IInv
<1>b. ASSUME pc' = pc, call' = call, csettings' = csettings PROVE Others(t)
  BY <1>b DEF Others
<1>c. ASSUME pc'[t] = "idle" PROVE ShardOK(t)'
  BY <1>c DEF ShardOK, Steps
<1>1. ASSUME NEW g \in Guilds, GuildCreate(t, g) PROVE IInv'
  <2>1. ShardOf[g] = t /\ pc'[t] = "idle" /\ Others(t) /\ gc' = gc /\ overtaken' = overtaken
        /\ settings' = settings
    BY <1>1, <1>b DEF GuildCreate, Event, OnShard, work
  <2>2. \A c \in Channels : Owner(c) # t => Keeps(c)
    BY <1>1, <2>1 DEF GuildCreate, ChannelsOf, Keeps, Owner
  <2>3. ConfigType' /\ GuildIdKept'
    BY <1>0, <1>1, <2>1 DEF GuildCreate, ConfigType, ChannelsOf, GuildIdKept
  <2>4. CacheType'
    <3>1. guildqueue' \in Seq(Guilds) /\ shard_map' \in SUBSET Guilds
      <4>1. Append(guildqueue, g) \in Seq(Guilds)
        BY <1>0, Appended DEF CacheType
      <4> QED BY <1>0, <1>1, <4>1 DEF GuildCreate, CacheType
    <3> QED BY <1>0, <1>1, <3>1 DEF GuildCreate, CacheType, work, module
  <2>5. LeftOK' /\ \A h \in shard_map' \ shard_map : ShardOf[h] = t
    BY <1>0, <1>1, <2>1 DEF GuildCreate, LeftOK
  <2> QED BY <1>a, <1>c, <2>1, <2>2, <2>3, <2>4, <2>5
<1>2. ASSUME NEW g \in Guilds, GuildDelete(t, g) PROVE IInv'
  <2>1. ShardOf[g] = t /\ pc[t] = "idle" /\ gc' = gc /\ overtaken' = overtaken
        /\ csettings' = csettings /\ shard_map' = shard_map /\ left' = left
    BY <1>2 DEF GuildDelete, Event, OnShard, work, tables
  <2>2. CacheType' /\ LeftOK'
    BY <1>0, <1>2 DEF GuildDelete, CacheType, LeftOK, tables, queues, work, module
  <2>3. \A c \in Channels : /\ settings'[c] = settings[c] \/ (settings'[c] = NoRow /\ Owner(c) = t)
                            /\ Owner(c) # t => (c \in channels' <=> c \in channels)
    <3>1. \A c \in Channels : settings[c] \in Rows => settings[c].guild = GuildOf[c]
      BY <1>0 DEF GuildIdKept
    <3> QED BY <1>0, <1>2, <2>1, <3>1 DEF GuildDelete, ChannelsOf, Owner
  <2>4. settings' \in [Channels -> Rows \cup {NoRow}] /\ channels' \in SUBSET Channels
    BY <1>0, <1>2 DEF GuildDelete, ConfigType
  <2>5. GuildIdKept' /\ \A c \in Channels : Owner(c) # t => Keeps(c)
    BY <1>0, <2>3 DEF GuildIdKept, Keeps
  <2>6. CASE loaded
    <3>1. pc' = [pc EXCEPT ![t] = "unmap"] /\ call' = [call EXCEPT ![t].guild = g]
      BY <1>2, <2>6 DEF GuildDelete, Goto
    <3>2. call' \in [Threads -> Calls] /\ call'[t].guild = g
      BY <1>0, <3>1 DEF ConfigType, Calls
    <3>3. ConfigType'
      BY <1>0, <1>2, <2>1, <2>4, <3>1, <3>2 DEF GuildDelete, ConfigType, Places
    <3>4. Others(t)
      BY <1>0, <2>1, <3>1 DEF Others, ConfigType
    <3>5. ShardOK(t)'
      BY <1>0, <2>1, <3>1, <3>2 DEF ShardOK, Steps, ConfigType
    <3> QED BY <1>a, <2>1, <2>2, <2>5, <3>3, <3>4, <3>5
  <2>7. CASE ~loaded
    <3>1. pc' = pc /\ call' = call
      BY <1>2, <2>7 DEF GuildDelete
    <3>2. ConfigType'
      BY <1>0, <1>2, <2>1, <2>4, <3>1 DEF GuildDelete, ConfigType
    <3> QED BY <1>a, <1>b, <1>c, <2>1, <2>2, <2>5, <3>1, <3>2
  <2> QED BY <2>6, <2>7
<1>3. ASSUME NEW g \in Guilds, NEW user \in Users, MemberRemove(t, g, user) PROVE IInv'
  <2>1. CacheType'
    BY <1>0, <1>3 DEF MemberRemove, CacheType, queues, work, module
  <2> QED BY <1>3, <2>1, CacheOnly DEF MemberRemove, work
<1>4. ASSUME NEW g \in Guilds, NEW user \in Users, MemberAdd(t, g, user) PROVE IInv'
  <2>1. CacheType'
    BY <1>0, <1>4 DEF MemberAdd, CacheType, tables, queues, work, module
  <2> QED BY <1>4, <2>1, CacheOnly DEF MemberAdd, work, tables
<1>d. ASSUME UNCHANGED cacheVars PROVE CacheType' /\ LeftOK' /\ gc' = gc /\ shard_map' = shard_map
  BY <1>0, <1>d DEF CacheType, LeftOK, cacheVars, discord, tables, queues, work, module
<1>5. ASSUME NEW c \in Channels, ChannelCreate(t, c) PROVE IInv'
  <2>1. Owner(c) = t /\ pc[t] = "idle" /\ overtaken' = overtaken
        /\ settings' = settings /\ csettings' = csettings /\ channels' = channels \cup {c}
        /\ CacheType' /\ LeftOK' /\ gc' = gc /\ shard_map' = shard_map
    BY <1>5, <1>d DEF ChannelCreate, Event, OnShard, Owner
  <2>2. GuildIdKept' /\ \A d \in Channels : Owner(d) # t => Keeps(d)
    BY <1>0, <2>1 DEF Keeps, GuildIdKept
  <2>3. CASE loaded
    <3>1. "create" \in DOMAIN After /\ {} \in Documents /\ GuildOf[c] \in Guilds \cup {NoGuild}
      BY DEF After, Documents
    <3>2. GetSettings(t, "create", c, GuildOf[c], {}, {})
      BY <1>5, <2>3 DEF ChannelCreate
    <3>3. call' \in [Threads -> Calls] /\ pc' \in [Threads -> Places]
      BY <1>0, <3>1, <3>2, GetSettingsType
    <3>4. Others(t) /\ pc'[t] = "lock" /\ call'[t].for = "create" /\ call'[t].channel = c
          /\ call'[t].guild = GuildOf[c]
      BY <1>0, <2>1, <3>2 DEF GetSettings, Goto, Others, ConfigType
    <3>5. ShardOK(t)'
      BY <2>1, <3>4 DEF ShardOK, Steps, Owner
    <3>6. ConfigType'
      BY <1>0, <1>5, <2>1, <3>3 DEF ChannelCreate, ConfigType
    <3> QED BY <1>a, <2>1, <2>2, <3>4, <3>5, <3>6
  <2>4. CASE ~loaded
    <3>1. pc' = pc /\ call' = call
      BY <1>5, <2>4 DEF ChannelCreate
    <3>2. ConfigType'
      BY <1>0, <1>5, <2>1, <3>1 DEF ChannelCreate, ConfigType
    <3> QED BY <1>a, <1>b, <1>c, <2>1, <2>2, <3>1, <3>2
  <2> QED BY <2>3, <2>4
<1>6. ASSUME NEW c \in Channels, ChannelDelete(t, c) PROVE IInv'
  <2>1. Owner(c) = t /\ pc[t] = "idle" /\ overtaken' = overtaken /\ pc' = pc /\ call' = call
        /\ csettings' = csettings /\ channels' = channels \ {c}
        /\ CacheType' /\ LeftOK' /\ gc' = gc /\ shard_map' = shard_map
    BY <1>6, <1>d DEF ChannelDelete, Event, OnShard, Owner
  <2>2. ConfigType' /\ GuildIdKept' /\ \A d \in Channels : Owner(d) # t => Keeps(d)
    BY <1>0, <1>6, <2>1 DEF ChannelDelete, ConfigType, Keeps, GuildIdKept
  <2> QED BY <1>a, <1>b, <1>c, <2>1, <2>2
<1>7. CASE Unmap(t)
  <2>1. pc' = [pc EXCEPT ![t] = "forget"] /\ shard_map' = shard_map \ {call[t].guild}
        /\ gc' = gc /\ UNCHANGED <<channels, settings, overtaken, call, csettings>>
    BY <1>7 DEF Unmap, Goto, work
  <2>2. CacheType' /\ LeftOK'
    BY <1>0, <1>7 DEF Unmap, CacheType, LeftOK, discord, queues, work, module
  <2>3. ConfigType' /\ GuildIdKept' /\ Others(t)
    BY <1>0, <1>7, <2>1 DEF Unmap, ConfigType, GuildIdKept, Others, Places
  <2>4. ShardOK(t)'
    BY <1>0, <1>7, <2>1 DEF Unmap, ShardOK, Steps, ConfigType
  <2> QED BY <1>a, <2>1, <2>2, <2>3, <2>4 DEF Keeps
<1>8. CASE Forget(t)
  <2>1. gc' = gc /\ UNCHANGED <<channels, settings, overtaken, shard_map>>
        /\ left' = left \cup {call[t].guild} /\ Idle(t, "idle")
    BY <1>8 DEF Forget, work
  <2>2. call[t].guild \in Guilds /\ call[t].guild \notin shard_map
    BY <1>0, <1>8 DEF Forget, ShardOK
  <2>3. CacheType' /\ LeftOK'
    BY <1>0, <1>8, <2>2 DEF Forget, CacheType, LeftOK, discord, queues, work, module
  <2>4. ConfigType' /\ GuildIdKept'
    BY <1>0, <1>8, <2>1, IdleType DEF Forget, ConfigType, GuildIdKept
  <2>5. Others(t) /\ pc'[t] = "idle"
    BY <1>0, <2>1 DEF Idle, Goto, Others, ConfigType
  <2> QED BY <1>a, <1>c, <2>1, <2>3, <2>4, <2>5 DEF Keeps
<1> QED BY <1>1, <1>2, <1>3, <1>4, <1>5, <1>6, <1>7, <1>8 DEF Handlers

LEMMA ModuleInv ==
    ASSUME IInv, NEW t \in Shards, Unload(t) \/ Joined(t) \/ Load(t)
    PROVE  IInv'
<1> USE Constants
<1>0. t \in Threads /\ ConfigType /\ CacheType /\ GuildThreadOK /\ GuildIdKept /\ LeftOK
  BY DEF IInv
<1>1. UNCHANGED <<channels, settings, overtaken, config_sql_mutex, gc, shard_map, left>>
  BY DEF Unload, Joined, Load, tables, work
<1>2. CacheType'
  <2>1. guildqueue' \in Seq(Guilds) /\ userqueue' \in Seq(Users)
    BY <1>0, Nothing DEF CacheType, Unload, Joined, Load, queues
  <2> QED BY <1>0, <2>1 DEF CacheType, Unload, Joined, Load, discord, tables, work
<1>3. pc'[t] \in {"idle", "join"} /\ Others(t)
      /\ call' \in [Threads -> Calls] /\ csettings' \in [Threads -> Documents]
      /\ pc' \in [Threads -> Places]
  <2>1. CASE Unload(t)
    BY <1>0, <2>1, IdleType DEF Unload, Idle, Goto, Others, ConfigType
  <2>2. CASE Load(t)
    BY <1>0, <2>2, IdleType DEF Load, Idle, Goto, Others, ConfigType
  <2>3. CASE Joined(t)
    BY <1>0, <2>3 DEF Joined, Goto, Others, ConfigType, Places
  <2> QED BY <2>1, <2>2, <2>3
<1>4. ConfigType' /\ GuildIdKept' /\ LeftOK'
  BY <1>0, <1>1, <1>3 DEF ConfigType, GuildIdKept, LeftOK
<1>5. ShardOK(t)'
  BY <1>3 DEF ShardOK, Steps
<1>6. \A s \in Shards \ {t} : ShardOK(s)'
  BY <1>0, <1>1, <1>3, OtherShards DEF Keeps
<1>7. GuildThreadOK'
  BY <1>1, <1>3, GuildThreadKept
<1> QED BY <1>2, <1>4, <1>5, <1>6, <1>7 DEF IInv
-----------------------------------------------------------------------------
LEMMA StutterInv == ASSUME IInv, UNCHANGED vars PROVE IInv'
BY DEF IInv, vars, config, cacheVars, discord, tables, queues, work, module, ConfigType,
       CacheType, ShardOK, Owner, GuildThreadOK, GuildIdKept, LeftOK

LEMMA NextInv == ASSUME IInv, [Next]_vars PROVE IInv'
<1>1. ASSUME NEW t \in Threads, ConfigSteps(t), UNCHANGED cacheVars PROVE IInv'
  BY <1>1, ConfigStepInv
<1>2. ASSUME NEW c \in Channels, Dashboard(c), UNCHANGED cacheVars PROVE IInv'
  BY <1>2, DashboardInv
<1>3. ASSUME NEW t \in Shards, Handlers(t) \/ Unload(t) \/ Joined(t) \/ Load(t) PROVE IInv'
  BY <1>3, HandlerInv, ModuleInv
<1>4. CASE GuildThreadStep \/ UserThreadStep
  BY <1>4, GuildThreadInv, UserThreadInv
<1>5. ASSUME Restart \/ \E t \in Threads : Fault(t) PROVE IInv'
  BY <1>5, RestartInv DEF Fault
<1>6. CASE UNCHANGED vars
  BY <1>6, StutterInv
<1> QED
  BY <1>1, <1>2, <1>3, <1>4, <1>5, <1>6 DEF Next, GuildThreadStep, UserThreadStep

(* The invariant of the settings and the tables: whose channel a shard works
   on, that its row is there, and which guilds are hidden. *)
THEOREM SqlCacheInvariant == Spec => []IInv
BY InitInv, NextInv, PTL DEF Spec

(* The variables of getSettings(), the config commands, the queues and the
   tables keep their types. *)
THEOREM TypeCorrect == Spec => []TypeOK
<1>1. IInv => TypeOK
  BY DEF IInv, ConfigType, CacheType, TypeOK
<1> QED BY <1>1, SqlCacheInvariant, PTL

(* Every row has its channel's guild, whatever is deleted, queued or given to
   the config module at the same time. *)
THEOREM RowsBelong == Spec => []GuildIdKept
<1>1. IInv => GuildIdKept
  BY DEF IInv
<1> QED BY <1>1, SqlCacheInvariant, PTL

(* A command that is about to write has a row to write to. *)
THEOREM CommandsHaveRows == Spec => []CommandsLand
<1>1. IInv => CommandsLand
  BY DEF IInv, ShardOK, CommandsLand
<1> QED BY <1>1, SqlCacheInvariant, PTL

(* The view for the dashboard has no members of a guild that was left, even if
   the guild thread stored some late. *)
THEOREM NoMembersOfLeftGuilds == Spec => []LeftGuildsHidden
<1>1. IInv => LeftGuildsHidden
  BY DEF IInv, LeftOK, LeftGuildsHidden, GuildMembers
<1> QED BY <1>1, SqlCacheInvariant, PTL

(* A command changes only what it names, unless the dashboard saved since the
   command read the settings. *)
THEOREM CommandsChangeWhatTheyName == Spec => OnlyWhatWasAsked
<1> DEFINE Asked(c) ==
      Edited(c) =>
        \/ Dashboard(c)
        \/ \E t \in Shards :
             /\ pc[t] = "update" /\ call[t].channel = c
             /\ t \in overtaken \/ Changed(c) \subseteq call[t].add \cup call[t].remove
<1>1. ASSUME IInv, Next, NEW c \in Channels, Edited(c) PROVE Asked(c)
  <2>0. ConfigType /\ settings[c] # NoRow /\ settings'[c] # NoRow /\ settings'[c] # settings[c]
    BY <1>1 DEF IInv, Edited
  <2>1. ASSUME NEW t \in Threads, ConfigSteps(t) PROVE Asked(c)
    <3>1. CASE UNCHANGED settings
      BY <2>0, <3>1
    <3>2. CASE Insert(t)
      BY <2>0, <3>2 DEF Insert, ConfigType
    <3>3. CASE Update(t)
      <4> DEFINE d == call[t].channel
                 doc == (csettings[t] \cup call[t].add) \ call[t].remove
      <4>1. t \in Shards /\ ShardOK(t)
        BY <1>1, <3>3 DEF IInv, GuildThreadOK, Update, Threads, Steps
      <4>2. settings[d] # NoRow /\ (t \notin overtaken => csettings[t] = settings[d].doc)
        BY <4>1, <3>3 DEF ShardOK, Update
      <4>3. settings' = [settings EXCEPT ![d].doc = doc]
        BY <3>3, <4>2 DEF Update
      <4>4. d = c
        BY <2>0, <4>3 DEF ConfigType
      <4>5. settings'[c].doc = doc
        BY <2>0, <4>3, <4>4, RowType DEF ConfigType, Rows
      <4>6. t \notin overtaken => Changed(c) \subseteq call[t].add \cup call[t].remove
        BY <4>2, <4>4, <4>5 DEF Changed
      <4> QED BY <3>3, <4>1, <4>4, <4>6 DEF Update
    <3> QED
      BY <2>1, <3>1, <3>2, <3>3
         DEF ConfigSteps, FindChannel, Select, Reselect, OnMessage, Dropped, Command
  <2>2. ASSUME NEW d \in Channels, Dashboard(d) PROVE Asked(c)
    <3>1. CASE d = c
      BY <2>2, <3>1
    <3>2. CASE d # c
      BY <2>0, <2>2, <3>2 DEF Dashboard, ConfigType
    <3> QED BY <3>1, <3>2
  <2>3. ASSUME NEW t \in Shards, Handlers(t) PROVE FALSE
    <3>1. \/ UNCHANGED settings
          \/ \E g \in Guilds : GuildDelete(t, g)
          \/ \E d \in Channels : ChannelDelete(t, d)
      BY <2>3 DEF Handlers, GuildCreate, MemberRemove, MemberAdd, ChannelCreate, Unmap, Forget,
                  config
    <3> QED BY <2>0, <3>1 DEF GuildDelete, ChannelDelete, ConfigType
  <2>4. ASSUME \/ \E t \in Shards : Unload(t) \/ Joined(t) \/ Load(t)
               \/ PopGuild \/ QueuedChannel \/ QueuedMember \/ GuildDone \/ GuildThreadEnds
               \/ PopUser \/ WriteUser \/ UserThreadEnds
               \/ Restart
        PROVE  UNCHANGED settings
    BY <2>4 DEF Unload, Joined, Load, PopGuild, QueuedChannel, QueuedMember, GuildDone,
                GuildThreadEnds, PopUser, WriteUser, UserThreadEnds, Restart, config
  <2> QED BY <1>1, <2>0, <2>1, <2>2, <2>3, <2>4 DEF Next, Fault
<1>2. ASSUME IInv, [Next]_vars
      PROVE  [\A c \in Channels : Asked(c)]_vars
  BY <1>1, <1>2
<1> QED BY <1>2, SqlCacheInvariant, PTL DEF Spec, OnlyWhatWasAsked
=============================================================================
