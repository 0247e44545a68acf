------------------------- MODULE WebRequestsProofs --------------------------
(***************************************************************************)
(* What WebRequests promises for every number of shards, channels, guilds  *)
(* and requests, and that it implements RequestSlots.                      *)
(*                                                                         *)
(* The argument: jsmutex makes the count of a guild's rows and the insert  *)
(* of one a single step (SlotReserved), so a guild never has two rows      *)
(* (Distinct).  What the watcher has left of its SELECT is still in the    *)
(* table and answered (Results), so what it deletes by channel is the row  *)
(* whose callback it ran (Serving, CalledOrServed).                        *)
(***************************************************************************)
EXTENDS WebRequests, TLAPS

MutexHeld == \A r \in Runners : pc[r] \in {"script", "insert"} <=> jsmutex = r

\* Between the count and the insert nobody takes the guild's slot.
SlotReserved ==
    \A r \in Runners :
        pc[r] = "insert" => nextId <= MaxRequests /\ RowsOf(GuildOf[channel[r]]) = {}

Distinct ==
    \A a, b \in rows :
        a.id = b.id \/ GuildOf[a.channel] = GuildOf[b.channel] => a = b

Fresh ==
    /\ \A row \in rows : row.id < nextId
    /\ \A i \in Ids : called[i] > 0 => i < nextId

Results == \A row \in results : row \in rows /\ row.status = "answered"

\* The watcher works on a channel of its list until it deletes the row.
Serving ==
    pc[Watcher] \in {"lock", "script", "insert", "delete"} =>
        \E row \in results : row.channel = channel[Watcher]

\* The row of a callback that ran is the one the watcher is about to delete.
CalledOrServed ==
    \A row \in rows :
        called[row.id] > 0 =>
            /\ pc[Watcher] \in {"script", "insert", "delete"}
            /\ row \in results
            /\ row.channel = channel[Watcher]

AtMostOnce == \A i \in Ids : called[i] <= 1

\* The one counter is that of the run which holds the mutex.
Counted ==
    /\ MessageLimit
    /\ jsmutex \in Runners => posted[jsmutex] = message_total

RequestsInv ==
    /\ TypeOK /\ MutexHeld /\ SlotReserved /\ Distinct /\ Fresh
    /\ Results /\ Serving /\ CalledOrServed /\ AtMostOnce /\ Counted

LEMMA InitRequests == Init => RequestsInv
<1> USE WebRequestsAssumption
<1>1. Init => AnyChannel \in Channels
  BY DEF AnyChannel
<1>2. Init => TypeOK
  <2>1. Init => c_apis_suck \in BOOLEAN
    BY Zenon DEF Init
  <2> QED
    BY <1>1, <2>1 DEF Init, TypeOK, Steps
<1>3. Init => MutexHeld /\ SlotReserved /\ Counted
  BY DEF Init, MutexHeld, SlotReserved, Counted, MessageLimit, Runners
<1>4. Init => Distinct /\ Fresh /\ Results /\ CalledOrServed /\ AtMostOnce
  BY DEF Init, Distinct, Fresh, Results, CalledOrServed, AtMostOnce
<1>5. Init => Serving
  BY DEF Init, Serving, Runners
<1> QED
  BY <1>2, <1>3, <1>4, <1>5 DEF RequestsInv

\* Every step keeps the types; an insert needs the slot reserved for it.
LEMMA StepTypes ==
  ASSUME TypeOK, SlotReserved, [Next]_vars
  PROVE  TypeOK'
<1> USE WebRequestsAssumption DEF TypeOK, table, Steps, Goto
<1>1. ASSUME NEW g \in Guilds, GuildCreate(g) \/ GuildDelete(g)
      PROVE  TypeOK'
  BY <1>1 DEF GuildCreate, GuildDelete
<1>2. ASSUME NEW t \in Shards, NEW c \in Channels, OnMessage(t, c)
      PROVE  TypeOK'
  BY <1>2 DEF OnMessage, Runners
<1>3. ASSUME NEW r \in Runners, RunBegin(r)
      PROVE  TypeOK'
  <2>1. called' \in [Ids -> Nat]
    BY <1>3 DEF RunBegin, CallBack
  <2> QED
    BY <1>3, <2>1 DEF RunBegin, Runners
<1>4. ASSUME NEW r \in Runners, RunRefused(r) \/ RunEnd(r)
      PROVE  TypeOK'
  BY <1>4 DEF RunRefused, RunEnd, Leave, Runners
<1>5. ASSUME NEW r \in Runners, CreateMessage(r) \/ CountRequests(r)
      PROVE  TypeOK'
  BY <1>5 DEF CreateMessage, CountRequests, Runners
<1>6. ASSUME NEW r \in Runners, InsertRequest(r)
      PROVE  TypeOK'
  BY <1>6 DEF InsertRequest, SlotReserved, Row, Ids
<1>7. CASE Poll \/ NextResult \/ DeleteRow \/ EndOfPass
  BY <1>7 DEF Poll, NextResult, DeleteRow, EndOfPass, Runners, Row
<1>8. CASE Restart
  <2>1. AnyChannel \in Channels
    BY DEF AnyChannel
  <2>2. c_apis_suck' \in BOOLEAN
    BY <1>8, Zenon DEF Restart
  <2> QED
    BY <1>8, <2>1, <2>2 DEF Restart
<1>9. CASE Reload
  <2>1. c_apis_suck' \in BOOLEAN
    BY <1>9, Zenon DEF Reload
  <2>2. message_total' \in 0..message_limit
    BY <1>9 DEF Reload
  <2> QED
    BY <1>9, <2>1, <2>2 DEF Reload
<1>12. CASE WorkerPoll \/ UNCHANGED vars
  BY <1>12 DEF WorkerPoll, vars
<1>10. CASE WorkerAnswer
  BY <1>10 DEF WorkerAnswer, Row
<1> QED
  BY <1>1, <1>2, <1>3, <1>4, <1>5, <1>6, <1>7, <1>8, <1>9, <1>10, <1>12
  DEF Next, RunStep, WatcherStep, NullDereference, Fatal

\* Every step keeps the lock, the slots of the guilds and the identities of rows.
LEMMA StepSlots ==
  ASSUME RequestsInv, TypeOK', [Next]_vars
  PROVE  MutexHeld' /\ SlotReserved' /\ Distinct' /\ Fresh'
<1> USE WebRequestsAssumption
    DEF RequestsInv, TypeOK, MutexHeld, SlotReserved, Distinct, Fresh, table, Goto, RowsOf
<1>1. ASSUME NEW g \in Guilds, GuildCreate(g) \/ GuildDelete(g)
      PROVE  MutexHeld' /\ SlotReserved' /\ Distinct' /\ Fresh'
  BY <1>1 DEF GuildCreate, GuildDelete
<1>2. ASSUME NEW t \in Shards, NEW c \in Channels, OnMessage(t, c)
      PROVE  MutexHeld' /\ SlotReserved' /\ Distinct' /\ Fresh'
  BY <1>2 DEF OnMessage, Runners
<1>3. ASSUME NEW r \in Runners, RunBegin(r)
      PROVE  MutexHeld' /\ SlotReserved' /\ Distinct' /\ Fresh'
  <2>1. \A i \in Ids : called'[i] > 0 => i < nextId
    BY <1>3 DEF RunBegin, CallBack, Results
  <2> QED
    BY <1>3, <2>1 DEF RunBegin, Runners
<1>4. ASSUME NEW r \in Runners, RunRefused(r) \/ RunEnd(r)
      PROVE  MutexHeld' /\ SlotReserved' /\ Distinct' /\ Fresh'
  BY <1>4 DEF RunRefused, RunEnd, Leave, Runners
<1>5. ASSUME NEW r \in Runners, CreateMessage(r) \/ CountRequests(r)
      PROVE  MutexHeld' /\ SlotReserved' /\ Distinct' /\ Fresh'
  BY <1>5 DEF CreateMessage, CountRequests, Runners
<1>6. ASSUME NEW r \in Runners, InsertRequest(r)
      PROVE  MutexHeld' /\ SlotReserved' /\ Distinct' /\ Fresh'
  <2> DEFINE new == [id |-> nextId, channel |-> channel[r], status |-> "000"]
  <2>1. MutexHeld'
    BY <1>6 DEF InsertRequest, Runners
  <2>2. \A q \in Runners : pc'[q] # "insert"
    BY <1>6 DEF InsertRequest, Runners
  <2>3. Distinct'
    <3>1. \A row \in rows : row.id # new.id /\ GuildOf[row.channel] # GuildOf[new.channel]
      BY <1>6 DEF InsertRequest
    <3> QED
      BY <1>6, <3>1 DEF InsertRequest
  <2>4. Fresh'
    <3>1. nextId \in Nat /\ nextId' = nextId + 1 /\ called' = called
      BY <1>6 DEF InsertRequest
    <3>2. \A row \in rows' : row \in rows \/ row.id = nextId
      BY <1>6 DEF InsertRequest
    <3>3. \A row \in rows : row.id \in Nat
      BY DEF Row, Ids
    <3>4. \A i \in Ids : i \in Nat
      BY DEF Ids
    <3> QED
      BY <3>1, <3>2, <3>3, <3>4
  <2> QED
    BY <2>1, <2>2, <2>3, <2>4
<1>7. CASE Poll \/ NextResult \/ EndOfPass
  BY <1>7 DEF Poll, NextResult, EndOfPass, Runners
<1>8. CASE DeleteRow
  BY <1>8 DEF DeleteRow, Runners
<1>9. CASE Restart
  BY <1>9 DEF Restart, Runners
<1>10. CASE Reload \/ WorkerPoll \/ UNCHANGED vars
  BY <1>10 DEF Reload, WorkerPoll, vars
<1>11. CASE WorkerAnswer
  <2> PICK done \in fetched :
        rows' = {IF row.channel = done.channel THEN [row EXCEPT !.status = "answered"]
                 ELSE row : row \in rows}
    BY <1>11 DEF WorkerAnswer
  <2>1. \A a \in rows' : \E row \in rows :
            /\ a = IF row.channel = done.channel THEN [row EXCEPT !.status = "answered"] ELSE row
            /\ a.id = row.id /\ a.channel = row.channel
    BY DEF Row
  <2>2. Distinct' /\ Fresh'
    BY <1>11, <2>1 DEF WorkerAnswer
  <2>3. \A g \in Guilds : RowsOf(g) = {} => RowsOf(g)' = {}
    BY <2>1
  <2>4. MutexHeld' /\ SlotReserved'
    BY <1>11, <2>3 DEF WorkerAnswer, Guilds
  <2> QED
    BY <2>2, <2>4
<1> QED
  BY <1>1, <1>2, <1>3, <1>4, <1>5, <1>6, <1>7, <1>8, <1>9, <1>10, <1>11
  DEF Next, RunStep, WatcherStep, NullDereference, Fatal

\* Every step keeps what the watcher knows of the rows it works on.
LEMMA StepWatcher ==
  ASSUME RequestsInv, TypeOK', [Next]_vars
  PROVE  Results' /\ Serving' /\ CalledOrServed' /\ AtMostOnce'
<1> USE WebRequestsAssumption
    DEF RequestsInv, TypeOK, Results, Serving, CalledOrServed, AtMostOnce, table, Goto
<1>1. ASSUME NEW g \in Guilds, GuildCreate(g) \/ GuildDelete(g)
      PROVE  Results' /\ Serving' /\ CalledOrServed' /\ AtMostOnce'
  BY <1>1 DEF GuildCreate, GuildDelete
<1>2. ASSUME NEW t \in Shards, NEW c \in Channels, OnMessage(t, c)
      PROVE  Results' /\ Serving' /\ CalledOrServed' /\ AtMostOnce'
  BY <1>2 DEF OnMessage, Runners
<1>3. ASSUME NEW r \in Runners, RunBegin(r)
      PROVE  Results' /\ Serving' /\ CalledOrServed' /\ AtMostOnce'
  <2>1. Watcher \in Runners
    BY DEF Runners
  <2>2. CASE r # Watcher
    <3>1. called' = called
      BY <1>3, <2>2 DEF RunBegin, CallBack
    <3> QED
      BY <1>3, <2>1, <2>2, <3>1 DEF RunBegin
  <2>3. CASE r = Watcher
    <3>1. \A i \in Ids :
            called'[i] = IF \E row \in results : row.id = i /\ row.channel = channel[Watcher]
                         THEN called[i] + 1 ELSE called[i]
      BY <1>3, <2>3 DEF RunBegin, CallBack
    <3>2. \A row \in rows : row.id \in Ids /\ called[row.id] = 0
      BY <1>3, <2>3 DEF RunBegin, Row
    <3>3. AtMostOnce'
      BY <3>1, <3>2
    <3>4. CalledOrServed'
      <4> SUFFICES ASSUME NEW row \in rows, called'[row.id] > 0
                   PROVE  row \in results /\ row.channel = channel[Watcher]
        BY <1>3, <2>1, <2>3 DEF RunBegin
      <4>1. PICK seen \in results : seen.id = row.id /\ seen.channel = channel[Watcher]
        BY <3>1, <3>2
      <4>2. seen = row
        BY <4>1 DEF Distinct
      <4> QED
        BY <4>1, <4>2
    <3>5. Results' /\ Serving'
      BY <1>3, <2>1, <2>3 DEF RunBegin
    <3> QED
      BY <3>3, <3>4, <3>5
  <2> QED
    BY <2>2, <2>3
<1>4. ASSUME NEW r \in Runners, RunRefused(r) \/ RunEnd(r)
      PROVE  Results' /\ Serving' /\ CalledOrServed' /\ AtMostOnce'
  BY <1>4 DEF RunRefused, RunEnd, Leave, Runners
<1>5. ASSUME NEW r \in Runners, CreateMessage(r) \/ CountRequests(r)
      PROVE  Results' /\ Serving' /\ CalledOrServed' /\ AtMostOnce'
  BY <1>5 DEF CreateMessage, CountRequests, Runners
<1>6. ASSUME NEW r \in Runners, InsertRequest(r)
      PROVE  Results' /\ Serving' /\ CalledOrServed' /\ AtMostOnce'
  <2>1. nextId \in Ids /\ called[nextId] = 0
    BY <1>6 DEF InsertRequest, SlotReserved, Fresh, Ids
  <2> QED
    BY <1>6, <2>1 DEF InsertRequest, Runners
<1>7. CASE Poll \/ NextResult \/ EndOfPass
  BY <1>7 DEF Poll, NextResult, EndOfPass, Runners, Row
<1>8. CASE DeleteRow
  BY <1>8 DEF DeleteRow, Runners
<1>9. CASE Restart
  BY <1>9 DEF Restart, Runners, Row
<1>10. CASE Reload \/ WorkerPoll \/ UNCHANGED vars
  BY <1>10 DEF Reload, WorkerPoll, vars
<1>11. CASE WorkerAnswer
  <2> PICK done \in fetched :
        rows' = {IF row.channel = done.channel THEN [row EXCEPT !.status = "answered"]
                 ELSE row : row \in rows}
    BY <1>11 DEF WorkerAnswer
  <2>1. \A row \in rows : row.status = "answered" => [row EXCEPT !.status = "answered"] = row
    BY DEF Row
  <2>2. \A row \in results : row \in rows'
    BY <2>1
  <2>3. ASSUME NEW row \in rows', called[row.id] > 0
        PROVE  row \in rows
    BY <2>1, <2>3 DEF Row
  <2> QED
    BY <1>11, <2>2, <2>3 DEF WorkerAnswer
<1> QED
  BY <1>1, <1>2, <1>3, <1>4, <1>5, <1>6, <1>7, <1>8, <1>9, <1>10, <1>11
  DEF Next, RunStep, WatcherStep, NullDereference, Fatal

\* Every step keeps the counter that of the run which holds the mutex.
LEMMA StepCounted ==
  ASSUME RequestsInv, [Next]_vars
  PROVE  Counted'
<1> USE WebRequestsAssumption
    DEF RequestsInv, TypeOK, MutexHeld, Counted, MessageLimit, table, Goto
<1>1. ASSUME NEW r \in Runners, RunBegin(r) \/ CreateMessage(r) \/ RunEnd(r)
      PROVE  Counted'
  BY <1>1 DEF RunBegin, CreateMessage, RunEnd, Runners
<1>2. CASE Restart
  BY <1>2 DEF Restart, Runners
<1>3. CASE Reload
  BY <1>3 DEF Reload, Runners
<1>4. CASE UNCHANGED <<jsmutex, message_total, posted>>
  BY <1>4
<1> QED
  BY <1>1, <1>2, <1>3, <1>4
  DEF Next, GuildCreate, GuildDelete, OnMessage, RunRefused, RunStep, CountRequests,
      InsertRequest, WatcherStep, Poll, NextResult, NullDereference, DeleteRow, EndOfPass,
      Fatal, WorkerPoll, WorkerAnswer, vars

THEOREM WebRequestsInvariant == Spec => []RequestsInv
<1>1. ASSUME RequestsInv, [Next]_vars
      PROVE  RequestsInv'
  <2>1. TypeOK'
    BY <1>1, StepTypes DEF RequestsInv
  <2> QED
    BY <1>1, <2>1, StepSlots, StepWatcher, StepCounted DEF RequestsInv
<1> QED
  BY <1>1, InitRequests, PTL DEF Spec

(* The counter never passes the limit, and no insert goes beyond what was
   counted: every variable stays within its values. *)
THEOREM RequestTypes == Spec => []TypeOK
<1>1. RequestsInv => TypeOK
  BY DEF RequestsInv
<1> QED
  BY <1>1, WebRequestsInvariant, PTL

(* Callbacks of one process: at most one for each request, after its answer. *)
THEOREM CallbacksRunOnce == Spec => []CalledOnce
<1>1. RequestsInv => CalledOnce
  BY DEF RequestsInv, TypeOK, CalledOrServed, AtMostOnce, Results, CalledOnce
<1> QED
  BY <1>1, WebRequestsInvariant, PTL

(* However many threads run scripts, none of them posts past the limit. *)
THEOREM RunsStayBelowLimit == Spec => []MessageLimit
<1>1. RequestsInv => MessageLimit
  BY DEF RequestsInv, Counted
<1> QED
  BY <1>1, WebRequestsInvariant, PTL
-----------------------------------------------------------------------------
(* The refinement of RequestSlots. *)

\* The requests of g in a table R, as RequestSlots sees them.
SlotIn(R, g) ==
    {[id |-> row.id, status |-> row.status] :
        row \in {row \in R : GuildOf[row.channel] = g}}

slots == [g \in Guilds |-> SlotIn(rows, g)]

\* A table that differs from the last one in the rows of one guild.
LEMMA OneSlotChanges ==
  ASSUME NEW g \in Guilds, NEW S,
         SlotIn(rows', g) = S,
         \A h \in Guilds \ {g} : SlotIn(rows', h) = SlotIn(rows, h)
  PROVE  slots' = [slots EXCEPT ![g] = S]
  BY DEF slots

\* A guild with one row.
LEMMA OneRow ==
  ASSUME NEW R, NEW g, NEW row, {other \in R : GuildOf[other.channel] = g} = {row}
  PROVE  SlotIn(R, g) = {[id |-> row.id, status |-> row.status]}
  BY DEF SlotIn

\* An insert is the abstract Ask.
LEMMA InsertAsks ==
  ASSUME RequestsInv, NEW r \in Runners, InsertRequest(r)
  PROVE  Slots!Next
<1> USE WebRequestsAssumption DEF RequestsInv, TypeOK
<1> DEFINE g == GuildOf[channel[r]]
           new == [id |-> nextId, channel |-> channel[r], status |-> "000"]
<1>1. nextId <= MaxRequests /\ RowsOf(g) = {}
  BY DEF InsertRequest, SlotReserved
<1>2. g \in Guilds /\ nextId \in Ids
  BY <1>1 DEF Guilds, Ids
<1>3. rows' = rows \cup {new}
  BY DEF InsertRequest
<1>4. SlotIn(rows, g) = {} /\ SlotIn(rows', g) = {Slots!Pending(nextId)}
  <2>1. SlotIn(rows, g) = {}
    BY <1>1 DEF SlotIn, RowsOf
  <2>2. {row \in rows' : GuildOf[row.channel] = g} = {new}
    BY <1>1, <1>3 DEF RowsOf
  <2>3. SlotIn(rows', g) = {[id |-> new.id, status |-> new.status]}
    <3> HIDE DEF g, new
    <3> QED
      BY <2>2, OneRow
  <2> QED
    BY <2>1, <2>3 DEF Slots!Pending
<1>5. \A h \in Guilds \ {g} : SlotIn(rows', h) = SlotIn(rows, h)
  BY <1>3 DEF SlotIn
<1>6. slots' = [slots EXCEPT ![g] = {Slots!Pending(nextId)}] /\ slots[g] = {}
  <2> HIDE DEF g
  <2> QED
    BY <1>2, <1>4, <1>5, OneSlotChanges DEF slots
<1>7. Slots!Ask(g, nextId)
  BY <1>6 DEF Slots!Ask, slots, SlotIn, RowsOf
<1> QED
  <2> HIDE DEF g
  <2> QED
    BY <1>2, <1>7 DEF Slots!Next, Slots!Ask

\* An answer of the worker is the abstract Answer, or finds nothing to answer.
LEMMA WorkerAnswers ==
  ASSUME RequestsInv, WorkerAnswer
  PROVE  Slots!Next \/ UNCHANGED slots
<1> USE WebRequestsAssumption DEF RequestsInv, TypeOK
<1> PICK done \in fetched :
      rows' = {IF row.channel = done.channel THEN [row EXCEPT !.status = "answered"]
               ELSE row : row \in rows}
  BY DEF WorkerAnswer
<1>1. CASE \A row \in rows : row.channel = done.channel => row.status = "answered"
  <2>1. \A row \in rows : row.channel = done.channel => [row EXCEPT !.status = "answered"] = row
    BY <1>1 DEF Row
  <2>2. rows' = rows
    BY <2>1
  <2> QED
    BY <2>2 DEF slots
<1>2. ASSUME NEW row \in rows, row.channel = done.channel, row.status # "answered"
      PROVE  Slots!Next
  <2> DEFINE g == GuildOf[row.channel]
             answered == [row EXCEPT !.status = "answered"]
  <2>1. g \in Guilds /\ row.id \in Ids /\ row.status = "000"
    BY <1>2 DEF Guilds, Row
  <2>2. \A other \in rows : GuildOf[other.channel] = g => other = row
    BY DEF Distinct
  <2>3. rows' = (rows \ {row}) \cup {answered}
    BY <1>2, <2>2
  <2>4. answered.id = row.id /\ answered.channel = row.channel /\ answered.status = "answered"
    BY DEF Row
  <2>5. SlotIn(rows, g) = {Slots!Pending(row.id)}
    BY <2>1, <2>2 DEF SlotIn, Slots!Pending
  <2>6. SlotIn(rows', g) = {Slots!Answered(row.id)}
    <3>1. {other \in rows' : GuildOf[other.channel] = g} = {answered}
      BY <2>2, <2>3, <2>4
    <3>2. SlotIn(rows', g) = {[id |-> answered.id, status |-> answered.status]}
      <4> HIDE DEF g, answered
      <4> QED
        BY <3>1, OneRow
    <3> QED
      BY <2>4, <3>2 DEF Slots!Answered
  <2>7. ASSUME NEW h \in Guilds \ {g}
        PROVE  SlotIn(rows', h) = SlotIn(rows, h)
    <3>1. {other \in rows' : GuildOf[other.channel] = h}
            = {other \in rows : GuildOf[other.channel] = h}
      BY <2>3, <2>4
    <3> QED
      BY <3>1 DEF SlotIn
  <2>8. slots' = [slots EXCEPT ![g] = {Slots!Answered(row.id)}]
        /\ slots[g] = {Slots!Pending(row.id)}
    <3> HIDE DEF g
    <3> QED
      BY <2>1, <2>5, <2>6, <2>7, OneSlotChanges DEF slots
  <2>9. Slots!Answer(g, row.id)
    BY <2>8 DEF Slots!Answer, slots, SlotIn, RowsOf
  <2> QED
    <3> HIDE DEF g
    <3> QED
      BY <2>1, <2>9 DEF Slots!Next
<1> QED
  BY <1>1, <1>2

\* What the watcher deletes by channel is one answered request: the abstract Close.
LEMMA DeleteCloses ==
  ASSUME RequestsInv, DeleteRow
  PROVE  Slots!Next
<1> USE WebRequestsAssumption DEF RequestsInv, TypeOK
<1> PICK row \in results : row.channel = channel[Watcher]
  BY DEF DeleteRow, Serving
<1> DEFINE g == GuildOf[row.channel]
<1>1. row \in rows /\ row.status = "answered"
  BY DEF Results
<1>2. g \in Guilds /\ row.id \in Ids
  BY <1>1 DEF Guilds, Row
<1>3. \A other \in rows : GuildOf[other.channel] = g => other = row
  BY <1>1 DEF Distinct
<1>4. rows' = rows \ {row}
  BY <1>1, <1>3 DEF DeleteRow
<1>5. SlotIn(rows, g) = {Slots!Answered(row.id)}
  BY <1>1, <1>3 DEF SlotIn, Slots!Answered
<1>6. SlotIn(rows', g) = {}
  BY <1>3, <1>4 DEF SlotIn
<1>7. ASSUME NEW h \in Guilds \ {g}
      PROVE  SlotIn(rows', h) = SlotIn(rows, h)
  <2>1. {other \in rows' : GuildOf[other.channel] = h}
          = {other \in rows : GuildOf[other.channel] = h}
    BY <1>4
  <2> QED
    BY <2>1 DEF SlotIn
<1>8. slots' = [slots EXCEPT ![g] = {}] /\ slots[g] = {Slots!Answered(row.id)}
  <2> HIDE DEF g
  <2> QED
    BY <1>2, <1>5, <1>6, <1>7, OneSlotChanges DEF slots
<1>9. Slots!Close(g, row.id)
  BY <1>8 DEF Slots!Close, slots, SlotIn, RowsOf
<1> QED
  <2> HIDE DEF g
  <2> QED
    BY <1>2, <1>9 DEF Slots!Next

(* For every number of guilds, channels and shards: no guild has two requests
   in flight, and only an answered one leaves the table. *)
THEOREM RequestsImplementSlots == Spec => OneRequestPerGuild
<1>1. Init => Slots!Init
  BY DEF Init, Slots!Init, RowsOf
<1>2. ASSUME RequestsInv, [Next]_vars
      PROVE  Slots!Next \/ UNCHANGED slots
  <2>1. CASE UNCHANGED rows
    BY <2>1 DEF slots
  <2>2. ASSUME NEW r \in Runners, InsertRequest(r)
        PROVE  Slots!Next
    BY <1>2, <2>2, InsertAsks
  <2>3. CASE WorkerAnswer
    BY <1>2, <2>3, WorkerAnswers
  <2>4. CASE DeleteRow
    BY <1>2, <2>4, DeleteCloses
  <2> QED
    BY <1>2, <2>1, <2>2, <2>3, <2>4
    DEF Next, GuildCreate, GuildDelete, OnMessage, RunBegin, RunRefused, RunStep, RunEnd,
        CreateMessage, CountRequests, WatcherStep, Poll, NextResult, NullDereference,
        EndOfPass, Fatal, Reload, Restart, WorkerPoll, vars, table
<1>3. ASSUME RequestsInv, [Next]_vars
      PROVE  [Slots!Next]_(slots)
  BY <1>2, <1>3
<1> QED
  BY <1>1, <1>3, WebRequestsInvariant, PTL
  DEF Spec, OneRequestPerGuild, Slots!Spec, slots, SlotIn, RowsOf
=============================================================================
