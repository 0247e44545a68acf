---------------------------- MODULE FactsProofs -----------------------------
(***************************************************************************)
(* Proofs about Facts, for any number of shards, keys and statements.      *)
(***************************************************************************)
EXTENDS Facts, FiniteLemmas

LEMMA CommandExists == AnyCommand \in Command
<1>1. PICK k \in Keys, s \in Statements : TRUE
  BY FactsAssumption
<1>2. [op |-> "is", key |-> k, statement |-> s] \in Command
  BY DEF Command, Ops
<1> QED BY <1>2 DEF AnyCommand

(* Who follows an alias has read one. *)
Aliasing == \A t \in Threads : pc[t] = "alias" => HasAlias(reply[t].value)

(* What an alias leads to is a row of the table, or there is none. *)
LEMMA TargetIsRow ==
    ASSUME NEW v \in Seq(Statements), HasAlias(v)
    PROVE  Target(v) = NoFact \/ \E k \in Keys : Target(v) = infobot[k]
<1>1. ASSUME \A i \in 1..(Len(v) - 1) : v[i] \notin Aliases
      PROVE  v[Len(v)] \in Aliases
  <2>1. PICK i \in DOMAIN v : v[i] \in Aliases
    BY DEF HasAlias, Range
  <2>2. i \in 1..Len(v) /\ Len(v) \in Nat
    OBVIOUS
  <2>3. i = Len(v)
    BY <1>1, <2>1, <2>2
  <2> QED BY <2>1, <2>3
<1>2. \A a \in Aliases : AliasOf[a] \in Keys
  BY FactsAssumption
<1> QED BY <1>1, <1>2 DEF Target

LEMMA TargetType ==
    ASSUME TypeOK, NEW v \in Seq(Statements), HasAlias(v)
    PROVE  Target(v) \in Fact
<1>1. NoFact \in Fact
  BY DEF NoFact, Fact
<1>2. \A k \in Keys : infobot[k] \in Fact
  BY DEF TypeOK
<1> QED BY <1>1, <1>2, TargetIsRow

LEMMA InitType == Init => TypeOK /\ Aliasing
<1> SUFFICES ASSUME Init PROVE TypeOK /\ Aliasing
  OBVIOUS
<1>1. NoFact \in Fact
  BY DEF NoFact, Fact
<1> QED BY <1>1, CommandExists DEF Init, TypeOK, Aliasing

LEMMA StepType == TypeOK /\ Aliasing /\ [Next]_vars => TypeOK' /\ Aliasing'
<1> SUFFICES ASSUME TypeOK, Aliasing, [Next]_vars PROVE TypeOK' /\ Aliasing'
  OBVIOUS
<1> DEFINE Steps == {"idle", "set", "del", "alias", "pick"}
<1>0. NoFact \in Fact
  BY DEF NoFact, Fact
<1>a. ASSUME NEW t \in Threads, NEW d \in Fact, NEW step \in Steps, Continue(t, d, step),
             infobot' = infobot, cmd' \in [Threads -> Command],
             step = "alias" => HasAlias(d.value)
      PROVE  TypeOK' /\ Aliasing'
  BY <1>a DEF Continue, Goto, TypeOK, Aliasing
<1>b. ASSUME NEW t \in Threads, Return(t), infobot' \in [Keys -> Fact]
      PROVE  TypeOK' /\ Aliasing'
  BY <1>0, <1>b, CommandExists DEF Return, Goto, TypeOK, Aliasing
<1>1. ASSUME NEW t \in Threads, NEW c \in Command, Said(t, c) PROVE TypeOK' /\ Aliasing'
  <2>1. infobot[c.key] \in Fact /\ cmd' \in [Threads -> Command]
    BY <1>1 DEF Said, TypeOK, Command
  <2> QED BY <1>1, <1>a, <2>1 DEF Said
<1>2. ASSUME NEW t \in Threads, NEW k \in Keys, Ask(t, k) PROVE TypeOK' /\ Aliasing'
  <2>1. infobot[k] \in Fact /\ cmd' \in [Threads -> Command]
    BY <1>2 DEF Ask, TypeOK
  <2> QED BY <1>2, <1>a, <2>1 DEF Ask
<1>3. ASSUME NEW t \in Threads, SetDef(t) PROVE TypeOK' /\ Aliasing'
  <2>1. NewValue(t) \in Seq(Statements)
    BY DEF NewValue, TypeOK, Command, Fact
  <2>2. infobot' \in [Keys -> Fact]
    BY <1>3, <2>1 DEF SetDef, TypeOK, Fact
  <2> QED BY <1>3, <1>b, <2>2 DEF SetDef
<1>4. ASSUME NEW t \in Threads, DelDef(t) PROVE TypeOK' /\ Aliasing'
  <2>1. infobot' \in [Keys -> Fact]
    BY <1>0, <1>4 DEF DelDef, TypeOK
  <2> QED BY <1>4, <1>b, <2>1 DEF DelDef
<1>5. ASSUME NEW t \in Threads, NEW k \in Keys, Lock(t, k) \/ Unlock(t, k)
      PROVE  TypeOK' /\ Aliasing'
  <2>1. PICK b \in BOOLEAN : infobot' = [infobot EXCEPT ![k].locked = b]
    BY <1>5 DEF Lock, Unlock, TypeOK, Fact
  <2>2. infobot' \in [Keys -> Fact]
    BY <2>1 DEF TypeOK, Fact
  <2> QED BY <1>5, <2>2 DEF Lock, Unlock, TypeOK, Aliasing
<1>6. ASSUME NEW t \in Threads, FollowAlias(t) PROVE TypeOK' /\ Aliasing'
  <2>1. Target(reply[t].value) \in Fact
    BY <1>6, TargetType DEF FollowAlias, TypeOK, Aliasing, Fact
  <2>2. infobot \in [Keys -> Fact] /\ cmd \in [Threads -> Command]
    BY DEF TypeOK
  <2> QED BY <1>6, <1>a, <1>b, <2>1, <2>2 DEF FollowAlias
<1>7. ASSUME NEW t \in Threads, Answer(t) PROVE TypeOK' /\ Aliasing'
  BY <1>7, <1>b DEF Answer, TypeOK
<1>8. CASE Restart
  BY <1>0, <1>8, CommandExists DEF Restart, TypeOK, Aliasing
<1>9. CASE UNCHANGED vars
  BY <1>9 DEF vars, TypeOK, Aliasing, HasAlias
<1> QED BY <1>1, <1>2, <1>3, <1>4, <1>5, <1>6, <1>7, <1>8, <1>9 DEF Next

LEMMA Typed == Spec => [](TypeOK /\ Aliasing)
BY InitType, StepType, PTL DEF Spec

(* The table and the threads' variables keep their types: whatever the shards
   do together, set_def() writes a well-formed row, and an alias is looked up
   under the key it names. *)
THEOREM TypeCorrect == Spec => []TypeOK
BY Typed, PTL

(* The question in work has made one get_def() when it has an alias to follow,
   and no more than two when it picks its answer. *)
Counted ==
    \A t \in Threads :
        /\ pc[t] = "idle" => lookups[t] = 0
        /\ pc[t] \in {"set", "del", "alias"} => lookups[t] = 1
        /\ pc[t] = "pick" => lookups[t] \in {1, 2}

LEMMA StepCounted == TypeOK /\ Counted /\ [Next]_vars => Counted'
<1> SUFFICES ASSUME TypeOK, Counted, [Next]_vars PROVE Counted'
  OBVIOUS
<1> USE DEF TypeOK, Counted
<1>b. ASSUME NEW t \in Threads, Return(t) PROVE Counted'
  BY <1>b DEF Return, Goto
<1>1. ASSUME NEW t \in Threads, NEW c \in Command, Said(t, c) PROVE Counted'
  BY <1>1 DEF Said, Continue, Goto
<1>2. ASSUME NEW t \in Threads, NEW k \in Keys, Ask(t, k) PROVE Counted'
  BY <1>2 DEF Ask, Continue, Goto
<1>3. ASSUME NEW t \in Threads, SetDef(t) \/ DelDef(t) \/ Answer(t) PROVE Counted'
  BY <1>3, <1>b DEF SetDef, DelDef, Answer
<1>4. ASSUME NEW t \in Threads, NEW k \in Keys, Lock(t, k) \/ Unlock(t, k) PROVE Counted'
  BY <1>4 DEF Lock, Unlock
<1>5. ASSUME NEW t \in Threads, FollowAlias(t) PROVE Counted'
  <2>1. CASE Continue(t, Target(reply[t].value), "pick")
    BY <1>5, <2>1 DEF FollowAlias, Continue, Goto
  <2> QED BY <1>5, <1>b, <2>1 DEF FollowAlias
<1>6. CASE Restart
  BY <1>6 DEF Restart
<1>7. CASE UNCHANGED vars
  BY <1>7 DEF vars
<1> QED BY <1>1, <1>2, <1>3, <1>4, <1>5, <1>6, <1>7 DEF Next

(* "Prevent alias loops" is what happens, for any aliases and any edits. *)
THEOREM NoAliasLoops == Spec => []AliasFollowedOnce
<1>1. Init => Counted
  BY DEF Init, Counted
<1>2. TypeOK /\ Counted => AliasFollowedOnce
  BY DEF TypeOK, Counted, AliasFollowedOnce
<1> QED BY <1>1, <1>2, Typed, StepCounted, PTL DEF Spec
-----------------------------------------------------------------------------
(* `sudo lock` and `sudo unlock` touch nothing but the lock. *)
LEMMA LockOnly ==
    ASSUME TypeOK, NEW t \in Threads, NEW j \in Keys, Lock(t, j) \/ Unlock(t, j), NEW k \in Keys
    PROVE  /\ infobot'[k].found = infobot[k].found /\ infobot'[k].value = infobot[k].value
           /\ infobot'[k].locked => infobot[k].locked \/ infobot[k].found
<1>1. infobot[j] \in Fact /\ infobot \in [Keys -> Fact]
  BY DEF TypeOK
<1>2. PICK b \in BOOLEAN : /\ infobot' = [infobot EXCEPT ![j] = [infobot[j] EXCEPT !.locked = b]]
                           /\ b => infobot[j].found
  BY <1>1 DEF Lock, Unlock, Fact
<1>3. CASE j = k
  <2>1. infobot'[k] = [infobot[j] EXCEPT !.locked = b]
    BY <1>1, <1>2, <1>3
  <2> QED BY <1>1, <1>2, <1>3, <2>1 DEF Fact
<1>4. CASE j # k
  BY <1>1, <1>2, <1>4
<1> QED BY <1>3, <1>4

(* Only a writer changes a fact, other than `sudo unlock` and `sudo lock`. *)
LEMMA OthersKeepFacts ==
    ASSUME TypeOK, [Next]_vars, NEW k \in Keys,
           \A t \in Threads : ~(Writing(t, k) /\ (SetDef(t) \/ DelDef(t)))
    PROVE  infobot'[k].found = infobot[k].found /\ infobot'[k].value = infobot[k].value
<1> USE DEF TypeOK, Fact
<1>1. ASSUME NEW t \in Threads, NEW c \in Command, Said(t, c) PROVE infobot' = infobot
  BY <1>1 DEF Said
<1>2. ASSUME NEW t \in Threads, NEW j \in Keys, Ask(t, j) PROVE infobot' = infobot
  BY <1>2 DEF Ask
<1>3. ASSUME NEW t \in Threads, SetDef(t) PROVE infobot'[k] = infobot[k]
  BY <1>3 DEF SetDef, Writing
<1>4. ASSUME NEW t \in Threads, DelDef(t) PROVE infobot'[k] = infobot[k]
  BY <1>4 DEF DelDef, Writing
<1>5. ASSUME NEW t \in Threads, NEW j \in Keys, Lock(t, j) \/ Unlock(t, j)
      PROVE  infobot'[k].found = infobot[k].found /\ infobot'[k].value = infobot[k].value
  BY <1>5, LockOnly
<1>6. ASSUME NEW t \in Threads, FollowAlias(t) \/ Answer(t) PROVE infobot' = infobot
  BY <1>6 DEF FollowAlias, Answer
<1>7. Restart \/ UNCHANGED vars => infobot' = infobot
  BY DEF Restart, vars
<1> QED BY <1>1, <1>2, <1>3, <1>4, <1>5, <1>6, <1>7 DEF Next

(* A lock is on a row that exists (the UPDATE of `sudo lock` touches no other),
   a row that is not found is empty, and who is going to write read a fact it
   may write. *)
Rows ==
    /\ \A k \in Keys : infobot[k].locked => infobot[k].found
    /\ \A k \in Keys : ~infobot[k].found => infobot[k].value = <<>>
    /\ \A t \in Threads : pc[t] = "set" /\ cmd[t].op = "is" => reply[t].value = <<>>
    /\ \A t \in Threads : pc[t] = "set" => cmd[t].op \in {"is", "also"}
    /\ \A t \in Threads : pc[t] = "del" => cmd[t].op = "forget"

LEMMA StepRows == TypeOK /\ Rows /\ [Next]_vars => Rows'
<1> SUFFICES ASSUME TypeOK, Rows, [Next]_vars PROVE Rows'
  OBVIOUS
<1> USE DEF TypeOK, Rows, Fact, NoFact, Goto
<1>1. ASSUME NEW t \in Threads, NEW c \in Command, Said(t, c) PROVE Rows'
  BY <1>1 DEF Said, Continue, Writes, Command, Ops
<1>2. ASSUME NEW t \in Threads, NEW k \in Keys, Ask(t, k) PROVE Rows'
  BY <1>2 DEF Ask, Continue
<1>3. ASSUME NEW t \in Threads, SetDef(t) PROVE Rows'
  BY <1>3 DEF SetDef, Return
<1>4. ASSUME NEW t \in Threads, DelDef(t) PROVE Rows'
  BY <1>4 DEF DelDef, Return
<1>5. ASSUME NEW t \in Threads, NEW k \in Keys, Lock(t, k) \/ Unlock(t, k) PROVE Rows'
  <2>1. UNCHANGED <<pc, cmd, reply>>
    BY <1>5 DEF Lock, Unlock
  <2> QED BY <1>5, <2>1, LockOnly
<1>6. ASSUME NEW t \in Threads, FollowAlias(t) PROVE Rows'
  <2>1. CASE Return(t)
    BY <1>6, <2>1 DEF FollowAlias, Return
  <2>2. CASE Continue(t, Target(reply[t].value), "pick") /\ cmd' = cmd
    BY <1>6, <2>2 DEF FollowAlias, Continue
  <2> QED BY <1>6, <2>1, <2>2 DEF FollowAlias
<1>7. ASSUME NEW t \in Threads, Answer(t) PROVE Rows'
  BY <1>7 DEF Answer, Return
<1>8. CASE Restart \/ UNCHANGED vars
  BY <1>8 DEF Restart, vars
<1> QED BY <1>1, <1>2, <1>3, <1>4, <1>5, <1>6, <1>7, <1>8 DEF Next

LEMMA LocksAreOnRows == Spec => [](TypeOK /\ Rows)
<1>1. Init => Rows
  BY DEF Init, Rows, NoFact
<1> QED BY <1>1, Typed, StepRows, PTL DEF Spec

(* No command comes to write a fact that it finds locked. *)
LEMMA StaysQuiet ==
    ASSUME TypeOK, [Next]_vars, NEW k \in Keys, infobot[k].locked, Quiet(k)
    PROVE  Quiet(k)'
<1> USE DEF TypeOK, Quiet, Writing, Goto
<1>1. ASSUME NEW t \in Threads, NEW c \in Command, Said(t, c) PROVE Quiet(k)'
  BY <1>1 DEF Said, Continue, Writes
<1>2. ASSUME NEW t \in Threads, NEW j \in Keys, Ask(t, j) PROVE Quiet(k)'
  BY <1>2 DEF Ask, Continue
<1>3. ASSUME NEW t \in Threads, SetDef(t) \/ DelDef(t) \/ Answer(t) PROVE Quiet(k)'
  BY <1>3 DEF SetDef, DelDef, Answer, Return
<1>4. ASSUME NEW t \in Threads, NEW j \in Keys, Lock(t, j) \/ Unlock(t, j)
      PROVE  Quiet(k)'
  BY <1>4 DEF Lock, Unlock
<1>5. ASSUME NEW t \in Threads, FollowAlias(t) PROVE Quiet(k)'
  BY <1>5 DEF FollowAlias, Continue, Return
<1>6. CASE Restart \/ UNCHANGED vars
  BY <1>6 DEF Restart, vars
<1> QED BY <1>1, <1>2, <1>3, <1>4, <1>5, <1>6 DEF Next

(* On any number of shards: once no command that read the fact earlier is on
   its way to the write, a locked fact is neither deleted nor edited, and no
   command gets as far as to write it. *)
THEOREM QuietLocksHold == Spec => LockHoldsWhenQuiet
<1>1. TypeOK /\ Rows /\ [Next]_vars =>
        [\A k \in Keys :
           infobot[k].locked /\ Quiet(k) =>
              /\ infobot'[k].found /\ infobot'[k].value = infobot[k].value
              /\ Quiet(k)']_vars
  BY OthersKeepFacts, StaysQuiet DEF Rows, Quiet
<1> QED BY <1>1, LocksAreOnRows, PTL DEF Spec, LockHoldsWhenQuiet

LEMMA AppendKeeps ==
    ASSUME NEW S, NEW s \in Seq(S), NEW e \in S
    PROVE  Range(s) \subseteq Range(Append(s, e))
<1>1. \A i \in DOMAIN s : i \in DOMAIN Append(s, e) /\ Append(s, e)[i] = s[i]
  OBVIOUS
<1> QED BY <1>1 DEF Range

(* On any number of shards, a command that saw a statement takes it away only
   when it is "forget". *)
LEMMA LosesOnlyUnseen ==
    ASSUME TypeOK, Rows, [Next]_vars, NEW k \in Keys,
           NEW x \in Range(infobot[k].value) \ Range(infobot'[k].value)
    PROVE  \E t \in Threads :
              /\ Writing(t, k)
              /\ cmd[t].op = "forget" \/ x \notin Range(reply[t].value)
<1>1. PICK t \in Threads : Writing(t, k) /\ (SetDef(t) \/ DelDef(t))
  BY OthersKeepFacts
<1>2. CASE DelDef(t)
  BY <1>1, <1>2 DEF DelDef, Rows
<1>3. CASE SetDef(t)
  <2>1. infobot'[k].value = NewValue(t)
    BY <1>1, <1>3 DEF SetDef, Writing, TypeOK, Fact
  <2>2. CASE cmd[t].op = "is"
    <3>1. reply[t].value = <<>>
      BY <1>3, <2>2 DEF SetDef, Rows
    <3>2. x \notin Range(<<>>)
      BY DEF Range
    <3> QED BY <1>1, <3>1, <3>2
  <2>3. CASE cmd[t].op = "also"
    <3>1. reply[t].value \in Seq(Statements) /\ cmd[t].statement \in Statements
      BY DEF TypeOK, Fact, Command
    <3>2. Range(reply[t].value) \subseteq Range(NewValue(t))
      BY <2>3, <3>1, AppendKeeps DEF NewValue
    <3> QED BY <1>1, <2>1, <3>2
  <2> QED BY <1>3, <2>2, <2>3 DEF SetDef, Rows
<1> QED BY <1>1, <1>2, <1>3

THEOREM NothingIsLostUnasked == Spec => NothingLostUnasked
<1>1. TypeOK /\ Rows /\ [Next]_vars =>
        [\A k \in Keys : \A x \in Range(infobot[k].value) \ Range(infobot'[k].value) :
           \E t \in Threads :
              /\ Writing(t, k)
              /\ cmd[t].op = "forget" \/ x \notin Range(reply[t].value)]_vars
  BY LosesOnlyUnseen
<1> QED BY <1>1, LocksAreOnRows, PTL DEF Spec, NothingLostUnasked
-----------------------------------------------------------------------------
(* Answering. *)

(* A part of the value that begins and ends at a bar or an end, with no bar
   in between. *)
LEMMA IsAlternative ==
    ASSUME NEW value, NEW a \in 1..Len(value), NEW b \in 0..Len(value),
           a - 1 <= b, a = 1 \/ a \in Bars(value),
           b = Len(value) \/ b + 1 \in Bars(value),
           (a + 1)..b \cap Bars(value) = {}
    PROVE  SubSeq(value, a, b) \in Alternatives(value)
<1> DEFINE q == <<a, b>>
<1>1. q \in (1..Len(value)) \X (0..Len(value)) /\ q[1] = a /\ q[2] = b
  OBVIOUS
<1> HIDE DEF q
<1>2. SubSeq(value, q[1], q[2]) \in Alternatives(value)
  BY <1>1 DEF Alternatives
<1> QED
  BY <1>1, <1>2

(* getreply()'s tokens are parts of the value, cut where "|" begins a
   statement: the token in front of the bar at i begins at the largest bar
   before it, or at the start. *)
LEMMA TokenIsAlternative ==
    ASSUME NEW value \in Seq(Statements), NEW i \in Bars(value)
    PROVE  TokenBefore(value, i) \in Alternatives(value)
<1> DEFINE Starts == {1} \cup {j \in Bars(value) : j < i}
           m == Max(Starts)
<1>1. /\ Len(value) \in Nat /\ Bars(value) \subseteq 1..Len(value)
      /\ i \in 1..Len(value)
  BY DEF Bars
<1>2. Starts \in SUBSET Nat /\ Starts # {} /\ \A x \in Starts : x <= i
  BY <1>1
<1>3. m \in Starts /\ \A x \in Starts : m >= x
  <2>1. i \in Nat
    BY <1>1
  <2> HIDE DEF Starts
  <2> QED
    BY <1>2, <2>1, LargestExists, Zenon
<1> HIDE DEF m
<1>4. m \in 1..Len(value) /\ i - 1 \in 0..Len(value)
  BY <1>1, <1>3
<1>5. m - 1 <= i - 1 /\ (m = 1 \/ m \in Bars(value)) /\ (i - 1) + 1 \in Bars(value)
  BY <1>1, <1>3
<1>6. (m + 1)..(i - 1) \cap Bars(value) = {}
  BY <1>1, <1>3
<1>7. TokenBefore(value, i) = SubSeq(value, m, i - 1)
  BY DEF TokenBefore, m
<1> QED
  BY <1>4, <1>5, <1>6, <1>7, IsAlternative

(* A value without a bar is its only alternative. *)
LEMMA WholeIsAlternative ==
    ASSUME NEW value \in Seq(Statements), value # <<>>, Bars(value) = {}
    PROVE  value \in Alternatives(value)
<1>1. Len(value) \in Nat /\ Len(value) >= 1
  OBVIOUS
<1>2. SubSeq(value, 1, Len(value)) = value
  BY <1>1
<1>3. SubSeq(value, 1, Len(value)) \in Alternatives(value)
  <2>1. 1 \in 1..Len(value) /\ Len(value) \in 0..Len(value) /\ 1 - 1 <= Len(value)
    BY <1>1
  <2>2. (1 + 1)..Len(value) \cap Bars(value) = {}
    OBVIOUS
  <2> QED
    BY <2>1, <2>2, IsAlternative
<1> QED
  BY <1>2, <1>3, Zenon

(* Whatever getreply() picks. *)
LEMMA PicksAreAlternatives ==
    ASSUME NEW value \in Seq(Statements), value # <<>>
    PROVE  Picks(value) # {} /\ Picks(value) \subseteq Alternatives(value)
BY TokenIsAlternative, WholeIsAlternative DEF Picks

(* A row that is found has at least one statement, and so has the answer. *)
Worded ==
    /\ \A k \in Keys : infobot[k].found => infobot[k].value # <<>>
    /\ \A t \in Threads : pc[t] = "pick" => reply[t].value # <<>>

(* Every write teaches a statement, and a picker has found a row. *)
LEMMA StepWorded == TypeOK /\ Aliasing /\ Worded /\ [Next]_vars => Worded'
<1> SUFFICES ASSUME TypeOK, Aliasing, Worded, [Next]_vars PROVE Worded'
  OBVIOUS
<1>a. ASSUME NEW t \in Threads, NEW d, NEW step, Continue(t, d, step), infobot' = infobot,
             step = "pick" => d.value # <<>>
      PROVE  Worded'
  BY <1>a DEF Continue, Goto, TypeOK, Worded
<1>b. ASSUME NEW t \in Threads, Return(t),
             \A k \in Keys : infobot'[k].found => infobot'[k].value # <<>>
      PROVE  Worded'
  BY <1>b DEF Return, Goto, TypeOK, Worded
<1>1. ASSUME NEW t \in Threads, NEW c \in Command, Said(t, c) PROVE Worded'
  BY <1>1, <1>a DEF Said
<1>2. ASSUME NEW t \in Threads, NEW k \in Keys, Ask(t, k) PROVE Worded'
  BY <1>2, <1>a DEF Ask, Worded
<1>3. ASSUME NEW t \in Threads, SetDef(t) PROVE Worded'
  <2>1. NewValue(t) # <<>>
    <3>1. reply[t].value \in Seq(Statements) /\ cmd[t].statement \in Statements
      BY DEF TypeOK, Fact, Command
    <3>2. NewValue(t) \in Seq(Statements) /\ Len(NewValue(t)) # 0
      <4>1. CASE cmd[t].op = "also"
        BY <3>1, <4>1 DEF NewValue
      <4>2. CASE cmd[t].op # "also"
        BY <3>1, <4>2 DEF NewValue
      <4> QED BY <4>1, <4>2
    <3> QED BY <3>2
  <2>2. \A k \in Keys : infobot'[k].found => infobot'[k].value # <<>>
    BY <1>3, <2>1 DEF SetDef, TypeOK, Worded
  <2> QED BY <1>3, <1>b, <2>2 DEF SetDef
<1>4. ASSUME NEW t \in Threads, DelDef(t) PROVE Worded'
  <2>1. \A k \in Keys : infobot'[k].found => infobot'[k].value # <<>>
    BY <1>4 DEF DelDef, TypeOK, Worded, NoFact
  <2> QED BY <1>4, <1>b, <2>1 DEF DelDef
<1>5. ASSUME NEW t \in Threads, NEW k \in Keys, Lock(t, k) \/ Unlock(t, k) PROVE Worded'
  <2>1. UNCHANGED <<pc, reply>>
    BY <1>5 DEF Lock, Unlock
  <2> QED BY <1>5, <2>1, LockOnly DEF Worded
<1>6. ASSUME NEW t \in Threads, FollowAlias(t) PROVE Worded'
  <2>1. Target(reply[t].value).found => Target(reply[t].value).value # <<>>
    <3>1. reply[t].value \in Seq(Statements) /\ HasAlias(reply[t].value)
      BY <1>6 DEF FollowAlias, TypeOK, Aliasing, Fact
    <3> QED BY <3>1, TargetIsRow DEF Worded, NoFact
  <2> QED BY <1>6, <1>a, <1>b, <2>1 DEF FollowAlias, Worded
<1>7. ASSUME NEW t \in Threads, Answer(t) PROVE Worded'
  BY <1>7, <1>b DEF Answer, Worded
<1>8. CASE Restart
  BY <1>8 DEF Restart, Worded
<1>9. CASE UNCHANGED vars
  BY <1>9 DEF vars, Worded
<1> QED BY <1>1, <1>2, <1>3, <1>4, <1>5, <1>6, <1>7, <1>8, <1>9 DEF Next

(* "The bot will pick one": every answer is one whole alternative of what
   get_def() returned, however many statements and bars several shards have
   put into the fact, and there is always one to pick. *)
THEOREM AnswersAreAlternatives == Spec => []AnswerIsAnAlternative
<1>1. Init => Worded
  BY DEF Init, Worded, NoFact
<1>2. TypeOK /\ Worded => AnswerIsAnAlternative
  BY PicksAreAlternatives DEF TypeOK, Worded, Fact, AnswerIsAnAlternative
<1> QED BY <1>1, <1>2, Typed, StepWorded, PTL DEF Spec
-----------------------------------------------------------------------------
(* With one shard (development mode), what get_def() returned is still what
   the table holds when the command writes, and the command may write it. *)
Fresh ==
    \A t \in Threads : pc[t] \in {"set", "del"} =>
        /\ reply[t] = infobot[cmd[t].key]
        /\ Writes(cmd[t].op, reply[t])

LEMMA StepFresh ==
    ASSUME NEW t \in Threads, Threads = {t}, TypeOK, Fresh, [Next]_vars
    PROVE  Fresh'
<1> USE DEF TypeOK, Fresh, Goto
<1>1. ASSUME NEW c \in Command, Said(t, c) PROVE Fresh'
  BY <1>1 DEF Said, Continue, Writes
<1>2. ASSUME NEW k \in Keys, Ask(t, k) PROVE Fresh'
  BY <1>2 DEF Ask, Continue
<1>3. CASE SetDef(t) \/ DelDef(t) \/ Answer(t)
  BY <1>3 DEF SetDef, DelDef, Answer, Return
<1>5. ASSUME NEW k \in Keys, Lock(t, k) \/ Unlock(t, k) PROVE Fresh'
  BY <1>5 DEF Lock, Unlock
<1>6. CASE FollowAlias(t)
  BY <1>6 DEF FollowAlias, Continue, Return
<1>7. CASE Restart
  BY <1>7 DEF Restart
<1>8. CASE UNCHANGED vars
  BY <1>8 DEF vars, Writes
<1> QED BY <1>1, <1>2, <1>3, <1>5, <1>6, <1>7, <1>8 DEF Next

(* With one shard, "Fact is locked, don't delete it" is what happens: a
   locked fact is neither deleted nor edited. *)
THEOREM OneShardKeepsLocks ==
    ASSUME NEW t \in Threads, Threads = {t}
    PROVE  Spec => LockedFactsStay
<1>1. Init => Fresh
  BY DEF Init, Fresh
<1>2. TypeOK /\ Fresh /\ [Next]_vars => Fresh'
  BY StepFresh
<1>3. TypeOK /\ Rows /\ Fresh /\ [Next]_vars =>
        [\A k \in Keys : infobot[k].locked =>
           infobot'[k].found /\ infobot'[k].value = infobot[k].value]_vars
  <2>1. ASSUME Fresh, NEW k \in Keys, infobot[k].locked
        PROVE  \A u \in Threads : ~Writing(u, k)
    BY <2>1 DEF Fresh, Writing, Writes
  <2> QED BY <2>1, OthersKeepFacts DEF Rows
<1> QED BY <1>1, <1>2, <1>3, LocksAreOnRows, PTL DEF Spec, LockedFactsStay

Store == INSTANCE FactStore

(* With one shard a command is decided by what the table holds when it
   writes, so its two queries are one step of the store. *)
LEMMA StepOfStore ==
    ASSUME TypeOK, Rows, Fresh, [Next]_vars
    PROVE  [Store!Next]_infobot
<1> USE DEF TypeOK, Rows, Fact, NoFact, Store!Nothing, Store!Taught
<1>1. ASSUME NEW u \in Threads, SetDef(u)
      PROVE  Store!Next
  <2>1. /\ cmd[u].key \in Keys /\ cmd[u].statement \in Statements
        /\ cmd[u].op \in {"is", "also"} /\ ~infobot[cmd[u].key].locked
        /\ infobot' = [infobot EXCEPT ![cmd[u].key] = Store!Taught(NewValue(u))]
    BY <1>1 DEF SetDef, Command, Fresh, Writes
  <2>2. CASE cmd[u].op = "is"
    <3>1. Store!Is(cmd[u].key, cmd[u].statement)
      BY <1>1, <2>1, <2>2 DEF SetDef, Fresh, Writes, NewValue, Store!Is
    <3> QED
      BY <2>1, <3>1 DEF Store!Next
  <2>3. CASE cmd[u].op = "also"
    <3>1. Store!Also(cmd[u].key, cmd[u].statement)
      BY <1>1, <2>1, <2>3 DEF SetDef, Fresh, NewValue, Store!Also
    <3> QED
      BY <2>1, <3>1 DEF Store!Next
  <2> QED
    BY <2>1, <2>2, <2>3
<1>2. ASSUME NEW u \in Threads, DelDef(u)
      PROVE  Store!Next
  <2>1. cmd[u].key \in Keys /\ Store!Forget(cmd[u].key)
    BY <1>2 DEF DelDef, Command, Fresh, Writes, Store!Forget
  <2> QED
    BY <2>1 DEF Store!Next
<1>3. ASSUME NEW u \in Threads, NEW k \in Keys, Lock(u, k) \/ Unlock(u, k)
      PROVE  Store!Next \/ infobot' = infobot
  <2>1. CASE infobot[k].found
    BY <1>3, <2>1 DEF Lock, Unlock, Store!Next, Store!SetLock
  <2>2. CASE ~infobot[k].found
    <3>1. infobot' = [infobot EXCEPT ![k] = [infobot[k] EXCEPT !.locked = FALSE]]
      BY <1>3, <2>2 DEF Lock, Unlock
    <3>2. infobot[k] \in Fact /\ infobot[k].locked = FALSE
      BY <2>2
    <3>3. [infobot[k] EXCEPT !.locked = FALSE] = infobot[k]
      BY <3>2
    <3> QED
      BY <3>1, <3>3
  <2> QED
    BY <2>1, <2>2
<1>4. ASSUME NEW u \in Threads, FollowAlias(u) \/ Answer(u)
      PROVE  infobot' = infobot
  BY <1>4 DEF FollowAlias, Answer
<1>5. ASSUME NEW u \in Threads, NEW c \in Command, Said(u, c)
      PROVE  infobot' = infobot
  BY <1>5 DEF Said
<1>6. ASSUME NEW u \in Threads, NEW k \in Keys, Ask(u, k)
      PROVE  infobot' = infobot
  BY <1>6 DEF Ask
<1>7. Restart \/ UNCHANGED vars => infobot' = infobot
  BY DEF Restart, vars
<1> QED
  BY <1>1, <1>2, <1>3, <1>4, <1>5, <1>6, <1>7 DEF Next

(* With one shard (development mode), teaching is atomic: the bot's commands
   behave as if get_def() and what it writes were one step, also when the
   process dies between the two queries. *)
THEOREM OneShardImplementsStore ==
    ASSUME NEW t \in Threads, Threads = {t}
    PROVE  Spec => Store!Spec
<1>1. Init => Fresh /\ Store!Init
  BY DEF Init, Fresh, NoFact, Store!Init, Store!Nothing
<1>2. TypeOK /\ Fresh /\ [Next]_vars => Fresh'
  BY StepFresh
<1>3. TypeOK /\ Rows /\ Fresh /\ [Next]_vars => [Store!Next]_infobot
  BY StepOfStore
<1> QED BY <1>1, <1>2, <1>3, LocksAreOnRows, PTL DEF Spec, Store!Spec
=============================================================================
