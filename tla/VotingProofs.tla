---------------------------- MODULE VotingProofs ----------------------------
(***************************************************************************)
(* What Voting promises for every number of members, votes and crashes.    *)
(*                                                                         *)
(* Both action properties need more than the state they speak of.  A row   *)
(* is marked only with the role there or on its way because it was asked   *)
(* for one step before, and what is sent meanwhile keeps that so (Earned); *)
(* an old snapshot may decide what is deleted because a row never becomes  *)
(* unrewarded again (SnapshotBehind).                                      *)
(***************************************************************************)
EXTENDS Voting, TLAPS

\* The voter whose rows are about to be marked has the role or gets it.
Earned == pc = "update" => Holding(VoterOf[current])

\* What the snapshot saw as rewarded still is, or is gone.
SnapshotBehind ==
    \A v \in Votes : snapshot[v] = "given" => row[v] \in {"given", "deleted"}

VotingInv == TypeOK /\ Earned /\ SnapshotBehind

LEMMA InitVoting == Init => VotingInv
  BY VotingAssumption DEF Init, NoSnapshot, VotingInv, TypeOK, Earned, SnapshotBehind

(* A request to give the role makes sure that its member gets it, and takes it
   from nobody. *)
LEMMA AddHolds ==
  ASSUME requests \in Seq(Request), NEW w \in Voters,
         requests' = Append(requests, Add(w)), role' = role
  PROVE  /\ Holding(w)'
         /\ \A u \in Voters : Holding(u) => Holding(u)'
<1>1. /\ Len(requests') = Len(requests) + 1
      /\ requests'[Len(requests')] = Add(w)
      /\ \A i \in DOMAIN requests : requests'[i] = requests[i]
      /\ DOMAIN requests' = 1..Len(requests') /\ DOMAIN requests = 1..Len(requests)
      /\ Len(requests) \in Nat
  BY DEF Request, Add
<1>2. \A u \in Voters : Add(w) # Delete(u)
  BY DEF Add, Delete
<1>3. \A j \in DOMAIN requests' : ~(j > Len(requests'))
  BY <1>1
<1>4. Len(requests') \in DOMAIN requests'
  BY <1>1
<1>5. Holding(w)'
  BY <1>1, <1>3, <1>4 DEF Holding
<1>6. ASSUME NEW u \in Voters, NEW i \in DOMAIN requests, requests[i] = Add(u),
             \A j \in DOMAIN requests : j > i => requests[j] # Delete(u)
      PROVE  Holding(u)'
  <2>1. i \in DOMAIN requests' /\ requests'[i] = Add(u)
    BY <1>1, <1>6
  <2>2. ASSUME NEW j \in DOMAIN requests', j > i PROVE requests'[j] # Delete(u)
    BY <1>1, <1>2, <1>6, <2>2
  <2> QED
    BY <2>1, <2>2 DEF Holding
<1>7. ASSUME NEW u \in Voters, u \in role, \A i \in DOMAIN requests : requests[i] # Delete(u)
      PROVE  Holding(u)'
  <2>1. ASSUME NEW j \in DOMAIN requests' PROVE requests'[j] # Delete(u)
    BY <1>1, <1>2, <1>7
  <2> QED
    BY <1>7, <2>1 DEF Holding
<1> QED
  BY <1>5, <1>6, <1>7 DEF Holding

(* A request to take the role matters to its member only. *)
LEMMA DeleteSpares ==
  ASSUME requests \in Seq(Request), NEW w \in Voters,
         requests' = Append(requests, Delete(w)), role' = role,
         NEW u \in Voters \ {w}, Holding(u)
  PROVE  Holding(u)'
<1>1. /\ Len(requests') = Len(requests) + 1
      /\ requests'[Len(requests')] = Delete(w)
      /\ \A i \in DOMAIN requests : requests'[i] = requests[i]
      /\ DOMAIN requests' = 1..Len(requests') /\ DOMAIN requests = 1..Len(requests)
      /\ Len(requests) \in Nat
  BY DEF Request, Delete
<1>2. Delete(w) # Delete(u)
  BY DEF Delete
<1>3. ASSUME NEW i \in DOMAIN requests, requests[i] = Add(u),
             \A j \in DOMAIN requests : j > i => requests[j] # Delete(u)
      PROVE  Holding(u)'
  <2>1. i \in DOMAIN requests' /\ requests'[i] = Add(u)
    BY <1>1, <1>3
  <2>2. ASSUME NEW j \in DOMAIN requests', j > i PROVE requests'[j] # Delete(u)
    BY <1>1, <1>2, <1>3, <2>2
  <2> QED
    BY <2>1, <2>2 DEF Holding
<1>4. ASSUME u \in role, \A i \in DOMAIN requests : requests[i] # Delete(u)
      PROVE  Holding(u)'
  <2>1. ASSUME NEW j \in DOMAIN requests' PROVE requests'[j] # Delete(u)
    BY <1>1, <1>2, <1>4
  <2> QED
    BY <1>4, <2>1 DEF Holding
<1> QED
  BY <1>3, <1>4 DEF Holding

(* Sending a request changes nobody's prospects. *)
LEMMA SendHolds ==
  ASSUME requests \in Seq(Request), Send, NEW u \in Voters, Holding(u)
  PROVE  Holding(u)'
<1>1. /\ Len(requests) \in Nat /\ Len(requests') = Len(requests) - 1
      /\ \A i \in DOMAIN requests' : requests'[i] = requests[i + 1] /\ i + 1 \in DOMAIN requests
      /\ DOMAIN requests' = 1..Len(requests') /\ DOMAIN requests = 1..Len(requests)
      /\ 1 \in DOMAIN requests /\ Head(requests) = requests[1] /\ requests[1] \in Request
  BY DEF Send
<1>2. ASSUME u \in role, \A i \in DOMAIN requests : requests[i] # Delete(u)
      PROVE  Holding(u)'
  <2>1. requests[1] # Delete(u)
    BY <1>1, <1>2
  <2>2. u \in role'
    BY <1>1, <1>2, <2>1 DEF Send, Request, Delete
  <2>3. \A i \in DOMAIN requests' : requests'[i] # Delete(u)
    BY <1>1, <1>2
  <2> QED
    BY <2>2, <2>3 DEF Holding
<1>3. ASSUME NEW i \in DOMAIN requests, requests[i] = Add(u),
             \A j \in DOMAIN requests : j > i => requests[j] # Delete(u)
      PROVE  Holding(u)'
  <2>1. CASE i = 1
    <3>1. u \in role'
      BY <1>1, <1>3, <2>1 DEF Send, Add
    <3>2. \A j \in DOMAIN requests' : requests'[j] # Delete(u)
      BY <1>1, <1>3, <2>1
    <3> QED
      BY <3>1, <3>2 DEF Holding
  <2>2. CASE i # 1
    <3>1. i - 1 \in DOMAIN requests' /\ requests'[i - 1] = Add(u)
      BY <1>1, <1>3, <2>2
    <3>2. \A j \in DOMAIN requests' : j > i - 1 => requests'[j] # Delete(u)
      BY <1>1, <1>3
    <3> QED
      BY <3>1, <3>2 DEF Holding
  <2> QED
    BY <2>1, <2>2
<1> QED
  BY <1>2, <1>3 DEF Holding

\* Every step keeps the types of the variables.
LEMMA StepTypes ==
  ASSUME TypeOK, [Next]_vars
  PROVE  TypeOK'
<1> USE VotingAssumption DEF TypeOK
<1>1. CASE \E v \in Votes : Cast(v) \/ Age(v)
  BY <1>1 DEF Cast, Age, Rows
<1>2. CASE \E u \in Voters : CacheUser(u) \/ UncacheUser(u)
  BY <1>2 DEF CacheUser, UncacheUser
<1>3. CASE Select
  BY <1>3 DEF Select, Rows
<1>4. ASSUME NEW v \in Votes, DeleteRow(v) \/ Keep(v)
      PROVE  TypeOK'
  BY <1>4 DEF DeleteRow, Keep
<1>5. ASSUME NEW v \in Votes, AddRole(v) \/ Skip(v)
      PROVE  TypeOK'
  <2>1. Add(VoterOf[v]) \in Request
    BY DEF Add, Request
  <2> QED
    BY <1>5, <2>1 DEF AddRole, Skip
<1>6. CASE RemoveRole
  <2>1. Delete(VoterOf[current]) \in Request
    BY <1>6 DEF RemoveRole, Delete, Request
  <2> QED
    BY <1>6, <2>1 DEF RemoveRole
<1>7. CASE StartAdditions \/ EndOfPass
  BY <1>7 DEF StartAdditions, EndOfPass, NoSnapshot
<1>8. CASE MarkGiven
  BY <1>8 DEF MarkGiven
<1>9. CASE Send
  <2>1. Head(requests) \in Request /\ Tail(requests) \in Seq(Request)
    BY <1>9 DEF Send
  <2>2. role' \in SUBSET Voters
    BY <1>9, <2>1 DEF Send, Request
  <2> QED
    BY <1>9, <2>1, <2>2 DEF Send
<1>10. CASE Restart
  BY <1>10 DEF Restart, NoSnapshot
<1>11. CASE UNCHANGED vars
  BY <1>11 DEF vars
<1> QED
  BY <1>1, <1>2, <1>3, <1>4, <1>5, <1>6, <1>7, <1>8, <1>9, <1>10, <1>11 DEF Next, Pass

\* Every step keeps the two other parts of the invariant.
LEMMA StepVoting ==
  ASSUME VotingInv, [Next]_vars
  PROVE  VotingInv'
<1>0. TypeOK'
  BY StepTypes DEF VotingInv
<1> USE VotingAssumption DEF VotingInv
<1>1. ASSUME NEW v \in Votes, AddRole(v)
      PROVE  VotingInv'
  <2>1. Holding(VoterOf[v])'
    BY <1>1, AddHolds DEF AddRole, TypeOK
  <2>2. Earned'
    BY <1>1, <2>1 DEF AddRole, Earned, Holding
  <2> QED
    BY <1>0, <1>1, <2>2 DEF AddRole, SnapshotBehind
<1>2. CASE Send
  <2>1. pc = "update" => VoterOf[current] \in Voters
    BY DEF TypeOK
  <2>2. Earned'
    BY <1>2, <2>1, SendHolds DEF Send, Earned, Holding, TypeOK
  <2> QED
    BY <1>0, <1>2, <2>2 DEF Send, SnapshotBehind
<1>3. ASSUME pc' # "update" \/ UNCHANGED <<pc, current, role, requests>>
      PROVE  Earned'
  BY <1>3 DEF Earned, Holding
<1>4. ASSUME ~(\E v \in Votes : AddRole(v)), ~Send
      PROVE  pc' # "update" \/ UNCHANGED <<pc, current, role, requests>>
  BY <1>4 DEF Next, Pass, Cast, Age, CacheUser, UncacheUser, Select, DeleteRow, Keep, Skip,
     RemoveRole, StartAdditions, MarkGiven, EndOfPass, Restart, vars
<1>5. SnapshotBehind'
  <2> USE DEF TypeOK, SnapshotBehind
  <2>1. CASE \E v \in Votes : Cast(v) \/ DeleteRow(v)
    BY <2>1 DEF Cast, DeleteRow
  <2>2. CASE Select \/ MarkGiven
    BY <2>2 DEF Select, MarkGiven
  <2>3. CASE EndOfPass \/ Restart
    BY <2>3 DEF EndOfPass, Restart, NoSnapshot
  <2>4. CASE UNCHANGED <<row, snapshot>>
    BY <2>4
  <2> QED
    BY <2>1, <2>2, <2>3, <2>4
    DEF Next, Pass, Age, CacheUser, UncacheUser, Keep, AddRole, Skip, RemoveRole,
        StartAdditions, Send, vars
<1> QED
  BY <1>0, <1>1, <1>2, <1>3, <1>4, <1>5

THEOREM VotingInvariant == Spec => []VotingInv
  BY InitVoting, StepVoting, PTL DEF Spec

(* The pass handles a row in two steps exactly when one is current, and every
   variable stays within its values. *)
THEOREM VotingTypes == Spec => []TypeOK
<1>1. VotingInv => TypeOK
  BY DEF VotingInv
<1> QED
  BY <1>1, VotingInvariant, PTL

(* Whatever the queue of requests holds and however often the process dies, a
   vote is marked only with the role there or on its way. *)
THEOREM MarkedAreAsked == Spec => AskedBeforeMarked
<1> DEFINE A == \A v \in Votes : row[v] = "new" /\ row'[v] = "given" => Holding(VoterOf[v])'
<1>1. ASSUME VotingInv, [Next]_vars
      PROVE  [A]_vars
  <2> USE VotingAssumption DEF VotingInv, TypeOK
  <2>1. CASE MarkGiven
    BY <1>1, <2>1 DEF MarkGiven, Earned, Holding
  <2>2. ASSUME NEW v \in Votes, DeleteRow(v)
        PROVE  A
    BY <2>2 DEF DeleteRow
  <2>3. ASSUME NEW v \in Votes, Cast(v)
        PROVE  A
    BY <2>3 DEF Cast
  <2>4. CASE UNCHANGED row
    BY <2>4
  <2> QED
    BY <1>1, <2>1, <2>2, <2>3, <2>4
    DEF Next, Pass, Age, CacheUser, UncacheUser, Select, Keep, AddRole, Skip, RemoveRole,
        StartAdditions, EndOfPass, Send, Restart, vars
<1> QED
  BY <1>1, VotingInvariant, PTL DEF Spec, AskedBeforeMarked

(* A removal decides by a snapshot that may be older than other passes, votes
   and crashes, and still deletes only rewarded votes of more than a day. *)
THEOREM NoVoteCutShort == Spec => VotesLastADay
<1> DEFINE A == \A v \in Votes : row'[v] = "deleted" /\ row[v] # "deleted" =>
                                    row[v] = "given" /\ v \in old
<1>1. ASSUME VotingInv, [Next]_vars
      PROVE  [A]_vars
  <2> USE VotingAssumption DEF VotingInv, TypeOK
  <2>1. CASE MarkGiven
    BY <2>1 DEF MarkGiven
  <2>2. ASSUME NEW v \in Votes, DeleteRow(v)
        PROVE  A
    BY <1>1, <2>2 DEF DeleteRow, Expired, SnapshotBehind
  <2>3. ASSUME NEW v \in Votes, Cast(v)
        PROVE  A
    BY <2>3 DEF Cast
  <2>4. CASE UNCHANGED row
    BY <2>4
  <2> QED
    BY <1>1, <2>1, <2>2, <2>3, <2>4
    DEF Next, Pass, Age, CacheUser, UncacheUser, Select, Keep, AddRole, Skip, RemoveRole,
        StartAdditions, EndOfPass, Send, Restart, vars
<1> QED
  BY <1>1, VotingInvariant, PTL DEF Spec, VotesLastADay
-----------------------------------------------------------------------------
(* Who keeps the role. *)

(* A voting site reports no vote of a user who has another one in the table. *)
NoRevote ==
    [][\A v \in Votes : row[v] = "none" /\ row'[v] = "new" =>
         \A w \in VotesOf(VoterOf[v]) : row[w] \in {"none", "deleted"}]_vars

(* The process dies only when every request is sent. *)
NothingUnsent == [][crashes' # crashes => requests = <<>>]_vars

(* A voter has one row at most, and the removals delete one that is there, so
   it is not beside a rewarded one; a rewarded row comes with the role. *)
OneRow ==
    /\ pc \in {"removals", "unrole"} => todo \subseteq Rows
    /\ \A v, w \in Rows : VoterOf[v] = VoterOf[w] => v = w
    /\ pc = "unrole" => \A w \in VotesOf(VoterOf[current]) : row[w] # "given"
    /\ \A v \in Votes : row[v] = "given" => Holding(VoterOf[v])

(* Rows that neither come nor go leave what is said of them. *)
LEMMA OneRowStays ==
  ASSUME OneRow, UNCHANGED row, pc' = "unrole" => UNCHANGED <<pc, current>>,
         pc' \in {"removals", "unrole"} => todo' \subseteq Rows,
         \A u \in Votes : row[u] = "given" => Holding(VoterOf[u])'
  PROVE  OneRow'
BY DEF OneRow, Rows, VotesOf

(* No step gives a voter a second row as long as votes come one at a time, nor
   takes the role from a rewarded one as long as no request is lost. *)
LEMMA StepOneRow ==
  ASSUME VotingInv, OneRow, [Next]_vars,
         \A v \in Votes : row[v] = "none" /\ row'[v] = "new" =>
             \A w \in VotesOf(VoterOf[v]) : row[w] \in {"none", "deleted"},
         crashes' # crashes => requests = <<>>
  PROVE  OneRow'
<1> USE VotingAssumption DEF VotingInv, TypeOK
<1>1. ASSUME NEW v \in Votes, Cast(v)
      PROVE  OneRow'
  <2>1. row[v] = "none" /\ row' = [row EXCEPT ![v] = "new"]
    BY <1>1 DEF Cast
  <2>2. \A w \in Votes : VoterOf[w] = VoterOf[v] => row[w] \in {"none", "deleted"}
    BY <2>1 DEF VotesOf
  <2>3. \A w \in Rows' : w # v => w \in Rows /\ VoterOf[w] # VoterOf[v]
    BY <2>1, <2>2 DEF Rows
  <2>4. \A w \in Votes : row'[w] = "given" => row[w] = "given"
    BY <2>1
  <2>5. UNCHANGED <<role, requests, pc, current, todo>>
    BY <1>1 DEF Cast
  <2>6. \A u, w \in Rows' : VoterOf[u] = VoterOf[w] => u = w
    BY <2>3 DEF OneRow
  <2>7. \A w \in Votes : row'[w] = "given" => Holding(VoterOf[w])'
    BY <2>4, <2>5 DEF Holding, OneRow
  <2>8. pc' = "unrole" => \A w \in VotesOf(VoterOf[current']) : row'[w] # "given"
    BY <2>4, <2>5 DEF OneRow, VotesOf
  <2>9. pc' \in {"removals", "unrole"} => todo' \subseteq Rows'
    BY <2>1, <2>5 DEF OneRow, Rows
  <2> QED
    BY <2>6, <2>7, <2>8, <2>9 DEF OneRow, VotesOf
<1>2. ASSUME NEW v \in Votes, DeleteRow(v)
      PROVE  OneRow'
  <2>1. /\ row[v] = "given" /\ row' = [row EXCEPT ![v] = "deleted"]
        /\ current' = v /\ todo' = todo \ {v} /\ UNCHANGED <<role, requests>>
    BY <1>2 DEF DeleteRow, Expired, SnapshotBehind, OneRow, Rows
  <2>2. \A w \in Votes : VoterOf[w] = VoterOf[v] => row'[w] # "given"
    BY <2>1 DEF OneRow, Rows
  <2>3. Rows' = Rows \ {v}
    BY <2>1 DEF Rows
  <2>4. todo' \subseteq Rows'
    BY <1>2, <2>1, <2>3 DEF DeleteRow, OneRow
  <2>5. \A u, w \in Rows' : VoterOf[u] = VoterOf[w] => u = w
    BY <2>3 DEF OneRow
  <2>6. \A w \in VotesOf(VoterOf[current']) : row'[w] # "given"
    BY <2>1, <2>2 DEF VotesOf
  <2>7. \A w \in Votes : row'[w] = "given" => Holding(VoterOf[w])'
    BY <2>1 DEF Holding, OneRow
  <2> QED
    BY <2>4, <2>5, <2>6, <2>7 DEF OneRow, VotesOf
<1>3. CASE RemoveRole
  <2>1. /\ VoterOf[current] \in Voters /\ UNCHANGED <<row, role, todo>>
        /\ requests' = Append(requests, Delete(VoterOf[current])) /\ pc' = "removals"
    BY <1>3 DEF RemoveRole
  <2>2. ASSUME NEW v \in Votes, row[v] = "given" PROVE Holding(VoterOf[v])'
    <3>1. VoterOf[v] # VoterOf[current]
      BY <1>3, <2>2 DEF RemoveRole, OneRow, VotesOf
    <3> QED
      BY <2>1, <2>2, <3>1, DeleteSpares DEF OneRow
  <2> QED
    BY <1>3, <2>1, <2>2, OneRowStays DEF RemoveRole, OneRow
<1>4. CASE MarkGiven
  <2>1. \A v \in Votes : row'[v] = "given" => Holding(VoterOf[v])'
    BY <1>4 DEF MarkGiven, Earned, Holding, OneRow
  <2>2. Rows' \subseteq Rows
    BY <1>4 DEF MarkGiven, Rows
  <2> QED
    BY <1>4, <2>1, <2>2 DEF MarkGiven, OneRow
<1>5. ASSUME NEW v \in Votes, AddRole(v)
      PROVE  OneRow'
  <2>1. \A w \in Votes : row[w] = "given" => Holding(VoterOf[w])'
    BY <1>5, AddHolds DEF AddRole, OneRow
  <2> QED
    BY <1>5, <2>1, OneRowStays DEF AddRole
<1>6. CASE Send
  <2>1. \A w \in Votes : row[w] = "given" => Holding(VoterOf[w])'
    BY <1>6, SendHolds DEF OneRow
  <2> QED
    BY <1>6, <2>1, OneRowStays DEF Send, OneRow
<1>7. CASE Restart
  <2>1. requests' = requests /\ role' = role /\ row' = row /\ pc' = "idle"
    BY <1>7 DEF Restart
  <2> QED
    BY <2>1, OneRowStays DEF OneRow, Holding
<1>8. ASSUME UNCHANGED <<row, role, requests>>, pc' = "unrole" => UNCHANGED <<pc, current>>,
             pc' \in {"removals", "unrole"} => todo' \subseteq Rows
      PROVE  OneRow'
  BY <1>8, OneRowStays DEF Holding, OneRow
<1> QED
  BY <1>1, <1>2, <1>3, <1>4, <1>5, <1>6, <1>7, <1>8
  DEF Next, Pass, Age, CacheUser, UncacheUser, Select, Keep, Skip, StartAdditions, EndOfPass,
      vars, OneRow

(* Only a vote beside an older one and a crash with requests unsent can cost
   the role: a user who votes again after the older row is deleted keeps it
   for as long as the vote counts, in whatever order votes, passes, requests
   and other crashes come. *)
THEOREM SingleVotesKeepRole == Spec /\ NoRevote /\ NothingUnsent => []RevoteKeepsRole
<1> DEFINE A == \A v \in Votes : row[v] = "none" /\ row'[v] = "new" =>
                  \A w \in VotesOf(VoterOf[v]) : row[w] \in {"none", "deleted"}
           B == crashes' # crashes => requests = <<>>
<1>1. Init => OneRow
  BY DEF Init, OneRow, Rows
<1>2. VotingInv /\ OneRow /\ [Next]_vars /\ [A]_vars /\ [B]_vars => OneRow'
  <2>1. UNCHANGED vars => A /\ B
    BY DEF vars
  <2> QED
    BY <2>1, StepOneRow
<1>3. OneRow => RevoteKeepsRole
  BY DEF OneRow, RevoteKeepsRole, VotesOf, Holding
<1> QED
  BY <1>1, <1>2, <1>3, VotingInvariant, PTL DEF Spec, NoRevote, NothingUnsent
=============================================================================
