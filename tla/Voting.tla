------------------------------- MODULE Voting -------------------------------
(***************************************************************************)
(* Roles for votes: VotingModule::OnPresenceUpdate()                       *)
(* (src/modules/voting/voting.cpp), called every 30 seconds.               *)
(*                                                                         *)
(* A pass takes a snapshot of infobot_votes, first removes what expired,   *)
(* then gives the role to who has none yet.  Queries are done when they    *)
(* return; a REST call only queues a request and nothing waits for it, so  *)
(* what is not sent is lost when the process dies.  The pass sends its     *)
(* removals before its additions and relies on that order: the requests of *)
(* one route are sent one after the other.  Discord carries out what is    *)
(* sent.  Votes are inserted by the voting sites' callback, another        *)
(* process, at any moment; the clocks of bot and database agree.  A pass   *)
(* while the home guild is unknown changes nothing and is left out.        *)
(***************************************************************************)
EXTENDS Integers, Sequences

CONSTANTS
    Voters,      \* members of the home guild
    Votes,       \* row ids of infobot_votes
    VoterOf,     \* VoterOf[v]: snowflake_id
    NoVote,      \* not a row
    MaxCrashes,  \* BOUND: restarts of the process
    MaxRequests  \* BOUND: a pass begins while fewer requests are queued

ASSUME VotingAssumption ==
    /\ VoterOf \in [Votes -> Voters]
    /\ NoVote \notin Votes
    /\ MaxCrashes \in Nat /\ MaxRequests \in Nat

VARIABLES
    row,        \* of each vote: "none" (not cast), "new" (rolegiven = 0), "given", "deleted"
    old,        \* votes cast more than 86400 seconds ago
    role,       \* voters that hold the vote_role at Discord
    requests,   \* the role requests D++ has queued, oldest first
    cached,     \* voters in the D++ cache: find_user()
    pc,         \* of the presence thread
    snapshot,   \* rs_votes: rolegiven of each row, as the SELECT returned it
    todo,       \* rows the current loop has not reached
    current,    \* the row between its two steps, or NoVote
    crashes

vars == <<row, old, role, requests, cached, pc, snapshot, todo, current, crashes>>

Request == [op : {"add", "delete"}, member : Voters]
Add(u) == [op |-> "add", member |-> u]
Delete(u) == [op |-> "delete", member |-> u]

Rows == {v \in Votes : row[v] \in {"new", "given"}}

TypeOK ==
    /\ row \in [Votes -> {"none", "new", "given", "deleted"}]
    /\ old \in SUBSET Votes
    /\ role \in SUBSET Voters
    /\ requests \in Seq(Request)
    /\ cached \in SUBSET Voters
    /\ pc \in {"idle", "removals", "unrole", "additions", "update"}
    /\ snapshot \in [Votes -> {"none", "new", "given", "deleted"}]
    /\ todo \in SUBSET Votes
    /\ current \in Votes \cup {NoVote}
    /\ current # NoVote <=> pc \in {"unrole", "update"}
    /\ crashes \in 0..MaxCrashes

\* rs_votes lives as long as the pass.
NoSnapshot == [v \in Votes |-> "none"]

Init ==
    /\ row = [v \in Votes |-> "none"]
    /\ old = {}
    /\ role = {}
    /\ requests = <<>>
    /\ cached = {}
    /\ pc = "idle"
    /\ snapshot = NoSnapshot
    /\ todo = {}
    /\ current = NoVote
    /\ crashes = 0

\* A voting site reports a vote.
Cast(v) ==
    /\ row[v] = "none"
    /\ row' = [row EXCEPT ![v] = "new"]
    /\ UNCHANGED <<old, role, requests, cached, pc, snapshot, todo, current, crashes>>

Age(v) ==
    /\ v \in Rows \ old
    /\ old' = old \cup {v}
    /\ UNCHANGED <<row, role, requests, cached, pc, snapshot, todo, current, crashes>>

\* The gateway brings users and takes them away.
CacheUser(u) ==
    /\ u \notin cached
    /\ cached' = cached \cup {u}
    /\ UNCHANGED <<row, old, role, requests, pc, snapshot, todo, current, crashes>>

UncacheUser(u) ==
    /\ u \in cached
    /\ cached' = cached \ {u}
    /\ UNCHANGED <<row, old, role, requests, pc, snapshot, todo, current, crashes>>

\* Mutant: the query asks only for the votes to reward.
Select_OnlyNew ==
    /\ pc = "idle" /\ Len(requests) < MaxRequests
    /\ snapshot' = row
    /\ todo' = {v \in Rows : row[v] = "new"}
    /\ pc' = "removals"
    /\ UNCHANGED <<row, old, role, requests, cached, current, crashes>>

\* SELECT id, snowflake_id, ... FROM infobot_votes
Select ==
    /\ pc = "idle" /\ Len(requests) < MaxRequests
    /\ snapshot' = row
    /\ todo' = Rows
    /\ pc' = "removals"
    /\ UNCHANGED <<row, old, role, requests, cached, current, crashes>>

Found(v) == VoterOf[v] \in cached

\* Mutant: the age of the vote is not tested.
Expired_AnyAge(v) == Found(v) /\ snapshot[v] = "given"

Expired(v) == Found(v) /\ snapshot[v] = "given" /\ v \in old

DeleteRow(v) ==
    /\ pc = "removals" /\ v \in todo /\ Expired(v)
    /\ row' = [row EXCEPT ![v] = "deleted"]
    /\ todo' = todo \ {v}
    /\ current' = v
    /\ pc' = "unrole"
    /\ UNCHANGED <<old, role, requests, cached, snapshot, crashes>>

\* guild_member_delete_role()
RemoveRole ==
    /\ pc = "unrole"
    /\ requests' = Append(requests, Delete(VoterOf[current]))
    /\ current' = NoVote
    /\ pc' = "removals"
    /\ UNCHANGED <<row, old, role, cached, snapshot, todo, crashes>>

\* A row the removals leave alone: its user is unknown, or it is not given, or
\* not expired when it is reached.
Keep(v) ==
    /\ pc = "removals" /\ v \in todo /\ ~Expired(v)
    /\ todo' = todo \ {v}
    /\ UNCHANGED <<row, old, role, requests, cached, pc, snapshot, current, crashes>>

\* The second loop goes over the same snapshot.
StartAdditions ==
    /\ pc = "removals" /\ todo = {}
    /\ todo' = {v \in Votes : snapshot[v] = "new"}
    /\ pc' = "additions"
    /\ UNCHANGED <<row, old, role, requests, cached, snapshot, current, crashes>>

\* Mutant: the id of the row is passed for that of its voter.
AddRole_RowId(v) ==
    /\ pc = "additions" /\ v \in todo /\ Found(v)
    /\ requests' = Append(requests, Add(v))
    /\ todo' = todo \ {v}
    /\ current' = v
    /\ pc' = "update"
    /\ UNCHANGED <<row, old, role, cached, snapshot, crashes>>

\* guild_member_add_role(): no callback, so the UPDATE does not wait for it.
AddRole(v) ==
    /\ pc = "additions" /\ v \in todo /\ Found(v)
    /\ requests' = Append(requests, Add(VoterOf[v]))
    /\ todo' = todo \ {v}
    /\ current' = v
    /\ pc' = "update"
    /\ UNCHANGED <<row, old, role, cached, snapshot, crashes>>

\* find_user() knows no such user.
Skip(v) ==
    /\ pc = "additions" /\ v \in todo /\ ~Found(v)
    /\ todo' = todo \ {v}
    /\ UNCHANGED <<row, old, role, requests, cached, pc, snapshot, current, crashes>>

\* Mutant: the UPDATE has no WHERE.
MarkGiven_EveryRow ==
    /\ pc = "update"
    /\ row' = [v \in Votes |-> IF row[v] = "new" THEN "given" ELSE row[v]]
    /\ current' = NoVote
    /\ pc' = "additions"
    /\ UNCHANGED <<old, role, requests, cached, snapshot, todo, crashes>>

\* UPDATE ... SET rolegiven = 1 WHERE snowflake_id: every row of the voter,
\* the ones cast since the snapshot included.
MarkGiven ==
    /\ pc = "update"
    /\ row' = [v \in Votes |->
                 IF row[v] = "new" /\ VoterOf[v] = VoterOf[current] THEN "given" ELSE row[v]]
    /\ current' = NoVote
    /\ pc' = "additions"
    /\ UNCHANGED <<old, role, requests, cached, snapshot, todo, crashes>>

EndOfPass ==
    /\ pc = "additions" /\ todo = {}
    /\ pc' = "idle"
    /\ snapshot' = NoSnapshot
    /\ UNCHANGED <<row, old, role, requests, cached, todo, current, crashes>>

\* A thread of D++ sends the oldest request.
Send ==
    /\ requests # <<>>
    /\ role' = LET r == Head(requests) IN
               IF r.op = "add" THEN role \cup {r.member} ELSE role \ {r.member}
    /\ requests' = Tail(requests)
    /\ UNCHANGED <<row, old, cached, pc, snapshot, todo, current, crashes>>

\* The process dies, with the requests it has not sent.
Restart ==
    /\ crashes < MaxCrashes
    /\ crashes' = crashes + 1
    /\ pc' = "idle"
    /\ todo' = {}
    /\ current' = NoVote
    /\ cached' = {}
    /\ requests' = <<>>
    /\ snapshot' = NoSnapshot
    /\ UNCHANGED <<row, old, role>>

Pass ==
    \/ Select
    \/ \E v \in Votes : DeleteRow(v) \/ Keep(v) \/ AddRole(v) \/ Skip(v)
    \/ RemoveRole \/ StartAdditions \/ MarkGiven \/ EndOfPass

Next ==
    \/ \E v \in Votes : Cast(v) \/ Age(v)
    \/ \E u \in Voters : CacheUser(u) \/ UncacheUser(u)
    \/ Pass
    \/ Send
    \/ Restart

Spec == Init /\ [][Next]_vars

(* The presence thread is called again every 30 seconds, the threads of D++
   send what is queued, and time passes. *)
FairSpec == Spec /\ WF_vars(Pass) /\ WF_vars(Send) /\ \A v \in Votes : WF_vars(Age(v))
-----------------------------------------------------------------------------
VotesOf(u) == {v \in Votes : VoterOf[v] = u}

(* Once everything queued is sent, u holds the role: there is no removal
   behind the last that gives it. *)
Holding(u) ==
    \/ u \in role /\ \A i \in DOMAIN requests : requests[i] # Delete(u)
    \/ \E i \in DOMAIN requests :
          /\ requests[i] = Add(u)
          /\ \A j \in DOMAIN requests : j > i => requests[j] # Delete(u)

(* A vote is marked as rewarded only when its voter has the role or a request
   on the way that gives it and that no removal follows, also when the vote
   was cast after the snapshot and the UPDATE marks it along with another. *)
AskedBeforeMarked ==
    [][\A v \in Votes : row[v] = "new" /\ row'[v] = "given" => Holding(VoterOf[v])']_vars

(* A rewarded vote is deleted only after its day: no crash, re-vote or late
   snapshot cuts a vote short. *)
VotesLastADay ==
    [][\A v \in Votes : row'[v] = "deleted" /\ row[v] # "deleted" =>
         row[v] = "given" /\ v \in old]_vars

(* "Provides a role on the home server when someone votes": every voter whom
   the bot comes to know for good holds the role after the vote, unless the
   process dies meanwhile.  If it dies between the UPDATE and the sending of
   the request, nothing repeats the request. *)
EveryVoteIsRewarded ==
    \A v \in Votes, n \in 0..MaxCrashes :
        <>[](VoterOf[v] \in cached) =>
            (row[v] = "new" /\ crashes = n ~> VoterOf[v] \in role \/ crashes > n)

(* The row of every such vote is finally deleted, whatever the process had
   done of it when it died. *)
EveryVoteIsWorkedOff ==
    \A v \in Votes :
        <>[](VoterOf[v] \in cached) => (row[v] = "new" ~> row[v] = "deleted")

(* "Now additions, so that if they've re-voted, it doesnt remove it": between
   passes, with every request sent, who has a rewarded vote of the last day
   holds the role.  The code removes the role with the older vote and gives
   it only for rows that are not marked yet. *)
RevoteKeepsRole ==
    pc = "idle" /\ requests = <<>> =>
        \A u \in Voters :
            (\E v \in VotesOf(u) : row[v] = "given" /\ v \notin old) => u \in role
=============================================================================
