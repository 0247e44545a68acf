------------------------------- MODULE MCVoting ------------------------------
(* The instance of Voting that TLC checks. *)
EXTENDS Voting

CONSTANTS u1, u2, v1, v2, v3

\* u1 votes twice.
MCVoterOf == [v \in Votes |-> IF v = v3 THEN u2 ELSE u1]
=============================================================================
