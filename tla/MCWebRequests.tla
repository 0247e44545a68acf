---------------------------- MODULE MCWebRequests ----------------------------
(* The instance of WebRequests that TLC checks. *)
EXTENDS WebRequests

CONSTANTS c1, c2, c3, g1, g2, s1, s2

\* Two channels of one guild compete for its slot; another guild has its own.
MCGuildOf == [c \in Channels |-> IF c = c3 THEN g2 ELSE g1]
=============================================================================
