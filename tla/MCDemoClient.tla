---------------------------- MODULE MCDemoClient -----------------------------
(***************************************************************************)
(* Two users with the same key; one polls without a pause, the other's     *)
(* sleep outlasts the deadline.  There are two runs that requests with the *)
(* key may create, and two that requests without it would.                 *)
(***************************************************************************)
EXTENDS DemoClient

CONSTANTS c1, c2, r1, r2

MCScopeOf == [c \in Clients |-> "k"]
MCRunScope == [r \in Runs |-> IF r \in {r1, r2} THEN "k" ELSE Unscoped]
MCTimeout == [c \in Clients |-> IF c = c1 THEN 1 ELSE 2]
MCPoll    == [c \in Clients |-> IF c = c1 THEN 0 ELSE 3]
===============================================================================
