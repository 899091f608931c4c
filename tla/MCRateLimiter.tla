---------------------------- MODULE MCRateLimiter ----------------------------
(* A client with its general key and its login key: the general window is   *)
(* the short one.                                                            *)
EXTENDS RateLimiter

CONSTANTS general, login

MCLimit == [k \in {general, login} |-> IF k = general THEN 2 ELSE 1]
MCWindow == [k \in {general, login} |-> IF k = general THEN 1 ELSE 3]
=============================================================================
