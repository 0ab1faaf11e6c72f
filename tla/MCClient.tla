------------------------------ MODULE MCClient ------------------------------
(* Two subscriptions and two unsubscribe() calls may be under way at once,  *)
(* with a call that waits for an answer besides.                            *)
EXTENDS Client

CONSTANTS c1, s1, s2, u1, u2

MCCalls == {c1}
MCSubs == {s1, s2}
MCUnsubs == {u1, u2}
=============================================================================
