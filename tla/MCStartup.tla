------------------------------ MODULE MCStartup ------------------------------
(* Two remote backends that compete for one permit and two stdio backends,    *)
(* with different numbers of retries.                                         *)
EXTENDS Startup, TLC

CONSTANTS r1, r2, s1, s2

MCRetries == [b \in Backends |-> CASE b = r1 -> 2 [] b = s1 -> 1 [] OTHER -> 0]
=============================================================================
