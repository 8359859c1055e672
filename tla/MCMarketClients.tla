--------------------------- MODULE MCMarketClients ---------------------------
(* Four buyers of one offer that holds three units: those of the integration *)
(* test, one of them behind a bad line, and two of the Go client.            *)
EXTENDS MarketClients

CONSTANTS p1, p2, g1, g2

\* offers[0] in Python; the Go buyers' normally distributed index may leave
\* the list, rand.Intn(0) panics
MCIndices(b, n) == IF b \in PyBuyers THEN {1} ELSE 1 .. n + 1
=============================================================================
