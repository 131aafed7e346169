---------------------------- MODULE MCMppGateway ----------------------------
(***************************************************************************)
(* A cheap and a dear route and one without its keys, a transaction that   *)
(* may pay for the cheap one only, requests that may share a signature,    *)
(* and a clock that outlives both the age limit and the Redis key.         *)
(***************************************************************************)
EXTENDS MppGateway

CONSTANTS cheap, dear, closed

MCPrice == [route \in Routes |-> IF route = dear THEN 2 ELSE 1]

=============================================================================
