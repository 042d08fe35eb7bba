---------------------------- MODULE MCRateLimiter ----------------------------
(* Small instances of RateLimiter for TLC. *)
EXTENDS RateLimiter, TLC

CONSTANTS address, account

OneEach == [k \in Keys |-> 1]

(* A sign-in consumes both keys; the route of one key consumes the account *)
(* alone, so that the two windows may begin in either order.               *)
TwoRoutes == {<<address, account>>, <<account>>}

(* Clients differ in nothing.                                              *)
Alike == Permutations(Clients)
=============================================================================
