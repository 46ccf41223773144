---------------------------- MODULE MCRateLimiter ----------------------------
(* An instance of RateLimiter: two senders behind one proxy, a header that  *)
(* is absent or names the other sender, two requests a minute of three      *)
(* seconds.                                                                 *)
EXTENDS RateLimiter

CONSTANTS c1, c2, proxy

SomeClaims == {<<>>, <<c2>>}
=============================================================================
