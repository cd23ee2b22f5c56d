--------------------------- MODULE MCRateLimiter ---------------------------
(* RateLimiter for TLC: a prompt event and one that may take any time. *)
EXTENDS RateLimiter

=============================================================================
