--------------------------- MODULE MCRateLimiter ---------------------------
(* Small instances of RateLimiter for TLC: max_requests and window_secs are  *)
(* scaled down, with the order of the windows of the file tiers kept.        *)
EXTENDS RateLimiter

MCMax    == [relay |-> 3, mid |-> 1, large |-> 1]
MCWindow == [relay |-> 3, mid |-> 2, large |-> 3]

=============================================================================
