---------------------------- MODULE MCMessaging ----------------------------
(* Small instances of Messaging for TLC. *)
EXTENDS Messaging, TLC

CONSTANTS alice, bob

\* Two messages to bob, twice the page, one of which expires.
MCIds      == 1..2
MCEnvelope == <<[from |-> alice, to |-> bob, ttl |-> 0],
                [from |-> alice, to |-> bob, ttl |-> 1]>>
=============================================================================
