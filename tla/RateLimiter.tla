---------------------------- MODULE RateLimiter ----------------------------
(***************************************************************************)
(* The in-memory rate limiters of one server process and the requests that *)
(* consult them.  A limiter counts the requests of a key in a window that  *)
(* starts with the first of them; a periodic task drops idle entries.      *)
(*                                                                         *)
(* Time is kept as ages, so it needs no bound.  is_allowed reads the clock *)
(* before it takes the mutex: a request may wait for the lock, up to Skew  *)
(* ticks, while the instant it read grows old.                             *)
(***************************************************************************)
EXTENDS Naturals, Sequences, Functions

CONSTANTS Keys,               \* limiter keys (first 32 bytes of a key or hash)
          Kinds,              \* kinds of request made, a subset of DOMAIN Path
          Requests,           \* slots for requests in flight
          MaxRequests,        \* max_requests of each limiter
          WindowTicks,        \* window_secs of each limiter
          Skew                \* longest wait for the mutex, in ticks

\* The limiters each kind of request consults, in order: push_relay, push_blob
\* and the size tiers of send_message (a large file counts as a medium one).
Path == [relay |-> <<"relay">>, blob |-> <<"blob">>,
         mid |-> <<"mid">>, large |-> <<"large", "mid">>]

Limiters == UNION {Range(Path[d]) : d \in Kinds}

ASSUME KindsAssumption == Kinds \subseteq DOMAIN Path
ASSUME LimitsAssumption == \A l \in Limiters : MaxRequests[l] \in Nat \ {0}
ASSUME SkewAssumption ==
  /\ Skew \in Nat
  /\ \A l \in Limiters : WindowTicks[l] \in Nat /\ Skew < WindowTicks[l]

VARIABLES
  map,       \* map[l][k]: the age of the window of k and the requests counted
             \*   in it; count 0 = no entry
  req,       \* req[r]: a request: its key, the limiters left to pass, and how long
             \*   ago it read the clock for the first of them
  full,      \* history: the map of a limiter that is never cleaned up
  recent     \* history: recent[l][k][n] = how long ago l admitted the n-th last
             \*   request of k, WindowTicks[l] when that is longer ago or never was

vars == <<map, req, full, recent>>

NoEntry == [age |-> 0, count |-> 0]
Idle    == [path |-> <<>>]

Entry(l) == [age : 0..(2 * WindowTicks[l]), count : 0..MaxRequests[l]]

\* The admissions remembered, and how long ago each was.
Ranks(l) == 1..(2 * MaxRequests[l])
Ages(l)  == [Ranks(l) -> 0..WindowTicks[l]]

\* What is left of a path: all of it or, after the first limiter, its tail.
Paths   == (UNION {{Path[d], Tail(Path[d])} : d \in Kinds}) \ {<<>>}
Request == {Idle} \cup [key : Keys, path : Paths, wait : 0..Skew]

TypeOK == /\ {map, full} \subseteq [Limiters -> [Keys -> [age : Nat, count : Nat]]]
          /\ recent = [l \in Limiters |-> [k \in Keys |-> recent[l][k]]]
          /\ \A l \in Limiters, k \in Keys : /\ {map[l][k], full[l][k]} \subseteq Entry(l)
                                             /\ recent[l][k] \in Ages(l)
          /\ req \in [Requests -> Request]

Init == /\ map = [l \in Limiters |-> [k \in Keys |-> NoEntry]]
        /\ full = map
        /\ recent = [l \in Limiters |-> [k \in Keys |->
                       [n \in Ranks(l) |-> WindowTicks[l]]]]
        /\ req = [r \in Requests |-> Idle]

-----------------------------------------------------------------------------
(* KeyRateLimiter *)

\* Mutant: the window ends one tick too early.
OverEarly(l, e) == e.count = 0 \/ e.age >= WindowTicks[l] - 1

\* The window of e is over, or e was just made by or_insert.
Over(l, e) == e.count = 0 \/ e.age >= WindowTicks[l]

\* Mutant: `<=' for `<', one request more than max_requests is counted.
AllowedOneMore(l, e) == Over(l, e) \/ e.count <= MaxRequests[l]

\* is_allowed, its answer ...
Allowed(l, e) == Over(l, e) \/ e.count < MaxRequests[l]

\* Mutant: a request in the window moves the start of the window.
CountedSliding(l, e, wait) ==
  IF Over(l, e) THEN [age |-> wait, count |-> 1]
  ELSE [age |-> wait, count |-> IF Allowed(l, e) THEN e.count + 1 ELSE e.count]

\* ... and the entry it leaves: a new window starts at the instant the request
\* read before it waited for the lock; a refused request changes nothing.
Counted(l, e, wait) ==
  IF Over(l, e) THEN [age |-> wait, count |-> 1]
  ELSE IF Allowed(l, e) THEN [e EXCEPT !.count = @ + 1]
  ELSE e

\* Mutant: idle entries are dropped before their window is over.
CleanedEarly(l, e) == IF e.age >= WindowTicks[l] - 1 THEN NoEntry ELSE e

\* cleanup keeps the entries younger than two windows.
Cleaned(l, e) == IF e.age >= 2 * WindowTicks[l] THEN NoEntry ELSE e

\* An entry one tick later; beyond two windows its age is no longer told apart.
Older(l, e) == IF e.count > 0 /\ e.age < 2 * WindowTicks[l]
               THEN [e EXCEPT !.age = @ + 1] ELSE e

\* History: the ages of the admissions after one more, and one tick later.
Pushed(l, a) == [n \in Ranks(l) |-> IF n = 1 THEN 0 ELSE a[n - 1]]
Aged(l, a)   == [n \in Ranks(l) |-> IF a[n] < WindowTicks[l] THEN a[n] + 1 ELSE a[n]]

-----------------------------------------------------------------------------
(* Steps *)

\* A request reaches its first limiter (and reads the clock there).
Arrive(r, k, d) ==
  /\ req[r] = Idle
  /\ req' = [req EXCEPT ![r] = [key |-> k, path |-> Path[d], wait |-> 0]]
  /\ UNCHANGED <<map, full, recent>>

\* It holds the mutex of this limiter: admitted, it goes on to the next limiter
\* or is accepted; refused, it ends.
Check(r) ==
  /\ req[r] # Idle
  /\ LET k    == req[r].key
         l    == Head(req[r].path)
         rest == Tail(req[r].path)
         w    == req[r].wait
         ok   == Allowed(l, map[l][k])
     IN  /\ map' = [map EXCEPT ![l][k] = Counted(l, @, w)]
         /\ full' = [full EXCEPT ![l][k] = Counted(l, @, w)]
         /\ recent' = IF ok THEN [recent EXCEPT ![l][k] = Pushed(l, @)] ELSE recent
         /\ req' = [req EXCEPT ![r] =
                      IF ok /\ rest # <<>>
                      THEN [@ EXCEPT !.path = rest, !.wait = 0] ELSE Idle]

\* cleanup_all, from the periodic task of main.
CleanupAll == /\ map' = [l \in Limiters |-> [k \in Keys |-> Cleaned(l, map[l][k])]]
              /\ UNCHANGED <<req, full, recent>>

\* One tick passes; no request waits longer than Skew.
Tick ==
  /\ \A r \in Requests : req[r] # Idle => req[r].wait < Skew
  /\ map' = [l \in Limiters |-> [k \in Keys |-> Older(l, map[l][k])]]
  /\ full' = [l \in Limiters |-> [k \in Keys |-> Older(l, full[l][k])]]
  /\ recent' = [l \in Limiters |-> [k \in Keys |-> Aged(l, recent[l][k])]]
  /\ req' = [r \in Requests |-> IF req[r] = Idle THEN Idle
                                ELSE [req[r] EXCEPT !.wait = @ + 1]]

Next == \/ \E r \in Requests :
             \/ \E k \in Keys, d \in Kinds : Arrive(r, k, d)
             \/ Check(r)
        \/ CleanupAll
        \/ Tick

Spec == Init /\ [][Next]_vars

\* Time passes, and a request that arrived gets the mutex.
FairSpec == Spec /\ WF_vars(Tick) /\ \A r \in Requests : WF_vars(Check(r))

-----------------------------------------------------------------------------
(* Properties *)

\* The guarantee of the fixed windows: in any span one window long, less the
\* wait for the lock, fewer than twice max_requests are admitted; with
\* max_requests = 1 (the file tiers) this is the limit itself.  Of the last
\* 2 * max_requests admissions of a key the first is at least that long ago.
SpanBound == \A l \in Limiters, k \in Keys :
               recent[l][k][2 * MaxRequests[l]] >= WindowTicks[l] - Skew

\* The periodic cleanup never changes an answer: at any time the map and the
\* map of a limiter that keeps its entries forever would answer alike.
CleanupTransparent == \A l \in Limiters, k \in Keys :
                        Allowed(l, map[l][k]) <=> Allowed(l, full[l][k])

\* A key is never locked out: however many requests it makes while refused,
\* the limiter opens again.
NeverLockedOut == \A l \in Limiters, k \in Keys : []<>Allowed(l, map[l][k])
=============================================================================
